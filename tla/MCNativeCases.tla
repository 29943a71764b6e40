----------------------------- MODULE MCNativeCases -----------------------------
(***************************************************************************)
(* The cases of NativeCases, and the servers they meet.                    *)
(***************************************************************************)
EXTENDS NativeCases

AllCases == DOMAIN Suite

\* Every fault the case is there to catch or says it is, and a platform without the
\* property.
Caught(c) ==
  Suite[c].catches \cup Unasserted(c)
    \cup (IF c \in ConformWhenSupported THEN {Lacks("property")} ELSE {})

NoFaults(c) == {}
===============================================================================
