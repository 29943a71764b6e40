----------------------------- MODULE MCClientCases -----------------------------
(***************************************************************************)
(* All the cases of ClientCases, with the faults each is there to catch,   *)
(* those its comment names and its assertions do not see, and for the one  *)
(* that changes the server's state the faults it must clean up after.      *)
(***************************************************************************)
EXTENDS ClientCases

AllCases == DOMAIN Suite

Caught(c) ==
  Suite[c].catches
    \cup Unasserted(c)
    \cup (IF c = "RegisteredClientIsNotifiedOfStateTransition" THEN {Loses, Slow} ELSE {})
===============================================================================
