------------------------------- MODULE Selection -------------------------------
(***************************************************************************)
(* Which cases a run of the binary executes: the gates at the head of a    *)
(* case's body (ScopeGate.h, TierGate.h, CapabilityGate.h, RialtoRelease.h)*)
(* and the check of the scope in main.cpp.  A case that is not selected is *)
(* reported as skipped.                                                    *)
(***************************************************************************)
EXTENDS Naturals, Sequences

\* A release is its dotted components, each the characters it is written with: "v0.24.0".
Letter == 10
kTargetRialtoRelease == <<<<Letter, 0>>, <<2, 4>>, <<0>>>>

Levels == {"L1", "L2", "L3", "L4"}
ScopeIsValid(scope) == scope \in Levels \cup {"full"}

\* A class of cases is named for its level, so the prefix of its name is the level.
ScopeSelected(scope, case) == scope = "full" \/ case.level = scope

\* Any other tier, or none, selects both.
TierSelected(tier, case) == tier \in {"core", "extended"} => case.tier = tier

\* A profile that was not loaded, or does not name the feature, does not support it.
Supports(profile, case) == case.cap = "none" \/ case.cap \in profile

\* The number a component is parsed to: its digits, all else ignored; 0 if it is missing.
Number(release, n) ==
  IF n > Len(release) THEN 0
  ELSE LET digits == SelectSeq(release[n], LAMBDA c : c # Letter)
           value[i \in 0 .. Len(digits)] ==
             IF i = 0 THEN 0 ELSE 10 * value[i - 1] + digits[i]
       IN value[Len(digits)]

\* releaseAtLeast: the first component that differs decides.
ReleaseAtLeast(have, need) ==
  \A n \in 1 .. 3 :
    \/ Number(have, n) >= Number(need, n)
    \/ \E earlier \in 1 .. n - 1 : Number(have, earlier) > Number(need, earlier)

\* CONFORMANCE_CORE_TEST or CONFORMANCE_EXTENDED_TEST, then the requirements.
Selected(scope, tier, profile, case) ==
  /\ ScopeSelected(scope, case)
  /\ TierSelected(tier, case)
  /\ Supports(profile, case)
  /\ ReleaseAtLeast(kTargetRialtoRelease, case.since)
===============================================================================
