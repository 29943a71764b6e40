----------------------------- MODULE MCAdjudication -----------------------------
(***************************************************************************)
(* Cases of two levels and of either tier, one of them for a feature the   *)
(* platform lacks; an invocation that asks for L1 runs one of them, one    *)
(* that asks for L2 none.                                                  *)
(***************************************************************************)
EXTENDS Adjudication

TheCase(level, tier, cap) ==
  [level |-> level, tier |-> tier, cap |-> cap, since |-> kTargetRialtoRelease]

MCTestCases ==
  {TheCase("L1", "core", "none"), TheCase("L1", "core", "drm.clearkey"),
   TheCase("L1", "extended", "none"), TheCase("L4", "core", "none")}
MCScopes == {"L1", "L2"}
MCTiers == {"core"}

\* The shipped slots configure every option or the package alone (device_config.yml); a
\* target prepared by hand is up already, or has a launch that needs no tearing down.
ShippedSlots == {Options, {"fetch"}}
MCSlots == ShippedSlots \cup {{"envFile"}, {"launch", "envFile"}}

\* setUp and the binary refuse any other scope.
ASSUME ScopesAreValid == \A scope \in MCScopes : ScopeIsValid(scope)

\* The releases written with these components.
Component == {<<0>>, <<9>>, <<1, 0>>, <<2, 4>>}
Releases == {<<<<Letter>> \o a, b, c>> : a, b, c \in Component} \cup {<<<<Letter, 0>>, <<2, 4>>>>}

Weight(r) == 10000 * Number(r, 1) + 100 * Number(r, 2) + Number(r, 3)

\* The gate orders releases by their numbers, and a missing component is 0.
ASSUME ReleasesAreOrdered ==
  \A have, need \in Releases : ReleaseAtLeast(have, need) <=> Weight(have) >= Weight(need)

\* The scopes of the levels divide the whole suite among them.
ASSUME ScopesDivide ==
  \A c \in MCTestCases : \A tier \in {"core", "extended", "all"} :
    Selected("full", tier, {}, c) => \E level \in Levels :
      \A scope \in Levels : Selected(scope, tier, {}, c) <=> scope = level
===============================================================================
