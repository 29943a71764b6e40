------------------------------ MODULE CaseScript ------------------------------
(***************************************************************************)
(* What the modules of test cases share.  A case is a script of steps: its *)
(* calls, assertions, waits and reads in the order of its body.  What it   *)
(* tests is conforming, or has one fault, which may never show.  The case  *)
(* has failed as soon as one of its assertions has not held.               *)
(***************************************************************************)
EXTENDS Naturals, Sequences

VARIABLES
  case,   \* the case under way
  fault,  \* the fault of what it tests, or Conforming
  shown,  \* history: the fault has changed something
  pc,     \* the next step of the case
  failed  \* an assertion has not held

scriptVars == <<case, fault, shown, pc, failed>>

-----------------------------------------------------------------------------
(***************************************************************************)
(* Steps.  The result of a step is asserted ("hold"), asserted fatally     *)
(* ("abort"), or ignored; a destructor or a fixture runs it even after a   *)
(* fatal failure ("always").                                               *)
(***************************************************************************)
Step(do, what, value, must) ==
  [do |-> do, what |-> what, value |-> value, must |-> must]

Call(op)        == Step("call", op, TRUE, "hold")
Setup(op)       == Step("call", op, TRUE, "abort")
Plain(op)       == Step("call", op, TRUE, "ignored")
Always(op)      == Step("call", op, TRUE, "always")
Mode(op, value) == Step("call", op, value, "ignored")
Write(value)    == Step("write", "property", value, "hold")
Poll(value)     == Step("poll", "property", value, "hold")
PollIfSupported == Step("pollIfSupported", "property", TRUE, "hold")
Get(op, value)  == Step("get", op, value, "hold")
Require(op, value) == Step("get", op, value, "abort")
Await(notice)   == Step("await", notice, TRUE, "hold")
Reach(notice)   == Step("await", notice, TRUE, "abort")
Glance(notice)  == Step("await", notice, TRUE, "ignored")
Check(what)     == Step("check", what, TRUE, "hold")
Ensure(what)    == Step("check", what, TRUE, "abort")
Sleep           == Step("sleep", "for", TRUE, "ignored")

\* A case: its script, and the faults its assertions are there to catch.
Case(script, catches) == [script |-> script, catches |-> catches]

Over(script)       == pc > Len(script)
Done(script, step) == \E k \in 1 .. pc - 1 : script[k] = step

\* Where a case goes on after a fatal failure: to what is done in any case, or nowhere.
Aftermath(script) ==
  LET ends == {k \in pc + 1 .. Len(script) : script[k].must = "always"} \cup {Len(script) + 1}
  IN  CHOOSE k \in ends : \A j \in ends : k <= j

\* The step of the script has given this result.
Judge(script, ok) ==
  /\ failed' = (failed \/ (~ok /\ script[pc].must \in {"hold", "abort"}))
  /\ pc' = IF ~ok /\ script[pc].must = "abort" THEN Aftermath(script) ELSE pc + 1
  /\ UNCHANGED case

-----------------------------------------------------------------------------
(***************************************************************************)
(* Faults.                                                                 *)
(***************************************************************************)
Fault(kind, what, by) == [kind |-> kind, what |-> what, by |-> by]

Conforming        == Fault("none", "none", "none")
Lacks(property)   == Fault("lacks", property, "none")      \* a platform without it
Refuses(call)     == Fault("refuses", call, "none")        \* it returns false
Ignores(property) == Fault("ignores", property, "none")    \* accepted, not applied
Misanswers(call)  == Fault("misanswers", call, "none")     \* the opposite answer
Silences(event)   == Fault("silences", event, "none")      \* never notified
Spoils(event, n)  == Fault("spoils", event, n)             \* n notified first
RejectsSegment    == Fault("rejects", "addSegment", "none")

ScriptInit(cases, faultsOf(_)) ==
  /\ case \in cases
  /\ fault \in {Conforming} \cup faultsOf(case)
  /\ shown = FALSE
  /\ pc = 1
  /\ failed = FALSE
===============================================================================
