--------------------------- MODULE AdjudicationProofs ---------------------------
(***************************************************************************)
(* Proofs about the adjudicator of Adjudication, for every set of cases    *)
(* and profile and any number of invocations: a pass is earned, a failure  *)
(* has a cause, and what was launched is torn down.                        *)
(***************************************************************************)
EXTENDS Adjudication, TLAPS

-----------------------------------------------------------------------------
(***************************************************************************)
(* The order of what an invocation does.                                   *)
(***************************************************************************)
Rank(op) == CASE op = "package"    -> 1
              [] op = "unpack"     -> 2
              [] op = "probe"      -> 3
              [] op = "launch"     -> 4
              [] op = "hfp"        -> 5
              [] op = "run"        -> 6
              [] op = "collect"    -> 7
              [] op = "copy"       -> 8
              [] op = "teardown"   -> 9
              [] op = "adjudicate" -> 10
              [] OTHER             -> 11

\* How far the invocation has got: past everything once nothing is left to do.
Place == IF todo = << >> THEN 11 ELSE Rank(Op)

\* What may be left of a test: an operation and those after it, or the teardown alone.
PackageOn    == <<"package", "unpack", "probe">>
UnpackOn     == <<"unpack", "probe">>
ProbeOn      == <<"probe">>
LaunchOn     == <<"launch">>
HfpOn        == <<"hfp", "run", "collect", "copy", "teardown", "adjudicate">>
RunOn        == <<"run", "collect", "copy", "teardown", "adjudicate">>
CollectOn    == <<"collect", "copy", "teardown", "adjudicate">>
CopyOn       == <<"copy", "teardown", "adjudicate">>
TeardownOn   == <<"teardown", "adjudicate">>
AdjudicateOn == <<"adjudicate">>
TeardownOnly == <<"teardown">>

PlanInv ==
  \/ test = 1 /\ todo \in {PackageOn, UnpackOn, ProbeOn}
  \/ test = 2 /\ todo = LaunchOn
  \/ test = 3 /\ todo \in {HfpOn, RunOn, CollectOn, CopyOn, TeardownOn, AdjudicateOn}
  \/ test = 3 /\ todo = TeardownOnly /\ failed # {}
  \/ test = 4 /\ todo = << >>

-----------------------------------------------------------------------------
(***************************************************************************)
(* The invariant.                                                          *)
(***************************************************************************)
Report   == [inv : Nat, ran : SUBSET TestCases, failed : SUBSET TestCases]
Commands == [op : Typed, inv : Nat, cases : SUBSET TestCases]

TypeInv ==
  /\ inv \in Nat \ {0}
  /\ slot \in Slots /\ waiting \in BOOLEAN
  /\ verdict \in {"none", "pass", "fail"}
  /\ console \in Seq(Commands) /\ loose \subseteq Commands
  /\ markers \subseteq [op : Typed, status : {"ok", "error"}]
  /\ binary \in Nat /\ server \in Nat
  /\ reports \in Seq(Report) /\ collected \in Report /\ local \in Report

\* A command waited for has been typed.
WaitingInv == waiting => todo # << >> /\ Op \in Typed /\ ~Omitted(Op)

\* The console works for this invocation, on what has been typed, each command once.
ConsoleInv ==
  /\ \A k \in DOMAIN console :
       LET c == console[k] IN
         /\ c.inv = inv /\ c.cases = Applicable
         /\ Rank(c.op) <= Place /\ (Rank(c.op) = Place => waiting)
         /\ test = 3 => c.op # "launch"
         /\ c.op = "launch" => "launch" \in slot
         /\ c.op \in troubles \/ (waiting /\ c.op = Op)
  /\ \A k, l \in DOMAIN console : console[k].op = console[l].op => k = l
  /\ todo = << >> => console = << >>

\* A marker is of something typed and done.
MarkersInv ==
  /\ \A m \in markers :
       /\ Rank(m.op) <= Place /\ (Rank(m.op) = Place => waiting)
       /\ \A k \in DOMAIN console : m.op # console[k].op
       /\ m.status = "error" => m.op \in troubles
       /\ \A n \in markers : m.op = n.op => m = n
  /\ todo = << >> => markers = {}

\* A command that has lost its console was given up, by this invocation or before.
LooseInv ==
  \A c \in loose : /\ c.inv <= inv
                   /\ c.op = "launch" => "launch" \in slot
                   /\ c.inv = inv => c.op \in troubles /\ c.cases = Applicable

\* A report of this invocation ran the cases that apply; none is of a later one.
OfCases(report) == report.inv <= inv /\ (report.inv = inv => report.ran = Applicable)

ReportsInv ==
  /\ \A i \in DOMAIN reports : OfCases(reports[i])
  /\ OfCases(collected) /\ OfCases(local)

Marked(op) == \E m \in markers : m.op = op

\* The run was given up, failed, or has been overtaken by one given up earlier.
Overtaken ==
  \/ "run" \in troubles
  \/ \E i \in OwnReports, j \in DOMAIN reports : i < j /\ reports[j].inv < inv

\* What each step leaves behind, once its marker is there or the host has got past it.
UnpackInv ==
  Marked("unpack") \/ (Place > 2 /\ failed = {}) =>
    binary = inv \/ "fetch" \notin slot \/ "unpack" \in troubles \cup late

LaunchInv ==
  "launch" \in troubles =>
    \/ failed # {}
    \/ waiting /\ Op = "launch" /\ [op |-> "launch", status |-> "error"] \in markers

RunInv ==
  Marked("run") \/ Place \in 7 .. 10 => OwnReports # {} \/ "run" \in troubles

CollectInv ==
  /\ (\E m \in markers : m.op = "collect" /\ m.status = "ok")
       \/ (Place \in 8 .. 10 /\ failed = {}) =>
     collected.inv = inv \/ Overtaken
  /\ Place \in 9 .. 10 /\ failed = {} => local.inv = inv \/ Overtaken

TeardownInv ==
  /\ server <= inv /\ (server = inv => "launch" \in slot)
  /\ Marked("teardown") => server # inv \/ "launch" \in late
  /\ Place > 9 => \/ server # inv \/ "teardown" \notin slot
                  \/ {"hfp", "teardown"} \cap troubles # {} \/ "launch" \in late

\* The reasons for which an invocation passes or fails.
VerdictInv ==
  /\ todo = << >> <=> verdict # "none"
  /\ verdict = "pass" => /\ failed = {} /\ Acceptable(local)
                         /\ local.inv = inv \/ Overtaken
  /\ verdict = "fail" => failed # {}
  /\ failed # {} => \/ troubles # {}
                    \/ /\ verdict = "fail"
                       /\ ~Acceptable(local) /\ (local.inv = inv \/ Overtaken)

IInv == /\ TypeInv /\ PlanInv /\ WaitingInv /\ ConsoleInv /\ MarkersInv /\ LooseInv
        /\ ReportsInv /\ UnpackInv /\ LaunchInv /\ RunInv /\ CollectInv /\ TeardownInv
        /\ VerdictInv

-----------------------------------------------------------------------------
(***************************************************************************)
(* The plan.                                                               *)
(***************************************************************************)

\* Each list begins with its operation; what follows it is the next list.
LEMMA Lists ==
  /\ PackageOn # << >> /\ Head(PackageOn) = "package" /\ Tail(PackageOn) = UnpackOn
  /\ UnpackOn # << >> /\ Head(UnpackOn) = "unpack" /\ Tail(UnpackOn) = ProbeOn
  /\ ProbeOn # << >> /\ Head(ProbeOn) = "probe" /\ Tail(ProbeOn) = << >>
  /\ LaunchOn # << >> /\ Head(LaunchOn) = "launch" /\ Tail(LaunchOn) = << >>
  /\ HfpOn # << >> /\ Head(HfpOn) = "hfp" /\ Tail(HfpOn) = RunOn
  /\ RunOn # << >> /\ Head(RunOn) = "run" /\ Tail(RunOn) = CollectOn
  /\ CollectOn # << >> /\ Head(CollectOn) = "collect" /\ Tail(CollectOn) = CopyOn
  /\ CopyOn # << >> /\ Head(CopyOn) = "copy" /\ Tail(CopyOn) = TeardownOn
  /\ TeardownOn # << >> /\ Head(TeardownOn) = "teardown" /\ Tail(TeardownOn) = AdjudicateOn
  /\ AdjudicateOn # << >> /\ Head(AdjudicateOn) = "adjudicate" /\ Tail(AdjudicateOn) = << >>
  /\ TeardownOnly # << >> /\ Head(TeardownOnly) = "teardown" /\ Tail(TeardownOnly) = << >>
  BY DEF PackageOn, UnpackOn, ProbeOn, LaunchOn, HfpOn, RunOn, CollectOn, CopyOn,
         TeardownOn, AdjudicateOn, TeardownOnly

\* The tests.
LEMMA TestLists ==
  Len(Tests) = 3 /\ Tests[1] = PackageOn /\ Tests[2] = LaunchOn /\ Tests[3] = HfpOn
  BY DEF Tests, PackageOn, LaunchOn, HfpOn

\* An invocation's operations come one after the other, each at a place of its own.
LEMMA Ranks ==
  /\ Rank("package") = 1 /\ Rank("unpack") = 2 /\ Rank("probe") = 3 /\ Rank("launch") = 4
  /\ Rank("hfp") = 5 /\ Rank("run") = 6 /\ Rank("collect") = 7 /\ Rank("copy") = 8
  /\ Rank("teardown") = 9 /\ Rank("adjudicate") = 10
  /\ \A op \in Typed \cup {"package", "hfp", "copy", "adjudicate"} : Rank(op) \in 1 .. 10
  /\ \A op, other \in Typed : Rank(op) = Rank(other) => op = other
  <1>1. Rank("package") = 1 /\ Rank("unpack") = 2 /\ Rank("probe") = 3 /\ Rank("launch") = 4
    BY DEF Rank
  <1>2. Rank("hfp") = 5 /\ Rank("run") = 6 /\ Rank("collect") = 7 /\ Rank("copy") = 8
    BY DEF Rank
  <1>3. Rank("teardown") = 9 /\ Rank("adjudicate") = 10
    BY DEF Rank
  <1>4. QED
    BY <1>1, <1>2, <1>3 DEF Typed

\* Where the invocation is, by what is left.
LEMMA Plan ==
  ASSUME PlanInv
  PROVE  /\ todo = << >> => test = 4 /\ Place = 11
         /\ todo # << >> => /\ test \in 1 .. 3 /\ Place = Rank(Op)
                            /\ Op \in Typed \cup {"package", "hfp", "copy", "adjudicate"}
                            /\ Op = "adjudicate" => todo = AdjudicateOn
                            /\ Op \in {"package", "unpack", "probe"} <=> test = 1
                            /\ Op = "launch" <=> test = 2
  <1>1. CASE todo = << >>
    BY <1>1, Lists DEF PlanInv, Place
  <1>2. CASE todo # << >>
    <2>1. Place = Rank(Op)
      BY <1>2 DEF Place
    <2>2. CASE test = 1 /\ todo \in {PackageOn, UnpackOn, ProbeOn}
      BY <1>2, <2>1, <2>2, Lists DEF Op, Typed
    <2>3. CASE test = 2 /\ todo = LaunchOn
      BY <1>2, <2>1, <2>3, Lists DEF Op, Typed
    <2>4. CASE test = 3 /\ todo \in {HfpOn, RunOn, CollectOn, CopyOn, TeardownOn, AdjudicateOn}
      BY <1>2, <2>1, <2>4, Lists DEF Op, Typed
    <2>5. CASE test = 3 /\ todo = TeardownOnly
      BY <1>2, <2>1, <2>5, Lists DEF Op, Typed
    <2>6. QED
      BY <1>2, <2>2, <2>3, <2>4, <2>5 DEF PlanInv
  <1>3. QED
    BY <1>1, <1>2

\* The place is a number, and the last one only where nothing is left.
LEMMA Places ==
  ASSUME PlanInv
  PROVE  Place \in 1 .. 11 /\ (Place = 11 <=> todo = << >>)
  BY Plan, Ranks

\* What the host does next, however the operation under way has ended: never again
\* what it has done before.
LEMMA ProceedPlan ==
  ASSUME PlanInv, todo # << >>, verdict = "none", NEW ok \in BOOLEAN, Proceed(ok)
  PROVE  /\ PlanInv' /\ Place' > Place
         /\ Place' \in 1 .. 11 /\ (Place' = 11 <=> todo' = << >>)
         /\ failed' = IF ok THEN failed ELSE failed \cup {test}
         /\ waiting' = FALSE
         /\ \/ todo' # << >> /\ test' = test /\ verdict' = "none" /\ UNCHANGED shell
            \/ todo' # << >> /\ Hangup /\ verdict' = "none"
            \/ todo' = << >> /\ Hangup /\ verdict' = IF failed' = {} THEN "pass" ELSE "fail"
         /\ todo' = << >> /\ failed' = {} => ok /\ Op = "adjudicate"
         /\ Op = "adjudicate" => todo' = << >>
         /\ Place' > 2 /\ Place < 3 /\ failed' = {} => Op = "unpack"
         /\ Place' \in 7 .. 10 /\ Place < 7 => Op = "run"
         /\ Place' \in 8 .. 10 /\ Place < 8 /\ failed' = {} => ok /\ Op = "collect"
         /\ Place' \in 9 .. 10 /\ Place < 9 /\ failed' = {} => ok /\ Op = "copy"
         /\ Place' > 9 /\ Place < 10 => Op = "teardown" \/ (Op = "hfp" /\ ~ok)
  <1> DEFINE rest == IF ok THEN Tail(todo) ELSE Finally
  <1>1. /\ failed' = IF ok THEN failed ELSE failed \cup {test}
        /\ waiting' = FALSE
        /\ rest # << >> => todo' = rest /\ UNCHANGED <<test, verdict, shell>>
        /\ rest = << >> =>
             /\ Hangup /\ test' = test + 1
             /\ todo' = IF test < Len(Tests) THEN Tests[test + 1] ELSE << >>
             /\ verdict' = IF test < Len(Tests) THEN verdict
                           ELSE IF failed' = {} THEN "pass" ELSE "fail"
    BY DEF Proceed
  <1>a. ~ok => failed' # {}
    BY <1>1
  <1>2. Finally = IF Op \in {"run", "collect", "copy"} THEN TeardownOnly ELSE << >>
    BY DEF Finally, TeardownOnly
  <1>3. rest # << >> => Place' = Rank(Head(rest))
    BY <1>1 DEF Place, Op
  <1>4. /\ rest = << >> /\ test = 1 => todo' = LaunchOn /\ test' = 2 /\ Place' = 4
        /\ rest = << >> /\ test = 2 => todo' = HfpOn /\ test' = 3 /\ Place' = 5
        /\ rest = << >> /\ test \in {1, 2} => Hangup /\ verdict' = "none"
    <2>1. rest = << >> /\ test = 1 => todo' = Tests[2] /\ test' = 2
      BY <1>1, TestLists
    <2>2. rest = << >> /\ test = 2 => todo' = Tests[3] /\ test' = 3
      BY <1>1, TestLists
    <2>3. rest = << >> /\ test \in {1, 2} => Hangup /\ verdict' = "none"
      BY <1>1, TestLists
    <2>4. todo' = LaunchOn => Place' = 4
      BY Lists, Ranks DEF Place, Op
    <2>5. todo' = HfpOn => Place' = 5
      BY Lists, Ranks DEF Place, Op
    <2>6. QED
      BY <2>1, <2>2, <2>3, <2>4, <2>5, TestLists
  <1>5. rest = << >> /\ test = 3 =>
          /\ todo' = << >> /\ test' = 4 /\ Place' = 11
          /\ Hangup /\ verdict' = IF failed' = {} THEN "pass" ELSE "fail"
    <2>1. rest = << >> /\ test = 3 => test' = 4 /\ todo' = << >>
      BY <1>1, TestLists
    <2>2. QED
      BY <1>1, <2>1, TestLists DEF Place
  <1>6. CASE test = 1 /\ todo = PackageOn
    <2>1. Op = "package" /\ Place = 1 /\ Tail(todo) = UnpackOn
      BY <1>6, Lists, Ranks DEF Place, Op
    <2>2. rest = IF ok THEN UnpackOn ELSE << >>
      BY <1>2, <2>1
    <2>3. ok => /\ todo' = UnpackOn /\ test' = 1 /\ Place' = 2
                /\ todo' # << >> /\ UNCHANGED shell /\ verdict' = "none"
      BY <1>1, <1>3, <1>4, <1>5, <1>6, <2>2, Lists, TestLists, Ranks DEF shell
    <2>4. ~ok => /\ todo' = LaunchOn /\ test' = 2 /\ Place' = 4
                 /\ todo' # << >> /\ Hangup /\ verdict' = "none"
      BY <1>1, <1>3, <1>4, <1>5, <1>6, <2>2, Lists, TestLists, Ranks DEF shell
    <2>5. PlanInv' /\ Place' > Place
      BY <1>a, <1>6, <2>1, <2>3, <2>4 DEF PlanInv
    <2>6. CASE ok
      BY <1>1, <2>1, <2>3, <2>5, <2>6
    <2>7. CASE ~ok
      BY <1>1, <1>a, <2>1, <2>4, <2>5, <2>7
    <2>8. QED
      BY <2>6, <2>7
  <1>7. CASE test = 1 /\ todo = UnpackOn
    <2>1. Op = "unpack" /\ Place = 2 /\ Tail(todo) = ProbeOn
      BY <1>7, Lists, Ranks DEF Place, Op
    <2>2. rest = IF ok THEN ProbeOn ELSE << >>
      BY <1>2, <2>1
    <2>3. ok => /\ todo' = ProbeOn /\ test' = 1 /\ Place' = 3
                /\ todo' # << >> /\ UNCHANGED shell /\ verdict' = "none"
      BY <1>1, <1>3, <1>4, <1>5, <1>7, <2>2, Lists, TestLists, Ranks DEF shell
    <2>4. ~ok => /\ todo' = LaunchOn /\ test' = 2 /\ Place' = 4
                 /\ todo' # << >> /\ Hangup /\ verdict' = "none"
      BY <1>1, <1>3, <1>4, <1>5, <1>7, <2>2, Lists, TestLists, Ranks DEF shell
    <2>5. QED
      BY <1>1, <1>a, <1>7, <2>1, <2>3, <2>4 DEF PlanInv
  <1>8. CASE test = 1 /\ todo = ProbeOn
    <2>1. Op = "probe" /\ Place = 3 /\ Tail(todo) = << >>
      BY <1>8, Lists, Ranks DEF Place, Op
    <2>2. rest = << >>
      BY <1>2, <2>1
    <2>3. /\ todo' = LaunchOn /\ test' = 2 /\ Place' = 4
          /\ todo' # << >> /\ Hangup /\ verdict' = "none"
      BY <1>1, <1>3, <1>4, <1>5, <1>8, <2>2, Lists, TestLists, Ranks DEF shell
    <2>4. QED
      BY <1>1, <1>a, <1>8, <2>1, <2>3 DEF PlanInv
  <1>9. CASE test = 2 /\ todo = LaunchOn
    <2>1. Op = "launch" /\ Place = 4 /\ Tail(todo) = << >>
      BY <1>9, Lists, Ranks DEF Place, Op
    <2>2. rest = << >>
      BY <1>2, <2>1
    <2>3. /\ todo' = HfpOn /\ test' = 3 /\ Place' = 5
          /\ todo' # << >> /\ Hangup /\ verdict' = "none"
      BY <1>1, <1>3, <1>4, <1>5, <1>9, <2>2, Lists, TestLists, Ranks DEF shell
    <2>4. QED
      BY <1>1, <1>a, <1>9, <2>1, <2>3 DEF PlanInv
  <1>10. CASE test = 3 /\ todo = HfpOn
    <2>1. Op = "hfp" /\ Place = 5 /\ Tail(todo) = RunOn
      BY <1>10, Lists, Ranks DEF Place, Op
    <2>2. rest = IF ok THEN RunOn ELSE << >>
      BY <1>2, <2>1
    <2>3. ok => /\ todo' = RunOn /\ test' = 3 /\ Place' = 6
                /\ todo' # << >> /\ UNCHANGED shell /\ verdict' = "none"
      BY <1>1, <1>3, <1>4, <1>5, <1>10, <2>2, Lists, TestLists, Ranks DEF shell
    <2>4. ~ok => /\ todo' = << >> /\ test' = 4 /\ Place' = 11
                 /\ Hangup /\ verdict' = IF failed' = {} THEN "pass" ELSE "fail"
      BY <1>1, <1>3, <1>4, <1>5, <1>10, <2>2, Lists, TestLists, Ranks DEF shell
    <2>5. PlanInv' /\ Place' > Place
      BY <1>a, <1>10, <2>1, <2>3, <2>4 DEF PlanInv
    <2>6. CASE ok
      BY <1>1, <2>1, <2>3, <2>5, <2>6
    <2>7. CASE ~ok
      BY <1>1, <1>a, <2>1, <2>4, <2>5, <2>7
    <2>8. QED
      BY <2>6, <2>7
  <1>11. CASE test = 3 /\ todo = RunOn
    <2>1. Op = "run" /\ Place = 6 /\ Tail(todo) = CollectOn
      BY <1>11, Lists, Ranks DEF Place, Op
    <2>2. rest = IF ok THEN CollectOn ELSE TeardownOnly
      BY <1>2, <2>1
    <2>3. ok => /\ todo' = CollectOn /\ test' = 3 /\ Place' = 7
                /\ todo' # << >> /\ UNCHANGED shell /\ verdict' = "none"
      BY <1>1, <1>3, <1>4, <1>5, <1>11, <2>2, Lists, TestLists, Ranks DEF shell
    <2>4. ~ok => /\ todo' = TeardownOnly /\ test' = 3 /\ Place' = 9
                 /\ todo' # << >> /\ UNCHANGED shell /\ verdict' = "none"
      BY <1>1, <1>3, <1>4, <1>5, <1>11, <2>2, Lists, TestLists, Ranks DEF shell
    <2>5. QED
      BY <1>1, <1>a, <1>11, <2>1, <2>3, <2>4 DEF PlanInv
  <1>12. CASE test = 3 /\ todo = CollectOn
    <2>1. Op = "collect" /\ Place = 7 /\ Tail(todo) = CopyOn
      BY <1>12, Lists, Ranks DEF Place, Op
    <2>2. rest = IF ok THEN CopyOn ELSE TeardownOnly
      BY <1>2, <2>1
    <2>3. ok => /\ todo' = CopyOn /\ test' = 3 /\ Place' = 8
                /\ todo' # << >> /\ UNCHANGED shell /\ verdict' = "none"
      BY <1>1, <1>3, <1>4, <1>5, <1>12, <2>2, Lists, TestLists, Ranks DEF shell
    <2>4. ~ok => /\ todo' = TeardownOnly /\ test' = 3 /\ Place' = 9
                 /\ todo' # << >> /\ UNCHANGED shell /\ verdict' = "none"
      BY <1>1, <1>3, <1>4, <1>5, <1>12, <2>2, Lists, TestLists, Ranks DEF shell
    <2>5. QED
      BY <1>1, <1>a, <1>12, <2>1, <2>3, <2>4 DEF PlanInv
  <1>13. CASE test = 3 /\ todo = CopyOn
    <2>1. Op = "copy" /\ Place = 8 /\ Tail(todo) = TeardownOn
      BY <1>13, Lists, Ranks DEF Place, Op
    <2>2. rest = IF ok THEN TeardownOn ELSE TeardownOnly
      BY <1>2, <2>1
    <2>3. ok => /\ todo' = TeardownOn /\ test' = 3 /\ Place' = 9
                /\ todo' # << >> /\ UNCHANGED shell /\ verdict' = "none"
      BY <1>1, <1>3, <1>4, <1>5, <1>13, <2>2, Lists, TestLists, Ranks DEF shell
    <2>4. ~ok => /\ todo' = TeardownOnly /\ test' = 3 /\ Place' = 9
                 /\ todo' # << >> /\ UNCHANGED shell /\ verdict' = "none"
      BY <1>1, <1>3, <1>4, <1>5, <1>13, <2>2, Lists, TestLists, Ranks DEF shell
    <2>5. PlanInv' /\ Place' > Place
      BY <1>a, <1>13, <2>1, <2>3, <2>4 DEF PlanInv
    <2>6. QED
      BY <1>1, <1>a, <2>1, <2>3, <2>4, <2>5
  <1>14. CASE test = 3 /\ todo = TeardownOn
    <2>1. Op = "teardown" /\ Place = 9 /\ Tail(todo) = AdjudicateOn
      BY <1>14, Lists, Ranks DEF Place, Op
    <2>2. rest = IF ok THEN AdjudicateOn ELSE << >>
      BY <1>2, <2>1
    <2>3. ok => /\ todo' = AdjudicateOn /\ test' = 3 /\ Place' = 10
                /\ todo' # << >> /\ UNCHANGED shell /\ verdict' = "none"
      BY <1>1, <1>3, <1>4, <1>5, <1>14, <2>2, Lists, TestLists, Ranks DEF shell
    <2>4. ~ok => /\ todo' = << >> /\ test' = 4 /\ Place' = 11
                 /\ Hangup /\ verdict' = IF failed' = {} THEN "pass" ELSE "fail"
      BY <1>1, <1>3, <1>4, <1>5, <1>14, <2>2, Lists, TestLists, Ranks DEF shell
    <2>5. QED
      BY <1>1, <1>a, <1>14, <2>1, <2>3, <2>4 DEF PlanInv
  <1>15. CASE test = 3 /\ todo = AdjudicateOn
    <2>1. Op = "adjudicate" /\ Place = 10 /\ Tail(todo) = << >>
      BY <1>15, Lists, Ranks DEF Place, Op
    <2>2. rest = << >>
      BY <1>2, <2>1
    <2>3. /\ todo' = << >> /\ test' = 4 /\ Place' = 11
          /\ Hangup /\ verdict' = IF failed' = {} THEN "pass" ELSE "fail"
      BY <1>1, <1>3, <1>4, <1>5, <1>15, <2>2, Lists, TestLists, Ranks DEF shell
    <2>4. QED
      BY <1>1, <1>a, <1>15, <2>1, <2>3 DEF PlanInv
  <1>16. CASE test = 3 /\ todo = TeardownOnly /\ failed # {}
    <2>1. Op = "teardown" /\ Place = 9 /\ Tail(todo) = << >>
      BY <1>16, Lists, Ranks DEF Place, Op
    <2>2. rest = << >>
      BY <1>2, <2>1
    <2>3. /\ todo' = << >> /\ test' = 4 /\ Place' = 11
          /\ Hangup /\ verdict' = IF failed' = {} THEN "pass" ELSE "fail"
      BY <1>1, <1>3, <1>4, <1>5, <1>16, <2>2, Lists, TestLists, Ranks DEF shell
    <2>4. QED
      BY <1>1, <1>a, <1>16, <2>1, <2>3 DEF PlanInv
  <1>17. QED
    BY <1>6, <1>7, <1>8, <1>9, <1>10, <1>11, <1>12, <1>13, <1>14, <1>15, <1>16 DEF PlanInv

-----------------------------------------------------------------------------
(***************************************************************************)
(* The host.                                                               *)
(***************************************************************************)

\* What is said of reports stays true while they, the invocation and what it asks for
\* stay the same, and no trouble is forgotten.
LEMMA Unmoved ==
  ASSUME UNCHANGED <<inv, asked, reports>>, troubles \subseteq troubles'
  PROVE  /\ Applicable' = Applicable /\ OwnReports' = OwnReports
         /\ Overtaken => Overtaken'
         /\ \A report : OfCases(report)' <=> OfCases(report)
  <1>1. Applicable' = Applicable
    BY DEF Applicable
  <1>2. OwnReports' = OwnReports
    BY DEF OwnReports
  <1>3. Overtaken => Overtaken'
    BY <1>2 DEF Overtaken
  <1>4. QED
    BY <1>1, <1>2, <1>3 DEF OfCases

\* What holds when the operation under way is over, if it is one whose command was
\* typed: the command was given up, or has left its marker, and with it its effect.
Concluded(ok) ==
  /\ \A k \in DOMAIN console : console[k].op \in troubles'
  /\ Op = "unpack" => Marked("unpack") \/ "unpack" \in troubles' \/ "fetch" \notin slot
  /\ Op = "run" => Marked("run") \/ "run" \in troubles'
  /\ Op = "collect" /\ ok => \E m \in markers : m.op = "collect" /\ m.status = "ok"
  /\ Op = "teardown" => Marked("teardown") \/ "teardown" \in troubles' \/ "teardown" \notin slot
  /\ Op = "hfp" /\ ~ok => "hfp" \in troubles'
  /\ "launch" \in troubles' => ~ok \/ failed # {}
  /\ ~ok => troubles' # {} \/ Op = "adjudicate"
  /\ Op = "adjudicate" => (ok <=> Acceptable(local))
  /\ local' = IF Op = "copy" /\ ok THEN collected ELSE local

\* The host proceeds to the next operation.
LEMMA HostStep ==
  ASSUME IInv, todo # << >>, NEW ok \in BOOLEAN, Proceed(ok), Concluded(ok),
         UNCHANGED <<inv, asked, slot, late, target>>, troubles \subseteq troubles'
  PROVE  IInv'
  <1>0. /\ TypeInv /\ PlanInv /\ WaitingInv /\ ConsoleInv /\ MarkersInv /\ LooseInv
        /\ ReportsInv /\ UnpackInv /\ LaunchInv /\ RunInv /\ CollectInv /\ TeardownInv
        /\ VerdictInv /\ verdict = "none"
    BY DEF IInv, VerdictInv
  <1>1. /\ PlanInv' /\ Place' > Place
        /\ Place' \in 1 .. 11 /\ (Place' = 11 <=> todo' = << >>)
        /\ failed' = IF ok THEN failed ELSE failed \cup {test}
        /\ waiting' = FALSE
        /\ \/ todo' # << >> /\ test' = test /\ verdict' = "none" /\ UNCHANGED shell
           \/ todo' # << >> /\ Hangup /\ verdict' = "none"
           \/ todo' = << >> /\ Hangup /\ verdict' = IF failed' = {} THEN "pass" ELSE "fail"
        /\ todo' = << >> /\ failed' = {} => ok /\ Op = "adjudicate"
        /\ Op = "adjudicate" => todo' = << >>
        /\ Place' > 2 /\ Place < 3 /\ failed' = {} => Op = "unpack"
        /\ Place' \in 7 .. 10 /\ Place < 7 => Op = "run"
        /\ Place' \in 8 .. 10 /\ Place < 8 /\ failed' = {} => ok /\ Op = "collect"
        /\ Place' \in 9 .. 10 /\ Place < 9 /\ failed' = {} => ok /\ Op = "copy"
        /\ Place' > 9 /\ Place < 10 => Op = "teardown" \/ (Op = "hfp" /\ ~ok)
    BY <1>0, ProceedPlan
  <1>2. /\ Applicable' = Applicable /\ OwnReports' = OwnReports
        /\ Overtaken => Overtaken'
        /\ \A report : OfCases(report)' <=> OfCases(report)
    BY Unmoved DEF target
  <1>3. Place \in 1 .. 10
    BY <1>0, Places
  <1>4. failed' = {} <=> ok /\ failed = {}
    BY <1>1
  <1>5. \/ UNCHANGED shell /\ todo' # << >> /\ test' = test
        \/ console' = << >> /\ markers' = {}
             /\ \A c \in loose' : c \in loose \/ \E k \in DOMAIN console : c = console[k]
    <2>1. CASE UNCHANGED shell /\ todo' # << >> /\ test' = test
      BY <2>1
    <2>2. CASE Hangup
      <3>1. console # << >> => Head(console) = console[1] /\ 1 \in DOMAIN console
        BY <1>0 DEF TypeInv
      <3>2. QED
        BY <2>2, <3>1 DEF Hangup
    <2>3. QED
      BY <1>1, <2>1, <2>2
  <1>6. markers' \subseteq markers /\ (Marked("unpack")' => Marked("unpack"))
        /\ (Marked("run")' => Marked("run")) /\ (Marked("teardown")' => Marked("teardown"))
    BY <1>5 DEF shell, Marked
  <1>7. TypeInv'
    <2>1. UNCHANGED <<inv, slot, binary, server, reports, collected>>
      BY DEF target
    <2>2. waiting' \in BOOLEAN /\ verdict' \in {"none", "pass", "fail"}
      BY <1>1
    <2>3. console' \in Seq(Commands) /\ loose' \subseteq Commands
      <3>1. console \in Seq(Commands) /\ loose \subseteq Commands
        BY <1>0 DEF TypeInv
      <3>2. \A k \in DOMAIN console : console[k] \in Commands
        BY <3>1
      <3>3. << >> \in Seq(Commands)
        OBVIOUS
      <3>4. QED
        BY <1>5, <3>1, <3>2, <3>3 DEF shell
    <2>4. local' \in Report
      BY <1>0 DEF Concluded, TypeInv
    <2>5. QED
      BY <1>0, <1>6, <2>1, <2>2, <2>3, <2>4 DEF TypeInv
  <1>8. WaitingInv'
    BY <1>1 DEF WaitingInv
  <1>9. ConsoleInv'
    <2>1. CASE console' = << >>
      BY <2>1 DEF ConsoleInv
    <2>2. CASE UNCHANGED shell /\ todo' # << >> /\ test' = test
      <3>1. \A k \in DOMAIN console :
              Rank(console[k].op) <= Place /\ Rank(console[k].op) \in Nat
        <4>1. \A k \in DOMAIN console : console[k].op \in Typed
          <5>1. \A k \in DOMAIN console : console[k] \in Commands
            BY <1>0 DEF TypeInv
          <5>2. QED
            BY <5>1 DEF Commands
        <4>2. QED
          BY <1>0, <4>1, Ranks DEF ConsoleInv
      <3>2. \A k \in DOMAIN console :
              Rank(console[k].op) <= Place' /\ Rank(console[k].op) # Place'
        BY <1>1, <1>3, <3>1
      <3>3. QED
        BY <1>0, <1>2, <2>2, <3>2 DEF ConsoleInv, Concluded, shell
    <2>3. QED
      BY <1>5, <2>1, <2>2
  <1>10. MarkersInv'
    <2>1. CASE markers' = {}
      BY <2>1 DEF MarkersInv
    <2>2. CASE UNCHANGED shell /\ todo' # << >> /\ test' = test
      <3>1. \A m \in markers : Rank(m.op) <= Place /\ Rank(m.op) \in Nat
        <4>1. \A m \in markers : m.op \in Typed
          BY <1>0 DEF TypeInv
        <4>2. QED
          BY <1>0, <4>1, Ranks DEF MarkersInv
      <3>2. \A m \in markers : Rank(m.op) <= Place' /\ Rank(m.op) # Place'
        BY <1>1, <1>3, <3>1
      <3>3. QED
        BY <1>0, <2>2, <3>2 DEF MarkersInv, shell
    <2>3. QED
      BY <1>5, <2>1, <2>2
  <1>a. LooseInv'
    <2> SUFFICES ASSUME NEW c \in loose'
                 PROVE  /\ c.inv <= inv
                        /\ c.op = "launch" => "launch" \in slot
                        /\ c.inv = inv => c.op \in troubles' /\ c.cases = Applicable
      BY <1>2 DEF LooseInv
    <2>1. CASE c \in loose
      BY <1>0, <2>1 DEF LooseInv
    <2>2. CASE \E k \in DOMAIN console : c = console[k]
      BY <1>0, <2>2 DEF ConsoleInv, Concluded, TypeInv
    <2>3. QED
      BY <1>5, <2>1, <2>2 DEF shell
  <1>11. ReportsInv'
    BY <1>0, <1>2 DEF ReportsInv, Concluded, target
  <1>12. UnpackInv'
    <2>1. binary' = binary /\ inv' = inv /\ late' = late /\ slot' = slot
      BY DEF target
    <2>2. Marked("unpack")' \/ (Place' > 2 /\ failed' = {}) =>
            \/ Marked("unpack") \/ (Place > 2 /\ failed = {})
            \/ "unpack" \in troubles' \/ "fetch" \notin slot
      BY <1>1, <1>3, <1>4, <1>6 DEF Concluded
    <2>3. QED
      BY <1>0, <2>1, <2>2 DEF UnpackInv
  <1>13. LaunchInv'
    BY <1>4 DEF LaunchInv, Concluded
  <1>14. RunInv'
    <2>1. Marked("run")' \/ Place' \in 7 .. 10 =>
            Marked("run") \/ Place \in 7 .. 10 \/ "run" \in troubles'
      BY <1>1, <1>3, <1>6 DEF Concluded
    <2>2. QED
      BY <1>0, <1>2, <2>1 DEF RunInv
  <1>15. CollectInv'
    <2>1. ASSUME (\E m \in markers' : m.op = "collect" /\ m.status = "ok")
                   \/ (Place' \in 8 .. 10 /\ failed' = {})
          PROVE  collected.inv = inv \/ Overtaken
      <3>1. (\E m \in markers : m.op = "collect" /\ m.status = "ok")
              \/ (Place \in 8 .. 10 /\ failed = {})
        BY <1>1, <1>3, <1>4, <1>6, <2>1 DEF Concluded
      <3>2. QED
        BY <1>0, <3>1 DEF CollectInv
    <2>2. ASSUME Place' \in 9 .. 10, failed' = {}
          PROVE  local'.inv = inv \/ Overtaken
      <3>1. CASE Op = "copy" /\ ok
        <4>1. Place = 8
          BY <1>0, <3>1, Plan, Ranks
        <4>2. QED
          BY <1>0, <1>4, <2>2, <3>1, <4>1 DEF CollectInv, Concluded
      <3>2. CASE ~(Op = "copy" /\ ok)
        BY <1>0, <1>1, <1>3, <1>4, <2>2, <3>2 DEF CollectInv, Concluded
      <3>3. QED
        BY <3>1, <3>2
    <2>3. QED
      BY <1>2, <2>1, <2>2 DEF CollectInv, target
  <1>16. TeardownInv'
    <2>1. server' = server /\ inv' = inv /\ late' = late /\ slot' = slot
      BY DEF target
    <2>2. ASSUME Place' > 9
          PROVE  \/ server # inv \/ "teardown" \notin slot
                 \/ {"hfp", "teardown"} \cap troubles' # {} \/ "launch" \in late
      <3>1. CASE Place > 9
        BY <1>0, <3>1 DEF TeardownInv
      <3>2. CASE ~(Place > 9)
        <4>1. Op = "teardown" \/ (Op = "hfp" /\ ~ok)
          BY <1>1, <1>3, <2>2, <3>2
        <4>2. QED
          BY <1>0, <4>1 DEF TeardownInv, Concluded
      <3>3. QED
        BY <3>1, <3>2
    <2>3. QED
      BY <1>0, <1>6, <2>1, <2>2 DEF TeardownInv
  <1>17. VerdictInv'
    <2>1. failed' # {} /\ troubles' = {} => failed = {} /\ ~ok /\ Op = "adjudicate"
      BY <1>0, <1>4 DEF VerdictInv, Concluded
    <2>2. Op = "adjudicate" => /\ Place = 10 /\ local' = local
                               /\ ok <=> Acceptable(local')
                               /\ failed = {} => local'.inv = inv \/ Overtaken
      BY <1>0, Plan, Ranks DEF Concluded, CollectInv
    <2>3. todo' = << >> <=> verdict' # "none"
      BY <1>1
    <2>4. todo' = << >> => verdict' = IF failed' = {} THEN "pass" ELSE "fail"
      BY <1>1
    <2>5. failed' = {} /\ todo' = << >> =>
            Acceptable(local)' /\ (local'.inv = inv' \/ Overtaken')
      BY <1>1, <1>2, <1>4, <2>2 DEF Acceptable
    <2>6. failed' # {} /\ troubles' = {} =>
            /\ todo' = << >> /\ ~Acceptable(local)'
            /\ local'.inv = inv' \/ Overtaken'
      BY <1>1, <1>2, <2>1, <2>2 DEF Acceptable
    <2>7. QED
      BY <2>3, <2>4, <2>5, <2>6 DEF VerdictInv
  <1>18. QED
    BY <1>1, <1>7, <1>8, <1>9, <1>10, <1>a, <1>11, <1>12, <1>13, <1>14, <1>15, <1>16, <1>17
    DEF IInv

\* While no command is waited for, those on the console have been given up.
LEMMA NotWaiting ==
  ASSUME IInv, todo # << >>, ~waiting
  PROVE  /\ \A k \in DOMAIN console : console[k].op \in troubles
         /\ "launch" \in troubles => failed # {}
  BY DEF IInv, ConsoleInv, LaunchInv

\* Each way for an operation to end.
LEMMA HostIInv ==
  ASSUME IInv, Omit \/ Read \/ GiveUp \/ Transfer \/ Adjudicate
  PROVE  IInv'
  <1>0. TypeInv /\ PlanInv /\ WaitingInv /\ ConsoleInv /\ MarkersInv /\ LaunchInv
    BY DEF IInv
  <1> USE DEF invocation
  <1>1. CASE Omit
    <2>1. /\ todo # << >> /\ Omitted(Op) /\ ~waiting
          /\ Proceed(TRUE) /\ troubles' = troubles
          /\ UNCHANGED <<inv, asked, slot, late, local, target>>
      BY <1>0, <1>1 DEF Omit, WaitingInv
    <2>2. Concluded(TRUE)
      BY <2>1, NotWaiting DEF Concluded, Omitted
    <2>3. QED
      BY <2>1, <2>2, HostStep
  <1>2. CASE Read
    <2>1. PICK m \in markers : m.op = Op /\ Proceed(m.status = "ok" \/ ~Asserts(Op))
      BY <1>2 DEF Read
    <2>2. /\ todo # << >> /\ Op \in Typed /\ troubles' = troubles
          /\ UNCHANGED <<inv, asked, slot, late, local, target>>
      BY <1>0, <1>2 DEF Read, WaitingInv
    <2>3. PICK ok \in BOOLEAN : ok <=> (m.status = "ok" \/ ~Asserts(Op))
      OBVIOUS
    <2>4. Proceed(ok)
      BY <2>1, <2>3
    <2>5. ~ok => Op \in troubles
      BY <1>0, <2>1, <2>3 DEF MarkersInv, TypeInv
    <2>6. \A k \in DOMAIN console : console[k].op \in troubles
      BY <1>0, <2>1 DEF ConsoleInv, MarkersInv
    <2>7. "launch" \in troubles => ~ok \/ failed # {}
      <3> SUFFICES ASSUME "launch" \in troubles, failed = {}
                   PROVE  ~ok
        OBVIOUS
      <3>1. Op = "launch" /\ [op |-> "launch", status |-> "error"] \in markers
        BY <1>0 DEF LaunchInv
      <3>2. m = [op |-> "launch", status |-> "error"]
        BY <1>0, <2>1, <3>1 DEF MarkersInv
      <3>3. QED
        BY <2>3, <3>1, <3>2 DEF Asserts
    <2>8. Concluded(ok)
      BY <2>1, <2>2, <2>3, <2>5, <2>6, <2>7 DEF Concluded, Marked, Asserts, Typed
    <2>9. QED
      BY <2>2, <2>4, <2>8, HostStep
  <1>3. CASE GiveUp
    <2>1. /\ todo # << >> /\ Op \in Typed /\ troubles' = troubles \cup {Op}
          /\ Proceed(~Asserts(Op)) /\ UNCHANGED <<inv, asked, slot, late, local, target>>
      BY <1>0, <1>3 DEF GiveUp, WaitingInv
    <2>2. PICK ok \in BOOLEAN : ok <=> ~Asserts(Op)
      OBVIOUS
    <2>3. Proceed(ok)
      BY <2>1, <2>2
    <2>4. \A k \in DOMAIN console : console[k].op \in troubles'
      BY <1>0, <2>1 DEF ConsoleInv
    <2>5. "launch" \in troubles' => ~ok \/ failed # {}
      BY <1>0, <2>1, <2>2 DEF LaunchInv, Asserts
    <2>6. Concluded(ok)
      BY <2>1, <2>2, <2>4, <2>5 DEF Concluded, Asserts, Typed
    <2>7. QED
      BY <2>1, <2>3, <2>6, HostStep
  <1>4. CASE Transfer
    <2>1. PICK ok \in BOOLEAN :
            /\ Proceed(ok)
            /\ local' = IF Op = "copy" /\ ok THEN collected ELSE local
            /\ troubles' = IF ok THEN troubles ELSE troubles \cup {Op}
      BY <1>4 DEF Transfer
    <2>2. /\ todo # << >> /\ Op \in {"package", "hfp", "copy"}
          /\ UNCHANGED <<inv, asked, slot, late, target>>
      BY <1>4 DEF Transfer, Transferred
    <2>3. ~waiting
      BY <1>0, <2>2 DEF WaitingInv, Typed
    <2>4. Concluded(ok)
      BY <2>1, <2>2, <2>3, NotWaiting DEF Concluded
    <2>5. QED
      BY <2>1, <2>2, <2>4, HostStep
  <1>5. CASE Adjudicate
    <2>1. /\ todo # << >> /\ Op = "adjudicate" /\ Proceed(Acceptable(local))
          /\ troubles' = troubles
          /\ UNCHANGED <<inv, asked, slot, late, local, target>>
      BY <1>5 DEF Adjudicate
    <2>2. PICK ok \in BOOLEAN : ok <=> Acceptable(local)
      OBVIOUS
    <2>3. Proceed(ok)
      BY <2>1, <2>2 DEF Acceptable
    <2>4. ~waiting
      BY <1>0, <2>1 DEF WaitingInv, Typed
    <2>5. Concluded(ok)
      BY <2>1, <2>2, <2>4, NotWaiting DEF Concluded
    <2>6. QED
      BY <2>1, <2>3, <2>5, HostStep
  <1>6. QED
    BY <1>1, <1>2, <1>3, <1>4, <1>5

\* A command is typed once, behind those that were given up.
LEMMA TypeIInv ==
  ASSUME IInv, Type
  PROVE  IInv'
  <1>0. /\ TypeInv /\ PlanInv /\ ConsoleInv /\ MarkersInv /\ LooseInv
        /\ ReportsInv /\ UnpackInv /\ LaunchInv /\ RunInv /\ CollectInv /\ TeardownInv
        /\ VerdictInv
    BY DEF IInv
  <1> USE DEF invocation, target
  <1>1. /\ todo # << >> /\ Op \in Typed /\ ~Omitted(Op) /\ ~waiting /\ waiting' = TRUE
        /\ console' = Append(console, Command(Op))
        /\ UNCHANGED <<inv, asked, slot, troubles, late, test, todo, local, failed,
                       verdict, markers, loose, binary, server, envFile, reports, collected>>
    BY DEF Type
  <1>2. /\ Applicable' = Applicable /\ OwnReports' = OwnReports
        /\ Overtaken <=> Overtaken'
        /\ \A report : OfCases(report)' <=> OfCases(report)
        /\ Place' = Place /\ (PlanInv' <=> PlanInv)
        /\ \A op : Marked(op)' <=> Marked(op)
    BY <1>1, Unmoved DEF OwnReports, Overtaken, Place, Op, PlanInv, Marked
  <1>3. Command(Op) \in Commands
    BY <1>0, <1>1 DEF Command, Commands, Applicable, TypeInv
  <1>4. TypeInv'
    BY <1>0, <1>1, <1>3 DEF TypeInv
  <1>5. WaitingInv'
    BY <1>1 DEF WaitingInv, Op, Omitted
  <1>6. PICK n \in Nat : n = Len(console)
    BY <1>0 DEF TypeInv
  <1>7. /\ DOMAIN console = 1 .. n /\ DOMAIN console' = 1 .. n + 1
        /\ \A k \in DOMAIN console : console'[k] = console[k] /\ console[k] \in Commands
        /\ console'[n + 1] = Command(Op)
    BY <1>0, <1>1, <1>3, <1>6 DEF TypeInv
  <1>8. Place = Rank(Op) /\ (Op = "launch" => test # 3 /\ "launch" \in slot)
    BY <1>0, <1>1, Plan DEF Omitted, TypeInv
  <1>9. Op \notin {console[k].op : k \in DOMAIN console} \cup {m.op : m \in markers}
    BY <1>0, <1>1, <1>8 DEF ConsoleInv, MarkersInv
  <1>10. ConsoleInv'
    <2>1. ASSUME NEW k \in DOMAIN console'
          PROVE  /\ console'[k].inv = inv /\ console'[k].cases = Applicable
                 /\ Rank(console'[k].op) <= Place
                 /\ test = 3 => console'[k].op # "launch"
                 /\ console'[k].op = "launch" => "launch" \in slot
                 /\ console'[k].op \in troubles \/ console'[k].op = Op
      <3>1. CASE k \in DOMAIN console
        BY <1>0, <1>7, <3>1 DEF ConsoleInv
      <3>2. CASE k = n + 1
        <4>1. Place <= Place
          BY <1>0, Places
        <4>2. QED
          BY <1>7, <1>8, <3>2, <4>1 DEF Command
      <3>3. QED
        BY <1>7, <3>1, <3>2
    <2>2. ASSUME NEW k \in DOMAIN console', NEW l \in DOMAIN console',
                 console'[k].op = console'[l].op
          PROVE  k = l
      <3>1. Command(Op).op = Op
        BY DEF Command
      <3>2. QED
        BY <1>0, <1>7, <1>9, <2>2, <3>1 DEF ConsoleInv
    <2>3. Op' = Op
      BY <1>1 DEF Op
    <2>4. QED
      BY <1>1, <1>2, <2>1, <2>2, <2>3 DEF ConsoleInv
  <1>11. MarkersInv'
    <2>1. ASSUME NEW m \in markers, NEW k \in DOMAIN console'
          PROVE  m.op # console'[k].op
      BY <1>0, <1>7, <1>9 DEF MarkersInv, Command
    <2>2. QED
      BY <1>0, <1>1, <1>2, <2>1 DEF MarkersInv
  <1>12. LooseInv' /\ ReportsInv' /\ UnpackInv' /\ RunInv'
    BY <1>0, <1>1, <1>2 DEF LooseInv, ReportsInv, UnpackInv, RunInv
  <1>13. LaunchInv' /\ CollectInv'
    BY <1>0, <1>1, <1>2 DEF LaunchInv, CollectInv
  <1>14. TeardownInv' /\ VerdictInv'
    BY <1>0, <1>1, <1>2 DEF TeardownInv, VerdictInv, Acceptable
  <1>15. QED
    BY <1>0, <1>2, <1>4, <1>5, <1>10, <1>11, <1>12, <1>13, <1>14 DEF IInv

\* The next invocation starts with an empty console, and nothing of it is there yet.
LEMMA NextIInv ==
  ASSUME IInv, NextInvocation
  PROVE  IInv'
  <1>0. /\ TypeInv /\ PlanInv /\ WaitingInv /\ ConsoleInv /\ MarkersInv /\ LooseInv
        /\ ReportsInv /\ TeardownInv
    BY DEF IInv
  <1> USE DEF shell, target
  <1>1. /\ todo = << >> /\ inv' = inv + 1 /\ test' = 1 /\ todo' = PackageOn
        /\ failed' = {} /\ troubles' = {} /\ late' = {} /\ verdict' = "none"
        /\ UNCHANGED <<slot, waiting, local, console, markers, loose, binary, server,
                       envFile, reports, collected>>
    BY TestLists DEF NextInvocation
  <1>2. console = << >> /\ markers = {} /\ ~waiting
    BY <1>0, <1>1 DEF ConsoleInv, MarkersInv, WaitingInv
  <1>3. Place' = 1 /\ todo' # << >>
    BY <1>1, Lists, Ranks DEF Place, Op
  <1>4. inv \in Nat \ {0} /\ inv' \in Nat \ {0}
    BY <1>0, <1>1 DEF TypeInv
  <1>5. TypeInv' /\ PlanInv' /\ WaitingInv'
    BY <1>0, <1>1, <1>2, <1>4 DEF TypeInv, PlanInv, WaitingInv
  <1>6. ConsoleInv' /\ MarkersInv'
    BY <1>1, <1>2 DEF ConsoleInv, MarkersInv
  <1>7. LooseInv'
    <2>1. \A c \in loose : c.inv <= inv' /\ c.inv # inv'
      <3>1. \A c \in loose : c.inv \in Nat /\ c.inv <= inv
        BY <1>0 DEF TypeInv, Commands, LooseInv
      <3>2. QED
        BY <1>1, <1>4, <3>1
    <2>2. QED
      BY <1>0, <1>1, <2>1 DEF LooseInv
  <1>8. ReportsInv'
    <2>1. ASSUME NEW report \in Report, OfCases(report)
          PROVE  OfCases(report)'
      <3>1. report.inv \in Nat /\ report.inv <= inv
        BY <2>1 DEF Report, OfCases
      <3>2. report.inv <= inv' /\ report.inv # inv'
        BY <1>1, <1>4, <3>1
      <3>3. QED
        BY <3>2 DEF OfCases
    <2>2. \A i \in DOMAIN reports : reports[i] \in Report
      BY <1>0 DEF TypeInv
    <2>3. QED
      BY <1>0, <1>1, <2>1, <2>2 DEF ReportsInv, TypeInv
  <1>9. UnpackInv' /\ LaunchInv' /\ RunInv' /\ CollectInv'
    BY <1>1, <1>2, <1>3 DEF UnpackInv, LaunchInv, RunInv, CollectInv, Marked
  <1>10. TeardownInv'
    <2>1. server \in Nat /\ server <= inv
      BY <1>0 DEF TypeInv, TeardownInv
    <2>2. QED
      BY <1>1, <1>2, <1>3, <1>4, <2>1 DEF TeardownInv, Marked
  <1>11. VerdictInv'
    BY <1>1, <1>3 DEF VerdictInv
  <1>12. QED
    BY <1>5, <1>6, <1>7, <1>8, <1>9, <1>10, <1>11 DEF IInv

-----------------------------------------------------------------------------
(***************************************************************************)
(* The target.                                                             *)
(***************************************************************************)

\* What a command that is done may change: the reports gain one, of its invocation and
\* the cases that apply to it, and each of the others is touched by its commands alone.
LEMMA Effects ==
  ASSUME TypeInv, NEW c \in Commands, NEW status \in {"ok", "error"}, Perform(c, status)
  PROVE  /\ binary' = binary \/ c.op = "unpack"
         /\ c.op = "unpack" => binary' = IF status = "ok" THEN c.inv ELSE binary
         /\ server' = server \/ server' = NoOne \/ (c.op = "launch" /\ server' = c.inv)
         /\ c.op = "teardown" => server' = NoOne
         /\ \/ reports' = reports /\ (c.op = "run" => status = "error")
            \/ /\ c.op = "run" /\ status = "ok"
               /\ \E report \in Report : /\ report.inv = c.inv /\ report.ran = c.cases
                                         /\ reports' = Append(reports, report)
         /\ \/ collected' = collected /\ ~(c.op = "collect" /\ status = "ok")
            \/ /\ c.op = "collect" /\ status = "ok"
               /\ reports # << >> /\ collected' = reports[Len(reports)]
  <1> USE DEF target
  <1>1. CASE Unpack(c, status)
    BY <1>1 DEF Unpack
  <1>2. CASE Probe(c, status)
    BY <1>2 DEF Probe
  <1>3. CASE LaunchTarget(c, status)
    BY <1>3 DEF LaunchTarget
  <1>4. CASE RunBinary(c, status)
    <2>1. CASE status = "error"
      BY <1>4, <2>1 DEF RunBinary
    <2>2. CASE status = "ok"
      <3>1. PICK bad \in SUBSET c.cases :
              reports' = Append(reports, [inv |-> c.inv, ran |-> c.cases, failed |-> bad])
        BY <1>4, <2>2 DEF RunBinary
      <3>2. [inv |-> c.inv, ran |-> c.cases, failed |-> bad] \in Report
        BY DEF Report, Commands
      <3>3. \E report \in Report : /\ report.inv = c.inv /\ report.ran = c.cases
                                   /\ reports' = Append(reports, report)
        BY <3>1, <3>2
      <3>4. QED
        BY <1>4, <2>2, <3>3 DEF RunBinary
    <2>3. QED
      BY <2>1, <2>2
  <1>5. CASE Collect(c, status)
    BY <1>5 DEF Collect, NewestReport
  <1>6. CASE TearDownTarget(c, status)
    BY <1>6 DEF TearDownTarget
  <1>7. QED
    BY <1>1, <1>2, <1>3, <1>4, <1>5, <1>6 DEF Perform

\* What a command done on the target leaves true, whoever typed it: it may change which
\* report is the newest, but takes none away and forgets no trouble.
LEMMA TargetStep ==
  ASSUME IInv, NEW c \in Commands, NEW status \in {"ok", "error"}, Perform(c, status),
         c.inv <= inv, c.inv = inv => c.cases = Applicable, c.op = "launch" => "launch" \in slot,
         UNCHANGED <<inv, asked, slot, test, todo, waiting, local, failed, verdict>>,
         troubles \subseteq troubles'
  PROVE  /\ binary' \in Nat /\ server' \in Nat /\ reports' \in Seq(Report)
         /\ collected' \in Report
         /\ Applicable' = Applicable /\ Place' = Place
         /\ OwnReports # {} => OwnReports' # {}
         /\ c.op = "run" /\ status = "ok" /\ c.inv = inv => OwnReports' # {}
         /\ Overtaken => Overtaken'
         /\ Place \in 7 .. 10
            /\ ((c.op = "collect" /\ status = "ok") \/ collected' # collected) =>
              collected'.inv = inv \/ Overtaken'
         /\ server' <= inv /\ (server' = inv => "launch" \in slot)
         /\ PlanInv' /\ WaitingInv' /\ ReportsInv' /\ VerdictInv'
  <1>0. TypeInv /\ PlanInv /\ WaitingInv /\ ReportsInv /\ RunInv /\ TeardownInv /\ VerdictInv
    BY DEF IInv
  <1>1. c.inv \in Nat /\ inv \in Nat \ {0}
    BY <1>0 DEF TypeInv, Commands
  <1>2. /\ binary' = binary \/ c.op = "unpack"
        /\ c.op = "unpack" => binary' = IF status = "ok" THEN c.inv ELSE binary
        /\ server' = server \/ server' = NoOne \/ (c.op = "launch" /\ server' = c.inv)
        /\ \/ reports' = reports /\ (c.op = "run" => status = "error")
           \/ /\ c.op = "run" /\ status = "ok"
              /\ \E report \in Report : /\ report.inv = c.inv /\ report.ran = c.cases
                                        /\ reports' = Append(reports, report)
        /\ \/ collected' = collected /\ ~(c.op = "collect" /\ status = "ok")
           \/ /\ c.op = "collect" /\ status = "ok"
              /\ reports # << >> /\ collected' = reports[Len(reports)]
    BY <1>0, Effects
  <1>3. binary' \in Nat /\ server' \in Nat
    BY <1>0, <1>1, <1>2 DEF TypeInv, NoOne
  <1>4. server' <= inv /\ (server' = inv => "launch" \in slot)
    BY <1>0, <1>1, <1>2 DEF TypeInv, TeardownInv, NoOne
  <1>5. Applicable' = Applicable /\ Place' = Place /\ PlanInv' /\ WaitingInv'
    BY <1>0 DEF Applicable, Place, Op, PlanInv, WaitingInv, Omitted
  <1>6. \A report : OfCases(report)' <=> OfCases(report)
    BY <1>5 DEF OfCases
  <1>7. PICK n \in Nat : n = Len(reports)
    BY <1>0 DEF TypeInv
  <1>8. DOMAIN reports = 1 .. n /\ \A i \in 1 .. n : reports[i] \in Report
    BY <1>0, <1>7 DEF TypeInv
  <1>9. \/ reports' = reports /\ (c.op = "run" => status = "error")
        \/ /\ reports' \in Seq(Report) /\ DOMAIN reports' = 1 .. n + 1
           /\ \A i \in 1 .. n : reports'[i] = reports[i]
           /\ reports'[n + 1].inv = c.inv /\ reports'[n + 1].ran = c.cases
    <2>1. CASE reports' = reports /\ (c.op = "run" => status = "error")
      BY <2>1
    <2>2. ASSUME NEW report \in Report, report.inv = c.inv, report.ran = c.cases,
                 reports' = Append(reports, report)
          PROVE  /\ reports' \in Seq(Report) /\ DOMAIN reports' = 1 .. n + 1
                 /\ \A i \in 1 .. n : reports'[i] = reports[i]
                 /\ reports'[n + 1].inv = c.inv /\ reports'[n + 1].ran = c.cases
      BY <1>0, <1>7, <2>2 DEF TypeInv
    <2>3. QED
      BY <1>2, <2>1, <2>2
  <1>10. reports' \in Seq(Report)
    BY <1>0, <1>9 DEF TypeInv
  <1>11. OwnReports \subseteq OwnReports'
    BY <1>8, <1>9 DEF OwnReports
  <1>12. c.op = "run" /\ status = "ok" /\ c.inv = inv => OwnReports' # {}
    <2> SUFFICES ASSUME c.op = "run", status = "ok", c.inv = inv
                 PROVE  n + 1 \in OwnReports'
      OBVIOUS
    <2>1. QED
      BY <1>9 DEF OwnReports
  <1>13. Overtaken => Overtaken'
    <2>1. CASE "run" \in troubles
      BY <2>1 DEF Overtaken
    <2>2. ASSUME NEW i \in OwnReports, NEW j \in DOMAIN reports, i < j, reports[j].inv < inv
          PROVE  Overtaken'
      <3>1. i \in OwnReports' /\ j \in DOMAIN reports' /\ reports'[j].inv < inv'
        BY <1>8, <1>9, <1>11, <2>2
      <3>2. QED
        BY <2>2, <3>1 DEF Overtaken
    <2>3. QED
      BY <2>1, <2>2 DEF Overtaken
  <1>14. ASSUME Place \in 7 .. 10, (c.op = "collect" /\ status = "ok") \/ collected' # collected
         PROVE  collected'.inv = inv \/ Overtaken'
    <2>1. reports # << >> /\ collected' = reports[n] /\ n \in 1 .. n
      BY <1>0, <1>2, <1>7, <1>14 DEF TypeInv
    <2>2. reports[n].inv \in Nat /\ reports[n].inv <= inv
      BY <1>0, <1>8, <2>1 DEF ReportsInv, OfCases, Report
    <2>3. CASE reports[n].inv = inv
      BY <2>1, <2>3
    <2>4. CASE reports[n].inv # inv
      <3>1. reports[n].inv < inv
        BY <1>1, <2>2, <2>4
      <3>2. CASE "run" \in troubles
        BY <1>13, <3>2 DEF Overtaken
      <3>3. ASSUME NEW i \in OwnReports
            PROVE  Overtaken'
        <4>1. i \in 1 .. n /\ i # n
          BY <1>8, <2>4 DEF OwnReports
        <4>2. i < n
          BY <4>1
        <4>3. QED
          BY <1>8, <1>13, <2>1, <3>1, <4>2 DEF Overtaken
      <3>4. QED
        BY <1>0, <1>14, <3>2, <3>3 DEF RunInv
    <2>5. QED
      BY <2>3, <2>4
  <1>15. collected' \in Report /\ OfCases(collected')
    <2>1. CASE collected' = collected
      BY <1>0, <2>1 DEF TypeInv, ReportsInv
    <2>2. CASE reports # << >> /\ collected' = reports[Len(reports)]
      <3>1. n \in 1 .. n
        BY <1>0, <1>7, <2>2 DEF TypeInv
      <3>2. QED
        BY <1>0, <1>7, <1>8, <2>2, <3>1 DEF ReportsInv
    <2>3. QED
      BY <1>2, <2>1, <2>2
  <1>16. ReportsInv'
    <2>1. \A i \in DOMAIN reports' : OfCases(reports'[i])
      <3> SUFFICES ASSUME NEW i \in DOMAIN reports'
                   PROVE  OfCases(reports'[i])
        OBVIOUS
      <3>1. CASE i \in DOMAIN reports /\ reports'[i] = reports[i]
        BY <1>0, <3>1 DEF ReportsInv
      <3>2. CASE reports'[i].inv = c.inv /\ reports'[i].ran = c.cases
        BY <3>2 DEF OfCases
      <3>3. QED
        BY <1>8, <1>9, <3>1, <3>2
    <2>2. QED
      BY <1>0, <1>5, <1>15, <2>1 DEF ReportsInv, OfCases
  <1>17. VerdictInv'
    BY <1>0, <1>13 DEF VerdictInv, Acceptable
  <1>18. QED
    BY <1>3, <1>4, <1>5, <1>10, <1>11, <1>12, <1>13, <1>14, <1>15, <1>16, <1>17

-----------------------------------------------------------------------------
(***************************************************************************)
(* The commands.                                                           *)
(***************************************************************************)

\* The console does its first command and writes the marker.
LEMMA WorkIInv ==
  ASSUME IInv, Work
  PROVE  IInv'
  <1>0. /\ TypeInv /\ PlanInv /\ WaitingInv /\ ConsoleInv /\ MarkersInv /\ LooseInv
        /\ ReportsInv /\ UnpackInv /\ LaunchInv /\ RunInv /\ CollectInv /\ TeardownInv
        /\ VerdictInv
    BY DEF IInv
  <1>1. PICK n \in Nat : n = Len(console)
    BY <1>0 DEF TypeInv
  <1>2. PICK c \in Commands : c = Head(console) /\ c = console[1]
    BY <1>0 DEF TypeInv, Work
  <1>3. PICK status \in {"ok", "error"} :
          /\ Perform(c, status)
          /\ markers' = markers \cup {[op |-> c.op, status |-> status]}
          /\ troubles' = IF status = "ok" THEN troubles ELSE troubles \cup {c.op}
    BY <1>2 DEF Work
  <1>4. /\ console' = Tail(console)
        /\ UNCHANGED <<inv, asked, slot, late, test, todo, waiting, local, failed,
                       verdict, loose>>
    BY DEF Work
  <1>5. /\ n > 0 /\ DOMAIN console = 1 .. n /\ 1 \in DOMAIN console
        /\ DOMAIN console' = 1 .. n - 1 /\ console' \in Seq(Commands)
        /\ \A k \in DOMAIN console' : k + 1 \in DOMAIN console /\ console'[k] = console[k + 1]
    BY <1>0, <1>1, <1>4 DEF TypeInv, Work
  <1>6. /\ c.inv = inv /\ c.cases = Applicable /\ Rank(c.op) <= Place
        /\ Rank(c.op) = Place => waiting
        /\ test = 3 => c.op # "launch"
        /\ c.op = "launch" => "launch" \in slot
        /\ c.op \in troubles \/ (waiting /\ c.op = Op)
    BY <1>0, <1>2, <1>5 DEF ConsoleInv
  <1>7. todo # << >> /\ Place \in 1 .. 10 /\ c.op \in Typed
    <2>1. todo # << >>
      BY <1>0, <1>5 DEF ConsoleInv
    <2>2. QED
      BY <1>0, <2>1, Places DEF Commands
  <1>8. c.inv <= inv
    BY <1>0, <1>6 DEF TypeInv
  <1>9. troubles \subseteq troubles' /\ (status = "error" => c.op \in troubles')
    BY <1>3
  <1>10. /\ binary' \in Nat /\ server' \in Nat /\ reports' \in Seq(Report)
         /\ collected' \in Report
         /\ Applicable' = Applicable /\ Place' = Place
         /\ OwnReports # {} => OwnReports' # {}
         /\ c.op = "run" /\ status = "ok" /\ c.inv = inv => OwnReports' # {}
         /\ Overtaken => Overtaken'
         /\ Place \in 7 .. 10
            /\ ((c.op = "collect" /\ status = "ok") \/ collected' # collected) =>
              collected'.inv = inv \/ Overtaken'
         /\ server' <= inv /\ (server' = inv => "launch" \in slot)
         /\ PlanInv' /\ WaitingInv' /\ ReportsInv' /\ VerdictInv'
    BY <1>3, <1>4, <1>6, <1>8, <1>9, TargetStep
  <1>11. /\ binary' = binary \/ c.op = "unpack"
         /\ c.op = "unpack" => binary' = IF status = "ok" THEN c.inv ELSE binary
         /\ server' = server \/ server' = NoOne \/ (c.op = "launch" /\ server' = c.inv)
         /\ c.op = "teardown" => server' = NoOne
    BY <1>0, <1>3, Effects
  <1>12. \A op : Marked(op)' <=> Marked(op) \/ op = c.op
    <2> DEFINE marker == [op |-> c.op, status |-> status]
    <2>1. marker.op = c.op /\ (\A m : m \in markers' <=> m \in markers \/ m = marker)
      BY <1>3
    <2> HIDE DEF marker
    <2>2. QED
      BY <2>1 DEF Marked
  <1>13. TypeInv'
    BY <1>0, <1>3, <1>4, <1>5, <1>7, <1>10 DEF TypeInv
  <1>14. ConsoleInv'
    <2>1. ASSUME NEW k \in DOMAIN console', NEW l \in DOMAIN console',
                 console'[k].op = console'[l].op
          PROVE  k = l
      <3>1. k + 1 = l + 1
        BY <1>0, <1>5, <2>1 DEF ConsoleInv
      <3>2. QED
        BY <1>5, <3>1
    <2>2. ASSUME NEW k \in DOMAIN console'
          PROVE  LET d == console'[k] IN
                   /\ d.inv = inv /\ d.cases = Applicable
                   /\ Rank(d.op) <= Place /\ (Rank(d.op) = Place => waiting)
                   /\ test = 3 => d.op # "launch"
                   /\ d.op = "launch" => "launch" \in slot
                   /\ d.op \in troubles' \/ (waiting /\ d.op = Op)
      BY <1>0, <1>5, <1>9 DEF ConsoleInv
    <2>3. Op' = Op
      BY <1>4 DEF Op
    <2>4. QED
      BY <1>4, <1>7, <1>10, <2>1, <2>2, <2>3 DEF ConsoleInv
  <1>15. \A k \in DOMAIN console' : console'[k].op # c.op
    <2> SUFFICES ASSUME NEW k \in DOMAIN console', console'[k].op = c.op
                 PROVE  FALSE
      OBVIOUS
    <2>1. k + 1 = 1
      BY <1>0, <1>2, <1>5 DEF ConsoleInv
    <2>2. QED
      BY <1>5, <2>1
  <1>16. MarkersInv'
    <2>1. \A m \in markers : m.op # c.op
      BY <1>0, <1>2, <1>5 DEF MarkersInv
    <2>2. ASSUME NEW m \in markers'
          PROVE  /\ Rank(m.op) <= Place /\ (Rank(m.op) = Place => waiting)
                 /\ \A k \in DOMAIN console' : m.op # console'[k].op
                 /\ m.status = "error" => m.op \in troubles'
      <3>1. CASE m \in markers
        BY <1>0, <1>5, <1>9, <3>1 DEF MarkersInv
      <3>2. CASE m = [op |-> c.op, status |-> status]
        BY <1>6, <1>9, <1>15, <3>2
      <3>3. QED
        BY <1>3, <3>1, <3>2
    <2>3. \A m, other \in markers' : m.op = other.op => m = other
      BY <1>0, <1>3, <2>1 DEF MarkersInv
    <2>4. QED
      BY <1>4, <1>7, <1>10, <2>2, <2>3 DEF MarkersInv
  <1>17. LooseInv'
    BY <1>0, <1>4, <1>9, <1>10 DEF LooseInv
  <1>18. UnpackInv'
    <2>1. CASE c.op = "unpack"
      BY <1>6, <1>9, <1>11, <1>4, <2>1 DEF UnpackInv
    <2>2. CASE c.op # "unpack"
      BY <1>0, <1>4, <1>9, <1>10, <1>11, <1>12, <2>2 DEF UnpackInv
    <2>3. QED
      BY <2>1, <2>2
  <1>19. LaunchInv'
    <2>1. "launch" \in troubles' /\ "launch" \notin troubles =>
            waiting /\ Op = "launch" /\ [op |-> "launch", status |-> "error"] \in markers'
      BY <1>3, <1>6
    <2>2. QED
      BY <1>0, <1>3, <1>4, <2>1 DEF LaunchInv, Op
  <1>20. RunInv'
    BY <1>0, <1>6, <1>9, <1>10, <1>12 DEF RunInv
  <1>21. CollectInv'
    <2>1. c.op = "collect" => Place \in 7 .. 10
      BY <1>6, <1>7, Ranks
    <2>2. ASSUME (\E m \in markers' : m.op = "collect" /\ m.status = "ok")
                   \/ (Place \in 8 .. 10 /\ failed = {})
          PROVE  collected'.inv = inv \/ Overtaken'
      <3>1. CASE c.op = "collect" /\ status = "ok"
        BY <1>10, <2>1, <3>1
      <3>2. CASE ~(c.op = "collect" /\ status = "ok")
        <4>1. (\E m \in markers : m.op = "collect" /\ m.status = "ok")
                \/ (Place \in 8 .. 10 /\ failed = {})
          BY <1>3, <2>2, <3>2
        <4>2. Place \in 7 .. 10
          BY <1>0, <1>7, <4>1, Ranks DEF MarkersInv
        <4>3. QED
          BY <1>0, <1>10, <4>1, <4>2 DEF CollectInv
      <3>3. QED
        BY <3>1, <3>2
    <2>3. Place \in 9 .. 10 /\ failed = {} => local.inv = inv \/ Overtaken'
      BY <1>0, <1>10 DEF CollectInv
    <2>4. QED
      BY <1>4, <1>10, <2>2, <2>3 DEF CollectInv
  <1>22. TeardownInv'
    <2>1. CASE c.op = "launch"
      <3>1. Place <= 4
        BY <1>0, <1>6, <1>7, <2>1, Plan, Ranks
      <3>2. ~Marked("teardown") /\ ~(Place > 9)
        BY <1>0, <1>7, <3>1, Ranks DEF MarkersInv, Marked
      <3>3. QED
        BY <1>4, <1>10, <1>12, <2>1, <3>2 DEF TeardownInv
    <2>2. CASE c.op # "launch"
      <3>1. (server' = server \/ server' = NoOne) /\ inv # NoOne
        BY <1>0, <1>11, <2>2 DEF TypeInv, NoOne
      <3>2. c.op = "teardown" => server' # inv
        BY <1>11, <3>1
      <3>3. QED
        BY <1>0, <1>4, <1>9, <1>10, <1>12, <3>1, <3>2 DEF TeardownInv
    <2>3. QED
      BY <2>1, <2>2
  <1>23. QED
    BY <1>10, <1>13, <1>14, <1>16, <1>17, <1>18, <1>19, <1>20, <1>21, <1>22 DEF IInv

\* A command without a console is done: another may find its own effect undone, but
\* what was promised of this invocation is still true or is among what was done late.
LEMMA LooseIInv ==
  ASSUME IInv, LooseWork
  PROVE  IInv'
  <1>0. /\ TypeInv /\ PlanInv /\ WaitingInv /\ ConsoleInv /\ MarkersInv /\ LooseInv
        /\ ReportsInv /\ UnpackInv /\ LaunchInv /\ RunInv /\ CollectInv /\ TeardownInv
        /\ VerdictInv
    BY DEF IInv
  <1>1. PICK c \in loose, status \in {"ok", "error"} :
          Perform(c, status) /\ loose' = loose \ {c} /\ late' = late \cup {c.op}
    BY DEF LooseWork
  <1>2. UNCHANGED <<inv, asked, slot, troubles, test, todo, waiting, local, failed,
                    verdict, console, markers>>
    BY DEF LooseWork
  <1>3. /\ c \in Commands /\ c.inv <= inv /\ (c.op = "launch" => "launch" \in slot)
        /\ c.inv = inv => c.op \in troubles /\ c.cases = Applicable
    BY <1>0, <1>1 DEF TypeInv, LooseInv
  <1>4. /\ binary' \in Nat /\ server' \in Nat /\ reports' \in Seq(Report)
        /\ collected' \in Report
        /\ Applicable' = Applicable /\ Place' = Place
        /\ OwnReports # {} => OwnReports' # {}
        /\ c.op = "run" /\ status = "ok" /\ c.inv = inv => OwnReports' # {}
        /\ Overtaken => Overtaken'
        /\ Place \in 7 .. 10
           /\ ((c.op = "collect" /\ status = "ok") \/ collected' # collected) =>
             collected'.inv = inv \/ Overtaken'
        /\ server' <= inv /\ (server' = inv => "launch" \in slot)
        /\ PlanInv' /\ WaitingInv' /\ ReportsInv' /\ VerdictInv'
    BY <1>1, <1>2, <1>3, TargetStep
  <1>5. /\ binary' = binary \/ c.op = "unpack"
        /\ server' = server \/ server' = NoOne \/ c.op = "launch"
    BY <1>0, <1>1, <1>3, Effects
  <1>6. \A op : Marked(op)' <=> Marked(op)
    BY <1>2 DEF Marked
  <1>7. TypeInv'
    BY <1>0, <1>1, <1>2, <1>4 DEF TypeInv
  <1>8. ConsoleInv' /\ MarkersInv'
    BY <1>0, <1>2, <1>4 DEF ConsoleInv, MarkersInv, Op
  <1>9. LooseInv'
    BY <1>0, <1>1, <1>2, <1>4 DEF LooseInv
  <1>10. UnpackInv'
    BY <1>0, <1>1, <1>2, <1>4, <1>5, <1>6 DEF UnpackInv
  <1>11. LaunchInv' /\ RunInv'
    BY <1>0, <1>2, <1>4, <1>6 DEF LaunchInv, RunInv, Op
  <1>12. CollectInv'
    <2>1. ASSUME (\E m \in markers : m.op = "collect" /\ m.status = "ok")
                   \/ (Place \in 8 .. 10 /\ failed = {})
          PROVE  collected'.inv = inv \/ Overtaken'
      <3>1. markers # {} => Place \in 1 .. 10
        BY <1>0, Places DEF MarkersInv
      <3>2. Place \in 7 .. 10
        BY <1>0, <2>1, <3>1, Ranks DEF MarkersInv
      <3>3. QED
        BY <1>0, <1>4, <2>1, <3>2 DEF CollectInv
    <2>2. Place \in 9 .. 10 /\ failed = {} => local.inv = inv \/ Overtaken'
      BY <1>0, <1>4 DEF CollectInv
    <2>3. QED
      BY <1>2, <1>4, <2>1, <2>2 DEF CollectInv
  <1>13. TeardownInv'
    <2>1. CASE c.op = "launch"
      BY <1>1, <1>2, <1>4, <2>1 DEF TeardownInv
    <2>2. CASE c.op # "launch"
      <3>1. (server' = server \/ server' = NoOne) /\ inv # NoOne
        BY <1>0, <1>5, <2>2 DEF TypeInv, NoOne
      <3>2. QED
        BY <1>0, <1>1, <1>2, <1>4, <1>6, <3>1 DEF TeardownInv
    <2>3. QED
      BY <2>1, <2>2
  <1>14. QED
    BY <1>4, <1>7, <1>8, <1>9, <1>10, <1>11, <1>12, <1>13 DEF IInv

-----------------------------------------------------------------------------
(***************************************************************************)
(* The theorems.                                                           *)
(***************************************************************************)

\* At first nothing is on the target and nothing has been done.
LEMMA InitIInv ==
  ASSUME Init
  PROVE  IInv
  <1>1. /\ inv = 1 /\ slot \in Slots /\ test = 1 /\ todo = PackageOn /\ waiting = FALSE
        /\ local = None /\ failed = {} /\ troubles = {} /\ verdict = "none"
        /\ console = << >> /\ markers = {} /\ loose = {} /\ server = NoOne
        /\ binary \in {NoOne, ByHand}
        /\ reports = << >> /\ collected = None
    BY TestLists DEF Init
  <1>2. Place = 1 /\ todo # << >>
    BY <1>1, Lists, Ranks DEF Place, Op
  <1>3. None \in Report /\ None.inv = 0
    BY DEF None, NoOne, Report
  <1>4. TypeInv
    <2>1. console \in Seq(Commands) /\ reports \in Seq(Report)
      BY <1>1
    <2>2. collected \in Report /\ local \in Report
      BY <1>1, <1>3
    <2>3. slot \in Slots /\ waiting \in BOOLEAN
      BY <1>1
    <2>4. inv \in Nat \ {0} /\ binary \in Nat /\ server \in Nat
      BY <1>1, InvocationsAssumption DEF NoOne, ByHand
    <2>5. loose \subseteq Commands /\ markers \subseteq [op : Typed, status : {"ok", "error"}]
      BY <1>1
    <2>6. QED
      BY <1>1, <2>1, <2>2, <2>3, <2>4, <2>5 DEF TypeInv
  <1>5. PlanInv /\ WaitingInv /\ ConsoleInv /\ MarkersInv /\ LooseInv
    BY <1>1, <1>2 DEF PlanInv, WaitingInv, ConsoleInv, MarkersInv, LooseInv
  <1>6. ReportsInv
    BY <1>1, <1>3 DEF ReportsInv, OfCases
  <1>7. UnpackInv /\ LaunchInv /\ RunInv /\ CollectInv
    BY <1>1, <1>2 DEF UnpackInv, LaunchInv, RunInv, CollectInv, Marked
  <1>8. TeardownInv /\ VerdictInv
    BY <1>1, <1>2 DEF TeardownInv, VerdictInv, Marked, NoOne
  <1>9. QED
    BY <1>4, <1>5, <1>6, <1>7, <1>8 DEF IInv

\* Every step keeps the invariant.
LEMMA StepIInv ==
  ASSUME IInv, [Next]_vars
  PROVE  IInv'
  <1>1. CASE Type
    BY <1>1, TypeIInv
  <1>2. CASE Omit \/ Read \/ GiveUp \/ Transfer \/ Adjudicate
    BY <1>2, HostIInv
  <1>3. CASE NextInvocation
    BY <1>3, NextIInv
  <1>4. CASE Work
    BY <1>4, WorkIInv
  <1>5. CASE LooseWork
    BY <1>5, LooseIInv
  <1>6. CASE UNCHANGED vars
    <2>1. UNCHANGED <<inv, asked, slot, test, todo, waiting, local, failed, troubles, late,
                      verdict, console, markers, loose, binary, server, envFile, reports,
                      collected>>
      BY <1>6 DEF vars, invocation, shell, target
    <2>2. TypeInv' <=> TypeInv
      BY <2>1 DEF TypeInv
    <2>3. /\ PlanInv' <=> PlanInv
          /\ WaitingInv' <=> WaitingInv
      BY <2>1 DEF PlanInv, WaitingInv, Op, Omitted
    <2>4. /\ Applicable' = Applicable /\ OwnReports' = OwnReports /\ Place' = Place
          /\ Overtaken' <=> Overtaken
      BY <2>1 DEF Applicable, OwnReports, Place, Op, Overtaken
    <2>5. /\ ConsoleInv' <=> ConsoleInv
          /\ MarkersInv' <=> MarkersInv
          /\ LooseInv' <=> LooseInv
      BY <2>1, <2>4 DEF ConsoleInv, MarkersInv, LooseInv, Op
    <2>6. ReportsInv' <=> ReportsInv
      BY <2>1, <2>4 DEF ReportsInv, OfCases
    <2>7. /\ UnpackInv' <=> UnpackInv
          /\ LaunchInv' <=> LaunchInv
          /\ RunInv' <=> RunInv
          /\ CollectInv' <=> CollectInv
      BY <2>1, <2>4 DEF UnpackInv, LaunchInv, RunInv, CollectInv, Marked, Op
    <2>8. /\ TeardownInv' <=> TeardownInv
          /\ VerdictInv' <=> VerdictInv
      BY <2>1, <2>4 DEF TeardownInv, VerdictInv, Marked, Acceptable
    <2>9. QED
      BY <2>2, <2>3, <2>5, <2>6, <2>7, <2>8 DEF IInv
  <1>7. QED
    BY <1>1, <1>2, <1>3, <1>4, <1>5, <1>6 DEF Next, Host, Prompt

\* What is promised of an invocation follows from how far it has got.
LEMMA Promises ==
  ASSUME IInv
  PROVE  PassIsEarned /\ FailureHasCause /\ TornDown
  <1>0. /\ TypeInv /\ PlanInv /\ WaitingInv /\ ReportsInv /\ UnpackInv /\ LaunchInv
        /\ TeardownInv /\ VerdictInv
    BY DEF IInv
  <1>1. verdict # "none" => todo = << >> /\ Place = 11 /\ ~waiting
    BY <1>0, Plan DEF VerdictInv, WaitingInv
  <1>2. Overtaken => Mistaken
    BY DEF Overtaken, Mistaken
  <1>3. PassIsEarned
    <2> SUFFICES ASSUME verdict = "pass"
                 PROVE  /\ local.inv = inv => local.ran = Applicable /\ Applicable # {}
                        /\ local.failed = {}
                        /\ local.inv = inv \/ Mistaken
                        /\ binary = inv \/ "fetch" \notin slot \/ "unpack" \in troubles \cup late
                        /\ "launch" \notin troubles
      BY DEF PassIsEarned
    <2>1. failed = {} /\ Acceptable(local) /\ (local.inv = inv \/ Overtaken)
      BY <1>0 DEF VerdictInv
    <2>2. local.inv = inv => local.ran = Applicable
      BY <1>0 DEF ReportsInv, OfCases
    <2>3. binary = inv \/ "fetch" \notin slot \/ "unpack" \in troubles \cup late
      BY <1>0, <1>1, <2>1 DEF UnpackInv
    <2>4. "launch" \notin troubles
      BY <1>0, <1>1, <2>1 DEF LaunchInv
    <2>5. QED
      BY <1>2, <2>1, <2>2, <2>3, <2>4 DEF Acceptable
  <1>4. FailureHasCause
    <2> SUFFICES ASSUME verdict = "fail", troubles = {}
                 PROVE  \/ local.inv = inv /\ (local.failed # {} \/ Applicable = {})
                        \/ Mistaken
      BY DEF FailureHasCause
    <2>1. ~Acceptable(local) /\ (local.inv = inv \/ Overtaken)
      BY <1>0 DEF VerdictInv
    <2>2. local.inv = inv => local.ran = Applicable
      BY <1>0 DEF ReportsInv, OfCases
    <2>3. QED
      BY <1>2, <2>1, <2>2 DEF Acceptable
  <1>5. TornDown
    BY <1>0, <1>1 DEF TornDown, TeardownInv
  <1>6. QED
    BY <1>3, <1>4, <1>5

\* The invariant holds of the adjudicator.
LEMMA Invariance == Spec => []IInv
  <1>1. Init => IInv
    BY InitIInv
  <1>2. IInv /\ [Next]_vars => IInv'
    BY StepIInv
  <1>3. QED
    BY <1>1, <1>2, PTL DEF Spec

\* A pass is earned, over any number of invocations: the report judged is this
\* invocation's, of the cases that apply, unless another's can be taken for it; its
\* package was unpacked, if the slot fetches one, and its launch succeeded
\* (test_rialto_conformance.py, _on_target to adjudicate).
THEOREM PassEarned == Spec => []PassIsEarned
  <1>1. IInv => PassIsEarned
    BY Promises
  <1>2. QED
    BY <1>1, Invariance, PTL

\* An invocation that fails has a cause to show, in its report or in what went wrong.
THEOREM FailureExplained == Spec => []FailureHasCause
  <1>1. IInv => FailureHasCause
    BY Promises
  <1>2. QED
    BY <1>1, Invariance, PTL

\* What an invocation launched is torn down whatever becomes of its run (the finally of
\* the run's test), if the slot has a teardown, unless the run is not tried or a command outlives its deadline.
THEOREM LaunchTornDown == Spec => []TornDown
  <1>1. IInv => TornDown
    BY Promises
  <1>2. QED
    BY <1>1, Invariance, PTL

=================================================================================
