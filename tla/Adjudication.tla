------------------------------ MODULE Adjudication ------------------------------
(***************************************************************************)
(* The ut-raft adjudicator (test_rialto_conformance.py): invocations one   *)
(* after the other against a target that keeps what the earlier ones left. *)
(* The host types commands on a console, each with a marker to be written  *)
(* when it is done, and reads until it has the marker or its deadline has  *)
(* passed; a command that outlives its deadline goes on.                   *)
(***************************************************************************)
EXTENDS Selection, FiniteSets

CONSTANTS
  TestCases,      \* the cases of the binary
  Scopes, Tiers,  \* what an invocation may ask for
  Profile,        \* the features the platform's HFP declares
  Slots,          \* the options the slots configure
  MaxInvocations,
  MaxLoose        \* commands without a console going on at once

\* conformance.deploy is "fetch", or "none"; the others are strings that may be empty.
Options == {"fetch", "launch", "teardown", "envFile"}

ASSUME SlotsAssumption == Slots \subseteq SUBSET Options
ASSUME InvocationsAssumption == MaxInvocations \in Nat \ {0} /\ MaxLoose \in Nat

VARIABLES
  inv,        \* the invocation under way
  asked,      \* the scope and the tier it asks for
  slot,       \* the options of the slot they are all for
  test,       \* its test under way
  todo,       \* what that test has still to do
  waiting,    \* its command has been typed
  local,      \* the report copied to the host
  failed,     \* its tests that have failed
  troubles,   \* history: what of it went wrong on the target or on the way
  late,       \* history: what earlier ones left going on and was done during it
  verdict,
  console,    \* commands typed and not done; the first is under way
  markers,    \* the statuses the console has written
  loose,      \* commands whose console has gone, still under way
  binary,     \* whose package is installed
  server,     \* who launched the session server, if it is up
  envFile,    \* the environment a launch has written for the run
  reports,    \* the reports in the results directory, the newest last
  collected   \* the report collected to a stable name

invocation == <<inv, asked, slot, troubles, late>>
shell      == <<console, markers, loose>>
target     == <<binary, server, envFile, reports, collected>>
vars == <<invocation, test, todo, waiting, local, failed, verdict, shell, target>>

NoOne  == 0
ByHand == MaxInvocations + 1  \* the engineer, who installs where the slot fetches nothing
None  == [inv |-> NoOne, ran |-> {}, failed |-> {}]

-----------------------------------------------------------------------------
(***************************************************************************)
(* The target.                                                             *)
(***************************************************************************)
Applicable ==
  {c \in TestCases : Selected(asked.scope, asked.tier, Profile, c)}

Command(op) == [op |-> op, inv |-> inv, cases |-> Applicable]

Unpack(c, status) ==
  /\ c.op = "unpack"
  /\ binary' = IF status = "ok" THEN c.inv ELSE binary
  /\ UNCHANGED <<server, envFile, reports, collected>>

Probe(c, status) ==
  /\ c.op = "probe"
  /\ (status = "ok") <=> (binary # NoOne)
  /\ UNCHANGED target

\* A launch that fails leaves no server, or one that is not ready.
LaunchTarget(c, status) ==
  /\ c.op = "launch"
  /\ server' \in {c.inv} \cup (IF status = "ok" THEN {} ELSE {NoOne})
  /\ envFile' = (envFile \/ status = "ok")
  /\ UNCHANGED <<binary, reports, collected>>

\* The binary writes its report when it is through with its cases, and ends with status 0
\* whatever their results; it may also end early.  It does not start where it is not
\* installed, or where the environment file to be sourced before it is missing.
RunBinary(c, status) ==
  /\ c.op = "run"
  /\ IF status = "error" THEN UNCHANGED reports
     ELSE /\ binary # NoOne
          /\ "envFile" \in slot => envFile
          /\ \E bad \in SUBSET c.cases :
               reports' = Append(reports, [inv |-> c.inv, ran |-> c.cases, failed |-> bad])
  /\ UNCHANGED <<binary, server, envFile, collected>>

\* Mutation: the report first in the directory.
OldestReport == IF reports = << >> THEN None ELSE Head(reports)

NewestReport == IF reports = << >> THEN None ELSE reports[Len(reports)]

Collect(c, status) ==
  /\ c.op = "collect"
  /\ (status = "ok") <=> (reports # << >>)
  /\ collected' = IF status = "ok" THEN NewestReport ELSE collected
  /\ UNCHANGED <<binary, server, envFile, reports>>

TearDownTarget(c, status) ==
  /\ c.op = "teardown"
  /\ server' = NoOne /\ envFile' = FALSE
  /\ UNCHANGED <<binary, reports, collected>>

Perform(c, status) ==
  \/ Unpack(c, status) \/ Probe(c, status) \/ LaunchTarget(c, status)
  \/ RunBinary(c, status) \/ Collect(c, status) \/ TearDownTarget(c, status)

\* The shell does one command after the other, and writes its marker with its status.
Work ==
  /\ console # << >>
  /\ \E status \in {"ok", "error"} :
       /\ Perform(Head(console), status)
       /\ markers' = markers \cup {[op |-> Head(console).op, status |-> status]}
       /\ troubles' = IF status = "ok" THEN troubles ELSE troubles \cup {Head(console).op}
  /\ console' = Tail(console)
  /\ UNCHANGED <<inv, asked, slot, late, test, todo, waiting, local, failed, verdict, loose>>

\* A command whose console has gone may yet be done.
LooseWork ==
  /\ \E c \in loose, status \in {"ok", "error"} :
       /\ Perform(c, status)
       /\ loose' = loose \ {c}
       /\ late' = late \cup {c.op}
  /\ UNCHANGED <<inv, asked, slot, troubles, test, todo, waiting, local, failed, verdict, console, markers>>

-----------------------------------------------------------------------------
(***************************************************************************)
(* The host: three tests, each with a console of its own.  Making the      *)
(* results directory is left out: nothing depends on its outcome.          *)
(***************************************************************************)
Tests ==
  <<<<"package", "unpack", "probe">>,
    <<"launch">>,
    <<"hfp", "run", "collect", "copy", "teardown", "adjudicate">>>>

Transferred == {"package", "hfp", "copy"}

Typed == {"unpack", "probe", "launch", "run", "collect", "teardown"}

Op == Head(todo)

\* Mutation: a failed assertion leaves the test at once.
NoFinally == << >>

\* What a failed assertion leaves to do: once the run is tried, the teardown.
Finally == IF Op \in {"run", "collect", "copy"} THEN <<"teardown">> ELSE << >>

\* The end of a test closes its session: what is under way may go on without it, and what
\* is typed behind that is lost.
Hangup ==
  /\ \/ loose' = loose
     \/ /\ console # << >> /\ Cardinality(loose) < MaxLoose
        /\ loose' = loose \cup {Head(console)}
  /\ console' = << >>
  /\ markers' = {}

Proceed(ok) ==
  LET rest == IF ok THEN Tail(todo) ELSE Finally
      bad  == IF ok THEN failed ELSE failed \cup {test}
  IN /\ failed' = bad
     /\ waiting' = FALSE
     /\ IF rest # << >>
        THEN todo' = rest /\ UNCHANGED <<test, verdict, shell>>
        ELSE /\ Hangup
             /\ test' = test + 1
             /\ todo' = IF test < Len(Tests) THEN Tests[test + 1] ELSE << >>
             /\ verdict' = IF test < Len(Tests) THEN verdict
                           ELSE IF bad = {} THEN "pass" ELSE "fail"

\* What belongs to an option the slot does not have.
Omitted(op) ==
  \/ op \in {"package", "unpack"} /\ "fetch" \notin slot
  \/ op \in {"launch", "teardown"} /\ op \notin slot

\* _on_target: types a command behind what the console still has to do.
Type ==
  /\ todo # << >> /\ Op \in Typed /\ ~Omitted(Op) /\ ~waiting
  /\ waiting' = TRUE
  /\ console' = Append(console, Command(Op))
  /\ UNCHANGED <<invocation, test, todo, local, failed, verdict, markers, loose, target>>

Omit ==
  /\ todo # << >> /\ Omitted(Op)
  /\ Proceed(TRUE)
  /\ UNCHANGED <<invocation, local, target>>

\* The commands whose status is asserted; the others may fail unseen.
Asserts(op) == op \in {"probe", "launch", "collect"}

Read ==
  /\ waiting
  /\ \E m \in markers : m.op = Op /\ Proceed(m.status = "ok" \/ ~Asserts(Op))
  /\ UNCHANGED <<invocation, local, target>>

\* Mutation: a wait without a deadline.
NoDeadline == FALSE

DeadlinePassed == \A m \in markers : m.op # Op

GiveUp ==
  /\ waiting /\ DeadlinePassed
  /\ troubles' = troubles \cup {Op}
  /\ Proceed(~Asserts(Op))
  /\ UNCHANGED <<inv, asked, slot, late, local, target>>

\* The package and the HFP are fetched and shipped, and the report copied back, or not.
Transfer ==
  /\ todo # << >> /\ Op \in Transferred /\ ~Omitted(Op)
  /\ \E ok \in BOOLEAN :
       /\ Proceed(ok)
       /\ local' = IF Op = "copy" /\ ok THEN collected ELSE local
       /\ troubles' = IF ok THEN troubles ELSE troubles \cup {Op}
  /\ UNCHANGED <<inv, asked, slot, late, target>>

\* Mutation: a skipped case counts as one that failed.
NoneSkipped(report) == report.failed = {} /\ report.ran = TestCases

Acceptable(report) == report.failed = {} /\ report.ran # {}

Adjudicate ==
  /\ todo # << >> /\ Op = "adjudicate"
  /\ Proceed(Acceptable(local))
  /\ UNCHANGED <<invocation, local, target>>

NextInvocation ==
  /\ todo = << >> /\ inv < MaxInvocations
  /\ inv' = inv + 1
  /\ asked' \in [scope : Scopes, tier : Tiers]
  /\ test' = 1 /\ todo' = Tests[1]
  /\ failed' = {} /\ troubles' = {} /\ late' = {} /\ verdict' = "none"
  /\ UNCHANGED <<slot, waiting, local, shell, target>>

Prompt == Type \/ Omit \/ Read \/ GiveUp \/ Adjudicate \/ NextInvocation
Host   == Prompt \/ Transfer

-----------------------------------------------------------------------------
Init ==
  /\ inv = 1
  /\ asked \in [scope : Scopes, tier : Tiers]
  /\ slot \in Slots
  /\ test = 1 /\ todo = Tests[1] /\ waiting = FALSE
  /\ local = None
  /\ failed = {} /\ troubles = {} /\ late = {} /\ verdict = "none"
  /\ console = << >> /\ markers = {} /\ loose = {}
  /\ binary \in {NoOne} \cup (IF "fetch" \in slot THEN {} ELSE {ByHand})
  /\ server = NoOne
  /\ envFile \in {FALSE, "launch" \notin slot}
  /\ reports = << >> /\ collected = None

Next == Host \/ Work \/ LooseWork

\* The host's deadlines pass.  A command on the target may hang, and so may a transfer,
\* which has no deadline: scp is run without a timeout.
Spec == Init /\ [][Next]_vars /\ WF_vars(Prompt)

-----------------------------------------------------------------------------
(***************************************************************************)
(* Properties.                                                             *)
(***************************************************************************)
OwnReports == {i \in DOMAIN reports : reports[i].inv = inv}

\* Another invocation's report can only be taken for this one's if this one wrote none
\* before its deadline, or a run given up earlier wrote its own behind it.
Mistaken ==
  \/ OwnReports = {} \/ "run" \in troubles
  \/ \E i \in OwnReports, j \in DOMAIN reports : i < j /\ reports[j].inv < inv

\* A pass is earned: the report judged is of this invocation and its package, ran exactly
\* the cases asked for that apply, at least one, and none failed, on a target whose launch,
\* if the slot has one, succeeded.  A report that was there before, and a package that was,
\* are the only others that can pass.
PassIsEarned ==
  verdict = "pass" =>
    /\ local.inv = inv => local.ran = Applicable /\ Applicable # {}
    /\ local.failed = {}
    /\ local.inv = inv \/ Mistaken
    /\ binary = inv \/ "fetch" \notin slot \/ "unpack" \in troubles \cup late
    /\ "launch" \notin troubles

\* A failure has a cause: a case that failed, none that applies, a command or a transfer
\* that went wrong, or another invocation's report.
FailureHasCause ==
  verdict = "fail" =>
    \/ troubles # {}
    \/ local.inv = inv /\ (local.failed # {} \/ Applicable = {})
    \/ Mistaken

\* What the invocation brought up is torn down whatever becomes of its run, if the slot has
\* a teardown, unless the run is not tried, or the teardown or the launch outlives its
\* deadline.
TornDown ==
  verdict # "none" /\ server = inv /\ "teardown" \in slot =>
    "hfp" \in troubles \/ "teardown" \in troubles \/ "launch" \in late

\* "the newest one in the results directory is this run's"
\* (test_rialto_conformance.py:205).
NewestIsThisRuns == verdict = "pass" => local.inv = inv

\* Every invocation comes to a verdict, though commands hang.  A transfer that hangs, and
\* nothing else, can keep it from one.
EveryInvocationEnds ==
  \/ <>(inv = MaxInvocations /\ verdict # "none")
  \/ <>[](todo # << >> /\ Op \in Transferred)
===============================================================================
