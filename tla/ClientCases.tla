------------------------------ MODULE ClientCases ------------------------------
(***************************************************************************)
(* The native cases that observe a client callback without feeding data:   *)
(* ControlTests.cpp with the SimControl it drives the server's state with, *)
(* WebAudioTests.cpp, ClientLogControlTests.cpp and                        *)
(* PipelineLifecycleTests.cpp.  A call only enqueues what it asks for; the *)
(* server applies it later and notifies the client, whose own thread       *)
(* appends the notice to what the recording client has heard.              *)
(***************************************************************************)
EXTENDS CaseScript, FiniteSets

CONSTANTS Cases,       \* the cases to run
          FaultsOf(_), \* faults the server may have in a case
          MaxTries,    \* 25 in RestoreActive
          MaxLost      \* exchanges with the sim that may fail

ASSUME RestoreAssumption == MaxTries \in Nat /\ MaxLost \in 0 .. MaxTries

VARIABLES
  heard,   \* what the recording client was notified of, in order
  mark,    \* how much of it the case had seen when it last looked
  notices, \* notices on their way to the client
  tasks,   \* what the server has still to apply
  app,     \* the application state of the server
  volume,  \* the web-audio player's volume
  sources, \* the pipeline's sources, and whether all were declared attached
  owners,  \* who holds the registered control client
  handler, \* the log handler registered with the client library
  tries,   \* tries of RestoreActive
  lost     \* exchanges with the sim that have failed

server == <<notices, tasks, app, volume, sources, owners, handler>>
clientVars == <<scriptVars, heard, mark, server, tries, lost>>

-----------------------------------------------------------------------------
(***************************************************************************)
(* ControlTests.cpp.                                                       *)
(***************************************************************************)
\* The faults of this module's servers and libraries, beside those all cases share.
Breaks(call)   == Fault("breaks", call, "none")    \* a failure is notified after it
Forgets(event) == Fault("forgets", event, "none")  \* notified the first time only
Loses == Fault("loses", "exchange", "none")  \* exchanges with the sim may fail
Slow  == Fault("slow", "server", "none")     \* deadlines pass before it is done

Registering == <<Setup("createControl"), Call("registerClient")>>
NotRegistered == {Refuses("createControl"), Refuses("registerClient")}
SetState(state) == Step("sim", "setState", state, "hold")
SetMark == Plain("mark")
RestoreActive == Step("restore", "app", "RUNNING", "ignored")

RegisterClientReturnsTrueAndWritesState ==
  Case(Registering \o <<Get("definedState", TRUE)>>,
       NotRegistered \cup {Misanswers("definedState")})
RegisteredClientLearnsRunningState ==
  Case(Registering \o <<Get("appState", TRUE)>>,
       NotRegistered \cup {Misanswers("appState"), Ignores("appState")})
RegisteredClientIsNotifiedOfStateTransition ==
  Case(Registering \o <<Get("appState", TRUE),
         SetMark, SetState("INACTIVE"), Await("INACTIVE"),
         SetMark, SetState("RUNNING"), Await("RUNNING"), RestoreActive>>,
       NotRegistered \cup {Misanswers("appState"), Ignores("appState"),
                           Silences("INACTIVE"), Silences("RUNNING")})
ClientReleasedOnControlDestruction ==
  Case(Registering \o <<Plain("dropClient"), Get("expired", FALSE),
                        Plain("destroyControl"), Get("expired", TRUE)>>,
       NotRegistered \cup {Ignores("hold"), Ignores("release")})

(***************************************************************************)
(* WebAudioTests.cpp.                                                      *)
(***************************************************************************)
OnPlayer(steps, catches) ==
  Case(<<Setup("makePlayer")>> \o steps, catches \cup {Refuses("makePlayer")})

CreateReturnsInstance == OnPlayer(<<Check("noFailure")>>, {Breaks("makePlayer")})
StateMachineNotifiesTransitions ==
  OnPlayer(<<Call("play"), Await("PLAYING"), Call("pause"), Await("PAUSED"),
             Call("play"), Call("setEos"), Await("END_OF_STREAM")>>,
           {Refuses("play"), Refuses("pause"), Refuses("setEos"), Silences("PLAYING"),
            Silences("PAUSED"), Silences("END_OF_STREAM")})
GetBufferAvailableBoundsTheWrite ==
  OnPlayer(<<Call("getDeviceInfo"), Call("getBufferAvailable"), Get("boundsTheWrite", TRUE),
             Call("writeBuffer")>>,
           {Misanswers("boundsTheWrite"), Refuses("getDeviceInfo"),
            Refuses("getBufferAvailable"), Refuses("writeBuffer")})
GetBufferDelayReportsQueuedFrames ==
  OnPlayer(<<Call("getBufferDelay"), Get("nothingQueued", TRUE)>>,
           {Refuses("getBufferDelay"), Misanswers("nothingQueued")})
GetDeviceInfoReportsBufferSizing ==
  OnPlayer(<<Call("getDeviceInfo"), Get("bufferSizing", TRUE)>>,
           {Refuses("getDeviceInfo"), Misanswers("bufferSizing")})
VolumeRoundTrips ==
  OnPlayer(<<Write("0.0"), Poll("0.0"), Write("0.5"), Poll("0.5"), Write("1.0"), Poll("1.0")>>,
           {Refuses("property"), Ignores("volume")})
HighPriorityPlayerAppearsToFunction ==
  OnPlayer(<<Call("getDeviceInfo"), Check("noFailure")>>,
           {Refuses("getDeviceInfo"), Breaks("makePlayer")})
GetClientReturnsSuppliedClient ==
  OnPlayer(<<Get("suppliedClient", TRUE)>>, {Misanswers("suppliedClient")})

(***************************************************************************)
(* ClientLogControlTests.cpp.  The fixture always leaves no handler.       *)
(***************************************************************************)
Register(h) == Step("register", "handler", h, "hold")
LogTearDown == <<Step("register", "handler", "none", "always")>>
Trigger == Plain("triggerClientLogActivity")

OnLog(steps, catches) ==
  Case(<<Setup("clientLogControl")>> \o steps \o LogTearDown,
       catches \cup {Refuses("clientLogControl")})

FactoryReturnsSingleton == OnLog(<<Get("singleton", TRUE)>>, {Misanswers("singleton")})
HandlerReceivesPopulatedRecords ==
  OnLog(<<Register("first"), Trigger, Await("first"), Get("populated", TRUE)>>,
        {Refuses("handler"), Silences("log"), Misanswers("populated")})
RegisteringNewHandlerReplacesPrevious ==
  OnLog(<<Register("first"), Trigger, Register("second"), Trigger, Await("second")>>,
        {Refuses("handler"), Silences("log"), Ignores("replace")})
NullHandlerCancelsDelivery ==
  OnLog(<<Register("first"), Trigger, Await("first"), Register("none"), Sleep, SetMark,
          Trigger, Glance("first"), Check("unchanged")>>,
        {Refuses("handler"), Silences("log"), Ignores("cancel")})

(***************************************************************************)
(* PipelineLifecycleTests.cpp.                                             *)
(***************************************************************************)
OnLoaded(steps, catches) ==
  Case(<<Setup("createAndLoad")>> \o steps, catches \cup {Refuses("createAndLoad")})

AttachSource == <<Call("attachSource"), Get("validId", TRUE)>>

LoadAttachRemoveSource ==
  OnLoaded(AttachSource \o <<Call("removeSource")>>,
           {Refuses("attachSource"), Misanswers("validId"), Refuses("removeSource")})
AllSourcesAttachedIsLegalOnlyOnce ==
  OnLoaded(<<Call("attachSource"), Get("allSourcesAttached", TRUE),
             Get("allSourcesAttached", FALSE)>>,
           {Refuses("attachSource"), Misanswers("allSourcesAttached"), Ignores("repeat")})
MultiSourceAttachComposition ==
  OnLoaded(AttachSource \o AttachSource
             \o <<Get("distinctIds", TRUE), Get("allSourcesAttached", TRUE),
                  Get("allSourcesAttached", FALSE)>>,
           {Refuses("attachSource"), Misanswers("validId"), Misanswers("distinctIds"),
            Misanswers("allSourcesAttached"), Ignores("repeat")})

Suite ==
  [RegisterClientReturnsTrueAndWritesState |-> RegisterClientReturnsTrueAndWritesState,
   RegisteredClientLearnsRunningState |-> RegisteredClientLearnsRunningState,
   RegisteredClientIsNotifiedOfStateTransition |->
     RegisteredClientIsNotifiedOfStateTransition,
   ClientReleasedOnControlDestruction |-> ClientReleasedOnControlDestruction,
   CreateReturnsInstance |-> CreateReturnsInstance,
   StateMachineNotifiesTransitions |-> StateMachineNotifiesTransitions,
   GetBufferAvailableBoundsTheWrite |-> GetBufferAvailableBoundsTheWrite,
   GetBufferDelayReportsQueuedFrames |-> GetBufferDelayReportsQueuedFrames,
   GetDeviceInfoReportsBufferSizing |-> GetDeviceInfoReportsBufferSizing,
   VolumeRoundTrips |-> VolumeRoundTrips,
   HighPriorityPlayerAppearsToFunction |-> HighPriorityPlayerAppearsToFunction,
   GetClientReturnsSuppliedClient |-> GetClientReturnsSuppliedClient,
   FactoryReturnsSingleton |-> FactoryReturnsSingleton,
   HandlerReceivesPopulatedRecords |-> HandlerReceivesPopulatedRecords,
   RegisteringNewHandlerReplacesPrevious |-> RegisteringNewHandlerReplacesPrevious,
   NullHandlerCancelsDelivery |-> NullHandlerCancelsDelivery,
   LoadAttachRemoveSource |-> LoadAttachRemoveSource,
   AllSourcesAttachedIsLegalOnlyOnce |-> AllSourcesAttachedIsLegalOnlyOnce,
   MultiSourceAttachComposition |-> MultiSourceAttachComposition]

ASSUME CasesAssumption == Cases \subseteq DOMAIN Suite

\* Faults the comment of a case says it rules out and its assertions cannot tell from what
\* was there before: an out-param left at its initial value, which is a defined state, and
\* a transition repeated without a notice.
Unasserted(c) ==
  CASE c = "RegisterClientReturnsTrueAndWritesState" -> {Ignores("appState")}
    [] c = "StateMachineNotifiesTransitions" -> {Forgets("PLAYING")}
    [] OTHER -> {}

Script   == Suite[case].script
Now      == Script[pc]
Finished == Over(Script)

-----------------------------------------------------------------------------
(***************************************************************************)
(* The server, and the client library's threads (external).                *)
(***************************************************************************)
Task(do, value) == [do |-> do, value |-> value]

AlreadySent(notice) ==
  \/ \E k \in DOMAIN heard : heard[k] = notice
  \/ \E k \in DOMAIN notices : notices[k] = notice

Sent(notice) ==
  IF fault = Silences(notice) \/ (fault = Forgets(notice) /\ AlreadySent(notice))
  THEN << >> ELSE <<notice>>

\* The server applies a call; a state it is in already it does not notify again.  The
\* library hands a record or two to the handler registered when they are logged.
Work ==
  /\ tasks # << >>
  /\ tasks' = Tail(tasks)
  /\ LET t == Head(tasks) IN
       \/ /\ t.do = "app"
          /\ app' = t.value
          /\ notices' = IF t.value = app THEN notices ELSE notices \o Sent(t.value)
          /\ shown' = (shown \/ (t.value # app /\ Sent(t.value) = << >>))
          /\ UNCHANGED volume
       \/ /\ t.do = "player"
          /\ notices' = notices \o Sent(t.value)
          /\ shown' = (shown \/ Sent(t.value) = << >>)
          /\ UNCHANGED <<app, volume>>
       \/ /\ t.do = "volume"
          /\ volume' = IF fault = Ignores("volume") THEN volume ELSE t.value
          /\ shown' = (shown \/ volume' # t.value)
          /\ UNCHANGED <<app, notices>>
       \/ /\ t.do = "log"
          /\ IF handler = "none" \/ fault = Silences("log")
             THEN UNCHANGED notices
             ELSE \E n \in 1 .. 2 : notices' = notices \o [k \in 1 .. n |-> handler]
          /\ shown' = (shown \/ fault = Silences("log"))
          /\ UNCHANGED <<app, volume>>
  /\ UNCHANGED <<case, fault, pc, failed, heard, mark, sources, owners, handler, tries, lost>>

\* notifyApplicationState, notifyState and log, which append to what was heard.  A failure
\* has shown if the case is not over when its notice comes.
Notify ==
  /\ notices # << >>
  /\ heard' = Append(heard, Head(notices))
  /\ notices' = Tail(notices)
  /\ shown' = (shown \/ (fault.kind = "breaks" /\ Head(notices) = "FAILURE" /\ ~Finished))
  /\ UNCHANGED <<case, fault, pc, failed, mark, tasks, app, volume, sources, owners, handler,
                 tries, lost>>

Settled == tasks = << >> /\ notices = << >>

-----------------------------------------------------------------------------
(***************************************************************************)
(* The test thread.                                                        *)
(***************************************************************************)
Assert(ok) == /\ Judge(Script, ok)
              /\ UNCHANGED <<fault, shown, heard, mark, server, tries, lost>>

Enqueued ==
  [play |-> Task("player", "PLAYING"), pause |-> Task("player", "PAUSED"),
   setEos |-> Task("player", "END_OF_STREAM"), property |-> Task("volume", Now.value),
   triggerClientLogActivity |-> Task("log", "record")]

\* A client that registers may also be notified of the state it is told.
RegisterClient ==
  /\ owners' = {"case"} \cup (IF fault = Ignores("hold") THEN {} ELSE {"control"})
  /\ notices' \in {notices, Append(notices, app)}
  /\ UNCHANGED <<tasks, sources>>

Perform(op) ==
  \/ op = "registerClient" /\ RegisterClient
  \/ /\ op \in {"dropClient", "destroyControl"}
     /\ owners' = IF op = "dropClient" THEN owners \ {"case"}
                  ELSE IF fault = Ignores("release") THEN owners ELSE owners \ {"control"}
     /\ UNCHANGED <<notices, tasks, sources>>
  \/ /\ op \in DOMAIN Enqueued
     /\ tasks' = Append(tasks, Enqueued[op])
     /\ UNCHANGED <<notices, owners, sources>>
  \/ /\ op \in {"attachSource", "removeSource"}
     /\ sources' = [sources EXCEPT !.count = IF op = "attachSource" THEN @ + 1 ELSE @ - 1]
     /\ UNCHANGED <<notices, tasks, owners>>
  \/ /\ op = "makePlayer"
     /\ notices' = IF fault = Breaks(op) THEN Append(notices, "FAILURE") ELSE notices
     /\ UNCHANGED <<tasks, owners, sources>>
  \/ /\ op \in {"createControl", "mark", "getDeviceInfo", "getBufferAvailable",
                "writeBuffer", "getBufferDelay", "clientLogControl", "createAndLoad"}
     /\ UNCHANGED <<notices, tasks, owners, sources>>

CallStep ==
  /\ Now.do \in {"call", "write"}
  /\ LET refused == fault = Refuses(Now.what) IN
       /\ shown' = (shown \/ refused)
       /\ Judge(Script, ~refused)
       /\ IF refused THEN UNCHANGED <<notices, tasks, owners, sources>> ELSE Perform(Now.what)
  /\ mark' = IF Now = SetMark THEN Len(heard) ELSE mark
  /\ UNCHANGED <<fault, heard, app, volume, handler, tries, lost>>

\* registerLogHandler: the handler replaces the one before, and none cancels it.
RegisterStep ==
  /\ Now.do = "register"
  /\ LET refused == fault = Refuses("handler")
         kept    == \/ fault = Ignores("replace") /\ handler # "none" /\ Now.value # "none"
                    \/ fault = Ignores("cancel") /\ Now.value = "none"
     IN /\ handler' = IF refused \/ kept THEN handler ELSE Now.value
        /\ shown' = (shown \/ refused \/ kept)
        /\ Judge(Script, ~refused)
  /\ UNCHANGED <<fault, heard, mark, notices, tasks, app, volume, sources, owners, tries, lost>>

\* What a conforming server or library answers.  The out-param starts as UNKNOWN, which
\* is a defined state too.
Answer(what) ==
  CASE what = "appState"           -> app = "RUNNING" /\ fault # Ignores("appState")
    [] what = "expired"            -> owners = {}
    [] what = "allSourcesAttached" -> ~sources.all \/ fault = Ignores("repeat")
    [] OTHER                       -> TRUE

GetStep ==
  LET answered == IF fault = Misanswers(Now.what) THEN ~Answer(Now.what) ELSE Answer(Now.what)
  IN /\ Now.do = "get"
     /\ Judge(Script, answered = Now.value)
     /\ shown' = (shown \/ fault.kind = "ignores" \/ answered # Answer(Now.what))
     /\ sources' = [sources EXCEPT !.all = @ \/ Now.what = "allSourcesAttached"]
     /\ UNCHANGED <<fault, heard, mark, notices, tasks, app, volume, owners, handler, tries, lost>>

\* Mutation: a wait for a state is satisfied by one notified at any time.
Ever == 0

Since == mark

\* waitForStateSince, waitForState and waitForAtLeast.
Observed(notice) == \E i \in Since + 1 .. Len(heard) : heard[i] = notice

\* Mutation: a wait without a deadline.
NoDeadline(reached) == FALSE

\* Mutation: a deadline shorter than the server takes.
EarlyDeadline(reached) == ~reached

TimedOut(reached) == ~reached /\ (Settled \/ fault = Slow)

AwaitStep ==
  /\ Now.do = "await"
  /\ \/ Observed(Now.what) /\ Assert(TRUE)
     \/ TimedOut(Observed(Now.what)) /\ Assert(FALSE)

PollStep ==
  /\ Now.do = "poll"
  /\ \/ volume = Now.value /\ Assert(TRUE)
     \/ TimedOut(volume = Now.value) /\ Assert(FALSE)

\* Mutation: records in flight are not waited for.
NoSettling == TRUE

\* Records in flight arrive before the count is taken.
InFlightSettled == Settled

SleepStep == Now.do = "sleep" /\ InFlightSettled /\ Assert(TRUE)

Holds(what) ==
  CASE what = "noFailure" -> \A i \in DOMAIN heard : heard[i] # "FAILURE"
    [] what = "unchanged" -> \A i \in DOMAIN heard : heard[i] = "first" => i <= mark

CheckStep == Now.do = "check" /\ Assert(Holds(Now.what))

\* SimControl: the request of an exchange that fails may have reached the sim or not.
Exchange(state) ==
  \/ tasks' = Append(tasks, Task("app", state)) /\ UNCHANGED lost /\ Judge(Script, TRUE)
  \/ /\ fault = Loses /\ lost < MaxLost
     /\ lost' = lost + 1
     /\ tasks' \in {tasks, Append(tasks, Task("app", state))}
     /\ Judge(Script, FALSE)

SetStateStep ==
  /\ Now.do = "sim"
  /\ Exchange(Now.value)
  /\ UNCHANGED <<fault, shown, heard, mark, notices, app, volume, sources, owners, handler, tries>>

\* Mutation: one attempt.
RestoreOnce == 1

Tries == MaxTries

\* SimControl::getState: a query that fails says nothing.
GetState(unanswered) == IF unanswered = 1 THEN "none" ELSE app

\* One turn of RestoreActive: unless the sim says Active, ask for it again.
RestoreStep ==
  /\ Now.do = "restore"
  /\ \/ /\ app = "RUNNING" \/ tries >= Tries
        /\ Assert(TRUE)
     \/ /\ tries < Tries
        /\ \E unanswered, failing \in 0 .. (IF fault = Loses THEN 1 ELSE 0) :
             /\ GetState(unanswered) # "RUNNING"
             /\ lost + unanswered + failing <= MaxLost
             /\ lost' = lost + unanswered + failing
             /\ tasks' \in {Append(tasks, Task("app", "RUNNING"))}
                             \cup (IF failing = 1 THEN {tasks} ELSE {})
        /\ tries' = tries + 1
        /\ UNCHANGED <<scriptVars, heard, mark, notices, app, volume, sources, owners, handler>>

TestCase ==
  /\ ~Finished
  /\ CallStep \/ RegisterStep \/ GetStep \/ AwaitStep \/ PollStep \/ SleepStep
       \/ CheckStep \/ SetStateStep \/ RestoreStep

-----------------------------------------------------------------------------
Init ==
  /\ ScriptInit(Cases, FaultsOf)
  /\ heard = << >> /\ mark = 0
  /\ notices = << >> /\ tasks = << >>
  /\ app = "RUNNING"
  /\ volume = "1.0"
  /\ sources = [count |-> 0, all |-> FALSE]
  /\ owners = {"case"}
  /\ handler = "none"
  /\ tries = 0 /\ lost = 0

Next == TestCase \/ Work \/ Notify

\* Every thread runs on, and deadlines pass.
Spec == /\ Init /\ [][Next]_clientVars
        /\ WF_clientVars(TestCase) /\ WF_clientVars(Work) /\ WF_clientVars(Notify)

-----------------------------------------------------------------------------
(***************************************************************************)
(* Properties.                                                             *)
(***************************************************************************)

\* No case fails a server that conforms, however late it applies, notifies or logs.
ConformingClientPasses == fault = Conforming => ~failed

\* A server or library with a fault the case is there to catch never gets through, once
\* the fault has shown: no earlier notice stands in for the one that is missing.
FaultyClientIsCaught == Finished /\ shown /\ fault \in Suite[case].catches => failed

\* What `catches' leaves out of the claims of a case, no assertion of it ever sees: of the
\* state registerClient is to write "into its out-param" (ControlTests.cpp:153-154) and of
\* the second PLAYING of "each transition" (WebAudioTests.cpp:181) a pass says nothing.
UnassertedPasses == fault \in Unasserted(case) => ~failed

\* "so the state the shared server is left in does not leak into later cases"
\* (ControlTests.cpp:236): whatever notices are missing, however slow the server and
\* whichever exchanges with the sim fail, it ends up Active.
ServerLeftActive == Finished /\ Settled => app = "RUNNING"

\* Every case ends, whatever is refused, lost or never notified.
ClientCaseEnds == <>Finished
===============================================================================
