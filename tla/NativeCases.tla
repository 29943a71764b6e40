------------------------------ MODULE NativeCases ------------------------------
(***************************************************************************)
(* The data-path cases of src/L4_e2e/playback as scripts of the test       *)
(* thread, run against the feed of MediaFeed and the recording client and  *)
(* server of Playback.                                                     *)
(***************************************************************************)
EXTENDS Playback

CONSTANTS Cases,       \* the cases to run
          FaultsOf(_)  \* faults the server may have in a case

caseVars == <<vars, playbackVars, case, pc, failed>>

-----------------------------------------------------------------------------
\* Create, bind, load and attach; every failure returns nullptr, which the caller
\* asserts fatally.
LoadAndAttachAudio ==
  <<Plain("setPipeline"), Setup("load"), Setup("attachSource")>>

DriveToPlaying ==
  LoadAndAttachAudio \o <<Setup("allSourcesAttached"), Setup("play"), Reach("PLAYING")>>

PlayAsserted == <<Call("allSourcesAttached"), Call("play"), Reach("PLAYING")>>

TearDown == <<Plain("stop")>>

\* Whatever else it is there for, a case catches the refusal of each call it insists on
\* and a wrong answer, or one out of its range, to each getter it asserts.
Insisted(script) ==
  LET held == {k \in 1 .. Len(script) : script[k].must \in {"hold", "abort"}} IN
  {Refuses(script[k].what) : k \in {j \in held : script[j].do \in {"call", "write"}}}
    \cup {Misanswers(script[k].what) : k \in {j \in held : script[j].do = "get"}}

Playing(script, catches) == Case(script, catches \cup Insisted(script))

OnPlaying(steps, catches) ==
  Playing(DriveToPlaying \o steps \o TearDown, catches \cup {Silences("play")})

\* What a look at FAILURE once PLAYING is reached sees.
FailureSeen == {Spoils("preroll", "FAILURE"), Spoils("play", "FAILURE")}

-----------------------------------------------------------------------------
(***************************************************************************)
(* PipelineAuxDataPathTests.cpp.                                           *)
(***************************************************************************)
VolumeRoundTripsOnRealizedPipeline ==
  OnPlaying(<<Write(TRUE), Poll(TRUE)>>, {Ignores("volume")})
MuteRoundTripsPerSource ==
  OnPlaying(<<Write(TRUE), Poll(TRUE), Write(FALSE), Poll(FALSE)>>, {Ignores("mute")})
SetVideoWindowAcceptsGeometry ==
  OnPlaying(<<Call("setVideoWindow")>>, {})
FlushEmitsSourceFlushed ==
  OnPlaying(<<Call("flush"), Await("FLUSHED")>>, {Silences("flush")})
SetSourcePositionSucceeds ==
  OnPlaying(<<Call("setSourcePosition")>>, {})
ProcessAudioGapSucceeds ==
  OnPlaying(<<Call("processAudioGap")>>, {})
BufferingLimitConformsWhenSupported ==
  OnPlaying(<<Write(TRUE), PollIfSupported>>, {Ignores("limit")})
UseBufferingRoundTrips ==
  OnPlaying(<<Write(TRUE), Poll(TRUE)>>, {Ignores("useBuffering")})
RenderFrameSucceedsOnceLoaded ==
  OnPlaying(<<Call("pause"), Await("PAUSED"), Call("renderFrame")>>, {})
SetLowLatencyIsAccepted ==
  OnPlaying(<<Call("setLowLatency")>>, {})
SyncRoundTrips ==
  OnPlaying(<<Write(TRUE), Poll(TRUE)>>, {})
SetSyncOffAcceptedBeforePlaying ==
  Playing(<<Plain("setPipeline"), Call("load"), Call("attachSource"), Call("setSyncOff")>>, {})
StreamSyncModeConformsWhenSupported ==
  OnPlaying(<<Write(TRUE), PollIfSupported>>, {Ignores("syncMode")})
SwitchSourceAcceptsNewAudioSource ==
  OnPlaying(<<Call("switchSource")>>, {})

(***************************************************************************)
(* PlaybackDataPathTests.cpp: each getter fails on a fresh pipeline first. *)
(***************************************************************************)
Getter(fresh, playing) ==
  Playing(<<Plain("setPipeline"), fresh, Call("load"), Call("attachSource")>>
            \o PlayAsserted \o <<Check("noFailure")>> \o playing \o TearDown,
          {Silences("play")} \cup FailureSeen)

GetPositionSucceedsOncePlaying ==
  Getter(Get("getPosition", FALSE), <<Get("getPosition", TRUE)>>)
GetDurationNotDeterminableForStreamSource ==
  Getter(Get("getDuration", FALSE), <<Get("getPosition", TRUE), Get("getDuration", FALSE)>>)
GetStatsSucceedsOncePlaying ==
  Getter(Get("getStats", FALSE), <<Get("getStats", TRUE)>>)

(***************************************************************************)
(* DataProtocolTests.cpp.                                                  *)
(***************************************************************************)
NeedDataProtocolIsWellFormed ==
  OnPlaying(<<Ensure("requested"), Get("wellFormed", TRUE), Check("noOverlap"),
              Check("allAccepted")>>,
            {RejectsSegment})
HaveDataEosDrivesEndOfStream ==
  OnPlaying(<<Await("END_OF_STREAM"), Check("noFailure")>>,
            {Silences("eos"), Spoils("eos", "FAILURE")} \cup FailureSeen)
CleanRunNetworkStateVocabulary ==
  OnPlaying(<<Await("END_OF_STREAM"), Check("buffering"), Check("noNetworkError")>>,
            {Silences("load"), Silences("eos"), Spoils("load", "NETWORK_ERROR"),
             Spoils("preroll", "NETWORK_ERROR"), Spoils("play", "NETWORK_ERROR"),
             Spoils("eos", "NETWORK_ERROR")})
StarvationIsToleratedAndEventsObserved ==
  OnPlaying(<<Mode("setStarve", TRUE), Glance("UNDERFLOW"), Check("noFailure")>>,
            {Spoils("starve", "FAILURE")} \cup FailureSeen)

(***************************************************************************)
(* PipelineTransportDataPathTests.cpp.                                     *)
(***************************************************************************)
PlayPauseStopStateMachine ==
  Playing(LoadAndAttachAudio \o PlayAsserted
            \o <<Check("noFailure"), Call("pause"), Await("PAUSED"), Call("stop"),
                 Glance("STOPPED")>>,
          {Silences("play")} \cup FailureSeen)
SetPlaybackRateSucceedsWhilePlaying ==
  Playing(LoadAndAttachAudio \o PlayAsserted \o <<Call("setPlaybackRate")>> \o TearDown,
          {Silences("play")})
SetPositionSetsStartThenSeeksWhilePlaying ==
  Playing(LoadAndAttachAudio \o <<Call("setStartPosition")>> \o PlayAsserted
            \o <<Plain("rewindSource"), Call("setPosition"), Await("SEEKING"),
                 Await("SEEK_DONE"), Check("noFailure")>> \o TearDown,
          {Silences("play"), Silences("seek"), Silences("seekDone"),
           Spoils("seek", "FAILURE"), Spoils("seekDone", "FAILURE")} \cup FailureSeen)

(***************************************************************************)
(* DataFaultTests.cpp.                                                     *)
(***************************************************************************)
NoSpaceIsNotAnErrorAndTheSegmentIsResent ==
  Playing(<<Plain("setOversupply")>> \o DriveToPlaying
            \o <<Sleep, Check("noErrors"), Check("noFailure"), Check("resent")>> \o TearDown,
          {RejectsSegment, Spoils("full", "FAILURE"), Silences("play")} \cup FailureSeen)
AddSegmentWithAnUnissuedRequestIdIsAnError ==
  OnPlaying(<<Get("rejectsUnissued", TRUE), Check("noFailure")>>, FailureSeen)
Resume == Mode("setWithhold", FALSE)
CancelledNeedDataIsNotAnError ==
  OnPlaying(<<Mode("forgetRequests", TRUE), Mode("setWithhold", TRUE), Sleep,
              Plain("flush"), Sleep, Check("noFailure"), Plain("rewindSource"), Resume,
              Sleep, Check("requested"), Check("noFailure")>>,
            {Spoils("flush", "FAILURE")} \cup FailureSeen)
NonFatalPlaybackErrorLeavesStateUnchanged ==
  OnPlaying(<<Plain("setCorruptEvery"), Sleep, Check("noFailure"),
              Check("errorWhilePlaying")>>,
            {Spoils("error", "FAILURE"), Spoils("error", "PAUSED")} \cup FailureSeen)

Suite ==
  [VolumeRoundTripsOnRealizedPipeline |-> VolumeRoundTripsOnRealizedPipeline,
   MuteRoundTripsPerSource |-> MuteRoundTripsPerSource,
   SetVideoWindowAcceptsGeometry |-> SetVideoWindowAcceptsGeometry,
   FlushEmitsSourceFlushed |-> FlushEmitsSourceFlushed,
   SetSourcePositionSucceeds |-> SetSourcePositionSucceeds,
   ProcessAudioGapSucceeds |-> ProcessAudioGapSucceeds,
   BufferingLimitConformsWhenSupported |-> BufferingLimitConformsWhenSupported,
   UseBufferingRoundTrips |-> UseBufferingRoundTrips,
   RenderFrameSucceedsOnceLoaded |-> RenderFrameSucceedsOnceLoaded,
   SetLowLatencyIsAccepted |-> SetLowLatencyIsAccepted,
   SyncRoundTrips |-> SyncRoundTrips,
   SetSyncOffAcceptedBeforePlaying |-> SetSyncOffAcceptedBeforePlaying,
   StreamSyncModeConformsWhenSupported |-> StreamSyncModeConformsWhenSupported,
   SwitchSourceAcceptsNewAudioSource |-> SwitchSourceAcceptsNewAudioSource,
   GetPositionSucceedsOncePlaying |-> GetPositionSucceedsOncePlaying,
   GetDurationNotDeterminableForStreamSource |-> GetDurationNotDeterminableForStreamSource,
   GetStatsSucceedsOncePlaying |-> GetStatsSucceedsOncePlaying,
   NeedDataProtocolIsWellFormed |-> NeedDataProtocolIsWellFormed,
   HaveDataEosDrivesEndOfStream |-> HaveDataEosDrivesEndOfStream,
   CleanRunNetworkStateVocabulary |-> CleanRunNetworkStateVocabulary,
   StarvationIsToleratedAndEventsObserved |-> StarvationIsToleratedAndEventsObserved,
   PlayPauseStopStateMachine |-> PlayPauseStopStateMachine,
   SetPlaybackRateSucceedsWhilePlaying |-> SetPlaybackRateSucceedsWhilePlaying,
   SetPositionSetsStartThenSeeksWhilePlaying |-> SetPositionSetsStartThenSeeksWhilePlaying,
   NoSpaceIsNotAnErrorAndTheSegmentIsResent |-> NoSpaceIsNotAnErrorAndTheSegmentIsResent,
   AddSegmentWithAnUnissuedRequestIdIsAnError |-> AddSegmentWithAnUnissuedRequestIdIsAnError,
   CancelledNeedDataIsNotAnError |-> CancelledNeedDataIsNotAnError,
   NonFatalPlaybackErrorLeavesStateUnchanged |-> NonFatalPlaybackErrorLeavesStateUnchanged]

\* Where the case accepts a platform without the property.
ConformWhenSupported ==
  {"BufferingLimitConformsWhenSupported", "StreamSyncModeConformsWhenSupported"}

\* One source is attached, its feed oversupplies by 2 or not at all, and a server that
\* conforms may lack only what the case does not insist on.
ASSUME CasesAssumption ==
  /\ Cases \subseteq DOMAIN Suite
  /\ \E s \in Sources : Sources = {s}
  /\ 2 \in Oversupplies
  /\ \A c \in Cases : \A f \in FaultsOf(c) : f.kind = "lacks" => c \in ConformWhenSupported

\* Faults the comment or the name of a case says it rules out and its assertions cannot
\* tell from what was there before: the PAUSED of the preroll, the default of the sink,
\* a second request that waits in the IPC queue until the first has been answered, the
\* order of two notifications in a record that keeps none.
Unasserted(c) ==
  CASE c = "PlayPauseStopStateMachine"    -> {Silences("pause")}
    [] c = "NeedDataProtocolIsWellFormed" -> {Overlaps}
    [] c = "SyncRoundTrips"               -> {Ignores("sync")}
    [] c = "SetPositionSetsStartThenSeeksWhilePlaying" -> {Spoils("seek", "SEEK_DONE")}
    [] OTHER -> {}

\* The property of a case is another before it is written, but for the sync of an audio
\* sink, which GStreamer sets by default.
Preset(c) == c = "SyncRoundTrips"

Script   == Suite[case].script
Finished == Over(Script)
Now      == Script[pc]

\* The cases whose stream is short enough to reach its end before they stop.
Short == case \in {"GetPositionSucceedsOncePlaying",
                   "GetDurationNotDeterminableForStreamSource",
                   "GetStatsSucceedsOncePlaying", "HaveDataEosDrivesEndOfStream",
                   "CleanRunNetworkStateVocabulary"}

-----------------------------------------------------------------------------
(***************************************************************************)
(* The test thread.                                                        *)
(***************************************************************************)

\* The step reads the record, and changes nothing.
Assert(ok) == Judge(Script, ok) /\ UNCHANGED <<vars, playbackVars>>

Perform(op, value) ==
  \/ /\ \/ op = "setPipeline" /\ SetPipeline
        \/ op = "attachSource" /\ \E s \in Sources : AddAudioSource(s)
        \/ op = "allSourcesAttached" /\ AllSourcesAttached
        \/ op = "rewindSource" /\ \E s \in Sources : RewindSource(s)
        \/ op = "setWithhold" /\ SetWithhold(value)
        \/ op = "setStarve" /\ SetStarve(value)
        \/ op = "setOversupply" /\ SetOversupply(2)
     /\ UNCHANGED playbackVars
  \/ /\ op = "load"
     /\ Emit("load", <<"BUFFERING">>)
     /\ UNCHANGED <<vars, fault, seen, tasks, srv, head>>
  \/ /\ \/ op = "play" /\ tasks' = Append(tasks, Task("PLAYING", TRUE))
        \/ op = "pause" /\ tasks' = Append(tasks, Task("PAUSED", TRUE))
        \/ op = "stop" /\ tasks' = Append(tasks, Task("STOPPED", TRUE))
        \/ op = "property" /\ tasks' = Append(tasks, Task("write", value))
     /\ UNCHANGED <<vars, fault, shown, seen, notices, srv, head>>
  \/ /\ op \in {"flush", "setPosition"}
     /\ \E s \in Sources : FlushSource(s) /\ head' = [head EXCEPT ![s] = None]
     /\ tasks' = Append(tasks, Task(IF op = "flush" THEN "flush" ELSE "seek", TRUE))
     /\ UNCHANGED <<fault, shown, seen, notices, srv>>
  \/ /\ op = "setCorruptEvery"
     /\ srv' = [srv EXCEPT !.corrupt = TRUE]
     /\ UNCHANGED <<vars, fault, shown, seen, notices, tasks, head>>
  \/ /\ op = "forgetRequests"
     /\ seen' = [seen EXCEPT !.requested = FALSE]
     /\ UNCHANGED <<vars, fault, shown, notices, tasks, srv, head>>
  \/ /\ op \in {"setVideoWindow", "setSourcePosition", "processAudioGap", "renderFrame",
                "setLowLatency", "setSyncOff", "switchSource", "setPlaybackRate",
                "setStartPosition"}
     /\ UNCHANGED <<vars, playbackVars>>

\* A call enqueues its effect, and returns true unless the server refuses it.
CallStep ==
  /\ Now.do \in {"call", "write"}
  /\ IF fault = Refuses(Now.what)
     THEN /\ shown' = TRUE
          /\ Judge(Script, FALSE)
          /\ UNCHANGED <<vars, fault, seen, notices, tasks, srv, head>>
     ELSE Perform(Now.what, Now.value) /\ Judge(Script, TRUE)

\* A getter answers; before playback there is no position and there are no statistics, and
\* a server that plays has asked for frames of the source attached.
GetStep ==
  LET answer == CASE Now.what = "getDuration"     -> FALSE
                  [] Now.what = "rejectsUnissued" -> TRUE
                  [] OTHER                        -> srv.state # "IDLE"
      answered == IF Answering(Now.what) THEN answer ELSE ~answer
  IN /\ Now.do = "get"
     /\ Judge(Script, answered = Now.value)
     /\ shown' = (shown \/ answered # answer)
     /\ UNCHANGED <<vars, fault, seen, notices, tasks, srv, head>>

Observed(notice) == notice \in seen.states \cup seen.events

\* Mutation: a wait without a deadline.
NoDeadline(reached) == FALSE

\* The deadline of a wait is longer than anything a server still has under way.
TimedOut(reached) == ~reached /\ Settled(Short)

\* waitForPlaybackState, waitForSourceFlushed, waitForBufferUnderflow.
AwaitStep ==
  /\ Now.do = "await"
  /\ \/ Observed(Now.what) /\ Assert(TRUE)
     \/ TimedOut(Observed(Now.what)) /\ Assert(FALSE)

\* Mutation: the getter is read once, just after the setter.
ReadOnce(value) == Assert(srv.property = value)

PollUntilApplied(value) ==
  \/ srv.property = value /\ Assert(TRUE)
  \/ TimedOut(srv.property = value) /\ Assert(FALSE)

PollStep == Now.do = "poll" /\ PollUntilApplied(Now.value)

\* Where the platform lacks the property its getter must answer false.
PollIfSupportedStep ==
  /\ Now.do = "pollIfSupported"
  /\ \/ srv.property = Now.value /\ Assert(TRUE)
     \/ TimedOut(srv.property = Now.value) /\ Assert(fault.kind = "lacks")

Holds(what) ==
  CASE what = "noFailure"      -> "FAILURE" \notin seen.states
    [] what = "requested"      -> seen.requested
    [] what = "noOverlap"      -> ~overlapping
    [] what = "allAccepted"    -> allSegmentsAccepted
    [] what = "buffering"      -> "BUFFERING" \in seen.events
    [] what = "noNetworkError" -> "NETWORK_ERROR" \notin seen.events
    [] what = "noErrors"       -> ~seen.error
    [] what = "resent"         -> seen.noSpace => noSpaceSegmentAccepted
    [] what = "errorWhilePlaying" -> seen.stateAtLastError \in {None, "PLAYING"}

CheckStep == Now.do = "check" /\ Assert(Holds(Now.what))

\* Long enough for the server and the feed to have done what they had to do.
SleepStep == Now.do = "sleep" /\ Settled(Short) /\ Assert(TRUE)

TestCase ==
  /\ ~Finished
  /\ CallStep \/ GetStep \/ AwaitStep \/ PollStep \/ PollIfSupportedStep
       \/ CheckStep \/ SleepStep

ServerStep == Notify \/ Work \/ Play(Short) \/ Feed \/ Request \/ Overlap

CaseInit ==
  /\ ScriptInit(Cases, FaultsOf)
  /\ PlaybackInit(Preset(case))

CaseNext == TestCase \/ (ServerStep /\ UNCHANGED <<case, pc, failed>>)

\* Every thread goes on running, the server asks for the data it lacks, the IPC thread
\* gets to a notification whatever requests arrive with it, and a deadline passes in
\* the end even while a starved server keeps asking.
CaseSpec ==
  /\ CaseInit /\ [][CaseNext]_caseVars
  /\ SF_caseVars(TestCase)
  /\ SF_caseVars(Notify /\ UNCHANGED <<case, pc, failed>>)
  /\ WF_caseVars(Work /\ UNCHANGED <<case, pc, failed>>)
  /\ WF_caseVars(Play(Short) /\ UNCHANGED <<case, pc, failed>>)
  /\ WF_caseVars(Feed /\ UNCHANGED <<case, pc, failed>>)
  /\ WF_caseVars(Request /\ UNCHANGED <<case, pc, failed>>)

-----------------------------------------------------------------------------
(***************************************************************************)
(* Properties.                                                             *)
(***************************************************************************)

\* No case ever fails a server that conforms, whichever thread runs when: its worker
\* thread may apply a property late, notify late, leave out what it may leave out,
\* run out of space, or lack an optional property.
ConformingServerPasses == fault.kind \in {"none", "lacks"} => ~failed

\* A case never lets a server go whose fault is one it is there to catch, once the
\* fault has shown: the record keeps what an assertion made later depends on.
FaultIsCaught == Finished /\ shown /\ fault \in Suite[case].catches => failed

\* What `catches' leaves out of the claims of a case, no assertion of it ever sees, in
\* any interleaving of its threads: of PipelineTransportDataPathTests.cpp:131-133,
\* DataProtocolTests.cpp:118-119, the read-back of "sync" and the order of SEEKING and
\* SEEK_DONE, a pass says nothing.
UnassertedPasses == fault \in Unasserted(case) => ~failed

\* Every case comes to its end, whatever the server refuses, drops or never notifies.
CaseEnds == <>Finished

\* PipelineTransportDataPathTests.cpp:256 says that, rewound first, "the source is
\* already at the seek target whenever the backend asks": the first frame the server
\* accepts after the seek is frame 0.
SeekDeliversFromTarget == \A s \in Sources : head[s] # None => head[s] = 0

\* DataFaultTests.cpp:269 says that "the protocol must carry on once the client
\* answers again": once it does and all is quiet, no request is left unanswered.
CarriesOnOnceAnswering == Done(Script, Resume) /\ Settled(Short) => pending = {}
===============================================================================
