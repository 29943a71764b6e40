--------------------- MODULE NativeFaultProofs --------------------------------
(***************************************************************************)
(* That no case of src/L4_e2e/playback lets a server go whose fault is one *)
(* it is there to catch, once the fault has shown: for every set of cases  *)
(* and of faults, any stream and batch lengths, and any order of threads.  *)
(* Each fault a case names is trapped by a step of its script, which no    *)
(* server with that fault gets past, or shows before the case has waited   *)
(* until all is quiet, and is in the record by then.                       *)
(***************************************************************************)
EXTENDS NativeCasesProofs

-----------------------------------------------------------------------------
(***************************************************************************)
(* The inductive invariant of a case on a server with a fault it is there  *)
(* to catch, as long as none of its assertions has failed.                 *)
(***************************************************************************)

\* The case is there to catch the fault of its server.
Catches == fault \in Suite[case].catches

\* What a server announces at an event, when its fault does not say otherwise.
Said == [none |-> {}, full |-> {}, load |-> {"BUFFERING"}, preroll |-> {"PAUSED"},
         play |-> {"PLAYING"}, pause |-> {"PAUSED"}, stop |-> {"STOPPED"},
         seek |-> {"SEEKING"}, seekDone |-> {"SEEK_DONE"}, flush |-> {"FLUSHED"},
         eos |-> {"END_OF_STREAM"}, starve |-> {"UNDERFLOW"}, error |-> {"ERROR"}]

\* What is said at one event only, and waited or looked for by a case that catches silence.
Announced == [play |-> "PLAYING", flush |-> "FLUSHED", eos |-> "END_OF_STREAM",
              load |-> "BUFFERING", seek |-> "SEEKING", seekDone |-> "SEEK_DONE"]

\* What a server says at such an event, or later: by then a notice that spoils the event has
\* been sent.
Milestone == [preroll |-> "PLAYING", play |-> "PLAYING", load |-> "END_OF_STREAM",
              eos |-> "END_OF_STREAM", seek |-> "SEEKING", seekDone |-> "SEEK_DONE",
              starve |-> "UNDERFLOW"]

\* What a server may notify, a state of playback or something else, and what is recorded of it.
Signals == {"BUFFERING", "FLUSHED", "UNDERFLOW", "NETWORK_ERROR"}
Notices == PlaybackStates \cup Signals \cup {"ERROR"}
FaultySeen == [states : SUBSET PlaybackStates, lastState : PlaybackStates \cup {"UNKNOWN"},
               events : SUBSET Signals,
               stateAtLastError : PlaybackStates \cup {"UNKNOWN", None},
               requested : BOOLEAN, noSpace : BOOLEAN, error : BOOLEAN]

\* Types, with what a fault may notify.
FaultyTypes ==
  /\ seen \in FaultySeen /\ notices \in Seq(Notices) /\ tasks \in Seq(Tasks)
  /\ srv \in SrvType /\ head \in [Sources -> Nat \cup {None}] /\ shown \in BOOLEAN

\* What the case has set up, unless the server has refused it.
SetUpInv ==
  fault.kind # "refuses" =>
    /\ pc > BindAt(case) => pipelineSet
    /\ pc > AttachedAt => registered = Sources
    /\ allAttached <=> pc > ReachedAt - 2
    /\ withhold => case = Cancelling /\ pc > 8
    /\ starve => case = Starving /\ pc > 7
    /\ pc < ReachedAt => tasks = << >> /\ srv.target = "PAUSED"
    /\ ~allAttached => queue = << >> /\ cb.phase = "idle" /\ srv.state = "IDLE"

\* What the case insists on has been seen, and playback has begun by the time it is announced.
SeenInv ==
  /\ Ahead("PLAYING") => srv.state # "IDLE"
  /\ \A k \in 1 .. pc - 1 :
       Script[k].do = "await" /\ Script[k].must # "ignored" => Observed(Script[k].what)

\* A property that is ignored keeps its value; what is silenced is never announced.
MissingInv ==
  /\ fault.kind = "ignores" => srv.property = FALSE
  /\ \A event \in DOMAIN Announced : fault = Silences(event) => ~Ahead(Announced[event])

\* x has been notified before n is.
First(x, n) ==
  /\ Observed(n) => Observed(x)
  /\ \A i \in DOMAIN notices :
       notices[i] = n => Observed(x) \/ \E j \in DOMAIN notices : j < i /\ notices[j] = x

\* What spoils an event is sent no later than the event, and recorded in its turn.
SpoilInv ==
  fault.kind = "spoils" =>
    /\ shown => Ahead(fault.by)
    /\ fault.what = "preroll" /\ srv.state \notin {"IDLE", "STOPPED"} => shown
    /\ fault.what = "load" /\ pc > 2 => shown
    /\ fault.what = "flush" /\ pc > 10 => shown \/ Due("flush")
    /\ fault.what = "flush" /\ pc > 11 => Observed(fault.by)
    /\ fault.what = "starve" /\ srv.starved => shown
    /\ fault.what \in DOMAIN Milestone => First(fault.by, Milestone[fault.what])

\* The state that spoils an error is the one last notified when the error is.
StrayInv ==
  fault = Spoils("error", "PAUSED") =>
    /\ \A i \in DOMAIN notices :
         notices[i] = "ERROR" => IF i = 1 THEN seen.lastState = "PAUSED"
                                          ELSE notices[i - 1] = "PAUSED"
    /\ \A i, j \in DOMAIN notices : notices[i] = "ERROR" /\ notices[j] = "ERROR" => i = j
    /\ seen.stateAtLastError \in {None, "PAUSED"}
    /\ seen.stateAtLastError # None => ~Coming("ERROR")
    /\ shown => Coming("ERROR") \/ seen.stateAtLastError = "PAUSED"

\* A rejection is recorded, and until the first one the server has no data and does not play.
RejectInv ==
  fault = RejectsSegment =>
    /\ shown => seen.error /\ ~allSegmentsAccepted
    /\ case = Protocol /\ allSegmentsAccepted =>
         /\ \A s \in Sources : head[s] = None /\ ~ended[s] /\ nextFrame[s] = 0
         /\ cb.phase \in {"idle", "offer"}
         /\ cb.phase = "offer" => cb.accepted = 0 /\ cb.size # 0
         /\ srv.state \in {"IDLE", "STOPPED"}
         /\ ~Ahead("PLAYING")

\* The faults that need not show before the case has waited until all is quiet.
LateFault(c, f) ==
  \/ c = Starving /\ f = Spoils("starve", "FAILURE")
  \/ c = Refilling /\ f \in {Spoils("full", "FAILURE"), RejectsSegment}
  \/ c = Erring /\ f \in {Spoils("error", "FAILURE"), Spoils("error", "PAUSED")}

\* Nothing more will come of the feed.
Drained == queue = << >> /\ cb.phase = "idle" /\ \A s \in Sources : ended[s]

\* What the case looks for has been recorded.
Recorded ==
  \/ fault = RejectsSegment /\ seen.error
  \/ fault.by = "FAILURE" /\ "FAILURE" \in seen.states
  \/ fault.by = "PAUSED" /\ seen.stateAtLastError = "PAUSED"

\* Where the case looks for it.
CheckedAt(c, f) ==
  IF c = Starving \/ f \in {RejectsSegment, Spoils("error", "FAILURE")} THEN 9 ELSE 10

\* Such a fault has been recorded once the case has waited, or never shows; and the case
\* gets past its assertion only if it never shows.
LateInv ==
  LateFault(case, fault) =>
    /\ \A s \in Sources : outstanding[s] # None =>
         Queued(s) \/ (cb.phase # "idle" /\ cb.src = s /\ cb.id = outstanding[s])
    /\ pc > 8 => Recorded \/ (~shown /\ Drained)
    /\ pc > CheckedAt(case, fault) => ~shown /\ Drained

\* What the case asserts on the record to catch f, if it does.
LooksFor(f) == IF f.by = "FAILURE" THEN "noFailure" ELSE "noNetworkError"

\* Step k of case c is one no server with the fault f gets past.
Traps(c, f, k) ==
  LET st == Suite[c].script[k] IN
  /\ st.must \in {"hold", "abort"}
  /\ \/ st.do \in {"call", "write"} /\ f = Refuses(st.what)
     \/ st.do = "get" /\ f = Misanswers(st.what)
     \/ st.do \in {"poll", "pollIfSupported"} /\ st.value = TRUE /\ f = Ignores(f.what)
     \/ /\ st.do = "await" /\ f = Silences(f.what) /\ f.what \in DOMAIN Announced
        /\ st.what = Announced[f.what]
     \/ st.do = "check" /\ st.what = "buffering" /\ f = Silences("load")
     \/ /\ st.do = "check" /\ f.kind = "spoils" /\ f.by \in {"FAILURE", "NETWORK_ERROR"}
        /\ st.what = LooksFor(f) /\ f.what \in DOMAIN Milestone
        /\ \E j \in 1 .. k - 1 :
             LET before == Suite[c].script[j] IN
             before.do = "await" /\ before.must # "ignored" /\ before.what = Milestone[f.what]
     \/ /\ st.do = "check" /\ st.what = "noFailure" /\ f = Spoils("flush", "FAILURE")
        /\ k > 11
     \/ /\ st.do = "check" /\ st.what = "allAccepted" /\ f = RejectsSegment
        /\ c = Protocol /\ k > ReachAt(c)

\* It has got past none of them.
UntrappedInv == \A k \in 1 .. pc - 1 : ~Traps(case, fault, k)

\* All of it, in every case on a server with a fault it is there to catch.
CatchInvariant ==
  /\ FaultyTypes /\ SetUpInv /\ SeenInv /\ MissingInv /\ SpoilInv /\ StrayInv /\ RejectInv
  /\ LateInv /\ UntrappedInv

CatchInv == Catches /\ ~failed => CatchInvariant

\* What the catches of a case may be.
FaultKinds(c, f) ==
  /\ f \in {Refuses(f.what), Misanswers(f.what), Ignores(f.what), Silences(f.what),
            Spoils(f.what, f.by), RejectsSegment}
  /\ f.kind = "spoils" => /\ f.by \in {"FAILURE", "NETWORK_ERROR", "PAUSED"}
                          /\ f.by = "PAUSED" => f.what = "error"
                          /\ f.what = "load" => c = Clean
                          /\ f.what = "flush" => c = Cancelling
  /\ f.kind = "ignores" => c # "SyncRoundTrips"
  /\ f = RejectsSegment => c \in {Protocol, Refilling}

\* The case guards against f: its script has a step that traps it, or it shows in time.
Guarded(c, f) ==
  /\ FaultKinds(c, f)
  /\ LateFault(c, f) \/ \E k \in 1 .. Len(Suite[c].script) : Traps(c, f, k)

-----------------------------------------------------------------------------
(***************************************************************************)
(* Each case guards against what it is there to catch: a step of its       *)
(* script no server with the fault gets past, or an assertion made once    *)
(* all is quiet.                                                           *)
(***************************************************************************)

\* What a case is there to catch besides what it insists on.
LEMMA PlayingCatches ==
  ASSUME NEW c, NEW script, NEW catches, Suite[c] = Playing(script, catches)
  PROVE  Suite[c].catches = catches \cup Insisted(Suite[c].script)
<1>1. \A caught : /\ Case(script, caught).script = script
                  /\ Case(script, caught).catches = caught
  BY DEF Case
<1>2. Suite[c] = Case(script, catches \cup Insisted(script))
  BY DEF Playing
<1>3. /\ Suite[c].script = script
      /\ Suite[c].catches = catches \cup Insisted(script)
  BY <1>1, <1>2
<1> QED BY <1>3

\* If it drives its pipeline to PLAYING, that is waited for.
LEMMA OnPlayingCatches ==
  ASSUME NEW c, NEW steps, NEW catches, Suite[c] = OnPlaying(steps, catches)
  PROVE  Suite[c].catches = (catches \cup {Silences("play")}) \cup Insisted(Suite[c].script)
BY PlayingCatches, Zenon DEF OnPlaying

\* A case guards against the refusal of every call, and the wrong answer of every getter, it
\* insists on.
LEMMA InsistedGuarded ==
  ASSUME NEW c, NEW f \in Insisted(Suite[c].script)
  PROVE  Guarded(c, f)
<1> DEFINE s == Suite[c].script
<1>1. PICK k \in 1 .. Len(s) :
        /\ s[k].must \in {"hold", "abort"}
        /\ \/ s[k].do \in {"call", "write"} /\ f = Refuses(s[k].what)
           \/ s[k].do = "get" /\ f = Misanswers(s[k].what)
  BY DEF Insisted
<1>2. Traps(c, f, k)
  BY <1>1 DEF Traps
<1>3. f.what = s[k].what /\ f.kind \in {"refuses", "misanswers"}
  BY <1>1 DEF Refuses, Misanswers, Fault
<1>4. f = Refuses(f.what) \/ f = Misanswers(f.what)
  BY <1>1, <1>3
<1>5. f # RejectsSegment
  BY <1>3 DEF RejectsSegment, Fault
<1> QED BY <1>2, <1>3, <1>4, <1>5 DEF Guarded, FaultKinds

\* It guards against the silence of what it waits for,
LEMMA SilenceGuarded ==
  ASSUME NEW c, NEW x \in DOMAIN Announced, NEW k \in 1 .. Len(Suite[c].script),
         \/ /\ Suite[c].script[k].do = "await" /\ Suite[c].script[k].must \in {"hold", "abort"}
            /\ Suite[c].script[k].what = Announced[x]
         \/ Suite[c].script[k] = Check("buffering") /\ x = "load"
  PROVE  Guarded(c, Silences(x))
<1> DEFINE f == Silences(x)
<1>1. f.what = x /\ f.kind = "silences"
  BY DEF Silences, Fault
<1>2. f # RejectsSegment
  BY <1>1 DEF RejectsSegment, Fault
<1>3. f = Silences(f.what)
  BY <1>1
<1> HIDE DEF f
<1>4. Traps(c, f, k)
  <2>1. CASE Suite[c].script[k] = Check("buffering") /\ x = "load"
    <3>1. f = Silences("load")
      BY <2>1, <1>1, <1>3
    <3> QED BY <2>1, <3>1 DEF Traps, Check, Step
  <2>2. CASE /\ Suite[c].script[k].do = "await"
             /\ Suite[c].script[k].must \in {"hold", "abort"}
             /\ Suite[c].script[k].what = Announced[x]
    BY <2>2, <1>1, <1>3 DEF Traps
  <2> QED BY <2>1, <2>2
<1>5. FaultKinds(c, f)
  BY <1>1, <1>2, <1>3 DEF FaultKinds
<1>6. Guarded(c, f)
  BY <1>4, <1>5 DEF Guarded
<1> QED BY <1>6 DEF f

\* against the neglect of the property it reads back,
LEMMA NeglectGuarded ==
  ASSUME NEW c, c # "SyncRoundTrips", NEW x,
         \E k \in 1 .. Len(Suite[c].script) :
           Suite[c].script[k] = Poll(TRUE) \/ Suite[c].script[k] = PollIfSupported
  PROVE  Guarded(c, Ignores(x))
<1>6. PICK k \in 1 .. Len(Suite[c].script) :
        Suite[c].script[k] = Poll(TRUE) \/ Suite[c].script[k] = PollIfSupported
  OBVIOUS
<1> DEFINE f == Ignores(x)
<1>1. f.what = x /\ f.kind = "ignores"
  BY DEF Ignores, Fault
<1>2. f # RejectsSegment
  BY <1>1 DEF RejectsSegment, Fault
<1>3. f = Ignores(f.what)
  BY <1>1
<1> HIDE DEF f
<1>4. Traps(c, f, k)
  BY <1>3, <1>6 DEF Traps, Poll, PollIfSupported, Step
<1>5. Guarded(c, f)
  BY <1>1, <1>2, <1>3, <1>4 DEF Guarded, FaultKinds
<1> QED BY <1>5 DEF f

\* and against a notice it rules out after a wait for what comes with it or later.
LEMMA SpoilGuarded ==
  ASSUME NEW c, NEW x \in DOMAIN Milestone, x = "load" => c = Clean,
         NEW y \in {"FAILURE", "NETWORK_ERROR"},
         NEW k \in 1 .. Len(Suite[c].script), NEW j \in 1 .. k - 1,
         Suite[c].script[j].do = "await", Suite[c].script[j].must # "ignored",
         Suite[c].script[j].what = Milestone[x],
         Suite[c].script[k] = Check(IF y = "FAILURE" THEN "noFailure" ELSE "noNetworkError")
  PROVE  Guarded(c, Spoils(x, y))
<1> DEFINE f == Spoils(x, y)
<1>1. f.what = x /\ f.by = y /\ f.kind = "spoils"
  BY DEF Spoils, Fault
<1>2. f # RejectsSegment
  BY <1>1 DEF RejectsSegment, Fault
<1>3. f = Spoils(f.what, f.by)
  BY <1>1
<1> HIDE DEF f
<1>4. Traps(c, f, k)
  BY <1>1 DEF Traps, LooksFor, Check, Step
<1>5. x # "flush"
  BY DEF Milestone
<1>6. FaultKinds(c, f)
  BY <1>1, <1>2, <1>3, <1>5 DEF FaultKinds
<1>7. Guarded(c, f)
  BY <1>4, <1>6 DEF Guarded
<1> QED BY <1>7 DEF f

\* So it does against a failure, if it looks for one once it has seen PLAYING.
LEMMA FailureGuarded ==
  ASSUME NEW c, NEW k \in 1 .. Len(Suite[c].script), NEW j \in 1 .. k - 1,
         Suite[c].script[j] = Reach("PLAYING"), Suite[c].script[k] = Check("noFailure"),
         NEW f \in FailureSeen
  PROVE  Guarded(c, f)
<1>1. /\ Suite[c].script[j].do = "await" /\ Suite[c].script[j].must # "ignored"
      /\ Suite[c].script[j].what = "PLAYING"
  BY DEF Reach, Step
<1>2. /\ "preroll" \in DOMAIN Milestone /\ Milestone["preroll"] = "PLAYING"
      /\ "play" \in DOMAIN Milestone /\ Milestone["play"] = "PLAYING"
  BY DEF Milestone
<1>3. Guarded(c, Spoils("preroll", "FAILURE")) /\ Guarded(c, Spoils("play", "FAILURE"))
  BY <1>1, <1>2, SpoilGuarded
<1> QED BY <1>3 DEF FailureSeen

\* What need not show before the case has waited until all is quiet.
LEMMA LateGuarded ==
  ASSUME NEW c, NEW f, LateFault(c, f)
  PROVE  Guarded(c, f)
<1> USE DEF Starving, Refilling, Erring, Protocol, Clean, Cancelling
<1>1. CASE f = RejectsSegment
  BY <1>1 DEF LateFault, Guarded, FaultKinds, RejectsSegment, Spoils, Fault
<1>2. CASE f # RejectsSegment
  <2>1. PICK x, y : f = Spoils(x, y) /\ x \in {"starve", "full", "error"}
                    /\ y \in {"FAILURE", "PAUSED"} /\ (y = "PAUSED" => x = "error")
    BY <1>2 DEF LateFault
  <2>2. f.what = x /\ f.by = y /\ f.kind = "spoils"
    BY <2>1 DEF Spoils, Fault
  <2> QED BY <1>2, <2>1, <2>2 DEF Guarded, FaultKinds
<1> QED BY <1>1, <1>2

\* VolumeRoundTripsOnRealizedPipeline guards against all it is there to catch.
LEMMA GuardVolumeRoundTripsOnRealizedPipeline ==
  ASSUME NEW c, c = "VolumeRoundTripsOnRealizedPipeline",
         NEW f \in Suite[c].catches
  PROVE  Guarded(c, f)
<1> DEFINE s == Suite[c].script
<1>1. /\ 9 = Len(s)
      /\ s[6] = Reach("PLAYING")
      /\ s[8] = Poll(TRUE)
  BY ScriptVolumeRoundTripsOnRealizedPipeline
<1>2. Suite[c] = VolumeRoundTripsOnRealizedPipeline
  BY Zenon DEF Suite
<1>3. Suite[c].catches
        = ({Ignores("volume")} \cup {Silences("play")}) \cup Insisted(s)
  BY <1>2, OnPlayingCatches, Zenon DEF VolumeRoundTripsOnRealizedPipeline
<1>4. Guarded(c, Silences("play"))
  BY <1>1, SilenceGuarded DEF Reach, Step, Announced
<1>5. Guarded(c, Ignores("volume"))
  <2>1. c # "SyncRoundTrips"
    OBVIOUS
  <2>2. \E k \in 1 .. Len(s) : s[k] = Poll(TRUE) \/ s[k] = PollIfSupported
    <3>1. \A m : 9 = m => 8 \in 1 .. m
      OBVIOUS
    <3> QED BY <1>1, <3>1, Zenon
  <2> QED BY <2>1, <2>2, NeglectGuarded, Zenon
<1> QED BY <1>3, <1>4, <1>5, InsistedGuarded

\* MuteRoundTripsPerSource guards against all it is there to catch.
LEMMA GuardMuteRoundTripsPerSource ==
  ASSUME NEW c, c = "MuteRoundTripsPerSource",
         NEW f \in Suite[c].catches
  PROVE  Guarded(c, f)
<1> DEFINE s == Suite[c].script
<1>1. /\ 11 = Len(s)
      /\ s[6] = Reach("PLAYING")
      /\ s[8] = Poll(TRUE)
  BY ScriptMuteRoundTripsPerSource
<1>2. Suite[c] = MuteRoundTripsPerSource
  BY Zenon DEF Suite
<1>3. Suite[c].catches
        = ({Ignores("mute")} \cup {Silences("play")}) \cup Insisted(s)
  BY <1>2, OnPlayingCatches, Zenon DEF MuteRoundTripsPerSource
<1>4. Guarded(c, Silences("play"))
  BY <1>1, SilenceGuarded DEF Reach, Step, Announced
<1>5. Guarded(c, Ignores("mute"))
  <2>1. c # "SyncRoundTrips"
    OBVIOUS
  <2>2. \E k \in 1 .. Len(s) : s[k] = Poll(TRUE) \/ s[k] = PollIfSupported
    <3>1. \A m : 11 = m => 8 \in 1 .. m
      OBVIOUS
    <3> QED BY <1>1, <3>1, Zenon
  <2> QED BY <2>1, <2>2, NeglectGuarded, Zenon
<1> QED BY <1>3, <1>4, <1>5, InsistedGuarded

\* SetVideoWindowAcceptsGeometry guards against all it is there to catch.
LEMMA GuardSetVideoWindowAcceptsGeometry ==
  ASSUME NEW c, c = "SetVideoWindowAcceptsGeometry",
         NEW f \in Suite[c].catches
  PROVE  Guarded(c, f)
<1> DEFINE s == Suite[c].script
<1>1. /\ 8 = Len(s)
      /\ s[6] = Reach("PLAYING")
  BY ScriptSetVideoWindowAcceptsGeometry
<1>2. Suite[c] = SetVideoWindowAcceptsGeometry
  BY Zenon DEF Suite
<1>3. Suite[c].catches
        = ({} \cup {Silences("play")}) \cup Insisted(s)
  BY <1>2, OnPlayingCatches, Zenon DEF SetVideoWindowAcceptsGeometry
<1>4. Guarded(c, Silences("play"))
  BY <1>1, SilenceGuarded DEF Reach, Step, Announced
<1> QED BY <1>3, <1>4, InsistedGuarded

\* FlushEmitsSourceFlushed guards against all it is there to catch.
LEMMA GuardFlushEmitsSourceFlushed ==
  ASSUME NEW c, c = "FlushEmitsSourceFlushed",
         NEW f \in Suite[c].catches
  PROVE  Guarded(c, f)
<1> DEFINE s == Suite[c].script
<1>1. /\ 9 = Len(s)
      /\ s[6] = Reach("PLAYING")
      /\ s[8] = Await("FLUSHED")
  BY ScriptFlushEmitsSourceFlushed
<1>2. Suite[c] = FlushEmitsSourceFlushed
  BY Zenon DEF Suite
<1>3. Suite[c].catches
        = ({Silences("flush")} \cup {Silences("play")}) \cup Insisted(s)
  BY <1>2, OnPlayingCatches, Zenon DEF FlushEmitsSourceFlushed
<1>4. Guarded(c, Silences("play"))
  BY <1>1, SilenceGuarded DEF Reach, Step, Announced
<1>5. Guarded(c, Silences("flush"))
  BY <1>1, SilenceGuarded DEF Await, Step, Announced
<1> QED BY <1>3, <1>4, <1>5, InsistedGuarded

\* SetSourcePositionSucceeds guards against all it is there to catch.
LEMMA GuardSetSourcePositionSucceeds ==
  ASSUME NEW c, c = "SetSourcePositionSucceeds",
         NEW f \in Suite[c].catches
  PROVE  Guarded(c, f)
<1> DEFINE s == Suite[c].script
<1>1. /\ 8 = Len(s)
      /\ s[6] = Reach("PLAYING")
  BY ScriptSetSourcePositionSucceeds
<1>2. Suite[c] = SetSourcePositionSucceeds
  BY Zenon DEF Suite
<1>3. Suite[c].catches
        = ({} \cup {Silences("play")}) \cup Insisted(s)
  BY <1>2, OnPlayingCatches, Zenon DEF SetSourcePositionSucceeds
<1>4. Guarded(c, Silences("play"))
  BY <1>1, SilenceGuarded DEF Reach, Step, Announced
<1> QED BY <1>3, <1>4, InsistedGuarded

\* ProcessAudioGapSucceeds guards against all it is there to catch.
LEMMA GuardProcessAudioGapSucceeds ==
  ASSUME NEW c, c = "ProcessAudioGapSucceeds",
         NEW f \in Suite[c].catches
  PROVE  Guarded(c, f)
<1> DEFINE s == Suite[c].script
<1>1. /\ 8 = Len(s)
      /\ s[6] = Reach("PLAYING")
  BY ScriptProcessAudioGapSucceeds
<1>2. Suite[c] = ProcessAudioGapSucceeds
  BY Zenon DEF Suite
<1>3. Suite[c].catches
        = ({} \cup {Silences("play")}) \cup Insisted(s)
  BY <1>2, OnPlayingCatches, Zenon DEF ProcessAudioGapSucceeds
<1>4. Guarded(c, Silences("play"))
  BY <1>1, SilenceGuarded DEF Reach, Step, Announced
<1> QED BY <1>3, <1>4, InsistedGuarded

\* BufferingLimitConformsWhenSupported guards against all it is there to catch.
LEMMA GuardBufferingLimitConformsWhenSupported ==
  ASSUME NEW c, c = "BufferingLimitConformsWhenSupported",
         NEW f \in Suite[c].catches
  PROVE  Guarded(c, f)
<1> DEFINE s == Suite[c].script
<1>1. /\ 9 = Len(s)
      /\ s[6] = Reach("PLAYING")
      /\ s[8] = PollIfSupported
  BY ScriptBufferingLimitConformsWhenSupported
<1>2. Suite[c] = BufferingLimitConformsWhenSupported
  BY Zenon DEF Suite
<1>3. Suite[c].catches
        = ({Ignores("limit")} \cup {Silences("play")}) \cup Insisted(s)
  BY <1>2, OnPlayingCatches, Zenon DEF BufferingLimitConformsWhenSupported
<1>4. Guarded(c, Silences("play"))
  BY <1>1, SilenceGuarded DEF Reach, Step, Announced
<1>5. Guarded(c, Ignores("limit"))
  <2>1. c # "SyncRoundTrips"
    OBVIOUS
  <2>2. \E k \in 1 .. Len(s) : s[k] = Poll(TRUE) \/ s[k] = PollIfSupported
    <3>1. \A m : 9 = m => 8 \in 1 .. m
      OBVIOUS
    <3> QED BY <1>1, <3>1, Zenon
  <2> QED BY <2>1, <2>2, NeglectGuarded, Zenon
<1> QED BY <1>3, <1>4, <1>5, InsistedGuarded

\* UseBufferingRoundTrips guards against all it is there to catch.
LEMMA GuardUseBufferingRoundTrips ==
  ASSUME NEW c, c = "UseBufferingRoundTrips",
         NEW f \in Suite[c].catches
  PROVE  Guarded(c, f)
<1> DEFINE s == Suite[c].script
<1>1. /\ 9 = Len(s)
      /\ s[6] = Reach("PLAYING")
      /\ s[8] = Poll(TRUE)
  BY ScriptUseBufferingRoundTrips
<1>2. Suite[c] = UseBufferingRoundTrips
  BY Zenon DEF Suite
<1>3. Suite[c].catches
        = ({Ignores("useBuffering")} \cup {Silences("play")}) \cup Insisted(s)
  BY <1>2, OnPlayingCatches, Zenon DEF UseBufferingRoundTrips
<1>4. Guarded(c, Silences("play"))
  BY <1>1, SilenceGuarded DEF Reach, Step, Announced
<1>5. Guarded(c, Ignores("useBuffering"))
  <2>1. c # "SyncRoundTrips"
    OBVIOUS
  <2>2. \E k \in 1 .. Len(s) : s[k] = Poll(TRUE) \/ s[k] = PollIfSupported
    <3>1. \A m : 9 = m => 8 \in 1 .. m
      OBVIOUS
    <3> QED BY <1>1, <3>1, Zenon
  <2> QED BY <2>1, <2>2, NeglectGuarded, Zenon
<1> QED BY <1>3, <1>4, <1>5, InsistedGuarded

\* RenderFrameSucceedsOnceLoaded guards against all it is there to catch.
LEMMA GuardRenderFrameSucceedsOnceLoaded ==
  ASSUME NEW c, c = "RenderFrameSucceedsOnceLoaded",
         NEW f \in Suite[c].catches
  PROVE  Guarded(c, f)
<1> DEFINE s == Suite[c].script
<1>1. /\ 10 = Len(s)
      /\ s[6] = Reach("PLAYING")
  BY ScriptRenderFrameSucceedsOnceLoaded
<1>2. Suite[c] = RenderFrameSucceedsOnceLoaded
  BY Zenon DEF Suite
<1>3. Suite[c].catches
        = ({} \cup {Silences("play")}) \cup Insisted(s)
  BY <1>2, OnPlayingCatches, Zenon DEF RenderFrameSucceedsOnceLoaded
<1>4. Guarded(c, Silences("play"))
  BY <1>1, SilenceGuarded DEF Reach, Step, Announced
<1> QED BY <1>3, <1>4, InsistedGuarded

\* SetLowLatencyIsAccepted guards against all it is there to catch.
LEMMA GuardSetLowLatencyIsAccepted ==
  ASSUME NEW c, c = "SetLowLatencyIsAccepted",
         NEW f \in Suite[c].catches
  PROVE  Guarded(c, f)
<1> DEFINE s == Suite[c].script
<1>1. /\ 8 = Len(s)
      /\ s[6] = Reach("PLAYING")
  BY ScriptSetLowLatencyIsAccepted
<1>2. Suite[c] = SetLowLatencyIsAccepted
  BY Zenon DEF Suite
<1>3. Suite[c].catches
        = ({} \cup {Silences("play")}) \cup Insisted(s)
  BY <1>2, OnPlayingCatches, Zenon DEF SetLowLatencyIsAccepted
<1>4. Guarded(c, Silences("play"))
  BY <1>1, SilenceGuarded DEF Reach, Step, Announced
<1> QED BY <1>3, <1>4, InsistedGuarded

\* SyncRoundTrips guards against all it is there to catch.
LEMMA GuardSyncRoundTrips ==
  ASSUME NEW c, c = "SyncRoundTrips",
         NEW f \in Suite[c].catches
  PROVE  Guarded(c, f)
<1> DEFINE s == Suite[c].script
<1>1. /\ 9 = Len(s)
      /\ s[6] = Reach("PLAYING")
  BY ScriptSyncRoundTrips
<1>2. Suite[c] = SyncRoundTrips
  BY Zenon DEF Suite
<1>3. Suite[c].catches
        = ({} \cup {Silences("play")}) \cup Insisted(s)
  BY <1>2, OnPlayingCatches, Zenon DEF SyncRoundTrips
<1>4. Guarded(c, Silences("play"))
  BY <1>1, SilenceGuarded DEF Reach, Step, Announced
<1> QED BY <1>3, <1>4, InsistedGuarded

\* SetSyncOffAcceptedBeforePlaying guards against all it is there to catch.
LEMMA GuardSetSyncOffAcceptedBeforePlaying ==
  ASSUME NEW c, c = "SetSyncOffAcceptedBeforePlaying",
         NEW f \in Suite[c].catches
  PROVE  Guarded(c, f)
<1>1. Suite[c] = SetSyncOffAcceptedBeforePlaying
  BY Zenon DEF Suite
<1>2. Suite[c].catches = {} \cup Insisted(Suite[c].script)
  BY <1>1, PlayingCatches, Zenon DEF SetSyncOffAcceptedBeforePlaying
<1> QED BY <1>2, InsistedGuarded

\* StreamSyncModeConformsWhenSupported guards against all it is there to catch.
LEMMA GuardStreamSyncModeConformsWhenSupported ==
  ASSUME NEW c, c = "StreamSyncModeConformsWhenSupported",
         NEW f \in Suite[c].catches
  PROVE  Guarded(c, f)
<1> DEFINE s == Suite[c].script
<1>1. /\ 9 = Len(s)
      /\ s[6] = Reach("PLAYING")
      /\ s[8] = PollIfSupported
  BY ScriptStreamSyncModeConformsWhenSupported
<1>2. Suite[c] = StreamSyncModeConformsWhenSupported
  BY Zenon DEF Suite
<1>3. Suite[c].catches
        = ({Ignores("syncMode")} \cup {Silences("play")}) \cup Insisted(s)
  BY <1>2, OnPlayingCatches, Zenon DEF StreamSyncModeConformsWhenSupported
<1>4. Guarded(c, Silences("play"))
  BY <1>1, SilenceGuarded DEF Reach, Step, Announced
<1>5. Guarded(c, Ignores("syncMode"))
  <2>1. c # "SyncRoundTrips"
    OBVIOUS
  <2>2. \E k \in 1 .. Len(s) : s[k] = Poll(TRUE) \/ s[k] = PollIfSupported
    <3>1. \A m : 9 = m => 8 \in 1 .. m
      OBVIOUS
    <3> QED BY <1>1, <3>1, Zenon
  <2> QED BY <2>1, <2>2, NeglectGuarded, Zenon
<1> QED BY <1>3, <1>4, <1>5, InsistedGuarded

\* SwitchSourceAcceptsNewAudioSource guards against all it is there to catch.
LEMMA GuardSwitchSourceAcceptsNewAudioSource ==
  ASSUME NEW c, c = "SwitchSourceAcceptsNewAudioSource",
         NEW f \in Suite[c].catches
  PROVE  Guarded(c, f)
<1> DEFINE s == Suite[c].script
<1>1. /\ 8 = Len(s)
      /\ s[6] = Reach("PLAYING")
  BY ScriptSwitchSourceAcceptsNewAudioSource
<1>2. Suite[c] = SwitchSourceAcceptsNewAudioSource
  BY Zenon DEF Suite
<1>3. Suite[c].catches
        = ({} \cup {Silences("play")}) \cup Insisted(s)
  BY <1>2, OnPlayingCatches, Zenon DEF SwitchSourceAcceptsNewAudioSource
<1>4. Guarded(c, Silences("play"))
  BY <1>1, SilenceGuarded DEF Reach, Step, Announced
<1> QED BY <1>3, <1>4, InsistedGuarded

\* GetPositionSucceedsOncePlaying guards against all it is there to catch.
LEMMA GuardGetPositionSucceedsOncePlaying ==
  ASSUME NEW c, c = "GetPositionSucceedsOncePlaying",
         NEW f \in Suite[c].catches
  PROVE  Guarded(c, f)
<1> DEFINE s == Suite[c].script
<1>1. /\ 10 = Len(s)
      /\ s[7] = Reach("PLAYING")
      /\ s[8] = Check("noFailure")
  BY ScriptGetPositionSucceedsOncePlaying
<1>2. Suite[c] = GetPositionSucceedsOncePlaying
  BY Zenon DEF Suite
<1>3. Suite[c].catches
        = ({Silences("play")} \cup FailureSeen) \cup Insisted(s)
  BY <1>2, PlayingCatches, Zenon DEF GetPositionSucceedsOncePlaying, Getter
<1>4. Guarded(c, Silences("play"))
  BY <1>1, SilenceGuarded DEF Reach, Step, Announced
<1>5. \A g \in FailureSeen : Guarded(c, g)
  <2>1. 8 \in 1 .. Len(s) /\ 7 \in 1 .. 8 - 1
    BY <1>1
  <2> QED BY <1>1, <2>1, FailureGuarded
<1> QED BY <1>3, <1>4, <1>5, InsistedGuarded

\* GetDurationNotDeterminableForStreamSource guards against all it is there to catch.
LEMMA GuardGetDurationNotDeterminableForStreamSource ==
  ASSUME NEW c, c = "GetDurationNotDeterminableForStreamSource",
         NEW f \in Suite[c].catches
  PROVE  Guarded(c, f)
<1> DEFINE s == Suite[c].script
<1>1. /\ 11 = Len(s)
      /\ s[7] = Reach("PLAYING")
      /\ s[8] = Check("noFailure")
  BY ScriptGetDurationNotDeterminableForStreamSource
<1>2. Suite[c] = GetDurationNotDeterminableForStreamSource
  BY Zenon DEF Suite
<1>3. Suite[c].catches
        = ({Silences("play")} \cup FailureSeen) \cup Insisted(s)
  BY <1>2, PlayingCatches, Zenon DEF GetDurationNotDeterminableForStreamSource, Getter
<1>4. Guarded(c, Silences("play"))
  BY <1>1, SilenceGuarded DEF Reach, Step, Announced
<1>5. \A g \in FailureSeen : Guarded(c, g)
  <2>1. 8 \in 1 .. Len(s) /\ 7 \in 1 .. 8 - 1
    BY <1>1
  <2> QED BY <1>1, <2>1, FailureGuarded
<1> QED BY <1>3, <1>4, <1>5, InsistedGuarded

\* GetStatsSucceedsOncePlaying guards against all it is there to catch.
LEMMA GuardGetStatsSucceedsOncePlaying ==
  ASSUME NEW c, c = "GetStatsSucceedsOncePlaying",
         NEW f \in Suite[c].catches
  PROVE  Guarded(c, f)
<1> DEFINE s == Suite[c].script
<1>1. /\ 10 = Len(s)
      /\ s[7] = Reach("PLAYING")
      /\ s[8] = Check("noFailure")
  BY ScriptGetStatsSucceedsOncePlaying
<1>2. Suite[c] = GetStatsSucceedsOncePlaying
  BY Zenon DEF Suite
<1>3. Suite[c].catches
        = ({Silences("play")} \cup FailureSeen) \cup Insisted(s)
  BY <1>2, PlayingCatches, Zenon DEF GetStatsSucceedsOncePlaying, Getter
<1>4. Guarded(c, Silences("play"))
  BY <1>1, SilenceGuarded DEF Reach, Step, Announced
<1>5. \A g \in FailureSeen : Guarded(c, g)
  <2>1. 8 \in 1 .. Len(s) /\ 7 \in 1 .. 8 - 1
    BY <1>1
  <2> QED BY <1>1, <2>1, FailureGuarded
<1> QED BY <1>3, <1>4, <1>5, InsistedGuarded

\* NeedDataProtocolIsWellFormed guards against all it is there to catch.
LEMMA GuardNeedDataProtocolIsWellFormed ==
  ASSUME NEW c, c = "NeedDataProtocolIsWellFormed",
         NEW f \in Suite[c].catches
  PROVE  Guarded(c, f)
<1> DEFINE s == Suite[c].script
<1>1. /\ 11 = Len(s)
      /\ s[6] = Reach("PLAYING")
      /\ s[10] = Check("allAccepted")
  BY ScriptNeedDataProtocolIsWellFormed
<1>2. Suite[c] = NeedDataProtocolIsWellFormed
  BY Zenon DEF Suite
<1>3. Suite[c].catches
        = ({RejectsSegment} \cup {Silences("play")}) \cup Insisted(s)
  BY <1>2, OnPlayingCatches, Zenon DEF NeedDataProtocolIsWellFormed
<1>4. Guarded(c, Silences("play"))
  BY <1>1, SilenceGuarded DEF Reach, Step, Announced
<1>5. Guarded(c, RejectsSegment)
  <2>1. Traps(c, RejectsSegment, 10)
    BY <1>1 DEF Traps, Check, Step, Protocol, ReachAt, Getters, Unplayed, Seeking, Refilling
  <2>2. FaultKinds(c, RejectsSegment)
    BY DEF FaultKinds, RejectsSegment, Fault, Protocol
  <2> QED BY <1>1, <2>1, <2>2 DEF Guarded
<1> QED BY <1>3, <1>4, <1>5, InsistedGuarded

\* HaveDataEosDrivesEndOfStream guards against all it is there to catch.
LEMMA GuardHaveDataEosDrivesEndOfStream ==
  ASSUME NEW c, c = "HaveDataEosDrivesEndOfStream",
         NEW f \in Suite[c].catches
  PROVE  Guarded(c, f)
<1> DEFINE s == Suite[c].script
<1>1. /\ 9 = Len(s)
      /\ s[6] = Reach("PLAYING")
      /\ s[7] = Await("END_OF_STREAM")
      /\ s[8] = Check("noFailure")
  BY ScriptHaveDataEosDrivesEndOfStream
<1>2. Suite[c] = HaveDataEosDrivesEndOfStream
  BY Zenon DEF Suite
<1>3. Suite[c].catches
        = (({Silences("eos"), Spoils("eos", "FAILURE")} \cup FailureSeen)
              \cup {Silences("play")}) \cup Insisted(s)
  BY <1>2, OnPlayingCatches, Zenon DEF HaveDataEosDrivesEndOfStream
<1>4. Guarded(c, Silences("play"))
  BY <1>1, SilenceGuarded DEF Reach, Step, Announced
<1>5. Guarded(c, Silences("eos"))
  BY <1>1, SilenceGuarded DEF Await, Step, Announced
<1>6. Guarded(c, Spoils("eos", "FAILURE"))
  <2>1. /\ 8 \in 1 .. Len(s) /\ 7 \in 1 .. 8 - 1 /\ s[8] = Check("noFailure")
        /\ s[7].do = "await" /\ s[7].must # "ignored" /\ s[7].what = "END_OF_STREAM"
    BY <1>1 DEF Await, Step
  <2>2. "eos" \in DOMAIN Milestone /\ Milestone["eos"] = "END_OF_STREAM"
    BY DEF Milestone
  <2> QED BY <2>1, <2>2, SpoilGuarded
<1>7. \A g \in FailureSeen : Guarded(c, g)
  <2>1. 8 \in 1 .. Len(s) /\ 6 \in 1 .. 8 - 1
    BY <1>1
  <2> QED BY <1>1, <2>1, FailureGuarded
<1> QED BY <1>3, <1>4, <1>5, <1>6, <1>7, InsistedGuarded

\* CleanRunNetworkStateVocabulary guards against all it is there to catch.
LEMMA GuardCleanRunNetworkStateVocabulary ==
  ASSUME NEW c, c = "CleanRunNetworkStateVocabulary",
         NEW f \in Suite[c].catches
  PROVE  Guarded(c, f)
<1> DEFINE s == Suite[c].script
<1>1. /\ 10 = Len(s)
      /\ s[6] = Reach("PLAYING")
      /\ s[7] = Await("END_OF_STREAM")
      /\ s[8] = Check("buffering")
      /\ s[9] = Check("noNetworkError")
  BY ScriptCleanRunNetworkStateVocabulary
<1>2. Suite[c] = CleanRunNetworkStateVocabulary
  BY Zenon DEF Suite
<1>3. Suite[c].catches
        = ({Silences("load"), Silences("eos"), Spoils("load", "NETWORK_ERROR"),
             Spoils("preroll", "NETWORK_ERROR"), Spoils("play", "NETWORK_ERROR"),
             Spoils("eos", "NETWORK_ERROR")}
              \cup {Silences("play")}) \cup Insisted(s)
  BY <1>2, OnPlayingCatches, Zenon DEF CleanRunNetworkStateVocabulary
<1>4. Guarded(c, Silences("play"))
  BY <1>1, SilenceGuarded DEF Reach, Step, Announced
<1>5. Guarded(c, Silences("load"))
  BY <1>1, SilenceGuarded DEF Announced
<1>6. Guarded(c, Silences("eos"))
  BY <1>1, SilenceGuarded DEF Await, Step, Announced
<1>7. Guarded(c, Spoils("load", "NETWORK_ERROR"))
  <2>1. /\ 9 \in 1 .. Len(s) /\ 7 \in 1 .. 9 - 1 /\ s[9] = Check("noNetworkError")
        /\ s[7].do = "await" /\ s[7].must # "ignored" /\ s[7].what = "END_OF_STREAM"
    BY <1>1 DEF Await, Step
  <2>2. "load" \in DOMAIN Milestone /\ Milestone["load"] = "END_OF_STREAM"
    BY DEF Milestone
  <2> QED BY <2>1, <2>2, SpoilGuarded DEF Clean
<1>8. Guarded(c, Spoils("preroll", "NETWORK_ERROR"))
  <2>1. /\ 9 \in 1 .. Len(s) /\ 6 \in 1 .. 9 - 1 /\ s[9] = Check("noNetworkError")
        /\ s[6].do = "await" /\ s[6].must # "ignored" /\ s[6].what = "PLAYING"
    BY <1>1 DEF Reach, Step
  <2>2. "preroll" \in DOMAIN Milestone /\ Milestone["preroll"] = "PLAYING"
    BY DEF Milestone
  <2> QED BY <2>1, <2>2, SpoilGuarded
<1>9. Guarded(c, Spoils("play", "NETWORK_ERROR"))
  <2>1. /\ 9 \in 1 .. Len(s) /\ 6 \in 1 .. 9 - 1 /\ s[9] = Check("noNetworkError")
        /\ s[6].do = "await" /\ s[6].must # "ignored" /\ s[6].what = "PLAYING"
    BY <1>1 DEF Reach, Step
  <2>2. "play" \in DOMAIN Milestone /\ Milestone["play"] = "PLAYING"
    BY DEF Milestone
  <2> QED BY <2>1, <2>2, SpoilGuarded
<1>10. Guarded(c, Spoils("eos", "NETWORK_ERROR"))
  <2>1. /\ 9 \in 1 .. Len(s) /\ 7 \in 1 .. 9 - 1 /\ s[9] = Check("noNetworkError")
        /\ s[7].do = "await" /\ s[7].must # "ignored" /\ s[7].what = "END_OF_STREAM"
    BY <1>1 DEF Await, Step
  <2>2. "eos" \in DOMAIN Milestone /\ Milestone["eos"] = "END_OF_STREAM"
    BY DEF Milestone
  <2> QED BY <2>1, <2>2, SpoilGuarded
<1> QED BY <1>3, <1>4, <1>5, <1>6, <1>7, <1>8, <1>9, <1>10, InsistedGuarded

\* StarvationIsToleratedAndEventsObserved guards against all it is there to catch.
LEMMA GuardStarvationIsToleratedAndEventsObserved ==
  ASSUME NEW c, c = "StarvationIsToleratedAndEventsObserved",
         NEW f \in Suite[c].catches
  PROVE  Guarded(c, f)
<1> DEFINE s == Suite[c].script
<1>1. /\ 10 = Len(s)
      /\ s[6] = Reach("PLAYING")
      /\ s[9] = Check("noFailure")
  BY ScriptStarvationIsToleratedAndEventsObserved
<1>2. Suite[c] = StarvationIsToleratedAndEventsObserved
  BY Zenon DEF Suite
<1>3. Suite[c].catches
        = (({Spoils("starve", "FAILURE")} \cup FailureSeen)
              \cup {Silences("play")}) \cup Insisted(s)
  BY <1>2, OnPlayingCatches, Zenon DEF StarvationIsToleratedAndEventsObserved
<1>4. Guarded(c, Silences("play"))
  BY <1>1, SilenceGuarded DEF Reach, Step, Announced
<1>5. Guarded(c, Spoils("starve", "FAILURE"))
  BY LateGuarded DEF LateFault, Starving, Refilling, Erring
<1>6. \A g \in FailureSeen : Guarded(c, g)
  <2>1. 9 \in 1 .. Len(s) /\ 6 \in 1 .. 9 - 1
    BY <1>1
  <2> QED BY <1>1, <2>1, FailureGuarded
<1> QED BY <1>3, <1>4, <1>5, <1>6, InsistedGuarded

\* PlayPauseStopStateMachine guards against all it is there to catch.
LEMMA GuardPlayPauseStopStateMachine ==
  ASSUME NEW c, c = "PlayPauseStopStateMachine",
         NEW f \in Suite[c].catches
  PROVE  Guarded(c, f)
<1> DEFINE s == Suite[c].script
<1>1. /\ 11 = Len(s)
      /\ s[6] = Reach("PLAYING")
      /\ s[7] = Check("noFailure")
  BY ScriptPlayPauseStopStateMachine
<1>2. Suite[c] = PlayPauseStopStateMachine
  BY Zenon DEF Suite
<1>3. Suite[c].catches
        = ({Silences("play")} \cup FailureSeen) \cup Insisted(s)
  BY <1>2, PlayingCatches, Zenon DEF PlayPauseStopStateMachine
<1>4. Guarded(c, Silences("play"))
  BY <1>1, SilenceGuarded DEF Reach, Step, Announced
<1>5. \A g \in FailureSeen : Guarded(c, g)
  <2>1. 7 \in 1 .. Len(s) /\ 6 \in 1 .. 7 - 1
    BY <1>1
  <2> QED BY <1>1, <2>1, FailureGuarded
<1> QED BY <1>3, <1>4, <1>5, InsistedGuarded

\* SetPlaybackRateSucceedsWhilePlaying guards against all it is there to catch.
LEMMA GuardSetPlaybackRateSucceedsWhilePlaying ==
  ASSUME NEW c, c = "SetPlaybackRateSucceedsWhilePlaying",
         NEW f \in Suite[c].catches
  PROVE  Guarded(c, f)
<1> DEFINE s == Suite[c].script
<1>1. /\ 8 = Len(s)
      /\ s[6] = Reach("PLAYING")
  BY ScriptSetPlaybackRateSucceedsWhilePlaying
<1>2. Suite[c] = SetPlaybackRateSucceedsWhilePlaying
  BY Zenon DEF Suite
<1>3. Suite[c].catches
        = ({Silences("play")}) \cup Insisted(s)
  BY <1>2, PlayingCatches, Zenon DEF SetPlaybackRateSucceedsWhilePlaying
<1>4. Guarded(c, Silences("play"))
  BY <1>1, SilenceGuarded DEF Reach, Step, Announced
<1> QED BY <1>3, <1>4, InsistedGuarded

\* SetPositionSetsStartThenSeeksWhilePlaying guards against all it is there to catch.
LEMMA GuardSetPositionSetsStartThenSeeksWhilePlaying ==
  ASSUME NEW c, c = "SetPositionSetsStartThenSeeksWhilePlaying",
         NEW f \in Suite[c].catches
  PROVE  Guarded(c, f)
<1> DEFINE s == Suite[c].script
<1>1. /\ 13 = Len(s)
      /\ s[7] = Reach("PLAYING")
      /\ s[10] = Await("SEEKING")
      /\ s[11] = Await("SEEK_DONE")
      /\ s[12] = Check("noFailure")
  BY ScriptSetPositionSetsStartThenSeeksWhilePlaying
<1>2. Suite[c] = SetPositionSetsStartThenSeeksWhilePlaying
  BY Zenon DEF Suite
<1>3. Suite[c].catches
        = ({Silences("play"), Silences("seek"), Silences("seekDone"),
            Spoils("seek", "FAILURE"), Spoils("seekDone", "FAILURE")}
              \cup FailureSeen) \cup Insisted(s)
  BY <1>2, PlayingCatches, Zenon DEF SetPositionSetsStartThenSeeksWhilePlaying
<1>4. Guarded(c, Silences("play"))
  BY <1>1, SilenceGuarded DEF Reach, Step, Announced
<1>5. Guarded(c, Silences("seek"))
  BY <1>1, SilenceGuarded DEF Await, Step, Announced
<1>6. Guarded(c, Silences("seekDone"))
  BY <1>1, SilenceGuarded DEF Await, Step, Announced
<1>7. Guarded(c, Spoils("seek", "FAILURE"))
  <2>1. /\ 12 \in 1 .. Len(s) /\ 10 \in 1 .. 12 - 1 /\ s[12] = Check("noFailure")
        /\ s[10].do = "await" /\ s[10].must # "ignored" /\ s[10].what = "SEEKING"
    BY <1>1 DEF Await, Step
  <2>2. "seek" \in DOMAIN Milestone /\ Milestone["seek"] = "SEEKING"
    BY DEF Milestone
  <2> QED BY <2>1, <2>2, SpoilGuarded
<1>8. Guarded(c, Spoils("seekDone", "FAILURE"))
  <2>1. /\ 12 \in 1 .. Len(s) /\ 11 \in 1 .. 12 - 1 /\ s[12] = Check("noFailure")
        /\ s[11].do = "await" /\ s[11].must # "ignored" /\ s[11].what = "SEEK_DONE"
    BY <1>1 DEF Await, Step
  <2>2. "seekDone" \in DOMAIN Milestone /\ Milestone["seekDone"] = "SEEK_DONE"
    BY DEF Milestone
  <2> QED BY <2>1, <2>2, SpoilGuarded
<1>9. \A g \in FailureSeen : Guarded(c, g)
  <2>1. 12 \in 1 .. Len(s) /\ 7 \in 1 .. 12 - 1
    BY <1>1
  <2> QED BY <1>1, <2>1, FailureGuarded
<1> QED BY <1>3, <1>4, <1>5, <1>6, <1>7, <1>8, <1>9, InsistedGuarded

\* NoSpaceIsNotAnErrorAndTheSegmentIsResent guards against all it is there to catch.
LEMMA GuardNoSpaceIsNotAnErrorAndTheSegmentIsResent ==
  ASSUME NEW c, c = "NoSpaceIsNotAnErrorAndTheSegmentIsResent",
         NEW f \in Suite[c].catches
  PROVE  Guarded(c, f)
<1> DEFINE s == Suite[c].script
<1>1. /\ 12 = Len(s)
      /\ s[7] = Reach("PLAYING")
      /\ s[10] = Check("noFailure")
  BY ScriptNoSpaceIsNotAnErrorAndTheSegmentIsResent
<1>2. Suite[c] = NoSpaceIsNotAnErrorAndTheSegmentIsResent
  BY Zenon DEF Suite
<1>3. Suite[c].catches
        = ({RejectsSegment, Spoils("full", "FAILURE"), Silences("play")}
              \cup FailureSeen) \cup Insisted(s)
  BY <1>2, PlayingCatches, Zenon DEF NoSpaceIsNotAnErrorAndTheSegmentIsResent
<1>4. Guarded(c, Silences("play"))
  BY <1>1, SilenceGuarded DEF Reach, Step, Announced
<1>5. Guarded(c, RejectsSegment)
  BY LateGuarded DEF LateFault, Starving, Refilling, Erring
<1>6. Guarded(c, Spoils("full", "FAILURE"))
  BY LateGuarded DEF LateFault, Starving, Refilling, Erring
<1>7. \A g \in FailureSeen : Guarded(c, g)
  <2>1. 10 \in 1 .. Len(s) /\ 7 \in 1 .. 10 - 1
    BY <1>1
  <2> QED BY <1>1, <2>1, FailureGuarded
<1> QED BY <1>3, <1>4, <1>5, <1>6, <1>7, InsistedGuarded

\* AddSegmentWithAnUnissuedRequestIdIsAnError guards against all it is there to catch.
LEMMA GuardAddSegmentWithAnUnissuedRequestIdIsAnError ==
  ASSUME NEW c, c = "AddSegmentWithAnUnissuedRequestIdIsAnError",
         NEW f \in Suite[c].catches
  PROVE  Guarded(c, f)
<1> DEFINE s == Suite[c].script
<1>1. /\ 9 = Len(s)
      /\ s[6] = Reach("PLAYING")
      /\ s[8] = Check("noFailure")
  BY ScriptAddSegmentWithAnUnissuedRequestIdIsAnError
<1>2. Suite[c] = AddSegmentWithAnUnissuedRequestIdIsAnError
  BY Zenon DEF Suite
<1>3. Suite[c].catches
        = (FailureSeen \cup {Silences("play")}) \cup Insisted(s)
  BY <1>2, OnPlayingCatches, Zenon DEF AddSegmentWithAnUnissuedRequestIdIsAnError
<1>4. Guarded(c, Silences("play"))
  BY <1>1, SilenceGuarded DEF Reach, Step, Announced
<1>5. \A g \in FailureSeen : Guarded(c, g)
  <2>1. 8 \in 1 .. Len(s) /\ 6 \in 1 .. 8 - 1
    BY <1>1
  <2> QED BY <1>1, <2>1, FailureGuarded
<1> QED BY <1>3, <1>4, <1>5, InsistedGuarded

\* CancelledNeedDataIsNotAnError guards against all it is there to catch.
LEMMA GuardCancelledNeedDataIsNotAnError ==
  ASSUME NEW c, c = "CancelledNeedDataIsNotAnError",
         NEW f \in Suite[c].catches
  PROVE  Guarded(c, f)
<1> DEFINE s == Suite[c].script
<1>1. /\ 18 = Len(s)
      /\ s[6] = Reach("PLAYING")
      /\ s[12] = Check("noFailure")
  BY ScriptCancelledNeedDataIsNotAnError
<1>2. Suite[c] = CancelledNeedDataIsNotAnError
  BY Zenon DEF Suite
<1>3. Suite[c].catches
        = (({Spoils("flush", "FAILURE")} \cup FailureSeen)
              \cup {Silences("play")}) \cup Insisted(s)
  BY <1>2, OnPlayingCatches, Zenon DEF CancelledNeedDataIsNotAnError
<1>4. Guarded(c, Silences("play"))
  BY <1>1, SilenceGuarded DEF Reach, Step, Announced
<1>5. Guarded(c, Spoils("flush", "FAILURE"))
  <2>1. Traps(c, Spoils("flush", "FAILURE"), 12)
    BY <1>1 DEF Traps, Check, Step
  <2>2. FaultKinds(c, Spoils("flush", "FAILURE"))
    BY DEF FaultKinds, Spoils, RejectsSegment, Fault, Cancelling
  <2> QED BY <1>1, <2>1, <2>2 DEF Guarded
<1>6. \A g \in FailureSeen : Guarded(c, g)
  <2>1. 12 \in 1 .. Len(s) /\ 6 \in 1 .. 12 - 1
    BY <1>1
  <2> QED BY <1>1, <2>1, FailureGuarded
<1> QED BY <1>3, <1>4, <1>5, <1>6, InsistedGuarded

\* NonFatalPlaybackErrorLeavesStateUnchanged guards against all it is there to catch.
LEMMA GuardNonFatalPlaybackErrorLeavesStateUnchanged ==
  ASSUME NEW c, c = "NonFatalPlaybackErrorLeavesStateUnchanged",
         NEW f \in Suite[c].catches
  PROVE  Guarded(c, f)
<1> DEFINE s == Suite[c].script
<1>1. /\ 11 = Len(s)
      /\ s[6] = Reach("PLAYING")
      /\ s[9] = Check("noFailure")
  BY ScriptNonFatalPlaybackErrorLeavesStateUnchanged
<1>2. Suite[c] = NonFatalPlaybackErrorLeavesStateUnchanged
  BY Zenon DEF Suite
<1>3. Suite[c].catches
        = (({Spoils("error", "FAILURE"), Spoils("error", "PAUSED")} \cup FailureSeen)
              \cup {Silences("play")}) \cup Insisted(s)
  BY <1>2, OnPlayingCatches, Zenon DEF NonFatalPlaybackErrorLeavesStateUnchanged
<1>4. Guarded(c, Silences("play"))
  BY <1>1, SilenceGuarded DEF Reach, Step, Announced
<1>5. Guarded(c, Spoils("error", "FAILURE"))
  BY LateGuarded DEF LateFault, Starving, Refilling, Erring
<1>6. Guarded(c, Spoils("error", "PAUSED"))
  BY LateGuarded DEF LateFault, Starving, Refilling, Erring
<1>7. \A g \in FailureSeen : Guarded(c, g)
  <2>1. 9 \in 1 .. Len(s) /\ 6 \in 1 .. 9 - 1
    BY <1>1
  <2> QED BY <1>1, <2>1, FailureGuarded
<1> QED BY <1>3, <1>4, <1>5, <1>6, <1>7, InsistedGuarded

\* So does every case.
LEMMA AllGuarded ==
  ASSUME NEW c \in DOMAIN Suite, NEW f \in Suite[c].catches
  PROVE  Guarded(c, f)
<1>1. DOMAIN Suite = {"VolumeRoundTripsOnRealizedPipeline",
          "MuteRoundTripsPerSource",
          "SetVideoWindowAcceptsGeometry",
          "FlushEmitsSourceFlushed",
          "SetSourcePositionSucceeds",
          "ProcessAudioGapSucceeds",
          "BufferingLimitConformsWhenSupported",
          "UseBufferingRoundTrips",
          "RenderFrameSucceedsOnceLoaded",
          "SetLowLatencyIsAccepted",
          "SyncRoundTrips",
          "SetSyncOffAcceptedBeforePlaying",
          "StreamSyncModeConformsWhenSupported",
          "SwitchSourceAcceptsNewAudioSource",
          "GetPositionSucceedsOncePlaying",
          "GetDurationNotDeterminableForStreamSource",
          "GetStatsSucceedsOncePlaying",
          "NeedDataProtocolIsWellFormed",
          "HaveDataEosDrivesEndOfStream",
          "CleanRunNetworkStateVocabulary",
          "StarvationIsToleratedAndEventsObserved",
          "PlayPauseStopStateMachine",
          "SetPlaybackRateSucceedsWhilePlaying",
          "SetPositionSetsStartThenSeeksWhilePlaying",
          "NoSpaceIsNotAnErrorAndTheSegmentIsResent",
          "AddSegmentWithAnUnissuedRequestIdIsAnError",
          "CancelledNeedDataIsNotAnError",
          "NonFatalPlaybackErrorLeavesStateUnchanged"}
  BY Zenon DEF Suite
<1> QED BY <1>1, GuardVolumeRoundTripsOnRealizedPipeline,
       GuardMuteRoundTripsPerSource,
       GuardSetVideoWindowAcceptsGeometry,
       GuardFlushEmitsSourceFlushed,
       GuardSetSourcePositionSucceeds,
       GuardProcessAudioGapSucceeds,
       GuardBufferingLimitConformsWhenSupported,
       GuardUseBufferingRoundTrips,
       GuardRenderFrameSucceedsOnceLoaded,
       GuardSetLowLatencyIsAccepted,
       GuardSyncRoundTrips,
       GuardSetSyncOffAcceptedBeforePlaying,
       GuardStreamSyncModeConformsWhenSupported,
       GuardSwitchSourceAcceptsNewAudioSource,
       GuardGetPositionSucceedsOncePlaying,
       GuardGetDurationNotDeterminableForStreamSource,
       GuardGetStatsSucceedsOncePlaying,
       GuardNeedDataProtocolIsWellFormed,
       GuardHaveDataEosDrivesEndOfStream,
       GuardCleanRunNetworkStateVocabulary,
       GuardStarvationIsToleratedAndEventsObserved,
       GuardPlayPauseStopStateMachine,
       GuardSetPlaybackRateSucceedsWhilePlaying,
       GuardSetPositionSetsStartThenSeeksWhilePlaying,
       GuardNoSpaceIsNotAnErrorAndTheSegmentIsResent,
       GuardAddSegmentWithAnUnissuedRequestIdIsAnError,
       GuardCancelledNeedDataIsNotAnError,
       GuardNonFatalPlaybackErrorLeavesStateUnchanged

-----------------------------------------------------------------------------
(***************************************************************************)
(* What a server with a fault sends.                                       *)
(***************************************************************************)

\* The fault shows at this event.
Spoilt(event) == event # "none" /\ fault.kind = "spoils" /\ fault.what = event /\ ~shown

\* The notices the event adds: what spoils it, then what it says, unless that is silenced.
Extended(event) ==
  /\ notices' \in Seq(Notices) /\ Len(notices) \in Nat
  /\ \A i \in DOMAIN notices : i \in DOMAIN notices' /\ notices'[i] = notices[i]
  /\ Spoilt(event) => /\ Len(notices) + 1 \in DOMAIN notices'
                      /\ notices'[Len(notices) + 1] = fault.by
  /\ \A i \in DOMAIN notices' :
       \/ i \in DOMAIN notices
       \/ Spoilt(event) /\ i = Len(notices) + 1
       \/ /\ i = Len(notices) + (IF Spoilt(event) THEN 2 ELSE 1)
          /\ notices'[i] \in Said[event] /\ fault # Silences(event)

\* Whether the fault has shown afterwards.
Shows(event) ==
  /\ shown' \in BOOLEAN
  /\ fault.kind = "spoils" => shown' = (shown \/ Spoilt(event))

\* What a fault notifies is a notice, and not one that tells a state of playback.
SentByFault == fault.kind = "spoils" => fault.by \in {"FAILURE", "NETWORK_ERROR", "PAUSED"}

\* What is said at an event are notices.
LEMMA SaidAre ==
  ASSUME NEW event \in DOMAIN Said
  PROVE  Said[event] \subseteq Notices
BY DEF Said, Notices, PlaybackStates, Signals

\* A server sends at an event what that says.
LEMMA EmitExtends ==
  ASSUME FaultyTypes, SentByFault, NEW event \in DOMAIN Said, event # "none", NEW sent,
         sent = << >> \/ \E n \in Said[event] : sent = <<n>>, Emit(event, sent)
  PROVE  /\ Extended(event) /\ Shows(event) /\ (fault = RejectsSegment => shown' = shown)
         /\ \A n : sent = <<n>> /\ fault # Silences(event) => Has(notices', n)
<1> DEFINE spoilt == fault.kind = "spoils" /\ fault.what = event /\ ~shown
           lost   == fault = Silences(event) /\ sent # << >>
           mid    == IF spoilt THEN Append(notices, fault.by) ELSE notices
<1>1. /\ notices' = notices \o (IF spoilt THEN <<fault.by>> ELSE << >>)
                            \o (IF lost THEN << >> ELSE sent)
      /\ shown' = (shown \/ spoilt \/ lost)
  BY Zenon DEF Emit
<1>2. notices \in Seq(Notices) /\ shown \in BOOLEAN
  BY DEF FaultyTypes
<1>3. spoilt <=> Spoilt(event)
  BY DEF Spoilt
<1>4. fault.kind = "spoils" => fault.by \in Notices /\ ~lost
  BY DEF SentByFault, Notices, PlaybackStates, Signals, Silences, Fault
<1>5. fault = RejectsSegment => ~spoilt /\ ~lost
  BY DEF RejectsSegment, Silences, Fault
<1>6. Said[event] \subseteq Notices
  BY SaidAre
<1>7. notices \o (IF spoilt THEN <<fault.by>> ELSE << >>) = mid
  BY <1>2, <1>4, AppendIsConcat, ConcatEmptySeq
<1>8. spoilt <=> Spoilt(event)
  BY <1>3
<1>9. lost => fault = Silences(event)
  OBVIOUS
<1>10. ~lost /\ sent # << >> => fault # Silences(event)
  OBVIOUS
<1>11. Shows(event) /\ (fault = RejectsSegment => shown' = shown)
  BY <1>1, <1>2, <1>4, <1>5, <1>8 DEF Shows
<1>12. /\ mid \in Seq(Notices) /\ Len(notices) \in Nat /\ DOMAIN notices = 1 .. Len(notices)
       /\ DOMAIN mid = 1 .. Len(mid)
       /\ Len(mid) = Len(notices) + (IF Spoilt(event) THEN 1 ELSE 0)
       /\ \A i \in 1 .. Len(notices) : mid[i] = notices[i]
       /\ Spoilt(event) => mid[Len(notices) + 1] = fault.by
  <2>1. CASE spoilt
    <3>1. fault.by \in Notices /\ mid = Append(notices, fault.by)
      BY <1>4, <2>1
    <3> HIDE DEF Notices, mid
    <3> QED BY <1>2, <1>3, <2>1, <3>1, AddedAt
  <2>2. CASE ~spoilt
    <3>1. mid = notices
      BY <2>2
    <3> HIDE DEF Notices, mid
    <3> QED BY <1>2, <1>3, <2>2, <3>1
  <2> QED BY <2>1, <2>2
<1>13. CASE lost \/ sent = << >>
  <2>1. notices' = mid
    <3>1. notices' = mid \o << >>
      BY <1>1, <1>7, <1>13
    <3> HIDE DEF mid
    <3> QED BY <3>1, <1>12, ConcatEmptySeq
  <2> HIDE DEF mid, Notices
  <2>2. \A n : sent = <<n>> => fault = Silences(event)
    BY <1>13
  <2> QED BY <1>11, <1>12, <2>1, <2>2 DEF Extended
<1>14. CASE ~lost /\ sent # << >>
  <2>1. PICK n \in Said[event] : sent = <<n>>
    BY <1>14
  <2>2. notices' = Append(mid, n) /\ n \in Notices
    <3>1. notices' = mid \o <<n>>
      BY <1>1, <1>7, <1>14, <2>1
    <3> HIDE DEF mid
    <3> QED BY <3>1, <1>6, <1>12, <2>1, AppendIsConcat
  <2>3. fault # Silences(event)
    BY <1>10, <1>14
  <2> HIDE DEF mid, Notices
  <2>4. /\ notices' \in Seq(Notices) /\ Len(mid) \in Nat
        /\ DOMAIN notices' = 1 .. Len(mid) + 1
        /\ \A i \in 1 .. Len(mid) : notices'[i] = mid[i]
        /\ notices'[Len(mid) + 1] = n
    BY <1>12, <2>2, AddedAt
  <2>5. \A m : sent = <<m>> => Has(notices', m)
    <3>1. \A m : sent = <<m>> => m = n
      BY <2>1
    <3> QED BY <2>4, <3>1 DEF Has
  <2> QED BY <1>11, <1>12, <2>1, <2>3, <2>4, <2>5 DEF Extended
<1> QED BY <1>11, <1>13, <1>14

\* It sends nothing at no event.
LEMMA NothingSent ==
  ASSUME FaultyTypes, notices' = notices, shown' = shown
  PROVE  Extended("none") /\ Shows("none")
<1>1. notices \in Seq(Notices) /\ Len(notices) \in Nat /\ shown \in BOOLEAN
  BY DEF FaultyTypes
<1> QED BY <1>1 DEF Extended, Shows, Spoilt

\* What is on its way afterwards.
LEMMA ExtendedComing ==
  ASSUME NEW event, Extended(event)
  PROVE  /\ \A m : Coming(m) => Has(notices', m)
         /\ Spoilt(event) => Has(notices', fault.by)
         /\ \A m : Has(notices', m) => \/ Coming(m) \/ (Spoilt(event) /\ m = fault.by)
                                       \/ (m \in Said[event] /\ fault # Silences(event))
<1>1. \A m : Coming(m) => Has(notices', m)
  BY DEF Extended, Coming, Has
<1>2. Spoilt(event) => Has(notices', fault.by)
  BY DEF Extended, Has
<1>3. ASSUME NEW m, Has(notices', m)
      PROVE  \/ Coming(m) \/ (Spoilt(event) /\ m = fault.by)
             \/ (m \in Said[event] /\ fault # Silences(event))
  <2>1. PICK i \in DOMAIN notices' : notices'[i] = m
    BY <1>3 DEF Has
  <2>2. CASE i \in DOMAIN notices
    BY <2>1, <2>2 DEF Extended, Coming, Has
  <2>3. CASE i \notin DOMAIN notices
    BY <2>1, <2>3 DEF Extended
  <2> QED BY <2>2, <2>3
<1> QED BY <1>1, <1>2, <1>3

-----------------------------------------------------------------------------
(***************************************************************************)
(* What each thread's steps do, on a server with a fault.                  *)
(***************************************************************************)

\* What the client has recorded of the notifications stays as it is.
Unheard ==
  /\ seen'.states = seen.states /\ seen'.events = seen.events
  /\ seen'.lastState = seen.lastState /\ seen'.stateAtLastError = seen.stateAtLastError

\* The playback is at the event, and goes where it leads.
Occurs(event) ==
  /\ event = "preroll" => /\ srv.state = "IDLE" /\ HasData /\ allAttached
                          /\ srv'.state = "PAUSED"
  /\ event = "play" => srv.state = "PAUSED" /\ srv'.state = "PLAYING"
  /\ event = "pause" => srv.state = "PLAYING" /\ srv'.state = "PAUSED"
  /\ event = "eos" => srv.state = "PLAYING" /\ srv'.state = "END_OF_STREAM"
  /\ event = "stop" => srv.target = "STOPPED" /\ srv'.state = "STOPPED"
  /\ event \notin {"preroll", "play", "pause", "eos", "stop"} => srv'.state = srv.state
  /\ event = "error" => /\ seen.stateAtLastError = None /\ ~Coming("ERROR")
                        /\ fault # Silences("error") => Has(notices', "ERROR")
  /\ srv'.starved => srv.starved \/ event = "starve"

\* A step at which the server sends what the event says.
Sends(event) ==
  /\ event \in DOMAIN Said /\ fault' = fault
  /\ Extended(event) /\ Shows(event) /\ Unheard /\ Occurs(event) /\ FaultyTypes'
  /\ seen.error => seen'.error
  /\ fault = RejectsSegment /\ shown' /\ ~shown =>
       seen'.error /\ ~allSegmentsAccepted' /\ cb.phase # "idle"
  /\ fault.kind = "ignores" => srv'.property = srv.property

\* What is known to begin with.
Faulty == WalkInv /\ FeedInv /\ SentByFault /\ FaultyTypes

\* The worker thread applies the task that is first.
LEMMA WorkSends ==
  ASSUME Faulty, Work
  PROVE  /\ tasks # << >> /\ UNCHANGED vars /\ seen' = seen /\ head' = head
         /\ \E event \in {"none", "flush", "seek"} :
              /\ Sends(event)
              /\ \A do : HasDo(tasks, do) =>
                   HasDo(tasks', do) \/ (do = "flush" => event = "flush")
<1> DEFINE t == Head(tasks)
<1>1. /\ tasks # << >> /\ tasks' = Tail(tasks)
      /\ UNCHANGED <<vars, fault, seen, head>>
      /\ \/ /\ t.do \in {"PLAYING", "PAUSED", "STOPPED"}
            /\ srv' = [srv EXCEPT !.target = t.do]
            /\ UNCHANGED <<notices, shown>>
         \/ /\ t.do = "flush"
            /\ Emit("flush", <<"FLUSHED">>)
            /\ UNCHANGED srv
         \/ /\ t.do = "seek"
            /\ srv' = [srv EXCEPT !.seeking = TRUE]
            /\ Emit("seek", <<"SEEKING">>)
         \/ /\ t.do = "write"
            /\ srv' = [srv EXCEPT !.property =
                         IF fault.kind \in {"ignores", "lacks"} THEN @ ELSE t.value]
            /\ shown' = (shown \/ fault.kind = "ignores")
            /\ UNCHANGED notices
  BY Zenon DEF Work
<1>2. /\ FaultyTypes /\ SentByFault
      /\ seen \in FaultySeen /\ notices \in Seq(Notices) /\ tasks \in Seq(Tasks)
      /\ srv \in SrvType /\ head \in [Sources -> Nat \cup {None}] /\ shown \in BOOLEAN
  BY DEF Faulty, FaultyTypes
<1>3. /\ t \in Tasks /\ tasks' \in Seq(Tasks)
      /\ \A do : HasDo(tasks, do) <=> t.do = do \/ HasDo(tasks', do)
  <2>1. tasks \in Seq(Tasks) /\ tasks # << >> /\ tasks' = Tail(tasks)
    BY <1>1, <1>2
  <2> HIDE DEF Tasks
  <2> QED BY <2>1, Removed
<1> HIDE DEF t
<1>4. /\ fault' = fault /\ Unheard /\ UNCHANGED vars /\ (seen.error => seen'.error)
  BY <1>1, <1>2 DEF Unheard
<1>5. /\ "none" \in DOMAIN Said /\ "flush" \in DOMAIN Said /\ "seek" \in DOMAIN Said
      /\ "FLUSHED" \in Said["flush"] /\ "SEEKING" \in Said["seek"]
  BY DEF Said
<1>6. CASE /\ t.do \in {"PLAYING", "PAUSED", "STOPPED"}
           /\ srv' = [srv EXCEPT !.target = t.do]
           /\ UNCHANGED <<notices, shown>>
  <2>1. /\ srv' \in SrvType /\ srv'.state = srv.state /\ srv'.starved = srv.starved
        /\ srv'.property = srv.property
    BY <1>2, <1>6 DEF SrvType
  <2>2. Extended("none") /\ Shows("none")
    BY <1>2, <1>6, NothingSent
  <2>3. FaultyTypes'
    BY <1>1, <1>2, <1>3, <1>6, <2>1 DEF FaultyTypes
  <2>4. Sends("none")
    BY <1>4, <1>5, <1>6, <2>1, <2>2, <2>3 DEF Sends, Occurs
  <2> QED BY <1>1, <1>3, <1>6, <2>4
<1>7. CASE /\ t.do = "flush"
           /\ Emit("flush", <<"FLUSHED">>)
           /\ UNCHANGED srv
  <2>1. Extended("flush") /\ Shows("flush") /\ (fault = RejectsSegment => shown' = shown)
    BY <1>2, <1>5, <1>7, EmitExtends
  <2>2. FaultyTypes'
    BY <1>1, <1>2, <1>3, <1>7, <2>1 DEF FaultyTypes, Extended, Shows
  <2>3. Sends("flush")
    BY <1>4, <1>5, <1>7, <2>1, <2>2 DEF Sends, Occurs
  <2> QED BY <1>1, <1>3, <1>7, <2>3
<1>8. CASE /\ t.do = "seek"
           /\ srv' = [srv EXCEPT !.seeking = TRUE]
           /\ Emit("seek", <<"SEEKING">>)
  <2>1. /\ srv' \in SrvType /\ srv'.state = srv.state /\ srv'.starved = srv.starved
        /\ srv'.property = srv.property
    BY <1>2, <1>8 DEF SrvType
  <2>2. Extended("seek") /\ Shows("seek") /\ (fault = RejectsSegment => shown' = shown)
    BY <1>2, <1>5, <1>8, EmitExtends
  <2>3. FaultyTypes'
    BY <1>1, <1>2, <1>3, <2>1, <2>2 DEF FaultyTypes, Extended, Shows
  <2>4. Sends("seek")
    BY <1>4, <1>5, <2>1, <2>2, <2>3 DEF Sends, Occurs
  <2> QED BY <1>1, <1>3, <1>8, <2>4
<1>9. CASE /\ t.do = "write"
           /\ srv' = [srv EXCEPT !.property =
                        IF fault.kind \in {"ignores", "lacks"} THEN @ ELSE t.value]
           /\ shown' = (shown \/ fault.kind = "ignores")
           /\ UNCHANGED notices
  <2>0. t.value \in BOOLEAN
    BY <1>3 DEF Tasks
  <2>1. /\ srv' \in SrvType /\ srv'.state = srv.state /\ srv'.starved = srv.starved
        /\ fault.kind = "ignores" => srv'.property = srv.property
    BY <1>2, <1>9, <2>0 DEF SrvType
  <2>2. /\ fault.kind # "ignores" => shown' = shown
        /\ shown' \in BOOLEAN
    BY <1>2, <1>9
  <2>3. Extended("none") /\ Shows("none")
    BY <1>2, <1>9, <2>2 DEF Extended, Shows, Spoilt
  <2>4. FaultyTypes'
    BY <1>1, <1>2, <1>3, <1>9, <2>1, <2>2 DEF FaultyTypes
  <2>5. fault = RejectsSegment => shown' = shown
    BY <2>2 DEF RejectsSegment, Fault
  <2>6. Sends("none")
    BY <1>4, <1>5, <1>9, <2>1, <2>3, <2>4, <2>5 DEF Sends, Occurs
  <2> QED BY <1>1, <1>3, <1>9, <2>6
<1> QED BY <1>1, <1>6, <1>7, <1>8, <1>9

\* The playback moves to a state and announces it.
LEMMA BecomeSends ==
  ASSUME Faulty, NEW state \in {"PAUSED", "PLAYING", "END_OF_STREAM", "STOPPED"},
         NEW event \in DOMAIN Said, event # "none",
         NEW sent, sent = << >> \/ \E n \in Said[event] : sent = <<n>>, Emit(event, sent),
         srv' = [srv EXCEPT !.state = state], UNCHANGED <<vars, fault, seen, tasks, head>>
  PROVE  /\ srv'.state = state
         /\ (srv'.state = state => Occurs(event)) => Sends(event)
<1>1. /\ FaultyTypes /\ SentByFault /\ seen \in FaultySeen /\ srv \in SrvType
      /\ shown \in BOOLEAN
  BY DEF Faulty, FaultyTypes
<1>2. /\ srv' \in SrvType /\ srv'.state = state /\ srv'.property = srv.property
  BY <1>1 DEF SrvType
<1>3. Extended(event) /\ Shows(event) /\ (fault = RejectsSegment => shown' = shown)
  BY <1>1, EmitExtends
<1>4. FaultyTypes'
  BY <1>1, <1>2, <1>3 DEF FaultyTypes, Extended, Shows
<1> QED BY <1>2, <1>3, <1>4 DEF Sends, Unheard

\* What the server's playback does on its own.
LEMMA PlaySends ==
  ASSUME Faulty, Play(Short)
  PROVE  /\ UNCHANGED <<vars, seen, tasks, head>>
         /\ \E event \in {"preroll", "play", "pause", "stop", "seekDone", "eos"} : Sends(event)
         /\ srv'.target = srv.target
<1>0. /\ FaultyTypes /\ SentByFault /\ seen \in FaultySeen /\ srv \in SrvType
      /\ shown \in BOOLEAN
  BY DEF Faulty, FaultyTypes
<1>1. UNCHANGED <<vars, fault, seen, tasks, head>>
  BY Zenon DEF Play
<1>2. /\ {"preroll", "play", "pause", "stop", "seekDone", "eos"} \subseteq DOMAIN Said
      /\ "PAUSED" \in Said["preroll"] /\ "PLAYING" \in Said["play"]
      /\ "PAUSED" \in Said["pause"] /\ "STOPPED" \in Said["stop"]
      /\ "SEEK_DONE" \in Said["seekDone"] /\ "END_OF_STREAM" \in Said["eos"]
  BY DEF Said
<1>3. \A state : srv' = [srv EXCEPT !.state = state] =>
        srv'.target = srv.target /\ srv'.starved = srv.starved
  BY <1>0 DEF SrvType
<1>4. CASE CanPreroll /\ Become("PAUSED", "preroll")
  <2>1. srv' = [srv EXCEPT !.state = "PAUSED"] /\ Emit("preroll", <<"PAUSED">>)
    BY <1>4 DEF Become
  <2>2. /\ srv'.state = "PAUSED"
        /\ (srv'.state = "PAUSED" => Occurs("preroll")) => Sends("preroll")
    BY <1>1, <1>2, <2>1, BecomeSends
  <2>3. Occurs("preroll")
    BY <1>3, <1>4, <2>1, <2>2 DEF Occurs, CanPreroll
  <2> QED BY <1>1, <1>2, <1>3, <2>1, <2>2, <2>3
<1>5. CASE CanStart /\ Become("PLAYING", "play")
  <2>1. srv' = [srv EXCEPT !.state = "PLAYING"] /\ Emit("play", <<"PLAYING">>)
    BY <1>5 DEF Become
  <2>2. /\ srv'.state = "PLAYING"
        /\ (srv'.state = "PLAYING" => Occurs("play")) => Sends("play")
    BY <1>1, <1>2, <2>1, BecomeSends
  <2>3. Occurs("play")
    BY <1>3, <1>5, <2>1, <2>2 DEF Occurs, CanStart
  <2> QED BY <1>1, <1>2, <1>3, <2>1, <2>2, <2>3
<1>6. CASE CanPause /\ Become("PAUSED", "pause")
  <2>1. srv' = [srv EXCEPT !.state = "PAUSED"] /\ Emit("pause", <<"PAUSED">>)
    BY <1>6 DEF Become
  <2>2. /\ srv'.state = "PAUSED"
        /\ (srv'.state = "PAUSED" => Occurs("pause")) => Sends("pause")
    BY <1>1, <1>2, <2>1, BecomeSends
  <2>3. Occurs("pause")
    BY <1>3, <1>6, <2>1, <2>2 DEF Occurs, CanPause
  <2> QED BY <1>1, <1>2, <1>3, <2>1, <2>2, <2>3
<1>7. CASE /\ CanStop
           /\ srv' = [srv EXCEPT !.state = "STOPPED"]
           /\ \E sent \in {<< >>, <<"STOPPED">>} : Emit("stop", sent)
  <2>1. PICK sent \in {<< >>, <<"STOPPED">>} : Emit("stop", sent)
    BY <1>7
  <2>2. /\ srv'.state = "STOPPED"
        /\ (srv'.state = "STOPPED" => Occurs("stop")) => Sends("stop")
    BY <1>1, <1>2, <1>7, <2>1, BecomeSends
  <2>3. Occurs("stop")
    BY <1>3, <1>7, <2>2 DEF Occurs, CanStop
  <2> QED BY <1>1, <1>2, <1>3, <1>7, <2>2, <2>3
<1>8. CASE /\ CanFinishSeek
           /\ srv' = [srv EXCEPT !.seeking = FALSE]
           /\ Emit("seekDone", <<"SEEK_DONE">>)
  <2>1. /\ srv' \in SrvType /\ srv'.state = srv.state /\ srv'.target = srv.target
        /\ srv'.property = srv.property /\ srv'.starved = srv.starved
    BY <1>0, <1>8 DEF SrvType
  <2>2. Extended("seekDone") /\ Shows("seekDone") /\ (fault = RejectsSegment => shown' = shown)
    BY <1>0, <1>2, <1>8, EmitExtends
  <2>3. FaultyTypes'
    BY <1>0, <1>1, <2>1, <2>2 DEF FaultyTypes, Extended, Shows
  <2>4. Sends("seekDone")
    BY <1>0, <1>1, <1>2, <2>1, <2>2, <2>3 DEF Sends, Occurs, Unheard
  <2> QED BY <1>1, <2>1, <2>4
<1>9. CASE CanEnd(Short) /\ Become("END_OF_STREAM", "eos")
  <2>1. srv' = [srv EXCEPT !.state = "END_OF_STREAM"] /\ Emit("eos", <<"END_OF_STREAM">>)
    BY <1>9 DEF Become
  <2>2. /\ srv'.state = "END_OF_STREAM"
        /\ (srv'.state = "END_OF_STREAM" => Occurs("eos")) => Sends("eos")
    BY <1>1, <1>2, <2>1, BecomeSends
  <2>3. Occurs("eos")
    BY <1>3, <1>9, <2>1, <2>2 DEF Occurs, CanEnd
  <2> QED BY <1>1, <1>2, <1>3, <2>1, <2>2, <2>3
<1> QED BY <1>4, <1>5, <1>6, <1>7, <1>8, <1>9, Zenon DEF Play

\* A request of the server sends nothing.
LEMMA RequestSends ==
  ASSUME Faulty, Request
  PROVE  /\ Sends("none") /\ UNCHANGED playbackVars
<1>1. UNCHANGED playbackVars /\ FaultyTypes
  BY DEF Request, Faulty
<1>2. Extended("none") /\ Shows("none")
  BY <1>1, NothingSent DEF playbackVars
<1>3. FaultyTypes'
  BY <1>1 DEF playbackVars, FaultyTypes
<1> QED BY <1>1, <1>2, <1>3 DEF Sends, Occurs, Unheard, Said, playbackVars

\* What a step of the feed, on source s, is.
FaultyFed(s) ==
  \/ /\ DropRequest(s) \/ StarveRequest(s) \/ StartRound(s)
     /\ head' = head /\ shown' = shown
  \/ AnswerStarved(s) /\ head' = head
  \/ AcceptSegment(s) /\ (fault = RejectsSegment => shown)
  \/ \E status \in {"NO_SPACE", "ERROR"} : RejectSegment(s, status) /\ head' = head
  \/ /\ CommitRound(s) \/ HaveData(s) \/ NotifyCancelNeedMediaData(s)
     /\ head' = head /\ shown' = shown

\* A step of the feed is one of those.
LEMMA FeedSends ==
  ASSUME Faulty, Feed
  PROVE  /\ tasks' = tasks
         /\ \E event \in {"none", "starve", "error", "full"} : Sends(event)
         /\ \E s \in Sources : FaultyFed(s)
         /\ srv'.target = srv.target
<1>0. /\ FaultyTypes /\ SentByFault /\ seen \in FaultySeen /\ srv \in SrvType
      /\ shown \in BOOLEAN /\ head \in [Sources -> Nat \cup {None}]
  BY DEF Faulty, FaultyTypes
<1>1. tasks' = tasks /\ fault' = fault
  BY Zenon DEF Feed
<1>2. /\ {"none", "starve", "error", "full"} \subseteq DOMAIN Said
      /\ "UNDERFLOW" \in Said["starve"] /\ "ERROR" \in Said["error"]
  BY DEF Said
<1>3. srv' = srv => /\ srv' \in SrvType /\ srv'.state = srv.state /\ srv'.target = srv.target
                    /\ srv'.property = srv.property /\ srv'.starved = srv.starved
  BY <1>0
<1>4. seen' = seen => seen' \in FaultySeen /\ Unheard /\ (seen.error => seen'.error)
  BY <1>0 DEF Unheard
<1>5. notices' = notices /\ shown' = shown => Extended("none") /\ Shows("none")
  BY <1>0, NothingSent
<1>6. PICK s \in Sources :
       \/ /\ DropRequest(s) \/ StarveRequest(s) \/ StartRound(s)
          /\ seen' = [seen EXCEPT !.requested = TRUE]
          /\ UNCHANGED <<notices, shown, head, srv>>
       \/ /\ AnswerStarved(s)
          /\ \E sent \in {<< >>, <<"UNDERFLOW">>} : Emit("starve", sent)
          /\ srv' = [srv EXCEPT !.starved = TRUE]
          /\ UNCHANGED <<seen, head>>
       \/ /\ AcceptSegment(s)
          /\ fault = RejectsSegment => shown
          /\ head' = [head EXCEPT ![s] = IF @ = None THEN cb.first + cb.accepted
                                                     ELSE @]
          /\ \/ UNCHANGED <<notices, shown>>
             \/ /\ srv.corrupt /\ seen.stateAtLastError = None
                /\ \A k \in DOMAIN notices : notices[k] # "ERROR"
                /\ Emit("error", <<"ERROR">>)
          /\ UNCHANGED <<seen, srv>>
       \/ /\ RejectSegment(s, "NO_SPACE")
          /\ seen' = [seen EXCEPT !.noSpace = TRUE]
          /\ Emit("full", << >>)
          /\ UNCHANGED <<head, srv>>
       \/ /\ RejectSegment(s, "ERROR")
          /\ \/ outstanding[s] # cb.id /\ UNCHANGED shown
             \/ fault = RejectsSegment /\ ~shown /\ shown' = TRUE
          /\ seen' = [seen EXCEPT !.error = TRUE]
          /\ UNCHANGED <<notices, head, srv>>
       \/ /\ CommitRound(s) \/ HaveData(s) \/ NotifyCancelNeedMediaData(s)
          /\ UNCHANGED <<seen, notices, shown, head, srv>>
  BY Zenon DEF Feed
<1>7. CASE /\ DropRequest(s) \/ StarveRequest(s) \/ StartRound(s)
           /\ seen' = [seen EXCEPT !.requested = TRUE]
           /\ UNCHANGED <<notices, shown, head, srv>>
  <2>1. seen' \in FaultySeen /\ Unheard /\ (seen.error => seen'.error)
    BY <1>0, <1>7 DEF FaultySeen, Unheard
  <2>2. FaultyTypes'
    BY <1>0, <1>1, <1>7, <2>1 DEF FaultyTypes
  <2>3. Sends("none")
    BY <1>1, <1>2, <1>3, <1>5, <1>7, <2>1, <2>2 DEF Sends, Occurs
  <2> QED BY <1>1, <1>3, <1>7, <2>3 DEF FaultyFed
<1>8. CASE /\ AnswerStarved(s)
           /\ \E sent \in {<< >>, <<"UNDERFLOW">>} : Emit("starve", sent)
           /\ srv' = [srv EXCEPT !.starved = TRUE]
           /\ UNCHANGED <<seen, head>>
  <2>1. /\ srv' \in SrvType /\ srv'.state = srv.state /\ srv'.target = srv.target
        /\ srv'.property = srv.property
    BY <1>0, <1>8 DEF SrvType
  <2>2. Extended("starve") /\ Shows("starve") /\ (fault = RejectsSegment => shown' = shown)
    BY <1>0, <1>2, <1>8, EmitExtends
  <2>3. FaultyTypes'
    BY <1>0, <1>1, <1>8, <2>1, <2>2 DEF FaultyTypes, Extended, Shows
  <2>4. Sends("starve")
    BY <1>1, <1>2, <1>4, <1>8, <2>1, <2>2, <2>3 DEF Sends, Occurs
  <2> QED BY <1>1, <1>8, <2>1, <2>4 DEF FaultyFed
<1>9. CASE /\ AcceptSegment(s)
           /\ fault = RejectsSegment => shown
           /\ head' = [head EXCEPT ![s] = IF @ = None THEN cb.first + cb.accepted
                                                      ELSE @]
           /\ \/ UNCHANGED <<notices, shown>>
              \/ /\ srv.corrupt /\ seen.stateAtLastError = None
                 /\ \A k \in DOMAIN notices : notices[k] # "ERROR"
                 /\ Emit("error", <<"ERROR">>)
           /\ UNCHANGED <<seen, srv>>
  <2>1. cb \in Round
    BY <1>9, RoundTypes DEF Faulty, FeedInv, IInv, AcceptSegment
  <2>2. cb.first + cb.accepted \in Nat
    BY <2>1 DEF Round
  <2>3. head' \in [Sources -> Nat \cup {None}]
    BY <1>0, <1>9, <2>2
  <2>4. CASE UNCHANGED <<notices, shown>>
    <3>1. FaultyTypes'
      BY <1>0, <1>1, <1>9, <2>3, <2>4 DEF FaultyTypes
    <3>2. Sends("none")
      BY <1>1, <1>2, <1>3, <1>4, <1>5, <1>9, <2>4, <3>1 DEF Sends, Occurs
    <3> QED BY <1>1, <1>3, <1>9, <3>2 DEF FaultyFed
  <2>5. CASE /\ srv.corrupt /\ seen.stateAtLastError = None
             /\ \A k \in DOMAIN notices : notices[k] # "ERROR"
             /\ Emit("error", <<"ERROR">>)
    <3>1. /\ Extended("error") /\ Shows("error") /\ (fault = RejectsSegment => shown' = shown)
          /\ fault # Silences("error") => Has(notices', "ERROR")
      BY <1>0, <1>2, <2>5, EmitExtends
    <3>2. FaultyTypes'
      BY <1>0, <1>1, <1>9, <2>3, <3>1 DEF FaultyTypes, Extended, Shows
    <3>3. ~Coming("ERROR")
      BY <2>5 DEF Coming, Has
    <3>4. Sends("error")
      BY <1>1, <1>2, <1>3, <1>4, <1>9, <2>5, <3>1, <3>2, <3>3 DEF Sends, Occurs
    <3> QED BY <1>1, <1>3, <1>9, <3>4 DEF FaultyFed
  <2> QED BY <1>9, <2>4, <2>5
<1>10. CASE /\ RejectSegment(s, "NO_SPACE")
            /\ seen' = [seen EXCEPT !.noSpace = TRUE]
            /\ Emit("full", << >>)
            /\ UNCHANGED <<head, srv>>
  <2>1. seen' \in FaultySeen /\ Unheard /\ (seen.error => seen'.error)
    BY <1>0, <1>10 DEF FaultySeen, Unheard
  <2>2. Extended("full") /\ Shows("full") /\ (fault = RejectsSegment => shown' = shown)
    BY <1>0, <1>2, <1>10, EmitExtends
  <2>3. FaultyTypes'
    BY <1>0, <1>1, <1>10, <2>1, <2>2 DEF FaultyTypes, Extended, Shows
  <2>4. Sends("full")
    BY <1>1, <1>2, <1>3, <1>10, <2>1, <2>2, <2>3 DEF Sends, Occurs
  <2> QED BY <1>1, <1>3, <1>10, <2>4 DEF FaultyFed
<1>11. CASE /\ RejectSegment(s, "ERROR")
            /\ \/ outstanding[s] # cb.id /\ UNCHANGED shown
               \/ fault = RejectsSegment /\ ~shown /\ shown' = TRUE
            /\ seen' = [seen EXCEPT !.error = TRUE]
            /\ UNCHANGED <<notices, head, srv>>
  <2>1. /\ seen' \in FaultySeen /\ Unheard /\ seen'.error /\ ~allSegmentsAccepted'
        /\ cb.phase # "idle"
    BY <1>0, <1>11 DEF FaultySeen, Unheard, RejectSegment
  <2>2. shown' \in BOOLEAN /\ (fault # RejectsSegment => shown' = shown)
    BY <1>0, <1>11
  <2>3. fault.kind = "spoils" => fault # RejectsSegment
    BY DEF RejectsSegment, Fault
  <2>4. Extended("none") /\ Shows("none")
    <3>1. notices \in Seq(Notices) /\ Len(notices) \in Nat
      BY <1>0 DEF FaultyTypes
    <3> QED BY <1>11, <2>2, <2>3, <3>1 DEF Extended, Shows, Spoilt
  <2>5. FaultyTypes'
    BY <1>0, <1>1, <1>11, <2>1, <2>2 DEF FaultyTypes
  <2>6. Sends("none")
    BY <1>1, <1>2, <1>3, <1>11, <2>1, <2>4, <2>5 DEF Sends, Occurs
  <2> QED BY <1>1, <1>3, <1>11, <2>6 DEF FaultyFed
<1>12. CASE /\ CommitRound(s) \/ HaveData(s) \/ NotifyCancelNeedMediaData(s)
            /\ UNCHANGED <<seen, notices, shown, head, srv>>
  <2>1. FaultyTypes'
    BY <1>0, <1>1, <1>12 DEF FaultyTypes
  <2>2. Sends("none")
    BY <1>1, <1>2, <1>3, <1>4, <1>5, <1>12, <2>1 DEF Sends, Occurs
  <2> QED BY <1>1, <1>3, <1>12, <2>2 DEF FaultyFed
<1> QED BY <1>6, <1>7, <1>8, <1>9, <1>10, <1>11, <1>12

\* The client records the notification n, the first on its way.
Hears(n) ==
  /\ n = notices[1] /\ 1 \in DOMAIN notices /\ cb.phase = "idle"
  /\ UNCHANGED <<vars, fault, shown, tasks, srv, head>>
  /\ Len(notices) \in Nat /\ DOMAIN notices = 1 .. Len(notices)
  /\ \A i \in DOMAIN notices' : i + 1 \in DOMAIN notices /\ notices'[i] = notices[i + 1]
  /\ \A i \in DOMAIN notices : i = 1 \/ (i - 1 \in DOMAIN notices' /\ notices'[i - 1] = notices[i])
  /\ seen'.error = seen.error
  /\ IF n = "ERROR" THEN seen'.stateAtLastError = seen.lastState
                    ELSE seen'.stateAtLastError = seen.stateAtLastError
  /\ n \in PlaybackStates => seen'.lastState = n
  /\ n = "ERROR" => seen'.lastState = seen.lastState
  /\ \A m : Coming(m) <=> m = n \/ Has(notices', m)
  /\ \A m : Observed(m)' <=> Observed(m) \/ (m = n /\ n # "ERROR")
  /\ "FAILURE" \in seen.states => "FAILURE" \in seen'.states
  /\ FaultyTypes'

\* A notification is recorded for what it is.
LEMMA NotifyHears ==
  ASSUME FaultyTypes, Notify
  PROVE  \E n : Hears(n)
<1>1. /\ notices # << >> /\ notices' = Tail(notices) /\ cb.phase = "idle"
      /\ UNCHANGED <<vars, fault, shown, tasks, srv, head>>
      /\ seen' = CASE Head(notices) \in PlaybackStates -> NotifyPlaybackState(Head(notices))
                   [] Head(notices) = "ERROR"          -> NotifyPlaybackError
                   [] OTHER                            -> NotifyEvent(Head(notices))
  BY Zenon DEF Notify
<1>2. /\ seen \in FaultySeen /\ notices \in Seq(Notices) /\ tasks \in Seq(Tasks)
      /\ srv \in SrvType /\ head \in [Sources -> Nat \cup {None}] /\ shown \in BOOLEAN
  BY DEF FaultyTypes
<1>3. /\ Head(notices) \in Notices /\ notices' \in Seq(Notices)
      /\ Head(notices) = notices[1] /\ 1 \in DOMAIN notices
      /\ Len(notices) \in Nat /\ DOMAIN notices = 1 .. Len(notices)
      /\ \A i \in DOMAIN notices' : i + 1 \in DOMAIN notices /\ notices'[i] = notices[i + 1]
      /\ \A i \in DOMAIN notices :
           i = 1 \/ (i - 1 \in DOMAIN notices' /\ notices'[i - 1] = notices[i])
      /\ \A m : Coming(m) <=> m = Head(notices) \/ Has(notices', m)
  <2>1. notices \in Seq(Notices) /\ notices # << >> /\ notices' = Tail(notices)
    BY <1>1, <1>2
  <2> HIDE DEF Notices
  <2>2. /\ Head(notices) \in Notices /\ notices' \in Seq(Notices)
        /\ Head(notices) = notices[1] /\ 1 \in DOMAIN notices
        /\ Len(notices) \in Nat \ {0} /\ DOMAIN notices = 1 .. Len(notices)
        /\ \A i \in DOMAIN notices' : i + 1 \in DOMAIN notices /\ notices'[i] = notices[i + 1]
    BY <2>1, Removed
  <2>3. \A i \in DOMAIN notices :
          i = 1 \/ (i - 1 \in DOMAIN notices' /\ notices'[i - 1] = notices[i])
    BY <2>1, Removed
  <2>4. \A m : Has(notices, m) <=> m = Head(notices) \/ Has(notices', m)
    BY <2>1, Removed, Zenon
  <2> QED BY <2>2, <2>3, <2>4 DEF Coming
<1> DEFINE n == Head(notices)
<1>4. n \in PlaybackStates \/ n = "ERROR" \/ n \in Signals
  BY <1>3 DEF Notices
<1>5. /\ seen' \in FaultySeen /\ seen'.error = seen.error
      /\ IF n = "ERROR" THEN seen'.stateAtLastError = seen.lastState
                        ELSE seen'.stateAtLastError = seen.stateAtLastError
      /\ n \in PlaybackStates => seen'.lastState = n
      /\ n = "ERROR" => seen'.lastState = seen.lastState
      /\ seen'.states \cup seen'.events =
           seen.states \cup seen.events \cup (IF n = "ERROR" THEN {} ELSE {n})
      /\ seen.states \subseteq seen'.states
  <2>1. CASE n \in PlaybackStates
    <3>1. seen' = [seen EXCEPT !.states = @ \cup {n}, !.lastState = n] /\ n # "ERROR"
      BY <1>1, <2>1 DEF NotifyPlaybackState, PlaybackStates
    <3> HIDE DEF n
    <3> QED BY <1>2, <2>1, <3>1 DEF FaultySeen
  <2>2. CASE n = "ERROR"
    <3>1. seen' = [seen EXCEPT !.stateAtLastError = seen.lastState] /\ n \notin PlaybackStates
      BY <1>1, <2>2 DEF NotifyPlaybackError, PlaybackStates
    <3> HIDE DEF n
    <3> QED BY <1>2, <2>2, <3>1 DEF FaultySeen
  <2>3. CASE n \in Signals
    <3>1. /\ seen' = [seen EXCEPT !.events = @ \cup {n}]
          /\ n \notin PlaybackStates /\ n # "ERROR"
      BY <1>1, <2>3 DEF NotifyEvent, PlaybackStates, Signals
    <3> HIDE DEF n
    <3> QED BY <1>2, <2>3, <3>1 DEF FaultySeen
  <2> QED BY <1>4, <2>1, <2>2, <2>3
<1>6. FaultyTypes'
  BY <1>1, <1>2, <1>3, <1>5 DEF FaultyTypes
<1>7. \A m : Observed(m)' <=> Observed(m) \/ (m = n /\ n # "ERROR")
  BY <1>5 DEF Observed
<1> HIDE DEF n
<1>8. Hears(n)
  BY <1>1, <1>3, <1>5, <1>6, <1>7 DEF Hears, n
<1> QED BY <1>8

-----------------------------------------------------------------------------
(***************************************************************************)
(* A step of a case that has not failed.                                   *)
(***************************************************************************)

\* What a call that is not refused does to the server and to the feed.
Performed(op, value) ==
  /\ op \notin TaskOps => tasks' = tasks
  /\ op \in TaskOps => HasDo(tasks', TaskDo(op))
  /\ \A do : HasDo(tasks, do) => HasDo(tasks', do)
  /\ op \notin {"flush", "setPosition"} => head' = head
  /\ op \notin FeedOps => UNCHANGED vars
  /\ op \in FeedOps => FeedCall(op, value)

\* The case insists on the result of its next step.
Insists == Now.must \in {"hold", "abort"}

\* The case takes its next step, and whatever it insists on is as it has to be.
Passes ==
  /\ ~Finished /\ pc \in Nat /\ pc' = pc + 1 /\ case' = case /\ Script' = Script
  /\ Kinds(case, pc, Now)
  /\ Now.do \in {"call", "write"} =>
       IF fault = Refuses(Now.what) THEN ~Insists /\ UNCHANGED <<vars, tasks, srv, head>>
                                    ELSE Performed(Now.what, Now.value)
  /\ Now.do \notin {"call", "write"} => UNCHANGED <<vars, tasks, srv, head>>
  /\ Now.do \notin {"call", "write", "get"} => shown' = shown
  /\ Now.do = "get" /\ fault = Misanswers(Now.what) =>
       Now.value # CASE Now.what = "getDuration"     -> FALSE
                     [] Now.what = "rejectsUnissued" -> TRUE
                     [] OTHER                        -> srv.state # "IDLE"
  /\ Now.do = "await" => Observed(Now.what) \/ (~Insists /\ Settled(Short))
  /\ Now.do = "sleep" => Settled(Short)
  /\ Now.do \in {"poll", "pollIfSupported"} /\ Insists =>
       srv.property = Now.value \/ fault.kind = "lacks"
  /\ Now.do = "check" /\ Insists => Holds(Now.what)

\* A step that sends nothing.
LEMMA SilentSends ==
  ASSUME Faulty, fault' = fault, notices' = notices, shown' \in BOOLEAN,
         fault.kind = "spoils" \/ fault = RejectsSegment => shown' = shown,
         seen' \in FaultySeen, Unheard, seen'.error = seen.error,
         srv' \in SrvType, srv'.state = srv.state, srv'.property = srv.property,
         srv'.starved = srv.starved, tasks' \in Seq(Tasks),
         head' \in [Sources -> Nat \cup {None}]
  PROVE  Sends("none")
<1>1. FaultyTypes
  BY DEF Faulty
<1>2. notices \in Seq(Notices) /\ Len(notices) \in Nat
  BY <1>1 DEF FaultyTypes
<1>3. Extended("none") /\ Shows("none")
  BY <1>2 DEF Extended, Shows, Spoilt
<1>4. FaultyTypes'
  BY <1>2 DEF FaultyTypes
<1> QED BY <1>3, <1>4 DEF Sends, Occurs, Said

\* The tasks there are.
LEMMA ATask ==
  ASSUME NEW do \in {"PLAYING", "PAUSED", "STOPPED", "flush", "seek", "write"},
         NEW value \in BOOLEAN
  PROVE  Task(do, value) \in Tasks /\ Task(do, value).do = do
BY DEF Task, Tasks

\* A call that is not refused.
LEMMA PerformSends ==
  ASSUME Faulty, NEW op, NEW value \in BOOLEAN, Perform(op, value)
  PROVE  /\ Performed(op, value) /\ srv'.target = srv.target
         /\ \E event \in {"none", "load"} : Sends(event) /\ (op = "load" => event = "load")
<1>0. /\ FaultyTypes /\ SentByFault /\ seen \in FaultySeen /\ srv \in SrvType
      /\ shown \in BOOLEAN /\ head \in [Sources -> Nat \cup {None}] /\ tasks \in Seq(Tasks)
  BY DEF Faulty, FaultyTypes
<1> DEFINE Same == notices' = notices /\ fault' = fault /\ srv' = srv /\ shown' = shown
<1>1. ASSUME Same, seen' = seen, tasks' \in Seq(Tasks), head' \in [Sources -> Nat \cup {None}]
      PROVE  Sends("none") /\ srv'.target = srv.target
  <2>1. Unheard /\ seen' \in FaultySeen /\ seen'.error = seen.error
    BY <1>0, <1>1 DEF Unheard
  <2> QED BY <1>0, <1>1, <2>1, SilentSends
<1>2. CASE /\ \/ op = "setPipeline" /\ SetPipeline
              \/ op = "attachSource" /\ \E s \in Sources : AddAudioSource(s)
              \/ op = "allSourcesAttached" /\ AllSourcesAttached
              \/ op = "rewindSource" /\ \E s \in Sources : RewindSource(s)
              \/ op = "setWithhold" /\ SetWithhold(value)
              \/ op = "setStarve" /\ SetStarve(value)
              \/ op = "setOversupply" /\ SetOversupply(2)
           /\ UNCHANGED playbackVars
  <2>1. op \in FeedOps /\ op \notin TaskOps /\ op # "load"
    BY <1>2 DEF FeedOps, TaskOps
  <2>2. FeedCall(op, value)
    BY <1>2 DEF FeedCall
  <2>3. Same /\ seen' = seen /\ tasks' = tasks /\ head' = head
    BY <1>2 DEF playbackVars
  <2>4. Sends("none") /\ srv'.target = srv.target
    BY <1>0, <1>1, <2>3
  <2>5. Performed(op, value)
    BY <2>1, <2>2, <2>3 DEF Performed
  <2> QED BY <2>1, <2>4, <2>5
<1>3. CASE /\ op = "load"
           /\ Emit("load", <<"BUFFERING">>)
           /\ UNCHANGED <<vars, fault, seen, tasks, srv, head>>
  <2>1. "load" \in DOMAIN Said /\ "BUFFERING" \in Said["load"]
    BY DEF Said
  <2>2. Extended("load") /\ Shows("load") /\ (fault = RejectsSegment => shown' = shown)
    BY <1>0, <1>3, <2>1, EmitExtends
  <2>3. FaultyTypes'
    BY <1>0, <1>3, <2>2 DEF FaultyTypes, Extended, Shows
  <2>4. Sends("load")
    BY <1>0, <1>3, <2>1, <2>2, <2>3 DEF Sends, Occurs, Unheard
  <2>5. Performed(op, value)
    BY <1>3 DEF Performed, FeedOps, TaskOps
  <2> QED BY <1>3, <2>4, <2>5
<1>4. CASE /\ \/ op = "play" /\ tasks' = Append(tasks, Task("PLAYING", TRUE))
              \/ op = "pause" /\ tasks' = Append(tasks, Task("PAUSED", TRUE))
              \/ op = "stop" /\ tasks' = Append(tasks, Task("STOPPED", TRUE))
              \/ op = "property" /\ tasks' = Append(tasks, Task("write", value))
           /\ UNCHANGED <<vars, fault, shown, seen, notices, srv, head>>
  <2>1. op \notin FeedOps /\ op \in TaskOps /\ op \notin {"load", "flush", "setPosition"}
    BY <1>4 DEF FeedOps, TaskOps
  <2>2. PICK t \in Tasks : tasks' = Append(tasks, t) /\ t.do = TaskDo(op)
    <3>1. CASE op = "play" /\ tasks' = Append(tasks, Task("PLAYING", TRUE))
      BY <3>1, ATask DEF TaskDo
    <3>2. CASE op = "pause" /\ tasks' = Append(tasks, Task("PAUSED", TRUE))
      BY <3>2, ATask DEF TaskDo
    <3>3. CASE op = "stop" /\ tasks' = Append(tasks, Task("STOPPED", TRUE))
      BY <3>3, ATask DEF TaskDo
    <3>4. CASE op = "property" /\ tasks' = Append(tasks, Task("write", value))
      BY <3>4, ATask DEF TaskDo
    <3> QED BY <1>4, <3>1, <3>2, <3>3, <3>4
  <2>3. /\ tasks' \in Seq(Tasks)
        /\ \A do : HasDo(tasks', do) <=> HasDo(tasks, do) \/ t.do = do
    <3> HIDE DEF Tasks
    <3> QED BY <1>0, <2>2, Added
  <2>4. Sends("none") /\ srv'.target = srv.target
    BY <1>0, <1>1, <1>4, <2>3
  <2>5. Performed(op, value)
    BY <1>4, <2>1, <2>2, <2>3 DEF Performed
  <2> QED BY <2>1, <2>4, <2>5
<1>5. CASE /\ op \in {"flush", "setPosition"}
           /\ \E s \in Sources : FlushSource(s) /\ head' = [head EXCEPT ![s] = None]
           /\ tasks' = Append(tasks, Task(IF op = "flush" THEN "flush" ELSE "seek", TRUE))
           /\ UNCHANGED <<fault, shown, seen, notices, srv>>
  <2>1. op \in FeedOps /\ op \in TaskOps /\ op # "load"
    BY <1>5 DEF FeedOps, TaskOps
  <2>2. FeedCall(op, value)
    BY <1>5 DEF FeedCall
  <2>3. PICK t \in Tasks : tasks' = Append(tasks, t) /\ t.do = TaskDo(op)
    <3>1. CASE op = "flush"
      BY <1>5, <3>1, ATask DEF TaskDo
    <3>2. CASE op = "setPosition"
      BY <1>5, <3>2, ATask DEF TaskDo
    <3> QED BY <1>5, <3>1, <3>2
  <2>4. /\ tasks' \in Seq(Tasks)
        /\ \A do : HasDo(tasks', do) <=> HasDo(tasks, do) \/ t.do = do
    <3> HIDE DEF Tasks
    <3> QED BY <1>0, <2>3, Added
  <2>5. head' \in [Sources -> Nat \cup {None}]
    BY <1>0, <1>5
  <2>6. Sends("none") /\ srv'.target = srv.target
    BY <1>1, <1>5, <2>4, <2>5
  <2>7. Performed(op, value)
    BY <1>5, <2>1, <2>2, <2>3, <2>4 DEF Performed
  <2> QED BY <2>1, <2>6, <2>7
<1>6. CASE /\ op = "setCorruptEvery"
           /\ srv' = [srv EXCEPT !.corrupt = TRUE]
           /\ UNCHANGED <<vars, fault, shown, seen, notices, tasks, head>>
  <2>1. op \notin FeedOps /\ op \notin TaskOps
    BY <1>6 DEF FeedOps, TaskOps
  <2>2. /\ srv' \in SrvType /\ srv'.state = srv.state /\ srv'.property = srv.property
        /\ srv'.starved = srv.starved /\ srv'.target = srv.target
    BY <1>0, <1>6 DEF SrvType
  <2>3. Sends("none")
    BY <1>0, <1>6, <2>2, SilentSends DEF Unheard
  <2>4. Performed(op, value)
    BY <1>6, <2>1 DEF Performed
  <2> QED BY <1>6, <2>2, <2>3, <2>4
<1>7. CASE /\ op = "forgetRequests"
           /\ seen' = [seen EXCEPT !.requested = FALSE]
           /\ UNCHANGED <<vars, fault, shown, notices, tasks, srv, head>>
  <2>1. op \notin FeedOps /\ op \notin TaskOps
    BY <1>7 DEF FeedOps, TaskOps
  <2>2. seen' \in FaultySeen /\ Unheard /\ seen'.error = seen.error
    BY <1>0, <1>7 DEF FaultySeen, Unheard
  <2>3. Sends("none")
    BY <1>0, <1>7, <2>2, SilentSends
  <2>4. Performed(op, value)
    BY <1>7, <2>1 DEF Performed
  <2> QED BY <1>7, <2>3, <2>4
<1>8. CASE /\ op \in {"setVideoWindow", "setSourcePosition", "processAudioGap", "renderFrame",
                      "setLowLatency", "setSyncOff", "switchSource", "setPlaybackRate",
                      "setStartPosition"}
           /\ UNCHANGED <<vars, playbackVars>>
  <2>1. op \notin FeedOps /\ op \notin TaskOps /\ op # "load"
    BY <1>8 DEF FeedOps, TaskOps
  <2>2. Same /\ seen' = seen /\ tasks' = tasks /\ head' = head
    BY <1>8 DEF playbackVars
  <2>3. Sends("none") /\ srv'.target = srv.target
    BY <1>0, <1>1, <2>2
  <2>4. Performed(op, value)
    BY <1>8, <2>1, <2>2 DEF Performed
  <2> QED BY <2>1, <2>3, <2>4
<1> QED BY <1>2, <1>3, <1>4, <1>5, <1>6, <1>7, <1>8, Zenon DEF Perform

\* A result that does not fail the case is one it does not insist on, or as it has to be.
LEMMA JudgedPasses ==
  ASSUME WalkInv, ~Finished, NEW ok, Judge(Script, ok), ~failed'
  PROVE  /\ Insists => ok
         /\ pc \in Nat /\ pc' = pc + 1 /\ case' = case /\ Script' = Script
         /\ Kinds(case, pc, Now)
<1>1. /\ failed' = (failed \/ (~ok /\ Now.must \in {"hold", "abort"}))
      /\ pc' = IF ~ok /\ Now.must = "abort" THEN Aftermath(Script) ELSE pc + 1
  BY Zenon DEF Judge, Now
<1>2. Insists => ok
  BY <1>1 DEF Insists
<1>3. pc' = pc + 1
  BY <1>1, <1>2 DEF Insists
<1> QED BY <1>2, <1>3, Judged, AtStep

\* A step that only reads changes nothing.
LEMMA ReadSends ==
  ASSUME Faulty, UNCHANGED <<vars, playbackVars>>
  PROVE  /\ Sends("none") /\ UNCHANGED <<vars, tasks, srv, head>> /\ shown' = shown
<1>1. /\ seen \in FaultySeen /\ srv \in SrvType /\ shown \in BOOLEAN
      /\ head \in [Sources -> Nat \cup {None}] /\ tasks \in Seq(Tasks)
  BY DEF Faulty, FaultyTypes
<1>2. UNCHANGED <<shown, fault, seen, notices, tasks, srv, head>>
  BY DEF playbackVars
<1>3. Unheard /\ seen'.error = seen.error
  BY <1>2 DEF Unheard
<1> QED BY <1>1, <1>2, <1>3, SilentSends

\* A step of a case that has not failed passes, and sends what a load sends at most.
LEMMA TestPasses ==
  ASSUME Faulty, TestCase, ~failed'
  PROVE  /\ Passes /\ srv'.target = srv.target
         /\ \E event \in {"none", "load"} :
              /\ Sends(event)
              /\ Now.do = "call" /\ Now.what = "load" /\ fault # Refuses("load")
                   => event = "load"
<1>0. /\ ~Finished /\ WalkInv /\ FaultyTypes
      /\ seen \in FaultySeen /\ srv \in SrvType /\ shown \in BOOLEAN
      /\ head \in [Sources -> Nat \cup {None}] /\ tasks \in Seq(Tasks)
  BY DEF TestCase, Faulty, FaultyTypes
<1> DEFINE Moved == /\ pc \in Nat /\ pc' = pc + 1 /\ case' = case /\ Script' = Script
                    /\ Kinds(case, pc, Now)
<1>1. \A ok : Judge(Script, ok) => Moved /\ (Insists => ok)
  <2> SUFFICES ASSUME NEW ok, Judge(Script, ok)
               PROVE  Moved /\ (Insists => ok)
    OBVIOUS
  <2>1. /\ Insists => ok
        /\ pc \in Nat /\ pc' = pc + 1 /\ case' = case /\ Script' = Script
        /\ Kinds(case, pc, Now)
    BY <1>0, JudgedPasses
  <2> QED BY <2>1
<1>2. Kinds(case, pc, Now)
  BY <1>0, AtStep
<1>3. UNCHANGED <<vars, playbackVars>> =>
        /\ Sends("none") /\ UNCHANGED <<vars, tasks, srv, head>> /\ shown' = shown
  BY ReadSends
<1>4. \A ok : Assert(ok) => Moved /\ (Insists => ok) /\ UNCHANGED <<vars, playbackVars>>
  BY <1>1 DEF Assert
<1>5. CASE CallStep
  <2>1. Now.do \in {"call", "write"} /\ Now.value \in BOOLEAN
    BY <1>2, <1>5 DEF CallStep, Kinds
  <2>2. CASE fault = Refuses(Now.what)
    <3>1. /\ shown' = TRUE /\ Judge(Script, FALSE)
          /\ UNCHANGED <<vars, fault, seen, notices, tasks, srv, head>>
      BY <1>5, <2>2 DEF CallStep
    <3>2. Moved /\ ~Insists
      BY <1>1, <3>1
    <3>3. fault.kind # "spoils" /\ fault # RejectsSegment
      BY <2>2 DEF Refuses, RejectsSegment, Fault
    <3>4. Unheard /\ seen'.error = seen.error
      BY <3>1 DEF Unheard
    <3>5. Sends("none")
      BY <1>0, <3>1, <3>3, <3>4, SilentSends
    <3>6. Passes
      BY <1>0, <2>1, <2>2, <3>1, <3>2 DEF Passes
    <3> QED BY <2>2, <3>1, <3>5, <3>6
  <2>3. CASE fault # Refuses(Now.what)
    <3>1. Perform(Now.what, Now.value) /\ Judge(Script, TRUE)
      BY <1>5, <2>3 DEF CallStep
    <3>2. /\ Performed(Now.what, Now.value) /\ srv'.target = srv.target
          /\ \E event \in {"none", "load"} :
               Sends(event) /\ (Now.what = "load" => event = "load")
      BY <2>1, <3>1, PerformSends
    <3>3. Moved
      BY <1>1, <3>1
    <3>4. Passes
      BY <1>0, <2>1, <2>3, <3>2, <3>3 DEF Passes
    <3> QED BY <3>2, <3>4
  <2> QED BY <2>2, <2>3
<1>6. CASE GetStep
  <2> DEFINE answer == CASE Now.what = "getDuration"     -> FALSE
                         [] Now.what = "rejectsUnissued" -> TRUE
                         [] OTHER                        -> srv.state # "IDLE"
             answered == IF Answering(Now.what) THEN answer ELSE ~answer
  <2>1. /\ Now.do = "get" /\ Judge(Script, answered = Now.value)
        /\ shown' = (shown \/ answered # answer)
        /\ UNCHANGED <<vars, fault, seen, notices, tasks, srv, head>>
    BY <1>6, Zenon DEF GetStep
  <2>2. Now.must = "hold" /\ Insists
    BY <1>2, <2>1 DEF Kinds, Insists
  <2>3. Moved /\ answered = Now.value
    BY <1>1, <2>1, <2>2
  <2>4. fault.kind = "spoils" \/ fault = RejectsSegment => Answering(Now.what)
    BY DEF Answering, Misanswers, RejectsSegment, Fault
  <2>5. shown' \in BOOLEAN /\ (Answering(Now.what) => shown' = shown)
    BY <1>0, <2>1
  <2>6. Unheard /\ seen'.error = seen.error
    BY <2>1 DEF Unheard
  <2>7. Sends("none")
    BY <1>0, <2>1, <2>4, <2>5, <2>6, SilentSends
  <2>8. fault = Misanswers(Now.what) => Now.value # answer
    <3>1. fault = Misanswers(Now.what) => Now.value = ~answer
      BY <2>3 DEF Answering
    <3>2. (~answer) # answer
      BY Zenon
    <3> HIDE DEF answer
    <3> QED BY <3>1, <3>2
  <2> HIDE DEF answered
  <2>9. Passes
    BY <1>0, <2>1, <2>3, <2>8 DEF Passes
  <2> QED BY <2>1, <2>7, <2>9
<1>7. CASE AwaitStep
  <2>1. Now.do = "await"
    BY <1>7 DEF AwaitStep
  <2>2. /\ Moved /\ UNCHANGED <<vars, playbackVars>>
        /\ Observed(Now.what) \/ (~Insists /\ Settled(Short))
    BY <1>4, <1>7 DEF AwaitStep, TimedOut
  <2>3. Passes
    BY <1>0, <1>3, <2>1, <2>2 DEF Passes
  <2> QED BY <1>3, <2>1, <2>2, <2>3
<1>8. CASE PollStep
  <2>1. Now.do = "poll"
    BY <1>8 DEF PollStep
  <2>2. /\ Moved /\ UNCHANGED <<vars, playbackVars>>
        /\ Insists => srv.property = Now.value
    BY <1>4, <1>8 DEF PollStep, PollUntilApplied
  <2>3. Passes
    BY <1>0, <1>3, <2>1, <2>2 DEF Passes
  <2> QED BY <1>3, <2>1, <2>2, <2>3
<1>9. CASE PollIfSupportedStep
  <2>1. Now.do = "pollIfSupported"
    BY <1>9 DEF PollIfSupportedStep
  <2>2. /\ Moved /\ UNCHANGED <<vars, playbackVars>>
        /\ Insists => srv.property = Now.value \/ fault.kind = "lacks"
    BY <1>4, <1>9 DEF PollIfSupportedStep
  <2>3. Passes
    BY <1>0, <1>3, <2>1, <2>2 DEF Passes
  <2> QED BY <1>3, <2>1, <2>2, <2>3
<1>10. CASE CheckStep
  <2>1. Now.do = "check"
    BY <1>10 DEF CheckStep
  <2>2. /\ Moved /\ UNCHANGED <<vars, playbackVars>>
        /\ Insists => Holds(Now.what)
    BY <1>4, <1>10 DEF CheckStep
  <2>3. Passes
    BY <1>0, <1>3, <2>1, <2>2 DEF Passes
  <2> QED BY <1>3, <2>1, <2>2, <2>3
<1>11. CASE SleepStep
  <2>1. Now.do = "sleep"
    BY <1>11 DEF SleepStep
  <2>2. /\ Moved /\ UNCHANGED <<vars, playbackVars>>
        /\ Settled(Short)
    BY <1>4, <1>11 DEF SleepStep
  <2>3. Passes
    BY <1>0, <1>3, <2>1, <2>2 DEF Passes
  <2> QED BY <1>3, <2>1, <2>2, <2>3
<1> QED BY <1>5, <1>6, <1>7, <1>8, <1>9, <1>10, <1>11 DEF TestCase

-----------------------------------------------------------------------------
(***************************************************************************)
(* What has been seen, and what is missing: SeenInv and MissingInv.        *)
(***************************************************************************)

\* What is ahead stays ahead while a notification is recorded; only an error is not kept.
LEMMA AheadHeard ==
  ASSUME NEW n, Hears(n)
  PROVE  \A m : m # "ERROR" => (Ahead(m)' <=> Ahead(m))
<1>1. \A m : Coming(m)' <=> Has(notices', m)
  BY DEF Coming
<1> QED BY <1>1 DEF Hears, Ahead

\* What is ahead once the server has sent what an event says.
LEMMA AheadSent ==
  ASSUME NEW event, Sends(event)
  PROVE  /\ fault' = fault
         /\ \A m : Observed(m)' <=> Observed(m)
         /\ \A m : Ahead(m) => Ahead(m)'
         /\ Spoilt(event) => \A m : m = fault.by => Ahead(m)'
         /\ \A m : Ahead(m)' => \/ Ahead(m) \/ (Spoilt(event) /\ m = fault.by)
                                \/ (m \in Said[event] /\ fault # Silences(event))
<1>1. /\ fault' = fault /\ Extended(event) /\ Unheard
  BY DEF Sends
<1>2. \A m : Observed(m)' <=> Observed(m)
  BY <1>1 DEF Unheard, Observed
<1>3. \A m : Coming(m)' <=> Has(notices', m)
  BY DEF Coming
<1>4. /\ \A m : Coming(m) => Has(notices', m)
      /\ Spoilt(event) => Has(notices', fault.by)
      /\ \A m : Has(notices', m) => \/ Coming(m) \/ (Spoilt(event) /\ m = fault.by)
                                    \/ (m \in Said[event] /\ fault # Silences(event))
  BY <1>1, ExtendedComing
<1> QED BY <1>1, <1>2, <1>3, <1>4, Zenon DEF Ahead

\* SeenInv, as a notification is recorded.
LEMMA SeenHeard ==
  ASSUME SeenInv, NEW n, Hears(n), Stays
  PROVE  SeenInv'
<1>1. Ahead("PLAYING")' <=> Ahead("PLAYING")
  BY AheadHeard
<1>2. \A m : Observed(m) => Observed(m)'
  BY DEF Hears
<1> QED BY <1>1, <1>2 DEF SeenInv, Hears, Stays

\* SeenInv, as the server sends, and as the case goes past a wait it insists on.
LEMMA SeenSent ==
  ASSUME SeenInv, SentByFault, NEW event, Sends(event), Stays \/ Passes
  PROVE  SeenInv'
<1>1. \A m : Observed(m)' <=> Observed(m)
  BY AheadSent
<1>2. Ahead("PLAYING")' => srv'.state # "IDLE"
  <2>1. \/ Ahead("PLAYING") \/ (Spoilt(event) /\ "PLAYING" = fault.by)
        \/ "PLAYING" \in Said[event]
        \/ ~Ahead("PLAYING")'
    BY AheadSent
  <2>2. CASE Ahead("PLAYING")
    BY <2>2 DEF SeenInv, Sends, Occurs
  <2>3. ~(Spoilt(event) /\ "PLAYING" = fault.by)
    BY DEF Spoilt, SentByFault
  <2>4. CASE "PLAYING" \in Said[event]
    <3>1. event = "play"
      BY <2>4 DEF Said, Sends
    <3> QED BY <3>1 DEF Sends, Occurs
  <2> QED BY <2>1, <2>2, <2>3, <2>4
<1>3. CASE Stays
  BY <1>1, <1>2, <1>3 DEF SeenInv, Stays
<1>4. CASE Passes
  <2>1. pc \in Nat /\ pc' = pc + 1 /\ Script' = Script /\ Kinds(case, pc, Now)
    BY <1>4 DEF Passes
  <2>2. ASSUME NEW k \in 1 .. pc' - 1, Script'[k].do = "await", Script'[k].must # "ignored"
        PROVE  Observed(Script[k].what)'
    <3>1. CASE k = pc
      <4>1. Now = Script[pc] /\ Now.do = "await" /\ Now.must # "ignored"
        BY <2>1, <2>2, <3>1 DEF Now
      <4>2. Insists
        BY <2>1, <4>1 DEF Kinds, Insists
      <4>3. Observed(Now.what)
        BY <1>4, <4>1, <4>2 DEF Passes
      <4>4. Observed(Script[k].what)
        BY <3>1, <4>1, <4>3
      <4>5. Observed(Script[k].what)' <=> Observed(Script[k].what)
        BY <1>4, <2>1 DEF Sends, Unheard, Observed
      <4> QED BY <4>4, <4>5
    <3>2. CASE k # pc
      <4>1. k \in 1 .. pc - 1
        BY <2>1, <2>2, <3>2
      <4>2. Observed(Script[k].what)
        BY <2>1, <2>2, <4>1 DEF SeenInv
      <4>3. Observed(Script[k].what)' <=> Observed(Script[k].what)
        BY <2>1 DEF Sends, Unheard, Observed
      <4> QED BY <4>2, <4>3
    <3> QED BY <3>1, <3>2
  <2> QED BY <1>2, <2>2 DEF SeenInv
<1> QED BY <1>3, <1>4

\* MissingInv, as a notification is recorded.
LEMMA MissingHeard ==
  ASSUME MissingInv, NEW n, Hears(n)
  PROVE  MissingInv'
<1>1. \A event \in DOMAIN Announced : Ahead(Announced[event])' => Ahead(Announced[event])
  <2>1. \A event \in DOMAIN Announced : Announced[event] # "ERROR"
    BY DEF Announced
  <2> QED BY <2>1, AheadHeard
<1>2. fault' = fault /\ srv' = srv
  BY DEF Hears
<1> QED BY <1>1, <1>2 DEF MissingInv

\* MissingInv, as the server sends.
LEMMA MissingSent ==
  ASSUME MissingInv, NEW event, Sends(event)
  PROVE  MissingInv'
<1>1. fault' = fault /\ event \in DOMAIN Said
  BY DEF Sends
<1>2. fault.kind = "ignores" => srv'.property = FALSE
  BY DEF Sends, MissingInv
<1>3. ASSUME NEW e \in DOMAIN Announced, fault = Silences(e)
      PROVE  ~Ahead(Announced[e])'
  <2>1. ~Ahead(Announced[e])
    BY <1>3 DEF MissingInv
  <2>2. ~Spoilt(event)
    BY <1>3 DEF Spoilt, Silences, Fault
  <2>3. Announced[e] \in Said[event] => event = e
    BY <1>1 DEF Announced, Said
  <2> QED BY <1>3, <2>1, <2>2, <2>3, AheadSent
<1> QED BY <1>1, <1>2, <1>3 DEF MissingInv

-----------------------------------------------------------------------------
(***************************************************************************)
(* What spoils an event comes before it: SpoilInv.                         *)
(***************************************************************************)

\* What comes first is recorded first.
LEMMA FirstHeard ==
  ASSUME NEW x, NEW m, x # "ERROR", m # "ERROR", First(x, m), NEW n, Hears(n)
  PROVE  First(x, m)'
<1>1. /\ \A y : y # "ERROR" => (Observed(y)' <=> Observed(y) \/ y = n)
      /\ n = notices[1] /\ 1 \in DOMAIN notices
      /\ Len(notices) \in Nat /\ DOMAIN notices = 1 .. Len(notices)
      /\ \A i \in DOMAIN notices' : i + 1 \in DOMAIN notices /\ notices'[i] = notices[i + 1]
      /\ \A i \in DOMAIN notices :
           i = 1 \/ (i - 1 \in DOMAIN notices' /\ notices'[i - 1] = notices[i])
  BY DEF Hears
<1>2. n = m => Observed(x)
  <2> SUFFICES ASSUME n = m PROVE Observed(x)
    OBVIOUS
  <2>1. Observed(x) \/ \E j \in DOMAIN notices : j < 1 /\ notices[j] = x
    BY <1>1 DEF First
  <2> QED BY <1>1, <2>1
<1>3. Observed(m)' => Observed(x)'
  BY <1>1, <1>2 DEF First
<1>4. ASSUME NEW i \in DOMAIN notices', notices'[i] = m
      PROVE  Observed(x)' \/ \E j \in DOMAIN notices' : j < i /\ notices'[j] = x
  <2>1. i + 1 \in DOMAIN notices /\ notices[i + 1] = m /\ i \in Int
    BY <1>1, <1>4
  <2>2. Observed(x) \/ \E j \in DOMAIN notices : j < i + 1 /\ notices[j] = x
    BY <2>1 DEF First
  <2>3. CASE Observed(x)
    BY <1>1, <2>3
  <2>4. ASSUME NEW j \in DOMAIN notices, j < i + 1, notices[j] = x
        PROVE  Observed(x)' \/ \E k \in DOMAIN notices' : k < i /\ notices'[k] = x
    <3>1. CASE j = 1
      BY <1>1, <2>4, <3>1
    <3>2. CASE j # 1
      <4>1. j - 1 \in DOMAIN notices' /\ notices'[j - 1] = x
        BY <1>1, <2>4, <3>2
      <4>2. j - 1 < i
        BY <1>1, <2>1, <2>4
      <4> QED BY <4>1, <4>2
    <3> QED BY <3>1, <3>2
  <2> QED BY <2>2, <2>3, <2>4
<1> QED BY <1>3, <1>4 DEF First

\* What spoils an event comes first of all that is said at it, or later.
LEMMA FirstSent ==
  ASSUME FaultyTypes, NEW event, Sends(event), shown => Ahead(fault.by), NEW m, m # fault.by,
         First(fault.by, m), m \in Said[event] => Spoilt(event) \/ shown
  PROVE  First(fault.by, m)'
<1>1. /\ fault' = fault /\ Extended(event) /\ \A y : Observed(y)' <=> Observed(y)
  BY AheadSent DEF Sends
<1>2. /\ Len(notices) \in Nat /\ DOMAIN notices = 1 .. Len(notices)
      /\ notices' \in Seq(Notices)
  BY <1>1 DEF FaultyTypes, Extended
<1>3. DOMAIN notices' \subseteq Nat
  BY <1>2
<1> DEFINE x == fault.by
<1>4. x' = x
  BY <1>1
<1>5. Observed(m)' => Observed(x)'
  BY <1>1, <1>4 DEF First
<1>6. ASSUME NEW i \in DOMAIN notices', notices'[i] = m
      PROVE  Observed(x) \/ \E j \in DOMAIN notices' : j < i /\ notices'[j] = x
  <2>1. CASE i \in DOMAIN notices
    <3>1. notices[i] = m
      BY <1>1, <1>6, <2>1 DEF Extended
    <3>2. Observed(x) \/ \E j \in DOMAIN notices : j < i /\ notices[j] = x
      BY <2>1, <3>1 DEF First
    <3> QED BY <1>1, <3>2 DEF Extended
  <2>2. CASE i \notin DOMAIN notices
    <3>1. /\ m \in Said[event]
          /\ i = Len(notices) + (IF Spoilt(event) THEN 2 ELSE 1)
      BY <1>1, <1>6, <2>2 DEF Extended
    <3>2. CASE Spoilt(event)
      <4>1. Len(notices) + 1 \in DOMAIN notices' /\ notices'[Len(notices) + 1] = x
        BY <1>1, <3>2 DEF Extended
      <4> QED BY <1>2, <3>1, <3>2, <4>1
    <3>3. CASE shown /\ ~Spoilt(event)
      <4>1. Observed(x) \/ \E j \in DOMAIN notices : notices[j] = x
        BY <3>3 DEF Ahead, Coming, Has
      <4>2. \A j \in DOMAIN notices : j < i /\ j \in DOMAIN notices' /\ notices'[j] = notices[j]
        BY <1>1, <1>2, <3>1, <3>3 DEF Extended
      <4> QED BY <4>1, <4>2
    <3> QED BY <3>1, <3>2, <3>3
  <2> QED BY <2>1, <2>2
<1>7. Observed(x) => Observed(x)'
  BY <1>1, <1>4
<1> QED BY <1>4, <1>5, <1>6, <1>7 DEF First

\* What is said at such an event is told from what spoils it.
LEMMA MilestonesDiffer ==
  ASSUME SentByFault, fault.kind = "spoils"
  PROVE  /\ fault.by # "ERROR"
         /\ \A e \in DOMAIN Milestone : Milestone[e] # fault.by /\ Milestone[e] # "ERROR"
BY DEF SentByFault, Milestone

\* SpoilInv, as a notification is recorded.
LEMMA SpoilHeard ==
  ASSUME SentByFault, SpoilInv, NEW n, Hears(n), Stays
  PROVE  SpoilInv'
<1> SUFFICES ASSUME fault.kind = "spoils" PROVE SpoilInv'
  BY DEF SpoilInv, Hears
<1>1. /\ fault' = fault /\ shown' = shown /\ srv' = srv /\ tasks' = tasks /\ pc' = pc
      /\ \A y : Observed(y) => Observed(y)'
  BY DEF Hears, Stays
<1>2. fault.by # "ERROR" /\ \A e \in DOMAIN Milestone : Milestone[e] # "ERROR"
  BY MilestonesDiffer
<1>3. Ahead(fault.by)' <=> Ahead(fault.by)
  <2>1. \A m : m = fault.by => (Ahead(m)' <=> Ahead(m))
    BY <1>2, AheadHeard
  <2> QED BY <1>1, <2>1 DEF Ahead, Coming, Observed
<1>4. Due("flush")' <=> Due("flush")
  BY <1>1 DEF Due
<1>5. fault.what \in DOMAIN Milestone => First(fault.by, Milestone[fault.what])'
  <2> SUFFICES ASSUME fault.what \in DOMAIN Milestone
               PROVE  First(fault.by, Milestone[fault.what])'
    OBVIOUS
  <2> DEFINE x == fault.by
             m == Milestone[fault.what]
  <2>1. x # "ERROR" /\ m # "ERROR" /\ First(x, m) /\ x' = x /\ m' = m
    BY <1>1, <1>2 DEF SpoilInv
  <2> HIDE DEF x, m
  <2>2. \A y, z : y = x /\ z = m => First(y, z)'
    BY <2>1, FirstHeard
  <2> QED BY <2>1, <2>2 DEF x, m, First, Observed
<1>6. Observed(fault.by) => Observed(fault.by)'
  BY <1>1 DEF Observed
<1> QED BY <1>1, <1>3, <1>4, <1>5, <1>6 DEF SpoilInv

\* Where the case that looks for BUFFERING loads.
LEMMA CleanPlaces ==
  ASSUME case = Clean, pc = 2
  PROVE  Now.do = "call" /\ Now.what = "load"
<1>1. Now = Setup("load")
  BY ScriptCleanRunNetworkStateVocabulary DEF Now, Script, Clean
<1> QED BY <1>1 DEF Setup, Step

\* The tasks left, as the server sends and as the case goes on.
Leaves(event) == Due("flush") => Due("flush")' \/ event = "flush"

\* A step of the case takes no task away.
LEMMA PassesLeaves ==
  ASSUME Passes, NEW event
  PROVE  Leaves(event)
<1>1. CASE tasks' = tasks
  BY <1>1 DEF Leaves, Due
<1>2. CASE Performed(Now.what, Now.value)
  BY <1>2 DEF Performed, Leaves, Due
<1> QED BY <1>1, <1>2 DEF Passes

\* By the time a milestone is announced, what spoils it has been sent.
LEMMA MilestoneSent ==
  ASSUME SetUpInv, SpoilInv, WalkInv, fault.kind = "spoils", fault.what \in DOMAIN Milestone,
         FaultKinds(case, fault), NEW event, Sends(event),
         Milestone[fault.what] \in Said[event]
  PROVE  Spoilt(event) \/ shown
<1>0. pc \in Nat /\ event \in DOMAIN Said /\ Occurs(event)
  BY PcIsNat DEF Sends
<1>1. CASE fault.what = "preroll"
  <2>1. event = "play"
    BY <1>0, <1>1 DEF Milestone, Said
  <2>2. srv.state = "PAUSED"
    BY <1>0, <2>1 DEF Occurs
  <2> QED BY <1>1, <2>2 DEF SpoilInv
<1>2. CASE fault.what = "load"
  <2>1. event = "eos"
    BY <1>0, <1>2 DEF Milestone, Said
  <2>2. srv.state = "PLAYING"
    BY <1>0, <2>1 DEF Occurs
  <2>3. pc > ReachedAt - 2
    BY <2>2 DEF SetUpInv
  <2>4. pc > 2
    BY <1>0, <2>3 DEF ReachedAt, ReachAt
  <2> QED BY <1>2, <2>4 DEF SpoilInv
<1>3. CASE fault.what \in {"play", "eos", "seek", "seekDone", "starve"}
  <2>1. event = fault.what
    BY <1>0, <1>3 DEF Milestone, Said
  <2> QED BY <1>3, <2>1 DEF Spoilt
<1> QED BY <1>1, <1>2, <1>3 DEF Milestone

\* SpoilInv, as the server sends, and as the case goes on.
LEMMA SpoilSent ==
  ASSUME Faulty, SetUpInv, SpoilInv, fault.kind = "spoils" => FaultKinds(case, fault),
         NEW event, Sends(event), Leaves(event),
         \/ Stays
         \/ /\ Passes
            /\ Now.do = "call" /\ Now.what = "load" /\ fault # Refuses("load") => event = "load"
  PROVE  SpoilInv'
<1>0. fault' = fault
  BY DEF Sends
<1> SUFFICES ASSUME fault.kind = "spoils" PROVE SpoilInv'
  BY <1>0 DEF SpoilInv
<1>1. /\ FaultKinds(case, fault) /\ SentByFault /\ WalkInv /\ FaultyTypes /\ pc \in Nat
      /\ event \in DOMAIN Said /\ Occurs(event)
  BY PcIsNat DEF Faulty, Sends
<1>2. /\ \A m : Observed(m)' <=> Observed(m)
      /\ \A m : Ahead(m) => Ahead(m)'
      /\ Spoilt(event) => \A m : m = fault.by => Ahead(m)'
  BY AheadSent
<1>3. shown' = (shown \/ Spoilt(event))
  BY DEF Sends, Shows
<1>4. \A x : fault = Refuses(x) => FALSE
  BY DEF Refuses, Fault
<1>5. event = fault.what /\ event # "none" => Spoilt(event) \/ shown
  BY DEF Spoilt
<1>13. (Stays /\ pc' = pc) \/ (Passes /\ ~Stays /\ pc' = pc + 1)
  <2>1. Stays => pc' = pc
    BY DEF Stays
  <2>2. Passes => pc' = pc + 1
    BY DEF Passes
  <2> QED BY <1>1, <2>1, <2>2
<1>6. shown' => Ahead(fault.by)'
  <2> DEFINE x == fault.by
  <2>1. shown' => \A m : m = x => Ahead(m)'
    BY <1>2, <1>3 DEF SpoilInv
  <2>2. x' = x
    BY <1>0
  <2> QED BY <2>1, <2>2 DEF Ahead, Coming, Observed
<1>7. fault.what = "preroll" /\ srv'.state \notin {"IDLE", "STOPPED"} => shown'
  <2> SUFFICES ASSUME fault.what = "preroll", srv'.state \notin {"IDLE", "STOPPED"}
               PROVE  shown \/ Spoilt(event)
    BY <1>3
  <2>1. CASE event = "preroll"
    BY <1>5, <2>1
  <2>2. CASE event # "preroll"
    <3>1. srv.state \notin {"IDLE", "STOPPED"}
      BY <1>1, <2>2 DEF Occurs
    <3> QED BY <3>1 DEF SpoilInv
  <2> QED BY <2>1, <2>2
<1>8. fault.what = "load" /\ pc' > 2 => shown'
  <2> SUFFICES ASSUME fault.what = "load", pc' > 2
               PROVE  shown \/ Spoilt(event)
    BY <1>3
  <2>1. CASE pc > 2
    BY <2>1 DEF SpoilInv
  <2>2. CASE ~(pc > 2)
    <3>1. Passes /\ ~Stays /\ pc = 2
      BY <1>1, <1>13, <2>2
    <3>2. case = Clean
      BY <1>1 DEF FaultKinds
    <3>3. Now.do = "call" /\ Now.what = "load"
      BY <3>1, <3>2, CleanPlaces
    <3> QED BY <1>4, <1>5, <3>1, <3>3
  <2> QED BY <2>1, <2>2
<1>9. fault.what = "flush" /\ pc' > 10 => shown' \/ Due("flush")'
  <2> SUFFICES ASSUME fault.what = "flush", pc' > 10
               PROVE  shown \/ Spoilt(event) \/ Due("flush")'
    BY <1>3
  <2>1. CASE pc > 10
    BY <1>5, <2>1 DEF SpoilInv, Leaves
  <2>2. CASE ~(pc > 10)
    <3>1. Passes /\ pc = 10
      BY <1>1, <1>13, <2>2
    <3>2. case = Cancelling
      BY <1>1 DEF FaultKinds
    <3>3. Now.do = "call" /\ Now.what = "flush"
      BY <3>1, <3>2, CancellingPlaces
    <3>4. Performed("flush", Now.value)
      BY <1>4, <3>1, <3>3 DEF Passes
    <3>5. HasDo(tasks', "flush")
      BY <3>4 DEF Performed, TaskOps, TaskDo
    <3> QED BY <3>5 DEF Due
  <2> QED BY <2>1, <2>2
<1>10. fault.what = "flush" /\ pc' > 11 => Observed(fault.by)'
  <2> SUFFICES ASSUME fault.what = "flush", pc' > 11
               PROVE  Observed(fault.by)'
    OBVIOUS
  <2>0. Observed(fault.by) => Observed(fault.by)'
    BY <1>0 DEF Sends, Unheard, Observed
  <2>1. CASE pc > 11
    BY <2>0, <2>1 DEF SpoilInv
  <2>2. CASE ~(pc > 11)
    <3>1. Passes /\ pc = 11
      BY <1>1, <1>13, <2>2
    <3>2. case = Cancelling
      BY <1>1 DEF FaultKinds
    <3>3. Now.do = "sleep"
      BY <3>1, <3>2, CancellingPlaces
    <3>4. tasks = << >> /\ notices = << >>
      BY <3>1, <3>3 DEF Passes, Settled
    <3>5. DOMAIN tasks = {} /\ DOMAIN notices = {}
      BY <3>4
    <3>6. ~Due("flush") /\ ~Coming(fault.by)
      BY <3>5 DEF Due, HasDo, Coming, Has
    <3>7. shown
      BY <3>1, <3>6 DEF SpoilInv
    <3> QED BY <2>0, <3>6, <3>7 DEF SpoilInv, Ahead
  <2> QED BY <2>1, <2>2
<1>11. fault.what = "starve" /\ srv'.starved => shown'
  BY <1>1, <1>3, <1>5 DEF SpoilInv, Occurs
<1>12. fault.what \in DOMAIN Milestone => First(fault.by, Milestone[fault.what])'
  <2> SUFFICES ASSUME fault.what \in DOMAIN Milestone
               PROVE  First(fault.by, Milestone[fault.what])'
    OBVIOUS
  <2> DEFINE m == Milestone[fault.what]
  <2>1. m # fault.by /\ First(fault.by, m) /\ m' = m
    BY <1>0, <1>1, MilestonesDiffer DEF SpoilInv
  <2>2. m \in Said[event] => Spoilt(event) \/ shown
    BY <1>1, MilestoneSent
  <2>3. shown => Ahead(fault.by)
    BY DEF SpoilInv
  <2> HIDE DEF m
  <2>4. \A z : z = m => First(fault.by, z)'
    BY <1>1, <2>1, <2>2, <2>3, FirstSent
  <2> QED BY <1>0, <2>1, <2>4 DEF m, First, Observed
<1> QED BY <1>0, <1>6, <1>7, <1>8, <1>9, <1>10, <1>11, <1>12 DEF SpoilInv

-----------------------------------------------------------------------------
(***************************************************************************)
(* The state an error is notified in: StrayInv.                            *)
(***************************************************************************)

\* StrayInv, as a notification is recorded.
LEMMA StrayHeard ==
  ASSUME StrayInv, NEW n, Hears(n)
  PROVE  StrayInv'
<1>0. fault' = fault /\ shown' = shown
  BY DEF Hears
<1> SUFFICES ASSUME fault = Spoils("error", "PAUSED") PROVE StrayInv'
  BY <1>0 DEF StrayInv
<1>1. /\ n = notices[1] /\ 1 \in DOMAIN notices
      /\ Len(notices) \in Nat /\ DOMAIN notices = 1 .. Len(notices)
      /\ \A i \in DOMAIN notices' : i + 1 \in DOMAIN notices /\ notices'[i] = notices[i + 1]
      /\ \A i \in DOMAIN notices :
           i = 1 \/ (i - 1 \in DOMAIN notices' /\ notices'[i - 1] = notices[i])
      /\ IF n = "ERROR" THEN seen'.stateAtLastError = seen.lastState
                        ELSE seen'.stateAtLastError = seen.stateAtLastError
      /\ n \in PlaybackStates => seen'.lastState = n
      /\ \A m : Coming(m) <=> m = n \/ Has(notices', m)
  BY DEF Hears
<1>2. /\ \A i \in DOMAIN notices :
           notices[i] = "ERROR" => IF i = 1 THEN seen.lastState = "PAUSED"
                                            ELSE notices[i - 1] = "PAUSED"
      /\ \A i, j \in DOMAIN notices : notices[i] = "ERROR" /\ notices[j] = "ERROR" => i = j
      /\ seen.stateAtLastError \in {None, "PAUSED"}
      /\ seen.stateAtLastError # None => ~Coming("ERROR")
      /\ shown => Coming("ERROR") \/ seen.stateAtLastError = "PAUSED"
  BY DEF StrayInv
<1>3. \A i \in DOMAIN notices' : i \in Int /\ i > 0
  <2> TAKE i \in DOMAIN notices'
  <2>1. notices' \in Seq(Notices)
    BY DEF Hears, FaultyTypes
  <2>2. DOMAIN notices' = 1 .. Len(notices') /\ Len(notices') \in Nat
    BY <2>1
  <2> QED BY <2>2
<1>4. ASSUME NEW i \in DOMAIN notices', notices'[i] = "ERROR"
      PROVE  IF i = 1 THEN seen'.lastState = "PAUSED" ELSE notices'[i - 1] = "PAUSED"
  <2>1. i + 1 \in DOMAIN notices /\ notices[i + 1] = "ERROR" /\ i + 1 # 1
    BY <1>1, <1>3, <1>4
  <2>2. notices[(i + 1) - 1] = "PAUSED"
    BY <1>2, <2>1
  <2>3. notices[i] = "PAUSED"
    BY <1>3, <2>2
  <2>4. CASE i = 1
    BY <1>1, <2>3, <2>4 DEF PlaybackStates
  <2>5. CASE i # 1
    BY <1>1, <1>3, <2>1, <2>3, <2>5
  <2> QED BY <2>4, <2>5
<1>5. \A i, j \in DOMAIN notices' : notices'[i] = "ERROR" /\ notices'[j] = "ERROR" => i = j
  <2> SUFFICES ASSUME NEW i \in DOMAIN notices', NEW j \in DOMAIN notices',
                      notices'[i] = "ERROR", notices'[j] = "ERROR"
               PROVE  i = j
    OBVIOUS
  <2>1. i + 1 = j + 1
    BY <1>1, <1>2
  <2> QED BY <1>3, <2>1
<1>6. seen'.stateAtLastError \in {None, "PAUSED"}
  BY <1>1, <1>2
<1>7. n = "ERROR" => ~Has(notices', "ERROR") /\ seen'.stateAtLastError = "PAUSED"
  <2> SUFFICES ASSUME n = "ERROR"
               PROVE  ~Has(notices', "ERROR") /\ seen'.stateAtLastError = "PAUSED"
    OBVIOUS
  <2>1. seen'.stateAtLastError = "PAUSED"
    BY <1>1, <1>2
  <2>2. ASSUME NEW i \in DOMAIN notices', notices'[i] = "ERROR" PROVE FALSE
    BY <1>1, <1>2, <1>3, <2>2
  <2> QED BY <2>1, <2>2 DEF Has
<1>8. Coming("ERROR")' <=> Has(notices', "ERROR")
  BY DEF Coming
<1>9. seen'.stateAtLastError # None => ~Coming("ERROR")'
  BY <1>1, <1>2, <1>7, <1>8
<1>10. shown' => Coming("ERROR")' \/ seen'.stateAtLastError = "PAUSED"
  BY <1>0, <1>1, <1>2, <1>7, <1>8
<1> QED BY <1>0, <1>4, <1>5, <1>6, <1>9, <1>10 DEF StrayInv

\* StrayInv, as the server sends.
LEMMA StraySent ==
  ASSUME FaultyTypes, StrayInv, NEW event, Sends(event)
  PROVE  StrayInv'
<1>0. fault' = fault
  BY DEF Sends
<1> SUFFICES ASSUME fault = Spoils("error", "PAUSED") PROVE StrayInv'
  BY <1>0 DEF StrayInv
<1>1. /\ fault.kind = "spoils" /\ fault.what = "error" /\ fault.by = "PAUSED"
      /\ fault # Silences("error")
  BY DEF Spoils, Silences, Fault
<1>2. /\ event \in DOMAIN Said /\ Extended(event) /\ Occurs(event)
      /\ shown' = (shown \/ Spoilt(event))
      /\ seen'.lastState = seen.lastState /\ seen'.stateAtLastError = seen.stateAtLastError
  BY <1>1 DEF Sends, Shows, Unheard
<1>3. /\ \A i \in DOMAIN notices :
           notices[i] = "ERROR" => IF i = 1 THEN seen.lastState = "PAUSED"
                                            ELSE notices[i - 1] = "PAUSED"
      /\ \A i, j \in DOMAIN notices : notices[i] = "ERROR" /\ notices[j] = "ERROR" => i = j
      /\ seen.stateAtLastError \in {None, "PAUSED"}
      /\ seen.stateAtLastError # None => ~Coming("ERROR")
      /\ shown => Coming("ERROR") \/ seen.stateAtLastError = "PAUSED"
  BY DEF StrayInv
<1>4. /\ Len(notices) \in Nat /\ DOMAIN notices = 1 .. Len(notices)
      /\ \A i \in DOMAIN notices : i \in DOMAIN notices' /\ notices'[i] = notices[i]
  BY <1>2 DEF FaultyTypes, Extended
<1>5. None # "PAUSED"
  BY PlaybackAssumption
<1>6. event = "error" => /\ seen.stateAtLastError = None /\ ~Coming("ERROR")
                         /\ Spoilt(event) /\ Has(notices', "ERROR")
  <2> SUFFICES ASSUME event = "error"
               PROVE  /\ seen.stateAtLastError = None /\ ~Coming("ERROR")
                      /\ Spoilt(event) /\ Has(notices', "ERROR")
    OBVIOUS
  <2>1. /\ seen.stateAtLastError = None /\ ~Coming("ERROR") /\ Has(notices', "ERROR")
    BY <1>1, <1>2 DEF Occurs
  <2>2. ~shown
    BY <1>3, <1>5, <2>1
  <2> QED BY <1>1, <2>1, <2>2 DEF Spoilt
<1>7. ASSUME NEW i \in DOMAIN notices', notices'[i] = "ERROR", i \notin DOMAIN notices
      PROVE  /\ event = "error" /\ i = Len(notices) + 2 /\ Len(notices) + 1 \in DOMAIN notices'
             /\ notices'[Len(notices) + 1] = "PAUSED"
  <2>1. /\ notices'[i] \in Said[event]
        /\ i = Len(notices) + (IF Spoilt(event) THEN 2 ELSE 1)
    BY <1>1, <1>2, <1>7 DEF Extended
  <2>2. event = "error"
    BY <1>2, <1>7, <2>1 DEF Said
  <2>3. Spoilt(event)
    BY <1>6, <2>2
  <2> QED BY <1>1, <1>2, <2>1, <2>2, <2>3 DEF Extended
<1>8. ASSUME NEW i \in DOMAIN notices', notices'[i] = "ERROR"
      PROVE  IF i = 1 THEN seen'.lastState = "PAUSED" ELSE notices'[i - 1] = "PAUSED"
  <2>1. CASE i \in DOMAIN notices
    <3>1. notices[i] = "ERROR" /\ i \in 1 .. Len(notices)
      BY <1>4, <1>8, <2>1
    <3>2. CASE i = 1
      BY <1>2, <1>3, <2>1, <3>1, <3>2
    <3>3. CASE i # 1
      <4>1. notices[i - 1] = "PAUSED" /\ i - 1 \in 1 .. Len(notices)
        BY <1>3, <1>4, <2>1, <3>1, <3>3
      <4> QED BY <1>4, <3>3, <4>1
    <3> QED BY <3>2, <3>3
  <2>2. CASE i \notin DOMAIN notices
    <3>1. i = Len(notices) + 2 /\ notices'[Len(notices) + 1] = "PAUSED"
      BY <1>7, <1>8, <2>2
    <3>2. i # 1 /\ i - 1 = Len(notices) + 1
      BY <1>4, <3>1
    <3> QED BY <3>1, <3>2
  <2> QED BY <2>1, <2>2
<1>9. ASSUME NEW i \in DOMAIN notices', NEW j \in DOMAIN notices',
             notices'[i] = "ERROR", notices'[j] = "ERROR"
      PROVE  i = j
  <2>1. CASE i \in DOMAIN notices /\ j \in DOMAIN notices
    <3>1. notices[i] = "ERROR" /\ notices[j] = "ERROR"
      BY <1>4, <1>9, <2>1
    <3> QED BY <1>3, <2>1, <3>1
  <2>2. CASE i \notin DOMAIN notices /\ j \notin DOMAIN notices
    <3>1. i = Len(notices) + 2 /\ j = Len(notices) + 2
      BY <1>7, <1>9, <2>2
    <3> QED BY <3>1
  <2>3. ASSUME NEW k \in DOMAIN notices, notices'[k] = "ERROR",
               NEW l \in DOMAIN notices', notices'[l] = "ERROR", l \notin DOMAIN notices
        PROVE  FALSE
    <3>1. notices[k] = "ERROR"
      BY <1>4, <2>3
    <3>2. event = "error"
      BY <1>7, <2>3
    <3> QED BY <1>6, <2>3, <3>1, <3>2 DEF Coming, Has
  <2> QED BY <1>9, <2>1, <2>2, <2>3
<1>10. Coming("ERROR")' <=> Has(notices', "ERROR")
  BY DEF Coming
<1>11. Coming("ERROR")' => Coming("ERROR") \/ event = "error"
  <2>1. Has(notices', "ERROR") => Has(notices, "ERROR") \/ event = "error"
    BY <1>4, <1>7 DEF Has
  <2> QED BY <1>10, <2>1 DEF Coming
<1>12. seen'.stateAtLastError # None => ~Coming("ERROR")'
  BY <1>2, <1>3, <1>6, <1>11
<1>13. shown' => Coming("ERROR")' \/ seen'.stateAtLastError = "PAUSED"
  <2>1. Spoilt(event) => event = "error"
    BY <1>1 DEF Spoilt
  <2>2. Coming("ERROR") => Coming("ERROR")'
    BY <1>4, <1>10 DEF Coming, Has
  <2> QED BY <1>2, <1>3, <1>6, <1>10, <2>1, <2>2
<1> QED BY <1>0, <1>2, <1>3, <1>8, <1>9, <1>12, <1>13 DEF StrayInv

-----------------------------------------------------------------------------
(***************************************************************************)
(* What the case has set up: SetUpInv.                                     *)
(***************************************************************************)

\* The places of a case are numbers.
LEMMA Places ==
  /\ BindAt(case) \in Nat /\ AttachedAt \in Nat /\ ReachedAt \in Nat
  /\ BindAt(case) < AttachedAt /\ AttachedAt <= ReachedAt - 2
  /\ ReachedAt \in {6, 7}
BY DEF ReachedAt, ReachAt, AttachedAt, AttachAt, BindAt, Getters, Unplayed, Seeking, Refilling

\* They do not move.
LEMMA PlacesStay ==
  ASSUME case' = case
  PROVE  BindAt(case)' = BindAt(case) /\ AttachedAt' = AttachedAt /\ ReachedAt' = ReachedAt
BY DEF ReachedAt, AttachedAt

\* SetUpInv, where the feed is not set up and no task is applied.
LEMMA SetUpStays ==
  ASSUME SetUpInv, Stays, fault' = fault, UNCHANGED <<binding, modes, tasks>>,
         srv'.target = srv.target,
         ~allAttached /\ fault.kind # "refuses" =>
           UNCHANGED <<queue, cb>> /\ srv'.state = srv.state
  PROVE  SetUpInv'
<1>1. BindAt(case)' = BindAt(case) /\ AttachedAt' = AttachedAt /\ ReachedAt' = ReachedAt
  BY PlacesStay DEF Stays
<1> QED BY <1>1 DEF SetUpInv, Stays, binding, modes

\* SetUpInv, as the worker thread runs.
LEMMA SetUpWork ==
  ASSUME WalkInv, SetUpInv, Stays, fault' = fault, tasks # << >>, UNCHANGED vars
  PROVE  SetUpInv'
<1>1. BindAt(case)' = BindAt(case) /\ AttachedAt' = AttachedAt /\ ReachedAt' = ReachedAt
  BY PlacesStay DEF Stays
<1>2. fault.kind # "refuses" => pc >= ReachedAt /\ allAttached
  <2> SUFFICES ASSUME fault.kind # "refuses" PROVE pc >= ReachedAt /\ allAttached
    OBVIOUS
  <2>1. ~(pc < ReachedAt)
    BY DEF SetUpInv
  <2>2. pc >= ReachedAt /\ pc > ReachedAt - 2
    BY <2>1, PcIsNat, Places
  <2> QED BY <2>2 DEF SetUpInv
<1>3. (pc' = pc /\ ~(pc < ReachedAt)) \/ fault.kind = "refuses"
  BY <1>2, PcIsNat, Places DEF Stays
<1> QED BY <1>1, <1>2, <1>3 DEF SetUpInv, Stays, vars, binding, modes

\* SetUpInv, as the playback moves.
LEMMA SetUpPlay ==
  ASSUME WalkInv, SetUpInv, Stays, UNCHANGED <<vars, tasks>>, srv'.target = srv.target,
         NEW event \in {"preroll", "play", "pause", "stop", "seekDone", "eos"}, Sends(event)
  PROVE  SetUpInv'
<1>1. fault' = fault /\ Occurs(event)
  BY DEF Sends
<1>2. ASSUME ~allAttached, fault.kind # "refuses"
      PROVE  srv'.state = srv.state
  <2>1. srv.state = "IDLE" /\ ~(pc > ReachedAt - 2)
    BY <1>2 DEF SetUpInv
  <2>2. pc < ReachedAt
    BY <2>1, PcIsNat, Places
  <2>3. srv.target = "PAUSED"
    BY <1>2, <2>2 DEF SetUpInv
  <2> QED BY <1>1, <1>2, <2>1, <2>3 DEF Occurs
<1>3. UNCHANGED <<binding, modes, tasks>> /\ UNCHANGED <<queue, cb>>
  BY DEF vars
<1> QED BY <1>1, <1>2, <1>3, SetUpStays

\* What a step of the feed leaves alone, and what it needs.
LEMMA FaultyFeed ==
  ASSUME NEW s \in Sources, FaultyFed(s)
  PROVE  /\ UNCHANGED <<binding, modes, silent>>
         /\ allSegmentsAccepted' = allSegmentsAccepted \/ allSegmentsAccepted' = FALSE
         /\ \/ queue' = queue /\ cb.phase # "idle"
            \/ queue # << >> /\ cb.phase = "idle" /\ queue' = Tail(queue)
<1> USE DEF binding, modes, history, observations
<1>1. CASE DropRequest(s) \/ StarveRequest(s) \/ StartRound(s)
  BY <1>1 DEF DropRequest, StarveRequest, StartRound, RecordRequest, Receive
<1>2. CASE AnswerStarved(s)
  BY <1>2 DEF AnswerStarved
<1>3. CASE AcceptSegment(s)
  BY <1>3 DEF AcceptSegment
<1>4. CASE RejectSegment(s, "NO_SPACE") \/ RejectSegment(s, "ERROR")
  BY <1>4 DEF RejectSegment
<1>5. CASE CommitRound(s)
  BY <1>5 DEF CommitRound
<1>6. CASE HaveData(s)
  BY <1>6 DEF HaveData
<1>7. CASE NotifyCancelNeedMediaData(s)
  BY <1>7 DEF NotifyCancelNeedMediaData, Receive
<1> QED BY <1>1, <1>2, <1>3, <1>4, <1>5, <1>6, <1>7 DEF FaultyFed

\* SetUpInv, as the feed runs.
LEMMA SetUpFeed ==
  ASSUME SetUpInv, Stays, tasks' = tasks, srv'.target = srv.target,
         NEW event, Sends(event), NEW s \in Sources, FaultyFed(s)
  PROVE  SetUpInv'
<1>1. fault' = fault /\ UNCHANGED <<binding, modes>>
  BY FaultyFeed DEF Sends
<1>2. ~allAttached => fault.kind = "refuses"
  <2>1. queue # << >> \/ cb.phase # "idle"
    BY FaultyFeed
  <2> QED BY <2>1 DEF SetUpInv
<1> QED BY <1>1, <1>2, SetUpStays

\* SetUpInv, as the server asks.
LEMMA SetUpRequest ==
  ASSUME SetUpInv, Stays, Request
  PROVE  SetUpInv'
<1>1. allAttached /\ UNCHANGED <<binding, modes>>
  BY RequestFeed
<1>2. fault' = fault /\ tasks' = tasks /\ srv' = srv
  BY DEF Request, playbackVars
<1> QED BY <1>1, <1>2, SetUpStays

\* SetUpInv, as the case takes a step.
LEMMA SetUpTest ==
  ASSUME FeedInv, SetUpInv, Passes, NEW event \in {"none", "load"}, Sends(event),
         srv'.target = srv.target
  PROVE  SetUpInv'
<1>0. fault' = fault /\ srv'.state = srv.state
  BY DEF Sends, Occurs
<1> SUFFICES ASSUME fault.kind # "refuses" PROVE SetUpInv'
  BY <1>0 DEF SetUpInv
<1>1. /\ pc \in Nat /\ pc' = pc + 1 /\ case' = case /\ Kinds(case, pc, Now)
      /\ BindAt(case)' = BindAt(case) /\ AttachedAt' = AttachedAt /\ ReachedAt' = ReachedAt
  BY PlacesStay DEF Passes
<1>2. fault # Refuses(Now.what)
  BY DEF Refuses, Fault
<1>3. pc' < ReachedAt => tasks' = << >> /\ srv'.target = "PAUSED"
  <2> SUFFICES ASSUME pc + 1 < ReachedAt PROVE tasks' = << >> /\ srv'.target = "PAUSED"
    BY <1>1
  <2>1. tasks = << >> /\ srv.target = "PAUSED"
    BY <1>1, Places DEF SetUpInv
  <2>2. Now.do # "write" /\ (Now.do = "call" => Now.what \notin TaskOps)
    BY <1>1, Places DEF Kinds, CallKinds, TaskOps, ReachedAt
  <2>3. tasks' = tasks
    BY <1>2, <2>2 DEF Passes, Performed
  <2> QED BY <2>1, <2>3
<1>4. CASE UNCHANGED vars /\ Now.do # "call"
  <2>1. pc # BindAt(case) /\ pc # AttachedAt /\ pc # ReachedAt - 2
    BY <1>1, <1>4 DEF Kinds, AttachedAt, ReachedAt
  <2>2. UNCHANGED <<pipelineSet, registered, allAttached, withhold, starve, queue, cb>>
    BY <1>4 DEF vars, binding, modes
  <2> QED BY <1>0, <1>1, <1>3, <2>1, <2>2, Places DEF SetUpInv
<1>5. CASE Now.do = "call"
  <2> DEFINE op == Now.what
  <2>0. CallKinds(case, pc, Now)
    BY <1>1, <1>5 DEF Kinds
  <2>1. /\ op \notin FeedOps => UNCHANGED vars
        /\ op \in FeedOps => FeedCall(op, Now.value)
    BY <1>2, <1>5 DEF Passes, Performed
  <2> HIDE DEF op
  <2>a. /\ cb' = cb
        /\ op # "setPipeline" => pipelineSet' = pipelineSet
        /\ op = "setPipeline" => pipelineSet' = TRUE
        /\ op # "attachSource" => registered' = registered
        /\ op = "attachSource" => \E s \in Sources : registered' = registered \cup {s}
        /\ op # "allSourcesAttached" => allAttached' = allAttached
        /\ op = "allSourcesAttached" => allAttached' = TRUE
        /\ op # "setWithhold" => withhold' = withhold
        /\ op = "setWithhold" => withhold' = Now.value
        /\ op # "setStarve" => starve' = starve
        /\ op \notin {"flush", "setPosition"} =>
             UNCHANGED <<queue, outstanding, ended, silent>>
    BY <2>1, FeedCalls, Zenon
  <2>b. /\ op = "setPipeline" <=> pc = BindAt(case)
        /\ op = "attachSource" <=> pc = AttachedAt
        /\ op = "allSourcesAttached" <=> pc = ReachedAt - 2
        /\ op \in {"flush", "setPosition"} => pc > ReachedAt
        /\ op = "setWithhold" =>
             case = Cancelling /\ ((pc = 8 /\ Now.value = TRUE) \/ (pc = 14 /\ Now.value = FALSE))
        /\ op = "setStarve" => case = Starving /\ pc = 7
    BY <2>0 DEF CallKinds, op, AttachedAt, ReachedAt
  <2>2. pc' > BindAt(case)' => pipelineSet'
    BY <1>1, <2>a, <2>b, Places DEF SetUpInv
  <2>3. pc' > AttachedAt' => registered' = Sources
    <3>1. CASE op = "attachSource"
      BY <1>1, <2>a, <2>b, <3>1, OneSource DEF FeedInv, IInv, TypeOK
    <3>2. CASE op # "attachSource"
      BY <1>1, <2>a, <2>b, <3>2, Places DEF SetUpInv
    <3> QED BY <3>1, <3>2
  <2>4. allAttached' <=> pc' > ReachedAt' - 2
    BY <1>1, <2>a, <2>b, Places DEF SetUpInv
  <2>5. /\ withhold' => case' = Cancelling /\ pc' > 8
        /\ starve' => case' = Starving /\ pc' > 7
    BY <1>1, <2>a, <2>b DEF SetUpInv
  <2>6. ASSUME ~allAttached'
        PROVE  queue' = << >> /\ cb'.phase = "idle" /\ srv'.state = "IDLE"
    <3>1. ~allAttached /\ pc <= ReachedAt - 2
      BY <1>1, <2>a, <2>b, <2>6, Places DEF SetUpInv
    <3>2. op \notin {"flush", "setPosition"}
      BY <1>1, <2>b, <3>1, Places
    <3>3. queue = << >> /\ cb.phase = "idle" /\ srv.state = "IDLE"
      BY <3>1 DEF SetUpInv
    <3>4. queue' = queue /\ cb' = cb
      BY <2>a, <3>2
    <3> QED BY <1>0, <3>3, <3>4
  <2> QED BY <1>0, <1>1, <1>3, <2>2, <2>3, <2>4, <2>5, <2>6 DEF SetUpInv
<1>6. CASE Now.do = "write"
  <2>1. Now.what = "property"
    BY <1>1, <1>6 DEF Kinds
  <2>2. UNCHANGED vars
    BY <1>2, <1>6, <2>1 DEF Passes, Performed, FeedOps
  <2> QED BY <1>4, <1>6, <2>2
<1>7. CASE Now.do \notin {"call", "write"}
  BY <1>4, <1>7 DEF Passes, vars
<1> QED BY <1>5, <1>6, <1>7

-----------------------------------------------------------------------------
(***************************************************************************)
(* Until its first rejection the server has no data: RejectInv.            *)
(***************************************************************************)

\* Nothing of the stream has been taken, nor offered without being taken.
Unfed ==
  /\ \A s \in Sources : head[s] = None /\ ~ended[s] /\ nextFrame[s] = 0
  /\ cb.phase \in {"idle", "offer"}
  /\ cb.phase = "offer" => cb.accepted = 0 /\ cb.size # 0

\* Where RejectInv holds of it.
Unplayable == fault = RejectsSegment /\ case = Protocol /\ allSegmentsAccepted

\* What a server that rejects segments is like.
LEMMA RejectsKind ==
  ASSUME fault = RejectsSegment
  PROVE  fault.kind = "rejects" /\ fault.by = "none"
BY DEF RejectsSegment, Fault

\* RejectInv, as a notification is recorded.
LEMMA RejectHeard ==
  ASSUME RejectInv, NEW n, Hears(n), Stays
  PROVE  RejectInv'
<1>1. Ahead("PLAYING")' <=> Ahead("PLAYING")
  BY AheadHeard
<1>2. /\ fault' = fault /\ shown' = shown /\ seen'.error = seen.error /\ case' = case
      /\ srv' = srv /\ UNCHANGED vars /\ head' = head
  BY DEF Hears, Stays
<1>3. UNCHANGED <<allSegmentsAccepted, ended, nextFrame, cb>>
  BY <1>2 DEF vars, observations
<1> QED BY <1>1, <1>2, <1>3 DEF RejectInv

\* RejectInv, as the server sends.
LEMMA RejectSent ==
  ASSUME RejectInv, NEW event, Sends(event), case' = case,
         allSegmentsAccepted' = allSegmentsAccepted \/ allSegmentsAccepted' = FALSE,
         Unplayable /\ Unfed /\ allSegmentsAccepted' => Unfed'
  PROVE  RejectInv'
<1>0. fault' = fault /\ event \in DOMAIN Said /\ Occurs(event)
  BY DEF Sends
<1> SUFFICES ASSUME fault = RejectsSegment PROVE RejectInv'
  BY <1>0 DEF RejectInv
<1>1. shown' => seen'.error /\ ~allSegmentsAccepted'
  BY DEF Sends, RejectInv
<1>2. ASSUME case = Protocol, allSegmentsAccepted'
      PROVE  Unfed' /\ srv'.state \in {"IDLE", "STOPPED"} /\ ~Ahead("PLAYING")'
  <2>1. /\ Unplayable /\ Unfed
        /\ srv.state \in {"IDLE", "STOPPED"} /\ ~Ahead("PLAYING")
    BY <1>2 DEF Unplayable, Unfed, RejectInv
  <2>2. ~HasData
    BY <2>1, OneSource DEF Unfed, HasData
  <2>3. event # "play"
    BY <1>0, <2>1 DEF Occurs
  <2>4. srv'.state \in {"IDLE", "STOPPED"}
    BY <1>0, <2>1, <2>2 DEF Occurs
  <2>5. "PLAYING" \notin Said[event] /\ ~Spoilt(event)
    BY <1>0, <2>3, RejectsKind DEF Said, Spoilt
  <2> QED BY <1>2, <2>1, <2>4, <2>5, AheadSent
<1> QED BY <1>0, <1>1, <1>2 DEF RejectInv, Unfed

\* A round is not empty.
LEMMA BatchIsNotEmpty ==
  ASSUME FeedInv, NEW s \in Sources, nextFrame[s] = 0, NEW n \in FrameCounts
  PROVE  BatchSize(s, n) # 0
<1>1. StreamLength \in Nat \ {0} /\ n \in Nat \ {0} /\ oversupply \in Nat \ {0}
  BY FeedAssumption DEF FeedInv, IInv, TypeOK
<1>2. n * oversupply # 0
  BY <1>1
<1>3. n * oversupply \in Nat
  BY <1>1
<1> DEFINE m == n * oversupply
<1> HIDE DEF m
<1>4. m \in Nat /\ m # 0
  BY <1>2, <1>3 DEF m
<1>5. Smaller(StreamLength, m) # 0
  BY <1>1, <1>4 DEF Smaller
<1>6. StreamLength - nextFrame[s] = StreamLength
  BY <1>1
<1> QED BY <1>5, <1>6, Zenon DEF BatchSize, m

\* The feed gets no further than the first rejection.
LEMMA UnfedFeed ==
  ASSUME FeedInv, SetUpInv, RejectInv, Unplayable, Unfed, allSegmentsAccepted',
         NEW s \in Sources, FaultyFed(s)
  PROVE  Unfed'
<1>0. fault.kind = "rejects" /\ ~shown
  BY RejectsKind DEF Unplayable, RejectInv
<1>1. ~starve
  BY <1>0 DEF SetUpInv, Unplayable, Protocol, Starving
<1>2. CASE DropRequest(s) /\ head' = head
  BY <1>2 DEF DropRequest, RecordRequest, Receive, Unfed
<1>3. CASE StarveRequest(s)
  BY <1>1, <1>3 DEF StarveRequest
<1>4. CASE StartRound(s) /\ head' = head
  <2>1. queue # << >> /\ Head(queue).kind = "need" /\ nextFrame' = nextFrame /\ ended' = ended
    BY <1>4 DEF StartRound, RecordRequest, Receive
  <2>2. queue \in Seq(Event)
    BY QueueTypes
  <2>3. Head(queue) \in Event
    <3> HIDE DEF Event
    <3> QED BY <2>1, <2>2, Removed
  <2>4. Head(queue).count \in FrameCounts
    BY <2>1, <2>3 DEF Event
  <2> DEFINE n == Head(queue).count
             size == BatchSize(s, n)
  <2>5. size # 0
    BY <2>4, BatchIsNotEmpty DEF Unfed
  <2>6. cb' = [Idle EXCEPT !.phase = "offer", !.src = s, !.id = Head(queue).id,
                           !.first = nextFrame[s], !.size = size]
    BY <1>4 DEF StartRound
  <2> HIDE DEF size
  <2>7. cb'.phase = "offer" /\ cb'.accepted = 0 /\ cb'.size = size
    BY <2>6 DEF Idle
  <2> QED BY <1>4, <2>1, <2>5, <2>7 DEF Unfed
<1>5. CASE AnswerStarved(s)
  BY <1>5 DEF AnswerStarved, Unfed
<1>6. CASE AcceptSegment(s) /\ (fault = RejectsSegment => shown)
  BY <1>0, <1>6 DEF Unplayable
<1>7. ASSUME NEW status, RejectSegment(s, status) PROVE FALSE
  BY <1>7 DEF RejectSegment
<1>8. CASE CommitRound(s)
  BY <1>8 DEF CommitRound, Unfed
<1>9. CASE HaveData(s)
  BY <1>9 DEF HaveData, Unfed
<1>10. CASE NotifyCancelNeedMediaData(s) /\ head' = head
  BY <1>10 DEF NotifyCancelNeedMediaData, Receive, Unfed
<1> QED BY <1>2, <1>3, <1>4, <1>5, <1>6, <1>7, <1>8, <1>9, <1>10 DEF FaultyFed

\* RejectInv, as the feed runs.
LEMMA RejectFeed ==
  ASSUME FeedInv, SetUpInv, RejectInv, Stays, NEW event, Sends(event),
         NEW s \in Sources, FaultyFed(s)
  PROVE  RejectInv'
<1>1. allSegmentsAccepted' = allSegmentsAccepted \/ allSegmentsAccepted' = FALSE
  BY FaultyFeed
<1>2. Unplayable /\ Unfed /\ allSegmentsAccepted' => Unfed'
  BY UnfedFeed
<1> QED BY <1>1, <1>2, RejectSent DEF Stays

\* RejectInv, as the worker thread runs, as the playback moves, and as the server asks.
LEMMA RejectServer ==
  ASSUME RejectInv, Stays, NEW event, Sends(event), head' = head,
         UNCHANGED <<cb, nextFrame, observations, ended>>
  PROVE  RejectInv'
<1>1. allSegmentsAccepted' = allSegmentsAccepted /\ (Unfed => Unfed')
  BY DEF observations, Unfed
<1> QED BY <1>1, RejectSent DEF Stays

\* RejectInv, as the case takes a step.
LEMMA RejectTest ==
  ASSUME FeedInv, RejectInv, Passes, NEW event, Sends(event)
  PROVE  RejectInv'
<1>0. case' = case /\ Kinds(case, pc, Now)
  BY DEF Passes
<1>1. CASE UNCHANGED <<vars, head>>
  <2>1. allSegmentsAccepted' = allSegmentsAccepted /\ (Unfed => Unfed')
    BY <1>1 DEF vars, observations, Unfed
  <2> QED BY <1>0, <2>1, RejectSent
<1>2. CASE Now.do \in {"call", "write"} /\ Performed(Now.what, Now.value)
  <2> DEFINE op == Now.what
  <2>1. /\ op \notin FeedOps => UNCHANGED vars
        /\ op \in FeedOps => FeedCall(op, Now.value)
        /\ op \notin {"flush", "setPosition"} => head' = head
    BY <1>2 DEF Performed
  <2>2. case = Protocol => op \notin {"flush", "setPosition", "rewindSource"}
    BY <1>0, <1>2 DEF Kinds, CallKinds, Protocol, Flushing, Seeking, Cancelling
  <2> HIDE DEF op
  <2>3. /\ cb' = cb /\ observations' = observations
        /\ op \notin {"attachSource", "rewindSource"} => nextFrame' = nextFrame
        /\ op \notin {"flush", "setPosition"} =>
              UNCHANGED <<queue, outstanding, ended, silent>>
    BY <2>1, FeedCalls, Zenon
  <2>4. ASSUME case = Protocol, Unfed PROVE Unfed'
    <3>1. \A s \in Sources : nextFrame'[s] = 0
      <4>1. CASE op = "attachSource"
        <5>1. PICK s \in Sources : AddAudioSource(s)
          BY <2>1, <4>1 DEF FeedOps, FeedCall
        <5>2. nextFrame \in [Sources -> 0 .. StreamLength]
          BY DEF FeedInv, IInv, TypeOK
        <5>3. nextFrame'[s] = 0
          BY <5>1, <5>2 DEF AddAudioSource
        <5> QED BY <5>3, OneSource
      <4>2. CASE op # "attachSource"
        BY <2>2, <2>3, <2>4, <4>2 DEF Unfed
      <4> QED BY <4>1, <4>2
    <3> QED BY <2>1, <2>2, <2>3, <2>4, <3>1 DEF Unfed
  <2>5. allSegmentsAccepted' = allSegmentsAccepted
    BY <2>3 DEF observations
  <2> QED BY <1>0, <2>4, <2>5, RejectSent DEF Unplayable
<1> QED BY <1>1, <1>2 DEF Passes

-----------------------------------------------------------------------------
(***************************************************************************)
(* What shows late shows before the case looks for it: LateInv.            *)
(***************************************************************************)

\* What a late fault is.
LEMMA LateKinds ==
  ASSUME LateFault(case, fault)
  PROVE  /\ fault.kind \in {"spoils", "rejects"}
         /\ case \in {Starving, Refilling, Erring}
         /\ \/ fault.kind = "spoils" /\ fault.what \in {"starve", "full", "error"}
            \/ fault = RejectsSegment
         /\ fault.what = "starve" <=> case = Starving
         /\ fault.kind = "spoils" => fault.by \in {"FAILURE", "PAUSED"}
         /\ fault.by = "PAUSED" => fault = Spoils("error", "PAUSED")
         /\ fault = RejectsSegment => fault.kind = "rejects" /\ fault.by = "none"
<1>1. CASE case = Starving /\ fault = Spoils("starve", "FAILURE")
  BY <1>1 DEF Spoils, RejectsSegment, Fault, Starving, Refilling, Erring
<1>2. CASE case = Refilling /\ fault = Spoils("full", "FAILURE")
  BY <1>2 DEF Spoils, RejectsSegment, Fault, Starving, Refilling, Erring
<1>3. CASE case = Refilling /\ fault = RejectsSegment
  BY <1>3 DEF Spoils, RejectsSegment, Fault, Starving, Refilling, Erring
<1>4. CASE case = Erring /\ fault = Spoils("error", "FAILURE")
  BY <1>4 DEF Spoils, RejectsSegment, Fault, Starving, Refilling, Erring
<1>5. CASE case = Erring /\ fault = Spoils("error", "PAUSED")
  BY <1>5 DEF Spoils, RejectsSegment, Fault, Starving, Refilling, Erring
<1> QED BY <1>1, <1>2, <1>3, <1>4, <1>5 DEF LateFault

\* What the server waits for is still to be answered.
Awaited == \A s \in Sources : outstanding[s] # None =>
             Queued(s) \/ (cb.phase # "idle" /\ cb.src = s /\ cb.id = outstanding[s])

\* A fault that has not shown does not, unless the feed runs.
LEMMA LateQuiet ==
  ASSUME LateFault(case, fault), NEW event, Sends(event), event \notin {"starve", "full", "error"},
         ~shown, Drained
  PROVE  ~shown'
<1>1. CASE fault.kind = "spoils"
  <2>1. fault.what \in {"starve", "full", "error"}
    BY <1>1, LateKinds
  <2> QED BY <1>1, <2>1 DEF Sends, Shows, Spoilt
<1>2. CASE fault = RejectsSegment
  BY <1>2 DEF Sends, Drained
<1> QED BY <1>1, <1>2, LateKinds

\* What has been recorded stays recorded.
LEMMA RecordedSent ==
  ASSUME Recorded, NEW event, Sends(event)
  PROVE  Recorded'
  BY DEF Recorded, Sends, Unheard

\* LateInv, as a notification is recorded.
LEMMA LateHeard ==
  ASSUME LateInv, StrayInv, NEW n, Hears(n), Stays
  PROVE  LateInv'
<1>1. /\ case' = case /\ fault' = fault /\ pc' = pc /\ shown' = shown
      /\ UNCHANGED <<queue, cb, ended, outstanding>>
      /\ n = "ERROR" => Coming("ERROR")
      /\ n # "ERROR" => seen'.stateAtLastError = seen.stateAtLastError
      /\ seen'.error = seen.error
      /\ "FAILURE" \in seen.states => "FAILURE" \in seen'.states
  BY DEF Hears, Stays, vars
<1>2. LateFault(case, fault)' <=> LateFault(case, fault)
  BY <1>1
<1> SUFFICES ASSUME LateFault(case, fault) PROVE LateInv'
  BY <1>2 DEF LateInv
<1>3. Recorded => Recorded'
  <2>1. CASE fault.by = "PAUSED" /\ seen.stateAtLastError = "PAUSED"
    <3>1. fault = Spoils("error", "PAUSED") /\ None # "PAUSED"
      BY <2>1, LateKinds, PlaybackAssumption
    <3>2. ~Coming("ERROR")
      BY <2>1, <3>1 DEF StrayInv
    <3> QED BY <1>1, <2>1, <3>2 DEF Recorded
  <2>2. CASE ~(fault.by = "PAUSED" /\ seen.stateAtLastError = "PAUSED")
    BY <1>1, <2>2 DEF Recorded
  <2> QED BY <2>1, <2>2
<1>4. \A s \in Sources : Queued(s)' <=> Queued(s)
  BY <1>1 DEF Queued
<1>5. CheckedAt(case, fault)' = CheckedAt(case, fault)
  BY <1>1
<1> QED BY <1>1, <1>3, <1>4, <1>5 DEF LateInv, Drained

\* LateInv, as the worker thread runs and as the playback moves.
LEMMA LateServer ==
  ASSUME LateInv, Stays, NEW event, Sends(event), event \notin {"starve", "full", "error"},
         UNCHANGED vars
  PROVE  LateInv'
<1>1. /\ case' = case /\ fault' = fault /\ pc' = pc
      /\ UNCHANGED <<queue, cb, ended, outstanding>>
  BY DEF Sends, Stays, vars
<1>2. LateFault(case, fault)' <=> LateFault(case, fault)
  BY <1>1
<1> SUFFICES ASSUME LateFault(case, fault) PROVE LateInv'
  BY <1>2 DEF LateInv
<1>3. Recorded => Recorded'
  BY RecordedSent
<1>4. ~shown /\ Drained => ~shown' /\ Drained'
  BY <1>1, LateQuiet DEF Drained
<1>5. \A s \in Sources : Queued(s)' <=> Queued(s)
  BY <1>1 DEF Queued
<1>6. CheckedAt(case, fault)' = CheckedAt(case, fault)
  BY <1>1
<1> QED BY <1>1, <1>3, <1>4, <1>5, <1>6 DEF LateInv

\* A step of the feed takes a notification from the queue, goes on with the round it has, or
\* answers.
LEMMA FaultyKinds ==
  ASSUME FeedInv, NEW s \in Sources, FaultyFed(s)
  PROVE  \/ /\ cb.phase = "idle" /\ queue # << >> /\ queue' = Tail(queue)
            /\ Head(queue).src = s /\ outstanding' = outstanding
            /\ \/ Head(queue).kind = "need" /\ cb' = cb /\ Unanswerable(s)
               \/ /\ Head(queue).kind = "need" /\ cb'.phase # "idle"
                  /\ cb'.src = s /\ cb'.id = Head(queue).id
               \/ Head(queue).kind = "cancel" /\ cb' = cb
         \/ /\ cb.phase # "idle" /\ cb.src = s /\ queue' = queue
            /\ cb'.phase # "idle" /\ cb'.src = s /\ cb'.id = cb.id
            /\ outstanding' = outstanding
         \/ HaveData(s)
<1>0. cb \in {Idle} \cup Round \cup Answer
  BY QueueTypes
<1> USE DEF observations, history
<1>1. CASE DropRequest(s)
  BY <1>1 DEF DropRequest, RecordRequest, Receive
<1>2. CASE StarveRequest(s)
  <2>1. cb'.phase = "starve" /\ cb'.src = s /\ cb'.id = Head(queue).id
    BY <1>2 DEF StarveRequest, Idle
  <2> QED BY <1>2, <2>1 DEF StarveRequest, RecordRequest, Receive
<1>3. CASE StartRound(s)
  <2>1. cb'.phase = "offer" /\ cb'.src = s /\ cb'.id = Head(queue).id
    BY <1>3 DEF StartRound, Idle
  <2> QED BY <1>3, <2>1 DEF StartRound, RecordRequest, Receive
<1>4. CASE AnswerStarved(s)
  <2>1. cb'.phase = "answer" /\ cb'.src = s /\ cb'.id = cb.id
    BY <1>0, <1>4 DEF AnswerStarved, Idle, Round, Answer
  <2> QED BY <1>4, <2>1 DEF AnswerStarved
<1>5. CASE AcceptSegment(s)
  <2>1. cb'.phase = "offer" /\ cb'.src = s /\ cb'.id = cb.id
    BY <1>0, <1>5 DEF AcceptSegment, Idle, Round, Answer
  <2> QED BY <1>5, <2>1 DEF AcceptSegment
<1>6. ASSUME NEW status, RejectSegment(s, status)
      PROVE  /\ cb.phase # "idle" /\ cb.src = s /\ queue' = queue
             /\ cb'.phase # "idle" /\ cb'.src = s /\ cb'.id = cb.id
             /\ outstanding' = outstanding
  <2>1. cb'.phase = "commit" /\ cb'.src = s /\ cb'.id = cb.id
    BY <1>0, <1>6 DEF RejectSegment, Idle, Round, Answer
  <2> QED BY <1>6, <2>1 DEF RejectSegment
<1>7. CASE CommitRound(s)
  <2>1. cb'.phase = "answer" /\ cb'.src = s /\ cb'.id = cb.id
    BY <1>0, <1>7 DEF CommitRound, Idle, Round, Answer
  <2> QED BY <1>7, <2>1 DEF CommitRound
<1>8. CASE NotifyCancelNeedMediaData(s)
  BY <1>8 DEF NotifyCancelNeedMediaData, Receive
<1> QED BY <1>1, <1>2, <1>3, <1>4, <1>5, <1>6, <1>7, <1>8 DEF FaultyFed

\* A case that does not withhold its answers lets no request go unanswered.
LEMMA AwaitedFeed ==
  ASSUME FeedInv, Awaited, NEW s \in Sources, FaultyFed(s),
         queue # << >> => ~Unanswerable(s)
  PROVE  Awaited'
<1> SUFFICES ASSUME NEW t \in Sources, outstanding'[t] # None
             PROVE  Queued(t)' \/ (cb'.phase # "idle" /\ cb'.src = t /\ cb'.id = outstanding'[t])
  BY DEF Awaited
<1>0. t = s
  BY OneSource
<1>1. outstanding[s] # None =>
        Queued(s) \/ (cb.phase # "idle" /\ cb.src = s /\ cb.id = outstanding[s])
  BY DEF Awaited
<1>2. CASE /\ cb.phase = "idle" /\ queue # << >> /\ queue' = Tail(queue)
           /\ Head(queue).src = s /\ outstanding' = outstanding
           /\ \/ Head(queue).kind = "need" /\ cb' = cb /\ Unanswerable(s)
              \/ /\ Head(queue).kind = "need" /\ cb'.phase # "idle"
                 /\ cb'.src = s /\ cb'.id = Head(queue).id
              \/ Head(queue).kind = "cancel" /\ cb' = cb
  <2>1. Queued(s)
    BY <1>0, <1>1, <1>2
  <2>2. \/ Queued(s)'
        \/ /\ Head(queue).kind = "need" /\ Head(queue).src = s
           /\ Head(queue).id = outstanding[s]
    BY <1>2, <2>1, QueuedTail
  <2> QED BY <1>0, <1>2, <2>2
<1>3. CASE /\ cb.phase # "idle" /\ cb.src = s /\ queue' = queue
           /\ cb'.phase # "idle" /\ cb'.src = s /\ cb'.id = cb.id
           /\ outstanding' = outstanding
  BY <1>0, <1>1, <1>3 DEF Queued
<1>4. CASE HaveData(s)
  <2>1. outstanding[s] # cb.id /\ outstanding' = outstanding /\ queue' = queue
    <3>1. outstanding \in [Sources -> RequestIds \cup {None}]
      BY QueueTypes
    <3> QED BY <1>0, <1>4, <3>1 DEF HaveData
  <2>2. Queued(s)
    BY <1>0, <1>1, <2>1, <1>4 DEF HaveData
  <2> QED BY <1>0, <2>1, <2>2 DEF Queued
<1> QED BY <1>2, <1>3, <1>4, FaultyKinds

\* Only the case that withholds its answers drops a request, on a server that refuses nothing.
LEMMA FaultyDropped ==
  ASSUME WalkInv, SetUpInv, fault.kind # "refuses", case # Cancelling,
         queue # << >> \/ cb.phase # "idle", NEW s \in Sources
  PROVE  ~Unanswerable(s)
<1>1. allAttached
  BY DEF SetUpInv
<1>2. pc > ReachedAt - 2
  BY <1>1 DEF SetUpInv
<1>3. pc > BindAt(case) /\ pc > AttachedAt
  BY <1>2, PcIsNat, Places
<1>4. pipelineSet /\ registered = Sources /\ ~withhold
  BY <1>3 DEF SetUpInv
<1> QED BY <1>4 DEF Unanswerable

\* LateInv, as the feed runs.
LEMMA LateFeed ==
  ASSUME WalkInv, FeedInv, SetUpInv, LateInv, Stays, NEW event, Sends(event),
         NEW s \in Sources, FaultyFed(s)
  PROVE  LateInv'
<1>1. case' = case /\ fault' = fault /\ pc' = pc
  BY DEF Sends, Stays
<1>2. LateFault(case, fault)' <=> LateFault(case, fault)
  BY <1>1
<1> SUFFICES ASSUME LateFault(case, fault) PROVE LateInv'
  BY <1>2 DEF LateInv
<1>3. ~Drained
  BY FaultyFeed DEF Drained
<1>4. Awaited
  BY DEF LateInv, Awaited
<1>5. fault.kind # "refuses" /\ case # Cancelling
  BY LateKinds DEF Starving, Refilling, Erring, Cancelling
<1>6. queue # << >> => ~Unanswerable(s)
  BY <1>5, FaultyDropped
<1>7. Awaited'
  BY <1>4, <1>6, AwaitedFeed
<1>8. Recorded => Recorded'
  BY RecordedSent
<1>9. CheckedAt(case, fault)' = CheckedAt(case, fault)
  BY <1>1
<1> QED BY <1>1, <1>3, <1>7, <1>8, <1>9 DEF LateInv, Awaited

\* LateInv, as the server asks.
LEMMA LateRequest ==
  ASSUME FeedInv, LateInv, Stays, Request, Sends("none")
  PROVE  LateInv'
<1>1. case' = case /\ fault' = fault /\ pc' = pc
  BY DEF Sends, Stays
<1>2. LateFault(case, fault)' <=> LateFault(case, fault)
  BY <1>1
<1> SUFFICES ASSUME LateFault(case, fault) PROVE LateInv'
  BY <1>2 DEF LateInv
<1>3. PICK s \in Sources, n \in FrameCounts : RequestData(s, n)
  BY RequestFeed
<1>4. ~ended[s] /\ Queued(s)' /\ \A t \in Sources : t = s
  BY <1>3, QueuedRequest, OneSource
<1>5. ~Drained
  BY <1>4 DEF Drained
<1>6. Recorded => Recorded'
  BY RecordedSent
<1>7. CheckedAt(case, fault)' = CheckedAt(case, fault)
  BY <1>1
<1> QED BY <1>1, <1>4, <1>5, <1>6, <1>7 DEF LateInv

\* Where a case of a late fault waits and looks.
LEMMA LatePlaces ==
  ASSUME case \in {Starving, Refilling, Erring}
  PROVE  /\ pc = 8 /\ case = Starving => Now.do = "await" /\ Now.what = "UNDERFLOW"
         /\ pc = 8 /\ case # Starving => Now.do = "sleep"
         /\ pc = 9 => /\ Now.do = "check" /\ Now.must = "hold"
                      /\ Now.what = IF case = Refilling THEN "noErrors" ELSE "noFailure"
         /\ pc = 10 /\ case # Starving =>
              /\ Now.do = "check" /\ Now.must = "hold"
              /\ Now.what = IF case = Refilling THEN "noFailure" ELSE "errorWhilePlaying"
<1>1. CASE case = Starving
  <2> DEFINE s == Suite["StarvationIsToleratedAndEventsObserved"].script
  <2>1. s[8] = Glance("UNDERFLOW")
    BY ScriptStarvationIsToleratedAndEventsObserved
  <2>2. s[9] = Check("noFailure")
    BY ScriptStarvationIsToleratedAndEventsObserved
  <2>3. Now = s[pc]
    BY <1>1 DEF Now, Script, Starving
  <2> HIDE DEF s
  <2> QED BY <1>1, <2>1, <2>2, <2>3 DEF Glance, Check, Step, Starving, Refilling
<1>2. CASE case = Refilling
  <2> DEFINE s == Suite["NoSpaceIsNotAnErrorAndTheSegmentIsResent"].script
  <2>1. s[8] = Sleep
    BY ScriptNoSpaceIsNotAnErrorAndTheSegmentIsResent
  <2>2. s[9] = Check("noErrors")
    BY ScriptNoSpaceIsNotAnErrorAndTheSegmentIsResent
  <2>3. s[10] = Check("noFailure")
    BY ScriptNoSpaceIsNotAnErrorAndTheSegmentIsResent
  <2>4. Now = s[pc]
    BY <1>2 DEF Now, Script, Refilling
  <2> HIDE DEF s
  <2> QED BY <1>2, <2>1, <2>2, <2>3, <2>4 DEF Sleep, Check, Step, Starving, Refilling
<1>3. CASE case = Erring
  <2> DEFINE s == Suite["NonFatalPlaybackErrorLeavesStateUnchanged"].script
  <2>1. s[8] = Sleep
    BY ScriptNonFatalPlaybackErrorLeavesStateUnchanged
  <2>2. s[9] = Check("noFailure")
    BY ScriptNonFatalPlaybackErrorLeavesStateUnchanged
  <2>3. s[10] = Check("errorWhilePlaying")
    BY ScriptNonFatalPlaybackErrorLeavesStateUnchanged
  <2>4. Now = s[pc]
    BY <1>3 DEF Now, Script, Erring
  <2> HIDE DEF s
  <2> QED BY <1>3, <2>1, <2>2, <2>3, <2>4 DEF Sleep, Check, Step, Starving, Refilling, Erring
<1> QED BY <1>1, <1>2, <1>3

\* FAILURE is a state, not one of the other signals.
LEMMA FailureIsAState ==
  ASSUME FaultyTypes, Observed("FAILURE")
  PROVE  "FAILURE" \in seen.states
<1>1. seen.events \subseteq Signals
  BY DEF FaultyTypes, FaultySeen
<1> QED BY <1>1 DEF Observed, Signals

\* Once all is quiet, a late fault that has shown has been recorded.
LEMMA ShownIsRecorded ==
  ASSUME FaultyTypes, SpoilInv, StrayInv, RejectInv, LateFault(case, fault), shown,
         notices = << >>
  PROVE  Recorded
<1>1. \A n : ~Coming(n)
  <2>1. DOMAIN notices = {}
    OBVIOUS
  <2> QED BY <2>1 DEF Coming, Has
<1>2. CASE fault = RejectsSegment
  BY <1>2 DEF RejectInv, Recorded
<1>3. CASE fault.kind = "spoils" /\ fault.by = "PAUSED"
  BY <1>1, <1>3, LateKinds DEF StrayInv, Recorded
<1>4. CASE fault.kind = "spoils" /\ fault.by = "FAILURE"
  <2>1. Ahead(fault.by)
    BY <1>4 DEF SpoilInv
  <2>2. Observed("FAILURE")
    BY <1>1, <1>4, <2>1 DEF Ahead
  <2> QED BY <1>4, <2>2, FailureIsAState DEF Recorded
<1> QED BY <1>2, <1>3, <1>4, LateKinds

\* Once all is quiet, nothing more comes of the feed, unless the fault has shown.
LEMMA SettledIsDrained ==
  ASSUME SetUpInv, SpoilInv, LateInv, LateFault(case, fault), ~shown, pc = 8, Settled(Short)
  PROVE  Drained
<1>1. fault.kind # "refuses" /\ (fault.what = "starve" <=> case = Starving)
  BY LateKinds
<1>2. allAttached
  BY <1>1, Places DEF SetUpInv
<1>3. queue = << >> /\ cb.phase = "idle" /\ DOMAIN queue = {}
  BY DEF Settled
<1>4. ~(starve /\ srv.starved)
  <2>1. starve => case = Starving
    BY <1>1 DEF SetUpInv
  <2>2. case = Starving => fault.kind = "spoils"
    BY LateKinds DEF RejectsSegment, Fault
  <2> QED BY <1>1, <2>1, <2>2 DEF SpoilInv
<1>5. \A s \in Sources : outstanding[s] # None \/ ended[s]
  BY <1>2, <1>4 DEF Settled
<1>6. \A s \in Sources : outstanding[s] = None
  BY <1>3 DEF LateInv, Queued
<1> QED BY <1>3, <1>5, <1>6 DEF Drained

\* What the case asserts does not hold where it has been recorded.
LEMMA RecordedIsCaught ==
  ASSUME LateFault(case, fault), Passes, pc = CheckedAt(case, fault)
  PROVE  ~Recorded
<1>1. /\ Now.do = "check" /\ Now.must = "hold"
      /\ \/ fault.by = "FAILURE" /\ Now.what = "noFailure"
         \/ fault = RejectsSegment /\ fault.by = "none" /\ Now.what = "noErrors"
         \/ fault.by = "PAUSED" /\ fault # RejectsSegment /\ Now.what = "errorWhilePlaying"
  <2>0. Starving # Refilling /\ Erring # Refilling /\ Erring # Starving
    BY DEF Starving, Refilling, Erring
  <2>1. CASE case = Starving /\ fault = Spoils("starve", "FAILURE")
    <3>1. pc = 9 /\ fault.by = "FAILURE"
      BY <2>1 DEF CheckedAt, Spoils, Fault
    <3> QED BY <2>0, <2>1, <3>1, LatePlaces
  <2>2. CASE case = Refilling /\ fault = Spoils("full", "FAILURE")
    <3>1. pc = 10 /\ fault.by = "FAILURE"
      BY <2>0, <2>2 DEF CheckedAt, Spoils, RejectsSegment, Fault
    <3> QED BY <2>0, <2>2, <3>1, LatePlaces
  <2>3. CASE case = Refilling /\ fault = RejectsSegment
    <3>1. pc = 9 /\ fault.by = "none"
      BY <2>3 DEF CheckedAt, RejectsSegment, Fault
    <3> QED BY <2>0, <2>3, <3>1, LatePlaces
  <2>4. CASE case = Erring /\ fault = Spoils("error", "FAILURE")
    <3>1. pc = 9 /\ fault.by = "FAILURE"
      BY <2>4 DEF CheckedAt, Spoils, Fault
    <3> QED BY <2>0, <2>4, <3>1, LatePlaces
  <2>5. CASE case = Erring /\ fault = Spoils("error", "PAUSED")
    <3>1. pc = 10 /\ fault.by = "PAUSED" /\ fault # RejectsSegment
      BY <2>0, <2>5 DEF CheckedAt, Spoils, RejectsSegment, Fault
    <3> QED BY <2>0, <2>5, <3>1, LatePlaces
  <2> QED BY <2>1, <2>2, <2>3, <2>4, <2>5 DEF LateFault
<1>2. Holds(Now.what)
  BY <1>1 DEF Passes, Insists
<1>3. CASE fault.by = "FAILURE" /\ Now.what = "noFailure"
  <2>1. "FAILURE" \notin seen.states
    BY <1>2, <1>3 DEF Holds
  <2>2. fault # RejectsSegment
    BY <1>3 DEF RejectsSegment, Fault
  <2> QED BY <1>3, <2>1, <2>2 DEF Recorded
<1>4. CASE fault = RejectsSegment /\ fault.by = "none" /\ Now.what = "noErrors"
  <2>1. ~seen.error
    BY <1>2, <1>4 DEF Holds
  <2> QED BY <1>4, <2>1 DEF Recorded
<1>5. CASE fault.by = "PAUSED" /\ fault # RejectsSegment /\ Now.what = "errorWhilePlaying"
  <2>1. seen.stateAtLastError \in {None, "PLAYING"}
    BY <1>2, <1>5 DEF Holds
  <2>2. seen.stateAtLastError # "PAUSED"
    BY <2>1, PlaybackAssumption
  <2> QED BY <1>5, <2>2 DEF Recorded
<1> QED BY <1>1, <1>3, <1>4, <1>5

\* LateInv, as the case takes a step.
LEMMA LateTest ==
  ASSUME WalkInv, FaultyTypes, SetUpInv, SpoilInv, StrayInv, RejectInv, LateInv, Passes,
         NEW event \in {"none", "load"}, Sends(event)
  PROVE  LateInv'
<1>1. case' = case /\ fault' = fault /\ pc' = pc + 1 /\ pc \in Nat /\ Kinds(case, pc, Now)
  BY DEF Sends, Passes
<1>2. LateFault(case, fault)' <=> LateFault(case, fault)
  BY <1>1
<1> SUFFICES ASSUME LateFault(case, fault) PROVE LateInv'
  BY <1>2 DEF LateInv
<1>3. case \in {Starving, Refilling, Erring}
  BY LateKinds
<1>4. UNCHANGED <<queue, cb, ended, outstanding>>
  <2>1. CASE UNCHANGED vars
    BY <2>1 DEF vars
  <2>2. CASE Now.do \in {"call", "write"} /\ Performed(Now.what, Now.value)
    <3> DEFINE op == Now.what
    <3>1. /\ op \notin FeedOps => UNCHANGED vars
          /\ op \in FeedOps => FeedCall(op, Now.value)
      BY <2>2 DEF Performed
    <3>2. op \notin {"flush", "setPosition"}
      BY <1>1, <1>3, <2>2
         DEF Kinds, CallKinds, Starving, Refilling, Erring, Flushing, Seeking, Cancelling
    <3> HIDE DEF op
    <3> QED BY <3>1, <3>2, FeedCalls, Zenon
  <2> QED BY <2>1, <2>2 DEF Passes
<1>5. Recorded => Recorded'
  BY RecordedSent
<1>6. ~shown /\ Drained => ~shown' /\ Drained'
  BY <1>4, LateQuiet DEF Drained
<1>7. \A s \in Sources : Queued(s)' <=> Queued(s)
  BY <1>4 DEF Queued
<1>8. CheckedAt(case, fault)' = CheckedAt(case, fault) /\ CheckedAt(case, fault) \in {9, 10}
  BY <1>1 DEF CheckedAt
<1>9. pc = 8 => Recorded \/ (~shown /\ Drained)
  <2> SUFFICES ASSUME pc = 8 PROVE Recorded \/ (~shown /\ Drained)
    OBVIOUS
  <2>1. CASE Settled(Short)
    <3>1. notices = << >>
      BY <2>1 DEF Settled
    <3> QED BY <2>1, <3>1, ShownIsRecorded, SettledIsDrained
  <2>2. CASE case = Starving /\ Observed("UNDERFLOW")
    <3>1. fault = Spoils("starve", "FAILURE")
      BY <2>2 DEF LateFault, Starving, Refilling, Erring
    <3>2. fault.kind = "spoils" /\ fault.what = "starve" /\ fault.by = "FAILURE"
      BY <3>1 DEF Spoils, Fault
    <3>3. First("FAILURE", "UNDERFLOW")
      BY <3>2 DEF SpoilInv, Milestone
    <3>4. "FAILURE" \in seen.states
      BY <2>2, <3>3, FailureIsAState DEF First
    <3> QED BY <3>2, <3>4 DEF Recorded
  <2>3. Settled(Short) \/ (case = Starving /\ Observed("UNDERFLOW"))
    BY <1>3, LatePlaces DEF Passes
  <2> QED BY <2>1, <2>2, <2>3
<1>10. pc' > 8 => Recorded \/ (~shown /\ Drained)
  BY <1>1, <1>9 DEF LateInv
<1>11. pc' > CheckedAt(case, fault) => ~shown /\ Drained
  <2>1. CASE pc > CheckedAt(case, fault)
    BY <2>1 DEF LateInv
  <2>2. CASE pc = CheckedAt(case, fault)
    <3>1. ~Recorded
      BY <2>2, RecordedIsCaught
    <3>2. pc > 8
      BY <1>8, <2>2
    <3> QED BY <3>1, <3>2 DEF LateInv
  <2>3. ~(pc > CheckedAt(case, fault)) /\ pc # CheckedAt(case, fault) =>
          ~(pc' > CheckedAt(case, fault))
    BY <1>1, <1>8
  <2> QED BY <2>1, <2>2, <2>3
<1>12. \A s \in Sources : outstanding'[s] # None =>
         Queued(s)' \/ (cb'.phase # "idle" /\ cb'.src = s /\ cb'.id = outstanding'[s])
  BY <1>4, <1>7 DEF LateInv
<1> QED BY <1>5, <1>6, <1>8, <1>10, <1>11, <1>12 DEF LateInv

-----------------------------------------------------------------------------
(***************************************************************************)
(* No server gets past a step that traps its fault: UntrappedInv.          *)
(***************************************************************************)

\* Past the wait for playback, playback has been announced, and has begun.
LEMMA PlayingSeen ==
  ASSUME WalkInv, SeenInv, ~Finished, pc > ReachedAt
  PROVE  Observed("PLAYING") /\ srv.state # "IDLE"
<1>1. /\ case \in DOMAIN Suite /\ ReachedAt \in 1 .. pc - 1 /\ ReachedAt \in 1 .. Len(Script)
  <2>1. /\ case \in DOMAIN Suite /\ Len(Script) \in Nat /\ pc \in 1 .. Len(Script)
    BY AtStep DEF WalkInv
  <2>2. ReachedAt \in {6, 7}
    BY Places
  <2> QED BY <2>1, <2>2
<1>2. Kinds(case, ReachedAt, Script[ReachedAt])
  BY <1>1, ScriptKinds DEF Script
<1>3. Script[ReachedAt] = Reach("PLAYING")
  BY <1>2 DEF Kinds, ReachedAt
<1>4. /\ Script[ReachedAt].do = "await" /\ Script[ReachedAt].must = "abort"
      /\ Script[ReachedAt].what = "PLAYING"
  BY <1>3 DEF Reach, Step
<1>5. Observed("PLAYING")
  BY <1>1, <1>4 DEF SeenInv
<1> QED BY <1>5 DEF SeenInv, Ahead

\* A server that refuses, ignores or silences, at the step that traps it.
LEMMA AccessTrapped ==
  ASSUME MissingInv, Passes, Insists
  PROVE  /\ ~(Now.do \in {"call", "write"} /\ fault = Refuses(Now.what))
         /\ ~(/\ Now.do \in {"poll", "pollIfSupported"} /\ Now.value = TRUE
              /\ fault = Ignores(fault.what))
         /\ ~(/\ Now.do = "await" /\ fault = Silences(fault.what)
              /\ fault.what \in DOMAIN Announced /\ Now.what = Announced[fault.what])
         /\ ~(Now.do = "check" /\ Now.what = "buffering" /\ fault = Silences("load"))
<1>1. ~(Now.do \in {"call", "write"} /\ fault = Refuses(Now.what))
  BY DEF Passes
<1>2. ASSUME Now.do \in {"poll", "pollIfSupported"}, Now.value = TRUE,
             fault = Ignores(fault.what)
      PROVE  FALSE
  <2>1. fault.kind = "ignores"
    BY <1>2 DEF Ignores, Fault
  <2>2. srv.property = TRUE
    BY <1>2, <2>1 DEF Passes
  <2> QED BY <2>1, <2>2 DEF MissingInv
<1>3. ASSUME Now.do = "await", fault = Silences(fault.what), fault.what \in DOMAIN Announced,
             Now.what = Announced[fault.what]
      PROVE  FALSE
  <2>1. Observed(Now.what)
    BY <1>3 DEF Passes
  <2> QED BY <1>3, <2>1 DEF MissingInv, Ahead
<1>4. ASSUME Now.do = "check", Now.what = "buffering", fault = Silences("load")
      PROVE  FALSE
  <2>1. Holds(Now.what)
    BY <1>4 DEF Passes
  <2>2. "BUFFERING" \in seen.events
    BY <1>4, <2>1 DEF Holds
  <2>3. Observed(Announced["load"]) /\ "load" \in DOMAIN Announced
    BY <2>2 DEF Observed, Announced
  <2> QED BY <1>4, <2>3 DEF MissingInv, Ahead
<1> QED BY <1>1, <1>2, <1>3, <1>4

\* A getter that answers the opposite, where its answer is asserted.
LEMMA GetTrapped ==
  ASSUME WalkInv, SetUpInv, SeenInv, Passes, Now.do = "get"
  PROVE  fault # Misanswers(Now.what)
<1> SUFFICES ASSUME fault = Misanswers(Now.what) PROVE FALSE
  OBVIOUS
<1>1. /\ Kinds(case, pc, Now) /\ ~Finished
      /\ Now.value # CASE Now.what = "getDuration"     -> FALSE
                       [] Now.what = "rejectsUnissued" -> TRUE
                       [] OTHER                        -> srv.state # "IDLE"
  BY DEF Passes
<1>2. /\ Now.value \in BOOLEAN
      /\ \/ pc = 2 /\ Now.value = FALSE /\ Now.what # "rejectsUnissued"
         \/ pc > ReachedAt /\ (Now.value = TRUE <=> Now.what # "getDuration")
  BY <1>1 DEF Kinds, ReachedAt
<1>3. CASE Now.what = "getDuration"
  <2>1. Now.value # FALSE
    BY <1>1, <1>3
  <2> QED BY <1>2, <1>3, <2>1
<1>4. CASE Now.what = "rejectsUnissued"
  <2>1. Now.value # TRUE
    BY <1>1, <1>4
  <2> QED BY <1>2, <1>4, <2>1
<1>5. CASE Now.what \notin {"getDuration", "rejectsUnissued"}
  <2>1. Now.value # (srv.state # "IDLE")
    BY <1>1, <1>5
  <2>2. CASE pc = 2 /\ Now.value = FALSE
    <3>1. fault.kind # "refuses"
      BY DEF Misanswers, Fault
    <3>2. ~allAttached
      BY <2>2, <3>1, Places DEF SetUpInv
    <3>3. srv.state = "IDLE"
      BY <3>1, <3>2 DEF SetUpInv
    <3> QED BY <2>1, <2>2, <3>3
  <2>3. CASE pc > ReachedAt /\ Now.value = TRUE
    <3>1. srv.state # "IDLE"
      BY <1>1, <2>3, PlayingSeen
    <3> QED BY <2>1, <2>3, <3>1
  <2> QED BY <1>2, <1>5, <2>2, <2>3
<1> QED BY <1>3, <1>4, <1>5

\* A server that spoils an event, where the case looks for what does.
LEMMA SpoiltTrapped ==
  ASSUME FaultyTypes, SpoilInv, fault.kind = "spoils", fault.by \in {"FAILURE", "NETWORK_ERROR"},
         Observed(fault.by), Passes, Insists, Now.do = "check"
  PROVE  Now.what # LooksFor(fault)
<1> SUFFICES ASSUME Now.what = LooksFor(fault) PROVE FALSE
  OBVIOUS
<1>1. Holds(Now.what)
  BY DEF Passes
<1>2. CASE fault.by = "FAILURE"
  <2>1. "FAILURE" \in seen.states
    BY <1>2, FailureIsAState
  <2>2. "FAILURE" \notin seen.states
    BY <1>1, <1>2 DEF LooksFor, Holds
  <2> QED BY <2>1, <2>2
<1>3. CASE fault.by = "NETWORK_ERROR"
  <2>1. Now.what = "noNetworkError"
    BY <1>3 DEF LooksFor
  <2>2. "NETWORK_ERROR" \notin seen.events
    BY <1>1, <2>1 DEF Holds
  <2>3. seen.states \subseteq PlaybackStates
    BY DEF FaultyTypes, FaultySeen
  <2> QED BY <1>3, <2>2, <2>3 DEF Observed, PlaybackStates
<1> QED BY <1>2, <1>3

\* No server gets past the step that traps its fault.
LEMMA NotPast ==
  ASSUME WalkInv, FaultyTypes, SetUpInv, SeenInv, MissingInv, SpoilInv, RejectInv, Passes
  PROVE  ~Traps(case, fault, pc)
<1> SUFFICES ASSUME Traps(case, fault, pc) PROVE FALSE
  OBVIOUS
<1>0. /\ Now = Suite[case].script[pc] /\ Script = Suite[case].script /\ ~Finished
      /\ Kinds(case, pc, Now) /\ pc \in Nat
  BY DEF Now, Script, Passes
<1>1. Insists
  BY <1>0 DEF Traps, Insists
<1>2. CASE Now.do = "check" /\ fault.kind = "spoils" /\ Now.what = LooksFor(fault)
           /\ fault.by \in {"FAILURE", "NETWORK_ERROR"} /\ fault.what \in DOMAIN Milestone
           /\ \E j \in 1 .. pc - 1 :
                /\ Script[j].do = "await" /\ Script[j].must # "ignored"
                /\ Script[j].what = Milestone[fault.what]
  <2>1. Observed(Milestone[fault.what])
    BY <1>2 DEF SeenInv
  <2>2. Observed(fault.by)
    BY <1>2, <2>1 DEF SpoilInv, First
  <2> QED BY <1>1, <1>2, <2>2, SpoiltTrapped
<1>3. CASE Now.do = "check" /\ Now.what = "noFailure" /\ fault = Spoils("flush", "FAILURE")
           /\ pc > 11
  <2>1. fault.kind = "spoils" /\ fault.what = "flush" /\ fault.by = "FAILURE"
    BY <1>3 DEF Spoils, Fault
  <2>2. Observed(fault.by)
    BY <1>3, <2>1 DEF SpoilInv
  <2>3. Now.what = LooksFor(fault)
    BY <1>3, <2>1 DEF LooksFor
  <2> QED BY <1>1, <1>3, <2>1, <2>2, <2>3, SpoiltTrapped
<1>4. CASE Now.do = "check" /\ Now.what = "allAccepted" /\ fault = RejectsSegment
           /\ case = Protocol /\ pc > ReachAt(case)
  <2>1. Holds(Now.what)
    BY <1>1, <1>4 DEF Passes
  <2>2. allSegmentsAccepted
    BY <1>4, <2>1 DEF Holds
  <2>3. Observed("PLAYING")
    BY <1>0, <1>4, PlayingSeen DEF ReachedAt
  <2> QED BY <1>4, <2>2, <2>3 DEF RejectInv, Ahead
<1>5. \/ Now.do \in {"call", "write"} /\ fault = Refuses(Now.what)
      \/ Now.do = "get" /\ fault = Misanswers(Now.what)
      \/ /\ Now.do \in {"poll", "pollIfSupported"} /\ Now.value = TRUE
         /\ fault = Ignores(fault.what)
      \/ /\ Now.do = "await" /\ fault = Silences(fault.what)
         /\ fault.what \in DOMAIN Announced /\ Now.what = Announced[fault.what]
      \/ Now.do = "check" /\ Now.what = "buffering" /\ fault = Silences("load")
      \/ /\ Now.do = "check" /\ fault.kind = "spoils"
         /\ fault.by \in {"FAILURE", "NETWORK_ERROR"} /\ Now.what = LooksFor(fault)
         /\ fault.what \in DOMAIN Milestone
         /\ \E j \in 1 .. pc - 1 :
              /\ Script[j].do = "await" /\ Script[j].must # "ignored"
              /\ Script[j].what = Milestone[fault.what]
      \/ /\ Now.do = "check" /\ Now.what = "noFailure" /\ fault = Spoils("flush", "FAILURE")
         /\ pc > 11
      \/ /\ Now.do = "check" /\ Now.what = "allAccepted" /\ fault = RejectsSegment
         /\ case = Protocol /\ pc > ReachAt(case)
  BY Zenon DEF Traps, Now, Script
<1> QED BY <1>1, <1>2, <1>3, <1>4, <1>5, AccessTrapped, GetTrapped

\* UntrappedInv, where the case stays where it is.
LEMMA UntrappedStays ==
  ASSUME UntrappedInv, Stays, fault' = fault
  PROVE  UntrappedInv'
BY DEF UntrappedInv, Stays

\* UntrappedInv, as the case takes a step.
LEMMA UntrappedTest ==
  ASSUME WalkInv, FaultyTypes, SetUpInv, SeenInv, MissingInv, SpoilInv, RejectInv,
         UntrappedInv, Passes, fault' = fault
  PROVE  UntrappedInv'
<1>1. pc \in Nat /\ pc' = pc + 1 /\ case' = case
  BY DEF Passes
<1>2. ~Traps(case, fault, pc)
  BY NotPast
<1>3. \A k \in 1 .. pc' - 1 : k = pc \/ k \in 1 .. pc - 1
  BY <1>1
<1>4. \A k \in 1 .. pc' - 1 : ~Traps(case, fault, k)
  BY <1>2, <1>3 DEF UntrappedInv
<1> QED BY <1>1, <1>4 DEF UntrappedInv

-----------------------------------------------------------------------------
(***************************************************************************)
(* Every step keeps the invariant.                                         *)
(***************************************************************************)

\* A notification keeps it.
LEMMA CatchNotify ==
  ASSUME Faulty, CatchInvariant, Stays, Notify
  PROVE  CatchInvariant'
<1>0. /\ FaultyTypes /\ SetUpInv /\ SeenInv /\ MissingInv /\ SpoilInv /\ StrayInv /\ RejectInv
      /\ LateInv /\ UntrappedInv /\ SentByFault
  BY DEF CatchInvariant, Faulty
<1>1. PICK n : Hears(n)
  BY <1>0, NotifyHears
<1>2. UNCHANGED <<vars, fault, shown, tasks, srv, head>> /\ FaultyTypes'
  BY <1>1 DEF Hears
<1>3. /\ UNCHANGED <<binding, modes, tasks>> /\ UNCHANGED <<queue, cb>>
      /\ srv' = srv /\ fault' = fault
  BY <1>2 DEF vars
<1>4. SetUpInv'
  BY <1>0, <1>3, SetUpStays
<1>5. SeenInv' /\ MissingInv' /\ SpoilInv' /\ StrayInv'
  BY <1>0, <1>1, SeenHeard, MissingHeard, SpoilHeard, StrayHeard
<1>6. RejectInv' /\ LateInv' /\ UntrappedInv'
  BY <1>0, <1>1, <1>3, RejectHeard, LateHeard, UntrappedStays
<1> QED BY <1>2, <1>4, <1>5, <1>6 DEF CatchInvariant

\* So does a step of the server that leaves the feed alone, or none.
LEMMA CatchServer ==
  ASSUME Faulty, fault.kind = "spoils" => FaultKinds(case, fault), CatchInvariant, Stays,
         NEW event, Sends(event), Leaves(event), event \notin {"starve", "full", "error"},
         SetUpInv', UNCHANGED vars, head' = head
  PROVE  CatchInvariant'
<1>0. /\ FaultyTypes /\ SetUpInv /\ SeenInv /\ MissingInv /\ SpoilInv /\ StrayInv /\ RejectInv
      /\ LateInv /\ UntrappedInv /\ SentByFault
  BY DEF CatchInvariant, Faulty
<1>1. fault' = fault /\ FaultyTypes'
  BY DEF Sends
<1>2. UNCHANGED <<cb, nextFrame, observations, ended>>
  BY DEF vars
<1>3. SeenInv' /\ MissingInv' /\ StrayInv'
  BY <1>0, SeenSent, MissingSent, StraySent
<1>4. SpoilInv'
  BY <1>0, SpoilSent
<1>5. RejectInv' /\ LateInv' /\ UntrappedInv'
  BY <1>0, <1>1, <1>2, RejectServer, LateServer, UntrappedStays
<1> QED BY <1>1, <1>3, <1>4, <1>5 DEF CatchInvariant

\* The worker thread keeps it.
LEMMA CatchWork ==
  ASSUME Faulty, fault.kind = "spoils" => FaultKinds(case, fault), CatchInvariant, Stays, Work
  PROVE  CatchInvariant'
<1>1. tasks # << >> /\ UNCHANGED vars /\ head' = head
  BY WorkSends
<1>2. PICK event \in {"none", "flush", "seek"} :
        /\ Sends(event)
        /\ \A do : HasDo(tasks, do) =>
             HasDo(tasks', do) \/ (do = "flush" => event = "flush")
  BY WorkSends
<1>3. Leaves(event)
  BY <1>2 DEF Leaves, Due
<1>4. WalkInv /\ SetUpInv /\ fault' = fault
  BY <1>2 DEF Faulty, CatchInvariant, Sends
<1>5. SetUpInv'
  BY <1>1, <1>4, SetUpWork
<1> QED BY <1>1, <1>2, <1>3, <1>5, CatchServer

\* The playback keeps it.
LEMMA CatchPlay ==
  ASSUME Faulty, fault.kind = "spoils" => FaultKinds(case, fault), CatchInvariant, Stays,
         Play(Short)
  PROVE  CatchInvariant'
<1>1. UNCHANGED <<vars, tasks>> /\ head' = head /\ srv'.target = srv.target
  BY PlaySends
<1>2. PICK event \in {"preroll", "play", "pause", "stop", "seekDone", "eos"} : Sends(event)
  BY PlaySends
<1>3. Leaves(event)
  BY <1>1 DEF Leaves, Due
<1>4. WalkInv /\ SetUpInv
  BY DEF Faulty, CatchInvariant
<1>5. SetUpInv'
  BY <1>1, <1>2, <1>4, SetUpPlay
<1> QED BY <1>1, <1>2, <1>3, <1>5, CatchServer

\* It holds when nothing changes.
LEMMA CatchStutter ==
  ASSUME Faulty, fault.kind = "spoils" => FaultKinds(case, fault), CatchInvariant,
         UNCHANGED caseVars
  PROVE  CatchInvariant'
<1>1. UNCHANGED <<vars, playbackVars>> /\ Stays
  BY ServerStays DEF caseVars
<1>2. Sends("none")
  BY <1>1, ReadSends
<1>3. head' = head /\ tasks' = tasks /\ srv' = srv /\ fault' = fault
  BY <1>1 DEF playbackVars
<1>4. Leaves("none")
  BY <1>3 DEF Leaves, Due
<1>5. UNCHANGED <<binding, modes, tasks>> /\ UNCHANGED <<queue, cb>>
  BY <1>1, <1>3 DEF vars
<1>6. SetUpInv
  BY DEF CatchInvariant
<1>7. SetUpInv'
  BY <1>1, <1>3, <1>5, <1>6, SetUpStays
<1> QED BY <1>1, <1>2, <1>3, <1>4, <1>7, CatchServer

\* The server's requests keep it.
LEMMA CatchRequest ==
  ASSUME Faulty, fault.kind = "spoils" => FaultKinds(case, fault), CatchInvariant, Stays,
         Request
  PROVE  CatchInvariant'
<1>0. /\ FaultyTypes /\ SetUpInv /\ SeenInv /\ MissingInv /\ SpoilInv /\ StrayInv /\ RejectInv
      /\ LateInv /\ UntrappedInv /\ SentByFault /\ FeedInv
  BY DEF CatchInvariant, Faulty
<1>1. Sends("none") /\ UNCHANGED playbackVars
  BY RequestSends
<1>2. fault' = fault /\ FaultyTypes' /\ head' = head /\ tasks' = tasks
  BY <1>1 DEF Sends, playbackVars
<1>3. UNCHANGED <<cb, nextFrame, observations, ended>>
  BY RequestFeed
<1>4. Leaves("none")
  BY <1>2 DEF Leaves, Due
<1>5. SetUpInv'
  BY <1>0, SetUpRequest
<1>6. SeenInv' /\ MissingInv' /\ StrayInv'
  BY <1>0, <1>1, SeenSent, MissingSent, StraySent
<1>7. SpoilInv'
  BY <1>0, <1>1, <1>4, SpoilSent
<1>8. RejectInv'
  BY <1>0, <1>1, <1>2, <1>3, RejectServer
<1>9. LateInv' /\ UntrappedInv'
  BY <1>0, <1>1, <1>2, LateRequest, UntrappedStays
<1> QED BY <1>2, <1>5, <1>6, <1>7, <1>8, <1>9 DEF CatchInvariant

\* The feed keeps it.
LEMMA CatchFeed ==
  ASSUME Faulty, fault.kind = "spoils" => FaultKinds(case, fault), CatchInvariant, Stays, Feed
  PROVE  CatchInvariant'
<1>0. /\ FaultyTypes /\ SetUpInv /\ SeenInv /\ MissingInv /\ SpoilInv /\ StrayInv /\ RejectInv
      /\ LateInv /\ UntrappedInv /\ SentByFault /\ FeedInv /\ WalkInv
  BY DEF CatchInvariant, Faulty
<1>1. tasks' = tasks /\ srv'.target = srv.target
  BY FeedSends
<1>2. PICK event \in {"none", "starve", "error", "full"} : Sends(event)
  BY FeedSends
<1>3. PICK s \in Sources : FaultyFed(s)
  BY FeedSends
<1>4. fault' = fault /\ FaultyTypes'
  BY <1>2 DEF Sends
<1>5. Leaves(event)
  BY <1>1 DEF Leaves, Due
<1>6. SetUpInv'
  BY <1>0, <1>1, <1>2, <1>3, SetUpFeed
<1>7. SeenInv' /\ MissingInv' /\ StrayInv'
  BY <1>0, <1>2, SeenSent, MissingSent, StraySent
<1>8. SpoilInv'
  BY <1>0, <1>2, <1>5, SpoilSent
<1>9. RejectInv'
  BY <1>0, <1>2, <1>3, RejectFeed
<1>10. LateInv'
  BY <1>0, <1>2, <1>3, LateFeed
<1>11. UntrappedInv'
  BY <1>0, <1>4, UntrappedStays
<1> QED BY <1>4, <1>6, <1>7, <1>8, <1>9, <1>10, <1>11 DEF CatchInvariant

\* A step of the case that does not fail it keeps it.
LEMMA CatchTest ==
  ASSUME Faulty, fault.kind = "spoils" => FaultKinds(case, fault), CatchInvariant,
         TestCase, ~failed'
  PROVE  CatchInvariant'
<1>0. /\ FaultyTypes /\ SetUpInv /\ SeenInv /\ MissingInv /\ SpoilInv /\ StrayInv /\ RejectInv
      /\ LateInv /\ UntrappedInv /\ SentByFault /\ FeedInv /\ WalkInv
  BY DEF CatchInvariant, Faulty
<1>1. Passes /\ srv'.target = srv.target
  BY TestPasses
<1>2. PICK event \in {"none", "load"} :
        /\ Sends(event)
        /\ Now.do = "call" /\ Now.what = "load" /\ fault # Refuses("load") => event = "load"
  BY TestPasses
<1>3. fault' = fault /\ FaultyTypes'
  BY <1>2 DEF Sends
<1>4. Leaves(event)
  BY <1>1, PassesLeaves
<1>5. SetUpInv'
  BY <1>0, <1>1, <1>2, SetUpTest
<1>6. SeenInv' /\ MissingInv' /\ StrayInv'
  BY <1>0, <1>1, <1>2, SeenSent, MissingSent, StraySent
<1>7. SpoilInv'
  BY <1>0, <1>1, <1>2, <1>4, SpoilSent
<1>8. RejectInv'
  BY <1>0, <1>1, <1>2, RejectTest
<1>9. LateInv'
  BY <1>0, <1>1, <1>2, LateTest
<1>10. UntrappedInv'
  BY <1>0, <1>1, <1>3, UntrappedTest
<1> QED BY <1>3, <1>5, <1>6, <1>7, <1>8, <1>9, <1>10 DEF CatchInvariant

\* What fails a case fails it for good.
LEMMA FailedStays ==
  ASSUME CaseNext, failed, WalkInv
  PROVE  failed'
<1>1. CASE TestCase
  <2>1. PICK ok : Judge(Script, ok)
    BY <1>1, TestCaseJudges
  <2> QED BY <2>1 DEF Judge
<1>2. CASE failed' = failed
  BY <1>2
<1> QED BY <1>1, <1>2 DEF CaseNext

\* Every step keeps the invariant, on a server with a fault the case is there to catch.
LEMMA CatchKept ==
  ASSUME WalkInv, FeedInv, CatchInv, [CaseNext]_caseVars
  PROVE  CatchInv'
<1>1. fault' = fault /\ case' = case /\ (failed => failed')
  <2>1. CASE TestCase
    <3>1. PICK ok : Judge(Script, ok)
      BY <2>1, TestCaseJudges
    <3>2. case' = case
      BY <3>1 DEF Judge
    <3> QED BY <2>1, <3>2, FaultKept, FailedStays DEF CaseNext
  <2>2. CASE ServerStep /\ UNCHANGED <<case, pc, failed>>
    BY <2>2, FaultKept DEF CaseNext
  <2>3. CASE UNCHANGED caseVars
    BY <2>3 DEF caseVars, playbackVars
  <2> QED BY <2>1, <2>2, <2>3 DEF CaseNext
<1> SUFFICES ASSUME Catches, ~failed'
             PROVE  CatchInvariant'
  BY <1>1 DEF CatchInv, Catches
<1>2. CatchInvariant
  BY <1>1 DEF CatchInv
<1>3. FaultKinds(case, fault)
  BY AllGuarded DEF Catches, WalkInv, Guarded
<1>4. Faulty
  <2>1. SentByFault
    BY <1>3 DEF FaultKinds, SentByFault
  <2> QED BY <1>2, <2>1 DEF Faulty, CatchInvariant
<1>5. CASE TestCase
  BY <1>2, <1>3, <1>4, <1>5, CatchTest
<1>6. CASE ServerStep /\ UNCHANGED <<case, pc, failed>>
  <2>1. Stays
    BY <1>6, ServerStays
  <2>2. CASE Notify
    BY <1>2, <1>4, <2>1, <2>2, CatchNotify
  <2>3. CASE Work
    BY <1>2, <1>3, <1>4, <2>1, <2>3, CatchWork
  <2>4. CASE Play(Short)
    BY <1>2, <1>3, <1>4, <2>1, <2>4, CatchPlay
  <2>5. CASE Feed
    BY <1>2, <1>3, <1>4, <2>1, <2>5, CatchFeed
  <2>6. CASE Request
    BY <1>2, <1>3, <1>4, <2>1, <2>6, CatchRequest
  <2>7. fault.kind # "overlaps"
    BY <1>3 DEF FaultKinds, Refuses, Misanswers, Ignores, Silences, Spoils, RejectsSegment,
            Fault
  <2>8. CASE Overlap
    BY <2>7, <2>8 DEF Overlap, Overlaps, Fault
  <2> QED BY <1>6, <2>2, <2>3, <2>4, <2>5, <2>6, <2>8 DEF ServerStep
<1>7. CASE UNCHANGED caseVars
  BY <1>2, <1>3, <1>4, <1>7, CatchStutter
<1> QED BY <1>5, <1>6, <1>7 DEF CaseNext

\* It holds to begin with.
LEMMA CatchInit ==
  ASSUME CaseInit
  PROVE  CatchInv
<1> SUFFICES ASSUME Catches
             PROVE  CatchInvariant
  BY DEF CatchInv
<1>1. /\ pc = 1 /\ shown = FALSE
      /\ pipelineSet = FALSE /\ registered = {} /\ allAttached = FALSE
      /\ nextFrame = [s \in Sources |-> 0] /\ allSegmentsAccepted = TRUE
      /\ starve = FALSE /\ withhold = FALSE /\ cb = Idle /\ queue = << >>
      /\ outstanding = [s \in Sources |-> None] /\ ended = [s \in Sources |-> FALSE]
  BY Zenon DEF CaseInit, ScriptInit, PlaybackInit, Init
<1>2. /\ notices = << >> /\ tasks = << >>
      /\ seen = [states |-> {}, lastState |-> "UNKNOWN", events |-> {},
                 stateAtLastError |-> None, requested |-> FALSE, noSpace |-> FALSE,
                 error |-> FALSE]
      /\ srv = [state |-> "IDLE", target |-> "PAUSED", seeking |-> FALSE,
                property |-> Preset(case), corrupt |-> FALSE, starved |-> FALSE]
      /\ head = [s \in Sources |-> None]
  BY Zenon DEF CaseInit, PlaybackInit
<1>3. DOMAIN notices = {} /\ DOMAIN tasks = {}
  BY <1>2
<1>4. \A n : ~Coming(n) /\ ~Observed(n) /\ ~Ahead(n)
  BY <1>2, <1>3 DEF Coming, Observed, Ahead, Has
<1>5. cb.phase = "idle" /\ cb.phase # "offer"
  BY <1>1 DEF Idle
<1>6. /\ srv.state = "IDLE" /\ srv.target = "PAUSED" /\ srv.property = Preset(case)
      /\ srv.starved = FALSE /\ seen.stateAtLastError = None
  BY <1>2
<1>15. fault.kind = "ignores" => srv.property = FALSE
  <2>1. case \in DOMAIN Suite
    BY WalkInit DEF WalkInv
  <2>2. FaultKinds(case, fault)
    BY <2>1, AllGuarded DEF Catches, Guarded
  <2> QED BY <1>6, <2>2 DEF FaultKinds, Preset
<1>7. FaultyTypes
  <2>1. seen \in FaultySeen /\ srv \in SrvType
    BY <1>2 DEF FaultySeen, SrvType, Preset
  <2>2. notices \in Seq(Notices) /\ tasks \in Seq(Tasks)
    BY <1>2
  <2> QED BY <1>1, <1>2, <2>1, <2>2 DEF FaultyTypes
<1>8. SetUpInv
  <2>1. ~(pc > BindAt(case)) /\ ~(pc > AttachedAt) /\ ~(pc > ReachedAt - 2)
    BY <1>1, Places DEF BindAt
  <2> QED BY <1>1, <1>2, <1>5, <1>6, <2>1 DEF SetUpInv
<1>9. SeenInv /\ MissingInv
  BY <1>1, <1>4, <1>15 DEF SeenInv, MissingInv
<1>10. SpoilInv
  BY <1>1, <1>3, <1>4, <1>6 DEF SpoilInv, First
<1>11. StrayInv
  BY <1>1, <1>3, <1>6 DEF StrayInv
<1>12. RejectInv
  BY <1>1, <1>2, <1>4, <1>5, <1>6 DEF RejectInv
<1>13. LateInv
  BY <1>1 DEF LateInv, CheckedAt
<1>14. UntrappedInv
  BY <1>1 DEF UntrappedInv
<1> QED BY <1>7, <1>8, <1>9, <1>10, <1>11, <1>12, <1>13, <1>14 DEF CatchInvariant

\* A case of a late fault does not end before it has looked for it.
LEMMA LateLong ==
  ASSUME case \in {Starving, Refilling, Erring}
  PROVE  Len(Script) \in Nat /\ Len(Script) >= 10
<1>1. CASE case = Starving
  <2>1. 10 = Len(Suite["StarvationIsToleratedAndEventsObserved"].script)
    BY ScriptStarvationIsToleratedAndEventsObserved
  <2>2. 10 = Len(Script)
    BY <1>1, <2>1, Zenon DEF Script, Starving
  <2>3. 10 \in Nat /\ 10 >= 10
    OBVIOUS
  <2> QED BY <2>2, <2>3, Zenon
<1>2. CASE case = Refilling
  <2>1. 12 = Len(Suite["NoSpaceIsNotAnErrorAndTheSegmentIsResent"].script)
    BY ScriptNoSpaceIsNotAnErrorAndTheSegmentIsResent
  <2>2. 12 = Len(Script)
    BY <1>2, <2>1, Zenon DEF Script, Refilling
  <2>3. 12 \in Nat /\ 12 >= 10
    OBVIOUS
  <2> QED BY <2>2, <2>3, Zenon
<1>3. CASE case = Erring
  <2>1. 11 = Len(Suite["NonFatalPlaybackErrorLeavesStateUnchanged"].script)
    BY ScriptNonFatalPlaybackErrorLeavesStateUnchanged
  <2>2. 11 = Len(Script)
    BY <1>3, <2>1, Zenon DEF Script, Erring
  <2>3. 11 \in Nat /\ 11 >= 10
    OBVIOUS
  <2> QED BY <2>2, <2>3, Zenon
<1> QED BY <1>1, <1>2, <1>3

\* A case that is over has failed, unless the fault has not shown.
LEMMA CaughtAtEnd ==
  ASSUME WalkInv, CatchInv
  PROVE  FaultIsCaught
<1> SUFFICES ASSUME Finished, shown, Catches, ~failed
             PROVE  FALSE
  BY DEF FaultIsCaught, Catches
<1>1. LateInv /\ UntrappedInv
  BY DEF CatchInv, CatchInvariant
<1>2. pc \in Nat /\ Len(Script) \in Nat /\ pc > Len(Script)
  BY PcIsNat DEF Finished, Over
<1>3. Guarded(case, fault)
  BY AllGuarded DEF Catches, WalkInv
<1>4. CASE LateFault(case, fault)
  <2>1. Len(Script) >= 10
    BY <1>4, LateKinds, LateLong
  <2>2. CheckedAt(case, fault) \in {9, 10}
    BY DEF CheckedAt
  <2>3. pc > CheckedAt(case, fault)
    BY <1>2, <2>1, <2>2
  <2> QED BY <1>1, <1>4, <2>3 DEF LateInv
<1>5. CASE \E k \in 1 .. Len(Suite[case].script) : Traps(case, fault, k)
  <2>1. PICK k \in 1 .. Len(Script) : Traps(case, fault, k)
    BY <1>5 DEF Script
  <2>2. k \in 1 .. pc - 1
    BY <1>2
  <2> QED BY <1>1, <2>1, <2>2 DEF UntrappedInv
<1> QED BY <1>3, <1>4, <1>5 DEF Guarded

-----------------------------------------------------------------------------
(***************************************************************************)
(* The theorem.                                                            *)
(***************************************************************************)

\* No case of src/L4_e2e/playback lets a server go whose fault is one it is there to catch,
\* once the fault has shown: a call refused, a property not applied, an answer turned
\* round, a notification withheld, a failure notified where none belongs, or a segment
\* rejected.  Whichever thread runs when, the assertion comes after the record that
\* decides it.
THEOREM FaultIsCaughtHolds == CaseSpec => []FaultIsCaught
<1>1. CaseInit => CatchInv
  BY CatchInit
<1>2. WalkInv /\ FeedInv /\ CatchInv /\ [CaseNext]_caseVars => CatchInv'
  BY CatchKept
<1>3. WalkInv /\ CatchInv => FaultIsCaught
  BY CaughtAtEnd
<1> QED BY <1>1, <1>2, <1>3, CaseWalks, CasesKeepTheFeed, PTL DEF CaseSpec
===============================================================================
