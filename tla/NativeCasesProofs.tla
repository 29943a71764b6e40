--------------------- MODULE NativeCasesProofs --------------------------------
(***************************************************************************)
(* That every case of src/L4_e2e/playback runs the feed of MediaFeed and   *)
(* keeps what is proved of it, and that no case fails a server that        *)
(* conforms: for every set of cases, any stream and batch lengths, any     *)
(* bounds on what the server asks for, and any order of the threads.       *)
(***************************************************************************)
EXTENDS NativeCases, MediaFeedProofs, SequenceTheorems, WellFoundedInduction

-----------------------------------------------------------------------------
(***************************************************************************)
(* The inductive invariant of a case on a server that conforms.            *)
(***************************************************************************)

\* A server that conforms, on a platform that may lack an optional property.
Conforms == fault.kind \in {"none", "lacks"}

\* The cases the invariant speaks of, by short names.
Getters    == {"GetPositionSucceedsOncePlaying", "GetDurationNotDeterminableForStreamSource",
               "GetStatsSucceedsOncePlaying"}
Flushing   == "FlushEmitsSourceFlushed"
Rendering  == "RenderFrameSucceedsOnceLoaded"
Unplayed   == "SetSyncOffAcceptedBeforePlaying"
Protocol   == "NeedDataProtocolIsWellFormed"
Ending     == "HaveDataEosDrivesEndOfStream"
Clean      == "CleanRunNetworkStateVocabulary"
Starving   == "StarvationIsToleratedAndEventsObserved"
Transport  == "PlayPauseStopStateMachine"
Seeking    == "SetPositionSetsStartThenSeeksWhilePlaying"
Refilling  == "NoSpaceIsNotAnErrorAndTheSegmentIsResent"
Cancelling == "CancelledNeedDataIsNotAnError"
Erring     == "NonFatalPlaybackErrorLeavesStateUnchanged"

\* The states and events a conforming server notifies, and its tasks.
Moves  == {"PAUSED", "PLAYING", "SEEKING", "SEEK_DONE", "END_OF_STREAM", "STOPPED"}
Events == {"BUFFERING", "FLUSHED", "UNDERFLOW"}
Notes  == Moves \cup Events \cup {"ERROR"}
Tasks  == [do : {"PLAYING", "PAUSED", "STOPPED", "flush", "seek", "write"}, value : BOOLEAN]

\* Where a case binds its pipeline, attaches its source, and waits for PLAYING.
BindAt(c)   == IF c = Refilling THEN 2 ELSE 1
AttachAt(c) == IF c \in Getters \cup {Refilling} THEN 4 ELSE 3
ReachAt(c)  == IF c \in Getters \cup {Unplayed, Seeking, Refilling} THEN 7 ELSE 6
AttachedAt  == AttachAt(case)
ReachedAt   == ReachAt(case)

\* The case has called stop, or pause.
Stopping == Finished \/ (case = Transport /\ pc > 10)
Pausing  == Stopping \/ (case = Rendering /\ pc > 7) \/ (case = Transport /\ pc > 8)

\* Types: a conforming server notifies no failure.
PlayTypes ==
  /\ seen \in [states : SUBSET Moves, lastState : Moves \cup {"UNKNOWN"},
               events : SUBSET Events, stateAtLastError : Moves \cup {"UNKNOWN", None},
               requested : BOOLEAN, noSpace : BOOLEAN, error : BOOLEAN]
  /\ notices \in Seq(Notes)
  /\ tasks \in Seq(Tasks)
  /\ srv \in [state : {"IDLE", "PAUSED", "PLAYING", "END_OF_STREAM", "STOPPED"},
              target : {"PLAYING", "PAUSED", "STOPPED"}, seeking : BOOLEAN,
              property : BOOLEAN, corrupt : BOOLEAN, starved : BOOLEAN]
  /\ head \in [Sources -> Nat \cup {None}]

\* In a queue.
Has(q, x)  == \E i \in DOMAIN q : q[i] = x
HasDo(q, do) == \E i \in DOMAIN q : q[i].do = do

\* Still to be applied; on its way; on its way or recorded.
Due(do)    == HasDo(tasks, do)
Coming(n)  == Has(notices, n)
Ahead(n)   == Coming(n) \/ Observed(n)
\* A cancellation is on its way; the request the server waits for is.
Cancelled  == \E i \in DOMAIN queue : queue[i].kind = "cancel"
Queued(s)  == \E i \in DOMAIN queue :
                queue[i].kind = "need" /\ queue[i].src = s /\ queue[i].id = outstanding[s]

\* What the case has set up, and which case does what.
BringUpInv ==
  /\ pc > BindAt(case) => pipelineSet
  /\ pc > AttachedAt => registered = Sources
  /\ allAttached <=> pc > ReachedAt - 2
  /\ withhold => case = Cancelling /\ pc > 8
  /\ starve => case = Starving /\ pc > 7
  /\ oversupply = 1 \/ case = Refilling
  /\ srv.corrupt => case = Erring /\ pc > 7
  /\ srv.seeking \/ Due("seek") => case = Seeking /\ pc > 9
  /\ pc < ReachedAt => tasks = << >> /\ srv.target = "PAUSED"
  /\ ~allAttached => /\ queue = << >> /\ cb.phase = "idle" /\ srv.state = "IDLE"
                     /\ \A n \in Moves : ~Ahead(n)
                     /\ \A s \in Sources : outstanding[s] = None /\ ~ended[s]

\* Only a flush silences a source or cancels a request.
FlushedInv == case \notin {Flushing, Seeking, Cancelling} => silent = {} /\ ~Cancelled

\* A request the server waits for is still to be answered.
WaitedInv ==
  case # Cancelling \/ pc <= 8 =>
    \A s \in Sources : outstanding[s] # None =>
      Queued(s) \/ (cb.phase # "idle" /\ cb.src = s /\ cb.id = outstanding[s])

\* The playback has announced what it has gone through.
StateInv ==
  /\ srv.state \notin {"IDLE", "STOPPED"} => Ahead("PAUSED")
  /\ Ahead("PLAYING") => Ahead("PAUSED")
  /\ srv.state \in {"PLAYING", "END_OF_STREAM"} => Ahead("PLAYING")
  /\ srv.state = "END_OF_STREAM" => Ahead("END_OF_STREAM")
  /\ srv.state = "IDLE" => ~Ahead("PLAYING")
  /\ pc > ReachedAt /\ case # Unplayed => Observed("PLAYING")

\* The playback goes where the case has sent it, and not back.
PlayInv ==
  /\ ~Stopping => srv.state # "STOPPED" /\ srv.target # "STOPPED" /\ ~Due("STOPPED")
  /\ ~Pausing =>
       /\ ~Due("PAUSED")
       /\ pc >= ReachedAt => srv.target = "PLAYING" \/ Due("PLAYING")
       /\ srv.state \in {"PLAYING", "END_OF_STREAM"} => srv.target = "PLAYING"
       /\ Ahead("PLAYING") => srv.state \in {"PLAYING", "END_OF_STREAM"}

\* The flush a case waits for is to be applied, or announced.
FlushInv == case = Flushing /\ pc = 8 => Due("flush") \/ Ahead("FLUSHED")

\* So is the seek, and that it is done.
SeekInv ==
  case = Seeking /\ pc \in {10, 11} =>
    Due("seek") \/ (Ahead("SEEKING") /\ (srv.seeking \/ Ahead("SEEK_DONE")))

\* The property will be what was written last.
WrittenInv ==
  fault.kind = "none" /\ pc > 1 /\ Script[pc - 1].do = "write" =>
    \/ ~Due("write") /\ srv.property = Script[pc - 1].value
    \/ \E i \in DOMAIN tasks :
         /\ tasks[i] = Task("write", Script[pc - 1].value)
         /\ \A j \in DOMAIN tasks : j > i => tasks[j].do # "write"

\* What the client has been asked for: the server plays only what it has asked for, and asks
\* again after a flush.
AskedInv ==
  case # Cancelling =>
    /\ cb.phase # "idle" => seen.requested
    /\ \A s \in Sources : head[s] # None \/ ended[s] => seen.requested
    /\ srv.state \notin {"IDLE", "STOPPED"} => seen.requested
\* Asked again: the case that withholds its answers starts over after its flush.
ReaskedInv ==
  case = Cancelling =>
    /\ pc \in 9 .. 14 => withhold
    /\ pc \in 10 .. 14 => cb.phase = "idle"
    /\ pc = 11 => seen.requested \/ \A s \in Sources :
         ~ended[s] /\ (outstanding[s] # None => Queued(s))
    /\ pc > 11 => seen.requested
\* Either way.
RequestedInv == AskedInv /\ ReaskedInv

\* A server that was not told to flush takes every segment it asked for.
AcceptedInv ==
  case \notin {Flushing, Seeking, Cancelling} =>
    /\ cb.phase # "idle" => outstanding[cb.src] = cb.id
    /\ ~seen.error
    /\ case # Refilling =>
         /\ allSegmentsAccepted
         /\ cb.phase = "offer" => \E n \in FrameCounts : cb.size <= n

\* The load is the first thing notified.
BufferedInv ==
  case = Clean =>
    /\ pc <= 2 => notices = << >>
    /\ pc > 2 => \/ "BUFFERING" \in seen.events
                 \/ notices # << >> /\ notices[1] = "BUFFERING" /\ seen.states = {}

\* What found no space is retained until it is accepted, and then the stream ends.
ResentInv ==
  case = Refilling =>
    /\ seen.noSpace => noSpaceSegmentAccepted \/ \E s \in Sources : noSpaceFrame[s] # None
    /\ \A s \in Sources : ended[s] => nextFrame[s] = StreamLength
    /\ cb.phase = "answer" /\ cb.status = "EOS" => nextFrame[cb.src] = StreamLength
    /\ pc > 8 => /\ cb.phase = "idle" /\ queue = << >>
                 /\ \A s \in Sources : ended[s] /\ outstanding[s] = None
                 /\ seen.noSpace => noSpaceSegmentAccepted

\* Once PLAYING is notified no other state follows it.
LastMove(q) == \A i, j \in DOMAIN q : q[i] = "PLAYING" /\ j > i => q[j] \notin Moves
\* No state is on its way.
NoMove(q)   == \A i \in DOMAIN q : q[i] \notin Moves
\* An error is notified while PLAYING is the state last notified.
ErrorInv ==
  case = Erring /\ ~Stopping =>
    /\ LastMove(notices)
    /\ "PLAYING" \in seen.states => seen.lastState = "PLAYING" /\ NoMove(notices)
    /\ srv.state # "END_OF_STREAM"
    /\ ~srv.corrupt => ~Coming("ERROR") /\ seen.stateAtLastError = None
    /\ seen.stateAtLastError \in {None, "PLAYING"}

\* The invariant of a server that conforms.
PlayInvariant ==
  /\ PlayTypes /\ BringUpInv /\ FlushedInv /\ WaitedInv /\ StateInv /\ PlayInv /\ FlushInv
  /\ SeekInv /\ WrittenInv /\ RequestedInv /\ AcceptedInv /\ BufferedInv /\ ResentInv
  /\ ErrorInv
  /\ ~failed

\* The invariant of every case.
NInv == Conforms => PlayInvariant

-----------------------------------------------------------------------------
(***************************************************************************)
(* The scripts, step by step.  Joining tuples first: each lemma is one     *)
(* pattern of lengths.                                                     *)
(***************************************************************************)

\* Joining 6, 2 and 1 steps.
LEMMA Join6_2_1 ==
  ASSUME NEW x1, NEW x2, NEW x3, NEW x4, NEW x5, NEW x6, NEW x7, NEW x8, NEW x9
  PROVE  <<x1, x2, x3, x4, x5, x6>> \o <<x7, x8>> \o <<x9>>
           = <<x1, x2, x3, x4, x5, x6, x7, x8, x9>>
<1> DEFINE S == {x1, x2, x3, x4, x5, x6, x7, x8, x9}
           left == <<x1, x2, x3, x4, x5, x6>> \o <<x7, x8>> \o <<x9>>
           right == <<x1, x2, x3, x4, x5, x6, x7, x8, x9>>
<1>1. /\ x1 \in S /\ x2 \in S /\ x3 \in S /\ x4 \in S /\ x5 \in S /\ x6 \in S
      /\ x7 \in S /\ x8 \in S /\ x9 \in S
  OBVIOUS
<1> HIDE DEF S
<1>2. left \in Seq(S) /\ right \in Seq(S)
  BY <1>1
<1>3. 9 = Len(left) /\ 9 = Len(right)
  BY <1>1
<1>4. \A i \in 1 .. 9 : left[i] = right[i]
  BY <1>1
<1> QED BY <1>2, <1>3, <1>4, SeqEqual

\* Joining 6, 4 and 1 steps.
LEMMA Join6_4_1 ==
  ASSUME NEW x1, NEW x2, NEW x3, NEW x4, NEW x5, NEW x6, NEW x7, NEW x8,
         NEW x9, NEW x10, NEW x11
  PROVE  <<x1, x2, x3, x4, x5, x6>> \o <<x7, x8, x9, x10>> \o <<x11>>
           = <<x1, x2, x3, x4, x5, x6, x7, x8, x9, x10, x11>>
<1> DEFINE S == {x1, x2, x3, x4, x5, x6, x7, x8, x9, x10, x11}
           left == <<x1, x2, x3, x4, x5, x6>> \o <<x7, x8, x9, x10>> \o <<x11>>
           right == <<x1, x2, x3, x4, x5, x6, x7, x8, x9, x10, x11>>
<1>1. /\ x1 \in S /\ x2 \in S /\ x3 \in S /\ x4 \in S /\ x5 \in S /\ x6 \in S
      /\ x7 \in S /\ x8 \in S /\ x9 \in S /\ x10 \in S /\ x11 \in S
  OBVIOUS
<1> HIDE DEF S
<1>2. left \in Seq(S) /\ right \in Seq(S)
  BY <1>1
<1>3. 11 = Len(left) /\ 11 = Len(right)
  BY <1>1
<1>4. \A i \in 1 .. 11 : left[i] = right[i]
  BY <1>1
<1> QED BY <1>2, <1>3, <1>4, SeqEqual

\* Joining 6, 1 and 1 steps.
LEMMA Join6_1_1 ==
  ASSUME NEW x1, NEW x2, NEW x3, NEW x4, NEW x5, NEW x6, NEW x7, NEW x8
  PROVE  <<x1, x2, x3, x4, x5, x6>> \o <<x7>> \o <<x8>>
           = <<x1, x2, x3, x4, x5, x6, x7, x8>>
<1> DEFINE S == {x1, x2, x3, x4, x5, x6, x7, x8}
           left == <<x1, x2, x3, x4, x5, x6>> \o <<x7>> \o <<x8>>
           right == <<x1, x2, x3, x4, x5, x6, x7, x8>>
<1>1. /\ x1 \in S /\ x2 \in S /\ x3 \in S /\ x4 \in S /\ x5 \in S /\ x6 \in S
      /\ x7 \in S /\ x8 \in S
  OBVIOUS
<1> HIDE DEF S
<1>2. left \in Seq(S) /\ right \in Seq(S)
  BY <1>1
<1>3. 8 = Len(left) /\ 8 = Len(right)
  BY <1>1
<1>4. \A i \in 1 .. 8 : left[i] = right[i]
  BY <1>1
<1> QED BY <1>2, <1>3, <1>4, SeqEqual

\* Joining 6, 3 and 1 steps.
LEMMA Join6_3_1 ==
  ASSUME NEW x1, NEW x2, NEW x3, NEW x4, NEW x5, NEW x6, NEW x7, NEW x8,
         NEW x9, NEW x10
  PROVE  <<x1, x2, x3, x4, x5, x6>> \o <<x7, x8, x9>> \o <<x10>>
           = <<x1, x2, x3, x4, x5, x6, x7, x8, x9, x10>>
<1> DEFINE S == {x1, x2, x3, x4, x5, x6, x7, x8, x9, x10}
           left == <<x1, x2, x3, x4, x5, x6>> \o <<x7, x8, x9>> \o <<x10>>
           right == <<x1, x2, x3, x4, x5, x6, x7, x8, x9, x10>>
<1>1. /\ x1 \in S /\ x2 \in S /\ x3 \in S /\ x4 \in S /\ x5 \in S /\ x6 \in S
      /\ x7 \in S /\ x8 \in S /\ x9 \in S /\ x10 \in S
  OBVIOUS
<1> HIDE DEF S
<1>2. left \in Seq(S) /\ right \in Seq(S)
  BY <1>1
<1>3. 10 = Len(left) /\ 10 = Len(right)
  BY <1>1
<1>4. \A i \in 1 .. 10 : left[i] = right[i]
  BY <1>1
<1> QED BY <1>2, <1>3, <1>4, SeqEqual

\* Joining 4, 3, 1, 1 and 1 steps.
LEMMA Join4_3_1_1_1 ==
  ASSUME NEW x1, NEW x2, NEW x3, NEW x4, NEW x5, NEW x6, NEW x7, NEW x8,
         NEW x9, NEW x10
  PROVE  <<x1, x2, x3, x4>> \o <<x5, x6, x7>> \o <<x8>> \o <<x9>> \o <<x10>>
           = <<x1, x2, x3, x4, x5, x6, x7, x8, x9, x10>>
<1> DEFINE S == {x1, x2, x3, x4, x5, x6, x7, x8, x9, x10}
           left == <<x1, x2, x3, x4>> \o <<x5, x6, x7>> \o <<x8>> \o <<x9>> \o <<x10>>
           right == <<x1, x2, x3, x4, x5, x6, x7, x8, x9, x10>>
<1>1. /\ x1 \in S /\ x2 \in S /\ x3 \in S /\ x4 \in S /\ x5 \in S /\ x6 \in S
      /\ x7 \in S /\ x8 \in S /\ x9 \in S /\ x10 \in S
  OBVIOUS
<1> HIDE DEF S
<1>2. left \in Seq(S) /\ right \in Seq(S)
  BY <1>1
<1>3. 10 = Len(left) /\ 10 = Len(right)
  BY <1>1
<1>4. \A i \in 1 .. 10 : left[i] = right[i]
  BY <1>1
<1> QED BY <1>2, <1>3, <1>4, SeqEqual

\* Joining 4, 3, 1, 2 and 1 steps.
LEMMA Join4_3_1_2_1 ==
  ASSUME NEW x1, NEW x2, NEW x3, NEW x4, NEW x5, NEW x6, NEW x7, NEW x8,
         NEW x9, NEW x10, NEW x11
  PROVE  <<x1, x2, x3, x4>> \o <<x5, x6, x7>> \o <<x8>> \o <<x9, x10>> \o <<x11>>
           = <<x1, x2, x3, x4, x5, x6, x7, x8, x9, x10, x11>>
<1> DEFINE S == {x1, x2, x3, x4, x5, x6, x7, x8, x9, x10, x11}
           left == <<x1, x2, x3, x4>> \o <<x5, x6, x7>> \o <<x8>> \o <<x9, x10>> \o <<x11>>
           right == <<x1, x2, x3, x4, x5, x6, x7, x8, x9, x10, x11>>
<1>1. /\ x1 \in S /\ x2 \in S /\ x3 \in S /\ x4 \in S /\ x5 \in S /\ x6 \in S
      /\ x7 \in S /\ x8 \in S /\ x9 \in S /\ x10 \in S /\ x11 \in S
  OBVIOUS
<1> HIDE DEF S
<1>2. left \in Seq(S) /\ right \in Seq(S)
  BY <1>1
<1>3. 11 = Len(left) /\ 11 = Len(right)
  BY <1>1
<1>4. \A i \in 1 .. 11 : left[i] = right[i]
  BY <1>1
<1> QED BY <1>2, <1>3, <1>4, SeqEqual

\* Joining 3, 3 and 5 steps.
LEMMA Join3_3_5 ==
  ASSUME NEW x1, NEW x2, NEW x3, NEW x4, NEW x5, NEW x6, NEW x7, NEW x8,
         NEW x9, NEW x10, NEW x11
  PROVE  <<x1, x2, x3>> \o <<x4, x5, x6>> \o <<x7, x8, x9, x10, x11>>
           = <<x1, x2, x3, x4, x5, x6, x7, x8, x9, x10, x11>>
<1> DEFINE S == {x1, x2, x3, x4, x5, x6, x7, x8, x9, x10, x11}
           left == <<x1, x2, x3>> \o <<x4, x5, x6>> \o <<x7, x8, x9, x10, x11>>
           right == <<x1, x2, x3, x4, x5, x6, x7, x8, x9, x10, x11>>
<1>1. /\ x1 \in S /\ x2 \in S /\ x3 \in S /\ x4 \in S /\ x5 \in S /\ x6 \in S
      /\ x7 \in S /\ x8 \in S /\ x9 \in S /\ x10 \in S /\ x11 \in S
  OBVIOUS
<1> HIDE DEF S
<1>2. left \in Seq(S) /\ right \in Seq(S)
  BY <1>1
<1>3. 11 = Len(left) /\ 11 = Len(right)
  BY <1>1
<1>4. \A i \in 1 .. 11 : left[i] = right[i]
  BY <1>1
<1> QED BY <1>2, <1>3, <1>4, SeqEqual

\* Joining 3, 3, 1 and 1 steps.
LEMMA Join3_3_1_1 ==
  ASSUME NEW x1, NEW x2, NEW x3, NEW x4, NEW x5, NEW x6, NEW x7, NEW x8
  PROVE  <<x1, x2, x3>> \o <<x4, x5, x6>> \o <<x7>> \o <<x8>>
           = <<x1, x2, x3, x4, x5, x6, x7, x8>>
<1> DEFINE S == {x1, x2, x3, x4, x5, x6, x7, x8}
           left == <<x1, x2, x3>> \o <<x4, x5, x6>> \o <<x7>> \o <<x8>>
           right == <<x1, x2, x3, x4, x5, x6, x7, x8>>
<1>1. /\ x1 \in S /\ x2 \in S /\ x3 \in S /\ x4 \in S /\ x5 \in S /\ x6 \in S
      /\ x7 \in S /\ x8 \in S
  OBVIOUS
<1> HIDE DEF S
<1>2. left \in Seq(S) /\ right \in Seq(S)
  BY <1>1
<1>3. 8 = Len(left) /\ 8 = Len(right)
  BY <1>1
<1>4. \A i \in 1 .. 8 : left[i] = right[i]
  BY <1>1
<1> QED BY <1>2, <1>3, <1>4, SeqEqual

\* Joining 3, 1, 3, 5 and 1 steps.
LEMMA Join3_1_3_5_1 ==
  ASSUME NEW x1, NEW x2, NEW x3, NEW x4, NEW x5, NEW x6, NEW x7, NEW x8,
         NEW x9, NEW x10, NEW x11, NEW x12, NEW x13
  PROVE  <<x1, x2, x3>> \o <<x4>> \o <<x5, x6, x7>> \o <<x8, x9, x10, x11, x12>> \o <<x13>>
           = <<x1, x2, x3, x4, x5, x6, x7, x8, x9, x10, x11, x12, x13>>
<1> DEFINE S == {x1, x2, x3, x4, x5, x6, x7, x8, x9, x10, x11, x12, x13}
           left == <<x1, x2, x3>> \o <<x4>> \o <<x5, x6, x7>> \o <<x8, x9, x10, x11, x12>>
                   \o <<x13>>
           right == <<x1, x2, x3, x4, x5, x6, x7, x8, x9, x10, x11, x12, x13>>
<1>1. /\ x1 \in S /\ x2 \in S /\ x3 \in S /\ x4 \in S /\ x5 \in S /\ x6 \in S
      /\ x7 \in S /\ x8 \in S /\ x9 \in S /\ x10 \in S /\ x11 \in S /\ x12 \in S
      /\ x13 \in S
  OBVIOUS
<1> HIDE DEF S
<1>2. left \in Seq(S) /\ right \in Seq(S)
  BY <1>1
<1>3. 13 = Len(left) /\ 13 = Len(right)
  BY <1>1
<1>4. \A i \in 1 .. 13 : left[i] = right[i]
  BY <1>1
<1> QED BY <1>2, <1>3, <1>4, SeqEqual

\* Joining 1, 6, 4 and 1 steps.
LEMMA Join1_6_4_1 ==
  ASSUME NEW x1, NEW x2, NEW x3, NEW x4, NEW x5, NEW x6, NEW x7, NEW x8,
         NEW x9, NEW x10, NEW x11, NEW x12
  PROVE  <<x1>> \o <<x2, x3, x4, x5, x6, x7>> \o <<x8, x9, x10, x11>> \o <<x12>>
           = <<x1, x2, x3, x4, x5, x6, x7, x8, x9, x10, x11, x12>>
<1> DEFINE S == {x1, x2, x3, x4, x5, x6, x7, x8, x9, x10, x11, x12}
           left == <<x1>> \o <<x2, x3, x4, x5, x6, x7>> \o <<x8, x9, x10, x11>> \o <<x12>>
           right == <<x1, x2, x3, x4, x5, x6, x7, x8, x9, x10, x11, x12>>
<1>1. /\ x1 \in S /\ x2 \in S /\ x3 \in S /\ x4 \in S /\ x5 \in S /\ x6 \in S
      /\ x7 \in S /\ x8 \in S /\ x9 \in S /\ x10 \in S /\ x11 \in S /\ x12 \in S
  OBVIOUS
<1> HIDE DEF S
<1>2. left \in Seq(S) /\ right \in Seq(S)
  BY <1>1
<1>3. 12 = Len(left) /\ 12 = Len(right)
  BY <1>1
<1>4. \A i \in 1 .. 12 : left[i] = right[i]
  BY <1>1
<1> QED BY <1>2, <1>3, <1>4, SeqEqual

\* Joining 6, 11 and 1 steps.
LEMMA Join6_11_1 ==
  ASSUME NEW x1, NEW x2, NEW x3, NEW x4, NEW x5, NEW x6, NEW x7, NEW x8,
         NEW x9, NEW x10, NEW x11, NEW x12, NEW x13, NEW x14, NEW x15, NEW x16,
         NEW x17, NEW x18
  PROVE  <<x1, x2, x3, x4, x5, x6>>
    \o <<x7, x8, x9, x10, x11, x12, x13, x14, x15, x16, x17>> \o <<x18>>
           = <<x1, x2, x3, x4, x5, x6, x7, x8, x9, x10, x11, x12, x13, x14, x15, x16, x17, x18>>
<1> DEFINE S == {x1, x2, x3, x4, x5, x6, x7, x8, x9, x10, x11, x12, x13, x14, x15, x16, x17, x18}
           left == <<x1, x2, x3, x4, x5, x6>>
                   \o <<x7, x8, x9, x10, x11, x12, x13, x14, x15, x16, x17>> \o <<x18>>
           right == <<x1, x2, x3, x4, x5, x6, x7, x8, x9, x10, x11, x12, x13, x14, x15, x16,
                   x17, x18>>
<1>1. /\ x1 \in S /\ x2 \in S /\ x3 \in S /\ x4 \in S /\ x5 \in S /\ x6 \in S
      /\ x7 \in S /\ x8 \in S /\ x9 \in S /\ x10 \in S /\ x11 \in S /\ x12 \in S
      /\ x13 \in S /\ x14 \in S /\ x15 \in S /\ x16 \in S /\ x17 \in S /\ x18 \in S
  OBVIOUS
<1> HIDE DEF S
<1>2. left \in Seq(S) /\ right \in Seq(S)
  BY <1>1
<1>3. 18 = Len(left) /\ 18 = Len(right)
  BY <1>1
<1>4. \A i \in 1 .. 18 : left[i] = right[i]
  BY <1>1
<1> QED BY <1>2, <1>3, <1>4, SeqEqual

\* Joining 3 and 3 steps.
LEMMA Join3_3 ==
  ASSUME NEW x1, NEW x2, NEW x3, NEW x4, NEW x5, NEW x6, NEW t, NEW u,
         t = <<x1, x2, x3>>, u = <<x4, x5, x6>>
  PROVE  t \o u = <<x1, x2, x3, x4, x5, x6>>
<1> DEFINE S == {x1, x2, x3, x4, x5, x6}
           right == <<x1, x2, x3, x4, x5, x6>>
<1>1. /\ x1 \in S /\ x2 \in S /\ x3 \in S /\ x4 \in S /\ x5 \in S /\ x6 \in S
  OBVIOUS
<1> HIDE DEF S
<1>2. t \o u \in Seq(S) /\ right \in Seq(S)
  BY <1>1
<1>3. 6 = Len(t \o u) /\ 6 = Len(right)
  BY <1>1
<1>4. \A i \in 1 .. 6 : (t \o u)[i] = right[i]
  BY <1>1
<1> QED BY <1>2, <1>3, <1>4, SeqEqual

\* DriveToPlaying, step by step.
LEMMA DriveIs ==
  DriveToPlaying = <<Plain("setPipeline"), Setup("load"),
                     Setup("attachSource"), Setup("allSourcesAttached"),
                     Setup("play"), Reach("PLAYING")>>
<1> DEFINE u == <<Setup("allSourcesAttached"), Setup("play"), Reach("PLAYING")>>
<1>2. DriveToPlaying = LoadAndAttachAudio \o u
  BY Zenon DEF DriveToPlaying
<1>3. u = <<Setup("allSourcesAttached"), Setup("play"), Reach("PLAYING")>>
  OBVIOUS
<1>4. LoadAndAttachAudio = <<Plain("setPipeline"), Setup("load"), Setup("attachSource")>>
  BY DEF LoadAndAttachAudio
<1> HIDE DEF u
<1>5. LoadAndAttachAudio \o u = <<Plain("setPipeline"), Setup("load"),
                                   Setup("attachSource"), Setup("allSourcesAttached"),
                                   Setup("play"), Reach("PLAYING")>>
  BY <1>3, <1>4, Join3_3
<1> QED BY <1>2, <1>5, Zenon

\* The script of VolumeRoundTripsOnRealizedPipeline.
LEMMA ScriptVolumeRoundTripsOnRealizedPipeline ==
  Suite["VolumeRoundTripsOnRealizedPipeline"].script
    = <<Plain("setPipeline"), Setup("load"), Setup("attachSource"),
        Setup("allSourcesAttached"), Setup("play"), Reach("PLAYING"),
        Write(TRUE), Poll(TRUE), Plain("stop")>>
<1> DEFINE s1 == Plain("setPipeline")
           s2 == Setup("load")
           s3 == Setup("attachSource")
           s4 == Setup("allSourcesAttached")
           s5 == Setup("play")
           s6 == Reach("PLAYING")
           s7 == Write(TRUE)
           s8 == Poll(TRUE)
           s9 == Plain("stop")
<1>1. Suite["VolumeRoundTripsOnRealizedPipeline"] = VolumeRoundTripsOnRealizedPipeline
  BY Zenon DEF Suite
<1>2. \A script, catches : Case(script, catches).script = script
  BY DEF Case
<1>3. <<s1, s2, s3, s4, s5, s6>> \o <<s7, s8>> \o <<s9>>
        = <<s1, s2, s3, s4, s5, s6, s7, s8, s9>>
  <2> HIDE DEF s1, s2, s3, s4, s5, s6, s7, s8, s9
  <2> QED BY Join6_2_1
<1> QED BY <1>1, <1>2, <1>3, DriveIs, Zenon
    DEF VolumeRoundTripsOnRealizedPipeline, OnPlaying, Playing, TearDown

\* The script of MuteRoundTripsPerSource.
LEMMA ScriptMuteRoundTripsPerSource ==
  Suite["MuteRoundTripsPerSource"].script
    = <<Plain("setPipeline"), Setup("load"), Setup("attachSource"),
        Setup("allSourcesAttached"), Setup("play"), Reach("PLAYING"),
        Write(TRUE), Poll(TRUE), Write(FALSE), Poll(FALSE), Plain("stop")>>
<1> DEFINE s1 == Plain("setPipeline")
           s2 == Setup("load")
           s3 == Setup("attachSource")
           s4 == Setup("allSourcesAttached")
           s5 == Setup("play")
           s6 == Reach("PLAYING")
           s7 == Write(TRUE)
           s8 == Poll(TRUE)
           s9 == Write(FALSE)
           s10 == Poll(FALSE)
           s11 == Plain("stop")
<1>1. Suite["MuteRoundTripsPerSource"] = MuteRoundTripsPerSource
  BY Zenon DEF Suite
<1>2. \A script, catches : Case(script, catches).script = script
  BY DEF Case
<1>3. <<s1, s2, s3, s4, s5, s6>> \o <<s7, s8, s9, s10>> \o <<s11>>
        = <<s1, s2, s3, s4, s5, s6, s7, s8, s9, s10, s11>>
  <2> HIDE DEF s1, s2, s3, s4, s5, s6, s7, s8, s9, s10, s11
  <2> QED BY Join6_4_1
<1> QED BY <1>1, <1>2, <1>3, DriveIs, Zenon
    DEF MuteRoundTripsPerSource, OnPlaying, Playing, TearDown

\* The script of SetVideoWindowAcceptsGeometry.
LEMMA ScriptSetVideoWindowAcceptsGeometry ==
  Suite["SetVideoWindowAcceptsGeometry"].script
    = <<Plain("setPipeline"), Setup("load"), Setup("attachSource"),
        Setup("allSourcesAttached"), Setup("play"), Reach("PLAYING"),
        Call("setVideoWindow"), Plain("stop")>>
<1> DEFINE s1 == Plain("setPipeline")
           s2 == Setup("load")
           s3 == Setup("attachSource")
           s4 == Setup("allSourcesAttached")
           s5 == Setup("play")
           s6 == Reach("PLAYING")
           s7 == Call("setVideoWindow")
           s8 == Plain("stop")
<1>1. Suite["SetVideoWindowAcceptsGeometry"] = SetVideoWindowAcceptsGeometry
  BY Zenon DEF Suite
<1>2. \A script, catches : Case(script, catches).script = script
  BY DEF Case
<1>3. <<s1, s2, s3, s4, s5, s6>> \o <<s7>> \o <<s8>>
        = <<s1, s2, s3, s4, s5, s6, s7, s8>>
  <2> HIDE DEF s1, s2, s3, s4, s5, s6, s7, s8
  <2> QED BY Join6_1_1
<1> QED BY <1>1, <1>2, <1>3, DriveIs, Zenon
    DEF SetVideoWindowAcceptsGeometry, OnPlaying, Playing, TearDown

\* The script of FlushEmitsSourceFlushed.
LEMMA ScriptFlushEmitsSourceFlushed ==
  Suite["FlushEmitsSourceFlushed"].script
    = <<Plain("setPipeline"), Setup("load"), Setup("attachSource"),
        Setup("allSourcesAttached"), Setup("play"), Reach("PLAYING"),
        Call("flush"), Await("FLUSHED"), Plain("stop")>>
<1> DEFINE s1 == Plain("setPipeline")
           s2 == Setup("load")
           s3 == Setup("attachSource")
           s4 == Setup("allSourcesAttached")
           s5 == Setup("play")
           s6 == Reach("PLAYING")
           s7 == Call("flush")
           s8 == Await("FLUSHED")
           s9 == Plain("stop")
<1>1. Suite["FlushEmitsSourceFlushed"] = FlushEmitsSourceFlushed
  BY Zenon DEF Suite
<1>2. \A script, catches : Case(script, catches).script = script
  BY DEF Case
<1>3. <<s1, s2, s3, s4, s5, s6>> \o <<s7, s8>> \o <<s9>>
        = <<s1, s2, s3, s4, s5, s6, s7, s8, s9>>
  <2> HIDE DEF s1, s2, s3, s4, s5, s6, s7, s8, s9
  <2> QED BY Join6_2_1
<1> QED BY <1>1, <1>2, <1>3, DriveIs, Zenon
    DEF FlushEmitsSourceFlushed, OnPlaying, Playing, TearDown

\* The script of SetSourcePositionSucceeds.
LEMMA ScriptSetSourcePositionSucceeds ==
  Suite["SetSourcePositionSucceeds"].script
    = <<Plain("setPipeline"), Setup("load"), Setup("attachSource"),
        Setup("allSourcesAttached"), Setup("play"), Reach("PLAYING"),
        Call("setSourcePosition"), Plain("stop")>>
<1> DEFINE s1 == Plain("setPipeline")
           s2 == Setup("load")
           s3 == Setup("attachSource")
           s4 == Setup("allSourcesAttached")
           s5 == Setup("play")
           s6 == Reach("PLAYING")
           s7 == Call("setSourcePosition")
           s8 == Plain("stop")
<1>1. Suite["SetSourcePositionSucceeds"] = SetSourcePositionSucceeds
  BY Zenon DEF Suite
<1>2. \A script, catches : Case(script, catches).script = script
  BY DEF Case
<1>3. <<s1, s2, s3, s4, s5, s6>> \o <<s7>> \o <<s8>>
        = <<s1, s2, s3, s4, s5, s6, s7, s8>>
  <2> HIDE DEF s1, s2, s3, s4, s5, s6, s7, s8
  <2> QED BY Join6_1_1
<1> QED BY <1>1, <1>2, <1>3, DriveIs, Zenon
    DEF SetSourcePositionSucceeds, OnPlaying, Playing, TearDown

\* The script of ProcessAudioGapSucceeds.
LEMMA ScriptProcessAudioGapSucceeds ==
  Suite["ProcessAudioGapSucceeds"].script
    = <<Plain("setPipeline"), Setup("load"), Setup("attachSource"),
        Setup("allSourcesAttached"), Setup("play"), Reach("PLAYING"),
        Call("processAudioGap"), Plain("stop")>>
<1> DEFINE s1 == Plain("setPipeline")
           s2 == Setup("load")
           s3 == Setup("attachSource")
           s4 == Setup("allSourcesAttached")
           s5 == Setup("play")
           s6 == Reach("PLAYING")
           s7 == Call("processAudioGap")
           s8 == Plain("stop")
<1>1. Suite["ProcessAudioGapSucceeds"] = ProcessAudioGapSucceeds
  BY Zenon DEF Suite
<1>2. \A script, catches : Case(script, catches).script = script
  BY DEF Case
<1>3. <<s1, s2, s3, s4, s5, s6>> \o <<s7>> \o <<s8>>
        = <<s1, s2, s3, s4, s5, s6, s7, s8>>
  <2> HIDE DEF s1, s2, s3, s4, s5, s6, s7, s8
  <2> QED BY Join6_1_1
<1> QED BY <1>1, <1>2, <1>3, DriveIs, Zenon
    DEF ProcessAudioGapSucceeds, OnPlaying, Playing, TearDown

\* The script of BufferingLimitConformsWhenSupported.
LEMMA ScriptBufferingLimitConformsWhenSupported ==
  Suite["BufferingLimitConformsWhenSupported"].script
    = <<Plain("setPipeline"), Setup("load"), Setup("attachSource"),
        Setup("allSourcesAttached"), Setup("play"), Reach("PLAYING"),
        Write(TRUE), PollIfSupported, Plain("stop")>>
<1> DEFINE s1 == Plain("setPipeline")
           s2 == Setup("load")
           s3 == Setup("attachSource")
           s4 == Setup("allSourcesAttached")
           s5 == Setup("play")
           s6 == Reach("PLAYING")
           s7 == Write(TRUE)
           s8 == PollIfSupported
           s9 == Plain("stop")
<1>1. Suite["BufferingLimitConformsWhenSupported"] = BufferingLimitConformsWhenSupported
  BY Zenon DEF Suite
<1>2. \A script, catches : Case(script, catches).script = script
  BY DEF Case
<1>3. <<s1, s2, s3, s4, s5, s6>> \o <<s7, s8>> \o <<s9>>
        = <<s1, s2, s3, s4, s5, s6, s7, s8, s9>>
  <2> HIDE DEF s1, s2, s3, s4, s5, s6, s7, s8, s9
  <2> QED BY Join6_2_1
<1> QED BY <1>1, <1>2, <1>3, DriveIs, Zenon
    DEF BufferingLimitConformsWhenSupported, OnPlaying, Playing, TearDown

\* The script of UseBufferingRoundTrips.
LEMMA ScriptUseBufferingRoundTrips ==
  Suite["UseBufferingRoundTrips"].script
    = <<Plain("setPipeline"), Setup("load"), Setup("attachSource"),
        Setup("allSourcesAttached"), Setup("play"), Reach("PLAYING"),
        Write(TRUE), Poll(TRUE), Plain("stop")>>
<1> DEFINE s1 == Plain("setPipeline")
           s2 == Setup("load")
           s3 == Setup("attachSource")
           s4 == Setup("allSourcesAttached")
           s5 == Setup("play")
           s6 == Reach("PLAYING")
           s7 == Write(TRUE)
           s8 == Poll(TRUE)
           s9 == Plain("stop")
<1>1. Suite["UseBufferingRoundTrips"] = UseBufferingRoundTrips
  BY Zenon DEF Suite
<1>2. \A script, catches : Case(script, catches).script = script
  BY DEF Case
<1>3. <<s1, s2, s3, s4, s5, s6>> \o <<s7, s8>> \o <<s9>>
        = <<s1, s2, s3, s4, s5, s6, s7, s8, s9>>
  <2> HIDE DEF s1, s2, s3, s4, s5, s6, s7, s8, s9
  <2> QED BY Join6_2_1
<1> QED BY <1>1, <1>2, <1>3, DriveIs, Zenon
    DEF UseBufferingRoundTrips, OnPlaying, Playing, TearDown

\* The script of RenderFrameSucceedsOnceLoaded.
LEMMA ScriptRenderFrameSucceedsOnceLoaded ==
  Suite["RenderFrameSucceedsOnceLoaded"].script
    = <<Plain("setPipeline"), Setup("load"), Setup("attachSource"),
        Setup("allSourcesAttached"), Setup("play"), Reach("PLAYING"),
        Call("pause"), Await("PAUSED"), Call("renderFrame"), Plain("stop")>>
<1> DEFINE s1 == Plain("setPipeline")
           s2 == Setup("load")
           s3 == Setup("attachSource")
           s4 == Setup("allSourcesAttached")
           s5 == Setup("play")
           s6 == Reach("PLAYING")
           s7 == Call("pause")
           s8 == Await("PAUSED")
           s9 == Call("renderFrame")
           s10 == Plain("stop")
<1>1. Suite["RenderFrameSucceedsOnceLoaded"] = RenderFrameSucceedsOnceLoaded
  BY Zenon DEF Suite
<1>2. \A script, catches : Case(script, catches).script = script
  BY DEF Case
<1>3. <<s1, s2, s3, s4, s5, s6>> \o <<s7, s8, s9>> \o <<s10>>
        = <<s1, s2, s3, s4, s5, s6, s7, s8, s9, s10>>
  <2> HIDE DEF s1, s2, s3, s4, s5, s6, s7, s8, s9, s10
  <2> QED BY Join6_3_1
<1> QED BY <1>1, <1>2, <1>3, DriveIs, Zenon
    DEF RenderFrameSucceedsOnceLoaded, OnPlaying, Playing, TearDown

\* The script of SetLowLatencyIsAccepted.
LEMMA ScriptSetLowLatencyIsAccepted ==
  Suite["SetLowLatencyIsAccepted"].script
    = <<Plain("setPipeline"), Setup("load"), Setup("attachSource"),
        Setup("allSourcesAttached"), Setup("play"), Reach("PLAYING"),
        Call("setLowLatency"), Plain("stop")>>
<1> DEFINE s1 == Plain("setPipeline")
           s2 == Setup("load")
           s3 == Setup("attachSource")
           s4 == Setup("allSourcesAttached")
           s5 == Setup("play")
           s6 == Reach("PLAYING")
           s7 == Call("setLowLatency")
           s8 == Plain("stop")
<1>1. Suite["SetLowLatencyIsAccepted"] = SetLowLatencyIsAccepted
  BY Zenon DEF Suite
<1>2. \A script, catches : Case(script, catches).script = script
  BY DEF Case
<1>3. <<s1, s2, s3, s4, s5, s6>> \o <<s7>> \o <<s8>>
        = <<s1, s2, s3, s4, s5, s6, s7, s8>>
  <2> HIDE DEF s1, s2, s3, s4, s5, s6, s7, s8
  <2> QED BY Join6_1_1
<1> QED BY <1>1, <1>2, <1>3, DriveIs, Zenon
    DEF SetLowLatencyIsAccepted, OnPlaying, Playing, TearDown

\* The script of SyncRoundTrips.
LEMMA ScriptSyncRoundTrips ==
  Suite["SyncRoundTrips"].script
    = <<Plain("setPipeline"), Setup("load"), Setup("attachSource"),
        Setup("allSourcesAttached"), Setup("play"), Reach("PLAYING"),
        Write(TRUE), Poll(TRUE), Plain("stop")>>
<1> DEFINE s1 == Plain("setPipeline")
           s2 == Setup("load")
           s3 == Setup("attachSource")
           s4 == Setup("allSourcesAttached")
           s5 == Setup("play")
           s6 == Reach("PLAYING")
           s7 == Write(TRUE)
           s8 == Poll(TRUE)
           s9 == Plain("stop")
<1>1. Suite["SyncRoundTrips"] = SyncRoundTrips
  BY Zenon DEF Suite
<1>2. \A script, catches : Case(script, catches).script = script
  BY DEF Case
<1>3. <<s1, s2, s3, s4, s5, s6>> \o <<s7, s8>> \o <<s9>>
        = <<s1, s2, s3, s4, s5, s6, s7, s8, s9>>
  <2> HIDE DEF s1, s2, s3, s4, s5, s6, s7, s8, s9
  <2> QED BY Join6_2_1
<1> QED BY <1>1, <1>2, <1>3, DriveIs, Zenon
    DEF SyncRoundTrips, OnPlaying, Playing, TearDown

\* The script of SetSyncOffAcceptedBeforePlaying.
LEMMA ScriptSetSyncOffAcceptedBeforePlaying ==
  Suite["SetSyncOffAcceptedBeforePlaying"].script
    = <<Plain("setPipeline"), Call("load"), Call("attachSource"),
        Call("setSyncOff")>>
<1>1. Suite["SetSyncOffAcceptedBeforePlaying"] = SetSyncOffAcceptedBeforePlaying
  BY Zenon DEF Suite
<1>2. \A script, catches : Case(script, catches).script = script
  BY DEF Case
<1> QED BY <1>1, <1>2, Zenon DEF SetSyncOffAcceptedBeforePlaying, Playing

\* The script of StreamSyncModeConformsWhenSupported.
LEMMA ScriptStreamSyncModeConformsWhenSupported ==
  Suite["StreamSyncModeConformsWhenSupported"].script
    = <<Plain("setPipeline"), Setup("load"), Setup("attachSource"),
        Setup("allSourcesAttached"), Setup("play"), Reach("PLAYING"),
        Write(TRUE), PollIfSupported, Plain("stop")>>
<1> DEFINE s1 == Plain("setPipeline")
           s2 == Setup("load")
           s3 == Setup("attachSource")
           s4 == Setup("allSourcesAttached")
           s5 == Setup("play")
           s6 == Reach("PLAYING")
           s7 == Write(TRUE)
           s8 == PollIfSupported
           s9 == Plain("stop")
<1>1. Suite["StreamSyncModeConformsWhenSupported"] = StreamSyncModeConformsWhenSupported
  BY Zenon DEF Suite
<1>2. \A script, catches : Case(script, catches).script = script
  BY DEF Case
<1>3. <<s1, s2, s3, s4, s5, s6>> \o <<s7, s8>> \o <<s9>>
        = <<s1, s2, s3, s4, s5, s6, s7, s8, s9>>
  <2> HIDE DEF s1, s2, s3, s4, s5, s6, s7, s8, s9
  <2> QED BY Join6_2_1
<1> QED BY <1>1, <1>2, <1>3, DriveIs, Zenon
    DEF StreamSyncModeConformsWhenSupported, OnPlaying, Playing, TearDown

\* The script of SwitchSourceAcceptsNewAudioSource.
LEMMA ScriptSwitchSourceAcceptsNewAudioSource ==
  Suite["SwitchSourceAcceptsNewAudioSource"].script
    = <<Plain("setPipeline"), Setup("load"), Setup("attachSource"),
        Setup("allSourcesAttached"), Setup("play"), Reach("PLAYING"),
        Call("switchSource"), Plain("stop")>>
<1> DEFINE s1 == Plain("setPipeline")
           s2 == Setup("load")
           s3 == Setup("attachSource")
           s4 == Setup("allSourcesAttached")
           s5 == Setup("play")
           s6 == Reach("PLAYING")
           s7 == Call("switchSource")
           s8 == Plain("stop")
<1>1. Suite["SwitchSourceAcceptsNewAudioSource"] = SwitchSourceAcceptsNewAudioSource
  BY Zenon DEF Suite
<1>2. \A script, catches : Case(script, catches).script = script
  BY DEF Case
<1>3. <<s1, s2, s3, s4, s5, s6>> \o <<s7>> \o <<s8>>
        = <<s1, s2, s3, s4, s5, s6, s7, s8>>
  <2> HIDE DEF s1, s2, s3, s4, s5, s6, s7, s8
  <2> QED BY Join6_1_1
<1> QED BY <1>1, <1>2, <1>3, DriveIs, Zenon
    DEF SwitchSourceAcceptsNewAudioSource, OnPlaying, Playing, TearDown

\* The script of GetPositionSucceedsOncePlaying.
LEMMA ScriptGetPositionSucceedsOncePlaying ==
  Suite["GetPositionSucceedsOncePlaying"].script
    = <<Plain("setPipeline"), Get("getPosition", FALSE), Call("load"),
        Call("attachSource"), Call("allSourcesAttached"), Call("play"),
        Reach("PLAYING"), Check("noFailure"), Get("getPosition", TRUE),
        Plain("stop")>>
<1> DEFINE s1 == Plain("setPipeline")
           s2 == Get("getPosition", FALSE)
           s3 == Call("load")
           s4 == Call("attachSource")
           s5 == Call("allSourcesAttached")
           s6 == Call("play")
           s7 == Reach("PLAYING")
           s8 == Check("noFailure")
           s9 == Get("getPosition", TRUE)
           s10 == Plain("stop")
<1>1. Suite["GetPositionSucceedsOncePlaying"] = GetPositionSucceedsOncePlaying
  BY Zenon DEF Suite
<1>2. \A script, catches : Case(script, catches).script = script
  BY DEF Case
<1>3. <<s1, s2, s3, s4>> \o <<s5, s6, s7>> \o <<s8>> \o <<s9>> \o <<s10>>
        = <<s1, s2, s3, s4, s5, s6, s7, s8, s9, s10>>
  <2> HIDE DEF s1, s2, s3, s4, s5, s6, s7, s8, s9, s10
  <2> QED BY Join4_3_1_1_1
<1> QED BY <1>1, <1>2, <1>3, Zenon
    DEF GetPositionSucceedsOncePlaying, Getter, Playing, PlayAsserted, TearDown

\* The script of GetDurationNotDeterminableForStreamSource.
LEMMA ScriptGetDurationNotDeterminableForStreamSource ==
  Suite["GetDurationNotDeterminableForStreamSource"].script
    = <<Plain("setPipeline"), Get("getDuration", FALSE), Call("load"),
        Call("attachSource"), Call("allSourcesAttached"), Call("play"),
        Reach("PLAYING"), Check("noFailure"), Get("getPosition", TRUE),
        Get("getDuration", FALSE), Plain("stop")>>
<1> DEFINE s1 == Plain("setPipeline")
           s2 == Get("getDuration", FALSE)
           s3 == Call("load")
           s4 == Call("attachSource")
           s5 == Call("allSourcesAttached")
           s6 == Call("play")
           s7 == Reach("PLAYING")
           s8 == Check("noFailure")
           s9 == Get("getPosition", TRUE)
           s10 == Get("getDuration", FALSE)
           s11 == Plain("stop")
<1>1. Suite["GetDurationNotDeterminableForStreamSource"]
        = GetDurationNotDeterminableForStreamSource
  BY Zenon DEF Suite
<1>2. \A script, catches : Case(script, catches).script = script
  BY DEF Case
<1>3. <<s1, s2, s3, s4>> \o <<s5, s6, s7>> \o <<s8>> \o <<s9, s10>> \o <<s11>>
        = <<s1, s2, s3, s4, s5, s6, s7, s8, s9, s10, s11>>
  <2> HIDE DEF s1, s2, s3, s4, s5, s6, s7, s8, s9, s10, s11
  <2> QED BY Join4_3_1_2_1
<1> QED BY <1>1, <1>2, <1>3, Zenon
    DEF GetDurationNotDeterminableForStreamSource, Getter, Playing, PlayAsserted, TearDown

\* The script of GetStatsSucceedsOncePlaying.
LEMMA ScriptGetStatsSucceedsOncePlaying ==
  Suite["GetStatsSucceedsOncePlaying"].script
    = <<Plain("setPipeline"), Get("getStats", FALSE), Call("load"),
        Call("attachSource"), Call("allSourcesAttached"), Call("play"),
        Reach("PLAYING"), Check("noFailure"), Get("getStats", TRUE),
        Plain("stop")>>
<1> DEFINE s1 == Plain("setPipeline")
           s2 == Get("getStats", FALSE)
           s3 == Call("load")
           s4 == Call("attachSource")
           s5 == Call("allSourcesAttached")
           s6 == Call("play")
           s7 == Reach("PLAYING")
           s8 == Check("noFailure")
           s9 == Get("getStats", TRUE)
           s10 == Plain("stop")
<1>1. Suite["GetStatsSucceedsOncePlaying"] = GetStatsSucceedsOncePlaying
  BY Zenon DEF Suite
<1>2. \A script, catches : Case(script, catches).script = script
  BY DEF Case
<1>3. <<s1, s2, s3, s4>> \o <<s5, s6, s7>> \o <<s8>> \o <<s9>> \o <<s10>>
        = <<s1, s2, s3, s4, s5, s6, s7, s8, s9, s10>>
  <2> HIDE DEF s1, s2, s3, s4, s5, s6, s7, s8, s9, s10
  <2> QED BY Join4_3_1_1_1
<1> QED BY <1>1, <1>2, <1>3, Zenon
    DEF GetStatsSucceedsOncePlaying, Getter, Playing, PlayAsserted, TearDown

\* The script of NeedDataProtocolIsWellFormed.
LEMMA ScriptNeedDataProtocolIsWellFormed ==
  Suite["NeedDataProtocolIsWellFormed"].script
    = <<Plain("setPipeline"), Setup("load"), Setup("attachSource"),
        Setup("allSourcesAttached"), Setup("play"), Reach("PLAYING"),
        Ensure("requested"), Get("wellFormed", TRUE), Check("noOverlap"),
        Check("allAccepted"), Plain("stop")>>
<1> DEFINE s1 == Plain("setPipeline")
           s2 == Setup("load")
           s3 == Setup("attachSource")
           s4 == Setup("allSourcesAttached")
           s5 == Setup("play")
           s6 == Reach("PLAYING")
           s7 == Ensure("requested")
           s8 == Get("wellFormed", TRUE)
           s9 == Check("noOverlap")
           s10 == Check("allAccepted")
           s11 == Plain("stop")
<1>1. Suite["NeedDataProtocolIsWellFormed"] = NeedDataProtocolIsWellFormed
  BY Zenon DEF Suite
<1>2. \A script, catches : Case(script, catches).script = script
  BY DEF Case
<1>3. <<s1, s2, s3, s4, s5, s6>> \o <<s7, s8, s9, s10>> \o <<s11>>
        = <<s1, s2, s3, s4, s5, s6, s7, s8, s9, s10, s11>>
  <2> HIDE DEF s1, s2, s3, s4, s5, s6, s7, s8, s9, s10, s11
  <2> QED BY Join6_4_1
<1> QED BY <1>1, <1>2, <1>3, DriveIs, Zenon
    DEF NeedDataProtocolIsWellFormed, OnPlaying, Playing, TearDown

\* The script of HaveDataEosDrivesEndOfStream.
LEMMA ScriptHaveDataEosDrivesEndOfStream ==
  Suite["HaveDataEosDrivesEndOfStream"].script
    = <<Plain("setPipeline"), Setup("load"), Setup("attachSource"),
        Setup("allSourcesAttached"), Setup("play"), Reach("PLAYING"),
        Await("END_OF_STREAM"), Check("noFailure"), Plain("stop")>>
<1> DEFINE s1 == Plain("setPipeline")
           s2 == Setup("load")
           s3 == Setup("attachSource")
           s4 == Setup("allSourcesAttached")
           s5 == Setup("play")
           s6 == Reach("PLAYING")
           s7 == Await("END_OF_STREAM")
           s8 == Check("noFailure")
           s9 == Plain("stop")
<1>1. Suite["HaveDataEosDrivesEndOfStream"] = HaveDataEosDrivesEndOfStream
  BY Zenon DEF Suite
<1>2. \A script, catches : Case(script, catches).script = script
  BY DEF Case
<1>3. <<s1, s2, s3, s4, s5, s6>> \o <<s7, s8>> \o <<s9>>
        = <<s1, s2, s3, s4, s5, s6, s7, s8, s9>>
  <2> HIDE DEF s1, s2, s3, s4, s5, s6, s7, s8, s9
  <2> QED BY Join6_2_1
<1> QED BY <1>1, <1>2, <1>3, DriveIs, Zenon
    DEF HaveDataEosDrivesEndOfStream, OnPlaying, Playing, TearDown

\* The script of CleanRunNetworkStateVocabulary.
LEMMA ScriptCleanRunNetworkStateVocabulary ==
  Suite["CleanRunNetworkStateVocabulary"].script
    = <<Plain("setPipeline"), Setup("load"), Setup("attachSource"),
        Setup("allSourcesAttached"), Setup("play"), Reach("PLAYING"),
        Await("END_OF_STREAM"), Check("buffering"), Check("noNetworkError"),
        Plain("stop")>>
<1> DEFINE s1 == Plain("setPipeline")
           s2 == Setup("load")
           s3 == Setup("attachSource")
           s4 == Setup("allSourcesAttached")
           s5 == Setup("play")
           s6 == Reach("PLAYING")
           s7 == Await("END_OF_STREAM")
           s8 == Check("buffering")
           s9 == Check("noNetworkError")
           s10 == Plain("stop")
<1>1. Suite["CleanRunNetworkStateVocabulary"] = CleanRunNetworkStateVocabulary
  BY Zenon DEF Suite
<1>2. \A script, catches : Case(script, catches).script = script
  BY DEF Case
<1>3. <<s1, s2, s3, s4, s5, s6>> \o <<s7, s8, s9>> \o <<s10>>
        = <<s1, s2, s3, s4, s5, s6, s7, s8, s9, s10>>
  <2> HIDE DEF s1, s2, s3, s4, s5, s6, s7, s8, s9, s10
  <2> QED BY Join6_3_1
<1> QED BY <1>1, <1>2, <1>3, DriveIs, Zenon
    DEF CleanRunNetworkStateVocabulary, OnPlaying, Playing, TearDown

\* The script of StarvationIsToleratedAndEventsObserved.
LEMMA ScriptStarvationIsToleratedAndEventsObserved ==
  Suite["StarvationIsToleratedAndEventsObserved"].script
    = <<Plain("setPipeline"), Setup("load"), Setup("attachSource"),
        Setup("allSourcesAttached"), Setup("play"), Reach("PLAYING"),
        Mode("setStarve", TRUE), Glance("UNDERFLOW"), Check("noFailure"),
        Plain("stop")>>
<1> DEFINE s1 == Plain("setPipeline")
           s2 == Setup("load")
           s3 == Setup("attachSource")
           s4 == Setup("allSourcesAttached")
           s5 == Setup("play")
           s6 == Reach("PLAYING")
           s7 == Mode("setStarve", TRUE)
           s8 == Glance("UNDERFLOW")
           s9 == Check("noFailure")
           s10 == Plain("stop")
<1>1. Suite["StarvationIsToleratedAndEventsObserved"] = StarvationIsToleratedAndEventsObserved
  BY Zenon DEF Suite
<1>2. \A script, catches : Case(script, catches).script = script
  BY DEF Case
<1>3. <<s1, s2, s3, s4, s5, s6>> \o <<s7, s8, s9>> \o <<s10>>
        = <<s1, s2, s3, s4, s5, s6, s7, s8, s9, s10>>
  <2> HIDE DEF s1, s2, s3, s4, s5, s6, s7, s8, s9, s10
  <2> QED BY Join6_3_1
<1> QED BY <1>1, <1>2, <1>3, DriveIs, Zenon
    DEF StarvationIsToleratedAndEventsObserved, OnPlaying, Playing, TearDown

\* The script of PlayPauseStopStateMachine.
LEMMA ScriptPlayPauseStopStateMachine ==
  Suite["PlayPauseStopStateMachine"].script
    = <<Plain("setPipeline"), Setup("load"), Setup("attachSource"),
        Call("allSourcesAttached"), Call("play"), Reach("PLAYING"),
        Check("noFailure"), Call("pause"), Await("PAUSED"), Call("stop"),
        Glance("STOPPED")>>
<1> DEFINE s1 == Plain("setPipeline")
           s2 == Setup("load")
           s3 == Setup("attachSource")
           s4 == Call("allSourcesAttached")
           s5 == Call("play")
           s6 == Reach("PLAYING")
           s7 == Check("noFailure")
           s8 == Call("pause")
           s9 == Await("PAUSED")
           s10 == Call("stop")
           s11 == Glance("STOPPED")
<1>1. Suite["PlayPauseStopStateMachine"] = PlayPauseStopStateMachine
  BY Zenon DEF Suite
<1>2. \A script, catches : Case(script, catches).script = script
  BY DEF Case
<1>3. <<s1, s2, s3>> \o <<s4, s5, s6>> \o <<s7, s8, s9, s10, s11>>
        = <<s1, s2, s3, s4, s5, s6, s7, s8, s9, s10, s11>>
  <2> HIDE DEF s1, s2, s3, s4, s5, s6, s7, s8, s9, s10, s11
  <2> QED BY Join3_3_5
<1> QED BY <1>1, <1>2, <1>3, Zenon
    DEF PlayPauseStopStateMachine, Playing, LoadAndAttachAudio, PlayAsserted

\* The script of SetPlaybackRateSucceedsWhilePlaying.
LEMMA ScriptSetPlaybackRateSucceedsWhilePlaying ==
  Suite["SetPlaybackRateSucceedsWhilePlaying"].script
    = <<Plain("setPipeline"), Setup("load"), Setup("attachSource"),
        Call("allSourcesAttached"), Call("play"), Reach("PLAYING"),
        Call("setPlaybackRate"), Plain("stop")>>
<1> DEFINE s1 == Plain("setPipeline")
           s2 == Setup("load")
           s3 == Setup("attachSource")
           s4 == Call("allSourcesAttached")
           s5 == Call("play")
           s6 == Reach("PLAYING")
           s7 == Call("setPlaybackRate")
           s8 == Plain("stop")
<1>1. Suite["SetPlaybackRateSucceedsWhilePlaying"] = SetPlaybackRateSucceedsWhilePlaying
  BY Zenon DEF Suite
<1>2. \A script, catches : Case(script, catches).script = script
  BY DEF Case
<1>3. <<s1, s2, s3>> \o <<s4, s5, s6>> \o <<s7>> \o <<s8>>
        = <<s1, s2, s3, s4, s5, s6, s7, s8>>
  <2> HIDE DEF s1, s2, s3, s4, s5, s6, s7, s8
  <2> QED BY Join3_3_1_1
<1> QED BY <1>1, <1>2, <1>3, Zenon
    DEF SetPlaybackRateSucceedsWhilePlaying, Playing, LoadAndAttachAudio, PlayAsserted,
        TearDown

\* The script of SetPositionSetsStartThenSeeksWhilePlaying.
LEMMA ScriptSetPositionSetsStartThenSeeksWhilePlaying ==
  Suite["SetPositionSetsStartThenSeeksWhilePlaying"].script
    = <<Plain("setPipeline"), Setup("load"), Setup("attachSource"),
        Call("setStartPosition"), Call("allSourcesAttached"), Call("play"),
        Reach("PLAYING"), Plain("rewindSource"), Call("setPosition"),
        Await("SEEKING"), Await("SEEK_DONE"), Check("noFailure"), Plain("stop")>>
<1> DEFINE s1 == Plain("setPipeline")
           s2 == Setup("load")
           s3 == Setup("attachSource")
           s4 == Call("setStartPosition")
           s5 == Call("allSourcesAttached")
           s6 == Call("play")
           s7 == Reach("PLAYING")
           s8 == Plain("rewindSource")
           s9 == Call("setPosition")
           s10 == Await("SEEKING")
           s11 == Await("SEEK_DONE")
           s12 == Check("noFailure")
           s13 == Plain("stop")
<1>1. Suite["SetPositionSetsStartThenSeeksWhilePlaying"]
        = SetPositionSetsStartThenSeeksWhilePlaying
  BY Zenon DEF Suite
<1>2. \A script, catches : Case(script, catches).script = script
  BY DEF Case
<1>3. <<s1, s2, s3>> \o <<s4>> \o <<s5, s6, s7>> \o <<s8, s9, s10, s11, s12>> \o <<s13>>
        = <<s1, s2, s3, s4, s5, s6, s7, s8, s9, s10, s11, s12, s13>>
  <2> HIDE DEF s1, s2, s3, s4, s5, s6, s7, s8, s9, s10, s11, s12, s13
  <2> QED BY Join3_1_3_5_1
<1> QED BY <1>1, <1>2, <1>3, Zenon
    DEF SetPositionSetsStartThenSeeksWhilePlaying, Playing, LoadAndAttachAudio, PlayAsserted,
        TearDown

\* The script of NoSpaceIsNotAnErrorAndTheSegmentIsResent.
LEMMA ScriptNoSpaceIsNotAnErrorAndTheSegmentIsResent ==
  Suite["NoSpaceIsNotAnErrorAndTheSegmentIsResent"].script
    = <<Plain("setOversupply"), Plain("setPipeline"), Setup("load"),
        Setup("attachSource"), Setup("allSourcesAttached"), Setup("play"),
        Reach("PLAYING"), Sleep, Check("noErrors"), Check("noFailure"),
        Check("resent"), Plain("stop")>>
<1> DEFINE s1 == Plain("setOversupply")
           s2 == Plain("setPipeline")
           s3 == Setup("load")
           s4 == Setup("attachSource")
           s5 == Setup("allSourcesAttached")
           s6 == Setup("play")
           s7 == Reach("PLAYING")
           s8 == Sleep
           s9 == Check("noErrors")
           s10 == Check("noFailure")
           s11 == Check("resent")
           s12 == Plain("stop")
<1>1. Suite["NoSpaceIsNotAnErrorAndTheSegmentIsResent"] = NoSpaceIsNotAnErrorAndTheSegmentIsResent
  BY Zenon DEF Suite
<1>2. \A script, catches : Case(script, catches).script = script
  BY DEF Case
<1>3. <<s1>> \o <<s2, s3, s4, s5, s6, s7>> \o <<s8, s9, s10, s11>> \o <<s12>>
        = <<s1, s2, s3, s4, s5, s6, s7, s8, s9, s10, s11, s12>>
  <2> HIDE DEF s1, s2, s3, s4, s5, s6, s7, s8, s9, s10, s11, s12
  <2> QED BY Join1_6_4_1
<1> QED BY <1>1, <1>2, <1>3, DriveIs, Zenon
    DEF NoSpaceIsNotAnErrorAndTheSegmentIsResent, Playing, TearDown

\* The script of AddSegmentWithAnUnissuedRequestIdIsAnError.
LEMMA ScriptAddSegmentWithAnUnissuedRequestIdIsAnError ==
  Suite["AddSegmentWithAnUnissuedRequestIdIsAnError"].script
    = <<Plain("setPipeline"), Setup("load"), Setup("attachSource"),
        Setup("allSourcesAttached"), Setup("play"), Reach("PLAYING"),
        Get("rejectsUnissued", TRUE), Check("noFailure"), Plain("stop")>>
<1> DEFINE s1 == Plain("setPipeline")
           s2 == Setup("load")
           s3 == Setup("attachSource")
           s4 == Setup("allSourcesAttached")
           s5 == Setup("play")
           s6 == Reach("PLAYING")
           s7 == Get("rejectsUnissued", TRUE)
           s8 == Check("noFailure")
           s9 == Plain("stop")
<1>1. Suite["AddSegmentWithAnUnissuedRequestIdIsAnError"]
        = AddSegmentWithAnUnissuedRequestIdIsAnError
  BY Zenon DEF Suite
<1>2. \A script, catches : Case(script, catches).script = script
  BY DEF Case
<1>3. <<s1, s2, s3, s4, s5, s6>> \o <<s7, s8>> \o <<s9>>
        = <<s1, s2, s3, s4, s5, s6, s7, s8, s9>>
  <2> HIDE DEF s1, s2, s3, s4, s5, s6, s7, s8, s9
  <2> QED BY Join6_2_1
<1> QED BY <1>1, <1>2, <1>3, DriveIs, Zenon
    DEF AddSegmentWithAnUnissuedRequestIdIsAnError, OnPlaying, Playing, TearDown

\* The script of CancelledNeedDataIsNotAnError.
LEMMA ScriptCancelledNeedDataIsNotAnError ==
  Suite["CancelledNeedDataIsNotAnError"].script
    = <<Plain("setPipeline"), Setup("load"), Setup("attachSource"),
        Setup("allSourcesAttached"), Setup("play"), Reach("PLAYING"),
        Mode("forgetRequests", TRUE), Mode("setWithhold", TRUE), Sleep,
        Plain("flush"), Sleep, Check("noFailure"), Plain("rewindSource"),
        Mode("setWithhold", FALSE), Sleep, Check("requested"),
        Check("noFailure"), Plain("stop")>>
<1> DEFINE s1 == Plain("setPipeline")
           s2 == Setup("load")
           s3 == Setup("attachSource")
           s4 == Setup("allSourcesAttached")
           s5 == Setup("play")
           s6 == Reach("PLAYING")
           s7 == Mode("forgetRequests", TRUE)
           s8 == Mode("setWithhold", TRUE)
           s9 == Sleep
           s10 == Plain("flush")
           s11 == Sleep
           s12 == Check("noFailure")
           s13 == Plain("rewindSource")
           s14 == Mode("setWithhold", FALSE)
           s15 == Sleep
           s16 == Check("requested")
           s17 == Check("noFailure")
           s18 == Plain("stop")
<1>1. Suite["CancelledNeedDataIsNotAnError"] = CancelledNeedDataIsNotAnError
  BY Zenon DEF Suite
<1>2. \A script, catches : Case(script, catches).script = script
  BY DEF Case
<1>3. <<s1, s2, s3, s4, s5, s6>>
        \o <<s7, s8, s9, s10, s11, s12, s13, s14, s15, s16, s17>> \o <<s18>>
        = <<s1, s2, s3, s4, s5, s6, s7, s8, s9, s10, s11, s12, s13, s14, s15, s16, s17, s18>>
  <2> HIDE DEF s1, s2, s3, s4, s5, s6, s7, s8, s9, s10, s11, s12, s13, s14, s15, s16, s17, s18
  <2> QED BY Join6_11_1
<1> QED BY <1>1, <1>2, <1>3, DriveIs, Zenon
    DEF CancelledNeedDataIsNotAnError, OnPlaying, Playing, TearDown, Resume

\* The script of NonFatalPlaybackErrorLeavesStateUnchanged.
LEMMA ScriptNonFatalPlaybackErrorLeavesStateUnchanged ==
  Suite["NonFatalPlaybackErrorLeavesStateUnchanged"].script
    = <<Plain("setPipeline"), Setup("load"), Setup("attachSource"),
        Setup("allSourcesAttached"), Setup("play"), Reach("PLAYING"),
        Plain("setCorruptEvery"), Sleep, Check("noFailure"),
        Check("errorWhilePlaying"), Plain("stop")>>
<1> DEFINE s1 == Plain("setPipeline")
           s2 == Setup("load")
           s3 == Setup("attachSource")
           s4 == Setup("allSourcesAttached")
           s5 == Setup("play")
           s6 == Reach("PLAYING")
           s7 == Plain("setCorruptEvery")
           s8 == Sleep
           s9 == Check("noFailure")
           s10 == Check("errorWhilePlaying")
           s11 == Plain("stop")
<1>1. Suite["NonFatalPlaybackErrorLeavesStateUnchanged"]
        = NonFatalPlaybackErrorLeavesStateUnchanged
  BY Zenon DEF Suite
<1>2. \A script, catches : Case(script, catches).script = script
  BY DEF Case
<1>3. <<s1, s2, s3, s4, s5, s6>> \o <<s7, s8, s9, s10>> \o <<s11>>
        = <<s1, s2, s3, s4, s5, s6, s7, s8, s9, s10, s11>>
  <2> HIDE DEF s1, s2, s3, s4, s5, s6, s7, s8, s9, s10, s11
  <2> QED BY Join6_4_1
<1> QED BY <1>1, <1>2, <1>3, DriveIs, Zenon
    DEF NonFatalPlaybackErrorLeavesStateUnchanged, OnPlaying, Playing, TearDown

-----------------------------------------------------------------------------
(***************************************************************************)
(* What the steps of each case are like: how each may fail, and where it   *)
(* stands.                                                                 *)
(***************************************************************************)

\* What a call, step k of case c, may be: a case binds, attaches, loads and plays where it
\* says, and what is particular to one case is in that case only.
CallKinds(c, k, st) ==
  /\ st.what # "property"
  /\ st.what = "setPipeline" <=> k = BindAt(c)
  /\ st.what = "attachSource" <=> k = AttachAt(c)
  /\ st.what = "allSourcesAttached" <=> k = ReachAt(c) - 2
  /\ st.what = "play" <=> k = ReachAt(c) - 1
  /\ st.what = "load" => k < AttachAt(c)
  /\ c = Clean => (st.what = "load" <=> k = 2)
  /\ st.what = "setOversupply" => c = Refilling
  /\ st.what = "pause" => (c = Rendering /\ k = 7) \/ (c = Transport /\ k = 8)
  /\ st.what = "stop" =>
       (c = Transport /\ k = 10) \/ (c # Transport /\ k = Len(Suite[c].script))
  /\ st.what = "flush" => (c = Flushing /\ k = 7) \/ (c = Cancelling /\ k = 10)
  /\ st.what = "setPosition" => c = Seeking /\ k = 9
  /\ st.what = "rewindSource" => (c = Seeking /\ k = 8) \/ (c = Cancelling /\ k = 13)
  /\ st.what = "setWithhold" =>
       c = Cancelling /\ ((k = 8 /\ st.value = TRUE) \/ (k = 14 /\ st.value = FALSE))
  /\ st.what = "setStarve" => c = Starving /\ k = 7
  /\ st.what = "forgetRequests" => c = Cancelling /\ k = 7
  /\ st.what = "setCorruptEvery" => c = Erring /\ k = 7
  /\ st.what \in {"stop", "pause", "flush", "setPosition", "rewindSource"} => k > ReachAt(c)

\* What a wait may be for.
AwaitKinds(c, k, st) ==
  /\ k >= ReachAt(c) /\ c # Unplayed
  /\ st.must # "ignored" =>
       \/ st.what = "PLAYING" /\ k = ReachAt(c)
       \/ st.what = "PAUSED" /\ k > ReachAt(c)
       \/ st.what = "END_OF_STREAM" /\ c \in {Ending, Clean} /\ k = 7
       \/ st.what = "FLUSHED" /\ c = Flushing /\ k = 8
       \/ st.what = "SEEKING" /\ c = Seeking /\ k = 10
       \/ st.what = "SEEK_DONE" /\ c = Seeking /\ k = 11

\* What an assertion on the record may be.
CheckKinds(c, k, st) ==
  \/ st.what \in {"noFailure", "noNetworkError"}
  \/ st.what = "requested" /\ ((c = Protocol /\ k = 7) \/ (c = Cancelling /\ k = 16))
  \/ st.what \in {"noOverlap", "allAccepted"} /\ c = Protocol
  \/ st.what = "buffering" /\ c = Clean /\ k = 8
  \/ st.what = "noErrors" /\ c = Refilling
  \/ st.what = "resent" /\ c = Refilling /\ k = 11
  \/ st.what = "errorWhilePlaying" /\ c = Erring /\ k = 10

\* A read of the property comes right after the write it reads.
PollKinds(c, k, st) ==
  /\ k > ReachAt(c) + 1 /\ c # Unplayed
  /\ Suite[c].script[k - 1].do = "write"
  /\ Suite[c].script[k - 1].value = st.value

\* What a step k of case c is like, by how it is done.
Kinds(c, k, st) ==
  /\ st.do \in {"call", "write", "get", "await", "poll", "pollIfSupported", "check", "sleep"}
  /\ st.must \in {"hold", "abort", "ignored"}
  /\ st.value \in BOOLEAN
  /\ st.do # "call" =>
       k # BindAt(c) /\ k # AttachAt(c) /\ k # ReachAt(c) - 2 /\ k # ReachAt(c) - 1
  /\ k = ReachAt(c) => st = Reach("PLAYING")
  /\ st.do = "call" => CallKinds(c, k, st)
  /\ st.do = "write" => st.what = "property" /\ st.must = "hold" /\ k > ReachAt(c)
  /\ st.do = "get" =>
       /\ st.must = "hold"
       /\ \/ k = 2 /\ st.value = FALSE /\ c \in Getters
            /\ st.what # "rejectsUnissued"
          \/ k > ReachAt(c) /\ c # Unplayed /\ (st.value = TRUE <=> st.what # "getDuration")
  /\ st.do = "await" => AwaitKinds(c, k, st)
  /\ st.do = "poll" => c \notin ConformWhenSupported
  /\ st.do \in {"poll", "pollIfSupported"} => PollKinds(c, k, st)
  /\ st.do = "check" => CheckKinds(c, k, st) /\ k > ReachAt(c) /\ c # Unplayed
  /\ st.do = "sleep" => st.must = "ignored" /\ c \in {Refilling, Cancelling, Erring}

\* What its steps are like.
LEMMA KindsVolumeRoundTripsOnRealizedPipeline ==
  ASSUME NEW c, c = "VolumeRoundTripsOnRealizedPipeline"
  PROVE  /\ Len(Suite[c].script) \in Nat \ {0}
         /\ \A k \in 1 .. Len(Suite[c].script) : Kinds(c, k, Suite[c].script[k])
<1> DEFINE s == Suite[c].script
<1> USE DEF BindAt, AttachAt, ReachAt, Getters, ConformWhenSupported, Flushing, Rendering,
        Unplayed, Protocol, Ending, Clean, Starving, Transport, Seeking, Refilling,
        Cancelling, Erring
<1>0. PICK n \in Nat \ {0} : n = 9 /\ n = Len(s)
  BY ScriptVolumeRoundTripsOnRealizedPipeline
<1>1. s[1] = Plain("setPipeline") /\ Kinds(c, 1, s[1])
  <2>1. s[1] = Plain("setPipeline")
    BY ScriptVolumeRoundTripsOnRealizedPipeline
  <2> QED BY <2>1 DEF Kinds, CallKinds, Plain, Step
<1>2. s[2] = Setup("load") /\ Kinds(c, 2, s[2])
  <2>1. s[2] = Setup("load")
    BY ScriptVolumeRoundTripsOnRealizedPipeline
  <2> QED BY <2>1 DEF Kinds, CallKinds, Setup, Step
<1>3. s[3] = Setup("attachSource") /\ Kinds(c, 3, s[3])
  <2>1. s[3] = Setup("attachSource")
    BY ScriptVolumeRoundTripsOnRealizedPipeline
  <2> QED BY <2>1 DEF Kinds, CallKinds, Setup, Step
<1>4. s[4] = Setup("allSourcesAttached") /\ Kinds(c, 4, s[4])
  <2>1. s[4] = Setup("allSourcesAttached")
    BY ScriptVolumeRoundTripsOnRealizedPipeline
  <2> QED BY <2>1 DEF Kinds, CallKinds, Setup, Step
<1>5. s[5] = Setup("play") /\ Kinds(c, 5, s[5])
  <2>1. s[5] = Setup("play")
    BY ScriptVolumeRoundTripsOnRealizedPipeline
  <2> QED BY <2>1 DEF Kinds, CallKinds, Setup, Step
<1>6. s[6] = Reach("PLAYING") /\ Kinds(c, 6, s[6])
  <2>1. s[6] = Reach("PLAYING")
    BY ScriptVolumeRoundTripsOnRealizedPipeline
  <2> QED BY <2>1 DEF Kinds, AwaitKinds, Reach, Step
<1>7. s[7] = Write(TRUE) /\ Kinds(c, 7, s[7])
  <2>1. s[7] = Write(TRUE)
    BY ScriptVolumeRoundTripsOnRealizedPipeline
  <2> QED BY <2>1 DEF Kinds, Write, Step
<1>8. s[8] = Poll(TRUE) /\ Kinds(c, 8, s[8])
  <2>1. s[8] = Poll(TRUE)
    BY ScriptVolumeRoundTripsOnRealizedPipeline
  <2>2. s[7] = Write(TRUE) /\ 8 - 1 = 7
    BY ScriptVolumeRoundTripsOnRealizedPipeline
  <2>3. s[8 - 1].do = "write" /\ s[8 - 1].value = TRUE
    BY <2>2 DEF Write, Step
  <2>4. s[8].value = TRUE
    BY <2>1 DEF Poll, Step
  <2>5. s[8 - 1].value = s[8].value
    BY <2>3, <2>4, Zenon
  <2>6. 8 > ReachAt(c) + 1 /\ c # Unplayed
    OBVIOUS
  <2>7. PollKinds(c, 8, s[8])
    BY <2>3, <2>5, <2>6, Zenon DEF PollKinds
  <2> QED BY <2>1, <2>7 DEF Kinds, Poll, Step
<1>9. s[9] = Plain("stop") /\ Kinds(c, 9, s[9])
  <2>1. s[9] = Plain("stop")
    BY ScriptVolumeRoundTripsOnRealizedPipeline
  <2> QED BY <1>0, <2>1 DEF Kinds, CallKinds, Plain, Step
<1> HIDE DEF s
<1>10. ASSUME NEW k \in 1 .. n PROVE Kinds(c, k, s[k])
  <2>1. k = 1 \/ k = 2 \/ k = 3 \/ k = 4 \/ k = 5 \/ k = 6 \/ k = 7 \/ k = 8 \/ k = 9
    BY <1>0
  <2> QED BY <2>1, <1>1, <1>2, <1>3, <1>4, <1>5, <1>6, <1>7, <1>8, <1>9
<1> QED BY <1>0, <1>10 DEF s

\* What its steps are like.
LEMMA KindsMuteRoundTripsPerSource ==
  ASSUME NEW c, c = "MuteRoundTripsPerSource"
  PROVE  /\ Len(Suite[c].script) \in Nat \ {0}
         /\ \A k \in 1 .. Len(Suite[c].script) : Kinds(c, k, Suite[c].script[k])
<1> DEFINE s == Suite[c].script
<1> USE DEF BindAt, AttachAt, ReachAt, Getters, ConformWhenSupported, Flushing, Rendering,
        Unplayed, Protocol, Ending, Clean, Starving, Transport, Seeking, Refilling,
        Cancelling, Erring
<1>0. PICK n \in Nat \ {0} : n = 11 /\ n = Len(s)
  BY ScriptMuteRoundTripsPerSource
<1>1. s[1] = Plain("setPipeline") /\ Kinds(c, 1, s[1])
  <2>1. s[1] = Plain("setPipeline")
    BY ScriptMuteRoundTripsPerSource
  <2> QED BY <2>1 DEF Kinds, CallKinds, Plain, Step
<1>2. s[2] = Setup("load") /\ Kinds(c, 2, s[2])
  <2>1. s[2] = Setup("load")
    BY ScriptMuteRoundTripsPerSource
  <2> QED BY <2>1 DEF Kinds, CallKinds, Setup, Step
<1>3. s[3] = Setup("attachSource") /\ Kinds(c, 3, s[3])
  <2>1. s[3] = Setup("attachSource")
    BY ScriptMuteRoundTripsPerSource
  <2> QED BY <2>1 DEF Kinds, CallKinds, Setup, Step
<1>4. s[4] = Setup("allSourcesAttached") /\ Kinds(c, 4, s[4])
  <2>1. s[4] = Setup("allSourcesAttached")
    BY ScriptMuteRoundTripsPerSource
  <2> QED BY <2>1 DEF Kinds, CallKinds, Setup, Step
<1>5. s[5] = Setup("play") /\ Kinds(c, 5, s[5])
  <2>1. s[5] = Setup("play")
    BY ScriptMuteRoundTripsPerSource
  <2> QED BY <2>1 DEF Kinds, CallKinds, Setup, Step
<1>6. s[6] = Reach("PLAYING") /\ Kinds(c, 6, s[6])
  <2>1. s[6] = Reach("PLAYING")
    BY ScriptMuteRoundTripsPerSource
  <2> QED BY <2>1 DEF Kinds, AwaitKinds, Reach, Step
<1>7. s[7] = Write(TRUE) /\ Kinds(c, 7, s[7])
  <2>1. s[7] = Write(TRUE)
    BY ScriptMuteRoundTripsPerSource
  <2> QED BY <2>1 DEF Kinds, Write, Step
<1>8. s[8] = Poll(TRUE) /\ Kinds(c, 8, s[8])
  <2>1. s[8] = Poll(TRUE)
    BY ScriptMuteRoundTripsPerSource
  <2>2. s[7] = Write(TRUE) /\ 8 - 1 = 7
    BY ScriptMuteRoundTripsPerSource
  <2>3. s[8 - 1].do = "write" /\ s[8 - 1].value = TRUE
    BY <2>2 DEF Write, Step
  <2>4. s[8].value = TRUE
    BY <2>1 DEF Poll, Step
  <2>5. s[8 - 1].value = s[8].value
    BY <2>3, <2>4, Zenon
  <2>6. 8 > ReachAt(c) + 1 /\ c # Unplayed
    OBVIOUS
  <2>7. PollKinds(c, 8, s[8])
    BY <2>3, <2>5, <2>6, Zenon DEF PollKinds
  <2> QED BY <2>1, <2>7 DEF Kinds, Poll, Step
<1>9. s[9] = Write(FALSE) /\ Kinds(c, 9, s[9])
  <2>1. s[9] = Write(FALSE)
    BY ScriptMuteRoundTripsPerSource
  <2> QED BY <2>1 DEF Kinds, Write, Step
<1>10. s[10] = Poll(FALSE) /\ Kinds(c, 10, s[10])
  <2>1. s[10] = Poll(FALSE)
    BY ScriptMuteRoundTripsPerSource
  <2>2. s[9] = Write(FALSE) /\ 10 - 1 = 9
    BY ScriptMuteRoundTripsPerSource
  <2>3. s[10 - 1].do = "write" /\ s[10 - 1].value = FALSE
    BY <2>2 DEF Write, Step
  <2>4. s[10].value = FALSE
    BY <2>1 DEF Poll, Step
  <2>5. s[10 - 1].value = s[10].value
    BY <2>3, <2>4, Zenon
  <2>6. 10 > ReachAt(c) + 1 /\ c # Unplayed
    OBVIOUS
  <2>7. PollKinds(c, 10, s[10])
    BY <2>3, <2>5, <2>6, Zenon DEF PollKinds
  <2> QED BY <2>1, <2>7 DEF Kinds, Poll, Step
<1>11. s[11] = Plain("stop") /\ Kinds(c, 11, s[11])
  <2>1. s[11] = Plain("stop")
    BY ScriptMuteRoundTripsPerSource
  <2> QED BY <1>0, <2>1 DEF Kinds, CallKinds, Plain, Step
<1> HIDE DEF s
<1>12. ASSUME NEW k \in 1 .. n PROVE Kinds(c, k, s[k])
  <2>1. k = 1 \/ k = 2 \/ k = 3 \/ k = 4 \/ k = 5 \/ k = 6 \/ k = 7 \/ k = 8 \/ k = 9
        \/ k = 10 \/ k = 11
    BY <1>0
  <2> QED BY <2>1, <1>1, <1>2, <1>3, <1>4, <1>5, <1>6, <1>7, <1>8, <1>9, <1>10, <1>11
<1> QED BY <1>0, <1>12 DEF s

\* What its steps are like.
LEMMA KindsSetVideoWindowAcceptsGeometry ==
  ASSUME NEW c, c = "SetVideoWindowAcceptsGeometry"
  PROVE  /\ Len(Suite[c].script) \in Nat \ {0}
         /\ \A k \in 1 .. Len(Suite[c].script) : Kinds(c, k, Suite[c].script[k])
<1> DEFINE s == Suite[c].script
<1> USE DEF BindAt, AttachAt, ReachAt, Getters, ConformWhenSupported, Flushing, Rendering,
        Unplayed, Protocol, Ending, Clean, Starving, Transport, Seeking, Refilling,
        Cancelling, Erring
<1>0. PICK n \in Nat \ {0} : n = 8 /\ n = Len(s)
  BY ScriptSetVideoWindowAcceptsGeometry
<1>1. s[1] = Plain("setPipeline") /\ Kinds(c, 1, s[1])
  <2>1. s[1] = Plain("setPipeline")
    BY ScriptSetVideoWindowAcceptsGeometry
  <2> QED BY <2>1 DEF Kinds, CallKinds, Plain, Step
<1>2. s[2] = Setup("load") /\ Kinds(c, 2, s[2])
  <2>1. s[2] = Setup("load")
    BY ScriptSetVideoWindowAcceptsGeometry
  <2> QED BY <2>1 DEF Kinds, CallKinds, Setup, Step
<1>3. s[3] = Setup("attachSource") /\ Kinds(c, 3, s[3])
  <2>1. s[3] = Setup("attachSource")
    BY ScriptSetVideoWindowAcceptsGeometry
  <2> QED BY <2>1 DEF Kinds, CallKinds, Setup, Step
<1>4. s[4] = Setup("allSourcesAttached") /\ Kinds(c, 4, s[4])
  <2>1. s[4] = Setup("allSourcesAttached")
    BY ScriptSetVideoWindowAcceptsGeometry
  <2> QED BY <2>1 DEF Kinds, CallKinds, Setup, Step
<1>5. s[5] = Setup("play") /\ Kinds(c, 5, s[5])
  <2>1. s[5] = Setup("play")
    BY ScriptSetVideoWindowAcceptsGeometry
  <2> QED BY <2>1 DEF Kinds, CallKinds, Setup, Step
<1>6. s[6] = Reach("PLAYING") /\ Kinds(c, 6, s[6])
  <2>1. s[6] = Reach("PLAYING")
    BY ScriptSetVideoWindowAcceptsGeometry
  <2> QED BY <2>1 DEF Kinds, AwaitKinds, Reach, Step
<1>7. s[7] = Call("setVideoWindow") /\ Kinds(c, 7, s[7])
  <2>1. s[7] = Call("setVideoWindow")
    BY ScriptSetVideoWindowAcceptsGeometry
  <2> QED BY <2>1 DEF Kinds, CallKinds, Call, Step
<1>8. s[8] = Plain("stop") /\ Kinds(c, 8, s[8])
  <2>1. s[8] = Plain("stop")
    BY ScriptSetVideoWindowAcceptsGeometry
  <2> QED BY <1>0, <2>1 DEF Kinds, CallKinds, Plain, Step
<1> HIDE DEF s
<1>9. ASSUME NEW k \in 1 .. n PROVE Kinds(c, k, s[k])
  <2>1. k = 1 \/ k = 2 \/ k = 3 \/ k = 4 \/ k = 5 \/ k = 6 \/ k = 7 \/ k = 8
    BY <1>0
  <2> QED BY <2>1, <1>1, <1>2, <1>3, <1>4, <1>5, <1>6, <1>7, <1>8
<1> QED BY <1>0, <1>9 DEF s

\* What its steps are like.
LEMMA KindsFlushEmitsSourceFlushed ==
  ASSUME NEW c, c = "FlushEmitsSourceFlushed"
  PROVE  /\ Len(Suite[c].script) \in Nat \ {0}
         /\ \A k \in 1 .. Len(Suite[c].script) : Kinds(c, k, Suite[c].script[k])
<1> DEFINE s == Suite[c].script
<1> USE DEF BindAt, AttachAt, ReachAt, Getters, ConformWhenSupported, Flushing, Rendering,
        Unplayed, Protocol, Ending, Clean, Starving, Transport, Seeking, Refilling,
        Cancelling, Erring
<1>0. PICK n \in Nat \ {0} : n = 9 /\ n = Len(s)
  BY ScriptFlushEmitsSourceFlushed
<1>1. s[1] = Plain("setPipeline") /\ Kinds(c, 1, s[1])
  <2>1. s[1] = Plain("setPipeline")
    BY ScriptFlushEmitsSourceFlushed
  <2> QED BY <2>1 DEF Kinds, CallKinds, Plain, Step
<1>2. s[2] = Setup("load") /\ Kinds(c, 2, s[2])
  <2>1. s[2] = Setup("load")
    BY ScriptFlushEmitsSourceFlushed
  <2> QED BY <2>1 DEF Kinds, CallKinds, Setup, Step
<1>3. s[3] = Setup("attachSource") /\ Kinds(c, 3, s[3])
  <2>1. s[3] = Setup("attachSource")
    BY ScriptFlushEmitsSourceFlushed
  <2> QED BY <2>1 DEF Kinds, CallKinds, Setup, Step
<1>4. s[4] = Setup("allSourcesAttached") /\ Kinds(c, 4, s[4])
  <2>1. s[4] = Setup("allSourcesAttached")
    BY ScriptFlushEmitsSourceFlushed
  <2> QED BY <2>1 DEF Kinds, CallKinds, Setup, Step
<1>5. s[5] = Setup("play") /\ Kinds(c, 5, s[5])
  <2>1. s[5] = Setup("play")
    BY ScriptFlushEmitsSourceFlushed
  <2> QED BY <2>1 DEF Kinds, CallKinds, Setup, Step
<1>6. s[6] = Reach("PLAYING") /\ Kinds(c, 6, s[6])
  <2>1. s[6] = Reach("PLAYING")
    BY ScriptFlushEmitsSourceFlushed
  <2> QED BY <2>1 DEF Kinds, AwaitKinds, Reach, Step
<1>7. s[7] = Call("flush") /\ Kinds(c, 7, s[7])
  <2>1. s[7] = Call("flush")
    BY ScriptFlushEmitsSourceFlushed
  <2> QED BY <2>1 DEF Kinds, CallKinds, Call, Step
<1>8. s[8] = Await("FLUSHED") /\ Kinds(c, 8, s[8])
  <2>1. s[8] = Await("FLUSHED")
    BY ScriptFlushEmitsSourceFlushed
  <2> QED BY <2>1 DEF Kinds, AwaitKinds, Await, Step
<1>9. s[9] = Plain("stop") /\ Kinds(c, 9, s[9])
  <2>1. s[9] = Plain("stop")
    BY ScriptFlushEmitsSourceFlushed
  <2> QED BY <1>0, <2>1 DEF Kinds, CallKinds, Plain, Step
<1> HIDE DEF s
<1>10. ASSUME NEW k \in 1 .. n PROVE Kinds(c, k, s[k])
  <2>1. k = 1 \/ k = 2 \/ k = 3 \/ k = 4 \/ k = 5 \/ k = 6 \/ k = 7 \/ k = 8 \/ k = 9
    BY <1>0
  <2> QED BY <2>1, <1>1, <1>2, <1>3, <1>4, <1>5, <1>6, <1>7, <1>8, <1>9
<1> QED BY <1>0, <1>10 DEF s

\* What its steps are like.
LEMMA KindsSetSourcePositionSucceeds ==
  ASSUME NEW c, c = "SetSourcePositionSucceeds"
  PROVE  /\ Len(Suite[c].script) \in Nat \ {0}
         /\ \A k \in 1 .. Len(Suite[c].script) : Kinds(c, k, Suite[c].script[k])
<1> DEFINE s == Suite[c].script
<1> USE DEF BindAt, AttachAt, ReachAt, Getters, ConformWhenSupported, Flushing, Rendering,
        Unplayed, Protocol, Ending, Clean, Starving, Transport, Seeking, Refilling,
        Cancelling, Erring
<1>0. PICK n \in Nat \ {0} : n = 8 /\ n = Len(s)
  BY ScriptSetSourcePositionSucceeds
<1>1. s[1] = Plain("setPipeline") /\ Kinds(c, 1, s[1])
  <2>1. s[1] = Plain("setPipeline")
    BY ScriptSetSourcePositionSucceeds
  <2> QED BY <2>1 DEF Kinds, CallKinds, Plain, Step
<1>2. s[2] = Setup("load") /\ Kinds(c, 2, s[2])
  <2>1. s[2] = Setup("load")
    BY ScriptSetSourcePositionSucceeds
  <2> QED BY <2>1 DEF Kinds, CallKinds, Setup, Step
<1>3. s[3] = Setup("attachSource") /\ Kinds(c, 3, s[3])
  <2>1. s[3] = Setup("attachSource")
    BY ScriptSetSourcePositionSucceeds
  <2> QED BY <2>1 DEF Kinds, CallKinds, Setup, Step
<1>4. s[4] = Setup("allSourcesAttached") /\ Kinds(c, 4, s[4])
  <2>1. s[4] = Setup("allSourcesAttached")
    BY ScriptSetSourcePositionSucceeds
  <2> QED BY <2>1 DEF Kinds, CallKinds, Setup, Step
<1>5. s[5] = Setup("play") /\ Kinds(c, 5, s[5])
  <2>1. s[5] = Setup("play")
    BY ScriptSetSourcePositionSucceeds
  <2> QED BY <2>1 DEF Kinds, CallKinds, Setup, Step
<1>6. s[6] = Reach("PLAYING") /\ Kinds(c, 6, s[6])
  <2>1. s[6] = Reach("PLAYING")
    BY ScriptSetSourcePositionSucceeds
  <2> QED BY <2>1 DEF Kinds, AwaitKinds, Reach, Step
<1>7. s[7] = Call("setSourcePosition") /\ Kinds(c, 7, s[7])
  <2>1. s[7] = Call("setSourcePosition")
    BY ScriptSetSourcePositionSucceeds
  <2> QED BY <2>1 DEF Kinds, CallKinds, Call, Step
<1>8. s[8] = Plain("stop") /\ Kinds(c, 8, s[8])
  <2>1. s[8] = Plain("stop")
    BY ScriptSetSourcePositionSucceeds
  <2> QED BY <1>0, <2>1 DEF Kinds, CallKinds, Plain, Step
<1> HIDE DEF s
<1>9. ASSUME NEW k \in 1 .. n PROVE Kinds(c, k, s[k])
  <2>1. k = 1 \/ k = 2 \/ k = 3 \/ k = 4 \/ k = 5 \/ k = 6 \/ k = 7 \/ k = 8
    BY <1>0
  <2> QED BY <2>1, <1>1, <1>2, <1>3, <1>4, <1>5, <1>6, <1>7, <1>8
<1> QED BY <1>0, <1>9 DEF s

\* What its steps are like.
LEMMA KindsProcessAudioGapSucceeds ==
  ASSUME NEW c, c = "ProcessAudioGapSucceeds"
  PROVE  /\ Len(Suite[c].script) \in Nat \ {0}
         /\ \A k \in 1 .. Len(Suite[c].script) : Kinds(c, k, Suite[c].script[k])
<1> DEFINE s == Suite[c].script
<1> USE DEF BindAt, AttachAt, ReachAt, Getters, ConformWhenSupported, Flushing, Rendering,
        Unplayed, Protocol, Ending, Clean, Starving, Transport, Seeking, Refilling,
        Cancelling, Erring
<1>0. PICK n \in Nat \ {0} : n = 8 /\ n = Len(s)
  BY ScriptProcessAudioGapSucceeds
<1>1. s[1] = Plain("setPipeline") /\ Kinds(c, 1, s[1])
  <2>1. s[1] = Plain("setPipeline")
    BY ScriptProcessAudioGapSucceeds
  <2> QED BY <2>1 DEF Kinds, CallKinds, Plain, Step
<1>2. s[2] = Setup("load") /\ Kinds(c, 2, s[2])
  <2>1. s[2] = Setup("load")
    BY ScriptProcessAudioGapSucceeds
  <2> QED BY <2>1 DEF Kinds, CallKinds, Setup, Step
<1>3. s[3] = Setup("attachSource") /\ Kinds(c, 3, s[3])
  <2>1. s[3] = Setup("attachSource")
    BY ScriptProcessAudioGapSucceeds
  <2> QED BY <2>1 DEF Kinds, CallKinds, Setup, Step
<1>4. s[4] = Setup("allSourcesAttached") /\ Kinds(c, 4, s[4])
  <2>1. s[4] = Setup("allSourcesAttached")
    BY ScriptProcessAudioGapSucceeds
  <2> QED BY <2>1 DEF Kinds, CallKinds, Setup, Step
<1>5. s[5] = Setup("play") /\ Kinds(c, 5, s[5])
  <2>1. s[5] = Setup("play")
    BY ScriptProcessAudioGapSucceeds
  <2> QED BY <2>1 DEF Kinds, CallKinds, Setup, Step
<1>6. s[6] = Reach("PLAYING") /\ Kinds(c, 6, s[6])
  <2>1. s[6] = Reach("PLAYING")
    BY ScriptProcessAudioGapSucceeds
  <2> QED BY <2>1 DEF Kinds, AwaitKinds, Reach, Step
<1>7. s[7] = Call("processAudioGap") /\ Kinds(c, 7, s[7])
  <2>1. s[7] = Call("processAudioGap")
    BY ScriptProcessAudioGapSucceeds
  <2> QED BY <2>1 DEF Kinds, CallKinds, Call, Step
<1>8. s[8] = Plain("stop") /\ Kinds(c, 8, s[8])
  <2>1. s[8] = Plain("stop")
    BY ScriptProcessAudioGapSucceeds
  <2> QED BY <1>0, <2>1 DEF Kinds, CallKinds, Plain, Step
<1> HIDE DEF s
<1>9. ASSUME NEW k \in 1 .. n PROVE Kinds(c, k, s[k])
  <2>1. k = 1 \/ k = 2 \/ k = 3 \/ k = 4 \/ k = 5 \/ k = 6 \/ k = 7 \/ k = 8
    BY <1>0
  <2> QED BY <2>1, <1>1, <1>2, <1>3, <1>4, <1>5, <1>6, <1>7, <1>8
<1> QED BY <1>0, <1>9 DEF s

\* What its steps are like.
LEMMA KindsBufferingLimitConformsWhenSupported ==
  ASSUME NEW c, c = "BufferingLimitConformsWhenSupported"
  PROVE  /\ Len(Suite[c].script) \in Nat \ {0}
         /\ \A k \in 1 .. Len(Suite[c].script) : Kinds(c, k, Suite[c].script[k])
<1> DEFINE s == Suite[c].script
<1> USE DEF BindAt, AttachAt, ReachAt, Getters, ConformWhenSupported, Flushing, Rendering,
        Unplayed, Protocol, Ending, Clean, Starving, Transport, Seeking, Refilling,
        Cancelling, Erring
<1>0. PICK n \in Nat \ {0} : n = 9 /\ n = Len(s)
  BY ScriptBufferingLimitConformsWhenSupported
<1>1. s[1] = Plain("setPipeline") /\ Kinds(c, 1, s[1])
  <2>1. s[1] = Plain("setPipeline")
    BY ScriptBufferingLimitConformsWhenSupported
  <2> QED BY <2>1 DEF Kinds, CallKinds, Plain, Step
<1>2. s[2] = Setup("load") /\ Kinds(c, 2, s[2])
  <2>1. s[2] = Setup("load")
    BY ScriptBufferingLimitConformsWhenSupported
  <2> QED BY <2>1 DEF Kinds, CallKinds, Setup, Step
<1>3. s[3] = Setup("attachSource") /\ Kinds(c, 3, s[3])
  <2>1. s[3] = Setup("attachSource")
    BY ScriptBufferingLimitConformsWhenSupported
  <2> QED BY <2>1 DEF Kinds, CallKinds, Setup, Step
<1>4. s[4] = Setup("allSourcesAttached") /\ Kinds(c, 4, s[4])
  <2>1. s[4] = Setup("allSourcesAttached")
    BY ScriptBufferingLimitConformsWhenSupported
  <2> QED BY <2>1 DEF Kinds, CallKinds, Setup, Step
<1>5. s[5] = Setup("play") /\ Kinds(c, 5, s[5])
  <2>1. s[5] = Setup("play")
    BY ScriptBufferingLimitConformsWhenSupported
  <2> QED BY <2>1 DEF Kinds, CallKinds, Setup, Step
<1>6. s[6] = Reach("PLAYING") /\ Kinds(c, 6, s[6])
  <2>1. s[6] = Reach("PLAYING")
    BY ScriptBufferingLimitConformsWhenSupported
  <2> QED BY <2>1 DEF Kinds, AwaitKinds, Reach, Step
<1>7. s[7] = Write(TRUE) /\ Kinds(c, 7, s[7])
  <2>1. s[7] = Write(TRUE)
    BY ScriptBufferingLimitConformsWhenSupported
  <2> QED BY <2>1 DEF Kinds, Write, Step
<1>8. s[8] = PollIfSupported /\ Kinds(c, 8, s[8])
  <2>1. s[8] = PollIfSupported
    BY ScriptBufferingLimitConformsWhenSupported
  <2>2. s[7] = Write(TRUE) /\ 8 - 1 = 7
    BY ScriptBufferingLimitConformsWhenSupported
  <2>3. s[8 - 1].do = "write" /\ s[8 - 1].value = TRUE
    BY <2>2 DEF Write, Step
  <2>4. s[8].value = TRUE
    BY <2>1 DEF PollIfSupported, Step
  <2>5. s[8 - 1].value = s[8].value
    BY <2>3, <2>4, Zenon
  <2>6. 8 > ReachAt(c) + 1 /\ c # Unplayed
    OBVIOUS
  <2>7. PollKinds(c, 8, s[8])
    BY <2>3, <2>5, <2>6, Zenon DEF PollKinds
  <2> QED BY <2>1, <2>7 DEF Kinds, PollIfSupported, Step
<1>9. s[9] = Plain("stop") /\ Kinds(c, 9, s[9])
  <2>1. s[9] = Plain("stop")
    BY ScriptBufferingLimitConformsWhenSupported
  <2> QED BY <1>0, <2>1 DEF Kinds, CallKinds, Plain, Step
<1> HIDE DEF s
<1>10. ASSUME NEW k \in 1 .. n PROVE Kinds(c, k, s[k])
  <2>1. k = 1 \/ k = 2 \/ k = 3 \/ k = 4 \/ k = 5 \/ k = 6 \/ k = 7 \/ k = 8 \/ k = 9
    BY <1>0
  <2> QED BY <2>1, <1>1, <1>2, <1>3, <1>4, <1>5, <1>6, <1>7, <1>8, <1>9
<1> QED BY <1>0, <1>10 DEF s

\* What its steps are like.
LEMMA KindsUseBufferingRoundTrips ==
  ASSUME NEW c, c = "UseBufferingRoundTrips"
  PROVE  /\ Len(Suite[c].script) \in Nat \ {0}
         /\ \A k \in 1 .. Len(Suite[c].script) : Kinds(c, k, Suite[c].script[k])
<1> DEFINE s == Suite[c].script
<1> USE DEF BindAt, AttachAt, ReachAt, Getters, ConformWhenSupported, Flushing, Rendering,
        Unplayed, Protocol, Ending, Clean, Starving, Transport, Seeking, Refilling,
        Cancelling, Erring
<1>0. PICK n \in Nat \ {0} : n = 9 /\ n = Len(s)
  BY ScriptUseBufferingRoundTrips
<1>1. s[1] = Plain("setPipeline") /\ Kinds(c, 1, s[1])
  <2>1. s[1] = Plain("setPipeline")
    BY ScriptUseBufferingRoundTrips
  <2> QED BY <2>1 DEF Kinds, CallKinds, Plain, Step
<1>2. s[2] = Setup("load") /\ Kinds(c, 2, s[2])
  <2>1. s[2] = Setup("load")
    BY ScriptUseBufferingRoundTrips
  <2> QED BY <2>1 DEF Kinds, CallKinds, Setup, Step
<1>3. s[3] = Setup("attachSource") /\ Kinds(c, 3, s[3])
  <2>1. s[3] = Setup("attachSource")
    BY ScriptUseBufferingRoundTrips
  <2> QED BY <2>1 DEF Kinds, CallKinds, Setup, Step
<1>4. s[4] = Setup("allSourcesAttached") /\ Kinds(c, 4, s[4])
  <2>1. s[4] = Setup("allSourcesAttached")
    BY ScriptUseBufferingRoundTrips
  <2> QED BY <2>1 DEF Kinds, CallKinds, Setup, Step
<1>5. s[5] = Setup("play") /\ Kinds(c, 5, s[5])
  <2>1. s[5] = Setup("play")
    BY ScriptUseBufferingRoundTrips
  <2> QED BY <2>1 DEF Kinds, CallKinds, Setup, Step
<1>6. s[6] = Reach("PLAYING") /\ Kinds(c, 6, s[6])
  <2>1. s[6] = Reach("PLAYING")
    BY ScriptUseBufferingRoundTrips
  <2> QED BY <2>1 DEF Kinds, AwaitKinds, Reach, Step
<1>7. s[7] = Write(TRUE) /\ Kinds(c, 7, s[7])
  <2>1. s[7] = Write(TRUE)
    BY ScriptUseBufferingRoundTrips
  <2> QED BY <2>1 DEF Kinds, Write, Step
<1>8. s[8] = Poll(TRUE) /\ Kinds(c, 8, s[8])
  <2>1. s[8] = Poll(TRUE)
    BY ScriptUseBufferingRoundTrips
  <2>2. s[7] = Write(TRUE) /\ 8 - 1 = 7
    BY ScriptUseBufferingRoundTrips
  <2>3. s[8 - 1].do = "write" /\ s[8 - 1].value = TRUE
    BY <2>2 DEF Write, Step
  <2>4. s[8].value = TRUE
    BY <2>1 DEF Poll, Step
  <2>5. s[8 - 1].value = s[8].value
    BY <2>3, <2>4, Zenon
  <2>6. 8 > ReachAt(c) + 1 /\ c # Unplayed
    OBVIOUS
  <2>7. PollKinds(c, 8, s[8])
    BY <2>3, <2>5, <2>6, Zenon DEF PollKinds
  <2> QED BY <2>1, <2>7 DEF Kinds, Poll, Step
<1>9. s[9] = Plain("stop") /\ Kinds(c, 9, s[9])
  <2>1. s[9] = Plain("stop")
    BY ScriptUseBufferingRoundTrips
  <2> QED BY <1>0, <2>1 DEF Kinds, CallKinds, Plain, Step
<1> HIDE DEF s
<1>10. ASSUME NEW k \in 1 .. n PROVE Kinds(c, k, s[k])
  <2>1. k = 1 \/ k = 2 \/ k = 3 \/ k = 4 \/ k = 5 \/ k = 6 \/ k = 7 \/ k = 8 \/ k = 9
    BY <1>0
  <2> QED BY <2>1, <1>1, <1>2, <1>3, <1>4, <1>5, <1>6, <1>7, <1>8, <1>9
<1> QED BY <1>0, <1>10 DEF s

\* What its steps are like.
LEMMA KindsRenderFrameSucceedsOnceLoaded ==
  ASSUME NEW c, c = "RenderFrameSucceedsOnceLoaded"
  PROVE  /\ Len(Suite[c].script) \in Nat \ {0}
         /\ \A k \in 1 .. Len(Suite[c].script) : Kinds(c, k, Suite[c].script[k])
<1> DEFINE s == Suite[c].script
<1> USE DEF BindAt, AttachAt, ReachAt, Getters, ConformWhenSupported, Flushing, Rendering,
        Unplayed, Protocol, Ending, Clean, Starving, Transport, Seeking, Refilling,
        Cancelling, Erring
<1>0. PICK n \in Nat \ {0} : n = 10 /\ n = Len(s)
  BY ScriptRenderFrameSucceedsOnceLoaded
<1>1. s[1] = Plain("setPipeline") /\ Kinds(c, 1, s[1])
  <2>1. s[1] = Plain("setPipeline")
    BY ScriptRenderFrameSucceedsOnceLoaded
  <2> QED BY <2>1 DEF Kinds, CallKinds, Plain, Step
<1>2. s[2] = Setup("load") /\ Kinds(c, 2, s[2])
  <2>1. s[2] = Setup("load")
    BY ScriptRenderFrameSucceedsOnceLoaded
  <2> QED BY <2>1 DEF Kinds, CallKinds, Setup, Step
<1>3. s[3] = Setup("attachSource") /\ Kinds(c, 3, s[3])
  <2>1. s[3] = Setup("attachSource")
    BY ScriptRenderFrameSucceedsOnceLoaded
  <2> QED BY <2>1 DEF Kinds, CallKinds, Setup, Step
<1>4. s[4] = Setup("allSourcesAttached") /\ Kinds(c, 4, s[4])
  <2>1. s[4] = Setup("allSourcesAttached")
    BY ScriptRenderFrameSucceedsOnceLoaded
  <2> QED BY <2>1 DEF Kinds, CallKinds, Setup, Step
<1>5. s[5] = Setup("play") /\ Kinds(c, 5, s[5])
  <2>1. s[5] = Setup("play")
    BY ScriptRenderFrameSucceedsOnceLoaded
  <2> QED BY <2>1 DEF Kinds, CallKinds, Setup, Step
<1>6. s[6] = Reach("PLAYING") /\ Kinds(c, 6, s[6])
  <2>1. s[6] = Reach("PLAYING")
    BY ScriptRenderFrameSucceedsOnceLoaded
  <2> QED BY <2>1 DEF Kinds, AwaitKinds, Reach, Step
<1>7. s[7] = Call("pause") /\ Kinds(c, 7, s[7])
  <2>1. s[7] = Call("pause")
    BY ScriptRenderFrameSucceedsOnceLoaded
  <2> QED BY <2>1 DEF Kinds, CallKinds, Call, Step
<1>8. s[8] = Await("PAUSED") /\ Kinds(c, 8, s[8])
  <2>1. s[8] = Await("PAUSED")
    BY ScriptRenderFrameSucceedsOnceLoaded
  <2> QED BY <2>1 DEF Kinds, AwaitKinds, Await, Step
<1>9. s[9] = Call("renderFrame") /\ Kinds(c, 9, s[9])
  <2>1. s[9] = Call("renderFrame")
    BY ScriptRenderFrameSucceedsOnceLoaded
  <2> QED BY <2>1 DEF Kinds, CallKinds, Call, Step
<1>10. s[10] = Plain("stop") /\ Kinds(c, 10, s[10])
  <2>1. s[10] = Plain("stop")
    BY ScriptRenderFrameSucceedsOnceLoaded
  <2> QED BY <1>0, <2>1 DEF Kinds, CallKinds, Plain, Step
<1> HIDE DEF s
<1>11. ASSUME NEW k \in 1 .. n PROVE Kinds(c, k, s[k])
  <2>1. k = 1 \/ k = 2 \/ k = 3 \/ k = 4 \/ k = 5 \/ k = 6 \/ k = 7 \/ k = 8 \/ k = 9 \/ k = 10
    BY <1>0
  <2> QED BY <2>1, <1>1, <1>2, <1>3, <1>4, <1>5, <1>6, <1>7, <1>8, <1>9, <1>10
<1> QED BY <1>0, <1>11 DEF s

\* What its steps are like.
LEMMA KindsSetLowLatencyIsAccepted ==
  ASSUME NEW c, c = "SetLowLatencyIsAccepted"
  PROVE  /\ Len(Suite[c].script) \in Nat \ {0}
         /\ \A k \in 1 .. Len(Suite[c].script) : Kinds(c, k, Suite[c].script[k])
<1> DEFINE s == Suite[c].script
<1> USE DEF BindAt, AttachAt, ReachAt, Getters, ConformWhenSupported, Flushing, Rendering,
        Unplayed, Protocol, Ending, Clean, Starving, Transport, Seeking, Refilling,
        Cancelling, Erring
<1>0. PICK n \in Nat \ {0} : n = 8 /\ n = Len(s)
  BY ScriptSetLowLatencyIsAccepted
<1>1. s[1] = Plain("setPipeline") /\ Kinds(c, 1, s[1])
  <2>1. s[1] = Plain("setPipeline")
    BY ScriptSetLowLatencyIsAccepted
  <2> QED BY <2>1 DEF Kinds, CallKinds, Plain, Step
<1>2. s[2] = Setup("load") /\ Kinds(c, 2, s[2])
  <2>1. s[2] = Setup("load")
    BY ScriptSetLowLatencyIsAccepted
  <2> QED BY <2>1 DEF Kinds, CallKinds, Setup, Step
<1>3. s[3] = Setup("attachSource") /\ Kinds(c, 3, s[3])
  <2>1. s[3] = Setup("attachSource")
    BY ScriptSetLowLatencyIsAccepted
  <2> QED BY <2>1 DEF Kinds, CallKinds, Setup, Step
<1>4. s[4] = Setup("allSourcesAttached") /\ Kinds(c, 4, s[4])
  <2>1. s[4] = Setup("allSourcesAttached")
    BY ScriptSetLowLatencyIsAccepted
  <2> QED BY <2>1 DEF Kinds, CallKinds, Setup, Step
<1>5. s[5] = Setup("play") /\ Kinds(c, 5, s[5])
  <2>1. s[5] = Setup("play")
    BY ScriptSetLowLatencyIsAccepted
  <2> QED BY <2>1 DEF Kinds, CallKinds, Setup, Step
<1>6. s[6] = Reach("PLAYING") /\ Kinds(c, 6, s[6])
  <2>1. s[6] = Reach("PLAYING")
    BY ScriptSetLowLatencyIsAccepted
  <2> QED BY <2>1 DEF Kinds, AwaitKinds, Reach, Step
<1>7. s[7] = Call("setLowLatency") /\ Kinds(c, 7, s[7])
  <2>1. s[7] = Call("setLowLatency")
    BY ScriptSetLowLatencyIsAccepted
  <2> QED BY <2>1 DEF Kinds, CallKinds, Call, Step
<1>8. s[8] = Plain("stop") /\ Kinds(c, 8, s[8])
  <2>1. s[8] = Plain("stop")
    BY ScriptSetLowLatencyIsAccepted
  <2> QED BY <1>0, <2>1 DEF Kinds, CallKinds, Plain, Step
<1> HIDE DEF s
<1>9. ASSUME NEW k \in 1 .. n PROVE Kinds(c, k, s[k])
  <2>1. k = 1 \/ k = 2 \/ k = 3 \/ k = 4 \/ k = 5 \/ k = 6 \/ k = 7 \/ k = 8
    BY <1>0
  <2> QED BY <2>1, <1>1, <1>2, <1>3, <1>4, <1>5, <1>6, <1>7, <1>8
<1> QED BY <1>0, <1>9 DEF s

\* What its steps are like.
LEMMA KindsSyncRoundTrips ==
  ASSUME NEW c, c = "SyncRoundTrips"
  PROVE  /\ Len(Suite[c].script) \in Nat \ {0}
         /\ \A k \in 1 .. Len(Suite[c].script) : Kinds(c, k, Suite[c].script[k])
<1> DEFINE s == Suite[c].script
<1> USE DEF BindAt, AttachAt, ReachAt, Getters, ConformWhenSupported, Flushing, Rendering,
        Unplayed, Protocol, Ending, Clean, Starving, Transport, Seeking, Refilling,
        Cancelling, Erring
<1>0. PICK n \in Nat \ {0} : n = 9 /\ n = Len(s)
  BY ScriptSyncRoundTrips
<1>1. s[1] = Plain("setPipeline") /\ Kinds(c, 1, s[1])
  <2>1. s[1] = Plain("setPipeline")
    BY ScriptSyncRoundTrips
  <2> QED BY <2>1 DEF Kinds, CallKinds, Plain, Step
<1>2. s[2] = Setup("load") /\ Kinds(c, 2, s[2])
  <2>1. s[2] = Setup("load")
    BY ScriptSyncRoundTrips
  <2> QED BY <2>1 DEF Kinds, CallKinds, Setup, Step
<1>3. s[3] = Setup("attachSource") /\ Kinds(c, 3, s[3])
  <2>1. s[3] = Setup("attachSource")
    BY ScriptSyncRoundTrips
  <2> QED BY <2>1 DEF Kinds, CallKinds, Setup, Step
<1>4. s[4] = Setup("allSourcesAttached") /\ Kinds(c, 4, s[4])
  <2>1. s[4] = Setup("allSourcesAttached")
    BY ScriptSyncRoundTrips
  <2> QED BY <2>1 DEF Kinds, CallKinds, Setup, Step
<1>5. s[5] = Setup("play") /\ Kinds(c, 5, s[5])
  <2>1. s[5] = Setup("play")
    BY ScriptSyncRoundTrips
  <2> QED BY <2>1 DEF Kinds, CallKinds, Setup, Step
<1>6. s[6] = Reach("PLAYING") /\ Kinds(c, 6, s[6])
  <2>1. s[6] = Reach("PLAYING")
    BY ScriptSyncRoundTrips
  <2> QED BY <2>1 DEF Kinds, AwaitKinds, Reach, Step
<1>7. s[7] = Write(TRUE) /\ Kinds(c, 7, s[7])
  <2>1. s[7] = Write(TRUE)
    BY ScriptSyncRoundTrips
  <2> QED BY <2>1 DEF Kinds, Write, Step
<1>8. s[8] = Poll(TRUE) /\ Kinds(c, 8, s[8])
  <2>1. s[8] = Poll(TRUE)
    BY ScriptSyncRoundTrips
  <2>2. s[7] = Write(TRUE) /\ 8 - 1 = 7
    BY ScriptSyncRoundTrips
  <2>3. s[8 - 1].do = "write" /\ s[8 - 1].value = TRUE
    BY <2>2 DEF Write, Step
  <2>4. s[8].value = TRUE
    BY <2>1 DEF Poll, Step
  <2>5. s[8 - 1].value = s[8].value
    BY <2>3, <2>4, Zenon
  <2>6. 8 > ReachAt(c) + 1 /\ c # Unplayed
    OBVIOUS
  <2>7. PollKinds(c, 8, s[8])
    BY <2>3, <2>5, <2>6, Zenon DEF PollKinds
  <2> QED BY <2>1, <2>7 DEF Kinds, Poll, Step
<1>9. s[9] = Plain("stop") /\ Kinds(c, 9, s[9])
  <2>1. s[9] = Plain("stop")
    BY ScriptSyncRoundTrips
  <2> QED BY <1>0, <2>1 DEF Kinds, CallKinds, Plain, Step
<1> HIDE DEF s
<1>10. ASSUME NEW k \in 1 .. n PROVE Kinds(c, k, s[k])
  <2>1. k = 1 \/ k = 2 \/ k = 3 \/ k = 4 \/ k = 5 \/ k = 6 \/ k = 7 \/ k = 8 \/ k = 9
    BY <1>0
  <2> QED BY <2>1, <1>1, <1>2, <1>3, <1>4, <1>5, <1>6, <1>7, <1>8, <1>9
<1> QED BY <1>0, <1>10 DEF s

\* What its steps are like.
LEMMA KindsSetSyncOffAcceptedBeforePlaying ==
  ASSUME NEW c, c = "SetSyncOffAcceptedBeforePlaying"
  PROVE  /\ Len(Suite[c].script) \in Nat \ {0}
         /\ \A k \in 1 .. Len(Suite[c].script) : Kinds(c, k, Suite[c].script[k])
<1> DEFINE s == Suite[c].script
<1> USE DEF BindAt, AttachAt, ReachAt, Getters, ConformWhenSupported, Flushing, Rendering,
        Unplayed, Protocol, Ending, Clean, Starving, Transport, Seeking, Refilling,
        Cancelling, Erring
<1>0. PICK n \in Nat \ {0} : n = 4 /\ n = Len(s)
  BY ScriptSetSyncOffAcceptedBeforePlaying
<1>1. s[1] = Plain("setPipeline") /\ Kinds(c, 1, s[1])
  <2>1. s[1] = Plain("setPipeline")
    BY ScriptSetSyncOffAcceptedBeforePlaying
  <2> QED BY <2>1 DEF Kinds, CallKinds, Plain, Step
<1>2. s[2] = Call("load") /\ Kinds(c, 2, s[2])
  <2>1. s[2] = Call("load")
    BY ScriptSetSyncOffAcceptedBeforePlaying
  <2> QED BY <2>1 DEF Kinds, CallKinds, Call, Step
<1>3. s[3] = Call("attachSource") /\ Kinds(c, 3, s[3])
  <2>1. s[3] = Call("attachSource")
    BY ScriptSetSyncOffAcceptedBeforePlaying
  <2> QED BY <2>1 DEF Kinds, CallKinds, Call, Step
<1>4. s[4] = Call("setSyncOff") /\ Kinds(c, 4, s[4])
  <2>1. s[4] = Call("setSyncOff")
    BY ScriptSetSyncOffAcceptedBeforePlaying
  <2> QED BY <1>0, <2>1 DEF Kinds, CallKinds, Call, Step
<1> HIDE DEF s
<1>5. ASSUME NEW k \in 1 .. n PROVE Kinds(c, k, s[k])
  <2>1. k = 1 \/ k = 2 \/ k = 3 \/ k = 4
    BY <1>0
  <2> QED BY <2>1, <1>1, <1>2, <1>3, <1>4
<1> QED BY <1>0, <1>5 DEF s

\* What its steps are like.
LEMMA KindsStreamSyncModeConformsWhenSupported ==
  ASSUME NEW c, c = "StreamSyncModeConformsWhenSupported"
  PROVE  /\ Len(Suite[c].script) \in Nat \ {0}
         /\ \A k \in 1 .. Len(Suite[c].script) : Kinds(c, k, Suite[c].script[k])
<1> DEFINE s == Suite[c].script
<1> USE DEF BindAt, AttachAt, ReachAt, Getters, ConformWhenSupported, Flushing, Rendering,
        Unplayed, Protocol, Ending, Clean, Starving, Transport, Seeking, Refilling,
        Cancelling, Erring
<1>0. PICK n \in Nat \ {0} : n = 9 /\ n = Len(s)
  BY ScriptStreamSyncModeConformsWhenSupported
<1>1. s[1] = Plain("setPipeline") /\ Kinds(c, 1, s[1])
  <2>1. s[1] = Plain("setPipeline")
    BY ScriptStreamSyncModeConformsWhenSupported
  <2> QED BY <2>1 DEF Kinds, CallKinds, Plain, Step
<1>2. s[2] = Setup("load") /\ Kinds(c, 2, s[2])
  <2>1. s[2] = Setup("load")
    BY ScriptStreamSyncModeConformsWhenSupported
  <2> QED BY <2>1 DEF Kinds, CallKinds, Setup, Step
<1>3. s[3] = Setup("attachSource") /\ Kinds(c, 3, s[3])
  <2>1. s[3] = Setup("attachSource")
    BY ScriptStreamSyncModeConformsWhenSupported
  <2> QED BY <2>1 DEF Kinds, CallKinds, Setup, Step
<1>4. s[4] = Setup("allSourcesAttached") /\ Kinds(c, 4, s[4])
  <2>1. s[4] = Setup("allSourcesAttached")
    BY ScriptStreamSyncModeConformsWhenSupported
  <2> QED BY <2>1 DEF Kinds, CallKinds, Setup, Step
<1>5. s[5] = Setup("play") /\ Kinds(c, 5, s[5])
  <2>1. s[5] = Setup("play")
    BY ScriptStreamSyncModeConformsWhenSupported
  <2> QED BY <2>1 DEF Kinds, CallKinds, Setup, Step
<1>6. s[6] = Reach("PLAYING") /\ Kinds(c, 6, s[6])
  <2>1. s[6] = Reach("PLAYING")
    BY ScriptStreamSyncModeConformsWhenSupported
  <2> QED BY <2>1 DEF Kinds, AwaitKinds, Reach, Step
<1>7. s[7] = Write(TRUE) /\ Kinds(c, 7, s[7])
  <2>1. s[7] = Write(TRUE)
    BY ScriptStreamSyncModeConformsWhenSupported
  <2> QED BY <2>1 DEF Kinds, Write, Step
<1>8. s[8] = PollIfSupported /\ Kinds(c, 8, s[8])
  <2>1. s[8] = PollIfSupported
    BY ScriptStreamSyncModeConformsWhenSupported
  <2>2. s[7] = Write(TRUE) /\ 8 - 1 = 7
    BY ScriptStreamSyncModeConformsWhenSupported
  <2>3. s[8 - 1].do = "write" /\ s[8 - 1].value = TRUE
    BY <2>2 DEF Write, Step
  <2>4. s[8].value = TRUE
    BY <2>1 DEF PollIfSupported, Step
  <2>5. s[8 - 1].value = s[8].value
    BY <2>3, <2>4, Zenon
  <2>6. 8 > ReachAt(c) + 1 /\ c # Unplayed
    OBVIOUS
  <2>7. PollKinds(c, 8, s[8])
    BY <2>3, <2>5, <2>6, Zenon DEF PollKinds
  <2> QED BY <2>1, <2>7 DEF Kinds, PollIfSupported, Step
<1>9. s[9] = Plain("stop") /\ Kinds(c, 9, s[9])
  <2>1. s[9] = Plain("stop")
    BY ScriptStreamSyncModeConformsWhenSupported
  <2> QED BY <1>0, <2>1 DEF Kinds, CallKinds, Plain, Step
<1> HIDE DEF s
<1>10. ASSUME NEW k \in 1 .. n PROVE Kinds(c, k, s[k])
  <2>1. k = 1 \/ k = 2 \/ k = 3 \/ k = 4 \/ k = 5 \/ k = 6 \/ k = 7 \/ k = 8 \/ k = 9
    BY <1>0
  <2> QED BY <2>1, <1>1, <1>2, <1>3, <1>4, <1>5, <1>6, <1>7, <1>8, <1>9
<1> QED BY <1>0, <1>10 DEF s

\* What its steps are like.
LEMMA KindsSwitchSourceAcceptsNewAudioSource ==
  ASSUME NEW c, c = "SwitchSourceAcceptsNewAudioSource"
  PROVE  /\ Len(Suite[c].script) \in Nat \ {0}
         /\ \A k \in 1 .. Len(Suite[c].script) : Kinds(c, k, Suite[c].script[k])
<1> DEFINE s == Suite[c].script
<1> USE DEF BindAt, AttachAt, ReachAt, Getters, ConformWhenSupported, Flushing, Rendering,
        Unplayed, Protocol, Ending, Clean, Starving, Transport, Seeking, Refilling,
        Cancelling, Erring
<1>0. PICK n \in Nat \ {0} : n = 8 /\ n = Len(s)
  BY ScriptSwitchSourceAcceptsNewAudioSource
<1>1. s[1] = Plain("setPipeline") /\ Kinds(c, 1, s[1])
  <2>1. s[1] = Plain("setPipeline")
    BY ScriptSwitchSourceAcceptsNewAudioSource
  <2> QED BY <2>1 DEF Kinds, CallKinds, Plain, Step
<1>2. s[2] = Setup("load") /\ Kinds(c, 2, s[2])
  <2>1. s[2] = Setup("load")
    BY ScriptSwitchSourceAcceptsNewAudioSource
  <2> QED BY <2>1 DEF Kinds, CallKinds, Setup, Step
<1>3. s[3] = Setup("attachSource") /\ Kinds(c, 3, s[3])
  <2>1. s[3] = Setup("attachSource")
    BY ScriptSwitchSourceAcceptsNewAudioSource
  <2> QED BY <2>1 DEF Kinds, CallKinds, Setup, Step
<1>4. s[4] = Setup("allSourcesAttached") /\ Kinds(c, 4, s[4])
  <2>1. s[4] = Setup("allSourcesAttached")
    BY ScriptSwitchSourceAcceptsNewAudioSource
  <2> QED BY <2>1 DEF Kinds, CallKinds, Setup, Step
<1>5. s[5] = Setup("play") /\ Kinds(c, 5, s[5])
  <2>1. s[5] = Setup("play")
    BY ScriptSwitchSourceAcceptsNewAudioSource
  <2> QED BY <2>1 DEF Kinds, CallKinds, Setup, Step
<1>6. s[6] = Reach("PLAYING") /\ Kinds(c, 6, s[6])
  <2>1. s[6] = Reach("PLAYING")
    BY ScriptSwitchSourceAcceptsNewAudioSource
  <2> QED BY <2>1 DEF Kinds, AwaitKinds, Reach, Step
<1>7. s[7] = Call("switchSource") /\ Kinds(c, 7, s[7])
  <2>1. s[7] = Call("switchSource")
    BY ScriptSwitchSourceAcceptsNewAudioSource
  <2> QED BY <2>1 DEF Kinds, CallKinds, Call, Step
<1>8. s[8] = Plain("stop") /\ Kinds(c, 8, s[8])
  <2>1. s[8] = Plain("stop")
    BY ScriptSwitchSourceAcceptsNewAudioSource
  <2> QED BY <1>0, <2>1 DEF Kinds, CallKinds, Plain, Step
<1> HIDE DEF s
<1>9. ASSUME NEW k \in 1 .. n PROVE Kinds(c, k, s[k])
  <2>1. k = 1 \/ k = 2 \/ k = 3 \/ k = 4 \/ k = 5 \/ k = 6 \/ k = 7 \/ k = 8
    BY <1>0
  <2> QED BY <2>1, <1>1, <1>2, <1>3, <1>4, <1>5, <1>6, <1>7, <1>8
<1> QED BY <1>0, <1>9 DEF s

\* What its steps are like.
LEMMA KindsGetPositionSucceedsOncePlaying ==
  ASSUME NEW c, c = "GetPositionSucceedsOncePlaying"
  PROVE  /\ Len(Suite[c].script) \in Nat \ {0}
         /\ \A k \in 1 .. Len(Suite[c].script) : Kinds(c, k, Suite[c].script[k])
<1> DEFINE s == Suite[c].script
<1> USE DEF BindAt, AttachAt, ReachAt, Getters, ConformWhenSupported, Flushing, Rendering,
        Unplayed, Protocol, Ending, Clean, Starving, Transport, Seeking, Refilling,
        Cancelling, Erring
<1>0. PICK n \in Nat \ {0} : n = 10 /\ n = Len(s)
  BY ScriptGetPositionSucceedsOncePlaying
<1>1. s[1] = Plain("setPipeline") /\ Kinds(c, 1, s[1])
  <2>1. s[1] = Plain("setPipeline")
    BY ScriptGetPositionSucceedsOncePlaying
  <2> QED BY <2>1 DEF Kinds, CallKinds, Plain, Step
<1>2. s[2] = Get("getPosition", FALSE) /\ Kinds(c, 2, s[2])
  <2>1. s[2] = Get("getPosition", FALSE)
    BY ScriptGetPositionSucceedsOncePlaying
  <2> QED BY <2>1 DEF Kinds, Get, Step
<1>3. s[3] = Call("load") /\ Kinds(c, 3, s[3])
  <2>1. s[3] = Call("load")
    BY ScriptGetPositionSucceedsOncePlaying
  <2> QED BY <2>1 DEF Kinds, CallKinds, Call, Step
<1>4. s[4] = Call("attachSource") /\ Kinds(c, 4, s[4])
  <2>1. s[4] = Call("attachSource")
    BY ScriptGetPositionSucceedsOncePlaying
  <2> QED BY <2>1 DEF Kinds, CallKinds, Call, Step
<1>5. s[5] = Call("allSourcesAttached") /\ Kinds(c, 5, s[5])
  <2>1. s[5] = Call("allSourcesAttached")
    BY ScriptGetPositionSucceedsOncePlaying
  <2> QED BY <2>1 DEF Kinds, CallKinds, Call, Step
<1>6. s[6] = Call("play") /\ Kinds(c, 6, s[6])
  <2>1. s[6] = Call("play")
    BY ScriptGetPositionSucceedsOncePlaying
  <2> QED BY <2>1 DEF Kinds, CallKinds, Call, Step
<1>7. s[7] = Reach("PLAYING") /\ Kinds(c, 7, s[7])
  <2>1. s[7] = Reach("PLAYING")
    BY ScriptGetPositionSucceedsOncePlaying
  <2> QED BY <2>1 DEF Kinds, AwaitKinds, Reach, Step
<1>8. s[8] = Check("noFailure") /\ Kinds(c, 8, s[8])
  <2>1. s[8] = Check("noFailure")
    BY ScriptGetPositionSucceedsOncePlaying
  <2> QED BY <2>1 DEF Kinds, CheckKinds, Check, Step
<1>9. s[9] = Get("getPosition", TRUE) /\ Kinds(c, 9, s[9])
  <2>1. s[9] = Get("getPosition", TRUE)
    BY ScriptGetPositionSucceedsOncePlaying
  <2> QED BY <2>1 DEF Kinds, Get, Step
<1>10. s[10] = Plain("stop") /\ Kinds(c, 10, s[10])
  <2>1. s[10] = Plain("stop")
    BY ScriptGetPositionSucceedsOncePlaying
  <2> QED BY <1>0, <2>1 DEF Kinds, CallKinds, Plain, Step
<1> HIDE DEF s
<1>11. ASSUME NEW k \in 1 .. n PROVE Kinds(c, k, s[k])
  <2>1. k = 1 \/ k = 2 \/ k = 3 \/ k = 4 \/ k = 5 \/ k = 6 \/ k = 7 \/ k = 8 \/ k = 9 \/ k = 10
    BY <1>0
  <2> QED BY <2>1, <1>1, <1>2, <1>3, <1>4, <1>5, <1>6, <1>7, <1>8, <1>9, <1>10
<1> QED BY <1>0, <1>11 DEF s

\* What its steps are like.
LEMMA KindsGetDurationNotDeterminableForStreamSource ==
  ASSUME NEW c, c = "GetDurationNotDeterminableForStreamSource"
  PROVE  /\ Len(Suite[c].script) \in Nat \ {0}
         /\ \A k \in 1 .. Len(Suite[c].script) : Kinds(c, k, Suite[c].script[k])
<1> DEFINE s == Suite[c].script
<1> USE DEF BindAt, AttachAt, ReachAt, Getters, ConformWhenSupported, Flushing, Rendering,
        Unplayed, Protocol, Ending, Clean, Starving, Transport, Seeking, Refilling,
        Cancelling, Erring
<1>0. PICK n \in Nat \ {0} : n = 11 /\ n = Len(s)
  BY ScriptGetDurationNotDeterminableForStreamSource
<1>1. s[1] = Plain("setPipeline") /\ Kinds(c, 1, s[1])
  <2>1. s[1] = Plain("setPipeline")
    BY ScriptGetDurationNotDeterminableForStreamSource
  <2> QED BY <2>1 DEF Kinds, CallKinds, Plain, Step
<1>2. s[2] = Get("getDuration", FALSE) /\ Kinds(c, 2, s[2])
  <2>1. s[2] = Get("getDuration", FALSE)
    BY ScriptGetDurationNotDeterminableForStreamSource
  <2> QED BY <2>1 DEF Kinds, Get, Step
<1>3. s[3] = Call("load") /\ Kinds(c, 3, s[3])
  <2>1. s[3] = Call("load")
    BY ScriptGetDurationNotDeterminableForStreamSource
  <2> QED BY <2>1 DEF Kinds, CallKinds, Call, Step
<1>4. s[4] = Call("attachSource") /\ Kinds(c, 4, s[4])
  <2>1. s[4] = Call("attachSource")
    BY ScriptGetDurationNotDeterminableForStreamSource
  <2> QED BY <2>1 DEF Kinds, CallKinds, Call, Step
<1>5. s[5] = Call("allSourcesAttached") /\ Kinds(c, 5, s[5])
  <2>1. s[5] = Call("allSourcesAttached")
    BY ScriptGetDurationNotDeterminableForStreamSource
  <2> QED BY <2>1 DEF Kinds, CallKinds, Call, Step
<1>6. s[6] = Call("play") /\ Kinds(c, 6, s[6])
  <2>1. s[6] = Call("play")
    BY ScriptGetDurationNotDeterminableForStreamSource
  <2> QED BY <2>1 DEF Kinds, CallKinds, Call, Step
<1>7. s[7] = Reach("PLAYING") /\ Kinds(c, 7, s[7])
  <2>1. s[7] = Reach("PLAYING")
    BY ScriptGetDurationNotDeterminableForStreamSource
  <2> QED BY <2>1 DEF Kinds, AwaitKinds, Reach, Step
<1>8. s[8] = Check("noFailure") /\ Kinds(c, 8, s[8])
  <2>1. s[8] = Check("noFailure")
    BY ScriptGetDurationNotDeterminableForStreamSource
  <2> QED BY <2>1 DEF Kinds, CheckKinds, Check, Step
<1>9. s[9] = Get("getPosition", TRUE) /\ Kinds(c, 9, s[9])
  <2>1. s[9] = Get("getPosition", TRUE)
    BY ScriptGetDurationNotDeterminableForStreamSource
  <2> QED BY <2>1 DEF Kinds, Get, Step
<1>10. s[10] = Get("getDuration", FALSE) /\ Kinds(c, 10, s[10])
  <2>1. s[10] = Get("getDuration", FALSE)
    BY ScriptGetDurationNotDeterminableForStreamSource
  <2> QED BY <2>1 DEF Kinds, Get, Step
<1>11. s[11] = Plain("stop") /\ Kinds(c, 11, s[11])
  <2>1. s[11] = Plain("stop")
    BY ScriptGetDurationNotDeterminableForStreamSource
  <2> QED BY <1>0, <2>1 DEF Kinds, CallKinds, Plain, Step
<1> HIDE DEF s
<1>12. ASSUME NEW k \in 1 .. n PROVE Kinds(c, k, s[k])
  <2>1. k = 1 \/ k = 2 \/ k = 3 \/ k = 4 \/ k = 5 \/ k = 6 \/ k = 7 \/ k = 8 \/ k = 9
        \/ k = 10 \/ k = 11
    BY <1>0
  <2> QED BY <2>1, <1>1, <1>2, <1>3, <1>4, <1>5, <1>6, <1>7, <1>8, <1>9, <1>10, <1>11
<1> QED BY <1>0, <1>12 DEF s

\* What its steps are like.
LEMMA KindsGetStatsSucceedsOncePlaying ==
  ASSUME NEW c, c = "GetStatsSucceedsOncePlaying"
  PROVE  /\ Len(Suite[c].script) \in Nat \ {0}
         /\ \A k \in 1 .. Len(Suite[c].script) : Kinds(c, k, Suite[c].script[k])
<1> DEFINE s == Suite[c].script
<1> USE DEF BindAt, AttachAt, ReachAt, Getters, ConformWhenSupported, Flushing, Rendering,
        Unplayed, Protocol, Ending, Clean, Starving, Transport, Seeking, Refilling,
        Cancelling, Erring
<1>0. PICK n \in Nat \ {0} : n = 10 /\ n = Len(s)
  BY ScriptGetStatsSucceedsOncePlaying
<1>1. s[1] = Plain("setPipeline") /\ Kinds(c, 1, s[1])
  <2>1. s[1] = Plain("setPipeline")
    BY ScriptGetStatsSucceedsOncePlaying
  <2> QED BY <2>1 DEF Kinds, CallKinds, Plain, Step
<1>2. s[2] = Get("getStats", FALSE) /\ Kinds(c, 2, s[2])
  <2>1. s[2] = Get("getStats", FALSE)
    BY ScriptGetStatsSucceedsOncePlaying
  <2> QED BY <2>1 DEF Kinds, Get, Step
<1>3. s[3] = Call("load") /\ Kinds(c, 3, s[3])
  <2>1. s[3] = Call("load")
    BY ScriptGetStatsSucceedsOncePlaying
  <2> QED BY <2>1 DEF Kinds, CallKinds, Call, Step
<1>4. s[4] = Call("attachSource") /\ Kinds(c, 4, s[4])
  <2>1. s[4] = Call("attachSource")
    BY ScriptGetStatsSucceedsOncePlaying
  <2> QED BY <2>1 DEF Kinds, CallKinds, Call, Step
<1>5. s[5] = Call("allSourcesAttached") /\ Kinds(c, 5, s[5])
  <2>1. s[5] = Call("allSourcesAttached")
    BY ScriptGetStatsSucceedsOncePlaying
  <2> QED BY <2>1 DEF Kinds, CallKinds, Call, Step
<1>6. s[6] = Call("play") /\ Kinds(c, 6, s[6])
  <2>1. s[6] = Call("play")
    BY ScriptGetStatsSucceedsOncePlaying
  <2> QED BY <2>1 DEF Kinds, CallKinds, Call, Step
<1>7. s[7] = Reach("PLAYING") /\ Kinds(c, 7, s[7])
  <2>1. s[7] = Reach("PLAYING")
    BY ScriptGetStatsSucceedsOncePlaying
  <2> QED BY <2>1 DEF Kinds, AwaitKinds, Reach, Step
<1>8. s[8] = Check("noFailure") /\ Kinds(c, 8, s[8])
  <2>1. s[8] = Check("noFailure")
    BY ScriptGetStatsSucceedsOncePlaying
  <2> QED BY <2>1 DEF Kinds, CheckKinds, Check, Step
<1>9. s[9] = Get("getStats", TRUE) /\ Kinds(c, 9, s[9])
  <2>1. s[9] = Get("getStats", TRUE)
    BY ScriptGetStatsSucceedsOncePlaying
  <2> QED BY <2>1 DEF Kinds, Get, Step
<1>10. s[10] = Plain("stop") /\ Kinds(c, 10, s[10])
  <2>1. s[10] = Plain("stop")
    BY ScriptGetStatsSucceedsOncePlaying
  <2> QED BY <1>0, <2>1 DEF Kinds, CallKinds, Plain, Step
<1> HIDE DEF s
<1>11. ASSUME NEW k \in 1 .. n PROVE Kinds(c, k, s[k])
  <2>1. k = 1 \/ k = 2 \/ k = 3 \/ k = 4 \/ k = 5 \/ k = 6 \/ k = 7 \/ k = 8 \/ k = 9 \/ k = 10
    BY <1>0
  <2> QED BY <2>1, <1>1, <1>2, <1>3, <1>4, <1>5, <1>6, <1>7, <1>8, <1>9, <1>10
<1> QED BY <1>0, <1>11 DEF s

\* What its steps are like.
LEMMA KindsNeedDataProtocolIsWellFormed ==
  ASSUME NEW c, c = "NeedDataProtocolIsWellFormed"
  PROVE  /\ Len(Suite[c].script) \in Nat \ {0}
         /\ \A k \in 1 .. Len(Suite[c].script) : Kinds(c, k, Suite[c].script[k])
<1> DEFINE s == Suite[c].script
<1> USE DEF BindAt, AttachAt, ReachAt, Getters, ConformWhenSupported, Flushing, Rendering,
        Unplayed, Protocol, Ending, Clean, Starving, Transport, Seeking, Refilling,
        Cancelling, Erring
<1>0. PICK n \in Nat \ {0} : n = 11 /\ n = Len(s)
  BY ScriptNeedDataProtocolIsWellFormed
<1>1. s[1] = Plain("setPipeline") /\ Kinds(c, 1, s[1])
  <2>1. s[1] = Plain("setPipeline")
    BY ScriptNeedDataProtocolIsWellFormed
  <2> QED BY <2>1 DEF Kinds, CallKinds, Plain, Step
<1>2. s[2] = Setup("load") /\ Kinds(c, 2, s[2])
  <2>1. s[2] = Setup("load")
    BY ScriptNeedDataProtocolIsWellFormed
  <2> QED BY <2>1 DEF Kinds, CallKinds, Setup, Step
<1>3. s[3] = Setup("attachSource") /\ Kinds(c, 3, s[3])
  <2>1. s[3] = Setup("attachSource")
    BY ScriptNeedDataProtocolIsWellFormed
  <2> QED BY <2>1 DEF Kinds, CallKinds, Setup, Step
<1>4. s[4] = Setup("allSourcesAttached") /\ Kinds(c, 4, s[4])
  <2>1. s[4] = Setup("allSourcesAttached")
    BY ScriptNeedDataProtocolIsWellFormed
  <2> QED BY <2>1 DEF Kinds, CallKinds, Setup, Step
<1>5. s[5] = Setup("play") /\ Kinds(c, 5, s[5])
  <2>1. s[5] = Setup("play")
    BY ScriptNeedDataProtocolIsWellFormed
  <2> QED BY <2>1 DEF Kinds, CallKinds, Setup, Step
<1>6. s[6] = Reach("PLAYING") /\ Kinds(c, 6, s[6])
  <2>1. s[6] = Reach("PLAYING")
    BY ScriptNeedDataProtocolIsWellFormed
  <2> QED BY <2>1 DEF Kinds, AwaitKinds, Reach, Step
<1>7. s[7] = Ensure("requested") /\ Kinds(c, 7, s[7])
  <2>1. s[7] = Ensure("requested")
    BY ScriptNeedDataProtocolIsWellFormed
  <2> QED BY <2>1 DEF Kinds, CheckKinds, Ensure, Step
<1>8. s[8] = Get("wellFormed", TRUE) /\ Kinds(c, 8, s[8])
  <2>1. s[8] = Get("wellFormed", TRUE)
    BY ScriptNeedDataProtocolIsWellFormed
  <2> QED BY <2>1 DEF Kinds, Get, Step
<1>9. s[9] = Check("noOverlap") /\ Kinds(c, 9, s[9])
  <2>1. s[9] = Check("noOverlap")
    BY ScriptNeedDataProtocolIsWellFormed
  <2> QED BY <2>1 DEF Kinds, CheckKinds, Check, Step
<1>10. s[10] = Check("allAccepted") /\ Kinds(c, 10, s[10])
  <2>1. s[10] = Check("allAccepted")
    BY ScriptNeedDataProtocolIsWellFormed
  <2> QED BY <2>1 DEF Kinds, CheckKinds, Check, Step
<1>11. s[11] = Plain("stop") /\ Kinds(c, 11, s[11])
  <2>1. s[11] = Plain("stop")
    BY ScriptNeedDataProtocolIsWellFormed
  <2> QED BY <1>0, <2>1 DEF Kinds, CallKinds, Plain, Step
<1> HIDE DEF s
<1>12. ASSUME NEW k \in 1 .. n PROVE Kinds(c, k, s[k])
  <2>1. k = 1 \/ k = 2 \/ k = 3 \/ k = 4 \/ k = 5 \/ k = 6 \/ k = 7 \/ k = 8 \/ k = 9 \/ k = 10
        \/ k = 11
    BY <1>0
  <2> QED BY <2>1, <1>1, <1>2, <1>3, <1>4, <1>5, <1>6, <1>7, <1>8, <1>9, <1>10,
           <1>11
<1> QED BY <1>0, <1>12 DEF s

\* What its steps are like.
LEMMA KindsHaveDataEosDrivesEndOfStream ==
  ASSUME NEW c, c = "HaveDataEosDrivesEndOfStream"
  PROVE  /\ Len(Suite[c].script) \in Nat \ {0}
         /\ \A k \in 1 .. Len(Suite[c].script) : Kinds(c, k, Suite[c].script[k])
<1> DEFINE s == Suite[c].script
<1> USE DEF BindAt, AttachAt, ReachAt, Getters, ConformWhenSupported, Flushing, Rendering,
        Unplayed, Protocol, Ending, Clean, Starving, Transport, Seeking, Refilling,
        Cancelling, Erring
<1>0. PICK n \in Nat \ {0} : n = 9 /\ n = Len(s)
  BY ScriptHaveDataEosDrivesEndOfStream
<1>1. s[1] = Plain("setPipeline") /\ Kinds(c, 1, s[1])
  <2>1. s[1] = Plain("setPipeline")
    BY ScriptHaveDataEosDrivesEndOfStream
  <2> QED BY <2>1 DEF Kinds, CallKinds, Plain, Step
<1>2. s[2] = Setup("load") /\ Kinds(c, 2, s[2])
  <2>1. s[2] = Setup("load")
    BY ScriptHaveDataEosDrivesEndOfStream
  <2> QED BY <2>1 DEF Kinds, CallKinds, Setup, Step
<1>3. s[3] = Setup("attachSource") /\ Kinds(c, 3, s[3])
  <2>1. s[3] = Setup("attachSource")
    BY ScriptHaveDataEosDrivesEndOfStream
  <2> QED BY <2>1 DEF Kinds, CallKinds, Setup, Step
<1>4. s[4] = Setup("allSourcesAttached") /\ Kinds(c, 4, s[4])
  <2>1. s[4] = Setup("allSourcesAttached")
    BY ScriptHaveDataEosDrivesEndOfStream
  <2> QED BY <2>1 DEF Kinds, CallKinds, Setup, Step
<1>5. s[5] = Setup("play") /\ Kinds(c, 5, s[5])
  <2>1. s[5] = Setup("play")
    BY ScriptHaveDataEosDrivesEndOfStream
  <2> QED BY <2>1 DEF Kinds, CallKinds, Setup, Step
<1>6. s[6] = Reach("PLAYING") /\ Kinds(c, 6, s[6])
  <2>1. s[6] = Reach("PLAYING")
    BY ScriptHaveDataEosDrivesEndOfStream
  <2> QED BY <2>1 DEF Kinds, AwaitKinds, Reach, Step
<1>7. s[7] = Await("END_OF_STREAM") /\ Kinds(c, 7, s[7])
  <2>1. s[7] = Await("END_OF_STREAM")
    BY ScriptHaveDataEosDrivesEndOfStream
  <2> QED BY <2>1 DEF Kinds, AwaitKinds, Await, Step
<1>8. s[8] = Check("noFailure") /\ Kinds(c, 8, s[8])
  <2>1. s[8] = Check("noFailure")
    BY ScriptHaveDataEosDrivesEndOfStream
  <2> QED BY <2>1 DEF Kinds, CheckKinds, Check, Step
<1>9. s[9] = Plain("stop") /\ Kinds(c, 9, s[9])
  <2>1. s[9] = Plain("stop")
    BY ScriptHaveDataEosDrivesEndOfStream
  <2> QED BY <1>0, <2>1 DEF Kinds, CallKinds, Plain, Step
<1> HIDE DEF s
<1>10. ASSUME NEW k \in 1 .. n PROVE Kinds(c, k, s[k])
  <2>1. k = 1 \/ k = 2 \/ k = 3 \/ k = 4 \/ k = 5 \/ k = 6 \/ k = 7 \/ k = 8 \/ k = 9
    BY <1>0
  <2> QED BY <2>1, <1>1, <1>2, <1>3, <1>4, <1>5, <1>6, <1>7, <1>8, <1>9
<1> QED BY <1>0, <1>10 DEF s

\* What its steps are like.
LEMMA KindsCleanRunNetworkStateVocabulary ==
  ASSUME NEW c, c = "CleanRunNetworkStateVocabulary"
  PROVE  /\ Len(Suite[c].script) \in Nat \ {0}
         /\ \A k \in 1 .. Len(Suite[c].script) : Kinds(c, k, Suite[c].script[k])
<1> DEFINE s == Suite[c].script
<1> USE DEF BindAt, AttachAt, ReachAt, Getters, ConformWhenSupported, Flushing, Rendering,
        Unplayed, Protocol, Ending, Clean, Starving, Transport, Seeking, Refilling,
        Cancelling, Erring
<1>0. PICK n \in Nat \ {0} : n = 10 /\ n = Len(s)
  BY ScriptCleanRunNetworkStateVocabulary
<1>1. s[1] = Plain("setPipeline") /\ Kinds(c, 1, s[1])
  <2>1. s[1] = Plain("setPipeline")
    BY ScriptCleanRunNetworkStateVocabulary
  <2> QED BY <2>1 DEF Kinds, CallKinds, Plain, Step
<1>2. s[2] = Setup("load") /\ Kinds(c, 2, s[2])
  <2>1. s[2] = Setup("load")
    BY ScriptCleanRunNetworkStateVocabulary
  <2> QED BY <2>1 DEF Kinds, CallKinds, Setup, Step
<1>3. s[3] = Setup("attachSource") /\ Kinds(c, 3, s[3])
  <2>1. s[3] = Setup("attachSource")
    BY ScriptCleanRunNetworkStateVocabulary
  <2> QED BY <2>1 DEF Kinds, CallKinds, Setup, Step
<1>4. s[4] = Setup("allSourcesAttached") /\ Kinds(c, 4, s[4])
  <2>1. s[4] = Setup("allSourcesAttached")
    BY ScriptCleanRunNetworkStateVocabulary
  <2> QED BY <2>1 DEF Kinds, CallKinds, Setup, Step
<1>5. s[5] = Setup("play") /\ Kinds(c, 5, s[5])
  <2>1. s[5] = Setup("play")
    BY ScriptCleanRunNetworkStateVocabulary
  <2> QED BY <2>1 DEF Kinds, CallKinds, Setup, Step
<1>6. s[6] = Reach("PLAYING") /\ Kinds(c, 6, s[6])
  <2>1. s[6] = Reach("PLAYING")
    BY ScriptCleanRunNetworkStateVocabulary
  <2> QED BY <2>1 DEF Kinds, AwaitKinds, Reach, Step
<1>7. s[7] = Await("END_OF_STREAM") /\ Kinds(c, 7, s[7])
  <2>1. s[7] = Await("END_OF_STREAM")
    BY ScriptCleanRunNetworkStateVocabulary
  <2> QED BY <2>1 DEF Kinds, AwaitKinds, Await, Step
<1>8. s[8] = Check("buffering") /\ Kinds(c, 8, s[8])
  <2>1. s[8] = Check("buffering")
    BY ScriptCleanRunNetworkStateVocabulary
  <2> QED BY <2>1 DEF Kinds, CheckKinds, Check, Step
<1>9. s[9] = Check("noNetworkError") /\ Kinds(c, 9, s[9])
  <2>1. s[9] = Check("noNetworkError")
    BY ScriptCleanRunNetworkStateVocabulary
  <2> QED BY <2>1 DEF Kinds, CheckKinds, Check, Step
<1>10. s[10] = Plain("stop") /\ Kinds(c, 10, s[10])
  <2>1. s[10] = Plain("stop")
    BY ScriptCleanRunNetworkStateVocabulary
  <2> QED BY <1>0, <2>1 DEF Kinds, CallKinds, Plain, Step
<1> HIDE DEF s
<1>11. ASSUME NEW k \in 1 .. n PROVE Kinds(c, k, s[k])
  <2>1. k = 1 \/ k = 2 \/ k = 3 \/ k = 4 \/ k = 5 \/ k = 6 \/ k = 7 \/ k = 8 \/ k = 9 \/ k = 10
    BY <1>0
  <2> QED BY <2>1, <1>1, <1>2, <1>3, <1>4, <1>5, <1>6, <1>7, <1>8, <1>9, <1>10
<1> QED BY <1>0, <1>11 DEF s

\* What its steps are like.
LEMMA KindsStarvationIsToleratedAndEventsObserved ==
  ASSUME NEW c, c = "StarvationIsToleratedAndEventsObserved"
  PROVE  /\ Len(Suite[c].script) \in Nat \ {0}
         /\ \A k \in 1 .. Len(Suite[c].script) : Kinds(c, k, Suite[c].script[k])
<1> DEFINE s == Suite[c].script
<1> USE DEF BindAt, AttachAt, ReachAt, Getters, ConformWhenSupported, Flushing, Rendering,
        Unplayed, Protocol, Ending, Clean, Starving, Transport, Seeking, Refilling,
        Cancelling, Erring
<1>0. PICK n \in Nat \ {0} : n = 10 /\ n = Len(s)
  BY ScriptStarvationIsToleratedAndEventsObserved
<1>1. s[1] = Plain("setPipeline") /\ Kinds(c, 1, s[1])
  <2>1. s[1] = Plain("setPipeline")
    BY ScriptStarvationIsToleratedAndEventsObserved
  <2> QED BY <2>1 DEF Kinds, CallKinds, Plain, Step
<1>2. s[2] = Setup("load") /\ Kinds(c, 2, s[2])
  <2>1. s[2] = Setup("load")
    BY ScriptStarvationIsToleratedAndEventsObserved
  <2> QED BY <2>1 DEF Kinds, CallKinds, Setup, Step
<1>3. s[3] = Setup("attachSource") /\ Kinds(c, 3, s[3])
  <2>1. s[3] = Setup("attachSource")
    BY ScriptStarvationIsToleratedAndEventsObserved
  <2> QED BY <2>1 DEF Kinds, CallKinds, Setup, Step
<1>4. s[4] = Setup("allSourcesAttached") /\ Kinds(c, 4, s[4])
  <2>1. s[4] = Setup("allSourcesAttached")
    BY ScriptStarvationIsToleratedAndEventsObserved
  <2> QED BY <2>1 DEF Kinds, CallKinds, Setup, Step
<1>5. s[5] = Setup("play") /\ Kinds(c, 5, s[5])
  <2>1. s[5] = Setup("play")
    BY ScriptStarvationIsToleratedAndEventsObserved
  <2> QED BY <2>1 DEF Kinds, CallKinds, Setup, Step
<1>6. s[6] = Reach("PLAYING") /\ Kinds(c, 6, s[6])
  <2>1. s[6] = Reach("PLAYING")
    BY ScriptStarvationIsToleratedAndEventsObserved
  <2> QED BY <2>1 DEF Kinds, AwaitKinds, Reach, Step
<1>7. s[7] = Mode("setStarve", TRUE) /\ Kinds(c, 7, s[7])
  <2>1. s[7] = Mode("setStarve", TRUE)
    BY ScriptStarvationIsToleratedAndEventsObserved
  <2> QED BY <2>1 DEF Kinds, CallKinds, Mode, Step
<1>8. s[8] = Glance("UNDERFLOW") /\ Kinds(c, 8, s[8])
  <2>1. s[8] = Glance("UNDERFLOW")
    BY ScriptStarvationIsToleratedAndEventsObserved
  <2> QED BY <2>1 DEF Kinds, AwaitKinds, Glance, Step
<1>9. s[9] = Check("noFailure") /\ Kinds(c, 9, s[9])
  <2>1. s[9] = Check("noFailure")
    BY ScriptStarvationIsToleratedAndEventsObserved
  <2> QED BY <2>1 DEF Kinds, CheckKinds, Check, Step
<1>10. s[10] = Plain("stop") /\ Kinds(c, 10, s[10])
  <2>1. s[10] = Plain("stop")
    BY ScriptStarvationIsToleratedAndEventsObserved
  <2> QED BY <1>0, <2>1 DEF Kinds, CallKinds, Plain, Step
<1> HIDE DEF s
<1>11. ASSUME NEW k \in 1 .. n PROVE Kinds(c, k, s[k])
  <2>1. k = 1 \/ k = 2 \/ k = 3 \/ k = 4 \/ k = 5 \/ k = 6 \/ k = 7 \/ k = 8 \/ k = 9 \/ k = 10
    BY <1>0
  <2> QED BY <2>1, <1>1, <1>2, <1>3, <1>4, <1>5, <1>6, <1>7, <1>8, <1>9, <1>10
<1> QED BY <1>0, <1>11 DEF s

\* What its steps are like.
LEMMA KindsPlayPauseStopStateMachine ==
  ASSUME NEW c, c = "PlayPauseStopStateMachine"
  PROVE  /\ Len(Suite[c].script) \in Nat \ {0}
         /\ \A k \in 1 .. Len(Suite[c].script) : Kinds(c, k, Suite[c].script[k])
<1> DEFINE s == Suite[c].script
<1> USE DEF BindAt, AttachAt, ReachAt, Getters, ConformWhenSupported, Flushing, Rendering,
        Unplayed, Protocol, Ending, Clean, Starving, Transport, Seeking, Refilling,
        Cancelling, Erring
<1>0. PICK n \in Nat \ {0} : n = 11 /\ n = Len(s)
  BY ScriptPlayPauseStopStateMachine
<1>1. s[1] = Plain("setPipeline") /\ Kinds(c, 1, s[1])
  <2>1. s[1] = Plain("setPipeline")
    BY ScriptPlayPauseStopStateMachine
  <2> QED BY <2>1 DEF Kinds, CallKinds, Plain, Step
<1>2. s[2] = Setup("load") /\ Kinds(c, 2, s[2])
  <2>1. s[2] = Setup("load")
    BY ScriptPlayPauseStopStateMachine
  <2> QED BY <2>1 DEF Kinds, CallKinds, Setup, Step
<1>3. s[3] = Setup("attachSource") /\ Kinds(c, 3, s[3])
  <2>1. s[3] = Setup("attachSource")
    BY ScriptPlayPauseStopStateMachine
  <2> QED BY <2>1 DEF Kinds, CallKinds, Setup, Step
<1>4. s[4] = Call("allSourcesAttached") /\ Kinds(c, 4, s[4])
  <2>1. s[4] = Call("allSourcesAttached")
    BY ScriptPlayPauseStopStateMachine
  <2> QED BY <2>1 DEF Kinds, CallKinds, Call, Step
<1>5. s[5] = Call("play") /\ Kinds(c, 5, s[5])
  <2>1. s[5] = Call("play")
    BY ScriptPlayPauseStopStateMachine
  <2> QED BY <2>1 DEF Kinds, CallKinds, Call, Step
<1>6. s[6] = Reach("PLAYING") /\ Kinds(c, 6, s[6])
  <2>1. s[6] = Reach("PLAYING")
    BY ScriptPlayPauseStopStateMachine
  <2> QED BY <2>1 DEF Kinds, AwaitKinds, Reach, Step
<1>7. s[7] = Check("noFailure") /\ Kinds(c, 7, s[7])
  <2>1. s[7] = Check("noFailure")
    BY ScriptPlayPauseStopStateMachine
  <2> QED BY <2>1 DEF Kinds, CheckKinds, Check, Step
<1>8. s[8] = Call("pause") /\ Kinds(c, 8, s[8])
  <2>1. s[8] = Call("pause")
    BY ScriptPlayPauseStopStateMachine
  <2> QED BY <2>1 DEF Kinds, CallKinds, Call, Step
<1>9. s[9] = Await("PAUSED") /\ Kinds(c, 9, s[9])
  <2>1. s[9] = Await("PAUSED")
    BY ScriptPlayPauseStopStateMachine
  <2> QED BY <2>1 DEF Kinds, AwaitKinds, Await, Step
<1>10. s[10] = Call("stop") /\ Kinds(c, 10, s[10])
  <2>1. s[10] = Call("stop")
    BY ScriptPlayPauseStopStateMachine
  <2> QED BY <2>1 DEF Kinds, CallKinds, Call, Step
<1>11. s[11] = Glance("STOPPED") /\ Kinds(c, 11, s[11])
  <2>1. s[11] = Glance("STOPPED")
    BY ScriptPlayPauseStopStateMachine
  <2> QED BY <1>0, <2>1 DEF Kinds, AwaitKinds, Glance, Step
<1> HIDE DEF s
<1>12. ASSUME NEW k \in 1 .. n PROVE Kinds(c, k, s[k])
  <2>1. k = 1 \/ k = 2 \/ k = 3 \/ k = 4 \/ k = 5 \/ k = 6 \/ k = 7 \/ k = 8 \/ k = 9
        \/ k = 10 \/ k = 11
    BY <1>0
  <2> QED BY <2>1, <1>1, <1>2, <1>3, <1>4, <1>5, <1>6, <1>7, <1>8, <1>9, <1>10, <1>11
<1> QED BY <1>0, <1>12 DEF s

\* What its steps are like.
LEMMA KindsSetPlaybackRateSucceedsWhilePlaying ==
  ASSUME NEW c, c = "SetPlaybackRateSucceedsWhilePlaying"
  PROVE  /\ Len(Suite[c].script) \in Nat \ {0}
         /\ \A k \in 1 .. Len(Suite[c].script) : Kinds(c, k, Suite[c].script[k])
<1> DEFINE s == Suite[c].script
<1> USE DEF BindAt, AttachAt, ReachAt, Getters, ConformWhenSupported, Flushing, Rendering,
        Unplayed, Protocol, Ending, Clean, Starving, Transport, Seeking, Refilling,
        Cancelling, Erring
<1>0. PICK n \in Nat \ {0} : n = 8 /\ n = Len(s)
  BY ScriptSetPlaybackRateSucceedsWhilePlaying
<1>1. s[1] = Plain("setPipeline") /\ Kinds(c, 1, s[1])
  <2>1. s[1] = Plain("setPipeline")
    BY ScriptSetPlaybackRateSucceedsWhilePlaying
  <2> QED BY <2>1 DEF Kinds, CallKinds, Plain, Step
<1>2. s[2] = Setup("load") /\ Kinds(c, 2, s[2])
  <2>1. s[2] = Setup("load")
    BY ScriptSetPlaybackRateSucceedsWhilePlaying
  <2> QED BY <2>1 DEF Kinds, CallKinds, Setup, Step
<1>3. s[3] = Setup("attachSource") /\ Kinds(c, 3, s[3])
  <2>1. s[3] = Setup("attachSource")
    BY ScriptSetPlaybackRateSucceedsWhilePlaying
  <2> QED BY <2>1 DEF Kinds, CallKinds, Setup, Step
<1>4. s[4] = Call("allSourcesAttached") /\ Kinds(c, 4, s[4])
  <2>1. s[4] = Call("allSourcesAttached")
    BY ScriptSetPlaybackRateSucceedsWhilePlaying
  <2> QED BY <2>1 DEF Kinds, CallKinds, Call, Step
<1>5. s[5] = Call("play") /\ Kinds(c, 5, s[5])
  <2>1. s[5] = Call("play")
    BY ScriptSetPlaybackRateSucceedsWhilePlaying
  <2> QED BY <2>1 DEF Kinds, CallKinds, Call, Step
<1>6. s[6] = Reach("PLAYING") /\ Kinds(c, 6, s[6])
  <2>1. s[6] = Reach("PLAYING")
    BY ScriptSetPlaybackRateSucceedsWhilePlaying
  <2> QED BY <2>1 DEF Kinds, AwaitKinds, Reach, Step
<1>7. s[7] = Call("setPlaybackRate") /\ Kinds(c, 7, s[7])
  <2>1. s[7] = Call("setPlaybackRate")
    BY ScriptSetPlaybackRateSucceedsWhilePlaying
  <2> QED BY <2>1 DEF Kinds, CallKinds, Call, Step
<1>8. s[8] = Plain("stop") /\ Kinds(c, 8, s[8])
  <2>1. s[8] = Plain("stop")
    BY ScriptSetPlaybackRateSucceedsWhilePlaying
  <2> QED BY <1>0, <2>1 DEF Kinds, CallKinds, Plain, Step
<1> HIDE DEF s
<1>9. ASSUME NEW k \in 1 .. n PROVE Kinds(c, k, s[k])
  <2>1. k = 1 \/ k = 2 \/ k = 3 \/ k = 4 \/ k = 5 \/ k = 6 \/ k = 7 \/ k = 8
    BY <1>0
  <2> QED BY <2>1, <1>1, <1>2, <1>3, <1>4, <1>5, <1>6, <1>7, <1>8
<1> QED BY <1>0, <1>9 DEF s

\* What its steps are like.
LEMMA KindsSetPositionSetsStartThenSeeksWhilePlaying ==
  ASSUME NEW c, c = "SetPositionSetsStartThenSeeksWhilePlaying"
  PROVE  /\ Len(Suite[c].script) \in Nat \ {0}
         /\ \A k \in 1 .. Len(Suite[c].script) : Kinds(c, k, Suite[c].script[k])
<1> DEFINE s == Suite[c].script
<1> USE DEF BindAt, AttachAt, ReachAt, Getters, ConformWhenSupported, Flushing, Rendering,
        Unplayed, Protocol, Ending, Clean, Starving, Transport, Seeking, Refilling,
        Cancelling, Erring
<1>0. PICK n \in Nat \ {0} : n = 13 /\ n = Len(s)
  BY ScriptSetPositionSetsStartThenSeeksWhilePlaying
<1>1. s[1] = Plain("setPipeline") /\ Kinds(c, 1, s[1])
  <2>1. s[1] = Plain("setPipeline")
    BY ScriptSetPositionSetsStartThenSeeksWhilePlaying
  <2> QED BY <2>1 DEF Kinds, CallKinds, Plain, Step
<1>2. s[2] = Setup("load") /\ Kinds(c, 2, s[2])
  <2>1. s[2] = Setup("load")
    BY ScriptSetPositionSetsStartThenSeeksWhilePlaying
  <2> QED BY <2>1 DEF Kinds, CallKinds, Setup, Step
<1>3. s[3] = Setup("attachSource") /\ Kinds(c, 3, s[3])
  <2>1. s[3] = Setup("attachSource")
    BY ScriptSetPositionSetsStartThenSeeksWhilePlaying
  <2> QED BY <2>1 DEF Kinds, CallKinds, Setup, Step
<1>4. s[4] = Call("setStartPosition") /\ Kinds(c, 4, s[4])
  <2>1. s[4] = Call("setStartPosition")
    BY ScriptSetPositionSetsStartThenSeeksWhilePlaying
  <2> QED BY <2>1 DEF Kinds, CallKinds, Call, Step
<1>5. s[5] = Call("allSourcesAttached") /\ Kinds(c, 5, s[5])
  <2>1. s[5] = Call("allSourcesAttached")
    BY ScriptSetPositionSetsStartThenSeeksWhilePlaying
  <2> QED BY <2>1 DEF Kinds, CallKinds, Call, Step
<1>6. s[6] = Call("play") /\ Kinds(c, 6, s[6])
  <2>1. s[6] = Call("play")
    BY ScriptSetPositionSetsStartThenSeeksWhilePlaying
  <2> QED BY <2>1 DEF Kinds, CallKinds, Call, Step
<1>7. s[7] = Reach("PLAYING") /\ Kinds(c, 7, s[7])
  <2>1. s[7] = Reach("PLAYING")
    BY ScriptSetPositionSetsStartThenSeeksWhilePlaying
  <2> QED BY <2>1 DEF Kinds, AwaitKinds, Reach, Step
<1>8. s[8] = Plain("rewindSource") /\ Kinds(c, 8, s[8])
  <2>1. s[8] = Plain("rewindSource")
    BY ScriptSetPositionSetsStartThenSeeksWhilePlaying
  <2> QED BY <2>1 DEF Kinds, CallKinds, Plain, Step
<1>9. s[9] = Call("setPosition") /\ Kinds(c, 9, s[9])
  <2>1. s[9] = Call("setPosition")
    BY ScriptSetPositionSetsStartThenSeeksWhilePlaying
  <2> QED BY <2>1 DEF Kinds, CallKinds, Call, Step
<1>10. s[10] = Await("SEEKING") /\ Kinds(c, 10, s[10])
  <2>1. s[10] = Await("SEEKING")
    BY ScriptSetPositionSetsStartThenSeeksWhilePlaying
  <2> QED BY <2>1 DEF Kinds, AwaitKinds, Await, Step
<1>11. s[11] = Await("SEEK_DONE") /\ Kinds(c, 11, s[11])
  <2>1. s[11] = Await("SEEK_DONE")
    BY ScriptSetPositionSetsStartThenSeeksWhilePlaying
  <2> QED BY <2>1 DEF Kinds, AwaitKinds, Await, Step
<1>12. s[12] = Check("noFailure") /\ Kinds(c, 12, s[12])
  <2>1. s[12] = Check("noFailure")
    BY ScriptSetPositionSetsStartThenSeeksWhilePlaying
  <2> QED BY <2>1 DEF Kinds, CheckKinds, Check, Step
<1>13. s[13] = Plain("stop") /\ Kinds(c, 13, s[13])
  <2>1. s[13] = Plain("stop")
    BY ScriptSetPositionSetsStartThenSeeksWhilePlaying
  <2> QED BY <1>0, <2>1 DEF Kinds, CallKinds, Plain, Step
<1> HIDE DEF s
<1>14. ASSUME NEW k \in 1 .. n PROVE Kinds(c, k, s[k])
  <2>1. k = 1 \/ k = 2 \/ k = 3 \/ k = 4 \/ k = 5 \/ k = 6 \/ k = 7 \/ k = 8 \/ k = 9
        \/ k = 10 \/ k = 11 \/ k = 12 \/ k = 13
    BY <1>0
  <2> QED BY <2>1, <1>1, <1>2, <1>3, <1>4, <1>5, <1>6, <1>7, <1>8, <1>9, <1>10, <1>11, <1>12,
             <1>13
<1> QED BY <1>0, <1>14 DEF s

\* What its steps are like.
LEMMA KindsNoSpaceIsNotAnErrorAndTheSegmentIsResent ==
  ASSUME NEW c, c = "NoSpaceIsNotAnErrorAndTheSegmentIsResent"
  PROVE  /\ Len(Suite[c].script) \in Nat \ {0}
         /\ \A k \in 1 .. Len(Suite[c].script) : Kinds(c, k, Suite[c].script[k])
<1> DEFINE s == Suite[c].script
<1> USE DEF BindAt, AttachAt, ReachAt, Getters, ConformWhenSupported, Flushing, Rendering,
        Unplayed, Protocol, Ending, Clean, Starving, Transport, Seeking, Refilling,
        Cancelling, Erring
<1>0. PICK n \in Nat \ {0} : n = 12 /\ n = Len(s)
  BY ScriptNoSpaceIsNotAnErrorAndTheSegmentIsResent
<1>1. s[1] = Plain("setOversupply") /\ Kinds(c, 1, s[1])
  <2>1. s[1] = Plain("setOversupply")
    BY ScriptNoSpaceIsNotAnErrorAndTheSegmentIsResent
  <2> QED BY <2>1 DEF Kinds, CallKinds, Plain, Step
<1>2. s[2] = Plain("setPipeline") /\ Kinds(c, 2, s[2])
  <2>1. s[2] = Plain("setPipeline")
    BY ScriptNoSpaceIsNotAnErrorAndTheSegmentIsResent
  <2> QED BY <2>1 DEF Kinds, CallKinds, Plain, Step
<1>3. s[3] = Setup("load") /\ Kinds(c, 3, s[3])
  <2>1. s[3] = Setup("load")
    BY ScriptNoSpaceIsNotAnErrorAndTheSegmentIsResent
  <2> QED BY <2>1 DEF Kinds, CallKinds, Setup, Step
<1>4. s[4] = Setup("attachSource") /\ Kinds(c, 4, s[4])
  <2>1. s[4] = Setup("attachSource")
    BY ScriptNoSpaceIsNotAnErrorAndTheSegmentIsResent
  <2> QED BY <2>1 DEF Kinds, CallKinds, Setup, Step
<1>5. s[5] = Setup("allSourcesAttached") /\ Kinds(c, 5, s[5])
  <2>1. s[5] = Setup("allSourcesAttached")
    BY ScriptNoSpaceIsNotAnErrorAndTheSegmentIsResent
  <2> QED BY <2>1 DEF Kinds, CallKinds, Setup, Step
<1>6. s[6] = Setup("play") /\ Kinds(c, 6, s[6])
  <2>1. s[6] = Setup("play")
    BY ScriptNoSpaceIsNotAnErrorAndTheSegmentIsResent
  <2> QED BY <2>1 DEF Kinds, CallKinds, Setup, Step
<1>7. s[7] = Reach("PLAYING") /\ Kinds(c, 7, s[7])
  <2>1. s[7] = Reach("PLAYING")
    BY ScriptNoSpaceIsNotAnErrorAndTheSegmentIsResent
  <2> QED BY <2>1 DEF Kinds, AwaitKinds, Reach, Step
<1>8. s[8] = Sleep /\ Kinds(c, 8, s[8])
  <2>1. s[8] = Sleep
    BY ScriptNoSpaceIsNotAnErrorAndTheSegmentIsResent
  <2> QED BY <2>1 DEF Kinds, Sleep, Step
<1>9. s[9] = Check("noErrors") /\ Kinds(c, 9, s[9])
  <2>1. s[9] = Check("noErrors")
    BY ScriptNoSpaceIsNotAnErrorAndTheSegmentIsResent
  <2> QED BY <2>1 DEF Kinds, CheckKinds, Check, Step
<1>10. s[10] = Check("noFailure") /\ Kinds(c, 10, s[10])
  <2>1. s[10] = Check("noFailure")
    BY ScriptNoSpaceIsNotAnErrorAndTheSegmentIsResent
  <2> QED BY <2>1 DEF Kinds, CheckKinds, Check, Step
<1>11. s[11] = Check("resent") /\ Kinds(c, 11, s[11])
  <2>1. s[11] = Check("resent")
    BY ScriptNoSpaceIsNotAnErrorAndTheSegmentIsResent
  <2> QED BY <2>1 DEF Kinds, CheckKinds, Check, Step
<1>12. s[12] = Plain("stop") /\ Kinds(c, 12, s[12])
  <2>1. s[12] = Plain("stop")
    BY ScriptNoSpaceIsNotAnErrorAndTheSegmentIsResent
  <2> QED BY <1>0, <2>1 DEF Kinds, CallKinds, Plain, Step
<1> HIDE DEF s
<1>13. ASSUME NEW k \in 1 .. n PROVE Kinds(c, k, s[k])
  <2>1. k = 1 \/ k = 2 \/ k = 3 \/ k = 4 \/ k = 5 \/ k = 6 \/ k = 7 \/ k = 8 \/ k = 9
        \/ k = 10 \/ k = 11 \/ k = 12
    BY <1>0
  <2> QED BY <2>1, <1>1, <1>2, <1>3, <1>4, <1>5, <1>6, <1>7, <1>8, <1>9, <1>10, <1>11, <1>12
<1> QED BY <1>0, <1>13 DEF s

\* What its steps are like.
LEMMA KindsAddSegmentWithAnUnissuedRequestIdIsAnError ==
  ASSUME NEW c, c = "AddSegmentWithAnUnissuedRequestIdIsAnError"
  PROVE  /\ Len(Suite[c].script) \in Nat \ {0}
         /\ \A k \in 1 .. Len(Suite[c].script) : Kinds(c, k, Suite[c].script[k])
<1> DEFINE s == Suite[c].script
<1> USE DEF BindAt, AttachAt, ReachAt, Getters, ConformWhenSupported, Flushing, Rendering,
        Unplayed, Protocol, Ending, Clean, Starving, Transport, Seeking, Refilling,
        Cancelling, Erring
<1>0. PICK n \in Nat \ {0} : n = 9 /\ n = Len(s)
  BY ScriptAddSegmentWithAnUnissuedRequestIdIsAnError
<1>1. s[1] = Plain("setPipeline") /\ Kinds(c, 1, s[1])
  <2>1. s[1] = Plain("setPipeline")
    BY ScriptAddSegmentWithAnUnissuedRequestIdIsAnError
  <2> QED BY <2>1 DEF Kinds, CallKinds, Plain, Step
<1>2. s[2] = Setup("load") /\ Kinds(c, 2, s[2])
  <2>1. s[2] = Setup("load")
    BY ScriptAddSegmentWithAnUnissuedRequestIdIsAnError
  <2> QED BY <2>1 DEF Kinds, CallKinds, Setup, Step
<1>3. s[3] = Setup("attachSource") /\ Kinds(c, 3, s[3])
  <2>1. s[3] = Setup("attachSource")
    BY ScriptAddSegmentWithAnUnissuedRequestIdIsAnError
  <2> QED BY <2>1 DEF Kinds, CallKinds, Setup, Step
<1>4. s[4] = Setup("allSourcesAttached") /\ Kinds(c, 4, s[4])
  <2>1. s[4] = Setup("allSourcesAttached")
    BY ScriptAddSegmentWithAnUnissuedRequestIdIsAnError
  <2> QED BY <2>1 DEF Kinds, CallKinds, Setup, Step
<1>5. s[5] = Setup("play") /\ Kinds(c, 5, s[5])
  <2>1. s[5] = Setup("play")
    BY ScriptAddSegmentWithAnUnissuedRequestIdIsAnError
  <2> QED BY <2>1 DEF Kinds, CallKinds, Setup, Step
<1>6. s[6] = Reach("PLAYING") /\ Kinds(c, 6, s[6])
  <2>1. s[6] = Reach("PLAYING")
    BY ScriptAddSegmentWithAnUnissuedRequestIdIsAnError
  <2> QED BY <2>1 DEF Kinds, AwaitKinds, Reach, Step
<1>7. s[7] = Get("rejectsUnissued", TRUE) /\ Kinds(c, 7, s[7])
  <2>1. s[7] = Get("rejectsUnissued", TRUE)
    BY ScriptAddSegmentWithAnUnissuedRequestIdIsAnError
  <2> QED BY <2>1 DEF Kinds, Get, Step
<1>8. s[8] = Check("noFailure") /\ Kinds(c, 8, s[8])
  <2>1. s[8] = Check("noFailure")
    BY ScriptAddSegmentWithAnUnissuedRequestIdIsAnError
  <2> QED BY <2>1 DEF Kinds, CheckKinds, Check, Step
<1>9. s[9] = Plain("stop") /\ Kinds(c, 9, s[9])
  <2>1. s[9] = Plain("stop")
    BY ScriptAddSegmentWithAnUnissuedRequestIdIsAnError
  <2> QED BY <1>0, <2>1 DEF Kinds, CallKinds, Plain, Step
<1> HIDE DEF s
<1>10. ASSUME NEW k \in 1 .. n PROVE Kinds(c, k, s[k])
  <2>1. k = 1 \/ k = 2 \/ k = 3 \/ k = 4 \/ k = 5 \/ k = 6 \/ k = 7 \/ k = 8 \/ k = 9
    BY <1>0
  <2> QED BY <2>1, <1>1, <1>2, <1>3, <1>4, <1>5, <1>6, <1>7, <1>8, <1>9
<1> QED BY <1>0, <1>10 DEF s

\* What its steps are like.
LEMMA KindsCancelledNeedDataIsNotAnError ==
  ASSUME NEW c, c = "CancelledNeedDataIsNotAnError"
  PROVE  /\ Len(Suite[c].script) \in Nat \ {0}
         /\ \A k \in 1 .. Len(Suite[c].script) : Kinds(c, k, Suite[c].script[k])
<1> DEFINE s == Suite[c].script
<1> USE DEF BindAt, AttachAt, ReachAt, Getters, ConformWhenSupported, Flushing, Rendering,
        Unplayed, Protocol, Ending, Clean, Starving, Transport, Seeking, Refilling,
        Cancelling, Erring
<1>0. PICK n \in Nat \ {0} : n = 18 /\ n = Len(s)
  BY ScriptCancelledNeedDataIsNotAnError
<1>1. s[1] = Plain("setPipeline") /\ Kinds(c, 1, s[1])
  <2>1. s[1] = Plain("setPipeline")
    BY ScriptCancelledNeedDataIsNotAnError
  <2> QED BY <2>1 DEF Kinds, CallKinds, Plain, Step
<1>2. s[2] = Setup("load") /\ Kinds(c, 2, s[2])
  <2>1. s[2] = Setup("load")
    BY ScriptCancelledNeedDataIsNotAnError
  <2> QED BY <2>1 DEF Kinds, CallKinds, Setup, Step
<1>3. s[3] = Setup("attachSource") /\ Kinds(c, 3, s[3])
  <2>1. s[3] = Setup("attachSource")
    BY ScriptCancelledNeedDataIsNotAnError
  <2> QED BY <2>1 DEF Kinds, CallKinds, Setup, Step
<1>4. s[4] = Setup("allSourcesAttached") /\ Kinds(c, 4, s[4])
  <2>1. s[4] = Setup("allSourcesAttached")
    BY ScriptCancelledNeedDataIsNotAnError
  <2> QED BY <2>1 DEF Kinds, CallKinds, Setup, Step
<1>5. s[5] = Setup("play") /\ Kinds(c, 5, s[5])
  <2>1. s[5] = Setup("play")
    BY ScriptCancelledNeedDataIsNotAnError
  <2> QED BY <2>1 DEF Kinds, CallKinds, Setup, Step
<1>6. s[6] = Reach("PLAYING") /\ Kinds(c, 6, s[6])
  <2>1. s[6] = Reach("PLAYING")
    BY ScriptCancelledNeedDataIsNotAnError
  <2> QED BY <2>1 DEF Kinds, AwaitKinds, Reach, Step
<1>7. s[7] = Mode("forgetRequests", TRUE) /\ Kinds(c, 7, s[7])
  <2>1. s[7] = Mode("forgetRequests", TRUE)
    BY ScriptCancelledNeedDataIsNotAnError
  <2> QED BY <2>1 DEF Kinds, CallKinds, Mode, Step
<1>8. s[8] = Mode("setWithhold", TRUE) /\ Kinds(c, 8, s[8])
  <2>1. s[8] = Mode("setWithhold", TRUE)
    BY ScriptCancelledNeedDataIsNotAnError
  <2> QED BY <2>1 DEF Kinds, CallKinds, Mode, Step
<1>9. s[9] = Sleep /\ Kinds(c, 9, s[9])
  <2>1. s[9] = Sleep
    BY ScriptCancelledNeedDataIsNotAnError
  <2> QED BY <2>1 DEF Kinds, Sleep, Step
<1>10. s[10] = Plain("flush") /\ Kinds(c, 10, s[10])
  <2>1. s[10] = Plain("flush")
    BY ScriptCancelledNeedDataIsNotAnError
  <2> QED BY <2>1 DEF Kinds, CallKinds, Plain, Step
<1>11. s[11] = Sleep /\ Kinds(c, 11, s[11])
  <2>1. s[11] = Sleep
    BY ScriptCancelledNeedDataIsNotAnError
  <2> QED BY <2>1 DEF Kinds, Sleep, Step
<1>12. s[12] = Check("noFailure") /\ Kinds(c, 12, s[12])
  <2>1. s[12] = Check("noFailure")
    BY ScriptCancelledNeedDataIsNotAnError
  <2> QED BY <2>1 DEF Kinds, CheckKinds, Check, Step
<1>13. s[13] = Plain("rewindSource") /\ Kinds(c, 13, s[13])
  <2>1. s[13] = Plain("rewindSource")
    BY ScriptCancelledNeedDataIsNotAnError
  <2> QED BY <2>1 DEF Kinds, CallKinds, Plain, Step
<1>14. s[14] = Mode("setWithhold", FALSE) /\ Kinds(c, 14, s[14])
  <2>1. s[14] = Mode("setWithhold", FALSE)
    BY ScriptCancelledNeedDataIsNotAnError
  <2> QED BY <2>1 DEF Kinds, CallKinds, Mode, Step
<1>15. s[15] = Sleep /\ Kinds(c, 15, s[15])
  <2>1. s[15] = Sleep
    BY ScriptCancelledNeedDataIsNotAnError
  <2> QED BY <2>1 DEF Kinds, Sleep, Step
<1>16. s[16] = Check("requested") /\ Kinds(c, 16, s[16])
  <2>1. s[16] = Check("requested")
    BY ScriptCancelledNeedDataIsNotAnError
  <2> QED BY <2>1 DEF Kinds, CheckKinds, Check, Step
<1>17. s[17] = Check("noFailure") /\ Kinds(c, 17, s[17])
  <2>1. s[17] = Check("noFailure")
    BY ScriptCancelledNeedDataIsNotAnError
  <2> QED BY <2>1 DEF Kinds, CheckKinds, Check, Step
<1>18. s[18] = Plain("stop") /\ Kinds(c, 18, s[18])
  <2>1. s[18] = Plain("stop")
    BY ScriptCancelledNeedDataIsNotAnError
  <2> QED BY <1>0, <2>1 DEF Kinds, CallKinds, Plain, Step
<1> HIDE DEF s
<1>19. ASSUME NEW k \in 1 .. n PROVE Kinds(c, k, s[k])
  <2>1. k = 1 \/ k = 2 \/ k = 3 \/ k = 4 \/ k = 5 \/ k = 6 \/ k = 7 \/ k = 8 \/ k = 9
        \/ k = 10 \/ k = 11 \/ k = 12 \/ k = 13 \/ k = 14 \/ k = 15 \/ k = 16 \/ k = 17 \/ k = 18
    BY <1>0
  <2> QED BY <2>1, <1>1, <1>2, <1>3, <1>4, <1>5, <1>6, <1>7, <1>8, <1>9, <1>10, <1>11, <1>12,
             <1>13, <1>14, <1>15, <1>16, <1>17, <1>18
<1> QED BY <1>0, <1>19 DEF s

\* What its steps are like.
LEMMA KindsNonFatalPlaybackErrorLeavesStateUnchanged ==
  ASSUME NEW c, c = "NonFatalPlaybackErrorLeavesStateUnchanged"
  PROVE  /\ Len(Suite[c].script) \in Nat \ {0}
         /\ \A k \in 1 .. Len(Suite[c].script) : Kinds(c, k, Suite[c].script[k])
<1> DEFINE s == Suite[c].script
<1> USE DEF BindAt, AttachAt, ReachAt, Getters, ConformWhenSupported, Flushing, Rendering,
        Unplayed, Protocol, Ending, Clean, Starving, Transport, Seeking, Refilling,
        Cancelling, Erring
<1>0. PICK n \in Nat \ {0} : n = 11 /\ n = Len(s)
  BY ScriptNonFatalPlaybackErrorLeavesStateUnchanged
<1>1. s[1] = Plain("setPipeline") /\ Kinds(c, 1, s[1])
  <2>1. s[1] = Plain("setPipeline")
    BY ScriptNonFatalPlaybackErrorLeavesStateUnchanged
  <2> QED BY <2>1 DEF Kinds, CallKinds, Plain, Step
<1>2. s[2] = Setup("load") /\ Kinds(c, 2, s[2])
  <2>1. s[2] = Setup("load")
    BY ScriptNonFatalPlaybackErrorLeavesStateUnchanged
  <2> QED BY <2>1 DEF Kinds, CallKinds, Setup, Step
<1>3. s[3] = Setup("attachSource") /\ Kinds(c, 3, s[3])
  <2>1. s[3] = Setup("attachSource")
    BY ScriptNonFatalPlaybackErrorLeavesStateUnchanged
  <2> QED BY <2>1 DEF Kinds, CallKinds, Setup, Step
<1>4. s[4] = Setup("allSourcesAttached") /\ Kinds(c, 4, s[4])
  <2>1. s[4] = Setup("allSourcesAttached")
    BY ScriptNonFatalPlaybackErrorLeavesStateUnchanged
  <2> QED BY <2>1 DEF Kinds, CallKinds, Setup, Step
<1>5. s[5] = Setup("play") /\ Kinds(c, 5, s[5])
  <2>1. s[5] = Setup("play")
    BY ScriptNonFatalPlaybackErrorLeavesStateUnchanged
  <2> QED BY <2>1 DEF Kinds, CallKinds, Setup, Step
<1>6. s[6] = Reach("PLAYING") /\ Kinds(c, 6, s[6])
  <2>1. s[6] = Reach("PLAYING")
    BY ScriptNonFatalPlaybackErrorLeavesStateUnchanged
  <2> QED BY <2>1 DEF Kinds, AwaitKinds, Reach, Step
<1>7. s[7] = Plain("setCorruptEvery") /\ Kinds(c, 7, s[7])
  <2>1. s[7] = Plain("setCorruptEvery")
    BY ScriptNonFatalPlaybackErrorLeavesStateUnchanged
  <2> QED BY <2>1 DEF Kinds, CallKinds, Plain, Step
<1>8. s[8] = Sleep /\ Kinds(c, 8, s[8])
  <2>1. s[8] = Sleep
    BY ScriptNonFatalPlaybackErrorLeavesStateUnchanged
  <2> QED BY <2>1 DEF Kinds, Sleep, Step
<1>9. s[9] = Check("noFailure") /\ Kinds(c, 9, s[9])
  <2>1. s[9] = Check("noFailure")
    BY ScriptNonFatalPlaybackErrorLeavesStateUnchanged
  <2> QED BY <2>1 DEF Kinds, CheckKinds, Check, Step
<1>10. s[10] = Check("errorWhilePlaying") /\ Kinds(c, 10, s[10])
  <2>1. s[10] = Check("errorWhilePlaying")
    BY ScriptNonFatalPlaybackErrorLeavesStateUnchanged
  <2> QED BY <2>1 DEF Kinds, CheckKinds, Check, Step
<1>11. s[11] = Plain("stop") /\ Kinds(c, 11, s[11])
  <2>1. s[11] = Plain("stop")
    BY ScriptNonFatalPlaybackErrorLeavesStateUnchanged
  <2> QED BY <1>0, <2>1 DEF Kinds, CallKinds, Plain, Step
<1> HIDE DEF s
<1>12. ASSUME NEW k \in 1 .. n PROVE Kinds(c, k, s[k])
  <2>1. k = 1 \/ k = 2 \/ k = 3 \/ k = 4 \/ k = 5 \/ k = 6 \/ k = 7 \/ k = 8 \/ k = 9
        \/ k = 10 \/ k = 11
    BY <1>0
  <2> QED BY <2>1, <1>1, <1>2, <1>3, <1>4, <1>5, <1>6, <1>7, <1>8, <1>9, <1>10, <1>11
<1> QED BY <1>0, <1>12 DEF s

\* Every step of every script is what Kinds says.
LEMMA ScriptKinds ==
  ASSUME NEW c \in DOMAIN Suite
  PROVE  /\ Len(Suite[c].script) \in Nat \ {0}
         /\ \A k \in 1 .. Len(Suite[c].script) : Kinds(c, k, Suite[c].script[k])
<1>1. DOMAIN Suite = {"VolumeRoundTripsOnRealizedPipeline",
         "MuteRoundTripsPerSource",
         "SetVideoWindowAcceptsGeometry",
         "FlushEmitsSourceFlushed",
         "SetSourcePositionSucceeds",
         "ProcessAudioGapSucceeds",
         "BufferingLimitConformsWhenSupported",
         "UseBufferingRoundTrips",
         "RenderFrameSucceedsOnceLoaded",
         "SetLowLatencyIsAccepted",
         "SyncRoundTrips",
         "SetSyncOffAcceptedBeforePlaying",
         "StreamSyncModeConformsWhenSupported",
         "SwitchSourceAcceptsNewAudioSource",
         "GetPositionSucceedsOncePlaying",
         "GetDurationNotDeterminableForStreamSource",
         "GetStatsSucceedsOncePlaying",
         "NeedDataProtocolIsWellFormed",
         "HaveDataEosDrivesEndOfStream",
         "CleanRunNetworkStateVocabulary",
         "StarvationIsToleratedAndEventsObserved",
         "PlayPauseStopStateMachine",
         "SetPlaybackRateSucceedsWhilePlaying",
         "SetPositionSetsStartThenSeeksWhilePlaying",
         "NoSpaceIsNotAnErrorAndTheSegmentIsResent",
         "AddSegmentWithAnUnissuedRequestIdIsAnError",
         "CancelledNeedDataIsNotAnError",
         "NonFatalPlaybackErrorLeavesStateUnchanged"}
  BY Zenon DEF Suite
<1> QED BY <1>1, Zenon,
       KindsVolumeRoundTripsOnRealizedPipeline,
       KindsMuteRoundTripsPerSource,
       KindsSetVideoWindowAcceptsGeometry,
       KindsFlushEmitsSourceFlushed,
       KindsSetSourcePositionSucceeds,
       KindsProcessAudioGapSucceeds,
       KindsBufferingLimitConformsWhenSupported,
       KindsUseBufferingRoundTrips,
       KindsRenderFrameSucceedsOnceLoaded,
       KindsSetLowLatencyIsAccepted,
       KindsSyncRoundTrips,
       KindsSetSyncOffAcceptedBeforePlaying,
       KindsStreamSyncModeConformsWhenSupported,
       KindsSwitchSourceAcceptsNewAudioSource,
       KindsGetPositionSucceedsOncePlaying,
       KindsGetDurationNotDeterminableForStreamSource,
       KindsGetStatsSucceedsOncePlaying,
       KindsNeedDataProtocolIsWellFormed,
       KindsHaveDataEosDrivesEndOfStream,
       KindsCleanRunNetworkStateVocabulary,
       KindsStarvationIsToleratedAndEventsObserved,
       KindsPlayPauseStopStateMachine,
       KindsSetPlaybackRateSucceedsWhilePlaying,
       KindsSetPositionSetsStartThenSeeksWhilePlaying,
       KindsNoSpaceIsNotAnErrorAndTheSegmentIsResent,
       KindsAddSegmentWithAnUnissuedRequestIdIsAnError,
       KindsCancelledNeedDataIsNotAnError,
       KindsNonFatalPlaybackErrorLeavesStateUnchanged

-----------------------------------------------------------------------------
(***************************************************************************)
(* The test thread stays in its script.                                    *)
(***************************************************************************)

\* A set of natural numbers that is not empty has a least one.
LEMMA Least ==
  ASSUME NEW S \in SUBSET Nat, S # {}
  PROVE  \E k \in S : \A j \in S : k <= j
<1>1. PICK k \in S : \A j \in S : <<j, k>> \notin OpToRel(<, Nat)
  BY NatLessThanWellFounded, WFMin
<1>2. \A j \in S : k <= j
  <2> SUFFICES ASSUME NEW j \in S, j < k PROVE FALSE
    OBVIOUS
  <2>1. <<j, k>> \in OpToRel(<, Nat)
    BY DEF OpToRel
  <2> QED BY <1>1, <2>1
<1> QED BY <1>2

\* After a fatal failure a case goes on further down its script, or is over.
LEMMA AftermathIsLater ==
  ASSUME NEW script, NEW n \in Nat, n = Len(script), pc \in 1 .. n
  PROVE  Aftermath(script) \in pc + 1 .. n + 1
<1> DEFINE ends == {k \in pc + 1 .. n : script[k].must = "always"} \cup {n + 1}
<1>1. ends \subseteq pc + 1 .. n + 1 /\ ends \in SUBSET Nat /\ ends # {}
  OBVIOUS
<1>2. Aftermath(script) = CHOOSE k \in ends : \A j \in ends : k <= j
  BY Zenon DEF Aftermath
<1> HIDE DEF ends
<1>3. \E k \in ends : \A j \in ends : k <= j
  BY <1>1, Least
<1>4. Aftermath(script) \in ends
  BY <1>2, <1>3, Zenon
<1> QED BY <1>1, <1>4

\* Where a case may be, and which server it may have met.
WalkInv ==
  /\ case \in Cases /\ case \in DOMAIN Suite
  /\ fault \in {Conforming} \cup FaultsOf(case)
  /\ pc \in 1 .. Len(Script) + 1
  /\ failed \in BOOLEAN

\* The step a case that is not over is at.
LEMMA AtStep ==
  ASSUME WalkInv, ~Finished
  PROVE  Len(Script) \in Nat \ {0} /\ pc \in 1 .. Len(Script) /\ Kinds(case, pc, Now)
<1>1. /\ case \in DOMAIN Suite /\ pc \in 1 .. Len(Script) + 1
  BY DEF WalkInv
<1>2. PICK n \in Nat \ {0} : n = Len(Script)
  BY <1>1, ScriptKinds DEF Script
<1>3. pc \in 1 .. n
  BY <1>1, <1>2 DEF Finished, Over
<1> QED BY <1>1, <1>2, <1>3, ScriptKinds DEF Now, Script

\* What judging its result does to the case.
LEMMA Judged ==
  ASSUME WalkInv, ~Finished, NEW ok, Judge(Script, ok)
  PROVE  /\ case' = case /\ Script' = Script
         /\ failed' \in BOOLEAN
         /\ pc \in Nat /\ pc' \in Nat
         /\ pc' \in pc + 1 .. Len(Script) + 1
         /\ pc' \in 1 .. Len(Script)' + 1
         /\ ok => failed' = failed /\ pc' = pc + 1
         /\ Now.must # "abort" => pc' = pc + 1
         /\ Now.must = "ignored" => failed' = failed
<1>1. PICK n \in Nat : n = Len(Script)
  BY AtStep
<1>2. pc \in 1 .. n
  BY <1>1, AtStep
<1>3. Aftermath(Script) \in pc + 1 .. n + 1
  BY <1>1, <1>2, AftermathIsLater
<1>4. /\ failed' = (failed \/ (~ok /\ Now.must \in {"hold", "abort"}))
      /\ pc' = IF ~ok /\ Now.must = "abort" THEN Aftermath(Script) ELSE pc + 1
      /\ case' = case
  BY DEF Judge, Now
<1>5. failed \in BOOLEAN
  BY DEF WalkInv
<1>6. pc \in Nat /\ n \in Nat /\ pc' \in pc + 1 .. n + 1 /\ pc' \in Nat
  BY <1>2, <1>3, <1>4
<1>7. failed' \in BOOLEAN
  BY <1>4, <1>5
<1>8. Script' = Script
  BY <1>4 DEF Script
<1>9. pc' \in 1 .. n + 1
  BY <1>6, <1>2
<1>10. Now.must = "ignored" => failed' = failed
  BY <1>4, <1>5
<1> QED BY <1>1, <1>4, <1>5, <1>6, <1>7, <1>8, <1>9, <1>10

\* A step of the case judges one result.
LEMMA TestCaseJudges ==
  ASSUME TestCase
  PROVE  \E ok : Judge(Script, ok)
<1>1. CASE CallStep
  BY <1>1 DEF CallStep
<1>2. CASE GetStep
  <2> DEFINE answer == CASE Now.what = "getDuration"     -> FALSE
                         [] Now.what = "rejectsUnissued" -> TRUE
                         [] OTHER                        -> srv.state # "IDLE"
             answered == IF Answering(Now.what) THEN answer ELSE ~answer
  <2>1. Judge(Script, answered = Now.value)
    BY <1>2, Zenon DEF GetStep
  <2> QED BY <2>1
<1>3. CASE AwaitStep
  BY <1>3 DEF AwaitStep, Assert
<1>4. CASE PollStep
  BY <1>4 DEF PollStep, PollUntilApplied, Assert
<1>5. CASE PollIfSupportedStep
  BY <1>5 DEF PollIfSupportedStep, Assert
<1>6. CASE CheckStep
  <2>1. Judge(Script, Holds(Now.what))
    BY <1>6 DEF CheckStep, Assert
  <2> QED BY <2>1
<1>7. CASE SleepStep
  BY <1>7 DEF SleepStep, Assert
<1> QED BY <1>1, <1>2, <1>3, <1>4, <1>5, <1>6, <1>7 DEF TestCase

-----------------------------------------------------------------------------
(***************************************************************************)
(* A case runs the feed of MediaFeed.                                      *)
(***************************************************************************)

\* A call of the case is a step of the feed's test thread, or none of the feed.
LEMMA PerformRefines ==
  ASSUME NEW op, NEW value \in BOOLEAN, Perform(op, value)
  PROVE  [Next]_vars
<1>1. CASE op = "setOversupply" /\ SetOversupply(2)
  BY <1>1, CasesAssumption DEF Next, TestThread
<1>2. CASE op = "setWithhold" /\ SetWithhold(value)
  BY <1>2 DEF Next, TestThread
<1>3. CASE op = "setStarve" /\ SetStarve(value)
  BY <1>3 DEF Next, TestThread
<1>4. CASE SetPipeline \/ AllSourcesAttached
  BY <1>4 DEF Next, TestThread
<1>5. CASE \E s \in Sources : AddAudioSource(s) \/ RewindSource(s) \/ FlushSource(s)
  BY <1>5 DEF Next, TestThread
<1>6. CASE UNCHANGED vars
  BY <1>6
<1> QED BY <1>1, <1>2, <1>3, <1>4, <1>5, <1>6 DEF Perform

\* Every step of the callback thread is one of the feed's.
LEMMA FeedRefines ==
  ASSUME Feed
  PROVE  Next
<1>1. PICK s \in Sources :
        \/ DropRequest(s) \/ StarveRequest(s) \/ StartRound(s) \/ AnswerStarved(s)
        \/ AcceptSegment(s) \/ RejectSegment(s, "NO_SPACE") \/ RejectSegment(s, "ERROR")
        \/ CommitRound(s) \/ HaveData(s) \/ NotifyCancelNeedMediaData(s)
  BY Zenon DEF Feed
<1> QED BY <1>1 DEF Next, CallbackThread

\* Every step of a case and of its server is a step of the feed, or none of the feed.
LEMMA StepRefines ==
  ASSUME WalkInv, CaseNext
  PROVE  [Next]_vars
<1>1. CASE TestCase
  <2> USE DEF Assert
  <2>0. ~Finished
    BY <1>1 DEF TestCase
  <2>1. CASE CallStep
    <3>1. Now.value \in BOOLEAN
      BY <2>0, AtStep DEF Kinds
    <3>2. CASE Perform(Now.what, Now.value)
      BY <3>1, <3>2, PerformRefines
    <3>3. CASE UNCHANGED vars
      BY <3>3
    <3> QED BY <2>1, <3>2, <3>3 DEF CallStep
  <2>2. CASE GetStep
    BY <2>2, Zenon DEF GetStep
  <2>3. CASE AwaitStep
    BY <2>3, Zenon DEF AwaitStep
  <2>4. CASE PollStep
    BY <2>4, Zenon DEF PollStep, PollUntilApplied
  <2>5. CASE PollIfSupportedStep
    BY <2>5, Zenon DEF PollIfSupportedStep
  <2>6. CASE CheckStep
    BY <2>6, Zenon DEF CheckStep
  <2>7. CASE SleepStep
    BY <2>7, Zenon DEF SleepStep
  <2> QED BY <1>1, <2>1, <2>2, <2>3, <2>4, <2>5, <2>6, <2>7 DEF TestCase
<1>2. CASE Notify
  BY <1>2, Zenon DEF Notify
<1>3. CASE Work
  BY <1>3, Zenon DEF Work
<1>4. CASE Play(Short)
  BY <1>4, Zenon DEF Play
<1>5. CASE Feed
  BY <1>5, FeedRefines
<1>6. CASE Request
  BY <1>6, Zenon DEF Request, Next
<1>7. CASE Overlap
  <2>1. (\E s \in Sources : FlushSource(s)) \/ Server
    BY <1>7, Zenon DEF Overlap
  <2> QED BY <2>1, Zenon DEF Next, TestThread
<1> QED BY <1>1, <1>2, <1>3, <1>4, <1>5, <1>6, <1>7 DEF CaseNext, ServerStep

\* No step changes what fault the server has.
LEMMA FaultKept ==
  ASSUME CaseNext
  PROVE  fault' = fault
<1>1. CASE TestCase
  <2> USE DEF Assert, playbackVars
  <2>1. CASE CallStep
    BY <2>1, Zenon DEF CallStep, Perform
  <2>2. CASE GetStep
    BY <2>2, Zenon DEF GetStep
  <2>3. CASE AwaitStep
    BY <2>3, Zenon DEF AwaitStep
  <2>4. CASE PollStep
    BY <2>4, Zenon DEF PollStep, PollUntilApplied
  <2>5. CASE PollIfSupportedStep
    BY <2>5, Zenon DEF PollIfSupportedStep
  <2>6. CASE CheckStep
    BY <2>6, Zenon DEF CheckStep
  <2>7. CASE SleepStep
    BY <2>7, Zenon DEF SleepStep
  <2> QED BY <1>1, <2>1, <2>2, <2>3, <2>4, <2>5, <2>6, <2>7, Zenon DEF TestCase
<1>2. CASE ServerStep
  BY <1>2 DEF ServerStep, Notify, Work, Play, Feed, Request, Overlap, playbackVars
<1> QED BY <1>1, <1>2, Zenon DEF CaseNext

\* No step takes a case out of its script.
LEMMA WalkKept ==
  ASSUME WalkInv, CaseNext
  PROVE  WalkInv'
<1>1. fault' = fault
  BY FaultKept
<1>2. CASE TestCase
  <2>1. ~Finished
    BY <1>2 DEF TestCase
  <2>2. PICK ok : Judge(Script, ok)
    BY <1>2, TestCaseJudges
  <2>3. /\ case' = case /\ Script' = Script /\ failed' \in BOOLEAN
        /\ pc' \in 1 .. Len(Script)' + 1
    BY <2>1, <2>2, Judged
  <2> QED BY <1>1, <2>3 DEF WalkInv
<1>3. CASE UNCHANGED <<case, pc, failed>>
  <2>1. Script' = Script
    BY <1>3 DEF Script
  <2> QED BY <1>1, <1>3, <2>1 DEF WalkInv
<1> QED BY <1>2, <1>3, Zenon DEF CaseNext

\* A case starts in its script.
LEMMA WalkInit ==
  ASSUME CaseInit
  PROVE  WalkInv
<1>1. /\ case \in Cases /\ fault \in {Conforming} \cup FaultsOf(case) /\ pc = 1 /\ failed = FALSE
  BY Zenon DEF CaseInit, ScriptInit
<1>2. case \in DOMAIN Suite
  BY <1>1, CasesAssumption
<1>3. Len(Script) \in Nat \ {0}
  BY <1>2, ScriptKinds DEF Script
<1>4. pc \in 1 .. Len(Script) + 1
  BY <1>1, <1>3
<1> QED BY <1>1, <1>2, <1>4 DEF WalkInv

\* What changes nothing of the case changes nothing of the feed.
LEMMA WalkStutters ==
  ASSUME WalkInv, UNCHANGED caseVars
  PROVE  WalkInv' /\ UNCHANGED vars
  BY DEF WalkInv, caseVars, playbackVars, Script

\* Every case stays in its script: after a fatal assertion it goes on at the step that is
\* always made, its TearDown, or is over, and it never runs past its end.
THEOREM CaseWalks == CaseSpec => []WalkInv
<1>1. CaseInit => WalkInv
  BY WalkInit
<1>2. WalkInv /\ [CaseNext]_caseVars => WalkInv'
  BY WalkKept, WalkStutters
<1> QED BY <1>1, <1>2, PTL DEF CaseSpec

\* The feed a case runs against is the feed of MediaFeed: every step of the test thread,
\* of the callback thread and of the server is one that registering and attaching sources,
\* answering need-data, flushing and rewinding allow (src/common/MediaFeed.cpp), or leaves
\* the feed alone.  Whatever holds of the feed holds of it in every case.
THEOREM CasesRunTheFeed == CaseSpec => Spec
<1>1. CaseInit => Init
  BY DEF CaseInit, PlaybackInit
<1>2. WalkInv /\ [CaseNext]_caseVars => [Next]_vars
  BY StepRefines, WalkStutters
<1> QED BY <1>1, <1>2, CaseWalks, PTL DEF CaseSpec, Spec

-----------------------------------------------------------------------------
(***************************************************************************)
(* Queues, and what a server that conforms sends.                          *)
(***************************************************************************)

\* Adding to a queue: what has been in it keeps its place.
LEMMA AddedAt ==
  ASSUME NEW S, NEW q \in Seq(S), NEW x \in S
  PROVE  /\ Append(q, x) \in Seq(S) /\ Append(q, x) # << >>
         /\ Len(q) \in Nat /\ Len(Append(q, x)) = Len(q) + 1
         /\ DOMAIN q = 1 .. Len(q) /\ DOMAIN Append(q, x) = 1 .. Len(q) + 1
         /\ \A i \in 1 .. Len(q) : Append(q, x)[i] = q[i]
         /\ Append(q, x)[Len(q) + 1] = x
<1>1. /\ Append(q, x) \in Seq(S) /\ Len(Append(q, x)) = Len(q) + 1 /\ Len(q) \in Nat
      /\ \A i \in 1 .. Len(q) : Append(q, x)[i] = q[i]
      /\ Append(q, x)[Len(q) + 1] = x
  BY AppendProperties
<1>2. DOMAIN q = 1 .. Len(q) /\ DOMAIN Append(q, x) = 1 .. Len(q) + 1
  BY <1>1
<1>3. Append(q, x) # << >>
  BY <1>1, EmptySeq
<1> QED BY <1>1, <1>2, <1>3

\* What is in it afterwards.
LEMMA Added ==
  ASSUME NEW S, NEW q \in Seq(S), NEW x \in S
  PROVE  /\ Append(q, x) \in Seq(S)
         /\ \A y : Has(Append(q, x), y) <=> Has(q, y) \/ y = x
         /\ \A do : HasDo(Append(q, x), do) <=> HasDo(q, do) \/ x.do = do
<1>1. \A i \in 1 .. Len(q) + 1 : i \in 1 .. Len(q) \/ i = Len(q) + 1
  BY AddedAt
<1>2. \A i \in 1 .. Len(q) : i \in 1 .. Len(q) + 1
  BY AddedAt
<1>3. Len(q) + 1 \in 1 .. Len(q) + 1
  BY AddedAt
<1>4. \A y : Has(Append(q, x), y) <=> Has(q, y) \/ y = x
  BY <1>1, <1>2, <1>3, AddedAt DEF Has
<1>5. \A do : HasDo(Append(q, x), do) <=> HasDo(q, do) \/ x.do = do
  BY <1>1, <1>2, <1>3, AddedAt DEF HasDo
<1> QED BY <1>4, <1>5, AddedAt

\* Taking from a queue.
LEMMA Removed ==
  ASSUME NEW S, NEW q \in Seq(S), q # << >>, NEW t, t = Tail(q)
  PROVE  /\ Head(q) \in S /\ t \in Seq(S) /\ Head(q) = q[1] /\ 1 \in DOMAIN q
         /\ Len(q) \in Nat \ {0} /\ Len(t) = Len(q) - 1
         /\ DOMAIN q = 1 .. Len(q) /\ DOMAIN t = 1 .. Len(q) - 1
         /\ \A i \in DOMAIN t : i \in Nat /\ i + 1 \in DOMAIN q /\ t[i] = q[i + 1]
         /\ \A i \in DOMAIN q : i = 1 \/ (i - 1 \in DOMAIN t /\ t[i - 1] = q[i])
         /\ \A y : Has(q, y) <=> y = Head(q) \/ Has(t, y)
         /\ \A do : HasDo(q, do) <=> Head(q).do = do \/ HasDo(t, do)
<1>1. /\ Head(q) \in S /\ t \in Seq(S) /\ Head(q) = q[1]
      /\ Len(q) \in Nat \ {0} /\ Len(t) = Len(q) - 1
      /\ \A i \in 1 .. Len(q) - 1 : t[i] = q[i + 1]
  BY HeadTailProperties, EmptySeq
<1>2. DOMAIN q = 1 .. Len(q) /\ DOMAIN t = 1 .. Len(q) - 1 /\ 1 \in DOMAIN q
  BY <1>1
<1>3. \A i \in DOMAIN t : i \in Nat /\ i + 1 \in DOMAIN q /\ t[i] = q[i + 1]
  BY <1>1, <1>2
<1>4. \A i \in DOMAIN q : i = 1 \/ (i - 1 \in DOMAIN t /\ t[i - 1] = q[i])
  <2> SUFFICES ASSUME NEW i \in DOMAIN q, i # 1
               PROVE  i - 1 \in DOMAIN t /\ t[i - 1] = q[i]
    OBVIOUS
  <2>1. i - 1 \in 1 .. Len(q) - 1 /\ (i - 1) + 1 = i
    BY <1>1, <1>2
  <2>2. t[i - 1] = q[(i - 1) + 1]
    BY <1>1, <2>1
  <2> QED BY <1>2, <2>1, <2>2
<1>5. \A y : Has(q, y) <=> y = Head(q) \/ Has(t, y)
  BY <1>1, <1>2, <1>3, <1>4, Zenon DEF Has
<1>6. \A do : HasDo(q, do) <=> Head(q).do = do \/ HasDo(t, do)
  BY <1>1, <1>2, <1>3, <1>4, Zenon DEF HasDo
<1> QED BY <1>1, <1>2, <1>3, <1>4, <1>5, <1>6

\* A server that conforms has none of the faults that show.
LEMMA NoFault ==
  ASSUME Conforms
  PROVE  /\ \A x : fault # Refuses(x) /\ fault # Misanswers(x) /\ fault # Silences(x)
         /\ fault # RejectsSegment
         /\ fault.kind # "spoils" /\ fault.kind # "ignores"
BY DEF Conforms, Refuses, Misanswers, Silences, RejectsSegment, Fault

\* It sends what it has to.
LEMMA EmitsOne ==
  ASSUME Conforms, notices \in Seq(Notes), NEW event, NEW n \in Notes, Emit(event, <<n>>)
  PROVE  notices' = Append(notices, n)
<1>1. notices' = notices \o << >> \o <<n>>
  BY NoFault DEF Emit
<1>2. notices \o << >> = notices
  BY ConcatEmptySeq
<1>3. notices \o <<n>> = Append(notices, n)
  BY AppendIsConcat
<1> QED BY <1>1, <1>2, <1>3

\* It sends nothing where it has nothing to send.
LEMMA EmitsNone ==
  ASSUME Conforms, notices \in Seq(Notes), NEW event, Emit(event, << >>)
  PROVE  notices' = notices
<1>1. notices' = notices \o << >> \o << >>
  BY NoFault DEF Emit
<1>2. notices \o << >> = notices
  BY ConcatEmptySeq
<1> QED BY <1>1, <1>2

-----------------------------------------------------------------------------
(***************************************************************************)
(* No assertion fails on a conforming server, from the invariant.          *)
(***************************************************************************)

\* What is known of the feed.
FeedInv == IInv /\ QueueInv /\ OverlapExplained /\ RetainedNotSkipped

\* There is one source.
LEMMA OneSource == \E s \in Sources : Sources = {s}
BY CasesAssumption

\* A case that is not over has not stopped its server, but for Transport.
LEMMA Running ==
  ASSUME WalkInv, ~Finished, pc <= ReachedAt
  PROVE  ~Stopping /\ ~Pausing
<1>1. pc \in Nat
  BY AtStep
<1> QED BY <1>1 DEF Stopping, Pausing, ReachedAt, ReachAt, Rendering, Transport, Getters,
           Unplayed, Seeking, Refilling

\* When nothing is under way any more every source has reached the end of its stream.
LEMMA AllEnded ==
  ASSUME WaitedInv, case # Cancelling \/ pc <= 8, allAttached, ~starve, Settled(Short)
  PROVE  /\ \A s \in Sources : ended[s] /\ outstanding[s] = None
         /\ HasData
<1>1. /\ queue = << >> /\ cb.phase = "idle"
      /\ \A s \in Sources : outstanding[s] # None \/ ended[s]
  BY DEF Settled
<1>2. \A s \in Sources : ~Queued(s)
  <2>1. DOMAIN queue = {}
    BY <1>1
  <2> QED BY <2>1 DEF Queued
<1>3. \A s \in Sources : outstanding[s] = None
  BY <1>1, <1>2 DEF WaitedInv
<1> QED BY <1>1, <1>3 DEF HasData

\* A wait a case insists on is not given up before what it waits for is recorded.
LEMMA AwaitedInTime ==
  ASSUME WalkInv, PlayInvariant, ~Finished, Now.do = "await", Now.must # "ignored",
         Settled(Short)
  PROVE  Observed(Now.what)
<1>1. /\ pc \in Nat /\ AwaitKinds(case, pc, Now) /\ case # Unplayed
  BY AtStep DEF Kinds, AwaitKinds
<1>2. pc >= ReachedAt
  BY <1>1 DEF AwaitKinds, ReachedAt
<1>3. ReachedAt \in {6, 7}
  BY DEF ReachedAt, ReachAt
<1>4. allAttached
  BY <1>1, <1>2, <1>3 DEF PlayInvariant, BringUpInv
<1>5. /\ tasks = << >> /\ notices = << >>
      /\ ~CanPreroll /\ ~CanStart /\ ~CanFinishSeek /\ ~CanEnd(Short)
  BY DEF Settled
<1>6. /\ \A n : ~Coming(n)
      /\ \A n : Ahead(n) <=> Observed(n)
      /\ \A do : ~Due(do)
  BY <1>5 DEF Coming, Ahead, Due, Has, HasDo
<1>7. srv.state \in {"IDLE", "PAUSED", "PLAYING", "END_OF_STREAM", "STOPPED"}
  BY DEF PlayInvariant, PlayTypes
<1>8. CASE Now.what = "PLAYING" /\ pc = ReachedAt
  <2>1. ~Stopping /\ ~Pausing
    BY <1>1, <1>8, <1>3, Running
  <2>2. ~starve /\ (case # Cancelling \/ pc <= 8)
    BY <1>1, <1>8, <1>3 DEF PlayInvariant, BringUpInv
  <2>3. HasData
    BY <1>4, <2>2, AllEnded DEF PlayInvariant
  <2>4. srv.target = "PLAYING" /\ srv.state # "STOPPED"
    BY <1>2, <1>6, <2>1 DEF PlayInvariant, PlayInv
  <2>5. srv.state \in {"PLAYING", "END_OF_STREAM"}
    BY <1>4, <1>5, <1>7, <2>3, <2>4 DEF CanPreroll, CanStart
  <2> QED BY <1>6, <1>8, <2>5 DEF PlayInvariant, StateInv
<1>9. CASE pc > ReachedAt
  <2>1. Observed("PLAYING") /\ Observed("PAUSED")
    BY <1>1, <1>6, <1>9 DEF PlayInvariant, StateInv
  <2>2. CASE Now.what = "PAUSED"
    BY <2>1, <2>2
  <2>3. CASE Now.what = "END_OF_STREAM" /\ case \in {Ending, Clean} /\ pc = 7
    <3>1. ~Stopping /\ ~Pausing
      <4>1. ~Finished
        OBVIOUS
      <4> QED BY <2>3, <4>1 DEF Stopping, Pausing, Ending, Clean, Transport, Rendering
    <3>2. ~starve /\ case # Cancelling /\ Short
      BY <2>3 DEF PlayInvariant, BringUpInv, Ending, Clean, Starving, Cancelling, Short
    <3>3. \A s \in Sources : ended[s]
      BY <1>4, <3>2, AllEnded DEF PlayInvariant
    <3>4. srv.state \in {"PLAYING", "END_OF_STREAM"}
      BY <1>6, <2>1, <3>1 DEF PlayInvariant, PlayInv
    <3>5. srv.state = "END_OF_STREAM"
      BY <1>5, <3>2, <3>3, <3>4 DEF CanEnd
    <3> QED BY <1>6, <2>3, <3>5 DEF PlayInvariant, StateInv
  <2>4. CASE Now.what = "FLUSHED" /\ case = Flushing /\ pc = 8
    BY <1>6, <2>4 DEF PlayInvariant, FlushInv
  <2>5. CASE Now.what = "SEEKING" /\ case = Seeking /\ pc = 10
    BY <1>6, <2>5 DEF PlayInvariant, SeekInv
  <2>6. CASE Now.what = "SEEK_DONE" /\ case = Seeking /\ pc = 11
    <3>1. ~starve /\ case # Cancelling
      BY <2>6 DEF PlayInvariant, BringUpInv, Seeking, Starving, Cancelling
    <3>2. HasData
      BY <1>4, <3>1, AllEnded DEF PlayInvariant
    <3>3. ~srv.seeking
      BY <1>5, <3>2 DEF CanFinishSeek
    <3> QED BY <1>6, <2>6, <3>3 DEF PlayInvariant, SeekInv
  <2> QED BY <1>1, <1>9, <2>2, <2>3, <2>4, <2>5, <2>6 DEF AwaitKinds, ReachedAt
<1>10. pc = ReachedAt => Now.what = "PLAYING"
  BY AtStep DEF Kinds, ReachedAt, Reach, Step
<1> QED BY <1>1, <1>2, <1>3, <1>8, <1>9, <1>10

\* A read of the property the case insists on finds what was written, and on a platform
\* without it the case does not insist.
LEMMA ReadInTime ==
  ASSUME WalkInv, PlayInvariant, Conforms, ~Finished, Now.do \in {"poll", "pollIfSupported"},
         Settled(Short)
  PROVE  /\ srv.property = Now.value \/ fault.kind = "lacks"
         /\ Now.do = "poll" => srv.property = Now.value
<1>1. /\ pc \in Nat /\ PollKinds(case, pc, Now)
      /\ Now.do = "poll" => case \notin ConformWhenSupported
  BY AtStep DEF Kinds
<1>2. /\ Script[pc - 1].do = "write" /\ Script[pc - 1].value = Now.value /\ pc > 1
  BY <1>1 DEF PollKinds, Script, ReachAt
<1>3. ~Due("write")
  BY DEF Settled, Due, HasDo
<1>4. DOMAIN tasks = {}
  BY DEF Settled
<1>5. fault.kind = "none" => srv.property = Now.value
  BY <1>2, <1>4 DEF PlayInvariant, WrittenInv
<1>6. fault.kind = "lacks" => case \in ConformWhenSupported
  BY CasesAssumption DEF WalkInv, Conforming, Fault
<1> QED BY <1>1, <1>5, <1>6 DEF Conforms

\* A getter answers what the case expects.
LEMMA AnswersAsExpected ==
  ASSUME WalkInv, PlayInvariant, Conforms, GetStep, ~Finished
  PROVE  Judge(Script, TRUE)
<1> DEFINE answer == CASE Now.what = "getDuration"     -> FALSE
                       [] Now.what = "rejectsUnissued" -> TRUE
                       [] OTHER                        -> srv.state # "IDLE"
           answered == IF Answering(Now.what) THEN answer ELSE ~answer
<1>1. Now.do = "get" /\ Judge(Script, answered = Now.value)
  BY Zenon DEF GetStep
<1>2. answered = answer
  BY NoFault DEF Answering
<1>3. /\ pc \in Nat /\ Now.value \in BOOLEAN
      /\ \/ pc = 2 /\ Now.value = FALSE /\ case \in Getters /\ Now.what # "rejectsUnissued"
         \/ /\ pc > ReachedAt /\ case # Unplayed
            /\ Now.value = TRUE <=> Now.what # "getDuration"
  <2>1. Kinds(case, pc, Now) /\ pc \in Nat
    BY AtStep
  <2> QED BY <1>1, <2>1, Zenon DEF Kinds, ReachedAt
<1>4. CASE pc = 2 /\ Now.value = FALSE /\ case \in Getters /\ Now.what # "rejectsUnissued"
  <2>1. ~allAttached
    BY <1>4 DEF PlayInvariant, BringUpInv, ReachedAt, ReachAt
  <2>2. srv.state = "IDLE"
    BY <2>1 DEF PlayInvariant, BringUpInv
  <2>3. answer = FALSE
    BY <1>4, <2>2
  <2>4. (answered = Now.value) = TRUE
    BY <1>2, <1>4, <2>3
  <2> QED BY <1>1, <2>4
<1>5. CASE /\ pc > ReachedAt /\ case # Unplayed
           /\ Now.value = TRUE <=> Now.what # "getDuration"
  <2>1. Observed("PLAYING")
    BY <1>5 DEF PlayInvariant, StateInv
  <2>2. srv.state # "IDLE"
    BY <2>1 DEF PlayInvariant, StateInv, Ahead
  <2>3. CASE Now.what = "getDuration"
    <3>1. answer = FALSE /\ Now.value = FALSE
      BY <1>3, <1>5, <2>3
    <3>2. (answered = Now.value) = TRUE
      BY <1>2, <3>1
    <3> QED BY <1>1, <3>2
  <2>4. CASE Now.what # "getDuration"
    <3>1. answer = TRUE /\ Now.value = TRUE
      BY <1>5, <2>2, <2>4
    <3>2. (answered = Now.value) = TRUE
      BY <1>2, <3>1
    <3> QED BY <1>1, <3>2
  <2> QED BY <2>3, <2>4
<1> QED BY <1>3, <1>4, <1>5

\* An assertion on the record finds it as it must be.
LEMMA HoldsAsExpected ==
  ASSUME WalkInv, FeedInv, PlayInvariant, Conforms, Now.do = "check", ~Finished
  PROVE  Holds(Now.what)
<1>1. pc \in Nat /\ CheckKinds(case, pc, Now) /\ pc > ReachedAt /\ case # Unplayed
  BY AtStep DEF Kinds, ReachedAt
<1>2. /\ seen.states \subseteq Moves /\ seen.events \subseteq Events
      /\ srv.state \in {"IDLE", "PAUSED", "PLAYING", "END_OF_STREAM", "STOPPED"}
  BY DEF PlayInvariant, PlayTypes
<1>3. "PLAYING" \in seen.states
  <2>1. Observed("PLAYING")
    BY <1>1 DEF PlayInvariant, StateInv
  <2> QED BY <1>2, <2>1 DEF Observed, Events
<1>4. CASE Now.what \in {"noFailure", "noNetworkError"}
  BY <1>2, <1>4 DEF Holds, Moves, Events
<1>5. CASE Now.what = "requested" /\ case = Protocol /\ pc = 7
  <2>1. srv.state \notin {"IDLE", "STOPPED"}
    <3>1. ~Stopping
      BY <1>5 DEF Stopping, Protocol, Transport
    <3> QED BY <1>3, <3>1 DEF PlayInvariant, StateInv, PlayInv, Ahead, Observed
  <2>2. seen.requested
    BY <1>5, <2>1 DEF PlayInvariant, RequestedInv, AskedInv, ReaskedInv, Protocol, Cancelling
  <2> QED BY <1>5, <2>2 DEF Holds
<1>6. CASE Now.what = "requested" /\ case = Cancelling /\ pc = 16
  BY <1>6 DEF PlayInvariant, RequestedInv, AskedInv, ReaskedInv, Holds
<1>7. CASE Now.what \in {"noOverlap", "allAccepted"} /\ case = Protocol
  <2>1. silent = {} /\ allSegmentsAccepted
    BY <1>7 DEF PlayInvariant, FlushedInv, AcceptedInv, Protocol, Flushing, Seeking,
                Cancelling, Refilling
  <2>2. ~overlapping
    BY <2>1 DEF FeedInv, OverlapExplained
  <2> QED BY <1>7, <2>1, <2>2 DEF Holds
<1>8. CASE Now.what = "buffering" /\ case = Clean /\ pc = 8
  BY <1>3, <1>8 DEF PlayInvariant, BufferedInv, Holds
<1>9. CASE Now.what = "noErrors" /\ case = Refilling
  BY <1>9 DEF PlayInvariant, AcceptedInv, Holds, Refilling, Flushing, Seeking, Cancelling
<1>10. CASE Now.what = "resent" /\ case = Refilling /\ pc = 11
  BY <1>10 DEF PlayInvariant, ResentInv, Holds
<1>11. CASE Now.what = "errorWhilePlaying" /\ case = Erring /\ pc = 10
  <2>1. ~Stopping
    BY <1>11 DEF Stopping, Erring, Transport
  <2> QED BY <1>11, <2>1 DEF PlayInvariant, ErrorInv, Holds
<1> QED BY <1>1, <1>4, <1>5, <1>6, <1>7, <1>8, <1>9, <1>10, <1>11 DEF CheckKinds

\* The case takes its next step, and nothing it insists on has failed.
Advance ==
  /\ ~Finished /\ pc \in Nat /\ pc' \in Nat
  /\ case' = case /\ Script' = Script /\ pc' = pc + 1 /\ failed' = failed

\* Nothing but the case has moved.
Quiet == UNCHANGED <<vars, fault, seen, notices, tasks, srv, head>>

-----------------------------------------------------------------------------
(***************************************************************************)
(* The steps of the test thread.                                           *)
(***************************************************************************)

\* What the case has waited for.
Waited ==
  /\ Now.do = "sleep" => Settled(Short)
  /\ Now.do = "await" /\ Now.must # "ignored" => Observed(Now.what)

\* A step of a case against a server that conforms: an assertion that holds, or a call.
LEMMA TestStep ==
  ASSUME WalkInv, FeedInv, PlayInvariant, Conforms, TestCase
  PROVE  /\ Advance /\ Waited
         /\ \/ Quiet /\ Now.do \notin {"call", "write"}
            \/ Now.do \in {"call", "write"} /\ Perform(Now.what, Now.value)
<1>0. ~Finished
  BY DEF TestCase
<1>1. pc \in Nat /\ Now.must \in {"hold", "abort", "ignored"}
  BY <1>0, AtStep DEF Kinds
<1>2. Judge(Script, TRUE) => Advance
  BY <1>0, Judged DEF Advance
<1>3. ASSUME NEW ok, Judge(Script, ok), Now.must = "ignored"
      PROVE  Advance
  BY <1>0, <1>1, <1>3, Judged DEF Advance
<1>4. UNCHANGED <<vars, playbackVars>> => Quiet
  BY DEF playbackVars, Quiet
<1>5. CASE CallStep
  <2>1. Perform(Now.what, Now.value) /\ Judge(Script, TRUE) /\ Now.do \in {"call", "write"}
    BY <1>5, NoFault DEF CallStep
  <2> QED BY <1>2, <2>1 DEF Waited
<1>6. CASE GetStep
  <2>1. Judge(Script, TRUE)
    BY <1>0, <1>6, AnswersAsExpected
  <2>2. Quiet /\ Now.do = "get"
    BY <1>6, Zenon DEF GetStep, Quiet
  <2> QED BY <1>2, <2>1, <2>2 DEF Waited
<1>7. CASE AwaitStep
  <2>1. Now.do = "await" /\ Quiet
    BY <1>4, <1>7 DEF AwaitStep, Assert
  <2>2. CASE Observed(Now.what) /\ Assert(TRUE)
    BY <1>2, <2>1, <2>2 DEF Assert, Waited
  <2>3. CASE TimedOut(Observed(Now.what)) /\ Assert(FALSE)
    <3>1. Now.must = "ignored"
      BY <1>0, <2>1, <2>3, AwaitedInTime DEF TimedOut
    <3> QED BY <1>3, <2>1, <2>3, <3>1 DEF Assert, Waited
  <2> QED BY <1>7, <2>2, <2>3 DEF AwaitStep
<1>8. CASE PollStep
  <2>1. Now.do = "poll" /\ Quiet
    BY <1>4, <1>8 DEF PollStep, PollUntilApplied, Assert
  <2>2. ~TimedOut(srv.property = Now.value)
    BY <1>0, <2>1, ReadInTime DEF TimedOut
  <2>3. Judge(Script, TRUE)
    BY <1>8, <2>2 DEF PollStep, PollUntilApplied, Assert
  <2> QED BY <1>2, <2>1, <2>3 DEF Waited
<1>9. CASE PollIfSupportedStep
  <2>1. Now.do = "pollIfSupported" /\ Quiet
    BY <1>4, <1>9 DEF PollIfSupportedStep, Assert
  <2>2. CASE srv.property = Now.value /\ Assert(TRUE)
    BY <1>2, <2>1, <2>2 DEF Assert, Waited
  <2>3. CASE TimedOut(srv.property = Now.value) /\ Assert(fault.kind = "lacks")
    <3>1. fault.kind = "lacks"
      BY <1>0, <2>1, <2>3, ReadInTime DEF TimedOut
    <3>2. (fault.kind = "lacks") = TRUE
      BY <3>1
    <3> QED BY <1>2, <2>1, <2>3, <3>2 DEF Assert, Waited
  <2> QED BY <1>9, <2>2, <2>3 DEF PollIfSupportedStep
<1>10. CASE CheckStep
  <2>1. Now.do = "check" /\ Quiet /\ Judge(Script, Holds(Now.what))
    BY <1>4, <1>10 DEF CheckStep, Assert
  <2>2. Holds(Now.what)
    BY <1>0, <2>1, HoldsAsExpected
  <2>3. Advance
    BY <1>0, <2>1, <2>2, Judged DEF Advance
  <2> QED BY <2>1, <2>3 DEF Waited
<1>11. CASE SleepStep
  <2>1. Now.do = "sleep" /\ Quiet /\ Judge(Script, TRUE) /\ Settled(Short)
    BY <1>4, <1>11 DEF SleepStep, Assert
  <2> QED BY <1>2, <2>1 DEF Waited
<1> QED BY <1>5, <1>6, <1>7, <1>8, <1>9, <1>10, <1>11 DEF TestCase

-----------------------------------------------------------------------------
(***************************************************************************)
(* The steps of the client's IPC thread and of the server's worker thread. *)
(***************************************************************************)

\* What does not touch what is recorded, nor the server's playback, nor a state, SEEKING,
\* SEEK_DONE or FLUSHED on its way.
RecordKept ==
  /\ seen'.states = seen.states /\ seen'.events = seen.events
  /\ seen'.lastState = seen.lastState /\ seen'.stateAtLastError = seen.stateAtLastError
  /\ srv'.state = srv.state /\ srv'.target = srv.target
  /\ srv'.seeking = srv.seeking /\ srv'.property = srv.property
  /\ \A n \in Moves \cup {"FLUSHED"} : Has(notices', n) <=> Coming(n)
  /\ \A n : Coming(n) => Has(notices', n)

\* The notices a step adds.
Adds(n) == n \in Notes /\ notices' = Append(notices, n)

\* What is on its way once n is added.
LEMMA Noted ==
  ASSUME PlayTypes, NEW n, Adds(n)
  PROVE  /\ notices' \in Seq(Notes)
         /\ \A m : Has(notices', m) <=> Coming(m) \/ m = n
<1>1. notices \in Seq(Notes) /\ n \in Notes /\ notices' = Append(notices, n)
  BY DEF PlayTypes, Adds
<1>2. /\ notices' \in Seq(Notes)
      /\ \A m : Has(notices', m) <=> Has(notices, m) \/ m = n
  <2> HIDE DEF Notes
  <2> QED BY <1>1, Added
<1> QED BY <1>2 DEF Coming

\* What the IPC thread does with the notification n.
Delivered(n) ==
  /\ notices # << >> /\ cb.phase = "idle" /\ n \in Notes
  /\ n = notices[1] /\ notices' = Tail(notices)
  /\ UNCHANGED <<vars, fault, tasks, srv, head>>
  /\ seen'.requested = seen.requested /\ seen'.noSpace = seen.noSpace
  /\ seen'.error = seen.error
  /\ n \in Moves => /\ seen'.states = seen.states \cup {n} /\ seen'.lastState = n
                    /\ seen'.events = seen.events
                    /\ seen'.stateAtLastError = seen.stateAtLastError
  /\ n \in Events => /\ seen'.states = seen.states /\ seen'.lastState = seen.lastState
                     /\ seen'.events = seen.events \cup {n}
                     /\ seen'.stateAtLastError = seen.stateAtLastError
  /\ n = "ERROR" => /\ seen'.states = seen.states /\ seen'.lastState = seen.lastState
                    /\ seen'.events = seen.events
                    /\ seen'.stateAtLastError = seen.lastState

\* The IPC thread delivers the notification that is first.
LEMMA NotifyDoes ==
  ASSUME PlayTypes, Notify
  PROVE  /\ Delivered(notices[1])
         /\ \A m : Has(notices, m) <=> m = notices[1] \/ Has(notices', m)
         /\ \A m : Ahead(m) /\ m # "ERROR" =>
              Has(notices', m) \/ m \in seen'.states \cup seen'.events
         /\ \A m : Has(notices', m) \/ m \in seen'.states \cup seen'.events => Ahead(m)
         /\ PlayTypes'
<1> DEFINE n == Head(notices)
<1>1. /\ notices # << >> /\ cb.phase = "idle" /\ notices' = Tail(notices)
      /\ UNCHANGED <<vars, fault, tasks, srv, head>>
      /\ seen' = CASE n \in PlaybackStates -> NotifyPlaybackState(n)
                   [] n = "ERROR"          -> NotifyPlaybackError
                   [] OTHER                -> NotifyEvent(n)
  BY Zenon DEF Notify
<1>2. notices \in Seq(Notes)
  BY DEF PlayTypes
<1>3. /\ n \in Notes /\ n = notices[1] /\ notices' \in Seq(Notes)
      /\ \A m : Has(notices, m) <=> m = n \/ Has(notices', m)
  <2> HIDE DEF Notes
  <2> QED BY <1>1, <1>2, Removed
<1> HIDE DEF n
<1>4. seen \in [states : SUBSET Moves, lastState : Moves \cup {"UNKNOWN"},
               events : SUBSET Events, stateAtLastError : Moves \cup {"UNKNOWN", None},
               requested : BOOLEAN, noSpace : BOOLEAN, error : BOOLEAN]
  BY DEF PlayTypes
<1>5. CASE n \in Moves
  <2>1. seen' = [seen EXCEPT !.states = @ \cup {n}, !.lastState = n]
    BY <1>1, <1>5 DEF Moves, PlaybackStates, NotifyPlaybackState
  <2>2. n \notin Events /\ n # "ERROR"
    BY <1>5 DEF Moves, Events
  <2>3. Delivered(n)
    BY <1>1, <1>3, <1>4, <2>1, <2>2 DEF Delivered
  <2>4. PlayTypes'
    <3>1. seen.states \cup {n} \in SUBSET Moves
      BY <1>4, <1>5
    <3>2. seen' \in [states : SUBSET Moves, lastState : Moves \cup {"UNKNOWN"},
               events : SUBSET Events, stateAtLastError : Moves \cup {"UNKNOWN", None},
               requested : BOOLEAN, noSpace : BOOLEAN, error : BOOLEAN]
      BY <1>4, <1>5, <2>1, <3>1
    <3> QED BY <1>1, <1>3, <3>2 DEF PlayTypes, vars
  <2> QED BY <1>3, <1>4, <1>5, <2>1, <2>3, <2>4 DEF Delivered, Ahead, Observed, Coming
<1>6. CASE n = "ERROR"
  <2>1. seen' = [seen EXCEPT !.stateAtLastError = seen.lastState]
    BY <1>1, <1>6 DEF PlaybackStates, NotifyPlaybackError
  <2>2. n \notin Events /\ n \notin Moves
    BY <1>6 DEF Moves, Events
  <2>3. Delivered(n)
    BY <1>1, <1>3, <1>4, <1>6, <2>1, <2>2 DEF Delivered
  <2>4. PlayTypes'
    BY <1>1, <1>3, <1>4, <1>6, <2>1 DEF PlayTypes, vars
  <2> QED BY <1>3, <1>4, <1>6, <2>1, <2>3, <2>4 DEF Delivered, Ahead, Observed, Coming
<1>7. CASE n \in Events
  <2>1. seen' = [seen EXCEPT !.events = @ \cup {n}]
    BY <1>1, <1>7 DEF Events, PlaybackStates, NotifyEvent
  <2>2. n \notin Moves /\ n # "ERROR"
    BY <1>7 DEF Moves, Events
  <2>3. Delivered(n)
    BY <1>1, <1>3, <1>4, <2>1, <2>2 DEF Delivered
  <2>4. PlayTypes'
    <3>1. seen.events \cup {n} \in SUBSET Events
      BY <1>4, <1>7
    <3>2. seen' \in [states : SUBSET Moves, lastState : Moves \cup {"UNKNOWN"},
               events : SUBSET Events, stateAtLastError : Moves \cup {"UNKNOWN", None},
               requested : BOOLEAN, noSpace : BOOLEAN, error : BOOLEAN]
      BY <1>4, <1>7, <2>1, <3>1
    <3> QED BY <1>1, <1>3, <3>2 DEF PlayTypes, vars
  <2> QED BY <1>3, <1>4, <1>7, <2>1, <2>3, <2>4 DEF Delivered, Ahead, Observed, Coming
<1> QED BY <1>3, <1>5, <1>6, <1>7 DEF Notes

\* What the worker thread does with the task t.
Applied(t) ==
  /\ tasks # << >> /\ t \in Tasks /\ t = tasks[1] /\ tasks' = Tail(tasks)
  /\ UNCHANGED <<vars, fault, seen, head>>
  /\ srv'.state = srv.state /\ srv'.corrupt = srv.corrupt
  /\ t.do \in {"PLAYING", "PAUSED", "STOPPED"} =>
       /\ srv'.target = t.do /\ srv'.seeking = srv.seeking /\ srv'.property = srv.property
       /\ notices' = notices
  /\ t.do = "flush" => srv' = srv /\ Adds("FLUSHED")
  /\ t.do = "seek" =>
       /\ srv'.target = srv.target /\ srv'.seeking = TRUE /\ srv'.property = srv.property
       /\ Adds("SEEKING")
  /\ t.do = "write" =>
       /\ srv'.target = srv.target /\ srv'.seeking = srv.seeking /\ notices' = notices
       /\ fault.kind = "none" => srv'.property = t.value

\* The worker thread applies the task that is first.
LEMMA WorkDoes ==
  ASSUME PlayTypes, Conforms, Work
  PROVE  /\ Applied(tasks[1])
         /\ \A do : HasDo(tasks, do) <=> tasks[1].do = do \/ HasDo(tasks', do)
         /\ \A m : Coming(m) => Has(notices', m)
         /\ \A m : Has(notices', m) =>
              Coming(m) \/ (m = "FLUSHED" /\ tasks[1].do = "flush")
                        \/ (m = "SEEKING" /\ tasks[1].do = "seek")
         /\ PlayTypes'
<1> DEFINE t == Head(tasks)
<1>1. /\ tasks # << >> /\ tasks' = Tail(tasks)
      /\ UNCHANGED <<vars, fault, seen, head>>
      /\ \/ /\ t.do \in {"PLAYING", "PAUSED", "STOPPED"}
            /\ srv' = [srv EXCEPT !.target = t.do]
            /\ UNCHANGED <<notices, shown>>
         \/ /\ t.do = "flush"
            /\ Emit("flush", <<"FLUSHED">>)
            /\ UNCHANGED srv
         \/ /\ t.do = "seek"
            /\ srv' = [srv EXCEPT !.seeking = TRUE]
            /\ Emit("seek", <<"SEEKING">>)
         \/ /\ t.do = "write"
            /\ srv' = [srv EXCEPT !.property =
                         IF fault.kind \in {"ignores", "lacks"} THEN @ ELSE t.value]
            /\ UNCHANGED notices
  BY Zenon DEF Work
<1>2. /\ tasks \in Seq(Tasks) /\ notices \in Seq(Notes)
      /\ srv \in [state : {"IDLE", "PAUSED", "PLAYING", "END_OF_STREAM", "STOPPED"},
                  target : {"PLAYING", "PAUSED", "STOPPED"}, seeking : BOOLEAN,
                  property : BOOLEAN, corrupt : BOOLEAN, starved : BOOLEAN]
  BY DEF PlayTypes
<1>3. /\ t \in Tasks /\ t = tasks[1] /\ tasks' \in Seq(Tasks)
      /\ \A do : HasDo(tasks, do) <=> t.do = do \/ HasDo(tasks', do)
  <2>1. tasks \in Seq(Tasks) /\ tasks # << >> /\ tasks' = Tail(tasks)
    BY <1>1, <1>2
  <2> HIDE DEF Tasks
  <2> QED BY <2>1, Removed
<1> HIDE DEF t
<1>4. CASE /\ t.do \in {"PLAYING", "PAUSED", "STOPPED"}
           /\ srv' = [srv EXCEPT !.target = t.do]
           /\ UNCHANGED <<notices, shown>>
  <2>1. Applied(t)
    BY <1>1, <1>2, <1>3, <1>4 DEF Applied
  <2>2. PlayTypes'
    BY <1>1, <1>2, <1>3, <1>4 DEF PlayTypes, vars
  <2> QED BY <1>3, <1>4, <2>1, <2>2 DEF Coming
<1>5. CASE /\ t.do = "flush"
           /\ Emit("flush", <<"FLUSHED">>)
           /\ UNCHANGED srv
  <2>1. Adds("FLUSHED")
    BY <1>2, <1>5, EmitsOne DEF Adds, Notes, Events
  <2>2. Applied(t)
    BY <1>1, <1>2, <1>3, <1>5, <2>1 DEF Applied
  <2>3. notices' \in Seq(Notes) /\ \A m : Has(notices', m) <=> Coming(m) \/ m = "FLUSHED"
    BY <2>1, Noted
  <2>4. PlayTypes'
    BY <1>1, <1>2, <1>3, <1>5, <2>3 DEF PlayTypes, vars
  <2> QED BY <1>3, <1>5, <2>2, <2>3, <2>4 DEF Coming
<1>6. CASE /\ t.do = "seek"
           /\ srv' = [srv EXCEPT !.seeking = TRUE]
           /\ Emit("seek", <<"SEEKING">>)
  <2>1. Adds("SEEKING")
    BY <1>2, <1>6, EmitsOne DEF Adds, Notes, Moves
  <2>2. Applied(t)
    BY <1>1, <1>2, <1>3, <1>6, <2>1 DEF Applied
  <2>3. notices' \in Seq(Notes) /\ \A m : Has(notices', m) <=> Coming(m) \/ m = "SEEKING"
    BY <2>1, Noted
  <2>4. PlayTypes'
    BY <1>1, <1>2, <1>3, <1>6, <2>3 DEF PlayTypes, vars
  <2> QED BY <1>3, <1>6, <2>2, <2>3, <2>4 DEF Coming
<1>7. CASE /\ t.do = "write"
           /\ srv' = [srv EXCEPT !.property =
                        IF fault.kind \in {"ignores", "lacks"} THEN @ ELSE t.value]
           /\ UNCHANGED notices
  <2>1. t.value \in BOOLEAN
    BY <1>3 DEF Tasks
  <2>2. Applied(t)
    BY <1>1, <1>2, <1>3, <1>7, <2>1 DEF Applied
  <2>3. PlayTypes'
    BY <1>1, <1>2, <1>3, <1>7, <2>1 DEF PlayTypes, vars
  <2> QED BY <1>3, <1>7, <2>2, <2>3 DEF Coming
<1> QED BY <1>1, <1>4, <1>5, <1>6, <1>7

-----------------------------------------------------------------------------
(***************************************************************************)
(* The steps of the playback and of the feed.                              *)
(***************************************************************************)

\* The types of the server's playback and of the record.
SrvType == [state : {"IDLE", "PAUSED", "PLAYING", "END_OF_STREAM", "STOPPED"},
            target : {"PLAYING", "PAUSED", "STOPPED"}, seeking : BOOLEAN,
            property : BOOLEAN, corrupt : BOOLEAN, starved : BOOLEAN]
SeenType == [states : SUBSET Moves, lastState : Moves \cup {"UNKNOWN"},
             events : SUBSET Events, stateAtLastError : Moves \cup {"UNKNOWN", None},
             requested : BOOLEAN, noSpace : BOOLEAN, error : BOOLEAN]

\* PlayTypes, with the types of the records by name.
LEMMA Types ==
  PlayTypes <=> /\ seen \in SeenType /\ notices \in Seq(Notes) /\ tasks \in Seq(Tasks)
                /\ srv \in SrvType /\ head \in [Sources -> Nat \cup {None}]
BY DEF PlayTypes, SeenType, SrvType

\* The server's playback is in this state now, and is otherwise what it was.
Turned(state) ==
  /\ srv'.state = state /\ srv'.target = srv.target /\ srv'.seeking = srv.seeking
  /\ srv'.property = srv.property /\ srv'.corrupt = srv.corrupt

\* The playback moves to a state and announces it.
LEMMA BecomeDoes ==
  ASSUME PlayTypes, Conforms, NEW state \in {"PAUSED", "PLAYING", "END_OF_STREAM"}, NEW event,
         Become(state, event)
  PROVE  Turned(state) /\ Adds(state) /\ srv' \in SrvType
<1>1. /\ srv' = [srv EXCEPT !.state = state] /\ Emit(event, <<state>>)
      /\ srv \in SrvType /\ notices \in Seq(Notes) /\ state \in Notes
  BY Types DEF Become, Notes, Moves
<1>2. Turned(state) /\ srv' \in SrvType
  BY <1>1 DEF Turned, SrvType
<1>3. Adds(state)
  BY <1>1, EmitsOne DEF Adds
<1> QED BY <1>2, <1>3

\* What the server's playback does on its own.
LEMMA PlayDoes ==
  ASSUME PlayTypes, Conforms, Play(Short)
  PROVE  /\ UNCHANGED <<vars, fault, seen, tasks, head>>
         /\ \A m : Coming(m) => Has(notices', m)
         /\ PlayTypes'
         /\ \/ CanPreroll /\ Turned("PAUSED") /\ Adds("PAUSED")
            \/ CanStart /\ Turned("PLAYING") /\ Adds("PLAYING")
            \/ CanPause /\ Turned("PAUSED") /\ Adds("PAUSED")
            \/ CanStop /\ Turned("STOPPED") /\ (notices' = notices \/ Adds("STOPPED"))
            \/ /\ CanFinishSeek /\ Adds("SEEK_DONE")
               /\ srv'.state = srv.state /\ srv'.target = srv.target
               /\ srv'.property = srv.property /\ srv'.corrupt = srv.corrupt
               /\ srv'.seeking = FALSE
            \/ CanEnd(Short) /\ Turned("END_OF_STREAM") /\ Adds("END_OF_STREAM")
<1>0. /\ srv \in SrvType /\ notices \in Seq(Notes) /\ seen \in SeenType /\ tasks \in Seq(Tasks)
      /\ head \in [Sources -> Nat \cup {None}]
  BY Types
<1>1. UNCHANGED <<vars, fault, seen, tasks, head>>
  BY Zenon DEF Play
<1>2. ASSUME srv' \in SrvType, notices' = notices \/ (\E n : Adds(n))
      PROVE  PlayTypes' /\ \A m : Coming(m) => Has(notices', m)
  <2>1. notices' \in Seq(Notes) /\ \A m : Coming(m) => Has(notices', m)
    BY <1>0, <1>2, Noted DEF Coming
  <2> QED BY <1>0, <1>1, <1>2, <2>1 DEF PlayTypes, SrvType, SeenType
<1>3. CASE CanPreroll /\ Become("PAUSED", "preroll")
  BY <1>1, <1>2, <1>3, BecomeDoes
<1>4. CASE CanStart /\ Become("PLAYING", "play")
  BY <1>1, <1>2, <1>4, BecomeDoes
<1>5. CASE CanPause /\ Become("PAUSED", "pause")
  BY <1>1, <1>2, <1>5, BecomeDoes
<1>6. CASE /\ CanStop
           /\ srv' = [srv EXCEPT !.state = "STOPPED"]
           /\ \E sent \in {<< >>, <<"STOPPED">>} : Emit("stop", sent)
  <2>1. Turned("STOPPED") /\ srv' \in SrvType
    BY <1>0, <1>6 DEF Turned, SrvType
  <2>2. "STOPPED" \in Notes
    BY DEF Notes, Moves
  <2>3. notices' = notices \/ Adds("STOPPED")
    BY <1>0, <1>6, <2>2, EmitsOne, EmitsNone DEF Adds
  <2> QED BY <1>1, <1>2, <1>6, <2>1, <2>3
<1>7. CASE /\ CanFinishSeek
           /\ srv' = [srv EXCEPT !.seeking = FALSE]
           /\ Emit("seekDone", <<"SEEK_DONE">>)
  <2>1. /\ srv'.state = srv.state /\ srv'.target = srv.target
        /\ srv'.property = srv.property /\ srv'.corrupt = srv.corrupt
        /\ srv'.seeking = FALSE /\ srv' \in SrvType
    BY <1>0, <1>7 DEF SrvType
  <2>2. "SEEK_DONE" \in Notes
    BY DEF Notes, Moves
  <2>3. Adds("SEEK_DONE")
    BY <1>0, <1>7, <2>2, EmitsOne DEF Adds
  <2> QED BY <1>1, <1>2, <1>7, <2>1, <2>3
<1>8. CASE CanEnd(Short) /\ Become("END_OF_STREAM", "eos")
  BY <1>1, <1>2, <1>8, BecomeDoes
<1> QED BY <1>3, <1>4, <1>5, <1>6, <1>7, <1>8, Zenon DEF Play

\* What a step of the feed, on source s, does to the record.
Fed(s) ==
  \/ /\ DropRequest(s) \/ StarveRequest(s) \/ StartRound(s)
     /\ seen'.requested = TRUE /\ seen'.noSpace = seen.noSpace /\ seen'.error = seen.error
     /\ head' = head
  \/ AnswerStarved(s) /\ seen' = seen /\ head' = head
  \/ AcceptSegment(s) /\ seen' = seen
  \/ /\ RejectSegment(s, "NO_SPACE")
     /\ \A n \in FrameCounts : cb.accepted >= n
     /\ seen'.requested = seen.requested /\ seen'.noSpace = TRUE /\ seen'.error = seen.error
     /\ head' = head
  \/ /\ RejectSegment(s, "ERROR") /\ outstanding[s] # cb.id
     /\ seen'.requested = seen.requested /\ seen'.noSpace = seen.noSpace
     /\ head' = head
  \/ /\ CommitRound(s) \/ HaveData(s) \/ NotifyCancelNeedMediaData(s)
     /\ seen' = seen /\ head' = head

\* What any step of the feed leaves of the record and of the server.
FeedRecord ==
  /\ RecordKept /\ tasks' = tasks /\ fault' = fault /\ srv'.corrupt = srv.corrupt
  /\ \/ notices' = notices
     \/ Adds("UNDERFLOW")
     \/ srv.corrupt /\ Adds("ERROR")
  /\ PlayTypes'

\* A step of the feed is one of those, and the server notifies no state at it.
LEMMA FeedDoes ==
  ASSUME PlayTypes, IInv, Conforms, Feed
  PROVE  FeedRecord /\ \E s \in Sources : Fed(s)
<1>0. /\ srv \in SrvType /\ notices \in Seq(Notes) /\ seen \in SeenType /\ tasks \in Seq(Tasks)
      /\ head \in [Sources -> Nat \cup {None}]
  BY Types
<1> DEFINE Same == /\ tasks' = tasks /\ fault' = fault /\ srv' \in SrvType
                   /\ srv'.state = srv.state /\ srv'.target = srv.target
                   /\ srv'.seeking = srv.seeking /\ srv'.property = srv.property
                   /\ srv'.corrupt = srv.corrupt
                   /\ seen'.states = seen.states /\ seen'.events = seen.events
                   /\ seen'.lastState = seen.lastState
                   /\ seen'.stateAtLastError = seen.stateAtLastError
                   /\ seen' \in SeenType /\ head' \in [Sources -> Nat \cup {None}]
           Told == \/ notices' = notices
                   \/ Adds("UNDERFLOW")
                   \/ srv.corrupt /\ Adds("ERROR")
<1>1. ASSUME Same, Told PROVE FeedRecord
  <2>1. /\ \A n \in Moves \cup {"FLUSHED"} : Has(notices', n) <=> Coming(n)
        /\ \A n : Coming(n) => Has(notices', n)
        /\ notices' \in Seq(Notes)
    <3>1. CASE notices' = notices
      BY <1>0, <3>1 DEF Coming
    <3>2. CASE Adds("UNDERFLOW")
      BY <3>2, Noted DEF Moves
    <3>3. CASE Adds("ERROR")
      BY <3>3, Noted DEF Moves
    <3> QED BY <1>1, <3>1, <3>2, <3>3
  <2>2. RecordKept
    BY <1>1, <2>1 DEF RecordKept
  <2>3. PlayTypes'
    BY <1>0, <1>1, <2>1 DEF PlayTypes, SrvType, SeenType
  <2> QED BY <1>1, <2>2, <2>3 DEF FeedRecord
<1>2. tasks' = tasks /\ fault' = fault
  BY Zenon DEF Feed
<1>3. "UNDERFLOW" \in Notes /\ "ERROR" \in Notes
  BY DEF Notes, Events
<1>4. srv' = srv => /\ srv' \in SrvType /\ srv'.state = srv.state /\ srv'.target = srv.target
                    /\ srv'.seeking = srv.seeking /\ srv'.property = srv.property
                    /\ srv'.corrupt = srv.corrupt
  BY <1>0
<1>5. seen' = seen => /\ seen'.states = seen.states /\ seen'.events = seen.events
                      /\ seen'.lastState = seen.lastState
                      /\ seen'.stateAtLastError = seen.stateAtLastError
                      /\ seen' \in SeenType
  BY <1>0
<1>6. PICK s \in Sources :
       \/ /\ DropRequest(s) \/ StarveRequest(s) \/ StartRound(s)
          /\ seen' = [seen EXCEPT !.requested = TRUE]
          /\ UNCHANGED <<notices, shown, head, srv>>
       \/ /\ AnswerStarved(s)
          /\ \E sent \in {<< >>, <<"UNDERFLOW">>} : Emit("starve", sent)
          /\ srv' = [srv EXCEPT !.starved = TRUE]
          /\ UNCHANGED <<seen, head>>
       \/ /\ AcceptSegment(s)
          /\ head' = [head EXCEPT ![s] = IF @ = None THEN cb.first + cb.accepted
                                                     ELSE @]
          /\ \/ UNCHANGED <<notices, shown>>
             \/ srv.corrupt /\ Emit("error", <<"ERROR">>)
          /\ UNCHANGED <<seen, srv>>
       \/ /\ RejectSegment(s, "NO_SPACE")
          /\ \A n \in FrameCounts : cb.accepted >= n
          /\ seen' = [seen EXCEPT !.noSpace = TRUE]
          /\ Emit("full", << >>)
          /\ UNCHANGED <<head, srv>>
       \/ /\ RejectSegment(s, "ERROR")
          /\ outstanding[s] # cb.id \/ fault = RejectsSegment
          /\ seen' = [seen EXCEPT !.error = TRUE]
          /\ UNCHANGED <<notices, head, srv>>
       \/ /\ CommitRound(s) \/ HaveData(s) \/ NotifyCancelNeedMediaData(s)
          /\ UNCHANGED <<seen, notices, shown, head, srv>>
  BY Zenon DEF Feed
<1>7. CASE /\ DropRequest(s) \/ StarveRequest(s) \/ StartRound(s)
           /\ seen' = [seen EXCEPT !.requested = TRUE]
           /\ UNCHANGED <<notices, shown, head, srv>>
  <2>1. /\ seen'.states = seen.states /\ seen'.events = seen.events
        /\ seen'.lastState = seen.lastState /\ seen'.stateAtLastError = seen.stateAtLastError
        /\ seen'.requested = TRUE /\ seen'.noSpace = seen.noSpace /\ seen'.error = seen.error
        /\ seen' \in SeenType
    BY <1>0, <1>7 DEF SeenType
  <2>2. Same /\ Told
    BY <1>0, <1>2, <1>4, <1>7, <2>1
  <2> HIDE DEF Same, Told
  <2> QED BY <1>1, <1>7, <2>1, <2>2 DEF Fed
<1>8. CASE /\ AnswerStarved(s)
           /\ \E sent \in {<< >>, <<"UNDERFLOW">>} : Emit("starve", sent)
           /\ srv' = [srv EXCEPT !.starved = TRUE]
           /\ UNCHANGED <<seen, head>>
  <2>1. /\ srv' \in SrvType /\ srv'.state = srv.state /\ srv'.target = srv.target
        /\ srv'.seeking = srv.seeking /\ srv'.property = srv.property
        /\ srv'.corrupt = srv.corrupt
    BY <1>0, <1>8 DEF SrvType
  <2>2. notices' = notices \/ Adds("UNDERFLOW")
    BY <1>0, <1>3, <1>8, EmitsOne, EmitsNone DEF Adds
  <2>3. Same /\ Told
    BY <1>0, <1>2, <1>5, <1>8, <2>1, <2>2
  <2> HIDE DEF Same, Told
  <2> QED BY <1>1, <1>8, <2>3 DEF Fed
<1>9. CASE /\ AcceptSegment(s)
           /\ head' = [head EXCEPT ![s] = IF @ = None THEN cb.first + cb.accepted
                                                      ELSE @]
           /\ \/ UNCHANGED <<notices, shown>>
              \/ srv.corrupt /\ Emit("error", <<"ERROR">>)
           /\ UNCHANGED <<seen, srv>>
  <2>1. cb \in Round
    BY <1>9, RoundTypes DEF IInv, AcceptSegment
  <2>2. cb.first + cb.accepted \in Nat
    BY <2>1 DEF Round
  <2>3. head' \in [Sources -> Nat \cup {None}]
    BY <1>0, <1>9, <2>2
  <2>4. notices' = notices \/ (srv.corrupt /\ Adds("ERROR"))
    BY <1>0, <1>3, <1>9, EmitsOne DEF Adds
  <2>5. Same /\ Told
    BY <1>2, <1>4, <1>5, <1>9, <2>3, <2>4
  <2> HIDE DEF Same, Told
  <2> QED BY <1>1, <1>9, <2>5 DEF Fed
<1>10. CASE /\ RejectSegment(s, "NO_SPACE")
            /\ \A n \in FrameCounts : cb.accepted >= n
            /\ seen' = [seen EXCEPT !.noSpace = TRUE]
            /\ Emit("full", << >>)
            /\ UNCHANGED <<head, srv>>
  <2>1. /\ seen'.states = seen.states /\ seen'.events = seen.events
        /\ seen'.lastState = seen.lastState /\ seen'.stateAtLastError = seen.stateAtLastError
        /\ seen'.requested = seen.requested /\ seen'.noSpace = TRUE /\ seen'.error = seen.error
        /\ seen' \in SeenType
    BY <1>0, <1>10 DEF SeenType
  <2>2. notices' = notices
    BY <1>0, <1>10, EmitsNone
  <2>3. Same /\ Told
    BY <1>0, <1>2, <1>4, <1>10, <2>1, <2>2
  <2> HIDE DEF Same, Told
  <2> QED BY <1>1, <1>10, <2>1, <2>3 DEF Fed
<1>11. CASE /\ RejectSegment(s, "ERROR")
            /\ outstanding[s] # cb.id \/ fault = RejectsSegment
            /\ seen' = [seen EXCEPT !.error = TRUE]
            /\ UNCHANGED <<notices, head, srv>>
  <2>1. /\ seen'.states = seen.states /\ seen'.events = seen.events
        /\ seen'.lastState = seen.lastState /\ seen'.stateAtLastError = seen.stateAtLastError
        /\ seen'.requested = seen.requested /\ seen'.noSpace = seen.noSpace
        /\ seen' \in SeenType
    BY <1>0, <1>11 DEF SeenType
  <2>2. outstanding[s] # cb.id
    BY <1>11, NoFault
  <2>3. Same /\ Told
    BY <1>0, <1>2, <1>4, <1>11, <2>1
  <2> HIDE DEF Same, Told
  <2> QED BY <1>1, <1>11, <2>1, <2>2, <2>3 DEF Fed
<1>12. CASE /\ CommitRound(s) \/ HaveData(s) \/ NotifyCancelNeedMediaData(s)
            /\ UNCHANGED <<seen, notices, shown, head, srv>>
  <2>1. Same /\ Told
    BY <1>0, <1>2, <1>4, <1>5, <1>12
  <2> HIDE DEF Same, Told
  <2> QED BY <1>1, <1>12, <2>1 DEF Fed
<1> HIDE DEF Same, Told
<1> QED BY <1>6, <1>7, <1>8, <1>9, <1>10, <1>11, <1>12

-----------------------------------------------------------------------------
(***************************************************************************)
(* The calls of the test thread.                                           *)
(***************************************************************************)

\* The calls the server's worker thread applies, and what each leaves it to do.
TaskOps == {"play", "pause", "stop", "property", "flush", "setPosition"}
TaskDo(op) == CASE op = "play"     -> "PLAYING"
                [] op = "pause"    -> "PAUSED"
                [] op = "stop"     -> "STOPPED"
                [] op = "property" -> "write"
                [] op = "flush"    -> "flush"
                [] OTHER           -> "seek"

\* What the feed does at a call.
FeedCall(op, value) ==
  \/ op = "setPipeline" /\ SetPipeline
  \/ op = "attachSource" /\ \E s \in Sources : AddAudioSource(s)
  \/ op = "allSourcesAttached" /\ AllSourcesAttached
  \/ op = "rewindSource" /\ \E s \in Sources : RewindSource(s)
  \/ op = "setWithhold" /\ SetWithhold(value)
  \/ op = "setStarve" /\ SetStarve(value)
  \/ op = "setOversupply" /\ SetOversupply(2)
  \/ op \in {"flush", "setPosition"} /\ \E s \in Sources : FlushSource(s)
FeedOps == {"setPipeline", "attachSource", "allSourcesAttached", "rewindSource",
            "setWithhold", "setStarve", "setOversupply", "flush", "setPosition"}

\* What a call does to the record, to the server and to the feed.
Called(op, value) ==
  /\ RecordKept /\ fault' = fault
  /\ seen'.noSpace = seen.noSpace /\ seen'.error = seen.error
  /\ IF op = "forgetRequests" THEN seen'.requested = FALSE ELSE seen'.requested = seen.requested
  /\ IF op = "setCorruptEvery" THEN srv'.corrupt = TRUE ELSE srv'.corrupt = srv.corrupt
  /\ notices' = notices \/ (op = "load" /\ Adds("BUFFERING"))
  /\ op = "load" => Adds("BUFFERING")
  /\ op \notin TaskOps => tasks' = tasks
  /\ op \in TaskOps => /\ Task(TaskDo(op), op = "property" => value) \in Tasks
                       /\ tasks' = Append(tasks, Task(TaskDo(op), op = "property" => value))
  /\ op \notin {"flush", "setPosition"} => head' = head
  /\ op \in {"flush", "setPosition"} => head' = [s \in Sources |-> None]
  /\ op \notin FeedOps => UNCHANGED vars
  /\ op \in FeedOps => FeedCall(op, value)

\* Which of these a call of the case is.
LEMMA CallDoes ==
  ASSUME PlayTypes, Conforms, NEW op, NEW value \in BOOLEAN, Perform(op, value)
  PROVE  Called(op, value) /\ PlayTypes'
<1>0. /\ srv \in SrvType /\ notices \in Seq(Notes) /\ seen \in SeenType /\ tasks \in Seq(Tasks)
      /\ head \in [Sources -> Nat \cup {None}]
  BY Types
<1> DEFINE Same == /\ notices' = notices /\ fault' = fault /\ seen' = seen /\ srv' = srv
<1>1. ASSUME Same PROVE RecordKept
  BY <1>0, <1>1 DEF RecordKept, Coming
<1>2. CASE /\ \/ op = "setPipeline" /\ SetPipeline
              \/ op = "attachSource" /\ \E s \in Sources : AddAudioSource(s)
              \/ op = "allSourcesAttached" /\ AllSourcesAttached
              \/ op = "rewindSource" /\ \E s \in Sources : RewindSource(s)
              \/ op = "setWithhold" /\ SetWithhold(value)
              \/ op = "setStarve" /\ SetStarve(value)
              \/ op = "setOversupply" /\ SetOversupply(2)
           /\ UNCHANGED playbackVars
  <2>1. /\ op \in FeedOps /\ op \notin TaskOps
        /\ op \notin {"forgetRequests", "setCorruptEvery", "load", "flush", "setPosition"}
    BY <1>2 DEF FeedOps, TaskOps
  <2>2. FeedCall(op, value)
    BY <1>2 DEF FeedCall
  <2>3. Same /\ tasks' = tasks /\ head' = head
    BY <1>2 DEF playbackVars
  <2>4. PlayTypes'
    BY <1>0, <2>3 DEF PlayTypes, SrvType, SeenType
  <2> QED BY <1>1, <2>1, <2>2, <2>3, <2>4 DEF Called
<1>3. CASE /\ op = "load"
           /\ Emit("load", <<"BUFFERING">>)
           /\ UNCHANGED <<vars, fault, seen, tasks, srv, head>>
  <2>1. "BUFFERING" \in Notes
    BY DEF Notes, Events
  <2>2. Adds("BUFFERING")
    BY <1>0, <1>3, <2>1, EmitsOne DEF Adds
  <2>3. notices' \in Seq(Notes) /\ \A m : Has(notices', m) <=> Coming(m) \/ m = "BUFFERING"
    BY <2>2, Noted
  <2>4. PlayTypes'
    BY <1>0, <1>3, <2>3 DEF PlayTypes, SrvType, SeenType
  <2>5. RecordKept
    BY <1>3, <2>3 DEF RecordKept, Moves
  <2>6. op \notin FeedOps /\ op \notin TaskOps
    BY <1>3 DEF FeedOps, TaskOps
  <2> QED BY <1>3, <2>2, <2>4, <2>5, <2>6 DEF Called
<1>4. CASE /\ \/ op = "play" /\ tasks' = Append(tasks, Task("PLAYING", TRUE))
              \/ op = "pause" /\ tasks' = Append(tasks, Task("PAUSED", TRUE))
              \/ op = "stop" /\ tasks' = Append(tasks, Task("STOPPED", TRUE))
              \/ op = "property" /\ tasks' = Append(tasks, Task("write", value))
           /\ UNCHANGED <<vars, fault, shown, seen, notices, srv, head>>
  <2>1. /\ op \notin FeedOps /\ op \in TaskOps
        /\ op \notin {"forgetRequests", "setCorruptEvery", "load", "flush", "setPosition"}
    BY <1>4 DEF FeedOps, TaskOps
  <2> DEFINE v == op = "property" => value
             t == Task(TaskDo(op), v)
  <2>2. t \in Tasks /\ tasks' = Append(tasks, t)
    <3>1. CASE op = "property"
      <4>1. v = value
        BY <3>1
      <4>2. t = Task("write", value)
        BY <3>1, <4>1 DEF TaskDo
      <4> QED BY <1>4, <3>1, <4>2 DEF Task, Tasks
    <3>2. CASE op # "property"
      <4>1. v = TRUE
        BY <3>2
      <4>2. t = Task(TaskDo(op), TRUE)
        BY <4>1
      <4> QED BY <1>4, <3>2, <4>2 DEF Task, Tasks, TaskDo
    <3> QED BY <3>1, <3>2
  <2>3. Same /\ head' = head /\ UNCHANGED vars
    BY <1>4
  <2> HIDE DEF t
  <2>4. PlayTypes'
    <3>1. tasks' \in Seq(Tasks)
      <4> HIDE DEF Tasks
      <4> QED BY <1>0, <2>2
    <3> QED BY <1>0, <2>3, <3>1 DEF PlayTypes, SrvType, SeenType
  <2> QED BY <1>1, <2>1, <2>2, <2>3, <2>4 DEF Called, t
<1>5. CASE /\ op \in {"flush", "setPosition"}
           /\ \E s \in Sources : FlushSource(s) /\ head' = [head EXCEPT ![s] = None]
           /\ tasks' = Append(tasks, Task(IF op = "flush" THEN "flush" ELSE "seek", TRUE))
           /\ UNCHANGED <<fault, shown, seen, notices, srv>>
  <2>1. /\ op \in FeedOps /\ op \in TaskOps
        /\ op \notin {"forgetRequests", "setCorruptEvery", "load"}
    BY <1>5 DEF FeedOps, TaskOps
  <2>2. FeedCall(op, value)
    BY <1>5 DEF FeedCall
  <2> DEFINE v == op = "property" => value
             t == Task(TaskDo(op), v)
  <2>3. t \in Tasks /\ tasks' = Append(tasks, t)
    <3>1. v = TRUE
      BY <1>5
    <3>2. t = Task(TaskDo(op), TRUE)
      BY <3>1
    <3> QED BY <1>5, <3>2 DEF Task, Tasks, TaskDo
  <2>4. Same
    BY <1>5
  <2>5. head' = [s \in Sources |-> None]
    BY <1>0, <1>5, OneSource
  <2> HIDE DEF t
  <2>6. PlayTypes'
    <3>1. tasks' \in Seq(Tasks)
      <4> HIDE DEF Tasks
      <4> QED BY <1>0, <2>3
    <3> QED BY <1>0, <2>4, <2>5, <3>1 DEF PlayTypes, SrvType, SeenType
  <2> QED BY <1>1, <1>5, <2>1, <2>2, <2>3, <2>4, <2>5, <2>6 DEF Called, t
<1>6. CASE /\ op = "setCorruptEvery"
           /\ srv' = [srv EXCEPT !.corrupt = TRUE]
           /\ UNCHANGED <<vars, fault, shown, seen, notices, tasks, head>>
  <2>1. op \notin FeedOps /\ op \notin TaskOps
    BY <1>6 DEF FeedOps, TaskOps
  <2>2. PlayTypes' /\ srv'.corrupt = TRUE
    BY <1>0, <1>6 DEF PlayTypes, SrvType, SeenType
  <2>3. RecordKept
    BY <1>0, <1>6 DEF RecordKept, Coming, SrvType
  <2> QED BY <1>6, <2>1, <2>2, <2>3 DEF Called
<1>7. CASE /\ op = "forgetRequests"
           /\ seen' = [seen EXCEPT !.requested = FALSE]
           /\ UNCHANGED <<vars, fault, shown, notices, tasks, srv, head>>
  <2>1. op \notin FeedOps /\ op \notin TaskOps
    BY <1>7 DEF FeedOps, TaskOps
  <2>2. /\ PlayTypes' /\ seen'.requested = FALSE
        /\ seen'.noSpace = seen.noSpace /\ seen'.error = seen.error
    BY <1>0, <1>7 DEF PlayTypes, SrvType, SeenType
  <2>3. RecordKept
    BY <1>0, <1>7 DEF RecordKept, Coming, SeenType
  <2> QED BY <1>7, <2>1, <2>2, <2>3 DEF Called
<1>8. CASE /\ op \in {"setVideoWindow", "setSourcePosition", "processAudioGap", "renderFrame",
                      "setLowLatency", "setSyncOff", "switchSource", "setPlaybackRate",
                      "setStartPosition"}
           /\ UNCHANGED <<vars, playbackVars>>
  <2>1. /\ op \notin FeedOps /\ op \notin TaskOps
        /\ op \notin {"forgetRequests", "setCorruptEvery", "load", "flush", "setPosition"}
    BY <1>8 DEF FeedOps, TaskOps
  <2>2. Same /\ tasks' = tasks /\ head' = head /\ UNCHANGED vars
    BY <1>8 DEF playbackVars
  <2>3. PlayTypes'
    BY <1>0, <2>2 DEF PlayTypes, SrvType, SeenType
  <2> QED BY <1>1, <2>1, <2>2, <2>3 DEF Called
<1> QED BY <1>2, <1>3, <1>4, <1>5, <1>6, <1>7, <1>8 DEF Perform

-----------------------------------------------------------------------------
(***************************************************************************)
(* The record, as each thread runs.                                        *)
(***************************************************************************)

\* What a step of a case is, against a server that conforms.
TestDoes ==
  /\ WalkInv /\ Advance /\ Waited /\ Kinds(case, pc, Now)
  /\ Len(Script) \in Nat /\ pc \in 1 .. Len(Script)
  /\ \/ Quiet /\ Now.do \notin {"call", "write"}
     \/ Now.do \in {"call", "write"} /\ Called(Now.what, Now.value)
  /\ fault' = fault /\ PlayTypes'

\* Every step of the test thread against a server that conforms is one.
LEMMA TestSteps ==
  ASSUME WalkInv, FeedInv, PlayInvariant, Conforms, TestCase
  PROVE  TestDoes
<1>1. ~Finished
  BY DEF TestCase
<1>2. /\ Len(Script) \in Nat /\ pc \in 1 .. Len(Script) /\ Kinds(case, pc, Now)
      /\ Now.value \in BOOLEAN
  BY <1>1, AtStep DEF Kinds
<1>3. /\ Advance /\ Waited
      /\ \/ Quiet /\ Now.do \notin {"call", "write"}
         \/ Now.do \in {"call", "write"} /\ Perform(Now.what, Now.value)
  BY TestStep
<1>4. PlayTypes
  BY DEF PlayInvariant
<1>5. CASE Quiet /\ Now.do \notin {"call", "write"}
  <2>1. PlayTypes' /\ fault' = fault
    BY <1>4, <1>5 DEF Quiet, PlayTypes, vars
  <2> QED BY <1>2, <1>3, <1>5, <2>1 DEF TestDoes
<1>6. CASE Now.do \in {"call", "write"} /\ Perform(Now.what, Now.value)
  <2>1. Called(Now.what, Now.value) /\ PlayTypes'
    BY <1>2, <1>4, <1>6, CallDoes
  <2>2. fault' = fault
    BY <2>1 DEF Called
  <2> QED BY <1>2, <1>3, <1>6, <2>1, <2>2 DEF TestDoes
<1> QED BY <1>3, <1>5, <1>6

\* The steps of the others leave the case where it is.
Stays == case' = case /\ pc' = pc /\ failed' = failed /\ Script' = Script

\* It makes none while another thread runs.
LEMMA ServerStays ==
  ASSUME UNCHANGED <<case, pc, failed>>
  PROVE  Stays
  BY DEF Stays, Script

\* What is recorded, or on its way, stays ahead, and the server's playback is what it was.
AheadKept ==
  /\ \A n \in Moves \cup {"FLUSHED"} : Ahead(n)' <=> Ahead(n)
  /\ \A n : Observed(n) => Observed(n)'
  /\ srv'.state = srv.state /\ srv'.target = srv.target
  /\ srv'.seeking = srv.seeking /\ srv'.property = srv.property

\* Nothing is taken back, or announced, when the record is kept.
LEMMA KeptAhead ==
  ASSUME RecordKept
  PROVE  AheadKept
<1>1. \A n : Observed(n)' <=> Observed(n)
  BY DEF RecordKept, Observed
<1>2. \A n \in Moves \cup {"FLUSHED"} : Coming(n)' <=> Coming(n)
  BY DEF RecordKept, Coming
<1> QED BY <1>1, <1>2 DEF RecordKept, AheadKept, Ahead

\* Nor when a notification is delivered: it was ahead, and is observed.
LEMMA NotifyKeepsAhead ==
  ASSUME PlayTypes, Notify
  PROVE  AheadKept /\ tasks' = tasks /\ fault' = fault
<1>1. /\ Delivered(notices[1])
      /\ \A m : Ahead(m) /\ m # "ERROR" =>
           Has(notices', m) \/ m \in seen'.states \cup seen'.events
      /\ \A m : Has(notices', m) \/ m \in seen'.states \cup seen'.events => Ahead(m)
  BY NotifyDoes
<1>2. \A n \in Moves \cup {"FLUSHED"} : Ahead(n)' <=> Ahead(n)
  BY <1>1 DEF Moves, Ahead, Coming, Observed
<1>3. \A n : Observed(n) => Observed(n)'
  BY <1>1 DEF Delivered, Observed, Notes
<1> QED BY <1>1, <1>2, <1>3 DEF AheadKept, Delivered

\* A step that leaves all alone but the case keeps the record.
LEMMA QuietKept ==
  ASSUME Quiet
  PROVE  RecordKept /\ UNCHANGED vars /\ head' = head /\ tasks' = tasks /\ notices' = notices
         /\ seen' = seen /\ srv' = srv
  BY DEF Quiet, RecordKept, Coming

\* A step of a case adds at most what a call leaves the worker thread to do.
LEMMA TestRecord ==
  ASSUME TestDoes
  PROVE  /\ RecordKept /\ AheadKept
         /\ \/ /\ tasks' = tasks
               /\ Now.do = "call" => Now.what \notin TaskOps
               /\ Now.do # "write"
            \/ /\ Now.do \in {"call", "write"} /\ Now.what \in TaskOps
               /\ Task(TaskDo(Now.what), Now.what = "property" => Now.value) \in Tasks
               /\ tasks' = Append(tasks, Task(TaskDo(Now.what),
                                              Now.what = "property" => Now.value))
<1>1. CASE Quiet /\ Now.do \notin {"call", "write"}
  BY <1>1, QuietKept, KeptAhead
<1>2. CASE Now.do \in {"call", "write"} /\ Called(Now.what, Now.value)
  <2>1. RecordKept
    BY <1>2 DEF Called
  <2>2. Now.do = "write" => Now.what = "property"
    BY DEF TestDoes, Kinds
  <2>3. "property" \in TaskOps
    BY DEF TaskOps
  <2> QED BY <1>2, <2>1, <2>2, <2>3, KeptAhead DEF Called
<1> QED BY <1>1, <1>2 DEF TestDoes

\* What the worker thread has to do after it.
LEMMA TestTasks ==
  ASSUME TestDoes, PlayTypes
  PROVE  \A do : Due(do)' <=> \/ Due(do)
                              \/ /\ Now.do \in {"call", "write"} /\ Now.what \in TaskOps
                                 /\ TaskDo(Now.what) = do
<1>1. CASE /\ tasks' = tasks
           /\ Now.do = "call" => Now.what \notin TaskOps
           /\ Now.do # "write"
  BY <1>1 DEF Due, HasDo
<1>2. CASE /\ Now.do \in {"call", "write"} /\ Now.what \in TaskOps
           /\ Task(TaskDo(Now.what), Now.what = "property" => Now.value) \in Tasks
           /\ tasks' = Append(tasks, Task(TaskDo(Now.what),
                                          Now.what = "property" => Now.value))
  <2> DEFINE t == Task(TaskDo(Now.what), Now.what = "property" => Now.value)
  <2>1. t \in Tasks /\ tasks' = Append(tasks, t) /\ t.do = TaskDo(Now.what)
    BY <1>2 DEF Task
  <2>2. tasks \in Seq(Tasks)
    BY DEF PlayTypes
  <2> HIDE DEF t
  <2>3. \A do : HasDo(tasks', do) <=> HasDo(tasks, do) \/ t.do = do
    <3> HIDE DEF Tasks
    <3> QED BY <2>1, <2>2, Added
  <2> QED BY <1>2, <2>1, <2>3 DEF Due
<1> QED BY <1>1, <1>2, TestRecord

-----------------------------------------------------------------------------
(***************************************************************************)
(* What the playback has announced: StateInv.                              *)
(***************************************************************************)

\* A notification more is ahead.
LEMMA AheadAdds ==
  ASSUME PlayTypes, seen' = seen, NEW n, Adds(n)
  PROVE  /\ \A m : Ahead(m)' <=> Ahead(m) \/ m = n
         /\ \A m : Observed(m)' <=> Observed(m)
<1>1. \A m : Has(notices', m) <=> Coming(m) \/ m = n
  BY Noted
<1> QED BY <1>1 DEF Ahead, Coming, Observed

\* Nor is anything more ahead when nothing is added.
LEMMA AheadSame ==
  ASSUME seen' = seen, notices' = notices
  PROVE  /\ \A m : Ahead(m)' <=> Ahead(m)
         /\ \A m : Observed(m)' <=> Observed(m)
  BY DEF Ahead, Coming, Observed

\* What a task of the worker thread does to what is ahead.
LEMMA WorkAhead ==
  ASSUME PlayTypes, Conforms, Work
  PROVE  /\ Applied(tasks[1]) /\ seen' = seen
         /\ tasks[1].do \notin {"flush", "seek"} => \A m : Ahead(m)' <=> Ahead(m)
         /\ tasks[1].do = "flush" => \A m : Ahead(m)' <=> Ahead(m) \/ m = "FLUSHED"
         /\ tasks[1].do = "seek" => \A m : Ahead(m)' <=> Ahead(m) \/ m = "SEEKING"
         /\ \A m : Observed(m)' <=> Observed(m)
<1>1. Applied(tasks[1]) /\ seen' = seen
  BY WorkDoes DEF Applied
<1>2. CASE tasks[1].do = "flush"
  BY <1>1, <1>2, AheadAdds DEF Applied
<1>3. CASE tasks[1].do = "seek"
  BY <1>1, <1>3, AheadAdds DEF Applied
<1>4. CASE tasks[1].do \notin {"flush", "seek"}
  <2>1. tasks[1].do \in {"PLAYING", "PAUSED", "STOPPED", "write"}
    BY <1>1, <1>4 DEF Applied, Tasks
  <2>2. notices' = notices
    BY <1>1, <2>1 DEF Applied
  <2> QED BY <1>1, <1>4, <2>2, AheadSame
<1> QED BY <1>1, <1>2, <1>3, <1>4

\* What the server's playback does to what is ahead: it announces the state it moves to.
Goes(state, n) == Turned(state) /\ \A m : Ahead(m)' <=> Ahead(m) \/ m = n
\* What each of its steps announces.
LEMMA PlayAhead ==
  ASSUME PlayTypes, Conforms, Play(Short)
  PROVE  /\ UNCHANGED <<vars, fault, seen, tasks, head>>
         /\ \A m : Observed(m)' <=> Observed(m)
         /\ \/ CanPreroll /\ Goes("PAUSED", "PAUSED")
            \/ CanStart /\ Goes("PLAYING", "PLAYING")
            \/ CanPause /\ Goes("PAUSED", "PAUSED")
            \/ /\ CanStop /\ Turned("STOPPED")
               /\ \A m : Ahead(m)' <=> Ahead(m) \/ (m = "STOPPED" /\ Ahead(m)')
            \/ /\ CanFinishSeek /\ \A m : Ahead(m)' <=> Ahead(m) \/ m = "SEEK_DONE"
               /\ srv'.state = srv.state /\ srv'.target = srv.target
               /\ srv'.property = srv.property /\ srv'.corrupt = srv.corrupt
               /\ srv'.seeking = FALSE
            \/ CanEnd(Short) /\ Goes("END_OF_STREAM", "END_OF_STREAM")
<1>1. UNCHANGED <<vars, fault, seen, tasks, head>>
  BY PlayDoes
<1>2. CASE CanPreroll /\ Turned("PAUSED") /\ Adds("PAUSED")
  BY <1>1, <1>2, AheadAdds DEF Goes
<1>3. CASE CanStart /\ Turned("PLAYING") /\ Adds("PLAYING")
  BY <1>1, <1>3, AheadAdds DEF Goes
<1>4. CASE CanPause /\ Turned("PAUSED") /\ Adds("PAUSED")
  BY <1>1, <1>4, AheadAdds DEF Goes
<1>5. CASE CanStop /\ Turned("STOPPED") /\ (notices' = notices \/ Adds("STOPPED"))
  BY <1>1, <1>5, AheadAdds, AheadSame
<1>6. CASE /\ CanFinishSeek /\ Adds("SEEK_DONE")
           /\ srv'.state = srv.state /\ srv'.target = srv.target
           /\ srv'.property = srv.property /\ srv'.corrupt = srv.corrupt
           /\ srv'.seeking = FALSE
  BY <1>1, <1>6, AheadAdds
<1>7. CASE CanEnd(Short) /\ Turned("END_OF_STREAM") /\ Adds("END_OF_STREAM")
  BY <1>1, <1>7, AheadAdds DEF Goes
<1> QED BY <1>2, <1>3, <1>4, <1>5, <1>6, <1>7, PlayDoes

\* StateInv, where nothing is announced.
LEMMA StateStays ==
  ASSUME StateInv, AheadKept, Stays
  PROVE  StateInv'
<1>1. ReachedAt' = ReachedAt
  BY DEF Stays, ReachedAt
<1> QED BY <1>1 DEF StateInv, AheadKept, Stays, Moves

\* StateInv, as the worker thread runs.
LEMMA StateWork ==
  ASSUME PlayTypes, Conforms, StateInv, Work, Stays
  PROVE  StateInv'
<1>1. ReachedAt' = ReachedAt
  BY DEF Stays, ReachedAt
<1>2. /\ Ahead("PAUSED")' <=> Ahead("PAUSED")
      /\ Ahead("PLAYING")' <=> Ahead("PLAYING")
      /\ Ahead("END_OF_STREAM")' <=> Ahead("END_OF_STREAM")
      /\ Observed("PLAYING")' <=> Observed("PLAYING")
      /\ srv'.state = srv.state
  BY WorkAhead DEF Applied
<1> QED BY <1>1, <1>2 DEF StateInv, Stays

\* StateInv, as the playback moves.
LEMMA StatePlay ==
  ASSUME PlayTypes, Conforms, StateInv, Play(Short), Stays
  PROVE  StateInv'
<1>1. ReachedAt' = ReachedAt
  BY DEF Stays, ReachedAt
<1>2. \A m : Observed(m)' <=> Observed(m)
  BY PlayAhead
<1>3. CASE CanPreroll /\ Goes("PAUSED", "PAUSED")
  BY <1>1, <1>2, <1>3 DEF StateInv, Stays, Goes, Turned
<1>4. CASE CanStart /\ Goes("PLAYING", "PLAYING")
  BY <1>1, <1>2, <1>4 DEF StateInv, Stays, Goes, Turned, CanStart
<1>5. CASE CanPause /\ Goes("PAUSED", "PAUSED")
  BY <1>1, <1>2, <1>5 DEF StateInv, Stays, Goes, Turned
<1>6. CASE /\ CanStop /\ Turned("STOPPED")
           /\ \A m : Ahead(m)' <=> Ahead(m) \/ (m = "STOPPED" /\ Ahead(m)')
  BY <1>1, <1>2, <1>6 DEF StateInv, Stays, Turned
<1>7. CASE /\ CanFinishSeek /\ \A m : Ahead(m)' <=> Ahead(m) \/ m = "SEEK_DONE"
           /\ srv'.state = srv.state
  BY <1>1, <1>2, <1>7 DEF StateInv, Stays
<1>8. CASE CanEnd(Short) /\ Goes("END_OF_STREAM", "END_OF_STREAM")
  BY <1>1, <1>2, <1>8 DEF StateInv, Stays, Goes, Turned, CanEnd
<1> QED BY <1>3, <1>4, <1>5, <1>6, <1>7, <1>8, PlayAhead

\* StateInv, as the case takes a step.
LEMMA StateTest ==
  ASSUME StateInv, TestDoes
  PROVE  StateInv'
<1>1. /\ ReachedAt' = ReachedAt /\ ReachedAt \in Nat /\ pc \in Nat /\ pc' = pc + 1
      /\ case' = case
  BY DEF TestDoes, Advance, ReachedAt, ReachAt
<1>2. AheadKept
  BY TestRecord
<1>3. ASSUME pc' > ReachedAt, case # Unplayed
      PROVE  Observed("PLAYING")
  <2>1. CASE pc > ReachedAt
    BY <1>3, <2>1 DEF StateInv
  <2>2. CASE pc = ReachedAt
    <3>1. Now = Reach("PLAYING")
      BY <2>2 DEF TestDoes, Kinds, ReachedAt
    <3> QED BY <3>1 DEF TestDoes, Waited, Reach, Step
  <2> QED BY <1>1, <1>3, <2>1, <2>2
<1> QED BY <1>1, <1>2, <1>3 DEF StateInv, AheadKept, Moves

-----------------------------------------------------------------------------
(***************************************************************************)
(* Where the playback is sent: PlayInv, FlushInv and SeekInv.              *)
(***************************************************************************)

\* What some cases do at a place of their scripts.
LEMMA FlushingPlaces ==
  ASSUME case = Flushing, pc = 7
  PROVE  Now.do = "call" /\ Now.what = "flush"
<1>1. Now = Call("flush")
  BY ScriptFlushEmitsSourceFlushed DEF Now, Script, Flushing
<1> QED BY <1>1 DEF Call, Step

\* Where the case that seeks rewinds, seeks and waits.
LEMMA SeekingPlaces ==
  ASSUME case = Seeking
  PROVE  /\ pc = 8 => Now.do = "call" /\ Now.what = "rewindSource"
         /\ pc = 9 => Now.do = "call" /\ Now.what = "setPosition"
         /\ pc \in {10, 11} => Now.do = "await"
<1>1. /\ pc = 8 => Now = Plain("rewindSource")
      /\ pc = 9 => Now = Call("setPosition")
      /\ pc = 10 => Now = Await("SEEKING")
      /\ pc = 11 => Now = Await("SEEK_DONE")
  BY ScriptSetPositionSetsStartThenSeeksWhilePlaying DEF Now, Script, Seeking
<1> QED BY <1>1 DEF Call, Plain, Await, Step

\* What the case has called stays called while it makes no step.
LEMMA StaysStopping ==
  ASSUME Stays
  PROVE  /\ Stopping' <=> Stopping
         /\ Pausing' <=> Pausing
         /\ ReachedAt' = ReachedAt
  BY DEF Stays, Stopping, Pausing, Finished, Over, ReachedAt

\* PlayInv, where no task is applied and nothing is announced.
LEMMA PlayStays ==
  ASSUME PlayInv, AheadKept, tasks' = tasks, Stays
  PROVE  PlayInv'
<1>1. \A do : Due(do)' <=> Due(do)
  BY DEF Due
<1>2. Ahead("PLAYING")' <=> Ahead("PLAYING")
  BY DEF AheadKept, Moves
<1>3. pc' = pc /\ srv'.state = srv.state /\ srv'.target = srv.target
  BY DEF Stays, AheadKept
<1> QED BY <1>1, <1>2, <1>3, StaysStopping DEF PlayInv

\* The tasks due before and after one is applied.
LEMMA WorkDue ==
  ASSUME PlayTypes, Conforms, Work
  PROVE  \A do : Due(do) <=> tasks[1].do = do \/ Due(do)'
  BY WorkDoes DEF Due

\* PlayInv, as the worker thread sets the target.
LEMMA PlayWork ==
  ASSUME PlayTypes, Conforms, PlayInv, Work, Stays
  PROVE  PlayInv'
<1>1. \A do : Due(do) <=> tasks[1].do = do \/ Due(do)'
  BY WorkDue
<1>2. /\ Ahead("PLAYING")' <=> Ahead("PLAYING")
      /\ srv'.state = srv.state /\ Applied(tasks[1])
  BY WorkAhead DEF Applied
<1>3. CASE tasks[1].do \in {"PLAYING", "PAUSED", "STOPPED"}
  <2>1. srv'.target = tasks[1].do
    BY <1>2, <1>3 DEF Applied
  <2>2. CASE tasks[1].do = "PLAYING"
    BY <1>1, <1>2, <2>1, <2>2, StaysStopping DEF PlayInv, Stays
  <2>3. CASE tasks[1].do = "PAUSED"
    BY <1>1, <1>2, <2>1, <2>3, StaysStopping DEF PlayInv, Stays
  <2>4. CASE tasks[1].do = "STOPPED"
    BY <1>1, <1>2, <2>1, <2>4, StaysStopping DEF PlayInv, Pausing, Stays
  <2> QED BY <1>3, <2>2, <2>3, <2>4
<1>4. CASE tasks[1].do \notin {"PLAYING", "PAUSED", "STOPPED"}
  <2>1. tasks[1].do \in {"flush", "seek", "write"}
    BY <1>2, <1>4 DEF Applied, Tasks
  <2>2. srv'.target = srv.target
    BY <1>2, <2>1 DEF Applied
  <2> QED BY <1>1, <1>2, <2>1, <2>2, StaysStopping DEF PlayInv, Stays
<1> QED BY <1>3, <1>4

\* PlayInv, as the playback moves.
LEMMA PlayPlay ==
  ASSUME PlayTypes, Conforms, PlayInv, StateInv, Play(Short), Stays
  PROVE  PlayInv'
<1>1. tasks' = tasks /\ pc' = pc
  BY PlayAhead DEF Stays
<1>2. \A do : Due(do)' <=> Due(do)
  BY <1>1 DEF Due
<1>3. CASE CanPreroll /\ Goes("PAUSED", "PAUSED")
  BY <1>1, <1>2, <1>3, StaysStopping DEF PlayInv, StateInv, CanPreroll, Goes, Turned
<1>4. CASE CanStart /\ Goes("PLAYING", "PLAYING")
  BY <1>1, <1>2, <1>4, StaysStopping DEF PlayInv, CanStart, Goes, Turned
<1>5. CASE CanPause /\ Goes("PAUSED", "PAUSED")
  BY <1>1, <1>2, <1>5, StaysStopping DEF PlayInv, CanPause, Goes, Turned
<1>6. CASE CanStop /\ Turned("STOPPED")
  <2>1. Stopping
    BY <1>6 DEF CanStop, PlayInv
  <2> QED BY <2>1, StaysStopping DEF PlayInv, Pausing
<1>7. CASE /\ CanFinishSeek /\ \A m : Ahead(m)' <=> Ahead(m) \/ m = "SEEK_DONE"
           /\ srv'.state = srv.state /\ srv'.target = srv.target
  BY <1>1, <1>2, <1>7, StaysStopping DEF PlayInv
<1>8. CASE CanEnd(Short) /\ Goes("END_OF_STREAM", "END_OF_STREAM")
  BY <1>1, <1>2, <1>8, StaysStopping DEF PlayInv, CanEnd, Goes, Turned
<1> QED BY <1>3, <1>4, <1>5, <1>6, <1>7, <1>8, PlayAhead

\* PlayInv, as the case plays, pauses or stops.
LEMMA PlayTest ==
  ASSUME PlayTypes, PlayInv, TestDoes
  PROVE  PlayInv'
<1>1. /\ ReachedAt' = ReachedAt /\ ReachedAt \in Nat \ {0} /\ pc \in Nat /\ pc' = pc + 1
      /\ case' = case /\ Script' = Script /\ Len(Script) \in Nat /\ pc <= Len(Script)
  BY DEF TestDoes, Advance, ReachedAt, ReachAt
<1>2. AheadKept
  BY TestRecord
<1>3. \A do : Due(do)' <=> \/ Due(do)
                           \/ /\ Now.do \in {"call", "write"} /\ Now.what \in TaskOps
                              /\ TaskDo(Now.what) = do
  BY TestTasks
<1>4. Kinds(case, pc, Now)
  BY DEF TestDoes
<1>5. Finished' <=> pc + 1 > Len(Script)
  BY <1>1 DEF Finished, Over
<1>6. (Stopping => Stopping') /\ (Pausing => Pausing')
  BY <1>1, <1>5 DEF Stopping, Pausing, Finished, Over
<1>7. Now.do \in {"call", "write"} /\ Now.what \in TaskOps =>
        /\ TaskDo(Now.what) = "STOPPED" => Now.do = "call" /\ Now.what = "stop"
        /\ TaskDo(Now.what) = "PAUSED" => Now.do = "call" /\ Now.what = "pause"
  BY <1>4 DEF TaskDo, TaskOps, Kinds
<1>8. Now.do = "call" /\ Now.what = "stop" => Stopping'
  BY <1>1, <1>4, <1>5 DEF Kinds, CallKinds, Stopping, Script
<1>9. Now.do = "call" /\ Now.what = "pause" => Pausing'
  BY <1>1, <1>4 DEF Kinds, CallKinds, Pausing
<1>10. ~Stopping' => srv'.state # "STOPPED" /\ srv'.target # "STOPPED" /\ ~Due("STOPPED")'
  BY <1>2, <1>3, <1>6, <1>7, <1>8 DEF PlayInv, AheadKept
<1>11. ASSUME ~Pausing'
       PROVE  /\ ~Due("PAUSED")'
              /\ pc' >= ReachedAt' => srv'.target = "PLAYING" \/ Due("PLAYING")'
              /\ srv'.state \in {"PLAYING", "END_OF_STREAM"} => srv'.target = "PLAYING"
              /\ Ahead("PLAYING")' => srv'.state \in {"PLAYING", "END_OF_STREAM"}
  <2>1. ~Due("PAUSED")'
    BY <1>3, <1>6, <1>7, <1>9, <1>11 DEF PlayInv
  <2>2. ASSUME pc' >= ReachedAt' PROVE srv'.target = "PLAYING" \/ Due("PLAYING")'
    <3>1. CASE pc >= ReachedAt
      BY <1>2, <1>3, <1>6, <1>11, <3>1 DEF PlayInv, AheadKept
    <3>2. CASE pc = ReachedAt - 1
      <4>1. Now.do = "call" /\ Now.what = "play"
        BY <1>4, <3>2 DEF Kinds, CallKinds, ReachedAt
      <4>2. Now.what \in TaskOps /\ TaskDo(Now.what) = "PLAYING"
        BY <4>1 DEF TaskOps, TaskDo
      <4> QED BY <1>3, <4>1, <4>2
    <3> QED BY <1>1, <2>2, <3>1, <3>2
  <2>3. Ahead("PLAYING")' <=> Ahead("PLAYING")
    BY <1>2 DEF AheadKept, Moves
  <2> QED BY <1>2, <1>6, <1>11, <2>1, <2>2, <2>3 DEF PlayInv, AheadKept
<1> QED BY <1>10, <1>11 DEF PlayInv

\* FlushInv, where no task is applied and nothing is announced.
LEMMA FlushStays ==
  ASSUME FlushInv, AheadKept, tasks' = tasks, Stays
  PROVE  FlushInv'
  BY DEF FlushInv, AheadKept, Stays, Due

\* FlushInv, as the flush is applied.
LEMMA FlushWork ==
  ASSUME PlayTypes, Conforms, FlushInv, Work, Stays
  PROVE  FlushInv'
<1>1. \A do : Due(do) <=> tasks[1].do = do \/ Due(do)'
  BY WorkDue
<1>2. \A m : Ahead(m) => Ahead(m)'
  BY WorkAhead
<1>3. tasks[1].do = "flush" => Ahead("FLUSHED")'
  BY WorkAhead
<1> QED BY <1>1, <1>2, <1>3 DEF FlushInv, Stays

\* FlushInv, as the playback moves.
LEMMA FlushPlay ==
  ASSUME PlayTypes, Conforms, FlushInv, Play(Short), Stays
  PROVE  FlushInv'
<1>1. tasks' = tasks
  BY PlayAhead
<1>2. \A m : Ahead(m) => Ahead(m)'
  BY PlayAhead DEF Goes
<1> QED BY <1>1, <1>2 DEF FlushInv, Stays, Due

\* FlushInv, as the case flushes.
LEMMA FlushTest ==
  ASSUME PlayTypes, TestDoes
  PROVE  FlushInv'
<1> SUFFICES ASSUME case = Flushing, pc = 7 PROVE Due("flush")'
  BY DEF FlushInv, TestDoes, Advance
<1>1. Now.do = "call" /\ Now.what = "flush"
  BY FlushingPlaces
<1> QED BY <1>1, TestTasks DEF TaskOps, TaskDo

\* SeekInv, where no task is applied and nothing is announced.
LEMMA SeekStays ==
  ASSUME SeekInv, AheadKept, tasks' = tasks, Stays
  PROVE  SeekInv'
  BY DEF SeekInv, AheadKept, Stays, Due, Moves

\* SeekInv, as the seek is applied.
LEMMA SeekWork ==
  ASSUME PlayTypes, Conforms, SeekInv, Work, Stays
  PROVE  SeekInv'
<1>1. \A do : Due(do) <=> tasks[1].do = do \/ Due(do)'
  BY WorkDue
<1>2. \A m : Ahead(m) => Ahead(m)'
  BY WorkAhead
<1>3. Applied(tasks[1])
  BY WorkAhead
<1>4. CASE tasks[1].do = "seek"
  <2>1. Ahead("SEEKING")' /\ srv'.seeking = TRUE
    BY <1>3, <1>4, WorkAhead DEF Applied
  <2> QED BY <2>1 DEF SeekInv
<1>5. CASE tasks[1].do # "seek"
  <2>1. tasks[1].do \in {"PLAYING", "PAUSED", "STOPPED", "flush", "write"}
    BY <1>3, <1>5 DEF Applied, Tasks
  <2>2. srv'.seeking = srv.seeking
    BY <1>3, <2>1 DEF Applied
  <2> QED BY <1>1, <1>2, <1>5, <2>2 DEF SeekInv, Stays
<1> QED BY <1>4, <1>5

\* SeekInv, as it finishes.
LEMMA SeekPlay ==
  ASSUME PlayTypes, Conforms, SeekInv, Play(Short), Stays
  PROVE  SeekInv'
<1>1. tasks' = tasks
  BY PlayAhead
<1>2. \A m : Ahead(m) => Ahead(m)'
  BY PlayAhead DEF Goes
<1>3. srv'.seeking = srv.seeking \/ Ahead("SEEK_DONE")'
  BY PlayAhead DEF Goes, Turned
<1> QED BY <1>1, <1>2, <1>3 DEF SeekInv, Stays, Due

\* SeekInv, as the case seeks.
LEMMA SeekTest ==
  ASSUME PlayTypes, SeekInv, TestDoes
  PROVE  SeekInv'
<1> SUFFICES ASSUME case = Seeking, pc' \in {10, 11}
             PROVE  \/ Due("seek")'
                    \/ Ahead("SEEKING")' /\ (srv'.seeking \/ Ahead("SEEK_DONE")')
  BY DEF SeekInv, TestDoes, Advance
<1>0. pc = 9 \/ pc = 10
  BY DEF TestDoes, Advance
<1>1. CASE pc = 9
  <2>1. Now.do = "call" /\ Now.what = "setPosition"
    BY <1>1, SeekingPlaces
  <2> QED BY <2>1, TestTasks DEF TaskOps, TaskDo
<1>2. CASE pc = 10
  <2>1. AheadKept /\ (Due("seek") => Due("seek")')
    BY TestRecord, TestTasks
  <2> QED BY <1>2, <2>1 DEF SeekInv, AheadKept, Moves
<1> QED BY <1>0, <1>1, <1>2

-----------------------------------------------------------------------------
(***************************************************************************)
(* What a case has set up: BringUpInv.                                     *)
(***************************************************************************)

\* What a call does to the feed.
LEMMA FeedCalls ==
  ASSUME NEW op, NEW value, op \notin FeedOps => UNCHANGED vars,
         op \in FeedOps => FeedCall(op, value)
  PROVE  /\ cb' = cb /\ pending' = pending /\ observations' = observations
         /\ op # "setPipeline" => pipelineSet' = pipelineSet
         /\ op = "setPipeline" => pipelineSet' = TRUE
         /\ op # "attachSource" => registered' = registered
         /\ op = "attachSource" => \E s \in Sources : registered' = registered \cup {s}
         /\ op # "allSourcesAttached" => allAttached' = allAttached
         /\ op = "allSourcesAttached" => allAttached' = TRUE
         /\ op \notin {"attachSource", "rewindSource"} => nextFrame' = nextFrame
         /\ op # "setWithhold" => withhold' = withhold
         /\ op = "setWithhold" => withhold' = value
         /\ op # "setStarve" => starve' = starve
         /\ op # "setOversupply" => oversupply' = oversupply
         /\ op \notin {"flush", "setPosition"} =>
              UNCHANGED <<queue, outstanding, ended, silent>>
         /\ op \in {"flush", "setPosition"} => \E s \in Sources : FlushSource(s)
<1>1. CASE op \notin FeedOps
  BY <1>1 DEF FeedOps, vars, binding, modes, history
<1>2. CASE op \in FeedOps
  <2>1. FeedCall(op, value)
    BY <1>2
  <2> USE DEF binding, modes, history, observations
  <2>2. CASE op = "setPipeline" /\ SetPipeline
    BY <2>2 DEF SetPipeline
  <2>3. CASE op = "attachSource" /\ \E s \in Sources : AddAudioSource(s)
    BY <2>3 DEF AddAudioSource
  <2>4. CASE op = "allSourcesAttached" /\ AllSourcesAttached
    BY <2>4 DEF AllSourcesAttached
  <2>5. CASE op = "rewindSource" /\ \E s \in Sources : RewindSource(s)
    BY <2>5 DEF RewindSource
  <2>6. CASE op = "setWithhold" /\ SetWithhold(value)
    BY <2>6 DEF SetWithhold
  <2>7. CASE op = "setStarve" /\ SetStarve(value)
    BY <2>7 DEF SetStarve
  <2>8. CASE op = "setOversupply" /\ SetOversupply(2)
    BY <2>8 DEF SetOversupply
  <2>9. CASE op \in {"flush", "setPosition"} /\ \E s \in Sources : FlushSource(s)
    BY <2>9 DEF FlushSource
  <2> QED BY <2>1, <2>2, <2>3, <2>4, <2>5, <2>6, <2>7, <2>8, <2>9 DEF FeedCall
<1> QED BY <1>1, <1>2

\* So does a call to a server that conforms.
LEMMA CallFeed ==
  ASSUME NEW op, NEW value, Called(op, value)
  PROVE  /\ cb' = cb /\ pending' = pending /\ observations' = observations
         /\ op # "setPipeline" => pipelineSet' = pipelineSet
         /\ op = "setPipeline" => pipelineSet' = TRUE
         /\ op # "attachSource" => registered' = registered
         /\ op = "attachSource" => \E s \in Sources : registered' = registered \cup {s}
         /\ op # "allSourcesAttached" => allAttached' = allAttached
         /\ op = "allSourcesAttached" => allAttached' = TRUE
         /\ op \notin {"attachSource", "rewindSource"} => nextFrame' = nextFrame
         /\ op # "setWithhold" => withhold' = withhold
         /\ op = "setWithhold" => withhold' = value
         /\ op # "setStarve" => starve' = starve
         /\ op # "setOversupply" => oversupply' = oversupply
         /\ op \notin {"flush", "setPosition"} =>
              UNCHANGED <<queue, outstanding, ended, silent>>
         /\ op \in {"flush", "setPosition"} => \E s \in Sources : FlushSource(s)
<1>1. /\ op \notin FeedOps => UNCHANGED vars
      /\ op \in FeedOps => FeedCall(op, value)
  BY DEF Called
<1> QED BY <1>1, FeedCalls, Zenon

\* What a step of the feed leaves alone, and what it needs.
LEMMA FedFeed ==
  ASSUME NEW s \in Sources, Fed(s)
  PROVE  /\ UNCHANGED <<binding, modes, silent>>
         /\ \/ queue' = queue /\ cb.phase # "idle"
            \/ queue # << >> /\ cb.phase = "idle" /\ queue' = Tail(queue)
<1> USE DEF binding, modes, history, observations
<1>1. CASE DropRequest(s) \/ StarveRequest(s) \/ StartRound(s)
  BY <1>1 DEF DropRequest, StarveRequest, StartRound, RecordRequest, Receive
<1>2. CASE AnswerStarved(s)
  BY <1>2 DEF AnswerStarved
<1>3. CASE AcceptSegment(s)
  BY <1>3 DEF AcceptSegment
<1>4. CASE RejectSegment(s, "NO_SPACE") \/ RejectSegment(s, "ERROR")
  BY <1>4 DEF RejectSegment
<1>5. CASE CommitRound(s)
  BY <1>5 DEF CommitRound
<1>6. CASE HaveData(s)
  BY <1>6 DEF HaveData
<1>7. CASE NotifyCancelNeedMediaData(s)
  BY <1>7 DEF NotifyCancelNeedMediaData, Receive
<1> QED BY <1>1, <1>2, <1>3, <1>4, <1>5, <1>6, <1>7 DEF Fed

\* A request of the server leaves the rest of the feed alone,
LEMMA RequestFeed ==
  ASSUME Request
  PROVE  /\ UNCHANGED <<binding, modes, silent>> /\ allAttached
         /\ UNCHANGED <<cb, nextFrame, pending, observations, ended>>
         /\ \E s \in Sources, n \in FrameCounts : RequestData(s, n)
  BY DEF Request, Server, RequestData, binding, modes, history

\* It leaves the record alone,
LEMMA RequestRecord ==
  ASSUME Request
  PROVE  /\ RecordKept /\ AheadKept /\ tasks' = tasks /\ fault' = fault
         /\ notices' = notices /\ seen' = seen /\ srv' = srv /\ head' = head
<1>1. UNCHANGED playbackVars
  BY DEF Request
<1>2. RecordKept
  BY <1>1 DEF playbackVars, RecordKept, Coming
<1> QED BY <1>1, <1>2, KeptAhead DEF playbackVars

\* and the types.
LEMMA RequestTypes ==
  ASSUME PlayTypes, Request
  PROVE  PlayTypes'
  BY RequestRecord DEF PlayTypes

\* The place in the script is a number.
LEMMA PcIsNat ==
  ASSUME WalkInv
  PROVE  pc \in Nat \ {0} /\ Len(Script) \in Nat
<1>1. case \in DOMAIN Suite /\ pc \in 1 .. Len(Script) + 1
  BY DEF WalkInv
<1>2. Len(Script) \in Nat
  BY <1>1, ScriptKinds DEF Script
<1> QED BY <1>1, <1>2

\* BringUpInv, where the feed is not set up and no task is applied.
LEMMA BringUpStays ==
  ASSUME BringUpInv, AheadKept, Stays, srv'.corrupt = srv.corrupt, tasks' = tasks,
         UNCHANGED <<binding, modes>>,
         ~allAttached => UNCHANGED <<queue, cb, outstanding, ended>>
  PROVE  BringUpInv'
<1>1. AttachedAt' = AttachedAt /\ ReachedAt' = ReachedAt
  BY DEF Stays, AttachedAt, ReachedAt
<1>2. Due("seek")' <=> Due("seek")
  BY DEF Due
<1> QED BY <1>1, <1>2 DEF BringUpInv, AheadKept, Stays, binding, modes

\* The worker thread and the server's playback have nothing to do before the case calls.
LEMMA WorkReached ==
  ASSUME WalkInv, BringUpInv, Work
  PROVE  pc >= ReachedAt
<1>1. tasks # << >>
  BY DEF Work
<1> QED BY <1>1, PcIsNat DEF BringUpInv, ReachedAt, ReachAt

\* The playback moves only once every source is attached.
LEMMA PlayAttached ==
  ASSUME PlayTypes, Conforms, WalkInv, BringUpInv, Play(Short)
  PROVE  allAttached
<1> SUFFICES ASSUME ~allAttached PROVE FALSE
  OBVIOUS
<1>1. pc \in Nat /\ ReachedAt \in Nat /\ ~(pc > ReachedAt - 2)
  BY PcIsNat DEF BringUpInv, ReachedAt, ReachAt
<1>2. pc < ReachedAt
  BY <1>1
<1>3. srv.state = "IDLE" /\ srv.target = "PAUSED"
  BY <1>2 DEF BringUpInv
<1>4. ~srv.seeking
  BY <1>2, PcIsNat DEF BringUpInv, ReachedAt, ReachAt, Seeking, Getters
<1> QED BY <1>3, <1>4, PlayAhead DEF CanPreroll, CanStart, CanPause, CanStop,
           CanFinishSeek, CanEnd

\* BringUpInv, as the worker thread runs.
LEMMA BringUpWork ==
  ASSUME PlayTypes, Conforms, WalkInv, BringUpInv, Work, Stays
  PROVE  BringUpInv'
<1>1. AttachedAt' = AttachedAt /\ ReachedAt' = ReachedAt
  BY DEF Stays, AttachedAt, ReachedAt
<1>2. /\ Applied(tasks[1]) /\ tasks # << >> /\ UNCHANGED vars /\ srv'.corrupt = srv.corrupt
  BY WorkAhead DEF Applied
<1>3. Due("seek")' \/ srv'.seeking => Due("seek") \/ srv.seeking
  <2>1. \A do : Due(do) <=> tasks[1].do = do \/ Due(do)'
    BY WorkDue
  <2>2. tasks[1].do # "seek" => srv'.seeking = srv.seeking
    BY <1>2 DEF Applied, Tasks
  <2> QED BY <2>1, <2>2
<1>4. pc >= ReachedAt
  BY WorkReached
<1>5. pc > ReachedAt - 2
  BY <1>4, PcIsNat DEF ReachedAt, ReachAt
<1> QED BY <1>1, <1>2, <1>3, <1>4, <1>5 DEF BringUpInv, Stays, vars, binding, modes

\* BringUpInv, as the playback moves.
LEMMA BringUpPlay ==
  ASSUME PlayTypes, Conforms, WalkInv, BringUpInv, Play(Short), Stays
  PROVE  BringUpInv'
<1>1. AttachedAt' = AttachedAt /\ ReachedAt' = ReachedAt
  BY DEF Stays, AttachedAt, ReachedAt
<1>2. /\ UNCHANGED vars /\ tasks' = tasks
      /\ srv'.corrupt = srv.corrupt /\ srv'.target = srv.target
      /\ srv'.seeking => srv.seeking
  BY PlayAhead DEF Goes, Turned
<1>3. Due("seek")' <=> Due("seek")
  BY <1>2 DEF Due
<1>4. allAttached
  BY PlayAttached
<1> QED BY <1>1, <1>2, <1>3, <1>4 DEF BringUpInv, Stays, vars, binding, modes

\* What a step of a case does to the feed: nothing, unless it is a call.
LEMMA TestFeed ==
  ASSUME PlayTypes, TestDoes
  PROVE  /\ cb' = cb /\ pending' = pending /\ observations' = observations
         /\ \/ /\ Now.do # "call"
               /\ UNCHANGED <<vars, notices, head, seen>> /\ srv'.corrupt = srv.corrupt
            \/ Now.do = "call" /\ Called(Now.what, Now.value) /\ CallKinds(case, pc, Now)
<1>1. CASE Quiet /\ Now.do \notin {"call", "write"}
  BY <1>1, QuietKept DEF vars
<1>2. CASE Now.do = "write" /\ Called(Now.what, Now.value)
  <2>1. Now.what = "property"
    BY <1>2 DEF TestDoes, Kinds
  <2>2. UNCHANGED vars
    BY <1>2, <2>1 DEF Called, FeedOps
  <2>3. notices' = notices /\ head' = head /\ srv'.corrupt = srv.corrupt
    BY <1>2, <2>1 DEF Called
  <2>4. /\ seen'.requested = seen.requested
        /\ seen'.noSpace = seen.noSpace /\ seen'.error = seen.error
        /\ seen'.states = seen.states /\ seen'.events = seen.events
        /\ seen'.lastState = seen.lastState /\ seen'.stateAtLastError = seen.stateAtLastError
    BY <1>2, <2>1 DEF Called, RecordKept
  <2>5. seen \in SeenType /\ seen' \in SeenType
    BY DEF PlayTypes, SeenType, TestDoes
  <2>6. seen' = seen
    BY <2>4, <2>5 DEF SeenType
  <2> QED BY <1>2, <2>2, <2>3, <2>6 DEF vars
<1>3. CASE Now.do = "call" /\ Called(Now.what, Now.value)
  BY <1>3, CallFeed DEF TestDoes, Kinds
<1> QED BY <1>1, <1>2, <1>3 DEF TestDoes

\* BringUpInv, as the case takes a step.
LEMMA BringUpTest ==
  ASSUME PlayTypes, FeedInv, BringUpInv, TestDoes
  PROVE  BringUpInv'
<1>1. /\ pc \in Nat /\ pc' = pc + 1 /\ case' = case /\ Script' = Script
      /\ BindAt(case) \in Nat /\ AttachedAt \in Nat /\ ReachedAt \in Nat
      /\ BindAt(case)' = BindAt(case) /\ AttachedAt' = AttachedAt /\ ReachedAt' = ReachedAt
      /\ AttachedAt <= ReachedAt - 2
  BY DEF TestDoes, Advance, ReachedAt, ReachAt, AttachedAt, AttachAt, BindAt, Getters,
         Unplayed, Seeking, Refilling
<1>2. AheadKept
  BY TestRecord
<1>3. \A do : Due(do)' <=> \/ Due(do)
                           \/ /\ Now.do \in {"call", "write"} /\ Now.what \in TaskOps
                              /\ TaskDo(Now.what) = do
  BY TestTasks
<1>4. Kinds(case, pc, Now)
  BY DEF TestDoes
<1>5. pc' < ReachedAt' => tasks' = << >> /\ srv'.target = "PAUSED"
  <2> SUFFICES ASSUME pc + 1 < ReachedAt PROVE tasks' = << >> /\ srv'.target = "PAUSED"
    BY <1>1
  <2>1. tasks = << >> /\ srv.target = "PAUSED"
    BY <1>1 DEF BringUpInv
  <2>2. Now.do # "write" /\ (Now.do = "call" => Now.what \notin TaskOps)
    BY <1>1, <1>4 DEF Kinds, CallKinds, TaskOps, ReachedAt
  <2> QED BY <1>2, <2>1, <2>2, TestRecord DEF AheadKept
<1>6. srv'.seeking \/ Due("seek")' => case' = Seeking /\ pc' > 9
  <2>1. CASE srv.seeking \/ Due("seek")
    BY <1>1, <2>1 DEF BringUpInv
  <2>2. CASE ~(srv.seeking \/ Due("seek"))
    <3>1. ~srv'.seeking
      BY <1>2, <2>2 DEF AheadKept
    <3> SUFFICES ASSUME Due("seek")' PROVE case' = Seeking /\ pc' > 9
      BY <3>1
    <3>2. Now.do \in {"call", "write"} /\ Now.what \in TaskOps /\ TaskDo(Now.what) = "seek"
      BY <1>3, <2>2
    <3>3. Now.what = "setPosition"
      BY <3>2 DEF TaskOps, TaskDo
    <3> QED BY <1>1, <1>4, <3>2, <3>3 DEF Kinds, CallKinds
  <2> QED BY <2>1, <2>2
<1>7. ASSUME ~allAttached PROVE \A n \in Moves : ~Ahead(n)'
  BY <1>2, <1>7 DEF BringUpInv, AheadKept
<1>8. srv'.state = srv.state /\ (allAttached' \/ allAttached' = allAttached)
  BY <1>2, TestFeed, CallFeed DEF AheadKept, vars, binding
<1>9. CASE /\ Now.do # "call"
           /\ UNCHANGED <<vars, notices, head, seen>> /\ srv'.corrupt = srv.corrupt
  <2>1. pc # BindAt(case) /\ pc # AttachedAt /\ pc # ReachedAt - 2
    BY <1>4, <1>9 DEF Kinds, AttachedAt, ReachedAt
  <2>2. /\ UNCHANGED <<pipelineSet, registered, allAttached, withhold, starve, oversupply,
                       queue, cb, outstanding, ended>>
    BY <1>9 DEF vars, binding, modes
  <2> QED BY <1>1, <1>5, <1>6, <1>7, <1>8, <1>9, <2>1, <2>2 DEF BringUpInv
<1>10. CASE Now.do = "call" /\ Called(Now.what, Now.value) /\ CallKinds(case, pc, Now)
  <2> DEFINE op == Now.what
  <2>0. CallKinds(case, pc, Now) /\ Called(op, Now.value)
    BY <1>10
  <2> HIDE DEF op
  <2>a. /\ cb' = cb
        /\ op # "setPipeline" => pipelineSet' = pipelineSet
        /\ op = "setPipeline" => pipelineSet' = TRUE
        /\ op # "attachSource" => registered' = registered
        /\ op = "attachSource" => \E s \in Sources : registered' = registered \cup {s}
        /\ op # "allSourcesAttached" => allAttached' = allAttached
        /\ op = "allSourcesAttached" => allAttached' = TRUE
        /\ op # "setWithhold" => withhold' = withhold
        /\ op = "setWithhold" => withhold' = Now.value
        /\ op # "setStarve" => starve' = starve
        /\ op # "setOversupply" => oversupply' = oversupply
        /\ op \notin {"flush", "setPosition"} =>
             UNCHANGED <<queue, outstanding, ended, silent>>
    BY <2>0, CallFeed, Zenon
  <2>b. /\ op = "setPipeline" <=> pc = BindAt(case)
        /\ op = "attachSource" <=> pc = AttachedAt
        /\ op = "allSourcesAttached" <=> pc = ReachedAt - 2
        /\ op = "setOversupply" => case = Refilling
        /\ op \in {"flush", "setPosition"} => pc > ReachedAt
        /\ op = "setWithhold" =>
             case = Cancelling /\ ((pc = 8 /\ Now.value = TRUE) \/ (pc = 14 /\ Now.value = FALSE))
        /\ op = "setStarve" => case = Starving /\ pc = 7
        /\ op = "setCorruptEvery" => case = Erring /\ pc = 7
    BY <2>0 DEF CallKinds, op, AttachedAt, ReachedAt
  <2>1. pc' > BindAt(case)' => pipelineSet'
    BY <1>1, <2>a, <2>b DEF BringUpInv
  <2>2. pc' > AttachedAt' => registered' = Sources
    <3>1. CASE op = "attachSource"
      BY <1>1, <2>a, <2>b, <3>1, OneSource DEF FeedInv, IInv, TypeOK
    <3>2. CASE op # "attachSource"
      BY <1>1, <2>a, <2>b, <3>2 DEF BringUpInv
    <3> QED BY <3>1, <3>2
  <2>3. allAttached' <=> pc' > ReachedAt' - 2
    BY <1>1, <2>a, <2>b DEF BringUpInv
  <2>4. /\ withhold' => case' = Cancelling /\ pc' > 8
        /\ starve' => case' = Starving /\ pc' > 7
        /\ oversupply' = 1 \/ case' = Refilling
    BY <1>1, <2>a, <2>b DEF BringUpInv
  <2>5. srv'.corrupt => case' = Erring /\ pc' > 7
    <3>1. CASE op = "setCorruptEvery"
      BY <1>1, <2>b, <3>1
    <3>2. CASE op # "setCorruptEvery"
      <4>1. srv'.corrupt = srv.corrupt
        BY <2>0, <3>2 DEF Called
      <4>2. srv.corrupt => case = Erring /\ pc > 7
        BY DEF BringUpInv
      <4> QED BY <1>1, <4>1, <4>2
    <3> QED BY <3>1, <3>2
  <2>6. ASSUME ~allAttached'
        PROVE  /\ queue' = << >> /\ cb'.phase = "idle" /\ srv'.state = "IDLE"
               /\ \A n \in Moves : ~Ahead(n)'
               /\ \A s \in Sources : outstanding'[s] = None /\ ~ended'[s]
    <3>1. ~allAttached /\ pc <= ReachedAt - 2
      BY <1>1, <2>a, <2>b, <2>6 DEF BringUpInv
    <3>2. op \notin {"flush", "setPosition"}
      BY <1>1, <2>b, <3>1
    <3> QED BY <1>7, <1>8, <2>a, <3>1, <3>2 DEF BringUpInv
  <2> QED BY <1>1, <1>5, <1>6, <2>1, <2>2, <2>3, <2>4, <2>5, <2>6 DEF BringUpInv
<1> QED BY <1>9, <1>10, TestFeed

-----------------------------------------------------------------------------
(***************************************************************************)
(* What is flushed, and what is written: FlushedInv and WrittenInv.        *)
(***************************************************************************)

\* Types of the feed's state.
LEMMA QueueTypes ==
  ASSUME FeedInv
  PROVE  /\ TypeOK /\ queue \in Seq(Event) /\ cb \in {Idle} \cup Round \cup Answer
         /\ outstanding \in [Sources -> RequestIds \cup {None}]
         /\ ended \in [Sources -> BOOLEAN]
  BY DEF FeedInv, IInv, TypeOK

\* FlushedInv, where the queue is left alone.
LEMMA FlushedStays ==
  ASSUME FlushedInv, Stays, queue' = queue, silent' = silent
  PROVE  FlushedInv'
  BY DEF FlushedInv, Stays, Cancelled

\* FlushedInv, as the feed runs.
LEMMA FlushedFeed ==
  ASSUME FeedInv, FlushedInv, Stays, NEW s \in Sources, Fed(s)
  PROVE  FlushedInv'
<1>1. silent' = silent
  BY FedFeed
<1>2. CASE queue' = queue
  BY <1>1, <1>2, FlushedStays
<1>3. CASE queue # << >> /\ queue' = Tail(queue)
  <2>1. queue \in Seq(Event)
    BY QueueTypes
  <2>2. \A i \in DOMAIN queue' : i + 1 \in DOMAIN queue /\ queue'[i] = queue[i + 1]
    <3> HIDE DEF Event
    <3> QED BY <1>3, <2>1, Removed
  <2>3. Cancelled' => Cancelled
    BY <2>2 DEF Cancelled
  <2> QED BY <1>1, <2>3 DEF FlushedInv, Stays
<1> QED BY <1>2, <1>3, FedFeed

\* FlushedInv, as the server asks.
LEMMA FlushedRequest ==
  ASSUME FeedInv, FlushedInv, Stays, Request
  PROVE  FlushedInv'
<1>1. silent' = silent
  BY RequestFeed
<1>2. PICK s \in Sources, n \in FrameCounts : RequestData(s, n)
  BY RequestFeed
<1>3. PICK i : queue' = Append(queue, NeedData(s, n, i))
  BY <1>2 DEF RequestData
<1> DEFINE e == NeedData(s, n, i)
<1>4. e.kind = "need" /\ queue \in Seq(Event)
  BY QueueTypes DEF NeedData
<1> HIDE DEF e
<1>5. \A k \in DOMAIN queue' :
       (k \in DOMAIN queue /\ queue'[k] = queue[k]) \/ queue'[k] = e
  BY <1>3, <1>4, AppendPlaces DEF e
<1>6. Cancelled' => Cancelled
  BY <1>4, <1>5 DEF Cancelled
<1> QED BY <1>1, <1>6 DEF FlushedInv, Stays

\* FlushedInv, as the case takes a step that is no flush.
LEMMA FlushedTest ==
  ASSUME PlayTypes, FlushedInv, TestDoes
  PROVE  FlushedInv'
<1>1. case' = case
  BY DEF TestDoes, Advance
<1>2. CASE case \in {Flushing, Seeking, Cancelling}
  BY <1>1, <1>2 DEF FlushedInv
<1>3. CASE case \notin {Flushing, Seeking, Cancelling}
  <2>1. queue' = queue /\ silent' = silent
    <3>1. CASE UNCHANGED vars
      BY <3>1 DEF vars, history
    <3>2. CASE Called(Now.what, Now.value) /\ CallKinds(case, pc, Now)
      BY <1>3, <3>2, CallFeed DEF CallKinds
    <3> QED BY <3>1, <3>2, TestFeed
  <2> QED BY <1>1, <2>1 DEF FlushedInv, Cancelled
<1> QED BY <1>2, <1>3

\* WrittenInv, where no task is applied.
LEMMA WrittenStays ==
  ASSUME WrittenInv, AheadKept, tasks' = tasks, fault' = fault, Stays
  PROVE  WrittenInv'
  BY DEF WrittenInv, AheadKept, Stays, Due

\* WrittenInv, as the playback moves.
LEMMA WrittenPlay ==
  ASSUME PlayTypes, Conforms, WrittenInv, Play(Short), Stays
  PROVE  WrittenInv'
<1>1. tasks' = tasks /\ fault' = fault /\ srv'.property = srv.property
  BY PlayAhead DEF Goes, Turned
<1> QED BY <1>1 DEF WrittenInv, Stays, Due

\* WrittenInv, as a write is applied.
LEMMA WrittenWork ==
  ASSUME PlayTypes, Conforms, WrittenInv, Work, Stays
  PROVE  WrittenInv'
<1>1. /\ Applied(tasks[1]) /\ fault' = fault /\ tasks # << >> /\ tasks' = Tail(tasks)
      /\ tasks \in Seq(Tasks)
  BY WorkAhead DEF Applied, PlayTypes
<1>2. /\ \A i \in DOMAIN tasks' : i \in Nat /\ i + 1 \in DOMAIN tasks /\ tasks'[i] = tasks[i + 1]
      /\ \A i \in DOMAIN tasks :
           i = 1 \/ (i - 1 \in DOMAIN tasks' /\ tasks'[i - 1] = tasks[i])
      /\ Len(tasks) \in Nat /\ DOMAIN tasks = 1 .. Len(tasks)
  <2>1. tasks \in Seq(Tasks) /\ tasks # << >> /\ tasks' = Tail(tasks)
    BY <1>1
  <2> HIDE DEF Tasks
  <2> QED BY <2>1, Removed
<1> DEFINE V == Script[pc - 1].value
<1> HIDE DEF V
<1> SUFFICES ASSUME fault.kind = "none", pc > 1, Script[pc - 1].do = "write"
             PROVE  \/ ~Due("write")' /\ srv'.property = V
                    \/ \E i \in DOMAIN tasks' :
                         /\ tasks'[i] = Task("write", V)
                         /\ \A j \in DOMAIN tasks' : j > i => tasks'[j].do # "write"
  BY <1>1 DEF WrittenInv, Stays, V
<1>3. CASE ~Due("write") /\ srv.property = V
  <2>1. ~Due("write")' /\ tasks[1].do # "write"
    BY <1>3, WorkDue
  <2>2. srv'.property = srv.property
    BY <1>1, <2>1 DEF Applied, Tasks
  <2> QED BY <1>3, <2>1, <2>2
<1>4. ASSUME NEW i \in DOMAIN tasks, tasks[i] = Task("write", V),
             \A j \in DOMAIN tasks : j > i => tasks[j].do # "write"
      PROVE  \/ ~Due("write")' /\ srv'.property = V
             \/ \E k \in DOMAIN tasks' :
                  /\ tasks'[k] = Task("write", V)
                  /\ \A j \in DOMAIN tasks' : j > k => tasks'[j].do # "write"
  <2>1. CASE i = 1
    <3>1. tasks[1].do = "write" /\ tasks[1].value = V
      BY <1>4, <2>1 DEF Task
    <3>2. srv'.property = V
      BY <1>1, <3>1 DEF Applied
    <3>3. \A j \in DOMAIN tasks' : tasks'[j].do # "write"
      <4> SUFFICES ASSUME NEW j \in DOMAIN tasks' PROVE tasks'[j].do # "write"
        OBVIOUS
      <4>1. j \in Nat /\ j + 1 \in 1 .. Len(tasks) /\ tasks'[j] = tasks[j + 1]
        BY <1>2
      <4>2. j \in DOMAIN tasks' => j >= 1
        BY <1>1, <1>2
      <4>3. j + 1 > i
        BY <2>1, <4>1, <4>2
      <4> QED BY <1>2, <1>4, <4>1, <4>3
    <3> QED BY <3>2, <3>3 DEF Due, HasDo
  <2>2. CASE i # 1
    <3>1. i - 1 \in DOMAIN tasks' /\ tasks'[i - 1] = tasks[i] /\ i \in Nat
      BY <1>2, <2>2
    <3>2. ASSUME NEW j \in DOMAIN tasks', j > i - 1 PROVE tasks'[j].do # "write"
      <4>1. j \in Nat /\ j + 1 \in DOMAIN tasks /\ tasks'[j] = tasks[j + 1]
        BY <1>2
      <4>2. j + 1 > i
        BY <3>1, <3>2, <4>1
      <4> QED BY <1>4, <4>1, <4>2
    <3> QED BY <1>4, <3>1, <3>2
  <2> QED BY <2>1, <2>2
<1> QED BY <1>3, <1>4 DEF WrittenInv, V

\* WrittenInv, as the case writes.
LEMMA WrittenTest ==
  ASSUME PlayTypes, TestDoes
  PROVE  WrittenInv'
<1>1. pc \in Nat /\ pc' - 1 = pc /\ Script' = Script
  BY DEF TestDoes, Advance
<1>2. Script'[pc' - 1] = Now
  BY <1>1 DEF Now
<1> SUFFICES ASSUME Now.do = "write"
             PROVE  \E i \in DOMAIN tasks' :
                      /\ tasks'[i] = Task("write", Now.value)
                      /\ \A j \in DOMAIN tasks' : j > i => tasks'[j].do # "write"
  BY <1>2 DEF WrittenInv
<1> DEFINE t == Task("write", Now.value)
<1>3. t \in Tasks /\ tasks' = Append(tasks, t)
  <2>1. Now.what = "property" /\ Now.value \in BOOLEAN
    BY DEF TestDoes, Kinds
  <2>2. TaskDo(Now.what) = "write" /\ (Now.what = "property" => Now.value) = Now.value
    BY <2>1 DEF TaskDo
  <2> QED BY <2>2, TestRecord
<1>4. tasks \in Seq(Tasks)
  BY DEF PlayTypes
<1> HIDE DEF t
<1>5. /\ Len(tasks) \in Nat /\ DOMAIN tasks' = 1 .. Len(tasks) + 1
      /\ tasks'[Len(tasks) + 1] = t
  <2> HIDE DEF Tasks
  <2> QED BY <1>3, <1>4, AddedAt
<1>6. \A j \in DOMAIN tasks' : ~(j > Len(tasks) + 1)
  BY <1>5
<1>7. Len(tasks) + 1 \in DOMAIN tasks'
  BY <1>5
<1> QED BY <1>5, <1>6, <1>7 DEF t

-----------------------------------------------------------------------------
(***************************************************************************)
(* BUFFERING: BufferedInv.                                                 *)
(***************************************************************************)

\* What is first on its way stays first.
LEMMA FirstKept ==
  ASSUME PlayTypes, NEW n, Adds(n)
  PROVE  /\ notices' # << >>
         /\ notices # << >> => notices'[1] = notices[1]
         /\ notices = << >> => notices'[1] = n
<1>1. notices \in Seq(Notes) /\ n \in Notes /\ notices' = Append(notices, n)
  BY DEF PlayTypes, Adds
<1>2. /\ notices' # << >> /\ Len(notices) \in Nat
      /\ \A i \in 1 .. Len(notices) : notices'[i] = notices[i]
      /\ notices'[Len(notices) + 1] = n
  <2> HIDE DEF Notes
  <2> QED BY <1>1, AddedAt
<1>3. notices # << >> => 1 \in 1 .. Len(notices)
  BY <1>1, EmptySeq
<1> QED BY <1>2, <1>3

\* BufferedInv, once BUFFERING is on its way.
LEMMA BufferedStays ==
  ASSUME WalkInv, PlayTypes, BufferedInv, Stays, case = Clean => pc > 2,
         seen'.states = seen.states, seen'.events = seen.events,
         notices' = notices \/ \E n : Adds(n)
  PROVE  BufferedInv'
<1>1. CASE notices' = notices
  BY <1>1 DEF BufferedInv, Stays
<1>2. CASE \E n : Adds(n)
  <2>1. notices' # << >> /\ (notices # << >> => notices'[1] = notices[1])
    BY <1>2, FirstKept
  <2>2. case = Clean => pc > 2 /\ ~(pc <= 2)
    <3> SUFFICES ASSUME case = Clean PROVE pc > 2 /\ ~(pc <= 2)
      OBVIOUS
    <3> QED BY PcIsNat
  <2> QED BY <2>1, <2>2 DEF BufferedInv, Stays
<1> QED BY <1>1, <1>2

\* BufferedInv, as it is delivered.
LEMMA BufferedNotify ==
  ASSUME PlayTypes, BufferedInv, Notify, Stays
  PROVE  BufferedInv'
<1>1. Delivered(notices[1])
  BY NotifyDoes
<1>2. notices # << >> /\ seen.events \subseteq seen'.events
  BY <1>1 DEF Delivered, Notes
<1>3. ASSUME notices[1] = "BUFFERING" PROVE "BUFFERING" \in seen'.events
  BY <1>1, <1>3 DEF Delivered, Events
<1> QED BY <1>2, <1>3 DEF BufferedInv, Stays

\* BufferedInv, as the case loads.
LEMMA BufferedTest ==
  ASSUME PlayTypes, BringUpInv, BufferedInv, TestDoes
  PROVE  BufferedInv'
<1> SUFFICES ASSUME case = Clean
             PROVE  /\ pc' <= 2 => notices' = << >>
                    /\ pc' > 2 => \/ "BUFFERING" \in seen'.events
                                  \/ /\ notices' # << >> /\ notices'[1] = "BUFFERING"
                                     /\ seen'.states = {}
  BY DEF BufferedInv, TestDoes, Advance
<1>1. pc \in Nat /\ pc' = pc + 1 /\ ReachedAt = 6
  BY DEF TestDoes, Advance, ReachedAt, ReachAt, Clean, Getters, Unplayed, Seeking, Refilling
<1>2. seen'.states = seen.states /\ seen'.events = seen.events
  BY TestRecord DEF RecordKept
<1>3. pc = 2 <=> Now.do = "call" /\ Now.what = "load"
  <2>1. pc = 2 => Now = Setup("load")
    BY ScriptCleanRunNetworkStateVocabulary DEF Now, Script, Clean
  <2>2. Now.do = "call" /\ Now.what = "load" => pc = 2
    BY DEF TestDoes, Kinds, CallKinds
  <2> QED BY <2>1, <2>2 DEF Setup, Step
<1>4. CASE pc = 2
  <2>1. Adds("BUFFERING")
    BY <1>3, <1>4 DEF TestDoes, Called
  <2>2. notices = << >>
    BY <1>4 DEF BufferedInv
  <2>3. notices' # << >> /\ notices'[1] = "BUFFERING"
    BY <2>1, <2>2, FirstKept
  <2>4. \A n \in Moves : ~Ahead(n)
    BY <1>1, <1>4 DEF BringUpInv
  <2>5. seen.states = {}
    BY <2>4 DEF PlayTypes, Ahead, Observed
  <2> QED BY <1>1, <1>2, <1>4, <2>3, <2>5
<1>5. CASE pc # 2
  <2>1. notices' = notices
    BY <1>3, <1>5, TestFeed DEF Called
  <2>2. (pc' <= 2 <=> pc <= 2) \/ pc = 2
    BY <1>1
  <2>3. pc' > 2 <=> pc > 2
    BY <1>1, <1>5
  <2> QED BY <1>2, <1>5, <2>1, <2>2, <2>3 DEF BufferedInv
<1> QED BY <1>4, <1>5

-----------------------------------------------------------------------------
(***************************************************************************)
(* What the server waits for: WaitedInv.                                   *)
(***************************************************************************)

\* Where the case that withholds its answers withholds, flushes and sleeps.
LEMMA CancellingPlaces ==
  ASSUME case = Cancelling
  PROVE  /\ pc = 8 => Now.do = "call" /\ Now.what = "setWithhold" /\ Now.value = TRUE
         /\ pc = 10 => Now.do = "call" /\ Now.what = "flush"
         /\ pc \in {9, 11} => Now.do = "sleep"
<1> DEFINE s == Suite["CancelledNeedDataIsNotAnError"].script
<1>1. s[8] = Mode("setWithhold", TRUE)
  BY ScriptCancelledNeedDataIsNotAnError
<1>2. s[9] = Sleep
  BY ScriptCancelledNeedDataIsNotAnError
<1>3. s[10] = Plain("flush")
  BY ScriptCancelledNeedDataIsNotAnError
<1>4. s[11] = Sleep
  BY ScriptCancelledNeedDataIsNotAnError
<1>5. Now = s[pc]
  BY DEF Now, Script, Cancelling
<1> HIDE DEF s
<1> QED BY <1>1, <1>2, <1>3, <1>4, <1>5 DEF Mode, Plain, Sleep, Step

\* A step of the feed takes a request, or a cancellation, from the queue.
Taken(s) ==
  /\ cb.phase = "idle" /\ queue # << >> /\ queue' = Tail(queue)
  /\ Head(queue).src = s
  /\ \/ Head(queue).kind = "need" /\ cb' = cb /\ Unanswerable(s) /\ seen'.requested = TRUE
     \/ /\ Head(queue).kind = "need" /\ ~Unanswerable(s) /\ seen'.requested = TRUE
        /\ cb'.phase \in {"starve", "offer"} /\ cb'.src = s /\ cb'.id = Head(queue).id
     \/ Head(queue).kind = "cancel" /\ cb' = cb /\ seen'.requested = seen.requested
  /\ UNCHANGED <<outstanding, ended, nextFrame, head>>
\* Or it goes on with the request it has.
GoesOn(s) ==
  /\ cb.phase # "idle" /\ cb.src = s /\ queue' = queue
  /\ cb'.phase # "idle" /\ cb'.src = s /\ cb'.id = cb.id
  /\ UNCHANGED <<outstanding, ended>>
  /\ seen'.requested = seen.requested

\* Or it answers: those are its steps.
LEMMA FedKinds ==
  ASSUME FeedInv, NEW s \in Sources, Fed(s)
  PROVE  Taken(s) \/ GoesOn(s) \/ (HaveData(s) /\ seen' = seen /\ head' = head)
<1>0. cb \in {Idle} \cup Round \cup Answer
  BY QueueTypes
<1> USE DEF observations, history
<1>1. CASE DropRequest(s) /\ seen'.requested = TRUE /\ head' = head
  BY <1>1 DEF DropRequest, RecordRequest, Receive, Taken
<1>2. CASE StarveRequest(s) /\ seen'.requested = TRUE /\ head' = head
  <2>1. cb'.phase = "starve" /\ cb'.src = s /\ cb'.id = Head(queue).id
    BY <1>2 DEF StarveRequest, Idle
  <2> QED BY <1>2, <2>1 DEF StarveRequest, RecordRequest, Receive, Taken
<1>3. CASE StartRound(s) /\ seen'.requested = TRUE /\ head' = head
  <2>1. cb'.phase = "offer" /\ cb'.src = s /\ cb'.id = Head(queue).id
    BY <1>3 DEF StartRound, Idle
  <2> QED BY <1>3, <2>1 DEF StartRound, RecordRequest, Receive, Taken
<1>4. CASE AnswerStarved(s) /\ seen' = seen
  <2>1. cb'.phase = "answer" /\ cb'.src = s /\ cb'.id = cb.id
    BY <1>0, <1>4 DEF AnswerStarved, Idle, Round, Answer
  <2> QED BY <1>4, <2>1 DEF AnswerStarved, GoesOn
<1>5. CASE AcceptSegment(s) /\ seen' = seen
  <2>1. cb'.phase = "offer" /\ cb'.src = s /\ cb'.id = cb.id
    BY <1>0, <1>5 DEF AcceptSegment, Idle, Round, Answer
  <2> QED BY <1>5, <2>1 DEF AcceptSegment, GoesOn
<1>6. ASSUME NEW status, RejectSegment(s, status), seen'.requested = seen.requested
      PROVE  GoesOn(s)
  <2>1. cb'.phase = "commit" /\ cb'.src = s /\ cb'.id = cb.id
    BY <1>0, <1>6 DEF RejectSegment, Idle, Round, Answer
  <2> QED BY <1>6, <2>1 DEF RejectSegment, GoesOn
<1>7. CASE CommitRound(s) /\ seen' = seen
  <2>1. cb'.phase = "answer" /\ cb'.src = s /\ cb'.id = cb.id
    BY <1>0, <1>7 DEF CommitRound, Idle, Round, Answer
  <2> QED BY <1>7, <2>1 DEF CommitRound, GoesOn
<1>8. CASE NotifyCancelNeedMediaData(s) /\ seen' = seen /\ head' = head
  BY <1>8 DEF NotifyCancelNeedMediaData, Receive, Taken
<1> QED BY <1>1, <1>2, <1>3, <1>4, <1>5, <1>6, <1>7, <1>8 DEF Fed

\* A request that can be dropped is one a test withholds.
LEMMA Dropped ==
  ASSUME WalkInv, BringUpInv, queue # << >> \/ cb.phase # "idle", NEW s \in Sources,
         Unanswerable(s)
  PROVE  withhold /\ case = Cancelling /\ pc > 8
<1>1. allAttached
  BY DEF BringUpInv
<1>2. pc > ReachedAt - 2
  BY <1>1 DEF BringUpInv
<1>3. pc > BindAt(case) /\ pc > AttachedAt
  BY <1>2, PcIsNat DEF ReachedAt, ReachAt, AttachedAt, AttachAt, BindAt, Getters,
     Unplayed, Seeking, Refilling
<1>4. pipelineSet /\ registered = Sources
  BY <1>3 DEF BringUpInv
<1> QED BY <1>4 DEF Unanswerable, BringUpInv

\* WaitedInv, where the feed is left alone.
LEMMA WaitedStays ==
  ASSUME WaitedInv, Stays, UNCHANGED <<queue, outstanding, cb>>
  PROVE  WaitedInv'
  BY DEF WaitedInv, Stays, Queued

\* What becomes of a request on its way when a notification is taken.
LEMMA QueuedTail ==
  ASSUME FeedInv, queue # << >>, queue' = Tail(queue), outstanding' = outstanding,
         NEW s \in Sources, Queued(s)
  PROVE  \/ Queued(s)'
         \/ /\ Head(queue).kind = "need" /\ Head(queue).src = s
            /\ Head(queue).id = outstanding[s]
<1>1. queue \in Seq(Event)
  BY QueueTypes
<1>2. /\ Head(queue) = queue[1]
      /\ \A i \in DOMAIN queue :
           i = 1 \/ (i - 1 \in DOMAIN queue' /\ queue'[i - 1] = queue[i])
  <2> HIDE DEF Event
  <2> QED BY <1>1, Removed
<1>3. PICK i \in DOMAIN queue :
        queue[i].kind = "need" /\ queue[i].src = s /\ queue[i].id = outstanding[s]
  BY DEF Queued
<1>4. CASE i = 1
  BY <1>2, <1>3, <1>4
<1>5. CASE i # 1
  BY <1>2, <1>3, <1>5 DEF Queued
<1> QED BY <1>4, <1>5

\* A request the server makes is in the queue.
LEMMA QueuedRequest ==
  ASSUME FeedInv, NEW s \in Sources, NEW n \in FrameCounts, RequestData(s, n)
  PROVE  /\ outstanding[s] = None /\ ~ended[s] /\ Queued(s)'
         /\ \A t \in Sources : t # s => outstanding'[t] = outstanding[t]
         /\ \A t \in Sources : t # s /\ Queued(t) => Queued(t)'
<1>1. PICK i : /\ queue' = Append(queue, NeedData(s, n, i))
               /\ outstanding' = [outstanding EXCEPT ![s] = i]
  BY DEF RequestData
<1> DEFINE e == NeedData(s, n, i)
<1>2. e.kind = "need" /\ e.src = s /\ e.id = i
  BY DEF NeedData
<1>3. queue \in Seq(Event) /\ outstanding'[s] = i
  BY <1>1, QueueTypes
<1>4. /\ \A k \in DOMAIN queue : k \in DOMAIN queue' /\ queue'[k] = queue[k]
      /\ Len(queue) + 1 \in DOMAIN queue' /\ queue'[Len(queue) + 1] = e
  BY <1>1, <1>3, AppendPlaces
<1> HIDE DEF e
<1>5. Queued(s)'
  BY <1>2, <1>3, <1>4 DEF Queued
<1>6. \A t \in Sources : t # s => outstanding'[t] = outstanding[t]
  BY <1>1, QueueTypes
<1> QED BY <1>4, <1>5, <1>6 DEF RequestData, Queued

\* WaitedInv, as the feed runs.
LEMMA WaitedFeed ==
  ASSUME WalkInv, FeedInv, BringUpInv, WaitedInv, Stays, NEW s \in Sources, Fed(s)
  PROVE  WaitedInv'
<1> SUFFICES ASSUME case # Cancelling \/ pc <= 8, NEW t \in Sources, outstanding'[t] # None
             PROVE  Queued(t)' \/ (cb'.phase # "idle" /\ cb'.src = t /\ cb'.id = outstanding'[t])
  BY DEF WaitedInv, Stays
<1>0. t = s
  BY OneSource
<1>1. outstanding[s] # None =>
        Queued(s) \/ (cb.phase # "idle" /\ cb.src = s /\ cb.id = outstanding[s])
  BY DEF WaitedInv
<1>2. CASE Taken(s)
  <2>1. Queued(s) /\ outstanding' = outstanding
    BY <1>0, <1>1, <1>2 DEF Taken
  <2>2. ~Unanswerable(s)
    <3> SUFFICES ASSUME Unanswerable(s) PROVE FALSE
      OBVIOUS
    <3>1. case = Cancelling /\ pc > 8
      BY <1>2, Dropped DEF Taken
    <3> QED BY <3>1, PcIsNat
  <2>3. \/ Queued(s)'
        \/ /\ Head(queue).kind = "need" /\ Head(queue).src = s
           /\ Head(queue).id = outstanding[s]
    BY <1>2, <2>1, QueuedTail DEF Taken
  <2> QED BY <1>0, <1>2, <2>1, <2>2, <2>3 DEF Taken
<1>3. CASE GoesOn(s)
  BY <1>0, <1>1, <1>3 DEF GoesOn, Queued
<1>4. CASE HaveData(s)
  <2>1. outstanding[s] # cb.id /\ outstanding' = outstanding /\ queue' = queue
    <3>1. outstanding \in [Sources -> RequestIds \cup {None}]
      BY QueueTypes
    <3> QED BY <1>0, <1>4, <3>1 DEF HaveData
  <2>2. Queued(s)
    BY <1>0, <1>1, <2>1
  <2> QED BY <1>0, <2>1, <2>2 DEF Queued
<1> QED BY <1>2, <1>3, <1>4, FedKinds

\* WaitedInv, as the server asks.
LEMMA WaitedRequest ==
  ASSUME FeedInv, WaitedInv, Stays, Request
  PROVE  WaitedInv'
<1>1. PICK s \in Sources, n \in FrameCounts : RequestData(s, n)
  BY RequestFeed
<1>2. Queued(s)' /\ \A t \in Sources : t = s
  BY <1>1, QueuedRequest, OneSource
<1> QED BY <1>2 DEF WaitedInv, Stays

\* What a flush leaves of the requests, and what another step of a case does.
LEMMA TestRequests ==
  ASSUME PlayTypes, FeedInv, TestDoes
  PROVE  \/ UNCHANGED <<queue, outstanding, ended, silent>> /\ head' = head
         \/ /\ \A s \in Sources : outstanding'[s] = None /\ ~ended'[s] /\ head'[s] = None
            /\ case \in {Flushing, Seeking, Cancelling}
<1>1. CASE UNCHANGED <<vars, head>>
  BY <1>1 DEF vars, history
<1>2. CASE Now.do = "call" /\ Called(Now.what, Now.value) /\ CallKinds(case, pc, Now)
  <2>1. CASE Now.what \notin {"flush", "setPosition"}
    BY <1>2, <2>1, CallFeed DEF Called
  <2>2. CASE Now.what \in {"flush", "setPosition"}
    <3>1. PICK s \in Sources : FlushSource(s)
      BY <1>2, <2>2, CallFeed
    <3>2. outstanding'[s] = None /\ ended'[s] = FALSE
      BY <3>1, QueueTypes DEF FlushSource
    <3>3. head'[s] = None
      BY <1>2, <2>2 DEF Called
    <3>4. case \in {Flushing, Seeking, Cancelling}
      BY <1>2, <2>2 DEF CallKinds
    <3> QED BY <3>2, <3>3, <3>4, OneSource
  <2> QED BY <2>1, <2>2
<1> QED BY <1>1, <1>2, TestFeed

\* WaitedInv, as the case takes a step.
LEMMA WaitedTest ==
  ASSUME PlayTypes, FeedInv, WaitedInv, TestDoes
  PROVE  WaitedInv'
<1>1. case' = case /\ cb' = cb
  BY TestFeed DEF TestDoes, Advance
<1>2. case' # Cancelling \/ pc' <= 8 => case # Cancelling \/ pc <= 8
  BY <1>1 DEF TestDoes, Advance
<1>3. CASE UNCHANGED <<queue, outstanding, ended, silent>>
  BY <1>1, <1>2, <1>3 DEF WaitedInv, Queued
<1>4. CASE \A s \in Sources : outstanding'[s] = None
  BY <1>4 DEF WaitedInv
<1> QED BY <1>3, <1>4, TestRequests

-----------------------------------------------------------------------------
(***************************************************************************)
(* What the client has been asked for: RequestedInv.                       *)
(***************************************************************************)

\* RequestedInv, where the feed is left alone.
LEMMA RequestedStays ==
  ASSUME RequestedInv, Stays, UNCHANGED vars, head' = head,
         seen'.requested = seen.requested, srv'.state = srv.state
  PROVE  RequestedInv'
  BY DEF RequestedInv, AskedInv, ReaskedInv, Stays, Queued, vars, modes

\* RequestedInv, as the playback moves.
LEMMA RequestedPlay ==
  ASSUME PlayTypes, Conforms, RequestedInv, Play(Short), Stays
  PROVE  RequestedInv'
<1>1. UNCHANGED vars /\ head' = head /\ seen' = seen
  BY PlayAhead
<1>2. UNCHANGED <<queue, outstanding, ended, cb, withhold>>
  BY <1>1 DEF vars, modes
<1>3. ReaskedInv'
  BY <1>1, <1>2 DEF RequestedInv, ReaskedInv, Queued, Stays
<1>4. ASSUME case # Cancelling, srv'.state \notin {"IDLE", "STOPPED"}
      PROVE  seen.requested
  <2>1. CASE CanPreroll
    <3>1. \E s \in Sources : head[s] # None \/ ended[s]
      BY <2>1, OneSource DEF CanPreroll, HasData
    <3> QED BY <1>4, <3>1 DEF RequestedInv, AskedInv
  <2>2. CASE CanStart \/ CanPause \/ CanEnd(Short)
    BY <1>4, <2>2 DEF RequestedInv, AskedInv, ReaskedInv, CanStart, CanPause, CanEnd
  <2>3. CASE Turned("STOPPED")
    BY <1>4, <2>3 DEF Turned
  <2>4. CASE srv'.state = srv.state
    BY <1>4, <2>4 DEF RequestedInv, AskedInv
  <2> QED BY <2>1, <2>2, <2>3, <2>4, PlayAhead
<1>5. AskedInv'
  BY <1>1, <1>2, <1>4 DEF RequestedInv, AskedInv, Stays
<1> QED BY <1>3, <1>5 DEF RequestedInv

\* AskedInv, as the feed runs.
LEMMA AskedFeed ==
  ASSUME FeedInv, PlayTypes, AskedInv, Stays, NEW s \in Sources, Fed(s), srv'.state = srv.state
  PROVE  AskedInv'
<1> SUFFICES ASSUME case # Cancelling
             PROVE  /\ cb'.phase # "idle" => seen'.requested
                    /\ \A t \in Sources : head'[t] # None \/ ended'[t] => seen'.requested
                    /\ srv'.state \notin {"IDLE", "STOPPED"} => seen'.requested
  BY DEF RequestedInv, AskedInv, Stays
<1>1. CASE Taken(s) /\ seen'.requested = TRUE
  BY <1>1
<1>2. CASE Taken(s) /\ seen'.requested = seen.requested /\ cb' = cb
  BY <1>2 DEF Taken, AskedInv
<1>3. CASE GoesOn(s)
  BY <1>3 DEF GoesOn, AskedInv
<1>4. CASE HaveData(s) /\ seen' = seen /\ head' = head
  BY <1>4 DEF HaveData, AskedInv
<1> QED BY <1>1, <1>2, <1>3, <1>4, FedKinds DEF Taken

\* ReaskedInv, as the feed runs.
LEMMA ReaskedFeed ==
  ASSUME WalkInv, FeedInv, PlayTypes, ReaskedInv, Stays, NEW s \in Sources, Fed(s)
  PROVE  ReaskedInv'
<1> SUFFICES ASSUME case = Cancelling
             PROVE  /\ pc \in 9 .. 14 => withhold'
                    /\ pc \in 10 .. 14 => cb'.phase = "idle"
                    /\ pc = 11 => seen'.requested \/ \A t \in Sources :
                         ~ended'[t] /\ (outstanding'[t] # None => Queued(t)')
                    /\ pc > 11 => seen'.requested
  BY DEF ReaskedInv, Stays
<1>0. withhold' = withhold
  BY FedFeed DEF modes
<1>1. CASE Taken(s)
  <2>1. seen'.requested = TRUE \/ seen'.requested = seen.requested
    BY <1>1 DEF Taken
  <2>2. pc \in 10 .. 14 => cb'.phase = "idle"
    <3> SUFFICES ASSUME pc \in 10 .. 14 PROVE cb'.phase = "idle"
      OBVIOUS
    <3>1. pc \in 9 .. 14
      OBVIOUS
    <3>2. withhold
      BY <3>1 DEF ReaskedInv
    <3>3. Unanswerable(s)
      BY <3>2 DEF Unanswerable
    <3> QED BY <1>1, <3>3 DEF Taken
  <2>3. ASSUME pc = 11, seen'.requested # TRUE
        PROVE  seen'.requested \/ \A t \in Sources :
                 ~ended'[t] /\ (outstanding'[t] # None => Queued(t)')
    <3>1. Head(queue).kind = "cancel" /\ seen'.requested = seen.requested
      BY <1>1, <2>3 DEF Taken
    <3>2. CASE seen.requested
      BY <3>1, <3>2
    <3>3. CASE \A t \in Sources : ~ended[t] /\ (outstanding[t] # None => Queued(t))
      <4> SUFFICES ASSUME NEW t \in Sources
                   PROVE  ~ended'[t] /\ (outstanding'[t] # None => Queued(t)')
        OBVIOUS
      <4>1. Queued(t) => Queued(t)'
        BY <1>1, <3>1, QueuedTail DEF Taken
      <4> QED BY <1>1, <3>3, <4>1 DEF Taken
    <3> QED BY <2>3, <3>2, <3>3 DEF ReaskedInv
  <2> QED BY <1>0, <2>1, <2>2, <2>3 DEF ReaskedInv
<1>2. CASE cb.phase # "idle" /\ seen'.requested = seen.requested
  <2>1. ~(pc \in 10 .. 14)
    BY <1>2 DEF ReaskedInv
  <2> QED BY <1>0, <1>2, <2>1 DEF ReaskedInv
<1>3. CASE HaveData(s) /\ seen' = seen /\ head' = head
  BY <1>2, <1>3 DEF HaveData
<1> QED BY <1>1, <1>2, <1>3, FedKinds DEF GoesOn

\* RequestedInv, as the feed runs.
LEMMA RequestedFeed ==
  ASSUME WalkInv, FeedInv, PlayTypes, RequestedInv, Stays, NEW s \in Sources, Fed(s),
         srv'.state = srv.state
  PROVE  RequestedInv'
  BY AskedFeed, ReaskedFeed DEF RequestedInv

\* RequestedInv, as the server asks.
LEMMA RequestedRequest ==
  ASSUME FeedInv, RequestedInv, Stays, Request
  PROVE  RequestedInv'
<1>1. PICK s \in Sources, n \in FrameCounts : RequestData(s, n)
  BY RequestFeed
<1>2. Queued(s)' /\ \A t \in Sources : t = s
  BY <1>1, QueuedRequest, OneSource
<1>3. /\ cb' = cb /\ ended' = ended /\ withhold' = withhold
      /\ seen' = seen /\ srv' = srv /\ head' = head
  BY RequestFeed, RequestRecord DEF modes
<1> QED BY <1>2, <1>3 DEF RequestedInv, AskedInv, ReaskedInv, Stays

\* AskedInv, as the case takes a step.
LEMMA AskedTest ==
  ASSUME PlayTypes, FeedInv, AskedInv, TestDoes
  PROVE  AskedInv'
<1> SUFFICES ASSUME case # Cancelling
             PROVE  /\ cb'.phase # "idle" => seen'.requested
                    /\ \A t \in Sources : head'[t] # None \/ ended'[t] => seen'.requested
                    /\ srv'.state \notin {"IDLE", "STOPPED"} => seen'.requested
  BY DEF AskedInv, TestDoes, Advance
<1>1. seen'.requested = seen.requested
  BY TestFeed DEF Called, CallKinds
<1>2. cb' = cb /\ srv'.state = srv.state
  BY TestFeed, TestRecord DEF AheadKept
<1>3. \A t \in Sources : head'[t] # None \/ ended'[t] => head[t] # None \/ ended[t]
  BY TestRequests
<1> QED BY <1>1, <1>2, <1>3 DEF AskedInv

\* ReaskedInv, as the case takes a step.
LEMMA ReaskedTest ==
  ASSUME PlayTypes, FeedInv, BringUpInv, ReaskedInv, TestDoes
  PROVE  ReaskedInv'
<1>1. /\ pc \in Nat /\ pc' = pc + 1 /\ case' = case
  BY DEF TestDoes, Advance
<1> SUFFICES ASSUME case = Cancelling
             PROVE  /\ pc' \in 9 .. 14 => withhold'
                    /\ pc' \in 10 .. 14 => cb'.phase = "idle"
                    /\ pc' = 11 => seen'.requested \/ \A t \in Sources :
                         ~ended'[t] /\ (outstanding'[t] # None => Queued(t)')
                    /\ pc' > 11 => seen'.requested
  BY <1>1 DEF ReaskedInv
<1>2. cb' = cb
  BY TestFeed
<1>3. ASSUME pc' \in 9 .. 14 PROVE withhold'
  <2>1. CASE pc = 8
    <3>1. Called("setWithhold", TRUE)
      BY <2>1, CancellingPlaces, TestFeed
    <3>2. withhold' = TRUE
      BY <3>1, CallFeed
    <3> QED BY <3>2
  <2>2. CASE pc \in 9 .. 13
    <3>1. withhold
      BY <2>2 DEF ReaskedInv
    <3>2. withhold' = withhold
      <4>1. CASE UNCHANGED vars
        BY <4>1 DEF vars, modes
      <4>2. CASE Called(Now.what, Now.value) /\ CallKinds(case, pc, Now)
        <5>1. Now.what # "setWithhold"
          BY <2>2, <4>2 DEF CallKinds
        <5> QED BY <4>2, <5>1, CallFeed
      <4> QED BY <4>1, <4>2, TestFeed
    <3> QED BY <3>1, <3>2
  <2> QED BY <1>1, <1>3, <2>1, <2>2
<1>4. ASSUME pc' \in 10 .. 14 PROVE cb'.phase = "idle"
  <2>1. CASE pc = 9
    <3>1. Settled(Short)
      BY <2>1, CancellingPlaces DEF TestDoes, Waited
    <3> QED BY <1>2, <3>1 DEF Settled
  <2>2. CASE pc \in 10 .. 13
    BY <1>2, <2>2 DEF ReaskedInv
  <2> QED BY <1>1, <1>4, <2>1, <2>2
<1>5. ASSUME pc' = 11
      PROVE  \A t \in Sources : ~ended'[t] /\ (outstanding'[t] # None => Queued(t)')
  <2>1. Called("flush", Now.value)
    BY <1>1, <1>5, CancellingPlaces, TestFeed
  <2>2. PICK s \in Sources : FlushSource(s)
    BY <2>1, CallFeed
  <2>3. outstanding'[s] = None /\ ended'[s] = FALSE
    BY <2>2, QueueTypes DEF FlushSource
  <2> QED BY <2>3, OneSource
<1>6. ASSUME pc' > 11 PROVE seen'.requested
  <2>0. pc > 10
    BY <1>1, <1>6
  <2>1. seen'.requested = seen.requested
    <3>1. CASE Called(Now.what, Now.value) /\ CallKinds(case, pc, Now)
      <4>1. Now.what # "forgetRequests"
        BY <2>0, <3>1 DEF CallKinds
      <4> QED BY <3>1, <4>1 DEF Called
    <3> QED BY <3>1, TestFeed
  <2>2. CASE pc = 11
    <3>1. Settled(Short)
      BY <2>2, CancellingPlaces DEF TestDoes, Waited
    <3>2. allAttached /\ ~starve
      BY <2>2 DEF BringUpInv, Starving, Cancelling, ReachedAt, ReachAt, Getters, Unplayed,
                  Seeking, Refilling
    <3>3. \A s \in Sources : outstanding[s] # None \/ ended[s]
      BY <3>1, <3>2 DEF Settled
    <3>4. \A s \in Sources : ~Queued(s)
      <4>1. queue = << >>
        BY <3>1 DEF Settled
      <4>2. DOMAIN queue = {}
        BY <4>1
      <4> QED BY <4>2 DEF Queued
    <3>5. seen.requested \/ \A s \in Sources :
            ~ended[s] /\ (outstanding[s] # None => Queued(s))
      BY <2>2 DEF ReaskedInv
    <3> QED BY <2>1, <3>3, <3>4, <3>5, OneSource
  <2>3. CASE pc > 11
    BY <2>1, <2>3 DEF ReaskedInv
  <2> QED BY <2>0, <1>1, <2>2, <2>3
<1> QED BY <1>3, <1>4, <1>5, <1>6

\* RequestedInv, as the case takes a step.
LEMMA RequestedTest ==
  ASSUME PlayTypes, FeedInv, BringUpInv, RequestedInv, TestDoes
  PROVE  RequestedInv'
  BY AskedTest, ReaskedTest DEF RequestedInv

-----------------------------------------------------------------------------
(***************************************************************************)
(* What the server takes: AcceptedInv.                                     *)
(***************************************************************************)

\* AcceptedInv, of the cases that do not flush.
Steady == case \notin {Flushing, Seeking, Cancelling}

\* AcceptedInv, where the feed is left alone,
LEMMA AcceptedStays ==
  ASSUME AcceptedInv, Stays, UNCHANGED <<cb, outstanding, allSegmentsAccepted>>,
         seen'.error = seen.error
  PROVE  AcceptedInv'
  BY DEF AcceptedInv, Stays

\* With no cancellation under way, the first request is the one the server waits for.
LEMMA HeadWaited ==
  ASSUME FeedInv, FlushedInv, Steady, queue # << >>, NEW s \in Sources,
         Head(queue).kind = "need", Head(queue).src = s
  PROVE  outstanding[s] = Head(queue).id /\ Head(queue).count \in FrameCounts
<1>1. queue \in Seq(Event) /\ NeedWaits
  BY QueueTypes DEF FeedInv, QueueInv
<1>2. Head(queue) = queue[1] /\ 1 \in DOMAIN queue /\ Head(queue) \in Event
  <2> HIDE DEF Event
  <2>1. Tail(queue) = Tail(queue)
    OBVIOUS
  <2> QED BY <1>1, <2>1, Removed
<1>3. silent = {} /\ ~Cancelled
  BY DEF FlushedInv, Steady
<1>4. Need(s, 1) /\ s \in Sources \ silent
  BY <1>2, <1>3 DEF Need
<1>5. ~Behind(s, 1)
  BY <1>3 DEF Behind, CancelAt, Cancelled
<1>6. outstanding[s] = queue[1].id
  BY <1>1, <1>4, <1>5 DEF NeedWaits
<1> QED BY <1>2, <1>6 DEF Event

\* AcceptedInv, as the feed runs.
LEMMA AcceptedFeed ==
  ASSUME FeedInv, BringUpInv, FlushedInv, AcceptedInv, Stays, NEW s \in Sources, Fed(s)
  PROVE  AcceptedInv'
<1> SUFFICES ASSUME Steady
             PROVE  /\ cb'.phase # "idle" => outstanding'[cb'.src] = cb'.id
                    /\ ~seen'.error
                    /\ case # Refilling =>
                         /\ allSegmentsAccepted'
                         /\ cb'.phase = "offer" => \E n \in FrameCounts : cb'.size <= n
  BY DEF AcceptedInv, Steady, Stays
<1>0. /\ cb.phase # "idle" => outstanding[cb.src] = cb.id
      /\ ~seen.error
      /\ case # Refilling =>
           /\ allSegmentsAccepted
           /\ cb.phase = "offer" => \E n \in FrameCounts : cb.size <= n
  BY DEF AcceptedInv, Steady
<1>t. cb \in {Idle} \cup Round \cup Answer /\ TypeOK
  BY QueueTypes
<1> USE DEF observations
<1>1. CASE DropRequest(s) \/ StarveRequest(s) \/ StartRound(s)
  <2>0. RecordRequest(s) /\ queue # << >> /\ Head(queue).kind = "need" /\ Head(queue).src = s
    BY <1>1 DEF DropRequest, StarveRequest, StartRound, RecordRequest, Receive
  <2>1. outstanding[s] = Head(queue).id /\ Head(queue).count \in FrameCounts
    BY <2>0, HeadWaited
  <2>2. outstanding' = outstanding /\ allSegmentsAccepted' = allSegmentsAccepted
    BY <2>0 DEF RecordRequest
  <2>3. seen'.error = seen.error
    <3>1. cb.phase = "idle"
      BY <2>0 DEF RecordRequest, Receive
    <3> QED BY <1>1, <3>1 DEF Fed, AnswerStarved, AcceptSegment, RejectSegment, CommitRound,
             HaveData, NotifyCancelNeedMediaData
  <2>4. CASE cb' = cb
    BY <1>0, <2>0, <2>2, <2>3, <2>4 DEF RecordRequest, Receive
  <2>5. CASE cb' = [Idle EXCEPT !.phase = "starve", !.src = s, !.id = Head(queue).id]
    <3>1. cb'.phase = "starve" /\ cb'.src = s /\ cb'.id = Head(queue).id
      BY <2>5 DEF Idle
    <3> QED BY <1>0, <2>1, <2>2, <2>3, <3>1
  <2>6. CASE StartRound(s)
    <3>1. /\ cb'.phase = "offer" /\ cb'.src = s /\ cb'.id = Head(queue).id
          /\ cb'.size = BatchSize(s, Head(queue).count)
      BY <2>6 DEF StartRound, Idle
    <3>2. ASSUME case # Refilling PROVE cb'.size <= Head(queue).count
      <4>1. oversupply = 1
        BY <3>2 DEF BringUpInv
      <4>2. PICK n \in FrameCounts : n = Head(queue).count
        BY <2>1
      <4>3. n \in Nat /\ n * oversupply = n
        BY <4>1, FeedAssumption
      <4>4. StreamLength - nextFrame[s] \in Int
        BY <1>t, FeedAssumption DEF TypeOK
      <4> QED BY <3>1, <4>2, <4>3, <4>4 DEF BatchSize, Smaller
    <3> QED BY <1>0, <2>1, <2>2, <2>3, <3>1, <3>2
  <2> QED BY <1>1, <2>4, <2>5, <2>6 DEF DropRequest, StarveRequest
<1>2. CASE cb.phase # "idle" /\ ~HaveData(s)
  <2>0. GoesOn(s)
    BY <1>2, FedKinds DEF Taken
  <2>1. outstanding'[cb'.src] = cb'.id /\ outstanding[s] = cb.id
    BY <1>0, <2>0 DEF GoesOn
  <2>2. CASE AnswerStarved(s) /\ seen' = seen
    <3>1. cb'.phase = "answer"
      BY <1>t, <2>2 DEF AnswerStarved, Idle, Round, Answer
    <3> QED BY <1>0, <2>1, <2>2, <3>1 DEF AnswerStarved
  <2>3. CASE AcceptSegment(s) /\ seen' = seen
    <3>1. cb'.phase = "offer" /\ cb'.size = cb.size /\ cb.phase = "offer"
      BY <1>t, <2>3 DEF AcceptSegment, Idle, Round, Answer
    <3> QED BY <1>0, <2>1, <2>3, <3>1 DEF AcceptSegment
  <2>4. CASE /\ RejectSegment(s, "NO_SPACE") /\ \A n \in FrameCounts : cb.accepted >= n
             /\ seen'.error = seen.error
    <3>1. cb'.phase = "commit" /\ cb.phase = "offer" /\ cb.accepted < cb.size /\ cb \in Round
      BY <1>t, <2>4 DEF RejectSegment, Idle, Round, Answer
    <3>2. case = Refilling
      <4> SUFFICES ASSUME case # Refilling PROVE FALSE
        OBVIOUS
      <4>1. PICK n \in FrameCounts : cb.size <= n
        BY <1>0, <3>1
      <4>2. cb.size \in Nat /\ cb.accepted \in Nat /\ n \in Nat
        BY <3>1, FeedAssumption DEF Round
      <4>3. cb.accepted >= n
        BY <2>4
      <4> QED BY <3>1, <4>1, <4>2, <4>3
    <3> QED BY <1>0, <2>1, <2>4, <3>2
  <2>5. CASE RejectSegment(s, "ERROR") /\ outstanding[s] # cb.id
    BY <2>1, <2>5
  <2>6. CASE CommitRound(s) /\ seen' = seen
    <3>1. cb'.phase = "answer"
      BY <1>t, <2>6 DEF CommitRound, Idle, Round, Answer
    <3> QED BY <1>0, <2>1, <2>6, <3>1 DEF CommitRound
  <2>7. ~DropRequest(s) /\ ~StarveRequest(s) /\ ~StartRound(s) /\ ~NotifyCancelNeedMediaData(s)
    BY <1>2 DEF DropRequest, StarveRequest, StartRound, RecordRequest, Receive,
                NotifyCancelNeedMediaData
  <2> QED BY <1>2, <2>2, <2>3, <2>4, <2>5, <2>6, <2>7 DEF Fed
<1>3. CASE HaveData(s)
  <2>1. cb'.phase = "idle" /\ allSegmentsAccepted' = allSegmentsAccepted
    BY <1>3 DEF HaveData, Idle
  <2>2. cb.phase = "answer"
    BY <1>3 DEF HaveData
  <2>3. seen'.error = seen.error
    BY <2>2 DEF Fed, DropRequest, StarveRequest, StartRound, RecordRequest, Receive,
                RejectSegment
  <2> QED BY <1>0, <2>1, <2>3
<1>4. CASE NotifyCancelNeedMediaData(s) /\ seen' = seen
  BY <1>0, <1>4 DEF NotifyCancelNeedMediaData, Receive
<1>5. cb.phase = "idle" =>
        \/ DropRequest(s) \/ StarveRequest(s) \/ StartRound(s)
        \/ NotifyCancelNeedMediaData(s) /\ seen' = seen
  BY DEF Fed, AnswerStarved, AcceptSegment, RejectSegment, CommitRound, HaveData
<1> QED BY <1>1, <1>2, <1>3, <1>4, <1>5

\* AcceptedInv, as the server asks.
LEMMA AcceptedRequest ==
  ASSUME FeedInv, AcceptedInv, Stays, Request
  PROVE  AcceptedInv'
<1>1. PICK s \in Sources, n \in FrameCounts : RequestData(s, n)
  BY RequestFeed
<1>2. /\ cb' = cb /\ allSegmentsAccepted' = allSegmentsAccepted /\ seen' = seen
  BY RequestFeed, RequestRecord DEF observations
<1>3. ASSUME Steady, cb.phase # "idle" PROVE FALSE
  <2>1. cb.src \in Sources /\ cb.id # None
    BY <1>3, QueueTypes, FeedAssumption DEF Idle, Round, Answer
  <2>2. outstanding[cb.src] # None
    BY <1>3, <2>1 DEF AcceptedInv, Steady
  <2>3. outstanding[s] = None
    BY <1>1 DEF RequestData
  <2> QED BY <2>1, <2>2, <2>3, OneSource
<1> QED BY <1>2, <1>3 DEF AcceptedInv, Steady, Stays

\* AcceptedInv, as the case takes a step.
LEMMA AcceptedTest ==
  ASSUME PlayTypes, FeedInv, AcceptedInv, TestDoes
  PROVE  AcceptedInv'
<1>1. /\ case' = case /\ cb' = cb /\ allSegmentsAccepted' = allSegmentsAccepted
  BY TestFeed DEF TestDoes, Advance, observations
<1>2. seen'.error = seen.error
  BY TestFeed DEF Called
<1>3. CASE outstanding' = outstanding
  BY <1>1, <1>2, <1>3 DEF AcceptedInv
<1>4. CASE case \in {Flushing, Seeking, Cancelling}
  BY <1>1, <1>4 DEF AcceptedInv
<1> QED BY <1>3, <1>4, TestRequests

-----------------------------------------------------------------------------
(***************************************************************************)
(* What finds no space: ResentInv.                                         *)
(***************************************************************************)

\* ResentInv, where the feed is left alone.
LEMMA ResentStays ==
  ASSUME ResentInv, Stays, UNCHANGED vars, seen'.noSpace = seen.noSpace
  PROVE  ResentInv'
  BY DEF ResentInv, Stays, vars, observations

\* ResentInv, as the server asks.
LEMMA ResentRequest ==
  ASSUME ResentInv, Stays, Request
  PROVE  ResentInv'
<1>1. PICK s \in Sources, n \in FrameCounts : RequestData(s, n)
  BY RequestFeed
<1>2. ~ended[s]
  BY <1>1 DEF RequestData
<1>3. /\ UNCHANGED <<cb, nextFrame, observations, ended>> /\ seen' = seen
  BY RequestFeed, RequestRecord
<1> QED BY <1>2, <1>3 DEF ResentInv, Stays, observations

\* What a refilling case knows until it has slept.
RefillInv ==
  /\ seen.noSpace => noSpaceSegmentAccepted \/ \E s \in Sources : noSpaceFrame[s] # None
  /\ \A s \in Sources : ended[s] => nextFrame[s] = StreamLength
  /\ cb.phase = "answer" /\ cb.status = "EOS" => nextFrame[cb.src] = StreamLength

\* No step of the feed undoes it.
LEMMA RefillFeed ==
  ASSUME FeedInv, TypeOK', RefillInv, NEW s \in Sources, Fed(s)
  PROVE  RefillInv'
<1>t. /\ cb \in {Idle} \cup Round \cup Answer /\ TypeOK /\ RoundInv /\ StreamLength \in Nat
      /\ noSpaceFrame \in [Sources -> Frames \cup {None}]
      /\ nextFrame \in [Sources -> 0 .. StreamLength]
      /\ nextFrame' \in [Sources -> 0 .. StreamLength]
      /\ ended \in [Sources -> BOOLEAN]
  BY QueueTypes, FeedAssumption DEF FeedInv, IInv, TypeOK
<1>s. \A t \in Sources : t = s
  BY OneSource
<1> USE DEF observations
<1>1. CASE (DropRequest(s) \/ StarveRequest(s) \/ StartRound(s)) /\ seen'.noSpace = seen.noSpace
  <2>1. RecordRequest(s) /\ cb = Idle
    BY <1>1, <1>t DEF DropRequest, StarveRequest, StartRound, RecordRequest, Receive, Idle,
       Round, Answer
  <2>2. cb'.phase # "answer"
    <3>1. CASE StartRound(s)
      <4>1. cb'.phase = "offer"
        BY <3>1, <2>1 DEF StartRound, Idle
      <4> QED BY <4>1
    <3>2. CASE StarveRequest(s)
      <4>1. cb' = [Idle EXCEPT !.phase = "starve", !.src = s, !.id = Head(queue).id]
        BY <3>2, <2>1 DEF StarveRequest
      <4>2. cb'.phase = "starve"
        BY <4>1 DEF Idle
      <4> QED BY <4>2
    <3>3. CASE DropRequest(s)
      <4>1. cb' = cb
        BY <3>3 DEF DropRequest
      <4> QED BY <4>1, <2>1 DEF Idle
    <3> QED BY <1>1, <3>1, <3>2, <3>3
  <2> QED BY <1>1, <2>1, <2>2 DEF RefillInv, RecordRequest
<1>2. CASE AnswerStarved(s) /\ seen' = seen
  <2>1. cb \in Answer
    BY <1>2, <1>t DEF AnswerStarved, Idle, Round
  <2>2. cb'.status = "OK"
    BY <1>2, <2>1 DEF AnswerStarved, Answer
  <2> QED BY <1>2, <2>2 DEF RefillInv, AnswerStarved
<1>3. CASE AcceptSegment(s) /\ seen' = seen
  <2>1. cb'.phase = "offer"
    BY <1>3, <1>t DEF AcceptSegment, Idle, Round, Answer
  <2>2. noSpaceFrame'[s] = noSpaceFrame[s] \/ noSpaceSegmentAccepted'
    BY <1>3, <1>t DEF AcceptSegment
  <2>3. noSpaceSegmentAccepted => noSpaceSegmentAccepted'
    BY <1>3 DEF AcceptSegment
  <2> QED BY <1>3, <1>s, <2>1, <2>2, <2>3 DEF RefillInv, AcceptSegment
<1>4. CASE RejectSegment(s, "NO_SPACE")
  <2>1. cb'.phase = "commit" /\ cb \in Round
    BY <1>4, <1>t DEF RejectSegment, Idle, Round, Answer
  <2>2. noSpaceFrame'[s] = cb.first + cb.accepted
    BY <1>4, <1>t DEF RejectSegment, RejectedFrame
  <2>3. noSpaceFrame'[s] # None
    BY <2>1, <2>2, FeedAssumption DEF Round
  <2> QED BY <1>4, <2>1, <2>3 DEF RefillInv, RejectSegment
<1>5. CASE RejectSegment(s, "ERROR") /\ seen'.noSpace = seen.noSpace
  <2>1. cb'.phase = "commit" /\ cb \in Round
    BY <1>5, <1>t DEF RejectSegment, Idle, Round, Answer
  <2> QED BY <1>5, <2>1 DEF RefillInv, RejectSegment
<1>6. CASE CommitRound(s) /\ seen' = seen
  <2>1. cb \in Round /\ cb.accepted \in Nat
    BY <1>6, <1>t DEF CommitRound, Idle, Round, Answer
  <2>2. /\ nextFrame'[s] = nextFrame[s] + cb.accepted /\ nextFrame[s] \in Nat
        /\ nextFrame'[s] \in 0 .. StreamLength
    BY <1>6, <1>t DEF CommitRound, AdvancedCursor
  <2>3. cb'.status = StatusAt(nextFrame'[s]) /\ cb'.src = s
    BY <1>6, <2>1, <2>2 DEF CommitRound, AdvancedCursor, Round
  <2>4. cb'.status = "EOS" => nextFrame'[s] = StreamLength
    BY <1>t, <2>2, <2>3 DEF StatusAt
  <2>5. ended[s] => nextFrame'[s] = StreamLength
    <3>1. ended[s] => nextFrame[s] = StreamLength
      BY DEF RefillInv
    <3> QED BY <1>t, <2>1, <2>2, <3>1
  <2> QED BY <1>6, <1>s, <2>3, <2>4, <2>5 DEF RefillInv, CommitRound
<1>7. CASE HaveData(s) /\ seen' = seen
  <2>1. cb'.phase = "idle" /\ nextFrame' = nextFrame
    BY <1>7 DEF HaveData, Idle
  <2>2. ended'[s] => nextFrame[s] = StreamLength
    <3>1. CASE ended' = ended
      BY <3>1 DEF RefillInv
    <3>2. CASE ended' = [ended EXCEPT ![s] = (cb.status = "EOS")]
      <4>1. ended'[s] => cb.status = "EOS"
        BY <1>t, <3>2
      <4> QED BY <1>7, <4>1 DEF RefillInv, HaveData
    <3> QED BY <1>7, <3>1, <3>2 DEF HaveData
  <2> QED BY <1>7, <1>s, <2>1, <2>2 DEF RefillInv, HaveData
<1>8. CASE NotifyCancelNeedMediaData(s) /\ seen' = seen
  BY <1>8 DEF RefillInv, NotifyCancelNeedMediaData
<1> QED BY <1>1, <1>2, <1>3, <1>4, <1>5, <1>6, <1>7, <1>8 DEF Fed

\* ResentInv, as the feed runs; it no longer does once the case has slept.
LEMMA ResentFeed ==
  ASSUME FeedInv, TypeOK', ResentInv, Stays, NEW s \in Sources, Fed(s)
  PROVE  ResentInv'
<1> SUFFICES ASSUME case = Refilling
             PROVE  RefillInv' /\ ~(pc > 8)
  BY DEF ResentInv, Stays, RefillInv
<1>1. RefillInv
  BY DEF ResentInv, RefillInv
<1>2. pc > 8 => cb.phase = "idle" /\ queue = << >>
  BY DEF ResentInv
<1>3. cb.phase # "idle" \/ queue # << >>
  BY FedFeed
<1> QED BY <1>1, <1>2, <1>3, RefillFeed

\* Where the refilling case sleeps.
LEMMA RefillingPlaces ==
  ASSUME case = Refilling, pc = 8
  PROVE  Now.do = "sleep"
<1> DEFINE s == Suite["NoSpaceIsNotAnErrorAndTheSegmentIsResent"].script
<1>1. s[8] = Sleep
  BY ScriptNoSpaceIsNotAnErrorAndTheSegmentIsResent
<1>2. Now = s[pc]
  BY DEF Now, Script, Refilling
<1> HIDE DEF s
<1> QED BY <1>1, <1>2 DEF Sleep, Step

\* ResentInv, as the case takes a step: it sleeps until every source has come to its end,
\* and nothing is retained then.
LEMMA ResentTest ==
  ASSUME PlayTypes, FeedInv, BringUpInv, WaitedInv, ResentInv, TestDoes
  PROVE  ResentInv'
<1>1. /\ case' = case /\ cb' = cb /\ observations' = observations
      /\ pc \in Nat /\ pc' = pc + 1
  BY TestFeed DEF TestDoes, Advance
<1> SUFFICES ASSUME case = Refilling PROVE ResentInv'
  BY <1>1 DEF ResentInv
<1>2. seen'.noSpace = seen.noSpace
  BY TestFeed DEF Called
<1>3. UNCHANGED <<queue, outstanding, ended>>
  BY TestRequests DEF Refilling, Flushing, Seeking, Cancelling
<1>4. RefillInv'
  <2>1. CASE nextFrame' = nextFrame
    BY <1>1, <1>2, <1>3, <2>1 DEF ResentInv, RefillInv, observations
  <2>2. CASE nextFrame' # nextFrame
    <3>1. Called(Now.what, Now.value) /\ CallKinds(case, pc, Now)
      BY <2>2, TestFeed DEF vars
    <3>2. Now.what \in {"attachSource", "rewindSource"}
      BY <2>2, <3>1, CallFeed
    <3>3. pc = 4
      BY <3>1, <3>2 DEF CallKinds, AttachAt, Refilling, Seeking, Cancelling
    <3>4. ~allAttached
      BY <3>3 DEF BringUpInv, ReachedAt, ReachAt
    <3>5. cb.phase = "idle" /\ \A s \in Sources : ~ended[s]
      BY <3>4 DEF BringUpInv
    <3> QED BY <1>1, <1>2, <1>3, <3>5 DEF ResentInv, RefillInv, observations
  <2> QED BY <2>1, <2>2
<1>5. ASSUME pc' > 8
      PROVE  /\ cb.phase = "idle" /\ queue = << >>
             /\ \A s \in Sources : ended[s] /\ outstanding[s] = None
             /\ seen.noSpace => noSpaceSegmentAccepted
  <2>1. CASE pc > 8
    BY <2>1 DEF ResentInv
  <2>2. CASE pc = 8
    <3>1. Settled(Short)
      BY <2>2, RefillingPlaces DEF TestDoes, Waited
    <3>2. allAttached /\ ~starve
      BY <2>2 DEF BringUpInv, Starving, ReachedAt, ReachAt, Refilling
    <3>3. case # Cancelling
      BY DEF Refilling, Cancelling
    <3>4. \A s \in Sources : ended[s] /\ outstanding[s] = None
      BY <3>1, <3>2, <3>3, AllEnded
    <3>5. cb.phase = "idle" /\ queue = << >>
      BY <3>1 DEF Settled
    <3>6. ASSUME NEW s \in Sources, noSpaceFrame[s] # None PROVE FALSE
      <4>1. noSpaceFrame[s] \in Frames /\ StreamLength \in Nat
        BY <3>6, FeedAssumption DEF FeedInv, IInv, TypeOK
      <4>2. Cursor(s) <= noSpaceFrame[s] /\ Cursor(s) = nextFrame[s]
        BY <3>5, <3>6 DEF FeedInv, RetainedNotSkipped, Cursor
      <4>3. nextFrame[s] = StreamLength
        BY <3>4 DEF ResentInv
      <4> QED BY <4>1, <4>2, <4>3 DEF Frames
    <3>7. seen.noSpace => noSpaceSegmentAccepted
      BY <3>6 DEF ResentInv
    <3> QED BY <3>4, <3>5, <3>7
  <2> QED BY <1>1, <1>5, <2>1, <2>2
<1> QED BY <1>1, <1>2, <1>3, <1>4, <1>5 DEF ResentInv, RefillInv, observations

-----------------------------------------------------------------------------
(***************************************************************************)
(* Errors while playing: ErrorInv.                                         *)
(***************************************************************************)

\* What is added that is no state leaves the states in order.
LEMMA NoMoveAdded ==
  ASSUME PlayTypes, NEW n, Adds(n), n \notin Moves
  PROVE  /\ LastMove(notices) => LastMove(notices')
         /\ NoMove(notices) => NoMove(notices')
<1>1. notices \in Seq(Notes) /\ n \in Notes /\ notices' = Append(notices, n)
  BY DEF PlayTypes, Adds
<1>2. /\ Len(notices) \in Nat
      /\ DOMAIN notices = 1 .. Len(notices) /\ DOMAIN notices' = 1 .. Len(notices) + 1
      /\ \A i \in 1 .. Len(notices) : notices'[i] = notices[i]
      /\ notices'[Len(notices) + 1] = n
  <2> HIDE DEF Notes
  <2> QED BY <1>1, AddedAt
<1>3. \A i \in 1 .. Len(notices) + 1 : i \in 1 .. Len(notices) \/ i = Len(notices) + 1
  BY <1>2
<1>4. "PLAYING" \in Moves
  BY DEF Moves
<1>5. ASSUME LastMove(notices) PROVE LastMove(notices')
  <2> SUFFICES ASSUME NEW i \in DOMAIN notices', NEW j \in DOMAIN notices',
                      notices'[i] = "PLAYING", j > i
               PROVE  notices'[j] \notin Moves
    BY DEF LastMove
  <2>1. CASE j = Len(notices) + 1
    BY <1>2, <2>1
  <2>2. CASE j \in 1 .. Len(notices)
    <3>1. i \in 1 .. Len(notices)
      BY <1>2, <2>2
    <3> QED BY <1>2, <1>5, <2>2, <3>1 DEF LastMove
  <2> QED BY <1>2, <1>3, <2>1, <2>2
<1>6. ASSUME NoMove(notices) PROVE NoMove(notices')
  <2> SUFFICES ASSUME NEW i \in DOMAIN notices'
               PROVE  notices'[i] \notin Moves
    BY DEF NoMove
  <2> QED BY <1>2, <1>3, <1>6 DEF NoMove
<1> QED BY <1>5, <1>6

\* No state follows PLAYING while PLAYING is not on its way.
LEMMA MoveAdded ==
  ASSUME PlayTypes, NEW n, Adds(n), ~Coming("PLAYING")
  PROVE  LastMove(notices')
<1>1. notices \in Seq(Notes) /\ n \in Notes /\ notices' = Append(notices, n)
  BY DEF PlayTypes, Adds
<1>2. /\ Len(notices) \in Nat
      /\ DOMAIN notices = 1 .. Len(notices) /\ DOMAIN notices' = 1 .. Len(notices) + 1
      /\ \A i \in 1 .. Len(notices) : notices'[i] = notices[i]
  <2> HIDE DEF Notes
  <2> QED BY <1>1, AddedAt
<1> SUFFICES ASSUME NEW i \in DOMAIN notices', NEW j \in DOMAIN notices',
                    notices'[i] = "PLAYING", j > i
             PROVE  FALSE
  BY DEF LastMove
<1>3. i \in 1 .. Len(notices)
  BY <1>2
<1> QED BY <1>2, <1>3 DEF Coming, Has

\* ErrorInv, where nothing of it moves but for an event or an error on its way.
LEMMA ErrorKept ==
  ASSUME PlayTypes, ErrorInv, case' = case, ~Stopping' => ~Stopping,
         seen'.states = seen.states, seen'.lastState = seen.lastState,
         seen'.stateAtLastError = seen.stateAtLastError, srv'.state = srv.state,
         ~srv'.corrupt => ~srv.corrupt,
         notices' = notices
           \/ \E n : Adds(n) /\ n \notin Moves /\ (n = "ERROR" => srv.corrupt)
  PROVE  ErrorInv'
<1> SUFFICES ASSUME case = Erring, ~Stopping'
             PROVE  ErrorInv'
  BY DEF ErrorInv
<1>1. /\ LastMove(notices)
      /\ "PLAYING" \in seen.states => seen.lastState = "PLAYING" /\ NoMove(notices)
      /\ srv.state # "END_OF_STREAM"
      /\ ~srv.corrupt => ~Coming("ERROR") /\ seen.stateAtLastError = None
      /\ seen.stateAtLastError \in {None, "PLAYING"}
  BY DEF ErrorInv
<1>2. /\ LastMove(notices')
      /\ NoMove(notices) => NoMove(notices')
      /\ ~srv.corrupt => ~Coming("ERROR")'
  <2>1. CASE notices' = notices
    BY <1>1, <2>1 DEF Coming, Has
  <2>2. ASSUME NEW n, Adds(n), n \notin Moves, n = "ERROR" => srv.corrupt
        PROVE  /\ LastMove(notices')
               /\ NoMove(notices) => NoMove(notices')
               /\ ~srv.corrupt => ~Coming("ERROR")'
    BY <1>1, <2>2, NoMoveAdded, Noted DEF Coming
  <2> QED BY <2>1, <2>2
<1> QED BY <1>1, <1>2 DEF ErrorInv

\* ErrorInv, as a notification is delivered.
LEMMA ErrorNotify ==
  ASSUME PlayTypes, WalkInv, BringUpInv, StateInv, ErrorInv, Notify, Stays
  PROVE  ErrorInv'
<1> SUFFICES ASSUME case = Erring, ~Stopping
             PROVE  ErrorInv'
  BY StaysStopping DEF ErrorInv, Stays
<1>1. /\ LastMove(notices)
      /\ "PLAYING" \in seen.states => seen.lastState = "PLAYING" /\ NoMove(notices)
      /\ srv.state # "END_OF_STREAM"
      /\ ~srv.corrupt => ~Coming("ERROR") /\ seen.stateAtLastError = None
      /\ seen.stateAtLastError \in {None, "PLAYING"}
  BY DEF ErrorInv
<1> DEFINE n == notices[1]
<1>2. Delivered(n) /\ \A m : Has(notices, m) <=> m = n \/ Has(notices', m)
  BY NotifyDoes
<1>3. /\ DOMAIN notices = 1 .. Len(notices) /\ 1 \in DOMAIN notices
      /\ \A i \in DOMAIN notices' :
           i \in Nat /\ i + 1 \in DOMAIN notices /\ notices'[i] = notices[i + 1]
  <2>1. notices \in Seq(Notes) /\ notices # << >> /\ notices' = Tail(notices)
    BY <1>2 DEF PlayTypes, Delivered
  <2> HIDE DEF Notes
  <2> QED BY <2>1, Removed
<1>4. LastMove(notices')
  <2> SUFFICES ASSUME NEW i \in DOMAIN notices', NEW j \in DOMAIN notices',
                      notices'[i] = "PLAYING", j > i
               PROVE  notices'[j] \notin Moves
    BY DEF LastMove
  <2>1. j + 1 > i + 1 /\ notices[i + 1] = "PLAYING"
    BY <1>3
  <2> QED BY <1>1, <1>3, <2>1 DEF LastMove
<1>5. NoMove(notices) => NoMove(notices')
  BY <1>3 DEF NoMove
<1>6. n = "PLAYING" => NoMove(notices')
  <2> SUFFICES ASSUME n = "PLAYING", NEW j \in DOMAIN notices'
               PROVE  notices'[j] \notin Moves
    BY DEF NoMove
  <2>1. j + 1 > 1
    BY <1>3
  <2> QED BY <1>1, <1>3, <2>1 DEF LastMove
<1>7. ~Coming("ERROR") => ~Coming("ERROR")'
  BY <1>2 DEF Coming
<1>8. srv' = srv
  BY <1>2 DEF Delivered
<1> HIDE DEF n
<1>9. CASE n \in Moves
  <2>1. /\ seen'.states = seen.states \cup {n} /\ seen'.lastState = n
        /\ seen'.stateAtLastError = seen.stateAtLastError
    BY <1>2, <1>9 DEF Delivered
  <2>2. "PLAYING" \in seen.states => FALSE
    BY <1>1, <1>3, <1>9 DEF NoMove, n
  <2> QED BY <1>1, <1>4, <1>6, <1>7, <1>8, <2>1, <2>2 DEF ErrorInv
<1>10. CASE n \in Events
  <2>1. /\ seen'.states = seen.states /\ seen'.lastState = seen.lastState
        /\ seen'.stateAtLastError = seen.stateAtLastError
    BY <1>2, <1>10 DEF Delivered
  <2> QED BY <1>1, <1>4, <1>5, <1>7, <1>8, <2>1 DEF ErrorInv
<1>11. CASE n = "ERROR"
  <2>1. /\ seen'.states = seen.states /\ seen'.lastState = seen.lastState
        /\ seen'.stateAtLastError = seen.lastState
    BY <1>2, <1>11 DEF Delivered
  <2>2. srv.corrupt
    BY <1>1, <1>2, <1>11 DEF Coming
  <2>3. pc > ReachedAt /\ case # Unplayed
    <3>1. pc > 7 /\ pc \in Nat
      BY <2>2, PcIsNat DEF BringUpInv
    <3>2. ReachedAt = 6 /\ case # Unplayed
      BY DEF ReachedAt, ReachAt, Erring, Getters, Unplayed, Seeking, Refilling
    <3> QED BY <3>1, <3>2
  <2>4. "PLAYING" \in seen.states
    <3>1. Observed("PLAYING") /\ seen.events \subseteq Events
      BY <2>3 DEF StateInv, PlayTypes
    <3> QED BY <3>1 DEF Observed, Events
  <2> QED BY <1>1, <1>4, <1>5, <1>8, <2>1, <2>2, <2>4 DEF ErrorInv
<1> QED BY <1>2, <1>9, <1>10, <1>11 DEF Delivered, Notes

\* ErrorInv, as the worker thread runs.
LEMMA ErrorWork ==
  ASSUME PlayTypes, Conforms, BringUpInv, ErrorInv, Work, Stays
  PROVE  ErrorInv'
<1>1. Applied(tasks[1]) /\ Due(tasks[1].do)
  BY WorkDoes, WorkDue
<1>2. CASE tasks[1].do = "seek"
  <2>1. case' = case /\ case # Erring
    BY <1>1, <1>2 DEF BringUpInv, Stays, Seeking, Erring
  <2> QED BY <2>1 DEF ErrorInv
<1>3. CASE tasks[1].do # "seek"
  <2>1. notices' = notices \/ Adds("FLUSHED")
    BY <1>1, <1>3 DEF Applied, Tasks
  <2>2. "FLUSHED" \notin Moves
    BY DEF Moves
  <2>3. /\ seen' = seen /\ srv'.state = srv.state /\ srv'.corrupt = srv.corrupt
        /\ case' = case /\ (Stopping' <=> Stopping)
    BY <1>1, StaysStopping DEF Applied, Stays
  <2> QED BY <2>1, <2>2, <2>3, ErrorKept
<1> QED BY <1>2, <1>3

\* ErrorInv, as the playback moves.
LEMMA ErrorPlay ==
  ASSUME PlayTypes, Conforms, BringUpInv, StateInv, PlayInv, ErrorInv, Play(Short), Stays
  PROVE  ErrorInv'
<1> SUFFICES ASSUME case = Erring, ~Stopping
             PROVE  ErrorInv'
  BY StaysStopping DEF ErrorInv, Stays
<1>1. /\ "PLAYING" \in seen.states => seen.lastState = "PLAYING" /\ NoMove(notices)
      /\ ~srv.corrupt => ~Coming("ERROR") /\ seen.stateAtLastError = None
      /\ seen.stateAtLastError \in {None, "PLAYING"}
  BY DEF ErrorInv
<1>2. seen' = seen
  BY PlayDoes
<1>3. ~Pausing
  BY DEF Pausing, Erring, Rendering, Transport
<1>4. ~CanPause /\ ~CanStop /\ ~CanFinishSeek /\ ~CanEnd(Short)
  BY <1>3 DEF CanPause, CanStop, CanFinishSeek, CanEnd, PlayInv, BringUpInv, Short, Erring,
     Seeking
<1>5. PICK state \in {"PAUSED", "PLAYING"} : Turned(state) /\ Adds(state)
  BY <1>4, PlayDoes
<1>6. ~Ahead("PLAYING")
  <2>1. CanPreroll \/ CanStart
    BY <1>4, PlayDoes
  <2> QED BY <1>3, <2>1 DEF CanPreroll, CanStart, StateInv, PlayInv
<1>7. LastMove(notices')
  BY <1>5, <1>6, MoveAdded DEF Ahead
<1>8. "PLAYING" \notin seen.states
  BY <1>6 DEF Ahead, Observed
<1>9. ~Coming("ERROR") => ~Coming("ERROR")'
  BY <1>5, Noted DEF Coming
<1>10. srv'.state # "END_OF_STREAM" /\ srv'.corrupt = srv.corrupt
  BY <1>5 DEF Turned
<1> QED BY <1>1, <1>2, <1>7, <1>8, <1>9, <1>10 DEF ErrorInv

\* ErrorInv, as the feed runs.
LEMMA ErrorFeed ==
  ASSUME PlayTypes, ErrorInv, FeedRecord, Stays
  PROVE  ErrorInv'
<1>1. "UNDERFLOW" \notin Moves /\ "ERROR" \notin Moves
  BY DEF Moves
<1>2. \/ notices' = notices
      \/ \E n : Adds(n) /\ n \notin Moves /\ (n = "ERROR" => srv.corrupt)
  BY <1>1 DEF FeedRecord
<1>3. case' = case /\ (Stopping' <=> Stopping)
  BY StaysStopping DEF Stays
<1> QED BY <1>2, <1>3, ErrorKept DEF FeedRecord, RecordKept

\* ErrorInv, as the server asks.
LEMMA ErrorRequest ==
  ASSUME PlayTypes, ErrorInv, Request, Stays
  PROVE  ErrorInv'
<1>1. seen' = seen /\ notices' = notices /\ srv' = srv
  BY RequestRecord
<1>2. case' = case /\ (Stopping' <=> Stopping)
  BY StaysStopping DEF Stays
<1> QED BY <1>1, <1>2, ErrorKept

\* ErrorInv, as the case takes a step.
LEMMA ErrorTest ==
  ASSUME PlayTypes, ErrorInv, TestDoes
  PROVE  ErrorInv'
<1>1. RecordKept
  BY TestRecord
<1>2. "BUFFERING" \notin Moves
  BY DEF Moves
<1>3. notices' = notices \/ Adds("BUFFERING")
  BY TestFeed DEF Called
<1>4. srv.corrupt => srv'.corrupt
  <2>1. CASE srv'.corrupt = srv.corrupt
    BY <2>1
  <2>2. CASE srv'.corrupt # srv.corrupt
    BY <2>2, TestFeed DEF Called
  <2> QED BY <2>1, <2>2
<1>5. case' = case /\ (Stopping => Stopping')
  <2>1. /\ case' = case /\ Script' = Script /\ pc \in Nat /\ pc' = pc + 1 /\ ~Finished
    BY DEF TestDoes, Advance
  <2> QED BY <2>1 DEF Stopping
<1> QED BY <1>1, <1>3, <1>2, <1>4, <1>5, ErrorKept DEF RecordKept

-----------------------------------------------------------------------------
(***************************************************************************)
(* The invariant, as each thread runs.                                     *)
(***************************************************************************)

\* What only the feed moves.
LEMMA FeedUntouched ==
  ASSUME PlayInvariant, Stays, UNCHANGED vars, seen'.noSpace = seen.noSpace,
         seen'.error = seen.error
  PROVE  /\ FlushedInv' /\ WaitedInv' /\ AcceptedInv' /\ ResentInv'
         /\ UNCHANGED <<binding, modes>> /\ UNCHANGED <<queue, cb, outstanding, ended>>
<1>1. /\ queue' = queue /\ silent' = silent /\ UNCHANGED <<queue, outstanding, cb>>
      /\ UNCHANGED <<cb, outstanding, allSegmentsAccepted>>
      /\ UNCHANGED <<binding, modes>> /\ UNCHANGED <<queue, cb, outstanding, ended>>
  BY DEF vars, history, observations
<1>2. FlushedInv /\ WaitedInv /\ AcceptedInv /\ ResentInv
  BY DEF PlayInvariant
<1>3. FlushedInv'
  BY <1>1, <1>2, FlushedStays
<1>4. WaitedInv'
  BY <1>1, <1>2, WaitedStays
<1>5. AcceptedInv'
  BY <1>1, <1>2, AcceptedStays
<1>6. ResentInv'
  BY <1>2, ResentStays
<1> QED BY <1>1, <1>3, <1>4, <1>5, <1>6

\* The client's IPC thread keeps the invariant.
LEMMA NotifyKeeps ==
  ASSUME WalkInv, FeedInv, PlayInvariant, Conforms, Notify, Stays
  PROVE  PlayInvariant'
<1>1. /\ PlayTypes /\ BringUpInv /\ StateInv /\ PlayInv /\ FlushInv /\ SeekInv /\ WrittenInv
      /\ RequestedInv /\ BufferedInv /\ ErrorInv /\ ~failed
  BY DEF PlayInvariant
<1>2. AheadKept /\ tasks' = tasks /\ fault' = fault
  BY <1>1, NotifyKeepsAhead
<1>3. /\ PlayTypes' /\ UNCHANGED vars /\ srv' = srv /\ head' = head
      /\ seen'.requested = seen.requested /\ seen'.noSpace = seen.noSpace
      /\ seen'.error = seen.error
  BY <1>1, NotifyDoes DEF Delivered
<1>4. /\ FlushedInv' /\ WaitedInv' /\ AcceptedInv' /\ ResentInv'
      /\ UNCHANGED <<binding, modes>> /\ UNCHANGED <<queue, cb, outstanding, ended>>
  BY <1>3, FeedUntouched
<1>5. BringUpInv'
  BY <1>1, <1>2, <1>3, <1>4, BringUpStays
<1>6. StateInv' /\ PlayInv' /\ FlushInv' /\ SeekInv' /\ WrittenInv'
  BY <1>1, <1>2, StateStays, PlayStays, FlushStays, SeekStays, WrittenStays
<1>7. RequestedInv'
  BY <1>1, <1>3, RequestedStays
<1>8. BufferedInv'
  BY <1>1, BufferedNotify
<1>9. ErrorInv'
  BY <1>1, ErrorNotify
<1>10. ~failed'
  BY <1>1 DEF Stays
<1> QED BY <1>3, <1>4, <1>5, <1>6, <1>7, <1>8, <1>9, <1>10 DEF PlayInvariant

\* The server's worker thread keeps it.
LEMMA WorkKeeps ==
  ASSUME WalkInv, FeedInv, PlayInvariant, Conforms, Work, Stays
  PROVE  PlayInvariant'
<1>1. /\ PlayTypes /\ BringUpInv /\ StateInv /\ PlayInv /\ FlushInv /\ SeekInv /\ WrittenInv
      /\ RequestedInv /\ BufferedInv /\ ErrorInv /\ ~failed
  BY DEF PlayInvariant
<1>2. Applied(tasks[1]) /\ PlayTypes'
  BY <1>1, WorkDoes
<1>3. UNCHANGED vars /\ seen' = seen /\ srv'.state = srv.state /\ head' = head
  BY <1>2 DEF Applied
<1>4. FlushedInv' /\ WaitedInv' /\ AcceptedInv' /\ ResentInv'
  BY <1>3, FeedUntouched
<1>5. BringUpInv'
  BY <1>1, BringUpWork
<1>6. StateInv' /\ PlayInv' /\ FlushInv' /\ SeekInv' /\ WrittenInv'
  BY <1>1, StateWork, PlayWork, FlushWork, SeekWork, WrittenWork
<1>7. RequestedInv'
  BY <1>1, <1>3, RequestedStays
<1>8. BufferedInv'
  <2>1. case = Clean => pc > 2
    <3>1. pc >= ReachedAt /\ pc \in Nat /\ ReachedAt \in {6, 7}
      BY <1>1, WorkReached, PcIsNat DEF ReachedAt, ReachAt
    <3> QED BY <3>1
  <2>2. notices' = notices \/ \E n : Adds(n)
    BY <1>2 DEF Applied, Tasks
  <2> QED BY <1>1, <1>3, <2>1, <2>2, BufferedStays
<1>9. ErrorInv'
  BY <1>1, ErrorWork
<1>10. ~failed'
  BY <1>1 DEF Stays
<1> QED BY <1>2, <1>4, <1>5, <1>6, <1>7, <1>8, <1>9, <1>10 DEF PlayInvariant

\* The load has been made before every source is attached.
LEMMA AttachedLate ==
  ASSUME WalkInv, BringUpInv, allAttached
  PROVE  case = Clean => pc > 2
<1>1. pc > ReachedAt - 2 /\ pc \in Nat /\ ReachedAt \in {6, 7}
  BY PcIsNat DEF BringUpInv, ReachedAt, ReachAt
<1> QED BY <1>1

\* The server's playback keeps it.
LEMMA PlayKeeps ==
  ASSUME WalkInv, FeedInv, PlayInvariant, Conforms, Play(Short), Stays
  PROVE  PlayInvariant'
<1>1. /\ PlayTypes /\ BringUpInv /\ StateInv /\ PlayInv /\ FlushInv /\ SeekInv /\ WrittenInv
      /\ RequestedInv /\ BufferedInv /\ ErrorInv /\ ~failed
  BY DEF PlayInvariant
<1>2. PlayTypes' /\ UNCHANGED vars /\ seen' = seen
  BY <1>1, PlayDoes
<1>3. FlushedInv' /\ WaitedInv' /\ AcceptedInv' /\ ResentInv'
  BY <1>2, FeedUntouched
<1>4. BringUpInv'
  BY <1>1, BringUpPlay
<1>5. StateInv' /\ PlayInv' /\ FlushInv' /\ SeekInv' /\ WrittenInv'
  BY <1>1, StatePlay, PlayPlay, FlushPlay, SeekPlay, WrittenPlay
<1>6. RequestedInv'
  BY <1>1, RequestedPlay
<1>7. BufferedInv'
  <2>1. case = Clean => pc > 2
    BY <1>1, PlayAttached, AttachedLate
  <2>2. notices' = notices \/ \E n : Adds(n)
    BY <1>1, PlayDoes
  <2> QED BY <1>1, <1>2, <2>1, <2>2, BufferedStays
<1>8. ErrorInv'
  BY <1>1, ErrorPlay
<1>9. ~failed'
  BY <1>1 DEF Stays
<1> QED BY <1>2, <1>3, <1>4, <1>5, <1>6, <1>7, <1>8, <1>9 DEF PlayInvariant

\* The callback thread keeps it.
LEMMA FeedKeeps ==
  ASSUME WalkInv, FeedInv, FeedInv', PlayInvariant, Conforms, Feed, Stays
  PROVE  PlayInvariant'
<1>1. /\ PlayTypes /\ BringUpInv /\ StateInv /\ PlayInv /\ FlushInv /\ SeekInv /\ WrittenInv
      /\ RequestedInv /\ BufferedInv /\ ErrorInv /\ ~failed
      /\ FlushedInv /\ WaitedInv /\ AcceptedInv /\ ResentInv
  BY DEF PlayInvariant
<1>2. FeedRecord
  BY <1>1, FeedDoes DEF FeedInv
<1>3. PICK s \in Sources : Fed(s)
  BY <1>1, FeedDoes DEF FeedInv
<1>4. RecordKept /\ tasks' = tasks /\ fault' = fault /\ srv'.corrupt = srv.corrupt /\ PlayTypes'
  BY <1>2 DEF FeedRecord
<1>5. AheadKept
  BY <1>4, KeptAhead
<1>6. TypeOK'
  BY DEF FeedInv, IInv
<1>7. allAttached
  <2>1. cb.phase # "idle" \/ queue # << >>
    BY <1>3, FedFeed
  <2> QED BY <1>1, <2>1 DEF BringUpInv
<1>8. BringUpInv'
  BY <1>1, <1>3, <1>4, <1>5, <1>7, FedFeed, BringUpStays
<1>9. StateInv' /\ PlayInv' /\ FlushInv' /\ SeekInv' /\ WrittenInv'
  BY <1>1, <1>4, <1>5, StateStays, PlayStays, FlushStays, SeekStays, WrittenStays
<1>10. FlushedInv' /\ WaitedInv' /\ AcceptedInv' /\ ResentInv'
  BY <1>1, <1>3, <1>6, FlushedFeed, WaitedFeed, AcceptedFeed, ResentFeed
<1>11. RequestedInv'
  BY <1>1, <1>3, <1>4, RequestedFeed DEF RecordKept
<1>12. BufferedInv'
  <2>1. case = Clean => pc > 2
    BY <1>1, <1>7, AttachedLate
  <2>2. notices' = notices \/ \E n : Adds(n)
    BY <1>2 DEF FeedRecord
  <2>3. seen'.states = seen.states /\ seen'.events = seen.events
    BY <1>4 DEF RecordKept
  <2> QED BY <1>1, <2>1, <2>2, <2>3, BufferedStays
<1>13. ErrorInv'
  BY <1>1, <1>2, ErrorFeed
<1>14. ~failed'
  BY <1>1 DEF Stays
<1> QED BY <1>4, <1>8, <1>9, <1>10, <1>11, <1>12, <1>13, <1>14 DEF PlayInvariant

\* The server's requests keep it.
LEMMA RequestKeeps ==
  ASSUME WalkInv, FeedInv, PlayInvariant, Conforms, Request, Stays
  PROVE  PlayInvariant'
<1>1. /\ PlayTypes /\ BringUpInv /\ StateInv /\ PlayInv /\ FlushInv /\ SeekInv /\ WrittenInv
      /\ RequestedInv /\ BufferedInv /\ ErrorInv /\ ~failed
      /\ FlushedInv /\ WaitedInv /\ AcceptedInv /\ ResentInv
  BY DEF PlayInvariant
<1>2. /\ AheadKept /\ tasks' = tasks /\ fault' = fault
      /\ notices' = notices /\ seen' = seen /\ srv' = srv /\ head' = head
  BY RequestRecord
<1>3. UNCHANGED <<binding, modes>> /\ allAttached
  BY RequestFeed
<1>4. PlayTypes'
  BY <1>1, RequestTypes
<1>5. BringUpInv'
  BY <1>1, <1>2, <1>3, BringUpStays
<1>6. StateInv' /\ PlayInv' /\ FlushInv' /\ SeekInv' /\ WrittenInv'
  BY <1>1, <1>2, StateStays, PlayStays, FlushStays, SeekStays, WrittenStays
<1>7. FlushedInv' /\ WaitedInv' /\ AcceptedInv' /\ ResentInv' /\ RequestedInv'
  BY <1>1, FlushedRequest, WaitedRequest, AcceptedRequest, ResentRequest, RequestedRequest
<1>8. BufferedInv'
  BY <1>1, <1>2, <1>3, AttachedLate, BufferedStays
<1>9. ErrorInv'
  BY <1>1, ErrorRequest
<1>10. ~failed'
  BY <1>1 DEF Stays
<1> QED BY <1>4, <1>5, <1>6, <1>7, <1>8, <1>9, <1>10 DEF PlayInvariant

\* The test thread keeps it.
LEMMA TestKeeps ==
  ASSUME WalkInv, FeedInv, PlayInvariant, Conforms, TestCase
  PROVE  PlayInvariant'
<1>1. /\ PlayTypes /\ BringUpInv /\ StateInv /\ PlayInv /\ FlushInv /\ SeekInv /\ WrittenInv
      /\ RequestedInv /\ BufferedInv /\ ErrorInv /\ ~failed
      /\ FlushedInv /\ WaitedInv /\ AcceptedInv /\ ResentInv
  BY DEF PlayInvariant
<1>2. TestDoes
  BY TestSteps
<1>3. PlayTypes' /\ failed' = failed
  BY <1>2 DEF TestDoes, Advance
<1>4. BringUpInv'
  BY <1>1, <1>2, BringUpTest
<1>5. StateInv' /\ PlayInv' /\ FlushInv' /\ SeekInv' /\ WrittenInv'
  BY <1>1, <1>2, StateTest, PlayTest, FlushTest, SeekTest, WrittenTest
<1>6. FlushedInv' /\ WaitedInv' /\ AcceptedInv' /\ ResentInv' /\ RequestedInv'
  BY <1>1, <1>2, FlushedTest, WaitedTest, AcceptedTest, ResentTest, RequestedTest
<1>7. BufferedInv' /\ ErrorInv'
  BY <1>1, <1>2, BufferedTest, ErrorTest
<1> QED BY <1>1, <1>3, <1>4, <1>5, <1>6, <1>7 DEF PlayInvariant

\* It holds when nothing changes.
LEMMA StutterKeeps ==
  ASSUME PlayInvariant, UNCHANGED caseVars
  PROVE  PlayInvariant'
<1>1. /\ PlayTypes /\ BringUpInv /\ StateInv /\ PlayInv /\ FlushInv /\ SeekInv /\ WrittenInv
      /\ RequestedInv /\ BufferedInv /\ ErrorInv /\ ~failed
  BY DEF PlayInvariant
<1>2. /\ UNCHANGED vars /\ fault' = fault /\ seen' = seen /\ notices' = notices
      /\ tasks' = tasks /\ srv' = srv /\ head' = head
      /\ UNCHANGED <<case, pc, failed>>
  BY DEF caseVars, playbackVars
<1>3. Stays
  BY <1>2, ServerStays
<1>4. AheadKept
  BY <1>2, KeptAhead DEF RecordKept, Coming
<1>5. /\ FlushedInv' /\ WaitedInv' /\ AcceptedInv' /\ ResentInv'
      /\ UNCHANGED <<binding, modes>> /\ UNCHANGED <<queue, cb, outstanding, ended>>
  BY <1>2, <1>3, FeedUntouched
<1>6. BringUpInv'
  BY <1>1, <1>2, <1>3, <1>4, <1>5, BringUpStays
<1>7. StateInv' /\ PlayInv' /\ FlushInv' /\ SeekInv' /\ WrittenInv'
  BY <1>1, <1>2, <1>3, <1>4, StateStays, PlayStays, FlushStays, SeekStays, WrittenStays
<1>8. RequestedInv'
  BY <1>1, <1>2, <1>3, RequestedStays
<1>9. BufferedInv'
  BY <1>1, <1>2 DEF BufferedInv
<1>10. ErrorInv'
  <2>1. Stopping' <=> Stopping
    BY <1>3, StaysStopping
  <2> QED BY <1>1, <1>2, <2>1, ErrorKept
<1>11. PlayTypes'
  BY <1>1, <1>2 DEF PlayTypes
<1> QED BY <1>1, <1>2, <1>5, <1>6, <1>7, <1>8, <1>9, <1>10, <1>11 DEF PlayInvariant

-----------------------------------------------------------------------------
(***************************************************************************)
(* The theorems.                                                           *)
(***************************************************************************)

\* Every step keeps the invariant, on a server that conforms.
LEMMA PlayKept ==
  ASSUME WalkInv, FeedInv, FeedInv', NInv, [CaseNext]_caseVars
  PROVE  NInv'
<1>1. fault' = fault
  <2>1. CASE CaseNext
    BY <2>1, FaultKept
  <2>2. CASE UNCHANGED caseVars
    BY <2>2 DEF caseVars, playbackVars
  <2> QED BY <2>1, <2>2
<1> SUFFICES ASSUME Conforms
             PROVE  PlayInvariant'
  BY <1>1 DEF NInv, Conforms
<1>2. PlayInvariant
  BY DEF NInv
<1>3. CASE TestCase
  BY <1>2, <1>3, TestKeeps
<1>4. CASE ServerStep /\ UNCHANGED <<case, pc, failed>>
  <2>1. Stays
    BY <1>4, ServerStays
  <2>2. CASE Notify
    BY <1>2, <2>1, <2>2, NotifyKeeps
  <2>3. CASE Work
    BY <1>2, <2>1, <2>3, WorkKeeps
  <2>4. CASE Play(Short)
    BY <1>2, <2>1, <2>4, PlayKeeps
  <2>5. CASE Feed
    BY <1>2, <2>1, <2>5, FeedKeeps
  <2>6. CASE Request
    BY <1>2, <2>1, <2>6, RequestKeeps
  <2>7. CASE Overlap
    <3>1. fault.kind = "overlaps"
      BY <2>7 DEF Overlap, Overlaps, Fault
    <3> QED BY <3>1 DEF Conforms
  <2> QED BY <1>4, <2>2, <2>3, <2>4, <2>5, <2>6, <2>7 DEF ServerStep
<1>5. CASE UNCHANGED caseVars
  BY <1>2, <1>5, StutterKeeps
<1> QED BY <1>3, <1>4, <1>5 DEF CaseNext

\* It holds to begin with.
LEMMA PlayInit ==
  ASSUME CaseInit
  PROVE  NInv
<1> SUFFICES PlayInvariant
  BY DEF NInv
<1>1. /\ case \in Cases /\ pc = 1 /\ failed = FALSE
      /\ pipelineSet = FALSE /\ registered = {} /\ allAttached = FALSE
      /\ nextFrame = [s \in Sources |-> 0] /\ allSegmentsAccepted = TRUE
      /\ noSpaceFrame = [s \in Sources |-> None] /\ starve = FALSE /\ withhold = FALSE
      /\ oversupply = 1 /\ cb = Idle /\ queue = << >> /\ silent = {}
      /\ outstanding = [s \in Sources |-> None] /\ ended = [s \in Sources |-> FALSE]
  BY Zenon DEF CaseInit, ScriptInit, PlaybackInit, Init
<1>2. /\ notices = << >> /\ tasks = << >>
      /\ seen = [states |-> {}, lastState |-> "UNKNOWN", events |-> {},
                 stateAtLastError |-> None, requested |-> FALSE, noSpace |-> FALSE,
                 error |-> FALSE]
      /\ srv = [state |-> "IDLE", target |-> "PAUSED", seeking |-> FALSE,
                property |-> Preset(case), corrupt |-> FALSE, starved |-> FALSE]
      /\ head = [s \in Sources |-> None]
  BY Zenon DEF CaseInit, PlaybackInit
<1>3. DOMAIN notices = {} /\ DOMAIN tasks = {} /\ DOMAIN queue = {}
  BY <1>1, <1>2
<1>4. /\ \A n : ~Coming(n) /\ ~Observed(n) /\ ~Ahead(n)
      /\ \A do : ~Due(do)
      /\ ~Cancelled
  BY <1>2, <1>3 DEF Coming, Observed, Ahead, Due, Has, HasDo, Cancelled
<1>5. ReachedAt \in {6, 7} /\ cb.phase = "idle"
  BY <1>1 DEF ReachedAt, ReachAt, Idle
<1>6. PlayTypes
  BY <1>2 DEF PlayTypes, Preset
<1>7. BringUpInv
  BY <1>1, <1>2, <1>4, <1>5 DEF BringUpInv, BindAt, AttachedAt, AttachAt
<1>8. FlushedInv /\ WaitedInv
  BY <1>1, <1>4 DEF FlushedInv, WaitedInv
<1>9. StateInv /\ FlushInv /\ SeekInv /\ WrittenInv
  BY <1>1, <1>2, <1>4, <1>5 DEF StateInv, FlushInv, SeekInv, WrittenInv
<1>10. PlayInv
  BY <1>1, <1>2, <1>4, <1>5 DEF PlayInv
<1>11. RequestedInv
  BY <1>1, <1>2, <1>5 DEF RequestedInv, AskedInv, ReaskedInv
<1>12. AcceptedInv /\ ResentInv
  BY <1>1, <1>2, <1>5 DEF AcceptedInv, ResentInv
<1>13. BufferedInv /\ ErrorInv
  BY <1>1, <1>2, <1>3, <1>4 DEF BufferedInv, ErrorInv, LastMove
<1> QED BY <1>1, <1>6, <1>7, <1>8, <1>9, <1>10, <1>11, <1>12, <1>13 DEF PlayInvariant

\* The feed's own invariants hold while a case runs.
LEMMA CasesKeepTheFeed == CaseSpec => []FeedInv
<1> QED BY CasesRunTheFeed, Invariance, QueueInvariance, RetainedKept, PTL DEF FeedInv

\* No case of src/L4_e2e/playback fails a server that conforms, whichever thread runs
\* when: it may apply a property late, notify late, run out of space, leave out what it may
\* leave out, and lack an optional property in a case that does not insist on it.
THEOREM ConformingServerPassesHolds == CaseSpec => []ConformingServerPasses
<1>1. CaseInit => NInv
  BY PlayInit
<1>2. WalkInv /\ FeedInv /\ FeedInv' /\ NInv /\ [CaseNext]_caseVars => NInv'
  BY PlayKept
<1>3. NInv => ConformingServerPasses
  BY DEF NInv, PlayInvariant, Conforms, ConformingServerPasses
<1> QED BY <1>1, <1>2, <1>3, CaseWalks, CasesKeepTheFeed, PTL DEF CaseSpec

\* What holds of the feed alone holds in every case: frames reach the server in the order of
\* the stream, none left out or sent twice; a segment that found no space is not passed over;
\* sawOverlappingNeedData() accuses only a server that replaced a request unannounced;
\* m_pendingNeedData does not outlive the request it stands for; and the feed is the channel
\* of FeedContract.
THEOREM CasesKeepFeedPromises ==
  CaseSpec => /\ [](FedInOrder /\ RetainedNotSkipped /\ OverlapExplained /\ PendingExplained)
              /\ FeedIsContract
BY CasesRunTheFeed, InOrder, RetainedKept, OverlapsExplained, PendingAccounted, Implements, PTL
===============================================================================
