---------------------------- MODULE MediaFeedProofs ----------------------------
(***************************************************************************)
(* Proofs about MediaFeed, for every set of sources, stream length, frame  *)
(* count, oversupply and number of interventions.  Its types are as stated *)
(* and the frames accepted of a source are the first ones of its stream.   *)
(* It delivers each stream in order and without loss, never passes over a  *)
(* segment refused for want of space, and implements FeedContract.  It     *)
(* accuses the server of overlapping requests only where one was cancelled *)
(* unannounced, and a source is pending only while its request is          *)
(* accounted for.                                                          *)
(***************************************************************************)
EXTENDS MediaFeed, TLAPS

\* What is known of a round between the building of its batch and its commit: the
\* batch lies within the stream, and the cursor is where the batch was taken from
\* unless the source has been rewound meanwhile.
RoundInv ==
  cb.phase \in {"offer", "commit"} =>
    /\ cb.src \in registered
    /\ cb.accepted <= cb.size
    /\ cb.first + cb.size <= StreamLength
    /\ nextFrame[cb.src] \in {0, cb.first}
    /\ cb.src \notin tainted => nextFrame[cb.src] = cb.first

\* A source nobody has registered has no cursor to speak of.
UnregisteredInv ==
  \A s \in Sources \ registered : nextFrame[s] = 0 /\ s \notin tainted

IInv == TypeOK /\ RoundInv /\ UnregisteredInv

\* The initial state satisfies the invariant: nothing registered, nothing queued.
LEMMA InitIInv == Init => IInv
  <1> SUFFICES ASSUME Init PROVE IInv
    OBVIOUS
  <1>1. fed \in [Sources -> Seq(Frames)] /\ queue \in Seq(Event)
    BY DEF Init
  <1>2. nextFrame \in [Sources -> 0 .. StreamLength]
    BY FeedAssumption DEF Init
  <1>3. cb \in {Idle} /\ oversupply \in Nat \ {0} /\ ops \in Nat
    BY DEF Init
  <1>4. TypeOK
    BY <1>1, <1>2, <1>3 DEF Init, TypeOK
  <1>5. RoundInv /\ UnregisteredInv
    BY DEF Init, RoundInv, UnregisteredInv, Idle
  <1>6. QED
    BY <1>4, <1>5 DEF IInv

\* A round's record, by its phase.
LEMMA RoundTypes ==
  ASSUME TypeOK
  PROVE  /\ cb.phase \in {"offer", "commit"} => cb \in Round
         /\ cb.phase = "starve" => cb \in Answer
         /\ cb.phase = "answer" => cb \in Round \cup Answer
         /\ cb.phase = "idle" => cb = Idle
  BY DEF TypeOK, Round, Answer, Idle

\* What taking a request off the queue yields.
LEMMA ReceiveTypes ==
  ASSUME TypeOK, NEW s \in Sources, NEW kind, Receive(kind, s)
  PROVE  /\ queue' \in Seq(Event)
         /\ Head(queue) \in Event
         /\ kind = "need" => Head(queue).id \in RequestIds /\ Head(queue).count \in FrameCounts
  <1>1. Head(queue) \in Event /\ Tail(queue) \in Seq(Event)
    BY DEF TypeOK, Receive
  <1>2. QED
    BY <1>1 DEF Receive, Event

\* A batch starts at the cursor and stays within the stream.
LEMMA BatchWithinStream ==
  ASSUME TypeOK, NEW s \in Sources, NEW n \in FrameCounts
  PROVE  BatchSize(s, n) \in Nat /\ nextFrame[s] + BatchSize(s, n) <= StreamLength
  <1>1. n * oversupply \in Nat
    BY FeedAssumption DEF TypeOK
  <1>2. StreamLength - nextFrame[s] \in Nat /\ nextFrame[s] \in Nat
    BY FeedAssumption DEF TypeOK
  <1>3. QED
    BY <1>1, <1>2, FeedAssumption DEF BatchSize, Smaller
\* Recording a request leaves types alone.
LEMMA RecordTypes ==
  ASSUME IInv, NEW s \in Sources, RecordRequest(s)
  PROVE  /\ cb = Idle
         /\ queue' \in Seq(Event)
         /\ Head(queue).id \in RequestIds /\ Head(queue).count \in FrameCounts
         /\ pending' \subseteq Sources /\ overlapping' \in BOOLEAN
         /\ UNCHANGED <<binding, nextFrame, allSegmentsAccepted, noSpaceFrame,
                        noSpaceSegmentAccepted, modes, outstanding, ended, ops, history>>
  <1>1. TypeOK /\ Receive("need", s)
    BY DEF IInv, RecordRequest
  <1>2. cb = Idle
    BY <1>1, RoundTypes DEF Receive
  <1>3. /\ queue' \in Seq(Event)
        /\ Head(queue).id \in RequestIds /\ Head(queue).count \in FrameCounts
    BY <1>1, ReceiveTypes
  <1>4. pending' \subseteq Sources /\ overlapping' \in BOOLEAN
    BY <1>1 DEF RecordRequest, TypeOK
  <1>5. QED
    BY <1>2, <1>3, <1>4 DEF RecordRequest

\* The handler's own steps preserve the invariant.
LEMMA CallbackIInv ==
  ASSUME IInv, CallbackThread
  PROVE  IInv'
  <1>0. TypeOK /\ RoundInv /\ UnregisteredInv
    BY DEF IInv
  <1> USE DEF binding, observations, modes, history
  <1>1. ASSUME NEW s \in Sources, DropRequest(s)
        PROVE  IInv'
    <2>1. RecordRequest(s) /\ UNCHANGED cb
      BY <1>1 DEF DropRequest
    <2>2. TypeOK'
      BY <1>0, <2>1, RecordTypes DEF TypeOK, Frames
    <2>3. RoundInv' /\ UnregisteredInv'
      BY <1>0, <2>1, RecordTypes DEF RoundInv, UnregisteredInv
    <2>4. QED
      BY <2>2, <2>3 DEF IInv
  <1>2. ASSUME NEW s \in Sources, StarveRequest(s)
        PROVE  IInv'
    <2>1. RecordRequest(s)
      BY <1>2 DEF StarveRequest
    <2>2. cb' \in Answer /\ cb'.phase = "starve"
      BY <1>2, <2>1, RecordTypes DEF StarveRequest, Idle, Answer
    <2>3. TypeOK'
      BY <1>0, <2>1, <2>2, RecordTypes DEF TypeOK, Frames
    <2>4. RoundInv' /\ UnregisteredInv'
      BY <1>0, <2>1, <2>2, RecordTypes DEF RoundInv, UnregisteredInv
    <2>5. QED
      BY <2>3, <2>4 DEF IInv
  <1>3. ASSUME NEW s \in Sources, StartRound(s)
        PROVE  IInv'
    <2>1. RecordRequest(s) /\ s \in registered
      BY <1>3 DEF StartRound, Unanswerable
    <2>2. PICK n \in FrameCounts : n = Head(queue).count
      BY <2>1, RecordTypes
    <2>3. BatchSize(s, n) \in Nat /\ nextFrame[s] + BatchSize(s, n) <= StreamLength
      BY <1>0, BatchWithinStream
    <2>4. nextFrame[s] \in Nat
      BY <1>0 DEF TypeOK
    <2>5. cb' = [phase |-> "offer", src |-> s, id |-> Head(queue).id,
                 first |-> nextFrame[s], size |-> BatchSize(s, n), accepted |-> 0,
                 status |-> "OK"]
      BY <1>3, <2>2 DEF StartRound, Idle
    <2>6. cb' \in Round
      BY <2>1, <2>3, <2>4, <2>5, RecordTypes DEF Round
    <2>7. TypeOK'
      BY <1>0, <2>1, <2>6, RecordTypes DEF TypeOK, Frames
    <2>8. RoundInv'
      BY <1>0, <2>1, <2>3, <2>5, RecordTypes DEF RoundInv
    <2>9. UnregisteredInv'
      BY <1>0, <2>1, RecordTypes DEF UnregisteredInv
    <2>10. QED
      BY <2>7, <2>8, <2>9 DEF IInv
  <1>4. ASSUME NEW s \in Sources, AnswerStarved(s)
        PROVE  IInv'
    <2>1. cb \in Answer
      BY <1>0, <1>4, RoundTypes DEF AnswerStarved
    <2>2. cb' \in Answer /\ cb'.phase = "answer"
      BY <1>4, <2>1 DEF AnswerStarved, Answer
    <2>3. TypeOK'
      BY <1>0, <1>4, <2>2 DEF AnswerStarved, AfterAnswer, TypeOK, Frames
    <2>4. RoundInv' /\ UnregisteredInv'
      BY <1>0, <1>4, <2>2 DEF AnswerStarved, RoundInv, UnregisteredInv
    <2>5. QED
      BY <2>3, <2>4 DEF IInv
  <1>5. ASSUME NEW s \in Sources, AcceptSegment(s)
        PROVE  IInv'
    <2> DEFINE frame == cb.first + cb.accepted
    <2>1. cb \in Round
      BY <1>0, <1>5, RoundTypes DEF AcceptSegment
    <2>2. cb' = [cb EXCEPT !.accepted = @ + 1] /\ cb.phase = "offer" /\ cb.accepted < cb.size
      BY <1>5 DEF AcceptSegment
    <2>3. cb' \in Round
      BY <2>1, <2>2 DEF Round
    <2>4. frame \in Frames
      BY <1>0, <2>1, <2>2, FeedAssumption DEF RoundInv, Round, Frames
    <2>5. noSpaceFrame' \in [Sources -> Frames \cup {None}]
          /\ noSpaceSegmentAccepted' \in BOOLEAN
      BY <1>0, <1>5 DEF AcceptSegment, TypeOK, Retry
    <2>6. fed' \in [Sources -> Seq(Frames)]
      BY <1>0, <1>5, <2>4 DEF AcceptSegment, TypeOK
    <2>7. TypeOK'
      BY <1>0, <1>5, <2>3, <2>5, <2>6 DEF AcceptSegment, TypeOK, Frames
    <2>8. /\ cb'.phase = cb.phase /\ cb'.src = cb.src /\ cb'.first = cb.first
          /\ cb'.size = cb.size /\ cb'.accepted = cb.accepted + 1
      BY <2>1, <2>2 DEF Round
    <2>9. RoundInv'
      BY <1>0, <1>5, <2>1, <2>2, <2>8 DEF AcceptSegment, RoundInv, Round
    <2>10. UnregisteredInv'
      BY <1>0, <1>5 DEF AcceptSegment, UnregisteredInv
    <2>11. QED
      BY <2>7, <2>9, <2>10 DEF IInv
  <1>6. ASSUME NEW s \in Sources, NEW status \in {"NO_SPACE", "ERROR"},
               RejectSegment(s, status)
        PROVE  IInv'
    <2>1. cb \in Round
      BY <1>0, <1>6, RoundTypes DEF RejectSegment
    <2>2. cb' = [cb EXCEPT !.phase = "commit"] /\ cb.phase = "offer" /\ cb.accepted < cb.size
      BY <1>6 DEF RejectSegment
    <2>3. cb' \in Round
      BY <2>1, <2>2 DEF Round
    <2>4. RejectedFrame \in Frames
      BY <1>0, <2>1, <2>2, FeedAssumption DEF RejectedFrame, RoundInv, Round, Frames
    <2>5. TypeOK'
      BY <1>0, <1>6, <2>3, <2>4 DEF RejectSegment, TypeOK
    <2>6. /\ cb'.src = cb.src /\ cb'.first = cb.first
          /\ cb'.size = cb.size /\ cb'.accepted = cb.accepted
      BY <2>1, <2>2 DEF Round
    <2>7. RoundInv' /\ UnregisteredInv'
      BY <1>0, <1>6, <2>2, <2>6 DEF RejectSegment, RoundInv, UnregisteredInv
    <2>8. QED
      BY <2>5, <2>7 DEF IInv
  <1>7. ASSUME NEW s \in Sources, CommitRound(s)
        PROVE  IInv'
    <2>1. cb \in Round /\ cb.src = s
      BY <1>0, <1>7, RoundTypes DEF CommitRound
    <2>2. AdvancedCursor(s) \in 0 .. StreamLength /\ s \in registered
      BY <1>0, <1>7, <2>1, FeedAssumption DEF CommitRound, RoundInv, Round, AdvancedCursor
    <2>3. cb' \in Round /\ cb'.phase = "answer"
      BY <1>7, <2>1 DEF CommitRound, Round, StatusAt
    <2>4. nextFrame' \in [Sources -> 0 .. StreamLength]
      BY <1>0, <1>7, <2>2 DEF CommitRound, TypeOK
    <2>5. TypeOK'
      BY <1>0, <1>7, <2>3, <2>4 DEF CommitRound, AfterAnswer, TypeOK, Frames
    <2>6. RoundInv'
      BY <2>3 DEF RoundInv
    <2>7. UnregisteredInv'
      BY <1>0, <1>7, <2>2 DEF CommitRound, UnregisteredInv, TypeOK
    <2>8. QED
      BY <2>5, <2>6, <2>7 DEF IInv
  <1>8. ASSUME NEW s \in Sources, HaveData(s)
        PROVE  IInv'
    <2>1. cb' = Idle /\ cb'.phase = "idle"
      BY <1>8 DEF HaveData, Idle
    <2>2. /\ outstanding' \in [Sources -> RequestIds \cup {None}]
          /\ ended' \in [Sources -> BOOLEAN]
      BY <1>0, <1>8 DEF HaveData, TypeOK
    <2>3. TypeOK'
      BY <1>0, <1>8, <2>1, <2>2 DEF HaveData, TypeOK, Frames
    <2>4. RoundInv' /\ UnregisteredInv'
      BY <1>0, <1>8, <2>1 DEF HaveData, RoundInv, UnregisteredInv
    <2>5. QED
      BY <2>3, <2>4 DEF IInv
  <1>9. ASSUME NEW s \in Sources, NotifyCancelNeedMediaData(s)
        PROVE  IInv'
    <2>1. queue' \in Seq(Event)
      BY <1>0, <1>9, ReceiveTypes DEF NotifyCancelNeedMediaData
    <2>2. TypeOK'
      BY <1>0, <1>9, <2>1 DEF NotifyCancelNeedMediaData, AfterCancel, TypeOK, Frames
    <2>3. RoundInv' /\ UnregisteredInv'
      BY <1>0, <1>9 DEF NotifyCancelNeedMediaData, RoundInv, UnregisteredInv
    <2>4. QED
      BY <2>2, <2>3 DEF IInv
  <1>10. QED
    BY <1>1, <1>2, <1>3, <1>4, <1>5, <1>6, <1>7, <1>8, <1>9 DEF CallbackThread

\* The test thread's calls preserve the invariant: a rewind in the middle of a round
\* leaves the cursor at 0, one between two rounds takes the taint away.
LEMMA TestIInv ==
  ASSUME IInv, TestThread
  PROVE  IInv'
  <1>0. TypeOK /\ RoundInv /\ UnregisteredInv
    BY DEF IInv
  <1> USE DEF binding, observations, modes, history
  <1>1. ASSUME SetPipeline
        PROVE  IInv'
    BY <1>0, <1>1 DEF SetPipeline, IInv, TypeOK, Frames, RoundInv, UnregisteredInv
  <1>2. ASSUME AllSourcesAttached
        PROVE  IInv'
    BY <1>0, <1>2 DEF AllSourcesAttached, IInv, TypeOK, Frames, RoundInv, UnregisteredInv
  <1>3. ASSUME NEW b \in BOOLEAN, SetWithhold(b)
        PROVE  IInv'
    BY <1>0, <1>3 DEF SetWithhold, Intervene, IInv, TypeOK, Frames, RoundInv, UnregisteredInv
  <1>4. ASSUME NEW b \in BOOLEAN, SetStarve(b)
        PROVE  IInv'
    BY <1>0, <1>4 DEF SetStarve, Intervene, IInv, TypeOK, Frames, RoundInv, UnregisteredInv
  <1>5. ASSUME NEW multiple \in Oversupplies, SetOversupply(multiple)
        PROVE  IInv'
    <2>1. oversupply' \in Nat \ {0}
      BY <1>5, FeedAssumption DEF SetOversupply
    <2>2. TypeOK'
      BY <1>0, <1>5, <2>1 DEF SetOversupply, Intervene, TypeOK, Frames
    <2>3. RoundInv' /\ UnregisteredInv'
      BY <1>0, <1>5 DEF SetOversupply, RoundInv, UnregisteredInv
    <2>4. QED
      BY <2>2, <2>3 DEF IInv
  <1>6. ASSUME NEW s \in Sources, AddAudioSource(s)
        PROVE  IInv'
    <2>1. nextFrame' = nextFrame
      BY <1>0, <1>6 DEF AddAudioSource, UnregisteredInv, TypeOK
    <2>2. TypeOK'
      BY <1>0, <1>6, <2>1 DEF AddAudioSource, TypeOK, Frames
    <2>3. RoundInv' /\ UnregisteredInv'
      BY <1>0, <1>6, <2>1 DEF AddAudioSource, RoundInv, UnregisteredInv
    <2>4. QED
      BY <2>2, <2>3 DEF IInv
  <1>7. ASSUME NEW s \in Sources, RewindSource(s)
        PROVE  IInv'
    <2>1. nextFrame' \in [Sources -> 0 .. StreamLength]
      BY <1>0, <1>7, FeedAssumption DEF RewindSource, TypeOK
    <2>2. fed' \in [Sources -> Seq(Frames)] /\ tainted' \subseteq Sources /\ ops' \in Nat
      BY <1>0, <1>7 DEF RewindSource, Intervene, TypeOK
    <2>3. TypeOK'
      BY <1>0, <1>7, <2>1, <2>2 DEF RewindSource, TypeOK, Frames
    <2>4. RoundInv'
      BY <1>0, <1>7 DEF RewindSource, RoundInv, InRound, TypeOK
    <2>5. UnregisteredInv'
      BY <1>0, <1>7 DEF RewindSource, UnregisteredInv, TypeOK
    <2>6. QED
      BY <2>3, <2>4, <2>5 DEF IInv
  <1>8. ASSUME NEW s \in Sources, FlushSource(s)
        PROVE  IInv'
    <2>1. Cancel(s) \in Event
      BY DEF Cancel, Event
    <2>2. queue' \in Seq(Event) /\ silent' \subseteq Sources
      <3>1. queue \in Seq(Event) /\ silent \subseteq Sources
        BY <1>0 DEF TypeOK
      <3>2. Append(queue, Cancel(s)) \in Seq(Event)
        BY <2>1, <3>1
      <3>3. queue' = queue \/ queue' = Append(queue, Cancel(s))
        BY <1>8 DEF FlushSource
      <3>4. silent' = silent \/ silent' = silent \cup {s}
        BY <1>8 DEF FlushSource
      <3>5. QED
        BY <3>1, <3>2, <3>3, <3>4
    <2>3. outstanding' \in [Sources -> RequestIds \cup {None}]
          /\ ended' \in [Sources -> BOOLEAN]
      BY <1>0, <1>8 DEF FlushSource, TypeOK
    <2>4. TypeOK'
      BY <1>0, <1>8, <2>2, <2>3 DEF FlushSource, Intervene, TypeOK, Frames
    <2>5. RoundInv' /\ UnregisteredInv'
      BY <1>0, <1>8 DEF FlushSource, RoundInv, UnregisteredInv
    <2>6. QED
      BY <2>4, <2>5 DEF IInv
  <1>9. QED
    BY <1>1, <1>2, <1>3, <1>4, <1>5, <1>6, <1>7, <1>8 DEF TestThread

\* A new request preserves the invariant.
LEMMA ServerIInv ==
  ASSUME IInv, Server
  PROVE  IInv'
  <1>0. TypeOK /\ RoundInv /\ UnregisteredInv
    BY DEF IInv
  <1> USE DEF binding, observations, modes, history
  <1>1. PICK s \in Sources, n \in FrameCounts : RequestData(s, n)
    BY DEF Server
  <1>2. PICK i \in RequestIds : /\ outstanding' = [outstanding EXCEPT ![s] = i]
                                /\ queue' = Append(queue, NeedData(s, n, i))
    BY <1>1 DEF RequestData
  <1>3. NeedData(s, n, i) \in Event
    BY DEF NeedData, Event
  <1>4. TypeOK'
    BY <1>0, <1>1, <1>2, <1>3 DEF RequestData, TypeOK, Frames
  <1>5. RoundInv' /\ UnregisteredInv'
    BY <1>0, <1>1 DEF RequestData, RoundInv, UnregisteredInv
  <1>6. QED
    BY <1>4, <1>5 DEF IInv

LEMMA StutterIInv ==
  ASSUME IInv, UNCHANGED vars
  PROVE  IInv'
  BY DEF IInv, TypeOK, Frames, RoundInv, UnregisteredInv, vars, binding, observations,
         modes, history

\* The strengthened type invariant holds in every reachable state.
LEMMA Invariance == Spec => []IInv
  <1>1. IInv /\ [Next]_vars => IInv'
    BY CallbackIInv, TestIInv, ServerIInv, StutterIInv DEF Next
  <1>2. QED
    BY InitIInv, <1>1, PTL DEF Spec

\* Every variable keeps its type: in particular no round ever moves m_feeds[s].nextFrame
\* past the end of the stream, rewound in its middle or not, and every frame offered is
\* a frame of the stream.
THEOREM TypeCorrect == Spec => []TypeOK
  <1>1. IInv => TypeOK
    BY DEF IInv
  <1>2. QED
    BY <1>1, Invariance, PTL

-----------------------------------------------------------------------------
(***************************************************************************)
(* What is delivered.                                                      *)
(***************************************************************************)

\* Appending the next index to the first c frames yields the first c + 1.
LEMMA AppendNext ==
  ASSUME NEW c \in Nat, NEW q, q = [k \in 1 .. c |-> k - 1]
  PROVE  /\ q \in Seq(Nat) /\ Len(q) = c
         /\ Append(q, c) = [k \in 1 .. c + 1 |-> k - 1]
  OBVIOUS

\* Only accepting a segment and rewinding move the effective cursor of a source, or
\* change what the history says of it.
LEMMA CursorKept ==
  ASSUME IInv, [Next]_vars,
         \A s \in Sources : ~AcceptSegment(s) /\ ~RewindSource(s)
  PROVE  /\ \A s \in Sources : Cursor(s)' = Cursor(s)
         /\ UNCHANGED <<fed, tainted>>
  <1>0. TypeOK /\ RoundInv /\ UnregisteredInv
    BY DEF IInv
  <1> USE DEF binding, observations, modes, history
  <1>1. CASE UNCHANGED vars
    BY <1>1 DEF vars, Cursor
  <1>2. ASSUME NEW s \in Sources, RecordRequest(s),
               cb'.phase = "offer" => cb'.src = s /\ cb'.accepted = 0,
               cb'.phase # "commit"
        PROVE  /\ \A t \in Sources : Cursor(t)' = Cursor(t)
               /\ UNCHANGED <<fed, tainted>>
    <2>1. cb = Idle /\ UNCHANGED <<nextFrame, fed, tainted>>
      BY <1>2, RecordTypes
    <2>2. nextFrame[s] \in Nat
      BY <1>0, FeedAssumption DEF TypeOK
    <2>3. QED
      BY <1>2, <2>1, <2>2 DEF Cursor, Idle
  <1>3. CASE CallbackThread
    <2>1. PICK s \in Sources :
            \/ DropRequest(s) \/ StarveRequest(s) \/ StartRound(s)
            \/ AnswerStarved(s) \/ CommitRound(s) \/ HaveData(s)
            \/ NotifyCancelNeedMediaData(s)
            \/ \E status \in {"NO_SPACE", "ERROR"} : RejectSegment(s, status)
      BY <1>3 DEF CallbackThread
    <2>2. CASE DropRequest(s)
      <3>1. RecordRequest(s) /\ cb' = cb /\ cb.phase = "idle"
        BY <2>2 DEF DropRequest, RecordRequest, Receive
      <3>2. QED
        BY <1>2, <3>1
    <2>3. CASE StarveRequest(s)
      <3>1. RecordRequest(s) /\ cb'.phase = "starve"
        BY <2>3 DEF StarveRequest, Idle
      <3>2. QED
        BY <1>2, <3>1
    <2>4. CASE StartRound(s)
      <3>1. RecordRequest(s) /\ cb'.phase = "offer" /\ cb'.src = s /\ cb'.accepted = 0
        BY <2>4 DEF StartRound, Idle
      <3>2. QED
        BY <1>2, <3>1
    <2>5. CASE AnswerStarved(s)
      <3>1. cb \in Answer
        BY <1>0, <2>5, RoundTypes DEF AnswerStarved
      <3>2. cb'.phase = "answer" /\ cb.phase = "starve"
        BY <2>5, <3>1 DEF AnswerStarved, Answer
      <3>3. QED
        BY <2>5, <3>2 DEF AnswerStarved, Cursor
    <2>6. CASE CommitRound(s)
      <3>1. cb \in Round /\ cb.src = s /\ cb.phase \in {"offer", "commit"}
        BY <1>0, <2>6, RoundTypes DEF CommitRound
      <3>2. cb'.phase = "answer"
        BY <2>6, <3>1 DEF CommitRound, Round
      <3>3. nextFrame' = [nextFrame EXCEPT ![s] = nextFrame[s] + cb.accepted]
        BY <2>6 DEF CommitRound, AdvancedCursor
      <3>4. QED
        BY <1>0, <2>6, <3>1, <3>2, <3>3 DEF CommitRound, Cursor, TypeOK
    <2>7. CASE HaveData(s)
      <3>1. cb.phase = "answer" /\ cb'.phase = "idle"
        BY <2>7 DEF HaveData, Idle
      <3>2. QED
        BY <2>7, <3>1 DEF HaveData, Cursor
    <2>8. CASE NotifyCancelNeedMediaData(s)
      BY <2>8 DEF NotifyCancelNeedMediaData, Cursor
    <2>9. ASSUME NEW status \in {"NO_SPACE", "ERROR"}, RejectSegment(s, status)
          PROVE  /\ \A t \in Sources : Cursor(t)' = Cursor(t)
                 /\ UNCHANGED <<fed, tainted>>
      <3>1. cb \in Round /\ cb.src = s /\ cb.phase = "offer"
        BY <1>0, <2>9, RoundTypes DEF RejectSegment
      <3>2. cb'.phase = "commit" /\ cb'.src = s /\ cb'.accepted = cb.accepted
        BY <2>9, <3>1 DEF RejectSegment, Round
      <3>3. QED
        BY <2>9, <3>1, <3>2 DEF RejectSegment, Cursor
    <2>10. QED
      BY <2>1, <2>2, <2>3, <2>4, <2>5, <2>6, <2>7, <2>8, <2>9
  <1>4. CASE TestThread
    <2>1. UNCHANGED <<cb, fed, tainted>>
      BY <1>4 DEF TestThread, SetPipeline, AllSourcesAttached, SetWithhold, SetStarve,
                  SetOversupply, AddAudioSource, FlushSource
    <2>2. UNCHANGED nextFrame
      <3>1. ASSUME NEW s \in Sources, AddAudioSource(s)
            PROVE  nextFrame' = nextFrame
        BY <1>0, <3>1 DEF AddAudioSource, UnregisteredInv, TypeOK
      <3>2. QED
        BY <1>4, <3>1 DEF TestThread, SetPipeline, AllSourcesAttached, SetWithhold,
                          SetStarve, SetOversupply, FlushSource
    <2>3. QED
      BY <2>1, <2>2 DEF Cursor
  <1>5. CASE Server
    <2>1. UNCHANGED <<cb, nextFrame, fed, tainted>>
      BY <1>5 DEF Server, RequestData
    <2>2. QED
      BY <2>1 DEF Cursor
  <1>6. QED
    BY <1>1, <1>3, <1>4, <1>5 DEF Next

\* Accepting a segment of an untainted source appends the frame at its cursor.
LEMMA AcceptAtCursor ==
  ASSUME IInv, NEW s \in Sources, AcceptSegment(s)
  PROVE  /\ Cursor(s) \in Nat /\ Cursor(s)' = Cursor(s) + 1
         /\ \A t \in Sources \ {s} : Cursor(t)' = Cursor(t) /\ fed'[t] = fed[t]
         /\ tainted' = tainted
         /\ s \in tainted => fed' = fed
         /\ s \notin tainted => /\ fed' = [fed EXCEPT ![s] = Append(@, Cursor(s))]
                                /\ Cursor(s) < StreamLength
  <1>0. TypeOK /\ RoundInv
    BY DEF IInv
  <1>1. cb \in Round /\ cb.phase = "offer" /\ cb.src = s /\ cb.accepted < cb.size
    BY <1>0, RoundTypes DEF AcceptSegment
  <1>2. /\ cb'.phase = "offer" /\ cb'.src = s /\ cb'.accepted = cb.accepted + 1
        /\ nextFrame' = nextFrame /\ tainted' = tainted
    BY <1>1 DEF AcceptSegment, Round
  <1>3. nextFrame[s] \in Nat /\ cb.accepted \in Nat /\ cb.first \in Nat /\ cb.size \in Nat
    BY <1>0, <1>1, FeedAssumption DEF TypeOK, Round
  <1>4. Cursor(s) = nextFrame[s] + cb.accepted /\ Cursor(s)' = nextFrame[s] + cb.accepted + 1
    BY <1>1, <1>2, <1>3 DEF Cursor
  <1>5. s \notin tainted => Cursor(s) = cb.first + cb.accepted /\ Cursor(s) < StreamLength
    BY <1>0, <1>1, <1>3, <1>4, FeedAssumption DEF RoundInv
  <1>6. \A t \in Sources \ {s} : Cursor(t)' = Cursor(t)
    BY <1>1, <1>2 DEF Cursor
  <1>7. fed' = IF s \in tainted THEN fed
               ELSE [fed EXCEPT ![s] = Append(@, cb.first + cb.accepted)]
    BY DEF AcceptSegment
  <1>8. \A t \in Sources \ {s} : fed'[t] = fed[t]
    BY <1>0, <1>7 DEF TypeOK
  <1>9. /\ s \in tainted => fed' = fed
        /\ s \notin tainted => fed' = [fed EXCEPT ![s] = Append(@, Cursor(s))]
    BY <1>5, <1>7
  <1>10. Cursor(s) \in Nat /\ Cursor(s)' = Cursor(s) + 1
    BY <1>3, <1>4
  <1>11. QED
    BY <1>2, <1>5, <1>6, <1>8, <1>9, <1>10

\* Rewinding empties the history of the source and, between two rounds, takes its
\* cursor to 0.
LEMMA RewindKept ==
  ASSUME IInv, NEW s \in Sources, RewindSource(s)
  PROVE  /\ \A t \in Sources \ {s} : /\ Cursor(t)' = Cursor(t)
                                     /\ fed'[t] = fed[t]
                                     /\ t \in tainted' <=> t \in tainted
         /\ fed'[s] = << >>
         /\ s \notin tainted' => Cursor(s)' = 0
  BY DEF IInv, TypeOK, RewindSource, Cursor, InRound

\* The history of every untainted source stays the beginning of its stream.
LEMMA FedStep ==
  ASSUME IInv, FedInOrder, [Next]_vars
  PROVE  FedInOrder'
  <1>0. TypeOK
    BY DEF IInv
  <1>1. ASSUME NEW s \in Sources, AcceptSegment(s)
        PROVE  FedInOrder'
    <2> SUFFICES ASSUME NEW t \in Sources, t \notin tainted'
                 PROVE  fed'[t] = [k \in 1 .. Cursor(t)' |-> k - 1]
      BY DEF FedInOrder
    <2>1. CASE t = s
      <3>1. /\ Cursor(s) \in Nat /\ Cursor(s)' = Cursor(s) + 1
            /\ fed'[s] = Append(fed[s], Cursor(s))
        BY <1>0, <1>1, <2>1, AcceptAtCursor DEF TypeOK
      <3>2. fed[s] = [k \in 1 .. Cursor(s) |-> k - 1]
        BY <1>1, <2>1, AcceptAtCursor DEF FedInOrder
      <3>3. QED
        BY <2>1, <3>1, <3>2, AppendNext
    <2>2. CASE t # s
      BY <1>1, <2>2, AcceptAtCursor DEF FedInOrder
    <2>3. QED
      BY <2>1, <2>2
  <1>2. ASSUME NEW s \in Sources, RewindSource(s)
        PROVE  FedInOrder'
    <2> SUFFICES ASSUME NEW t \in Sources, t \notin tainted'
                 PROVE  fed'[t] = [k \in 1 .. Cursor(t)' |-> k - 1]
      BY DEF FedInOrder
    <2>1. CASE t = s
      <3>1. fed'[s] = << >> /\ Cursor(s)' = 0
        BY <1>2, <2>1, RewindKept
      <3>2. << >> = [k \in 1 .. 0 |-> k - 1]
        OBVIOUS
      <3>3. QED
        BY <2>1, <3>1, <3>2
    <2>2. CASE t # s
      BY <1>2, <2>2, RewindKept DEF FedInOrder
    <2>3. QED
      BY <2>1, <2>2
  <1>3. CASE \A s \in Sources : ~AcceptSegment(s) /\ ~RewindSource(s)
    BY <1>3, CursorKept DEF FedInOrder
  <1>4. QED
    BY <1>1, <1>2, <1>3

\* For every stream, batch size and pattern of refusals, the frames a source's server
\* has accepted since notifyNeedMediaData's cursor was last put at the start, between
\* two rounds, are the first frames of the stream up to the cursor, in order.
THEOREM InOrder == Spec => []FedInOrder
  <1>1. Init => FedInOrder
    <2> SUFFICES ASSUME Init, NEW s \in Sources
                 PROVE  fed[s] = [k \in 1 .. Cursor(s) |-> k - 1]
      BY DEF FedInOrder
    <2>1. fed[s] = << >> /\ Cursor(s) = 0
      BY DEF Init, Cursor, Idle
    <2>2. << >> = [k \in 1 .. 0 |-> k - 1]
      OBVIOUS
    <2>3. QED
      BY <2>1, <2>2
  <1>2. QED
    BY <1>1, FedStep, Invariance, PTL DEF Spec

-----------------------------------------------------------------------------
\* RetainedNotSkipped is not inductive: a rewind in the middle of a round moves the
\* cursor back, and the round goes on from where its batch was taken.  What stays true
\* is that neither the cursor nor the round has passed the retained frame.
RetainedInv ==
  \A s \in Sources : noSpaceFrame[s] # None =>
    /\ nextFrame[s] <= noSpaceFrame[s]
    /\ (cb.phase \in {"offer", "commit"} /\ cb.src = s) =>
         cb.first + cb.accepted <= noSpaceFrame[s]

\* The strengthening implies the property, because a round's cursor never runs ahead
\* of its batch.
LEMMA RetainedImplied ==
  ASSUME IInv, RetainedInv
  PROVE  RetainedNotSkipped
  <1> SUFFICES ASSUME NEW s \in Sources, noSpaceFrame[s] # None
               PROVE  Cursor(s) <= noSpaceFrame[s]
    BY DEF RetainedNotSkipped
  <1>0. TypeOK /\ RoundInv
    BY DEF IInv
  <1>1. noSpaceFrame[s] \in Nat
    BY <1>0 DEF TypeOK, Frames
  <1>2. CASE cb.phase \in {"offer", "commit"} /\ cb.src = s
    <2>1. cb \in Round
      BY <1>0, <1>2, RoundTypes
    <2>2. cb.first \in Nat /\ cb.accepted \in Nat /\ nextFrame[s] \in {0, cb.first}
      BY <1>0, <1>2, <2>1 DEF Round, RoundInv
    <2>3. cb.first + cb.accepted <= noSpaceFrame[s] /\ Cursor(s) = nextFrame[s] + cb.accepted
      BY <1>2 DEF RetainedInv, Cursor
    <2>4. QED
      BY <1>1, <2>2, <2>3
  <1>3. CASE ~(cb.phase \in {"offer", "commit"} /\ cb.src = s)
    BY <1>3 DEF RetainedInv, Cursor
  <1>4. QED
    BY <1>2, <1>3

\* Every step keeps the retained frame ahead of the cursor and of the round.
LEMMA RetainedStep ==
  ASSUME IInv, RetainedInv, [Next]_vars
  PROVE  RetainedInv'
  <1>0. TypeOK /\ RoundInv /\ UnregisteredInv
    BY DEF IInv
  <1> USE DEF binding, observations, modes, history
  <1>1. CASE UNCHANGED <<cb, nextFrame, noSpaceFrame>>
    BY <1>1 DEF RetainedInv
  <1>2. CASE UNCHANGED <<nextFrame, noSpaceFrame>> /\ cb'.phase \notin {"offer", "commit"}
    BY <1>2 DEF RetainedInv
  <1>3. ASSUME NEW s \in Sources, StarveRequest(s) \/ AnswerStarved(s) \/ HaveData(s)
        PROVE  RetainedInv'
    <2>1. CASE StarveRequest(s)
      <3>1. RecordRequest(s) /\ cb'.phase = "starve"
        BY <2>1 DEF StarveRequest, Idle
      <3>2. QED
        BY <1>2, <3>1 DEF RecordRequest
    <2>2. CASE AnswerStarved(s)
      <3>1. cb \in Answer
        BY <1>0, <2>2, RoundTypes DEF AnswerStarved
      <3>2. cb'.phase = "answer"
        BY <2>2, <3>1 DEF AnswerStarved, Answer
      <3>3. QED
        BY <1>2, <2>2, <3>2 DEF AnswerStarved
    <2>3. CASE HaveData(s)
      BY <1>2, <2>3 DEF HaveData, Idle
    <2>4. QED
      BY <1>3, <2>1, <2>2, <2>3
  <1>4. ASSUME NEW s \in Sources, StartRound(s)
        PROVE  RetainedInv'
    <2>1. /\ cb'.phase = "offer" /\ cb'.src = s
          /\ cb'.first = nextFrame[s] /\ cb'.accepted = 0
          /\ UNCHANGED <<nextFrame, noSpaceFrame>>
      BY <1>4 DEF StartRound, RecordRequest, Idle
    <2>2. nextFrame[s] \in Nat
      BY <1>0, FeedAssumption DEF TypeOK
    <2>3. QED
      BY <2>1, <2>2 DEF RetainedInv
  <1>5. ASSUME NEW s \in Sources, AcceptSegment(s)
        PROVE  RetainedInv'
    <2> DEFINE frame == cb.first + cb.accepted
    <2>1. cb \in Round /\ cb.src = s /\ cb.phase = "offer"
      BY <1>0, <1>5, RoundTypes DEF AcceptSegment
    <2>2. /\ cb'.src = s /\ cb'.first = cb.first /\ cb'.accepted = cb.accepted + 1
          /\ nextFrame' = nextFrame
      BY <1>5, <2>1 DEF AcceptSegment, Round
    <2>3. /\ noSpaceFrame'[s] = IF noSpaceFrame[s] = frame THEN None ELSE noSpaceFrame[s]
          /\ \A t \in Sources \ {s} : noSpaceFrame'[t] = noSpaceFrame[t]
      BY <1>0, <1>5 DEF AcceptSegment, Retry, TypeOK
    <2>4. noSpaceFrame'[s] # None =>
            /\ nextFrame[s] <= noSpaceFrame'[s]
            /\ frame + 1 <= noSpaceFrame'[s]
      <3>1. noSpaceFrame[s] \in Nat \cup {None} /\ frame \in Nat
        BY <1>0, <2>1 DEF TypeOK, Frames, Round
      <3>2. noSpaceFrame[s] # None => frame <= noSpaceFrame[s] /\ nextFrame[s] <= noSpaceFrame[s]
        BY <2>1 DEF RetainedInv
      <3>3. QED
        BY <2>3, <3>1, <3>2
    <2>5. frame + 1 = cb'.first + cb'.accepted
      BY <2>1, <2>2 DEF Round
    <2>6. QED
      BY <2>2, <2>3, <2>4, <2>5 DEF RetainedInv
  <1>6. ASSUME NEW s \in Sources, NEW status \in {"NO_SPACE", "ERROR"},
               RejectSegment(s, status)
        PROVE  RetainedInv'
    <2>1. cb \in Round /\ cb.src = s /\ cb.phase = "offer"
      BY <1>0, <1>6, RoundTypes DEF RejectSegment
    <2>2. /\ cb'.src = s /\ cb'.first = cb.first /\ cb'.accepted = cb.accepted
          /\ nextFrame' = nextFrame
      BY <1>6, <2>1 DEF RejectSegment, Round
    <2>3. cb.first \in Nat /\ cb.accepted \in Nat /\ nextFrame[s] \in {0, cb.first}
      BY <1>0, <2>1 DEF Round, RoundInv
    <2>4. /\ noSpaceFrame'[s] \in {noSpaceFrame[s], cb.first + cb.accepted}
          /\ \A t \in Sources \ {s} : noSpaceFrame'[t] = noSpaceFrame[t]
      BY <1>0, <1>6 DEF RejectSegment, RejectedFrame, TypeOK
    <2>5. QED
      BY <2>1, <2>2, <2>3, <2>4 DEF RetainedInv
  <1>7. ASSUME NEW s \in Sources, CommitRound(s)
        PROVE  RetainedInv'
    <2>1. cb \in Round /\ cb.src = s /\ cb.phase \in {"offer", "commit"}
      BY <1>0, <1>7, RoundTypes DEF CommitRound
    <2>2. cb'.phase = "answer" /\ noSpaceFrame' = noSpaceFrame
      BY <1>7, <2>1 DEF CommitRound, Round
    <2>3. /\ nextFrame'[s] = nextFrame[s] + cb.accepted
          /\ \A t \in Sources \ {s} : nextFrame'[t] = nextFrame[t]
      BY <1>0, <1>7 DEF CommitRound, AdvancedCursor, TypeOK
    <2>4. cb.first \in Nat /\ cb.accepted \in Nat /\ nextFrame[s] \in {0, cb.first}
      BY <1>0, <2>1 DEF Round, RoundInv
    <2>5. noSpaceFrame[s] # None => nextFrame[s] + cb.accepted <= noSpaceFrame[s]
      <3>1. noSpaceFrame[s] \in Nat \cup {None}
        BY <1>0 DEF TypeOK, Frames
      <3>2. noSpaceFrame[s] # None => cb.first + cb.accepted <= noSpaceFrame[s]
        BY <2>1 DEF RetainedInv
      <3>3. QED
        BY <2>4, <3>1, <3>2
    <2>6. QED
      BY <2>2, <2>3, <2>5 DEF RetainedInv
  <1>8. ASSUME NEW s \in Sources, RewindSource(s)
        PROVE  RetainedInv'
    <2>1. /\ nextFrame'[s] = 0 /\ UNCHANGED <<cb, noSpaceFrame>>
          /\ \A t \in Sources \ {s} : nextFrame'[t] = nextFrame[t]
      BY <1>0, <1>8 DEF RewindSource, TypeOK
    <2>2. noSpaceFrame[s] # None => 0 <= noSpaceFrame[s]
      BY <1>0 DEF TypeOK, Frames
    <2>3. QED
      BY <2>1, <2>2 DEF RetainedInv
  <1>9. ASSUME NEW s \in Sources, AddAudioSource(s)
        PROVE  RetainedInv'
    BY <1>0, <1>1, <1>9 DEF AddAudioSource, UnregisteredInv, TypeOK
  <1>10. ASSUME NEW s \in Sources, DropRequest(s) \/ NotifyCancelNeedMediaData(s)
         PROVE  RetainedInv'
    BY <1>1, <1>10 DEF DropRequest, RecordRequest, NotifyCancelNeedMediaData
  <1>11. CASE CallbackThread
    BY <1>3, <1>4, <1>5, <1>6, <1>7, <1>10, <1>11 DEF CallbackThread
  <1>12. CASE TestThread
    BY <1>1, <1>8, <1>9, <1>12
    DEF TestThread, SetPipeline, AllSourcesAttached, SetWithhold, SetStarve,
        SetOversupply, FlushSource
  <1>13. CASE Server
    BY <1>1, <1>13 DEF Server, RequestData
  <1>14. CASE UNCHANGED vars
    BY <1>1, <1>14 DEF vars
  <1>15. QED
    BY <1>11, <1>12, <1>13, <1>14 DEF Next

\* The segment refused with NO_SPACE is still to come as long as the feed waits for it,
\* for every buffer and every moment at which the source is rewound.
THEOREM RetainedKept == Spec => []RetainedNotSkipped
  <1>1. Init => RetainedInv
    BY DEF Init, RetainedInv
  <1>2. IInv /\ RetainedInv => RetainedNotSkipped
    BY RetainedImplied
  <1>3. QED
    BY <1>1, <1>2, RetainedStep, Invariance, PTL DEF Spec

-----------------------------------------------------------------------------
\* An untainted round that is about to say EOS has had the whole stream accepted.
AnswerInv ==
  \A s \in Sources :
    (cb.phase = "answer" /\ cb.src = s /\ cb.status = "EOS" /\ s \notin tainted) =>
      nextFrame[s] = StreamLength

\* The status is fixed by the commit, and a rewind after it taints the round.
LEMMA AnswerStep ==
  ASSUME IInv, AnswerInv, [Next]_vars
  PROVE  AnswerInv'
  <1>0. TypeOK /\ RoundInv /\ UnregisteredInv
    BY DEF IInv
  <1> USE DEF binding, observations, modes, history
  <1>1. CASE UNCHANGED <<cb, nextFrame, tainted>>
    BY <1>1 DEF AnswerInv
  <1>2. CASE cb'.phase # "answer"
    BY <1>2 DEF AnswerInv
  <1>3. ASSUME NEW s \in Sources, AnswerStarved(s)
        PROVE  AnswerInv'
    <2>1. cb \in Answer
      BY <1>0, <1>3, RoundTypes DEF AnswerStarved
    <2>2. cb'.status = "OK"
      BY <1>3, <2>1 DEF AnswerStarved, Answer
    <2>3. QED
      BY <2>2 DEF AnswerInv
  <1>4. ASSUME NEW s \in Sources, CommitRound(s)
        PROVE  AnswerInv'
    <2>1. cb \in Round /\ cb.src = s
      BY <1>0, <1>4, RoundTypes DEF CommitRound
    <2>2. cb'.src = s /\ cb'.status = StatusAt(AdvancedCursor(s))
      BY <1>4, <2>1 DEF CommitRound, Round
    <2>3. nextFrame'[s] = AdvancedCursor(s) /\ nextFrame'[s] \in 0 .. StreamLength
      <3>1. TypeOK'
        BY CallbackIInv, <1>4 DEF CallbackThread, IInv
      <3>2. QED
        BY <1>0, <1>4, <3>1 DEF CommitRound, TypeOK
    <2>4. QED
      BY <2>2, <2>3, FeedAssumption DEF AnswerInv, StatusAt
  <1>5. ASSUME NEW s \in Sources, AcceptSegment(s) \/ HaveData(s)
                 \/ (\E status \in {"NO_SPACE", "ERROR"} : RejectSegment(s, status))
        PROVE  AnswerInv'
    <2>1. CASE HaveData(s)
      BY <1>2, <2>1 DEF HaveData, Idle
    <2>2. CASE AcceptSegment(s)
      <3>1. cb \in Round
        BY <1>0, <2>2, RoundTypes DEF AcceptSegment
      <3>2. QED
        BY <1>2, <2>2, <3>1 DEF AcceptSegment, Round
    <2>3. ASSUME NEW status \in {"NO_SPACE", "ERROR"}, RejectSegment(s, status)
          PROVE  AnswerInv'
      <3>1. cb \in Round
        BY <1>0, <2>3, RoundTypes DEF RejectSegment
      <3>2. QED
        BY <1>2, <2>3, <3>1 DEF RejectSegment, Round
    <2>4. QED
      BY <1>5, <2>1, <2>2, <2>3
  <1>6. ASSUME NEW s \in Sources, StarveRequest(s) \/ StartRound(s)
        PROVE  AnswerInv'
    BY <1>2, <1>6 DEF StarveRequest, StartRound, Idle
  <1>7. ASSUME NEW s \in Sources, DropRequest(s) \/ NotifyCancelNeedMediaData(s)
        PROVE  AnswerInv'
    BY <1>1, <1>7 DEF DropRequest, RecordRequest, NotifyCancelNeedMediaData
  <1>8. ASSUME NEW s \in Sources, RewindSource(s)
        PROVE  AnswerInv'
    BY <1>0, <1>8 DEF RewindSource, AnswerInv, InRound, TypeOK
  <1>9. ASSUME NEW s \in Sources, AddAudioSource(s)
        PROVE  AnswerInv'
    BY <1>0, <1>1, <1>9 DEF AddAudioSource, UnregisteredInv, TypeOK
  <1>10. CASE CallbackThread
    BY <1>3, <1>4, <1>5, <1>6, <1>7, <1>10 DEF CallbackThread
  <1>11. CASE TestThread
    BY <1>1, <1>8, <1>9, <1>11
    DEF TestThread, SetPipeline, AllSourcesAttached, SetWithhold, SetStarve,
        SetOversupply, FlushSource
  <1>12. CASE Server
    BY <1>1, <1>12 DEF Server, RequestData
  <1>13. CASE UNCHANGED vars
    BY <1>1, <1>13 DEF vars
  <1>14. QED
    BY <1>10, <1>11, <1>12, <1>13 DEF Next

-----------------------------------------------------------------------------
\* Every step of the feed is a step of the contract, or leaves it unchanged.
LEMMA ContractStep ==
  ASSUME IInv, FedInOrder, AnswerInv, [Next]_vars
  PROVE  [Contract!Next]_(Contract!contractVars)
  <1>0. TypeOK /\ RoundInv
    BY DEF IInv
  <1> USE DEF binding, observations, modes, history, Contract!contractVars
  <1>1. CASE UNCHANGED <<fed, tainted, ended>>
    BY <1>1
  <1>2. ASSUME NEW s \in Sources, AcceptSegment(s), s \notin tainted
        PROVE  Contract!Deliver(s)
    <2>1. /\ Cursor(s) \in Nat /\ Cursor(s) < StreamLength
          /\ fed' = [fed EXCEPT ![s] = Append(@, Cursor(s))]
          /\ UNCHANGED <<tainted, ended>>
      BY <1>2, AcceptAtCursor DEF AcceptSegment
    <2>2. fed[s] = [k \in 1 .. Cursor(s) |-> k - 1]
      BY <1>2 DEF FedInOrder
    <2>3. Len(fed[s]) = Cursor(s)
      BY <2>1, <2>2, AppendNext
    <2>4. QED
      BY <1>2, <2>1, <2>3 DEF Contract!Deliver
  <1>3. ASSUME NEW s \in Sources, AcceptSegment(s), s \in tainted
        PROVE  UNCHANGED <<fed, tainted, ended>>
    BY <1>3 DEF AcceptSegment
  <1>4. ASSUME NEW s \in Sources, HaveData(s)
        PROVE  \/ Contract!Finish(s)
               \/ Contract!Reopen(s)
               \/ UNCHANGED <<fed, tainted, ended>>
    <2>1. CASE outstanding[s] = cb.id /\ cb.status = "EOS"
      <3>1. UNCHANGED <<fed, tainted>> /\ ended' = [ended EXCEPT ![s] = TRUE]
        BY <1>4, <2>1 DEF HaveData
      <3>2. s \notin tainted => nextFrame[s] = StreamLength /\ Cursor(s) = nextFrame[s]
        BY <1>4, <2>1 DEF HaveData, AnswerInv, Cursor
      <3>3. s \notin tainted => Len(fed[s]) = StreamLength
        <4>1. s \notin tainted => fed[s] = [k \in 1 .. StreamLength |-> k - 1]
          BY <3>2 DEF FedInOrder
        <4>2. StreamLength \in Nat
          BY FeedAssumption
        <4>3. QED
          BY <4>1, <4>2, AppendNext
      <3>4. QED
        BY <3>1, <3>3 DEF Contract!Finish
    <2>2. CASE outstanding[s] = cb.id /\ cb.status # "EOS"
      BY <1>4, <2>2 DEF HaveData, Contract!Reopen
    <2>3. CASE outstanding[s] # cb.id
      BY <1>4, <2>3 DEF HaveData
    <2>4. QED
      BY <2>1, <2>2, <2>3
  <1>5. ASSUME NEW s \in Sources, RewindSource(s)
        PROVE  Contract!Overtake(s) \/ Contract!Reposition(s)
    BY <1>5 DEF RewindSource, Contract!Overtake, Contract!Reposition
  <1>6. ASSUME NEW s \in Sources, FlushSource(s)
        PROVE  Contract!Reopen(s)
    BY <1>6 DEF FlushSource, Contract!Reopen
  <1>7. CASE CallbackThread
    <2>1. PICK s \in Sources :
            \/ DropRequest(s) \/ StarveRequest(s) \/ AnswerStarved(s) \/ StartRound(s)
            \/ AcceptSegment(s) \/ CommitRound(s) \/ HaveData(s)
            \/ NotifyCancelNeedMediaData(s)
            \/ \E status \in {"NO_SPACE", "ERROR"} : RejectSegment(s, status)
      BY <1>7 DEF CallbackThread
    <2>2. CASE AcceptSegment(s)
      BY <1>1, <1>2, <1>3, <2>2 DEF Contract!Next
    <2>3. CASE HaveData(s)
      BY <1>1, <1>4, <2>3 DEF Contract!Next
    <2>4. CASE ~AcceptSegment(s) /\ ~HaveData(s)
      BY <1>1, <2>1, <2>4
      DEF DropRequest, StarveRequest, StartRound, RecordRequest, AnswerStarved,
          CommitRound, NotifyCancelNeedMediaData, RejectSegment
    <2>5. QED
      BY <2>2, <2>3, <2>4
  <1>8. CASE TestThread
    BY <1>1, <1>5, <1>6, <1>8
    DEF TestThread, SetPipeline, AllSourcesAttached, SetWithhold, SetStarve,
        SetOversupply, AddAudioSource, Contract!Next
  <1>9. CASE Server
    BY <1>1, <1>9 DEF Server, RequestData
  <1>10. CASE UNCHANGED vars
    BY <1>1, <1>10 DEF vars
  <1>11. QED
    BY <1>7, <1>8, <1>9, <1>10 DEF Next

\* For every stream and number of sources, notifyNeedMediaData and the methods of the
\* test thread implement the in-order lossless channel of FeedContract, with EOS
\* announced only after the last frame.
THEOREM Implements == Spec => FeedIsContract
  <1>1. Init => Contract!Init /\ FedInOrder /\ AnswerInv
    <2> SUFFICES ASSUME Init
                 PROVE  Contract!Init /\ FedInOrder /\ AnswerInv
      OBVIOUS
    <2>1. Contract!Init
      BY DEF Init, Contract!Init
    <2>2. AnswerInv
      BY DEF Init, AnswerInv, Idle
    <2>3. ASSUME NEW s \in Sources
          PROVE  fed[s] = [k \in 1 .. Cursor(s) |-> k - 1]
      <3>1. fed[s] = << >> /\ Cursor(s) = 0
        BY DEF Init, Cursor, Idle
      <3>2. << >> = [k \in 1 .. 0 |-> k - 1]
        OBVIOUS
      <3>3. QED
        BY <3>1, <3>2
    <2>4. QED
      BY <2>1, <2>2, <2>3 DEF FedInOrder
  <1>2. QED
    BY <1>1, FedStep, AnswerStep, ContractStep, Invariance, PTL
    DEF Spec, FeedIsContract, Contract!Spec

-----------------------------------------------------------------------------
(***************************************************************************)
(* What is pending, and when requests overlap: what has to be known is the *)
(* order in which requests and cancellations of a source stand in the queue.*)
(***************************************************************************)

Need(s, k)     == k \in DOMAIN queue /\ queue[k].kind = "need" /\ queue[k].src = s
CancelAt(s, k) == k \in DOMAIN queue /\ queue[k].kind = "cancel" /\ queue[k].src = s

\* A cancellation of s stands between these places of the queue, or behind this one.
Between(s, i, j) == \E c \in Nat : i < c /\ c < j /\ CancelAt(s, c)
Behind(s, i)     == \E c \in Nat : i < c /\ CancelAt(s, c)

\* A request queued is the one the server waits for, or its cancellation comes later.
NeedWaits ==
  \A s \in Sources \ silent, k \in Nat :
    Need(s, k) => outstanding[s] = queue[k].id \/ Behind(s, k)

\* The first of two requests of a source is cancelled before the second comes.
NeedsSeparated ==
  \A s \in Sources \ silent, k, l \in Nat :
    k < l /\ Need(s, k) /\ Need(s, l) => Between(s, k, l)

\* So is the request for which a source is pending.
PendingCancelled ==
  \A s \in pending \ silent, k \in Nat : Need(s, k) => Between(s, 0, k)

\* That one is the request the server waits for, or its cancellation is on its way.
PendingWaits ==
  \A s \in pending \ silent : outstanding[s] # None \/ Behind(s, 0)

AnsweredNotPending == cb.phase = "answer" => cb.src \notin pending

\* No two requests on their way, nor one of them and the one being answered, share an id.
IdsFresh ==
  \A s, t \in Sources, k, l \in Nat :
    Need(s, k) => /\ queue[k].id # cb.id
                  /\ Need(t, l) /\ k # l => queue[k].id # queue[l].id

QueueInv == /\ NeedWaits /\ NeedsSeparated /\ PendingCancelled /\ PendingWaits
            /\ AnsweredNotPending /\ IdsFresh

-----------------------------------------------------------------------------
(***************************************************************************)
(* The queue.                                                              *)
(***************************************************************************)

\* A request in the queue has an id, which is not None.
LEMMA NeedId ==
  ASSUME TypeOK, NEW s, NEW k, Need(s, k)
  PROVE  queue[k].id \in RequestIds /\ queue[k].id # None
  <1>1. queue[k] \in Event
    BY DEF Need, TypeOK
  <1>2. QED
    BY <1>1, FeedAssumption DEF Need, Event

\* Delivering the first notification moves the others one place forward.
LEMMA TailPlaces ==
  ASSUME queue \in Seq(Event), queue # << >>, queue' = Tail(queue)
  PROVE  /\ 1 \in DOMAIN queue /\ Head(queue) = queue[1]
         /\ \A k \in Nat : k \in DOMAIN queue' =>
              k # 0 /\ k + 1 \in DOMAIN queue /\ queue'[k] = queue[k + 1]
         /\ \A k \in Nat : k # 0 /\ k + 1 \in DOMAIN queue =>
              k \in DOMAIN queue' /\ queue'[k] = queue[k + 1]
         /\ \A k \in DOMAIN queue : k \in Nat /\ k > 0
  OBVIOUS

\* So the requests that are left stood one place further back.
LEMMA TailNeed ==
  ASSUME queue \in Seq(Event), queue # << >>, queue' = Tail(queue), NEW s, NEW k \in Nat,
         Need(s, k)'
  PROVE  k > 0 /\ Need(s, k + 1) /\ queue'[k] = queue[k + 1] /\ k + 1 \in Nat
  BY TailPlaces DEF Need

\* A cancellation that is not the first notification keeps its distance.
LEMMA TailCancel ==
  ASSUME queue \in Seq(Event), queue # << >>, queue' = Tail(queue), NEW s, NEW c \in Nat,
         CancelAt(s, c), c # 1
  PROVE  c - 1 \in Nat /\ CancelAt(s, c - 1)'
  <1>1. c > 1 /\ c - 1 \in Nat /\ (c - 1) + 1 = c
    BY TailPlaces DEF CancelAt
  <1>2. QED
    BY <1>1, TailPlaces DEF CancelAt

\* And so does whatever stood between two places, or behind one.
LEMMA TailBetween ==
  ASSUME queue \in Seq(Event), queue # << >>, queue' = Tail(queue), NEW s, NEW i \in Nat
  PROVE  /\ \A j \in Nat : Between(s, i + 1, j + 1) => Between(s, i, j)'
         /\ Behind(s, i + 1) => Behind(s, i)'
  <1>1. ASSUME NEW j \in Nat, Between(s, i + 1, j + 1)
        PROVE  Between(s, i, j)'
    <2>1. PICK c \in Nat : i + 1 < c /\ c < j + 1 /\ CancelAt(s, c)
      BY <1>1 DEF Between
    <2>2. c - 1 \in Nat /\ CancelAt(s, c - 1)' /\ i < c - 1 /\ c - 1 < j
      BY <2>1, TailCancel
    <2>3. QED
      BY <2>2 DEF Between
  <1>2. ASSUME Behind(s, i + 1)
        PROVE  Behind(s, i)'
    <2>1. PICK c \in Nat : i + 1 < c /\ CancelAt(s, c)
      BY <1>2 DEF Behind
    <2>2. c - 1 \in Nat /\ CancelAt(s, c - 1)' /\ i < c - 1
      BY <2>1, TailCancel
    <2>3. QED
      BY <2>2 DEF Behind
  <1>3. QED
    BY <1>1, <1>2

\* The same holds from the start of the queue, if what is delivered is no
\* cancellation of the source.
LEMMA TailFromStart ==
  ASSUME queue \in Seq(Event), queue # << >>, queue' = Tail(queue), NEW s, ~CancelAt(s, 1)
  PROVE  /\ \A j \in Nat : Between(s, 0, j + 1) => Between(s, 0, j)'
         /\ Behind(s, 0) => Behind(s, 0)'
  <1>1. \A c \in Nat : CancelAt(s, c) => c # 1 /\ c # 0
    BY TailPlaces DEF CancelAt
  <1>2. \A j \in Nat : Between(s, 0, j + 1) => Between(s, 0 + 1, j + 1)
    BY <1>1 DEF Between
  <1>3. Behind(s, 0) => Behind(s, 0 + 1)
    BY <1>1 DEF Behind
  <1>4. QED
    BY <1>2, <1>3, TailBetween

\* A notification that is enqueued moves nothing, and comes last.
LEMMA AppendPlaces ==
  ASSUME queue \in Seq(Event), NEW e, queue' = Append(queue, e)
  PROVE  /\ Len(queue) + 1 \in Nat
         /\ \A k \in DOMAIN queue : /\ k \in DOMAIN queue' /\ queue'[k] = queue[k]
                                    /\ k \in Nat /\ k > 0 /\ k < Len(queue) + 1
         /\ \A k \in DOMAIN queue' : k \in DOMAIN queue \/ k = Len(queue) + 1
         /\ Len(queue) + 1 \in DOMAIN queue' /\ queue'[Len(queue) + 1] = e
  OBVIOUS

\* Cancellations stay where they were.
LEMMA AppendKeeps ==
  ASSUME queue \in Seq(Event), NEW e, queue' = Append(queue, e), NEW s, NEW i
  PROVE  /\ \A j : Between(s, i, j) => Between(s, i, j)'
         /\ Behind(s, i) => Behind(s, i)'
  <1>1. \A c \in Nat : CancelAt(s, c) => CancelAt(s, c)'
    BY AppendPlaces DEF CancelAt
  <1>2. QED
    BY <1>1 DEF Between, Behind

\* So do requests, but for the one that may have come.
LEMMA AppendNeed ==
  ASSUME queue \in Seq(Event), NEW e, queue' = Append(queue, e), NEW s, NEW k \in Nat,
         Need(s, k)'
  PROVE  \/ Need(s, k) /\ queue'[k] = queue[k] /\ k < Len(queue) + 1
         \/ k = Len(queue) + 1 /\ queue'[k] = e /\ e.kind = "need" /\ e.src = s
  BY AppendPlaces DEF Need

-----------------------------------------------------------------------------
(***************************************************************************)
(* The steps, by what they do to the queue and to the pending sources.     *)
(***************************************************************************)

\* Delivering a notification leaves the order of those that remain as it was, and
\* the cancellation of a pending source where it was unless it is the one delivered.
LEMMA Delivery ==
  ASSUME TypeOK, QueueInv, queue # << >>, queue' = Tail(queue),
         outstanding' = outstanding, silent' = silent
  PROVE  /\ NeedWaits' /\ NeedsSeparated'
         /\ \A s \in pending \ silent : ~CancelAt(s, 1) =>
              /\ \A k \in Nat : Need(s, k)' => Between(s, 0, k)'
              /\ outstanding[s] # None \/ Behind(s, 0)'
  <1>1. queue \in Seq(Event) /\ NeedWaits /\ NeedsSeparated /\ PendingCancelled
        /\ PendingWaits
    BY DEF TypeOK, QueueInv
  <1>2. NeedWaits'
    <2> SUFFICES ASSUME NEW s \in Sources \ silent, NEW k \in Nat, Need(s, k)',
                        outstanding[s] # queue'[k].id
                 PROVE  Behind(s, k)'
      BY DEF NeedWaits
    <2>1. Need(s, k + 1) /\ queue'[k] = queue[k + 1] /\ k + 1 \in Nat
      BY <1>1, TailNeed
    <2>2. Behind(s, k + 1)
      BY <1>1, <2>1 DEF NeedWaits
    <2>3. QED
      BY <1>1, <2>2, TailBetween
  <1>3. NeedsSeparated'
    <2> SUFFICES ASSUME NEW s \in Sources \ silent, NEW k \in Nat, NEW l \in Nat,
                        k < l, Need(s, k)', Need(s, l)'
                 PROVE  Between(s, k, l)'
      BY DEF NeedsSeparated
    <2>1. Need(s, k + 1) /\ Need(s, l + 1) /\ k + 1 \in Nat /\ l + 1 \in Nat
          /\ k + 1 < l + 1
      BY <1>1, TailNeed
    <2>2. Between(s, k + 1, l + 1)
      BY <1>1, <2>1 DEF NeedsSeparated
    <2>3. QED
      BY <1>1, <2>2, TailBetween
  <1>4. ASSUME NEW s \in pending \ silent, ~CancelAt(s, 1)
        PROVE  /\ \A k \in Nat : Need(s, k)' => Between(s, 0, k)'
               /\ outstanding[s] # None \/ Behind(s, 0)'
    <2>1. ASSUME NEW k \in Nat, Need(s, k)'
          PROVE  Between(s, 0, k)'
      <3>1. Need(s, k + 1) /\ k + 1 \in Nat
        BY <1>1, <2>1, TailNeed
      <3>2. Between(s, 0, k + 1)
        BY <1>1, <3>1 DEF PendingCancelled
      <3>3. QED
        BY <1>1, <1>4, <3>2, TailFromStart
    <2>2. outstanding[s] # None \/ Behind(s, 0)'
      BY <1>1, <1>4, TailFromStart DEF PendingWaits
    <2>3. QED
      BY <2>1, <2>2
  <1>5. QED
    BY <1>2, <1>3, <1>4

\* A request is recorded: it becomes the pending one of its source, which was pending
\* already only if a request of the source was cancelled unannounced.
LEMMA RecordQueue ==
  ASSUME IInv, QueueInv, OverlapExplained, NEW s \in Sources, RecordRequest(s),
         cb' = cb \/ (cb'.phase # "answer" /\ cb'.id = Head(queue).id)
  PROVE  QueueInv' /\ OverlapExplained'
  <1>1. /\ TypeOK /\ queue \in Seq(Event)
        /\ queue # << >> /\ queue' = Tail(queue)
        /\ Head(queue).kind = "need" /\ Head(queue).src = s
        /\ outstanding' = outstanding /\ silent' = silent
        /\ pending' = pending \cup {s} /\ pending \subseteq Sources
        /\ overlapping' = (overlapping \/ s \in pending)
        /\ cb.phase = "idle"
    BY DEF IInv, TypeOK, RecordRequest, Receive, history
  <1>2. 1 \in Nat /\ Need(s, 1) /\ Head(queue) = queue[1]
    BY <1>1, TailPlaces DEF Need
  <1>3. \A t : ~CancelAt(t, 1)
    BY <1>1, <1>2 DEF CancelAt
  <1>4. /\ NeedWaits' /\ NeedsSeparated'
        /\ \A t \in pending \ silent :
             /\ \A k \in Nat : Need(t, k)' => Between(t, 0, k)'
             /\ outstanding[t] # None \/ Behind(t, 0)'
    BY <1>1, <1>3, Delivery
  <1>5. ASSUME s \notin silent
        PROVE  /\ \A k \in Nat : Need(s, k)' => Between(s, 0, k)'
               /\ outstanding[s] # None \/ Behind(s, 0)'
    <2>1. ASSUME NEW k \in Nat, Need(s, k)'
          PROVE  Between(s, 0, k)'
      <3>1. Need(s, k + 1) /\ k + 1 \in Nat /\ 1 < k + 1
        BY <1>1, <2>1, TailNeed
      <3>2. Between(s, 0 + 1, k + 1)
        BY <1>2, <1>5, <3>1 DEF QueueInv, NeedsSeparated
      <3>3. QED
        BY <1>1, <3>2, TailBetween
    <2>2. outstanding[s] = queue[1].id \/ Behind(s, 0 + 1)
      BY <1>2, <1>5 DEF QueueInv, NeedWaits
    <2>3. queue[1].id # None
      BY <1>1, <1>2, NeedId
    <2>4. QED
      BY <1>1, <2>1, <2>2, <2>3, TailBetween
  <1>6. PendingCancelled' /\ PendingWaits'
    BY <1>1, <1>4, <1>5 DEF PendingCancelled, PendingWaits
  <1>7. AnsweredNotPending'
    BY <1>1 DEF AnsweredNotPending
  <1>8. IdsFresh'
    <2> SUFFICES ASSUME NEW u \in Sources, NEW t \in Sources, NEW k \in Nat, NEW l \in Nat,
                        Need(u, k)'
                 PROVE  /\ queue'[k].id # cb'.id
                        /\ Need(t, l)' /\ k # l => queue'[k].id # queue'[l].id
      BY DEF IdsFresh
    <2>1. k > 0 /\ Need(u, k + 1) /\ queue'[k] = queue[k + 1] /\ k + 1 \in Nat
      BY <1>1, TailNeed
    <2>2. queue[k + 1].id # cb.id /\ queue[k + 1].id # queue[1].id
      <3>1. k + 1 # 1
        BY <2>1
      <3>2. QED
        BY <1>2, <2>1, <3>1 DEF QueueInv, IdsFresh
    <2>3. ASSUME Need(t, l)', k # l
          PROVE  queue'[k].id # queue'[l].id
      <3>1. Need(t, l + 1) /\ queue'[l] = queue[l + 1] /\ l + 1 \in Nat
        BY <1>1, <2>3, TailNeed
      <3>2. k + 1 # l + 1
        BY <2>3
      <3>3. QED
        BY <2>1, <3>1, <3>2 DEF QueueInv, IdsFresh
    <2>4. QED
      BY <1>2, <2>1, <2>2, <2>3
  <1>9. OverlapExplained'
    <2>1. s \in pending => s \in silent
      <3> SUFFICES ASSUME s \in pending \ silent
                   PROVE  FALSE
        OBVIOUS
      <3>1. Between(s, 0, 1)
        BY <1>2 DEF QueueInv, PendingCancelled
      <3>2. QED
        BY <3>1 DEF Between
    <2>2. QED
      BY <1>1, <2>1 DEF OverlapExplained
  <1>10. QED
    BY <1>4, <1>6, <1>7, <1>8, <1>9 DEF QueueInv

\* A cancellation is delivered: its source is pending no longer.
LEMMA CancelQueue ==
  ASSUME IInv, QueueInv, NEW s \in Sources, NotifyCancelNeedMediaData(s)
  PROVE  QueueInv'
  <1>1. /\ TypeOK /\ queue \in Seq(Event)
        /\ queue # << >> /\ queue' = Tail(queue)
        /\ Head(queue).kind = "cancel" /\ Head(queue).src = s
        /\ outstanding' = outstanding /\ silent' = silent
        /\ pending' = pending \ {s} /\ cb' = cb
    BY DEF IInv, TypeOK, NotifyCancelNeedMediaData, AfterCancel, Receive, history
  <1>2. Head(queue) = queue[1]
    BY <1>1, TailPlaces
  <1>3. \A t : t # s => ~CancelAt(t, 1)
    BY <1>1, <1>2 DEF CancelAt
  <1>4. /\ NeedWaits' /\ NeedsSeparated'
        /\ \A t \in pending \ silent : t # s =>
             /\ \A k \in Nat : Need(t, k)' => Between(t, 0, k)'
             /\ outstanding[t] # None \/ Behind(t, 0)'
    BY <1>1, <1>3, Delivery
  <1>5. PendingCancelled' /\ PendingWaits' /\ AnsweredNotPending'
    BY <1>1, <1>4 DEF PendingCancelled, PendingWaits, QueueInv, AnsweredNotPending
  <1>6. IdsFresh'
    <2> SUFFICES ASSUME NEW u \in Sources, NEW t \in Sources, NEW k \in Nat, NEW l \in Nat,
                        Need(u, k)'
                 PROVE  /\ queue'[k].id # cb'.id
                        /\ Need(t, l)' /\ k # l => queue'[k].id # queue'[l].id
      BY DEF IdsFresh
    <2>1. Need(u, k + 1) /\ queue'[k] = queue[k + 1] /\ k + 1 \in Nat
      BY <1>1, TailNeed
    <2>2. Need(t, l)' => Need(t, l + 1) /\ queue'[l] = queue[l + 1] /\ l + 1 \in Nat
      BY <1>1, TailNeed
    <2>3. k # l => k + 1 # l + 1
      OBVIOUS
    <2>4. QED
      BY <1>1, <2>1, <2>2, <2>3 DEF QueueInv, IdsFresh
  <1>7. QED
    BY <1>4, <1>5, <1>6 DEF QueueInv

\* A step that leaves the queue and the server alone, and adds no pending source,
\* changes nothing.
LEMMA QuietQueue ==
  ASSUME QueueInv, OverlapExplained,
         UNCHANGED <<queue, outstanding, silent, overlapping>>,
         pending' \subseteq pending, cb'.id = cb.id,
         cb'.phase = "answer" => \/ cb'.src \notin pending'
                                 \/ cb.phase = "answer" /\ cb'.src = cb.src
  PROVE  QueueInv' /\ OverlapExplained'
  <1>1. \A s, k : Need(s, k)' <=> Need(s, k)
    BY DEF Need
  <1>2. \A s, i, j : /\ Between(s, i, j)' <=> Between(s, i, j)
                     /\ Behind(s, i)' <=> Behind(s, i)
    BY DEF Between, Behind, CancelAt
  <1>3. NeedWaits' /\ NeedsSeparated'
    BY <1>1, <1>2 DEF QueueInv, NeedWaits, NeedsSeparated
  <1>4. PendingCancelled' /\ PendingWaits'
    BY <1>1, <1>2 DEF QueueInv, PendingCancelled, PendingWaits
  <1>5. AnsweredNotPending' /\ OverlapExplained'
    BY DEF QueueInv, AnsweredNotPending, OverlapExplained
  <1>6. IdsFresh'
    BY <1>1 DEF QueueInv, IdsFresh
  <1>7. QED
    BY <1>3, <1>4, <1>5, <1>6 DEF QueueInv

\* The server gets its answer: no request of the source is left in the queue
\* without its cancellation.
LEMMA AnswerQueue ==
  ASSUME IInv, QueueInv, OverlapExplained, NEW s \in Sources, HaveData(s)
  PROVE  QueueInv' /\ OverlapExplained'
  <1>1. /\ TypeOK /\ queue' = queue /\ silent' = silent /\ pending' = pending
        /\ overlapping' = overlapping
        /\ cb.phase = "answer" /\ cb.src = s /\ cb'.phase = "idle" /\ cb'.id = None
    BY DEF IInv, HaveData, Idle, history, observations
  <1>2. \A t \in Sources : \/ outstanding'[t] = outstanding[t]
                           \/ t = s /\ outstanding[s] = cb.id
    BY <1>1 DEF HaveData, TypeOK
  <1>3. \A t, k : Need(t, k)' <=> Need(t, k)
    BY <1>1 DEF Need
  <1>4. \A t, i, j : /\ Between(t, i, j)' <=> Between(t, i, j)
                     /\ Behind(t, i)' <=> Behind(t, i)
    BY <1>1 DEF Between, Behind, CancelAt
  <1>5. NeedWaits'
    <2> SUFFICES ASSUME NEW t \in Sources \ silent, NEW k \in Nat, Need(t, k),
                        outstanding'[t] # queue[k].id
                 PROVE  Behind(t, k)
      BY <1>1, <1>3, <1>4 DEF NeedWaits
    <2>1. queue[k].id # cb.id
      BY DEF QueueInv, IdsFresh
    <2>2. outstanding[t] # queue[k].id
      BY <1>2, <2>1
    <2>3. QED
      BY <2>2 DEF QueueInv, NeedWaits
  <1>6. NeedsSeparated' /\ PendingCancelled'
    BY <1>1, <1>3, <1>4 DEF QueueInv, NeedsSeparated, PendingCancelled
  <1>7. PendingWaits'
    <2> SUFFICES ASSUME NEW t \in pending \ silent
                 PROVE  outstanding'[t] # None \/ Behind(t, 0)
      BY <1>1, <1>4 DEF PendingWaits
    <2>1. t \in Sources /\ t # s
      BY <1>1 DEF QueueInv, AnsweredNotPending, TypeOK
    <2>2. outstanding'[t] = outstanding[t]
      BY <1>2, <2>1
    <2>3. QED
      BY <2>2 DEF QueueInv, PendingWaits
  <1>8. AnsweredNotPending' /\ OverlapExplained'
    BY <1>1 DEF AnsweredNotPending, OverlapExplained
  <1>9. IdsFresh'
    <2>1. \A t \in Sources, k \in Nat : Need(t, k) => queue[k].id # None
      BY <1>1, NeedId
    <2>2. QED
      BY <1>1, <1>3, <2>1 DEF QueueInv, IdsFresh
  <1>10. QED
    BY <1>5, <1>6, <1>7, <1>8, <1>9 DEF QueueInv

\* A source is flushed: the cancellation of its request comes last in the queue,
\* unless the source is one whose request is cancelled unannounced.
LEMMA FlushQueue ==
  ASSUME IInv, QueueInv, OverlapExplained, NEW s \in Sources, FlushSource(s)
  PROVE  QueueInv' /\ OverlapExplained'
  <1>1. /\ TypeOK /\ queue \in Seq(Event) /\ pending \subseteq Sources
        /\ cb' = cb /\ pending' = pending /\ overlapping' = overlapping
    BY DEF IInv, TypeOK, FlushSource, observations
  <1>2. /\ \A t \in Sources : t # s => outstanding'[t] = outstanding[t]
        /\ outstanding'[s] = None
    BY <1>1 DEF FlushSource, TypeOK
  <1>3. CASE queue' = queue
    <2>1. \/ outstanding[s] = None /\ silent' = silent
          \/ silent' = silent \cup {s}
      <3>1. Append(queue, Cancel(s)) # queue
        BY <1>1
      <3>2. QED
        BY <1>3, <3>1 DEF FlushSource
    <2>2. \A t \in Sources \ silent' : outstanding'[t] = outstanding[t]
      BY <1>2, <2>1
    <2>3. \A t, k : Need(t, k)' <=> Need(t, k)
      BY <1>3 DEF Need
    <2>4. \A t, i, j : /\ Between(t, i, j)' <=> Between(t, i, j)
                       /\ Behind(t, i)' <=> Behind(t, i)
      BY <1>3 DEF Between, Behind, CancelAt
    <2>5. NeedWaits' /\ NeedsSeparated'
      BY <1>3, <2>1, <2>2, <2>3, <2>4 DEF QueueInv, NeedWaits, NeedsSeparated
    <2>6. PendingCancelled' /\ PendingWaits'
      BY <1>1, <2>1, <2>2, <2>3, <2>4 DEF QueueInv, PendingCancelled, PendingWaits
    <2>7. AnsweredNotPending' /\ IdsFresh'
      BY <1>1, <1>3, <2>3 DEF QueueInv, AnsweredNotPending, IdsFresh
    <2>8. OverlapExplained'
      BY <1>1, <2>1 DEF OverlapExplained
    <2>9. QED
      BY <2>5, <2>6, <2>7, <2>8 DEF QueueInv
  <1>4. CASE queue' = Append(queue, Cancel(s)) /\ silent' = silent
    <2>1. Cancel(s).kind = "cancel" /\ Cancel(s).src = s
      BY DEF Cancel
    <2>2. \A t : \A k \in Nat : Need(t, k)' => /\ Need(t, k) /\ queue'[k] = queue[k]
                                               /\ k < Len(queue) + 1
      <3>1. Cancel(s).kind # "need"
        BY <2>1
      <3>2. QED
        BY <1>1, <1>4, <3>1, AppendNeed
    <2>3. \A t, i, j : /\ Between(t, i, j) => Between(t, i, j)'
                       /\ Behind(t, i) => Behind(t, i)'
      BY <1>1, <1>4, AppendKeeps
    <2>4. \A k \in Nat : k < Len(queue) + 1 => Behind(s, k)'
      <3>1. PICK n \in Nat : n = Len(queue) + 1 /\ n \in DOMAIN queue' /\ queue'[n] = Cancel(s)
        BY <1>1, <1>4, AppendPlaces
      <3>2. CancelAt(s, n)'
        BY <2>1, <3>1 DEF CancelAt
      <3>3. QED
        BY <3>1, <3>2 DEF Behind
    <2>5. Behind(s, 0)'
      BY <1>1, <1>4, <2>4, AppendPlaces
    <2>6. NeedWaits'
      <3> SUFFICES ASSUME NEW t \in Sources \ silent, NEW k \in Nat, Need(t, k)',
                          outstanding'[t] # queue'[k].id
                   PROVE  Behind(t, k)'
        BY <1>4 DEF NeedWaits
      <3>1. Need(t, k) /\ queue'[k] = queue[k] /\ k < Len(queue) + 1
        BY <2>2
      <3>2. CASE t = s
        BY <2>4, <3>1, <3>2
      <3>3. CASE t # s
        BY <1>2, <2>3, <3>1, <3>3 DEF QueueInv, NeedWaits
      <3>4. QED
        BY <3>2, <3>3
    <2>7. NeedsSeparated' /\ PendingCancelled'
      BY <1>1, <1>4, <2>2, <2>3 DEF QueueInv, NeedsSeparated, PendingCancelled
    <2>8. PendingWaits'
      BY <1>1, <1>2, <1>4, <2>3, <2>5 DEF QueueInv, PendingWaits
    <2>9. AnsweredNotPending' /\ OverlapExplained'
      BY <1>1, <1>4 DEF QueueInv, AnsweredNotPending, OverlapExplained
    <2>10. IdsFresh'
      BY <1>1, <2>2 DEF QueueInv, IdsFresh
    <2>11. QED
      BY <2>6, <2>7, <2>8, <2>9, <2>10 DEF QueueInv
  <1>5. QED
    BY <1>3, <1>4 DEF FlushSource, history

\* The server asks for data: it waited for no request of the source, so that what is
\* left of an earlier one stands before a cancellation, and its id is a new one.
LEMMA RequestQueue ==
  ASSUME IInv, QueueInv, OverlapExplained, NEW s \in Sources, NEW n \in FrameCounts,
         RequestData(s, n)
  PROVE  QueueInv' /\ OverlapExplained'
  <1>1. /\ TypeOK /\ queue \in Seq(Event) /\ pending \subseteq Sources
        /\ cb' = cb /\ pending' = pending /\ overlapping' = overlapping /\ silent' = silent
        /\ outstanding[s] = None
    BY DEF IInv, TypeOK, RequestData, observations, history
  <1>2. PICK i \in RequestIds \ LiveIds :
          /\ outstanding' = [outstanding EXCEPT ![s] = i]
          /\ queue' = Append(queue, NeedData(s, n, i))
    BY DEF RequestData
  <1>3. /\ \A t \in Sources : t # s => outstanding'[t] = outstanding[t]
        /\ outstanding'[s] = i /\ i # None
    BY <1>1, <1>2, FeedAssumption DEF TypeOK
  <1>4. /\ NeedData(s, n, i).kind = "need" /\ NeedData(s, n, i).src = s
        /\ NeedData(s, n, i).id = i
    BY DEF NeedData
  <1>5. \A t : \A k \in Nat : Need(t, k)' =>
          \/ Need(t, k) /\ queue'[k] = queue[k] /\ k < Len(queue) + 1
          \/ t = s /\ k = Len(queue) + 1 /\ queue'[k].id = i
    <2>1. PICK e : e = NeedData(s, n, i)
      OBVIOUS
    <2>2. queue' = Append(queue, e) /\ e.src = s /\ e.id = i
      BY <1>2, <1>4, <2>1
    <2> SUFFICES ASSUME NEW t, NEW k \in Nat, Need(t, k)'
                 PROVE  \/ Need(t, k) /\ queue'[k] = queue[k] /\ k < Len(queue) + 1
                        \/ t = s /\ k = Len(queue) + 1 /\ queue'[k].id = i
      OBVIOUS
    <2>3. \/ Need(t, k) /\ queue'[k] = queue[k] /\ k < Len(queue) + 1
          \/ k = Len(queue) + 1 /\ queue'[k] = e /\ e.kind = "need" /\ e.src = t
      BY <1>1, <2>2, AppendNeed
    <2>4. QED
      BY <2>2, <2>3
  <1>6. \A t, k, j : /\ Between(t, k, j) => Between(t, k, j)'
                     /\ Behind(t, k) => Behind(t, k)'
    BY <1>1, <1>2, AppendKeeps
  <1>7. PICK last \in Nat : last = Len(queue) + 1
    BY <1>1, AppendPlaces, <1>2
  <1>8. \A t, k : Behind(t, k) => Between(t, k, last)
    BY <1>1, <1>2, <1>7, AppendPlaces DEF Between, Behind, CancelAt
  <1>9. NeedWaits'
    <2> SUFFICES ASSUME NEW t \in Sources \ silent, NEW k \in Nat, Need(t, k)',
                        outstanding'[t] # queue'[k].id
                 PROVE  Behind(t, k)'
      BY <1>1 DEF NeedWaits
    <2>1. Need(t, k) /\ queue'[k] = queue[k]
      BY <1>3, <1>5
    <2>2. queue[k].id # None
      BY <1>1, <2>1, NeedId
    <2>3. outstanding[t] # queue[k].id
      BY <1>1, <1>3, <2>1, <2>2
    <2>4. QED
      BY <1>6, <2>1, <2>3 DEF QueueInv, NeedWaits
  <1>10. NeedsSeparated'
    <2> SUFFICES ASSUME NEW t \in Sources \ silent, NEW k \in Nat, NEW l \in Nat,
                        k < l, Need(t, k)', Need(t, l)'
                 PROVE  Between(t, k, l)'
      BY <1>1 DEF NeedsSeparated
    <2>1. CASE Need(t, l) /\ l < last
      <3>1. Need(t, k)
        BY <1>5, <1>7, <2>1
      <3>2. QED
        BY <1>6, <2>1, <3>1 DEF QueueInv, NeedsSeparated
    <2>2. CASE t = s /\ l = last
      <3>1. Need(s, k)
        BY <1>5, <1>7, <2>2
      <3>2. queue[k].id # None
        BY <1>1, <3>1, NeedId
      <3>3. Behind(s, k)
        BY <1>1, <2>2, <3>1, <3>2 DEF QueueInv, NeedWaits
      <3>4. QED
        BY <1>6, <1>8, <2>2, <3>3
    <2>3. QED
      BY <1>5, <1>7, <2>1, <2>2
  <1>11. PendingCancelled'
    <2> SUFFICES ASSUME NEW t \in pending \ silent, NEW k \in Nat, Need(t, k)'
                 PROVE  Between(t, 0, k)'
      BY <1>1 DEF PendingCancelled
    <2>1. CASE Need(t, k)
      BY <1>6, <2>1 DEF QueueInv, PendingCancelled
    <2>2. CASE t = s /\ k = last
      <3>1. Behind(s, 0)
        BY <1>1, <2>2 DEF QueueInv, PendingWaits
      <3>2. QED
        BY <1>6, <1>8, <2>2, <3>1
    <2>3. QED
      BY <1>5, <1>7, <2>1, <2>2
  <1>12. PendingWaits'
    BY <1>1, <1>3, <1>6 DEF QueueInv, PendingWaits
  <1>13. AnsweredNotPending' /\ OverlapExplained'
    BY <1>1 DEF QueueInv, AnsweredNotPending, OverlapExplained
  <1>14. IdsFresh'
    <2>1. i # cb.id /\ \A t : \A k \in Nat : Need(t, k) => queue[k].id # i
      BY <1>2 DEF LiveIds, Need
    <2> SUFFICES ASSUME NEW u \in Sources, NEW t \in Sources, NEW k \in Nat, NEW l \in Nat,
                        Need(u, k)'
                 PROVE  /\ queue'[k].id # cb.id
                        /\ Need(t, l)' /\ k # l => queue'[k].id # queue'[l].id
      BY <1>1 DEF IdsFresh
    <2>2. \/ Need(u, k) /\ queue'[k] = queue[k]
          \/ k = last /\ queue'[k].id = i
      BY <1>5, <1>7
    <2>3. Need(t, l)' => \/ Need(t, l) /\ queue'[l] = queue[l]
                         \/ l = last /\ queue'[l].id = i
      BY <1>5, <1>7
    <2>4. QED
      BY <2>1, <2>2, <2>3 DEF QueueInv, IdsFresh
  <1>15. QED
    BY <1>9, <1>10, <1>11, <1>12, <1>13, <1>14 DEF QueueInv

-----------------------------------------------------------------------------
(***************************************************************************)
(* The theorems.                                                           *)
(***************************************************************************)

LEMMA InitQueueInv == Init => QueueInv /\ OverlapExplained
  BY DEF Init, Idle, QueueInv, NeedWaits, NeedsSeparated, PendingCancelled, PendingWaits,
         AnsweredNotPending, IdsFresh, Need, OverlapExplained

\* Every step preserves the order of requests and cancellations.
LEMMA NextQueueInv ==
  ASSUME IInv, QueueInv, OverlapExplained, [Next]_vars
  PROVE  QueueInv' /\ OverlapExplained'
  <1> USE DEF observations, history
  <1>0. TypeOK
    BY DEF IInv
  <1>1. ASSUME NEW s \in Sources, DropRequest(s)
        PROVE  QueueInv' /\ OverlapExplained'
    <2>1. RecordRequest(s) /\ cb' = cb
      BY <1>1 DEF DropRequest
    <2>2. QED
      BY <2>1, RecordQueue
  <1>2. ASSUME NEW s \in Sources, StarveRequest(s)
        PROVE  QueueInv' /\ OverlapExplained'
    <2>1. RecordRequest(s) /\ cb'.phase # "answer" /\ cb'.id = Head(queue).id
      BY <1>2 DEF StarveRequest, Idle
    <2>2. QED
      BY <2>1, RecordQueue
  <1>3. ASSUME NEW s \in Sources, StartRound(s)
        PROVE  QueueInv' /\ OverlapExplained'
    <2>1. RecordRequest(s) /\ cb'.phase # "answer" /\ cb'.id = Head(queue).id
      BY <1>3 DEF StartRound, Idle
    <2>2. QED
      BY <2>1, RecordQueue
  <1>4. ASSUME NEW s \in Sources, AnswerStarved(s)
        PROVE  QueueInv' /\ OverlapExplained'
    <2>1. cb \in Answer /\ cb.src = s
      BY <1>0, <1>4, RoundTypes DEF AnswerStarved
    <2>2. cb'.id = cb.id /\ cb'.src = s /\ pending' = pending \ {s}
      BY <1>4, <2>1 DEF AnswerStarved, AfterAnswer, Answer
    <2>3. UNCHANGED <<queue, outstanding, silent, overlapping>>
      BY <1>4 DEF AnswerStarved
    <2>4. QED
      BY <2>2, <2>3, QuietQueue
  <1>5. ASSUME NEW s \in Sources, AcceptSegment(s)
        PROVE  QueueInv' /\ OverlapExplained'
    <2>1. cb \in Round
      BY <1>0, <1>5, RoundTypes DEF AcceptSegment
    <2>2. cb'.id = cb.id /\ cb'.phase = cb.phase /\ cb'.src = cb.src
      BY <1>5, <2>1 DEF AcceptSegment, Round
    <2>3. UNCHANGED <<queue, outstanding, silent, overlapping, pending>>
      BY <1>5 DEF AcceptSegment
    <2>4. QED
      BY <2>2, <2>3, QuietQueue
  <1>6. ASSUME NEW s \in Sources, NEW status \in {"NO_SPACE", "ERROR"},
               RejectSegment(s, status)
        PROVE  QueueInv' /\ OverlapExplained'
    <2>1. cb \in Round
      BY <1>0, <1>6, RoundTypes DEF RejectSegment
    <2>2. cb'.id = cb.id /\ cb'.phase = "commit"
      BY <1>6, <2>1 DEF RejectSegment, Round
    <2>3. UNCHANGED <<queue, outstanding, silent, overlapping, pending>>
      BY <1>6 DEF RejectSegment
    <2>4. QED
      BY <2>2, <2>3, QuietQueue
  <1>7. ASSUME NEW s \in Sources, CommitRound(s)
        PROVE  QueueInv' /\ OverlapExplained'
    <2>1. cb \in Round /\ cb.src = s
      BY <1>0, <1>7, RoundTypes DEF CommitRound
    <2>2. cb'.id = cb.id /\ cb'.src = s /\ pending' = pending \ {s}
      BY <1>7, <2>1 DEF CommitRound, AfterAnswer, Round
    <2>3. UNCHANGED <<queue, outstanding, silent, overlapping>>
      BY <1>7 DEF CommitRound
    <2>4. QED
      BY <2>2, <2>3, QuietQueue
  <1>8. ASSUME NEW s \in Sources, NotifyCancelNeedMediaData(s)
        PROVE  QueueInv' /\ OverlapExplained'
    <2>1. UNCHANGED <<overlapping, silent>>
      BY <1>8 DEF NotifyCancelNeedMediaData
    <2>2. QED
      BY <1>8, <2>1, CancelQueue DEF OverlapExplained
  <1>9. CASE CallbackThread
    BY <1>1, <1>2, <1>3, <1>4, <1>5, <1>6, <1>7, <1>8, <1>9, AnswerQueue DEF CallbackThread
  <1>10. CASE TestThread
    <2>1. ASSUME NEW s \in Sources, FlushSource(s)
          PROVE  QueueInv' /\ OverlapExplained'
      BY <2>1, FlushQueue
    <2>2. ASSUME UNCHANGED <<queue, outstanding, silent, overlapping, pending, cb>>
          PROVE  QueueInv' /\ OverlapExplained'
      BY <2>2, QuietQueue
    <2>3. ASSUME ~\E s \in Sources : FlushSource(s)
          PROVE  UNCHANGED <<queue, outstanding, silent, overlapping, pending, cb>>
      BY <1>10, <2>3 DEF TestThread, SetPipeline, AllSourcesAttached, SetWithhold, SetStarve,
                 SetOversupply, AddAudioSource, RewindSource
    <2>4. QED
      BY <2>1, <2>2, <2>3
  <1>11. CASE Server
    BY <1>11, RequestQueue DEF Server
  <1>12. CASE UNCHANGED vars
    <2>1. UNCHANGED <<queue, outstanding, silent, overlapping, pending, cb>>
      BY <1>12 DEF vars
    <2>2. QED
      BY <2>1, QuietQueue
  <1>13. QED
    BY <1>9, <1>10, <1>11, <1>12 DEF Next

\* The order of requests and cancellations is as stated in every reachable state.
LEMMA QueueInvariance == Spec => [](QueueInv /\ OverlapExplained)
  <1>1. IInv /\ (QueueInv /\ OverlapExplained) /\ [Next]_vars => (QueueInv /\ OverlapExplained)'
    BY NextQueueInv
  <1>2. QED
    BY InitQueueInv, Invariance, <1>1, PTL DEF Spec

\* sawOverlappingNeedData() never accuses a server that announces its cancellations,
\* whatever the test thread does in between: withhold, starve, rewind or flush.
THEOREM OverlapsExplained == Spec => []OverlapExplained
  BY QueueInvariance, PTL

\* m_pendingNeedData holds no source whose request is neither being answered, awaited,
\* nor cancelled.
THEOREM PendingAccounted == Spec => []PendingExplained
  <1>1. TypeOK /\ QueueInv => PendingExplained
    <2> SUFFICES ASSUME TypeOK, QueueInv, NEW s \in pending, s \notin silent,
                        outstanding[s] = None
                 PROVE  CancelQueued(s)
      BY DEF PendingExplained
    <2>1. Behind(s, 0)
      BY DEF QueueInv, PendingWaits
    <2>2. QED
      BY <2>1 DEF Behind, CancelAt, CancelQueued
  <1>2. QED
    BY <1>1, TypeCorrect, QueueInvariance, PTL

===============================================================================
