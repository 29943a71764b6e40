------------------------------- MODULE MediaFeed -------------------------------
(***************************************************************************)
(* FeedingMediaPipelineClient (include/conformance/MediaFeed.h,            *)
(* src/common/MediaFeed.cpp): the IMediaPipelineClient that answers a      *)
(* RialtoServer's need-data requests from a prepared stream.  Three        *)
(* parties act:                                                            *)
(*   - the client IPC thread delivers the server's notifications one at a  *)
(*     time; notifyNeedMediaData holds m_mutex only to build a batch and   *)
(*     to record each result, and calls addSegment and haveData without    *)
(*     it, so `cb' remembers where the handler is;                         *)
(*   - the test thread changes the feed through its public methods, each   *)
(*     one critical section of m_mutex, at any moment;                     *)
(*   - the server (outside this repository) requests, accepts or rejects   *)
(*     segments, and cancels requests when a source is flushed.            *)
(* A frame is its index in the stream.  Payloads, and with them            *)
(* m_corruptEvery, are abstracted away, as are the counters, the request   *)
(* log and the notifications that only record what was seen.               *)
(***************************************************************************)
EXTENDS Naturals, Sequences

CONSTANTS Sources,       \* source ids returned by attachSource
          StreamLength,  \* frames in the stream registered for a source
          FrameCounts,   \* frame counts the server may ask for
          Oversupplies,  \* multiples the test may pass to setOversupply
          RequestIds,    \* need-data request ids the server hands out
          MaxOps,        \* bound: interventions of the test thread
          None           \* "no value"

ASSUME FeedAssumption ==
  /\ StreamLength \in Nat \ {0}
  /\ FrameCounts \subseteq Nat \ {0}
  /\ Oversupplies \subseteq Nat
  /\ MaxOps \in Nat
  /\ None \notin Nat \cup Sources \cup RequestIds

VARIABLES
  pipelineSet,             \* m_pipeline is not null
  registered,              \* domain of m_feeds
  nextFrame,               \* m_feeds[s].nextFrame
  pending,                 \* m_pendingNeedData
  overlapping,             \* m_overlappingNeedData
  allSegmentsAccepted,     \* m_allSegmentsAccepted
  noSpaceFrame,            \* m_noSpaceFrame, None where the map has no entry
  noSpaceSegmentAccepted,  \* m_noSpaceSegmentAccepted
  starve, withhold, oversupply,  \* m_starve, m_withhold, m_oversupply
  cb,           \* where the callback thread is in notifyNeedMediaData
  queue,        \* notifications the callback thread has yet to deliver
  allAttached,  \* server: allSourcesAttached has been called
  outstanding,  \* server: the request of each source it still waits for
  ended,        \* server: the source's EOS has been received
  ops,          \* interventions so far
  fed,          \* history: frames of s accepted since s was positioned
  tainted,      \* history: sources rewound in the middle of a round
  silent        \* history: sources whose request was cancelled unannounced

observations == <<overlapping, allSegmentsAccepted, noSpaceFrame,
                  noSpaceSegmentAccepted>>
modes   == <<starve, withhold, oversupply>>
binding == <<pipelineSet, registered, allAttached>>
history == <<fed, tainted, silent>>
vars == <<binding, nextFrame, pending, observations, modes, cb, queue,
          outstanding, ended, ops, history>>

-----------------------------------------------------------------------------
Frames == 0 .. StreamLength - 1

NeedData(s, n, i) == [kind |-> "need", src |-> s, count |-> n, id |-> i]
Cancel(s)         == [kind |-> "cancel", src |-> s, count |-> 0, id |-> None]

Idle == [phase |-> "idle", src |-> None, id |-> None, first |-> 0,
         size |-> 0, accepted |-> 0, status |-> "OK"]

\* The callback thread is answering a request of s with segments.
InRound(s) == cb.phase \in {"offer", "commit", "answer"} /\ cb.src = s

\* Where the feed of s stands, counting what the round under way got accepted.
Cursor(s) == IF cb.phase \in {"offer", "commit"} /\ cb.src = s
             THEN nextFrame[s] + cb.accepted ELSE nextFrame[s]

Smaller(a, b) == IF a < b THEN a ELSE b

Init ==
  /\ pipelineSet = FALSE
  /\ registered = {}
  /\ nextFrame = [s \in Sources |-> 0]
  /\ pending = {}
  /\ overlapping = FALSE
  /\ allSegmentsAccepted = TRUE
  /\ noSpaceFrame = [s \in Sources |-> None]
  /\ noSpaceSegmentAccepted = FALSE
  /\ starve = FALSE
  /\ withhold = FALSE
  /\ oversupply = 1
  /\ cb = Idle
  /\ queue = << >>
  /\ allAttached = FALSE
  /\ outstanding = [s \in Sources |-> None]
  /\ ended = [s \in Sources |-> FALSE]
  /\ ops = 0
  /\ fed = [s \in Sources |-> << >>]
  /\ tainted = {}
  /\ silent = {}

-----------------------------------------------------------------------------
(***************************************************************************)
(* The callback thread.                                                    *)
(***************************************************************************)

\* Mutation: the batch is not cut at the end of the stream.
BatchPastEnd(s, n) == n * oversupply

\* Frames of s offered for a request of n: from the cursor up to the end of
\* the stream or n times the oversupply, whichever comes first.
BatchSize(s, n) == Smaller(StreamLength - nextFrame[s], n * oversupply)

\* Mutation: the source stays marked.
StillPending(s) == pending

\* Pending sources once a request of s has been answered, or cancelled.
AfterAnswer(s) == pending \ {s}
AfterCancel(s) == pending \ {s}

\* The request is dropped: no pipeline bound, no stream registered, or withheld.
Unanswerable(s) == ~pipelineSet \/ s \notin registered \/ withhold

\* The callback thread is free and the next notification is of this kind.
Receive(kind, s) ==
  /\ cb.phase = "idle"
  /\ queue # << >>
  /\ Head(queue).kind = kind /\ Head(queue).src = s
  /\ queue' = Tail(queue)

\* The first critical section of notifyNeedMediaData: the request is recorded
\* before anything else is decided, and one that finds its source pending is an
\* overlap.
RecordRequest(s) ==
  /\ Receive("need", s)
  /\ overlapping' = (overlapping \/ s \in pending)
  /\ pending' = pending \cup {s}
  /\ UNCHANGED <<binding, nextFrame, allSegmentsAccepted, noSpaceFrame,
                 noSpaceSegmentAccepted, modes, outstanding, ended, ops, history>>

\* The handler returns at once: the request stays pending and is never answered.
DropRequest(s) ==
  /\ RecordRequest(s)
  /\ Unanswerable(s)
  /\ UNCHANGED cb

\* The handler is about to answer without data.
StarveRequest(s) ==
  /\ RecordRequest(s)
  /\ ~Unanswerable(s) /\ starve
  /\ cb' = [Idle EXCEPT !.phase = "starve", !.src = s, !.id = Head(queue).id]

\* The batch is built from the cursor, which does not move yet.
StartRound(s) ==
  /\ RecordRequest(s)
  /\ ~Unanswerable(s) /\ ~starve
  /\ cb' = [Idle EXCEPT !.phase = "offer", !.src = s, !.id = Head(queue).id,
                        !.first = nextFrame[s],
                        !.size = BatchSize(s, Head(queue).count)]

\* Starving: the request stops being pending, and is answered without data.
AnswerStarved(s) ==
  /\ cb.phase = "starve" /\ cb.src = s
  /\ pending' = AfterAnswer(s)
  /\ cb' = [cb EXCEPT !.phase = "answer"]
  /\ UNCHANGED <<binding, nextFrame, observations, modes, queue, outstanding,
                 ended, ops, history>>

\* Mutation: the index in the batch is taken for the index in the stream.
RetryByBatchIndex(s, frame) == noSpaceFrame[s] = cb.accepted

\* A frame rejected for want of space has been accepted at last.
Retry(s, frame) == noSpaceFrame[s] = frame

\* addSegment returns OK; the server takes segments only for a request it is
\* still waiting for.
AcceptSegment(s) ==
  LET frame == cb.first + cb.accepted IN
  /\ cb.phase = "offer" /\ cb.src = s
  /\ cb.accepted < cb.size
  /\ outstanding[s] = cb.id
  /\ cb' = [cb EXCEPT !.accepted = @ + 1]
  /\ noSpaceFrame' = [noSpaceFrame EXCEPT ![s] = IF Retry(s, frame) THEN None ELSE @]
  /\ noSpaceSegmentAccepted' = (noSpaceSegmentAccepted \/ Retry(s, frame))
  /\ fed' = IF s \in tainted THEN fed ELSE [fed EXCEPT ![s] = Append(@, frame)]
  /\ UNCHANGED <<binding, nextFrame, pending, overlapping, allSegmentsAccepted,
                 modes, queue, outstanding, ended, ops, tainted, silent>>

\* Mutation: the batch's first frame is retained, not the one refused.
RejectedBatch == cb.first

\* The frame to offer first next time, when the server has no room for it.
RejectedFrame == cb.first + cb.accepted

\* addSegment returns NO_SPACE or ERROR, which ends the round; a request the
\* server has cancelled is an ERROR.
RejectSegment(s, status) ==
  /\ cb.phase = "offer" /\ cb.src = s
  /\ cb.accepted < cb.size
  /\ status = "NO_SPACE" => outstanding[s] = cb.id
  /\ allSegmentsAccepted' = FALSE
  /\ noSpaceFrame' = IF status = "NO_SPACE"
                     THEN [noSpaceFrame EXCEPT ![s] = RejectedFrame]
                     ELSE noSpaceFrame
  /\ cb' = [cb EXCEPT !.phase = "commit"]
  /\ UNCHANGED <<binding, nextFrame, pending, overlapping, noSpaceSegmentAccepted,
                 modes, queue, outstanding, ended, ops, history>>

\* Mutation: the cursor moves by what was offered.
CursorAfterOffer(s) == nextFrame[s] + cb.size

\* The cursor moves by what was accepted, from where it stands now.
AdvancedCursor(s) == nextFrame[s] + cb.accepted

\* Mutations: EOS with the last frame still to come, and EOS never reached.
EarlyStatus(frame) == IF frame + 1 >= StreamLength THEN "EOS" ELSE "OK"
LateStatus(frame)  == IF frame > StreamLength THEN "EOS" ELSE "OK"

\* EOS once the cursor has reached the end of the stream.
StatusAt(frame) == IF frame >= StreamLength THEN "EOS" ELSE "OK"

\* The last critical section, once the batch is exhausted or a segment refused.
CommitRound(s) ==
  /\ cb.src = s
  /\ cb.phase = "commit" \/ (cb.phase = "offer" /\ cb.accepted = cb.size)
  /\ nextFrame' = [nextFrame EXCEPT ![s] = AdvancedCursor(s)]
  /\ pending' = AfterAnswer(s)
  /\ cb' = [cb EXCEPT !.phase = "answer", !.status = StatusAt(AdvancedCursor(s))]
  /\ UNCHANGED <<binding, observations, modes, queue, outstanding, ended, ops, history>>

\* haveData: the server closes the request, or ignores an answer to one it has
\* cancelled meanwhile.
HaveData(s) ==
  /\ cb.phase = "answer" /\ cb.src = s
  /\ IF outstanding[s] = cb.id
     THEN /\ outstanding' = [outstanding EXCEPT ![s] = None]
          /\ ended' = [ended EXCEPT ![s] = (cb.status = "EOS")]
     ELSE UNCHANGED <<outstanding, ended>>
  /\ cb' = Idle
  /\ UNCHANGED <<binding, nextFrame, pending, observations, modes, queue, ops, history>>

\* notifyCancelNeedMediaData: the request is no longer outstanding.
NotifyCancelNeedMediaData(s) ==
  /\ Receive("cancel", s)
  /\ pending' = AfterCancel(s)
  /\ UNCHANGED <<binding, nextFrame, observations, modes, cb, outstanding, ended,
                 ops, history>>

CallbackThread ==
  \E s \in Sources :
    \/ DropRequest(s)   \/ StarveRequest(s) \/ AnswerStarved(s)
    \/ StartRound(s)    \/ AcceptSegment(s) \/ CommitRound(s)
    \/ HaveData(s)      \/ NotifyCancelNeedMediaData(s)
    \/ \E status \in {"NO_SPACE", "ERROR"} : RejectSegment(s, status)

-----------------------------------------------------------------------------
(***************************************************************************)
(* The test thread.                                                        *)
(***************************************************************************)

SetPipeline ==
  /\ ~pipelineSet
  /\ pipelineSet' = TRUE
  /\ UNCHANGED <<registered, allAttached, nextFrame, pending, observations, modes,
                 cb, queue, outstanding, ended, ops, history>>

\* Each case registers a source once, as attachSource returns its id.
AddAudioSource(s) ==
  /\ s \notin registered
  /\ registered' = registered \cup {s}
  /\ nextFrame' = [nextFrame EXCEPT ![s] = 0]
  /\ UNCHANGED <<pipelineSet, allAttached, pending, observations, modes, cb, queue,
                 outstanding, ended, ops, history>>

\* IMediaPipeline::allSourcesAttached: from here on the server asks for data.
AllSourcesAttached ==
  /\ ~allAttached
  /\ allAttached' = TRUE
  /\ UNCHANGED <<pipelineSet, registered, nextFrame, pending, observations, modes,
                 cb, queue, outstanding, ended, ops, history>>

Intervene == ops < MaxOps /\ ops' = ops + 1

RewindSource(s) ==
  /\ Intervene
  /\ s \in registered
  /\ nextFrame' = [nextFrame EXCEPT ![s] = 0]
  /\ fed' = [fed EXCEPT ![s] = << >>]
  /\ tainted' = IF InRound(s) THEN tainted \cup {s} ELSE tainted \ {s}
  /\ UNCHANGED <<binding, pending, observations, modes, cb, queue, outstanding,
                 ended, silent>>

SetWithhold(b) ==
  /\ Intervene
  /\ withhold' = b
  /\ UNCHANGED <<binding, nextFrame, pending, observations, starve, oversupply, cb,
                 queue, outstanding, ended, history>>

SetStarve(b) ==
  /\ Intervene
  /\ starve' = b
  /\ UNCHANGED <<binding, nextFrame, pending, observations, withhold, oversupply, cb,
                 queue, outstanding, ended, history>>

SetOversupply(multiple) ==
  /\ Intervene
  /\ oversupply' = IF multiple = 0 THEN 1 ELSE multiple
  /\ UNCHANGED <<binding, nextFrame, pending, observations, starve, withhold, cb,
                 queue, outstanding, ended, history>>

\* IMediaPipeline::flush of one source, and what a seek (setPosition) does to
\* each: the server drops the request it waits for and may announce that.
FlushSource(s) ==
  /\ Intervene
  /\ allAttached
  /\ \/ outstanding[s] = None /\ UNCHANGED <<queue, silent>>
     \/ /\ outstanding[s] # None
        /\ queue' = Append(queue, Cancel(s))
        /\ UNCHANGED silent
     \/ /\ outstanding[s] # None
        /\ silent' = silent \cup {s}
        /\ UNCHANGED queue
  /\ outstanding' = [outstanding EXCEPT ![s] = None]
  /\ ended' = [ended EXCEPT ![s] = FALSE]
  /\ UNCHANGED <<binding, nextFrame, pending, observations, modes, cb, fed, tainted>>

TestThread ==
  \/ SetPipeline
  \/ AllSourcesAttached
  \/ \E b \in BOOLEAN : SetWithhold(b) \/ SetStarve(b)
  \/ \E multiple \in Oversupplies : SetOversupply(multiple)
  \/ \E s \in Sources : AddAudioSource(s) \/ RewindSource(s) \/ FlushSource(s)

-----------------------------------------------------------------------------
(***************************************************************************)
(* The server's requests.                                                  *)
(***************************************************************************)

\* Ids still in use: the server never hands out one of these again.
LiveIds == {outstanding[s] : s \in Sources} \cup {queue[k].id : k \in DOMAIN queue}
             \cup {cb.id}

\* A source has at most one request outstanding, and none after its EOS.
RequestData(s, n) ==
  /\ allAttached
  /\ outstanding[s] = None
  /\ ~ended[s]
  /\ RequestIds \ LiveIds # {}
  /\ LET i == CHOOSE i \in RequestIds \ LiveIds : TRUE IN
       /\ outstanding' = [outstanding EXCEPT ![s] = i]
       /\ queue' = Append(queue, NeedData(s, n, i))
  /\ UNCHANGED <<binding, nextFrame, pending, observations, modes, cb, ended, ops,
                 history>>

Server == \E s \in Sources, n \in FrameCounts : RequestData(s, n)

Next == CallbackThread \/ TestThread \/ Server

Spec == Init /\ [][Next]_vars

\* The callback thread keeps running, a server that lacks data asks for it, and
\* one that keeps being offered segments of a source accepts one now and then.
Fairness ==
  /\ WF_vars(CallbackThread)
  /\ \A s \in Sources : /\ WF_vars(\E n \in FrameCounts : RequestData(s, n))
                        /\ SF_vars(AcceptSegment(s))

FairSpec == Spec /\ Fairness
-----------------------------------------------------------------------------
(***************************************************************************)
(* Properties.                                                             *)
(***************************************************************************)
Round  == [phase : {"offer", "commit", "answer"}, src : Sources, id : RequestIds,
           first : Nat, size : Nat, accepted : Nat, status : {"OK", "EOS"}]
Answer == [phase : {"starve", "answer"}, src : Sources, id : RequestIds,
           first : {0}, size : {0}, accepted : {0}, status : {"OK"}]
Event  == [kind : {"need"}, src : Sources, count : FrameCounts, id : RequestIds]
            \cup [kind : {"cancel"}, src : Sources, count : {0}, id : {None}]

\* The types of the fields of the client, of the notifications on their way to it
\* and of the server's view of each source.
TypeOK ==
  /\ pipelineSet \in BOOLEAN /\ allAttached \in BOOLEAN
  /\ registered \subseteq Sources
  /\ nextFrame \in [Sources -> 0 .. StreamLength]
  /\ pending \subseteq Sources
  /\ overlapping \in BOOLEAN
  /\ allSegmentsAccepted \in BOOLEAN
  /\ noSpaceFrame \in [Sources -> Frames \cup {None}]
  /\ noSpaceSegmentAccepted \in BOOLEAN
  /\ starve \in BOOLEAN /\ withhold \in BOOLEAN /\ oversupply \in Nat \ {0}
  /\ cb \in {Idle} \cup Round \cup Answer
  /\ queue \in Seq(Event)
  /\ outstanding \in [Sources -> RequestIds \cup {None}]
  /\ ended \in [Sources -> BOOLEAN]
  /\ ops \in Nat
  /\ fed \in [Sources -> Seq(Frames)]
  /\ tainted \subseteq Sources /\ silent \subseteq Sources

\* Whatever segments the server accepts or refuses, and however often a source is
\* rewound between rounds, the frames it has accepted since then are exactly the
\* first ones of the stream, up to the feed's cursor: notifyNeedMediaData neither
\* skips, repeats nor reorders a frame (the retained segment of RC-CORE-DATA-004).
FedInOrder ==
  \A s \in Sources \ tainted : fed[s] = [k \in 1 .. Cursor(s) |-> k - 1]

\* A segment refused with NO_SPACE is never passed over: as long as m_noSpaceFrame
\* waits for it, the feed has not got beyond it, even when rewindSource has moved
\* the cursor in the meantime.
RetainedNotSkipped ==
  \A s \in Sources : noSpaceFrame[s] # None => Cursor(s) <= noSpaceFrame[s]

\* sawOverlappingNeedData() accuses the server of overlapping requests only where
\* it replaced one without announcing the cancellation: neither withholding, nor
\* flushing during a round, nor an early request makes the feed report a false
\* RC-CORE-DATA-002 violation.
OverlapExplained == overlapping => silent # {}

CancelQueued(s) == \E k \in DOMAIN queue : queue[k].kind = "cancel" /\ queue[k].src = s

\* m_pendingNeedData never outlives the request it stands for: a source is pending
\* while the handler works for it, while the server waits for its answer, until an
\* announced cancellation arrives, or after an unannounced one.
PendingExplained ==
  \A s \in pending : \/ cb.src = s
                     \/ outstanding[s] # None
                     \/ CancelQueued(s)
                     \/ s \in silent

\* Seen through its history, the feed is the in-order, lossless channel of
\* FeedContract, and says EOS only when the whole stream has been accepted.
Contract == INSTANCE FeedContract WITH got <- fed, voided <- tainted, over <- ended
FeedIsContract == Contract!Spec

\* What MediaFeed.h asks of the caller (the pipeline bound and the streams registered
\* before allSourcesAttached), and a test that never withholds.
Cooperative == /\ allAttached => pipelineSet /\ registered = Sources
               /\ ~withhold

\* Every source of a cooperating test is fed to its end, and stays there, through
\* full buffers, flushes and rewinds, unless the test leaves it starving.
StreamEnds ==
  []Cooperative => \A s \in Sources : allAttached ~> [](ended[s] \/ starve)
\* A segment refused for want of space is accepted in a later round, and the feed
\* notices (sawNoSpaceSegmentAccepted, which the RC-CORE-DATA-004 case asserts),
\* whatever flushes and rewinds come between.
NoSpaceIsResent ==
  [](Cooperative /\ ~starve) =>
    \A s \in Sources : (noSpaceFrame[s] # None) ~> noSpaceSegmentAccepted

===============================================================================
