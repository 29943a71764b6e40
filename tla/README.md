# rialto-conformance: TLA+ models, checks and proofs

rialto-conformance is a GoogleTest suite that takes the place of a media
application: it drives Rialto's two external interfaces (the native Firebolt C++
API, and the `rialtomse*sink` GStreamer elements) against a RialtoServer, and an
adjudicator on a host deploys, launches, runs and judges it on a target. Its
verdicts are worth what its own concurrent parts are worth: a feed that loses a
frame, or a wait satisfied by an old event, blames the server for a fault of the
suite or hides one of the server's.

This directory models those parts. Paths below are relative to `src/`.

## 1. Inventory

| component | state | operations | what is hard | modelled in |
|---|---|---|---|---|
| **Feed** `FeedingMediaPipelineClient` (`include/conformance/MediaFeed.h`, `src/common/MediaFeed.cpp:1-427, 440-450, 533-544, 616-620`) | streams and cursors per source, pending requests, fault modes; all under `m_mutex` | `notifyNeedMediaData`, `notifyCancelNeedMediaData` on the client IPC thread; `setPipeline`, `add*Source`, `rewindSource`, `setWithhold/Starve/Oversupply` on the test thread | the handler releases the lock around `addSegment` and `haveData`; buffers fill mid-batch; flushes overtake requests; modes change under it | `MediaFeed`, `FeedContract` |
| **Recording client and waits** (the rest of `MediaFeed.cpp`, `AsyncApply.h`) | sets and last values of notifications, a condition variable | notifications on the IPC thread; `waitFor...`, `saw...`, `pollUntilApplied` on the test thread | nothing is cleared, so an old event may satisfy a new wait; setters return before they are applied | `Playback` |
| **Native data-path cases** (`src/L4_e2e/playback/*.cpp`) | the script of each case | bring-up, transport, seek, flush, fault injection | sleeps instead of synchronisation; rewinds and flushes against a running feed | `NativeCases` |
| **MSE sink feeds and their cases** (`MseSinkFeed.cpp`, `MseVideoSinkFeed.cpp`, `src/L4_e2e/mse/*.cpp`) | next frame, loop count, `m_eosSignalled`, the GStreamer pipeline and bus | `pushNextFrame` on the appsrc thread; `startPlaying`, `signalEos`, `waitForBusMessage` on the test thread | an unsynchronised flag; a retry and a preroll under one deadline; timestamps over a replay | `MseSinkFeed` |
| **Other recording clients** (`ControlTests.cpp`, `WebAudioTests.cpp`, `ClientLogControlTests.cpp`, `PipelineLifecycleTests.cpp`) | what each client heard, and a mark in it | callbacks on a library thread; waits since a mark | late records; notices of an earlier transition | `ClientCases` |
| **Server-manager control** (`SimControl.cpp`, `ControlTests.cpp`) | the server's application state | state transitions over HTTP, `RestoreActive` | exchanges that fail half-way; a failed case must not leave the server inactive | `ClientCases` |
| **ClearKey backend** (`backends/opencdm/clearkey/open_cdm.cpp`) | per session: requested ids, stored keys, `closed` | construct, update, remove, close, destruct, status, `has_key_id` | callbacks fired inside the calls and acted on later; part-way failures; lengths narrowed to `uint8_t` | `ClearKeySession`, `ClearKeyText` |
| **ClearKey session cases** (`KeysSessionTests.cpp`) | which callbacks arrived | the calls of `IMediaKeys`, waits | callbacks arrive as late tasks | `KeysCases` |
| **Gates and selection** (`TierGate.h`, `ScopeGate.h`, `CapabilityGate.h`, `RialtoRelease.h`, `main.cpp`) | none after start-up | decide which cases run | missing values, releases of different length | `Selection` |
| **raft adjudicator** (`raft/suites/test_rialto_conformance.py`) | results directory, console session | set up, deploy, launch, run, collect, tear down, adjudicate | a time-out leaves the command running; transfers have no time-out; results of an earlier run | `Adjudication` |
| **Target bring-up/teardown** (`packaging/launch-target.sh`, `teardown-target.sh`) | server processes, the socket file | launch, wait until ready, tear down | survivors of an earlier run | `Adjudication`, by outcome |
| **Elementary-stream generators** (`MediaFeed.cpp:60-250`) | none kept | encode a stream | rounded or missing timestamps; frames in decoding order | `MseSinkFeed`, timestamps only |
| **Emulator container** (`emulator.sh`, `docker/emulator-target-up.sh`) | `.ready` and `.stop` markers | up, down, the container's own loop | markers are not synchronised | - |
| **Registration probe, surfaces, single-call cases of L1-L3, build scripts** | none kept, or files only | sequential | nothing concurrent of their own | - |

How they interact. A case creates an `IMediaPipeline` with a feed as its client;
the server's requests arrive as callbacks on the IPC thread, and the feed answers
with calls back into the pipeline. The decryption cases create an `IMediaKeys`;
the server reaches the ClearKey backend through Rialto's wrapper, which turns the
backend's callbacks into tasks of its main thread and those into
`onLicenseRequest` and `onKeyStatusesChanged`. The MSE cases talk to the sink element
by events, queries and bus messages while appsrc's thread feeds it. The control cases
move the server between states through the server manager. The adjudicator only shares
files, processes and a console with all of this.

What makes each correct:

- feed: every stream is delivered in order and without loss whatever the server
  refuses and the test does; EOS exactly at the end; a retained segment is resent;
  the server is accused of overlapping requests only when it did overlap them;
- every case: it never fails a server that conforms, whichever thread is late; it never
  lets a server pass with a fault the case is there to catch, once that fault has
  shown; and it ends;
- backend: the client learns of every key stored and of no other; batches of
  statuses are always completed; a failed update has no effect;
- MSE feeds: timestamps increase over any number of replays if frames come in the order
  they are presented in, and each replay is later than the last if not, signalling the end blocks
  nobody, and the collection is reported once the client exists;
- server manager: the server is left Active;
- adjudicator and target: a verdict has a cause in this invocation, and the target is
  torn down whatever failed;
- gates: a case runs if and only if its tier, scope, capabilities and release allow it.

`PROJECT.json` lists the hazards at their lines, with the properties that cover
them or a note why none does.

How the modules build on each other:

```
FeedContract <--refined by-- MediaFeed --+
                                         +--> Playback --> NativeCases --> MCNativeCases
CaseScript ------------------------------+
NativeCases, MediaFeedProofs --> NativeCasesProofs --> NativeFaultProofs
CaseScript --> MseSinkFeed --> MCMseSinkFeed
CaseScript --> ClientCases --> MCClientCases
CaseScript, ClearKeyText, ClearKeySession (INSTANCE) --> KeysCases --> MCKeysCases
ClearKeySession --> MCClearKeySession
Selection --> Adjudication --> MCAdjudication
Adjudication --> AdjudicationProofs
MseSinkFeed --> MseSinkProofs
ClientCases --> ClientCasesProofs
MediaFeed --> MediaFeedProofs
KeysCases --> KeysCasesProofs
ClearKeySession --> ClearKeyProofs
```

## 2. The feed

### Correspondence

`notifyNeedMediaData` (`MediaFeed.cpp:293-426`) holds `m_mutex` three or more
times, so it is several actions, and `cb` is the program counter and the locals of
the handler:

| code | action |
|---|---|
| first critical section, then an early return (no pipeline, unknown source, withheld) | `DropRequest` |
| first critical section, starving; second one and `haveData` | `StarveRequest`, `AnswerStarved`, `HaveData` |
| first critical section, batch built from the cursor | `StartRound` |
| `addSegment` returned OK, its result recorded | `AcceptSegment` |
| `addSegment` returned NO_SPACE or an error, recorded, loop left | `RejectSegment` |
| last critical section: cursor moved, pending erased, status fixed | `CommitRound` |
| `haveData` outside the lock | `HaveData` |

An `addSegment` call and the critical section that records its result are one
action: nothing else reads the feed's `m_noSpaceFrame` or the server's answer in
between. The public methods of the test thread are one critical section and one
action each. `setPipeline` and the registrations may come in any order relative to
the feeding; a source is registered once, with the id `attachSource` returned, as in
every case. `oversupply` 0 is taken for 1, as in `setOversupply`.

The server is external. It asks for data of an attached source when no request of
that source is outstanding and its EOS was not received; it accepts a segment only
for an outstanding request, and may refuse any; a flush (or a seek, which flushes)
drops the outstanding request and announces that, or does not. Its callbacks arrive in
the order it makes them, so no request overtakes the cancellation of its predecessor, but
a cancellation may arrive while a round is being answered. Request ids are
reused once they are out of use. The frame count of a request is at least 1.

Abstracted: a frame is its index in the stream, payloads with it; the counters and
the request log. The other half of the client, which only records, is in `Playback`
(section 3).

### Runs

| run | shows | instance |
|---|---|---|
| `feed_safety` | types; `FedInOrder`, `RetainedNotSkipped`, `OverlapExplained`, `PendingExplained`; `MediaFeed` implements `FeedContract` | 2 sources, 3 frames, 2 interventions of the test thread, oversupply up to 2 |
| `feed_liveness` | `StreamEnds`, `NoSpaceIsResent` under fairness | 1 source, 3 frames, 3 interventions |

*Why these bounds.* Two sources let rounds of one come between those of the other,
and requests and cancellations of both queue up. Three frames with a request for one,
doubled by the oversupply, give a full batch, a batch cut at the end of the stream
and an empty one, and a refusal at the first and at a later frame of a batch. Two
interventions give rewind+rewind, flush+rewind, mode set+mode cleared, and each of them
in every phase of a round; setting the pipeline, registering and attaching are not
counted. With 3 request ids there is one per source and one left of a
cancelled round. Liveness uses one source, since requests of different sources only
share the callback thread, and one more intervention, so that a withheld or starved
source can also be flushed or rewound. `MaxOps` bounds only the test thread: every
case makes finitely many calls.

*Fairness.* The IPC thread keeps delivering (`WF` of `CallbackThread`): nothing in a
handler blocks for ever, since `m_mutex` is only held for short sections. A server
that lacks data asks for it (`WF` of `RequestData` for each source), which is the
pull protocol the suite relies on. A server that keeps being offered segments of a
source takes one now and then (`SF` of `AcceptSegment`): it plays what it has and so
frees space. The test thread has none. `StreamEnds` and `NoSpaceIsResent` assume a
cooperating test (pipeline and streams in place before `allSourcesAttached`, as
`MediaFeed.h` asks, and no withholding); without that the feed deliberately never
answers. What becomes of a request withheld is the question of `feed_resume` (section 3).

### Proofs

For every set of sources, stream length, frame counts, oversupply and number of
interventions, from `FeedAssumption` alone:

- `TypeCorrect`: `Spec => []TypeOK`. `TypeOK` is not inductive, because committing a
  round must keep the cursor within the stream. The inductive invariant is `IInv ==
  TypeOK /\ RoundInv /\ UnregisteredInv`: between the building of a batch and its
  commit the batch lies within the stream and the cursor is where it was taken from,
  or 0 after a rewind; an unregistered source's cursor is 0.
- `InOrder`: `Spec => []FedInOrder`, from `IInv`: only `AcceptSegment` and
  `RewindSource` change a source's effective cursor (`CursorKept`), and the frame
  accepted is the one at the cursor unless the round is tainted (`AcceptAtCursor`).
- `RetainedKept`: `Spec => []RetainedNotSkipped`. The property is not inductive: a
  rewind in mid-round lowers the cursor while the round goes on from where it was.
  `RetainedInv` bounds both the cursor and the round by the retained frame.
- `Implements`: `Spec => FeedIsContract`, the refinement. `AnswerInv` says that an
  untainted round about to say EOS has had the whole stream accepted; `ContractStep`
  maps each action to a step of the contract or to a stutter.

- `OverlapsExplained` and `PendingAccounted`: `Spec => []OverlapExplained` and `Spec =>
  []PendingExplained`. Neither is inductive: a request may wait in the queue behind the
  cancellation of its predecessor, while the source is still pending for that one.
  `QueueInv` says in what order the two stand, for every source never cancelled
  unannounced: a queued request is the one the server waits for or has its cancellation
  behind it (`NeedWaits`); of two, the first is cancelled before the second comes
  (`NeedsSeparated`); and before any queued request of a pending source comes a
  cancellation (`PendingCancelled`). A request delivered to a pending source therefore
  contradicts `PendingCancelled` at the head of the queue. That the ids of requests under
  way differ (`IdsFresh`) is what lets an answer close only its own request. The step
  lemmas go by what an action does to the queue: deliver (`RecordQueue`, `CancelQueue`),
  enqueue (`RequestQueue`, `FlushQueue`), close (`AnswerQueue`) or nothing (`QuietQueue`).

Only model-checked: the liveness properties.

## 3. The cases

### Scripts and faults

`CaseScript` is what the modules of cases share. A case is a sequence of steps: the
calls, assertions, waits and reads of its body in their order, bring-up and teardown
included. `Judge` gives a step's result its effect: `UT_ASSERT_TRUE` records a failure
and goes on, `UT_ASSERT_..._FATAL` leaves the body for what a destructor or the fixture
still does. Wording and logging are left out.

What a case tests conforms, or has one fault: it refuses a call, answers the opposite,
accepts a value and ignores it, never notifies an event, notifies something it should
not (`Spoils`), or rejects a segment it asked for. `shown` is a history variable: the
fault has changed something. The three properties of every case are the soundness of a
verdict, in both directions, and its termination. For the second direction `catches`
holds one fault for each assertion of the body, the refusal of every call and the wrong
answer to every getter that it insists on among them (for the native cases `Insisted`
computes those from the script). Some comments claim more than the assertions can see;
those claims are listed under *Claims no assertion sees* below, and `UnassertedPasses` checks
of those that the model can break (`Unasserted`) that `catches` is right to leave them out.

Some assertions are folded into one step: the bound on a call's elapsed time into its refusal
(a call that blocks is one that does not return true), the frame counters' order and the position's
sign into the getter's answer, the buffer size into `boundsTheWrite`, the three error states of
`CleanRunNetworkStateVocabulary` into `NETWORK_ERROR`. Position updates and QoS are recorded and not
asserted by these cases, and so left out, as is the shared-memory information of a request.

| | passes a conforming server | catches the fault once shown | ends |
|---|---|---|---|
| native data path | `ConformingServerPasses` | `FaultIsCaught` | `CaseEnds` |
| MSE sinks | `ConformingSinkPasses` | `FaultySinkIsCaught` | `SinkCaseEnds` |
| control, web audio, log, life cycle | `ConformingClientPasses` | `FaultyClientIsCaught` | `ClientCaseEnds` |
| ClearKey sessions | `BackendPasses` | `FaultyKeysAreCaught` | `KeysCaseEnds` |

*Deadlines.* A wait gives up only when nothing is under way that could still bring what
it waits for (`Settled`): the suite's deadlines are seconds, and longer than anything
a working server has under way. The server `Slow` of the control case drops that
assumption. A sleep of a fault case takes as long. Without these assumptions any case
with a time-out fails a conforming server.

*Fairness.* Each thread runs on (`WF`): the test thread, the IPC thread, the server's
worker, the wrapper's main thread, appsrc's streaming thread. In `NativeCases` the test
thread and the delivery of notifications have `SF`, since a starved server keeps asking
for data without end, which disables both again and again without stopping either: a
deadline passes and a queued notification is delivered in the end.

### Native data path

`Playback` adds the recording half of the client (`MediaFeed.cpp:428-658`) to
`MediaFeed` and gives the server its playback: synchronous calls enqueue tasks, the worker
thread applies them, states are notified through a queue to the IPC thread, which
delivers them between two need-data handlers. The server prerolls when it has data of
the source, may leave STOPPED unannounced (`coverage/interface-definition-gaps.md`,
IDG-004 and IDG-005), and may run out of space only beyond what it asked for.
`NativeCases` holds the 28 cases of the five files. Every case attaches one source, so
one source is modelled.
A stream outlasts its case, except in the five cases in `Short`, which reach its end.

| run | shows | instance |
|---|---|---|
| `native_cases` | the three properties above and `UnassertedPasses`, for every case and every fault it catches, and for the two conform-when-supported cases a platform without the property | 1 source, 3 frames, requests for 1 frame, oversupply 2, 3 request ids |
| `feed_seek` | **violated**: the seek case's claim about where the feed stands | the one case |
| `feed_resume` | **violated**: the cancellation case's claim that the protocol carries on | the one case |

Three frames are enough for a refusal in mid-batch and its retry, for a seek that starts
over, and for data before and after a flush; 8 operations of the test thread on the feed
(`MaxOps`) are more than any case makes.

- `feed_seek`: `SetPositionSetsStartThenSeeksWhilePlaying` rewinds the source and
  then calls `setPosition`. A round that is under way at the rewind adds its accepted
  frames to the rewound cursor (`MediaFeed.cpp:419`), and a request made before the seek
  may be answered between the two calls; in both cases the first frame accepted after
  the flush is not frame 0, as the comment in the case says it is. The case's
  assertions do not look at which frames arrive.
- `feed_resume`: in `CancelledNeedDataIsNotAnError` a request that the server makes
  after the flush but before `setWithhold(false)` is dropped for good. The server
  waits for its answer and never asks again, so that source is not fed any more. The
  case counts requests, which the dropped one satisfies.

A case cannot catch a server that fails after its last assertion, if it does not wait before
it; no comment says that it does.

*Proofs* (`NativeCasesProofs`, `NativeFaultProofs`), for every set of the 28 cases, any
stream length, request sizes and faults, and any bound on the test thread, from
`FeedAssumption`, `CasesAssumption` and `PlaybackAssumption`. `CasesAssumption` says that one source is attached, as in every case, that the
feed may oversupply by 2, as the case that fills the server asks, and that a server that conforms lacks a property
only in the two cases that accept it; `PlaybackAssumption`, that "no value" is none of the
states of playback, so that a state recorded at an error is told from no error at all.

- `CasesRunTheFeed`: `CaseSpec => Spec`. Every step of the test thread, of the feed and of
  the server is a step of `MediaFeed` or leaves its variables alone (`StepRefines`).
- `CasesKeepFeedPromises`: what section 2 proves of the feed then holds in every case.
- `ConformingServerPassesHolds`: `CaseSpec => []ConformingServerPasses`.
- `FaultIsCaughtHolds`: `CaseSpec => []FaultIsCaught`.

The first needs only that a case stays in its script (`WalkInv`, theorem `CaseWalks`): a
fatal failure leads on to the next step that is always made, or past the end, and that step
exists because a set of numbers that is not empty has a least one.

`ConformingServerPasses` is not inductive. `PlayInvariant` says, for a conforming server, what is under
way between the calls of a case and their effects:

- `BringUpInv`: what the case has set up by which step, and that a mode, a seek or a corrupted
  payload belongs to the one case that asks for it; before every source is attached
  nothing is under way.
- `StateInv`, `PlayInv`: the states the playback has gone through are `Ahead` (on their
  way to the client, or recorded), and until the case pauses or stops, the playback is bound for
  PLAYING. So a wait for PLAYING cannot be given up: with all quiet and data of the source
  there, the playback could still move.
- `WaitedInv`: the request the server waits for is queued or being answered, until the
  cancellation case withholds its answers. Once nothing is under way the stream has
  therefore been fed to its end (`AllEnded`).
- `FlushInv`, `SeekInv`, `WrittenInv`, `BufferedInv`: what a flush, a seek, a write and the
  load still have to bring about.
- `FlushedInv`, `AcceptedInv`, `RequestedInv`, `ResentInv`, `ErrorInv`: what the assertions on
  the record rest on. Without a flush no request is cancelled, so the server takes
  all it asked for; it plays only what it has asked for; a segment without space is
  retained until it is accepted, and `RetainedNotSkipped` leaves nothing retained at the end
  of the stream; and once PLAYING is on its way no other state follows, so that an error
  finds PLAYING as the last state recorded.

`AwaitedInTime`, `ReadInTime`, `AnswersAsExpected` and `HoldsAsExpected` conclude from it
that no wait, read, getter or assertion fails. The rest is one lemma per part and thread (the
IPC thread, the server's worker, its playback, the feed, the server's requests, the
test thread), on top of one lemma per thread that says what it changes (`NotifyDoes`,
`WorkDoes`, `PlayDoes`, `FeedDoes`, `RequestRecord`, `TestDoes`). As in `ClientCasesProofs`,
the scripts are looked up once, in one lemma per case.

`FaultIsCaught` speaks of the end of a case only. `CatchInv` says what holds on the way
there, of a case on a server with a fault it is to catch, as long as no assertion has
failed (`CatchInvariant`). The faults fall into two kinds. Most are *trapped*: the script
has a step that no server with the fault gets past (`Traps`), such as the call that it
refuses, the wait for what it silences, or an assertion on the record behind a wait for
something notified after the fault's own notice. `AllGuarded` shows, script by script, that
every other fault a case names is one of five *late* ones (`LateFault`): the case has no
event to wait for, and looks at the record after it has waited until all is quiet. The
conjuncts are what those steps rest on:

- `SetUpInv`: what the case has set up by which step, unless the fault is a refused call.
- `SeenInv`, `MissingInv`: whatever a script has insisted on waiting for is recorded; what
  a fault silences or makes the server ignore is not, and never will be.
- `SpoilInv`: a fault's own notice goes out no later than the event it spoils, and so is
  recorded first (`First`). An assertion behind a wait for that event therefore sees it,
  however many other states have followed.
- `StrayInv`: PAUSED as the server's state at an error, which must be the notice directly
  before it in the queue.
- `RejectInv`: a rejected segment is recorded at once, and until the first one the
  server holds no data and does not play.
- `LateInv`: of a late fault, that after the wait it is recorded or can no longer show,
  the stream being at its end; and that a case past its assertion is in the second state.
- `UntrappedInv`: the case has got past none of its traps.

`UntrappedInv` is the heart of it: that `Traps` is never passed is shown once for each kind
of step. A case that has ended without a failure has passed all of its steps,
so its fault, which has shown, would be neither trapped nor late.

### MSE sinks

The streaming thread asks for a frame when its queue is empty (`NeedData`), pushes one
(`PushNextFrame`), and hands it to the sink (`Deliver`); `SetEosSignalled` and the end
of stream itself are two steps of the test thread, since `m_eosSignalled` is written
before appsrc is told and without synchronisation. A push after the end of stream
is dropped by appsrc. Timestamps are nanoseconds, in which an AAC access unit lasts
64000000/3: a sample may be stamped or not, timed or not, and start late (`Encodings`),
and the replay adds the sum of the durations per loop. The H.264 stream of
`AvcCapsFieldsParsedReachingPlaying` comes from `x264enc` at its defaults (`MediaFeed.cpp:195-199`), in
decoding order with the timestamps of its presentation (`:239`), so the i-th access unit may
be presented elsewhere: with B-frames (`bframes`) at `Place[i]`, where `Place` is any permutation
of the frames. Whether an encoder makes B-frames is not fixed by the code, and both are allowed.

`mse_sink` shows the three properties of cases, `TimestampsIncrease` of every stream that
comes in the order it is presented in, and `ReplaysAreLater` of every stream: what is taken in the first
n replays is earlier than all that follows. It has the eight
cases, 5 frames per stream and 11 taken, that is two replays and more; after 5 frames
the rounded durations have fallen behind the rounded timestamps, and `DecodeOrder` (I P B B P) is
out of order both ways. With B-frames the timestamps go back within a loop (0, 120 ms, 40 ms), and the
comment at `MseVideoSinkFeed.cpp:115-116`, "a per-loop PTS offset keeps timestamps monotonic", is not
true of them; what the offset does keep apart are the loops. The sink is slow: it takes
no more than `MaxFrames`, which keeps the streaming thread finite; every case is over, or
waits for something else, by then.

*Proofs* (`MseSinkProofs`), for every set of cases and faults, any number of frames up to
60 million, any order of the video's frames and any number taken, from `FramesAssumption`,
`PlaceAssumption`, `NoneAssumption` and `CasesAssumption`:

- `TimestampsIncreaseHolds`: `Spec => []TimestampsIncrease`;
- `ReplaysAreLaterHolds`: `Spec => []ReplaysAreLater`;
- `ConformingSinkPassesHolds`: `Spec => []ConformingSinkPasses`;
- `FaultySinkIsCaughtHolds`: `Spec => []FaultySinkIsCaught`.

The bound on the frames is one that a stream of the suite is far from (60 million frames
last two weeks): a replay is offset by the sum of the rounded durations, each up to a nanosecond
short, so only a stream with as many frames as a frame has nanoseconds could fall back
behind itself. `Drift` bounds how far the sum is from the last timestamp after n frames, by
induction over n (the sum is a recursive function; the set of the n for which the bound
fails has a least element, by the library's well-founded induction over a set, and none can
be least). From that, `NextFollows` and `ReplayFollows` say that each frame pushed
follows the one before it, within a replay and across two.

`TimestampsIncrease` is not inductive, since a frame waits in appsrc between the push and the
sink: `QueueInv` says that what is queued is the frame pushed last, and that with nothing
queued the sink took that one last. The verdicts need `ThreadInv` and `SinkInv`, what
the thread and the sink may have done at each place of the script; `BusInv` and
`ServerInv`, that a conforming sink has done by each wait what the case waits for, and a
faulty one has not; and `PassedInv`, what each step behind has shown unless the case has failed.

### Control, web audio, log, life cycle

`ClientCases`: calls enqueue, the server applies and notifies, and the client's thread
appends to what was heard; a wait looks at what was heard since the mark. A client that
registers may also be notified of the state it is told. The library hands one record or
two to the handler registered when they are logged, and in flight they arrive whenever they do.
The log cases share one fixture, which leaves no handler behind.

`client_cases` adds two faults to the transition case, `Loses` and `Slow`: an exchange
with the sim may fail before or after the request arrived, a query may go unanswered,
and deadlines may pass early. `ServerLeftActive` must hold all the same. `MaxTries` 3
stands for 25 and `MaxLost` 3 for fewer failures than tries; each failure has then been
tried at the first, a middle and the last turn. The server never both loses and is slow: a
request for inactivity applied after the last turn of `RestoreActive` would leave it
inactive, and nothing in the suite could know.

A player whose creation goes wrong (`Breaks`) notifies FAILURE after it, whenever the notice
comes. The two cases that look for one right after must fail if it has come by then
(`FailureInv`); one that is still on its way when they look (`WebAudioTests.cpp:176`, `:335`)
is seen by nobody.

*Proofs* (`ClientCasesProofs`), for every set of cases and faults and any number of tries,
from `CasesAssumption` and `RestoreAssumption` (no more exchanges fail than `RestoreActive`
makes tries):

- `ServerLeftActiveHolds`: `Spec => []ServerLeftActive`;
- `ConformingClientPassesHolds`: `Spec => []ConformingClientPasses`;
- `FaultyClientIsCaughtHolds`: `Spec => []FaultyClientIsCaught`.

None of them is inductive; `IInv` follows what is under way between a call and its effect.

- `ChangingInv` is about `Target`, the state the server will be in once everything queued is
  done. From the step that asks for RUNNING again, either that is the target or nothing is
  queued and more exchanges have been lost than tries made since (`lost >= 1 +
  tries`); so when the tries are used up the target is RUNNING. A slow server may
  still have a request for inactivity queued then, but it is queued before those for RUNNING.
- `ChangedInv`, `PlayerInv`, `VolumeInv` and `LogInv` say of each asserted wait that with a
  conforming server what is waited for is `Ahead` (on its way, or heard since the mark) or
  the task that brings it is `Due`. A wait is given up only when nothing is under way
  (`ObservedAtLast`), so it is not given up.
- `SilenceInv`, `OwnersInv`, `SourcesInv` and the other half of those say what a faulty
  server cannot have shown, and `PassedInv` that each asserted step the case went past has
  ruled its faults out (`RulesOut`). At the end of a case that has not failed that covers its
  whole `catches` (`CaughtAtLast`), whether or not the fault has shown, but for a failure
  that came late, which has not.

The scripts are looked up once (`Script...` and `Steps...`, one lemma per case); `ScriptKinds`
says of a step of any case what the other lemmas need, and `...Does` of each kind of step
what it changes, so that only the invariants that name a step go through the scripts.

### ClearKey sessions from text to client

`KeysCases` runs the cases of `KeysSessionTests.cpp` on `ClearKeySession` itself (an
INSTANCE with one session, key ids of 16 bytes and the modulus 256). The request and the licence are the
texts of the test file, as tokens whose strings are base64url characters;
`JsonStringValues` scans and `UrlDecode` decodes them, and the key ids that result are
what the backend stores, reports and is asked for. `keys_cases` shows the three
properties. Two assumptions that TLC evaluates in `MCKeysCases` check the operators
alone: `CodecRoundTrips` (decoding undoes encoding for up to 5 bytes, every remainder,
padded or not) and `ScannerPairs` (ids and keys pair up whatever the order of the
fields). `KeyText` ends in a U where the file has a Q, which decodes to the same bytes.

Each status, session id and answer that a case asserts is a step and a fault of its own, among
them the five calls with an unknown session.

*Proofs* (`KeysCasesProofs`), for every set of the cases and of faults:

- `BackendPassesHolds`: `Spec => []BackendPasses`;
- `FaultyKeysAreCaughtHolds`: `Spec => []FaultyKeysAreCaught`.

They rest on `CasesAssumption` (the cases are those of the suite) and `TextsAssumption`. The latter
says what the scanner and the codec make of the two documents of the test file: the request
and the licence name the one key id, whose base64url is the text in them, and an entry
that does not decode is no key id. Nothing in it is left to choose but `Garbled`;
it is an assumption because it is the outcome of recursions that the provers do not
unfold, and TLC computes it in `keys_cases`. That a licence for that id is stored whole
and announced by exactly two tasks is then proved (`LicenceDoes`), with the key's length
narrowed as in the code.

Neither property is inductive. `PhaseInv` follows the session through the steps of a case:
not constructed (`Fresh`), licence requested (`Asked`, then `Requested` or `Missed`), key
supplied (`Announced`, `Gathered`, then `Told` or `Untold`). A task moves it along
that chain (`TaskPhase`), a call or a wait that fails nothing starts or ends a stretch of it
(`CallPhase`, `AwaitPhase`), and so what a case asks is answered right (`AnsweredRight`), a call finds
the session it needs (`CallAccepted`), and a wait is given up only if its callback was
dropped (`Waited`). `OwnersInv` and `HeldInv` say who holds the client, without whom a
callback is lost. For the faults `UntrappedInv` says that no asserted step that the fault
would fail is behind, and `AllGuarded` that every fault a case is there to catch has one in its
script, so that the end is not reached unfailed. That `shown` is not needed for it means
that the cases catch those faults always, not only once they have shown.

### Claims no assertion sees

What the comments of these cases say and their assertions cannot tell. For the first six a server
with the fault is modelled (`Unasserted`), and `UnassertedPasses` shows, in `native_cases` and
`client_cases`, that no interleaving of its threads with the case makes an assertion fail: what the
assertion looks at was there before, or is gone by the time it looks.

| comment | a server that | passes, because |
|---|---|---|
| `PipelineTransportDataPathTests.cpp:131-133`, "produce their PlaybackState notification" | never notifies the PAUSED of a pause | the preroll's PAUSED is recorded, and `m_statesSeen` is never cleared (`MediaFeed.cpp:284`) |
| `DataProtocolTests.cpp:118-119`, "never issues a second request for a source whose previous request is unanswered" | sends one when it has the segments of the first, before their `haveData` | the IPC thread takes it after the round, when `m_pendingNeedData` is clear again (`MediaFeed.cpp:422`) |
| `PipelineAuxDataPathTests.cpp:395`, "round-trip the clock-sync flag" | ignores `setSync` | the case writes true (`:410`), the default of GstBaseSink (`Preset`) |
| `PipelineTransportDataPathTests.cpp:224-225`, "SEEKING and then SEEK_DONE" | notifies SEEK_DONE first | the waits look into a set |
| `ControlTests.cpp:154-156`, "writes the current ApplicationState into its out-param" | leaves it at UNKNOWN | `isDefinedState` accepts UNKNOWN (`:171`) |
| `WebAudioTests.cpp:181`, "notified of each transition" | does not notify the second PLAYING | nothing waits for it (`:200`) |

The others are about a value that no assertion reads, or reads at a moment when it says nothing, so
no state of the model could tell: the `async` out-param of `play`
(`PipelineTransportDataPathTests.cpp:159`), the counters of `getStats`, which start at the 0 that passes
(`PlaybackDataPathTests.cpp:300-304`), the position of `setSourcePosition`, BUFFERED, which is only
logged (`DataProtocolTests.cpp:190-192`, `:211`), PLAYING after the last non-fatal error
(`DataFaultTests.cpp:283-286`, where the assertion at `:315` is on the state before it), the url of the
licence request (`KeysSessionTests.cpp:204-205`), and the time `getDrmTime` is to write
(`:339-340`). Of all of these a pass of the case says nothing.

## 4. The ClearKey sessions

`ClearKeySession` models the five entry points that change a session, each one
action because the server's main thread makes one call at a time. A call's callbacks
run before it returns; the wrapper (external) enqueues a task for each,
and the tasks run later, between other calls: `OnLicenseRequest` for the challenge,
`AskStatus` for each `key_update_callback` (it asks `opencdm_session_status` with the
id it was given), `OnKeyStatusesChanged` for `keys_updated_callback`. Tasks of a
destructed session are void.

A key id is a sequence of bytes and keeps its length: `key_update_callback` takes the
length as `uint8_t` (`open_cdm.cpp:436`), so `Narrowed` cuts an id to its length modulo
`LengthModulus`. A licence is the sequence of its entries' key ids; an entry whose
`kid` or `k` does not decode, or is empty, is `Garbled`. An update stores the
entries before the first garbled one and then fails (`open_cdm.cpp:419-422`).
Abstracted: key values, which nothing reads back, and the text of licences and
challenges; so is the cast of a challenge's length to `uint16_t` (`open_cdm.cpp:373`), on which no
property depends. Calls with null arguments change nothing, and the entry points that return a constant are
left out, as is a session constructed without callbacks, which no wrapper makes.

| run | shows | instance |
|---|---|---|
| `clearkey_session` | types; `UsableWasSupplied`, `HeldIsReported`, `BatchIsCompleted` | 2 sessions, ids of 1 and 3 bytes where the second is cut to the first, licences of up to 2 entries, 5 calls |
| `clearkey_partial` | **violated**: what the file comment says of `session_update` | the same |

*Why these bounds.* `LengthModulus` 2 stands for 2^8: a 3-byte id is then cut to one
byte as a 257-byte id is in the code, and collides with the short one. Licences of two
entries give a good one, one garbled at the first entry and one garbled after a good
one, and repeated ids. Five calls are enough to construct both sessions and to update,
remove and update again, or close or destroy, one of them while tasks are queued.
`MCClearKeySession` holds the ids.

`HeldIsReported` is about ids that reach the client whole: one cut short by its length, or
repeated by it, is announced as another, and a licence that fails part-way announces nothing
(`clearkey_partial`).

`clearkey_partial` finds: construct, then an update whose second entry is garbled. It
returns `ERROR_FAIL`, yet the first key stays stored and answers `Usable`, and no callback
told the client.

Proved, from `SessionAssumption` alone, for every set of sessions and key ids, modulus
and licence length:

- `SessionTypeCorrect`: `Spec => []TypeOK`, which is inductive given what an update
  stores (`StoredIds`) and announces (`NoticesAnnounce`);
- `UsableIsSupplied`: `Spec => []UsableWasSupplied`, with `GatheredWasSupplied`, the
  same of the statuses the wrapper has put by, since those are what the client is told next;
- `HeldReported`: `Spec => []HeldIsReported`, with `DeadHoldNothing` (only live
  sessions hold keys, so a void task never carried the report of a held one);
- `BatchCompleted`: `Spec => []BatchIsCompleted`, with `UpdatesCompleted` (behind every
  queued announcement of a key stands the signal of its batch) and `UnbornGatherNothing`;
  `NoticesComplete` says that an update that announces anything ends with the signal.

## 5. Adjudication

`Adjudication` runs invocations of `test_rialto_conformance.py` one after the other
against one target. The host types a command on the console of the test under way
(`Type`), reads until its marker is there (`Read`) or its deadline has passed (`GiveUp`);
the shell does one command after the other (`Work`). A command given up goes on, what is
typed behind it waits, and the end of a test closes the console, whose command may go on
without it (`LooseWork`). `Asserts` names the commands whose status is looked at: the
probe for the binary, the launch, the collection. `Tests` lists the steps of the three tests and
`Finally` what the `finally` of the last one leaves to do after a failure. `Selection`
says which cases a run executes, and so which report it can write. `_adjudicate`
accepts a report with no failure and at least one case that ran.

A slot has any of four options: `fetch` (`conformance.deploy`; without it, `deploy: none`, the
package is whatever was installed by hand, and the deployment goes straight to the probe),
`launch`, `teardown` and `envFile`. `Omitted` skips what belongs to an option the slot does not have.

The target's binary, server, environment file, reports and collected file outlive an
invocation. A launch is taken by its outcome: with success the server is its own.
The package and the HFP are fetched and copied or not, each with one outcome. A run writes its
report only if a binary is installed and the environment file it is to source is there.

| run | shows | instance |
|---|---|---|
| `adjudication` | `PassIsEarned`, `FailureHasCause`, `TornDown`, `EveryInvocationEnds` | 2 invocations, 2 scopes, 4 cases, four slots, 1 loose command |
| `stale_report` | **violated**: that the newest report is this run's | the same without loose commands |

`PassIsEarned` and `FailureHasCause` account for each verdict, and name the only ways in
which one can be about something else: an invocation that wrote no report before its
deadline, a run given up earlier that wrote its own behind it, and a package whose
unpacking failed unseen over an earlier one. `stale_report` is of the first kind: the
directory is never cleared and the run's status is not asserted, so a binary that ends
without a report leaves an earlier invocation's to be collected and to pass, in TLC's trace
one written after that invocation had given its run up, against the comment at
`raft/suites/test_rialto_conformance.py:204-205`. `TornDown` has
three exceptions that the code has: the HFP is fetched outside the `try`, a teardown may
itself outlive its deadline, and a launch may be done after its invocation ended.

Two invocations are the least in which one can find what another left; one loose command
lets a run, a launch or a teardown be done late, during the rest of its own invocation
or in the next. One scope selects a case and a case for a missing feature, the other
none, so that a report of skipped cases occurs. The slots are the two shipped kinds, every option or the
package alone, and two for a target prepared by hand, without a fetch: an environment file already there, and a launch
without a teardown.

Fairness is on the host's own steps only (`Prompt`): its deadlines pass, while a command on the
target may hang for ever. So may a transfer: `scp` is run without a timeout
(`test_rialto_conformance.py:377`), as are the console's own copies and the reading of a download. `EveryInvocationEnds`
says that this is the only thing that can keep an invocation from its verdict.

Two assumptions in `MCAdjudication` check the gates alone: `ReleasesAreOrdered`
(`releaseAtLeast` is the order of the three numbers, with components missing or with a letter)
and `ScopesDivide` (each case of the full scope is in exactly one level's scope).

*Proofs* (`AdjudicationProofs`), for any set of cases, profile, number of invocations and
number of loose commands, with no assumption on the constants used:

- `PassEarned`: `Spec => []PassIsEarned`;
- `FailureExplained`: `Spec => []FailureHasCause`;
- `LaunchTornDown`: `Spec => []TornDown`.

All three speak of the moment of the verdict, so none is inductive: `IInv` says what holds
on the way there. `Rank` orders the operations and `Place` is how far the invocation has
got (`ProceedPlan`: never back, whatever fails). `ConsoleInv`, `MarkersInv` and `LooseInv`
tie the commands to that place: what is on the console was typed by this invocation, each
command once, and was given up unless it is the one waited for. From then on one part of
`IInv` follows each effect. `UnpackInv`, `LaunchInv`, `RunInv`, `CollectInv` and
`TeardownInv` say what is on the target once a command's marker is there or the host has
got past it, and `VerdictInv` what has become of it on the host. `Overtaken` is what makes
the report's part inductive: it says in terms of reports and troubles alone that a run was
given up, or an earlier one's report stands behind this one's, and no later step undoes
that. `TargetStep` is the
common part of `Work` and `LooseWork`; `HostStep` of the five ways for an operation to end.

## 6. What is proved and what is checked

| | proved for every value of the constants | model-checked only |
|---|---|---|
| `MediaFeed` | `TypeOK`, `FedInOrder`, `RetainedNotSkipped`, `OverlapExplained`, `PendingExplained`, `FeedIsContract` | `StreamEnds`, `NoSpaceIsResent` |
| `ClearKeySession` | `TypeOK`, `UsableWasSupplied`, `HeldIsReported`, `BatchIsCompleted` | |
| `Adjudication` | `PassIsEarned`, `FailureHasCause`, `TornDown` | `EveryInvocationEnds` |
| `MseSinkFeed` | `TimestampsIncrease`, `ReplaysAreLater`, `ConformingSinkPasses`, `FaultySinkIsCaught` | `SinkCaseEnds` |
| `ClientCases` | `ServerLeftActive`, `ConformingClientPasses`, `FaultyClientIsCaught` | `UnassertedPasses`, `ClientCaseEnds` |
| `NativeCases` | `ConformingServerPasses`, `FaultIsCaught`, and of `MediaFeed`'s properties all but `TypeOK` | `UnassertedPasses`, `CaseEnds` |
| `KeysCases` | `BackendPasses`, `FaultyKeysAreCaught` | `KeysCaseEnds` |

Every invariant that a passing run checks is thus a theorem, but for the two `UnassertedPasses`. Out of the prover's reach, and so with
TLC: liveness under fairness and `ENABLED`. The base64url accumulator and the scanner of
`ClearKeyText` compute their results by recursion over the texts, so what they make of the
texts of the test file is an assumption of the proofs (`TextsAssumption`), and TLC evaluates
it. No module declares a `RECURSIVE` operator; recursion is in functions.

## 7. Not modelled, and why

- registering a source twice, which frees payloads a round may still point to, and
  destroying the pipeline under a callback: no case does the first, and the second
  depends on the client library's shutdown order, which is not in the repository;
- payloads: `setCorruptEvery` only tells the server that errors may come;
- the clock: a call that exceeds its bound on elapsed time is one that is refused;
- a sim that accepts a connection and never answers: the suite sets no time-out
  (`SimControl.cpp:89`), and such a case does not end;
- licences an entry of which lacks its `kid` and another its `k`, which would be paired
  wrongly by position: no case sends one;
- the inside of `launch-target.sh` and `teardown-target.sh`, and the emulator container's
  markers: shell around processes and docker;
- `RegistrationProbe`, `Surfaces`, the encoding pipelines, and the cases of L1 to L3 that
  compare one call with an expected value or log a measurement (`PropertyTests`,
  `StateTests`, `CapabilitiesTests`, `CapabilityConsistencyTests`, `MemoryUsageTests`):
  nothing in them changes over time;
- build, packaging and CI scripts: sequential, with external tools as their only state.

## 8. Plan

- The launch script's processes and socket file under `Adjudication`'s launch, so that
  "a success means a server of this launch" is shown rather than taken.
