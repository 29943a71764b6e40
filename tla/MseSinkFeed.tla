------------------------------ MODULE MseSinkFeed ------------------------------
(***************************************************************************)
(* The MSE sink feeds (src/common/MseSinkFeed.cpp, MseVideoSinkFeed.cpp)   *)
(* and the cases that use them.  appsrc's streaming thread asks the feed   *)
(* for a frame whenever its queue is empty; the feed replays the stream    *)
(* until the test thread signals end of stream.  The test thread brings    *)
(* the pipeline to PLAYING, sends the sink an event and looks for what it  *)
(* does.  appsrc, the sink, the bus and the server are external.           *)
(***************************************************************************)
EXTENDS CaseScript, FiniteSets

CONSTANTS Cases,       \* the cases to run
          FaultsOf(_), \* faults the sink may have in a case
          NumFrames,   \* frames the encoder makes
          MaxFrames,   \* the sink is slow: it takes no more than this many
          Place,       \* where x264enc's access units come in the presentation
          None

\* The streams are seconds long; the roundings of a replay add up to less than a frame
\* as long as it has less than some sixty million of them.
ASSUME FramesAssumption == /\ NumFrames \in Nat \ {0} /\ NumFrames <= 60000000
                           /\ MaxFrames \in Nat \ {0}
ASSUME PlaceAssumption ==
  /\ Place \in [0 .. NumFrames - 1 -> 0 .. NumFrames - 1]
  /\ \A i, j \in 0 .. NumFrames - 1 : Place[i] = Place[j] => i = j
ASSUME NoneAssumption == None \notin Nat

VARIABLES
  encoded,  \* what the encoder stamped on its frames
  feed,     \* the members of MseSinkFeed
  thread,   \* appsrc's streaming thread
  src,      \* appsrc: its queue, and whether its end of stream is signalled
  sink,     \* the sink and the server behind it
  bus,      \* messages of the pipeline not read yet
  taken     \* history: timestamps the sink has taken

sinkVars == <<scriptVars, encoded, feed, thread, src, sink, bus, taken>>

-----------------------------------------------------------------------------
(***************************************************************************)
(* The stream, in nanoseconds.  An AAC access unit lasts 64000000/3, so a  *)
(* duration rounded down falls behind the encoder's own timestamps; an     *)
(* H.264 frame lasts 40000000.                                             *)
(***************************************************************************)
Video == case = "AvcCapsFieldsParsedReachingPlaying"
Thirds == IF Video THEN 120000000 ELSE 64000000

\* What the encoder may stamp: a start, timestamps and durations or neither, and frames
\* that refer to a later one.
Encodings == [start : {0, 5}, stamped : BOOLEAN, timed : BOOLEAN, bframes : BOOLEAN]

\* Access units come in the order they are decoded in.  An AAC encoder's are presented
\* in that order; x264enc at its defaults is free to put a B-frame after the frames it
\* refers to.
Reordered    == Video /\ encoded.bframes
Presented(i) == IF Reordered THEN Place[i] ELSE i

\* When the i-th frame of the presentation starts.
SampleStart(i) == encoded.start + (Thirds * i) \div 3

FrameDuration == Thirds \div 3

\* What the feed keeps of the i-th sample.  What the sample lacks is derived from i.
TimeStamp(i) == IF encoded.stamped THEN SampleStart(Presented(i)) ELSE i * FrameDuration
Duration(i)  == IF encoded.timed
                THEN SampleStart(Presented(i) + 1) - SampleStart(Presented(i))
                ELSE FrameDuration

\* totalDurationNs: the durations of the frames added up.
Sum(durations) ==
  LET upTo[n \in 0 .. NumFrames] == IF n = 0 THEN 0 ELSE upTo[n - 1] + durations[n - 1]
  IN  upTo[NumFrames]

\* Mutation: from the first timestamp to the last, without the last frame.
Extent == TimeStamp(NumFrames - 1) - TimeStamp(0)

TotalDuration == Sum([i \in 0 .. NumFrames - 1 |-> Duration(i)])

-----------------------------------------------------------------------------
(***************************************************************************)
(* Cases: SinkEventDataPathTests.cpp and SinkCapsDataPathTests.cpp.        *)
(***************************************************************************)

\* The retry of the collection, then the wait for PLAYING, share one deadline.
StartPlaying == <<Setup("setState"), Reach("collection"), Reach("PLAYING")>>

StartPlayingVideo == <<Setup("setState"), Reach("collection"), Await("PLAYING")>>

Destroy == <<Always("destroy")>>

NotStarting == {Refuses("synthesise"), Refuses("construct"), Refuses("setState"),
                Silences("client"), Ignores("caps"), Silences("playing")}

ArrangePlayingFeed(steps, catches) ==
  Case(<<Setup("synthesise"), Setup("construct")>> \o StartPlaying \o steps \o Destroy,
       catches \cup NotStarting)

CapsAttachesSourceReachingPlaying ==
  ArrangePlayingFeed(<<Get("position", TRUE)>>, {Misanswers("position")})
StreamCollectionTriggersAllSourcesAttached ==
  ArrangePlayingFeed(<<Call("reportStreamCollection")>>,
                     {Refuses("reportStreamCollection")})
SegmentEventAppliedToServerSource ==
  ArrangePlayingFeed(<<Call("sendSegment"), Get("segment", TRUE)>>,
                     {Refuses("sendSegment"), Ignores("segment")})
EosEventReachesEndOfStream ==
  ArrangePlayingFeed(<<Plain("endOfStream"), Await("EOS")>>, {Silences("EOS")})
FlushHonoursResetTime ==
  ArrangePlayingFeed(<<Plain("flushStart"), Plain("flushStop"), Await("RESET_TIME")>>,
                     {Silences("RESET_TIME")})
InstantRateChangeSeekPostsRateRequest ==
  ArrangePlayingFeed(<<Plain("seekInstantRate"), Await("INSTANT_RATE_REQUEST")>>,
                     {Silences("INSTANT_RATE_REQUEST")})
UnknownUpstreamEventForwardedUpstream ==
  ArrangePlayingFeed(<<Plain("sendUpstream"), Check("forwarded")>>,
                     {Silences("forward")})
AvcCapsFieldsParsedReachingPlaying ==
  Case(<<Setup("synthesise"), Setup("construct")>> \o StartPlayingVideo \o Destroy,
       NotStarting)

Suite ==
  [CapsAttachesSourceReachingPlaying |-> CapsAttachesSourceReachingPlaying,
   StreamCollectionTriggersAllSourcesAttached |-> StreamCollectionTriggersAllSourcesAttached,
   SegmentEventAppliedToServerSource |-> SegmentEventAppliedToServerSource,
   EosEventReachesEndOfStream |-> EosEventReachesEndOfStream,
   FlushHonoursResetTime |-> FlushHonoursResetTime,
   InstantRateChangeSeekPostsRateRequest |-> InstantRateChangeSeekPostsRateRequest,
   UnknownUpstreamEventForwardedUpstream |-> UnknownUpstreamEventForwardedUpstream,
   AvcCapsFieldsParsedReachingPlaying |-> AvcCapsFieldsParsedReachingPlaying]

ASSUME CasesAssumption == Cases \subseteq DOMAIN Suite

Script   == Suite[case].script
Now      == Script[pc]
Finished == Over(Script)

-----------------------------------------------------------------------------
(***************************************************************************)
(* The streaming thread.                                                   *)
(***************************************************************************)

\* The callback returns with nothing pushed once it has seen m_eosSignalled, which the
\* test thread writes without synchronisation: while it goes on to signal appsrc, the
\* callback may or may not see it.
NeedData ==
  /\ thread = "running" /\ src.queue = None /\ ~src.eos
  /\ Len(taken) < MaxFrames
  /\ thread' = "inNeedData"
  /\ UNCHANGED <<scriptVars, encoded, feed, src, sink, bus, taken>>

\* Mutation: the replay starts over without counting the loop.
WrapUncounted == IF feed.nextFrame >= NumFrames THEN [feed EXCEPT !.nextFrame = 0] ELSE feed

\* The stream is replayed when it is at its end.
Wrapped == IF feed.nextFrame >= NumFrames
           THEN [feed EXCEPT !.nextFrame = 0, !.loopCount = @ + 1] ELSE feed

\* appsrc drops a frame pushed after its end of stream.
PushNextFrame ==
  /\ thread = "inNeedData"
  /\ LET f == Wrapped IN
       /\ feed' = [f EXCEPT !.nextFrame = @ + 1]
       /\ src' = IF src.eos THEN src
                 ELSE [src EXCEPT !.queue = TimeStamp(f.nextFrame)
                                              + f.loopCount * TotalDuration]
  /\ thread' = "running"
  /\ UNCHANGED <<scriptVars, encoded, sink, bus, taken>>

\* appsrc pushes a frame into the sink; a flushing sink refuses it, which ends the
\* thread.  The caps of the first one attach the source.
Deliver ==
  /\ thread = "running" /\ src.queue # None /\ sink.client
  /\ src' = [src EXCEPT !.queue = None]
  /\ IF sink.flushing
     THEN thread' = "paused" /\ UNCHANGED <<sink, taken, shown>>
     ELSE /\ taken' = Append(taken, src.queue)
          /\ sink' = [sink EXCEPT !.attached = (fault # Ignores("caps"))]
          /\ shown' = (shown \/ fault = Ignores("caps"))
          /\ UNCHANGED thread
  /\ UNCHANGED <<case, fault, pc, failed, encoded, feed, bus>>

SendEos ==
  /\ thread = "running" /\ src.queue = None /\ src.eos
  /\ thread' = "paused"
  /\ sink' = [sink EXCEPT !.ended = TRUE]
  /\ UNCHANGED <<scriptVars, encoded, feed, src, bus, taken>>

StreamingThread == NeedData \/ PushNextFrame \/ Deliver \/ SendEos

-----------------------------------------------------------------------------
(***************************************************************************)
(* The sink.                                                               *)
(***************************************************************************)
Post(message) == /\ bus' = IF fault = Silences(message) THEN bus ELSE Append(bus, message)
                 /\ shown' = (shown \/ fault = Silences(message))

\* Its client connects to the server some time after the state change.
CanConnect == sink.started /\ ~sink.client /\ fault # Silences("client")
CanPreroll == /\ sink.collection /\ sink.attached /\ ~sink.playing
              /\ fault # Silences("playing")
CanDrain   == sink.playing /\ sink.ended /\ ~sink.drained

SinkStep ==
  /\ \/ /\ CanConnect
        /\ sink' = [sink EXCEPT !.client = TRUE]
        /\ UNCHANGED <<bus, shown>>
     \/ /\ CanPreroll
        /\ sink' = [sink EXCEPT !.playing = TRUE]
        /\ Post("STATE_CHANGED")
     \/ /\ CanDrain
        /\ sink' = [sink EXCEPT !.drained = TRUE]
        /\ Post("EOS")
  /\ UNCHANGED <<case, fault, pc, failed, encoded, feed, thread, src, taken>>

\* Nothing is under way any more.
Settled ==
  /\ ~(CanConnect \/ CanPreroll \/ CanDrain)
  /\ \/ thread \in {"idle", "paused"}
     \/ /\ thread = "running"
        /\ src.queue # None => ~sink.client
        /\ src.queue = None => ~src.eos /\ Len(taken) >= MaxFrames

-----------------------------------------------------------------------------
(***************************************************************************)
(* The test thread.                                                        *)
(***************************************************************************)
Perform(op) ==
  \/ /\ op \in {"synthesise", "construct"}
     /\ UNCHANGED <<shown, thread, src, sink, bus>>
  \/ /\ op = "setState"
     /\ thread' = "running"
     /\ sink' = [sink EXCEPT !.started = TRUE]
     /\ shown' = (fault \in {Silences("client"), Silences("playing")})
     /\ UNCHANGED <<src, bus>>
  \/ /\ op = "reportStreamCollection" /\ sink.client
     /\ UNCHANGED <<shown, thread, src, sink, bus>>
  \/ /\ op = "sendSegment"
     /\ sink' = [sink EXCEPT !.segment = (fault # Ignores("segment"))]
     /\ shown' = (fault = Ignores("segment"))
     /\ UNCHANGED <<thread, src, bus>>
  \/ /\ op = "endOfStream"
     /\ src' = [src EXCEPT !.eos = TRUE]
     /\ UNCHANGED <<shown, thread, sink, bus>>
  \/ /\ op = "flushStart"
     /\ sink' = [sink EXCEPT !.flushing = TRUE]
     /\ UNCHANGED <<shown, thread, src, bus>>
  \/ /\ op = "flushStop"
     /\ sink' = [sink EXCEPT !.flushing = FALSE]
     /\ Post("RESET_TIME")
     /\ UNCHANGED <<thread, src>>
  \/ /\ op = "seekInstantRate"
     /\ Post("INSTANT_RATE_REQUEST")
     /\ UNCHANGED <<thread, src, sink>>
  \/ /\ op = "sendUpstream"
     /\ sink' = [sink EXCEPT !.forwarded = (fault # Silences("forward"))]
     /\ shown' = (fault = Silences("forward"))
     /\ UNCHANGED <<thread, src, bus>>
  \/ /\ op = "destroy" /\ thread # "inNeedData"   \* joins the streaming thread
     /\ thread' = "idle"
     /\ UNCHANGED <<shown, src, sink, bus>>

\* signalEos writes the flag, then tells appsrc.
SetEosSignalled ==
  /\ Now = Plain("endOfStream") /\ ~feed.eosSignalled
  /\ feed' = [feed EXCEPT !.eosSignalled = TRUE]
  /\ UNCHANGED <<scriptVars, encoded, thread, src, sink, bus, taken>>

CallStep ==
  /\ Now.do = "call"
  /\ Now = Plain("endOfStream") => feed.eosSignalled
  /\ IF fault = Refuses(Now.what)
     THEN /\ shown' = TRUE
          /\ Judge(Script, FALSE)
          /\ UNCHANGED <<thread, src, sink, bus>>
     ELSE Perform(Now.what) /\ Judge(Script, TRUE)
  /\ UNCHANGED <<fault, encoded, feed, taken>>

Assert(ok) == /\ Judge(Script, ok)
              /\ UNCHANGED <<fault, shown, encoded, feed, thread, src, taken>>

\* Mutation: the collection is reported once, when the state change returns.
ReportOnce ==
  /\ sink' = [sink EXCEPT !.collection = sink.client]
  /\ Assert(sink.client)

\* startPlaying reports the collection again and again, until the sink has a client
\* to take it or the deadline has passed.
ReportUntilAccepted ==
  \/ /\ sink.client
     /\ sink' = [sink EXCEPT !.collection = TRUE]
     /\ Assert(TRUE)
  \/ /\ ~sink.client /\ Settled
     /\ Assert(FALSE) /\ UNCHANGED sink

\* Mutation: the first message is taken, whatever its type.
AnyMessage(message) == DOMAIN bus

OfType(message) == {k \in DOMAIN bus : bus[k] = message}

\* Messages of another type are dropped on the way to the one waited for.
WaitForBusMessage(message) ==
  LET found == OfType(message) IN
  \/ \E k \in found :
       /\ \A j \in found : k <= j
       /\ bus' = SubSeq(bus, k + 1, Len(bus))
       /\ Assert(TRUE)
  \/ found = {} /\ Settled /\ bus' = << >> /\ Assert(FALSE)

\* Mutation: the wait for PLAYING has no deadline.
WaitForever == sink.playing /\ Assert(TRUE)

GetState ==
  \/ sink.playing /\ Assert(TRUE)
  \/ ~sink.playing /\ Settled /\ Assert(FALSE)

AwaitStep ==
  /\ Now.do = "await"
  /\ CASE Now.what = "collection" -> ReportUntilAccepted /\ UNCHANGED bus
       [] Now.what = "PLAYING"    -> GetState /\ UNCHANGED <<sink, bus>>
       [] OTHER                   -> WaitForBusMessage(Now.what) /\ UNCHANGED sink

\* The queries and the probe answer at once.
GetStep ==
  LET answer   == IF Now.what = "position" THEN sink.attached ELSE sink.segment
      answered == IF fault = Misanswers(Now.what) THEN ~answer ELSE answer
  IN /\ Now.do = "get"
     /\ shown' = (shown \/ answered # answer)
     /\ Judge(Script, answered = Now.value)
     /\ UNCHANGED <<fault, encoded, feed, thread, src, sink, bus, taken>>

CheckStep == Now.do = "check" /\ Assert(sink.forwarded) /\ UNCHANGED <<sink, bus>>

TestCase == ~Finished /\ (SetEosSignalled \/ CallStep \/ AwaitStep \/ GetStep \/ CheckStep)

-----------------------------------------------------------------------------
Init ==
  /\ ScriptInit(Cases, FaultsOf)
  /\ encoded \in Encodings
  /\ feed = [nextFrame |-> 0, loopCount |-> 0, eosSignalled |-> FALSE]
  /\ thread = "idle"
  /\ src = [queue |-> None, eos |-> FALSE]
  /\ sink = [started |-> FALSE, client |-> FALSE, collection |-> FALSE,
             attached |-> FALSE, playing |-> FALSE, flushing |-> FALSE,
             segment |-> FALSE, forwarded |-> FALSE, ended |-> FALSE,
             drained |-> FALSE]
  /\ bus = << >>
  /\ taken = << >>

Next == TestCase \/ StreamingThread \/ SinkStep

\* Every thread runs on, the sink does what is left to it, and a deadline passes.
Spec == /\ Init /\ [][Next]_sinkVars
        /\ WF_sinkVars(TestCase) /\ WF_sinkVars(StreamingThread) /\ WF_sinkVars(SinkStep)

-----------------------------------------------------------------------------
(***************************************************************************)
(* Properties.                                                             *)
(***************************************************************************)

\* "a per-loop PTS offset keeps timestamps monotonic" (MseSinkFeed.cpp:110-111), for a
\* stream whose access units are presented in the order they come in, as AAC ones are:
\* whatever the encoder stamped and however often the stream is replayed, each frame the
\* sink takes is later than the one before.  It is a frame's duration later, but for the
\* roundings one replay adds up: they never accumulate from loop to loop.
TimestampsIncrease ==
  ~Reordered =>
    \A k \in 1 .. Len(taken) - 1 :
      LET gap == taken[k + 1] - taken[k]
      IN  /\ gap > 0
          /\ FrameDuration - NumFrames \div 3 <= gap
          /\ gap <= FrameDuration + 1 + NumFrames \div 3

\* What the offset does for any stream, B-frames or not: every frame taken in the first
\* n replays is earlier than every frame taken after them.
ReplaysAreLater ==
  \A n, j, k \in 1 .. Len(taken) :
    j <= n * NumFrames /\ n * NumFrames < k => taken[j] < taken[k]

\* No case fails a sink that conforms, however late its client, its caps or its data.
ConformingSinkPasses == fault = Conforming => ~failed

\* A sink with a fault the case is there to catch never gets through, once the fault
\* has shown.
FaultySinkIsCaught == Finished /\ shown /\ fault \in Suite[case].catches => failed

\* Every case ends, whatever the sink refuses, drops or never posts; in particular
\* signalling end of stream while a frame is being pushed blocks nobody.
SinkCaseEnds == <>Finished
===============================================================================
