----------------------------- MODULE MseSinkProofs -----------------------------
(***************************************************************************)
(* Proofs about the MSE sink feeds, for every number of frames a stream    *)
(* has and every number the sink takes: its timestamps increase, no case   *)
(* fails a sink that conforms, and no case passes one with a fault it is   *)
(* there to catch.                                                         *)
(***************************************************************************)
EXTENDS MseSinkFeed, SequenceTheorems, WellFoundedInduction, TLAPS

-----------------------------------------------------------------------------
(***************************************************************************)
(* The scripts, written out.                                               *)
(***************************************************************************)

\* A concatenation has the elements of its operands, in their order.
LEMMA Join ==
  ASSUME NEW S, NEW s \in Seq(S), NEW t \in Seq(S),
         NEW m \in Nat, m = Len(s), NEW n \in Nat, n = Len(t)
  PROVE  /\ s \o t \in Seq(S)
         /\ Len(s \o t) = m + n
         /\ \A i \in 1 .. m : (s \o t)[i] = s[i]
         /\ \A i \in 1 .. n : (s \o t)[m + i] = t[i]
OBVIOUS

\* How ArrangePlayingFeed, and the video case, put a script together.
LEMMA Arranged ==
  ASSUME NEW a, NEW b, NEW p, NEW q, NEW r, NEW z,
         NEW S, a \in S, b \in S, p \in S, q \in S, r \in S, z \in S,
         NEW steps \in Seq(S), NEW n \in Nat, n = Len(steps)
  PROVE  LET s == <<a, b>> \o <<p, q, r>> \o steps \o <<z>>
         IN  /\ s \in Seq(S)
             /\ Len(s) = n + 6
             /\ s[1] = a /\ s[2] = b /\ s[3] = p /\ s[4] = q /\ s[5] = r
             /\ \A i \in 1 .. n : s[5 + i] = steps[i]
             /\ s[n + 6] = z
<1>1. <<a, b>> \o <<p, q, r>> = <<a, b, p, q, r>>
  <2>1. <<a, b>> \in Seq(S) /\ <<p, q, r>> \in Seq(S) /\ <<a, b, p, q, r>> \in Seq(S)
    OBVIOUS
  <2>2. <<a, b>> \o <<p, q, r>> \in Seq(S) /\ Len(<<a, b>> \o <<p, q, r>>) = 5
    BY <2>1, Join
  <2>3. \A i \in 1 .. 5 : (<<a, b>> \o <<p, q, r>>)[i] = <<a, b, p, q, r>>[i]
    <3> TAKE i \in 1 .. 5
    <3>1. CASE i \in 1 .. 2
      BY <2>1, <3>1, Join
    <3>2. CASE i \in 3 .. 5
      <4>1. i - 2 \in 1 .. 3 /\ i = 2 + (i - 2)
        BY <3>2
      <4>2. (<<a, b>> \o <<p, q, r>>)[2 + (i - 2)] = <<p, q, r>>[i - 2]
        BY <2>1, <4>1, Join
      <4> QED BY <4>1, <4>2
    <3> QED BY <3>1, <3>2
  <2> QED BY <2>1, <2>2, <2>3, SeqEqual
<1>2. /\ <<a, b, p, q, r>> \o steps \in Seq(S)
      /\ Len(<<a, b, p, q, r>> \o steps) = 5 + n
      /\ \A i \in 1 .. 5 : (<<a, b, p, q, r>> \o steps)[i] = <<a, b, p, q, r>>[i]
      /\ \A i \in 1 .. n : (<<a, b, p, q, r>> \o steps)[5 + i] = steps[i]
  <2>1. <<a, b, p, q, r>> \in Seq(S) /\ Len(<<a, b, p, q, r>>) = 5
    OBVIOUS
  <2> QED BY <2>1, Join
<1>3. ASSUME NEW most \in Seq(S), NEW m \in Nat, m = Len(most)
      PROVE  /\ most \o <<z>> \in Seq(S)
             /\ Len(most \o <<z>>) = m + 1
             /\ \A i \in 1 .. m : (most \o <<z>>)[i] = most[i]
             /\ (most \o <<z>>)[m + 1] = z
  <2>1. <<z>> \in Seq(S) /\ 1 = Len(<<z>>) /\ <<z>>[1] = z
    OBVIOUS
  <2>2. /\ most \o <<z>> \in Seq(S)
        /\ Len(most \o <<z>>) = m + 1
        /\ \A i \in 1 .. m : (most \o <<z>>)[i] = most[i]
        /\ \A i \in 1 .. 1 : (most \o <<z>>)[m + i] = <<z>>[i]
    BY <1>3, <2>1, Join
  <2>3. 1 \in 1 .. 1
    OBVIOUS
  <2> QED BY <2>1, <2>2, <2>3
<1> DEFINE most == <<a, b>> \o <<p, q, r>> \o steps
           all  == most \o <<z>>
<1>4. /\ most \in Seq(S)
      /\ 5 + n = Len(most)
      /\ \A i \in 1 .. 5 : most[i] = <<a, b, p, q, r>>[i]
      /\ \A i \in 1 .. n : most[5 + i] = steps[i]
  BY <1>1, <1>2
<1> HIDE DEF most
<1>5. PICK m \in Nat : m = 5 + n
  OBVIOUS
<1>6. /\ all \in Seq(S) /\ Len(all) = m + 1
      /\ \A i \in 1 .. m : all[i] = most[i]
      /\ all[m + 1] = z
  BY <1>3, <1>4, <1>5
<1> HIDE DEF all
<1>7. \A i \in 1 .. n : all[5 + i] = steps[i]
  <2> TAKE i \in 1 .. n
  <2>1. 5 + i \in 1 .. m
    BY <1>5
  <2> QED BY <1>4, <1>6, <2>1
<1>8. /\ all[1] = a /\ all[2] = b /\ all[3] = p /\ all[4] = q /\ all[5] = r
  <2>1. \A i \in 1 .. 5 : i \in 1 .. m
    BY <1>5
  <2>2. \A i \in 1 .. 5 : all[i] = <<a, b, p, q, r>>[i]
    BY <1>4, <1>6, <2>1
  <2> QED BY <2>2
<1>9. Len(all) = n + 6 /\ all[n + 6] = z
  BY <1>5, <1>6
<1>10. all = <<a, b>> \o <<p, q, r>> \o steps \o <<z>>
  BY DEF all, most
<1> QED BY <1>6, <1>7, <1>8, <1>9, <1>10

\* How every script begins.
Begins(s, playing) ==
  /\ s[1] = Setup("synthesise") /\ s[2] = Setup("construct") /\ s[3] = Setup("setState")
  /\ s[4] = Reach("collection") /\ s[5] = playing

\* The steps every script has.
Fixed == {Setup("synthesise"), Setup("construct"), Setup("setState"), Reach("collection"),
          Reach("PLAYING"), Await("PLAYING"), Always("destroy")}

\* Short sequences, element by element.
LEMMA FewSteps ==
  ASSUME NEW S, NEW x \in S, NEW y \in S, NEW z \in S
  PROVE  /\ <<x>> \in Seq(S) /\ 1 = Len(<<x>>) /\ <<x>>[1] = x
         /\ <<x, y>> \in Seq(S) /\ 2 = Len(<<x, y>>)
         /\ <<x, y>>[1] = x /\ <<x, y>>[2] = y
         /\ <<x, y, z>> \in Seq(S) /\ 3 = Len(<<x, y, z>>)
         /\ <<x, y, z>>[1] = x /\ <<x, y, z>>[2] = y /\ <<x, y, z>>[3] = z
OBVIOUS

\* The script of a case that arranges a playing feed.
LEMMA ArrangedFeed ==
  ASSUME NEW S, Fixed \subseteq S, NEW catches,
         NEW steps \in Seq(S), NEW n \in Nat, n = Len(steps)
  PROVE  LET s == ArrangePlayingFeed(steps, catches).script
         IN  /\ Len(s) = n + 6
             /\ Begins(s, Reach("PLAYING"))
             /\ \A i \in 1 .. n : s[5 + i] = steps[i]
             /\ s[n + 6] = Always("destroy")
<1>1. ArrangePlayingFeed(steps, catches).script
        = <<Setup("synthesise"), Setup("construct")>>
            \o <<Setup("setState"), Reach("collection"), Reach("PLAYING")>>
            \o steps \o <<Always("destroy")>>
  BY DEF ArrangePlayingFeed, Case, StartPlaying, Destroy
<1>2. /\ Setup("synthesise") \in S /\ Setup("construct") \in S /\ Setup("setState") \in S
      /\ Reach("collection") \in S /\ Reach("PLAYING") \in S /\ Always("destroy") \in S
  BY Zenon DEF Fixed
<1> QED BY <1>1, <1>2, Arranged DEF Begins

\* One case after another: its length, how it begins, and each of its own steps.
LEMMA ScriptCapsAttachesSourceReachingPlaying ==
  LET s == Suite["CapsAttachesSourceReachingPlaying"].script
  IN  /\ Len(s) = 7
      /\ Begins(s, Reach("PLAYING"))
      /\ s[6] = Get("position", TRUE)
      /\ s[7] = Always("destroy")
<1> DEFINE S == Fixed \cup {Get("position", TRUE)}
           steps == <<Get("position", TRUE)>>
           s == Suite["CapsAttachesSourceReachingPlaying"].script
<1>1. PICK catches : s = ArrangePlayingFeed(steps, catches).script
  BY DEF Suite, CapsAttachesSourceReachingPlaying
<1>2. Get("position", TRUE) \in S
  BY Zenon
<1>3. Fixed \subseteq S
  BY Zenon
<1> HIDE DEF S, s
<1>4. steps \in Seq(S) /\ 1 = Len(steps)
        /\ steps[1] = Get("position", TRUE)
  BY <1>2, FewSteps
<1> HIDE DEF steps
<1>5. PICK k \in Nat : k = 1
  OBVIOUS
<1>6. /\ Len(s) = k + 6
      /\ Begins(s, Reach("PLAYING"))
      /\ \A i \in 1 .. k : s[5 + i] = steps[i]
      /\ s[k + 6] = Always("destroy")
  <2>1. k = Len(steps) /\ steps \in Seq(S)
    BY <1>4, <1>5
  <2> QED BY ONLY <1>1, <1>3, <2>1, k \in Nat, ArrangedFeed
<1>7. k + 6 = 7
  BY <1>5
<1>8. Len(s) = 7 /\ Begins(s, Reach("PLAYING")) /\ s[7] = Always("destroy")
  BY <1>6, <1>7, Zenon
<1>9. s[5 + 1] = steps[1]
  <2>1. 1 \in 1 .. k
    BY <1>5
  <2> QED BY <1>6, <2>1, Zenon
<1>10. s[6] = steps[1]
  <2>1. 5 + 1 = 6
    OBVIOUS
  <2> QED BY <1>9, <2>1, Zenon
<1> QED BY <1>4, <1>8, <1>10, Zenon DEF s

\* StreamCollectionTriggersAllSourcesAttached reports the collection once more.
LEMMA ScriptStreamCollectionTriggersAllSourcesAttached ==
  LET s == Suite["StreamCollectionTriggersAllSourcesAttached"].script
  IN  /\ Len(s) = 7
      /\ Begins(s, Reach("PLAYING"))
      /\ s[6] = Call("reportStreamCollection")
      /\ s[7] = Always("destroy")
<1> DEFINE S == Fixed \cup {Call("reportStreamCollection")}
           steps == <<Call("reportStreamCollection")>>
           s == Suite["StreamCollectionTriggersAllSourcesAttached"].script
<1>1. PICK catches : s = ArrangePlayingFeed(steps, catches).script
  BY DEF Suite, StreamCollectionTriggersAllSourcesAttached
<1>2. Call("reportStreamCollection") \in S
  BY Zenon
<1>3. Fixed \subseteq S
  BY Zenon
<1> HIDE DEF S, s
<1>4. steps \in Seq(S) /\ 1 = Len(steps)
        /\ steps[1] = Call("reportStreamCollection")
  BY <1>2, FewSteps
<1> HIDE DEF steps
<1>5. PICK k \in Nat : k = 1
  OBVIOUS
<1>6. /\ Len(s) = k + 6
      /\ Begins(s, Reach("PLAYING"))
      /\ \A i \in 1 .. k : s[5 + i] = steps[i]
      /\ s[k + 6] = Always("destroy")
  <2>1. k = Len(steps) /\ steps \in Seq(S)
    BY <1>4, <1>5
  <2> QED BY ONLY <1>1, <1>3, <2>1, k \in Nat, ArrangedFeed
<1>7. k + 6 = 7
  BY <1>5
<1>8. Len(s) = 7 /\ Begins(s, Reach("PLAYING")) /\ s[7] = Always("destroy")
  BY <1>6, <1>7, Zenon
<1>9. s[5 + 1] = steps[1]
  <2>1. 1 \in 1 .. k
    BY <1>5
  <2> QED BY <1>6, <2>1, Zenon
<1>10. s[6] = steps[1]
  <2>1. 5 + 1 = 6
    OBVIOUS
  <2> QED BY <1>9, <2>1, Zenon
<1> QED BY <1>4, <1>8, <1>10, Zenon DEF s

\* SegmentEventAppliedToServerSource sends a segment, then queries it.
LEMMA ScriptSegmentEventAppliedToServerSource ==
  LET s == Suite["SegmentEventAppliedToServerSource"].script
  IN  /\ Len(s) = 8
      /\ Begins(s, Reach("PLAYING"))
      /\ s[6] = Call("sendSegment")
      /\ s[7] = Get("segment", TRUE)
      /\ s[8] = Always("destroy")
<1> DEFINE S == Fixed \cup {Call("sendSegment"), Get("segment", TRUE)}
           steps == <<Call("sendSegment"), Get("segment", TRUE)>>
           s == Suite["SegmentEventAppliedToServerSource"].script
<1>1. PICK catches : s = ArrangePlayingFeed(steps, catches).script
  BY DEF Suite, SegmentEventAppliedToServerSource
<1>2. Call("sendSegment") \in S /\ Get("segment", TRUE) \in S
  BY Zenon
<1>3. Fixed \subseteq S
  BY Zenon
<1> HIDE DEF S, s
<1>4. steps \in Seq(S) /\ 2 = Len(steps)
        /\ steps[1] = Call("sendSegment") /\ steps[2] = Get("segment", TRUE)
  BY <1>2, FewSteps
<1> HIDE DEF steps
<1>5. PICK k \in Nat : k = 2
  OBVIOUS
<1>6. /\ Len(s) = k + 6
      /\ Begins(s, Reach("PLAYING"))
      /\ \A i \in 1 .. k : s[5 + i] = steps[i]
      /\ s[k + 6] = Always("destroy")
  <2>1. k = Len(steps) /\ steps \in Seq(S)
    BY <1>4, <1>5
  <2> QED BY ONLY <1>1, <1>3, <2>1, k \in Nat, ArrangedFeed
<1>7. k + 6 = 8
  BY <1>5
<1>8. Len(s) = 8 /\ Begins(s, Reach("PLAYING")) /\ s[8] = Always("destroy")
  BY <1>6, <1>7, Zenon
<1>9. s[5 + 1] = steps[1] /\ s[5 + 2] = steps[2]
  <2>1. 1 \in 1 .. k /\ 2 \in 1 .. k
    BY <1>5
  <2> QED BY <1>6, <2>1, Zenon
<1>10. s[6] = steps[1] /\ s[7] = steps[2]
  <2>1. 5 + 1 = 6 /\ 5 + 2 = 7
    OBVIOUS
  <2> QED BY <1>9, <2>1, Zenon
<1> QED BY <1>4, <1>8, <1>10, Zenon DEF s

\* EosEventReachesEndOfStream signals the end, then waits for the message.
LEMMA ScriptEosEventReachesEndOfStream ==
  LET s == Suite["EosEventReachesEndOfStream"].script
  IN  /\ Len(s) = 8
      /\ Begins(s, Reach("PLAYING"))
      /\ s[6] = Plain("endOfStream")
      /\ s[7] = Await("EOS")
      /\ s[8] = Always("destroy")
<1> DEFINE S == Fixed \cup {Plain("endOfStream"), Await("EOS")}
           steps == <<Plain("endOfStream"), Await("EOS")>>
           s == Suite["EosEventReachesEndOfStream"].script
<1>1. PICK catches : s = ArrangePlayingFeed(steps, catches).script
  BY DEF Suite, EosEventReachesEndOfStream
<1>2. Plain("endOfStream") \in S /\ Await("EOS") \in S
  BY Zenon
<1>3. Fixed \subseteq S
  BY Zenon
<1> HIDE DEF S, s
<1>4. steps \in Seq(S) /\ 2 = Len(steps)
        /\ steps[1] = Plain("endOfStream") /\ steps[2] = Await("EOS")
  BY <1>2, FewSteps
<1> HIDE DEF steps
<1>5. PICK k \in Nat : k = 2
  OBVIOUS
<1>6. /\ Len(s) = k + 6
      /\ Begins(s, Reach("PLAYING"))
      /\ \A i \in 1 .. k : s[5 + i] = steps[i]
      /\ s[k + 6] = Always("destroy")
  <2>1. k = Len(steps) /\ steps \in Seq(S)
    BY <1>4, <1>5
  <2> QED BY ONLY <1>1, <1>3, <2>1, k \in Nat, ArrangedFeed
<1>7. k + 6 = 8
  BY <1>5
<1>8. Len(s) = 8 /\ Begins(s, Reach("PLAYING")) /\ s[8] = Always("destroy")
  BY <1>6, <1>7, Zenon
<1>9. s[5 + 1] = steps[1] /\ s[5 + 2] = steps[2]
  <2>1. 1 \in 1 .. k /\ 2 \in 1 .. k
    BY <1>5
  <2> QED BY <1>6, <2>1, Zenon
<1>10. s[6] = steps[1] /\ s[7] = steps[2]
  <2>1. 5 + 1 = 6 /\ 5 + 2 = 7
    OBVIOUS
  <2> QED BY <1>9, <2>1, Zenon
<1> QED BY <1>4, <1>8, <1>10, Zenon DEF s

\* FlushHonoursResetTime starts and stops a flush, then waits for the message.
LEMMA ScriptFlushHonoursResetTime ==
  LET s == Suite["FlushHonoursResetTime"].script
  IN  /\ Len(s) = 9
      /\ Begins(s, Reach("PLAYING"))
      /\ s[6] = Plain("flushStart")
      /\ s[7] = Plain("flushStop")
      /\ s[8] = Await("RESET_TIME")
      /\ s[9] = Always("destroy")
<1> DEFINE S == Fixed \cup {Plain("flushStart"), Plain("flushStop"), Await("RESET_TIME")}
           steps == <<Plain("flushStart"), Plain("flushStop"), Await("RESET_TIME")>>
           s == Suite["FlushHonoursResetTime"].script
<1>1. PICK catches : s = ArrangePlayingFeed(steps, catches).script
  BY DEF Suite, FlushHonoursResetTime
<1>2. Plain("flushStart") \in S /\ Plain("flushStop") \in S /\ Await("RESET_TIME") \in S
  BY Zenon
<1>3. Fixed \subseteq S
  BY Zenon
<1> HIDE DEF S, s
<1>4. steps \in Seq(S) /\ 3 = Len(steps)
        /\ steps[1] = Plain("flushStart") /\ steps[2] = Plain("flushStop")
        /\ steps[3] = Await("RESET_TIME")
  BY <1>2, FewSteps
<1> HIDE DEF steps
<1>5. PICK k \in Nat : k = 3
  OBVIOUS
<1>6. /\ Len(s) = k + 6
      /\ Begins(s, Reach("PLAYING"))
      /\ \A i \in 1 .. k : s[5 + i] = steps[i]
      /\ s[k + 6] = Always("destroy")
  <2>1. k = Len(steps) /\ steps \in Seq(S)
    BY <1>4, <1>5
  <2> QED BY ONLY <1>1, <1>3, <2>1, k \in Nat, ArrangedFeed
<1>7. k + 6 = 9
  BY <1>5
<1>8. Len(s) = 9 /\ Begins(s, Reach("PLAYING")) /\ s[9] = Always("destroy")
  BY <1>6, <1>7, Zenon
<1>9. s[5 + 1] = steps[1] /\ s[5 + 2] = steps[2] /\ s[5 + 3] = steps[3]
  <2>1. 1 \in 1 .. k /\ 2 \in 1 .. k /\ 3 \in 1 .. k
    BY <1>5
  <2> QED BY <1>6, <2>1, Zenon
<1>10. s[6] = steps[1] /\ s[7] = steps[2] /\ s[8] = steps[3]
  <2>1. 5 + 1 = 6 /\ 5 + 2 = 7 /\ 5 + 3 = 8
    OBVIOUS
  <2> QED BY <1>9, <2>1, Zenon
<1> QED BY <1>4, <1>8, <1>10, Zenon DEF s

\* InstantRateChangeSeekPostsRateRequest seeks, then waits for the message.
LEMMA ScriptInstantRateChangeSeekPostsRateRequest ==
  LET s == Suite["InstantRateChangeSeekPostsRateRequest"].script
  IN  /\ Len(s) = 8
      /\ Begins(s, Reach("PLAYING"))
      /\ s[6] = Plain("seekInstantRate")
      /\ s[7] = Await("INSTANT_RATE_REQUEST")
      /\ s[8] = Always("destroy")
<1> DEFINE S == Fixed \cup {Plain("seekInstantRate"), Await("INSTANT_RATE_REQUEST")}
           steps == <<Plain("seekInstantRate"), Await("INSTANT_RATE_REQUEST")>>
           s == Suite["InstantRateChangeSeekPostsRateRequest"].script
<1>1. PICK catches : s = ArrangePlayingFeed(steps, catches).script
  BY DEF Suite, InstantRateChangeSeekPostsRateRequest
<1>2. Plain("seekInstantRate") \in S /\ Await("INSTANT_RATE_REQUEST") \in S
  BY Zenon
<1>3. Fixed \subseteq S
  BY Zenon
<1> HIDE DEF S, s
<1>4. steps \in Seq(S) /\ 2 = Len(steps)
        /\ steps[1] = Plain("seekInstantRate") /\ steps[2] = Await("INSTANT_RATE_REQUEST")
  BY <1>2, FewSteps
<1> HIDE DEF steps
<1>5. PICK k \in Nat : k = 2
  OBVIOUS
<1>6. /\ Len(s) = k + 6
      /\ Begins(s, Reach("PLAYING"))
      /\ \A i \in 1 .. k : s[5 + i] = steps[i]
      /\ s[k + 6] = Always("destroy")
  <2>1. k = Len(steps) /\ steps \in Seq(S)
    BY <1>4, <1>5
  <2> QED BY ONLY <1>1, <1>3, <2>1, k \in Nat, ArrangedFeed
<1>7. k + 6 = 8
  BY <1>5
<1>8. Len(s) = 8 /\ Begins(s, Reach("PLAYING")) /\ s[8] = Always("destroy")
  BY <1>6, <1>7, Zenon
<1>9. s[5 + 1] = steps[1] /\ s[5 + 2] = steps[2]
  <2>1. 1 \in 1 .. k /\ 2 \in 1 .. k
    BY <1>5
  <2> QED BY <1>6, <2>1, Zenon
<1>10. s[6] = steps[1] /\ s[7] = steps[2]
  <2>1. 5 + 1 = 6 /\ 5 + 2 = 7
    OBVIOUS
  <2> QED BY <1>9, <2>1, Zenon
<1> QED BY <1>4, <1>8, <1>10, Zenon DEF s

\* UnknownUpstreamEventForwardedUpstream sends an event, then looks at the probe.
LEMMA ScriptUnknownUpstreamEventForwardedUpstream ==
  LET s == Suite["UnknownUpstreamEventForwardedUpstream"].script
  IN  /\ Len(s) = 8
      /\ Begins(s, Reach("PLAYING"))
      /\ s[6] = Plain("sendUpstream")
      /\ s[7] = Check("forwarded")
      /\ s[8] = Always("destroy")
<1> DEFINE S == Fixed \cup {Plain("sendUpstream"), Check("forwarded")}
           steps == <<Plain("sendUpstream"), Check("forwarded")>>
           s == Suite["UnknownUpstreamEventForwardedUpstream"].script
<1>1. PICK catches : s = ArrangePlayingFeed(steps, catches).script
  BY DEF Suite, UnknownUpstreamEventForwardedUpstream
<1>2. Plain("sendUpstream") \in S /\ Check("forwarded") \in S
  BY Zenon
<1>3. Fixed \subseteq S
  BY Zenon
<1> HIDE DEF S, s
<1>4. steps \in Seq(S) /\ 2 = Len(steps)
        /\ steps[1] = Plain("sendUpstream") /\ steps[2] = Check("forwarded")
  BY <1>2, FewSteps
<1> HIDE DEF steps
<1>5. PICK k \in Nat : k = 2
  OBVIOUS
<1>6. /\ Len(s) = k + 6
      /\ Begins(s, Reach("PLAYING"))
      /\ \A i \in 1 .. k : s[5 + i] = steps[i]
      /\ s[k + 6] = Always("destroy")
  <2>1. k = Len(steps) /\ steps \in Seq(S)
    BY <1>4, <1>5
  <2> QED BY ONLY <1>1, <1>3, <2>1, k \in Nat, ArrangedFeed
<1>7. k + 6 = 8
  BY <1>5
<1>8. Len(s) = 8 /\ Begins(s, Reach("PLAYING")) /\ s[8] = Always("destroy")
  BY <1>6, <1>7, Zenon
<1>9. s[5 + 1] = steps[1] /\ s[5 + 2] = steps[2]
  <2>1. 1 \in 1 .. k /\ 2 \in 1 .. k
    BY <1>5
  <2> QED BY <1>6, <2>1, Zenon
<1>10. s[6] = steps[1] /\ s[7] = steps[2]
  <2>1. 5 + 1 = 6 /\ 5 + 2 = 7
    OBVIOUS
  <2> QED BY <1>9, <2>1, Zenon
<1> QED BY <1>4, <1>8, <1>10, Zenon DEF s

\* The video case has no step of its own.
LEMMA ScriptAvcCapsFieldsParsedReachingPlaying ==
  LET s == Suite["AvcCapsFieldsParsedReachingPlaying"].script
  IN  /\ Len(s) = 6
      /\ Begins(s, Await("PLAYING"))
      /\ s[6] = Always("destroy")
<1> DEFINE five == <<Setup("synthesise"), Setup("construct")>>
                     \o <<Setup("setState"), Reach("collection"), Await("PLAYING")>>
<1>1. Suite["AvcCapsFieldsParsedReachingPlaying"].script = five \o <<Always("destroy")>>
  BY DEF Suite, AvcCapsFieldsParsedReachingPlaying, Case, StartPlayingVideo, Destroy
<1>2. /\ Setup("synthesise") \in Fixed /\ Setup("construct") \in Fixed
      /\ Setup("setState") \in Fixed /\ Reach("collection") \in Fixed
      /\ Await("PLAYING") \in Fixed /\ Always("destroy") \in Fixed
  BY Zenon DEF Fixed
<1>3. five \in Seq(Fixed)
  BY <1>2, FewSteps, ConcatProperties
<1>4. five = five \o << >>
  BY <1>3, ConcatEmptySeq
<1>5. << >> \in Seq(Fixed) /\ 0 \in Nat /\ 0 = Len(<< >>)
  OBVIOUS
<1>6. LET s == five \o << >> \o <<Always("destroy")>>
      IN  /\ Len(s) = 0 + 6
          /\ Begins(s, Await("PLAYING"))
          /\ s[0 + 6] = Always("destroy")
  BY <1>2, <1>5, Arranged DEF Begins
<1> QED BY <1>1, <1>4, <1>6

-----------------------------------------------------------------------------
(***************************************************************************)
(* Where a script calls, waits for, reads or checks what.                  *)
(***************************************************************************)

\* What the kth of n steps of case c is.
Places(c, n, k, st) ==
  /\ st.what = "synthesise" <=> k = 1
  /\ st.what = "construct" <=> k = 2
  /\ st.what = "setState" <=> k = 3
  /\ st.what = "collection" <=> k = 4
  /\ st.what = "PLAYING" <=> k = 5
  /\ st.what = "destroy" <=> k = n
  /\ st.what = "position" <=> c = "CapsAttachesSourceReachingPlaying" /\ k = 6
  /\ st.what = "reportStreamCollection"
       <=> c = "StreamCollectionTriggersAllSourcesAttached" /\ k = 6
  /\ st.what = "sendSegment" <=> c = "SegmentEventAppliedToServerSource" /\ k = 6
  /\ st.what = "segment" <=> c = "SegmentEventAppliedToServerSource" /\ k = 7
  /\ st.what = "endOfStream" <=> c = "EosEventReachesEndOfStream" /\ k = 6
  /\ st.what = "EOS" <=> c = "EosEventReachesEndOfStream" /\ k = 7
  /\ st.what = "flushStart" <=> c = "FlushHonoursResetTime" /\ k = 6
  /\ st.what = "flushStop" <=> c = "FlushHonoursResetTime" /\ k = 7
  /\ st.what = "RESET_TIME" <=> c = "FlushHonoursResetTime" /\ k = 8
  /\ st.what = "seekInstantRate" <=> c = "InstantRateChangeSeekPostsRateRequest" /\ k = 6
  /\ st.what = "INSTANT_RATE_REQUEST"
       <=> c = "InstantRateChangeSeekPostsRateRequest" /\ k = 7
  /\ st.what = "sendUpstream" <=> c = "UnknownUpstreamEventForwardedUpstream" /\ k = 6
  /\ st.what = "forwarded" <=> c = "UnknownUpstreamEventForwardedUpstream" /\ k = 7

\* How it is done, and what becomes of its result.
Manner(k, st) ==
  /\ st.do = "call" <=>
       st.what \notin {"collection", "PLAYING", "position", "segment", "EOS", "RESET_TIME",
                       "INSTANT_RATE_REQUEST", "forwarded"}
  /\ st.do = "get" <=> st.what \in {"position", "segment"}
  /\ st.do = "await" <=>
       st.what \in {"collection", "PLAYING", "EOS", "RESET_TIME", "INSTANT_RATE_REQUEST"}
  /\ st.do = "check" <=> st.what = "forwarded"
  /\ st.do = "get" => st.value = TRUE
  /\ st.must = "abort" => k \in 1 .. 5
  /\ k \in 1 .. 4 => st.must = "abort"
  /\ k = 5 => st.must \in {"hold", "abort"}
  /\ st.do \in {"get", "check"} => st.must = "hold"
  /\ st.what \in {"reportStreamCollection", "sendSegment", "EOS", "RESET_TIME",
                  "INSTANT_RATE_REQUEST"} => st.must = "hold"
  /\ st = Plain("endOfStream") <=> st.what = "endOfStream"

\* The length of a script.
CaseLength(c) ==
  IF c = "AvcCapsFieldsParsedReachingPlaying" THEN 6
  ELSE IF c \in {"CapsAttachesSourceReachingPlaying",
                 "StreamCollectionTriggersAllSourcesAttached"} THEN 7
  ELSE IF c = "FlushHonoursResetTime" THEN 9 ELSE 8

\* Every step of every script is where Places has it, and done as Manner says.
LEMMA ScriptPlaces ==
  ASSUME NEW c \in DOMAIN Suite
  PROVE  /\ Len(Suite[c].script) = CaseLength(c)
         /\ \A k \in 1 .. CaseLength(c) :
              /\ Places(c, CaseLength(c), k, Suite[c].script[k])
              /\ Manner(k, Suite[c].script[k])
<1>1. CASE c = "CapsAttachesSourceReachingPlaying"
  <2> DEFINE s == Suite["CapsAttachesSourceReachingPlaying"].script
  <2>1. CaseLength(c) = 7 /\ Len(s) = 7
    BY <1>1, ScriptCapsAttachesSourceReachingPlaying DEF CaseLength
  <2>2. ASSUME NEW k \in 1 .. 7
        PROVE  Places(c, 7, k, s[k]) /\ Manner(k, s[k])
    <3>1. k = 1 \/ k = 2 \/ k = 3 \/ k = 4 \/ k = 5 \/ k = 6 \/ k = 7
      OBVIOUS
    <3> QED BY <1>1, <3>1, ScriptCapsAttachesSourceReachingPlaying
            DEF Begins, Places, Manner, Setup, Call, Plain, Always, Get, Await, Reach, Check, Step
  <2> QED BY <1>1, <2>1, <2>2
<1>2. CASE c = "StreamCollectionTriggersAllSourcesAttached"
  <2> DEFINE s == Suite["StreamCollectionTriggersAllSourcesAttached"].script
  <2>1. CaseLength(c) = 7 /\ Len(s) = 7
    BY <1>2, ScriptStreamCollectionTriggersAllSourcesAttached DEF CaseLength
  <2>2. ASSUME NEW k \in 1 .. 7
        PROVE  Places(c, 7, k, s[k]) /\ Manner(k, s[k])
    <3>1. k = 1 \/ k = 2 \/ k = 3 \/ k = 4 \/ k = 5 \/ k = 6 \/ k = 7
      OBVIOUS
    <3> QED BY <1>2, <3>1, ScriptStreamCollectionTriggersAllSourcesAttached
            DEF Begins, Places, Manner, Setup, Call, Plain, Always, Get, Await, Reach, Check, Step
  <2> QED BY <1>2, <2>1, <2>2
<1>3. CASE c = "SegmentEventAppliedToServerSource"
  <2> DEFINE s == Suite["SegmentEventAppliedToServerSource"].script
  <2>1. CaseLength(c) = 8 /\ Len(s) = 8
    BY <1>3, ScriptSegmentEventAppliedToServerSource DEF CaseLength
  <2>2. ASSUME NEW k \in 1 .. 8
        PROVE  Places(c, 8, k, s[k]) /\ Manner(k, s[k])
    <3>1. k = 1 \/ k = 2 \/ k = 3 \/ k = 4 \/ k = 5 \/ k = 6 \/ k = 7 \/ k = 8
      OBVIOUS
    <3> QED BY <1>3, <3>1, ScriptSegmentEventAppliedToServerSource
            DEF Begins, Places, Manner, Setup, Call, Plain, Always, Get, Await, Reach, Check, Step
  <2> QED BY <1>3, <2>1, <2>2
<1>4. CASE c = "EosEventReachesEndOfStream"
  <2> DEFINE s == Suite["EosEventReachesEndOfStream"].script
  <2>1. CaseLength(c) = 8 /\ Len(s) = 8
    BY <1>4, ScriptEosEventReachesEndOfStream DEF CaseLength
  <2>2. ASSUME NEW k \in 1 .. 8
        PROVE  Places(c, 8, k, s[k]) /\ Manner(k, s[k])
    <3>1. k = 1 \/ k = 2 \/ k = 3 \/ k = 4 \/ k = 5 \/ k = 6 \/ k = 7 \/ k = 8
      OBVIOUS
    <3> QED BY <1>4, <3>1, ScriptEosEventReachesEndOfStream
            DEF Begins, Places, Manner, Setup, Call, Plain, Always, Get, Await, Reach, Check, Step
  <2> QED BY <1>4, <2>1, <2>2
<1>5. CASE c = "FlushHonoursResetTime"
  <2> DEFINE s == Suite["FlushHonoursResetTime"].script
  <2>1. CaseLength(c) = 9 /\ Len(s) = 9
    BY <1>5, ScriptFlushHonoursResetTime DEF CaseLength
  <2>2. ASSUME NEW k \in 1 .. 9
        PROVE  Places(c, 9, k, s[k]) /\ Manner(k, s[k])
    <3>1. k = 1 \/ k = 2 \/ k = 3 \/ k = 4 \/ k = 5 \/ k = 6 \/ k = 7 \/ k = 8 \/ k = 9
      OBVIOUS
    <3> QED BY <1>5, <3>1, ScriptFlushHonoursResetTime
            DEF Begins, Places, Manner, Setup, Call, Plain, Always, Get, Await, Reach, Check, Step
  <2> QED BY <1>5, <2>1, <2>2
<1>6. CASE c = "InstantRateChangeSeekPostsRateRequest"
  <2> DEFINE s == Suite["InstantRateChangeSeekPostsRateRequest"].script
  <2>1. CaseLength(c) = 8 /\ Len(s) = 8
    BY <1>6, ScriptInstantRateChangeSeekPostsRateRequest DEF CaseLength
  <2>2. ASSUME NEW k \in 1 .. 8
        PROVE  Places(c, 8, k, s[k]) /\ Manner(k, s[k])
    <3>1. k = 1 \/ k = 2 \/ k = 3 \/ k = 4 \/ k = 5 \/ k = 6 \/ k = 7 \/ k = 8
      OBVIOUS
    <3> QED BY <1>6, <3>1, ScriptInstantRateChangeSeekPostsRateRequest
            DEF Begins, Places, Manner, Setup, Call, Plain, Always, Get, Await, Reach, Check, Step
  <2> QED BY <1>6, <2>1, <2>2
<1>7. CASE c = "UnknownUpstreamEventForwardedUpstream"
  <2> DEFINE s == Suite["UnknownUpstreamEventForwardedUpstream"].script
  <2>1. CaseLength(c) = 8 /\ Len(s) = 8
    BY <1>7, ScriptUnknownUpstreamEventForwardedUpstream DEF CaseLength
  <2>2. ASSUME NEW k \in 1 .. 8
        PROVE  Places(c, 8, k, s[k]) /\ Manner(k, s[k])
    <3>1. k = 1 \/ k = 2 \/ k = 3 \/ k = 4 \/ k = 5 \/ k = 6 \/ k = 7 \/ k = 8
      OBVIOUS
    <3> QED BY <1>7, <3>1, ScriptUnknownUpstreamEventForwardedUpstream
            DEF Begins, Places, Manner, Setup, Call, Plain, Always, Get, Await, Reach, Check, Step
  <2> QED BY <1>7, <2>1, <2>2
<1>8. CASE c = "AvcCapsFieldsParsedReachingPlaying"
  <2> DEFINE s == Suite["AvcCapsFieldsParsedReachingPlaying"].script
  <2>1. CaseLength(c) = 6 /\ Len(s) = 6
    BY <1>8, ScriptAvcCapsFieldsParsedReachingPlaying DEF CaseLength
  <2>2. ASSUME NEW k \in 1 .. 6
        PROVE  Places(c, 6, k, s[k]) /\ Manner(k, s[k])
    <3>1. k = 1 \/ k = 2 \/ k = 3 \/ k = 4 \/ k = 5 \/ k = 6
      OBVIOUS
    <3> QED BY <1>8, <3>1, ScriptAvcCapsFieldsParsedReachingPlaying
            DEF Begins, Places, Manner, Setup, Call, Plain, Always, Get, Await, Reach, Check, Step
  <2> QED BY <1>8, <2>1, <2>2
<1> QED BY <1>1, <1>2, <1>3, <1>4, <1>5, <1>6, <1>7, <1>8 DEF Suite

-----------------------------------------------------------------------------
(***************************************************************************)
(* The timestamps.                                                         *)
(***************************************************************************)

\* Induction over the natural numbers, for a set.
LEMMA Induction ==
  ASSUME NEW T \in SUBSET Nat, 0 \in T, \A n \in Nat : n \in T => n + 1 \in T
  PROVE  T = Nat
<1> SUFFICES ASSUME Nat \ T # {} PROVE FALSE
  OBVIOUS
<1>1. PICK x \in Nat \ T : \A y \in Nat \ T : <<y, x>> \notin OpToRel(<, Nat)
  BY NatLessThanWellFounded, WFMin
<1>2. x # 0
  OBVIOUS
<1>3. x - 1 \in T
  <2>1. x - 1 \in Nat /\ x - 1 < x
    BY <1>2
  <2>2. <<x - 1, x>> \in OpToRel(<, Nat)
    BY <2>1 DEF OpToRel
  <2> QED BY <1>1, <2>1, <2>2
<1>4. x \in T
  <2>1. x - 1 \in Nat /\ x = (x - 1) + 1
    BY <1>2
  <2> QED BY <2>1, <1>3
<1> QED BY <1>4

\* What adds up the durations is their sum.
LEMMA SumIs ==
  ASSUME NEW d, NEW g \in [0 .. NumFrames -> Nat], g[0] = 0,
         \A n \in 1 .. NumFrames : g[n] = g[n - 1] + d[n - 1]
  PROVE  Sum(d) = g[NumFrames]
<1> DEFINE Added(f) == [n \in 0 .. NumFrames |-> IF n = 0 THEN 0 ELSE f[n - 1] + d[n - 1]]
           upTo == CHOOSE f : f = Added(f)
           T == {n \in Nat : n \in 0 .. NumFrames => upTo[n] = g[n]}
<1>1. NumFrames \in Nat
  BY FramesAssumption, SMT
<1>2. g = Added(g)
  BY <1>1
<1>3. upTo = Added(upTo)
  BY <1>2, Zenon
<1>4. Sum(d) = upTo[NumFrames]
  BY Zenon DEF Sum
<1> HIDE DEF upTo
<1>5. T = Nat
  <2>1. 0 \in T
    BY <1>1, <1>3
  <2>2. \A n \in Nat : n \in T => n + 1 \in T
    BY <1>1, <1>3
  <2> QED BY <2>1, <2>2, Induction
<1> QED BY <1>1, <1>4, <1>5

\* Frame b is later than frame a, by what TimestampsIncrease allows.
Follows(a, b) ==
  /\ b - a > 0
  /\ FrameDuration - NumFrames \div 3 <= b - a
  /\ b - a <= FrameDuration + 1 + NumFrames \div 3

\* The timestamp of the frame pushed last.
LastPushed == TimeStamp(feed.nextFrame - 1) + feed.loopCount * TotalDuration

\* The numbers of a stream; a third of its frames is less than a frame's nanoseconds.
LEMMA Numbers ==
  /\ NumFrames \in Nat \ {0} /\ MaxFrames \in Nat \ {0}
  /\ FrameDuration \in Nat \ {0} /\ NumFrames \div 3 \in Nat
  /\ NumFrames \div 3 < FrameDuration
BY FramesAssumption, SMT DEF FrameDuration, Thirds

\* The encoder's own timestamps drift from a multiple of the duration by a third of a
\* nanosecond a frame, or not at all.
LEMMA Stamps ==
  ASSUME encoded \in Encodings, NEW i \in Nat
  PROVE  /\ SampleStart(i) \in Nat
         /\ SampleStart(i) = encoded.start + i * FrameDuration + (IF Video THEN 0 ELSE i \div 3)
BY SMT DEF SampleStart, FrameDuration, Thirds, Encodings

\* The encoder's own timestamps are a duration apart, rounded up or down.
LEMMA NextStamp ==
  ASSUME encoded \in Encodings, NEW i \in Nat
  PROVE  SampleStart(i + 1) - SampleStart(i) \in {FrameDuration, FrameDuration + 1}
BY SMT DEF SampleStart, FrameDuration, Thirds, Encodings

\* How far they are from a multiple of the duration after i frames.
LEMMA Drift ==
  ASSUME encoded \in Encodings, NEW i \in Nat
  PROVE  /\ i \div 3 \in Nat /\ i * FrameDuration \in Nat
         /\ i * FrameDuration <= SampleStart(i) - SampleStart(0)
         /\ SampleStart(i) - SampleStart(0) <= i * FrameDuration + i \div 3
<1>1. i \div 3 \in Nat /\ 0 \div 3 = 0
  BY SMT
<1>2. i * FrameDuration \in Nat /\ 0 * FrameDuration = 0
  BY Numbers, SMT
<1>3. encoded.start \in Nat
  BY SMT DEF Encodings
<1>4. /\ SampleStart(i) = encoded.start + i * FrameDuration + (IF Video THEN 0 ELSE i \div 3)
      /\ SampleStart(0) = encoded.start + 0 * FrameDuration + (IF Video THEN 0 ELSE 0 \div 3)
  BY Stamps, SMT
<1> HIDE DEF Video
<1> QED BY <1>1, <1>2, <1>3, <1>4, SMT

\* A frame put elsewhere by x264enc lasts as long as the one presented in its place.
LEMMA DurationOf ==
  ASSUME encoded \in Encodings, NEW i \in 0 .. NumFrames - 1
  PROVE  /\ Presented(i) \in 0 .. NumFrames - 1
         /\ Duration(i) = IF encoded.timed THEN SampleStart(i + 1) - SampleStart(i)
                                           ELSE FrameDuration
<1>1. Presented(i) \in 0 .. NumFrames - 1
  BY PlaceAssumption DEF Presented
<1>2. PICK p \in Nat : p = Presented(i)
  BY <1>1, Numbers
<1>3. i \in Nat
  BY Numbers
<1>4. CASE Reordered
  <2>1. Video
    BY <1>4 DEF Reordered
  <2>2. /\ SampleStart(i + 1) - SampleStart(i) = FrameDuration
        /\ SampleStart(p + 1) - SampleStart(p) = FrameDuration
    BY <1>2, <1>3, <2>1, SMT DEF SampleStart, FrameDuration, Thirds, Encodings
  <2> QED BY <1>1, <1>2, <2>2 DEF Duration
<1>5. CASE ~Reordered
  BY <1>1, <1>5 DEF Duration, Presented
<1> QED BY <1>4, <1>5

\* m_streamDurationNs.
LEMMA TotalIs ==
  ASSUME encoded \in Encodings
  PROVE  TotalDuration = IF encoded.timed THEN SampleStart(NumFrames) - SampleStart(0)
                                          ELSE NumFrames * FrameDuration
<1> DEFINE d == [i \in 0 .. NumFrames - 1 |-> Duration(i)]
           g == [n \in 0 .. NumFrames |-> IF encoded.timed THEN SampleStart(n) - SampleStart(0)
                                                          ELSE n * FrameDuration]
<1>1. \A n \in 0 .. NumFrames : g[n] \in Nat
  BY Numbers, Stamps, Drift, SMT
<1>2. g \in [0 .. NumFrames -> Nat] /\ g[0] = 0
  BY <1>1, Numbers, Stamps, SMT
<1>3. \A n \in 1 .. NumFrames : g[n] = g[n - 1] + d[n - 1]
  <2> TAKE n \in 1 .. NumFrames
  <2>1. PICK m \in Nat : m + 1 = n /\ m = n - 1
    BY Numbers, SMT
  <2>2. d[m] = Duration(m) /\ m \in 0 .. NumFrames /\ m + 1 \in 0 .. NumFrames
    BY <2>1, Numbers, SMT
  <2>3. g[m + 1] = g[m] + Duration(m)
    <3>1. SampleStart(m) \in Nat /\ SampleStart(m + 1) \in Nat /\ SampleStart(0) \in Nat
      BY Stamps, SMT
    <3>2. (m + 1) * FrameDuration = m * FrameDuration + FrameDuration
      BY Numbers, SMT
    <3>3. m \in 0 .. NumFrames - 1
      BY <2>1, Numbers, SMT
    <3>4. Duration(m) = IF encoded.timed THEN SampleStart(m + 1) - SampleStart(m)
                                         ELSE FrameDuration
      BY <3>3, DurationOf
    <3> QED BY <2>2, <3>1, <3>2, <3>4, Numbers, SMT
  <2> QED BY <2>1, <2>2, <2>3, SMT
<1>4. Sum(d) = g[NumFrames]
  <2> HIDE DEF g, d
  <2> QED BY <1>2, <1>3, SumIs
<1> QED BY <1>4, Numbers, SMT DEF TotalDuration

\* A replay moves the timestamps on by a natural number of nanoseconds.
LEMMA TotalType ==
  ASSUME encoded \in Encodings
  PROVE  TotalDuration \in Nat
<1>1. /\ NumFrames \in Nat /\ NumFrames * FrameDuration \in Nat /\ NumFrames \div 3 \in Nat
      /\ NumFrames * FrameDuration <= SampleStart(NumFrames) - SampleStart(0)
  <2>1. NumFrames \in Nat
    BY Numbers, SMT
  <2> QED BY <2>1, Drift, SMT
<1>2. SampleStart(NumFrames) \in Nat /\ SampleStart(0) \in Nat
  BY Numbers, Stamps, SMT
<1> QED BY <1>1, <1>2, TotalIs, SMT

\* A frame's timestamp is a natural number of nanoseconds.
LEMMA StampType ==
  ASSUME encoded \in Encodings, NEW i \in 0 .. NumFrames - 1
  PROVE  TimeStamp(i) \in Nat
<1>1. PICK p \in Nat : p = Presented(i)
  BY DurationOf, Numbers
<1>2. SampleStart(p) \in Nat
  BY Stamps
<1>3. i \in Nat /\ i * FrameDuration \in Nat
  BY Numbers, SMT
<1> QED BY <1>1, <1>2, <1>3 DEF TimeStamp

\* The timestamps of one pass through the stream lie within less than its duration.
LEMMA Span ==
  ASSUME encoded \in Encodings, NEW i \in 0 .. NumFrames - 1, NEW j \in 0 .. NumFrames - 1
  PROVE  TimeStamp(i) - TimeStamp(j) < TotalDuration
<1> DEFINE n == NumFrames - 1
           base == IF encoded.stamped THEN SampleStart(0) ELSE 0
<1>1. n \in Nat /\ NumFrames = n + 1 /\ TotalDuration \in Nat /\ base \in Nat
  BY Numbers, Stamps, TotalType, SMT
<1>2. ASSUME NEW k \in 0 .. NumFrames - 1
      PROVE  /\ TimeStamp(k) \in Nat /\ base <= TimeStamp(k)
             /\ TimeStamp(k) <= base + n * FrameDuration + NumFrames \div 3
  <2>1. PICK m \in 0 .. n : TimeStamp(k) = IF encoded.stamped THEN SampleStart(m)
                                                             ELSE m * FrameDuration
    <3>1. CASE encoded.stamped
      BY <1>1, <1>2, <3>1, DurationOf DEF TimeStamp
    <3>2. CASE ~encoded.stamped
      BY <1>1, <1>2, <3>2 DEF TimeStamp
    <3> QED BY <3>1, <3>2
  <2>2. m \in Nat /\ n - m \in Nat /\ m \div 3 \in Nat /\ m \div 3 <= NumFrames \div 3
    BY <1>1, SMT
  <2>3. m * FrameDuration <= n * FrameDuration /\ m * FrameDuration \in Nat
    <3>1. (n - m) * FrameDuration \in Nat
      BY <2>2, Numbers, SMT
    <3>2. n * FrameDuration = m * FrameDuration + (n - m) * FrameDuration
      BY <1>1, <2>2, Numbers, SMT
    <3>3. m * FrameDuration \in Nat
      BY <2>2, Numbers, SMT
    <3> QED BY <3>1, <3>2, <3>3
  <2>4. /\ m * FrameDuration <= SampleStart(m) - SampleStart(0)
        /\ SampleStart(m) - SampleStart(0) <= m * FrameDuration + m \div 3
        /\ SampleStart(m) \in Nat /\ SampleStart(0) \in Nat
    BY <2>2, Drift, Stamps
  <2>5. n * FrameDuration \in Nat /\ NumFrames \div 3 \in Nat
    BY <1>1, Numbers, SMT
  <2> HIDE DEF n
  <2> QED BY <2>1, <2>2, <2>3, <2>4, <2>5
<1>3. NumFrames * FrameDuration <= TotalDuration
  <2>1. NumFrames \in Nat /\ NumFrames * FrameDuration \in Nat
    BY Numbers, SMT
  <2>2. NumFrames * FrameDuration <= SampleStart(NumFrames) - SampleStart(0)
    BY <2>1, Drift
  <2> QED BY <2>1, <2>2, TotalIs
<1>4. NumFrames * FrameDuration = n * FrameDuration + FrameDuration
  BY <1>1, Numbers, SMT
<1>5. n * FrameDuration \in Nat
  BY <1>1, Numbers, SMT
<1> HIDE DEF base, n
<1> QED BY <1>1, <1>2, <1>3, <1>4, <1>5, Numbers

\* A frame of a later replay is later, whichever frame it is.
LEMMA LaterReplay ==
  ASSUME encoded \in Encodings, NEW i \in 0 .. NumFrames - 1, NEW j \in 0 .. NumFrames - 1,
         NEW p \in Nat, NEW q \in Nat, p < q
  PROVE  TimeStamp(i) + p * TotalDuration < TimeStamp(j) + q * TotalDuration
<1>1. PICK d \in Nat : q = p + 1 + d
  <2>1. q - p - 1 \in Nat /\ q = p + 1 + (q - p - 1)
    OBVIOUS
  <2> QED BY <2>1
<1>2. TotalDuration \in Nat /\ TimeStamp(i) \in Nat /\ TimeStamp(j) \in Nat
  BY TotalType, StampType
<1>3. TimeStamp(i) - TimeStamp(j) < TotalDuration
  BY Span
<1>4. q * TotalDuration = p * TotalDuration + TotalDuration + d * TotalDuration
  BY <1>1, <1>2, SMT
<1>5. p * TotalDuration \in Nat /\ d * TotalDuration \in Nat
  BY <1>2, SMT
<1> QED BY <1>2, <1>3, <1>4, <1>5

\* Within a replay.
LEMMA NextFollows ==
  ASSUME encoded \in Encodings, ~Reordered, NEW i \in Nat, i + 1 \in 0 .. NumFrames - 1,
         NEW offset \in Nat
  PROVE  Follows(TimeStamp(i) + offset, TimeStamp(i + 1) + offset)
<1>1. TimeStamp(i + 1) - TimeStamp(i) \in {FrameDuration, FrameDuration + 1}
  BY NextStamp, Numbers, SMT DEF TimeStamp, Presented
<1>2. TimeStamp(i) \in Nat /\ TimeStamp(i + 1) \in Nat
  <2>1. i \in 0 .. NumFrames - 1
    BY Numbers
  <2> QED BY <2>1, StampType
<1> QED BY <1>1, <1>2, Numbers, SMT DEF Follows

\* From one replay to the next.
LEMMA ReplayFollows ==
  ASSUME encoded \in Encodings, ~Reordered, NEW loop \in Nat
  PROVE  Follows(TimeStamp(NumFrames - 1) + loop * TotalDuration,
                 TimeStamp(0) + (loop + 1) * TotalDuration)
<1> DEFINE n == NumFrames - 1
           gap == TimeStamp(0) + TotalDuration - TimeStamp(n)
<1>1. n \in Nat /\ NumFrames = n + 1
  BY Numbers, SMT
<1>2. TimeStamp(n) \in Nat /\ TimeStamp(0) \in Nat /\ TotalDuration \in Nat
  BY <1>1, StampType, TotalType, SMT
<1>3. (loop + 1) * TotalDuration = loop * TotalDuration + TotalDuration
  BY <1>2, SMT
<1>4. NumFrames * FrameDuration = n * FrameDuration + FrameDuration
  BY <1>1, Numbers, SMT
<1>5. /\ n \div 3 \in Nat /\ NumFrames \div 3 \in Nat
      /\ n \div 3 <= NumFrames \div 3 /\ n * FrameDuration \in Nat
  BY <1>1, Numbers, SMT
<1>6. /\ n * FrameDuration <= TimeStamp(n) - TimeStamp(0)
      /\ TimeStamp(n) - TimeStamp(0) <= n * FrameDuration + n \div 3
  <2>1. /\ n * FrameDuration <= SampleStart(n) - SampleStart(0)
        /\ SampleStart(n) - SampleStart(0) <= n * FrameDuration + n \div 3
    BY <1>1, Drift, SMT
  <2>2. 0 * FrameDuration = 0
    BY Numbers, SMT
  <2> HIDE DEF n
  <2>3. /\ TimeStamp(n) = IF encoded.stamped THEN SampleStart(n) ELSE n * FrameDuration
        /\ TimeStamp(0) = IF encoded.stamped THEN SampleStart(0) ELSE 0
    BY <2>2, SMT DEF TimeStamp, Presented
  <2> QED BY <1>5, <2>1, <2>3, SMT
<1>7. /\ NumFrames * FrameDuration <= TotalDuration
      /\ TotalDuration <= NumFrames * FrameDuration + NumFrames \div 3
  <2>1. /\ NumFrames * FrameDuration <= SampleStart(NumFrames) - SampleStart(0)
        /\ SampleStart(NumFrames) - SampleStart(0)
             <= NumFrames * FrameDuration + NumFrames \div 3
    <3>1. NumFrames \in Nat
      BY Numbers, SMT
    <3> QED BY <3>1, Drift, SMT
  <2> QED BY <1>1, <1>4, <1>5, <2>1, TotalIs, Numbers, SMT
<1>8. /\ FrameDuration - NumFrames \div 3 <= gap
      /\ gap <= FrameDuration + 1 + NumFrames \div 3
  BY <1>2, <1>4, <1>5, <1>6, <1>7, Numbers, SMT
<1>9. loop * TotalDuration \in Nat
  BY <1>2, SMT
<1> QED BY <1>2, <1>3, <1>8, <1>9, Numbers, SMT DEF Follows

-----------------------------------------------------------------------------
(***************************************************************************)
(* The inductive invariant.                                                *)
(***************************************************************************)

Messages == {"STATE_CHANGED", "EOS", "RESET_TIME", "INSTANT_RATE_REQUEST"}

\* appsrc, the sink and the messages it posts.
Sources == [queue : Nat \cup {None}, eos : BOOLEAN]

Sinks ==
  [started : BOOLEAN, client : BOOLEAN, collection : BOOLEAN, attached : BOOLEAN,
   playing : BOOLEAN, flushing : BOOLEAN, segment : BOOLEAN, forwarded : BOOLEAN,
   ended : BOOLEAN, drained : BOOLEAN]

\* The types of the variables.
TypeInv ==
  /\ case \in DOMAIN Suite
  /\ pc \in 1 .. CaseLength(case) + 1
  /\ failed \in BOOLEAN
  /\ encoded \in Encodings
  /\ feed \in [nextFrame : 0 .. NumFrames, loopCount : Nat, eosSignalled : BOOLEAN]
  /\ src \in Sources
  /\ thread \in {"idle", "running", "inNeedData", "paused"}
  /\ sink \in Sinks
  /\ bus \in Seq(Messages)
  /\ taken \in Seq(Nat)

\* Nothing flows before the state change of step 3, which starts the thread once.
StartInv ==
  pc <= 3 => /\ thread = "idle" /\ src.queue = None /\ ~src.eos /\ taken = << >>
             /\ feed.nextFrame = 0 /\ feed.loopCount = 0
             /\ ~sink.started /\ ~sink.client

\* What is queued is the frame pushed last; with nothing queued, and more to come, the
\* sink took that frame last.
QueueInv ==
  /\ src.queue # None =>
       /\ feed.nextFrame > 0 /\ src.queue = LastPushed
       /\ Len(taken) = feed.loopCount * NumFrames + feed.nextFrame - 1
       /\ taken # << >> /\ ~Reordered => Follows(taken[Len(taken)], src.queue)
  /\ thread = "inNeedData" => src.queue = None
  /\ src.queue = None /\ ~src.eos /\ thread \in {"running", "inNeedData"} =>
       /\ Len(taken) = feed.loopCount * NumFrames + feed.nextFrame
       /\ taken # << >> => feed.nextFrame > 0 /\ taken[Len(taken)] = LastPushed

\* What the sink has taken is the stream, again and again; in order, if the stream is.
IsFrame(k, stamp) ==
  \E loop \in Nat, i \in 0 .. NumFrames - 1 :
    /\ k = loop * NumFrames + i + 1
    /\ stamp = TimeStamp(i) + loop * TotalDuration

OrderInv ==
  /\ \A k \in 1 .. Len(taken) : IsFrame(k, taken[k])
  /\ ~Reordered => \A k \in 1 .. Len(taken) - 1 : Follows(taken[k], taken[k + 1])

\* The thread runs until the stream ends or a flush stops it.
ThreadInv ==
  /\ pc \in 4 .. CaseLength(case) /\ ~failed => thread # "idle" /\ sink.started
  /\ thread = "paused" => sink.ended \/ (case = "FlushHonoursResetTime" /\ pc > 6)
  /\ sink.ended => src.eos
  /\ src.eos => case = "EosEventReachesEndOfStream" /\ pc > 6
  /\ sink.flushing => case = "FlushHonoursResetTime" /\ pc > 6

\* What the sink has done, it could do.
SinkInv ==
  /\ sink.client => fault # Silences("client")
  /\ sink.attached => fault # Ignores("caps")
  /\ taken # << >> /\ fault # Ignores("caps") => sink.attached
  /\ sink.playing => sink.attached /\ fault # Silences("playing")
  /\ sink.drained => sink.ended

\* A message is on the bus, to be read.
InBus(message) == \E k \in DOMAIN bus : bus[k] = message

\* A sink that never posts a message has not; a conforming one has posted it where the case
\* looks for it.
BusInv ==
  /\ \A message \in {"EOS", "RESET_TIME", "INSTANT_RATE_REQUEST"} :
       fault = Silences(message) => ~InBus(message)
  /\ fault = Conforming /\ sink.drained /\ pc = 7 => InBus("EOS")
  /\ fault = Conforming /\ case = "FlushHonoursResetTime" /\ pc = 8 => InBus("RESET_TIME")
  /\ fault = Conforming /\ case = "InstantRateChangeSeekPostsRateRequest" /\ pc = 7 =>
       InBus("INSTANT_RATE_REQUEST")

\* What the sink has passed on to the server or upstream.
ServerInv ==
  /\ fault = Ignores("segment") => ~sink.segment
  /\ fault = Silences("forward") => ~sink.forwarded
  /\ fault = Conforming /\ case = "SegmentEventAppliedToServerSource" /\ pc = 7 => sink.segment
  /\ fault = Conforming /\ case = "UnknownUpstreamEventForwardedUpstream" /\ pc = 7 =>
       sink.forwarded
  /\ fault = Conforming /\ case = "EosEventReachesEndOfStream" /\ pc > 6 => src.eos

\* What the steps behind have shown, unless one of them has failed.
PassedInv ==
  ~failed =>
    /\ pc > 1 => fault # Refuses("synthesise")
    /\ pc > 2 => fault # Refuses("construct")
    /\ pc > 3 => fault # Refuses("setState")
    /\ pc > 4 => sink.client /\ sink.collection
    /\ pc > 5 => sink.playing
    /\ case = "CapsAttachesSourceReachingPlaying" /\ pc > 6 => fault # Misanswers("position")
    /\ case = "StreamCollectionTriggersAllSourcesAttached" /\ pc > 6 =>
         fault # Refuses("reportStreamCollection")
    /\ case = "SegmentEventAppliedToServerSource" /\ pc > 6 => fault # Refuses("sendSegment")
    /\ case = "SegmentEventAppliedToServerSource" /\ pc > 7 => fault # Ignores("segment")
    /\ case = "EosEventReachesEndOfStream" /\ pc > 7 => fault # Silences("EOS")
    /\ case = "FlushHonoursResetTime" /\ pc > 8 => fault # Silences("RESET_TIME")
    /\ case = "InstantRateChangeSeekPostsRateRequest" /\ pc > 7 =>
         fault # Silences("INSTANT_RATE_REQUEST")
    /\ case = "UnknownUpstreamEventForwardedUpstream" /\ pc > 7 => fault # Silences("forward")

\* The invariant.
IInv == /\ TypeInv /\ StartInv /\ QueueInv /\ OrderInv /\ ThreadInv /\ SinkInv
        /\ BusInv /\ ServerInv /\ PassedInv /\ ConformingSinkPasses

-----------------------------------------------------------------------------
(***************************************************************************)
(* What every step shares.                                                 *)
(***************************************************************************)

\* A set of natural numbers that is not empty has a least one.
LEMMA Least ==
  ASSUME NEW S \in SUBSET Nat, S # {}
  PROVE  \E k \in S : \A j \in S : k <= j
<1>1. PICK k \in S : \A j \in S : <<j, k>> \notin OpToRel(<, Nat)
  BY NatLessThanWellFounded, WFMin
<1>2. \A j \in S : k <= j
  <2> SUFFICES ASSUME NEW j \in S, j < k PROVE FALSE
    OBVIOUS
  <2>1. <<j, k>> \in OpToRel(<, Nat)
    BY DEF OpToRel
  <2> QED BY <1>1, <2>1
<1> QED BY <1>2

\* After a fatal failure a case goes on further down its script, or is over.
LEMMA AftermathIsLater ==
  ASSUME NEW script, NEW n \in Nat, n = Len(script), pc \in 1 .. n
  PROVE  Aftermath(script) \in pc + 1 .. n + 1
<1> DEFINE ends == {k \in pc + 1 .. n : script[k].must = "always"} \cup {n + 1}
<1>1. ends \subseteq pc + 1 .. n + 1 /\ ends \in SUBSET Nat /\ ends # {}
  OBVIOUS
<1>2. Aftermath(script) = CHOOSE k \in ends : \A j \in ends : k <= j
  BY Zenon DEF Aftermath
<1> HIDE DEF ends
<1>3. \E k \in ends : \A j \in ends : k <= j
  BY <1>1, Least
<1>4. Aftermath(script) \in ends
  BY <1>2, <1>3, Zenon
<1> QED BY <1>1, <1>4

\* How long a script is.
LEMMA LengthType ==
  ASSUME NEW c \in DOMAIN Suite
  PROVE  CaseLength(c) \in 6 .. 9 /\ CaseLength(c) = Len(Suite[c].script)
BY ScriptPlaces DEF CaseLength

\* The step a case that is not over is at.
LEMMA AtStep ==
  ASSUME TypeInv, ~Finished
  PROVE  /\ pc \in 1 .. CaseLength(case)
         /\ Places(case, CaseLength(case), pc, Now)
         /\ Manner(pc, Now)
<1>1. case \in DOMAIN Suite /\ pc \in 1 .. CaseLength(case) + 1
  BY DEF TypeInv
<1>2. CaseLength(case) \in 6 .. 9 /\ CaseLength(case) = Len(Script)
  BY <1>1, LengthType DEF Script
<1>3. pc \in 1 .. CaseLength(case)
  BY <1>1, <1>2 DEF Finished, Over
<1> QED BY <1>1, <1>3, ScriptPlaces DEF Now, Script

\* What judging its result does to the case.
LEMMA Judged ==
  ASSUME TypeInv, ~Finished, NEW ok \in BOOLEAN, Judge(Script, ok)
  PROVE  /\ case' = case
         /\ failed' \in BOOLEAN
         /\ pc' \in pc + 1 .. CaseLength(case) + 1
         /\ ~failed' => ~failed /\ pc' = pc + 1
         /\ ~failed' /\ Now.must \in {"hold", "abort"} => ok
         /\ ok => failed' = failed /\ pc' = pc + 1
         /\ pc > 5 => pc' = pc + 1
<1>1. PICK n \in Nat : n = CaseLength(case) /\ n = Len(Script)
  BY LengthType DEF TypeInv, Script
<1>2. pc \in 1 .. n /\ (Now.must = "abort" => pc \in 1 .. 5)
  BY <1>1, AtStep DEF Manner
<1>3. Aftermath(Script) \in pc + 1 .. n + 1
  BY <1>1, <1>2, AftermathIsLater
<1>4. /\ failed' = (failed \/ (~ok /\ Now.must \in {"hold", "abort"}))
      /\ pc' = IF ~ok /\ Now.must = "abort" THEN Aftermath(Script) ELSE pc + 1
      /\ case' = case
  BY DEF Judge, Now
<1>5. failed \in BOOLEAN
  BY DEF TypeInv
<1>6. pc \in Nat /\ n \in Nat /\ pc' \in pc + 1 .. n + 1
  BY <1>2, <1>3, <1>4
<1>7. failed' \in BOOLEAN /\ (~failed' => ~failed)
  BY <1>4, <1>5
<1>8. pc > 5 => Now.must # "abort"
  BY <1>2
<1>9. ~failed' => pc' = pc + 1
  BY <1>4, <1>5
<1>10. pc > 5 => pc' = pc + 1
  BY <1>4, <1>8
<1> QED BY <1>1, <1>4, <1>5, <1>6, <1>7, <1>9, <1>10

\* The stream is what it is for as long as the case and the encoder are.
LEMMA FeedKept ==
  ASSUME case' = case, encoded' = encoded
  PROVE  /\ FrameDuration' = FrameDuration
         /\ TotalDuration' = TotalDuration
         /\ \A i : TimeStamp(i)' = TimeStamp(i)
         /\ Reordered' = Reordered
<1>1. FrameDuration' = FrameDuration
  BY SMT DEF FrameDuration, Thirds, Video
<1>2. \A i : SampleStart(i)' = SampleStart(i)
  BY SMT DEF SampleStart, Thirds, Video
<1>6. Reordered' = Reordered
  BY Zenon DEF Reordered, Video
<1>3. \A i : Duration(i)' = Duration(i) /\ TimeStamp(i)' = TimeStamp(i)
  <2>1. Thirds' = Thirds
    BY SMT DEF Thirds, Video
  <2> QED BY <1>1, <1>6, <2>1, SMT DEF Duration, TimeStamp, SampleStart, Presented
<1>4. [i \in 0 .. NumFrames - 1 |-> Duration(i)]' = [i \in 0 .. NumFrames - 1 |-> Duration(i)]
  BY <1>3, SMT
<1>5. TotalDuration' = TotalDuration
  BY <1>4, Zenon DEF TotalDuration
<1> QED BY <1>1, <1>3, <1>5, <1>6

\* A step in which the sink takes nothing.
LEMMA OrderKept ==
  ASSUME OrderInv, case' = case, encoded' = encoded, taken' = taken
  PROVE  OrderInv'
<1>1. FrameDuration' = FrameDuration /\ Reordered' = Reordered
  BY FeedKept
<1>2. \A k, stamp : IsFrame(k, stamp)' <=> IsFrame(k, stamp)
  BY FeedKept, Zenon DEF IsFrame
<1>3. \A a, b : Follows(a, b)' <=> Follows(a, b)
  BY <1>1 DEF Follows
<1> QED BY <1>1, <1>2, <1>3, Zenon DEF OrderInv

\* A step that leaves the frames where they are.
LEMMA FramesKept ==
  ASSUME TypeInv, QueueInv, OrderInv, case' = case, encoded' = encoded, taken' = taken,
         feed'.nextFrame = feed.nextFrame, feed'.loopCount = feed.loopCount,
         src'.queue = src.queue, src.eos => src'.eos,
         thread' = "inNeedData" => thread = "inNeedData" \/ src.queue = None,
         thread' \in {"running", "inNeedData"} =>
           \/ thread \in {"running", "inNeedData"}
           \/ taken = << >> /\ feed.nextFrame = 0 /\ feed.loopCount = 0
  PROVE  QueueInv' /\ OrderInv'
<1>1. FrameDuration' = FrameDuration /\ LastPushed' = LastPushed /\ Reordered' = Reordered
  BY FeedKept, SMT DEF LastPushed
<1>2. QueueInv'
  <2>1. feed.loopCount = 0 => feed.loopCount * NumFrames = 0
    BY Numbers, SMT
  <2>2. taken = << >> => Len(taken) = 0
    OBVIOUS
  <2> QED BY <1>1, <2>1, <2>2, SMT DEF QueueInv, Follows
<1>3. OrderInv'
  BY OrderKept
<1> QED BY <1>2, <1>3

\* Faults of two kinds, or in two things, are two faults.
LEMMA FaultsDiffer ==
  \A x, y :
    /\ Refuses(x) # Silences(y) /\ Refuses(x) # Ignores(y) /\ Refuses(x) # Misanswers(y)
    /\ Silences(x) # Ignores(y) /\ Silences(x) # Misanswers(y) /\ Ignores(x) # Misanswers(y)
    /\ Refuses(x) = Refuses(y) <=> x = y
    /\ Silences(x) = Silences(y) <=> x = y
    /\ Ignores(x) = Ignores(y) <=> x = y
    /\ Misanswers(x) = Misanswers(y) <=> x = y
    /\ Conforming # Refuses(x) /\ Conforming # Silences(x)
    /\ Conforming # Ignores(x) /\ Conforming # Misanswers(x)
BY DEF Refuses, Silences, Ignores, Misanswers, Conforming, Fault

\* Setting a flag of the sink.
LEMMA SinkTypes ==
  ASSUME NEW s \in Sinks, NEW b \in BOOLEAN
  PROVE  /\ [s EXCEPT !.started = b] \in Sinks
         /\ [s EXCEPT !.client = b] \in Sinks
         /\ [s EXCEPT !.collection = b] \in Sinks
         /\ [s EXCEPT !.attached = b] \in Sinks
         /\ [s EXCEPT !.playing = b] \in Sinks
         /\ [s EXCEPT !.flushing = b] \in Sinks
         /\ [s EXCEPT !.segment = b] \in Sinks
         /\ [s EXCEPT !.forwarded = b] \in Sinks
         /\ [s EXCEPT !.ended = b] \in Sinks
         /\ [s EXCEPT !.drained = b] \in Sinks
BY SMT DEF Sinks

\* A step that leaves the bus alone.
LEMMA BusKept ==
  ASSUME bus' = bus
  PROVE  \A message : InBus(message)' <=> InBus(message)
BY DEF InBus

\* Setting a member of appsrc.
LEMMA SourceTypes ==
  ASSUME NEW s \in Sources, NEW b \in BOOLEAN, NEW q \in Nat \cup {None}
  PROVE  [s EXCEPT !.eos = b] \in Sources /\ [s EXCEPT !.queue = q] \in Sources
<1> DEFINE queues == Nat \cup {None}
<1>1. s \in [queue : queues, eos : BOOLEAN] /\ q \in queues
  BY DEF Sources
<1> HIDE DEF queues
<1>2. /\ [s EXCEPT !.eos = b] \in [queue : queues, eos : BOOLEAN]
      /\ [s EXCEPT !.queue = q] \in [queue : queues, eos : BOOLEAN]
  BY <1>1
<1> QED BY <1>2 DEF queues, Sources

-----------------------------------------------------------------------------
(***************************************************************************)
(* Each step keeps the invariant.                                          *)
(***************************************************************************)

\* Nothing changes what the case looks at.
LEMMA Stutters ==
  ASSUME IInv, UNCHANGED sinkVars
  PROVE  IInv'
<1> USE DEF sinkVars, scriptVars
<1>1. TypeInv' /\ StartInv'
  BY SMT DEF IInv, TypeInv, StartInv
<1>2. QueueInv' /\ OrderInv'
  BY FramesKept, SMT DEF IInv
<1>3. ThreadInv' /\ SinkInv' /\ ServerInv' /\ PassedInv' /\ ConformingSinkPasses'
  BY SMT DEF IInv, ThreadInv, SinkInv, ServerInv, PassedInv, ConformingSinkPasses
<1>4. BusInv'
  BY SMT DEF IInv, BusInv, InBus
<1> QED BY <1>1, <1>2, <1>3, <1>4 DEF IInv

\* The flag alone changes nothing but what need-data may see.
LEMMA SetEosSignalledKeeps ==
  ASSUME IInv, SetEosSignalled
  PROVE  IInv'
<1> USE DEF SetEosSignalled, scriptVars
<1>1. TypeInv'
  <2>1. feed \in [nextFrame : 0 .. NumFrames, loopCount : Nat, eosSignalled : BOOLEAN]
    BY DEF IInv, TypeInv
  <2>2. feed' \in [nextFrame : 0 .. NumFrames, loopCount : Nat, eosSignalled : BOOLEAN]
    <3> DEFINE range == 0 .. NumFrames
    <3> HIDE DEF range
    <3> SUFFICES ASSUME feed \in [nextFrame : range, loopCount : Nat, eosSignalled : BOOLEAN]
                 PROVE  feed' \in [nextFrame : range, loopCount : Nat, eosSignalled : BOOLEAN]
      BY <2>1 DEF range
    <3> QED BY ONLY feed \in [nextFrame : range, loopCount : Nat, eosSignalled : BOOLEAN],
                     feed' = [feed EXCEPT !.eosSignalled = TRUE]
  <2> QED BY <2>2, SMT DEF IInv, TypeInv
<1>2. StartInv'
  BY SMT DEF IInv, StartInv
<1>3. QueueInv' /\ OrderInv'
  BY FramesKept, SMT DEF IInv, TypeInv
<1>4. ThreadInv' /\ SinkInv' /\ ServerInv' /\ PassedInv' /\ ConformingSinkPasses'
  BY SMT DEF IInv, ThreadInv, SinkInv, ServerInv, PassedInv, ConformingSinkPasses
<1>5. BusInv'
  BY SMT DEF IInv, BusInv, InBus
<1> QED BY <1>1, <1>2, <1>3, <1>4, <1>5 DEF IInv

\* A call that is refused.
LEMMA RefusedKeeps ==
  ASSUME IInv, ~Finished, CallStep, fault = Refuses(Now.what)
  PROVE  IInv'
<1> USE DEF IInv
<1>1. /\ Judge(Script, FALSE) /\ Now.do = "call"
      /\ UNCHANGED <<fault, encoded, feed, thread, src, sink, bus, taken>>
  BY DEF CallStep
<1>2. PICK n \in Nat : n = CaseLength(case)
  BY LengthType DEF TypeInv
<1>3. /\ case' = case /\ failed' \in BOOLEAN /\ pc' \in pc + 1 .. n + 1 /\ pc \in 1 .. n
      /\ ~failed' => ~failed /\ pc' = pc + 1 /\ Now.must \notin {"hold", "abort"}
      /\ pc > 5 => pc' = pc + 1
  BY <1>1, <1>2, Judged, AtStep
<1>4. TypeInv'
  BY <1>1, <1>2, <1>3, SMT DEF TypeInv
<1>5. StartInv'
  BY <1>1, <1>3, SMT DEF StartInv
<1>6. QueueInv' /\ OrderInv'
  BY <1>1, <1>3, FramesKept, SMT
<1>7. Places(case, n, pc, Now) /\ Manner(pc, Now)
  BY <1>2, AtStep
<1>8. ~failed' => /\ ~failed /\ pc > 5 /\ pc' = pc + 1
                 /\ Now.what \notin {"reportStreamCollection", "sendSegment"}
  BY <1>1, <1>3, <1>7, SMT DEF Manner
<1>9. ThreadInv' /\ SinkInv'
  BY <1>1, <1>2, <1>3, <1>8, SMT DEF ThreadInv, SinkInv
<1>10. BusInv' /\ ServerInv'
  <2>1. \A message : InBus(message)' <=> InBus(message)
    BY <1>1 DEF InBus
  <2>2. BusInv'
    BY <1>1, <1>3, <1>7, <1>8, <2>1, FaultsDiffer, SMT DEF BusInv, Places, ThreadInv, SinkInv
  <2>3. ServerInv'
    BY <1>1, <1>3, <1>7, <1>8, FaultsDiffer, SMT DEF ServerInv, Places
  <2> QED BY <2>2, <2>3
<1>11. PassedInv' /\ ConformingSinkPasses'
  BY <1>1, <1>3, <1>7, <1>8, FaultsDiffer, SMT DEF PassedInv, ConformingSinkPasses, Places
<1> QED BY <1>4, <1>5, <1>6, <1>9, <1>10, <1>11

\* A call that is not refused.
LEMMA Performed ==
  ASSUME IInv, ~Finished, CallStep, fault # Refuses(Now.what)
  PROVE  /\ Perform(Now.what)
         /\ UNCHANGED <<case, fault, failed, encoded, feed, taken>>
         /\ pc \in 1 .. CaseLength(case) /\ pc' = pc + 1 /\ CaseLength(case) \in 6 .. 9
         /\ Places(case, CaseLength(case), pc, Now)
         /\ Manner(pc, Now) /\ Now.do = "call"
<1>1. /\ Judge(Script, TRUE) /\ Perform(Now.what) /\ Now.do = "call"
      /\ UNCHANGED <<fault, encoded, feed, taken>>
  BY Zenon DEF CallStep
<1>2. case' = case /\ failed' = failed /\ pc' = pc + 1
  BY <1>1, Judged DEF IInv
<1> QED BY <1>1, <1>2, AtStep, LengthType DEF IInv, TypeInv

\* The calls that change nothing here.
LEMMA SetUpKeeps ==
  ASSUME IInv, ~Finished, CallStep, fault # Refuses(Now.what),
         Now.what \in {"synthesise", "construct", "reportStreamCollection"}
  PROVE  IInv'
<1> USE DEF IInv
<1>1. PICK n \in Nat : n = CaseLength(case)
  BY LengthType DEF TypeInv
<1>2. /\ UNCHANGED <<case, fault, failed, encoded, feed, taken, thread, src, sink, bus>>
      /\ pc \in 1 .. n /\ pc' = pc + 1 /\ n \in 6 .. 9 /\ Places(case, n, pc, Now)
  BY <1>1, Performed, SMT DEF Perform
<1>3. pc \in {1, 2} \/ (pc = 6 /\ case = "StreamCollectionTriggersAllSourcesAttached")
  BY <1>2 DEF Places
<1>4. TypeInv' /\ StartInv'
  BY <1>1, <1>2, <1>3, SMT DEF TypeInv, StartInv
<1>5. QueueInv' /\ OrderInv'
  BY <1>2, FramesKept, SMT DEF QueueInv
<1>6. ThreadInv' /\ SinkInv' /\ ServerInv'
  BY <1>1, <1>2, <1>3, SMT DEF ThreadInv, SinkInv, ServerInv
<1>7. BusInv'
  BY <1>2, <1>3, BusKept, SMT DEF BusInv, ThreadInv, SinkInv
<1>8. PassedInv' /\ ConformingSinkPasses'
  BY <1>2, <1>3, SMT DEF PassedInv, ConformingSinkPasses, Places
<1> QED BY <1>4, <1>5, <1>6, <1>7, <1>8

\* The state change starts the sink and the streaming thread.
LEMMA SetStateKeeps ==
  ASSUME IInv, ~Finished, CallStep, fault # Refuses(Now.what), Now.what = "setState"
  PROVE  IInv'
<1> USE DEF IInv
<1>1. PICK n \in Nat : n = CaseLength(case)
  BY LengthType DEF TypeInv
<1>2. /\ UNCHANGED <<case, fault, failed, encoded, feed, taken, src, bus>>
      /\ thread' = "running" /\ sink' = [sink EXCEPT !.started = TRUE]
      /\ pc = 3 /\ pc' = 4 /\ n \in 6 .. 9
  BY <1>1, Performed, SMT DEF Perform, Places
<1>3. TypeInv' /\ StartInv'
  <2>1. sink' \in Sinks
    BY <1>2, SinkTypes DEF TypeInv
  <2>2. src' \in Sources
    BY <1>2, SourceTypes DEF TypeInv
  <2> QED BY <1>1, <1>2, <2>1, <2>2, SMT DEF TypeInv, StartInv
<1>4. QueueInv' /\ OrderInv'
  BY <1>2, FramesKept, SMT DEF StartInv
<1>5. ThreadInv' /\ SinkInv' /\ ServerInv'
  <2>1. ThreadInv'
    BY <1>1, <1>2, SMT DEF TypeInv, Sinks, ThreadInv
  <2>2. SinkInv'
    BY <1>1, <1>2, SMT DEF TypeInv, Sinks, SinkInv
  <2>3. ServerInv'
    BY <1>1, <1>2, SMT DEF TypeInv, Sinks, ServerInv
  <2> QED BY <2>1, <2>2, <2>3
<1>6. BusInv'
  BY <1>2, BusKept, SMT DEF BusInv, ThreadInv, SinkInv
<1>7. PassedInv' /\ ConformingSinkPasses'
  BY <1>2, SMT DEF PassedInv, ConformingSinkPasses
<1> QED BY <1>3, <1>4, <1>5, <1>6, <1>7

\* The segment event; ServerInv ties it to the query after it.
LEMMA SendSegmentKeeps ==
  ASSUME IInv, ~Finished, CallStep, fault # Refuses(Now.what), Now.what = "sendSegment"
  PROVE  IInv'
<1> USE DEF IInv
<1>1. PICK n \in Nat : n = CaseLength(case)
  BY LengthType DEF TypeInv
<1>2. /\ UNCHANGED <<case, fault, failed, encoded, feed, taken, src, bus, thread>>
      /\ sink' = [sink EXCEPT !.segment = (fault # Ignores("segment"))]
      /\ pc = 6 /\ pc' = 7 /\ n \in 6 .. 9 /\ case = "SegmentEventAppliedToServerSource"
  BY <1>1, Performed, SMT DEF Perform, Places
<1>3. TypeInv' /\ StartInv'
  <2>1. sink' \in Sinks
    BY <1>2, SinkTypes DEF TypeInv
  <2>2. src' \in Sources
    BY <1>2, SourceTypes DEF TypeInv
  <2> QED BY <1>1, <1>2, <2>1, <2>2, SMT DEF TypeInv, StartInv
<1>4. QueueInv' /\ OrderInv'
  BY <1>2, FramesKept, SMT DEF QueueInv
<1>5. ThreadInv' /\ SinkInv' /\ ServerInv'
  <2>1. ThreadInv'
    BY <1>1, <1>2, FaultsDiffer, SMT DEF TypeInv, Sinks, ThreadInv
  <2>2. SinkInv'
    BY <1>1, <1>2, FaultsDiffer, SMT DEF TypeInv, Sinks, SinkInv
  <2>3. ServerInv'
    <3>1. sink'.segment <=> fault # Ignores("segment")
      BY <1>2 DEF TypeInv, Sinks
    <3>2. sink'.forwarded <=> sink.forwarded
      BY <1>2 DEF TypeInv, Sinks
    <3> QED BY <1>2, <3>1, <3>2, FaultsDiffer, SMT DEF ServerInv
  <2> QED BY <2>1, <2>2, <2>3
<1>6. BusInv'
  BY <1>2, BusKept, SMT DEF BusInv, ThreadInv, SinkInv
<1>7. PassedInv' /\ ConformingSinkPasses'
  BY <1>2, SMT DEF PassedInv, ConformingSinkPasses
<1> QED BY <1>3, <1>4, <1>5, <1>6, <1>7

\* The upstream event; ServerInv ties it to the probe after it.
LEMMA SendUpstreamKeeps ==
  ASSUME IInv, ~Finished, CallStep, fault # Refuses(Now.what), Now.what = "sendUpstream"
  PROVE  IInv'
<1> USE DEF IInv
<1>1. PICK n \in Nat : n = CaseLength(case)
  BY LengthType DEF TypeInv
<1>2. /\ UNCHANGED <<case, fault, failed, encoded, feed, taken, src, bus, thread>>
      /\ sink' = [sink EXCEPT !.forwarded = (fault # Silences("forward"))]
      /\ pc = 6 /\ pc' = 7 /\ n \in 6 .. 9 /\ case = "UnknownUpstreamEventForwardedUpstream"
  BY <1>1, Performed, SMT DEF Perform, Places
<1>3. TypeInv' /\ StartInv'
  <2>1. sink' \in Sinks
    BY <1>2, SinkTypes DEF TypeInv
  <2>2. src' \in Sources
    BY <1>2, SourceTypes DEF TypeInv
  <2> QED BY <1>1, <1>2, <2>1, <2>2, SMT DEF TypeInv, StartInv
<1>4. QueueInv' /\ OrderInv'
  BY <1>2, FramesKept, SMT DEF QueueInv
<1>5. ThreadInv' /\ SinkInv' /\ ServerInv'
  <2>1. ThreadInv'
    BY <1>1, <1>2, FaultsDiffer, SMT DEF TypeInv, Sinks, ThreadInv
  <2>2. SinkInv'
    BY <1>1, <1>2, FaultsDiffer, SMT DEF TypeInv, Sinks, SinkInv
  <2>3. ServerInv'
    <3>1. sink'.forwarded <=> fault # Silences("forward")
      BY <1>2 DEF TypeInv, Sinks
    <3>2. sink'.segment <=> sink.segment
      BY <1>2 DEF TypeInv, Sinks
    <3> QED BY <1>2, <3>1, <3>2, FaultsDiffer, SMT DEF ServerInv
  <2> QED BY <2>1, <2>2, <2>3
<1>6. BusInv'
  BY <1>2, BusKept, SMT DEF BusInv, ThreadInv, SinkInv
<1>7. PassedInv' /\ ConformingSinkPasses'
  BY <1>2, SMT DEF PassedInv, ConformingSinkPasses
<1> QED BY <1>3, <1>4, <1>5, <1>6, <1>7

\* End of stream reaches appsrc.
LEMMA EndOfStreamKeeps ==
  ASSUME IInv, ~Finished, CallStep, fault # Refuses(Now.what), Now.what = "endOfStream"
  PROVE  IInv'
<1> USE DEF IInv
<1>1. PICK n \in Nat : n = CaseLength(case)
  BY LengthType DEF TypeInv
<1>2. /\ UNCHANGED <<case, fault, failed, encoded, feed, taken, sink, bus, thread>>
      /\ src' = [src EXCEPT !.eos = TRUE]
      /\ pc = 6 /\ pc' = 7 /\ n \in 6 .. 9 /\ case = "EosEventReachesEndOfStream"
  BY <1>1, Performed, SMT DEF Perform, Places
<1>3. TypeInv' /\ StartInv'
  <2>1. sink' \in Sinks
    BY <1>2, SinkTypes DEF TypeInv
  <2>2. src' \in Sources
    BY <1>2, SourceTypes DEF TypeInv
  <2> QED BY <1>1, <1>2, <2>1, <2>2, SMT DEF TypeInv, StartInv
<1>4. QueueInv' /\ OrderInv'
  BY <1>2, FramesKept, SMT DEF QueueInv, TypeInv
<1>5. ThreadInv' /\ SinkInv' /\ ServerInv'
  <2>1. ThreadInv'
    BY <1>1, <1>2, FaultsDiffer, SMT DEF TypeInv, Sinks, ThreadInv
  <2>2. SinkInv'
    BY <1>1, <1>2, FaultsDiffer, SMT DEF TypeInv, Sinks, SinkInv
  <2>3. ServerInv'
    BY <1>1, <1>2, FaultsDiffer, SMT DEF TypeInv, Sinks, ServerInv
  <2> QED BY <2>1, <2>2, <2>3
<1>6. BusInv'
  BY <1>2, BusKept, SMT DEF BusInv, ThreadInv, SinkInv
<1>7. PassedInv' /\ ConformingSinkPasses'
  BY <1>2, SMT DEF PassedInv, ConformingSinkPasses
<1> QED BY <1>3, <1>4, <1>5, <1>6, <1>7

\* A flush, in the one case that has it.
LEMMA FlushStartKeeps ==
  ASSUME IInv, ~Finished, CallStep, fault # Refuses(Now.what), Now.what = "flushStart"
  PROVE  IInv'
<1> USE DEF IInv
<1>1. PICK n \in Nat : n = CaseLength(case)
  BY LengthType DEF TypeInv
<1>2. /\ UNCHANGED <<case, fault, failed, encoded, feed, taken, src, bus, thread>>
      /\ sink' = [sink EXCEPT !.flushing = TRUE]
      /\ pc = 6 /\ pc' = 7 /\ n \in 6 .. 9 /\ case = "FlushHonoursResetTime"
  BY <1>1, Performed, SMT DEF Perform, Places
<1>3. TypeInv' /\ StartInv'
  <2>1. sink' \in Sinks
    BY <1>2, SinkTypes DEF TypeInv
  <2>2. src' \in Sources
    BY <1>2, SourceTypes DEF TypeInv
  <2> QED BY <1>1, <1>2, <2>1, <2>2, SMT DEF TypeInv, StartInv
<1>4. QueueInv' /\ OrderInv'
  BY <1>2, FramesKept, SMT DEF QueueInv
<1>5. ThreadInv' /\ SinkInv' /\ ServerInv'
  <2>1. ThreadInv'
    BY <1>1, <1>2, FaultsDiffer, SMT DEF TypeInv, Sinks, ThreadInv
  <2>2. SinkInv'
    BY <1>1, <1>2, FaultsDiffer, SMT DEF TypeInv, Sinks, SinkInv
  <2>3. ServerInv'
    BY <1>1, <1>2, FaultsDiffer, SMT DEF TypeInv, Sinks, ServerInv
  <2> QED BY <2>1, <2>2, <2>3
<1>6. BusInv'
  BY <1>2, BusKept, SMT DEF BusInv, ThreadInv, SinkInv
<1>7. PassedInv' /\ ConformingSinkPasses'
  BY <1>2, SMT DEF PassedInv, ConformingSinkPasses
<1> QED BY <1>3, <1>4, <1>5, <1>6, <1>7

\* The last step joins the thread.
LEMMA DestroyKeeps ==
  ASSUME IInv, ~Finished, CallStep, fault # Refuses(Now.what), Now.what = "destroy"
  PROVE  IInv'
<1> USE DEF IInv
<1>1. PICK n \in Nat : n = CaseLength(case)
  BY LengthType DEF TypeInv
<1>2. /\ UNCHANGED <<case, fault, failed, encoded, feed, taken, src, sink, bus>>
      /\ thread' = "idle"
      /\ pc = n /\ pc' = n + 1 /\ n \in 6 .. 9
  BY <1>1, Performed, SMT DEF Perform, Places
<1>3. /\ n = 6 <=> case = "AvcCapsFieldsParsedReachingPlaying"
      /\ n = 7 <=> case \in {"CapsAttachesSourceReachingPlaying",
                             "StreamCollectionTriggersAllSourcesAttached"}
      /\ n = 9 <=> case = "FlushHonoursResetTime"
  BY <1>1, SMT DEF CaseLength
<1>4. TypeInv' /\ StartInv'
  <2>1. sink' \in Sinks
    BY <1>2, SinkTypes DEF TypeInv
  <2>2. src' \in Sources
    BY <1>2, SourceTypes DEF TypeInv
  <2> QED BY <1>1, <1>2, <2>1, <2>2, SMT DEF TypeInv, StartInv
<1>5. QueueInv' /\ OrderInv'
  BY <1>2, FramesKept, SMT DEF QueueInv
<1>6. ThreadInv' /\ SinkInv' /\ ServerInv'
  <2>1. ThreadInv'
    BY <1>1, <1>2, <1>3, SMT DEF TypeInv, Sinks, ThreadInv
  <2>2. SinkInv'
    BY <1>1, <1>2, <1>3, SMT DEF TypeInv, Sinks, SinkInv
  <2>3. ServerInv'
    BY <1>1, <1>2, <1>3, SMT DEF TypeInv, Sinks, ServerInv
  <2> QED BY <2>1, <2>2, <2>3
<1>7. BusInv' /\ PassedInv'
  <2>2. BusInv'
    BY <1>2, <1>3, BusKept, SMT DEF BusInv, ThreadInv, SinkInv
  <2>3. PassedInv'
    BY <1>2, <1>3, SMT DEF PassedInv
  <2> QED BY <2>2, <2>3
<1>8. ConformingSinkPasses'
  BY <1>2, SMT DEF ConformingSinkPasses
<1> QED BY <1>4, <1>5, <1>6, <1>7, <1>8

\* What posting a message leaves on the bus.
LEMMA Posted ==
  ASSUME TypeInv, NEW message \in Messages, Post(message)
  PROVE  /\ bus' \in Seq(Messages)
         /\ \A m : InBus(m) => InBus(m)'
         /\ fault # Silences(message) => InBus(message)'
         /\ \A m : InBus(m)' => InBus(m) \/ (m = message /\ fault # Silences(message))
<1>1. CASE fault = Silences(message)
  BY <1>1, BusKept DEF Post, TypeInv
<1>2. CASE fault # Silences(message)
  <2>1. bus' = Append(bus, message)
    BY <1>2 DEF Post
  <2>2. bus \in Seq(Messages) /\ message \in Messages
    BY DEF TypeInv
  <2> HIDE DEF Messages
  <2>3. /\ bus' \in Seq(Messages) /\ Len(bus') = Len(bus) + 1
        /\ \A k \in 1 .. Len(bus) : bus'[k] = bus[k]
        /\ bus'[Len(bus) + 1] = message
    BY <2>1, <2>2, AppendProperties
  <2>4. DOMAIN bus = 1 .. Len(bus) /\ DOMAIN bus' = 1 .. Len(bus) + 1 /\ Len(bus) \in Nat
    BY <2>2, <2>3
  <2>5. \A m : InBus(m)' <=> InBus(m) \/ m = message
    BY <2>3, <2>4 DEF InBus
  <2> QED BY <1>2, <2>3, <2>5
<1> QED BY <1>1, <1>2

\* The end of a flush posts its message, unless the sink never does.
LEMMA FlushStopKeeps ==
  ASSUME IInv, ~Finished, CallStep, fault # Refuses(Now.what), Now.what = "flushStop"
  PROVE  IInv'
<1> USE DEF IInv
<1>1. PICK n \in Nat : n = CaseLength(case)
  BY LengthType DEF TypeInv
<1>2. /\ UNCHANGED <<case, fault, failed, encoded, feed, taken, src, thread>>
      /\ sink' = [sink EXCEPT !.flushing = FALSE] /\ Post("RESET_TIME")
      /\ pc = 7 /\ pc' = 8 /\ n \in 7 .. 9 /\ case = "FlushHonoursResetTime"
  BY <1>1, Performed, SMT DEF Perform, Places
<1>3. TypeInv' /\ StartInv'
  <2>1. sink' \in Sinks
    BY <1>2, SinkTypes DEF TypeInv
  <2>2. bus' \in Seq(Messages)
    BY <1>2, Posted DEF Messages
  <2>3. TypeInv'
    <3>1. pc' \in 1 .. CaseLength(case)' + 1
      BY <1>1, <1>2, SMT
    <3> QED BY <1>2, <2>1, <2>2, <3>1, SMT DEF TypeInv
  <2> QED BY <1>2, <2>3, SMT DEF StartInv
<1>4. QueueInv' /\ OrderInv'
  BY <1>2, FramesKept, SMT DEF QueueInv
<1>5. ThreadInv' /\ SinkInv' /\ ServerInv'
  <2>1. ThreadInv'
    BY <1>1, <1>2, SMT DEF TypeInv, Sinks, ThreadInv
  <2>2. SinkInv'
    BY <1>1, <1>2, SMT DEF TypeInv, Sinks, SinkInv
  <2>3. ServerInv'
    BY <1>1, <1>2, SMT DEF TypeInv, Sinks, ServerInv
  <2> QED BY <2>1, <2>2, <2>3
<1>6. BusInv'
  <2>1. /\ InBus("EOS")' => InBus("EOS")
        /\ InBus("INSTANT_RATE_REQUEST")' => InBus("INSTANT_RATE_REQUEST")
        /\ InBus("RESET_TIME")' => fault # Silences("RESET_TIME") \/ InBus("RESET_TIME")
        /\ fault # Silences("RESET_TIME") => InBus("RESET_TIME")'
    BY <1>2, Posted DEF Messages
  <2> QED BY <1>2, <2>1, FaultsDiffer, SMT DEF BusInv
<1>7. PassedInv' /\ ConformingSinkPasses'
  BY <1>2, SMT DEF PassedInv, ConformingSinkPasses
<1> QED BY <1>3, <1>4, <1>5, <1>6, <1>7

\* So does an instant-rate seek.
LEMMA SeekKeeps ==
  ASSUME IInv, ~Finished, CallStep, fault # Refuses(Now.what), Now.what = "seekInstantRate"
  PROVE  IInv'
<1> USE DEF IInv
<1>1. PICK n \in Nat : n = CaseLength(case)
  BY LengthType DEF TypeInv
<1>2. /\ UNCHANGED <<case, fault, failed, encoded, feed, taken, src, sink, thread>>
      /\ Post("INSTANT_RATE_REQUEST")
      /\ pc = 6 /\ pc' = 7 /\ n \in 6 .. 9 /\ case = "InstantRateChangeSeekPostsRateRequest"
  BY <1>1, Performed, SMT DEF Perform, Places
<1>3. TypeInv' /\ StartInv'
  <2>1. bus' \in Seq(Messages)
    BY <1>2, Posted DEF Messages
  <2> QED BY <1>1, <1>2, <2>1, SMT DEF TypeInv, StartInv
<1>4. QueueInv' /\ OrderInv'
  BY <1>2, FramesKept, SMT DEF QueueInv
<1>5. ThreadInv' /\ SinkInv' /\ ServerInv'
  <2>1. ThreadInv'
    BY <1>1, <1>2, SMT DEF TypeInv, Sinks, ThreadInv
  <2>2. SinkInv'
    BY <1>1, <1>2, SMT DEF TypeInv, Sinks, SinkInv
  <2>3. ServerInv'
    BY <1>1, <1>2, SMT DEF TypeInv, Sinks, ServerInv
  <2> QED BY <2>1, <2>2, <2>3
<1>6. BusInv'
  <2>1. /\ InBus("EOS")' => InBus("EOS")
        /\ InBus("RESET_TIME")' => InBus("RESET_TIME")
        /\ InBus("INSTANT_RATE_REQUEST")' =>
             fault # Silences("INSTANT_RATE_REQUEST") \/ InBus("INSTANT_RATE_REQUEST")
        /\ fault # Silences("INSTANT_RATE_REQUEST") => InBus("INSTANT_RATE_REQUEST")'
    BY <1>2, Posted DEF Messages
  <2> QED BY <1>2, <2>1, FaultsDiffer, SMT DEF BusInv, ThreadInv, SinkInv
<1>7. PassedInv' /\ ConformingSinkPasses'
  BY <1>2, SMT DEF PassedInv, ConformingSinkPasses
<1> QED BY <1>3, <1>4, <1>5, <1>6, <1>7

\* The calls, refused or not.
LEMMA CallKeeps ==
  ASSUME IInv, ~Finished, CallStep
  PROVE  IInv'
<1>1. CASE fault = Refuses(Now.what)
  BY <1>1, RefusedKeeps
<1>2. CASE fault # Refuses(Now.what)
  <2>1. Perform(Now.what)
    BY <1>2, Performed
  <2>2. Now.what \in {"synthesise", "construct", "setState", "reportStreamCollection",
                      "sendSegment", "endOfStream", "flushStart", "flushStop",
                      "seekInstantRate", "sendUpstream", "destroy"}
    BY <2>1, Zenon DEF Perform
  <2> QED BY <1>2, <2>2, SetUpKeeps, SetStateKeeps, SendSegmentKeeps, EndOfStreamKeeps,
             FlushStartKeeps, FlushStopKeeps, SeekKeeps, SendUpstreamKeeps, DestroyKeeps
<1> QED BY <1>1, <1>2

\* A step that asserts what it has waited for or read.
LEMMA AnsweredKeeps ==
  ASSUME IInv, ~Finished, NEW ok \in BOOLEAN, Judge(Script, ok), Now.do # "call",
         UNCHANGED <<fault, encoded, feed, thread, src, taken>>,
         sink' = sink \/ sink' = [sink EXCEPT !.collection = TRUE],
         bus' \in Seq(Messages), \A m : InBus(m)' => InBus(m),
         ok => PassedInv', ~ok => fault # Conforming
  PROVE  IInv'
<1> USE DEF IInv
<1>1. PICK n \in Nat : n = CaseLength(case)
  BY LengthType DEF TypeInv
<1>2. /\ case' = case /\ failed' \in BOOLEAN /\ pc \in 1 .. n /\ pc' \in pc + 1 .. n + 1
      /\ ~failed' => ~failed /\ pc' = pc + 1
      /\ ~failed' /\ Now.must \in {"hold", "abort"} => ok
      /\ ok => failed' = failed /\ pc' = pc + 1
      /\ pc > 5 => pc' = pc + 1
      /\ n \in 6 .. 9 /\ Places(case, n, pc, Now) /\ Manner(pc, Now)
  BY <1>1, Judged, AtStep, LengthType DEF TypeInv
<1>3. Now.what \in {"collection", "PLAYING", "position", "segment", "EOS", "RESET_TIME",
                    "INSTANT_RATE_REQUEST", "forwarded"}
  BY <1>2 DEF Manner
<1>4. /\ pc > 3
      /\ pc = 6 => case = "CapsAttachesSourceReachingPlaying"
      /\ pc = 7 => case # "FlushHonoursResetTime"
  BY <1>2, <1>3, SMT DEF Places
<1>5. Now.must \in {"hold", "abort"}
  BY <1>2, <1>3, <1>4, SMT DEF Manner, Places
<1>6. TypeInv' /\ StartInv'
  <2>1. sink' \in Sinks
    BY SinkTypes DEF TypeInv
  <2>2. pc' \in 1 .. CaseLength(case)' + 1
    BY <1>1, <1>2, SMT
  <2>3. TypeInv'
    BY <1>2, <2>1, <2>2, SMT DEF TypeInv
  <2> QED BY <1>2, <1>4, <2>3, SMT DEF StartInv
<1>7. /\ \A f \in {"started", "client", "attached", "playing", "flushing", "segment",
                   "forwarded", "ended", "drained"} : sink'[f] = sink[f]
      /\ src' = src /\ thread' = thread /\ fault' = fault
  BY DEF TypeInv, Sinks
<1>8. QueueInv' /\ OrderInv'
  BY <1>2, FramesKept, SMT DEF QueueInv
<1>9. ThreadInv'
  BY <1>1, <1>2, <1>4, <1>7, SMT DEF ThreadInv
<1>10. SinkInv'
  BY <1>2, <1>7, SMT DEF SinkInv
<1>11. BusInv'
  BY <1>2, <1>4, <1>7, SMT DEF BusInv, ThreadInv, SinkInv
<1>12. ServerInv'
  BY <1>2, <1>4, <1>7, SMT DEF ServerInv, ConformingSinkPasses
<1>13. PassedInv' /\ ConformingSinkPasses'
  BY <1>2, <1>5, <1>7, SMT DEF PassedInv, ConformingSinkPasses
<1> QED BY <1>6, <1>8, <1>9, <1>10, <1>11, <1>12, <1>13

\* Where a step that is not a call is.
LEMMA Asked ==
  ASSUME IInv, ~Finished
  PROVE  /\ case \in DOMAIN Suite /\ pc \in Nat /\ pc <= CaseLength(case)
         /\ CaseLength(case) \in 6 .. 9
         /\ Places(case, CaseLength(case), pc, Now) /\ Manner(pc, Now)
BY AtStep, LengthType, SMT DEF IInv, TypeInv

\* The retry gives up only with nothing left to do, so on a sink with no client to come.
LEMMA ReportKeeps ==
  ASSUME IInv, ~Finished, AwaitStep, Now.what = "collection"
  PROVE  IInv'
<1> USE DEF IInv
<1>1. ReportUntilAccepted /\ bus' = bus /\ Now.do = "await"
  BY DEF AwaitStep
<1>2. pc = 4 /\ CaseLength(case) \in 6 .. 9
  BY Asked DEF Places
<1>3. bus' \in Seq(Messages) /\ \A m : InBus(m)' => InBus(m)
  BY <1>1, BusKept DEF TypeInv
<1>4. CASE sink.client /\ sink' = [sink EXCEPT !.collection = TRUE] /\ Assert(TRUE)
  <2>1. /\ Judge(Script, TRUE) /\ UNCHANGED <<fault, encoded, feed, thread, src, taken>>
        /\ sink'.collection /\ sink'.client /\ sink'.playing = sink.playing
    BY <1>4 DEF Assert, TypeInv, Sinks
  <2>2. case' = case /\ failed' = failed /\ pc' = 5
    <3>1. case' = case /\ failed' = failed /\ pc' = pc + 1
      BY <2>1, Judged
    <3> QED BY <1>2, <3>1
  <2>3. PassedInv'
    BY <1>2, <2>1, <2>2, SMT DEF PassedInv
  <2> QED BY <1>1, <1>3, <1>4, <2>1, <2>3, AnsweredKeeps
<1>5. CASE ~sink.client /\ Settled /\ Assert(FALSE) /\ UNCHANGED sink
  <2>1. Judge(Script, FALSE) /\ UNCHANGED <<fault, encoded, feed, thread, src, taken, sink>>
    BY <1>5 DEF Assert
  <2>2. fault # Conforming
    <3> SUFFICES ASSUME fault = Conforming PROVE FALSE
      OBVIOUS
    <3>1. ~failed
      BY DEF ConformingSinkPasses
    <3>2. sink.started
      BY <1>2, <3>1, SMT DEF ThreadInv
    <3> QED BY <1>5, <3>2, FaultsDiffer DEF Settled, CanConnect
  <2> QED BY <1>1, <1>3, <2>1, <2>2, AnsweredKeeps
<1> QED BY <1>1, <1>4, <1>5 DEF ReportUntilAccepted

\* PLAYING is given up only by a sink that has not pre-rolled although it was given data.
LEMMA GetStateKeeps ==
  ASSUME IInv, ~Finished, AwaitStep, Now.what = "PLAYING"
  PROVE  IInv'
<1> USE DEF IInv
<1>1. GetState /\ bus' = bus /\ sink' = sink /\ Now.do = "await"
  BY DEF AwaitStep
<1>2. pc = 5 /\ CaseLength(case) \in 6 .. 9
  BY Asked DEF Places
<1>3. bus' \in Seq(Messages) /\ \A m : InBus(m)' => InBus(m)
  BY <1>1, BusKept DEF TypeInv
<1>4. CASE sink.playing /\ Assert(TRUE)
  <2>1. Judge(Script, TRUE) /\ UNCHANGED <<fault, encoded, feed, thread, src, taken>>
    BY <1>4 DEF Assert
  <2>2. case' = case /\ failed' = failed /\ pc' = 6
    <3>1. case' = case /\ failed' = failed /\ pc' = pc + 1
      BY <2>1, Judged
    <3> QED BY <1>2, <3>1
  <2>3. PassedInv'
    BY <1>1, <1>2, <1>4, <2>1, <2>2, SMT DEF PassedInv
  <2> QED BY <1>1, <1>3, <2>1, <2>3, AnsweredKeeps
<1>5. CASE ~sink.playing /\ Settled /\ Assert(FALSE)
  <2>1. Judge(Script, FALSE) /\ UNCHANGED <<fault, encoded, feed, thread, src, taken>>
    BY <1>5 DEF Assert
  <2>2. fault # Conforming
    <3> SUFFICES ASSUME fault = Conforming PROVE FALSE
      OBVIOUS
    <3>1. ~failed
      BY DEF ConformingSinkPasses
    <3>2. sink.client /\ sink.collection /\ thread # "idle"
      BY <1>2, <3>1, SMT DEF PassedInv, ThreadInv
    <3>3. thread # "paused"
      BY <1>2, SMT DEF ThreadInv
    <3>4. ~sink.attached
      BY <1>5, <3>2, FaultsDiffer DEF Settled, CanPreroll
    <3>5. taken = << >>
      BY <3>4, FaultsDiffer DEF SinkInv
    <3>6. Len(taken) >= MaxFrames
      BY <1>5, <3>2, <3>3 DEF Settled
    <3> QED BY <3>5, <3>6, Numbers, SMT
  <2> QED BY <1>1, <1>3, <2>1, <2>2, AnsweredKeeps
<1> QED BY <1>1, <1>4, <1>5 DEF GetState

\* What is left on the bus was on it.
LEMMA Taken ==
  ASSUME TypeInv, NEW k \in DOMAIN bus, bus' = SubSeq(bus, k + 1, Len(bus))
  PROVE  bus' \in Seq(Messages) /\ \A m : InBus(m)' => InBus(m)
<1>1. bus \in Seq(Messages) /\ Len(bus) \in Nat /\ k \in 1 .. Len(bus) /\ DOMAIN bus = 1 .. Len(bus)
  BY DEF TypeInv
<1> HIDE DEF Messages
<1>2. /\ bus' \in Seq(Messages) /\ DOMAIN bus' = 1 .. Len(bus) - k
      /\ \A j \in 1 .. Len(bus) - k : bus'[j] = bus[k + j]
  BY <1>1
<1>3. \A j \in DOMAIN bus' : k + j \in DOMAIN bus /\ bus'[j] = bus[k + j]
  BY <1>1, <1>2
<1> QED BY <1>2, <1>3 DEF InBus

\* A message is given up only with nothing left to do, so on a sink that does not post it.
LEMMA MessageKeeps ==
  ASSUME IInv, ~Finished, AwaitStep,
         Now.what \in {"EOS", "RESET_TIME", "INSTANT_RATE_REQUEST"}
  PROVE  IInv'
<1> USE DEF IInv
<1>1. WaitForBusMessage(Now.what) /\ sink' = sink /\ Now.do = "await"
  BY DEF AwaitStep
<1>2. /\ Now.what = "EOS" => case = "EosEventReachesEndOfStream" /\ pc = 7
      /\ Now.what = "RESET_TIME" => case = "FlushHonoursResetTime" /\ pc = 8
      /\ Now.what = "INSTANT_RATE_REQUEST" =>
           case = "InstantRateChangeSeekPostsRateRequest" /\ pc = 7
      /\ pc <= CaseLength(case) /\ CaseLength(case) \in 6 .. 9
  BY Asked DEF Places
<1>3. CASE \E k \in OfType(Now.what) : bus' = SubSeq(bus, k + 1, Len(bus)) /\ Assert(TRUE)
  <2>1. PICK k \in OfType(Now.what) : bus' = SubSeq(bus, k + 1, Len(bus)) /\ Assert(TRUE)
    BY <1>3
  <2>2. k \in DOMAIN bus /\ InBus(Now.what)
    BY DEF OfType, InBus
  <2>3. bus' \in Seq(Messages) /\ \A m : InBus(m)' => InBus(m)
    BY <2>1, <2>2, Taken
  <2>4. Judge(Script, TRUE) /\ UNCHANGED <<fault, encoded, feed, thread, src, taken>>
    BY <2>1 DEF Assert
  <2>5. case' = case /\ failed' = failed /\ pc' = pc + 1
    BY <2>4, Judged
  <2>6. fault # Silences(Now.what)
    BY <2>2 DEF BusInv
  <2>7. PassedInv'
    BY <1>1, <1>2, <2>4, <2>5, <2>6, SMT DEF PassedInv
  <2> QED BY <1>1, <2>3, <2>4, <2>7, AnsweredKeeps
<1>4. CASE OfType(Now.what) = {} /\ Settled /\ bus' = << >> /\ Assert(FALSE)
  <2>1. Judge(Script, FALSE) /\ UNCHANGED <<fault, encoded, feed, thread, src, taken>>
    BY <1>4 DEF Assert
  <2>2. ~InBus(Now.what)
    BY <1>4 DEF OfType, InBus
  <2>3. bus' \in Seq(Messages) /\ \A m : InBus(m)' => InBus(m)
    BY <1>4 DEF InBus
  <2>4. fault # Conforming
    <3> SUFFICES ASSUME fault = Conforming PROVE FALSE
      OBVIOUS
    <3>1. ~failed
      BY DEF ConformingSinkPasses
    <3>2. Now.what = "EOS"
      BY <1>2, <2>2 DEF BusInv
    <3>3. pc = 7 /\ case = "EosEventReachesEndOfStream"
      BY <1>2, <3>2
    <3>4. sink.client /\ sink.playing
      BY <3>1, <3>3, SMT DEF PassedInv
    <3>5. src.eos
      BY <3>3, SMT DEF ServerInv
    <3>6. thread # "idle"
      BY <1>2, <3>1, <3>3, SMT DEF ThreadInv
    <3>7. thread = "paused"
      BY <1>4, <3>4, <3>5, <3>6 DEF Settled
    <3>8. sink.ended
      BY <3>3, <3>7 DEF ThreadInv
    <3>9. sink.drained
      BY <1>4, <3>4, <3>8 DEF Settled, CanDrain
    <3> QED BY <2>2, <3>2, <3>3, <3>9 DEF BusInv
  <2> QED BY <1>1, <2>1, <2>3, <2>4, AnsweredKeeps
<1> QED BY <1>1, <1>3, <1>4 DEF WaitForBusMessage

\* The waits.
LEMMA AwaitKeeps ==
  ASSUME IInv, ~Finished, AwaitStep
  PROVE  IInv'
<1>1. Now.what \in {"collection", "PLAYING", "EOS", "RESET_TIME", "INSTANT_RATE_REQUEST"}
  BY Asked DEF AwaitStep, Manner
<1> QED BY <1>1, ReportKeeps, GetStateKeeps, MessageKeeps

\* A query is answered from the state, which by now a conforming sink has brought about.
LEMMA GetKeeps ==
  ASSUME IInv, ~Finished, GetStep
  PROVE  IInv'
<1> USE DEF IInv
<1> DEFINE answer   == IF Now.what = "position" THEN sink.attached ELSE sink.segment
           answered == IF fault = Misanswers(Now.what) THEN ~answer ELSE answer
<1>1. /\ Judge(Script, answered = Now.value) /\ Now.do = "get"
      /\ UNCHANGED <<fault, encoded, feed, thread, src, sink, bus, taken>>
  BY Zenon DEF GetStep
<1>2. /\ Now.what = "position" => case = "CapsAttachesSourceReachingPlaying" /\ pc = 6
      /\ Now.what = "segment" => case = "SegmentEventAppliedToServerSource" /\ pc = 7
      /\ Now.what \in {"position", "segment"} /\ Now.value = TRUE
  BY <1>1, Asked DEF Places, Manner
<1>3. bus' \in Seq(Messages) /\ \A m : InBus(m)' => InBus(m)
  BY <1>1, BusKept DEF TypeInv
<1>4. (answered = Now.value) \in BOOLEAN
  OBVIOUS
<1>5. answer \in BOOLEAN
  BY DEF TypeInv, Sinks
<1>6. answered = Now.value => PassedInv'
  <2> SUFFICES ASSUME answered = TRUE PROVE PassedInv'
    BY <1>2
  <2>1. Judge(Script, TRUE)
    BY <1>1, <1>2
  <2>2. case' = case /\ failed' = failed /\ pc' = pc + 1
    BY <2>1, Judged
  <2>3. CASE Now.what = "position"
    <3>1. ~failed => fault # Misanswers("position")
      <4>1. ~failed => sink.playing
        BY <1>2, <2>3, SMT DEF PassedInv
      <4>2. sink.playing => sink.attached
        BY DEF SinkInv
      <4> QED BY <2>3, <4>1, <4>2
    <3> QED BY <1>1, <1>2, <2>2, <2>3, <3>1, SMT DEF PassedInv
  <2>4. CASE Now.what = "segment"
    <3>1. fault # Ignores("segment")
      <4> SUFFICES ASSUME fault = Ignores("segment") PROVE FALSE
        OBVIOUS
      <4>1. ~sink.segment
        BY DEF ServerInv
      <4> QED BY <2>4, <4>1, FaultsDiffer
    <3> QED BY <1>1, <1>2, <2>2, <2>4, <3>1, SMT DEF PassedInv
  <2> QED BY <1>2, <2>3, <2>4
<1>7. answered # Now.value => fault # Conforming
  <2> SUFFICES ASSUME fault = Conforming PROVE answered = TRUE
    BY <1>2
  <2>1. answered = answer
    BY FaultsDiffer
  <2>2. ~failed
    BY DEF ConformingSinkPasses
  <2>3. Now.what = "position" => sink.attached
    BY <1>2, <2>2, SMT DEF PassedInv, SinkInv
  <2>4. Now.what = "segment" => sink.segment
    BY <1>2, <2>2, SMT DEF ServerInv
  <2> QED BY <1>2, <1>5, <2>1, <2>3, <2>4
<1> QED
  <2> HIDE DEF answered
  <2> QED BY <1>1, <1>3, <1>4, <1>6, <1>7, AnsweredKeeps

\* The probe has seen the event, unless the sink keeps it back.
LEMMA CheckKeeps ==
  ASSUME IInv, ~Finished, CheckStep
  PROVE  IInv'
<1> USE DEF IInv
<1>1. /\ Judge(Script, sink.forwarded) /\ Now.do = "check"
      /\ UNCHANGED <<fault, encoded, feed, thread, src, sink, bus, taken>>
  BY DEF CheckStep, Assert
<1>2. case = "UnknownUpstreamEventForwardedUpstream" /\ pc = 7
  BY <1>1, Asked DEF Places, Manner
<1>3. bus' \in Seq(Messages) /\ \A m : InBus(m)' => InBus(m)
  BY <1>1, BusKept DEF TypeInv
<1>4. sink.forwarded \in BOOLEAN
  BY DEF TypeInv, Sinks
<1>5. sink.forwarded => PassedInv'
  <2> SUFFICES ASSUME sink.forwarded PROVE PassedInv'
    OBVIOUS
  <2>1. case' = case /\ failed' = failed /\ pc' = pc + 1
    BY <1>1, <1>4, Judged
  <2>2. fault # Silences("forward")
    BY DEF ServerInv
  <2> QED BY <1>1, <1>2, <2>1, <2>2, SMT DEF PassedInv
<1>6. ~sink.forwarded => fault # Conforming
  BY <1>2 DEF ServerInv
<1> QED BY <1>1, <1>3, <1>4, <1>5, <1>6, AnsweredKeeps

\* appsrc asks for data with nothing queued.
LEMMA NeedDataKeeps ==
  ASSUME IInv, NeedData
  PROVE  IInv'
<1> USE DEF IInv
<1>1. /\ thread = "running" /\ src.queue = None /\ thread' = "inNeedData"
      /\ UNCHANGED <<case, fault, pc, failed, encoded, feed, src, sink, bus, taken>>
  BY DEF NeedData, scriptVars
<1>2. TypeInv' /\ StartInv'
  BY <1>1, SMT DEF TypeInv, StartInv
<1>3. QueueInv' /\ OrderInv'
  BY <1>1, FramesKept, SMT
<1>4. ThreadInv' /\ SinkInv' /\ ServerInv'
  BY <1>1, SMT DEF ThreadInv, SinkInv, ServerInv
<1>5. BusInv'
  BY <1>1, BusKept, SMT DEF BusInv
<1>6. PassedInv' /\ ConformingSinkPasses'
  BY <1>1, SMT DEF PassedInv, ConformingSinkPasses
<1> QED BY <1>2, <1>3, <1>4, <1>5, <1>6

\* A frame follows the one before it, within a replay (NextFollows) or across two
\* (ReplayFollows); a frame pushed after the end of stream is dropped.
LEMMA PushNextFrameKeeps ==
  ASSUME IInv, PushNextFrame
  PROVE  IInv'
<1> USE DEF IInv
<1> DEFINE f == Wrapped
<1>1. /\ thread = "inNeedData" /\ thread' = "running"
      /\ feed' = [f EXCEPT !.nextFrame = @ + 1]
      /\ src' = IF src.eos THEN src
                ELSE [src EXCEPT !.queue = TimeStamp(f.nextFrame) + f.loopCount * TotalDuration]
      /\ UNCHANGED <<case, fault, pc, failed, encoded, sink, bus, taken>>
  BY DEF PushNextFrame, scriptVars
<1>2. /\ f \in [nextFrame : Nat, loopCount : Nat, eosSignalled : BOOLEAN]
      /\ f.nextFrame < NumFrames
      /\ feed.nextFrame < NumFrames => f = feed
      /\ feed.nextFrame >= NumFrames =>
           feed.nextFrame = NumFrames /\ f.nextFrame = 0 /\ f.loopCount = feed.loopCount + 1
  <2>1. /\ feed.nextFrame \in 0 .. NumFrames /\ feed.loopCount \in Nat
        /\ feed.eosSignalled \in BOOLEAN
        /\ feed = [nextFrame |-> feed.nextFrame, loopCount |-> feed.loopCount,
                   eosSignalled |-> feed.eosSignalled]
    BY DEF TypeInv
  <2>2. CASE feed.nextFrame < NumFrames
    <3>1. f = feed
      BY <2>1, <2>2, Numbers, SMT DEF Wrapped
    <3> HIDE DEF f
    <3> QED BY <2>1, <2>2, <3>1, Numbers, SMT
  <2>3. CASE feed.nextFrame >= NumFrames
    <3>1. f = [nextFrame |-> 0, loopCount |-> feed.loopCount + 1,
               eosSignalled |-> feed.eosSignalled]
      <4>1. f = [feed EXCEPT !.nextFrame = 0, !.loopCount = @ + 1]
        BY <2>3 DEF Wrapped
      <4> HIDE DEF f
      <4> QED BY <2>1, <4>1
    <3> HIDE DEF f
    <3> QED BY <2>1, <2>3, <3>1, Numbers, SMT
  <2> QED BY <2>1, <2>2, <2>3, Numbers, SMT
<1> HIDE DEF f
<1>3. /\ feed'.nextFrame = f.nextFrame + 1 /\ feed'.loopCount = f.loopCount
      /\ feed' \in [nextFrame : 0 .. NumFrames, loopCount : Nat, eosSignalled : BOOLEAN]
  BY <1>1, <1>2, Numbers, SMT
<1> DEFINE stamp == TimeStamp(f.nextFrame) + f.loopCount * TotalDuration
<1>4. stamp \in Nat
  <2>1. f.nextFrame \in 0 .. NumFrames - 1 /\ encoded \in Encodings
    BY <1>2, Numbers DEF TypeInv
  <2>2. TimeStamp(f.nextFrame) \in Nat /\ TotalDuration \in Nat
    BY <2>1, StampType, TotalType
  <2>3. f.loopCount * TotalDuration \in Nat
    BY <1>2, <2>2, SMT
  <2> QED BY <2>2, <2>3
<1>5. LastPushed' = stamp
  <2>1. PICK i \in Nat : i = f.nextFrame /\ i = feed'.nextFrame - 1
    BY <1>2, <1>3
  <2>2. TimeStamp(feed.nextFrame - 1)' = TimeStamp(i)
    <3>1. FrameDuration' = FrameDuration /\ Thirds' = Thirds /\ encoded' = encoded
      BY <1>1, FeedKept, SMT DEF Thirds, Video
    <3>2. Reordered' = Reordered
      BY <1>1, FeedKept
    <3> QED BY <2>1, <3>1, <3>2, SMT DEF TimeStamp, SampleStart, Presented
  <2>3. TotalDuration' = TotalDuration
    BY <1>1, FeedKept
  <2> QED BY <1>3, <2>1, <2>2, <2>3 DEF LastPushed
<1>6. feed.nextFrame > 0 /\ ~Reordered => Follows(LastPushed, stamp)
  <2> SUFFICES ASSUME feed.nextFrame > 0, ~Reordered PROVE Follows(LastPushed, stamp)
    OBVIOUS
  <2>1. CASE feed.nextFrame < NumFrames /\ feed.nextFrame > 0
    <3>1. PICK i \in Nat : /\ i = feed.nextFrame - 1 /\ i + 1 = f.nextFrame
                           /\ i + 1 \in 0 .. NumFrames - 1
      BY <1>2, <2>1, Numbers
    <3>2. feed.loopCount * TotalDuration \in Nat
      BY TotalType DEF TypeInv
    <3> QED BY <1>2, <2>1, <3>1, <3>2, NextFollows DEF LastPushed, TypeInv
  <2>2. CASE feed.nextFrame >= NumFrames
    BY <1>2, <2>2, ReplayFollows DEF LastPushed, TypeInv
  <2> QED BY <2>1, <2>2, <1>2, Numbers, SMT DEF TypeInv
<1> HIDE DEF stamp
<1>7. src' = IF src.eos THEN src ELSE [src EXCEPT !.queue = stamp]
  BY <1>1 DEF stamp
<1>8. pc > 3
  BY <1>1, SMT DEF StartInv, TypeInv
<1>9. TypeInv' /\ StartInv'
  <2>1. src' \in Sources
    BY <1>4, <1>7, SourceTypes DEF TypeInv
  <2>2. TypeInv'
    BY <1>1, <1>3, <2>1, SMT DEF TypeInv
  <2> QED BY <1>1, <1>8, <2>2, SMT DEF StartInv
<1>10. QueueInv'
  <2>1. src.queue = None
    BY <1>1 DEF QueueInv
  <2>2. FrameDuration' = FrameDuration /\ Reordered' = Reordered
    BY <1>1, FeedKept
  <2>3. CASE src.eos
    BY <1>1, <1>7, <2>1, <2>3, SMT DEF QueueInv
  <2>4. CASE ~src.eos
    <3>1. src'.queue = stamp /\ stamp # None
      BY <1>4, <1>7, <2>4, NoneAssumption DEF TypeInv, Sources
    <3>2. feed'.nextFrame > 0
      BY <1>2, <1>3
    <3>3. taken # << >> /\ ~Reordered => Follows(taken[Len(taken)], stamp)
      BY <1>1, <1>6, <2>1, <2>4 DEF QueueInv
    <3>4. Len(taken) = feed'.loopCount * NumFrames + feed'.nextFrame - 1
      <4>1. Len(taken) = feed.loopCount * NumFrames + feed.nextFrame
        BY <1>1, <2>1, <2>4 DEF QueueInv
      <4>2. /\ feed.loopCount \in Nat /\ feed.nextFrame \in Nat /\ NumFrames \in Nat
            /\ f.loopCount \in Nat /\ f.nextFrame \in Nat
        BY <1>2, Numbers DEF TypeInv
      <4>3. (feed.loopCount + 1) * NumFrames = feed.loopCount * NumFrames + NumFrames
        BY <4>2, SMT
      <4>4. feed.loopCount * NumFrames \in Nat
        BY <4>2, SMT
      <4>5. Len(taken) = f.loopCount * NumFrames + f.nextFrame
        <5>1. CASE feed.nextFrame < NumFrames
          BY <1>2, <4>1, <5>1
        <5>2. CASE feed.nextFrame >= NumFrames
          BY <1>2, <4>1, <4>2, <4>3, <4>4, <5>2
        <5> QED BY <4>2, <5>1, <5>2
      <4>6. f.loopCount * NumFrames \in Nat
        BY <4>2, SMT
      <4> QED BY <1>3, <4>2, <4>5, <4>6
    <3> QED BY <1>1, <1>5, <2>2, <3>1, <3>2, <3>3, <3>4, SMT DEF QueueInv, Follows
  <2> QED BY <2>3, <2>4
<1>11. OrderInv'
  BY <1>1, OrderKept
<1>12. ThreadInv' /\ SinkInv' /\ ServerInv'
  <2>1. src'.eos = src.eos
    BY <1>7 DEF TypeInv, Sources
  <2> QED BY <1>1, <2>1, SMT DEF ThreadInv, SinkInv, ServerInv
<1>13. BusInv'
  BY <1>1, BusKept, SMT DEF BusInv
<1>14. PassedInv' /\ ConformingSinkPasses'
  BY <1>1, SMT DEF PassedInv, ConformingSinkPasses
<1> QED BY <1>9, <1>10, <1>11, <1>12, <1>13, <1>14

\* The sink takes the frame queued, which follows the one taken last; or it is flushing.
LEMMA DeliverKeeps ==
  ASSUME IInv, Deliver
  PROVE  IInv'
<1> USE DEF IInv
<1>1. /\ thread = "running" /\ src.queue # None /\ sink.client
      /\ src' = [src EXCEPT !.queue = None]
      /\ UNCHANGED <<case, fault, pc, failed, encoded, feed, bus>>
  BY DEF Deliver
<1>2. src' \in Sources /\ src'.queue = None /\ src'.eos = src.eos /\ src.queue \in Nat
  <2>1. src \in Sources /\ src' \in Sources
    BY <1>1, SourceTypes DEF TypeInv
  <2> QED BY <1>1, <2>1 DEF Sources
<1>3. pc > 3
  BY <1>1, SMT DEF StartInv, TypeInv
<1>4. /\ FrameDuration' = FrameDuration /\ LastPushed' = LastPushed
      /\ Reordered' = Reordered
  BY <1>1, FeedKept, SMT DEF LastPushed
<1>5. BusInv' /\ PassedInv' /\ ConformingSinkPasses' /\ TypeInv' /\ QueueInv' /\ OrderInv'
        /\ ThreadInv' /\ SinkInv' /\ ServerInv'
  <2>1. CASE sink.flushing
    <3>1. thread' = "paused" /\ UNCHANGED <<sink, taken>>
      BY <2>1 DEF Deliver
    <3>2. case = "FlushHonoursResetTime" /\ pc > 6
      BY <2>1 DEF ThreadInv
    <3>3. TypeInv'
      BY <1>1, <1>2, <3>1, SMT DEF TypeInv
    <3>4. QueueInv' /\ OrderInv'
      BY <1>1, <1>2, <3>1, OrderKept, SMT DEF QueueInv
    <3>5. ThreadInv' /\ SinkInv' /\ ServerInv'
      BY <1>1, <1>2, <3>1, <3>2, SMT DEF ThreadInv, SinkInv, ServerInv
    <3>6. BusInv'
      BY <1>1, <3>1, BusKept, SMT DEF BusInv
    <3>7. PassedInv' /\ ConformingSinkPasses'
      BY <1>1, <3>1, SMT DEF PassedInv, ConformingSinkPasses
    <3> QED BY <3>3, <3>4, <3>5, <3>6, <3>7
  <2>2. CASE ~sink.flushing
    <3>1. /\ taken' = Append(taken, src.queue) /\ thread' = thread
          /\ sink' = [sink EXCEPT !.attached = (fault # Ignores("caps"))]
      BY <2>2 DEF Deliver
    <3>2. sink' \in Sinks
      BY <3>1, SinkTypes DEF TypeInv
    <3>3. /\ \A x \in {"started", "client", "collection", "playing", "flushing", "segment",
                       "forwarded", "ended", "drained"} : sink'[x] = sink[x]
          /\ sink'.attached <=> fault # Ignores("caps")
      BY <3>1 DEF TypeInv, Sinks
    <3>4. /\ taken \in Seq(Nat) /\ taken' \in Seq(Nat) /\ Len(taken) \in Nat
          /\ Len(taken') = Len(taken) + 1 /\ taken' # << >>
          /\ \A k \in 1 .. Len(taken) : taken'[k] = taken[k]
          /\ taken'[Len(taken) + 1] = src.queue
      BY <1>2, <3>1 DEF TypeInv
    <3>5. TypeInv'
      BY <1>1, <1>2, <3>1, <3>2, <3>4, SMT DEF TypeInv
    <3>6. QueueInv'
      <4>1. /\ feed.nextFrame > 0 /\ src.queue = LastPushed
            /\ Len(taken) = feed.loopCount * NumFrames + feed.nextFrame - 1
        BY <1>1 DEF QueueInv
      <4>2. feed.loopCount * NumFrames \in Nat /\ feed.nextFrame \in Nat
        BY Numbers, SMT DEF TypeInv
      <4>3. Len(taken') = feed.loopCount * NumFrames + feed.nextFrame
        BY <3>4, <4>1, <4>2
      <4> QED BY <1>1, <1>2, <1>4, <3>4, <4>1, <4>3, SMT DEF QueueInv
    <3>7. OrderInv'
      <4>1. \A a, b : Follows(a, b)' <=> Follows(a, b)
        BY <1>4 DEF Follows
      <4>5. \A k, stamp : IsFrame(k, stamp)' <=> IsFrame(k, stamp)
        BY <1>1, FeedKept, Zenon DEF IsFrame
      <4>6. IsFrame(Len(taken) + 1, src.queue)
        <5>1. /\ feed.nextFrame > 0 /\ src.queue = LastPushed
              /\ Len(taken) = feed.loopCount * NumFrames + feed.nextFrame - 1
          BY <1>1 DEF QueueInv
        <5>2. PICK i \in 0 .. NumFrames - 1 : i = feed.nextFrame - 1
          BY <5>1, Numbers DEF TypeInv
        <5>3. feed.loopCount \in Nat /\ feed.loopCount * NumFrames \in Nat
          BY Numbers, SMT DEF TypeInv
        <5>4. Len(taken) + 1 = feed.loopCount * NumFrames + i + 1
          BY <3>4, <5>1, <5>2, <5>3, Numbers DEF TypeInv
        <5>5. src.queue = TimeStamp(i) + feed.loopCount * TotalDuration
          BY <5>1, <5>2 DEF LastPushed
        <5> QED BY <5>2, <5>3, <5>4, <5>5, Zenon DEF IsFrame
      <4>7. \A k \in 1 .. Len(taken') : IsFrame(k, taken'[k])
        BY <3>4, <4>6 DEF OrderInv
      <4>8. ASSUME ~Reordered, NEW k \in 1 .. Len(taken') - 1
            PROVE  Follows(taken'[k], taken'[k + 1])
        <5>1. k \in 1 .. Len(taken) /\ taken'[k] = taken[k]
          BY <3>4
        <5>2. CASE k = Len(taken)
          <6>1. taken # << >>
            BY <3>4, <5>1, <5>2
          <6>2. Follows(taken[Len(taken)], src.queue)
            BY <1>1, <4>8, <6>1 DEF QueueInv
          <6> QED BY <3>4, <5>1, <5>2, <6>2
        <5>3. CASE k # Len(taken)
          <6>1. k \in 1 .. Len(taken) - 1 /\ taken'[k + 1] = taken[k + 1]
            BY <3>4, <5>1, <5>3
          <6> QED BY <4>8, <5>1, <6>1 DEF OrderInv
        <5> QED BY <5>2, <5>3
      <4> QED BY <1>4, <4>1, <4>5, <4>7, <4>8, Zenon DEF OrderInv
    <3>8. ThreadInv' /\ ServerInv'
      BY <1>1, <1>2, <3>1, <3>3, SMT DEF ThreadInv, ServerInv
    <3>9. SinkInv'
      BY <1>1, <3>3, <3>4, SMT DEF SinkInv
    <3>10. BusInv'
      BY <1>1, <3>3, BusKept, SMT DEF BusInv
    <3>11. PassedInv' /\ ConformingSinkPasses'
      BY <1>1, <3>3, SMT DEF PassedInv, ConformingSinkPasses
    <3> QED BY <3>5, <3>6, <3>7, <3>8, <3>9, <3>10, <3>11
  <2> QED BY <2>1, <2>2
<1>6. StartInv'
  BY <1>1, <1>3, SMT DEF StartInv
<1> QED BY <1>5, <1>6

\* The end of stream follows the last frame queued.
LEMMA SendEosKeeps ==
  ASSUME IInv, SendEos
  PROVE  IInv'
<1> USE DEF IInv
<1>1. /\ thread = "running" /\ src.queue = None /\ src.eos /\ thread' = "paused"
      /\ sink' = [sink EXCEPT !.ended = TRUE]
      /\ UNCHANGED <<case, fault, pc, failed, encoded, feed, src, bus, taken>>
  BY DEF SendEos, scriptVars
<1>2. sink' \in Sinks
  BY <1>1, SinkTypes DEF TypeInv
<1>3. /\ \A x \in {"started", "client", "collection", "attached", "playing", "flushing",
                   "segment", "forwarded", "drained"} : sink'[x] = sink[x]
      /\ sink'.ended
  BY <1>1 DEF TypeInv, Sinks
<1>4. TypeInv' /\ StartInv'
  BY <1>1, <1>2, <1>3, SMT DEF TypeInv, StartInv
<1>5. QueueInv' /\ OrderInv'
  BY <1>1, FramesKept, SMT
<1>6. ThreadInv' /\ SinkInv' /\ ServerInv'
  BY <1>1, <1>3, SMT DEF ThreadInv, SinkInv, ServerInv
<1>7. BusInv'
  BY <1>1, <1>3, BusKept, SMT DEF BusInv
<1>8. PassedInv' /\ ConformingSinkPasses'
  BY <1>1, <1>3, SMT DEF PassedInv, ConformingSinkPasses
<1> QED BY <1>4, <1>5, <1>6, <1>7, <1>8

\* The sink connects, pre-rolls and drains by itself.
LEMMA SinkStepKeeps ==
  ASSUME IInv, SinkStep
  PROVE  IInv'
<1> USE DEF IInv
<1>1. UNCHANGED <<case, fault, pc, failed, encoded, feed, thread, src, taken>>
  BY DEF SinkStep
<1>2. QueueInv' /\ OrderInv'
  BY <1>1, FramesKept, SMT DEF QueueInv
<1>3. CASE CanConnect /\ sink' = [sink EXCEPT !.client = TRUE] /\ bus' = bus
  <2>1. sink' \in Sinks
    BY <1>3, SinkTypes DEF TypeInv
  <2>2. /\ \A x \in {"started", "collection", "attached", "playing", "flushing", "segment",
                     "forwarded", "ended", "drained"} : sink'[x] = sink[x]
        /\ sink'.client /\ sink.started /\ fault # Silences("client")
    BY <1>3 DEF CanConnect, TypeInv, Sinks
  <2>3. pc > 3
    BY <2>2, SMT DEF StartInv, TypeInv
  <2>4. TypeInv' /\ StartInv'
    BY <1>1, <1>3, <2>1, <2>3, SMT DEF TypeInv, StartInv
  <2>5. ThreadInv' /\ SinkInv' /\ ServerInv'
    BY <1>1, <2>2, SMT DEF ThreadInv, SinkInv, ServerInv
  <2>6. BusInv'
    BY <1>1, <1>3, <2>2, BusKept, SMT DEF BusInv
  <2>7. PassedInv' /\ ConformingSinkPasses'
    BY <1>1, <2>2, SMT DEF PassedInv, ConformingSinkPasses
  <2> QED BY <1>2, <2>4, <2>5, <2>6, <2>7
<1>4. CASE CanPreroll /\ sink' = [sink EXCEPT !.playing = TRUE] /\ Post("STATE_CHANGED")
  <2>1. sink' \in Sinks
    BY <1>4, SinkTypes DEF TypeInv
  <2>2. /\ \A x \in {"started", "client", "collection", "attached", "flushing", "segment",
                     "forwarded", "ended", "drained"} : sink'[x] = sink[x]
        /\ sink'.playing /\ sink.attached /\ fault # Silences("playing")
    BY <1>4 DEF CanPreroll, TypeInv, Sinks
  <2>3. /\ bus' \in Seq(Messages) /\ \A m : InBus(m) => InBus(m)'
        /\ \A m : InBus(m)' => InBus(m) \/ m = "STATE_CHANGED"
    BY <1>4, Posted DEF Messages
  <2>4. TypeInv' /\ StartInv'
    BY <1>1, <2>1, <2>2, <2>3, SMT DEF TypeInv, StartInv
  <2>5. ThreadInv' /\ SinkInv' /\ ServerInv'
    BY <1>1, <2>2, SMT DEF ThreadInv, SinkInv, ServerInv
  <2>6. BusInv'
    BY <1>1, <2>2, <2>3, SMT DEF BusInv
  <2>7. PassedInv' /\ ConformingSinkPasses'
    BY <1>1, <2>2, SMT DEF PassedInv, ConformingSinkPasses
  <2> QED BY <1>2, <2>4, <2>5, <2>6, <2>7
<1>5. CASE CanDrain /\ sink' = [sink EXCEPT !.drained = TRUE] /\ Post("EOS")
  <2>1. sink' \in Sinks
    BY <1>5, SinkTypes DEF TypeInv
  <2>2. /\ \A x \in {"started", "client", "collection", "attached", "playing", "flushing",
                     "segment", "forwarded", "ended"} : sink'[x] = sink[x]
        /\ sink'.drained /\ sink.ended
    BY <1>5 DEF CanDrain, TypeInv, Sinks
  <2>3. /\ bus' \in Seq(Messages) /\ \A m : InBus(m) => InBus(m)'
        /\ fault # Silences("EOS") => InBus("EOS")'
        /\ \A m : InBus(m)' => InBus(m) \/ (m = "EOS" /\ fault # Silences("EOS"))
    BY <1>5, Posted DEF Messages
  <2>4. TypeInv' /\ StartInv'
    BY <1>1, <2>1, <2>2, <2>3, SMT DEF TypeInv, StartInv
  <2>5. ThreadInv' /\ SinkInv' /\ ServerInv'
    BY <1>1, <2>2, SMT DEF ThreadInv, SinkInv, ServerInv
  <2>6. BusInv'
    BY <1>1, <2>2, <2>3, FaultsDiffer, SMT DEF BusInv
  <2>7. PassedInv' /\ ConformingSinkPasses'
    BY <1>1, <2>2, SMT DEF PassedInv, ConformingSinkPasses
  <2> QED BY <1>2, <2>4, <2>5, <2>6, <2>7
<1> QED BY <1>3, <1>4, <1>5, Zenon DEF SinkStep

\* What the cases are there to catch.
LEMMA Catches ==
  /\ Suite["CapsAttachesSourceReachingPlaying"].catches
       = {Misanswers("position")} \cup NotStarting
  /\ Suite["StreamCollectionTriggersAllSourcesAttached"].catches
       = {Refuses("reportStreamCollection")} \cup NotStarting
  /\ Suite["SegmentEventAppliedToServerSource"].catches
       = {Refuses("sendSegment"), Ignores("segment")} \cup NotStarting
  /\ Suite["EosEventReachesEndOfStream"].catches
       = {Silences("EOS")} \cup NotStarting
  /\ Suite["FlushHonoursResetTime"].catches
       = {Silences("RESET_TIME")} \cup NotStarting
  /\ Suite["InstantRateChangeSeekPostsRateRequest"].catches
       = {Silences("INSTANT_RATE_REQUEST")} \cup NotStarting
  /\ Suite["UnknownUpstreamEventForwardedUpstream"].catches
       = {Silences("forward")} \cup NotStarting
  /\ Suite["AvcCapsFieldsParsedReachingPlaying"].catches
       = {} \cup NotStarting
<1>1. \A script, catches : Case(script, catches).catches = catches
  BY DEF Case
<1>2. \A steps, catches : ArrangePlayingFeed(steps, catches).catches = catches \cup NotStarting
  BY <1>1 DEF ArrangePlayingFeed
<1>3. Suite["CapsAttachesSourceReachingPlaying"].catches
         = {Misanswers("position")} \cup NotStarting
  <2>1. Suite["CapsAttachesSourceReachingPlaying"] = CapsAttachesSourceReachingPlaying
    BY Zenon DEF Suite
  <2> QED BY <1>1, <1>2, <2>1 DEF CapsAttachesSourceReachingPlaying
<1>4. Suite["StreamCollectionTriggersAllSourcesAttached"].catches
         = {Refuses("reportStreamCollection")} \cup NotStarting
  <2>1. Suite["StreamCollectionTriggersAllSourcesAttached"]
          = StreamCollectionTriggersAllSourcesAttached
    BY Zenon DEF Suite
  <2> QED BY <1>1, <1>2, <2>1 DEF StreamCollectionTriggersAllSourcesAttached
<1>5. Suite["SegmentEventAppliedToServerSource"].catches
         = {Refuses("sendSegment"), Ignores("segment")} \cup NotStarting
  <2>1. Suite["SegmentEventAppliedToServerSource"] = SegmentEventAppliedToServerSource
    BY Zenon DEF Suite
  <2> QED BY <1>1, <1>2, <2>1 DEF SegmentEventAppliedToServerSource
<1>6. Suite["EosEventReachesEndOfStream"].catches
         = {Silences("EOS")} \cup NotStarting
  <2>1. Suite["EosEventReachesEndOfStream"] = EosEventReachesEndOfStream
    BY Zenon DEF Suite
  <2> QED BY <1>1, <1>2, <2>1 DEF EosEventReachesEndOfStream
<1>7. Suite["FlushHonoursResetTime"].catches
         = {Silences("RESET_TIME")} \cup NotStarting
  <2>1. Suite["FlushHonoursResetTime"] = FlushHonoursResetTime
    BY Zenon DEF Suite
  <2> QED BY <1>1, <1>2, <2>1 DEF FlushHonoursResetTime
<1>8. Suite["InstantRateChangeSeekPostsRateRequest"].catches
         = {Silences("INSTANT_RATE_REQUEST")} \cup NotStarting
  <2>1. Suite["InstantRateChangeSeekPostsRateRequest"] = InstantRateChangeSeekPostsRateRequest
    BY Zenon DEF Suite
  <2> QED BY <1>1, <1>2, <2>1 DEF InstantRateChangeSeekPostsRateRequest
<1>9. Suite["UnknownUpstreamEventForwardedUpstream"].catches
         = {Silences("forward")} \cup NotStarting
  <2>1. Suite["UnknownUpstreamEventForwardedUpstream"] = UnknownUpstreamEventForwardedUpstream
    BY Zenon DEF Suite
  <2> QED BY <1>1, <1>2, <2>1 DEF UnknownUpstreamEventForwardedUpstream
<1>10. Suite["AvcCapsFieldsParsedReachingPlaying"].catches
         = {} \cup NotStarting
  <2>1. Suite["AvcCapsFieldsParsedReachingPlaying"] = AvcCapsFieldsParsedReachingPlaying
    BY Zenon DEF Suite
  <2> QED BY <1>1, <1>2, <2>1 DEF AvcCapsFieldsParsedReachingPlaying
<1> QED BY <1>3, <1>4, <1>5, <1>6, <1>7, <1>8, <1>9, <1>10

\* The invariant holds to begin with.
LEMMA Initially ==
  ASSUME Init
  PROVE  IInv
<1> USE DEF Init, ScriptInit
<1>1. case \in DOMAIN Suite
  BY CasesAssumption
<1>2. pc \in 1 .. CaseLength(case) + 1 /\ pc = 1
  BY <1>1, LengthType
<1>3. sink \in Sinks
  BY SMT DEF Sinks
<1>4. feed \in [nextFrame : 0 .. NumFrames, loopCount : Nat, eosSignalled : BOOLEAN]
  BY Numbers, SMT
<1>5. src \in Sources
  BY SMT DEF Sources
<1>6. TypeInv
  <2>1. bus \in Seq(Messages) /\ taken \in Seq(Nat)
    OBVIOUS
  <2>2. failed \in BOOLEAN /\ encoded \in Encodings /\ thread = "idle"
    OBVIOUS
  <2> QED BY <1>1, <1>2, <1>3, <1>4, <1>5, <2>1, <2>2 DEF TypeInv
<1>7. StartInv
  BY SMT DEF StartInv
<1>8. QueueInv /\ OrderInv
  BY SMT DEF QueueInv, OrderInv
<1>9. ThreadInv /\ SinkInv /\ ServerInv
  BY SMT DEF ThreadInv, SinkInv, ServerInv
<1>10. BusInv
  BY SMT DEF BusInv, InBus
<1>11. PassedInv /\ ConformingSinkPasses
  BY SMT DEF PassedInv, ConformingSinkPasses
<1> QED BY <1>6, <1>7, <1>8, <1>9, <1>10, <1>11 DEF IInv

\* Every step keeps it.
LEMMA Inductive ==
  ASSUME IInv, [Next]_sinkVars
  PROVE  IInv'
<1>1. CASE ~Finished /\ SetEosSignalled
  BY <1>1, SetEosSignalledKeeps
<1>2. CASE ~Finished /\ CallStep
  BY <1>2, CallKeeps
<1>3. CASE ~Finished /\ AwaitStep
  BY <1>3, AwaitKeeps
<1>4. CASE ~Finished /\ GetStep
  BY <1>4, GetKeeps
<1>5. CASE ~Finished /\ CheckStep
  BY <1>5, CheckKeeps
<1>6. CASE StreamingThread
  BY <1>6, NeedDataKeeps, PushNextFrameKeeps, DeliverKeeps, SendEosKeeps DEF StreamingThread
<1>7. CASE SinkStep
  BY <1>7, SinkStepKeeps
<1>8. CASE UNCHANGED sinkVars
  BY <1>8, Stutters
<1> QED BY <1>1, <1>2, <1>3, <1>4, <1>5, <1>6, <1>7, <1>8 DEF Next, TestCase

\* The inductive invariant of the sink feeds and their cases.
THEOREM SinkInvariant == Spec => []IInv
<1>1. Init => IInv
  BY Initially
<1>2. IInv /\ [Next]_sinkVars => IInv'
  BY Inductive
<1> QED BY <1>1, <1>2, PTL DEF Spec

\* "A per-loop PTS offset keeps timestamps monotonic" (MseSinkFeed.cpp:110-111), for a
\* stream whose access units come in the order they are presented in: whatever the encoder
\* stamps, however many frames the stream has and however often it is replayed, each frame
\* the sink takes is later than the one before, by a duration but for the roundings of one
\* replay.
THEOREM TimestampsIncreaseHolds == Spec => []TimestampsIncrease
<1>1. IInv => TimestampsIncrease
  <2> SUFFICES ASSUME OrderInv PROVE TimestampsIncrease
    BY DEF IInv
  <2> QED BY Zenon DEF OrderInv, TimestampsIncrease, Follows
<1> QED BY <1>1, SinkInvariant, PTL

\* In whatever order x264enc puts its frames, the offset of MseVideoSinkFeed.cpp:125 moves
\* each replay beyond all of the one before: the sink takes no frame that is as late as one
\* of a later replay.
THEOREM ReplaysAreLaterHolds == Spec => []ReplaysAreLater
<1>1. IInv => ReplaysAreLater
  <2> SUFFICES ASSUME TypeInv, OrderInv,
                      NEW n \in 1 .. Len(taken), NEW j \in 1 .. Len(taken),
                      NEW k \in 1 .. Len(taken), j <= n * NumFrames, n * NumFrames < k
               PROVE  taken[j] < taken[k]
    BY DEF IInv, ReplaysAreLater
  <2>1. PICK p \in Nat, a \in 0 .. NumFrames - 1 :
          j = p * NumFrames + a + 1 /\ taken[j] = TimeStamp(a) + p * TotalDuration
    BY Zenon DEF OrderInv, IsFrame
  <2>2. PICK q \in Nat, b \in 0 .. NumFrames - 1 :
          k = q * NumFrames + b + 1 /\ taken[k] = TimeStamp(b) + q * TotalDuration
    BY Zenon DEF OrderInv, IsFrame
  <2>3. n \in Nat /\ NumFrames \in Nat \ {0} /\ a \in Nat /\ b \in Nat
    BY Numbers
  <2>4. p < n
    <3> SUFFICES ASSUME p >= n PROVE FALSE
      BY <2>3
    <3>1. p - n \in Nat /\ (p - n) * NumFrames \in Nat
      BY <2>3, SMT
    <3>2. p * NumFrames = n * NumFrames + (p - n) * NumFrames /\ n * NumFrames \in Nat
      BY <2>3, SMT
    <3> QED BY <2>1, <2>3, <3>1, <3>2
  <2>5. n <= q
    <3> SUFFICES ASSUME n > q PROVE FALSE
      BY <2>3
    <3>1. n - q - 1 \in Nat /\ (n - q - 1) * NumFrames \in Nat
      BY <2>3, SMT
    <3>2. /\ n * NumFrames = q * NumFrames + NumFrames + (n - q - 1) * NumFrames
          /\ q * NumFrames \in Nat
      BY <2>3, SMT
    <3>3. b < NumFrames
      BY <2>2, <2>3
    <3> QED BY <2>2, <2>3, <3>1, <3>2, <3>3
  <2> QED BY <2>1, <2>2, <2>3, <2>4, <2>5, LaterReplay DEF TypeInv
<1> QED BY <1>1, SinkInvariant, PTL

\* No case fails a conforming sink, whenever its client connects, its data flow and its
\* messages are posted.
THEOREM ConformingSinkPassesHolds == Spec => []ConformingSinkPasses
<1>1. IInv => ConformingSinkPasses
  BY DEF IInv
<1> QED BY <1>1, SinkInvariant, PTL

\* A case that ends without a failed assertion has met none of the faults it is there to
\* catch (SinkEventDataPathTests.cpp, SinkCapsDataPathTests.cpp).
THEOREM FaultySinkIsCaughtHolds == Spec => []FaultySinkIsCaught
<1>1. IInv => FaultySinkIsCaught
  <2> SUFFICES ASSUME IInv, Finished, ~failed PROVE fault \notin Suite[case].catches
    BY DEF FaultySinkIsCaught, IInv, TypeInv
  <2>1. case \in DOMAIN Suite /\ pc = CaseLength(case) + 1
    <3>1. case \in DOMAIN Suite /\ pc \in 1 .. CaseLength(case) + 1
      BY DEF IInv, TypeInv
    <3>2. CaseLength(case) \in 6 .. 9 /\ CaseLength(case) = Len(Script)
      BY <3>1, LengthType DEF Script
    <3> QED BY <3>1, <3>2 DEF Finished, Over
  <2>2. SinkInv /\ PassedInv
    BY DEF IInv
  <2>3. fault \notin NotStarting
    <3>1. CaseLength(case) \in 6 .. 9
      BY <2>1, LengthType
    <3>2. sink.client /\ sink.playing
      BY <2>1, <2>2, <3>1, SMT DEF PassedInv
    <3>3. fault \notin {Silences("client"), Ignores("caps"), Silences("playing")}
      BY <2>2, <3>2 DEF SinkInv
    <3>4. fault \notin {Refuses("synthesise"), Refuses("construct"), Refuses("setState")}
      BY <2>1, <2>2, <3>1, SMT DEF PassedInv
    <3> QED BY <3>3, <3>4 DEF NotStarting
  <2>4. CASE case = "CapsAttachesSourceReachingPlaying"
    <3>1. fault \notin {Misanswers("position")}
      BY <2>1, <2>2, <2>4, SMT DEF PassedInv, CaseLength
    <3> QED BY <2>3, <2>4, <3>1, Catches
  <2>5. CASE case = "StreamCollectionTriggersAllSourcesAttached"
    <3>1. fault \notin {Refuses("reportStreamCollection")}
      BY <2>1, <2>2, <2>5, SMT DEF PassedInv, CaseLength
    <3> QED BY <2>3, <2>5, <3>1, Catches
  <2>6. CASE case = "SegmentEventAppliedToServerSource"
    <3>1. fault \notin {Refuses("sendSegment"), Ignores("segment")}
      BY <2>1, <2>2, <2>6, SMT DEF PassedInv, CaseLength
    <3> QED BY <2>3, <2>6, <3>1, Catches
  <2>7. CASE case = "EosEventReachesEndOfStream"
    <3>1. fault \notin {Silences("EOS")}
      BY <2>1, <2>2, <2>7, SMT DEF PassedInv, CaseLength
    <3> QED BY <2>3, <2>7, <3>1, Catches
  <2>8. CASE case = "FlushHonoursResetTime"
    <3>1. fault \notin {Silences("RESET_TIME")}
      BY <2>1, <2>2, <2>8, SMT DEF PassedInv, CaseLength
    <3> QED BY <2>3, <2>8, <3>1, Catches
  <2>9. CASE case = "InstantRateChangeSeekPostsRateRequest"
    <3>1. fault \notin {Silences("INSTANT_RATE_REQUEST")}
      BY <2>1, <2>2, <2>9, SMT DEF PassedInv, CaseLength
    <3> QED BY <2>3, <2>9, <3>1, Catches
  <2>10. CASE case = "UnknownUpstreamEventForwardedUpstream"
    <3>1. fault \notin {Silences("forward")}
      BY <2>1, <2>2, <2>10, SMT DEF PassedInv, CaseLength
    <3> QED BY <2>3, <2>10, <3>1, Catches
  <2>11. CASE case = "AvcCapsFieldsParsedReachingPlaying"
    BY <2>3, <2>11, Catches
  <2> QED BY <2>1, <2>4, <2>5, <2>6, <2>7, <2>8, <2>9, <2>10, <2>11, Zenon DEF Suite
<1> QED BY <1>1, SinkInvariant, PTL
===============================================================================
