--------------------- MODULE ClientCasesProofs --------------------------------
(***************************************************************************)
(* That every case on a control, a client, a player and a log handler      *)
(* passes a server and library that conform, fails on every fault it is    *)
(* there to catch, and leaves the server active: for every set of cases,   *)
(* every set of faults and any bounds on the tries and the losses, from    *)
(* one inductive invariant of ClientCases.                                 *)
(***************************************************************************)
EXTENDS ClientCases, Integers, SequenceTheorems, WellFoundedInduction, TLAPS

-----------------------------------------------------------------------------
(***************************************************************************)
(* The scripts, step by step.  Joining tuples first: each lemma is one     *)
(* length.                                                                 *)
(***************************************************************************)

\* Joining 2 and 1 steps.
LEMMA Join2_1 ==
  ASSUME NEW x1, NEW x2, NEW x3
  PROVE  <<x1, x2>> \o <<x3>>
           = <<x1, x2, x3>>
<1> DEFINE S == {x1, x2, x3}
           left == <<x1, x2>> \o <<x3>>
           right == <<x1, x2, x3>>
<1>1. /\ x1 \in S /\ x2 \in S /\ x3 \in S
  OBVIOUS
<1> HIDE DEF S
<1>2. left \in Seq(S) /\ right \in Seq(S)
  BY <1>1
<1>3. 3 = Len(left) /\ 3 = Len(right)
  BY <1>1
<1>4. \A i \in 1 .. 3 : left[i] = right[i]
  BY <1>1
<1> QED BY <1>2, <1>3, <1>4, SeqEqual

\* Joining 2 and 8 steps.
LEMMA Join2_8 ==
  ASSUME NEW x1, NEW x2, NEW x3, NEW x4, NEW x5, NEW x6, NEW x7, NEW x8,
         NEW x9, NEW x10
  PROVE  <<x1, x2>> \o <<x3, x4, x5, x6, x7, x8, x9, x10>>
           = <<x1, x2, x3, x4, x5, x6, x7, x8, x9, x10>>
<1> DEFINE S == {x1, x2, x3, x4, x5, x6, x7, x8, x9, x10}
           left == <<x1, x2>> \o <<x3, x4, x5, x6, x7, x8, x9, x10>>
           right == <<x1, x2, x3, x4, x5, x6, x7, x8, x9, x10>>
<1>1. /\ x1 \in S /\ x2 \in S /\ x3 \in S /\ x4 \in S /\ x5 \in S /\ x6 \in S
      /\ x7 \in S /\ x8 \in S /\ x9 \in S /\ x10 \in S
  OBVIOUS
<1> HIDE DEF S
<1>2. left \in Seq(S) /\ right \in Seq(S)
  BY <1>1
<1>3. 10 = Len(left) /\ 10 = Len(right)
  BY <1>1
<1>4. \A i \in 1 .. 10 : left[i] = right[i]
  BY <1>1
<1> QED BY <1>2, <1>3, <1>4, SeqEqual

\* Joining 2 and 4 steps.
LEMMA Join2_4 ==
  ASSUME NEW x1, NEW x2, NEW x3, NEW x4, NEW x5, NEW x6
  PROVE  <<x1, x2>> \o <<x3, x4, x5, x6>>
           = <<x1, x2, x3, x4, x5, x6>>
<1> DEFINE S == {x1, x2, x3, x4, x5, x6}
           left == <<x1, x2>> \o <<x3, x4, x5, x6>>
           right == <<x1, x2, x3, x4, x5, x6>>
<1>1. /\ x1 \in S /\ x2 \in S /\ x3 \in S /\ x4 \in S /\ x5 \in S /\ x6 \in S
  OBVIOUS
<1> HIDE DEF S
<1>2. left \in Seq(S) /\ right \in Seq(S)
  BY <1>1
<1>3. 6 = Len(left) /\ 6 = Len(right)
  BY <1>1
<1>4. \A i \in 1 .. 6 : left[i] = right[i]
  BY <1>1
<1> QED BY <1>2, <1>3, <1>4, SeqEqual

\* Joining 1 and 1 steps.
LEMMA Join1_1 ==
  ASSUME NEW x1, NEW x2
  PROVE  <<x1>> \o <<x2>>
           = <<x1, x2>>
<1> DEFINE S == {x1, x2}
           left == <<x1>> \o <<x2>>
           right == <<x1, x2>>
<1>1. /\ x1 \in S /\ x2 \in S
  OBVIOUS
<1> HIDE DEF S
<1>2. left \in Seq(S) /\ right \in Seq(S)
  BY <1>1
<1>3. 2 = Len(left) /\ 2 = Len(right)
  BY <1>1
<1>4. \A i \in 1 .. 2 : left[i] = right[i]
  BY <1>1
<1> QED BY <1>2, <1>3, <1>4, SeqEqual

\* Joining 1 and 7 steps.
LEMMA Join1_7 ==
  ASSUME NEW x1, NEW x2, NEW x3, NEW x4, NEW x5, NEW x6, NEW x7, NEW x8
  PROVE  <<x1>> \o <<x2, x3, x4, x5, x6, x7, x8>>
           = <<x1, x2, x3, x4, x5, x6, x7, x8>>
<1> DEFINE S == {x1, x2, x3, x4, x5, x6, x7, x8}
           left == <<x1>> \o <<x2, x3, x4, x5, x6, x7, x8>>
           right == <<x1, x2, x3, x4, x5, x6, x7, x8>>
<1>1. /\ x1 \in S /\ x2 \in S /\ x3 \in S /\ x4 \in S /\ x5 \in S /\ x6 \in S
      /\ x7 \in S /\ x8 \in S
  OBVIOUS
<1> HIDE DEF S
<1>2. left \in Seq(S) /\ right \in Seq(S)
  BY <1>1
<1>3. 8 = Len(left) /\ 8 = Len(right)
  BY <1>1
<1>4. \A i \in 1 .. 8 : left[i] = right[i]
  BY <1>1
<1> QED BY <1>2, <1>3, <1>4, SeqEqual

\* Joining 1 and 4 steps.
LEMMA Join1_4 ==
  ASSUME NEW x1, NEW x2, NEW x3, NEW x4, NEW x5
  PROVE  <<x1>> \o <<x2, x3, x4, x5>>
           = <<x1, x2, x3, x4, x5>>
<1> DEFINE S == {x1, x2, x3, x4, x5}
           left == <<x1>> \o <<x2, x3, x4, x5>>
           right == <<x1, x2, x3, x4, x5>>
<1>1. /\ x1 \in S /\ x2 \in S /\ x3 \in S /\ x4 \in S /\ x5 \in S
  OBVIOUS
<1> HIDE DEF S
<1>2. left \in Seq(S) /\ right \in Seq(S)
  BY <1>1
<1>3. 5 = Len(left) /\ 5 = Len(right)
  BY <1>1
<1>4. \A i \in 1 .. 5 : left[i] = right[i]
  BY <1>1
<1> QED BY <1>2, <1>3, <1>4, SeqEqual

\* Joining 1 and 2 steps.
LEMMA Join1_2 ==
  ASSUME NEW x1, NEW x2, NEW x3
  PROVE  <<x1>> \o <<x2, x3>>
           = <<x1, x2, x3>>
<1> DEFINE S == {x1, x2, x3}
           left == <<x1>> \o <<x2, x3>>
           right == <<x1, x2, x3>>
<1>1. /\ x1 \in S /\ x2 \in S /\ x3 \in S
  OBVIOUS
<1> HIDE DEF S
<1>2. left \in Seq(S) /\ right \in Seq(S)
  BY <1>1
<1>3. 3 = Len(left) /\ 3 = Len(right)
  BY <1>1
<1>4. \A i \in 1 .. 3 : left[i] = right[i]
  BY <1>1
<1> QED BY <1>2, <1>3, <1>4, SeqEqual

\* Joining 1 and 6 steps.
LEMMA Join1_6 ==
  ASSUME NEW x1, NEW x2, NEW x3, NEW x4, NEW x5, NEW x6, NEW x7
  PROVE  <<x1>> \o <<x2, x3, x4, x5, x6, x7>>
           = <<x1, x2, x3, x4, x5, x6, x7>>
<1> DEFINE S == {x1, x2, x3, x4, x5, x6, x7}
           left == <<x1>> \o <<x2, x3, x4, x5, x6, x7>>
           right == <<x1, x2, x3, x4, x5, x6, x7>>
<1>1. /\ x1 \in S /\ x2 \in S /\ x3 \in S /\ x4 \in S /\ x5 \in S /\ x6 \in S
      /\ x7 \in S
  OBVIOUS
<1> HIDE DEF S
<1>2. left \in Seq(S) /\ right \in Seq(S)
  BY <1>1
<1>3. 7 = Len(left) /\ 7 = Len(right)
  BY <1>1
<1>4. \A i \in 1 .. 7 : left[i] = right[i]
  BY <1>1
<1> QED BY <1>2, <1>3, <1>4, SeqEqual

\* Joining 1, 1 and 1 steps.
LEMMA Join1_1_1 ==
  ASSUME NEW x1, NEW x2, NEW x3
  PROVE  <<x1>> \o <<x2>> \o <<x3>>
           = <<x1, x2, x3>>
<1> DEFINE S == {x1, x2, x3}
           left == <<x1>> \o <<x2>> \o <<x3>>
           right == <<x1, x2, x3>>
<1>1. /\ x1 \in S /\ x2 \in S /\ x3 \in S
  OBVIOUS
<1> HIDE DEF S
<1>2. left \in Seq(S) /\ right \in Seq(S)
  BY <1>1
<1>3. 3 = Len(left) /\ 3 = Len(right)
  BY <1>1
<1>4. \A i \in 1 .. 3 : left[i] = right[i]
  BY <1>1
<1> QED BY <1>2, <1>3, <1>4, SeqEqual

\* Joining 1, 4 and 1 steps.
LEMMA Join1_4_1 ==
  ASSUME NEW x1, NEW x2, NEW x3, NEW x4, NEW x5, NEW x6
  PROVE  <<x1>> \o <<x2, x3, x4, x5>> \o <<x6>>
           = <<x1, x2, x3, x4, x5, x6>>
<1> DEFINE S == {x1, x2, x3, x4, x5, x6}
           left == <<x1>> \o <<x2, x3, x4, x5>> \o <<x6>>
           right == <<x1, x2, x3, x4, x5, x6>>
<1>1. /\ x1 \in S /\ x2 \in S /\ x3 \in S /\ x4 \in S /\ x5 \in S /\ x6 \in S
  OBVIOUS
<1> HIDE DEF S
<1>2. left \in Seq(S) /\ right \in Seq(S)
  BY <1>1
<1>3. 6 = Len(left) /\ 6 = Len(right)
  BY <1>1
<1>4. \A i \in 1 .. 6 : left[i] = right[i]
  BY <1>1
<1> QED BY <1>2, <1>3, <1>4, SeqEqual

\* Joining 1, 5 and 1 steps.
LEMMA Join1_5_1 ==
  ASSUME NEW x1, NEW x2, NEW x3, NEW x4, NEW x5, NEW x6, NEW x7
  PROVE  <<x1>> \o <<x2, x3, x4, x5, x6>> \o <<x7>>
           = <<x1, x2, x3, x4, x5, x6, x7>>
<1> DEFINE S == {x1, x2, x3, x4, x5, x6, x7}
           left == <<x1>> \o <<x2, x3, x4, x5, x6>> \o <<x7>>
           right == <<x1, x2, x3, x4, x5, x6, x7>>
<1>1. /\ x1 \in S /\ x2 \in S /\ x3 \in S /\ x4 \in S /\ x5 \in S /\ x6 \in S
      /\ x7 \in S
  OBVIOUS
<1> HIDE DEF S
<1>2. left \in Seq(S) /\ right \in Seq(S)
  BY <1>1
<1>3. 7 = Len(left) /\ 7 = Len(right)
  BY <1>1
<1>4. \A i \in 1 .. 7 : left[i] = right[i]
  BY <1>1
<1> QED BY <1>2, <1>3, <1>4, SeqEqual

\* Joining 1, 9 and 1 steps.
LEMMA Join1_9_1 ==
  ASSUME NEW x1, NEW x2, NEW x3, NEW x4, NEW x5, NEW x6, NEW x7, NEW x8,
         NEW x9, NEW x10, NEW x11
  PROVE  <<x1>> \o <<x2, x3, x4, x5, x6, x7, x8, x9, x10>> \o <<x11>>
           = <<x1, x2, x3, x4, x5, x6, x7, x8, x9, x10, x11>>
<1> DEFINE S == {x1, x2, x3, x4, x5, x6, x7, x8, x9, x10, x11}
           left == <<x1>> \o <<x2, x3, x4, x5, x6, x7, x8, x9, x10>> \o <<x11>>
           right == <<x1, x2, x3, x4, x5, x6, x7, x8, x9, x10, x11>>
<1>1. /\ x1 \in S /\ x2 \in S /\ x3 \in S /\ x4 \in S /\ x5 \in S /\ x6 \in S
      /\ x7 \in S /\ x8 \in S /\ x9 \in S /\ x10 \in S /\ x11 \in S
  OBVIOUS
<1> HIDE DEF S
<1>2. left \in Seq(S) /\ right \in Seq(S)
  BY <1>1
<1>3. 11 = Len(left) /\ 11 = Len(right)
  BY <1>1
<1>4. \A i \in 1 .. 11 : left[i] = right[i]
  BY <1>1
<1> QED BY <1>2, <1>3, <1>4, SeqEqual

\* Joining 1, 2 and 1 steps.
LEMMA Join1_2_1 ==
  ASSUME NEW x1, NEW x2, NEW x3, NEW x4
  PROVE  <<x1>> \o (<<x2, x3>> \o <<x4>>)
           = <<x1, x2, x3, x4>>
<1> DEFINE S == {x1, x2, x3, x4}
           left == <<x1>> \o (<<x2, x3>> \o <<x4>>)
           right == <<x1, x2, x3, x4>>
<1>1. /\ x1 \in S /\ x2 \in S /\ x3 \in S /\ x4 \in S
  OBVIOUS
<1> HIDE DEF S
<1>2. left \in Seq(S) /\ right \in Seq(S)
  BY <1>1
<1>3. 4 = Len(left) /\ 4 = Len(right)
  BY <1>1
<1>4. \A i \in 1 .. 4 : left[i] = right[i]
  BY <1>1
<1> QED BY <1>2, <1>3, <1>4, SeqEqual

\* Joining 1 and 3 steps.
LEMMA Join1_3 ==
  ASSUME NEW x1, NEW x2, NEW x3, NEW x4
  PROVE  <<x1>> \o <<x2, x3, x4>>
           = <<x1, x2, x3, x4>>
<1> DEFINE S == {x1, x2, x3, x4}
           left == <<x1>> \o <<x2, x3, x4>>
           right == <<x1, x2, x3, x4>>
<1>1. /\ x1 \in S /\ x2 \in S /\ x3 \in S /\ x4 \in S
  OBVIOUS
<1> HIDE DEF S
<1>2. left \in Seq(S) /\ right \in Seq(S)
  BY <1>1
<1>3. 4 = Len(left) /\ 4 = Len(right)
  BY <1>1
<1>4. \A i \in 1 .. 4 : left[i] = right[i]
  BY <1>1
<1> QED BY <1>2, <1>3, <1>4, SeqEqual

\* Joining 1 and 2 and 2 and 3 steps.
LEMMA Join1_2_2_3 ==
  ASSUME NEW x1, NEW x2, NEW x3, NEW x4, NEW x5, NEW x6, NEW x7, NEW x8
  PROVE  <<x1>> \o (<<x2, x3>> \o <<x4, x5>> \o <<x6, x7, x8>>)
           = <<x1, x2, x3, x4, x5, x6, x7, x8>>
<1> DEFINE S == {x1, x2, x3, x4, x5, x6, x7, x8}
           left == <<x1>> \o (<<x2, x3>> \o <<x4, x5>> \o <<x6, x7, x8>>)
           right == <<x1, x2, x3, x4, x5, x6, x7, x8>>
<1>1. /\ x1 \in S /\ x2 \in S /\ x3 \in S /\ x4 \in S /\ x5 \in S /\ x6 \in S
      /\ x7 \in S /\ x8 \in S
  OBVIOUS
<1> HIDE DEF S
<1>2. left \in Seq(S) /\ right \in Seq(S)
  BY <1>1
<1>3. 8 = Len(left) /\ 8 = Len(right)
  BY <1>1
<1>4. \A i \in 1 .. 8 : left[i] = right[i]
  BY <1>1
<1> QED BY <1>2, <1>3, <1>4, SeqEqual

\* The script of RegisterClientReturnsTrueAndWritesState.
LEMMA ScriptRegisterClientReturnsTrueAndWritesState ==
  Suite["RegisterClientReturnsTrueAndWritesState"].script
    = <<Setup("createControl"), Call("registerClient"), Get("definedState", TRUE)>>
<1> DEFINE s1 == Setup("createControl")
           s2 == Call("registerClient")
           s3 == Get("definedState", TRUE)
<1>1. Suite["RegisterClientReturnsTrueAndWritesState"] = RegisterClientReturnsTrueAndWritesState
  BY Zenon DEF Suite
<1>2. \A script, catches : Case(script, catches).script = script
  BY DEF Case
<1>3. <<s1, s2>> \o <<s3>>
        = <<s1, s2, s3>>
  <2> HIDE DEF s1, s2, s3
  <2> QED BY Join2_1
<1> QED BY <1>1, <1>2, <1>3, Zenon DEF RegisterClientReturnsTrueAndWritesState, Registering

\* The script of RegisteredClientLearnsRunningState.
LEMMA ScriptRegisteredClientLearnsRunningState ==
  Suite["RegisteredClientLearnsRunningState"].script
    = <<Setup("createControl"), Call("registerClient"), Get("appState", TRUE)>>
<1> DEFINE s1 == Setup("createControl")
           s2 == Call("registerClient")
           s3 == Get("appState", TRUE)
<1>1. Suite["RegisteredClientLearnsRunningState"] = RegisteredClientLearnsRunningState
  BY Zenon DEF Suite
<1>2. \A script, catches : Case(script, catches).script = script
  BY DEF Case
<1>3. <<s1, s2>> \o <<s3>>
        = <<s1, s2, s3>>
  <2> HIDE DEF s1, s2, s3
  <2> QED BY Join2_1
<1> QED BY <1>1, <1>2, <1>3, Zenon DEF RegisteredClientLearnsRunningState, Registering

\* The script of RegisteredClientIsNotifiedOfStateTransition.
LEMMA ScriptRegisteredClientIsNotifiedOfStateTransition ==
  Suite["RegisteredClientIsNotifiedOfStateTransition"].script
    = <<Setup("createControl"), Call("registerClient"), Get("appState", TRUE),
        SetMark, SetState("INACTIVE"), Await("INACTIVE"), SetMark,
        SetState("RUNNING"), Await("RUNNING"), RestoreActive>>
<1> DEFINE s1 == Setup("createControl")
           s2 == Call("registerClient")
           s3 == Get("appState", TRUE)
           s4 == SetMark
           s5 == SetState("INACTIVE")
           s6 == Await("INACTIVE")
           s7 == SetMark
           s8 == SetState("RUNNING")
           s9 == Await("RUNNING")
           s10 == RestoreActive
<1>1. Suite["RegisteredClientIsNotifiedOfStateTransition"]
       = RegisteredClientIsNotifiedOfStateTransition
  BY Zenon DEF Suite
<1>2. \A script, catches : Case(script, catches).script = script
  BY DEF Case
<1>3. <<s1, s2>> \o <<s3, s4, s5, s6, s7, s8, s9, s10>>
        = <<s1, s2, s3, s4, s5, s6, s7, s8, s9, s10>>
  <2> HIDE DEF s1, s2, s3, s4, s5, s6, s7, s8, s9, s10
  <2> QED BY Join2_8
<1> QED BY <1>1, <1>2, <1>3, Zenon DEF RegisteredClientIsNotifiedOfStateTransition, Registering

\* The script of ClientReleasedOnControlDestruction.
LEMMA ScriptClientReleasedOnControlDestruction ==
  Suite["ClientReleasedOnControlDestruction"].script
    = <<Setup("createControl"), Call("registerClient"), Plain("dropClient"),
        Get("expired", FALSE), Plain("destroyControl"), Get("expired", TRUE)>>
<1> DEFINE s1 == Setup("createControl")
           s2 == Call("registerClient")
           s3 == Plain("dropClient")
           s4 == Get("expired", FALSE)
           s5 == Plain("destroyControl")
           s6 == Get("expired", TRUE)
<1>1. Suite["ClientReleasedOnControlDestruction"] = ClientReleasedOnControlDestruction
  BY Zenon DEF Suite
<1>2. \A script, catches : Case(script, catches).script = script
  BY DEF Case
<1>3. <<s1, s2>> \o <<s3, s4, s5, s6>>
        = <<s1, s2, s3, s4, s5, s6>>
  <2> HIDE DEF s1, s2, s3, s4, s5, s6
  <2> QED BY Join2_4
<1> QED BY <1>1, <1>2, <1>3, Zenon DEF ClientReleasedOnControlDestruction, Registering

\* The script of CreateReturnsInstance.
LEMMA ScriptCreateReturnsInstance ==
  Suite["CreateReturnsInstance"].script
    = <<Setup("makePlayer"), Check("noFailure")>>
<1> DEFINE s1 == Setup("makePlayer")
           s2 == Check("noFailure")
<1>1. Suite["CreateReturnsInstance"] = CreateReturnsInstance
  BY Zenon DEF Suite
<1>2. \A script, catches : Case(script, catches).script = script
  BY DEF Case
<1>3. <<s1>> \o <<s2>>
        = <<s1, s2>>
  <2> HIDE DEF s1, s2
  <2> QED BY Join1_1
<1> QED BY <1>1, <1>2, <1>3, Zenon DEF CreateReturnsInstance, OnPlayer

\* The script of StateMachineNotifiesTransitions.
LEMMA ScriptStateMachineNotifiesTransitions ==
  Suite["StateMachineNotifiesTransitions"].script
    = <<Setup("makePlayer"), Call("play"), Await("PLAYING"), Call("pause"),
        Await("PAUSED"), Call("play"), Call("setEos"), Await("END_OF_STREAM")>>
<1> DEFINE s1 == Setup("makePlayer")
           s2 == Call("play")
           s3 == Await("PLAYING")
           s4 == Call("pause")
           s5 == Await("PAUSED")
           s6 == Call("play")
           s7 == Call("setEos")
           s8 == Await("END_OF_STREAM")
<1>1. Suite["StateMachineNotifiesTransitions"] = StateMachineNotifiesTransitions
  BY Zenon DEF Suite
<1>2. \A script, catches : Case(script, catches).script = script
  BY DEF Case
<1>3. <<s1>> \o <<s2, s3, s4, s5, s6, s7, s8>>
        = <<s1, s2, s3, s4, s5, s6, s7, s8>>
  <2> HIDE DEF s1, s2, s3, s4, s5, s6, s7, s8
  <2> QED BY Join1_7
<1> QED BY <1>1, <1>2, <1>3, Zenon DEF StateMachineNotifiesTransitions, OnPlayer

\* The script of GetBufferAvailableBoundsTheWrite.
LEMMA ScriptGetBufferAvailableBoundsTheWrite ==
  Suite["GetBufferAvailableBoundsTheWrite"].script
    = <<Setup("makePlayer"), Call("getDeviceInfo"), Call("getBufferAvailable"),
        Get("boundsTheWrite", TRUE), Call("writeBuffer")>>
<1> DEFINE s1 == Setup("makePlayer")
           s2 == Call("getDeviceInfo")
           s3 == Call("getBufferAvailable")
           s4 == Get("boundsTheWrite", TRUE)
           s5 == Call("writeBuffer")
<1>1. Suite["GetBufferAvailableBoundsTheWrite"] = GetBufferAvailableBoundsTheWrite
  BY Zenon DEF Suite
<1>2. \A script, catches : Case(script, catches).script = script
  BY DEF Case
<1>3. <<s1>> \o <<s2, s3, s4, s5>>
        = <<s1, s2, s3, s4, s5>>
  <2> HIDE DEF s1, s2, s3, s4, s5
  <2> QED BY Join1_4
<1> QED BY <1>1, <1>2, <1>3, Zenon DEF GetBufferAvailableBoundsTheWrite, OnPlayer

\* The script of GetBufferDelayReportsQueuedFrames.
LEMMA ScriptGetBufferDelayReportsQueuedFrames ==
  Suite["GetBufferDelayReportsQueuedFrames"].script
    = <<Setup("makePlayer"), Call("getBufferDelay"), Get("nothingQueued", TRUE)>>
<1> DEFINE s1 == Setup("makePlayer")
           s2 == Call("getBufferDelay")
           s3 == Get("nothingQueued", TRUE)
<1>1. Suite["GetBufferDelayReportsQueuedFrames"] = GetBufferDelayReportsQueuedFrames
  BY Zenon DEF Suite
<1>2. \A script, catches : Case(script, catches).script = script
  BY DEF Case
<1>3. <<s1>> \o <<s2, s3>>
        = <<s1, s2, s3>>
  <2> HIDE DEF s1, s2, s3
  <2> QED BY Join1_2
<1> QED BY <1>1, <1>2, <1>3, Zenon DEF GetBufferDelayReportsQueuedFrames, OnPlayer

\* The script of GetDeviceInfoReportsBufferSizing.
LEMMA ScriptGetDeviceInfoReportsBufferSizing ==
  Suite["GetDeviceInfoReportsBufferSizing"].script
    = <<Setup("makePlayer"), Call("getDeviceInfo"), Get("bufferSizing", TRUE)>>
<1> DEFINE s1 == Setup("makePlayer")
           s2 == Call("getDeviceInfo")
           s3 == Get("bufferSizing", TRUE)
<1>1. Suite["GetDeviceInfoReportsBufferSizing"] = GetDeviceInfoReportsBufferSizing
  BY Zenon DEF Suite
<1>2. \A script, catches : Case(script, catches).script = script
  BY DEF Case
<1>3. <<s1>> \o <<s2, s3>>
        = <<s1, s2, s3>>
  <2> HIDE DEF s1, s2, s3
  <2> QED BY Join1_2
<1> QED BY <1>1, <1>2, <1>3, Zenon DEF GetDeviceInfoReportsBufferSizing, OnPlayer

\* The script of VolumeRoundTrips.
LEMMA ScriptVolumeRoundTrips ==
  Suite["VolumeRoundTrips"].script
    = <<Setup("makePlayer"), Write("0.0"), Poll("0.0"), Write("0.5"),
        Poll("0.5"), Write("1.0"), Poll("1.0")>>
<1> DEFINE s1 == Setup("makePlayer")
           s2 == Write("0.0")
           s3 == Poll("0.0")
           s4 == Write("0.5")
           s5 == Poll("0.5")
           s6 == Write("1.0")
           s7 == Poll("1.0")
<1>1. Suite["VolumeRoundTrips"] = VolumeRoundTrips
  BY Zenon DEF Suite
<1>2. \A script, catches : Case(script, catches).script = script
  BY DEF Case
<1>3. <<s1>> \o <<s2, s3, s4, s5, s6, s7>>
        = <<s1, s2, s3, s4, s5, s6, s7>>
  <2> HIDE DEF s1, s2, s3, s4, s5, s6, s7
  <2> QED BY Join1_6
<1> QED BY <1>1, <1>2, <1>3, Zenon DEF VolumeRoundTrips, OnPlayer

\* The script of HighPriorityPlayerAppearsToFunction.
LEMMA ScriptHighPriorityPlayerAppearsToFunction ==
  Suite["HighPriorityPlayerAppearsToFunction"].script
    = <<Setup("makePlayer"), Call("getDeviceInfo"), Check("noFailure")>>
<1> DEFINE s1 == Setup("makePlayer")
           s2 == Call("getDeviceInfo")
           s3 == Check("noFailure")
<1>1. Suite["HighPriorityPlayerAppearsToFunction"] = HighPriorityPlayerAppearsToFunction
  BY Zenon DEF Suite
<1>2. \A script, catches : Case(script, catches).script = script
  BY DEF Case
<1>3. <<s1>> \o <<s2, s3>>
        = <<s1, s2, s3>>
  <2> HIDE DEF s1, s2, s3
  <2> QED BY Join1_2
<1> QED BY <1>1, <1>2, <1>3, Zenon DEF HighPriorityPlayerAppearsToFunction, OnPlayer

\* The script of GetClientReturnsSuppliedClient.
LEMMA ScriptGetClientReturnsSuppliedClient ==
  Suite["GetClientReturnsSuppliedClient"].script
    = <<Setup("makePlayer"), Get("suppliedClient", TRUE)>>
<1> DEFINE s1 == Setup("makePlayer")
           s2 == Get("suppliedClient", TRUE)
<1>1. Suite["GetClientReturnsSuppliedClient"] = GetClientReturnsSuppliedClient
  BY Zenon DEF Suite
<1>2. \A script, catches : Case(script, catches).script = script
  BY DEF Case
<1>3. <<s1>> \o <<s2>>
        = <<s1, s2>>
  <2> HIDE DEF s1, s2
  <2> QED BY Join1_1
<1> QED BY <1>1, <1>2, <1>3, Zenon DEF GetClientReturnsSuppliedClient, OnPlayer

\* The script of FactoryReturnsSingleton.
LEMMA ScriptFactoryReturnsSingleton ==
  Suite["FactoryReturnsSingleton"].script
    = <<Setup("clientLogControl"), Get("singleton", TRUE),
        Step("register", "handler", "none", "always")>>
<1> DEFINE s1 == Setup("clientLogControl")
           s2 == Get("singleton", TRUE)
           s3 == Step("register", "handler", "none", "always")
<1>1. Suite["FactoryReturnsSingleton"] = FactoryReturnsSingleton
  BY Zenon DEF Suite
<1>2. \A script, catches : Case(script, catches).script = script
  BY DEF Case
<1>3. <<s1>> \o <<s2>> \o <<s3>>
        = <<s1, s2, s3>>
  <2> HIDE DEF s1, s2, s3
  <2> QED BY Join1_1_1
<1> QED BY <1>1, <1>2, <1>3, Zenon DEF FactoryReturnsSingleton, OnLog, LogTearDown

\* The script of HandlerReceivesPopulatedRecords.
LEMMA ScriptHandlerReceivesPopulatedRecords ==
  Suite["HandlerReceivesPopulatedRecords"].script
    = <<Setup("clientLogControl"), Register("first"), Trigger, Await("first"),
        Get("populated", TRUE), Step("register", "handler", "none", "always")>>
<1> DEFINE s1 == Setup("clientLogControl")
           s2 == Register("first")
           s3 == Trigger
           s4 == Await("first")
           s5 == Get("populated", TRUE)
           s6 == Step("register", "handler", "none", "always")
<1>1. Suite["HandlerReceivesPopulatedRecords"] = HandlerReceivesPopulatedRecords
  BY Zenon DEF Suite
<1>2. \A script, catches : Case(script, catches).script = script
  BY DEF Case
<1>3. <<s1>> \o <<s2, s3, s4, s5>> \o <<s6>>
        = <<s1, s2, s3, s4, s5, s6>>
  <2> HIDE DEF s1, s2, s3, s4, s5, s6
  <2> QED BY Join1_4_1, SMTT(30)
<1> QED BY <1>1, <1>2, <1>3, Zenon DEF HandlerReceivesPopulatedRecords, OnLog, LogTearDown

\* The script of RegisteringNewHandlerReplacesPrevious.
LEMMA ScriptRegisteringNewHandlerReplacesPrevious ==
  Suite["RegisteringNewHandlerReplacesPrevious"].script
    = <<Setup("clientLogControl"), Register("first"), Trigger,
        Register("second"), Trigger, Await("second"),
        Step("register", "handler", "none", "always")>>
<1> DEFINE s1 == Setup("clientLogControl")
           s2 == Register("first")
           s3 == Trigger
           s4 == Register("second")
           s5 == Trigger
           s6 == Await("second")
           s7 == Step("register", "handler", "none", "always")
<1>1. Suite["RegisteringNewHandlerReplacesPrevious"] = RegisteringNewHandlerReplacesPrevious
  BY Zenon DEF Suite
<1>2. \A script, catches : Case(script, catches).script = script
  BY DEF Case
<1>3. <<s1>> \o <<s2, s3, s4, s5, s6>> \o <<s7>>
        = <<s1, s2, s3, s4, s5, s6, s7>>
  <2> HIDE DEF s1, s2, s3, s4, s5, s6, s7
  <2> QED BY Join1_5_1
<1> QED BY <1>1, <1>2, <1>3, Zenon DEF RegisteringNewHandlerReplacesPrevious, OnLog, LogTearDown

\* The script of NullHandlerCancelsDelivery.
LEMMA ScriptNullHandlerCancelsDelivery ==
  Suite["NullHandlerCancelsDelivery"].script
    = <<Setup("clientLogControl"), Register("first"), Trigger, Await("first"),
        Register("none"), Sleep, SetMark, Trigger, Glance("first"),
        Check("unchanged"), Step("register", "handler", "none", "always")>>
<1> DEFINE s1 == Setup("clientLogControl")
           s2 == Register("first")
           s3 == Trigger
           s4 == Await("first")
           s5 == Register("none")
           s6 == Sleep
           s7 == SetMark
           s8 == Trigger
           s9 == Glance("first")
           s10 == Check("unchanged")
           s11 == Step("register", "handler", "none", "always")
<1>1. Suite["NullHandlerCancelsDelivery"] = NullHandlerCancelsDelivery
  BY Zenon DEF Suite
<1>2. \A script, catches : Case(script, catches).script = script
  BY DEF Case
<1>3. <<s1>> \o <<s2, s3, s4, s5, s6, s7, s8, s9, s10>> \o <<s11>>
        = <<s1, s2, s3, s4, s5, s6, s7, s8, s9, s10, s11>>
  <2> HIDE DEF s1, s2, s3, s4, s5, s6, s7, s8, s9, s10, s11
  <2> QED BY Join1_9_1
<1> QED BY <1>1, <1>2, <1>3, Zenon DEF NullHandlerCancelsDelivery, OnLog, LogTearDown

\* The script of LoadAttachRemoveSource.
LEMMA ScriptLoadAttachRemoveSource ==
  Suite["LoadAttachRemoveSource"].script
    = <<Setup("createAndLoad"), Call("attachSource"), Get("validId", TRUE),
        Call("removeSource")>>
<1> DEFINE s1 == Setup("createAndLoad")
           s2 == Call("attachSource")
           s3 == Get("validId", TRUE)
           s4 == Call("removeSource")
<1>1. Suite["LoadAttachRemoveSource"] = LoadAttachRemoveSource
  BY Zenon DEF Suite
<1>2. \A script, catches : Case(script, catches).script = script
  BY DEF Case
<1>3. <<s1>> \o (<<s2, s3>> \o <<s4>>)
        = <<s1, s2, s3, s4>>
  <2> HIDE DEF s1, s2, s3, s4
  <2> QED BY Join1_2_1
<1> QED BY <1>1, <1>2, <1>3, Zenon DEF LoadAttachRemoveSource, OnLoaded, AttachSource

\* The script of AllSourcesAttachedIsLegalOnlyOnce.
LEMMA ScriptAllSourcesAttachedIsLegalOnlyOnce ==
  Suite["AllSourcesAttachedIsLegalOnlyOnce"].script
    = <<Setup("createAndLoad"), Call("attachSource"),
        Get("allSourcesAttached", TRUE), Get("allSourcesAttached", FALSE)>>
<1> DEFINE s1 == Setup("createAndLoad")
           s2 == Call("attachSource")
           s3 == Get("allSourcesAttached", TRUE)
           s4 == Get("allSourcesAttached", FALSE)
<1>1. Suite["AllSourcesAttachedIsLegalOnlyOnce"] = AllSourcesAttachedIsLegalOnlyOnce
  BY Zenon DEF Suite
<1>2. \A script, catches : Case(script, catches).script = script
  BY DEF Case
<1>3. <<s1>> \o <<s2, s3, s4>>
        = <<s1, s2, s3, s4>>
  <2> HIDE DEF s1, s2, s3, s4
  <2> QED BY Join1_3
<1> QED BY <1>1, <1>2, <1>3, Zenon DEF AllSourcesAttachedIsLegalOnlyOnce, OnLoaded

\* The script of MultiSourceAttachComposition.
LEMMA ScriptMultiSourceAttachComposition ==
  Suite["MultiSourceAttachComposition"].script
    = <<Setup("createAndLoad"), Call("attachSource"), Get("validId", TRUE),
        Call("attachSource"), Get("validId", TRUE), Get("distinctIds", TRUE),
        Get("allSourcesAttached", TRUE), Get("allSourcesAttached", FALSE)>>
<1> DEFINE s1 == Setup("createAndLoad")
           s2 == Call("attachSource")
           s3 == Get("validId", TRUE)
           s4 == Call("attachSource")
           s5 == Get("validId", TRUE)
           s6 == Get("distinctIds", TRUE)
           s7 == Get("allSourcesAttached", TRUE)
           s8 == Get("allSourcesAttached", FALSE)
<1>1. Suite["MultiSourceAttachComposition"] = MultiSourceAttachComposition
  BY Zenon DEF Suite
<1>2. \A script, catches : Case(script, catches).script = script
  BY DEF Case
<1>3. <<s1>> \o (<<s2, s3>> \o <<s4, s5>> \o <<s6, s7, s8>>)
        = <<s1, s2, s3, s4, s5, s6, s7, s8>>
  <2> HIDE DEF s1, s2, s3, s4, s5, s6, s7, s8
  <2> QED BY Join1_2_2_3
<1> QED BY <1>1, <1>2, <1>3, Zenon DEF MultiSourceAttachComposition, OnLoaded, AttachSource

-----------------------------------------------------------------------------
(***************************************************************************)
(* The cases, by their steps and by what their steps are like.             *)
(***************************************************************************)

\* The cases that the invariant speaks of, by short names.
Changing    == "RegisteredClientIsNotifiedOfStateTransition"
Releasing   == "ClientReleasedOnControlDestruction"
Playing     == "StateMachineNotifiesTransitions"
VolumeTrips == "VolumeRoundTrips"
Receiving   == "HandlerReceivesPopulatedRecords"
Replacing   == "RegisteringNewHandlerReplacesPrevious"
Cancelling  == "NullHandlerCancelsDelivery"
Attaching   == "AllSourcesAttachedIsLegalOnlyOnce"
Composing   == "MultiSourceAttachComposition"

\* The values of the server's state, of the player's moves and of the volume, and what
\* notices and tasks are made of.
States  == {"RUNNING", "INACTIVE"}
Moves   == {"PLAYING", "PAUSED", "END_OF_STREAM"}
Volumes == {"0.0", "0.5", "1.0"}
Notes   == States \cup Moves \cup {"first", "second", "FAILURE"}
Tasks   == {t \in [do : {"app", "player", "volume", "log"},
                   value : States \cup Moves \cup Volumes \cup {"record"}] :
              /\ t.do = "app" => t.value \in States
              /\ t.do = "player" => t.value \in Moves}

\* What a step k of case c is like, by how it is done.
Kinds(c, k, st) ==
  /\ st.must \in {"hold", "abort", "ignored", "always"}
  /\ st.must = "abort" => k = 1 /\ st.do = "call"
  /\ st.do = "write" =>
       c = VolumeTrips /\ st.must = "hold" /\ st.what = "property" /\ st.value \in Volumes
  /\ st.do = "call" =>
       /\ st.what # "property"
       /\ st.what = "registerClient" => k = 2
       /\ st.what = "makePlayer" => c # Changing
       /\ st.what \in {"play", "pause", "setEos"} => c = Playing
       /\ st.what = "triggerClientLogActivity" => c \in {Receiving, Replacing, Cancelling}
  /\ st.do = "sim" => c = Changing /\ st.value \in States
  /\ st.do = "restore" => c = Changing /\ st.must = "ignored"
  /\ st.do = "register" => st.value \in {"none", "first", "second"}
  /\ st.do = "get" =>
       /\ st.must = "hold"
       /\ st.what \notin {"expired", "allSourcesAttached"} => st.value = TRUE
       /\ st.what = "appState" /\ c = Changing => k = 3
       /\ st.what = "expired" => c = Releasing
       /\ st.what = "allSourcesAttached" => c \in {Attaching, Composing}
  /\ st.do = "await" =>
       /\ c \in {Changing, Playing, Receiving, Replacing, Cancelling}
       /\ st.must \in {"hold", "ignored"}
       /\ st.must = "ignored" => c = Cancelling
       /\ st.what \in Moves \cup {"INACTIVE", "RUNNING", "first", "second"}
       /\ st.what = "RUNNING" => c = Changing /\ k = 9
       /\ st.what = "second" => c = Replacing /\ k = 6
  /\ st.do = "poll" => c = VolumeTrips /\ st.must = "hold"
  /\ st.do = "check" =>
       /\ st.must = "hold"
       /\ \/ st.what = "noFailure"
          \/ st.what = "unchanged" /\ k = 10 /\ c = Cancelling

\* The cases by their steps, for those whose steps depend on one another: this one
\* moves the server to INACTIVE and back, and restores it.
LEMMA StepsChanging ==
  ASSUME case = Changing
  PROVE  /\ Finished <=> pc > 10
         /\ pc = 1 => Now = Setup("createControl")
         /\ pc = 2 => Now = Call("registerClient")
         /\ pc = 3 => Now = Get("appState", TRUE)
         /\ pc = 4 => Now = SetMark
         /\ pc = 5 => Now = SetState("INACTIVE")
         /\ pc = 6 => Now = Await("INACTIVE")
         /\ pc = 7 => Now = SetMark
         /\ pc = 8 => Now = SetState("RUNNING")
         /\ pc = 9 => Now = Await("RUNNING")
         /\ pc = 10 => Now = RestoreActive
<1>1. Script = <<Setup("createControl"), Call("registerClient"),
                 Get("appState", TRUE), SetMark, SetState("INACTIVE"),
                 Await("INACTIVE"), SetMark, SetState("RUNNING"),
                 Await("RUNNING"), RestoreActive>>
  BY ScriptRegisteredClientIsNotifiedOfStateTransition DEF Script, Changing
<1> DEFINE s1 == Setup("createControl")
           s2 == Call("registerClient")
           s3 == Get("appState", TRUE)
           s4 == SetMark
           s5 == SetState("INACTIVE")
           s6 == Await("INACTIVE")
           s7 == SetMark
           s8 == SetState("RUNNING")
           s9 == Await("RUNNING")
           s10 == RestoreActive
<1>2. Script = <<s1, s2, s3, s4, s5, s6, s7, s8, s9, s10>>
  BY <1>1
<1> HIDE DEF s1, s2, s3, s4, s5, s6, s7, s8, s9, s10
<1>3. /\ Finished <=> pc > 10
      /\ pc = 1 => Now = s1
      /\ pc = 2 => Now = s2
      /\ pc = 3 => Now = s3
      /\ pc = 4 => Now = s4
      /\ pc = 5 => Now = s5
      /\ pc = 6 => Now = s6
      /\ pc = 7 => Now = s7
      /\ pc = 8 => Now = s8
      /\ pc = 9 => Now = s9
      /\ pc = 10 => Now = s10
  BY <1>2 DEF Finished, Over, Now
<1> QED BY <1>3 DEF s1, s2, s3, s4, s5, s6, s7, s8, s9, s10

\* The case that drops its client and then the control.
LEMMA StepsReleasing ==
  ASSUME case = Releasing
  PROVE  /\ Finished <=> pc > 6
         /\ pc = 1 => Now = Setup("createControl")
         /\ pc = 2 => Now = Call("registerClient")
         /\ pc = 3 => Now = Plain("dropClient")
         /\ pc = 4 => Now = Get("expired", FALSE)
         /\ pc = 5 => Now = Plain("destroyControl")
         /\ pc = 6 => Now = Get("expired", TRUE)
<1>1. Script = <<Setup("createControl"), Call("registerClient"),
                 Plain("dropClient"), Get("expired", FALSE),
                 Plain("destroyControl"), Get("expired", TRUE)>>
  BY ScriptClientReleasedOnControlDestruction DEF Script, Releasing
<1> DEFINE s1 == Setup("createControl")
           s2 == Call("registerClient")
           s3 == Plain("dropClient")
           s4 == Get("expired", FALSE)
           s5 == Plain("destroyControl")
           s6 == Get("expired", TRUE)
<1>2. Script = <<s1, s2, s3, s4, s5, s6>>
  BY <1>1
<1> HIDE DEF s1, s2, s3, s4, s5, s6
<1>3. /\ Finished <=> pc > 6
      /\ pc = 1 => Now = s1
      /\ pc = 2 => Now = s2
      /\ pc = 3 => Now = s3
      /\ pc = 4 => Now = s4
      /\ pc = 5 => Now = s5
      /\ pc = 6 => Now = s6
  BY <1>2 DEF Finished, Over, Now
<1> QED BY <1>3 DEF s1, s2, s3, s4, s5, s6

\* The case that plays, pauses and ends a source.
LEMMA StepsPlaying ==
  ASSUME case = Playing
  PROVE  /\ Finished <=> pc > 8
         /\ pc = 1 => Now = Setup("makePlayer")
         /\ pc = 2 => Now = Call("play")
         /\ pc = 3 => Now = Await("PLAYING")
         /\ pc = 4 => Now = Call("pause")
         /\ pc = 5 => Now = Await("PAUSED")
         /\ pc = 6 => Now = Call("play")
         /\ pc = 7 => Now = Call("setEos")
         /\ pc = 8 => Now = Await("END_OF_STREAM")
<1>1. Script = <<Setup("makePlayer"), Call("play"), Await("PLAYING"),
                 Call("pause"), Await("PAUSED"), Call("play"), Call("setEos"),
                 Await("END_OF_STREAM")>>
  BY ScriptStateMachineNotifiesTransitions DEF Script, Playing
<1> DEFINE s1 == Setup("makePlayer")
           s2 == Call("play")
           s3 == Await("PLAYING")
           s4 == Call("pause")
           s5 == Await("PAUSED")
           s6 == Call("play")
           s7 == Call("setEos")
           s8 == Await("END_OF_STREAM")
<1>2. Script = <<s1, s2, s3, s4, s5, s6, s7, s8>>
  BY <1>1
<1> HIDE DEF s1, s2, s3, s4, s5, s6, s7, s8
<1>3. /\ Finished <=> pc > 8
      /\ pc = 1 => Now = s1
      /\ pc = 2 => Now = s2
      /\ pc = 3 => Now = s3
      /\ pc = 4 => Now = s4
      /\ pc = 5 => Now = s5
      /\ pc = 6 => Now = s6
      /\ pc = 7 => Now = s7
      /\ pc = 8 => Now = s8
  BY <1>2 DEF Finished, Over, Now
<1> QED BY <1>3 DEF s1, s2, s3, s4, s5, s6, s7, s8

\* The case that writes three volumes and polls for two of them.
LEMMA StepsVolumeTrips ==
  ASSUME case = VolumeTrips
  PROVE  /\ Finished <=> pc > 7
         /\ pc = 1 => Now = Setup("makePlayer")
         /\ pc = 2 => Now = Write("0.0")
         /\ pc = 3 => Now = Poll("0.0")
         /\ pc = 4 => Now = Write("0.5")
         /\ pc = 5 => Now = Poll("0.5")
         /\ pc = 6 => Now = Write("1.0")
         /\ pc = 7 => Now = Poll("1.0")
<1>1. Script = <<Setup("makePlayer"), Write("0.0"), Poll("0.0"), Write("0.5"),
                 Poll("0.5"), Write("1.0"), Poll("1.0")>>
  BY ScriptVolumeRoundTrips DEF Script, VolumeTrips
<1> DEFINE s1 == Setup("makePlayer")
           s2 == Write("0.0")
           s3 == Poll("0.0")
           s4 == Write("0.5")
           s5 == Poll("0.5")
           s6 == Write("1.0")
           s7 == Poll("1.0")
<1>2. Script = <<s1, s2, s3, s4, s5, s6, s7>>
  BY <1>1
<1> HIDE DEF s1, s2, s3, s4, s5, s6, s7
<1>3. /\ Finished <=> pc > 7
      /\ pc = 1 => Now = s1
      /\ pc = 2 => Now = s2
      /\ pc = 3 => Now = s3
      /\ pc = 4 => Now = s4
      /\ pc = 5 => Now = s5
      /\ pc = 6 => Now = s6
      /\ pc = 7 => Now = s7
  BY <1>2 DEF Finished, Over, Now
<1> QED BY <1>3 DEF s1, s2, s3, s4, s5, s6, s7

\* The case whose handler receives the records of one activity.
LEMMA StepsReceiving ==
  ASSUME case = Receiving
  PROVE  /\ Finished <=> pc > 6
         /\ pc = 1 => Now = Setup("clientLogControl")
         /\ pc = 2 => Now = Register("first")
         /\ pc = 3 => Now = Trigger
         /\ pc = 4 => Now = Await("first")
         /\ pc = 5 => Now = Get("populated", TRUE)
         /\ pc = 6 => Now = Step("register", "handler", "none", "always")
<1>1. Script = <<Setup("clientLogControl"), Register("first"), Trigger,
                 Await("first"), Get("populated", TRUE),
                 Step("register", "handler", "none", "always")>>
  BY ScriptHandlerReceivesPopulatedRecords DEF Script, Receiving
<1> DEFINE s1 == Setup("clientLogControl")
           s2 == Register("first")
           s3 == Trigger
           s4 == Await("first")
           s5 == Get("populated", TRUE)
           s6 == Step("register", "handler", "none", "always")
<1>2. Script = <<s1, s2, s3, s4, s5, s6>>
  BY <1>1
<1> HIDE DEF s1, s2, s3, s4, s5, s6
<1>3. /\ Finished <=> pc > 6
      /\ pc = 1 => Now = s1
      /\ pc = 2 => Now = s2
      /\ pc = 3 => Now = s3
      /\ pc = 4 => Now = s4
      /\ pc = 5 => Now = s5
      /\ pc = 6 => Now = s6
  BY <1>2 DEF Finished, Over, Now
<1> QED BY <1>3 DEF s1, s2, s3, s4, s5, s6

\* The case whose second handler replaces the first.
LEMMA StepsReplacing ==
  ASSUME case = Replacing
  PROVE  /\ Finished <=> pc > 7
         /\ pc = 1 => Now = Setup("clientLogControl")
         /\ pc = 2 => Now = Register("first")
         /\ pc = 3 => Now = Trigger
         /\ pc = 4 => Now = Register("second")
         /\ pc = 5 => Now = Trigger
         /\ pc = 6 => Now = Await("second")
         /\ pc = 7 => Now = Step("register", "handler", "none", "always")
<1>1. Script = <<Setup("clientLogControl"), Register("first"), Trigger,
                 Register("second"), Trigger, Await("second"),
                 Step("register", "handler", "none", "always")>>
  BY ScriptRegisteringNewHandlerReplacesPrevious DEF Script, Replacing
<1> DEFINE s1 == Setup("clientLogControl")
           s2 == Register("first")
           s3 == Trigger
           s4 == Register("second")
           s5 == Trigger
           s6 == Await("second")
           s7 == Step("register", "handler", "none", "always")
<1>2. Script = <<s1, s2, s3, s4, s5, s6, s7>>
  BY <1>1
<1> HIDE DEF s1, s2, s3, s4, s5, s6, s7
<1>3. /\ Finished <=> pc > 7
      /\ pc = 1 => Now = s1
      /\ pc = 2 => Now = s2
      /\ pc = 3 => Now = s3
      /\ pc = 4 => Now = s4
      /\ pc = 5 => Now = s5
      /\ pc = 6 => Now = s6
      /\ pc = 7 => Now = s7
  BY <1>2 DEF Finished, Over, Now
<1> QED BY <1>3 DEF s1, s2, s3, s4, s5, s6, s7

\* The case that takes its handler back.
LEMMA StepsCancelling ==
  ASSUME case = Cancelling
  PROVE  /\ Finished <=> pc > 11
         /\ pc = 1 => Now = Setup("clientLogControl")
         /\ pc = 2 => Now = Register("first")
         /\ pc = 3 => Now = Trigger
         /\ pc = 4 => Now = Await("first")
         /\ pc = 5 => Now = Register("none")
         /\ pc = 6 => Now = Sleep
         /\ pc = 7 => Now = SetMark
         /\ pc = 8 => Now = Trigger
         /\ pc = 9 => Now = Glance("first")
         /\ pc = 10 => Now = Check("unchanged")
         /\ pc = 11 => Now = Step("register", "handler", "none", "always")
<1>1. Script = <<Setup("clientLogControl"), Register("first"), Trigger,
                 Await("first"), Register("none"), Sleep, SetMark, Trigger,
                 Glance("first"), Check("unchanged"),
                 Step("register", "handler", "none", "always")>>
  BY ScriptNullHandlerCancelsDelivery DEF Script, Cancelling
<1> DEFINE s1 == Setup("clientLogControl")
           s2 == Register("first")
           s3 == Trigger
           s4 == Await("first")
           s5 == Register("none")
           s6 == Sleep
           s7 == SetMark
           s8 == Trigger
           s9 == Glance("first")
           s10 == Check("unchanged")
           s11 == Step("register", "handler", "none", "always")
<1>2. Script = <<s1, s2, s3, s4, s5, s6, s7, s8, s9, s10, s11>>
  BY <1>1
<1> HIDE DEF s1, s2, s3, s4, s5, s6, s7, s8, s9, s10, s11
<1>3. /\ Finished <=> pc > 11
      /\ pc = 1 => Now = s1
      /\ pc = 2 => Now = s2
      /\ pc = 3 => Now = s3
      /\ pc = 4 => Now = s4
      /\ pc = 5 => Now = s5
      /\ pc = 6 => Now = s6
      /\ pc = 7 => Now = s7
      /\ pc = 8 => Now = s8
      /\ pc = 9 => Now = s9
      /\ pc = 10 => Now = s10
      /\ pc = 11 => Now = s11
  BY <1>2 DEF Finished, Over, Now
<1> QED BY <1>3 DEF s1, s2, s3, s4, s5, s6, s7, s8, s9, s10, s11

\* The case that attaches all sources twice.
LEMMA StepsAttaching ==
  ASSUME case = Attaching
  PROVE  /\ Finished <=> pc > 4
         /\ pc = 1 => Now = Setup("createAndLoad")
         /\ pc = 2 => Now = Call("attachSource")
         /\ pc = 3 => Now = Get("allSourcesAttached", TRUE)
         /\ pc = 4 => Now = Get("allSourcesAttached", FALSE)
<1>1. Script = <<Setup("createAndLoad"), Call("attachSource"),
                 Get("allSourcesAttached", TRUE),
                 Get("allSourcesAttached", FALSE)>>
  BY ScriptAllSourcesAttachedIsLegalOnlyOnce DEF Script, Attaching
<1> DEFINE s1 == Setup("createAndLoad")
           s2 == Call("attachSource")
           s3 == Get("allSourcesAttached", TRUE)
           s4 == Get("allSourcesAttached", FALSE)
<1>2. Script = <<s1, s2, s3, s4>>
  BY <1>1
<1> HIDE DEF s1, s2, s3, s4
<1>3. /\ Finished <=> pc > 4
      /\ pc = 1 => Now = s1
      /\ pc = 2 => Now = s2
      /\ pc = 3 => Now = s3
      /\ pc = 4 => Now = s4
  BY <1>2 DEF Finished, Over, Now
<1> QED BY <1>3 DEF s1, s2, s3, s4

\* The same, with two sources.
LEMMA StepsComposing ==
  ASSUME case = Composing
  PROVE  /\ Finished <=> pc > 8
         /\ pc = 1 => Now = Setup("createAndLoad")
         /\ pc = 2 => Now = Call("attachSource")
         /\ pc = 3 => Now = Get("validId", TRUE)
         /\ pc = 4 => Now = Call("attachSource")
         /\ pc = 5 => Now = Get("validId", TRUE)
         /\ pc = 6 => Now = Get("distinctIds", TRUE)
         /\ pc = 7 => Now = Get("allSourcesAttached", TRUE)
         /\ pc = 8 => Now = Get("allSourcesAttached", FALSE)
<1>1. Script = <<Setup("createAndLoad"), Call("attachSource"),
                 Get("validId", TRUE), Call("attachSource"),
                 Get("validId", TRUE), Get("distinctIds", TRUE),
                 Get("allSourcesAttached", TRUE),
                 Get("allSourcesAttached", FALSE)>>
  BY ScriptMultiSourceAttachComposition DEF Script, Composing
<1> DEFINE s1 == Setup("createAndLoad")
           s2 == Call("attachSource")
           s3 == Get("validId", TRUE)
           s4 == Call("attachSource")
           s5 == Get("validId", TRUE)
           s6 == Get("distinctIds", TRUE)
           s7 == Get("allSourcesAttached", TRUE)
           s8 == Get("allSourcesAttached", FALSE)
<1>2. Script = <<s1, s2, s3, s4, s5, s6, s7, s8>>
  BY <1>1
<1> HIDE DEF s1, s2, s3, s4, s5, s6, s7, s8
<1>3. /\ Finished <=> pc > 8
      /\ pc = 1 => Now = s1
      /\ pc = 2 => Now = s2
      /\ pc = 3 => Now = s3
      /\ pc = 4 => Now = s4
      /\ pc = 5 => Now = s5
      /\ pc = 6 => Now = s6
      /\ pc = 7 => Now = s7
      /\ pc = 8 => Now = s8
  BY <1>2 DEF Finished, Over, Now
<1> QED BY <1>3 DEF s1, s2, s3, s4, s5, s6, s7, s8

\* Every step of every script is what Kinds says, and a script has at most so many.
LEMMA ScriptKinds ==
  ASSUME NEW c \in DOMAIN Suite
  PROVE  /\ Len(Suite[c].script) \in Nat \ {0}
         /\ \A k \in 1 .. Len(Suite[c].script) : Kinds(c, k, Suite[c].script[k])
<1> USE DEF Changing, Releasing, Playing, VolumeTrips, Receiving, Replacing, Cancelling,
    Attaching,
        Composing
<1>1. CASE c = "RegisterClientReturnsTrueAndWritesState"
  <2> DEFINE s == Suite[c].script
  <2>1. PICK n \in Nat \ {0} : n = 3 /\ n = Len(s)
    BY <1>1, ScriptRegisterClientReturnsTrueAndWritesState
  <2>2. ASSUME NEW k \in 1 .. n
        PROVE  Kinds(c, k, s[k])
    <3>1. k = 1 \/ k = 2 \/ k = 3
      BY <2>1
    <3> QED BY <1>1, <3>1, ScriptRegisterClientReturnsTrueAndWritesState
            DEF Kinds, Setup, Call, Plain, Get, Await, Check, Write, Poll, Register, Trigger,
                Glance, Sleep, SetMark, SetState, RestoreActive, Step, States, Volumes, Moves
  <2> QED BY <2>1, <2>2
<1>2. CASE c = "RegisteredClientLearnsRunningState"
  <2> DEFINE s == Suite[c].script
  <2>1. PICK n \in Nat \ {0} : n = 3 /\ n = Len(s)
    BY <1>2, ScriptRegisteredClientLearnsRunningState
  <2>2. ASSUME NEW k \in 1 .. n
        PROVE  Kinds(c, k, s[k])
    <3>1. k = 1 \/ k = 2 \/ k = 3
      BY <2>1
    <3> QED BY <1>2, <3>1, ScriptRegisteredClientLearnsRunningState
            DEF Kinds, Setup, Call, Plain, Get, Await, Check, Write, Poll, Register, Trigger,
                Glance, Sleep, SetMark, SetState, RestoreActive, Step, States, Volumes, Moves
  <2> QED BY <2>1, <2>2
<1>3. CASE c = "RegisteredClientIsNotifiedOfStateTransition"
  <2> DEFINE s == Suite[c].script
  <2>1. PICK n \in Nat \ {0} : n = 10 /\ n = Len(s)
    BY <1>3, ScriptRegisteredClientIsNotifiedOfStateTransition
  <2>2. ASSUME NEW k \in 1 .. n
        PROVE  Kinds(c, k, s[k])
    <3>1. k = 1 \/ k = 2 \/ k = 3 \/ k = 4 \/ k = 5 \/ k = 6 \/ k = 7 \/ k = 8 \/ k = 9 \/ k = 10
      BY <2>1
    <3> QED BY <1>3, <3>1, ScriptRegisteredClientIsNotifiedOfStateTransition
            DEF Kinds, Setup, Call, Plain, Get, Await, Check, Write, Poll, Register, Trigger,
                Glance, Sleep, SetMark, SetState, RestoreActive, Step, States, Volumes, Moves
  <2> QED BY <2>1, <2>2
<1>4. CASE c = "ClientReleasedOnControlDestruction"
  <2> DEFINE s == Suite[c].script
  <2>1. PICK n \in Nat \ {0} : n = 6 /\ n = Len(s)
    BY <1>4, ScriptClientReleasedOnControlDestruction
  <2>2. ASSUME NEW k \in 1 .. n
        PROVE  Kinds(c, k, s[k])
    <3>1. k = 1 \/ k = 2 \/ k = 3 \/ k = 4 \/ k = 5 \/ k = 6
      BY <2>1
    <3> QED BY <1>4, <3>1, ScriptClientReleasedOnControlDestruction
            DEF Kinds, Setup, Call, Plain, Get, Await, Check, Write, Poll, Register, Trigger,
                Glance, Sleep, SetMark, SetState, RestoreActive, Step, States, Volumes, Moves
  <2> QED BY <2>1, <2>2
<1>5. CASE c = "CreateReturnsInstance"
  <2> DEFINE s == Suite[c].script
  <2>1. PICK n \in Nat \ {0} : n = 2 /\ n = Len(s)
    BY <1>5, ScriptCreateReturnsInstance
  <2>2. ASSUME NEW k \in 1 .. n
        PROVE  Kinds(c, k, s[k])
    <3>1. k = 1 \/ k = 2
      BY <2>1
    <3> QED BY <1>5, <3>1, ScriptCreateReturnsInstance
            DEF Kinds, Setup, Call, Plain, Get, Await, Check, Write, Poll, Register, Trigger,
                Glance, Sleep, SetMark, SetState, RestoreActive, Step, States, Volumes, Moves
  <2> QED BY <2>1, <2>2
<1>6. CASE c = "StateMachineNotifiesTransitions"
  <2> DEFINE s == Suite[c].script
  <2>1. PICK n \in Nat \ {0} : n = 8 /\ n = Len(s)
    BY <1>6, ScriptStateMachineNotifiesTransitions
  <2>2. ASSUME NEW k \in 1 .. n
        PROVE  Kinds(c, k, s[k])
    <3>1. k = 1 \/ k = 2 \/ k = 3 \/ k = 4 \/ k = 5 \/ k = 6 \/ k = 7 \/ k = 8
      BY <2>1
    <3> QED BY <1>6, <3>1, ScriptStateMachineNotifiesTransitions
            DEF Kinds, Setup, Call, Plain, Get, Await, Check, Write, Poll, Register, Trigger,
                Glance, Sleep, SetMark, SetState, RestoreActive, Step, States, Volumes, Moves
  <2> QED BY <2>1, <2>2
<1>7. CASE c = "GetBufferAvailableBoundsTheWrite"
  <2> DEFINE s == Suite[c].script
  <2>1. PICK n \in Nat \ {0} : n = 5 /\ n = Len(s)
    BY <1>7, ScriptGetBufferAvailableBoundsTheWrite
  <2>2. ASSUME NEW k \in 1 .. n
        PROVE  Kinds(c, k, s[k])
    <3>1. k = 1 \/ k = 2 \/ k = 3 \/ k = 4 \/ k = 5
      BY <2>1
    <3> QED BY <1>7, <3>1, ScriptGetBufferAvailableBoundsTheWrite
            DEF Kinds, Setup, Call, Plain, Get, Await, Check, Write, Poll, Register, Trigger,
                Glance, Sleep, SetMark, SetState, RestoreActive, Step, States, Volumes, Moves
  <2> QED BY <2>1, <2>2
<1>8. CASE c = "GetBufferDelayReportsQueuedFrames"
  <2> DEFINE s == Suite[c].script
  <2>1. PICK n \in Nat \ {0} : n = 3 /\ n = Len(s)
    BY <1>8, ScriptGetBufferDelayReportsQueuedFrames
  <2>2. ASSUME NEW k \in 1 .. n
        PROVE  Kinds(c, k, s[k])
    <3>1. k = 1 \/ k = 2 \/ k = 3
      BY <2>1
    <3> QED BY <1>8, <3>1, ScriptGetBufferDelayReportsQueuedFrames
            DEF Kinds, Setup, Call, Plain, Get, Await, Check, Write, Poll, Register, Trigger,
                Glance, Sleep, SetMark, SetState, RestoreActive, Step, States, Volumes, Moves
  <2> QED BY <2>1, <2>2
<1>9. CASE c = "GetDeviceInfoReportsBufferSizing"
  <2> DEFINE s == Suite[c].script
  <2>1. PICK n \in Nat \ {0} : n = 3 /\ n = Len(s)
    BY <1>9, ScriptGetDeviceInfoReportsBufferSizing
  <2>2. ASSUME NEW k \in 1 .. n
        PROVE  Kinds(c, k, s[k])
    <3>1. k = 1 \/ k = 2 \/ k = 3
      BY <2>1
    <3> QED BY <1>9, <3>1, ScriptGetDeviceInfoReportsBufferSizing
            DEF Kinds, Setup, Call, Plain, Get, Await, Check, Write, Poll, Register, Trigger,
                Glance, Sleep, SetMark, SetState, RestoreActive, Step, States, Volumes, Moves
  <2> QED BY <2>1, <2>2
<1>10. CASE c = "VolumeRoundTrips"
  <2> DEFINE s == Suite[c].script
  <2>1. PICK n \in Nat \ {0} : n = 7 /\ n = Len(s)
    BY <1>10, ScriptVolumeRoundTrips
  <2>2. ASSUME NEW k \in 1 .. n
        PROVE  Kinds(c, k, s[k])
    <3>1. k = 1 \/ k = 2 \/ k = 3 \/ k = 4 \/ k = 5 \/ k = 6 \/ k = 7
      BY <2>1
    <3> QED BY <1>10, <3>1, ScriptVolumeRoundTrips
            DEF Kinds, Setup, Call, Plain, Get, Await, Check, Write, Poll, Register, Trigger,
                Glance, Sleep, SetMark, SetState, RestoreActive, Step, States, Volumes, Moves
  <2> QED BY <2>1, <2>2
<1>11. CASE c = "HighPriorityPlayerAppearsToFunction"
  <2> DEFINE s == Suite[c].script
  <2>1. PICK n \in Nat \ {0} : n = 3 /\ n = Len(s)
    BY <1>11, ScriptHighPriorityPlayerAppearsToFunction
  <2>2. ASSUME NEW k \in 1 .. n
        PROVE  Kinds(c, k, s[k])
    <3>1. k = 1 \/ k = 2 \/ k = 3
      BY <2>1
    <3> QED BY <1>11, <3>1, ScriptHighPriorityPlayerAppearsToFunction
            DEF Kinds, Setup, Call, Plain, Get, Await, Check, Write, Poll, Register, Trigger,
                Glance, Sleep, SetMark, SetState, RestoreActive, Step, States, Volumes, Moves
  <2> QED BY <2>1, <2>2
<1>12. CASE c = "GetClientReturnsSuppliedClient"
  <2> DEFINE s == Suite[c].script
  <2>1. PICK n \in Nat \ {0} : n = 2 /\ n = Len(s)
    BY <1>12, ScriptGetClientReturnsSuppliedClient
  <2>2. ASSUME NEW k \in 1 .. n
        PROVE  Kinds(c, k, s[k])
    <3>1. k = 1 \/ k = 2
      BY <2>1
    <3> QED BY <1>12, <3>1, ScriptGetClientReturnsSuppliedClient
            DEF Kinds, Setup, Call, Plain, Get, Await, Check, Write, Poll, Register, Trigger,
                Glance, Sleep, SetMark, SetState, RestoreActive, Step, States, Volumes, Moves
  <2> QED BY <2>1, <2>2
<1>13. CASE c = "FactoryReturnsSingleton"
  <2> DEFINE s == Suite[c].script
  <2>1. PICK n \in Nat \ {0} : n = 3 /\ n = Len(s)
    BY <1>13, ScriptFactoryReturnsSingleton
  <2>2. ASSUME NEW k \in 1 .. n
        PROVE  Kinds(c, k, s[k])
    <3>1. k = 1 \/ k = 2 \/ k = 3
      BY <2>1
    <3> QED BY <1>13, <3>1, ScriptFactoryReturnsSingleton
            DEF Kinds, Setup, Call, Plain, Get, Await, Check, Write, Poll, Register, Trigger,
                Glance, Sleep, SetMark, SetState, RestoreActive, Step, States, Volumes, Moves
  <2> QED BY <2>1, <2>2
<1>14. CASE c = "HandlerReceivesPopulatedRecords"
  <2> DEFINE s == Suite[c].script
  <2>1. PICK n \in Nat \ {0} : n = 6 /\ n = Len(s)
    BY <1>14, ScriptHandlerReceivesPopulatedRecords
  <2>2. ASSUME NEW k \in 1 .. n
        PROVE  Kinds(c, k, s[k])
    <3>1. k = 1 \/ k = 2 \/ k = 3 \/ k = 4 \/ k = 5 \/ k = 6
      BY <2>1
    <3> QED BY <1>14, <3>1, ScriptHandlerReceivesPopulatedRecords
            DEF Kinds, Setup, Call, Plain, Get, Await, Check, Write, Poll, Register, Trigger,
                Glance, Sleep, SetMark, SetState, RestoreActive, Step, States, Volumes, Moves
  <2> QED BY <2>1, <2>2
<1>15. CASE c = "RegisteringNewHandlerReplacesPrevious"
  <2> DEFINE s == Suite[c].script
  <2>1. PICK n \in Nat \ {0} : n = 7 /\ n = Len(s)
    BY <1>15, ScriptRegisteringNewHandlerReplacesPrevious
  <2>2. ASSUME NEW k \in 1 .. n
        PROVE  Kinds(c, k, s[k])
    <3>1. k = 1 \/ k = 2 \/ k = 3 \/ k = 4 \/ k = 5 \/ k = 6 \/ k = 7
      BY <2>1
    <3> QED BY <1>15, <3>1, ScriptRegisteringNewHandlerReplacesPrevious
            DEF Kinds, Setup, Call, Plain, Get, Await, Check, Write, Poll, Register, Trigger,
                Glance, Sleep, SetMark, SetState, RestoreActive, Step, States, Volumes, Moves
  <2> QED BY <2>1, <2>2
<1>16. CASE c = "NullHandlerCancelsDelivery"
  <2> DEFINE s == Suite[c].script
  <2>1. PICK n \in Nat \ {0} : n = 11 /\ n = Len(s)
    BY <1>16, ScriptNullHandlerCancelsDelivery
  <2>2. ASSUME NEW k \in 1 .. n
        PROVE  Kinds(c, k, s[k])
    <3>1. k = 1 \/ k = 2 \/ k = 3 \/ k = 4 \/ k = 5 \/ k = 6 \/ k = 7 \/ k = 8 \/ k = 9
          \/ k = 10 \/ k = 11
      BY <2>1
    <3> QED BY <1>16, <3>1, ScriptNullHandlerCancelsDelivery
            DEF Kinds, Setup, Call, Plain, Get, Await, Check, Write, Poll, Register, Trigger,
                Glance, Sleep, SetMark, SetState, RestoreActive, Step, States, Volumes, Moves
  <2> QED BY <2>1, <2>2
<1>17. CASE c = "LoadAttachRemoveSource"
  <2> DEFINE s == Suite[c].script
  <2>1. PICK n \in Nat \ {0} : n = 4 /\ n = Len(s)
    BY <1>17, ScriptLoadAttachRemoveSource
  <2>2. ASSUME NEW k \in 1 .. n
        PROVE  Kinds(c, k, s[k])
    <3>1. k = 1 \/ k = 2 \/ k = 3 \/ k = 4
      BY <2>1
    <3> QED BY <1>17, <3>1, ScriptLoadAttachRemoveSource
            DEF Kinds, Setup, Call, Plain, Get, Await, Check, Write, Poll, Register, Trigger,
                Glance, Sleep, SetMark, SetState, RestoreActive, Step, States, Volumes, Moves
  <2> QED BY <2>1, <2>2
<1>18. CASE c = "AllSourcesAttachedIsLegalOnlyOnce"
  <2> DEFINE s == Suite[c].script
  <2>1. PICK n \in Nat \ {0} : n = 4 /\ n = Len(s)
    BY <1>18, ScriptAllSourcesAttachedIsLegalOnlyOnce
  <2>2. ASSUME NEW k \in 1 .. n
        PROVE  Kinds(c, k, s[k])
    <3>1. k = 1 \/ k = 2 \/ k = 3 \/ k = 4
      BY <2>1
    <3> QED BY <1>18, <3>1, ScriptAllSourcesAttachedIsLegalOnlyOnce
            DEF Kinds, Setup, Call, Plain, Get, Await, Check, Write, Poll, Register, Trigger,
                Glance, Sleep, SetMark, SetState, RestoreActive, Step, States, Volumes, Moves
  <2> QED BY <2>1, <2>2
<1>19. CASE c = "MultiSourceAttachComposition"
  <2> DEFINE s == Suite[c].script
  <2>1. PICK n \in Nat \ {0} : n = 8 /\ n = Len(s)
    BY <1>19, ScriptMultiSourceAttachComposition
  <2>2. ASSUME NEW k \in 1 .. n
        PROVE  Kinds(c, k, s[k])
    <3>1. k = 1 \/ k = 2 \/ k = 3 \/ k = 4 \/ k = 5 \/ k = 6 \/ k = 7 \/ k = 8
      BY <2>1
    <3> QED BY <1>19, <3>1, ScriptMultiSourceAttachComposition
            DEF Kinds, Setup, Call, Plain, Get, Await, Check, Write, Poll, Register, Trigger,
                Glance, Sleep, SetMark, SetState, RestoreActive, Step, States, Volumes, Moves
  <2> QED BY <2>1, <2>2
<1> QED BY <1>1, <1>2, <1>3, <1>4, <1>5, <1>6, <1>7, <1>8, <1>9, <1>10, <1>11, <1>12, <1>13,
           <1>14, <1>15, <1>16, <1>17, <1>18, <1>19, Zenon DEF Suite

-----------------------------------------------------------------------------
(***************************************************************************)
(* The inductive invariant.                                                *)
(***************************************************************************)

\* Types, with the queues as sequences of known notices and tasks.
TypeInv ==
  /\ case \in DOMAIN Suite
  /\ pc \in 1 .. Len(Script) + 1
  /\ failed \in BOOLEAN
  /\ heard \in Seq(Notes) /\ mark \in 0 .. Len(heard)
  /\ notices \in Seq(Notes)
  /\ tasks \in Seq(Tasks)
  /\ app \in States
  /\ sources \in [count : Int, all : BOOLEAN]
  /\ owners \subseteq {"case", "control"}
  /\ handler \in {"none", "first", "second"}
  /\ tries \in 0 .. MaxTries
  /\ lost \in 0 .. MaxLost

\* What is to be done, on its way to the client, seen by it; or ahead: on its way, or seen
\* since the mark.
Has(s, x)  == \E i \in DOMAIN s : s[i] = x
Due(task)  == Has(tasks, task)
Coming(n)  == Has(notices, n)
Seen(n)    == Has(heard, n)
Ahead(n)   == Coming(n) \/ Observed(n)

\* The state the server is in once it has done what it was asked.
Target == IF tasks = << >> THEN app ELSE tasks[Len(tasks)].value

\* Only one case changes the state of the server.
QuietInv ==
  case # Changing => app = "RUNNING" /\ \A t \in Tasks : Due(t) => t.do # "app"

\* A notice that is silenced is never on its way, nor a failure unless it breaks.
SilenceInv ==
  /\ \A n \in Moves \cup {"INACTIVE"} : fault = Silences(n) => ~Coming(n) /\ ~Seen(n)
  /\ fault = Silences("log") => \A n \in {"first", "second"} : ~Coming(n) /\ ~Seen(n)
  /\ fault # Breaks("makePlayer") => ~Coming("FAILURE") /\ ~Seen("FAILURE")

\* The case that changes the state: what is to be done, and that the restoring ends with
\* RUNNING to come unless as many requests were lost as were tried.
ChangingInv ==
  case = Changing =>
    /\ \A t \in Tasks : Due(t) => t.do = "app"
    /\ pc <= 2 => notices = << >> /\ heard = << >>
    /\ pc <= 5 => app = "RUNNING" /\ tasks = << >> /\ ~Coming("INACTIVE") /\ ~Seen("INACTIVE")
    /\ pc <= 9 => tries = 0
    /\ pc <= 8 => tasks \in {<< >>, <<Task("app", "INACTIVE")>>}
    /\ pc = 6 /\ tasks # << >> =>
         app = "RUNNING" /\ ~Coming("INACTIVE") /\ ~Seen("INACTIVE")
    /\ pc \in {7, 8} /\ fault # Slow => tasks = << >>
    /\ pc > 8 => Target = "RUNNING" \/ (tasks = << >> /\ lost >= 1 + tries)
    /\ pc > 10 => Target = "RUNNING"

\* x comes first if at all.
FirstOnly(s, x) == \A j \in DOMAIN s : s[j] = x => j = 1

\* The notices of the change: what a conforming server owes the case at each of its waits,
\* and what a server that silences the second notice cannot have shown.
ChangedInv ==
  case = Changing =>
    /\ fault = Conforming =>
         /\ pc = 6 => tasks # << >> \/ (app = "INACTIVE" /\ Ahead("INACTIVE"))
         /\ pc \in {7, 8} => app = "INACTIVE"
         /\ pc = 9 => Ahead("RUNNING") \/ (tasks = <<Task("app", "RUNNING")>> /\ app = "INACTIVE")
    /\ fault = Silences("RUNNING") =>
         /\ FirstOnly(notices, "RUNNING")
         /\ Seen("INACTIVE") => ~Coming("RUNNING")
         /\ pc > 6 /\ ~failed => Seen("INACTIVE")
         /\ pc \in {8, 9} /\ ~failed => ~Observed("RUNNING")

\* A move of the player that is waited for is to be done or its notice ahead.
PlayerInv ==
  case = Playing /\ fault = Conforming =>
    /\ pc = 3 => Due(Task("player", "PLAYING")) \/ Ahead("PLAYING")
    /\ pc = 5 => Due(Task("player", "PAUSED")) \/ Ahead("PAUSED")
    /\ pc = 8 => Due(Task("player", "END_OF_STREAM")) \/ Ahead("END_OF_STREAM")

\* The volume written last.
Wanted == IF pc <= 2 THEN "1.0" ELSE IF pc <= 4 THEN "0.0" ELSE IF pc <= 6 THEN "0.5" ELSE "1.0"

\* The volume is the one written last, or is about to be; or the library ignores it.
VolumeInv ==
  /\ fault = Ignores("volume") => volume = "1.0"
  /\ case = VolumeTrips /\ fault = Conforming =>
       \/ tasks = << >> /\ volume = Wanted
       \/ pc \in {3, 5, 7} /\ tasks = <<Task("volume", Wanted)>> /\ volume # Wanted

\* A record is about to be logged.
Logged == Due(Task("log", "record"))

\* Whose handler is registered, and that a record waited for is to come, or cannot.
LogInv ==
  /\ fault = Conforming =>
       /\ case \in {Receiving, Cancelling} /\ pc \in {3, 4} => handler = "first"
       /\ case \in {Receiving, Cancelling} /\ pc = 4 => Logged \/ Ahead("first")
       /\ case = Replacing /\ pc \in {5, 6} => handler = "second"
       /\ case = Replacing /\ pc = 6 => Logged \/ Ahead("second")
       /\ case = Cancelling /\ pc > 5 => handler = "none"
       /\ case = Cancelling /\ pc > 6 => ~Coming("first")
       /\ case = Cancelling /\ pc > 7 => ~Observed("first")
  /\ fault = Ignores("replace") =>
       /\ case = Replacing /\ pc \in {3, 4} => handler = "first"
       /\ case = Replacing => handler # "second" /\ ~Coming("second") /\ ~Seen("second")
  /\ fault = Ignores("cancel") /\ case = Cancelling =>
       /\ pc \in 3 .. 10 => handler = "first"
       /\ pc = 9 => Logged \/ Ahead("first")
       /\ pc = 10 => Observed("first")
       /\ pc > 10 => failed

\* Who holds the client in the case that lets go of it.
OwnersInv ==
  case = Releasing =>
    /\ fault = Conforming =>
         /\ pc = 3 => owners = {"case", "control"}
         /\ pc \in {4, 5} => owners = {"control"}
         /\ pc = 6 => owners = {}
    /\ fault = Ignores("hold") =>
         /\ pc <= 3 => owners \subseteq {"case"}
         /\ pc = 4 => owners = {}
         /\ pc > 4 => failed
    /\ fault = Ignores("release") =>
         /\ pc \in 3 .. 6 => "control" \in owners
         /\ pc > 6 => failed

\* allSourcesAttached has been called in the cases that call it twice; the opposite
\* answer to the first call is seen.
SourcesInv ==
  /\ fault = Misanswers("allSourcesAttached") =>
       /\ case = Attaching /\ pc <= 3 => ~sources.all
       /\ case = Attaching /\ pc > 3 => failed
       /\ case = Composing /\ pc <= 7 => ~sources.all
       /\ case = Composing /\ pc > 7 => failed
  /\ fault = Conforming =>
       /\ case = Attaching => (sources.all <=> pc > 3)
       /\ case = Composing => (sources.all <=> pc > 7)
  /\ fault = Ignores("repeat") =>
       /\ case = Attaching /\ pc > 4 => failed
       /\ case = Composing /\ pc > 8 => failed

\* What the result of a step that is asserted rules out.
RulesOut(st) ==
  /\ st.do \in {"call", "write"} => fault # Refuses(st.what)
  /\ st.do = "register" => fault # Refuses("handler")
  /\ st.do = "get" /\ st.what \notin {"expired", "allSourcesAttached"} =>
       fault # Misanswers(st.what)
  /\ st.do = "get" /\ st.what = "appState" => fault # Ignores("appState")
  /\ st.do = "await" => fault # Silences(IF st.what \in {"first", "second"} THEN "log" ELSE st.what)
  /\ st = Poll("0.0") => fault # Ignores("volume")
  /\ st = Await("second") => fault # Ignores("replace")

\* Every step the case went past without failing has ruled its faults out.
PassedInv ==
  ~failed => \A k \in 1 .. pc - 1 : Script[k].must \in {"hold", "abort"} => RulesOut(Script[k])

\* A failure that came in time has been heard, and is still to be looked for.
FailureInv ==
  fault = Breaks("makePlayer") /\ shown /\ ~failed =>
    /\ Seen("FAILURE")
    /\ case \in {"CreateReturnsInstance", "HighPriorityPlayerAppearsToFunction"} => ~Finished

\* The inductive invariant.
IInv == /\ TypeInv /\ QuietInv /\ SilenceInv /\ ChangingInv /\ ChangedInv /\ PlayerInv
        /\ VolumeInv /\ LogInv /\ OwnersInv /\ SourcesInv /\ PassedInv /\ FailureInv
        /\ ConformingClientPasses

\* Appending to a queue.
LEMMA Appended ==
  ASSUME NEW S, NEW s \in Seq(S), NEW x \in S
  PROVE  /\ Append(s, x) \in Seq(S) /\ Append(s, x) # << >>
         /\ Len(Append(s, x)) = Len(s) + 1
         /\ Append(s, x)[Len(s) + 1] = x
         /\ \A i \in 1 .. Len(s) : Append(s, x)[i] = s[i]
         /\ \A y : Has(Append(s, x), y) <=> Has(s, y) \/ y = x
<1>1. /\ Append(s, x) \in Seq(S) /\ Len(Append(s, x)) = Len(s) + 1
      /\ \A i \in 1 .. Len(s) : Append(s, x)[i] = s[i]
      /\ Append(s, x)[Len(s) + 1] = x
  BY AppendProperties
<1>2. /\ DOMAIN s = 1 .. Len(s) /\ DOMAIN Append(s, x) = 1 .. Len(s) + 1
      /\ Len(s) \in Nat
  BY <1>1
<1>3. \A y : Has(Append(s, x), y) <=> Has(s, y) \/ y = x
  BY <1>1, <1>2 DEF Has
<1>4. Append(s, x) # << >>
  BY <1>1, <1>2, EmptySeq
<1> QED BY <1>1, <1>3, <1>4

\* Taking from a queue.
LEMMA Removed ==
  ASSUME NEW S, NEW s \in Seq(S), s # << >>
  PROVE  /\ Head(s) \in S /\ Tail(s) \in Seq(S) /\ Head(s) = s[1]
         /\ Len(s) \in Nat \ {0} /\ Len(Tail(s)) = Len(s) - 1
         /\ \A i \in DOMAIN Tail(s) : i + 1 \in DOMAIN s /\ Tail(s)[i] = s[i + 1]
         /\ \A y : Has(s, y) <=> y = Head(s) \/ Has(Tail(s), y)
<1>1. /\ Head(s) \in S /\ Tail(s) \in Seq(S) /\ Head(s) = s[1]
      /\ Len(s) \in Nat \ {0} /\ Len(Tail(s)) = Len(s) - 1
      /\ \A i \in 1 .. Len(s) - 1 : Tail(s)[i] = s[i + 1]
  BY HeadTailProperties, EmptySeq
<1>2. DOMAIN s = 1 .. Len(s) /\ DOMAIN Tail(s) = 1 .. Len(s) - 1
  BY <1>1
<1>3. \A i \in DOMAIN Tail(s) : i + 1 \in DOMAIN s /\ Tail(s)[i] = s[i + 1]
  BY <1>1, <1>2
<1>4. ASSUME NEW y, Has(s, y)
      PROVE  y = Head(s) \/ Has(Tail(s), y)
  <2>1. PICK i \in 1 .. Len(s) : s[i] = y
    BY <1>2, <1>4 DEF Has
  <2>2. CASE i = 1
    BY <1>1, <2>1, <2>2
  <2>3. CASE i # 1
    <3>1. i - 1 \in 1 .. Len(s) - 1 /\ (i - 1) + 1 = i
      BY <1>1, <2>3
    <3>2. Tail(s)[i - 1] = s[i]
      BY <1>1, <3>1
    <3> QED BY <1>2, <2>1, <3>1, <3>2 DEF Has
  <2> QED BY <2>2, <2>3
<1>5. ASSUME NEW y, y = Head(s) \/ Has(Tail(s), y)
      PROVE  Has(s, y)
  BY <1>1, <1>2, <1>3, <1>5 DEF Has
<1> QED BY <1>1, <1>3, <1>4, <1>5

\* A record or two that are handed over.
LEMMA Handed ==
  ASSUME NEW S, NEW s \in Seq(S), NEW x \in S, NEW u \in Seq(S), NEW n \in Nat \ {0},
         n = Len(u), \A i \in 1 .. n : u[i] = x, NEW t, t = s \o u
  PROVE  t \in Seq(S) /\ \A y : Has(t, y) <=> Has(s, y) \/ y = x
<1>1. u \in Seq(S) /\ Len(u) = n /\ \A i \in 1 .. n : u[i] = x
  OBVIOUS
<1>2. /\ t \in Seq(S) /\ Len(t) = Len(s) + n
      /\ \A i \in 1 .. Len(s) + n : t[i] = IF i <= Len(s) THEN s[i] ELSE u[i - Len(s)]
  BY <1>1, ConcatProperties
<1>3. DOMAIN s = 1 .. Len(s) /\ DOMAIN t = 1 .. Len(s) + n /\ Len(s) \in Nat
  BY <1>2
<1>4. \A i \in 1 .. Len(s) : i \in 1 .. Len(s) + n /\ t[i] = s[i]
  BY <1>2, <1>3
<1>5. Len(s) + 1 \in 1 .. Len(s) + n /\ t[Len(s) + 1] = x
  BY <1>1, <1>2, <1>3
<1>6. \A i \in 1 .. Len(s) + n : i \in 1 .. Len(s) \/ t[i] = x
  BY <1>1, <1>2, <1>3
<1>7. \A y : Has(t, y) <=> Has(s, y) \/ y = x
  BY <1>3, <1>4, <1>5, <1>6 DEF Has
<1> QED BY <1>2, <1>7

-----------------------------------------------------------------------------
(***************************************************************************)
(* The faults, judging a step, and what the threads of the server and      *)
(* client do.                                                              *)
(***************************************************************************)

\* Faults of two kinds, or in two things, are two faults.
LEMMA FaultsDiffer ==
  \A x, y :
    /\ Refuses(x) # Silences(y) /\ Refuses(x) # Ignores(y) /\ Refuses(x) # Misanswers(y)
    /\ Silences(x) # Ignores(y) /\ Silences(x) # Misanswers(y) /\ Ignores(x) # Misanswers(y)
    /\ Refuses(x) = Refuses(y) <=> x = y
    /\ Silences(x) = Silences(y) <=> x = y
    /\ Ignores(x) = Ignores(y) <=> x = y
    /\ Misanswers(x) = Misanswers(y) <=> x = y
    /\ Conforming # Refuses(x) /\ Conforming # Silences(x)
    /\ Conforming # Ignores(x) /\ Conforming # Misanswers(x)
    /\ Loses # Conforming /\ Loses # Slow /\ Slow # Conforming
    /\ Loses # Refuses(x) /\ Loses # Silences(x) /\ Loses # Ignores(x)
    /\ Loses # Misanswers(x)
    /\ Slow # Refuses(x) /\ Slow # Silences(x) /\ Slow # Ignores(x)
    /\ Slow # Misanswers(x)
    /\ Forgets(x) # Conforming /\ Forgets(x) # Silences(y) /\ Forgets(x) # Ignores(y)
    /\ Breaks(x) # Conforming /\ Breaks(x) # Refuses(y) /\ Breaks(x) # Silences(y)
    /\ Breaks(x) # Ignores(y) /\ Breaks(x) # Misanswers(y) /\ Breaks(x) # Forgets(y)
BY DEF Refuses, Silences, Ignores, Misanswers, Conforming, Loses, Slow, Forgets, Breaks, Fault

\* A set of natural numbers that is not empty has a least one.
LEMMA Least ==
  ASSUME NEW S \in SUBSET Nat, S # {}
  PROVE  \E k \in S : \A j \in S : k <= j
<1>1. PICK k \in S : \A j \in S : <<j, k>> \notin OpToRel(<, Nat)
  BY NatLessThanWellFounded, WFMin
<1>2. \A j \in S : k <= j
  <2> SUFFICES ASSUME NEW j \in S, j < k PROVE FALSE
    OBVIOUS
  <2>1. <<j, k>> \in OpToRel(<, Nat)
    BY DEF OpToRel
  <2> QED BY <1>1, <2>1
<1> QED BY <1>2

\* After a fatal failure a case goes on further down its script, or is over.
LEMMA AftermathIsLater ==
  ASSUME NEW script, NEW n \in Nat, n = Len(script), pc \in 1 .. n
  PROVE  Aftermath(script) \in pc + 1 .. n + 1
<1> DEFINE ends == {k \in pc + 1 .. n : script[k].must = "always"} \cup {n + 1}
<1>1. ends \subseteq pc + 1 .. n + 1 /\ ends \in SUBSET Nat /\ ends # {}
  OBVIOUS
<1>2. Aftermath(script) = CHOOSE k \in ends : \A j \in ends : k <= j
  BY Zenon DEF Aftermath
<1> HIDE DEF ends
<1>3. \E k \in ends : \A j \in ends : k <= j
  BY <1>1, Least
<1>4. Aftermath(script) \in ends
  BY <1>2, <1>3, Zenon
<1> QED BY <1>1, <1>4

\* The step a case that is not over is at.
LEMMA AtStep ==
  ASSUME TypeInv, ~Finished
  PROVE  Len(Script) \in Nat \ {0} /\ pc \in 1 .. Len(Script) /\ Kinds(case, pc, Now)
<1>1. /\ case \in DOMAIN Suite /\ pc \in 1 .. Len(Script) + 1
  BY DEF TypeInv
<1>2. PICK n \in Nat \ {0} : n = Len(Script)
  BY <1>1, ScriptKinds DEF Script
<1>3. pc \in 1 .. n
  BY <1>1, <1>2 DEF Finished, Over
<1> QED BY <1>1, <1>2, <1>3, ScriptKinds DEF Now, Script

\* What judging its result does to the case.
LEMMA Judged ==
  ASSUME TypeInv, ~Finished, NEW ok \in BOOLEAN, Judge(Script, ok)
  PROVE  /\ case' = case /\ Script' = Script
         /\ failed' \in BOOLEAN
         /\ pc' \in pc + 1 .. Len(Script) + 1
         /\ pc' \in 1 .. Len(Script)' + 1
         /\ ~failed' => ~failed /\ pc' = pc + 1
         /\ ~failed' /\ Now.must \in {"hold", "abort"} => ok
         /\ ok => failed' = failed /\ pc' = pc + 1
         /\ Now.must # "abort" => pc' = pc + 1
         /\ Now.must \notin {"hold", "abort"} => failed' = failed
         /\ failed => failed'
<1>1. PICK n \in Nat : n = Len(Script)
  BY AtStep
<1>2. pc \in 1 .. n
  BY <1>1, AtStep
<1>3. Aftermath(Script) \in pc + 1 .. n + 1
  BY <1>1, <1>2, AftermathIsLater
<1>4. /\ failed' = (failed \/ (~ok /\ Now.must \in {"hold", "abort"}))
      /\ pc' = IF ~ok /\ Now.must = "abort" THEN Aftermath(Script) ELSE pc + 1
      /\ case' = case
  BY DEF Judge, Now
<1>5. failed \in BOOLEAN
  BY DEF TypeInv
<1>6. pc \in Nat /\ n \in Nat /\ pc' \in pc + 1 .. n + 1
  BY <1>2, <1>3, <1>4
<1>7. failed' \in BOOLEAN /\ (~failed' => ~failed)
  BY <1>4, <1>5
<1>8. ~failed' => pc' = pc + 1
  BY <1>4, <1>5
<1>9. Script' = Script
  BY <1>4 DEF Script
<1>10. pc' \in 1 .. n + 1
  BY <1>6, <1>2
<1>11. Now.must \notin {"hold", "abort"} => failed' = failed
  BY <1>4, <1>5
<1> QED BY <1>1, <1>4, <1>5, <1>6, <1>7, <1>8, <1>9, <1>10, <1>11

\* What applying task t does.
Applied(t) ==
  /\ UNCHANGED <<case, fault, pc, failed, heard, mark, sources, owners, handler, tries, lost>>
  /\ t \in Tasks /\ Due(t) /\ tasks # << >> /\ tasks' = Tail(tasks) /\ t = tasks[1]
  /\ tasks' \in Seq(Tasks)
  /\ \A u : Has(tasks', u) => Due(u)
  /\ \A u : Due(u) => u = t \/ Has(tasks', u)
  /\ notices' \in Seq(Notes) /\ app' \in States
  /\ \A n : Coming(n) => Has(notices', n)
  /\ t.do = "app" =>
       /\ app' = t.value /\ volume' = volume
       /\ app = t.value \/ fault = Silences(t.value) => notices' = notices
       /\ notices' = notices \/ notices' = Append(notices, t.value)
       /\ app # t.value /\ fault # Silences(t.value) /\ fault # Forgets(t.value) =>
            notices' = Append(notices, t.value)
  /\ t.do = "player" =>
       /\ app' = app /\ volume' = volume
       /\ fault = Silences(t.value) => notices' = notices
       /\ notices' = notices \/ notices' = Append(notices, t.value)
       /\ fault # Silences(t.value) /\ fault # Forgets(t.value) =>
            notices' = Append(notices, t.value)
  /\ t.do = "volume" =>
       /\ app' = app /\ notices' = notices
       /\ volume' = IF fault = Ignores("volume") THEN volume ELSE t.value
  /\ t.do = "log" =>
       /\ app' = app /\ volume' = volume
       /\ handler = "none" \/ fault = Silences("log") => notices' = notices
       /\ handler # "none" /\ fault # Silences("log") =>
            \A n : Has(notices', n) <=> Coming(n) \/ n = handler

\* The thread of the server or the library applies the task that is first.
LEMMA WorkDoes ==
  ASSUME TypeInv, Work
  PROVE  \E t \in Tasks : Applied(t)
<1> DEFINE t == Head(tasks)
<1>1. /\ tasks \in Seq(Tasks) /\ notices \in Seq(Notes) /\ app \in States
      /\ handler \in {"none", "first", "second"} /\ tasks # << >> /\ tasks' = Tail(tasks)
      /\ UNCHANGED <<case, fault, pc, failed, heard, mark, sources, owners, handler, tries, lost>>
  BY DEF TypeInv, Work
<1>2. /\ t \in Tasks /\ Due(t) /\ t = tasks[1] /\ tasks' \in Seq(Tasks)
      /\ \A u : Has(tasks', u) => Due(u)
      /\ \A u : Due(u) => u = t \/ Has(tasks', u)
  <2> HIDE DEF Tasks
  <2> QED BY <1>1, Removed DEF Due
<1>3. /\ t.do \in {"app", "player", "volume", "log"}
      /\ t.do = "app" => t.value \in States
      /\ t.do = "player" => t.value \in Moves
  BY <1>2, SMT DEF Tasks
<1>4. /\ t.do = "app" => t.value \in Notes
      /\ t.do = "player" => t.value \in Notes
      /\ handler # "none" => handler \in Notes
  BY <1>1, <1>3, SMT DEF Notes
<1> HIDE DEF t, Notes
<1>5. \A n : Coming(n) => Has(notices, n)
  BY DEF Coming
<1>6. notices \o << >> = notices
  BY <1>1, ConcatEmptySeq
<1>7. ASSUME NEW x \in Notes
      PROVE  /\ notices \o Sent(x) = notices \/ notices \o Sent(x) = Append(notices, x)
             /\ fault = Silences(x) => notices \o Sent(x) = notices
             /\ fault # Silences(x) /\ fault # Forgets(x) =>
                  notices \o Sent(x) = Append(notices, x)
  <2>1. notices \o <<x>> = Append(notices, x)
    BY <1>1, AppendIsConcat
  <2> QED BY <1>6, <2>1 DEF Sent
<1>8. CASE t.do = "app"
  <2>1. app' = t.value /\ volume' = volume
        /\ notices' = IF t.value = app THEN notices ELSE notices \o Sent(t.value)
    BY <1>8 DEF Work, t
  <2>2. notices' = notices \/ notices' = Append(notices, t.value)
    BY <2>1, <1>4, <1>7, <1>8
  <2>3. notices' \in Seq(Notes) /\ \A n : Coming(n) => Has(notices', n)
    <3>1. CASE notices' = notices
      BY <1>1, <1>5, <3>1
    <3>2. CASE notices' = Append(notices, t.value)
      <4>1. notices \in Seq(Notes) /\ t.value \in Notes
        BY <1>1, <1>4, <1>8
      <4>2. /\ Append(notices, t.value) \in Seq(Notes)
            /\ \A y : Has(Append(notices, t.value), y) <=> Has(notices, y) \/ y = t.value
        BY <4>1, Appended
      <4> QED BY <1>5, <3>2, <4>2
    <3> QED BY <2>2, <3>1, <3>2
  <2> QED BY <1>1, <1>2, <1>3, <1>4, <1>7, <1>8, <2>1, <2>2, <2>3 DEF Applied
<1>9. CASE t.do = "player"
  <2>1. app' = app /\ volume' = volume /\ notices' = notices \o Sent(t.value)
    BY <1>9 DEF Work, t
  <2>2. notices' = notices \/ notices' = Append(notices, t.value)
    BY <2>1, <1>4, <1>7, <1>9
  <2>3. notices' \in Seq(Notes) /\ \A n : Coming(n) => Has(notices', n)
    <3>1. CASE notices' = notices
      BY <1>1, <1>5, <3>1
    <3>2. CASE notices' = Append(notices, t.value)
      <4>1. notices \in Seq(Notes) /\ t.value \in Notes
        BY <1>1, <1>4, <1>9
      <4>2. /\ Append(notices, t.value) \in Seq(Notes)
            /\ \A y : Has(Append(notices, t.value), y) <=> Has(notices, y) \/ y = t.value
        BY <4>1, Appended
      <4> QED BY <1>5, <3>2, <4>2
    <3> QED BY <2>2, <3>1, <3>2
  <2> QED BY <1>1, <1>2, <1>4, <1>7, <1>9, <2>1, <2>2, <2>3 DEF Applied
<1>10. CASE t.do = "volume"
  <2>1. /\ app' = app /\ notices' = notices
        /\ volume' = IF fault = Ignores("volume") THEN volume ELSE t.value
    BY <1>10 DEF Work, t
  <2> QED BY <1>1, <1>2, <1>5, <1>10, <2>1 DEF Applied
<1>11. CASE t.do = "log"
  <2>1. /\ app' = app /\ volume' = volume
        /\ IF handler = "none" \/ fault = Silences("log")
           THEN notices' = notices
           ELSE \E n \in 1 .. 2 : notices' = notices \o [k \in 1 .. n |-> handler]
    BY <1>11 DEF Work, t
  <2>2. CASE handler = "none" \/ fault = Silences("log")
    BY <1>1, <1>2, <1>5, <1>11, <2>1, <2>2 DEF Applied
  <2>3. CASE ~(handler = "none" \/ fault = Silences("log"))
    <3>1. PICK n \in 1 .. 2 : notices' = notices \o [k \in 1 .. n |-> handler]
      BY <2>1, <2>3
    <3>2. /\ notices' \in Seq(Notes)
          /\ \A y : Has(notices', y) <=> Has(notices, y) \/ y = handler
      <4>1. notices \in Seq(Notes) /\ handler \in Notes
        BY <1>1, <1>4, <2>3
      <4> DEFINE u == [k \in 1 .. n |-> handler]
      <4>2. notices' = notices \o u
        BY <3>1
      <4>3. n \in Nat \ {0} /\ u \in [1 .. n -> Notes] /\ \A i \in 1 .. n : u[i] = handler
        BY <4>1
      <4>4. u \in Seq(Notes) /\ Len(u) = n
        <5>1. u \in Seq(Notes)
          BY <4>1, <4>3, IsASeq
        <5> QED BY <4>3, <5>1, LenProperties
      <4> HIDE DEF u
      <4> QED BY <4>1, <4>2, <4>3, <4>4, Handed
    <3> QED BY <1>1, <1>2, <1>5, <1>11, <2>1, <2>3, <3>2 DEF Applied, Coming
  <2> QED BY <2>2, <2>3
<1> QED BY <1>2, <1>3, <1>8, <1>9, <1>10, <1>11

\* What the client's thread does.
LEMMA NotifyDoes ==
  ASSUME TypeInv, Notify
  PROVE  /\ UNCHANGED <<case, fault, pc, failed, mark, tasks, app, volume, sources, owners,
                        handler, tries, lost>>
         /\ heard' \in Seq(Notes) /\ notices' \in Seq(Notes)
         /\ mark \in 0 .. Len(heard') /\ mark \in Nat
         /\ notices # << >> /\ notices' = Tail(notices) /\ Coming(notices[1])
         /\ \A n : Has(notices', n) => Coming(n)
         /\ \A n : Seen(n) => Has(heard', n)
         /\ \A n : Has(heard', n) <=> Seen(n) \/ n = notices[1]
         /\ \A n : Ahead(n)' <=> Ahead(n)
         /\ \A n : Observed(n) => Observed(n)'
         /\ \A n : Observed(n)' => Observed(n) \/ Coming(n)
<1> DEFINE x == Head(notices)
<1>1. /\ heard \in Seq(Notes) /\ notices \in Seq(Notes) /\ mark \in 0 .. Len(heard)
      /\ notices # << >> /\ heard' = Append(heard, x) /\ notices' = Tail(notices)
      /\ UNCHANGED <<case, fault, pc, failed, mark, tasks, app, volume, sources, owners,
                     handler, tries, lost>>
  BY DEF TypeInv, Notify, scriptVars
<1> HIDE DEF Notes
<1>2. /\ x \in Notes /\ notices' \in Seq(Notes) /\ x = notices[1]
      /\ \A y : Has(notices, y) <=> y = x \/ Has(notices', y)
  BY <1>1, Removed
<1> HIDE DEF x
<1>3. PICK m \in Nat : m = Len(heard)
  BY <1>1
<1>4. /\ heard' \in Seq(Notes) /\ m + 1 = Len(heard') /\ heard'[m + 1] = x
      /\ \A i \in 1 .. m : heard'[i] = heard[i]
      /\ \A y : Has(heard', y) <=> Has(heard, y) \/ y = x
  BY <1>1, <1>2, <1>3, Appended
<1>5. mark \in Nat /\ mark <= m
  BY <1>1, <1>3
<1>6. \A n : Observed(n) <=> \E i \in mark + 1 .. m : heard[i] = n
  BY <1>3 DEF Observed, Since
<1>7. \A n : Observed(n)' <=> \E i \in mark + 1 .. m + 1 : heard'[i] = n
  BY <1>1, <1>4 DEF Observed, Since
<1>8. ASSUME NEW n
      PROVE  Observed(n)' <=> Observed(n) \/ n = x
  <2>1. ASSUME NEW i \in mark + 1 .. m + 1
        PROVE  i = m + 1 \/ (i \in 1 .. m /\ i \in mark + 1 .. m)
    BY <1>5
  <2>2. m + 1 \in mark + 1 .. m + 1 /\ mark + 1 .. m \subseteq 1 .. m
        /\ mark + 1 .. m \subseteq mark + 1 .. m + 1
    BY <1>5
  <2> QED BY <1>4, <1>6, <1>7, <2>1, <2>2
<1>9. \A n : Coming(n)' <=> Has(notices', n)
  BY DEF Coming
<1>10. \A n : Ahead(n)' <=> Ahead(n)
  BY <1>2, <1>8, <1>9 DEF Ahead, Coming
<1>11. mark \in 0 .. Len(heard')
  BY <1>4, <1>5
<1> QED BY <1>1, <1>2, <1>4, <1>5, <1>8, <1>10, <1>11 DEF Coming, Seen

-----------------------------------------------------------------------------
(***************************************************************************)
(* What each kind of step of the test thread does.                         *)
(***************************************************************************)

\* The step at hand has this result.
Outcome(ok) ==
  /\ case' = case /\ Script' = Script /\ fault' = fault
  /\ failed' \in BOOLEAN
  /\ pc' \in pc + 1 .. Len(Script) + 1
  /\ pc' \in 1 .. Len(Script)' + 1
  /\ ~failed' => ~failed /\ pc' = pc + 1
  /\ ~failed' /\ Now.must \in {"hold", "abort"} => ok
  /\ ok => failed' = failed /\ pc' = pc + 1
  /\ Now.must # "abort" => pc' = pc + 1
  /\ Now.must \notin {"hold", "abort"} => failed' = failed
  /\ failed => failed'

\* A call is refused, or does what it is to do.
Called ==
  LET done == fault # Refuses(Now.what) IN
  /\ Now.do \in {"call", "write"}
  /\ Outcome(done)
  /\ UNCHANGED <<heard, app, volume, handler, tries, lost>>
  /\ mark' = IF Now = SetMark THEN Len(heard) ELSE mark
  /\ tasks' \in Seq(Tasks) /\ notices' \in Seq(Notes) /\ owners' \subseteq {"case", "control"}
  /\ sources' \in [count : Int, all : BOOLEAN] /\ (sources.all <=> sources'.all)
  /\ \/ tasks' = tasks
     \/ done /\ Now.what \in DOMAIN Enqueued /\ tasks' = Append(tasks, Enqueued[Now.what])
  /\ done /\ Now.what \in DOMAIN Enqueued => tasks' = Append(tasks, Enqueued[Now.what])
  /\ \/ notices' = notices
     \/ done /\ Now.what = "registerClient" /\ notices' = Append(notices, app)
     \/ /\ done /\ Now.what = "makePlayer" /\ fault = Breaks("makePlayer")
        /\ notices' = Append(notices, "FAILURE")
  /\ \/ owners' = owners
     \/ done /\ Now.what \in {"registerClient", "dropClient", "destroyControl"}
  /\ done /\ Now.what = "registerClient" =>
       owners' = IF fault = Ignores("hold") THEN {"case"} ELSE {"case", "control"}
  /\ done /\ Now.what = "dropClient" => owners' = owners \ {"case"}
  /\ done /\ Now.what = "destroyControl" =>
       owners' = IF fault = Ignores("release") THEN owners ELSE owners \ {"control"}

\* What each call leaves to be done.
LEMMA EnqueuedIs ==
  /\ DOMAIN Enqueued = {"play", "pause", "setEos", "property", "triggerClientLogActivity"}
  /\ Enqueued["play"] = Task("player", "PLAYING")
  /\ Enqueued["pause"] = Task("player", "PAUSED")
  /\ Enqueued["setEos"] = Task("player", "END_OF_STREAM")
  /\ Enqueued["property"] = Task("volume", Now.value)
  /\ Enqueued["triggerClientLogActivity"] = Task("log", "record")
BY DEF Enqueued

\* The tasks that the calls leave to be done.
LEMMA TaskTypes ==
  /\ \A v \in States : Task("app", v) \in Tasks
  /\ \A v \in Moves : Task("player", v) \in Tasks
  /\ \A v \in Volumes : Task("volume", v) \in Tasks
  /\ Task("log", "record") \in Tasks
BY SMT DEF Task, Tasks, States, Moves, Volumes

\* Setting a member of the sources.
LEMMA SourceTypes ==
  ASSUME NEW s \in [count : Int, all : BOOLEAN], NEW n \in Int, NEW b \in BOOLEAN
  PROVE  /\ [s EXCEPT !.count = n] \in [count : Int, all : BOOLEAN]
         /\ [s EXCEPT !.count = n].all = s.all
         /\ [s EXCEPT !.all = b] \in [count : Int, all : BOOLEAN]
         /\ [s EXCEPT !.all = b].all = b
OBVIOUS

\* A call or a write of a property.
LEMMA CallDoes ==
  ASSUME TypeInv, ~Finished, CallStep
  PROVE  Called
<1> DEFINE done == fault # Refuses(Now.what)
<1>1. /\ Now.do \in {"call", "write"} /\ Judge(Script, done)
      /\ UNCHANGED <<fault, heard, app, volume, handler, tries, lost>>
      /\ mark' = IF Now = SetMark THEN Len(heard) ELSE mark
      /\ ~done => UNCHANGED <<notices, tasks, owners, sources>>
      /\ done => Perform(Now.what)
  BY DEF CallStep
<1>2. Outcome(done)
  BY <1>1, Judged DEF Outcome
<1>3. /\ tasks \in Seq(Tasks) /\ notices \in Seq(Notes) /\ owners \subseteq {"case", "control"}
      /\ sources \in [count : Int, all : BOOLEAN] /\ app \in States
  BY DEF TypeInv
<1>4. Kinds(case, pc, Now)
  BY AtStep
<1>5. CASE ~done
  BY <1>1, <1>2, <1>3, <1>5 DEF Called
<1>6. CASE done /\ RegisterClient /\ Now.what = "registerClient"
  <2>1. /\ owners' = IF fault = Ignores("hold") THEN {"case"} ELSE {"case", "control"}
        /\ (notices' = notices \/ notices' = Append(notices, app))
        /\ UNCHANGED <<tasks, sources>>
    BY <1>6 DEF RegisterClient
  <2>2. app \in Notes
    BY <1>3 DEF Notes
  <2>3. notices' \in Seq(Notes)
    BY <1>3, <2>1, <2>2, Appended
  <2>4. Now.what \notin DOMAIN Enqueued
    BY <1>6, EnqueuedIs
  <2>5. owners' \subseteq {"case", "control"}
    BY <2>1
  <2> QED BY <1>1, <1>2, <1>3, <1>6, <2>1, <2>3, <2>4, <2>5 DEF Called
<1>7. CASE /\ done /\ Now.what \in {"dropClient", "destroyControl"}
           /\ owners' = IF Now.what = "dropClient" THEN owners \ {"case"}
                        ELSE IF fault = Ignores("release") THEN owners ELSE owners \ {"control"}
           /\ UNCHANGED <<notices, tasks, sources>>
  <2>1. Now.what \notin DOMAIN Enqueued /\ Now.what # "registerClient"
    BY <1>7, EnqueuedIs
  <2>2. owners' \subseteq {"case", "control"}
    BY <1>3, <1>7
  <2>3. tasks' = tasks /\ notices' = notices /\ sources' = sources
    BY <1>7
  <2> QED BY <1>1, <1>2, <1>3, <1>7, <2>1, <2>2, <2>3 DEF Called
<1>8. CASE /\ done /\ Now.what \in DOMAIN Enqueued
           /\ tasks' = Append(tasks, Enqueued[Now.what])
           /\ UNCHANGED <<notices, owners, sources>>
  <2>1. Enqueued[Now.what] \in Tasks
    <3>1. Now.what = "property" => Now.value \in Volumes
      BY <1>1, <1>4 DEF Kinds
    <3> QED BY <1>8, <3>1, EnqueuedIs, TaskTypes DEF Moves
  <2>2. tasks' \in Seq(Tasks)
    <3> HIDE DEF Tasks
    <3> QED BY <1>3, <1>8, <2>1, Appended
  <2>3. Now.what \notin {"registerClient", "dropClient", "destroyControl"}
    BY <1>8, EnqueuedIs
  <2> QED BY <1>1, <1>2, <1>3, <1>8, <2>2, <2>3 DEF Called
<1>9. CASE /\ done /\ Now.what \in {"attachSource", "removeSource"}
           /\ sources' = [sources EXCEPT !.count =
                            IF Now.what = "attachSource" THEN @ + 1 ELSE @ - 1]
           /\ UNCHANGED <<notices, tasks, owners>>
  <2>1. sources.count \in Int /\ sources.all \in BOOLEAN
    BY <1>3
  <2> DEFINE n == IF Now.what = "attachSource" THEN sources.count + 1 ELSE sources.count - 1
  <2>2. n \in Int /\ sources' = [sources EXCEPT !.count = n]
    BY <1>9, <2>1
  <2> HIDE DEF n
  <2>3. sources' \in [count : Int, all : BOOLEAN] /\ (sources.all <=> sources'.all)
    BY <1>3, <2>2, SourceTypes
  <2>4. Now.what \notin DOMAIN Enqueued
        /\ Now.what \notin {"registerClient", "dropClient", "destroyControl"}
    BY <1>9, EnqueuedIs
  <2> QED BY <1>1, <1>2, <1>3, <1>9, <2>3, <2>4 DEF Called
<1>10. CASE /\ done
            /\ Now.what \in {"createControl", "mark", "getDeviceInfo",
                             "getBufferAvailable", "writeBuffer", "getBufferDelay",
                             "clientLogControl", "createAndLoad"}
            /\ UNCHANGED <<notices, tasks, owners, sources>>
  <2>1. Now.what \notin DOMAIN Enqueued
        /\ Now.what \notin {"registerClient", "dropClient", "destroyControl"}
    BY <1>10, EnqueuedIs
  <2> QED BY <1>1, <1>2, <1>3, <1>10, <2>1 DEF Called
<1>11. CASE /\ done /\ Now.what = "makePlayer"
            /\ notices' = IF fault = Breaks(Now.what) THEN Append(notices, "FAILURE") ELSE notices
            /\ UNCHANGED <<tasks, owners, sources>>
  <2>1. Now.what \notin DOMAIN Enqueued
        /\ Now.what \notin {"registerClient", "dropClient", "destroyControl"}
    BY <1>11, EnqueuedIs
  <2>2. "FAILURE" \in Notes
    BY DEF Notes
  <2>3. Append(notices, "FAILURE") \in Seq(Notes)
    BY <1>3, <2>2, Appended
  <2>4. /\ \/ notices' = notices
           \/ fault = Breaks("makePlayer") /\ notices' = Append(notices, "FAILURE")
        /\ notices' \in Seq(Notes)
        /\ tasks' = tasks /\ owners' = owners /\ sources' = sources
    BY <1>3, <1>11, <2>3
  <2> QED BY <1>1, <1>2, <1>3, <1>11, <2>1, <2>4 DEF Called
<1> QED BY <1>1, <1>5, <1>6, <1>7, <1>8, <1>9, <1>10, <1>11 DEF Perform

\* A handler is refused, kept or replaced.
Registered ==
  LET refused == fault = Refuses("handler")
      kept    == \/ fault = Ignores("replace") /\ handler # "none" /\ Now.value # "none"
                 \/ fault = Ignores("cancel") /\ Now.value = "none"
  IN /\ Now.do = "register"
     /\ Outcome(~refused)
     /\ handler' = (IF refused \/ kept THEN handler ELSE Now.value)
     /\ handler' \in {"none", "first", "second"}
     /\ UNCHANGED <<heard, mark, notices, tasks, app, volume, sources, owners, tries, lost>>

\* Registering a log handler, or cancelling it.
LEMMA RegisterDoes ==
  ASSUME TypeInv, ~Finished, RegisterStep
  PROVE  Registered
<1> DEFINE refused == fault = Refuses("handler")
           kept    == \/ fault = Ignores("replace") /\ handler # "none" /\ Now.value # "none"
                      \/ fault = Ignores("cancel") /\ Now.value = "none"
<1>1. /\ Now.do = "register" /\ Judge(Script, ~refused)
      /\ UNCHANGED <<fault, heard, mark, notices, tasks, app, volume, sources, owners, tries, lost>>
      /\ handler' = IF refused \/ kept THEN handler ELSE Now.value
  BY DEF RegisterStep
<1>2. Outcome(~refused)
  BY <1>1, Judged DEF Outcome
<1>3. Now.value \in {"none", "first", "second"}
  BY <1>1, AtStep DEF Kinds
<1>4. handler' \in {"none", "first", "second"}
  BY <1>1, <1>3 DEF TypeInv
<1> QED BY <1>1, <1>2, <1>4 DEF Registered

\* A question has its answer, or the opposite of it.
Asked ==
  /\ Now.do = "get"
  /\ Outcome((IF fault = Misanswers(Now.what) THEN ~Answer(Now.what) ELSE Answer(Now.what))
               = Now.value)
  /\ UNCHANGED <<heard, mark, notices, tasks, app, volume, owners, handler, tries, lost>>
  /\ sources' \in [count : Int, all : BOOLEAN]
  /\ sources'.all <=> (sources.all \/ Now.what = "allSourcesAttached")

\* A question, and its answer compared with the one expected.
LEMMA GetDoes ==
  ASSUME TypeInv, ~Finished, GetStep
  PROVE  Asked
<1> DEFINE answered ==
             IF fault = Misanswers(Now.what) THEN ~Answer(Now.what) ELSE Answer(Now.what)
<1>1. /\ Now.do = "get" /\ Judge(Script, answered = Now.value)
      /\ UNCHANGED <<fault, heard, mark, notices, tasks, app, volume, owners, handler, tries, lost>>
      /\ sources' = [sources EXCEPT !.all = @ \/ Now.what = "allSourcesAttached"]
  BY DEF GetStep
<1>2. Outcome(answered = Now.value)
  BY <1>1, Judged DEF Outcome
<1>3. sources \in [count : Int, all : BOOLEAN] /\ sources.all \in BOOLEAN
  BY DEF TypeInv
<1>4. PICK b \in BOOLEAN : b <=> (sources.all \/ Now.what = "allSourcesAttached")
  OBVIOUS
<1>5. sources' = [sources EXCEPT !.all = b]
  BY <1>1, <1>3, <1>4
<1>6. sources' \in [count : Int, all : BOOLEAN] /\ sources'.all = b
  BY <1>3, <1>5, SourceTypes
<1> QED BY <1>1, <1>2, <1>4, <1>6 DEF Asked

\* Nothing of the server or the library changes.
Still == UNCHANGED <<heard, mark, notices, tasks, app, volume, sources, owners, handler,
                     tries, lost>>

\* A wait is given up only with nothing left to do, or on a server that is slow.
LEMMA AwaitDoes ==
  ASSUME TypeInv, ~Finished, AwaitStep
  PROVE  /\ Now.do = "await" /\ Still
         /\ Outcome(Observed(Now.what))
         /\ Observed(Now.what) \/ Settled \/ fault = Slow
<1>1. CASE Observed(Now.what) /\ Assert(TRUE) /\ Now.do = "await"
  <2>1. Outcome(TRUE) /\ Still
    BY <1>1, Judged DEF Outcome, Assert, Still, server
  <2> QED BY <1>1, <2>1 DEF Outcome
<1>2. CASE TimedOut(Observed(Now.what)) /\ Assert(FALSE) /\ Now.do = "await"
  <2>1. Outcome(FALSE) /\ Still
    BY <1>2, Judged DEF Outcome, Assert, Still, server
  <2> QED BY <1>2, <2>1 DEF Outcome, TimedOut
<1> QED BY <1>1, <1>2 DEF AwaitStep

\* So is a poll.
LEMMA PollDoes ==
  ASSUME TypeInv, ~Finished, PollStep
  PROVE  /\ Now.do = "poll" /\ Still
         /\ Outcome(volume = Now.value)
         /\ volume = Now.value \/ Settled \/ fault = Slow
<1>1. Now.do = "poll" /\ (volume = Now.value \/ TimedOut(volume = Now.value))
      /\ Assert(volume = Now.value)
  BY DEF PollStep, TimedOut
<1>3. Outcome(volume = Now.value) /\ Still
  BY <1>1, Judged DEF Outcome, Assert, Still, server
<1> QED BY <1>1, <1>3 DEF TimedOut

\* A sleep is long enough for everything to be done.
LEMMA SleepDoes ==
  ASSUME TypeInv, ~Finished, SleepStep
  PROVE  Now.do = "sleep" /\ Still /\ Outcome(TRUE) /\ Settled
<1>1. Now.do = "sleep" /\ Settled /\ Assert(TRUE)
  BY DEF SleepStep, InFlightSettled
<1>3. Outcome(TRUE) /\ Still
  BY <1>1, Judged DEF Outcome, Assert, Still, server
<1> QED BY <1>1, <1>3

\* A check of what has been observed.
LEMMA CheckDoes ==
  ASSUME TypeInv, ~Finished, CheckStep
  PROVE  Now.do = "check" /\ Still /\ Outcome(Holds(Now.what))
<1>1. Now.do = "check" /\ Assert(Holds(Now.what))
  BY DEF CheckStep
<1>2. Now.what \in {"noFailure", "unchanged"}
  BY <1>1, AtStep DEF Kinds
<1>3. Holds(Now.what) \in BOOLEAN
  BY <1>2, Zenon DEF Holds
<1>4. Outcome(Holds(Now.what)) /\ Still
  BY <1>1, <1>3, Judged DEF Outcome, Assert, Still, server
<1> QED BY <1>1, <1>4

\* A state set on the sim: asked for, or the request or the reply lost.
SetOnSim ==
  /\ Now.do = "sim"
  /\ UNCHANGED <<heard, mark, notices, app, volume, sources, owners, handler, tries>>
  /\ tasks' \in Seq(Tasks) /\ lost' \in 0 .. MaxLost
  /\ \/ tasks' = Append(tasks, Task("app", Now.value)) /\ lost' = lost /\ Outcome(TRUE)
     \/ /\ fault = Loses /\ lost' = lost + 1 /\ Outcome(FALSE)
        /\ tasks' = tasks \/ tasks' = Append(tasks, Task("app", Now.value))

\* A state set on the sim, whose reply may be lost with the request or without it.
LEMMA SetStateDoes ==
  ASSUME TypeInv, ~Finished, SetStateStep
  PROVE  SetOnSim
<1>1. /\ Now.do = "sim" /\ Exchange(Now.value)
      /\ UNCHANGED <<fault, heard, mark, notices, app, volume, sources, owners, handler, tries>>
  BY DEF SetStateStep
<1>2. tasks \in Seq(Tasks) /\ lost \in 0 .. MaxLost /\ MaxLost \in Nat
  BY RestoreAssumption DEF TypeInv
<1>3. Task("app", Now.value) \in Tasks
  BY <1>1, AtStep, TaskTypes DEF Kinds
<1>4. Append(tasks, Task("app", Now.value)) \in Seq(Tasks)
  <2> HIDE DEF Tasks
  <2> QED BY <1>2, <1>3, Appended
<1>5. CASE /\ tasks' = Append(tasks, Task("app", Now.value)) /\ UNCHANGED lost
           /\ Judge(Script, TRUE)
  <2>1. Outcome(TRUE)
    BY <1>1, <1>5, Judged DEF Outcome
  <2> QED BY <1>1, <1>2, <1>4, <1>5, <2>1 DEF SetOnSim
<1>6. CASE /\ fault = Loses /\ lost < MaxLost /\ lost' = lost + 1
           /\ tasks' \in {tasks, Append(tasks, Task("app", Now.value))}
           /\ Judge(Script, FALSE)
  <2>1. Outcome(FALSE)
    BY <1>1, <1>6, Judged DEF Outcome
  <2>2. lost' \in 0 .. MaxLost
    BY <1>2, <1>6
  <2>3. tasks' \in Seq(Tasks)
    BY <1>2, <1>4, <1>6
  <2> QED BY <1>1, <1>6, <2>1, <2>2, <2>3 DEF SetOnSim
<1> QED BY <1>1, <1>5, <1>6 DEF Exchange

\* The state asked for again, or the restoring over.
AskedAgain ==
  /\ Now.do = "restore"
  /\ UNCHANGED <<heard, mark, notices, app, volume, sources, owners, handler>>
  /\ tasks' \in Seq(Tasks) /\ lost' \in 0 .. MaxLost /\ tries' \in 0 .. MaxTries
  /\ \/ /\ app = "RUNNING" \/ tries >= MaxTries
        /\ Outcome(TRUE) /\ tasks' = tasks /\ lost' = lost /\ tries' = tries
     \/ /\ UNCHANGED <<case, fault, pc, failed>> /\ Script' = Script
        /\ tries' = tries + 1 /\ lost' >= lost
        /\ \/ tasks' = Append(tasks, Task("app", "RUNNING"))
           \/ tasks' = tasks /\ lost' >= lost + 1

\* The state set again, until it is RUNNING or the tries are used up.
LEMMA RestoreDoes ==
  ASSUME TypeInv, ~Finished, RestoreStep
  PROVE  AskedAgain
<1>1. /\ tasks \in Seq(Tasks) /\ lost \in 0 .. MaxLost /\ MaxLost \in Nat
      /\ tries \in 0 .. MaxTries /\ MaxTries \in Nat
  BY RestoreAssumption DEF TypeInv
<1>2. Append(tasks, Task("app", "RUNNING")) \in Seq(Tasks)
  <2>1. Task("app", "RUNNING") \in Tasks
    BY TaskTypes DEF States
  <2> HIDE DEF Tasks
  <2> QED BY <1>1, <2>1, Appended
<1>3. CASE (app = "RUNNING" \/ tries >= MaxTries) /\ Assert(TRUE) /\ Now.do = "restore"
  <2>1. Judge(Script, TRUE) /\ fault' = fault /\ Still
    BY <1>3 DEF Assert, Still, server
  <2>2. Outcome(TRUE)
    BY <2>1, Judged DEF Outcome
  <2> QED BY <1>1, <1>3, <2>1, <2>2 DEF AskedAgain, Still
<1>4. ASSUME NEW unanswered \in 0 .. 1, NEW failing \in 0 .. 1, Now.do = "restore",
             tries < MaxTries, lost + unanswered + failing <= MaxLost,
             lost' = lost + unanswered + failing, tries' = tries + 1,
             tasks' \in {Append(tasks, Task("app", "RUNNING"))}
                          \cup (IF failing = 1 THEN {tasks} ELSE {}),
             UNCHANGED <<scriptVars, heard, mark, notices, app, volume, sources, owners, handler>>
      PROVE  AskedAgain
  <2>1. lost' \in 0 .. MaxLost /\ tries' \in 0 .. MaxTries /\ lost' >= lost
    BY <1>1, <1>4
  <2>2. \/ tasks' = Append(tasks, Task("app", "RUNNING"))
        \/ tasks' = tasks /\ lost' >= lost + 1
    BY <1>1, <1>4
  <2>3. tasks' \in Seq(Tasks)
    BY <1>1, <1>2, <2>2
  <2>4. UNCHANGED <<case, fault, pc, failed>> /\ Script' = Script
    BY <1>4 DEF scriptVars, Script
  <2> QED BY <1>4, <2>1, <2>2, <2>3, <2>4 DEF AskedAgain
<1>5. CASE Now.do = "restore" /\ ~((app = "RUNNING" \/ tries >= Tries) /\ Assert(TRUE))
  <2>1. PICK unanswered, failing \in 0 .. (IF fault = Loses THEN 1 ELSE 0) :
          /\ lost + unanswered + failing <= MaxLost
          /\ lost' = lost + unanswered + failing
          /\ tasks' \in {Append(tasks, Task("app", "RUNNING"))}
                          \cup (IF failing = 1 THEN {tasks} ELSE {})
    BY <1>5 DEF RestoreStep
  <2>2. /\ tries < MaxTries /\ tries' = tries + 1
        /\ UNCHANGED <<scriptVars, heard, mark, notices, app, volume, sources, owners, handler>>
    BY <1>5 DEF RestoreStep, Tries
  <2>3. unanswered \in 0 .. 1 /\ failing \in 0 .. 1
    OBVIOUS
  <2> QED BY <1>4, <1>5, <2>1, <2>2, <2>3
<1> QED BY <1>3, <1>5 DEF RestoreStep, Tries

-----------------------------------------------------------------------------
(***************************************************************************)
(* The kinds together; types; the state of the server in most cases.       *)
(***************************************************************************)

\* The steps of the test thread that leave everything as it is.
Awaited == /\ Now.do = "await" /\ Still
           /\ Outcome(Observed(Now.what))
           /\ Observed(Now.what) \/ Settled \/ fault = Slow
Polled  == /\ Now.do = "poll" /\ Still
           /\ Outcome(volume = Now.value)
           /\ volume = Now.value \/ Settled \/ fault = Slow
Slept   == Now.do = "sleep" /\ Still /\ Outcome(TRUE) /\ Settled
Checked == Now.do = "check" /\ Still /\ Outcome(Holds(Now.what))

\* Which of them a step of the test thread is, by what the script has it do.
LEMMA ByKind ==
  ASSUME TypeInv, TestCase
  PROVE  /\ ~Finished
         /\ Now.do \in {"call", "write"} => Called
         /\ Now.do = "register" => Registered
         /\ Now.do = "get" => Asked
         /\ Now.do = "await" => Awaited
         /\ Now.do = "poll" => Polled
         /\ Now.do = "sleep" => Slept
         /\ Now.do = "check" => Checked
         /\ Now.do = "sim" => SetOnSim
         /\ Now.do = "restore" => AskedAgain
         /\ \/ Called \/ Registered \/ Asked \/ Awaited \/ Polled \/ Slept \/ Checked
            \/ SetOnSim \/ AskedAgain
<1>1. ~Finished
  BY DEF TestCase
<1>2. CASE CallStep
  <2>1. Called
    BY <1>1, <1>2, CallDoes
  <2> QED BY <1>1, <2>1 DEF Called
<1>3. CASE RegisterStep
  <2>1. Registered
    BY <1>1, <1>3, RegisterDoes
  <2> QED BY <1>1, <2>1 DEF Registered
<1>4. CASE GetStep
  <2>1. Asked
    BY <1>1, <1>4, GetDoes
  <2> QED BY <1>1, <2>1 DEF Asked
<1>5. CASE AwaitStep
  <2>1. Awaited
    BY <1>1, <1>5, AwaitDoes DEF Awaited
  <2> QED BY <1>1, <2>1 DEF Awaited
<1>6. CASE PollStep
  <2>1. Polled
    BY <1>1, <1>6, PollDoes DEF Polled
  <2> QED BY <1>1, <2>1 DEF Polled
<1>7. CASE SleepStep
  <2>1. Slept
    BY <1>1, <1>7, SleepDoes DEF Slept
  <2> QED BY <1>1, <2>1 DEF Slept
<1>8. CASE CheckStep
  <2>1. Checked
    BY <1>1, <1>8, CheckDoes DEF Checked
  <2> QED BY <1>1, <2>1 DEF Checked
<1>9. CASE SetStateStep
  <2>1. SetOnSim
    BY <1>1, <1>9, SetStateDoes
  <2> QED BY <1>1, <2>1 DEF SetOnSim
<1>10. CASE RestoreStep
  <2>1. AskedAgain
    BY <1>1, <1>10, RestoreDoes
  <2> QED BY <1>1, <2>1 DEF AskedAgain
<1> QED BY <1>2, <1>3, <1>4, <1>5, <1>6, <1>7, <1>8, <1>9, <1>10 DEF TestCase

\* A task is left to be done after the others.
LEMMA TaskAdded ==
  ASSUME TypeInv, NEW u \in Tasks, tasks' = Append(tasks, u)
  PROVE  /\ \A t : Has(tasks', t) <=> Due(t) \/ t = u
         /\ tasks' # << >> /\ Target' = u.value
         /\ tasks = << >> => tasks' = <<u>>
<1>1. tasks \in Seq(Tasks)
  BY DEF TypeInv
<1> HIDE DEF Tasks
<1>2. /\ tasks' # << >> /\ Len(tasks') = Len(tasks) + 1 /\ tasks'[Len(tasks) + 1] = u
      /\ \A t : Has(tasks', t) <=> Has(tasks, t) \/ t = u
  BY <1>1, Appended
<1>3. Target' = u.value
  BY <1>2 DEF Target
<1>4. tasks = << >> => tasks' = <<u>>
  OBVIOUS
<1> QED BY <1>2, <1>3, <1>4 DEF Due

\* A notice is on its way after the others.
LEMMA NoteAdded ==
  ASSUME TypeInv, NEW x \in Notes, notices' = Append(notices, x)
  PROVE  \A n : Has(notices', n) <=> Coming(n) \/ n = x
<1>1. notices \in Seq(Notes)
  BY DEF TypeInv
<1> HIDE DEF Notes
<1> QED BY <1>1, Appended DEF Coming

\* Types.
LEMMA TypeKept ==
  ASSUME TypeInv, Next
  PROVE  TypeInv'
<1>1. ASSUME Work PROVE TypeInv'
  <2>1. PICK t \in Tasks : Applied(t)
    BY <1>1, WorkDoes
  <2>2. Script' = Script
    BY <2>1 DEF Applied, Script
  <2> QED BY <2>1, <2>2 DEF Applied, TypeInv
<1>2. ASSUME Notify PROVE TypeInv'
  <2>1. Script' = Script /\ case' = case
    BY <1>2, NotifyDoes DEF Script
  <2> QED BY <1>2, <2>1, NotifyDoes DEF TypeInv
<1>3. ASSUME TestCase PROVE TypeInv'
  <2>1. mark \in 0 .. Len(heard) /\ Len(heard) \in 0 .. Len(heard) /\ case \in DOMAIN Suite
    BY DEF TypeInv
  <2>2. CASE Called
    <3>1. mark' \in 0 .. Len(heard') /\ heard' \in Seq(Notes)
      BY <2>1, <2>2 DEF Called, TypeInv
    <3> QED BY <2>1, <2>2, <3>1 DEF Called, Outcome, TypeInv
  <2>3. CASE Registered
    BY <2>3 DEF Registered, Outcome, TypeInv
  <2>4. CASE Asked
    BY <2>4 DEF Asked, Outcome, TypeInv
  <2>5. CASE Awaited \/ Polled \/ Slept \/ Checked
    <3>1. Still
      BY <2>5 DEF Awaited, Polled, Slept, Checked
    <3>2. /\ case' = case /\ failed' \in BOOLEAN /\ pc' \in 1 .. Len(Script)' + 1
      BY <2>5 DEF Awaited, Polled, Slept, Checked, Outcome
    <3> QED BY <3>1, <3>2 DEF Still, TypeInv
  <2>6. CASE SetOnSim
    BY <2>6 DEF SetOnSim, Outcome, TypeInv
  <2>7. CASE AskedAgain
    <3>1. case' = case /\ failed' \in BOOLEAN /\ pc' \in 1 .. Len(Script)' + 1
      BY <2>7 DEF AskedAgain, Outcome, TypeInv
    <3> QED BY <2>7, <3>1 DEF AskedAgain, TypeInv
  <2> QED BY <1>3, <2>2, <2>3, <2>4, <2>5, <2>6, <2>7, ByKind
<1> QED BY <1>1, <1>2, <1>3 DEF Next

\* What the test thread's steps that ask nothing of the server leave alone.
LEMMA Frames ==
  ASSUME TypeInv, TestCase
  PROVE  /\ case' = case /\ fault' = fault /\ Script' = Script
         /\ heard' = heard /\ app' = app /\ volume' = volume
         /\ Now # SetMark => mark' = mark
         /\ Now.do \notin {"call", "write", "sim", "restore"} => tasks' = tasks
         /\ Now.do # "call" => notices' = notices /\ owners' = owners
         /\ Now.do # "register" => handler' = handler
         /\ Now.do # "get" => (sources'.all <=> sources.all)
         /\ Now.do # "restore" => tries' = tries
         /\ Now.do \notin {"restore", "sim"} => lost' = lost
         /\ Now.do \notin {"call", "restore"} => pc' = pc + 1
<1>1. Kinds(case, pc, Now)
  BY ByKind, AtStep
<1>2. Now = SetMark => Now.do = "call"
  BY DEF SetMark, Plain, Step
<1>3. CASE Called
  <2>1. /\ Now.do = "write" => Now.what # "registerClient" /\ Now.what # "dropClient"
             /\ Now.what # "destroyControl" /\ Now.what # "makePlayer"
        /\ Now.do = "write" => Now.must # "abort"
    BY <1>1 DEF Kinds
  <2> QED BY <1>3, <2>1 DEF Called, Outcome
<1>4. CASE Registered
  BY <1>1, <1>2, <1>4 DEF Registered, Outcome, Kinds
<1>5. CASE Asked
  BY <1>1, <1>2, <1>5 DEF Asked, Outcome, Kinds
<1>6. CASE Awaited \/ Polled \/ Slept \/ Checked
  <2>1. /\ Still /\ Now.do \in {"await", "poll", "sleep", "check"}
        /\ case' = case /\ fault' = fault /\ Script' = Script
        /\ Now.must # "abort" => pc' = pc + 1
    BY <1>6 DEF Awaited, Polled, Slept, Checked, Outcome
  <2> QED BY <1>1, <1>2, <2>1 DEF Still, Kinds
<1>7. CASE SetOnSim
  BY <1>1, <1>2, <1>7 DEF SetOnSim, Outcome, Kinds
<1>8. CASE AskedAgain
  BY <1>2, <1>8 DEF AskedAgain, Outcome
<1> QED BY <1>3, <1>4, <1>5, <1>6, <1>7, <1>8, ByKind

\* The state of the server is left alone in every case but one.
LEMMA QuietKept ==
  ASSUME TypeInv, QuietInv, Next
  PROVE  QuietInv'
<1>1. ASSUME Work PROVE QuietInv'
  <2>1. PICK t \in Tasks : Applied(t)
    BY <1>1, WorkDoes
  <2>2. t.do \in {"app", "player", "volume", "log"}
    BY SMT DEF Tasks
  <2> QED BY <2>1, <2>2 DEF QuietInv, Applied, Due
<1>2. ASSUME Notify PROVE QuietInv'
  BY <1>2, NotifyDoes DEF QuietInv, Due
<1>3. ASSUME TestCase PROVE QuietInv'
  <2>1. Kinds(case, pc, Now)
    BY <1>3, ByKind, AtStep
  <2>2. CASE Now.do \notin {"call", "write", "sim", "restore"}
    BY <1>3, <2>2, Frames DEF QuietInv, Due
  <2>3. CASE Now.do \in {"sim", "restore"}
    BY <1>3, <2>1, <2>3, Frames DEF QuietInv, Kinds
  <2>4. CASE Now.do \in {"call", "write"} /\ tasks' = tasks
    BY <1>3, <2>4, Frames DEF QuietInv, Due
  <2>5. CASE Now.do \in {"call", "write"} /\ tasks' # tasks
    <3>1. Called
      BY <1>3, <2>5, ByKind
    <3>2. Now.what \in DOMAIN Enqueued /\ tasks' = Append(tasks, Enqueued[Now.what])
      BY <2>5, <3>1 DEF Called
    <3>3. Now.what = "property" => Now.value \in Volumes
      BY <2>1, <3>1 DEF Kinds, Called
    <3>4. Enqueued[Now.what] \in Tasks
      BY <3>2, <3>3, EnqueuedIs, TaskTypes DEF Moves
    <3>5. Enqueued[Now.what].do # "app"
      BY <3>2, EnqueuedIs DEF Task
    <3>6. \A t : Has(tasks', t) <=> Due(t) \/ t = Enqueued[Now.what]
      BY <3>2, <3>4, TaskAdded
    <3> QED BY <1>3, <3>5, <3>6, Frames DEF QuietInv, Due
  <2> QED BY <2>2, <2>3, <2>4, <2>5
<1> QED BY <1>1, <1>2, <1>3 DEF Next

-----------------------------------------------------------------------------
(***************************************************************************)
(* Silenced notices, and the case that changes the server's state.         *)
(***************************************************************************)

\* Every client registers with a server that is RUNNING.
LEMMA RegistersRunning ==
  ASSUME TypeInv, QuietInv, ChangingInv, ~Finished, Now.do = "call", Now.what = "registerClient"
  PROVE  app = "RUNNING" /\ pc = 2
<1>1. Kinds(case, pc, Now)
  BY AtStep
<1>2. pc = 2
  BY <1>1 DEF Kinds
<1> QED BY <1>2 DEF QuietInv, ChangingInv

\* Notices that have been silenced.
LEMMA SilenceKept ==
  ASSUME TypeInv, QuietInv, ChangingInv, SilenceInv, Next
  PROVE  SilenceInv'
<1>1. ASSUME Work PROVE SilenceInv'
  <2>1. PICK t \in Tasks : Applied(t)
    BY <1>1, WorkDoes
  <2>2. /\ t.do \in {"app", "player", "volume", "log"}
        /\ t.do = "app" => t.value \in States
        /\ t.do = "player" => t.value \in Moves
        /\ handler \in {"none", "first", "second"}
    BY SMT DEF Tasks, TypeInv
  <2>3. t.value \in Notes /\ notices' = Append(notices, t.value) =>
          \A n : Has(notices', n) <=> Coming(n) \/ n = t.value
    BY NoteAdded
  <2>4. heard' = heard /\ fault' = fault
    BY <2>1 DEF Applied
  <2>5. CASE t.do \in {"app", "player"}
    <3>1. t.value \in States \cup Moves /\ t.value \in Notes
      BY <2>2, <2>5 DEF Notes
    <3>2. \A n : Has(notices', n) => Coming(n) \/ (n = t.value /\ fault # Silences(n))
      BY <2>1, <2>3, <2>5, <3>1 DEF Applied, Coming
    <3>3. t.value # "FAILURE"
      BY <3>1 DEF States, Moves
    <3> QED BY <2>4, <3>1, <3>2, <3>3 DEF SilenceInv, Coming, Seen, States, Moves
  <2>6. CASE t.do = "volume"
    BY <2>1, <2>4, <2>6 DEF Applied, SilenceInv, Coming, Seen
  <2>7. CASE t.do = "log"
    <3>1. \A n : Has(notices', n) =>
            Coming(n) \/ (n \in {"first", "second"} /\ fault # Silences("log"))
      BY <2>1, <2>2, <2>7 DEF Applied, Coming
    <3> QED BY <2>4, <3>1 DEF SilenceInv, Coming, Seen, Moves
  <2> QED BY <2>2, <2>5, <2>6, <2>7
<1>2. ASSUME Notify PROVE SilenceInv'
  BY <1>2, NotifyDoes DEF SilenceInv, Coming, Seen
<1>3. ASSUME TestCase PROVE SilenceInv'
  <2>1. fault' = fault /\ heard' = heard /\ ~Finished
    BY <1>3, Frames, ByKind
  <2>2. CASE notices' = notices
    BY <2>1, <2>2 DEF SilenceInv, Coming, Seen
  <2>3. CASE notices' # notices
    <3>1. Called /\ Now.do = "call"
      BY <1>3, <2>3, Frames, ByKind
    <3>2. CASE Now.what = "registerClient" /\ notices' = Append(notices, app)
      <4>1. app = "RUNNING" /\ app \in Notes
        BY <2>1, <3>1, <3>2, RegistersRunning DEF Notes, States
      <4>2. \A n : Has(notices', n) <=> Coming(n) \/ n = "RUNNING"
        BY <3>2, <4>1, NoteAdded
      <4> QED BY <2>1, <4>2 DEF SilenceInv, Coming, Seen, Moves
    <3>3. CASE fault = Breaks("makePlayer") /\ notices' = Append(notices, "FAILURE")
      <4>1. \A n : Has(notices', n) <=> Coming(n) \/ n = "FAILURE"
        <5>1. "FAILURE" \in Notes
          BY DEF Notes
        <5> QED BY <3>3, <5>1, NoteAdded
      <4>2. \A n : fault # Silences(n)
        BY <3>3, FaultsDiffer
      <4> QED BY <2>1, <3>3, <4>1, <4>2 DEF SilenceInv
    <3> QED BY <2>3, <3>1, <3>2, <3>3 DEF Called
  <2> QED BY <2>2, <2>3
<1> QED BY <1>1, <1>2, <1>3 DEF Next

\* The state the server is in once it has done what it was asked.
LEMMA TargetKept ==
  ASSUME TypeInv, NEW t \in Tasks, Applied(t), \A u \in Tasks : Due(u) => u.do = "app"
  PROVE  Target' = Target
<1>1. tasks \in Seq(Tasks) /\ tasks # << >> /\ tasks' = Tail(tasks) /\ t = tasks[1]
      /\ t.do = "app" /\ app' = t.value
  BY DEF TypeInv, Applied
<1> HIDE DEF Tasks
<1>2. /\ Len(tasks) \in Nat \ {0} /\ Len(tasks') = Len(tasks) - 1 /\ tasks' \in Seq(Tasks)
      /\ \A i \in DOMAIN tasks' : tasks'[i] = tasks[i + 1]
  BY <1>1, Removed
<1>3. PICK n \in Nat \ {0} : n = Len(tasks) /\ n - 1 = Len(tasks')
  BY <1>2
<1>4. CASE n = 1
  <2>1. tasks' = << >>
    BY <1>2, <1>3, <1>4, EmptySeq
  <2> QED BY <1>1, <1>3, <1>4, <2>1 DEF Target
<1>5. CASE n # 1
  <2>1. n - 1 \in DOMAIN tasks' /\ tasks' # << >> /\ (n - 1) + 1 = n
    BY <1>2, <1>3, <1>5
  <2> QED BY <1>1, <1>2, <1>3, <2>1 DEF Target
<1> QED BY <1>4, <1>5

\* The state is changed: by the server's thread,
LEMMA ChangingWork ==
  ASSUME TypeInv, ChangingInv, case = Changing, Work
  PROVE  ChangingInv'
<1>1. PICK t \in Tasks : Applied(t)
  BY WorkDoes
<1>2. /\ UNCHANGED <<case, fault, pc, failed, heard, tries, lost>>
      /\ tasks' = Tail(tasks) /\ tasks # << >> /\ Due(t)
      /\ \A u : Has(tasks', u) => Due(u)
  BY <1>1 DEF Applied
<1>3. pc > 5 /\ pc \in Nat
  BY <1>2 DEF ChangingInv, TypeInv
<1>4. \A u \in Tasks : Due(u)' => u.do = "app"
  BY <1>2 DEF ChangingInv, Due
<1>5. pc <= 8 => tasks' = << >>
  <2>1. \A x : Tail(<<x>>) = << >>
    OBVIOUS
  <2> QED BY <1>2, <2>1, Zenon DEF ChangingInv
<1>6. Target' = Target
  BY <1>1, TargetKept DEF ChangingInv
<1>7. pc > 8 => Target = "RUNNING"
  BY <1>2 DEF ChangingInv
<1> QED BY <1>2, <1>3, <1>4, <1>5, <1>6, <1>7 DEF ChangingInv

\* by a notice that does not change it,
LEMMA ChangingNotify ==
  ASSUME TypeInv, ChangingInv, case = Changing, Notify
  PROVE  ChangingInv'
<1>1. /\ UNCHANGED <<case, fault, pc, failed, tasks, app, tries, lost>>
      /\ notices # << >>
      /\ \A n : Coming(n)' => Coming(n)
      /\ \A n : Seen(n)' => Seen(n) \/ Coming(n)
  BY NotifyDoes DEF Coming, Seen
<1>2. pc > 2 /\ pc \in Nat
  BY <1>1 DEF ChangingInv, TypeInv
<1>3. Target' = Target /\ \A u : Due(u)' <=> Due(u)
  BY <1>1 DEF Target, Due
<1> QED BY <1>1, <1>2, <1>3 DEF ChangingInv

\* by the case.
LEMMA ChangingStep ==
  ASSUME TypeInv, QuietInv, ChangingInv, case = Changing, TestCase
  PROVE  ChangingInv'
<1> USE FaultsDiffer
<1>1. /\ ~Finished /\ Kinds(case, pc, Now) /\ pc \in Nat /\ pc >= 1 /\ pc <= 10
  BY ByKind, AtStep, StepsChanging DEF TypeInv
<1>2. /\ case' = case /\ fault' = fault /\ heard' = heard /\ app' = app
      /\ \A n : Seen(n)' <=> Seen(n)
      /\ Now.do # "call" => notices' = notices
  BY Frames DEF Seen
<1>3. notices' = notices => \A n : Coming(n)' <=> Coming(n)
  BY DEF Coming
<1>4. tasks' = tasks => \A u : Due(u)' <=> Due(u)
  BY DEF Due
<1>5. tasks' = tasks => Target' = Target
  BY <1>2 DEF Target
<1>6. CASE pc = 1
  <2>1. Called /\ Now.what = "createControl"
    BY <1>6, StepsChanging, ByKind DEF Setup, Step
  <2>2. UNCHANGED <<tasks, notices, tries, lost>> /\ pc' \in Nat
    BY <1>1, <2>1, EnqueuedIs DEF Called, Outcome, TypeInv
  <2>3. tasks = << >> /\ app = "RUNNING" /\ tries = 0 /\ Target = "RUNNING"
        /\ notices = << >> /\ heard = << >> /\ ~Coming("INACTIVE") /\ ~Seen("INACTIVE")
    BY <1>6 DEF ChangingInv, Target
  <2>4. Target' = "RUNNING"
    BY <1>5, <2>2, <2>3
  <2> QED BY <1>2, <1>3, <1>4, <2>2, <2>3, <2>4 DEF ChangingInv
<1>7. CASE pc = 2
  <2>1. Called /\ Now.what = "registerClient" /\ Now.must = "hold"
    BY <1>7, StepsChanging, ByKind DEF Call, Step
  <2>2. UNCHANGED <<tasks, tries, lost>> /\ pc' = 3
        /\ (notices' = notices \/ notices' = Append(notices, app))
    BY <1>7, <2>1, EnqueuedIs DEF Called, Outcome
  <2>3. tasks = << >> /\ app = "RUNNING" /\ tries = 0
        /\ ~Coming("INACTIVE") /\ ~Seen("INACTIVE")
    BY <1>7 DEF ChangingInv
  <2>4. "RUNNING" \in Notes
    BY DEF Notes, States
  <2>5. ~Coming("INACTIVE")'
    BY <1>3, <2>2, <2>3, <2>4, NoteAdded DEF Coming
  <2> QED BY <1>2, <1>4, <2>2, <2>3, <2>5 DEF ChangingInv
<1>8. CASE pc = 3 \/ pc = 4
  <2>1. UNCHANGED <<tasks, notices, tries, lost>> /\ pc' = pc + 1
    <3>1. CASE pc = 3
      <4>1. Asked
        BY <3>1, StepsChanging, ByKind DEF Get, Step
      <4> QED BY <1>1, <4>1, Frames DEF Asked
    <3>2. CASE pc = 4
      <4>1. Called /\ Now.what = "mark" /\ Now.must = "ignored"
        BY <3>2, StepsChanging, ByKind DEF SetMark, Plain, Step
      <4> QED BY <4>1, EnqueuedIs DEF Called, Outcome
    <3> QED BY <1>8, <3>1, <3>2
  <2>2. tasks = << >> /\ app = "RUNNING" /\ tries = 0
        /\ ~Coming("INACTIVE") /\ ~Seen("INACTIVE")
    BY <1>8 DEF ChangingInv
  <2>3. pc' = 4 \/ pc' = 5
    BY <1>8, <2>1
  <2> QED BY <1>2, <1>3, <1>4, <2>1, <2>2, <2>3 DEF ChangingInv
<1>9. CASE pc = 5
  <2>1. SetOnSim /\ Now.value = "INACTIVE" /\ Now.must = "hold"
    BY <1>9, StepsChanging, ByKind DEF SetState, Step
  <2>2. UNCHANGED <<notices, tries>> /\ pc' = 6
        /\ (tasks' = tasks \/ tasks' = Append(tasks, Task("app", "INACTIVE")))
    BY <1>9, <2>1 DEF SetOnSim, Outcome
  <2>3. tasks = << >> /\ app = "RUNNING" /\ tries = 0
        /\ ~Coming("INACTIVE") /\ ~Seen("INACTIVE")
    BY <1>9 DEF ChangingInv
  <2>4. Task("app", "INACTIVE") \in Tasks /\ Task("app", "INACTIVE").do = "app"
    BY TaskTypes DEF States, Task
  <2>5. \A u \in Tasks : Due(u)' => u.do = "app"
    BY <1>4, <2>2, <2>4, TaskAdded DEF Due, ChangingInv
  <2>6. tasks' \in {<< >>, <<Task("app", "INACTIVE")>>}
    BY <2>2, <2>3, <2>4, TaskAdded
  <2> QED BY <1>2, <1>3, <2>2, <2>3, <2>5, <2>6 DEF ChangingInv
<1>10. CASE pc = 6
  <2>1. Awaited /\ Now.what = "INACTIVE" /\ Now.must = "hold"
    BY <1>10, StepsChanging, ByKind DEF Await, Step
  <2>2. UNCHANGED <<tasks, notices, tries>> /\ pc' = 7
        /\ (Observed("INACTIVE") \/ Settled \/ fault = Slow)
    BY <1>10, <2>1 DEF Awaited, Still, Outcome
  <2>3. Observed("INACTIVE") => Seen("INACTIVE")
    <3>1. mark \in Nat /\ DOMAIN heard = 1 .. Len(heard) /\ Len(heard) \in Nat
      BY DEF TypeInv
    <3> QED BY <3>1 DEF Observed, Since, Seen, Has
  <2>4. fault # Slow => tasks = << >>
    BY <1>10, <2>2, <2>3 DEF Settled, ChangingInv
  <2>5. tries = 0 /\ tasks \in {<< >>, <<Task("app", "INACTIVE")>>}
    BY <1>10 DEF ChangingInv
  <2>6. \A u \in Tasks : Due(u)' => u.do = "app"
    BY <1>4, <2>2 DEF ChangingInv
  <2> QED BY <1>2, <2>2, <2>4, <2>5, <2>6 DEF ChangingInv
<1>11. CASE pc = 7
  <2>1. Called /\ Now.what = "mark" /\ Now.must = "ignored"
    BY <1>11, StepsChanging, ByKind DEF SetMark, Plain, Step
  <2>2. UNCHANGED <<tasks, notices, tries>> /\ pc' = 8
    BY <1>11, <2>1, EnqueuedIs DEF Called, Outcome
  <2>3. /\ tries = 0 /\ tasks \in {<< >>, <<Task("app", "INACTIVE")>>}
        /\ fault # Slow => tasks = << >>
    BY <1>11 DEF ChangingInv
  <2>4. \A u \in Tasks : Due(u)' => u.do = "app"
    BY <1>4, <2>2 DEF ChangingInv
  <2> QED BY <1>2, <2>2, <2>3, <2>4 DEF ChangingInv
<1>12. CASE pc = 8
  <2>1. SetOnSim /\ Now.value = "RUNNING" /\ Now.must = "hold"
    BY <1>12, StepsChanging, ByKind DEF SetState, Step
  <2>2. /\ UNCHANGED <<notices, tries>> /\ pc' = 9
        /\ \/ tasks' = Append(tasks, Task("app", "RUNNING"))
           \/ tasks' = tasks /\ lost' = lost + 1 /\ fault = Loses
    BY <1>12, <2>1 DEF SetOnSim, Outcome
  <2>3. tries = 0 /\ (fault # Slow => tasks = << >>) /\ lost \in Nat
    BY <1>12 DEF ChangingInv, TypeInv
  <2>4. Task("app", "RUNNING") \in Tasks /\ Task("app", "RUNNING").do = "app"
        /\ Task("app", "RUNNING").value = "RUNNING"
    BY TaskTypes DEF States, Task
  <2>5. \A u \in Tasks : Due(u)' => u.do = "app"
    BY <1>4, <2>2, <2>4, TaskAdded DEF Due, ChangingInv
  <2>6. Target' = "RUNNING" \/ (tasks' = << >> /\ lost' >= 1 + tries')
    BY <2>2, <2>3, <2>4, TaskAdded
  <2> QED BY <1>2, <2>2, <2>3, <2>5, <2>6 DEF ChangingInv
<1>13. CASE pc = 9
  <2>1. Awaited /\ Now.must = "hold"
    BY <1>13, StepsChanging, ByKind DEF Await, Step
  <2>2. UNCHANGED <<tasks, notices, tries, lost>> /\ pc' = 10
    BY <1>13, <2>1 DEF Awaited, Still, Outcome
  <2>3. Target = "RUNNING" \/ (tasks = << >> /\ lost >= 1 + tries)
    BY <1>13 DEF ChangingInv
  <2>4. \A u \in Tasks : Due(u)' => u.do = "app"
    BY <1>4, <2>2 DEF ChangingInv
  <2> QED BY <1>2, <1>5, <2>2, <2>3, <2>4 DEF ChangingInv
<1>14. CASE pc = 10
  <2>1. AskedAgain
    BY <1>14, StepsChanging, ByKind DEF RestoreActive, Step
  <2>2. Target = "RUNNING" \/ (tasks = << >> /\ lost >= 1 + tries)
    BY <1>14 DEF ChangingInv
  <2>3. lost \in 0 .. MaxLost /\ tries \in Nat /\ MaxTries \in Nat /\ MaxLost \in Nat
        /\ MaxLost <= MaxTries
    BY RestoreAssumption DEF TypeInv
  <2>4. Task("app", "RUNNING") \in Tasks /\ Task("app", "RUNNING").do = "app"
        /\ Task("app", "RUNNING").value = "RUNNING"
    BY TaskTypes DEF States, Task
  <2>5. CASE (app = "RUNNING" \/ tries >= MaxTries) /\ Outcome(TRUE) /\ tasks' = tasks
    <3>1. Target = "RUNNING"
      BY <2>2, <2>3, <2>5 DEF Target
    <3>2. pc' = 11
      BY <1>14, <2>5 DEF Outcome
    <3>3. \A u \in Tasks : Due(u)' => u.do = "app"
      BY <1>4, <2>5 DEF ChangingInv
    <3> QED BY <1>2, <1>5, <2>5, <3>1, <3>2, <3>3 DEF ChangingInv
  <2>6. CASE /\ pc' = pc /\ tries' = tries + 1 /\ lost' >= lost
             /\ \/ tasks' = Append(tasks, Task("app", "RUNNING"))
                \/ tasks' = tasks /\ lost' >= lost + 1
    <3>1. \A u \in Tasks : Due(u)' => u.do = "app"
      BY <1>4, <2>4, <2>6, TaskAdded DEF Due, ChangingInv
    <3>2. lost' \in Nat
      BY <2>1, <2>3 DEF AskedAgain
    <3>3. Target' = "RUNNING" \/ (tasks' = << >> /\ lost' >= 1 + tries')
      BY <1>5, <2>2, <2>3, <2>4, <2>6, <3>2, TaskAdded
    <3> QED BY <1>2, <1>14, <2>6, <3>1, <3>3 DEF ChangingInv
  <2> QED BY <2>1, <2>5, <2>6 DEF AskedAgain
<1> QED BY <1>1, <1>6, <1>7, <1>8, <1>9, <1>10, <1>11, <1>12, <1>13, <1>14

\* By any of them.
LEMMA ChangingKept ==
  ASSUME TypeInv, QuietInv, ChangingInv, Next
  PROVE  ChangingInv'
<1>1. CASE case = Changing
  BY <1>1, ChangingWork, ChangingNotify, ChangingStep DEF Next
<1>2. CASE case # Changing
  <2>1. case' = case
    BY WorkDoes, NotifyDoes, Frames DEF Next, Applied
  <2> QED BY <1>2, <2>1 DEF ChangingInv
<1> QED BY <1>1, <1>2

-----------------------------------------------------------------------------
(***************************************************************************)
(* The notices of the changes.                                             *)
(***************************************************************************)

\* A case goes on to its next step, unless a call that is refused ends it.
LEMMA Advances ==
  ASSUME TypeInv, TestCase, Now.do # "restore"
  PROVE  /\ pc \in Nat /\ pc >= 1 /\ pc' \in Nat /\ pc' >= pc + 1
         /\ pc' = pc + 1 \/ (failed' /\ fault = Refuses(Now.what) /\ Now.do = "call")
         /\ failed => failed'
<1>1. Kinds(case, pc, Now) /\ pc \in Nat /\ pc >= 1 /\ Len(Script) \in Nat
  BY ByKind, AtStep DEF TypeInv
<1>2. CASE Called
  <2>1. Now.do = "write" => Now.must # "abort"
    BY <1>1 DEF Kinds
  <2> QED BY <1>1, <1>2, <2>1 DEF Called, Outcome
<1>3. CASE Registered
  BY <1>1, <1>3 DEF Registered, Outcome, Kinds
<1>4. CASE Asked
  BY <1>1, <1>4 DEF Asked, Outcome, Kinds
<1>5. CASE Awaited \/ Polled \/ Slept \/ Checked
  <2>1. /\ Now.do \in {"await", "poll", "sleep", "check"}
        /\ Now.must # "abort" => pc' = pc + 1
        /\ failed => failed'
    BY <1>5 DEF Awaited, Polled, Slept, Checked, Outcome
  <2> QED BY <1>1, <2>1 DEF Kinds
<1>6. CASE SetOnSim
  BY <1>1, <1>6 DEF SetOnSim, Outcome, Kinds
<1>7. CASE AskedAgain
  BY <1>7 DEF AskedAgain
<1> QED BY <1>2, <1>3, <1>4, <1>5, <1>6, <1>7, ByKind

\* Nothing but a restart of the wait changes what is observed without a notice.
LEMMA Unheard ==
  ASSUME heard' = heard, mark' = mark
  PROVE  /\ \A n : Observed(n)' <=> Observed(n)
         /\ \A n : Seen(n)' <=> Seen(n)
BY DEF Observed, Since, Seen

\* What has been observed since the mark has been seen.
LEMMA SeenIfObserved ==
  ASSUME TypeInv, NEW n, Observed(n)
  PROVE  Seen(n)
<1>1. mark \in Nat /\ DOMAIN heard = 1 .. Len(heard) /\ Len(heard) \in Nat
  BY DEF TypeInv
<1> QED BY <1>1 DEF Observed, Since, Seen, Has

\* After the mark is set nothing has been observed since.
LEMMA Marked ==
  ASSUME TypeInv, heard' = heard, mark' = Len(heard)
  PROVE  \A n : ~Observed(n)'
<1>1. Len(heard) \in Nat
  BY DEF TypeInv
<1> QED BY <1>1 DEF Observed, Since

\* With nothing left to do, what was ahead has been observed.
LEMMA ObservedAtLast ==
  ASSUME TypeInv, Settled
  PROVE  /\ \A n : Ahead(n) => Observed(n)
         /\ \A n : ~Coming(n)
         /\ \A t : ~Due(t)
BY DEF Settled, Ahead, Coming, Due, Has

\* The notices of the changes, as the server's thread makes them,
LEMMA ChangedWork ==
  ASSUME TypeInv, ChangingInv, ChangedInv, case = Changing, Work
  PROVE  ChangedInv'
<1> USE FaultsDiffer
<1>1. PICK t \in Tasks : Applied(t)
  BY WorkDoes
<1>2. /\ UNCHANGED <<case, fault, pc, failed, heard, mark>>
      /\ tasks # << >> /\ t = tasks[1] /\ t.do = "app" /\ t.value \in States
      /\ \A n : Coming(n) => Coming(n)'
      /\ pc \in Nat
  BY <1>1 DEF Applied, ChangingInv, Coming, Tasks, TypeInv
<1>3. /\ app' = t.value
      /\ app = t.value \/ fault = Silences(t.value) => notices' = notices
      /\ notices' = notices \/ notices' = Append(notices, t.value)
      /\ app # t.value /\ fault # Silences(t.value) /\ fault # Forgets(t.value) =>
           notices' = Append(notices, t.value)
  BY <1>1, <1>2 DEF Applied
<1>4. t.value \in Notes /\ (notices' = Append(notices, t.value) =>
        \A n : Coming(n)' <=> Coming(n) \/ n = t.value)
  BY <1>2, NoteAdded DEF Coming, Notes
<1>5. ASSUME fault = Conforming, pc = 6
      PROVE  app' = "INACTIVE" /\ Ahead("INACTIVE")'
  <2>1. tasks = <<Task("app", "INACTIVE")>> /\ app = "RUNNING"
    BY <1>2, <1>5 DEF ChangingInv
  <2>2. t.value = "INACTIVE"
    BY <1>2, <2>1 DEF Task
  <2> QED BY <1>3, <1>4, <1>5, <2>1, <2>2 DEF Ahead
<1>6. ASSUME fault = Conforming, pc \in {7, 8}
      PROVE  FALSE
  BY <1>2, <1>6 DEF ChangingInv
<1>7. ASSUME fault = Conforming, pc = 9
      PROVE  Ahead("RUNNING")'
  <2>1. CASE Ahead("RUNNING")
    BY <1>2, <2>1, Unheard DEF Ahead
  <2>2. CASE tasks = <<Task("app", "RUNNING")>> /\ app = "INACTIVE"
    <3>1. t.value = "RUNNING"
      BY <1>2, <2>2 DEF Task
    <3> QED BY <1>3, <1>4, <1>7, <2>2, <3>1 DEF Ahead
  <2> QED BY <1>7, <2>1, <2>2 DEF ChangedInv
<1>8. ASSUME fault = Silences("RUNNING")
      PROVE  FirstOnly(notices', "RUNNING") /\ (Coming("RUNNING")' => Coming("RUNNING"))
  <2>1. CASE notices' = notices
    BY <1>8, <1>2, <2>1 DEF ChangedInv, Coming
  <2>2. CASE notices' = Append(notices, t.value) /\ t.value # "RUNNING"
    <3>1. notices \in Seq(Notes)
      BY DEF TypeInv
    <3> HIDE DEF Notes
    <3>2. PICK m \in Nat : m = Len(notices) /\ m + 1 = Len(notices')
                             /\ notices' \in Seq(Notes) /\ notices'[m + 1] = t.value
                             /\ \A i \in 1 .. m : notices'[i] = notices[i]
      BY <1>4, <2>2, <3>1, Appended
    <3>3. DOMAIN notices = 1 .. m /\ DOMAIN notices' = 1 .. m + 1
      BY <3>1, <3>2
    <3>4. FirstOnly(notices, "RUNNING")
      BY <1>8 DEF ChangedInv
    <3>5. FirstOnly(notices', "RUNNING")
      BY <2>2, <3>2, <3>3, <3>4 DEF FirstOnly
    <3> QED BY <1>4, <2>2, <3>5
  <2> QED BY <1>3, <1>8, <2>1, <2>2
<1>9. (\A n : Observed(n)' <=> Observed(n)) /\ (\A n : Seen(n)' <=> Seen(n))
  BY <1>2, Unheard
<1> QED BY <1>2, <1>5, <1>6, <1>7, <1>8, <1>9 DEF ChangedInv

\* as the client's thread takes them,
LEMMA ChangedNotify ==
  ASSUME TypeInv, ChangedInv, case = Changing, Notify
  PROVE  ChangedInv'
<1>1. /\ UNCHANGED <<case, fault, pc, failed, tasks, app>>
      /\ \A n : Ahead(n)' <=> Ahead(n)
      /\ \A n : Seen(n) => Seen(n)'
      /\ \A n : Observed(n)' => Observed(n) \/ Coming(n)
      /\ notices # << >> /\ notices' = Tail(notices)
  BY NotifyDoes DEF Seen
<1>2. ASSUME fault = Silences("RUNNING")
      PROVE  FirstOnly(notices', "RUNNING") /\ ~Coming("RUNNING")'
  <2>1. notices \in Seq(Notes)
    BY DEF TypeInv
  <2> HIDE DEF Notes
  <2>2. /\ \A i \in DOMAIN notices' : i + 1 \in DOMAIN notices /\ notices'[i] = notices[i + 1]
        /\ DOMAIN notices' \subseteq Nat \ {0}
    BY <1>1, <2>1, Removed
  <2>3. \A i \in DOMAIN notices' : notices'[i] # "RUNNING"
    BY <1>2, <2>2 DEF ChangedInv, FirstOnly
  <2> QED BY <2>3 DEF FirstOnly, Coming, Has
<1>3. ASSUME fault = Silences("RUNNING"), pc \in {8, 9}, ~failed
      PROVE  ~Observed("RUNNING")'
  BY <1>1, <1>3 DEF ChangedInv
<1> QED BY <1>1, <1>2, <1>3 DEF ChangedInv

\* as the case asks for them.
LEMMA ChangedStep ==
  ASSUME TypeInv, QuietInv, ChangingInv, ChangedInv, case = Changing, TestCase
  PROVE  ChangedInv'
<1> USE FaultsDiffer
<1>1. /\ ~Finished /\ pc \in Nat /\ pc >= 1 /\ pc <= 10
  BY ByKind, AtStep, StepsChanging DEF TypeInv
<1>2. /\ case' = case /\ fault' = fault /\ heard' = heard /\ app' = app
      /\ \A n : Seen(n)' <=> Seen(n)
      /\ mark' = mark => \A n : Observed(n)' <=> Observed(n)
      /\ Now # SetMark => mark' = mark
      /\ Now.do # "call" => notices' = notices
  BY Frames, Unheard DEF Seen
<1>3. notices' = notices => (\A n : Coming(n)' <=> Coming(n)) /\
        (FirstOnly(notices, "RUNNING") <=> FirstOnly(notices', "RUNNING"))
  BY DEF Coming
<1>4. CASE pc = 1
  <2>1. Called /\ Now.what = "createControl"
    BY <1>4, StepsChanging, ByKind DEF Setup, Step
  <2>2. UNCHANGED notices /\ pc' \in Nat /\ pc' > 1
        /\ (pc' = 2 \/ (failed' /\ fault = Refuses(Now.what)))
    BY <1>1, <1>4, <2>1 DEF Called, Outcome, TypeInv
  <2> QED BY <1>2, <1>3, <2>2 DEF ChangedInv
<1>5. CASE pc = 2
  <2>1. Called /\ Now.must = "hold" /\ Now.what = "registerClient"
    BY <1>5, StepsChanging, ByKind DEF Call, Step
  <2>2. pc' = 3 /\ (notices' = notices \/ notices' = Append(notices, app))
    BY <1>5, <2>1 DEF Called, Outcome
  <2>3. notices = << >> /\ heard = << >> /\ app = "RUNNING" /\ ~Seen("INACTIVE")
    BY <1>5 DEF ChangingInv
  <2>4. notices' = << >> \/ notices' = <<"RUNNING">>
    BY <2>2, <2>3
  <2>5. FirstOnly(notices', "RUNNING")
    BY <2>4 DEF FirstOnly
  <2> QED BY <1>2, <2>2, <2>3, <2>5 DEF ChangedInv
<1>6. CASE pc = 3 \/ pc = 4
  <2>1. UNCHANGED notices /\ pc' = pc + 1
    <3>1. CASE pc = 3
      <4>1. Asked
        BY <3>1, StepsChanging, ByKind DEF Get, Step
      <4> QED BY <1>1, <4>1, Frames DEF Asked
    <3>2. CASE pc = 4
      <4>1. Called /\ Now.what = "mark" /\ Now.must = "ignored"
        BY <3>2, StepsChanging, ByKind DEF SetMark, Plain, Step
      <4> QED BY <4>1, EnqueuedIs DEF Called, Outcome
    <3> QED BY <1>6, <3>1, <3>2
  <2>2. pc' = 4 \/ pc' = 5
    BY <1>6, <2>1
  <2> QED BY <1>2, <1>3, <2>1, <2>2 DEF ChangedInv
<1>7. CASE pc = 5
  <2>1. SetOnSim /\ Now.value = "INACTIVE" /\ Now.must = "hold"
    BY <1>7, StepsChanging, ByKind DEF SetState, Step
  <2>2. UNCHANGED notices /\ pc' = 6
        /\ (fault = Conforming => tasks' = Append(tasks, Task("app", "INACTIVE")))
    BY <1>7, <2>1 DEF SetOnSim, Outcome
  <2>3. Task("app", "INACTIVE") \in Tasks
    BY TaskTypes DEF States
  <2>4. fault = Conforming => tasks' # << >>
    BY <2>2, <2>3, TaskAdded
  <2> QED BY <1>2, <1>3, <2>2, <2>4 DEF ChangedInv
<1>8. CASE pc = 6
  <2>1. Awaited /\ Now.what = "INACTIVE" /\ Now.must = "hold" /\ Now # SetMark
    BY <1>8, StepsChanging, ByKind DEF Await, SetMark, Plain, Step
  <2>2. UNCHANGED <<tasks, notices>> /\ pc' = 7 /\ (~failed' => Observed("INACTIVE"))
        /\ (Observed("INACTIVE") \/ Settled \/ fault = Slow)
    BY <1>8, <2>1 DEF Awaited, Still, Outcome
  <2>3. Observed("INACTIVE") => Seen("INACTIVE")
    BY SeenIfObserved
  <2>4. fault = Conforming => app = "INACTIVE"
    BY <1>8, <2>2, <2>3 DEF Settled, ChangingInv, ChangedInv
  <2>5. ~failed' => Seen("INACTIVE")
    BY <2>2, <2>3
  <2> QED BY <1>2, <1>3, <2>1, <2>2, <2>4, <2>5 DEF ChangedInv
<1>9. CASE pc = 7
  <2>1. Called /\ Now.what = "mark" /\ Now.must = "ignored" /\ Now = SetMark
    BY <1>9, StepsChanging, ByKind DEF SetMark, Plain, Step
  <2>2. UNCHANGED <<tasks, notices>> /\ pc' = 8 /\ mark' = Len(heard) /\ (failed => failed')
    BY <1>9, <2>1, EnqueuedIs DEF Called, Outcome
  <2>3. ~Observed("RUNNING")'
    BY <1>2, <2>2, Marked
  <2> QED BY <1>2, <1>3, <1>9, <2>2, <2>3 DEF ChangedInv
<1>10. CASE pc = 8
  <2>1. SetOnSim /\ Now.value = "RUNNING" /\ Now.must = "hold"
    BY <1>10, StepsChanging, ByKind DEF SetState, Step
  <2>2. /\ UNCHANGED <<notices, mark>> /\ pc' = 9 /\ (failed => failed')
        /\ fault = Conforming => tasks' = Append(tasks, Task("app", "RUNNING"))
    BY <1>10, <2>1 DEF SetOnSim, Outcome
  <2>3. Task("app", "RUNNING") \in Tasks
    BY TaskTypes DEF States
  <2>4. fault = Conforming => tasks' = <<Task("app", "RUNNING")>> /\ app = "INACTIVE"
    BY <1>10, <2>2, <2>3, TaskAdded DEF ChangingInv, ChangedInv
  <2> QED BY <1>2, <1>3, <1>10, <2>2, <2>4 DEF ChangedInv
<1>11. CASE pc = 9
  <2>1. Awaited /\ Now.must = "hold"
    BY <1>11, StepsChanging, ByKind DEF Await, Step
  <2>2. UNCHANGED <<tasks, notices>> /\ pc' = 10 /\ (failed => failed')
    BY <1>11, <2>1 DEF Awaited, Still, Outcome
  <2> QED BY <1>2, <1>3, <1>11, <2>2 DEF ChangedInv
<1>12. CASE pc = 10
  <2>1. AskedAgain
    BY <1>12, StepsChanging, ByKind DEF RestoreActive, Step
  <2>2. UNCHANGED notices /\ pc' \in {10, 11} /\ (failed => failed')
    BY <1>12, <2>1 DEF AskedAgain, Outcome
  <2> QED BY <1>2, <1>3, <1>12, <2>2 DEF ChangedInv
<1> QED BY <1>1, <1>4, <1>5, <1>6, <1>7, <1>8, <1>9, <1>10, <1>11, <1>12

\* The case and the fault are chosen once.
LEMMA CaseKept ==
  ASSUME TypeInv, Next
  PROVE  case' = case /\ fault' = fault
BY WorkDoes, NotifyDoes, Frames DEF Next, Applied

\* By any of them.
LEMMA ChangedKept ==
  ASSUME TypeInv, QuietInv, ChangingInv, ChangedInv, Next
  PROVE  ChangedInv'
<1>1. CASE case = Changing
  BY <1>1, ChangedWork, ChangedNotify, ChangedStep DEF Next
<1>2. CASE case # Changing
  BY <1>2, CaseKept DEF ChangedInv
<1> QED BY <1>1, <1>2

-----------------------------------------------------------------------------
(***************************************************************************)
(* The player, the volume, the owners of the client and the sources.       *)
(***************************************************************************)

\* What a step of the test thread asks the server to do.
LEMMA Enqueues ==
  ASSUME TypeInv, TestCase, Now.do \in {"call", "write"}, fault # Refuses(Now.what),
         Now.what \in DOMAIN Enqueued
  PROVE  /\ \A t : Due(t)' <=> Due(t) \/ t = Enqueued[Now.what]
         /\ tasks = << >> => tasks' = <<Enqueued[Now.what]>>
<1>1. Kinds(case, pc, Now) /\ Called
  BY ByKind, AtStep
<1>2. tasks' = Append(tasks, Enqueued[Now.what])
  BY <1>1 DEF Called
<1>3. Now.what = "property" => Now.value \in Volumes
  BY <1>1 DEF Kinds
<1>4. Enqueued[Now.what] \in Tasks
  BY <1>3, EnqueuedIs, TaskTypes DEF Moves
<1> QED BY <1>2, <1>4, TaskAdded DEF Due

\* The task of a move is done by the notice of it.
LEMMA PlayerWork ==
  ASSUME TypeInv, Work, fault = Conforming, NEW n \in Moves,
         Due(Task("player", n)) \/ Ahead(n)
  PROVE  Due(Task("player", n))' \/ Ahead(n)'
<1>1. PICK t \in Tasks : Applied(t)
  BY WorkDoes
<1>2. CASE Ahead(n)
  BY <1>1, <1>2, Unheard DEF Applied, Ahead, Coming
<1>3. CASE Due(Task("player", n)) /\ t # Task("player", n)
  BY <1>1, <1>3 DEF Applied, Due
<1>4. CASE t = Task("player", n)
  <2>1. t.do = "player" /\ t.value = n /\ n \in Notes
    BY <1>4 DEF Task, Notes
  <2>2. notices' = Append(notices, n)
    BY <1>1, <2>1, FaultsDiffer DEF Applied
  <2> QED BY <2>1, <2>2, NoteAdded DEF Ahead, Coming
<1> QED BY <1>2, <1>3, <1>4

\* The moves of the player.
LEMMA PlayerKept ==
  ASSUME TypeInv, PlayerInv, Next
  PROVE  PlayerInv'
<1> SUFFICES ASSUME case = Playing, fault = Conforming PROVE PlayerInv'
  BY CaseKept DEF PlayerInv
<1>1. ASSUME Work PROVE PlayerInv'
  <2>1. case' = case /\ fault' = fault /\ pc' = pc
    BY <1>1, WorkDoes DEF Applied
  <2> QED BY <1>1, <2>1, PlayerWork DEF PlayerInv, Moves
<1>2. ASSUME Notify PROVE PlayerInv'
  <2>1. /\ case' = case /\ fault' = fault /\ pc' = pc
        /\ \A n : Ahead(n)' <=> Ahead(n)
        /\ \A t : Due(t)' <=> Due(t)
    BY <1>2, NotifyDoes DEF Due
  <2> QED BY <2>1 DEF PlayerInv
<1>3. ASSUME TestCase PROVE PlayerInv'
  <2> USE <1>3, FaultsDiffer
  <2>1. pc \in Nat /\ pc >= 1 /\ pc <= 8 /\ case' = case /\ fault' = fault
    BY ByKind, AtStep, StepsPlaying, Frames DEF TypeInv
  <2>2. pc' = pc + 1
    <3>1. Now.do # "restore"
      BY ByKind, AtStep DEF Kinds, Playing, Changing
    <3> QED BY <3>1, Advances
  <2>3. CASE pc = 2
    <3>1. Now.do = "call" /\ Now.what = "play"
      BY <2>3, StepsPlaying DEF Call, Step
    <3> QED BY <2>1, <2>2, <2>3, <3>1, Enqueues, EnqueuedIs DEF PlayerInv
  <2>4. CASE pc = 4
    <3>1. Now.do = "call" /\ Now.what = "pause"
      BY <2>4, StepsPlaying DEF Call, Step
    <3> QED BY <2>1, <2>2, <2>4, <3>1, Enqueues, EnqueuedIs DEF PlayerInv
  <2>5. CASE pc = 7
    <3>1. Now.do = "call" /\ Now.what = "setEos"
      BY <2>5, StepsPlaying DEF Call, Step
    <3> QED BY <2>1, <2>2, <2>5, <3>1, Enqueues, EnqueuedIs DEF PlayerInv
  <2>6. CASE pc \notin {2, 4, 7}
    BY <2>1, <2>2, <2>6 DEF PlayerInv
  <2> QED BY <2>3, <2>4, <2>5, <2>6
<1> QED BY <1>1, <1>2, <1>3 DEF Next

\* A library that ignores the volume leaves it alone.
LEMMA VolumeStays ==
  ASSUME TypeInv, fault = Ignores("volume"), volume = "1.0", Next
  PROVE  volume' = "1.0"
<1>1. ASSUME Work PROVE volume' = volume
  <2>1. PICK t \in Tasks : Applied(t)
    BY <1>1, WorkDoes
  <2>2. t.do \in {"app", "player", "volume", "log"}
    BY SMT DEF Tasks
  <2> QED BY <2>1, <2>2 DEF Applied
<1> QED BY <1>1, NotifyDoes, Frames DEF Next

\* The volume on a library that conforms.
VolumeOk == \/ tasks = << >> /\ volume = Wanted
            \/ pc \in {3, 5, 7} /\ tasks = <<Task("volume", Wanted)>> /\ volume # Wanted

\* The volume is applied,
LEMMA VolumeWork ==
  ASSUME TypeInv, fault = Conforming, VolumeOk, Work
  PROVE  VolumeOk'
<1>1. PICK t \in Tasks : Applied(t)
  BY WorkDoes
<1>2. /\ tasks' = Tail(tasks) /\ tasks # << >> /\ t = tasks[1] /\ pc' = pc
  BY <1>1 DEF Applied
<1>3. tasks = <<Task("volume", Wanted)>>
  BY <1>2 DEF VolumeOk
<1>4. t.do = "volume" /\ t.value = Wanted
  BY <1>2, <1>3 DEF Task
<1>5. volume' = Wanted /\ Wanted' = Wanted
  BY <1>1, <1>2, <1>4, FaultsDiffer DEF Applied, Wanted
<1>6. tasks' = << >>
  <2>1. \A x : Tail(<<x>>) = << >>
    OBVIOUS
  <2> QED BY <1>2, <1>3, <2>1, Zenon
<1> QED BY <1>5, <1>6 DEF VolumeOk

\* written and polled for.
LEMMA VolumeStep ==
  ASSUME TypeInv, case = VolumeTrips, fault = Conforming, VolumeOk, TestCase
  PROVE  VolumeOk'
<1> USE FaultsDiffer
<1>1. pc \in Nat /\ pc >= 1 /\ pc <= 7 /\ volume' = volume
  BY ByKind, AtStep, StepsVolumeTrips, Frames DEF TypeInv
<1>2. pc' = pc + 1
  <2>1. Now.do # "restore"
    BY ByKind, AtStep DEF Kinds, VolumeTrips, Changing
  <2> QED BY <2>1, Advances
<1>3. CASE pc = 1
  <2>1. Called /\ Now.what = "makePlayer"
    BY <1>3, StepsVolumeTrips, ByKind DEF Setup, Step
  <2>2. tasks' = tasks
    BY <2>1, EnqueuedIs DEF Called
  <2> QED BY <1>1, <1>2, <1>3, <2>2 DEF VolumeOk, Wanted
<1>4. CASE pc \in {2, 4, 6}
  <2>1. Now.do = "write" /\ Now.what = "property"
        /\ Now.value = (IF pc = 2 THEN "0.0" ELSE IF pc = 4 THEN "0.5" ELSE "1.0")
    BY <1>4, StepsVolumeTrips DEF Write, Step
  <2>2. tasks = << >> /\ volume = Wanted
    BY <1>4 DEF VolumeOk
  <2>3. tasks' = <<Task("volume", Now.value)>>
    BY <2>1, <2>2, Enqueues, EnqueuedIs
  <2>4. Wanted' = Now.value /\ volume # Wanted'
    BY <1>2, <1>4, <2>1, <2>2 DEF Wanted
  <2> QED BY <1>1, <1>2, <1>4, <2>3, <2>4 DEF VolumeOk
<1>5. CASE pc \in {3, 5, 7}
  <2>1. Polled /\ Now.value = Wanted
    BY <1>5, StepsVolumeTrips, ByKind DEF Poll, Step, Wanted
  <2>2. tasks' = tasks /\ (volume = Now.value \/ tasks = << >>)
    BY <2>1 DEF Polled, Still, Settled
  <2>3. tasks = << >> /\ volume = Wanted
    BY <2>1, <2>2 DEF VolumeOk
  <2>4. Wanted' = Wanted
    BY <1>2, <1>5 DEF Wanted
  <2> QED BY <1>1, <2>2, <2>3, <2>4 DEF VolumeOk
<1> QED BY <1>1, <1>3, <1>4, <1>5

\* The volume.
LEMMA VolumeKept ==
  ASSUME TypeInv, VolumeInv, Next
  PROVE  VolumeInv'
<1>1. case' = case /\ fault' = fault
  BY CaseKept
<1>2. fault = Ignores("volume") => volume' = "1.0"
  BY VolumeStays DEF VolumeInv
<1>3. ASSUME case = VolumeTrips, fault = Conforming
      PROVE  VolumeOk'
  <2>1. VolumeOk
    BY <1>3 DEF VolumeInv, VolumeOk
  <2>2. ASSUME Notify PROVE VolumeOk'
    BY <2>1, <2>2, NotifyDoes DEF VolumeOk, Wanted
  <2> QED BY <1>3, <2>1, <2>2, VolumeWork, VolumeStep DEF Next
<1> QED BY <1>1, <1>2, <1>3 DEF VolumeInv, VolumeOk

\* Who holds the client.
LEMMA OwnersKept ==
  ASSUME TypeInv, OwnersInv, Next
  PROVE  OwnersInv'
<1> SUFFICES ASSUME case = Releasing PROVE OwnersInv'
  BY CaseKept DEF OwnersInv
<1>1. ASSUME Work \/ Notify PROVE OwnersInv'
  <2>1. UNCHANGED <<case, fault, pc, failed, owners>>
    BY <1>1, WorkDoes, NotifyDoes DEF Applied
  <2> QED BY <2>1 DEF OwnersInv
<1>2. ASSUME TestCase PROVE OwnersInv'
  <2> USE <1>2, FaultsDiffer
  <2>1. pc \in Nat /\ pc >= 1 /\ pc <= 6 /\ case' = case /\ fault' = fault
    BY ByKind, AtStep, StepsReleasing, Frames DEF TypeInv
  <2>2. /\ pc' = pc + 1 \/ (failed' /\ fault = Refuses(Now.what))
        /\ failed => failed'
    <3>1. Now.do # "restore"
      BY ByKind, AtStep DEF Kinds, Releasing, Changing
    <3> QED BY <3>1, Advances
  <2>3. owners \subseteq {"case", "control"}
    BY DEF TypeInv
  <2>4. CASE pc = 1
    <3>1. Called /\ Now.what = "createControl"
      BY <2>4, StepsReleasing, ByKind DEF Setup, Step
    <3>2. owners' = owners
      BY <3>1 DEF Called
    <3> QED BY <2>1, <2>2, <2>4, <3>2 DEF OwnersInv
  <2>5. CASE pc = 2
    <3>1. Called /\ Now.what = "registerClient"
      BY <2>5, StepsReleasing, ByKind DEF Call, Step
    <3>2. fault # Refuses(Now.what) =>
            owners' = IF fault = Ignores("hold") THEN {"case"} ELSE {"case", "control"}
      BY <3>1 DEF Called
    <3> QED BY <2>1, <2>2, <2>5, <3>2 DEF OwnersInv
  <2>6. CASE pc = 3
    <3>1. Called /\ Now.what = "dropClient"
      BY <2>6, StepsReleasing, ByKind DEF Plain, Step
    <3>2. fault # Refuses(Now.what) => owners' = owners \ {"case"}
      BY <3>1 DEF Called
    <3>3. /\ owners = {"case", "control"} => owners \ {"case"} = {"control"}
          /\ owners \subseteq {"case"} => owners \ {"case"} = {}
          /\ "control" \in owners => "control" \in owners \ {"case"}
      OBVIOUS
    <3> QED BY <2>1, <2>2, <2>6, <3>2, <3>3 DEF OwnersInv
  <2>7. CASE pc = 4
    <3>1. Asked /\ Now.what = "expired" /\ Now.value = FALSE /\ Now.must = "hold"
      BY <2>7, StepsReleasing, ByKind DEF Get, Step
    <3>2. owners' = owners
      BY <3>1 DEF Asked
    <3>3. fault = Ignores("hold") => failed'
      <4>1. Answer("expired") <=> owners = {}
        BY DEF Answer
      <4> QED BY <2>7, <3>1, <4>1 DEF Asked, Outcome, OwnersInv
    <3> QED BY <2>1, <2>2, <2>7, <3>1, <3>2, <3>3 DEF OwnersInv
  <2>8. CASE pc = 5
    <3>1. Called /\ Now.what = "destroyControl"
      BY <2>8, StepsReleasing, ByKind DEF Plain, Step
    <3>2. fault # Refuses(Now.what) =>
            owners' = IF fault = Ignores("release") THEN owners ELSE owners \ {"control"}
      BY <3>1 DEF Called
    <3> QED BY <2>1, <2>2, <2>3, <2>8, <3>2 DEF OwnersInv
  <2>9. CASE pc = 6
    <3>1. Asked /\ Now.what = "expired" /\ Now.value = TRUE /\ Now.must = "hold"
      BY <2>9, StepsReleasing, ByKind DEF Get, Step
    <3>2. owners' = owners
      BY <3>1 DEF Asked
    <3>3. fault = Ignores("release") => failed'
      <4>1. Answer("expired") <=> owners = {}
        BY DEF Answer
      <4> QED BY <2>9, <3>1, <4>1 DEF Asked, Outcome, OwnersInv
    <3> QED BY <2>1, <2>2, <2>9, <3>1, <3>2, <3>3 DEF OwnersInv
  <2> QED BY <2>1, <2>4, <2>5, <2>6, <2>7, <2>8, <2>9
<1> QED BY <1>1, <1>2 DEF Next

\* What a conforming server or library answers, and is asked.
LEMMA AnswerIs ==
  /\ Answer("appState") <=> app = "RUNNING" /\ fault # Ignores("appState")
  /\ Answer("expired") <=> owners = {}
  /\ Answer("allSourcesAttached") <=> (~sources.all \/ fault = Ignores("repeat"))
  /\ \A what : what \notin {"appState", "expired", "allSourcesAttached"} => (Answer(what) <=> TRUE)
  /\ Answer("expired") \in BOOLEAN /\ Answer("allSourcesAttached") \in BOOLEAN
  /\ Answer("appState") \in BOOLEAN
<1>1. Answer("appState") <=> app = "RUNNING" /\ fault # Ignores("appState")
  BY DEF Answer
<1>2. Answer("expired") <=> owners = {}
  BY DEF Answer
<1>3. Answer("allSourcesAttached") <=> (~sources.all \/ fault = Ignores("repeat"))
  BY DEF Answer
<1>4. \A what : what \notin {"appState", "expired",
      "allSourcesAttached"} => (Answer(what) <=> TRUE)
  BY DEF Answer
<1>5. /\ Answer("expired") \in BOOLEAN /\ Answer("allSourcesAttached") \in BOOLEAN
      /\ Answer("appState") \in BOOLEAN
  BY DEF Answer
<1> QED BY <1>1, <1>2, <1>3, <1>4, <1>5

\* Whether all sources are attached.
LEMMA SourcesKept ==
  ASSUME TypeInv, SourcesInv, Next
  PROVE  SourcesInv'
<1>1. ASSUME Work \/ Notify PROVE SourcesInv'
  <2>1. UNCHANGED <<case, fault, pc, failed, sources>>
    BY <1>1, WorkDoes, NotifyDoes DEF Applied
  <2> QED BY <2>1 DEF SourcesInv
<1>2. ASSUME TestCase, case \in {Attaching, Composing} PROVE SourcesInv'
  <2> USE <1>2, FaultsDiffer
  <2>1. /\ pc \in Nat /\ pc >= 1 /\ case' = case /\ fault' = fault
        /\ ~Finished /\ Kinds(case, pc, Now)
    BY ByKind, AtStep, Frames DEF TypeInv
  <2>2. /\ pc' = pc + 1 \/ (failed' /\ fault = Refuses(Now.what))
        /\ failed => failed'
    <3>1. Now.do # "restore"
      BY <2>1 DEF Kinds, Attaching, Composing, Changing
    <3> QED BY <3>1, Advances
  <2>3. CASE Now.do # "get" \/ Now.what # "allSourcesAttached"
    <3>1. sources'.all <=> sources.all
      BY <2>3, Frames, ByKind DEF Asked
    <3>2. case = Attaching => pc \in {1, 2}
      BY <2>1, <2>3, StepsAttaching DEF Get, Step
    <3>3. case = Composing => pc \in 1 .. 6
      BY <2>1, <2>3, StepsComposing DEF Get, Step
    <3> QED BY <2>1, <2>2, <3>1, <3>2, <3>3 DEF SourcesInv, Attaching, Composing
  <2>4. CASE Now.do = "get" /\ Now.what = "allSourcesAttached"
    <3>1. Asked /\ sources'.all
      BY <2>4, ByKind DEF Asked
    <3>2. case = Attaching => pc = 3 \/ (pc = 4 /\ Now.value = FALSE /\ Now.must = "hold")
      BY <2>1, <2>4, StepsAttaching DEF Get, Call, Setup, Step
    <3>3. case = Composing => pc = 7 \/ (pc = 8 /\ Now.value = FALSE /\ Now.must = "hold")
      BY <2>1, <2>4, StepsComposing DEF Get, Call, Setup, Step
    <3>4. fault = Ignores("repeat") /\ Now.value = FALSE /\ Now.must = "hold" => failed'
      <4>1. fault = Ignores("repeat") => Answer("allSourcesAttached")
        BY DEF Answer
      <4> QED BY <2>4, <3>1, <4>1 DEF Asked, Outcome
    <3>5. fault = Misanswers("allSourcesAttached") /\ ~sources.all /\ Now.must = "hold"
            /\ Now.value = TRUE => failed'
      <4>1. fault = Misanswers("allSourcesAttached") /\ ~sources.all =>
              Answer("allSourcesAttached")
        BY AnswerIs
      <4> QED BY <2>4, <3>1, <4>1 DEF Asked, Outcome
    <3>6. (pc = 3 /\ case = Attaching) \/ (pc = 7 /\ case = Composing) =>
            Now.must = "hold" /\ Now.value = TRUE
      BY StepsAttaching, StepsComposing DEF Get, Step
    <3> QED BY <2>1, <2>2, <3>1, <3>2, <3>3, <3>4, <3>5, <3>6
            DEF SourcesInv, Attaching, Composing
  <2> QED BY <2>3, <2>4
<1>3. CASE case \notin {Attaching, Composing}
  BY <1>3, CaseKept DEF SourcesInv
<1> QED BY <1>1, <1>2, <1>3 DEF Next

-----------------------------------------------------------------------------
(***************************************************************************)
(* The log handlers.                                                       *)
(***************************************************************************)

\* A record is handed to the handler registered, if any.
LEMMA LogWork ==
  ASSUME TypeInv, Work, fault # Silences("log"), handler # "none",
         Logged \/ Ahead(handler)
  PROVE  Logged' \/ Ahead(handler)'
<1>1. PICK t \in Tasks : Applied(t)
  BY WorkDoes
<1>2. CASE Ahead(handler)
  BY <1>1, <1>2, Unheard DEF Applied, Ahead, Coming, Observed, Since
<1>3. CASE Logged /\ t # Task("log", "record")
  BY <1>1, <1>3 DEF Applied, Logged, Due
<1>4. CASE t = Task("log", "record")
  <2>1. t.do = "log"
    BY <1>4 DEF Task
  <2>2. Has(notices', handler) /\ handler' = handler
    BY <1>1, <2>1 DEF Applied
  <2> QED BY <2>2 DEF Ahead, Coming
<1> QED BY <1>2, <1>3, <1>4

\* Nothing else is handed to a handler.
LEMMA WorkHands ==
  ASSUME TypeInv, Work, NEW n \in {"first", "second"}, Coming(n)'
  PROVE  Coming(n) \/ n = handler
<1>1. PICK t \in Tasks : Applied(t)
  BY WorkDoes
<1>2. /\ t.do \in {"app", "player", "volume", "log"}
      /\ t.do = "app" => t.value \in States
      /\ t.do = "player" => t.value \in Moves
  BY SMT DEF Tasks
<1>3. CASE t.do \in {"app", "player"}
  <2>1. t.value \in Notes /\ t.value # n
    BY <1>2, <1>3 DEF Notes, States, Moves
  <2>2. notices' = notices \/ notices' = Append(notices, t.value)
    BY <1>1, <1>3 DEF Applied
  <2> QED BY <2>1, <2>2, NoteAdded DEF Coming
<1>4. CASE t.do = "volume"
  BY <1>1, <1>4 DEF Applied, Coming
<1>5. CASE t.do = "log"
  BY <1>1, <1>5 DEF Applied, Coming
<1> QED BY <1>2, <1>3, <1>4, <1>5

\* The handler and its records: the threads other than the case's,
LEMMA LogQuiet ==
  ASSUME TypeInv, LogInv, Work \/ Notify
  PROVE  LogInv'
<1> USE FaultsDiffer
<1>1. UNCHANGED <<case, fault, pc, failed, handler, mark>> /\ pc \in Nat
  BY WorkDoes, NotifyDoes DEF Applied, TypeInv
<1>2. \A n \in {"first", "second"} : Coming(n)' => Coming(n) \/ n = handler
  BY WorkHands, NotifyDoes DEF Coming
<1>3. \A n : Observed(n)' => Observed(n) \/ Coming(n)
  BY WorkDoes, Unheard, NotifyDoes DEF Applied
<1>4. \A n : Seen(n)' => Seen(n) \/ Coming(n)
  BY WorkDoes, Unheard, NotifyDoes DEF Applied, Seen
<1>5. \A n : Observed(n) => Observed(n)'
  BY WorkDoes, Unheard, NotifyDoes DEF Applied
<1>6. ASSUME fault # Silences("log"), handler # "none", Logged \/ Ahead(handler)
      PROVE  Logged' \/ Ahead(handler)'
  <2>1. ASSUME Notify
        PROVE  Logged' \/ Ahead(handler)'
    BY <1>6, <2>1, NotifyDoes DEF Logged, Due, Ahead, Coming, Observed, Since
  <2> QED BY <1>6, <2>1, LogWork
<1>7. \A h : Logged' \/ Ahead(h)' <=> Logged' \/ Coming(h)' \/ Observed(h)'
  BY DEF Ahead
<1>8. \A h : fault # Silences("log") /\ handler = h /\ h # "none" /\ (Logged \/ Ahead(h)) =>
        Logged' \/ Ahead(h)'
  BY <1>1, <1>6 DEF Ahead, Coming, Observed
<1>9. ASSUME fault = Conforming PROVE LogInv'
  BY <1>1, <1>2, <1>3, <1>8, <1>9 DEF LogInv, Receiving, Replacing, Cancelling
<1>10. ASSUME fault = Ignores("replace") PROVE LogInv'
  BY <1>1, <1>2, <1>4, <1>10 DEF LogInv
<1>11. ASSUME fault = Ignores("cancel") PROVE LogInv'
  BY <1>1, <1>5, <1>8, <1>11 DEF LogInv
<1> QED BY <1>1, <1>9, <1>10, <1>11 DEF LogInv

\* the case with one handler,
LEMMA LogReceiving ==
  ASSUME TypeInv, LogInv, TestCase, case = Receiving
  PROVE  LogInv'
<1> USE FaultsDiffer
<1>1. /\ pc \in Nat /\ pc >= 1 /\ pc <= 6 /\ case' = case /\ fault' = fault
      /\ Kinds(case, pc, Now)
  BY ByKind, AtStep, StepsReceiving, Frames DEF TypeInv
<1>2. Receiving # Replacing /\ Receiving # Cancelling
  BY DEF Receiving, Replacing, Cancelling
<1> SUFFICES ASSUME fault = Conforming
             PROVE  /\ pc' \in {3, 4} => handler' = "first"
                    /\ pc' = 4 => Logged' \/ Ahead("first")'
  BY <1>1, <1>2 DEF LogInv
<1>3. pc' = pc + 1
  <2>1. Now.do # "restore"
    BY <1>1 DEF Kinds, Receiving, Changing
  <2> QED BY <2>1, Advances
<1>4. CASE pc = 2
  <2>1. Registered /\ Now.value = "first"
    BY <1>4, StepsReceiving, ByKind DEF Register, Step
  <2> QED BY <1>3, <1>4, <2>1 DEF Registered
<1>5. CASE pc = 3
  <2>1. Now.do = "call" /\ Now.what = "triggerClientLogActivity"
    BY <1>5, StepsReceiving DEF Trigger, Plain, Step
  <2>2. Logged' /\ handler' = handler
    BY <2>1, Enqueues, EnqueuedIs, Frames DEF Logged
  <2> QED BY <1>3, <1>5, <2>2 DEF LogInv
<1> QED BY <1>1, <1>3, <1>4, <1>5

\* the case with two,
LEMMA LogReplacing ==
  ASSUME TypeInv, LogInv, TestCase, case = Replacing
  PROVE  LogInv'
<1> USE FaultsDiffer
<1>1. /\ pc \in Nat /\ pc >= 1 /\ pc <= 7 /\ case' = case /\ fault' = fault
      /\ Kinds(case, pc, Now) /\ heard' = heard
      /\ Now.do # "register" => handler' = handler
      /\ \A n : Seen(n)' <=> Seen(n)
  BY ByKind, AtStep, StepsReplacing, Frames DEF TypeInv, Seen
<1>2. Replacing # Receiving /\ Replacing # Cancelling
  BY DEF Receiving, Replacing, Cancelling
<1>3. /\ pc' = pc + 1 \/ (failed' /\ fault = Refuses(Now.what))
      /\ failed => failed'
  <2>1. Now.do # "restore"
    BY <1>1 DEF Kinds, Replacing, Changing
  <2> QED BY <2>1, Advances
<1>4. ASSUME fault = Conforming
      PROVE  /\ pc' \in {5, 6} => handler' = "second"
             /\ pc' = 6 => Logged' \/ Ahead("second")'
  <2>1. CASE pc = 4
    <3>1. Registered /\ Now.value = "second"
      BY <2>1, StepsReplacing, ByKind DEF Register, Step
    <3> QED BY <1>3, <1>4, <2>1, <3>1 DEF Registered
  <2>2. CASE pc = 5
    <3>1. Now.do = "call" /\ Now.what = "triggerClientLogActivity"
      BY <2>2, StepsReplacing DEF Trigger, Plain, Step
    <3>2. Logged'
      BY <1>4, <3>1, Enqueues, EnqueuedIs DEF Logged
    <3> QED BY <1>1, <1>3, <1>4, <2>2, <3>1, <3>2 DEF LogInv
  <2> QED BY <1>1, <1>3, <1>4, <2>1, <2>2
<1>5. ASSUME fault = Ignores("replace")
      PROVE  /\ pc' \in {3, 4} => handler' = "first"
             /\ handler' # "second" /\ ~Coming("second")' /\ ~Seen("second")'
  <2>1. handler # "second" /\ ~Coming("second") /\ ~Seen("second")
        /\ handler \in {"none", "first", "second"}
    BY <1>5 DEF LogInv, TypeInv
  <2>2. notices' = notices
    <3>1. CASE Now.do = "call"
      <4>1. Now.what # "registerClient" /\ Now.what # "makePlayer"
        BY <1>1, <3>1, StepsReplacing
           DEF Setup, Register, Trigger, Plain, Await, Step
      <4> QED BY <3>1, <4>1, ByKind DEF Called
    <3> QED BY <3>1, Frames
  <2>3. CASE Now.do # "register"
    <3>1. pc = 1 \/ pc = 3 \/ pc = 5 \/ pc = 6
      BY <1>1, <2>3, StepsReplacing DEF Register, Step
    <3> QED BY <1>1, <1>3, <1>5, <2>1, <2>2, <2>3, <3>1 DEF LogInv, Coming
  <2>4. CASE Now.do = "register"
    <3>1. Registered
      BY <2>4, ByKind
    <3>2. \/ pc = 2 /\ Now.value = "first"
          \/ pc = 4 /\ Now.value = "second"
          \/ pc = 7 /\ Now.value = "none"
      BY <1>1, <2>4, StepsReplacing DEF Register, Setup, Trigger, Plain, Await, Step
    <3>3. pc = 4 => handler = "first"
      BY <1>5 DEF LogInv
    <3>4. handler' = IF handler # "none" /\ Now.value # "none" THEN handler ELSE Now.value
      BY <1>5, <3>1 DEF Registered
    <3> QED BY <1>1, <1>3, <1>5, <2>1, <2>2, <3>2, <3>3, <3>4 DEF Coming
  <2> QED BY <2>3, <2>4
<1> QED BY <1>1, <1>2, <1>4, <1>5 DEF LogInv

\* the case that cancels.
LEMMA LogCancelling ==
  ASSUME TypeInv, LogInv, TestCase, case = Cancelling
  PROVE  LogInv'
<1> USE FaultsDiffer
<1>1. /\ pc \in Nat /\ pc >= 1 /\ pc <= 11 /\ case' = case /\ fault' = fault
      /\ Kinds(case, pc, Now) /\ heard' = heard
      /\ Now.do # "register" => handler' = handler
      /\ Now # SetMark => mark' = mark
      /\ mark' = mark => \A n : Observed(n)' <=> Observed(n)
  BY ByKind, AtStep, StepsCancelling, Frames, Unheard DEF TypeInv
<1>2. Cancelling # Receiving /\ Replacing # Cancelling
  BY DEF Receiving, Replacing, Cancelling
<1>3. /\ pc' = pc + 1 \/ (failed' /\ fault = Refuses(Now.what))
      /\ failed => failed'
  <2>1. Now.do # "restore"
    BY <1>1 DEF Kinds, Cancelling, Changing
  <2> QED BY <2>1, Advances
<1>4. notices' = notices /\ \A n : Coming(n)' <=> Coming(n)
  <2>1. CASE Now.do = "call"
    <3>1. Now.what # "registerClient" /\ Now.what # "makePlayer"
      BY <1>1, <2>1, StepsCancelling
         DEF Setup, Register, Trigger, Plain, Await, Glance, Check, Sleep, SetMark, Step
    <3> QED BY <2>1, <3>1, ByKind DEF Called, Coming
  <2> QED BY <2>1, Frames DEF Coming
<1>5. ASSUME pc \in {3, 8}, fault \in {Conforming, Ignores("cancel")}
      PROVE  Logged'
  <2>1. Now.do = "call" /\ Now.what = "triggerClientLogActivity"
    BY <1>5, StepsCancelling DEF Trigger, Plain, Step
  <2> QED BY <1>5, <2>1, Enqueues, EnqueuedIs DEF Logged
<1>6. Now.do = "register" => pc \in {2, 5, 11}
  BY <1>1, StepsCancelling
     DEF Setup, Register, Trigger, Plain, Await, Glance, Check, Sleep, SetMark, Step
<1>7. /\ pc = 2 => Registered /\ Now.value = "first"
      /\ pc \in {5, 11} => Registered /\ Now.value = "none"
  BY StepsCancelling, ByKind DEF Register, Step
<1>8. ASSUME fault = Conforming
      PROVE  /\ pc' = pc + 1
             /\ pc' \in {3, 4} => handler' = "first"
             /\ pc' = 4 => Logged' \/ Ahead("first")'
             /\ pc' > 5 => handler' = "none"
             /\ pc' > 6 => ~Coming("first")'
             /\ pc' > 7 => ~Observed("first")'
  <2>1. pc' = pc + 1
    BY <1>3, <1>8
  <2>2. pc' \in {3, 4} => handler' = "first"
    BY <1>1, <1>6, <1>7, <1>8, <2>1 DEF Registered, LogInv
  <2>3. pc' > 5 => handler' = "none"
    BY <1>1, <1>6, <1>7, <1>8, <2>1 DEF Registered, LogInv
  <2>4. pc' > 6 => ~Coming("first")'
    <3>1. pc = 6 => ~Coming("first")
      <4>1. pc = 6 => Slept
        BY StepsCancelling, ByKind DEF Sleep, Step
      <4> QED BY <4>1, ObservedAtLast DEF Slept
    <3> QED BY <1>1, <1>4, <1>8, <2>1, <3>1 DEF LogInv
  <2>5. pc' > 7 => ~Observed("first")'
    <3>1. CASE pc = 7
      <4>1. Called /\ Now = SetMark
        BY <3>1, StepsCancelling, ByKind DEF SetMark, Plain, Step
      <4> QED BY <1>1, <4>1, Marked DEF Called
    <3>2. CASE pc > 7
      <4>1. Now # SetMark
        BY <1>1, <3>2, StepsCancelling
           DEF Register, Trigger, Plain, Glance, Check, SetMark, Step
      <4> QED BY <1>1, <1>8, <2>1, <3>2, <4>1 DEF LogInv
    <3> QED BY <1>1, <2>1, <3>1, <3>2
  <2> QED BY <1>1, <1>5, <1>8, <2>1, <2>2, <2>3, <2>4, <2>5
<1>9. ASSUME fault = Ignores("cancel")
      PROVE  /\ pc' = pc + 1
             /\ pc' \in 3 .. 10 => handler' = "first"
             /\ pc' = 9 => Logged' \/ Ahead("first")'
             /\ pc' = 10 => Observed("first")'
             /\ pc' > 10 => failed'
  <2>1. pc' = pc + 1
    BY <1>3, <1>9
  <2>2. pc' \in 3 .. 10 => handler' = "first"
    BY <1>1, <1>6, <1>7, <1>9, <2>1 DEF Registered, LogInv
  <2>3. pc = 9 => Observed("first")'
    <3>1. pc = 9 => Awaited /\ Now.what = "first" /\ Now # SetMark
      BY StepsCancelling, ByKind DEF Glance, SetMark, Plain, Step
    <3>2. pc = 9 => Logged \/ Ahead("first")
      BY <1>9 DEF LogInv
    <3>3. pc = 9 => Observed("first")
      BY <1>9, <3>1, <3>2, ObservedAtLast DEF Awaited, Logged
    <3> QED BY <1>1, <3>1, <3>3
  <2>4. pc = 10 => failed'
    <3>1. pc = 10 => Checked /\ Now.what = "unchanged" /\ Now.must = "hold"
      BY StepsCancelling, ByKind DEF Check, Step
    <3>2. pc = 10 => Observed("first")
      BY <1>9 DEF LogInv
    <3>3. Observed("first") => ~Holds("unchanged")
      <4>1. mark \in Nat /\ DOMAIN heard = 1 .. Len(heard) /\ Len(heard) \in Nat
        BY DEF TypeInv
      <4>2. Holds("unchanged") <=> \A i \in DOMAIN heard : heard[i] = "first" => i <= mark
        BY DEF Holds
      <4> QED BY <4>1, <4>2 DEF Observed, Since
    <3> QED BY <3>1, <3>2, <3>3 DEF Checked, Outcome
  <2>5. pc > 10 => failed'
    BY <1>3, <1>9 DEF LogInv
  <2> QED BY <1>1, <1>5, <1>9, <2>1, <2>2, <2>3, <2>4, <2>5
<1> QED BY <1>1, <1>2, <1>8, <1>9 DEF LogInv

\* By any of them, in any case.
LEMMA LogKept ==
  ASSUME TypeInv, LogInv, Next
  PROVE  LogInv'
<1>1. CASE case \notin {Receiving, Replacing, Cancelling}
  BY <1>1, CaseKept DEF LogInv
<1> QED BY <1>1, LogQuiet, LogReceiving, LogReplacing, LogCancelling DEF Next

-----------------------------------------------------------------------------
(***************************************************************************)
(* A server that conforms passes, and what is passed rules faults out.     *)
(***************************************************************************)

\* A case that asks for the state asks while it is RUNNING.
LEMMA AppIsRunning ==
  ASSUME TypeInv, QuietInv, ChangingInv, ~Finished, Now.do = "get", Now.what = "appState"
  PROVE  app = "RUNNING"
BY AtStep DEF Kinds, QuietInv, ChangingInv

\* A server that conforms gives each question the answer the case expects.
LEMMA AnsweredAsExpected ==
  ASSUME TypeInv, QuietInv, ChangingInv, OwnersInv, SourcesInv, fault = Conforming, ~Finished,
         Now.do = "get"
  PROVE  Answer(Now.what) = Now.value
<1>1. Kinds(case, pc, Now) /\ pc \in Nat
  BY AtStep DEF TypeInv
<1>2. CASE Now.what = "appState"
  <2>1. Now.value = TRUE
    BY <1>1, <1>2 DEF Kinds
  <2> QED BY <1>2, <2>1, AppIsRunning, AnswerIs, FaultsDiffer
<1>3. CASE Now.what = "expired"
  <2>1. case = Releasing
    BY <1>1, <1>3 DEF Kinds
  <2>2. (pc = 4 /\ Now.value = FALSE) \/ (pc = 6 /\ Now.value = TRUE)
    <3>1. pc \in 1 .. 6
      BY <2>1, AtStep, StepsReleasing
    <3> QED BY <1>3, <2>1, <3>1, StepsReleasing DEF Get, Setup, Call, Plain, Step
  <2>3. CASE pc = 4 /\ Now.value = FALSE
    <3>1. Answer("expired") = FALSE
      BY <2>1, <2>3, AnswerIs DEF OwnersInv
    <3> QED BY <1>3, <2>3, <3>1
  <2>4. CASE pc = 6 /\ Now.value = TRUE
    <3>1. Answer("expired") <=> TRUE
      BY <2>1, <2>4, AnswerIs DEF OwnersInv
    <3> QED BY <1>3, <2>4, <3>1, AnswerIs
  <2> QED BY <2>2, <2>3, <2>4
<1>4. CASE Now.what = "allSourcesAttached"
  <2>1. case \in {Attaching, Composing}
    BY <1>1, <1>4 DEF Kinds
  <2>2. CASE case = Attaching
    <3>1. (pc = 3 /\ Now.value = TRUE) \/ (pc = 4 /\ Now.value = FALSE)
      <4>1. pc \in 1 .. 4
        BY <2>2, AtStep, StepsAttaching
      <4> QED BY <1>4, <2>2, <4>1, StepsAttaching DEF Get, Setup, Call, Step
    <3>2. sources.all <=> pc > 3
      BY <2>2 DEF SourcesInv
    <3>3. CASE pc = 3 /\ Now.value = TRUE
      <4>1. Answer("allSourcesAttached") = TRUE
        BY <3>2, <3>3, AnswerIs, FaultsDiffer
      <4> QED BY <1>4, <3>3, <4>1
    <3>4. CASE pc = 4 /\ Now.value = FALSE
      <4>1. Answer("allSourcesAttached") = FALSE
        BY <3>2, <3>4, AnswerIs, FaultsDiffer
      <4> QED BY <1>4, <3>4, <4>1
    <3> QED BY <3>1, <3>3, <3>4
  <2>3. CASE case = Composing
    <3>1. (pc = 7 /\ Now.value = TRUE) \/ (pc = 8 /\ Now.value = FALSE)
      <4>1. pc \in 1 .. 8
        BY <2>3, AtStep, StepsComposing
      <4> QED BY <1>4, <2>3, <4>1, StepsComposing DEF Get, Setup, Call, Step
    <3>2. sources.all <=> pc > 7
      BY <2>3 DEF SourcesInv
    <3>3. CASE pc = 7 /\ Now.value = TRUE
      <4>1. Answer("allSourcesAttached") = TRUE
        BY <3>2, <3>3, AnswerIs, FaultsDiffer
      <4> QED BY <1>4, <3>3, <4>1
    <3>4. CASE pc = 8 /\ Now.value = FALSE
      <4>1. Answer("allSourcesAttached") = FALSE
        BY <3>2, <3>4, AnswerIs, FaultsDiffer
      <4> QED BY <1>4, <3>4, <4>1
    <3> QED BY <3>1, <3>3, <3>4
  <2> QED BY <2>1, <2>2, <2>3
<1>5. CASE Now.what \notin {"appState", "expired", "allSourcesAttached"}
  <2>1. Now.value = TRUE
    BY <1>1, <1>5 DEF Kinds
  <2>2. Answer(Now.what) <=> TRUE
    BY <1>5, AnswerIs
  <2> QED BY <1>5, <2>1, <2>2, AnswerIs
<1> QED BY <1>2, <1>3, <1>4, <1>5

\* What a case waits for is on its way, or still to be done, on a server that conforms.
LEMMA WaitedFor ==
  ASSUME TypeInv, ChangingInv, ChangedInv, PlayerInv, LogInv, fault = Conforming, ~Finished,
         Now.do = "await", Now.must = "hold"
  PROVE  tasks # << >> \/ Ahead(Now.what)
<1>1. Kinds(case, pc, Now) /\ pc \in Nat /\ pc >= 1
  BY AtStep DEF TypeInv
<1>2. case \in {Changing, Playing, Receiving, Replacing, Cancelling}
  BY <1>1 DEF Kinds
<1>3. \A t : Due(t) => tasks # << >>
  BY DEF Due, Has
<1>4. CASE case = Changing
  <2>1. (pc = 6 /\ Now.what = "INACTIVE") \/ (pc = 9 /\ Now.what = "RUNNING")
    <3>1. pc \in 1 .. 10
      BY <1>4, AtStep, StepsChanging
    <3> QED BY <1>4, <3>1, StepsChanging
            DEF Await, Get, Setup, Call, Plain, SetMark, SetState, RestoreActive, Step
  <2> QED BY <1>4, <2>1 DEF ChangedInv
<1>5. CASE case = Playing
  <2>1. \/ pc = 3 /\ Now.what = "PLAYING"
        \/ pc = 5 /\ Now.what = "PAUSED"
        \/ pc = 8 /\ Now.what = "END_OF_STREAM"
    <3>1. pc \in 1 .. 8
      BY <1>5, AtStep, StepsPlaying
    <3> QED BY <1>5, <3>1, StepsPlaying DEF Await, Setup, Call, Step
  <2> QED BY <1>3, <1>5, <2>1 DEF PlayerInv
<1>6. CASE case = Receiving
  <2>1. pc = 4 /\ Now.what = "first"
    <3>1. pc \in 1 .. 6
      BY <1>6, AtStep, StepsReceiving
    <3> QED BY <1>6, <3>1, StepsReceiving
            DEF Await, Get, Setup, Call, Register, Trigger, Plain, Step
  <2> QED BY <1>3, <1>6, <2>1 DEF LogInv, Logged
<1>7. CASE case = Replacing
  <2>1. pc = 6 /\ Now.what = "second"
    <3>1. pc \in 1 .. 7
      BY <1>7, AtStep, StepsReplacing
    <3> QED BY <1>7, <3>1, StepsReplacing DEF Await, Setup, Register, Trigger, Plain, Step
  <2> QED BY <1>3, <1>7, <2>1 DEF LogInv, Logged
<1>8. CASE case = Cancelling
  <2>1. pc = 4 /\ Now.what = "first"
    <3>1. pc \in 1 .. 11
      BY <1>8, AtStep, StepsCancelling
    <3> QED BY <1>8, <3>1, StepsCancelling
            DEF Await, Glance, Setup, Register, Trigger, Plain, SetMark, Sleep, Check, Step
  <2> QED BY <1>3, <1>8, <2>1 DEF LogInv, Logged
<1> QED BY <1>2, <1>4, <1>5, <1>6, <1>7, <1>8

\* No assertion fails on a server that conforms.
LEMMA ConformingKept ==
  ASSUME IInv, Next
  PROVE  ConformingClientPasses'
<1> USE DEF IInv
<1>1. CASE Work \/ Notify
  <2>1. UNCHANGED <<fault, failed>>
    BY <1>1, WorkDoes, NotifyDoes DEF Applied
  <2> QED BY <2>1 DEF ConformingClientPasses
<1>2. ASSUME TestCase, fault = Conforming
      PROVE  ~failed'
  <2> USE <1>2, FaultsDiffer
  <2>1. ~failed /\ ~Finished /\ Kinds(case, pc, Now)
    BY ByKind, AtStep DEF ConformingClientPasses
  <2>2. CASE Called
    BY <2>1, <2>2 DEF Called, Outcome
  <2>3. CASE Registered
    BY <2>1, <2>3 DEF Registered, Outcome
  <2>4. CASE Asked
    <3>1. Answer(Now.what) = Now.value
      BY <2>1, <2>4, AnsweredAsExpected DEF Asked
    <3> QED BY <2>1, <2>4, <3>1 DEF Asked, Outcome
  <2>5. CASE Awaited
    <3>1. CASE Now.must = "hold"
      <4>1. Observed(Now.what)
        BY <2>1, <2>5, <3>1, WaitedFor, ObservedAtLast DEF Awaited, Settled
      <4> QED BY <2>1, <2>5, <4>1 DEF Awaited, Outcome
    <3>2. CASE Now.must # "hold"
      <4>1. Now.must = "ignored"
        BY <2>1, <2>5, <3>2 DEF Awaited, Kinds
      <4> QED BY <2>1, <2>5, <4>1 DEF Awaited, Outcome
    <3> QED BY <3>1, <3>2
  <2>6. CASE Polled
    <3>1. case = VolumeTrips
      BY <2>1, <2>6 DEF Kinds, Polled
    <3>2. pc \in {3, 5, 7} /\ Now.value = Wanted
      <4>1. pc \in 1 .. 7
        BY <2>1, <3>1, AtStep, StepsVolumeTrips
      <4> QED BY <2>6, <3>1, <4>1, StepsVolumeTrips DEF Polled, Setup, Write, Poll, Step, Wanted
    <3>3. volume = Now.value
      BY <2>6, <3>1, <3>2 DEF Polled, Settled, VolumeInv
    <3> QED BY <2>1, <2>6, <3>3 DEF Polled, Outcome
  <2>7. CASE Slept
    BY <2>1, <2>7 DEF Slept, Outcome
  <2>8. CASE Checked
    <3>1. Now.what = "noFailure" \/ (Now.what = "unchanged" /\ pc = 10 /\ case = Cancelling)
      BY <2>1, <2>8 DEF Checked, Kinds
    <3>2. heard \in Seq(Notes) /\ mark \in Nat /\ DOMAIN heard = 1 .. Len(heard)
          /\ Len(heard) \in Nat
      BY DEF TypeInv
    <3>3. Holds("noFailure")
      <4>1. ~Seen("FAILURE")
        BY DEF SilenceInv
      <4> QED BY <4>1 DEF Holds, Seen, Has
    <3>4. case = Cancelling /\ pc = 10 => Holds("unchanged")
      <4>1. case = Cancelling /\ pc = 10 => ~Observed("first")
        BY DEF LogInv
      <4>2. Holds("unchanged") <=> \A i \in DOMAIN heard : heard[i] = "first" => i <= mark
        BY DEF Holds
      <4> QED BY <3>2, <4>1, <4>2 DEF Observed, Since
    <3>5. Holds(Now.what)
      BY <3>1, <3>3, <3>4
    <3> QED BY <2>1, <2>8, <3>5 DEF Checked, Outcome
  <2>9. CASE SetOnSim
    BY <2>1, <2>9 DEF SetOnSim, Outcome
  <2>10. CASE AskedAgain
    BY <2>1, <2>10 DEF AskedAgain, Outcome
  <2> QED BY <2>2, <2>3, <2>4, <2>5, <2>6, <2>7, <2>8, <2>9, <2>10, ByKind
<1> QED BY <1>1, <1>2, CaseKept DEF Next, ConformingClientPasses

\* What is asserted of a step the case goes past rules its faults out.
LEMMA RuledOut ==
  ASSUME IInv, TestCase, ~failed', Now.must \in {"hold", "abort"}
  PROVE  RulesOut(Now)
<1> USE DEF IInv
<1> USE FaultsDiffer
<1>1. ~Finished /\ Kinds(case, pc, Now)
  BY ByKind, AtStep
<1>2. CASE Called
  BY <1>1, <1>2 DEF Called, Outcome, RulesOut, Poll, Await, Step
<1>3. CASE Registered
  BY <1>1, <1>3 DEF Registered, Outcome, RulesOut, Poll, Await, Step
<1>4. CASE Asked
  <2>1. Now.what \notin {"expired", "allSourcesAttached"} => fault # Misanswers(Now.what)
    <3> SUFFICES ASSUME Now.what \notin {"expired", "allSourcesAttached"},
                        fault = Misanswers(Now.what)
                 PROVE  FALSE
      OBVIOUS
    <3>1. Now.value = TRUE
      BY <1>1, <1>4 DEF Asked, Kinds
    <3>2. Answer(Now.what)
      BY <1>1, <1>4, AppIsRunning, AnswerIs DEF Asked
    <3> QED BY <1>4, <3>1, <3>2 DEF Asked, Outcome
  <2>2. Now.what = "appState" => fault # Ignores("appState")
    <3> SUFFICES ASSUME Now.what = "appState", fault = Ignores("appState") PROVE FALSE
      OBVIOUS
    <3>1. Now.value = TRUE
      BY <1>1, <1>4 DEF Asked, Kinds
    <3>2. Answer(Now.what) = FALSE
      BY AnswerIs
    <3> QED BY <1>4, <3>1, <3>2 DEF Asked, Outcome
  <2> QED BY <1>4, <2>1, <2>2 DEF Asked, RulesOut, Poll, Await, Step
<1>5. CASE Awaited
  <2>1. Observed(Now.what) /\ ~failed /\ Now.do = "await"
    BY <1>5 DEF Awaited, Outcome
  <2>2. Seen(Now.what)
    BY <2>1, SeenIfObserved
  <2>3. Now.what \in Moves \cup {"INACTIVE", "RUNNING", "first", "second"}
    BY <1>1, <2>1 DEF Kinds
  <2>4. Now.what \in Moves \cup {"INACTIVE"} => fault # Silences(Now.what)
    BY <2>2 DEF SilenceInv
  <2>5. Now.what \in {"first", "second"} => fault # Silences("log")
    BY <2>2 DEF SilenceInv
  <2>6. Now.what = "RUNNING" => fault # Silences("RUNNING")
    BY <1>1, <2>1 DEF Kinds, ChangedInv
  <2>7. Now.what = "second" => fault # Ignores("replace")
    BY <1>1, <2>1, <2>2 DEF Kinds, LogInv
  <2>8. Now = Await("second") => Now.what = "second"
    BY DEF Await, Step
  <2>9. Now # Poll("0.0")
    BY <2>1 DEF Poll, Step
  <2> QED BY <2>1, <2>3, <2>4, <2>5, <2>6, <2>7, <2>8, <2>9 DEF RulesOut
<1>6. CASE Polled
  <2>1. volume = Now.value /\ Now.do = "poll"
    BY <1>6 DEF Polled, Outcome
  <2>2. Now = Poll("0.0") => fault # Ignores("volume")
    BY <2>1 DEF Poll, Step, VolumeInv
  <2>3. Now # Await("second")
    BY <2>1 DEF Await, Step
  <2> QED BY <2>1, <2>2, <2>3 DEF RulesOut
<1>7. CASE Slept \/ Checked \/ SetOnSim \/ AskedAgain
  <2>1. Now.do \in {"sleep", "check", "sim", "restore"}
    BY <1>7 DEF Slept, Checked, SetOnSim, AskedAgain
  <2> QED BY <2>1 DEF RulesOut, Poll, Await, Step
<1> QED BY <1>2, <1>3, <1>4, <1>5, <1>6, <1>7, ByKind

\* What the case has gone past stays ruled out.
LEMMA PassedKept ==
  ASSUME IInv, Next
  PROVE  PassedInv'
<1> USE DEF IInv
<1>1. case' = case /\ fault' = fault /\ Script' = Script
  BY CaseKept DEF Script
<1>2. \A st : RulesOut(st)' <=> RulesOut(st)
  BY <1>1 DEF RulesOut
<1>3. CASE Work \/ Notify
  <2>1. UNCHANGED <<pc, failed>>
    BY <1>3, WorkDoes, NotifyDoes DEF Applied
  <2> QED BY <1>1, <1>2, <2>1 DEF PassedInv
<1>4. ASSUME TestCase, ~failed', NEW k \in 1 .. pc' - 1, Script[k].must \in {"hold", "abort"}
      PROVE  RulesOut(Script[k])
  <2>1. pc \in Nat /\ pc >= 1
    BY DEF TypeInv
  <2>2. ~failed /\ (pc' = pc \/ pc' = pc + 1)
    BY <1>4, ByKind DEF Called, Registered, Asked, Awaited, Polled, Slept, Checked, SetOnSim,
                        AskedAgain, Outcome
  <2>3. CASE k = pc
    BY <1>4, <2>3, RuledOut DEF Now
  <2>4. CASE k # pc
    <3>1. k \in 1 .. pc - 1
      BY <2>1, <2>2, <2>4
    <3> QED BY <1>4, <2>2, <3>1 DEF PassedInv
  <2> QED BY <2>3, <2>4
<1>5. ASSUME TestCase PROVE PassedInv'
  BY <1>1, <1>2, <1>4, <1>5 DEF PassedInv
<1> QED BY <1>3, <1>5 DEF Next

\* The two cases that look for a failure do so last.
LEMMA LooksLast ==
  ASSUME TypeInv, ~Finished, pc' = pc + 1, Script' = Script, Finished',
         case \in {"CreateReturnsInstance", "HighPriorityPlayerAppearsToFunction"}
  PROVE  Now = Check("noFailure")
<1>1. pc \in Nat /\ pc >= 1
  BY DEF TypeInv
<1>over. ~(pc > Len(Script)) /\ pc + 1 > Len(Script)
  <2>1. Finished' <=> pc' > Len(Script')
    BY DEF Finished, Over
  <2> QED BY <2>1, Zenon DEF Finished, Over
<1>2. CASE case = "CreateReturnsInstance"
  <2>1. PICK n \in Nat : n = 2 /\ n = Len(Script) /\ Script[2] = Check("noFailure")
    BY <1>2, ScriptCreateReturnsInstance DEF Script
  <2>2. pc = 2
    <3>1. ~(pc > n) /\ pc + 1 > n
      BY <1>over, <2>1, Zenon
    <3> QED BY <1>1, <2>1, <3>1
  <2> QED BY <2>1, <2>2 DEF Now
<1>3. CASE case = "HighPriorityPlayerAppearsToFunction"
  <2>1. PICK n \in Nat : n = 3 /\ n = Len(Script) /\ Script[3] = Check("noFailure")
    BY <1>3, ScriptHighPriorityPlayerAppearsToFunction DEF Script
  <2>2. pc = 3
    <3>1. ~(pc > n) /\ pc + 1 > n
      BY <1>over, <2>1, Zenon
    <3> QED BY <1>1, <2>1, <3>1
  <2> QED BY <2>1, <2>2 DEF Now
<1> QED BY <1>2, <1>3

\* Only the notice of a failure shows that the server breaks.
LEMMA ShowsByNotice ==
  ASSUME TypeInv, TestCase \/ Work, fault = Breaks("makePlayer")
  PROVE  shown' => shown
<1> USE FaultsDiffer
<1>0. fault.kind # "ignores"
  BY DEF Breaks, Fault
<1>1. CASE Work
  <2>1. \A n : Sent(n) # << >>
    BY EmptySeq DEF Sent
  <2>2. \A x : fault # Silences(x) /\ fault # Ignores(x)
    OBVIOUS
  <2>3. /\ shown' = (shown \/ (Head(tasks).value # app /\ Sent(Head(tasks).value) = << >>))
        \/ shown' = (shown \/ Sent(Head(tasks).value) = << >>)
        \/ /\ shown' = (shown \/ volume' # Head(tasks).value)
           /\ volume' = IF fault = Ignores("volume") THEN volume ELSE Head(tasks).value
        \/ shown' = (shown \/ fault = Silences("log"))
    BY <1>1, Zenon DEF Work
  <2> QED BY <2>1, <2>2, <2>3, Zenon
<1>2. CASE TestCase
  <2>1. \A x : fault # Refuses(x)
    OBVIOUS
  <2>2. CASE CallStep
    <3>1. shown' = (shown \/ fault = Refuses(Now.what))
      BY <2>2, Zenon DEF CallStep
    <3> QED BY <2>1, <3>1, Zenon
  <2>3. CASE RegisterStep
    BY <2>3 DEF RegisterStep
  <2>4. CASE GetStep
    <3>1. LET answered == IF fault = Misanswers(Now.what) THEN ~Answer(Now.what)
                                                          ELSE Answer(Now.what)
          IN  shown' = (shown \/ fault.kind = "ignores" \/ answered # Answer(Now.what))
      BY <2>4, Zenon DEF GetStep
    <3>2. fault # Misanswers(Now.what)
      OBVIOUS
    <3> QED BY <1>0, <3>1, <3>2, Zenon
  <2>5. CASE AwaitStep \/ PollStep \/ SleepStep \/ CheckStep
    BY <2>5 DEF AwaitStep, PollStep, SleepStep, CheckStep, Assert
  <2>6. CASE SetStateStep \/ RestoreStep
    BY <2>6 DEF SetStateStep, RestoreStep, Assert, scriptVars
  <2> QED BY <1>2, <2>2, <2>3, <2>4, <2>5, <2>6, Zenon DEF TestCase
<1> QED BY <1>1, <1>2

\* A failure heard before the case looks for one fails it.
LEMMA FailureKept ==
  ASSUME IInv, Next
  PROVE  FailureInv'
<1> USE DEF IInv
<1>1. case' = case /\ fault' = fault /\ Script' = Script
  BY CaseKept DEF Script
<1> SUFFICES ASSUME fault = Breaks("makePlayer"), shown', ~failed'
             PROVE  /\ Seen("FAILURE")'
                    /\ case \in {"CreateReturnsInstance", "HighPriorityPlayerAppearsToFunction"}
                         => ~Finished'
  BY <1>1 DEF FailureInv
<1>2. CASE Work
  <2>1. UNCHANGED <<pc, failed, heard>>
    BY <1>2, WorkDoes DEF Applied
  <2>2. shown
    BY <1>2, ShowsByNotice
  <2> QED BY <1>1, <2>1, <2>2 DEF FailureInv, Seen, Finished, Over
<1>3. CASE Notify
  <2>1. UNCHANGED <<pc, failed>> /\ (Finished' <=> Finished)
    BY <1>1, <1>3, NotifyDoes DEF Finished, Over
  <2>2. Head(notices) = notices[1]
    BY <1>3, NotifyDoes, Removed DEF TypeInv
  <2>3. shown \/ (notices[1] = "FAILURE" /\ ~Finished)
    BY <1>3, <2>2 DEF Notify
  <2>4. CASE shown
    <3>1. Seen("FAILURE") => Has(heard', "FAILURE")
      BY <1>3, NotifyDoes
    <3> QED BY <2>1, <2>4, <3>1 DEF FailureInv, Seen
  <2>5. CASE notices[1] = "FAILURE" /\ ~Finished
    <3>1. Has(heard', "FAILURE")
      BY <1>3, <2>5, NotifyDoes
    <3> QED BY <2>1, <2>5, <3>1 DEF Seen
  <2> QED BY <2>3, <2>4, <2>5
<1>4. CASE TestCase
  <2>1. ~Finished /\ heard' = heard /\ shown
    BY <1>4, ByKind, Frames, ShowsByNotice
  <2>2. ~failed /\ pc' \in {pc, pc + 1}
    BY <1>4, ByKind DEF Called, Registered, Asked, Awaited, Polled, Slept, Checked, SetOnSim,
                        AskedAgain, Outcome
  <2>3. Seen("FAILURE")
    BY <2>1, <2>2 DEF FailureInv
  <2>4. ASSUME case \in {"CreateReturnsInstance", "HighPriorityPlayerAppearsToFunction"},
               Finished'
        PROVE  FALSE
    <3>1. pc' = pc + 1
      BY <1>1, <2>1, <2>2, <2>4 DEF Finished, Over
    <3>2. Now = Check("noFailure")
      BY <1>1, <2>1, <2>4, <3>1, LooksLast
    <3>3. Now.do = "check" /\ Now.what = "noFailure" /\ Now.must = "hold"
      BY <3>2 DEF Check, Step
    <3>4. Holds("noFailure")
      BY <1>4, <3>3, ByKind DEF Checked, Outcome
    <3> QED BY <2>3, <3>4 DEF Holds, Seen, Has
  <2> QED BY <2>1, <2>3, <2>4 DEF Seen
<1> QED BY <1>2, <1>3, <1>4 DEF Next

-----------------------------------------------------------------------------
(***************************************************************************)
(* A fault that is to be caught fails the case.  The theorems.             *)
(***************************************************************************)

\* A step the case went past, with its result asserted.
Met(st) == st.must \in {"hold", "abort"} => RulesOut(st)

\* What each kind of step, once it is met, rules out.
LEMMA MetSetup == \A x : Met(Setup(x)) => fault # Refuses(x)
BY DEF Met, RulesOut, Setup, Step

\* A call was not refused.
LEMMA MetCall == \A x : Met(Call(x)) => fault # Refuses(x)
BY DEF Met, RulesOut, Call, Step

\* Nor was a write.
LEMMA MetWrite == \A v : Met(Write(v)) => fault # Refuses("property")
BY DEF Met, RulesOut, Write, Step

\* Nor was a handler.
LEMMA MetRegister == \A h : Met(Register(h)) => fault # Refuses("handler")
BY DEF Met, RulesOut, Register, Step

\* A question was answered.
LEMMA MetGet ==
  \A x : x \notin {"expired", "allSourcesAttached"} /\ Met(Get(x, TRUE)) => fault # Misanswers(x)
BY DEF Met, RulesOut, Get, Step

\* The state was written.
LEMMA MetState == Met(Get("appState", TRUE)) => fault # Ignores("appState")
BY DEF Met, RulesOut, Get, Step

\* A notice was observed.
LEMMA MetAwait ==
  \A x : Met(Await(x)) => fault # Silences(IF x \in {"first", "second"} THEN "log" ELSE x)
BY DEF Met, RulesOut, Await, Step

\* It was the second handler that received it.
LEMMA MetSecond == Met(Await("second")) => fault # Ignores("replace")
<1>1. Await("second").must = "hold"
  BY DEF Await, Step
<1> QED BY <1>1 DEF Met, RulesOut

\* The volume was changed.
LEMMA MetPoll == Met(Poll("0.0")) => fault # Ignores("volume")
<1>1. Poll("0.0").must = "hold"
  BY DEF Poll, Step
<1> QED BY <1>1 DEF Met, RulesOut

\* The faults RegisterClientReturnsTrueAndWritesState is there to catch.
LEMMA CatchesRegisterClientReturnsTrueAndWritesState ==
  Suite["RegisterClientReturnsTrueAndWritesState"].catches
    = {Refuses("createControl"), Refuses("registerClient")}
        \cup {Misanswers("definedState")}
<1>1. Suite["RegisterClientReturnsTrueAndWritesState"] = RegisterClientReturnsTrueAndWritesState
  BY Zenon DEF Suite
<1>2. \A script, catches : Case(script, catches).catches = catches
  BY DEF Case
<1> QED BY <1>1, <1>2, Zenon DEF RegisterClientReturnsTrueAndWritesState, NotRegistered

\* The faults RegisteredClientLearnsRunningState is there to catch.
LEMMA CatchesRegisteredClientLearnsRunningState ==
  Suite["RegisteredClientLearnsRunningState"].catches
    = {Refuses("createControl"), Refuses("registerClient")}
        \cup {Misanswers("appState"), Ignores("appState")}
<1>1. Suite["RegisteredClientLearnsRunningState"] = RegisteredClientLearnsRunningState
  BY Zenon DEF Suite
<1>2. \A script, catches : Case(script, catches).catches = catches
  BY DEF Case
<1> QED BY <1>1, <1>2, Zenon DEF RegisteredClientLearnsRunningState, NotRegistered

\* The faults RegisteredClientIsNotifiedOfStateTransition is there to catch.
LEMMA CatchesRegisteredClientIsNotifiedOfStateTransition ==
  Suite["RegisteredClientIsNotifiedOfStateTransition"].catches
    = {Refuses("createControl"), Refuses("registerClient")}
        \cup {Misanswers("appState"), Ignores("appState"), Silences("INACTIVE"),
              Silences("RUNNING")}
<1>1. Suite["RegisteredClientIsNotifiedOfStateTransition"]
       = RegisteredClientIsNotifiedOfStateTransition
  BY Zenon DEF Suite
<1>2. \A script, catches : Case(script, catches).catches = catches
  BY DEF Case
<1> QED BY <1>1, <1>2, Zenon DEF RegisteredClientIsNotifiedOfStateTransition, NotRegistered

\* The faults ClientReleasedOnControlDestruction is there to catch.
LEMMA CatchesClientReleasedOnControlDestruction ==
  Suite["ClientReleasedOnControlDestruction"].catches
    = {Refuses("createControl"), Refuses("registerClient")}
        \cup {Ignores("hold"), Ignores("release")}
<1>1. Suite["ClientReleasedOnControlDestruction"] = ClientReleasedOnControlDestruction
  BY Zenon DEF Suite
<1>2. \A script, catches : Case(script, catches).catches = catches
  BY DEF Case
<1> QED BY <1>1, <1>2, Zenon DEF ClientReleasedOnControlDestruction, NotRegistered

\* The faults CreateReturnsInstance is there to catch.
LEMMA CatchesCreateReturnsInstance ==
  Suite["CreateReturnsInstance"].catches
    = {Breaks("makePlayer")} \cup {Refuses("makePlayer")}
<1>1. Suite["CreateReturnsInstance"] = CreateReturnsInstance
  BY Zenon DEF Suite
<1>2. \A script, catches : Case(script, catches).catches = catches
  BY DEF Case
<1> QED BY <1>1, <1>2, Zenon DEF CreateReturnsInstance, OnPlayer

\* The faults StateMachineNotifiesTransitions is there to catch.
LEMMA CatchesStateMachineNotifiesTransitions ==
  Suite["StateMachineNotifiesTransitions"].catches
    = {Refuses("play"), Refuses("pause"), Refuses("setEos"),
        Silences("PLAYING"), Silences("PAUSED"), Silences("END_OF_STREAM")}
          \cup {Refuses("makePlayer")}
<1>1. Suite["StateMachineNotifiesTransitions"] = StateMachineNotifiesTransitions
  BY Zenon DEF Suite
<1>2. \A script, catches : Case(script, catches).catches = catches
  BY DEF Case
<1> QED BY <1>1, <1>2, Zenon DEF StateMachineNotifiesTransitions, OnPlayer

\* The faults GetBufferAvailableBoundsTheWrite is there to catch.
LEMMA CatchesGetBufferAvailableBoundsTheWrite ==
  Suite["GetBufferAvailableBoundsTheWrite"].catches
    = {Misanswers("boundsTheWrite"), Refuses("getDeviceInfo"),
        Refuses("getBufferAvailable"), Refuses("writeBuffer")} \cup {Refuses("makePlayer")}
<1>1. Suite["GetBufferAvailableBoundsTheWrite"] = GetBufferAvailableBoundsTheWrite
  BY Zenon DEF Suite
<1>2. \A script, catches : Case(script, catches).catches = catches
  BY DEF Case
<1> QED BY <1>1, <1>2, Zenon DEF GetBufferAvailableBoundsTheWrite, OnPlayer

\* The faults GetBufferDelayReportsQueuedFrames is there to catch.
LEMMA CatchesGetBufferDelayReportsQueuedFrames ==
  Suite["GetBufferDelayReportsQueuedFrames"].catches
    = {Refuses("getBufferDelay"), Misanswers("nothingQueued")} \cup {Refuses("makePlayer")}
<1>1. Suite["GetBufferDelayReportsQueuedFrames"] = GetBufferDelayReportsQueuedFrames
  BY Zenon DEF Suite
<1>2. \A script, catches : Case(script, catches).catches = catches
  BY DEF Case
<1> QED BY <1>1, <1>2, Zenon DEF GetBufferDelayReportsQueuedFrames, OnPlayer

\* The faults GetDeviceInfoReportsBufferSizing is there to catch.
LEMMA CatchesGetDeviceInfoReportsBufferSizing ==
  Suite["GetDeviceInfoReportsBufferSizing"].catches
    = {Refuses("getDeviceInfo"), Misanswers("bufferSizing")} \cup {Refuses("makePlayer")}
<1>1. Suite["GetDeviceInfoReportsBufferSizing"] = GetDeviceInfoReportsBufferSizing
  BY Zenon DEF Suite
<1>2. \A script, catches : Case(script, catches).catches = catches
  BY DEF Case
<1> QED BY <1>1, <1>2, Zenon DEF GetDeviceInfoReportsBufferSizing, OnPlayer

\* The faults VolumeRoundTrips is there to catch.
LEMMA CatchesVolumeRoundTrips ==
  Suite["VolumeRoundTrips"].catches
    = {Refuses("property"), Ignores("volume")} \cup {Refuses("makePlayer")}
<1>1. Suite["VolumeRoundTrips"] = VolumeRoundTrips
  BY Zenon DEF Suite
<1>2. \A script, catches : Case(script, catches).catches = catches
  BY DEF Case
<1> QED BY <1>1, <1>2, Zenon DEF VolumeRoundTrips, OnPlayer

\* The faults HighPriorityPlayerAppearsToFunction is there to catch.
LEMMA CatchesHighPriorityPlayerAppearsToFunction ==
  Suite["HighPriorityPlayerAppearsToFunction"].catches
    = {Refuses("getDeviceInfo"), Breaks("makePlayer")} \cup {Refuses("makePlayer")}
<1>1. Suite["HighPriorityPlayerAppearsToFunction"] = HighPriorityPlayerAppearsToFunction
  BY Zenon DEF Suite
<1>2. \A script, catches : Case(script, catches).catches = catches
  BY DEF Case
<1> QED BY <1>1, <1>2, Zenon DEF HighPriorityPlayerAppearsToFunction, OnPlayer

\* The faults GetClientReturnsSuppliedClient is there to catch.
LEMMA CatchesGetClientReturnsSuppliedClient ==
  Suite["GetClientReturnsSuppliedClient"].catches
    = {Misanswers("suppliedClient")} \cup {Refuses("makePlayer")}
<1>1. Suite["GetClientReturnsSuppliedClient"] = GetClientReturnsSuppliedClient
  BY Zenon DEF Suite
<1>2. \A script, catches : Case(script, catches).catches = catches
  BY DEF Case
<1> QED BY <1>1, <1>2, Zenon DEF GetClientReturnsSuppliedClient, OnPlayer

\* The faults FactoryReturnsSingleton is there to catch.
LEMMA CatchesFactoryReturnsSingleton ==
  Suite["FactoryReturnsSingleton"].catches
    = {Misanswers("singleton")} \cup {Refuses("clientLogControl")}
<1>1. Suite["FactoryReturnsSingleton"] = FactoryReturnsSingleton
  BY Zenon DEF Suite
<1>2. \A script, catches : Case(script, catches).catches = catches
  BY DEF Case
<1> QED BY <1>1, <1>2, Zenon DEF FactoryReturnsSingleton, OnLog, LogTearDown

\* The faults HandlerReceivesPopulatedRecords is there to catch.
LEMMA CatchesHandlerReceivesPopulatedRecords ==
  Suite["HandlerReceivesPopulatedRecords"].catches
    = {Refuses("handler"),
        Silences("log"), Misanswers("populated")} \cup {Refuses("clientLogControl")}
<1>1. Suite["HandlerReceivesPopulatedRecords"] = HandlerReceivesPopulatedRecords
  BY Zenon DEF Suite
<1>2. \A script, catches : Case(script, catches).catches = catches
  BY DEF Case
<1> QED BY <1>1, <1>2, Zenon DEF HandlerReceivesPopulatedRecords, OnLog, LogTearDown

\* The faults RegisteringNewHandlerReplacesPrevious is there to catch.
LEMMA CatchesRegisteringNewHandlerReplacesPrevious ==
  Suite["RegisteringNewHandlerReplacesPrevious"].catches
    = {Refuses("handler"),
        Silences("log"), Ignores("replace")} \cup {Refuses("clientLogControl")}
<1>1. Suite["RegisteringNewHandlerReplacesPrevious"] = RegisteringNewHandlerReplacesPrevious
  BY Zenon DEF Suite
<1>2. \A script, catches : Case(script, catches).catches = catches
  BY DEF Case
<1> QED BY <1>1, <1>2, Zenon DEF RegisteringNewHandlerReplacesPrevious, OnLog, LogTearDown

\* The faults NullHandlerCancelsDelivery is there to catch.
LEMMA CatchesNullHandlerCancelsDelivery ==
  Suite["NullHandlerCancelsDelivery"].catches
    = {Refuses("handler"),
        Silences("log"), Ignores("cancel")} \cup {Refuses("clientLogControl")}
<1>1. Suite["NullHandlerCancelsDelivery"] = NullHandlerCancelsDelivery
  BY Zenon DEF Suite
<1>2. \A script, catches : Case(script, catches).catches = catches
  BY DEF Case
<1> QED BY <1>1, <1>2, Zenon DEF NullHandlerCancelsDelivery, OnLog, LogTearDown

\* The faults LoadAttachRemoveSource is there to catch.
LEMMA CatchesLoadAttachRemoveSource ==
  Suite["LoadAttachRemoveSource"].catches
    = {Refuses("attachSource"),
        Misanswers("validId"), Refuses("removeSource")} \cup {Refuses("createAndLoad")}
<1>1. Suite["LoadAttachRemoveSource"] = LoadAttachRemoveSource
  BY Zenon DEF Suite
<1>2. \A script, catches : Case(script, catches).catches = catches
  BY DEF Case
<1> QED BY <1>1, <1>2, Zenon DEF LoadAttachRemoveSource, OnLoaded, AttachSource

\* The faults AllSourcesAttachedIsLegalOnlyOnce is there to catch.
LEMMA CatchesAllSourcesAttachedIsLegalOnlyOnce ==
  Suite["AllSourcesAttachedIsLegalOnlyOnce"].catches
    = {Refuses("attachSource"),
        Misanswers("allSourcesAttached"), Ignores("repeat")} \cup {Refuses("createAndLoad")}
<1>1. Suite["AllSourcesAttachedIsLegalOnlyOnce"] = AllSourcesAttachedIsLegalOnlyOnce
  BY Zenon DEF Suite
<1>2. \A script, catches : Case(script, catches).catches = catches
  BY DEF Case
<1> QED BY <1>1, <1>2, Zenon DEF AllSourcesAttachedIsLegalOnlyOnce, OnLoaded

\* The faults MultiSourceAttachComposition is there to catch.
LEMMA CatchesMultiSourceAttachComposition ==
  Suite["MultiSourceAttachComposition"].catches
    = {Refuses("attachSource"), Misanswers("validId"), Misanswers("distinctIds"),
        Misanswers("allSourcesAttached"), Ignores("repeat")} \cup {Refuses("createAndLoad")}
<1>1. Suite["MultiSourceAttachComposition"] = MultiSourceAttachComposition
  BY Zenon DEF Suite
<1>2. \A script, catches : Case(script, catches).catches = catches
  BY DEF Case
<1> QED BY <1>1, <1>2, Zenon DEF MultiSourceAttachComposition, OnLoaded, AttachSource

\* A case that is over and has not failed met none of the faults it is there to catch.
LEMMA CaughtAtLast ==
  ASSUME IInv, Finished, shown, fault \in Suite[case].catches
  PROVE  failed
<1> SUFFICES ASSUME ~failed PROVE FALSE
  OBVIOUS
<1> USE DEF IInv
<1>0. case \in DOMAIN Suite /\ pc \in Nat /\ Len(Script) \in Nat
  BY ScriptKinds DEF TypeInv, Script
<1>met. \A k \in 1 .. Len(Script) : Met(Script[k])
  <2>1. pc > Len(Script)
    BY DEF Finished, Over
  <2>2. \A k \in 1 .. Len(Script) : k \in 1 .. pc - 1
    BY <1>0, <2>1
  <2> QED BY <2>2 DEF PassedInv, Met
<1>1. CASE case = "RegisterClientReturnsTrueAndWritesState"
  <2>1. PICK n \in Nat :
          /\ n = 3 /\ n = Len(Script)
          /\ Script[1] = Setup("createControl")
          /\ Script[2] = Call("registerClient")
          /\ Script[3] = Get("definedState", TRUE)
    BY <1>1, ScriptRegisterClientReturnsTrueAndWritesState DEF Script
  <2>2. n = 3
    BY <2>1, Zenon
  <2>3. {1, 2, 3} \subseteq 1 .. n
    BY <2>2
  <2>4. /\ Met(Setup("createControl"))
        /\ Met(Call("registerClient"))
        /\ Met(Get("definedState", TRUE))
    BY <1>met, <2>1, <2>3, Zenon
  <2>5. /\ fault # Refuses("createControl")
        /\ fault # Refuses("registerClient")
        /\ fault # Misanswers("definedState")
    BY <2>4, MetSetup, MetCall, MetGet
  <2> QED BY <1>1, <2>5, CatchesRegisterClientReturnsTrueAndWritesState
<1>2. CASE case = "RegisteredClientLearnsRunningState"
  <2>1. PICK n \in Nat :
          /\ n = 3 /\ n = Len(Script)
          /\ Script[1] = Setup("createControl")
          /\ Script[2] = Call("registerClient")
          /\ Script[3] = Get("appState", TRUE)
    BY <1>2, ScriptRegisteredClientLearnsRunningState DEF Script
  <2>2. n = 3
    BY <2>1, Zenon
  <2>3. {1, 2, 3} \subseteq 1 .. n
    BY <2>2
  <2>4. /\ Met(Setup("createControl"))
        /\ Met(Call("registerClient"))
        /\ Met(Get("appState", TRUE))
    BY <1>met, <2>1, <2>3, Zenon
  <2>5. /\ fault # Refuses("createControl")
        /\ fault # Refuses("registerClient")
        /\ fault # Misanswers("appState")
        /\ fault # Ignores("appState")
    BY <2>4, MetSetup, MetCall, MetGet, MetState
  <2> QED BY <1>2, <2>5, CatchesRegisteredClientLearnsRunningState
<1>3. CASE case = "RegisteredClientIsNotifiedOfStateTransition"
  <2>1. PICK n \in Nat :
          /\ n = 10 /\ n = Len(Script)
          /\ Script[1] = Setup("createControl")
          /\ Script[2] = Call("registerClient")
          /\ Script[3] = Get("appState", TRUE)
          /\ Script[6] = Await("INACTIVE")
          /\ Script[9] = Await("RUNNING")
    BY <1>3, ScriptRegisteredClientIsNotifiedOfStateTransition DEF Script
  <2>2. n = 10
    BY <2>1, Zenon
  <2>3. {1, 2, 3, 6, 9} \subseteq 1 .. n
    BY <2>2
  <2>4. /\ Met(Setup("createControl"))
        /\ Met(Call("registerClient"))
        /\ Met(Get("appState", TRUE))
        /\ Met(Await("INACTIVE"))
        /\ Met(Await("RUNNING"))
    BY <1>met, <2>1, <2>3, Zenon
  <2>5. /\ fault # Refuses("createControl")
        /\ fault # Refuses("registerClient")
        /\ fault # Misanswers("appState")
        /\ fault # Ignores("appState")
        /\ fault # Silences("INACTIVE")
        /\ fault # Silences("RUNNING")
    BY <2>4, MetSetup, MetCall, MetGet, MetState, MetAwait
  <2> QED BY <1>3, <2>5, CatchesRegisteredClientIsNotifiedOfStateTransition
<1>4. CASE case = "ClientReleasedOnControlDestruction"
  <2>1. PICK n \in Nat :
          /\ n = 6 /\ n = Len(Script)
          /\ Script[1] = Setup("createControl")
          /\ Script[2] = Call("registerClient")
    BY <1>4, ScriptClientReleasedOnControlDestruction DEF Script
  <2>2. n = 6
    BY <2>1, Zenon
  <2>3. {1, 2} \subseteq 1 .. n
    BY <2>2
  <2>4. /\ Met(Setup("createControl"))
        /\ Met(Call("registerClient"))
    BY <1>met, <2>1, <2>3, Zenon
  <2>5. fault # Ignores("hold") /\ fault # Ignores("release")
    BY <1>0, <1>4, StepsReleasing DEF OwnersInv, Releasing
  <2>6. /\ fault # Refuses("createControl")
        /\ fault # Refuses("registerClient")
    BY <2>4, MetSetup, MetCall
  <2> QED BY <1>4, <2>5, <2>6, CatchesClientReleasedOnControlDestruction
<1>5. CASE case = "CreateReturnsInstance"
  <2>1. PICK n \in Nat :
          /\ n = 2 /\ n = Len(Script)
          /\ Script[1] = Setup("makePlayer")
    BY <1>5, ScriptCreateReturnsInstance DEF Script
  <2>2. n = 2
    BY <2>1, Zenon
  <2>3. {1} \subseteq 1 .. n
    BY <2>2
  <2>4. /\ Met(Setup("makePlayer"))
    BY <1>met, <2>1, <2>3, Zenon
  <2>5. /\ fault # Refuses("makePlayer")
    BY <2>4, MetSetup
  <2>6. fault # Breaks("makePlayer")
    BY <1>5 DEF FailureInv
  <2> QED BY <1>5, <2>5, <2>6, CatchesCreateReturnsInstance
<1>6. CASE case = "StateMachineNotifiesTransitions"
  <2>1. PICK n \in Nat :
          /\ n = 8 /\ n = Len(Script)
          /\ Script[1] = Setup("makePlayer")
          /\ Script[2] = Call("play")
          /\ Script[3] = Await("PLAYING")
          /\ Script[4] = Call("pause")
          /\ Script[5] = Await("PAUSED")
          /\ Script[7] = Call("setEos")
          /\ Script[8] = Await("END_OF_STREAM")
    BY <1>6, ScriptStateMachineNotifiesTransitions DEF Script
  <2>2. n = 8
    BY <2>1, Zenon
  <2>3. {1, 2, 3, 4, 5, 7, 8} \subseteq 1 .. n
    BY <2>2
  <2>4. /\ Met(Setup("makePlayer"))
        /\ Met(Call("play"))
        /\ Met(Await("PLAYING"))
        /\ Met(Call("pause"))
        /\ Met(Await("PAUSED"))
        /\ Met(Call("setEos"))
        /\ Met(Await("END_OF_STREAM"))
    BY <1>met, <2>1, <2>3, Zenon
  <2>5. /\ fault # Refuses("play")
        /\ fault # Refuses("pause")
        /\ fault # Refuses("setEos")
        /\ fault # Silences("PLAYING")
        /\ fault # Silences("PAUSED")
        /\ fault # Silences("END_OF_STREAM")
        /\ fault # Refuses("makePlayer")
    BY <2>4, MetSetup, MetCall, MetAwait
  <2> QED BY <1>6, <2>5, CatchesStateMachineNotifiesTransitions
<1>7. CASE case = "GetBufferAvailableBoundsTheWrite"
  <2>1. PICK n \in Nat :
          /\ n = 5 /\ n = Len(Script)
          /\ Script[1] = Setup("makePlayer")
          /\ Script[2] = Call("getDeviceInfo")
          /\ Script[3] = Call("getBufferAvailable")
          /\ Script[4] = Get("boundsTheWrite", TRUE)
          /\ Script[5] = Call("writeBuffer")
    BY <1>7, ScriptGetBufferAvailableBoundsTheWrite DEF Script
  <2>2. n = 5
    BY <2>1, Zenon
  <2>3. {1, 2, 3, 4, 5} \subseteq 1 .. n
    BY <2>2
  <2>4. /\ Met(Setup("makePlayer"))
        /\ Met(Call("getDeviceInfo"))
        /\ Met(Call("getBufferAvailable"))
        /\ Met(Get("boundsTheWrite", TRUE))
        /\ Met(Call("writeBuffer"))
    BY <1>met, <2>1, <2>3, Zenon
  <2>5. /\ fault # Misanswers("boundsTheWrite")
        /\ fault # Refuses("getDeviceInfo")
        /\ fault # Refuses("getBufferAvailable")
        /\ fault # Refuses("writeBuffer")
        /\ fault # Refuses("makePlayer")
    BY <2>4, MetSetup, MetCall, MetGet
  <2> QED BY <1>7, <2>5, CatchesGetBufferAvailableBoundsTheWrite
<1>8. CASE case = "GetBufferDelayReportsQueuedFrames"
  <2>1. PICK n \in Nat :
          /\ n = 3 /\ n = Len(Script)
          /\ Script[1] = Setup("makePlayer")
          /\ Script[2] = Call("getBufferDelay")
          /\ Script[3] = Get("nothingQueued", TRUE)
    BY <1>8, ScriptGetBufferDelayReportsQueuedFrames DEF Script
  <2>2. n = 3
    BY <2>1, Zenon
  <2>3. {1, 2, 3} \subseteq 1 .. n
    BY <2>2
  <2>4. /\ Met(Setup("makePlayer"))
        /\ Met(Call("getBufferDelay"))
        /\ Met(Get("nothingQueued", TRUE))
    BY <1>met, <2>1, <2>3, Zenon
  <2>5. /\ fault # Refuses("getBufferDelay")
        /\ fault # Misanswers("nothingQueued")
        /\ fault # Refuses("makePlayer")
    BY <2>4, MetSetup, MetCall, MetGet
  <2> QED BY <1>8, <2>5, CatchesGetBufferDelayReportsQueuedFrames
<1>9. CASE case = "GetDeviceInfoReportsBufferSizing"
  <2>1. PICK n \in Nat :
          /\ n = 3 /\ n = Len(Script)
          /\ Script[1] = Setup("makePlayer")
          /\ Script[2] = Call("getDeviceInfo")
          /\ Script[3] = Get("bufferSizing", TRUE)
    BY <1>9, ScriptGetDeviceInfoReportsBufferSizing DEF Script
  <2>2. n = 3
    BY <2>1, Zenon
  <2>3. {1, 2, 3} \subseteq 1 .. n
    BY <2>2
  <2>4. /\ Met(Setup("makePlayer"))
        /\ Met(Call("getDeviceInfo"))
        /\ Met(Get("bufferSizing", TRUE))
    BY <1>met, <2>1, <2>3, Zenon
  <2>5. /\ fault # Refuses("getDeviceInfo")
        /\ fault # Misanswers("bufferSizing")
        /\ fault # Refuses("makePlayer")
    BY <2>4, MetSetup, MetCall, MetGet
  <2> QED BY <1>9, <2>5, CatchesGetDeviceInfoReportsBufferSizing
<1>10. CASE case = "VolumeRoundTrips"
  <2>1. PICK n \in Nat :
          /\ n = 7 /\ n = Len(Script)
          /\ Script[1] = Setup("makePlayer")
          /\ Script[2] = Write("0.0")
          /\ Script[3] = Poll("0.0")
          /\ Script[4] = Write("0.5")
          /\ Script[6] = Write("1.0")
    BY <1>10, ScriptVolumeRoundTrips DEF Script
  <2>2. n = 7
    BY <2>1, Zenon
  <2>3. {1, 2, 3, 4, 6} \subseteq 1 .. n
    BY <2>2
  <2>4. /\ Met(Setup("makePlayer"))
        /\ Met(Write("0.0"))
        /\ Met(Poll("0.0"))
        /\ Met(Write("0.5"))
        /\ Met(Write("1.0"))
    BY <1>met, <2>1, <2>3, Zenon
  <2>5. /\ fault # Refuses("property")
        /\ fault # Ignores("volume")
        /\ fault # Refuses("makePlayer")
    BY <2>4, MetSetup, MetWrite, MetPoll
  <2> QED BY <1>10, <2>5, CatchesVolumeRoundTrips
<1>11. CASE case = "HighPriorityPlayerAppearsToFunction"
  <2>1. PICK n \in Nat :
          /\ n = 3 /\ n = Len(Script)
          /\ Script[1] = Setup("makePlayer")
          /\ Script[2] = Call("getDeviceInfo")
    BY <1>11, ScriptHighPriorityPlayerAppearsToFunction DEF Script
  <2>2. n = 3
    BY <2>1, Zenon
  <2>3. {1, 2} \subseteq 1 .. n
    BY <2>2
  <2>4. /\ Met(Setup("makePlayer"))
        /\ Met(Call("getDeviceInfo"))
    BY <1>met, <2>1, <2>3, Zenon
  <2>5. /\ fault # Refuses("getDeviceInfo")
        /\ fault # Refuses("makePlayer")
    BY <2>4, MetSetup, MetCall
  <2>6. fault # Breaks("makePlayer")
    BY <1>11 DEF FailureInv
  <2> QED BY <1>11, <2>5, <2>6, CatchesHighPriorityPlayerAppearsToFunction
<1>12. CASE case = "GetClientReturnsSuppliedClient"
  <2>1. PICK n \in Nat :
          /\ n = 2 /\ n = Len(Script)
          /\ Script[1] = Setup("makePlayer")
          /\ Script[2] = Get("suppliedClient", TRUE)
    BY <1>12, ScriptGetClientReturnsSuppliedClient DEF Script
  <2>2. n = 2
    BY <2>1, Zenon
  <2>3. {1, 2} \subseteq 1 .. n
    BY <2>2
  <2>4. /\ Met(Setup("makePlayer"))
        /\ Met(Get("suppliedClient", TRUE))
    BY <1>met, <2>1, <2>3, Zenon
  <2>5. /\ fault # Misanswers("suppliedClient")
        /\ fault # Refuses("makePlayer")
    BY <2>4, MetSetup, MetGet
  <2> QED BY <1>12, <2>5, CatchesGetClientReturnsSuppliedClient
<1>13. CASE case = "FactoryReturnsSingleton"
  <2>1. PICK n \in Nat :
          /\ n = 3 /\ n = Len(Script)
          /\ Script[1] = Setup("clientLogControl")
          /\ Script[2] = Get("singleton", TRUE)
    BY <1>13, ScriptFactoryReturnsSingleton DEF Script
  <2>2. n = 3
    BY <2>1, Zenon
  <2>3. {1, 2} \subseteq 1 .. n
    BY <2>2
  <2>4. /\ Met(Setup("clientLogControl"))
        /\ Met(Get("singleton", TRUE))
    BY <1>met, <2>1, <2>3, Zenon
  <2>5. /\ fault # Misanswers("singleton")
        /\ fault # Refuses("clientLogControl")
    BY <2>4, MetSetup, MetGet
  <2> QED BY <1>13, <2>5, CatchesFactoryReturnsSingleton
<1>14. CASE case = "HandlerReceivesPopulatedRecords"
  <2>1. PICK n \in Nat :
          /\ n = 6 /\ n = Len(Script)
          /\ Script[1] = Setup("clientLogControl")
          /\ Script[2] = Register("first")
          /\ Script[4] = Await("first")
          /\ Script[5] = Get("populated", TRUE)
    BY <1>14, ScriptHandlerReceivesPopulatedRecords DEF Script
  <2>2. n = 6
    BY <2>1, Zenon
  <2>3. {1, 2, 4, 5} \subseteq 1 .. n
    BY <2>2
  <2>4. /\ Met(Setup("clientLogControl"))
        /\ Met(Register("first"))
        /\ Met(Await("first"))
        /\ Met(Get("populated", TRUE))
    BY <1>met, <2>1, <2>3, Zenon
  <2>5. /\ fault # Refuses("handler")
        /\ fault # Silences("log")
        /\ fault # Misanswers("populated")
        /\ fault # Refuses("clientLogControl")
    BY <2>4, MetSetup, MetRegister, MetAwait, MetGet
  <2> QED BY <1>14, <2>5, CatchesHandlerReceivesPopulatedRecords
<1>15. CASE case = "RegisteringNewHandlerReplacesPrevious"
  <2>1. PICK n \in Nat :
          /\ n = 7 /\ n = Len(Script)
          /\ Script[1] = Setup("clientLogControl")
          /\ Script[2] = Register("first")
          /\ Script[4] = Register("second")
          /\ Script[6] = Await("second")
    BY <1>15, ScriptRegisteringNewHandlerReplacesPrevious DEF Script
  <2>2. n = 7
    BY <2>1, Zenon
  <2>3. {1, 2, 4, 6} \subseteq 1 .. n
    BY <2>2
  <2>4. /\ Met(Setup("clientLogControl"))
        /\ Met(Register("first"))
        /\ Met(Register("second"))
        /\ Met(Await("second"))
    BY <1>met, <2>1, <2>3, Zenon
  <2>5. /\ fault # Refuses("handler")
        /\ fault # Silences("log")
        /\ fault # Ignores("replace")
        /\ fault # Refuses("clientLogControl")
    BY <2>4, MetSetup, MetRegister, MetAwait, MetSecond
  <2> QED BY <1>15, <2>5, CatchesRegisteringNewHandlerReplacesPrevious
<1>16. CASE case = "NullHandlerCancelsDelivery"
  <2>1. PICK n \in Nat :
          /\ n = 11 /\ n = Len(Script)
          /\ Script[1] = Setup("clientLogControl")
          /\ Script[2] = Register("first")
          /\ Script[4] = Await("first")
          /\ Script[5] = Register("none")
    BY <1>16, ScriptNullHandlerCancelsDelivery DEF Script
  <2>2. n = 11
    BY <2>1, Zenon
  <2>3. {1, 2, 4, 5} \subseteq 1 .. n
    BY <2>2
  <2>4. /\ Met(Setup("clientLogControl"))
        /\ Met(Register("first"))
        /\ Met(Await("first"))
        /\ Met(Register("none"))
    BY <1>met, <2>1, <2>3, Zenon
  <2>5. fault # Ignores("cancel")
    BY <1>0, <1>16, StepsCancelling DEF LogInv, Cancelling
  <2>6. /\ fault # Refuses("handler")
        /\ fault # Silences("log")
        /\ fault # Refuses("clientLogControl")
    BY <2>4, MetSetup, MetRegister, MetAwait
  <2> QED BY <1>16, <2>5, <2>6, CatchesNullHandlerCancelsDelivery
<1>17. CASE case = "LoadAttachRemoveSource"
  <2>1. PICK n \in Nat :
          /\ n = 4 /\ n = Len(Script)
          /\ Script[1] = Setup("createAndLoad")
          /\ Script[2] = Call("attachSource")
          /\ Script[3] = Get("validId", TRUE)
          /\ Script[4] = Call("removeSource")
    BY <1>17, ScriptLoadAttachRemoveSource DEF Script
  <2>2. n = 4
    BY <2>1, Zenon
  <2>3. {1, 2, 3, 4} \subseteq 1 .. n
    BY <2>2
  <2>4. /\ Met(Setup("createAndLoad"))
        /\ Met(Call("attachSource"))
        /\ Met(Get("validId", TRUE))
        /\ Met(Call("removeSource"))
    BY <1>met, <2>1, <2>3, Zenon
  <2>5. /\ fault # Refuses("attachSource")
        /\ fault # Misanswers("validId")
        /\ fault # Refuses("removeSource")
        /\ fault # Refuses("createAndLoad")
    BY <2>4, MetSetup, MetCall, MetGet
  <2> QED BY <1>17, <2>5, CatchesLoadAttachRemoveSource
<1>18. CASE case = "AllSourcesAttachedIsLegalOnlyOnce"
  <2>1. PICK n \in Nat :
          /\ n = 4 /\ n = Len(Script)
          /\ Script[1] = Setup("createAndLoad")
          /\ Script[2] = Call("attachSource")
    BY <1>18, ScriptAllSourcesAttachedIsLegalOnlyOnce DEF Script
  <2>2. n = 4
    BY <2>1, Zenon
  <2>3. {1, 2} \subseteq 1 .. n
    BY <2>2
  <2>4. /\ Met(Setup("createAndLoad"))
        /\ Met(Call("attachSource"))
    BY <1>met, <2>1, <2>3, Zenon
  <2>5. fault # Ignores("repeat") /\ fault # Misanswers("allSourcesAttached")
    BY <1>0, <1>18, StepsAttaching DEF SourcesInv, Attaching
  <2>6. /\ fault # Refuses("attachSource")
        /\ fault # Refuses("createAndLoad")
    BY <2>4, MetSetup, MetCall
  <2> QED BY <1>18, <2>5, <2>6, CatchesAllSourcesAttachedIsLegalOnlyOnce
<1>19. CASE case = "MultiSourceAttachComposition"
  <2>1. PICK n \in Nat :
          /\ n = 8 /\ n = Len(Script)
          /\ Script[1] = Setup("createAndLoad")
          /\ Script[2] = Call("attachSource")
          /\ Script[3] = Get("validId", TRUE)
          /\ Script[6] = Get("distinctIds", TRUE)
    BY <1>19, ScriptMultiSourceAttachComposition DEF Script
  <2>2. n = 8
    BY <2>1, Zenon
  <2>3. {1, 2, 3, 6} \subseteq 1 .. n
    BY <2>2
  <2>4. /\ Met(Setup("createAndLoad"))
        /\ Met(Call("attachSource"))
        /\ Met(Get("validId", TRUE))
        /\ Met(Get("distinctIds", TRUE))
    BY <1>met, <2>1, <2>3, Zenon
  <2>5. fault # Ignores("repeat") /\ fault # Misanswers("allSourcesAttached")
    BY <1>0, <1>19, StepsComposing DEF SourcesInv, Composing
  <2>6. /\ fault # Refuses("attachSource")
        /\ fault # Misanswers("validId")
        /\ fault # Misanswers("distinctIds")
        /\ fault # Refuses("createAndLoad")
    BY <2>4, MetSetup, MetCall, MetGet
  <2> QED BY <1>19, <2>5, <2>6, CatchesMultiSourceAttachComposition
<1> QED BY <1>0, <1>1, <1>2, <1>3, <1>4, <1>5, <1>6, <1>7, <1>8, <1>9, <1>10, <1>11, <1>12,
           <1>13, <1>14, <1>15, <1>16, <1>17, <1>18, <1>19, Zenon DEF Suite

\* The invariant holds to begin with.
LEMMA Initially ==
  ASSUME Init
  PROVE  IInv
<1> USE DEF Init, ScriptInit
<1>1. case \in DOMAIN Suite
  BY CasesAssumption
<1>2. /\ Len(Script) \in Nat /\ pc = 1 /\ pc \in 1 .. Len(Script) + 1 /\ failed = FALSE
      /\ tasks = << >> /\ notices = << >> /\ heard = << >> /\ app = "RUNNING"
  BY <1>1, ScriptKinds DEF Script
<1>3. sources \in [count : Int, all : BOOLEAN] /\ sources.all = FALSE
  OBVIOUS
<1>4. TypeInv
  <2>1. heard \in Seq(Notes) /\ notices \in Seq(Notes) /\ tasks \in Seq(Tasks)
    BY <1>2, EmptySeq
  <2>2. mark \in 0 .. Len(heard)
    BY <1>2
  <2>3. tries \in 0 .. MaxTries /\ lost \in 0 .. MaxLost
    BY RestoreAssumption
  <2>4. app \in States
    BY DEF States
  <2> QED BY <1>1, <1>2, <1>3, <2>1, <2>2, <2>3, <2>4 DEF TypeInv
<1>5. (\A t : ~Due(t)) /\ (\A n : ~Coming(n) /\ ~Seen(n))
  BY <1>2 DEF Due, Coming, Seen, Has
<1>6. QuietInv /\ SilenceInv
  BY <1>2, <1>5 DEF QuietInv, SilenceInv
<1>7. ChangingInv
  BY <1>2, <1>5 DEF ChangingInv
<1>8. ChangedInv
  BY <1>2, <1>5 DEF ChangedInv, FirstOnly
<1>9. PlayerInv /\ VolumeInv
  BY <1>2 DEF PlayerInv, VolumeInv, Wanted
<1>10. LogInv
  BY <1>2, <1>5 DEF LogInv
<1>11. OwnersInv
  BY <1>2 DEF OwnersInv
<1>12. SourcesInv
  BY <1>2, <1>3 DEF SourcesInv
<1>13. PassedInv /\ FailureInv /\ ConformingClientPasses
  BY <1>2 DEF PassedInv, FailureInv, ConformingClientPasses
<1> QED BY <1>4, <1>6, <1>7, <1>8, <1>9, <1>10, <1>11, <1>12, <1>13 DEF IInv

\* It is kept when nothing changes.
LEMMA Stuttering ==
  ASSUME IInv, UNCHANGED clientVars
  PROVE  IInv'
<1> USE DEF IInv, clientVars, scriptVars, server
<1>1. Script' = Script /\ Target' = Target /\ Wanted' = Wanted
  BY DEF Script, Target, Wanted
<1>2. /\ \A t : Due(t)' <=> Due(t)
      /\ \A n : (Coming(n)' <=> Coming(n)) /\ (Seen(n)' <=> Seen(n))
      /\ \A n : (Observed(n)' <=> Observed(n)) /\ (Ahead(n)' <=> Ahead(n))
      /\ \A st : RulesOut(st)' <=> RulesOut(st)
      /\ Logged' <=> Logged
  BY DEF Due, Coming, Seen, Observed, Since, Ahead, RulesOut, Logged
<1>3. TypeInv'
  BY <1>1 DEF TypeInv
<1>4. QuietInv' /\ SilenceInv'
  BY <1>2 DEF QuietInv, SilenceInv
<1>5. ChangingInv'
  BY <1>1, <1>2 DEF ChangingInv
<1>6. ChangedInv'
  BY <1>1, <1>2 DEF ChangedInv
<1>7. PlayerInv' /\ VolumeInv'
  BY <1>1, <1>2 DEF PlayerInv, VolumeInv
<1>8. LogInv'
  BY <1>2 DEF LogInv
<1>9. OwnersInv' /\ SourcesInv'
  BY DEF OwnersInv, SourcesInv
<1>10. PassedInv' /\ FailureInv' /\ ConformingClientPasses'
  BY <1>1, <1>2 DEF PassedInv, FailureInv, ConformingClientPasses, Finished, Over
<1> QED BY <1>3, <1>4, <1>5, <1>6, <1>7, <1>8, <1>9, <1>10

\* Every step keeps it.
LEMMA Inductive ==
  ASSUME IInv, [Next]_clientVars
  PROVE  IInv'
<1>1. CASE Next
  <2>1. TypeInv' /\ QuietInv' /\ SilenceInv'
    BY <1>1, TypeKept, QuietKept, SilenceKept DEF IInv
  <2>2. ChangingInv' /\ ChangedInv'
    BY <1>1, ChangingKept, ChangedKept DEF IInv
  <2>3. PlayerInv' /\ VolumeInv' /\ LogInv'
    BY <1>1, PlayerKept, VolumeKept, LogKept DEF IInv
  <2>4. OwnersInv' /\ SourcesInv'
    BY <1>1, OwnersKept, SourcesKept DEF IInv
  <2>5. PassedInv' /\ FailureInv' /\ ConformingClientPasses'
    BY <1>1, PassedKept, FailureKept, ConformingKept
  <2> QED BY <2>1, <2>2, <2>3, <2>4, <2>5 DEF IInv
<1>2. CASE UNCHANGED clientVars
  BY <1>2, Stuttering
<1> QED BY <1>1, <1>2

\* A case that is over has left the server active.
LEMMA ActiveAtLast ==
  ASSUME IInv
  PROVE  ServerLeftActive
<1> SUFFICES ASSUME Finished, Settled PROVE app = "RUNNING"
  BY DEF ServerLeftActive
<1> USE DEF IInv
<1>1. tasks = << >>
  BY DEF Settled
<1>2. CASE case = Changing
  <2>1. pc > 10
    BY <1>2, StepsChanging
  <2>2. Target = "RUNNING"
    BY <1>2, <2>1 DEF ChangingInv
  <2> QED BY <1>1, <2>2 DEF Target
<1>3. CASE case # Changing
  BY <1>3 DEF QuietInv
<1> QED BY <1>2, <1>3

\* The inductive invariant of the recording clients' cases.
THEOREM ClientInvariant == Spec => []IInv
<1>1. Init => IInv
  BY Initially
<1>2. IInv /\ [Next]_clientVars => IInv'
  BY Inductive
<1> QED BY <1>1, <1>2, PTL DEF Spec

\* "so the state the shared server is left in does not leak into later cases"
\* (ControlTests.cpp:236): when a case is over and everything it asked for is done, the
\* server is RUNNING, although as many requests may be lost as the restoring is repeated.
THEOREM ServerLeftActiveHolds == Spec => []ServerLeftActive
<1>1. IInv => ServerLeftActive
  BY ActiveAtLast
<1> QED BY <1>1, ClientInvariant, PTL

\* No case fails a server and a library that conform, in whatever order their threads and
\* the case's run.
THEOREM ConformingClientPassesHolds == Spec => []ConformingClientPasses
<1>1. IInv => ConformingClientPasses
  BY DEF IInv
<1> QED BY <1>1, ClientInvariant, PTL

\* A case that ends without a failed assertion has met none of the faults it is there to
\* catch.
THEOREM FaultyClientIsCaughtHolds == Spec => []FaultyClientIsCaught
<1>1. IInv => FaultyClientIsCaught
  BY CaughtAtLast DEF FaultyClientIsCaught
<1> QED BY <1>1, ClientInvariant, PTL
===============================================================================
