---------------------------- MODULE KeysCasesProofs ----------------------------
(***************************************************************************)
(* The ClearKey backend passes the key-session cases, and a server with a  *)
(* fault they are there to catch does not, whichever of the cases and the  *)
(* faults are taken, and however the wrapper's tasks and the calls of a    *)
(* case interleave.                                                        *)
(*                                                                         *)
(* Neither is inductive.  IInv says where the session is at each step of a *)
(* case (PhaseInv: not constructed, asked for, stored, announced, told, or *)
(* told in vain), who holds the client (OwnersInv, HeldInv), and that no   *)
(* step which would have caught the fault is behind (UntrappedInv).  A     *)
(* case that has come to its end without failing has every step behind it, *)
(* and every fault it catches has such a step (AllGuarded).                *)
(***************************************************************************)
EXTENDS KeysCases, SequenceTheorems, TLAPS

-----------------------------------------------------------------------------
\* The cases by what they do: attach nothing, ask for a licence, supply one, and wait for
\* what comes of it.
Unknown    == "UnknownSessionIdReturnsBadSessionId"
Weak       == "ClientHeldWeaklyAndReleasable"
Creating   == "CreateKeySessionWritesValidId"
Generating == "GenerateRequestDeliversLicenseRequest"
Surfacing  == "UpdateSessionSurfacesUsableKeyStatus"
Teardown   == "SessionTeardownReturnsOk"
Maintaining == "StoreAndMaintenanceQueriesAnswer"
Selecting  == "SelectKeyIdAnswersForValidSession"
Awaiting   == {Surfacing, Selecting}
Supplying  == {Surfacing, Selecting, Teardown}
Requesting == {Surfacing, Selecting, Teardown, Generating, Maintaining}

\* Where the session is closed without a look at the result, and where the case ends.
ClosesAt(c, n) == \/ c = Creating /\ n = 4
                  \/ c = Generating /\ n = 7
                  \/ c = Maintaining /\ n = 9
                  \/ c = Selecting /\ n = 8
                  \/ c = Surfacing /\ n = 12
EndsAt(c, n) == \/ c = Creating /\ n = 5
                \/ c \in {Unknown, Weak} /\ n = 7
                \/ c = Generating /\ n = 8
                \/ c \in {Teardown, Selecting} /\ n = 9
                \/ c = Maintaining /\ n = 10
                \/ c = Surfacing /\ n = 13

\* The calls a case may make at n, its reads, and its waits.
CallAt(c, n, step) ==
  \/ step = Setup("createMediaKeys") /\ n = 1
  \/ step = Call("createKeySession") /\ n = 2 /\ c # Unknown
  \/ step = Call("generateRequest") /\ n = 3 /\ c \in Requesting
  \/ step = Call("generateRequest") /\ n = 5 /\ c = Weak
  \/ step = Call("updateSession") /\ n = 5 /\ c \in Supplying
  \/ step = Call("getDrmTime") /\ n = 5 /\ c = Maintaining
  \/ step = Call("getCdmKeySessionId") /\ n = 6 /\ c = Maintaining
  \/ step = Plain("queryStores") /\ n = 8 /\ c = Maintaining
  \/ step = Plain("dropClient") /\ n = 3 /\ c = Weak
  \/ step = Call("removeKeySession") /\ n = 6 /\ c = Teardown
  \/ step = Call("closeKeySession") /\ n = 7 /\ c = Teardown
  \/ step = Call("closeKeySession") /\ n = 6 /\ c = Weak
  \/ step = Call("releaseKeySession") /\ n = 8 /\ c = Teardown
  \/ step = Plain("closeKeySession") /\ ClosesAt(c, n)
  \/ step = Always("destroyMediaKeys") /\ EndsAt(c, n)
GetAt(c, n, step) ==
  \/ step = Get("unknownGenerate", TRUE) /\ n = 2 /\ c = Unknown
  \/ step = Get("unknownUpdate", TRUE) /\ n = 3 /\ c = Unknown
  \/ step = Get("unknownClose", TRUE) /\ n = 4 /\ c = Unknown
  \/ step = Get("unknownRemove", TRUE) /\ n = 5 /\ c = Unknown
  \/ step = Get("unknownContains", FALSE) /\ n = 6 /\ c = Unknown
  \/ step = Get("validId", TRUE) /\ n = 3 /\ c = Creating
  \/ step = Get("requestId", TRUE) /\ n = 5 /\ c = Generating
  \/ step = Get("namesKid", TRUE) /\ n = 6 /\ c = Generating
  \/ step = Get("cdmId", TRUE) /\ n = 7 /\ c = Maintaining
  \/ step = Get("statusesId", TRUE) /\ n = 7 /\ c = Surfacing
  \/ step = Require("anyStatus", TRUE) /\ n = 8 /\ c = Surfacing
  \/ step = Get("usableKid", TRUE) /\ n = 9 /\ c = Surfacing
  \/ step = Get("containsKey", TRUE) /\ n = 10 /\ c = Surfacing
  \/ step = Get("containsOtherKey", FALSE) /\ n = 11 /\ c = Surfacing
  \/ step = Get("recognised", TRUE) /\ n = 7 /\ c = Selecting
  \/ step = Get("expired", TRUE) /\ n = 4 /\ c = Weak
AwaitAt(c, n, step) ==
  \/ step = Reach("licenseRequest") /\ n = 4 /\ c \in Requesting
  \/ step = Reach("keyStatuses") /\ n = 6 /\ c \in Awaiting

Kinds(c, n, step) == CallAt(c, n, step) \/ GetAt(c, n, step) \/ AwaitAt(c, n, step)

\* Step n of the case is one no server with the fault f gets past.
Traps(c, f, n) ==
  LET st == Suite[c].script[n] IN
  /\ st.must \in {"hold", "abort"}
  /\ \/ st.do = "call" /\ f = Refuses(st.what)
     \/ st.do = "get" /\ f = Misanswers(st.what)
     \/ st.do = "await" /\ f = Silences(st.what)
     \/ st.do = "get" /\ st.what = "expired" /\ f = Ignores("weak")

\* The case has such a step.
Guarded(c, f) == \E n \in 1 .. Len(Suite[c].script) : Traps(c, f, n)

-----------------------------------------------------------------------------
\* The session at rest, the tasks done.
Quiet == tasks = << >> /\ gathered[Session] = {}

\* Not constructed.
Fresh == Quiet /\ state[Session] = "none" /\ held[Session] = {} /\ received = {}

\* The licence request on its way, delivered, or lost.
Asked == /\ state[Session] = "open" /\ held[Session] = {} /\ gathered[Session] = {}
         /\ tasks = <<Backend!Challenge(Session, {Kid})>> /\ received = {}
Answered == /\ Quiet /\ state[Session] = "open" /\ held[Session] = {}
            /\ requested[Session] = {Kid}
Requested == Answered /\ received = {"licenseRequest"} /\ fault # Silences("licenseRequest")
Missed    == Answered /\ received = {} /\ fault = Silences("licenseRequest")

\* The key stored, and announced: on its way, half told, told, or lost.
Stored == state[Session] = "open" /\ held[Session] = {Kid}
Announced == /\ Stored /\ gathered[Session] = {} /\ received = {"licenseRequest"}
             /\ tasks = <<Backend!KeyUpdate(Session, Kid), Backend!KeysUpdated(Session)>>
Gathered == /\ Stored /\ gathered[Session] = {Backend!Usable(Kid)}
            /\ tasks = <<Backend!KeysUpdated(Session)>> /\ received = {"licenseRequest"}
Published == Stored /\ Quiet /\ statuses[Session] = {Backend!Usable(Kid)}
Told   == /\ Published /\ received = {"licenseRequest", "keyStatuses"}
          /\ fault # Silences("keyStatuses")
Untold == Published /\ received = {"licenseRequest"} /\ fault = Silences("keyStatuses")

\* What is under way at each step that depends on it.
PhaseInv ==
  /\ \/ case \in Requesting /\ pc <= 3
     \/ case = Weak /\ pc <= 5
     => Fresh
  /\ case \in Requesting /\ pc = 4 => Asked \/ Requested \/ Missed
  /\ case \in Requesting /\ pc = 5 => Requested
  /\ case = Generating /\ pc = 6 => Requested
  /\ case \in Awaiting /\ pc = 6 => Announced \/ Gathered \/ Told \/ Untold
  /\ (case = Surfacing /\ pc \in 7 .. 11) \/ (case = Selecting /\ pc = 7) => Told
  /\ case = Teardown /\ pc \in 6 .. 8 => Backend!Live(Session)

\* The client: the case holds it until it drops it, and nobody else does.
OwnersInv ==
  case = Weak =>
    /\ pc = 3 => owners \in {{"case"}, {"case", "keys"}}
    /\ pc \in 3 .. 4 => ("keys" \in owners <=> fault = Ignores("weak"))
    /\ pc = 4 => owners \subseteq {"keys"}

\* Whoever is called back is there.
HeldInv == case # Weak => owners = {"case"}

\* No step behind is one that no server with the fault gets past.
UntrappedInv == \A n \in 1 .. pc - 1 : ~Traps(case, fault, n)

\* A case is under way, and the backend has its one session.
TypesInv ==
  /\ pc \in Nat \ {0} /\ case \in DOMAIN Suite
  /\ {Session} = DOMAIN state /\ {Session} = DOMAIN held /\ {Session} = DOMAIN gathered
  /\ {Session} = DOMAIN requested /\ {Session} = DOMAIN statuses

\* The server is the backend, or has a fault that the case is there to catch.
Good == fault = Conforming \/ fault \in Suite[case].catches

\* The inductive invariant.
IInv == /\ fault = Conforming => ~failed
        /\ Good /\ ~failed => TypesInv /\ PhaseInv /\ OwnersInv /\ HeldInv /\ UntrappedInv

-----------------------------------------------------------------------------
\* A script with 1 + 1 steps of the case's own, as one sequence.
LEMMA Join1_1 ==
  ASSUME NEW x1, NEW x2, NEW x3, NEW x4, NEW x5
  PROVE  <<x1, x2>> \o (<<x3>> \o <<x4>>) \o <<x5>>
           = <<x1, x2, x3, x4, x5>>
<1> DEFINE S == {x1, x2, x3, x4, x5}
           left == <<x1, x2>> \o (<<x3>> \o <<x4>>) \o <<x5>>
           right == <<x1, x2, x3, x4, x5>>
<1>1. /\ x1 \in S /\ x2 \in S /\ x3 \in S /\ x4 \in S /\ x5 \in S
  OBVIOUS
<1> HIDE DEF S
<1>2. left \in Seq(S) /\ right \in Seq(S)
  BY <1>1
<1>3. 5 = Len(left) /\ 5 = Len(right)
  BY <1>1
<1>4. \A i \in 1 .. 5 : left[i] = right[i]
  BY <1>1
<1> QED BY <1>2, <1>3, <1>4, SeqEqual

\* A script with 2 + 2 + 1 steps of the case's own, as one sequence.
LEMMA Join2_2_1 ==
  ASSUME NEW x1, NEW x2, NEW x3, NEW x4, NEW x5, NEW x6, NEW x7, NEW x8
  PROVE  <<x1, x2>> \o (<<x3, x4>> \o <<x5, x6>> \o <<x7>>) \o <<x8>>
           = <<x1, x2, x3, x4, x5, x6, x7, x8>>
<1> DEFINE S == {x1, x2, x3, x4, x5, x6, x7, x8}
           left == <<x1, x2>> \o (<<x3, x4>> \o <<x5, x6>> \o <<x7>>) \o <<x8>>
           right == <<x1, x2, x3, x4, x5, x6, x7, x8>>
<1>1. /\ x1 \in S /\ x2 \in S /\ x3 \in S /\ x4 \in S /\ x5 \in S /\ x6 \in S /\ x7 \in S
      /\ x8 \in S
  OBVIOUS
<1> HIDE DEF S
<1>2. left \in Seq(S) /\ right \in Seq(S)
  BY <1>1
<1>3. 8 = Len(left) /\ 8 = Len(right)
  BY <1>1
<1>4. \A i \in 1 .. 8 : left[i] = right[i]
  BY <1>1
<1> QED BY <1>2, <1>3, <1>4, SeqEqual

\* A script with 2 + 7 + 1 steps of the case's own, as one sequence.
LEMMA Join2_7_1 ==
  ASSUME NEW x1, NEW x2, NEW x3, NEW x4, NEW x5, NEW x6, NEW x7, NEW x8, NEW x9, NEW x10,
         NEW x11, NEW x12, NEW x13
  PROVE  <<x1, x2>> \o (<<x3, x4>> \o <<x5, x6, x7, x8, x9, x10, x11>> \o <<x12>>) \o <<x13>>
           = <<x1, x2, x3, x4, x5, x6, x7, x8, x9, x10, x11, x12, x13>>
<1> DEFINE S == {x1, x2, x3, x4, x5, x6, x7, x8, x9, x10, x11, x12, x13}
           left == <<x1, x2>> \o (<<x3, x4>> \o <<x5, x6, x7, x8, x9, x10, x11>> \o <<x12>>) \o <<x13>>
           right == <<x1, x2, x3, x4, x5, x6, x7, x8, x9, x10, x11, x12, x13>>
<1>1. /\ x1 \in S /\ x2 \in S /\ x3 \in S /\ x4 \in S /\ x5 \in S /\ x6 \in S /\ x7 \in S
      /\ x8 \in S /\ x9 \in S /\ x10 \in S /\ x11 \in S /\ x12 \in S /\ x13 \in S
  OBVIOUS
<1> HIDE DEF S
<1>2. left \in Seq(S) /\ right \in Seq(S)
  BY <1>1
<1>3. 13 = Len(left) /\ 13 = Len(right)
  BY <1>1
<1>4. \A i \in 1 .. 13 : left[i] = right[i]
  BY <1>1
<1> QED BY <1>2, <1>3, <1>4, SeqEqual

\* A script with 2 + 4 steps of the case's own, as one sequence.
LEMMA Join2_4 ==
  ASSUME NEW x1, NEW x2, NEW x3, NEW x4, NEW x5, NEW x6, NEW x7, NEW x8, NEW x9
  PROVE  <<x1, x2>> \o (<<x3, x4>> \o <<x5, x6, x7, x8>>) \o <<x9>>
           = <<x1, x2, x3, x4, x5, x6, x7, x8, x9>>
<1> DEFINE S == {x1, x2, x3, x4, x5, x6, x7, x8, x9}
           left == <<x1, x2>> \o (<<x3, x4>> \o <<x5, x6, x7, x8>>) \o <<x9>>
           right == <<x1, x2, x3, x4, x5, x6, x7, x8, x9>>
<1>1. /\ x1 \in S /\ x2 \in S /\ x3 \in S /\ x4 \in S /\ x5 \in S /\ x6 \in S /\ x7 \in S
      /\ x8 \in S /\ x9 \in S
  OBVIOUS
<1> HIDE DEF S
<1>2. left \in Seq(S) /\ right \in Seq(S)
  BY <1>1
<1>3. 9 = Len(left) /\ 9 = Len(right)
  BY <1>1
<1>4. \A i \in 1 .. 9 : left[i] = right[i]
  BY <1>1
<1> QED BY <1>2, <1>3, <1>4, SeqEqual

\* A script with 2 + 4 + 1 steps of the case's own, as one sequence.
LEMMA Join2_4_1 ==
  ASSUME NEW x1, NEW x2, NEW x3, NEW x4, NEW x5, NEW x6, NEW x7, NEW x8, NEW x9, NEW x10
  PROVE  <<x1, x2>> \o (<<x3, x4>> \o <<x5, x6, x7, x8>> \o <<x9>>) \o <<x10>>
           = <<x1, x2, x3, x4, x5, x6, x7, x8, x9, x10>>
<1> DEFINE S == {x1, x2, x3, x4, x5, x6, x7, x8, x9, x10}
           left == <<x1, x2>> \o (<<x3, x4>> \o <<x5, x6, x7, x8>> \o <<x9>>) \o <<x10>>
           right == <<x1, x2, x3, x4, x5, x6, x7, x8, x9, x10>>
<1>1. /\ x1 \in S /\ x2 \in S /\ x3 \in S /\ x4 \in S /\ x5 \in S /\ x6 \in S /\ x7 \in S
      /\ x8 \in S /\ x9 \in S /\ x10 \in S
  OBVIOUS
<1> HIDE DEF S
<1>2. left \in Seq(S) /\ right \in Seq(S)
  BY <1>1
<1>3. 10 = Len(left) /\ 10 = Len(right)
  BY <1>1
<1>4. \A i \in 1 .. 10 : left[i] = right[i]
  BY <1>1
<1> QED BY <1>2, <1>3, <1>4, SeqEqual

\* A script with 2 + 3 + 1 steps of the case's own, as one sequence.
LEMMA Join2_3_1 ==
  ASSUME NEW x1, NEW x2, NEW x3, NEW x4, NEW x5, NEW x6, NEW x7, NEW x8, NEW x9
  PROVE  <<x1, x2>> \o (<<x3, x4>> \o <<x5, x6, x7>> \o <<x8>>) \o <<x9>>
           = <<x1, x2, x3, x4, x5, x6, x7, x8, x9>>
<1> DEFINE S == {x1, x2, x3, x4, x5, x6, x7, x8, x9}
           left == <<x1, x2>> \o (<<x3, x4>> \o <<x5, x6, x7>> \o <<x8>>) \o <<x9>>
           right == <<x1, x2, x3, x4, x5, x6, x7, x8, x9>>
<1>1. /\ x1 \in S /\ x2 \in S /\ x3 \in S /\ x4 \in S /\ x5 \in S /\ x6 \in S /\ x7 \in S
      /\ x8 \in S /\ x9 \in S
  OBVIOUS
<1> HIDE DEF S
<1>2. left \in Seq(S) /\ right \in Seq(S)
  BY <1>1
<1>3. 9 = Len(left) /\ 9 = Len(right)
  BY <1>1
<1>4. \A i \in 1 .. 9 : left[i] = right[i]
  BY <1>1
<1> QED BY <1>2, <1>3, <1>4, SeqEqual

\* A script with 4 steps of the case's own, as one sequence.
LEMMA Join4 ==
  ASSUME NEW x1, NEW x2, NEW x3, NEW x4, NEW x5, NEW x6, NEW x7
  PROVE  <<x1, x2>> \o <<x3, x4, x5, x6>> \o <<x7>>
           = <<x1, x2, x3, x4, x5, x6, x7>>
<1> DEFINE S == {x1, x2, x3, x4, x5, x6, x7}
           left == <<x1, x2>> \o <<x3, x4, x5, x6>> \o <<x7>>
           right == <<x1, x2, x3, x4, x5, x6, x7>>
<1>1. /\ x1 \in S /\ x2 \in S /\ x3 \in S /\ x4 \in S /\ x5 \in S /\ x6 \in S /\ x7 \in S
  OBVIOUS
<1> HIDE DEF S
<1>2. left \in Seq(S) /\ right \in Seq(S)
  BY <1>1
<1>3. 7 = Len(left) /\ 7 = Len(right)
  BY <1>1
<1>4. \A i \in 1 .. 7 : left[i] = right[i]
  BY <1>1
<1> QED BY <1>2, <1>3, <1>4, SeqEqual

\* The script of CreateKeySessionWritesValidId.
LEMMA ScriptCreating ==
  Suite[Creating].script
    = <<Setup("createMediaKeys"), Call("createKeySession"), Get("validId", TRUE),
        Plain("closeKeySession"), Always("destroyMediaKeys")>>
<1> DEFINE s1 == Setup("createMediaKeys")
           s2 == Call("createKeySession")
           s3 == Get("validId", TRUE)
           s4 == Plain("closeKeySession")
           s5 == Always("destroyMediaKeys")
<1>1. Suite[Creating] = CreateKeySessionWritesValidId
  BY Zenon DEF Suite, Creating
<1>2. \A script, catches : Case(script, catches).script = script
  BY DEF Case
<1>3. <<s1, s2>> \o (<<s3>> \o <<s4>>) \o <<s5>>
        = <<s1, s2, s3, s4, s5>>
  <2> HIDE DEF s1, s2, s3, s4, s5
  <2> QED BY Join1_1
<1> QED BY <1>1, <1>2, <1>3, Zenon
    DEF CreateKeySessionWritesValidId, OnSession, Close

\* The script of GenerateRequestDeliversLicenseRequest.
LEMMA ScriptGenerating ==
  Suite[Generating].script
    = <<Setup("createMediaKeys"), Call("createKeySession"), Call("generateRequest"),
        Reach("licenseRequest"), Get("requestId", TRUE), Get("namesKid", TRUE),
        Plain("closeKeySession"), Always("destroyMediaKeys")>>
<1> DEFINE s1 == Setup("createMediaKeys")
           s2 == Call("createKeySession")
           s3 == Call("generateRequest")
           s4 == Reach("licenseRequest")
           s5 == Get("requestId", TRUE)
           s6 == Get("namesKid", TRUE)
           s7 == Plain("closeKeySession")
           s8 == Always("destroyMediaKeys")
<1>1. Suite[Generating] = GenerateRequestDeliversLicenseRequest
  BY Zenon DEF Suite, Generating
<1>2. \A script, catches : Case(script, catches).script = script
  BY DEF Case
<1>3. <<s1, s2>> \o (<<s3, s4>> \o <<s5, s6>> \o <<s7>>) \o <<s8>>
        = <<s1, s2, s3, s4, s5, s6, s7, s8>>
  <2> HIDE DEF s1, s2, s3, s4, s5, s6, s7, s8
  <2> QED BY Join2_2_1
<1> QED BY <1>1, <1>2, <1>3, Zenon
    DEF GenerateRequestDeliversLicenseRequest, OnSession, Request, Close

\* The script of UpdateSessionSurfacesUsableKeyStatus.
LEMMA ScriptSurfacing ==
  Suite[Surfacing].script
    = <<Setup("createMediaKeys"), Call("createKeySession"), Call("generateRequest"),
        Reach("licenseRequest"), Call("updateSession"), Reach("keyStatuses"),
        Get("statusesId", TRUE), Require("anyStatus", TRUE), Get("usableKid", TRUE),
        Get("containsKey", TRUE), Get("containsOtherKey", FALSE), Plain("closeKeySession"),
        Always("destroyMediaKeys")>>
<1> DEFINE s1 == Setup("createMediaKeys")
           s2 == Call("createKeySession")
           s3 == Call("generateRequest")
           s4 == Reach("licenseRequest")
           s5 == Call("updateSession")
           s6 == Reach("keyStatuses")
           s7 == Get("statusesId", TRUE)
           s8 == Require("anyStatus", TRUE)
           s9 == Get("usableKid", TRUE)
           s10 == Get("containsKey", TRUE)
           s11 == Get("containsOtherKey", FALSE)
           s12 == Plain("closeKeySession")
           s13 == Always("destroyMediaKeys")
<1>1. Suite[Surfacing] = UpdateSessionSurfacesUsableKeyStatus
  BY Zenon DEF Suite, Surfacing
<1>2. \A script, catches : Case(script, catches).script = script
  BY DEF Case
<1>3. <<s1, s2>> \o (<<s3, s4>> \o <<s5, s6, s7, s8, s9, s10, s11>> \o <<s12>>) \o <<s13>>
        = <<s1, s2, s3, s4, s5, s6, s7, s8, s9, s10, s11, s12, s13>>
  <2> HIDE DEF s1, s2, s3, s4, s5, s6, s7, s8, s9, s10, s11, s12, s13
  <2> QED BY Join2_7_1
<1> QED BY <1>1, <1>2, <1>3, Zenon
    DEF UpdateSessionSurfacesUsableKeyStatus, OnSession, Request, Close

\* The script of SessionTeardownReturnsOk.
LEMMA ScriptTeardown ==
  Suite[Teardown].script
    = <<Setup("createMediaKeys"), Call("createKeySession"), Call("generateRequest"),
        Reach("licenseRequest"), Call("updateSession"), Call("removeKeySession"),
        Call("closeKeySession"), Call("releaseKeySession"), Always("destroyMediaKeys")>>
<1> DEFINE s1 == Setup("createMediaKeys")
           s2 == Call("createKeySession")
           s3 == Call("generateRequest")
           s4 == Reach("licenseRequest")
           s5 == Call("updateSession")
           s6 == Call("removeKeySession")
           s7 == Call("closeKeySession")
           s8 == Call("releaseKeySession")
           s9 == Always("destroyMediaKeys")
<1>1. Suite[Teardown] = SessionTeardownReturnsOk
  BY Zenon DEF Suite, Teardown
<1>2. \A script, catches : Case(script, catches).script = script
  BY DEF Case
<1>3. <<s1, s2>> \o (<<s3, s4>> \o <<s5, s6, s7, s8>>) \o <<s9>>
        = <<s1, s2, s3, s4, s5, s6, s7, s8, s9>>
  <2> HIDE DEF s1, s2, s3, s4, s5, s6, s7, s8, s9
  <2> QED BY Join2_4
<1> QED BY <1>1, <1>2, <1>3, Zenon
    DEF SessionTeardownReturnsOk, OnSession, Request

\* The script of UnknownSessionIdReturnsBadSessionId.
LEMMA ScriptUnknown ==
  Suite[Unknown].script
    = <<Setup("createMediaKeys"), Get("unknownGenerate", TRUE), Get("unknownUpdate", TRUE),
        Get("unknownClose", TRUE), Get("unknownRemove", TRUE), Get("unknownContains", FALSE),
        Always("destroyMediaKeys")>>
<1>1. Suite[Unknown] = UnknownSessionIdReturnsBadSessionId
  BY Zenon DEF Suite, Unknown
<1>2. \A script, catches : Case(script, catches).script = script
  BY DEF Case
<1> QED BY <1>1, <1>2, Zenon DEF UnknownSessionIdReturnsBadSessionId

\* The script of StoreAndMaintenanceQueriesAnswer.
LEMMA ScriptMaintaining ==
  Suite[Maintaining].script
    = <<Setup("createMediaKeys"), Call("createKeySession"), Call("generateRequest"),
        Reach("licenseRequest"), Call("getDrmTime"), Call("getCdmKeySessionId"),
        Get("cdmId", TRUE), Plain("queryStores"), Plain("closeKeySession"),
        Always("destroyMediaKeys")>>
<1> DEFINE s1 == Setup("createMediaKeys")
           s2 == Call("createKeySession")
           s3 == Call("generateRequest")
           s4 == Reach("licenseRequest")
           s5 == Call("getDrmTime")
           s6 == Call("getCdmKeySessionId")
           s7 == Get("cdmId", TRUE)
           s8 == Plain("queryStores")
           s9 == Plain("closeKeySession")
           s10 == Always("destroyMediaKeys")
<1>1. Suite[Maintaining] = StoreAndMaintenanceQueriesAnswer
  BY Zenon DEF Suite, Maintaining
<1>2. \A script, catches : Case(script, catches).script = script
  BY DEF Case
<1>3. <<s1, s2>> \o (<<s3, s4>> \o <<s5, s6, s7, s8>> \o <<s9>>) \o <<s10>>
        = <<s1, s2, s3, s4, s5, s6, s7, s8, s9, s10>>
  <2> HIDE DEF s1, s2, s3, s4, s5, s6, s7, s8, s9, s10
  <2> QED BY Join2_4_1
<1> QED BY <1>1, <1>2, <1>3, Zenon
    DEF StoreAndMaintenanceQueriesAnswer, OnSession, Request, Close

\* The script of SelectKeyIdAnswersForValidSession.
LEMMA ScriptSelecting ==
  Suite[Selecting].script
    = <<Setup("createMediaKeys"), Call("createKeySession"), Call("generateRequest"),
        Reach("licenseRequest"), Call("updateSession"), Reach("keyStatuses"),
        Get("recognised", TRUE), Plain("closeKeySession"), Always("destroyMediaKeys")>>
<1> DEFINE s1 == Setup("createMediaKeys")
           s2 == Call("createKeySession")
           s3 == Call("generateRequest")
           s4 == Reach("licenseRequest")
           s5 == Call("updateSession")
           s6 == Reach("keyStatuses")
           s7 == Get("recognised", TRUE)
           s8 == Plain("closeKeySession")
           s9 == Always("destroyMediaKeys")
<1>1. Suite[Selecting] = SelectKeyIdAnswersForValidSession
  BY Zenon DEF Suite, Selecting
<1>2. \A script, catches : Case(script, catches).script = script
  BY DEF Case
<1>3. <<s1, s2>> \o (<<s3, s4>> \o <<s5, s6, s7>> \o <<s8>>) \o <<s9>>
        = <<s1, s2, s3, s4, s5, s6, s7, s8, s9>>
  <2> HIDE DEF s1, s2, s3, s4, s5, s6, s7, s8, s9
  <2> QED BY Join2_3_1
<1> QED BY <1>1, <1>2, <1>3, Zenon
    DEF SelectKeyIdAnswersForValidSession, OnSession, Request, Close

\* The script of ClientHeldWeaklyAndReleasable.
LEMMA ScriptWeak ==
  Suite[Weak].script
    = <<Setup("createMediaKeys"), Call("createKeySession"), Plain("dropClient"),
        Get("expired", TRUE), Call("generateRequest"), Call("closeKeySession"),
        Always("destroyMediaKeys")>>
<1> DEFINE s1 == Setup("createMediaKeys")
           s2 == Call("createKeySession")
           s3 == Plain("dropClient")
           s4 == Get("expired", TRUE)
           s5 == Call("generateRequest")
           s6 == Call("closeKeySession")
           s7 == Always("destroyMediaKeys")
<1>1. Suite[Weak] = ClientHeldWeaklyAndReleasable
  BY Zenon DEF Suite, Weak
<1>2. \A script, catches : Case(script, catches).script = script
  BY DEF Case
<1>3. <<s1, s2>> \o <<s3, s4, s5, s6>> \o <<s7>>
        = <<s1, s2, s3, s4, s5, s6, s7>>
  <2> HIDE DEF s1, s2, s3, s4, s5, s6, s7
  <2> QED BY Join4
<1> QED BY <1>1, <1>2, <1>3, Zenon
    DEF ClientHeldWeaklyAndReleasable, OnSession

-----------------------------------------------------------------------------
\* Every step of every script is what Kinds says.
LEMMA ScriptKinds ==
  ASSUME NEW c \in DOMAIN Suite
  PROVE  /\ Len(Suite[c].script) \in Nat \ {0}
         /\ \A i \in 1 .. Len(Suite[c].script) : Kinds(c, i, Suite[c].script[i])
<1> USE DEF Requesting, Supplying, Awaiting, ClosesAt, EndsAt, Creating, Generating,
            Surfacing, Teardown, Unknown, Maintaining, Selecting, Weak
<1>1. CASE c = Creating
  <2> DEFINE s == Suite[c].script
  <2>1. PICK n \in Nat \ {0} : n = 5 /\ n = Len(s)
    BY <1>1, ScriptCreating
  <2>2. /\ s[1] = Setup("createMediaKeys")
        /\ s[2] = Call("createKeySession")
        /\ s[3] = Get("validId", TRUE)
        /\ s[4] = Plain("closeKeySession")
        /\ s[5] = Always("destroyMediaKeys")
    BY <1>1, ScriptCreating
  <2>3. ASSUME NEW i \in 1 .. n
        PROVE  Kinds(c, i, s[i])
    <3>1. i = 1 \/ i = 2 \/ i = 3 \/ i = 4 \/ i = 5
      BY <2>1
    <3> HIDE DEF s
    <3>2. CASE i = 1
      BY <1>1, <2>2, <3>2 DEF Kinds, CallAt, GetAt, AwaitAt
    <3>3. CASE i = 2
      BY <1>1, <2>2, <3>3 DEF Kinds, CallAt, GetAt, AwaitAt
    <3>4. CASE i = 3
      BY <1>1, <2>2, <3>4 DEF Kinds, CallAt, GetAt, AwaitAt
    <3>5. CASE i = 4
      BY <1>1, <2>2, <3>5 DEF Kinds, CallAt, GetAt, AwaitAt
    <3>6. CASE i = 5
      BY <1>1, <2>2, <3>6 DEF Kinds, CallAt, GetAt, AwaitAt
    <3> QED BY <3>1, <3>2, <3>3, <3>4, <3>5, <3>6
  <2> QED BY <2>1, <2>3
<1>2. CASE c = Generating
  <2> DEFINE s == Suite[c].script
  <2>1. PICK n \in Nat \ {0} : n = 8 /\ n = Len(s)
    BY <1>2, ScriptGenerating
  <2>2. /\ s[1] = Setup("createMediaKeys")
        /\ s[2] = Call("createKeySession")
        /\ s[3] = Call("generateRequest")
        /\ s[4] = Reach("licenseRequest")
        /\ s[5] = Get("requestId", TRUE)
        /\ s[6] = Get("namesKid", TRUE)
        /\ s[7] = Plain("closeKeySession")
        /\ s[8] = Always("destroyMediaKeys")
    BY <1>2, ScriptGenerating
  <2>3. ASSUME NEW i \in 1 .. n
        PROVE  Kinds(c, i, s[i])
    <3>1. i = 1 \/ i = 2 \/ i = 3 \/ i = 4 \/ i = 5 \/ i = 6 \/ i = 7 \/ i = 8
      BY <2>1
    <3> HIDE DEF s
    <3>2. CASE i = 1
      BY <1>2, <2>2, <3>2 DEF Kinds, CallAt, GetAt, AwaitAt
    <3>3. CASE i = 2
      BY <1>2, <2>2, <3>3 DEF Kinds, CallAt, GetAt, AwaitAt
    <3>4. CASE i = 3
      BY <1>2, <2>2, <3>4 DEF Kinds, CallAt, GetAt, AwaitAt
    <3>5. CASE i = 4
      BY <1>2, <2>2, <3>5 DEF Kinds, CallAt, GetAt, AwaitAt
    <3>6. CASE i = 5
      BY <1>2, <2>2, <3>6 DEF Kinds, CallAt, GetAt, AwaitAt
    <3>7. CASE i = 6
      BY <1>2, <2>2, <3>7 DEF Kinds, CallAt, GetAt, AwaitAt
    <3>8. CASE i = 7
      BY <1>2, <2>2, <3>8 DEF Kinds, CallAt, GetAt, AwaitAt
    <3>9. CASE i = 8
      BY <1>2, <2>2, <3>9 DEF Kinds, CallAt, GetAt, AwaitAt
    <3> QED BY <3>1, <3>2, <3>3, <3>4, <3>5, <3>6, <3>7, <3>8, <3>9
  <2> QED BY <2>1, <2>3
<1>3. CASE c = Surfacing
  <2> DEFINE s == Suite[c].script
  <2>1. PICK n \in Nat \ {0} : n = 13 /\ n = Len(s)
    BY <1>3, ScriptSurfacing
  <2>2. /\ s[1] = Setup("createMediaKeys")
        /\ s[2] = Call("createKeySession")
        /\ s[3] = Call("generateRequest")
        /\ s[4] = Reach("licenseRequest")
        /\ s[5] = Call("updateSession")
        /\ s[6] = Reach("keyStatuses")
        /\ s[7] = Get("statusesId", TRUE)
        /\ s[8] = Require("anyStatus", TRUE)
        /\ s[9] = Get("usableKid", TRUE)
        /\ s[10] = Get("containsKey", TRUE)
        /\ s[11] = Get("containsOtherKey", FALSE)
        /\ s[12] = Plain("closeKeySession")
        /\ s[13] = Always("destroyMediaKeys")
    BY <1>3, ScriptSurfacing
  <2>3. ASSUME NEW i \in 1 .. n
        PROVE  Kinds(c, i, s[i])
    <3>1. i = 1 \/ i = 2 \/ i = 3 \/ i = 4 \/ i = 5 \/ i = 6 \/ i = 7 \/ i = 8 \/
                i = 9 \/ i = 10 \/ i = 11 \/ i = 12 \/ i = 13
      BY <2>1
    <3> HIDE DEF s
    <3>2. CASE i = 1
      BY <1>3, <2>2, <3>2 DEF Kinds, CallAt, GetAt, AwaitAt
    <3>3. CASE i = 2
      BY <1>3, <2>2, <3>3 DEF Kinds, CallAt, GetAt, AwaitAt
    <3>4. CASE i = 3
      BY <1>3, <2>2, <3>4 DEF Kinds, CallAt, GetAt, AwaitAt
    <3>5. CASE i = 4
      BY <1>3, <2>2, <3>5 DEF Kinds, CallAt, GetAt, AwaitAt
    <3>6. CASE i = 5
      BY <1>3, <2>2, <3>6 DEF Kinds, CallAt, GetAt, AwaitAt
    <3>7. CASE i = 6
      BY <1>3, <2>2, <3>7 DEF Kinds, CallAt, GetAt, AwaitAt
    <3>8. CASE i = 7
      BY <1>3, <2>2, <3>8 DEF Kinds, CallAt, GetAt, AwaitAt
    <3>9. CASE i = 8
      BY <1>3, <2>2, <3>9 DEF Kinds, CallAt, GetAt, AwaitAt
    <3>10. CASE i = 9
      BY <1>3, <2>2, <3>10 DEF Kinds, CallAt, GetAt, AwaitAt
    <3>11. CASE i = 10
      BY <1>3, <2>2, <3>11 DEF Kinds, CallAt, GetAt, AwaitAt
    <3>12. CASE i = 11
      BY <1>3, <2>2, <3>12 DEF Kinds, CallAt, GetAt, AwaitAt
    <3>13. CASE i = 12
      BY <1>3, <2>2, <3>13 DEF Kinds, CallAt, GetAt, AwaitAt
    <3>14. CASE i = 13
      BY <1>3, <2>2, <3>14 DEF Kinds, CallAt, GetAt, AwaitAt
    <3> QED BY <3>1, <3>2, <3>3, <3>4, <3>5, <3>6, <3>7, <3>8, <3>9, <3>10, <3>11, <3>12, <3>13,
               <3>14
  <2> QED BY <2>1, <2>3
<1>4. CASE c = Teardown
  <2> DEFINE s == Suite[c].script
  <2>1. PICK n \in Nat \ {0} : n = 9 /\ n = Len(s)
    BY <1>4, ScriptTeardown
  <2>2. /\ s[1] = Setup("createMediaKeys")
        /\ s[2] = Call("createKeySession")
        /\ s[3] = Call("generateRequest")
        /\ s[4] = Reach("licenseRequest")
        /\ s[5] = Call("updateSession")
        /\ s[6] = Call("removeKeySession")
        /\ s[7] = Call("closeKeySession")
        /\ s[8] = Call("releaseKeySession")
        /\ s[9] = Always("destroyMediaKeys")
    BY <1>4, ScriptTeardown
  <2>3. ASSUME NEW i \in 1 .. n
        PROVE  Kinds(c, i, s[i])
    <3>1. i = 1 \/ i = 2 \/ i = 3 \/ i = 4 \/ i = 5 \/ i = 6 \/ i = 7 \/ i = 8 \/ i = 9
      BY <2>1
    <3> HIDE DEF s
    <3>2. CASE i = 1
      BY <1>4, <2>2, <3>2 DEF Kinds, CallAt, GetAt, AwaitAt
    <3>3. CASE i = 2
      BY <1>4, <2>2, <3>3 DEF Kinds, CallAt, GetAt, AwaitAt
    <3>4. CASE i = 3
      BY <1>4, <2>2, <3>4 DEF Kinds, CallAt, GetAt, AwaitAt
    <3>5. CASE i = 4
      BY <1>4, <2>2, <3>5 DEF Kinds, CallAt, GetAt, AwaitAt
    <3>6. CASE i = 5
      BY <1>4, <2>2, <3>6 DEF Kinds, CallAt, GetAt, AwaitAt
    <3>7. CASE i = 6
      BY <1>4, <2>2, <3>7 DEF Kinds, CallAt, GetAt, AwaitAt
    <3>8. CASE i = 7
      BY <1>4, <2>2, <3>8 DEF Kinds, CallAt, GetAt, AwaitAt
    <3>9. CASE i = 8
      BY <1>4, <2>2, <3>9 DEF Kinds, CallAt, GetAt, AwaitAt
    <3>10. CASE i = 9
      BY <1>4, <2>2, <3>10 DEF Kinds, CallAt, GetAt, AwaitAt
    <3> QED BY <3>1, <3>2, <3>3, <3>4, <3>5, <3>6, <3>7, <3>8, <3>9, <3>10
  <2> QED BY <2>1, <2>3
<1>5. CASE c = Unknown
  <2> DEFINE s == Suite[c].script
  <2>1. PICK n \in Nat \ {0} : n = 7 /\ n = Len(s)
    BY <1>5, ScriptUnknown
  <2>2. /\ s[1] = Setup("createMediaKeys")
        /\ s[2] = Get("unknownGenerate", TRUE)
        /\ s[3] = Get("unknownUpdate", TRUE)
        /\ s[4] = Get("unknownClose", TRUE)
        /\ s[5] = Get("unknownRemove", TRUE)
        /\ s[6] = Get("unknownContains", FALSE)
        /\ s[7] = Always("destroyMediaKeys")
    BY <1>5, ScriptUnknown
  <2>3. ASSUME NEW i \in 1 .. n
        PROVE  Kinds(c, i, s[i])
    <3>1. i = 1 \/ i = 2 \/ i = 3 \/ i = 4 \/ i = 5 \/ i = 6 \/ i = 7
      BY <2>1
    <3> HIDE DEF s
    <3>2. CASE i = 1
      BY <1>5, <2>2, <3>2 DEF Kinds, CallAt, GetAt, AwaitAt
    <3>3. CASE i = 2
      BY <1>5, <2>2, <3>3 DEF Kinds, CallAt, GetAt, AwaitAt
    <3>4. CASE i = 3
      BY <1>5, <2>2, <3>4 DEF Kinds, CallAt, GetAt, AwaitAt
    <3>5. CASE i = 4
      BY <1>5, <2>2, <3>5 DEF Kinds, CallAt, GetAt, AwaitAt
    <3>6. CASE i = 5
      BY <1>5, <2>2, <3>6 DEF Kinds, CallAt, GetAt, AwaitAt
    <3>7. CASE i = 6
      BY <1>5, <2>2, <3>7 DEF Kinds, CallAt, GetAt, AwaitAt
    <3>8. CASE i = 7
      BY <1>5, <2>2, <3>8 DEF Kinds, CallAt, GetAt, AwaitAt
    <3> QED BY <3>1, <3>2, <3>3, <3>4, <3>5, <3>6, <3>7, <3>8
  <2> QED BY <2>1, <2>3
<1>6. CASE c = Maintaining
  <2> DEFINE s == Suite[c].script
  <2>1. PICK n \in Nat \ {0} : n = 10 /\ n = Len(s)
    BY <1>6, ScriptMaintaining
  <2>2. /\ s[1] = Setup("createMediaKeys")
        /\ s[2] = Call("createKeySession")
        /\ s[3] = Call("generateRequest")
        /\ s[4] = Reach("licenseRequest")
        /\ s[5] = Call("getDrmTime")
        /\ s[6] = Call("getCdmKeySessionId")
        /\ s[7] = Get("cdmId", TRUE)
        /\ s[8] = Plain("queryStores")
        /\ s[9] = Plain("closeKeySession")
        /\ s[10] = Always("destroyMediaKeys")
    BY <1>6, ScriptMaintaining
  <2>3. ASSUME NEW i \in 1 .. n
        PROVE  Kinds(c, i, s[i])
    <3>1. i = 1 \/ i = 2 \/ i = 3 \/ i = 4 \/ i = 5 \/ i = 6 \/ i = 7 \/ i = 8 \/
                i = 9 \/ i = 10
      BY <2>1
    <3> HIDE DEF s
    <3>2. CASE i = 1
      BY <1>6, <2>2, <3>2 DEF Kinds, CallAt, GetAt, AwaitAt
    <3>3. CASE i = 2
      BY <1>6, <2>2, <3>3 DEF Kinds, CallAt, GetAt, AwaitAt
    <3>4. CASE i = 3
      BY <1>6, <2>2, <3>4 DEF Kinds, CallAt, GetAt, AwaitAt
    <3>5. CASE i = 4
      BY <1>6, <2>2, <3>5 DEF Kinds, CallAt, GetAt, AwaitAt
    <3>6. CASE i = 5
      BY <1>6, <2>2, <3>6 DEF Kinds, CallAt, GetAt, AwaitAt
    <3>7. CASE i = 6
      BY <1>6, <2>2, <3>7 DEF Kinds, CallAt, GetAt, AwaitAt
    <3>8. CASE i = 7
      BY <1>6, <2>2, <3>8 DEF Kinds, CallAt, GetAt, AwaitAt
    <3>9. CASE i = 8
      BY <1>6, <2>2, <3>9 DEF Kinds, CallAt, GetAt, AwaitAt
    <3>10. CASE i = 9
      BY <1>6, <2>2, <3>10 DEF Kinds, CallAt, GetAt, AwaitAt
    <3>11. CASE i = 10
      BY <1>6, <2>2, <3>11 DEF Kinds, CallAt, GetAt, AwaitAt
    <3> QED BY <3>1, <3>2, <3>3, <3>4, <3>5, <3>6, <3>7, <3>8, <3>9, <3>10, <3>11
  <2> QED BY <2>1, <2>3
<1>7. CASE c = Selecting
  <2> DEFINE s == Suite[c].script
  <2>1. PICK n \in Nat \ {0} : n = 9 /\ n = Len(s)
    BY <1>7, ScriptSelecting
  <2>2. /\ s[1] = Setup("createMediaKeys")
        /\ s[2] = Call("createKeySession")
        /\ s[3] = Call("generateRequest")
        /\ s[4] = Reach("licenseRequest")
        /\ s[5] = Call("updateSession")
        /\ s[6] = Reach("keyStatuses")
        /\ s[7] = Get("recognised", TRUE)
        /\ s[8] = Plain("closeKeySession")
        /\ s[9] = Always("destroyMediaKeys")
    BY <1>7, ScriptSelecting
  <2>3. ASSUME NEW i \in 1 .. n
        PROVE  Kinds(c, i, s[i])
    <3>1. i = 1 \/ i = 2 \/ i = 3 \/ i = 4 \/ i = 5 \/ i = 6 \/ i = 7 \/ i = 8 \/ i = 9
      BY <2>1
    <3> HIDE DEF s
    <3>2. CASE i = 1
      BY <1>7, <2>2, <3>2 DEF Kinds, CallAt, GetAt, AwaitAt
    <3>3. CASE i = 2
      BY <1>7, <2>2, <3>3 DEF Kinds, CallAt, GetAt, AwaitAt
    <3>4. CASE i = 3
      BY <1>7, <2>2, <3>4 DEF Kinds, CallAt, GetAt, AwaitAt
    <3>5. CASE i = 4
      BY <1>7, <2>2, <3>5 DEF Kinds, CallAt, GetAt, AwaitAt
    <3>6. CASE i = 5
      BY <1>7, <2>2, <3>6 DEF Kinds, CallAt, GetAt, AwaitAt
    <3>7. CASE i = 6
      BY <1>7, <2>2, <3>7 DEF Kinds, CallAt, GetAt, AwaitAt
    <3>8. CASE i = 7
      BY <1>7, <2>2, <3>8 DEF Kinds, CallAt, GetAt, AwaitAt
    <3>9. CASE i = 8
      BY <1>7, <2>2, <3>9 DEF Kinds, CallAt, GetAt, AwaitAt
    <3>10. CASE i = 9
      BY <1>7, <2>2, <3>10 DEF Kinds, CallAt, GetAt, AwaitAt
    <3> QED BY <3>1, <3>2, <3>3, <3>4, <3>5, <3>6, <3>7, <3>8, <3>9, <3>10
  <2> QED BY <2>1, <2>3
<1>8. CASE c = Weak
  <2> DEFINE s == Suite[c].script
  <2>1. PICK n \in Nat \ {0} : n = 7 /\ n = Len(s)
    BY <1>8, ScriptWeak
  <2>2. /\ s[1] = Setup("createMediaKeys")
        /\ s[2] = Call("createKeySession")
        /\ s[3] = Plain("dropClient")
        /\ s[4] = Get("expired", TRUE)
        /\ s[5] = Call("generateRequest")
        /\ s[6] = Call("closeKeySession")
        /\ s[7] = Always("destroyMediaKeys")
    BY <1>8, ScriptWeak
  <2>3. ASSUME NEW i \in 1 .. n
        PROVE  Kinds(c, i, s[i])
    <3>1. i = 1 \/ i = 2 \/ i = 3 \/ i = 4 \/ i = 5 \/ i = 6 \/ i = 7
      BY <2>1
    <3> HIDE DEF s
    <3>2. CASE i = 1
      BY <1>8, <2>2, <3>2 DEF Kinds, CallAt, GetAt, AwaitAt
    <3>3. CASE i = 2
      BY <1>8, <2>2, <3>3 DEF Kinds, CallAt, GetAt, AwaitAt
    <3>4. CASE i = 3
      BY <1>8, <2>2, <3>4 DEF Kinds, CallAt, GetAt, AwaitAt
    <3>5. CASE i = 4
      BY <1>8, <2>2, <3>5 DEF Kinds, CallAt, GetAt, AwaitAt
    <3>6. CASE i = 5
      BY <1>8, <2>2, <3>6 DEF Kinds, CallAt, GetAt, AwaitAt
    <3>7. CASE i = 6
      BY <1>8, <2>2, <3>7 DEF Kinds, CallAt, GetAt, AwaitAt
    <3>8. CASE i = 7
      BY <1>8, <2>2, <3>8 DEF Kinds, CallAt, GetAt, AwaitAt
    <3> QED BY <3>1, <3>2, <3>3, <3>4, <3>5, <3>6, <3>7, <3>8
  <2> QED BY <2>1, <2>3
<1> QED BY <1>1, <1>2, <1>3, <1>4, <1>5, <1>6, <1>7, <1>8 DEF Suite

\* CreateKeySessionWritesValidId guards against all it is there to catch.
LEMMA GuardCreating ==
  ASSUME NEW f \in Suite[Creating].catches
  PROVE  Guarded(Creating, f) /\ (f = Ignores("weak") => Creating = Weak)
<1> DEFINE s == Suite[Creating].script
<1>1. /\ 5 = Len(s)
      /\ s[1] = Setup("createMediaKeys") /\ s[2] = Call("createKeySession")
      /\ s[3] = Get("validId", TRUE)
  BY ScriptCreating
<1>2. Suite[Creating] = CreateKeySessionWritesValidId
  BY Zenon DEF Suite, Creating
<1>3. \A script, caught : Case(script, caught).catches = caught
  BY DEF Case
<1>4. f \in {Refuses("createMediaKeys"), Refuses("createKeySession"), Misanswers("validId")}
  BY <1>2, <1>3 DEF CreateKeySessionWritesValidId, OnSession
<1>5. \A i \in 1 .. 5 : Traps(Creating, f, i) => Guarded(Creating, f)
  BY <1>1 DEF Guarded
<1> HIDE DEF s
<1>6. f = Refuses("createMediaKeys") => Traps(Creating, f, 1)
  BY <1>1 DEF Traps, Setup, Step, s
<1>7. f = Refuses("createKeySession") => Traps(Creating, f, 2)
  BY <1>1 DEF Traps, Call, Step, s
<1>8. f = Misanswers("validId") => Traps(Creating, f, 3)
  BY <1>1 DEF Traps, Get, Step, s
<1>9. f # Ignores("weak")
  BY <1>4 DEF Ignores, Refuses, Misanswers, Silences, Fault
<1> QED BY <1>4, <1>5, <1>6, <1>7, <1>8, <1>9

\* GenerateRequestDeliversLicenseRequest guards against all it is there to catch.
LEMMA GuardGenerating ==
  ASSUME NEW f \in Suite[Generating].catches
  PROVE  Guarded(Generating, f) /\ (f = Ignores("weak") => Generating = Weak)
<1> DEFINE s == Suite[Generating].script
<1>1. /\ 8 = Len(s)
      /\ s[1] = Setup("createMediaKeys") /\ s[2] = Call("createKeySession")
      /\ s[3] = Call("generateRequest") /\ s[4] = Reach("licenseRequest")
      /\ s[5] = Get("requestId", TRUE) /\ s[6] = Get("namesKid", TRUE)
  BY ScriptGenerating
<1>2. Suite[Generating] = GenerateRequestDeliversLicenseRequest
  BY Zenon DEF Suite, Generating
<1>3. \A script, caught : Case(script, caught).catches = caught
  BY DEF Case
<1>4. f \in {Refuses("createMediaKeys"), Refuses("createKeySession"),
             Refuses("generateRequest"), Silences("licenseRequest"), Misanswers("requestId"),
             Misanswers("namesKid")}
  BY <1>2, <1>3 DEF GenerateRequestDeliversLicenseRequest, OnSession, Unrequested
<1>5. \A i \in 1 .. 8 : Traps(Generating, f, i) => Guarded(Generating, f)
  BY <1>1 DEF Guarded
<1> HIDE DEF s
<1>6. f = Refuses("createMediaKeys") => Traps(Generating, f, 1)
  BY <1>1 DEF Traps, Setup, Step, s
<1>7. f = Refuses("createKeySession") => Traps(Generating, f, 2)
  BY <1>1 DEF Traps, Call, Step, s
<1>8. f = Refuses("generateRequest") => Traps(Generating, f, 3)
  BY <1>1 DEF Traps, Call, Step, s
<1>9. f = Silences("licenseRequest") => Traps(Generating, f, 4)
  BY <1>1 DEF Traps, Reach, Step, s
<1>10. f = Misanswers("requestId") => Traps(Generating, f, 5)
  BY <1>1 DEF Traps, Get, Step, s
<1>11. f = Misanswers("namesKid") => Traps(Generating, f, 6)
  BY <1>1 DEF Traps, Get, Step, s
<1>12. f # Ignores("weak")
  BY <1>4 DEF Ignores, Refuses, Misanswers, Silences, Fault
<1> QED BY <1>4, <1>5, <1>6, <1>7, <1>8, <1>9, <1>10, <1>11, <1>12

\* UpdateSessionSurfacesUsableKeyStatus guards against all it is there to catch.
LEMMA GuardSurfacing ==
  ASSUME NEW f \in Suite[Surfacing].catches
  PROVE  Guarded(Surfacing, f) /\ (f = Ignores("weak") => Surfacing = Weak)
<1> DEFINE s == Suite[Surfacing].script
<1>1. /\ 13 = Len(s)
      /\ s[1] = Setup("createMediaKeys") /\ s[2] = Call("createKeySession")
      /\ s[3] = Call("generateRequest") /\ s[4] = Reach("licenseRequest")
      /\ s[5] = Call("updateSession") /\ s[6] = Reach("keyStatuses")
      /\ s[7] = Get("statusesId", TRUE) /\ s[8] = Require("anyStatus", TRUE)
      /\ s[9] = Get("usableKid", TRUE) /\ s[10] = Get("containsKey", TRUE)
      /\ s[11] = Get("containsOtherKey", FALSE)
  BY ScriptSurfacing
<1>2. Suite[Surfacing] = UpdateSessionSurfacesUsableKeyStatus
  BY Zenon DEF Suite, Surfacing
<1>3. \A script, caught : Case(script, caught).catches = caught
  BY DEF Case
<1>4. f \in {Refuses("createMediaKeys"), Refuses("createKeySession"),
             Refuses("generateRequest"), Silences("licenseRequest"), Refuses("updateSession"),
             Silences("keyStatuses"), Misanswers("statusesId"), Misanswers("anyStatus"),
             Misanswers("usableKid"), Misanswers("containsKey"), Misanswers("containsOtherKey")}
  BY <1>2, <1>3 DEF UpdateSessionSurfacesUsableKeyStatus, OnSession, Unrequested
<1>5. \A i \in 1 .. 13 : Traps(Surfacing, f, i) => Guarded(Surfacing, f)
  BY <1>1 DEF Guarded
<1> HIDE DEF s
<1>6. f = Refuses("createMediaKeys") => Traps(Surfacing, f, 1)
  BY <1>1 DEF Traps, Setup, Step, s
<1>7. f = Refuses("createKeySession") => Traps(Surfacing, f, 2)
  BY <1>1 DEF Traps, Call, Step, s
<1>8. f = Refuses("generateRequest") => Traps(Surfacing, f, 3)
  BY <1>1 DEF Traps, Call, Step, s
<1>9. f = Silences("licenseRequest") => Traps(Surfacing, f, 4)
  BY <1>1 DEF Traps, Reach, Step, s
<1>10. f = Refuses("updateSession") => Traps(Surfacing, f, 5)
  BY <1>1 DEF Traps, Call, Step, s
<1>11. f = Silences("keyStatuses") => Traps(Surfacing, f, 6)
  BY <1>1 DEF Traps, Reach, Step, s
<1>12. f = Misanswers("statusesId") => Traps(Surfacing, f, 7)
  BY <1>1 DEF Traps, Get, Step, s
<1>13. f = Misanswers("anyStatus") => Traps(Surfacing, f, 8)
  BY <1>1 DEF Traps, Require, Step, s
<1>14. f = Misanswers("usableKid") => Traps(Surfacing, f, 9)
  BY <1>1 DEF Traps, Get, Step, s
<1>15. f = Misanswers("containsKey") => Traps(Surfacing, f, 10)
  BY <1>1 DEF Traps, Get, Step, s
<1>16. f = Misanswers("containsOtherKey") => Traps(Surfacing, f, 11)
  BY <1>1 DEF Traps, Get, Step, s
<1>17. f # Ignores("weak")
  BY <1>4 DEF Ignores, Refuses, Misanswers, Silences, Fault
<1> QED BY <1>4, <1>5, <1>6, <1>7, <1>8, <1>9, <1>10, <1>11, <1>12, <1>13, <1>14, <1>15, <1>16,
           <1>17

\* SessionTeardownReturnsOk guards against all it is there to catch.
LEMMA GuardTeardown ==
  ASSUME NEW f \in Suite[Teardown].catches
  PROVE  Guarded(Teardown, f) /\ (f = Ignores("weak") => Teardown = Weak)
<1> DEFINE s == Suite[Teardown].script
<1>1. /\ 9 = Len(s)
      /\ s[1] = Setup("createMediaKeys") /\ s[2] = Call("createKeySession")
      /\ s[3] = Call("generateRequest") /\ s[4] = Reach("licenseRequest")
      /\ s[5] = Call("updateSession") /\ s[6] = Call("removeKeySession")
      /\ s[7] = Call("closeKeySession") /\ s[8] = Call("releaseKeySession")
  BY ScriptTeardown
<1>2. Suite[Teardown] = SessionTeardownReturnsOk
  BY Zenon DEF Suite, Teardown
<1>3. \A script, caught : Case(script, caught).catches = caught
  BY DEF Case
<1>4. f \in {Refuses("createMediaKeys"), Refuses("createKeySession"),
             Refuses("generateRequest"), Silences("licenseRequest"), Refuses("updateSession"),
             Refuses("removeKeySession"), Refuses("closeKeySession"),
             Refuses("releaseKeySession")}
  BY <1>2, <1>3 DEF SessionTeardownReturnsOk, OnSession, Unrequested
<1>5. \A i \in 1 .. 9 : Traps(Teardown, f, i) => Guarded(Teardown, f)
  BY <1>1 DEF Guarded
<1> HIDE DEF s
<1>6. f = Refuses("createMediaKeys") => Traps(Teardown, f, 1)
  BY <1>1 DEF Traps, Setup, Step, s
<1>7. f = Refuses("createKeySession") => Traps(Teardown, f, 2)
  BY <1>1 DEF Traps, Call, Step, s
<1>8. f = Refuses("generateRequest") => Traps(Teardown, f, 3)
  BY <1>1 DEF Traps, Call, Step, s
<1>9. f = Silences("licenseRequest") => Traps(Teardown, f, 4)
  BY <1>1 DEF Traps, Reach, Step, s
<1>10. f = Refuses("updateSession") => Traps(Teardown, f, 5)
  BY <1>1 DEF Traps, Call, Step, s
<1>11. f = Refuses("removeKeySession") => Traps(Teardown, f, 6)
  BY <1>1 DEF Traps, Call, Step, s
<1>12. f = Refuses("closeKeySession") => Traps(Teardown, f, 7)
  BY <1>1 DEF Traps, Call, Step, s
<1>13. f = Refuses("releaseKeySession") => Traps(Teardown, f, 8)
  BY <1>1 DEF Traps, Call, Step, s
<1>14. f # Ignores("weak")
  BY <1>4 DEF Ignores, Refuses, Misanswers, Silences, Fault
<1> QED BY <1>4, <1>5, <1>6, <1>7, <1>8, <1>9, <1>10, <1>11, <1>12, <1>13, <1>14

\* UnknownSessionIdReturnsBadSessionId guards against all it is there to catch.
LEMMA GuardUnknown ==
  ASSUME NEW f \in Suite[Unknown].catches
  PROVE  Guarded(Unknown, f) /\ (f = Ignores("weak") => Unknown = Weak)
<1> DEFINE s == Suite[Unknown].script
<1>1. /\ 7 = Len(s)
      /\ s[1] = Setup("createMediaKeys") /\ s[2] = Get("unknownGenerate", TRUE)
      /\ s[3] = Get("unknownUpdate", TRUE) /\ s[4] = Get("unknownClose", TRUE)
      /\ s[5] = Get("unknownRemove", TRUE) /\ s[6] = Get("unknownContains", FALSE)
  BY ScriptUnknown
<1>2. Suite[Unknown] = UnknownSessionIdReturnsBadSessionId
  BY Zenon DEF Suite, Unknown
<1>3. \A script, caught : Case(script, caught).catches = caught
  BY DEF Case
<1>4. f \in {Refuses("createMediaKeys"), Misanswers("unknownGenerate"),
             Misanswers("unknownUpdate"), Misanswers("unknownClose"),
             Misanswers("unknownRemove"), Misanswers("unknownContains")}
  BY <1>2, <1>3 DEF UnknownSessionIdReturnsBadSessionId
<1>5. \A i \in 1 .. 7 : Traps(Unknown, f, i) => Guarded(Unknown, f)
  BY <1>1 DEF Guarded
<1> HIDE DEF s
<1>6. f = Refuses("createMediaKeys") => Traps(Unknown, f, 1)
  BY <1>1 DEF Traps, Setup, Step, s
<1>7. f = Misanswers("unknownGenerate") => Traps(Unknown, f, 2)
  BY <1>1 DEF Traps, Get, Step, s
<1>8. f = Misanswers("unknownUpdate") => Traps(Unknown, f, 3)
  BY <1>1 DEF Traps, Get, Step, s
<1>9. f = Misanswers("unknownClose") => Traps(Unknown, f, 4)
  BY <1>1 DEF Traps, Get, Step, s
<1>10. f = Misanswers("unknownRemove") => Traps(Unknown, f, 5)
  BY <1>1 DEF Traps, Get, Step, s
<1>11. f = Misanswers("unknownContains") => Traps(Unknown, f, 6)
  BY <1>1 DEF Traps, Get, Step, s
<1>12. f # Ignores("weak")
  BY <1>4 DEF Ignores, Refuses, Misanswers, Silences, Fault
<1> QED BY <1>4, <1>5, <1>6, <1>7, <1>8, <1>9, <1>10, <1>11, <1>12

\* StoreAndMaintenanceQueriesAnswer guards against all it is there to catch.
LEMMA GuardMaintaining ==
  ASSUME NEW f \in Suite[Maintaining].catches
  PROVE  Guarded(Maintaining, f) /\ (f = Ignores("weak") => Maintaining = Weak)
<1> DEFINE s == Suite[Maintaining].script
<1>1. /\ 10 = Len(s)
      /\ s[1] = Setup("createMediaKeys") /\ s[2] = Call("createKeySession")
      /\ s[3] = Call("generateRequest") /\ s[4] = Reach("licenseRequest")
      /\ s[5] = Call("getDrmTime") /\ s[6] = Call("getCdmKeySessionId")
      /\ s[7] = Get("cdmId", TRUE)
  BY ScriptMaintaining
<1>2. Suite[Maintaining] = StoreAndMaintenanceQueriesAnswer
  BY Zenon DEF Suite, Maintaining
<1>3. \A script, caught : Case(script, caught).catches = caught
  BY DEF Case
<1>4. f \in {Refuses("createMediaKeys"), Refuses("createKeySession"),
             Refuses("generateRequest"), Silences("licenseRequest"), Refuses("getDrmTime"),
             Refuses("getCdmKeySessionId"), Misanswers("cdmId")}
  BY <1>2, <1>3 DEF StoreAndMaintenanceQueriesAnswer, OnSession, Unrequested
<1>5. \A i \in 1 .. 10 : Traps(Maintaining, f, i) => Guarded(Maintaining, f)
  BY <1>1 DEF Guarded
<1> HIDE DEF s
<1>6. f = Refuses("createMediaKeys") => Traps(Maintaining, f, 1)
  BY <1>1 DEF Traps, Setup, Step, s
<1>7. f = Refuses("createKeySession") => Traps(Maintaining, f, 2)
  BY <1>1 DEF Traps, Call, Step, s
<1>8. f = Refuses("generateRequest") => Traps(Maintaining, f, 3)
  BY <1>1 DEF Traps, Call, Step, s
<1>9. f = Silences("licenseRequest") => Traps(Maintaining, f, 4)
  BY <1>1 DEF Traps, Reach, Step, s
<1>10. f = Refuses("getDrmTime") => Traps(Maintaining, f, 5)
  BY <1>1 DEF Traps, Call, Step, s
<1>11. f = Refuses("getCdmKeySessionId") => Traps(Maintaining, f, 6)
  BY <1>1 DEF Traps, Call, Step, s
<1>12. f = Misanswers("cdmId") => Traps(Maintaining, f, 7)
  BY <1>1 DEF Traps, Get, Step, s
<1>13. f # Ignores("weak")
  BY <1>4 DEF Ignores, Refuses, Misanswers, Silences, Fault
<1> QED BY <1>4, <1>5, <1>6, <1>7, <1>8, <1>9, <1>10, <1>11, <1>12, <1>13

\* SelectKeyIdAnswersForValidSession guards against all it is there to catch.
LEMMA GuardSelecting ==
  ASSUME NEW f \in Suite[Selecting].catches
  PROVE  Guarded(Selecting, f) /\ (f = Ignores("weak") => Selecting = Weak)
<1> DEFINE s == Suite[Selecting].script
<1>1. /\ 9 = Len(s)
      /\ s[1] = Setup("createMediaKeys") /\ s[2] = Call("createKeySession")
      /\ s[3] = Call("generateRequest") /\ s[4] = Reach("licenseRequest")
      /\ s[5] = Call("updateSession") /\ s[6] = Reach("keyStatuses")
      /\ s[7] = Get("recognised", TRUE)
  BY ScriptSelecting
<1>2. Suite[Selecting] = SelectKeyIdAnswersForValidSession
  BY Zenon DEF Suite, Selecting
<1>3. \A script, caught : Case(script, caught).catches = caught
  BY DEF Case
<1>4. f \in {Refuses("createMediaKeys"), Refuses("createKeySession"),
             Refuses("generateRequest"), Silences("licenseRequest"), Refuses("updateSession"),
             Silences("keyStatuses"), Misanswers("recognised")}
  BY <1>2, <1>3 DEF SelectKeyIdAnswersForValidSession, OnSession, Unrequested
<1>5. \A i \in 1 .. 9 : Traps(Selecting, f, i) => Guarded(Selecting, f)
  BY <1>1 DEF Guarded
<1> HIDE DEF s
<1>6. f = Refuses("createMediaKeys") => Traps(Selecting, f, 1)
  BY <1>1 DEF Traps, Setup, Step, s
<1>7. f = Refuses("createKeySession") => Traps(Selecting, f, 2)
  BY <1>1 DEF Traps, Call, Step, s
<1>8. f = Refuses("generateRequest") => Traps(Selecting, f, 3)
  BY <1>1 DEF Traps, Call, Step, s
<1>9. f = Silences("licenseRequest") => Traps(Selecting, f, 4)
  BY <1>1 DEF Traps, Reach, Step, s
<1>10. f = Refuses("updateSession") => Traps(Selecting, f, 5)
  BY <1>1 DEF Traps, Call, Step, s
<1>11. f = Silences("keyStatuses") => Traps(Selecting, f, 6)
  BY <1>1 DEF Traps, Reach, Step, s
<1>12. f = Misanswers("recognised") => Traps(Selecting, f, 7)
  BY <1>1 DEF Traps, Get, Step, s
<1>13. f # Ignores("weak")
  BY <1>4 DEF Ignores, Refuses, Misanswers, Silences, Fault
<1> QED BY <1>4, <1>5, <1>6, <1>7, <1>8, <1>9, <1>10, <1>11, <1>12, <1>13

\* ClientHeldWeaklyAndReleasable guards against all it is there to catch.
LEMMA GuardWeak ==
  ASSUME NEW f \in Suite[Weak].catches
  PROVE  Guarded(Weak, f) /\ (f = Ignores("weak") => Weak = Weak)
<1> DEFINE s == Suite[Weak].script
<1>1. /\ 7 = Len(s)
      /\ s[1] = Setup("createMediaKeys") /\ s[2] = Call("createKeySession")
      /\ s[4] = Get("expired", TRUE) /\ s[5] = Call("generateRequest")
      /\ s[6] = Call("closeKeySession")
  BY ScriptWeak
<1>2. Suite[Weak] = ClientHeldWeaklyAndReleasable
  BY Zenon DEF Suite, Weak
<1>3. \A script, caught : Case(script, caught).catches = caught
  BY DEF Case
<1>4. f \in {Refuses("createMediaKeys"), Refuses("createKeySession"), Ignores("weak"),
             Refuses("generateRequest"), Refuses("closeKeySession")}
  BY <1>2, <1>3 DEF ClientHeldWeaklyAndReleasable, OnSession
<1>5. \A i \in 1 .. 7 : Traps(Weak, f, i) => Guarded(Weak, f)
  BY <1>1 DEF Guarded
<1> HIDE DEF s
<1>6. f = Refuses("createMediaKeys") => Traps(Weak, f, 1)
  BY <1>1 DEF Traps, Setup, Step, s
<1>7. f = Refuses("createKeySession") => Traps(Weak, f, 2)
  BY <1>1 DEF Traps, Call, Step, s
<1>8. f = Ignores("weak") => Traps(Weak, f, 4)
  BY <1>1 DEF Traps, Get, Step, s
<1>9. f = Refuses("generateRequest") => Traps(Weak, f, 5)
  BY <1>1 DEF Traps, Call, Step, s
<1>10. f = Refuses("closeKeySession") => Traps(Weak, f, 6)
  BY <1>1 DEF Traps, Call, Step, s
<1> QED BY <1>4, <1>5, <1>6, <1>7, <1>8, <1>9, <1>10

\* So does every case.
LEMMA AllGuarded ==
  ASSUME NEW c \in DOMAIN Suite, NEW f \in Suite[c].catches
  PROVE  Guarded(c, f) /\ (f = Ignores("weak") => c = Weak)
<1>1. c \in {Creating, Generating, Surfacing, Teardown, Unknown,
             Maintaining, Selecting, Weak}
  BY DEF Suite, Creating, Generating, Surfacing, Teardown, Unknown, Maintaining, Selecting,
             Weak
<1> QED BY <1>1, GuardCreating, GuardGenerating, GuardSurfacing,
           GuardTeardown, GuardUnknown, GuardMaintaining, GuardSelecting, GuardWeak

-----------------------------------------------------------------------------
(***************************************************************************)
(* What the backend does with the one session and the one key.             *)
(***************************************************************************)

\* The key ids of the cases.
LEMMA KidFacts ==
  /\ Kid \in Seq(Nat) /\ Len(Kid) = 16 /\ Kid # << >> /\ Kid # OtherKid
  /\ OtherKid \in Seq(Nat) /\ OtherKid # << >>
<1>1. Kid \in Seq(Nat) /\ OtherKid \in Seq(Nat) /\ Len(Kid) = 16 /\ Len(OtherKid) = 16
  BY DEF Kid, OtherKid
<1>2. Kid[1] = 48 /\ OtherKid[1] = 153
  BY DEF Kid, OtherKid
<1> QED BY <1>1, <1>2

\* Joining two steps.
LEMMA JoinTwo ==
  ASSUME NEW x1, NEW x2
  PROVE  <<x1>> \o <<x2>> = <<x1, x2>>
<1> DEFINE S == {x1, x2}
           left == <<x1>> \o <<x2>>
           right == <<x1, x2>>
<1>1. /\ x1 \in S /\ x2 \in S
  OBVIOUS
<1> HIDE DEF S
<1>2. left \in Seq(S) /\ right \in Seq(S)
  BY <1>1
<1>3. 2 = Len(left) /\ 2 = Len(right)
  BY <1>1
<1>4. \A i \in 1 .. 2 : left[i] = right[i]
  BY <1>1
<1> QED BY <1>2, <1>3, <1>4, SeqEqual

\* A licence for it is stored whole, and announced by two callbacks.
LEMMA LicenceDoes ==
  /\ Backend!Decodes(<<Kid>>)
  /\ Backend!Stored(<<Kid>>) = {Kid}
  /\ Backend!Narrowed(Kid) = Kid
  /\ Backend!Notices(Session, <<Kid>>)
       = <<Backend!KeyUpdate(Session, Kid), Backend!KeysUpdated(Session)>>
<1>1. Kid # Garbled
  BY TextsAssumption
<1> DEFINE L == <<Kid>>
<1>2. 1 = Len(L) /\ DOMAIN L = {1} /\ L[1] = Kid
  OBVIOUS
<1>3. Backend!Decodes(L)
  BY <1>1, <1>2 DEF Backend!Decodes, Backend!Range
<1>4. Backend!Stored(L) = {Kid}
  <2>1. {i \in DOMAIN L : \A j \in 1 .. i : L[j] # Garbled} = {1}
    BY <1>1, <1>2
  <2> HIDE DEF L
  <2>2. Backend!Stored(L) = {L[i] : i \in {i \in DOMAIN L : \A j \in 1 .. i : L[j] # Garbled}}
    BY DEF Backend!Stored
  <2> QED BY <1>2, <2>1, <2>2
<1>5. Backend!Narrowed(Kid) = Kid
  <2>1. Len(Kid) % 256 = 16
    BY KidFacts
  <2>2. Backend!Narrowed(Kid) = SubSeq(Kid, 1, 16)
    BY <2>1, Zenon DEF Backend!Narrowed
  <2> QED BY <2>2, KidFacts, SubSeqFull
<1>6. Backend!Updates(Session, L) = <<Backend!KeyUpdate(Session, Kid)>>
  <2> DEFINE update == Backend!KeyUpdate(Session, Kid)
  <2>1. Backend!Updates(Session, L)
          = [i \in {1} |-> Backend!KeyUpdate(Session, Backend!Narrowed(L[i]))]
    BY <1>2, Zenon DEF Backend!Updates
  <2>2. Backend!Updates(Session, L) = [i \in {1} |-> update]
    BY <1>2, <1>5, <2>1
  <2> HIDE DEF update
  <2>3. [i \in {1} |-> update] = <<update>>
    OBVIOUS
  <2> QED BY <2>2, <2>3 DEF update
<1>7. Backend!Notices(Session, L)
        = <<Backend!KeyUpdate(Session, Kid)>> \o <<Backend!KeysUpdated(Session)>>
  BY <1>3, <1>6, Zenon DEF Backend!Notices
<1> QED BY <1>3, <1>4, <1>5, <1>7, JoinTwo

\* Constructing the session sends the licence request.
LEMMA ConstructAsks ==
  ASSUME TypesInv, Fresh, Backend!ConstructSession(Session, RequestedIds),
         received' = received
  PROVE  Asked'
<1>1. RequestedIds = {Kid}
  BY TextsAssumption
<1>2. /\ state' = [state EXCEPT ![Session] = "open"] /\ held' = held /\ gathered' = gathered
      /\ tasks' = Append(tasks, Backend!Challenge(Session, {Kid}))
  BY <1>1 DEF Backend!ConstructSession, Backend!client, Backend!history
<1>3. Append(<< >>, Backend!Challenge(Session, {Kid})) = <<Backend!Challenge(Session, {Kid})>>
  OBVIOUS
<1>4. /\ state'[Session] = "open" /\ held'[Session] = {} /\ gathered'[Session] = {}
      /\ received' = {}
  BY <1>2 DEF TypesInv, Fresh, Quiet
<1>5. tasks' = <<Backend!Challenge(Session, {Kid})>>
  BY <1>2, <1>3, Zenon DEF Fresh, Quiet
<1> QED BY <1>4, <1>5 DEF Asked, Backend!Challenge

\* The licence stores and announces the key.
LEMMA UpdateAnnounces ==
  ASSUME TypesInv, Requested, Backend!SessionUpdate(Session, Licence), received' = received
  PROVE  Announced'
<1>1. Licence = <<Kid>>
  BY TextsAssumption
<1>2. /\ state' = state /\ gathered' = gathered
      /\ held' = [held EXCEPT ![Session] = held[Session] \cup {Kid}]
      /\ tasks' = tasks \o <<Backend!KeyUpdate(Session, Kid), Backend!KeysUpdated(Session)>>
  BY <1>1, LicenceDoes, Zenon DEF Backend!SessionUpdate, Backend!client
<1>3. tasks = << >> /\ state[Session] = "open" /\ held[Session] = {} /\ gathered[Session] = {}
  BY DEF Requested, Answered, Quiet
<1>4. \A x, y : << >> \o <<x, y>> = <<x, y>>
  OBVIOUS
<1>5. tasks' = <<Backend!KeyUpdate(Session, Kid), Backend!KeysUpdated(Session)>>
  BY <1>2, <1>3, <1>4, Zenon
<1>6. state'[Session] = "open" /\ held'[Session] = {Kid} /\ gathered'[Session] = {}
  BY <1>2, <1>3 DEF TypesInv
<1> QED BY <1>5, <1>6 DEF Announced, Stored, Requested, Backend!KeyUpdate, Backend!KeysUpdated

\* A queue of one or two tasks, as the wrapper takes them.
LEMMA HeadTail ==
  ASSUME NEW x, NEW y
  PROVE  /\ Head(<<x>>) = x /\ Tail(<<x>>) = << >> /\ <<x>> # << >>
         /\ Head(<<x, y>>) = x /\ Tail(<<x, y>>) = <<y>> /\ <<x, y>> # << >>
<1>1. /\ Head(<<x>>) = x /\ <<x>> # << >> /\ Head(<<x, y>>) = x /\ <<x, y>> # << >>
  OBVIOUS
<1>2. Tail(<<x>>) = << >>
  OBVIOUS
<1>3. Tail(<<x, y>>) = <<y>>
  OBVIOUS
<1> QED BY <1>1, <1>2, <1>3

\* With no task there is nothing for the wrapper to do.
LEMMA QuietRests ==
  ASSUME tasks = << >>
  PROVE  ~WrapperTask
BY DEF WrapperTask, Backend!OnLicenseRequest, Backend!OnKeyStatusesChanged, Backend!AskStatus,
       Backend!DropTask, Backend!Task

\* A task leaves the backend as it is.
LEMMA TaskKeeps ==
  ASSUME WrapperTask
  PROVE  /\ UNCHANGED <<state, held, case, fault, pc, failed, owners>>
         /\ tasks' = Tail(tasks)
BY DEF WrapperTask, Backend!OnLicenseRequest, Backend!OnKeyStatusesChanged, Backend!AskStatus,
       Backend!DropTask, Backend!Task, Backend!cdm

\* The licence request reaches the client, or is lost.
LEMMA AskedTask ==
  ASSUME TypesInv, Asked, owners # {}, WrapperTask
  PROVE  (Requested \/ Missed)'
<1> DEFINE t == Backend!Challenge(Session, {Kid})
<1>1. tasks = <<t>> /\ Head(tasks) = t /\ tasks' = << >>
  BY HeadTail, TaskKeeps DEF Asked
<1>2. t.kind = "challenge" /\ t.ids = {Kid} /\ t.session = Session
  BY DEF Backend!Challenge
<1> HIDE DEF t
<1>3. Backend!Live(Session)
  BY DEF Asked, Backend!Live
<1>4. Backend!OnLicenseRequest(Session) /\ Deliver("licenseRequest")
  BY <1>1, <1>2, <1>3 DEF WrapperTask, Backend!OnKeyStatusesChanged, Backend!AskStatus,
     Backend!DropTask
<1>5. requested' = [requested EXCEPT ![Session] = {Kid}] /\ gathered' = gathered
  BY <1>1, <1>2, <1>4 DEF Backend!OnLicenseRequest
<1>6. /\ requested'[Session] = {Kid} /\ gathered'[Session] = {} /\ state'[Session] = "open"
      /\ held'[Session] = {} /\ fault' = fault
  BY <1>5, TaskKeeps DEF TypesInv, Asked
<1>7. received' = IF fault = Silences("licenseRequest") THEN {} ELSE {"licenseRequest"}
  BY <1>4 DEF Deliver, Asked
<1> QED BY <1>1, <1>6, <1>7 DEF Requested, Missed, Answered, Quiet, Silences

\* The status of the key stored is asked for, and is usable.
LEMMA AnnouncedTask ==
  ASSUME TypesInv, Announced, WrapperTask
  PROVE  Gathered'
<1> DEFINE t == Backend!KeyUpdate(Session, Kid)
           u == Backend!KeysUpdated(Session)
<1>1. tasks = <<t, u>> /\ Head(tasks) = t /\ tasks' = <<u>>
  BY HeadTail, TaskKeeps DEF Announced
<1>2. t.kind = "update" /\ t.ids = {Kid} /\ t.session = Session
  BY DEF Backend!KeyUpdate
<1> HIDE DEF t
<1>3. Backend!Live(Session)
  BY DEF Announced, Stored, Backend!Live
<1>4. Backend!AskStatus(Session) /\ received' = received
  BY <1>1, <1>2, <1>3 DEF WrapperTask, Backend!OnKeyStatusesChanged, Backend!OnLicenseRequest,
     Backend!DropTask
<1>5. Backend!Status(Session, Kid) = "Usable"
  BY KidFacts DEF Backend!Status, Announced, Stored
<1>6. gathered' = [gathered EXCEPT ![Session] =
                     gathered[Session]
                       \cup {[id |-> id, status |-> Backend!Status(Session, id)] : id \in {Kid}}]
  BY <1>1, <1>2, <1>4 DEF Backend!AskStatus
<1>7. {[id |-> id, status |-> Backend!Status(Session, id)] : id \in {Kid}}
        = {Backend!Usable(Kid)}
  BY <1>5 DEF Backend!Usable
<1>8. gathered[Session] = {}
  BY DEF Announced
<1>9. gathered'[Session] = {Backend!Usable(Kid)}
  BY <1>6, <1>7, <1>8 DEF TypesInv
<1>10. state'[Session] = "open" /\ held'[Session] = {Kid} /\ received' = {"licenseRequest"}
  BY <1>4, TaskKeeps DEF Announced, Stored
<1> QED BY <1>1, <1>9, <1>10 DEF Gathered, Stored, Backend!KeysUpdated, Backend!Usable

\* The statuses gathered reach the client, or are lost.
LEMMA GatheredTask ==
  ASSUME TypesInv, Gathered, owners # {}, WrapperTask
  PROVE  (Told \/ Untold)'
<1> DEFINE t == Backend!KeysUpdated(Session)
<1>1. tasks = <<t>> /\ Head(tasks) = t /\ tasks' = << >>
  BY HeadTail, TaskKeeps DEF Gathered
<1>2. t.kind = "complete" /\ t.session = Session
  BY DEF Backend!KeysUpdated
<1> HIDE DEF t
<1>3. Backend!Live(Session)
  BY DEF Gathered, Stored, Backend!Live
<1>4. Backend!OnKeyStatusesChanged(Session) /\ Deliver("keyStatuses")
  BY <1>1, <1>2, <1>3 DEF WrapperTask, Backend!OnLicenseRequest, Backend!AskStatus,
     Backend!DropTask
<1>5. /\ statuses' = [statuses EXCEPT ![Session] = gathered[Session]]
      /\ gathered' = [gathered EXCEPT ![Session] = {}]
  BY <1>4 DEF Backend!OnKeyStatusesChanged
<1>6. gathered[Session] = {Backend!Usable(Kid)}
  BY DEF Gathered
<1>7. statuses'[Session] = {Backend!Usable(Kid)} /\ gathered'[Session] = {}
  BY <1>5, <1>6 DEF TypesInv
<1>8. state'[Session] = "open" /\ held'[Session] = {Kid} /\ fault' = fault
  BY TaskKeeps DEF Gathered, Stored
<1>9. received' = IF fault = Silences("keyStatuses") THEN {"licenseRequest"}
                  ELSE {"licenseRequest", "keyStatuses"}
  BY <1>4 DEF Deliver, Gathered
<1> QED BY <1>1, <1>7, <1>8, <1>9 DEF Told, Untold, Published, Stored, Quiet, Backend!Usable,
        Silences

\* The types, whatever happens.
LEMMA TypesKept ==
  ASSUME TypesInv, WrapperTask
  PROVE  TypesInv'
<1>1. case' = case /\ pc' = pc /\ state' = state /\ held' = held
  BY TaskKeeps
<1>2. \/ Backend!OnLicenseRequest(Session) \/ Backend!OnKeyStatusesChanged(Session)
      \/ Backend!AskStatus(Session) \/ Backend!DropTask(Session)
  BY DEF WrapperTask
<1>3. /\ DOMAIN gathered' = DOMAIN gathered /\ DOMAIN requested' = DOMAIN requested
      /\ DOMAIN statuses' = DOMAIN statuses
  BY <1>2 DEF Backend!OnLicenseRequest, Backend!OnKeyStatusesChanged, Backend!AskStatus,
     Backend!DropTask, Backend!client
<1> QED BY <1>1, <1>3 DEF TypesInv

\* A task takes what is under way one step further.
LEMMA TaskPhase ==
  ASSUME TypesInv, PhaseInv, HeldInv, WrapperTask
  PROVE  PhaseInv'
<1>1. UNCHANGED <<state, held, case, fault, pc, failed, owners>> /\ tasks # << >>
  BY TaskKeeps, QuietRests
<1>2. ~Fresh /\ ~Requested /\ ~Missed /\ ~Told /\ ~Untold
  BY <1>1 DEF Fresh, Requested, Missed, Answered, Told, Untold, Published, Quiet
<1>3. CASE case \in Requesting /\ pc = 4
  <2>1. Asked
    BY <1>2, <1>3 DEF PhaseInv
  <2>2. owners # {}
    BY <1>3 DEF HeldInv, Requesting, Surfacing, Selecting, Teardown, Generating,
       Maintaining, Weak
  <2>3. (Requested \/ Missed)'
    BY <2>1, <2>2, AskedTask
  <2> QED BY <1>1, <1>3, <2>3 DEF PhaseInv, Requesting, Surfacing, Selecting, Teardown,
          Generating, Maintaining, Weak, Awaiting
<1>4. CASE case \in Awaiting /\ pc = 6
  <2>1. Announced \/ Gathered
    BY <1>2, <1>4 DEF PhaseInv
  <2>2. owners # {}
    BY <1>4 DEF HeldInv, Awaiting, Surfacing, Selecting, Weak
  <2>3. (Gathered \/ Told \/ Untold)'
    BY <2>1, <2>2, AnnouncedTask, GatheredTask
  <2> QED BY <1>1, <1>4, <2>3 DEF PhaseInv, Awaiting, Surfacing, Selecting, Teardown, Weak,
          Generating
<1>5. CASE ~(case \in Requesting /\ pc = 4) /\ ~(case \in Awaiting /\ pc = 6)
  BY <1>1, <1>2, <1>5 DEF PhaseInv, Backend!Live
<1> QED BY <1>3, <1>4, <1>5

-----------------------------------------------------------------------------
(***************************************************************************)
(* The steps of a case.                                                    *)
(***************************************************************************)

\* What a step is made of.
LEMMA StepFields ==
  /\ \A what : /\ Setup(what).do = "call" /\ Setup(what).what = what
               /\ Setup(what).must = "abort"
  /\ \A what : Call(what).do = "call" /\ Call(what).what = what /\ Call(what).must = "hold"
  /\ \A what : /\ Plain(what).do = "call" /\ Plain(what).what = what
               /\ Plain(what).must = "ignored"
  /\ \A what : /\ Always(what).do = "call" /\ Always(what).what = what
               /\ Always(what).must = "always"
  /\ \A what, value : /\ Get(what, value).do = "get" /\ Get(what, value).what = what
                      /\ Get(what, value).must = "hold" /\ Get(what, value).value = value
  /\ \A what, value : /\ Require(what, value).do = "get" /\ Require(what, value).what = what
                      /\ Require(what, value).must = "abort"
                      /\ Require(what, value).value = value
  /\ \A what : /\ Reach(what).do = "await" /\ Reach(what).what = what
               /\ Reach(what).must = "abort"
BY DEF Setup, Call, Plain, Always, Get, Require, Reach, Step

\* What a step does tells which of the three it is.
LEMMA KindsOf ==
  ASSUME NEW c, NEW n, NEW step, Kinds(c, n, step)
  PROVE  /\ step.do = "call" => CallAt(c, n, step)
         /\ step.do = "get" => GetAt(c, n, step)
         /\ step.do = "await" => AwaitAt(c, n, step)
<1>1. CallAt(c, n, step) => step.do = "call"
  BY StepFields DEF CallAt
<1>2. GetAt(c, n, step) => step.do = "get"
  BY DEF GetAt, Get, Require, Step
<1>3. AwaitAt(c, n, step) => step.do = "await"
  BY DEF AwaitAt, Reach, Step
<1> QED BY <1>1, <1>2, <1>3 DEF Kinds

\* The cases, in terms of the steps that change what is under way.
LEMMA CaseKinds ==
  /\ Weak \notin Requesting /\ Unknown \notin Requesting /\ Creating \notin Requesting
  /\ Awaiting \subseteq Supplying /\ Supplying \subseteq Requesting
  /\ Teardown \notin Awaiting /\ Teardown \in Supplying /\ Generating \notin Supplying
  /\ Maintaining \notin Supplying /\ Surfacing \in Awaiting /\ Selecting \in Awaiting
  /\ Weak \notin {Unknown, Creating, Generating, Surfacing, Teardown, Maintaining, Selecting}
  /\ Supplying = Awaiting \cup {Teardown}
  /\ Requesting = Supplying \cup {Generating, Maintaining}
BY DEF Requesting, Supplying, Awaiting, Creating, Generating, Surfacing, Teardown, Unknown,
       Maintaining, Selecting, Weak

\* The step under way is one of its kinds.
LEMMA NowKinds ==
  ASSUME TypesInv, ~Finished
  PROVE  /\ Kinds(case, pc, Now) /\ pc \in Nat \ {0} /\ pc \in 1 .. Len(Script)
         /\ Len(Script) \in Nat /\ Now = Suite[case].script[pc]
<1>1. pc \in Nat \ {0} /\ case \in DOMAIN Suite
  BY DEF TypesInv
<1>2. Len(Script) \in Nat \ {0}
  BY <1>1, ScriptKinds DEF Script
<1>3. pc \in 1 .. Len(Script)
  BY <1>1, <1>2 DEF Finished, Over
<1> QED BY <1>1, <1>2, <1>3, ScriptKinds DEF Now, Script

\* As long as nothing has failed, a case makes one step after the other.
LEMMA StepMoves ==
  ASSUME TypesInv, NEW ok \in BOOLEAN, Judge(Script, ok), ~failed'
  PROVE  /\ pc' = pc + 1 /\ case' = case /\ ~failed
         /\ Now.must \in {"hold", "abort"} => ok
BY DEF Judge, Now

\* The answer is what the case expects.
Confirmed ==
  (IF fault = Misanswers(Now.what) THEN ~Answer(Now.what) ELSE Answer(Now.what)) = Now.value

\* What an accepted call needs of the session, it has.
LEMMA CallAccepted ==
  ASSUME TypesInv, PhaseInv, ~Finished, Now.do = "call", Now.must \in {"hold", "abort"}
  PROVE  Accepts(Now.what)
<1>1. CallAt(case, pc, Now)
  BY NowKinds, KindsOf
<1>2. CASE /\ Now = Call("generateRequest")
           /\ (pc = 3 /\ case \in Requesting) \/ (pc = 5 /\ case = Weak)
  <2>1. Now.what = "generateRequest"
    BY <1>2, StepFields
  <2>2. state[Session] = "none"
    BY <1>2 DEF PhaseInv, Fresh
  <2>3. RequestedIds # {}
    BY TextsAssumption
  <2> QED BY <2>1, <2>2, <2>3 DEF Accepts
<1>3. CASE Now = Call("updateSession") /\ pc = 5 /\ case \in Supplying
  <2>1. Now.what = "updateSession"
    BY <1>3, StepFields
  <2>2. state[Session] = "open"
    BY <1>3, CaseKinds DEF PhaseInv, Requested, Answered
  <2>3. Licence = <<Kid>> /\ Licence # << >> /\ Backend!Decodes(Licence)
    BY TextsAssumption, LicenceDoes
  <2> QED BY <2>1, <2>2, <2>3 DEF Accepts
<1>4. CASE Now \in {Call("removeKeySession"), Call("releaseKeySession")} /\ pc \in {6, 8}
           /\ case = Teardown
  <2>1. Now.what \in {"removeKeySession", "releaseKeySession"}
    BY <1>4, StepFields
  <2>2. Backend!Live(Session)
    BY <1>4 DEF PhaseInv
  <2> QED BY <2>1, <2>2 DEF Accepts
<1>5. CASE Now \in {Setup("createMediaKeys"), Call("createKeySession"), Call("getDrmTime"),
                    Call("getCdmKeySessionId"), Call("closeKeySession")}
  <2>1. Now.what \in {"createMediaKeys", "createKeySession", "getDrmTime",
                      "getCdmKeySessionId", "closeKeySession"}
    BY <1>5, StepFields
  <2> QED BY <2>1 DEF Accepts
<1>6. /\ Now # Plain("dropClient") /\ Now # Plain("closeKeySession")
      /\ Now # Plain("queryStores") /\ Now # Always("destroyMediaKeys")
  BY StepFields
<1> QED BY <1>1, <1>2, <1>3, <1>4, <1>5, <1>6 DEF CallAt

\* An answer is one of the two.
LEMMA AnswerType == \A what : Answer(what) \in BOOLEAN
BY DEF Answer

\* What the case asks, it is told.
LEMMA AnsweredRight ==
  ASSUME TypesInv, PhaseInv, OwnersInv, ~Finished, Now.do = "get"
  PROVE  /\ Now.value \in BOOLEAN
         /\ \/ Answer(Now.what) <=> Now.value = TRUE
            \/ Now.what = "expired" /\ fault = Ignores("weak")
         /\ Now.what = "expired" /\ fault = Ignores("weak")
              => ~(Answer(Now.what) <=> Now.value = TRUE)
         /\ Now.must \in {"hold", "abort"}
<1>1. GetAt(case, pc, Now)
  BY NowKinds, KindsOf
<1>2. CASE Now = Get("unknownContains", FALSE)
  <2>1. Now.what = "unknownContains" /\ Now.value = FALSE /\ Now.must = "hold"
    BY <1>2 DEF Get, Step
  <2>2. ~Answer("unknownContains")
    BY DEF Answer, Unknowns
  <2> QED BY <2>1, <2>2
<1>3. CASE \E what \in {"validId", "requestId", "statusesId", "cdmId"} \cup Unknowns :
             Now = Get(what, TRUE)
  <2>1. PICK what \in {"validId", "requestId", "statusesId", "cdmId"} \cup Unknowns :
          Now = Get(what, TRUE)
    BY <1>3
  <2>2. Now.what = what /\ Now.value = TRUE /\ Now.must = "hold"
    BY <2>1 DEF Get, Step
  <2>3. what # "expired"
    BY DEF Unknowns
  <2>4. Answer(what)
    BY Zenon DEF Answer
  <2> QED BY <2>2, <2>3, <2>4
<1>4. CASE Now = Get("namesKid", TRUE) /\ pc = 6 /\ case = Generating
  <2>1. Now.what = "namesKid" /\ Now.value = TRUE /\ Now.must = "hold"
    BY <1>4 DEF Get, Step
  <2>2. requested[Session] = {Kid}
    BY <1>4 DEF PhaseInv, Requested, Answered
  <2>3. KidText \in {UrlEncode(id) : id \in requested[Session]}
    BY <2>2, TextsAssumption
  <2>4. Answer("namesKid")
    BY <2>2, <2>3 DEF Answer
  <2> QED BY <2>1, <2>4
<1>5. CASE Now = Get("usableKid", TRUE) /\ pc = 9 /\ case = Surfacing
  <2>1. Now.what = "usableKid" /\ Now.value = TRUE /\ Now.must = "hold"
    BY <1>5 DEF Get, Step
  <2>2. Backend!Usable(Kid) \in statuses[Session]
    BY <1>5 DEF PhaseInv, Told, Published
  <2>3. Answer("usableKid")
    BY <2>2 DEF Answer
  <2> QED BY <2>1, <2>3
<1>6. CASE Now = Get("containsKey", TRUE) /\ pc = 10 /\ case = Surfacing
  <2>1. Now.what = "containsKey" /\ Now.value = TRUE /\ Now.must = "hold"
    BY <1>6 DEF Get, Step
  <2>2. held[Session] = {Kid}
    BY <1>6 DEF PhaseInv, Told, Published, Stored
  <2>3. Answer("containsKey")
    BY <2>2 DEF Answer
  <2> QED BY <2>1, <2>3
<1>7. CASE Now = Get("containsOtherKey", FALSE) /\ pc = 11 /\ case = Surfacing
  <2>1. Now.what = "containsOtherKey" /\ Now.value = FALSE /\ Now.must = "hold"
    BY <1>7 DEF Get, Step
  <2>2. held[Session] = {Kid}
    BY <1>7 DEF PhaseInv, Told, Published, Stored
  <2>3. OtherKid \notin held[Session]
    BY <2>2, KidFacts
  <2>4. ~Answer("containsOtherKey")
    BY <2>2, <2>3 DEF Answer, Unknowns
  <2> QED BY <2>1, <2>4
<1>8. CASE Now = Get("recognised", TRUE) /\ pc = 7 /\ case = Selecting
  <2>1. Now.what = "recognised" /\ Now.value = TRUE /\ Now.must = "hold"
    BY <1>8 DEF Get, Step
  <2>2. Backend!Live(Session)
    BY <1>8 DEF PhaseInv, Told, Published, Stored, Backend!Live
  <2>3. Answer("recognised")
    BY <2>2 DEF Answer
  <2> QED BY <2>1, <2>3
<1>9. CASE Now = Get("expired", TRUE) /\ pc = 4 /\ case = Weak
  <2>1. Now.what = "expired" /\ Now.value = TRUE /\ Now.must = "hold"
    BY <1>9 DEF Get, Step
  <2>2. owners = {} <=> fault # Ignores("weak")
    BY <1>9 DEF OwnersInv
  <2>3. Answer("expired") <=> owners = {}
    BY <2>2 DEF Answer, Unknowns
  <2> QED BY <2>1, <2>3, <2>2
<1>10. CASE Now = Require("anyStatus", TRUE) /\ pc = 8 /\ case = Surfacing
  <2>1. Now.what = "anyStatus" /\ Now.value = TRUE /\ Now.must = "abort"
    BY <1>10 DEF Require, Step
  <2>2. statuses[Session] # {}
    BY <1>10 DEF PhaseInv, Told, Published
  <2>3. Answer("anyStatus")
    BY <2>2 DEF Answer
  <2> QED BY <2>1, <2>3
<1>11. {"unknownGenerate", "unknownUpdate", "unknownClose", "unknownRemove"} = Unknowns
  BY DEF Unknowns
<1> QED BY <1>1, <1>2, <1>3, <1>4, <1>5, <1>6, <1>7, <1>8, <1>9, <1>10, <1>11 DEF GetAt

\* What the case waits for comes, unless the server drops it.
LEMMA Waited ==
  ASSUME TypesInv, PhaseInv, ~Finished, Now.do = "await"
  PROVE  /\ Received(Now.what) => fault # Silences(Now.what)
         /\ TimedOut(Received(Now.what)) => fault = Silences(Now.what)
         /\ Now.must = "abort"
<1>1. AwaitAt(case, pc, Now)
  BY NowKinds, KindsOf
<1>2. CASE Now = Reach("licenseRequest") /\ pc = 4 /\ case \in Requesting
  <2>1. Now.what = "licenseRequest" /\ Now.must = "abort"
    BY <1>2, StepFields
  <2>2. Asked \/ Requested \/ Missed
    BY <1>2 DEF PhaseInv
  <2> QED BY <2>1, <2>2 DEF Asked, Requested, Missed, Answered, Quiet, TimedOut, Received
<1>3. CASE Now = Reach("keyStatuses") /\ pc = 6 /\ case \in Awaiting
  <2>1. Now.what = "keyStatuses" /\ Now.must = "abort"
    BY <1>3, StepFields
  <2>2. Announced \/ Gathered \/ Told \/ Untold
    BY <1>3 DEF PhaseInv
  <2> QED BY <2>1, <2>2 DEF Announced, Gathered, Told, Untold, Published, Quiet,
          TimedOut, Received
<1> QED BY <1>1, <1>2, <1>3 DEF AwaitAt

-----------------------------------------------------------------------------
(***************************************************************************)
(* A step that fails nothing.                                              *)
(***************************************************************************)

\* Faults of different kinds, and of different calls, differ.
LEMMA FaultKinds ==
  /\ \A x, y : /\ Refuses(x) # Misanswers(y) /\ Refuses(x) # Silences(y)
               /\ Refuses(x) # Ignores(y) /\ Misanswers(x) # Silences(y)
               /\ Misanswers(x) # Ignores(y) /\ Silences(x) # Ignores(y)
  /\ \A x : /\ Conforming # Refuses(x) /\ Conforming # Misanswers(x)
            /\ Conforming # Silences(x) /\ Conforming # Ignores(x)
BY DEF Refuses, Misanswers, Silences, Ignores, Conforming, Fault

\* What each call does in the backend.
LEMMA Performs ==
  /\ Perform("generateRequest") => Backend!ConstructSession(Session, RequestedIds)
  /\ Perform("updateSession") => Backend!SessionUpdate(Session, Licence)
  /\ Perform("removeKeySession") => Backend!SessionRemove(Session)
  /\ Perform("closeKeySession") => \/ Backend!SessionClose(Session)
                                   \/ UNCHANGED backend
  /\ Perform("createMediaKeys") => UNCHANGED backend
  /\ Perform("createKeySession") => UNCHANGED backend
  /\ Perform("dropClient") => UNCHANGED backend
<1>1. Perform("generateRequest") => Backend!ConstructSession(Session, RequestedIds)
  BY Zenon DEF Perform
<1>2. Perform("updateSession") => Backend!SessionUpdate(Session, Licence)
  BY Zenon DEF Perform
<1>3. Perform("removeKeySession") => Backend!SessionRemove(Session)
  BY Zenon DEF Perform
<1>4. Perform("closeKeySession") => \/ Backend!SessionClose(Session)
                                    \/ UNCHANGED backend
  BY Zenon DEF Perform
<1>5. /\ Perform("createMediaKeys") => UNCHANGED backend
      /\ Perform("createKeySession") => UNCHANGED backend
      /\ Perform("dropClient") => UNCHANGED backend
  BY Zenon DEF Perform
<1> QED BY <1>1, <1>2, <1>3, <1>4, <1>5

\* A call that fails nothing was accepted, if its result is asserted.
LEMMA CallDoes ==
  ASSUME TypesInv, CallStep, ~failed'
  PROVE  /\ pc' = pc + 1 /\ case' = case /\ fault' = fault /\ ~failed /\ received' = received
         /\ Now.do = "call"
         /\ Perform(Now.what) \/ UNCHANGED backend
         /\ Now.must \in {"hold", "abort"}
              => fault # Refuses(Now.what) /\ Accepts(Now.what) /\ Perform(Now.what)
<1> DEFINE accepted == fault # Refuses(Now.what) /\ Accepts(Now.what)
<1>1. /\ IF accepted THEN Perform(Now.what) ELSE UNCHANGED backend
      /\ Judge(Script, accepted) /\ fault' = fault /\ received' = received /\ Now.do = "call"
  BY DEF CallStep
<1>2. CASE accepted
  <2>1. Judge(Script, TRUE)
    BY <1>1, <1>2
  <2> QED BY <1>1, <1>2, <2>1, StepMoves
<1>3. CASE ~accepted
  <2>1. Judge(Script, FALSE)
    BY <1>1, <1>3
  <2> QED BY <1>1, <1>3, <2>1, StepMoves
<1> QED BY <1>2, <1>3

\* A read changes nothing.
LEMMA GetDoes ==
  ASSUME TypesInv, GetStep, ~failed'
  PROVE  /\ pc' = pc + 1 /\ case' = case /\ fault' = fault /\ ~failed /\ received' = received
         /\ Now.do = "get" /\ backend' = backend /\ owners' = owners
         /\ Now.must \in {"hold", "abort"} => Confirmed
<1> DEFINE answered == IF fault = Misanswers(Now.what) THEN ~Answer(Now.what)
                       ELSE Answer(Now.what)
<1>1. /\ Judge(Script, answered = Now.value) /\ fault' = fault /\ received' = received
      /\ Now.do = "get" /\ backend' = backend /\ owners' = owners
  BY DEF GetStep
<1>2. CASE answered = Now.value
  <2>1. Judge(Script, TRUE)
    BY <1>1, <1>2
  <2> QED BY <1>1, <1>2, <2>1, StepMoves DEF Confirmed
<1>3. CASE ~(answered = Now.value)
  <2>1. Judge(Script, FALSE)
    BY <1>1, <1>3
  <2> QED BY <1>1, <1>3, <2>1, StepMoves DEF Confirmed
<1> QED BY <1>2, <1>3

\* A wait changes nothing either.
LEMMA AwaitDoes ==
  ASSUME TypesInv, AwaitStep, ~failed'
  PROVE  /\ pc' = pc + 1 /\ case' = case /\ fault' = fault /\ ~failed /\ received' = received
         /\ Now.do = "await" /\ backend' = backend /\ owners' = owners
         /\ Now.must = "abort" => Received(Now.what)
<1>1. /\ fault' = fault /\ received' = received
      /\ Now.do = "await" /\ backend' = backend /\ owners' = owners
  BY DEF AwaitStep
<1>2. CASE Received(Now.what) /\ Judge(Script, TRUE)
  BY <1>1, <1>2, StepMoves
<1>3. CASE Judge(Script, FALSE)
  BY <1>1, <1>3, StepMoves
<1> QED BY <1>1, <1>2, <1>3 DEF AwaitStep

-----------------------------------------------------------------------------
(***************************************************************************)
(* What is under way, after a step that fails nothing.                     *)
(***************************************************************************)

\* The backend's calls keep the session's fields where they are.
LEMMA BackendTypes ==
  ASSUME TypesInv, Perform(Now.what) \/ UNCHANGED backend
  PROVE  /\ DOMAIN state' = DOMAIN state /\ DOMAIN held' = DOMAIN held
         /\ DOMAIN gathered' = DOMAIN gathered /\ DOMAIN requested' = DOMAIN requested
         /\ DOMAIN statuses' = DOMAIN statuses
<1>1. CASE UNCHANGED backend
  BY <1>1 DEF backend
<1>2. CASE Backend!ConstructSession(Session, RequestedIds)
  BY <1>2 DEF Backend!ConstructSession, Backend!client
<1>3. CASE Backend!SessionUpdate(Session, Licence)
  BY <1>3 DEF Backend!SessionUpdate, Backend!client
<1>4. CASE Backend!SessionRemove(Session)
  BY <1>4 DEF Backend!SessionRemove, Backend!client
<1>5. CASE Backend!SessionClose(Session)
  BY <1>5 DEF Backend!SessionClose, Backend!client
<1>6. CASE Backend!DestructSession(Session)
  BY <1>6 DEF Backend!DestructSession, Backend!client
<1>7. \/ UNCHANGED backend \/ Backend!ConstructSession(Session, RequestedIds)
      \/ Backend!SessionUpdate(Session, Licence) \/ Backend!SessionRemove(Session)
      \/ Backend!SessionClose(Session) \/ Backend!DestructSession(Session)
  BY Zenon DEF Perform
<1> QED BY <1>1, <1>2, <1>3, <1>4, <1>5, <1>6, <1>7

\* A step of the case keeps the types.
LEMMA TypesStep ==
  ASSUME TypesInv, CallStep \/ GetStep \/ AwaitStep, ~failed'
  PROVE  /\ TypesInv' /\ pc' = pc + 1 /\ case' = case /\ fault' = fault /\ ~failed
         /\ received' = received
<1>1. CASE CallStep
  <2>1. /\ DOMAIN state' = DOMAIN state /\ DOMAIN held' = DOMAIN held
        /\ DOMAIN gathered' = DOMAIN gathered /\ DOMAIN requested' = DOMAIN requested
        /\ DOMAIN statuses' = DOMAIN statuses
    BY <1>1, CallDoes, BackendTypes
  <2> QED BY <1>1, <2>1, CallDoes DEF TypesInv
<1>2. CASE GetStep
  BY <1>2, GetDoes DEF TypesInv, backend
<1>3. CASE AwaitStep
  BY <1>3, AwaitDoes DEF TypesInv, backend
<1> QED BY <1>1, <1>2, <1>3

\* Where nothing is under way, what changes nothing leaves it so.
LEMMA UnchangedKeeps ==
  ASSUME backend' = backend, received' = received, fault' = fault
  PROVE  /\ Fresh => Fresh'
         /\ Requested => Requested'
         /\ Told => Told'
         /\ Backend!Live(Session) => Backend!Live(Session)'
BY DEF backend, Fresh, Requested, Answered, Told, Published, Stored, Quiet, Backend!Live,
       Backend!Usable, Silences

\* A call of the case takes what is under way to where the next step expects it.
LEMMA CallPhase ==
  ASSUME TypesInv, PhaseInv, ~Finished, CallStep, ~failed'
  PROVE  PhaseInv'
<1>1. /\ pc' = pc + 1 /\ case' = case /\ fault' = fault /\ received' = received
      /\ Now.do = "call" /\ pc \in Nat \ {0}
      /\ Now.must \in {"hold", "abort"} => Perform(Now.what)
      /\ Perform(Now.what) \/ UNCHANGED backend
  BY CallDoes DEF TypesInv
<1>2. CallAt(case, pc, Now)
  BY <1>1, NowKinds, KindsOf
<1>3. CASE \/ Now = Setup("createMediaKeys") /\ pc = 1
           \/ Now = Call("createKeySession") /\ pc = 2
           \/ Now = Plain("dropClient") /\ pc = 3 /\ case = Weak
  <2>1. Now.what \in {"createMediaKeys", "createKeySession", "dropClient"}
    BY <1>3, StepFields
  <2>2. backend' = backend /\ received' = received /\ fault' = fault
    BY <1>1, <2>1, Performs
  <2>3. Fresh => Fresh'
    BY <2>2, UnchangedKeeps
  <2> QED BY <1>1, <1>3, <2>3, CaseKinds
          DEF PhaseInv, Awaiting, Surfacing, Selecting, Teardown
<1>4. CASE Now = Call("generateRequest") /\ pc = 3 /\ case \in Requesting
  <2>1. Perform("generateRequest") /\ Fresh
    BY <1>1, <1>4, StepFields DEF PhaseInv
  <2>2. Asked'
    BY <1>1, <2>1, Performs, ConstructAsks
  <2> QED BY <1>1, <1>4, <2>2, CaseKinds DEF PhaseInv
<1>5. CASE Now = Call("generateRequest") /\ pc = 5 /\ case = Weak
  BY <1>1, <1>5, CaseKinds DEF PhaseInv, Awaiting, Surfacing, Selecting, Teardown, Weak
<1>6. CASE Now = Call("updateSession") /\ pc = 5 /\ case \in Supplying
  <2>1. Perform("updateSession") /\ Requested
    BY <1>1, <1>6, StepFields, CaseKinds DEF PhaseInv
  <2>2. Announced'
    BY <1>1, <2>1, Performs, UpdateAnnounces
  <2>3. Backend!Live(Session)'
    BY <2>2 DEF Announced, Stored, Backend!Live
  <2> QED BY <1>1, <1>6, <2>2, <2>3, CaseKinds DEF PhaseInv, Generating, Weak, Awaiting,
          Surfacing, Selecting, Teardown
<1>7. CASE case = Maintaining /\ pc \in {5, 6, 8}
  BY <1>1, <1>7, CaseKinds DEF PhaseInv, Awaiting, Surfacing, Selecting, Teardown,
     Maintaining, Generating, Weak
<1>8. CASE Now = Call("removeKeySession") /\ pc = 6 /\ case = Teardown
  <2>1. Perform("removeKeySession") /\ Backend!Live(Session)
    BY <1>1, <1>8, StepFields DEF PhaseInv
  <2>2. state' = state
    BY <2>1, Performs DEF Backend!SessionRemove
  <2>3. Backend!Live(Session)'
    BY <2>1, <2>2 DEF Backend!Live
  <2> QED BY <1>1, <1>8, <2>3, CaseKinds
          DEF PhaseInv, Awaiting, Surfacing, Selecting, Teardown
<1>9. CASE Now = Call("closeKeySession") /\ pc = 7 /\ case = Teardown
  <2>1. Perform("closeKeySession") /\ Backend!Live(Session)
    BY <1>1, <1>9, StepFields DEF PhaseInv
  <2>2. Backend!Live(Session)'
    BY <2>1, Performs, UnchangedKeeps
       DEF Backend!SessionClose, Backend!Live, TypesInv, backend
  <2> QED BY <1>1, <1>9, <2>2, CaseKinds
          DEF PhaseInv, Awaiting, Surfacing, Selecting, Teardown
<1>10. CASE \/ case = Teardown /\ pc = 8
            \/ case = Weak /\ pc = 6
            \/ ClosesAt(case, pc) \/ EndsAt(case, pc)
  BY <1>1, <1>10, CaseKinds DEF PhaseInv, ClosesAt, EndsAt, Awaiting, Requesting, Surfacing,
     Selecting, Teardown, Weak, Creating, Generating, Maintaining, Unknown
<1> QED BY <1>2, <1>3, <1>4, <1>5, <1>6, <1>7, <1>8, <1>9, <1>10 DEF CallAt

\* So does a read.
LEMMA GetPhase ==
  ASSUME TypesInv, PhaseInv, ~Finished, GetStep, ~failed'
  PROVE  PhaseInv'
<1>1. /\ pc' = pc + 1 /\ case' = case /\ fault' = fault
      /\ backend' = backend /\ received' = received
      /\ Now.do = "get" /\ pc \in Nat \ {0}
  BY GetDoes DEF TypesInv
<1>2. (Fresh => Fresh') /\ (Told => Told')
  BY <1>1, UnchangedKeeps
<1>3. GetAt(case, pc, Now)
  BY <1>1, NowKinds, KindsOf
<1>4. CASE pc = 4 /\ case = Weak
  BY <1>1, <1>2, <1>4, CaseKinds
          DEF PhaseInv, Awaiting, Surfacing, Selecting, Teardown
<1>5. CASE (pc \in {7, 8, 9, 10, 11} /\ case = Surfacing) \/ (pc = 7 /\ case = Selecting)
  <2>1. Told'
    BY <1>2, <1>5 DEF PhaseInv
  <2> QED BY <1>1, <1>5, <2>1, CaseKinds DEF PhaseInv, Surfacing, Selecting, Teardown
<1>6. CASE \/ pc \in {2, 3, 4, 5, 6} /\ case = Unknown
           \/ pc = 3 /\ case = Creating
           \/ pc \in {5, 6} /\ case = Generating
           \/ pc = 7 /\ case = Maintaining
  <2>1. (Requested => Requested') /\ (case = Generating => case \in Requesting)
    BY <1>1, UnchangedKeeps, CaseKinds
  <2>2. CASE pc = 5 /\ case = Generating
    <3>1. Requested'
      BY <2>1, <2>2 DEF PhaseInv
    <3> QED BY <1>1, <2>2, <3>1 DEF PhaseInv, Awaiting, Generating, Teardown, Surfacing,
            Selecting, Weak
  <2>3. CASE ~(pc = 5 /\ case = Generating)
    BY <1>1, <1>6, <2>3, CaseKinds DEF PhaseInv, Awaiting, Creating, Generating, Unknown,
       Teardown, Surfacing, Selecting, Maintaining, Weak
  <2> QED BY <2>2, <2>3
<1> QED BY <1>3, <1>4, <1>5, <1>6 DEF GetAt

\* And a wait, which goes on once the callback has been received.
LEMMA AwaitPhase ==
  ASSUME TypesInv, PhaseInv, ~Finished, AwaitStep, ~failed'
  PROVE  PhaseInv'
<1>1. /\ pc' = pc + 1 /\ case' = case /\ fault' = fault
      /\ backend' = backend /\ received' = received
      /\ Now.do = "await" /\ pc \in Nat \ {0}
      /\ Now.must = "abort" => Received(Now.what)
  BY AwaitDoes DEF TypesInv
<1>2. (Requested => Requested') /\ (Told => Told')
  BY <1>1, UnchangedKeeps
<1>3. AwaitAt(case, pc, Now)
  BY <1>1, NowKinds, KindsOf
<1>4. CASE Now = Reach("licenseRequest") /\ pc = 4 /\ case \in Requesting
  <2>1. "licenseRequest" \in received
    BY <1>1, <1>4, StepFields DEF Received
  <2>2. Requested
    BY <1>4, <2>1 DEF PhaseInv, Asked, Missed
  <2> QED BY <1>1, <1>2, <1>4, <2>2, CaseKinds DEF PhaseInv
<1>5. CASE Now = Reach("keyStatuses") /\ pc = 6 /\ case \in Awaiting
  <2>1. "keyStatuses" \in received
    BY <1>1, <1>5, StepFields DEF Received
  <2>2. Told
    BY <1>5, <2>1 DEF PhaseInv, Announced, Gathered, Untold
  <2> QED BY <1>1, <1>2, <1>5, <2>2, CaseKinds DEF PhaseInv
<1> QED BY <1>3, <1>4, <1>5 DEF AwaitAt

\* A case whose fault is one it catches, or none, has a client held weakly but for Weak.
LEMMA HeldWeakly ==
  ASSUME TypesInv, Good, fault = Ignores("weak")
  PROVE  case = Weak
BY AllGuarded, FaultKinds DEF TypesInv, Good

\* The owners of the client, after a step of the case.
LEMMA OwnersStep ==
  ASSUME TypesInv, Good, OwnersInv, HeldInv, ~Finished, CallStep \/ GetStep \/ AwaitStep,
         ~failed'
  PROVE  OwnersInv' /\ HeldInv'
<1>1. pc' = pc + 1 /\ case' = case /\ fault' = fault /\ pc \in Nat \ {0}
  BY TypesStep DEF TypesInv
<1>2. CASE GetStep \/ AwaitStep
  <2>1. owners' = owners
    BY <1>2 DEF GetStep, AwaitStep
  <2>2. Now.do \in {"get", "await"}
    BY <1>2 DEF GetStep, AwaitStep
  <2>3. case = Weak => pc = 4
    BY <2>2, NowKinds, KindsOf, CaseKinds DEF GetAt, AwaitAt, Awaiting, Surfacing, Selecting,
       Weak, Unknown, Creating, Generating
  <2> QED BY <1>1, <2>1, <2>3 DEF OwnersInv, HeldInv
<1>3. CASE CallStep
  <2> DEFINE op == Now.what
  <2>1. /\ op = "createKeySession"
             => owners' = {"case"} \cup (IF fault = Ignores("weak") THEN {"keys"} ELSE {})
        /\ op = "dropClient" => owners' = owners \ {"case"}
        /\ op \notin {"createKeySession", "dropClient"} => owners' = owners
    BY <1>3 DEF CallStep
  <2>2. Now.do = "call"
    BY <1>3 DEF CallStep
  <2>3. CallAt(case, pc, Now)
    BY <2>2, NowKinds, KindsOf
  <2>4. CASE Now = Call("createKeySession") /\ pc = 2
    <3>1. owners' = {"case"} \cup (IF fault = Ignores("weak") THEN {"keys"} ELSE {})
      BY <2>1, <2>4, StepFields
    <3>2. case # Weak => fault # Ignores("weak")
      BY HeldWeakly
    <3> QED BY <1>1, <2>4, <3>1, <3>2 DEF OwnersInv, HeldInv
  <2>5. CASE Now = Plain("dropClient") /\ pc = 3 /\ case = Weak
    <3>1. owners' = owners \ {"case"}
      BY <2>1, <2>5, StepFields
    <3> QED BY <1>1, <2>5, <3>1 DEF OwnersInv, HeldInv
  <2>6. CASE /\ Now # Call("createKeySession") /\ Now # Plain("dropClient")
             /\ case = Weak => pc \notin 2 .. 3
    <3>1. op \notin {"createKeySession", "dropClient"}
      BY <2>3, <2>6, StepFields DEF CallAt
    <3>2. owners' = owners
      BY <2>1, <3>1
    <3> QED BY <1>1, <2>6, <3>2 DEF OwnersInv, HeldInv
  <2>7. case = Weak /\ pc \in 2 .. 3
          => Now = Call("createKeySession") \/ Now = Plain("dropClient")
    BY <2>3, CaseKinds DEF CallAt, ClosesAt, EndsAt, Weak, Teardown, Unknown, Creating, Generating,
       Surfacing, Selecting, Maintaining
  <2>8. /\ Now = Call("createKeySession") => pc = 2
        /\ Now = Plain("dropClient") => pc = 3 /\ case = Weak
    BY <2>3 DEF CallAt, Call, Setup, Plain, Always, Step
  <2> QED BY <2>4, <2>5, <2>6, <2>7, <2>8
<1> QED BY <1>2, <1>3

\* A step that fails nothing is no trap for the fault.
LEMMA NotTrapped ==
  ASSUME TypesInv, PhaseInv, OwnersInv, ~Finished, CallStep \/ GetStep \/ AwaitStep, ~failed'
  PROVE  ~Traps(case, fault, pc)
<1> SUFFICES ASSUME Traps(case, fault, pc)
             PROVE  FALSE
  OBVIOUS
<1>1. /\ Now.must \in {"hold", "abort"}
      /\ \/ Now.do = "call" /\ fault = Refuses(Now.what)
         \/ Now.do = "get" /\ fault = Misanswers(Now.what)
         \/ Now.do = "await" /\ fault = Silences(Now.what)
         \/ Now.do = "get" /\ Now.what = "expired" /\ fault = Ignores("weak")
  BY NowKinds DEF Traps
<1>2. CASE CallStep
  BY <1>1, <1>2, CallDoes
<1>3. CASE GetStep
  <2>1. Now.do = "get" /\ Confirmed
    BY <1>3, GetDoes, AnsweredRight
  <2>2. CASE fault = Misanswers(Now.what)
    <3>1. fault # Ignores("weak")
      BY <2>2, FaultKinds
    <3>2. (~Answer(Now.what)) = Now.value
      BY <2>1, <2>2 DEF Confirmed
    <3> QED BY <2>1, <3>1, <3>2, AnsweredRight, AnswerType
  <2>3. CASE Now.what = "expired" /\ fault = Ignores("weak")
    <3>1. fault # Misanswers(Now.what)
      BY <2>3, FaultKinds
    <3>2. Answer(Now.what) = Now.value
      BY <2>1, <3>1 DEF Confirmed
    <3> QED BY <2>1, <2>3, <3>2, AnsweredRight, AnswerType
  <2> QED BY <1>1, <2>1, <2>2, <2>3
<1>4. CASE AwaitStep
  <2>1. Now.do = "await"
    BY <1>4, AwaitDoes
  <2>2. Received(Now.what)
    BY <1>4, <2>1, AwaitDoes, Waited
  <2> QED BY <1>1, <2>1, <2>2, Waited
<1> QED BY <1>2, <1>3, <1>4

\* The conforming backend passes every step.
LEMMA ConformingStep ==
  ASSUME TypesInv, PhaseInv, OwnersInv, ~Finished, CallStep \/ GetStep \/ AwaitStep,
         fault = Conforming, ~failed
  PROVE  ~failed'
<1>1. CASE CallStep
  <2> DEFINE accepted == fault # Refuses(Now.what) /\ Accepts(Now.what)
  <2>1. Now.do = "call" /\ Judge(Script, accepted)
    BY <1>1 DEF CallStep
  <2>2. Now.must \in {"hold", "abort"} => accepted
    BY <2>1, CallAccepted, FaultKinds
  <2> HIDE DEF accepted
  <2> QED BY <2>1, <2>2 DEF Judge, Now
<1>2. CASE GetStep
  <2> DEFINE answered == IF fault = Misanswers(Now.what) THEN ~Answer(Now.what)
                         ELSE Answer(Now.what)
  <2>1. Now.do = "get" /\ Judge(Script, answered = Now.value)
    BY <1>2 DEF GetStep
  <2>2. Answer(Now.what) = Now.value
    BY <2>1, AnsweredRight, AnswerType, FaultKinds
  <2>3. answered = Now.value
    BY <2>2, FaultKinds
  <2> HIDE DEF answered
  <2>4. Judge(Script, TRUE)
    BY <2>1, <2>3
  <2> QED BY <2>4 DEF Judge
<1>3. CASE AwaitStep
  <2>1. /\ Now.do = "await"
        /\ \/ Judge(Script, TRUE)
           \/ TimedOut(Received(Now.what))
    BY <1>3 DEF AwaitStep
  <2>2. ~TimedOut(Received(Now.what))
    BY <2>1, Waited, FaultKinds
  <2>3. Judge(Script, TRUE)
    BY <2>1, <2>2
  <2> QED BY <2>3 DEF Judge
<1> QED BY <1>1, <1>2, <1>3

\* A step of the case keeps the invariant.
LEMMA CaseStep ==
  ASSUME IInv, TestCase
  PROVE  IInv'
<1>1. ~Finished /\ (CallStep \/ GetStep \/ AwaitStep) /\ case' = case /\ fault' = fault
  BY DEF TestCase, CallStep, GetStep, AwaitStep, Judge
<1>2. Good' <=> Good
  BY <1>1 DEF Good
<1>3. CASE Good /\ ~failed'
  <2>1. ~failed
    BY <1>1, <1>3 DEF CallStep, GetStep, AwaitStep, Judge
  <2>2. TypesInv /\ PhaseInv /\ OwnersInv /\ HeldInv /\ UntrappedInv
    BY <1>3, <2>1 DEF IInv
  <2>3. TypesInv' /\ pc' = pc + 1
    BY <1>1, <1>3, <2>2, TypesStep
  <2>4. PhaseInv'
    BY <1>1, <1>3, <2>2, CallPhase, GetPhase, AwaitPhase
  <2>5. OwnersInv' /\ HeldInv'
    BY <1>1, <1>3, <2>2, OwnersStep
  <2>6. ~Traps(case, fault, pc)
    BY <1>1, <1>3, <2>2, NotTrapped
  <2>7. UntrappedInv'
    BY <1>1, <2>2, <2>3, <2>6 DEF UntrappedInv, TypesInv
  <2> QED BY <1>3, <2>3, <2>4, <2>5, <2>7 DEF IInv
<1>4. CASE failed'
  <2>1. fault # Conforming
    <3> SUFFICES ASSUME fault = Conforming
                 PROVE  ~failed'
      BY <1>4
    <3>1. ~failed /\ TypesInv /\ PhaseInv /\ OwnersInv
      BY DEF IInv, Good
    <3> QED BY <1>1, <3>1, ConformingStep
  <2> QED BY <1>1, <1>4, <2>1 DEF IInv
<1>5. CASE ~Good
  <2>1. fault # Conforming
    BY <1>5 DEF Good
  <2> QED BY <1>1, <1>2, <1>5, <2>1 DEF IInv
<1> QED BY <1>3, <1>4, <1>5

\* So does a task of the wrapper.
LEMMA TaskStep ==
  ASSUME IInv, WrapperTask
  PROVE  IInv'
<1>1. UNCHANGED <<case, fault, pc, failed, owners>>
  BY TaskKeeps
<1>2. Good' <=> Good
  BY <1>1 DEF Good
<1>3. CASE Good /\ ~failed
  <2>1. TypesInv /\ PhaseInv /\ OwnersInv /\ HeldInv /\ UntrappedInv
    BY <1>3 DEF IInv
  <2>2. TypesInv' /\ PhaseInv'
    BY <2>1, TypesKept, TaskPhase
  <2>3. OwnersInv' /\ HeldInv' /\ UntrappedInv'
    BY <1>1, <2>1 DEF OwnersInv, HeldInv, UntrappedInv
  <2> QED BY <1>1, <1>3, <2>2, <2>3 DEF IInv
<1>4. CASE ~(Good /\ ~failed)
  BY <1>1, <1>2, <1>4 DEF IInv
<1> QED BY <1>3, <1>4

\* Nothing is under way when a case begins.
LEMMA InitInvariant == Init => IInv
<1> SUFFICES ASSUME Init
             PROVE  IInv
  OBVIOUS
<1>1. case \in Cases /\ pc = 1 /\ failed = FALSE /\ received = {} /\ owners = {"case"}
  BY Zenon DEF Init, ScriptInit
<1>2. case \in DOMAIN Suite
  BY <1>1, CasesAssumption
<1>3. /\ state = [s \in {Session} |-> "none"] /\ held = [s \in {Session} |-> {}]
      /\ gathered = [s \in {Session} |-> {}] /\ requested = [s \in {Session} |-> {}]
      /\ statuses = [s \in {Session} |-> {}] /\ tasks = << >>
  BY DEF Init, Backend!Init
<1>4. TypesInv
  BY <1>1, <1>2, <1>3 DEF TypesInv
<1>5. Fresh
  BY <1>1, <1>3 DEF Fresh, Quiet
<1>6. PhaseInv
  BY <1>1, <1>5 DEF PhaseInv
<1>7. OwnersInv /\ HeldInv /\ UntrappedInv
  BY <1>1 DEF OwnersInv, HeldInv, UntrappedInv
<1> QED BY <1>1, <1>4, <1>6, <1>7 DEF IInv

\* Stuttering changes none of it.
LEMMA StutterKeeps ==
  ASSUME IInv, UNCHANGED keysVars
  PROVE  IInv'
<1>1. /\ UNCHANGED <<case, fault, pc, failed, received, owners>>
      /\ UNCHANGED <<state, held, tasks, gathered, requested, statuses>>
  BY DEF keysVars, scriptVars, backend
<1> USE <1>1
<1>2. Good' <=> Good
  BY DEF Good
<1>3. TypesInv => TypesInv'
  BY DEF TypesInv
<1>4. PhaseInv => PhaseInv'
  BY DEF PhaseInv, Fresh, Asked, Requested, Missed, Answered, Announced, Gathered, Told,
     Untold, Published, Stored, Quiet, Backend!Live, Backend!Usable, Silences,
     Backend!Challenge, Backend!KeyUpdate, Backend!KeysUpdated
<1>5. (OwnersInv => OwnersInv') /\ (HeldInv => HeldInv') /\ (UntrappedInv => UntrappedInv')
  BY DEF OwnersInv, HeldInv, UntrappedInv
<1> QED BY <1>2, <1>3, <1>4, <1>5 DEF IInv

\* What is under way at each step of a case, and that no step which would catch the fault
\* of the server has been passed.
LEMMA Invariant == Spec => []IInv
<1>1. IInv /\ [Next]_keysVars => IInv'
  BY CaseStep, TaskStep, StutterKeeps DEF Next
<1> QED BY InitInvariant, <1>1, PTL DEF Spec

\* The ClearKey backend passes every case (KeysSessionTests.cpp against open_cdm.cpp),
\* however the wrapper's tasks and the calls of the case interleave.
THEOREM BackendPassesHolds == Spec => []BackendPasses
<1>1. IInv => BackendPasses
  BY DEF IInv, BackendPasses
<1> QED BY Invariant, <1>1, PTL

\* A server with a fault that a case is there to catch never gets through the case.
THEOREM FaultyKeysAreCaughtHolds == Spec => []FaultyKeysAreCaught
<1>1. IInv => FaultyKeysAreCaught
  <2> SUFFICES ASSUME IInv, Finished, fault \in Suite[case].catches, ~failed
               PROVE  FALSE
    BY DEF FaultyKeysAreCaught
  <2>1. TypesInv /\ UntrappedInv
    BY DEF IInv, Good
  <2>2. Guarded(case, fault)
    BY <2>1, AllGuarded DEF TypesInv
  <2>3. PICK n \in 1 .. Len(Script) : Traps(case, fault, n)
    BY <2>2 DEF Guarded, Script
  <2>4. pc > Len(Script) /\ Len(Script) \in Nat /\ pc \in Nat
    BY <2>1, ScriptKinds DEF Finished, Over, TypesInv, Script
  <2> QED BY <2>1, <2>3, <2>4 DEF UntrappedInv
<1> QED BY Invariant, <1>1, PTL
===============================================================================
