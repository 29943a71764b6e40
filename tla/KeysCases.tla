------------------------------- MODULE KeysCases -------------------------------
(***************************************************************************)
(* KeysSessionTests.cpp against the ClearKey backend of ClearKeySession:   *)
(* the case calls IMediaKeys, the server (external) calls the backend, the *)
(* wrapper's tasks bring the callbacks to the client, and the client       *)
(* records them.  A case has one session, and texts as ClearKeyText reads  *)
(* them.                                                                   *)
(***************************************************************************)
EXTENDS CaseScript, ClearKeyText, FiniteSets
LOCAL INSTANCE Functions

CONSTANTS Cases,       \* the cases to run
          FaultsOf(_), \* faults the server may have in a case
          Session, Garbled

\* kKeyId, kKeyIdB64 ("MDEyMzQ1Njc4OTo7PD0-Pw"), kKeyB64 and the id no licence names.
Kid      == [i \in 1 .. 16 |-> 47 + i]
KidText  == <<12, 3, 4, 50, 12, 51, 16, 53, 13, 35, 28, 56, 14, 19, 40, 59, 15, 3, 52, 62, 15, 48>>
KeyText  == [i \in 1 .. 22 |-> IF i = 22 THEN 16 ELSE <<16, 20, 5, 1>>[((i - 1) % 4) + 1]]
OtherKid == [i \in 1 .. 16 |-> 153]

VARIABLES state, held, calls, tasks, gathered, requested, statuses, told, revoked, silent,
          received,  \* which callbacks the client has received
          owners     \* who holds the client

Backend == INSTANCE ClearKeySession WITH
  Sessions <- {Session}, KeyIds <- {Kid, OtherKid}, LengthModulus <- 256,
  MaxEntries <- 1, MaxCalls <- 8

backend == <<state, held, calls, tasks, gathered, requested, statuses, told, revoked, silent>>
keysVars == <<scriptVars, backend, received, owners>>

-----------------------------------------------------------------------------
(***************************************************************************)
(* The documents.  Names are spelled in base64url values, like all text.   *)
(***************************************************************************)
kid == <<36, 34, 29>>
kids == <<36, 34, 29, 44>>
k == <<36>>
keys == <<36, 30, 50, 44>>
kty == <<36, 45, 50>>
oct == <<40, 28, 45>>
type == <<45, 50, 41, 30>>
temporary == <<45, 30, 38, 41, 40, 43, 26, 43, 50>>

Of(text) == <<Str(text)>>

\* kInitDataJson and kJwkResponse.
InitData == Object(<<Field(kids, Array(Of(KidText)))>>)
JwkResponse ==
  Object(<<Field(keys, Array(Object(<<Field(kty, Of(oct)), Field(kid, Of(KidText)),
                                      Field(k, Of(KeyText))>>))),
           Field(type, Of(temporary))>>)

\* The key ids opencdm_construct_session takes from the init data: those it can read.
RequestedIds ==
  {UrlDecode(text) : text \in {t \in Range(JsonStringValues(InitData, kids)) : Readable(t)}}

\* What opencdm_session_update takes a licence for: ids and keys paired by position.
Licence ==
  LET ids    == JsonStringValues(JwkResponse, kid)
      values == JsonStringValues(JwkResponse, k)
  IN IF Len(ids) # Len(values) THEN << >>
     ELSE [i \in DOMAIN ids |-> IF Readable(ids[i]) /\ Readable(values[i])
                                THEN UrlDecode(ids[i]) ELSE Garbled]

-----------------------------------------------------------------------------
(***************************************************************************)
(* The cases.                                                              *)
(***************************************************************************)
OnSession(steps, catches) ==
  Case(<<Setup("createMediaKeys"), Call("createKeySession")>> \o steps
         \o <<Always("destroyMediaKeys")>>,
       catches \cup {Refuses("createMediaKeys"), Refuses("createKeySession")})

\* generateRequest, and its licence request, which every case but two waits for.
Request == <<Call("generateRequest"), Reach("licenseRequest")>>
Unrequested == {Refuses("generateRequest"), Silences("licenseRequest")}
Close == <<Plain("closeKeySession")>>

CreateKeySessionWritesValidId ==
  OnSession(<<Get("validId", TRUE)>> \o Close, {Misanswers("validId")})
GenerateRequestDeliversLicenseRequest ==
  OnSession(Request \o <<Get("requestId", TRUE), Get("namesKid", TRUE)>> \o Close,
            Unrequested \cup {Misanswers("requestId"), Misanswers("namesKid")})
UpdateSessionSurfacesUsableKeyStatus ==
  OnSession(Request \o <<Call("updateSession"), Reach("keyStatuses"), Get("statusesId", TRUE),
                         Require("anyStatus", TRUE), Get("usableKid", TRUE),
                         Get("containsKey", TRUE), Get("containsOtherKey", FALSE)>> \o Close,
            Unrequested \cup {Refuses("updateSession"), Silences("keyStatuses"),
                              Misanswers("statusesId"), Misanswers("anyStatus"),
                              Misanswers("usableKid"), Misanswers("containsKey"),
                              Misanswers("containsOtherKey")})
SessionTeardownReturnsOk ==
  OnSession(Request \o <<Call("updateSession"), Call("removeKeySession"),
                         Call("closeKeySession"), Call("releaseKeySession")>>,
            Unrequested \cup {Refuses("updateSession"), Refuses("removeKeySession"),
                              Refuses("closeKeySession"), Refuses("releaseKeySession")})
UnknownSessionIdReturnsBadSessionId ==
  Case(<<Setup("createMediaKeys"), Get("unknownGenerate", TRUE), Get("unknownUpdate", TRUE),
         Get("unknownClose", TRUE), Get("unknownRemove", TRUE), Get("unknownContains", FALSE),
         Always("destroyMediaKeys")>>,
       {Refuses("createMediaKeys"), Misanswers("unknownGenerate"), Misanswers("unknownUpdate"),
        Misanswers("unknownClose"), Misanswers("unknownRemove"), Misanswers("unknownContains")})
StoreAndMaintenanceQueriesAnswer ==
  OnSession(Request \o <<Call("getDrmTime"), Call("getCdmKeySessionId"), Get("cdmId", TRUE),
                         Plain("queryStores")>> \o Close,
            Unrequested \cup {Refuses("getDrmTime"), Refuses("getCdmKeySessionId"),
                              Misanswers("cdmId")})
SelectKeyIdAnswersForValidSession ==
  OnSession(Request \o <<Call("updateSession"), Reach("keyStatuses"),
                         Get("recognised", TRUE)>> \o Close,
            Unrequested \cup {Refuses("updateSession"), Silences("keyStatuses"),
                              Misanswers("recognised")})
ClientHeldWeaklyAndReleasable ==
  OnSession(<<Plain("dropClient"), Get("expired", TRUE), Call("generateRequest"),
              Call("closeKeySession")>>,
            {Ignores("weak"), Refuses("generateRequest"), Refuses("closeKeySession")})

Suite ==
  [CreateKeySessionWritesValidId |-> CreateKeySessionWritesValidId,
   GenerateRequestDeliversLicenseRequest |-> GenerateRequestDeliversLicenseRequest,
   UpdateSessionSurfacesUsableKeyStatus |-> UpdateSessionSurfacesUsableKeyStatus,
   SessionTeardownReturnsOk |-> SessionTeardownReturnsOk,
   UnknownSessionIdReturnsBadSessionId |-> UnknownSessionIdReturnsBadSessionId,
   StoreAndMaintenanceQueriesAnswer |-> StoreAndMaintenanceQueriesAnswer,
   SelectKeyIdAnswersForValidSession |-> SelectKeyIdAnswersForValidSession,
   ClientHeldWeaklyAndReleasable |-> ClientHeldWeaklyAndReleasable]

ASSUME CasesAssumption == Cases \subseteq DOMAIN Suite

\* What the backend reads in the documents of the cases, and that no key id is Garbled.
\* There is nothing left to choose in it, so TLC computes it.
ASSUME TextsAssumption == /\ RequestedIds = {Kid} /\ Licence = <<Kid>>
                          /\ UrlEncode(Kid) = KidText
                          /\ Garbled \notin {Kid, OtherKid}

Script   == Suite[case].script
Now      == Script[pc]
Finished == Over(Script)

-----------------------------------------------------------------------------
(***************************************************************************)
(* The wrapper's tasks, and the client that records what they deliver.     *)
(***************************************************************************)

\* The callback reaches a client that is still there, unless the server drops it.
Deliver(callback) ==
  /\ shown' = (shown \/ fault = Silences(callback))
  /\ received' = IF owners = {} \/ fault = Silences(callback) THEN received
                 ELSE received \cup {callback}

WrapperTask ==
  /\ \/ Backend!OnLicenseRequest(Session) /\ Deliver("licenseRequest")
     \/ Backend!OnKeyStatusesChanged(Session) /\ Deliver("keyStatuses")
     \/ Backend!AskStatus(Session) /\ UNCHANGED <<shown, received>>
     \/ Backend!DropTask(Session) /\ UNCHANGED <<shown, received>>
  /\ UNCHANGED <<case, fault, pc, failed, owners>>

-----------------------------------------------------------------------------
(***************************************************************************)
(* The test thread.                                                        *)
(***************************************************************************)
Accepts(op) ==
  CASE op = "updateSession" -> /\ state[Session] = "open"
                               /\ Licence # << >>
                               /\ Backend!Decodes(Licence)
    [] op = "generateRequest" -> state[Session] = "none" /\ RequestedIds # {}
    [] op \in {"removeKeySession", "releaseKeySession"} -> Backend!Live(Session)
    [] OTHER -> TRUE

\* What the call does in the backend.  A session not constructed yet is closed, and
\* keys destroyed, without it.
Perform(op) ==
  CASE op = "generateRequest"   -> Backend!ConstructSession(Session, RequestedIds)
    [] op = "updateSession"     -> Backend!SessionUpdate(Session, Licence)
    [] op = "removeKeySession"  -> Backend!SessionRemove(Session)
    [] op = "releaseKeySession" -> Backend!DestructSession(Session)
    [] op = "closeKeySession" /\ Backend!Live(Session)  -> Backend!SessionClose(Session)
    [] op = "destroyMediaKeys" /\ Backend!Live(Session) -> Backend!DestructSession(Session)
    [] OTHER -> UNCHANGED backend

CallStep ==
  /\ Now.do = "call"
  /\ LET accepted == fault # Refuses(Now.what) /\ Accepts(Now.what)
     IN /\ IF accepted THEN Perform(Now.what) ELSE UNCHANGED backend
        /\ Judge(Script, accepted)
        /\ shown' = (shown \/ fault = Refuses(Now.what))
  /\ owners' = CASE Now.what = "createKeySession" ->
                      {"case"} \cup (IF fault = Ignores("weak") THEN {"keys"} ELSE {})
                 [] Now.what = "dropClient" -> owners \ {"case"}
                 [] OTHER -> owners
  /\ UNCHANGED <<fault, received>>

\* What the server has to do with an unknown session: refuse it with the error the case
\* expects of the call.
Unknowns == {"unknownGenerate", "unknownUpdate", "unknownClose", "unknownRemove"}

\* What a conforming server answers: the backend's answer, or the ids it keeps itself.
Answer(what) ==
  \/ what = "namesKid" /\ KidText \in {UrlEncode(id) : id \in requested[Session]}
  \/ what = "anyStatus" /\ statuses[Session] # {}
  \/ what = "usableKid" /\ Backend!Usable(Kid) \in statuses[Session]
  \/ what = "containsKey" /\ Kid \in held[Session]
  \/ what = "containsOtherKey" /\ OtherKid \in held[Session]
  \/ what = "expired" /\ owners = {}
  \/ what = "recognised" /\ Backend!Live(Session)
  \/ what \in {"validId", "requestId", "statusesId", "cdmId"} \cup Unknowns

GetStep ==
  LET answered == IF fault = Misanswers(Now.what) THEN ~Answer(Now.what) ELSE Answer(Now.what)
  IN /\ Now.do = "get"
     /\ Judge(Script, answered = Now.value)
     /\ shown' = (shown \/ answered # Answer(Now.what) \/ fault = Ignores("weak"))
     /\ UNCHANGED <<fault, backend, received, owners>>

\* Mutation: any callback wakes the wait.
AnyCallback(callback) == received # {}

\* waitForLicenseRequest, waitForKeyStatuses.
Received(callback) == callback \in received

\* Mutation: a wait without a deadline.
NoDeadline(reached) == FALSE

\* The deadline is longer than the wrapper takes for its tasks.
TimedOut(reached) == ~reached /\ tasks = << >>

AwaitStep ==
  /\ Now.do = "await"
  /\ \/ Received(Now.what) /\ Judge(Script, TRUE)
     \/ TimedOut(Received(Now.what)) /\ Judge(Script, FALSE)
  /\ UNCHANGED <<fault, shown, backend, received, owners>>

TestCase == ~Finished /\ (CallStep \/ GetStep \/ AwaitStep)

-----------------------------------------------------------------------------
Init == /\ ScriptInit(Cases, FaultsOf)
        /\ Backend!Init
        /\ received = {}
        /\ owners = {"case"}

Next == TestCase \/ WrapperTask

\* The test thread and the wrapper's main thread run on, and deadlines pass.
Spec == /\ Init /\ [][Next]_keysVars
        /\ WF_keysVars(TestCase) /\ WF_keysVars(WrapperTask)

-----------------------------------------------------------------------------
(***************************************************************************)
(* Properties.                                                             *)
(***************************************************************************)

\* The ClearKey backend passes every case, however the wrapper's tasks and the calls of
\* the case interleave: what it stores, announces and reports is what the cases expect.
BackendPasses == fault = Conforming => ~failed

\* A server with a fault the assertions of a case are there to catch never gets through,
\* once the fault has shown: no other callback stands in for the one that is missing.
FaultyKeysAreCaught == Finished /\ shown /\ fault \in Suite[case].catches => failed

\* Every case ends, whatever is refused or never called back.
KeysCaseEnds == <>Finished
===============================================================================
