---------------------------- MODULE ClearKeySession ----------------------------
(***************************************************************************)
(* Sessions of the ClearKey OpenCDM backend                                *)
(* (backends/opencdm/clearkey/open_cdm.cpp).  The server's main thread     *)
(* makes one call at a time; a call fires its callbacks before it returns, *)
(* and the Rialto wrapper (outside this repository) only enqueues a task   *)
(* for each, so what the client hears of a session lags behind it.         *)
(* A key id is a sequence of bytes, since its length is narrowed to a      *)
(* uint8_t on the way to the client.  Key values are never read back and   *)
(* are abstracted away, as is the JSON text: a licence is the sequence of  *)
(* the key ids of its entries, an entry that does not decode a Garbled one.*)
(***************************************************************************)
EXTENDS Naturals, Sequences, Functions

CONSTANTS Sessions,      \* sessions ever constructed: sessionCounter never repeats
          KeyIds,        \* key ids, non-empty sequences of bytes
          LengthModulus, \* 2^8 in the code: number of lengths a uint8_t holds
          MaxEntries,    \* bound: entries of a licence
          MaxCalls,      \* bound: calls made by the client
          Garbled        \* an entry whose kid or key does not decode, or is empty

ASSUME SessionAssumption ==
  /\ KeyIds \subseteq Seq(Nat) \ {<< >>}
  /\ LengthModulus \in Nat \ {0} /\ MaxEntries \in Nat \ {0} /\ MaxCalls \in Nat
  /\ Garbled \notin KeyIds

VARIABLES
  state,      \* "none", "open", "closed" (session->closed) or "gone" (destructed)
  held,       \* domain of session->keys
  calls,      \* calls so far
  tasks,      \* the wrapper's tasks, in the order the callbacks enqueued them
  gathered,   \* wrapper: key statuses of the batch under way
  requested,  \* client: the key ids its last licence request named
  statuses,   \* client: the key statuses it was last given
  told,       \* history: key ids reported Usable since they were last removed
  revoked,    \* history: key ids that were held and then removed
  silent      \* history: key ids held since an update that failed

cdm     == <<state, held>>
client  == <<gathered, requested, statuses>>
history == <<told, revoked, silent>>
vars == <<cdm, calls, tasks, client, history>>

-----------------------------------------------------------------------------
Licences == UNION {[1 .. n -> KeyIds \cup {Garbled}] : n \in 1 .. MaxEntries}

Challenge(s, ids) == [kind |-> "challenge", session |-> s, ids |-> ids]
KeyUpdate(s, id)  == [kind |-> "update", session |-> s, ids |-> {id}]
KeysUpdated(s)    == [kind |-> "complete", session |-> s, ids |-> {}]

\* A key id as a callback carries it: a pointer to its bytes, and a uint8_t length.
Narrowed(id) == SubSeq(id, 1, Len(id) % LengthModulus)

\* The key ids a client may hear of, and the report that one is usable.
HeardIds == KeyIds \cup {Narrowed(id) : id \in KeyIds}
Usable(id) == [id |-> id, status |-> "Usable"]

\* Mutation: an entry that does not decode is stored all the same.
EveryEntry(licence) == Range(licence)

\* Entries are stored one by one up to the first that does not decode.
Stored(licence) ==
  {licence[i] : i \in {i \in DOMAIN licence : \A j \in 1 .. i : licence[j] # Garbled}}

Decodes(licence) == Garbled \notin Range(licence)

Updates(s, ids) == [i \in DOMAIN ids |-> KeyUpdate(s, Narrowed(ids[i]))]

\* Mutations: each key is announced as it is stored; the last is left out.
NoticesAsStored(s, licence) ==
  Updates(s, SelectSeq(licence, LAMBDA id : id \in Stored(licence)))
    \o (IF Decodes(licence) THEN <<KeysUpdated(s)>> ELSE << >>)
NoticesButLast(s, licence) ==
  IF Decodes(licence)
  THEN Updates(s, SubSeq(licence, 1, Len(licence) - 1)) \o <<KeysUpdated(s)>>
  ELSE << >>

\* The callbacks fired by an update: one for each key, then the batch-complete
\* signal, and none if any entry does not decode.
Notices(s, licence) ==
  IF Decodes(licence) THEN Updates(s, licence) \o <<KeysUpdated(s)>> ELSE << >>

\* Mutation: a key is usable as soon as it has been asked for.
StatusOnRequest(s, id) == IF id \in held[s] \cup requested[s] THEN "Usable" ELSE "StatusPending"

\* opencdm_session_status.
Status(s, id) == IF id = << >> THEN "InternalError"
                 ELSE IF id \in held[s] THEN "Usable" ELSE "StatusPending"

Init ==
  /\ state = [s \in Sessions |-> "none"]
  /\ held = [s \in Sessions |-> {}]
  /\ calls = 0
  /\ tasks = << >>
  /\ gathered = [s \in Sessions |-> {}]
  /\ requested = [s \in Sessions |-> {}]
  /\ statuses = [s \in Sessions |-> {}]
  /\ told = [s \in Sessions |-> {}]
  /\ revoked = [s \in Sessions |-> {}]
  /\ silent = [s \in Sessions |-> {}]

-----------------------------------------------------------------------------
Call == calls < MaxCalls /\ calls' = calls + 1

Live(s) == state[s] \in {"open", "closed"}

\* Init data that names no decodable key id fails and leaves no session behind.
\* The request's length, cast to uint16_t (open_cdm.cpp:373), is kept as it is.
ConstructSession(s, ids) ==
  /\ Call
  /\ state[s] = "none" /\ ids # {}
  /\ state' = [state EXCEPT ![s] = "open"]
  /\ tasks' = Append(tasks, Challenge(s, ids))
  /\ UNCHANGED <<held, client, history>>

\* A closed session refuses the update and stays as it is.
SessionUpdate(s, licence) ==
  /\ Call
  /\ state[s] = "open"
  /\ held' = [held EXCEPT ![s] = @ \cup Stored(licence)]
  /\ tasks' = tasks \o Notices(s, licence)
  /\ silent' = [silent EXCEPT ![s] = IF Decodes(licence) THEN @ \ Stored(licence)
                                      ELSE @ \cup (Stored(licence) \ held[s])]
  /\ UNCHANGED <<state, client, told, revoked>>

\* Removing drops the keys, closed or not, and tells nobody.
SessionRemove(s) ==
  /\ Call
  /\ Live(s)
  /\ held' = [held EXCEPT ![s] = {}]
  /\ told' = [told EXCEPT ![s] = {}]
  /\ revoked' = [revoked EXCEPT ![s] = @ \cup held[s]]
  /\ silent' = [silent EXCEPT ![s] = {}]
  /\ UNCHANGED <<state, tasks, client>>

SessionClose(s) ==
  /\ Call
  /\ Live(s)
  /\ state' = [state EXCEPT ![s] = "closed"]
  /\ UNCHANGED <<held, tasks, client, history>>

DestructSession(s) ==
  /\ Call
  /\ Live(s)
  /\ state' = [state EXCEPT ![s] = "gone"]
  /\ held' = [held EXCEPT ![s] = {}]
  /\ revoked' = [revoked EXCEPT ![s] = @ \cup held[s]]
  /\ UNCHANGED <<tasks, client, told, silent>>

-----------------------------------------------------------------------------
(***************************************************************************)
(* The wrapper's tasks.                                                    *)
(***************************************************************************)
Task(s) == /\ tasks # << >> /\ Head(tasks).session = s
           /\ tasks' = Tail(tasks)
           /\ UNCHANGED <<cdm, calls, revoked, silent>>

\* Tasks of a destructed session are void.
DropTask(s) == /\ Task(s) /\ ~Live(s)
               /\ UNCHANGED <<client, told>>

\* The licence request reaches the client.
OnLicenseRequest(s) ==
  /\ Task(s) /\ Live(s) /\ Head(tasks).kind = "challenge"
  /\ requested' = [requested EXCEPT ![s] = Head(tasks).ids]
  /\ UNCHANGED <<gathered, statuses, told>>

\* The status of an announced key is asked for and put by.
AskStatus(s) ==
  /\ Task(s) /\ Live(s) /\ Head(tasks).kind = "update"
  /\ gathered' = [gathered EXCEPT ![s] =
                    @ \cup {[id |-> id, status |-> Status(s, id)] : id \in Head(tasks).ids}]
  /\ UNCHANGED <<requested, statuses, told>>

\* The client is given the statuses put by, in place of those of the last batch.
OnKeyStatusesChanged(s) ==
  /\ Task(s) /\ Live(s) /\ Head(tasks).kind = "complete"
  /\ statuses' = [statuses EXCEPT ![s] = gathered[s]]
  /\ gathered' = [gathered EXCEPT ![s] = {}]
  /\ told' = [told EXCEPT ![s] = @ \cup {id \in HeardIds : Usable(id) \in gathered[s]}]
  /\ UNCHANGED requested

Next == \E s \in Sessions :
  \/ \E ids \in SUBSET KeyIds : ConstructSession(s, ids)
  \/ \E licence \in Licences : SessionUpdate(s, licence)
  \/ SessionRemove(s) \/ SessionClose(s) \/ DestructSession(s)
  \/ DropTask(s) \/ OnLicenseRequest(s) \/ AskStatus(s) \/ OnKeyStatusesChanged(s)

Spec == Init /\ [][Next]_vars
-----------------------------------------------------------------------------
(***************************************************************************)
(* Properties.                                                             *)
(***************************************************************************)
Heard == [id : HeardIds, status : {"Usable", "StatusPending", "InternalError"}]
TaskRecords == [kind : {"challenge", "update", "complete"}, session : Sessions,
                ids : SUBSET HeardIds]

\* The types of the sessions' fields, of the wrapper's tasks and of the client's view.
TypeOK ==
  /\ state \in [Sessions -> {"none", "open", "closed", "gone"}]
  /\ held \in [Sessions -> SUBSET KeyIds]
  /\ calls \in Nat
  /\ tasks \in Seq(TaskRecords)
  /\ gathered \in [Sessions -> SUBSET Heard]
  /\ requested \in [Sessions -> SUBSET HeardIds]
  /\ statuses \in [Sessions -> SUBSET Heard]
  /\ told \in [Sessions -> SUBSET HeardIds]
  /\ revoked \in [Sessions -> SUBSET KeyIds]
  /\ silent \in [Sessions -> SUBSET KeyIds]

Announced(s, id) ==
  \E k \in DOMAIN tasks : tasks[k].session = s /\ tasks[k].kind = "update"
                          /\ id \in tasks[k].ids

\* The key reaches the client, or has reached it: it was reported Usable, it is in the
\* batch being gathered, or its announcement is on its way.
Reported(s, id) == \/ id \in told[s]
                   \/ Usable(id) \in gathered[s]
                   \/ Announced(s, id)

\* A key the client was told is usable was supplied by a licence, even where the id it
\* was told is a longer one cut short, and only removing or destroying the session can
\* have taken the key away since.
UsableWasSupplied ==
  \A s \in Sessions, id \in HeardIds :
    Usable(id) \in statuses[s] => id \in held[s] \cup revoked[s]

\* A key a session holds gets reported, whatever calls come between the callbacks and
\* the wrapper's tasks: only a key whose id does not fit a uint8_t length, or left
\* behind by an update that failed part-way, is held without the client hearing of it.
HeldIsReported ==
  \A s \in Sessions : \A id \in held[s] \ silent[s] :
    Len(id) < LengthModulus => Reported(s, id)

\* The per-key statuses the wrapper has gathered are always followed by the signal that
\* publishes them: a licence that fails part-way leaves no half-reported batch for a
\* later one to publish.
BatchIsCompleted ==
  \A s \in Sessions : gathered[s] # {} =>
    \/ state[s] = "gone"
    \/ \E k \in DOMAIN tasks : tasks[k] = KeysUpdated(s)

\* open_cdm.cpp:53-55 says that session_update "stores the keys, and fires
\* key_update_callback per key then keys_updated_callback": no key is stored without
\* being announced.
StoredIsAnnounced ==
  \A s \in Sessions : \A id \in held[s] : Len(id) < LengthModulus => Reported(s, id)
===============================================================================
