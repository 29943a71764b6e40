----------------------------- MODULE ClearKeyProofs -----------------------------
(***************************************************************************)
(* Proofs about the sessions of ClearKeySession: what the client is told   *)
(* is usable was supplied by a licence, every key stored by a licence that *)
(* decodes is reported, and a batch of reports is completed.               *)
(***************************************************************************)
EXTENDS ClearKeySession, TLAPS

-----------------------------------------------------------------------------
\* What is stored of a licence is the key ids of some of its entries, and of all of
\* them if it decodes.
LEMMA StoredIds ==
  ASSUME NEW licence \in Licences
  PROVE  /\ Stored(licence) \subseteq KeyIds
         /\ Decodes(licence) => /\ licence \in Seq(KeyIds)
                                /\ Stored(licence) = Range(licence)
  <1>1. PICK n \in 1 .. MaxEntries : licence \in [1 .. n -> KeyIds \cup {Garbled}]
    BY DEF Licences
  <1>2. ASSUME NEW i \in DOMAIN licence, \A j \in 1 .. i : licence[j] # Garbled
        PROVE  licence[i] \in KeyIds
    BY <1>1, <1>2
  <1>3. Stored(licence) \subseteq KeyIds
    BY <1>2 DEF Stored
  <1>4. ASSUME Decodes(licence)
        PROVE  licence \in Seq(KeyIds) /\ Stored(licence) = Range(licence)
    <2>1. \A i \in DOMAIN licence : licence[i] # Garbled
      BY <1>4 DEF Decodes, Range
    <2>2. n \in Nat /\ licence \in [1 .. n -> KeyIds]
      BY <1>1, <2>1, SessionAssumption
    <2>3. licence \in Seq(KeyIds)
      BY <2>2
    <2>4. \A i \in DOMAIN licence : \A j \in 1 .. i : licence[j] # Garbled
      BY <2>1, <2>2
    <2>5. QED
      BY <2>3, <2>4 DEF Stored, Range
  <1>5. QED
    BY <1>3, <1>4

\* A key id whose length fits the counter reaches the client whole.
LEMMA ShortIdKept ==
  ASSUME NEW id \in KeyIds, Len(id) < LengthModulus
  PROVE  Narrowed(id) = id
  <1>1. id \in Seq(Nat) /\ Len(id) \in Nat /\ LengthModulus \in Nat \ {0}
    BY SessionAssumption
  <1>2. Len(id) % LengthModulus = Len(id)
    BY <1>1
  <1>3. SubSeq(id, 1, Len(id)) = id
    BY <1>1
  <1>4. QED
    BY <1>2, <1>3 DEF Narrowed

\* The tasks an update enqueues, and that each stored key is announced among them.
LEMMA NoticesAnnounce ==
  ASSUME NEW s \in Sessions, NEW licence \in Licences
  PROVE  /\ Notices(s, licence) \in Seq(TaskRecords)
         /\ Decodes(licence) =>
              \A id \in Stored(licence) : Len(id) < LengthModulus =>
                \E k \in DOMAIN Notices(s, licence) :
                   Notices(s, licence)[k] = KeyUpdate(s, id)
  <1>1. CASE ~Decodes(licence)
    BY <1>1 DEF Notices
  <1>2. CASE Decodes(licence)
    <2> DEFINE updates == Updates(s, licence)
    <2>1. licence \in Seq(KeyIds) /\ Stored(licence) = Range(licence)
      BY <1>2, StoredIds
    <2>2. \A i \in DOMAIN licence : /\ KeyUpdate(s, Narrowed(licence[i])) \in TaskRecords
                                    /\ updates[i] = KeyUpdate(s, Narrowed(licence[i]))
      BY <2>1 DEF KeyUpdate, TaskRecords, HeardIds, Updates
    <2>3. updates \in Seq(TaskRecords) /\ Len(updates) = Len(licence)
      BY <2>1, <2>2 DEF Updates
    <2>4. KeysUpdated(s) \in TaskRecords
      BY DEF KeysUpdated, TaskRecords
    <2>5. Notices(s, licence) = updates \o <<KeysUpdated(s)>>
      BY <1>2 DEF Notices
    <2>6. Notices(s, licence) \in Seq(TaskRecords)
      BY <2>3, <2>4, <2>5
    <2>7. ASSUME NEW id \in Stored(licence), Len(id) < LengthModulus
          PROVE  \E k \in DOMAIN Notices(s, licence) : Notices(s, licence)[k] = KeyUpdate(s, id)
      <3>1. PICK i \in DOMAIN licence : licence[i] = id
        BY <2>1, <2>7 DEF Range
      <3>2. Narrowed(id) = id
        BY <2>7, StoredIds, ShortIdKept
      <3>3. i \in DOMAIN Notices(s, licence) /\ Notices(s, licence)[i] = updates[i]
        BY <2>1, <2>3, <2>4, <2>5, <3>1
      <3>4. QED
        BY <2>2, <3>1, <3>2, <3>3
    <2>8. QED
      BY <2>6, <2>7
  <1>3. QED
    BY <1>1, <1>2

-----------------------------------------------------------------------------
\* Only live sessions hold keys: an update needs an open session, and destroying one
\* discards its keys.
DeadHoldNothing == \A s \in Sessions : ~Live(s) => held[s] = {}

\* What the wrapper has put by as usable was supplied as well: it is what the client
\* is told next.
GatheredWasSupplied ==
  \A s \in Sessions, id \in HeardIds :
    Usable(id) \in gathered[s] => id \in held[s] \cup revoked[s]

\* Each call, and each task, keeps the types.
LEMMA SessionTypes ==
  ASSUME TypeOK, [Next]_vars
  PROVE  TypeOK'
  <1> USE DEF TypeOK, cdm, client, history
  <1>1. CASE UNCHANGED vars
    BY <1>1 DEF vars
  <1>2. ASSUME NEW s \in Sessions, NEW ids \in SUBSET KeyIds, ConstructSession(s, ids)
        PROVE  TypeOK'
    <2>1. Challenge(s, ids) \in TaskRecords
      BY DEF Challenge, TaskRecords, HeardIds
    <2>2. tasks' \in Seq(TaskRecords)
      BY <1>2, <2>1 DEF ConstructSession
    <2>3. QED
      BY <1>2, <2>2, SessionAssumption DEF ConstructSession, Call
  <1>3. ASSUME NEW s \in Sessions, NEW licence \in Licences, SessionUpdate(s, licence)
        PROVE  TypeOK'
    <2>1. tasks' \in Seq(TaskRecords)
      BY <1>3, NoticesAnnounce DEF SessionUpdate
    <2>2. Stored(licence) \subseteq KeyIds
      BY StoredIds
    <2>3. QED
      BY <1>3, <2>1, <2>2, SessionAssumption DEF SessionUpdate, Call
  <1>4. ASSUME NEW s \in Sessions, SessionRemove(s) \/ SessionClose(s) \/ DestructSession(s)
        PROVE  TypeOK'
    <2>1. calls' \in Nat
      BY <1>4, SessionAssumption DEF SessionRemove, SessionClose, DestructSession, Call
    <2>2. CASE SessionRemove(s)
      BY <2>1, <2>2 DEF SessionRemove
    <2>3. CASE SessionClose(s)
      BY <2>1, <2>3 DEF SessionClose
    <2>4. CASE DestructSession(s)
      BY <2>1, <2>4 DEF DestructSession
    <2>5. QED
      BY <1>4, <2>2, <2>3, <2>4
  <1>5. ASSUME NEW s \in Sessions, Task(s)
        PROVE  Head(tasks) \in TaskRecords /\ tasks' \in Seq(TaskRecords)
    BY <1>5 DEF Task
  <1>6. ASSUME NEW s \in Sessions, DropTask(s)
        PROVE  TypeOK'
    BY <1>5, <1>6 DEF DropTask, Task
  <1>7. ASSUME NEW s \in Sessions, OnLicenseRequest(s)
        PROVE  TypeOK'
    BY <1>5, <1>7 DEF OnLicenseRequest, Task, TaskRecords
  <1>8. ASSUME NEW s \in Sessions, AskStatus(s)
        PROVE  TypeOK'
    <2>1. \A id \in Head(tasks).ids : [id |-> id, status |-> Status(s, id)] \in Heard
      BY <1>5, <1>8 DEF AskStatus, TaskRecords, Heard, Status
    <2>2. QED
      BY <1>5, <1>8, <2>1 DEF AskStatus, Task
  <1>9. ASSUME NEW s \in Sessions, OnKeyStatusesChanged(s)
        PROVE  TypeOK'
    BY <1>5, <1>9 DEF OnKeyStatusesChanged, Task
  <1>10. QED
    BY <1>1, <1>2, <1>3, <1>4, <1>6, <1>7, <1>8, <1>9 DEF Next

\* The client is told a key is usable only if a licence supplied it.
LEMMA SuppliedStep ==
  ASSUME TypeOK, TypeOK', DeadHoldNothing, GatheredWasSupplied, UsableWasSupplied, [Next]_vars
  PROVE  /\ DeadHoldNothing' /\ GatheredWasSupplied' /\ UsableWasSupplied'
  <1> USE DEF cdm, client, history
  <1>1. CASE UNCHANGED vars
    BY <1>1 DEF vars, DeadHoldNothing, GatheredWasSupplied, UsableWasSupplied, Live
  <1>2. ASSUME NEW s \in Sessions, NEW ids \in SUBSET KeyIds, ConstructSession(s, ids)
        PROVE  /\ DeadHoldNothing' /\ GatheredWasSupplied' /\ UsableWasSupplied'
    BY <1>2 DEF ConstructSession, TypeOK, DeadHoldNothing, GatheredWasSupplied,
                UsableWasSupplied, Live
  <1>3. ASSUME NEW s \in Sessions, NEW licence \in Licences, SessionUpdate(s, licence)
        PROVE  /\ DeadHoldNothing' /\ GatheredWasSupplied' /\ UsableWasSupplied'
    BY <1>3 DEF SessionUpdate, TypeOK, DeadHoldNothing, GatheredWasSupplied,
                UsableWasSupplied, Live
  <1>4. ASSUME NEW s \in Sessions, SessionRemove(s) \/ DestructSession(s)
        PROVE  /\ DeadHoldNothing' /\ GatheredWasSupplied' /\ UsableWasSupplied'
    <2>1. /\ held' = [held EXCEPT ![s] = {}]
          /\ revoked' = [revoked EXCEPT ![s] = @ \cup held[s]]
          /\ UNCHANGED <<gathered, statuses>>
      BY <1>4 DEF SessionRemove, DestructSession
    <2>2. \A t \in Sessions : held'[t] \cup revoked'[t] = held[t] \cup revoked[t]
      BY <2>1 DEF TypeOK
    <2>3. DeadHoldNothing'
      BY <1>4 DEF SessionRemove, DestructSession, TypeOK, DeadHoldNothing, Live
    <2>4. QED
      BY <2>1, <2>2, <2>3 DEF GatheredWasSupplied, UsableWasSupplied
  <1>5. ASSUME NEW s \in Sessions, SessionClose(s)
        PROVE  /\ DeadHoldNothing' /\ GatheredWasSupplied' /\ UsableWasSupplied'
    BY <1>5 DEF SessionClose, TypeOK, DeadHoldNothing, GatheredWasSupplied,
                UsableWasSupplied, Live
  <1>6. ASSUME NEW s \in Sessions, DropTask(s) \/ OnLicenseRequest(s)
        PROVE  /\ DeadHoldNothing' /\ GatheredWasSupplied' /\ UsableWasSupplied'
    BY <1>6 DEF DropTask, OnLicenseRequest, Task, DeadHoldNothing, GatheredWasSupplied,
                UsableWasSupplied, Live
  <1>7. ASSUME NEW s \in Sessions, AskStatus(s)
        PROVE  /\ DeadHoldNothing' /\ GatheredWasSupplied' /\ UsableWasSupplied'
    <2>1. /\ gathered' = [gathered EXCEPT ![s] = @ \cup
                 {[id |-> id, status |-> Status(s, id)] : id \in Head(tasks).ids}]
          /\ UNCHANGED <<state, held, revoked, statuses>>
      BY <1>7 DEF AskStatus, Task
    <2>2. ASSUME NEW id \in HeardIds, Usable(id) \in gathered'[s]
          PROVE  Usable(id) \in gathered[s] \/ id \in held[s]
      <3>1. CASE Usable(id) \in gathered[s]
        BY <3>1
      <3>2. CASE Usable(id) \notin gathered[s]
        <4>1. PICK other \in Head(tasks).ids :
                Usable(id) = [id |-> other, status |-> Status(s, other)]
          BY <2>1, <2>2, <3>2 DEF TypeOK
        <4>2. id = other /\ Status(s, id) = "Usable"
          BY <4>1 DEF Usable
        <4>3. QED
          BY <4>2 DEF Status
      <3>3. QED
        BY <3>1, <3>2
    <2>3. GatheredWasSupplied'
      BY <2>1, <2>2 DEF TypeOK, GatheredWasSupplied
    <2>4. QED
      BY <2>1, <2>3 DEF DeadHoldNothing, UsableWasSupplied, Live
  <1>8. ASSUME NEW s \in Sessions, OnKeyStatusesChanged(s)
        PROVE  /\ DeadHoldNothing' /\ GatheredWasSupplied' /\ UsableWasSupplied'
    <2>1. /\ statuses' = [statuses EXCEPT ![s] = gathered[s]]
          /\ gathered' = [gathered EXCEPT ![s] = {}]
          /\ UNCHANGED <<state, held, revoked>>
      BY <1>8 DEF OnKeyStatusesChanged, Task
    <2>2. QED
      BY <2>1 DEF TypeOK, DeadHoldNothing, GatheredWasSupplied, UsableWasSupplied, Live
  <1>9. QED
    BY <1>1, <1>2, <1>3, <1>4, <1>5, <1>6, <1>7, <1>8 DEF Next

\* Every reachable state of the sessions has the right types, for every set of key ids
\* and licence length.
THEOREM SessionTypeCorrect == Spec => []TypeOK
  <1>1. Init => TypeOK
    BY DEF Init, TypeOK
  <1>2. QED
    BY <1>1, SessionTypes, PTL DEF Spec

\* What onKeyStatusesChanged reports usable was supplied by a licence, for key ids of
\* every length and every interleaving of calls with the wrapper's tasks.
THEOREM UsableIsSupplied == Spec => []UsableWasSupplied
  <1>1. Init => DeadHoldNothing /\ GatheredWasSupplied /\ UsableWasSupplied
    BY DEF Init, DeadHoldNothing, GatheredWasSupplied, UsableWasSupplied
  <1>2. QED
    BY <1>1, SuppliedStep, SessionTypeCorrect, PTL DEF Spec

-----------------------------------------------------------------------------
\* Enqueuing tasks keeps what is announced, and announces the ids they are for.
LEMMA AnnouncedByMore ==
  ASSUME tasks \in Seq(TaskRecords), NEW more \in Seq(TaskRecords), tasks' = tasks \o more,
         NEW s, NEW id,
         Announced(s, id) \/ \E k \in DOMAIN more : more[k] = KeyUpdate(s, id)
  PROVE  Announced(s, id)'
  <1>1. CASE Announced(s, id)
    <2>1. PICK k \in DOMAIN tasks : /\ tasks[k].session = s /\ tasks[k].kind = "update"
                                    /\ id \in tasks[k].ids
      BY <1>1 DEF Announced
    <2>2. k \in DOMAIN tasks' /\ tasks'[k] = tasks[k]
      OBVIOUS
    <2>3. QED
      BY <2>1, <2>2 DEF Announced
  <1>2. CASE \E k \in DOMAIN more : more[k] = KeyUpdate(s, id)
    <2>1. PICK k \in DOMAIN more : more[k] = KeyUpdate(s, id)
      BY <1>2
    <2>2. Len(tasks) + k \in DOMAIN tasks' /\ tasks'[Len(tasks) + k] = more[k]
      OBVIOUS
    <2>3. /\ tasks'[Len(tasks) + k].session = s
          /\ tasks'[Len(tasks) + k].kind = "update"
          /\ id \in tasks'[Len(tasks) + k].ids
      BY <2>1, <2>2 DEF KeyUpdate
    <2>4. QED
      BY <2>2, <2>3 DEF Announced
  <1>3. QED
    BY <1>1, <1>2

\* Doing the first task leaves every other announcement in the queue.
LEMMA AnnouncedByRest ==
  ASSUME tasks \in Seq(TaskRecords), tasks # << >>, tasks' = Tail(tasks),
         NEW s, NEW id, Announced(s, id),
         ~(Head(tasks).session = s /\ Head(tasks).kind = "update" /\ id \in Head(tasks).ids)
  PROVE  Announced(s, id)'
  <1>1. PICK k \in DOMAIN tasks : /\ tasks[k].session = s /\ tasks[k].kind = "update"
                                  /\ id \in tasks[k].ids
    BY DEF Announced
  <1>2. k # 1
    BY <1>1
  <1>3. k - 1 \in DOMAIN tasks' /\ tasks'[k - 1] = tasks[k]
    BY <1>2
  <1>4. QED
    BY <1>1, <1>3 DEF Announced

\* A key that is held, not silent and short is reported, and stays so while it is held.
LEMMA ReportedStep ==
  ASSUME TypeOK, TypeOK', DeadHoldNothing, HeldIsReported, [Next]_vars
  PROVE  HeldIsReported'
  <1> USE DEF cdm, client, history
  <1> SUFFICES ASSUME NEW t \in Sessions, NEW id \in held'[t] \ silent'[t],
                      Len(id) < LengthModulus
               PROVE  Reported(t, id)'
    BY DEF HeldIsReported
  <1>0. id \in KeyIds /\ id # << >> /\ tasks \in Seq(TaskRecords)
    BY SessionAssumption DEF TypeOK
  <1>a. id \in held[t] /\ id \notin silent[t] => Reported(t, id)
    BY DEF HeldIsReported
  <1>1. CASE UNCHANGED vars
    BY <1>1, <1>a DEF vars, Reported, Announced
  <1>2. ASSUME NEW s \in Sessions, NEW ids \in SUBSET KeyIds, ConstructSession(s, ids)
        PROVE  Reported(t, id)'
    <2>1. /\ tasks' = tasks \o <<Challenge(s, ids)>>
          /\ <<Challenge(s, ids)>> \in Seq(TaskRecords)
      BY <1>0, <1>2 DEF ConstructSession, Challenge, TaskRecords, HeardIds
    <2>2. UNCHANGED <<held, gathered, told, silent>>
      BY <1>2 DEF ConstructSession
    <2>3. QED
      BY <1>0, <1>a, <2>1, <2>2, AnnouncedByMore DEF Reported
  <1>3. ASSUME NEW s \in Sessions, NEW licence \in Licences, SessionUpdate(s, licence)
        PROVE  Reported(t, id)'
    <2>1. Stored(licence) \subseteq KeyIds /\ Notices(s, licence) \in Seq(TaskRecords)
      BY StoredIds, NoticesAnnounce
    <2>2. tasks' = tasks \o Notices(s, licence) /\ UNCHANGED <<gathered, told>>
      BY <1>3 DEF SessionUpdate
    <2>3. CASE id \in held[t] /\ id \notin silent[t]
      BY <1>0, <1>a, <2>1, <2>2, <2>3, AnnouncedByMore DEF Reported
    <2>4. CASE ~(id \in held[t] /\ id \notin silent[t])
      <3>1. t = s /\ Decodes(licence) /\ id \in Stored(licence)
        BY <1>3, <2>4 DEF SessionUpdate, TypeOK
      <3>2. \E k \in DOMAIN Notices(s, licence) : Notices(s, licence)[k] = KeyUpdate(s, id)
        BY <3>1, NoticesAnnounce
      <3>3. QED
        BY <1>0, <2>1, <2>2, <3>1, <3>2, AnnouncedByMore DEF Reported
    <2>5. QED
      BY <2>3, <2>4
  <1>4. ASSUME NEW s \in Sessions, SessionRemove(s) \/ DestructSession(s)
        PROVE  Reported(t, id)'
    <2>1. t # s
      BY <1>4 DEF SessionRemove, DestructSession, TypeOK
    <2>2. /\ held'[t] = held[t] /\ silent'[t] = silent[t] /\ told'[t] = told[t]
          /\ UNCHANGED <<tasks, gathered>>
      BY <1>4, <2>1 DEF SessionRemove, DestructSession, TypeOK
    <2>3. QED
      BY <1>a, <2>2 DEF Reported, Announced
  <1>5. ASSUME NEW s \in Sessions, SessionClose(s)
        PROVE  Reported(t, id)'
    BY <1>5, <1>a DEF SessionClose, Reported, Announced
  <1>6. ASSUME NEW s \in Sessions, Task(s), Live(s) \/ DropTask(s)
        PROVE  /\ id \in held[t] /\ Reported(t, id)
               /\ Announced(t, id) => \/ Announced(t, id)'
                                      \/ /\ t = s /\ Live(s) /\ Head(tasks).kind = "update"
                                         /\ id \in Head(tasks).ids
    <2>1. UNCHANGED <<state, held, silent>> /\ tasks # << >> /\ tasks' = Tail(tasks)
          /\ Head(tasks).session = s
      BY <1>6 DEF Task
    <2>2. id \in held[t] /\ Reported(t, id)
      BY <1>a, <2>1
    <2>3. t = s => Live(s)
      BY <2>2 DEF DeadHoldNothing
    <2>4. QED
      BY <1>0, <2>1, <2>2, <2>3, AnnouncedByRest
  <1>7. ASSUME NEW s \in Sessions, DropTask(s) \/ OnLicenseRequest(s)
        PROVE  Reported(t, id)'
    <2>1. UNCHANGED <<gathered, told>> /\ Task(s) /\ (Live(s) \/ DropTask(s))
      BY <1>7 DEF DropTask, OnLicenseRequest
    <2>2. ~(Live(s) /\ Head(tasks).kind = "update")
      BY <1>7 DEF DropTask, OnLicenseRequest
    <2>3. QED
      BY <1>6, <2>1, <2>2 DEF Reported
  <1>8. ASSUME NEW s \in Sessions, AskStatus(s)
        PROVE  Reported(t, id)'
    <2>1. /\ Task(s) /\ Live(s) /\ UNCHANGED told
          /\ gathered' = [gathered EXCEPT ![s] = @ \cup
                 {[id |-> other, status |-> Status(s, other)] : other \in Head(tasks).ids}]
      BY <1>8 DEF AskStatus
    <2>2. \A x \in Sessions : gathered[x] \subseteq gathered'[x]
      BY <2>1 DEF TypeOK
    <2>3. ASSUME t = s, id \in Head(tasks).ids
          PROVE  Usable(id) \in gathered'[t]
      <3>1. Status(s, id) = "Usable"
        BY <1>0, <1>6, <2>1, <2>3 DEF Status
      <3>2. QED
        BY <2>1, <2>3, <3>1 DEF TypeOK, Usable
    <2>4. QED
      BY <1>6, <2>1, <2>2, <2>3 DEF Reported
  <1>9. ASSUME NEW s \in Sessions, OnKeyStatusesChanged(s)
        PROVE  Reported(t, id)'
    <2>1. /\ Task(s) /\ Live(s) /\ Head(tasks).kind = "complete"
          /\ gathered' = [gathered EXCEPT ![s] = {}]
          /\ told' = [told EXCEPT ![s] = @ \cup {x \in HeardIds : Usable(x) \in gathered[s]}]
      BY <1>9 DEF OnKeyStatusesChanged
    <2>2. id \in HeardIds
      BY <1>0 DEF HeardIds
    <2>3. id \in told[t] \/ Usable(id) \in gathered[t] =>
            id \in told'[t] \/ Usable(id) \in gathered'[t]
      BY <2>1, <2>2 DEF TypeOK
    <2>4. QED
      BY <1>6, <2>1, <2>3 DEF Reported
  <1>10. QED
    BY <1>1, <1>2, <1>3, <1>4, <1>5, <1>7, <1>8, <1>9 DEF Next

\* A key stored by a licence that decodes is reported usable, or its report is on its
\* way, until it is removed: for every number of sessions and keys, and every
\* interleaving of calls with the wrapper's tasks.
THEOREM HeldReported == Spec => []HeldIsReported
  <1>1. Init => DeadHoldNothing /\ GatheredWasSupplied /\ UsableWasSupplied /\ HeldIsReported
    BY DEF Init, DeadHoldNothing, GatheredWasSupplied, UsableWasSupplied, HeldIsReported
  <1>2. QED
    BY <1>1, SuppliedStep, ReportedStep, SessionTypeCorrect, PTL DEF Spec

-----------------------------------------------------------------------------
UpdateAt(s, k) == k \in DOMAIN tasks /\ tasks[k].session = s /\ tasks[k].kind = "update"

\* A signal that completes a batch of s is among the tasks behind this place.
CompletedAfter(s, k) == \E j \in Nat : k < j /\ j \in DOMAIN tasks /\ tasks[j] = KeysUpdated(s)

\* The announcement of a key is followed by the signal that completes its batch.
UpdatesCompleted ==
  \A s \in Sessions, k \in Nat : UpdateAt(s, k) => CompletedAfter(s, k)

\* Nothing is gathered of a session that does not exist yet.
UnbornGatherNothing == \A s \in Sessions : state[s] = "none" => gathered[s] = {}

BatchInv == UpdatesCompleted /\ UnbornGatherNothing /\ BatchIsCompleted

\* The tasks an update enqueues end with the signal, if they announce anything.
LEMMA NoticesComplete ==
  ASSUME NEW s \in Sessions, NEW licence \in Licences, NEW k \in DOMAIN Notices(s, licence),
         Notices(s, licence)[k].kind = "update"
  PROVE  \E j \in DOMAIN Notices(s, licence) :
           k < j /\ Notices(s, licence)[j] = KeysUpdated(s)
  <1> DEFINE updates == Updates(s, licence)
  <1>1. Decodes(licence) /\ Notices(s, licence) = updates \o <<KeysUpdated(s)>>
    BY DEF Notices
  <1>2. licence \in Seq(KeyIds)
    BY <1>1, StoredIds
  <1>3. PICK n \in Nat : DOMAIN licence = 1 .. n
    BY <1>2
  <1>4. \A i \in DOMAIN licence : updates[i] = KeyUpdate(s, Narrowed(licence[i]))
    BY DEF Updates
  <1>5. \A i \in DOMAIN licence : updates[i] \in TaskRecords
    <2> SUFFICES ASSUME NEW i \in DOMAIN licence
                 PROVE  KeyUpdate(s, Narrowed(licence[i])) \in TaskRecords
      BY <1>4
    <2>1. licence[i] \in KeyIds
      BY <1>2
    <2>2. Narrowed(licence[i]) \in HeardIds
      BY <2>1 DEF HeardIds
    <2>3. QED
      BY <2>2 DEF KeyUpdate, TaskRecords
  <1>6. updates \in Seq(TaskRecords) /\ Len(updates) = n
    BY <1>2, <1>3, <1>5 DEF Updates
  <1>7. KeysUpdated(s).kind = "complete"
    BY DEF KeysUpdated
  <1> HIDE DEF updates
  <1>8. /\ n + 1 \in DOMAIN Notices(s, licence)
        /\ Notices(s, licence)[n + 1] = KeysUpdated(s)
        /\ k \in 1 .. n + 1
    BY <1>1, <1>6
  <1>9. k < n + 1
    BY <1>7, <1>8
  <1>10. QED
    BY <1>8, <1>9

\* Enqueuing tasks moves none of those before them.
LEMMA MorePlaces ==
  ASSUME tasks \in Seq(TaskRecords), NEW more \in Seq(TaskRecords), tasks' = tasks \o more
  PROVE  /\ Len(tasks) \in Nat
         /\ \A k \in DOMAIN tasks : k \in Nat /\ k \in DOMAIN tasks' /\ tasks'[k] = tasks[k]
         /\ \A k \in DOMAIN more : /\ k \in Nat /\ Len(tasks) + k \in DOMAIN tasks'
                                   /\ tasks'[Len(tasks) + k] = more[k]
         /\ \A k \in DOMAIN tasks' : \/ k \in DOMAIN tasks
                                     \/ \E i \in DOMAIN more : k = Len(tasks) + i
  <1>1. Len(tasks) \in Nat /\ Len(more) \in Nat
    OBVIOUS
  <1>2. \A k \in DOMAIN tasks : k \in Nat /\ k \in DOMAIN tasks' /\ tasks'[k] = tasks[k]
    OBVIOUS
  <1>3. \A k \in DOMAIN more : /\ k \in Nat /\ Len(tasks) + k \in DOMAIN tasks'
                               /\ tasks'[Len(tasks) + k] = more[k]
    OBVIOUS
  <1>4. ASSUME NEW k \in DOMAIN tasks', k \notin DOMAIN tasks
        PROVE  \E i \in DOMAIN more : k = Len(tasks) + i
    <2>1. k \in 1 .. Len(tasks) + Len(more) /\ k \notin 1 .. Len(tasks)
      BY <1>4
    <2>2. k - Len(tasks) \in 1 .. Len(more) /\ k = Len(tasks) + (k - Len(tasks))
      BY <1>1, <2>1
    <2>3. DOMAIN more = 1 .. Len(more)
      OBVIOUS
    <2>4. QED
      BY <2>2, <2>3
  <1>5. QED
    BY <1>1, <1>2, <1>3, <1>4

\* So a batch that was followed by its signal still is, and one that is added complete
\* is so too.
LEMMA CompletedByMore ==
  ASSUME tasks \in Seq(TaskRecords), NEW more \in Seq(TaskRecords), tasks' = tasks \o more,
         UpdatesCompleted, BatchIsCompleted,
         UNCHANGED gathered, \A s \in Sessions : state[s] = "gone" => state'[s] = "gone",
         \A k \in DOMAIN more : more[k].kind = "update" =>
           \E j \in DOMAIN more : k < j /\ more[j] = KeysUpdated(more[k].session)
  PROVE  UpdatesCompleted' /\ BatchIsCompleted'
  <1>1. \A s : \A k \in Nat : CompletedAfter(s, k) => CompletedAfter(s, k)'
    BY MorePlaces DEF CompletedAfter
  <1>2. UpdatesCompleted'
    <2> SUFFICES ASSUME NEW s \in Sessions, NEW k \in Nat, UpdateAt(s, k)'
                 PROVE  CompletedAfter(s, k)'
      BY DEF UpdatesCompleted
    <2>1. CASE k \in DOMAIN tasks
      <3>1. UpdateAt(s, k)
        BY <2>1, MorePlaces DEF UpdateAt
      <3>2. QED
        BY <1>1, <3>1 DEF UpdatesCompleted
    <2>2. ASSUME NEW i \in DOMAIN more, k = Len(tasks) + i
          PROVE  CompletedAfter(s, k)'
      <3>1. more[i].kind = "update" /\ more[i].session = s
        BY <2>2, MorePlaces DEF UpdateAt
      <3>2. PICK j \in DOMAIN more : i < j /\ more[j] = KeysUpdated(s)
        BY <3>1
      <3>3. PICK m \in Nat : m = Len(tasks) + j
        BY MorePlaces
      <3>4. m \in DOMAIN tasks' /\ tasks'[m] = KeysUpdated(s) /\ k < m
        BY <2>2, <3>2, <3>3, MorePlaces
      <3>5. QED
        BY <3>4 DEF CompletedAfter
    <2>3. QED
      BY <2>1, <2>2, MorePlaces DEF UpdateAt
  <1>3. BatchIsCompleted'
    <2> SUFFICES ASSUME NEW s \in Sessions, gathered[s] # {}, state[s] # "gone"
                 PROVE  \E k \in DOMAIN tasks' : tasks'[k] = KeysUpdated(s)
      BY DEF BatchIsCompleted
    <2>1. PICK k \in DOMAIN tasks : tasks[k] = KeysUpdated(s)
      BY DEF BatchIsCompleted
    <2>2. k \in DOMAIN tasks' /\ tasks'[k] = tasks[k]
      BY MorePlaces
    <2>3. QED
      BY <2>1, <2>2
  <1>4. QED
    BY <1>2, <1>3

\* Doing the first task moves the others one place forward.
LEMMA RestPlaces ==
  ASSUME tasks \in Seq(TaskRecords), tasks # << >>, tasks' = Tail(tasks)
  PROVE  /\ 1 \in DOMAIN tasks /\ Head(tasks) = tasks[1]
         /\ \A k \in Nat : k \in DOMAIN tasks' =>
              k # 0 /\ k + 1 \in DOMAIN tasks /\ tasks'[k] = tasks[k + 1]
         /\ \A k \in DOMAIN tasks : k \in Nat /\ k > 0
         /\ \A k \in DOMAIN tasks : k # 1 => /\ k - 1 \in Nat /\ k - 1 \in DOMAIN tasks'
                                             /\ tasks'[k - 1] = tasks[k]
  OBVIOUS

\* So the signals behind a place stay behind it.
LEMMA CompletedByRest ==
  ASSUME tasks \in Seq(TaskRecords), tasks # << >>, tasks' = Tail(tasks), UpdatesCompleted
  PROVE  /\ UpdatesCompleted'
         /\ \A s : CompletedAfter(s, 1) => CompletedAfter(s, 0)'
         /\ \A s : CompletedAfter(s, 0) /\ Head(tasks) # KeysUpdated(s) => CompletedAfter(s, 0)'
  <1>1. ASSUME NEW s, NEW k \in Nat, CompletedAfter(s, k + 1)
        PROVE  CompletedAfter(s, k)'
    <2>1. PICK j \in Nat : k + 1 < j /\ j \in DOMAIN tasks /\ tasks[j] = KeysUpdated(s)
      BY <1>1 DEF CompletedAfter
    <2>2. j # 1
      BY <2>1
    <2>3. PICK m \in Nat : m = j - 1 /\ m \in DOMAIN tasks' /\ tasks'[m] = KeysUpdated(s)
      BY <2>1, <2>2, RestPlaces
    <2>4. k < m
      BY <2>1, <2>3
    <2>5. QED
      BY <2>3, <2>4 DEF CompletedAfter
  <1>2. UpdatesCompleted'
    <2> SUFFICES ASSUME NEW s \in Sessions, NEW k \in Nat, UpdateAt(s, k)'
                 PROVE  CompletedAfter(s, k)'
      BY DEF UpdatesCompleted
    <2>1. UpdateAt(s, k + 1) /\ k + 1 \in Nat
      BY RestPlaces DEF UpdateAt
    <2>2. QED
      BY <1>1, <2>1 DEF UpdatesCompleted
  <1>3. \A s : CompletedAfter(s, 0 + 1) => CompletedAfter(s, 0)'
    BY <1>1
  <1>4. ASSUME NEW s, CompletedAfter(s, 0), Head(tasks) # KeysUpdated(s)
        PROVE  CompletedAfter(s, 0 + 1)
    <2>1. PICK j \in Nat : j \in DOMAIN tasks /\ tasks[j] = KeysUpdated(s)
      BY <1>4 DEF CompletedAfter
    <2>2. j # 1 /\ j > 0
      BY <1>4, <2>1, RestPlaces
    <2>3. QED
      BY <2>1, <2>2 DEF CompletedAfter
  <1>5. QED
    BY <1>2, <1>3, <1>4

\* A batch that has been begun is completed.
LEMMA BatchStep ==
  ASSUME TypeOK, BatchInv, [Next]_vars
  PROVE  BatchInv'
  <1> USE DEF cdm, client, history, BatchInv
  <1>0. tasks \in Seq(TaskRecords)
    BY DEF TypeOK
  <1>a. \A s \in Sessions : gathered[s] # {} => state[s] = "gone" \/ CompletedAfter(s, 0)
    BY <1>0 DEF BatchIsCompleted, CompletedAfter
  <1>1. ASSUME UNCHANGED <<tasks, gathered>>,
               \A s \in Sessions : state[s] = "gone" => state'[s] = "gone",
               \A s \in Sessions : state'[s] = "none" => state[s] = "none"
        PROVE  BatchInv'
    BY <1>1 DEF UpdatesCompleted, UpdateAt, CompletedAfter, UnbornGatherNothing,
                BatchIsCompleted
  <1>2. CASE UNCHANGED vars
    BY <1>1, <1>2 DEF vars
  <1>3. ASSUME NEW s \in Sessions, NEW ids \in SUBSET KeyIds, ConstructSession(s, ids)
        PROVE  BatchInv'
    <2>1. /\ <<Challenge(s, ids)>> \in Seq(TaskRecords)
          /\ tasks' = tasks \o <<Challenge(s, ids)>>
      BY <1>0, <1>3 DEF ConstructSession, Challenge, TaskRecords, HeardIds
    <2>2. \A k \in DOMAIN <<Challenge(s, ids)>> : <<Challenge(s, ids)>>[k].kind # "update"
      BY DEF Challenge
    <2>3. /\ UNCHANGED gathered
          /\ \A t \in Sessions : /\ state[t] = "gone" => state'[t] = "gone"
                                 /\ state'[t] = "none" => state[t] = "none"
      BY <1>3 DEF ConstructSession, TypeOK
    <2>4. QED
      BY <1>0, <2>1, <2>2, <2>3, CompletedByMore DEF UnbornGatherNothing
  <1>4. ASSUME NEW s \in Sessions, NEW licence \in Licences, SessionUpdate(s, licence)
        PROVE  BatchInv'
    <2>1. /\ Notices(s, licence) \in Seq(TaskRecords)
          /\ tasks' = tasks \o Notices(s, licence) /\ UNCHANGED <<gathered, state>>
      BY <1>4, NoticesAnnounce DEF SessionUpdate
    <2>2. \A k \in DOMAIN Notices(s, licence) : Notices(s, licence)[k].session = s
      BY DEF Notices, Updates, KeyUpdate, KeysUpdated
    <2>3. \A k \in DOMAIN Notices(s, licence) : Notices(s, licence)[k].kind = "update" =>
            \E j \in DOMAIN Notices(s, licence) :
              k < j /\ Notices(s, licence)[j] = KeysUpdated(Notices(s, licence)[k].session)
      BY <2>2, NoticesComplete
    <2>4. UpdatesCompleted' /\ BatchIsCompleted'
      BY <1>0, <2>1, <2>3, CompletedByMore
    <2>5. QED
      BY <2>1, <2>4 DEF UnbornGatherNothing
  <1>5. ASSUME NEW s \in Sessions, SessionRemove(s)
        PROVE  BatchInv'
    BY <1>1, <1>5 DEF SessionRemove
  <1>6. ASSUME NEW s \in Sessions, SessionClose(s) \/ DestructSession(s)
        PROVE  BatchInv'
    <2>1. /\ UNCHANGED <<tasks, gathered>>
          /\ \A t \in Sessions : /\ state[t] = "gone" => state'[t] = "gone"
                                 /\ state'[t] = "none" => state[t] = "none"
      BY <1>6 DEF SessionClose, DestructSession, Live, TypeOK
    <2>2. QED
      BY <1>1, <2>1
  <1>7. ASSUME NEW s \in Sessions, Task(s)
        PROVE  /\ UpdatesCompleted' /\ UNCHANGED state /\ Head(tasks).session = s
               /\ \A t : CompletedAfter(t, 0) /\ Head(tasks) # KeysUpdated(t) =>
                           \E k \in DOMAIN tasks' : tasks'[k] = KeysUpdated(t)
               /\ \A t : CompletedAfter(t, 1) => \E k \in DOMAIN tasks' : tasks'[k] = KeysUpdated(t)
               /\ \A t : Head(tasks) = KeysUpdated(t) => t = s /\ Head(tasks).kind = "complete"
    <2>1. /\ tasks # << >> /\ tasks' = Tail(tasks) /\ UNCHANGED state
          /\ Head(tasks).session = s
      BY <1>7 DEF Task
    <2>2. \A t : Head(tasks) = KeysUpdated(t) => t = s /\ Head(tasks).kind = "complete"
      BY <2>1 DEF KeysUpdated
    <2>3. /\ UpdatesCompleted'
          /\ \A t : CompletedAfter(t, 1) => CompletedAfter(t, 0)'
          /\ \A t : CompletedAfter(t, 0) /\ Head(tasks) # KeysUpdated(t) => CompletedAfter(t, 0)'
      BY <1>0, <2>1, CompletedByRest
    <2>4. \A t : CompletedAfter(t, 0)' => \E k \in DOMAIN tasks' : tasks'[k] = KeysUpdated(t)
      BY DEF CompletedAfter
    <2>5. QED
      BY <2>1, <2>2, <2>3, <2>4
  <1>8. ASSUME NEW s \in Sessions, DropTask(s)
        PROVE  BatchInv'
    <2>1. Task(s) /\ ~Live(s) /\ UNCHANGED gathered
      BY <1>8 DEF DropTask
    <2>2. gathered[s] = {} \/ state[s] = "gone"
      BY <2>1 DEF Live, TypeOK, UnbornGatherNothing
    <2>3. BatchIsCompleted'
      BY <1>a, <1>7, <2>1, <2>2 DEF BatchIsCompleted
    <2>4. QED
      BY <1>7, <2>1, <2>3 DEF UnbornGatherNothing
  <1>9. ASSUME NEW s \in Sessions, OnLicenseRequest(s)
        PROVE  BatchInv'
    <2>1. Task(s) /\ Head(tasks).kind = "challenge" /\ UNCHANGED gathered
      BY <1>9 DEF OnLicenseRequest
    <2>2. BatchIsCompleted'
      BY <1>a, <1>7, <2>1 DEF BatchIsCompleted
    <2>3. QED
      BY <1>7, <2>1, <2>2 DEF UnbornGatherNothing
  <1>10. ASSUME NEW s \in Sessions, AskStatus(s)
         PROVE  BatchInv'
    <2>1. Task(s) /\ Live(s) /\ Head(tasks).kind = "update"
          /\ \A t \in Sessions : t # s => gathered'[t] = gathered[t]
      BY <1>10 DEF AskStatus, TypeOK
    <2>2. CompletedAfter(s, 1)
      <3>1. tasks # << >> /\ Head(tasks).session = s
        BY <2>1 DEF Task
      <3>2. UpdateAt(s, 1)
        BY <1>0, <2>1, <3>1 DEF UpdateAt
      <3>3. QED
        BY <3>2 DEF UpdatesCompleted
    <2>3. BatchIsCompleted'
      BY <1>a, <1>7, <2>1, <2>2 DEF BatchIsCompleted
    <2>4. UnbornGatherNothing'
      BY <1>7, <2>1 DEF UnbornGatherNothing, Live
    <2>5. QED
      BY <1>7, <2>1, <2>3, <2>4
  <1>11. ASSUME NEW s \in Sessions, OnKeyStatusesChanged(s)
         PROVE  BatchInv'
    <2>1. /\ Task(s) /\ gathered'[s] = {}
          /\ \A t \in Sessions : t # s => gathered'[t] = gathered[t]
      BY <1>11 DEF OnKeyStatusesChanged, TypeOK
    <2>2. BatchIsCompleted'
      BY <1>a, <1>7, <2>1 DEF BatchIsCompleted
    <2>3. UnbornGatherNothing'
      BY <1>7, <2>1 DEF UnbornGatherNothing
    <2>4. QED
      BY <1>7, <2>1, <2>2, <2>3
  <1>12. QED
    BY <1>2, <1>3, <1>4, <1>5, <1>6, <1>8, <1>9, <1>10, <1>11 DEF Next

\* What key_update_callback has made the wrapper gather is always followed by the
\* keys_updated_callback that publishes it, until the session is destructed: no licence,
\* however it fails, leaves a half-reported batch behind.
THEOREM BatchCompleted == Spec => []BatchIsCompleted
  <1>1. Init => BatchInv
    BY DEF Init, BatchInv, UpdatesCompleted, UpdateAt, UnbornGatherNothing, BatchIsCompleted
  <1>2. BatchInv => BatchIsCompleted
    BY DEF BatchInv
  <1>3. QED
    BY <1>1, <1>2, BatchStep, SessionTypeCorrect, PTL DEF Spec
===============================================================================
