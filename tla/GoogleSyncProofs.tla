-------------------------- MODULE GoogleSyncProofs --------------------------
(***************************************************************************)
(* Safety of GoogleSync for every value of its constants.                  *)
(*                                                                         *)
(* The invariants the model checker looks at are not inductive.  IInv adds *)
(* what the worker relies on without testing it: a snapshot row is still   *)
(* there, under the same identifier, when its reply is recorded, because   *)
(* only the worker itself deletes rows or changes identifiers; and an      *)
(* identifier the provider has just minted is in no row, because nothing   *)
(* is pulled between a POST and the record of its reply.                   *)
(***************************************************************************)
EXTENDS GoogleSync, EventStoreProofs, FiniteSetTheorems

(* The empty account of a new connection satisfies the inductive invariant. *)
THEOREM InitEstablishes == Init => IInv
<1> SUFFICES ASSUME Init PROVE IInv
  OBVIOUS
<1> USE DEF Init, StoreInit
<1>1. TypeOK
  <2>1. 0 \in 0..MaxStamp /\ 0 \in 0..MaxEdits /\ 0 \in 0..MaxFaults /\ 0 \in 0..MaxOutside
    BY StoreAssumption, GoogleAssumption DEF StoreAssumption, GoogleAssumption
  <2>2. StoreTypeOK
    BY <2>1 DEF StoreTypeOK
  <2>3. moves \in 0..edits
    OBVIOUS
  <2> QED
    BY <2>1, <2>2, <2>3 DEF TypeOK
<1>2. Present = {} /\ batch = {} /\ page = {} /\ rest = {}
  BY DEF Present
<1>3. UniqueKeys /\ MintedRids /\ UnpushedStaysQueued
  BY <1>2 DEF UniqueKeys, MintedRids, UnpushedStaysQueued
<1>4. BatchIsLive /\ FlightIsLive /\ PullIsLive
  BY <1>2 DEF BatchIsLive, FlightIsLive, PullIsLive
<1> QED
  BY <1>1, <1>3, <1>4 DEF IInv

(* An edit is counted as a move if and only if it changes the calendar of  *)
(* the row that it writes.                                                 *)
LEMMA MovesCounted ==
  ASSUME StoreTypeOK, OwnerActs, NEW id \in RowIds, NEW r \in Row,
         events' = [events EXCEPT ![id] = r]
  PROVE  moves' = IF id \in Present /\ r.cal # events[id].cal THEN moves + 1 ELSE moves
  <1>1. events'[id] = r /\ \A i \in RowIds \ {id} : events'[i] = events[i]
    BY WriteRow
  <1>2. id \in Present'
    BY <1>1, StoreAssumption DEF Present, StoreAssumption
  <1>3. (\E i \in Present \cap Present' : events'[i].cal # events[i].cal)
          <=> id \in Present /\ r.cal # events[id].cal
    BY <1>1, <1>2 DEF Present
  <1> QED
    BY <1>3 DEF OwnerActs

LEMMA MovesTyped ==
  ASSUME TypeOK, OwnerActs
  PROVE  moves' \in 0..edits'
  <1>1. StoreTypeOK /\ edits \in Nat /\ moves \in 0..edits
    BY StoreAssumption DEF TypeOK, StoreTypeOK, StoreAssumption
  <1>2. PICK values : OwnerStep(values) /\ values \subseteq Contents
    BY DEF OwnerActs
  <1>3. PICK id \in RowIds, r \in Row :
          /\ events' = [events EXCEPT ![id] = r]
          /\ Creates(id, r) \/ Edits(id, r)
    BY <1>1, <1>2, OwnerStepWrites
  <1>4. moves' = IF id \in Present /\ r.cal # events[id].cal THEN moves + 1 ELSE moves
    BY <1>1, <1>3, MovesCounted
  <1> QED
    BY <1>1, <1>3, <1>4 DEF Creates, Edits

(* Every step keeps the types. *)
LEMMA TypeStep == IInv /\ [Next]_vars => TypeOK'
<1> SUFFICES ASSUME IInv, [Next]_vars PROVE TypeOK'
  OBVIOUS
<1> USE StoreAssumption, GoogleAssumption DEF StoreAssumption, GoogleAssumption, TypeOK, StoreTypeOK
<1>0. TypeOK
  BY DEF IInv
<1> USE <1>0
<1>1. CASE OwnerActs
  <2>1. PICK values : OwnerStep(values) /\ values \subseteq Contents
    BY <1>1 DEF OwnerActs
  <2>2. StoreTypeOK'
    BY <2>1, OwnerStepTyped
  <2> QED
    BY <1>1, <2>2, MovesTyped DEF OwnerActs, syncVars
<1>2. CASE SyncStart
  <2>1. batch' \subseteq Request
    BY <1>2 DEF SyncStart, Request, Queued, Present
  <2> QED
    BY <1>2, <2>1 DEF SyncStart, storeVars
<1>3. ASSUME NEW q \in batch, PushDropsLocal(q) PROVE TypeOK'
  BY <1>3 DEF PushDropsLocal, DropRow
<1>4. ASSUME NEW q \in batch, PushSends(q) PROVE TypeOK'
  <2>1. q \in Request /\ q.id \in RowIds /\ q.row \in Row
    BY DEF Request
  <2>2. flight' \in Flight
    BY <1>4, <2>1 DEF PushSends, Flight, Row, Rid, ProviderRid, RemoteIds
  <2>3. remote' \in [RemoteIds -> RemoteEvent \cup {NoEvent}]
    <3>1. ASSUME NEW n \in RemoteIds, ProviderInserts(q.row, n)
          PROVE  remote' \in [RemoteIds -> RemoteEvent \cup {NoEvent}]
      BY <2>1, <3>1 DEF ProviderInserts, RemoteEvent, Row
    <3>2. ASSUME NEW n \in RemoteIds, ProviderReplaces(q.row, n)
          PROVE  remote' \in [RemoteIds -> RemoteEvent \cup {NoEvent}]
      <4>1. remote[n] \in RemoteEvent
        BY <3>2 DEF ProviderReplaces, Addresses, Exists
      <4>2. [remote[n] EXCEPT !.val = q.row.val] \in RemoteEvent
        BY <2>1, <4>1 DEF RemoteEvent, Row
      <4> QED
        BY <3>2, <4>2 DEF ProviderReplaces
    <3>3. ASSUME NEW n \in RemoteIds, ProviderDeletes(q.row, n)
          PROVE  remote' \in [RemoteIds -> RemoteEvent \cup {NoEvent}]
      <4>1. remote[n] \in RemoteEvent
        BY <3>3 DEF ProviderDeletes, Addresses, Exists
      <4>2. [remote[n] EXCEPT !.alive = FALSE] \in RemoteEvent
        BY <4>1 DEF RemoteEvent
      <4> QED
        BY <3>3, <4>2 DEF ProviderDeletes
    <3> QED
      BY <1>4, <3>1, <3>2, <3>3 DEF PushSends
  <2> QED
    BY <1>4, <2>2, <2>3 DEF PushSends, storeVars
<1>5. ASSUME NEW q \in batch, PushRefused(q) PROVE TypeOK'
  BY <1>5 DEF PushRefused, EndSync, storeVars
<1>6. CASE RecordReply
  <2>1. flight \in Flight
    BY <1>6 DEF IInv, FlightIsLive, RecordReply
  <2>2. events' \in [RowIds -> Row \cup {NoRow}]
    BY <1>6, <2>1 DEF RecordReply, DropRow, MarkPushed, Present, Flight, Row
  <2> QED
    BY <1>6, <2>2 DEF RecordReply
<1>7. CASE ListCalendars
  <2>1. \A c \in Calendars : (c \in access) \in BOOLEAN
    OBVIOUS
  <2>2. \A c \in Calendars :
          [cal |-> c, mayWrite |-> c \in access] \in [cal: Calendars, mayWrite: BOOLEAN]
    BY <2>1, Zenon
  <2>3. todo' \subseteq [cal: Calendars, mayWrite: BOOLEAN]
    BY <1>7, <2>2, Zenon DEF ListCalendars
  <2> QED
    BY <1>7, <2>3 DEF ListCalendars, storeVars
<1>8. ASSUME NEW t \in todo, PullCalendar(t) PROVE TypeOK'
  BY <1>8 DEF PullCalendar, UpsertCalendar
<1>9. CASE FetchPage
  <2>1. PICK ns \in SUBSET rest :
          /\ page' = {[n |-> n, val |-> remote[n].val, alive |-> remote[n].alive] : n \in ns}
          /\ rest' = rest \ ns
    BY <1>9 DEF FetchPage
  <2>2. page' \subseteq Item
    BY <2>1 DEF IInv, PullIsLive, Exists, RemoteEvent, Item
  <2> QED
    BY <1>9, <2>1, <2>2 DEF FetchPage, storeVars
<1>10. ASSUME NEW it \in page, StoreItem(it) PROVE TypeOK'
  <2>1. cal \in Calendars /\ it \in Item
    BY <1>10 DEF StoreItem, IInv, PullIsLive
  <2>2. events' \in [RowIds -> Row \cup {NoRow}]
    <3>1. CASE ~it.alive
      BY <1>10, <3>1 DEF StoreItem
    <3>2. CASE RefreshKnown(cal, ProviderRid(it.n), it.val)
      <4>1. PICK id \in RowIds :
              /\ events[id] \in Row
              /\ events' = IF events[id].dirty THEN events
                           ELSE [events EXCEPT ![id] = [events[id] EXCEPT !.val = it.val]]
        BY <3>2 DEF RefreshKnown, Bound, Present
      <4>2. [events[id] EXCEPT !.val = it.val] \in Row
        BY <2>1, <4>1 DEF Row, Item
      <4> QED
        BY <4>1, <4>2
    <3>3. CASE InsertUnknown(cal, ProviderRid(it.n), it.val)
      <4>1. [cal |-> cal, rid |-> ProviderRid(it.n), val |-> it.val, dirty |-> FALSE,
             deleted |-> FALSE] \in Row
        BY <2>1 DEF Row, Rid, ProviderRid, Item, RemoteIds
      <4> QED
        BY <3>3, <4>1 DEF InsertUnknown
    <3> QED
      BY <1>10, <3>1, <3>2, <3>3 DEF StoreItem
  <2> QED
    BY <1>10, <2>1, <2>2 DEF StoreItem, Item
<1>11. CASE PageDone
  BY <1>11 DEF PageDone, storeVars
<1>12. CASE SyncDone
  BY <1>12 DEF SyncDone, EndSync, storeVars
<1>13. CASE SyncAborts
  BY <1>13 DEF SyncAborts, EndSync, storeVars
<1>14. CASE OutsideStep
  <2>1. remote' \in [RemoteIds -> RemoteEvent \cup {NoEvent}]
    <3>1. ASSUME NEW n \in RemoteIds, NEW v \in Contents, Exists(n),
                 remote' = [remote EXCEPT ![n].val = v]
          PROVE  remote' \in [RemoteIds -> RemoteEvent \cup {NoEvent}]
      <4>1. [remote[n] EXCEPT !.val = v] \in RemoteEvent
        BY <3>1 DEF Exists, RemoteEvent
      <4> QED
        BY <3>1, <4>1
    <3>2. ASSUME NEW n \in RemoteIds, Exists(n), remote' = [remote EXCEPT ![n].alive = FALSE]
          PROVE  remote' \in [RemoteIds -> RemoteEvent \cup {NoEvent}]
      <4>1. [remote[n] EXCEPT !.alive = FALSE] \in RemoteEvent
        BY <3>2 DEF Exists, RemoteEvent
      <4> QED
        BY <3>2, <4>1
    <3>3. ASSUME NEW n \in RemoteIds, NEW c \in Calendars, NEW v \in Contents,
                 remote' = [remote EXCEPT ![n] =
                              [cal |-> c, val |-> v, alive |-> TRUE, by |-> "other"]]
          PROVE  remote' \in [RemoteIds -> RemoteEvent \cup {NoEvent}]
      BY <3>3 DEF RemoteEvent
    <3> QED
      BY <1>14, <3>1, <3>2, <3>3, Zenon DEF OutsideStep
  <2> QED
    BY <1>14, <2>1 DEF OutsideStep, storeVars, syncVars
<1>15. CASE UNCHANGED vars
  BY <1>15 DEF vars, storeVars, syncVars
<1> QED
  BY <1>1, <1>2, <1>3, <1>4, <1>5, <1>6, <1>7, <1>8, <1>9, <1>10, <1>11, <1>12, <1>13,
     <1>14, <1>15 DEF Next, WorkerStep

-----------------------------------------------------------------------------
(* What a statement does to the table of events.                           *)

(* What an owner's handler writes.                                         *)
LEMMA OwnerWrites ==
  ASSUME StoreTypeOK, OwnerActs
  PROVE  \E id \in RowIds, r \in Row :
           /\ events' = [events EXCEPT ![id] = r]
           /\ r.dirty
           /\ Creates(id, r) \/ Edits(id, r)
  <1>1. PICK values : OwnerStep(values) /\ values \subseteq Contents
    BY DEF OwnerActs
  <1> QED
    BY <1>1, OwnerStepWrites

(* The row of an item of a page: a new clean one, under an identifier no   *)
(* row of the calendar has, or the contents of a clean one; or a cancelled *)
(* item, whose clean row goes; or nothing.                                 *)
Imports(it, id, r) ==
  /\ id \notin Present /\ ~r.deleted
  /\ r.cal = cal /\ r.rid = ProviderRid(it.n)
  /\ \A other \in RowIds : ~Bound(other, cal, r.rid)

CancelsClean ==
  \A i \in RowIds :
    \/ events'[i] = events[i]
    \/ /\ i \in Present /\ ~events[i].dirty
       /\ events'[i] = NoRow

LEMMA ItemWrites ==
  ASSUME StoreTypeOK, cal \in Calendars, NEW it \in Item, StoreItem(it)
  PROVE  \/ UNCHANGED events
         \/ ~it.alive /\ CancelsClean
         \/ \E id \in RowIds, r \in Row :
              /\ events' = [events EXCEPT ![id] = r]
              /\ ~r.dirty
              /\ Imports(it, id, r) \/ Refreshes(id, r)
  <1> DEFINE Goal == \E id \in RowIds, r \in Row :
                       /\ events' = [events EXCEPT ![id] = r]
                       /\ ~r.dirty
                       /\ Imports(it, id, r) \/ Refreshes(id, r)
  <1>1. CASE ~it.alive
    <2>1. events' = [id \in RowIds |->
                       IF Bound(id, cal, ProviderRid(it.n)) /\ ~events[id].dirty
                       THEN NoRow ELSE events[id]]
      BY <1>1 DEF StoreItem
    <2>2. CancelsClean
      BY <2>1 DEF CancelsClean, Bound
    <2> QED
      BY <1>1, <2>2
  <1>2. ASSUME RefreshKnown(cal, ProviderRid(it.n), it.val) PROVE UNCHANGED events \/ Goal
    BY <1>2, RefreshWrites DEF Item, Refreshes
  <1>3. ASSUME InsertUnknown(cal, ProviderRid(it.n), it.val) PROVE Goal
    <2>1. ProviderRid(it.n) \in Rid /\ it.val \in Contents
      BY DEF Item, RemoteIds, ProviderRid, Rid
    <2>2. PICK id \in RowIds, r \in Row :
            /\ events' = [events EXCEPT ![id] = r]
            /\ Inserts(cal, ProviderRid(it.n), id, r)
      BY <1>3, <2>1, InsertWrites
    <2>3. Imports(it, id, r) /\ ~r.dirty
      BY <2>2 DEF Imports, Inserts
    <2> QED
      BY <2>2, <2>3
  <1> QED
    BY <1>1, <1>2, <1>3 DEF StoreItem

(* The reply of a request drops its tombstone or gives its row, which is   *)
(* still there, the provider's identifier.                                 *)
Acknowledges(r) ==
  /\ r.cal = events[flight.id].cal /\ r.rid = flight.saved
  /\ r.deleted = events[flight.id].deleted

LEMMA ReplyWrites ==
  ASSUME StoreTypeOK, RecordReply, flight \in Flight, StillThere(flight)
  PROVE  \/ DropRow(flight.id)
         \/ /\ ~flight.row.deleted
            /\ \E r \in Row : /\ events' = [events EXCEPT ![flight.id] = r]
                             /\ ~r.dirty /\ Acknowledges(r)
  <1> SUFFICES ASSUME ~flight.row.deleted
               PROVE  \E r \in Row : /\ events' = [events EXCEPT ![flight.id] = r]
                                     /\ ~r.dirty /\ Acknowledges(r)
    BY DEF RecordReply
  <1>1. flight.id \in Present /\ flight.saved \in Rid
    BY DEF StillThere, Queued, Flight
  <1>2. MarkPushed(flight.id, flight.saved)
    BY DEF RecordReply
  <1> QED
    BY <1>1, <1>2, MarkWrites DEF Marks, Acknowledges

-----------------------------------------------------------------------------
(* Every step keeps each part of the invariant.                            *)

(* The steps that write the table of events, and where the worker is then. *)
LEMMA Writers ==
  ASSUME [Next]_vars
  PROVE  \/ UNCHANGED <<events, stamp>>
         \/ OwnerActs
         \/ \E q \in batch : PushDropsLocal(q)
         \/ RecordReply
         \/ \E it \in page : StoreItem(it)
  BY DEF Next, WorkerStep, vars, storeVars, SyncStart, PushSends, PushRefused, ListCalendars,
         PullCalendar, FetchPage, PageDone, SyncDone, SyncAborts, OutsideStep

(* The provider changes one event at a time: it keeps the calendar and the *)
(* author of the event and never revives it; or it makes a new one, for    *)
(* another client or for a row that was never pushed.                      *)
Revises(m, r) ==
  /\ Exists(m)
  /\ r.cal = remote[m].cal /\ r.by = remote[m].by
  /\ r.alive => remote[m].alive

Posts(q, m) ==
  /\ PushSends(q) /\ NeverPushed(q.row) /\ ~q.row.deleted
  /\ flight' = [id |-> q.id, row |-> q.row, saved |-> ProviderRid(m)]

LEMMA RemoteWrites ==
  ASSUME IInv, [Next]_vars
  PROVE  \/ UNCHANGED remote
         \/ \E m \in RemoteIds, r \in RemoteEvent :
              /\ remote' = [remote EXCEPT ![m] = r]
              /\ \/ Revises(m, r)
                 \/ ~Exists(m) /\ r.by = "other"
                 \/ ~Exists(m) /\ \E q \in batch : Posts(q, m) /\ r.cal = q.row.cal
  <1>1. /\ TypeOK
        /\ \A m \in RemoteIds : Exists(m) => remote[m] \in RemoteEvent
    BY DEF IInv, TypeOK, Exists
  <1> DEFINE Goal == \E m \in RemoteIds, r \in RemoteEvent :
                       /\ remote' = [remote EXCEPT ![m] = r]
                       /\ \/ Revises(m, r)
                          \/ ~Exists(m) /\ r.by = "other"
                          \/ ~Exists(m) /\ \E q \in batch : Posts(q, m) /\ r.cal = q.row.cal
  <1>2. ASSUME NEW m \in RemoteIds, NEW v \in Contents, Exists(m),
               remote' = [remote EXCEPT ![m].val = v]
        PROVE  Goal
    <2> DEFINE r == [remote[m] EXCEPT !.val = v]
    <2>1. /\ r \in RemoteEvent
          /\ r.cal = remote[m].cal /\ r.by = remote[m].by /\ r.alive = remote[m].alive
      BY <1>1, <1>2 DEF RemoteEvent
    <2>2. remote' = [remote EXCEPT ![m] = r]
      BY <1>2
    <2> QED
      BY <1>2, <2>1, <2>2 DEF Revises
  <1>3. ASSUME NEW m \in RemoteIds, Exists(m), remote' = [remote EXCEPT ![m].alive = FALSE]
        PROVE  Goal
    <2> DEFINE r == [remote[m] EXCEPT !.alive = FALSE]
    <2>1. /\ r \in RemoteEvent
          /\ r.cal = remote[m].cal /\ r.by = remote[m].by /\ ~r.alive
      BY <1>1, <1>3 DEF RemoteEvent
    <2>2. remote' = [remote EXCEPT ![m] = r]
      BY <1>3
    <2> QED
      BY <1>3, <2>1, <2>2 DEF Revises
  <1>4. ASSUME NEW q \in batch, PushSends(q) PROVE Goal
    <2>1. q \in Request /\ q.row \in Row /\ q.row.cal \in Calendars /\ q.row.val \in Contents
      BY <1>1 DEF TypeOK, Request, Row
    <2>2. CASE NeverPushed(q.row)
      <3>1. PICK m \in RemoteIds : ProviderInserts(q.row, m) /\ Posts(q, m)
        BY <1>4, <2>2 DEF PushSends, Posts
      <3> DEFINE r == [cal |-> q.row.cal, val |-> q.row.val, alive |-> TRUE, by |-> "app"]
      <3>2. r \in RemoteEvent
        BY <2>1 DEF RemoteEvent
      <3> QED
        BY <3>1, <3>2 DEF ProviderInserts, IsFresh
    <2>3. CASE ~NeverPushed(q.row)
      BY <1>2, <1>3, <1>4, <2>1, <2>3
      DEF PushSends, ProviderReplaces, ProviderDeletes, Addresses
    <2> QED
      BY <2>2, <2>3
  <1>5. ASSUME OutsideStep PROVE Goal \/ UNCHANGED remote
    <2>1. ASSUME NEW m \in RemoteIds, NEW c \in Calendars, NEW v \in Contents, IsFresh(m),
                 remote' = [remote EXCEPT ![m] =
                              [cal |-> c, val |-> v, alive |-> TRUE, by |-> "other"]]
          PROVE  Goal
      <3> DEFINE r == [cal |-> c, val |-> v, alive |-> TRUE, by |-> "other"]
      <3>1. r \in RemoteEvent /\ r.by = "other"
        BY DEF RemoteEvent
      <3> QED
        BY <2>1, <3>1 DEF IsFresh
    <2> HIDE DEF Goal
    <2> QED
      BY <1>2, <1>3, <1>5, <2>1, Zenon DEF OutsideStep
  <1> QED
    BY <1>4, <1>5
    DEF Next, WorkerStep, vars, OwnerActs, SyncStart, PushDropsLocal, PushRefused, RecordReply,
        ListCalendars, PullCalendar, FetchPage, StoreItem, PageDone, SyncDone, SyncAborts

(* The provider never forgets an identifier it has minted.                 *)
LEMMA ProviderRemembers ==
  ASSUME IInv, [Next]_vars, NEW n \in RemoteIds, Exists(n)
  PROVE  /\ Exists(n)'
         /\ remote'[n].cal = remote[n].cal /\ remote'[n].by = remote[n].by
         /\ remote'[n].alive => remote[n].alive
  <1>1. remote \in [RemoteIds -> RemoteEvent \cup {NoEvent}] /\ NoEvent \notin RemoteEvent
    BY GoogleAssumption DEF IInv, TypeOK, GoogleAssumption
  <1>2. CASE UNCHANGED remote
    BY <1>2 DEF Exists
  <1>3. ASSUME NEW m \in RemoteIds, NEW r \in RemoteEvent, remote' = [remote EXCEPT ![m] = r],
               ~Exists(m) \/ Revises(m, r)
        PROVE  /\ Exists(n)'
               /\ remote'[n].cal = remote[n].cal /\ remote'[n].by = remote[n].by
               /\ remote'[n].alive => remote[n].alive
    BY <1>1, <1>3 DEF Exists, Revises
  <1> QED
    BY <1>2, <1>3, RemoteWrites

(* No two rows come to share a calendar and an identifier.                 *)
LEMMA UniqueKeysStep == ASSUME IInv, [Next]_vars PROVE UniqueKeys'
  <1>1. TypeOK /\ StoreTypeOK /\ UniqueKeys /\ MintedRids
    BY DEF IInv, TypeOK
  <1>2. ASSUME \A i \in Present' : /\ i \in Present
                                   /\ events'[i].cal = events[i].cal
                                   /\ events'[i].rid = events[i].rid
        PROVE  UniqueKeys'
    BY <1>1, <1>2 DEF UniqueKeys
  <1>3. ASSUME NEW id \in RowIds, NEW r \in Row, events' = [events EXCEPT ![id] = r],
               \A other \in Present \ {id} : ~Bound(other, r.cal, r.rid)
        PROVE  UniqueKeys'
    <2>1. /\ Present' = Present \cup {id}
          /\ events'[id] = r
          /\ \A i \in RowIds \ {id} : events'[i] = events[i]
      BY <1>1, <1>3, WriteRow
    <2> QED
      BY <1>1, <1>3, <2>1, RowsAreRows DEF UniqueKeys, Bound
  <1>4. CASE UNCHANGED <<events, stamp>>
    BY <1>1, <1>2, <1>4 DEF Present
  <1>5. CASE OwnerActs
    <2>1. PICK id \in RowIds, r \in Row :
            /\ events' = [events EXCEPT ![id] = r]
            /\ Creates(id, r) \/ Edits(id, r)
      BY <1>1, <1>5, OwnerWrites
    <2>2. \A other \in Present \ {id} : ~Bound(other, r.cal, r.rid)
      <3>1. CASE Creates(id, r)
        <4>1. \A other \in Present : events[other].rid # LocalRid(stamp + 1)
          BY <1>1, StoreAssumption DEF MintedRids, LocalRid, StoreTypeOK, StoreAssumption
        <4> QED
          BY <3>1, <4>1 DEF Creates, Bound
      <3>2. CASE Edits(id, r)
        BY <1>1, <3>2 DEF Edits, UniqueKeys, Bound
      <3> QED
        BY <2>1, <3>1, <3>2
    <2> QED
      BY <1>3, <2>1, <2>2
  <1>6. ASSUME NEW q \in batch, PushDropsLocal(q) PROVE UniqueKeys'
    <2>1. q.id \in RowIds
      BY <1>1 DEF TypeOK, Request
    <2> QED
      BY <1>1, <1>2, <1>6, <2>1, EraseRow, RowsAreRows DEF PushDropsLocal
  <1>7. CASE RecordReply
    <2>1. flight \in Flight /\ StillThere(flight) /\ flight.id \in RowIds
      BY <1>7 DEF IInv, FlightIsLive, RecordReply, Flight
    <2>2. CASE DropRow(flight.id)
      BY <1>1, <1>2, <2>1, <2>2, EraseRow, RowsAreRows
    <2>3. ASSUME NEW r \in Row, events' = [events EXCEPT ![flight.id] = r], Acknowledges(r)
          PROVE  UniqueKeys'
      <3>1. \A other \in Present \ {flight.id} : ~Bound(other, r.cal, r.rid)
        BY <1>1, <1>7, <2>1, <2>3
        DEF IInv, FlightIsLive, RecordReply, Acknowledges, Bound, UniqueKeys, StillThere, Queued
      <3> QED
        BY <1>3, <2>1, <2>3, <3>1
    <2> QED
      BY <1>1, <1>7, <2>1, <2>2, <2>3, ReplyWrites
  <1>8. ASSUME NEW it \in page, StoreItem(it) PROVE UniqueKeys'
    <2>1. cal \in Calendars /\ it \in Item
      BY <1>1, <1>8 DEF IInv, PullIsLive, StoreItem, TypeOK
    <2>2. CASE UNCHANGED events
      BY <1>1, <1>2, <2>2 DEF Present
    <2>3. CASE CancelsClean
      BY <1>1, <1>2, <2>3 DEF CancelsClean, Present
    <2>4. ASSUME NEW id \in RowIds, NEW r \in Row, events' = [events EXCEPT ![id] = r],
                 Imports(it, id, r) \/ Refreshes(id, r)
          PROVE  UniqueKeys'
      <3>1. \A other \in Present \ {id} : ~Bound(other, r.cal, r.rid)
        BY <1>1, <2>4, RowsAreRows DEF Imports, Refreshes, Bound, UniqueKeys
      <3> QED
        BY <1>3, <2>4, <3>1
    <2> QED
      BY <1>1, <1>8, <2>1, <2>2, <2>3, <2>4, ItemWrites
  <1> QED
    BY <1>4, <1>5, <1>6, <1>7, <1>8, Writers

(* Every identifier in a row keeps being one that was minted.              *)
Minted(rid) ==
  /\ rid.suffix = 0
  /\ rid.origin = "local" => rid.n <= stamp
  /\ rid.origin = "provider" => rid.n \in RemoteIds /\ Exists(rid.n)

LEMMA StampGrows == ASSUME IInv, [Next]_vars PROVE stamp \in Nat /\ stamp' \in Nat /\ stamp <= stamp'
  <1>1. StoreTypeOK /\ stamp \in Nat
    BY StoreAssumption DEF IInv, TypeOK, StoreTypeOK, StoreAssumption
  <1>2. CASE OwnerActs
    <2>1. stamp' = stamp \/ stamp' = stamp + 1
      BY <1>1, <1>2, OwnerWrites DEF Creates, Edits
    <2> QED
      BY <1>1, <2>1
  <1>3. CASE stamp' = stamp
    BY <1>1, <1>3
  <1> QED
    BY <1>2, <1>3, Writers DEF PushDropsLocal, RecordReply, StoreItem

LEMMA MintedRidsStep == ASSUME IInv, [Next]_vars PROVE MintedRids'
  <1>1. TypeOK /\ StoreTypeOK /\ MintedRids
    BY DEF IInv, TypeOK
  <1>2. ASSUME NEW rid \in Rid, Minted(rid) PROVE Minted(rid)'
    BY <1>2, StampGrows, ProviderRemembers DEF Minted, Rid
  <1>3. SUFFICES ASSUME NEW i \in Present' PROVE Minted(events[i].rid)'
    BY DEF MintedRids, Minted
  <1>4. i \in RowIds
    BY DEF Present
  <1>5. CASE /\ i \in Present
             /\ events'[i].rid = events[i].rid
    BY <1>1, <1>2, <1>5, RowsAreRows DEF MintedRids, Minted, Row
  <1>6. ASSUME NEW id \in RowIds, NEW r \in Row, events' = [events EXCEPT ![id] = r]
        PROVE  Minted(r.rid)' => Minted(events[i].rid)'
    <2>1. /\ Present' = Present \cup {id}
          /\ events'[id] = r
          /\ \A k \in RowIds \ {id} : events'[k] = events[k]
      BY <1>1, <1>6, WriteRow
    <2>2. CASE i = id
      BY <2>1, <2>2
    <2>3. CASE i # id
      <3>1. i \in Present /\ events'[i] = events[i]
        BY <1>4, <2>1, <2>3
      <3> QED
        BY <1>5, <3>1
    <2> QED
      BY <2>2, <2>3
  <1>7. CASE UNCHANGED <<events, stamp>>
    BY <1>5, <1>7 DEF Present
  <1>8. CASE OwnerActs
    <2>1. PICK id \in RowIds, r \in Row :
            /\ events' = [events EXCEPT ![id] = r]
            /\ Creates(id, r) \/ Edits(id, r)
      BY <1>1, <1>8, OwnerWrites
    <2>2. CASE Creates(id, r)
      <3>1. stamp' \in Nat
        BY StampGrows
      <3>2. Minted(r.rid)'
        BY <2>2, <3>1 DEF Creates, Minted, LocalRid
      <3> QED
        BY <1>6, <2>1, <3>2
    <2>3. CASE Edits(id, r)
      <3>1. Minted(r.rid)
        BY <1>1, <2>3 DEF Edits, MintedRids, Minted
      <3>2. Minted(r.rid)'
        BY <1>2, <3>1 DEF Row
      <3> QED
        BY <1>6, <2>1, <3>2
    <2> QED
      BY <2>1, <2>2, <2>3
  <1>9. ASSUME NEW q \in batch, PushDropsLocal(q) PROVE Minted(events[i].rid)'
    <2>1. q.id \in RowIds
      BY <1>1 DEF TypeOK, Request
    <2>2. i \in Present /\ events'[i] = events[i]
      BY <1>1, <1>4, <1>9, <2>1, EraseRow DEF PushDropsLocal
    <2> QED
      BY <1>5, <2>2
  <1>10. CASE RecordReply
    <2>1. flight \in Flight /\ StillThere(flight) /\ flight.id \in RowIds /\ flight.saved \in Rid
      BY <1>10 DEF IInv, FlightIsLive, RecordReply, Flight
    <2>2. CASE DropRow(flight.id)
      <3>1. i \in Present /\ events'[i] = events[i]
        BY <1>1, <1>4, <2>1, <2>2, EraseRow
      <3> QED
        BY <1>5, <3>1
    <2>3. ASSUME NEW r \in Row, events' = [events EXCEPT ![flight.id] = r], Acknowledges(r)
          PROVE  Minted(events[i].rid)'
      <3>1. CASE flight.saved = flight.row.rid
        <4>1. Minted(flight.saved)
          BY <1>1, <2>1, <3>1 DEF StillThere, Queued, MintedRids, Minted
        <4> QED
          BY <1>2, <1>6, <2>1, <2>3, <4>1 DEF Acknowledges
      <3>2. ASSUME NEW n \in RemoteIds, flight.saved = ProviderRid(n), Exists(n)
            PROVE  Minted(events[i].rid)'
        <4>1. Minted(flight.saved)
          BY <3>2 DEF Minted, ProviderRid
        <4> QED
          BY <1>2, <1>6, <2>1, <2>3, <4>1 DEF Acknowledges
      <3> QED
        BY <1>10, <3>1, <3>2 DEF IInv, FlightIsLive, RecordReply
    <2> QED
      BY <1>1, <1>10, <2>1, <2>2, <2>3, ReplyWrites
  <1>11. ASSUME NEW it \in page, StoreItem(it) PROVE Minted(events[i].rid)'
    <2>1. cal \in Calendars /\ it \in Item /\ it.n \in RemoteIds /\ Exists(it.n)
      BY <1>1, <1>11 DEF IInv, PullIsLive, StoreItem, TypeOK, Item
    <2>2. CASE UNCHANGED events
      BY <1>5, <2>2 DEF Present
    <2>3. CASE CancelsClean
      BY <1>4, <1>5, <2>3 DEF CancelsClean, Present
    <2>4. ASSUME NEW id \in RowIds, NEW r \in Row, events' = [events EXCEPT ![id] = r],
                 Imports(it, id, r) \/ Refreshes(id, r)
          PROVE  Minted(events[i].rid)'
      <3>1. Minted(r.rid)
        BY <1>1, <2>1, <2>4 DEF Imports, Refreshes, MintedRids, Minted, ProviderRid
      <3> QED
        BY <1>2, <1>6, <2>4, <3>1 DEF Row
    <2> QED
      BY <1>1, <1>11, <2>1, <2>2, <2>3, <2>4, ItemWrites
  <1> QED
    BY <1>7, <1>8, <1>9, <1>10, <1>11, Writers

(* A row keeps `dirty` for as long as it has a local identifier.           *)
LEMMA UnpushedStep == ASSUME IInv, [Next]_vars PROVE UnpushedStaysQueued'
  <1>1. TypeOK /\ StoreTypeOK /\ UnpushedStaysQueued
    BY DEF IInv, TypeOK
  <1> DEFINE Fine(i) == HasLocalPrefix(events'[i].rid) => events'[i].dirty
  <1>2. SUFFICES ASSUME NEW i \in Present' PROVE Fine(i)
    BY DEF UnpushedStaysQueued, HasLocalPrefix
  <1>3. i \in RowIds
    BY DEF Present
  <1>4. CASE i \in Present /\ events'[i] = events[i]
    BY <1>1, <1>4 DEF UnpushedStaysQueued
  <1>5. ASSUME NEW id \in RowIds, NEW r \in Row, events' = [events EXCEPT ![id] = r],
               r.dirty \/ ~HasLocalPrefix(r.rid)
        PROVE  Fine(i)
    <2>1. CASE i = id
      BY <1>1, <1>5, <2>1, WriteRow
    <2>2. CASE i # id
      BY <1>1, <1>3, <1>4, <1>5, <2>2, WriteRow
    <2> QED
      BY <2>1, <2>2
  <1>6. CASE UNCHANGED <<events, stamp>>
    BY <1>4, <1>6 DEF Present
  <1>7. CASE OwnerActs
    BY <1>1, <1>5, <1>7, OwnerWrites
  <1>8. ASSUME NEW q \in batch, PushDropsLocal(q) PROVE Fine(i)
    <2>1. q.id \in RowIds
      BY <1>1 DEF TypeOK, Request
    <2> QED
      BY <1>1, <1>3, <1>4, <1>8, <2>1, EraseRow DEF PushDropsLocal
  <1>9. CASE RecordReply
    <2>1. flight \in Flight /\ StillThere(flight) /\ flight.id \in RowIds
      BY <1>9 DEF IInv, FlightIsLive, RecordReply, Flight
    <2>2. ~HasLocalPrefix(flight.saved)
      <3>1. ASSUME NEW n PROVE ~HasLocalPrefix(ProviderRid(n))
        BY DEF HasLocalPrefix, ProviderRid
      <3> QED
        BY <1>9, <3>1 DEF IInv, FlightIsLive, RecordReply
    <2>3. CASE DropRow(flight.id)
      BY <1>1, <1>3, <1>4, <2>1, <2>3, EraseRow
    <2>4. ASSUME NEW r \in Row, events' = [events EXCEPT ![flight.id] = r], Acknowledges(r)
          PROVE  Fine(i)
      BY <1>5, <2>1, <2>2, <2>4 DEF Acknowledges
    <2> QED
      BY <1>1, <1>9, <2>1, <2>3, <2>4, ReplyWrites
  <1>10. ASSUME NEW it \in page, StoreItem(it) PROVE Fine(i)
    <2>1. cal \in Calendars /\ it \in Item
      BY <1>1, <1>10 DEF IInv, PullIsLive, StoreItem, TypeOK
    <2>2. CASE UNCHANGED events
      BY <1>4, <2>2 DEF Present
    <2>3. CASE CancelsClean
      BY <1>3, <1>4, <2>3 DEF CancelsClean, Present
    <2>4. ASSUME NEW id \in RowIds, NEW r \in Row, events' = [events EXCEPT ![id] = r],
                 Imports(it, id, r) \/ Refreshes(id, r)
          PROVE  Fine(i)
      <3>1. ~HasLocalPrefix(r.rid)
        BY <1>1, <2>4 DEF Imports, Refreshes, UnpushedStaysQueued, HasLocalPrefix, ProviderRid
      <3> QED
        BY <1>5, <2>4, <3>1
    <2> QED
      BY <1>1, <1>10, <2>1, <2>2, <2>3, <2>4, ItemWrites
  <1> QED
    BY <1>6, <1>7, <1>8, <1>9, <1>10, Writers

(* A row that a step leaves in place keeps its identifier and its deletion; *)
(* only the worker's own drop of a row, its reply and the pull take rows.  *)
LEMMA RowStays ==
  ASSUME IInv, [Next]_vars, NEW q, StillThere(q), q.id \in RowIds,
         ~(\E p \in batch : p.id = q.id /\ PushDropsLocal(p)),
         ~(RecordReply /\ flight.id = q.id),
         ~(\E it \in page : StoreItem(it))
  PROVE  StillThere(q)'
  <1>1. TypeOK /\ StoreTypeOK
    BY DEF IInv, TypeOK
  <1> SUFFICES ASSUME TRUE
               PROVE  /\ q.id \in Present'
                      /\ events'[q.id].rid = events[q.id].rid
                      /\ events'[q.id].dirty
                      /\ events[q.id].deleted => events'[q.id].deleted
    BY DEF StillThere, Queued
  <1>2. q.id \in Present /\ events[q.id].dirty
    BY DEF StillThere, Queued
  <1>3. CASE UNCHANGED <<events, stamp>>
    BY <1>2, <1>3 DEF Present
  <1>4. CASE OwnerActs
    <2>1. PICK id \in RowIds, r \in Row :
            /\ events' = [events EXCEPT ![id] = r]
            /\ r.dirty
            /\ Creates(id, r) \/ Edits(id, r)
      BY <1>1, <1>4, OwnerWrites
    <2>2. /\ Present' = Present \cup {id}
          /\ events'[id] = r
          /\ \A k \in RowIds \ {id} : events'[k] = events[k]
      BY <1>1, <2>1, WriteRow
    <2> QED
      BY <1>2, <2>1, <2>2 DEF Creates, Edits
  <1>5. ASSUME NEW p \in batch, PushDropsLocal(p)
        PROVE  q.id \in Present' /\ events'[q.id] = events[q.id]
    <2>1. p.id \in RowIds /\ p.id # q.id
      BY <1>1, <1>5 DEF TypeOK, Request
    <2>2. DropRow(p.id)
      BY <1>5 DEF PushDropsLocal
    <2>3. /\ Present' = Present \ {p.id}
          /\ \A k \in RowIds \ {p.id} : events'[k] = events[k]
      BY <1>1, <2>1, <2>2, EraseRow
    <2> QED
      BY <1>2, <2>1, <2>3
  <1>6. ASSUME RecordReply PROVE q.id \in Present' /\ events'[q.id] = events[q.id]
    <2>1. /\ flight \in Flight /\ StillThere(flight) /\ flight.id \in RowIds
          /\ flight.id # q.id
      BY <1>6 DEF IInv, FlightIsLive, RecordReply, Flight
    <2>2. CASE DropRow(flight.id)
      <3>1. /\ Present' = Present \ {flight.id}
            /\ \A k \in RowIds \ {flight.id} : events'[k] = events[k]
        BY <1>1, <2>1, <2>2, EraseRow
      <3> QED
        BY <1>2, <2>1, <3>1
    <2>3. ASSUME NEW r \in Row, events' = [events EXCEPT ![flight.id] = r]
          PROVE  q.id \in Present' /\ events'[q.id] = events[q.id]
      <3>1. /\ Present' = Present \cup {flight.id}
            /\ \A k \in RowIds \ {flight.id} : events'[k] = events[k]
        BY <1>1, <2>1, <2>3, WriteRow
      <3> QED
        BY <1>2, <2>1, <3>1
    <2> QED
      BY <1>1, <1>6, <2>1, <2>2, <2>3, ReplyWrites
  <1> QED
    BY <1>2, <1>3, <1>4, <1>5, <1>6, Writers

(* The snapshot stays good until each of its rows has been dealt with.     *)
LEMMA BatchStep == ASSUME IInv, [Next]_vars PROVE BatchIsLive'
  <1>1. TypeOK /\ BatchIsLive
    BY DEF IInv, TypeOK
  <1>2. \A q \in batch : q.id \in RowIds /\ StillThere(q)
    BY <1>1 DEF TypeOK, Request, BatchIsLive
  <1>3. CASE SyncStart
    BY <1>3 DEF SyncStart, storeVars, BatchIsLive, StillThere, Queued, Present
  <1>4. CASE batch' = {}
    BY <1>4 DEF BatchIsLive
  <1>5. ASSUME batch' \subseteq batch, pc' \in {"push", "sent"} \/ batch' = {},
               \A q \in batch' : ~PushDropsLocal(q),
               \A q \in batch' : ~(RecordReply /\ flight.id = q.id),
               \A p \in batch, q \in batch' : p.id = q.id => p = q,
               ~(\E it \in page : StoreItem(it))
        PROVE  BatchIsLive'
    <2>1. ASSUME NEW q \in batch' PROVE StillThere(q)'
      BY <1>2, <1>5, RowStays
    <2> QED
      BY <1>1, <1>5, <2>1 DEF BatchIsLive
  <1>6. ASSUME NEW q \in batch, PushDropsLocal(q) PROVE BatchIsLive'
    <2>1. \A p \in batch' : ~PushDropsLocal(p)
      BY <1>6 DEF PushDropsLocal
    <2> QED
      BY <1>1, <1>5, <1>6, <2>1 DEF PushDropsLocal, RecordReply, StoreItem, BatchIsLive
  <1>7. ASSUME NEW q \in batch, PushSends(q) PROVE BatchIsLive'
    BY <1>1, <1>5, <1>7 DEF PushSends, PushDropsLocal, RecordReply, StoreItem, BatchIsLive
  <1>8. CASE RecordReply
    BY <1>1, <1>5, <1>8
    DEF RecordReply, PushDropsLocal, StoreItem, BatchIsLive, IInv, FlightIsLive
  <1>9. CASE OwnerActs
    BY <1>1, <1>4, <1>5, <1>9
    DEF OwnerActs, syncVars, PushDropsLocal, RecordReply, StoreItem, BatchIsLive
  <1>10. CASE OutsideStep \/ UNCHANGED vars
    BY <1>1, <1>10
    DEF OutsideStep, vars, storeVars, syncVars, BatchIsLive, StillThere, Queued, Present
  <1>11. CASE pc \notin {"idle", "push", "sent"} /\ batch' = batch
    BY <1>1, <1>4, <1>11 DEF BatchIsLive
  <1> QED
    BY <1>3, <1>4, <1>6, <1>7, <1>8, <1>9, <1>10, <1>11
    DEF Next, WorkerStep, PushRefused, EndSync, ListCalendars, PullCalendar, FetchPage,
        StoreItem, PageDone, SyncDone, SyncAborts

(* The outstanding request stays good until its reply is recorded.         *)
LEMMA FlightStep == ASSUME IInv, [Next]_vars PROVE FlightIsLive'
  <1>1. TypeOK /\ StoreTypeOK /\ BatchIsLive /\ FlightIsLive /\ MintedRids
    BY DEF IInv, TypeOK
  <1>2. CASE pc' # "sent" /\ flight' = NoFlight
    BY <1>2 DEF FlightIsLive
  <1>3. CASE pc # "sent" /\ pc' = pc /\ flight' = flight
    BY <1>1, <1>3 DEF FlightIsLive
  <1>4. ASSUME NEW q \in batch, PushSends(q) PROVE FlightIsLive'
    <2>1. /\ q \in Request /\ q.id \in RowIds /\ q.row \in Row
          /\ pc' = "sent" /\ batch' = batch \ {q}
          /\ flight'.id = q.id /\ flight'.row = q.row
          /\ UNCHANGED events
      BY <1>1, <1>4 DEF TypeOK, Request, PushSends, storeVars
    <2>2. flight' \in Flight
      BY <1>4, <2>1 DEF PushSends, Flight, Row, Rid, ProviderRid, RemoteIds
    <2>3. StillThere(flight)' /\ \A p \in batch' : p.id # flight'.id
      BY <1>1, <2>1 DEF BatchIsLive, StillThere, Queued, Present
    <2>4. \/ flight'.saved = flight'.row.rid /\ ~HasLocalPrefix(flight'.row.rid)
          \/ /\ \E n \in RemoteIds : flight'.saved = ProviderRid(n) /\ Exists(n)'
             /\ \A id \in Present' : events'[id].rid # flight'.saved
             /\ ~flight'.row.deleted
      <3>1. CASE ~NeverPushed(q.row)
        BY <1>4, <2>1, <3>1 DEF PushSends, NeverPushed
      <3>2. CASE NeverPushed(q.row)
        <4>1. PICK n \in RemoteIds : /\ ProviderInserts(q.row, n)
                                     /\ flight' = [id |-> q.id, row |-> q.row,
                                                   saved |-> ProviderRid(n)]
          BY <1>4, <3>2 DEF PushSends
        <4>2. \A id \in Present : events[id].rid # ProviderRid(n)
          BY <1>1, <4>1 DEF ProviderInserts, IsFresh, MintedRids, ProviderRid
        <4>3. Exists(n)'
          <5>1. remote'[n] = [cal |-> q.row.cal, val |-> q.row.val, alive |-> TRUE, by |-> "app"]
            BY <1>1, <4>1 DEF TypeOK, ProviderInserts
          <5>2. remote'[n] \in RemoteEvent
            BY <2>1, <5>1 DEF RemoteEvent, Row
          <5> QED
            BY <5>2, GoogleAssumption DEF Exists, GoogleAssumption
        <4>4. ~q.row.deleted
          BY <1>4, <3>2 DEF PushSends
        <4> QED
          BY <2>1, <4>1, <4>2, <4>3, <4>4 DEF Present
      <3> QED
        BY <3>1, <3>2
    <2> QED
      BY <2>1, <2>2, <2>3, <2>4 DEF FlightIsLive, HasLocalPrefix
  <1>5. ASSUME pc = "sent", UNCHANGED <<pc, batch, flight>>,
               OwnerActs \/ UNCHANGED <<events, stamp>>
        PROVE  FlightIsLive'
    <2>1. flight \in Flight /\ StillThere(flight) /\ flight.id \in RowIds
      BY <1>1, <1>5 DEF FlightIsLive, Flight
    <2>2. StillThere(flight)'
      <3>1. /\ ~(\E p \in batch : p.id = flight.id /\ PushDropsLocal(p))
            /\ ~RecordReply
            /\ ~(\E it \in page : StoreItem(it))
        BY <1>5 DEF PushDropsLocal, RecordReply, StoreItem
      <3>2. ASSUME NEW q, q = flight PROVE StillThere(q)'
        BY <2>1, <3>1, <3>2, RowStays
      <3> QED
        BY <1>5, <3>2 DEF StillThere, Queued
    <2>3. ASSUME NEW n \in RemoteIds, flight.saved = ProviderRid(n), Exists(n),
                 \A id \in Present : events[id].rid # flight.saved
          PROVE  Exists(n)' /\ \A id \in Present' : events'[id].rid # flight.saved
      <3>1. Exists(n)'
        BY <2>3, ProviderRemembers
      <3>2. CASE UNCHANGED <<events, stamp>>
        BY <2>3, <3>1, <3>2 DEF Present
      <3>3. CASE OwnerActs
        <4>1. PICK id \in RowIds, r \in Row :
                /\ events' = [events EXCEPT ![id] = r]
                /\ Creates(id, r) \/ Edits(id, r)
          BY <1>1, <3>3, OwnerWrites
        <4>2. /\ Present' = Present \cup {id}
              /\ events'[id] = r
              /\ \A k \in RowIds \ {id} : events'[k] = events[k]
          BY <1>1, <4>1, WriteRow
        <4>3. r.rid # flight.saved
          BY <2>3, <4>1 DEF Creates, Edits, LocalRid, ProviderRid
        <4> QED
          BY <1>1, <2>3, <3>1, <4>2, <4>3, RowsAreRows
      <3> QED
        BY <1>5, <3>2, <3>3
    <2> QED
      BY <1>1, <1>5, <2>1, <2>2, <2>3 DEF FlightIsLive, HasLocalPrefix
  <1> QED
    BY <1>1, <1>2, <1>3, <1>4, <1>5
    DEF Next, WorkerStep, vars, storeVars, syncVars, OwnerActs, SyncStart, PushDropsLocal,
        PushRefused, RecordReply, EndSync, ListCalendars, PullCalendar, FetchPage, StoreItem,
        PageDone, SyncDone, SyncAborts, OutsideStep, FlightIsLive

(* What the pull works on stays known to the provider.                     *)
LEMMA PullStep == ASSUME IInv, [Next]_vars PROVE PullIsLive'
  <1>1. TypeOK /\ PullIsLive
    BY DEF IInv
  <1>2. /\ rest \subseteq RemoteIds
        /\ \A it \in page : it.n \in RemoteIds
    BY <1>1 DEF TypeOK, Item
  <1>3. ASSUME pc' \in {"fetch", "store"} => cal' \in Calendars,
               rest' \subseteq rest, page' \subseteq page
        PROVE  PullIsLive'
    BY <1>1, <1>2, <1>3, ProviderRemembers DEF PullIsLive
  <1>4. ASSUME NEW t \in todo, PullCalendar(t) PROVE PullIsLive'
    <2>1. t.cal \in Calendars /\ cal' = t.cal
      BY <1>1, <1>4 DEF TypeOK, PullCalendar
    <2>2. /\ \A n \in rest' : n \in RemoteIds /\ Exists(n)
          /\ page' = page
      BY <1>4 DEF PullCalendar
    <2> QED
      BY <1>1, <1>2, <2>1, <2>2, ProviderRemembers DEF PullIsLive
  <1>5. CASE FetchPage
    <2>1. PICK ns \in SUBSET rest :
            /\ page' = {[n |-> n, val |-> remote[n].val, alive |-> remote[n].alive] : n \in ns}
            /\ rest' = rest \ ns
      BY <1>5 DEF FetchPage
    <2>2. /\ \A it \in page' : it.n \in rest
          /\ cal' \in Calendars
      BY <1>1, <1>5, <2>1 DEF PullIsLive, FetchPage
    <2> QED
      BY <1>1, <1>2, <2>1, <2>2, ProviderRemembers DEF PullIsLive
  <1>6. CASE \/ OwnerActs \/ SyncStart \/ RecordReply \/ ListCalendars \/ PageDone \/ SyncDone
             \/ SyncAborts \/ OutsideStep \/ UNCHANGED vars
    BY <1>1, <1>3, <1>6
    DEF PullIsLive, OwnerActs, SyncStart, RecordReply, ListCalendars, PageDone, SyncDone,
        SyncAborts, OutsideStep, EndSync, vars, syncVars
  <1>7. ASSUME NEW q \in batch, PushDropsLocal(q) \/ PushSends(q) \/ PushRefused(q)
        PROVE  PullIsLive'
    BY <1>1, <1>3, <1>7 DEF PullIsLive, PushDropsLocal, PushSends, PushRefused, EndSync
  <1>8. ASSUME NEW it \in page, StoreItem(it) PROVE PullIsLive'
    BY <1>1, <1>3, <1>8 DEF PullIsLive, StoreItem
  <1> QED
    BY <1>4, <1>5, <1>6, <1>7, <1>8 DEF Next, WorkerStep

(* Every step keeps the inductive invariant.                               *)
LEMMA InvariantStep == IInv /\ [Next]_vars => IInv'
  BY TypeStep, UniqueKeysStep, MintedRidsStep, UnpushedStep, BatchStep, FlightStep, PullStep
  DEF IInv

(* The inductive invariant holds in every state.                           *)
THEOREM Invariance == Spec => []IInv
  BY InitEstablishes, InvariantStep, PTL DEF Spec

-----------------------------------------------------------------------------
(* The properties                                                          *)

(* Every variable has its type in every state of every behaviour.          *)
THEOREM TypeCorrect == Spec => []TypeOK
<1>1. IInv => TypeOK
  BY DEF IInv
<1> QED
  BY <1>1, Invariance, PTL

(* An event that was created here and not yet pushed stays queued: data.go *)
(* sets dirty, and only the record of a reply (google.go:321) clears it.   *)
THEOREM UnpushedAlwaysQueued == Spec => []UnpushedStaysQueued
<1>1. IInv => UnpushedStaysQueued
  BY DEF IInv
<1> QED
  BY <1>1, Invariance, PTL

(* The UPDATE that records a reply (google.go:321) never violates the      *)
(* UNIQUE(calendar_id, remote_id) constraint, and finds its row.           *)
THEOREM RepliesNeverConflict == Spec => []ReplyNeverConflicts
<1>1. IInv => ReplyNeverConflicts
  BY DEF IInv, FlightIsLive, ReplyNeverConflicts, StillThere, Queued, UniqueKeys, Bound
<1> QED
  BY <1>1, Invariance, PTL

(* A queued row changes or goes only by the owner's edit, the reply to its *)
(* own request, or as a tombstone the provider never heard of.             *)
THEOREM QueuedWorkIsRetained == Spec => QueuedWorkRetained
<1> DEFINE Retained ==
  \A id \in Queued :
       events'[id] # events[id] =>
         \/ edits' = edits + 1
         \/ pc = "sent" /\ flight.id = id
         \/ events[id].deleted /\ HasLocalPrefix(events[id].rid)
<1>1. IInv /\ [Next]_vars => [Retained]_vars
  <2> SUFFICES ASSUME IInv, [Next]_vars, NEW id \in Queued, events'[id] # events[id]
               PROVE  \/ edits' = edits + 1
                      \/ pc = "sent" /\ flight.id = id
                      \/ events[id].deleted /\ HasLocalPrefix(events[id].rid)
    OBVIOUS
  <2>1. /\ TypeOK /\ StoreTypeOK
        /\ id \in Present /\ id \in RowIds /\ events[id].dirty
    BY DEF IInv, TypeOK, Queued, Present
  <2>2. CASE OwnerActs
    <3>1. PICK values : OwnerStep(values)
      BY <2>2 DEF OwnerActs
    <3>2. ASSUME NEW c \in Calendars, NEW v \in values, CreateLocalEvent(c, v) PROVE FALSE
      <4>1. PICK new \in RowIds \ Present : \E r : events' = [events EXCEPT ![new] = r]
        BY <3>2, NextRowIsNew DEF CreateLocalEvent
      <4> QED
        BY <2>1, <4>1
    <3> QED
      BY <3>1, <3>2 DEF OwnerStep, UpdateLocalEvent, DeleteLocalEvent
  <2>3. ASSUME NEW q \in batch, PushDropsLocal(q)
        PROVE  events[id].deleted /\ HasLocalPrefix(events[id].rid)
    <3>1. q.id \in RowIds /\ StillThere(q) /\ DropRow(q.id)
      BY <2>1, <2>3 DEF IInv, BatchIsLive, TypeOK, Request, PushDropsLocal
    <3>2. q.id = id
      BY <2>1, <3>1, EraseRow
    <3> QED
      BY <2>3, <3>1, <3>2 DEF PushDropsLocal, StillThere, Queued, NeverPushed
  <2>4. CASE RecordReply
    <3>1. flight \in Flight /\ StillThere(flight) /\ flight.id \in RowIds
      BY <2>4 DEF IInv, FlightIsLive, RecordReply, Flight
    <3>2. CASE DropRow(flight.id)
      BY <2>1, <2>4, <3>1, <3>2, EraseRow DEF RecordReply
    <3>3. ASSUME NEW r \in Row, events' = [events EXCEPT ![flight.id] = r]
          PROVE  pc = "sent" /\ flight.id = id
      BY <2>1, <2>4, <3>1, <3>3, WriteRow DEF RecordReply
    <3> QED
      BY <2>1, <2>4, <3>1, <3>2, <3>3, ReplyWrites DEF RecordReply
  <2>5. ASSUME NEW it \in page, StoreItem(it) PROVE FALSE
    <3>1. cal \in Calendars /\ it \in Item
      BY <2>1, <2>5 DEF IInv, PullIsLive, StoreItem, TypeOK
    <3>2. CASE CancelsClean
      BY <2>1, <3>2 DEF CancelsClean
    <3>3. ASSUME NEW i \in RowIds, NEW r \in Row, events' = [events EXCEPT ![i] = r],
                 Imports(it, i, r) \/ Refreshes(i, r)
          PROVE  FALSE
      <4>1. i # id
        BY <2>1, <3>3 DEF Imports, Refreshes
      <4> QED
        BY <2>1, <3>3, <4>1, WriteRow
    <3> QED
      BY <2>1, <2>5, <3>1, <3>2, <3>3, ItemWrites
  <2> QED
    BY <2>2, <2>3, <2>4, <2>5, Writers
<1> QED
  BY <1>1, Invariance, PTL DEF Spec, QueuedWorkRetained
-----------------------------------------------------------------------------
(* What is counted: the pull, and what it has published                    *)

(* A page keeps listing events of its calendar, and none that is back.     *)
LEMMA PageStep == ASSUME IInv, PageMatches, [Next]_vars PROVE PageMatches'
  <1>1. TypeOK /\ PullIsLive
    BY DEF IInv
  <1>2. /\ rest \subseteq RemoteIds /\ \A n \in rest : Exists(n)
        /\ \A it \in page : it.n \in RemoteIds /\ Exists(it.n)
    BY <1>1 DEF TypeOK, Item, PullIsLive
  <1>3. /\ \A n \in rest : remote'[n].cal = remote[n].cal
        /\ \A it \in page : /\ remote'[it.n].cal = remote[it.n].cal
                            /\ remote'[it.n].alive => remote[it.n].alive
    BY <1>2, ProviderRemembers
  <1>4. CASE rest' = {} /\ page' = {}
    BY <1>4 DEF PageMatches
  <1>5. CASE rest' = rest /\ page' \subseteq page /\ cal' = cal /\ (page' = {} \/ pc' = pc)
    BY <1>3, <1>5 DEF PageMatches
  <1>6. ASSUME NEW t \in todo, PullCalendar(t) PROVE PageMatches'
    <2>1. page = {} /\ page' = page /\ cal' = t.cal /\ UNCHANGED remote
      BY <1>6 DEF PageMatches, PullCalendar
    <2>2. \A n \in rest' : remote[n].cal = t.cal
      BY <1>6 DEF PullCalendar
    <2> QED
      BY <2>1, <2>2 DEF PageMatches
  <1>7. CASE FetchPage
    <2>1. PICK ns \in SUBSET rest :
            /\ page' = {[n |-> n, val |-> remote[n].val, alive |-> remote[n].alive] : n \in ns}
            /\ rest' = rest \ ns
      BY <1>7 DEF FetchPage
    <2>2. cal' = cal /\ pc' = "store" /\ UNCHANGED remote
      BY <1>7 DEF FetchPage
    <2>3. \A it \in page' : it.n \in rest /\ it.alive = remote[it.n].alive
                            /\ \A other \in page' : other.n = it.n => other = it
      BY <2>1
    <2> QED
      BY <2>1, <2>2, <2>3 DEF PageMatches
  <1>8. CASE PageDone
    BY <1>3, <1>8 DEF PageDone, PageMatches
  <1>9. ASSUME NEW q \in batch, PushDropsLocal(q) \/ PushSends(q) \/ PushRefused(q)
        PROVE  PageMatches'
    BY <1>4, <1>5, <1>9 DEF PushDropsLocal, PushSends, PushRefused, EndSync, PageMatches
  <1>10. ASSUME NEW it \in page, StoreItem(it) PROVE PageMatches'
    BY <1>5, <1>10 DEF StoreItem
  <1>11. CASE SyncStart \/ RecordReply \/ ListCalendars
    BY <1>5, <1>11 DEF SyncStart, RecordReply, ListCalendars, PageMatches
  <1> QED
    BY <1>4, <1>5, <1>6, <1>7, <1>8, <1>9, <1>10, <1>11
    DEF Next, WorkerStep, OwnerActs, SyncDone, SyncAborts, OutsideStep, EndSync, vars, syncVars

(* A deletion that the provider has answered is of an event that is gone.  *)
LEMMA DeletedStep == ASSUME IInv, DeletedIsDead, [Next]_vars PROVE DeletedIsDead'
  <1>1. TypeOK
    BY DEF IInv
  <1>2. CASE pc' # "sent"
    BY <1>2 DEF DeletedIsDead
  <1>3. CASE UNCHANGED <<pc, flight>>
    BY <1>3, ProviderRemembers DEF DeletedIsDead
  <1>4. ASSUME NEW q \in batch, PushSends(q) PROVE DeletedIsDead'
    <2>1. CASE NeverPushed(q.row) \/ ~q.row.deleted
      BY <1>4, <2>1 DEF PushSends, DeletedIsDead
    <2>2. CASE ~NeverPushed(q.row) /\ q.row.deleted
      <3>1. PICK n \in RemoteIds : ProviderDeletes(q.row, n)
        BY <1>4, <2>2 DEF PushSends
      <3>2. q.row.rid = ProviderRid(n) /\ Exists(n) /\ remote' = [remote EXCEPT ![n].alive = FALSE]
        BY <3>1 DEF ProviderDeletes, Addresses
      <3>3. flight'.saved = ProviderRid(n)
        BY <1>4, <2>2, <3>2 DEF PushSends
      <3>4. remote[n] \in RemoteEvent
        BY <1>1, <3>2 DEF TypeOK, Exists
      <3>5. ~remote'[n].alive
        BY <1>1, <3>2, <3>4 DEF TypeOK, RemoteEvent
      <3>6. Exists(n)'
        BY <3>2, ProviderRemembers
      <3> QED
        BY <3>3, <3>5, <3>6 DEF DeletedIsDead
    <2> QED
      BY <2>1, <2>2
  <1> QED
    BY <1>2, <1>3, <1>4
    DEF Next, WorkerStep, vars, syncVars, OwnerActs, SyncStart, PushDropsLocal, PushRefused,
        RecordReply, EndSync, ListCalendars, PullCalendar, FetchPage, StoreItem, PageDone,
        SyncDone, SyncAborts, OutsideStep

(* Only an item of a page is published, if no row of the calendar has its  *)
(* identifier.                                                             *)
LEMMA ImportsStep ==
  ASSUME IInv, [Next]_vars
  PROVE  \/ imports' = imports
         \/ \E it \in page :
              /\ pc = "store" /\ it.alive /\ imports' \subseteq imports \cup {it.n}
              /\ \A id \in RowIds : ~Bound(id, cal, ProviderRid(it.n))
  BY DEF Next, WorkerStep, vars, syncVars, OwnerActs, SyncStart, PushDropsLocal, PushSends,
         PushRefused, RecordReply, ListCalendars, PullCalendar, FetchPage, StoreItem,
         InsertUnknown, PageDone, SyncDone, SyncAborts, OutsideStep

LEMMA ImportsExistStep == ASSUME IInv, ImportsExist, [Next]_vars PROVE ImportsExist'
  <1>1. imports \subseteq RemoteIds /\ \A it \in page : it.n \in RemoteIds /\ Exists(it.n)
    BY DEF IInv, TypeOK, Item, PullIsLive
  <1>2. \A n \in imports' : n \in RemoteIds /\ Exists(n)
    BY <1>1, ImportsStep DEF ImportsExist
  <1> QED
    BY <1>2, ProviderRemembers DEF ImportsExist
-----------------------------------------------------------------------------
(* How two sets are counted together                                       *)

LEMMA Grown ==
  ASSUME NEW S, IsFiniteSet(S), NEW x, NEW T \in SUBSET (S \cup {x})
  PROVE  IsFiniteSet(T) /\ Cardinality(T) \in Nat /\ Cardinality(T) <= Cardinality(S) + 1
<1>1. IsFiniteSet(S \cup {x}) /\ Cardinality(S) \in Nat /\ Cardinality(S \cup {x}) \in Nat
  BY FS_AddElement, FS_CardinalityType
<1>2. \/ Cardinality(S \cup {x}) = Cardinality(S)
      \/ Cardinality(S \cup {x}) = Cardinality(S) + 1
  BY FS_AddElement
<1>3. /\ IsFiniteSet(T) /\ Cardinality(T) \in Nat
      /\ Cardinality(T) <= Cardinality(S \cup {x})
  BY <1>1, FS_Subset, FS_CardinalityType
<1> QED
  BY <1>1, <1>2, <1>3

LEMMA Kept ==
  ASSUME NEW S, IsFiniteSet(S), NEW T \in SUBSET S
  PROVE  IsFiniteSet(T) /\ Cardinality(T) \in Nat /\ Cardinality(T) <= Cardinality(S)
BY FS_Subset, FS_CardinalityType

LEMMA Lost ==
  ASSUME NEW S, IsFiniteSet(S), NEW y \in S, NEW T \in SUBSET (S \ {y})
  PROVE  IsFiniteSet(T) /\ Cardinality(T) \in Nat /\ Cardinality(T) <= Cardinality(S) - 1
<1>1. /\ IsFiniteSet(S \ {y}) /\ Cardinality(S \ {y}) = Cardinality(S) - 1
      /\ Cardinality(S) \in Nat
  BY FS_RemoveElement, FS_CardinalityType
<1> QED
  BY <1>1, Kept

(* Two sets hold at most k elements together, and at most l after a step   *)
(* that adds none, that adds one and raises the bound, or that takes one   *)
(* from the second set and adds one to the first.                          *)
Paid(A, B, k, A1, B1, l) ==
  \/ A1 \subseteq A /\ B1 \subseteq B /\ k <= l
  \/ A1 \subseteq A /\ k < l /\ \E x : B1 \subseteq B \cup {x}
  \/ B1 \subseteq B /\ k < l /\ \E x : A1 \subseteq A \cup {x}
  \/ k <= l /\ \E x, y : A1 \subseteq A \cup {x} /\ y \in B /\ B1 \subseteq B \ {y}

LEMMA CountedTogether ==
  ASSUME NEW A, NEW B, IsFiniteSet(A), IsFiniteSet(B), NEW k \in Nat, NEW l \in Nat,
         Cardinality(A) + Cardinality(B) <= k,
         NEW A1, NEW B1, Paid(A, B, k, A1, B1, l)
  PROVE  Cardinality(A1) + Cardinality(B1) <= l
<1>1. Cardinality(A) \in Nat /\ Cardinality(B) \in Nat
  BY FS_CardinalityType
<1>2. CASE A1 \subseteq A /\ B1 \subseteq B /\ k <= l
  BY <1>1, <1>2, Kept
<1>3. ASSUME NEW x, A1 \subseteq A, B1 \subseteq B \cup {x}, k < l
      PROVE  Cardinality(A1) + Cardinality(B1) <= l
  <2>1. Cardinality(A1) \in Nat /\ Cardinality(A1) <= Cardinality(A)
    BY <1>3, Kept
  <2>2. Cardinality(B1) \in Nat /\ Cardinality(B1) <= Cardinality(B) + 1
    BY <1>3, Grown
  <2> QED
    BY <1>1, <1>3, <2>1, <2>2
<1>4. ASSUME NEW x, A1 \subseteq A \cup {x}, B1 \subseteq B, k < l
      PROVE  Cardinality(A1) + Cardinality(B1) <= l
  <2>1. Cardinality(A1) \in Nat /\ Cardinality(A1) <= Cardinality(A) + 1
    BY <1>4, Grown
  <2>2. Cardinality(B1) \in Nat /\ Cardinality(B1) <= Cardinality(B)
    BY <1>4, Kept
  <2> QED
    BY <1>1, <1>4, <2>1, <2>2
<1>5. ASSUME NEW x, NEW y \in B, A1 \subseteq A \cup {x}, B1 \subseteq B \ {y}, k <= l
      PROVE  Cardinality(A1) + Cardinality(B1) <= l
  <2>1. Cardinality(A1) \in Nat /\ Cardinality(A1) <= Cardinality(A) + 1
    BY <1>5, Grown
  <2>2. Cardinality(B1) \in Nat /\ Cardinality(B1) <= Cardinality(B) - 1
    BY <1>5, Lost
  <2> QED
    BY <1>1, <1>5, <2>1, <2>2
<1> QED
  BY <1>2, <1>3, <1>4, <1>5 DEF Paid

(* All that is counted is a part of what the bounds of the model allow.    *)
LEMMA CountedIsFinite ==
  ASSUME IInv
  PROVE  /\ IsFiniteSet(AppMade) /\ IsFiniteSet(Unsent)
         /\ IsFiniteSet(Echoes) /\ IsFiniteSet(Strays)
         /\ stamp \in Nat /\ moves \in Nat /\ faults \in Nat
<1>1. IsFiniteSet(RowIds) /\ IsFiniteSet(RemoteIds)
  BY FS_Interval, StoreAssumption, GoogleAssumption
  DEF StoreAssumption, GoogleAssumption, RowIds, RemoteIds
<1>2. /\ AppMade \subseteq RemoteIds /\ Echoes \subseteq RemoteIds
      /\ Unsent \subseteq RowIds /\ Strays \subseteq RowIds
  BY DEF AppMade, Echoes, Unsent, Strays, Present
<1>3. stamp \in Nat /\ moves \in Nat /\ faults \in Nat
  BY StoreAssumption, GoogleAssumption
  DEF IInv, TypeOK, StoreTypeOK, StoreAssumption, GoogleAssumption
<1> QED
  BY <1>1, <1>2, <1>3, Kept
-----------------------------------------------------------------------------
(* The events the app made                                                 *)

LEMMA AppMadeStep ==
  ASSUME IInv, [Next]_vars, NEW n \in AppMade'
  PROVE  \/ n \in AppMade
         \/ ~Exists(n) /\ \E q \in batch : Posts(q, n) /\ remote'[n].cal = q.row.cal
<1>1. remote \in [RemoteIds -> RemoteEvent \cup {NoEvent}] /\ n \in RemoteIds
  BY DEF IInv, TypeOK, AppMade
<1>2. CASE UNCHANGED remote
  BY <1>2 DEF AppMade, Exists
<1>3. CASE Exists(n)
  BY <1>1, <1>3, ProviderRemembers DEF AppMade
<1>4. ASSUME NEW m \in RemoteIds, NEW r \in RemoteEvent, remote' = [remote EXCEPT ![m] = r],
             ~Exists(n)
      PROVE  n = m /\ remote'[n] = r
  BY <1>1, <1>4 DEF AppMade, Exists
<1> QED
  BY <1>2, <1>3, <1>4, RemoteWrites DEF AppMade, Revises

(* The rows that no request is out for.                                    *)
LEMMA UnsentKept ==
  ASSUME \A id : InFlight(id) => InFlight(id)',
         \A id \in Present' : id \in Present /\ events'[id].rid = events[id].rid
  PROVE  Unsent' \subseteq Unsent
BY DEF Unsent, InFlight

(* A step that makes no event and lets none be made again.                 *)
LEMMA UnsentStep ==
  ASSUME IInv, [Next]_vars, ~OwnerActs, ~SyncAborts
  PROVE  Unsent' \subseteq Unsent
<1>1. TypeOK /\ StoreTypeOK
  BY DEF IInv, TypeOK
<1>2. CASE UNCHANGED <<events, stamp>> /\ ~RecordReply
  <2>1. \A id : InFlight(id) => InFlight(id)'
    BY <1>2
    DEF Next, WorkerStep, vars, syncVars, SyncStart, PushDropsLocal, PushSends, PushRefused,
        ListCalendars, PullCalendar, FetchPage, StoreItem, PageDone, SyncDone, OutsideStep,
        InFlight
  <2> QED
    BY <1>2, <2>1, UnsentKept DEF Present
<1>3. ASSUME NEW q \in batch, PushDropsLocal(q) PROVE Unsent' \subseteq Unsent
  <2>1. q.id \in RowIds /\ DropRow(q.id) /\ pc = "push"
    BY <1>1, <1>3 DEF TypeOK, Request, PushDropsLocal
  <2>2. /\ Present' = Present \ {q.id}
        /\ \A i \in RowIds \ {q.id} : events'[i] = events[i]
    BY <1>1, <2>1, EraseRow
  <2> QED
    BY <2>1, <2>2 DEF Unsent, InFlight, Present
<1>4. CASE RecordReply
  <2>1. /\ pc = "sent" /\ pc' = "push" /\ flight \in Flight /\ StillThere(flight)
        /\ flight.id \in RowIds
    BY <1>4 DEF IInv, FlightIsLive, RecordReply, Flight
  <2>2. CASE DropRow(flight.id)
    BY <1>1, <2>1, <2>2, EraseRow DEF Unsent, InFlight, Present
  <2>3. ASSUME NEW r \in Row, events' = [events EXCEPT ![flight.id] = r], Acknowledges(r)
        PROVE  Unsent' \subseteq Unsent
    <3>1. ~HasLocalPrefix(flight.saved)
      <4>1. ASSUME NEW n PROVE ~HasLocalPrefix(ProviderRid(n))
        BY DEF HasLocalPrefix, ProviderRid
      <4> QED
        BY <2>1, <4>1 DEF IInv, FlightIsLive
    <3> QED
      BY <1>1, <2>1, <2>3, <3>1, WriteRow DEF Unsent, InFlight, Acknowledges, Present
  <2> QED
    BY <1>1, <1>4, <2>1, <2>2, <2>3, ReplyWrites
<1>5. ASSUME NEW it \in page, StoreItem(it) PROVE Unsent' \subseteq Unsent
  <2>1. cal \in Calendars /\ it \in Item /\ pc = "store"
    BY <1>1, <1>5 DEF IInv, PullIsLive, StoreItem, TypeOK
  <2>2. CASE UNCHANGED events
    BY <2>1, <2>2 DEF Unsent, InFlight, Present
  <2>3. CASE CancelsClean
    BY <2>1, <2>3 DEF CancelsClean, Unsent, InFlight, Present
  <2>4. ASSUME NEW id \in RowIds, NEW r \in Row, events' = [events EXCEPT ![id] = r],
               Imports(it, id, r) \/ Refreshes(id, r)
        PROVE  Unsent' \subseteq Unsent
    <3>1. HasLocalPrefix(r.rid) => id \in Present /\ r.rid = events[id].rid
      BY <2>4 DEF Imports, Refreshes, HasLocalPrefix, ProviderRid
    <3> QED
      BY <1>1, <2>1, <2>4, <3>1, WriteRow DEF Unsent, InFlight, Present
  <2> QED
    BY <1>1, <1>5, <2>1, <2>2, <2>3, <2>4, ItemWrites
<1> QED
  BY <1>2, <1>3, <1>4, <1>5, Writers

(* A creation or a lost reply pays for the POST to come; the POST takes    *)
(* the row off those that are still to be sent.                            *)
LEMMA CopiesStep == ASSUME IInv, CopiesCounted, [Next]_vars PROVE CopiesCounted'
<1> DEFINE k == stamp + faults
           Goal == Paid(AppMade, Unsent, k, AppMade', Unsent', k')
<1>1. TypeOK /\ StoreTypeOK /\ stamp \in Nat /\ faults \in Nat
  BY CountedIsFinite DEF IInv, TypeOK
<1>2. SUFFICES Goal /\ k' \in Nat
  BY <1>1, CountedIsFinite, CountedTogether DEF CopiesCounted
<1>3. AppMade' \subseteq AppMade \/ \E q \in batch : \E n : Posts(q, n)
  BY AppMadeStep
<1>4. CASE OwnerActs
  <2>1. PICK id \in RowIds, r \in Row :
          events' = [events EXCEPT ![id] = r] /\ (Creates(id, r) \/ Edits(id, r))
    BY <1>1, <1>4, OwnerWrites
  <2>2. /\ Present' = Present \cup {id}
        /\ events'[id] = r
        /\ \A i \in RowIds \ {id} : events'[i] = events[i]
    BY <1>1, <2>1, WriteRow
  <2>3. UNCHANGED <<remote, pc, flight, faults>>
    BY <1>4 DEF OwnerActs, syncVars
  <2>4. AppMade' \subseteq AppMade
    BY <2>3 DEF AppMade, Exists
  <2>5. CASE Creates(id, r)
    <3>1. Unsent' \subseteq Unsent \cup {id}
      BY <2>2, <2>3 DEF Unsent, InFlight, Present
    <3> QED
      BY <1>1, <2>3, <2>4, <2>5, <3>1 DEF Paid, Creates
  <2>6. CASE Edits(id, r)
    <3>1. Unsent' \subseteq Unsent
      BY <2>2, <2>3, <2>6 DEF Unsent, InFlight, Present, Edits
    <3> QED
      BY <1>1, <2>3, <2>4, <2>6, <3>1 DEF Paid, Edits
  <2> QED
    BY <2>1, <2>5, <2>6
<1>5. CASE SyncAborts
  <2>1. /\ UNCHANGED <<events, stamp, remote>> /\ pc' = "idle" /\ faults' = faults + 1
    BY <1>5 DEF SyncAborts, EndSync, storeVars
  <2>2. Unsent' \subseteq Unsent \cup {flight.id} /\ AppMade' \subseteq AppMade
    BY <2>1 DEF Unsent, InFlight, Present, AppMade, Exists
  <2> QED
    BY <1>1, <2>1, <2>2 DEF Paid
<1>6. ASSUME NEW q \in batch, NEW n, Posts(q, n) PROVE Goal /\ k' \in Nat
  <2>1. /\ pc = "push" /\ pc' = "sent" /\ flight'.id = q.id
        /\ UNCHANGED <<events, stamp, faults>>
    BY <1>6 DEF Posts, PushSends, storeVars
  <2>2. StillThere(q) /\ q.id \in Present /\ HasLocalPrefix(events[q.id].rid)
    BY <1>6 DEF IInv, BatchIsLive, StillThere, Queued, Posts, NeverPushed
  <2>3. q.id \in Unsent /\ Unsent' \subseteq Unsent \ {q.id}
    BY <2>1, <2>2 DEF Unsent, InFlight, Present
  <2>4. AppMade' \subseteq AppMade \cup {n}
    <3>1. ASSUME NEW p, NEW m, Posts(p, m) PROVE m = n
      BY <1>6, <3>1 DEF Posts, ProviderRid
    <3> QED
      BY <3>1, AppMadeStep
  <2> QED
    BY <1>1, <2>1, <2>3, <2>4 DEF Paid
<1>7. CASE ~OwnerActs /\ ~SyncAborts /\ AppMade' \subseteq AppMade
  <2>1. stamp' = stamp /\ faults' = faults
    BY <1>7
    DEF Next, WorkerStep, vars, storeVars, SyncStart, PushDropsLocal, PushSends, PushRefused,
        RecordReply, ListCalendars, PullCalendar, FetchPage, StoreItem, PageDone, SyncDone,
        OutsideStep
  <2> QED
    BY <1>1, <1>7, <2>1, UnsentStep DEF Paid
<1> QED
  BY <1>3, <1>4, <1>5, <1>6, <1>7
-----------------------------------------------------------------------------
(* The echoes                                                              *)

LEMMA ListedStep ==
  ASSUME IInv, [Next]_vars, NEW n \in RemoteIds, Exists(n), Listed(n)'
  PROVE  Listed(n)
<1>1. CASE remote'[n].alive
  BY <1>1, ProviderRemembers DEF Listed
<1>2. CASE page' \subseteq page /\ ~remote'[n].alive
  BY <1>2 DEF Listed
<1>3. CASE FetchPage
  <2>1. PICK ns \in SUBSET rest :
          page' = {[n |-> m, val |-> remote[m].val, alive |-> remote[m].alive] : m \in ns}
    BY <1>3 DEF FetchPage
  <2>2. \A it \in page' : it.alive = remote[it.n].alive
    BY <2>1
  <2> QED
    BY <1>1, <2>2 DEF Listed
<1> QED
  BY <1>1, <1>2, <1>3
  DEF Next, WorkerStep, vars, syncVars, OwnerActs, SyncStart, PushDropsLocal, PushSends,
      PushRefused, RecordReply, EndSync, ListCalendars, PullCalendar, StoreItem, PageDone,
      SyncDone, SyncAborts, OutsideStep

(* An event becomes an echo only by losing its row: the pull publishes an  *)
(* item only if no row of the calendar has its identifier.                 *)
LEMMA EchoGained ==
  ASSUME IInv, PageMatches, [Next]_vars, NEW n \in AppMade, n \in Echoes'
  PROVE  n \in Echoes \/ (Homed(n) /\ Listed(n)' /\ ~Homed(n)')
<1>1. n \in RemoteIds /\ Exists(n)
  BY DEF AppMade
<1>2. CASE n \in imports
  BY <1>2 DEF Echoes
<1>3. CASE n \in imports' /\ n \notin imports
  <2>1. PICK it \in page : /\ pc = "store" /\ it.alive /\ it.n = n
                           /\ \A id \in RowIds : ~Bound(id, cal, ProviderRid(n))
    BY <1>3, ImportsStep
  <2>2. remote[n].cal = cal
    BY <2>1 DEF PageMatches
  <2>3. ~Homed(n)
    BY <2>1, <2>2 DEF Homed, Identity, InFlight, Bound, Present
  <2> QED
    BY <2>1, <2>3 DEF Echoes, Listed
<1>4. CASE Listed(n)' /\ ~Homed(n)'
  BY <1>1, <1>4, ListedStep DEF Echoes
<1> QED
  BY <1>2, <1>3, <1>4 DEF Echoes

LEMMA HomeStays ==
  ASSUME NEW n, remote'[n].cal = remote[n].cal, NEW id \in Present,
         events[id].cal = remote[n].cal, Identity(id) = ProviderRid(n),
         id \in Present', events'[id].cal = events[id].cal, Identity(id)' = Identity(id)
  PROVE  Homed(n)'
BY DEF Homed

(* Nothing but an edit of the owner or a lost reply takes an event its row, *)
(* unless the provider has no such event any more.                         *)
LEMMA HomedStep ==
  ASSUME IInv, PageMatches, DeletedIsDead, [Next]_vars, ~OwnerActs, ~SyncAborts,
         NEW n \in RemoteIds, Exists(n), Homed(n), Listed(n)'
  PROVE  Homed(n)'
<1>1. TypeOK /\ StoreTypeOK /\ remote'[n].cal = remote[n].cal
  BY ProviderRemembers DEF IInv, TypeOK
<1>2. PICK id \in Present : events[id].cal = remote[n].cal /\ Identity(id) = ProviderRid(n)
  BY DEF Homed
<1>3. id \in RowIds /\ ~HasLocalPrefix(ProviderRid(n))
  BY DEF Present, HasLocalPrefix, ProviderRid
<1>4. CASE UNCHANGED <<events, stamp>> /\ ~RecordReply /\ ~(\E q \in batch : PushSends(q))
  <2>1. (pc' # "sent" /\ pc # "sent") \/ UNCHANGED <<pc, flight>>
    BY <1>4
    DEF Next, WorkerStep, vars, syncVars, SyncStart, PushDropsLocal, PushRefused, EndSync,
        ListCalendars, PullCalendar, FetchPage, StoreItem, PageDone, SyncDone, OutsideStep
  <2>2. Identity(id)' = Identity(id) /\ id \in Present'
    BY <1>4, <2>1 DEF Identity, InFlight, Present
  <2> QED
    BY <1>1, <1>2, <1>4, <2>2, HomeStays
<1>5. ASSUME NEW q \in batch, PushDropsLocal(q) PROVE Homed(n)'
  <2>1. /\ pc = "push" /\ pc' = "push" /\ q.id \in RowIds /\ DropRow(q.id)
        /\ HasLocalPrefix(events[q.id].rid)
    BY <1>1, <1>5
    DEF IInv, BatchIsLive, StillThere, Queued, TypeOK, Request, PushDropsLocal, NeverPushed
  <2>2. id # q.id
    BY <1>2, <1>3, <2>1 DEF Identity, InFlight
  <2>3. id \in Present' /\ events'[id] = events[id]
    BY <1>1, <1>3, <2>1, <2>2, EraseRow
  <2>4. Identity(id)' = Identity(id)
    BY <2>1, <2>3 DEF Identity, InFlight
  <2> QED
    BY <1>1, <1>2, <2>3, <2>4, HomeStays
<1>6. ASSUME NEW q \in batch, PushSends(q) PROVE Homed(n)'
  <2>1. /\ pc = "push" /\ UNCHANGED events /\ flight'.id = q.id
        /\ ~NeverPushed(q.row) => flight'.saved = q.row.rid
        /\ events[q.id].rid = q.row.rid
    BY <1>6 DEF PushSends, storeVars, IInv, BatchIsLive, StillThere
  <2>2. Identity(id) = events[id].rid
    BY <2>1 DEF Identity, InFlight
  <2>3. id = q.id => ~NeverPushed(q.row)
    BY <1>2, <1>3, <2>1, <2>2 DEF NeverPushed
  <2>4. Identity(id)' = Identity(id) /\ id \in Present'
    BY <2>1, <2>2, <2>3 DEF Identity, InFlight, Present
  <2> QED
    BY <1>1, <1>2, <2>1, <2>4, HomeStays
<1>7. CASE RecordReply
  <2>1. /\ pc = "sent" /\ pc' = "push" /\ flight \in Flight /\ flight.id \in Present
        /\ flight.id \in RowIds /\ flight.saved \in Rid /\ UNCHANGED <<remote, page>>
    BY <1>7 DEF IInv, FlightIsLive, StillThere, Queued, RecordReply, Flight
  <2>2. page = {}
    BY <2>1 DEF PageMatches
  <2>3. CASE flight.row.deleted
    <3>1. DropRow(flight.id)
      BY <1>7, <2>3 DEF RecordReply
    <3>2. remote[n].alive
      BY <2>1, <2>2 DEF Listed
    <3>3. flight.saved # ProviderRid(n)
      <4>1. PICK m \in RemoteIds : flight.saved = ProviderRid(m) /\ ~remote[m].alive
        BY <2>1, <2>3 DEF DeletedIsDead
      <4> QED
        BY <3>2, <4>1 DEF ProviderRid
    <3>4. id # flight.id
      BY <1>2, <2>1, <3>3 DEF Identity, InFlight
    <3>5. id \in Present' /\ events'[id] = events[id]
      BY <1>1, <1>3, <2>1, <3>1, <3>4, EraseRow
    <3>6. Identity(id)' = Identity(id)
      BY <2>1, <3>4, <3>5 DEF Identity, InFlight
    <3> QED
      BY <1>1, <1>2, <3>5, <3>6, HomeStays
  <2>4. CASE ~flight.row.deleted
    <3>1. MarkPushed(flight.id, flight.saved)
      BY <1>7, <2>4 DEF RecordReply
    <3>2. PICK r \in Row : /\ events' = [events EXCEPT ![flight.id] = r]
                           /\ Marks(flight.id, flight.saved, r)
      BY <1>1, <2>1, <3>1, MarkWrites
    <3>3. /\ id \in Present'
          /\ events'[flight.id] = r
          /\ id # flight.id => events'[id] = events[id]
      BY <1>1, <1>3, <2>1, <3>2, WriteRow
    <3>4. events'[id].cal = events[id].cal /\ Identity(id)' = Identity(id)
      BY <2>1, <3>2, <3>3 DEF Identity, InFlight, Marks
    <3> QED
      BY <1>1, <1>2, <3>3, <3>4, HomeStays
  <2> QED
    BY <2>3, <2>4
<1>8. ASSUME NEW it \in page, StoreItem(it) PROVE Homed(n)'
  <2>1. /\ cal \in Calendars /\ it \in Item /\ pc = "store" /\ pc' = "store"
        /\ page' = page \ {it} /\ UNCHANGED remote
    BY <1>1, <1>8 DEF IInv, PullIsLive, StoreItem, TypeOK
  <2>2. SUFFICES /\ id \in Present' /\ events'[id].cal = events[id].cal
                 /\ events'[id].rid = events[id].rid
    BY <1>1, <1>2, <2>1, HomeStays DEF Identity, InFlight
  <2>3. CASE ~it.alive
    <3>1. events' = [i \in RowIds |->
                       IF Bound(i, cal, ProviderRid(it.n)) /\ ~events[i].dirty
                       THEN NoRow ELSE events[i]]
      BY <1>8, <2>3 DEF StoreItem
    <3>2. n # it.n
      BY <2>1, <2>3 DEF Listed, PageMatches
    <3>3. events[id].rid = ProviderRid(n)
      BY <1>2, <2>1 DEF Identity, InFlight
    <3>4. events'[id] = events[id]
      BY <1>3, <3>1, <3>2, <3>3 DEF Bound, ProviderRid
    <3> QED
      BY <1>3, <3>4 DEF Present
  <2>4. CASE UNCHANGED events
    BY <2>4 DEF Present
  <2>5. ASSUME NEW i \in RowIds, NEW r \in Row, events' = [events EXCEPT ![i] = r],
               Imports(it, i, r) \/ Refreshes(i, r)
        PROVE  /\ id \in Present' /\ events'[id].cal = events[id].cal
               /\ events'[id].rid = events[id].rid
    <3>1. /\ id \in Present' /\ events'[i] = r
          /\ id # i => events'[id] = events[id]
      BY <1>1, <1>3, <2>5, WriteRow
    <3> QED
      BY <2>5, <3>1 DEF Imports, Refreshes
  <2> QED
    BY <1>1, <1>8, <2>1, <2>3, <2>4, <2>5, ItemWrites
<1> QED
  BY <1>4, <1>5, <1>6, <1>7, <1>8, Writers
LEMMA StraysStep ==
  ASSUME IInv, [Next]_vars, ~OwnerActs
  PROVE  Strays' \subseteq Strays
<1>1. TypeOK /\ StoreTypeOK /\ BatchIsLive
  BY DEF IInv, TypeOK
<1>2. CASE batch' = {}
  BY <1>2 DEF Strays
<1>3. ASSUME batch' \subseteq batch, \A q \in batch' : events'[q.id] = events[q.id]
      PROVE  Strays' \subseteq Strays
  BY <1>3 DEF Strays
<1>4. CASE SyncStart
  BY <1>4 DEF SyncStart, storeVars, Strays
<1>5. ASSUME NEW q \in batch, PushDropsLocal(q) PROVE Strays' \subseteq Strays
  <2>1. /\ q.id \in RowIds /\ DropRow(q.id) /\ batch' = batch \ {q}
        /\ \A p \in batch' : p.id \in RowIds \ {q.id}
    BY <1>1, <1>5 DEF TypeOK, Request, PushDropsLocal, BatchIsLive
  <2> QED
    BY <1>1, <1>3, <2>1, EraseRow
<1>6. CASE RecordReply
  <2>1. /\ flight \in Flight /\ StillThere(flight) /\ flight.id \in RowIds /\ batch' = batch
        /\ \A p \in batch' : p.id \in RowIds \ {flight.id}
    BY <1>1, <1>6 DEF IInv, FlightIsLive, RecordReply, Flight, TypeOK, Request
  <2>2. \A p \in batch' : events'[p.id] = events[p.id]
    <3>1. CASE DropRow(flight.id)
      BY <1>1, <2>1, <3>1, EraseRow
    <3>2. ASSUME NEW r \in Row, events' = [events EXCEPT ![flight.id] = r]
          PROVE  \A p \in batch' : events'[p.id] = events[p.id]
      BY <1>1, <2>1, <3>2, WriteRow
    <3> QED
      BY <1>1, <1>6, <2>1, <3>1, <3>2, ReplyWrites
  <2> QED
    BY <1>3, <2>1, <2>2
<1>7. CASE batch' \subseteq batch /\ UNCHANGED events
  BY <1>3, <1>7
<1> QED
  BY <1>1, <1>2, <1>4, <1>5, <1>6, <1>7
  DEF Next, WorkerStep, vars, storeVars, syncVars, BatchIsLive, PushSends, PushRefused, EndSync,
      ListCalendars, PullCalendar, FetchPage, StoreItem, PageDone, SyncDone, SyncAborts,
      OutsideStep

(* A move pays for the event or the snapshot row that it takes away, a     *)
(* lost reply for the event it leaves without a row.                       *)
LEMMA EchoesStep ==
  ASSUME IInv, PageMatches, DeletedIsDead, ImportsExist, EchoesCounted, [Next]_vars
  PROVE  EchoesCounted'
<1> DEFINE k == faults + moves
           Goal == Paid(Echoes, Strays, k, Echoes', Strays', k')
<1>1. TypeOK /\ StoreTypeOK /\ moves \in Nat /\ faults \in Nat
  BY CountedIsFinite DEF IInv, TypeOK
<1>2. SUFFICES Goal /\ k' \in Nat
  BY <1>1, CountedIsFinite, CountedTogether DEF EchoesCounted
<1>3. \A n \in Echoes' : n \in AppMade'
  BY DEF Echoes
<1>4. CASE OwnerActs
  <2>1. PICK id \in RowIds, r \in Row :
          events' = [events EXCEPT ![id] = r] /\ (Creates(id, r) \/ Edits(id, r))
    BY <1>1, <1>4, OwnerWrites
  <2>2. /\ Present' = Present \cup {id}
        /\ events'[id] = r
        /\ \A i \in RowIds \ {id} : events'[i] = events[i]
        /\ moves' = IF id \in Present /\ r.cal # events[id].cal THEN moves + 1 ELSE moves
    BY <1>1, <1>4, <2>1, WriteRow, MovesCounted
  <2>3. UNCHANGED <<remote, pc, flight, batch, page, imports, faults>>
    BY <1>4 DEF OwnerActs, syncVars
  <2>4. /\ \A i \in Present \ {id} : Identity(i)' = Identity(i)
        /\ Strays' \subseteq Strays \cup {id}
    BY <2>2, <2>3 DEF Identity, InFlight, Present, Strays
  <2>5. ASSUME NEW n \in Echoes', n \notin Echoes
        PROVE  id \in Present /\ Identity(id) = ProviderRid(n)
    <3>1. n \in AppMade
      BY <2>3, <2>5 DEF Echoes, AppMade, Exists
    <3>2. Homed(n) /\ ~Homed(n)'
      BY <2>5, <3>1, EchoGained DEF IInv
    <3>3. PICK i \in Present : events[i].cal = remote[n].cal /\ Identity(i) = ProviderRid(n)
      BY <3>2 DEF Homed
    <3> QED
      BY <2>2, <2>3, <2>4, <3>2, <3>3, HomeStays DEF Present
  <2>6. CASE Creates(id, r)
    <3>1. Echoes' \subseteq Echoes
      BY <2>5, <2>6 DEF Creates
    <3>2. \A q \in batch : q.id # id
      BY <1>1, <2>6 DEF IInv, BatchIsLive, StillThere, Queued, Creates
    <3>3. Strays' \subseteq Strays
      BY <2>2, <2>3, <3>2 DEF Strays
    <3> QED
      BY <1>1, <2>2, <2>3, <2>6, <3>1, <3>3 DEF Paid, Creates
  <2>7. CASE Edits(id, r) /\ r.cal = events[id].cal
    <3>1. Identity(id)' = Identity(id) /\ id \in Present /\ id \in Present'
      BY <2>2, <2>3, <2>7 DEF Identity, InFlight, Edits
    <3>2. ASSUME NEW n \in Echoes', n \notin Echoes PROVE FALSE
      <4>1. n \in AppMade /\ remote'[n].cal = remote[n].cal
        BY <2>3, <3>2 DEF Echoes, AppMade, Exists
      <4>2. Homed(n) /\ ~Homed(n)'
        BY <3>2, <4>1, EchoGained DEF IInv
      <4>3. PICK i \in Present : events[i].cal = remote[n].cal /\ Identity(i) = ProviderRid(n)
        BY <4>2 DEF Homed
      <4>4. i \in Present' /\ events'[i].cal = events[i].cal /\ Identity(i)' = Identity(i)
        BY <2>2, <2>4, <2>7, <3>1, <4>3 DEF Present
      <4> QED
        BY <4>1, <4>2, <4>3, <4>4, HomeStays
    <3>3. Strays' \subseteq Strays
      BY <2>2, <2>3, <2>7 DEF Strays
    <3> QED
      BY <1>1, <2>2, <2>3, <2>7, <3>2, <3>3 DEF Paid
  <2>8. CASE /\ Edits(id, r) /\ r.cal # events[id].cal
             /\ \E q \in batch : q.id = id /\ NeverPushed(q.row)
    <3>1. PICK q \in batch : q.id = id /\ NeverPushed(q.row)
      BY <2>8
    <3>2. HasLocalPrefix(events[id].rid) /\ ~InFlight(id)
      BY <3>1
      DEF IInv, BatchIsLive, FlightIsLive, StillThere, Queued, NeverPushed, InFlight
    <3>3. ASSUME NEW n PROVE Identity(id) # ProviderRid(n)
      BY <3>2 DEF Identity, HasLocalPrefix, ProviderRid
    <3>4. Echoes' \subseteq Echoes
      BY <2>5, <3>3
    <3> QED
      BY <1>1, <2>2, <2>3, <2>4, <2>8, <3>4 DEF Paid, Edits
  <2>9. CASE /\ Edits(id, r) /\ r.cal # events[id].cal
             /\ ~(\E q \in batch : q.id = id /\ NeverPushed(q.row))
    <3>1. Strays' \subseteq Strays
      BY <2>2, <2>3, <2>9 DEF Strays
    <3>2. Echoes' \subseteq Echoes \cup {Identity(id).n}
      BY <2>5 DEF ProviderRid
    <3> QED
      BY <1>1, <2>2, <2>3, <2>9, <3>1, <3>2 DEF Paid, Edits
  <2> QED
    BY <2>1, <2>6, <2>7, <2>8, <2>9
<1>5. CASE SyncAborts
  <2>1. /\ UNCHANGED <<events, moves, remote, imports>> /\ pc' = "idle" /\ page' = {}
        /\ faults' = faults + 1
    BY <1>5 DEF SyncAborts, EndSync, storeVars
  <2>2. ASSUME NEW n \in Echoes', n \notin Echoes PROVE n = flight.saved.n
    <3>1. n \in AppMade
      BY <2>1, <2>2 DEF Echoes, AppMade, Exists
    <3>2. Homed(n) /\ ~Homed(n)'
      BY <2>2, <3>1, EchoGained
    <3>3. PICK i \in Present : events[i].cal = remote[n].cal /\ Identity(i) = ProviderRid(n)
      BY <3>2 DEF Homed
    <3>4. CASE InFlight(i)
      BY <3>3, <3>4 DEF Identity, ProviderRid
    <3>5. CASE ~InFlight(i)
      BY <2>1, <3>2, <3>3, <3>5, HomeStays DEF Identity, InFlight, Present
    <3> QED
      BY <3>4, <3>5
  <2>3. Echoes' \subseteq Echoes \cup {flight.saved.n}
    BY <2>2
  <2>4. Strays' \subseteq Strays
    BY <1>5 DEF SyncAborts, EndSync, Strays
  <2> QED
    BY <1>1, <2>1, <2>3, <2>4 DEF Paid
<1>6. CASE ~OwnerActs /\ ~SyncAborts
  <2>1. faults' = faults /\ moves' = moves
    BY <1>6
    DEF Next, WorkerStep, vars, storeVars, SyncStart, PushDropsLocal, PushSends, PushRefused,
        RecordReply, ListCalendars, PullCalendar, FetchPage, StoreItem, PageDone, SyncDone,
        OutsideStep
  <2>2. Strays' \subseteq Strays
    BY <1>6, StraysStep
  <2>3. ASSUME NEW n \in AppMade, n \in Echoes' PROVE n \in Echoes
    BY <1>6, <2>3, EchoGained, HomedStep DEF AppMade
  <2>4. CASE \A n \in Echoes' : n \in AppMade
    <3>1. Echoes' \subseteq Echoes
      BY <2>3, <2>4
    <3> QED
      BY <1>1, <2>1, <2>2, <3>1 DEF Paid
  <2>5. ASSUME NEW m \in Echoes', m \notin AppMade PROVE Goal /\ k' \in Nat
    <3>1. PICK q \in batch : ~Exists(m) /\ Posts(q, m) /\ remote'[m].cal = q.row.cal
      BY <1>3, <2>5, AppMadeStep
    <3>2. /\ UNCHANGED <<events, imports>> /\ pc' = "sent" /\ batch' = batch \ {q}
          /\ NeverPushed(q.row) /\ flight'.id = q.id /\ flight'.saved = ProviderRid(m)
      BY <3>1 DEF Posts, PushSends, storeVars
    <3>3. Echoes' \subseteq Echoes \cup {m}
      <4>1. ASSUME NEW p, NEW n, Posts(p, n) PROVE n = m
        BY <3>1, <4>1 DEF Posts, ProviderRid
      <4> QED
        BY <1>3, <2>3, <4>1, AppMadeStep
    <3>4. q.id \in Present /\ q.id \in RowIds /\ \A p \in batch' : p.id # q.id
      BY <3>2 DEF IInv, BatchIsLive, StillThere, Queued, Present
    <3>5. Strays' \subseteq Strays \ {q.id}
      BY <2>2, <3>4 DEF Strays
    <3>6. ~Homed(m)'
      <4>1. m \notin imports'
        BY <3>1, <3>2 DEF ImportsExist
      <4> QED
        BY <2>5, <4>1 DEF Echoes
    <3>7. events[q.id].cal # q.row.cal
      BY <3>1, <3>2, <3>4, <3>6 DEF Homed, Identity, InFlight, Present
    <3>8. q.id \in Strays
      BY <3>2, <3>4, <3>7 DEF Strays
    <3> QED
      BY <1>1, <2>1, <3>3, <3>5, <3>8 DEF Paid
  <2> QED
    BY <2>4, <2>5, <1>1, <2>1
<1> QED
  BY <1>4, <1>5, <1>6
-----------------------------------------------------------------------------
(* The theorems about what is counted                                      *)

LEMMA CountInit == Init => CountInv
<1> SUFFICES ASSUME Init PROVE CountInv
  OBVIOUS
<1> USE DEF Init, StoreInit
<1>1. AppMade = {} /\ Unsent = {} /\ Echoes = {} /\ Strays = {}
  BY DEF AppMade, Unsent, Echoes, Strays, Exists, Present
<1>2. CopiesCounted /\ EchoesCounted
  BY <1>1, FS_EmptySet DEF CopiesCounted, EchoesCounted
<1> QED
  BY <1>2 DEF CountInv, PageMatches, DeletedIsDead, ImportsExist

LEMMA CountStep == IInv /\ CountInv /\ [Next]_vars => CountInv'
  BY PageStep, DeletedStep, ImportsExistStep, CopiesStep, EchoesStep DEF CountInv

(* What is counted together stays within its bound, with what the counting *)
(* needs to know of the pull.                                              *)
THEOREM CountInvariance == Spec => []CountInv
<1>1. Init => CountInv
  BY CountInit
<1>2. IInv /\ CountInv /\ [Next]_vars => CountInv'
  BY CountStep
<1> QED
  BY <1>1, <1>2, Invariance, PTL DEF Spec

(* google.go:300-322: a created event is posted once, and once more at     *)
(* most for every reply that was not recorded, whatever the owner and      *)
(* other clients do to it.                                                 *)
THEOREM CopiesAlwaysBounded == Spec => []CopiesBoundedByFaults
<1>1. ASSUME IInv, CountInv PROVE CopiesBoundedByFaults
  <2>1. Cardinality(AppMade) \in Nat /\ Cardinality(Unsent) \in Nat
    BY <1>1, CountedIsFinite, FS_CardinalityType
  <2> QED
    BY <1>1, <2>1, CountedIsFinite DEF CountInv, CopiesCounted, CopiesBoundedByFaults
<1> QED
  BY <1>1, Invariance, CountInvariance, PTL

(* google.go:257-266: of the events the app made itself, the pull announces *)
(* as imported no more than syncs were cut off and events were taken to    *)
(* another calendar.                                                       *)
THEOREM EchoesAlwaysBounded == Spec => []EchoesBounded
<1>1. ASSUME IInv, CountInv PROVE EchoesBounded
  <2>1. AppMade \cap imports \subseteq Echoes
    BY DEF Echoes
  <2>2. /\ Cardinality(AppMade \cap imports) \in Nat
        /\ Cardinality(AppMade \cap imports) <= Cardinality(Echoes)
    BY <1>1, <2>1, CountedIsFinite, Kept
  <2>3. Cardinality(Echoes) \in Nat /\ Cardinality(Strays) \in Nat
    BY <1>1, CountedIsFinite, FS_CardinalityType
  <2> QED
    BY <1>1, <2>2, <2>3, CountedIsFinite DEF CountInv, EchoesCounted, EchoesBounded
<1> QED
  BY <1>1, Invariance, CountInvariance, PTL

-----------------------------------------------------------------------------
(* Refinement                                                              *)
(*                                                                         *)
(* A row stands for an entry, the outstanding request for the offer.  Each *)
(* step that writes the table writes or erases one row, hence one entry;   *)
(* IInv says which: a snapshot row is still queued when its request is     *)
(* sent, its row is still there when the reply comes, and no request is    *)
(* outstanding while a calendar is pulled.                                 *)

(* An entry is determined by what it says of its row.                      *)
LEMMA EntryFields ==
  ASSUME NEW r, NEW sent \in BOOLEAN, NEW queued \in BOOLEAN, NEW gone \in BOOLEAN,
         NeverPushed(r) <=> ~sent, r.dirty = queued, r.deleted = gone
  PROVE  /\ EntryOf(r) = [sent |-> sent, queued |-> queued, gone |-> gone]
         /\ EntryOf(r) \in OutboxOf!Entry
  <1>1. (~NeverPushed(r)) = sent
    BY DEF NeverPushed, HasLocalPrefix
  <1>2. EntryOf(r) = [sent |-> sent, queued |-> queued, gone |-> gone]
    BY <1>1, Zenon DEF EntryOf
  <1> QED
    BY <1>2 DEF OutboxOf!Entry

(* What the actions of the outbox make of an entry, field by field.        *)
LEMMA EntryUpdates ==
  ASSUME NEW e \in OutboxOf!Entry
  PROVE  /\ [e EXCEPT !.queued = TRUE] = [sent |-> e.sent, queued |-> TRUE, gone |-> e.gone]
         /\ [e EXCEPT !.queued = TRUE, !.gone = TRUE]
              = [sent |-> e.sent, queued |-> TRUE, gone |-> TRUE]
         /\ [e EXCEPT !.sent = TRUE, !.queued = FALSE]
              = [sent |-> TRUE, queued |-> FALSE, gone |-> e.gone]
  <1>1. ASSUME NEW f \in OutboxOf!Entry
        PROVE  f = [sent |-> f.sent, queued |-> f.queued, gone |-> f.gone]
    BY DEF OutboxOf!Entry
  <1> DEFINE changed == [e EXCEPT !.queued = TRUE]
             cancelled == [e EXCEPT !.queued = TRUE, !.gone = TRUE]
             answered == [e EXCEPT !.sent = TRUE, !.queued = FALSE]
  <1>2. /\ changed \in OutboxOf!Entry
        /\ changed.sent = e.sent /\ changed.queued = TRUE /\ changed.gone = e.gone
    BY DEF OutboxOf!Entry
  <1>3. /\ cancelled \in OutboxOf!Entry
        /\ cancelled.sent = e.sent /\ cancelled.queued = TRUE /\ cancelled.gone = TRUE
    BY DEF OutboxOf!Entry
  <1>4. /\ answered \in OutboxOf!Entry
        /\ answered.sent = TRUE /\ answered.queued = FALSE /\ answered.gone = e.gone
    BY DEF OutboxOf!Entry
  <1> HIDE DEF changed, cancelled, answered
  <1>5. /\ changed = [sent |-> e.sent, queued |-> TRUE, gone |-> e.gone]
        /\ cancelled = [sent |-> e.sent, queued |-> TRUE, gone |-> TRUE]
        /\ answered = [sent |-> TRUE, queued |-> FALSE, gone |-> e.gone]
    BY <1>1, <1>2, <1>3, <1>4
  <1> QED
    BY <1>5 DEF changed, cancelled, answered

LEMMA EntryOfRow ==
  ASSUME NEW r \in Row
  PROVE  \E sent \in BOOLEAN :
           /\ NeverPushed(r) <=> ~sent
           /\ EntryOf(r) = [sent |-> sent, queued |-> r.dirty, gone |-> r.deleted]
           /\ EntryOf(r) \in OutboxOf!Entry
           /\ EntryOf(r).sent = sent /\ EntryOf(r).queued = r.dirty
           /\ EntryOf(r).gone = r.deleted
  <1>1. r.dirty \in BOOLEAN /\ r.deleted \in BOOLEAN
    BY DEF Row
  <1>2. PICK sent \in BOOLEAN : NeverPushed(r) <=> ~sent
    OBVIOUS
  <1> QED
    BY <1>1, <1>2, EntryFields

(* Writing a row writes its entry, and nothing else.                       *)
LEMMA WriteEntry ==
  ASSUME StoreTypeOK, NEW id \in RowIds, NEW r \in Row,
         events' = [events EXCEPT ![id] = r]
  PROVE  EntriesOf' = [EntriesOf EXCEPT ![id] = EntryOf(r)]
  <1>1. /\ Present' = Present \cup {id}
        /\ events'[id] = r
        /\ \A k \in RowIds \ {id} : events'[k] = events[k]
    BY WriteRow
  <1>2. EntriesOf' = [k \in RowIds |-> IF k \in Present' THEN EntryOf(events'[k]) ELSE NoRow]
    BY DEF EntriesOf, EntryOf, NeverPushed, HasLocalPrefix
  <1>3. \A k \in RowIds : (IF k \in Present' THEN EntryOf(events'[k]) ELSE NoRow)
                          = [EntriesOf EXCEPT ![id] = EntryOf(r)][k]
    BY <1>1 DEF EntriesOf
  <1> QED
    BY <1>2, <1>3 DEF EntriesOf

(* Erasing a row erases its entry, and nothing else.                       *)
LEMMA EraseEntry ==
  ASSUME StoreTypeOK, NEW id \in RowIds, DropRow(id)
  PROVE  EntriesOf' = [EntriesOf EXCEPT ![id] = NoRow]
  <1>1. /\ Present' = Present \ {id}
        /\ \A k \in RowIds \ {id} : events'[k] = events[k]
    BY EraseRow
  <1>2. EntriesOf' = [k \in RowIds |-> IF k \in Present' THEN EntryOf(events'[k]) ELSE NoRow]
    BY DEF EntriesOf, EntryOf, NeverPushed, HasLocalPrefix
  <1> QED
    BY <1>1, <1>2 DEF EntriesOf

(* The entries in use are those of the rows that are present.              *)
LEMMA EntriesInUse ==
  ASSUME StoreTypeOK
  PROVE  /\ OutboxOf!Used = Present
         /\ \A id \in Present : EntriesOf[id] = EntryOf(events[id])
         /\ \A id \in Present :
              \E sent \in BOOLEAN :
                /\ NeverPushed(events[id]) <=> ~sent
                /\ EntriesOf[id] \in OutboxOf!Entry
                /\ EntriesOf[id].sent = sent /\ EntriesOf[id].queued = events[id].dirty
                /\ EntriesOf[id].gone = events[id].deleted
  <1>1. \A id \in Present : id \in RowIds /\ events[id] \in Row
    BY RowsAreRows DEF Present
  <1>2. \A id \in Present : EntriesOf[id] = EntryOf(events[id])
    BY <1>1 DEF EntriesOf
  <1>3. \A id \in Present : EntryOf(events[id]) \in OutboxOf!Entry
    BY <1>1, EntryOfRow
  <1>4. \A id \in RowIds \ Present : EntriesOf[id] = NoRow
    BY DEF EntriesOf
  <1>5. OutboxOf!Used = Present
    BY <1>1, <1>2, <1>3, <1>4, OutboxAssumption DEF OutboxOf!Used, Present, OutboxAssumption
  <1> QED
    BY <1>1, <1>2, <1>5, EntryOfRow

(* The empty account is the empty outbox.                                  *)
LEMMA InitMaps == Init => OutboxOf!Init
  BY DEF Init, StoreInit, OutboxOf!Init, EntriesOf, OfferOf, Present

(* The owner puts an entry into the outbox, changes one or cancels one.    *)
LEMMA OwnerMaps ==
  ASSUME IInv, OwnerActs
  PROVE  OutboxOf!Next
  <1>1. StoreTypeOK
    BY DEF IInv, TypeOK
  <1>2. UNCHANGED OfferOf
    BY DEF OwnerActs, syncVars, OfferOf
  <1>3. PICK id \in RowIds, r \in Row :
          /\ events' = [events EXCEPT ![id] = r]
          /\ r.dirty
          /\ Creates(id, r) \/ Edits(id, r)
    BY <1>1, OwnerWrites
  <1>4. EntriesOf' = [EntriesOf EXCEPT ![id] = EntryOf(r)]
    BY <1>1, <1>3, WriteEntry
  <1>5. r.dirty = TRUE /\ r.deleted \in BOOLEAN
    BY <1>3 DEF Row
  <1>6. CASE Creates(id, r)
    <2>1. id \notin OutboxOf!Used
      BY <1>1, <1>6, EntriesInUse DEF Creates
    <2>2. NeverPushed(r) /\ r.deleted = FALSE
      BY <1>5, <1>6 DEF Creates, NeverPushed, HasLocalPrefix, LocalRid
    <2>3. EntryOf(r) = [sent |-> FALSE, queued |-> TRUE, gone |-> FALSE]
      BY <1>5, <2>2, EntryFields
    <2>4. OutboxOf!Put(id)
      BY <1>2, <1>4, <2>1, <2>3 DEF OutboxOf!Put
    <2> QED
      BY <2>4 DEF OutboxOf!Next
  <1>7. CASE Edits(id, r)
    <2>1. id \in Present /\ id \in OutboxOf!Used
      BY <1>1, <1>7, EntriesInUse DEF Edits
    <2>2. PICK sent \in BOOLEAN :
            /\ NeverPushed(events[id]) <=> ~sent
            /\ EntriesOf[id] \in OutboxOf!Entry
            /\ EntriesOf[id].sent = sent /\ EntriesOf[id].gone = events[id].deleted
      BY <1>1, <2>1, EntriesInUse
    <2>3. /\ NeverPushed(r) <=> ~sent
          /\ EntryOf(r) = [sent |-> sent, queued |-> TRUE, gone |-> r.deleted]
      <3>1. NeverPushed(r) <=> ~sent
        BY <1>7, <2>2 DEF Edits, NeverPushed
      <3> QED
        BY <1>5, <3>1, EntryFields
    <2>4. CASE r.deleted
      <3>1. EntryOf(r) = [EntriesOf[id] EXCEPT !.queued = TRUE, !.gone = TRUE]
        BY <1>5, <2>2, <2>4, <2>3, EntryUpdates
      <3>2. OutboxOf!Cancel(id)
        BY <1>2, <1>4, <2>1, <3>1 DEF OutboxOf!Cancel, EntriesOf
      <3> QED
        BY <3>2 DEF OutboxOf!Next
    <2>5. CASE ~r.deleted
      <3>1. r.deleted = events[id].deleted
        BY <1>1, <1>5, <1>7, <2>1, <2>5, RowsAreRows DEF Edits, Row
      <3>2. EntryOf(r) = [EntriesOf[id] EXCEPT !.queued = TRUE]
        <4>1. [EntriesOf[id] EXCEPT !.queued = TRUE]
                = [sent |-> sent, queued |-> TRUE, gone |-> EntriesOf[id].gone]
          BY <2>2, EntryUpdates
        <4> QED
          BY <2>2, <2>3, <3>1, <4>1
      <3>3. OutboxOf!Change(id)
        BY <1>2, <1>4, <2>1, <3>2 DEF OutboxOf!Change, EntriesOf
      <3> QED
        BY <3>3 DEF OutboxOf!Next
    <2> QED
      BY <2>4, <2>5
  <1> QED
    BY <1>3, <1>6, <1>7

(* A tombstone that was never pushed is discarded.                         *)
LEMMA DropMaps ==
  ASSUME IInv, NEW q \in batch, PushDropsLocal(q)
  PROVE  OutboxOf!Next
  <1>1. StoreTypeOK /\ q.id \in RowIds /\ StillThere(q)
    BY DEF IInv, TypeOK, Request, BatchIsLive
  <1>2. EntriesOf' = [EntriesOf EXCEPT ![q.id] = NoRow] /\ UNCHANGED OfferOf
    BY <1>1, EraseEntry DEF PushDropsLocal, OfferOf
  <1>3. q.id \in Present /\ events[q.id].deleted /\ NeverPushed(events[q.id])
    BY <1>1 DEF StillThere, Queued, PushDropsLocal, NeverPushed
  <1>4. OutboxOf!Discard(q.id)
    BY <1>1, <1>2, <1>3, EntriesInUse DEF OutboxOf!Discard
  <1> QED
    BY <1>1, <1>4 DEF OutboxOf!Next

(* A request offers the entry of its row, as a cancellation only if the    *)
(* row is a tombstone by then.                                             *)
LEMMA SendMaps ==
  ASSUME IInv, NEW q \in batch, PushSends(q)
  PROVE  OutboxOf!Next
  <1>1. /\ StoreTypeOK /\ q.id \in RowIds /\ q.row \in Row
        /\ StillThere(q) /\ flight = NoFlight
    BY DEF IInv, TypeOK, Request, BatchIsLive, FlightIsLive, PushSends
  <1>2. flight' \in Flight /\ flight'.id = q.id /\ flight'.row = q.row
    BY <1>1 DEF PushSends, Flight, Row, Rid, ProviderRid, RemoteIds
  <1>3. OfferOf = NoFlight /\ OfferOf' = [id |-> q.id, gone |-> q.row.deleted]
    BY <1>1, <1>2, GoogleAssumption DEF OfferOf, GoogleAssumption
  <1>4. UNCHANGED EntriesOf
    BY DEF PushSends, storeVars, EntriesOf, Present, EntryOf, NeverPushed, HasLocalPrefix
  <1>5. q.id \in Present /\ events[q.id].dirty /\ (q.row.deleted => events[q.id].deleted)
    BY <1>1 DEF StillThere, Queued
  <1>6. OutboxOf!Offer(q.id, q.row.deleted)
    BY <1>1, <1>3, <1>4, <1>5, EntriesInUse DEF OutboxOf!Offer
  <1>7. q.row.deleted \in BOOLEAN
    BY <1>1 DEF Row
  <1> QED
    BY <1>1, <1>6, <1>7 DEF OutboxOf!Next

(* The record of a reply acknowledges what was offered.                    *)
LEMMA ReplyMaps ==
  ASSUME IInv, RecordReply
  PROVE  OutboxOf!Next
  <1>1. /\ StoreTypeOK /\ flight \in Flight /\ flight.id \in RowIds /\ StillThere(flight)
        /\ pc = "sent" /\ flight' = NoFlight
    BY DEF IInv, TypeOK, FlightIsLive, RecordReply, Flight
  <1>2. flight.id \in Present /\ flight.id \in OutboxOf!Used
    BY <1>1, EntriesInUse DEF StillThere, Queued
  <1>3. /\ OfferOf = [id |-> flight.id, gone |-> flight.row.deleted]
        /\ OfferOf' = NoFlight
    BY <1>1, GoogleAssumption DEF OfferOf, GoogleAssumption
  <1>4. OfferOf # NoFlight /\ OfferOf.id = flight.id /\ OfferOf.gone = flight.row.deleted
    <2>1. OfferOf \in OutboxOf!Offers
      BY <1>1, <1>3 DEF OutboxOf!Offers, Flight, Row
    <2> QED
      BY <1>3, <2>1, OutboxAssumption DEF OutboxAssumption
  <1>5. CASE flight.row.deleted
    <2>1. EntriesOf' = [EntriesOf EXCEPT ![flight.id] = NoRow]
      BY <1>1, <1>5, EraseEntry DEF RecordReply
    <2> QED
      BY <1>2, <1>3, <1>4, <1>5, <2>1 DEF OutboxOf!Acknowledge, OutboxOf!Next
  <1>6. CASE ~flight.row.deleted
    <2>1. PICK r \in Row : /\ events' = [events EXCEPT ![flight.id] = r]
                           /\ ~r.dirty /\ Acknowledges(r)
      <3>1. /\ flight.row.deleted = FALSE
            /\ MarkPushed(flight.id, flight.saved)
        BY <1>6 DEF RecordReply
      <3>2. events[flight.id] \in Row /\ flight.saved \in Rid
        BY <1>1, <1>2, RowsAreRows DEF Flight
      <3> DEFINE r == [events[flight.id] EXCEPT !.rid = flight.saved, !.dirty = FALSE]
      <3>3. r \in Row /\ ~r.dirty /\ Acknowledges(r)
        BY <3>2 DEF Row, Acknowledges
      <3>4. events' = [events EXCEPT ![flight.id] = r]
        BY <1>2, <3>1 DEF MarkPushed
      <3> QED
        BY <3>3, <3>4
    <2>2. EntriesOf' = [EntriesOf EXCEPT ![flight.id] = EntryOf(r)]
      BY <1>1, <2>1, WriteEntry
    <2>3. ~HasLocalPrefix(flight.saved)
      <3>1. \A n : ~HasLocalPrefix(ProviderRid(n))
        BY DEF HasLocalPrefix, ProviderRid
      <3> QED
        BY <1>1, <3>1 DEF IInv, FlightIsLive
    <2>4. r.dirty = FALSE /\ r.deleted = events[flight.id].deleted /\ ~NeverPushed(r)
      BY <2>1, <2>3 DEF Row, Acknowledges, NeverPushed
    <2>5. /\ EntriesOf[flight.id] \in OutboxOf!Entry
          /\ EntriesOf[flight.id].gone = events[flight.id].deleted
      BY <1>1, <1>2, EntriesInUse
    <2>6. EntryOf(r) = [sent |-> TRUE, queued |-> FALSE, gone |-> r.deleted]
      <3>1. r.deleted \in BOOLEAN
        BY <2>1 DEF Row
      <3> QED
        BY <2>4, <3>1, EntryFields
    <2>7. EntryOf(r) = [EntriesOf[flight.id] EXCEPT !.sent = TRUE, !.queued = FALSE]
      BY <2>4, <2>5, <2>6, EntryUpdates
    <2> QED
      BY <1>2, <1>3, <1>4, <1>6, <2>2, <2>7
      DEF OutboxOf!Acknowledge, OutboxOf!Next, EntriesOf
  <1> QED
    BY <1>5, <1>6

(* An item of a page is received, withdraws a clean entry or changes none. *)
LEMMA ItemMaps ==
  ASSUME IInv, NEW it \in page, StoreItem(it)
  PROVE  OutboxOf!Next \/ UNCHANGED OutboxOf!outbox
  <1>1. /\ TypeOK /\ StoreTypeOK /\ UniqueKeys
        /\ cal \in Calendars /\ it \in Item
    BY DEF IInv, TypeOK, PullIsLive, StoreItem
  <1>2. UNCHANGED OfferOf
    BY DEF StoreItem, OfferOf
  <1>3. CASE UNCHANGED events
    BY <1>2, <1>3
    DEF OutboxOf!outbox, EntriesOf, Present, EntryOf, NeverPushed, HasLocalPrefix
  <1>4. CASE ~it.alive
    <2>1. events' = [id \in RowIds |->
                       IF Bound(id, cal, ProviderRid(it.n)) /\ ~events[id].dirty
                       THEN NoRow ELSE events[id]]
      BY <1>4 DEF StoreItem
    <2>2. ASSUME NEW id \in RowIds, Bound(id, cal, ProviderRid(it.n)), ~events[id].dirty
          PROVE  OutboxOf!Next
      <3>1. \A k \in RowIds \ {id} : ~Bound(k, cal, ProviderRid(it.n))
        BY <1>1, <2>2 DEF UniqueKeys, Bound
      <3>2. DropRow(id)
        BY <1>1, <2>1, <2>2, <3>1 DEF DropRow, StoreTypeOK
      <3>3. EntriesOf' = [EntriesOf EXCEPT ![id] = NoRow]
        BY <1>1, <3>2, EraseEntry
      <3>4. id \in OutboxOf!Used /\ ~EntriesOf[id].queued
        BY <1>1, <2>2, EntriesInUse DEF Bound
      <3>5. OutboxOf!Withdraw(id)
        BY <1>2, <3>3, <3>4 DEF OutboxOf!Withdraw
      <3> QED
        BY <3>5 DEF OutboxOf!Next
    <2>3. CASE \A id \in RowIds : ~(Bound(id, cal, ProviderRid(it.n)) /\ ~events[id].dirty)
      BY <1>1, <1>3, <2>1, <2>3 DEF StoreTypeOK
    <2> QED
      BY <2>2, <2>3
  <1>5. ASSUME NEW id \in RowIds, NEW r \in Row, events' = [events EXCEPT ![id] = r],
               ~r.dirty, Imports(it, id, r)
        PROVE  OutboxOf!Next
    <2>1. EntriesOf' = [EntriesOf EXCEPT ![id] = EntryOf(r)]
      BY <1>1, <1>5, WriteEntry
    <2>2. id \notin OutboxOf!Used
      BY <1>1, <1>5, EntriesInUse DEF Imports
    <2>3. ~NeverPushed(r) /\ r.dirty = FALSE /\ r.deleted = FALSE
      BY <1>5 DEF Imports, NeverPushed, HasLocalPrefix, ProviderRid, Row
    <2>4. EntryOf(r) = [sent |-> TRUE, queued |-> FALSE, gone |-> FALSE]
      BY <2>3, EntryFields
    <2>5. OutboxOf!Receive(id)
      BY <1>2, <2>1, <2>2, <2>4 DEF OutboxOf!Receive
    <2> QED
      BY <2>5 DEF OutboxOf!Next
  <1>6. ASSUME NEW id \in RowIds, NEW r \in Row, events' = [events EXCEPT ![id] = r],
               ~r.dirty, Refreshes(id, r)
        PROVE  UNCHANGED OutboxOf!outbox
    <2>1. EntriesOf' = [EntriesOf EXCEPT ![id] = EntryOf(r)]
      BY <1>1, <1>6, WriteEntry
    <2>2. /\ id \in Present /\ events[id] \in Row
          /\ r.dirty = events[id].dirty /\ r.deleted = events[id].deleted
          /\ r.rid = events[id].rid
      BY <1>1, <1>6, RowsAreRows DEF Refreshes, Row
    <2>3. EntryOf(r) = EntryOf(events[id])
      BY <2>2 DEF EntryOf, NeverPushed
    <2>4. EntriesOf[id] = EntryOf(r)
      BY <1>1, <2>2, <2>3, EntriesInUse
    <2>5. UNCHANGED EntriesOf
      BY <2>1, <2>4 DEF EntriesOf
    <2> QED
      BY <1>2, <2>5 DEF OutboxOf!outbox
  <1> QED
    BY <1>1, <1>3, <1>4, <1>5, <1>6, ItemWrites

(* Every step of the synchronisation is a step of the outbox, or none.     *)
LEMMA StepMaps == IInv /\ [Next]_vars => [OutboxOf!Next]_(OutboxOf!outbox)
  <1> SUFFICES ASSUME IInv, [Next]_vars
               PROVE  OutboxOf!Next \/ UNCHANGED OutboxOf!outbox
    OBVIOUS
  <1>1. ASSUME UNCHANGED events, UNCHANGED flight \/ flight' = NoFlight
        PROVE  OutboxOf!Next \/ UNCHANGED OutboxOf!outbox
    <2>1. UNCHANGED EntriesOf
      BY <1>1 DEF EntriesOf, Present, EntryOf, NeverPushed, HasLocalPrefix
    <2>2. CASE UNCHANGED OfferOf
      BY <2>1, <2>2 DEF OutboxOf!outbox
    <2>3. CASE OfferOf # NoFlight /\ OfferOf' = NoFlight
      BY <2>1, <2>3 DEF OutboxOf!Abandon, OutboxOf!Next
    <2> QED
      BY <1>1, <2>2, <2>3 DEF OfferOf
  <1>2. CASE SyncStart \/ ListCalendars \/ FetchPage \/ PageDone \/ SyncDone \/ SyncAborts
             \/ OutsideStep \/ UNCHANGED vars
    BY <1>1, <1>2
    DEF SyncStart, ListCalendars, FetchPage, PageDone, SyncDone, SyncAborts, OutsideStep,
        EndSync, vars, storeVars, syncVars
  <1>3. ASSUME NEW q \in batch, PushRefused(q)
        PROVE  OutboxOf!Next \/ UNCHANGED OutboxOf!outbox
    BY <1>1, <1>3 DEF PushRefused, EndSync, storeVars
  <1>4. ASSUME NEW t \in todo, PullCalendar(t)
        PROVE  OutboxOf!Next \/ UNCHANGED OutboxOf!outbox
    BY <1>1, <1>4 DEF PullCalendar
  <1> QED
    BY <1>2, <1>3, <1>4, OwnerMaps, DropMaps, SendMaps, ReplyMaps, ItemMaps
    DEF Next, WorkerStep

(* GoogleSync implements Outbox: in every behaviour, whatever the owner,   *)
(* other clients, lost replies and restarts do, queued work enters by the  *)
(* owner (data.go:121-172) and leaves by the record of the answer to its   *)
(* own request (google.go:293-324) or as a tombstone that was never sent.  *)
THEOREM SyncImplementsOutbox == Spec => ImplementsOutbox
<1>1. Init => OutboxOf!Init
  BY InitMaps
<1>2. IInv /\ [Next]_vars => [OutboxOf!Next]_(OutboxOf!outbox)
  BY StepMaps
<1> QED
  BY <1>1, <1>2, Invariance, PTL DEF Spec, ImplementsOutbox, OutboxOf!Spec
=============================================================================
