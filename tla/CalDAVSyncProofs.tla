-------------------------- MODULE CalDAVSyncProofs --------------------------
(***************************************************************************)
(* Safety of CalDAVSync for every value of its constants.                  *)
(*                                                                         *)
(* As in GoogleSync, a snapshot row is still there, still queued and under *)
(* the identifier it was read with when its request is sent and when the   *)
(* reply is recorded.  What is new is how the app's own resources at the   *)
(* provider are counted: not as they appear, but by the places where the   *)
(* app has put one or may still put one.  A place is opened by a creation  *)
(* or an edit, so that neither a retry nor a lost reply opens one.         *)
(***************************************************************************)
EXTENDS CalDAVSync, EventStoreProofs, FiniteSetTheorems

(* What appending "@bespoke" does to an identifier.                        *)
LEMMA UidFacts ==
  ASSUME NEW rid \in Rid
  PROVE  /\ Uid(rid) \in Rid
         /\ HasLocalPrefix(Uid(rid)) <=> HasLocalPrefix(rid)
         /\ HasLocalPrefix(rid) => Uid(rid).suffix > 0
         /\ ~HasLocalPrefix(rid) => Uid(rid) = rid
  BY DEF Uid, Rid, HasLocalPrefix

(* The steps that write the table of events, and the steps that write the  *)
(* provider's resources.                                                   *)
LEMMA Writers ==
  ASSUME [Next]_vars
  PROVE  \/ UNCHANGED <<events, stamp, edits>>
         \/ OwnerActs
         \/ \E q \in batch : PushDropsLocal(q)
         \/ RecordReply
         \/ \E it \in page : StoreItem(it)
  BY DEF Next, WorkerStep, vars, storeVars, SyncStart, ListCalendars, TakeSnapshot, PushSends,
         PushRefused, ReplyConflicts, EndSync, PushDone, PullCalendar, FetchCalendar,
         CalendarDone, SyncDone, SyncAborts, OutsideStep

-----------------------------------------------------------------------------
(* What a statement does to the table of events.                           *)

LEMMA OwnerWrites ==
  ASSUME StoreTypeOK, OwnerActs
  PROVE  \E id \in RowIds, r \in Row :
           /\ events' = [events EXCEPT ![id] = r]
           /\ r.dirty
           /\ Creates(id, r) \/ Edits(id, r)
  <1>1. OwnerStep(Contents \ Malformed) /\ Contents \ Malformed \in SUBSET Contents
    BY DEF OwnerActs
  <1> QED
    BY <1>1, OwnerStepWrites

(* A resource of the REPORT: a new clean row, the contents of a clean one, *)
(* or nothing.                                                             *)
LEMMA ItemWrites ==
  ASSUME StoreTypeOK, cal \in Calendars, NEW it \in Resource, StoreItem(it)
  PROVE  \/ UNCHANGED events
         \/ \E id \in RowIds, r \in Row :
              /\ events' = [events EXCEPT ![id] = r]
              /\ Inserts(cal, it.uid, id, r) \/ Refreshes(id, r)
  <1>1. it.uid \in Rid /\ it.val \in Contents
    BY DEF Resource
  <1>2. CASE RefreshKnown(cal, it.uid, it.val)
    BY <1>1, <1>2, RefreshWrites
  <1>3. CASE InsertUnknown(cal, it.uid, it.val)
    BY <1>1, <1>3, InsertWrites
  <1> QED
    BY <1>2, <1>3 DEF StoreItem

(* The reply of a request drops its tombstone or gives its row, which is   *)
(* still there, the identifier it was put under.                           *)
LEMMA ReplyWrites ==
  ASSUME StoreTypeOK, RecordReply, flight \in Request, StillThere(flight)
  PROVE  \/ flight.row.deleted /\ DropRow(flight.id)
         \/ /\ ~flight.row.deleted
            /\ \E r \in Row : /\ events' = [events EXCEPT ![flight.id] = r]
                             /\ Marks(flight.id, Uid(flight.row.rid), r)
  <1> SUFFICES ASSUME ~flight.row.deleted
               PROVE  \E r \in Row : /\ events' = [events EXCEPT ![flight.id] = r]
                                     /\ Marks(flight.id, Uid(flight.row.rid), r)
    BY DEF RecordReply
  <1>1. flight.id \in Present /\ Uid(flight.row.rid) \in Rid
    BY UidFacts DEF StillThere, Queued, Request, Row
  <1>2. MarkPushed(flight.id, Uid(flight.row.rid))
    BY DEF RecordReply
  <1> QED
    BY <1>1, <1>2, MarkWrites

-----------------------------------------------------------------------------
(* Every step keeps each part of the invariant.                            *)

(* The empty account of a new connection satisfies the inductive invariant. *)
THEOREM InitEstablishes == Init => IInv
<1> SUFFICES ASSUME Init PROVE IInv
  OBVIOUS
<1> USE DEF Init, StoreInit
<1>1. TypeOK
  <2>1. 0 \in 0..MaxStamp /\ 0 \in 0..MaxEdits /\ 0 \in 0..MaxFaults /\ 0 \in 0..MaxOutside
    BY StoreAssumption, CalDAVAssumption DEF StoreAssumption, CalDAVAssumption
  <2>2. StoreTypeOK
    BY <2>1 DEF StoreTypeOK
  <2> QED
    BY <2>1, <2>2 DEF TypeOK
<1>2. Present = {} /\ Queued = {} /\ batch = {} /\ page = {} /\ remote = {}
  BY DEF Present, Queued
<1>3. UnpushedStaysQueued /\ BatchIsLive /\ FlightIsLive /\ PullIsLive
  BY <1>2 DEF UnpushedStaysQueued, BatchIsLive, FlightIsLive, PullIsLive
<1>4. PlacesBounded
  <2>1. Copies = {} /\ Places = {}
    BY <1>2 DEF Copies, Places
  <2> QED
    BY <2>1, FS_EmptySet DEF PlacesBounded
<1> QED
  BY <1>1, <1>3, <1>4 DEF IInv

(* Every step keeps the types. *)
LEMMA TypeStep == IInv /\ [Next]_vars => TypeOK'
<1> SUFFICES ASSUME IInv, [Next]_vars PROVE TypeOK'
  OBVIOUS
<1> USE CalDAVAssumption DEF CalDAVAssumption, TypeOK
<1>0. TypeOK /\ StoreTypeOK
  BY DEF IInv
<1> USE <1>0
<1>1. CASE OwnerActs
  <2>1. StoreTypeOK'
    BY <1>1, OwnerStepTyped DEF OwnerActs
  <2> QED
    BY <1>1, <2>1 DEF OwnerActs, syncVars
<1>2. CASE SyncStart
  BY <1>2 DEF SyncStart, storeVars, StoreTypeOK
<1>3. CASE ListCalendars
  <2>1. \A c \in Calendars : (c \in access) \in BOOLEAN
    OBVIOUS
  <2>2. \A c \in Calendars :
          [cal |-> c, mayWrite |-> c \in access] \in [cal: Calendars, mayWrite: BOOLEAN]
    BY <2>1, Zenon
  <2>3. listing' \subseteq [cal: Calendars, mayWrite: BOOLEAN]
    BY <1>3, <2>2, Zenon DEF ListCalendars
  <2> QED
    BY <1>3, <2>3 DEF ListCalendars, storeVars, StoreTypeOK
<1>4. CASE TakeSnapshot
  <2>1. batch' \subseteq Request
    BY <1>4 DEF TakeSnapshot, Request, Queued, Present, StoreTypeOK
  <2> QED
    BY <1>4, <2>1 DEF TakeSnapshot, storeVars, StoreTypeOK
<1>5. ASSUME NEW q \in batch, PushDropsLocal(q) PROVE TypeOK'
  <2>1. q.id \in RowIds
    BY DEF Request
  <2>2. StoreTypeOK'
    BY <1>5, <2>1, EraseTyped DEF PushDropsLocal, StoreTypeOK
  <2> QED
    BY <1>5, <2>2 DEF PushDropsLocal
<1>6. ASSUME NEW q \in batch, PushSends(q) PROVE TypeOK'
  <2>1. q \in Request /\ q.row \in Row
    BY DEF Request
  <2>2. remote' \subseteq Resource
    <3>1. CASE Puts(q.row)
      <4>1. [cal |-> q.row.cal, uid |-> Uid(q.row.rid), val |-> Flat[q.row.val],
             named |-> TRUE] \in Resource
        BY <2>1, UidFacts DEF Resource, Row
      <4> QED
        BY <3>1, <4>1 DEF Puts
    <3>2. CASE Deletes(q.row)
      BY <3>2 DEF Deletes
    <3> QED
      BY <1>6, <3>1, <3>2 DEF PushSends
  <2> QED
    BY <1>6, <2>1, <2>2 DEF PushSends, storeVars, StoreTypeOK
<1>7. ASSUME NEW q \in batch, PushRefused(q) PROVE TypeOK'
  BY <1>7 DEF PushRefused, EndSync, storeVars, StoreTypeOK
<1>8. CASE RecordReply
  <2>1. flight \in Request /\ StillThere(flight) /\ flight.id \in RowIds
    BY <1>8 DEF IInv, FlightIsLive, RecordReply, Request
  <2>2. events' \in [RowIds -> Row \cup {NoRow}]
    BY <1>8, <2>1, ReplyWrites, WriteTyped, EraseTyped
  <2> QED
    BY <1>8, <2>2 DEF RecordReply, StoreTypeOK
<1>9. CASE ReplyConflicts
  BY <1>9 DEF ReplyConflicts, EndSync, storeVars, StoreTypeOK
<1>10. CASE PushDone
  BY <1>10 DEF PushDone, storeVars, StoreTypeOK
<1>11. ASSUME NEW t \in listing, PullCalendar(t) PROVE TypeOK'
  BY <1>11 DEF PullCalendar, UpsertCalendar, StoreTypeOK
<1>12. CASE FetchCalendar
  BY <1>12 DEF FetchCalendar, storeVars, StoreTypeOK
<1>13. ASSUME NEW it \in page, StoreItem(it) PROVE TypeOK'
  <2>1. cal \in Calendars /\ it \in Resource /\ it.uid \in Rid
    BY <1>13 DEF StoreItem, IInv, PullIsLive, Resource
  <2>2. events' \in [RowIds -> Row \cup {NoRow}]
    <3>1. CASE UNCHANGED events
      BY <3>1 DEF StoreTypeOK
    <3> QED
      BY <1>13, <2>1, <3>1, ItemWrites, WriteTyped
  <2> QED
    BY <1>13, <2>1, <2>2 DEF StoreItem, StoreTypeOK
<1>14. CASE CalendarDone
  BY <1>14 DEF CalendarDone, storeVars, StoreTypeOK
<1>15. CASE SyncDone
  BY <1>15 DEF SyncDone, EndSync, storeVars, StoreTypeOK
<1>16. CASE SyncAborts
  BY <1>16 DEF SyncAborts, EndSync, storeVars, StoreTypeOK
<1>17. CASE OutsideStep
  <2>1. remote' \subseteq Resource
    <3>1. ASSUME NEW c \in Calendars, NEW v \in Contents, NEW named \in BOOLEAN,
                 remote' = remote \cup
                   {[cal |-> c, uid |-> ProviderRid(outside + 1), val |-> v, named |-> named]}
          PROVE  remote' \subseteq Resource
      BY <3>1 DEF Resource, ProviderRid, Rid
    <3>2. ASSUME NEW r \in remote, NEW v \in Contents,
                 remote' = (remote \ {r}) \cup {[r EXCEPT !.val = v]}
          PROVE  remote' \subseteq Resource
      <4>1. [r EXCEPT !.val = v] \in Resource
        BY DEF Resource
      <4> QED
        BY <3>2, <4>1
    <3> QED
      BY <1>17, <3>1, <3>2 DEF OutsideStep
  <2>2. access' \subseteq Calendars
    BY <1>17 DEF OutsideStep
  <2> QED
    BY <1>17, <2>1, <2>2 DEF OutsideStep, storeVars, syncVars, StoreTypeOK
<1>18. CASE UNCHANGED vars
  BY <1>18 DEF vars, storeVars, syncVars, StoreTypeOK
<1> QED
  BY <1>1, <1>2, <1>3, <1>4, <1>5, <1>6, <1>7, <1>8, <1>9, <1>10, <1>11, <1>12, <1>13,
     <1>14, <1>15, <1>16, <1>17, <1>18 DEF Next, WorkerStep

(* A row that was never pushed keeps `dirty`.                              *)
LEMMA UnpushedStep == ASSUME IInv, [Next]_vars PROVE UnpushedStaysQueued'
  <1>1. TypeOK /\ StoreTypeOK /\ UnpushedStaysQueued
    BY DEF IInv, TypeOK
  <1> DEFINE Fine(i) == NeverPushed(events'[i]) => events'[i].dirty
  <1>2. SUFFICES ASSUME NEW i \in Present' PROVE Fine(i)
    BY DEF UnpushedStaysQueued, NeverPushed, HasLocalPrefix
  <1>3. i \in RowIds
    BY DEF Present
  <1>4. CASE i \in Present /\ events'[i] = events[i]
    BY <1>1, <1>4 DEF UnpushedStaysQueued
  <1>5. ASSUME NEW id \in RowIds, NEW r \in Row, events' = [events EXCEPT ![id] = r],
               r.dirty \/ ~NeverPushed(r)
        PROVE  Fine(i)
    <2>1. CASE i = id
      BY <1>1, <1>5, <2>1, WriteRow
    <2>2. CASE i # id
      BY <1>1, <1>3, <1>4, <1>5, <2>2, WriteRow
    <2> QED
      BY <2>1, <2>2
  <1>6. CASE UNCHANGED <<events, stamp, edits>>
    BY <1>4, <1>6 DEF Present
  <1>7. CASE OwnerActs
    BY <1>1, <1>5, <1>7, OwnerWrites
  <1>8. ASSUME NEW q \in batch, PushDropsLocal(q) PROVE Fine(i)
    <2>1. q.id \in RowIds
      BY <1>1 DEF TypeOK, Request
    <2> QED
      BY <1>1, <1>3, <1>4, <1>8, <2>1, EraseRow DEF PushDropsLocal
  <1>9. CASE RecordReply
    <2>1. /\ flight \in Request /\ StillThere(flight) /\ flight.id \in RowIds
          /\ flight.row.rid \in Rid
      BY <1>9 DEF IInv, FlightIsLive, RecordReply, Request, Row
    <2>2. CASE DropRow(flight.id)
      BY <1>1, <1>3, <1>4, <2>1, <2>2, EraseRow
    <2>3. ASSUME NEW r \in Row, events' = [events EXCEPT ![flight.id] = r],
                 Marks(flight.id, Uid(flight.row.rid), r)
          PROVE  Fine(i)
      <3>1. ~NeverPushed(r)
        BY <2>1, <2>3, UidFacts DEF Marks, NeverPushed
      <3> QED
        BY <1>5, <2>1, <2>3, <3>1
    <2> QED
      BY <1>1, <1>9, <2>1, <2>2, <2>3, ReplyWrites
  <1>10. ASSUME NEW it \in page, StoreItem(it) PROVE Fine(i)
    <2>1. cal \in Calendars /\ it \in Resource
      BY <1>1, <1>10 DEF IInv, PullIsLive, StoreItem, TypeOK
    <2>2. CASE UNCHANGED events
      BY <1>4, <2>2 DEF Present
    <2>3. ASSUME NEW id \in RowIds, NEW r \in Row, events' = [events EXCEPT ![id] = r],
                 Inserts(cal, it.uid, id, r) \/ Refreshes(id, r)
          PROVE  Fine(i)
      <3>1. HasLocalPrefix(it.uid) => it.uid.suffix > 0
        BY <1>10 DEF IInv, PullIsLive
      <3>2. ~NeverPushed(r)
        BY <1>1, <2>3, <3>1 DEF Inserts, Refreshes, UnpushedStaysQueued, NeverPushed
      <3> QED
        BY <1>5, <2>3, <3>2
    <2> QED
      BY <1>1, <1>10, <2>1, <2>2, <2>3, ItemWrites
  <1> QED
    BY <1>6, <1>7, <1>8, <1>9, <1>10, Writers

(* A row that a step leaves in place keeps its identifier and its deletion; *)
(* only the drop of a row, its own reply and the pull write otherwise.     *)
LEMMA RowStays ==
  ASSUME IInv, [Next]_vars, NEW q, StillThere(q), q.id \in RowIds,
         ~(\E p \in batch : p.id = q.id /\ PushDropsLocal(p)),
         ~(RecordReply /\ flight.id = q.id),
         ~(\E it \in page : StoreItem(it))
  PROVE  StillThere(q)'
  <1>1. TypeOK /\ StoreTypeOK
    BY DEF IInv, TypeOK
  <1> SUFFICES /\ q.id \in Present'
               /\ events'[q.id].rid = events[q.id].rid
               /\ events'[q.id].dirty
               /\ events[q.id].deleted => events'[q.id].deleted
    BY DEF StillThere, Queued
  <1>2. q.id \in Present /\ events[q.id].dirty
    BY DEF StillThere, Queued
  <1>3. CASE UNCHANGED <<events, stamp, edits>>
    BY <1>2, <1>3 DEF Present
  <1>4. CASE OwnerActs
    <2>1. PICK id \in RowIds, r \in Row :
            /\ events' = [events EXCEPT ![id] = r]
            /\ r.dirty
            /\ Creates(id, r) \/ Edits(id, r)
      BY <1>1, <1>4, OwnerWrites
    <2>2. /\ Present' = Present \cup {id}
          /\ events'[id] = r
          /\ \A k \in RowIds \ {id} : events'[k] = events[k]
      BY <1>1, <2>1, WriteRow
    <2> QED
      BY <1>2, <2>1, <2>2 DEF Creates, Edits
  <1>5. ASSUME NEW p \in batch, PushDropsLocal(p)
        PROVE  q.id \in Present' /\ events'[q.id] = events[q.id]
    <2>1. p.id \in RowIds /\ p.id # q.id /\ DropRow(p.id)
      BY <1>1, <1>5 DEF TypeOK, Request, PushDropsLocal
    <2>2. /\ Present' = Present \ {p.id}
          /\ \A k \in RowIds \ {p.id} : events'[k] = events[k]
      BY <1>1, <2>1, EraseRow
    <2> QED
      BY <1>2, <2>1, <2>2
  <1>6. ASSUME RecordReply PROVE q.id \in Present' /\ events'[q.id] = events[q.id]
    <2>1. /\ flight \in Request /\ StillThere(flight) /\ flight.id \in RowIds
          /\ flight.id # q.id
      BY <1>6 DEF IInv, FlightIsLive, RecordReply, Request
    <2>2. CASE DropRow(flight.id)
      <3>1. /\ Present' = Present \ {flight.id}
            /\ \A k \in RowIds \ {flight.id} : events'[k] = events[k]
        BY <1>1, <2>1, <2>2, EraseRow
      <3> QED
        BY <1>2, <2>1, <3>1
    <2>3. ASSUME NEW r \in Row, events' = [events EXCEPT ![flight.id] = r]
          PROVE  q.id \in Present' /\ events'[q.id] = events[q.id]
      <3>1. /\ Present' = Present \cup {flight.id}
            /\ \A k \in RowIds \ {flight.id} : events'[k] = events[k]
        BY <1>1, <2>1, <2>3, WriteRow
      <3> QED
        BY <1>2, <2>1, <3>1
    <2> QED
      BY <1>1, <1>6, <2>1, <2>2, <2>3, ReplyWrites
  <1> QED
    BY <1>2, <1>3, <1>4, <1>5, <1>6, Writers

(* The snapshot stays good until each of its rows has been dealt with.     *)
LEMMA BatchStep == ASSUME IInv, [Next]_vars PROVE BatchIsLive'
  <1>1. TypeOK /\ BatchIsLive
    BY DEF IInv, TypeOK
  <1>2. \A q \in batch : q.id \in RowIds /\ StillThere(q)
    BY <1>1 DEF TypeOK, Request, BatchIsLive
  <1>3. CASE TakeSnapshot
    BY <1>3 DEF TakeSnapshot, storeVars, BatchIsLive, StillThere, Queued, Present
  <1>4. CASE batch' = {}
    BY <1>4 DEF BatchIsLive
  <1>5. ASSUME batch' \subseteq batch, pc' \in {"push", "sent"} \/ batch' = {},
               \A q \in batch' : ~PushDropsLocal(q),
               \A q \in batch' : ~(RecordReply /\ flight.id = q.id),
               \A p \in batch, q \in batch' : p.id = q.id => p = q,
               ~(\E it \in page : StoreItem(it))
        PROVE  BatchIsLive'
    <2>1. ASSUME NEW q \in batch' PROVE StillThere(q)'
      BY <1>2, <1>5, RowStays
    <2> QED
      BY <1>1, <1>5, <2>1 DEF BatchIsLive
  <1>6. ASSUME NEW q \in batch, PushDropsLocal(q) PROVE BatchIsLive'
    <2>1. \A p \in batch' : ~PushDropsLocal(p)
      BY <1>6 DEF PushDropsLocal
    <2> QED
      BY <1>1, <1>5, <1>6, <2>1 DEF PushDropsLocal, RecordReply, StoreItem, BatchIsLive
  <1>7. ASSUME NEW q \in batch, PushSends(q) PROVE BatchIsLive'
    BY <1>1, <1>5, <1>7 DEF PushSends, PushDropsLocal, RecordReply, StoreItem, BatchIsLive
  <1>8. CASE RecordReply
    BY <1>1, <1>5, <1>8
    DEF RecordReply, PushDropsLocal, StoreItem, BatchIsLive, IInv, FlightIsLive
  <1>9. CASE OwnerActs
    BY <1>1, <1>4, <1>5, <1>9
    DEF OwnerActs, syncVars, PushDropsLocal, RecordReply, StoreItem, BatchIsLive
  <1>10. CASE OutsideStep \/ UNCHANGED vars
    BY <1>1, <1>10
    DEF OutsideStep, vars, storeVars, syncVars, BatchIsLive, StillThere, Queued, Present
  <1>11. CASE pc \notin {"push", "sent"} /\ batch' = batch
    BY <1>1, <1>4, <1>11 DEF BatchIsLive
  <1>12. CASE PushDone
    BY <1>4, <1>12 DEF PushDone
  <1> QED
    BY <1>3, <1>4, <1>6, <1>7, <1>8, <1>9, <1>10, <1>11, <1>12
    DEF Next, WorkerStep, SyncStart, ListCalendars, PushRefused, ReplyConflicts, EndSync,
        PullCalendar, FetchCalendar, StoreItem, CalendarDone, SyncDone, SyncAborts

(* The outstanding request stays good until its reply is recorded.         *)
LEMMA FlightStep == ASSUME IInv, [Next]_vars PROVE FlightIsLive'
  <1>1. TypeOK /\ StoreTypeOK /\ BatchIsLive /\ FlightIsLive
    BY DEF IInv, TypeOK
  <1>2. CASE pc' # "sent" /\ flight' = NoFlight
    BY <1>2 DEF FlightIsLive
  <1>3. CASE pc # "sent" /\ pc' = pc /\ flight' = flight
    BY <1>1, <1>3 DEF FlightIsLive
  <1>4. CASE pc # "sent" /\ pc' # "sent" /\ flight' = flight
    BY <1>1, <1>4 DEF FlightIsLive
  <1>5. ASSUME NEW q \in batch, PushSends(q) PROVE FlightIsLive'
    <2>1. /\ q \in Request /\ pc' = "sent" /\ batch' = batch \ {q} /\ flight' = q
          /\ UNCHANGED events
      BY <1>1, <1>5 DEF TypeOK, PushSends, storeVars
    <2> QED
      BY <1>1, <2>1 DEF FlightIsLive, BatchIsLive, StillThere, Queued, Present
  <1>6. ASSUME pc = "sent", UNCHANGED <<pc, batch, flight>> PROVE FlightIsLive'
    <2>1. flight \in Request /\ StillThere(flight) /\ flight.id \in RowIds
      BY <1>1, <1>6 DEF FlightIsLive, Request
    <2>2. StillThere(flight)'
      <3>1. /\ ~(\E p \in batch : p.id = flight.id /\ PushDropsLocal(p))
            /\ ~RecordReply
            /\ ~(\E it \in page : StoreItem(it))
        BY <1>6 DEF PushDropsLocal, RecordReply, StoreItem
      <3>2. ASSUME NEW q, q = flight PROVE StillThere(q)'
        BY <2>1, <3>1, <3>2, RowStays
      <3> QED
        BY <1>6, <3>2 DEF StillThere, Queued
    <2> QED
      BY <1>1, <1>6, <2>1, <2>2 DEF FlightIsLive
  <1> QED
    BY <1>1, <1>2, <1>3, <1>4, <1>5, <1>6
    DEF Next, WorkerStep, vars, syncVars, OwnerActs, SyncStart, ListCalendars, TakeSnapshot,
        PushDropsLocal, PushRefused, RecordReply, ReplyConflicts, EndSync, PushDone,
        PullCalendar, FetchCalendar, StoreItem, CalendarDone, SyncDone, SyncAborts, OutsideStep,
        FlightIsLive

(* What the provider holds after a step: what it held before, up to the    *)
(* contents, what another client made, or what a row of the snapshot said. *)
LEMMA RemoteGrows ==
  ASSUME IInv, [Next]_vars, NEW r \in remote'
  PROVE  \/ \E t \in remote : t.cal = r.cal /\ t.uid = r.uid
         \/ ~HasLocalPrefix(r.uid)
         \/ \E q \in batch : r.cal = q.row.cal /\ r.uid = Uid(q.row.rid)
  <1> DEFINE Goal == \/ \E t \in remote : t.cal = r.cal /\ t.uid = r.uid
                     \/ ~HasLocalPrefix(r.uid)
                     \/ \E q \in batch : r.cal = q.row.cal /\ r.uid = Uid(q.row.rid)
  <1>1. TypeOK
    BY DEF IInv
  <1>2. CASE UNCHANGED remote
    BY <1>2
  <1>3. ASSUME NEW q \in batch, PushSends(q) PROVE Goal
    <2>1. CASE Puts(q.row)
      BY <2>1 DEF Puts
    <2>2. CASE Deletes(q.row)
      BY <2>2 DEF Deletes
    <2> QED
      BY <1>3, <2>1, <2>2 DEF PushSends
  <1>4. CASE OutsideStep
    <2>1. ASSUME NEW c \in Calendars, NEW v \in Contents, NEW named \in BOOLEAN,
                 remote' = remote \cup
                   {[cal |-> c, uid |-> ProviderRid(outside + 1), val |-> v, named |-> named]}
          PROVE  Goal
      BY <2>1 DEF ProviderRid, HasLocalPrefix
    <2>2. ASSUME NEW s \in remote, NEW v \in Contents,
                 remote' = (remote \ {s}) \cup {[s EXCEPT !.val = v]}
          PROVE  Goal
      <3>1. [s EXCEPT !.val = v].cal = s.cal /\ [s EXCEPT !.val = v].uid = s.uid
        BY <1>1 DEF TypeOK, Resource
      <3> QED
        BY <2>2, <3>1
    <2> QED
      BY <1>2, <1>4, <2>1, <2>2 DEF OutsideStep
  <1> QED
    BY <1>2, <1>3, <1>4
    DEF Next, WorkerStep, vars, OwnerActs, SyncStart, ListCalendars, TakeSnapshot,
        PushDropsLocal, PushRefused, RecordReply, ReplyConflicts, PushDone, PullCalendar,
        FetchCalendar, StoreItem, CalendarDone, SyncDone, SyncAborts

(* What the pull stores carries no name of the app's that no push gave.    *)
LEMMA PullStep == ASSUME IInv, [Next]_vars PROVE PullIsLive'
  <1>1. TypeOK /\ PullIsLive
    BY DEF IInv
  <1> DEFINE Pushed(uid) == HasLocalPrefix(uid) => uid.suffix > 0
  <1>2. ASSUME NEW r \in remote' PROVE Pushed(r.uid)
    <2>1. \A q \in batch : q.row.rid \in Rid
      BY <1>1 DEF TypeOK, Request, Row
    <2>2. \A q \in batch : Pushed(Uid(q.row.rid))
      BY <2>1, UidFacts
    <2> QED
      BY <1>1, <1>2, <2>2, RemoteGrows DEF PullIsLive
  <1>3. page' \subseteq page \cup remote
    BY DEF Next, WorkerStep, vars, syncVars, OwnerActs, SyncStart, ListCalendars, TakeSnapshot,
           PushDropsLocal, PushSends, PushRefused, RecordReply, ReplyConflicts, EndSync,
           PushDone, PullCalendar, FetchCalendar, StoreItem, CalendarDone, SyncDone,
           SyncAborts, OutsideStep
  <1>4. pc' \in {"fetch", "store"} => cal' \in Calendars
    BY <1>1
    DEF Next, WorkerStep, vars, syncVars, OwnerActs, SyncStart, ListCalendars, TakeSnapshot,
        PushDropsLocal, PushSends, PushRefused, RecordReply, ReplyConflicts, EndSync,
        PushDone, PullCalendar, FetchCalendar, StoreItem, CalendarDone, SyncDone,
        SyncAborts, OutsideStep, TypeOK, PullIsLive
  <1> QED
    BY <1>1, <1>2, <1>3, <1>4 DEF PullIsLive, HasLocalPrefix

-----------------------------------------------------------------------------
(* Counting the places                                                     *)

(* Where a local identifier puts its resource is a place that was open.    *)
LEMMA ResourcePlaces ==
  ASSUME IInv, [Next]_vars, NEW r \in remote', HasLocalPrefix(r.uid)
  PROVE  <<r.cal, r.uid>> \in Places
  <1>1. \A q \in batch : q.row.rid \in Rid
    BY DEF IInv, TypeOK, Request, Row
  <1>2. CASE \E t \in remote : t.cal = r.cal /\ t.uid = r.uid
    BY <1>2 DEF Places, Copies
  <1>3. ASSUME NEW q \in batch, r.cal = q.row.cal, r.uid = Uid(q.row.rid)
        PROVE  <<r.cal, r.uid>> \in Places
    <2>1. HasLocalPrefix(q.row.rid)
      BY <1>1, <1>3, UidFacts
    <2> QED
      BY <1>3, <2>1 DEF Places, Place
  <1> QED
    BY <1>2, <1>3, RemoteGrows

(* A snapshot row is one of the snapshot before, or a queued row.          *)
LEMMA SnapshotPlaces ==
  ASSUME IInv, [Next]_vars, NEW q \in batch', HasLocalPrefix(q.row.rid)
  PROVE  Place(q.row) \in Places
  <1>1. batch' \subseteq batch \/ batch' = {[id |-> i, row |-> events[i]] : i \in Queued}
    BY DEF Next, WorkerStep, vars, syncVars, OwnerActs, SyncStart, ListCalendars, TakeSnapshot,
           PushDropsLocal, PushSends, PushRefused, RecordReply, ReplyConflicts, EndSync,
           PushDone, PullCalendar, FetchCalendar, StoreItem, CalendarDone, SyncDone,
           SyncAborts, OutsideStep
  <1> QED
    BY <1>1 DEF Places

(* A row becomes dirty, or changes and stays dirty, by the owner alone.    *)
LEMMA DirtyByOwner ==
  ASSUME IInv, [Next]_vars, NEW i \in Queued'
  PROVE  \/ i \in Queued /\ events'[i] = events[i]
         \/ OwnerActs
  <1>1. TypeOK /\ StoreTypeOK /\ i \in Present' /\ i \in RowIds /\ events'[i].dirty
    BY DEF IInv, TypeOK, Queued, Present
  <1> DEFINE Kept == i \in Queued /\ events'[i] = events[i]
  <1>2. ASSUME NEW id \in RowIds, NEW r \in Row, events' = [events EXCEPT ![id] = r], ~r.dirty
        PROVE  Kept
    BY <1>1, <1>2, WriteRow DEF Queued
  <1>3. CASE UNCHANGED <<events, stamp, edits>>
    BY <1>1, <1>3 DEF Queued, Present
  <1>4. ASSUME NEW q \in batch, PushDropsLocal(q) PROVE Kept
    <2>1. q.id \in RowIds /\ DropRow(q.id)
      BY <1>1, <1>4 DEF TypeOK, Request, PushDropsLocal
    <2> QED
      BY <1>1, <2>1, EraseRow DEF Queued
  <1>5. CASE RecordReply
    <2>1. flight \in Request /\ StillThere(flight) /\ flight.id \in RowIds
      BY <1>5 DEF IInv, FlightIsLive, RecordReply, Request
    <2>2. CASE DropRow(flight.id)
      BY <1>1, <2>1, <2>2, EraseRow DEF Queued
    <2> QED
      BY <1>1, <1>2, <1>5, <2>1, <2>2, ReplyWrites DEF Marks
  <1>6. ASSUME NEW it \in page, StoreItem(it) PROVE Kept
    <2>1. cal \in Calendars /\ it \in Resource
      BY <1>1, <1>6 DEF IInv, PullIsLive, StoreItem, TypeOK
    <2>2. CASE UNCHANGED events
      BY <1>1, <2>2 DEF Queued, Present
    <2> QED
      BY <1>1, <1>2, <1>6, <2>1, <2>2, ItemWrites DEF Inserts, Refreshes
  <1> QED
    BY <1>3, <1>4, <1>5, <1>6, Writers

(* A step opens no place, or it is the owner's and opens one.              *)
LEMMA PlacesGrow ==
  ASSUME IInv, [Next]_vars
  PROVE  \/ Places' \subseteq Places /\ stamp' + edits' = stamp + edits
         \/ \E p : Places' \subseteq Places \cup {p} /\ stamp' + edits' = stamp + edits + 1
  <1>1. StoreTypeOK /\ stamp \in Nat /\ edits \in Nat
    BY StoreAssumption DEF IInv, TypeOK, StoreTypeOK, StoreAssumption
  <1>2. ASSUME NEW P, Places \subseteq P,
               \A i \in Queued' : HasLocalPrefix(events'[i].rid) => Place(events'[i]) \in P
        PROVE  Places' \subseteq P
    <2>1. \A r \in remote' : HasLocalPrefix(r.uid) => <<r.cal, r.uid>> \in P
      BY <1>2, ResourcePlaces
    <2>2. \A q \in batch' : HasLocalPrefix(q.row.rid) => Place(q.row) \in P
      BY <1>2, SnapshotPlaces
    <2> QED
      BY <1>2, <2>1, <2>2 DEF Places, Copies, Place, Uid, HasLocalPrefix
  <1>3. CASE OwnerActs
    <2>1. PICK id \in RowIds, r \in Row :
            events' = [events EXCEPT ![id] = r] /\ (Creates(id, r) \/ Edits(id, r))
      BY <1>1, <1>3, OwnerWrites
    <2>2. /\ events'[id] = r
          /\ Present' = Present \cup {id}
          /\ \A i \in RowIds \ {id} : events'[i] = events[i]
      BY <1>1, <2>1, WriteRow
    <2>3. ASSUME NEW i \in Queued', HasLocalPrefix(events'[i].rid)
          PROVE  Place(events'[i]) \in Places \cup {Place(r)}
      <3>1. CASE i = id
        BY <2>2, <3>1
      <3>2. CASE i # id
        <4>1. i \in Queued /\ events'[i] = events[i]
          BY <2>2, <3>2 DEF Queued, Present
        <4> QED
          BY <2>3, <4>1 DEF Places
      <3> QED
        BY <3>1, <3>2
    <2>4. Places' \subseteq Places \cup {Place(r)}
      BY <1>2, <2>3
    <2>5. stamp' + edits' = stamp + edits + 1
      BY <1>1, <2>1 DEF Creates, Edits
    <2> QED
      BY <2>4, <2>5
  <1>4. CASE ~OwnerActs
    <2>1. \A i \in Queued' : HasLocalPrefix(events'[i].rid) => Place(events'[i]) \in Places
      BY <1>4, DirtyByOwner DEF Places
    <2>2. stamp' = stamp /\ edits' = edits
      BY <1>4, Writers DEF PushDropsLocal, RecordReply, StoreItem
    <2> QED
      BY <1>2, <2>1, <2>2
  <1> QED
    BY <1>3, <1>4

(* A place holds one resource: a PUT replaces what it finds.               *)
LEMMA OnePerPlace ==
  ASSUME IInv, [Next]_vars
  PROVE  \A r, t \in Copies' : r.cal = t.cal /\ r.uid = t.uid => r = t
  <1>1. TypeOK /\ \A r, t \in Copies : r.cal = t.cal /\ r.uid = t.uid => r = t
    BY DEF IInv, PlacesBounded
  <1> DEFINE Goal == \A r, t \in Copies' : r.cal = t.cal /\ r.uid = t.uid => r = t
  <1>2. CASE Copies' \subseteq Copies
    BY <1>1, <1>2
  <1>3. CASE remote' \subseteq remote
    BY <1>2, <1>3 DEF Copies, HasLocalPrefix
  <1>4. ASSUME NEW q \in batch, PushSends(q) PROVE Goal
    <2>1. CASE Puts(q.row)
      <3> DEFINE new == [cal |-> q.row.cal, uid |-> Uid(q.row.rid), val |-> Flat[q.row.val],
                         named |-> TRUE]
      <3>1. remote' = (remote \ At(q.row.cal, Uid(q.row.rid))) \cup {new}
        BY <2>1 DEF Puts
      <3>2. \A r \in Copies' : \/ r = new
                               \/ /\ r \in Copies
                                  /\ ~(r.cal = new.cal /\ r.uid = new.uid)
        BY <3>1 DEF Copies, At, HasLocalPrefix
      <3> QED
        BY <1>1, <3>2
    <2>2. CASE Deletes(q.row)
      BY <1>3, <2>2 DEF Deletes
    <2> QED
      BY <1>4, <2>1, <2>2 DEF PushSends
  <1>5. CASE OutsideStep
    <2>1. ASSUME NEW c \in Calendars, NEW v \in Contents, NEW named \in BOOLEAN,
                 remote' = remote \cup
                   {[cal |-> c, uid |-> ProviderRid(outside + 1), val |-> v, named |-> named]}
          PROVE  Goal
      <3>1. Copies' \subseteq Copies
        BY <2>1 DEF Copies, ProviderRid, HasLocalPrefix
      <3> QED
        BY <1>2, <3>1
    <2>2. ASSUME NEW s \in remote, NEW v \in Contents,
                 remote' = (remote \ {s}) \cup {[s EXCEPT !.val = v]}
          PROVE  Goal
      <3> DEFINE new == [s EXCEPT !.val = v]
      <3>1. new.cal = s.cal /\ new.uid = s.uid
        BY <1>1 DEF TypeOK, Resource
      <3>2. \A r \in Copies' : \/ r = new /\ s \in Copies
                               \/ r \in Copies /\ r # s
        BY <2>2, <3>1 DEF Copies, HasLocalPrefix
      <3> HIDE DEF new
      <3> QED
        BY <1>1, <3>1, <3>2
    <2> QED
      BY <1>3, <1>5, <2>1, <2>2 DEF OutsideStep
  <1> QED
    BY <1>3, <1>4, <1>5
    DEF Next, WorkerStep, vars, OwnerActs, SyncStart, ListCalendars, TakeSnapshot,
        PushDropsLocal, PushRefused, RecordReply, ReplyConflicts, PushDone, PullCalendar,
        FetchCalendar, StoreItem, CalendarDone, SyncDone, SyncAborts

(* Hence the places never outnumber the creations and the edits.           *)
LEMMA PlacesStep == ASSUME IInv, [Next]_vars PROVE PlacesBounded'
  <1>1. /\ IsFiniteSet(Places) /\ Cardinality(Places) <= stamp + edits
        /\ stamp \in Nat /\ edits \in Nat
    BY StoreAssumption DEF IInv, TypeOK, StoreTypeOK, StoreAssumption, PlacesBounded
  <1>2. Cardinality(Places) \in Nat
    BY <1>1, FS_CardinalityType
  <1>3. CASE Places' \subseteq Places /\ stamp' + edits' = stamp + edits
    <2>1. /\ IsFiniteSet(Places') /\ Cardinality(Places') \in Nat
          /\ Cardinality(Places') <= Cardinality(Places)
      BY <1>1, <1>3, FS_Subset, FS_CardinalityType
    <2>2. Cardinality(Places') <= stamp' + edits'
      BY <1>1, <1>2, <1>3, <2>1
    <2> QED
      BY <2>1, <2>2, OnePerPlace DEF PlacesBounded
  <1>4. ASSUME NEW p, Places' \subseteq Places \cup {p}, stamp' + edits' = stamp + edits + 1
        PROVE  PlacesBounded'
    <2>1. /\ IsFiniteSet(Places \cup {p})
          /\ Cardinality(Places \cup {p}) \in Nat
          /\ Cardinality(Places \cup {p}) <= Cardinality(Places) + 1
      <3>1. /\ IsFiniteSet(Places \cup {p})
            /\ \/ Cardinality(Places \cup {p}) = Cardinality(Places)
               \/ Cardinality(Places \cup {p}) = Cardinality(Places) + 1
        BY <1>1, FS_AddElement
      <3> QED
        BY <1>2, <3>1
    <2>2. /\ IsFiniteSet(Places') /\ Cardinality(Places') \in Nat
          /\ Cardinality(Places') <= Cardinality(Places \cup {p})
      BY <1>4, <2>1, FS_Subset, FS_CardinalityType
    <2>3. Cardinality(Places') <= stamp' + edits'
      BY <1>1, <1>2, <1>4, <2>1, <2>2
    <2> QED
      BY <2>2, <2>3, OnePerPlace DEF PlacesBounded
  <1> QED
    BY <1>3, <1>4, PlacesGrow

(* Every step keeps the inductive invariant.                               *)
LEMMA InvariantStep == IInv /\ [Next]_vars => IInv'
  BY TypeStep, UnpushedStep, BatchStep, FlightStep, PullStep, PlacesStep DEF IInv

(* The inductive invariant holds in every state.                           *)
THEOREM Invariance == Spec => []IInv
  BY InitEstablishes, InvariantStep, PTL DEF Spec

-----------------------------------------------------------------------------
(* The properties                                                          *)

(* Every variable has its type in every state of every behaviour.          *)
THEOREM TypeCorrect == Spec => []TypeOK
<1>1. IInv => TypeOK
  BY DEF IInv
<1> QED
  BY <1>1, Invariance, PTL

(* An event that was created here and not yet pushed stays queued: only    *)
(* the record of a reply clears `dirty` (caldav.go:409), and it appends    *)
(* "@bespoke" in the same statement.                                       *)
THEOREM UnpushedAlwaysQueued == Spec => []UnpushedStaysQueued
<1>1. IInv => UnpushedStaysQueued
  BY DEF IInv
<1> QED
  BY <1>1, Invariance, PTL

(* The app's resources at the provider never outnumber the creations and   *)
(* the edits, however many syncs were cut off between a PUT and its record: *)
(* the identifier is the app's own, so a retry puts at the same place.     *)
THEOREM CopiesAlwaysBounded == Spec => []CopiesBoundedByEdits
<1>1. IInv => CopiesBoundedByEdits
  <2> SUFFICES ASSUME IInv PROVE Cardinality(Copies) <= stamp + edits
    BY DEF Copies, CopiesBoundedByEdits
  <2>1. /\ IsFiniteSet(Places) /\ Cardinality(Places) <= stamp + edits
        /\ stamp \in Nat /\ edits \in Nat
        /\ \A r, t \in Copies : r.cal = t.cal /\ r.uid = t.uid => r = t
    BY StoreAssumption DEF IInv, TypeOK, StoreTypeOK, StoreAssumption, PlacesBounded
  <2> DEFINE place == [r \in Copies |-> <<r.cal, r.uid>>]
  <2>2. place \in [Copies -> Places]
    BY DEF Places
  <2>3. \A r, t \in Copies : place[r] = place[t] => r = t
    BY <2>1
  <2>4. place \in Injection(Copies, Places)
    BY <2>2, <2>3 DEF Injection, IsInjective
  <2> HIDE DEF place
  <2>5. IsFiniteSet(Copies) /\ Cardinality(Copies) <= Cardinality(Places)
    BY <2>1, <2>4, FS_Injection
  <2>6. Cardinality(Copies) \in Nat /\ Cardinality(Places) \in Nat
    BY <2>1, <2>5, FS_CardinalityType
  <2> QED
    BY <2>1, <2>5, <2>6
<1> QED
  BY <1>1, Invariance, PTL

(* A queued row that is not the tombstone of an event the app made changes *)
(* or goes only by the owner's edit or by the reply to its own request     *)
(* (caldav.go:382-409): no pull, refusal or sync that was cut off costs it. *)
THEOREM QueuedChangesAreRetained == Spec => QueuedChangesRetained
<1> DEFINE Retained ==
  \A id \in {i \in Queued : ~LocalTombstone(events[i])} :
       events'[id] # events[id] =>
         \/ edits' = edits + 1
         \/ pc = "sent" /\ flight.id = id
<1>1. IInv /\ [Next]_vars => [Retained]_vars
  <2> SUFFICES ASSUME IInv, [Next]_vars, NEW id \in Queued, ~LocalTombstone(events[id]),
                      events'[id] # events[id]
               PROVE  \/ edits' = edits + 1
                      \/ pc = "sent" /\ flight.id = id
    OBVIOUS
  <2>1. /\ TypeOK /\ StoreTypeOK
        /\ id \in Present /\ id \in RowIds /\ events[id].dirty
    BY DEF IInv, TypeOK, Queued, Present
  <2>2. CASE OwnerActs
    <3>1. PICK i \in RowIds, r \in Row :
            /\ events' = [events EXCEPT ![i] = r]
            /\ Creates(i, r) \/ Edits(i, r)
      BY <2>1, <2>2, OwnerWrites
    <3>2. i = id
      BY <2>1, <3>1, WriteRow
    <3> QED
      BY <2>1, <3>1, <3>2 DEF Creates, Edits
  <2>3. ASSUME NEW q \in batch, PushDropsLocal(q)
        PROVE  FALSE
    <3>1. q.id \in RowIds /\ StillThere(q) /\ DropRow(q.id)
      BY <2>1, <2>3 DEF IInv, BatchIsLive, TypeOK, Request, PushDropsLocal
    <3>2. q.id = id
      BY <2>1, <3>1, EraseRow
    <3> QED
      BY <2>3, <3>1, <3>2 DEF PushDropsLocal, StillThere, Queued, LocalTombstone
  <2>4. CASE RecordReply
    <3>1. flight \in Request /\ StillThere(flight) /\ flight.id \in RowIds
      BY <2>4 DEF IInv, FlightIsLive, RecordReply, Request
    <3>2. CASE DropRow(flight.id)
      BY <2>1, <2>4, <3>1, <3>2, EraseRow DEF RecordReply
    <3>3. ASSUME NEW r \in Row, events' = [events EXCEPT ![flight.id] = r]
          PROVE  pc = "sent" /\ flight.id = id
      BY <2>1, <2>4, <3>1, <3>3, WriteRow DEF RecordReply
    <3> QED
      BY <2>1, <2>4, <3>1, <3>2, <3>3, ReplyWrites DEF RecordReply
  <2>5. ASSUME NEW it \in page, StoreItem(it) PROVE FALSE
    <3>1. cal \in Calendars /\ it \in Resource
      BY <2>1, <2>5 DEF IInv, PullIsLive, StoreItem, TypeOK
    <3>2. ASSUME NEW i \in RowIds, NEW r \in Row, events' = [events EXCEPT ![i] = r],
                 Inserts(cal, it.uid, i, r) \/ Refreshes(i, r)
          PROVE  FALSE
      <4>1. i # id
        BY <2>1, <3>2 DEF Inserts, Refreshes
      <4> QED
        BY <2>1, <3>2, <4>1, WriteRow
    <3> QED
      BY <2>1, <2>5, <3>1, <3>2, ItemWrites
  <2> QED
    BY <2>2, <2>3, <2>4, <2>5, Writers
<1> QED
  BY <1>1, Invariance, PTL DEF Spec, QueuedChangesRetained

(* A resource another client made changes or goes by other clients, or by  *)
(* the push of a row that is still queued under its identifier: no pull,   *)
(* retry or sync that was cut off writes an echo back.                     *)
THEOREM OthersAreUntouched == Spec => OthersUntouched
<1> DEFINE Untouched ==
  \A r \in remote \ remote' :
       ~HasLocalPrefix(r.uid) =>
         \/ outside' = outside + 1
         \/ \E id \in Queued : events[id].rid = r.uid
<1>1. IInv /\ [Next]_vars => [Untouched]_vars
  <2> SUFFICES ASSUME IInv, [Next]_vars, NEW r \in remote \ remote', ~HasLocalPrefix(r.uid)
               PROVE  \/ outside' = outside + 1
                      \/ \E id \in Queued : events[id].rid = r.uid
    OBVIOUS
  <2>1. ASSUME NEW q \in batch, PushSends(q)
        PROVE  \E id \in Queued : events[id].rid = r.uid
    <3>1. /\ StillThere(q) /\ q.row.rid \in Rid
      BY DEF IInv, TypeOK, BatchIsLive, Request, Row
    <3>2. CASE Puts(q.row)
      <4>1. r \in At(q.row.cal, Uid(q.row.rid))
        BY <3>2 DEF Puts
      <4>2. r.uid = q.row.rid
        BY <3>1, <4>1, UidFacts DEF At
      <4> QED
        BY <3>1, <4>2 DEF StillThere
    <3>3. CASE Deletes(q.row)
      <4>1. r \in At(q.row.cal, q.row.rid)
        BY <3>3 DEF Deletes
      <4> QED
        BY <3>1, <4>1 DEF StillThere, At
    <3> QED
      BY <2>1, <3>2, <3>3 DEF PushSends
  <2>2. CASE OutsideStep
    BY <2>2 DEF OutsideStep
  <2> QED
    BY <2>1, <2>2
    DEF Next, WorkerStep, vars, OwnerActs, SyncStart, ListCalendars, TakeSnapshot,
        PushDropsLocal, PushRefused, RecordReply, ReplyConflicts, PushDone, PullCalendar,
        FetchCalendar, StoreItem, CalendarDone, SyncDone, SyncAborts
<1> QED
  BY <1>1, Invariance, PTL DEF Spec, OthersUntouched

-----------------------------------------------------------------------------
(* The implementation of Outbox                                            *)

(* An entry is determined by what it says of its row.                      *)
LEMMA EntryFields ==
  ASSUME NEW r, NEW sent \in BOOLEAN, NEW queued \in BOOLEAN, NEW gone \in BOOLEAN,
         NeverPushed(r) <=> ~sent, r.dirty = queued, r.deleted = gone
  PROVE  /\ EntryOf(r) = [sent |-> sent, queued |-> queued, gone |-> gone]
         /\ EntryOf(r) \in OutboxOf!Entry
  <1>1. (~NeverPushed(r)) = sent
    BY DEF NeverPushed
  <1>2. EntryOf(r) = [sent |-> sent, queued |-> queued, gone |-> gone]
    BY <1>1, Zenon DEF EntryOf
  <1> QED
    BY <1>2 DEF OutboxOf!Entry

(* What the actions of the outbox make of an entry, field by field.        *)
LEMMA EntryUpdates ==
  ASSUME NEW e \in OutboxOf!Entry
  PROVE  /\ [e EXCEPT !.queued = TRUE] = [sent |-> e.sent, queued |-> TRUE, gone |-> e.gone]
         /\ [e EXCEPT !.queued = TRUE, !.gone = TRUE]
              = [sent |-> e.sent, queued |-> TRUE, gone |-> TRUE]
         /\ [e EXCEPT !.sent = TRUE, !.queued = FALSE]
              = [sent |-> TRUE, queued |-> FALSE, gone |-> e.gone]
  <1>1. ASSUME NEW f \in OutboxOf!Entry
        PROVE  f = [sent |-> f.sent, queued |-> f.queued, gone |-> f.gone]
    BY DEF OutboxOf!Entry
  <1> DEFINE changed == [e EXCEPT !.queued = TRUE]
             cancelled == [e EXCEPT !.queued = TRUE, !.gone = TRUE]
             answered == [e EXCEPT !.sent = TRUE, !.queued = FALSE]
  <1>2. /\ changed \in OutboxOf!Entry
        /\ changed.sent = e.sent /\ changed.queued = TRUE /\ changed.gone = e.gone
    BY DEF OutboxOf!Entry
  <1>3. /\ cancelled \in OutboxOf!Entry
        /\ cancelled.sent = e.sent /\ cancelled.queued = TRUE /\ cancelled.gone = TRUE
    BY DEF OutboxOf!Entry
  <1>4. /\ answered \in OutboxOf!Entry
        /\ answered.sent = TRUE /\ answered.queued = FALSE /\ answered.gone = e.gone
    BY DEF OutboxOf!Entry
  <1> HIDE DEF changed, cancelled, answered
  <1>5. /\ changed = [sent |-> e.sent, queued |-> TRUE, gone |-> e.gone]
        /\ cancelled = [sent |-> e.sent, queued |-> TRUE, gone |-> TRUE]
        /\ answered = [sent |-> TRUE, queued |-> FALSE, gone |-> e.gone]
    BY <1>1, <1>2, <1>3, <1>4
  <1> QED
    BY <1>5 DEF changed, cancelled, answered

LEMMA EntryOfRow ==
  ASSUME NEW r \in Row
  PROVE  \E sent \in BOOLEAN :
           /\ NeverPushed(r) <=> ~sent
           /\ EntryOf(r) = [sent |-> sent, queued |-> r.dirty, gone |-> r.deleted]
           /\ EntryOf(r) \in OutboxOf!Entry
           /\ EntryOf(r).sent = sent /\ EntryOf(r).queued = r.dirty
           /\ EntryOf(r).gone = r.deleted
  <1>1. r.dirty \in BOOLEAN /\ r.deleted \in BOOLEAN
    BY DEF Row
  <1>2. PICK sent \in BOOLEAN : NeverPushed(r) <=> ~sent
    OBVIOUS
  <1> QED
    BY <1>1, <1>2, EntryFields

(* Writing a row writes its entry, and nothing else.                       *)
LEMMA WriteEntry ==
  ASSUME StoreTypeOK, NEW id \in RowIds, NEW r \in Row,
         events' = [events EXCEPT ![id] = r]
  PROVE  EntriesOf' = [EntriesOf EXCEPT ![id] = EntryOf(r)]
  <1>1. /\ Present' = Present \cup {id}
        /\ events'[id] = r
        /\ \A k \in RowIds \ {id} : events'[k] = events[k]
    BY WriteRow
  <1>2. EntriesOf' = [k \in RowIds |-> IF k \in Present' THEN EntryOf(events'[k]) ELSE NoRow]
    BY DEF EntriesOf, EntryOf, NeverPushed, HasLocalPrefix
  <1>3. \A k \in RowIds : (IF k \in Present' THEN EntryOf(events'[k]) ELSE NoRow)
                          = [EntriesOf EXCEPT ![id] = EntryOf(r)][k]
    BY <1>1 DEF EntriesOf
  <1> QED
    BY <1>2, <1>3 DEF EntriesOf

(* Erasing a row erases its entry, and nothing else.                       *)
LEMMA EraseEntry ==
  ASSUME StoreTypeOK, NEW id \in RowIds, DropRow(id)
  PROVE  EntriesOf' = [EntriesOf EXCEPT ![id] = NoRow]
  <1>1. /\ Present' = Present \ {id}
        /\ \A k \in RowIds \ {id} : events'[k] = events[k]
    BY EraseRow
  <1>2. EntriesOf' = [k \in RowIds |-> IF k \in Present' THEN EntryOf(events'[k]) ELSE NoRow]
    BY DEF EntriesOf, EntryOf, NeverPushed, HasLocalPrefix
  <1> QED
    BY <1>1, <1>2 DEF EntriesOf

(* The entries in use are those of the rows that are present.              *)
LEMMA EntriesInUse ==
  ASSUME StoreTypeOK
  PROVE  /\ OutboxOf!Used = Present
         /\ \A id \in Present : EntriesOf[id] = EntryOf(events[id])
         /\ \A id \in Present :
              \E sent \in BOOLEAN :
                /\ NeverPushed(events[id]) <=> ~sent
                /\ EntriesOf[id] \in OutboxOf!Entry
                /\ EntriesOf[id].sent = sent /\ EntriesOf[id].queued = events[id].dirty
                /\ EntriesOf[id].gone = events[id].deleted
  <1>1. \A id \in Present : id \in RowIds /\ events[id] \in Row
    BY RowsAreRows DEF Present
  <1>2. \A id \in Present : EntriesOf[id] = EntryOf(events[id])
    BY <1>1 DEF EntriesOf
  <1>3. \A id \in Present : EntryOf(events[id]) \in OutboxOf!Entry
    BY <1>1, EntryOfRow
  <1>4. \A id \in RowIds \ Present : EntriesOf[id] = NoRow
    BY DEF EntriesOf
  <1>5. OutboxOf!Used = Present
    BY <1>1, <1>2, <1>3, <1>4, OutboxAssumption DEF OutboxOf!Used, Present, OutboxAssumption
  <1> QED
    BY <1>1, <1>2, <1>5, EntryOfRow

(* The owner puts an entry into the outbox, changes one or cancels one.    *)
LEMMA OwnerMaps ==
  ASSUME IInv, OwnerActs
  PROVE  OutboxOf!Next
  <1>1. StoreTypeOK
    BY DEF IInv, TypeOK
  <1>2. UNCHANGED OfferOf
    BY DEF OwnerActs, syncVars, OfferOf
  <1>3. PICK id \in RowIds, r \in Row :
          /\ events' = [events EXCEPT ![id] = r]
          /\ r.dirty
          /\ Creates(id, r) \/ Edits(id, r)
    BY <1>1, OwnerWrites
  <1>4. EntriesOf' = [EntriesOf EXCEPT ![id] = EntryOf(r)]
    BY <1>1, <1>3, WriteEntry
  <1>5. r.dirty = TRUE /\ r.deleted \in BOOLEAN
    BY <1>3 DEF Row
  <1>6. CASE Creates(id, r)
    <2>1. id \notin OutboxOf!Used
      BY <1>1, <1>6, EntriesInUse DEF Creates
    <2>2. NeverPushed(r) /\ r.deleted = FALSE
      BY <1>5, <1>6 DEF Creates, NeverPushed, HasLocalPrefix, LocalRid
    <2>3. EntryOf(r) = [sent |-> FALSE, queued |-> TRUE, gone |-> FALSE]
      BY <1>5, <2>2, EntryFields
    <2>4. OutboxOf!Put(id)
      BY <1>2, <1>4, <2>1, <2>3 DEF OutboxOf!Put
    <2> QED
      BY <2>4 DEF OutboxOf!Next
  <1>7. CASE Edits(id, r)
    <2>1. id \in Present /\ id \in OutboxOf!Used
      BY <1>1, <1>7, EntriesInUse DEF Edits
    <2>2. PICK sent \in BOOLEAN :
            /\ NeverPushed(events[id]) <=> ~sent
            /\ EntriesOf[id] \in OutboxOf!Entry
            /\ EntriesOf[id].sent = sent /\ EntriesOf[id].gone = events[id].deleted
      BY <1>1, <2>1, EntriesInUse
    <2>3. EntryOf(r) = [sent |-> sent, queued |-> TRUE, gone |-> r.deleted]
      <3>1. NeverPushed(r) <=> ~sent
        BY <1>7, <2>2 DEF Edits, NeverPushed
      <3> QED
        BY <1>5, <3>1, EntryFields
    <2>4. CASE r.deleted
      <3>1. EntryOf(r) = [EntriesOf[id] EXCEPT !.queued = TRUE, !.gone = TRUE]
        BY <1>5, <2>2, <2>4, <2>3, EntryUpdates
      <3>2. OutboxOf!Cancel(id)
        BY <1>2, <1>4, <2>1, <3>1 DEF OutboxOf!Cancel, EntriesOf
      <3> QED
        BY <3>2 DEF OutboxOf!Next
    <2>5. CASE ~r.deleted
      <3>1. r.deleted = events[id].deleted
        BY <1>1, <1>5, <1>7, <2>1, <2>5, RowsAreRows DEF Edits, Row
      <3>2. EntryOf(r) = [EntriesOf[id] EXCEPT !.queued = TRUE]
        <4>1. [EntriesOf[id] EXCEPT !.queued = TRUE]
                = [sent |-> sent, queued |-> TRUE, gone |-> EntriesOf[id].gone]
          BY <2>2, EntryUpdates
        <4> QED
          BY <2>2, <2>3, <3>1, <4>1
      <3>3. OutboxOf!Change(id)
        BY <1>2, <1>4, <2>1, <3>2 DEF OutboxOf!Change, EntriesOf
      <3> QED
        BY <3>3 DEF OutboxOf!Next
    <2> QED
      BY <2>4, <2>5
  <1> QED
    BY <1>3, <1>6, <1>7

(* A tombstone with a local identifier is discarded, sent before or not.   *)
LEMMA DropMaps ==
  ASSUME IInv, NEW q \in batch, PushDropsLocal(q)
  PROVE  OutboxOf!Next
  <1>1. StoreTypeOK /\ q.id \in RowIds /\ StillThere(q)
    BY DEF IInv, TypeOK, Request, BatchIsLive
  <1>2. EntriesOf' = [EntriesOf EXCEPT ![q.id] = NoRow] /\ UNCHANGED OfferOf
    BY <1>1, EraseEntry DEF PushDropsLocal, OfferOf
  <1>3. q.id \in Present /\ events[q.id].deleted
    BY <1>1 DEF StillThere, Queued, PushDropsLocal
  <1>4. OutboxOf!Discard(q.id)
    BY <1>1, <1>2, <1>3, EntriesInUse DEF OutboxOf!Discard
  <1> QED
    BY <1>1, <1>4 DEF OutboxOf!Next

(* A request offers the entry of its row, as a cancellation only if the    *)
(* row is a tombstone by then.                                             *)
LEMMA SendMaps ==
  ASSUME IInv, NEW q \in batch, PushSends(q)
  PROVE  OutboxOf!Next
  <1>1. /\ StoreTypeOK /\ q \in Request /\ q.id \in RowIds /\ q.row \in Row
        /\ StillThere(q) /\ flight = NoFlight /\ flight' = q
    BY DEF IInv, TypeOK, Request, BatchIsLive, FlightIsLive, PushSends
  <1>2. OfferOf = NoFlight /\ OfferOf' = [id |-> q.id, gone |-> q.row.deleted]
    BY <1>1, CalDAVAssumption DEF OfferOf, CalDAVAssumption
  <1>3. UNCHANGED EntriesOf
    BY DEF PushSends, storeVars, EntriesOf, Present, EntryOf, NeverPushed, HasLocalPrefix
  <1>4. q.id \in Present /\ events[q.id].dirty /\ (q.row.deleted => events[q.id].deleted)
    BY <1>1 DEF StillThere, Queued
  <1>5. OutboxOf!Offer(q.id, q.row.deleted)
    BY <1>1, <1>2, <1>3, <1>4, EntriesInUse DEF OutboxOf!Offer
  <1>6. q.row.deleted \in BOOLEAN
    BY <1>1 DEF Row
  <1> QED
    BY <1>1, <1>5, <1>6 DEF OutboxOf!Next

(* The record of a reply acknowledges what was offered.                    *)
LEMMA ReplyMaps ==
  ASSUME IInv, RecordReply
  PROVE  OutboxOf!Next
  <1>1. /\ StoreTypeOK /\ flight \in Request /\ flight.id \in RowIds /\ StillThere(flight)
        /\ flight.row.rid \in Rid /\ pc = "sent" /\ flight' = NoFlight
    BY DEF IInv, TypeOK, FlightIsLive, RecordReply, Request, Row
  <1>2. flight.id \in Present /\ flight.id \in OutboxOf!Used
    BY <1>1, EntriesInUse DEF StillThere, Queued
  <1>3. /\ OfferOf = [id |-> flight.id, gone |-> flight.row.deleted]
        /\ OfferOf' = NoFlight
    BY <1>1, CalDAVAssumption DEF OfferOf, CalDAVAssumption
  <1>4. OfferOf # NoFlight /\ OfferOf.id = flight.id /\ OfferOf.gone = flight.row.deleted
    <2>1. OfferOf \in OutboxOf!Offers
      BY <1>1, <1>3 DEF OutboxOf!Offers, Request, Row
    <2> QED
      BY <1>3, <2>1, OutboxAssumption DEF OutboxAssumption
  <1>5. CASE flight.row.deleted
    <2>1. EntriesOf' = [EntriesOf EXCEPT ![flight.id] = NoRow]
      BY <1>1, <1>5, EraseEntry DEF RecordReply
    <2> QED
      BY <1>2, <1>3, <1>4, <1>5, <2>1 DEF OutboxOf!Acknowledge, OutboxOf!Next
  <1>6. CASE ~flight.row.deleted
    <2>1. PICK r \in Row : /\ events' = [events EXCEPT ![flight.id] = r]
                           /\ Marks(flight.id, Uid(flight.row.rid), r)
      BY <1>1, <1>6, ReplyWrites
    <2>2. EntriesOf' = [EntriesOf EXCEPT ![flight.id] = EntryOf(r)]
      BY <1>1, <2>1, WriteEntry
    <2>3. r.dirty = FALSE /\ r.deleted = events[flight.id].deleted /\ ~NeverPushed(r)
      BY <1>1, <2>1, UidFacts DEF Row, Marks, NeverPushed
    <2>4. /\ EntriesOf[flight.id] \in OutboxOf!Entry
          /\ EntriesOf[flight.id].gone = events[flight.id].deleted
      BY <1>1, <1>2, EntriesInUse
    <2>5. EntryOf(r) = [sent |-> TRUE, queued |-> FALSE, gone |-> r.deleted]
      <3>1. r.deleted \in BOOLEAN
        BY <2>1 DEF Row
      <3> QED
        BY <2>3, <3>1, EntryFields
    <2>6. EntryOf(r) = [EntriesOf[flight.id] EXCEPT !.sent = TRUE, !.queued = FALSE]
      BY <2>3, <2>4, <2>5, EntryUpdates
    <2> QED
      BY <1>2, <1>3, <1>4, <1>6, <2>2, <2>6
      DEF OutboxOf!Acknowledge, OutboxOf!Next, EntriesOf
  <1> QED
    BY <1>5, <1>6

(* A resource of the REPORT is received, or changes no entry.              *)
LEMMA ItemMaps ==
  ASSUME IInv, NEW it \in page, StoreItem(it)
  PROVE  OutboxOf!Next \/ UNCHANGED OutboxOf!outbox
  <1>1. /\ TypeOK /\ StoreTypeOK /\ cal \in Calendars /\ it \in Resource
        /\ HasLocalPrefix(it.uid) => it.uid.suffix > 0
    BY DEF IInv, TypeOK, PullIsLive, StoreItem
  <1>2. UNCHANGED OfferOf
    BY DEF StoreItem, OfferOf
  <1>3. CASE UNCHANGED events
    BY <1>2, <1>3
    DEF OutboxOf!outbox, EntriesOf, Present, EntryOf, NeverPushed, HasLocalPrefix
  <1>4. ASSUME NEW id \in RowIds, NEW r \in Row, events' = [events EXCEPT ![id] = r],
               Inserts(cal, it.uid, id, r)
        PROVE  OutboxOf!Next
    <2>1. EntriesOf' = [EntriesOf EXCEPT ![id] = EntryOf(r)]
      BY <1>1, <1>4, WriteEntry
    <2>2. id \notin OutboxOf!Used
      BY <1>1, <1>4, EntriesInUse DEF Inserts
    <2>3. ~NeverPushed(r) /\ r.dirty = FALSE /\ r.deleted = FALSE
      BY <1>1, <1>4 DEF Inserts, NeverPushed, Row
    <2>4. EntryOf(r) = [sent |-> TRUE, queued |-> FALSE, gone |-> FALSE]
      BY <2>3, EntryFields
    <2>5. OutboxOf!Receive(id)
      BY <1>2, <2>1, <2>2, <2>4 DEF OutboxOf!Receive
    <2> QED
      BY <2>5 DEF OutboxOf!Next
  <1>5. ASSUME NEW id \in RowIds, NEW r \in Row, events' = [events EXCEPT ![id] = r],
               Refreshes(id, r)
        PROVE  UNCHANGED OutboxOf!outbox
    <2>1. EntriesOf' = [EntriesOf EXCEPT ![id] = EntryOf(r)]
      BY <1>1, <1>5, WriteEntry
    <2>2. /\ id \in Present /\ events[id] \in Row
          /\ r.dirty = events[id].dirty /\ r.deleted = events[id].deleted
          /\ r.rid = events[id].rid
      BY <1>1, <1>5, RowsAreRows DEF Refreshes, Row
    <2>3. EntryOf(r) = EntryOf(events[id])
      BY <2>2 DEF EntryOf, NeverPushed
    <2>4. EntriesOf[id] = EntryOf(r)
      BY <1>1, <2>2, <2>3, EntriesInUse
    <2>5. UNCHANGED EntriesOf
      BY <2>1, <2>4 DEF EntriesOf
    <2> QED
      BY <1>2, <2>5 DEF OutboxOf!outbox
  <1> QED
    BY <1>1, <1>3, <1>4, <1>5, ItemWrites

(* Every step of the synchronisation is a step of the outbox, or none.     *)
LEMMA StepMaps == IInv /\ [Next]_vars => [OutboxOf!Next]_(OutboxOf!outbox)
  <1> SUFFICES ASSUME IInv, [Next]_vars
               PROVE  OutboxOf!Next \/ UNCHANGED OutboxOf!outbox
    OBVIOUS
  <1>1. ASSUME UNCHANGED events, UNCHANGED flight \/ flight' = NoFlight
        PROVE  OutboxOf!Next \/ UNCHANGED OutboxOf!outbox
    <2>1. UNCHANGED EntriesOf
      BY <1>1 DEF EntriesOf, Present, EntryOf, NeverPushed, HasLocalPrefix
    <2>2. CASE UNCHANGED OfferOf
      BY <2>1, <2>2 DEF OutboxOf!outbox
    <2>3. CASE OfferOf # NoFlight /\ OfferOf' = NoFlight
      BY <2>1, <2>3 DEF OutboxOf!Abandon, OutboxOf!Next
    <2> QED
      BY <1>1, <2>2, <2>3 DEF OfferOf
  <1>2. CASE \/ SyncStart \/ ListCalendars \/ TakeSnapshot \/ ReplyConflicts \/ PushDone
             \/ FetchCalendar \/ CalendarDone \/ SyncDone \/ SyncAborts \/ OutsideStep
             \/ UNCHANGED vars
    BY <1>1, <1>2
    DEF SyncStart, ListCalendars, TakeSnapshot, ReplyConflicts, PushDone, FetchCalendar,
        CalendarDone, SyncDone, SyncAborts, OutsideStep, EndSync, vars, storeVars, syncVars
  <1>3. ASSUME NEW q \in batch, PushRefused(q)
        PROVE  OutboxOf!Next \/ UNCHANGED OutboxOf!outbox
    BY <1>1, <1>3 DEF PushRefused, EndSync, storeVars
  <1>4. ASSUME NEW t \in listing, PullCalendar(t)
        PROVE  OutboxOf!Next \/ UNCHANGED OutboxOf!outbox
    BY <1>1, <1>4 DEF PullCalendar
  <1> QED
    BY <1>2, <1>3, <1>4, OwnerMaps, DropMaps, SendMaps, ReplyMaps, ItemMaps
    DEF Next, WorkerStep

(* CalDAVSync implements the outbox that may forget: queued work enters by *)
(* the owner (data.go:121-172) and leaves by the record of the answer to   *)
(* its own request (caldav.go:382-409) or as a discarded tombstone         *)
(* (caldav.go:379).                                                        *)
THEOREM SyncImplementsOutbox == Spec => ImplementsOutbox
<1>1. Init => OutboxOf!Init
  BY DEF Init, StoreInit, OutboxOf!Init, EntriesOf, OfferOf, Present
<1>2. IInv /\ [Next]_vars => [OutboxOf!Next]_(OutboxOf!outbox)
  BY StepMaps
<1> QED
  BY <1>1, <1>2, Invariance, PTL DEF Spec, ImplementsOutbox, OutboxOf!Spec
=============================================================================
