-------------------------- MODULE EventStoreProofs --------------------------
(***************************************************************************)
(* What the statements of EventStore do to the table of events, for every  *)
(* value of the constants: which row each of them writes, and what that    *)
(* row has in common with the one it replaces.  The proofs about both      *)
(* provider syncs rest on these lemmas.                                    *)
(***************************************************************************)
EXTENDS EventStore, TLAPS

(* Every row in use is a row.                                              *)
LEMMA RowsAreRows ==
  ASSUME StoreTypeOK, NEW id \in Present
  PROVE  id \in RowIds /\ events[id] \in Row
  BY DEF StoreTypeOK, Present

(* A statement that writes one row leaves every other row alone.           *)
LEMMA WriteRow ==
  ASSUME StoreTypeOK, NEW id \in RowIds, NEW r \in Row,
         events' = [events EXCEPT ![id] = r]
  PROVE  /\ Present' = Present \cup {id}
         /\ events'[id] = r
         /\ \A i \in RowIds \ {id} : events'[i] = events[i]
  BY StoreAssumption DEF StoreTypeOK, Present, StoreAssumption

LEMMA WriteTyped ==
  ASSUME StoreTypeOK, NEW id \in RowIds, NEW r \in Row,
         events' = [events EXCEPT ![id] = r]
  PROVE  events' \in [RowIds -> Row \cup {NoRow}]
  BY DEF StoreTypeOK

(* A statement that deletes one row leaves every other row alone.          *)
LEMMA EraseRow ==
  ASSUME StoreTypeOK, NEW id \in RowIds, DropRow(id)
  PROVE  /\ Present' = Present \ {id}
         /\ \A i \in RowIds \ {id} : events'[i] = events[i]
  BY DEF StoreTypeOK, Present, DropRow

LEMMA EraseTyped ==
  ASSUME StoreTypeOK, NEW id \in RowIds, DropRow(id)
  PROVE  events' \in [RowIds -> Row \cup {NoRow}]
  BY DEF StoreTypeOK, DropRow

(* The row id given to an insert is not in use.                            *)
LEMMA NextRowIsNew == ASSUME NEW id, IsNextRow(id) PROVE id \in RowIds \ Present
  BY DEF IsNextRow, RowIds, Present

-----------------------------------------------------------------------------
(* The owner                                                               *)

(* The row an owner's handler writes is dirty.  It is a new one, under an  *)
(* identifier no row has, or it keeps its identifier and its deletion, and *)
(* collides with no other row.                                             *)
Creates(id, r) ==
  /\ id \notin Present /\ ~r.deleted
  /\ r.rid = LocalRid(stamp + 1) /\ stamp' = stamp + 1 /\ edits' = edits

Edits(id, r) ==
  /\ id \in Present /\ r.rid = events[id].rid /\ stamp' = stamp /\ edits' = edits + 1
  /\ events[id].deleted => r.deleted
  /\ r.cal # events[id].cal => \A other \in Present \ {id} : ~Bound(other, r.cal, r.rid)

LEMMA OwnerStepWrites ==
  ASSUME StoreTypeOK, NEW values \in SUBSET Contents, OwnerStep(values)
  PROVE  /\ \E id \in RowIds, r \in Row :
              /\ events' = [events EXCEPT ![id] = r]
              /\ r.dirty
              /\ Creates(id, r) \/ Edits(id, r)
         /\ UNCHANGED calendars
  <1> DEFINE Goal == \E id \in RowIds, r \in Row :
                       /\ events' = [events EXCEPT ![id] = r]
                       /\ r.dirty
                       /\ Creates(id, r) \/ Edits(id, r)
  <1>1. ASSUME NEW c \in Calendars, NEW v \in values, CreateLocalEvent(c, v) PROVE Goal
    <2> DEFINE r == [cal |-> c, rid |-> LocalRid(stamp + 1), val |-> v,
                     dirty |-> TRUE, deleted |-> FALSE]
    <2>1. PICK id \in RowIds : IsNextRow(id) /\ events' = [events EXCEPT ![id] = r]
      BY <1>1 DEF CreateLocalEvent
    <2>2. r \in Row
      BY StoreAssumption DEF Row, Rid, LocalRid, StoreTypeOK, StoreAssumption
    <2>3. Creates(id, r)
      BY <1>1, <2>1, NextRowIsNew DEF Creates, CreateLocalEvent
    <2> QED
      BY <2>1, <2>2, <2>3
  <1>2. ASSUME NEW id \in RowIds, NEW c \in Calendars, NEW v \in values,
               UpdateLocalEvent(id, c, v)
        PROVE  Goal
    <2> DEFINE r == [events[id] EXCEPT !.cal = c, !.val = v, !.dirty = TRUE]
    <2>1. id \in Present /\ events[id] \in Row
      BY <1>2, RowsAreRows DEF UpdateLocalEvent
    <2>2. /\ r \in Row /\ r.dirty /\ r.cal = c
          /\ r.rid = events[id].rid /\ r.deleted = events[id].deleted
      BY <2>1 DEF Row
    <2>3. events' = [events EXCEPT ![id] = r]
      BY <1>2, <2>1 DEF UpdateLocalEvent
    <2>4. Edits(id, r)
      BY <1>2, <2>1, <2>2 DEF Edits, UpdateLocalEvent
    <2> QED
      BY <2>2, <2>3, <2>4
  <1>3. ASSUME NEW id \in RowIds, DeleteLocalEvent(id) PROVE Goal
    <2> DEFINE r == [events[id] EXCEPT !.deleted = TRUE, !.dirty = TRUE]
    <2>1. id \in Present /\ events[id] \in Row
      BY <1>3, RowsAreRows DEF DeleteLocalEvent
    <2>2. /\ r \in Row /\ r.dirty /\ r.cal = events[id].cal
          /\ r.rid = events[id].rid /\ r.deleted
      BY <2>1 DEF Row
    <2>3. events' = [events EXCEPT ![id] = r]
      BY <1>3, <2>1 DEF DeleteLocalEvent
    <2>4. Edits(id, r)
      BY <1>3, <2>1, <2>2 DEF Edits, DeleteLocalEvent
    <2> QED
      BY <2>2, <2>3, <2>4
  <1>4. UNCHANGED calendars
    BY DEF OwnerStep, CreateLocalEvent, UpdateLocalEvent, DeleteLocalEvent
  <1> QED
    BY <1>1, <1>2, <1>3, <1>4 DEF OwnerStep

(* The handlers keep the types and the bounds of the model.                *)
LEMMA OwnerStepTyped ==
  ASSUME StoreTypeOK, NEW values \in SUBSET Contents, OwnerStep(values)
  PROVE  StoreTypeOK'
  <1>1. PICK id \in RowIds, r \in Row : events' = [events EXCEPT ![id] = r]
    BY OwnerStepWrites
  <1>2. events' \in [RowIds -> Row \cup {NoRow}] /\ UNCHANGED calendars
    BY <1>1, WriteTyped, OwnerStepWrites
  <1>3. \/ stamp' = stamp + 1 /\ edits' = edits /\ stamp < MaxStamp
        \/ stamp' = stamp /\ edits' = edits + 1 /\ edits < MaxEdits
    <2>1. ASSUME NEW c \in Calendars, NEW v \in values, CreateLocalEvent(c, v)
          PROVE  stamp' = stamp + 1 /\ edits' = edits /\ stamp < MaxStamp
      BY <2>1 DEF CreateLocalEvent
    <2>2. ASSUME NEW k \in RowIds, NEW c \in Calendars, NEW v \in values,
                 UpdateLocalEvent(k, c, v)
          PROVE  stamp' = stamp /\ edits' = edits + 1 /\ edits < MaxEdits
      BY <2>2 DEF UpdateLocalEvent
    <2>3. ASSUME NEW k \in RowIds, DeleteLocalEvent(k)
          PROVE  stamp' = stamp /\ edits' = edits + 1 /\ edits < MaxEdits
      BY <2>3 DEF DeleteLocalEvent
    <2> QED
      BY <2>1, <2>2, <2>3 DEF OwnerStep
  <1>4. stamp' \in 0..MaxStamp /\ edits' \in 0..MaxEdits
    BY <1>3, StoreAssumption DEF StoreAssumption, StoreTypeOK
  <1> QED
    BY <1>2, <1>4 DEF StoreTypeOK

-----------------------------------------------------------------------------
(* The statements of a sync                                                *)

(* A pulled event that is not known becomes a new clean row.               *)
Inserts(c, rid, id, r) ==
  /\ id \notin Present /\ ~r.deleted /\ ~r.dirty
  /\ r.cal = c /\ r.rid = rid
  /\ \A other \in RowIds : ~Bound(other, c, rid)

LEMMA InsertWrites ==
  ASSUME StoreTypeOK, NEW c \in Calendars, NEW rid \in Rid, NEW v \in Contents,
         InsertUnknown(c, rid, v)
  PROVE  \E id \in RowIds, r \in Row :
           events' = [events EXCEPT ![id] = r] /\ Inserts(c, rid, id, r)
  <1> DEFINE r == [cal |-> c, rid |-> rid, val |-> v, dirty |-> FALSE, deleted |-> FALSE]
  <1>1. PICK id \in RowIds : IsNextRow(id) /\ events' = [events EXCEPT ![id] = r]
    BY DEF InsertUnknown
  <1>2. r \in Row
    BY DEF Row
  <1>3. Inserts(c, rid, id, r)
    BY <1>1, NextRowIsNew DEF Inserts, InsertUnknown
  <1> QED
    BY <1>1, <1>2, <1>3

(* One that is known gives a clean row its contents, and a dirty row none. *)
Refreshes(id, r) ==
  /\ id \in Present /\ ~events[id].dirty /\ ~r.dirty
  /\ r.cal = events[id].cal /\ r.rid = events[id].rid /\ r.deleted = events[id].deleted

LEMMA RefreshWrites ==
  ASSUME StoreTypeOK, NEW c, NEW rid, NEW v \in Contents, RefreshKnown(c, rid, v)
  PROVE  \/ UNCHANGED events
         \/ \E id \in RowIds, r \in Row :
              events' = [events EXCEPT ![id] = r] /\ Refreshes(id, r)
  <1>1. PICK id \in RowIds :
          /\ id \in Present
          /\ events' = IF events[id].dirty THEN events ELSE [events EXCEPT ![id].val = v]
    BY DEF RefreshKnown, Bound
  <1> DEFINE r == [events[id] EXCEPT !.val = v]
  <1>2. CASE ~events[id].dirty
    <2>1. events[id] \in Row
      BY <1>1, RowsAreRows
    <2>2. /\ r \in Row /\ r.dirty = events[id].dirty /\ r.cal = events[id].cal
          /\ r.rid = events[id].rid /\ r.deleted = events[id].deleted
      BY <2>1 DEF Row
    <2>3. events' = [events EXCEPT ![id] = r]
      BY <1>1, <1>2
    <2> QED
      BY <1>1, <1>2, <2>2, <2>3 DEF Refreshes
  <1> QED
    BY <1>1, <1>2

(* The record of a reply gives its row the identifier and makes it clean.  *)
Marks(id, rid, r) ==
  /\ ~r.dirty /\ r.cal = events[id].cal /\ r.rid = rid /\ r.deleted = events[id].deleted

LEMMA MarkWrites ==
  ASSUME StoreTypeOK, NEW id \in Present, NEW rid \in Rid, MarkPushed(id, rid)
  PROVE  \E r \in Row : events' = [events EXCEPT ![id] = r] /\ Marks(id, rid, r)
  <1> DEFINE r == [events[id] EXCEPT !.rid = rid, !.dirty = FALSE]
  <1>1. id \in RowIds /\ events[id] \in Row
    BY RowsAreRows
  <1>2. /\ r \in Row /\ ~r.dirty /\ r.cal = events[id].cal
        /\ r.rid = rid /\ r.deleted = events[id].deleted
    BY <1>1 DEF Row
  <1>3. events' = [events EXCEPT ![id] = r]
    BY DEF MarkPushed
  <1> QED
    BY <1>2, <1>3 DEF Marks
=============================================================================
