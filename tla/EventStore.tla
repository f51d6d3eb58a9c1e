----------------------------- MODULE EventStore -----------------------------
(***************************************************************************)
(* The local side of one connected account: the `calendars` and `events`   *)
(* tables (migrations/0001_init.sql) and the statements that touch them,   *)
(* from data.go (the owner's edits) and from the statements the two        *)
(* provider syncs share (google.go, caldav.go).                            *)
(*                                                                         *)
(* An SQL statement is one atomic step: SQLite serialises writers.  The    *)
(* fields of an event that no statement tests (title, times, recurrence    *)
(* ...) are one abstract value, `val`.                                     *)
(***************************************************************************)
EXTENDS Integers, FiniteSets

CONSTANTS
  Calendars,   \* calendars of the account
  Contents,    \* what an event can say
  NoRow,       \* an unused row id
  MaxRows,     \* bound: row ids
  MaxStamp,    \* bound: local creations
  MaxEdits     \* bound: local updates and deletes

VARIABLES
  calendars,   \* calendars[c]: unknown to the app, or known with its `writable`
  events,      \* events[id]: the row with that id, or NoRow
  stamp,       \* local creations so far; names the next local remote_id
  edits        \* local updates and deletes so far (bounds the model)

storeVars == <<calendars, events, stamp, edits>>

RowIds == 1..MaxRows

(* remote_id.  "local-<UnixNano>" is [local, n, 0], with "@bespoke" appended *)
(* k times it is [local, n, k]; identifiers minted by a provider are         *)
(* [provider, n, 0].                                                         *)
Rid == [origin: {"local", "provider"}, n: Nat, suffix: Nat]
LocalRid(n)    == [origin |-> "local", n |-> n, suffix |-> 0]
ProviderRid(n) == [origin |-> "provider", n |-> n, suffix |-> 0]
HasLocalPrefix(rid) == rid.origin = "local"

Row == [cal: Calendars, rid: Rid, val: Contents, dirty: BOOLEAN, deleted: BOOLEAN]

ASSUME StoreAssumption ==
  /\ MaxRows \in Nat
  /\ MaxStamp \in Nat
  /\ MaxEdits \in Nat
  /\ NoRow \notin Row

StoreTypeOK ==
  /\ calendars \in [Calendars -> {"unknown", "readonly", "writable"}]
  /\ events \in [RowIds -> Row \cup {NoRow}]
  /\ stamp \in 0..MaxStamp
  /\ edits \in 0..MaxEdits

StoreInit ==
  /\ calendars = [c \in Calendars |-> "unknown"]
  /\ events = [id \in RowIds |-> NoRow]
  /\ stamp = 0
  /\ edits = 0

-----------------------------------------------------------------------------
(* Relational helpers *)

Present == {id \in RowIds : events[id] # NoRow}
Queued  == {id \in Present : events[id].dirty}

(* INTEGER PRIMARY KEY without AUTOINCREMENT: the largest id plus one.     *)
IsNextRow(id) ==
  /\ id \in RowIds
  /\ \A i \in Present : i < id
  /\ id = 1 \/ id - 1 \in Present

(* The row that UNIQUE(calendar_id, remote_id) identifies.                 *)
Bound(id, c, rid) == id \in Present /\ events[id].cal = c /\ events[id].rid = rid

-----------------------------------------------------------------------------
(* The owner's operations: event form and tools                            *)

CreateLocalEvent(c, v) ==
  /\ stamp < MaxStamp
  /\ calendars[c] = "writable"
  /\ \E id \in RowIds :
       /\ IsNextRow(id)
       /\ events' = [events EXCEPT ![id] =
            [cal |-> c, rid |-> LocalRid(stamp + 1), val |-> v,
             dirty |-> TRUE, deleted |-> FALSE]]
  /\ stamp' = stamp + 1
  /\ UNCHANGED <<calendars, edits>>

(* The subquery tests the calendar the event is in, not the one it moves   *)
(* to; the foreign key and the UNIQUE constraint are the only tests on c.  *)
UpdateLocalEvent(id, c, v) ==
  /\ edits < MaxEdits
  /\ id \in Present
  /\ calendars[events[id].cal] = "writable"
  /\ calendars[c] # "unknown"
  /\ \A other \in Present \ {id} : ~Bound(other, c, events[id].rid)
  /\ events' = [events EXCEPT ![id].cal = c, ![id].val = v, ![id].dirty = TRUE]
  /\ edits' = edits + 1
  /\ UNCHANGED <<calendars, stamp>>

(* Mutant: an event that was never pushed is removed at once. *)
DeleteUnpushedAtOnce(id) ==
  /\ edits < MaxEdits
  /\ id \in Present
  /\ calendars[events[id].cal] = "writable"
  /\ events' = IF HasLocalPrefix(events[id].rid) THEN [events EXCEPT ![id] = NoRow]
               ELSE [events EXCEPT ![id].deleted = TRUE, ![id].dirty = TRUE]
  /\ edits' = edits + 1
  /\ UNCHANGED <<calendars, stamp>>

DeleteLocalEvent(id) ==
  /\ edits < MaxEdits
  /\ id \in Present
  /\ calendars[events[id].cal] = "writable"
  /\ events' = [events EXCEPT ![id].deleted = TRUE, ![id].dirty = TRUE]
  /\ edits' = edits + 1
  /\ UNCHANGED <<calendars, stamp>>

OwnerStep(values) ==
  \/ \E c \in Calendars, v \in values : CreateLocalEvent(c, v)
  \/ \E id \in RowIds, c \in Calendars, v \in values : UpdateLocalEvent(id, c, v)
  \/ \E id \in RowIds : DeleteLocalEvent(id)

-----------------------------------------------------------------------------
(* Statements of a sync.  Each one leaves `stamp` and `edits` alone.       *)

(* INSERT INTO calendars ... ON CONFLICT DO UPDATE                         *)
UpsertCalendar(c, mayWrite) ==
  calendars' = [calendars EXCEPT ![c] = IF mayWrite THEN "writable" ELSE "readonly"]

(* Mutants: the upsert without WHERE events.dirty=0, and with DO NOTHING.  *)
RefreshAny(c, rid, v) ==
  \E id \in RowIds :
    /\ Bound(id, c, rid)
    /\ events' = [events EXCEPT ![id].val = v]

RefreshNothing(c, rid, v) ==
  /\ \E id \in RowIds : Bound(id, c, rid)
  /\ UNCHANGED events

(* INSERT INTO events ... ON CONFLICT DO UPDATE ... WHERE events.dirty=0   *)
RefreshKnown(c, rid, v) ==
  \E id \in RowIds :
    /\ Bound(id, c, rid)
    /\ events' = IF events[id].dirty THEN events ELSE [events EXCEPT ![id].val = v]

(* Mutant: INSERT without a UNIQUE key to conflict with. *)
InsertAlways(c, rid, v) ==
  \E id \in RowIds :
    /\ IsNextRow(id)
    /\ events' = [events EXCEPT ![id] =
         [cal |-> c, rid |-> rid, val |-> v, dirty |-> FALSE, deleted |-> FALSE]]

InsertUnknown(c, rid, v) ==
  /\ \A id \in RowIds : ~Bound(id, c, rid)
  /\ \E id \in RowIds :
       /\ IsNextRow(id)
       /\ events' = [events EXCEPT ![id] =
            [cal |-> c, rid |-> rid, val |-> v, dirty |-> FALSE, deleted |-> FALSE]]

(* Mutants: the UPDATE without remote_id=?, and without dirty=0. *)
MarkClean(id, rid) ==
  events' = IF id \in Present THEN [events EXCEPT ![id].dirty = FALSE] ELSE events

MarkNamed(id, rid) ==
  events' = IF id \in Present THEN [events EXCEPT ![id].rid = rid] ELSE events

(* UPDATE events SET remote_id=?, dirty=0 WHERE id=?                       *)
MarkPushed(id, rid) ==
  events' = IF id \in Present
            THEN [events EXCEPT ![id].rid = rid, ![id].dirty = FALSE]
            ELSE events

(* DELETE FROM events WHERE id=?                                           *)
DropRow(id) == events' = [events EXCEPT ![id] = NoRow]
=============================================================================
