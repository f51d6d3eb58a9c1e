----------------------------- MODULE CalDAVSync -----------------------------
(***************************************************************************)
(* Two-way synchronisation of one iCloud account (caldav.go), interleaved  *)
(* with the owner's edits, with other CalDAV clients, and with lost        *)
(* replies, failed requests, timeouts and restarts of the app.             *)
(*                                                                         *)
(* It differs from GoogleSync in what the order of the steps and the       *)
(* addressing of events make of it.  The calendars are listed before the   *)
(* push.  The app chooses the identifier (UID) of an event it creates, and *)
(* writes with PUT at <calendar>/<UID>.ics, whatever the resource is       *)
(* called.  A calendar is read in one REPORT, which says nothing of        *)
(* events that are gone.                                                   *)
(***************************************************************************)
EXTENDS EventStore

CONSTANTS
  Malformed,    \* contents without a summary, which parseICS refuses
  Flat,         \* Flat[v]: what parseICS reads back of what buildICS makes of v
  NoFlight,     \* no request is outstanding
  NoCalendar,   \* no calendar is being pulled
  MaxFaults,    \* bound: aborted syncs
  MaxOutside,   \* bound: changes made by other clients
  MaxUpsets     \* bound: the owner's edits, aborted syncs and outside changes together

VARIABLES
  remote,       \* the resources of the provider
  access,       \* calendars the account may write, at the provider
  pc,           \* where the worker is
  listing,      \* listed calendars still to pull
  batch,        \* snapshot rows still to push
  flight,       \* the snapshot row whose request was sent
  cal,          \* the calendar being pulled
  page,         \* resources of the REPORT still to store
  synced,       \* last_sync_at is set
  first,        \* importPublisher.firstSync of the current sync
  imports,      \* identifiers published as calendar.event.imported
  faults, outside

syncVars == <<pc, listing, batch, flight, cal, page, synced, first, imports>>
vars == <<storeVars, remote, access, syncVars, faults, outside>>

(* named: the resource is called <UID>.ics.                                *)
Resource == [cal: Calendars, uid: Rid, val: Contents, named: BOOLEAN]
Request == [id: RowIds, row: Row]

ASSUME CalDAVAssumption ==
  /\ Malformed \subseteq Contents
  /\ Flat \in [Contents -> Contents]
  /\ \A v \in Contents : Flat[Flat[v]] = Flat[v]
  /\ MaxFaults \in Nat
  /\ MaxOutside \in Nat
  /\ MaxUpsets \in Nat
  /\ NoFlight \notin Request
  /\ NoCalendar \notin Calendars

TypeOK ==
  /\ StoreTypeOK
  /\ remote \subseteq Resource
  /\ access \subseteq Calendars
  /\ pc \in {"idle", "list", "listed", "push", "sent", "pull", "fetch", "store"}
  /\ listing \subseteq [cal: Calendars, mayWrite: BOOLEAN]
  /\ batch \subseteq Request
  /\ flight \in Request \cup {NoFlight}
  /\ cal \in Calendars \cup {NoCalendar}
  /\ page \subseteq Resource
  /\ synced \in BOOLEAN
  /\ first \in BOOLEAN
  /\ imports \subseteq Rid
  /\ faults \in 0..MaxFaults
  /\ outside \in 0..MaxOutside

(* A freshly connected account: nothing is known of it locally.            *)
Init ==
  /\ StoreInit
  /\ remote = {} /\ access = Calendars
  /\ pc = "idle" /\ listing = {} /\ batch = {} /\ flight = NoFlight
  /\ cal = NoCalendar /\ page = {}
  /\ synced = FALSE /\ first = TRUE /\ imports = {}
  /\ faults = 0 /\ outside = 0

-----------------------------------------------------------------------------
(* The provider (external): what it answers to the requests of caldav.go   *)

(* Mutant: the identifier is chosen at each attempt. *)
UidPerAttempt(rid) ==
  IF HasLocalPrefix(rid) THEN [rid EXCEPT !.suffix = @ + 1 + faults] ELSE rid

(* "@bespoke" is appended to every identifier that begins with "local-".   *)
Uid(rid) == IF HasLocalPrefix(rid) THEN [rid EXCEPT !.suffix = @ + 1] ELSE rid

At(c, uid) == {r \in remote : r.cal = c /\ r.uid = uid}

(* PUT creates or replaces <calendar>/<UID>.ics.  A calendar holds a UID   *)
(* once, so a resource of another name with that UID is a conflict.        *)
Puts(row) ==
  /\ row.cal \in access
  /\ \A r \in At(row.cal, Uid(row.rid)) : r.named
  /\ remote' = (remote \ At(row.cal, Uid(row.rid))) \cup
       {[cal |-> row.cal, uid |-> Uid(row.rid), val |-> Flat[row.val], named |-> TRUE]}

Deletes(row) ==
  /\ row.cal \in access
  /\ \E r \in At(row.cal, row.rid) : r.named /\ remote' = remote \ {r}

(* Other clients create, edit and delete events and change the account's   *)
(* privileges on a calendar.                                               *)
OutsideStep ==
  /\ outside < MaxOutside
  /\ edits + faults + outside < MaxUpsets
  /\ outside' = outside + 1
  /\ \/ /\ \E c \in Calendars, v \in Contents, named \in BOOLEAN :
             remote' = remote \cup
               {[cal |-> c, uid |-> ProviderRid(outside + 1), val |-> v, named |-> named]}
        /\ UNCHANGED access
     \/ /\ \E r \in remote, v \in Contents :
             remote' = (remote \ {r}) \cup {[r EXCEPT !.val = v]}
        /\ UNCHANGED access
     \/ /\ \E r \in remote : remote' = remote \ {r}
        /\ UNCHANGED access
     \/ /\ \E c \in Calendars :
             access' = IF c \in access THEN access \ {c} ELSE access \cup {c}
        /\ UNCHANGED remote
  /\ UNCHANGED <<storeVars, syncVars, faults>>

-----------------------------------------------------------------------------
(* The worker                                                              *)

EndSync ==
  /\ pc' = "idle" /\ listing' = {} /\ batch' = {} /\ flight' = NoFlight
  /\ cal' = NoCalendar /\ page' = {} /\ first' = TRUE

SyncStart ==
  /\ pc = "idle"
  /\ pc' = "list"
  /\ first' = ~synced
  /\ UNCHANGED <<storeVars, remote, access, listing, batch, flight, cal, page, synced,
                 imports, faults, outside>>

(* Principal, home and calendars are discovered before anything is pushed. *)
ListCalendars ==
  /\ pc = "list"
  /\ listing' = {[cal |-> c, mayWrite |-> c \in access] : c \in Calendars}
  /\ pc' = "listed"
  /\ UNCHANGED <<storeVars, remote, access, batch, flight, cal, page, synced, first,
                 imports, faults, outside>>

(* Mutant: SELECT without e.dirty=1. *)
TakeWholeTable ==
  /\ pc = "listed"
  /\ batch' = {[id |-> i, row |-> events[i]] : i \in Present}
  /\ pc' = "push"
  /\ UNCHANGED <<storeVars, remote, access, listing, flight, cal, page, synced, first,
                 imports, faults, outside>>

TakeSnapshot ==
  /\ pc = "listed"
  /\ batch' = {[id |-> i, row |-> events[i]] : i \in Queued}
  /\ pc' = "push"
  /\ UNCHANGED <<storeVars, remote, access, listing, flight, cal, page, synced, first,
                 imports, faults, outside>>

(* Mutant: the tombstone is passed over. *)
PushSkipsLocal(q) ==
  /\ pc = "push"
  /\ q.row.deleted /\ HasLocalPrefix(q.row.rid)
  /\ batch' = batch \ {q}
  /\ UNCHANGED <<storeVars, remote, access, pc, listing, flight, cal, page, synced, first,
                 imports, faults, outside>>

(* A tombstone whose identifier begins with "local-" goes without a request, *)
(* whether or not it was ever pushed.                                      *)
PushDropsLocal(q) ==
  /\ pc = "push"
  /\ q.row.deleted /\ HasLocalPrefix(q.row.rid)
  /\ DropRow(q.id)
  /\ batch' = batch \ {q}
  /\ UNCHANGED <<calendars, stamp, edits, remote, access, pc, listing, flight, cal, page,
                 synced, first, imports, faults, outside>>

PushSends(q) ==
  /\ pc = "push"
  /\ IF q.row.deleted
     THEN ~HasLocalPrefix(q.row.rid) /\ Deletes(q.row)
     ELSE Puts(q.row)
  /\ flight' = q
  /\ batch' = batch \ {q}
  /\ pc' = "sent"
  /\ UNCHANGED <<storeVars, access, listing, cal, page, synced, first, imports, faults,
                 outside>>

(* The provider answers non-2xx: the sync ends there.                      *)
Refused(row) ==
  \/ /\ row.deleted /\ ~HasLocalPrefix(row.rid)
     /\ row.cal \in access => \A r \in At(row.cal, row.rid) : ~r.named
  \/ /\ ~row.deleted
     /\ \/ row.cal \notin access
        \/ \E r \in At(row.cal, Uid(row.rid)) : ~r.named

PushRefused(q) ==
  /\ pc = "push"
  /\ Refused(q.row)
  /\ EndSync
  /\ UNCHANGED <<storeVars, remote, access, synced, imports, faults, outside>>

(* Another row of the calendar the row is in has the identifier already.   *)
Conflicts(id, uid) ==
  /\ id \in Present
  /\ \E other \in Present \ {id} : Bound(other, events[id].cal, uid)

(* Mutant: whether the row goes is read when the reply arrives. *)
RecordAsOfNow ==
  /\ pc = "sent"
  /\ IF events[flight.id].deleted
     THEN DropRow(flight.id)
     ELSE /\ ~Conflicts(flight.id, Uid(flight.row.rid))
          /\ MarkPushed(flight.id, Uid(flight.row.rid))
  /\ flight' = NoFlight
  /\ pc' = "push"
  /\ UNCHANGED <<calendars, stamp, edits, remote, access, listing, batch, cal, page,
                 synced, first, imports, faults, outside>>

(* The reply is recorded: the row goes, or takes the identifier it was     *)
(* pushed under and becomes clean.                                         *)
RecordReply ==
  /\ pc = "sent"
  /\ IF flight.row.deleted
     THEN DropRow(flight.id)
     ELSE /\ ~Conflicts(flight.id, Uid(flight.row.rid))
          /\ MarkPushed(flight.id, Uid(flight.row.rid))
  /\ flight' = NoFlight
  /\ pc' = "push"
  /\ UNCHANGED <<calendars, stamp, edits, remote, access, listing, batch, cal, page,
                 synced, first, imports, faults, outside>>

(* UNIQUE(calendar_id, remote_id) refuses the UPDATE: the sync ends.       *)
ReplyConflicts ==
  /\ pc = "sent"
  /\ ~flight.row.deleted
  /\ Conflicts(flight.id, Uid(flight.row.rid))
  /\ EndSync
  /\ UNCHANGED <<storeVars, remote, access, synced, imports, faults, outside>>

PushDone ==
  /\ pc = "push" /\ batch = {}
  /\ pc' = "pull"
  /\ UNCHANGED <<storeVars, remote, access, listing, batch, flight, cal, page, synced,
                 first, imports, faults, outside>>

PullCalendar(t) ==
  /\ pc = "pull"
  /\ UpsertCalendar(t.cal, t.mayWrite)
  /\ listing' = listing \ {t}
  /\ cal' = t.cal
  /\ pc' = "fetch"
  /\ UNCHANGED <<events, stamp, edits, remote, access, batch, flight, page, synced, first,
                 imports, faults, outside>>

FetchCalendar ==
  /\ pc = "fetch"
  /\ page' = {r \in remote : r.cal = cal}
  /\ pc' = "store"
  /\ UNCHANGED <<storeVars, remote, access, listing, batch, flight, cal, synced, first,
                 imports, faults, outside>>

StoreItem(it) ==
  /\ pc = "store"
  /\ page' = page \ {it}
  /\ \/ /\ it.val \in Malformed
        /\ UNCHANGED <<events, imports>>
     \/ /\ it.val \notin Malformed
        /\ RefreshKnown(cal, it.uid, it.val)
        /\ UNCHANGED imports
     \/ /\ it.val \notin Malformed
        /\ InsertUnknown(cal, it.uid, it.val)
        /\ imports' = IF first THEN imports ELSE imports \cup {it.uid}
  /\ UNCHANGED <<calendars, stamp, edits, remote, access, pc, listing, batch, flight, cal,
                 synced, first, faults, outside>>

(* Mutant: the calendar is forgotten after each item. *)
ItemForgetsCalendar ==
  /\ pc = "store"
  /\ pc' = IF page = {} THEN "pull" ELSE "store"
  /\ cal' = NoCalendar
  /\ UNCHANGED <<storeVars, remote, access, listing, batch, flight, page, synced, first,
                 imports, faults, outside>>

CalendarDone ==
  /\ pc = "store" /\ page = {}
  /\ pc' = "pull"
  /\ cal' = NoCalendar
  /\ UNCHANGED <<storeVars, remote, access, listing, batch, flight, page, synced, first,
                 imports, faults, outside>>

SyncDone ==
  /\ pc = "pull" /\ listing = {}
  /\ EndSync
  /\ synced' = TRUE
  /\ UNCHANGED <<storeVars, remote, access, imports, faults, outside>>

(* A request fails or its reply is lost, the 3-minute context expires, or  *)
(* the app restarts.  The provider has already acted on a request in flight. *)
SyncAborts ==
  /\ pc # "idle"
  /\ faults < MaxFaults
  /\ edits + faults + outside < MaxUpsets
  /\ faults' = faults + 1
  /\ EndSync
  /\ UNCHANGED <<storeVars, remote, access, synced, imports, outside>>

WorkerStep ==
  \/ SyncStart
  \/ ListCalendars
  \/ TakeSnapshot
  \/ \E q \in batch : PushDropsLocal(q) \/ PushSends(q) \/ PushRefused(q)
  \/ RecordReply
  \/ ReplyConflicts
  \/ PushDone
  \/ \E t \in listing : PullCalendar(t)
  \/ FetchCalendar
  \/ \E it \in page : StoreItem(it)
  \/ CalendarDone
  \/ SyncDone

OwnerActs ==
  /\ OwnerStep(Contents \ Malformed)
  /\ edits' + faults + outside <= MaxUpsets
  /\ UNCHANGED <<remote, access, syncVars, faults, outside>>

Next == OwnerActs \/ WorkerStep \/ SyncAborts \/ OutsideStep

Spec == Init /\ [][Next]_vars

(* The worker goroutine runs, and the ten-minute poller keeps queueing the *)
(* account.  Nothing is assumed of the owner, of other clients or of faults. *)
FairSpec == Spec /\ WF_vars(WorkerStep)

-----------------------------------------------------------------------------
(* Safety                                                                  *)

(* The first push appends the first "@bespoke".                            *)
NeverPushed(row) == HasLocalPrefix(row.rid) /\ row.rid.suffix = 0

(* An event the owner created and no sync has pushed yet is still queued.  *)
UnpushedStaysQueued ==
  \A id \in Present : NeverPushed(events[id]) => events[id].dirty

(* Retrying a creation is idempotent: since the app chooses the UID, a PUT *)
(* whose reply was lost is repeated at the same place, and only an edit    *)
(* can make one more resource of an event, however many syncs were cut off. *)
CopiesBoundedByEdits ==
  Cardinality({r \in remote : HasLocalPrefix(r.uid)}) <= stamp + edits

(* A tombstone of an event the app made.                                   *)
LocalTombstone(row) == row.deleted /\ HasLocalPrefix(row.rid)

(* Queued creations, changes and deletions of other clients' events are    *)
(* retained (README.md:163): such a row changes or goes only by an edit of *)
(* the owner or by the reply to its own request.  The one thing queued     *)
(* that is not retained, a deletion of an event the app made, is behind    *)
(* EchoNeverImported.                                                      *)
QueuedChangesRetained ==
  [][\A id \in {i \in Queued : ~LocalTombstone(events[i])} :
       events'[id] # events[id] =>
         \/ edits' = edits + 1
         \/ pc = "sent" /\ flight.id = id]_vars

(* What other clients made changes or goes only by themselves, or because  *)
(* the owner edited or deleted that very event and the change is queued: a *)
(* pull, a retry or a sync that was cut off never writes an echo back.     *)
OthersUntouched ==
  [][\A r \in remote \ remote' :
       ~HasLocalPrefix(r.uid) =>
         \/ outside' = outside + 1
         \/ \E id \in Queued : events[id].rid = r.uid]_vars

(* The tables and the outstanding request are an outbox (see GoogleSync),  *)
(* but one that may forget: once an event the app created was pushed, its  *)
(* identifier still begins with "local-", so its tombstone is discarded    *)
(* and the provider is never told (caldav.go:379).                         *)
EntryOf(row) ==
  [sent |-> ~NeverPushed(row), queued |-> row.dirty, gone |-> row.deleted]

EntriesOf == [id \in RowIds |-> IF id \in Present THEN EntryOf(events[id]) ELSE NoRow]

OfferOf ==
  IF flight = NoFlight THEN NoFlight ELSE [id |-> flight.id, gone |-> flight.row.deleted]

OutboxOf == INSTANCE Outbox WITH
  Ids <- RowIds, NoEntry <- NoRow, NoOffer <- NoFlight, MayForget <- TRUE,
  box <- EntriesOf, offered <- OfferOf

ASSUME OutboxAssumption ==
  /\ NoRow \notin OutboxOf!Entry
  /\ NoFlight \notin OutboxOf!Offers

ImplementsOutbox == OutboxOf!Spec

(* caldav.go:343-344: a locally created event echoed back after its push   *)
(* is an update, never an import.  (Refuted, first by a deletion that is   *)
(* not sent: caldav.go:379 takes the pushed event, local-<n>@bespoke, for  *)
(* one that iCloud never had and drops the row; the next pull imports what *)
(* was to be deleted.)                                                     *)
EchoNeverImported == \A uid \in imports : ~HasLocalPrefix(uid)

-----------------------------------------------------------------------------
(* The inductive invariant: what the worker relies on without testing it.  *)

(* A snapshot row is still the row it was taken from and still queued, up  *)
(* to the owner's edits, which never change the identifier nor take a      *)
(* deletion back.                                                          *)
StillThere(q) ==
  /\ q.id \in Queued
  /\ events[q.id].rid = q.row.rid
  /\ q.row.deleted => events[q.id].deleted

BatchIsLive ==
  /\ \A q \in batch : StillThere(q)
  /\ \A p, q \in batch : p.id = q.id => p = q
  /\ pc \notin {"push", "sent"} => batch = {}

FlightIsLive ==
  IF pc = "sent"
  THEN /\ flight \in Request
       /\ StillThere(flight)
       /\ \A q \in batch : q.id # flight.id
  ELSE flight = NoFlight

(* A calendar is being pulled, and nothing the app made carries a name     *)
(* that no push gives.                                                     *)
PullIsLive ==
  /\ pc \in {"fetch", "store"} => cal \in Calendars
  /\ \A r \in remote \cup page : HasLocalPrefix(r.uid) => r.uid.suffix > 0

(* Where the app's own events are at the provider, or may still be put: by *)
(* a row of the snapshot, or by a row that is queued.                      *)
Copies == {r \in remote : HasLocalPrefix(r.uid)}
Place(row) == <<row.cal, Uid(row.rid)>>
Places ==
  {<<r.cal, r.uid>> : r \in Copies}
    \cup {Place(q.row) : q \in {b \in batch : HasLocalPrefix(b.row.rid)}}
    \cup {Place(events[id]) : id \in {i \in Queued : HasLocalPrefix(events[i].rid)}}

(* A place is opened by a creation or an edit, never by a retry, and holds *)
(* one resource.                                                           *)
PlacesBounded ==
  /\ IsFiniteSet(Places)
  /\ Cardinality(Places) <= stamp + edits
  /\ \A r, t \in Copies : r.cal = t.cal /\ r.uid = t.uid => r = t

IInv ==
  /\ TypeOK
  /\ UnpushedStaysQueued
  /\ BatchIsLive
  /\ FlightIsLive
  /\ PullIsLive
  /\ PlacesBounded

-----------------------------------------------------------------------------
(* Liveness, under FairSpec                                                *)

(* A queued row that cannot be pushed, or whose push cannot be recorded.   *)
Blocked ==
  \E id \in Queued :
    \/ Refused(events[id])
    \/ ~events[id].deleted /\ Conflicts(id, Uid(events[id].rid))

(* Once the owner, the other clients and the faults come to rest, nothing  *)
(* stays queued, unless a row blocks the account: every creation, change   *)
(* and deletion of another client's event is answered for by the provider  *)
(* (only a reply takes it off the queue, see QueuedChangesRetained), and a *)
(* deletion of an event the app made is discarded, unsent.                 *)
QueueDrains == <>[](Queued = {} \/ Blocked)

(* Each parseable event of the provider has a row that says the same, or a *)
(* tombstone.                                                              *)
Arrived ==
  \A r \in remote : r.val \notin Malformed =>
    \E id \in Present :
      /\ Bound(id, r.cal, r.uid)
      /\ events[id].deleted \/ events[id].val = r.val

RemoteChangesArrive == <>[](Blocked \/ Arrived)

(* README.md:162: remote changes are pulled.  An event that was deleted at *)
(* the provider does not stay in the calendar as if it were there.         *)
NoGhosts ==
  \A id \in Present \ Queued :
    events[id].deleted \/ At(events[id].cal, events[id].rid) # {}

RemoteDeletionsArrive == <>[](Blocked \/ NoGhosts)
=============================================================================
