----------------------------- MODULE GoogleSync -----------------------------
(***************************************************************************)
(* Two-way synchronisation of one Google account (google.go), interleaved  *)
(* with the owner's edits, with other Google clients, and with lost        *)
(* replies, failed requests, timeouts and restarts of the app.             *)
(*                                                                         *)
(* One worker runs syncs one after the other (main.go:43-51).  A sync      *)
(*   push : takes the dirty rows (one SELECT, read through an open cursor, *)
(*          hence a snapshot), and for each sends a request and then       *)
(*          records its reply;                                             *)
(*   list : fetches the calendar list;                                     *)
(*   pull : for each calendar, fetches pages of events and stores each     *)
(*          item.                                                          *)
(* Between any two of these steps the owner's handlers and the provider    *)
(* may act.                                                                *)
(***************************************************************************)
EXTENDS EventStore

CONSTANTS
  Malformed,    \* contents whose times the app cannot parse
  NoEvent,      \* an unused provider identifier
  NoFlight,     \* no request is outstanding
  NoCalendar,   \* no calendar is being pulled
  MaxRemote,    \* bound: events ever created at the provider
  MaxFaults,    \* bound: aborted syncs
  MaxOutside    \* bound: changes made by other Google clients

VARIABLES
  remote,       \* remote[n]: the provider's event with identifier n
  access,       \* calendars the account may write, at the provider
  pc,           \* where the worker is
  batch,        \* snapshot rows still to push
  flight,       \* the snapshot row whose request was sent, and its reply
  todo,         \* listed calendars still to pull
  cal,          \* the calendar being pulled
  rest,         \* identifiers its remaining pages will list
  page,         \* items of the current page still to store
  synced,       \* last_sync_at is set
  first,        \* importPublisher.firstSync of the current sync
  imports,      \* identifiers published as calendar.event.imported
  moves,        \* edits of the owner that took an event to another calendar
  faults, outside

syncVars == <<pc, batch, flight, todo, cal, rest, page, synced, first, imports>>
vars == <<storeVars, remote, access, syncVars, moves, faults, outside>>

RemoteIds == 1..MaxRemote
RemoteEvent == [cal: Calendars, val: Contents, alive: BOOLEAN, by: {"app", "other"}]
Request == [id: RowIds, row: Row]
Flight == [id: RowIds, row: Row, saved: Rid]
Item == [n: RemoteIds, val: Contents, alive: BOOLEAN]

ASSUME GoogleAssumption ==
  /\ Malformed \subseteq Contents
  /\ MaxRemote \in Nat
  /\ MaxFaults \in Nat
  /\ MaxOutside \in Nat
  /\ NoEvent \notin RemoteEvent
  /\ NoFlight \notin Flight
  /\ NoCalendar \notin Calendars

TypeOK ==
  /\ StoreTypeOK
  /\ remote \in [RemoteIds -> RemoteEvent \cup {NoEvent}]
  /\ access \subseteq Calendars
  /\ pc \in {"idle", "push", "sent", "pull", "fetch", "store"}
  /\ batch \subseteq Request
  /\ flight \in Flight \cup {NoFlight}
  /\ todo \subseteq [cal: Calendars, mayWrite: BOOLEAN]
  /\ cal \in Calendars \cup {NoCalendar}
  /\ rest \subseteq RemoteIds
  /\ page \subseteq Item
  /\ synced \in BOOLEAN
  /\ first \in BOOLEAN
  /\ imports \subseteq RemoteIds
  /\ moves \in 0..edits
  /\ faults \in 0..MaxFaults
  /\ outside \in 0..MaxOutside

(* A freshly connected account: nothing is known of it locally.            *)
Init ==
  /\ StoreInit
  /\ remote = [n \in RemoteIds |-> NoEvent]
  /\ access = Calendars
  /\ pc = "idle" /\ batch = {} /\ flight = NoFlight
  /\ todo = {} /\ cal = NoCalendar /\ rest = {} /\ page = {}
  /\ synced = FALSE /\ first = TRUE /\ imports = {}
  /\ moves = 0 /\ faults = 0 /\ outside = 0

-----------------------------------------------------------------------------
(* The provider (external): what it answers to the requests google.go makes *)

Exists(n) == remote[n] # NoEvent

IsFresh(n) ==
  /\ n \in RemoteIds
  /\ ~Exists(n)
  /\ \A m \in RemoteIds : m < n => Exists(m)

(* PUT and DELETE address calendars/{cal}/events/{rid}: any other event is *)
(* a non-2xx answer, and so is a write to a calendar without write access. *)
Addresses(row, n) ==
  /\ n \in RemoteIds
  /\ row.rid = ProviderRid(n)
  /\ Exists(n)
  /\ remote[n].alive
  /\ remote[n].cal = row.cal

MayWrite(row) == row.cal \in access

ProviderInserts(row, n) ==
  /\ MayWrite(row)
  /\ IsFresh(n)
  /\ remote' = [remote EXCEPT ![n] =
       [cal |-> row.cal, val |-> row.val, alive |-> TRUE, by |-> "app"]]

ProviderReplaces(row, n) ==
  /\ MayWrite(row)
  /\ Addresses(row, n)
  /\ remote' = [remote EXCEPT ![n].val = row.val]

ProviderDeletes(row, n) ==
  /\ MayWrite(row)
  /\ Addresses(row, n)
  /\ remote' = [remote EXCEPT ![n].alive = FALSE]

(* Other Google clients create, edit and cancel events and change the      *)
(* account's role on a calendar.                                           *)
OutsideStep ==
  /\ outside < MaxOutside
  /\ outside' = outside + 1
  /\ \/ /\ \E n \in RemoteIds, c \in Calendars, v \in Contents :
             /\ IsFresh(n)
             /\ remote' = [remote EXCEPT ![n] =
                  [cal |-> c, val |-> v, alive |-> TRUE, by |-> "other"]]
        /\ UNCHANGED access
     \/ /\ \E n \in RemoteIds, v \in Contents :
             /\ Exists(n) /\ remote[n].alive
             /\ remote' = [remote EXCEPT ![n].val = v]
        /\ UNCHANGED access
     \/ /\ \E n \in RemoteIds :
             /\ Exists(n) /\ remote[n].alive
             /\ remote' = [remote EXCEPT ![n].alive = FALSE]
        /\ UNCHANGED access
     \/ /\ \E c \in Calendars :
             access' = IF c \in access THEN access \ {c} ELSE access \cup {c}
        /\ UNCHANGED remote
  /\ UNCHANGED <<storeVars, syncVars, moves, faults>>

-----------------------------------------------------------------------------
(* The worker                                                              *)

EndSync ==
  /\ pc' = "idle" /\ batch' = {} /\ flight' = NoFlight
  /\ todo' = {} /\ cal' = NoCalendar /\ rest' = {} /\ page' = {}
  /\ first' = TRUE

(* Sync reads the account row; pushGoogle runs its SELECT ... dirty=1.      *)
SyncStart ==
  /\ pc = "idle"
  /\ pc' = "push"
  /\ batch' = {[id |-> i, row |-> events[i]] : i \in Queued}
  /\ first' = ~synced
  /\ UNCHANGED <<storeVars, remote, access, flight, todo, cal, rest, page, synced,
                 imports, moves, faults, outside>>

NeverPushed(row) == HasLocalPrefix(row.rid)

(* A tombstone the provider never heard of is deleted without a request.   *)
PushDropsLocal(q) ==
  /\ pc = "push"
  /\ q.row.deleted /\ NeverPushed(q.row)
  /\ DropRow(q.id)
  /\ batch' = batch \ {q}
  /\ UNCHANGED <<calendars, stamp, edits, remote, access, pc, flight, todo, cal, rest,
                 page, synced, first, imports, moves, faults, outside>>

(* Mutant: the row is not taken off the snapshot. *)
PushSendsAgain(q) ==
  /\ pc = "push"
  /\ ~q.row.deleted /\ NeverPushed(q.row)
  /\ \E n \in RemoteIds :
       /\ ProviderInserts(q.row, n)
       /\ flight' = [id |-> q.id, row |-> q.row, saved |-> ProviderRid(n)]
  /\ pc' = "sent"
  /\ UNCHANGED <<storeVars, access, batch, todo, cal, rest, page, synced, first,
                 imports, moves, faults, outside>>

(* POST a new event, PUT a changed one, DELETE a tombstone: the provider   *)
(* acts on what the snapshot said.                                         *)
PushSends(q) ==
  /\ pc = "push"
  /\ \/ /\ ~q.row.deleted /\ NeverPushed(q.row)
        /\ \E n \in RemoteIds :
             /\ ProviderInserts(q.row, n)
             /\ flight' = [id |-> q.id, row |-> q.row, saved |-> ProviderRid(n)]
     \/ /\ ~NeverPushed(q.row)
        /\ \E n \in RemoteIds :
             IF q.row.deleted THEN ProviderDeletes(q.row, n) ELSE ProviderReplaces(q.row, n)
        /\ flight' = [id |-> q.id, row |-> q.row, saved |-> q.row.rid]
  /\ batch' = batch \ {q}
  /\ pc' = "sent"
  /\ UNCHANGED <<storeVars, access, todo, cal, rest, page, synced, first, imports,
                 moves, faults, outside>>

(* The provider answers non-2xx: pushGoogle returns the error and the sync *)
(* is over, before anything else is pushed or pulled.                      *)
Refused(row) ==
  /\ ~(row.deleted /\ NeverPushed(row))
  /\ \/ ~MayWrite(row)
     \/ ~NeverPushed(row) /\ \A n \in RemoteIds : ~Addresses(row, n)

PushRefused(q) ==
  /\ pc = "push"
  /\ Refused(q.row)
  /\ EndSync
  /\ UNCHANGED <<storeVars, remote, access, synced, imports, moves, faults, outside>>

(* Mutant: whether the row goes is read when the reply arrives. *)
RecordAsOfNow ==
  /\ pc = "sent"
  /\ IF events[flight.id].deleted
     THEN DropRow(flight.id)
     ELSE MarkPushed(flight.id, flight.saved)
  /\ flight' = NoFlight
  /\ pc' = "push"
  /\ UNCHANGED <<calendars, stamp, edits, remote, access, batch, todo, cal, rest, page,
                 synced, first, imports, moves, faults, outside>>

(* The reply is recorded: the row goes, or takes the provider's identifier *)
(* and becomes clean, whatever it says by now.                             *)
RecordReply ==
  /\ pc = "sent"
  /\ IF flight.row.deleted
     THEN DropRow(flight.id)
     ELSE MarkPushed(flight.id, flight.saved)
  /\ flight' = NoFlight
  /\ pc' = "push"
  /\ UNCHANGED <<calendars, stamp, edits, remote, access, batch, todo, cal, rest, page,
                 synced, first, imports, moves, faults, outside>>

ListCalendars ==
  /\ pc = "push" /\ batch = {}
  /\ todo' = {[cal |-> c, mayWrite |-> c \in access] : c \in Calendars}
  /\ pc' = "pull"
  /\ UNCHANGED <<storeVars, remote, access, batch, flight, cal, rest, page, synced,
                 first, imports, moves, faults, outside>>

PullCalendar(t) ==
  /\ pc = "pull"
  /\ UpsertCalendar(t.cal, t.mayWrite)
  /\ todo' = todo \ {t}
  /\ cal' = t.cal
  /\ rest' = {n \in RemoteIds : Exists(n) /\ remote[n].cal = t.cal}
  /\ pc' = "fetch"
  /\ UNCHANGED <<events, stamp, edits, remote, access, batch, flight, page, synced,
                 first, imports, moves, faults, outside>>

(* One page: some of the identifiers still to be listed, as they are now.  *)
FetchPage ==
  /\ pc = "fetch"
  /\ \E ns \in SUBSET rest :
       /\ ns = {} => rest = {}
       /\ page' = {[n |-> n, val |-> remote[n].val, alive |-> remote[n].alive] : n \in ns}
       /\ rest' = rest \ ns
  /\ pc' = "store"
  /\ UNCHANGED <<storeVars, remote, access, batch, flight, todo, cal, synced, first,
                 imports, moves, faults, outside>>

(* One item of the page: cancelled, unparseable, known or never seen.      *)
StoreItem(it) ==
  /\ pc = "store"
  /\ page' = page \ {it}
  /\ \/ /\ ~it.alive
        /\ events' = [id \in RowIds |->
             IF Bound(id, cal, ProviderRid(it.n)) /\ ~events[id].dirty
             THEN NoRow ELSE events[id]]
        /\ UNCHANGED imports
     \/ /\ it.alive /\ it.val \in Malformed
        /\ UNCHANGED <<events, imports>>
     \/ /\ it.alive /\ it.val \notin Malformed
        /\ RefreshKnown(cal, ProviderRid(it.n), it.val)
        /\ UNCHANGED imports
     \/ /\ it.alive /\ it.val \notin Malformed
        /\ InsertUnknown(cal, ProviderRid(it.n), it.val)
        /\ imports' = IF first THEN imports ELSE imports \cup {it.n}
  /\ UNCHANGED <<calendars, stamp, edits, remote, access, pc, batch, flight, todo, cal,
                 rest, synced, first, moves, faults, outside>>

(* Mutant: the calendar is forgotten between two pages. *)
PageForgetsCalendar ==
  /\ pc = "store" /\ page = {}
  /\ pc' = IF rest = {} THEN "pull" ELSE "fetch"
  /\ cal' = NoCalendar
  /\ UNCHANGED <<storeVars, remote, access, batch, flight, todo, rest, page, synced,
                 first, imports, moves, faults, outside>>

(* nextPageToken decides between another page and the next calendar.       *)
PageDone ==
  /\ pc = "store" /\ page = {}
  /\ pc' = IF rest = {} THEN "pull" ELSE "fetch"
  /\ cal' = IF rest = {} THEN NoCalendar ELSE cal
  /\ UNCHANGED <<storeVars, remote, access, batch, flight, todo, rest, page, synced,
                 first, imports, moves, faults, outside>>

SyncDone ==
  /\ pc = "pull" /\ todo = {}
  /\ EndSync
  /\ synced' = TRUE
  /\ UNCHANGED <<storeVars, remote, access, imports, moves, faults, outside>>

(* A request fails or its reply is lost, the 3-minute context expires, or  *)
(* the app restarts.  The provider has already acted on a request in flight. *)
SyncAborts ==
  /\ pc # "idle"
  /\ faults < MaxFaults
  /\ faults' = faults + 1
  /\ EndSync
  /\ UNCHANGED <<storeVars, remote, access, synced, imports, moves, outside>>

WorkerStep ==
  \/ SyncStart
  \/ \E q \in batch : PushDropsLocal(q) \/ PushSends(q) \/ PushRefused(q)
  \/ RecordReply
  \/ ListCalendars
  \/ \E t \in todo : PullCalendar(t)
  \/ FetchPage
  \/ \E it \in page : StoreItem(it)
  \/ PageDone
  \/ SyncDone

OwnerActs ==
  /\ OwnerStep(Contents \ Malformed)
  /\ moves' = IF \E id \in Present \cap Present' : events'[id].cal # events[id].cal
              THEN moves + 1 ELSE moves
  /\ UNCHANGED <<remote, access, syncVars, faults, outside>>

Next == OwnerActs \/ WorkerStep \/ SyncAborts \/ OutsideStep

Spec == Init /\ [][Next]_vars

(* The worker goroutine runs, and the ten-minute poller keeps queueing the *)
(* account.  Nothing is assumed of the owner, of other clients or of faults. *)
FairSpec == Spec /\ WF_vars(WorkerStep)

-----------------------------------------------------------------------------
(* Safety                                                                  *)

(* An event the owner created and no sync has pushed yet is still queued:  *)
(* whatever the owner, the pull, a failure or a restart did since, its row *)
(* is dirty.  A row that lost `dirty` before it lost its local identifier  *)
(* would never be sent (google.go:273 selects dirty rows only).            *)
UnpushedStaysQueued ==
  \A id \in Present : HasLocalPrefix(events[id].rid) => events[id].dirty

(* Recording a reply never meets UNIQUE(calendar_id, remote_id): no other  *)
(* row of the calendar the row is in by then has the provider's identifier *)
(* (google.go:321 would fail, and fail again on every later sync).         *)
ReplyNeverConflicts ==
  pc = "sent" /\ ~flight.row.deleted =>
    /\ flight.id \in Present
    /\ \A other \in Present \ {flight.id} :
         ~Bound(other, events[flight.id].cal, flight.saved)

(* Queued work is retained (README.md:163): a dirty row changes or goes    *)
(* only by an edit of the owner, by the reply to its own request, or, if   *)
(* the provider never heard of it, as a tombstone.  No pull, failed push,  *)
(* timeout or restart touches it.                                          *)
QueuedWorkRetained ==
  [][\A id \in Queued :
       events'[id] # events[id] =>
         \/ edits' = edits + 1
         \/ pc = "sent" /\ flight.id = id
         \/ events[id].deleted /\ HasLocalPrefix(events[id].rid)]_vars

AppMade == {n \in RemoteIds : Exists(n) /\ remote[n].by = "app"}

(* A created event reaches the provider once, and once more at most for    *)
(* every sync that was cut off between the POST and its record.            *)
CopiesBoundedByFaults == Cardinality(AppMade) <= stamp + faults

(* README.md:75-77 and google.go:257-258: a locally created event echoed   *)
(* back after its push never fires an import.                              *)
EchoNeverImported == AppMade \cap imports = {}

(* What holds of the promise of EchoNeverImported: the pull announces a    *)
(* copy the app itself made at most once for each sync that was cut off    *)
(* and each time the owner took an event to another calendar.  No other    *)
(* edit, deletion, refusal or change by other clients makes an echo.       *)
EchoesBounded == Cardinality(AppMade \cap imports) <= faults + moves

(* The tables and the outstanding request are an outbox: queued work comes *)
(* in by the owner alone, is offered to the provider as what it then is,   *)
(* and leaves the queue by the answer to its own offer or, if it was never *)
(* sent, as a tombstone.  A pull, a refused push, a timeout or a restart   *)
(* is a step of the outbox that leaves every queued entry alone.           *)
EntryOf(row) ==
  [sent |-> ~NeverPushed(row), queued |-> row.dirty, gone |-> row.deleted]

EntriesOf == [id \in RowIds |-> IF id \in Present THEN EntryOf(events[id]) ELSE NoRow]

OfferOf ==
  IF flight = NoFlight THEN NoFlight ELSE [id |-> flight.id, gone |-> flight.row.deleted]

OutboxOf == INSTANCE Outbox WITH
  Ids <- RowIds, NoEntry <- NoRow, NoOffer <- NoFlight, MayForget <- FALSE,
  box <- EntriesOf, offered <- OfferOf

ASSUME OutboxAssumption ==
  /\ NoRow \notin OutboxOf!Entry
  /\ NoFlight \notin OutboxOf!Offers

ImplementsOutbox == OutboxOf!Spec

(* README.md:162-163: sync pushes locally queued mutations.  A reply that  *)
(* clears `dirty` must be the reply to what the row says at that moment.   *)
CleanedRowWasSent ==
  [][\A id \in Present :
       pc = "sent" /\ flight.id = id =>
         /\ events[id].val = flight.row.val
         /\ events[id].deleted = flight.row.deleted
         \/ events'[id] = events[id]]_vars

-----------------------------------------------------------------------------
(* The inductive invariant: what the worker relies on without testing it.  *)

(* The UNIQUE(calendar_id, remote_id) constraint is never the reason a     *)
(* statement fails: the statements keep it by themselves.                  *)
UniqueKeys ==
  \A i, j \in Present :
    events[i].cal = events[j].cal /\ events[i].rid = events[j].rid => i = j

(* Every identifier in a row was minted: locally, or by the provider.      *)
MintedRids ==
  \A id \in Present : LET rid == events[id].rid IN
    /\ rid.suffix = 0
    /\ rid.origin = "local" => rid.n <= stamp
    /\ rid.origin = "provider" => rid.n \in RemoteIds /\ Exists(rid.n)

(* A snapshot row is still the row it was taken from and still queued, up  *)
(* to the owner's edits, which never change the identifier nor take a      *)
(* deletion back.                                                          *)
StillThere(q) ==
  /\ q.id \in Queued
  /\ events[q.id].rid = q.row.rid
  /\ q.row.deleted => events[q.id].deleted

BatchIsLive ==
  /\ \A q \in batch : StillThere(q)
  /\ \A p, q \in batch : p.id = q.id => p = q
  /\ pc \notin {"push", "sent"} => batch = {}

(* The outstanding request, and what its reply will put into the row.      *)
FlightIsLive ==
  IF pc = "sent"
  THEN /\ flight \in Flight
       /\ StillThere(flight)
       /\ \A q \in batch : q.id # flight.id
       /\ \/ flight.saved = flight.row.rid /\ ~HasLocalPrefix(flight.row.rid)
          \/ /\ \E n \in RemoteIds : flight.saved = ProviderRid(n) /\ Exists(n)
             /\ \A id \in Present : events[id].rid # flight.saved
             /\ ~flight.row.deleted
  ELSE flight = NoFlight

(* What the pull works on exists at the provider.                          *)
PullIsLive ==
  /\ pc \in {"fetch", "store"} => cal \in Calendars
  /\ \A n \in rest : Exists(n)
  /\ \A it \in page : Exists(it.n)

IInv ==
  /\ TypeOK
  /\ UniqueKeys
  /\ MintedRids
  /\ UnpushedStaysQueued
  /\ BatchIsLive
  /\ FlightIsLive
  /\ PullIsLive

(* What is counted of the events the app made at the provider.  A local    *)
(* event that is not in flight will be made there once more.               *)
InFlight(id) == pc = "sent" /\ flight.id = id
Unsent == {id \in Present : HasLocalPrefix(events[id].rid) /\ ~InFlight(id)}

CopiesCounted == Cardinality(AppMade) + Cardinality(Unsent) <= stamp + faults

(* The pull knows an event if a row of its calendar has its identifier, or *)
(* will when the reply is recorded.                                        *)
Identity(id) == IF InFlight(id) THEN flight.saved ELSE events[id].rid

Homed(n) ==
  \E id \in Present : events[id].cal = remote[n].cal /\ Identity(id) = ProviderRid(n)

(* The pull may yet list the event, or has listed it.                      *)
Listed(n) == remote[n].alive \/ \E it \in page : it.n = n /\ it.alive

(* The app's own events that were published as imports, or may yet be, and *)
(* the rows that will be made in a calendar the owner moved them from.     *)
Echoes == {n \in AppMade : n \in imports \/ (Listed(n) /\ ~Homed(n))}
Strays == {id \in RowIds :
             \E q \in batch : q.id = id /\ NeverPushed(q.row) /\ events[id].cal # q.row.cal}

EchoesCounted == Cardinality(Echoes) + Cardinality(Strays) <= faults + moves

(* A page lists events of the calendar being pulled, each one once, and a  *)
(* cancelled one never comes back; what was imported or deleted was there. *)
PageMatches ==
  /\ \A n \in rest : remote[n].cal = cal
  /\ \A it \in page :
       /\ remote[it.n].cal = cal
       /\ it.alive \/ ~remote[it.n].alive
       /\ \A other \in page : other.n = it.n => other = it
  /\ page # {} => pc = "store"

DeletedIsDead ==
  pc = "sent" /\ flight.row.deleted =>
    \E n \in RemoteIds : flight.saved = ProviderRid(n) /\ Exists(n) /\ ~remote[n].alive

ImportsExist == \A n \in imports : Exists(n)

CountInv ==
  /\ PageMatches
  /\ DeletedIsDead
  /\ ImportsExist
  /\ CopiesCounted
  /\ EchoesCounted

-----------------------------------------------------------------------------
(* Liveness, under FairSpec                                                *)

(* A queued row that the provider will refuse whenever it is pushed.       *)
Blocked == \E id \in Queued : Refused(events[id])

(* Once the owner, the other clients and the faults come to rest, every    *)
(* queued mutation is pushed, unless one of them is refused (and then it   *)
(* blocks the whole account: pushGoogle returns at the first error).       *)
QueueDrains == <>[](Queued = {} \/ Blocked)

(* Each parseable live event of the provider has a row that says the same  *)
(* or is a tombstone.                                                      *)
AllPulled ==
  \A n \in RemoteIds :
    Exists(n) /\ remote[n].alive /\ remote[n].val \notin Malformed =>
      \E id \in Present :
        /\ Bound(id, remote[n].cal, ProviderRid(n))
        /\ events[id].deleted \/ events[id].val = remote[n].val

(* The rows the owner sees and nothing is queued for.                      *)
Shown == {id \in Present \ Queued : ~events[id].deleted}

(* The row stands for a live event of its calendar.                        *)
AtHome(id) ==
  \E n \in RemoteIds :
    /\ Exists(n) /\ remote[n].alive
    /\ Bound(id, remote[n].cal, ProviderRid(n))

(* The row has the identifier of an event of another calendar.             *)
Astray(id) ==
  \E n \in RemoteIds :
    /\ Exists(n) /\ remote[n].cal # events[id].cal
    /\ events[id].rid = ProviderRid(n)

(* README.md:162-163: remote changes are pulled and local ones pushed.     *)
(* Once everyone is at rest, and unless a push is refused, everything the  *)
(* provider has is in the local view as the provider has it, and all that  *)
(* is shown stands for something the provider has in the same calendar.    *)
(* Not so a row the owner moved while its push was outstanding:            *)
(* google.go:321 marks it clean where it then is, and it stays there (the  *)
(* move behind EchoNeverImported).                                         *)
Converges ==
  <>[](Blocked \/ (AllPulled /\ \A id \in Shown : AtHome(id) \/ Astray(id)))
=============================================================================
