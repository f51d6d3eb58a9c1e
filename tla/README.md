# Verification of the Bespoke Calendar app

TLA+ models of the calendar app in `src/`, the TLC configurations that check
them, and TLAPS proofs. Line numbers refer to the sources in `src/`.

## The system

One Go process serves a few owners. It keeps an SQLite database, talks to Google
and iCloud, and publishes domain events to the platform.

| Component | State | Operations | Talks to |
|---|---|---|---|
| Event store (`data.go`, `migrations/`) | tables `calendars`, `events` with `dirty`, `deleted`, `remote_id` | create, update, delete by form or tool; statements of the syncs | everything below |
| Google sync (`google.go`) | nothing of its own between syncs | push dirty rows, list calendars, pull pages | store, Google API, import publisher |
| iCloud sync (`caldav.go`) | nothing of its own between syncs | discover, push by PUT/DELETE, pull by REPORT | store, CalDAV server, import publisher |
| Accounts (`google.go`, `caldav.go`, `main.go`) | table `accounts`: provider, credential, status, `last_sync_at` | connect, renew, disconnect | queue, vault, platform events |
| OAuth states (`google.go:51-120`) | table `oauth_states` | begin, finish (consume), exchange | accounts, Google |
| Queue and worker (`main.go:42-59`, `sync.go`) | a channel of 32 requests; one goroutine | non-blocking offer; `Sync` under 3 minutes | accounts, both syncs |
| Poller (`main.go:226-243`) | a ticker of 10 minutes | offers every account, longest unsynced first | queue |
| Import publisher (`events.go`) | per sync: first sync?, notifications so far | `imported` | platform events |
| Credential vault (`credentials.go`) | AES-GCM key | seal, open | accounts |
| Calendar selection (`main.go:119-146`) | `calendars.selected` | one transaction | views |
| Views, search, chat, dashboard (`main.go`, `data.go`, `views/`) | the page in the browser | queries by ranges of instants and dates; forms, links, live updates | store |
| Tools (`tools.go`) | none | the store's and the queue's operations | store, queue |
| iCalendar text (`caldav.go:229-333, 416-437`) | none | `buildICS`, `parseICS`, escaping | iCloud sync |

What is hard here: one worker runs syncs while HTTP handlers change the same
rows; a sync works on rows it read earlier and writes by id; the provider acts
on requests whose replies may be lost; a sync may be cut off anywhere by its
deadline or by a restart; the queue drops requests when full; row ids are given
out again; an authorization comes back through a browser, late, twice or in
another owner's session; a page in the browser is older than the tables; days
are ranges of instants in one place and dates in another, and the clocks are
changed twice a year. What makes each part correct:

- store and syncs: queued work is neither lost nor overwritten, retries do not
  multiply events, the local view and the provider's come to agree;
- accounts and worker: every account is served again and again, no status is
  stuck, notifications are published neither too often nor for the wrong account;
- authorizations: one gives one account, to the owner who began it;
- pages: each shows what happens on its days, none falls between two pages,
  links open what they show, and saving a form does not shift an event;
- iCalendar text: what is written reads back;
- publisher: only events other clients made are announced, none in a first
  sync, and an account's events tell what happened to it.

`PROJECT.json` lists the hazards line by line with the properties aimed at them.

## Modules

    Outbox                     what a sync promises: queued, offered, answered
    EventStore                 the two tables and every statement on them
      <- EventStoreProofs      lemmas about the statements, for both syncs
      <- GoogleSync            worker, Google, other clients, owner   (=> Outbox)
           <- MCGoogleSync, GoogleSyncProofs
      <- CalDAVSync            worker, CalDAV server, other clients, owner (=> Outbox)
           <- MCCalDAVSync, CalDAVSyncProofs
    SyncLifecycle              accounts, queue, poller, worker, tool, vault
           <- MCSyncLifecycle, SyncLifecycleProofs
    Connections                authorizations, account forms and their events
           <- MCConnections, ConnectionsProofs
    Dates                      instants, the zone, days, weeks, months, ranges
      <- DatesProofs
      <- ICalendar             escaping, buildICS, parseICS
           <- ICalendarProofs
      <- EventViews            the queries and what each view shows
           <- CalendarPages    the owner's tab, forms, tools, syncs, the clock
                <- MCCalendarPages, CalendarPagesProofs

**EventStore.** `events[id]` is the row with that id, `calendars[c]` says whether
a calendar is known and writable. The fields no statement tests (title, times,
recurrence) are one value `val`. A `remote_id` is a record: `local-<n>` with
`@bespoke` appended `suffix` times, or an identifier minted elsewhere. Each SQL
statement is one step (SQLite serialises writers); the operators `RefreshKnown`,
`InsertUnknown`, `MarkPushed`, `DropRow`, `UpsertCalendar` are the statements the
syncs are made of. Row ids are the largest plus one (`INTEGER PRIMARY KEY`
without AUTOINCREMENT). `stamp` counts creations and stands for `UnixNano`, taken
to be distinct.

**GoogleSync.** One account. `pc` follows the worker: `SyncStart` takes the
snapshot of dirty rows (a SELECT whose cursor stays open: SQLite gives it a
snapshot in WAL mode, which `db.Open`, outside this repository, is taken to
set, with more than one connection and foreign keys on), `PushSends` is the
request and `RecordReply` the UPDATE or DELETE after it, `ListCalendars`,
`PullCalendar`, `FetchPage`, `StoreItem`, `PageDone` the pull. `SyncAborts` is a
failed request, a lost reply, the deadline or a restart; whatever the provider
has done stays done. The provider is external: POST makes an event with a fresh
identifier; PUT and DELETE work on a live event of the addressed calendar with
write access and are refused otherwise. Only the snapshot row and its reply are
kept between steps, as in the code. `moves` counts, of the owner's edits, those
that take an event to another calendar.

**CalDAVSync.** The same for iCloud. It lists calendars before it pushes,
chooses UIDs itself (`Uid`, with the prefix test of `caldav.go:373`), writes at
`<calendar>/<UID>.ics` whatever a resource is called (`named`), and reads whole
calendars that say nothing of events gone. `Flat` is what a content becomes by
`buildICS` and `parseICS`. A push whose UPDATE would break UNIQUE is
`ReplyConflicts`.

**Outbox.** The abstract specification of both syncs. An entry is sent or not,
queued or not, gone or not. Only the answer to its own offer takes an entry off
the queue, a cancellation is offered for cancelled entries only, what comes in
adds entries or withdraws unqueued ones, and an entry is discarded unsent only if
the provider never had it. The mapping: a row is an entry (`EntryOf`: sent if its
identifier is not the local one), the request under way is the offer (`OfferOf`).
Google implements it as it stands; iCloud only with `MayForget`, since the tombstone
of an event that was pushed is dropped unsent (`caldav.go:379`; see caldav_echo).

**SyncLifecycle.** Accounts with their status, credential and provider; `calls`
are handlers between finding an account and offering it to the queue; `tool` is
what a `sync_accounts` call has still to offer, given up at the first busy answer;
`poll` is the rest of a tick; `sync` is the copy of the row that `Sync` reads at its
start and keeps using. A credential carries the key it was sealed under and opens
under no other; a process may be started with another key or without one, and a sync
that cannot open its credential ends before it writes anything. What a sync does
to events is left out; it stores data (`holds` says whose), publishes imports,
fails or succeeds. `recency` orders accounts by `last_sync_at`, taken to have no ties.

**Connections.** `oauth_states` with its expiry, the codes Google still honours, the
answers browsers may bring back any number of times under any login, and handlers
that take one step per statement or call: `Callback` consumes the state and compares
its login, `Exchange` trades the code and asks whose it is, `Store` is the upsert of
`accounts` (also of the iCloud form), `PublishAccountConnected` reads the row by id
for its event; `Disconnect` reads, `Delete` deletes, `PublishEvent` publishes. A
browser may give up at any point (`Abandon`), the process may be started anew, with or
without its key and its Google client (`ready`), and a settings page may be older
than both.

**Dates.** An instant is a number of slots in UTC, `Minute` of them to a minute, a
date the number of its day, a month the date it begins on. The zone has one stretch of
summer time. `FromWall` is Go's rule for local times that occur twice or not at all,
`Clock` what a `datetime-local` field has room for: the local time cut to the minute.
`DateRange`, `EndOfDay`, `WeekDays`, `MonthDays`, `NavDate` are the functions of the
code over these.

**ICalendar.** Texts are sequences of the characters that escaping, trimming and
browsers tell apart; objects are sequences of unfolded lines. A time has a `VALUE`
or a `TZID`: dates, UTC, another zone, and `VALUE=DATE-TIME`, which `parseICS` takes
for a date and keeps as it stands, a string that sorts after every date of its year.

**EventViews, CalendarPages.** `LoadEvents` selects, orders and limits as the query
does; `AgendaList`, `TimeGrid`, `MonthGrid` are what the templates show of it.
`CalendarPages` is one browser tab: the list it shows and links to, the form it
carries, replaced by following a link, by a redirect, or, the list only, by a live
update. Syncs, tools and the clock go on behind it. An object another client wrote
arrives through `ParseICS` and `StoredFields`. Nothing goes from a row through a form
and back as it is: a time is shown to the minute and without its zone (`EventValue`),
an all-day event shows no dates at all but twice the first minute of the year 1; a
browser takes line breaks out of a field of one line and sends CR LF for every other (`Sent`);
titles and descriptions are trimmed before they are validated and stored (`Trim`).

Operators whose comment begins with *Mutant* are plausible bugs; each is put in
the place of the definition after it to show that a property can fail. They are
part of no specification.

## Runs

| Run | Checks | Shows |
|---|---|---|
| google | `TypeOK IInv CountInv UnpushedStaysQueued ReplyNeverConflicts CopiesBoundedByFaults EchoesBounded`, `QueuedWorkRetained ImplementsOutbox QueueDrains Converges` | in every interleaving of one creation, one edit (or move, or deletion), one outside change and one cut-off sync, queued work is kept, replies never conflict, a copy needs a lost reply, an import of the app's own event a lost reply or a move, and the outbox is implemented; once the outside is at rest, everything is pushed and both sides agree, or a refused mutation blocks the account; excepted is a row moved during its push (see google_echo) |
| caldav | `TypeOK IInv UnpushedStaysQueued CopiesBoundedByEdits`, `QueuedChangesRetained ImplementsOutbox OthersUntouched QueueDrains RemoteChangesArrive` | retried creations make no copies, however many syncs are cut off; what is queued is kept, but for deletions of the app's own events (see caldav_echo); other clients' events change only by a queued edit; the queue drains and the provider's events arrive, one way only (see caldav_ghost) |
| lifecycle_safety | `TypeOK IInv AlarmsBounded ErrorWasAnnounced SyncingIsLive`, `FirstSyncSuppressed` | two accounts of either kind, without disconnections: an outage is announced, and alarms are bounded by renewals, restarts and unrecorded successes; `syncing` is the worker's; first syncs are silent, also after failures |
| lifecycle_liveness | `EveryAccountServed`, `SyncingEnds` | two accounts, one may be disconnected and its id reused, a restart with or without the key: each connected account whose credential opens is synced again and again, and none shows `syncing` for ever |
| connections | `TypeOK AuthorizedOnce AuthorizedByOwner EventsTellWhatHappened` | an authorization gives one account to the owner who began it, and each connection and disconnection is told once |
| pages | `TypeOK PagesShowTheirDays PagesTile DashboardLeadsAgenda WrittenTextReadsBack`, `ClickOpensEvent SavingKeepsEvent` | days, weeks and months show what happens on them and follow without a gap; the dashboard agrees with the agenda; links, also those of a search, open their events; saving a form as it was shown changes nothing that a form can show; text written for iCloud reads back |

Six runs end in a violation. Each states what a document or comment says and
finds what the code does; `findings` in `PROJECT.json` quotes both sides.

| Run | Violated | The code |
|---|---|---|
| google_lost_edit | `CleanedRowWasSent` | `google.go:321` clears `dirty` by id: an edit or deletion made while the push was under way is never sent |
| google_echo | `EchoNeverImported` | `google.go:260` looks for the row in the calendar that is pulled: the echo of an event moved during its push is stored and published as an import. The row, clean by then, stays in a calendar where Google has no such event |
| caldav_echo | `EchoNeverImported` | `caldav.go:379` takes `local-<n>@bespoke` for an event that was never pushed: its deletion is dropped without a request, and the event returns as an import. By the same test (`caldav.go:373`) an edit makes a second resource, and the first returns as an import beside it |
| caldav_ghost | `RemoteDeletionsArrive` | the iCloud pull removes nothing: events deleted elsewhere stay |
| lifecycle_outage | `OncePerOutage` | a restart during a sync hides the previous `error`, and the same outage is published again |
| lifecycle_mixed | `HoldsOwnData` | a sync whose account was disconnected stores its calendars under the account that gets the id next |

The escape `Blocked` in the liveness properties is what the code does: the push
returns at the first error, before anything else is pushed or pulled
(`google.go:318-320`, `caldav.go:406-412`). An event moved after it was pushed, a
deletion whose reply was lost, a calendar that lost write access, and (iCloud) an
identifier another row has, each block the account until the owner undoes them.

Other exceptions say what the code leaves open. `EchoesBounded`: an import of the
app's own event is allowed for each lost reply and each move, of which google_echo shows
the latter without any fault. `Converges`: a row that was moved while its push was
outstanding (`Astray`), the one google_echo ends with. `QueuedChangesRetained`
and `QueueDrains`, iCloud: the deletion of an event the app made is discarded
(`LocalTombstone`), as caldav_echo shows. `ErrorWasAnnounced`: a restart between
the status and the publication loses the notification for good. `EventsTellWhatHappened`:
an account removed while another handler works on it may be told of by the name of
the account that has its id next (`events.go:55`). `ClickOpensEvent`: a live update puts the
agenda into every view, and links keep the view and the date of the page they are
on; an agenda is asked for from now on, so as time passes an event may end, or an
all-day one that comes within the three months may push another beyond the limit; and a
search finds events of the past, which are on no agenda, so that its link opens the form
of a new event (README.md:190 of the repository promises deep links).
`SavingKeepsEvent`: each text is kept that has no white space at its ends
and the line breaks of a browser, each pair of times that are whole minutes and do not occur
twice; others become what the form made of them. A recurrence is not kept: the form never
shows one and sends "Does not repeat" (README.md:160-161 has edits apply to the series). The
form of an all-day event cannot be saved at all, since it shows the same time of the year 1
twice. `DashboardLeadsAgenda`: the all-day
events of `Early`, which a date's comparison with instants in UTC (`data.go:100`) puts
before what is left of today, and which do not occur at or east of UTC; with them, only
while the agenda is not cut off by the limit. `PagesShowTheirDays`: only events
that last are expected (an object without DTEND has an empty end and matches no
range), and a month page knows nothing of the days around the month.

### Bounds

Every bound is a constant in the guards. google has two calendars (a move
needs two), two contents (a stale one must differ), one creation, one owner edit,
one outside change, one abort; three provider events are enough for a copy and
one more, and four rows for every event and a duplicate. Every hazard listed for
the syncs takes at most one of each. caldav has a second edit (it takes two for
a reply to meet a conflict), a second abort, as its claim is about retries, and a
content that cannot be parsed; `MaxUpsets` allows any three of its two edits, two
aborts and one outside change in a behaviour. google has such a content, too. Of the
violations of the syncs, each has the one edit it takes and no faults; what is violated is
not owed to a lost reply. lifecycle_safety has two accounts, of either kind,
competing for a queue of one, and two connections, so that one account may be
renewed, with its own provider or the other; `MaxAlarms` exceeds every value
`AlarmsBounded` allows, and `MaxUpsets` any two of a request or a call of the tool, a
restart and an unrecorded success (8 million states); the two addresses are interchangeable (SYMMETRY, under which
only safety is checked). lifecycle_liveness has a queue of two, and neither requests nor
calls of the tool: with one more offer to the queue the run holds too, but takes five
minutes. Unrecorded successes are left to lifecycle_safety.
`CHECK_DEADLOCK FALSE` stands only where disconnecting the last account leaves
nothing to do.

`IInv` and `CountInv` are the inductive invariants of the proofs, checked in the same runs.

connections has two owners and two handlers at a time, each interchangeable; one
authorization and one address are enough, since what could go wrong is a second use
of the same one. Three writes allow a connection, a disconnection and the id's next
owner.

pages has days of sixteen slots, four to the hour and two to the minute, so that a midnight,
the changed hour, the time after it and the part of a minute that a form cuts off are
apart; weeks of two days and months of three and two, so that a week crosses a month and the arrow of a month page meets a shorter month; the clocks go
forward on day 5 and back on day 7, the last of a month; the zone is half
a day west of UTC, so that what starts late on one date starts on the next in UTC, and tomorrow's all-day event is sorted before it (`Early`). Titles are blank, or have an
escape and a line break; the descriptions of objects have line breaks too. Three ids, two of them taken by arriving or created
events beside the one there from the start, two changes, a limit of two events and
one per month cell, so that both limits are met. Instants and dates outside those
listed are not opened; the proofs below cover the rest.

### Fairness

The worker goroutine and the poller always run, so `WorkerStep` (in GoogleSync
and CalDAVSync, where the poller is folded into `SyncStart`) is weakly fair; a
sync ends by itself or by its three minutes, so `EndsSync` is. Nothing is
assumed of the owner, other clients, faults, or restarts; they are bounded and
so come to rest. For `EveryAccountServed` the ticks matter: they are ten minutes
apart and a sync takes at most three, so with up to three accounts, and once
handlers ask for nothing more, a tick finds the queue empty (`FairSpec`). With
more accounts, or accounts that all hang, requests may be dropped; that is
outside what is shown.

## Proofs

TLAPS checks, for all values of the constants that satisfy the named assumptions, every
safety property and action property that a passing run checks, and both refinements (40
results are listed in `PROJECT.json`).

**GoogleSyncProofs** (`StoreAssumption`, `GoogleAssumption`: bounds are natural
numbers, the sentinels are not values): `Invariance` (`IInv`), `TypeCorrect`,
`UnpushedAlwaysQueued`, `RepliesNeverConflict`, `QueuedWorkIsRetained`. None of the
safety properties is inductive by itself. The argument: identifiers are minted once
(`MintedRids`), so no two rows of a calendar share one (`UniqueKeys`); a snapshot
row is still the row it was taken from, since the owner changes neither identifiers
nor a deletion, and only the worker drops rows, one at a time and off the snapshot
first (`BatchIsLive`); the identifier of a reply is the row's own, or one no row has
yet, since no pull runs between request and reply (`FlightIsLive`). So a reply meets
no conflict, and `dirty` is cleared only together with the local identifier. There is
one lemma for each action, and one step in it for each conjunct it can disturb.
`CountInvariance` (`CountInv`) is the ledger behind `CopiesAlwaysBounded` and
`EchoesAlwaysBounded`. A POST moves a row from those still unsent (`Unsent`) to the events the
app made (`AppMade`), a recorded reply changes neither number, and only an abort between the
two leaves the row to be sent again: so copies and unsent rows are at most the
creations and the aborts. An event that the pull takes for an import is one that no row
answers for (`Homed`): its reply was lost, or the owner moved the row; each is paid
for by a fault or a move, those in the snapshot (`Strays`) in advance. No other edit pays
for anything, so that the owner may edit and delete at will without an echo.

`SyncImplementsOutbox`: each step that writes the table writes or erases one row, hence one
entry; the invariant above says that the row is queued when its request is sent and there
when the reply comes, and that none is outstanding during a pull. One lemma per action
names the step of the outbox it is.

**EventStoreProofs** has no theorem of its own to report: what each statement writes, which the two
syncs' proofs share.

**CalDAVSyncProofs** (`StoreAssumption`, `CalDAVAssumption`): `Invariance` (`IInv`), `TypeCorrect`,
`UnpushedAlwaysQueued`, `QueuedChangesAreRetained`, `OthersAreUntouched`, `CopiesAlwaysBounded`,
`SyncImplementsOutbox`. The snapshot and the flight are as with Google. The count is not:
the app chooses its UIDs, so what is counted are places, pairs of a calendar and a UID, where
the app has a resource, or where a row of the table or of the snapshot would put one (`Places`). A
creation opens one place and an edit or a move at most one more; a PUT goes to a place that is
counted already, however often it is repeated, and its record replaces the place that an
edit would open next by the one it used. That is why lost replies do not appear in the bound,
and edits do.

**SyncLifecycleProofs** (`LifecycleAssumption`): `LiveInvariance`, `AccountInvariance`,
`Invariance`, and from them `TypeCorrect`, `SyncingAlwaysLive`, `FirstSyncIsSuppressed`,
`ErrorsAreAnnounced`, `AlarmsAlwaysBounded`. A status `syncing` is written only by the sync under way
(`MarkedByWorker`), and each way out of a sync overwrites it or is counted; the
worker's copy of the account (`HoldsAccount`) is what makes the write hit the same
row. For the alarms, `AlarmsCounted` reserves what may still be published: by the
sync under way, if it read an account that was not broken, and by the next sync, if
the account is not broken now. Each of a renewal, a disconnection, a restart and an unrecorded
success pays for one reservation. `Invariance` and `ErrorsAreAnnounced` say `MaxAlarms > 0`: with
the bound 0, which the liveness run uses, alarms are not counted at all.

**ConnectionsProofs** (`ConnectionsAssumption`, `NothingAssumption`): `TypeCorrect`,
`OnceAuthorized`, `OwnerAuthorized`, `EventsAlwaysTell`, for any number of owners,
handlers, authorizations and restarts. The first three are inductive together with
`BegunByOwner`: a state's row, while it is there, names the login that began it, and so
does the handler that took it; and while the row is there nobody has used it. For the events,
`EventInv` adds that finitely many handlers are busy and that a row a handler has stored or is
to delete has the address the handler will tell of (`AsTold`), as long as no account was
removed under another handler; then each write adds one event owed, each publication
moves one from owed to told, and a lost handler takes one out for a failure.

**DatesProofs** (`CalendarAssumption`, `ZoneAssumption`): `DaysBeginAtMidnight`, an instant is
on a date exactly if it lies between that date's midnight and the next, through both
changes of the clocks, and `MidnightsInOrder`. The assumption that matters is that the
clocks are not changed at midnight; in a zone that does, a day has no 00:00 and the
theorem fails.

**ICalendarProofs** (`ZoneAssumption`, `AwayAssumption`, for `ObjectTyped` only):
`EscapeReadsBack`, `unescapeICS` undoes `escapeICS`, for every text; `ObjectReadsBack`,
`parseICS` makes of what `buildICS` wrote the fields it was given; `ObjectTyped`, it makes
fields of their types of any lines. All three are inductions over data: the library's
induction theorems cannot be instantiated here, since they take an operator, but
well-foundedness of strict inclusion on finite sets is a fact about sets. From it follows
`SetInduction`, about a set with 0 in it that is closed under successor, and from that the
recursion equations of what is defined by `CHOOSE`, by folding or by a recursive
function: concatenation goes from left to right (`Flattened`), a fold over lines reads
them in order (`ReadInOrder`), unescaping goes on after what it replaced (`Unescaped`).
For the round trip, `EscapedAt` says where in the escaped text each character begins;
at those places, and only there, unescaping stops, so that the backslash which ends an
escape never begins another.

**CalendarPagesProofs** (also `PagesAssumption`, `ObjectsAssumption`):

- `TypeCorrect`. What forms, tools and syncs store makes rows, and a page made of rows is a page.
- `NoGaps`: the right arrow leads to where the page ends.
- `PagesAlwaysShow`: a page whose range matches no more than the limit shows on each of its
  days exactly what happens on it (`RangeShows`: from `DaysBeginAtMidnight` for timed events, from the
  dates of the range's two ends for all-day ones), and a cell of the month shows or
  counts each. The second rests on lemmas about `First`: `Sooner` orders the rows, so ranks are a
  bijection onto an interval and the first n of a set are n of them, or all
  (`FirstCounts`).
- `DashboardLeads`, in every zone: but for the events of `Early`, whatever today's range
  matches comes before the rest of what the agenda's matches, and the first of the one list
  are then the first of the other (`FirstOfFirst`). Early events may take the places of
  others, so with them the theorem asks for an agenda that is complete. At or east of UTC
  there are none (`DashboardInTheEast`), since a date ends there no later than in UTC.
- `TextReadsBack`, from `ObjectReadsBack` and an invariant, `RowsNamed`: a row keeps an
  identifier and a title, which parsing insists on, and an all-day row a date, which
  tells it apart. Forms are validated, objects have been read, and pushes leave both alone.
- `ClickOpens`, `SavingKeeps`, from the invariant `Freshness`: until something changes, a page's form
  is the one its event would have now, and its links lead to events that are visible and,
  but in the agenda, still in its range. For saving, what a settled text, broken into lines
  as a browser breaks them, and a whole minute become on their way through the form is
  then shown to be themselves. Pushes go on meanwhile; they touch
  `dirty` only, or rows that nobody sees (`PushKeeps`).

What the assumptions ask: a few bounds are natural numbers; every date that a page is opened on
has three months after it and every day of a month page is in a month, as in any calendar;
no zone is a day or more from UTC; there is a calendar to put an event into; and other
clients' objects are lines (`IsLine`), of which those that can be read have a start (REPORT
asks the server for a range of times). Of what is parsed nothing is assumed:
`ObjectTyped` shows it.

Three definitions changed when they could not be proved. `MonthShown` claimed that a cell's
events and its count add up to the events to be seen; a timed event that ends before it
starts is in the cell and not among those, so it now says both halves apart. `ClickOpensEvent` did not except
the limit of the query. Rows were put together with `@@`, which TLAPS cannot
expand.

A fourth was found wrong when `ObjectTyped` called for every object: `ParseICS` read
the lines of one that ends without having begun, and none of one that begins and
does not end; the code does the reverse.

Only model-checked: liveness (`QueueDrains`, `Converges`, `RemoteChangesArrive`,
`EveryAccountServed`, `SyncingEnds`), since fairness and ENABLED are out of TLAPS's reach here.

## Not modelled

HTML, CSS, the position and height of a block in a column, logging, HTTP and
authentication. The chat context and the intent: the one prints `loadEvents`, the other
builds an address. The cap of ten notifications per sync and the rule that only future events
notify (`events.go:84`): a counter local to one sync, with which nothing interleaves.
`clip` and `truncate`; locations, statuses and colours, which travel like descriptions.
What XML and the server make of a CR inside an object on its way.
Fractions of a second in stored instants, which compare as strings; instants are numbers here.
Moves of events between accounts; `SyncAll`, which nothing calls;
calendars that disappear from the provider's list and events outside the pulled
three years. The `known` query of a pull and its upsert are one step. Recurring
series are part of `val` in the syncs: that Google returns instances
(`google.go:214`) is not modelled.

## Plan

1. Done: the modules, runs and proofs above.
2. Models next: recurring series at Google, the two-statement pull, the publisher's cap.
