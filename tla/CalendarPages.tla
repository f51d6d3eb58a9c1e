--------------------------- MODULE CalendarPages ----------------------------
(***************************************************************************)
(* The owner's browser tab on the calendar (main.go:88-146, 286-315), the  *)
(* events behind it, which syncs and tools change while it is open, and    *)
(* the clock.  EventViews says what a page shows, ICalendar what a sync    *)
(* with iCloud writes and reads.                                           *)
(*                                                                         *)
(* A page is a snapshot: its links and its form are those of the moment it *)
(* was made, until the owner follows one or a live update replaces the     *)
(* list (never the form) by the agenda.                                    *)
(***************************************************************************)
EXTENDS EventViews, ICalendar

CONSTANTS
  Objects,     \* what other clients put into iCloud: [cal, lines]
  Earlier,     \* one of them, synced before
  Titles,      \* bound: texts the owner types, and tools are given
  Times,       \* bound: times the owner types, and tools are given: <<start, end>>
  Nows,        \* bound: instants at which something happens
  Dates,       \* bound: dates pages are opened on
  MaxChanges   \* bound: changes by syncs, tools and forms

VARIABLES
  now,         \* the clock
  tab,         \* the page in the browser
  stale,       \* an event or the selection changed since the page was made
  changes      \* changes so far

vars == <<events, selected, now, tab, stale, changes>>

Writable == Calendars \ ReadOnly

Texts == Seq(Chars)
Row == [cal: Calendars, uid: Texts, title: Texts, description: Texts, allDay: BOOLEAN,
        start: Int, end: Int \cup {None}, recurrence: Rules,
        dirty: BOOLEAN, deleted: BOOLEAN]
Form == [id: Ids \cup {0}, cal: Calendars, title: Texts, description: Texts,
         start: Int \cup {None}, end: Int \cup {None}]
Tab == [view: Views, date: Dates, form: Form,
        live: [view: Views, date: Dates, links: SUBSET Ids]]

(* The calendar has the weeks around every month that is shown, and the    *)
(* three months after every date.  A form has a calendar to offer.         *)
ASSUME PagesAssumption ==
  /\ Nows \subseteq Int /\ Dates \subseteq Int
  /\ \E t \in Nows : \A u \in Nows : t <= u
  /\ \A t \in Nows : Day(t) \in Dates
  /\ \A d \in Dates : \E m \in 0..(Months - 3) : MonthStart[m] <= d /\ d < MonthStart[m + 1]
  /\ \A d \in Dates : \A e \in MonthDays(d) :
       \E m \in 0..(Months - 1) : MonthStart[m] <= e /\ e < MonthStart[m + 1]
  /\ Ids \subseteq Nat \ {0} /\ IsFiniteSet(Ids) /\ Limit \in Nat /\ CellLimit \in Nat
  /\ Titles \subseteq Texts /\ Times \subseteq Int \X Int
  /\ Writable # {} /\ NoRow \notin Row /\ MaxChanges \in Nat

TypeOK ==
  /\ events \in [Ids -> Row \cup {NoRow}]
  /\ selected \subseteq Calendars
  /\ now \in Nows
  /\ tab \in Tab
  /\ stale \in BOOLEAN
  /\ changes \in 0..MaxChanges

-----------------------------------------------------------------------------
(* Making a page                                                           *)

(* A local time as a form shows it: without its seconds.                   *)
Clock(t) == Cut(Wall[t], Minute)

(* eventValue: what the form of an event shows, or that of a new one: the  *)
(* half hour that an hour from now is in.  An all-day event has no times   *)
(* to show: the year is 1 and both ends are the same.  How an event recurs *)
(* is not shown.                                                           *)
EventValue(id) ==
  IF id = 0
  THEN [title |-> <<>>, description |-> <<>>,
        start |-> Clock(Cut(now + Hour, HalfHour)), end |-> Clock(Cut(now + 2 * Hour, HalfHour))]
  ELSE [title |-> events[id].title, description |-> events[id].description,
        start |-> IF events[id].allDay THEN None ELSE Clock(events[id].start),
        end |-> IF events[id].allDay THEN None ELSE Clock(events[id].end)]

(* EventForm: the calendar chosen is the event's if the list offers it,    *)
(* otherwise the first.                                                    *)
EventForm(id) ==
  LET value == EventValue(id)
  IN  [id |-> id,
       cal |-> IF id # 0 /\ events[id].cal \in Writable THEN events[id].cal
               ELSE CHOOSE w \in Writable : TRUE,
       title |-> value.title, description |-> value.description,
       start |-> value.start, end |-> value.end]

(* Mutant: the links of a page lead to today's.                            *)
LinksToToday(page) == [view |-> page.view, date |-> Day(now), links |-> EventsLive(page)]

(* eventURL: a link keeps the view and the date of the page it is on.      *)
LiveArea(page) == [view |-> page.view, date |-> page.date, links |-> EventsLive(page)]

(* GET /: Home.                                                            *)
Home(view, d, id) ==
  LET page == PageData(view, d, now, id)
  IN  [view |-> view, date |-> d, live |-> LiveArea(page), form |-> EventForm(page.edited)]

Load(view, d, id) ==
  /\ d \in Dates
  /\ tab' = Home(view, d, id)
  /\ stale' = FALSE

(* A row that storeICSEvent adds for what parseICS made of an object, and  *)
(* one that it refreshes.                                                  *)
NewRow(object) ==
  LET e == ParseICS(object.lines)
      stored == StoredFields(e)
  IN  [cal |-> object.cal, uid |-> e.uid, title |-> stored.title,
       description |-> stored.description, allDay |-> stored.allDay,
       start |-> stored.start, end |-> stored.end, recurrence |-> stored.recurrence,
       dirty |-> FALSE, deleted |-> FALSE]

Refreshed(row, e) ==
  LET stored == StoredFields(e)
  IN  [row EXCEPT !.title = stored.title, !.description = stored.description,
                  !.allDay = stored.allDay, !.start = stored.start, !.end = stored.end,
                  !.recurrence = stored.recurrence]

(* What other clients write is made of lines, and what can be read of it   *)
(* says when it starts: REPORT would not have found it otherwise, as it is *)
(* asked for a range of times.                                             *)
ASSUME ObjectsAssumption ==
  /\ Readable(ParseICS(Earlier.lines))
  /\ \A object \in Objects \cup {Earlier} :
       LET e == ParseICS(object.lines)
       IN  /\ object.cal \in Calendars
           /\ Len(object.lines) \in Nat /\ \A i \in 1..Len(object.lines) : IsLine(object.lines[i])
           /\ Readable(e) => e.startDate # None \/ e.start # None

(* The calendar has been in use: an event came with an earlier sync.       *)
Init ==
  /\ events = [id \in Ids |-> IF id = 1 THEN NewRow(Earlier) ELSE NoRow]
  /\ selected = Calendars
  /\ now = CHOOSE t \in Nows : \A u \in Nows : t <= u
  /\ tab = Home("agenda", Day(now), 0)
  /\ stale = FALSE
  /\ changes = 0

-----------------------------------------------------------------------------
(* The owner looks around                                                  *)

Browse == UNCHANGED <<events, selected, now, changes>>

(* The tabs, the days of a month page, an address.                         *)
Open(view, d) == Browse /\ Load(view, d, 0)

(* The arrows and "Today".                                                 *)
Navigate(delta) == Browse /\ Load(tab.view, NavDate(tab.view, tab.date, delta), 0)
Today == Browse /\ Load(tab.view, Day(now), 0)

(* An event on the page.                                                   *)
Click(id) == id \in tab.live.links /\ Browse /\ Load(tab.live.view, tab.live.date, id)

(* A search result: "/?event=" leads to the agenda.                        *)
OpenFound(id) == id \in Searchable /\ Browse /\ Load("agenda", Day(now), id)

(* web.Live: whatever the page shows, the agenda takes its place.          *)
LiveRefresh ==
  /\ tab' = [tab EXCEPT !.live = LiveArea(PageData("agenda", Day(now), now, 0))]
  /\ UNCHANGED <<events, selected, now, stale, changes>>

(* Time passes.                                                            *)
Tick ==
  /\ \E t \in Nows : t > now /\ now' = t /\ \A u \in Nows : u > now => t <= u
  /\ UNCHANGED <<events, selected, tab, stale, changes>>

-----------------------------------------------------------------------------
(* The owner and the tools change events                                   *)

Changed == changes < MaxChanges /\ changes' = changes + 1 /\ UNCHANGED now

(* INTEGER PRIMARY KEY: the largest id plus one.                           *)
IsNextId(id) == id \in Ids \ Present /\ \A i \in Present : i < id /\ (id = 1 \/ id - 1 \in Present)

(* strings.TrimSpace.                                                      *)
White == {"LF", "CR", " "}

Trim(text) ==
  LET kept == {i \in DOMAIN text : text[i] \notin White}
  IN  IF kept = {} THEN <<>> ELSE SubSeq(text, Min(kept), Max(kept))

(* validate, for a timed event: no caller ever fills in the dates.         *)
Valid(in) == Trim(in.title) # <<>> /\ in.end > in.start

(* createLocalEvent and updateLocalEvent.                                  *)
CreateLocalEvent(id, in) ==
  /\ Valid(in) /\ in.cal \in Writable
  /\ IsNextId(id)
  /\ events' = [events EXCEPT ![id] =
       [cal |-> in.cal, uid |-> [i \in 1..id |-> "n"], title |-> Trim(in.title),
        description |-> Trim(in.description), allDay |-> FALSE, start |-> in.start, end |-> in.end,
        recurrence |-> in.recurrence, dirty |-> TRUE, deleted |-> FALSE]]

UpdateLocalEvent(id, in) ==
  /\ Valid(in)
  /\ id \in Present /\ events[id].cal \in Writable
  /\ events' = [events EXCEPT ![id] =
       [@ EXCEPT !.cal = in.cal, !.title = Trim(in.title),
        !.description = Trim(in.description), !.allDay = FALSE, !.start = in.start,
        !.end = in.end, !.recurrence = in.recurrence, !.dirty = TRUE]]

(* What a browser sends of a form: of the title, an input of one line,     *)
(* without its line breaks; of the description, a text area, with CR LF    *)
(* for each of them.                                                       *)
Breaks == {"CR", "LF"}

InPair(text, i) ==
  \/ text[i] = "CR" /\ i < Len(text) /\ text[i + 1] = "LF"
  \/ text[i] = "LF" /\ 1 < i /\ text[i - 1] = "CR"

OneLine(text) ==
  FlattenSeq([i \in DOMAIN text |-> IF text[i] \in Breaks THEN <<>> ELSE <<text[i]>>])

Lines(text) ==
  FlattenSeq([i \in DOMAIN text |->
    IF text[i] \in Breaks /\ ~InPair(text, i) THEN <<"CR", "LF">> ELSE <<text[i]>>])

Sent(form) == [form EXCEPT !.title = OneLine(@), !.description = Lines(@)]

(* Mutant: the times of the form are taken for UTC.                        *)
InUTC(form, recurrence) ==
  [cal |-> form.cal, title |-> form.title, description |-> form.description,
   start |-> form.start, end |-> form.end, recurrence |-> recurrence]

(* What mutateEvent reads of a form.                                       *)
Input(form, recurrence) ==
  [cal |-> form.cal, title |-> form.title, description |-> form.description,
   start |-> FromWall[form.start], end |-> FromWall[form.end], recurrence |-> recurrence]

(* The browser follows a redirect: the page is made of what is stored now. *)
Redirected(id) ==
  /\ tab' = Home("agenda", Day(now), id)'
  /\ stale' = FALSE

(* mutateEvent; what is not accepted changes nothing.                      *)
Submit(form, recurrence) ==
  /\ Changed /\ UNCHANGED selected
  /\ form.start # None /\ form.end # None
  /\ \E id \in Ids :
       /\ IF form.id = 0 THEN CreateLocalEvent(id, Input(Sent(form), recurrence))
          ELSE id = form.id /\ UpdateLocalEvent(id, Input(Sent(form), recurrence))
       /\ Redirected(id)

(* The form as it is, with other texts, with other times.                  *)
SaveAsShown == Submit(tab.form, "")
Reword(text) == Submit([tab.form EXCEPT !.title = text, !.description = text], "")
Reschedule(t) ==
  Submit([tab.form EXCEPT !.start = t[1], !.end = t[2],
                          !.title = IF @ = <<>> THEN <<"x">> ELSE @], "RRULE:FREQ")

(* deleteLocalEvent.                                                       *)
Delete ==
  /\ Changed
  /\ tab.form.id \in Present
  /\ events[tab.form.id].cal \in Writable
  /\ events' = [events EXCEPT ![tab.form.id].deleted = TRUE, ![tab.form.id].dirty = TRUE]
  /\ UNCHANGED selected
  /\ Redirected(0)

(* POST /calendars/selection: one transaction.                             *)
Select(calendars) ==
  /\ Changed
  /\ selected' = calendars
  /\ UNCHANGED events
  /\ Redirected(0)

(* create_event: instants, and whatever it is given for a recurrence.      *)
ToolCreates(cal, text, t, recurrence) ==
  /\ Changed
  /\ \E id \in Ids :
       CreateLocalEvent(id, [cal |-> cal, title |-> text, description |-> text, start |-> t[1],
                             end |-> t[2], recurrence |-> recurrence])
  /\ stale' = TRUE
  /\ UNCHANGED <<selected, tab>>

-----------------------------------------------------------------------------
(* Syncs                                                                   *)

(* storeICSEvent of what parseICS made of an object: a row with its        *)
(* identifier is refreshed unless it is dirty, and stays deleted if it is; *)
(* without one a row is added.                                             *)
Arrives(object) ==
  LET e == ParseICS(object.lines)
      Known == {id \in Present : events[id].cal = object.cal /\ events[id].uid = e.uid}
  IN  /\ Changed
      /\ Readable(e)
      /\ \/ \E id \in Known :
              /\ ~events[id].dirty
              /\ events' = [events EXCEPT ![id] = Refreshed(@, e)]
         \/ /\ Known = {}
            /\ \E id \in Ids :
                 /\ IsNextId(id)
                 /\ events' = [events EXCEPT ![id] = NewRow(object)]
      /\ stale' = TRUE
      /\ UNCHANGED <<selected, tab>>

(* A queued row has been pushed, and is gone if it was a deletion.         *)
Pushed(id) ==
  /\ id \in Present /\ events[id].dirty
  /\ events' = [events EXCEPT ![id] =
       IF events[id].deleted THEN NoRow ELSE [@ EXCEPT !.dirty = FALSE]]
  /\ UNCHANGED <<selected, now, tab, stale, changes>>

Next ==
  \/ \E view \in Views, d \in Dates : Open(view, d)
  \/ \E delta \in {-1, 1} : Navigate(delta)
  \/ Today
  \/ \E id \in Ids : Click(id) \/ OpenFound(id)
  \/ LiveRefresh
  \/ Tick
  \/ SaveAsShown
  \/ \E text \in Titles : Reword(text)
  \/ \E t \in Times : Reschedule(t)
  \/ Delete
  \/ \E calendars \in SUBSET Calendars : Select(calendars)
  \/ \E cal \in Calendars, text \in Titles, t \in Times, recurrence \in {"", "FREQ"} :
       ToolCreates(cal, text, t, recurrence)
  \/ \E object \in Objects : Arrives(object)
  \/ \E id \in Ids : Pushed(id)

Spec == Init /\ [][Next]_vars

-----------------------------------------------------------------------------
(* Properties                                                              *)

(* An event that has an end, after its start.                              *)
Lasts(row) == row.end # None /\ row.end > row.start

(* The days an event is to be seen on: an all-day event on each of its     *)
(* days, another on the day it starts.                                     *)
HappensOn(row, d) ==
  IF row.allDay THEN row.start <= d /\ d < row.end
  ELSE Midnight(d) <= row.start /\ row.start < Midnight(d + 1)

ToBeSeenOn(d) == {id \in Ids : Visible(id) /\ Lasts(events[id]) /\ HappensOn(events[id], d)}

(* What the page would show if the owner were to reload it now.            *)
Asked == DateRange(tab.view, tab.date, now)
Found == LoadEvents(Asked.from, Asked.to)

DayShown(d) == ToBeSeenOn(d) = {id \in EventsOnDay(Found, d) : Lasts(events[id])}

DaysShown ==
  LET days == IF tab.view = "day" THEN {tab.date} ELSE WeekDays(tab.date)
  IN  tab.view \in {"day", "week"} => \A d \in days : DayShown(d)

(* A month page does not know of the events of the days around the month.  *)
(* What a cell has no room for, it counts.                                 *)
MonthShown ==
  tab.view = "month" =>
    \A d \in MonthDays(tab.date) : MonthOf[d] = MonthOf[tab.date] =>
      LET all == EventsOnDay(Found, d)
          cell == MonthCell(Found, d)
      IN  /\ DayShown(d)
          /\ cell.shown \subseteq all
          /\ Cardinality(all) = Cardinality(cell.shown) + cell.more

(* README.md:154: day, week and month views.  A day of the page, if the    *)
(* owner were to reload it now, has each selected event that happens on it *)
(* and no other, whatever range of instants and of dates it was asked for  *)
(* with and however the clocks are changed, as long as the range has fewer *)
(* events than the query may return.                                       *)
PagesShowTheirDays ==
  Cardinality(Matching(Asked.from, Asked.to)) <= Limit => DaysShown /\ MonthShown

(* README.md:154: the views share date navigation.  What the right     *)
(* arrow leads to begins where the page ends, so that no event is between  *)
(* two pages, unless the next month lacks the day of the month.            *)
PagesTile ==
  LET next == NavDate(tab.view, tab.date, 1)
  IN  (\/ tab.view \in {"day", "week"}
       \/ tab.view = "month" /\ MonthOf[next] = MonthOf[tab.date] + 1) =>
      DateRange(tab.view, next, now).from = DateRange(tab.view, tab.date, now).to

(* The all-day events of the days to come that are sorted before something *)
(* of today: a date is compared with instants in UTC.                      *)
Coming == Matching(now, MonthsLater(now, 3))

Early ==
  {i \in Coming :
     /\ events[i].allDay /\ events[i].start > Day(now)
     /\ \E j \in Matching(now, Midnight(Day(now) + 1)) : Sooner(i, j)}

(* README.md:187: today's next event.  The events of the dashboard are the *)
(* first of the agenda, in the same order, but for all-day events of the   *)
(* days to come that are sorted before what is left of today, as happens   *)
(* west of UTC.  They can take the places of others if there are more      *)
(* events than the query may return.                                       *)
DashboardLeadsAgenda ==
  LET card == DashboardList(now)
      agenda == PageData("agenda", Day(now), now, 0).list
  IN  (Early = {} \/ Cardinality(Coming) <= Limit) =>
        card = First(agenda \ Early, Cardinality(card))

(* Whether the agenda, made now, would have the event.                     *)
OnAgenda(id) == id \in Coming /\ Cardinality(Coming) <= Limit

(* A step to a page of this view and date (for TLC, cheaper to ask than    *)
(* what else is on it).                                                    *)
LeadsTo(view, d) == tab'.view = view /\ tab'.date = d

(* home.templ:79,111,125,150: following the link of an event opens its     *)
(* form, unless a sync, a tool or the owner changed something since the    *)
(* page was made, or the link leads to the agenda, from which the event    *)
(* may have gone: it ended, or as time passed others came before it and    *)
(* there are more than the query returns.  README.md:134,190: so does the  *)
(* deep link of a search, however old, if the event is on the agenda; that *)
(* of a past event opens the form of a new one instead.                    *)
ClickOpensEvent ==
  [][\A id \in Ids :
       tab'.form.id # id =>
         /\ ~stale /\ LeadsTo(tab.live.view, tab.live.date) /\ Click(id) =>
              tab.live.view = "agenda" /\ ~OnAgenda(id)
         /\ LeadsTo("agenda", Day(now)) /\ OpenFound(id) => ~OnAgenda(id)]_vars

(* What a form shows of a text or a time and saves as it was: a text with  *)
(* no white space at its ends, of one line or of lines that end in CR LF;  *)
(* a whole minute that does not occur twice.                               *)
Settled(text) == text # <<>> => text[1] \notin White /\ text[Len(text)] \notin White
InOneLine(text) == \A i \in DOMAIN text : text[i] \notin Breaks
InLines(text) == \A i \in DOMAIN text : text[i] \in Breaks => InPair(text, i)
Unambiguous(t) == FromWall[Clock(t)] = t

(* README.md:182-183: times are stored in UTC and rendered in local time.  *)
(* Saving the form of an event as it was shown leaves its calendar, its    *)
(* title, its description and its times as they are, each as far as a form *)
(* can show it, unless the event changed since the page was made.  (It     *)
(* does not keep a recurrence, which the form never shows.)                *)
SavingKeepsEvent ==
  [][\A id \in Ids :
       tab.form.id = id /\ ~stale /\ SaveAsShown =>
         LET old == events[id]  new == events'[id]
         IN  /\ new.cal = old.cal
             /\ (Settled(old.title) /\ InOneLine(old.title)) => new.title = old.title
             /\ (Settled(old.description) /\ InLines(old.description)) =>
                  new.description = old.description
             /\ (Unambiguous(old.start) /\ Unambiguous(old.end)) =>
                  <<new.allDay, new.start, new.end>> = <<old.allDay, old.start, old.end>>]_vars

(* A row that iCalendar can say: a line that ends in CR loses it, a line   *)
(* without a name is passed over.                                          *)
EndsInCR(text) == text # <<>> /\ text[Len(text)] = "CR"

CanBeSaid(row) ==
  /\ row.end # None /\ row.recurrence # "FREQ"
  /\ ~EndsInCR(row.uid) /\ ~EndsInCR(row.title) /\ ~EndsInCR(row.description)

(* README.md:162: background syncs pull and push.  What is written to      *)
(* iCloud of an event that has an end is what the next pull reads: its     *)
(* texts, its times, and its rule if that has a name.                      *)
WrittenTextReadsBack ==
  \A id \in Present :
    CanBeSaid(events[id]) =>
      LET e == ParseICS(BuildICS(events[id].uid, events[id]))
      IN  e.uid = events[id].uid /\ Readable(e) /\ Refreshed(events[id], e) = events[id]
=============================================================================
