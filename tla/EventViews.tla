----------------------------- MODULE EventViews -----------------------------
(***************************************************************************)
(* What the pages, the dashboard, the chat and the search show of the      *)
(* events table (data.go:75-119, 174-195; main.go:67-82, 244-264;          *)
(* views/home.templ, whose compiled form is views/home_templ.go).          *)
(***************************************************************************)
EXTENDS Dates, Sequences, FiniteSets

CONSTANTS
  Calendars,   \* calendar ids
  ReadOnly,    \* those the account may not write
  Ids,         \* bound: event ids, 1..n
  NoRow,       \* an unused event id
  Limit,       \* data.go:100: 500 events
  CellLimit    \* home.templ:149: 3 events in a cell of the month

VARIABLES
  events,      \* events[id]: the row with that id, or NoRow
  selected     \* calendars with selected=1

Present == {id \in Ids : events[id] # NoRow}

-----------------------------------------------------------------------------
(* The queries                                                             *)

Visible(id) == id \in Present /\ events[id].cal \in selected /\ ~events[id].deleted

(* Timed events are compared as instants, all-day ones by the local dates  *)
(* of the two ends.  An empty end sorts before every other.                *)
Overlaps(row, from, to) ==
  /\ row.end # None
  /\ IF row.allDay THEN row.start < Day(to) /\ row.end > Day(from)
     ELSE row.start < to /\ row.end > from

(* ORDER BY COALESCE(start_at,start_date): strings, so an all-day event is *)
(* before whatever starts on its date in UTC.  Equal ones go by title,     *)
(* here by id.                                                             *)
SortKey(row) == IF row.allDay THEN 2 * row.start * DayLen ELSE 2 * row.start + 1

Sooner(i, j) ==
  \/ SortKey(events[i]) < SortKey(events[j])
  \/ SortKey(events[i]) = SortKey(events[j]) /\ i < j

(* The first n of some events; a list is known by its events, in the order *)
(* of Sooner.                                                              *)
First(ids, n) == {i \in ids : Cardinality({j \in ids : Sooner(j, i)}) < n}

(* loadEvents.                                                             *)
Matching(from, to) == {id \in Ids : Visible(id) /\ Overlaps(events[id], from, to)}
LoadEvents(from, to) == First(Matching(from, to), Limit)

(* searchEvents, for one of two answers each event may match: whatever its *)
(* calendar and its time.                                                  *)
Searchable == {id \in Present : ~events[id].deleted}

-----------------------------------------------------------------------------
(* A day's column, a cell of the month                                     *)

(* sameDay.                                                                *)
SameDay(t, u) == Day(t) = Day(u)

(* Mutant: an all-day event is shown on its end date, too.                 *)
AllDayToTheEnd(list, d) ==
  {id \in list : events[id].allDay /\ events[id].start <= d /\ d <= events[id].end}

(* allDayEvents and timedEvents.                                           *)
AllDayEvents(list, d) ==
  {id \in list : events[id].allDay /\ events[id].start <= d /\ d < events[id].end}

TimedEvents(list, d) ==
  {id \in list : ~events[id].allDay /\ SameDay(events[id].start, Midnight(d))}

(* eventsOnDay: the all-day ones, then the others.                         *)
EventsOnDay(list, d) == AllDayEvents(list, d) \cup TimedEvents(list, d)

(* A cell of the month: the first events of its day, those of the whole    *)
(* day before the others, and how many more there are.                     *)
MonthCell(list, d) ==
  LET whole == First(AllDayEvents(list, d), CellLimit)
      rest == First(TimedEvents(list, d), CellLimit - Cardinality(whole))
      all == Cardinality(EventsOnDay(list, d))
  IN  [shown |-> whole \cup rest, more |-> IF all > CellLimit THEN all - CellLimit ELSE 0]

-----------------------------------------------------------------------------
(* Pages                                                                   *)

(* pageData: the events of the page's range; the one the address names, if *)
(* it is among them.                                                       *)
PageData(view, d, now, id) ==
  LET range == DateRange(view, d, now)
      list == LoadEvents(range.from, range.to)
  IN  [view |-> view, date |-> d, list |-> list,
       edited |-> IF id \in list THEN id ELSE 0]

(* What a list of events, of days and of cells shows of the page's list: a *)
(* list of days only what falls on them.                                   *)
AgendaList(page) == page.list
TimeGrid(page, days) == UNION {EventsOnDay(page.list, d) : d \in days}
MonthGrid(page) == UNION {MonthCell(page.list, d).shown : d \in MonthDays(page.date)}

(* EventsLive: the events of the page that the owner can open.             *)
EventsLive(page) ==
  CASE page.view = "day"   -> TimeGrid(page, {page.date})
    [] page.view = "week"  -> TimeGrid(page, WeekDays(page.date))
    [] page.view = "month" -> MonthGrid(page)
    [] OTHER               -> AgendaList(page)

(* The dashboard card.                                                     *)
DashboardList(now) == LoadEvents(now, EndOfDay(now))
=============================================================================
