------------------------- MODULE CalendarPagesProofs --------------------------
(***************************************************************************)
(* Proofs about CalendarPages, for any zone, months, events and requests:  *)
(* what the pages and the dashboard show, that pages leave no gap, and     *)
(* that a page on which nothing has changed leads to what it shows and     *)
(* saves what it shows.                                                    *)
(***************************************************************************)
EXTENDS CalendarPages, ICalendarProofs

(* The part of TypeOK that the proofs use.                                 *)
Shown ==
  /\ tab.view \in Views /\ tab.live.view \in Views
  /\ tab.date \in Dates
  /\ {"view", "date", "live"} \subseteq DOMAIN tab
  /\ now \in Nows

LEMMA HomeShown ==
  ASSUME NEW view, NEW d, NEW id
  PROVE  LET page == Home(view, d, id)
         IN  /\ page.view = view /\ page.live.view = view /\ page.date = d
             /\ {"view", "date", "live"} \subseteq DOMAIN page
  BY DEF Home, LiveArea, PageData

-----------------------------------------------------------------------------
(* Ranges                                                                  *)

(* Every date of a page is in a month, and three more follow it.           *)
LEMMA DatesKnown ==
  ASSUME NEW d \in Dates
  PROVE  /\ d \in Int
         /\ \E m \in 0..(Months - 1) : MonthStart[m] <= d /\ d < MonthStart[m + 1]
         /\ \E m \in 0..(Months - 3) : MonthStart[m] <= d /\ d < MonthStart[m + 1]
<1>1. PICK m \in 0..(Months - 3) : MonthStart[m] <= d /\ d < MonthStart[m + 1]
  BY PagesAssumption
<1>2. m \in 0..(Months - 1)
  BY CalendarAssumption
<1> QED BY <1>1, <1>2, PagesAssumption

LEMMA WeeksBegin ==
  ASSUME NEW d \in Int
  PROVE  /\ WeekStart(d) \in Int
         /\ WeekStart(d) <= d /\ d < WeekStart(d) + WeekLen
         /\ WeekStart(d + WeekLen) = WeekStart(d) + WeekLen
<1>1. WeekLen \in Nat /\ WeekLen > 0
  BY CalendarAssumption
<1>2. d % WeekLen \in 0..(WeekLen - 1) /\ (d + WeekLen) % WeekLen = d % WeekLen
  BY <1>1, Remainder
<1> QED BY <1>1, <1>2 DEF WeekStart, Weekday

LEMMA Ranges ==
  ASSUME NEW d \in Int, NEW t
  PROVE  /\ DateRange("day", d, t) = [from |-> Midnight(d), to |-> Midnight(d + 1)]
         /\ DateRange("week", d, t) =
              [from |-> Midnight(WeekStart(d)), to |-> Midnight(WeekStart(d) + WeekLen)]
<1>1. WeekStart(d) \in Int /\ WeekLen \in Int
  BY WeeksBegin, CalendarAssumption
<1>2. AddDays(Midnight(d), 1) = Midnight(d + 1)
  BY MidnightsApart
<1>3. AddDays(Midnight(WeekStart(d)), WeekLen) = Midnight(WeekStart(d) + WeekLen)
  BY <1>1, MidnightsApart
<1> QED BY <1>2, <1>3 DEF DateRange

(* A month page asks for a month.                                          *)
LEMMA MonthRange ==
  ASSUME NEW d \in Int, NEW t, NEW m \in 0..(Months - 1),
         MonthStart[m] <= d, d < MonthStart[m + 1]
  PROVE  /\ MonthOf[d] = m
         /\ DateRange("month", d, t) =
              [from |-> Midnight(MonthStart[m]), to |-> Midnight(MonthStart[m + 1])]
<1> DEFINE first == MonthStart[m]  next == MonthStart[m + 1]
<1>1. MonthOf[d] = m
  BY MonthKnown
<1>2. m \in 0..Months /\ m + 1 \in 0..Months /\ m < m + 1
  BY CalendarAssumption
<1>3. first \in Int /\ next \in Int /\ first < next
  BY <1>2, CalendarAssumption
<1>4. MonthOf[first] = m
  BY <1>3, MonthKnown
<1>5. AddMonths(first, 1) = next
  <2>1. first - first + next = next
    BY <1>3
  <2> QED BY <1>4, <2>1 DEF AddMonths
<1>6. Day(Midnight(first)) = first
  BY <1>3, MidnightsInOrder
<1>7. MonthsLater(Midnight(first), 1) = Midnight(next)
  <2>1. next - first \in Int /\ first + (next - first) = next
    BY <1>3
  <2> HIDE DEF first, next
  <2>2. AddDays(Midnight(first), next - first) = Midnight(next)
    BY <1>3, <2>1, MidnightsApart
  <2> QED BY <1>5, <1>6, <2>2 DEF MonthsLater
<1>8. FirstOfMonth(d) = first
  BY <1>1 DEF FirstOfMonth
<1> QED BY <1>1, <1>7, <1>8 DEF DateRange

-----------------------------------------------------------------------------
(* Pages that follow one another                                           *)

LEMMA ShownTiles ==
  ASSUME Shown
  PROVE  PagesTile
<1> DEFINE d == tab.date
           next == NavDate(tab.view, d, 1)
<1>1. d \in Int
  BY PagesAssumption DEF Shown
<1>2. CASE tab.view = "day"
  <2>1. next = d + 1
    BY <1>1, <1>2 DEF NavDate
  <2>2. d + 1 \in Int
    BY <1>1
  <2> HIDE DEF d, next
  <2>3. DateRange("day", next, now).from = DateRange("day", d, now).to
    BY <1>1, <2>1, <2>2, Ranges
  <2> QED BY <1>2, <2>3 DEF PagesTile, d, next
<1>3. CASE tab.view = "week"
  <2>1. next = d + WeekLen
    BY <1>1, <1>3, CalendarAssumption DEF NavDate
  <2>2. d + WeekLen \in Int
    BY <1>1, CalendarAssumption
  <2> HIDE DEF d, next
  <2>3. WeekStart(next) = WeekStart(d) + WeekLen
    BY <1>1, <2>1, WeeksBegin
  <2>4. DateRange("week", next, now).from = DateRange("week", d, now).to
    BY <1>1, <2>1, <2>2, <2>3, Ranges
  <2> QED BY <1>3, <2>4 DEF PagesTile, d, next
<1>4. CASE tab.view = "month" /\ MonthOf[next] = MonthOf[d] + 1
  <2>1. PICK m \in 0..(Months - 1) : MonthStart[m] <= d /\ d < MonthStart[m + 1]
    BY DatesKnown DEF Shown
  <2> HIDE DEF d, next
  <2>2. /\ MonthOf[d] = m
        /\ DateRange("month", d, now).to = Midnight(MonthStart[m + 1])
    BY <1>1, <2>1, MonthRange
  <2>3. DateRange("month", next, now).from = Midnight(MonthStart[m + 1])
    BY <1>4, <2>2 DEF DateRange, FirstOfMonth
  <2> QED BY <1>4, <2>2, <2>3 DEF PagesTile, d, next
<1> QED BY <1>2, <1>3, <1>4 DEF PagesTile, NavDate

(* A page that is loaded is on one of the views and dates.                 *)
LEMMA Loaded ==
  ASSUME NEW view \in Views, NEW d, NEW id, Load(view, d, id)
  PROVE  /\ tab'.view \in Views /\ tab'.live.view \in Views /\ tab'.date \in Dates
         /\ {"view", "date", "live"} \subseteq DOMAIN tab'
  BY HomeShown DEF Load

LEMMA AgendaLoaded ==
  ASSUME NEW id, Redirected(id)
  PROVE  /\ tab'.view \in Views /\ tab'.live.view \in Views /\ tab'.date = Day(now)'
         /\ {"view", "date", "live"} \subseteq DOMAIN tab'
  BY DEF Redirected, Home, LiveArea, PageData, Views

LEMMA StepShown ==
  ASSUME Shown, [Next]_vars
  PROVE  Shown'
<1>1. ASSUME NEW view \in Views, NEW d, NEW id, Load(view, d, id), UNCHANGED now
      PROVE  Shown'
  BY <1>1, Loaded DEF Shown
<1>2. ASSUME NEW id, Redirected(id), UNCHANGED now
      PROVE  Shown'
  <2>1. now' \in Nows /\ Day(now)' \in Dates
    BY <1>2, PagesAssumption DEF Shown, Day
  <2> QED BY <1>2, <2>1, AgendaLoaded DEF Shown
<1>3. \A view \in Views : \A d : Open(view, d) => Shown'
  BY <1>1 DEF Open, Browse
<1>4. \A delta : Navigate(delta) => Shown'
  BY <1>1 DEF Navigate, Browse, Shown
<1>5. Today => Shown'
  BY <1>1 DEF Today, Browse, Shown
<1>6. \A id : Click(id) => Shown'
  BY <1>1 DEF Click, Browse, Shown
<1>7. \A id : OpenFound(id) => Shown'
  BY <1>1 DEF OpenFound, Browse, Views
<1>8. LiveRefresh => Shown'
  <2>1. ASSUME LiveRefresh
        PROVE  /\ tab'.view = tab.view /\ tab'.date = tab.date
               /\ tab'.live.view = "agenda"
               /\ DOMAIN tab' = DOMAIN tab
    BY <2>1 DEF LiveRefresh, LiveArea, PageData
  <2> QED BY <2>1 DEF LiveRefresh, Shown, Views
<1>9. Tick => Shown'
  BY DEF Tick, Shown
<1>10. \A form, recurrence : Submit(form, recurrence) => Shown'
  BY <1>2 DEF Submit, Changed
<1>11. SaveAsShown \/ (\E text : Reword(text)) \/ (\E t : Reschedule(t)) => Shown'
  BY <1>10 DEF SaveAsShown, Reword, Reschedule
<1>12. Delete => Shown'
  BY <1>2 DEF Delete, Changed
<1>13. \A calendars : Select(calendars) => Shown'
  BY <1>2 DEF Select, Changed
<1>14. \A cal, text, t, recurrence : ToolCreates(cal, text, t, recurrence) => Shown'
  BY DEF ToolCreates, Changed, Shown
<1>15. \A object : Arrives(object) => Shown'
  BY DEF Arrives, Changed, Shown
<1>16. \A id : Pushed(id) => Shown'
  BY DEF Pushed, Shown
<1>17. CASE UNCHANGED vars
  BY <1>17 DEF vars, Shown
<1> QED BY <1>3, <1>4, <1>5, <1>6, <1>7, <1>8, <1>9, <1>11, <1>12, <1>13, <1>14, <1>15, <1>16,
           <1>17 DEF Next

(* README.md:154: a page of days, of a week or of a month ends at the  *)
(* midnight at which the one that the arrow leads to begins, whatever the  *)
(* clocks do between them.                                                 *)
THEOREM NoGaps == Spec => []PagesTile
<1>1. Init => Shown
  <2>1. ASSUME Init
        PROVE  Shown
    <3>1. tab = Home("agenda", Day(now), 0)
      BY <2>1 DEF Init
    <3>2. now \in Nows /\ Day(now) \in Dates
      BY <2>1, PagesAssumption DEF Init
    <3> QED BY <3>1, <3>2, HomeShown DEF Shown, Views
  <2> QED BY <2>1
<1>2. Shown /\ [Next]_vars => Shown'
  BY StepShown
<1>3. Shown => PagesTile
  BY ShownTiles
<1> QED BY <1>1, <1>2, <1>3, PTL DEF Spec

-----------------------------------------------------------------------------
(* Texts of a form                                                         *)

(* What each character of a text is sent as, put together, is a text.      *)
LEMMA PartsTyped ==
  ASSUME NEW text \in Texts, NEW part \in [DOMAIN text -> Texts]
  PROVE  FlattenSeq(part) \in Texts
<1> DEFINE n == Len(text)
<1>1. n \in Nat /\ DOMAIN text = 1..n
  BY LenProperties DEF Texts
<1> HIDE DEF n
<1>2. part \in [1..n -> Seq(Chars)]
  BY <1>1 DEF Texts
<1>3. part \in Seq(Seq(Chars)) /\ Len(part) = n
  BY <1>1, <1>2
<1>4. PICK F \in [0..Len(part) -> Seq(Chars)] : FlattenSeq(part) = F[Len(part)]
  BY <1>3, Flattened
<1>5. Len(part) \in 0..Len(part)
  BY <1>1, <1>3
<1> QED BY <1>4, <1>5 DEF Texts

(* If each is sent as itself, the text is.                                 *)
LEMMA PartsSame ==
  ASSUME NEW text \in Texts, NEW part, part = [i \in DOMAIN text |-> <<text[i]>>]
  PROVE  FlattenSeq(part) = text
<1> DEFINE n == Len(text)
<1>1. /\ text \in Seq(Chars) /\ n \in Nat /\ DOMAIN text = 1..n
      /\ \A i \in 1..n : text[i] \in Chars
  BY LenProperties DEF Texts
<1> HIDE DEF n
<1>2. \A i \in 1..n : part[i] = <<text[i]>> /\ part[i] \in Seq(Chars)
  <2>1. ASSUME NEW c \in Chars PROVE <<c>> \in Seq(Chars)
    OBVIOUS
  <2> QED BY <1>1, <2>1
<1>3. part \in Seq(Seq(Chars)) /\ Len(part) = n
  <2>1. part \in [1..n -> Seq(Chars)]
    <3>1. part = [i \in 1..n |-> part[i]]
      BY <1>1
    <3> QED BY <1>2, <3>1
  <2> QED BY <1>1, <2>1
<1>4. PICK F \in [0..n -> Seq(Chars)] :
        /\ F[0] = <<>>
        /\ \A i \in 1..n : F[i] = F[i - 1] \o part[i]
        /\ FlattenSeq(part) = F[n]
  <2>1. PICK F \in [0..Len(part) -> Seq(Chars)] :
          /\ F[0] = <<>>
          /\ \A i \in 1..Len(part) : F[i] = F[i - 1] \o part[i]
          /\ FlattenSeq(part) = F[Len(part)]
    BY <1>3, Flattened
  <2> QED BY <1>3, <2>1
<1> DEFINE Good == {k \in Nat : k <= n => Len(F[k]) = k /\ \A j \in 1..k : F[k][j] = text[j]}
<1>5. 0 \in Good
  <2>1. Len(F[0]) = 0
    BY <1>4
  <2> QED BY <2>1
<1>6. ASSUME NEW k \in Nat, k \in Good
      PROVE  k + 1 \in Good
  <2> SUFFICES ASSUME k + 1 <= n
               PROVE  Len(F[k + 1]) = k + 1 /\ \A j \in 1..(k + 1) : F[k + 1][j] = text[j]
    OBVIOUS
  <2> DEFINE f == F[k]  c == text[k + 1]  last == <<c>>
  <2>1. /\ k \in 0..n /\ k + 1 \in 1..n /\ (k + 1) - 1 = k
        /\ f \in Seq(Chars) /\ Len(f) = k /\ \A j \in 1..k : f[j] = text[j]
    BY <1>1, <1>4, <1>6
  <2>2. F[k + 1] = f \o last /\ last \in Seq(Chars) /\ Len(last) = 1 /\ last[1] = c
    BY <1>2, <1>4, <2>1
  <2> HIDE DEF f, c, last
  <2>3. /\ Len(f \o last) = Len(f) + Len(last)
        /\ \A j \in 1..(Len(f) + Len(last)) :
             (f \o last)[j] = IF j <= Len(f) THEN f[j] ELSE last[j - Len(f)]
    BY <2>1, <2>2, ConcatProperties
  <2>4. Len(f \o last) = k + 1 /\ \A j \in 1..(k + 1) : (f \o last)[j] = text[j]
    BY <2>1, <2>2, <2>3 DEF c
  <2> QED BY <2>2, <2>4
<1>7. n \in Good
  <2>1. Nat \subseteq Good
    <3> HIDE DEF Good
    <3> QED BY <1>5, <1>6, SetInduction
  <2> HIDE DEF Good
  <2> QED BY <1>1, <2>1
<1>8. F[n] \in Seq(Chars) /\ Len(F[n]) = n /\ \A j \in 1..n : F[n][j] = text[j]
  BY <1>1, <1>4, <1>7
<1> QED BY <1>1, <1>4, <1>8, SeqEqual DEF n

(* The browser sends texts, and as they are those that a form can show.    *)
LEMMA SentTexts ==
  ASSUME NEW text \in Texts
  PROVE  /\ OneLine(text) \in Texts /\ Lines(text) \in Texts
         /\ InOneLine(text) => OneLine(text) = text
         /\ InLines(text) => Lines(text) = text
<1> DEFINE one == [i \in DOMAIN text |-> IF text[i] \in Breaks THEN <<>> ELSE <<text[i]>>]
           many == [i \in DOMAIN text |->
                      IF text[i] \in Breaks /\ ~InPair(text, i) THEN <<"CR", "LF">>
                                                                ELSE <<text[i]>>]
           same == [i \in DOMAIN text |-> <<text[i]>>]
<1>1. \A i \in DOMAIN text : text[i] \in Chars
  BY LenProperties DEF Texts
<1>2. \A c \in Chars : <<c>> \in Texts
  BY DEF Texts
<1>3. <<>> \in Texts
  BY DEF Texts
<1>4. <<"CR", "LF">> \in Texts
  <2>1. "CR" \in Chars /\ "LF" \in Chars
    BY DEF Chars
  <2> HIDE DEF Chars
  <2> QED BY <2>1 DEF Texts
<1>5. one \in [DOMAIN text -> Texts] /\ many \in [DOMAIN text -> Texts]
  BY <1>1, <1>2, <1>3, <1>4
<1>6. InOneLine(text) => one = same
  BY DEF InOneLine
<1>7. InLines(text) => many = same
  BY DEF InLines
<1>8. OneLine(text) = FlattenSeq(one) /\ Lines(text) = FlattenSeq(many)
  BY DEF OneLine, Lines
<1> HIDE DEF one, many
<1>9. FlattenSeq(same) = text
  BY PartsSame
<1>10. FlattenSeq(one) \in Texts /\ FlattenSeq(many) \in Texts
  BY <1>5, PartsTyped
<1> QED BY <1>6, <1>7, <1>8, <1>9, <1>10

(* TrimSpace takes off white space at the ends only.                       *)
LEMMA Trimmed ==
  ASSUME NEW text \in Texts
  PROVE  Trim(text) \in Texts /\ (Settled(text) => Trim(text) = text)
<1> DEFINE n == Len(text)
           kept == {i \in DOMAIN text : text[i] \notin White}
<1>1. text \in Seq(Chars) /\ n \in Nat /\ DOMAIN text = 1..n
  BY LenProperties DEF Texts
<1>2. Trim(text) = IF kept = {} THEN <<>> ELSE SubSeq(text, Min(kept), Max(kept))
  BY DEF Trim
<1>3. kept \in SUBSET (1..n)
  BY <1>1
<1>4. ASSUME kept # {}
      PROVE  /\ Min(kept) \in kept /\ \A i \in kept : Min(kept) <= i
             /\ Max(kept) \in kept /\ \A i \in kept : i <= Max(kept)
  <2> HIDE DEF kept, n
  <2> QED BY <1>1, <1>3, <1>4, FirstOf, LastOf
<1>5. CASE kept = {}
  <2>1. Settled(text) => text = <<>>
    <3>1. text # <<>> => n \in 1..n /\ 1 \in 1..n
      BY <1>1, EmptySeq
    <3> QED BY <1>1, <1>5, <3>1 DEF Settled
  <2> QED BY <1>2, <1>5, <2>1 DEF Texts
<1>6. CASE kept # {}
  <2>1. Min(kept) \in 1..n /\ Max(kept) \in 1..n
    BY <1>3, <1>4, <1>6
  <2>2. Settled(text) => 1 \in kept /\ n \in kept
    <3>1. 1 \in 1..n /\ n \in 1..n /\ text # <<>>
      BY <1>1, <1>3, <1>6
    <3> QED BY <1>1, <3>1 DEF Settled
  <2>3. Settled(text) => Min(kept) = 1 /\ Max(kept) = n
    <3> HIDE DEF kept, n
    <3> QED BY <1>1, <1>4, <1>6, <2>1, <2>2
  <2> HIDE DEF kept
  <2>4. SubSeq(text, Min(kept), Max(kept)) \in Seq(Chars)
    <3>1. \A i \in Min(kept)..Max(kept) : text[i] \in Chars
      BY <1>1, <2>1, LenProperties
    <3> HIDE DEF n
    <3> QED BY <1>1, <2>1, <3>1, SubSeqProperties
  <2>5. SubSeq(text, 1, n) = text
    BY <1>1, SubSeqFull
  <2> QED BY <1>2, <1>6, <2>3, <2>4, <2>5 DEF Texts
<1> QED BY <1>5, <1>6

-----------------------------------------------------------------------------
(* Types                                                                   *)

(* The part of TypeOK that pages are made of.                              *)
RowsTyped == events \in [Ids -> Row \cup {NoRow}] /\ now \in Nows

LEMMA Listed ==
  ASSUME NEW from, NEW to, NEW id \in LoadEvents(from, to)
  PROVE  id \in Ids /\ Visible(id) /\ Overlaps(events[id], from, to)
  BY DEF LoadEvents, First, Matching

(* A page links to events of its list only.                                *)
LEMMA LinksListed ==
  ASSUME NEW page
  PROVE  EventsLive(page) \subseteq page.list
<1>1. \A d : EventsOnDay(page.list, d) \subseteq page.list
  BY DEF EventsOnDay, AllDayEvents, TimedEvents
<1>2. \A d : MonthCell(page.list, d).shown \subseteq page.list
  BY DEF MonthCell, First, AllDayEvents, TimedEvents
<1>3. \A days : TimeGrid(page, days) \subseteq page.list
  BY <1>1 DEF TimeGrid
<1>4. MonthGrid(page) \subseteq page.list
  BY <1>2 DEF MonthGrid
<1> QED BY <1>3, <1>4 DEF EventsLive, AgendaList

LEMMA ClockTyped ==
  ASSUME NEW t \in Int
  PROVE  Clock(t) \in Int
<1>1. Wall[t] \in Int /\ Minute \in Nat \ {0}
  BY LocalTyped, CalendarAssumption
<1> QED BY <1>1 DEF Clock, Cut

LEMMA FormTyped ==
  ASSUME RowsTyped, NEW id \in Ids \cup {0},
         id # 0 => Visible(id) /\ events[id].end # None
  PROVE  EventForm(id) \in Form
<1> DEFINE value == EventValue(id)
           cal == IF id # 0 /\ events[id].cal \in Writable THEN events[id].cal
                  ELSE CHOOSE w \in Writable : TRUE
<1>1. cal \in Calendars
  BY PagesAssumption DEF Writable
<1>2. /\ value.title \in Texts /\ value.description \in Texts
      /\ value.start \in Int \cup {None} /\ value.end \in Int \cup {None}
  <2>1. CASE id = 0
    <3>1. /\ now + Hour \in Int /\ now + 2 * Hour \in Int
          /\ HalfHour \in Nat \ {0}
      BY PagesAssumption, HourValue, CalendarAssumption DEF RowsTyped
    <3>2. Cut(now + Hour, HalfHour) \in Int /\ Cut(now + 2 * Hour, HalfHour) \in Int
      BY <3>1 DEF Cut
    <3>3. <<>> \in Texts
      BY DEF Texts
    <3> QED BY <2>1, <3>2, <3>3, ClockTyped DEF EventValue
  <2>2. CASE id # 0
    <3>1. events[id] \in Row /\ events[id].end \in Int
      BY <2>2 DEF RowsTyped, Visible, Present, Row
    <3>2. events[id].start \in Int
      BY <3>1 DEF Row
    <3> QED BY <2>2, <3>1, <3>2, ClockTyped DEF EventValue, Row
  <2> QED BY <2>1, <2>2
<1> HIDE DEF value, cal
<1> QED BY <1>1, <1>2 DEF EventForm, Form, value, cal

(* Any page of a date that is asked for is one.                            *)
PagesTyped ==
  /\ \A view \in Views : \A d \in Dates : \A id : Home(view, d, id) \in Tab
  /\ \A id : Home("agenda", Day(now), id) \in Tab

LEMMA HomeTyped == RowsTyped => PagesTyped
<1> SUFFICES ASSUME RowsTyped, NEW view \in Views, NEW d \in Dates, NEW id
             PROVE  Home(view, d, id) \in Tab
  BY PagesAssumption DEF PagesTyped, RowsTyped, Views
<1> DEFINE page == PageData(view, d, now, id)
<1>1. /\ page.view = view /\ page.date = d
      /\ page.edited \in page.list \cup {0}
      /\ \A i \in page.list : i \in Ids /\ Visible(i) /\ events[i].end # None
  BY Listed DEF PageData, Overlaps
<1>2. EventForm(page.edited) \in Form
  BY <1>1, FormTyped
<1>3. EventsLive(page) \subseteq Ids
  BY <1>1, LinksListed
<1> HIDE DEF page
<1>4. LiveArea(page) \in [view: Views, date: Dates, links: SUBSET Ids]
  BY <1>1, <1>3 DEF LiveArea
<1> QED BY <1>2, <1>4 DEF Home, Tab, page

LEMMA HomeTypedNext == RowsTyped' => PagesTyped'
  BY HomeTyped, PTL

LEMMA ChangedTyped ==
  ASSUME TypeOK, Changed
  PROVE  changes' \in 0..MaxChanges /\ now' \in Nows
<1>1. changes' \in 0..MaxChanges
  BY PagesAssumption DEF Changed, TypeOK
<1> QED BY <1>1 DEF Changed, TypeOK

LEMMA RedirectTyped ==
  ASSUME RowsTyped', NEW id, Redirected(id)
  PROVE  tab' \in Tab /\ stale' \in BOOLEAN
<1>1. PagesTyped'
  BY HomeTypedNext
<1>2. tab' = Home("agenda", Day(now), id)' /\ stale' = FALSE
  BY DEF Redirected
<1>3. \A i : Home("agenda", Day(now), i)' \in Tab
  BY <1>1 DEF PagesTyped
<1> QED BY <1>2, <1>3

(* What the owner types and what a tool is given make a row.               *)
LEMMA CreatedTyped ==
  ASSUME RowsTyped, NEW id \in Ids, NEW in, CreateLocalEvent(id, in),
         in.title \in Texts, in.description \in Texts, in.start \in Int, in.end \in Int,
         in.recurrence \in Rules
  PROVE  events' \in [Ids -> Row \cup {NoRow}]
<1>1. in.cal \in Calendars
  BY DEF CreateLocalEvent, Writable
<1>2. [i \in 1..id |-> "n"] \in Texts
  <2>1. id \in Nat
    BY PagesAssumption
  <2>2. [i \in 1..id |-> "n"] \in [1..id -> Chars]
    BY DEF Chars
  <2> HIDE DEF Chars
  <2> QED BY <2>1, <2>2, SeqDef DEF Texts
<1>3. Trim(in.title) \in Texts /\ Trim(in.description) \in Texts
  BY Trimmed
<1>4. [cal |-> in.cal, uid |-> [i \in 1..id |-> "n"], title |-> Trim(in.title),
       description |-> Trim(in.description), allDay |-> FALSE, start |-> in.start,
       end |-> in.end, recurrence |-> in.recurrence, dirty |-> TRUE, deleted |-> FALSE] \in Row
  BY <1>1, <1>2, <1>3 DEF Row
<1> QED BY <1>4 DEF CreateLocalEvent, RowsTyped

LEMMA UpdatedTyped ==
  ASSUME RowsTyped, NEW id \in Ids, NEW in, UpdateLocalEvent(id, in), in.cal \in Calendars,
         in.title \in Texts, in.description \in Texts, in.start \in Int, in.end \in Int,
         in.recurrence \in Rules
  PROVE  events' \in [Ids -> Row \cup {NoRow}]
<1>1. events[id] \in Row
  BY DEF UpdateLocalEvent, Present, RowsTyped
<1>2. Trim(in.title) \in Texts /\ Trim(in.description) \in Texts
  BY Trimmed
<1>3. [events[id] EXCEPT !.cal = in.cal, !.title = Trim(in.title),
         !.description = Trim(in.description), !.allDay = FALSE, !.start = in.start,
         !.end = in.end, !.recurrence = in.recurrence, !.dirty = TRUE] \in Row
  BY <1>1, <1>2 DEF Row
<1> QED BY <1>3 DEF UpdateLocalEvent, RowsTyped

LEMMA SubmitTyped ==
  ASSUME TypeOK, NEW form \in Form, NEW recurrence \in Rules, Submit(form, recurrence)
  PROVE  TypeOK'
<1> DEFINE in == Input(Sent(form), recurrence)
<1>1. PICK id \in Ids :
        /\ IF form.id = 0 THEN CreateLocalEvent(id, in)
           ELSE id = form.id /\ UpdateLocalEvent(id, in)
        /\ Redirected(id)
  BY DEF Submit
<1>2. /\ in.cal \in Calendars /\ in.title \in Texts /\ in.description \in Texts
      /\ in.start \in Int /\ in.end \in Int /\ in.recurrence \in Rules
  <2>1. form.start \in Int /\ form.end \in Int
    BY DEF Submit, Form
  <2>2. OneLine(form.title) \in Texts /\ Lines(form.description) \in Texts
    BY SentTexts DEF Form
  <2>3. /\ in.cal = form.cal /\ in.title = OneLine(form.title)
        /\ in.description = Lines(form.description) /\ in.recurrence = recurrence
        /\ in.start = FromWall[form.start] /\ in.end = FromWall[form.end]
    BY DEF Input, Sent, Form
  <2> HIDE DEF in
  <2> QED BY <2>1, <2>2, <2>3, LocalTyped DEF Form
<1> HIDE DEF in
<1>3. events' \in [Ids -> Row \cup {NoRow}]
  BY <1>1, <1>2, CreatedTyped, UpdatedTyped DEF TypeOK, RowsTyped
<1>4. changes' \in 0..MaxChanges /\ now' \in Nows
  BY ChangedTyped DEF Submit
<1>5. tab' \in Tab /\ stale' \in BOOLEAN
  BY <1>1, <1>3, <1>4, RedirectTyped DEF RowsTyped
<1> QED BY <1>3, <1>4, <1>5 DEF Submit, TypeOK

(* The columns of what can be read of an object.                           *)
LEMMA StoredTyped ==
  ASSUME NEW object \in Objects \cup {Earlier}, Readable(ParseICS(object.lines))
  PROVE  LET stored == StoredFields(ParseICS(object.lines))
         IN  /\ stored.title \in Texts /\ stored.description \in Texts
             /\ stored.allDay \in BOOLEAN /\ stored.start \in Int
             /\ stored.end \in Int \cup {None} /\ stored.recurrence \in Rules
             /\ NewRow(object) \in Row
<1> DEFINE e == ParseICS(object.lines)
           stored == StoredFields(e)
<1>1. object.cal \in Calendars /\ e \in Parsed /\ (e.startDate # None \/ e.start # None)
  BY ObjectsAssumption, ObjectTyped
<1> HIDE DEF e
<1>2. /\ stored.title \in Texts /\ stored.description \in Texts /\ stored.allDay \in BOOLEAN
      /\ stored.start \in Int /\ stored.end \in Int \cup {None} /\ stored.recurrence \in Rules
  BY <1>1 DEF Parsed, StoredFields, Texts
<1>3. e.uid \in Texts
  BY <1>1 DEF Parsed, Texts
<1> HIDE DEF stored
<1>4. NewRow(object) \in Row
  BY <1>1, <1>2, <1>3 DEF NewRow, Row, e, stored
<1> QED BY <1>2, <1>4 DEF e, stored

(* A sync refreshes a row or adds one.                                     *)
LEMMA ArrivedTyped ==
  ASSUME TypeOK, NEW object \in Objects, Arrives(object)
  PROVE  TypeOK'
<1> DEFINE e == ParseICS(object.lines)
           stored == StoredFields(e)
<1>1. /\ stored.title \in Texts /\ stored.description \in Texts /\ stored.allDay \in BOOLEAN
      /\ stored.start \in Int /\ stored.end \in Int \cup {None} /\ stored.recurrence \in Rules
      /\ NewRow(object) \in Row
  BY StoredTyped DEF Arrives
<1> HIDE DEF stored
<1>2. \A row \in Row : Refreshed(row, e) \in Row
  BY <1>1 DEF Refreshed, stored, Row
<1> HIDE DEF e
<1>3. \/ \E id \in Present : events' = [events EXCEPT ![id] = Refreshed(events[id], e)]
      \/ \E id \in Ids : events' = [events EXCEPT ![id] = NewRow(object)]
  BY DEF Arrives, e
<1>4. events' \in [Ids -> Row \cup {NoRow}]
  BY <1>1, <1>2, <1>3 DEF TypeOK, Present
<1>5. changes' \in 0..MaxChanges /\ now' \in Nows
  BY ChangedTyped DEF Arrives
<1> QED BY <1>4, <1>5 DEF Arrives, TypeOK

LEMMA StepTyped ==
  ASSUME TypeOK, [Next]_vars
  PROVE  TypeOK'
<1>1. RowsTyped /\ PagesTyped
  BY HomeTyped DEF TypeOK, RowsTyped
<1>2. ASSUME NEW view \in Views, NEW d, NEW id, Load(view, d, id), Browse
      PROVE  TypeOK'
  BY <1>1, <1>2 DEF Load, Browse, TypeOK, PagesTyped
<1>3. tab.view \in Views /\ tab.live.view \in Views /\ tab.form \in Form
  BY DEF TypeOK, Tab
<1>4. \A view \in Views : \A d : Open(view, d) => TypeOK'
  BY <1>2 DEF Open
<1>5. (\E delta : Navigate(delta)) \/ Today => TypeOK'
  BY <1>2, <1>3 DEF Navigate, Today
<1>6. \A id : Click(id) => TypeOK'
  BY <1>2, <1>3 DEF Click
<1>7. \A id : OpenFound(id) => TypeOK'
  BY <1>2 DEF OpenFound, Views
<1>8. LiveRefresh => TypeOK'
  <2> DEFINE page == PageData("agenda", Day(now), now, 0)
  <2>1. LiveArea(page) = Home("agenda", Day(now), 0).live
    BY DEF Home
  <2>2. LiveArea(page) \in [view: Views, date: Dates, links: SUBSET Ids]
    BY <1>1, <2>1 DEF PagesTyped, Tab
  <2> HIDE DEF page
  <2>3. [tab EXCEPT !.live = LiveArea(page)] \in Tab
    BY <2>2 DEF TypeOK, Tab
  <2> QED BY <2>3 DEF LiveRefresh, TypeOK, page
<1>9. Tick => TypeOK'
  BY DEF Tick, TypeOK
<1>10. SaveAsShown => TypeOK'
  BY <1>3, SubmitTyped DEF SaveAsShown, Rules
<1>11. \A text \in Titles : Reword(text) => TypeOK'
  <2>1. ASSUME NEW text \in Titles
        PROVE  [tab.form EXCEPT !.title = text, !.description = text] \in Form
    BY <1>3, PagesAssumption DEF Form
  <2> QED BY <2>1, SubmitTyped DEF Reword, Rules
<1>12. \A t \in Times : Reschedule(t) => TypeOK'
  <2>1. ASSUME NEW t \in Times
        PROVE  [tab.form EXCEPT !.start = t[1], !.end = t[2],
                  !.title = IF @ = <<>> THEN <<"x">> ELSE @] \in Form
    <3>1. t[1] \in Int /\ t[2] \in Int
      BY PagesAssumption
    <3>2. <<"x">> \in Texts
      BY DEF Texts, Chars
    <3> QED BY <1>3, <3>1, <3>2 DEF Form
  <2> QED BY <2>1, SubmitTyped DEF Reschedule, Rules
<1>13. Delete => TypeOK'
  <2> SUFFICES ASSUME Delete
               PROVE  TypeOK'
    OBVIOUS
  <2>1. events' \in [Ids -> Row \cup {NoRow}]
    <3>1. events[tab.form.id] \in Row
      BY DEF Delete, Present, TypeOK
    <3>2. [events[tab.form.id] EXCEPT !.deleted = TRUE, !.dirty = TRUE] \in Row
      BY <3>1 DEF Row
    <3> QED BY <3>1, <3>2 DEF Delete, TypeOK, Row
  <2>2. changes' \in 0..MaxChanges /\ now' \in Nows
    BY ChangedTyped DEF Delete
  <2>3. tab' \in Tab /\ stale' \in BOOLEAN
    BY <2>1, <2>2, RedirectTyped DEF Delete, RowsTyped
  <2> QED BY <2>1, <2>2, <2>3 DEF Delete, TypeOK
<1>14. ASSUME NEW calendars \in SUBSET Calendars, Select(calendars)
       PROVE  TypeOK'
  <2>1. events' \in [Ids -> Row \cup {NoRow}]
    BY <1>14 DEF Select, TypeOK
  <2>2. changes' \in 0..MaxChanges /\ now' \in Nows
    BY <1>14, ChangedTyped DEF Select
  <2>3. tab' \in Tab /\ stale' \in BOOLEAN
    BY <1>14, <2>1, <2>2, RedirectTyped DEF Select, RowsTyped
  <2> QED BY <1>14, <2>1, <2>2, <2>3 DEF Select, TypeOK
<1>15. ASSUME NEW cal \in Calendars, NEW text \in Titles, NEW t \in Times,
              NEW recurrence \in {"", "FREQ"}, ToolCreates(cal, text, t, recurrence)
       PROVE  TypeOK'
  <2> DEFINE in == [cal |-> cal, title |-> text, description |-> text, start |-> t[1],
                    end |-> t[2], recurrence |-> recurrence]
  <2>1. PICK id \in Ids : CreateLocalEvent(id, in)
    BY <1>15 DEF ToolCreates
  <2>2. /\ in.title \in Texts /\ in.description \in Texts
        /\ in.start \in Int /\ in.end \in Int /\ in.recurrence \in Rules
    <3>1. t[1] \in Int /\ t[2] \in Int
      BY PagesAssumption
    <3> QED BY <3>1, PagesAssumption DEF Rules
  <2> HIDE DEF in
  <2>3. events' \in [Ids -> Row \cup {NoRow}]
    BY <1>1, <2>1, <2>2, CreatedTyped
  <2>4. changes' \in 0..MaxChanges /\ now' \in Nows
    BY <1>15, ChangedTyped DEF ToolCreates
  <2> QED BY <1>15, <2>3, <2>4 DEF ToolCreates, TypeOK
<1>16. \A object \in Objects : Arrives(object) => TypeOK'
  BY ArrivedTyped
<1>17. \A id : Pushed(id) => TypeOK'
  <2>1. ASSUME NEW id, Pushed(id)
        PROVE  TypeOK'
    <3>1. events[id] \in Row
      BY <2>1 DEF Pushed, Present, TypeOK
    <3>2. [events[id] EXCEPT !.dirty = FALSE] \in Row
      BY <3>1 DEF Row
    <3> QED BY <2>1, <3>2 DEF Pushed, TypeOK
  <2> QED BY <2>1
<1>18. CASE UNCHANGED vars
  BY <1>18 DEF vars, TypeOK
<1> QED BY <1>4, <1>5, <1>6, <1>7, <1>8, <1>9, <1>10, <1>11, <1>12, <1>13, <1>14, <1>15,
           <1>16, <1>17, <1>18 DEF Next

(* Every row, every form and every page is what its table or its template  *)
(* says it is: no page names an event that cannot be.                      *)
THEOREM TypeCorrect == Spec => []TypeOK
<1>1. Init => TypeOK
  <2>1. ASSUME Init
        PROVE  TypeOK
    <3>1. now \in Nows
      BY <2>1, PagesAssumption DEF Init
    <3>2. events \in [Ids -> Row \cup {NoRow}]
      <4>1. NewRow(Earlier) \in Row
        BY ObjectsAssumption, StoredTyped
      <4> QED BY <2>1, <4>1 DEF Init
    <3>3. tab \in Tab
      BY <2>1, <3>1, <3>2, HomeTyped DEF Init, RowsTyped, PagesTyped
    <3>4. changes \in 0..MaxChanges
      BY <2>1, PagesAssumption DEF Init
    <3> QED BY <2>1, <3>1, <3>2, <3>3, <3>4 DEF Init, TypeOK
  <2> QED BY <2>1
<1> QED BY <1>1, StepTyped, PTL DEF Spec

-----------------------------------------------------------------------------
(* Lists                                                                   *)

(* Sooner orders the rows.                                                 *)
LEMMA Ordered ==
  ASSUME RowsTyped, NEW i \in Present, NEW j \in Present, NEW k \in Present
  PROVE  /\ ~Sooner(i, i)
         /\ Sooner(i, j) /\ Sooner(j, k) => Sooner(i, k)
         /\ i # j => Sooner(i, j) \/ Sooner(j, i)
<1>1. \A h \in Present : SortKey(events[h]) \in Int /\ h \in Nat
  <2>1. ASSUME NEW h \in Present
        PROVE  SortKey(events[h]) \in Int /\ h \in Nat
    <3>1. events[h] \in Row /\ h \in Nat
      BY PagesAssumption DEF RowsTyped, Present
    <3> QED BY <3>1, CalendarAssumption DEF SortKey, Row
  <2> QED BY <2>1
<1> QED BY <1>1 DEF Sooner

(* How many of S are before i.                                             *)
Before(S, i) == {j \in S : Sooner(j, i)}
Rank(S, i) == Cardinality(Before(S, i))

LEMMA Ranks ==
  ASSUME RowsTyped, NEW S \in SUBSET Present
  PROVE  /\ IsFiniteSet(S) /\ Cardinality(S) \in Nat
         /\ \A n : First(S, n) = {i \in S : Rank(S, i) < n}
         /\ \A i \in S : Rank(S, i) \in Nat /\ Rank(S, i) < Cardinality(S)
         /\ \A i, j \in S : Sooner(i, j) => Rank(S, i) < Rank(S, j)
<1>1. IsFiniteSet(S) /\ Cardinality(S) \in Nat
  BY PagesAssumption, FS_Subset, FS_CardinalityType DEF Present
<1>2. \A i \in S : IsFiniteSet(Before(S, i))
  BY <1>1, FS_Subset DEF Before
<1>3. \A i \in S : Rank(S, i) \in Nat
  BY <1>2, FS_CardinalityType DEF Rank
<1>4. ASSUME NEW i \in S
      PROVE  Rank(S, i) < Cardinality(S)
  <2>1. Before(S, i) \subseteq S /\ i \notin Before(S, i)
    BY Ordered DEF Before
  <2>2. Rank(S, i) <= Cardinality(S) /\ Rank(S, i) # Cardinality(S)
    BY <1>1, <2>1, FS_Subset DEF Rank
  <2> QED BY <1>1, <1>3, <2>2
<1>5. ASSUME NEW i \in S, NEW j \in S, Sooner(i, j)
      PROVE  Rank(S, i) < Rank(S, j)
  <2>1. Before(S, i) \subseteq Before(S, j)
    BY <1>5, Ordered DEF Before
  <2>2. i \in Before(S, j) /\ i \notin Before(S, i)
    BY <1>5, Ordered DEF Before
  <2>3. Rank(S, i) <= Rank(S, j) /\ Rank(S, i) # Rank(S, j)
    BY <1>2, <2>1, <2>2, FS_Subset DEF Rank
  <2> QED BY <1>3, <2>3
<1>6. \A n : First(S, n) = {i \in S : Rank(S, i) < n}
  BY DEF First, Rank, Before
<1> QED BY <1>1, <1>3, <1>4, <1>5, <1>6

(* The first n of some events are n of them, or all.                       *)
LEMMA FirstCounts ==
  ASSUME RowsTyped, NEW S \in SUBSET Present, NEW n \in Nat
  PROVE  /\ IsFiniteSet(First(S, n)) /\ First(S, n) \subseteq S
         /\ Cardinality(S) <= n => First(S, n) = S
         /\ n < Cardinality(S) => Cardinality(First(S, n)) = n
<1> DEFINE N == Cardinality(S)
           rank == [i \in S |-> Rank(S, i)]
           top == [i \in First(S, n) |-> Rank(S, i)]
<1>1. /\ IsFiniteSet(S) /\ N \in Nat
      /\ First(S, n) = {i \in S : Rank(S, i) < n}
      /\ \A i \in S : Rank(S, i) \in Nat /\ Rank(S, i) < N
      /\ \A i, j \in S : Sooner(i, j) => Rank(S, i) < Rank(S, j)
  BY Ranks
<1>2. \A i, j \in S : Rank(S, i) = Rank(S, j) => i = j
  BY <1>1, Ordered
<1>3. First(S, n) \subseteq S /\ IsFiniteSet(First(S, n))
  BY <1>1, FS_Subset
<1>4. ASSUME N <= n
      PROVE  First(S, n) = S
  BY <1>1, <1>4
<1>5. ASSUME n < N
      PROVE  Cardinality(First(S, n)) = n
  <2>1. rank \in Injection(S, 0..(N - 1))
    BY <1>1, <1>2 DEF Injection, IsInjective
  <2>2. IsFiniteSet(0..(N - 1)) /\ Cardinality(0..(N - 1)) = N
    BY <1>1, FS_Interval
  <2>3. rank \in Surjection(S, 0..(N - 1))
    <3> HIDE DEF rank
    <3> QED BY <2>1, <2>2, FS_Injection DEF N
  <2>4. \A k \in 0..(N - 1) : \E i \in S : Rank(S, i) = k
    BY <2>3 DEF Surjection
  <2>5. top \in Injection(First(S, n), 0..(n - 1))
    BY <1>1, <1>2, <1>3 DEF Injection, IsInjective
  <2>6. top \in Surjection(First(S, n), 0..(n - 1))
    <3>1. ASSUME NEW k \in 0..(n - 1)
          PROVE  \E i \in First(S, n) : top[i] = k
      <4>1. PICK i \in S : Rank(S, i) = k
        BY <1>1, <1>5, <2>4
      <4>2. i \in First(S, n)
        BY <1>1, <4>1
      <4> QED BY <4>1, <4>2
    <3>2. top \in [First(S, n) -> 0..(n - 1)]
      BY <2>5 DEF Injection
    <3> QED BY <3>1, <3>2 DEF Surjection
  <2>7. IsFiniteSet(0..(n - 1)) /\ Cardinality(0..(n - 1)) = n
    BY FS_Interval
  <2> HIDE DEF top
  <2> QED BY <2>5, <2>6, <2>7, FS_Injection
<1> QED BY <1>3, <1>4, <1>5

(* A query that finds no more than its limit returns what it finds.        *)
LEMMA AllReturned ==
  ASSUME RowsTyped, NEW from, NEW to, Cardinality(Matching(from, to)) <= Limit
  PROVE  LoadEvents(from, to) = Matching(from, to)
<1>1. Matching(from, to) \in SUBSET Present
  BY DEF Matching, Visible
<1> QED BY <1>1, FirstCounts, PagesAssumption DEF LoadEvents

-----------------------------------------------------------------------------
(* What is seen on a day                                                   *)

LEMMA Dated ==
  ASSUME NEW t \in Int, NEW d \in Int
  PROVE  Midnight(d) <= t /\ t < Midnight(d + 1) <=> Day(t) = d
<1>1. d + 1 \in Int /\ Midnight(d + 1) \in Int /\ Day(t) \in Int
  BY Midnights, DaysBeginAtMidnight
<1> QED BY <1>1, DaysBeginAtMidnight

(* The events of a range of dates are shown on those they happen on.       *)
LEMMA RangeShows ==
  ASSUME TypeOK, Cardinality(Matching(Asked.from, Asked.to)) <= Limit,
         NEW first \in Int, NEW last \in Int, NEW d \in Int, first <= d, d < last,
         Asked.from = Midnight(first), Asked.to = Midnight(last)
  PROVE  DayShown(d)
<1> DEFINE all == Matching(Asked.from, Asked.to)
<1>1. Found = all
  BY AllReturned DEF Found, TypeOK, RowsTyped
<1>2. /\ Midnight(first) \in Int /\ Midnight(last) \in Int /\ Midnight(d) \in Int
      /\ Midnight(d + 1) \in Int
      /\ Day(Midnight(first)) = first /\ Day(Midnight(last)) = last /\ Day(Midnight(d)) = d
      /\ Midnight(first) <= Midnight(d) /\ Midnight(d + 1) <= Midnight(last)
  <2>1. d + 1 \in Int /\ d + 1 <= last
    OBVIOUS
  <2>2. /\ Midnight(first) \in Int /\ Midnight(last) \in Int /\ Midnight(d) \in Int
        /\ Midnight(d + 1) \in Int
    BY <2>1, Midnights
  <2>3. ~(Midnight(d) < Midnight(first)) /\ ~(Midnight(last) < Midnight(d + 1))
    BY <2>1, MidnightsInOrder
  <2> QED BY <2>2, <2>3, MidnightsInOrder
<1>3. ASSUME NEW id \in Ids, Visible(id)
      PROVE  id \in ToBeSeenOn(d) <=> id \in EventsOnDay(all, d) /\ Lasts(events[id])
  <2> DEFINE row == events[id]
  <2>1. row \in Row
    BY <1>3 DEF Visible, Present, TypeOK
  <2>2. row.start \in Int /\ row.end \in Int \cup {None} /\ row.allDay \in BOOLEAN
    BY <2>1 DEF Row
  <2>3. id \in ToBeSeenOn(d) <=> Lasts(row) /\ HappensOn(row, d)
    BY <1>3 DEF ToBeSeenOn
  <2>4. id \in EventsOnDay(all, d) <=>
          /\ Overlaps(row, Midnight(first), Midnight(last))
          /\ IF row.allDay THEN row.start <= d /\ d < row.end ELSE Day(row.start) = d
    BY <1>2, <1>3, <2>2
       DEF EventsOnDay, AllDayEvents, TimedEvents, SameDay, Matching
  <2> HIDE DEF row
  <2>5. CASE row.allDay
    BY <1>2, <2>2, <2>3, <2>4, <2>5 DEF Lasts, HappensOn, Overlaps, row
  <2>6. CASE ~row.allDay
    <3>1. Midnight(d) <= row.start /\ row.start < Midnight(d + 1) <=> Day(row.start) = d
      BY <2>2, Dated
    <3> QED BY <1>2, <2>2, <2>3, <2>4, <2>6, <3>1 DEF Lasts, HappensOn, Overlaps, row
  <2> QED BY <2>2, <2>5, <2>6
<1>4. \A id : id \in ToBeSeenOn(d) \/ id \in EventsOnDay(all, d) => id \in Ids /\ Visible(id)
  BY DEF ToBeSeenOn, EventsOnDay, AllDayEvents, TimedEvents, Matching
<1> QED BY <1>1, <1>3, <1>4 DEF DayShown

(* README.md:154: of the events that are selected, a day of a day page or  *)
(* of a week page has each one that happens on it and no other, whatever   *)
(* the zone and the calendar, if the query finds no more than its limit.   *)
THEOREM DaysAreShown ==
  ASSUME TypeOK, Cardinality(Matching(Asked.from, Asked.to)) <= Limit
  PROVE  DaysShown
<1> DEFINE view == tab.view
           date == tab.date
           first == IF view = "day" THEN date ELSE WeekStart(date)
           last == IF view = "day" THEN date + 1 ELSE WeekStart(date) + WeekLen
           days == IF view = "day" THEN {date} ELSE WeekDays(date)
<1> SUFFICES ASSUME view \in {"day", "week"}, NEW d \in days
             PROVE  DayShown(d)
  BY DEF DaysShown
<1>1. date \in Int
  BY PagesAssumption DEF TypeOK, Tab
<1>2. first \in Int /\ last \in Int /\ d \in Int /\ first <= d /\ d < last
  <2>1. CASE view = "day"
    BY <1>1, <2>1
  <2>2. CASE view # "day"
    <3>1. WeekStart(date) \in Int /\ WeekLen \in Nat \ {0}
      BY <1>1, WeeksBegin, CalendarAssumption
    <3>2. d \in WeekStart(date) .. (WeekStart(date) + WeekLen - 1)
      BY <2>2 DEF WeekDays
    <3> QED BY <2>2, <3>1, <3>2
  <2> QED BY <2>1, <2>2
<1>3. Asked.from = Midnight(first) /\ Asked.to = Midnight(last)
  BY <1>1, Ranges DEF Asked
<1> HIDE DEF first, last, days, view, date
<1> QED BY <1>2, <1>3, RangeShows

(* A cell of the month shows as many events as it has room for, and counts *)
(* the others.                                                             *)
LEMMA CellCounts ==
  ASSUME RowsTyped, NEW S \in SUBSET Present, NEW d
  PROVE  LET all == EventsOnDay(S, d)
             cell == MonthCell(S, d)
         IN  /\ cell.shown \subseteq all
             /\ Cardinality(all) = Cardinality(cell.shown) + cell.more
<1> DEFINE A == AllDayEvents(S, d)
           T == TimedEvents(S, d)
           whole == First(A, CellLimit)
           room == CellLimit - Cardinality(whole)
           rest == First(T, room)
           a == Cardinality(A)
           t == Cardinality(T)
<1>1. A \in SUBSET Present /\ T \in SUBSET Present /\ A \cap T = {}
  BY DEF AllDayEvents, TimedEvents
<1>2. CellLimit \in Nat
  BY PagesAssumption
<1>3. IsFiniteSet(A) /\ IsFiniteSet(T) /\ a \in Nat /\ t \in Nat
  BY <1>1, Ranks
<1> HIDE DEF A, T
<1>4. /\ IsFiniteSet(whole) /\ whole \subseteq A
      /\ Cardinality(whole) = IF a <= CellLimit THEN a ELSE CellLimit
  BY <1>1, <1>2, <1>3, FirstCounts
<1>5. room \in Nat
  BY <1>2, <1>3, <1>4
<1> HIDE DEF room
<1>6. /\ IsFiniteSet(rest) /\ rest \subseteq T
      /\ Cardinality(rest) = IF t <= room THEN t ELSE room
  BY <1>1, <1>3, <1>5, FirstCounts
<1>7. Cardinality(A \cup T) = a + t
  <2>1. Cardinality(A \cup T) = a + t - Cardinality(A \cap T)
    BY <1>3, FS_Union
  <2> QED BY <1>1, <1>3, <2>1, FS_EmptySet
<1> HIDE DEF whole, rest
<1>8. Cardinality(whole \cup rest) = Cardinality(whole) + Cardinality(rest)
  <2>1. whole \cap rest = {}
    BY <1>1, <1>4, <1>6
  <2>2. Cardinality(whole) \in Nat /\ Cardinality(rest) \in Nat
    BY <1>4, <1>6, FS_CardinalityType
  <2>3. Cardinality(whole \cup rest)
          = Cardinality(whole) + Cardinality(rest) - Cardinality(whole \cap rest)
    BY <1>4, <1>6, FS_Union
  <2>4. Cardinality(whole \cap rest) = 0
    BY <2>1, FS_EmptySet
  <2> QED BY <2>2, <2>3, <2>4
<1> DEFINE more(n) == IF n > CellLimit THEN n - CellLimit ELSE 0
<1>9. EventsOnDay(S, d) = A \cup T
  BY DEF EventsOnDay, A, T
<1>10. /\ MonthCell(S, d).shown = whole \cup rest
       /\ MonthCell(S, d).more = more(a + t)
  <2>1. /\ MonthCell(S, d).shown = whole \cup rest
        /\ MonthCell(S, d).more = more(Cardinality(EventsOnDay(S, d)))
    BY DEF MonthCell, A, T, whole, rest, room
  <2> HIDE DEF more, a, t
  <2> QED BY <1>7, <1>9, <2>1
<1>11. whole \cup rest \subseteq A \cup T
  BY <1>4, <1>6
<1>12. a + t = (Cardinality(whole) + Cardinality(rest)) + more(a + t)
  <2> DEFINE w == Cardinality(whole)
             r == Cardinality(rest)
  <2>1. w = IF a <= CellLimit THEN a ELSE CellLimit
    BY <1>4
  <2>2. r = IF t <= CellLimit - w THEN t ELSE CellLimit - w
    BY <1>6 DEF room
  <2> HIDE DEF a, t, w, r
  <2>3. a + t = (w + r) + more(a + t)
    BY <1>2, <1>3, <2>1, <2>2
  <2> QED BY <2>3 DEF w, r
<1> HIDE DEF a, t, more
<1> QED BY <1>7, <1>8, <1>9, <1>10, <1>11, <1>12

(* The same of a month page, where a cell has room for some of them.       *)
THEOREM MonthsAreShown ==
  ASSUME TypeOK, Cardinality(Matching(Asked.from, Asked.to)) <= Limit
  PROVE  MonthShown
<1> DEFINE date == tab.date
<1> SUFFICES ASSUME tab.view = "month", NEW d \in MonthDays(date), MonthOf[d] = MonthOf[date]
             PROVE  /\ DayShown(d)
                    /\ MonthCell(Found, d).shown \subseteq EventsOnDay(Found, d)
                    /\ Cardinality(EventsOnDay(Found, d)) =
                          Cardinality(MonthCell(Found, d).shown) + MonthCell(Found, d).more
  BY DEF MonthShown
<1>1. date \in Dates /\ date \in Int
  BY PagesAssumption DEF TypeOK, Tab
<1> HIDE DEF date
<1>2. PICK m \in 0..(Months - 1) : MonthStart[m] <= date /\ date < MonthStart[m + 1]
  BY <1>1, DatesKnown
<1>3. PICK n \in 0..(Months - 1) : MonthStart[n] <= d /\ d < MonthStart[n + 1]
  BY <1>1, PagesAssumption
<1>4. /\ MonthOf[date] = m
      /\ Asked.from = Midnight(MonthStart[m]) /\ Asked.to = Midnight(MonthStart[m + 1])
  BY <1>1, <1>2, MonthRange DEF Asked, date
<1>5. d \in Int
  <2>1. FirstOfMonth(date) \in Int
    BY <1>2, <1>4, CalendarAssumption DEF FirstOfMonth
  <2>2. WeekStart(FirstOfMonth(date)) \in Int
    BY <2>1, WeeksBegin
  <2> QED BY <2>2, CalendarAssumption DEF MonthDays
<1>6. n = m
  BY <1>3, <1>4, <1>5, MonthKnown
<1>7. MonthStart[m] \in Int /\ MonthStart[m + 1] \in Int
  BY CalendarAssumption
<1>8. DayShown(d)
  BY <1>3, <1>4, <1>5, <1>6, <1>7, RangeShows
<1>9. Found \in SUBSET Present
  BY Listed DEF Found, Visible
<1>10. RowsTyped
  BY DEF TypeOK, RowsTyped
<1> QED BY <1>8, <1>9, <1>10, CellCounts

(* README.md:154: at all times, a day, a week or a month page has what     *)
(* happens on its days.                                                    *)
THEOREM PagesAlwaysShow == Spec => []PagesShowTheirDays
<1>1. TypeOK => PagesShowTheirDays
  BY DaysAreShown, MonthsAreShown DEF PagesShowTheirDays
<1> QED BY <1>1, TypeCorrect, PTL

-----------------------------------------------------------------------------
(* The dashboard                                                           *)

(* If the events of a list that some range asks for come before the others *)
(* of the list, what the range returns is the first of what the list does. *)
LEMMA FirstOfFirst ==
  ASSUME RowsTyped, NEW B \in SUBSET Present, NEW A \in SUBSET B, NEW n \in Nat,
         \A i \in A : \A j \in B \ A : Sooner(i, j)
  PROVE  First(A, n) = First(First(B, n), Cardinality(First(A, n)))
<1> DEFINE F == First(B, n)
<1>1. A \in SUBSET Present
  OBVIOUS
<1>2. /\ IsFiniteSet(B) /\ F = {i \in B : Rank(B, i) < n}
      /\ \A i \in B : Rank(B, i) \in Nat
      /\ \A i, j \in B : Sooner(i, j) => Rank(B, i) < Rank(B, j)
  BY Ranks
<1>3. /\ IsFiniteSet(A) /\ Cardinality(A) \in Nat
      /\ First(A, n) = {i \in A : Rank(A, i) < n}
      /\ \A i \in A : Rank(A, i) \in Nat /\ Rank(A, i) < Cardinality(A)
  BY <1>1, Ranks
<1>4. ASSUME NEW i \in A
      PROVE  Rank(B, i) = Rank(A, i)
  <2>1. ASSUME NEW j \in B, Sooner(j, i)
        PROVE  j \in A
    <3>1. j \notin A => Sooner(i, j)
      OBVIOUS
    <3>2. ~(Sooner(i, j) /\ Sooner(j, i))
      BY Ordered
    <3> QED BY <2>1, <3>1, <3>2
  <2>2. Before(B, i) = Before(A, i)
    BY <2>1 DEF Before
  <2> QED BY <2>2 DEF Rank
<1>5. ASSUME NEW j \in B \ A
      PROVE  Cardinality(A) <= Rank(B, j)
  <2>1. A \subseteq Before(B, j)
    BY DEF Before
  <2>2. IsFiniteSet(Before(B, j))
    BY <1>2, FS_Subset DEF Before
  <2> QED BY <2>1, <2>2, FS_Subset DEF Rank
<1>6. ASSUME NEW i \in F
      PROVE  Rank(F, i) = Rank(B, i)
  <2>1. ASSUME NEW j \in B, Sooner(j, i)
        PROVE  j \in F
    <3>1. Rank(B, j) < Rank(B, i) /\ Rank(B, i) < n
      BY <1>2, <2>1
    <3>2. Rank(B, j) \in Nat /\ Rank(B, i) \in Nat
      BY <1>2
    <3> QED BY <1>2, <3>1, <3>2
  <2>2. F \subseteq B
    BY <1>2
  <2> HIDE DEF F
  <2>3. Before(F, i) = Before(B, i)
    BY <2>1, <2>2 DEF Before
  <2> QED BY <2>3 DEF Rank
<1>7. F \subseteq B
  BY <1>2
<1>8. \A k : First(F, k) = {i \in F : Rank(B, i) < k}
  <2>1. \A k : First(F, k) = {i \in F : Rank(F, i) < k}
    BY DEF First, Rank, Before
  <2> HIDE DEF F
  <2> QED BY <1>6, <2>1
<1> HIDE DEF F
<1>9. First(A, n) = A \cap F
  BY <1>2, <1>3, <1>4
<1>10. CASE Cardinality(A) <= n
  <2>1. First(A, n) = A
    BY <1>1, <1>10, FirstCounts
  <2>2. \A i \in F : Rank(B, i) < Cardinality(A) <=> i \in A
    BY <1>2, <1>3, <1>4, <1>5, <1>7
  <2>3. First(F, Cardinality(A)) = A
    BY <1>8, <1>9, <2>1, <2>2
  <2> QED BY <2>1, <2>3 DEF F
<1>11. CASE n < Cardinality(A)
  <2>1. Cardinality(First(A, n)) = n
    BY <1>1, <1>11, FirstCounts
  <2>2. F \subseteq A
    BY <1>2, <1>3, <1>5, <1>11
  <2>3. First(F, n) = F
    BY <1>2, <1>8
  <2> QED BY <1>9, <2>1, <2>2, <2>3 DEF F
<1> QED BY <1>3, <1>10, <1>11

(* A local time is at one of the two offsets.                              *)
LEMMA Offsets ==
  ASSUME NEW w \in Int
  PROVE  FromWall[w] \in Int /\ w - Standard - Hour <= FromWall[w] /\ FromWall[w] <= w - Standard
  BY ZoneAssumption, HourValue DEF FromWall, Offset, Wall, Period

(* Today ends before three months have passed, and within a day of when    *)
(* its date ends in UTC.                                                   *)
LEMMA TodayEnds ==
  ASSUME RowsTyped
  PROVE  /\ now \in Int /\ Day(now) \in Int
         /\ EndOfDay(now) \in Int /\ MonthsLater(now, 3) \in Int
         /\ Day(EndOfDay(now)) = Day(now) + 1 /\ Day(MonthsLater(now, 3)) \in Int
         /\ EndOfDay(now) <= MonthsLater(now, 3)
         /\ Day(EndOfDay(now)) <= Day(MonthsLater(now, 3))
         /\ Day(now) * DayLen < EndOfDay(now)
         /\ Standard >= 0 => EndOfDay(now) <= (Day(now) + 1) * DayLen
<1> DEFINE d == Day(now)
           eod == EndOfDay(now)
           to == MonthsLater(now, 3)
           days == AddMonths(d, 3) - d
<1>1. now \in Int /\ d \in Dates /\ d \in Int
  BY PagesAssumption DEF RowsTyped
<1>2. DayLen \in Nat /\ DayLen > 1 /\ Standard \in Int /\ Standard + Hour < DayLen
      /\ Hour \in Nat /\ 0 < Hour /\ Hour < DayLen
  BY HourValue, ZoneAssumption
<1>3. d + 1 \in Int /\ eod = Midnight(d + 1)
  <2>1. EndOfDay(now) = AddDays(Midnight(d), 1)
    BY DEF EndOfDay
  <2> HIDE DEF d
  <2>2. AddDays(Midnight(d), 1) = Midnight(d + 1) /\ d + 1 \in Int
    BY <1>1, MidnightsApart
  <2> QED BY <2>1, <2>2
<1>4. eod \in Int /\ Day(eod) = d + 1
  BY <1>3, Midnights, MidnightsInOrder
<1>5. days \in Int /\ days >= 3
  <2>1. PICK m \in 0..(Months - 3) : MonthStart[m] <= d /\ d < MonthStart[m + 1]
    BY <1>1, PagesAssumption
  <2>2. m \in 0..(Months - 1) /\ m \in 0..Months /\ m + 1 \in 0..Months
        /\ m + 2 \in 0..Months /\ m + 3 \in 0..Months
    BY <2>1, CalendarAssumption
  <2>3. MonthOf[d] = m
    BY <1>1, <2>1, <2>2, MonthKnown
  <2> DEFINE s0 == MonthStart[m]  s1 == MonthStart[m + 1]
             s2 == MonthStart[m + 2]  s3 == MonthStart[m + 3]
  <2>4. s0 \in Int /\ s1 \in Int /\ s2 \in Int /\ s3 \in Int
        /\ s0 < s1 /\ s1 < s2 /\ s2 < s3
    BY <2>2, CalendarAssumption
  <2>5. AddMonths(d, 3) = d - s0 + s3
    BY <2>3 DEF AddMonths
  <2> HIDE DEF s0, s1, s2, s3, d
  <2> QED BY <1>1, <2>4, <2>5
<1>6. Wall[now] \in Int /\ d * DayLen \in Int /\ d * DayLen <= Wall[now]
  <2>1. Wall[now] \in Int
    BY <1>1, WallValue
  <2>2. DayLen * d <= Wall[now]
    BY <1>2, <2>1, Quotient DEF Day
  <2> HIDE DEF d
  <2> QED BY <1>1, <1>2, <2>1, <2>2, Products
<1>7. days * DayLen \in Int /\ 3 * DayLen <= days * DayLen
  <2> HIDE DEF days
  <2> QED BY <1>2, <1>5, Products
<1>8. to = FromWall[Wall[now] + days * DayLen]
  BY DEF MonthsLater, AddDays
<1>9. eod = FromWall[(d + 1) * DayLen]
  BY <1>3 DEF Midnight
<1> HIDE DEF d, eod, to, days
<1>10. (d + 1) * DayLen \in Int /\ (d + 1) * DayLen = d * DayLen + DayLen
  BY <1>1, <1>2, Products
<1> DEFINE w == Wall[now] + days * DayLen
<1>11. to \in Int /\ w - Standard - Hour <= to
  <2>1. w \in Int /\ to = FromWall[w]
    BY <1>6, <1>7, <1>8
  <2> HIDE DEF w
  <2> QED BY <2>1, Offsets
<1>12. /\ (d + 1) * DayLen - Standard - Hour <= eod
       /\ eod <= (d + 1) * DayLen - Standard
  BY <1>9, <1>10, Offsets
<1> DEFINE start == d * DayLen
           span == days * DayLen
           next == (d + 1) * DayLen
<1>13. /\ eod <= to /\ start < eod
       /\ Standard >= 0 => eod <= next
  <2> HIDE DEF start, span, next
  <2>1. start \in Int /\ span \in Int /\ next = start + DayLen /\ 3 * DayLen <= span
        /\ start <= Wall[now]
    BY <1>6, <1>7, <1>10 DEF start, span, next
  <2>2. w = Wall[now] + span
    BY DEF span
  <2> HIDE DEF w
  <2>3. /\ to \in Int /\ w - Standard - Hour <= to
        /\ next - Standard - Hour <= eod /\ eod <= next - Standard
    BY <1>11, <1>12 DEF next
  <2> QED BY <1>2, <1>4, <1>6, <2>1, <2>2, <2>3
<1>14. Day(to) \in Int /\ Day(eod) <= Day(to)
  BY <1>3, <1>4, <1>11, <1>13, DaysBeginAtMidnight
<1> QED BY <1>1, <1>4, <1>11, <1>13, <1>14 DEF d, eod, to

(* The keys that dates and instants are sorted by.                         *)
LEMMA Keys ==
  ASSUME NEW row \in Row, row.start \in Int, NEW d \in Int
  PROVE  /\ SortKey(row) \in Int /\ 2 * (d * DayLen) \in Int
         /\ row.allDay /\ row.start <= d => SortKey(row) <= 2 * (d * DayLen)
         /\ row.allDay /\ d <= row.start => 2 * (d * DayLen) <= SortKey(row)
         /\ ~row.allDay => SortKey(row) = 2 * row.start + 1
<1> DEFINE s == row.start  x == s * DayLen  u == d * DayLen
<1>1. DayLen \in Nat /\ DayLen > 0 /\ s \in Int
  BY HourValue
<1>2. x \in Int /\ u \in Int /\ 2 * s * DayLen = 2 * x
      /\ (s <= d => x <= u) /\ (d <= s => u <= x)
  <2> HIDE DEF s
  <2> QED BY <1>1, Products
<1>3. SortKey(row) = IF row.allDay THEN 2 * x ELSE 2 * s + 1
  BY <1>2 DEF SortKey
<1> HIDE DEF x, u
<1> QED BY <1>1, <1>2, <1>3 DEF u

(* What comes after today is after what is left of today, unless Early.    *)
LEMMA TodayFirst ==
  ASSUME TypeOK, NEW i \in Matching(now, EndOfDay(now)), NEW j \in Coming \ Early,
         j \notin Matching(now, EndOfDay(now))
  PROVE  Sooner(i, j)
<1> DEFINE eod == EndOfDay(now)
           to == MonthsLater(now, 3)
           d == Day(now)
           a == events[i]  b == events[j]
<1>1. RowsTyped
  BY DEF TypeOK, RowsTyped
<1>2. /\ now \in Int /\ d \in Int /\ eod \in Int /\ to \in Int
      /\ Day(eod) = d + 1 /\ Day(to) \in Int
      /\ d * DayLen < eod
  BY <1>1, TodayEnds
<1>3. /\ i \in Present /\ j \in Present /\ a \in Row /\ b \in Row
      /\ a.start \in Int /\ b.start \in Int
      /\ a.end \in Int \cup {None} /\ b.end \in Int \cup {None}
      /\ a.allDay \in BOOLEAN /\ b.allDay \in BOOLEAN
  BY <1>1 DEF Matching, Coming, Visible, Present, RowsTyped, Row
<1> HIDE DEF eod, to, d
<1>4. IF a.allDay THEN a.start <= d ELSE a.start < eod
  BY <1>2, <1>3 DEF Matching, Overlaps, eod
<1>5. IF b.allDay THEN d + 1 <= b.start ELSE eod <= b.start
  BY <1>2, <1>3 DEF Matching, Coming, Overlaps, d, eod, to
<1>6. CASE b.allDay
  <2>1. j \notin Early /\ j \in Coming /\ b.start > d
    BY <1>2, <1>3, <1>5, <1>6
  <2>2. eod = Midnight(d + 1)
    BY <1>2, MidnightsApart DEF EndOfDay, eod, d
  <2>3. ~Sooner(j, i)
    BY <1>6, <2>1, <2>2 DEF Early, eod, d
  <2>4. i # j
    OBVIOUS
  <2> QED BY <1>1, <1>3, <2>3, <2>4, Ordered
<1>7. CASE ~b.allDay
  <2>1. SortKey(b) = 2 * b.start + 1 /\ eod <= b.start
    BY <1>2, <1>3, <1>5, <1>7, Keys
  <2>2. /\ SortKey(a) \in Int /\ 2 * (d * DayLen) \in Int
        /\ a.allDay => SortKey(a) <= 2 * (d * DayLen)
        /\ ~a.allDay => SortKey(a) = 2 * a.start + 1
    BY <1>2, <1>3, <1>4, Keys
  <2>3. SortKey(a) < SortKey(b)
    <3> DEFINE u == d * DayLen
    <3>1. u \in Int /\ u < eod
      BY <1>2, HourValue
    <3> HIDE DEF u
    <3>2. a.allDay => SortKey(a) <= 2 * u
      BY <2>2 DEF u
    <3> QED BY <1>2, <1>3, <1>4, <2>1, <2>2, <3>1, <3>2
  <2> QED BY <2>3 DEF Sooner
<1> QED BY <1>3, <1>6, <1>7

(* East of UTC a date ends there no sooner than here: nothing is early.    *)
LEMMA NoneEarly ==
  ASSUME TypeOK, Standard >= 0
  PROVE  Early = {}
<1> DEFINE eod == EndOfDay(now)
           d == Day(now)
<1>1. RowsTyped
  BY DEF TypeOK, RowsTyped
<1>2. /\ now \in Int /\ d \in Int /\ eod \in Int
      /\ Day(eod) = d + 1 /\ d * DayLen < eod /\ eod <= (d + 1) * DayLen
  BY <1>1, TodayEnds
<1>3. eod = Midnight(d + 1)
  BY <1>2, MidnightsApart DEF EndOfDay
<1> SUFFICES ASSUME NEW i \in Coming, events[i].allDay, events[i].start > d,
                    NEW j \in Matching(now, eod), Sooner(i, j)
             PROVE  FALSE
  BY <1>3 DEF Early
<1> DEFINE a == events[i]  b == events[j]
<1>4. /\ i \in Present /\ j \in Present /\ a \in Row /\ b \in Row
      /\ a.start \in Int /\ b.start \in Int
      /\ b.end \in Int \cup {None} /\ b.allDay \in BOOLEAN
  BY <1>1 DEF Matching, Coming, Visible, Present, RowsTyped, Row
<1>5. IF b.allDay THEN b.start <= d ELSE b.start < eod
  <2> HIDE DEF eod, d
  <2> QED BY <1>2, <1>4 DEF Matching, Overlaps
<1> DEFINE u == d * DayLen  v == (d + 1) * DayLen
<1>6. u \in Int /\ v \in Int /\ u < v
  <2> HIDE DEF d
  <2> QED BY <1>2, HourValue, Products
<1>7. /\ SortKey(a) \in Int /\ 2 * v <= SortKey(a)
  <2>1. d + 1 \in Int /\ d + 1 <= a.start
    BY <1>2, <1>4
  <2> QED BY <1>4, <2>1, Keys
<1>8. /\ SortKey(b) \in Int
      /\ b.allDay => SortKey(b) <= 2 * u
      /\ ~b.allDay => SortKey(b) = 2 * b.start + 1
  BY <1>2, <1>4, <1>5, Keys
<1>9. eod <= v
  BY <1>2
<1> HIDE DEF eod, d, u, v, a, b
<1>10. SortKey(b) < SortKey(a)
  BY <1>2, <1>4, <1>5, <1>6, <1>7, <1>8, <1>9
<1> QED BY <1>7, <1>8, <1>10 DEF Sooner, a, b

(* README.md:187: in every zone, the events of the dashboard are the first *)
(* of the agenda but for the all-day events that are sorted early.         *)
THEOREM DashboardLeads == Spec => []DashboardLeadsAgenda
<1>1. ASSUME TypeOK, Early = {} \/ Cardinality(Coming) <= Limit
      PROVE  DashboardList(now) =
               First(PageData("agenda", Day(now), now, 0).list \ Early,
                     Cardinality(DashboardList(now)))
  <2> DEFINE A == Matching(now, EndOfDay(now))
             B == Coming
             C == B \ Early
  <2>1. RowsTyped
    BY <1>1 DEF TypeOK, RowsTyped
  <2>2. B \in SUBSET Present /\ Limit \in Nat
    BY PagesAssumption DEF Coming, Matching, Visible
  <2>3. A \subseteq C
    <3>1. /\ now \in Int /\ Day(now) \in Int /\ EndOfDay(now) \in Int
          /\ MonthsLater(now, 3) \in Int /\ Day(EndOfDay(now)) = Day(now) + 1
          /\ Day(MonthsLater(now, 3)) \in Int
          /\ EndOfDay(now) <= MonthsLater(now, 3)
          /\ Day(EndOfDay(now)) <= Day(MonthsLater(now, 3))
      BY <2>1, TodayEnds
    <3>2. \A id \in Ids : Visible(id) =>
            /\ events[id].start \in Int /\ events[id].end \in Int \cup {None}
            /\ events[id].allDay \in BOOLEAN
      BY <2>1 DEF Visible, Present, RowsTyped, Row
    <3>3. A \subseteq B
      BY <3>1, <3>2 DEF Coming, Matching, Overlaps
    <3>4. \A id \in A : events[id].allDay => ~(events[id].start > Day(now))
      BY <3>1, <3>2 DEF Matching, Overlaps
    <3> QED BY <3>3, <3>4 DEF Early
  <2>4. \A i \in A : \A j \in C \ A : Sooner(i, j)
    BY <1>1, TodayFirst
  <2>5. /\ DashboardList(now) = First(A, Limit)
        /\ PageData("agenda", Day(now), now, 0).list = First(B, Limit)
    BY DEF DashboardList, PageData, DateRange, LoadEvents, Coming
  <2>6. First(B, Limit) \ Early = First(C, Limit)
    <3>1. CASE Early = {}
      BY <3>1
    <3>2. CASE Cardinality(B) <= Limit
      <4>1. First(B, Limit) = B
        BY <2>1, <2>2, <3>2, FirstCounts
      <4>2. C \in SUBSET Present /\ IsFiniteSet(B) /\ Cardinality(B) \in Nat
        BY <2>1, <2>2, Ranks
      <4>3. Cardinality(C) \in Nat /\ Cardinality(C) <= Cardinality(B)
        BY <4>2, FS_Subset, FS_CardinalityType
      <4>4. First(C, Limit) = C
        <5> HIDE DEF C
        <5> QED BY <2>1, <2>2, <3>2, <4>2, <4>3, FirstCounts
      <4> QED BY <4>1, <4>4
    <3> QED BY <1>1, <3>1, <3>2
  <2> HIDE DEF A, B, C
  <2>7. C \in SUBSET Present
    BY <2>2 DEF C
  <2>8. First(A, Limit) = First(First(C, Limit), Cardinality(First(A, Limit)))
    BY <2>1, <2>2, <2>3, <2>4, <2>7, FirstOfFirst
  <2> QED BY <2>5, <2>6, <2>8
<1>2. TypeOK => DashboardLeadsAgenda
  BY <1>1 DEF DashboardLeadsAgenda
<1> QED BY <1>2, TypeCorrect, PTL

(* At or east of UTC the events of the dashboard are the first of the      *)
(* agenda without exception, however long either list is.                  *)
THEOREM DashboardInTheEast ==
  Spec => [](Standard >= 0 =>
               LET card == DashboardList(now)
               IN  card = First(PageData("agenda", Day(now), now, 0).list, Cardinality(card)))
<1>1. ASSUME TypeOK, DashboardLeadsAgenda, Standard >= 0
      PROVE  LET card == DashboardList(now)
             IN  card = First(PageData("agenda", Day(now), now, 0).list, Cardinality(card))
  <2> DEFINE agenda == PageData("agenda", Day(now), now, 0).list
  <2>1. Early = {}
    BY <1>1, NoneEarly
  <2>2. agenda \ Early = agenda
    BY <2>1
  <2> HIDE DEF agenda
  <2> QED BY <1>1, <2>1, <2>2 DEF DashboardLeadsAgenda, agenda
<1>2. TypeOK /\ DashboardLeadsAgenda =>
        (Standard >= 0 =>
           LET card == DashboardList(now)
           IN  card = First(PageData("agenda", Day(now), now, 0).list, Cardinality(card)))
  BY <1>1
<1> QED BY <1>2, TypeCorrect, DashboardLeads, PTL

-----------------------------------------------------------------------------
(* What the owner sees and does                                            *)

(* A form shows an event as it is; a link leads to one the page still has, *)
(* or to the agenda.                                                       *)
FormShows(form) ==
  form.id # 0 =>
    Visible(form.id) /\ events[form.id].end # None /\ form = EventForm(form.id)

StillHas(live, id) ==
  LET range == DateRange(live.view, live.date, now)
  IN  id \in LoadEvents(range.from, range.to)

LinksOpen(live) ==
  \A id \in live.links : Visible(id) /\ (live.view # "agenda" => StillHas(live, id))

(* The invariant: a page on which nothing has changed is up to date.       *)
Fresh == ~stale => FormShows(tab.form) /\ LinksOpen(tab.live)

(* Whatever page is made is, when it is made.                              *)
HomesFresh ==
  /\ \A view, d, id : FormShows(Home(view, d, id).form) /\ LinksOpen(Home(view, d, id).live)
  /\ \A id : LET page == Home("agenda", Day(now), id)
             IN  FormShows(page.form) /\ LinksOpen(page.live)

LEMMA HomesAreFresh == HomesFresh
<1> SUFFICES ASSUME NEW view, NEW d, NEW id
             PROVE  FormShows(Home(view, d, id).form) /\ LinksOpen(Home(view, d, id).live)
  BY DEF HomesFresh
<1> DEFINE page == PageData(view, d, now, id)
           range == DateRange(view, d, now)
<1>1. /\ page.view = view /\ page.date = d
      /\ page.list = LoadEvents(range.from, range.to)
      /\ page.edited # 0 => page.edited \in page.list
  BY DEF PageData
<1>2. Home(view, d, id).form = EventForm(page.edited) /\ Home(view, d, id).live = LiveArea(page)
  BY DEF Home
<1> HIDE DEF page, range
<1>3. \A i \in page.list : Visible(i) /\ events[i].end # None
  BY <1>1, Listed DEF Overlaps
<1>4. EventForm(page.edited).id = page.edited
  BY DEF EventForm
<1>5. FormShows(EventForm(page.edited))
  BY <1>1, <1>3, <1>4 DEF FormShows
<1>6. /\ LiveArea(page).view = view /\ LiveArea(page).date = d
      /\ LiveArea(page).links \subseteq page.list
  BY <1>1, LinksListed DEF LiveArea
<1>7. LinksOpen(LiveArea(page))
  BY <1>1, <1>3, <1>6 DEF LinksOpen, StillHas, range
<1> QED BY <1>2, <1>5, <1>7

LEMMA HomesFreshNext == HomesFresh'
  BY HomesAreFresh, PTL

(* The rows that can be seen stay as they are, but for being queued.       *)
Kept ==
  \A i \in Ids :
    /\ Visible(i)' <=> Visible(i)
    /\ Visible(i) => \E q : events'[i] = [events[i] EXCEPT !.dirty = q]

(* Then a page that was up to date stays so, whatever the time.            *)
LEMMA FreshKept ==
  ASSUME RowsTyped, Kept, NEW form, NEW live, live.view \in Views,
         FormShows(form), LinksOpen(live)
  PROVE  FormShows(form)' /\ LinksOpen(live)'
<1>1. ASSUME NEW i \in Ids, Visible(i)
      PROVE  /\ Visible(i)' /\ events[i] \in Row
             /\ events'[i].cal = events[i].cal /\ events'[i].title = events[i].title
             /\ events'[i].description = events[i].description
             /\ events'[i].allDay = events[i].allDay /\ events'[i].start = events[i].start
             /\ events'[i].end = events[i].end
  <2>1. events[i] \in Row
    BY <1>1 DEF Visible, Present, RowsTyped
  <2>2. PICK q : events'[i] = [events[i] EXCEPT !.dirty = q]
    BY <1>1 DEF Kept
  <2>3. Visible(i)'
    BY <1>1 DEF Kept
  <2> QED BY <2>1, <2>2, <2>3 DEF Row
<1>2. \A i \in Ids : Visible(i)' => Visible(i)
  BY DEF Kept
<1>3. FormShows(form)'
  <2> SUFFICES ASSUME form.id # 0
               PROVE  /\ Visible(form.id)' /\ events'[form.id].end # None
                      /\ form = EventForm(form.id)'
    BY DEF FormShows
  <2> DEFINE id == form.id
  <2>1. id \in Ids /\ Visible(id) /\ events[id].end # None /\ form = EventForm(id)
    BY DEF FormShows, Visible, Present
  <2>2. EventForm(id)' = EventForm(id)
    BY <1>1, <2>1 DEF EventForm, EventValue
  <2> QED BY <1>1, <2>1, <2>2
<1>4. \A from, to : LoadEvents(from, to)' = LoadEvents(from, to)
  <2> SUFFICES ASSUME NEW from, NEW to
               PROVE  LoadEvents(from, to)' = LoadEvents(from, to)
    OBVIOUS
  <2> DEFINE S == Matching(from, to)
  <2>1. \A i \in Ids : Visible(i) =>
          (Overlaps(events[i], from, to)' <=> Overlaps(events[i], from, to))
    BY <1>1 DEF Overlaps
  <2>2. Matching(from, to)' = S
    BY <1>1, <1>2, <2>1 DEF Matching
  <2>3. ASSUME NEW i \in S, NEW j \in S
        PROVE  Sooner(i, j)' <=> Sooner(i, j)
    <3>1. \A h \in S : SortKey(events[h])' = SortKey(events[h])
      BY <1>1 DEF SortKey, Matching
    <3> HIDE DEF S
    <3> QED BY <3>1 DEF Sooner
  <2> HIDE DEF S
  <2>4. \A i \in S : {j \in S : Sooner(j, i)'} = {j \in S : Sooner(j, i)}
    BY <2>3
  <2> QED BY <2>2, <2>4 DEF LoadEvents, First, S
<1>5. ASSUME live.view # "agenda"
      PROVE  DateRange(live.view, live.date, now)' = DateRange(live.view, live.date, now)
  BY <1>5 DEF DateRange, Views
<1>6. ASSUME live.view # "agenda", NEW id, StillHas(live, id)
      PROVE  StillHas(live, id)'
  <2>1. PICK range : range = DateRange(live.view, live.date, now)
    OBVIOUS
  <2>2. DateRange(live.view, live.date, now)' = range
    BY <1>5, <1>6, <2>1
  <2>3. id \in LoadEvents(range.from, range.to)
    BY <1>6, <2>1 DEF StillHas
  <2>4. id \in LoadEvents(range.from, range.to)'
    BY <1>4, <2>3
  <2> QED BY <2>2, <2>4 DEF StillHas
<1>7. \A id \in live.links : Visible(id)' /\ (live.view # "agenda" => StillHas(live, id)')
  BY <1>1, <1>6 DEF LinksOpen, Visible, Present
<1>8. LinksOpen(live)'
  BY <1>7 DEF LinksOpen
<1> QED BY <1>3, <1>8

LEMMA NothingTouched ==
  ASSUME RowsTyped, UNCHANGED <<events, selected>>
  PROVE  Kept
<1> SUFFICES ASSUME NEW i \in Ids
             PROVE  /\ Visible(i)' <=> Visible(i)
                    /\ Visible(i) => \E q : events'[i] = [events[i] EXCEPT !.dirty = q]
  BY DEF Kept
<1>1. Visible(i)' <=> Visible(i)
  BY DEF Visible, Present
<1>2. ASSUME Visible(i)
      PROVE  events'[i] = [events[i] EXCEPT !.dirty = events[i].dirty]
  BY <1>2 DEF Visible, Present, RowsTyped, Row
<1> QED BY <1>1, <1>2

(* What leaves the queue was only queued, or could not be seen.            *)
LEMMA PushKeeps ==
  ASSUME RowsTyped, NEW id, Pushed(id)
  PROVE  Kept
<1>1. id \in Ids /\ events[id] \in Row
  BY DEF Pushed, Present, RowsTyped
<1>2. \A i \in Ids \ {id} : events'[i] = events[i]
  BY DEF Pushed, RowsTyped
<1>3. \A i \in Ids \ {id} :
        /\ Visible(i)' <=> Visible(i)
        /\ Visible(i) => events'[i] = [events[i] EXCEPT !.dirty = events[i].dirty]
  BY <1>2 DEF Visible, Present, Pushed, RowsTyped, Row
<1>4. CASE events[id].deleted
  <2>1. events'[id] = NoRow
    BY <1>1, <1>4 DEF Pushed, RowsTyped
  <2>2. ~Visible(id) /\ ~Visible(id)'
    BY <1>4, <2>1 DEF Visible, Present
  <2> QED BY <1>3, <2>2 DEF Kept
<1>5. CASE ~events[id].deleted
  <2>1. events'[id] = [events[id] EXCEPT !.dirty = FALSE]
    BY <1>1, <1>5 DEF Pushed, RowsTyped
  <2>2. events'[id] \in Row /\ events'[id].cal = events[id].cal
        /\ events'[id].deleted = events[id].deleted
    BY <1>1, <2>1 DEF Row
  <2>3. events[id] # NoRow /\ events'[id] # NoRow /\ selected' = selected
    BY <1>1, <2>2, PagesAssumption DEF Pushed
  <2>4. Visible(id)' <=> Visible(id)
    BY <1>1, <2>2, <2>3 DEF Visible, Present
  <2> QED BY <1>3, <2>1, <2>4 DEF Kept
<1> QED BY <1>4, <1>5

LEMMA StepFresh ==
  ASSUME TypeOK, Fresh, [Next]_vars
  PROVE  Fresh'
<1>1. RowsTyped /\ tab.view \in Views /\ tab.live.view \in Views
  BY DEF TypeOK, RowsTyped, Tab
<1>2. ASSUME NEW view \in Views, NEW d, NEW id, Load(view, d, id), Browse
      PROVE  Fresh'
  <2>1. PICK page : page = Home(view, d, id)
    OBVIOUS
  <2>2. FormShows(page.form) /\ LinksOpen(page.live) /\ page.live.view = view
    BY <2>1, HomesAreFresh, HomeShown DEF HomesFresh
  <2>3. Kept
    BY <1>1, <1>2, NothingTouched DEF Browse
  <2>4. FormShows(page.form)' /\ LinksOpen(page.live)'
    BY <1>1, <2>2, <2>3, FreshKept
  <2>5. tab' = page
    BY <1>2, <2>1 DEF Load
  <2> QED BY <2>4, <2>5 DEF Fresh
<1>3. ASSUME NEW id, Redirected(id)
      PROVE  Fresh'
  <2>1. /\ FormShows(Home("agenda", Day(now), id).form)'
        /\ LinksOpen(Home("agenda", Day(now), id).live)'
    BY HomesFreshNext DEF HomesFresh
  <2>2. tab' = Home("agenda", Day(now), id)'
    BY <1>3 DEF Redirected
  <2> QED BY <2>1, <2>2 DEF Fresh
<1>4. ASSUME Kept, UNCHANGED <<tab, stale>>
      PROVE  Fresh'
  <2>1. PICK form, live : form = tab.form /\ live = tab.live
    OBVIOUS
  <2>2. ASSUME ~stale
        PROVE  FormShows(form)' /\ LinksOpen(live)'
    BY <1>1, <1>4, <2>1, <2>2, FreshKept DEF Fresh
  <2>3. tab'.form = form /\ tab'.live = live
    BY <1>4, <2>1
  <2> QED BY <1>4, <2>2, <2>3 DEF Fresh
<1>5. \A view \in Views : \A d : Open(view, d) => Fresh'
  BY <1>2 DEF Open
<1>6. (\E delta : Navigate(delta)) \/ Today => Fresh'
  BY <1>1, <1>2 DEF Navigate, Today
<1>7. \A id : Click(id) => Fresh'
  BY <1>1, <1>2 DEF Click
<1>8. \A id : OpenFound(id) => Fresh'
  BY <1>2 DEF OpenFound, Views
<1>9. ASSUME LiveRefresh
      PROVE  Fresh'
  <2>1. PICK page : page = Home("agenda", Day(now), 0)
    OBVIOUS
  <2>2. PICK form : form = tab.form
    OBVIOUS
  <2>3. LinksOpen(page.live) /\ page.live.view \in Views
    BY <2>1, HomesAreFresh, HomeShown DEF HomesFresh, Views
  <2>4. tab'.form = form /\ tab'.live = page.live
    <3>1. page.live = LiveArea(PageData("agenda", Day(now), now, 0))
      BY <2>1 DEF Home
    <3> QED BY <1>9, <2>2, <3>1 DEF LiveRefresh, TypeOK, Tab
  <2>5. Kept
    BY <1>1, <1>9, NothingTouched DEF LiveRefresh
  <2>6. ASSUME ~stale
        PROVE  FormShows(form)' /\ LinksOpen(page.live)'
    BY <1>1, <2>2, <2>3, <2>5, <2>6, FreshKept DEF Fresh
  <2> QED BY <1>9, <2>4, <2>6 DEF Fresh, LiveRefresh
<1>10. Tick => Fresh'
  BY <1>1, <1>4, NothingTouched DEF Tick
<1>11. SaveAsShown \/ (\E text : Reword(text)) \/ (\E t : Reschedule(t)) => Fresh'
  BY <1>3 DEF SaveAsShown, Reword, Reschedule, Submit
<1>12. Delete \/ (\E calendars : Select(calendars)) => Fresh'
  BY <1>3 DEF Delete, Select
<1>13. (\E cal, text, t, recurrence : ToolCreates(cal, text, t, recurrence)) => Fresh'
  BY DEF ToolCreates, Fresh
<1>14. (\E object : Arrives(object)) => Fresh'
  BY DEF Arrives, Fresh
<1>15. \A id : Pushed(id) => Fresh'
  <2>1. ASSUME NEW id, Pushed(id)
        PROVE  Fresh'
    BY <1>1, <1>4, <2>1, PushKeeps DEF Pushed
  <2> QED BY <2>1
<1>16. CASE UNCHANGED vars
  BY <1>1, <1>4, <1>16, NothingTouched DEF vars
<1> QED BY <1>5, <1>6, <1>7, <1>8, <1>9, <1>10, <1>11, <1>12, <1>13, <1>14, <1>15, <1>16
        DEF Next

(* A page on which nothing has changed since it was made shows what is     *)
(* stored: its form the event, its links events that it can open.          *)
THEOREM Freshness == Spec => []Fresh
<1>1. Init => Fresh
  <2>1. ASSUME Init
        PROVE  Fresh
    <3>1. tab = Home("agenda", Day(now), 0)
      BY <2>1 DEF Init
    <3> QED BY <3>1, HomesAreFresh DEF HomesFresh, Fresh
  <2> QED BY <2>1
<1> QED BY <1>1, StepFresh, TypeCorrect, PTL DEF Spec

(* What the agenda, made now, would have.                                  *)
LEMMA AgendaHas ==
  ASSUME TypeOK, NEW d, NEW id, OnAgenda(id)
  PROVE  PageData("agenda", d, now, id).edited = id
<1> DEFINE to == MonthsLater(now, 3)
<1>1. DateRange("agenda", d, now) = [from |-> now, to |-> to]
  BY DEF DateRange
<1>2. RowsTyped /\ Matching(now, to) \in SUBSET Present
  BY DEF TypeOK, RowsTyped, Matching, Visible
<1>3. id \in Matching(now, to) /\ Cardinality(Matching(now, to)) <= Limit
  BY DEF OnAgenda, Coming
<1>4. LoadEvents(now, to) = Matching(now, to)
  BY <1>2, <1>3, AllReturned
<1> QED BY <1>1, <1>3, <1>4 DEF PageData

(* home.templ:79,111,125,150: following a link opens the event, unless the *)
(* link leads to the agenda and the event has gone from it; README.md:190: *)
(* the link of a search opens what is on the agenda.                       *)
THEOREM ClickOpens == Spec => ClickOpensEvent
<1>1. ASSUME NEW view, NEW d, NEW id
      PROVE  Home(view, d, id).form.id = PageData(view, d, now, id).edited
  BY DEF Home, EventForm
<1>2. ASSUME Fresh, NEW id \in Ids, Click(id), ~stale, tab.live.view # "agenda"
      PROVE  tab'.form.id = id
  <2> DEFINE live == tab.live
  <2>1. StillHas(live, id)
    BY <1>2 DEF Fresh, LinksOpen, Click
  <2>2. PageData(live.view, live.date, now, id).edited = id
    BY <2>1 DEF StillHas, PageData
  <2>3. tab' = Home(live.view, live.date, id)
    BY <1>2 DEF Click, Load
  <2> QED BY <1>1, <2>2, <2>3
<1>3. ASSUME TypeOK, NEW id \in Ids, Click(id), OnAgenda(id), tab.live.view = "agenda"
      PROVE  tab'.form.id = id
  BY <1>1, <1>3, AgendaHas DEF Click, Load
<1>4. ASSUME TypeOK, NEW id \in Ids, OpenFound(id), OnAgenda(id)
      PROVE  tab'.form.id = id
  BY <1>1, <1>4, AgendaHas DEF OpenFound, Load
<1>5. TypeOK /\ Fresh /\ [Next]_vars =>
        [\A id \in Ids :
           tab'.form.id # id =>
             /\ ~stale /\ LeadsTo(tab.live.view, tab.live.date) /\ Click(id) =>
                  tab.live.view = "agenda" /\ ~OnAgenda(id)
             /\ LeadsTo("agenda", Day(now)) /\ OpenFound(id) => ~OnAgenda(id)]_vars
  BY <1>2, <1>3, <1>4
<1> QED BY <1>5, TypeCorrect, Freshness, PTL DEF Spec, ClickOpensEvent

(* README.md:182-183: saving a form as it was shown keeps the event: its   *)
(* calendar, and each text and the times if a form can show them.          *)
THEOREM SavingKeeps == Spec => SavingKeepsEvent
<1>1. ASSUME TypeOK, Fresh, NEW id \in Ids, SaveAsShown, ~stale, tab.form.id = id
      PROVE  LET old == events[id]  new == events'[id]
             IN  /\ new.cal = old.cal
                 /\ (Settled(old.title) /\ InOneLine(old.title)) => new.title = old.title
                 /\ (Settled(old.description) /\ InLines(old.description)) =>
                      new.description = old.description
                 /\ (Unambiguous(old.start) /\ Unambiguous(old.end)) =>
                      <<new.allDay, new.start, new.end>> = <<old.allDay, old.start, old.end>>
  <2> DEFINE old == events[id]
             form == tab.form
             in == Input(Sent(form), "")
  <2>1. id # 0
    BY PagesAssumption
  <2>2. old \in Row /\ old.end # None /\ form = EventForm(id)
    BY <1>1, <2>1 DEF Fresh, FormShows, Visible, Present, TypeOK
  <2>3. UpdateLocalEvent(id, in)
    BY <1>1, <2>1 DEF SaveAsShown, Submit
  <2>4. old.cal \in Writable
    BY <2>3 DEF UpdateLocalEvent
  <2>5. form.start # None
    BY <1>1 DEF SaveAsShown, Submit
  <2>6. /\ form.cal = old.cal /\ form.title = old.title /\ form.description = old.description
        /\ ~old.allDay /\ form.start = Clock(old.start) /\ form.end = Clock(old.end)
    BY <2>1, <2>2, <2>4, <2>5 DEF EventForm, EventValue
  <2>7. form \in Form
    BY <1>1 DEF TypeOK, Tab
  <2>8. /\ in.cal = old.cal
        /\ in.title = OneLine(old.title) /\ in.description = Lines(old.description)
        /\ in.start = FromWall[Clock(old.start)] /\ in.end = FromWall[Clock(old.end)]
    BY <2>6, <2>7 DEF Input, Sent, Form
  <2> HIDE DEF in
  <2>9. events'[id] = [old EXCEPT !.cal = in.cal, !.title = Trim(in.title),
          !.description = Trim(in.description), !.allDay = FALSE, !.start = in.start,
          !.end = in.end, !.recurrence = in.recurrence, !.dirty = TRUE]
    BY <1>1, <2>3 DEF UpdateLocalEvent, TypeOK
  <2> HIDE DEF old, form
  <2>10. /\ events'[id].cal = in.cal /\ events'[id].title = Trim(in.title)
         /\ events'[id].description = Trim(in.description) /\ events'[id].allDay = FALSE
         /\ events'[id].start = in.start /\ events'[id].end = in.end
    BY <2>2, <2>9 DEF Row
  <2>11. old.allDay = FALSE /\ old.title \in Texts /\ old.description \in Texts
    BY <2>2, <2>6 DEF Row
  <2>12. (Settled(old.title) /\ InOneLine(old.title)) => Trim(in.title) = old.title
    BY <2>8, <2>11, SentTexts, Trimmed
  <2>13. (Settled(old.description) /\ InLines(old.description)) =>
           Trim(in.description) = old.description
    BY <2>8, <2>11, SentTexts, Trimmed
  <2> QED BY <2>8, <2>10, <2>11, <2>12, <2>13 DEF Unambiguous, old
<1>2. TypeOK /\ Fresh /\ [Next]_vars =>
        [\A id \in Ids :
           tab.form.id = id /\ ~stale /\ SaveAsShown =>
             LET old == events[id]  new == events'[id]
             IN  /\ new.cal = old.cal
                 /\ (Settled(old.title) /\ InOneLine(old.title)) => new.title = old.title
                 /\ (Settled(old.description) /\ InLines(old.description)) =>
                      new.description = old.description
                 /\ (Unambiguous(old.start) /\ Unambiguous(old.end)) =>
                      <<new.allDay, new.start, new.end>> = <<old.allDay, old.start, old.end>>]_vars
  BY <1>1
<1> QED BY <1>2, TypeCorrect, Freshness, PTL DEF Spec, SavingKeepsEvent

-----------------------------------------------------------------------------
(* iCalendar text                                                          *)

(* What iCloud needs of a row, and what makes an all-day event one.        *)
Named(row) ==
  /\ row.uid # <<>> /\ row.title # <<>>
  /\ row.allDay => row.start # None

RowsNamed == \A id \in Present : Named(events[id])

(* A step that writes one row.                                             *)
LEMMA OneRowNamed ==
  ASSUME RowsNamed, NEW id, \A other \in Ids \ {id} : events'[other] = events[other],
         id \in Ids => events'[id] = NoRow \/ Named(events'[id])
  PROVE  RowsNamed'
<1>1. SUFFICES ASSUME NEW i \in Ids, events'[i] # NoRow
               PROVE  Named(events'[i])
  BY DEF RowsNamed, Present, Named
<1>2. CASE i = id
  BY <1>1, <1>2
<1>3. CASE i # id
  BY <1>1, <1>3 DEF RowsNamed, Present
<1> QED BY <1>2, <1>3

LEMMA CreatedNamed ==
  ASSUME TypeOK, RowsNamed, NEW id \in Ids, NEW in, CreateLocalEvent(id, in)
  PROVE  RowsNamed'
<1> DEFINE uid == [i \in 1..id |-> "n"]
           row == [cal |-> in.cal, uid |-> uid, title |-> Trim(in.title),
                   description |-> Trim(in.description), allDay |-> FALSE, start |-> in.start,
                   end |-> in.end, recurrence |-> in.recurrence, dirty |-> TRUE,
                   deleted |-> FALSE]
<1>1. uid # <<>>
  <2>1. id \in Nat /\ 1 \in 1..id
    BY PagesAssumption
  <2>2. DOMAIN uid = 1..id
    OBVIOUS
  <2>3. 1 \notin DOMAIN <<>>
    OBVIOUS
  <2> HIDE DEF uid
  <2> QED BY <2>1, <2>2, <2>3
<1>2. events' = [events EXCEPT ![id] = row] /\ Trim(in.title) # <<>>
  BY DEF CreateLocalEvent, Valid
<1> HIDE DEF uid
<1>3. Named(row)
  BY <1>1, <1>2 DEF Named
<1> HIDE DEF row
<1> QED BY <1>2, <1>3, OneRowNamed DEF TypeOK

LEMMA UpdatedNamed ==
  ASSUME TypeOK, RowsNamed, NEW id \in Ids, NEW in, UpdateLocalEvent(id, in)
  PROVE  RowsNamed'
<1> DEFINE old == events[id]
           row == [old EXCEPT !.cal = in.cal, !.title = Trim(in.title),
                     !.description = Trim(in.description), !.allDay = FALSE,
                     !.start = in.start, !.end = in.end, !.recurrence = in.recurrence, !.dirty = TRUE]
<1>1. events' = [events EXCEPT ![id] = row] /\ Trim(in.title) # <<>>
  BY DEF UpdateLocalEvent, Valid
<1>2. old \in Row /\ Named(old)
  BY DEF UpdateLocalEvent, RowsNamed, Present, TypeOK
<1> HIDE DEF old
<1>3. Named(row)
  BY <1>1, <1>2 DEF Named, Row
<1> HIDE DEF row
<1> QED BY <1>1, <1>3, OneRowNamed DEF TypeOK

LEMMA SubmitNamed ==
  ASSUME TypeOK, RowsNamed, NEW form, NEW recurrence, Submit(form, recurrence)
  PROVE  RowsNamed'
BY CreatedNamed, UpdatedNamed DEF Submit

(* What storeICSEvent stores has been read of an object.                   *)
LEMMA StoredNamed ==
  ASSUME NEW object, Readable(ParseICS(object.lines))
  PROVE  /\ Named(NewRow(object))
         /\ \A row \in Row : Named(row) => Named(Refreshed(row, ParseICS(object.lines)))
<1> DEFINE e == ParseICS(object.lines)
           stored == StoredFields(e)
<1> HIDE DEF e
<1>1. stored.title # <<>> /\ (stored.allDay => stored.start # None)
  BY DEF StoredFields, Readable, e
<1> HIDE DEF stored
<1>2. Named(NewRow(object))
  BY <1>1 DEF Named, NewRow, Readable, e, stored
<1>3. \A row \in Row : Named(row) => Named(Refreshed(row, e))
  BY <1>1 DEF Named, Refreshed, Row, stored
<1> QED BY <1>2, <1>3 DEF e

LEMMA StepNamed ==
  ASSUME TypeOK, RowsNamed, [Next]_vars
  PROVE  RowsNamed'
<1>1. UNCHANGED events => RowsNamed'
  BY DEF RowsNamed, Present
<1>2. (\E view, d : Open(view, d)) \/ (\E delta : Navigate(delta)) \/ Today => RowsNamed'
  BY <1>1 DEF Open, Navigate, Today, Browse
<1>3. (\E id : Click(id) \/ OpenFound(id)) \/ LiveRefresh \/ Tick => RowsNamed'
  BY <1>1 DEF Click, OpenFound, LiveRefresh, Tick, Browse
<1>4. SaveAsShown \/ (\E text : Reword(text)) \/ (\E t : Reschedule(t)) => RowsNamed'
  BY SubmitNamed DEF SaveAsShown, Reword, Reschedule
<1>5. Delete => RowsNamed'
  <2> SUFFICES ASSUME Delete PROVE RowsNamed'
    OBVIOUS
  <2> DEFINE id == tab.form.id
             old == events[id]
             row == [old EXCEPT !.deleted = TRUE, !.dirty = TRUE]
  <2>1. id \in Ids /\ old \in Row /\ Named(old)
    BY DEF Delete, RowsNamed, Present, TypeOK
  <2>2. events'[id] = row /\ \A other \in Ids \ {id} : events'[other] = events[other]
    BY <2>1 DEF Delete, TypeOK, Row
  <2> HIDE DEF id, old
  <2>3. Named(row)
    BY <2>1 DEF Named, Row
  <2> HIDE DEF row
  <2> QED BY <2>2, <2>3, OneRowNamed
<1>6. \A calendars : Select(calendars) => RowsNamed'
  BY <1>1 DEF Select
<1>7. \A cal, text, t, recurrence : ToolCreates(cal, text, t, recurrence) => RowsNamed'
  BY CreatedNamed DEF ToolCreates
<1>8. ASSUME NEW object, Arrives(object)
      PROVE  RowsNamed'
  <2> DEFINE e == ParseICS(object.lines)
  <2>1. Readable(e)
    BY <1>8 DEF Arrives
  <2>2. \/ \E id \in Present : events' = [events EXCEPT ![id] = Refreshed(events[id], e)]
        \/ \E id \in Ids : events' = [events EXCEPT ![id] = NewRow(object)]
    BY <1>8 DEF Arrives
  <2>3. Named(NewRow(object)) /\ \A row \in Row : Named(row) => Named(Refreshed(row, e))
    BY <2>1, StoredNamed
  <2> HIDE DEF e
  <2>4. ASSUME NEW id \in Present, events' = [events EXCEPT ![id] = Refreshed(events[id], e)]
        PROVE  RowsNamed'
    <3>1. Named(Refreshed(events[id], e))
      BY <2>3 DEF RowsNamed, Present, TypeOK
    <3> QED BY <2>4, <3>1, OneRowNamed DEF Present, TypeOK
  <2>5. ASSUME NEW id \in Ids, events' = [events EXCEPT ![id] = NewRow(object)]
        PROVE  RowsNamed'
    BY <2>3, <2>5, OneRowNamed DEF TypeOK
  <2> QED BY <2>2, <2>4, <2>5
<1>9. ASSUME NEW id, Pushed(id)
      PROVE  RowsNamed'
  <2> DEFINE old == events[id]
             row == [old EXCEPT !.dirty = FALSE]
  <2>1. id \in Ids /\ old \in Row /\ Named(old)
    BY <1>9 DEF Pushed, RowsNamed, Present, TypeOK
  <2>2. /\ events'[id] = NoRow \/ events'[id] = row
        /\ \A other \in Ids \ {id} : events'[other] = events[other]
    BY <1>9, <2>1 DEF Pushed, TypeOK
  <2> HIDE DEF old
  <2>3. Named(row)
    BY <2>1 DEF Named, Row
  <2> HIDE DEF row
  <2> QED BY <2>2, <2>3, OneRowNamed
<1>10. CASE UNCHANGED vars
  BY <1>1, <1>10 DEF vars
<1> QED BY <1>2, <1>3, <1>4, <1>5, <1>6, <1>7, <1>8, <1>9, <1>10 DEF Next

LEMMA NamedAlways == Spec => []RowsNamed
<1>1. Init => RowsNamed
  <2>1. ASSUME Init PROVE RowsNamed
    <3>1. Named(NewRow(Earlier))
      BY ObjectsAssumption, StoredNamed
    <3> QED BY <2>1, <3>1 DEF Init, RowsNamed, Present
  <2> QED BY <2>1
<1> QED BY <1>1, StepNamed, TypeCorrect, PTL DEF Spec

(* What is read of an object replaces nothing in the row it was written of. *)
LEMMA RowReadsBack ==
  ASSUME NEW row \in Row, Named(row), row.end # None, row.recurrence # "FREQ"
  PROVE  LET e == ParseICS(BuildICS(row.uid, row))
         IN  e.uid = row.uid /\ Readable(e) /\ Refreshed(row, e) = row
<1> DEFINE e == ParseICS(BuildICS(row.uid, row))
           stored == StoredFields(e)
<1>1. e = AsWritten(row.uid, row)
  <2>1. row.uid \in Seq(Chars) /\ Typed(row)
    <3>1. /\ row.uid \in Texts /\ row.title \in Texts /\ row.description \in Texts
          /\ row.allDay \in BOOLEAN /\ row.recurrence \in Rules
      BY DEF Row
    <3> QED BY <3>1, Zenon DEF Texts, Rules, Typed
  <2> QED BY <2>1, ObjectReadsBack
<1> HIDE DEF e
<1>2. /\ row.allDay => e = Fields(row.uid, row.title, row.description, None, None, row.start,
                                 row.end, "", row.recurrence)
      /\ ~row.allDay => e = Fields(row.uid, row.title, row.description, row.start, row.end,
                                  None, None, "", row.recurrence)
  BY <1>1, Zenon DEF AsWritten
<1>3. /\ e.uid = row.uid /\ e.summary = row.title /\ e.description = row.description
      /\ e.recurrence = row.recurrence
      /\ row.allDay => e.startDate = row.start /\ e.endDate = row.end
      /\ ~row.allDay => e.startDate = None /\ e.start = row.start /\ e.end = row.end
  <2>1. /\ row.allDay => Says(e, row.uid, row.title, row.description, None, None, row.start,
                              row.end, "", row.recurrence)
        /\ ~row.allDay => Says(e, row.uid, row.title, row.description, row.start, row.end,
                               None, None, "", row.recurrence)
    BY <1>2, FieldsSay, Zenon
  <2> QED BY <2>1, Zenon DEF Says
<1>4. Readable(e)
  BY <1>3 DEF Readable, Named
<1>5. /\ stored.title = row.title /\ stored.description = row.description
      /\ stored.recurrence = row.recurrence /\ stored.allDay = row.allDay
      /\ stored.start = row.start /\ stored.end = row.end
  <2>1. row.allDay \in BOOLEAN
    BY DEF Row
  <2> QED BY <1>3, <2>1 DEF StoredFields, Named
<1> HIDE DEF stored
<1>6. Refreshed(row, e) = row
  BY <1>5 DEF Refreshed, Row, stored
<1> QED BY <1>3, <1>4, <1>6 DEF e

(* README.md:162: a row that has an end, and a rule with a name if any, is *)
(* read back as it was written, whatever its texts are.                    *)
THEOREM TextReadsBack == Spec => []WrittenTextReadsBack
<1>1. TypeOK /\ RowsNamed => WrittenTextReadsBack
  <2> SUFFICES ASSUME TypeOK, RowsNamed, NEW id \in Present, CanBeSaid(events[id])
               PROVE  LET e == ParseICS(BuildICS(events[id].uid, events[id]))
                      IN  /\ e.uid = events[id].uid /\ Readable(e)
                          /\ Refreshed(events[id], e) = events[id]
    BY DEF WrittenTextReadsBack
  <2>1. events[id] \in Row /\ Named(events[id])
    BY DEF RowsNamed, Present, TypeOK
  <2> QED BY <2>1, RowReadsBack DEF CanBeSaid
<1> QED BY <1>1, TypeCorrect, NamedAlways, PTL
=============================================================================
