------------------------------- MODULE Dates --------------------------------
(***************************************************************************)
(* Instants, the local time zone, days, weeks and months, and the ranges   *)
(* the pages ask for (main.go:265-285, views/home.templ:196-213).          *)
(*                                                                         *)
(* An instant is a number of slots since an origin, in UTC; a slot is less *)
(* than a minute, and a day has DayLen of them.  The zone is at Standard   *)
(* slots from UTC and an hour more between SummerStart and SummerEnd: when *)
(* the clocks go forward an hour of local time does not occur, when they   *)
(* go back one occurs twice.  A date is the number of its day; a month is  *)
(* known by the date of its first day.                                     *)
(***************************************************************************)
EXTENDS Integers

CONSTANTS
  Minute,        \* slots in a minute
  HalfHour,      \* slots in half an hour
  DayLen,        \* slots in a day
  WeekLen,       \* days in a week
  Months,        \* bound: months the calendar has
  MonthStart,    \* MonthStart[m]: the first date of month m, m \in 0..Months
  MonthCells,    \* cells of a month page (home.templ:203: 42)
  Standard,      \* the zone's offset from UTC
  SummerStart,   \* instant at which the clocks go forward
  SummerEnd,     \* instant at which they go back
  ForwardDay,    \* local date of the first
  BackDay,       \* local date of the second
  None           \* no instant and no date: an empty string

Hour == 2 * HalfHour

ASSUME CalendarAssumption ==
  /\ Minute \in Nat \ {0} /\ HalfHour \in Nat \ {0} /\ HalfHour % Minute = 0
  /\ DayLen \in Nat /\ DayLen > Hour /\ DayLen % Hour = 0
  /\ WeekLen \in Nat \ {0}
  /\ Months \in Nat
  /\ MonthStart \in [0..Months -> Int]
  /\ \A m, n \in 0..Months : m < n => MonthStart[m] < MonthStart[n]
  /\ MonthCells \in Nat
  /\ \A m \in 0..(Months - 1) :
       WeekLen - 1 + (MonthStart[m + 1] - MonthStart[m]) <= MonthCells

(* No zone is a day from UTC, summer time lasts longer than any offset, and *)
(* the clocks are not changed at midnight.  (Some zones do, and have days  *)
(* without a midnight.)                                                    *)
ASSUME ZoneAssumption ==
  /\ Standard \in Int /\ SummerStart \in Int /\ SummerEnd \in Int
  /\ -DayLen < Standard /\ Standard + Hour < DayLen
  /\ Standard < SummerEnd - SummerStart - Hour
  /\ -Standard < SummerEnd - SummerStart - Hour
  /\ ForwardDay \in Int /\ BackDay \in Int
  /\ ForwardDay * DayLen < SummerStart + Standard
  /\ SummerStart + Standard + Hour < (ForwardDay + 1) * DayLen
  /\ BackDay * DayLen < SummerEnd + Standard
  /\ SummerEnd + Standard + Hour < (BackDay + 1) * DayLen

-----------------------------------------------------------------------------
(* The time package of Go                                                  *)

(* What a local clock shows.                                               *)
Wall == [t \in Int |-> IF SummerStart <= t /\ t < SummerEnd THEN t + Standard + Hour
                                                            ELSE t + Standard]

(* Truncate, and what is left of a time when it is formatted without its   *)
(* seconds.                                                                *)
Cut(t, unit) == t - (t % unit)

(* The stretch of the zone's history an instant is in, and its offset.     *)
Period(t) == IF t < SummerStart THEN 1 ELSE IF t < SummerEnd THEN 2 ELSE 3
Offset(t) == Wall[t] - t

(* time.Date and time.ParseInLocation: the offset in force at w, taken for *)
(* an instant, is tried first; if it leads out of its own stretch, the     *)
(* offset of where it leads to is taken instead.                           *)
FromWall == [w \in Int |->
  LET guess == w - Offset(w)
  IN  IF Period(guess) = Period(w) THEN guess ELSE w - Offset(guess)]

(* The local date of an instant.                                           *)
Day(t) == Wall[t] \div DayLen

(* dayStart: 00:00 of a date.                                              *)
Midnight(d) == FromWall[d * DayLen]

(* AddDate(0, 0, n): the same local time n days on.                        *)
AddDays(t, n) == FromWall[Wall[t] + n * DayLen]

MonthOf == [d \in Int |->
  CHOOSE m \in 0..(Months - 1) : MonthStart[m] <= d /\ d < MonthStart[m + 1]]

(* AddDate(0, n, 0) on a date: the same day of the month; what a shorter   *)
(* month lacks is counted on into the one after it.                        *)
AddMonths(d, n) == d - MonthStart[MonthOf[d]] + MonthStart[MonthOf[d] + n]

(* The same on an instant.                                                 *)
MonthsLater(t, n) == AddDays(t, AddMonths(Day(t), n) - Day(t))

Weekday(d) == d % WeekLen

-----------------------------------------------------------------------------
(* The pages' ranges                                                       *)

Views == {"agenda", "day", "week", "month"}

WeekStart(d) == d - Weekday(d)
FirstOfMonth(d) == MonthStart[MonthOf[d]]

(* dateRange: from a midnight on for a day, a week or a month; from now on  *)
(* for the agenda, whatever the date.                                      *)
DateRange(view, d, now) ==
  CASE view = "day"   -> [from |-> Midnight(d), to |-> AddDays(Midnight(d), 1)]
    [] view = "week"  -> [from |-> Midnight(WeekStart(d)),
                          to |-> AddDays(Midnight(WeekStart(d)), WeekLen)]
    [] view = "month" -> [from |-> Midnight(FirstOfMonth(d)),
                          to |-> MonthsLater(Midnight(FirstOfMonth(d)), 1)]
    [] OTHER          -> [from |-> now, to |-> MonthsLater(now, 3)]

(* Mutant: the end of the day is a day from now.                           *)
DayFromNow(t) == AddDays(t, 1)

EndOfDay(t) == AddDays(Midnight(Day(t)), 1)

(* The days a week page and a month page show.                             *)
WeekDays(d) == WeekStart(d) .. (WeekStart(d) + WeekLen - 1)

MonthDays(d) ==
  WeekStart(FirstOfMonth(d)) .. (WeekStart(FirstOfMonth(d)) + MonthCells - 1)

(* Mutant: the arrows of a week page go by one day.                        *)
NavByDay(view, d, delta) == IF view = "month" THEN AddMonths(d, delta) ELSE d + delta

(* navURL: the date the arrows of a page lead to.                          *)
NavDate(view, d, delta) ==
  IF view = "month" THEN AddMonths(d, delta)
  ELSE IF view = "week" THEN d + WeekLen * delta
  ELSE d + delta
=============================================================================
