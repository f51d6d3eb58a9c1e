-------------------------- MODULE MCCalendarPages --------------------------
(* Days of sixteen slots, weeks of two days, months of three and two days  *)
(* by turns; a minute and half an hour are two slots.  The zone is half a  *)
(* day west of UTC: what starts late on day 5 starts on day 6 in UTC.  The *)
(* clocks go forward on day 5 and back on day 7, the last day of a month.  *)
EXTENDS CalendarPages

CONSTANTS work, shared

MCStandard == -8

MCMonthStart == [m \in 0..8 |-> (5 * m + 1) \div 2]

Object(uid, start, end) ==
  <<Line("BEGIN", "", "VCALENDAR"), Line("BEGIN", "", "VEVENT"), Line("UID", "", uid),
    start, end,
    Line("SUMMARY", "", <<"x">>), Line("DESCRIPTION", "", <<"x", "\\", "n", "x">>),
    Line("END", "", "VEVENT")>>

AllDay(uid, first, after) ==
  Object(uid, Line("DTSTART", "date", first), Line("DTEND", "date", after))

(* The end of the first has the zone of its start.  The start of the last  *)
(* is not read as a time, and its end is not kept.                         *)
MCObjects ==
  { [cal |-> work, lines |->
      Object(<<"x">>, Line("DTSTART", "away", 136), Line("DTEND", "", 149))],
    [cal |-> work, lines |-> AllDay(<<"x">>, 5, 7)],
    [cal |-> shared, lines |->
      <<Line("BEGIN", "", "VEVENT"), Line("UID", "", <<"x">>), Line("SUMMARY", "", <<"x">>),
        Line("DESCRIPTION", "", <<"\\", "n">>), Line("RRULE", "", "FREQ"),
        Line("DTSTART", "datetime", 120), Line("DTEND", "", 124),
        Line("END", "", "VEVENT")>>] }

MCEarlier == [cal |-> shared, lines |-> AllDay(<<"n">>, 6, 8)]

MCTitles == {<<" ">>, <<"\\", "n", "CR", "LF", "x">>}
MCTimes == {<<84, 96>>, <<98, 112>>}
MCNows == {93, 117}
=============================================================================
