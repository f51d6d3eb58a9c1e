----------------------------- MODULE ICalendar ------------------------------
(***************************************************************************)
(* The iCalendar text of one event, as the app writes it for iCloud and    *)
(* reads it back (caldav.go:231-333, 416-437).                             *)
(*                                                                         *)
(* A text is a sequence of characters, of which those that escaping, or    *)
(* the forms of the pages, treat apart are told apart.  An object is its   *)
(* sequence of unfolded lines without their ends (a CR before a line's end *)
(* is part of it), a line a name, what its parameters say of a time, and a *)
(* value.                                                                  *)
(***************************************************************************)
EXTENDS Dates, Sequences, SequencesExt

CONSTANTS
  AwayOffset    \* offset from UTC of another zone a TZID may name

ASSUME AwayAssumption == AwayOffset \in Int

(* Characters: a letter, what escapeICS knows, what an escape ends in, and *)
(* other white space.                                                      *)
Chars == {"x", "n", "N", "\\", ",", ";", "LF", "CR", " "}

(* What buildICS is given of a row, and what parseICS makes of an object.  *)
(* The recurrence is a rule with its prefix RRULE:, one without, or none.  *)
Rules == {"", "RRULE:FREQ", "FREQ"}
NoFields == [uid |-> <<>>, summary |-> <<>>, description |-> <<>>,
             start |-> None, end |-> None, startDate |-> None, endDate |-> None,
             tzid |-> "", recurrence |-> ""]

-----------------------------------------------------------------------------
(* Text                                                                    *)

EscapeChar(c) ==
  CASE c \in {"\\", ",", ";"} -> <<"\\", c>>
    [] c = "LF"               -> <<"\\", "n">>
    [] OTHER                  -> <<c>>

(* Mutant: backslashes are left alone.                                     *)
EscapeAllButBackslash(text) ==
  FlattenSeq([i \in DOMAIN text |-> IF text[i] = "\\" THEN <<"\\">> ELSE EscapeChar(text[i])])

(* escapeICS.                                                              *)
Escape(text) == FlattenSeq([i \in DOMAIN text |-> EscapeChar(text[i])])

(* unescapeICS: from the left, the first escape that matches is replaced   *)
(* and passed over; a backslash before anything else stands for itself.    *)
Meant == [c \in {"n", "N", ",", ";", "\\"} |-> IF c \in {"n", "N"} THEN "LF" ELSE c]

IsEscape(text, i) ==
  text[i] = "\\" /\ i < Len(text) /\ text[i + 1] \in DOMAIN Meant

Unescape(text) ==
  LET From[i \in 1..(Len(text) + 1)] ==
        IF i > Len(text) THEN <<>>
        ELSE IF IsEscape(text, i) THEN <<Meant[text[i + 1]]>> \o From[i + 2]
        ELSE <<text[i]>> \o From[i + 1]
  IN  From[1]

-----------------------------------------------------------------------------
(* Lines                                                                   *)

Line(name, param, value) == [name |-> name, param |-> param, value |-> value]

(* What can stand in a line of an object: texts, and dates or times.  A    *)
(* time may be said to be one: VALUE=DATE-TIME, here of a time in UTC.     *)
IsLine(line) ==
  /\ line.param \in {"", "date", "utc", "datetime", "away"}
  /\ line.name \in {"UID", "SUMMARY", "DESCRIPTION"} => line.value \in Seq(Chars)
  /\ line.name \in {"DTSTART", "DTEND"} => line.value \in Int

(* A line only if there is something to say.                               *)
TextLine(name, text) ==
  IF text = <<>> THEN <<>> ELSE <<Line(name, "", Escape(text))>>

(* buildICS.  A recurrence is written as it is: without its prefix it is a *)
(* line that has no name, which parseICS passes over.                      *)
BuildICS(uid, row) ==
  <<Line("BEGIN", "", "VEVENT"), Line("UID", "", Escape(uid)),
    Line("SUMMARY", "", Escape(row.title))>>
  \o TextLine("DESCRIPTION", row.description)
  \o (IF row.allDay
      THEN <<Line("DTSTART", "date", row.start), Line("DTEND", "date", row.end)>>
      ELSE <<Line("DTSTART", "utc", row.start), Line("DTEND", "utc", row.end)>>)
  \o (IF row.recurrence = "RRULE:FREQ" THEN <<Line("RRULE", "", "FREQ")>> ELSE <<>>)
  \o <<Line("END", "", "VEVENT")>>

(* parseICSTime: UTC, or the local time of the zone named, or of the app's. *)
ParseTime(line, tzid) ==
  IF line.param \in {"utc", "datetime"} THEN line.value
  ELSE IF tzid = "away" THEN line.value - AwayOffset
  ELSE FromWall[line.value]

(* icsParam(key, "TZID"): the zones the app can load.                      *)
TZID(line) == IF line.param = "away" THEN "away" ELSE ""

(* The start date of a line: its parameters hold VALUE=DATE, which those   *)
(* of VALUE=DATE-TIME do, too.  What such a line gives is kept for a date; *)
(* as a string it comes after every date of its year, here of all.         *)
NotADate == MonthStart[Months]

StartDate(line) == IF line.param = "date" THEN line.value ELSE NotADate

(* One line, read into the fields so far.  A DTEND without a zone of its   *)
(* own has that of a DTSTART before it.  What comes later replaces what    *)
(* came before, the lines of an alarm inside the event included.           *)
ReadLine(e, line) ==
  CASE line.name = "UID"         -> [e EXCEPT !.uid = Unescape(line.value)]
    [] line.name = "SUMMARY"     -> [e EXCEPT !.summary = Unescape(line.value)]
    [] line.name = "DESCRIPTION" -> [e EXCEPT !.description = Unescape(line.value)]
    [] line.name = "RRULE"       -> [e EXCEPT !.recurrence = "RRULE:FREQ"]
    [] line.name = "DTSTART" /\ line.param \in {"date", "datetime"} ->
         [e EXCEPT !.tzid = TZID(line), !.startDate = StartDate(line)]
    [] line.name = "DTSTART" /\ line.param \notin {"date", "datetime"} ->
         [e EXCEPT !.tzid = TZID(line), !.start = ParseTime(line, TZID(line))]
    [] line.name = "DTEND" /\ line.param = "date" -> [e EXCEPT !.endDate = line.value]
    [] line.name = "DTEND" /\ line.param # "date" ->
         [e EXCEPT !.end = ParseTime(line, IF TZID(line) = "" THEN e.tzid ELSE TZID(line))]
    [] OTHER -> e

(* parseICS: the lines of the first event of the object, to the last if it *)
(* is not said to end.                                                     *)
ParseICS(lines) ==
  LET At(name) == SelectInSeq(lines, LAMBDA l : l.name = name /\ l.value = "VEVENT")
      last == IF At("END") = 0 THEN Len(lines) ELSE At("END") - 1
  IN  IF At("BEGIN") = 0 THEN NoFields
      ELSE FoldLeft(ReadLine, NoFields, SubSeq(lines, At("BEGIN") + 1, last))

(* An event without an identifier or a summary is refused.                 *)
Readable(e) == e.uid # <<>> /\ e.summary # <<>>

(* Mutant: the columns are filled in the wrong order.                      *)
StoredBackwards(e) ==
  [title |-> e.summary, description |-> e.description, recurrence |-> e.recurrence,
   allDay |-> e.startDate # None,
   start |-> IF e.startDate # None THEN e.endDate ELSE e.end,
   end |-> IF e.startDate # None THEN e.startDate ELSE e.start]

(* The columns storeICSEvent fills.  An end the text does not give is      *)
(* stored as an empty string, which the CHECK of the table accepts.        *)
StoredFields(e) ==
  [title |-> e.summary, description |-> e.description, recurrence |-> e.recurrence,
   allDay |-> e.startDate # None,
   start |-> IF e.startDate # None THEN e.startDate ELSE e.start,
   end |-> IF e.startDate # None THEN e.endDate ELSE e.end]
=============================================================================
