---------------------------- MODULE MCGoogleSync ----------------------------
(* Instances of GoogleSync: calendars c1 and c2, contents a, b and one     *)
(* whose times cannot be parsed.                                           *)
EXTENDS GoogleSync

CONSTANTS c1, c2, a, b, bad
=============================================================================
