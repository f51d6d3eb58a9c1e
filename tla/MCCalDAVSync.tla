---------------------------- MODULE MCCalDAVSync ----------------------------
(* Instances of CalDAVSync.  `zoned` has a time zone, which the UTC times  *)
(* written by buildICS do not keep: it comes back as `plain`.              *)
EXTENDS CalDAVSync

CONSTANTS c1, c2, plain, zoned, bad

MCFlat == [v \in Contents |-> IF v = zoned THEN plain ELSE v]
=============================================================================
