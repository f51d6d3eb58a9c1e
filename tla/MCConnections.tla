--------------------------- MODULE MCConnections ----------------------------
(* Two owners, and two handlers at a time; neither can be told apart.      *)
EXTENDS Connections, TLC

CONSTANTS o1, o2, e1, r1, r2, s1

Symmetry == Permutations(Logins) \cup Permutations(Requests)
=============================================================================
