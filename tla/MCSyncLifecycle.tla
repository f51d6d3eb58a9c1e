-------------------------- MODULE MCSyncLifecycle ---------------------------
(* Instances of SyncLifecycle: provider accounts e1 and e2, which nothing  *)
(* tells apart, keys k1 and k2.                                            *)
EXTENDS SyncLifecycle, TLC

CONSTANTS e1, e2, k1, k2

Symmetry == Permutations(Emails)
=============================================================================
