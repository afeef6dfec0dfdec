--------------------------- MODULE MCRefreshLease ---------------------------
(* A small instance of RefreshLease, with 30 s as the unit of time.        *)
EXTENDS RefreshLease, TLC

Interchangeable == Permutations(Procs)
=============================================================================
