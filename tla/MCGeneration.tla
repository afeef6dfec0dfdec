---------------------------- MODULE MCGeneration ----------------------------
(* Small instances of Generation. *)
EXTENDS Generation, TLC
Interchangeable == Permutations(Calls) \cup Permutations(Accounts) \cup Permutations(Generations)
=============================================================================
