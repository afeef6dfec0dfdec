---------------------------- MODULE MCVideoTasks ----------------------------
(* Small instances of VideoTasks. *)
EXTENDS VideoTasks, TLC
Interchangeable == Permutations(Handlers) \cup Permutations(Jobs)
=============================================================================
