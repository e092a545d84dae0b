--------------------------- MODULE MCWatchRuntime ---------------------------
(* Small instances of WatchRuntime for TLC. *)
EXTENDS WatchRuntime, TLC

Symmetry == Permutations(Starts) \cup Permutations(Stops) \cup Permutations(Ids)
=============================================================================
