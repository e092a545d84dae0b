---------------------------- MODULE MCTransport ----------------------------
(* Small instances of Transport for TLC. *)
EXTENDS Transport, TLC

Symmetry == Permutations(Reqs) \cup Permutations(Ids)
=============================================================================
