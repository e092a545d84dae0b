----------------------------- MODULE MCPolling -----------------------------
(* Small instances of Polling for TLC. *)
EXTENDS Polling

\* A target that ends in an unpadded month: at tick 1 it is December, prefix "12";
\* at tick 2 January, whose prefix "1" covers the keys of December as well.
MCUnder == [p \in {12, 1} |-> IF p = 12 THEN {2, 3} ELSE {1, 2, 3}]
MCTargetsAt == [t \in 1..MaxTime |-> IF t < 2 THEN <<12>> ELSE <<1, 12>>]
=============================================================================
