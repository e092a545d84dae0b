--------------------------- MODULE MCAlertEngine ---------------------------
(* Small instances of AlertEngine for TLC. *)
EXTENDS AlertEngine, TLC

AllKinds == {Kinds}
NoLate == {Kinds, Kinds \ {"late"}}
=============================================================================
