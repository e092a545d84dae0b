----------------------------- MODULE MCService -----------------------------
(* Small instances of Service for TLC. *)
EXTENDS Service

\* A failure whose text has needles of two kinds
MCFailures == {{"authentication", "network"}}
=============================================================================
