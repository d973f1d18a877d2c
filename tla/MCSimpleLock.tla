---------------------------- MODULE MCSimpleLock ----------------------------
(* SimpleLock for TLC: four clients. *)
EXTENDS SimpleLock

CONSTANTS c1, c2, c3, c4
=============================================================================
