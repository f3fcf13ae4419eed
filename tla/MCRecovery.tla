----------------------------- MODULE MCRecovery -----------------------------
(* A plan of two keys. *)
EXTENDS Recovery

CONSTANTS a, b

MCKeys == {a, b}
=============================================================================
