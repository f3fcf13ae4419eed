---------------------------- MODULE MCTaskEngine ----------------------------
(* A small instance of TaskEngine. *)
EXTENDS TaskEngine

CONSTANTS k1, k2, c1, c2

MCIntents == {k1, k2}
MCConsumers == {c1, c2}
=============================================================================
