--------------------------- MODULE MCPrefetchFlow ---------------------------
(* A plan of three keys. *)
EXTENDS PrefetchFlow

CONSTANTS a, b, c

MCKeys == {a, b, c}
=============================================================================
