---------------------------- MODULE MCKeepalive ----------------------------
(* One prefix: the work of a sweep on other records is a delay to it. *)
EXTENDS Keepalive

CONSTANT p

MCPrefixes == {p}
=============================================================================
