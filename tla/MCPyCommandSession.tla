------------------------- MODULE MCPyCommandSession -------------------------
(* Small instances of PyCommandSession for TLC. *)
EXTENDS PyCommandSession

CONSTANTS w1, w2, w3, a1, c1
=============================================================================
