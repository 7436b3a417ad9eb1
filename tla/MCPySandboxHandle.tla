------------------------- MODULE MCPySandboxHandle -------------------------
(* Small instances of PySandboxHandle for TLC. *)
EXTENDS PySandboxHandle

CONSTANTS o1, o2, r1, k1, k2

Two == {o1, o2}
Kills == {k1, k2}
=============================================================================
