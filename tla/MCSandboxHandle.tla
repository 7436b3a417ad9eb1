-------------------------- MODULE MCSandboxHandle --------------------------
(* Small instances of SandboxHandle for TLC. *)
EXTENDS SandboxHandle

CONSTANTS o1, o2, r1

Two == {o1, o2}
=============================================================================
