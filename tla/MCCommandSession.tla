-------------------------- MODULE MCCommandSession --------------------------
(* Small instances of CommandSession for TLC. *)
EXTENDS CommandSession
=============================================================================
