---------------------------- MODULE MCExecStream ----------------------------
(* Small instances of ExecStream for TLC. *)
EXTENDS ExecStream

(* Callbacks with errors of their own. *)
Plain == [s \in SDKs |-> {"plain"}]
=============================================================================
