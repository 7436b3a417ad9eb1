-------------------------- MODULE MCTemplateBuild --------------------------
(* Small instances of TemplateBuild for TLC: a handle of each SDK. *)
EXTENDS TemplateBuild

CONSTANTS ts, py
=============================================================================
