--------------------------- MODULE MCWebTerminal ---------------------------
(* Small instances of WebTerminal for TLC. *)
EXTENDS WebTerminal

CONSTANTS t1, t2, s1, s2

TwoTabs == {t1, t2}
TwoSockets == {s1, s2}
=============================================================================
