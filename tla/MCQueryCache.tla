---------------------------- MODULE MCQueryCache ----------------------------
(* A small instance of QueryCache for TLC. *)
EXTENDS QueryCache

CONSTANTS a, b, c

TwoRows == {a, b}
OneRow == {c}
PausedRow == {b}
=============================================================================
