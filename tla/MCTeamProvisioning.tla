------------------------- MODULE MCTeamProvisioning -------------------------
(* A small instance of TeamProvisioning for TLC. *)
EXTENDS TeamProvisioning, TLC

CONSTANTS a, b, use, eu

TwoRequests == {a, b}
TwoCells == {use, eu}

Symmetry == Permutations(TwoRequests)
=============================================================================
