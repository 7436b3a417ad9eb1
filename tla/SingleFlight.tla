---------------------------- MODULE SingleFlight ----------------------------
(***************************************************************************)
(* What coalescing promises, without tokens, requests or answers: callers  *)
(* board the one flight there is, the first of them starts it, and when it *)
(* lands every passenger gets the same result.  No second flight starts    *)
(* while one is in the air, and nobody is left on a flight that has landed.*)
(***************************************************************************)
CONSTANTS
  Callers,     \* who may ask for the shared result, each once
  Nobody,      \* not a caller
  Results      \* what a flight can bring back

VARIABLES
  leader,      \* the caller whose flight is in the air, or Nobody
  aboard,      \* the callers waiting for it to land
  given        \* caller -> what it got, or Nobody

flightVars == <<leader, aboard, given>>

Init ==
  /\ leader = Nobody
  /\ aboard = {}
  /\ given = [c \in Callers |-> Nobody]

(* A caller that has got nothing yet boards, starting the flight if it must. *)
Board(c) ==
  /\ c \notin aboard
  /\ given[c] = Nobody
  /\ leader' = IF leader = Nobody THEN c ELSE leader
  /\ aboard' = aboard \cup {c}
  /\ UNCHANGED given

(* The flight lands, with one result for all aboard. *)
Land ==
  /\ leader # Nobody
  /\ leader' = Nobody
  /\ aboard' = {}
  /\ given' = [c \in Callers |-> given'[c]]
  /\ \A c, d \in aboard : given'[c] \in Results /\ given'[c] = given'[d]
  /\ \A c \in Callers \ aboard : given'[c] = given[c]

Next ==
  \/ \E c \in Callers : Board(c)
  \/ Land

Spec == Init /\ [][Next]_flightVars
=============================================================================
