\* Two requests at once, two cells, a team from before or none, with up to two
\* failed or lost calls, degraded cells or restarts.
SPECIFICATION Spec
CONSTANTS
  a = a
  b = b
  use = use
  eu = eu
  Requests <- TwoRequests
  Cells <- TwoCells
  Default = use
  Old = Old
  Nobody = Nobody
  MaxTroubles = 2
SYMMETRY Symmetry
CHECK_DEADLOCK FALSE
INVARIANTS
  OwnedOrNothing
  FirstTeamForProof
  DirectoryHasTeam
