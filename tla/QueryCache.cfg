\* Two overlapping mutations on any of the four lists, of two rows and one more
\* to create, under one failure, lost answer or change made elsewhere.
SPECIFICATION FairSpec
CONSTANTS
  a = a
  b = b
  c = c
  Old <- TwoRows
  Paused <- PausedRow
  Fresh <- OneRow
  MaxMutations = 2
  Absent = Absent
  MaxTroubles = 1
CHECK_DEADLOCK FALSE
INVARIANTS
  CacheAgrees
PROPERTIES
  PolledConverges
