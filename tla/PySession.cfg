\* Output cut within runes, two writes of two chunks each, a third task that
\* ends stdin or kills, one that waits, perhaps under a timeout, and one that
\* closes; callbacks raise.
SPECIFICATION PyFairSpec
CONSTANTS
  w1 = w1
  w2 = w2
  w3 = w3
  a1 = a1
  c1 = c1
  Nobody = Nobody
  Writers = {w1, w2, w3}
  Enders = {w3}
  Waiters = {a1}
  Killers = {w3}
  Closers = {c1}
  MaxTasks = 3
  Chunks = 2
  Raises = TRUE
  MaxCancels = 1
  MaxBytes = 2
INVARIANTS
  ResultHonest
  CloseCleans
  ChunksContiguous
PROPERTIES
  NeverHangs
CHECK_DEADLOCK FALSE
