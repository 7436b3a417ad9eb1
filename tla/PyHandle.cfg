\* Two operations, a resume() and two kill() of one handle: the refresh lock,
\* a client closed under other threads, and an end for every thread.
SPECIFICATION FairSpec
CONSTANTS
  o1 = o1
  o2 = o2
  r1 = r1
  k1 = k1
  k2 = k2
  NoCall = NoCall
  Ops <- Two
  Resumers = {r1}
  Killers <- Kills
  MaxThreads = 3
  MaxPauses = 1
  MaxFaults = 1
INVARIANTS
  NoSelfConflict
  KillMeansGone
PROPERTIES
  ThreadsEnd
CHECK_DEADLOCK FALSE
