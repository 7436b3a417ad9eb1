\* One tab beside another that saves into a pool of one: two tokens in one life of
\* the component, one retry in a row, one refused write, any number of lost lines.
SPECIFICATION FairSpec
CONSTANTS
  t1 = t1
  t2 = t2
  s1 = s1
  s2 = s2
  Keys <- TwoTabs
  Tab = t1
  Absent = Absent
  Sockets <- TwoSockets
  NoSocket = NoSocket
  MaxBuffers = 1
  MaxTroubles = 1
  MaxAttempts = 1
  MaxRuns = 2
  MaxOutput = 1
CHECK_DEADLOCK FALSE
INVARIANTS
  OneLine
  CurrentLine
  StatusHonest
  ClosedIsGone
  UncutContextKept
  PoolBounded
PROPERTIES
  RetriesEnd
