\* Two operations racing an explicit resume() on the same instance, under any two
\* pauses, foreign rotations or faults.
SPECIFICATION FairSpec
CONSTANTS
  o1 = o1
  o2 = o2
  r1 = r1
  NoCall = NoCall
  Ops <- Two
  Resumers = {r1}
  MaxUpsets = 2
CHECK_DEADLOCK FALSE
INVARIANTS
  NoSelfConflict
  AtMostOnce
  SomeoneGetsThrough
PROPERTIES
  TokenNeverRegresses
  Coalesces
  CallsSettle
