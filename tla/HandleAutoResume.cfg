\* Two operations on a paused sandbox that nobody else touches.
SPECIFICATION Spec
CONSTANTS
  o1 = o1
  o2 = o2
  r1 = r1
  NoCall = NoCall
  Ops <- Two
  Resumers = {}
  MaxUpsets = 0
INVARIANTS
  AutoResume
CHECK_DEADLOCK FALSE
