\* A run of either SDK, over every break of its stream.
SPECIFICATION StreamClientSpec
CONSTANTS
  Throws <- Plain
  MaxEvents = 3
CHECK_DEADLOCK FALSE
INVARIANTS
  OutputComplete
  NoDoubleEmit
PROPERTIES
  RunEnds
