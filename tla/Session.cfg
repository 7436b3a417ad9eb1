\* Output cut within runes, a write of two chunks or of two and a half and
\* stdin.close() before or after it, while the signal may fire, kill() and
\* close() be called and the connection break.
SPECIFICATION FairSpec
CONSTANTS
  HasSignal = TRUE
  Sizes = {4, 5}
  ChunkBytes = 2
  MaxWrites = 1
  MaxEofs = 1
  MaxKills = 1
  MaxBytes = 4
INVARIANTS
  SessionHonest
  AbortKills
  StdinExact
PROPERTIES
  Settles
CHECK_DEADLOCK FALSE
