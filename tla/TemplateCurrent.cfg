\* A handle that waits again after a rebuild.
SPECIFICATION Spec
CONSTANTS
  ts = ts
  py = py
  Clients = {ts}
  Blocking = {}
  Loggers = {}
  MaxWaits = 1
  MaxBuilds = 2
  MaxFaults = 0
  MaxLogs = 0
INVARIANTS
  WaitsForCurrent
CHECK_DEADLOCK FALSE
