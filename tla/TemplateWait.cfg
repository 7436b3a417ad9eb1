\* A TypeScript or a synchronous Python handle waits, created or connected,
\* while the template is rebuilt, cancelled and deleted.
SPECIFICATION FairSpec
CONSTANTS
  ts = ts
  py = py
  Clients = {ts, py}
  Blocking = {py}
  Loggers = {ts, py}
  MaxWaits = 1
  MaxBuilds = 2
  MaxFaults = 1
  MaxLogs = 1
INVARIANTS
  ReportsItsRow
PROPERTIES
  NoLogAfterReturn
  WaitEnds
CHECK_DEADLOCK FALSE
