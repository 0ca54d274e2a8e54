SPECIFICATION Spec
CONSTANTS
  Monitors = {m1}
  Jobs = {j1}
  Requests = {r1}
  NoMonitor = NoMonitor
  LockTTL = 4
  JobTimeout = 2
  CleanupTime = 1
  SchedEvery = 1
  Interval = 2
  MaxQueue = 1
  MaxFlips = 0
  MaxFaults = 0
  MaxCalls = 1
INVARIANT
  OneIncidentPerOutage
