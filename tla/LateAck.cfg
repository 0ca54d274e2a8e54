SPECIFICATION Spec
CONSTANTS
  Monitors = {m1}
  Jobs = {j1}
  Requests = {r1}
  NoMonitor = NoMonitor
  LockTTL = 3
  JobTimeout = 1
  CleanupTime = 1
  SchedEvery = 1
  Interval = 1
  MaxQueue = 1
  MaxFlips = 1
  MaxFaults = 0
  MaxCalls = 1
INVARIANT
  OnlyOpenIsAcked
