SPECIFICATION Spec
CONSTANTS
  Monitors = {m1}
  Jobs = {j1}
  Requests = {}
  NoMonitor = NoMonitor
  LockTTL = 4
  JobTimeout = 2
  CleanupTime = 1
  SchedEvery = 1
  Interval = 2
  MaxQueue = 1
  MaxFlips = 0
  MaxFaults = 1
  MaxCalls = 0
INVARIANT
  EveryTransitionAnnounced
