SPECIFICATION PromptSpec
CONSTANTS
  Monitors = {m1}
  Jobs = {j1, j2}
  Requests = {r1}
  NoMonitor = NoMonitor
  LockTTL = 3
  JobTimeout = 1
  CleanupTime = 1
  SchedEvery = 1
  Interval = 1
  MaxQueue = 1
  MaxFlips = 0
  MaxFaults = 1
  MaxCalls = 1
PROPERTIES
  DueIsChecked
  UpdateIsUsed
