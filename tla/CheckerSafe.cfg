SPECIFICATION OneSpec
CONSTANTS
  Monitors = {m1}
  Jobs = {j1, j2}
  Requests = {r1}
  NoMonitor = NoMonitor
  LockTTL = 3
  JobTimeout = 1
  CleanupTime = 1
  SchedEvery = 1
  Interval = 1
  MaxQueue = 1
  MaxFlips = 1
  MaxFaults = 2
  MaxCalls = 2
SYMMETRY JobSymmetry
INVARIANTS
  TypeOK
  MutualExclusion
  HolderKeepsLock
  AtMostOneOpen
  IncidentsFollowChecks
  AlertsFollowCommits
PROPERTIES
  HistoryKept
  ImplementsLog
