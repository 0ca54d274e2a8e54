SPECIFICATION WorkerSpec
CONSTANTS
  Tokens = {t1}
  NoToken = NoToken
  Chats = {c1}
  Polls = {p1, p2}
  NoPoll = NoPoll
  NoRow = NoRow
  Batch = 2
  MaxUpdates = 2
  MaxCuts = 1
  MaxChanges = 1
  Hooks = {h1, h2, h3}
  NoHook = NoHook
  PostTime = 1
  FirstPause = 2
  SecondPause = 8
  JobTimeout = 3
  MaxTroubles = 1
  Heartbeats = {b1, b2}
  Sweeps = {s1, s2}
  Pings = {q1}
  NoHeartbeat = NoHeartbeat
  Window = 1
  MaxPings = 1
  MaxFaults = 1
INVARIANTS
  WorkerTypeOK
  ConfirmedStartsAreSpent
  
  MissingIsAccountedFor
PROPERTIES
  ConnectedOnce
  StartEndsWaiting
  
  SilenceIsFound
CHECK_DEADLOCK FALSE
