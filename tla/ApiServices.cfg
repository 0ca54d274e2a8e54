SPECIFICATION ApiSpec
CONSTANTS
  Checks = {k1, k2}
  Visitors = {v1}
  NoPage = NoPage
  MaxVersions = 2
  MaxMishaps = 1
  Requests = {q1, q2}
  NoRequest = NoRequest
  Tabs = {tb1, tb2}
  MaxPairs = 3
  MaxLosses = 1
  Clicks = {a1, a2}
  RateLimit = 2
  MaxPaid = 4
  MaxBlips = 1
  People = {owner, member1, member2}
  Owner = owner
  Calls = {c1, c2}
  Limit = 1
  Slots = {s1, s2, s3}
  Nothing = Nothing
  ChunkSize = 3
  MaxExport = 5
  MaxRow = 8
  MaxMoves = 2
INVARIANTS
  ApiTypeOK
  InvalidatedStaysOut
  NobodyIsThrownOut
  SessionsAreCounted
  RepeatClicksAreFree
  CounterRunsOut
  PlanLimitBounded
  AuditedWritesNameMembers
  ExportAccountsForAll
PROPERTIES
  EverybodyCatchesUp
  SocketComesBack
CHECK_DEADLOCK FALSE
