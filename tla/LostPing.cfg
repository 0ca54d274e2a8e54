SPECIFICATION HeartbeatsSpec
CONSTANTS
  Heartbeats = {h1}
  Sweeps = {s1}
  Pings = {p1}
  NoHeartbeat = NoHeartbeat
  Window = 1
  MaxPings = 1
  MaxFaults = 0
INVARIANT
  FreshIsAlive
