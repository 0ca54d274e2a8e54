SPECIFICATION FairSpec
CONSTANTS
  Incidents = {i1}
  Channels = {c1}
  Workers = {w1, w2}
  NoIncident = NoIncident
  Delay = 1
  MaxQueue = 1
  MaxFaults = 1
  MaxChanges = 1
PROPERTY
  OpenIsEscalated
