SPECIFICATION Spec
CONSTANTS
  Incidents = {i1}
  Channels = {c1, c2}
  Workers = {w1, w2}
  NoIncident = NoIncident
  Delay = 1
  MaxQueue = 1
  MaxFaults = 1
  MaxChanges = 1
SYMMETRY Symmetric
INVARIANTS
  TypeOK
  ReceiptsMatch
  EscalatedWasDelivered
PROPERTIES
  EscalationNotEarly
  SettledStaysQuiet
