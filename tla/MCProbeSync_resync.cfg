SPECIFICATION FairSpec
CONSTANTS
  a1 = a1
  a2 = a2
  p1 = p1
  p2 = p2
  c1 = c1
  c2 = c2
  Agents = {a1}
  Probes = {p1}
  Configs = {c1}
  MaxSessions = 2
  QueueCap = 2
  BusCap = 1
  MaxHandlers = 1
  MaxEdits = 1
  Faults = {}
  MaxFaults = 0
CHECK_DEADLOCK FALSE
PROPERTY
  SyncAfterReconnect
