SPECIFICATION FairSpec
CONSTANTS
  a1 = a1
  a2 = a2
  p1 = p1
  p2 = p2
  c1 = c1
  c2 = c2
  Agents = {a1}
  Probes = {p1, p2}
  Configs = {c1, c2}
  MaxSessions = 2
  QueueCap = 1
  BusCap = 1
  MaxHandlers = 2
  MaxEdits = 2
  Faults = {"drop", "fail"}
  MaxFaults = 1
CHECK_DEADLOCK FALSE
INVARIANTS
  TypeOK
  LastPushedIsTold
PROPERTIES
  Converges
