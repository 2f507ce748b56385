SPECIFICATION Spec
CONSTANTS
  a1 = a1
  a2 = a2
  r1 = r1
  old = old
  new = new
  Agents = {a1}
  Rollouts = {r1}
  Releases = {old, new}
  Target <- MCTarget
  Tag <- MCTagBare
  Reported <- MCReported
  MaxSessions = 2
  QueueCap = 1
  UpCap = 1
  Requests = {"abort"}
  MaxRequests = 1
  MaxFailures = 1
CHECK_DEADLOCK FALSE
INVARIANTS
  TypeOK
  LiveIsRegistered
  DispatchCovers
  QueuedIsRecorded
PROPERTIES
  AbortedIsFinal
