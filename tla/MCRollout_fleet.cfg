SPECIFICATION Spec
CONSTANTS
  a1 = a1
  a2 = a2
  r1 = r1
  old = old
  new = new
  Agents = {a1, a2}
  Rollouts = {r1}
  Releases = {old, new}
  Target <- MCTarget
  Tag <- MCTagBare
  Reported <- MCReported
  MaxSessions = 1
  QueueCap = 1
  UpCap = 1
  Requests = {"pause"}
  MaxRequests = 1
  MaxFailures = 0
CHECK_DEADLOCK FALSE
SYMMETRY Symmetry
INVARIANTS
  NoPendingWhenCompleted
