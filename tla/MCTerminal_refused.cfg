SPECIFICATION Spec
CONSTANTS
  s1 = s1
  s2 = s2
  u1 = u1
  u2 = u2
  Sessions = {s1, s2}
  Users = {u1}
  Owner <- MCOwner
  SessionsPerUser = 2
  SessionsPerAgent = 1
  QueueCap = 2
  UpCap = 1
  FrameCap = 1
  StdinCap = 1
  EofTicks = 1
  MaxConns = 1
  MaxRestarts = 0
CHECK_DEADLOCK FALSE
PROPERTY
  RefusedOnlyAtCap
