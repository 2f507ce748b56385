SPECIFICATION LiveFairSpec
CONSTANTS
  s1 = s1
  u1 = u1
  Sessions = {s1}
  Users = {u1}
  Owner <- MCOwner
  SessionsPerUser = 1
  SessionsPerAgent = 1
  QueueCap = 2
  UpCap = 1
  FrameCap = 1
  StdinCap = 1
  EofTicks = 2
  MaxConns = 2
  MaxRestarts = 1
  h1 = h1
  h2 = h2
  a1 = a1
  NoServer = NoServer
  Hosts = {h1, h2}
  Servers = {a1}
  MaxJoins = 2
  MaxServers = 3
  MaxSetups = 2
  MaxFailures = 1
  g1 = g1
  g2 = g2
  g3 = g3
  linux = linux
  mac = mac
  NoTarget = NoTarget
  Fleet = {g1, g2, g3}
  Targets = {linux, mac}
  TargetOf <- MCTargetOf
  Percents = {60}
  Asks = {{}, {g3}}
  RecentLimit = 1
  MaxReleases = 2
  MaxRollouts = 1
  MaxEdits = 1
  MaxOutages = 1
CHECK_DEADLOCK FALSE
INVARIANTS
  LiveTypeOK
  TokenIsHeld
  SampleIsTheShare
PROPERTIES
  FreshJoinStaysUnraced
  ServerComesOnline
  BrowserGoneShellEnds
  CacheSettles
