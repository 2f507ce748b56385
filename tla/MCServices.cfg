SPECIFICATION ServicesFairSpec
CONSTANTS
  f1 = f1
  f2 = f2
  NoFetch = NoFetch
  Fetches = {f1, f2}
  Plain = {f1}
  FileChunks = 2
  ChanCap = 1
  FetchCap = 1
  FetchUpCap = 1
  MaxStreams = 2
  Minute = 2
  Five = 4
  Hour = 8
  RawWindow = 4
  FiveWindow = 6
  HourWindow = 16
  Keep <- MCKeep
  BufferCap = 1
  UpCap = 2
  TickGap = 3
  MaxSamples = 2
  MaxDrops = 1
  MaxNow = 8
  p1 = p1
  p2 = p2
  Probes = {p1, p2}
  Permits = 2
  QueueCap = 2
  BatchMax = 1
  BatchesCap = 1
  KeepResults <- MCKeep
  MaxResults = 2
  MaxBreaks = 1
  MaxClock = 7
CHECK_DEADLOCK FALSE
INVARIANTS
  ServicesTypeOK
  WholeIsTheFile
  MinutesAreWhole
  FreshReachesHours
  ReportedIsStored
PROPERTIES
  FetchEnds
  MinuteRowsOnlyGrow
  ResultMinutesOnlyGrow
