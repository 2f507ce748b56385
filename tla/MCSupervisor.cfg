SPECIFICATION FairSpec
CONSTANTS
  r1 = r1
  r2 = r2
  t1 = t1
  t2 = t2
  Versions = {1}
  Rollouts = {r1}
  Ships <- MCShipsOne
  Unspawnable = {}
  Tasks = {t1, t2}
  IpcCap = 1
  FailedCap = 1
  KeepDirs = 3
  MaxRestarts = 1
CHECK_DEADLOCK FALSE
INVARIANTS
  TypeOK
  KnownGoodIsProven
  DownloadsAreCancellable
PROPERTIES
  ImplementsSelfUpdate
  UpdatesAreAnswered
  StagedIsLaunched
