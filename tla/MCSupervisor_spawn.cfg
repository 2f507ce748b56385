SPECIFICATION FairSpec
CONSTANTS
  r1 = r1
  r2 = r2
  t1 = t1
  t2 = t2
  Versions = {1, 2}
  Rollouts = {r1, r2}
  Ships <- MCShipsTwo
  Unspawnable = {2}
  Tasks = {t1}
  IpcCap = 1
  FailedCap = 1
  KeepDirs = 3
  MaxRestarts = 0
CHECK_DEADLOCK FALSE
PROPERTY
  FailedSwapReverts
