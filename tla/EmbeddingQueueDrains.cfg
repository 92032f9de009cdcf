SPECIFICATION FairSpec
CONSTANTS
  Rec = {r1, r2}
  Imported = {}
  Stamp = {u1}
  Worker = {w1, w2}
  Token <- MCToken
  BatchSize = 2
  MaxImports = 0
  MaxCrashes = 1
  SlowWorkers = FALSE
  None = None
PROPERTIES
  RowsLeaveWithTheirVector
  EveryMemoryIsEmbedded
CHECK_DEADLOCK FALSE
