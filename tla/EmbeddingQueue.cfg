SPECIFICATION Spec
CONSTANTS
  Rec = {r1, r2}
  Imported = {r2}
  Stamp = {u1, u2}
  Worker = {w1, w2}
  Token <- MCToken
  BatchSize = 1
  MaxImports = 2
  MaxCrashes = 0
  SlowWorkers = TRUE
  None = None
SYMMETRY Symmetry
INVARIANTS
  WorkIsNeverLost
CHECK_DEADLOCK FALSE
