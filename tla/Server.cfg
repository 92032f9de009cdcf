SPECIFICATION Spec
CONSTANTS
  Process = {p1}
  Own <- OwnIdentity
  Token = {t1, t2}
  Grants <- SomeGrants
  Client = {c1, c2}
  Tool = {"recall", "remember"}
  Whole = 4
  Capacity = 1
  Rate = 3
  MaxTime = 3
  MaxCalls = 3
  MaxStarts = 2
  None = None
SYMMETRY Symmetry
CHECK_DEADLOCK FALSE
INVARIANTS
  UsableWhenItArrived
  ServedAsBound
  RateBounded
