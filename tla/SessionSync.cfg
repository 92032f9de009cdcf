SPECIFICATION FairSpec
CONSTANTS
  x = x
  y = y
  Session = {1, 2}
  Content = {x, y}
  Lines <- MCLines
  Proc = {p1}
  MaxLines <- MCMaxLines
  MaxRewrites = 1
  MaxMishaps = 1
  None = None
INVARIANTS
  PassedLinesAreStored
PROPERTIES
  EveryMarkerArrives
CHECK_DEADLOCK FALSE
