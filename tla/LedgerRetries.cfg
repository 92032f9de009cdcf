SPECIFICATION Spec
CONSTANTS
  Id = {i1}
  Call = {c1, c2, c3}
  Agent = {a1, a2}
  Content = {x, y}
  Key = {k}
  Part = {shared, own}
  Access <- FirstHasItsOwnPart
  Time = {}
  Triggers = {"slot-collision", "retrograde-displacement"}
  None = None
  MaxInFlight = 3
  CrashesHappen = TRUE
SYMMETRY SymmetryButAgents
INVARIANTS
  TypeOK
  ScopeConfinement
  ReceiptsReproduceDispositions
  OneCreatorPerRecord
