SPECIFICATION Spec
CONSTANTS
  Id = {}
  Call = {c1, c2, c3, c4}
  Agent = {a1}
  Content = {x, y}
  Key = {k, l}
  Part = {p}
  Access <- AllShareOnePart
  Time = {}
  Triggers = {"slot-collision", "retrograde-displacement"}
  None = None
  MaxInFlight = 3
  CrashesHappen = FALSE
SYMMETRY Symmetry
INVARIANTS
  LedgerAgrees
  IncumbentsStand
  OccurrenceCountExact
  DecisionsOutliveTheRead
PROPERTIES
  ContestedWriteNeverDisplaces
  WritesLiveByTheLedger
