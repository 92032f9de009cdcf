SPECIFICATION Spec
CONSTANTS
  Id = {i1}
  Call = {c1, c2, c3, c4}
  Agent = {a1}
  Content = {x, y}
  Key = {k}
  Part = {p}
  Access <- AllShareOnePart
  Time = {}
  Triggers = {"slot-collision", "retrograde-displacement", "derived-from-memory"}
  None = None
  MaxInFlight = 1
  CrashesHappen = FALSE
SYMMETRY Symmetry
INVARIANTS
  SlotHoldsOneAnswer
  OneOpenEntryPerSlotAndAgent
PROPERTIES
  GateIsAtomic
