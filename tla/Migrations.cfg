SPECIFICATION FairSpec
CONSTANTS
  Process = {p1, p2}
  Record = {r1}
  MaxText = 2
  Held = {r1}
  Released = {0, 3, 5, 6}
  MaxCrashes = 1
  None = None
INVARIANTS
  RecordedIsApplied
  UndisturbedFailsAtVersionFour
  BlindReadersPredateContests
PROPERTIES
  MissingIsMissing
  EveryOpenerGetsIn
