SPECIFICATION Spec
CONSTANTS
  Store = {s1, s2}
  s1 = s1
  s2 = s2
  None = None
  Name <- Names
  Key <- Keys
  Text <- Texts
  Workspace <- Workspaces
  ClaimSlot <- Slots
  Slot <- SlotOfId
  Sources <- AllSources
  Bundles <- SomeBundles
  Found <- SomeFound
  BatchSize = 1
  Retention = 2
  Budget = 2
  Sizes = {1, 3}
  MaxJobs = 2
  MaxCalls = 2
CHECK_DEADLOCK FALSE
INVARIANTS
  BundleIsOneMoment
  
PROPERTIES
  RestoreIsExactWhenAlone
  RetentionKeepsNewestWithinBounds
  AssignCoversEveryRecord
  ImportIsRepeatable
