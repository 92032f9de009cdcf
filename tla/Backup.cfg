SPECIFICATION Spec
CONSTANTS
  None = None
  Torn = Torn
  r1 = r1
  r2 = r2
  Run = {r1, r2}
  Database = {"live", "old"}
  Root = {"srv", "root"}
  Crontabs <- MCCrontabs
  Environment <- Unset
  DefaultSettings <- MCDefaults
  InUse = "live"
  LastDay = 2
  Sundays = {2}
  Forces = {FALSE}
  MaxRecords = 1
  LocalDailyKeep = 1
  RemoteDailyKeep = 1
  WeeklyKeep = 1
  DailyMaxAge = 0
  WeeklyMaxAge = 0
  WarnDrift = 0
  FailDrift = 0
  MaxFaults = 1
SYMMETRY Runs
INVARIANTS SealedGenerationsVerify ADateNamesOneSnapshot
PROPERTIES PassMeansRecoverable CompletedRunIsHealthy
CHECK_DEADLOCK FALSE
