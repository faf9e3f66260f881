SPECIFICATION SchedulerSpec

CONSTANTS
  MaxEdits = 2
  MaxQuiet = 1
  NoEntry = NoEntry
  Unloaded = Unloaded
  MaxFailures = 1
  MaxRestarts = 1
  MaxSaves = 1

INVARIANTS
  SchedulerTypeOK
  CacheTruthful
  ScanIsCurrent

PROPERTIES
  AutomaticIsAllowed
  EveryEditIsSynced
