\* Workers of different commands: keys, leases and drivers.
SPECIFICATION Spec
CONSTANTS
  Workers = {w1, w2}
  Jobs = {j1, j2}
  NoWorker = NoWorker
  NoJob = NoJob
  Requests <- CrossedKeys
  PoolSize = 2
  HasHooks = FALSE
  Cancels = TRUE
  Crashes = TRUE
  MaxEvents = 1
  MaxFaults = 1
SYMMETRY Symmetry
INVARIANTS
  TypeOK
  OneActiveJobPerKey
  DuplicateReportedAsConflict
  LeaseCoversRunningJob
  OneDriverPerJob
PROPERTIES
  ConflictHasLiveOwner
CHECK_DEADLOCK FALSE
