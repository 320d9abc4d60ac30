\* One worker, several events: counters, stages and the end of a job against
\* cancellations and lost answers.
SPECIFICATION FairSpec
CONSTANTS
  Workers = {w1}
  Jobs = {j1, j2}
  NoWorker = NoWorker
  NoJob = NoJob
  Requests <- SameCommand
  PoolSize = 2
  HasHooks = TRUE
  Cancels = TRUE
  Crashes = TRUE
  MaxEvents = 3
  MaxFaults = 2
INVARIANTS
  CountersTrackEvents
  StageLocatesProgress
  SuccessIsDurable
PROPERTIES
  FinishedJobsAreFrozen
  RunReturns
  JobsFinish
CHECK_DEADLOCK FALSE
