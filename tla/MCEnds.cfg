SPECIFICATION FairLoopSpec
CONSTANTS
  PlanTools <- EndsInVerify
  MaxRuntime = 1
  MaxHeavy = 1
  HeavyOn = TRUE
  EnforceConvergence = FALSE
  EnforcePolicy = TRUE
  Faults = {"store_error"}
  NoCommit = NoCommit
  MaxCrashes = 1
  MaxResumes = 1
INVARIANTS CleanAtStepStart
PROPERTIES EveryExecutionEnds
CHECK_DEADLOCK FALSE
