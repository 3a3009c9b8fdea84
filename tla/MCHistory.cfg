SPECIFICATION LoopSpec
CONSTANTS
  PlanTools <- EndsInModify
  MaxRuntime = 1
  MaxHeavy = 1
  HeavyOn = TRUE
  EnforceConvergence = TRUE
  EnforcePolicy = TRUE
  Faults = {"store_error", "git_error"}
  NoCommit = NoCommit
  MaxCrashes = 1
  MaxResumes = 1
INVARIANTS HistoryIsRecorded CompletedCommitsStay
CHECK_DEADLOCK FALSE
