SPECIFICATION LoopSpec
CONSTANTS
  PlanTools <- BeginsWithAnalysis
  MaxRuntime = 2
  MaxHeavy = 2
  HeavyOn = TRUE
  EnforceConvergence = TRUE
  EnforcePolicy = TRUE
  Faults = {}
  NoCommit = NoCommit
  MaxCrashes = 0
  MaxResumes = 2
INVARIANTS CompleteRunIsAtHead
PROPERTIES StatusFollowsGraph
CHECK_DEADLOCK FALSE
