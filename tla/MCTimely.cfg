SPECIFICATION FairExecSpec
CONSTANTS
  Run = {r1, r2}
  Node = {n1, w1}
  NoRun = NoRun
  NoNode = NoNode
  MaxJobs = 2
  MaxClaims = 3
  Waiter = {w1}
  WatchedRun = r1
  Client = {c1}
  Pid = {1, 2}
  NoOwner = NoOwner
  StepCount = 1
  Faults = {}
  Resumable = {}
  MaxStops = 1
INVARIANTS NoOrphanedRun
PROPERTIES NoForeignFailure EveryRunSettles
CHECK_DEADLOCK FALSE
