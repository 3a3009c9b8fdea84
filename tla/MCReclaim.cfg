SPECIFICATION ExecSpec
CONSTANTS
  Run = {r1}
  Node = {n1, n2}
  NoRun = NoRun
  NoNode = NoNode
  MaxJobs = 1
  MaxClaims = 2
  Waiter = {}
  WatchedRun = r1
  Client = {c1}
  Pid = {1, 2}
  NoOwner = NoOwner
  StepCount = 2
  Faults = {}
  Resumable = {}
  MaxStops = 1
SYMMETRY Symmetry
INVARIANT ReclaimedJobExecutes
CHECK_DEADLOCK FALSE
