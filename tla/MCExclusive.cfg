SPECIFICATION ExecSpec
CONSTANTS
  Run = {r1}
  Node = {n1, n2}
  NoRun = NoRun
  NoNode = NoNode
  MaxJobs = 2
  MaxClaims = 2
  Waiter = {}
  WatchedRun = r1
  Client = {c1}
  Pid = {1}
  NoOwner = NoOwner
  StepCount = 2
  Faults = {"late_renewal"}
  Resumable = {"running", "failed"}
  MaxStops = 1
SYMMETRY Symmetry
INVARIANTS ExecInv ExclusiveExecution
PROPERTIES ImplementsSerialRun
CHECK_DEADLOCK FALSE
