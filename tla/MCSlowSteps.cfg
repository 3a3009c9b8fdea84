SPECIFICATION ExecSpec
CONSTANTS
  Run = {r1}
  Node = {n1, n2}
  NoRun = NoRun
  NoNode = NoNode
  MaxJobs = 2
  MaxClaims = 2
  Waiter = {}
  WatchedRun = r1
  Client = {c1}
  Pid = {1}
  NoOwner = NoOwner
  StepCount = 2
  Faults = {"slow_step", "late_renewal", "store_error", "api_stop"}
  Resumable = {"failed"}
  MaxStops = 0
SYMMETRY Symmetry
PROPERTY FreshLockIsKept
CHECK_DEADLOCK FALSE
