SPECIFICATION MCSpec
CONSTANTS
  Run = {r1, r2}
  Node = {n1, n2}
  NoRun = NoRun
  NoNode = NoNode
  MaxJobs = 3
  MaxClaims = 2
  Runs = {1, 2}
  First = 1
  ApiCalls = {1, 2}
  rw1 = rw1
  RunWorkers = {rw1}
  EnvOf <- MCEnvOf
  Wants <- MCWants
  MaxReleases = 2
SYMMETRY Symmetry
INVARIANTS JobInv ContractGoverns
PROPERTIES JobsChangeHandsSafely ImplementsJobGraph
CHECK_DEADLOCK FALSE
