SPECIFICATION MCSpec
CONSTANTS
    Possible = {"layer", "import"}
    MaxAttempts = 2  MaxInvariantRetries = 1  MaxStops = 1  MaxResumes = 1
    Files <- MCFiles
    Modules = {m1, m2}
    Loops = FALSE
    Requests = {d1, d2}
    MaxServerStops = 2
    StopPrevious = TRUE
    Mishaps = {"store", "docker", "worker_starts"}
    Writers = {w1, w2, w3}
    w1 = w1  w2 = w2  w3 = w3
    KindsOf <- MCKindsOf
    Ids = {1, 2, 3}
    AgentRuns = {1, 2}
    HashOf <- MCHashOf
    MaxEdges = 2  MaxRows = 3  MaxGraphFaults = 1
INVARIANTS
    GraphIsJudgedRightly
    ActiveDeploymentRuns
    AnswersAreHonest
    GraphStoresHold
PROPERTIES
    ServiceContinues
    EveryDeploymentEnds
    RequestEnds
    NoSecondMicroRepair
CHECK_DEADLOCK FALSE
