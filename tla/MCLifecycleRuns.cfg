SPECIFICATION MCSpec
CONSTANTS
    Run = {r1}
    Server = {s1, s2}
    Tick = {t1}
    NoRun = NoRun
    NotGiven = NotGiven
    Ask <- Asks
    ExpectedStep <- Steps
    GoalSteps = 2
    Checks = {v1}
    v1 = v1
    KindsOf <- MCKindsOf
    Projects <- MCProjects
    Ports = {1, 2}
    MaxMishaps = 2
INVARIANTS
    RunsAreAccounted
    DrivenRunIsScheduled
    ChecksAreSound
PROPERTIES
    EndedRunRests
    DrivenRunEnds
    CheckEnds
CHECK_DEADLOCK FALSE
