SPECIFICATION MCSpec
CONSTANTS
    Paths <- MCPaths
    IgnoreFile = 0
    Ignored <- MCIgnored
    Restricted = {}
    Contents = {a, big}
    Oversized = {big}
    a = a  big = big
    Absent = Absent  Torn = Torn  Generated = Generated
    MaxFiles = 2
    Isolated = TRUE
    MaxChanges = 2  MaxSteps = 2  MaxFaults = 2  MaxEdits = 1
    Requests = {r1, r2, r3}
    MaxServerStops = 1
    Calls = {c1, c2, c3}
    c1 = c1  c2 = c2  c3 = c3
    TabOf <- MCTabOf
    KindsOf <- MCKindsOf
    MaxSessions = 2  MaxTokens = 3  MaxLosses = 1
SYMMETRY MCSymmetry
INVARIANTS
    StepIsAtomic
    OverlapNeedsABlindSpot
    
    ReuseHasAReason
PROPERTIES
    StepKeepsToItsFiles
CHECK_DEADLOCK FALSE
