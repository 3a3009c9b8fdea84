SPECIFICATION MCSpec
CONSTANTS
    Processes = {p1, p2}
    Slots = {s1}
    MaxAttempts = 2  MaxDeaths = 2
    Databases = {"fresh", "legacy", "graphed"}
    Users = {u1, u2}
    Calls = {1, 2, 3}
    LoginMax = 1  MaxSlugs = 2  MaxErrors = 1
    RunConfigs <- MCScopeConfigs
    ChangedPlaces = {"modules", "prisma", "Dockerfile", "named", "elsewhere"}
    Counts = {4, 9}  Sizes = {90, 150}
    MaxCorrections = 2  MaxTrouble = 2
    pa = pa  pb = pb  ws1 = ws1  ws2 = ws2
    None = None
    Projects = {pa, pb}
    Workspaces = {ws1, ws2}
    Home <- MCHome
    Tasks = {h1, h2}
    Poller = timer
    MaxEvents = 2  MaxFailures = 1
INVARIANTS
    SchemaServes
    AccountsHoldTogether
    CorrectionsAreContained
    PageHoldsTogether
SYMMETRY MCSymmetry
CHECK_DEADLOCK FALSE
