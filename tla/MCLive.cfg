SPECIFICATION LiveSpec
CONSTANTS
    w1 = w1
    p1 = p1
    RetrainJobId = {j1, j2}
    Instance = {i1, i2}
    Handler = {}
    Console = {}
    Tap = {}
    Trigger = {t1}
    MinDispositions = 1
    SignalStride = 1
    MaxSignals = 0
    MaxFaults = 1
    Site = {s1}
    Pair = {s1}
    Rank <- MCRank
    PairLimit = 1
    Proposing = {"merge"}
    Curator = {w1, w2}
    Every <- MCEvery
    MaxWrites = 2
    MaxEdits = 0
    MaxPassFaults = 1
    Creator = {n1}
    Nominator = {n2, n3}
    PrincipalOf <- MCPrincipalOf
    PoolSize = 2
    Budget = 2
    MaxCost = 3
CHECK_DEADLOCK FALSE
INVARIANTS
    StoredIsReceipted
PROPERTIES
    JobsSettle
    DueIsServed
    EveryRequestEnds
    OverBudgetTrips
