SPECIFICATION InjectionSpec
CONSTANTS
    m1 = m1
    m2 = m2
    h1 = h1
    h2 = h2
    p1 = p1
    p2 = p2
    Memory = {m1, m2}
    Principal = {p1, p2}
    OwnerOf <- MCOwnerOf
    Thread = {"t1"}
    Handler = {h1, h2}
    Requests <- MCRequests
    Version = {"v1", "v2"}
    KillLimit <- MCKillLimit
    NearK = 1
    MaxAttempts = 3
    MaxBatches = 2
    MaxPatches = 1
    MaxWrites = 2
SYMMETRY Symmetry
CHECK_DEADLOCK FALSE
INVARIANTS
    InjectionTypes
    OutcomesCountedOnce
    CardsAreFrozen
    OneGatePerThread
    KillsQuarantine
PROPERTIES
    QuarantineIsEarned
    VetoesHold
