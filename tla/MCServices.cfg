SPECIFICATION ServicesSpec
CONSTANTS
    a1 = a1
    a2 = a2
    r1 = r1
    r2 = r2
    s1 = s1
    s2 = s2
    Job = {j1}
    Run = {r1, r2}
    Caller = {a1, a2}
    Recipe <- MCRecipe
    Tag = {1}
    Never = Never
    MaxClock = 2
    MaxEvent = 1
    MaxRevision = 2
    RetrainJobId = {rj1, rj2}
    Instance = {a1, a2}
    Handler = {r1, r2}
    Console = {a1, a2}
    Tap = {tap1, tap2}
    Trigger = {t1}
    MinDispositions = 1
    SignalStride = 1
    MaxSignals = 3
    MaxFaults = 1
    Site = {s1, s2}
    Pair = {s1}
    Rank <- MCRank
    PairLimit = 1
    Proposing = {"merge"}
    Curator = {a1, a2}
    Every <- MCEvery
    MaxWrites = 3
    MaxEdits = 1
    MaxPassFaults = 1
    Uid = {"u1", "u2"}
    Line = {"a", "b"}
    Cost <- MCCost
    Poster = {a1, a2}
    InvoiceId = {"v1", "v2"}
    Biller = {a1, a2}
    Spine = {a1, a2}
    Tolerance = 1
    Hub = {"hub1", "hub2"}
    Journal <- MCJournal
    MaxObservations = 3
    Log <- MCLog
    Willingness = {1, 2, 3}
    Catalog <- MCCatalog
    Policy <- MCPolicy
    Static = "static"
    Chosen = {"pin", "static"}
    Thread = {"th1"}
    Asker = {a1, a2}
    NoRow = NoRow
    Tau = 1
    NearMissK = 1
SYMMETRY Symmetry
CHECK_DEADLOCK FALSE
INVARIANTS
    OneRunPerJob
    JobsFitOnce
    DueFitsStride
    RecordedNotRepeated
    LocksStandForKeys
    PicksAreBest
    SelectionIsFirst
    RoomEvidenceIsTrue
    ThreadsKeepTheirModel
PROPERTIES
    RunsAreCurrent
    CursorsOnlyAdvance
    ImplementsScorerLog
    LedgersAreRegisters
