SPECIFICATION SymphonySpec
CONSTANTS
    m1 = m1
    m2 = m2
    m3 = m3
    c1 = c1
    b1 = b1
    b2 = b2
    r1 = r1
    r2 = r2
    g1 = g1
    g2 = g2
    Mem <- MCMem
    Body <- MCBody
    Band <- MCBand
    Attempt <- MCAttempt
    RunId <- MCRunId
    Batch <- MCBatch
    Origin <- MCOrigin
    Drafts <- MCDrafts
    Patches <- MCPatches
    Client = {c1}
    Worker = {}
    Proposals <- Nothing
    Documents <- Nothing
    Repairs <- Nothing
    Amendments = {}
    Principal = {p1, p2}
    Name = {"n1"}
    SourceName = "n1"
    MaxQualifier = 2
    MaxTargets = 0
    MaxCards = 0
    MaxEdits = 1
    NoOrigin = NoOrigin
    Keep = Keep
SYMMETRY Symmetry
CHECK_DEADLOCK FALSE
INVARIANTS
    OnlyWinnersOffered
    LosersStayOut
PROPERTIES
    RunsSettleWhatTheyRead
