SPECIFICATION QueueSpec
CONSTANTS
    m1 = m1
    m2 = m2
    m3 = m3
    m4 = m4
    c1 = c1
    w1 = w1
    w2 = w2
    b1 = b1
    b2 = b2
    b3 = b3
    batch1 = batch1
    Mem <- MC4Mem
    Worker = {w1, w2}
    Client = {}
    Drafts <- Nothing
    Patches <- Nothing
    Proposals <- MCProposals
    Documents <- Nothing
    Repairs <- Nothing
    MaxEdits = 2
    MaxCards = 0
    Amendments = {}
    Body <- MCBody
    Band <- MCBand
    Principal = {p1}
    Name = {"n1", "n2"}
    SourceName = "n2"
    MaxQualifier = 1
    MaxTargets = 1
    Batch = {batch1}
    Origin = {batch1}
    NoOrigin = NoOrigin
    Keep = Keep
SYMMETRY SymMem4
CHECK_DEADLOCK FALSE
PROPERTY
    RejectedStaysOut
