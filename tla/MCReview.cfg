SPECIFICATION SceneSpec
CONSTANTS
    m1 = m1
    m2 = m2
    m3 = m3
    m4 = m4
    c1 = c1
    w1 = w1
    w2 = w2
    b1 = b1
    b2 = b2
    b3 = b3
    batch1 = batch1
    Mem <- MC4Mem
    Worker = {w1}
    Client = {c1}
    Drafts <- MCSplits
    Patches <- MCAllPatches
    Proposals <- Nothing
    Documents <- MCDocuments
    Repairs <- MCRepairs
    MaxEdits = 2
    MaxCards = 2
    Amendments = {b3}
    Body <- MCBody
    Band <- MCBand
    p1 = p1
    p2 = p2
    Principal = {p1, p2}
    Name = {"n1", "n2"}
    SourceName = "n2"
    MaxQualifier = 1
    MaxTargets = 1
    Batch = {batch1}
    Origin = {batch1}
    NoOrigin = NoOrigin
    Keep = Keep
SYMMETRY SymMem4
CHECK_DEADLOCK FALSE
INVARIANTS
    VerdictsEnacted
    CuratorActsOnJudged
    EveryArchiveImports
