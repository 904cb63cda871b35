SPECIFICATION MemorySpec
CONSTANTS
    m1 = m1
    m2 = m2
    m3 = m3
    c1 = c1
    c2 = c2
    b1 = b1
    b2 = b2
    Mem <- MCMem
    Client <- MCClient
    Body <- MCBody
    Band <- MCBand
    Patches <- MCPatches
    Drafts <- MCDrafts
    Principal = {p1}
    Name = {"n1", "n2"}
    SourceName = "n2"
    MaxQualifier = 0
    Origin = {}
    NoOrigin = NoOrigin
    Keep = Keep
    MaxEdits = 2
SYMMETRY Symmetry
CHECK_DEADLOCK FALSE
INVARIANTS
    LineageComplete
    RootsDescend
    ReinforcementsExact
    NoTwinBirths
