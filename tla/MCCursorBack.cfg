SPECIFICATION JobsSpec
CONSTANTS
    r1 = r1
    r2 = r2
    c1 = c1
    c2 = c2
    t1 = t1
    Job = {j1}
    Run <- MCRun
    Caller <- MCCaller
    Recipe <- MCCron
    Tag = {t1}
    Never = Never
    MaxClock = 2
    MaxEvent = 1
    MaxRevision = 2
SYMMETRY Symmetry
CHECK_DEADLOCK FALSE
INVARIANT
    CursorMovesOn
