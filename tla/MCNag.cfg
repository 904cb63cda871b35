SPECIFICATION PassSpec
CONSTANTS
    Site = {s1}
    Pair = {s1}
    Rank <- MCRank
    PairLimit = 1
    Proposing = {"merge"}
    Curator = {w1}
    Every <- MCEvery
    MaxWrites = 1
    MaxEdits = 0
    MaxPassFaults = 1
CHECK_DEADLOCK FALSE
PROPERTIES
    AntiNag
