SPECIFICATION Spec
CONSTANTS
    Paths = {0, 1, 2, 3}
    CUs = {1, 2}
    Kzips <- AnyCUs
    Candidates <- MCCandidates
    Touches <- MCTouches
    NWorkers = 2
    Modes = {"fresh", "resume", "cache"}
    OverLeftovers = FALSE
    MaxStarts = 2
CHECK_DEADLOCK FALSE
INVARIANTS TypeOK NamespaceInv XrefsKeepFile FoldedPublished IdsAreRanks
