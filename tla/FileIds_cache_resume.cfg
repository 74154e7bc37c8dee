SPECIFICATION Spec
CONSTANTS
    Paths = {0, 1, 2, 3}
    CUs = {1, 2, 3}
    Kzips <- AllCUs
    Candidates <- FewTouches
    Touches <- FewTouches
    NWorkers = 2
    Modes = {"resume", "cache"}
    OverLeftovers = TRUE
    MaxStarts = 3
CHECK_DEADLOCK FALSE
INVARIANTS XrefsKeepFile
