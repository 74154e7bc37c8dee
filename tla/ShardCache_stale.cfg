SPECIFICATION Spec
CONSTANTS
    Kzips <- Single
    Tags = {"v1"}
    Injects <- OneRule
    Worker = {w1, w2}
    NBlocks = 3
    Group = 2
    MaxStarts = 2
SYMMETRY AnyWorker
CHECK_DEADLOCK FALSE
INVARIANTS PublishedClean
