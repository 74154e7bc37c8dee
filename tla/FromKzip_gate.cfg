SPECIFICATION Spec
CONSTANTS
    CUs = {1, 2}
    Kzips <- OneKzip
    NWorkers = 2
    Rows <- MCRows
    SnapshotEvery = 1
    SnapshotRows = 0
    MaxStarts = 1
    Faults = FALSE
    LegacyBase = FALSE
    StoreBuffer = TRUE
CHECK_DEADLOCK FALSE
INVARIANTS QuiesceSound
