SPECIFICATION FairSpec
CONSTANTS
    CUs = {1, 2}
    Kzips <- OneKzip
    NWorkers = 2
    Rows <- MCRows
    SnapshotEvery = 1
    SnapshotRows = 0
    MaxStarts = 1
    Faults = TRUE
    LegacyBase = FALSE
    StoreBuffer = FALSE
CHECK_DEADLOCK FALSE
PROPERTIES Terminates
