SPECIFICATION FairSpec
CONSTANTS
    CUs = {1, 2, 3}
    Kzips <- TwoKzips
    NWorkers = 2
    Rows <- MCRows
    SnapshotEvery = 2
    SnapshotRows = 2
    MaxStarts = 1
    Faults = TRUE
    LegacyBase = TRUE
    StoreBuffer = TRUE
CHECK_DEADLOCK FALSE
INVARIANTS OutputComplete GaugeExact
PROPERTIES WorkersFinish EndsUnlessFailed
