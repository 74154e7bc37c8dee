SPECIFICATION Spec
CONSTANTS
    CUs = {1, 2, 3}
    Kzips <- OneKzip
    NWorkers = 2
    Rows <- MCRows
    SnapshotEvery = 2
    SnapshotRows = 0
    MaxStarts = 2
    Faults = TRUE
    LegacyBase = FALSE
    StoreBuffer = TRUE
CHECK_DEADLOCK FALSE
INVARIANTS TypeOK ShasDurable NothingDropped OutputComplete GaugeExact
PROPERTIES WaitSeesEveryone GateHolds NoOverwrite CheckpointGrows RefinesBuild
