SPECIFICATION Spec
CONSTANTS
    Kzips <- Rebuilt
    Tags = {"v1", "v2"}
    Injects <- NoInject
    Worker = {w1, w2}
    NBlocks = 2
    Group = 2
    MaxStarts = 2
SYMMETRY AnyWorker
CHECK_DEADLOCK FALSE
INVARIANTS AdmittedIsWhole PublishedAsHashed CacheNeverAborts
