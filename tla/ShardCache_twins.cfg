SPECIFICATION Spec
CONSTANTS
    Kzips <- Twins
    Tags = {"v1"}
    Injects <- NoInject
    Worker = {w1, w2}
    NBlocks = 3
    Group = 2
    MaxStarts = 2
SYMMETRY AnyWorker
CHECK_DEADLOCK FALSE
INVARIANTS AdmittedIsWhole
