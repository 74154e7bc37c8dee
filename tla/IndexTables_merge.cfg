SPECIFICATION Spec
CONSTANTS
    CUs <- MCCUs
    Facts <- MCFacts
    Strings <- NumStrings
    NoName = 0
    Ticket <- NumTicket
    Degenerate <- NumDegenerate
    NameLen <- NumLen
    Before <- NumBefore
    Sinks = {1, 2}
    MaxShards = 3
CHECK_DEADLOCK FALSE
INVARIANTS OutputIsReference SearchReady
