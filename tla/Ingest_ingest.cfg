SPECIFICATION Spec
CONSTANTS
    Streams <- MCStreams
    PathOf <- MCPathOf
    LangOf <- MCLangOf
    Builtin <- MCBuiltin
    TYPE_RENDER_MAX_DEPTH = 3
    Strings <- TokStrings
    NoName <- None
    Ticket <- TokTicket
    Degenerate <- TokDegenerate
    NameLen <- TokLen
    Before <- TokBefore
CHECK_DEADLOCK FALSE
INVARIANTS RowsOfEntries NamesClean
