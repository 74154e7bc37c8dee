SPECIFICATION Spec
CONSTANTS
    Cases <- MCCases
    TRIGRAM_BLOCK = 2
    VARINT_BASE = 3
    Cores = 2
    MaxSym = 15
    MaxRole = 5
    SUBSTR_AGG_CAP = 3
CHECK_DEADLOCK FALSE
INVARIANTS TrigramIsSerial ScanSound RegionsFilled XrefsHonest ListingsHonest RelativesLocated ForestSound ForestClosed BudgetKept
