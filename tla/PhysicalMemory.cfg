SPECIFICATION Spec
CONSTANTS
    PAGE_SIZE = 2
    TotalSize = 10
    Word = 32
    OverflowChecks = TRUE
    SearchBounds = {0, 2, 8, 10, 31}
    Lens = {0, 1, 2, 4, 30}
    Alignments = {0, 4}
    AnyFree = TRUE
INVARIANTS
    TypeOK
    AreasTile
    LiveAccounted
    LowestFit
PROPERTY
    RefinesDirectMemory
CHECK_DEADLOCK FALSE
