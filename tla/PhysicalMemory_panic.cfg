SPECIFICATION Spec
CONSTANTS
    PAGE_SIZE = 2
    TotalSize = 10
    Word = 32
    OverflowChecks = TRUE
    SearchBounds = {0, 10}
    Lens = {2, 4}
    Alignments = {0, 4}
    AnyFree = FALSE
INVARIANTS
    NoPanic
CHECK_DEADLOCK FALSE
