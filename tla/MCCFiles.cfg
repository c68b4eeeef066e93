CONSTANTS
    Threads = {t1, t2}
    Mounts = {"/app0/"}
    Paths <- MCPaths
    Length <- MCLength
    Word = 8
    OverflowChecks = TRUE
    ReadCap = 7
    MaxPos = 4
    ItemSizes = {0, 2, 5}
    Counts = {1, 2}
    Offsets <- MCOffsets
    OpenLimit = 3
SPECIFICATION Spec
INVARIANTS TypeOK StreamsKept AllReported ShortMeansEnd
CHECK_DEADLOCK FALSE
