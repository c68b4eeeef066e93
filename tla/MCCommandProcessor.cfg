CONSTANTS
    Writer = writer
    Other = other
    Threads <- MCThreads
    NoThread = NoThread
    Submissions <- MCSubmissions
    MAX_BUFFERS = 4
    MAX_DWORDS = 16
    MaxCalls = 1
    MaxFrames = 4
    ImageCount = 2
    OverflowChecks = TRUE
SPECIFICATION MCSpec
INVARIANTS Framed BufferTakesEffect AcquireSemaphoreFree
PROPERTIES SubmissionsReturn PresentsReturn
CHECK_DEADLOCK FALSE
