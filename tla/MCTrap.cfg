CONSTANTS
    NoTid = NoTid
    Threads = {a, b, c}
    Main = a
    Slots = 2
    MAX_SIGSEGV_RECOVERIES = 1
    Depth = 2
    StackSize = 5
    MaxRecovered = 2
SPECIFICATION MCSpec
INVARIANTS TypeOK GuestFs OwnHostTls RecoveriesBounded
PROPERTIES CallsReturn ResumesACaller
CHECK_DEADLOCK FALSE
