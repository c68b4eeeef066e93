CONSTANTS
    NoTid = NoTid
    Threads = {a, b, c}
    Main = a
    Slots = 3
    MAX_SIGSEGV_RECOVERIES = 1
SPECIFICATION Spec
INVARIANT Registered
CHECK_DEADLOCK FALSE
