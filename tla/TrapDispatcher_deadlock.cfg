CONSTANTS
    NoTid = NoTid
    Threads = {a, b}
    Main = a
    Slots = 2
    MAX_SIGSEGV_RECOVERIES = 1
SPECIFICATION FairNestedSpec
PROPERTY CallsReturn
CHECK_DEADLOCK FALSE
