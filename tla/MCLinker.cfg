CONSTANTS
    Disks <- MCDisks
    Main <- MCMain
    HleNames <- MCHleNames
    KnownNids <- MCKnownNids
    MAX_STUBS = 4
    STUB_SIZE = 2
    StubBase = 1000
    UserBase = 100
SPECIFICATION FairSpec
INVARIANTS LoadedOnce DependenciesLoaded TlsIndicesDense ImportsDispatch
PROPERTY BootEnds
CHECK_DEADLOCK FALSE
