SPECIFICATION Spec
CONSTANTS
    PAGE_SIZE = 2
    UserBase = 2
    UserSize = 6
    HostTop = 8
    Word = 32
    Sizes = {0, 1, 4, 30}
    FixedAddrs = {3, 4}
    Prots = {{"R", "W"}}
    FlexibleSize = 6
    MAX_GPU_ADDRESS = 2
    GpuLimit = 32
INVARIANTS
    VmasTile
    MappedIffBacked
    PlacementIsFree
PROPERTIES
    NeighboursKept
CHECK_DEADLOCK FALSE
