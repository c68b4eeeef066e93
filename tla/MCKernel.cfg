CONSTANTS
    Threads = {t1, t2, t3}
    MaxEvents = {0, 1, 2}
    Timeouts = {1, 3}
    SleepCap = 2
    TriggerLimit = 4
    ClockLimit = 4
    Mounts <- MCMounts
    Paths <- MCPaths
    Length <- MCLength
    Sizes = {2, 4}
    MaxOpens = 3
    Creators = {c1, c2, c3}
    MaxCreated = 5
SPECIFICATION MCSpec
INVARIANTS ExactlyOnceInOrder PickedUpInTime DescriptorsKept HandlesUnique
