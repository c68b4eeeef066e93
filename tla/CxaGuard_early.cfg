CONSTANTS
    Threads = {t1, t2}
    Guards = {g1}
    NoGuard = NoGuard
SPECIFICATION Spec
INVARIANT UsedInitialized
