CONSTANTS
    Files <- MCFiles
    PAGE_SIZE = 4
    Pointers <- MCPointers
    SfoFiles <- MCSfoFiles
SPECIFICATION MCSpec
INVARIANTS ImageFaithful DynamicFaithful TablesUnderstood NoAssertionLeft NoSyscallLeft SfoFaithful
CHECK_DEADLOCK FALSE
