SPECIFICATION Spec
CONSTANTS
    t1 = t1
    t2 = t2
    r1 = r1
    r2 = r2
    r3 = r3
    Threads = {t1, t2}
    Share <- TwoThreads
    TotalBlocks = 4
INVARIANT MemoryMapsToTokens
CHECK_DEADLOCK FALSE
