\* Only signals wake the main thread; the counterexample ends with it waiting.
CONSTANTS
    c1 = c1
    c2 = c2
    c3 = c3
    c4 = c4
    Conns = {c1, c2, c3, c4}
    MaxThreads = 2
    SpuriousWakeups = FALSE
    Free = Free
    Taken = Taken
SPECIFICATION FairSpec
CHECK_DEADLOCK FALSE
PROPERTY FreePositionIsFound
