\* Two slots, twice as many connections, wakeups without a signal.
CONSTANTS
    c1 = c1
    c2 = c2
    c3 = c3
    c4 = c4
    Conns = {c1, c2, c3, c4}
    MaxThreads = 2
    SpuriousWakeups = TRUE
    Free = Free
    Taken = Taken
SPECIFICATION FairSpec
CHECK_DEADLOCK FALSE
INVARIANT TypeOK
INVARIANT SlotsAreOwn
INVARIANT LimitKept
PROPERTY LaterFinishWakes
