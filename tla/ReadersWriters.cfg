\* Two readers and two writers, either priority, no ratio and small ratios.
CONSTANTS
    r1 = r1
    r2 = r2
    w1 = w1
    w2 = w2
    Readers = {r1, r2}
    Writers = {w1, w2}
    Priorities = {"reader", "writer"}
    Ratios = {0, 2}
    Starts = {0}
    Empty = Empty
    NoOne = NoOne
SPECIFICATION FairSpec
CHECK_DEADLOCK FALSE
INVARIANT TypeOK
INVARIANT WritersExclude
INVARIANT NoIncrementLost
INVARIANT CountsExact
INVARIANT FileIsCurrent
PROPERTY LastActiveWakesOne
PROPERTY ServedOrWaiting
