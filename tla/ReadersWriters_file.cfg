\* One reader and one writer, no ratio.
CONSTANTS
    r1 = r1
    r2 = r2
    w1 = w1
    w2 = w2
    Readers = {r1}
    Writers = {w1}
    Priorities = {"reader", "writer"}
    Ratios = {0}
    Starts = {0}
    Empty = Empty
    NoOne = NoOne
SPECIFICATION Spec
CHECK_DEADLOCK FALSE
INVARIANT FileHoldsCounterAtEnd
