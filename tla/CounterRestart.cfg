\* One reader and three writers, three starts, numbers of one digit and of two.
CONSTANTS
    r1 = r1
    w1 = w1
    w2 = w2
    w3 = w3
    Readers = {r1}
    Writers = {w1, w2, w3}
    Priorities = {"reader"}
    Ratios = {0, 1}
    Starts = {9}
    Empty = Empty
    NoOne = NoOne
    Absent = Absent
    Garbage = {0, 7}
    MaxStarts = 3
SPECIFICATION RestartSpec
CHECK_DEADLOCK FALSE
INVARIANT CounterSurvives
 
