CONSTANTS
    Workers = {w1, w2}
    Submitters = {s1}
    MaxTasks = 2
    NoOne = NoOne

SPECIFICATION FairSpec
PROPERTY ShutDownReturns
CHECK_DEADLOCK FALSE
