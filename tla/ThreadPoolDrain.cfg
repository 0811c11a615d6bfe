CONSTANTS
    Workers = {w1, w2}
    Submitters = {s1}
    MaxTasks = 2
    NoOne = NoOne

SPECIFICATION Spec
PROPERTY DrainBeforeExit
CHECK_DEADLOCK FALSE
