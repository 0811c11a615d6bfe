CONSTANTS
    Workers = {w1, w2, w3}
    Submitters = {s1, s2}
    MaxTasks = 4
    NoOne = NoOne

SPECIFICATION Spec

INVARIANT TypeOK
INVARIANT LockDiscipline
INVARIANT NoTaskTwice
INVARIANT WakeupCovered
INVARIANT AtMostOneLateTake

PROPERTY ShutDownReturnsUnlessRaced
PROPERTY ImplementsExecutor

\* The pool may rest with every worker asleep and nothing left to add.
CHECK_DEADLOCK FALSE
