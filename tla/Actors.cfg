CONSTANTS
    Threads = {t1, t2}
    NoOne = NoOne
    MaxTasks = 3

SPECIFICATION Spec

INVARIANT TypeOK
INVARIANT ShortestQueue
INVARIANT OwnSession
PROPERTY TasksAreTaken
PROPERTY ActorsAreExecutors

\* The program may hang in ~mgr(), return, or end in undefined behaviour.
CHECK_DEADLOCK FALSE
