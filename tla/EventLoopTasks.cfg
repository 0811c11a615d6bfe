CONSTANTS
    Conns = {5}
    Workers = {w1, w2}
    MaxMsgs = 2
    MaxAge = 1
    Weak = Weak
    Timer = Timer
    Loop = Loop

SPECIFICATION Spec

PROPERTY ShutDownStopsLoop
PROPERTY ImplementsExecutor

\* The loop may rest in epoll_wait(), and it ends when it is shut down.
CHECK_DEADLOCK FALSE
