CONSTANTS
    Conns = {5, 6}
    Workers = {w1}
    MaxMsgs = 2
    MaxAge = 0
    Weak = Weak
    Timer = Timer
    Loop = Loop

SPECIFICATION Spec

CONSTRAINT NotStopped

INVARIANT ResetIsReported

\* The loop may rest in epoll_wait().
CHECK_DEADLOCK FALSE
