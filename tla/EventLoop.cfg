CONSTANTS
    Conns = {5, 6}
    Workers = {w1}
    MaxMsgs = 3
    MaxAge = 0
    Weak = Weak
    Timer = Timer
    Loop = Loop

SPECIFICATION Spec

CONSTRAINT NotStopped

INVARIANT TypeOK
INVARIANT IteratorValid
INVARIANT TaskWakesLoop
INVARIANT InputNotForgotten
INVARIANT OutputNotForgotten
INVARIANT TimerNotForgotten
INVARIANT ClosedIsQuiet
INVARIANT ExitsOnlyAfterClose

\* The loop may rest in epoll_wait().
CHECK_DEADLOCK FALSE
