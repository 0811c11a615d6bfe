CONSTANTS
    Conns = {5}
    Workers = {w1}
    MaxMsgs = 1
    MaxAge = 0
    Weak = Weak
    Timer = Timer
    Loop = Loop

SPECIFICATION Spec
INVARIANT RevsAreOwn
CHECK_DEADLOCK FALSE
