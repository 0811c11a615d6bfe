CONSTANTS
    Conns = {a, b}
    Fds = {1, 2}
    ThdCount = 1
    MaxMsgs = 1
    MaxAge = 0
    None = None
    Main = Main

SPECIFICATION Spec

INVARIANT TypeOK
INVARIANT InputHasEvent
INVARIANT MapsAgree
PROPERTY ClosedIsReleased
PROPERTY ErasedForCause

\* The server may rest, and a fault ends the behaviour.
CHECK_DEADLOCK FALSE
