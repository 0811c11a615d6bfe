CONSTANTS
    i1 = i1
    w1 = w1
    Main = Main
    IoThds <- MCIoThds
    WorkThds <- MCWorkThds
    ActThds = {a1}
    MaxSignals = 2
    None = None

SPECIFICATION Spec

INVARIANT TypeOK
INVARIANT StopsInOrder
INVARIANT CleanEnd
INVARIANT HangHasCause

\* The process ends, and a handler may be stuck for ever.
CHECK_DEADLOCK FALSE
