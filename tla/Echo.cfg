CONSTANTS
    N = 2
    BodyLen <- MCBodyLen
    ReplyLen <- MCReplyLen
    Workers = {w1, w2}
    Cap = 4
    CopyLen = 1
    SndCap = 2
    None = None

SPECIFICATION Spec

INVARIANT TypeOK
INVARIANT NoMessageStranded
INVARIANT RequestsInOrder
INVARIANT RepliesArePrefixes
INVARIANT AnswersMatch
PROPERTY AnsweredUnlessSwallowed

\* The client may leave or have nothing more to ask, and a fault ends the behaviour.
CHECK_DEADLOCK FALSE
