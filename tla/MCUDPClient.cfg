SPECIFICATION Spec
CONSTANTS
    ByteBase = 2
    Retransmissions = 2
    Timeout = 1
    MaxQueue = 2
    Args = {a1}
    DefaultArg = a1
    NoArg = none
    ServerIds = {0, 3}
INVARIANTS
    TypeOK
    QueueShape
    RetransmissionBudget
    NothingLeftOver
PROPERTIES
    RetiredOnlyByAnswer
    SessionOpensOnReply
    ConfirmedPromptly
    RetransmitsPending
    LoneByeEnds
    SessionImplemented
