SPECIFICATION Spec
CONSTANTS
    ByteBase = 2
    Retransmissions = 1
    Timeout = 1
    MaxQueue = 2
    Args = {a1, a2}
    DefaultArg = a1
    NoArg = none
    ServerIds = {0}
PROPERTY
    CommandDataSent
