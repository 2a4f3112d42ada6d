SPECIFICATION Spec
CONSTANTS
    NameLimit = 5
    TextLimit = 5
    MaxCounter = 1
    Sendings <- MCSendings
    Datagrams <- MCDatagrams
INVARIANTS
    TypeOK
    DecodesLayout
    EncodesLayout
    RoundTrip
