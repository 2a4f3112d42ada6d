SPECIFICATION Spec
CONSTANTS
    NameLimit = 3
    TextLimit = 6
    MaxMessages = 2
    Symbols <- MCSymbols
    Typed <- MCTyped
    Announced <- MCAnnounced
INVARIANTS
    TypeOK
    EncodesLine
    EncodesExpanded
    DeliveredWasSent
    ShortNamesSurvive
PROPERTIES
    EncodeEnds
    WholeLineDelivered
