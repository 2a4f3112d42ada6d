SPECIFICATION FairSpec
INVARIANT
    TypeOK
    AwaitsMeansJoin
    NothingLeftOver
    WireBacksState
PROPERTY
    ErrIsFinal
    OpensOnReply
    SessionImplemented
    LoneFarewellEnds
    HandsEmpty
