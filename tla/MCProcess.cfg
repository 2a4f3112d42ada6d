SPECIFICATION Spec
CONSTANTS
    Argvs <- MCArgvs
    Files <- MCFiles
    Literals <- MCLiterals
    MaxIncludeDepth = 1
    Origins = {4567, 50000}
    MaxSignals = 2
INVARIANTS
    TypeOK
    AcceptsGrammar
    ConfigAsGiven
    SentToPeer
    OneSocket
    SignalsMeetLiveClient
PROPERTY ParsingEnds
