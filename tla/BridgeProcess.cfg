SPECIFICATION FairSpec

CONSTANTS
    s1 = s1
    Sessions <- MCOneSession
    MaxTerminals = 1
    MaxOutput = 2
    Forks <- MCFirst
    ReadErrors <- MCFirst
    MayReenter <- MCNone
    MayClose <- MCOneSession

CHECK_DEADLOCK FALSE

INVARIANTS
    TypeOK
    ExitMeansComplete
    NoRunawayProcess

PROPERTIES
    ImplementsView
    LateChunkIsLast
    WaitReturns
    ExitIsReported
