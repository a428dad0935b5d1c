SPECIFICATION Spec

CONSTANTS
    s1 = s1
    Sessions <- MCOneSession
    MaxTerminals = 1
    MaxOutput = 0
    Forks <- MCNone
    ReadErrors <- MCNone
    MayReenter <- MCOneSession
    MayClose <- MCOneSession

CHECK_DEADLOCK FALSE

INVARIANTS
    CloseKills
