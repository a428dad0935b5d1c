SPECIFICATION FairSpec

CONSTANTS
    MaxSessions = 1
    MaxTicks = 2
    FaultSets <- MCFaultSets
    Drivers <- MCDrivers
    RequestBound = 6
    CallBound = 16
    LineBound = 24

CHECK_DEADLOCK FALSE

INVARIANTS
    FailuresAreExplained
    NoFlakyVerdict
    HarnessSurvives

PROPERTIES
    SuiteEnds
