SPECIFICATION FairSpec

CONSTANTS
    MaxSessions = 1
    MaxTicks = 2
    FaultSets <- MCNoFaults
    Drivers <- MCStdio
    Versions <- MCBoth
    Scenarios <- MCFullTurns
    PermissionAnswers <- MCDecide
    OtherAnswers <- MCAnyOther
    Workloads <- MCProgress

CHECK_DEADLOCK FALSE

PROPERTIES
    EveryRequestIsAnswered
