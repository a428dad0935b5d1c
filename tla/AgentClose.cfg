SPECIFICATION Spec

CONSTANTS
    MaxSessions = 1
    MaxTicks = 2
    FaultSets <- MCNoFaults
    Drivers <- MCStdio
    Versions <- MCBoth
    Scenarios <- MCFullTurns
    PermissionAnswers <- MCDecide
    OtherAnswers <- MCValidOther
    Workloads <- MCOneEnding

CHECK_DEADLOCK FALSE

INVARIANTS
    CloseCancelsWork
