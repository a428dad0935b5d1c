SPECIFICATION Spec

CONSTANTS
    MaxSessions = 1
    MaxTicks = 2
    FaultSets <- MCNoFaults
    Drivers <- MCDrivers
    Versions <- MCBoth
    Scenarios <- MCScenarios
    PermissionAnswers <- MCAnyPermission
    OtherAnswers <- MCAnyOther
    Workloads <- MCWorkloads

CHECK_DEADLOCK FALSE

INVARIANTS
    AnsweredOnce
    CallsHaveOwners
    CancelIsHeeded
    NoStrayCancel
    RejectedAsksNothing
    IdleIsTold

PROPERTIES
    ReplayIsComplete
