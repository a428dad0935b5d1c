SPECIFICATION FairSpec

CONSTANTS
    permission = permission
    update = update
    EventKinds <- MCEventKinds
    Predicates <- MCPredicates
    MaxRequests = 2
    MaxCalls = 2
    MaxReceived = 2

CHECK_DEADLOCK FALSE

INVARIANTS
    NobodyIsForgotten
    EachLineOnce

PROPERTIES
    ExpectationsAreMail
    EndsOneWay
