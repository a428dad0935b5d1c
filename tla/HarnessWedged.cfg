SPECIFICATION FairSpec

CONSTANTS
    permission = permission
    update = update
    EventKinds <- MCEventKinds
    Predicates <- MCPredicates
    MaxRequests = 1
    MaxCalls = 1
    MaxReceived = 1

CHECK_DEADLOCK FALSE

PROPERTIES
    RequestsAreBounded
