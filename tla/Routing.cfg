SPECIFICATION RoutingSpec
CONSTANTS
    r1 = r1
    r2 = r2
    r3 = r3
    Req = {r1, r2, r3}
    NModels = 2
    Capacity <- MCCapacity
    QueueLimit = 1
    Workloads <- MCWorkloads
    Leaving = {r1}
INVARIANTS
    RoutingTypeOK
    PlacesAccounted
    RefusedForCause
PROPERTIES
    EveryRequestEnds
CHECK_DEADLOCK FALSE
