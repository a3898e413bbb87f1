SPECIFICATION Spec
CONSTANTS
    Address = {a1, a2}
    Cut <- Cuts
    StartDuplex = {TRUE, FALSE}
    Limit = {1, 2}
    PageSize = 2
    MaxRows = 3
    MaxEvents = 1
    MaxRequests = 2
INVARIANTS
    QueuedScan
    CompleteAtRest
CHECK_DEADLOCK FALSE
