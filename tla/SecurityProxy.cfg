SPECIFICATION FairSpec
CONSTANTS
    r1 = r1
    r2 = r2
    r3 = r3
    Requests <- ThreeRequests
    Cap = 2
    HasDeadline = TRUE
    Reserving = TRUE
INVARIANTS NothingSurvivesShutdown ServesOnlyWhileOpen
PROPERTIES GateKept Drains
CHECK_DEADLOCK FALSE
