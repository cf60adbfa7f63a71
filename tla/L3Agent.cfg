SPECIFICATION Spec
CONSTANTS
    Routers = {r1}
    Workers = {w1, w2}
    NoWorker = none
    Foreign = {3}
    MaxChunk = 3
    MinChunk = 2
    MaxChanges = 3
    MaxFaults = 1
CHECK_DEADLOCK FALSE
INVARIANTS
    ExclusiveRouter
    StaleIsCovered
PROPERTIES
    EventuallyInSync
