SPECIFICATION Spec
CONSTANTS
    Routers = {r1}
    Workers = {w1, w2}
    NoWorker = none
    Foreign = {}
    MaxChunk = 3
    MinChunk = 2
    MaxChanges = 2
    MaxFaults = 1
CHECK_DEADLOCK FALSE
PROPERTIES
    RequestIsHonoured
