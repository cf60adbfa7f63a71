SPECIFICATION Spec
CONSTANTS
    w1 = w1
    w2 = w2
    w3 = w3
    w4 = w4
    e1 = e1
    e2 = e2
    e3 = e3
    None = None
    Workers = {w1, w2, w3, w4}
    Engines = {e1, e2, e3}
    Engine <- MCEngine
    Slow = {e1}
    MaxChecks = 4
    MaxTouches = 1
INVARIANTS
    TypeOK
    ExclusiveUnlessRobbed
    UnlockNeverFails
    LockHasHolder
CHECK_DEADLOCK FALSE
