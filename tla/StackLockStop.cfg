SPECIFICATION FairSpec
CONSTANTS
    r1 = r1
    r2 = r2
    r3 = r3
    r4 = r4
    e1 = e1
    e2 = e2
    e3 = e3
    None = None
    Requests = {r1, r2, r3}
    Engines = {e1, e2, e3}
    Engine <- StopEngine
    Kind <- StopKind
    Slow = {e2}
INVARIANTS
    TypeOK
    OneOperation
    LockHasThread
PROPERTIES
    OnlyOwnerWrites
    LockIsGivenBack
CHECK_DEADLOCK FALSE
