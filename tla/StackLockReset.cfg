SPECIFICATION FairSpec
CONSTANTS
    r1 = r1
    r2 = r2
    r3 = r3
    r4 = r4
    e1 = e1
    e2 = e2
    e3 = e3
    None = None
    Requests = {r1, r2, r3, r4}
    Engines = {e1, e2, e3}
    Engine <- ResetEngine
    Kind <- ResetKind
    Slow = {}
PROPERTIES
    AbandonedIsReset
CHECK_DEADLOCK FALSE
