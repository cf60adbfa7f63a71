SPECIFICATION FairSpec
CONSTANTS
    c1 = c1
    c2 = c2
    c3 = c3
    c4 = c4
    c5 = c5
    a = a
    b = b
    d = d
    self = self
    v1 = v1
    v2 = v2
    Absent = Absent
    Keys = {a, b, d, self}
    Values = {v1, v2}
    Predecessors = {a, b, d}
    Calls <- TheCalls
    Key <- TheKey
    Data <- TheData
INVARIANTS
    TypeOK
    NoLostInput
    PropagatesWithEveryInput
    NobodyForgetsToPropagate
PROPERTIES
    EventuallyPropagates
    ImplementsBarrier
CHECK_DEADLOCK FALSE
