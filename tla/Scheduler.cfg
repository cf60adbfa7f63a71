SPECIFICATION Spec
CONSTANTS
    a = a
    b = b
    c = c
    d = d
    Tasks = {a, b, c, d}
    Trees <- MCTrees
    Groups <- MCGroups
CHECK_DEADLOCK FALSE
INVARIANTS
    EndIsTruthful
PROPERTIES
    StartsAfterRequirements
    GroupEnds
