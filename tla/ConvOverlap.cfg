SPECIFICATION FairSpec
CONSTANTS
    A = A
    B = B
    C = C
    create = create
    change = change
    remove = remove
    w1 = w1
    w2 = w2
    Names = {A}
    Tmpls <- MCTmpls
    EmptyTmpl = 9
    TmplNames <- MCTmplNames
    TmplRequires <- MCTmplRequires
    TmplProps <- MCTmplProps
    Replacing = {}
    DisableRollback = FALSE
    Patient = {change}
    Ops = {create, change, remove}
    Op <- LifeOfOne
    Creator = create
    Workers = {w1, w2}
    Engines = {1, 2}
    Engine <- TwoEngines
    FaultKinds = {"fail", "crash"}
    MaxFaults = 1
CHECK_DEADLOCK FALSE
INVARIANTS
    LockIsExclusive
    LocksHaveHolders
PROPERTIES
    RollbackFollows
    DeleteIsFinal
    CompleteIsEarned
    DeadLockIsBroken
    TurnedAwayIsRetriggered
