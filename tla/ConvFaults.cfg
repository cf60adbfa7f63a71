SPECIFICATION FairSpec
CONSTANTS
    A = A
    B = B
    C = C
    create = create
    change = change
    remove = remove
    w1 = w1
    w2 = w2
    Names = {A, B}
    Tmpls <- MCTmpls
    EmptyTmpl = 9
    TmplNames <- MCTmplNames
    TmplRequires <- MCTmplRequires
    TmplProps <- MCTmplProps
    Replacing = {A}
    DisableRollback = FALSE
    Patient = {change, remove}
    Ops = {create, change, remove}
    Op <- LifeOfTree
    Creator = create
    Workers = {w1, w2}
    Engines = {1}
    Engine <- OneEngine
    FaultKinds = {"fail", "timeout", "late"}
    MaxFaults = 2
CHECK_DEADLOCK FALSE
INVARIANTS
    TypeOK
    CompleteMeansInService
PROPERTIES
    Settles
