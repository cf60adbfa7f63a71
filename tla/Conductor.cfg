SPECIFICATION Spec
CONSTANTS
    h1 = h1
    h2 = h2
    Hosts = {h1, h2}
    Nobody = nobody
    Home = h1
    Slots = {1, 2}
    NoTask = none
    AutoSteps = 2
    ManualSteps = 1
    Abortable = {2}
    FaultKinds = {"crash", "stop", "late", "full", "busy"}
    MaxFaults = 1
    DelayedCalls = FALSE
CHECK_DEADLOCK FALSE
INVARIANTS
    OneTaskAtATime
PROPERTIES
    NoStepSkipped
    DeadDeploymentFails
