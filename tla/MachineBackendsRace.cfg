SPECIFICATION Spec
CONSTANTS
    Names = {m1, m2}
    Unlaunchable = {}
    Faults = {}
    ControlPlane = {m1, m2}
    Concurrency = 2
    Users = {}
INVARIANTS
    BackendsAtRest
CHECK_DEADLOCK FALSE
