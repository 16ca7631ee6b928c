SPECIFICATION Spec
CONSTANTS
    Names = {m1}
    Unlaunchable = {}
    Faults = {"timeout"}
    ControlPlane = {m1}
    Concurrency = 1
    Users = {"deleteMachine"}
INVARIANTS
    FinalizedMeansGone
CHECK_DEADLOCK FALSE
