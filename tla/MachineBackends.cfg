SPECIFICATION Spec
CONSTANTS
    Names = {m1, m2}
    Unlaunchable = {}
    Faults = {"lb", "patch", "stale"}
    ControlPlane = {m1, m2}
    Concurrency = 1
    Users = {"deleteMachine"}
INVARIANTS
    BackendsFollowControlPlane
    FinalizedMeansGone
SYMMETRY Symmetry
CHECK_DEADLOCK FALSE
