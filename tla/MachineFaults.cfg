SPECIFICATION OneSpec
CONSTANTS
    Names = {m1, w2}
    Unlaunchable = {w2}
    Faults = {"timeout", "crash", "error", "expire", "vanish", "patch", "lb", "stale"}
    ControlPlane = {m1}
    Concurrency = 1
    Users = {"deleteMachine", "pause"}
INVARIANTS
    LaunchUnderFinalizer
    OrphanHasKnownCause
CHECK_DEADLOCK FALSE
