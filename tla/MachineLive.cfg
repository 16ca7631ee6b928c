SPECIFICATION FairSpec
CONSTANTS
    Names = {m1}
    Unlaunchable = {}
    Faults = {"timeout", "crash", "error", "lb", "patch", "stale"}
    ControlPlane = {m1}
    Concurrency = 1
    Users = {"deleteMachine", "deleteCluster", "removeInfra"}
INVARIANTS
    TypeOK
PROPERTIES
    DeleteCompletes
    ProvisionCompletes
CHECK_DEADLOCK FALSE
