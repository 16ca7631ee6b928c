SPECIFICATION MCFairSpec
CONSTANTS
    Names = {c1}
    Unlaunchable = {}
    Faults = {"crash", "error", "patch", "lb", "list", "stale"}
    Kinds = {"lxc", "oci", "ovn", "external", "kubeVIP"}
INVARIANTS
    TypeOK
    CreateUnderFinalizer
    LoadBalancerRemoved
PROPERTIES
    FinalizerAwaitsMachines
    EndpointKept
    ImplementsInfra
    ReadyEventually
    DeletedEventually
CHECK_DEADLOCK FALSE
