SPECIFICATION Spec
CONSTANTS
    Names = {c1, c2}
    Unlaunchable = {}
    Faults = {}
    Kinds = {"ovn"}
INVARIANTS
    ReadyOwnsLoadBalancer
CHECK_DEADLOCK FALSE
