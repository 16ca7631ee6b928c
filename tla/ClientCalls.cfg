SPECIFICATION Spec
CONSTANTS
    Names = {"n1", "n2"}
    Unlaunchable = {"n2"}
    Faults = {"timeout", "crash", "error", "expire", "vanish"}
    Wanted = {"templates", "files"}
INVARIANTS
    TypeOK
    AdoptsPendingCreate
PROPERTIES
    ImplementsContract
    CallReturns
