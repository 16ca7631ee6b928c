SPECIFICATION Spec
CONSTANTS
    Names = {"n1"}
    Unlaunchable = {}
    Faults = {"error"}
    Wanted = {"templates", "files"}
INVARIANTS
    LaunchedMeansSetUp
