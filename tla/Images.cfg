SPECIFICATION MCSpec
CONSTANTS
    Paths = {"vm", "vm.zip", "image.tar.gz"}
    Aliases = {"a", "b", ""}
    MaxCommands = 3
    MaxImports = 2
    Builds = {"haproxy", "kubeadm-vm"}
    Flags <- MCFlags
    IncusServer = TRUE
    Minutes = {2}
    MaxRuns = 2
    Output = "image.tar.gz"
    Artifacts <- MCArtifacts
INVARIANTS
    IndexTypeOK
    ItemsServed
    ImportedIsServed
    ShowsEveryImage
    BuildIsExported
    ValidatedIsBuilt
    OutputWholeOrGone
PROPERTIES
    ServedIsWhole
    OthersStay
CHECK_DEADLOCK FALSE
