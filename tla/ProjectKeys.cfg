SPECIFICATION MCSpec
CONSTANTS
    Clusters <- MCClusters
    Machines <- MCMachines
    Specs <- MCSpecsUserData
    Nodes <- MCNodes
    KindNames <- MCKindNames
    Archives <- MCArchives
    Remote = {"t1", "t2"}
    KiniEnvs <- MCNoKini
INVARIANTS ProviderKeysSet
CHECK_DEADLOCK FALSE
