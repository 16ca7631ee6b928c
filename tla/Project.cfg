SPECIFICATION MCSpec
CONSTANTS
    Clusters <- MCClusters
    Machines <- MCMachines
    Specs <- MCSpecs
    Nodes <- MCNodes
    KindNames <- MCKindNames
    Archives <- MCArchives
    Remote = {"t1", "t2"}
    KiniEnvs <- MCKiniEnvs
INVARIANTS OwnControlPlane ImageIsDocumented VMsAreLaunchable TemplatesAreApart
           BalancerServesAll ClusterIsRemoved NodesRunVersion EndpointIsPublished
PROPERTIES SavedIsLoaded LoadEnds RemovesItsOwn
CHECK_DEADLOCK FALSE
