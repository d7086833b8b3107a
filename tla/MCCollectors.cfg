SPECIFICATION CollectorsSpec
CONSTANTS
    Artifacts <- MCArtifacts
    RepoOf <- MCRepoOf
    Requests <- MCRequests
    Walk <- MCWalk
    Worlds <- MCWorlds
    Sizes <- MCSizes
    MaxEntries = 5
    PerArtifact = 3
    MaxDiscovery = 5
    PerRootDiscovery = 4
    MaxTrouble = 2
    AttemptCap = 2
    Threads <- MCThreads
    SessionStores <- MCStores
    Configs <- MCConfigs
    SessionBudgets = {1, 5}
    MaxMoves = 3
    InDirectory = {"m", "n"}
    Published <- MCPublished
    OwnerReports <- MCReports
    Locations <- MCLocations
    Physical <- MCPhysical
    UnitSizes <- MCUnitSizes
    Astray <- MCAstray
    Inventories <- MCInventories
    ExactEntries = 5
    ExactPerUnit = 3
    MaxTurns = 2
CHECK_DEADLOCK FALSE
INVARIANTS
    CompleteIsCurrent
    CompleteRootsHideNothing
    CompleteIsTheStore
    ReportIsOneCut
    OneRootPerIdentity
    
