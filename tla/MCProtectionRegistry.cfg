SPECIFICATION FairSpec
CONSTANTS
    c1 = c1
    c2 = c2
    repo = repo
    target = target
    NoClient = NoClient
    Clients <- MCClients
    Paths <- MCPaths
    Covers <- MCCovers
    Linkable <- MCLinkable
    LinkTarget = repo
    GuardSets <- MCGuards
    Targets <- MCTargets
    Ttls = {1, 2}
    MaxTtl = 1
    MaxClock = 1
CHECK_DEADLOCK FALSE
INVARIANTS
    MutationsRespectLeases
    RegistryStaysReadable
    ForgottenLeasesExpire
PROPERTIES
    ActiveLeasesSurvive
    LockIsReleased
