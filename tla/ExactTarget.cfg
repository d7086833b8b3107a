SPECIFICATION FairSpec
CONSTANTS
    e1 = e1
    e2 = e2
    Executors <- MCExecutors
    Kind = "target"
    Class = "pressure"
    MaxInode = 3
    MaxCrashes = 2
    NoTree = NoTree
    Nobody = Nobody
CHECK_DEADLOCK FALSE
INVARIANTS
    BuildKeepsItsTree
    NoStandingOwnerEvicted
    RecoveredQuarantineIsIntact
PROPERTIES
    ImplementsApprovedRemoval
    IntactQuarantineIsResumed
