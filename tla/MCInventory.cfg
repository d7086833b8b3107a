SPECIFICATION InventorySpec
CONSTANTS
    Dirs <- MCDirs
    Files <- MCFiles
    Inodes <- MCInodes
    FileSystems <- MCFileSystems
    Roots <- MCRoots
    Budgets <- MCBudgets
    RootLimit = 100
    DisplayDepth = 1
    MaxReaders = 2
    MaxMishaps = 1
CHECK_DEADLOCK FALSE
INVARIANTS
    TotalsMeanWhatTheySay
    SmallRootsAreComplete
PROPERTIES
    ScanEnds
