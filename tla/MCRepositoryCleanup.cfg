SPECIFICATION RepositorySpec
CONSTANTS
    main = main
    feature = feature
    topic = topic
    Worktrees <- MCWorktrees
    Current = main
    NoRemoval = NoRemoval
    MaxHead = 1
    MaxMoves = 2
    MaxFaults = 1
    Checkouts <- MCCheckouts
    Dirs <- MCDirs
    HomeOf <- MCHomeOf
    Tree <- MCTree
    Cargo <- MCCargo
    Openings <- MCOpenings
    Latest = 2
    MaxEvents = 2
    MaxFailures = 1
SYMMETRY Sym
CHECK_DEADLOCK FALSE
INVARIANTS
    UndisturbedCleanupIsThorough
PROPERTIES
    OccupiedIsKept
    RemovedAsLookedAt
    DirectoryRemovedAsLookedAt
