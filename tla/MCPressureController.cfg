SPECIFICATION FairSpec
CONSTANTS
    w1 = w1
    w2 = w2
    cache = cache
    build = build
    modules = modules
    packages = packages
    disk1 = disk1
    Worktrees <- MCWorktrees
    Filesystems <- MCFilesystems
    Candidates <- MCCandidates
    WorktreeOf <- MCWorktreeOf
    FilesystemOf <- MCFilesystemOf
    RankOf <- MCRankOf
    Precedence <- MCPrecedence
    Kind <- MCKind
    Visible <- MCVisible
    Size <- MCSize
    Free <- MCFree
    Target = 4
    Batch = 2
    Lifetime = 2
    Defer = TRUE
    NoBaseline = NoBaseline
    MaxMoves = 2
    MaxFaults = 1
CHECK_DEADLOCK FALSE
INVARIANTS
    DriftCostsOneDeletion
PROPERTIES
    StandingClaimsAreKept
    CheaperClassesFirst
    RecoveryEnds
