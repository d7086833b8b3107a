\* Nothing happens around the run.
SPECIFICATION Spec
CONSTANTS
    main = main
    feature = feature
    topic = topic
    Worktrees <- MCWorktrees
    Current = main
    NoRemoval = NoRemoval
    MaxHead = 0
    MaxMoves = 0
    MaxFaults = 0
SYMMETRY Sym
CHECK_DEADLOCK FALSE
PROPERTIES
    EveryPassTakesFreshEvidence
