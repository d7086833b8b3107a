SPECIFICATION RecoverySpec
CONSTANTS
    t1 = t1
    t2 = t2
    p1 = p1
    Recovery = Recovery
    r1 = r1
    r2 = r2
    Tasks <- MCTasks
    Parents <- MCParents
    Unindexed = {}
    Bytes <- MCBytes
    MaxTasks = 2
    MaxBytes = 3
    Runs <- MCRuns
    MaxTrouble = 1
    Nobody = Nobody
    NoFile = NoFile
    Damaged = Damaged
CHECK_DEADLOCK FALSE
SYMMETRY Sym
INVARIANTS
    OriginalIsKept
    RefusedMeansUntouched
    VerifiedIsBackedUp
    RecoveredIsOriginal
PROPERTIES
    UncertaintyStopsMigration
    ForeignHomeIsKept
