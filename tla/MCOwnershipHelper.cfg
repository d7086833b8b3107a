SPECIFICATION Spec
SYMMETRY Sym
CONSTANTS
    p1 = p1
    p2 = p2
    outer = outer
    inner = inner
    v1 = v1
    v2 = v2
    Absent = Absent
    Processes = {p1, p2}
    Foreign = {p2}
    Roots = {outer, inner}
    Paths = {"outer/file", "inner/file"}
    Above <- MCAbove
    Policies = {"auto", "privileged_helper", "global_lsof"}
    Batches <- MCBatches
    Allowed <- MCAllowed
    MaxChurn = 1
    MaxTrouble = 2
INVARIANTS
    StandingOwnerIsSeen
    OneBuildPerEvidence
    RollbackRestores
CHECK_DEADLOCK FALSE
