--------------------------- MODULE MCCodexRecovery ---------------------------
EXTENDS CodexRecovery
CONSTANTS t1, t2, p1, r1, r2
MCTasks == {t1, t2}
MCParents == (t1 :> {p1}) @@ (t2 :> {p1})
MCBytes == (t1 :> 2) @@ (t2 :> 1)
MCRuns == {r1, r2}
Sym == Permutations(MCRuns)
=============================================================================
