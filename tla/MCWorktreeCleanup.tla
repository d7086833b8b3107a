------------------------- MODULE MCWorktreeCleanup -------------------------
(* The current worktree and two others.                                    *)
EXTENDS WorktreeCleanup, TLC

CONSTANTS main, feature, topic

MCWorktrees == {main, feature, topic}
Sym         == Permutations({feature, topic})

=============================================================================
