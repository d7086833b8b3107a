------------------------ MODULE MCPressureController ------------------------
(* Four candidates of two worktrees on one filesystem that needs three of  *)
(* them: a cache, a Cargo target, and two equally cheap trees in the       *)
(* worktree of the target, one of which Git does not ignore.               *)
EXTENDS PressureController

CONSTANTS w1, w2, cache, build, modules, packages, disk1

MCWorktrees    == {w1, w2}
MCCandidates   == {cache, build, modules, packages}
MCFilesystems  == {disk1}
MCWorktreeOf   == [c \in MCCandidates |-> IF c = cache THEN w2 ELSE w1]
MCFilesystemOf == [c \in MCCandidates |-> disk1]
MCRankOf       == cache :> 0 @@ build :> 2 @@ modules :> 4 @@ packages :> 4
MCPrecedence   == cache :> 3 @@ build :> 2 @@ modules :> 1 @@ packages :> 4
MCKind         == [c \in MCCandidates |-> IF c = build THEN "locked" ELSE "plain"]
MCVisible      == {packages}
MCSize         == [c \in MCCandidates |-> 1]
MCFree         == [f \in MCFilesystems |-> 1]

=============================================================================
