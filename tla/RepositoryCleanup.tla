-------------------------- MODULE RepositoryCleanup --------------------------
(***************************************************************************)
(* A cleanup of one repository (src/src/lib.rs), followed either by its    *)
(* worktrees or by its generated directories: either module abstracts the  *)
(* other's part of the run to the little it needs of it.                   *)
(***************************************************************************)
EXTENDS WorktreeCleanup, GeneratedCleanup

VARIABLE part

repositoryVars == <<part, vars, cleanupVars>>

\* The part that is not followed stays as it is.
WorktreesIdle ==
    /\ config = [policy |-> FALSE, pressure |-> FALSE]
    /\ tree = [w \in Worktrees |-> CHOOSE t \in Trees : TRUE]
    /\ short = FALSE /\ plan = [w \in Worktrees |-> NoRemoval]
    /\ initial = NoSnapshot /\ snapshot = NoSnapshot
    /\ pass = "initial" /\ todo = {} /\ current = Current /\ pc = "start"
    /\ standing = {} /\ late = {} /\ moves = 0 /\ faults = 0

DirectoriesIdle == CleanupFrom(CHOOSE o \in Openings : TRUE)

RepositoryInit ==
    \/ part = "worktrees" /\ Init /\ DirectoriesIdle
    \/ part = "directories" /\ CleanupInit /\ WorktreesIdle

RepositoryNext ==
    /\ UNCHANGED part
    /\ \/ part = "worktrees" /\ Next /\ UNCHANGED cleanupVars
       \/ part = "directories" /\ CleanupNext /\ UNCHANGED vars

RepositorySpec == RepositoryInit /\ [][RepositoryNext]_repositoryVars

(* When nothing happens in the world and no probe fails, the run leaves    *)
(* nothing behind that its own rules condemn: no worktree, and no          *)
(* generated directory.                                                    *)
UndisturbedCleanupIsThorough == UndisturbedRunIsThorough /\ UndisturbedPassIsThorough
=============================================================================
