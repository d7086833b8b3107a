-------------------------- MODULE ExactExecution --------------------------
(***************************************************************************)
(* `worktree-gc execute-generated` (src/src/exact_generated.rs): one       *)
(* approved candidate, deleted through a digest-bound quarantine.          *)
(*                                                                         *)
(* Executors are processes started with the same manifest, approval digest *)
(* and candidate; an operator may start several, and start them again.  A  *)
(* tree is an inode with two signs of change: `root`, what the identity    *)
(* check sees (the modification time of the directory itself), and `deep`, *)
(* what only the measurement sees.  The approved tree is inode 1,          *)
(* unchanged.  Everything the approval binds of the source (HEAD and the   *)
(* status without the candidate) is one bit, `source`.                     *)
(*                                                                         *)
(* Around the executors: Cargo builds (candidates named target), processes *)
(* with files open in the ownership paths, a user who edits the source,    *)
(* deletes and recreates the candidate, leases, and free space.            *)
(***************************************************************************)
EXTENDS Integers

CONSTANTS
    Executors,   \* processes running this approval
    Kind,        \* "target", or "other" for a tree without Cargo locks
    Class,       \* CleanupClass: "routine" or "pressure"
    MaxInode,    \* bound: directories ever created at the candidate path
    MaxCrashes,  \* bound: executors killed
    NoTree,      \* nothing at a path
    Nobody       \* no executor

ASSUME KindAssumption   == Kind \in {"target", "other"} /\ Class \in {"routine", "pressure"}
ASSUME BoundAssumption  == MaxInode \in Nat \ {0} /\ MaxCrashes \in Nat
ASSUME NobodyAssumption == {Nobody, "builder"} \cap Executors = {} /\ Nobody # "builder"

Inodes == 1 .. MaxInode
Trees  == [ino : Inodes, root : BOOLEAN, deep : BOOLEAN]

ASSUME NoTreeAssumption == NoTree \notin Trees

VARIABLES
    cand,       \* the tree at the candidate path
    quar,       \* the tree at the digest-bound quarantine path
    cargo,      \* holder of the .cargo-lock inside each inode
    builder,    \* a Cargo build: [at, ino], ino being the lock it opened
    fresh,      \* next unused inode
    owner,      \* a process holds files open in the ownership paths
    source,     \* HEAD and filtered status are the approved ones
    needed,     \* free space is below the approved pressure target
    lease,      \* a protection relates to the guarded paths
    registry,   \* the executor that holds protections.lock
    pc,         \* control point of each executor
    recovered,  \* recovered_quarantine of each executor
    result,     \* the execution result exists
    removed,    \* ghost: the trees whose removal was begun, as they were then
    standing,   \* ghost: executors whose lock the present owner predates
    crashes

vars == <<cand, quar, cargo, builder, fresh, owner, source, needed, lease,
          registry, pc, recovered, result, removed, standing, crashes>>

tree     == <<cand, quar, fresh>>
world    == <<owner, source, needed, lease>>
ghosts   == <<removed, standing>>

----------------------------------------------------------------------------
Fresh(i)    == [ino |-> i, root |-> FALSE, deep |-> FALSE]
Approved    == Fresh(1)
Building    == builder.at # "idle"

\* validate_live_identity: device, inode and modification time.
Identity(t) == t # NoTree /\ t.ino = Approved.ino /\ t.root = Approved.root

\* Mutant: any measurement will do.
AnyMeasure(t) == TRUE

\* measurements_match
Measured(t) == t.deep = Approved.deep

ActiveTree(e) == IF recovered[e] THEN quar ELSE cand

\* Mutant: free space matters for a recovered quarantine too.
PressureAlwaysHolds(rec) == Class = "routine" \/ needed

\* ensure_pressure_still_needed, waived for a recovered quarantine.
PressureHolds(rec) == rec \/ Class = "routine" \/ needed

\* Mutant: an empty snapshot taken for a complete one.
NeverOwned(t) == FALSE

\* Process ownership of a tree: an owner, or a Cargo that has the lock inside
\* it open.  The executor's own handle on it is ignored.
Owned(t) == owner \/ (Building /\ t # NoTree /\ builder.ino = t.ino)

RenamedIdentity(t) == Identity(t)

MeasuredNow(t) == Measured(t)

\* Mutant: the Cargo locks of a target are not taken.
NeverNeedsCargo(e) == FALSE

NeedsCargo(e) == Kind = "target" /\ ~recovered[e]

----------------------------------------------------------------------------
Init ==
    /\ cand = Approved
    /\ quar = NoTree
    /\ cargo = [i \in Inodes |-> Nobody]
    /\ builder = [at |-> "idle", ino |-> 1]
    /\ fresh = 2
    /\ owner = FALSE
    /\ source = TRUE
    /\ needed = TRUE
    /\ lease = FALSE
    /\ registry = Nobody
    /\ pc = [e \in Executors |-> "idle"]
    /\ recovered = [e \in Executors |-> FALSE]
    /\ result = FALSE
    /\ removed = {}
    /\ standing = {}
    /\ crashes = 0

Goto(e, l) == pc' = [pc EXCEPT ![e] = l]

(* The guard and the Cargo locks are dropped together on every exit. *)
DropLocks(e) ==
    /\ registry' = IF registry = e THEN Nobody ELSE registry
    /\ cargo' = [i \in Inodes |-> IF cargo[i] = e THEN Nobody ELSE cargo[i]]

(* An error: bail! or ensure! somewhere. *)
Fail(e) ==
    /\ Goto(e, "idle")
    /\ recovered' = [recovered EXCEPT ![e] = FALSE]
    /\ DropLocks(e)
    /\ UNCHANGED <<tree, builder, world, result, ghosts, crashes>>

Proceed(e, l) ==
    /\ Goto(e, l)
    /\ UNCHANGED <<tree, cargo, builder, world, registry, recovered, result,
                   ghosts, crashes>>

\* Everything execute_approved_generated establishes before it queues.
PreflightHolds(rec) ==
    LET t == IF rec THEN quar ELSE cand IN
    /\ (cand = NoTree) # (quar = NoTree)
    /\ Identity(t) /\ Measured(t)
    /\ source
    /\ PressureHolds(rec)
    /\ ~result
    /\ ~Owned(t)

Preflight(e) ==
    /\ pc[e] = "idle"
    /\ LET rec == quar # NoTree IN
         /\ PreflightHolds(rec)
         /\ recovered' = [recovered EXCEPT ![e] = rec]
    /\ Goto(e, "queued")
    /\ UNCHANGED <<tree, cargo, builder, world, registry, result, ghosts, crashes>>

(* with_protection_guard_for_paths *)
TakeRegistry(e) ==
    /\ pc[e] = "queued"
    /\ registry = Nobody
    /\ ~lease
    /\ registry' = e
    /\ standing' = IF owner THEN standing \cup {e} ELSE standing
    /\ Goto(e, IF NeedsCargo(e) THEN "guarded" ELSE "locked")
    /\ UNCHANGED <<tree, cargo, builder, world, recovered, result, removed, crashes>>

Protected(e) ==
    /\ pc[e] = "queued"
    /\ registry = Nobody
    /\ lease
    /\ Fail(e)

(* The guarded ownership snapshot, before the wait for Cargo's locks. *)
GuardedOwnership(e) ==
    /\ pc[e] = "guarded"
    /\ IF Owned(cand) THEN Fail(e) ELSE Proceed(e, "waiting")

TakeCargo(e) ==
    /\ pc[e] = "waiting"
    /\ cand # NoTree
    /\ cargo[cand.ino] = Nobody
    /\ cargo' = [cargo EXCEPT ![cand.ino] = e]
    /\ Goto(e, "locked")
    /\ UNCHANGED <<tree, builder, world, registry, recovered, result, ghosts, crashes>>

(* check_lock_timeout, or no lock to take: the target is gone. *)
CargoUnavailable(e) ==
    /\ pc[e] = "waiting"
    /\ cand # NoTree => cargo[cand.ino] # Nobody
    /\ Fail(e)

(* CandidateExecution::execute, up to the last ownership snapshot. *)
Revalidate(e) ==
    /\ pc[e] = "locked"
    /\ IF /\ source
          /\ Identity(ActiveTree(e)) /\ MeasuredNow(ActiveTree(e))
          /\ PressureHolds(recovered[e])
       THEN Proceed(e, "revalidated")
       ELSE Fail(e)

PreQuarantineOwnership(e) ==
    /\ pc[e] = "revalidated"
    /\ IF Owned(ActiveTree(e)) THEN Fail(e)
       ELSE Proceed(e, IF recovered[e] THEN "quarantined" ELSE "cleared")

\* Mutant: a candidate that is not found counts as removed.
QuarantineOrAbsent(e) ==
    /\ pc[e] = "cleared"
    /\ quar' = cand
    /\ cand' = NoTree
    /\ Goto(e, IF cand = NoTree THEN "removed" ELSE "renamed")
    /\ UNCHANGED <<cargo, builder, fresh, world, registry, recovered, result,
                   ghosts, crashes>>

Quarantine(e) ==
    /\ pc[e] = "cleared"
    /\ IF cand = NoTree \/ quar # NoTree
       THEN Fail(e)
       ELSE /\ quar' = cand
            /\ cand' = NoTree
            /\ Goto(e, "renamed")
            /\ UNCHANGED <<cargo, builder, fresh, world, registry, recovered,
                           result, ghosts, crashes>>

VerifyRenamed(e) ==
    /\ pc[e] = "renamed"
    /\ IF RenamedIdentity(quar) THEN Proceed(e, "quarantined") ELSE Fail(e)

(* fs::remove_dir_all, which may be cut short and may then fail. *)
BeginRemoval(e) ==
    /\ pc[e] = "quarantined"
    /\ IF quar = NoTree
       THEN Fail(e)
       ELSE /\ removed' = removed \cup {quar}
            /\ \E r \in {quar.root, TRUE} :
                 quar' = [quar EXCEPT !.root = r, !.deep = TRUE]
            /\ Goto(e, "removing")
            /\ UNCHANGED <<cand, fresh, cargo, builder, world, registry, recovered,
                           result, standing, crashes>>

RemovalFails(e) == pc[e] = "removing" /\ Fail(e)

(* The tree is gone; the guard and the Cargo locks are dropped. *)
EndRemoval(e) ==
    /\ pc[e] = "removing"
    /\ quar' = NoTree
    /\ Goto(e, "removed")
    /\ DropLocks(e)
    /\ UNCHANGED <<cand, fresh, builder, world, recovered, result, ghosts, crashes>>

(* The checks after the guard, then write_result. *)
Report(e) ==
    /\ pc[e] = "removed"
    /\ IF cand = NoTree /\ quar = NoTree /\ source
       THEN /\ result' = TRUE
            /\ Goto(e, "idle")
            /\ recovered' = [recovered EXCEPT ![e] = FALSE]
            /\ UNCHANGED <<tree, cargo, builder, world, registry, ghosts, crashes>>
       ELSE Fail(e)

Crash(e) ==
    /\ pc[e] # "idle"
    /\ crashes < MaxCrashes
    /\ crashes' = crashes + 1
    /\ Goto(e, "idle")
    /\ recovered' = [recovered EXCEPT ![e] = FALSE]
    /\ DropLocks(e)
    /\ UNCHANGED <<tree, builder, world, result, ghosts>>

Advance(e) ==
    \/ TakeRegistry(e) \/ Protected(e)        \/ GuardedOwnership(e)
    \/ TakeCargo(e)    \/ CargoUnavailable(e) \/ Revalidate(e)
    \/ PreQuarantineOwnership(e)
    \/ Quarantine(e)   \/ VerifyRenamed(e)    \/ BeginRemoval(e)
    \/ EndRemoval(e)   \/ Report(e)

----------------------------------------------------------------------------
(* The world. *)

executors == <<pc, recovered, registry, result, removed, crashes>>

Create ==
    /\ fresh <= MaxInode
    /\ cand' = Fresh(fresh)
    /\ fresh' = fresh + 1

(* Cargo opens the lock below the target, which it creates if need be. *)
BuildOpen ==
    /\ Kind = "target"
    /\ builder.at = "idle"
    /\ IF cand = NoTree
       THEN Create /\ builder' = [at |-> "waiting", ino |-> fresh]
       ELSE builder' = [at |-> "waiting", ino |-> cand.ino] /\ UNCHANGED <<cand, fresh>>
    /\ UNCHANGED <<quar, cargo, world, executors, standing>>

BuildLock ==
    /\ builder.at = "waiting"
    /\ cargo[builder.ino] = Nobody
    /\ cargo' = [cargo EXCEPT ![builder.ino] = "builder"]
    /\ builder' = [builder EXCEPT !.at = "building"]
    /\ UNCHANGED <<tree, world, executors, standing>>

(* A build writes by path, wherever the lock it holds has gone. *)
BuildWrite ==
    /\ builder.at = "building"
    /\ IF cand = NoTree
       THEN Create
       ELSE /\ \E r \in {cand.root, TRUE} :
                 cand' = [cand EXCEPT !.root = r, !.deep = TRUE]
            /\ UNCHANGED fresh
    /\ UNCHANGED <<quar, cargo, builder, world, executors, standing>>

BuildEnd ==
    /\ builder.at = "building"
    /\ cargo' = [cargo EXCEPT ![builder.ino] = Nobody]
    /\ builder' = [builder EXCEPT !.at = "idle"]
    /\ UNCHANGED <<tree, world, executors, standing>>

OwnerOpen ==
    /\ ~owner
    /\ owner' = TRUE
    /\ UNCHANGED <<tree, cargo, builder, source, needed, lease, executors, standing>>

OwnerClose ==
    /\ owner
    /\ owner' = FALSE
    /\ standing' = {}
    /\ UNCHANGED <<tree, cargo, builder, source, needed, lease, executors>>

(* Writers other than Cargo are held back by no lock. *)
OwnerWrite ==
    /\ owner /\ cand # NoTree
    /\ cand' = [cand EXCEPT !.deep = TRUE]
    /\ UNCHANGED <<quar, fresh, cargo, builder, world, executors, standing>>

UserDelete ==
    /\ cand # NoTree
    /\ cand' = NoTree
    /\ UNCHANGED <<quar, fresh, cargo, builder, world, executors, standing>>

UserCreate ==
    /\ cand = NoTree
    /\ Create
    /\ UNCHANGED <<quar, cargo, builder, world, executors, standing>>

SourceChanges ==
    /\ source' = ~source
    /\ UNCHANGED <<tree, cargo, builder, owner, needed, lease, executors, standing>>

SpaceChanges ==
    /\ Class = "pressure"
    /\ needed' = ~needed
    /\ UNCHANGED <<tree, cargo, builder, owner, source, lease, executors, standing>>

(* Leases are edited under protections.lock. *)
LeaseChanges ==
    /\ registry = Nobody
    /\ lease' = ~lease
    /\ UNCHANGED <<tree, cargo, builder, owner, source, needed, executors, standing>>

World ==
    \/ BuildOpen \/ BuildLock \/ BuildWrite \/ BuildEnd
    \/ OwnerOpen \/ OwnerClose \/ OwnerWrite
    \/ UserDelete \/ UserCreate
    \/ SourceChanges \/ SpaceChanges \/ LeaseChanges

Next ==
    \/ \E e \in Executors : Preflight(e) \/ Advance(e) \/ RemovalFails(e) \/ Crash(e)
    \/ World

Spec == Init /\ [][Next]_vars

(* The operator repeats the command, and a started executor runs on. *)
FairSpec ==
    /\ Spec
    /\ WF_vars(\E e \in Executors : Preflight(e))
    /\ \A e \in Executors : WF_vars(Advance(e)) /\ SF_vars(TakeRegistry(e))

----------------------------------------------------------------------------

\* A tree is never being removed while a build holds the Cargo lock inside it.
BuildKeepsItsTree ==
    \A e \in Executors :
        pc[e] \in {"quarantined", "removing"} /\ builder.at = "building" /\ quar # NoTree
            => builder.ino # quar.ino

\* A process that was there when the executor got the guard, and still is, is
\* never deprived of its tree.
NoStandingOwnerEvicted ==
    \A e \in standing : pc[e] \notin {"cleared", "renamed", "quarantined", "removing"}

\* An executor that recovers a quarantine removes it only if it is intact: a
\* partial removal fails closed, and so does a tree written to while it was moved.
RecoveredQuarantineIsIntact ==
    \A e \in Executors : recovered[e] /\ pc[e] = "quarantined" => quar = Approved

\* An intact quarantine, left by a killed executor in a world that has come
\* to rest, is eventually resumed and removed.
Quiet == source /\ ~owner /\ ~lease /\ ~Building /\ cand = NoTree /\ ~result

IntactQuarantineIsResumed == []<>~(Quiet /\ quar = Approved)

\* Together the executors implement the abstract promise of an approval.
Stage ==
    LET begun == \E t \in removed : t.ino = Approved.ino
    IN IF cand # NoTree /\ cand.ino = Approved.ino THEN "kept"
       ELSE IF quar # NoTree /\ quar.ino = Approved.ino
            THEN (IF begun THEN "broken" ELSE "moved")
            ELSE (IF begun THEN "gone" ELSE "lost")

Promise == INSTANCE ApprovedRemoval WITH stage <- Stage, reported <- result

ImplementsApprovedRemoval == Promise!ASpec
=============================================================================
