------------------------ MODULE ExactExecutionProofs ------------------------
(***************************************************************************)
(* The three safety invariants of ExactExecution and its refinement of     *)
(* ApprovedRemoval, for any number of executors, inodes and crashes, for   *)
(* targets and for trees without Cargo locks, in both cleanup classes.     *)
(*                                                                         *)
(* Everything rests on one invariant, IInv.  protections.lock lets one     *)
(* executor at a time work on the two paths.  What that executor has seen  *)
(* of the tree stays true while it holds the lock, although the world goes *)
(* on around it: nobody else writes below the quarantine, an inode is      *)
(* never used again, and no build gets the Cargo lock the executor holds,  *)
(* or opens one inside a tree that has left the candidate path.            *)
(***************************************************************************)
EXTENDS ExactExecution, TLAPS

----------------------------------------------------------------------------
(* The inductive invariant.                                                *)

\* The points at which the protection registry is held.
Inside == {"guarded", "waiting", "locked", "revalidated", "cleared",
           "renamed", "quarantined", "removing"}

\* Every variable the argument is about has values of its kind.
Types ==
    /\ cand \in Trees \cup {NoTree}
    /\ quar \in Trees \cup {NoTree}
    /\ cargo \in [Inodes -> Executors \cup {"builder", Nobody}]
    /\ builder \in [at : {"idle", "waiting", "building"}, ino : Inodes]
    /\ fresh \in Nat
    /\ fresh >= 2
    /\ pc \in [Executors -> Inside \cup {"idle", "queued", "removed"}]
    /\ recovered \in [Executors -> BOOLEAN]
    /\ result \in BOOLEAN
    /\ removed \subseteq Trees
    /\ standing \subseteq Executors

\* with_protection_guard_for_paths keeps two executors apart.
Exclusive == \A e \in Executors : pc[e] \in Inside => registry = e

\* The tree with inode i is at a path.
At(t, i) == t # NoTree /\ t.ino = i

\* An inode is at one path at most, and was created before.
OneTree ==
    /\ cand # NoTree => cand.ino < fresh
    /\ quar # NoTree => quar.ino < fresh
    /\ cand # NoTree /\ quar # NoTree => cand.ino # quar.ino

\* The removal of the approved tree was begun.
Begun == \E t \in removed : t.ino = Approved.ino

\* The approved tree is at neither path.
Nowhere == ~At(cand, Approved.ino) /\ ~At(quar, Approved.ino)

\* A tree that is at the candidate path is whole.
CandidateIsWhole == At(cand, Approved.ino) => ~Begun

\* What each point of execution knows of the tree it works on.
AtWork(e) ==
    /\ recovered[e] => pc[e] \notin {"guarded", "waiting", "cleared", "renamed"}
    /\ pc[e] = "revalidated" /\ recovered[e] => quar = Approved
    /\ pc[e] = "quarantined" => Identity(quar)
    /\ pc[e] = "quarantined" /\ recovered[e] => quar = Approved
    /\ pc[e] = "removing" => At(quar, Approved.ino) /\ Begun

\* ... for every executor.
WorkInv == \A e \in Executors : AtWork(e)

\* An executor has removed the tree and not reported yet.
Ended(e) == pc[e] = "removed"

\* The end of the approved tree is reached by one executor, once.
OneEnd ==
    /\ (result \/ \E e \in Executors : Ended(e)) => Begun /\ Nowhere
    /\ \A e \in Executors : Ended(e) => ~result
    /\ \A e, f \in Executors : Ended(e) /\ Ended(f) => e = f

\* A build at work holds the lock it opened.
BuilderHolds == builder.at = "building" => cargo[builder.ino] = "builder"

\* No build can be at work in the approved tree: an executor has its Cargo lock,
\* or the tree is of a kind that builds do not use.
Locked(e) == cargo[Approved.ino] = e \/ (Kind # "target" /\ ~Building)

\* This is so from the lock to the end of the removal, unless the approved tree
\* was replaced in between.  A recovered quarantine is not locked: what counts is
\* that nothing has a lock inside it open, and nothing can open one any more.
Holds(e) ==
    /\ pc[e] \in {"locked", "revalidated", "cleared"} /\ ~recovered[e]
       /\ At(cand, Approved.ino) => Locked(e)
    /\ pc[e] \in {"renamed", "quarantined", "removing"} /\ ~recovered[e]
       /\ At(quar, Approved.ino) => Locked(e)
    /\ pc[e] \in {"quarantined", "removing"} /\ recovered[e]
       => ~(Building /\ builder.ino = Approved.ino)

\* ... for every executor.
CargoHeld == \A e \in Executors : Holds(e)

\* Only targets are built in.
NoBuilds == Kind # "target" => ~Building

\* An owner that was there when the executor got the guard ends it.
Standing == standing # {} => owner

\* The points at which the tree is being taken from its path.
Evicting == {"cleared", "renamed", "quarantined", "removing"}

\* The inductive invariant.
IInv ==
    /\ Types /\ Exclusive /\ OneTree /\ CandidateIsWhole
    /\ WorkInv
    /\ OneEnd /\ BuilderHolds /\ CargoHeld /\ NoBuilds
    /\ Standing /\ NoStandingOwnerEvicted

----------------------------------------------------------------------------
(* The steps of the executors.                                             *)

\* A tree with the approved identity is inode 1; with the approved measurement
\* too, it is the approved tree.
LEMMA TreeFacts ==
    /\ 1 \in Inodes /\ Approved \in Trees /\ Approved.ino = 1 /\ Approved # NoTree
    /\ \A t \in Trees \cup {NoTree} : Identity(t) => At(t, Approved.ino)
    /\ \A t \in Trees \cup {NoTree} : Identity(t) /\ Measured(t) => t = Approved
<1>1. 1 \in Inodes
    BY BoundAssumption DEF Inodes
<1>2. Approved = [ino |-> 1, root |-> FALSE, deep |-> FALSE]
    BY DEF Approved, Fresh
<1>3. Approved \in Trees /\ Approved.ino = 1
    BY <1>1, <1>2 DEF Trees
<1>4. ASSUME NEW t \in Trees, t.ino = 1, t.root = FALSE, t.deep = FALSE PROVE t = Approved
    BY <1>2, <1>4 DEF Trees
<1>5. \A t \in Trees \cup {NoTree} : Identity(t) /\ Measured(t) => t = Approved
    BY <1>2, <1>4 DEF Identity, Measured
<1> QED
    BY <1>1, <1>3, <1>5, NoTreeAssumption DEF Identity, At

\* The invariant holds before anything is executed.
LEMMA InitHolds == Init => IInv
<1> SUFFICES ASSUME Init PROVE IInv
    OBVIOUS
<1>1. Types
  <2>1. builder \in [at : {"idle", "waiting", "building"}, ino : Inodes]
      BY TreeFacts DEF Init
  <2>2. /\ cargo \in [Inodes -> Executors \cup {"builder", Nobody}]
        /\ pc \in [Executors -> Inside \cup {"idle", "queued", "removed"}]
        /\ recovered \in [Executors -> BOOLEAN]
      BY DEF Init
  <2>3. fresh = 2 /\ result = FALSE /\ removed = {} /\ standing = {}
      BY DEF Init
  <2>4. cand \in Trees /\ quar = NoTree
      BY TreeFacts DEF Init
  <2>5. fresh \in Nat /\ fresh >= 2
      BY <2>3
  <2>6. result \in BOOLEAN /\ removed \subseteq Trees /\ standing \subseteq Executors
      BY <2>3
  <2> QED
      BY <2>1, <2>2, <2>4, <2>5, <2>6 DEF Types
<1>2. OneTree /\ CandidateIsWhole /\ OneEnd
    BY TreeFacts, NoTreeAssumption DEF Init, OneTree, CandidateIsWhole, OneEnd, Ended, Begun
<1>3. Exclusive /\ WorkInv /\ CargoHeld
    BY DEF Init, Exclusive, WorkInv, AtWork, CargoHeld, Holds, Inside
<1>4. BuilderHolds /\ NoBuilds /\ Standing /\ NoStandingOwnerEvicted
    BY DEF Init, BuilderHolds, NoBuilds, Building, Standing, NoStandingOwnerEvicted
<1> QED
    BY <1>1, <1>2, <1>3, <1>4 DEF IInv

(* An executor that gives up, or is killed, knows nothing and holds        *)
(* nothing.                                                                *)
LEMMA DropStep ==
    ASSUME IInv, NEW e \in Executors, Goto(e, "idle"), DropLocks(e),
           recovered' = [recovered EXCEPT ![e] = FALSE],
           UNCHANGED <<tree, builder, world, result, ghosts>>
    PROVE  IInv'
<1> USE DEF IInv, Types, Goto, DropLocks, tree, world, ghosts
<1>1. Types'
    BY DEF Inside
<1>2. Exclusive'
    BY NobodyAssumption DEF Exclusive, Inside
<1>3. OneTree' /\ CandidateIsWhole' /\ NoBuilds' /\ Standing'
    BY DEF OneTree, CandidateIsWhole, At, Begun, NoBuilds, Building, Standing
<1>4. WorkInv' /\ OneEnd' /\ NoStandingOwnerEvicted'
    BY DEF WorkInv, AtWork, OneEnd, Ended, Begun, Nowhere, At, Identity, NoStandingOwnerEvicted
<1>5. BuilderHolds'
    BY NobodyAssumption DEF BuilderHolds
<1>6. CargoHeld'
  <2>1. ASSUME NEW f \in Executors, f # e, Locked(f) PROVE Locked(f)'
      BY <2>1, TreeFacts DEF Locked, Building
  <2> QED
      BY <2>1 DEF CargoHeld, Holds, Building, At
<1> QED
    BY <1>1, <1>2, <1>3, <1>4, <1>5, <1>6

\* An error in any of the checks leaves through there.
LEMMA FailStep == ASSUME IInv, NEW e \in Executors, Fail(e) PROVE IInv'
BY DropStep DEF Fail

(* A step from one point to the next, with what is known there.            *)
LEMMA ProceedStep ==
    ASSUME IInv, NEW e \in Executors, NEW l \in Inside, pc[e] \in Inside, Proceed(e, l),
           AtWork(e)', Holds(e)', e \in standing => l \notin Evicting
    PROVE  IInv'
<1> USE DEF IInv, Types, Goto, Proceed, tree, world, ghosts
<1>1. Types'
    OBVIOUS
<1>2. \A f \in Executors : f # e => pc'[f] = pc[f]
    OBVIOUS
<1>3. Exclusive' /\ OneTree' /\ CandidateIsWhole' /\ BuilderHolds' /\ NoBuilds' /\ Standing'
    BY <1>2 DEF Exclusive, OneTree, CandidateIsWhole, At, Begun, BuilderHolds, NoBuilds, Building,
           Standing
<1>4. WorkInv'
    BY <1>2 DEF WorkInv, AtWork, Identity, At, Begun
<1>5. OneEnd'
    BY DEF OneEnd, Ended, Begun, Nowhere, At, Inside
<1>6. CargoHeld'
    BY <1>2 DEF CargoHeld, Holds, Locked, Building, At
<1>7. NoStandingOwnerEvicted'
    BY <1>2 DEF NoStandingOwnerEvicted, Evicting
<1> QED
    BY <1>1, <1>3, <1>4, <1>5, <1>6, <1>7

\* The preflight takes no lock and proves nothing that is relied on later.
LEMMA PreflightStep == ASSUME IInv, NEW e \in Executors, Preflight(e) PROVE IInv'
<1> USE DEF IInv, Types, Goto, Preflight, tree, world, ghosts
<1>1. Types'
    BY DEF Inside
<1>2. \A f \in Executors : f # e => pc'[f] = pc[f] /\ recovered'[f] = recovered[f]
    OBVIOUS
<1>3. pc'[e] = "queued"
    OBVIOUS
<1>4. Exclusive' /\ OneTree' /\ CandidateIsWhole' /\ BuilderHolds' /\ NoBuilds' /\ Standing'
    BY <1>2, <1>3 DEF Exclusive, Inside, OneTree, CandidateIsWhole, At, Begun, BuilderHolds,
           NoBuilds, Building, Standing
<1>5. WorkInv' /\ OneEnd' /\ NoStandingOwnerEvicted'
    BY <1>2, <1>3 DEF WorkInv, AtWork, Identity, At, Begun, OneEnd, Ended, Nowhere,
           NoStandingOwnerEvicted
<1>6. CargoHeld'
    BY <1>2, <1>3 DEF CargoHeld, Holds, Locked, Building, At
<1> QED
    BY <1>1, <1>4, <1>5, <1>6

\* Whoever gets protections.lock is alone inside.
LEMMA TakeRegistryStep == ASSUME IInv, NEW e \in Executors, TakeRegistry(e) PROVE IInv'
<1> USE DEF IInv, Types, Goto, TakeRegistry, tree, world, ghosts
<1>1. /\ pc'[e] \in {"guarded", "locked"}
      /\ pc'[e] = "guarded" => ~recovered[e]
      /\ pc'[e] = "locked" /\ ~recovered[e] => Kind # "target"
    BY DEF NeedsCargo
<1>2. Types'
    BY DEF Inside
<1>3. \A f \in Executors : f # e => pc'[f] = pc[f]
    OBVIOUS
<1>4. Exclusive'
    BY NobodyAssumption DEF Exclusive
<1>5. OneTree' /\ CandidateIsWhole' /\ BuilderHolds' /\ NoBuilds' /\ Standing'
    BY DEF OneTree, CandidateIsWhole, At, Begun, BuilderHolds, NoBuilds, Building, Standing
<1>6. WorkInv' /\ OneEnd'
    BY <1>1, <1>3 DEF WorkInv, AtWork, Identity, At, Begun, OneEnd, Ended, Nowhere
<1>7. CargoHeld'
    BY <1>1, <1>3 DEF CargoHeld, Holds, Locked, NoBuilds, Building, At
<1>8. NoStandingOwnerEvicted'
    BY <1>1, <1>3 DEF NoStandingOwnerEvicted
<1> QED
    BY <1>2, <1>4, <1>5, <1>6, <1>7, <1>8

\* The lock of the tree at the candidate path is that of the approved tree, if
\* the approved tree is still there.
LEMMA TakeCargoStep == ASSUME IInv, NEW e \in Executors, TakeCargo(e) PROVE IInv'
<1> USE DEF IInv, Types, Goto, TakeCargo, tree, world, ghosts
<1>1. Types'
    BY NoTreeAssumption DEF Inside, Trees
<1>2. \A f \in Executors : f # e => pc'[f] = pc[f] /\ pc[f] \notin Inside
    BY DEF Exclusive, Inside
<1>3. pc'[e] = "locked" /\ ~recovered[e]
    BY DEF WorkInv, AtWork
<1>4. Exclusive'
    BY <1>2 DEF Exclusive, Inside
<1>5. OneTree' /\ CandidateIsWhole' /\ NoBuilds' /\ Standing'
    BY DEF OneTree, CandidateIsWhole, At, Begun, NoBuilds, Building, Standing
<1>6. BuilderHolds'
    BY NobodyAssumption DEF BuilderHolds
<1>7. WorkInv' /\ OneEnd' /\ NoStandingOwnerEvicted'
    BY <1>2, <1>3 DEF WorkInv, AtWork, Identity, At, Begun, OneEnd, Ended, Nowhere,
           NoStandingOwnerEvicted
<1>8. CargoHeld'
    BY <1>2, <1>3, TreeFacts, NoTreeAssumption DEF CargoHeld, Holds, Locked, Building, At, Inside, Trees
<1> QED
    BY <1>1, <1>4, <1>5, <1>6, <1>7, <1>8

\* A recovered quarantine that passes the revalidation is the approved tree.
LEMMA RevalidateStep == ASSUME IInv, NEW e \in Executors, Revalidate(e) PROVE IInv'
<1>1. CASE Fail(e)
    BY <1>1, FailStep
<1>2. CASE Proceed(e, "revalidated") /\ Identity(ActiveTree(e)) /\ MeasuredNow(ActiveTree(e))
  <2>1. pc[e] = "locked" /\ pc'[e] = "revalidated" /\ UNCHANGED <<recovered, cargo, builder, tree>>
      BY <1>2 DEF Revalidate, Proceed, Goto, IInv, Types
  <2>2. recovered[e] => quar = Approved
      BY <1>2, TreeFacts DEF ActiveTree, MeasuredNow, IInv, Types
  <2>3. AtWork(e)' /\ Holds(e)'
      BY <2>1, <2>2 DEF AtWork, Holds, Locked, Building, At, tree, IInv, CargoHeld
  <2> QED
      BY <1>2, <2>1, <2>3, ProceedStep DEF Inside, Evicting
<1> QED
    BY <1>1, <1>2 DEF Revalidate

\* The last ownership snapshot clears the owners that were there all along, and
\* any build that has the lock inside a recovered quarantine open.
LEMMA PreQuarantineOwnershipStep ==
    ASSUME IInv, NEW e \in Executors, PreQuarantineOwnership(e) PROVE IInv'
<1>1. CASE Fail(e)
    BY <1>1, FailStep
<1>2. CASE Proceed(e, IF recovered[e] THEN "quarantined" ELSE "cleared") /\ ~Owned(ActiveTree(e))
  <2> DEFINE l == IF recovered[e] THEN "quarantined" ELSE "cleared"
  <2>1. pc[e] = "revalidated" /\ pc'[e] = l /\ UNCHANGED <<recovered, cargo, builder, tree>>
      BY <1>2 DEF PreQuarantineOwnership, Proceed, Goto, IInv, Types
  <2>2. recovered[e] => /\ quar = Approved
                       /\ ~(Building /\ builder.ino = Approved.ino)
      BY <1>2, <2>1, TreeFacts DEF Owned, ActiveTree, IInv, WorkInv, AtWork
  <2>3. Identity(Approved)
      BY TreeFacts DEF Identity
  <2>4. AtWork(e)' /\ Holds(e)'
      BY <2>1, <2>2, <2>3 DEF AtWork, Holds, Locked, Building, At, Identity, tree, IInv, CargoHeld
  <2>5. e \notin standing
      BY <1>2 DEF Owned, IInv, Standing
  <2> QED
      BY <1>2, <2>1, <2>4, <2>5, ProceedStep DEF Inside
<1> QED
    BY <1>1, <1>2 DEF PreQuarantineOwnership

\* The first ownership snapshot lets the executor wait for Cargo, no more.
LEMMA GuardedOwnershipStep == ASSUME IInv, NEW e \in Executors, GuardedOwnership(e) PROVE IInv'
<1>1. CASE Fail(e)
    BY <1>1, FailStep
<1>2. CASE Proceed(e, "waiting")
  <2>1. pc[e] = "guarded" /\ pc'[e] = "waiting" /\ recovered' = recovered
      BY <1>2 DEF GuardedOwnership, Proceed, Goto, IInv, Types
  <2>2. AtWork(e)' /\ Holds(e)'
      BY <2>1 DEF AtWork, Holds, IInv, WorkInv
  <2> QED
      BY <1>2, <2>1, <2>2, ProceedStep DEF Inside, Evicting
<1> QED
    BY <1>1, <1>2 DEF GuardedOwnership

\* The rename takes whatever is at the candidate path to the quarantine.
LEMMA QuarantineStep == ASSUME IInv, NEW e \in Executors, Quarantine(e) PROVE IInv'
<1>1. CASE Fail(e)
    BY <1>1, FailStep
<1>2. CASE cand # NoTree /\ quar = NoTree /\ ~Fail(e)
  <2> USE <1>2 DEF IInv, Types, Goto, Quarantine, world, ghosts
  <2>1. /\ pc[e] = "cleared" /\ pc' = [pc EXCEPT ![e] = "renamed"] /\ pc'[e] = "renamed"
        /\ quar' = cand /\ cand' = NoTree
        /\ UNCHANGED <<cargo, builder, fresh, world, registry, recovered, result, ghosts>>
      OBVIOUS
  <2> USE <2>1
  <2>2. Types'
      BY DEF Inside
  <2>3. \A f \in Executors : f # e => pc'[f] = pc[f] /\ pc[f] \notin Inside
      BY DEF Exclusive, Inside
  <2>4. Exclusive' /\ OneTree' /\ CandidateIsWhole' /\ BuilderHolds' /\ NoBuilds' /\ Standing'
      BY <2>3 DEF Exclusive, Inside, OneTree, CandidateIsWhole, At, BuilderHolds, NoBuilds, Building,
             Standing
  <2>5. WorkInv'
      BY <2>3 DEF WorkInv, AtWork, Inside
  <2>6. OneEnd'
      BY <2>3 DEF OneEnd, Ended, Begun, Nowhere, At
  <2>7. CargoHeld'
      BY <2>3 DEF CargoHeld, Holds, WorkInv, AtWork, Locked, Building, At, Inside
  <2>8. NoStandingOwnerEvicted'
      BY <2>3 DEF NoStandingOwnerEvicted
  <2> QED
      BY <2>2, <2>4, <2>5, <2>6, <2>7, <2>8
<1> QED
    BY <1>1, <1>2 DEF Quarantine

\* Past this check, what is in the quarantine is the approved tree.
LEMMA VerifyRenamedStep == ASSUME IInv, NEW e \in Executors, VerifyRenamed(e) PROVE IInv'
<1>1. CASE Fail(e)
    BY <1>1, FailStep
<1>2. CASE Proceed(e, "quarantined") /\ RenamedIdentity(quar)
  <2>1. /\ pc[e] = "renamed" /\ pc'[e] = "quarantined" /\ ~recovered[e]
        /\ UNCHANGED <<recovered, cargo, builder, tree>>
      BY <1>2 DEF VerifyRenamed, Proceed, Goto, IInv, Types, WorkInv, AtWork
  <2>2. AtWork(e)' /\ Holds(e)'
      BY <1>2, <2>1 DEF AtWork, Holds, RenamedIdentity, Identity, Locked, Building, At, tree, IInv,
             CargoHeld
  <2>3. e \notin standing
      BY <2>1 DEF IInv, NoStandingOwnerEvicted
  <2> QED
      BY <1>2, <2>1, <2>2, <2>3, ProceedStep DEF Inside
<1> QED
    BY <1>1, <1>2 DEF VerifyRenamed

\* The removal is begun while the approved tree is nowhere else.
LEMMA BeginRemovalStep == ASSUME IInv, NEW e \in Executors, BeginRemoval(e) PROVE IInv'
<1>1. CASE Fail(e)
    BY <1>1, FailStep
<1>2. CASE quar # NoTree /\ ~Fail(e)
  <2>1. PICK r \in {quar.root, TRUE} : quar' = [quar EXCEPT !.root = r, !.deep = TRUE]
      BY <1>2 DEF BeginRemoval
  <2>2. /\ pc[e] = "quarantined" /\ pc' = [pc EXCEPT ![e] = "removing"]
        /\ removed' = removed \cup {quar}
        /\ UNCHANGED <<cand, fresh, cargo, builder, world, registry, recovered, result, standing>>
      BY <1>2 DEF BeginRemoval, Goto
  <2>3. quar \in Trees /\ quar' \in Trees /\ quar' # NoTree /\ quar'.ino = quar.ino
      BY <1>2, <2>1, NoTreeAssumption DEF IInv, Types, Trees
  <2>4. quar.ino = Approved.ino
      BY <2>2 DEF IInv, WorkInv, AtWork, Identity
  <2>5. pc'[e] = "removing" /\ \A f \in Executors : f # e => pc'[f] = pc[f] /\ pc[f] \notin Inside
      BY <2>2 DEF IInv, Types, Exclusive, Inside
  <2>6. Types'
      BY <2>2, <2>3 DEF IInv, Types, Inside, world
  <2>7. Exclusive' /\ OneTree' /\ BuilderHolds' /\ NoBuilds' /\ Standing'
      BY <1>2, <2>2, <2>3, <2>5 DEF IInv, Exclusive, Inside, OneTree, BuilderHolds, NoBuilds,
             Building, Standing, world
  <2>8. Begun' /\ At(quar, Approved.ino)' /\ ~At(cand, Approved.ino)
      BY <1>2, <2>2, <2>3, <2>4 DEF IInv, OneTree, Begun, At, Approved, Fresh
  <2>9. CandidateIsWhole'
      BY <2>2, <2>8 DEF CandidateIsWhole, At, Approved, Fresh
  <2>10. WorkInv'
      BY <2>2, <2>5, <2>8 DEF WorkInv, AtWork, IInv, Inside
  <2>11. OneEnd'
      BY <1>2, <2>2, <2>4, <2>5 DEF IInv, OneEnd, Ended, Nowhere, At
  <2>12. CargoHeld'
      BY <1>2, <2>2, <2>3, <2>5 DEF IInv, CargoHeld, Holds, Locked, Building, At, Inside
  <2>13. NoStandingOwnerEvicted'
      BY <2>2, <2>5 DEF IInv, NoStandingOwnerEvicted
  <2> QED
      BY <2>6, <2>7, <2>9, <2>10, <2>11, <2>12, <2>13 DEF IInv
<1> QED
    BY <1>1, <1>2 DEF BeginRemoval

\* The tree is gone, from both paths, and one executor knows.
LEMMA EndRemovalStep == ASSUME IInv, NEW e \in Executors, EndRemoval(e) PROVE IInv'
<1> USE DEF IInv, Types
<1>1. /\ pc[e] = "removing" /\ pc' = [pc EXCEPT ![e] = "removed"] /\ quar' = NoTree
      /\ registry' = IF registry = e THEN Nobody ELSE registry
      /\ cargo' = [i \in Inodes |-> IF cargo[i] = e THEN Nobody ELSE cargo[i]]
      /\ UNCHANGED <<cand, fresh, builder, world, recovered, result, ghosts>>
    BY DEF EndRemoval, Goto, DropLocks
<1>2. pc'[e] = "removed" /\ \A f \in Executors : f # e => pc'[f] = pc[f] /\ pc[f] \notin Inside
    BY <1>1 DEF Exclusive, Inside
<1>3. At(quar, Approved.ino) /\ Begun /\ ~At(cand, Approved.ino)
    BY <1>1 DEF WorkInv, AtWork, At, OneTree
<1>4. Types'
    BY <1>1 DEF ghosts
<1>5. Exclusive' /\ OneTree' /\ NoBuilds' /\ Standing'
    BY <1>1, <1>2 DEF Exclusive, Inside, OneTree, NoBuilds, Building, Standing, world, ghosts
<1>6. BuilderHolds'
    BY <1>1, NobodyAssumption DEF BuilderHolds
<1>7. OneEnd' /\ CandidateIsWhole'
    BY <1>1, <1>2, <1>3 DEF OneEnd, Ended, Begun, Nowhere, At, CandidateIsWhole, ghosts, Approved,
           Fresh
<1>8. WorkInv' /\ CargoHeld' /\ NoStandingOwnerEvicted'
    BY <1>1, <1>2 DEF WorkInv, AtWork, CargoHeld, Holds, NoStandingOwnerEvicted, Inside, ghosts
<1> QED
    BY <1>4, <1>5, <1>6, <1>7, <1>8

\* The executor that knows is the one that reports.
LEMMA ReportStep == ASSUME IInv, NEW e \in Executors, Report(e) PROVE IInv'
<1>1. CASE Fail(e)
    BY <1>1, FailStep
<1>2. CASE cand = NoTree /\ quar = NoTree /\ ~Fail(e)
  <2> USE DEF IInv, Types
  <2>1. /\ pc[e] = "removed" /\ pc' = [pc EXCEPT ![e] = "idle"]
        /\ recovered' = [recovered EXCEPT ![e] = FALSE] /\ result' = TRUE
        /\ UNCHANGED <<tree, cargo, builder, world, registry, ghosts>>
      BY <1>2 DEF Report, Goto
  <2>2. /\ pc'[e] = "idle"
        /\ \A f \in Executors : f # e => pc'[f] = pc[f] /\ recovered'[f] = recovered[f]
      BY <2>1
  <2>3. Types'
      BY <2>1 DEF tree, ghosts, Inside
  <2>4. Exclusive' /\ OneTree' /\ CandidateIsWhole' /\ BuilderHolds' /\ NoBuilds' /\ Standing'
      BY <2>1, <2>2 DEF Exclusive, Inside, OneTree, CandidateIsWhole, At, Begun, BuilderHolds,
             NoBuilds, Building, Standing, tree, world, ghosts
  <2>5. OneEnd'
      BY <1>2, <2>1, <2>2 DEF OneEnd, Ended, Begun, Nowhere, At, tree, ghosts
  <2>6. WorkInv' /\ NoStandingOwnerEvicted'
      BY <2>1, <2>2 DEF WorkInv, AtWork, Identity, At, Begun, NoStandingOwnerEvicted, tree, ghosts
  <2>7. CargoHeld'
      BY <2>1, <2>2 DEF CargoHeld, Holds, Locked, Building, At, tree
  <2> QED
      BY <2>3, <2>4, <2>5, <2>6, <2>7
<1> QED
    BY <1>1, <1>2 DEF Report

\* All steps of an executor.
LEMMA ExecutorStep ==
    ASSUME IInv, NEW e \in Executors, Preflight(e) \/ Advance(e) \/ RemovalFails(e) \/ Crash(e)
    PROVE  IInv'
<1>1. CASE Protected(e) \/ CargoUnavailable(e) \/ RemovalFails(e)
    BY <1>1, FailStep DEF Protected, CargoUnavailable, RemovalFails
<1>2. CASE Crash(e)
    BY <1>2, DropStep DEF Crash
<1> QED
    BY <1>1, <1>2, PreflightStep, TakeRegistryStep, GuardedOwnershipStep, TakeCargoStep,
       RevalidateStep, PreQuarantineOwnershipStep, QuarantineStep, VerifyRenamedStep,
       BeginRemovalStep, EndRemovalStep, ReportStep DEF Advance

----------------------------------------------------------------------------
(* The steps of the world.                                                 *)

(* The world leaves the executors and the quarantine alone.  What it does  *)
(* at the candidate path is to delete, to write to, or to create anew.     *)
LEMMA CandidateStep ==
    ASSUME IInv, UNCHANGED <<quar, cargo, owner, standing, pc, recovered, registry, result, removed>>,
           cand' \in Trees \cup {NoTree}, fresh' \in {fresh, fresh + 1},
           cand' # NoTree => \/ cand # NoTree /\ cand'.ino = cand.ino
                             \/ cand'.ino = fresh /\ fresh' = fresh + 1,
           builder' \in [at : {"idle", "waiting", "building"}, ino : Inodes],
           \/ builder' = builder
           \/ /\ Kind = "target" /\ builder'.at = "waiting"
              /\ cand' # NoTree /\ builder'.ino = cand'.ino
    PROVE  IInv'
<1> USE DEF IInv, Types
<1>1. Types'
    OBVIOUS
<1>2. cand' # NoTree => cand'.ino # Approved.ino \/ At(cand, Approved.ino)
    BY DEF At, Approved, Fresh
<1>3. Exclusive' /\ NoStandingOwnerEvicted' /\ Standing' /\ WorkInv' /\ BuilderHolds'
    BY DEF Exclusive, NoStandingOwnerEvicted, Standing, WorkInv, AtWork, Identity, At, Begun,
           BuilderHolds
<1>4. OneTree'
  <2>1. cand # NoTree => cand.ino \in Nat
      BY DEF Trees, Inodes
  <2>2. quar # NoTree => quar.ino \in Nat
      BY DEF Trees, Inodes
  <2> QED
      BY <2>1, <2>2 DEF OneTree
<1>5. At(cand, Approved.ino)' => At(cand, Approved.ino)
    BY <1>2 DEF At, Approved, Fresh
<1>6. CandidateIsWhole' /\ OneEnd'
    BY <1>5 DEF CandidateIsWhole, OneEnd, Ended, Begun, Nowhere, At, Approved, Fresh
<1>7. NoBuilds'
    BY DEF NoBuilds, Building
<1>8. CargoHeld'
  <2>1. SUFFICES ASSUME NEW e \in Executors PROVE Holds(e)'
      BY DEF CargoHeld
  <2>2. Locked(e) => Locked(e)'
      BY DEF Locked, Building, Approved, Fresh
  <2>3. pc[e] \in {"quarantined", "removing"} => At(quar, Approved.ino)
      BY TreeFacts DEF WorkInv, AtWork
  <2>4. pc[e] \in {"quarantined", "removing"} /\ Building' /\ builder' # builder
          => builder'.ino # Approved.ino
      BY <1>5, <2>3 DEF At, OneTree, Approved, Fresh
  <2>5. builder' = builder => (Building' <=> Building)
      BY DEF Building
  <2> QED
      BY <1>5, <2>2, <2>4, <2>5 DEF CargoHeld, Holds, At, Approved, Fresh
<1> QED
    BY <1>1, <1>3, <1>4, <1>6, <1>7, <1>8

\* A write below the candidate path leaves the tree its inode.
LEMMA WriteStep ==
    ASSUME IInv, UNCHANGED <<quar, fresh, cargo, builder, owner, standing, pc, recovered, registry,
                             result, removed>>,
           cand # NoTree,
           \E r \in BOOLEAN : cand' = [cand EXCEPT !.root = r, !.deep = TRUE]
    PROVE  IInv'
<1>1. cand' \in Trees /\ cand'.ino = cand.ino
    BY DEF IInv, Types, Trees
<1>2. builder' \in [at : {"idle", "waiting", "building"}, ino : Inodes]
    BY DEF IInv, Types
<1>3. UNCHANGED <<quar, cargo, owner, standing, pc, recovered, registry, result, removed>>
    OBVIOUS
<1>4. cand' \in Trees \cup {NoTree} /\ fresh' \in {fresh, fresh + 1} /\ builder' = builder
    BY <1>1
<1>5. cand' # NoTree => \/ cand # NoTree /\ cand'.ino = cand.ino
                        \/ cand'.ino = fresh /\ fresh' = fresh + 1
    BY <1>1
<1> QED
    BY <1>2, <1>3, <1>4, <1>5, CandidateStep

\* A directory created anew is not the approved one.
LEMMA CreateFacts ==
    ASSUME IInv, Create
    PROVE  /\ cand' \in Trees /\ cand'.ino = fresh /\ cand' # NoTree
           /\ fresh' = fresh + 1 /\ fresh \in Inodes
<1>1. fresh \in Inodes
    BY BoundAssumption DEF Create, IInv, Types, Inodes
<1>2. cand' = [ino |-> fresh, root |-> FALSE, deep |-> FALSE] /\ fresh' = fresh + 1
    BY DEF Create, Fresh
<1>3. cand' \in Trees
    BY <1>1, <1>2 DEF Trees
<1> QED
    BY <1>1, <1>2, <1>3, NoTreeAssumption

\* All steps that write at the candidate path.
LEMMA CandidateSteps ==
    ASSUME IInv, BuildOpen \/ BuildWrite \/ OwnerWrite \/ UserDelete \/ UserCreate
    PROVE  IInv'
<1> USE DEF IInv, Types
<1>1. CASE BuildOpen
  <2>1. UNCHANGED <<quar, cargo, owner, standing, pc, recovered, registry, result, removed>>
      BY <1>1 DEF BuildOpen, world, executors
  <2>2. CASE cand = NoTree
    <3>1. Create /\ builder' = [at |-> "waiting", ino |-> fresh] /\ Kind = "target"
        BY <1>1, <2>2 DEF BuildOpen
    <3>2. builder' \in [at : {"idle", "waiting", "building"}, ino : Inodes]
        BY <3>1, CreateFacts
    <3> QED
        BY <2>1, <3>1, <3>2, CreateFacts, CandidateStep
  <2>3. CASE cand # NoTree
    <3>1. /\ builder' = [at |-> "waiting", ino |-> cand.ino] /\ Kind = "target"
          /\ UNCHANGED <<cand, fresh>>
        BY <1>1, <2>3 DEF BuildOpen
    <3>2. cand.ino \in Inodes
        BY <2>3 DEF Trees
    <3> QED
        BY <2>1, <2>3, <3>1, <3>2, CandidateStep
  <2> QED
      BY <2>2, <2>3
<1>2. CASE BuildWrite
  <2>1. UNCHANGED <<quar, cargo, builder, owner, standing, pc, recovered, registry, result, removed>>
      BY <1>2 DEF BuildWrite, world, executors
  <2>2. CASE cand = NoTree
      BY <1>2, <2>1, <2>2, CreateFacts, CandidateStep DEF BuildWrite
  <2>3. CASE cand # NoTree
    <3>1. cand.root \in BOOLEAN
        BY <2>3 DEF Trees
    <3>2. \E r \in BOOLEAN : cand' = [cand EXCEPT !.root = r, !.deep = TRUE]
        BY <1>2, <2>3, <3>1 DEF BuildWrite
    <3>3. fresh' = fresh
        BY <1>2, <2>3 DEF BuildWrite
    <3> QED
        BY <2>1, <2>3, <3>2, <3>3, WriteStep
  <2> QED
      BY <2>2, <2>3
<1>3. CASE OwnerWrite
  <2>1. /\ UNCHANGED <<quar, fresh, cargo, builder, owner, standing, pc, recovered, registry, result,
                       removed>>
        /\ cand # NoTree /\ cand' = [cand EXCEPT !.deep = TRUE]
      BY <1>3 DEF OwnerWrite, world, executors
  <2>2. cand' \in Trees /\ cand'.ino = cand.ino
      BY <2>1 DEF Trees
  <2> QED
      BY <2>1, <2>2, CandidateStep
<1>4. CASE UserDelete
    BY <1>4, CandidateStep DEF UserDelete, world, executors
<1>5. CASE UserCreate
  <2>1. UNCHANGED <<quar, cargo, builder, owner, standing, pc, recovered, registry, result, removed>>
      BY <1>5 DEF UserCreate, world, executors
  <2> QED
      BY <1>5, <2>1, CreateFacts, CandidateStep DEF UserCreate
<1> QED
    BY <1>1, <1>2, <1>3, <1>4, <1>5

(* A build gets a lock that nobody holds, so not that of a tree an         *)
(* executor works on, and gives up its own.                                *)
LEMMA BuilderSteps ==
    ASSUME IInv, BuildLock \/ BuildEnd
    PROVE  IInv'
<1> USE DEF IInv, Types, tree, world, executors
<1>1. UNCHANGED <<cand, quar, fresh, owner, standing, pc, recovered, registry, result, removed>>
    BY DEF BuildLock, BuildEnd
<1>2. Types'
    BY <1>1 DEF BuildLock, BuildEnd
<1>3. /\ Exclusive' /\ OneTree' /\ CandidateIsWhole' /\ WorkInv' /\ OneEnd'
      /\ Standing' /\ NoStandingOwnerEvicted'
    BY <1>1 DEF Exclusive, OneTree, CandidateIsWhole, WorkInv, AtWork, OneEnd, Ended, Begun, Nowhere,
           At, Identity, Standing, NoStandingOwnerEvicted
<1>4. BuilderHolds' /\ NoBuilds'
    BY DEF BuildLock, BuildEnd, BuilderHolds, NoBuilds, Building
<1>5. CargoHeld'
  <2>1. \A e \in Executors : Locked(e) => Locked(e)'
    <3>1. /\ BuildLock => cargo[builder.ino] = Nobody /\ cargo' = [cargo EXCEPT ![builder.ino] = "builder"]
          /\ BuildEnd  => cargo[builder.ino] = "builder" /\ cargo' = [cargo EXCEPT ![builder.ino] = Nobody]
        BY DEF BuildLock, BuildEnd, BuilderHolds
    <3>2. Kind # "target" => ~Building'
        BY <1>4 DEF NoBuilds, Building
    <3> QED
        BY <3>1, <3>2, NobodyAssumption, TreeFacts DEF Locked
  <2>2. Building' => Building /\ builder'.ino = builder.ino
      BY DEF BuildLock, BuildEnd, Building
  <2> QED
      BY <1>1, <2>1, <2>2 DEF CargoHeld, Holds, At, Approved, Fresh
<1> QED
    BY <1>2, <1>3, <1>4, <1>5

\* Owners, the source, free space and leases touch no tree and no lock.
LEMMA AroundSteps ==
    ASSUME IInv,
           OwnerOpen \/ OwnerClose \/ SourceChanges \/ SpaceChanges \/ LeaseChanges \/ UNCHANGED vars
    PROVE  IInv'
<1>1. UNCHANGED <<cand, quar, fresh, cargo, builder, pc, recovered, registry, result, removed>>
    BY DEF OwnerOpen, OwnerClose, SourceChanges, SpaceChanges, LeaseChanges, vars, tree, executors
<1>2. standing' = {} \/ (standing' = standing /\ (owner => owner'))
    BY DEF OwnerOpen, OwnerClose, SourceChanges, SpaceChanges, LeaseChanges, vars
<1>3. Types' /\ Standing' /\ NoStandingOwnerEvicted'
    BY <1>2, <1>1 DEF IInv, Types, Standing, NoStandingOwnerEvicted
<1>4. /\ Exclusive' /\ OneTree' /\ CandidateIsWhole' /\ WorkInv' /\ OneEnd'
      /\ BuilderHolds' /\ NoBuilds'
    BY <1>1 DEF IInv, Exclusive, OneTree, CandidateIsWhole, WorkInv, AtWork, OneEnd, Ended, Begun,
           Nowhere, At, Identity, BuilderHolds, NoBuilds, Building
<1>5. CargoHeld'
    BY <1>1 DEF IInv, CargoHeld, Holds, Locked, At, Building
<1> QED
    BY <1>3, <1>4, <1>5 DEF IInv

\* The invariant is inductive.
LEMMA InductiveStep == IInv /\ [Next]_vars => IInv'
BY ExecutorStep, CandidateSteps, BuilderSteps, AroundSteps DEF Next, World

----------------------------------------------------------------------------

(* Safety.                                                                 *)

\* The invariant holds throughout, whatever executors and world do.
THEOREM Invariance == Spec => []IInv
BY InitHolds, InductiveStep, PTL DEF Spec

\* remove_dir_all never runs on a tree whose Cargo lock a build holds: the lock
\* taken at the candidate path is the one inside the renamed tree, and a recovered
\* quarantine is removed only after a snapshot saw nothing in it.
THEOREM BuildSafety == Spec => []BuildKeepsItsTree
<1>1. IInv => BuildKeepsItsTree
  <2> SUFFICES ASSUME IInv, NEW e \in Executors, pc[e] \in {"quarantined", "removing"},
                      builder.at = "building"
               PROVE  builder.ino # quar.ino
      BY DEF BuildKeepsItsTree
  <2>1. At(quar, Approved.ino)
      BY TreeFacts DEF IInv, Types, WorkInv, AtWork
  <2>2. Locked(e) \/ builder.ino # Approved.ino
      BY <2>1 DEF IInv, Types, CargoHeld, Holds, Building
  <2>3. Locked(e) => builder.ino # Approved.ino
      BY NobodyAssumption DEF IInv, BuilderHolds, Locked, Building
  <2> QED
      BY <2>1, <2>2, <2>3 DEF At
<1> QED
    BY <1>1, Invariance, PTL

\* A process that had files open in the ownership paths when the guard was taken,
\* and still has, ends the execution before the candidate is renamed.
THEOREM OwnerSafety == Spec => []NoStandingOwnerEvicted
<1>1. IInv => NoStandingOwnerEvicted
    BY DEF IInv
<1> QED
    BY <1>1, Invariance, PTL

\* A quarantine left by an earlier execution is removed only while it is whole and
\* unchanged since the approval.
THEOREM RecoverySafety == Spec => []RecoveredQuarantineIsIntact
<1>1. IInv => RecoveredQuarantineIsIntact
    BY DEF IInv, WorkInv, AtWork, RecoveredQuarantineIsIntact
<1> QED
    BY <1>1, Invariance, PTL

----------------------------------------------------------------------------
(* The refinement of ApprovedRemoval.                                      *)

\* The stage of the promise, in the words of the invariant.
LEMMA StageIs ==
    /\ Stage = "kept"   <=> At(cand, Approved.ino)
    /\ Stage = "moved"  <=> ~At(cand, Approved.ino) /\ At(quar, Approved.ino) /\ ~Begun
    /\ Stage = "broken" <=> ~At(cand, Approved.ino) /\ At(quar, Approved.ino) /\ Begun
    /\ Stage = "gone"   <=> Nowhere /\ Begun
    /\ Stage = "lost"   <=> Nowhere /\ ~Begun
BY DEF Stage, At, Begun, Nowhere

\* The stage depends on where the approved tree is and whether its removal began.
LEMMA StageStays ==
    ASSUME At(cand, Approved.ino)' <=> At(cand, Approved.ino),
           At(quar, Approved.ino)' <=> At(quar, Approved.ino),
           Begun' <=> Begun
    PROVE  Stage' = Stage
BY DEF Stage, At, Begun

\* An approval starts with its directory in place and no result.
LEMMA InitRefines == Init => Promise!AInit
BY TreeFacts, StageIs DEF Init, At, Promise!AInit

\* The rename moves the approved tree, or a stranger that nobody promised
\* anything about.
LEMMA QuarantineRefines ==
    ASSUME IInv, NEW e \in Executors, Quarantine(e)
    PROVE  Promise!Move \/ UNCHANGED Promise!avars
<1>1. CASE Fail(e)
  <2>1. UNCHANGED <<cand, quar, removed, result>>
      BY <1>1 DEF Fail, tree, ghosts
  <2> QED
      BY <2>1, StageStays DEF At, Begun, Promise!avars
<1>2. CASE ~Fail(e)
  <2>1. /\ cand # NoTree /\ quar = NoTree /\ quar' = cand /\ cand' = NoTree
        /\ UNCHANGED <<removed, result>>
      BY <1>2 DEF Quarantine, ghosts
  <2>2. CASE At(cand, Approved.ino)
    <3>1. ~Begun /\ ~Begun' /\ At(quar, Approved.ino)' /\ ~At(cand, Approved.ino)'
        BY <2>1, <2>2 DEF IInv, CandidateIsWhole, Begun, At, Approved, Fresh
    <3>2. Stage = "kept" /\ Stage' = "moved"
        BY <2>2, <3>1, StageIs DEF Stage, At, Begun
    <3> QED
        BY <2>1, <3>2 DEF Promise!Move
  <2>3. CASE ~At(cand, Approved.ino)
      BY <2>1, <2>3, StageStays DEF At, Begun, Approved, Fresh, Promise!avars
  <2> QED
      BY <2>2, <2>3
<1> QED
    BY <1>1, <1>2

\* A removal that begins takes apart the moved tree; one that is begun again
\* changes nothing of the promise.
LEMMA BeginRemovalRefines ==
    ASSUME IInv, IInv', NEW e \in Executors, BeginRemoval(e)
    PROVE  Promise!Break \/ UNCHANGED Promise!avars
<1>1. CASE Fail(e)
  <2>1. UNCHANGED <<cand, quar, removed, result>>
      BY <1>1 DEF Fail, tree, ghosts
  <2> QED
      BY <2>1, StageStays DEF At, Begun, Promise!avars
<1>2. CASE ~Fail(e)
  <2>1. /\ pc[e] = "quarantined" /\ pc'[e] = "removing"
        /\ UNCHANGED <<cand, result>>
      BY <1>2 DEF BeginRemoval, Goto, IInv, Types
  <2>2. At(quar, Approved.ino) /\ ~At(cand, Approved.ino)
      BY <2>1, TreeFacts DEF IInv, Types, WorkInv, AtWork, OneTree, At
  <2>3. (At(quar, Approved.ino) /\ Begun)'
      BY <2>1 DEF IInv, WorkInv, AtWork
  <2>4. Stage \in {"moved", "broken"} /\ Stage' = "broken"
      BY <2>1, <2>2, <2>3 DEF Stage, At, Begun, Approved, Fresh
  <2> QED
      BY <2>1, <2>4 DEF Promise!Break, Promise!avars
<1> QED
    BY <1>1, <1>2

\* The end of a removal is the end of the tree.
LEMMA EndRemovalRefines ==
    ASSUME IInv, NEW e \in Executors, EndRemoval(e)
    PROVE  Promise!Finish
<1>1. pc[e] = "removing" /\ quar' = NoTree /\ UNCHANGED <<cand, removed, result>>
    BY DEF EndRemoval, ghosts
<1>2. At(quar, Approved.ino) /\ Begun /\ ~At(cand, Approved.ino)
    BY <1>1 DEF IInv, WorkInv, AtWork, At, OneTree
<1>3. Stage = "broken" /\ Stage' = "gone"
    BY <1>1, <1>2 DEF Stage, At, Begun, Approved, Fresh
<1> QED
    BY <1>1, <1>3 DEF Promise!Finish

\* A result is written for the first time, and for a tree that is gone.
LEMMA ReportRefines ==
    ASSUME IInv, NEW e \in Executors, Report(e)
    PROVE  Promise!Publish \/ UNCHANGED Promise!avars
<1>1. UNCHANGED <<cand, quar, removed>>
    BY DEF Report, Fail, tree, ghosts
<1>2. Stage' = Stage
    BY <1>1, StageStays DEF At, Begun
<1>3. CASE Fail(e)
    BY <1>2, <1>3 DEF Fail, Promise!avars
<1>4. CASE ~Fail(e)
  <2>1. pc[e] = "removed" /\ result' = TRUE
      BY <1>4 DEF Report
  <2>2. Begun /\ Nowhere /\ ~result
      BY <2>1 DEF IInv, OneEnd, Ended
  <2>3. Stage = "gone"
      BY <2>2 DEF Stage, Nowhere, At, Begun
  <2> QED
      BY <1>2, <2>1, <2>2, <2>3 DEF Promise!Publish
<1> QED
    BY <1>3, <1>4

\* Everything else an executor does is invisible to the promise.
LEMMA OtherStepsStutter ==
    ASSUME NEW e \in Executors,
           \/ Preflight(e) \/ TakeRegistry(e) \/ Protected(e) \/ GuardedOwnership(e)
           \/ TakeCargo(e) \/ CargoUnavailable(e) \/ Revalidate(e)
           \/ PreQuarantineOwnership(e) \/ VerifyRenamed(e) \/ RemovalFails(e) \/ Crash(e)
    PROVE  UNCHANGED Promise!avars
<1>1. UNCHANGED <<cand, quar, removed, result>>
    BY DEF Preflight, TakeRegistry, Protected, GuardedOwnership, TakeCargo, CargoUnavailable,
           Revalidate, PreQuarantineOwnership, VerifyRenamed, RemovalFails, Crash, Fail, Proceed,
           tree, ghosts
<1> QED
    BY <1>1, StageStays DEF At, Begun, Promise!avars

\* The world can delete the approved tree from its path, and cannot bring it back.
LEMMA WorldRefines ==
    ASSUME IInv, World
    PROVE  Promise!Lose \/ UNCHANGED Promise!avars
<1>1. UNCHANGED <<quar, removed, result>>
    BY DEF World, BuildOpen, BuildLock, BuildWrite, BuildEnd, OwnerOpen, OwnerClose, OwnerWrite,
           UserDelete, UserCreate, SourceChanges, SpaceChanges, LeaseChanges, tree, executors
<1>2. CASE UserDelete /\ At(cand, Approved.ino)
  <2>1. cand' = NoTree /\ ~Begun /\ ~At(quar, Approved.ino)
      BY <1>2 DEF UserDelete, IInv, CandidateIsWhole, OneTree, At
  <2>2. Stage = "kept" /\ Stage' = "lost"
      BY <1>1, <1>2, <2>1 DEF Stage, At, Begun, Approved, Fresh
  <2> QED
      BY <1>1, <2>2 DEF Promise!Lose
<1>3. CASE ~(UserDelete /\ At(cand, Approved.ino))
  <2>1. Create => ~At(cand, Approved.ino)'
      BY CreateFacts DEF IInv, Types, At, Approved, Fresh
  <2>2. At(cand, Approved.ino)' <=> At(cand, Approved.ino)
    <3>1. CASE cand = NoTree
      <4>1. Create \/ cand' = cand
          BY <1>3, <3>1 DEF World, BuildOpen, BuildLock, BuildWrite, BuildEnd, OwnerOpen, OwnerClose,
                 OwnerWrite, UserDelete, UserCreate, SourceChanges, SpaceChanges, LeaseChanges, tree
      <4> QED
          BY <2>1, <3>1, <4>1 DEF At
    <3>2. CASE cand # NoTree /\ (BuildWrite \/ OwnerWrite)
      <4>1. cand \in Trees
          BY <3>2 DEF IInv, Types
      <4>2. cand' \in Trees /\ cand'.ino = cand.ino
          BY <3>2, <4>1 DEF BuildWrite, OwnerWrite, Trees
      <4> QED
          BY <3>2, <4>2, NoTreeAssumption DEF At, Approved, Fresh
    <3>3. CASE UserDelete
        BY <1>3, <3>3 DEF UserDelete, At
    <3>4. CASE cand # NoTree /\ ~(BuildWrite \/ OwnerWrite \/ UserDelete)
      <4>1. cand' = cand
          BY <3>4 DEF World, BuildOpen, BuildLock, BuildEnd, OwnerOpen, OwnerClose, UserCreate,
                 SourceChanges, SpaceChanges, LeaseChanges, tree
      <4> QED
          BY <4>1 DEF At, Approved, Fresh
    <3> QED
        BY <3>1, <3>2, <3>3, <3>4
  <2>3. At(quar, Approved.ino)' <=> At(quar, Approved.ino)
      BY <1>1 DEF At, Approved, Fresh
  <2>4. Begun' <=> Begun
      BY <1>1 DEF Begun, Approved, Fresh
  <2> QED
      BY <1>1, <2>2, <2>3, <2>4, StageStays DEF Promise!avars
<1> QED
    BY <1>2, <1>3

\* Every step is one of the promise or invisible to it.
LEMMA StepRefines == IInv /\ IInv' /\ [Next]_vars => [Promise!ANext]_(Promise!avars)
<1> SUFFICES ASSUME IInv, IInv', [Next]_vars PROVE Promise!ANext \/ UNCHANGED Promise!avars
    OBVIOUS
<1>1. ASSUME NEW e \in Executors, Preflight(e) \/ Advance(e) \/ RemovalFails(e) \/ Crash(e)
      PROVE  Promise!ANext \/ UNCHANGED Promise!avars
    BY <1>1, QuarantineRefines, BeginRemovalRefines, EndRemovalRefines, ReportRefines,
       OtherStepsStutter DEF Advance, Promise!ANext
<1>2. CASE World
    BY <1>2, WorldRefines DEF Promise!ANext
<1>3. CASE UNCHANGED vars
    BY <1>3, StageStays DEF vars, At, Begun, Promise!avars
<1> QED
    BY <1>1, <1>2, <1>3 DEF Next

\* Together, in any interleaving with each other, builds, users and crashes, the
\* executors of an approval implement its promise: the directory leaves its path as
\* a whole, is taken apart only in the quarantine, never comes back, and is
\* reported removed once and only after the last of it is gone.
THEOREM Implementation == Spec => ImplementsApprovedRemoval
<1>1. Spec => Init /\ [][Next]_vars
    BY DEF Spec
<1> QED
    BY <1>1, InitRefines, StepRefines, Invariance, PTL DEF ImplementsApprovedRemoval, Promise!ASpec
=============================================================================
