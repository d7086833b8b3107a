------------------------ MODULE RepositoryCleanupProofs ------------------------
(***************************************************************************)
(* What a cleanup of a repository removes, it removes as it last looked at *)
(* it: worktrees and generated directories, for any of them, however they  *)
(* nest, and whatever happens around the run.                              *)
(*                                                                         *)
(* Worktrees (WorktreeInv): heads only grow, so a worktree with the head   *)
(* of the plan has had no commit since and has only grown older (PlanInv); *)
(* what else the plan or the revalidation found is unchanged unless the    *)
(* worktree is marked late (LookInv).                                      *)
(*                                                                         *)
(* Directories (DirectoryInv): what is not marked unseen has only grown    *)
(* older since it was judged (JudgedInv).  A reconciliation only takes     *)
(* deletions back, and leaves nothing to be kept inside anything to be     *)
(* removed.  reconcile_structural_cleanup_authority repeats its scan until *)
(* nothing changes; the model does it in one step, which is enough because *)
(* "lies below" is transitive (TreeAssumption).                            *)
(*                                                                         *)
(* And a run that nothing disturbs leaves nothing that it should remove:   *)
(* RunInv and ThoroughInv say at each point where a worktree that is due,  *)
(* or a directory that is doomed, still is before the run.                 *)
(***************************************************************************)
EXTENDS RepositoryCleanup, TLAPS

----------------------------------------------------------------------------
(* The plan of a pass, as far as directories enclose each other.           *)

\* What the plan wants to stay.
Kept(dec) == {d \in Dirs : dec[d].action \in {"Skip", "Sweep"}}

\* No directory to be deleted has a directory to be kept in it.
Closed(dec) == \A d \in Dirs : dec[d].action = "Delete" => Tree[d] \cap Kept(dec) = {}

\* The decisions are records of the four fields.
Record(r) == r = [action |-> r.action, class |-> r.class, work |-> r.work, refused |-> r.refused]

\* A plan is made of such records.
Records(dec) == \A d \in Dirs : Record(dec[d])

\* The stages that rely on a reconciled plan.
Relying == {"measure", "confirm", "delete", "sweep", "worktrees", "done"}

\* The plan a stage relies on is closed.
NothingKeptIsEnclosed == stage \in Relying => Closed(decision)

\* This is inductive together with the form of the decisions.
ClosureInv == Records(decision) /\ NothingKeptIsEnclosed

----------------------------------------------------------------------------
(* The plan is closed.                                                     *)

(* One reconciliation is the fixed point of the loop in the code: it       *)
(* leaves nothing to be kept inside anything to be deleted.                *)
LEMMA StructuralCloses ==
    ASSUME NEW dec, Records(dec)
    PROVE  Closed(Structural(dec)) /\ Records(Structural(dec))
<1> DEFINE after == Structural(dec)
<1>1. ASSUME NEW d \in Dirs
      PROVE  /\ Record(after[d])
             /\ \/ after[d] = dec[d] /\ ~(dec[d].action = "Delete" /\ Tree[d] \cap Retained(dec) # {})
                \/ after[d].action = "Skip" /\ dec[d].action = "Delete" /\ Tree[d] \cap Retained(dec) # {}
  <2>1. CASE dec[d].action = "Delete" /\ Tree[d] \cap Retained(dec) # {}
    <3>1. after[d] = [dec[d] EXCEPT !.action = "Skip"]
        BY <2>1 DEF Structural
    <3>2. Record(dec[d])
        BY DEF Records
    <3>3. after[d] = [action |-> "Skip", class |-> dec[d].class, work |-> dec[d].work,
                      refused |-> dec[d].refused]
        BY <3>1, <3>2 DEF Record
    <3> QED
        BY <3>3, <2>1 DEF Record
  <2>2. CASE ~(dec[d].action = "Delete" /\ Tree[d] \cap Retained(dec) # {})
    <3>1. after[d] = dec[d]
        BY <2>2 DEF Structural
    <3> QED
        BY <3>1, <2>2 DEF Records
  <2> QED
      BY <2>1, <2>2
<1>2. ASSUME NEW d \in Dirs, after[d].action = "Delete",
             NEW e \in Dirs, e \in Tree[d], after[e].action \in {"Skip", "Sweep"}
      PROVE  FALSE
  <2>1. dec[d].action = "Delete" /\ Tree[d] \cap Retained(dec) = {}
      BY <1>1, <1>2
  <2>2. CASE dec[e].action \in {"Skip", "Sweep"}
      BY <1>2, <2>1, <2>2 DEF Retained
  <2>3. CASE dec[e].action \notin {"Skip", "Sweep"}
    <3>1. Tree[e] \cap Retained(dec) # {}
        BY <1>1, <1>2, <2>3
    <3>2. Tree[e] \subseteq Tree[d]
        BY <1>2, TreeAssumption DEF Places
    <3> QED
        BY <2>1, <3>1, <3>2
  <2> QED
      BY <2>2, <2>3
<1> QED
    BY <1>1, <1>2 DEF Closed, Kept, Records

(* A refused measurement makes a record of the same fields.                *)
LEMMA AuthorizedRecords ==
    ASSUME NEW dec, NEW rem, NEW m, Records(dec)
    PROVE  Records(Authorized(dec, rem, m))
<1> SUFFICES ASSUME NEW d \in Dirs PROVE Record(Authorized(dec, rem, m)[d])
    BY DEF Records
<1>1. Record(dec[d])
    BY DEF Records
<1>2. Record([dec[d] EXCEPT !.action = "Skip"])
    BY <1>1 DEF Record
<1>3. Authorized(dec, rem, m)[d] \in {dec[d], [dec[d] EXCEPT !.action = "Skip"]}
    BY DEF Authorized
<1> QED
    BY <1>1, <1>2, <1>3

(* Both reconciliations together close the plan.                           *)
LEMMA ReconcileCloses ==
    ASSUME NEW dec, NEW rem, NEW m, Records(dec), Reconcile(dec, rem, m)
    PROVE  Closed(decision') /\ Records(decision')
<1>1. Records(Authorized(dec, rem, m))
    BY AuthorizedRecords
<1>2. decision' = Structural(Authorized(dec, rem, m))
    BY DEF Reconcile
<1> QED
    BY <1>1, <1>2, StructuralCloses

(* A decision of the scan is a record of the four fields.                  *)
LEMMA JudgeRecords == \A d \in Dirs : Record(Judge(d)) /\ Record(NoCandidate)
    BY DEF Judge, NoCandidate, Record

(* No step breaks the closure of the plan.                                 *)
LEMMA ClosureStep == ClosureInv /\ [CleanupNext]_cleanupVars => ClosureInv'
<1> SUFFICES ASSUME ClosureInv, [CleanupNext]_cleanupVars PROVE ClosureInv'
    OBVIOUS
<1>1. ASSUME NEW w \in Checkouts, Scan(w) PROVE ClosureInv'
  <2>1. stage' \notin Relying
      BY <1>1 DEF Scan, Relying
  <2>2. ASSUME NEW d \in Dirs PROVE Record(decision'[d])
    <3>1. decision'[d] \in {Judge(d), NoCandidate, decision[d]}
        BY <1>1 DEF Scan
    <3> QED
        BY <3>1, JudgeRecords DEF ClosureInv, Records
  <2> QED
      BY <2>1, <2>2 DEF ClosureInv, Records, NothingKeptIsEnclosed
<1>2. CASE PlanMeasurement
  <2>1. decision' = Structural(decision)
      BY <1>2 DEF PlanMeasurement
  <2> QED
      BY <2>1, StructuralCloses DEF ClosureInv, NothingKeptIsEnclosed
<1>3. CASE EndMeasurement
  <2>1. Reconcile(decision, removal, measured)
      BY <1>3 DEF EndMeasurement
  <2> QED
      BY <2>1, ReconcileCloses DEF ClosureInv, NothingKeptIsEnclosed
<1>4. CASE Carry
  <2>1. Reconcile(Structural(decision), StillRemoved(decision, removal), CarriedByIdentity)
      BY <1>4 DEF Carry
  <2>2. Records(Structural(decision))
      BY StructuralCloses DEF ClosureInv
  <2> QED
      BY <2>1, <2>2, ReconcileCloses DEF ClosureInv, NothingKeptIsEnclosed
<1>5. ASSUME NEW ok \in BOOLEAN, Remeasure(ok) PROVE ClosureInv'
  <2>1. Reconcile(decision, removal, measured')
      BY <1>5 DEF Remeasure
  <2> QED
      BY <2>1, ReconcileCloses DEF ClosureInv, NothingKeptIsEnclosed
<1>6. ASSUME decision' = decision, stage \in Relying \/ stage' \notin Relying
      PROVE  ClosureInv'
    BY <1>6 DEF ClosureInv, Records, NothingKeptIsEnclosed, Closed, Kept
<1>7. ASSUME NEW ok \in BOOLEAN, CaptureRoots(ok) PROVE ClosureInv'
    BY <1>6, <1>7 DEF CaptureRoots, judgement, Relying
<1>8. ASSUME NEW ok \in BOOLEAN, CapturePass(ok) PROVE ClosureInv'
    BY <1>6, <1>8 DEF CapturePass, judgement, Relying
<1>9. ASSUME NEW d \in Dirs, NEW ok \in BOOLEAN, Measure(d, ok) PROVE ClosureInv'
    BY <1>6, <1>9 DEF Measure, Relying
<1>10. ASSUME NEW d \in Dirs,
              DeleteDirectory(d) \/ KeepDirectory(d) \/ LocksTimeOut(d) \/ SweepDirectory(d)
       PROVE  ClosureInv'
  <2>1. decision' = decision /\ stage \in Relying
      BY <1>10 DEF DeleteDirectory, KeepDirectory, LocksTimeOut, SweepDirectory, judgement, Relying
  <2> QED
      BY <1>6, <2>1
<1>11. CASE EndDeletions \/ EndSweeps
    BY <1>6, <1>11 DEF EndDeletions, EndSweeps, judgement, Relying
<1>12. ASSUME NEW w \in Checkouts, RemoveCheckout(w) PROVE ClosureInv'
    BY <1>6, <1>12 DEF RemoveCheckout, judgement, Relying
<1>13. CASE Surroundings
  <2>1. Event
      BY <1>13 DEF Surroundings, Write, Discard, Rebuild, Track, EditSource, EnterOrLeave,
                   LeaseOrRelease, DaysPass
  <2> QED
      BY <1>6, <2>1 DEF Event, judgement, progress
<1>14. CASE UNCHANGED cleanupVars
    BY <1>6, <1>14 DEF cleanupVars, judgement, progress
<1> QED
    BY <1>1, <1>2, <1>3, <1>4, <1>5, <1>7, <1>8, <1>9, <1>10, <1>11, <1>12, <1>13, <1>14
    DEF CleanupNext, CleanupRun

----------------------------------------------------------------------------
(* The invariant of the directories.                                       *)

\* Every variable the argument is about has values of its kind.
DirectoryTypes ==
    /\ settings \in Settings
    /\ dir \in [Dirs -> Directories]
    /\ age \in [Checkouts -> 0 .. 2]
    /\ there \subseteq Places /\ leases \subseteq Places
    /\ removal \subseteq Checkouts
    /\ events \in Nat

\* What exists lies in places that exist.
Grounded == \A x \in there, y \in Places : x \in Tree[y] => y \in there

\* A worktree that goes as a whole takes nothing along that is to be kept.
RemovalsAreClosed == stage \in Relying => \A w \in removal : Tree[w] \cap Kept(decision) = {}

\* The decision on a directory is one its present state allows.
Judged(d) ==
    /\ decision[d].action \in {"Skip", "Sweep", "Delete", "ReportOnly"}
    /\ decision[d].action = "ReportOnly" => dir[d].kind = "ReportOnly"
    /\ decision[d].action = "Delete" => Expendable(d)

\* The directories whose decisions still count: none before the first scan, and
\* after the sweeps those in worktrees to be removed.
Scanned(d) ==
    /\ stage \notin {"capture", "done"}
    /\ stage = "plan" => HomeOf[d] \notin queue
    /\ stage \in {"sweep", "worktrees"} => InRemoval(d, removal)

\* Directories that stand as the run last scanned them.
Standing == (Dirs \cap there) \ unseen

\* Those are judged by what they still are.
JudgedInv == \A d \in Standing : Scanned(d) => Judged(d)

\* What goes alone was measured under its present identity.
MeasuredInv ==
    stage \in {"confirm", "delete"} =>
        \A d \in Standing : decision[d].action = "Delete" /\ ~InRemoval(d, removal)
                            => measured[d] = Identity(d)

\* What the pass works through.
QueueInv ==
    /\ stage = "delete" => queue \subseteq Deletions
    /\ stage = "worktrees" => queue \subseteq removal

\* The snapshot of the pass shows whoever stayed since in a worktree it touches.
SnapshotInv ==
    stage \in {"delete", "sweep", "worktrees"} =>
        /\ ownership.complete
        /\ \A w \in OwnershipPaths : Tree[w] \cap inhabited \subseteq ownership.held

\* The inductive invariant of the directories.
DirectoryInv ==
    /\ ClosureInv /\ DirectoryTypes /\ Grounded /\ RemovalsAreClosed /\ JudgedInv
    /\ MeasuredInv /\ QueueInv /\ SnapshotInv

----------------------------------------------------------------------------
(* Every step keeps it.                                                    *)

(* What a reconciliation makes of a decision.                              *)
LEMMA StructuralKeeps ==
    ASSUME NEW dec, Records(dec), NEW d \in Dirs
    PROVE  \/ Structural(dec)[d] = dec[d]
           \/ dec[d].action = "Delete" /\ Structural(dec)[d].action = "Skip"
<1>1. Record(dec[d])
    BY DEF Records
<1>2. [dec[d] EXCEPT !.action = "Skip"].action = "Skip"
    BY <1>1 DEF Record
<1> QED
    BY <1>2 DEF Structural

(* What a missing measurement makes of a decision.                         *)
LEMMA AuthorizedKeeps ==
    ASSUME NEW dec, NEW rem, NEW m, Records(dec), NEW d \in Dirs
    PROVE  \/ Authorized(dec, rem, m)[d] = dec[d]
           \/ dec[d].action = "Delete" /\ Authorized(dec, rem, m)[d].action = "Skip"
<1>1. Record(dec[d])
    BY DEF Records
<1>2. [dec[d] EXCEPT !.action = "Skip"].action = "Skip"
    BY <1>1 DEF Record
<1> QED
    BY <1>2 DEF Authorized

(* A worktree with nothing retained in it has nothing kept in it after.    *)
LEMMA NothingArises ==
    ASSUME NEW dec, Records(dec), NEW w \in Places, Tree[w] \cap Retained(dec) = {}
    PROVE  Tree[w] \cap Retained(Structural(dec)) = {} /\ Tree[w] \cap Kept(Structural(dec)) = {}
<1>1. ASSUME NEW d \in Dirs, d \in Tree[w] PROVE Structural(dec)[d] = dec[d]
  <2>1. Tree[d] \subseteq Tree[w]
      BY <1>1, TreeAssumption
  <2> QED
      BY <2>1 DEF Structural
<1> QED
    BY <1>1 DEF Retained, Kept

(* Both together only take deletions and removals back, and what is left   *)
(* of the removals has nothing to be kept in it.                           *)
LEMMA ReconcileKeeps ==
    ASSUME NEW dec, NEW rem, NEW m, Records(dec), rem \subseteq Checkouts, Reconcile(dec, rem, m)
    PROVE  /\ removal' \subseteq rem
           /\ \A w \in removal' : Tree[w] \cap Kept(decision') = {}
           /\ \A d \in Dirs : \/ decision'[d] = dec[d]
                              \/ dec[d].action = "Delete" /\ decision'[d].action = "Skip"
<1> DEFINE authorized == Authorized(dec, rem, m)
<1>1. Records(authorized)
    BY AuthorizedRecords
<1>2. decision' = Structural(authorized) /\ removal' = StillRemoved(authorized, rem)
    BY DEF Reconcile
<1>3. \A w \in removal' : Tree[w] \cap Kept(decision') = {}
    BY <1>1, <1>2, NothingArises DEF StillRemoved, Places
<1>4. ASSUME NEW d \in Dirs
      PROVE  \/ decision'[d] = dec[d]
             \/ dec[d].action = "Delete" /\ decision'[d].action = "Skip"
    BY <1>1, <1>2, StructuralKeeps, AuthorizedKeeps
<1> QED
    BY <1>2, <1>3, <1>4 DEF StillRemoved

(* A decision of the scan fits what it is about.                           *)
LEMMA JudgeFits ==
    ASSUME NEW d \in Dirs, DirectoryTypes
    PROVE  /\ Judge(d).action \in {"Skip", "Sweep", "Delete", "ReportOnly"}
           /\ Judge(d).action = "ReportOnly" => dir[d].kind = "ReportOnly"
           /\ Judge(d).action = "Delete" => Expendable(d)
<1>1. Judge(d).action = ActionOn(d)
    BY DEF Judge
<1>2. ActionOn(d) = "Delete" => Condemned(d)
    BY DEF ActionOn
<1>3. Condemned(d) => Expendable(d)
    BY DEF Condemned, OwnerFree, OwnerFreeCandidate, Expendable
<1>4. /\ ActionOn(d) \in {"Skip", "Sweep", "Delete", "ReportOnly"}
      /\ ActionOn(d) = "ReportOnly" => dir[d].kind = "ReportOnly"
    BY DEF ActionOn
<1> QED
    BY <1>1, <1>2, <1>3, <1>4

(* The invariant holds before the first capture.                           *)
LEMMA DirectoryStarts == ASSUME NEW o \in Openings, CleanupFrom(o) PROVE DirectoryInv
<1>1. DirectoryTypes
  <2>1. o \in [settings : Settings, dir : [Dirs -> Directories], age : [Checkouts -> 0 .. 2],
               tidy : SUBSET Checkouts, people : SUBSET Places, leases : SUBSET Places]
      BY OpeningsAssumption
  <2> QED
      BY <2>1 DEF CleanupFrom, DirectoryTypes
<1>2. stage = "capture" /\ there = Places /\ decision = [d \in Dirs |-> NoCandidate]
    BY DEF CleanupFrom
<1>3. ClosureInv
    BY <1>2 DEF ClosureInv, Records, Record, NoCandidate, NothingKeptIsEnclosed, Relying
<1> QED
    BY <1>1, <1>2, <1>3 DEF DirectoryInv, Grounded, RemovalsAreClosed, JudgedInv, Scanned, MeasuredInv,
           QueueInv, SnapshotInv, Relying

(* What does not concern the directories themselves keeps what is known.   *)
LEMMA JudgementStays ==
    ASSUME DirectoryInv, ClosureInv',
           UNCHANGED <<surroundings, judgement, ownership, inhabited>>, unseen' = unseen,
           stage' \in Relying => stage \in Relying,
           \A d \in Standing : Scanned(d)' => Scanned(d),
           stage' \in {"confirm", "delete"} => stage \in {"confirm", "delete"},
           stage' \in {"delete", "sweep", "worktrees"} => stage \in {"delete", "sweep", "worktrees"},
           QueueInv'
    PROVE  DirectoryInv'
<1> USE DEF DirectoryInv, surroundings, judgement
<1>1. DirectoryTypes'
    BY DEF DirectoryTypes
<1>2. Grounded' /\ RemovalsAreClosed'
    BY DEF Grounded, RemovalsAreClosed, Kept
<1>3. JudgedInv'
  <2>1. Standing' = Standing
      BY DEF Standing
  <2>2. \A d \in Dirs : Judged(d) => Judged(d)'
      BY DEF Judged, Expendable, Recent, SampledAge, Window, Windows
  <2> QED
      BY <2>1, <2>2 DEF JudgedInv, Standing
<1>4. MeasuredInv'
    BY DEF MeasuredInv, Standing, Identity, InRemoval
<1>5. SnapshotInv'
    BY DEF SnapshotInv, OwnershipPaths, Deletions
<1> QED
    BY <1>1, <1>2, <1>3, <1>4, <1>5

(* An inventory of a directory touches nothing the argument is about.      *)
LEMMA MeasureKeeps ==
    ASSUME DirectoryInv, ClosureInv', NEW d \in Dirs, NEW ok \in BOOLEAN, Measure(d, ok)
    PROVE  DirectoryInv'
<1> USE DEF DirectoryInv
<1>1. /\ stage = "measure" /\ stage' = "measure"
      /\ UNCHANGED <<surroundings, decision, removal, inhabited, unseen>>
    BY DEF Measure
<1>2. DirectoryTypes' /\ Grounded' /\ RemovalsAreClosed'
    BY <1>1 DEF DirectoryTypes, surroundings, Grounded, RemovalsAreClosed, Kept
<1>3. JudgedInv'
    BY <1>1 DEF JudgedInv, Standing, Scanned, Judged, Expendable, Recent, SampledAge, Window, Windows,
                surroundings
<1> QED
    BY <1>1, <1>2, <1>3 DEF MeasuredInv, QueueInv, SnapshotInv

(* Steps that only go on to another directory or stage.                    *)
LEMMA Bookkeeping ==
    ASSUME DirectoryInv, ClosureInv',
           \/ \E d \in Dirs : KeepDirectory(d) \/ LocksTimeOut(d)
           \/ EndDeletions \/ EndSweeps \/ UNCHANGED cleanupVars
    PROVE  DirectoryInv'
<1>1. CASE \E d \in Dirs : KeepDirectory(d) \/ LocksTimeOut(d)
  <2>1. /\ stage = "delete" /\ stage' \in {"delete", "done"} /\ queue' \subseteq queue
        /\ UNCHANGED <<surroundings, judgement, ownership, inhabited, unseen>>
      BY <1>1 DEF KeepDirectory, LocksTimeOut, Defer
  <2>2. QueueInv'
      BY <2>1 DEF DirectoryInv, QueueInv, Deletions, judgement
  <2> QED
      BY <2>1, <2>2, JudgementStays DEF Scanned, Relying
<1>2. CASE EndDeletions
  <2>1. /\ stage = "delete" /\ stage' = "sweep"
        /\ UNCHANGED <<surroundings, judgement, ownership, inhabited, unseen>>
      BY <1>2 DEF EndDeletions
  <2> QED
      BY <2>1, JudgementStays DEF Scanned, Relying, QueueInv
<1>3. CASE EndSweeps
  <2>1. /\ stage = "sweep" /\ stage' = "worktrees" /\ queue' = removal
        /\ UNCHANGED <<surroundings, judgement, ownership, inhabited, unseen>>
      BY <1>3 DEF EndSweeps
  <2>2. QueueInv'
      BY <2>1 DEF QueueInv, judgement
  <2>3. ASSUME NEW d \in Dirs, Scanned(d)' PROVE Scanned(d)
      BY <2>1, <2>3 DEF Scanned, InRemoval, judgement
  <2> QED
      BY <2>1, <2>2, <2>3, JudgementStays DEF Relying, Standing
<1>4. CASE UNCHANGED cleanupVars
  <2>1. UNCHANGED <<surroundings, judgement, progress, inhabited, unseen>>
      BY <1>4 DEF cleanupVars
  <2>2. QueueInv'
      BY <2>1 DEF DirectoryInv, QueueInv, Deletions, judgement, progress
  <2>3. ASSUME NEW d \in Dirs, Scanned(d)' PROVE Scanned(d)
      BY <2>1, <2>3 DEF Scanned, InRemoval, judgement, progress
  <2> QED
      BY <2>1, <2>2, <2>3, JudgementStays DEF Relying, Standing, progress
<1> QED
    BY <1>1, <1>2, <1>3, <1>4

(* A snapshot is taken of all worktrees the pass touches.                  *)
LEMMA CaptureKeeps ==
    ASSUME DirectoryInv, ClosureInv', NEW ok \in BOOLEAN, CaptureRoots(ok) \/ CapturePass(ok)
    PROVE  DirectoryInv'
<1> USE DEF DirectoryInv
<1>1. /\ UNCHANGED <<surroundings, judgement, unseen>>
      /\ \/ stage = "capture" /\ stage' = "plan" /\ queue' = Checkouts
         \/ stage = "confirm" /\ stage' = "done"
         \/ /\ stage = "confirm" /\ stage' = "delete" /\ queue' = Deletions
            /\ ownership' = SnapshotOf(OwnershipPaths, TRUE) /\ inhabited' = people
    BY DEF CaptureRoots, CapturePass
<1>2. DirectoryTypes' /\ Grounded'
    BY <1>1 DEF DirectoryTypes, surroundings, judgement, Grounded
<1>3. RemovalsAreClosed'
    BY <1>1 DEF RemovalsAreClosed, Kept, Relying, judgement
<1>4. JudgedInv'
  <2>1. ASSUME NEW d \in Standing, Scanned(d)' PROVE Judged(d)
    <3>1. HomeOf[d] \in Checkouts
        BY HomeAssumption DEF Standing
    <3> QED
        BY <1>1, <2>1, <3>1 DEF Scanned, JudgedInv
  <2> QED
      BY <1>1, <2>1 DEF JudgedInv, Standing, Judged, Expendable, Recent, SampledAge, Window, Windows,
                        surroundings, judgement
<1>5. MeasuredInv'
    BY <1>1 DEF MeasuredInv, Standing, Identity, InRemoval, surroundings, judgement
<1>6. QueueInv'
    BY <1>1 DEF QueueInv, Deletions, judgement
<1>7. SnapshotInv'
  <2>1. ASSUME stage' \in {"delete", "sweep", "worktrees"}
        PROVE  /\ ownership' = SnapshotOf(OwnershipPaths, TRUE) /\ inhabited' = people
               /\ OwnershipPaths' = OwnershipPaths
      BY <1>1, <2>1 DEF OwnershipPaths, Deletions, judgement
  <2> QED
      BY <2>1 DEF SnapshotInv, SnapshotOf
<1> QED
    BY <1>2, <1>3, <1>4, <1>5, <1>6, <1>7

(* A scan judges the directories of a worktree by what they are now.       *)
LEMMA ScanKeeps ==
    ASSUME DirectoryInv, ClosureInv', NEW w \in Checkouts, Scan(w)
    PROVE  DirectoryInv'
<1> USE DEF DirectoryInv
<1>1. /\ stage \in {"plan", "refresh"} /\ stage' = stage /\ queue' = queue \ {w}
      /\ unseen' = unseen \ DirsOf(w) /\ removal' \subseteq removal \cup {w}
      /\ UNCHANGED surroundings
    BY DEF Scan
<1>2. DirectoryTypes' /\ Grounded' /\ RemovalsAreClosed'
    BY <1>1 DEF DirectoryTypes, surroundings, Grounded, RemovalsAreClosed, Relying
<1>3. JudgedInv'
  <2>1. ASSUME NEW d \in Dirs PROVE Judged(d)' <=>
             /\ decision'[d].action \in {"Skip", "Sweep", "Delete", "ReportOnly"}
             /\ decision'[d].action = "ReportOnly" => dir[d].kind = "ReportOnly"
             /\ decision'[d].action = "Delete" => Expendable(d)
      BY <1>1 DEF Judged, Expendable, Recent, SampledAge, Window, Windows, surroundings
  <2>2. ASSUME NEW d \in Dirs, d \in there, d \notin unseen', Scanned(d)' PROVE Judged(d)'
    <3>1. CASE HomeOf[d] = w
      <4>1. w \in there
          BY <2>2, <3>1, HomeAssumption DEF Grounded, Places
      <4>2. d \in Candidates(w)
          BY <2>2, <3>1, <4>1 DEF Candidates, DirsOf
      <4>3. decision'[d] = Judge(d)
          BY <4>2 DEF Scan
      <4> QED
          BY <2>1, <4>3, JudgeFits
    <3>2. CASE HomeOf[d] # w
      <4>1. decision'[d] = decision[d]
          BY <3>2 DEF Scan, Candidates, DirsOf
      <4>2. d \in Standing /\ Scanned(d)
          BY <1>1, <2>2, <3>2 DEF Standing, DirsOf, Scanned
      <4> QED
          BY <2>1, <4>1, <4>2 DEF JudgedInv, Judged
    <3> QED
        BY <3>1, <3>2
  <2> QED
      BY <1>1, <2>2 DEF JudgedInv, Standing, surroundings
<1> QED
    BY <1>1, <1>2, <1>3 DEF MeasuredInv, QueueInv, SnapshotInv

(* What a reconciliation leaves, the directories being as they were.       *)
LEMMA ReconciledJudged ==
    ASSUME DirectoryInv, UNCHANGED <<surroundings, unseen>>, removal' \subseteq removal,
           stage \in {"plan", "measure", "refresh"}, stage = "plan" => queue = {},
           \A d \in Dirs : \/ decision'[d] = decision[d]
                           \/ decision[d].action = "Delete" /\ decision'[d].action = "Skip"
    PROVE  DirectoryTypes' /\ Grounded' /\ JudgedInv'
<1> USE DEF DirectoryInv
<1>1. DirectoryTypes' /\ Grounded'
    BY DEF DirectoryTypes, surroundings, Grounded
<1>2. \A d \in Standing : Scanned(d)
    BY DEF Scanned
<1>3. \A d \in Dirs : Judged(d) => Judged(d)'
    BY DEF Judged, Expendable, Recent, SampledAge, Window, Windows, surroundings
<1> QED
    BY <1>1, <1>2, <1>3 DEF JudgedInv, Standing, surroundings

(* The reconciliation before the measurement,                              *)
LEMMA PlanMeasurementKeeps == ASSUME DirectoryInv, ClosureInv', PlanMeasurement PROVE DirectoryInv'
<1>1. /\ stage = "plan" /\ queue = {} /\ stage' = "measure"
      /\ decision' = Structural(decision) /\ removal' = StillRemoved(decision, removal)
      /\ UNCHANGED <<surroundings, unseen>>
    BY DEF PlanMeasurement
<1>2. Records(decision) /\ removal' \subseteq removal /\ removal' \subseteq Places
    BY <1>1 DEF DirectoryInv, ClosureInv, DirectoryTypes, StillRemoved, Places
<1>3. \A d \in Dirs : \/ decision'[d] = decision[d]
                      \/ decision[d].action = "Delete" /\ decision'[d].action = "Skip"
    BY <1>1, <1>2, StructuralKeeps
<1>4. RemovalsAreClosed'
    BY <1>1, <1>2, NothingArises DEF RemovalsAreClosed, StillRemoved
<1> QED
    BY <1>1, <1>2, <1>3, <1>4, ReconciledJudged
    DEF DirectoryInv, MeasuredInv, QueueInv, SnapshotInv

(* and the one after it.                                                   *)
LEMMA EndMeasurementKeeps == ASSUME DirectoryInv, ClosureInv', EndMeasurement PROVE DirectoryInv'
<1>1. /\ stage = "measure" /\ stage' \in {"refresh", "done"} /\ Reconcile(decision, removal, measured)
      /\ UNCHANGED <<surroundings, unseen>>
    BY DEF EndMeasurement
<1>2. /\ removal' \subseteq removal
      /\ \A w \in removal' : Tree[w] \cap Kept(decision') = {}
      /\ \A d \in Dirs : \/ decision'[d] = decision[d]
                         \/ decision[d].action = "Delete" /\ decision'[d].action = "Skip"
    BY <1>1, ReconcileKeeps DEF DirectoryInv, ClosureInv, DirectoryTypes
<1> QED
    BY <1>1, <1>2, ReconciledJudged
    DEF DirectoryInv, RemovalsAreClosed, MeasuredInv, QueueInv, SnapshotInv

(* After the second plan what goes alone is measured: a worktree that is   *)
(* still to be removed after the first reconciliation survives the second, *)
(* so what was excused for lying in it does lie in a removal.              *)
LEMMA CarryKeeps == ASSUME DirectoryInv, ClosureInv', Carry PROVE DirectoryInv'
<1> DEFINE dec == Structural(decision)
           rem == StillRemoved(decision, removal)
           m == CarriedByIdentity
<1>1. /\ stage = "refresh" /\ queue = {} /\ stage' = "confirm" /\ measured' = m
      /\ Reconcile(dec, rem, m)
      /\ UNCHANGED <<surroundings, unseen>>
    BY DEF Carry
<1>2. Records(decision) /\ Records(dec) /\ rem \subseteq removal /\ rem \subseteq Checkouts
    BY StructuralCloses DEF DirectoryInv, ClosureInv, DirectoryTypes, StillRemoved
<1>3. /\ removal' \subseteq rem
      /\ \A w \in removal' : Tree[w] \cap Kept(decision') = {}
      /\ \A d \in Dirs : \/ decision'[d] = dec[d]
                         \/ dec[d].action = "Delete" /\ decision'[d].action = "Skip"
    BY <1>1, <1>2, ReconcileKeeps
<1>4. \A d \in Dirs : \/ dec[d] = decision[d]
                      \/ decision[d].action = "Delete" /\ dec[d].action = "Skip"
    BY <1>2, StructuralKeeps
<1>5. DirectoryTypes' /\ Grounded' /\ JudgedInv'
    BY <1>1, <1>2, <1>3, <1>4, ReconciledJudged
<1>6. removal' = rem
  <2>1. ASSUME NEW w \in rem PROVE Tree[w] \cap Retained(Authorized(dec, rem, m)) = {}
    <3>1. Tree[w] \cap Retained(dec) = {}
        BY <1>2, NothingArises DEF StillRemoved, Places
    <3>2. \A d \in Dirs \cap Tree[w] : Authorized(dec, rem, m)[d] = dec[d]
        BY DEF Authorized, InRemoval
    <3> QED
        BY <3>1, <3>2 DEF Retained
  <2>2. removal' = StillRemoved(Authorized(dec, rem, m), rem)
      BY <1>1 DEF Reconcile
  <2> QED
      BY <2>1, <2>2 DEF StillRemoved
<1>7. MeasuredInv'
  <2>1. ASSUME NEW d \in Dirs, d \in there, decision'[d].action = "Delete", ~InRemoval(d, rem)
        PROVE  m[d] # 0
    <3>1. decision' = Structural(Authorized(dec, rem, m)) /\ Records(Authorized(dec, rem, m))
        BY <1>1, <1>2, AuthorizedRecords DEF Reconcile
    <3>2. Authorized(dec, rem, m)[d].action = "Delete"
        BY <2>1, <3>1, StructuralKeeps
    <3>3. Record(dec[d])
        BY <1>2 DEF Records
    <3>4. [dec[d] EXCEPT !.action = "Skip"].action = "Skip"
        BY <3>3 DEF Record
    <3> QED
        BY <2>1, <3>2, <3>4 DEF Authorized
  <2>2. \A d \in Dirs : m[d] # 0 => m[d] = Identity(d)
      BY DEF CarriedByIdentity
  <2> QED
      BY <1>1, <1>6, <2>1, <2>2 DEF MeasuredInv, Standing, Identity, surroundings
<1> QED
    BY <1>1, <1>3, <1>5, <1>7 DEF DirectoryInv, RemovalsAreClosed, QueueInv, SnapshotInv

(* The last measurement ends the pass.                                     *)
LEMMA RemeasureKeeps ==
    ASSUME DirectoryInv, ClosureInv', NEW ok \in BOOLEAN, Remeasure(ok) PROVE DirectoryInv'
<1>1. /\ stage' = "done" /\ Reconcile(decision, removal, measured')
      /\ UNCHANGED <<surroundings, unseen>>
    BY DEF Remeasure
<1>2. /\ removal' \subseteq removal
      /\ \A w \in removal' : Tree[w] \cap Kept(decision') = {}
    BY <1>1, ReconcileKeeps DEF DirectoryInv, ClosureInv, DirectoryTypes
<1> QED
    BY <1>1, <1>2 DEF DirectoryInv, RemovalsAreClosed, DirectoryTypes, Grounded, JudgedInv, Scanned,
           MeasuredInv, QueueInv, SnapshotInv, surroundings

(* When places go with all they contain, what is left stays grounded.      *)
LEMMA GroundedBelow ==
    ASSUME Grounded, there \subseteq Places, NEW x \in Places, there' = there \ Tree[x]
    PROVE  Grounded'
BY TreeAssumption DEF Grounded, Places

(* What goes takes all it contains along.                                  *)
LEMMA TakeAwayKeeps ==
    ASSUME DirectoryInv, ClosureInv',
           \/ \E d \in Dirs : DeleteDirectory(d)
           \/ \E w \in Checkouts : RemoveCheckout(w)
    PROVE  DirectoryInv'
<1> USE DEF DirectoryInv
<1>1. /\ stage \in {"delete", "worktrees"} /\ stage' = stage /\ queue' \subseteq queue
      /\ there' \subseteq there
      /\ UNCHANGED <<settings, dir, age, leases, events, judgement, ownership, inhabited, unseen>>
    BY DEF DeleteDirectory, RemoveCheckout
<1>2. Grounded'
    BY GroundedBelow DEF DeleteDirectory, RemoveCheckout, Grounded, DirectoryTypes, Places
<1>3. DirectoryTypes' /\ RemovalsAreClosed'
    BY <1>1 DEF DirectoryTypes, RemovalsAreClosed, Kept, judgement
<1>4. JudgedInv'
  <2>1. \A d \in Dirs : Judged(d) => Judged(d)'
      BY <1>1 DEF Judged, Expendable, Recent, SampledAge, Window, Windows, judgement
  <2>2. \A d \in Dirs : Scanned(d)' => Scanned(d)
      BY <1>1 DEF Scanned, InRemoval, judgement
  <2> QED
      BY <1>1, <2>1, <2>2 DEF JudgedInv, Standing
<1>5. MeasuredInv'
    BY <1>1 DEF MeasuredInv, Standing, Identity, InRemoval, judgement
<1>6. QueueInv' /\ SnapshotInv'
    BY <1>1 DEF QueueInv, SnapshotInv, OwnershipPaths, Deletions, judgement
<1> QED
    BY <1>2, <1>3, <1>4, <1>5, <1>6

(* Of a directory, its days, its identity or its sweeps can change.        *)
LEMMA RecordsChange ==
    ASSUME NEW r \in Directories, NEW n \in 0 .. 2, NEW g \in 1 .. Latest,
           NEW s \in {"none", "work", "refused"}
    PROVE  /\ [r EXCEPT !.days = n, !.gen = g] \in Directories
           /\ [r EXCEPT !.days = n, !.sweep = s] \in Directories
<1>1. \A q \in Directories : [q EXCEPT !.days = n] \in Directories
    BY DEF Directories
<1>2. \A q \in Directories : [q EXCEPT !.gen = g] \in Directories
    BY DEF Directories
<1>3. \A q \in Directories : [q EXCEPT !.sweep = s] \in Directories
    BY DEF Directories
<1>4. [[r EXCEPT !.days = n] EXCEPT !.gen = g] \in Directories
    BY <1>1, <1>2
<1>5. [[r EXCEPT !.days = n] EXCEPT !.sweep = s] \in Directories
    BY <1>1, <1>3
<1> QED
    BY <1>4, <1>5

(* A sweep makes a directory young, but none that goes with its worktree.  *)
LEMMA SweepKeeps ==
    ASSUME DirectoryInv, ClosureInv', NEW d \in Dirs, SweepDirectory(d) PROVE DirectoryInv'
<1> USE DEF DirectoryInv
<1>1. /\ stage = "sweep" /\ stage' = "sweep"
      /\ dir' = [dir EXCEPT ![d] = [dir[d] EXCEPT !.days = 0, !.sweep = "none"]] \/ dir' = dir
      /\ InRemoval(d, removal) => dir' = dir
      /\ UNCHANGED <<settings, there, age, leases, events, judgement, ownership, inhabited, unseen>>
    BY DEF SweepDirectory
<1>2. DirectoryTypes'
  <2>1. [dir[d] EXCEPT !.days = 0, !.sweep = "none"] \in Directories
    <3>1. dir[d] \in Directories /\ 0 \in 0 .. 2
        BY DEF DirectoryTypes
    <3>2. 1 .. Latest # {}
        BY <3>1 DEF Directories
    <3> QED
        BY <3>1, <3>2, RecordsChange
  <2> QED
      BY <1>1, <2>1 DEF DirectoryTypes, judgement
<1>3. Grounded' /\ RemovalsAreClosed'
    BY <1>1 DEF Grounded, RemovalsAreClosed, Kept, judgement
<1>4. JudgedInv'
  <2>1. ASSUME NEW e \in Dirs, InRemoval(e, removal) PROVE dir'[e] = dir[e]
      BY <1>1, <2>1 DEF DirectoryTypes
  <2>2. \A e \in Dirs : dir'[e] = dir[e] /\ Judged(e) => Judged(e)'
      BY <1>1 DEF Judged, Expendable, Recent, SampledAge, Window, Windows, judgement
  <2>3. \A e \in Dirs : Scanned(e)' => Scanned(e) /\ InRemoval(e, removal)
      BY <1>1 DEF Scanned, InRemoval, judgement
  <2> QED
      BY <1>1, <2>1, <2>2, <2>3 DEF JudgedInv, Standing
<1> QED
    BY <1>1, <1>2, <1>3, <1>4 DEF MeasuredInv, QueueInv, SnapshotInv, OwnershipPaths, Deletions, judgement

(* Whatever happens around the run, a directory that is not marked unseen  *)
(* only grew older.                                                        *)
LEMMA Unseen ==
    ASSUME DirectoryInv, Surroundings
    PROVE  /\ DirectoryTypes' /\ Grounded' /\ events' = events + 1 /\ inhabited' \subseteq inhabited
           /\ UNCHANGED <<settings, judgement, progress>>
           /\ \A d \in Dirs : d \in there' /\ d \notin unseen' =>
                 /\ d \in Standing
                 /\ dir'[d].kind = dir[d].kind /\ dir'[d].tracked = dir[d].tracked
                 /\ dir'[d].gen = dir[d].gen /\ dir'[d].days >= dir[d].days
                 /\ age'[HomeOf[d]] >= age[HomeOf[d]]
<1> USE DEF DirectoryInv, DirectoryTypes, Event, judgement
<1>1. \A d \in Dirs : HomeOf[d] \in Checkouts
    BY HomeAssumption
<1>2. \A d \in Dirs : /\ dir[d] \in Directories /\ dir[d].days \in 0 .. 2
                      /\ dir[d].gen \in 1 .. Latest /\ age[HomeOf[d]] \in 0 .. 2
    BY <1>1 DEF Directories
<1>3. ASSUME NEW d \in Dirs, Write(d) \/ Rebuild(d) \/ Track(d) PROVE
         /\ \E r \in Directories : dir' = [dir EXCEPT ![d] = r]
         /\ unseen' = unseen \cup {d} /\ there' \subseteq there \cup {d}
         /\ events' = events + 1
         /\ UNCHANGED <<settings, age, leases, inhabited, judgement, progress>>
  <2>1. CASE Write(d)
    <3>1. PICK g \in 1 .. Latest : dir' = [dir EXCEPT ![d] = [dir[d] EXCEPT !.days = 0, !.gen = g]]
        BY <2>1 DEF Write
    <3>2. [dir[d] EXCEPT !.days = 0, !.gen = g] \in Directories
      <4>1. 0 \in 0 .. 2
          OBVIOUS
      <4> QED
          BY <1>2, <4>1, RecordsChange
    <3> QED
        BY <2>1, <3>1, <3>2 DEF Write
  <2>2. CASE Rebuild(d)
    <3>1. /\ dir' = [dir EXCEPT ![d] = [dir[d] EXCEPT !.days = 0, !.gen = dir[d].gen + 1]]
          /\ dir[d].gen < Latest
        BY <2>2 DEF Rebuild
    <3>2. dir[d].gen + 1 \in 1 .. Latest /\ 0 \in 0 .. 2
        BY <1>2, <3>1, OpeningsAssumption
    <3>3. [dir[d] EXCEPT !.days = 0, !.gen = dir[d].gen + 1] \in Directories
        BY <1>2, <3>2, RecordsChange
    <3> QED
        BY <2>2, <3>1, <3>3 DEF Rebuild
  <2>3. CASE Track(d)
    <3>1. dir' = [dir EXCEPT ![d] = [dir[d] EXCEPT !.tracked = ~dir[d].tracked]]
        BY <2>3 DEF Track
    <3>2. [dir[d] EXCEPT !.tracked = ~dir[d].tracked] \in Directories
        BY DEF Directories
    <3> QED
        BY <2>3, <3>1, <3>2 DEF Track
  <2> QED
      BY <1>3, <2>1, <2>2, <2>3
<1>4. ASSUME NEW d \in Dirs, Write(d) \/ Track(d) PROVE Grounded'
    BY <1>4 DEF Write, Track, Grounded
<1>5. ASSUME NEW d \in Dirs, Rebuild(d) PROVE Grounded'
  <2>1. there' = there \cup {d} /\ HomeOf[d] \in there
      BY <1>5 DEF Rebuild
  <2> QED
      BY <2>1, HomeAssumption DEF Grounded
<1>6. ASSUME NEW d \in Dirs, Discard(d) PROVE
         /\ Grounded' /\ there' \subseteq there /\ events' = events + 1
         /\ UNCHANGED <<settings, dir, age, leases, inhabited, unseen, judgement, progress>>
    BY <1>6, GroundedBelow DEF Discard, Places
<1>7. ASSUME NEW d \in Dirs, Write(d) \/ Rebuild(d) \/ Track(d) \/ Discard(d) PROVE
         /\ DirectoryTypes' /\ Grounded' /\ events' = events + 1 /\ inhabited' \subseteq inhabited
         /\ UNCHANGED <<settings, judgement, progress>>
         /\ \A e \in Dirs : e \in there' /\ e \notin unseen' =>
                 /\ e \in Standing /\ dir'[e] = dir[e] /\ age' = age
  <2>1. CASE Write(d) \/ Rebuild(d) \/ Track(d)
      BY <1>3, <1>4, <1>5, <2>1 DEF Standing, Places
  <2>2. CASE Discard(d)
      BY <1>6, <2>2 DEF Standing
  <2> QED
      BY <1>7, <2>1, <2>2
<1>8. ASSUME NEW x \in Places, EnterOrLeave(x) \/ LeaseOrRelease(x) PROVE
         /\ DirectoryTypes' /\ Grounded' /\ events' = events + 1 /\ inhabited' \subseteq inhabited
         /\ UNCHANGED <<settings, judgement, progress, there, dir, age, unseen>>
  <2>1. /\ events' = events + 1 /\ inhabited' \subseteq inhabited /\ leases' \subseteq leases \cup {x}
        /\ UNCHANGED <<settings, judgement, progress, there, dir, age, unseen>>
      BY <1>8 DEF EnterOrLeave, LeaseOrRelease
  <2> QED
      BY <2>1 DEF Grounded
<1>9. ASSUME NEW w \in Checkouts, EditSource(w) PROVE
         /\ DirectoryTypes' /\ Grounded' /\ events' = events + 1 /\ inhabited' = inhabited
         /\ UNCHANGED <<settings, judgement, progress, there, dir>>
         /\ unseen' = unseen \cup DirsOf(w) /\ age' = [age EXCEPT ![w] = 0]
    BY <1>9 DEF EditSource, Grounded
<1>10. CASE DaysPass
  <2>1. /\ events' = events + 1
        /\ dir' = [d \in Dirs |-> [dir[d] EXCEPT !.days = IF @ < 2 THEN @ + 1 ELSE @]]
        /\ age' = [w \in Checkouts |-> IF age[w] < 2 THEN age[w] + 1 ELSE age[w]]
        /\ UNCHANGED <<settings, judgement, progress, there, leases, inhabited, unseen>>
      BY <1>10 DEF DaysPass
  <2>2. ASSUME NEW d \in Dirs
        PROVE  /\ dir'[d] \in Directories /\ dir'[d].kind = dir[d].kind
               /\ dir'[d].tracked = dir[d].tracked /\ dir'[d].gen = dir[d].gen
               /\ dir'[d].days >= dir[d].days
    <3>1. PICK n \in 0 .. 2 : n >= dir[d].days /\ dir'[d] = [dir[d] EXCEPT !.days = n]
      <4>1. dir'[d] = [dir[d] EXCEPT !.days = IF dir[d].days < 2 THEN dir[d].days + 1 ELSE dir[d].days]
          BY <2>1
      <4> QED
          BY <1>2, <4>1
    <3> QED
        BY <1>2, <3>1 DEF Directories
  <2>3. \A w \in Checkouts : age'[w] \in 0 .. 2 /\ age'[w] >= age[w]
      BY <2>1
  <2>4. dir' \in [Dirs -> Directories]
      BY <2>1, <2>2
  <2>5. age' \in [Checkouts -> 0 .. 2]
      BY <2>1, <2>3
  <2>6. DirectoryTypes' /\ Grounded'
      BY <2>1, <2>4, <2>5 DEF Grounded
  <2> QED
      BY <1>1, <2>1, <2>2, <2>3, <2>6 DEF Standing
<1>11. ASSUME NEW w \in Checkouts, EditSource(w), NEW d \in Dirs, d \in there', d \notin unseen'
       PROVE  d \in Standing /\ dir'[d] = dir[d] /\ age'[HomeOf[d]] = age[HomeOf[d]]
    BY <1>1, <1>9, <1>11 DEF Standing, DirsOf
<1> QED
    BY <1>1, <1>2, <1>7, <1>8, <1>9, <1>10, <1>11 DEF Surroundings, Standing

(* What happens around the run keeps the invariant.                        *)
LEMMA SurroundingsKeep == ASSUME DirectoryInv, ClosureInv', Surroundings PROVE DirectoryInv'
<1> USE DEF DirectoryInv
<1>1. RemovalsAreClosed' /\ QueueInv'
    BY Unseen DEF RemovalsAreClosed, Kept, QueueInv, Deletions, judgement, progress
<1>2. JudgedInv'
  <2>1. ASSUME NEW d \in Dirs, d \in there', d \notin unseen', Judged(d) PROVE Judged(d)'
    <3>1. /\ dir'[d].kind = dir[d].kind /\ dir'[d].tracked = dir[d].tracked
          /\ dir'[d].days >= dir[d].days /\ age'[HomeOf[d]] >= age[HomeOf[d]]
          /\ UNCHANGED <<settings, decision>>
        BY <2>1, Unseen DEF judgement
    <3>2. /\ dir'[d].days \in Nat /\ dir[d].days \in Nat
          /\ age'[HomeOf[d]] \in Nat /\ age[HomeOf[d]] \in Nat
        BY Unseen, HomeAssumption DEF DirectoryTypes, Directories
    <3>3. Recent(d, Window)' => Recent(d, Window)
        BY <3>1, <3>2 DEF Recent, SampledAge, Window, Windows
    <3> QED
        BY <2>1, <3>1, <3>3 DEF Judged, Expendable
  <2>2. \A d \in Dirs : Scanned(d)' => Scanned(d)
      BY Unseen DEF Scanned, InRemoval, judgement, progress
  <2> QED
      BY <2>1, <2>2, Unseen DEF JudgedInv, Standing
<1>3. MeasuredInv'
    BY Unseen DEF MeasuredInv, Standing, Identity, InRemoval, judgement, progress
<1>4. SnapshotInv'
    BY Unseen DEF SnapshotInv, OwnershipPaths, Deletions, judgement, progress
<1> QED
    BY <1>1, <1>2, <1>3, <1>4, Unseen

(* Every step of the directories keeps their invariant.                    *)
LEMMA DirectoryStep == DirectoryInv /\ [CleanupNext]_cleanupVars => DirectoryInv'
<1> SUFFICES ASSUME DirectoryInv, [CleanupNext]_cleanupVars PROVE DirectoryInv'
    OBVIOUS
<1>1. ClosureInv'
    BY ClosureStep DEF DirectoryInv
<1>2. CASE CleanupRun
    BY <1>1, <1>2, MeasureKeeps, Bookkeeping, CaptureKeeps, ScanKeeps, PlanMeasurementKeeps,
       EndMeasurementKeeps, CarryKeeps, RemeasureKeeps, TakeAwayKeeps, SweepKeeps DEF CleanupRun
<1>3. CASE Surroundings
    BY <1>1, <1>3, SurroundingsKeep
<1>4. CASE UNCHANGED cleanupVars
    BY <1>1, <1>4, Bookkeeping
<1> QED
    BY <1>2, <1>3, <1>4 DEF CleanupNext

(* What a step of the run takes away.                                      *)
LEMMA TakenAsLookedAt ==
    ASSUME DirectoryInv, CleanupNext
    PROVE  /\ \A x \in Places : Cleared(x) => ~Leased(x)
           /\ \A x \in Places : Topmost(x) /\ settings.inUse => Tree[Home(x)] \cap inhabited = {}
           /\ \A d \in Dirs : Cleared(d) /\ d \notin unseen =>
                 /\ Expendable(d)
                 /\ Topmost(d) => measured[d] = Identity(d)
<1> USE DEF DirectoryInv
<1>1. ASSUME NEW z \in Places, ~Leased(z), NEW x \in Places, x \in Tree[z] PROVE ~Leased(x)
    BY <1>1, TreeAssumption DEF Leased, DirectoryTypes
<1>2. ASSUME NEW e \in Dirs, DeleteDirectory(e)
      PROVE  /\ \A x \in Places : Cleared(x) => ~Leased(x)
             /\ \A x \in Places : Topmost(x) /\ settings.inUse => Tree[Home(x)] \cap inhabited = {}
             /\ \A d \in Dirs : Cleared(d) /\ d \notin unseen =>
                   /\ Expendable(d)
                   /\ Topmost(d) => measured[d] = Identity(d)
  <2>1. /\ stage = "delete" /\ e \in Deletions /\ MayDelete(e) /\ there' = there \ Tree[e]
        /\ e \in there /\ e \in Places /\ e \in Tree[e] /\ events' = events
      BY <1>2, TreeAssumption DEF DeleteDirectory, QueueInv, MayDelete, Places
  <2>2. \A x \in Places : Cleared(x) => x \in Tree[e] /\ x \in there
      BY <2>1 DEF Cleared
  <2>3. \A x \in Places : Topmost(x) => x = e
      BY <2>1, <2>2 DEF Topmost, Cleared
  <2>4. settings.inUse => Tree[HomeOf[e]] \cap inhabited = {}
    <3>1. HomeOf[e] \in OwnershipPaths
        BY <2>1 DEF OwnershipPaths
    <3> QED
        BY <2>1, <3>1 DEF SnapshotInv, MayDelete, Open
  <2>5. ASSUME NEW d \in Dirs, Cleared(d), d \notin unseen PROVE Expendable(d)
    <3>1. d \in Standing /\ d \in Tree[e]
        BY <2>2, <2>5 DEF Standing, Places
    <3>2. Judged(d)
        BY <2>1, <3>1 DEF JudgedInv, Scanned
    <3>3. decision[d].action \notin {"Skip", "Sweep"}
        BY <2>1, <3>1 DEF ClosureInv, NothingKeptIsEnclosed, Closed, Kept, Relying, Deletions
    <3> QED
        BY <3>2, <3>3 DEF Judged, Expendable
  <2>6. e \notin unseen => measured[e] = Identity(e)
      BY <2>1 DEF MeasuredInv, Standing, Deletions, MayDelete
  <2> QED
      BY <1>1, <2>1, <2>2, <2>3, <2>4, <2>5, <2>6 DEF Home, MayDelete, Places
<1>3. ASSUME NEW w \in Checkouts, RemoveCheckout(w)
      PROVE  /\ \A x \in Places : Cleared(x) => ~Leased(x)
             /\ \A x \in Places : Topmost(x) /\ settings.inUse => Tree[Home(x)] \cap inhabited = {}
             /\ \A d \in Dirs : Cleared(d) /\ d \notin unseen =>
                   /\ Expendable(d)
                   /\ Topmost(d) => measured[d] = Identity(d)
  <2>1. /\ stage = "worktrees" /\ w \in removal /\ w \in Places /\ w \notin Dirs
        /\ there' # there => there' = there \ Tree[w] /\ ~Open(w) /\ ~Leased(w)
        /\ w \in Tree[w] /\ events' = events
      BY <1>3, TreeAssumption, HomeAssumption DEF RemoveCheckout, QueueInv, Places
  <2>2. \A x \in Places : Cleared(x) => x \in Tree[w] /\ x \in there /\ ~Open(w) /\ ~Leased(w)
      BY <2>1 DEF Cleared
  <2>3. \A x \in Places : Cleared(x) => Cleared(w)
      BY <2>1, <2>2 DEF Cleared, Grounded
  <2>4. \A x \in Places : Topmost(x) => x = w
      BY <2>1, <2>2, <2>3 DEF Topmost
  <2>5. ~Open(w) /\ settings.inUse => Tree[w] \cap inhabited = {}
      BY <2>1 DEF SnapshotInv, Open, OwnershipPaths
  <2>6. ASSUME NEW d \in Dirs, Cleared(d), d \notin unseen PROVE Expendable(d)
    <3>1. d \in Standing /\ d \in Tree[w]
        BY <2>2, <2>6 DEF Standing, Places
    <3>2. Judged(d)
        BY <2>1, <3>1 DEF JudgedInv, Scanned, InRemoval
    <3>3. decision[d].action \notin {"Skip", "Sweep"}
        BY <2>1, <3>1 DEF RemovalsAreClosed, Kept, Relying, Standing
    <3> QED
        BY <3>2, <3>3 DEF Judged, Expendable
  <2> QED
      BY <1>1, <2>1, <2>2, <2>4, <2>5, <2>6 DEF Home, Topmost, Places
<1>4. ASSUME ~\E d \in Dirs : DeleteDirectory(d), ~\E w \in Checkouts : RemoveCheckout(w)
      PROVE  \A x \in Places : ~Cleared(x)
  <2>1. CASE CleanupRun
    <3>1. there' = there
        BY <1>4, <2>1 DEF CleanupRun, CaptureRoots, CapturePass, Remeasure, Measure, Scan, KeepDirectory,
               LocksTimeOut, SweepDirectory, PlanMeasurement, EndMeasurement, Carry, EndDeletions,
               EndSweeps, surroundings
    <3> QED
        BY <3>1 DEF Cleared
  <2>2. CASE Surroundings
      BY <2>2, Unseen DEF Cleared, DirectoryTypes
  <2> QED
      BY <2>1, <2>2 DEF CleanupNext
<1> QED
    BY <1>2, <1>3, <1>4 DEF Topmost, Places

----------------------------------------------------------------------------
(* The invariant of the worktrees.                                         *)

\* Every variable the argument is about has values of its kind.
WorktreeTypes ==
    /\ config \in [policy : BOOLEAN, pressure : BOOLEAN]
    /\ tree \in [Worktrees -> Trees]
    /\ short \in BOOLEAN
    /\ plan \in [Worktrees -> Decisions \cup {NoRemoval}]
    /\ current \in Worktrees /\ todo \subseteq Worktrees

\* Days that the planned removal of a worktree counts on.
DaysOf(decided) == IF decided.class = "Pressure" THEN PressureStaleDays ELSE StaleDays

\* What a plan to remove a worktree says of it, as long as no commit is added.
PlanInv ==
    \A w \in Worktrees : plan[w] # NoRemoval =>
        /\ w # Current
        /\ plan[w].head <= tree[w].head
        /\ plan[w].head = tree[w].head /\ plan[w].trigger = "Age"
           => tree[w].days >= DaysOf(plan[w])
        /\ ~config.policy => plan[w].trigger = "Age"
        /\ ~config.policy /\ w \notin late => tree[w].attached /\ plan[w].head = tree[w].head

\* A worktree is at hand.
AtHand == {"identity", "evidence", "ownership", "guard"}

\* The class of removals a pass carries out.
PassClass == IF pass = "pressure" THEN "Pressure" ELSE "Routine"

\* A pass works through the removals of its class; for pressure, while it lasts.
PassInv ==
    /\ pc \in AtHand \cup {"execute"} => todo \subseteq Removals(plan, PassClass)
    /\ pc \in AtHand =>
          /\ current \in Removals(plan, PassClass)
          /\ pass = "pressure" => Pressed
          /\ current \notin OwnedBy(snapshot)
    /\ pc \in {"identity", "evidence", "ownership"} => config.policy

\* What the revalidation has found so far, unless the worktree changed since.
LookInv ==
    config.policy /\ current \notin late =>
        /\ pc \in {"evidence", "ownership", "guard"} =>
              tree[current].attached /\ tree[current].head = plan[current].head
        /\ pc \in {"ownership", "guard"} => EvidenceMatches(plan[current], tree[current].prs)

\* Who stays in a worktree is seen by the snapshot, or by the revalidation.
StayInv ==
    /\ config.policy /\ pc = "guard" => current \notin standing
    /\ ~config.policy /\ snapshot.complete => standing \cap snapshot.roots \subseteq snapshot.owned

\* The inductive invariant of the worktrees.
WorktreeInv == WorktreeTypes /\ PlanInv /\ PassInv /\ LookInv /\ StayInv

----------------------------------------------------------------------------
(* Every step keeps it.                                                    *)

(* A decision to remove says what the worktree was.                        *)
LEMMA DecideFits ==
    ASSUME WorktreeTypes, NEW w \in Worktrees, NEW s, Decide(w, s) # NoRemoval
    PROVE  /\ Eligible(w) /\ Decide(w, s) \in Decisions
           /\ Decide(w, s).trigger = Trigger(w) /\ Decide(w, s).class = ClassOf(w)
           /\ Decide(w, s).head = tree[w].head
<1>1. Eligible(w) /\ Decide(w, s) = [trigger |-> Trigger(w), class |-> ClassOf(w),
                                     head |-> tree[w].head, prs |-> tree[w].prs]
    BY DEF Decide
<1>2. Trigger(w) \in Triggers
    BY <1>1 DEF Eligible, Trigger, Triggers
<1>3. ClassOf(w) \in Classes
    BY DEF ClassOf, Classes
<1>4. tree[w].head \in 0 .. MaxHead /\ tree[w].prs \in SUBSET States
    BY DEF WorktreeTypes, Trees
<1> QED
    BY <1>1, <1>2, <1>3, <1>4 DEF Decisions

(* A worktree removed for its age has the days its class asks for.         *)
LEMMA AgeFits ==
    ASSUME WorktreeTypes, NEW w \in Worktrees, Trigger(w) = "Age"
    PROVE  tree[w].days >= IF ClassOf(w) = "Pressure" THEN PressureStaleDays ELSE StaleDays
<1>1. tree[w].days \in 0 .. 2 /\ tree[w].days >= EffectiveDays
    BY DEF WorktreeTypes, Trees, Trigger
<1> QED
    BY <1>1 DEF ClassOf, EffectiveDays, StaleDays, PressureStaleDays

(* The invariant holds before the first capture,                           *)
LEMMA WorktreesStart == Init => WorktreeInv
<1> SUFFICES ASSUME Init PROVE WorktreeInv
    OBVIOUS
<1>1. PICK others \in [Others -> {t \in Trees :
              /\ t.exists /\ t.head = 0 /\ t.attached /\ t.days > 0
              /\ t.prs \in {{}, {"merged"}} /\ (config.policy \/ t.prs = {})
              /\ ~(t.dirty /\ t.leased) /\ ~(t.held /\ (t.dirty \/ t.leased))}] :
           tree = [w \in Worktrees |->
                     IF w = Current
                     THEN [exists |-> TRUE, head |-> 0, attached |-> TRUE, dirty |-> FALSE,
                           days |-> StaleDays, prs |-> {}, held |-> TRUE, leased |-> FALSE]
                     ELSE others[w]]
    BY DEF Init
<1>2. [exists |-> TRUE, head |-> 0, attached |-> TRUE, dirty |-> FALSE,
       days |-> StaleDays, prs |-> {}, held |-> TRUE, leased |-> FALSE] \in Trees
    BY BoundAssumption DEF Trees, StaleDays
<1>3. tree \in [Worktrees -> Trees]
    BY <1>1, <1>2 DEF Others
<1>4. config \in [policy : BOOLEAN, pressure : BOOLEAN] /\ config.pressure \in BOOLEAN
    BY DEF Init
<1> QED
    BY <1>3, <1>4, CurrentAssumption
    DEF Init, WorktreeInv, WorktreeTypes, PlanInv, PassInv, LookInv, StayInv, NoSnapshot, AtHand

(* and where only directories are followed.                                *)
LEMMA WorktreesIdleStart == WorktreesIdle => WorktreeInv
<1> SUFFICES ASSUME WorktreesIdle PROVE WorktreeInv
    OBVIOUS
<1>1. [exists |-> TRUE, head |-> 0, attached |-> TRUE, dirty |-> FALSE,
       days |-> 0, prs |-> {}, held |-> TRUE, leased |-> FALSE] \in Trees
    BY BoundAssumption DEF Trees
<1>2. (CHOOSE t \in Trees : TRUE) \in Trees
    BY <1>1
<1>3. tree \in [Worktrees -> Trees]
    BY <1>2 DEF WorktreesIdle
<1> QED
    BY <1>3, CurrentAssumption
    DEF WorktreesIdle, WorktreeInv, WorktreeTypes, PlanInv, PassInv, LookInv, StayInv, NoSnapshot, AtHand

(* Steps of the run that leave worktrees, plan and ghosts alone.           *)
LEMMA RunsOn ==
    ASSUME WorktreeInv, UNCHANGED <<config, tree, plan, standing, snapshot>>,
           current' \in Worktrees, todo' \subseteq Worktrees, short' \in BOOLEAN, late' = late,
           PassInv', LookInv', config.policy /\ pc' = "guard" => current' \notin standing
    PROVE  WorktreeInv'
BY DEF WorktreeInv, WorktreeTypes, PlanInv, StayInv

(* Captures, and the turns from pass to pass.                              *)
LEMMA PlanningKeeps ==
    ASSUME WorktreeInv,
           \/ \E ok \in BOOLEAN : \/ CaptureInitial(ok) \/ CaptureRoutine(ok) \/ CapturePressure(ok)
           \/ RefreshRoutine \/ NoRoutine \/ ExecutePressure \/ Finish
    PROVE  WorktreeInv'
<1> USE DEF WorktreeInv, world, ghosts
<1>1. /\ UNCHANGED <<config, tree, short, plan, current, late>> /\ pc' \notin AtHand
      /\ \/ UNCHANGED <<snapshot, standing>>
         \/ \E roots : snapshot' = Snapshot(roots, TRUE) /\ standing' = Held
         \/ \E roots : snapshot' = Snapshot(roots, FALSE)
    BY DEF CaptureInitial, CaptureRoutine, CapturePressure, RefreshRoutine, NoRoutine, ExecutePressure,
           Finish, AtHand
<1>2. todo' \subseteq Worktrees
    BY DEF CaptureInitial, CaptureRoutine, CapturePressure, RefreshRoutine, NoRoutine, ExecutePressure,
           Finish, WorktreeTypes, Removals, Others
<1>3. WorktreeTypes' /\ PlanInv' /\ LookInv'
    BY <1>1, <1>2 DEF WorktreeTypes, PlanInv, LookInv, AtHand
<1>4. PassInv'
  <2>1. pc' = "execute" => todo' \subseteq Removals(plan, PassClass')
      BY DEF CaptureInitial, CaptureRoutine, CapturePressure, RefreshRoutine, NoRoutine, ExecutePressure,
             Finish, PassClass
  <2> QED
      BY <1>1, <2>1 DEF PassInv, AtHand, Removals
<1>5. StayInv'
    BY <1>1 DEF StayInv, Snapshot, AtHand
<1> QED
    BY <1>3, <1>4, <1>5

(* A plan is made of what a worktree is now.                               *)
LEMMA PlanKeeps ==
    ASSUME WorktreeInv, NEW w \in Worktrees, NEW ok \in BOOLEAN, PlanWorktree(w, ok)
    PROVE  WorktreeInv'
<1> USE DEF WorktreeInv, world, ghosts
<1>1. /\ pc = "plan" /\ pc' = "plan" /\ todo' = todo \ {w} /\ late' = late \ {w}
      /\ UNCHANGED <<config, tree, short, snapshot, pass, current, standing>>
    BY DEF PlanWorktree
<1>2. PICK new \in {NoRemoval, Decide(w, Evidence)} : plan' = [plan EXCEPT ![w] = new]
    BY DEF PlanWorktree
<1>3. new # NoRemoval => /\ Eligible(w) /\ new \in Decisions
                         /\ new.trigger = Trigger(w) /\ new.class = ClassOf(w)
                         /\ new.head = tree[w].head
    BY <1>2, DecideFits
<1>4. WorktreeTypes'
    BY <1>1, <1>2, <1>3 DEF WorktreeTypes
<1>5. PlanInv'
  <2>1. plan'[w] = new /\ \A v \in Worktrees \ {w} : plan'[v] = plan[v]
      BY <1>2 DEF WorktreeTypes
  <2>2. tree[w].head \in Nat
      BY BoundAssumption DEF WorktreeTypes, Trees
  <2>3. ASSUME new # NoRemoval
        PROVE  /\ w # Current /\ tree[w].attached
               /\ new.trigger = "Age" => tree[w].days >= DaysOf(new)
               /\ ~config.policy => new.trigger = "Age"
      BY <1>3, <2>3, AgeFits DEF Eligible, Trigger, DaysOf
  <2> QED
      BY <1>1, <1>3, <2>1, <2>2, <2>3 DEF PlanInv
<1> QED
    BY <1>1, <1>4, <1>5 DEF PassInv, LookInv, StayInv, AtHand

(* The questions before a worktree is taken in hand.                       *)
LEMMA NextWorktreeKeeps ==
    ASSUME WorktreeInv, NEW w \in Worktrees, NextWorktree(w) PROVE WorktreeInv'
<1> USE DEF WorktreeInv, world, ghosts
<1>1. /\ pc = "execute" /\ w \in todo /\ todo' = todo \ {w}
      /\ UNCHANGED <<config, tree, short, plan, snapshot, pass, standing, late>>
      /\ \/ pc' = "execute" /\ current' = current
         \/ /\ current' = w /\ pc' = IF config.policy THEN "identity" ELSE "guard"
            /\ pass = "pressure" => Pressed
            /\ w \notin OwnedBy(snapshot)
    BY DEF NextWorktree, Keep
<1>2. PassInv'
    BY <1>1 DEF PassInv, AtHand, PassClass, Removals, Pressed, OwnedBy
<1>3. LookInv'
    BY <1>1 DEF LookInv
<1> QED
    BY <1>1, <1>2, <1>3, RunsOn DEF WorktreeTypes

(* The revalidation, look by look.                                         *)
LEMMA RevalidationKeeps ==
    ASSUME WorktreeInv,
           \/ RevalidateIdentity
           \/ \E ok \in BOOLEAN : RevalidatePullRequests(ok) \/ RevalidateOwnership(ok)
    PROVE  WorktreeInv'
<1> USE DEF WorktreeInv, world, ghosts
<1>1. /\ pc \in {"identity", "evidence", "ownership"}
      /\ UNCHANGED <<config, tree, short, plan, snapshot, pass, todo, current>>
      /\ \/ pc' = "execute"
         \/ /\ pc = "identity" /\ pc' = "evidence" /\ AsPlanned(current)
         \/ /\ pc = "evidence" /\ pc' = "ownership" /\ EvidenceMatches(plan[current], tree[current].prs)
         \/ /\ pc = "ownership" /\ pc' = "guard"
      /\ pc # "identity" => late' = late
      /\ late' \in {late, late \ {current}}
    BY DEF RevalidateIdentity, RevalidatePullRequests, RevalidateOwnership, Keep
<1>2. config.policy /\ current \in Worktrees
    BY <1>1 DEF PassInv, WorktreeTypes
<1>3. WorktreeTypes' /\ PlanInv'
    BY <1>1, <1>2 DEF WorktreeTypes, PlanInv
<1>4. PassInv'
    BY <1>1 DEF PassInv, AtHand, PassClass, Removals, Pressed, OwnedBy
<1>5. LookInv'
    BY <1>1 DEF LookInv, AsPlanned
<1>6. StayInv'
    BY <1>1, <1>2 DEF StayInv, RevalidateOwnership, RevalidateIdentity, RevalidatePullRequests, Keep
<1> QED
    BY <1>3, <1>4, <1>5, <1>6

(* The removal, and what keeps from it.                                    *)
LEMMA SettleKeeps ==
    ASSUME WorktreeInv, Protected \/ RemoveWorktree \/ GitRefuses PROVE WorktreeInv'
<1> USE DEF WorktreeInv, world, ghosts
<1>1. /\ pc' \in {"execute", "aborted"} /\ pc = "guard" /\ short' \in {FALSE, short}
      /\ UNCHANGED <<config, plan, snapshot, pass, todo, current, standing, late>>
      /\ tree' \in {tree, [tree EXCEPT ![current] = [tree[current] EXCEPT !.exists = FALSE]]}
    BY DEF Protected, RemoveWorktree, GitRefuses, Keep
<1>2. [tree[current] EXCEPT !.exists = FALSE] \in Trees
    BY DEF WorktreeTypes, Trees
<1>3. \A w \in Worktrees : /\ tree'[w].head = tree[w].head /\ tree'[w].days = tree[w].days
                           /\ tree'[w].attached = tree[w].attached
  <2>1. /\ [tree[current] EXCEPT !.exists = FALSE].head = tree[current].head
        /\ [tree[current] EXCEPT !.exists = FALSE].days = tree[current].days
        /\ [tree[current] EXCEPT !.exists = FALSE].attached = tree[current].attached
      BY DEF WorktreeTypes, Trees
  <2> QED
      BY <1>1, <2>1 DEF WorktreeTypes
<1>4. WorktreeTypes'
    BY <1>1, <1>2 DEF WorktreeTypes
<1>5. PlanInv'
    BY <1>1, <1>3 DEF PlanInv
<1>6. PassInv' /\ LookInv' /\ StayInv'
    BY <1>1 DEF PassInv, LookInv, StayInv, AtHand, PassClass, Removals
<1> QED
    BY <1>4, <1>5, <1>6

(* Of a worktree that changes, only what nobody relies on stays the same:  *)
(* either it is marked, or it only grew older.                             *)
LEMMA WorldKeeps ==
    ASSUME WorktreeInv,
           UNCHANGED <<config, short, plan, snapshot, pass, todo, current, pc>>,
           standing' \subseteq standing, tree' \in [Worktrees -> Trees], late \subseteq late',
           \A w \in Worktrees :
              /\ tree[w].head <= tree'[w].head
              /\ tree'[w].head = tree[w].head => tree'[w].days >= tree[w].days
              /\ w \notin late' => /\ tree'[w].head = tree[w].head
                                   /\ tree'[w].attached = tree[w].attached
                                   /\ \/ tree'[w].prs = tree[w].prs
                                      \/ /\ "fresh" \in tree[w].prs
                                         /\ tree'[w].prs = (tree[w].prs \ {"fresh"}) \cup {"merged"}
    PROVE  WorktreeInv'
<1> USE DEF WorktreeInv
<1>1. WorktreeTypes'
    BY DEF WorktreeTypes
<1>2. PlanInv'
  <2>1. ASSUME NEW w \in Worktrees, plan[w] # NoRemoval
        PROVE  /\ plan[w].head \in Nat /\ tree[w].head \in Nat /\ tree'[w].head \in Nat
               /\ tree[w].days \in Nat /\ tree'[w].days \in Nat /\ DaysOf(plan[w]) \in Nat
      BY <2>1, BoundAssumption DEF WorktreeTypes, Trees, Decisions, DaysOf, StaleDays, PressureStaleDays
  <2> QED
      BY <2>1 DEF PlanInv
<1>3. PassInv' /\ StayInv'
    BY DEF PassInv, StayInv, PassClass, Pressed, Removals
<1>4. LookInv'
  <2>1. ASSUME config.policy, current \notin late', pc \in {"ownership", "guard"}
        PROVE  EvidenceMatches(plan[current], tree'[current].prs)
    <3>1. EvidenceMatches(plan[current], tree[current].prs) /\ current \in Worktrees
        BY <2>1 DEF LookInv, WorktreeTypes
    <3>2. plan[current].trigger \in {"Age", "MergedPullRequest"}
        BY <2>1, <3>1 DEF PassInv, AtHand, Removals, WorktreeTypes, Decisions, Triggers
    <3>3. "fresh" \notin tree[current].prs
        BY <3>1, <3>2 DEF EvidenceMatches, Lifecycle, GraceIsOver
    <3> QED
        BY <2>1, <3>1, <3>3
  <2> QED
      BY <2>1 DEF LookInv, WorktreeTypes
<1> QED
    BY <1>1, <1>2, <1>3, <1>4

(* A change of one worktree by somebody else marks it,                     *)
LEMMA ChangeKeeps ==
    ASSUME WorktreeInv, NEW w \in Worktrees, NEW t \in Trees, Change(w, t), standing' \subseteq standing,
           t.head >= tree[w].head, t.head = tree[w].head => t.days >= tree[w].days
    PROVE  WorktreeInv'
<1>1. /\ tree' = [tree EXCEPT ![w] = t] /\ late' = late \cup {w}
      /\ UNCHANGED <<config, short, plan, snapshot, pass, todo, current, pc>>
    BY DEF Change
<1>2. \A v \in Worktrees : tree[v].head \in Nat /\ tree[v].days \in Nat
    BY BoundAssumption DEF WorktreeInv, WorktreeTypes, Trees
<1>3. tree' \in [Worktrees -> Trees]
    BY <1>1 DEF WorktreeInv, WorktreeTypes
<1>4. tree'[w] = t /\ \A v \in Worktrees \ {w} : tree'[v] = tree[v]
    BY <1>1 DEF WorktreeInv, WorktreeTypes
<1> QED
    BY <1>1, <1>2, <1>3, <1>4, WorldKeeps

(* A worktree with one field changed.                                      *)
LEMMA TreesChange ==
    ASSUME NEW t \in Trees, NEW b \in BOOLEAN, NEW p \in SUBSET States, NEW n \in 0 .. 2,
           NEW h \in 0 .. MaxHead
    PROVE  /\ [t EXCEPT !.dirty = b] \in Trees /\ [t EXCEPT !.attached = b] \in Trees
           /\ [t EXCEPT !.held = b] \in Trees /\ [t EXCEPT !.leased = b] \in Trees
           /\ [t EXCEPT !.prs = p] \in Trees /\ [t EXCEPT !.days = n] \in Trees
           /\ [t EXCEPT !.head = h] \in Trees
<1>1. [t EXCEPT !.dirty = b] \in Trees
    BY DEF Trees
<1>2. [t EXCEPT !.attached = b] \in Trees
    BY DEF Trees
<1>3. [t EXCEPT !.held = b] \in Trees
    BY DEF Trees
<1>4. [t EXCEPT !.leased = b] \in Trees
    BY DEF Trees
<1>5. [t EXCEPT !.prs = p] \in Trees
    BY DEF Trees
<1>6. [t EXCEPT !.days = n] \in Trees
    BY DEF Trees
<1>7. [t EXCEPT !.head = h] \in Trees
    BY DEF Trees
<1> QED
    BY <1>1, <1>2, <1>3, <1>4, <1>5, <1>6, <1>7

(* and a day that passes only makes it older.                              *)
LEMMA OutsideKeeps == ASSUME WorktreeInv, World PROVE WorktreeInv'
<1> USE DEF WorktreeInv
<1>1. \A w \in Worktrees : /\ tree[w] \in Trees /\ tree[w].head \in 0 .. MaxHead
                           /\ tree[w].days \in 0 .. 2
    BY DEF WorktreeTypes, Trees
<1>2. ASSUME NEW w \in Worktrees, Commit(w) PROVE WorktreeInv'
  <2> DEFINE t == [tree[w] EXCEPT !.head = @ + 1, !.days = 0, !.dirty = FALSE, !.prs = {}]
  <2>1. Change(w, t) /\ standing' = standing /\ tree[w].head < MaxHead
      BY <1>2 DEF Commit
  <2>2. tree[w].head + 1 \in 0 .. MaxHead
      BY <1>1, <2>1, BoundAssumption
  <2>3. 0 \in 0 .. 2 /\ {} \in SUBSET States
      OBVIOUS
  <2>4. t = [[[[tree[w] EXCEPT !.head = tree[w].head + 1] EXCEPT !.days = 0]
                EXCEPT !.dirty = FALSE] EXCEPT !.prs = {}]
      OBVIOUS
  <2>5. [tree[w] EXCEPT !.head = tree[w].head + 1] \in Trees
      BY <1>1, <2>2, <2>3, TreesChange
  <2>6. [[tree[w] EXCEPT !.head = tree[w].head + 1] EXCEPT !.days = 0] \in Trees
      BY <2>2, <2>3, <2>5, TreesChange
  <2>7. t \in Trees
      BY <2>2, <2>3, <2>4, <2>6, TreesChange
  <2>8. t.head = tree[w].head + 1
      BY <1>1, <2>4 DEF Trees
  <2>9. t.head >= tree[w].head /\ t.head # tree[w].head
      BY <1>1, <2>8, BoundAssumption
  <2> HIDE DEF t
  <2> QED
      BY <2>1, <2>7, <2>9, ChangeKeeps
<1>3. ASSUME NEW w \in Worktrees,
             EditOrDiscard(w) \/ Switch(w) \/ Enter(w) \/ Leave(w) \/ Protect(w) \/ PullRequestMoves(w)
      PROVE  WorktreeInv'
  <2>1. \E t \in Trees : Change(w, t) /\ t.head = tree[w].head /\ t.days = tree[w].days
    <3>1. CASE EditOrDiscard(w)
      <4>1. [tree[w] EXCEPT !.dirty = ~tree[w].dirty] \in Trees
          BY <1>1 DEF Trees
      <4>2. Change(w, [tree[w] EXCEPT !.dirty = ~tree[w].dirty])
          BY <3>1 DEF EditOrDiscard
      <4>3. /\ [tree[w] EXCEPT !.dirty = ~tree[w].dirty].head = tree[w].head
            /\ [tree[w] EXCEPT !.dirty = ~tree[w].dirty].days = tree[w].days
          BY <1>1 DEF Trees
      <4> QED
          BY <4>1, <4>2, <4>3
    <3>2. CASE Switch(w)
      <4>1. [tree[w] EXCEPT !.attached = ~tree[w].attached] \in Trees
          BY <1>1 DEF Trees
      <4>2. Change(w, [tree[w] EXCEPT !.attached = ~tree[w].attached])
          BY <3>2 DEF Switch
      <4>3. /\ [tree[w] EXCEPT !.attached = ~tree[w].attached].head = tree[w].head
            /\ [tree[w] EXCEPT !.attached = ~tree[w].attached].days = tree[w].days
          BY <1>1 DEF Trees
      <4> QED
          BY <4>1, <4>2, <4>3
    <3>3. CASE Enter(w)
      <4>1. [tree[w] EXCEPT !.held = TRUE] \in Trees
          BY <1>1 DEF Trees
      <4>2. Change(w, [tree[w] EXCEPT !.held = TRUE])
          BY <3>3 DEF Enter
      <4>3. /\ [tree[w] EXCEPT !.held = TRUE].head = tree[w].head
            /\ [tree[w] EXCEPT !.held = TRUE].days = tree[w].days
          BY <1>1 DEF Trees
      <4> QED
          BY <4>1, <4>2, <4>3
    <3>4. CASE Leave(w)
      <4>1. [tree[w] EXCEPT !.held = FALSE] \in Trees
          BY <1>1 DEF Trees
      <4>2. Change(w, [tree[w] EXCEPT !.held = FALSE])
          BY <3>4 DEF Leave
      <4>3. /\ [tree[w] EXCEPT !.held = FALSE].head = tree[w].head
            /\ [tree[w] EXCEPT !.held = FALSE].days = tree[w].days
          BY <1>1 DEF Trees
      <4> QED
          BY <4>1, <4>2, <4>3
    <3>5. CASE Protect(w)
      <4>1. [tree[w] EXCEPT !.leased = ~tree[w].leased] \in Trees
          BY <1>1 DEF Trees
      <4>2. Change(w, [tree[w] EXCEPT !.leased = ~tree[w].leased])
          BY <3>5 DEF Protect
      <4>3. /\ [tree[w] EXCEPT !.leased = ~tree[w].leased].head = tree[w].head
            /\ [tree[w] EXCEPT !.leased = ~tree[w].leased].days = tree[w].days
          BY <1>1 DEF Trees
      <4> QED
          BY <4>1, <4>2, <4>3
    <3>6. CASE PullRequestMoves(w)
      <4>1. PICK prs \in {(tree[w].prs \ {"open"}) \cup {"fresh"},
                          (tree[w].prs \ {"open", "closed"}) \cup {"open"},
                          (tree[w].prs \ {"open"}) \cup {"closed"}} :
                 Change(w, [tree[w] EXCEPT !.prs = prs])
          BY <3>6 DEF PullRequestMoves
      <4>2. prs \in SUBSET States
          BY <1>1 DEF Trees, States
      <4> QED
          BY <1>1, <4>1, <4>2 DEF Trees
    <3> QED
        BY <1>3, <3>1, <3>2, <3>3, <3>4, <3>5, <3>6
  <2>2. standing' \subseteq standing
      BY <1>3 DEF EditOrDiscard, Switch, Enter, Leave, Protect, PullRequestMoves
  <2> QED
      BY <1>1, <2>1, <2>2, ChangeKeeps
<1>4. CASE DayPasses
  <2>1. /\ tree' = [w \in Worktrees |->
                  [tree[w] EXCEPT !.days = IF @ < 2 THEN @ + 1 ELSE @,
                                  !.prs = IF "fresh" \in @ THEN (@ \ {"fresh"}) \cup {"merged"}
                                                           ELSE @]]
        /\ UNCHANGED <<config, short, plan, snapshot, pass, todo, current, pc, standing, late>>
      BY <1>4 DEF DayPasses, ghosts
  <2>2. ASSUME NEW w \in Worktrees
        PROVE  /\ tree'[w] \in Trees /\ tree'[w].head = tree[w].head
               /\ tree'[w].attached = tree[w].attached /\ tree'[w].days >= tree[w].days
               /\ tree'[w].prs = IF "fresh" \in tree[w].prs
                                 THEN (tree[w].prs \ {"fresh"}) \cup {"merged"} ELSE tree[w].prs
    <3> DEFINE n == IF tree[w].days < 2 THEN tree[w].days + 1 ELSE tree[w].days
               p == IF "fresh" \in tree[w].prs
                    THEN (tree[w].prs \ {"fresh"}) \cup {"merged"} ELSE tree[w].prs
    <3>1. n \in 0 .. 2 /\ n >= tree[w].days
        BY <1>1
    <3>2. p \in SUBSET States
        BY <1>1 DEF Trees, States
    <3>3. tree'[w] = [tree[w] EXCEPT !.days = n, !.prs = p]
        BY <2>1
    <3> HIDE DEF n, p
    <3>4. [tree[w] EXCEPT !.days = n] \in Trees
        BY <1>1, <3>1 DEF Trees
    <3>5. [[tree[w] EXCEPT !.days = n] EXCEPT !.prs = p] \in Trees
        BY <3>2, <3>4 DEF Trees
    <3>6. tree'[w] \in Trees
        BY <3>3, <3>5
    <3>7. /\ tree'[w].head = tree[w].head /\ tree'[w].attached = tree[w].attached
          /\ tree'[w].days = n /\ tree'[w].prs = p
        BY <1>1, <3>3 DEF Trees
    <3> QED
        BY <3>1, <3>6, <3>7 DEF p
  <2>3. tree' \in [Worktrees -> Trees]
      BY <2>1, <2>2
  <2>4. \A w \in Worktrees :
              /\ tree[w].head <= tree'[w].head
              /\ tree'[w].head = tree[w].head => tree'[w].days >= tree[w].days
              /\ w \notin late' => /\ tree'[w].head = tree[w].head
                                   /\ tree'[w].attached = tree[w].attached
                                   /\ \/ tree'[w].prs = tree[w].prs
                                      \/ /\ "fresh" \in tree[w].prs
                                         /\ tree'[w].prs = (tree[w].prs \ {"fresh"}) \cup {"merged"}
    <3>1. \A w \in Worktrees : tree[w].head <= tree[w].head
        BY <1>1, BoundAssumption
    <3> QED
        BY <2>2, <3>1
  <2> HIDE DEF WorktreeInv
  <2> QED
      BY <2>1, <2>3, <2>4, WorldKeeps
<1> QED
    BY <1>2, <1>3, <1>4 DEF World, Others

(* Every step of the worktrees keeps their invariant.                      *)
LEMMA WorktreeStep == WorktreeInv /\ [Next]_vars => WorktreeInv'
<1> SUFFICES ASSUME WorktreeInv, [Next]_vars PROVE WorktreeInv'
    OBVIOUS
<1>1. CASE Run
    BY <1>1, PlanningKeeps, PlanKeeps, NextWorktreeKeeps, RevalidationKeeps, SettleKeeps DEF Run
<1>2. CASE World
    BY <1>2, OutsideKeeps
<1>3. CASE UNCHANGED vars
    BY <1>3 DEF vars, WorktreeInv, WorktreeTypes, PlanInv, PassInv, LookInv, StayInv, PassClass, Pressed,
           Removals
<1> QED
    BY <1>1, <1>2, <1>3 DEF Next

(* Worktrees go only by the removal at hand.                               *)
LEMMA RemovedIsCurrent ==
    ASSUME WorktreeInv, Next, NEW w \in Worktrees, Removed(w)
    PROVE  RemoveWorktree /\ w = current
<1> USE DEF WorktreeInv, WorktreeTypes, Removed
<1>1. ASSUME NEW v \in Worktrees, NEW t, Change(v, t), t.exists = tree[v].exists PROVE FALSE
    BY <1>1 DEF Change
<1>2. ~World
  <2>1. ASSUME NEW v \in Worktrees,
               \/ Commit(v) \/ EditOrDiscard(v) \/ Switch(v) \/ Enter(v) \/ Leave(v)
               \/ Protect(v) \/ PullRequestMoves(v)
        PROVE  FALSE
    <3>1. tree[v] \in Trees
        OBVIOUS
    <3>2. CASE Commit(v)
        BY <1>1, <3>1, <3>2 DEF Commit, Trees
    <3>3. CASE EditOrDiscard(v) \/ Switch(v)
        BY <1>1, <3>1, <3>3 DEF EditOrDiscard, Switch, Trees
    <3>4. CASE Enter(v) \/ Leave(v) \/ Protect(v)
        BY <1>1, <3>1, <3>4 DEF Enter, Leave, Protect, Trees
    <3>5. CASE PullRequestMoves(v)
        BY <1>1, <3>1, <3>5 DEF PullRequestMoves, Trees
    <3> QED
        BY <2>1, <3>2, <3>3, <3>4, <3>5
  <2>2. ~DayPasses
    <3>1. ASSUME DayPasses PROVE FALSE
      <4>1. tree'[w] = [tree[w] EXCEPT !.days = IF @ < 2 THEN @ + 1 ELSE @,
                                       !.prs = IF "fresh" \in @
                                               THEN (@ \ {"fresh"}) \cup {"merged"} ELSE @]
          BY <3>1 DEF DayPasses
      <4>2. tree'[w].exists = tree[w].exists
          BY <4>1 DEF Trees
      <4> QED
          BY <4>2
    <3> QED
        BY <3>1
  <2> QED
      BY <2>1, <2>2 DEF World, Others
<1>3. RemoveWorktree
    BY <1>2 DEF Next, Run, CaptureInitial, CaptureRoutine, CapturePressure, PlanWorktree,
           RevalidatePullRequests, RevalidateOwnership, RefreshRoutine, NoRoutine, ExecutePressure,
           Finish, NextWorktree, RevalidateIdentity, Protected, GitRefuses, world
<1> QED
    BY <1>3 DEF RemoveWorktree

(* What a removal of a worktree owes to those in it,                       *)
LEMMA OccupiedStays ==
    ASSUME WorktreeInv, Next, NEW w \in Worktrees, Removed(w), config.policy \/ w \in snapshot.roots
    PROVE  w \notin standing
<1>1. pc = "guard" /\ w = current
    BY RemovedIsCurrent DEF RemoveWorktree
<1> QED
    BY <1>1 DEF WorktreeInv, WorktreeTypes, StayInv, PassInv, AtHand, OwnedBy

(* and what it owes to the rules.                                          *)
LEMMA RemovalIsJustified ==
    ASSUME WorktreeInv, Next, NEW w \in Worktrees, Removed(w)
    PROVE  ~tree[w].leased /\ ~tree[w].dirty /\ (w \in late \/ Eligible(w))
<1>1. /\ pc = "guard" /\ w = current /\ ~tree[w].leased /\ ~tree[w].dirty /\ tree[w].exists
    BY RemovedIsCurrent DEF RemoveWorktree
<1> SUFFICES ASSUME w \notin late PROVE Eligible(w)
    BY <1>1
<1>2. /\ plan[w] \in Decisions /\ plan[w] # NoRemoval /\ plan[w].class = PassClass
      /\ pass = "pressure" => Pressed
    BY <1>1 DEF WorktreeInv, WorktreeTypes, PassInv, AtHand, Removals
<1>3. /\ w # Current /\ tree[w].attached /\ tree[w].head = plan[w].head
      /\ plan[w].trigger = "Age" => tree[w].days >= DaysOf(plan[w])
    BY <1>1, <1>2 DEF WorktreeInv, PlanInv, LookInv
<1>4. tree[w].days \in Nat
    BY DEF WorktreeInv, WorktreeTypes, Trees
<1>5. plan[w].trigger = "Age" => tree[w].days >= EffectiveDays
    BY <1>2, <1>3, <1>4 DEF DaysOf, PassClass, EffectiveDays, StaleDays, PressureStaleDays
<1>6. CASE ~config.policy
    BY <1>1, <1>2, <1>3, <1>5, <1>6 DEF WorktreeInv, PlanInv, Eligible, Trigger
<1>7. CASE config.policy
  <2>1. EvidenceMatches(plan[w], tree[w].prs) /\ plan[w].trigger \in {"Age", "MergedPullRequest"}
      BY <1>1, <1>2, <1>7 DEF WorktreeInv, LookInv, Decisions, Triggers
  <2>2. CASE plan[w].trigger = "Age"
    <3>1. Lifecycle(tree[w].prs) \in {"None", "Closed"}
        BY <2>1, <2>2 DEF EvidenceMatches
    <3> QED
        BY <1>1, <1>3, <1>5, <2>2, <3>1 DEF Eligible, Trigger
  <2>3. CASE plan[w].trigger = "MergedPullRequest"
    <3>1. Lifecycle(tree[w].prs) = "Merged" /\ GraceIsOver(tree[w].prs)
        BY <2>1, <2>3 DEF EvidenceMatches
    <3> QED
        BY <1>1, <1>3, <1>7, <3>1 DEF Eligible, Trigger
  <2> QED
      BY <2>1, <2>2, <2>3
<1> QED
    BY <1>6, <1>7

----------------------------------------------------------------------------
(* An undisturbed run is thorough: the worktrees.                          *)

\* The run's rules condemn the worktree, and nobody is in it.
Due(w) == Eligible(w) /\ ~tree[w].held

\* The decision on it would be this.
Verdict(w) ==
    [trigger |-> Trigger(w), class |-> ClassOf(w), head |-> tree[w].head, prs |-> tree[w].prs]

\* A complete snapshot of worktrees that have their owners still.
Seen(s) == s.complete /\ s.owned \subseteq Held

\* A worktree that is due is decided as it is; a pass still has those of its class
\* before it, and only pressure leaves any for the pass after the routine one.
OnItsWay(w) ==
    /\ pc = "plan" => w \in todo \/ plan[w] = Verdict(w)
    /\ pc \in AtHand \cup {"execute"} =>
          /\ plan[w] = Verdict(w)
          /\ ClassOf(w) = PassClass => w \in todo \/ (pc \in AtHand /\ w = current)
    /\ pass = "pressure" => ClassOf(w) = "Pressure"
    /\ pc # "done"

\* Bounds are counted.
RunTypes == moves \in Nat /\ faults \in Nat

\* An undisturbed run loses no worktree that is due.
RunInv ==
    moves = 0 /\ faults = 0 =>
        /\ pc # "start" => Seen(initial)
        /\ pass = "pressure" \/ (pc = "execute" /\ todo # {}) \/ pc \in AtHand => Seen(snapshot)
        /\ \A w \in Worktrees : Due(w) => OnItsWay(w)

(* What a plan decides on a worktree that is due is not nothing.           *)
LEMMA VerdictIsADecision ==
    ASSUME WorktreeTypes, NEW w \in Worktrees, Due(w)
    PROVE  /\ Verdict(w) # NoRemoval /\ w # Current
           /\ Verdict(w).class = ClassOf(w) /\ ClassOf(w) \in Classes
           /\ ClassOf(w) = "Pressure" => Pressed
           /\ \A s : Seen(s) => Decide(w, s) = Verdict(w)
<1>1. Eligible(w) /\ w \notin Held
    BY DEF Due, Held
<1>2. Trigger(w) \in Triggers
    BY <1>1 DEF Eligible, Trigger, Triggers
<1>3. ClassOf(w) \in Classes /\ (ClassOf(w) = "Pressure" => Pressed)
    BY DEF ClassOf, Classes
<1>4. tree[w].head \in 0 .. MaxHead /\ tree[w].prs \in SUBSET States
    BY DEF WorktreeTypes, Trees
<1>5. Verdict(w) \in Decisions
    BY <1>2, <1>3, <1>4 DEF Verdict, Decisions
<1>6. \A s : Seen(s) => Decide(w, s) = Verdict(w)
    BY <1>1 DEF Seen, Decide, OwnedBy, Verdict
<1> QED
    BY <1>1, <1>3, <1>5, <1>6, NoRemovalAssumption DEF Verdict, Eligible

(* Space that is freed makes nothing due, and what is due is due as before. *)
LEMMA VerdictStays ==
    ASSUME WorktreeTypes, NEW w \in Worktrees, tree'[w] = tree[w], config' = config,
           short' \in {FALSE, short}, Due(w)'
    PROVE  Due(w) /\ Verdict(w)' = Verdict(w) /\ ClassOf(w)' = ClassOf(w)
<1>1. tree[w].days \in 0 .. 2 /\ short \in BOOLEAN /\ config.pressure \in BOOLEAN
    BY DEF WorktreeTypes, Trees
<1>2. Trigger(w)' # "none" /\ Eligible(w)' /\ ~tree[w].held
    BY DEF Due, Eligible
<1>3. Pressed' => Pressed
    BY <1>1 DEF Pressed
<1>4. Trigger(w)' = Trigger(w)
    BY <1>1, <1>2, <1>3 DEF Trigger, EffectiveDays, StaleDays, PressureStaleDays
<1>5. ClassOf(w)' = ClassOf(w)
    BY <1>1, <1>2, <1>3, <1>4 DEF ClassOf, Trigger, EffectiveDays, StaleDays, PressureStaleDays
<1>6. Eligible(w)
    BY <1>2, <1>4 DEF Eligible
<1>7. Verdict(w)' = Verdict(w)
    BY <1>4, <1>5 DEF Verdict
<1> QED
    BY <1>2, <1>5, <1>6, <1>7 DEF Due

(* A worktree that is due as planned passes every look of the revalidation. *)
LEMMA DueIsConfirmed ==
    ASSUME WorktreeTypes, NEW w \in Worktrees, Due(w), plan[w] = Verdict(w)
    PROVE  /\ tree[w].exists /\ ~tree[w].leased /\ AsPlanned(w)
           /\ config.policy => EvidenceMatches(plan[w], tree[w].prs)
<1>1. Eligible(w) /\ AsPlanned(w) /\ plan[w].trigger = Trigger(w) /\ plan[w].prs = tree[w].prs
    BY DEF Due, Verdict, AsPlanned, Eligible
<1>2. ASSUME config.policy PROVE EvidenceMatches(plan[w], tree[w].prs)
  <2>1. CASE Lifecycle(tree[w].prs) = "Merged"
    <3>1. GraceIsOver(tree[w].prs) /\ Trigger(w) = "MergedPullRequest"
        BY <1>1, <1>2, <2>1 DEF Eligible, Trigger
    <3>2. "merged" \in tree[w].prs
        BY <2>1, <3>1 DEF Lifecycle, GraceIsOver
    <3> QED
        BY <1>1, <2>1, <3>1, <3>2 DEF EvidenceMatches
  <2>2. CASE Lifecycle(tree[w].prs) # "Merged"
    <3>1. Trigger(w) = "Age" /\ Lifecycle(tree[w].prs) \in {"None", "Closed"}
        BY <1>1, <1>2, <2>2 DEF Eligible, Trigger, Lifecycle
    <3> QED
        BY <1>1, <3>1 DEF EvidenceMatches
  <2> QED
      BY <2>1, <2>2
<1> QED
    BY <1>1, <1>2 DEF Eligible

(* Steps that change nothing about the worktrees change no verdict.        *)
LEMMA VerdictsStand ==
    ASSUME UNCHANGED <<config, tree, short>>
    PROVE  /\ \A w \in Worktrees : /\ Due(w)' = Due(w) /\ Verdict(w)' = Verdict(w)
                                   /\ ClassOf(w)' = ClassOf(w)
           /\ \A s : Seen(s)' = Seen(s)
BY DEF Due, Eligible, Trigger, EffectiveDays, Pressed, ClassOf, Verdict, Seen, Held

(* The bounds are kept, and nothing is undisturbed after a disturbance.    *)
LEMMA RunCounts ==
    ASSUME RunTypes, [Next]_vars
    PROVE  /\ RunTypes'
           /\ moves' = 0 => moves = 0 /\ ~World
           /\ faults' = 0 => faults = 0
<1>1. moves' \in {moves, moves + 1} /\ (World => moves' = moves + 1)
    BY DEF Next, Run, World, world, vars, CaptureInitial, CaptureRoutine, CapturePressure, PlanWorktree,
           RevalidatePullRequests, RevalidateOwnership, RefreshRoutine, NoRoutine, ExecutePressure,
           Finish, NextWorktree, RevalidateIdentity, Protected, RemoveWorktree, GitRefuses,
           Commit, EditOrDiscard, Switch, Enter, Leave, Protect, PullRequestMoves, DayPasses, Change
<1>2. faults' \in {faults, faults + 1}
    BY DEF Next, Run, World, world, vars, CaptureInitial, CaptureRoutine, CapturePressure, PlanWorktree,
           RevalidatePullRequests, RevalidateOwnership, RefreshRoutine, NoRoutine, ExecutePressure,
           Finish, NextWorktree, RevalidateIdentity, Protected, RemoveWorktree, GitRefuses, Answered,
           Commit, EditOrDiscard, Switch, Enter, Leave, Protect, PullRequestMoves, DayPasses, Change
<1> QED
    BY <1>1, <1>2 DEF RunTypes

(* Captures and the turns from pass to pass lose nothing that is due.      *)
LEMMA TurnsAreThorough ==
    ASSUME WorktreeInv, RunTypes, RunInv, moves = 0, faults = 0, faults' = 0,
           \/ \E ok \in BOOLEAN : \/ CaptureInitial(ok) \/ CaptureRoutine(ok) \/ CapturePressure(ok)
           \/ RefreshRoutine \/ NoRoutine \/ ExecutePressure \/ Finish
    PROVE  RunInv'
<1> USE DEF world
<1>1. UNCHANGED <<config, tree, short, plan, current>>
    BY DEF CaptureInitial, CaptureRoutine, CapturePressure, RefreshRoutine, NoRoutine, ExecutePressure,
           Finish
<1>2. WorktreeTypes /\ \A w \in Worktrees : Due(w) => OnItsWay(w)
    BY DEF RunInv, WorktreeInv
<1>3. \A w \in Worktrees : /\ Due(w)' = Due(w) /\ Verdict(w)' = Verdict(w)
                           /\ ClassOf(w)' = ClassOf(w)
    BY <1>1, VerdictsStand
<1>4. \A s : Seen(s)' = Seen(s)
    BY <1>1, VerdictsStand
<1>5. \A roots \in SUBSET Worktrees : Seen(Snapshot(roots, TRUE))
    BY DEF Seen, Snapshot
<1>6. ASSUME NEW ok \in BOOLEAN, Answered(ok) PROVE ok
    BY <1>6 DEF Answered, RunTypes
<1>7. \A class : Removals(plan, class) \subseteq Worktrees
    BY DEF Removals
<1>8. ASSUME NEW w \in Worktrees, Due(w), plan[w] = Verdict(w)
      PROVE  w \in Removals(plan, ClassOf(w)) /\ (ClassOf(w) = "Pressure" => PressureGoesOn)
  <2>1. w \in Removals(plan, ClassOf(w)) /\ tree[w].exists /\ (ClassOf(w) = "Pressure" => Pressed)
      BY <1>2, <1>8, VerdictIsADecision DEF Removals, Due, Eligible
  <2> QED
      BY <2>1 DEF PressureGoesOn
<1>9. \A w \in Worktrees : Due(w) => w \in Others /\ ClassOf(w) \in {"Routine", "Pressure"}
    BY <1>2, VerdictIsADecision DEF Others, Classes
<1>10. pc = "execute" /\ pc' # "execute" /\ todo = {} =>
         \A w \in Worktrees : Due(w) => plan[w] = Verdict(w) /\ ClassOf(w) # PassClass
    BY <1>2 DEF OnItsWay, AtHand
<1>11. ASSUME NEW ok \in BOOLEAN, CaptureInitial(ok) PROVE RunInv'
  <2>1. Seen(initial)' /\ pc' = "plan" /\ todo' = Others /\ UNCHANGED <<snapshot, pass>> /\ pc = "start"
      BY <1>4, <1>5, <1>6, <1>11 DEF CaptureInitial
  <2>2. ASSUME NEW w \in Worktrees, Due(w) PROVE OnItsWay(w)'
      BY <1>2, <1>3, <1>9, <2>1, <2>2 DEF OnItsWay, AtHand
  <2> QED
      BY <1>3, <1>4, <2>1, <2>2 DEF RunInv, AtHand
<1>12. ASSUME NEW ok \in BOOLEAN, CaptureRoutine(ok) PROVE RunInv'
  <2>1. /\ pc = "plan" /\ todo = {} /\ pc' = "execute" /\ pass = "routine" /\ UNCHANGED <<initial, pass>>
        /\ snapshot' = Snapshot(Removals(plan, "Routine"), TRUE) /\ todo' = Removals(plan, "Routine")
      BY <1>6, <1>12 DEF CaptureRoutine
  <2>2. Seen(snapshot)'
      BY <1>4, <1>5, <1>7, <2>1
  <2>3. ASSUME NEW w \in Worktrees, Due(w) PROVE OnItsWay(w)'
      BY <1>1, <1>2, <1>3, <1>8, <2>1, <2>3 DEF OnItsWay, AtHand, PassClass
  <2> QED
      BY <1>3, <1>4, <2>1, <2>2, <2>3 DEF RunInv, AtHand
<1>13. ASSUME NEW ok \in BOOLEAN, CapturePressure(ok) PROVE RunInv'
  <2>1. /\ pc = "execute" /\ todo = {} /\ pc' = "plan" /\ pass = "routine" /\ pass' = "pressure"
        /\ snapshot' = Snapshot(Removals(plan, "Pressure"), TRUE) /\ todo' = Others /\ initial' = initial
      BY <1>6, <1>13 DEF CapturePressure
  <2>2. Seen(snapshot)'
      BY <1>4, <1>5, <1>7, <2>1
  <2>3. ASSUME NEW w \in Worktrees, Due(w) PROVE OnItsWay(w)'
      BY <1>1, <1>2, <1>3, <1>9, <1>10, <2>1, <2>3 DEF OnItsWay, AtHand, PassClass
  <2> QED
      BY <1>3, <1>4, <2>1, <2>2, <2>3 DEF RunInv, AtHand
<1>14. CASE RefreshRoutine
  <2>1. /\ pc = "plan" /\ pc' = "plan" /\ pass = "initial" /\ pass' = "routine" /\ todo' = Others
        /\ UNCHANGED <<initial, snapshot>>
      BY <1>14 DEF RefreshRoutine
  <2>2. ASSUME NEW w \in Worktrees, Due(w) PROVE OnItsWay(w)'
      BY <1>1, <1>2, <1>3, <1>9, <2>1, <2>2 DEF OnItsWay, AtHand
  <2> QED
      BY <1>3, <1>4, <2>1, <2>2 DEF RunInv, AtHand
<1>15. CASE NoRoutine
  <2>1. /\ pc = "plan" /\ pc' = "execute" /\ pass = "initial" /\ pass' = "routine" /\ todo = {} /\ todo' = {}
        /\ Removals(plan, "Routine") = {} /\ UNCHANGED <<initial, snapshot>>
      BY <1>15 DEF NoRoutine
  <2>2. ASSUME NEW w \in Worktrees, Due(w) PROVE OnItsWay(w)'
      BY <1>1, <1>2, <1>3, <1>8, <2>1, <2>2 DEF OnItsWay, AtHand, PassClass
  <2> QED
      BY <1>3, <1>4, <2>1, <2>2 DEF RunInv, AtHand
<1>16. CASE ExecutePressure
  <2>1. /\ pc = "plan" /\ pc' = "execute" /\ pass = "pressure" /\ todo = {} /\ todo' = Removals(plan, "Pressure")
        /\ UNCHANGED <<initial, snapshot, pass>>
      BY <1>16 DEF ExecutePressure
  <2>2. ASSUME NEW w \in Worktrees, Due(w) PROVE OnItsWay(w)'
      BY <1>1, <1>2, <1>3, <1>8, <2>1, <2>2 DEF OnItsWay, AtHand, PassClass
  <2> QED
      BY <1>3, <1>4, <2>1, <2>2 DEF RunInv, AtHand
<1>17. CASE Finish
  <2>1. /\ pc = "execute" /\ pc' = "done" /\ todo = {} /\ (pass = "pressure" \/ ~PressureGoesOn)
        /\ UNCHANGED <<initial, snapshot, pass, todo>>
      BY <1>17 DEF Finish
  <2>2. \A w \in Worktrees : ~Due(w)
      BY <1>2, <1>8, <1>9, <1>10, <2>1 DEF PassClass, OnItsWay
  <2> QED
      BY <1>3, <1>4, <2>1, <2>2 DEF RunInv, AtHand
<1> QED
    BY <1>11, <1>12, <1>13, <1>14, <1>15, <1>16, <1>17

(* A worktree that is due is planned as what it is.                        *)
LEMMA PlanIsThorough ==
    ASSUME WorktreeInv, RunTypes, RunInv, moves = 0, faults = 0, faults' = 0,
           NEW v \in Worktrees, NEW ok \in BOOLEAN, PlanWorktree(v, ok)
    PROVE  RunInv'
<1> USE DEF world
<1>1. /\ pc = "plan" /\ pc' = "plan" /\ todo' = todo \ {v}
      /\ UNCHANGED <<config, tree, short, initial, snapshot, pass, current>>
      /\ plan' = [plan EXCEPT ![v] = Decide(v, Evidence)]
  <2>1. ok
      BY DEF PlanWorktree, Answered, RunTypes
  <2>2. (IF config.policy /\ ~ok THEN NoRemoval ELSE Decide(v, Evidence)) = Decide(v, Evidence)
      BY <2>1
  <2> QED
      BY <2>2 DEF PlanWorktree
<1>2. WorktreeTypes /\ Seen(initial) /\ (pass = "pressure" => Seen(snapshot))
    BY <1>1 DEF RunInv, WorktreeInv
<1>3. \A s : Seen(s)' = Seen(s)
    BY <1>1, VerdictsStand
<1>4. \A w \in Worktrees : Due(w)' = Due(w) /\ Verdict(w)' = Verdict(w) /\ ClassOf(w)' = ClassOf(w)
    BY <1>1, VerdictsStand
<1>5. \A w \in Worktrees : plan'[w] = IF w = v THEN Decide(v, Evidence) ELSE plan[w]
    BY <1>1, <1>2 DEF WorktreeTypes
<1>6. Seen(Evidence)
    BY <1>2 DEF Evidence
<1>7. ASSUME NEW w \in Worktrees, Due(w) PROVE OnItsWay(w)'
  <2>1. OnItsWay(w)
      BY <1>7 DEF RunInv
  <2>2. w = v => plan'[w] = Verdict(w)
      BY <1>2, <1>5, <1>6, <1>7, VerdictIsADecision
  <2> QED
      BY <1>1, <1>4, <1>5, <2>1, <2>2 DEF OnItsWay, AtHand
<1> QED
    BY <1>1, <1>2, <1>3, <1>4, <1>7 DEF RunInv, AtHand

(* With a worktree at hand, a pass turns to the next one or goes on with it. *)
LEMMA WorkIsThorough ==
    ASSUME WorktreeInv, RunTypes, RunInv, moves = 0, faults = 0, faults' = 0,
           \/ \E w \in Worktrees : NextWorktree(w)
           \/ RevalidateIdentity \/ Protected
           \/ \E ok \in BOOLEAN : RevalidatePullRequests(ok) \/ RevalidateOwnership(ok)
    PROVE  RunInv'
<1> USE DEF world
<1>1. /\ pc \in AtHand \cup {"execute"} /\ pc' \in AtHand \cup {"execute"}
      /\ UNCHANGED <<config, tree, short, plan, initial, snapshot, pass>> /\ todo' \subseteq todo
    BY DEF NextWorktree, RevalidateIdentity, Protected, RevalidatePullRequests, RevalidateOwnership, Keep,
           AtHand
<1>2. /\ WorktreeTypes /\ (pc = "execute" /\ todo # {} => Seen(snapshot)) /\ (pc \in AtHand => Seen(snapshot))
      /\ PassInv /\ Seen(initial)
    BY <1>1 DEF RunInv, WorktreeInv, AtHand
<1>3. \A s : Seen(s)' = Seen(s)
    BY <1>1, VerdictsStand
<1>4. \A w \in Worktrees : Due(w)' = Due(w) /\ Verdict(w)' = Verdict(w) /\ ClassOf(w)' = ClassOf(w)
    BY <1>1, VerdictsStand
<1>5. Seen(snapshot) /\ (pass = "pressure" => Seen(snapshot))
  <2>1. pc = "execute" => todo # {}
      BY DEF NextWorktree, RevalidateIdentity, Protected, RevalidatePullRequests, RevalidateOwnership
  <2> QED
      BY <1>1, <1>2, <2>1
<1>6. ASSUME NEW w \in Worktrees, Due(w), w \notin todo', ClassOf(w) = PassClass
      PROVE  pc' \in AtHand /\ w = current'
  <2>1. OnItsWay(w) /\ plan[w] = Verdict(w) /\ (w \in todo \/ (pc \in AtHand /\ w = current))
      BY <1>1, <1>6 DEF RunInv, OnItsWay
  <2>2. /\ tree[w].exists /\ ~tree[w].leased /\ AsPlanned(w) /\ ~tree[w].held
        /\ config.policy => EvidenceMatches(plan[w], tree[w].prs)
      BY <1>2, <1>6, <2>1, DueIsConfirmed DEF Due
  <2>3. (ClassOf(w) = "Pressure" => Pressed) /\ w \notin OwnedBy(snapshot)
      BY <1>2, <1>5, <1>6, <2>2, VerdictIsADecision DEF Seen, OwnedBy, Held
  <2>4. ASSUME NEW u \in Worktrees, NextWorktree(u) PROVE pc' \in AtHand /\ w = current'
    <3>1. pc = "execute" /\ todo' = todo \ {u}
        BY <2>4 DEF NextWorktree
    <3>2. w = u
        BY <1>6, <2>1, <3>1 DEF AtHand
    <3>3. pass = "pressure" => Pressed
        BY <1>6, <2>3 DEF PassClass
    <3> QED
        BY <2>2, <2>3, <2>4, <3>2, <3>3 DEF NextWorktree, AtHand
  <2>5. ASSUME ~\E u \in Worktrees : NextWorktree(u) PROVE todo' = todo /\ w = current
    <3>1. todo' = todo
        BY <2>5 DEF RevalidateIdentity, Protected, RevalidatePullRequests, RevalidateOwnership
    <3> QED
        BY <1>6, <2>1, <3>1
  <2>6. CASE RevalidateIdentity /\ w = current
      BY <2>2, <2>6 DEF RevalidateIdentity, AtHand
  <2>7. ASSUME NEW ok \in BOOLEAN, RevalidatePullRequests(ok), w = current PROVE pc' \in AtHand /\ w = current'
    <3>1. ok /\ pc = "evidence"
        BY <2>7 DEF RevalidatePullRequests, Answered, RunTypes
    <3>2. config.policy
        BY <1>2, <3>1 DEF PassInv
    <3> QED
        BY <2>2, <2>7, <3>1, <3>2 DEF RevalidatePullRequests, AtHand
  <2>8. ASSUME NEW ok \in BOOLEAN, RevalidateOwnership(ok), w = current PROVE pc' \in AtHand /\ w = current'
    <3>1. ok
        BY <2>8 DEF RevalidateOwnership, Answered, RunTypes
    <3> QED
        BY <2>2, <2>8, <3>1 DEF RevalidateOwnership, AtHand
  <2>9. ~(Protected /\ w = current)
      BY <2>2 DEF Protected
  <2> QED
      BY <2>4, <2>5, <2>6, <2>7, <2>8, <2>9
<1>7. ASSUME NEW w \in Worktrees, Due(w) PROVE OnItsWay(w)'
  <2>1. OnItsWay(w)
      BY <1>7 DEF RunInv
  <2>2. PassClass' = PassClass
      BY <1>1 DEF PassClass
  <2>3. plan'[w] = Verdict(w)' /\ (pass' = "pressure" => ClassOf(w)' = "Pressure")
      BY <1>1, <1>4, <2>1 DEF OnItsWay
  <2>4. ClassOf(w)' = PassClass' => w \in todo' \/ (pc' \in AtHand /\ w = current')
      BY <1>4, <1>6, <1>7, <2>2
  <2> QED
      BY <1>1, <2>3, <2>4 DEF OnItsWay, AtHand
<1> QED
    BY <1>1, <1>2, <1>3, <1>4, <1>5, <1>7 DEF RunInv, AtHand

(* `git worktree remove` removes what is due, or ends the run.             *)
LEMMA RemovalIsThorough ==
    ASSUME WorktreeInv, RunTypes, RunInv, moves = 0, faults = 0, faults' = 0, RemoveWorktree \/ GitRefuses
    PROVE  RunInv'
<1> USE DEF world
<1>1. WorktreeTypes /\ pc = "guard" /\ Seen(snapshot) /\ Seen(initial)
    BY DEF RunInv, WorktreeInv, AtHand, RemoveWorktree, GitRefuses
<1>2. CASE GitRefuses
  <2>1. pc' = "aborted" /\ UNCHANGED <<config, tree, short, plan, initial, snapshot, pass, todo, current>>
      BY <1>2 DEF GitRefuses
  <2>2. Seen(snapshot)' /\ Seen(initial)' /\ \A w \in Worktrees : Due(w)' = Due(w) /\ ClassOf(w)' = ClassOf(w)
      BY <1>1, <2>1, VerdictsStand
  <2>3. ASSUME NEW w \in Worktrees, Due(w) PROVE OnItsWay(w)'
    <3>1. OnItsWay(w)
        BY <2>3 DEF RunInv
    <3> QED
        BY <2>1, <2>2, <3>1 DEF OnItsWay, AtHand
  <2> QED
      BY <2>1, <2>2, <2>3 DEF RunInv, AtHand
<1>3. CASE RemoveWorktree
  <2>1. /\ pc' = "execute" /\ UNCHANGED <<config, plan, initial, snapshot, pass, todo, current>>
        /\ tree' = [tree EXCEPT ![current] = [tree[current] EXCEPT !.exists = FALSE]]
        /\ short' \in {FALSE, short}
      BY <1>3 DEF RemoveWorktree, Keep
  <2>2. current \in Worktrees /\ tree[current] \in Trees
      BY <1>1 DEF WorktreeTypes
  <2>3. \A t \in Trees : [t EXCEPT !.exists = FALSE].held = t.held /\ ~[t EXCEPT !.exists = FALSE].exists
      BY DEF Trees
  <2>4. tree'[current] = [tree[current] EXCEPT !.exists = FALSE]
        /\ \A w \in Worktrees \ {current} : tree'[w] = tree[w]
      BY <1>1, <2>1 DEF WorktreeTypes
  <2>5. Held' = Held /\ ~tree'[current].exists
      BY <2>2, <2>3, <2>4 DEF Held
  <2>6. Seen(snapshot)' /\ Seen(initial)'
      BY <1>1, <2>1, <2>5 DEF Seen
  <2>7. ASSUME NEW w \in Worktrees, Due(w)' PROVE OnItsWay(w)'
    <3>1. w # current
        BY <2>5, <2>7 DEF Due, Eligible
    <3>2. Due(w) /\ Verdict(w)' = Verdict(w) /\ ClassOf(w)' = ClassOf(w)
        BY <1>1, <2>1, <2>4, <2>7, <3>1, VerdictStays
    <3>3. OnItsWay(w)
        BY <3>2 DEF RunInv
    <3> QED
        BY <1>1, <2>1, <3>1, <3>2, <3>3 DEF OnItsWay, AtHand, PassClass
  <2> QED
      BY <2>1, <2>6, <2>7 DEF RunInv, AtHand
<1> QED
    BY <1>2, <1>3

(* So it is with every step.                                               *)
LEMMA RunStep == WorktreeInv /\ RunTypes /\ RunInv /\ [Next]_vars => (RunTypes /\ RunInv)'
<1> SUFFICES ASSUME WorktreeInv, RunTypes, RunInv, [Next]_vars, moves' = 0, faults' = 0
             PROVE  RunInv'
    BY RunCounts DEF RunInv
<1>1. moves = 0 /\ faults = 0 /\ ~World
    BY RunCounts
<1>2. CASE UNCHANGED vars
  <2>1. /\ \A w \in Worktrees : Due(w)' = Due(w) /\ Verdict(w)' = Verdict(w) /\ ClassOf(w)' = ClassOf(w)
        /\ \A s : Seen(s)' = Seen(s)
      BY <1>2, VerdictsStand DEF vars
  <2>2. \A w \in Worktrees : OnItsWay(w) => OnItsWay(w)'
      BY <1>2, <2>1 DEF vars, OnItsWay, AtHand, PassClass
  <2> QED
      BY <1>1, <1>2, <2>1, <2>2 DEF RunInv, vars, AtHand
<1>3. CASE Run
    BY <1>1, <1>3, TurnsAreThorough, PlanIsThorough, WorkIsThorough, RemovalIsThorough DEF Run
<1> QED
    BY <1>1, <1>2, <1>3 DEF Next

(* The start is no decision, and a run that is over has none left to make. *)
LEMMA RunStarts == Init \/ WorktreesIdle => RunTypes /\ RunInv
<1>1. Init \/ WorktreesIdle => pc = "start" /\ pass = "initial" /\ moves = 0 /\ faults = 0
    BY DEF Init, WorktreesIdle
<1> QED
    BY <1>1 DEF RunTypes, RunInv, OnItsWay, AtHand

LEMMA RunIsThorough == RunInv => UndisturbedRunIsThorough
BY DEF RunInv, OnItsWay, Due, UndisturbedRunIsThorough

----------------------------------------------------------------------------
(* An undisturbed run is thorough: the directories.                        *)

\* Nobody and no lease keeps the place.
Unclaimed(x) == ~Leased(x) /\ (settings.inUse => Tree[x] \cap people = {})

\* The rules of the directory and of all it contains condemn it.
Doomed(d) ==
    /\ d \in there /\ ~Leased(d)
    /\ dir[d].kind = "Delete" /\ ~dir[d].tracked /\ ~Recent(d, Windows.routine)
    /\ settings.inUse => Tree[HomeOf[d]] \cap people = {}
    /\ \A e \in Tree[d] \cap Dirs : Expendable(e) /\ dir[e].sweep # "refused"
    /\ Coordinated(d)

\* What a scan of everything finds, and what the first reconciliation leaves of it.
Judgement == [d \in Dirs |-> Judge(d)]
Going     == {w \in Checkouts : RemovesWhole(w)}
Planned   == Structural(Judgement)
Leaving   == StillRemoved(Judgement, Going)

\* What is planned to go alone.
Measurable == {d \in Dirs : Planned[d].action = "Delete" /\ ~InRemoval(d, Leaving)}

\* The first snapshot shows everybody.
EverybodySeen ==
    /\ ownership.complete /\ ownership.held \subseteq people
    /\ \A w \in Checkouts : Tree[w] \cap people \subseteq ownership.held

\* Nothing is gone before the pass begins, and every scan finds the same.
ScanInv ==
    /\ stage \in {"capture", "plan", "measure", "refresh", "confirm"} => there = Places
    /\ stage \in {"plan", "measure", "refresh"} => EverybodySeen
    /\ stage \in {"plan", "refresh"} =>
          /\ \A d \in Dirs : HomeOf[d] \notin queue => decision[d] = Judge(d)
          /\ \A w \in Checkouts \ queue : w \in removal <=> RemovesWhole(w)
    /\ stage = "measure" =>
          /\ decision = Planned /\ removal = Leaving
          /\ \A d \in Measurable : /\ identity[d] = Identity(d)
                                   /\ d \in queue \/ measured[d] = Identity(d)
    /\ stage = "refresh" => \A d \in Measurable : measured[d] = Identity(d)

\* Whatever is doomed is before the run, and what keeps a directory from being
\* doomed is not taken from it.
FateInv ==
    /\ stage \in {"confirm", "delete", "sweep", "worktrees"} => \A w \in removal : Unclaimed(w)
    /\ stage \in {"confirm", "delete"} =>
          \A d \in Dirs : decision[d].work => dir[d].sweep # "refused"
    /\ stage \in {"delete", "sweep", "worktrees"} =>
          ownership.complete /\ ownership.held \subseteq people
    /\ stage = "confirm" => \A d \in Dirs : Doomed(d) => d \in Deletions
    /\ stage = "delete" => \A d \in Dirs : Doomed(d) => d \in queue \/ InRemoval(d, removal)
    /\ stage = "sweep" => /\ \A d \in queue : dir[d].sweep # "refused"
                          /\ \A d \in Dirs : Doomed(d) => InRemoval(d, removal)
    /\ stage = "worktrees" => \A d \in Dirs : Doomed(d) => InRemoval(d, queue)
    /\ stage = "done" => \A d \in Dirs : ~Doomed(d)

\* Bounds are counted, and an identity is a number, 0 for none.
PassTypes ==
    /\ events \in Nat /\ failures \in Nat
    /\ identity \in [Dirs -> Nat] /\ measured \in [Dirs -> Nat]

\* An undisturbed run loses no directory that is doomed.
ThoroughInv == events = 0 /\ failures = 0 => ScanInv /\ FateInv

(* What lies in a place lies in all the places around it, ...              *)
LEMMA Below ==
    ASSUME NEW x \in Places, NEW y \in Tree[x]
    PROVE  y \in Places /\ Tree[y] \subseteq Tree[x]
BY TreeAssumption

(* ... and so are its claims: a place in one that is free of them is free. *)
LEMMA ClaimsReachUp ==
    ASSUME DirectoryTypes, NEW x \in Places, NEW y \in Tree[x], ~Leased(x)
    PROVE  ~Leased(y)
<1> SUFFICES ASSUME NEW p \in leases, y \in Tree[p] \/ p \in Tree[y] PROVE FALSE
    BY DEF Leased
<1>1. p \in Places /\ Tree[y] \subseteq Tree[x] /\ p \notin Tree[x] /\ x \notin Tree[p]
    BY Below DEF Leased, DirectoryTypes
<1>2. y \in Tree[p] \cap Tree[x]
    BY <1>1
<1> QED
    BY <1>1, <1>2, TreeAssumption

(* A directory that is doomed is condemned, and nothing in it is retained. *)
LEMMA DoomedIsCondemned ==
    ASSUME DirectoryTypes, EverybodySeen, NEW d \in Dirs, Doomed(d)
    PROVE  /\ Judge(d).action = "Delete" /\ Judge(d).class = "Routine"
           /\ Tree[d] \cap Retained(Judgement) = {}
<1>1. Dirs \subseteq Places /\ HomeOf[d] \in Places /\ d \in Tree[HomeOf[d]] /\ d \in Tree[d]
    BY HomeAssumption, TreeAssumption DEF Places
<1>2. Tree[d] \subseteq Tree[HomeOf[d]] /\ ~Leased(d)
    BY <1>1, Below DEF Doomed
<1>3. /\ settings.pressure \in {"off", "window", "ownerFree"}
      /\ settings.pressure = "ownerFree" => settings.inUse
    BY DEF DirectoryTypes, Settings
<1>4. \A x \in Places : Tree[x] \subseteq Tree[HomeOf[d]] => ~Open(x)
    BY DEF Open, EverybodySeen, Doomed
<1>5. \A e \in Dirs : dir[e].days \in 0 .. 2 /\ age[HomeOf[e]] \in 0 .. 2
    BY HomeAssumption DEF DirectoryTypes, Directories
<1>6. \A e \in Dirs : Recent(e, Window) => Recent(e, Windows.routine)
    BY <1>5 DEF Recent, SampledAge, Window, Windows
<1>7. ASSUME NEW e \in Dirs, e \in Tree[d]
      PROVE  ~Leased(e) /\ ~Open(e) /\ ~Open(HomeOf[e])
  <2>1. ~Leased(e) /\ Tree[e] \subseteq Tree[HomeOf[d]]
      BY <1>1, <1>2, <1>7, Below, ClaimsReachUp
  <2>2. Tree[HomeOf[e]] \subseteq Tree[HomeOf[d]] /\ HomeOf[e] \in Places
    <3>1. CASE e = d
        BY <1>1, <3>1
    <3>2. CASE e # d
      <4>1. HomeOf[e] \in Tree[d]
          BY <1>1, <1>7, <3>2, HomeAssumption
      <4> QED
          BY <1>1, <1>2, <4>1, Below
    <3> QED
        BY <3>1, <3>2
  <2> QED
      BY <1>1, <1>4, <2>1, <2>2
<1>8. ASSUME NEW e \in Dirs, e \in Tree[d], dir[e].kind # "ReportOnly"
      PROVE  /\ dir[e].kind = "Delete" /\ ~dir[e].tracked
             /\ settings.pressure = "ownerFree" \/ ~Recent(e, Window)
    BY <1>8 DEF Doomed, Expendable
<1>9. ASSUME NEW e \in Dirs, e \in Tree[d], dir[e].kind # "ReportOnly"
      PROVE  ActionOn(e) = "Delete"
  <2>1. ~Withheld(e)
      BY <1>3, <1>7, <1>9 DEF Withheld, OwnerFreeCandidate, CompleteEvidence, EverybodySeen
  <2>2. Condemned(e)
    <3>1. CASE ~Recent(e, Window)
        BY <1>7, <1>8, <1>9, <3>1 DEF Condemned
    <3>2. CASE Recent(e, Window)
      <4>1. settings.pressure = "ownerFree" /\ settings.inUse /\ Recent(e, Windows.routine)
          BY <1>3, <1>6, <1>8, <1>9, <3>2
      <4>2. OwnerFree(e)
          BY <1>7, <1>8, <1>9, <4>1 DEF OwnerFree, OwnerFreeCandidate, CompleteEvidence, EverybodySeen
      <4> QED
          BY <1>7, <1>8, <1>9, <4>2 DEF Condemned
    <3> QED
        BY <3>1, <3>2
  <2> QED
      BY <1>9, <2>1, <2>2 DEF ActionOn
<1>10. ASSUME NEW e \in Dirs, e \in Tree[d] PROVE e \notin Retained(Judgement)
  <2>1. Judge(e).action \in {"Delete", "ReportOnly"}
      BY <1>9, <1>10 DEF Judge, ActionOn
  <2>2. ~Judge(e).refused
      BY <1>10 DEF Judge, Doomed
  <2> QED
      BY <2>1, <2>2 DEF Retained, Judgement
<1>11. Judge(d).action = "Delete" /\ Judge(d).class = "Routine"
    BY <1>1, <1>9 DEF Judge, Doomed
<1> QED
    BY <1>10, <1>11 DEF Retained

(* Reconciling depends on the decisions alone.                             *)
LEMMA SameReconciled ==
    ASSUME NEW dec1, NEW dec2, \A d \in Dirs : dec1[d] = dec2[d]
    PROVE  /\ Structural(dec1) = Structural(dec2)
           /\ \A rem : StillRemoved(dec1, rem) = StillRemoved(dec2, rem)
<1>1. Retained(dec1) = Retained(dec2)
    BY DEF Retained
<1> QED
    BY <1>1 DEF Structural, StillRemoved

(* What two reconciliations of a scan leave: whatever is doomed, and       *)
(* nothing that is claimed.                                                *)
LEMMA Settled ==
    ASSUME DirectoryTypes, EverybodySeen
    PROVE  /\ \A d \in Dirs : Doomed(d) => /\ Structural(Planned)[d].action = "Delete"
                                           /\ Structural(Planned)[d].class = "Routine"
           /\ \A d \in Dirs : Structural(Planned)[d].work => dir[d].sweep # "refused"
           /\ \A w \in StillRemoved(Planned, Leaving) : Unclaimed(w)
<1>1. Records(Judgement)
    BY JudgeRecords DEF Records, Judgement
<1>2. Records(Planned)
    BY <1>1, StructuralCloses DEF Planned
<1>3. ASSUME NEW d \in Dirs, Doomed(d) PROVE Structural(Planned)[d] = Judge(d)
  <2>1. Tree[d] \cap Retained(Judgement) = {} /\ d \in Places
      BY <1>3, DoomedIsCondemned DEF Places
  <2>2. Tree[d] \cap Retained(Planned) = {}
      BY <1>1, <2>1, NothingArises DEF Planned
  <2> QED
      BY <2>1, <2>2 DEF Structural, Planned, Judgement
<1>4. ASSUME NEW dec, Records(dec), NEW d \in Dirs PROVE Structural(dec)[d].work = dec[d].work
  <2>1. Record(dec[d])
      BY <1>4 DEF Records
  <2>2. [dec[d] EXCEPT !.action = "Skip"].work = dec[d].work
      BY <2>1 DEF Record
  <2> QED
      BY <2>2 DEF Structural
<1>5. ASSUME NEW d \in Dirs, Structural(Planned)[d].work PROVE dir[d].sweep # "refused"
  <2>1. Judge(d).work
      BY <1>1, <1>2, <1>4, <1>5 DEF Planned, Judgement
  <2> QED
      BY <2>1 DEF Judge, HasWork
<1>6. ASSUME NEW w \in StillRemoved(Planned, Leaving) PROVE Unclaimed(w)
  <2>1. w \in Checkouts /\ RemovesWhole(w)
      BY <1>6 DEF StillRemoved, Leaving, Going
  <2> QED
      BY <2>1 DEF RemovesWhole, Open, EverybodySeen, Unclaimed
<1> QED
    BY <1>3, <1>5, <1>6, DoomedIsCondemned

(* A complete measurement takes no authority away.                         *)
LEMMA MeasuredIsAuthorized ==
    ASSUME DirectoryTypes, NEW m, \A d \in Measurable : m[d] = Identity(d)
    PROVE  \A d \in Dirs : Authorized(Planned, Leaving, m)[d] = Planned[d]
<1>1. \A d \in Dirs : Identity(d) # 0
    BY OpeningsAssumption DEF Identity, DirectoryTypes, Directories
<1> QED
    BY <1>1 DEF Authorized, Measurable

(* Scans and what is planned from them change with what is scanned.        *)
LEMMA ScansAgree ==
    ASSUME UNCHANGED <<settings, tidy, there, dir, age, leases, people, ownership>>
    PROVE  /\ \A d \in Dirs : Judge(d)' = Judge(d) /\ Identity(d)' = Identity(d) /\ Doomed(d)' = Doomed(d)
           /\ \A w \in Checkouts : RemovesWhole(w)' = RemovesWhole(w)
           /\ \A w : Unclaimed(w)' = Unclaimed(w)
           /\ EverybodySeen' = EverybodySeen
           /\ Planned' = Planned /\ Leaving' = Leaving /\ Measurable' = Measurable
<1>1. \A x : Leased(x)' = Leased(x) /\ Open(x)' = Open(x)
    BY DEF Leased, Open
<1>2. \A d, n : Recent(d, n)' = Recent(d, n)
    BY DEF Recent, SampledAge
<1>3. Window' = Window
    BY DEF Window
<1>4. \A d : /\ Withheld(d)' = Withheld(d) /\ Condemned(d)' = Condemned(d) /\ Sweepable(d)' = Sweepable(d)
    BY <1>1, <1>2, <1>3 DEF Withheld, Condemned, Sweepable, OwnerFree, OwnerFreeCandidate, CompleteEvidence
<1>5. \A d : HasWork(d)' = HasWork(d)
    BY <1>4 DEF HasWork
<1>6. \A d : ActionOn(d)' = ActionOn(d)
    BY <1>4, <1>5 DEF ActionOn
<1>7. \A d : Judge(d)' = Judge(d)
    BY <1>2, <1>4, <1>5, <1>6 DEF Judge
<1>8. \A d : Expendable(d)' = Expendable(d)
    BY <1>2, <1>3 DEF Expendable
<1>9. \A d : Doomed(d)' = Doomed(d)
    BY <1>1, <1>2, <1>8 DEF Doomed, Coordinated
<1>10. \A w : RemovesWhole(w)' = RemovesWhole(w)
    BY <1>1 DEF RemovesWhole
<1>11. Judgement' = Judgement /\ Going' = Going
    BY <1>7, <1>10 DEF Judgement, Going
<1>12. Planned' = Planned
    BY <1>11 DEF Planned, Structural, Retained
<1>13. Leaving' = Leaving
    BY <1>11 DEF Leaving, StillRemoved, Retained
<1>14. Measurable' = Measurable
    BY <1>12, <1>13 DEF Measurable, InRemoval
<1>15. \A d : Identity(d)' = Identity(d)
    BY DEF Identity
<1> QED
    BY <1>1, <1>7, <1>9, <1>10, <1>12, <1>13, <1>14, <1>15 DEF Unclaimed, EverybodySeen

(* The bounds are kept, and nothing is undisturbed after a disturbance.    *)
LEMMA PassCounts ==
    ASSUME DirectoryTypes, PassTypes, [CleanupNext]_cleanupVars
    PROVE  /\ PassTypes'
           /\ events' = 0 => events = 0 /\ ~Surroundings
           /\ failures' = 0 => failures = 0
<1>1. events' \in {events, events + 1} /\ (Surroundings => events' = events + 1)
    BY DEF CleanupNext, CleanupRun, Surroundings, surroundings, cleanupVars, CaptureRoots, CapturePass,
           Remeasure, Measure, Scan, RemoveCheckout, DeleteDirectory, KeepDirectory, LocksTimeOut,
           SweepDirectory, PlanMeasurement, EndMeasurement, Carry, EndDeletions, EndSweeps,
           Write, Discard, Rebuild, Track, EnterOrLeave, LeaseOrRelease, EditSource, DaysPass, Event
<1>2. failures' \in {failures, failures + 1}
    BY DEF CleanupNext, CleanupRun, Surroundings, surroundings, cleanupVars, CaptureRoots, CapturePass,
           Remeasure, Measure, Scan, RemoveCheckout, DeleteDirectory, KeepDirectory, LocksTimeOut, Probe,
           SweepDirectory, PlanMeasurement, EndMeasurement, Carry, EndDeletions, EndSweeps,
           Write, Discard, Rebuild, Track, EnterOrLeave, LeaseOrRelease, EditSource, DaysPass, Event
<1>3. \A d \in Dirs : Identity(d) \in Nat
    BY OpeningsAssumption DEF Identity, DirectoryTypes, Directories
<1>4. identity' \in [Dirs -> Nat] /\ measured' \in [Dirs -> Nat]
  <2>1. UNCHANGED <<identity, measured>> => identity' \in [Dirs -> Nat] /\ measured' \in [Dirs -> Nat]
      BY DEF PassTypes
  <2>2. CASE PlanMeasurement
      BY <1>3, <2>2 DEF PlanMeasurement, PassTypes
  <2>3. ASSUME NEW d \in Dirs, NEW ok \in BOOLEAN, Measure(d, ok)
        PROVE  identity' \in [Dirs -> Nat] /\ measured' \in [Dirs -> Nat]
    <3>1. PICK n \in Nat : measured' = [measured EXCEPT ![d] = n]
        BY <2>3 DEF Measure, PassTypes
    <3> QED
        BY <2>3, <3>1 DEF Measure, PassTypes
  <2>4. CASE Carry
      BY <2>4 DEF Carry, CarriedByIdentity, PassTypes
  <2>5. ASSUME NEW ok \in BOOLEAN, Remeasure(ok)
        PROVE  identity' \in [Dirs -> Nat] /\ measured' \in [Dirs -> Nat]
      BY <1>3, <2>5 DEF Remeasure, PassTypes
  <2>6. Surroundings => UNCHANGED <<identity, measured>>
      BY DEF Surroundings, judgement, Write, Discard, Rebuild, Track, EnterOrLeave, LeaseOrRelease,
             EditSource, DaysPass, Event
  <2>7. \/ UNCHANGED <<identity, measured>> \/ PlanMeasurement \/ Carry
        \/ \E ok \in BOOLEAN : Remeasure(ok) \/ \E d \in Dirs : Measure(d, ok)
      BY <2>6 DEF CleanupNext, CleanupRun, judgement, cleanupVars, CaptureRoots, CapturePass, Scan,
             RemoveCheckout, DeleteDirectory, KeepDirectory, LocksTimeOut, SweepDirectory, EndMeasurement,
             EndDeletions, EndSweeps
  <2> QED
      BY <2>1, <2>2, <2>3, <2>4, <2>5, <2>7
<1> QED
    BY <1>1, <1>2, <1>4 DEF PassTypes

(* The stages up to the snapshot of the pass.                              *)
LEMMA ScansAreThorough ==
    ASSUME DirectoryInv, PassTypes, ScanInv, FateInv, failures = 0, failures' = 0,
           \/ \E ok \in BOOLEAN : CaptureRoots(ok) \/ \E d \in Dirs : Measure(d, ok)
           \/ \E w \in Checkouts : Scan(w)
           \/ PlanMeasurement
    PROVE  ScanInv' /\ FateInv'
<1> USE DEF surroundings, DirectoryInv
<1>1. UNCHANGED <<settings, tidy, there, dir, age, leases, people>>
    BY DEF CaptureRoots, Measure, Scan, PlanMeasurement
<1>2. stage' \in {"plan", "measure", "refresh"} /\ stage \in {"capture", "plan", "measure", "refresh"}
    BY DEF CaptureRoots, Measure, Scan, PlanMeasurement
<1>3. FateInv' /\ there' = Places
    BY <1>1, <1>2 DEF FateInv, ScanInv
<1>4. ASSUME NEW ok \in BOOLEAN, CaptureRoots(ok) PROVE ScanInv'
  <2>1. stage' = "plan" /\ queue' = Checkouts /\ ownership' = SnapshotOf(Checkouts, TRUE)
    <3>1. ok = TRUE
        BY <1>4 DEF CaptureRoots, Probe, PassTypes
    <3> QED
        BY <1>4, <3>1 DEF CaptureRoots
  <2>2. EverybodySeen'
      BY <1>1, <2>1 DEF EverybodySeen, SnapshotOf
  <2> QED
      BY <1>3, <2>1, <2>2, HomeAssumption DEF ScanInv
<1>5. ownership' = ownership => /\ \A d \in Dirs : Judge(d)' = Judge(d) /\ Identity(d)' = Identity(d)
                                /\ \A w \in Checkouts : RemovesWhole(w)' = RemovesWhole(w)
                                /\ EverybodySeen' = EverybodySeen
                                /\ Planned' = Planned /\ Leaving' = Leaving /\ Measurable' = Measurable
    BY <1>1, ScansAgree
<1>6. ASSUME NEW w \in Checkouts, Scan(w) PROVE ScanInv'
  <2>1. /\ stage \in {"plan", "refresh"} /\ queue' = queue \ {w}
        /\ UNCHANGED <<ownership, stage, measured>>
        /\ decision' = [d \in Dirs |-> IF d \in Candidates(w) THEN Judge(d)
                                       ELSE IF d \in DirsOf(w) THEN NoCandidate ELSE decision[d]]
        /\ removal' = IF RemovesWhole(w) THEN removal \cup {w} ELSE removal \ {w}
      BY <1>6 DEF Scan
  <2>2. Candidates(w) = DirsOf(w)
      BY <1>3, <1>1 DEF Candidates, DirsOf, Places
  <2>3. \A d \in Dirs : HomeOf[d] \notin queue' => decision'[d] = Judge(d)
      BY <2>1, <2>2 DEF ScanInv, DirsOf
  <2>4. \A c \in Checkouts \ queue' : c \in removal' <=> RemovesWhole(c)
      BY <2>1 DEF ScanInv
  <2>5. Measurable \subseteq Dirs
      BY DEF Measurable
  <2> QED
      BY <1>3, <1>5, <2>1, <2>3, <2>4, <2>5 DEF ScanInv
<1>7. CASE PlanMeasurement
  <2>1. /\ stage = "plan" /\ queue = {} /\ stage' = "measure" /\ ownership' = ownership
        /\ decision' = Structural(decision) /\ removal' = StillRemoved(decision, removal)
        /\ queue' = {d \in Dirs \cap there : Structural(decision)[d].action = "Delete"
                                             /\ ~InRemoval(d, StillRemoved(decision, removal))}
        /\ identity' = [d \in Dirs |-> IF d \in queue' THEN Identity(d) ELSE 0]
      BY <1>7 DEF PlanMeasurement
  <2>2. \A d \in Dirs : decision[d] = Judgement[d]
      BY <2>1 DEF ScanInv, Judgement
  <2>3. removal = Going
      BY <2>1 DEF ScanInv, Going, DirectoryTypes
  <2>4. decision' = Planned /\ removal' = Leaving
      BY <2>1, <2>2, <2>3, SameReconciled DEF Planned, Leaving
  <2>5. Measurable \subseteq queue' /\ Measurable \subseteq Dirs
      BY <1>1, <1>3, <2>1, <2>4 DEF Measurable, Places
  <2>6. \A d \in Measurable : identity'[d] = Identity(d) /\ d \in queue'
      BY <2>1, <2>5
  <2> QED
      BY <1>3, <1>5, <2>1, <2>4, <2>5, <2>6 DEF ScanInv
<1>8. ASSUME NEW d \in Dirs, NEW ok \in BOOLEAN, Measure(d, ok) PROVE ScanInv'
  <2>1. /\ stage = "measure" /\ stage' = "measure" /\ ok /\ queue' = queue \ {d}
        /\ UNCHANGED <<decision, removal, identity, ownership>>
      BY <1>8 DEF Measure, Probe, PassTypes
  <2>2. measured' = [measured EXCEPT ![d] = identity[d]]
      BY <1>1, <1>3, <1>8, <2>1 DEF Measure, Places
  <2>3. \A e \in Dirs : measured'[e] = IF e = d THEN identity[d] ELSE measured[e]
      BY <2>2 DEF PassTypes
  <2>4. Measurable \subseteq Dirs
      BY DEF Measurable
  <2> QED
      BY <1>3, <1>5, <2>1, <2>3, <2>4 DEF ScanInv
<1> QED
    BY <1>3, <1>4, <1>6, <1>7, <1>8

(* Both reconciliations with measurements find everything measured.        *)
LEMMA PlansAreThorough ==
    ASSUME DirectoryInv, PassTypes, ScanInv, EndMeasurement \/ Carry
    PROVE  ScanInv' /\ FateInv'
<1> USE DEF surroundings, DirectoryInv
<1>1. UNCHANGED <<settings, tidy, there, dir, age, leases, people, ownership>>
    BY DEF EndMeasurement, Carry
<1>2. /\ \A d \in Dirs : Doomed(d)' = Doomed(d) /\ Identity(d)' = Identity(d)
      /\ \A w : Unclaimed(w)' = Unclaimed(w)
      /\ EverybodySeen' = EverybodySeen /\ Measurable' = Measurable
    BY <1>1, ScansAgree
<1>3. EverybodySeen /\ there' = Places
    BY <1>1 DEF EndMeasurement, Carry, ScanInv
<1>4. ASSUME NEW m, \A d \in Measurable : m[d] = Identity(d), Reconcile(Planned, Leaving, m)
      PROVE  decision' = Structural(Planned) /\ removal' = StillRemoved(Planned, Leaving)
    BY <1>4, MeasuredIsAuthorized, SameReconciled DEF Reconcile
<1>5. decision' = Structural(Planned) /\ removal' = StillRemoved(Planned, Leaving)
      => /\ \A d \in Dirs : Doomed(d) => decision'[d].action = "Delete" /\ decision'[d].class = "Routine"
         /\ \A d \in Dirs : decision'[d].work => dir[d].sweep # "refused"
         /\ \A w \in removal' : Unclaimed(w)
    BY <1>3, Settled
<1>6. CASE EndMeasurement
  <2>1. /\ stage = "measure" /\ queue = {} /\ measured' = measured
        /\ Reconcile(decision, removal, measured)
        /\ \/ stage' = "refresh" /\ queue' = Checkouts
           \/ stage' = "done" /\ ~RoutineActions(decision', removal')
      BY <1>6 DEF EndMeasurement
  <2>2. decision = Planned /\ removal = Leaving /\ \A d \in Measurable : measured[d] = Identity(d)
      BY <2>1 DEF ScanInv
  <2>3. decision' = Structural(Planned) /\ removal' = StillRemoved(Planned, Leaving)
      BY <1>4, <2>1, <2>2
  <2>4. stage' = "done" => \A d \in Dirs : ~Doomed(d)
      BY <1>5, <2>1, <2>3 DEF RoutineActions
  <2>5. Measurable \subseteq Dirs
      BY DEF Measurable
  <2> QED
      BY <1>2, <1>3, <2>1, <2>2, <2>4, <2>5, HomeAssumption DEF ScanInv, FateInv
<1>7. CASE Carry
  <2>1. /\ stage = "refresh" /\ queue = {} /\ stage' = "confirm"
        /\ Reconcile(Structural(decision), StillRemoved(decision, removal), CarriedByIdentity)
      BY <1>7 DEF Carry
  <2>2. /\ \A d \in Dirs : decision[d] = Judgement[d]
        /\ \A d \in Measurable : measured[d] = Identity(d)
      BY <2>1 DEF ScanInv, Judgement
  <2>3. removal = Going
      BY <2>1 DEF ScanInv, Going, DirectoryTypes
  <2>4. Structural(decision) = Planned /\ StillRemoved(decision, removal) = Leaving
      BY <2>2, <2>3, SameReconciled DEF Planned, Leaving
  <2>5. \A d \in Measurable : CarriedByIdentity[d] = Identity(d)
      BY <1>1, <1>3, <2>2 DEF CarriedByIdentity, Measurable, Places
  <2>6. decision' = Structural(Planned) /\ removal' = StillRemoved(Planned, Leaving)
      BY <1>4, <2>1, <2>4, <2>5
  <2>7. \A d \in Dirs : Doomed(d)' => d \in Deletions'
      BY <1>2, <1>5, <2>6 DEF Deletions
  <2> QED
      BY <1>1, <1>2, <1>3, <1>5, <2>1, <2>6, <2>7 DEF ScanInv, FateInv
<1> QED
    BY <1>6, <1>7

(* What is doomed was doomed, as long as nothing is added.                 *)
LEMMA DoomStays ==
    ASSUME UNCHANGED <<settings, dir, age, leases, people>>, there' \subseteq there
    PROVE  /\ \A d \in Dirs : Doomed(d)' => Doomed(d)
           /\ \A w : Unclaimed(w)' = Unclaimed(w)
<1>1. \A x : Leased(x)' = Leased(x)
    BY DEF Leased
<1>2. \A d, n : Recent(d, n)' = Recent(d, n)
    BY DEF Recent, SampledAge
<1>3. Window' = Window
    BY DEF Window
<1>4. \A d : Expendable(d)' = Expendable(d)
    BY <1>2, <1>3 DEF Expendable
<1> QED
    BY <1>1, <1>2, <1>4 DEF Doomed, Coordinated, Unclaimed

(* The pass deletes whatever is doomed, or leaves it to its worktree.      *)
LEMMA PassIsThorough ==
    ASSUME DirectoryInv, PassTypes, ScanInv, FateInv, failures = 0, failures' = 0,
           \/ \E ok \in BOOLEAN : CapturePass(ok) \/ Remeasure(ok)
           \/ \E w \in Checkouts : RemoveCheckout(w)
           \/ \E d \in Dirs : DeleteDirectory(d) \/ KeepDirectory(d) \/ LocksTimeOut(d)
           \/ EndDeletions \/ EndSweeps
    PROVE  ScanInv' /\ FateInv'
<1> USE DEF surroundings, judgement, DirectoryInv
<1>1. /\ UNCHANGED <<settings, dir, age, leases, people>> /\ there' \subseteq there
      /\ stage' \in {"delete", "sweep", "worktrees", "done"}
    BY DEF CapturePass, Remeasure, RemoveCheckout, DeleteDirectory, KeepDirectory, LocksTimeOut, Defer,
           EndDeletions, EndSweeps
<1>2. ScanInv'
    BY <1>1 DEF ScanInv
<1>3. /\ \A d \in Dirs : Doomed(d)' => Doomed(d)
      /\ \A w : Unclaimed(w)' = Unclaimed(w)
    BY <1>1, DoomStays
<1>4. ASSUME ownership.complete, ownership.held \subseteq people, NEW x, settings.inUse => Tree[x] \cap people = {}
      PROVE  ~Open(x)
    BY <1>4 DEF Open
<1>5. ASSUME NEW ok \in BOOLEAN, CapturePass(ok) PROVE FateInv'
  <2>1. /\ stage = "confirm" /\ stage' = "delete" /\ queue' = Deletions
        /\ ownership' = SnapshotOf(OwnershipPaths, TRUE) /\ UNCHANGED <<decision, removal>>
    <3>1. ok = TRUE
        BY <1>5 DEF CapturePass, Probe, PassTypes
    <3> QED
        BY <1>5, <3>1 DEF CapturePass
  <2>2. ownership'.complete /\ ownership'.held \subseteq people'
      BY <1>1, <2>1 DEF SnapshotOf
  <2> QED
      BY <1>1, <1>3, <2>1, <2>2 DEF FateInv
<1>6. ASSUME NEW ok \in BOOLEAN, Remeasure(ok) PROVE FateInv'
    BY <1>3, <1>6 DEF Remeasure, FateInv, InRemoval
<1>7. ASSUME NEW d \in Dirs, DeleteDirectory(d) \/ KeepDirectory(d) \/ LocksTimeOut(d) PROVE FateInv'
  <2>1. /\ stage = "delete" /\ stage' = "delete" /\ queue' = queue \ {d} /\ d \in queue
        /\ UNCHANGED <<decision, removal, ownership>>
        /\ \/ MayDelete(d) /\ there' = there \ Tree[d]
           \/ ~MayDelete(d)
      BY <1>7 DEF DeleteDirectory, KeepDirectory, LocksTimeOut, Probe, PassTypes
  <2>2. d \in Tree[d] /\ Tree[d] \subseteq Tree[HomeOf[d]]
    <3>1. d \in Places /\ HomeOf[d] \in Places /\ d \in Tree[HomeOf[d]]
        BY HomeAssumption DEF Places
    <3> QED
        BY <3>1, Below, TreeAssumption
  <2>3. ASSUME Doomed(d), ~InRemoval(d, removal) PROVE MayDelete(d)
    <3>1. ~Open(HomeOf[d]) /\ ~Open(d)
        BY <1>4, <2>1, <2>2, <2>3 DEF FateInv, Doomed
    <3> QED
        BY <2>3, <3>1 DEF MayDelete, Doomed
  <2>4. Doomed(d)' => InRemoval(d, removal)
      BY <1>3, <2>1, <2>2, <2>3 DEF Doomed
  <2>5. \A e \in Dirs : Doomed(e)' => e \in queue' \/ InRemoval(e, removal)
      BY <1>3, <2>1, <2>4 DEF FateInv
  <2> QED
      BY <1>1, <1>3, <2>1, <2>5 DEF FateInv, InRemoval
<1>8. CASE EndDeletions
  <2>1. /\ stage = "delete" /\ queue = {} /\ stage' = "sweep" /\ queue' = Sweeps
        /\ UNCHANGED <<removal, ownership>>
      BY <1>8 DEF EndDeletions
  <2>2. \A d \in queue' : dir[d].sweep # "refused"
      BY <2>1 DEF Sweeps, FateInv
  <2>3. \A d \in Dirs : Doomed(d)' => InRemoval(d, removal')
      BY <1>3, <2>1 DEF FateInv
  <2> QED
      BY <1>1, <1>2, <1>3, <2>1, <2>2, <2>3 DEF FateInv, InRemoval
<1>9. CASE EndSweeps
  <2>1. /\ stage = "sweep" /\ stage' = "worktrees" /\ queue' = removal /\ UNCHANGED <<removal, ownership>>
      BY <1>9 DEF EndSweeps
  <2>2. \A d \in Dirs : Doomed(d)' => InRemoval(d, queue')
      BY <1>3, <2>1 DEF FateInv
  <2> QED
      BY <1>1, <1>2, <1>3, <2>1, <2>2 DEF FateInv, InRemoval
<1>10. ASSUME NEW w \in Checkouts, RemoveCheckout(w) PROVE FateInv'
  <2>1. /\ stage = "worktrees" /\ stage' = "worktrees" /\ w \in queue /\ queue' = queue \ {w}
        /\ UNCHANGED <<removal, ownership>>
        /\ ~Open(w) /\ ~Leased(w) => there' = there \ Tree[w]
      BY <1>10 DEF RemoveCheckout
  <2>2. Unclaimed(w)
      BY <2>1 DEF QueueInv, FateInv
  <2>3. ~Open(w) /\ ~Leased(w)
      BY <1>4, <2>1, <2>2 DEF Unclaimed, FateInv
  <2>4. ASSUME NEW d \in Dirs, Doomed(d)' PROVE InRemoval(d, queue')
    <3>1. InRemoval(d, queue) /\ d \notin Tree[w]
        BY <1>3, <2>1, <2>3, <2>4 DEF FateInv, Doomed
    <3> QED
        BY <2>1, <3>1 DEF InRemoval
  <2> QED
      BY <1>1, <1>3, <2>1, <2>4 DEF FateInv
<1> QED
    BY <1>2, <1>5, <1>6, <1>7, <1>8, <1>9, <1>10

(* A sweep dooms nothing: what it sweeps is young, and was not refused.    *)
LEMMA SweepIsThorough ==
    ASSUME DirectoryInv, FateInv, NEW d \in Dirs, SweepDirectory(d)
    PROVE  ScanInv' /\ FateInv'
<1> USE DEF DirectoryInv
<1>1. /\ stage = "sweep" /\ stage' = "sweep" /\ queue' = queue \ {d} /\ d \in queue
      /\ dir' = [dir EXCEPT ![d] = [dir[d] EXCEPT !.days = 0, !.sweep = "none"]] \/ dir' = dir
      /\ UNCHANGED <<settings, there, age, leases, people, removal, ownership>>
    BY DEF SweepDirectory, judgement
<1>2. ScanInv'
    BY <1>1 DEF ScanInv
<1>3. \A e \in Dirs : e # d => dir'[e] = dir[e]
    BY <1>1 DEF DirectoryTypes
<1>4. CASE dir' = dir
    BY <1>1, <1>2, <1>4, DoomStays DEF FateInv, InRemoval
<1>5. CASE dir' = [dir EXCEPT ![d] = [dir[d] EXCEPT !.days = 0, !.sweep = "none"]]
  <2>1. dir'[d] = [dir[d] EXCEPT !.days = 0, !.sweep = "none"] /\ dir[d] \in Directories
      BY <1>5 DEF DirectoryTypes
  <2>2. /\ dir'[d].days = 0 /\ dir'[d].sweep = "none" /\ dir'[d].kind = dir[d].kind
        /\ dir'[d].tracked = dir[d].tracked /\ dir'[d].locks = dir[d].locks
      BY <2>1 DEF Directories
  <2>3. \A e \in Dirs : dir[e].days \in 0 .. 2
      BY DEF DirectoryTypes, Directories
  <2>4. \A e \in Dirs : Expendable(e)' => Expendable(e)
    <3>1. Window \in {1, 2} /\ Window' = Window
        BY <1>1 DEF Window, Windows
    <3>2. Recent(d, Window)' /\ (settings' = settings)
        BY <1>1, <2>2, <3>1 DEF Recent, SampledAge
    <3>3. \A e \in Dirs : e # d => Recent(e, Window)' = Recent(e, Window)
        BY <1>1, <1>3, <3>1 DEF Recent, SampledAge
    <3>4. Expendable(d)' => Expendable(d)
        BY <1>1, <2>2, <3>2 DEF Expendable
    <3>5. ASSUME NEW e \in Dirs, e # d, Expendable(e)' PROVE Expendable(e)
        BY <1>1, <1>3, <3>3, <3>5 DEF Expendable
    <3> QED
        BY <3>4, <3>5
  <2>5. ~Doomed(d)'
      BY <2>2 DEF Doomed, Recent, SampledAge, Windows
  <2>6. ASSUME NEW e \in Dirs, Doomed(e)' PROVE Doomed(e)
    <3>1. e # d /\ dir'[e] = dir[e]
        BY <1>3, <2>5, <2>6
    <3>2. \A f \in Tree[e] \cap Dirs : Expendable(f) /\ dir[f].sweep # "refused"
      <4>1. dir[d].sweep # "refused"
          BY <1>1 DEF FateInv
      <4> QED
          BY <1>3, <2>4, <2>6, <4>1 DEF Doomed
    <3>3. Leased(e)' = Leased(e) /\ Recent(e, Windows.routine)' = Recent(e, Windows.routine)
        BY <1>1, <3>1 DEF Leased, Recent, SampledAge
    <3> QED
        BY <1>1, <2>6, <3>1, <3>2, <3>3 DEF Doomed, Coordinated
  <2>7. \A w : Unclaimed(w)' = Unclaimed(w)
      BY <1>1 DEF Unclaimed, Leased
  <2>8. \A e \in queue' : dir'[e].sweep # "refused"
    <3> SUFFICES ASSUME NEW e \in queue' PROVE dir'[e].sweep # "refused"
        OBVIOUS
    <3>1. e \in queue /\ e # d
        BY <1>1
    <3>2. dir'[e] = dir[e]
        BY <1>1, <1>5, <3>1 DEF DirectoryTypes
    <3> QED
        BY <1>1, <3>1, <3>2 DEF FateInv
  <2> QED
      BY <1>1, <1>2, <2>6, <2>7, <2>8 DEF FateInv, InRemoval
<1> QED
    BY <1>1, <1>4, <1>5

(* So it is with every step.                                               *)
LEMMA ThoroughStep ==
    DirectoryInv /\ PassTypes /\ ThoroughInv /\ [CleanupNext]_cleanupVars => (PassTypes /\ ThoroughInv)'
<1> SUFFICES ASSUME DirectoryInv, PassTypes, ThoroughInv, [CleanupNext]_cleanupVars,
                    events' = 0, failures' = 0
             PROVE  ScanInv' /\ FateInv'
    BY PassCounts DEF ThoroughInv, DirectoryInv
<1>1. events = 0 /\ failures = 0 /\ ~Surroundings
    BY PassCounts DEF DirectoryInv
<1>2. ScanInv /\ FateInv
    BY <1>1 DEF ThoroughInv
<1>3. CASE UNCHANGED cleanupVars
  <2>1. UNCHANGED <<settings, tidy, there, dir, age, leases, people, ownership, decision, removal,
                    identity, measured, queue, stage>>
      BY <1>3 DEF cleanupVars, surroundings, judgement, progress
  <2>2. /\ \A d \in Dirs : Judge(d)' = Judge(d) /\ Identity(d)' = Identity(d) /\ Doomed(d)' = Doomed(d)
        /\ \A w \in Checkouts : RemovesWhole(w)' = RemovesWhole(w)
        /\ \A w : Unclaimed(w)' = Unclaimed(w)
        /\ EverybodySeen' = EverybodySeen
        /\ Planned' = Planned /\ Leaving' = Leaving /\ Measurable' = Measurable
      BY <2>1, ScansAgree
  <2>3. ScanInv'
    <3>1. Measurable \subseteq Dirs
        BY DEF Measurable
    <3> QED
        BY <1>2, <2>1, <2>2, <3>1 DEF ScanInv
  <2>4. FateInv'
      BY <1>2, <2>1, <2>2 DEF FateInv, Deletions, InRemoval
  <2> QED
      BY <2>3, <2>4
<1>4. CASE CleanupRun
    BY <1>1, <1>2, <1>4, ScansAreThorough, PlansAreThorough, PassIsThorough, SweepIsThorough DEF CleanupRun
<1> QED
    BY <1>1, <1>3, <1>4 DEF CleanupNext

(* Before the first capture there is nothing to lose, and when the run is  *)
(* over nothing is doomed.                                                 *)
LEMMA ThoroughStart == ASSUME NEW o \in Openings, CleanupFrom(o) PROVE PassTypes /\ ThoroughInv
BY DEF CleanupFrom, PassTypes, ThoroughInv, ScanInv, FateInv

LEMMA PassLeavesNothing == ThoroughInv => UndisturbedPassIsThorough
BY DEF ThoroughInv, FateInv, Doomed, UndisturbedPassIsThorough

----------------------------------------------------------------------------
(* Both parts together.                                                    *)

\* The inductive invariant of a cleanup.
RepositoryInv ==
    /\ DirectoryInv /\ PassTypes /\ ThoroughInv
    /\ WorktreeInv /\ RunTypes /\ RunInv

(* Both parts of a cleanup start in their invariant,                       *)
LEMMA RepositoryStarts == RepositoryInit => RepositoryInv
<1>1. CleanupInit => DirectoryInv /\ PassTypes /\ ThoroughInv
    BY DirectoryStarts, ThoroughStart DEF CleanupInit
<1>2. DirectoriesIdle => DirectoryInv /\ PassTypes /\ ThoroughInv
  <2>1. (CHOOSE o \in Openings : TRUE) \in Openings
      BY OpeningsAssumption
  <2> QED
      BY <2>1, DirectoryStarts, ThoroughStart DEF DirectoriesIdle
<1> QED
    BY <1>1, <1>2, WorktreesStart, WorktreesIdleStart, RunStarts DEF RepositoryInit, RepositoryInv

(* and a step of the cleanup is a step of one part.                        *)
LEMMA RepositoryStep ==
    ASSUME [RepositoryNext]_repositoryVars PROVE [Next]_vars /\ [CleanupNext]_cleanupVars
BY DEF RepositoryNext, repositoryVars

(* The invariant of a cleanup of a repository.                             *)
THEOREM RepositoryInvariance == RepositorySpec => []RepositoryInv
<1>1. RepositoryInv /\ [RepositoryNext]_repositoryVars => RepositoryInv'
    BY RepositoryStep, DirectoryStep, ThoroughStep, WorktreeStep, RunStep DEF RepositoryInv
<1> QED
    BY <1>1, RepositoryStarts, PTL DEF RepositorySpec

(* Whenever directories may be deleted, and in the plan that pressure      *)
(* recovery goes on with, no directory marked for deletion contains one    *)
(* that the plan keeps: for any nesting of worktrees and directories.      *)
THEOREM KeptAreNotEnclosed == RepositorySpec => []NothingKeptIsEnclosed
<1>1. RepositoryInv => NothingKeptIsEnclosed
    BY DEF RepositoryInv, DirectoryInv, ClosureInv
<1> QED
    BY <1>1, RepositoryInvariance, PTL

(* Whatever execute_cleanup removes respects leases and the processes that *)
(* stayed since the snapshot of the pass; a generated directory that goes  *)
(* is one its own rules allow to go, and measured if it goes alone, unless *)
(* it changed after it was scanned: in any nesting.                        *)
THEOREM DirectorySafety == RepositorySpec => DirectoryRemovedAsLookedAt
<1> DEFINE Justified ==
        /\ \A x \in Places : Cleared(x) => ~Leased(x)
        /\ \A x \in Places : Topmost(x) /\ settings.inUse => Tree[Home(x)] \cap inhabited = {}
        /\ \A d \in Dirs : Cleared(d) /\ d \notin unseen =>
              /\ Expendable(d)
              /\ Topmost(d) => measured[d] = Identity(d)
<1>1. RepositoryInv /\ [RepositoryNext]_repositoryVars => [Justified]_cleanupVars
    BY RepositoryStep, TakenAsLookedAt DEF RepositoryInv
<1> QED
    BY <1>1, RepositoryInvariance, PTL DEF RepositorySpec, DirectoryRemovedAsLookedAt

(* execute_worktree_removals never takes a worktree from a process that    *)
(* was in it when evidence of the worktree was last taken and has stayed.  *)
THEOREM OccupationSafety == RepositorySpec => OccupiedIsKept
<1> DEFINE Unoccupied == \A w \in Worktrees : Removed(w) /\ (config.policy \/ w \in snapshot.roots)
                                              => w \notin standing
<1>1. RepositoryInv /\ [RepositoryNext]_repositoryVars => [Unoccupied]_vars
    BY RepositoryStep, OccupiedStays DEF RepositoryInv
<1> QED
    BY <1>1, RepositoryInvariance, PTL DEF RepositorySpec, OccupiedIsKept

(* A worktree that `git worktree remove` takes satisfies the whole plan at *)
(* that moment, unless it changed after the run looked at it last.         *)
THEOREM RemovalSafety == RepositorySpec => RemovedAsLookedAt
<1> DEFINE Deserved == \A w \in Worktrees : Removed(w) =>
                             /\ ~tree[w].leased /\ ~tree[w].dirty
                             /\ w \in late \/ Eligible(w)
<1>1. RepositoryInv /\ [RepositoryNext]_repositoryVars => [Deserved]_vars
    BY RepositoryStep, RemovalIsJustified DEF RepositoryInv
<1> QED
    BY <1>1, RepositoryInvariance, PTL DEF RepositorySpec, RemovedAsLookedAt

(* When nothing happens in the world and no probe fails, the run removes   *)
(* every worktree that is due and every directory that is doomed: nothing  *)
(* is lost between the plan, the second plan, the snapshots and the passes. *)
THEOREM Thoroughness == RepositorySpec => []UndisturbedCleanupIsThorough
<1>1. RepositoryInv => UndisturbedCleanupIsThorough
    BY RunIsThorough, PassLeavesNothing DEF RepositoryInv, UndisturbedCleanupIsThorough
<1> QED
    BY <1>1, RepositoryInvariance, PTL

=============================================================================
