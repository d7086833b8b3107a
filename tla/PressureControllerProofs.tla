----------------------- MODULE PressureControllerProofs -----------------------
(***************************************************************************)
(* Pressure recovery deletes nothing that is standingly claimed, and pays  *)
(* for source that changes under it with one deletion at most: for any     *)
(* worktrees, candidates, batches, lifetimes and bounds on the world.      *)
(*                                                                         *)
(* The clock of an epoch starts before its snapshot is taken, so whoever   *)
(* is in a worktree that the snapshot calls free has been there no longer  *)
(* than the epoch lives (SnapshotInv), and the deadline is read last.      *)
(* Leases and builds in the profiles it listed are held off by the locks   *)
(* of the controller from the point at which it looks at them; a build in  *)
(* a profile made since shows when the candidate is revalidated, or began  *)
(* after that (GuardInv).                                                  *)
(*                                                                         *)
(* Against its baseline a worktree only moves away: edits grow, and what   *)
(* Git shows of it shrinks (BaselineInv).  A deletion under drifted source *)
(* is therefore noticed by the comparison that follows it, whatever the    *)
(* world does in between, and that ends the run (DriftInv).                *)
(*                                                                         *)
(* The queue is of one class, and the controller goes on to the next only  *)
(* when nothing in it is wanted any more (SettledInv); that is why it      *)
(* deletes nothing while something cheaper is at hand.                     *)
(***************************************************************************)
EXTENDS PressureController, FiniteSetTheorems, TLAPS

----------------------------------------------------------------------------
(* The inductive invariant.                                                *)

\* The points at which a candidate of the epoch is at hand.
AtCandidate == {"authorize", "cargo", "check", "revalidateCandidate", "remove", "settle", "refresh"}

\* Those at which the epoch has its snapshot.
Snapped == AtCandidate \cup {"mounts", "recheck", "next"}

\* Every variable the argument is about has values of its kind.
Types ==
    /\ present \subseteq Candidates
    /\ busy \subseteq {c \in Candidates : Kind[c] = "locked"}
    /\ source \in [Worktrees -> Edits]
    /\ held \in [Worktrees -> Ages \cup {Unheld}]
    /\ moves \in Nat
    /\ attempted \in Nat
    /\ age \in Ages
    /\ valid \subseteq Worktrees
    /\ baseline \in [Worktrees -> Statuses \cup {NoBaseline}]

\* A candidate at hand is one of the epoch, in a worktree found valid.
CurrentInv ==
    pc \in AtCandidate =>
        /\ attempted \in DOMAIN epoch /\ Current \in Candidates /\ Home \in valid

\* Whoever is in a worktree that was free came after the clock was started.
SnapshotInv ==
    pc \in Snapped => \A w \in Worktrees \cap EpochWorktrees : w \notin snapshot => held[w] <= age

\* Nobody gets a lease while the controller is at it, and a build that begins
\* nevertheless shows in what is still to be compared, or came after that.
GuardInv ==
    /\ Guarded => Home \notin leased
    /\ pc = "cargo" => Kind[Current] = "locked"
    /\ pc \in {"check", "revalidateCandidate"} => Current \notin busy \ altered
    /\ pc = "remove" => Current \notin busy \ late
    /\ pc = "remove" => Home \notin snapshot

\* Since its baseline a worktree's edits only grew and what it shows only shrank.
Since(w) ==
    /\ baseline[w].source.tracked <= source[w].tracked
    /\ baseline[w].source.untracked <= source[w].untracked
    /\ VisibleIn(w) \ ToSet(epoch) \subseteq baseline[w].seen

\* Each baseline is such, and every worktree found valid has one in the end.
BaselineInv ==
    /\ \A w \in Worktrees : baseline[w] # NoBaseline => Since(w)
    /\ pc = "recheck" => \A w \in valid \ todo : baseline[w] # NoBaseline
    /\ pc \in AtCandidate \cup {"next"} => \A w \in valid : baseline[w] # NoBaseline

\* A deletion that drifted is the last one.
DriftInv ==
    \/ drifted = 0
    \/ drifted = 1 /\ pc = "aborted"
    \/ drifted = 1 /\ pc = "settle" /\ Current \notin present /\ Baseline(Home) # baseline[Home]

\* The inductive invariant.
IInv == Types /\ CurrentInv /\ SnapshotInv /\ GuardInv /\ BaselineInv /\ DriftInv

----------------------------------------------------------------------------
(* Facts about the state.                                                  *)

\* The candidate at hand and its worktree are of the epoch.
LEMMA HomeFacts ==
    ASSUME pc \in AtCandidate, CurrentInv, Types
    PROVE  /\ Current \in Candidates /\ Current \in ToSet(epoch)
           /\ Home \in Worktrees /\ Home \in EpochWorktrees
<1>1. Current \in Candidates /\ attempted \in DOMAIN epoch
    BY DEF CurrentInv
<1>2. Current \in ToSet(epoch)
    BY <1>1 DEF Current, ToSet
<1> QED
    BY <1>1, <1>2, MappingAssumption DEF Home, EpochWorktrees

\* What is read of a worktree is not mistaken for the absence of a baseline.
LEMMA BaselineFacts ==
    ASSUME Types, NEW w \in Worktrees
    PROVE  Baseline(w) \in Statuses /\ Baseline(w) # NoBaseline
<1>1. VisibleIn(w) \ ToSet(epoch) \subseteq Visible
    BY DEF VisibleIn
<1>2. source[w] \in Edits
    BY DEF Types
<1>3. Baseline(w) \in Statuses
    BY <1>1, <1>2 DEF Baseline, Statuses
<1> QED
    BY <1>3, BaselineAssumption

\* The invariant holds before the first class is looked at.
LEMMA InitHolds == Init => IInv
<1> SUFFICES ASSUME Init PROVE IInv
    OBVIOUS
<1>1. Types
  <2>1. source \in [Worktrees -> Edits]
      BY DEF Init, Edits
  <2>2. held \in [Worktrees -> Ages \cup {Unheld}] /\ age \in Ages
      BY BoundAssumption DEF Init, Ages
  <2>3. baseline \in [Worktrees -> Statuses \cup {NoBaseline}]
      BY DEF Init
  <2> QED
      BY <2>1, <2>2, <2>3 DEF Types, Init
<1>2. pc = "filter" /\ drifted = 0 /\ \A w \in Worktrees : baseline[w] = NoBaseline
    BY DEF Init
<1> QED
    BY <1>1, <1>2 DEF IInv, CurrentInv, SnapshotInv, GuardInv, BaselineInv, DriftInv, AtCandidate,
           Snapped,
           Guarded

----------------------------------------------------------------------------
(* The controller keeps the invariant.                                     *)

\* A step of the controller that only moves pc keeps all but GuardInv, when it goes on
\* with the same candidate, or leaves it.
LEMMA StepTo ==
    ASSUME IInv,
           UNCHANGED <<present, people, drifted, epoch, attempted, baseline, valid, todo, evidence>>,
           drifted = 0 \/ pc' = "aborted",
           pc' \in AtCandidate => pc \in AtCandidate,
           pc' \in Snapped => pc \in Snapped,
           pc' = "recheck" => pc = "recheck",
           pc' = "next" => pc \in AtCandidate \cup {"next"},
           GuardInv'
    PROVE  IInv'
<1> USE DEF IInv, people, evidence
<1>1. UNCHANGED <<Current, Home, EpochWorktrees>>
    BY DEF Current, Home, EpochWorktrees
<1>2. Types' /\ CurrentInv'
    BY <1>1 DEF Types, CurrentInv
<1>3. SnapshotInv'
    BY <1>1 DEF SnapshotInv
<1>4. BaselineInv'
    BY DEF BaselineInv, Since, VisibleIn
<1>5. DriftInv'
    BY DEF DriftInv
<1> QED
    BY <1>2, <1>3, <1>4, <1>5

\* Out of the loop over candidates nothing is guarded.
LEMMA Leaves ==
    ASSUME pc' \notin {"cargo", "check", "revalidateCandidate", "remove"}
    PROVE  GuardInv'
BY DEF GuardInv, Guarded

\* The steps around the epochs.
LEMMA OutsideSteps ==
    ASSUME IInv,
           \/ NextRank \/ Finish \/ \E c \in Candidates : LookupFails(c)
           \/ EvidenceFails \/ ExpireBeforeExecution \/ EndBatch
    PROVE  IInv'
<1>1. /\ pc' \in {"filter", "done", "aborted"} /\ pc \in {"filter", "capture", "mounts", "recheck", "next"}
      /\ UNCHANGED <<present, people, drifted, epoch, attempted, baseline, valid, todo, evidence>>
    BY DEF NextRank, Finish, LookupFails, EvidenceFails, ExpireBeforeExecution, EndBatch, disk,
           people,
           schedule, prepared, evidence, ghosts
<1>2. drifted = 0
    BY <1>1 DEF IInv, DriftInv
<1>3. GuardInv'
    BY <1>1, Leaves
<1> QED
    BY <1>1, <1>2, <1>3, StepTo DEF AtCandidate, Snapped

\* The questions asked of a candidate, in their order.
LEMMA CandidateSteps ==
    ASSUME IInv,
           \/ Authorize \/ TakeCargoLocks \/ CargoLocksTimeOut \/ CheckDeadline
           \/ RevalidateCandidate \/ KeepAtDeadline \/ RemovalFails
    PROVE  IInv'
<1>1. /\ pc \in {"authorize", "cargo", "check", "revalidateCandidate", "remove"}
      /\ pc' \in {"cargo", "check", "revalidateCandidate", "remove", "settle", "aborted"}
      /\ UNCHANGED <<present, people, drifted, epoch, attempted, baseline, valid, todo, evidence>>
    BY DEF Authorize, TakeCargoLocks, CargoLocksTimeOut, CheckDeadline, RevalidateCandidate,
           KeepAtDeadline, RemovalFails, disk, people, schedule, prepared, evidence, ghosts
<1>2. drifted = 0
    BY <1>1 DEF IInv, DriftInv
<1>3. UNCHANGED <<Current, Home, leased, busy, snapshot>> /\ Current \in Candidates
    BY <1>1, HomeFacts DEF Current, Home, people, evidence, IInv, AtCandidate
<1>4. Kind[Current] # "locked" => Current \notin busy
    BY DEF IInv, Types
<1>5. GuardInv'
  <2>1. CASE Authorize
      BY <1>3, <1>4, <2>1, MappingAssumption DEF Authorize, Allowed, GuardInv, Guarded
  <2>2. CASE TakeCargoLocks
      BY <1>3, <2>2 DEF TakeCargoLocks, IInv, GuardInv, Guarded
  <2>3. CASE CargoLocksTimeOut
      BY <2>3, Leaves DEF CargoLocksTimeOut
  <2>4. CASE CheckDeadline
      BY <1>3, <2>4 DEF CheckDeadline, IInv, GuardInv, Guarded, disk
  <2>5. CASE RevalidateCandidate
      BY <1>3, <2>5 DEF RevalidateCandidate, IInv, GuardInv, Guarded
  <2>6. CASE KeepAtDeadline \/ RemovalFails
      BY <2>6, Leaves DEF KeepAtDeadline, RemovalFails
  <2> QED
      BY <2>1, <2>2, <2>3, <2>4, <2>5, <2>6
<1> QED
    BY <1>1, <1>2, <1>5, StepTo DEF AtCandidate, Snapped

\* What follows a candidate; after a drifted deletion only the end of the run does.
LEMMA SettleSteps ==
    ASSUME IInv, RefuseCandidate \/ CountDeletion \/ RefreshPlan \/ SystemCallFails
    PROVE  IInv'
<1>1. /\ pc \in AtCandidate \cup {"baseline", "next"}
      /\ pc' \in {"next", "refresh", "aborted"}
      /\ UNCHANGED <<present, people, drifted, epoch, attempted, baseline, valid, todo, evidence>>
    BY DEF RefuseCandidate, CountDeletion, RefreshPlan, SystemCallFails, disk, people, schedule,
           prepared,
           evidence, ghosts, AtCandidate
<1>2. drifted = 0 \/ pc' = "aborted"
    BY DEF IInv, DriftInv, RefuseCandidate, CountDeletion, RefreshPlan, SystemCallFails, SourceHeld
<1>3. GuardInv'
    BY <1>1, Leaves
<1>4. pc' # "aborted" => pc \in AtCandidate
    BY DEF RefuseCandidate, CountDeletion, RefreshPlan, SystemCallFails, AtCandidate
<1> QED
    BY <1>1, <1>2, <1>3, <1>4, StepTo DEF AtCandidate, Snapped

\* The deletion of a candidate changes neither the baseline of its worktree nor what is
\* compared with it: the epoch's own candidates are not part of either.
LEMMA RemoveStep == ASSUME IInv, RemoveCandidate PROVE IInv'
<1> USE DEF IInv
<1>1. /\ pc = "remove" /\ pc' = "settle" /\ Current \in present /\ present' = present \ {Current}
      /\ drifted' = IF Baseline(Home) = baseline[Home] THEN drifted ELSE drifted + 1
      /\ UNCHANGED <<people, epoch, attempted, baseline, valid, todo, evidence>>
    BY DEF RemoveCandidate, schedule, prepared
<1>2. UNCHANGED <<Current, Home, EpochWorktrees, busy, source, held, leased, moves, age, snapshot>>
    BY <1>1 DEF Current, Home, EpochWorktrees, people, evidence
<1>3. Current \in ToSet(epoch) /\ Home \in Worktrees
    BY <1>1, HomeFacts DEF AtCandidate
<1>4. \A w \in Worktrees : VisibleIn(w)' \ ToSet(epoch) = VisibleIn(w) \ ToSet(epoch)
    BY <1>1, <1>3 DEF VisibleIn
<1>5. Types' /\ CurrentInv' /\ SnapshotInv'
    BY <1>1, <1>2 DEF Types, CurrentInv, SnapshotInv, AtCandidate, Snapped
<1>6. GuardInv'
    BY <1>1, Leaves
<1>7. BaselineInv'
    BY <1>1, <1>2, <1>4 DEF BaselineInv, Since, AtCandidate
<1>8. Baseline(Home)' = Baseline(Home)
    BY <1>1, <1>2, <1>3, <1>4 DEF Baseline
<1>9. DriftInv'
    BY <1>1, <1>2, <1>8 DEF DriftInv
<1> QED
    BY <1>5, <1>6, <1>7, <1>9

\* The preparation of an epoch, its evidence, and the loop over its candidates.
LEMMA PreparationSteps ==
    ASSUME IInv,
           \/ BeginEpoch \/ StartEpoch \/ CaptureOwnership \/ MountSnapshot \/ BeginExecution
           \/ \E w \in Worktrees : RevalidateWorktree(w) \/ PrepareBaseline(w) \/ RecheckWorktree(w)
           \/ NextCandidate
    PROVE  IInv'
<1> USE DEF IInv
<1>1. UNCHANGED <<present, busy, source, held, leased, moves, drifted>> /\ pc' # "aborted"
    BY DEF BeginEpoch, StartEpoch, CaptureOwnership, MountSnapshot, BeginExecution,
           RevalidateWorktree,
           PrepareBaseline, RecheckWorktree, NextCandidate, disk, people, ghosts
<1>2. drifted = 0
    BY DEF DriftInv, BeginEpoch, StartEpoch, CaptureOwnership, MountSnapshot, BeginExecution,
           RevalidateWorktree, PrepareBaseline, RecheckWorktree, NextCandidate
<1>3. GuardInv' /\ DriftInv'
  <2>1. pc' \notin {"cargo", "check", "revalidateCandidate", "remove"}
      BY DEF BeginEpoch, StartEpoch, CaptureOwnership, MountSnapshot, BeginExecution,
           RevalidateWorktree, PrepareBaseline, RecheckWorktree, NextCandidate
  <2> QED
      BY <1>1, <1>2, <2>1, Leaves DEF DriftInv
<1>4. CASE BeginEpoch
  <2>1. /\ pc' = "revalidate" /\ attempted' = 0 /\ valid' = {} /\ age' = age
        /\ baseline' = [w \in Worktrees |-> NoBaseline]
      BY <1>4 DEF BeginEpoch, evidence
  <2> QED
      BY <1>1, <1>3, <2>1 DEF Types, CurrentInv, SnapshotInv, BaselineInv, AtCandidate, Snapped
<1>5. ASSUME NEW w \in Worktrees, RevalidateWorktree(w) PROVE IInv'
  <2>1. /\ pc' \in {"revalidate", "baseline"} /\ valid' \subseteq valid \cup {w}
        /\ UNCHANGED <<attempted, age, baseline, epoch>>
      BY <1>5 DEF RevalidateWorktree, schedule, evidence
  <2> QED
      BY <1>1, <1>3, <2>1 DEF Types, CurrentInv, SnapshotInv, BaselineInv, AtCandidate, Snapped,
             Since,
             VisibleIn
<1>6. ASSUME NEW w \in Worktrees, PrepareBaseline(w) PROVE IInv'
  <2>1. /\ pc' = "baseline"
        /\ baseline' = [baseline EXCEPT ![w] = Baseline(w)] \/ baseline' = baseline
        /\ UNCHANGED <<attempted, age, epoch, valid>>
      BY <1>6 DEF PrepareBaseline, schedule, evidence
  <2>2. Types'
      BY <1>1, <2>1, BaselineFacts DEF Types
  <2>3. Since(w)' \/ baseline' = baseline
    <3>1. source[w].tracked \in Int /\ source[w].untracked \in Int
        BY DEF Types, Edits
    <3>2. CASE baseline' = [baseline EXCEPT ![w] = Baseline(w)]
      <4>1. baseline'[w] = [source |-> source[w], seen |-> VisibleIn(w) \ ToSet(epoch)]
          BY <3>2 DEF Types, Baseline
      <4> QED
          BY <1>1, <2>1, <3>1, <4>1 DEF Since, VisibleIn
    <3> QED
        BY <2>1, <3>2
  <2>4. BaselineInv'
      BY <1>1, <2>1, <2>3 DEF Types, BaselineInv, Since, VisibleIn, AtCandidate
  <2> QED
      BY <1>3, <2>1, <2>2, <2>4 DEF CurrentInv, SnapshotInv, AtCandidate, Snapped
<1>7. CASE StartEpoch
  <2>1. pc' = "capture" /\ age' = 0 /\ UNCHANGED <<attempted, epoch, valid, baseline>>
      BY <1>7 DEF StartEpoch, schedule, prepared
  <2>2. Types'
      BY <1>1, <2>1, BoundAssumption DEF Types, Ages
  <2> QED
      BY <1>1, <1>3, <2>1, <2>2 DEF CurrentInv, SnapshotInv, BaselineInv, AtCandidate, Snapped,
             Since,
             VisibleIn
<1>8. CASE CaptureOwnership
  <2>1. /\ pc' = "mounts" /\ snapshot' = Owned
        /\ UNCHANGED <<attempted, epoch, valid, baseline, age>>
      BY <1>8 DEF CaptureOwnership, schedule, prepared
  <2>2. Types'
      BY <1>1, <2>1 DEF Types
  <2>3. SnapshotInv'
    <3>1. ASSUME NEW w \in Worktrees \cap EpochWorktrees, w \notin Owned PROVE held[w] <= age
        BY <3>1 DEF Owned, Types, Ages, Unheld
    <3> QED
        BY <1>1, <2>1, <3>1 DEF SnapshotInv, EpochWorktrees
  <2> QED
      BY <1>1, <1>3, <2>1, <2>2, <2>3 DEF CurrentInv, BaselineInv, AtCandidate, Since, VisibleIn
<1>9. CASE MountSnapshot
  <2>1. /\ pc = "mounts" /\ pc' = "recheck" /\ todo' = valid
        /\ UNCHANGED <<attempted, epoch, valid, baseline, age, snapshot>>
      BY <1>9 DEF MountSnapshot, schedule, evidence
  <2> QED
      BY <1>1, <1>3, <2>1 DEF Types, CurrentInv, SnapshotInv, EpochWorktrees, BaselineInv,
             AtCandidate,
             Snapped, Since, VisibleIn
<1>10. ASSUME NEW w \in Worktrees, RecheckWorktree(w) PROVE IInv'
  <2>1. /\ pc = "recheck" /\ pc' = "recheck" /\ todo' = todo \ {w}
        /\ \/ valid' = valid /\ baseline[w] # NoBaseline
           \/ valid' = valid \ {w}
        /\ UNCHANGED <<attempted, epoch, baseline, age, snapshot>>
      BY <1>10 DEF RecheckWorktree, schedule, evidence
  <2> QED
      BY <1>1, <1>3, <2>1 DEF Types, CurrentInv, SnapshotInv, EpochWorktrees, BaselineInv,
             AtCandidate,
             Snapped, Since, VisibleIn
<1>11. CASE BeginExecution
  <2>1. /\ pc = "recheck" /\ pc' = "next" /\ todo = {}
        /\ UNCHANGED <<attempted, epoch, valid, baseline, age, snapshot, todo>>
      BY <1>11 DEF BeginExecution, schedule, prepared, evidence
  <2> QED
      BY <1>1, <1>3, <2>1 DEF Types, CurrentInv, SnapshotInv, EpochWorktrees, BaselineInv,
             AtCandidate,
             Snapped, Since, VisibleIn
<1>12. CASE NextCandidate
  <2>1. /\ pc = "next" /\ pc' \in {"next", "authorize"} /\ attempted' = attempted + 1
        /\ attempted' \in DOMAIN epoch
        /\ pc' = "authorize" => epoch[attempted'] \in present /\ WorktreeOf[epoch[attempted']] \in valid
        /\ UNCHANGED <<epoch, valid, baseline, age, snapshot, todo>>
      BY <1>12 DEF NextCandidate, BatchIsOver, prepared, evidence
  <2>2. Types'
      BY <1>1, <2>1 DEF Types
  <2>3. CurrentInv'
      BY <1>1, <2>1 DEF Types, CurrentInv, Current, Home, AtCandidate
  <2> QED
      BY <1>1, <1>3, <2>1, <2>2, <2>3 DEF SnapshotInv, EpochWorktrees, BaselineInv, AtCandidate,
             Snapped, Since, VisibleIn
<1> QED
    BY <1>4, <1>5, <1>6, <1>7, <1>8, <1>9, <1>10, <1>11, <1>12

----------------------------------------------------------------------------
(* The world keeps the invariant.                                          *)

\* A drift that is still to be noticed stays noticeable.
LEMMA DriftStays ==
    ASSUME IInv, Types', BaselineInv', UNCHANGED <<pc, drifted, attempted, epoch, baseline, valid>>,
           present' \subseteq present,
           \A w \in Worktrees : /\ source[w].tracked <= source'[w].tracked
                                /\ source[w].untracked <= source'[w].untracked
    PROVE  DriftInv'
<1>1. UNCHANGED <<Current, Home>>
    BY DEF Current, Home
<1>2. CASE drifted = 1 /\ pc = "settle" /\ Current \notin present /\ Baseline(Home) # baseline[Home]
  <2>1. Home \in Worktrees /\ Home \in valid
      BY <1>2, HomeFacts DEF IInv, AtCandidate, CurrentInv
  <2>2. baseline[Home] \in Statuses /\ Since(Home)
      BY <1>2, <2>1 DEF IInv, Types, BaselineInv, AtCandidate
  <2> DEFINE w == Home
             b == baseline[w]
             seen == VisibleIn(w) \ ToSet(epoch)
  <2>3. /\ b = [source |-> b.source, seen |-> b.seen]
        /\ b.source = [tracked |-> b.source.tracked, untracked |-> b.source.untracked]
        /\ b.source.tracked \in Nat /\ b.source.untracked \in Nat
      BY <2>2 DEF Statuses, Edits
  <2>4. /\ source[w] = [tracked |-> source[w].tracked, untracked |-> source[w].untracked]
        /\ source[w].tracked \in Nat /\ source[w].untracked \in Nat
      BY <2>1 DEF IInv, Types, Edits
  <2>5. source'[w].tracked \in Nat /\ source'[w].untracked \in Nat
      BY <2>1 DEF Types, Edits
  <2>6. \/ source[w].tracked # b.source.tracked \/ source[w].untracked # b.source.untracked
        \/ seen # b.seen
      BY <1>2, <2>3, <2>4 DEF Baseline
  <2>7. seen' \subseteq seen
      BY <1>1 DEF VisibleIn
  <2>8. \/ source'[w].tracked # b.source.tracked \/ source'[w].untracked # b.source.untracked
        \/ seen' # b.seen
      BY <2>1, <2>2, <2>3, <2>4, <2>5, <2>6, <2>7 DEF Since
  <2>9. Baseline(w)' # b
      BY <1>1, <2>8 DEF Baseline
  <2> QED
      BY <1>1, <1>2, <2>9 DEF DriftInv
<1> QED
    BY <1>2 DEF IInv, DriftInv

\* A step of the world keeps the invariant when nothing comes back, edits only grow,
\* occupations are no older than the epoch, and the controller's locks are respected.
LEMMA WorldStep ==
    ASSUME IInv, UNCHANGED <<pc, drifted, attempted, epoch, baseline, valid, todo, snapshot>>,
           Types', present' \subseteq present,
           \A w \in Worktrees : /\ source[w].tracked <= source'[w].tracked
                                /\ source[w].untracked <= source'[w].untracked,
           pc \in Snapped => \A w \in Worktrees : held[w] <= age => held'[w] <= age',
           Guarded => leased' \subseteq leased,
           pc \in {"check", "revalidateCandidate"} => Current \notin busy' \ altered',
           pc = "remove" => Current \notin busy' \ late'
    PROVE  IInv'
<1>1. UNCHANGED <<Current, Home, EpochWorktrees>>
    BY DEF Current, Home, EpochWorktrees
<1>2. CurrentInv' /\ SnapshotInv' /\ GuardInv'
    BY <1>1 DEF IInv, CurrentInv, SnapshotInv, GuardInv, Guarded
<1>3. BaselineInv'
  <2>1. ASSUME NEW w \in Worktrees, baseline[w] # NoBaseline PROVE Since(w)'
    <3>1. Since(w) /\ baseline[w] \in Statuses
        BY <2>1 DEF IInv, BaselineInv, Types
    <3>2. /\ source[w].tracked \in Nat /\ source[w].untracked \in Nat
          /\ source'[w].tracked \in Nat /\ source'[w].untracked \in Nat
          /\ baseline[w].source.tracked \in Nat /\ baseline[w].source.untracked \in Nat
        BY <3>1 DEF IInv, Types, Edits, Statuses
    <3>3. VisibleIn(w)' \subseteq VisibleIn(w)
        BY DEF VisibleIn
    <3> QED
        BY <3>1, <3>2, <3>3 DEF Since
  <2> QED
      BY <2>1 DEF IInv, BaselineInv
<1>4. DriftInv'
    BY <1>3, DriftStays
<1> QED
    BY <1>2, <1>3, <1>4 DEF IInv

\* Every step of the world is such a step.
LEMMA WorldKeeps == ASSUME IInv, World PROVE IInv'
<1> USE DEF IInv, Types, control, schedule, prepared, evidence, ghosts, disk, Move
<1>1. UNCHANGED <<pc, drifted, attempted, epoch, baseline, valid, todo, snapshot>>
    BY DEF World, Edit, Alter, Vanish, Fill, Occupy, Leave, StartBuild, EndBuild, Protect,
           LeaseExpires, Tick
<1>2. \A w \in Worktrees : /\ source[w].tracked \in Nat /\ source[w].untracked \in Nat
                           /\ held[w] \in Int /\ held[w] >= -1
    BY BoundAssumption DEF Edits, Ages, Unheld
<1>3. age \in 0 .. Lifetime
    BY DEF Ages
<1>4. ASSUME NEW w \in Worktrees, NEW what \in {"tracked", "untracked"}, Edit(w, what) PROVE IInv'
  <2>1. /\ moves' = moves + 1 /\ source' = [source EXCEPT ![w] = [source[w] EXCEPT ![what] = @ + 1]]
        /\ UNCHANGED <<present, altered, late, busy, held, leased, age>>
      BY <1>4 DEF Edit
  <2>2. [source[w] EXCEPT ![what] = @ + 1] \in Edits
      BY DEF Edits
  <2>3. Types'
      BY <1>1, <2>1, <2>2
  <2>4. \A v \in Worktrees : /\ source[v].tracked <= source'[v].tracked
                             /\ source[v].untracked <= source'[v].untracked
    <3>1. /\ source[w].tracked <= [source[w] EXCEPT ![what] = @ + 1].tracked
          /\ source[w].untracked <= [source[w] EXCEPT ![what] = @ + 1].untracked
        BY <1>2 DEF Edits
    <3> QED
        BY <1>2, <2>1, <3>1
  <2> QED
      BY <1>1, <2>1, <2>3, <2>4, WorldStep DEF GuardInv
<1>5. ASSUME NEW c \in Candidates, Vanish(c) PROVE IInv'
  <2>1. /\ moves' = moves + 1 /\ present' = present \ {c}
        /\ UNCHANGED <<altered, late, busy, source, held, leased, age>>
      BY <1>5 DEF Vanish
  <2>2. Types'
      BY <1>1, <2>1
  <2> QED
      BY <1>1, <1>2, <2>1, <2>2, WorldStep DEF GuardInv
<1>6. CASE \/ \E c \in Candidates : Alter(c) \/ EndBuild(c)
           \/ \E f \in Filesystems : Fill(f)
           \/ \E w \in Worktrees : LeaseExpires(w)
  <2>1. /\ moves' \in Nat /\ busy' \subseteq busy /\ leased' \subseteq leased
        /\ altered \subseteq altered' /\ UNCHANGED <<present, late, source, held, age>>
      BY <1>6 DEF Alter, EndBuild, Fill, LeaseExpires
  <2>2. Types'
      BY <1>1, <2>1
  <2> QED
      BY <1>1, <1>2, <2>1, <2>2, WorldStep DEF GuardInv
<1>7. ASSUME NEW w \in Worktrees, Protect(w) PROVE IInv'
  <2>1. /\ moves' \in Nat /\ ~Guarded
        /\ UNCHANGED <<present, altered, late, busy, source, held, age>>
      BY <1>7 DEF Protect
  <2>2. Types'
      BY <1>1, <2>1
  <2> QED
      BY <1>1, <1>2, <2>1, <2>2, WorldStep DEF GuardInv
<1>8. ASSUME NEW w \in Worktrees, Occupy(w) \/ Leave(w) PROVE IInv'
  <2>1. /\ moves' \in Nat /\ held' \in [Worktrees -> Ages \cup {Unheld}]
        /\ \A v \in Worktrees : held'[v] \in {held[v], 0, -1}
        /\ UNCHANGED <<present, altered, late, busy, source, leased, age>>
      BY <1>8, BoundAssumption DEF Occupy, Occupied, Leave, Unheld, Ages
  <2>2. Types'
      BY <1>1, <2>1
  <2> QED
      BY <1>1, <1>2, <1>3, <2>1, <2>2, WorldStep DEF GuardInv
<1>9. ASSUME NEW c \in Candidates, StartBuild(c) PROVE IInv'
  <2>1. /\ moves' = moves + 1 /\ Kind[c] = "locked"
        /\ busy' = busy \cup {c} /\ held' = Occupied(WorktreeOf[c])
        /\ UNCHANGED <<present, source, leased, age>>
      BY <1>9 DEF StartBuild, Move, control, disk, evidence
  <2>2. moves' \in Nat
      BY <1>1, <2>1 DEF Types
  <2>3. WorktreeOf[c] \in Worktrees
      BY MappingAssumption
  <2>4. /\ held' \in [Worktrees -> Ages \cup {Unheld}]
        /\ \A v \in Worktrees : held'[v] \in {held[v], 0}
      BY <1>1, <2>1, <2>3, BoundAssumption DEF Occupied, Unheld, Ages, Types
  <2>5. Types'
      BY <1>1, <2>1, <2>2, <2>4 DEF Types
  <2>6. /\ altered \subseteq altered' /\ late \subseteq late'
        /\ HoldsCargoLocks(c) => c \in altered' /\ c \in late'
      BY <1>9 DEF StartBuild
  <2>7. /\ pc \in {"check", "revalidateCandidate"} => Current \notin busy' \ altered'
        /\ pc = "remove" => Current \notin busy' \ late'
      BY <2>1, <2>6 DEF HoldsCargoLocks, GuardInv
  <2> QED
      BY <1>1, <1>2, <1>3, <2>1, <2>5, <2>7, <2>4, WorldStep DEF GuardInv
<1>10. CASE Tick
  <2>1. /\ age' = Older(age) /\ held' = [w \in Worktrees |-> Older(held[w])]
        /\ UNCHANGED <<present, altered, late, busy, source, leased, moves>>
      BY <1>10 DEF Tick
  <2>2. \A a \in Ages \cup {Unheld} : Older(a) \in Ages \cup {Unheld} /\ (a \in Ages => Older(a) \in Ages)
      BY BoundAssumption DEF Older, Ages, Unheld
  <2>3. Types'
      BY <1>1, <2>1, <2>2
  <2>4. \A a \in Ages \cup {Unheld}, b \in Ages : a <= b => Older(a) <= Older(b)
      BY BoundAssumption DEF Older, Ages, Unheld
  <2> QED
      BY <1>1, <1>2, <2>1, <2>3, <2>4, WorldStep DEF GuardInv
<1> QED
    BY <1>4, <1>5, <1>6, <1>7, <1>8, <1>9, <1>10 DEF World

----------------------------------------------------------------------------
(* The invariant holds, and what follows from it.                          *)

\* Every step keeps the invariant.
LEMMA InductiveStep == IInv /\ [Next]_vars => IInv'
<1> SUFFICES ASSUME IInv, [Next]_vars PROVE IInv'
    OBVIOUS
<1>1. CASE Controller
    BY <1>1, OutsideSteps, CandidateSteps, SettleSteps, RemoveStep, PreparationSteps DEF Controller
<1>2. CASE World
    BY <1>2, WorldKeeps
<1>3. CASE UNCHANGED vars
    BY <1>3 DEF vars, IInv, Types, CurrentInv, SnapshotInv, GuardInv, BaselineInv, DriftInv,
           Current,
           Home, EpochWorktrees, Guarded, Since, VisibleIn, Baseline
<1> QED
    BY <1>1, <1>2, <1>3 DEF Next

\* The invariant of pressure recovery.
THEOREM PressureInvariance == Spec => []IInv
BY InitHolds, InductiveStep, PTL DEF Spec

\* What disappears without a move of the world is the candidate at hand.
LEMMA OnlyTheControllerRemoves ==
    ASSUME IInv, Next, NEW c \in Candidates, Removes(c)
    PROVE  RemoveCandidate /\ c = Current
<1>1. c \in present /\ c \notin present' /\ moves' = moves
    BY DEF Removes
<1>2. ~World
    BY <1>1 DEF World, Edit, Alter, Vanish, Fill, Occupy, Leave, StartBuild, EndBuild, Protect,
           LeaseExpires, Tick, disk, Move, IInv, Types
<1>3. RemoveCandidate
    BY <1>1, <1>2 DEF Next, Controller, NextRank, Finish, BeginEpoch, LookupFails,
           RevalidateWorktree, PrepareBaseline, RecheckWorktree, StartEpoch, CaptureOwnership,
           MountSnapshot, EvidenceFails, BeginExecution, ExpireBeforeExecution, EndBatch,
           NextCandidate, Authorize, TakeCargoLocks, CargoLocksTimeOut, CheckDeadline,
           RevalidateCandidate, KeepAtDeadline, RemovalFails, RefuseCandidate, CountDeletion,
           RefreshPlan, SystemCallFails, disk
<1> QED
    BY <1>1, <1>3 DEF RemoveCandidate

(* remove_dir_all is never reached for a candidate whose worktree has been *)
(* occupied for the life of an epoch, is leased, or in which a build holds *)
(* a Cargo lock, but for a build that began in a new profile after         *)
(* revalidate_generated_candidate looked: the order of clock, snapshot,    *)
(* guard, Cargo locks, revalidation and deadline leaves no other gap.      *)
THEOREM ClaimSafety == Spec => StandingClaimsAreKept
<1> DEFINE Kept == \A c \in Candidates : Removes(c) =>
                       /\ held[WorktreeOf[c]] < Lifetime
                       /\ WorktreeOf[c] \notin leased
                       /\ c \notin busy \ late
<1>1. ASSUME IInv, Next PROVE Kept
  <2> SUFFICES ASSUME NEW c \in Candidates, Removes(c)
               PROVE  /\ held[WorktreeOf[c]] < Lifetime
                      /\ WorktreeOf[c] \notin leased
                      /\ c \notin busy \ late
      OBVIOUS
  <2>4. pc = "remove" /\ ~Expired /\ c = Current /\ WorktreeOf[c] = Home
      BY <1>1, OnlyTheControllerRemoves DEF RemoveCandidate, Home
  <2>5. Home \in Worktrees \cap EpochWorktrees
      BY <1>1, <2>4, HomeFacts DEF IInv, AtCandidate
  <2>6. held[Home] <= age /\ held[Home] \in Int /\ age \in Int
      BY <1>1, <2>4, <2>5, BoundAssumption DEF IInv, GuardInv, SnapshotInv, Snapped, AtCandidate,
             Types, Ages, Unheld
  <2>7. held[Home] < Lifetime
      BY <2>4, <2>6, BoundAssumption DEF Expired
  <2> QED
      BY <1>1, <2>4, <2>7 DEF IInv, GuardInv, Guarded
<1>2. IInv /\ [Next]_vars => [Kept]_vars
    BY <1>1
<1> QED
    BY <1>2, PressureInvariance, PTL DEF Spec, StandingClaimsAreKept

(* At most one deletion of a run happens after the source of its worktree  *)
(* left its baseline: cleanup_repositories_with_capture compares the two    *)
(* after every deletion, and stops.                                        *)
THEOREM DriftSafety == Spec => []DriftCostsOneDeletion
<1>1. IInv => DriftCostsOneDeletion
    BY DEF IInv, DriftInv, DriftCostsOneDeletion
<1> QED
    BY <1>1, PressureInvariance, PTL

----------------------------------------------------------------------------
(* The order of the classes.                                               *)

\* A planned candidate that needs no attention any more.
Settled(d) == FilesystemOf[d] \in satisfied \/ {d, WorktreeOf[d]} \cap refused # {}

\* The points from the beginning of an epoch on.
InEpoch == Snapped \cup {"revalidate", "baseline", "capture"}

\* The queue is of one class, and what is left of the epoch is its beginning.
QueueInv ==
    /\ rank \in Ranks /\ queue \in Seq(Candidates) /\ epoch \in Seq(Candidates)
    /\ \A c \in ToSet(queue) : RankOf[c] = rank
    /\ pc \in InEpoch => /\ attempted <= Len(epoch) /\ Len(epoch) <= attempted + Len(queue)
                         /\ \A i \in 1 .. Len(epoch) - attempted : epoch[attempted + i] = queue[i]

\* A worktree of the epoch is valid, refused, or still to be looked at.
ValidInv ==
    /\ pc = "revalidate" => EpochWorktrees \subseteq todo \cup valid \cup refused
    /\ pc \in InEpoch \ {"revalidate"} => EpochWorktrees \subseteq valid \cup refused

\* The candidate at hand is of the class, and is wanted; it is gone once counted.
AtHandInv ==
    /\ pc \in AtCandidate => RankOf[Current] = rank
    /\ pc \in AtCandidate \ {"refresh"} => Volume \notin satisfied
    /\ pc = "refresh" => Current \notin present

\* Cheaper classes are settled; this one is in the queue, at hand or settled.
SettledInv ==
    pc # "aborted" =>
        \A d \in present :
            /\ RankOf[d] < rank => Settled(d)
            /\ RankOf[d] = rank => \/ d \in ToSet(queue)
                                   \/ pc \in AtCandidate /\ d = Current
                                   \/ Settled(d)

ClassInv == QueueInv /\ ValidInv /\ AtHandInv /\ SettledInv

\* Every set of candidates has an arrangement in order: each candidate at the place that
\* counts those up to it.
LEMMA InOrderFacts ==
    ASSUME NEW S, S \subseteq Candidates
    PROVE  InOrder(S) \in Seq(S) /\ ToSet(InOrder(S)) = S
<1> DEFINE n == Cardinality(S)
           Upto(c) == {d \in S : Precedence[d] <= Precedence[c]}
           place == [c \in S |-> Cardinality(Upto(c))]
           Arranged(s) == \A i, j \in DOMAIN s : i < j => Precedence[s[i]] < Precedence[s[j]]
<1>1. IsFiniteSet(S) /\ n \in Nat /\ \A c \in S : Precedence[c] \in Nat
    BY FS_Subset, FS_CardinalityType, MappingAssumption, OrderAssumption
<1>2. IsFiniteSet(1 .. n) /\ Cardinality(1 .. n) = n
    BY <1>1, FS_Interval
<1>3. ASSUME NEW c \in S PROVE Upto(c) \in SUBSET S /\ IsFiniteSet(Upto(c)) /\ place[c] \in 1 .. n
  <2>1. Upto(c) \in SUBSET S /\ c \in Upto(c)
      BY <1>1
  <2>2. IsFiniteSet(Upto(c)) /\ Cardinality(Upto(c)) <= n
      BY <1>1, <2>1, FS_Subset
  <2>3. Cardinality(Upto(c)) \in Nat /\ Cardinality(Upto(c)) # 0
      BY <2>1, <2>2, FS_CardinalityType, FS_EmptySet
  <2> HIDE DEF Upto, n
  <2> QED
      BY <1>1, <2>1, <2>2, <2>3
<1>4. ASSUME NEW c \in S, NEW d \in S, Precedence[c] < Precedence[d] PROVE place[c] < place[d]
  <2>1. Upto(c) \in SUBSET Upto(d) /\ d \in Upto(d) /\ d \notin Upto(c)
      BY <1>1, <1>4
  <2>2. IsFiniteSet(Upto(d)) /\ place[c] \in Nat /\ place[d] \in Nat
      BY <1>3
  <2> HIDE DEF Upto, n
  <2>3. Cardinality(Upto(c)) <= Cardinality(Upto(d)) /\ Cardinality(Upto(d)) # Cardinality(Upto(c))
      BY <2>1, <2>2, FS_Subset
  <2> QED
      BY <2>2, <2>3
<1>5. place \in Surjection(S, 1 .. n)
  <2> HIDE DEF n
  <2>1. place \in [S -> 1 .. n]
      BY <1>3
  <2>2. \A c, d \in S : place[c] = place[d] => c = d
    <3> SUFFICES ASSUME NEW c \in S, NEW d \in S, place[c] = place[d], c # d PROVE FALSE
        OBVIOUS
    <3>1. Precedence[c] < Precedence[d] \/ Precedence[d] < Precedence[c]
        BY <1>1, OrderAssumption
    <3>2. place[c] \in Nat /\ place[d] \in Nat
        BY <1>3
    <3> HIDE DEF place
    <3> QED
        BY <1>4, <3>1, <3>2
  <2> HIDE DEF place
  <2>3. place \in Injection(S, 1 .. n)
      BY <2>1, <2>2 DEF Injection, IsInjective
  <2> QED
      BY <1>2, <2>3, FS_Injection DEF n
<1>6. \E s \in [1 .. n -> S] : Arranged(s)
  <2> HIDE DEF n, place
  <2> DEFINE s == [i \in 1 .. n |-> CHOOSE c \in S : place[c] = i]
  <2>1. \A i \in 1 .. n : s[i] \in S /\ place[s[i]] = i
      BY <1>5 DEF Surjection
  <2>2. \A i, j \in 1 .. n : i < j => Precedence[s[i]] < Precedence[s[j]]
    <3> HIDE DEF s
    <3> SUFFICES ASSUME NEW i \in 1 .. n, NEW j \in 1 .. n, i < j,
                        ~(Precedence[s[i]] < Precedence[s[j]])
                 PROVE  FALSE
        OBVIOUS
    <3>1. s[i] \in S /\ s[j] \in S /\ place[s[i]] = i /\ place[s[j]] = j
        BY <2>1
    <3>2. Precedence[s[j]] < Precedence[s[i]] \/ Precedence[s[j]] = Precedence[s[i]]
        BY <1>1, <3>1
    <3>3. Precedence[s[j]] # Precedence[s[i]]
        BY <1>1, <3>1, OrderAssumption
    <3> QED
        BY <1>1, <1>4, <3>1, <3>2, <3>3
  <2>3. s \in [1 .. n -> S]
      BY <2>1
  <2> QED
      BY <2>2, <2>3
<1> DEFINE q == InOrder(S)
<1>7. q \in [1 .. n -> S] /\ Arranged(q)
    BY <1>6 DEF InOrder
<1>8. q \in Surjection(1 .. n, S)
  <2> HIDE DEF n, q
  <2>1. \A i, j \in 1 .. n : q[i] = q[j] => i = j
    <3> SUFFICES ASSUME NEW i \in 1 .. n, NEW j \in 1 .. n, q[i] = q[j], i # j PROVE FALSE
        OBVIOUS
    <3>1. i < j \/ j < i
        BY <1>1
    <3>2. q[i] \in S /\ Precedence[q[i]] \in Nat
        BY <1>1, <1>7
    <3> QED
        BY <1>7, <3>1, <3>2
  <2>2. q \in Injection(1 .. n, S)
      BY <1>7, <2>1 DEF Injection, IsInjective
  <2> QED
      BY <1>1, <1>2, <2>2, FS_Injection DEF n
<1> HIDE DEF n, q
<1>9. q \in Seq(S)
    BY <1>1, <1>7
<1>10. ToSet(q) = S
    BY <1>7, <1>8 DEF ToSet, Surjection
<1> QED
    BY <1>9, <1>10 DEF q

\* What is taken from the head of the queue is its beginning.
LEMMA EpochFacts ==
    ASSUME NEW q \in Seq(Candidates)
    PROVE  /\ NextEpoch(q) \in Seq(Candidates) /\ Len(NextEpoch(q)) <= Len(q)
           /\ \A i \in 1 .. Len(NextEpoch(q)) : NextEpoch(q)[i] = q[i]
BY BoundAssumption DEF NextEpoch

\* The invariant holds before the first class is looked at.
LEMMA ClassInit == Init => ClassInv
<1> SUFFICES ASSUME Init PROVE ClassInv
    OBVIOUS
<1> DEFINE cheapest == {c \in Candidates : RankOf[c] = 0}
<1>1. Order(0) \in Seq(cheapest) /\ ToSet(Order(0)) = cheapest
    BY InOrderFacts DEF Order
<1>2. /\ pc = "filter" /\ rank = 0 /\ queue = Order(0) /\ epoch = <<>>
      /\ present = Candidates /\ satisfied = {} /\ refused = {}
    BY DEF Init
<1>3. QueueInv
  <2>1. queue \in Seq(Candidates)
      BY <1>1, <1>2
  <2> QED
      BY <1>1, <1>2, <2>1 DEF QueueInv, Ranks, InEpoch, Snapped, AtCandidate
<1>4. SettledInv
    BY <1>1, <1>2, MappingAssumption DEF SettledInv, Ranks
<1> QED
    BY <1>2, <1>3, <1>4 DEF ClassInv, ValidInv, AtHandInv, InEpoch, Snapped, AtCandidate

\* Nothing about the order changes when the queue and the epoch stay as they are, nothing
\* comes back, nothing settled is forgotten, and the next point asks for no more.
LEMMA ClassStays ==
    ASSUME ClassInv, IInv, UNCHANGED schedule,
           present' \subseteq present, satisfied \subseteq satisfied', refused \subseteq refused',
           pc' \in InEpoch => pc \in InEpoch,
           ValidInv', AtHandInv',
           pc \in AtCandidate /\ pc' \notin AtCandidate /\ Current \in present' => pc' = "aborted" \/ Settled(Current)',
           pc' # "aborted" => pc # "aborted"
    PROVE  ClassInv'
<1> USE DEF schedule
<1>1. UNCHANGED Current
    BY DEF Current
<1>2. QueueInv'
    BY DEF ClassInv, QueueInv
<1>3. \A d : Settled(d) => Settled(d)'
    BY DEF Settled
<1>4. SettledInv'
  <2> SUFFICES ASSUME pc' # "aborted", NEW d \in present'
               PROVE  /\ RankOf[d] < rank => Settled(d)'
                      /\ RankOf[d] = rank => \/ d \in ToSet(queue)
                                             \/ pc' \in AtCandidate /\ d = Current
                                             \/ Settled(d)'
      BY <1>1 DEF SettledInv
  <2> QED
      BY <1>1, <1>3 DEF ClassInv, SettledInv
<1> QED
    BY <1>2, <1>4 DEF ClassInv

\* The classes are taken in their order.
LEMMA ClassNextRank == ASSUME ClassInv, IInv, NextRank PROVE ClassInv'
<1> DEFINE next == {c \in Candidates : RankOf[c] = rank'}
           rest == {c \in ToSet(queue) \cap present : FilesystemOf[c] \notin satisfied}
<1>1. /\ pc = "filter" /\ pc' = "filter" /\ rank' = rank + 1 /\ rank < LastRank /\ queue' = Order(rank')
      /\ Filtered = <<>> /\ UNCHANGED <<present, epoch, satisfied, refused>>
    BY DEF NextRank, disk, report
<1>2. queue' \in Seq(next) /\ ToSet(queue') = next
    BY <1>1, InOrderFacts DEF Order
<1>3. rest \subseteq Candidates
    BY DEF ClassInv, QueueInv, ToSet
<1>4. rest = {}
  <2> HIDE DEF rest
  <2>1. ToSet(InOrder(rest)) = rest
      BY <1>3, InOrderFacts
  <2>2. InOrder(rest) = <<>>
      BY <1>1 DEF Filtered, rest
  <2> QED
      BY <2>1, <2>2 DEF ToSet
<1>5. rank \in 0 .. 4 /\ rank' \in Ranks
    BY <1>1 DEF ClassInv, QueueInv, Ranks, LastRank
<1>6. QueueInv'
  <2>1. queue' \in Seq(Candidates)
      BY <1>2
  <2> QED
      BY <1>1, <1>2, <1>5, <2>1 DEF QueueInv, ClassInv, InEpoch, Snapped, AtCandidate
<1>7. SettledInv'
  <2> SUFFICES ASSUME NEW d \in present
               PROVE  /\ RankOf[d] < rank' => Settled(d)
                      /\ RankOf[d] = rank' => d \in ToSet(queue')
      BY <1>1 DEF SettledInv, Settled
  <2>1. d \in Candidates
      BY DEF IInv, Types
  <2> QED
      BY <1>1, <1>2, <1>4, <1>5, <2>1, MappingAssumption DEF ClassInv, SettledInv, Settled, AtCandidate, Ranks
<1> QED
    BY <1>1, <1>6, <1>7 DEF ClassInv, ValidInv, AtHandInv, InEpoch, Snapped, AtCandidate

\* An epoch is the beginning of what is left of the class.
LEMMA ClassBeginEpoch == ASSUME ClassInv, IInv, BeginEpoch PROVE ClassInv'
<1> DEFINE rest == {c \in ToSet(queue) \cap present : FilesystemOf[c] \notin satisfied}
<1>1. /\ pc = "filter" /\ pc' = "revalidate" /\ queue' = Filtered /\ epoch' = NextEpoch(Filtered) /\ attempted' = 0
      /\ todo' = {WorktreeOf[c] : c \in ToSet(epoch')}
      /\ UNCHANGED <<present, rank, satisfied, refused>>
    BY DEF BeginEpoch, disk, report
<1>2. rest \subseteq Candidates
    BY DEF ClassInv, QueueInv, ToSet
<1>3. queue' \in Seq(Candidates) /\ ToSet(queue') = rest
  <2>1. queue' = InOrder(rest)
      BY <1>1 DEF Filtered
  <2> HIDE DEF rest
  <2> QED
      BY <1>2, <2>1, InOrderFacts
<1>4. QueueInv'
  <2>1. /\ epoch' \in Seq(Candidates) /\ Len(epoch') <= Len(queue')
        /\ \A i \in 1 .. Len(epoch') : epoch'[i] = queue'[i]
      BY <1>1, <1>3, EpochFacts
  <2>2. \A c \in ToSet(queue') : RankOf[c] = rank
      BY <1>3 DEF ClassInv, QueueInv
  <2>3. Len(epoch') \in Nat /\ Len(queue') \in Nat
      BY <1>3, <2>1
  <2> QED
      BY <1>1, <1>3, <2>1, <2>2, <2>3 DEF QueueInv, ClassInv
<1>5. SettledInv'
    BY <1>1, <1>3 DEF ClassInv, SettledInv, Settled, AtCandidate
<1> QED
    BY <1>1, <1>4, <1>5 DEF ClassInv, ValidInv, AtHandInv, EpochWorktrees, InEpoch, Snapped, AtCandidate

\* A candidate leaves the queue to be at hand, unless it is settled or gone.
LEMMA ClassNextCandidate == ASSUME ClassInv, IInv, NextCandidate PROVE ClassInv'
<1>0. PICK c : c = epoch[attempted + 1]
    OBVIOUS
<1>1. /\ pc = "next" /\ attempted + 1 \in DOMAIN epoch /\ pc' \in {"next", "authorize"}
      /\ queue' = Tail(queue) /\ attempted' = attempted + 1
      /\ satisfied' = IF c \in present THEN Observed(FilesystemOf[c]) ELSE satisfied
      /\ pc' = IF c \in present /\ FilesystemOf[c] \notin satisfied' /\ WorktreeOf[c] \in valid
               THEN "authorize" ELSE "next"
      /\ UNCHANGED <<present, rank, epoch, valid, refused>>
    BY <1>0 DEF NextCandidate, BatchIsOver, disk, prepared, report
<1>2. /\ queue \in Seq(Candidates) /\ epoch \in Seq(Candidates) /\ attempted \in Nat
      /\ attempted + 1 <= Len(epoch) /\ Len(epoch) <= attempted + Len(queue)
      /\ \A i \in 1 .. Len(epoch) - attempted : epoch[attempted + i] = queue[i]
    BY <1>1 DEF ClassInv, QueueInv, IInv, Types, InEpoch, Snapped
<1>3. /\ queue # <<>> /\ c = Head(queue) /\ c = queue[1]
      /\ DOMAIN queue = 1 .. Len(queue) /\ Len(queue) \in Nat
    BY <1>0, <1>2
<1>4. /\ Tail(queue) \in Seq(Candidates) /\ Len(Tail(queue)) = Len(queue) - 1
      /\ \A i \in 1 .. Len(queue) - 1 : Tail(queue)[i] = queue[i + 1]
    BY <1>2, <1>3
<1>5. ToSet(queue) = ToSet(Tail(queue)) \cup {c}
  <2>1. \A d \in ToSet(queue) : d = c \/ d \in ToSet(Tail(queue))
    <3> SUFFICES ASSUME NEW i \in 1 .. Len(queue), i # 1 PROVE queue[i] \in ToSet(Tail(queue))
        BY <1>2, <1>3 DEF ToSet
    <3>1. i - 1 \in 1 .. Len(queue) - 1
        BY <1>2
    <3>2. Tail(queue)[i - 1] = queue[i] /\ i - 1 \in DOMAIN Tail(queue)
        BY <1>2, <1>4, <3>1
    <3> QED
        BY <3>2 DEF ToSet
  <2>2. \A d \in ToSet(Tail(queue)) : d \in ToSet(queue)
    <3> SUFFICES ASSUME NEW i \in 1 .. Len(queue) - 1 PROVE queue[i + 1] \in ToSet(queue)
        BY <1>2, <1>4 DEF ToSet
    <3> QED
        BY <1>2 DEF ToSet
  <2>3. c \in ToSet(queue)
      BY <1>2, <1>3 DEF ToSet
  <2> QED
      BY <2>1, <2>2, <2>3
<1>6. c \in ToSet(epoch) /\ RankOf[c] = rank /\ c = Current'
    BY <1>0, <1>1, <1>5 DEF ClassInv, QueueInv, ToSet, Current
<1>7. WorktreeOf[c] \in valid \/ WorktreeOf[c] \in refused
    BY <1>1, <1>6 DEF ClassInv, ValidInv, EpochWorktrees, InEpoch, Snapped
<1>8. QueueInv'
  <2>1. \A i \in 1 .. Len(epoch) - (attempted + 1) : epoch[(attempted + 1) + i] = Tail(queue)[i]
    <3> SUFFICES ASSUME NEW i \in 1 .. Len(epoch) - (attempted + 1) PROVE epoch[(attempted + 1) + i] = Tail(queue)[i]
        OBVIOUS
    <3>1. i + 1 \in 1 .. Len(epoch) - attempted /\ i \in 1 .. Len(queue) - 1 /\ (attempted + 1) + i = attempted + (i + 1)
        BY <1>2
    <3> QED
        BY <1>2, <1>4, <3>1
  <2>2. Len(epoch) <= (attempted + 1) + Len(Tail(queue))
      BY <1>2, <1>4
  <2> QED
      BY <1>1, <1>2, <1>4, <1>5, <2>1, <2>2 DEF ClassInv, QueueInv
<1>9. satisfied \subseteq satisfied'
    BY <1>1 DEF Observed
<1>10. ValidInv' /\ AtHandInv'
    BY <1>1, <1>6 DEF ClassInv, ValidInv, AtHandInv, EpochWorktrees, InEpoch, Snapped, AtCandidate, Volume
<1>11. SettledInv'
  <2>1. \A d : Settled(d) => Settled(d)'
      BY <1>1, <1>9 DEF Settled
  <2>2. c \in present => pc' = "authorize" \/ Settled(c)'
      BY <1>1, <1>7 DEF Settled
  <2> QED
      BY <1>1, <1>5, <1>6, <2>1, <2>2 DEF ClassInv, SettledInv, AtCandidate
<1> QED
    BY <1>8, <1>10, <1>11 DEF ClassInv

\* The steps that prepare an epoch, and those that end one.
LEMMA ClassPreparation ==
    ASSUME ClassInv, IInv,
           \/ StartEpoch \/ CaptureOwnership \/ MountSnapshot \/ BeginExecution \/ Finish \/ EndBatch
           \/ EvidenceFails \/ ExpireBeforeExecution \/ \E c \in Candidates : LookupFails(c)
           \/ \E w \in Worktrees : RevalidateWorktree(w) \/ PrepareBaseline(w) \/ RecheckWorktree(w)
    PROVE  ClassInv'
<1>1. /\ UNCHANGED <<schedule, present, satisfied>> /\ refused \subseteq refused'
      /\ pc \notin AtCandidate /\ pc' \notin AtCandidate /\ pc # "aborted"
      /\ pc' \in InEpoch => pc \in InEpoch
    BY DEF StartEpoch, CaptureOwnership, MountSnapshot, BeginExecution, Finish, EndBatch, EvidenceFails,
           ExpireBeforeExecution, LookupFails, RevalidateWorktree, PrepareBaseline, RecheckWorktree,
           disk, report, AtCandidate, InEpoch, Snapped
<1>2. AtHandInv'
    BY <1>1 DEF AtHandInv, AtCandidate
<1>3. ValidInv'
  <2>1. EpochWorktrees' = EpochWorktrees
      BY <1>1 DEF EpochWorktrees, schedule
  <2>2. ASSUME NEW w \in Worktrees, RevalidateWorktree(w) PROVE ValidInv'
    <3>1. EpochWorktrees \subseteq todo \cup valid \cup refused
        BY <2>2 DEF RevalidateWorktree, ClassInv, ValidInv
    <3>2. /\ todo \cup valid \cup refused \subseteq {w} \cup (todo \ {w}) \cup valid' \cup refused'
          /\ w \in valid' \cup refused'
          /\ \/ pc' = "baseline" /\ todo = {w}
             \/ pc' = "revalidate" /\ todo' = todo \ {w}
        BY <2>2 DEF RevalidateWorktree
    <3> QED
        BY <2>1, <3>1, <3>2 DEF ValidInv
  <2>3. ASSUME NEW w \in Worktrees, PrepareBaseline(w) \/ RecheckWorktree(w) PROVE ValidInv'
    <3>1. /\ pc \in {"baseline", "recheck"} /\ pc' = pc /\ valid \cup refused \subseteq valid' \cup refused'
        BY <2>3 DEF PrepareBaseline, RecheckWorktree, report
    <3> QED
        BY <2>1, <3>1 DEF ClassInv, ValidInv, InEpoch, Snapped
  <2>4. CASE StartEpoch \/ CaptureOwnership \/ MountSnapshot \/ BeginExecution
    <3>1. pc \in InEpoch \ {"revalidate"} /\ pc' \in InEpoch \ {"revalidate"} /\ UNCHANGED <<valid, refused>>
        BY <2>4 DEF StartEpoch, CaptureOwnership, MountSnapshot, BeginExecution, prepared, report, InEpoch, Snapped
    <3> QED
        BY <2>1, <3>1 DEF ClassInv, ValidInv
  <2>5. CASE Finish \/ EndBatch \/ EvidenceFails \/ ExpireBeforeExecution \/ \E c \in Candidates : LookupFails(c)
    <3>1. pc' \in {"filter", "done", "aborted"}
        BY <2>5 DEF Finish, EndBatch, EvidenceFails, ExpireBeforeExecution, LookupFails
    <3> QED
        BY <3>1 DEF ValidInv, InEpoch, Snapped, AtCandidate
  <2> QED
      BY <2>2, <2>3, <2>4, <2>5
<1> QED
    BY <1>1, <1>2, <1>3, ClassStays

\* A candidate at hand stays so until it is refused, is gone, or the run ends.
LEMMA ClassCandidate ==
    ASSUME ClassInv, IInv,
           \/ Authorize \/ TakeCargoLocks \/ CargoLocksTimeOut \/ CheckDeadline
           \/ RevalidateCandidate \/ KeepAtDeadline \/ RemoveCandidate \/ RemovalFails
           \/ RefuseCandidate \/ CountDeletion \/ RefreshPlan \/ SystemCallFails
    PROVE  ClassInv'
<1>1. /\ UNCHANGED <<schedule, valid>> /\ present' \subseteq present
      /\ satisfied \subseteq satisfied' /\ refused \subseteq refused'
      /\ pc \in AtCandidate \cup {"baseline", "next"} /\ pc' \in AtCandidate \cup {"next", "aborted"}
      /\ pc \in {"baseline", "next"} => pc' = "aborted"
      /\ pc' \notin {"next", "aborted"} => UNCHANGED satisfied /\ pc # "refresh"
    BY DEF Authorize, TakeCargoLocks, CargoLocksTimeOut, CheckDeadline, RevalidateCandidate, KeepAtDeadline,
           RemoveCandidate, RemovalFails, RefuseCandidate, CountDeletion, RefreshPlan, SystemCallFails,
           disk, prepared, report, AtCandidate, Observed
<1>2. UNCHANGED <<Current, Volume, EpochWorktrees>>
    BY <1>1 DEF schedule, Current, Volume, EpochWorktrees
<1>3. ValidInv'
    BY <1>1, <1>2 DEF ClassInv, ValidInv, InEpoch, Snapped, AtCandidate
<1>4. /\ pc' = "refresh" => Current \notin present'
      /\ pc' = "next" => Current \notin present' \/ Current \in refused'
  <2>1. CASE RefuseCandidate \/ CountDeletion
      BY <2>1 DEF RefuseCandidate, CountDeletion, disk
  <2>2. CASE RefreshPlan
      BY <2>2 DEF RefreshPlan, ClassInv, AtHandInv, disk
  <2>3. CASE ~(RefuseCandidate \/ CountDeletion \/ RefreshPlan)
      BY <2>3 DEF Authorize, TakeCargoLocks, CargoLocksTimeOut, CheckDeadline, RevalidateCandidate,
             KeepAtDeadline, RemoveCandidate, RemovalFails, SystemCallFails
  <2> QED
      BY <2>1, <2>2, <2>3
<1>5. AtHandInv'
    BY <1>1, <1>2, <1>4 DEF ClassInv, AtHandInv, AtCandidate, schedule
<1>6. pc \in AtCandidate /\ pc' \notin AtCandidate /\ Current \in present' => pc' = "aborted" \/ Settled(Current)'
    BY <1>1, <1>2, <1>4 DEF Settled
<1> QED
    BY <1>1, <1>3, <1>5, <1>6, ClassStays DEF InEpoch, Snapped, AtCandidate

\* Every step keeps the order.
LEMMA ClassStep == ASSUME ClassInv, IInv, [Next]_vars PROVE ClassInv'
<1>1. CASE Controller
    BY <1>1, ClassNextRank, ClassBeginEpoch, ClassNextCandidate, ClassPreparation, ClassCandidate DEF Controller
<1>2. CASE World \/ UNCHANGED vars
  <2>1. /\ UNCHANGED <<schedule, pc, valid, satisfied, refused, todo>> /\ present' \subseteq present
      BY <1>2 DEF World, Edit, Alter, Vanish, Fill, Occupy, Leave, StartBuild, EndBuild, Protect,
             LeaseExpires, Tick, control, disk, prepared, report, vars, schedule
  <2>2. UNCHANGED <<Current, Volume, EpochWorktrees>>
      BY <2>1 DEF schedule, Current, Volume, EpochWorktrees
  <2>3. ValidInv' /\ AtHandInv'
      BY <2>1, <2>2 DEF ClassInv, ValidInv, AtHandInv, schedule
  <2> QED
      BY <2>1, <2>3, ClassStays
<1> QED
    BY <1>1, <1>2 DEF Next

(* A candidate goes only when those of cheaper classes on its filesystem   *)
(* are gone or refused: the queue of a class is left only when nothing in  *)
(* it is wanted any more, and a candidate leaves it only to be removed, to *)
(* be refused, or because its worktree was refused.                        *)
THEOREM ClassSafety == Spec => CheaperClassesFirst
<1> DEFINE Ordered == \A c, d \in Candidates :
                          /\ Removes(c)
                          /\ RankOf[d] < RankOf[c] /\ FilesystemOf[d] = FilesystemOf[c]
                          => d \notin present \/ {d, WorktreeOf[d]} \cap refused # {}
<1>1. ASSUME IInv, ClassInv, Next PROVE Ordered
  <2> SUFFICES ASSUME NEW c \in Candidates, NEW d \in Candidates, Removes(c),
                      RankOf[d] < RankOf[c], FilesystemOf[d] = FilesystemOf[c], d \in present
               PROVE  {d, WorktreeOf[d]} \cap refused # {}
      OBVIOUS
  <2>1. RemoveCandidate /\ c = Current
      BY <1>1, OnlyTheControllerRemoves
  <2>2. pc = "remove"
      BY <2>1 DEF RemoveCandidate
  <2>3. RankOf[c] = rank /\ FilesystemOf[c] \notin satisfied
      BY <1>1, <2>1, <2>2 DEF ClassInv, AtHandInv, AtCandidate, Volume
  <2>4. Settled(d)
      BY <1>1, <2>2, <2>3 DEF ClassInv, SettledInv
  <2> QED
      BY <2>3, <2>4 DEF Settled
<1>2. IInv /\ ClassInv /\ [Next]_vars => [Ordered]_vars
    BY <1>1
<1>3. Spec => []ClassInv
    BY ClassInit, ClassStep, PressureInvariance, PTL DEF Spec
<1> QED
    BY <1>2, <1>3, PressureInvariance, PTL DEF Spec, CheaperClassesFirst
=============================================================================
