------------------------ MODULE PressureController ------------------------
(***************************************************************************)
(* Pressure recovery (src/src/lib.rs): the planned pressure deletions of   *)
(* all repositories, in rebuild-cost classes, taken from a queue in        *)
(* epochs.  An epoch is a bounded batch of candidates executed under one   *)
(* ownership snapshot, which loses its authority after `Lifetime` units of *)
(* time.                                                                   *)
(*                                                                         *)
(* The world around the controller: users edit source, processes enter and *)
(* leave worktrees, clients protect them, builds hold Cargo locks or touch *)
(* candidates, candidates vanish, and others consume free space.  Time is  *)
(* kept as ages: of the epoch, and of the present occupation of each       *)
(* worktree, both saturating at Lifetime.  Ownership is of worktrees       *)
(* because execute_cleanup keeps every candidate of an owned worktree      *)
(* (check_in_use is assumed, as owner_free_generated requires it).         *)
(***************************************************************************)
EXTENDS Integers, FiniteSets, SequencesExt

CONSTANTS
    Worktrees, Filesystems, Candidates,
    WorktreeOf,   \* the worktree of each candidate
    FilesystemOf, \* the filesystem of each candidate
    RankOf,       \* generated_rebuild_rank of each candidate
    Precedence,   \* position in pressure_generated_candidate_order
    Kind,         \* "plain", "locked" (target) or "bare" (target without locks)
    Visible,      \* candidates Git shows as untracked instead of ignoring
    Size,         \* space a candidate frees
    Free,         \* free space of each filesystem when the phase begins
    Target,       \* target_free_space
    Batch,        \* PRESSURE_EPOCH_MAX_CANDIDATES
    Lifetime,     \* PRESSURE_EPOCH_MAX_DURATION
    Defer,        \* defer_lock_timeouts
    NoBaseline,   \* a worktree without a source baseline
    MaxMoves,     \* bound: moves of the world that change something for good
    MaxFaults     \* bound: failing probes and system calls

Ranks == 0 .. 4 \* generated_rebuild_rank

ASSUME MappingAssumption ==
    /\ WorktreeOf \in [Candidates -> Worktrees]
    /\ FilesystemOf \in [Candidates -> Filesystems]
    /\ RankOf \in [Candidates -> Ranks]
    /\ Kind \in [Candidates -> {"plain", "locked", "bare"}]
    /\ Visible \subseteq Candidates
    /\ Candidates \cap Worktrees = {} /\ IsFiniteSet(Candidates)
ASSUME OrderAssumption ==
    /\ Precedence \in [Candidates -> Nat]
    /\ \A c, d \in Candidates : Precedence[c] = Precedence[d] => c = d
ASSUME SpaceAssumption ==
    Size \in [Candidates -> Nat] /\ Free \in [Filesystems -> Nat] /\ Target \in Nat
ASSUME BoundAssumption ==
    /\ Batch \in Nat \ {0} /\ Lifetime \in Nat \ {0} /\ Defer \in BOOLEAN
    /\ MaxMoves \in Nat /\ MaxFaults \in Nat

\* What Git says of a worktree: its edits, and the candidates it shows.
Edits    == [tracked : Nat, untracked : Nat]
Statuses == [source : Edits, seen : SUBSET Visible]

ASSUME BaselineAssumption == NoBaseline \notin Statuses

VARIABLES
    present,    \* candidates on disk
    altered,    \* candidates whose identity or activity is not the planned one
    busy,       \* "locked" candidates in which a build holds a Cargo lock
    source,     \* edits of each worktree: [tracked, untracked]
    held,       \* age of the occupation of each worktree, Unheld if none
    leased,     \* worktrees under an active protection
    free,       \* free space of each filesystem
    moves, faults,
    planned,    \* source status of each worktree in the manifest
    rank, queue, epoch, attempted,
    todo,       \* worktrees the loop at pc has still to visit
    valid,      \* valid_worktrees
    baseline,   \* source_before_by_worktree
    age,        \* time since epoch_started
    snapshot,   \* worktrees owned in epoch_snapshot
    satisfied,  \* satisfied_filesystems
    refused,    \* candidate_refusals, of candidates and of worktrees
    deferred,   \* candidates in the inbox
    deleted,    \* candidates counted in generated_deletions
    stopped,    \* pressure_stopped_reason is set
    written,    \* the metrics in the aggregate manifest
    pc,
    drifted,    \* ghost: deletions begun after the baseline ceased to hold
    late        \* ghost: candidates with a build that began while their locks
                \* were held, in a new profile, since one was last revalidated

vars == <<present, altered, busy, source, held, leased, free, moves, faults, planned,
          rank, queue, epoch, attempted, todo, valid, baseline, age, snapshot,
          satisfied, refused, deferred, deleted, stopped, written, pc, drifted, late>>

disk     == <<present, altered>>
people   == <<busy, source, held, leased, moves>>
schedule == <<rank, queue, epoch, attempted>>
prepared == <<valid, baseline, todo>>
evidence == <<age, snapshot>>
report   == <<refused, deferred, deleted, stopped, written>>
ghosts   == <<drifted, late>>

Unheld == -1
Ages   == 0 .. Lifetime

----------------------------------------------------------------------------
(* What Git says of a worktree, and the questions the controller asks.     *)
VisibleIn(w) == {c \in present \cap Visible : WorktreeOf[c] = w}

\* HEAD and dirty_status, of which visible candidates are a part.
Status(w) == [source |-> source[w], seen |-> VisibleIn(w)]

\* pressure_worktree_source_baseline: without the candidates of the epoch.
Baseline(w) == [source |-> source[w], seen |-> VisibleIn(w) \ ToSet(epoch)]

Current        == epoch[attempted]
Home           == WorktreeOf[Current]
Volume         == FilesystemOf[Current]
EpochWorktrees == {WorktreeOf[c] : c \in ToSet(epoch)}

\* pressure_policy_should_continue, apart from satisfied_filesystems.
Needed(f) == free[f] < Target

\* Mutant: the epoch has no deadline.
NeverExpired == FALSE

\* pressure_epoch_expired, and `now >= epoch_deadline`.
Expired == age >= Lifetime

\* `for rank in 0..=4`
LastRank == 4

\* pressure_generated_candidate_order
InOrder(S) ==
    CHOOSE s \in [1 .. Cardinality(S) -> S] :
        \A i, j \in DOMAIN s : i < j => Precedence[s[i]] < Precedence[s[j]]

\* Mutant: rebuild cost counts for nothing.
OrderByPrecedence(r) == InOrder({c \in Candidates : r = 0})

\* The candidates of one class.
Order(r) == InOrder({c \in Candidates : RankOf[c] = r})

NextEpoch(q) == SubSeq(q, 1, IF Len(q) < Batch THEN Len(q) ELSE Batch)

\* Mutant: the whole epoch, its first candidate too, is subject to the deadline.
BatchIsOverAtDeadline == attempted + 1 \notin DOMAIN epoch \/ Expired

BatchIsOver == attempted + 1 \notin DOMAIN epoch \/ (attempted > 0 /\ Expired)

\* The execution metrics in memory, as write_root puts them on disk.
Metrics == [refused |-> refused, deleted |-> deleted, stopped |-> stopped]

Init ==
    /\ present = Candidates /\ altered = {} /\ busy = {}
    /\ source = [w \in Worktrees |-> [tracked |-> 0, untracked |-> 0]]
    /\ held = [w \in Worktrees |-> Unheld]
    /\ leased = {}
    /\ free = Free
    /\ moves = 0 /\ faults = 0
    /\ planned = [w \in Worktrees |-> Status(w)]
    /\ rank = 0 /\ queue = Order(0) /\ epoch = <<>> /\ attempted = 0
    /\ todo = {} /\ valid = {} /\ baseline = [w \in Worktrees |-> NoBaseline]
    /\ age = 0 /\ snapshot = {}
    /\ satisfied = {}
    /\ refused = {} /\ deferred = {} /\ deleted = {} /\ stopped = FALSE
    /\ written = Metrics
    /\ pc = "filter"
    /\ drifted = 0 /\ late = {}

----------------------------------------------------------------------------
(* The queue: filter_pressure_candidates, and the loops over it.           *)
\* The queue is in order, and so is what is left of it.
Filtered == InOrder({c \in ToSet(queue) \cap present : FilesystemOf[c] \notin satisfied})

NextRank ==
    /\ pc = "filter" /\ Filtered = <<>> /\ rank < LastRank
    /\ rank' = rank + 1
    /\ queue' = Order(rank')
    /\ UNCHANGED <<disk, people, free, faults, planned, epoch, attempted, prepared,
                   evidence, satisfied, report, pc, ghosts>>

\* Every class is exhausted: whole worktrees come next.
Finish ==
    /\ pc = "filter" /\ Filtered = <<>> /\ rank = LastRank
    /\ pc' = "done"
    /\ UNCHANGED <<disk, people, free, faults, planned, schedule, prepared,
                   evidence, satisfied, report, ghosts>>

LookupFails(c) ==
    /\ pc = "filter" /\ c \in ToSet(queue) \cap present
    /\ faults < MaxFaults /\ faults' = faults + 1
    /\ refused' = refused \cup {c} /\ stopped' = TRUE
    /\ pc' = "aborted"
    /\ UNCHANGED <<disk, people, free, planned, schedule, prepared, evidence,
                   satisfied, deferred, deleted, ghosts>>
    /\ written' = Metrics'

BeginEpoch ==
    /\ pc = "filter" /\ Filtered # <<>>
    /\ queue' = Filtered
    /\ epoch' = NextEpoch(Filtered) /\ attempted' = 0
    /\ todo' = {WorktreeOf[c] : c \in ToSet(epoch')}
    /\ valid' = {} /\ baseline' = [w \in Worktrees |-> NoBaseline]
    /\ pc' = "revalidate"
    /\ UNCHANGED <<disk, people, free, faults, planned, rank, evidence, satisfied,
                   report, ghosts>>

----------------------------------------------------------------------------
(* Source preparation, before the clock of the epoch starts.               *)

\* revalidate_pressure_epoch_worktrees
RevalidateWorktree(w) ==
    /\ pc = "revalidate" /\ w \in todo
    /\ IF Status(w) = planned[w]
       THEN valid' = valid \cup {w} /\ UNCHANGED refused
       ELSE refused' = refused \cup {w} /\ UNCHANGED valid
    /\ IF todo = {w} THEN pc' = "baseline" /\ todo' = valid'
                     ELSE todo' = todo \ {w} /\ UNCHANGED pc
    /\ UNCHANGED <<disk, people, free, faults, planned, schedule, baseline, evidence,
                   satisfied, deferred, deleted, stopped, written, ghosts>>

\* A baseline for each valid worktree that still has a candidate of the epoch.
PrepareBaseline(w) ==
    /\ pc = "baseline" /\ w \in todo
    /\ todo' = todo \ {w}
    /\ baseline' = IF \E c \in ToSet(epoch) \cap present : WorktreeOf[c] = w
                   THEN [baseline EXCEPT ![w] = Baseline(w)] ELSE baseline
    /\ UNCHANGED <<disk, people, free, faults, planned, schedule, valid, evidence,
                   satisfied, report, pc, ghosts>>

\* start_pressure_epoch_after_preparation; refusals are written before it.
StartEpoch ==
    /\ pc = "baseline" /\ todo = {}
    /\ written' = Metrics
    /\ age' = 0
    /\ pc' = "capture"
    /\ UNCHANGED <<disk, people, free, faults, planned, schedule, prepared, snapshot,
                   satisfied, refused, deferred, deleted, stopped, ghosts>>

----------------------------------------------------------------------------
(* The evidence of the epoch.                                              *)

Owned == {w \in EpochWorktrees : held[w] # Unheld}

CaptureOwnership ==
    /\ pc = "capture"
    /\ snapshot' = Owned
    /\ pc' = "mounts"
    /\ UNCHANGED <<disk, people, free, faults, planned, schedule, prepared, age,
                   satisfied, report, ghosts>>

MountSnapshot ==
    /\ pc = "mounts"
    /\ todo' = valid
    /\ pc' = "recheck"
    /\ UNCHANGED <<disk, people, free, faults, planned, schedule, valid, baseline,
                   evidence, satisfied, report, ghosts>>

\* record_incomplete_pressure_epoch, or no mount points: break 'pressure.
EvidenceFails ==
    /\ pc \in {"capture", "mounts"}
    /\ faults < MaxFaults /\ faults' = faults + 1
    /\ refused' = refused \cup ToSet(epoch) /\ stopped' = TRUE
    /\ pc' = "done"
    /\ UNCHANGED <<disk, people, free, planned, schedule, prepared, evidence,
                   satisfied, deferred, deleted, ghosts>>
    /\ written' = Metrics'

\* revalidate_prepared_pressure_epoch_worktrees: HEAD and tracked status only.
RecheckWorktree(w) ==
    /\ pc = "recheck" /\ w \in todo
    /\ todo' = todo \ {w}
    /\ IF /\ baseline[w] # NoBaseline
          /\ source[w].tracked = baseline[w].source.tracked
       THEN UNCHANGED <<valid, refused>>
       ELSE valid' = valid \ {w} /\ refused' = refused \cup {w}
    /\ UNCHANGED <<disk, people, free, faults, planned, schedule, baseline, evidence,
                   satisfied, deferred, deleted, stopped, written, pc, ghosts>>

BeginExecution ==
    /\ pc = "recheck" /\ todo = {} /\ ~Expired
    /\ written' = Metrics
    /\ pc' = "next"
    /\ UNCHANGED <<disk, people, free, faults, planned, schedule, prepared, evidence,
                   satisfied, refused, deferred, deleted, stopped, ghosts>>

ExpireBeforeExecution ==
    /\ pc = "recheck" /\ todo = {} /\ Expired
    /\ stopped' = TRUE
    /\ pc' = "done"
    /\ UNCHANGED <<disk, people, free, faults, planned, schedule, prepared, evidence,
                   satisfied, refused, deferred, deleted, ghosts>>
    /\ written' = Metrics'

----------------------------------------------------------------------------
(* One candidate at a time, first of the epoch and of the queue.           *)
EndBatch ==
    /\ pc = "next" /\ BatchIsOver
    /\ written' = Metrics
    /\ pc' = "filter"
    /\ UNCHANGED <<disk, people, free, faults, planned, schedule, prepared, evidence,
                   satisfied, refused, deferred, deleted, stopped, ghosts>>

\* root_pressure_should_continue: satisfied_filesystems learns of f.
Observed(f) == IF Needed(f) THEN satisfied ELSE satisfied \cup {f}

NextCandidate ==
    /\ pc = "next" /\ ~BatchIsOver
    /\ queue' = Tail(queue) /\ attempted' = attempted + 1
    /\ LET c == epoch[attempted + 1]
           f == FilesystemOf[c]
       IN /\ satisfied' = IF c \in present THEN Observed(f) ELSE satisfied
          /\ pc' = IF c \in present /\ f \notin satisfied' /\ WorktreeOf[c] \in valid
                   THEN "authorize" ELSE "next"
    /\ UNCHANGED <<disk, people, free, faults, planned, rank, epoch, prepared,
                   evidence, report, ghosts>>

\* What execute_cleanup asks before, and with_protection_guard when, it takes
\* protections.lock.
Allowed ==
    /\ Current \in present /\ Needed(Volume)
    /\ Home \notin snapshot
    /\ Home \notin leased
    /\ Kind[Current] # "bare"

Authorize ==
    /\ pc = "authorize"
    /\ pc' = IF ~Allowed THEN "settle"
             ELSE IF Kind[Current] = "locked" THEN "cargo" ELSE "check"
    /\ UNCHANGED <<disk, people, free, faults, planned, schedule, prepared, evidence,
                   satisfied, report, ghosts>>

\* with_cargo_profile_locks_timeout: the locks of the profiles that are there.
TakeCargoLocks ==
    /\ pc = "cargo" /\ Current \notin busy
    /\ pc' = "check"
    /\ UNCHANGED <<disk, people, free, faults, planned, schedule, prepared, evidence,
                   satisfied, report, ghosts>>

CargoLocksTimeOut ==
    /\ pc = "cargo" /\ Current \in busy
    /\ IF Defer THEN deferred' = deferred \cup {Current} /\ pc' = "settle"
                ELSE pc' = "aborted" /\ UNCHANGED deferred
    /\ UNCHANGED <<disk, people, free, faults, planned, schedule, prepared, evidence,
                   satisfied, refused, deleted, stopped, written, ghosts>>

\* revalidate_before_ownership_deadline: before the revalidation ...
CheckDeadline ==
    /\ pc = "check"
    /\ pc' = IF Expired THEN "settle" ELSE "revalidateCandidate"
    /\ UNCHANGED <<disk, people, free, faults, planned, schedule, prepared, evidence,
                   satisfied, report, ghosts>>

\* revalidate_generated_candidate: identity, activity, boundary and ownership.
RevalidateCandidate ==
    /\ pc = "revalidateCandidate"
    /\ pc' = IF Current \in present \ altered /\ Home \notin snapshot
             THEN "remove" ELSE "settle"
    /\ late' = {}
    /\ UNCHANGED <<disk, people, free, faults, planned, schedule, prepared, evidence,
                   satisfied, report, drifted>>

\* ... and after it.
KeepAtDeadline ==
    /\ pc = "remove" /\ Expired
    /\ pc' = "settle"
    /\ UNCHANGED <<disk, people, free, faults, planned, schedule, prepared, evidence,
                   satisfied, report, ghosts>>

\* fs::remove_dir_all
RemoveCandidate ==
    /\ pc = "remove" /\ ~Expired /\ Current \in present
    /\ present' = present \ {Current}
    /\ free' = [free EXCEPT ![Volume] = @ + Size[Current]]
    /\ drifted' = IF Baseline(Home) = baseline[Home] THEN drifted ELSE drifted + 1
    /\ pc' = "settle"
    /\ UNCHANGED <<altered, people, faults, planned, schedule, prepared, evidence,
                   satisfied, report, late>>

\* The removal fails part way, or finds nothing: the run ends with its error.
RemovalFails ==
    /\ pc = "remove" /\ ~Expired
    /\ \/ Current \notin present /\ UNCHANGED faults
       \/ faults < MaxFaults /\ faults' = faults + 1
    /\ altered' = altered \cup {Current}
    /\ pc' = "aborted"
    /\ UNCHANGED <<present, people, free, planned, schedule, prepared, evidence,
                   satisfied, report, ghosts>>

\* persist_candidate_refusal, for a candidate that is still there.
RefuseCandidate ==
    /\ pc = "settle" /\ Current \in present
    /\ refused' = refused \cup {Current}
    /\ pc' = "next"
    /\ UNCHANGED <<disk, people, free, faults, planned, schedule, prepared, evidence,
                   satisfied, deferred, deleted, stopped, ghosts>>
    /\ written' = Metrics'

\* Mutant: the source is not compared after a deletion.
SourceHeldAnyway == TRUE

SourceHeld == Baseline(Home) = baseline[Home]

\* A candidate that is gone counts as deleted, whoever removed it.
CountDeletion ==
    /\ pc = "settle" /\ Current \notin present
    /\ deleted' = deleted \cup {Current}
    /\ pc' = IF SourceHeld THEN "refresh" ELSE "aborted"
    /\ UNCHANGED <<disk, people, free, faults, planned, schedule, prepared, evidence,
                   satisfied, refused, deferred, stopped, written, ghosts>>

\* refresh_planned_worktree_source reads the live status once more.
RefreshPlan ==
    /\ pc = "refresh"
    /\ planned' = [planned EXCEPT ![Home] = Status(Home)]
    /\ satisfied' = Observed(Volume)
    /\ pc' = "next"
    /\ UNCHANGED <<disk, people, free, faults, schedule, prepared, evidence, report, ghosts>>

\* An error of a system call or of Git that the run passes on with `?`.
SystemCallFails ==
    /\ pc \in {"baseline", "next", "authorize", "cargo", "settle", "refresh"}
    /\ faults < MaxFaults /\ faults' = faults + 1
    /\ pc' = "aborted"
    /\ UNCHANGED <<disk, people, free, planned, schedule, prepared, evidence,
                   satisfied, report, ghosts>>

Controller ==
    \/ NextRank \/ Finish \/ BeginEpoch
    \/ \E c \in Candidates : LookupFails(c)
    \/ \E w \in Worktrees : RevalidateWorktree(w) \/ PrepareBaseline(w) \/ RecheckWorktree(w)
    \/ StartEpoch \/ CaptureOwnership \/ MountSnapshot \/ EvidenceFails
    \/ BeginExecution \/ ExpireBeforeExecution \/ EndBatch \/ NextCandidate
    \/ Authorize \/ TakeCargoLocks \/ CargoLocksTimeOut \/ CheckDeadline
    \/ RevalidateCandidate \/ KeepAtDeadline \/ RemoveCandidate \/ RemovalFails
    \/ RefuseCandidate \/ CountDeletion \/ RefreshPlan \/ SystemCallFails

----------------------------------------------------------------------------
(* The world.                                                              *)
Running == pc \notin {"done", "aborted"}

\* protections.lock is held from the guard to the end of the removal.
Guarded == pc \in {"cargo", "check", "revalidateCandidate", "remove"}

\* Those it listed; a profile made since has a lock of its own.
HoldsCargoLocks(c) ==
    pc \in {"check", "revalidateCandidate", "remove"} /\ c = Current /\ Kind[c] = "locked"

control == <<planned, schedule, prepared, evidence, satisfied, report, pc, faults, ghosts>>

Move == Running /\ moves < MaxMoves /\ moves' = moves + 1

Edit(w, what) ==
    /\ Move
    /\ source' = [source EXCEPT ![w][what] = @ + 1]
    /\ UNCHANGED <<disk, busy, held, leased, free, control>>

\* Written to, or replaced by another directory.
Alter(c) ==
    /\ Move /\ c \in present \ altered
    /\ altered' = altered \cup {c}
    /\ UNCHANGED <<present, busy, source, held, leased, free, control>>

\* Moved away or removed; the space it took stays taken.
Vanish(c) ==
    /\ Move /\ c \in present
    /\ present' = present \ {c}
    /\ UNCHANGED <<altered, busy, source, held, leased, free, control>>

Fill(f) ==
    /\ Move /\ free[f] > 0
    /\ free' = [free EXCEPT ![f] = @ - 1]
    /\ UNCHANGED <<disk, busy, source, held, leased, control>>

Occupied(w) == [held EXCEPT ![w] = IF @ = Unheld THEN 0 ELSE @]

Occupy(w) ==
    /\ Move /\ held[w] = Unheld
    /\ held' = Occupied(w)
    /\ UNCHANGED <<disk, busy, source, leased, free, control>>

Leave(w) ==
    /\ Running /\ held[w] # Unheld /\ \A c \in busy : WorktreeOf[c] # w
    /\ held' = [held EXCEPT ![w] = Unheld]
    /\ UNCHANGED <<disk, busy, source, leased, free, moves, control>>

\* While the locks are held a build can only begin in a profile that it makes,
\* which shows in the activity of the candidate.
StartBuild(c) ==
    /\ Move /\ Kind[c] = "locked" /\ c \in present \ busy
    /\ busy' = busy \cup {c}
    /\ held' = Occupied(WorktreeOf[c])
    /\ IF HoldsCargoLocks(c)
       THEN altered' = altered \cup {c} /\ late' = late \cup {c}
       ELSE UNCHANGED <<altered, late>>
    /\ UNCHANGED <<present, source, leased, free, faults, planned, schedule, prepared,
                   evidence, satisfied, report, pc, drifted>>

EndBuild(c) ==
    /\ Running /\ c \in busy
    /\ busy' = busy \ {c}
    /\ UNCHANGED <<disk, source, held, leased, free, moves, control>>

Protect(w) ==
    /\ Move /\ w \notin leased /\ ~Guarded
    /\ leased' = leased \cup {w}
    /\ UNCHANGED <<disk, busy, source, held, free, control>>

LeaseExpires(w) ==
    /\ Running /\ w \in leased
    /\ leased' = leased \ {w}
    /\ UNCHANGED <<disk, busy, source, held, free, moves, control>>

Older(a) == IF a = Unheld \/ a = Lifetime THEN a ELSE a + 1

Tick ==
    /\ Running
    /\ age' = Older(age)
    /\ held' = [w \in Worktrees |-> Older(held[w])]
    /\ UNCHANGED <<disk, busy, source, leased, free, moves, faults, planned, schedule,
                   prepared, snapshot, satisfied, report, pc, ghosts>>

World ==
    \/ \E w \in Worktrees : \/ \E what \in {"tracked", "untracked"} : Edit(w, what)
                            \/ Occupy(w) \/ Leave(w) \/ Protect(w) \/ LeaseExpires(w)
    \/ \E c \in Candidates : Alter(c) \/ Vanish(c) \/ StartBuild(c) \/ EndBuild(c)
    \/ \E f \in Filesystems : Fill(f)
    \/ Tick

Next == Controller \/ World

Spec     == Init /\ [][Next]_vars
FairSpec == Spec /\ WF_vars(Controller)

----------------------------------------------------------------------------
(* Properties.                                                             *)

\* The controller, and not the world, takes c away.
Removes(c) == c \in present \ present' /\ UNCHANGED moves

(* A candidate is never deleted while somebody has a claim to its worktree *)
(* that the controller could have known of: a process that has been in it  *)
(* for as long as an epoch lives, a lease, or a build with its Cargo lock, *)
(* unless that build began, in a profile of its own making, after the last *)
(* look at the candidate.  This is what the order of execution is for: the *)
(* clock starts before the snapshot, the locks are waited for after it,    *)
(* the activity is compared under them, the deadline is read last.         *)
StandingClaimsAreKept ==
    [][\A c \in Candidates : Removes(c) =>
          /\ held[WorktreeOf[c]] < Lifetime
          /\ WorktreeOf[c] \notin leased
          /\ c \notin busy \ late]_vars

(* A candidate of a class is deleted only when every cheaper one on its    *)
(* filesystem is gone, or it or its worktree was refused and says so.      *)
CheaperClassesFirst ==
    [][\A c, d \in Candidates :
          /\ Removes(c)
          /\ RankOf[d] < RankOf[c] /\ FilesystemOf[d] = FilesystemOf[c]
          => d \notin present \/ {d, WorktreeOf[d]} \cap refused # {}]_vars

(* Source that changes after its baseline was taken costs at most the one  *)
(* deletion during which it changed.                                       *)
DriftCostsOneDeletion == drifted <= 1

(* Recovery ends, however short-lived its epochs. When it ends by itself,  *)
(* each planned candidate is gone, or its filesystem has its target, or a  *)
(* refusal accounts for it: an epoch cut short by its deadline leaves its  *)
(* rest in the queue.                                                      *)
RecoveryEnds ==
    <>(\/ pc = "aborted"
       \/ pc = "done" /\ (stopped \/ \A c \in present : \/ FilesystemOf[c] \in satisfied
                                                       \/ {c, WorktreeOf[c]} \cap refused # {}))
=============================================================================
