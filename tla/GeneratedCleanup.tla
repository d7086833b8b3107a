-------------------------- MODULE GeneratedCleanup --------------------------
(***************************************************************************)
(* Generated directories of one repository in a root-scoped cleanup run    *)
(* (src/src/lib.rs): the scan of every worktree, the reconciliation of     *)
(* nested decisions, the measurement, the second plan with its carried     *)
(* measurements, the ownership snapshot and the routine pass: deletions,   *)
(* sweeps, and the worktrees that go as a whole (WorktreeCleanup follows   *)
(* those).  Directories that only pressure condemns are left by this pass  *)
(* to PressureController, swept and measured once more.                    *)
(*                                                                         *)
(* A linked worktree may lie in a generated directory of another one, so   *)
(* candidates nest.  Ages are counted in windows outlived: 1 the pressure  *)
(* window, 2 the routine one.                                              *)
(***************************************************************************)
EXTENDS Naturals, FiniteSets

CONSTANTS
    Checkouts,    \* the worktrees of the repository
    Dirs,         \* directories with a configured name, the topmost of each path
    HomeOf,       \* the worktree whose Git lists each directory
    Tree,         \* each place with every place below it
    Cargo,        \* the directories called target
    Openings,     \* [settings, dir, age, tidy, people, leases] a run may meet
    Latest,       \* bound: identities of a directory
    MaxEvents,    \* bound: changes in the world
    MaxFailures   \* bound: probes without a complete answer

Places == Checkouts \cup Dirs

\* Below means below: paths nest, and of two above a third one is above the other.
ASSUME TreeAssumption ==
    /\ \A x \in Places : /\ x \in Tree[x] /\ Tree[x] \subseteq Places
                          /\ \A y \in Tree[x] : Tree[y] \subseteq Tree[x]
    /\ \A x, y \in Places : Tree[x] \cap Tree[y] # {} => x \in Tree[y] \/ y \in Tree[x]

\* A directory lies in its worktree with no other place in between, and is no
\* worktree itself (is_repository_boundary).
ASSUME HomeAssumption ==
    /\ Checkouts \cap Dirs = {} /\ HomeOf \in [Dirs -> Checkouts]
    /\ \A d \in Dirs : /\ d \in Tree[HomeOf[d]]
                        /\ \A x \in Places \ {d} : d \in Tree[x] => HomeOf[d] \in Tree[x]

\* Pressure that asks only for owners requires that owners are asked for
\* (scheduled_pressure_policy).
Settings    == {s \in [inUse : BOOLEAN, activityOnly : BOOLEAN, timeout : BOOLEAN,
                       pressure : {"off", "window", "ownerFree"}] :
                   s.pressure = "ownerFree" => s.inUse}
Directories == [kind : {"Delete", "SweepOnly", "ReportOnly"}, gen : 1 .. Latest, days : 0 .. 2,
                tracked : BOOLEAN, sweep : {"none", "work", "refused"}, locks : BOOLEAN]

ASSUME OpeningsAssumption ==
    /\ Openings # {} /\ Latest \in Nat
    /\ Openings \subseteq [settings : Settings, dir : [Dirs -> Directories],
                           age : [Checkouts -> 0 .. 2], tidy : SUBSET Checkouts,
                           people : SUBSET Places, leases : SUBSET Places]

VARIABLES
    settings,     \* [inUse, activityOnly, pressure, timeout]
    tidy,         \* worktrees that nothing but age, owners and leases keep
    there,        \* the places that exist
    dir,          \* each directory: [kind, gen, days, tracked, sweep, locks]
    age,          \* of the source of each worktree
    leases,       \* places under a lease
    people,       \* places a process holds
    decision,     \* GeneratedDirDecision: [action, class, work, refused]
    removal,      \* worktrees to be removed in the routine pass
    identity,     \* identities taken before the inventory; 0: not a target
    measured,     \* the identity a complete measurement belongs to, or 0
    ownership,    \* the snapshot in use: [complete, held]
    queue, stage,
    inhabited,    \* ghost: places held since the snapshot of the pass
    unseen,       \* ghost: directories changed since the run last scanned them
    events, failures

surroundings == <<settings, tidy, there, dir, age, leases, people, events>>
judgement    == <<decision, removal, identity, measured>>
progress     == <<ownership, queue, stage>>
cleanupVars  == <<surroundings, judgement, progress, inhabited, unseen, failures>>

DirsOf(w) == {d \in Dirs : HomeOf[d] = w}
Home(x)   == IF x \in Dirs THEN HomeOf[x] ELSE x

----------------------------------------------------------------------------
(* The scan (scan_generated_dirs_for_worktree).                            *)

\* generated_dir_identity: file system, inode and modification time of the root.
Identity(d) == dir[d].gen

\* sampled_mtime: the newest modification down to a bounded depth.
SampledAge(d) == dir[d].days

\* protection_for_path: a lease on the place, above it or below it.
Leased(x) == \E p \in leases : x \in Tree[p] \/ p \in Tree[x]

\* dirs_with_open_handles: an indeterminate snapshot matches every path.
Open(x) == settings.inUse /\ (~ownership.complete \/ Tree[x] \cap ownership.held # {})

CompleteEvidence == settings.inUse /\ ownership.complete

Windows == [routine |-> 2, pressure |-> 1]

\* GeneratedDirConfig::effective_days, shortened while pressure applies.
Window == IF settings.pressure = "off" THEN Windows.routine ELSE Windows.pressure

\* The source is recent, or the directory by its sampled modification time.
Recent(d, window) ==
    \/ ~settings.activityOnly /\ age[HomeOf[d]] < window
    \/ SampledAge(d) < window

OwnerFreeCandidate(d) == settings.pressure = "ownerFree" /\ Recent(d, Windows.routine)

OwnerFree(d) ==
    /\ OwnerFreeCandidate(d) /\ CompleteEvidence
    /\ ~Open(HomeOf[d]) /\ ~Open(d) /\ ~Leased(d)
    /\ dir[d].kind = "Delete" /\ ~dir[d].tracked

\* Sweeps are planned for what is active, what is only swept, and as a fallback.
Sweepable(d) ==
    /\ dir[d].kind # "ReportOnly" /\ ~Leased(d) /\ ~dir[d].tracked
    /\ settings.inUse \/ Recent(d, Windows.routine) \/ dir[d].kind = "SweepOnly"

HasWork(d) == Sweepable(d) /\ dir[d].sweep = "work"

\* What is skipped before anybody asks for its age or its sweeps.
Withheld(d) ==
    \/ Leased(d)
    \/ OwnerFreeCandidate(d) /\ ~CompleteEvidence
    \/ settings.inUse /\ (~ownership.complete \/ Open(d))

Condemned(d) ==
    /\ dir[d].kind = "Delete" /\ ~Open(HomeOf[d]) /\ ~dir[d].tracked
    /\ OwnerFree(d) \/ ~Recent(d, Window)

ActionOn(d) ==
    CASE dir[d].kind = "ReportOnly" -> "ReportOnly"
      [] dir[d].kind # "ReportOnly" /\ Withheld(d) -> "Skip"
      [] dir[d].kind # "ReportOnly" /\ ~Withheld(d) /\ Condemned(d) -> "Delete"
      [] OTHER -> IF HasWork(d) THEN "Sweep" ELSE "Skip"

Judge(d) ==
    [action  |-> ActionOn(d),
     class   |-> IF ActionOn(d) = "Delete" /\ settings.pressure # "off" /\ Recent(d, Windows.routine)
                 THEN "Pressure" ELSE "Routine",
     work    |-> HasWork(d),
     refused |-> Sweepable(d) /\ dir[d].sweep = "refused"]

NoCandidate == [action |-> "None", class |-> "Routine", work |-> FALSE, refused |-> FALSE]

\* generated_candidates: what Git lists of the worktree and is a directory.
Candidates(w) == IF w \in there THEN DirsOf(w) \cap there ELSE {}

RemovesWhole(w) ==
    w \in there /\ w \in tidy /\ age[w] >= Windows.routine /\ ~Leased(w) /\ ~Open(w)

----------------------------------------------------------------------------
(* Reconciliation.                                                         *)

\* Mutant: only the directory's own sweep candidates can retain it.
RetainsItself(dec) == {d \in Dirs : dec[d].action = "Delete" /\ dec[d].refused}

\* Directories that keep whatever lies above them.
Retained(dec) ==
    {d \in Dirs : \/ dec[d].action \in {"Skip", "Sweep"}
                  \/ dec[d].action = "Delete" /\ dec[d].refused}

\* reconcile_structural_cleanup_authority; containment is transitive, so its
\* loop ends where this one step does.
Structural(dec) ==
    [d \in Dirs |-> IF dec[d].action = "Delete" /\ Tree[d] \cap Retained(dec) # {}
                    THEN [dec[d] EXCEPT !.action = "Skip"] ELSE dec[d]]

StillRemoved(dec, rem) == {w \in rem : Tree[w] \cap Retained(dec) = {}}

InRemoval(d, rem) == \E w \in rem : d \in Tree[w]

\* reconcile_measured_cleanup_authority: no complete measurement, no deletion.
Authorized(dec, rem, m) ==
    [d \in Dirs |-> IF dec[d].action = "Delete" /\ ~InRemoval(d, rem) /\ d \in there /\ m[d] = 0
                    THEN [dec[d] EXCEPT !.action = "Skip"] ELSE dec[d]]

\* The decisions and removals left after both reconciliations.
Reconcile(dec, rem, m) ==
    LET authorized == Authorized(dec, rem, m)
    IN /\ decision' = Structural(authorized)
       /\ removal' = StillRemoved(authorized, rem)

----------------------------------------------------------------------------
CleanupFrom(o) ==
    /\ settings = o.settings /\ dir = o.dir /\ age = o.age /\ tidy = o.tidy
    /\ people = o.people /\ leases = o.leases
    /\ there = Places
    /\ decision = [d \in Dirs |-> NoCandidate] /\ removal = {}
    /\ identity = [d \in Dirs |-> 0] /\ measured = [d \in Dirs |-> 0]
    /\ ownership = [complete |-> FALSE, held |-> {}]
    /\ queue = {} /\ stage = "capture"
    /\ inhabited = {} /\ unseen = {} /\ events = 0 /\ failures = 0

CleanupInit == \E o \in Openings : CleanupFrom(o)

\* A probe that may fail, at the cost of one failure.
Probe(ok) ==
    IF ok THEN UNCHANGED failures ELSE failures < MaxFailures /\ failures' = failures + 1

\* A capture narrowed to some worktrees; observations elsewhere are dropped.
SnapshotOf(worktrees, ok) ==
    [complete |-> ok, held |-> IF ok THEN people \cap UNION {Tree[w] : w \in worktrees} ELSE {}]

\* The capture over all roots, before the first plan.
CaptureRoots(ok) ==
    /\ stage = "capture" /\ Probe(ok) /\ (settings.inUse \/ ok)
    /\ ownership' = SnapshotOf(Checkouts, ok)
    /\ queue' = Checkouts /\ stage' = "plan"
    /\ UNCHANGED <<surroundings, judgement, inhabited, unseen>>

\* plan_cleanup_with_protections_in_roots, one worktree; the second plan goes
\* by the snapshot of the first.
Scan(w) ==
    /\ stage \in {"plan", "refresh"} /\ w \in queue
    /\ decision' = [d \in Dirs |-> IF d \in Candidates(w) THEN Judge(d)
                                   ELSE IF d \in DirsOf(w) THEN NoCandidate ELSE decision[d]]
    /\ removal' = IF RemovesWhole(w) THEN removal \cup {w} ELSE removal \ {w}
    /\ queue' = queue \ {w}
    /\ unseen' = unseen \ DirsOf(w)
    /\ UNCHANGED <<surroundings, identity, measured, ownership, stage, inhabited, failures>>

\* measure_cleanup_runs_matching_paths: the identities first, ...
PlanMeasurement ==
    /\ stage = "plan" /\ queue = {}
    /\ LET dec     == Structural(decision)
           rem     == StillRemoved(decision, removal)
           targets == {d \in Dirs \cap there : dec[d].action = "Delete" /\ ~InRemoval(d, rem)}
       IN /\ decision' = dec /\ removal' = rem
          /\ identity' = [d \in Dirs |-> IF d \in targets THEN Identity(d) ELSE 0]
          /\ queue' = targets
    /\ stage' = "measure"
    /\ UNCHANGED <<surroundings, measured, ownership, inhabited, unseen, failures>>

\* ... then the inventory of each.
Measure(d, ok) ==
    /\ stage = "measure" /\ d \in queue /\ Probe(ok)
    /\ measured' = [measured EXCEPT ![d] = IF ok /\ d \in there THEN identity[d] ELSE 0]
    /\ queue' = queue \ {d}
    /\ UNCHANGED <<surroundings, decision, removal, identity, ownership, stage, inhabited, unseen>>

\* repository_has_routine_actions
RoutineActions(dec, rem) ==
    rem # {} \/ \E d \in Dirs : dec[d].work \/ (dec[d].action = "Delete" /\ dec[d].class = "Routine")

EndMeasurement ==
    /\ stage = "measure" /\ queue = {}
    /\ Reconcile(decision, removal, measured)
    /\ IF RoutineActions(decision', removal')
       THEN stage' = "refresh" /\ queue' = Checkouts
       ELSE stage' = "done" /\ UNCHANGED queue
    /\ UNCHANGED <<surroundings, identity, measured, ownership, inhabited, unseen, failures>>

\* carry_generated_measurements: only to the identity that was measured.
CarriedByIdentity == [d \in Dirs |-> IF d \in there /\ measured[d] = Identity(d) THEN measured[d] ELSE 0]

Carry ==
    /\ stage = "refresh" /\ queue = {}
    /\ measured' = CarriedByIdentity
    /\ Reconcile(Structural(decision), StillRemoved(decision, removal), CarriedByIdentity)
    /\ stage' = "confirm"
    /\ UNCHANGED <<surroundings, identity, ownership, queue, inhabited, unseen, failures>>

Deletions == {d \in Dirs : decision[d].action = "Delete" /\ decision[d].class = "Routine"}

\* repository_routine_ownership_paths
OwnershipPaths == removal \cup {HomeOf[d] : d \in Deletions \cup {e \in Dirs : decision[e].work}}

\* The snapshot of the pass; an incomplete one skips it.
CapturePass(ok) ==
    /\ stage = "confirm" /\ Probe(ok) /\ (settings.inUse \/ ok)
    /\ ownership' = SnapshotOf(OwnershipPaths, ok)
    /\ inhabited' = people
    /\ IF ok THEN stage' = "delete" /\ queue' = Deletions ELSE stage' = "done" /\ UNCHANGED queue
    /\ UNCHANGED <<surroundings, judgement, unseen>>

----------------------------------------------------------------------------
(* execute_cleanup, routine pass.                                          *)

\* Under a timeout, a target without lock files cannot be coordinated.
Coordinated(d) == d \in Cargo /\ settings.timeout => dir[d].locks

MayDelete(d) ==
    /\ ~InRemoval(d, removal) /\ d \in there
    /\ ~Open(HomeOf[d]) /\ ~Open(d) /\ ~Leased(d)
    /\ Coordinated(d)

\* The deletion, under the registry's lock and, for a target, Cargo's.
DeleteDirectory(d) ==
    /\ stage = "delete" /\ d \in queue /\ MayDelete(d)
    /\ there' = there \ Tree[d]
    /\ queue' = queue \ {d}
    /\ UNCHANGED <<settings, tidy, dir, age, leases, people, events, judgement, ownership, stage,
                   inhabited, unseen, failures>>

KeepDirectory(d) ==
    /\ stage = "delete" /\ d \in queue /\ ~MayDelete(d)
    /\ queue' = queue \ {d}
    /\ UNCHANGED <<surroundings, judgement, ownership, stage, inhabited, unseen, failures>>

\* write_deferred_cargo_action: a later run is told in the inbox.
Defer(d) == queue' = queue \ {d} /\ UNCHANGED stage

\* Cargo's locks are not to be had in time: the directory is deferred, or the
\* run ends with the error.
LocksTimeOut(d) ==
    /\ stage = "delete" /\ d \in queue /\ MayDelete(d)
    /\ d \in Cargo /\ settings.timeout /\ Probe(FALSE)
    /\ \/ Defer(d)
       \/ stage' = "done" /\ UNCHANGED queue
    /\ UNCHANGED <<surroundings, judgement, ownership, inhabited, unseen>>

\* What was to be deleted and lies in an owned worktree is swept instead.
Sweeps ==
    {d \in Dirs : /\ decision[d].work /\ ~Open(d)
                  /\ \/ decision[d].action = "Sweep"
                     \/ /\ decision[d].action = "Delete"
                        /\ \/ decision[d].class = "Pressure"
                           \/ d \in Deletions /\ Open(HomeOf[d])}

EndDeletions ==
    /\ stage = "delete" /\ queue = {}
    /\ queue' = Sweeps /\ stage' = "sweep"
    /\ UNCHANGED <<surroundings, judgement, ownership, inhabited, unseen, failures>>

\* run_sweeps (CargoSweeps) writes below the directory.
SweepDirectory(d) ==
    /\ stage = "sweep" /\ d \in queue
    /\ dir' = IF d \in there /\ ~InRemoval(d, removal) /\ ~Leased(d)
              THEN [dir EXCEPT ![d].days = 0, ![d].sweep = "none"] ELSE dir
    /\ queue' = queue \ {d}
    /\ UNCHANGED <<settings, tidy, there, age, leases, people, events, judgement, ownership, stage,
                   inhabited, unseen, failures>>

EndSweeps ==
    /\ stage = "sweep" /\ queue = {}
    /\ queue' = removal /\ stage' = "worktrees"
    /\ UNCHANGED <<surroundings, judgement, ownership, inhabited, unseen, failures>>

\* execute_worktree_removals, here without pull requests.
RemoveCheckout(w) ==
    /\ stage = "worktrees" /\ w \in queue
    /\ there' = IF ~Open(w) /\ ~Leased(w) THEN there \ Tree[w] ELSE there
    /\ queue' = queue \ {w}
    /\ UNCHANGED <<settings, tidy, dir, age, leases, people, events, judgement, ownership, stage,
                   inhabited, unseen, failures>>

\* refresh_generated_candidates_after_sweeps: what pressure may delete next.
Remeasure(ok) ==
    /\ stage = "worktrees" /\ queue = {} /\ Probe(ok)
    /\ measured' = [d \in Dirs |->
          IF /\ decision[d].action = "Delete" /\ decision[d].class = "Pressure" /\ decision[d].work
             /\ d \in there
          THEN (IF ok THEN Identity(d) ELSE 0) ELSE measured[d]]
    /\ Reconcile(decision, removal, measured')
    /\ stage' = "done"
    /\ UNCHANGED <<surroundings, identity, ownership, queue, inhabited, unseen>>

CleanupRun ==
    \/ \E ok \in BOOLEAN : \/ CaptureRoots(ok) \/ CapturePass(ok) \/ Remeasure(ok)
                           \/ \E d \in Dirs : Measure(d, ok)
    \/ \E w \in Checkouts : Scan(w) \/ RemoveCheckout(w)
    \/ \E d \in Dirs : DeleteDirectory(d) \/ KeepDirectory(d) \/ LocksTimeOut(d) \/ SweepDirectory(d)
    \/ PlanMeasurement \/ EndMeasurement \/ Carry \/ EndDeletions \/ EndSweeps

----------------------------------------------------------------------------
(* The world.                                                              *)

Event ==
    /\ stage # "done" /\ events < MaxEvents /\ events' = events + 1
    /\ UNCHANGED <<settings, tidy, judgement, progress, failures>>

\* A build writes; entries of the directory itself change its identity.  What
\* is written below the sampled depth shows nowhere.
Write(d) ==
    /\ Event /\ d \in there
    /\ \E g \in {dir[d].gen, dir[d].gen + 1} \cap 1 .. Latest :
           dir' = [dir EXCEPT ![d].days = 0, ![d].gen = g]
    /\ unseen' = unseen \cup {d}
    /\ UNCHANGED <<there, age, leases, people, inhabited>>

Discard(d) ==
    /\ Event /\ d \in there /\ there' = there \ Tree[d]
    /\ UNCHANGED <<dir, age, leases, people, inhabited, unseen>>

Rebuild(d) ==
    /\ Event /\ d \notin there /\ HomeOf[d] \in there /\ dir[d].gen < Latest
    /\ there' = there \cup {d}
    /\ dir' = [dir EXCEPT ![d].days = 0, ![d].gen = @ + 1]
    /\ unseen' = unseen \cup {d}
    /\ UNCHANGED <<age, leases, people, inhabited>>

\* git add --force, or git rm --cached
Track(d) ==
    /\ Event /\ d \in there
    /\ dir' = [dir EXCEPT ![d].tracked = ~@]
    /\ unseen' = unseen \cup {d}
    /\ UNCHANGED <<there, age, leases, people, inhabited>>

EditSource(w) ==
    /\ Event /\ w \in there
    /\ age' = [age EXCEPT ![w] = 0]
    /\ unseen' = unseen \cup DirsOf(w)
    /\ UNCHANGED <<there, dir, leases, people, inhabited>>

EnterOrLeave(x) ==
    /\ Event /\ x \in there
    /\ people' = IF x \in people THEN people \ {x} ELSE people \cup {x}
    /\ inhabited' = inhabited \cap people'
    /\ UNCHANGED <<there, dir, age, leases, unseen>>

LeaseOrRelease(x) ==
    /\ Event
    /\ leases' = IF x \in leases THEN leases \ {x} ELSE leases \cup {x}
    /\ UNCHANGED <<there, dir, age, people, inhabited, unseen>>

DaysPass ==
    /\ Event
    /\ dir' = [d \in Dirs |-> [dir[d] EXCEPT !.days = IF @ < 2 THEN @ + 1 ELSE @]]
    /\ age' = [w \in Checkouts |-> IF age[w] < 2 THEN age[w] + 1 ELSE age[w]]
    /\ UNCHANGED <<there, leases, people, inhabited, unseen>>

Surroundings ==
    \/ \E d \in Dirs : Write(d) \/ Discard(d) \/ Rebuild(d) \/ Track(d)
    \/ \E x \in Places : EnterOrLeave(x) \/ LeaseOrRelease(x)
    \/ \E w \in Checkouts : EditSource(w)
    \/ DaysPass

CleanupNext == CleanupRun \/ Surroundings

CleanupSpec == CleanupInit /\ [][CleanupNext]_cleanupVars

----------------------------------------------------------------------------
(* Properties.                                                             *)

Cleared(x) == x \in there /\ x \notin there' /\ events' = events

\* Removed for itself, not along with something it lies in.
Topmost(x) == Cleared(x) /\ \A y \in Places \ {x} : Cleared(y) => x \notin Tree[y]

\* By itself the directory may go, or its name is only reported.
Expendable(d) ==
    \/ dir[d].kind = "ReportOnly"
    \/ /\ dir[d].kind = "Delete" /\ ~dir[d].tracked
       /\ settings.pressure = "ownerFree" \/ ~Recent(d, Window)

(* Nothing goes that a lease covers, holds something leased, or lies in a  *)
(* worktree with a process in it since the snapshot of the pass.  Whatever *)
(* generated directory goes, alone, inside another one or with a worktree, *)
(* is one its own age, kind and Git allow to go, and one that goes alone   *)
(* was measured completely under the identity it has, unless it changed    *)
(* after the run last scanned it.                                          *)
DirectoryRemovedAsLookedAt ==
    [][/\ \A x \in Places : Cleared(x) => ~Leased(x)
       /\ \A x \in Places : Topmost(x) /\ settings.inUse => Tree[Home(x)] \cap inhabited = {}
       /\ \A d \in Dirs : Cleared(d) /\ d \notin unseen =>
             /\ Expendable(d)
             /\ Topmost(d) => measured[d] = Identity(d)]_cleanupVars

(* When nothing happens in the world and no probe fails, every directory   *)
(* that its own rules and those of all it contains condemn is gone.        *)
UndisturbedPassIsThorough ==
    stage = "done" /\ events = 0 /\ failures = 0 =>
        \A d \in Dirs \cap there :
            \/ Leased(d) \/ dir[d].kind # "Delete" \/ dir[d].tracked \/ Recent(d, Windows.routine)
            \/ settings.inUse /\ Tree[HomeOf[d]] \cap people # {}
            \/ \E e \in Tree[d] \cap Dirs : ~Expendable(e) \/ dir[e].sweep = "refused"
            \/ ~Coordinated(d)
=============================================================================
