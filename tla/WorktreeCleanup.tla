-------------------------- MODULE WorktreeCleanup --------------------------
(***************************************************************************)
(* Whole worktrees of one repository in a root-scoped cleanup run          *)
(* (src/src/lib.rs): the plan, its refresh before each execution pass, the *)
(* ownership snapshot of the pass, the revalidation of pull requests, and  *)
(* `git worktree remove`.  Generated directories appear only as time that  *)
(* passes between the steps.                                               *)
(*                                                                         *)
(* Around the run: users commit, edit, discard, detach and enter           *)
(* worktrees, clients protect them, days pass, pull requests are opened,   *)
(* closed and merged.  The windows of days are abstracted to the number of *)
(* windows a commit has outlived: 1 the pressure window, 2 the routine one *)
(* as well.  A merged pull request is "fresh" within its grace period.     *)
(***************************************************************************)
EXTENDS Naturals, FiniteSets

CONSTANTS
    Worktrees,
    Current,    \* the worktree the run is started from
    NoRemoval,  \* a decision other than Remove
    MaxHead,    \* bound: commits of a worktree
    MaxMoves,   \* bound: changes in the world
    MaxFaults   \* bound: probes without a complete answer

ASSUME CurrentAssumption == Current \in Worktrees
ASSUME BoundAssumption   == MaxHead \in Nat /\ MaxMoves \in Nat /\ MaxFaults \in Nat

VARIABLES
    config,     \* [policy, pressure]: pull requests count; pressure is active
    tree,       \* each worktree
    short,      \* free space is below the pressure target
    plan,       \* the decision on each worktree
    initial,    \* the ownership snapshot of the whole run
    snapshot,   \* the ownership snapshot of the pass
    pass, todo, current, pc,
    standing,   \* ghost: worktrees occupied since the last snapshot was taken
    late,       \* ghost: worktrees changed since the run last looked at them
    moves, faults

vars == <<config, tree, short, plan, initial, snapshot, pass, todo, current, pc,
          standing, late, moves, faults>>

world  == <<config, tree, short, moves>>
ghosts == <<standing, late>>

States     == {"open", "closed", "fresh", "merged"}
Triggers   == {"Age", "MergedPullRequest"}
Classes    == {"Routine", "Pressure"}

\* A decision to remove a worktree.
Decisions == [trigger : Triggers, class : Classes, head : 0 .. MaxHead, prs : SUBSET States]

ASSUME NoRemovalAssumption == NoRemoval \notin Decisions

StaleDays  == 2
PressureStaleDays == 1

----------------------------------------------------------------------------
(* plan_worktree_cleanup_with_pull_requests, for one worktree.             *)

\* classify_lifecycle: an open pull request comes before a merged one.
Lifecycle(prs) ==
    IF "open" \in prs THEN "Open"
    ELSE IF prs \cap {"fresh", "merged"} # {} THEN "Merged"
    ELSE IF "closed" \in prs THEN "Closed" ELSE "None"

\* pressure_applies
Pressed == config.pressure /\ short

EffectiveDays == IF Pressed THEN PressureStaleDays ELSE StaleDays

\* most_recent_merged_pull_request is past its grace period.
GraceIsOver(prs) == "fresh" \notin prs

Trigger(w) ==
    IF config.policy /\ Lifecycle(tree[w].prs) = "Merged"
    THEN IF GraceIsOver(tree[w].prs) THEN "MergedPullRequest" ELSE "none"
    ELSE IF tree[w].days >= EffectiveDays THEN "Age" ELSE "none"

\* Everything the plan asks of a worktree but its ownership.
Eligible(w) ==
    /\ tree[w].exists /\ ~tree[w].leased /\ w # Current
    /\ ~tree[w].dirty /\ tree[w].attached
    /\ config.policy => Lifecycle(tree[w].prs) # "Open"
    /\ Trigger(w) # "none"

\* Mutant: a worktree that is routinely stale waits for the pressure pass too.
ClassByTrigger(w) ==
    IF Trigger(w) = "Age" /\ Pressed THEN "Pressure" ELSE "Routine"

ClassOf(w) ==
    IF Trigger(w) = "Age" /\ Pressed /\ tree[w].days < StaleDays
    THEN "Pressure" ELSE "Routine"

\* dirs_with_open_handles: an indeterminate snapshot matches every path.
OwnedBy(s) == IF s.complete THEN s.owned ELSE Worktrees

Decide(w, s) ==
    IF Eligible(w) /\ w \notin OwnedBy(s)
    THEN [trigger |-> Trigger(w), class |-> ClassOf(w),
          head |-> tree[w].head, prs |-> tree[w].prs]
    ELSE NoRemoval

Removals(p, class) == {w \in Worktrees : p[w] # NoRemoval /\ p[w].class = class}

Held == {w \in Worktrees : tree[w].held}

\* A capture narrowed to some roots; its observations are matched to them.
Snapshot(roots, ok) ==
    [complete |-> ok, roots |-> roots, owned |-> IF ok THEN roots \cap Held ELSE {}]

NoSnapshot == [complete |-> FALSE, roots |-> {}, owned |-> {}]

Trees == [exists : BOOLEAN, head : 0 .. MaxHead, attached : BOOLEAN, dirty : BOOLEAN,
          days : 0 .. 2, prs : SUBSET States, held : BOOLEAN, leased : BOOLEAN]

\* The current worktree is planned like the others and kept whatever it is, so
\* nothing about it need change.
Others == Worktrees \ {Current}

\* Nothing was committed today; the other worktrees are as they may be, with at
\* most one obstacle each.
Init ==
    /\ config \in [policy : BOOLEAN, pressure : BOOLEAN]
    /\ \E others \in [Others -> {t \in Trees :
              /\ t.exists /\ t.head = 0 /\ t.attached /\ t.days > 0
              /\ t.prs \in {{}, {"merged"}} /\ (config.policy \/ t.prs = {})
              /\ ~(t.dirty /\ t.leased) /\ ~(t.held /\ (t.dirty \/ t.leased))}] :
           tree = [w \in Worktrees |->
                     IF w = Current
                     THEN [exists |-> TRUE, head |-> 0, attached |-> TRUE, dirty |-> FALSE,
                           days |-> StaleDays, prs |-> {}, held |-> TRUE, leased |-> FALSE]
                     ELSE others[w]]
    /\ short = config.pressure
    /\ plan = [w \in Worktrees |-> NoRemoval]
    /\ initial = NoSnapshot /\ snapshot = NoSnapshot
    /\ pass = "initial" /\ todo = {} /\ current = Current /\ pc = "start"
    /\ standing = {} /\ late = {} /\ moves = 0 /\ faults = 0

\* A probe that may fail, at the cost of one fault.
Answered(ok) == IF ok THEN UNCHANGED faults ELSE faults < MaxFaults /\ faults' = faults + 1

----------------------------------------------------------------------------
(* Planning.                                                               *)

\* capture_open_handles over all roots, before the first plan.
CaptureInitial(ok) ==
    /\ pc = "start" /\ Answered(ok)
    /\ initial' = Snapshot(Worktrees, ok)
    /\ todo' = Others /\ pc' = "plan"
    /\ UNCHANGED <<world, plan, snapshot, pass, current, ghosts>>

Evidence == IF pass = "pressure" THEN snapshot ELSE initial

PlanWorktree(w, ok) ==
    /\ pc = "plan" /\ w \in todo
    /\ Answered(ok)
    /\ plan' = [plan EXCEPT ![w] = IF config.policy /\ ~ok THEN NoRemoval
                                   ELSE Decide(w, Evidence)]
    /\ todo' = todo \ {w}
    /\ late' = late \ {w}
    /\ UNCHANGED <<world, initial, snapshot, pass, current, pc, standing>>

\* repository_has_routine_actions; a generated directory can be the reason.
RefreshRoutine ==
    /\ pc = "plan" /\ todo = {} /\ pass = "initial"
    /\ pass' = "routine" /\ todo' = Others
    /\ UNCHANGED <<world, plan, initial, snapshot, current, pc, ghosts, faults>>

NoRoutine ==
    /\ pc = "plan" /\ todo = {} /\ pass = "initial"
    /\ Removals(plan, "Routine") = {}
    /\ pass' = "routine" /\ pc' = "execute"
    /\ UNCHANGED <<world, plan, initial, snapshot, todo, current, ghosts, faults>>

\* Mutant: the pass executes under the snapshot of the plan.
CaptureOnce(ok) ==
    /\ pc = "plan" /\ todo = {} /\ pass = "routine" /\ Answered(ok)
    /\ snapshot' = initial
    /\ todo' = IF ok THEN Removals(plan, "Routine") ELSE {}
    /\ standing' = Held
    /\ pc' = "execute"
    /\ UNCHANGED <<world, plan, initial, pass, current, late>>

\* repository_routine_ownership_paths, and the snapshot taken of them; an
\* incomplete one skips the pass (record_incomplete_routine_epoch).
CaptureRoutine(ok) ==
    /\ pc = "plan" /\ todo = {} /\ pass = "routine" /\ Answered(ok)
    /\ snapshot' = Snapshot(Removals(plan, "Routine"), ok)
    /\ todo' = IF ok THEN Removals(plan, "Routine") ELSE {}
    /\ standing' = Held
    /\ pc' = "execute"
    /\ UNCHANGED <<world, plan, initial, pass, current, late>>

\* root_pressure_worktrees_should_continue
PressureGoesOn == Pressed /\ \E w \in Removals(plan, "Pressure") : tree[w].exists

\* The snapshot is narrowed to what the old plan removes; then comes the new
\* plan (refresh_and_execute_repository).
CapturePressure(ok) ==
    /\ pc = "execute" /\ todo = {} /\ pass = "routine" /\ PressureGoesOn
    /\ Answered(ok)
    /\ snapshot' = Snapshot(Removals(plan, "Pressure"), ok)
    /\ standing' = Held
    /\ IF ok THEN pass' = "pressure" /\ todo' = Others /\ pc' = "plan"
             ELSE pc' = "done" /\ UNCHANGED <<pass, todo>>
    /\ UNCHANGED <<world, plan, initial, current, late>>

ExecutePressure ==
    /\ pc = "plan" /\ todo = {} /\ pass = "pressure"
    /\ todo' = Removals(plan, "Pressure")
    /\ pc' = "execute"
    /\ UNCHANGED <<world, plan, initial, snapshot, pass, current, ghosts, faults>>

Finish ==
    /\ pc = "execute" /\ todo = {}
    /\ pass = "pressure" \/ ~PressureGoesOn
    /\ pc' = "done"
    /\ UNCHANGED <<world, plan, initial, snapshot, pass, todo, current, ghosts, faults>>

----------------------------------------------------------------------------
(* execute_worktree_removals                                               *)

Keep == pc' = "execute" /\ UNCHANGED current

NextWorktree(w) ==
    /\ pc = "execute" /\ w \in todo
    /\ todo' = todo \ {w}
    /\ IF /\ tree[w].exists
          /\ pass = "pressure" => Pressed
          /\ w \notin OwnedBy(snapshot)
       THEN /\ current' = w
            /\ pc' = IF config.policy THEN "identity" ELSE "guard"
       ELSE Keep
    /\ UNCHANGED <<world, plan, initial, snapshot, pass, ghosts, faults>>

\* Mutant: the commit the plan was about need not be checked out.
SameTree(w) == tree[w].attached /\ ~tree[w].dirty

AsPlanned(w) ==
    /\ tree[w].attached /\ ~tree[w].dirty
    /\ tree[w].head = plan[w].head

\* revalidate_pull_request_removal: Git's identity and status ...
RevalidateIdentity ==
    /\ pc = "identity"
    /\ IF tree[current].exists /\ AsPlanned(current)
       THEN pc' = "evidence" /\ UNCHANGED current ELSE Keep
    /\ late' = late \ {current}
    /\ UNCHANGED <<world, plan, initial, snapshot, pass, todo, standing, faults>>

\* age_ and merged_pull_request_evidence_matches
EvidenceMatches(planned, fresh) ==
    CASE planned.trigger = "Age" ->
             Lifecycle(fresh) \in {"None", "Closed"} /\ fresh = planned.prs
      [] planned.trigger = "MergedPullRequest" ->
             /\ Lifecycle(fresh) = "Merged" /\ GraceIsOver(fresh)
             /\ "merged" \in planned.prs

\* ... then the pull requests, asked once more ...
RevalidatePullRequests(ok) ==
    /\ pc = "evidence" /\ Answered(ok)
    /\ IF ok /\ EvidenceMatches(plan[current], tree[current].prs)
       THEN pc' = "ownership" /\ UNCHANGED current ELSE Keep
    /\ UNCHANGED <<world, plan, initial, snapshot, pass, todo, ghosts>>

\* ... and last the processes in this worktree alone.
RevalidateOwnership(ok) ==
    /\ pc = "ownership" /\ Answered(ok)
    /\ standing' = IF tree[current].held THEN standing \cup {current}
                                         ELSE standing \ {current}
    /\ IF ok /\ ~tree[current].held THEN pc' = "guard" /\ UNCHANGED current ELSE Keep
    /\ UNCHANGED <<world, plan, initial, snapshot, pass, todo, late>>

\* with_protection_guard keeps a worktree under a lease.
Protected ==
    /\ pc = "guard" /\ tree[current].leased
    /\ Keep
    /\ UNCHANGED <<world, plan, initial, snapshot, pass, todo, ghosts, faults>>

\* `git worktree remove` without --force, under the guard.  What it frees may
\* reach the target.
RemoveWorktree ==
    /\ pc = "guard" /\ ~tree[current].leased
    /\ tree[current].exists /\ ~tree[current].dirty
    /\ tree' = [tree EXCEPT ![current].exists = FALSE]
    /\ short' \in {FALSE, short}
    /\ Keep
    /\ UNCHANGED <<config, moves, plan, initial, snapshot, pass, todo, ghosts, faults>>

\* Git refuses a dirty worktree, and the run ends with its error.
GitRefuses ==
    /\ pc = "guard" /\ ~tree[current].leased
    /\ ~tree[current].exists \/ tree[current].dirty
    /\ pc' = "aborted"
    /\ UNCHANGED <<world, plan, initial, snapshot, pass, todo, current, ghosts, faults>>

Run ==
    \/ \E ok \in BOOLEAN : \/ CaptureInitial(ok) \/ CaptureRoutine(ok) \/ CapturePressure(ok)
                           \/ \E w \in Worktrees : PlanWorktree(w, ok)
                           \/ RevalidatePullRequests(ok) \/ RevalidateOwnership(ok)
    \/ RefreshRoutine \/ NoRoutine \/ ExecutePressure \/ Finish
    \/ \E w \in Worktrees : NextWorktree(w)
    \/ RevalidateIdentity \/ Protected \/ RemoveWorktree \/ GitRefuses

----------------------------------------------------------------------------
(* The world.                                                              *)
Running == pc \notin {"done", "aborted"}

Change(w, t) ==
    /\ Running /\ moves < MaxMoves /\ moves' = moves + 1
    /\ tree[w].exists
    /\ tree' = [tree EXCEPT ![w] = t]
    /\ late' = late \cup {w}
    /\ UNCHANGED <<config, short, plan, initial, snapshot, pass, todo, current, pc, faults>>

Commit(w) ==
    /\ tree[w].head < MaxHead
    /\ Change(w, [tree[w] EXCEPT !.head = @ + 1, !.days = 0, !.dirty = FALSE, !.prs = {}])
    /\ UNCHANGED standing

EditOrDiscard(w) == Change(w, [tree[w] EXCEPT !.dirty = ~@]) /\ UNCHANGED standing

\* git switch, with and without --detach
Switch(w) == Change(w, [tree[w] EXCEPT !.attached = ~@]) /\ UNCHANGED standing

Enter(w) == ~tree[w].held /\ Change(w, [tree[w] EXCEPT !.held = TRUE]) /\ UNCHANGED standing

Leave(w) ==
    /\ tree[w].held /\ Change(w, [tree[w] EXCEPT !.held = FALSE])
    /\ standing' = standing \ {w}

\* The registry is locked while the guard decides and Git works: one action.
Protect(w) == Change(w, [tree[w] EXCEPT !.leased = ~@]) /\ UNCHANGED standing

PullRequestMoves(w) ==
    /\ config.policy
    /\ \E prs \in {(tree[w].prs \ {"open"}) \cup {"fresh"},
                   (tree[w].prs \ {"open", "closed"}) \cup {"open"},
                   (tree[w].prs \ {"open"}) \cup {"closed"}} :
           /\ "open" \in tree[w].prs \/ "open" \in prs
           /\ prs # tree[w].prs
           /\ Change(w, [tree[w] EXCEPT !.prs = prs])
    /\ UNCHANGED standing

\* A day passes: commits outlive their windows, merges their grace period.
DayPasses ==
    /\ Running /\ moves < MaxMoves /\ moves' = moves + 1
    /\ tree' = [w \in Worktrees |->
                  [tree[w] EXCEPT !.days = IF @ < 2 THEN @ + 1 ELSE @,
                                  !.prs = IF "fresh" \in @ THEN (@ \ {"fresh"}) \cup {"merged"}
                                                           ELSE @]]
    /\ UNCHANGED <<config, short, plan, initial, snapshot, pass, todo, current, pc, ghosts,
                   faults>>

World ==
    \/ \E w \in Others :
          \/ Commit(w) \/ EditOrDiscard(w) \/ Switch(w) \/ Enter(w) \/ Leave(w)
          \/ Protect(w) \/ PullRequestMoves(w)
    \/ DayPasses

Next == Run \/ World

Spec == Init /\ [][Next]_vars

----------------------------------------------------------------------------
(* Properties.                                                             *)
Snapshots == [complete : BOOLEAN, roots : SUBSET Worktrees, owned : SUBSET Worktrees]

Removed(w) == tree[w].exists /\ ~tree'[w].exists

(* A process that was in a worktree when the run last took evidence of it, *)
(* and has not left, keeps the worktree: in the routine pass, with a pull  *)
(* request policy, and wherever the snapshot was asked about the worktree. *)
OccupiedIsKept ==
    [][\A w \in Worktrees : Removed(w) /\ (config.policy \/ w \in snapshot.roots)
          => w \notin standing]_vars

(* A removed worktree satisfies, at that moment, every condition the plan  *)
(* sets, unless something about it changed after the run looked last: with *)
(* a pull request policy the last look is the revalidation, without one it *)
(* is the plan.  A lease or dirty source keeps it in any case.             *)
RemovedAsLookedAt ==
    [][\A w \in Worktrees : Removed(w) =>
          /\ ~tree[w].leased /\ ~tree[w].dirty
          /\ w \in late \/ Eligible(w)]_vars

(* When nothing happens in the world and no probe fails, the run leaves no *)
(* worktree behind that its own rules condemn.                             *)
UndisturbedRunIsThorough ==
    pc = "done" /\ moves = 0 /\ faults = 0 =>
        \A w \in Worktrees : ~(Eligible(w) /\ ~tree[w].held)

(* "Every execution pass takes fresh evidence and rechecks each candidate  *)
(* before mutation" (README.md): no worktree goes from under a process     *)
(* that was in it when the pass took its snapshot.                         *)
EveryPassTakesFreshEvidence ==
    [][\A w \in Worktrees : Removed(w) => w \notin standing]_vars
=============================================================================
