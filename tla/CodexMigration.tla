---------------------------- MODULE CodexMigration ----------------------------
(***************************************************************************)
(* worktree-gc codex-migration --apply (codex_migration/mod.rs, native.rs, *)
(* io.rs): a batch lets the vendor's binary rewrite the history of         *)
(* archived tasks in place, one task after the other, with a copy of the   *)
(* original on an external disk and a journal file per task.  Codex itself *)
(* may start at any time, runs are killed, the disk is unplugged, journal  *)
(* writes fail, and the rewriting process outlives a killed run.           *)
(***************************************************************************)
EXTENDS Naturals, FiniteSets, Sequences, SequencesExt

CONSTANTS
    Tasks,      \* the tasks of the index that a policy might migrate
    Parents,    \* [Tasks -> SUBSET of task identifiers], edges and sources
    Unindexed,  \* identifiers that occur as a parent and have no row
    Bytes,      \* [Tasks -> Nat], the size of a rollout file
    MaxTasks,   \* policy.max_tasks
    MaxBytes,   \* policy.max_source_bytes
    Runs,       \* executions of the command
    MaxTrouble, \* bound: edits, failed writes, damaged copies, leases, unplugging
    Nobody, NoFile, Damaged

VARIABLES
    live,       \* the rollout and index row of each task
    rewriter,   \* history: the run that had a task rewritten, and from what
    codex,      \* whether a Codex client is running
    mounted,    \* whether the expected backup volume is there
    leased,     \* whether a lease protects the store, backups or journals
    shared,     \* who holds protections.lock shared
    runner,     \* who holds runner.lock
    stage,      \* [Runs -> the point of batch or migrate_one reached]
    todo,       \* [Runs -> the tasks of the plan still to do, in its order]
    seen,       \* [Runs -> what the plan saw of every task]
    want,       \* [Runs -> the journal of its task in memory, written or not]
    native,     \* the runs whose rewriting process is alive
    journal,    \* [Runs \X Tasks -> the journal file]
    pending,    \* the journals whose .pending file exists
    backup,     \* [Runs \X Tasks -> the copy on the backup volume]
    trouble

store == <<live, rewriter, codex>>
world == <<mounted, leased>>
locks == <<shared, runner>>
files == <<journal, pending, backup>>
vars == <<store, world, locks, stage, todo, seen, want, native, files, trouble>>

Forms == {"legacy", "partial", "paginated"}
Final == {"verified", "refused_before_apply"}
Uncertain == {"backing_up", "backed_up", "applying", "recovery_required"}
Contents == (0 .. MaxTrouble) \X Forms
ContentOf(t) == <<live[t].version, live[t].form>>
NoJournal == [phase |-> "none", sha |-> NoFile]

\* The model values of the instances differ from what they stand beside.
ASSUME TroubleAssumption == MaxTrouble \in Nat
ASSUME NobodyAssumption ==
    Nobody \notin Runs /\ Nobody \notin [run : Runs, version : 0 .. MaxTrouble]
ASSUME NoFileAssumption == {NoFile, Damaged} \cap Contents = {} /\ NoFile # Damaged

Task(r) == Head(todo[r])
Entry(r) == <<r, Task(r)>>

---------------------------------------------------------------------------
(* The plan, mod.rs:180-506. *)

Children == UNION {Parents[t] : t \in Tasks}

\* A legacy, archived leaf with exactly one parent, which the index knows.
\* Pins, exclusions and the grace period are the policy's data.
Eligible(t) ==
    /\ live[t].form = "legacy"
    /\ live[t].archived
    /\ Cardinality(Parents[t]) = 1
    /\ Parents[t] \cap ({t} \cup Unindexed) = {}
    /\ t \notin Children

\* The largest first, as many as fit both limits.
Selection(candidates) ==
    LET order == SetToSortSeq(candidates, LAMBDA a, b : Bytes[a] > Bytes[b])
        Fits(chosen, t) ==
            /\ Len(chosen.tasks) < MaxTasks
            /\ Bytes[t] <= MaxBytes - chosen.bytes
        Take(chosen, t) ==
            IF Fits(chosen, t)
            THEN [tasks |-> Append(chosen.tasks, t),
                  bytes |-> chosen.bytes + Bytes[t]]
            ELSE chosen
    IN  FoldLeft(Take, [tasks |-> <<>>, bytes |-> 0], order).tasks

---------------------------------------------------------------------------
(* Evidence, read again at every boundary. *)

\* No Codex process, and the rewriting process of a killed run is one.
Quiet == ~codex /\ native = {}

\* refresh(candidate, policy, false): row, lineage, path and identity.
Unchanged(r, t) == live[t] = seen[r][t] /\ Eligible(t)

\* refresh(candidate, policy, true): the row, except for its history mode.
OnlyModeChanged(r, t) ==
    live[t].form = "paginated" /\ live[t].archived = seen[r][t].archived

\* The copy still has the identity and the hash given.
BackupIntact(e, sha) == mounted /\ backup[e] = sha

RecoveryPending == \A e \in DOMAIN journal : journal[e].phase # "recovery_required"

\* pending_journals: every file is a journal in a final phase.
NothingPending ==
    /\ pending = {}
    /\ \A e \in DOMAIN journal : journal[e].phase \notin Uncertain

---------------------------------------------------------------------------
(* The batch. *)

Trouble == trouble < MaxTrouble /\ trouble' = trouble + 1

Goto(r, s) == stage' = [stage EXCEPT ![r] = s]

Release(r) ==
    /\ shared' = shared \ {r}
    /\ runner' = IF runner = r THEN Nobody ELSE runner

\* run and batch up to the plan, which reads the index without any lock.
PlanBatch(r) ==
    /\ stage[r] = "idle"
    /\ todo' = [todo EXCEPT ![r] = Selection({t \in Tasks : Eligible(t)})]
    /\ seen' = [seen EXCEPT ![r] = live]
    /\ Goto(r, "guard")
    /\ UNCHANGED <<store, world, locks, want, native, files, trouble>>

\* MigrationProtectionGuard: the shared registry lock, then the leases.
TakeGuard(r) ==
    /\ stage[r] = "guard"
    /\ ~leased
    /\ shared' = shared \cup {r}
    /\ Goto(r, "lock")
    /\ UNCHANGED <<store, world, runner, todo, seen, want, native, files,
                   trouble>>

\* runner.lock is tried, not waited for.
TakeRunnerLock(r) ==
    /\ stage[r] = "lock"
    /\ runner = Nobody
    /\ runner' = r
    /\ Goto(r, "journals")
    /\ UNCHANGED <<store, world, shared, todo, seen, want, native, files,
                   trouble>>

CheckPrerequisites(r) ==
    /\ stage[r] = "journals"
    /\ NothingPending
    /\ Quiet
    /\ mounted
    /\ Goto(r, "next")
    /\ UNCHANGED <<store, world, locks, todo, seen, want, native, files,
                   trouble>>

FinishBatch(r) ==
    /\ stage[r] = "next"
    /\ todo[r] = <<>>
    /\ Release(r)
    /\ Goto(r, "completed")
    /\ UNCHANGED <<store, world, todo, seen, want, native, files, trouble>>

\* The checks of migrate_one before it leaves a trace, and the exclusive
\* backup directory; "backing_up" is the first journal.
CheckCandidate(r) ==
    /\ stage[r] = "next"
    /\ todo[r] # <<>>
    /\ ~leased /\ mounted /\ Quiet
    /\ Unchanged(r, Task(r))
    /\ want' = [want EXCEPT ![r] = [phase |-> "backing_up", sha |-> NoFile]]
    /\ Goto(r, "write")
    /\ UNCHANGED <<store, world, locks, todo, seen, native, files, trouble>>

\* write_journal: a new .pending file ...
StageJournal(r) ==
    /\ stage[r] = "write"
    /\ Entry(r) \notin pending
    /\ pending' = pending \cup {Entry(r)}
    /\ Goto(r, "publish")
    /\ UNCHANGED <<store, world, locks, todo, seen, want, native, journal,
                   backup, trouble>>

\* What follows the publication of each phase.
After(phase) ==
    CASE phase = "backing_up" -> "copy"
      [] phase = "backed_up" -> "plan"
      [] phase = "applying" -> "apply"
      [] phase = "verified" -> "next"
      [] OTHER -> "stopped"

\* ... renamed over the journal, which ends the task or the batch if the
\* phase is final.
PublishJournal(r) ==
    LET next == After(want[r].phase) IN
    /\ stage[r] = "publish"
    /\ journal' = [journal EXCEPT ![Entry(r)] = want[r]]
    /\ pending' = pending \ {Entry(r)}
    /\ Goto(r, next)
    /\ todo' = IF next = "next" THEN [todo EXCEPT ![r] = Tail(@)] ELSE todo
    /\ IF next = "stopped" THEN Release(r) ELSE UNCHANGED locks
    /\ UNCHANGED <<store, world, seen, want, native, backup, trouble>>

Request(r, phase) ==
    want' = [want EXCEPT ![r].phase = phase]

UnwindLate(r) ==
    Request(r, IF stage[r] \in {"verify", "confirm"} THEN "recovery_required"
                                                    ELSE "refused_before_apply")

\* The end of the operation with an error: the last journal says whether the
\* rewriting may have begun.
Unwind(r) ==
    LET applying ==
            \/ stage[r] \in {"apply", "working", "verify", "confirm"}
            \/ stage[r] \in {"write", "publish"} /\ want[r].phase = "verified"
    IN  Request(r, IF applying THEN "recovery_required"
                               ELSE "refused_before_apply")

\* io::copy_verified; a source that changes under it fails it.
CopyOriginal(r) ==
    LET content == ContentOf(Task(r)) IN
    /\ stage[r] = "copy"
    /\ mounted
    /\ backup' = [backup EXCEPT ![Entry(r)] = content]
    /\ want' = [want EXCEPT ![r] = [phase |-> "backed_up", sha |-> content]]
    /\ Goto(r, "write")
    /\ UNCHANGED <<store, world, locks, todo, seen, native, journal, pending,
                   trouble>>

\* native(tid, false): the binary's own plan, on a quiet store.
PlanNative(r) ==
    /\ stage[r] = "plan"
    /\ ~leased /\ Quiet
    /\ Goto(r, "recheck")
    /\ UNCHANGED <<store, world, locks, todo, seen, want, native, files,
                   trouble>>

RevalidateUnjournaled(r) ==
    /\ stage[r] = "recheck"
    /\ mounted /\ Quiet /\ ~leased
    /\ Unchanged(r, Task(r))
    /\ Request(r, "applying")
    /\ Goto(r, "apply")
    /\ UNCHANGED <<store, world, locks, todo, seen, native, files, trouble>>

\* Everything once more, the hashes of both files last.
Revalidate(r) ==
    /\ stage[r] = "recheck"
    /\ mounted /\ Quiet /\ ~leased
    /\ Unchanged(r, Task(r))
    /\ BackupIntact(Entry(r), want[r].sha)
    /\ ContentOf(Task(r)) = want[r].sha
    /\ Request(r, "applying")
    /\ Goto(r, "write")
    /\ UNCHANGED <<store, world, locks, todo, seen, native, files, trouble>>

\* native(tid, true): quiet once more, then the sandboxed process.
StartNative(r) ==
    /\ stage[r] = "apply"
    /\ Quiet
    /\ native' = native \cup {r}
    /\ Goto(r, "working")
    /\ UNCHANGED <<store, world, locks, todo, seen, want, files, trouble>>

\* It reports one migrated outcome and has ended; quiet is probed while it
\* works, and a probe that finds Codex ends the operation (Refuse).
NativeReports(r) ==
    /\ stage[r] = "working"
    /\ r \notin native
    /\ live[Task(r)].form = "paginated"
    /\ Goto(r, "verify")
    /\ UNCHANGED <<store, world, locks, todo, seen, want, native, files,
                   trouble>>

VerifyReadable(r) ==
    /\ stage[r] = "verify"
    /\ live[Task(r)].form # "partial"
    /\ Goto(r, "confirm")
    /\ UNCHANGED <<store, world, locks, todo, seen, want, native, files,
                   trouble>>

\* The continuation read again equals the one read before the backup.
VerifyContinuation(r) ==
    /\ stage[r] = "verify"
    /\ live[Task(r)].form # "partial"
    /\ live[Task(r)].version = seen[r][Task(r)].version
    /\ Goto(r, "confirm")
    /\ UNCHANGED <<store, world, locks, todo, seen, want, native, files,
                   trouble>>

ConfirmMigration(r) ==
    /\ stage[r] = "confirm"
    /\ OnlyModeChanged(r, Task(r))
    /\ Quiet /\ mounted /\ ~leased
    /\ BackupIntact(Entry(r), want[r].sha)
    /\ Request(r, "verified")
    /\ Goto(r, "write")
    /\ UNCHANGED <<store, world, locks, todo, seen, native, files, trouble>>

---------------------------------------------------------------------------
(* Errors.  Any check may fail, as may the capacity, the deadline and the  *)
(* operator's interrupt, which runtime.guard reads everywhere.             *)

\* Before the first journal an error just ends the batch.
StopBatch(r) ==
    /\ stage[r] \in {"guard", "lock", "journals", "next"}
    /\ Release(r)
    /\ Goto(r, "stopped")
    /\ UNCHANGED <<store, world, todo, seen, want, native, files, trouble>>

\* Afterwards the process group is torn down and the journal unwound.
Refuse(r) ==
    /\ stage[r] \in {"copy", "plan", "recheck", "apply", "working", "verify",
                     "confirm"}
    /\ native' = native \ {r}
    /\ Unwind(r)
    /\ Goto(r, "write")
    /\ UNCHANGED <<store, world, locks, todo, seen, files, trouble>>

\* A failure of write_journal: while the .pending file is written, which
\* stays and makes the next write fail too, or after the rename.
JournalFails(r) ==
    LET unwinding == want[r].phase \in {"recovery_required",
                                        "refused_before_apply"}
        first == want[r].phase = "backing_up"
    IN
    /\ \/ /\ stage[r] = "write" /\ Entry(r) \in pending
          /\ UNCHANGED <<journal, pending, trouble>>
       \/ /\ stage[r] = "publish" /\ Trouble
          /\ \/ UNCHANGED <<journal, pending>>
             \/ /\ journal' = [journal EXCEPT ![Entry(r)] = want[r]]
                /\ pending' = pending \ {Entry(r)}
    /\ IF unwinding \/ first
       THEN Release(r) /\ Goto(r, "stopped") /\ UNCHANGED want
       ELSE Unwind(r) /\ Goto(r, "write") /\ UNCHANGED locks
    /\ UNCHANGED <<store, world, todo, seen, native, backup>>

\* A kill: the locks go, the rewriting process stays.
Kill(r) ==
    /\ stage[r] \notin {"idle", "completed", "stopped", "killed"}
    /\ Release(r)
    /\ Goto(r, "killed")
    /\ UNCHANGED <<store, world, todo, seen, want, native, files, trouble>>

---------------------------------------------------------------------------
(* The others. *)

\* The rewriting process: in place, then the index row.
Rewrite(r) ==
    /\ r \in native
    /\ \/ /\ live[Task(r)].form = "legacy"
          /\ live' = [live EXCEPT ![Task(r)].form = "partial"]
          /\ rewriter' = [rewriter EXCEPT ![Task(r)] =
                             [run |-> r, version |-> live[Task(r)].version]]
          /\ UNCHANGED native
       \/ /\ live[Task(r)].form = "partial"
          /\ live' = [live EXCEPT ![Task(r)].form = "paginated"]
          /\ native' = native \ {r}
          /\ UNCHANGED rewriter
    /\ UNCHANGED <<codex, world, locks, stage, todo, seen, want, files, trouble>>

\* The process of a killed run may also die of its broken pipe.
NativeDies(r) ==
    /\ r \in native /\ stage[r] = "killed"
    /\ native' = native \ {r}
    /\ UNCHANGED <<store, world, locks, stage, todo, seen, want, files, trouble>>

Codex ==
    /\ \/ codex' = ~codex /\ UNCHANGED live
          /\ UNCHANGED trouble
       \/ \E t \in Tasks :
            /\ codex /\ UNCHANGED codex
            /\ Trouble
            /\ \/ live' = [live EXCEPT ![t].version = @ + 1]
               \/ live' = [live EXCEPT ![t].archived = FALSE]
    /\ UNCHANGED <<rewriter, world, locks, stage, todo, seen, want, native,
                   files>>

\* The disk is unplugged or back, a lease is added under the exclusive
\* registry lock, the copy of a task is replaced or damaged.
World ==
    /\ Trouble
    /\ \/ mounted' = ~mounted /\ UNCHANGED <<leased, backup>>
       \/ shared = {} /\ leased' = TRUE /\ UNCHANGED <<mounted, backup>>
       \/ \E e \in DOMAIN backup :
            /\ backup[e] \notin {NoFile, Damaged}
            /\ backup' = [backup EXCEPT ![e] = Damaged]
            /\ UNCHANGED world
    /\ UNCHANGED <<store, locks, stage, todo, seen, want, native, journal,
                   pending>>

---------------------------------------------------------------------------

Init ==
    /\ live = [t \in Tasks |->
                 [version |-> 0, form |-> "legacy", archived |-> TRUE]]
    /\ rewriter = [t \in Tasks |-> Nobody]
    /\ codex = FALSE /\ mounted = TRUE /\ leased = FALSE
    /\ shared = {} /\ runner = Nobody
    /\ stage = [r \in Runs |-> "idle"]
    /\ todo = [r \in Runs |-> <<>>]
    /\ seen = [r \in Runs |-> live]
    /\ want = [r \in Runs |-> NoJournal]
    /\ native = {}
    /\ journal = [e \in Runs \X Tasks |-> NoJournal]
    /\ pending = {}
    /\ backup = [e \in Runs \X Tasks |-> NoFile]
    /\ trouble = 0

RunStep(r) ==
    \/ PlanBatch(r) \/ TakeGuard(r) \/ TakeRunnerLock(r)
    \/ CheckPrerequisites(r) \/ CheckCandidate(r) \/ FinishBatch(r)
    \/ StageJournal(r) \/ PublishJournal(r) \/ CopyOriginal(r)
    \/ PlanNative(r) \/ Revalidate(r) \/ StartNative(r) \/ NativeReports(r)
    \/ VerifyContinuation(r) \/ ConfirmMigration(r)
    \/ StopBatch(r) \/ Refuse(r) \/ JournalFails(r)

Others ==
    \/ \E r \in Runs : Kill(r) \/ Rewrite(r) \/ NativeDies(r)
    \/ Codex
    \/ World

Next == (\E r \in Runs : RunStep(r)) \/ Others

Spec == Init /\ [][Next]_vars

---------------------------------------------------------------------------
(* Properties. *)

\* What the binary rewrites has been copied before, by the run that started
\* it, and the journal of that run names the copy, whatever was killed or
\* failed since; the copy is lost only if somebody damages it
\* (mod.rs:746-775).
OriginalIsKept ==
    \A t \in Tasks :
        rewriter[t] # Nobody =>
            LET e == <<rewriter[t].run, t>> IN
            /\ journal[e].phase \in {"applying", "recovery_required", "verified"}
            /\ journal[e].sha \in Contents
            /\ journal[e].sha[2] = "legacy"
            /\ backup[e] \in {journal[e].sha, Damaged}

\* A journal that says refused_before_apply speaks of a rollout that the run
\* has not had rewritten, also when writes of the journal itself failed
\* (mod.rs:776, 805-818).
RefusedMeansUntouched ==
    \A e \in DOMAIN journal :
        journal[e].phase = "refused_before_apply" =>
            /\ rewriter[e[2]] # Nobody => rewriter[e[2]].run # e[1]
            /\ e[1] \in native => todo[e[1]] # <<>> /\ Task(e[1]) # e[2]

\* A verified journal names a copy of exactly what the binary rewrote, even
\* though Codex may start between the last check and the rewriting
\* (mod.rs:782-804).
VerifiedIsBackedUp ==
    \A e \in DOMAIN journal :
        journal[e].phase = "verified" =>
            /\ rewriter[e[2]] # Nobody
            /\ rewriter[e[2]].run = e[1]
            /\ journal[e].sha = <<rewriter[e[2]].version, "legacy">>

\* No rewriting starts while the journal of another task, of this or another
\* run, is uncertain or half written: runner.lock makes what
\* pending_journals saw hold for the whole batch (mod.rs:850-851).
UncertaintyStopsMigration ==
    [][\A r \in native' \ native :
          /\ pending = {}
          /\ \A e \in DOMAIN journal :
                e # Entry(r) => journal[e].phase \notin Uncertain]_vars
=============================================================================
