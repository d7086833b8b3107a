# worktree-gc: a verification project

TLA+ models of [worktree-gc](../src/README.md), the TLC runs that check them on
small instances, and TLAPS proofs of what matters most. Paths like
`src/src/protection.rs:167` name the repository under `src/`.

worktree-gc deletes things: Git worktrees that are merged or stale, generated
directories, stale parts of Cargo `target` directories. It runs beside editors,
agents and Cargo builds that it cannot stop, is killed by schedulers, and
decides from evidence that ages while it waits for locks. What can go wrong is
seldom a wrong `if`; it is a decision that was right when it was made and is
carried out later. The models are about that.

## Inventory

| Part | Source | State | Hard behaviour | Modules |
|---|---|---|---|---|
| Protection registry | `protection.rs` | `protections.json` (leases), `protections.lock` | several processes; clock read before the lock; links; kills | `ProtectionRegistry` |
| Exact execution (`execute-generated`) | `exact_generated.rs` | candidate, digest-bound quarantine, result file; registry guard; Cargo locks | check-then-rename, resumption after a kill, concurrent executors, builds | `ExactExecution`, refines `ApprovedRemoval` |
| Cargo incremental sweep and profile locks | `cargo_incremental.rs` | `.cargo-lock` files, `incremental/.worktree-gc-trash` | lock order against Cargo, timeouts, stale plans, interrupted removals | `CargoSweeps` |
| Cargo profile reset | `cargo_profiles.rs` | `target/.worktree-gc-trash` | as above; recheck under locks | `CargoSweeps` |
| Cleanup planning and candidate scan | `lib.rs` 807-1430, 4057-4560, 5476-5935 | a plan of decisions per worktree and generated directory | many evidence sources, each possibly incomplete; plans made again; nested directories | `WorktreeCleanup`, `GeneratedCleanup` |
| Cleanup execution | `lib.rs` 5936-7110 | worktrees, branches, generated directories | order of revalidation, guard, ownership, removal; one step of several failing | `WorktreeCleanup`, `GeneratedCleanup`, `CargoSweeps` |
| Controller under pressure | `lib.rs` 1687-3225 | rank queues, epochs, source baselines, free space | evidence deadlines, stop conditions, refusals | `PressureController` |
| Ownership evidence | `lib.rs` 763-800, 4615-5476, `macos_open_handles.rs` | snapshots of processes | what moves during the scan; incompleteness | `OwnershipCapture` |
| Ownership helper | `ownership_helper.rs`, `ownership_protocol.rs`, `bin/` | socket, daemon, installed files and job | timeouts, replacement between batches, installation rollback | `OwnershipHelper` |
| Inventory | `inventory.rs` | traversals, budget, totals | fair division, hard links, vanishing files | `Inventory` |
| Generated-directory collector | `generated.rs` | manifest, measurements carried over | resumption of measurements; what "complete" may claim | `Generated` |
| Codex sessions report | `codex_sessions.rs` | a report over index and stores | rollouts that move, are compressed or deleted meanwhile | `CodexSessions` |
| Gateway storage report | `gateway_storage.rs` | a report over owners' manifests | manifests rewritten while read; identity of roots | `GatewayReport` |
| Codex migration | `codex_migration/` | rollouts, journals, backups | kill between journal phases, a rewriting process that outlives its run, recovery | `CodexMigration`, `CodexRecovery` |
| Pull request evidence | `github_pr.rs` | answers of the API | partial answers | its verdict, in `WorktreeCleanup` |
| CLI, configuration, inbox | `main.rs`, `config.rs` | files of records | - | only how commands hand over to collectors |

How they interact: a scheduled or manual cleanup (`main.rs`) plans each
repository (`lib.rs`), asks for ownership evidence, and carries the plan out.
Every mutation of a worktree or a generated directory runs inside
`with_protection_guard*`, that is, with the registry locked. Sweeps and the
deletion of a `target` also take Cargo's profile locks, inside the guard.
`execute-generated` does the same for a single candidate that a person
approved by the digest of a dry-run manifest. The migration holds the registry
lock shared during its run and checks it at each boundary. The reports
(inventory, generated directories, Codex sessions, gateway storage) delete
nothing, but what they call complete is what people approve deletions by.

The hazards found in the code, each at its line and with the properties that
would catch it, are listed in `PROJECT.json`.

## Modules

### ProtectionRegistry

Each client is one process that executes one registry operation. It starts
(`StartAdd`, ..., `StartMigrate`) with its arguments and with
`SystemTime::now()`, **then** queues for `protections.lock`; whatever it
decides later, it decides with that old `now`. `Acquire` takes the lock, and
one action per operation (`AddProtection`, `RenewProtection`,
`RemoveProtection`, `ListProtections`, `GuardDecide`, `MigrationCheck`)
reads, decides, writes and returns. The file is replaced atomically under the
lock, which justifies one action for that. A guarded operation keeps the lock
while it mutates (`MutatePath`). A sweep is one that may also stand before a build,
without a timeout and with the registry locked (`Contend`, `BuildLetsGo`), as the
sweeps of a manual cleanup do (`main.rs:993`). A migration holds the lock shared and
checks again, with a fresh clock, before each boundary. Users recreate directories and swap
them for links (`UserEdit`), time passes (`Tick`), processes die (`Crash`).

An identifier is a hash of path, second and process; the model keeps the
triple. `Resolve` is `fs::canonicalize` with its fallback, `Trusted` the walk
of `read_active_protections_inner` that refuses leases beyond the cap and
links on the way to a leased path.

What is stated: `MutationsRespectLeases` (no guarded mutation of a path that a
lease in force, by the true clock, covers or lies below),
`RegistryStaysReadable` (what clients write in any order, every reader
accepts), `ForgottenLeasesExpire` (no schedule of additions and renewals gets
a lease beyond the cap), `ActiveLeasesSurvive` (no other client's operation
loses or shortens a lease in force) and `LockIsReleased`: every holder lets the
registry go, whatever error path it takes, but for a sweep that stands before a build
for ever or time and again. That wait is the code's, and all other commands wait with
it.

### ApprovedRemoval and ExactExecution

`ApprovedRemoval` is the abstract promise of an approval: the approved
directory is kept, moved as a whole, taken apart, gone, in this order or lost
to somebody else; a result appears once, after it is gone.

`ExactExecution` is `execute_approved_generated_with_ownership` with the
control points at which other processes can intervene: the preflight, the
registry guard, the guarded ownership snapshot, the wait for Cargo's locks,
the revalidation, the last ownership snapshot, the rename, the check of the
renamed inode, the removal, which may be cut short or fail, and the report. A
tree is its inode and two bits: whether its root's modification time, and
whether anything below it, changed since the approval. That is what the code
compares: `Identity` sees inode and root, `Measured` the contents. Beside two
executors there are a Cargo build that follows its lock by inode and writes by
path, an owner process, a user who deletes and recreates the candidate, source
changes, free space, leases, and kills.

Abstractions: the preflight is one reading; I/O errors when the result is
written, and the removal of empty quarantine directories afterwards, are left
out; digests and manifests do not change.

The properties say that all of it implements `ApprovedRemoval`
(`ImplementsApprovedRemoval`, with `Stage` the refinement mapping), that no tree
goes under a build or a standing owner (`BuildKeepsItsTree`,
`NoStandingOwnerEvicted`), that a recovered quarantine is intact when its
removal goes on (`RecoveredQuarantineIsIntact`), and that an intact quarantine
is resumed once the world rests (`IntactQuarantineIsResumed`).

### CargoSweeps

`run_sweeps` on one target: a plan made with no lock, then the incremental
sweep (one profile lock at a time, in path order), then the profile reset (all
profile locks, listed before and compared after, dropped when one of them is
contended; inactivity and ownership are looked at again under them; stale
profiles are renamed into a quarantine, the locks dropped, the quarantine
removed). Locks are inodes: a renamed profile takes its lock along and a build
that opened it before still waits for that inode. A build takes the locks of
the profiles it wants in the opposite order and holds them while it works.
Runs fail, time out, are killed, and are repeated. Ownership is a process that
has the profile's lock open, or any other (a free choice). `Age` is the
passing of the windows of days, which does not happen while the run is at work
under its locks. Users are not bound by the locks: in `Clean` one deletes a profile at
any time, whoever holds its lock, and a build then makes another one in its place.
Therefore looking at an incremental root and renaming it are two steps
(`LookAtRoot`, `QuarantineRoot`), as are the recheck of the profiles and their renames.

`OnlyInactiveIsQuarantined` and `BuildKeepsItsProfile` say what a rename may move. Both
except profiles that a user deleted after the run last looked (`replaced`): what a
build has made anew at such a path is moved under that build, in the code as in the
model, because the run holds the lock of the deleted one (see below).

`CargoSweepsObserved` adds one history variable, to state what a whole,
undisturbed run achieves.

### PressureController

The pressure loop over the planned deletions of all repositories: classes of
rebuild cost (`Order`), a queue, and epochs (`BeginEpoch`) of at most `Batch`
candidates. An epoch compares the live status of its worktrees with the plan
(`RevalidateWorktree`), reads a source baseline of each (`PrepareBaseline`),
starts its clock (`StartEpoch`), takes one ownership snapshot and the mount
points, compares HEAD and tracked status with the baseline (`RecheckWorktree`)
and then handles candidate after candidate: `NextCandidate` is the loop's own
checks, `Authorize` what `execute_cleanup` and the registry guard ask,
`TakeCargoLocks` the wait for a build, `CheckDeadline` to `RemoveCandidate` the
revalidation between two readings of the deadline, and `RefuseCandidate`,
`CountDeletion` and `RefreshPlan` what the loop makes of the outcome. Every
`write_root` is the assignment of `written`. Meanwhile users edit source, tools
write to candidates or remove them, processes and builds come and go, leases
are granted and expire, and others consume space.

Abstractions: ownership is of worktrees, because `execute_cleanup` keeps every
candidate of an owned worktree; `check_in_use` is on; the last reading of the
deadline and `remove_dir_all` are one step; time is the age of the epoch and of
each occupation, both saturating at `Lifetime`, after which nothing tells them
apart; what vanishes by other hands frees no space.

The order inside a class is a parameter (`Precedence`): the code compares
completeness of the measurement, private bytes per entry, private bytes, age
and path, while the README names private reclaim, allocation and age.

`StandingClaimsAreKept` is what the order of steps is for: no process that has
been in a worktree for as long as an epoch lives, no lease and no build loses
anything. A build can begin while the controller holds Cargo's locks, for it holds
those it listed and a new profile has a lock of its own (`cargo_incremental.rs:472`).
Such a build changes the candidate, which the revalidation under the locks notices;
one that begins between the revalidation and `remove_dir_all` loses its files, and
the property excepts it (`late`). `CheaperClassesFirst` is the promise to the user,
`DriftCostsOneDeletion` the purpose of the baseline, `RecoveryEnds` progress
however short-lived the epochs.

### WorktreeCleanup

Whole worktrees of one repository: `PlanWorktree` decides on each by lease,
state, pull requests, age and ownership; the plan is made a second time before
the routine pass (`RefreshRoutine`, under the snapshot of the whole run) and
again for the pressure pass (`CapturePressure`, under a snapshot narrowed to
what the old plan removes). `NextWorktree` to `RemoveWorktree` are
`execute_worktree_removals`, with the revalidation of pull request and
ownership when there is a policy; git refuses dirty worktrees and that ends
the run. Windows of days are counted as windows outlived. Between the steps
users commit, edit, detach, enter, leave and protect worktrees, pull requests
change and days pass.

`OccupiedIsKept`: a process that the last snapshot found, and that has not
left, keeps its worktree. `RemovedAsLookedAt`: what is removed satisfies the
plan's conditions at that moment, unless it changed after the last look.
`UndisturbedRunIsThorough`: with nothing going on, nothing that the rules
condemn stays.

### GeneratedCleanup and RepositoryCleanup

The generated directories of the same run. `Scan` decides on the directories of
each worktree by lease, kind, Git, age and ownership. A linked worktree may lie
in a generated directory of another one, so decisions nest, and `Structural`
takes back every deletion that encloses something to be kept (the loop of
`reconcile_structural_cleanup_authority`, in one step). Then each directory that
is to go is measured, the plan is made a second time under the snapshot of the
pass with the measurements carried over, and the deletions, the sweeps and the
worktrees that go as a whole follow. A directory that only pressure condemns
is left to `PressureController`.

`DirectoryRemovedAsLookedAt`: whatever generated directory goes, alone, within
another one or with its worktree, is one that its own age, kind and Git allow to
go, was measured under the identity it has if it goes alone, lies under no lease
and in no worktree with a process, unless it changed after the run last scanned
it. `UndisturbedPassIsThorough` is the converse when nothing happens.

Abstractions: one window of days for worktrees and directories alike; any order
of deletions; sweeps of shared incremental roots are not deduplicated; the
current worktree is not among `Checkouts`; errors that abort the run come only
from Cargo's locks; writes below the sampled depth show nowhere.

`RepositoryCleanup` puts the two models of one run into one state space,
following either one: each abstracts the other's part.

### OwnershipCapture and OwnershipHelper

`OwnershipCapture` is the snapshot of processes beside the processes: natively
(macOS) each process is read in three steps - working directory, mapped files,
open files - elsewhere `lsof` reads one process after another; handles are
opened, closed and passed on meanwhile, processes of other users may not be
looked into, probes fail. `OwnershipHelper` adds the privileged helper: launchd
and the daemon (`Launch`, `Bind`, `OpenSocket`, `Accept`, `Reply`), a client
that asks for its roots in batches, each on a connection of its own, with
its timeouts, and the administrator's `install`, with rollback, and
`uninstall`, each step of which may fail or be the last of a killed command.

`StandingOwnerIsSeen`: a process that has held one handle from the beginning
to the end of a capture is seen, or the evidence is incomplete and frees
nothing. `OneBuildPerEvidence`: all batches of one capture are answered by one
build of the helper. `RollbackRestores`: a failed installation leaves files and
job as they were.

A process that closes a file and opens it again elsewhere during the scan is
not "standing": no snapshot promises to see it. The client waits up to 15
seconds for an answer and the daemon gives `lsof` 10; both are a choice between
the answer and giving up. Requests are split by 2,048 roots in the code, by
`Batches` in the model. The backups of an installation that fails around
`bootout` stay on disk; they are not read again. An installation that succeeded and
fails to discard its backups (`ownership_helper.rs:1016`) reports an error and leaves
the new files and the new job: that failure is not in the model, and `RollbackRestores`
does not speak of it. Left out: `status`, the
property list's text, the framing of messages.

### Inventory

The traversal of a few directories with hard links, mounts and failures, in
every order in which a filesystem may list entries: `RootBudget` and
`VisitBudget` hand each root, and each directory of a root, its slice of the
budget (module `Budgets` is shared with the collectors), the walk adds inodes to
totals, directories that do not fit wait, hard links are attributed when the walk
is over. Byte counts are sets of inodes. A path is known by the directories above
it (`FileSystemAssumption`: they lie one in the other); a directory is on another
device than the root if a mount lies between them (`Crossed`), and whether
`one_filesystem` is off or there are no mounts is the same.

`TotalsMeanWhatTheySay`: what is labelled complete is exactly right, a lower
bound counts nothing twice, private bytes are private, whatever stopped the
scan. `SmallRootsAreComplete`: no large root starves a small one. `ScanEnds`.

Left out: the truncation to the largest entries, bytes themselves, files created
or moved during a scan, attributes that are unavailable, and the fallback from
the macOS bulk call to the portable one. A property of the code that the model
keeps: an empty directory that is pending when the budget is used up to the last
entry makes the scan incomplete.

### Generated, CodexSessions, GatewayReport and Collectors

Three commands that only report, each beside a world that goes on changing.

`Generated`: discovery of repositories under a budget per root and in all,
classification, the measurement of each directory, in an order that hints of a
prior manifest decide, and the manifest that is written. `CompleteIsCurrent`: a
measurement called complete is of this run and of the directory as it is, unless
that changed since the run began. `CompleteRootsHideNothing`: a root called
complete hides no directory of its repositories. Bounds and abstractions:
attempts are counted to `AttemptCap`; one target per canonical path; the
artifacts of a root are those of its repositories; the rebuild-cost curve and
summaries are left out.

`CodexSessions`: one query of the thread index, then the walk over the two
stores, then the measurements, while Codex archives, compresses and deletes
rollouts. `CompleteIsTheStore`: a complete report leaves out no rollout that
stood throughout, and has each thread of the index once. Hard links between
rollouts are left out, an absent store is an empty one, configuration and
compression markers are static, the order of measurements is open.

`GatewayReport`: the manifests of a directory are listed, stamped, read one by
one and compared again; roots and units are resolved; each unit takes the best
earlier measurement or gets one within its share of a budget. `ReportIsOneCut`:
the manifests reported all stood there together at one moment.
`OneRootPerIdentity`: what is measured under one root id is in one physical
root. `StandingUnitsAreMeasured`: a large or vanishing unit costs no other its
measurement, which is complete if the unit has fewer entries than its share. A unit,
like any walk, that uses up its budget with its last entry is incomplete if an
empty directory is still to be opened (`Finishes` in `Budgets`, a free choice of
`pending`); at equality nothing is promised. The owner's contract is reduced to
the flags that decide; links inside a root are left out; manifests named one by
one are not compared again at the end (neither does the code); each manifest
content is one report; the preference for an earlier measurement leaves out
private completeness and error counts; the order of the pass is open.

`Collectors` lets a process run one of the three, as the command line does.

### CodexMigration and CodexRecovery

`CodexMigration` is `codex-migration --apply`: the plan (legacy archived leaves,
the largest first within two limits), the shared registry lock, `runner.lock`,
the refusal while any journal is uncertain, and `migrate_one` through its
phases, each written as a `.pending` file and then renamed. `native` is the
process that rewrites the history; it outlives a killed run. Codex edits and
starts, the disk is unplugged, journal writes fail, backups are damaged.
`CodexRecovery` restores the copy a journal names into a new home: staged, put
at its destination, synced, registered, verified, or moved back. Both renames follow
a look at the destination in a step of their own (`LookBeforePublishing`,
`LookBeforeUndoing`), and somebody else may make the destination, or replace the home
there, before, between and after.

`OriginalIsKept`: what was rewritten has been copied before and a journal names
the copy. `VerifiedIsBackedUp` and `RefusedMeansUntouched`: journals do not lie.
`UncertaintyStopsMigration`: nothing is rewritten while another journal is
uncertain. `RecoveredIsOriginal`: a recovery hands back the original.
`ForeignHomeIsKept`: it neither moves nor replaces a home that is not its own,
unless it came between the look and the rename, which the code does not exclude.

The preflight report, the rehearsal on a copy of a store and the progress
display are not modelled: they write nothing that a run reads.

## Runs

| Run | Instance | Shows |
|---|---|---|
| `registry` | 2 processes, a repository and the target in it (which may become a link, and is swept), lifetimes 1 and 2 with a cap of 1, clock to 1 | the registry's properties, with the lock's liveness |
| `exact_target` | 2 executors of a pressure approval of a `target`, 3 inodes, 2 kills, with fairness | safety, the refinement, and that an intact quarantine is resumed |
| `cargo_sweeps` | 2 profiles, the first incremental and deleted by a user at any time; 1 build; 3 lock inodes; timeout 1; 1 kill | what is quarantined is inactive and unlocked |
| `cargo_live` | no timeout, 3 inodes, no incremental profile, 1 kill | builds get their locks, quarantines are recovered |
| `cargo_reset` | timeout 1, 4 inodes | **violation**: an inactive profile is not reset |
| `pressure` | 4 candidates of 3 classes in 2 worktrees, one a Cargo target and one visible to Git, on a filesystem that needs 3 of them; epochs of 2, good for 2 units of time; 2 moves of the world, 1 fault | the controller's properties, with progress |
| `repository_cleanup` | 2 worktrees besides the current one, in every state, with and without policy and pressure, 2 moves of the world, 1 fault; or a worktree whose generated directory holds another worktree with a generated directory of its own, 22 openings, 2 events, 1 failure | what is removed was looked at, what is occupied stays, an undisturbed run is thorough |
| `worktree_evidence` | nothing happens around the run | **violation**: an occupied worktree is removed |
| `codex_migration` | 2 tasks of one parent, 2 runs, 1 trouble (edit, failed write, damage, lease, unplugging), any number of kills, one recovery | the migration's and the recovery's properties |
| `ownership_helper` | 2 processes (one of another user), 2 nested roots asked for in 2 batches, 2 builds of the helper, 3 policies, 1 change of handles, 2 troubles | evidence, builds and rollback |
| `inventory` | 2 orders of 2 roots, 4 files and 3 inodes over 4 directories in all placements and linkings, budgets 3, 5 and 12, 1 trouble | totals, fairness, termination |
| `collectors` | 3 generated directories in 2 repositories below 3 overlapping requests, sizes 1 and 3 (one of each to begin with, and a third of either), budget 5; or 3 stores of 2 threads, 7 configurations; or 2 directory manifests and 1 named one, 2 locations and 2 physical roots | what the reports call complete was so |

Bounds. Two registry clients suffice for every race of the module, which are
all between one holder and one that waits or comes after; clock 1 lets a
lease of one day expire and a client's `now` be stale, and the renewal with a
stale clock and the shorter lifetime happens. Three inodes let the approved
directory be replaced while it is quarantined and once more; with two kills
an executor dies during the rename and its successor during the removal. Two
profiles give the two lock orders; the third lock lets a profile be created
again while the old one is quarantined or still open. Three classes, the
dearest of two candidates, let an epoch expire with work left, a class be skipped
and the target be reached in the middle of an epoch; two moves are a process or
edit and its consequence, one fault is enough to abort at each place. Two
worktrees are the one that brings the pressure pass about and the one it
should not touch; two generated directories, one inside the other, are every
nesting, because `Tree` is all that the reconciliation sees of depth, and the
proof covers the rest. Two tasks let a run stop between them and a second run
find the first one's journal. Two batches and two builds are the least with
which evidence can be mixed; two troubles let a step of the installation fail
and then a step of its rollback. Budgets of the inventory lie below, at and
above the size of a root; three inodes are one within a directory, one across
two and one outside. Two turns of the gateway's world let one
manifest be rewritten before, and another after, it has been read. Deadlock is
not checked (the clock stops, inodes run out, commands end); what must go on is
stated as liveness.

Fairness. `ProtectionRegistry`: whoever holds the lock runs on, and what it does under
the lock ends. For a migration this holds even if it could go on to another boundary,
as its batches are bounded. For a sweep that stands before a build nothing is
assumed: neither that the build ends, nor that the next one does not come first. That
an external command such as `git worktree remove` ends is taken for granted. Nothing
is assumed of the order in which the kernel grants the lock.
`ExactExecution`: the operator repeats the command, an executor runs on, and
one that queues for the registry gets it some time. `CargoSweeps`: runs are
scheduled again, a run and a build go on, the kernel grants a build the lock it
blocks on, and the removal of quarantined files does not fail for ever; of the
sweep, which polls, no luck is assumed. `PressureController`: the controller
runs on; nothing is assumed of the world, not even that builds end. `Inventory`:
the scan, one thread, takes its next step.

## What the runs found

* A plan to reset a profile is given up by the same run that made it when an
  incremental root of that profile was swept first: the sweep writes to
  `<profile>/incremental`, and the recheck takes this for activity
  (`cargo_reset`).
* A worktree that the plan keeps because a process works in it is removed under
  the process, when the pressure pass has another worktree to remove and no
  pull request policy is set: the snapshot of the pass is asked only about what
  the old plan removes, and then serves a new plan of everything
  (`worktree_evidence`). Nothing else need happen.

More disagreements with the documentation were met and have no run:

* A lease of maximal length, granted while a reader waits for the lock, lies
  beyond the cap by the reader's older clock, and the reader refuses the
  registry (`protection.rs:305`).
* After the removal the executor checks that the candidate's path is empty; a
  build that is quick enough to recreate it makes the command fail, and the
  removal is reported nowhere (`exact_generated.rs:511`).
* An edit between the comparison with the plan and the reading of the baseline
  is taken for the planned state, and deletions go on (`lib.rs:2000`).
* A recovery that published its home and then fails to sync the directory, or is
  killed before it has verified the home, reports an error, but a retry refuses
  the home it finds (`codex_migration/native.rs:1212` and `:1252`, against the
  comment at `:1192` and `src/README.md:558`).
* A resumed collector measures every incomplete directory from its beginning,
  with the same bound per directory, those with the fewest attempts first: a
  directory larger than that bound is never completed, however many runs are
  made of it (`generated.rs:1372`-`1390`, against `src/README.md:372`).
* A linked worktree that lies in a condemned generated directory and has no
  generated directory of its own is not a path to be kept, and goes with it
  (`lib.rs:1275`-`1342`).
* A profile that `cargo clean` deletes and a build creates again, between the
  recheck and the rename, is moved away under the build
  (`cargo_profiles.rs:373`); an incremental root likewise
  (`cargo_incremental.rs:409`). The properties of `CargoSweeps` except these profiles.
* A build in a profile made after the controller listed Cargo's locks, that begins
  after the revalidation of the candidate, loses its files (`lib.rs:6959`).
  `StandingClaimsAreKept` excepts it.
* A home that somebody puts at the destination of a recovery between the look and
  the rename is moved to the stage, or replaced if it is an empty directory
  (`codex_migration/native.rs:1211` and `:1260`). `ForeignHomeIsKept` excepts it.
* A manual cleanup that waits for a build keeps everybody else from the registry as
  long as the build runs (`main.rs:993`). `LockIsReleased` excepts it.
* A worktree whose HEAD is detached after the plan is removed all the same when
  there is no pull request policy (`lib.rs:6615`).
* A candidate somebody else removed counts as a deletion of the run
  (`lib.rs:2203`).
* The Cargo lock timeout bounds each wait, not the time spent on a target
  (`cargo_incremental.rs:695`).
* An intact quarantine cannot be resumed once the candidate has been recreated
  (`exact_generated.rs:338`).
* A link below a protected directory is judged by its target
  (`protection.rs:456`).

## Proofs

TLAPS checks theorems about every component, for all values of the constants:
any processes, builds, worktrees, directories, tasks, budgets, lifetimes and
bounds on the world. They are theorems of the specifications that the runs
check, and between them they state every safety property and every action
property of the passing runs. Each module opens with the argument and then
builds one inductive invariant from named parts; TLC checked those before they
were proved.

`ProtectionRegistryProofs` proves, for every set of processes, paths and
lifetimes, type correctness and the safety properties of the registry. None of
them is inductive. `MutationsRespectLeases` needs to know that a process that
mutates holds the lock (`Holding`), so that nobody else adds a lease; it also
needs `ReadInThePast`, that a client's clock reading is not later than the
clock, because the guard prunes by the reading: a lease in force now was in
force then. `ForgottenLeasesExpire` and `RegistryStaysReadable` need the same
two. `IInv` is their conjunction; the lemmas on `Active`, `Renewed` and
`Resolve` state once what the operations preserve, there is one lemma per
group of actions, and theorem `Invariance` puts them together. `Survival`, an
action property, follows from `IInv` and the step. Type correctness is proved
there and has no run of its own.

`ExactExecutionProofs` proves `BuildKeepsItsTree`, `NoStandingOwnerEvicted`,
`RecoveredQuarantineIsIntact` and the refinement of `ApprovedRemoval`, for
targets and other trees, in both classes, for any number of executors, inodes
and crashes. Only one executor at a time is inside the guard (`Exclusive`), and
an inode is at one path and is never used again (`OneTree`): that is why what an
executor has seen of the tree stays true until it acts on it (`WorkInv`).
`CargoHeld` says that until the removal ends the executor has the Cargo lock of
the approved tree, unless the tree was replaced in between; a recovered
quarantine has no lock taken, and there the argument is that nobody can open a
lock in a tree that left the candidate path. `OneEnd` says that one executor
reaches the end of the tree, once, which is what the refinement needs: every
step is a step of `ApprovedRemoval` or a stutter.

`CargoSweepsProofs` proves, for every set of profiles and builds, that nothing
active is quarantined (`QuarantineSafety`) and that no build loses a profile it
holds (`BuildSafety`). A lock is an inode, a path leads to another one after the
profile was recreated, and `HeldIsLocked` alone is not inductive. `OneLock` and
`OpenedThere` tie inodes to paths; `WaitHere` says that builds in a profile that
is still idle have opened the lock that is in it now, so that a build cannot
begin to write to a profile whose lock the run holds; locks created since the
profiles were listed are not held by the run, but whoever created them has them
open, so the ownership snapshot of `Recheck` leaves those profiles alone:
`HeldIsLocked` excuses them and `TodoIsLocked` no longer needs to. Of the path of a
profile that a user deletes nothing is known any more, so both speak of what is still
there, and `TodoIsLocked` and `GroupIsOpen` leave out what was deleted since the run
looked (`replaced`). That `First`,
`Last` and `NewLock` choose what they say follows from the well-foundedness of
the natural numbers.

`PressureControllerProofs` proves `StandingClaimsAreKept`,
`DriftCostsOneDeletion` and `CheaperClassesFirst`. The clock of an epoch starts
before its snapshot is taken, so whoever is in a worktree the snapshot calls
free came after the clock was started (`SnapshotInv`), and the deadline is read
last; leases, and builds in the profiles it listed, are kept out by locks from the
point where the controller looks at them, and a build in another profile shows in the
revalidation or came after it (`GuardInv`). Against its baseline a worktree only
moves away: edits grow and what Git shows of it shrinks (`BaselineInv`). A
deletion under drifted source is therefore noticed by the comparison that
follows it, whatever happens in between, and ends the run (`DriftInv`). The
queue holds candidates of one class, and a class is left only when nothing in it
is wanted any more: a candidate leaves the queue to be looked at, and from there
only by being deleted or refused, itself or with its worktree, or because its
file system has enough (`SettledInv`). For this the order of a batch is not
sorted but chosen: it is the arrangement of its candidates by precedence, which
`InOrderFacts` shows to hold all of them. What is left of the queue is arranged
in the same way.

`RepositoryCleanupProofs` proves `OccupiedIsKept` and `RemovedAsLookedAt` of
worktrees, `DirectoryRemovedAsLookedAt` of generated directories,
`UndisturbedCleanupIsThorough` of both, and that no stage relies on a plan in
which a directory to be deleted contains one that is kept, however they nest
(`KeptAreNotEnclosed`). Heads only grow, so a worktree with the head of the plan
has had no commit since and has only grown older (`PlanInv`); whatever else was
found of it is still so unless it is marked late (`LookInv`). What is not marked
unseen has only grown older since it was judged (`JudgedInv`), a measurement
belongs to an identity that existed, and a place the snapshot calls free has
nobody in it who was there when the snapshot was taken. `TreeAssumption` says
that containment is transitive: therefore one reconciliation is already the
fixed point of the code's loop. `HomeAssumption` says that nothing lies between
a directory and its worktree, because the scan stops at the boundary of a
repository (`is_repository_boundary`, `lib.rs` 5476-5560): without it, an outer
worktree's directory could go with a process in an inner one.

`UndisturbedCleanupIsThorough` is about what a run achieves rather than what it
must not do, and its invariants say what is still to come: as long as nothing
happened, every worktree that the rules condemn is yet to be judged, is judged
so, or is gone (`RunInv`), and every directory they condemn is yet to be found,
is in the plan, is inside one that is, or is gone (`ThoroughInv`); both scans
find the same. `NoRemovalAssumption` says that a worktree that is not to be
removed can be told from the decisions to remove one. The attempt found the model
too generous: owner-free recovery without the check of use would plan directories
by a snapshot that nobody took. `scheduled_pressure_policy` refuses that
configuration (`main.rs` 641-644), and so do the `Settings` of the module now.

`OwnershipHelperProofs` proves `StandingOwnerIsSeen`, `OneBuildPerEvidence` and
`RollbackRestores`. The caller's half (`CallerInv`) follows the handles that stay
for the whole capture: a scan under way has seen them or is yet to come to them,
an answer holds those below the roots of its batch, and the evidence those of
all batches before; `BatchesAssumption` says that the batches are all the roots.
The service's half (`ServiceInv`) follows the installed files: they change only
while the job is not loaded, so a daemon that runs is the installed one and
answers with its digest, and what a rollback puts back is what was read before.

`CollectorsProofs` proves what the three report-only collectors and the
inventory promise. Each looks once and reports later, so each invariant says of
every stage what of the world is found and what is still ahead.

* `Generated`: a complete measurement is of the size the artifact still has,
  whatever was reused from the checkpoint (`CompleteIsCurrent`, by `CurrentInv`),
  and a root reported complete hides nothing (`CompleteRootsHideNothing`, by
  `FoundInv` and `RootsInv`). That the walk of a root finds what it says is a
  statement about a recursive function; it is proved by taking the least count
  of entries where it fails, by the well-foundedness of the natural numbers.
* `CodexSessions`: a complete report is the store as it was all along
  (`CompleteIsTheStore`). `WalkInv` divides the files of the store into those
  found, those in the directory at hand and those in directories still queued;
  `RowsInv` and `BudgetInv` say that every row and rollout is dealt with once.
* `GatewayReport`: `ReportIsOneCut` rests on `CutInv`: whoever rewrites a manifest
  gives it a stamp never seen before (`StampsAreOld`), so a file that still has
  its stamp says what it said then (`OpenedAsSeen`, `SnapshotStillHolds`); when
  all stamps agree in the end, what was reported is what stood there when
  discovery ended (`SameIsReported`). `OneRootPerIdentity` needs that each unit
  lies in the root it was resolved to (`UnitsLieInTheirRoots`).
  `StandingUnitsAreMeasured` is arithmetic: a share rounded up leaves each of the
  units after it at least what was left for it before (`ShareFacts`, `ShareInv`), and a
  unit with fewer entries than that leaves some of its budget over.
* `Inventory`: what a traversal still has before it is a set of disjoint subtrees
  (`Slots`, `FrontierInv`), which opening a reader, yielding a directory and ending
  a visit take apart or put together. `TotalsInv` says that every file that can be
  reached was counted, is in one of them, or is lost, and then everything retained
  above it is marked; `InodeInv` says of each inode that the files counted of it
  are what its pending link or its totals say. That a directory is retained only
  before anything beneath it is yielded is why a link that narrows the common
  directory never misses one. `TotalsMeanWhatTheySay` follows when the last link is
  resolved. `SmallRootsAreComplete` counts charged entries instead of files
  (`TalliesInv`): nothing is charged twice, so a root that used up its budget has
  that many entries; and an even share is left to every root (`AllotmentInv`, by
  `ShareFacts`).

`CodexRecoveryProofs` proves the safety properties of the migration and of the
recovery for any tasks, runs and number of troubles. `OriginalIsKept` alone says
nothing of a run between its backup and the start of the rewriting, nor why
nobody else is at work then. `Exclusive` and `AtWork` say that there is one run,
one rewriting process and one uncertain journal at a time; `Boundary` is why a
batch may pass to its next task without looking again; `OnTask` says what the
journal in memory, the file, the copy and the history have in common at each
point; `NativeInv` is what remains of it when the run is killed and its process
goes on. Versions of a history only grow, so the version verified in the end and
the version planned leave no room for an edit in between. Of `Selection`, a
fold, the proof uses nothing.

All of this assumes only the named assumptions of the modules, which TLC
evaluates in the runs. Most say that a constant is of its kind, that a value that
stands for "none" is none of the others, or that a set of inputs is finite; those
that say more are named above or are `MappingAssumption` and `OrderAssumption`
(each candidate has one worktree, file system and rank, and the order is total),
`StoresAssumption` (session files lie in a day's directory or among the archived,
which is where Codex puts them) and `UnitsAssumption` and `ArtifactsAssumption`
(finitely many units, artifacts and places). `FileSystemAssumption` says what a tree
of directories is.

Left to TLC is liveness under fairness, which is out of the prover's reach:
`LockIsReleased`, `IntactQuarantineIsResumed`, `BuildsGetTheirLocks`,
`TrashIsRecovered`, `RecoveryEnds` and `ScanEnds`.

## Not modelled

* The discovery of repositories in the workspace roots (`lib.rs` 3292-3500) and
  the pruning of Git's metadata, which is off whenever roots are given.
* Parsing, rendering and formats: configuration, manifests, the answers of `gh`,
  `lsof` and Git, property lists, JSON output, the inbox, which is a listing of
  files, and the summaries of rebuild cost. They keep no state that a later
  decision reads.
* The preflight, rehearsal and progress of the migration.
* `status` of the helper and the framing of its messages.

## Plan

1. A second build in `CargoSweeps`: a build that waits for the lock of a profile
   that was moved away gets it some time, and may then work beside one that
   created the profile anew (`cargo_profiles.rs:401`).
2. `CargoSweeps` with users who delete profiles in the liveness run as well: a build
   and a sweep then compete for locks of more inodes than the present bound has.
