---------------------------- MODULE CargoSweeps ----------------------------
(***************************************************************************)
(* The built-in sweeps of one Cargo target directory: run_sweeps in        *)
(* src/src/lib.rs, the incremental sweep of src/src/cargo_incremental.rs   *)
(* and the profile reset of src/src/cargo_profiles.rs, beside Cargo builds *)
(* that take the same profile locks.                                       *)
(*                                                                         *)
(* A profile is a directory with Cargo's lock file in it: the lock moves   *)
(* with the directory, and whoever opened it before goes on waiting for    *)
(* the same inode.  Of its contents the model keeps whether it has been    *)
(* inactive for the reset window (`idle`, from sampled modification        *)
(* times), one incremental root with its age, and the quarantine inside    *)
(* incremental/.  `trash` is the quarantine of whole profiles.             *)
(*                                                                         *)
(* Runs follow each other: the guard that surrounds run_sweeps admits one  *)
(* at a time (ProtectionRegistry).  A run plans without any lock and is    *)
(* carried out later.  Neither users nor what a build writes by path is    *)
(* bound by the locks: a user may delete a profile at any time, and a      *)
(* build then makes another one in its place.  The sweep orders locks by   *)
(* path and Cargo in its own way; the model makes the two orders opposite. *)
(***************************************************************************)
EXTENDS Naturals

CONSTANTS
    Profiles,     \* paths below target, as numbers in path order
    Incremental,  \* profiles compiled incrementally: dev, not release
    Builds,       \* Cargo processes
    MaxLock,      \* bound: lock inodes in use at one time
    HasTimeout,   \* a Cargo lock timeout is configured
    Timeout,      \* cargo_lock_timeout, in polls of a contended lock
    MaxCrashes,   \* bound: runs killed
    Cleans,       \* profiles a user may delete
    Missing,      \* no profile at a path
    Nobody        \* nobody holds a lock

ASSUME ProfilesAssumption ==
    Profiles \subseteq 1 .. MaxLock /\ {Incremental, Cleans} \subseteq SUBSET Profiles
ASSUME BoundsAssumption   == MaxLock \in Nat /\ Timeout \in Nat /\ MaxCrashes \in Nat
ASSUME TimeoutAssumption  == HasTimeout \in BOOLEAN
ASSUME NobodyAssumption   == {Nobody, "sweep"} \cap Builds = {} /\ Nobody # "sweep"

Locks    == 1 .. MaxLock
Ages     == {"stale", "fresh"}
Profile  == [lock : Locks \cup {0},          \* 0: no .cargo-lock in it
             idle : BOOLEAN,
             root : Ages \cup {"none"},
             itrash : SUBSET Ages]           \* incremental/.worktree-gc-trash

ASSUME MissingAssumption == Missing \notin Profile

VARIABLES
    prof,     \* the profile at each path
    trash,    \* target/.worktree-gc-trash
    holder,   \* holder of each profile lock
    build,    \* [at, want, fds]: progress, wanted profiles, locks opened
    pc,       \* control point of the run
    plan,     \* [roots, recover, reset, trash]: what the run decided to do
    fd,       \* the lock the incremental sweep has opened
    listed,   \* profiles with a lock, as listed before locking
    got,      \* those of them locked in this round
    todo,     \* profiles still to be quarantined
    moved,    \* locks of the profiles this run has quarantined
    waited,   \* polls since this wait began
    crashes,
    replaced  \* history: profiles deleted by a user since the run opened the
              \* lock of one to sweep its root, or rechecked all it locked

vars == <<prof, trash, holder, build, pc, plan, fd, listed, got, todo, moved, waited, crashes,
          replaced>>

NoPlan == [roots |-> {}, recover |-> {}, reset |-> {}, trash |-> {}]

run == <<plan, fd, listed, got, todo, moved>>

----------------------------------------------------------------------------
Present(p)  == prof[p] # Missing

\* cargo_profile_lock_paths
Lockable    == {p \in Profiles : Present(p) /\ prof[p].lock # 0}

Opened      == UNION {{build[b].fds[p] : p \in build[b].want} : b \in Builds}
InUse       == Opened \cup {t.lock : t \in trash} \cup {fd}
                      \cup {prof[p].lock : p \in {q \in Profiles : Present(q)}}
                      \cup {l \in Locks : holder[l] # Nobody}
NewLock     == CHOOSE l \in Locks \ InUse : \A m \in Locks \ InUse : l <= m

Free(l)     == holder[l] = Nobody

Held        == {l \in Locks : holder[l] = "sweep"}

Drop        == holder' = [l \in Locks |-> IF holder[l] = "sweep" THEN Nobody ELSE holder[l]]

\* Mutant: locks taken so far are kept while waiting for the next one.
KeepLocks   == UNCHANGED <<holder, got>>

DropContended == Drop /\ got' = {}

\* Mutant: the plan is believed.
AsPlanned(p) == Present(p)

\* The planner is run again under the locks.
StillIdle(p) == Present(p) /\ prof[p].lock # 0 /\ prof[p].idle

\* Mutant: the age of a root is not looked at again.
RootAsPlanned(p) == p \in plan.roots /\ prof[p].root # "none"

RootStale(p)     == p \in plan.roots /\ prof[p].root = "stale"

----------------------------------------------------------------------------
Init ==
    /\ prof = [p \in Profiles |->
                 [lock |-> p, idle |-> TRUE, itrash |-> {},
                  root |-> IF p \in Incremental THEN "stale" ELSE "none"]]
    /\ trash = {}
    /\ holder = [l \in Locks |-> Nobody]
    /\ build = [b \in Builds |-> [at |-> "idle", want |-> {}, fds |-> [p \in Profiles |-> 0]]]
    /\ pc = "idle"
    /\ plan = NoPlan
    /\ fd = 0
    /\ listed = {} /\ got = {} /\ todo = {} /\ moved = {}
    /\ waited = 0
    /\ crashes = 0
    /\ replaced = {}

Goto(l) == pc' = l

(* The run is over: its locks are dropped, what it quarantined stays.     *)
End(l) ==
    /\ Goto(l)
    /\ Drop
    /\ fd' = 0 /\ listed' = {} /\ got' = {} /\ todo' = {} /\ moved' = {}
    /\ waited' = 0
    /\ replaced' = {}
    /\ UNCHANGED build

Abort == End("idle") /\ plan' = NoPlan /\ UNCHANGED <<prof, trash, crashes>>

\* plan_incremental_sweep: the roots that have aged, and what an earlier sweep
\* left in incremental/, of profiles that have their lock.
AgedRoots == {p \in Lockable : prof[p].root = "stale"}
LeftRoots == {p \in Lockable : prof[p].itrash # {}}

\* plan_cargo_profile_sweep: the profiles that have aged, and what an earlier
\* reset left in the quarantine of the target.
AgedProfiles == {p \in Lockable : prof[p].idle}
LeftProfiles == {t.lock : t \in trash}

(* The sweeps are planned with no lock held; a profile seen in use is kept. *)
Plan ==
    /\ pc \in {"idle", "done"}
    /\ \E used \in SUBSET Profiles :
         plan' = [roots |-> AgedRoots, recover |-> LeftRoots,
                  reset |-> AgedProfiles \ used, trash |-> LeftProfiles]
    /\ plan' # NoPlan
    /\ Goto("incremental")
    /\ UNCHANGED <<prof, trash, holder, build, fd, listed, got, todo, moved, waited, crashes, replaced>>

----------------------------------------------------------------------------
(* execute_incremental_sweep_with_timeout: one profile after the other.    *)

Groups == plan.roots \cup plan.recover

First(ps) == CHOOSE p \in ps : \A q \in ps : p <= q

NextGroup(p) ==
    plan' = [plan EXCEPT !.roots = @ \ {p}, !.recover = @ \ {p}]

OpenGroup ==
    /\ pc = "incremental"
    /\ Groups # {}
    /\ LET p == First(Groups) IN
       IF ~Present(p)
       THEN /\ NextGroup(p)
            /\ UNCHANGED <<prof, trash, holder, build, pc, fd, listed, got, todo, moved, waited,
                            crashes, replaced>>
       ELSE IF prof[p].lock = 0 THEN Abort
       ELSE /\ fd' = prof[p].lock
            /\ waited' = 0
            /\ Goto("waiting")
            /\ UNCHANGED <<prof, trash, holder, build, plan, listed, got, todo, moved, crashes,
                            replaced>>

LockGroup ==
    /\ pc = "waiting"
    /\ Free(fd)
    /\ holder' = [holder EXCEPT ![fd] = "sweep"]
    /\ waited' = 0
    /\ Goto("locked")
    /\ UNCHANGED <<prof, trash, build, run, crashes, replaced>>

\* check_lock_timeout
TimedOut == HasTimeout /\ waited >= Timeout

(* A contended lock: give up, or sleep and try again. *)
Poll ==
    /\ waited' = IF HasTimeout THEN waited + 1 ELSE 0
    /\ UNCHANGED <<prof, trash, build, pc, plan, fd, listed, todo, moved, crashes, replaced>>

GroupBusy ==
    /\ pc = "waiting"
    /\ ~Free(fd)
    /\ IF TimedOut THEN Abort ELSE Poll /\ UNCHANGED <<holder, got>>

(* Under the lock the age of the root is looked at again.  It is dropped   *)
(* before anything is removed.                                             *)
LookAtRoot ==
    /\ pc = "locked"
    /\ LET p == First(Groups) IN
       IF Present(p) /\ RootStale(p)
       THEN /\ Goto("root checked")
            /\ UNCHANGED <<holder, plan, fd, replaced>>
       ELSE /\ Drop
            /\ fd' = 0 /\ replaced' = {}
            /\ IF Present(p) THEN Goto("removing roots") /\ UNCHANGED plan
                             ELSE Goto("incremental") /\ NextGroup(p)
    /\ UNCHANGED <<prof, trash, build, listed, got, todo, moved, waited, crashes>>

(* What is at the path of the root then goes to the quarantine, which      *)
(* writes to the profile; if nothing is, the rename fails.                 *)
QuarantineRoot ==
    /\ pc = "root checked"
    /\ LET p == First(Groups) IN
       IF ~Present(p) \/ prof[p].root = "none" THEN Abort
       ELSE /\ prof' = [prof EXCEPT ![p].root = "none", ![p].idle = FALSE,
                                    ![p].itrash = @ \cup {prof[p].root}]
            /\ Goto("removing roots")
            /\ Drop
            /\ fd' = 0 /\ replaced' = {}
            /\ UNCHANGED <<trash, build, plan, listed, got, todo, moved, waited, crashes>>

RemoveRoots ==
    /\ pc = "removing roots"
    /\ LET p == First(Groups) IN
         /\ prof' = IF Present(p) /\ prof[p].itrash # {}
                    THEN [prof EXCEPT ![p].itrash = {}, ![p].idle = FALSE]
                    ELSE prof
         /\ NextGroup(p)
    /\ Goto("incremental")
    /\ UNCHANGED <<trash, holder, build, fd, listed, got, todo, moved, waited, crashes, replaced>>

----------------------------------------------------------------------------
(* execute_cargo_profile_reset *)

\* Mutant: what an interrupted run left is left again.
NotRecovered == {}

Recovered == plan.trash

(* The quarantine of earlier runs is removed first, with no lock.          *)
RecoverTrash ==
    /\ pc = "incremental"
    /\ Groups = {}
    /\ trash' = {t \in trash : t.lock \notin Recovered}
    /\ IF \E p \in plan.reset : Present(p)
       THEN /\ Goto("listing")
            /\ UNCHANGED <<prof, holder, build, run, waited, crashes, replaced>>
       ELSE End("done") /\ UNCHANGED <<prof, plan, crashes>>

ListLocks ==
    /\ pc = "listing"
    /\ IF Lockable = {}
       THEN Abort
       ELSE /\ listed' = Lockable
            /\ got' = {}
            /\ waited' = 0
            /\ Goto("locking")
            /\ UNCHANGED <<prof, trash, holder, build, plan, fd, todo, moved, crashes, replaced>>

\* wait_for_profile_locks opens the paths one by one, and all of them again in
\* every round; what it got is a path to it, whatever is there later.
Unlocked == listed \ got

LockNext ==
    /\ pc = "locking"
    /\ Unlocked # {}
    /\ LET p == First(Unlocked) IN
       IF p \notin Lockable THEN Abort
       ELSE /\ Free(prof[p].lock)
            /\ holder' = [holder EXCEPT ![prof[p].lock] = "sweep"]
            /\ got' = got \cup {p}
            /\ UNCHANGED <<prof, trash, build, pc, plan, fd, listed, todo, moved, waited, crashes,
                            replaced>>

LocksBusy ==
    /\ pc = "locking"
    /\ Unlocked # {}
    /\ LET p == First(Unlocked) IN p \in Lockable /\ ~Free(prof[p].lock)
    /\ IF TimedOut THEN Abort ELSE Poll /\ DropContended

\* Mutant: the profiles are not listed again under the locks.
AssumeListed == TRUE

AllListed == Lockable = listed

(* All are held: list again, and start over if the profiles changed.       *)
Relist ==
    /\ pc = "locking"
    /\ Unlocked = {}
    /\ IF AllListed THEN Goto("held") /\ UNCHANGED holder
                    ELSE Goto("listing") /\ Drop
    /\ waited' = 0
    /\ UNCHANGED <<prof, trash, build, run, crashes, replaced>>

\* Another process has the lock of the profile open.
OwnedProfile(p) == prof[p].lock \in Opened

(* Activity, then ownership, are looked at again under the locks.  Other   *)
(* processes may own profiles too, or the evidence may be incomplete.      *)
Recheck ==
    /\ pc = "held"
    /\ LET stale == {p \in plan.reset : StillIdle(p)} IN
       \E seen \in SUBSET stale :
          /\ {p \in stale : OwnedProfile(p)} \subseteq seen
          /\ todo' = stale \ seen
    /\ Goto("quarantining")
    /\ UNCHANGED <<prof, trash, holder, build, plan, fd, listed, got, moved, waited, crashes,
                    replaced>>

(* The rename moves whatever is at the path then.                          *)
QuarantineProfile ==
    /\ pc = "quarantining"
    /\ todo # {}
    /\ LET p == First(todo) IN
       IF ~Present(p) THEN Abort
       ELSE /\ trash' = trash \cup {prof[p]}
            /\ moved' = moved \cup {prof[p].lock}
            /\ prof' = [prof EXCEPT ![p] = Missing]
            /\ todo' = todo \ {p}
            /\ UNCHANGED <<holder, build, pc, plan, fd, listed, got, waited, crashes, replaced>>

(* Some step of the loop fails: what was quarantined stays.                *)
QuarantineFails == pc = "quarantining" /\ todo # {} /\ Abort

DropBeforeRemoval == Drop

ReleaseLocks ==
    /\ pc = "quarantining"
    /\ todo = {}
    /\ DropBeforeRemoval
    /\ Goto("removing")
    /\ replaced' = {}
    /\ UNCHANGED <<prof, trash, build, run, waited, crashes>>

RemoveProfiles ==
    /\ pc = "removing"
    /\ trash' = {t \in trash : t.lock \notin moved}
    /\ End("done")
    /\ UNCHANGED <<prof, plan, crashes>>

(* A removal fails; what was quarantined stays for a later run.            *)
RemovalFails ==
    /\ \/ pc = "removing roots"
       \/ pc = "incremental" /\ Groups = {} /\ plan.trash # {}
       \/ pc = "removing" /\ moved # {}
    /\ Abort

Crash ==
    /\ pc \notin {"idle", "done"}
    /\ crashes < MaxCrashes
    /\ crashes' = crashes + 1
    /\ End("idle") /\ plan' = NoPlan
    /\ UNCHANGED <<prof, trash>>

Sweep ==
    \/ OpenGroup      \/ LockGroup \/ GroupBusy
    \/ LookAtRoot     \/ QuarantineRoot         \/ RemoveRoots
    \/ RecoverTrash   \/ ListLocks \/ LockNext  \/ LocksBusy      \/ Relist
    \/ Recheck        \/ QuarantineProfile      \/ ReleaseLocks   \/ RemoveProfiles

----------------------------------------------------------------------------
(* Cargo, and the passing of time. *)

sweeper == <<trash, pc, plan, fd, listed, got, todo, moved, waited, crashes>>

NewProfile(l) == [lock |-> l, idle |-> FALSE, root |-> "none", itrash |-> {}]

BuildStart(b) ==
    /\ build[b].at = "idle"
    /\ \E want \in SUBSET Profiles \ {{}} :
         build' = [build EXCEPT ![b] = [at |-> "locking", want |-> want,
                                        fds |-> [p \in Profiles |-> 0]]]
    /\ UNCHANGED <<prof, holder, sweeper, replaced>>

Last(ps) == CHOOSE p \in ps : \A q \in ps : q <= p

Pending(b) == {p \in build[b].want : build[b].fds[p] = 0 \/ holder[build[b].fds[p]] # b}

\* The next lock file is opened, and created if it is not there.
BuildOpen(b) ==
    /\ build[b].at = "locking"
    /\ Pending(b) # {}
    /\ LET p == Last(Pending(b))
           l == IF p \in Lockable THEN prof[p].lock ELSE NewLock
       IN /\ build[b].fds[p] = 0
          /\ p \notin Lockable => Locks \ InUse # {}
          /\ build' = [build EXCEPT ![b].fds[p] = l]
          /\ prof' = [prof EXCEPT ![p] = IF Present(p) THEN [prof[p] EXCEPT !.lock = l]
                                         ELSE NewProfile(l)]
    /\ UNCHANGED <<holder, sweeper, replaced>>

BuildLock(b) ==
    /\ build[b].at = "locking"
    /\ Pending(b) # {}
    /\ LET l == build[b].fds[Last(Pending(b))] IN
         /\ l # 0
         /\ holder[l] = Nobody
         /\ holder' = [holder EXCEPT ![l] = b]
    /\ UNCHANGED <<prof, build, sweeper, replaced>>

\* It writes by path, wherever the directory it locked has gone.
BuildWork(b) ==
    /\ build[b].at = "locking"
    /\ Pending(b) = {}
    /\ build' = [build EXCEPT ![b].at = "building"]
    /\ prof' = [p \in Profiles |->
                  IF p \notin build[b].want THEN prof[p]
                  ELSE [(IF Present(p) THEN prof[p] ELSE NewProfile(0))
                           EXCEPT !.idle = FALSE, !.root = IF p \in Incremental THEN "fresh" ELSE @]]
    /\ UNCHANGED <<holder, sweeper, replaced>>

BuildEnd(b) ==
    /\ build[b].at = "building"
    /\ build' = [build EXCEPT ![b] = [at |-> "idle", want |-> {},
                                      fds |-> [p \in Profiles |-> 0]]]
    /\ holder' = [l \in Locks |-> IF holder[l] = b THEN Nobody ELSE holder[l]]
    /\ UNCHANGED <<prof, sweeper, replaced>>

\* The windows, of days, pass while no build is interested in the profile
\* and the run is not at work under its locks, or after them.
Age(p) ==
    /\ pc \in {"idle", "done", "incremental", "waiting", "locking"}
    /\ got = {}
    /\ Present(p)
    /\ \A b \in Builds : p \notin build[b].want
    /\ ~prof[p].idle \/ prof[p].root = "fresh"
    /\ prof' = [prof EXCEPT ![p].idle = TRUE, ![p].root = IF @ = "fresh" THEN "stale" ELSE @]
    /\ UNCHANGED <<holder, build, sweeper, replaced>>

\* The run acts on what it has seen of a profile, or on a lock it has opened.
Looked == {"waiting", "locked", "root checked", "quarantining"}

\* A user deletes a profile, whoever holds its lock.
Clean(p) ==
    /\ p \in Cleans
    /\ Present(p)
    /\ prof' = [prof EXCEPT ![p] = Missing]
    /\ replaced' = IF pc \in Looked THEN replaced \cup {p} ELSE replaced
    /\ UNCHANGED <<holder, build, sweeper>>

Build(b) == BuildOpen(b) \/ BuildWork(b) \/ BuildEnd(b)

Next ==
    \/ Plan \/ Sweep \/ QuarantineFails \/ RemovalFails \/ Crash
    \/ \E b \in Builds : BuildStart(b) \/ BuildLock(b) \/ Build(b)
    \/ \E p \in Profiles : Age(p) \/ Clean(p)

Spec == Init /\ [][Next]_vars

(* Fairness: scheduled runs come back, a run goes on, a build goes on and  *)
(* ends, and the kernel grants a build the lock it blocks on.  The sweep   *)
(* only polls, so nothing is assumed of its luck.  Removing what is in a   *)
(* quarantine may fail, but not for ever.                                  *)
FairSpec ==
    /\ Spec
    /\ WF_vars(Plan) /\ WF_vars(Sweep) /\ SF_vars(RemoveRoots) /\ SF_vars(RecoverTrash)
    /\ \A b \in Builds : WF_vars(Build(b)) /\ SF_vars(BuildLock(b))

----------------------------------------------------------------------------

\* A profile goes whole to the quarantine of the target.
Moved(p) == Present(p) /\ ~Present(p)' /\ prof[p] \in trash' \ trash

\* A profile that the run rechecked and no user has deleted since is not moved
\* away while a build holds the lock in it.  (What a build has made anew at the
\* same path is moved under it: the run holds the lock of the deleted one.)
BuildKeepsItsProfile ==
    [][\A p \in Profiles \ replaced :
          Moved(p) => prof[p].lock \notin {l \in Locks : holder[l] \in Builds}]_vars

\* Whatever is quarantined, a profile or an incremental root, has been inactive
\* for its window at that moment, though it was planned long before; unless a
\* user deleted the profile since the recheck, or since its lock was opened,
\* and a build replaced it.
OnlyInactiveIsQuarantined ==
    [][\A p \in Profiles \ replaced :
          /\ Moved(p) => prof[p].idle /\ prof[p].root # "fresh"
          /\ Present(p) /\ Present(p)' => prof[p].itrash' \ prof[p].itrash \subseteq {"stale"}]_vars

\* A build that needs several profiles gets its locks, though sweeps keep
\* coming that take the same locks in the opposite order.
BuildsGetTheirLocks ==
    \A b \in Builds : build[b].at = "locking" ~> build[b].at = "building"

\* What an interrupted run left in the quarantine is removed by a later one,
\* once builds leave the target alone.
TrashIsRecovered ==
    <>[](\A b \in Builds : build[b].at = "idle") => []<>(trash = {})
=============================================================================
