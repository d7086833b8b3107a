------------------------ MODULE ProtectionRegistry ------------------------
(***************************************************************************)
(* The registry of expiring protections (src/src/protection.rs).           *)
(*                                                                         *)
(* Every client is one worktree-gc process executing one registry          *)
(* operation: an edit of the leases (add, renew, remove), a listing, a     *)
(* guarded filesystem mutation, or the migration guard, which keeps the    *)
(* registry locked across many mutations and rechecks before each.  The    *)
(* caller reads the wall clock BEFORE it queues for the lock, and decides  *)
(* with that reading after it got it.  A sweep of a manual cleanup holds   *)
(* the registry while it waits, without a timeout, for Cargo's builds.     *)
(*                                                                         *)
(* The file protections.json is the set `leases`.  It is replaced          *)
(* atomically and only under protections.lock, so one action reads,        *)
(* decides and writes.  A lease identifier is a hash of path, creation     *)
(* second and process, so a lease carries these three fields instead.      *)
(***************************************************************************)
EXTENDS Integers

CONSTANTS
    Clients,        \* worktree-gc processes
    NoClient,       \* nobody holds protections.lock
    Paths,          \* canonical directories
    Covers,         \* <<a, d>>: a is d or an ancestor of d
    Linkable,       \* leaf directories a user may swap for a symbolic link
    LinkTarget,     \* the directory these links resolve to
    GuardSets,      \* the path sets guarded operations are called with
    Targets,        \* the Cargo target directories among the paths
    Ttls,           \* lifetimes users ask for, in days (the clock's unit)
    MaxTtl,         \* MAX_PROTECTION_TTL_DAYS
    MaxClock        \* bound: the clock stops here

ASSUME ClientsAssumption == NoClient \notin Clients
ASSUME CoversAssumption  == Covers \subseteq Paths \X Paths
ASSUME LinksAssumption   == Linkable \subseteq Paths /\ LinkTarget \in Paths \ Linkable
ASSUME GuardsAssumption  == GuardSets \subseteq SUBSET Paths
ASSUME TargetsAssumption == Targets \subseteq Paths
ASSUME TtlsAssumption    == Ttls \subseteq Nat /\ MaxTtl \in Nat

VARIABLES
    clock,   \* wall clock
    leases,  \* contents of protections.json
    node,    \* what each path is on disk: "dir", "link" or "gone"
    lock,    \* exclusive holder of protections.lock
    shared,  \* its shared holders: migrations
    pc,      \* control point of each client
    req,     \* the request a client was started with
    checked  \* the resolved paths a guard has found unprotected

vars == <<clock, leases, node, lock, shared, pc, req, checked>>

Id     == [path : Paths, by : Clients, created : Nat]
Leases == [id : Id, expires : Nat]

Requests == [op : {"add", "renew", "remove", "list", "guard", "sweep", "migrate"},
             paths : SUBSET Paths, ids : SUBSET Id, ttl : Nat, now : Nat]

Idle == [op |-> "list", paths |-> {}, ids |-> {}, ttl |-> 0, now |-> 0]

----------------------------------------------------------------------------
(* What the operations compute. *)

\* Path::starts_with in one direction or the other: protections are recursive.
Related(p, q) == <<p, q>> \in Covers \/ <<q, p>> \in Covers

IsActive(l, now) == l.expires > now

Active(now) == {l \in leases : IsActive(l, now)}

\* A lease found beyond the cap makes every reader refuse the registry.
BeyondLimit(now) == \E l \in Active(now) : l.expires > now + MaxTtl

\* The root-to-leaf walk of read_active_protections_inner meets a link.
NotCanonical(now) ==
    \E l \in Active(now), a \in Paths : <<a, l.id.path>> \in Covers /\ node[a] = "link"

\* fs::canonicalize, which protection_for_path falls back from when it fails.
Resolve(p) == IF node[p] = "link" THEN LinkTarget ELSE p

\* Mutant: a lease below the path is forgotten.
ProtectedFromAboveOnly(l, ps) == \E p \in ps : <<l.id.path, Resolve(p)>> \in Covers

ProtectedBy(l, ps) == \E p \in ps : Related(Resolve(p), l.id.path)

\* find_lease: by identifier first, then by the canonical path.
Selected(r, l) ==
    \/ l.id \in r.ids
    \/ r.ids = {} /\ l.id.path \in {Resolve(p) : p \in r.paths}

\* Mutant: the upper bound on a lifetime is dropped.
NonZeroTtl(ttl) == ttl # 0

ValidTtl(ttl) == ttl # 0 /\ ttl <= MaxTtl

Expiry(now, ttl) == now + ttl

\* Mutant: a renewal overwrites a later expiry.
RenewedFromNow(l, now, ttl) == [l EXCEPT !.expires = Expiry(now, ttl)]

Renewed(l, now, ttl) ==
    [l EXCEPT !.expires = IF @ >= Expiry(now, ttl) THEN @ ELSE Expiry(now, ttl)]

\* Mutant: the search for a lease of the same path is skipped.
NeverTaken(path, now) == FALSE

Taken(path, now) == \E l \in Active(now) : l.id.path = path

----------------------------------------------------------------------------
Init ==
    /\ clock = 0
    /\ leases = {}
    /\ node = [p \in Paths |-> "dir"]
    /\ lock = NoClient
    /\ shared = {}
    /\ pc = [c \in Clients |-> "idle"]
    /\ req = [c \in Clients |-> Idle]
    /\ checked = [c \in Clients |-> {}]

(* A process starts: the request and SystemTime::now() are fixed here. *)
Start(c, r) ==
    /\ pc[c] = "idle"
    /\ req' = [req EXCEPT ![c] = r]
    /\ pc' = [pc EXCEPT ![c] = "waiting"]
    /\ UNCHANGED <<clock, leases, node, lock, shared, checked>>

Ask(c, op, ps, ids, ttl) ==
    Start(c, [op |-> op, paths |-> ps, ids |-> ids, ttl |-> ttl, now |-> clock])

StartAdd(c)     == \E p \in Paths, t \in Ttls : Ask(c, "add", {p}, {}, t)
StartRenew(c)   == \E t \in Ttls :
                       \/ \E p \in Paths : Ask(c, "renew", {p}, {}, t)
                       \/ \E l \in leases : Ask(c, "renew", {l.id.path}, {l.id}, t)
StartRemove(c)  == \/ \E p \in Paths : Ask(c, "remove", {p}, {}, 0)
                   \/ \E l \in leases : Ask(c, "remove", {l.id.path}, {l.id}, 0)
StartList(c)    == Ask(c, "list", {}, {}, 0)
StartGuard(c)   == \E ps \in GuardSets : Ask(c, "guard", ps, {}, 0)
StartSweep(c)   == \E p \in Targets : Ask(c, "sweep", {p}, {}, 0)
StartMigrate(c) == \E ps \in GuardSets : Ask(c, "migrate", ps, {}, 0)

(* with_registry_lock blocks until it is the only holder. *)
Acquire(c) ==
    /\ pc[c] = "waiting"
    /\ req[c].op # "migrate"
    /\ lock = NoClient
    /\ shared = {}
    /\ lock' = c
    /\ pc' = [pc EXCEPT ![c] = "locked"]
    /\ UNCHANGED <<clock, leases, node, shared, req, checked>>

(* MigrationProtectionGuard::acquire tries for a shared lock, once. *)
AcquireShared(c) ==
    /\ pc[c] = "waiting"
    /\ req[c].op = "migrate"
    /\ lock = NoClient
    /\ shared' = shared \cup {c}
    /\ pc' = [pc EXCEPT ![c] = "locked"]
    /\ UNCHANGED <<clock, leases, node, lock, req, checked>>

(* The operation is over, or its process dies: its descriptor is closed    *)
(* and the kernel drops the lock it held.                                  *)
Return(c) ==
    /\ pc' = [pc EXCEPT ![c] = "idle"]
    /\ req' = [req EXCEPT ![c] = Idle]
    /\ checked' = [checked EXCEPT ![c] = {}]
    /\ lock' = IF lock = c THEN NoClient ELSE lock
    /\ shared' = shared \ {c}

Locked(c, op) == pc[c] = "locked" /\ req[c].op = op

\* A guarded operation runs, or waits for a build to get on.
AtWork(c) == pc[c] \in {"mutating", "contended"}

\* Mutant: an early error return that leaves the lock behind.
RefuseLocked(c) ==
    /\ pc' = [pc EXCEPT ![c] = "idle"]
    /\ req' = [req EXCEPT ![c] = Idle]
    /\ UNCHANGED <<clock, leases, node, lock, shared, checked>>

Refuse(c) == Return(c) /\ UNCHANGED <<clock, leases, node>>

MigrationLockBusy(c) ==
    /\ pc[c] = "waiting"
    /\ req[c].op = "migrate"
    /\ lock # NoClient
    /\ Refuse(c)

Commit(c, ls) ==
    /\ leases' = ls
    /\ Return(c)
    /\ UNCHANGED <<clock, node>>

AddProtection(c) ==
    /\ Locked(c, "add")
    /\ LET r == req[c] IN \E p \in r.paths :
         LET path == Resolve(p)
             id   == [path |-> path, by |-> c, created |-> r.now]
         IN IF ~ValidTtl(r.ttl) \/ node[p] = "gone"
                \/ Taken(path, r.now)
            THEN Refuse(c)
            ELSE Commit(c, Active(r.now) \cup {[id |-> id, expires |-> Expiry(r.now, r.ttl)]})

RenewProtection(c) ==
    /\ Locked(c, "renew")
    /\ LET r == req[c]
           hits == {l \in Active(r.now) : Selected(r, l)}
       IN IF ~ValidTtl(r.ttl) \/ hits = {}
          THEN Refuse(c)
          ELSE \E l \in hits :
                 Commit(c, (Active(r.now) \ {l}) \cup {Renewed(l, r.now, r.ttl)})

RemoveProtection(c) ==
    /\ Locked(c, "remove")
    /\ LET r == req[c]
           hits == {l \in Active(r.now) : Selected(r, l)}
       IN IF hits = {}
          THEN Refuse(c)
          ELSE \E l \in hits : Commit(c, Active(r.now) \ {l})

(* read_active_protections refuses a registry it cannot trust. *)
Trusted(now) == ~BeyondLimit(now) /\ ~NotCanonical(now)

ListProtections(c) ==
    /\ Locked(c, "list")
    /\ IF Trusted(req[c].now) THEN Commit(c, Active(req[c].now)) ELSE Refuse(c)

(* The guarded operation may run: the lock is kept. *)
Permit(c) ==
    /\ checked' = [checked EXCEPT ![c] = {Resolve(p) : p \in req[c].paths}]
    /\ pc' = [pc EXCEPT ![c] = "mutating"]
    /\ UNCHANGED <<clock, node, lock, shared, req>>

(* with_protection_guards_at prunes, then decides. *)
GuardDecide(c) ==
    /\ Locked(c, "guard") \/ Locked(c, "sweep")
    /\ LET live == Active(req[c].now) IN
       IF ~Trusted(req[c].now) THEN Refuse(c)
       ELSE IF \E l \in live : ProtectedBy(l, req[c].paths)
       THEN Commit(c, live)
       ELSE leases' = live /\ Permit(c)

(* MigrationProtectionGuard::check: a fresh clock, nothing persisted. *)
MigrationCheck(c) ==
    /\ Locked(c, "migrate")
    /\ IF \/ ~Trusted(clock)
          \/ \E p \in req[c].paths, a \in Paths : <<a, p>> \in Covers /\ node[a] = "link"
          \/ \E l \in Active(clock) : ProtectedBy(l, req[c].paths)
       THEN Refuse(c)
       ELSE Permit(c) /\ UNCHANGED leases

(* The guarded operation deletes one of its paths and all below it; what a *)
(* sweep deletes lies in its path.                                         *)
MutatePath(c) ==
    /\ pc[c] = "mutating"
    /\ req[c].op # "sweep"
    /\ \E p \in req[c].paths :
         /\ node[p] # "gone"
         /\ node' = [q \in Paths |-> IF <<p, q>> \in Covers THEN "gone" ELSE node[q]]
    /\ UNCHANGED <<clock, leases, lock, shared, pc, req, checked>>

(* A sweep without cargo_lock_timeout finds that a build holds one of the  *)
(* locks it needs, and tries until it gets them, as often as there are     *)
(* locks to wait for or the set of profiles has changed meanwhile.         *)
Contend(c) ==
    /\ pc[c] = "mutating"
    /\ req[c].op = "sweep"
    /\ pc' = [pc EXCEPT ![c] = "contended"]
    /\ UNCHANGED <<clock, leases, node, lock, shared, req, checked>>

BuildLetsGo(c) ==
    /\ pc[c] = "contended"
    /\ pc' = [pc EXCEPT ![c] = "mutating"]
    /\ UNCHANGED <<clock, leases, node, lock, shared, req, checked>>

(* It ends, well or not: a wait for locks fails when their profile goes. *)
FinishMutation(c) ==
    /\ AtWork(c)
    /\ Return(c)
    /\ UNCHANGED <<clock, leases, node>>

(* The migration goes on to its next boundary, and checks again. *)
NextBoundary(c) ==
    /\ pc[c] = "mutating"
    /\ req[c].op = "migrate"
    /\ checked' = [checked EXCEPT ![c] = {}]
    /\ pc' = [pc EXCEPT ![c] = "locked"]
    /\ UNCHANGED <<clock, leases, node, lock, shared, req>>

Crash(c) ==
    /\ pc[c] # "idle"
    /\ Return(c)
    /\ UNCHANGED <<clock, leases, node>>

----------------------------------------------------------------------------
(* The world around the registry. *)

Tick ==
    /\ clock < MaxClock
    /\ clock' = clock + 1
    /\ UNCHANGED <<leases, node, lock, shared, pc, req, checked>>

\* A user recreates a path whose parents exist, or swaps a leaf for a link.
UserEdit(p) ==
    /\ \A a \in Paths : <<a, p>> \in Covers /\ a # p => node[a] = "dir"
    /\ \E kind \in {"dir"} \cup (IF p \in Linkable THEN {"link"} ELSE {}) :
         /\ node[p] # kind
         /\ node' = [node EXCEPT ![p] = kind]
    /\ UNCHANGED <<clock, leases, lock, shared, pc, req, checked>>

Begin(c) ==
    \/ StartAdd(c)   \/ StartRenew(c) \/ StartRemove(c) \/ StartList(c)
    \/ StartGuard(c) \/ StartSweep(c) \/ StartMigrate(c)

Work(c) ==
    \/ AddProtection(c)   \/ RenewProtection(c) \/ RemoveProtection(c)
    \/ ListProtections(c) \/ GuardDecide(c)     \/ MigrationCheck(c)
    \/ MigrationLockBusy(c)

Mutate(c) == MutatePath(c) \/ NextBoundary(c) \/ Contend(c) \/ BuildLetsGo(c)

Next ==
    \/ \E c \in Clients :
          Begin(c) \/ Acquire(c) \/ AcquireShared(c) \/ Work(c) \/ Mutate(c) \/ FinishMutation(c) \/ Crash(c)
    \/ \E p \in Paths : UserEdit(p)
    \/ Tick

Spec == Init /\ [][Next]_vars

(* Fairness: a holder runs on.  A guarded operation ends, except while it   *)
(* waits for a build without a timeout; a migration, whose batches are     *)
(* bounded, ends even if it could go on to another boundary.  Nothing is   *)
(* assumed of the builds, nor of the order in which the kernel grants the  *)
(* lock.                                                                   *)
FairSpec ==
    /\ Spec
    /\ \A c \in Clients :
          /\ WF_vars(Work(c))
          /\ WF_vars(pc[c] # "contended" /\ FinishMutation(c))
          /\ SF_vars(req[c].op = "migrate" /\ FinishMutation(c))

----------------------------------------------------------------------------
TypeOK ==
    /\ clock \in Nat
    /\ leases \subseteq Leases
    /\ node \in [Paths -> {"dir", "link", "gone"}]
    /\ lock \in Clients \cup {NoClient}
    /\ shared \subseteq Clients
    /\ pc \in [Clients -> {"idle", "waiting", "locked", "mutating", "contended"}]
    /\ req \in [Clients -> Requests]
    /\ checked \in [Clients -> SUBSET Paths]

\* While a guarded operation is at work, no lease that is in force by the wall
\* clock covers, or lies below, what its paths resolved to: the lock is held
\* from the check to the end, and a stale `now` only keeps more leases alive.
MutationsRespectLeases ==
    \A c \in Clients : AtWork(c) =>
        \A l \in Active(clock), p \in checked[c] : ~Related(p, l.id.path)

\* Whatever clients write, in whatever order, read_registry accepts: one
\* lease per path, and none that expires before it was created.
RegistryStaysReadable ==
    /\ \A l, m \in leases : l.id.path = m.id.path => l = m
    /\ \A l \in leases : l.id.created <= l.expires

\* No sequence of additions and renewals, however late they got the lock,
\* keeps a lease alive for more than MaxTtl from the present.
ForgottenLeasesExpire == \A l \in leases : l.expires <= clock + MaxTtl

\* A lease in force is lost or shortened only by an explicit removal that
\* selects it: never by an addition, a renewal or the pruning of a reader.
Kept(l) == \E m \in leases' : m.id = l.id /\ m.expires >= l.expires

RemovedBy(c, l) == Locked(c, "remove") /\ Selected(req[c], l)

ActiveLeasesSurvive ==
    [][\A l \in Active(clock) : Kept(l) \/ \E c \in Clients : RemovedBy(c, l)]_vars

\* Whoever gets the registry, exclusive or shared, lets it go whatever error
\* path its operation takes.  What keeps it from everybody else is a sweep of a
\* manual cleanup that stands before a build for ever, or time and again.
LockIsReleased ==
    \A c \in Clients : []<>((lock # c /\ c \notin shared) \/ pc[c] = "contended")
=============================================================================
