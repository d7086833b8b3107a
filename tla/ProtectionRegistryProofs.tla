---------------------- MODULE ProtectionRegistryProofs ----------------------
(* Type correctness, the three safety invariants and the action property   *)
(* of ProtectionRegistry, for any clients, paths, links, lifetimes and     *)
(* clock bound.                                                            *)
EXTENDS ProtectionRegistry, TLAPS

----------------------------------------------------------------------------
(* The inductive invariant.                                                *)

\* Whoever works on the registry holds protections.lock, a migration as one of
\* the shared holders and everybody else alone.
Holding ==
    /\ \A c \in Clients : pc[c] = "locked" \/ AtWork(c) =>
          IF req[c].op = "migrate" THEN c \in shared ELSE lock = c
    /\ lock # NoClient => shared = {}

\* The reading of the clock a client decides with is never in the future.
ReadInThePast == \A c \in Clients : req[c].now <= clock

IInv ==
    /\ TypeOK
    /\ Holding
    /\ ReadInThePast
    /\ MutationsRespectLeases
    /\ RegistryStaysReadable
    /\ ForgottenLeasesExpire

USE ClientsAssumption, CoversAssumption, LinksAssumption, GuardsAssumption, TargetsAssumption, TtlsAssumption

----------------------------------------------------------------------------
(* The operators the steps are built from. *)

\* Resolving a link stays within the directories of the model.
LEMMA ResolveType ==
    ASSUME TypeOK, NEW p \in Paths
    PROVE  Resolve(p) \in Paths
  BY DEF TypeOK, Resolve

\* A valid lifetime gives an expiry between the reading and the cap.
LEMMA ExpiryBounds ==
    ASSUME NEW now \in Nat, NEW ttl \in Nat, ValidTtl(ttl)
    PROVE  /\ Expiry(now, ttl) \in Nat
           /\ now <= Expiry(now, ttl)
           /\ Expiry(now, ttl) <= now + MaxTtl
  BY DEF ValidTtl, Expiry

\* A renewal changes nothing but the expiry, which it never brings forward.
LEMMA RenewedFacts ==
    ASSUME NEW l \in Leases, NEW now \in Nat, NEW ttl \in Nat, ValidTtl(ttl)
    PROVE  /\ Renewed(l, now, ttl) \in Leases
           /\ Renewed(l, now, ttl).id = l.id
           /\ Renewed(l, now, ttl).expires >= l.expires
           /\ \/ Renewed(l, now, ttl).expires = l.expires
              \/ Renewed(l, now, ttl).expires <= now + MaxTtl
  BY ExpiryBounds DEF Renewed, Leases

\* What is in force now was in force at any earlier reading.
LEMMA ActiveEarlier ==
    ASSUME TypeOK, NEW now \in Nat, now <= clock
    PROVE  Active(clock) \subseteq Active(now) /\ Active(now) \subseteq leases
  BY DEF TypeOK, Active, IsActive, Leases

----------------------------------------------------------------------------
(* The steps, by what they write. *)

\* Every request a client starts with is well formed and carries this moment.
LEMMA BeginStarts ==
    ASSUME TypeOK, NEW c \in Clients, Begin(c)
    PROVE  \E r \in Requests : r.now = clock /\ Start(c, r)
<1> DEFINE r(op, ps, ids, ttl) ==
              [op |-> op, paths |-> ps, ids |-> ids, ttl |-> ttl, now |-> clock]
<1>0. \A l \in leases : l.id \in Id /\ l.id.path \in Paths
  BY DEF TypeOK, Leases, Id
<1>1. CASE StartAdd(c)
  <2>1. PICK p \in Paths, t \in Ttls : Start(c, r("add", {p}, {}, t))
    BY <1>1 DEF StartAdd, Ask
  <2>2. r("add", {p}, {}, t) \in Requests  BY DEF Requests, TypeOK
  <2> QED  BY <2>1, <2>2
<1>2. CASE StartRenew(c)
  <2>1. PICK p \in Paths, ids \in SUBSET Id, t \in Ttls : Start(c, r("renew", {p}, ids, t))
    <3>1. CASE \E t \in Ttls, p \in Paths : Ask(c, "renew", {p}, {}, t)
      BY <3>1 DEF Ask
    <3>2. CASE \E t \in Ttls, l \in leases : Ask(c, "renew", {l.id.path}, {l.id}, t)
      <4>1. PICK t \in Ttls, l \in leases : Start(c, r("renew", {l.id.path}, {l.id}, t))
        BY <3>2 DEF Ask
      <4>2. l.id.path \in Paths /\ {l.id} \in SUBSET Id  BY <1>0
      <4> QED  BY <4>1, <4>2
    <3> QED  BY <1>2, <3>1, <3>2 DEF StartRenew
  <2>2. r("renew", {p}, ids, t) \in Requests  BY DEF Requests, TypeOK
  <2> QED  BY <2>1, <2>2
<1>3. CASE StartRemove(c)
  <2>1. PICK p \in Paths, ids \in SUBSET Id : Start(c, r("remove", {p}, ids, 0))
    <3>1. CASE \E p \in Paths : Ask(c, "remove", {p}, {}, 0)
      BY <3>1 DEF Ask
    <3>2. CASE \E l \in leases : Ask(c, "remove", {l.id.path}, {l.id}, 0)
      <4>1. PICK l \in leases : Start(c, r("remove", {l.id.path}, {l.id}, 0))
        BY <3>2 DEF Ask
      <4>2. l.id.path \in Paths /\ {l.id} \in SUBSET Id  BY <1>0
      <4> QED  BY <4>1, <4>2
    <3> QED  BY <1>3, <3>1, <3>2 DEF StartRemove
  <2>2. r("remove", {p}, ids, 0) \in Requests  BY DEF Requests, TypeOK
  <2> QED  BY <2>1, <2>2
<1>4. CASE StartList(c)
  <2>1. r("list", {}, {}, 0) \in Requests  BY DEF Requests, TypeOK
  <2> QED  BY <1>4, <2>1 DEF StartList, Ask
<1>5. CASE StartGuard(c)
  <2>1. PICK ps \in GuardSets : Start(c, r("guard", ps, {}, 0))
    BY <1>5 DEF StartGuard, Ask
  <2>2. r("guard", ps, {}, 0) \in Requests  BY DEF Requests, TypeOK
  <2> QED  BY <2>1, <2>2
<1>6. CASE StartMigrate(c)
  <2>1. PICK ps \in GuardSets : Start(c, r("migrate", ps, {}, 0))
    BY <1>6 DEF StartMigrate, Ask
  <2>2. r("migrate", ps, {}, 0) \in Requests  BY DEF Requests, TypeOK
  <2> QED  BY <2>1, <2>2
<1>7. CASE StartSweep(c)
  <2>1. PICK p \in Targets : Start(c, r("sweep", {p}, {}, 0))
    BY <1>7 DEF StartSweep, Ask
  <2>2. r("sweep", {p}, {}, 0) \in Requests  BY DEF Requests, TypeOK
  <2> QED  BY <2>1, <2>2
<1> QED  BY <1>1, <1>2, <1>3, <1>4, <1>5, <1>6, <1>7 DEF Begin

\* What a set of leases must satisfy for the registry to hold it.
Sound(ls) ==
    /\ ls \subseteq Leases
    /\ \A l, m \in ls : l.id.path = m.id.path => l = m
    /\ \A l \in ls : l.id.created <= l.expires
    /\ \A l \in ls : l.expires <= clock + MaxTtl

\* Nothing a guard was asked about is protected.
Unprotected(c, now) == ~ \E l \in Active(now) : ProtectedBy(l, req[c].paths)

\* Dropping leases keeps a registry sound.
LEMMA SoundSubset ==
    ASSUME NEW ls, NEW ks \in SUBSET ls, Sound(ls)
    PROVE  Sound(ks)
  BY DEF Sound

\* What the file holds is sound.
LEMMA LeasesAreSound ==
    ASSUME IInv
    PROVE  Sound(leases)
  BY DEF IInv, TypeOK, RegistryStaysReadable, ForgottenLeasesExpire, Sound

\* The fields of a request have their types.
LEMMA RequestTypes ==
    ASSUME TypeOK, NEW c \in Clients
    PROVE  /\ req[c] \in Requests
           /\ req[c].now \in Nat /\ req[c].ttl \in Nat
           /\ req[c].paths \subseteq Paths /\ req[c].ids \subseteq Id
  BY DEF TypeOK, Requests

\* An addition keeps one lease per path, with an expiry within the cap.
LEMMA AddWrites ==
    ASSUME IInv, NEW c \in Clients, AddProtection(c)
    PROVE  Refuse(c) \/ \E ls : Sound(ls) /\ Commit(c, ls)
<1> DEFINE now == req[c].now
           ttl == req[c].ttl
           id(p) == [path |-> Resolve(p), by |-> c, created |-> now]
           new(p) == [id |-> id(p), expires |-> Expiry(now, ttl)]
<1>1. TypeOK /\ now \in Nat /\ ttl \in Nat /\ now <= clock /\ req[c].paths \subseteq Paths
  BY RequestTypes DEF IInv, ReadInThePast
<1>2. PICK p \in req[c].paths :
         \/ Refuse(c)
         \/ /\ ValidTtl(ttl) /\ ~Taken(Resolve(p), now)
            /\ Commit(c, Active(now) \cup {new(p)})
  BY DEF AddProtection
<1>3. SUFFICES ASSUME ValidTtl(ttl), ~Taken(Resolve(p), now)
               PROVE  Sound(Active(now) \cup {new(p)})
  BY <1>2
<1>4. Sound(Active(now))
  BY <1>1, LeasesAreSound, ActiveEarlier, SoundSubset
<1>5. new(p) \in Leases /\ now <= new(p).expires /\ new(p).expires <= clock + MaxTtl
  <2>1. Resolve(p) \in Paths  BY <1>1, ResolveType
  <2>2. clock \in Nat  BY <1>1 DEF TypeOK
  <2> QED  BY <1>1, <1>3, <2>1, <2>2, ExpiryBounds DEF Leases, Id
<1>6. \A l \in Active(now) : l.id.path # new(p).id.path
  BY <1>3 DEF Taken
<1> QED  BY <1>4, <1>5, <1>6 DEF Sound

\* A renewal replaces one lease by one of the same identifier.
LEMMA RenewWrites ==
    ASSUME IInv, NEW c \in Clients, RenewProtection(c)
    PROVE  Refuse(c) \/ \E ls : Sound(ls) /\ Commit(c, ls)
<1> DEFINE now == req[c].now
           ttl == req[c].ttl
           rest(l) == Active(now) \ {l}
<1>1. TypeOK /\ now \in Nat /\ ttl \in Nat /\ now <= clock
  BY RequestTypes DEF IInv, ReadInThePast
<1>2. SUFFICES ASSUME ValidTtl(ttl), NEW l \in Active(now)
               PROVE  Sound(rest(l) \cup {Renewed(l, now, ttl)})
  BY DEF RenewProtection
<1>3. Sound(Active(now))
  BY <1>1, LeasesAreSound, ActiveEarlier, SoundSubset
<1>4. Sound(rest(l))  BY <1>3, SoundSubset
<1>5. l \in Leases /\ l.expires \in Nat /\ clock \in Nat /\ l.id.created \in Nat
  BY <1>1, <1>3 DEF Sound, TypeOK, Leases, Id
<1>6. /\ Renewed(l, now, ttl) \in Leases
      /\ Renewed(l, now, ttl).id = l.id
      /\ Renewed(l, now, ttl).expires \in Nat
      /\ l.id.created <= Renewed(l, now, ttl).expires
      /\ Renewed(l, now, ttl).expires <= clock + MaxTtl
  <2>1. l.id.created <= l.expires /\ l.expires <= clock + MaxTtl  BY <1>3 DEF Sound
  <2>2. Renewed(l, now, ttl) \in Leases  BY <1>1, <1>2, <1>5, RenewedFacts
  <2>3. Renewed(l, now, ttl).expires \in Nat  BY <2>2 DEF Leases
  <2>4. /\ Renewed(l, now, ttl).id = l.id
        /\ Renewed(l, now, ttl).expires >= l.expires
        /\ \/ Renewed(l, now, ttl).expires = l.expires
           \/ Renewed(l, now, ttl).expires <= now + MaxTtl
    BY <1>1, <1>2, <1>5, RenewedFacts
  <2> HIDE DEF now, ttl
  <2> QED  BY <1>1, <1>5, <2>1, <2>2, <2>3, <2>4
<1>7. \A m \in rest(l) : m.id.path # l.id.path
  BY <1>3 DEF Sound
<1> QED  BY <1>4, <1>6, <1>7 DEF Sound

\* What a client does with the registry in its hands: it gives up, replaces
\* the leases, or permits a mutation of paths no lease protects.
LEMMA WorkWrites ==
    ASSUME IInv, NEW c \in Clients, Work(c)
    PROVE  \/ Refuse(c)
           \/ /\ pc[c] = "locked" /\ req[c].op # "migrate"
              /\ \E ls : Sound(ls) /\ Commit(c, ls)
           \/ /\ Locked(c, "guard") \/ Locked(c, "sweep")
              /\ Unprotected(c, req[c].now)
              /\ leases' = Active(req[c].now) /\ Permit(c)
           \/ /\ Locked(c, "migrate") /\ Unprotected(c, clock)
              /\ UNCHANGED leases /\ Permit(c)
<1>1. Sound(Active(req[c].now)) /\ \A l : Sound(Active(req[c].now) \ {l})
  <2>1. Active(req[c].now) \subseteq leases
    BY DEF Active
  <2> QED  BY <2>1, LeasesAreSound, SoundSubset
<1>2. CASE AddProtection(c)  BY <1>2, AddWrites DEF AddProtection, Locked
<1>3. CASE RenewProtection(c)  BY <1>3, RenewWrites DEF RenewProtection, Locked
<1>4. CASE RemoveProtection(c)  BY <1>1, <1>4 DEF RemoveProtection, Locked
<1>5. CASE ListProtections(c)  BY <1>1, <1>5 DEF ListProtections, Locked
<1>6. CASE GuardDecide(c)  BY <1>1, <1>6 DEF GuardDecide, Locked, Unprotected
<1>7. CASE MigrationCheck(c)  BY <1>7 DEF MigrationCheck, Unprotected
<1>8. CASE MigrationLockBusy(c)  BY <1>8 DEF MigrationLockBusy
<1> QED  BY <1>2, <1>3, <1>4, <1>5, <1>6, <1>7, <1>8 DEF Work

----------------------------------------------------------------------------
(* The invariant. *)

\* Nobody else is mutating when a client holds the registry exclusively.
LEMMA ExclusiveIsAlone ==
    ASSUME IInv, NEW c \in Clients, pc[c] = "locked", req[c].op # "migrate"
    PROVE  \A d \in Clients : ~AtWork(d)
  BY DEF AtWork, IInv, Holding, TypeOK

\* With no registry file and everybody idle, the invariant holds.
LEMMA InitIInv == Init => IInv
<1> SUFFICES ASSUME Init PROVE IInv
  OBVIOUS
<1>1. TypeOK
  BY DEF Init, TypeOK, Idle, Requests
<1> QED
  BY <1>1 DEF Init, IInv, Idle, Holding, ReadInThePast, MutationsRespectLeases, AtWork,
              RegistryStaysReadable, ForgottenLeasesExpire

\* A client that returns lets go of everything; the leases it leaves are sound
\* and, if they changed, nobody is mutating.
LEMMA ReturnIInv ==
    ASSUME IInv, NEW c \in Clients, Return(c), UNCHANGED <<clock, node>>,
           \/ UNCHANGED leases
           \/ Sound(leases') /\ \A d \in Clients : ~AtWork(d)
    PROVE  IInv'
<1>1. TypeOK'
  BY DEF IInv, Return, TypeOK, Idle, Requests, Sound
<1>2. Holding'
  BY DEF IInv, Return, TypeOK, Holding, AtWork
<1>3. ReadInThePast'
  BY DEF IInv, Return, TypeOK, ReadInThePast, Idle
<1>4. MutationsRespectLeases'
  BY DEF IInv, Return, TypeOK, MutationsRespectLeases, AtWork, Active
<1>5. RegistryStaysReadable' /\ ForgottenLeasesExpire'
  BY DEF IInv, Sound, RegistryStaysReadable, ForgottenLeasesExpire
<1> QED
  BY <1>1, <1>2, <1>3, <1>4, <1>5 DEF IInv

\* A permit is given only for paths that no lease protects.
LEMMA PermitIInv ==
    ASSUME IInv, NEW c \in Clients, pc[c] = "locked", Permit(c),
           NEW now \in Nat, now <= clock, Unprotected(c, now),
           \/ UNCHANGED leases
           \/ leases' \subseteq leases /\ req[c].op # "migrate"
    PROVE  IInv'
<1>1. TypeOK'
  <2>1. {Resolve(p) : p \in req[c].paths} \in SUBSET Paths
    BY RequestTypes, ResolveType DEF IInv
  <2>2. [checked EXCEPT ![c] = {Resolve(p) : p \in req[c].paths}] \in [Clients -> SUBSET Paths]
    BY <2>1 DEF IInv, TypeOK
  <2> QED  BY <2>2 DEF IInv, Permit, TypeOK
<1>2. Holding' /\ ReadInThePast'
  BY DEF IInv, Permit, TypeOK, Holding, AtWork, ReadInThePast
<1>3. MutationsRespectLeases'
  <2>1. SUFFICES ASSUME NEW d \in Clients, AtWork(d)',
                        NEW l \in Active(clock)', NEW p \in checked'[d]
                 PROVE  ~Related(p, l.id.path)
    BY DEF MutationsRespectLeases, AtWork, Related
  <2>2. l \in Active(clock)
    BY <2>1 DEF Permit, Active
  <2>3. CASE d = c
    <3>1. l \in Active(now)  BY <2>2, ActiveEarlier DEF IInv
    <3>2. PICK q \in req[c].paths : p = Resolve(q)
      BY <2>1, <2>3 DEF Permit, IInv, TypeOK
    <3> QED  BY <3>1, <3>2 DEF Unprotected, ProtectedBy
  <2>4. CASE d # c
    BY <2>1, <2>2, <2>4 DEF Permit, IInv, TypeOK, MutationsRespectLeases, AtWork
  <2> QED  BY <2>3, <2>4
<1>4. RegistryStaysReadable' /\ ForgottenLeasesExpire'
  BY DEF IInv, Permit, RegistryStaysReadable, ForgottenLeasesExpire
<1> QED
  BY <1>1, <1>2, <1>3, <1>4 DEF IInv

\* Whatever the holder of the registry does, the invariant is kept.
LEMMA WorkIInv ==
    ASSUME IInv, NEW c \in Clients, Work(c)
    PROVE  IInv'
<1>1. CASE Refuse(c)
  BY <1>1, ReturnIInv DEF Refuse
<1>2. CASE /\ pc[c] = "locked" /\ req[c].op # "migrate"
           /\ \E ls : Sound(ls) /\ Commit(c, ls)
  <2>1. PICK ls : Sound(ls) /\ Commit(c, ls)  BY <1>2
  <2>2. Sound(leases')  BY <2>1 DEF Commit
  <2> QED  BY <1>2, <2>1, <2>2, ExclusiveIsAlone, ReturnIInv DEF Commit
<1>3. CASE /\ Locked(c, "guard") \/ Locked(c, "sweep")
           /\ Unprotected(c, req[c].now)
           /\ leases' = Active(req[c].now) /\ Permit(c)
  <2>1. req[c].now \in Nat /\ req[c].now <= clock
    BY RequestTypes DEF IInv, ReadInThePast
  <2>2. leases' \subseteq leases  BY <1>3 DEF Active
  <2> QED  BY <1>3, <2>1, <2>2, PermitIInv DEF Locked
<1>4. CASE /\ Locked(c, "migrate") /\ Unprotected(c, clock)
           /\ UNCHANGED leases /\ Permit(c)
  <2>1. clock \in Nat /\ clock <= clock  BY DEF IInv, TypeOK
  <2> QED  BY <1>4, <2>1, PermitIInv DEF Locked
<1> QED
  BY <1>1, <1>2, <1>3, <1>4, WorkWrites

\* The other steps leave the leases alone; what they change of the locks, the
\* clock and the directories takes nothing away from the invariant.
LEMMA OtherIInv ==
    ASSUME IInv,
           \/ \E c \in Clients : \/ \E r \in Requests : r.now = clock /\ Start(c, r)
                                 \/ Acquire(c) \/ AcquireShared(c)
                                 \/ Mutate(c)
           \/ \E p \in Paths : UserEdit(p)
           \/ Tick
           \/ UNCHANGED vars
    PROVE  IInv'
<1>1. UNCHANGED leases
  BY DEF Start, Acquire, AcquireShared, Mutate, MutatePath, NextBoundary, Contend,
         BuildLetsGo, UserEdit, Tick, vars
<1>2. clock' \in Nat /\ clock <= clock'
  BY DEF Start, Acquire, AcquireShared, Mutate, MutatePath, NextBoundary, Contend,
         BuildLetsGo, UserEdit, Tick, vars,
         IInv, TypeOK
<1>3. CASE \E c \in Clients, r \in Requests : r.now = clock /\ Start(c, r)
  <2> PICK c \in Clients, r \in Requests : r.now = clock /\ Start(c, r)  BY <1>3
  <2>1. TypeOK'  BY DEF IInv, TypeOK, Start
  <2>2. Holding'  BY DEF IInv, TypeOK, Start, Holding, AtWork
  <2>3. ReadInThePast'  BY DEF IInv, TypeOK, Start, ReadInThePast
  <2>4. MutationsRespectLeases'
    BY DEF IInv, TypeOK, Start, MutationsRespectLeases, AtWork, Active
  <2>5. RegistryStaysReadable' /\ ForgottenLeasesExpire'
    BY DEF IInv, Start, RegistryStaysReadable, ForgottenLeasesExpire
  <2> QED  BY <2>1, <2>2, <2>3, <2>4, <2>5 DEF IInv
<1>4. CASE \E c \in Clients : Acquire(c) \/ AcquireShared(c)
  <2> PICK c \in Clients : Acquire(c) \/ AcquireShared(c)  BY <1>4
  <2>1. TypeOK'  BY DEF IInv, TypeOK, Acquire, AcquireShared
  <2>2. Holding'  BY DEF IInv, TypeOK, Acquire, AcquireShared, Holding, AtWork
  <2>3. ReadInThePast'  BY DEF IInv, TypeOK, Acquire, AcquireShared, ReadInThePast
  <2>4. MutationsRespectLeases'
    BY DEF IInv, TypeOK, Acquire, AcquireShared, MutationsRespectLeases, AtWork, Active
  <2>5. RegistryStaysReadable' /\ ForgottenLeasesExpire'
    BY DEF IInv, Acquire, AcquireShared, RegistryStaysReadable, ForgottenLeasesExpire
  <2> QED  BY <2>1, <2>2, <2>3, <2>4, <2>5 DEF IInv
<1>5. CASE \E c \in Clients : NextBoundary(c)
  <2> PICK c \in Clients : NextBoundary(c)  BY <1>5
  <2>1. TypeOK'  BY DEF IInv, TypeOK, NextBoundary
  <2>2. Holding' /\ ReadInThePast'
    BY DEF IInv, TypeOK, NextBoundary, Holding, AtWork, ReadInThePast
  <2>3. MutationsRespectLeases'
    BY DEF IInv, TypeOK, NextBoundary, MutationsRespectLeases, AtWork, Active
  <2>4. RegistryStaysReadable' /\ ForgottenLeasesExpire'
    BY DEF IInv, NextBoundary, RegistryStaysReadable, ForgottenLeasesExpire
  <2> QED  BY <2>1, <2>2, <2>3, <2>4 DEF IInv
<1>6. CASE \E c \in Clients : Contend(c) \/ BuildLetsGo(c)
  <2> PICK c \in Clients : Contend(c) \/ BuildLetsGo(c)  BY <1>6
  <2>1. TypeOK'  BY DEF IInv, TypeOK, Contend, BuildLetsGo
  <2>2. Holding' /\ ReadInThePast'
    BY DEF IInv, TypeOK, Contend, BuildLetsGo, Holding, ReadInThePast, AtWork
  <2>3. MutationsRespectLeases'
    BY DEF IInv, TypeOK, Contend, BuildLetsGo, MutationsRespectLeases, Active, AtWork
  <2>4. RegistryStaysReadable' /\ ForgottenLeasesExpire'
    BY DEF IInv, Contend, BuildLetsGo, RegistryStaysReadable, ForgottenLeasesExpire
  <2> QED  BY <2>1, <2>2, <2>3, <2>4 DEF IInv
<1>7. CASE \/ \E c \in Clients : MutatePath(c)
           \/ \E p \in Paths : UserEdit(p)
           \/ Tick
           \/ UNCHANGED vars
  <2>1. UNCHANGED <<lock, shared, pc, req, checked>>
    BY <1>7 DEF MutatePath, UserEdit, Tick, vars
  <2>2. node' \in [Paths -> {"dir", "link", "gone"}]
    BY <1>7 DEF IInv, TypeOK, MutatePath, UserEdit, Tick, vars
  <2>3. TypeOK'  BY <1>1, <1>2, <2>1, <2>2 DEF IInv, TypeOK
  <2>4. Holding'  BY <2>1 DEF IInv, Holding, AtWork
  <2>5. ReadInThePast'
    BY <1>2, <2>1, RequestTypes DEF IInv, TypeOK, ReadInThePast
  <2>6. Active(clock)' \subseteq Active(clock)
    BY <1>1, <1>2 DEF IInv, TypeOK, Active, IsActive, Leases
  <2>7. MutationsRespectLeases'
    BY <2>1, <2>6 DEF IInv, MutationsRespectLeases, AtWork
  <2>8. RegistryStaysReadable' /\ ForgottenLeasesExpire'
    BY <1>1, <1>2 DEF IInv, TypeOK, Leases, RegistryStaysReadable, ForgottenLeasesExpire
  <2> QED  BY <2>3, <2>4, <2>5, <2>7, <2>8 DEF IInv
<1> QED
  BY <1>3, <1>4, <1>5, <1>6, <1>7 DEF Mutate

\* Every step keeps the invariant.
LEMMA NextIInv == IInv /\ [Next]_vars => IInv'
<1> SUFFICES ASSUME IInv, [Next]_vars PROVE IInv'
  OBVIOUS
<1>1. ASSUME NEW c \in Clients, Begin(c) PROVE IInv'
  BY <1>1, BeginStarts, OtherIInv DEF IInv
<1>2. ASSUME NEW c \in Clients, Work(c) PROVE IInv'
  BY <1>2, WorkIInv
<1>3. ASSUME NEW c \in Clients, FinishMutation(c) \/ Crash(c) PROVE IInv'
  BY <1>3, ReturnIInv DEF FinishMutation, Crash
<1>4. CASE \/ \E c \in Clients : Acquire(c) \/ AcquireShared(c) \/ Mutate(c)
           \/ \E p \in Paths : UserEdit(p)
           \/ Tick
           \/ UNCHANGED vars
  BY <1>4, OtherIInv
<1> QED
  BY <1>1, <1>2, <1>3, <1>4 DEF Next

\* The inductive invariant holds throughout.
THEOREM Invariance == Spec => []IInv
<1>1. Init => IInv  BY InitIInv
<1>2. IInv /\ [Next]_vars => IInv'  BY NextIInv
<1> QED  BY <1>1, <1>2, PTL DEF Spec

\* The registry and the requests stay well formed.
THEOREM TypeCorrect == Spec => []TypeOK
<1>1. IInv => TypeOK  BY DEF IInv
<1> QED  BY <1>1, Invariance, PTL

\* No guarded operation, of a cleanup or of a migration, works on a path that a
\* lease in force covers or lies below, however long it waited for the lock.
THEOREM MutationSafety == Spec => []MutationsRespectLeases
<1>1. IInv => MutationsRespectLeases  BY DEF IInv
<1> QED  BY <1>1, Invariance, PTL

\* Every registry the clients write is one that read_registry accepts.
THEOREM Readability == Spec => []RegistryStaysReadable
<1>1. IInv => RegistryStaysReadable  BY DEF IInv
<1> QED  BY <1>1, Invariance, PTL

\* A lease nobody renews is over after MaxTtl days, whenever it was granted.
THEOREM Expiration == Spec => []ForgottenLeasesExpire
<1>1. IInv => ForgottenLeasesExpire  BY DEF IInv
<1> QED  BY <1>1, Invariance, PTL

----------------------------------------------------------------------------
(* The action property. *)

\* A lease that stays in the file is kept.
LEMMA StayingIsKept ==
    ASSUME TypeOK, NEW l \in leases, l \in leases'
    PROVE  Kept(l)
<1>1. l.expires >= l.expires  BY DEF TypeOK, Leases
<1> QED  BY <1>1 DEF Kept

\* Every step keeps a lease in force, or is a removal that selects it.
LEMMA StepKeeps ==
    ASSUME IInv, [Next]_vars, NEW l \in Active(clock)
    PROVE  Kept(l) \/ \E c \in Clients : RemovedBy(c, l)
<1>1. TypeOK /\ l \in leases
  BY DEF IInv, Active
<1>2. CASE UNCHANGED leases
  BY <1>1, <1>2, StayingIsKept
<1>3. ASSUME NEW c \in Clients, Work(c), ~UNCHANGED leases
      PROVE  Kept(l) \/ RemovedBy(c, l)
  <2>1. req[c].now \in Nat /\ req[c].ttl \in Nat /\ l \in Active(req[c].now)
    BY <1>1, RequestTypes, ActiveEarlier DEF IInv, ReadInThePast
  <2>2. CASE AddProtection(c)
    <3>1. l \in leases'  BY <1>3, <2>1, <2>2 DEF AddProtection, Refuse, Commit
    <3> QED  BY <1>1, <3>1, StayingIsKept
  <2>3. CASE RenewProtection(c)
    <3> DEFINE new(m) == Renewed(m, req[c].now, req[c].ttl)
    <3>1. PICK m \in Active(req[c].now) :
             /\ ValidTtl(req[c].ttl)
             /\ leases' = (Active(req[c].now) \ {m}) \cup {new(m)}
      BY <1>3, <2>3 DEF RenewProtection, Refuse, Commit
    <3>2. CASE l = m
      <4>1. l \in Leases  BY <1>1 DEF TypeOK
      <4>2. new(l).id = l.id /\ new(l).expires >= l.expires
        BY <2>1, <3>1, <4>1, RenewedFacts
      <4>3. new(l) \in leases'  BY <3>1, <3>2
      <4> HIDE DEF new
      <4> QED  BY <4>2, <4>3 DEF Kept
    <3>3. CASE l # m
      <4>1. l \in leases'  BY <2>1, <3>1, <3>3
      <4> QED  BY <1>1, <4>1, StayingIsKept
    <3> QED  BY <3>2, <3>3
  <2>4. CASE RemoveProtection(c)
    <3>1. PICK m \in Active(req[c].now) :
             Selected(req[c], m) /\ leases' = Active(req[c].now) \ {m}
      BY <1>3, <2>4 DEF RemoveProtection, Refuse, Commit
    <3>2. CASE l = m
      BY <2>4, <3>1, <3>2 DEF RemoveProtection, RemovedBy
    <3>3. CASE l # m
      <4>1. l \in leases'  BY <2>1, <3>1, <3>3
      <4> QED  BY <1>1, <4>1, StayingIsKept
    <3> QED  BY <3>2, <3>3
  <2>5. CASE ListProtections(c) \/ GuardDecide(c)
    <3>1. l \in leases'
      BY <1>3, <2>1, <2>5 DEF ListProtections, GuardDecide, Refuse, Commit
    <3> QED  BY <1>1, <3>1, StayingIsKept
  <2>6. CASE MigrationCheck(c) \/ MigrationLockBusy(c)
    BY <1>3, <2>6 DEF MigrationCheck, MigrationLockBusy, Refuse
  <2> QED  BY <1>3, <2>2, <2>3, <2>4, <2>5, <2>6 DEF Work
<1>4. ASSUME NEW c \in Clients, Begin(c) PROVE UNCHANGED leases
  BY <1>1, <1>4, BeginStarts DEF Start
<1>5. UNCHANGED leases \/ \E c \in Clients : Work(c)
  BY <1>4 DEF Next, vars, Acquire, AcquireShared, Mutate, MutatePath, NextBoundary,
              Contend, BuildLetsGo,
              FinishMutation, Crash, UserEdit, Tick
<1> QED
  BY <1>2, <1>3, <1>5

\* A lease in force is never lost or shortened but by a removal that selects it.
THEOREM Survival == Spec => ActiveLeasesSurvive
<1>1. IInv /\ [Next]_vars =>
        [\A l \in Active(clock) : Kept(l) \/ \E c \in Clients : RemovedBy(c, l)]_vars
  BY StepKeeps
<1> QED  BY <1>1, Invariance, PTL DEF Spec, ActiveLeasesSurvive
=============================================================================
