-------------------------- MODULE CargoSweepsProofs --------------------------
(***************************************************************************)
(* That the sweeps of a Cargo target take only what has been inactive, and *)
(* no profile a build holds the lock of, for any profiles and builds,      *)
(* unless a user deletes a profile under the sweep's eyes.                 *)
(*                                                                         *)
(* The argument is about three pairs.  A build beside its profile: a build *)
(* opens a lock by path and keeps the inode, so a profile with a build in  *)
(* it that is still idle, or has a stale root, has the very lock that      *)
(* build waits for (WaitHere).  The run beside a profile: from the second  *)
(* look to the last rename it holds the lock of every idle profile of its  *)
(* list, unless that lock was created, and therefore opened, since the     *)
(* profiles were listed (HeldIsLocked); those the second look sees as      *)
(* owned and leaves alone (TodoIsLocked).  While it sweeps the root of one *)
(* profile it holds that profile's lock (GroupIsOpen).  The run beside a   *)
(* build: only one of them holds a lock, so none of these profiles is      *)
(* written to before it is renamed.  A deletion breaks the second pair for *)
(* that profile only, and `replaced` remembers it.                         *)
(***************************************************************************)
EXTENDS CargoSweeps, WellFoundedInduction, TLAPS

\* What the run may have planned.
PlanType == plan \in [roots : SUBSET Profiles, recover : SUBSET Profiles,
                     reset : SUBSET Profiles, trash : SUBSET (Locks \cup {0})]

\* Every variable the argument is about has values of its kind.
TypeInv ==
    /\ prof \in [Profiles -> Profile \cup {Missing}]
    /\ trash \subseteq Profile
    /\ holder \in [Locks -> Builds \cup {"sweep", Nobody}]
    /\ build \in [Builds -> [at : {"idle", "locking", "building"},
                             want : SUBSET Profiles,
                             fds : [Profiles -> Locks \cup {0}]]]
    /\ PlanType
    /\ todo \subseteq Profiles
    /\ fd \in Locks \cup {0}

\* A profile or its root has aged since a build wrote to it.
Old(p) == prof[p].idle \/ prof[p].root = "stale"

\* A lock file is in one profile at most,
OneLock ==
    \A p, q \in Profiles : Present(p) /\ Present(q) /\ prof[p].lock # 0 /\ p # q
        => prof[p].lock # prof[q].lock
\* and is opened only by builds that want the profile it is in.
OpenedThere ==
    \A b \in Builds : \A q \in build[b].want : \A p \in Profiles :
        Present(p) /\ prof[p].lock # 0 /\ build[b].fds[q] = prof[p].lock => q = p

\* A profile that builds wait in, or write to, is old only if they have opened
\* the lock that is in it now.
WaitHere ==
    \A b \in Builds : \A p \in build[b].want :
        Present(p) /\ Old(p) /\ build[b].fds[p] # 0 => build[b].fds[p] = prof[p].lock

\* A profile that is being built has been written to.
BusyAtWork ==
    \A b \in Builds : \A p \in build[b].want :
        build[b].at = "building" /\ Present(p) => ~Old(p)

\* A build that rests has opened nothing.
AtRest == \A b \in Builds : build[b].at = "idle" => build[b].want = {}

\* An inactive profile has no fresh root.
IdleIsStale == \A p \in Profiles : Present(p) /\ prof[p].idle => prof[p].root # "fresh"

\* Only profiles that are compiled incrementally have a root.
RootsThere == \A p \in Profiles : Present(p) /\ prof[p].root # "none" => p \in Incremental

\* With all locks held, the run has that of every idle profile, unless another
\* process has it open; while it takes them, of every profile it got.
HeldIsLocked ==
    \A p \in Profiles : (pc = "held" \/ (pc = "locking" /\ p \in got)) =>
        (Present(p) /\ prof[p].idle /\ prof[p].lock # 0
            => holder[prof[p].lock] = "sweep" \/ prof[p].lock \in Opened)

\* What is about to be quarantined is inactive, and the run has its lock, if it
\* is still what the run rechecked.
TodoIsLocked ==
    pc = "quarantining" => \A p \in todo \ replaced :
        Present(p) /\ prof[p].idle /\ prof[p].lock # 0 /\ holder[prof[p].lock] = "sweep"

Current == First(Groups)

\* The incremental sweep waits for, and then holds, the lock of the profile it
\* works on, if that is still the one it opened; the root it saw is stale still.
GroupIsOpen ==
    pc \in {"waiting", "locked", "root checked"} =>
        /\ fd # 0 /\ Groups # {}
        /\ pc # "waiting" => holder[fd] = "sweep"
        /\ Current \notin replaced =>
             /\ Present(Current) /\ prof[Current].lock = fd
             /\ pc = "root checked" => prof[Current].root = "stale"

\* The inductive invariant.
SweepInv ==
    /\ TypeInv /\ OneLock /\ OpenedThere /\ WaitHere /\ BusyAtWork /\ AtRest
    /\ IdleIsStale /\ RootsThere
    /\ HeldIsLocked /\ TodoIsLocked /\ GroupIsOpen

----------------------------------------------------------------------------
(* A non-empty set of numbers has a least element, and one of locks also a *)
(* greatest, so that First, Last and NewLock choose a member of their set. *)
LEMMA LeastExists ==
    ASSUME NEW S, S \subseteq Nat, S # {}
    PROVE  \E x \in S : \A y \in S : x <= y
<1>1. PICK x \in S : \A y \in S : ~(<<y, x>> \in OpToRel(<, Nat))
    BY WFMin, NatLessThanWellFounded, Zenon
<1>2. \A y \in S : ~(y < x)
    BY <1>1, Zenon DEF OpToRel
<1> QED
    BY <1>2

(* The greatest lock is the one nearest to the bound.                      *)
LEMMA GreatestExists ==
    ASSUME NEW S, S \subseteq Locks, S # {}
    PROVE  \E x \in S : \A y \in S : y <= x
<1> DEFINE T == {MaxLock - x : x \in S}
<1>0. \A x \in S : x \in Nat /\ x <= MaxLock /\ MaxLock - x \in Nat
    BY BoundsAssumption DEF Locks
<1>1. T \subseteq Nat /\ T # {}
  <2>1. T \subseteq Nat
      BY <1>0
  <2>2. PICK x \in S : TRUE
      OBVIOUS
  <2>3. MaxLock - x \in T
      OBVIOUS
  <2> QED
      BY <2>1, <2>3
<1>2. PICK m \in T : \A y \in T : m <= y
    BY <1>1, LeastExists
<1>3. PICK x \in S : m = MaxLock - x
    BY <1>2
<1>4. \A y \in S : MaxLock - x <= MaxLock - y
    BY <1>2, <1>3
<1> QED
    BY <1>0, <1>3, <1>4, BoundsAssumption

(* The sweep takes one of the profiles it has.                             *)
LEMMA FirstIsOne == \A ps \in SUBSET Profiles : ps # {} => First(ps) \in ps
<1> SUFFICES ASSUME NEW ps \in SUBSET Profiles, ps # {} PROVE First(ps) \in ps
    OBVIOUS
<1>0. ps \subseteq Nat
    BY ProfilesAssumption, BoundsAssumption
<1>1. \E p \in ps : \A q \in ps : p <= q
    BY <1>0, LeastExists
<1> QED
    BY <1>1 DEF First

(* Cargo takes one of the profiles it wants.                               *)
LEMMA LastIsOne == \A ps \in SUBSET Profiles : ps # {} => Last(ps) \in ps
<1> SUFFICES ASSUME NEW ps \in SUBSET Profiles, ps # {} PROVE Last(ps) \in ps
    OBVIOUS
<1>0. ps \subseteq Locks
    BY ProfilesAssumption DEF Locks
<1>1. \E p \in ps : \A q \in ps : q <= p
    BY <1>0, GreatestExists
<1> QED
    BY <1>1 DEF Last

(* A lock file that is created has an inode nobody uses.                   *)
LEMMA NewLockIsFree == Locks \ InUse # {} => NewLock \in Locks \ InUse
<1> SUFFICES ASSUME Locks \ InUse # {} PROVE NewLock \in Locks \ InUse
    OBVIOUS
<1>1. Locks \ InUse \subseteq Nat
    BY DEF Locks
<1>2. \E l \in Locks \ InUse : \A m \in Locks \ InUse : l <= m
    BY <1>1, LeastExists
<1> QED
    BY <1>2 DEF NewLock

(* A profile is its four fields.                                           *)
LEMMA Fields ==
    \A r \in Profile :
        r = [lock |-> r.lock, idle |-> r.idle, root |-> r.root, itrash |-> r.itrash]
    BY DEF Profile

\* A profile whose incremental root went to the quarantine inside incremental/.
RootMoved(q, more) == [q EXCEPT !.root = "none", !.idle = FALSE, !.itrash = more]

(* It is a profile that was just written to, with the same lock.           *)
LEMMA RootMovedFields ==
    ASSUME NEW q \in Profile, NEW more \in SUBSET Ages, NEW r, r = RootMoved(q, more)
    PROVE  r \in Profile /\ r.lock = q.lock /\ r.idle = FALSE /\ r.root = "none"
<1>1. r \in Profile
    BY DEF Profile, RootMoved
<1>2. r.lock = q.lock
    BY DEF Profile, RootMoved
<1>3. r.idle = FALSE
    BY DEF Profile, RootMoved
<1>4. r.root = "none"
    BY DEF Profile, RootMoved
<1> QED
    BY <1>1, <1>2, <1>3, <1>4

(* The invariant holds in the beginning.                                   *)
LEMMA InitHolds == Init => SweepInv
<1> SUFFICES ASSUME Init PROVE SweepInv
    OBVIOUS
<1>1. \A p \in Profiles : p \in Locks /\ p # 0
    BY ProfilesAssumption, BoundsAssumption DEF Locks
<1>2. ASSUME NEW p \in Profiles
      PROVE  /\ prof[p] \in Profile /\ prof[p] # Missing
             /\ prof[p].lock = p /\ prof[p].root # "fresh"
             /\ prof[p].root # "none" => p \in Incremental
  <2>1. PICK r \in {"stale", "none"} :
                /\ prof[p] = [lock |-> p, idle |-> TRUE, itrash |-> {}, root |-> r]
                /\ r # "none" => p \in Incremental
      BY DEF Init
  <2>2. p \in Locks
      BY <1>1
  <2>3. prof[p] \in Profile
      BY <2>1, <2>2 DEF Profile, Ages
  <2>4. prof[p] # Missing
      BY <2>3, MissingAssumption
  <2>5. /\ prof[p].lock = p /\ prof[p].root # "fresh"
        /\ prof[p].root # "none" => p \in Incremental
      BY <2>1
  <2> QED
      BY <2>3, <2>4, <2>5
<1>3. TypeInv
  <2>1. prof \in [Profiles -> Profile \cup {Missing}]
      BY <1>2 DEF Init
  <2>2. holder \in [Locks -> Builds \cup {"sweep", Nobody}] /\ trash \subseteq Profile
      BY DEF Init
  <2>3. build \in [Builds -> [at : {"idle", "locking", "building"}, want : SUBSET Profiles,
                              fds : [Profiles -> Locks \cup {0}]]]
      BY DEF Init
  <2> QED
      BY <2>1, <2>2, <2>3 DEF Init, TypeInv, PlanType, NoPlan
<1>4. OneLock /\ IdleIsStale /\ RootsThere
    BY <1>2 DEF OneLock, IdleIsStale, RootsThere
<1>5. \A b \in Builds : build[b].want = {}
    BY DEF Init
<1>6. OpenedThere /\ WaitHere /\ BusyAtWork /\ AtRest
    BY <1>5 DEF OpenedThere, WaitHere, BusyAtWork, AtRest
<1>7. HeldIsLocked /\ TodoIsLocked /\ GroupIsOpen
    BY DEF Init, HeldIsLocked, TodoIsLocked, GroupIsOpen
<1> QED
    BY <1>3, <1>4, <1>6, <1>7 DEF SweepInv

(* A step that touches neither profiles nor builds keeps what is said of   *)
(* them.                                                                   *)
LEMMA WorldStands ==
    ASSUME SweepInv, UNCHANGED <<prof, build>>
    PROVE  /\ OneLock' /\ OpenedThere' /\ WaitHere' /\ BusyAtWork' /\ AtRest'
           /\ IdleIsStale' /\ RootsThere' /\ Opened' = Opened
    BY DEF SweepInv, OneLock, OpenedThere, WaitHere, BusyAtWork, AtRest, IdleIsStale, RootsThere,
           Old, Present, Opened

\* The stages in which the run relies on locks it has.
Relying == {"held", "quarantining", "waiting", "locked", "root checked"}

(* If it does not enter the stages under locks either, it preserves        *)
(* everything.                                                             *)
LEMMA Bystanding ==
    ASSUME SweepInv, UNCHANGED <<prof, build>>, trash' \subseteq trash,
           holder' \in [Locks -> Builds \cup {"sweep", Nobody}],
           PlanType', todo' \subseteq Profiles, fd' \in Locks \cup {0},
           pc' \notin Relying, pc' = "locking" => got' = {}
    PROVE  SweepInv'
<1>1. TypeInv'
    BY DEF SweepInv, TypeInv
<1>2. HeldIsLocked' /\ TodoIsLocked' /\ GroupIsOpen'
    BY DEF HeldIsLocked, TodoIsLocked, GroupIsOpen, Relying
<1> QED
    BY <1>1, <1>2, WorldStands DEF SweepInv

(* Dropping the locks of the run leaves every lock with a holder of its    *)
(* kind, or none.                                                          *)
LEMMA DropKeepsTypes ==
    ASSUME TypeInv, Drop
    PROVE  holder' \in [Locks -> Builds \cup {"sweep", Nobody}]
    BY DEF TypeInv, Drop

(* The end of a run leaves the profiles as they are.                       *)
LEMMA Ending ==
    ASSUME SweepInv, NEW l, l \in {"idle", "done"}, End(l),
           prof' = prof, trash' \subseteq trash, PlanType'
    PROVE  SweepInv'
<1>1. TypeInv /\ Drop
    BY DEF SweepInv, End
<1>2. holder' \in [Locks -> Builds \cup {"sweep", Nobody}]
    BY <1>1, DropKeepsTypes
<1> QED
    BY <1>2, Bystanding DEF End, Goto, Relying

(* So does giving up.                                                      *)
LEMMA Aborting == SweepInv /\ Abort => SweepInv'
<1> SUFFICES ASSUME SweepInv, Abort PROVE SweepInv'
    OBVIOUS
<1>1. End("idle") /\ prof' = prof /\ trash' = trash /\ PlanType'
    BY DEF Abort, NoPlan, PlanType
<1> QED
    BY <1>1, Ending

(* The steps of the run outside the stages under all locks.                *)
LEMMA PlanStep == SweepInv /\ Plan => SweepInv'
<1> SUFFICES ASSUME SweepInv, Plan PROVE SweepInv'
    OBVIOUS
<1>1. LeftProfiles \subseteq Locks \cup {0}
    BY DEF LeftProfiles, SweepInv, TypeInv, Profile
<1>2. PlanType'
    BY <1>1 DEF Plan, PlanType, AgedRoots, LeftRoots, AgedProfiles, Lockable
<1> QED
    BY <1>2, Bystanding DEF Plan, Goto, Relying, SweepInv, TypeInv

(* Going on with the next profile only takes from the plan.                *)
LEMMA NextGroupKeepsType ==
    ASSUME PlanType, NEW p, NextGroup(p)
    PROVE  PlanType'
    BY DEF PlanType, NextGroup

(* The profile the incremental sweep works on is one of the target.        *)
LEMMA GroupIsOne == TypeInv /\ Groups # {} => Current \in Profiles
<1>1. TypeInv => Groups \in SUBSET Profiles
    BY DEF TypeInv, PlanType, Groups
<1> QED
    BY <1>1, FirstIsOne DEF Current

(* While the plan stands, it goes on with the same profile.                *)
LEMMA SameGroup == plan' = plan => Groups' = Groups /\ Current' = Current
    BY DEF Current, Groups, First

(* Up to its lock, the incremental sweep of a profile touches nothing.     *)
LEMMA IncrementalStep ==
    SweepInv /\ (OpenGroup \/ LockGroup \/ GroupBusy) => SweepInv'
<1> SUFFICES ASSUME SweepInv, OpenGroup \/ LockGroup \/ GroupBusy PROVE SweepInv'
    OBVIOUS
<1>0. TypeInv /\ PlanType
    BY DEF SweepInv, TypeInv
<1>1. CASE OpenGroup
  <2>0. OpenGroup /\ Current = First(Groups)
      BY <1>1 DEF Current
  <2>1. CASE ~Present(Current)
    <3>2. PlanType'
        BY <1>0, <2>0, <2>1, NextGroupKeepsType DEF OpenGroup
    <3> QED
        BY <1>0, <2>0, <2>1, <3>2, Bystanding DEF OpenGroup, Relying, TypeInv
  <2>2. CASE Present(Current) /\ prof[Current].lock = 0
      BY <2>0, <2>2, Aborting DEF OpenGroup
  <2>3. CASE Present(Current) /\ prof[Current].lock # 0
    <3>1. Current \in Profiles /\ Groups # {}
        BY <1>0, <2>0, GroupIsOne DEF OpenGroup
    <3>2. prof[Current] \in Profile
        BY <1>0, <2>3, <3>1 DEF TypeInv, Present
    <3>3. /\ UNCHANGED <<prof, trash, holder, build, plan, todo>>
          /\ fd' = prof[Current].lock /\ pc' = "waiting"
        BY <2>0, <2>3 DEF OpenGroup, Goto
    <3>4. fd' \in Locks
        BY <2>3, <3>2, <3>3 DEF Profile
    <3>5. TypeInv'
        BY <1>0, <3>3, <3>4 DEF TypeInv, PlanType
    <3>6. GroupIsOpen'
        BY <2>3, <3>1, <3>3, SameGroup DEF GroupIsOpen, Present
    <3>7. HeldIsLocked' /\ TodoIsLocked'
        BY <3>3 DEF HeldIsLocked, TodoIsLocked
    <3> QED
        BY <3>3, <3>5, <3>6, <3>7, WorldStands DEF SweepInv
  <2> QED
      BY <2>1, <2>2, <2>3
<1>2. CASE LockGroup
  <2>1. /\ UNCHANGED <<prof, trash, build, plan, fd, todo, replaced>>
        /\ pc = "waiting" /\ pc' = "locked" /\ holder' = [holder EXCEPT ![fd] = "sweep"]
      BY <1>2 DEF LockGroup, Goto, run
  <2>2. TypeInv'
      BY <1>0, <2>1 DEF TypeInv, PlanType
  <2>3. fd \in Locks
      BY <1>0, <2>1 DEF SweepInv, GroupIsOpen, TypeInv
  <2>4. GroupIsOpen'
      BY <1>0, <2>1, <2>3, SameGroup DEF SweepInv, GroupIsOpen, TypeInv, Present
  <2>5. HeldIsLocked' /\ TodoIsLocked'
      BY <2>1 DEF HeldIsLocked, TodoIsLocked
  <2> QED
      BY <2>1, <2>2, <2>4, <2>5, WorldStands DEF SweepInv
<1>3. CASE GroupBusy
  <2>1. CASE TimedOut
      BY <1>3, <2>1, Aborting DEF GroupBusy
  <2>2. CASE ~TimedOut
    <3>1. UNCHANGED <<prof, trash, holder, build, pc, plan, fd, todo, replaced>> /\ pc = "waiting"
        BY <1>3, <2>2 DEF GroupBusy, Poll
    <3>2. TypeInv'
        BY <1>0, <3>1 DEF TypeInv, PlanType
    <3>3. GroupIsOpen'
        BY <3>1, SameGroup DEF SweepInv, GroupIsOpen, Present
    <3>4. HeldIsLocked' /\ TodoIsLocked'
        BY <3>1 DEF HeldIsLocked, TodoIsLocked
    <3> QED
        BY <3>1, <3>2, <3>3, <3>4, WorldStands DEF SweepInv
  <2> QED
      BY <2>1, <2>2
<1> QED
    BY <1>1, <1>2, <1>3

(* The second look at the root only reads; what it found stale is, under   *)
(* the lock.                                                               *)
LEMMA LookStep == SweepInv /\ LookAtRoot => SweepInv'
<1> SUFFICES ASSUME SweepInv, LookAtRoot PROVE SweepInv'
    OBVIOUS
<1>0. TypeInv /\ PlanType /\ Current = First(Groups)
    BY DEF SweepInv, TypeInv, Current
<1>1. UNCHANGED <<prof, trash, build, todo, got>> /\ pc = "locked"
    BY DEF LookAtRoot
<1>2. CASE Present(Current) /\ RootStale(Current)
  <2>1. UNCHANGED <<holder, plan, fd, replaced>> /\ pc' = "root checked"
      BY <1>0, <1>2 DEF LookAtRoot, Goto
  <2>2. TypeInv'
      BY <1>0, <1>1, <2>1 DEF TypeInv, PlanType
  <2>3. GroupIsOpen'
      BY <1>1, <1>2, <2>1, SameGroup DEF SweepInv, GroupIsOpen, Present, RootStale
  <2>4. HeldIsLocked' /\ TodoIsLocked'
      BY <2>1 DEF HeldIsLocked, TodoIsLocked
  <2> QED
      BY <1>1, <2>2, <2>3, <2>4, WorldStands DEF SweepInv
<1>3. CASE ~(Present(Current) /\ RootStale(Current))
  <2>1. /\ Drop /\ fd' = 0 /\ pc' \in {"removing roots", "incremental"}
        /\ plan' = plan \/ NextGroup(Current)
      BY <1>0, <1>3 DEF LookAtRoot, Goto
  <2>2. PlanType'
      BY <1>0, <2>1, NextGroupKeepsType DEF PlanType
  <2> QED
      BY <1>0, <1>1, <2>1, <2>2, Bystanding, DropKeepsTypes DEF TypeInv, Relying
<1> QED
    BY <1>2, <1>3

(* The root is moved into the quarantine inside incremental/, and what is  *)
(* there is removed.                                                       *)
LEMMA RootsStep == SweepInv /\ (QuarantineRoot \/ RemoveRoots) => SweepInv'
<1> SUFFICES ASSUME SweepInv, QuarantineRoot \/ RemoveRoots, ~Abort PROVE SweepInv'
    BY Aborting
<1> DEFINE p == First(Groups)
<1>0. TypeInv /\ PlanType
    BY DEF SweepInv, TypeInv
<1>1. /\ build' = build /\ trash' = trash /\ todo' = todo
      /\ pc' \in {"removing roots", "incremental"}
    BY DEF QuarantineRoot, RemoveRoots, Goto
<1>2. holder' \in [Locks -> Builds \cup {"sweep", Nobody}]
    BY DropKeepsTypes DEF QuarantineRoot, RemoveRoots, SweepInv, TypeInv
<1>3. PlanType' /\ fd' \in Locks \cup {0}
  <2>1. PlanType /\ fd \in Locks \cup {0}
      BY DEF SweepInv, TypeInv
  <2>2. plan' = plan \/ NextGroup(p)
      BY DEF QuarantineRoot, RemoveRoots
  <2>3. fd' = fd \/ fd' = 0
      BY DEF QuarantineRoot, RemoveRoots
  <2> QED
      BY <2>1, <2>2, <2>3, NextGroupKeepsType DEF PlanType
<1>4. \/ prof' = prof
      \/ /\ p \in Profiles /\ Present(p)
         /\ \E r \in Profile :
              /\ r.lock = prof[p].lock /\ ~r.idle
              /\ r.root = "stale" => prof[p].root = "stale"
              /\ r.root # "none" => prof[p].root # "none"
              /\ prof' = [prof EXCEPT ![p] = r]
  <2>1. CASE QuarantineRoot
    <3>0. p \in Profiles /\ Present(p) /\ prof[p].root # "none"
        BY <1>0, <2>1, GroupIsOne DEF QuarantineRoot, SweepInv, GroupIsOpen, Current
    <3>1. prof[p] \in Profile
        BY <3>0 DEF SweepInv, TypeInv, Present
    <3>2. prof'[p] = [prof[p] EXCEPT !.root = "none", !.idle = FALSE,
                                     !.itrash = prof[p].itrash \cup {prof[p].root}]
        BY <2>1, <3>0 DEF QuarantineRoot, SweepInv, TypeInv
    <3>3. prof[p].itrash \cup {prof[p].root} \in SUBSET Ages
        BY <3>0, <3>1 DEF Profile, Ages
    <3>4. prof'[p] \in Profile /\ prof'[p].lock = prof[p].lock /\ prof'[p].idle = FALSE
          /\ prof'[p].root = "none"
      <4>1. PICK q, more, r : q = prof[p] /\ more = prof[p].itrash \cup {prof[p].root}
                              /\ r = prof'[p]
          OBVIOUS
      <4>2. q \in Profile /\ more \in SUBSET Ages
          BY <3>1, <3>3, <4>1
      <4>3. r = RootMoved(q, more)
          BY <3>2, <4>1 DEF RootMoved
      <4>4. r \in Profile /\ r.lock = q.lock /\ r.idle = FALSE /\ r.root = "none"
          BY <4>2, <4>3, RootMovedFields
      <4> QED
          BY <4>1, <4>4
    <3>5. prof' = [prof EXCEPT ![p] = prof'[p]]
        BY <2>1, <3>0 DEF QuarantineRoot, SweepInv, TypeInv
    <3> QED
        BY <3>0, <3>4, <3>5
  <2>2. CASE RemoveRoots /\ p \notin Profiles
    <3>1. prof = [q \in Profiles |-> prof[q]]
        BY DEF SweepInv, TypeInv
    <3>2. prof' \in {prof, [prof EXCEPT ![p].itrash = {}, ![p].idle = FALSE]}
        BY <2>2 DEF RemoveRoots
    <3> QED
        BY <2>2, <3>1, <3>2
  <2>3. CASE RemoveRoots /\ Present(p) /\ prof[p].itrash # {} /\ p \in Profiles
    <3>1. prof[p] \in Profile
        BY <2>3 DEF SweepInv, TypeInv, Present
    <3>2. prof'[p] = [prof[p] EXCEPT !.itrash = {}, !.idle = FALSE]
        BY <2>3 DEF RemoveRoots, SweepInv, TypeInv
    <3>3. prof'[p] = [lock |-> prof[p].lock, idle |-> FALSE, root |-> prof[p].root, itrash |-> {}]
        BY <3>1, <3>2, Fields
    <3>4. prof' = [prof EXCEPT ![p] = prof'[p]]
        BY <2>3 DEF RemoveRoots, SweepInv, TypeInv
    <3>5. prof'[p] \in Profile
        BY <3>1, <3>3 DEF Profile
    <3>6. prof'[p].lock = prof[p].lock /\ prof'[p].idle = FALSE /\ prof'[p].root = prof[p].root
        BY <3>3
    <3> QED
        BY <2>3, <3>4, <3>5, <3>6
  <2>4. CASE RemoveRoots /\ ~(Present(p) /\ prof[p].itrash # {})
      BY <2>4 DEF RemoveRoots
  <2> QED
      BY <2>1, <2>2, <2>3, <2>4
<1>5. HeldIsLocked' /\ TodoIsLocked' /\ GroupIsOpen'
    BY <1>1 DEF HeldIsLocked, TodoIsLocked, GroupIsOpen
<1>6. CASE prof' = prof
    BY <1>1, <1>2, <1>3, <1>6, Bystanding DEF SweepInv, TypeInv, Relying
<1>7. ASSUME NEW w \in Profiles, Present(w), NEW r \in Profile,
             r.lock = prof[w].lock, ~r.idle, r.root = "stale" => prof[w].root = "stale",
             r.root # "none" => prof[w].root # "none",
             prof' = [prof EXCEPT ![w] = r]
      PROVE  SweepInv'
  <2>1. /\ prof'[w] = r /\ \A q \in Profiles \ {w} : prof'[q] = prof[q]
        /\ prof' \in [Profiles -> Profile \cup {Missing}] /\ r # Missing
      BY <1>7, MissingAssumption DEF SweepInv, TypeInv
  <2>2. TypeInv'
      BY <1>1, <1>2, <1>3, <2>1 DEF SweepInv, TypeInv
  <2>3. /\ ~prof'[w].idle
        /\ prof'[w].root = "stale" => prof[w].root = "stale"
        /\ prof'[w].root # "none" => prof[w].root # "none"
      BY <1>7, <2>1
  <2>4. \A q \in Profiles : Present(q)' =>
            Present(q) /\ prof'[q].lock = prof[q].lock /\ (Old(q)' => Old(q))
    <3> SUFFICES ASSUME NEW q \in Profiles, Present(q)'
                 PROVE  Present(q) /\ prof'[q].lock = prof[q].lock /\ (Old(q)' => Old(q))
        OBVIOUS
    <3>1. CASE q = w
      <4>1. Old(w)' => Old(w)
          BY <2>3 DEF Old
      <4> QED
          BY <1>7, <2>1, <3>1, <4>1
    <3>2. CASE q # w
        BY <2>1, <3>2 DEF Present, Old
    <3> QED
        BY <3>1, <3>2
  <2>5. OneLock' /\ OpenedThere'
    <3>1. OneLock'
        BY <2>4 DEF SweepInv, OneLock
    <3>2. OpenedThere'
        BY <1>1, <2>4 DEF SweepInv, OpenedThere
    <3> QED
        BY <3>1, <3>2
  <2>6. WaitHere' /\ BusyAtWork'
    <3>1. \A b \in Builds : build[b].want \subseteq Profiles
        BY DEF SweepInv, TypeInv
    <3> QED
        BY <1>1, <2>4, <3>1 DEF SweepInv, WaitHere, BusyAtWork
  <2>7. RootsThere'
      BY <1>7, <2>1, <2>3 DEF SweepInv, RootsThere, Present
  <2>8. IdleIsStale' /\ AtRest'
      BY <1>1, <2>1, <2>3 DEF SweepInv, IdleIsStale, AtRest, Present
  <2> QED
      BY <1>5, <2>2, <2>5, <2>6, <2>7, <2>8 DEF SweepInv
<1> QED
    BY <1>4, <1>6, <1>7

(* The stages under all locks.                                             *)
LEMMA LockingStep ==
    SweepInv /\ (RecoverTrash \/ ListLocks \/ LockNext \/ LocksBusy) => SweepInv'
<1> SUFFICES ASSUME SweepInv, RecoverTrash \/ ListLocks \/ LockNext \/ LocksBusy PROVE SweepInv'
    OBVIOUS
<1>0. TypeInv /\ PlanType
    BY DEF SweepInv, TypeInv
<1>1. CASE RecoverTrash
    BY <1>0, <1>1, Ending, Bystanding DEF RecoverTrash, Goto, run, Relying, TypeInv, PlanType
<1>2. CASE ListLocks
    BY <1>0, <1>2, Aborting, Bystanding DEF ListLocks, Goto, Relying, TypeInv, PlanType
<1>3. CASE LockNext /\ ~Abort
  <2> DEFINE p == First(Unlocked)
  <2>1. /\ UNCHANGED <<prof, trash, build, pc, plan, fd, todo>> /\ pc = "locking"
        /\ p \in Profiles /\ prof[p].lock # 0 /\ Present(p)
        /\ holder' = [holder EXCEPT ![prof[p].lock] = "sweep"] /\ got' = got \cup {p}
      BY <1>3 DEF LockNext, Lockable
  <2>2. \A q \in Profiles : Present(q) => prof[q].lock \in Locks \cup {0}
      BY <1>0 DEF TypeInv, Present, Profile
  <2>3. TypeInv'
      BY <1>0, <2>1 DEF TypeInv, PlanType
  <2>4. /\ holder'[prof[p].lock] = "sweep"
        /\ \A l \in Locks : holder[l] = "sweep" => holder'[l] = "sweep"
      BY <1>0, <2>1, <2>2 DEF TypeInv
  <2>5. HeldIsLocked'
      BY <2>1, <2>2, <2>4, WorldStands DEF SweepInv, HeldIsLocked, Present
  <2>6. TodoIsLocked' /\ GroupIsOpen'
      BY <2>1 DEF TodoIsLocked, GroupIsOpen
  <2> QED
      BY <2>1, <2>3, <2>5, <2>6, WorldStands DEF SweepInv
<1>4. CASE LocksBusy
    BY <1>0, <1>4, Aborting, Bystanding, DropKeepsTypes
       DEF LocksBusy, Poll, DropContended, Relying, TypeInv, PlanType
<1> QED
    BY <1>1, <1>2, <1>3, <1>4, Aborting

(* With all locks held and the same profiles listed, the lock of every     *)
(* idle profile is held: the wait for the locks ended with the last of     *)
(* them.                                                                   *)
LEMMA RelistStep == SweepInv /\ Relist => SweepInv'
<1> SUFFICES ASSUME SweepInv, Relist PROVE SweepInv'
    OBVIOUS
<1>0. TypeInv /\ PlanType
    BY DEF SweepInv, TypeInv
<1>1. CASE ~AllListed
    BY <1>0, <1>1, Bystanding, DropKeepsTypes DEF Relist, Goto, run, Relying, TypeInv, PlanType
<1>2. CASE AllListed
  <2>1. /\ UNCHANGED <<prof, trash, build, holder, plan, fd, todo>>
        /\ pc = "locking" /\ pc' = "held"
      BY <1>2 DEF Relist, Goto, run
  <2>2. \A p \in Lockable : p \in got
      BY <1>2 DEF Relist, AllListed, Unlocked
  <2>3. HeldIsLocked'
      BY <2>1, <2>2, WorldStands DEF SweepInv, HeldIsLocked, Lockable, Present
  <2>4. TypeInv' /\ TodoIsLocked' /\ GroupIsOpen'
      BY <1>0, <2>1 DEF TypeInv, PlanType, TodoIsLocked, GroupIsOpen
  <2> QED
      BY <2>1, <2>3, <2>4, WorldStands DEF SweepInv
<1> QED
    BY <1>1, <1>2

(* The second look keeps what is idle and nobody has open: the run holds   *)
(* the locks of these.                                                     *)
LEMMA RecheckStep == SweepInv /\ Recheck => SweepInv'
<1> SUFFICES ASSUME SweepInv, Recheck PROVE SweepInv'
    OBVIOUS
<1> DEFINE stale == {p \in plan.reset : StillIdle(p)}
<1>1. PICK seen \in SUBSET stale : {p \in stale : OwnedProfile(p)} \subseteq seen /\ todo' = stale \ seen
    BY DEF Recheck
<1>2. /\ UNCHANGED <<prof, trash, build, holder, plan, fd>>
      /\ pc = "held" /\ pc' = "quarantining"
    BY DEF Recheck, Goto
<1>3. \A p \in todo' : /\ p \in Profiles /\ Present(p) /\ prof[p].lock # 0 /\ prof[p].idle
                       /\ prof[p].lock \notin Opened
    BY <1>1 DEF StillIdle, OwnedProfile, SweepInv, TypeInv, PlanType
<1>4. \A p \in todo' : holder[prof[p].lock] = "sweep"
    BY <1>2, <1>3 DEF SweepInv, HeldIsLocked
<1>5. TodoIsLocked' /\ todo' \subseteq Profiles
    BY <1>2, <1>3, <1>4 DEF TodoIsLocked, Present
<1>6. HeldIsLocked' /\ GroupIsOpen'
    BY <1>2 DEF HeldIsLocked, GroupIsOpen
<1>7. TypeInv'
    BY <1>2, <1>5 DEF SweepInv, TypeInv, PlanType
<1> QED
    BY <1>2, <1>5, <1>6, <1>7, WorldStands DEF SweepInv

(* A profile that is quarantined leaves, and no other profile changes.     *)
LEMMA QuarantineStep == SweepInv /\ QuarantineProfile => SweepInv'
<1> SUFFICES ASSUME SweepInv, QuarantineProfile, ~Abort PROVE SweepInv'
    BY Aborting
<1> DEFINE p == First(todo)
<1>1. p \in todo /\ p \in Profiles
    BY FirstIsOne DEF QuarantineProfile, SweepInv, TypeInv
<1>2. Present(p) /\ prof[p] \in Profile
    BY <1>1 DEF QuarantineProfile, SweepInv, TypeInv, Present
<1>3. /\ UNCHANGED <<build, holder, plan, fd, pc, replaced>> /\ pc = "quarantining"
      /\ trash' = trash \cup {prof[p]} /\ todo' = todo \ {p}
      /\ prof' = [prof EXCEPT ![p] = Missing]
    BY <1>2 DEF QuarantineProfile
<1>4. prof'[p] = Missing /\ \A q \in Profiles \ {p} : prof'[q] = prof[q]
    BY <1>1, <1>3 DEF SweepInv, TypeInv
<1>5. TypeInv'
    BY <1>2, <1>3 DEF SweepInv, TypeInv, PlanType
<1>6. OneLock' /\ OpenedThere' /\ WaitHere'
    BY <1>3, <1>4 DEF SweepInv, TypeInv, OneLock, OpenedThere, WaitHere, Old, Present
<1>7. BusyAtWork' /\ AtRest' /\ IdleIsStale' /\ RootsThere'
    BY <1>3, <1>4 DEF SweepInv, TypeInv, BusyAtWork, AtRest, IdleIsStale, RootsThere, Old, Present
<1>8. HeldIsLocked' /\ TodoIsLocked' /\ GroupIsOpen'
    BY <1>3, <1>4, <1>5 DEF SweepInv, TypeInv, HeldIsLocked, TodoIsLocked, GroupIsOpen, Present
<1> QED
    BY <1>5, <1>6, <1>7, <1>8 DEF SweepInv

(* The last steps of a run, and the ways it can be cut short, move         *)
(* nothing.                                                                *)
LEMMA ClosingStep ==
    SweepInv /\ (QuarantineFails \/ ReleaseLocks \/ RemoveProfiles \/ RemovalFails \/ Crash)
        => SweepInv'
<1> SUFFICES ASSUME SweepInv,
                    QuarantineFails \/ ReleaseLocks \/ RemoveProfiles \/ RemovalFails \/ Crash
             PROVE  SweepInv'
    OBVIOUS
<1>0. TypeInv /\ PlanType
    BY DEF SweepInv, TypeInv
<1>1. CASE QuarantineFails \/ RemovalFails
    BY <1>1, Aborting DEF QuarantineFails, RemovalFails
<1>2. CASE ReleaseLocks
    BY <1>0, <1>2, Bystanding, DropKeepsTypes 
       DEF ReleaseLocks, DropBeforeRemoval, Goto, run, Relying, TypeInv, PlanType
<1>3. CASE RemoveProfiles
    BY <1>0, <1>3, Ending DEF RemoveProfiles, PlanType
<1>4. CASE Crash
  <2>1. PlanType'
      BY <1>4 DEF Crash, PlanType, NoPlan
  <2> QED
      BY <1>4, <2>1, Ending DEF Crash
<1> QED
    BY <1>1, <1>2, <1>3, <1>4

----------------------------------------------------------------------------
(* A lock is open if some build has opened it for a profile it wants.      *)
LEMMA OpenedMeans ==
    \A x : x \in Opened <=> \E b \in Builds : \E p \in build[b].want : x = build[b].fds[p]
    BY DEF Opened

(* A build that starts has opened nothing yet.                             *)
LEMMA BuildStartStep == ASSUME SweepInv, NEW b \in Builds, BuildStart(b) PROVE SweepInv'
<1>1. PICK want \in SUBSET Profiles :
          build' = [build EXCEPT ![b] = [at |-> "locking", want |-> want, fds |-> [p \in Profiles |-> 0]]]
    BY DEF BuildStart
<1>2. UNCHANGED <<prof, trash, holder, pc, plan, fd, got, todo, replaced>>
    BY DEF BuildStart, sweeper
<1>3. /\ build'[b].at = "locking" /\ build'[b].want = want
      /\ \A p \in Profiles : build'[b].fds[p] = 0
      /\ \A c \in Builds \ {b} : build'[c] = build[c]
    BY <1>1 DEF SweepInv, TypeInv
<1>4. TypeInv'
    BY <1>1, <1>2 DEF SweepInv, TypeInv, PlanType
<1>5. OpenedThere' /\ WaitHere' /\ BusyAtWork' /\ AtRest'
    BY <1>2, <1>3 DEF SweepInv, OpenedThere, WaitHere, BusyAtWork, AtRest, Old, Present
<1>6. /\ OneLock' /\ IdleIsStale' /\ RootsThere'
      /\ TodoIsLocked' /\ GroupIsOpen'
    BY <1>2, SameGroup DEF SweepInv, OneLock, IdleIsStale, RootsThere, TodoIsLocked, GroupIsOpen,
                           Present
<1>7. HeldIsLocked'
  <2>1. build[b].want = {}
      BY DEF BuildStart, SweepInv, AtRest
  <2>2. Opened \subseteq Opened'
      BY <1>3, <2>1 DEF Opened
  <2> QED
      BY <1>2, <2>2 DEF SweepInv, HeldIsLocked, Present
<1> QED
    BY <1>4, <1>5, <1>6, <1>7 DEF SweepInv

(* A build that opens a lock opens the one in the profile, or creates one  *)
(* that nobody else has: it is then open, as HeldIsLocked allows.          *)
LEMMA BuildOpenStep == ASSUME SweepInv, NEW b \in Builds, BuildOpen(b) PROVE SweepInv'
<1> DEFINE p == Last(Pending(b))
           l == IF p \in Lockable THEN prof[p].lock ELSE NewLock
           r == prof'[p]
<1>1. p \in build[b].want /\ p \in Profiles
  <2>1. Pending(b) \in SUBSET Profiles /\ Pending(b) # {}
      BY DEF BuildOpen, Pending, SweepInv, TypeInv
  <2>2. p \in Pending(b)
      BY <2>1, LastIsOne
  <2> QED
      BY <2>1, <2>2 DEF Pending
<1>2. UNCHANGED <<trash, holder, pc, plan, fd, got, todo, replaced>>
    BY DEF BuildOpen, sweeper
<1>3. /\ build[b].at = "locking" /\ build[b].fds[p] = 0
      /\ p \notin Lockable => NewLock \in Locks \ InUse
      /\ build' = [build EXCEPT ![b].fds[p] = l]
      /\ prof' = [prof EXCEPT ![p] = IF Present(p) THEN [prof[p] EXCEPT !.lock = l]
                                     ELSE NewProfile(l)]
    BY NewLockIsFree DEF BuildOpen
<1>4. l \in Locks
    BY <1>3 DEF Lockable, Present, SweepInv, TypeInv, Profile
<1>5. \/ p \in Lockable /\ l = prof[p].lock
      \/ p \notin Lockable /\ l \notin InUse
    BY <1>3
<1>6. /\ r \in Profile /\ r # Missing /\ r.lock = l
      /\ Present(p) => r.idle = prof[p].idle /\ r.root = prof[p].root
      /\ ~Present(p) => r.idle = FALSE /\ r.root = "none"
  <2>1. CASE Present(p)
    <3>1. prof[p] \in Profile
        BY <1>1, <2>1 DEF Present, SweepInv, TypeInv
    <3>2. r = [lock |-> l, idle |-> prof[p].idle, root |-> prof[p].root, itrash |-> prof[p].itrash]
        BY <1>1, <1>3, <2>1, <3>1, Fields DEF SweepInv, TypeInv
    <3>3. r \in Profile
        BY <1>4, <3>1, <3>2 DEF Profile
    <3> QED
        BY <2>1, <3>2, <3>3, MissingAssumption
  <2>2. CASE ~Present(p)
    <3>1. r = [lock |-> l, idle |-> FALSE, root |-> "none", itrash |-> {}]
        BY <1>1, <1>3, <2>2 DEF NewProfile, SweepInv, TypeInv
    <3>2. r \in Profile
        BY <1>4, <3>1 DEF Profile
    <3>3. r # Missing
        BY <3>2, MissingAssumption
    <3>4. r.lock = l /\ r.idle = FALSE /\ r.root = "none"
        BY <3>1
    <3> QED
        BY <2>2, <3>2, <3>3, <3>4
  <2> QED
      BY <2>1, <2>2
<1>7. \A q \in Profiles \ {p} : prof'[q] = prof[q]
    BY <1>3 DEF SweepInv, TypeInv
<1>8. /\ \A c \in Builds : build'[c].at = build[c].at /\ build'[c].want = build[c].want
      /\ \A c \in Builds \ {b} : build'[c] = build[c]
      /\ build'[b].fds[p] = l
      /\ \A q \in Profiles \ {p} : build'[b].fds[q] = build[b].fds[q]
    BY <1>1, <1>3 DEF SweepInv, TypeInv
<1>9. TypeInv'
  <2>1. prof' \in [Profiles -> Profile \cup {Missing}]
      BY <1>1, <1>3, <1>6, <1>7 DEF SweepInv, TypeInv
  <2>2. build' \in [Builds -> [at : {"idle", "locking", "building"}, want : SUBSET Profiles,
                               fds : [Profiles -> Locks \cup {0}]]]
      BY <1>1, <1>3, <1>4 DEF SweepInv, TypeInv
  <2> QED
      BY <1>2, <2>1, <2>2 DEF SweepInv, TypeInv, PlanType
<1>10. /\ l \notin InUse => /\ \A c \in Builds : \A q \in build[c].want : build[c].fds[q] # l
                            /\ \A q \in Profiles : Present(q) => prof[q].lock # l
    BY DEF InUse, Opened
<1>11. /\ p \in Lockable => Present(p) /\ prof[p].lock = l /\ l # 0
       /\ p \notin Lockable => l \notin InUse /\ (Present(p) => prof[p].lock = 0)
    BY <1>1, <1>5 DEF Lockable
<1>12. OneLock'
    BY <1>6, <1>7, <1>10, <1>11 DEF SweepInv, OneLock, Present
<1>13. OpenedThere'
  <2> SUFFICES ASSUME NEW c \in Builds, NEW q \in build[c].want, NEW s \in Profiles,
                      Present(s)', prof'[s].lock # 0, build'[c].fds[q] = prof'[s].lock
               PROVE  q = s
      BY <1>8 DEF OpenedThere
  <2>0. q \in Profiles
      BY DEF SweepInv, TypeInv
  <2>1. CASE c = b /\ q = p
    <3> SUFFICES ASSUME s # p PROVE FALSE
        BY <2>1
    <3>1. Present(s) /\ prof[s].lock = l /\ l # 0
        BY <1>7, <1>8, <2>1 DEF Present
    <3>2. p \in Lockable
        BY <1>10, <1>11, <3>1
    <3> QED
        BY <1>1, <1>11, <3>1, <3>2 DEF SweepInv, OneLock
  <2>2. CASE ~(c = b /\ q = p)
    <3>1. build[c].fds[q] = prof'[s].lock
        BY <1>8, <2>0, <2>2
    <3> QED
        BY <1>6, <1>7, <1>10, <1>11, <3>1 DEF SweepInv, OpenedThere, Present
  <2> QED
      BY <2>1, <2>2
<1>14. WaitHere'
  <2> SUFFICES ASSUME NEW c \in Builds, NEW q \in build[c].want,
                      Present(q)', Old(q)', build'[c].fds[q] # 0
               PROVE  build'[c].fds[q] = prof'[q].lock
      BY <1>8 DEF WaitHere
  <2>0. q \in Profiles
      BY DEF SweepInv, TypeInv
  <2>1. CASE q # p
      BY <1>7, <1>8, <2>0, <2>1 DEF SweepInv, WaitHere, Old, Present
  <2>2. CASE q = p /\ c = b
      BY <1>6, <1>8, <2>2
  <2>3. CASE q = p /\ c # b
      BY <1>6, <1>8, <1>11, <2>3 DEF SweepInv, WaitHere, Old
  <2> QED
      BY <2>1, <2>2, <2>3
<1>15. BusyAtWork' /\ AtRest'
    BY <1>6, <1>7, <1>8 DEF SweepInv, TypeInv, BusyAtWork, AtRest, Old, Present
<1>16. IdleIsStale' /\ RootsThere'
    BY <1>6, <1>7 DEF SweepInv, IdleIsStale, RootsThere, Present
<1>17. HeldIsLocked'
  <2>1. \A x \in Opened : x # 0 => x \in Opened'
      BY <1>3, <1>8, OpenedMeans DEF Opened, SweepInv, TypeInv
  <2>2. l \in Opened'
      BY <1>1, <1>8 DEF Opened
  <2> QED
      BY <1>2, <1>6, <1>7, <2>1, <2>2 DEF SweepInv, HeldIsLocked, Present
<1>18. TodoIsLocked'
    BY <1>2, <1>6, <1>7, <1>11 DEF SweepInv, TypeInv, TodoIsLocked, Lockable, Present
<1>19. GroupIsOpen'
  <2> SUFFICES ASSUME pc \in {"waiting", "locked", "root checked"}
               PROVE  GroupIsOpen'
      BY <1>2 DEF GroupIsOpen
  <2>1. Current \in Profiles
      BY GroupIsOne DEF SweepInv, GroupIsOpen
  <2>2. Present(Current) /\ prof[Current].lock # 0
            => /\ prof'[Current] # Missing /\ prof'[Current].lock = prof[Current].lock
               /\ prof'[Current].root = prof[Current].root
      BY <1>6, <1>7, <1>11, <2>1 DEF Present
  <2> QED
      BY <1>2, <2>2, SameGroup DEF SweepInv, GroupIsOpen, Present
<1> QED
    BY <1>9, <1>12, <1>13, <1>14, <1>15, <1>16, <1>17, <1>18, <1>19 DEF SweepInv

(* A build gets a lock only if nobody, so not the run, holds it.           *)
LEMMA BuildLockStep == ASSUME SweepInv, NEW b \in Builds, BuildLock(b) PROVE SweepInv'
<1>1. UNCHANGED <<prof, build, trash, pc, plan, fd, got, todo, replaced>>
    BY DEF BuildLock, sweeper
<1>2. PICK l : holder[l] = Nobody /\ holder' = [holder EXCEPT ![l] = b]
    BY DEF BuildLock
<1>3. \A k \in Locks : holder[k] = "sweep" => holder'[k] = "sweep"
    BY <1>2, NobodyAssumption DEF SweepInv, TypeInv
<1>4. TypeInv'
    BY <1>1, <1>2 DEF SweepInv, TypeInv, PlanType
<1>5. \A p \in Profiles : Present(p) => prof[p].lock \in Locks \cup {0}
    BY DEF SweepInv, TypeInv, Present, Profile
<1>6. HeldIsLocked'
    BY <1>1, <1>3, <1>5 DEF SweepInv, HeldIsLocked, Present, Opened
<1>7. TodoIsLocked'
    BY <1>1, <1>3, <1>5 DEF SweepInv, TypeInv, TodoIsLocked, Present
<1>8. GroupIsOpen'
    BY <1>1, <1>3, SameGroup DEF SweepInv, TypeInv, GroupIsOpen, Present
<1> QED
    BY <1>1, <1>4, <1>6, <1>7, <1>8, WorldStands DEF SweepInv

(* A build writes to profiles whose locks it holds.  None of them is       *)
(* about to be quarantined: the lock it waited for would be the one the    *)
(* run holds.                                                              *)
LEMMA BuildWorkStep == ASSUME SweepInv, NEW b \in Builds, BuildWork(b) PROVE SweepInv'
<1>1. UNCHANGED <<holder, trash, pc, plan, fd, got, todo, replaced>>
    BY DEF BuildWork, sweeper
<1>2. /\ build'[b].at = "building"
      /\ \A c \in Builds : build'[c].want = build[c].want /\ build'[c].fds = build[c].fds
      /\ \A c \in Builds \ {b} : build'[c].at = build[c].at
    BY DEF BuildWork, SweepInv, TypeInv
<1>3. \A p \in Profiles : p \notin build[b].want => prof'[p] = prof[p]
    BY DEF BuildWork
<1>4. ASSUME NEW p \in Profiles, p \in build[b].want
      PROVE  /\ prof'[p] \in Profile /\ prof'[p] # Missing /\ prof'[p].idle = FALSE
             /\ prof'[p].lock = IF Present(p) THEN prof[p].lock ELSE 0
             /\ prof'[p].root = IF p \in Incremental THEN "fresh" ELSE "none"
  <2> DEFINE old == IF Present(p) THEN prof[p] ELSE NewProfile(0)
  <2>1. old \in Profile
      BY DEF Present, SweepInv, TypeInv, NewProfile, Profile
  <2>2. prof'[p] = [old EXCEPT !.idle = FALSE, !.root = IF p \in Incremental THEN "fresh" ELSE @]
      BY <1>4 DEF BuildWork
  <2>3. prof'[p] = [lock |-> old.lock, idle |-> FALSE,
                    root |-> IF p \in Incremental THEN "fresh" ELSE old.root, itrash |-> old.itrash]
      BY <2>1, <2>2, Fields
  <2>4. prof'[p] \in Profile
      BY <2>1, <2>3 DEF Profile, Ages
  <2>5. prof'[p] # Missing
      BY <2>4, MissingAssumption
  <2>6. /\ prof'[p].lock = old.lock /\ prof'[p].idle = FALSE
        /\ prof'[p].root = IF p \in Incremental THEN "fresh" ELSE old.root
      BY <2>3
  <2>7. ~Present(p) => old.lock = 0 /\ old.root = "none"
      BY DEF NewProfile
  <2>8. Present(p) /\ p \notin Incremental => old.root = "none"
      BY DEF SweepInv, RootsThere
  <2> QED
      BY <2>4, <2>5, <2>6, <2>7, <2>8
<1>5. TypeInv'
  <2>1. prof' \in [Profiles -> Profile \cup {Missing}]
      BY <1>3, <1>4 DEF BuildWork, SweepInv, TypeInv
  <2>2. build' \in [Builds -> [at : {"idle", "locking", "building"}, want : SUBSET Profiles,
                               fds : [Profiles -> Locks \cup {0}]]]
      BY DEF BuildWork, SweepInv, TypeInv
  <2> QED
      BY <1>1, <2>1, <2>2 DEF SweepInv, TypeInv, PlanType
<1>6. /\ OneLock'
      /\ OpenedThere'
  <2>1. \A p \in Profiles : prof'[p] # Missing /\ prof'[p].lock # 0
            => Present(p) /\ prof'[p].lock = prof[p].lock
      BY <1>3, <1>4 DEF Present
  <2>2. OneLock'
      BY <2>1 DEF SweepInv, OneLock, Present
  <2> QED
      BY <1>2, <2>1, <2>2 DEF SweepInv, OpenedThere, Present
<1>7. /\ WaitHere'
      /\ BusyAtWork'
      /\ AtRest'
  <2>1. \A p \in Profiles : prof'[p] # Missing /\ Old(p)'
            => p \notin build[b].want /\ Present(p) /\ prof'[p] = prof[p]
      BY <1>3, <1>4 DEF Old, Present
  <2>2. \A c \in Builds : build[c].want \subseteq Profiles
      BY DEF SweepInv, TypeInv
  <2>3. WaitHere'
      BY <1>2, <2>1, <2>2 DEF SweepInv, WaitHere, Old, Present
  <2>4. BusyAtWork'
      BY <1>2, <2>1, <2>2 DEF SweepInv, BusyAtWork, Old, Present
  <2> QED
      BY <1>2, <2>3, <2>4 DEF SweepInv, AtRest
<1>8. IdleIsStale' /\ RootsThere'
    BY <1>3, <1>4 DEF SweepInv, IdleIsStale, RootsThere, Present
<1>9. HeldIsLocked'
  <2>1. Opened' = Opened
      BY <1>2 DEF Opened
  <2> QED
      BY <1>1, <1>3, <1>4, <2>1 DEF SweepInv, HeldIsLocked, Present
<1>10. TodoIsLocked'
  <2>1. ASSUME pc = "quarantining", NEW p \in todo \ replaced, p \in build[b].want PROVE FALSE
    <3>1. p \in Profiles
        BY <2>1 DEF SweepInv, TypeInv
    <3>2. build[b].fds[p] # 0 /\ holder[build[b].fds[p]] = b
        BY <2>1 DEF BuildWork, Pending
    <3>3. build[b].fds[p] = prof[p].lock /\ holder[prof[p].lock] = "sweep"
        BY <2>1, <3>1, <3>2 DEF SweepInv, WaitHere, Old, TodoIsLocked
    <3> QED
        BY <3>2, <3>3, NobodyAssumption
  <2> QED
      BY <1>1, <1>3, <2>1 DEF SweepInv, TypeInv, TodoIsLocked, Present
<1>11. GroupIsOpen'
  <2> SUFFICES ASSUME pc \in {"waiting", "locked", "root checked"}
               PROVE  GroupIsOpen'
      BY <1>1 DEF GroupIsOpen
  <2>1. Current \in Profiles
      BY GroupIsOne DEF SweepInv, GroupIsOpen
  <2>2. Present(Current) => prof'[Current] # Missing /\ prof'[Current].lock = prof[Current].lock
      BY <1>3, <1>4, <2>1 DEF Present
  <2>3. ASSUME pc = "root checked", Current \notin replaced, Current \in build[b].want
        PROVE  FALSE
    <3>1. build[b].fds[Current] # 0 /\ holder[build[b].fds[Current]] = b
        BY <2>1, <2>3 DEF BuildWork, Pending
    <3>2. build[b].fds[Current] = fd /\ holder[fd] = "sweep"
        BY <2>1, <2>3, <3>1 DEF SweepInv, WaitHere, Old, GroupIsOpen
    <3> QED
        BY <3>1, <3>2, NobodyAssumption
  <2> QED
      BY <1>1, <1>3, <2>1, <2>2, <2>3, SameGroup DEF SweepInv, GroupIsOpen, Present
<1> QED
    BY <1>1, <1>5, <1>6, <1>7, <1>8, <1>9, <1>10, <1>11 DEF SweepInv

(* A build that ends has written to all it wanted, so no idle profile      *)
(* loses its last opener.                                                  *)
LEMMA BuildEndStep == ASSUME SweepInv, NEW b \in Builds, BuildEnd(b) PROVE SweepInv'
<1>1. UNCHANGED <<prof, trash, pc, plan, fd, got, todo, replaced>>
    BY DEF BuildEnd, sweeper
<1>2. /\ build'[b].want = {}
      /\ \A c \in Builds \ {b} : build'[c] = build[c]
    BY DEF BuildEnd, SweepInv, TypeInv
<1>3. \A k \in Locks : holder[k] = "sweep" => holder'[k] = "sweep"
    BY NobodyAssumption DEF BuildEnd
<1>4. TypeInv'
  <2>1. build' \in [Builds -> [at : {"idle", "locking", "building"}, want : SUBSET Profiles,
                               fds : [Profiles -> Locks \cup {0}]]]
      BY DEF BuildEnd, SweepInv, TypeInv
  <2>2. holder' \in [Locks -> Builds \cup {"sweep", Nobody}]
      BY DEF BuildEnd, SweepInv, TypeInv
  <2> QED
      BY <1>1, <2>1, <2>2 DEF SweepInv, TypeInv, PlanType
<1>5. OpenedThere' /\ WaitHere' /\ BusyAtWork' /\ AtRest'
    BY <1>1, <1>2 DEF SweepInv, OpenedThere, WaitHere, BusyAtWork, AtRest, Old, Present
<1>6. \A p \in Profiles : Present(p) => prof[p].lock \in Locks \cup {0}
    BY DEF SweepInv, TypeInv, Present, Profile
<1>7. HeldIsLocked'
  <2> SUFFICES ASSUME NEW p \in Profiles, pc = "held" \/ (pc = "locking" /\ p \in got),
                      Present(p), prof[p].idle, prof[p].lock # 0
               PROVE  holder'[prof[p].lock] = "sweep" \/ prof[p].lock \in Opened'
      BY <1>1 DEF HeldIsLocked, Present
  <2>1. CASE holder[prof[p].lock] = "sweep"
      BY <1>3, <1>6, <2>1
  <2>2. CASE prof[p].lock \in Opened
    <3>1. PICK c \in Builds : \E q \in build[c].want : prof[p].lock = build[c].fds[q]
        BY <2>2, OpenedMeans
    <3>2. p \in build[c].want /\ prof[p].lock = build[c].fds[p]
        BY <3>1 DEF SweepInv, OpenedThere
    <3>3. c # b
        BY <3>2 DEF SweepInv, BusyAtWork, Old, BuildEnd
    <3> QED
        BY <1>2, <3>2, <3>3 DEF Opened
  <2> QED
      BY <2>1, <2>2 DEF SweepInv, HeldIsLocked
<1>8. TodoIsLocked'
    BY <1>1, <1>3, <1>6 DEF SweepInv, TypeInv, TodoIsLocked, Present
<1>9. GroupIsOpen' /\ OneLock' /\ IdleIsStale' /\ RootsThere'
    BY <1>1, <1>3, SameGroup DEF SweepInv, TypeInv, GroupIsOpen, OneLock, IdleIsStale, RootsThere,
                                 Present
<1> QED
    BY <1>1, <1>4, <1>5, <1>7, <1>8, <1>9 DEF SweepInv

(* No profile ages that a build wants, or while the run looks at ages      *)
(* under its locks.                                                        *)
LEMMA AgeStep == ASSUME SweepInv, NEW p \in Profiles, Age(p) PROVE SweepInv'
<1>1. /\ UNCHANGED <<holder, build, trash, pc, plan, fd, got, todo, replaced>>
      /\ pc \notin Relying \ {"waiting"} /\ got = {}
    BY DEF Age, sweeper, Relying
<1>2. prof[p] \in Profile
    BY DEF Age, Present, SweepInv, TypeInv
<1>3. PICK root \in {"stale", "none"} :
          /\ prof'[p] = [lock |-> prof[p].lock, idle |-> TRUE, root |-> root,
                         itrash |-> prof[p].itrash]
          /\ root # "none" => prof[p].root # "none"
  <2>1. prof'[p] = [prof[p] EXCEPT !.idle = TRUE, !.root = IF @ = "fresh" THEN "stale" ELSE @]
      BY DEF Age, SweepInv, TypeInv
  <2>2. prof[p].root \in {"stale", "fresh", "none"}
      BY <1>2 DEF Profile, Ages
  <2> QED
      BY <1>2, <2>1, <2>2, Fields
<1>4. \A q \in Profiles \ {p} : prof'[q] = prof[q]
    BY DEF Age, SweepInv, TypeInv
<1>5. prof'[p] \in Profile /\ prof'[p] # Missing
  <2>1. prof'[p] \in Profile
      BY <1>2, <1>3 DEF Profile, Ages
  <2> QED
      BY <2>1, MissingAssumption
<1>6. prof' \in [Profiles -> Profile \cup {Missing}]
    BY <1>4, <1>5 DEF Age, SweepInv, TypeInv
<1>7. TypeInv'
    BY <1>1, <1>6 DEF SweepInv, TypeInv, PlanType
<1>8. Present(p) /\ \A b \in Builds : p \notin build[b].want
    BY DEF Age
<1>9. /\ OneLock' /\ OpenedThere'
      /\ WaitHere' /\ BusyAtWork' /\ AtRest'
  <2>1. \A q \in Profiles : prof'[q] # Missing => Present(q) /\ prof'[q].lock = prof[q].lock
      BY <1>3, <1>4, <1>8 DEF Present
  <2>2. OneLock' /\ OpenedThere'
      BY <1>1, <2>1 DEF SweepInv, OneLock, OpenedThere, Present
  <2>3. \A b \in Builds : \A q \in build[b].want : q \in Profiles /\ prof'[q] = prof[q]
      BY <1>4, <1>8 DEF SweepInv, TypeInv
  <2>4. WaitHere' /\ BusyAtWork' /\ AtRest'
      BY <1>1, <2>3 DEF SweepInv, WaitHere, BusyAtWork, AtRest, Old, Present
  <2> QED
      BY <2>2, <2>4
<1>10. IdleIsStale' /\ RootsThere'
    BY <1>3, <1>4, <1>8 DEF SweepInv, IdleIsStale, RootsThere, Present
<1>11. HeldIsLocked' /\ TodoIsLocked'
    BY <1>1 DEF HeldIsLocked, TodoIsLocked, Relying
<1>12. GroupIsOpen'
  <2> SUFFICES ASSUME pc = "waiting" PROVE GroupIsOpen'
      BY <1>1 DEF GroupIsOpen, Relying
  <2>1. Current \in Profiles
      BY GroupIsOne DEF SweepInv, GroupIsOpen
  <2>2. Present(Current) => prof'[Current] # Missing /\ prof'[Current].lock = prof[Current].lock
      BY <1>3, <1>4, <1>5, <2>1 DEF Present
  <2> QED
      BY <1>1, <2>2, SameGroup DEF SweepInv, GroupIsOpen, Present
<1> QED
    BY <1>1, <1>7, <1>9, <1>10, <1>11, <1>12 DEF SweepInv

(* What a user deletes the run can no longer rely on; the rest stays.      *)
LEMMA CleanStep == ASSUME SweepInv, NEW p \in Profiles, Clean(p) PROVE SweepInv'
<1>1. UNCHANGED <<holder, build, trash, pc, plan, fd, got, todo>>
    BY DEF Clean, sweeper
<1>2. prof'[p] = Missing /\ \A q \in Profiles \ {p} : prof'[q] = prof[q]
    BY DEF Clean, SweepInv, TypeInv
<1>3. TypeInv'
    BY <1>1 DEF Clean, SweepInv, TypeInv, PlanType
<1>4. /\ OneLock' /\ OpenedThere' /\ IdleIsStale' /\ RootsThere'
      /\ WaitHere' /\ BusyAtWork' /\ AtRest'
  <2>1. \A q \in Profiles : prof'[q] # Missing => Present(q) /\ prof'[q] = prof[q]
      BY <1>2 DEF Present
  <2>2. OneLock' /\ OpenedThere' /\ IdleIsStale' /\ RootsThere'
      BY <1>1, <2>1 DEF SweepInv, OneLock, OpenedThere, IdleIsStale, RootsThere, Present
  <2>3. \A b \in Builds : build[b].want \subseteq Profiles
      BY DEF SweepInv, TypeInv
  <2>4. WaitHere' /\ BusyAtWork' /\ AtRest'
      BY <1>1, <2>1, <2>3 DEF SweepInv, WaitHere, BusyAtWork, AtRest, Old, Present
  <2> QED
      BY <2>2, <2>4
<1>5. HeldIsLocked'
    BY <1>1, <1>2 DEF SweepInv, HeldIsLocked, Present, Opened
<1>6. pc \in Looked => replaced' = replaced \cup {p}
    BY DEF Clean
<1>7. TodoIsLocked'
    BY <1>1, <1>2, <1>6 DEF SweepInv, TypeInv, TodoIsLocked, Present, Looked
<1>8. GroupIsOpen'
  <2> SUFFICES ASSUME pc \in {"waiting", "locked", "root checked"}
               PROVE  GroupIsOpen'
      BY <1>1 DEF GroupIsOpen
  <2>1. Current \in Profiles
      BY GroupIsOne DEF SweepInv, GroupIsOpen
  <2>2. Current = p \/ prof'[Current] = prof[Current]
      BY <1>2, <2>1
  <2> QED
      BY <1>1, <1>6, <2>2, SameGroup DEF SweepInv, GroupIsOpen, Present, Looked
<1> QED
    BY <1>1, <1>3, <1>4, <1>5, <1>7, <1>8 DEF SweepInv

(* Every step preserves the invariant.                                     *)
LEMMA SweepStep == SweepInv /\ [Next]_vars => SweepInv'
<1> SUFFICES ASSUME SweepInv, [Next]_vars PROVE SweepInv'
    OBVIOUS
<1>1. CASE UNCHANGED vars
  <2>1. UNCHANGED <<prof, trash, holder, build, pc, plan, fd, got, todo, replaced>>
      BY <1>1 DEF vars
  <2>2. TypeInv'
      BY <2>1 DEF SweepInv, TypeInv, PlanType
  <2>3. HeldIsLocked' /\ TodoIsLocked' /\ GroupIsOpen'
      BY <2>1, SameGroup, WorldStands DEF SweepInv, HeldIsLocked, TodoIsLocked, GroupIsOpen, Present
  <2> QED
      BY <2>1, <2>2, <2>3, WorldStands DEF SweepInv
<1>2. CASE Plan
    BY <1>2, PlanStep
<1>3. CASE Sweep
    BY <1>3, IncrementalStep, LookStep, RootsStep, LockingStep, RelistStep, RecheckStep, QuarantineStep,
       ClosingStep DEF Sweep
<1>4. CASE QuarantineFails \/ RemovalFails \/ Crash
    BY <1>4, ClosingStep
<1>5. CASE \E b \in Builds : BuildStart(b) \/ BuildLock(b) \/ Build(b)
    BY <1>5, BuildStartStep, BuildOpenStep, BuildLockStep, BuildWorkStep, BuildEndStep DEF Build
<1>6. CASE \E p \in Profiles : Age(p) \/ Clean(p)
    BY <1>6, AgeStep, CleanStep
<1> QED
    BY <1>1, <1>2, <1>3, <1>4, <1>5, <1>6 DEF Next

(* The invariant holds in every state, for every set of profiles and       *)
(* builds.                                                                 *)
THEOREM SweepInvariance == Spec => []SweepInv
    BY InitHolds, SweepStep, PTL DEF Spec

(* Only the reset moves a profile to the quarantine of the target, and it  *)
(* moves one of its list.                                                  *)
LEMMA OnlyResetMoves ==
    ASSUME SweepInv, [Next]_vars, NEW p \in Profiles, Moved(p)
    PROVE  pc = "quarantining" /\ p \in todo
<1>1. trash' \ trash # {} /\ Present(p) /\ prof'[p] = Missing
    BY DEF Moved, Present
<1>2. QuarantineProfile
    BY <1>1 DEF Next, vars, Plan, Sweep, OpenGroup, LockGroup, GroupBusy, LookAtRoot, QuarantineRoot,
           RemoveRoots, RecoverTrash, ListLocks, LockNext, LocksBusy, Relist, Recheck, ReleaseLocks,
           RemoveProfiles, QuarantineFails, RemovalFails, Crash, Abort, End, Poll, run, sweeper,
           Build, BuildStart, BuildOpen, BuildLock, BuildWork, BuildEnd, Age, Clean
<1>3. First(todo) \in todo
    BY <1>2, FirstIsOne DEF QuarantineProfile, SweepInv, TypeInv
<1>4. prof' = [prof EXCEPT ![First(todo)] = Missing]
    BY <1>1, <1>2 DEF QuarantineProfile, Abort
<1>5. p = First(todo)
    BY <1>1, <1>4 DEF SweepInv, TypeInv, Present
<1> QED
    BY <1>2, <1>3, <1>5 DEF QuarantineProfile

(* Only the incremental sweep adds to the quarantine inside a profile, and *)
(* it adds the root of the profile it works on.                            *)
LEMMA OnlyRootsMove ==
    ASSUME SweepInv, [Next]_vars, NEW p \in Profiles, Present(p), Present(p)'
    PROVE  \/ prof'[p].itrash \subseteq prof[p].itrash
           \/ /\ pc = "root checked" /\ p = Current
              /\ prof'[p].itrash = prof[p].itrash \cup {prof[p].root}
<1>0. TypeInv /\ prof[p] \in Profile
    BY DEF SweepInv, TypeInv, Present
<1>1. CASE prof' = prof
    BY <1>1
<1>2. CASE QuarantineRoot /\ prof' # prof
  <2>1. /\ pc = "root checked" /\ Groups # {}
        /\ prof' = [prof EXCEPT ![Current].root = "none", ![Current].idle = FALSE,
                                ![Current].itrash = @ \cup {prof[Current].root}]
      BY <1>2 DEF QuarantineRoot, Abort, Current, SweepInv, GroupIsOpen
  <2>2. p # Current => prof'[p] = prof[p]
      BY <1>0, <2>1 DEF TypeInv
  <2>3. p = Current => prof'[p].itrash = prof[p].itrash \cup {prof[p].root}
    <3> SUFFICES ASSUME p = Current PROVE prof'[p].itrash = prof[p].itrash \cup {prof[p].root}
        OBVIOUS
    <3>1. PICK q, r : q = prof[p] /\ r = prof'[p]
        OBVIOUS
    <3>2. r = [q EXCEPT !.root = "none", !.idle = FALSE, !.itrash = @ \cup {q.root}]
        BY <1>0, <2>1, <3>1 DEF TypeInv
    <3>3. r.itrash = q.itrash \cup {q.root}
        BY <1>0, <3>1, <3>2 DEF Profile
    <3> QED
        BY <3>1, <3>3
  <2> QED
      BY <2>1, <2>2, <2>3
<1>3. CASE RemoveRoots /\ prof' # prof
  <2> DEFINE q == First(Groups)
  <2>1. prof' = [prof EXCEPT ![q].itrash = {}, ![q].idle = FALSE]
      BY <1>3 DEF RemoveRoots
  <2>2. p # q => prof'[p] = prof[p]
      BY <1>0, <2>1 DEF TypeInv
  <2>3. p = q => prof'[p] = [prof[p] EXCEPT !.itrash = {}, !.idle = FALSE]
      BY <1>0, <2>1 DEF TypeInv
  <2>4. p = q => prof'[p] = [lock |-> prof[p].lock, idle |-> FALSE, root |-> prof[p].root,
                             itrash |-> {}]
      BY <1>0, <2>3, Fields
  <2>5. p = q => prof'[p].itrash = {}
      BY <2>4
  <2> QED
      BY <2>2, <2>5
<1>4. CASE QuarantineProfile /\ prof' # prof
  <2>1. prof' = [prof EXCEPT ![First(todo)] = Missing]
      BY <1>4 DEF QuarantineProfile, Abort
  <2> QED
      BY <1>0, <2>1 DEF TypeInv, Present
<1>5. ASSUME NEW b \in Builds, BuildOpen(b) PROVE prof'[p].itrash = prof[p].itrash
  <2>1. PICK q, l : prof' = [prof EXCEPT ![q] = IF Present(q) THEN [prof[q] EXCEPT !.lock = l]
                                                ELSE NewProfile(l)]
      BY <1>5 DEF BuildOpen
  <2>2. prof'[p] \in {prof[p], [prof[p] EXCEPT !.lock = l]}
      BY <1>0, <2>1 DEF TypeInv
  <2> QED
      BY <1>0, <2>2 DEF Profile
<1>6. ASSUME NEW b \in Builds, BuildWork(b) PROVE prof'[p].itrash = prof[p].itrash
  <2>1. prof'[p] = IF p \notin build[b].want THEN prof[p]
                   ELSE [prof[p] EXCEPT !.idle = FALSE,
                                        !.root = IF p \in Incremental THEN "fresh" ELSE @]
      BY <1>6 DEF BuildWork
  <2>2. p \in build[b].want => prof'[p] = [lock |-> prof[p].lock, idle |-> FALSE,
              root |-> IF p \in Incremental THEN "fresh" ELSE prof[p].root,
              itrash |-> prof[p].itrash]
      BY <1>0, <2>1, Fields
  <2> QED
      BY <2>1, <2>2
<1>7. ASSUME NEW q \in Profiles, Age(q) PROVE prof'[p].itrash = prof[p].itrash
  <2>1. prof' = [prof EXCEPT ![q].idle = TRUE, ![q].root = IF @ = "fresh" THEN "stale" ELSE @]
      BY <1>7 DEF Age
  <2>2. p # q => prof'[p] = prof[p]
      BY <1>0, <2>1 DEF TypeInv
  <2>3. p = q => prof'[p] = [prof[p] EXCEPT !.idle = TRUE,
                                            !.root = IF @ = "fresh" THEN "stale" ELSE @]
      BY <1>0, <2>1 DEF TypeInv
  <2>4. p = q => prof'[p] = [lock |-> prof[p].lock, idle |-> TRUE,
              root |-> IF prof[p].root = "fresh" THEN "stale" ELSE prof[p].root,
              itrash |-> prof[p].itrash]
      BY <1>0, <2>3, Fields
  <2> QED
      BY <2>2, <2>4
<1>8. ASSUME NEW q \in Profiles, Clean(q) PROVE prof'[p] = prof[p]
    BY <1>0, <1>8 DEF Clean, TypeInv, Present
<1>9. \/ prof' = prof \/ QuarantineRoot \/ RemoveRoots \/ QuarantineProfile
      \/ \E b \in Builds : BuildOpen(b) \/ BuildWork(b)
      \/ \E q \in Profiles : Age(q) \/ Clean(q)
    BY DEF Next, vars, Plan, Sweep, OpenGroup, LockGroup, GroupBusy, LookAtRoot,
           RecoverTrash, ListLocks, LockNext, LocksBusy, Relist, Recheck, ReleaseLocks,
           RemoveProfiles, QuarantineFails, RemovalFails, Crash, Abort, End, Poll, run, sweeper,
           Build, BuildStart, BuildLock, BuildEnd
<1> QED
    BY <1>1, <1>2, <1>3, <1>4, <1>5, <1>6, <1>7, <1>8, <1>9

(* Whatever execute_incremental_sweep or execute_cargo_profile_reset moves *)
(* into a quarantine has been inactive for its window at that moment,      *)
(* unless a user deleted the profile since the run looked at it.           *)
THEOREM QuarantineSafety == Spec => OnlyInactiveIsQuarantined
<1>1. ASSUME SweepInv, [Next]_vars, NEW p \in Profiles \ replaced
      PROVE  /\ Moved(p) => prof[p].idle /\ prof[p].root # "fresh"
             /\ Present(p) /\ Present(p)' => prof[p].itrash' \ prof[p].itrash \subseteq {"stale"}
  <2>1. Moved(p) => prof[p].idle /\ prof[p].root # "fresh"
      BY <1>1, OnlyResetMoves DEF SweepInv, TodoIsLocked, IdleIsStale
  <2>2. Present(p) /\ Present(p)' => prof[p].itrash' \ prof[p].itrash \subseteq {"stale"}
      BY <1>1, OnlyRootsMove DEF SweepInv, GroupIsOpen
  <2> QED
      BY <2>1, <2>2
<1>2. SweepInv /\ [Next]_vars =>
          [\A p \in Profiles \ replaced :
              /\ Moved(p) => prof[p].idle /\ prof[p].root # "fresh"
              /\ Present(p) /\ Present(p)' =>
                   prof[p].itrash' \ prof[p].itrash \subseteq {"stale"}]_vars
    BY <1>1
<1> QED
    BY <1>2, SweepInvariance, PTL DEF Spec, OnlyInactiveIsQuarantined

(* execute_cargo_profile_reset moves no profile away while a build holds   *)
(* the lock in it, unless a user deleted that profile since the recheck.   *)
THEOREM BuildSafety == Spec => BuildKeepsItsProfile
<1>1. ASSUME SweepInv, [Next]_vars, NEW p \in Profiles \ replaced, Moved(p)
      PROVE  prof[p].lock \notin {l \in Locks : holder[l] \in Builds}
    BY <1>1, OnlyResetMoves, NobodyAssumption DEF SweepInv, TodoIsLocked
<1>2. SweepInv /\ [Next]_vars =>
          [\A p \in Profiles \ replaced :
              Moved(p) => prof[p].lock \notin {l \in Locks : holder[l] \in Builds}]_vars
    BY <1>1
<1> QED
    BY <1>2, SweepInvariance, PTL DEF Spec, BuildKeepsItsProfile
=============================================================================
