--------------------------- MODULE CollectorsProofs ---------------------------
(***************************************************************************)
(* What the report-only collectors and the storage inventory promise, for  *)
(* any worlds, budgets and changes around them: what a report calls        *)
(* complete is what is there, and a share of the budget is as fair as the  *)
(* code says.                                                              *)
(*                                                                         *)
(* Each of them looks once and reports later, so each invariant says of    *)
(* every stage what of the world is already found and what is still ahead: *)
(* GeneratedInv of the measurements of a run, SessionsInv of the walk of   *)
(* the stores and of the rows of the index, CutInv of the manifests,       *)
(* MeasuredInv of the units of a gateway report, InventoryInv of the files *)
(* and entries a traversal counted, has before it, or lost.                *)
(***************************************************************************)
EXTENDS Collectors, Inventory, Integers, FiniteSetTheorems, WellFoundedInduction, TLAPS

-----------------------------------------------------------------------------
(* Shares of a budget *)

\* A share is rounded up, by less than one.
LEMMA CeilDivFacts ==
    ASSUME NEW a \in Nat, NEW b \in Nat \ {0}
    PROVE  /\ CeilDiv(a, b) \in Nat
           /\ b * CeilDiv(a, b) >= a
           /\ b * CeilDiv(a, b) <= a + b - 1
<1> DEFINE n == a + b - 1
<1>1. n \in Nat  OBVIOUS
<1> HIDE DEF n
<1>2. n \div b \in Nat /\ n = b * (n \div b) + (n % b) /\ n % b \in 0 .. b - 1
  BY <1>1
<1> QED  BY <1>1, <1>2 DEF CeilDiv, n

\* Whoever takes no more than a rounded-up share leaves each of the others any
\* amount that was there for all of them.
LEMMA ShareFacts ==
    ASSUME NEW rest \in Nat, NEW k \in Nat \ {0}, NEW s \in Nat, s * k <= rest, NEW v \in Nat, v <= CeilDiv(rest, k)
    PROVE  /\ CeilDiv(rest, k) \in Nat
           /\ s <= CeilDiv(rest, k)
           /\ CeilDiv(rest, k) <= rest
           /\ s * (k - 1) <= rest - v
<1> DEFINE q == CeilDiv(rest, k)
           r == rest - s * k
<1>1. q \in Nat /\ k * q >= rest /\ k * q <= rest + k - 1  BY CeilDivFacts
<1>2. r \in Nat /\ rest = s * k + r  OBVIOUS
<1> HIDE DEF q, r
<1>3. s <= q
  <2> SUFFICES ASSUME q + 1 <= s PROVE FALSE  BY <1>1
  <2>1. k * (q + 1) <= k * s  BY <1>1
  <2>2. k * (q + 1) = k * q + k  BY <1>1
  <2> QED  BY <1>1, <2>1, <2>2
<1> DEFINE t == q - s
<1>4. t \in Nat /\ q = s + t  BY <1>1, <1>3
<1> HIDE DEF t
<1>5. t <= r
  <2> SUFFICES ASSUME r + 1 <= t PROVE FALSE  BY <1>2, <1>4
  <2>1. k * (r + 1) <= k * t  BY <1>2, <1>4
  <2>2. k * q = k * s + k * t /\ k * (r + 1) = k * r + k  BY <1>1, <1>2, <1>4
  <2>3. k * r >= r  BY <1>2
  <2>4. k * s = s * k /\ s * k \in Nat /\ k * r \in Nat /\ k * t \in Nat /\ k * q \in Nat  BY <1>1, <1>2, <1>4
  <2> QED  BY <1>1, <1>2, <1>4, <2>1, <2>2, <2>3, <2>4
<1>6. s * (k - 1) = s * k - s /\ s * k \in Nat  OBVIOUS
<1>7. s <= s * k  OBVIOUS
<1> QED  BY <1>1, <1>2, <1>3, <1>4, <1>5, <1>6, <1>7 DEF q

-----------------------------------------------------------------------------
(* Discovery *)

LEMMA LeastExists ==
    ASSUME NEW S, S \subseteq Nat, S # {}
    PROVE  \E m \in S : \A n \in S : m <= n
<1>1. IsWellFoundedOn(OpToRel(<, Nat), Nat)
  BY NatLessThanWellFounded, Zenon
<1>2. PICK m \in S : \A n \in S : ~(<<n, m>> \in OpToRel(<, Nat))
  BY <1>1, WFMin, Zenon
<1>3. \A n \in S : ~(n < m)
  BY <1>2 DEF OpToRel
<1> QED  BY <1>3

\* What the discovery of one root may yield.
Findings == {Discovery(r, b) : r \in DOMAIN Walk, b \in Int}

\* A root that was discovered completely was walked to its end.
LEMMA CompleteFindings ==
    ASSUME NEW d \in Findings
    PROVE  /\ d.visited \in Int
           /\ d.complete => ToSet(Walk[d.root]) \ {"plain"} \subseteq d.repos
<1>1. PICK r \in DOMAIN Walk, b \in Int : d = Discovery(r, b)
  BY DEF Findings
<1> DEFINE w == Walk[r]
           n == Least(b, Len(w))
           met == {w[k] : k \in 1 .. n}
<1>2. w \in Seq(ToSet(w)) /\ Len(w) \in Nat /\ DOMAIN w = 1 .. Len(w)
  <2>1. w \in Seq(ToSet(w))  BY WalkAssumption
  <2> HIDE DEF w
  <2> QED  BY <2>1
<1>3. d = [root |-> r, repos |-> met \ {"plain", "broken"}, visited |-> n,
           complete |-> b > 0 /\ Len(w) <= b /\ "broken" \notin met]
  BY <1>1 DEF Discovery
<1>4. n \in Int  BY <1>2 DEF Least
<1>5. ASSUME Len(w) <= b PROVE ToSet(w) = met
  <2>1. \A i, j \in Int : i <= j => Least(j, i) = i  BY DEF Least
  <2> HIDE DEF w
  <2>2. n = Len(w)  BY <2>1, <1>2, <1>5
  <2> QED  BY <2>2, <1>2 DEF ToSet
<1> QED  BY <1>3, <1>4, <1>5

\* The recursion of Discovered has a solution, up to each of the roots.
LEMMA Recursion ==
    ASSUME NEW request, NEW n \in Nat
    PROVE  \E D : D = [k \in 0 .. n |-> IF k = 0 THEN [left |-> MaxDiscovery, roots |-> <<>>]
                                         ELSE DiscoverRoot(request, k, D[k - 1])]
<1> DEFINE Start == [left |-> MaxDiscovery, roots |-> <<>>]
           Solves(D, m) == D = [k \in 0 .. m |-> IF k = 0 THEN Start ELSE DiscoverRoot(request, k, D[k - 1])]
           Unsolved == {m \in Nat : ~ \E D : Solves(D, m)}
<1> HIDE DEF Start
<1>1. SUFFICES ASSUME Unsolved # {} PROVE FALSE
  BY DEF Start
<1>2. PICK m \in Unsolved : \A i \in Unsolved : m <= i
  BY <1>1, LeastExists
<1>3. CASE m = 0
  <2> DEFINE D == [k \in 0 .. 0 |-> Start]
  <2>1. Solves(D, 0)  OBVIOUS
  <2> QED  BY <2>1, <1>2, <1>3
<1>4. CASE m # 0
  <2>1. m - 1 \in Nat /\ m - 1 \notin Unsolved  BY <1>2, <1>4
  <2>2. PICK D : Solves(D, m - 1)  BY <2>1
  <2> DEFINE E == [k \in 0 .. m |-> IF k = m THEN DiscoverRoot(request, m, D[m - 1]) ELSE D[k]]
  <2>3. ASSUME NEW k \in 0 .. m
        PROVE  E[k] = IF k = 0 THEN Start ELSE DiscoverRoot(request, k, E[k - 1])
    <3>1. CASE k = m
      <4>1. E[k - 1] = D[m - 1] /\ E[k] = DiscoverRoot(request, m, D[m - 1])  BY <3>1, <2>1
      <4> QED  BY <4>1, <3>1, <1>4
    <3>2. CASE k # m
      <4>1. k \in 0 .. m - 1 /\ E[k] = D[k]  BY <3>2, <2>1
      <4>2. D[k] = IF k = 0 THEN Start ELSE DiscoverRoot(request, k, D[k - 1])  BY <4>1, <2>2
      <4>3. k # 0 => k - 1 \in 0 .. m /\ k - 1 # m  BY <4>1
      <4>4. k # 0 => E[k - 1] = D[k - 1]  BY <4>3
      <4> QED  BY <4>1, <4>2, <4>4
    <3> QED  BY <3>1, <3>2
  <2>4. Solves(E, m)
    <3>1. DOMAIN E = 0 .. m /\ E = [k \in 0 .. m |-> E[k]]  OBVIOUS
    <3> HIDE DEF E
    <3> QED  BY <3>1, <2>3
  <2> HIDE DEF E
  <2> QED  BY <2>4, <1>2
<1> QED  BY <1>3, <1>4

\* Whatever is discovered is what the walks of the roots yield.
LEMMA DiscoveredAreFindings ==
    ASSUME NEW request \in Requests
    PROVE  Discovered(request) \in Seq(Findings)
<1> DEFINE n == Len(request)
           Start == [left |-> MaxDiscovery, roots |-> <<>>]
           Solves(F) == F = [k \in 0 .. n |-> IF k = 0 THEN Start ELSE DiscoverRoot(request, k, F[k - 1])]
           D == CHOOSE F : Solves(F)
           Sound(m) == D[m].left \in Int /\ D[m].roots \in Seq(Findings)
           Unsound == {m \in Nat : m <= n /\ ~ Sound(m)}
<1>1. request \in Seq(DOMAIN Walk) /\ n \in Nat  BY WalkAssumption
<1>2. Solves(D)
  <2>1. \E F : Solves(F)  BY <1>1, Recursion
  <2> HIDE DEF Solves
  <2> QED  BY <2>1
<1>3. Discovered(request) = D[n].roots  BY DEF Discovered
<1> HIDE DEF D
<1>4. ASSUME NEW m \in 0 .. n
      PROVE  D[m] = IF m = 0 THEN Start ELSE DiscoverRoot(request, m, D[m - 1])
  <2> HIDE DEF Start
  <2> QED  BY <1>1, <1>2
<1>5. Start.left \in Int /\ Start.roots \in Seq(Findings)
  <2>1. Start.left = MaxDiscovery /\ Start.roots = <<>>  OBVIOUS
  <2> QED  BY <2>1, BudgetsAssumption
<1> HIDE DEF Start, Solves
<1>6. ASSUME Unsound # {} PROVE FALSE
  <2>1. PICK m \in Unsound : \A i \in Unsound : m <= i  BY <1>6, LeastExists
  <2>2. CASE m = 0
    <3>1. D[0] = Start  BY <1>1, <1>4
    <3> QED  BY <3>1, <2>1, <2>2, <1>5
  <2>3. CASE m # 0
    <3>1. m - 1 \in Nat /\ m - 1 <= n /\ m \in 1 .. n  BY <2>1, <2>3, <1>1
    <3>2. Sound(m - 1)  BY <3>1, <2>1
    <3>3. D[m] = DiscoverRoot(request, m, D[m - 1])  BY <3>1, <1>1, <1>4, <2>3
    <3> DEFINE b == Least(CeilDiv(D[m - 1].left, n - m + 1), PerRootDiscovery)
               one == Discovery(request[m], b)
    <3>4. b \in Int
      <4>1. n - m + 1 \in Nat \ {0} /\ D[m - 1].left + (n - m + 1) - 1 \in Int  BY <3>1, <3>2, <1>1
      <4>2. CeilDiv(D[m - 1].left, n - m + 1) \in Int  BY <4>1 DEF CeilDiv
      <4> QED  BY <4>2, BudgetsAssumption DEF Least
    <3>5. one \in Findings  BY <3>1, <3>4, <1>1 DEF Findings
    <3>6. one.visited \in Int  BY <3>5, CompleteFindings
    <3>7. D[m].left = D[m - 1].left - one.visited /\ D[m].roots = Append(D[m - 1].roots, one)
      BY <3>3 DEF DiscoverRoot
    <3> HIDE DEF one
    <3>8. Sound(m)  BY <3>2, <3>5, <3>6, <3>7
    <3> QED  BY <3>8, <2>1
  <2> QED  BY <2>2, <2>3
<1>7. Sound(n)  BY <1>1, <1>6
<1> QED  BY <1>3, <1>7

-----------------------------------------------------------------------------
(* Measurements *)

\* A measurement is made of these fields.
IsMeasurement(m) ==
    m = [source |-> m.source, identity |-> m.identity, stamp |-> m.stamp, attempts |-> m.attempts,
         complete |-> m.complete, visited |-> m.visited, hint |-> m.hint]

\* A complete one was made by this run, and what it covers is there unless touched.
IsCurrent(a, m) == m.complete => m.source = "CurrentRun" /\ (a \in touched \/ m.visited = size[a])

GeneratedTypes ==
    /\ asked \in Requests
    /\ phase \in {"idle", "measure"}
    /\ size \in [Artifacts -> Nat]
    /\ remaining \in Nat
    /\ DOMAIN artifacts \subseteq Artifacts /\ todo \subseteq DOMAIN artifacts
    /\ \A a \in DOMAIN artifacts : IsMeasurement(artifacts[a])
    /\ \A a \in DOMAIN manifest.artifacts : IsMeasurement(manifest.artifacts[a])

\* During a run and after it, its measurements are current; after it, those of
\* the manifest are.
CurrentInv ==
    /\ phase = "measure" => \A a \in DOMAIN artifacts : IsCurrent(a, artifacts[a])
    /\ phase = "idle" => \A a \in DOMAIN manifest.artifacts : IsCurrent(a, manifest.artifacts[a])

\* Among the run's directories are all of the repositories it found and classified.
FoundInv ==
    phase = "measure" =>
        /\ found \in Seq(Findings)
        /\ \A a \in Artifacts : RepoOf[a] \in Repositories(found) \ failed => a \in DOMAIN artifacts

\* What a complete root covers.
IsCovered(r) ==
    r.complete => \A a \in Artifacts :
        RepoOf[a] \in ToSet(Walk[r.root]) =>
            /\ a \in r.artifacts \ unowned
            /\ a \in DOMAIN manifest.artifacts /\ manifest.artifacts[a].complete

RootsInv == phase = "idle" => \A k \in DOMAIN manifest.roots : IsCovered(manifest.roots[k])

GeneratedInv == GeneratedTypes /\ CurrentInv /\ FoundInv /\ RootsInv

LEMMA GeneratedInitially ==
    ASSUME Init
    PROVE  GeneratedInv
<1>1. PICK w \in Worlds, request \in Requests : InitWith(w, request)
  BY DEF Init
<1>2. DOMAIN artifacts = {} /\ DOMAIN manifest.artifacts = {} /\ DOMAIN manifest.roots = {}
  BY <1>1 DEF InitWith, NoManifest
<1>3. GeneratedTypes  BY <1>1, <1>2, SizesAssumption DEF InitWith, GeneratedTypes
<1> QED  BY <1>1, <1>2, <1>3 DEF InitWith, GeneratedInv, CurrentInv, FoundInv, RootsInv

\* No run begins with a complete measurement.
LEMMA SeedsAreIncomplete ==
    ASSUME GeneratedTypes, NEW a, NEW resume \in BOOLEAN
    PROVE  IsMeasurement(Seeded(a, resume)) /\ ~Seeded(a, resume).complete
<1>1. CASE resume /\ Carried(a)
  <2> DEFINE prior == manifest.artifacts[a]
  <2>1. IsMeasurement(prior) /\ ~prior.complete
    BY <1>1 DEF Carried, IsComplete, GeneratedTypes
  <2>2. Seeded(a, resume) = [prior EXCEPT !.source = "PriorManifest"]  BY <1>1 DEF Seeded
  <2> HIDE DEF prior
  <2> QED  BY <2>1, <2>2 DEF IsMeasurement
<1>2. CASE ~(resume /\ Carried(a))
  BY <1>2 DEF Seeded, Pending, IsMeasurement
<1> QED  BY <1>1, <1>2

LEMMA BeginRunKeepsInv ==
    ASSUME GeneratedInv, NEW resume \in BOOLEAN, NEW bad, NEW blind, BeginRun(resume, bad, blind)
    PROVE  GeneratedInv'
<1> DEFINE listed == {a \in Artifacts : RepoOf[a] \in Repositories(found') \ bad}
           seeded == [a \in listed |-> Seeded(a, resume)]
<1>1. /\ found' = Discovered(asked) /\ failed' = bad /\ artifacts' = seeded
      /\ todo' = {a \in listed : ~IsComplete(seeded[a])}
      /\ remaining' = MaxEntries /\ phase' = "measure"
      /\ UNCHANGED <<size, asked, manifest>>
  BY DEF BeginRun, world
<1>2. \A a \in listed : IsMeasurement(seeded[a]) /\ ~seeded[a].complete
  BY SeedsAreIncomplete DEF GeneratedInv
<1>3. GeneratedTypes'
  BY <1>1, <1>2, BudgetsAssumption DEF GeneratedInv, GeneratedTypes, IsMeasurement
<1>4. CurrentInv'  BY <1>1, <1>2 DEF CurrentInv, IsCurrent
<1>5. FoundInv'
  <2>1. found' \in Seq(Findings)  BY <1>1, DiscoveredAreFindings DEF GeneratedInv, GeneratedTypes
  <2> QED  BY <1>1, <2>1 DEF FoundInv
<1>6. RootsInv'  BY <1>1 DEF RootsInv
<1> QED  BY <1>3, <1>4, <1>5, <1>6 DEF GeneratedInv

LEMMA ArtifactKeepsInv ==
    ASSUME GeneratedInv, NEW a \in Artifacts, NEW fine \in BOOLEAN, NEW pending \in BOOLEAN,
           Measure(a, fine, pending)
    PROVE  GeneratedInv'
<1> DEFINE n == Least(Budget, size[a])
           new == [source |-> "CurrentRun", identity |-> looked.id[a], stamp |-> looked.stamp[a],
                   attempts |-> IF prefer THEN Least(artifacts[a].attempts + 1, AttemptCap) ELSE artifacts[a].attempts,
                   complete |-> fine /\ Finishes(size[a], Budget, pending), visited |-> n, hint |-> n]
<1>1. /\ phase = "measure" /\ a \in todo /\ Budget > 0
      /\ artifacts' = [artifacts EXCEPT ![a] = new]
      /\ remaining' = remaining - n /\ todo' = todo \ {a}
      /\ UNCHANGED <<size, touched, asked, phase, found, failed, unowned, manifest>>
  BY DEF Measure, IsNext, world, plan
<1>2. size[a] \in Nat /\ remaining \in Nat /\ a \in DOMAIN artifacts
  BY <1>1 DEF GeneratedInv, GeneratedTypes
<1>3. Budget \in Nat /\ Budget <= remaining
  <2>1. CeilDiv(remaining, Cardinality(todo)) \in Nat /\ CeilDiv(remaining, Cardinality(todo)) <= remaining
    <3>1. IsFiniteSet(todo) /\ Cardinality(todo) \in Nat /\ Cardinality(todo) # 0
      <4>1. todo \in SUBSET Artifacts  BY DEF GeneratedInv, GeneratedTypes
      <4>2. IsFiniteSet(todo)  BY <4>1, FS_Subset, ArtifactsAssumption
      <4> QED  BY <4>2, <1>1, FS_CardinalityType, FS_EmptySet
    <3>2. CeilDiv(remaining, Cardinality(todo)) \in Nat  BY <3>1, <1>2, CeilDivFacts
    <3>3. 0 * Cardinality(todo) <= remaining  BY <3>1, <1>2
    <3> QED  BY <3>1, <3>2, <3>3, <1>2, ShareFacts
  <2> QED  BY <2>1, <1>2, BudgetsAssumption DEF Budget, Least
<1>4. n \in Nat /\ n <= Budget /\ (size[a] <= Budget => n = size[a])
  BY <1>2, <1>3 DEF Least
<1>5. Finishes(size[a], Budget, pending) => n = size[a]  BY <1>2, <1>3, <1>4 DEF Finishes
<1> HIDE DEF n
<1>6. IsMeasurement(new) /\ (new.complete => new.source = "CurrentRun" /\ new.visited = size[a])
  BY <1>5 DEF IsMeasurement
<1> HIDE DEF new
<1>7. DOMAIN artifacts' = DOMAIN artifacts
      /\ \A b \in DOMAIN artifacts : artifacts'[b] = IF b = a THEN new ELSE artifacts[b]
  BY <1>1, <1>2
<1>8. GeneratedTypes'
  <2>1. remaining' \in Nat  BY <1>1, <1>2, <1>3, <1>4
  <2> QED  BY <2>1, <1>1, <1>6, <1>7 DEF GeneratedInv, GeneratedTypes, IsMeasurement
<1>9. CurrentInv'
  <2>1. \A b \in DOMAIN artifacts : IsCurrent(b, artifacts[b])  BY <1>1 DEF GeneratedInv, CurrentInv
  <2> QED  BY <2>1, <1>1, <1>6, <1>7 DEF CurrentInv, IsCurrent
<1>10. FoundInv' /\ RootsInv'
  BY <1>1, <1>7 DEF GeneratedInv, FoundInv, RootsInv
<1> QED  BY <1>8, <1>9, <1>10 DEF GeneratedInv

\* What the manifest says of a root follows from what the run found below it.
LEMMA ManifestKeepsInv ==
    ASSUME GeneratedInv, FinishRun
    PROVE  GeneratedInv'
<1>1. /\ phase = "measure" /\ phase' = "idle"
      /\ manifest'.artifacts = artifacts
      /\ manifest'.roots = [k \in DOMAIN found |-> RootCoverage(found[k])]
      /\ UNCHANGED <<size, touched, asked, found, failed, unowned, artifacts, todo, remaining>>
  BY DEF FinishRun, world, plan
<1>2. GeneratedTypes'  BY <1>1 DEF GeneratedInv, GeneratedTypes, IsMeasurement
<1>3. CurrentInv'  BY <1>1 DEF GeneratedInv, CurrentInv, IsCurrent
<1>4. FoundInv'  BY <1>1 DEF FoundInv
<1>5. ASSUME NEW k \in DOMAIN found, RootCoverage(found[k]).complete,
             NEW a \in Artifacts, RepoOf[a] \in ToSet(Walk[found[k].root])
      PROVE  /\ a \in RootCoverage(found[k]).artifacts \ unowned
             /\ a \in DOMAIN artifacts /\ artifacts[a].complete
  <2> DEFINE d == found[k]
             mine == {b \in DOMAIN artifacts : RepoOf[b] \in d.repos}
  <2>1. /\ d.complete /\ d.repos \cap failed = {} /\ mine \cap unowned = {}
        /\ \A b \in mine : artifacts[b].complete
        /\ RootCoverage(d).artifacts = mine
    BY <1>5 DEF RootCoverage, IsComplete
  <2>2. d \in Findings  BY <1>1 DEF GeneratedInv, FoundInv
  <2>3. RepoOf[a] \in d.repos  BY <2>1, <2>2, <1>5, CompleteFindings, ArtifactsAssumption
  <2>4. RepoOf[a] \in Repositories(found) \ failed  BY <2>1, <2>3 DEF Repositories
  <2>5. a \in mine  BY <2>3, <2>4, <1>1 DEF GeneratedInv, FoundInv
  <2> QED  BY <2>1, <2>5
<1>6. RootsInv'
  <2>1. \A k \in DOMAIN found : RootCoverage(found[k]).root = found[k].root  BY DEF RootCoverage
  <2> SUFFICES ASSUME NEW k \in DOMAIN manifest'.roots PROVE IsCovered(manifest.roots[k])'
    BY DEF RootsInv
  <2>2. k \in DOMAIN found /\ manifest'.roots[k] = RootCoverage(found[k])  BY <1>1
  <2> QED  BY <1>1, <1>5, <2>1, <2>2 DEF IsCovered
<1> QED  BY <1>2, <1>3, <1>4, <1>6 DEF GeneratedInv

LEMMA ChangeKeepsInv ==
    ASSUME GeneratedInv, NEW a \in Artifacts, NEW n \in Sizes, NEW shallow, NEW rebuilt,
           Change(a, n, shallow, rebuilt)
    PROVE  GeneratedInv'
<1>1. /\ size' = [size EXCEPT ![a] = n] /\ touched' = touched \cup {a}
      /\ UNCHANGED <<asked, phase, found, failed, unowned, artifacts, todo, remaining, manifest>>
  BY DEF Change, plan
<1>2. size' \in [Artifacts -> Nat]  BY <1>1, SizesAssumption DEF GeneratedInv, GeneratedTypes
<1>3. GeneratedTypes'  BY <1>1, <1>2 DEF GeneratedInv, GeneratedTypes, IsMeasurement
<1>4. ASSUME NEW b, NEW m, IsCurrent(b, m) PROVE IsCurrent(b, m)'
  <2>1. b # a => size'[b] = size[b]
    BY <1>1 DEF GeneratedInv, GeneratedTypes
  <2> QED  BY <2>1, <1>1, <1>4 DEF IsCurrent
<1>5. CurrentInv'  BY <1>1, <1>4 DEF GeneratedInv, CurrentInv
<1>6. FoundInv' /\ RootsInv'  BY <1>1 DEF GeneratedInv, FoundInv, RootsInv, IsCovered
<1> QED  BY <1>3, <1>5, <1>6 DEF GeneratedInv

LEMMA SkippingKeepsInv ==
    ASSUME GeneratedInv, NEW a, OutOfBudget(a) \/ CannotMeasure(a) \/ UNCHANGED vars
    PROVE  GeneratedInv'
<1>1. /\ todo' \subseteq todo
      /\ UNCHANGED <<size, touched, asked, phase, found, failed, unowned, artifacts, remaining, manifest>>
  BY DEF OutOfBudget, CannotMeasure, vars, world, plan
<1> QED
  BY <1>1 DEF GeneratedInv, GeneratedTypes, IsMeasurement, CurrentInv, IsCurrent, FoundInv, RootsInv, IsCovered

LEMMA GeneratedStep == GeneratedInv /\ [Next]_vars => GeneratedInv'
<1> SUFFICES ASSUME GeneratedInv, [Next]_vars PROVE GeneratedInv'
  OBVIOUS
<1>1. CASE Run
  BY <1>1, BeginRunKeepsInv, ArtifactKeepsInv, SkippingKeepsInv, ManifestKeepsInv DEF Run
<1>2. CASE Builds  BY <1>2, ChangeKeepsInv DEF Builds
<1>3. CASE UNCHANGED vars  BY <1>3, SkippingKeepsInv
<1> QED  BY <1>1, <1>2, <1>3 DEF Next

\* A complete measurement covers what is there (Generated, CompleteIsCurrent).
THEOREM Currency == Spec => []CompleteIsCurrent
<1>1. GeneratedInv => CompleteIsCurrent
  BY DEF GeneratedInv, CurrentInv, IsCurrent, CompleteIsCurrent
<1> QED  BY <1>1, GeneratedInitially, GeneratedStep, PTL DEF Spec

\* A complete root hides no directory (Generated, CompleteRootsHideNothing).
THEOREM RootCompleteness == Spec => []CompleteRootsHideNothing
<1>1. GeneratedInv => CompleteRootsHideNothing
  BY DEF GeneratedInv, CurrentInv, IsCurrent, RootsInv, IsCovered, CompleteRootsHideNothing
<1> QED  BY <1>1, GeneratedInitially, GeneratedStep, PTL DEF Spec

-----------------------------------------------------------------------------
(* The stores *)

\* What stood since the query still stands, and no file lies beside the directories.
StoreInv ==
    /\ stood \subseteq disk
    /\ \A f \in disk : f.dir \in {Day, "archived"}

\* A directory still to be read.
Queued(d) == \E i \in 1 .. Len(queue) : queue[i] = d

\* What the walk has found, is about to look at, or will come to.
Ahead(f) ==
    \/ f \in sessionFiles \cup leftovers \cup listing
    \/ Queued(f.dir)
    \/ f.dir = Day /\ (Queued("sessions") \/ DayEntry \in listing)

\* While nothing has been left behind, all that stands lies ahead or has been found.
WalkInv ==
    /\ queue \in Seq({"sessions", "archived", Day})
    /\ here = "none" => listing = {}
    /\ stage = "walk" /\ whole => \A f \in stood : Ahead(f)
    /\ stage \in {"correlate", "measure", "done"} /\ whole => stood \subseteq sessionFiles \cup leftovers

\* Unless something failed, each row has its file or waits for it, and each file
\* that was charged to the budget was read.
RowsInv ==
    /\ stage \in {"idle", "walk"} => correlated = <<>> /\ missing = {}
    /\ stage = "correlate" /\ ~failing /\ missing = {} => DOMAIN rows = DOMAIN correlated \cup unresolved
    /\ stage \in {"measure", "done"} /\ ~failing /\ missing = {} =>
            DOMAIN rows = DOMAIN correlated /\ unresolved = {}
    /\ \A t \in DOMAIN correlated :
            /\ correlated[t] \in sessionFiles
            /\ correlated[t].thread = t
            /\ correlated[t].dir = RootOfStore(rows[t].archived)
    /\ ~failing => tried \subseteq measured

\* The budget covers what was visited and what was measured.
BudgetInv ==
    /\ maxEntries \in Nat /\ visited \in 0 .. maxEntries
    /\ IsFiniteSet(tried)
    /\ stage \in {"idle", "walk", "correlate"} => tried = {}
    /\ tried \subseteq sessionFiles
    /\ visited + Cardinality(tried) <= maxEntries

\* A complete report was made when all of this said so.
ReportInv ==
    report.complete =>
        /\ stage = "done" /\ whole /\ ~failing /\ missing = {} /\ leftovers = {}
        /\ sessionFiles = {correlated[t] : t \in DOMAIN correlated}
        /\ sessionFiles \subseteq tried \cup unresolved

SessionsInv == StoreInv /\ WalkInv /\ RowsInv /\ BudgetInv /\ ReportInv

LEMMA InitialSessions ==
    ASSUME SessionsInit
    PROVE  SessionsInv
<1>1. PICK s \in SessionStores, max \in SessionBudgets : SessionsWith(s, max)
  BY DEF SessionsInit
<1>2. StoreInv  BY <1>1, StoresAssumption DEF SessionsWith, StoreInv
<1>3. WalkInv  BY <1>1 DEF SessionsWith, WalkInv, EmptyWalk
<1>4. RowsInv  BY <1>1 DEF SessionsWith, RowsInv
<1>5. BudgetInv  BY <1>1, StoresAssumption, FS_EmptySet DEF SessionsWith, BudgetInv, EmptyWalk
<1>6. ReportInv  BY <1>1 DEF SessionsWith, ReportInv, NoReport
<1> QED  BY <1>2, <1>3, <1>4, <1>5, <1>6 DEF SessionsInv

-----------------------------------------------------------------------------
(* The walk *)

\* A directory that is queued stays so until it is at the head.
LEMMA QueueFacts ==
    ASSUME WalkInv
    PROVE  /\ queue # <<>> => \A d : Queued(d) =>
                 d = Head(queue) \/ \E i \in 1 .. Len(Tail(queue)) : Tail(queue)[i] = d
           /\ queue # <<>> => Tail(queue) \in Seq({"sessions", "archived", Day})
           /\ queue # <<>> => Head(queue) \in {"sessions", "archived", Day}
           /\ queue = <<>> => \A d : ~Queued(d)
           /\ Append(queue, Day) \in Seq({"sessions", "archived", Day})
           /\ \A d : Queued(d) \/ d = Day =>
                 \E i \in 1 .. Len(Append(queue, Day)) : Append(queue, Day)[i] = d
<1> DEFINE Q == {"sessions", "archived", Day}
<1>1. queue \in Seq(Q)  BY DEF WalkInv
<1>2. ASSUME queue # <<>>, NEW d, Queued(d), d # Head(queue)
      PROVE  \E i \in 1 .. Len(Tail(queue)) : Tail(queue)[i] = d
  <2>1. PICK i \in 1 .. Len(queue) : queue[i] = d  BY <1>2 DEF Queued
  <2>2. i # 1  BY <2>1, <1>2, <1>1
  <2>3. i - 1 \in 1 .. Len(Tail(queue)) /\ Tail(queue)[i - 1] = d  BY <2>1, <2>2, <1>1, <1>2
  <2> QED  BY <2>3
<1>3. ASSUME NEW d, Queued(d) \/ d = Day
      PROVE  \E i \in 1 .. Len(Append(queue, Day)) : Append(queue, Day)[i] = d
  <2>1. CASE d = Day
    <3>1. Len(queue) + 1 \in 1 .. Len(Append(queue, Day)) /\ Append(queue, Day)[Len(queue) + 1] = d
      BY <2>1, <1>1
    <3> QED  BY <3>1
  <2>2. CASE Queued(d)
    <3>1. PICK i \in 1 .. Len(queue) : queue[i] = d  BY <2>2 DEF Queued
    <3>2. i \in 1 .. Len(Append(queue, Day)) /\ Append(queue, Day)[i] = d  BY <3>1, <1>1
    <3> QED  BY <3>2
  <2> QED  BY <2>1, <2>2, <1>3
<1>4. queue # <<>> => Tail(queue) \in Seq(Q) /\ Head(queue) \in Q  BY <1>1
<1>5. queue = <<>> => \A d : ~Queued(d)  BY DEF Queued
<1>6. Append(queue, Day) \in Seq(Q)  BY <1>1
<1> QED  BY <1>2, <1>3, <1>4, <1>5, <1>6

LEMMA WalkKeepsCover ==
    ASSUME SessionsInv, \/ \E ok \in BOOLEAN : QueryThreads(ok)
                        \/ OpenStore
                        \/ \E e \in listing \cup Late : VisitEntry(e)
                        \/ CloseStore \/ EndWalk
    PROVE  WalkInv'
<1> USE DEF SessionsInv
<1> DEFINE Q == {"sessions", "archived", Day}
<1>1. ASSUME NEW ok \in BOOLEAN, QueryThreads(ok)
      PROVE  WalkInv'
  <2>1. queue' = <<"sessions", "archived">> /\ stage' = "walk" /\ UNCHANGED <<here, listing>>
        /\ stood' = disk
    BY <1>1 DEF QueryThreads
  <2>2. queue' \in Seq(Q)  BY <2>1
  <2>3. Queued("sessions")' /\ Queued("archived")'
    <3>1. Len(queue') = 2 /\ queue'[1] = "sessions" /\ queue'[2] = "archived"  BY <2>1
    <3>2. 1 \in 1 .. Len(queue') /\ 2 \in 1 .. Len(queue')  BY <3>1
    <3> QED  BY <3>1, <3>2 DEF Queued
  <2>4. \A f \in stood' : Ahead(f)'  BY <2>1, <2>3 DEF StoreInv, Ahead
  <2> QED  BY <2>1, <2>2, <2>4 DEF WalkInv
<1>2. CASE OpenStore
  <2>1. /\ queue # <<>> /\ queue' = Tail(queue) /\ stage = "walk" /\ here = "none"
        /\ UNCHANGED <<stood, stage, sessionFiles, leftovers>>
    BY <1>2 DEF OpenStore, store
  <2>2. CASE here' = Head(queue) /\ listing' = Listed(Head(queue)) /\ whole' = whole
    <3>1. here' # "none"  BY <2>2, <2>1, QueueFacts DEF Day
    <3>2. ASSUME NEW f \in stood, whole PROVE Ahead(f)'
      <4>1. Ahead(f) /\ f \in disk  BY <3>2, <2>1 DEF WalkInv, StoreInv
      <4>2. listing = {}  BY <2>1 DEF WalkInv
      <4>3. \A d : Queued(d) => d = Head(queue) \/ Queued(d)'  BY <2>1, QueueFacts DEF Queued
      <4>4. f.dir = Head(queue) => f \in listing'  BY <2>2, <4>1 DEF Listed
      <4>5. Head(queue) = "sessions" => DayEntry \in listing'  BY <2>2 DEF Listed
      <4> QED  BY <4>1, <4>2, <4>3, <4>4, <4>5, <2>1 DEF Ahead
    <3> QED  BY <2>1, <2>2, <3>1, <3>2, QueueFacts DEF WalkInv
  <2>3. CASE whole' = FALSE /\ UNCHANGED <<here, listing>>
    BY <2>1, <2>3, QueueFacts DEF WalkInv
  <2> QED  BY <2>2, <2>3, <1>2 DEF OpenStore
<1>3. ASSUME NEW e \in listing \cup Late, VisitEntry(e)
      PROVE  WalkInv'
  <2>1. /\ stage = "walk" /\ here # "none" /\ listing' = listing \ {e}
        /\ queue' = IF e = DayEntry THEN Append(queue, Day) ELSE queue
        /\ sessionFiles' = IF e \in disk /\ e.form # "tmp" THEN sessionFiles \cup {e} ELSE sessionFiles
        /\ leftovers' = IF e \in disk /\ e.form = "tmp" THEN leftovers \cup {e} ELSE leftovers
        /\ whole' = (whole /\ (e = DayEntry \/ e \in disk))
        /\ UNCHANGED <<stood, stage, here>>
    BY <1>3 DEF VisitEntry, store
  <2>2. queue' \in Seq(Q)  BY <2>1, QueueFacts DEF WalkInv
  <2>3. ASSUME NEW f \in stood, whole' PROVE Ahead(f)'
    <3>1. Ahead(f) /\ f \in disk  BY <2>3, <2>1 DEF WalkInv, StoreInv
    <3>2. \A d : Queued(d) => Queued(d)'  BY <2>1, QueueFacts DEF Queued
    <3>3. e = DayEntry => Queued(Day)'  BY <2>1, QueueFacts DEF Queued
    <3>4. f = e => f \in sessionFiles' \cup leftovers'  BY <3>1, <2>1
    <3> QED  BY <3>1, <3>2, <3>3, <3>4, <2>1 DEF Ahead
  <2> QED  BY <2>1, <2>2, <2>3 DEF WalkInv
<1>4. CASE CloseStore
  <2>1. /\ stage = "walk" /\ here' = "none" /\ listing' = {} /\ whole' = (whole /\ ~LeftBehind)
        /\ queue' = IF visited >= maxEntries THEN <<>> ELSE queue
        /\ listing = {} \/ visited >= maxEntries
        /\ UNCHANGED <<stood, stage, sessionFiles, leftovers>>
    BY <1>4 DEF CloseStore, store
  <2>2. queue' \in Seq(Q)  BY <2>1 DEF WalkInv
  <2>3. whole' => whole /\ listing' = listing /\ queue' = queue  BY <2>1 DEF LeftBehind
  <2>4. ASSUME NEW f \in stood, whole' PROVE Ahead(f)'
    BY <2>1, <2>3, <2>4 DEF WalkInv, Ahead, Queued
  <2> QED  BY <2>1, <2>2, <2>4 DEF WalkInv
<1>5. CASE EndWalk
  <2>1. /\ stage = "walk" /\ here = "none" /\ queue = <<>> /\ stage' = "correlate"
        /\ UNCHANGED <<stood, queue, here, listing, sessionFiles, leftovers, whole>>
    BY <1>5 DEF EndWalk, store, walk
  <2>2. whole => stood \subseteq sessionFiles \cup leftovers
    BY <2>1, QueueFacts DEF WalkInv, Ahead
  <2> QED  BY <2>1, <2>2 DEF WalkInv
<1> QED  BY <1>1, <1>2, <1>3, <1>4, <1>5

LEMMA WalkKeepsRest ==
    ASSUME SessionsInv, \/ \E ok \in BOOLEAN : QueryThreads(ok)
                        \/ OpenStore
                        \/ \E e \in listing \cup Late : VisitEntry(e)
                        \/ CloseStore \/ EndWalk
    PROVE  StoreInv' /\ RowsInv' /\ BudgetInv' /\ ReportInv'
<1> USE DEF SessionsInv
<1> DEFINE Forward ==
        /\ stage \in {"idle", "walk"} /\ stage' \in {"walk", "correlate"}
        /\ UNCHANGED <<disk, maxEntries, correlated, missing, tried, measured, report>>
        /\ stood' \in {stood, disk}
        /\ stage' = "correlate" => unresolved' = DOMAIN rows'
        /\ visited' = visited \/ (visited < maxEntries /\ visited' = visited + 1)
<1>1. Forward
  <2>1. ASSUME NEW ok \in BOOLEAN, QueryThreads(ok) PROVE Forward
    BY <2>1 DEF QueryThreads, findings
  <2>2. CASE OpenStore  BY <2>2 DEF OpenStore, store, findings
  <2>3. ASSUME NEW e \in listing \cup Late, VisitEntry(e) PROVE Forward
    BY <2>3 DEF VisitEntry, store, findings
  <2>4. CASE CloseStore  BY <2>4 DEF CloseStore, store, findings
  <2>5. CASE EndWalk  BY <2>5 DEF EndWalk, store, walk
  <2> QED  BY <2>1, <2>2, <2>3, <2>4, <2>5
<1>2. correlated = <<>> /\ missing = {} /\ tried = {}  BY <1>1 DEF RowsInv, BudgetInv
<1>3. StoreInv'  BY <1>1 DEF StoreInv
<1>4. RowsInv'  BY <1>1, <1>2 DEF RowsInv
<1>5. BudgetInv'  BY <1>1, <1>2, FS_EmptySet DEF BudgetInv
<1>6. ReportInv'  BY <1>1 DEF ReportInv
<1> QED  BY <1>3, <1>4, <1>5, <1>6

-----------------------------------------------------------------------------
(* Correlation and measurement *)

LEMMA ResolveKeepsInv ==
    ASSUME SessionsInv, NEW t \in Threads, Resolve(t)
    PROVE  SessionsInv'
<1> USE DEF SessionsInv
<1> DEFINE n == Cardinality(Spellings(t))
           placed == rows[t].archived \in {0, 1} /\ rows[t].dir = RootOfStore(rows[t].archived)
           sound == placed /\ n = 1 /\ Spellings(t) \subseteq disk
           file == CHOOSE f \in Spellings(t) : TRUE
<1>1. /\ stage = "correlate" /\ t \in unresolved /\ unresolved' = unresolved \ {t}
      /\ correlated' = IF sound THEN [u \in DOMAIN correlated \cup {t} |-> IF u = t THEN file ELSE correlated[u]]
                       ELSE correlated
      /\ missing' = IF placed /\ n = 0 THEN missing \cup {t} ELSE missing
      /\ failing' = (failing \/ ~(sound \/ (placed /\ n = 0)))
      /\ UNCHANGED <<store, maxEntries, stage, rows, walk, tried, measured, report>>
  BY DEF Resolve
<1>2. sound => /\ file \in sessionFiles /\ file.thread = t
               /\ file.dir = RootOfStore(rows[t].archived)
  <2> SUFFICES ASSUME sound
               PROVE  /\ file \in sessionFiles /\ file.thread = t
                      /\ file.dir = RootOfStore(rows[t].archived)
    OBVIOUS
  <2>1. Spellings(t) # {}  BY FS_EmptySet
  <2>2. file \in Spellings(t)  BY <2>1
  <2> QED  BY <2>2 DEF Spellings
<1>3. StoreInv' /\ WalkInv' /\ BudgetInv' /\ ReportInv'
  BY <1>1 DEF StoreInv, WalkInv, Ahead, Queued, BudgetInv, ReportInv, store, walk
<1>4. RowsInv'
  <2> HIDE DEF sound, placed, n, file
  <2>1. ASSUME NEW u \in DOMAIN correlated'
        PROVE  /\ correlated'[u] \in sessionFiles'
               /\ correlated'[u].thread = u
               /\ correlated'[u].dir = RootOfStore(rows'[u].archived)
    <3>0. sessionFiles' = sessionFiles /\ rows' = rows  BY <1>1 DEF walk
    <3>1. CASE sound /\ u = t  BY <3>1, <1>1, <1>2, <3>0
    <3>2. CASE ~(sound /\ u = t)
      <4>1. u \in DOMAIN correlated /\ correlated'[u] = correlated[u]  BY <3>2, <1>1, <2>1
      <4> QED  BY <4>1, <3>0 DEF RowsInv
    <3> QED  BY <3>1, <3>2
  <2>2. ~failing' /\ missing' = {} => DOMAIN rows' = DOMAIN correlated' \cup unresolved'
    <3> SUFFICES ASSUME ~failing', missing' = {}
                 PROVE  DOMAIN rows' = DOMAIN correlated' \cup unresolved'
      OBVIOUS
    <3>1. sound /\ ~failing /\ missing = {}  BY <1>1
    <3> QED  BY <3>1, <1>1 DEF RowsInv
  <2> QED  BY <1>1, <2>1, <2>2 DEF RowsInv
<1> QED  BY <1>3, <1>4

LEMMA EndCorrelationKeepsInv ==
    ASSUME SessionsInv, EndCorrelation
    PROVE  SessionsInv'
BY DEF SessionsInv, StoreInv, WalkInv, Ahead, Queued, RowsInv, BudgetInv, ReportInv,
       EndCorrelation, store, walk, findings

LEMMA MeasureKeepsInv ==
    ASSUME SessionsInv, NEW f \in sessionFiles, NEW fine \in BOOLEAN, MeasureFile(f, fine)
    PROVE  SessionsInv'
<1> USE DEF SessionsInv
<1> DEFINE spent == visited + Cardinality(tried) >= maxEntries
<1>1. /\ stage = "measure" /\ f \in sessionFiles \ (tried \cup unresolved)
      /\ tried' = IF spent THEN tried ELSE tried \cup {f}
      /\ unresolved' = IF spent THEN unresolved \cup {f} ELSE unresolved
      /\ measured' = IF ~spent /\ fine /\ f \in disk THEN measured \cup {f} ELSE measured
      /\ failing' = (failing \/ spent \/ ~fine \/ ~(f \in disk))
      /\ UNCHANGED <<store, maxEntries, stage, rows, walk, correlated, missing, report>>
  BY DEF MeasureFile, Measurable
<1>2. StoreInv' /\ WalkInv'
  BY <1>1 DEF StoreInv, WalkInv, Ahead, Queued, store, walk
<1>3. RowsInv'
  BY <1>1 DEF RowsInv, walk
<1>4. BudgetInv'
  <2>1. /\ IsFiniteSet(tried')
        /\ Cardinality(tried') = IF spent THEN Cardinality(tried) ELSE Cardinality(tried) + 1
        /\ Cardinality(tried) \in Nat
    BY <1>1, FS_AddElement, FS_CardinalityType DEF BudgetInv
  <2> QED  BY <1>1, <2>1 DEF BudgetInv, walk
<1>5. ReportInv'  BY <1>1 DEF ReportInv
<1> QED  BY <1>2, <1>3, <1>4, <1>5

LEMMA FinishKeepsInv ==
    ASSUME SessionsInv, NEW c \in Configs, NEW marker, FinishSessions(c, marker)
    PROVE  SessionsInv'
<1>1. /\ stage = "measure" /\ sessionFiles \subseteq tried \cup unresolved /\ stage' = "done"
      /\ report'.complete = (PlanComplete /\ Health(c, marker) # "Incomplete")
      /\ UNCHANGED <<store, maxEntries, rows, walk, failing, findings>>
  BY DEF FinishSessions
<1>2. report'.complete => PlanComplete /\ leftovers = {}  BY <1>1 DEF Health
<1>3. ReportInv'
  BY <1>1, <1>2 DEF ReportInv, PlanComplete, walk, findings
<1>4. StoreInv' /\ WalkInv' /\ RowsInv' /\ BudgetInv'
  BY <1>1 DEF SessionsInv, StoreInv, WalkInv, Ahead, Queued, RowsInv, BudgetInv, store, walk, findings
<1> QED  BY <1>3, <1>4 DEF SessionsInv

-----------------------------------------------------------------------------
(* Codex *)

LEMMA CodexKeepsInv ==
    ASSUME SessionsInv, Codex
    PROVE  SessionsInv'
<1> USE DEF SessionsInv
<1>1. ASSUME NEW d, Moved(d), \A f \in d : f.dir \in {Day, "archived"}
      PROVE  SessionsInv'
  <2>1. /\ stage # "done" /\ disk' = d /\ stood' = stood \cap d
        /\ UNCHANGED <<maxEntries, stage, rows, walk, failing, findings, report>>
    BY <1>1 DEF Moved
  <2>2. StoreInv'  BY <2>1, <1>1 DEF StoreInv
  <2>3. WalkInv'
    <3>1. \A f : Ahead(f) => Ahead(f)'  BY <2>1 DEF Ahead, Queued, walk
    <3> QED  BY <2>1, <3>1 DEF WalkInv, walk
  <2>4. RowsInv' /\ BudgetInv' /\ ReportInv'
    BY <2>1 DEF RowsInv, BudgetInv, ReportInv, walk, findings
  <2> QED  BY <2>2, <2>3, <2>4
<1>2. ASSUME NEW t \in Threads, CreateRollout(t) PROVE SessionsInv'
  BY <1>1, <1>2 DEF CreateRollout, StoreInv
<1>3. ASSUME NEW t \in Threads, UpdateRow(t) PROVE SessionsInv'
  <2>1. UNCHANGED <<disk, stood, maxEntries, stage, rows, walk, failing, findings, report>>
    BY <1>3 DEF UpdateRow
  <2> QED
    BY <2>1 DEF StoreInv, WalkInv, Ahead, Queued, RowsInv, BudgetInv, ReportInv, walk, findings
<1>4. ASSUME NEW f \in disk, NEW d \in {Day, "archived"}, ArchiveRollout(f, d) PROVE SessionsInv'
  <2>1. [f EXCEPT !.dir = d].dir = d  OBVIOUS
  <2> QED  BY <2>1, <1>1, <1>4 DEF ArchiveRollout, StoreInv
<1>5. ASSUME NEW f \in disk, StartCompression(f) PROVE SessionsInv'
  <2>1. [f EXCEPT !.form = "tmp"].dir = f.dir  OBVIOUS
  <2> QED  BY <2>1, <1>1, <1>5 DEF StartCompression, StoreInv
<1>6. ASSUME NEW f \in disk, PublishCompressed(f) PROVE SessionsInv'
  <2>1. [f EXCEPT !.form = "zst"].dir = f.dir  OBVIOUS
  <2> QED  BY <2>1, <1>1, <1>6 DEF PublishCompressed, StoreInv
<1>7. ASSUME NEW f \in disk, RemoveRollout(f) PROVE SessionsInv'
  BY <1>1, <1>7 DEF RemoveRollout, StoreInv
<1> QED  BY <1>2, <1>3, <1>4, <1>5, <1>6, <1>7 DEF Codex

-----------------------------------------------------------------------------

LEMMA Completeness == SessionsInv => CompleteIsTheStore
<1> SUFFICES ASSUME SessionsInv, report.complete
             PROVE  /\ stood \subseteq {correlated[t] : t \in DOMAIN correlated}
                    /\ DOMAIN correlated = DOMAIN rows
                    /\ \A t \in DOMAIN correlated :
                          /\ correlated[t].thread = t
                          /\ correlated[t].dir = RootOfStore(rows[t].archived)
                          /\ correlated[t] \in measured
                    /\ visited + Cardinality(sessionFiles) <= maxEntries
  BY DEF CompleteIsTheStore
<1> USE DEF SessionsInv
<1>1. /\ stage = "done" /\ whole /\ ~failing /\ missing = {} /\ leftovers = {}
      /\ sessionFiles = {correlated[t] : t \in DOMAIN correlated}
      /\ sessionFiles \subseteq tried \cup unresolved
  BY DEF ReportInv
<1>2. unresolved = {} /\ DOMAIN correlated = DOMAIN rows  BY <1>1 DEF RowsInv
<1>3. sessionFiles = tried /\ sessionFiles \subseteq measured  BY <1>1, <1>2 DEF RowsInv, BudgetInv
<1>4. stood \subseteq sessionFiles  BY <1>1 DEF WalkInv
<1>5. visited + Cardinality(sessionFiles) <= maxEntries  BY <1>3 DEF BudgetInv
<1> QED  BY <1>1, <1>2, <1>3, <1>4, <1>5 DEF RowsInv

\* A complete report is the task store as it was (CodexSessions, CompleteIsTheStore).
THEOREM StoreSafety == SessionsSpec => []CompleteIsTheStore
<1>1. SessionsInit => SessionsInv  BY InitialSessions
<1>2. SessionsInv /\ [SessionsNext]_sessionVars => SessionsInv'
  <2> SUFFICES ASSUME SessionsInv, [SessionsNext]_sessionVars PROVE SessionsInv'
    OBVIOUS
  <2>1. CASE Collect
    BY <2>1, WalkKeepsCover, WalkKeepsRest, ResolveKeepsInv, EndCorrelationKeepsInv, MeasureKeepsInv, FinishKeepsInv
    DEF Collect, SessionsInv
  <2>2. CASE Codex  BY <2>2, CodexKeepsInv
  <2>3. CASE UNCHANGED sessionVars
    BY <2>3 DEF SessionsInv, StoreInv, WalkInv, Ahead, Queued, RowsInv, BudgetInv, ReportInv,
                sessionVars, store, walk, findings
  <2> QED  BY <2>1, <2>2, <2>3 DEF SessionsNext
<1> QED  BY <1>1, <1>2, Completeness, PTL DEF SessionsSpec

-----------------------------------------------------------------------------
(* The inductive invariant *)

\* Nobody has rewritten n since its stamp was t, or it still says c.
Since(n, t, c) ==
    n \in DOMAIN manifestFiles /\ manifestFiles[n].stamp = t => manifestFiles[n].content = c

\* Whoever writes a manifest gives it a stamp that has never been seen.
StampsAreOld ==
    /\ turns \in Nat
    /\ \A n \in DOMAIN manifestFiles : manifestFiles[n].stamp \in 0 .. turns
    /\ \A n \in DOMAIN snapshot : snapshot[n].stamp \in 0 .. turns

\* The stages: nothing is read before the directory has been discovered, and
\* all has been read before it is looked at again.
Stages ==
    /\ step \in {"start", "discover"} => parsed = <<>> /\ unread = {}
    /\ step \in {"start", "discover", "read"} => again = <<>>
    /\ opened # NotOpen => step = "read" /\ opened.name \in unread
    /\ unread \cap InDirectory \subseteq DOMAIN snapshot
    /\ named \cap InDirectory = {}
    /\ step \in {"measure", "reported"} => snapshot = again

\* The manifest being read says what it said when it was opened, unless its
\* stamp tells otherwise.
OpenedAsSeen ==
    opened # NotOpen =>
        /\ opened = [name |-> opened.name, seen |-> opened.seen,
                     read |-> opened.read, bytes |-> opened.bytes]
        /\ opened.seen.stamp \in 0 .. turns
        /\ Since(opened.name, opened.seen.stamp, opened.seen.content)
        /\ Since(opened.name, opened.seen.stamp, opened.bytes)

\* A file that still has the stamp it was discovered with says what was reported
\* of it, and what it said when the directory had been discovered.
SnapshotStillHolds ==
    /\ \A n \in DOMAIN parsed \cap InDirectory :
          n \in DOMAIN snapshot /\ Since(n, snapshot[n].stamp, parsed[n].content)
    /\ step \notin {"start", "discover", "failed"} => \A n \in DOMAIN snapshot :
          n \in DOMAIN manifestFiles /\ manifestFiles[n].stamp = snapshot[n].stamp
          => n \in DOMAIN cut /\ cut[n].content = manifestFiles[n].content

\* What has been looked at again and had not changed was reported as it stood.
SameIsReported ==
    step # "failed" => \A n \in DOMAIN again \cap DOMAIN snapshot :
        again[n].stamp = snapshot[n].stamp =>
            /\ n \in DOMAIN cut
            /\ n \in DOMAIN parsed \cap InDirectory => parsed[n].content = cut[n].content

CutInv == StampsAreOld /\ Stages /\ OpenedAsSeen /\ SnapshotStillHolds /\ SameIsReported

-----------------------------------------------------------------------------
(* The others leave the connector's state alone, and write new stamps. *)
LEMMA OthersFacts ==
    ASSUME StampsAreOld, Others
    PROVE  /\ UNCHANGED <<step, named, snapshot, again, cut, unread, opened, parsed>>
           /\ turns' = turns + 1
           /\ \A n \in DOMAIN manifestFiles' :
                 \/ manifestFiles'[n].stamp = turns + 1
                 \/ n \in DOMAIN manifestFiles /\ manifestFiles'[n] = manifestFiles[n]
<1>1. ASSUME NEW n, NEW r, NEW inPlace \in BOOLEAN, Publish(n, r, inPlace)
      PROVE  \A k \in DOMAIN manifestFiles' :
                 \/ manifestFiles'[k].stamp = turns + 1
                 \/ k \in DOMAIN manifestFiles /\ manifestFiles'[k] = manifestFiles[k]
  BY <1>1 DEF Publish
<1>2. ASSUME NEW n, Withdraw(n)
      PROVE  \A k \in DOMAIN manifestFiles' :
                 k \in DOMAIN manifestFiles /\ manifestFiles'[k] = manifestFiles[k]
  BY <1>2 DEF Withdraw
<1>3. ASSUME NEW l, NEW p, Lead(l, p) PROVE UNCHANGED manifestFiles
  BY <1>3 DEF Lead
<1>4. ASSUME NEW p, DeleteUnit(p) PROVE UNCHANGED manifestFiles
  BY <1>4 DEF DeleteUnit
<1>5. Turn  BY DEF Others, Publish, Withdraw, Lead, DeleteUnit
<1> QED  BY <1>1, <1>2, <1>3, <1>4, <1>5 DEF Others, Turn, arguments, directory

LEMMA OthersKeepCut ==
    ASSUME CutInv, Others
    PROVE  CutInv'
<1>1. StampsAreOld  BY DEF CutInv
<1>2. StampsAreOld'  BY <1>1, OthersFacts DEF StampsAreOld
<1>3. Stages'  BY <1>1, OthersFacts DEF CutInv, Stages
<1>4. \A n, t, c : t \in 0 .. turns /\ Since(n, t, c) => Since(n, t, c)'
  BY <1>1, OthersFacts DEF StampsAreOld, Since
<1>5. OpenedAsSeen'
  <2>1. CASE opened = NotOpen  BY <2>1, <1>1, OthersFacts DEF OpenedAsSeen
  <2>2. CASE opened # NotOpen
    <3>1. /\ opened' = opened
          /\ opened.seen.stamp \in 0 .. turns'
      BY <2>2, <1>1, OthersFacts DEF CutInv, OpenedAsSeen, StampsAreOld
    <3>2. /\ Since(opened.name, opened.seen.stamp, opened.seen.content)'
          /\ Since(opened.name, opened.seen.stamp, opened.bytes)'
      BY <2>2, <3>1, <1>1, OthersFacts DEF CutInv, OpenedAsSeen, StampsAreOld, Since
    <3> QED  BY <2>2, <3>1, <3>2 DEF CutInv, OpenedAsSeen
  <2> QED  BY <2>1, <2>2
<1>6. SnapshotStillHolds'
  BY <1>1, OthersFacts DEF CutInv, SnapshotStillHolds, StampsAreOld, Since
<1>7. SameIsReported'  BY <1>1, OthersFacts DEF CutInv, SameIsReported
<1> QED  BY <1>2, <1>3, <1>5, <1>6, <1>7 DEF CutInv

-----------------------------------------------------------------------------
(* The connector, step by step *)
LEMMA DiscoveryKeepsCut ==
    ASSUME CutInv, \/ DiscoverManifests
                   \/ \E n : step = "discover" /\ LookAtEntry(n)
                   \/ EndDiscovery
    PROVE  CutInv'
<1>1. CASE DiscoverManifests
  BY <1>1 DEF CutInv, StampsAreOld, Stages, OpenedAsSeen, SnapshotStillHolds, SameIsReported,
              Since, DiscoverManifests, owners, arguments, directory, exactPass
<1>2. ASSUME NEW n, step = "discover", LookAtEntry(n)
      PROVE  CutInv'
  BY <1>2 DEF CutInv, StampsAreOld, Stages, OpenedAsSeen, SnapshotStillHolds, SameIsReported,
              Since, LookAtEntry, FileSnapshot, Stamped, owners, arguments, directory, exactPass
<1>3. CASE EndDiscovery
  BY <1>3 DEF CutInv, StampsAreOld, Stages, OpenedAsSeen, SnapshotStillHolds, SameIsReported,
              Since, EndDiscovery, owners, arguments, directory, exactPass
<1> QED  BY <1>1, <1>2, <1>3

LEMMA ReadingKeepsCut ==
    ASSUME CutInv, (\E n \in unread : OpenManifest(n)) \/ ReadManifest \/ ParseManifest
    PROVE  CutInv'
<1>1. ASSUME NEW n \in unread, OpenManifest(n)
      PROVE  CutInv'
  BY <1>1 DEF CutInv, StampsAreOld, Stages, OpenedAsSeen, SnapshotStillHolds, SameIsReported,
              Since, OpenManifest, owners, arguments, directory, exactPass
<1>2. CASE ReadManifest
  BY <1>2 DEF CutInv, StampsAreOld, Stages, OpenedAsSeen, SnapshotStillHolds, SameIsReported,
              Since, ReadManifest, owners, arguments, directory, exactPass
<1>3. CASE ParseManifest
  BY <1>3 DEF CutInv, StampsAreOld, Stages, OpenedAsSeen, SnapshotStillHolds, SameIsReported,
              Since, ParseManifest, Stamped, owners, arguments, directory, exactPass
<1> QED  BY <1>1, <1>2, <1>3

LEMMA VerifyingKeepsCut ==
    ASSUME CutInv, \/ VerifyDirectory
                   \/ \E n : step = "verify" /\ LookAtEntry(n)
                   \/ Correlate
    PROVE  CutInv'
<1>1. CASE VerifyDirectory
  BY <1>1 DEF CutInv, StampsAreOld, Stages, OpenedAsSeen, SnapshotStillHolds, SameIsReported,
              Since, VerifyDirectory, owners, arguments, directory, exactPass
<1>2. ASSUME NEW n, step = "verify", LookAtEntry(n)
      PROVE  CutInv'
  BY <1>2 DEF CutInv, StampsAreOld, Stages, OpenedAsSeen, SnapshotStillHolds, SameIsReported,
              Since, LookAtEntry, FileSnapshot, Stamped, owners, arguments, directory, exactPass
<1>3. CASE Correlate
  BY <1>3 DEF CutInv, StampsAreOld, Stages, OpenedAsSeen, SnapshotStillHolds, SameIsReported,
              Since, Correlate, owners, arguments, directory, exactPass
<1> QED  BY <1>1, <1>2, <1>3

LEMMA MeasuringKeepsCut ==
    ASSUME CutInv, (\E p \in pass, fails, pending \in BOOLEAN : MeasureUnit(p, fails, pending)) \/ FinishReport
    PROVE  CutInv'
<1>1. /\ UNCHANGED <<manifestFiles, turns, named, snapshot, again, cut, unread, opened, parsed>>
      /\ step = "measure" /\ step' \in {"measure", "failed", "reported"}
  BY DEF MeasureUnit, FinishReport, owners, arguments, directory, exactPass
<1> QED
  BY <1>1 DEF CutInv, StampsAreOld, Stages, OpenedAsSeen, SnapshotStillHolds, SameIsReported, Since

LEMMA CutHolds ==
    /\ GatewayInit => CutInv
    /\ CutInv /\ [GatewayNext]_gatewayVars => CutInv'
<1>1. GatewayInit => CutInv
  BY DEF GatewayInit, GatewayWith, CutInv, StampsAreOld, Stages, OpenedAsSeen,
         SnapshotStillHolds, SameIsReported, Since
<1>2. CutInv /\ [GatewayNext]_gatewayVars => CutInv'
  <2> SUFFICES ASSUME CutInv, [GatewayNext]_gatewayVars PROVE CutInv'
    OBVIOUS
  <2>1. ASSUME NEW n, LookAtEntry(n) PROVE CutInv'
    BY <2>1, DiscoveryKeepsCut, VerifyingKeepsCut DEF LookAtEntry
  <2>2. CASE Connector
    BY <2>1, <2>2, DiscoveryKeepsCut, ReadingKeepsCut, VerifyingKeepsCut, MeasuringKeepsCut
    DEF Connector
  <2>3. CASE Others  BY <2>3, OthersKeepCut
  <2>4. CASE UNCHANGED gatewayVars
    BY <2>4 DEF CutInv, StampsAreOld, Stages, OpenedAsSeen, SnapshotStillHolds, SameIsReported,
                Since, gatewayVars, owners, arguments, directory, exactPass
  <2> QED  BY <2>2, <2>3, <2>4 DEF GatewayNext
<1> QED  BY <1>1, <1>2

\* The manifests of a directory all stood there together, with the contents
\* reported (GatewayReport, ReportIsOneCut).
THEOREM OneCut == GatewaySpec => []ReportIsOneCut
<1>1. CutInv => ReportIsOneCut
  BY DEF CutInv, Stages, SnapshotStillHolds, SameIsReported, ReportIsOneCut
<1> QED  BY <1>1, CutHolds, PTL DEF GatewaySpec

-----------------------------------------------------------------------------
(* Root identity *)

\* A unit lies in the root its report named when it was read, or nowhere.
UnitsLieInTheirRoots ==
    \A n \in DOMAIN parsed : \A u \in parsed[n].content.units :
        /\ u[1] \in DOMAIN parsed[n].at
        /\ parsed[n].lies[u][1] \in {parsed[n].at[u[1]], "gone"}

LEMMA ParsedUnits ==
    ASSUME UnitsLieInTheirRoots, ParseManifest
    PROVE  UnitsLieInTheirRoots'
<1> DEFINE r  == opened.bytes
           p  == [content |-> r, at |-> [id \in DOMAIN r.roots |-> RootAt(r, id)],
                  lies |-> [u \in r.units |-> UnitAt(r, u)]]
<1>1. CASE UNCHANGED parsed  BY <1>1 DEF UnitsLieInTheirRoots
<1>2. CASE /\ ValidReport(r)
           /\ parsed' = [k \in DOMAIN parsed \cup {opened.name} |->
                            IF k = opened.name THEN p ELSE parsed[k]]
  <2>1. ASSUME NEW u \in r.units
        PROVE  u[1] \in DOMAIN p.at /\ p.lies[u][1] \in {p.at[u[1]], "gone"}
    BY <1>2 DEF ValidReport, UnitAt
  <2> QED  BY <1>2, <2>1 DEF UnitsLieInTheirRoots
<1> QED  BY <1>1, <1>2 DEF ParseManifest

\* All that is measured under one root id lies in one physical root
\* (GatewayReport, OneRootPerIdentity).
THEOREM OneRoot == GatewaySpec => []OneRootPerIdentity
<1>1. GatewayInit => UnitsLieInTheirRoots
  BY DEF GatewayInit, GatewayWith, UnitsLieInTheirRoots
<1>2. UnitsLieInTheirRoots /\ [GatewayNext]_gatewayVars => UnitsLieInTheirRoots'
  <2> SUFFICES ASSUME UnitsLieInTheirRoots, [GatewayNext]_gatewayVars
               PROVE  UnitsLieInTheirRoots'
    OBVIOUS
  <2>1. ParseManifest \/ UNCHANGED parsed
    BY DEF GatewayNext, Connector, Others, gatewayVars, DiscoverManifests, LookAtEntry,
           EndDiscovery, OpenManifest, ReadManifest, VerifyDirectory, Correlate, MeasureUnit,
           FinishReport, Publish, Withdraw, Lead, DeleteUnit, Turn
  <2> QED  BY <2>1, ParsedUnits DEF UnitsLieInTheirRoots
<1>3. UnitsLieInTheirRoots => OneRootPerIdentity
  BY DEF UnitsLieInTheirRoots, OneRootPerIdentity, Source, MayMeasure, IdentityConflict,
         Observations
<1> QED  BY <1>1, <1>2, <1>3, PTL DEF GatewaySpec
-----------------------------------------------------------------------------
(* Measurements *)

\* The units of the report that no inventory has complete evidence of.
Wanted == {p \in DOMAIN UnitSizes : \E n \in DOMAIN parsed : \E u \in parsed[n].content.units :
                parsed[n].lies[u] = p /\ ~Broad(p).complete}

\* A share that is fair: that much for each of them is within the budget.
FairShare(s) == s \in Nat /\ s * Cardinality(Wanted) <= ExactEntries

\* What the exact pass has found of p: all of it, if it is smaller than a fair share.
MeasuredFairly(p) ==
    /\ p \in DOMAIN exact
    /\ \A s : FairShare(s) => UnitSizes[p] >= Least(ExactPerUnit, s) \/ exact[p].complete

\* Units that lie somewhere lie where units are.
UnitsArePlaces ==
    /\ units \subseteq DOMAIN UnitSizes
    /\ \A n \in DOMAIN parsed : \A u \in parsed[n].content.units :
          parsed[n].lies[u][1] # "gone" => parsed[n].lies[u] \in DOMAIN UnitSizes

\* A fair share is left for each unit still in the pass, which therefore does
\* not end before it has come to them.
ShareInv ==
    step \in {"measure", "reported"} =>
        /\ pass \subseteq Wanted
        /\ exactLeft \in Nat
        /\ \A s : FairShare(s) => s * Cardinality(pass) <= exactLeft
        /\ step = "reported" => pass = {} \/ exactLeft = 0

\* A unit that is wanted and may be measured is still in the pass, was measured, or has gone.
PassInv ==
    step \in {"measure", "reported"} =>
        \A n \in DOMAIN parsed : \A u \in parsed[n].content.units :
            LET p == parsed[n].lies[u] IN
            MayMeasure(n, u) /\ ~Broad(p).complete => p \in pass \/ p \notin units \/ MeasuredFairly(p)

MeasuredInv == UnitsArePlaces /\ ShareInv /\ PassInv

\* The others make units vanish, at most.
LEMMA OthersKeepMeasured ==
    ASSUME MeasuredInv, Others
    PROVE  MeasuredInv'
<1>1. /\ units' \subseteq units
      /\ UNCHANGED <<inventory, step, parsed, pass, exact, exactLeft>>
  <2>1. ASSUME NEW n, NEW r, NEW inPlace, Publish(n, r, inPlace) PROVE units' = units  BY <2>1 DEF Publish
  <2>2. ASSUME NEW n, Withdraw(n) PROVE units' = units  BY <2>2 DEF Withdraw
  <2>3. ASSUME NEW l, NEW p, Lead(l, p) PROVE units' = units  BY <2>3 DEF Lead
  <2>4. ASSUME NEW p, DeleteUnit(p) PROVE units' \subseteq units  BY <2>4 DEF DeleteUnit
  <2>5. Turn  BY DEF Others, Publish, Withdraw, Lead, DeleteUnit
  <2> QED  BY <2>1, <2>2, <2>3, <2>4, <2>5 DEF Others, Turn, arguments, exactPass
<1>2. (Wanted' = Wanted) /\ \A p : Broad(p)' = Broad(p)  BY <1>1 DEF Wanted, Broad
<1>3. UnitsArePlaces'  BY <1>1 DEF MeasuredInv, UnitsArePlaces
<1>4. ShareInv'  BY <1>1, <1>2 DEF MeasuredInv, ShareInv, FairShare
<1>5. PassInv'
  BY <1>1, <1>2 DEF MeasuredInv, PassInv, MeasuredFairly, FairShare, MayMeasure, IdentityConflict, Observations
<1> QED  BY <1>3, <1>4, <1>5 DEF MeasuredInv

LEMMA WantedFacts ==
    /\ IsFiniteSet(Wanted) /\ Cardinality(Wanted) \in Nat
    /\ \A S : S \subseteq Wanted => /\ IsFiniteSet(S) /\ Cardinality(S) \in Nat
                                    /\ Cardinality(S) <= Cardinality(Wanted)
<1>1. Wanted \in SUBSET (DOMAIN UnitSizes)  BY DEF Wanted
<1>2. IsFiniteSet(Wanted)  BY <1>1, FS_Subset, UnitsAssumption
<1>3. \A S : S \subseteq Wanted => IsFiniteSet(S) /\ Cardinality(S) <= Cardinality(Wanted)
  BY <1>2, FS_Subset
<1> QED  BY <1>2, <1>3, FS_CardinalityType


LEMMA ParseKeepsMeasured ==
    ASSUME CutInv, MeasuredInv, ParseManifest
    PROVE  MeasuredInv'
<1> DEFINE r == opened.bytes
           new == [content |-> r, at |-> [id \in DOMAIN r.roots |-> RootAt(r, id)],
                   lies |-> [u \in r.units |-> UnitAt(r, u)]]
<1>1. step' \notin {"measure", "reported"} /\ units' = units
  BY DEF ParseManifest, CutInv, Stages, owners
<1>2. UnitsArePlaces'
  <2>1. CASE UNCHANGED parsed  BY <1>1, <2>1 DEF MeasuredInv, UnitsArePlaces
  <2>2. CASE parsed' = [k \in DOMAIN parsed \cup {opened.name} |->
                           IF k = opened.name THEN new ELSE parsed[k]]
    <3>1. ASSUME NEW u \in r.units, new.lies[u][1] # "gone"
          PROVE  new.lies[u] \in DOMAIN UnitSizes
      BY <3>1 DEF UnitAt, MeasuredInv, UnitsArePlaces
    <3> QED  BY <1>1, <2>2, <3>1 DEF MeasuredInv, UnitsArePlaces
  <2> QED  BY <2>1, <2>2 DEF ParseManifest
<1> QED  BY <1>1, <1>2 DEF MeasuredInv, ShareInv, PassInv

LEMMA CorrelateKeepsMeasured ==
    ASSUME MeasuredInv, Correlate
    PROVE  MeasuredInv'
<1> DEFINE taken(n) == {parsed[n].lies[u] : u \in {v \in parsed[n].content.units :
                           MayMeasure(n, v) /\ ~Broad(parsed[n].lies[v]).complete}}
<1>1. UNCHANGED <<units, inventory, parsed>>  BY DEF Correlate, owners, arguments
<1>2. (Wanted' = Wanted) /\ \A p : Broad(p)' = Broad(p)  BY <1>1 DEF Wanted, Broad
<1>3. UnitsArePlaces'  BY <1>1 DEF MeasuredInv, UnitsArePlaces
<1>4. CASE step' = "failed"  BY <1>3, <1>4 DEF MeasuredInv, ShareInv, PassInv
<1>5. CASE /\ pass' = UNION {taken(n) : n \in DOMAIN parsed}
           /\ exactLeft' = ExactEntries /\ step' = "measure"
  <2>1. pass' \subseteq Wanted
    <3> SUFFICES ASSUME NEW n \in DOMAIN parsed, NEW u \in parsed[n].content.units,
                        MayMeasure(n, u), ~Broad(parsed[n].lies[u]).complete
                 PROVE  parsed[n].lies[u] \in Wanted
      BY <1>5
    <3> QED  BY DEF Wanted, MayMeasure, MeasuredInv, UnitsArePlaces
  <2>2. Cardinality(pass') \in Nat /\ Cardinality(pass') <= Cardinality(Wanted) /\ Cardinality(Wanted) \in Nat
    BY <2>1, WantedFacts
  <2>3. ASSUME NEW s, FairShare(s) PROVE s * Cardinality(pass') <= ExactEntries
    <3>1. s * Cardinality(pass') <= s * Cardinality(Wanted)  BY <2>2, <2>3 DEF FairShare
    <3>2. s * Cardinality(pass') \in Nat /\ s * Cardinality(Wanted) \in Nat  BY <2>2, <2>3 DEF FairShare
    <3> QED  BY <3>1, <3>2, <2>3, ExactAssumption DEF FairShare
  <2>4. ShareInv'  BY <1>2, <1>5, <2>1, <2>3, ExactAssumption DEF ShareInv, FairShare
  <2>5. \A n, u : MayMeasure(n, u)' = MayMeasure(n, u)
    BY <1>1 DEF MayMeasure, IdentityConflict, Observations
  <2>6. PassInv'
    <3> SUFFICES ASSUME NEW n \in DOMAIN parsed, NEW u \in parsed[n].content.units,
                        MayMeasure(n, u), ~Broad(parsed[n].lies[u]).complete
                 PROVE  parsed[n].lies[u] \in pass'
      BY <1>1, <1>2, <2>5 DEF PassInv
    <3> QED  BY <1>5
  <2> QED  BY <1>3, <2>4, <2>6 DEF MeasuredInv
<1> QED  BY <1>4, <1>5 DEF Correlate

LEMMA MeasureKeepsMeasured ==
    ASSUME MeasuredInv, NEW p \in pass, NEW fails \in BOOLEAN, NEW pending \in BOOLEAN,
           MeasureUnit(p, fails, pending)
    PROVE  MeasuredInv'
<1> DEFINE counted == Least(UnitSizes[p], UnitBudget)
           finished == Finishes(UnitSizes[p], UnitBudget, pending)
<1>1. /\ step = "measure" /\ exactLeft > 0 /\ pass' = pass \ {p}
      /\ UNCHANGED <<units, inventory, parsed>>
      /\ \/ step' = "failed"
         \/ p \notin units /\ UNCHANGED <<step, exact, exactLeft>>
         \/ /\ p \in units
            /\ exact' = [q \in DOMAIN exact \cup {p} |->
                           IF q = p THEN [complete |-> finished] ELSE exact[q]]
            /\ exactLeft' = exactLeft - counted /\ UNCHANGED step
  BY DEF MeasureUnit, owners, arguments
<1>2. (Wanted' = Wanted) /\ (\A q : Broad(q)' = Broad(q)) /\ \A s : FairShare(s)' = FairShare(s)
  BY <1>1 DEF Wanted, Broad, FairShare
<1>3. UnitsArePlaces'  BY <1>1 DEF MeasuredInv, UnitsArePlaces
<1>4. \A n, u : MayMeasure(n, u)' = MayMeasure(n, u)
  BY <1>1 DEF MayMeasure, IdentityConflict, Observations
<1>5. /\ p \in Wanted /\ pass \subseteq Wanted /\ UnitSizes[p] \in Nat /\ exactLeft \in Nat
      /\ \A s : FairShare(s) => s * Cardinality(pass) <= exactLeft
  BY <1>1, UnitsAssumption DEF MeasuredInv, ShareInv, Wanted
<1>6. /\ Cardinality(pass) \in Nat \ {0}
      /\ Cardinality(pass') = Cardinality(pass) - 1
  <2>1. IsFiniteSet(pass) /\ Cardinality(pass) \in Nat  BY <1>5, WantedFacts
  <2>2. Cardinality(pass) # 0  BY <2>1, FS_EmptySet
  <2>3. Cardinality(pass \ {p}) = Cardinality(pass) - 1  BY <2>1, FS_RemoveElement
  <2> QED  BY <2>1, <2>2, <2>3, <1>1
<1> DEFINE k == Cardinality(pass)
<1>7. CeilDiv(exactLeft, k) \in Nat  BY <1>5, <1>6, CeilDivFacts
<1>8. UnitBudget \in Nat /\ UnitBudget <= CeilDiv(exactLeft, k)
  BY <1>7, ExactAssumption DEF UnitBudget, Least
<1>9. counted \in Nat /\ counted <= CeilDiv(exactLeft, k) /\ counted <= UnitSizes[p]
  BY <1>5, <1>7, <1>8 DEF Least
<1> HIDE DEF counted, finished
<1>10. ASSUME NEW s, FairShare(s)
       PROVE  s <= CeilDiv(exactLeft, k) /\ s * (k - 1) <= exactLeft - counted /\ s \in Nat
  BY <1>5, <1>6, <1>9, <1>10, ShareFacts DEF FairShare
<1>11. exactLeft - counted \in Nat
  <2>1. 0 * k <= exactLeft  BY <1>5, <1>6
  <2>2. CeilDiv(exactLeft, k) <= exactLeft  BY <2>1, <1>5, <1>6, <1>9, ShareFacts
  <2> QED  BY <2>2, <1>5, <1>7, <1>9
<1>12. \A s : FairShare(s) => s * (k - 1) <= exactLeft
  <2> SUFFICES ASSUME NEW s, FairShare(s) PROVE s * (k - 1) <= exactLeft
    OBVIOUS
  <2>1. s * (k - 1) \in Nat  BY <1>10, <1>6
  <2> QED  BY <2>1, <1>10, <1>5, <1>9
<1>13. ShareInv'
  <2>1. CASE step' = "failed"  BY <2>1 DEF ShareInv
  <2>2. CASE step' = step /\ exactLeft' \in {exactLeft, exactLeft - counted}
    <3>1. \A s : FairShare(s) => s * Cardinality(pass') <= exactLeft'
      BY <2>2, <1>6, <1>10, <1>12
    <3> QED  BY <3>1, <2>2, <1>1, <1>2, <1>5, <1>11 DEF ShareInv
  <2> QED  BY <2>1, <2>2, <1>1
<1>14. PassInv'
  <2>1. CASE step' = "failed"  BY <2>1 DEF PassInv
  <2>2. CASE step' = step /\ p \notin units /\ exact' = exact
    BY <2>2, <1>1, <1>2, <1>4 DEF MeasuredInv, PassInv, MeasuredFairly
  <2>3. CASE /\ p \in units /\ step' = step
             /\ exact' = [q \in DOMAIN exact \cup {p} |->
                            IF q = p THEN [complete |-> finished] ELSE exact[q]]
    <3>1. ASSUME NEW s, FairShare(s), UnitSizes[p] < Least(ExactPerUnit, s)
          PROVE  finished
      <4>1. UnitSizes[p] < UnitBudget
        BY <3>1, <1>5, <1>7, <1>10, ExactAssumption DEF UnitBudget, Least
      <4> QED  BY <4>1 DEF finished, Finishes
    <3>2. \A s : FairShare(s) => Least(ExactPerUnit, s) \in Nat
      BY <1>10, ExactAssumption DEF Least
    <3>3. MeasuredFairly(p)'
      <4>1. p \in DOMAIN exact' /\ exact'[p].complete = finished  BY <2>3
      <4>2. \A s : FairShare(s) => UnitSizes[p] >= Least(ExactPerUnit, s) \/ finished
        BY <3>1, <3>2, <1>5
      <4> QED  BY <4>1, <4>2, <1>2 DEF MeasuredFairly
    <3>4. ASSUME NEW q, q # p, MeasuredFairly(q) PROVE MeasuredFairly(q)'
      BY <2>3, <3>4, <1>2 DEF MeasuredFairly
    <3> QED  BY <3>3, <3>4, <1>1, <1>2, <1>4 DEF MeasuredInv, PassInv
  <2> QED  BY <2>1, <2>2, <2>3, <1>1
<1> QED  BY <1>3, <1>13, <1>14 DEF MeasuredInv

\* The connector's other steps leave all of this alone, or come before it.
LEMMA RestKeepsMeasured ==
    ASSUME CutInv, MeasuredInv,
           \/ DiscoverManifests \/ (\E n : LookAtEntry(n)) \/ EndDiscovery
           \/ (\E n \in unread : OpenManifest(n)) \/ ReadManifest \/ VerifyDirectory \/ FinishReport
    PROVE  MeasuredInv'
<1> DEFINE Idle == /\ UNCHANGED <<units, inventory, parsed, pass, exact, exactLeft>>
                   /\ \/ step' \notin {"measure", "reported"}
                      \/ step' = step
                      \/ step = "measure" /\ step' = "reported" /\ (pass = {} \/ exactLeft = 0)
<1>1. Idle
  <2>1. CASE DiscoverManifests  BY <2>1 DEF DiscoverManifests, owners, arguments, exactPass
  <2>2. ASSUME NEW n, LookAtEntry(n) PROVE Idle  BY <2>2 DEF LookAtEntry, owners, arguments, exactPass
  <2>3. CASE EndDiscovery  BY <2>3 DEF EndDiscovery, owners, arguments, exactPass
  <2>4. ASSUME NEW n, OpenManifest(n) PROVE Idle  BY <2>4 DEF OpenManifest, owners, arguments, exactPass
  <2>5. CASE ReadManifest  BY <2>5 DEF ReadManifest, owners, arguments, exactPass
  <2>6. CASE VerifyDirectory  BY <2>6 DEF VerifyDirectory, owners, arguments, exactPass
  <2>7. CASE FinishReport  BY <2>7 DEF FinishReport, owners, arguments, exactPass
  <2> QED  BY <2>1, <2>2, <2>3, <2>4, <2>5, <2>6, <2>7
<1>2. (Wanted' = Wanted) /\ (\A p : Broad(p)' = Broad(p)) /\ \A s : FairShare(s)' = FairShare(s)
  BY <1>1 DEF Wanted, Broad, FairShare
<1>3. \A n, u : MayMeasure(n, u)' = MayMeasure(n, u)
  BY <1>1 DEF MayMeasure, IdentityConflict, Observations
<1>4. \A p : MeasuredFairly(p)' = MeasuredFairly(p)  BY <1>1, <1>2 DEF MeasuredFairly
<1>5. UnitsArePlaces'  BY <1>1 DEF MeasuredInv, UnitsArePlaces
<1>6. ShareInv'  BY <1>1, <1>2 DEF MeasuredInv, ShareInv
<1>7. PassInv'  BY <1>1, <1>2, <1>3, <1>4 DEF MeasuredInv, PassInv
<1> QED  BY <1>5, <1>6, <1>7 DEF MeasuredInv

LEMMA MeasuredMeans == MeasuredInv => StandingUnitsAreMeasured
<1> SUFFICES ASSUME MeasuredInv, step = "reported", Cardinality(Wanted) <= ExactEntries,
                    NEW n \in DOMAIN parsed, NEW u \in parsed[n].content.units,
                    parsed[n].lies[u] \in units, ~IdentityConflict(u[1])
             PROVE  LET p == parsed[n].lies[u] IN
                    /\ Source(n, u) # "Unavailable"
                    /\ \/ Broad(p).complete
                       \/ UnitSizes[p] >= Least(ExactPerUnit, ExactEntries \div Cardinality(Wanted))
                       \/ exact[p].complete
  BY DEF StandingUnitsAreMeasured, Wanted
<1> DEFINE p == parsed[n].lies[u]
           w == Cardinality(Wanted)
<1>1. p \in DOMAIN UnitSizes /\ p[1] # "gone"  BY UnitsAssumption DEF MeasuredInv, UnitsArePlaces
<1>2. MayMeasure(n, u)  BY <1>1 DEF MayMeasure
<1>3. CASE Broad(p).complete  BY <1>2, <1>3 DEF Source
<1>4. CASE ~Broad(p).complete
  <2>1. p \in Wanted  BY <1>1, <1>4 DEF Wanted
  <2>2. w \in Nat \ {0}
    BY <2>1, WantedFacts, FS_EmptySet
  <2>3. FairShare(1)  BY <2>2 DEF FairShare
  <2>4. FairShare(ExactEntries \div w)
    <3>1. /\ ExactEntries \div w \in Nat /\ ExactEntries % w \in Nat
          /\ ExactEntries = w * (ExactEntries \div w) + (ExactEntries % w)
      <4> HIDE DEF w
      <4> QED  BY <2>2, ExactAssumption
    <3>2. (ExactEntries \div w) * w = w * (ExactEntries \div w) /\ w * (ExactEntries \div w) \in Nat
      BY <3>1, <2>2
    <3> QED  BY <3>1, <3>2, ExactAssumption DEF FairShare
  <2>5. pass = {}
    <3>1. pass \subseteq Wanted /\ 1 * Cardinality(pass) <= exactLeft /\ (pass = {} \/ exactLeft = 0)
      BY <2>3 DEF MeasuredInv, ShareInv
    <3>2. IsFiniteSet(pass) /\ Cardinality(pass) \in Nat  BY <3>1, WantedFacts
    <3>3. exactLeft = 0 => Cardinality(pass) = 0  BY <3>1, <3>2
    <3> QED  BY <3>1, <3>2, <3>3, FS_EmptySet
  <2>6. MeasuredFairly(p)  BY <1>2, <1>4, <2>5 DEF MeasuredInv, PassInv
  <2>7. Source(n, u) = "ExactUnitSubpass"  BY <1>2, <1>4, <2>6 DEF Source, MeasuredFairly
  <2> QED  BY <2>4, <2>6, <2>7 DEF MeasuredFairly
<1> QED  BY <1>3, <1>4

\* A unit that stands is measured, completely if it is smaller than its share
\* (GatewayReport, StandingUnitsAreMeasured).
THEOREM FairMeasurement == GatewaySpec => []StandingUnitsAreMeasured
<1>1. GatewayInit => CutInv /\ MeasuredInv
  <2> SUFFICES ASSUME GatewayInit PROVE CutInv /\ MeasuredInv
    OBVIOUS
  <2>1. MeasuredInv
    BY DEF GatewayInit, GatewayWith, MeasuredInv, UnitsArePlaces, ShareInv, PassInv
  <2> QED  BY <2>1, CutHolds
<1>2. CutInv /\ MeasuredInv /\ [GatewayNext]_gatewayVars => CutInv' /\ MeasuredInv'
  <2> SUFFICES ASSUME CutInv, MeasuredInv, [GatewayNext]_gatewayVars
               PROVE  MeasuredInv'
    BY CutHolds
  <2>1. CASE Connector
    BY <2>1, ParseKeepsMeasured, CorrelateKeepsMeasured, MeasureKeepsMeasured, RestKeepsMeasured
    DEF Connector
  <2>2. CASE Others  BY <2>2, OthersKeepMeasured
  <2>3. CASE UNCHANGED gatewayVars
    <3>1. UNCHANGED <<units, inventory, parsed, pass, exact, exactLeft, step>>
      BY <2>3 DEF gatewayVars, owners, arguments, exactPass
    <3>2. (Wanted' = Wanted) /\ (\A p : Broad(p)' = Broad(p)) /\ \A s : FairShare(s)' = FairShare(s)
      BY <3>1 DEF Wanted, Broad, FairShare
    <3>3. \A n, u : MayMeasure(n, u)' = MayMeasure(n, u)
      BY <3>1 DEF MayMeasure, IdentityConflict, Observations
    <3>4. \A p : MeasuredFairly(p)' = MeasuredFairly(p)  BY <3>1, <3>2 DEF MeasuredFairly
    <3> QED  BY <3>1, <3>2, <3>3, <3>4 DEF MeasuredInv, UnitsArePlaces, ShareInv, PassInv
  <2> QED  BY <2>1, <2>2, <2>3 DEF GatewayNext
<1> QED  BY <1>1, <1>2, MeasuredMeans, PTL DEF GatewaySpec

-----------------------------------------------------------------------------
(* The inventory: its state. What a traversal of a root has still before it *)
(* is a set of disjoint subtrees, Slots; every file below the root that is  *)
(* in none of them was counted or is marked as missing in all that is       *)
(* retained above it.                                                       *)

\* Everything beneath an entry, and the entry itself.
Under(e) == {x \in Entries : x = e \/ e \in fs.above[x]}

\* The directories that have a reader, and what is still to come of them and of those
\* without one: pairs of a directory and an entry of it, or the directory itself.
Opened == ToSet(open) \cup {d \in Dirs : progress = "visit" /\ d = visit.dir}
Slots  == {s \in Dirs \X Entries : \/ s[1] \in ToSet(unopened) /\ s[2] = s[1]
                                   \/ s[1] \in Opened /\ s[2] \in ahead[s[1]]}

Scanning == progress \in {"fill", "visit", "finish"}
Distinct(q) == \A i, j \in DOMAIN q : q[i] = q[j] => i = j
Metrics == [files : [Inodes -> Nat], private : SUBSET Inodes, dirs : Nat, dups : Nat, errors : Nat]
Links == [expected : Nat, observed : Nat, common : SUBSET Dirs]

InventoryTypes ==
    /\ fs \in FileSystems /\ roots \in Roots /\ allowance \in Budgets
    /\ gone \subseteq Files /\ mishaps \in Nat /\ (mishaps = 0 => gone = {})
    /\ at \in Nat \ {0} /\ budget \in Nat /\ unspent \in Nat
    /\ marks \in [Dirs -> SUBSET Reasons] /\ ahead \in [Dirs -> SUBSET Entries]
    /\ complete \in BOOLEAN /\ exhausted \in BOOLEAN
    /\ unopened \in Seq(Dirs) /\ open \in Seq(Dirs)
    /\ seen \subseteq Inodes
    /\ DOMAIN links \subseteq Inodes /\ links \in [DOMAIN links -> Links]
    /\ DOMAIN agg \subseteq Dirs /\ agg \in [DOMAIN agg -> Metrics]
    /\ progress \in {"root", "fill", "visit", "finish", "done", "failed"}
    /\ Scanning => at <= Len(roots) /\ Root \in Dirs
    /\ progress = "visit" => visit \in [dir : Dirs, slice : 0 .. unspent, yielded : 0 .. visit.slice]

\* Every directory is in one queue at most, once.
QueuesInv ==
    Scanning =>
        /\ Distinct(unopened) /\ Distinct(open) /\ ToSet(unopened) \cap Opened = {}
        /\ progress = "visit" => visit.dir \notin ToSet(open)

\* What a reader is open of, or is to be, is beneath the root and on its file system.
\* Nothing beneath what is to come is retained or open yet, and nothing is to come twice.
FrontierInv ==
    Scanning =>
        /\ Root \in DOMAIN agg /\ \A k \in DOMAIN agg : Root \in fs.above[k]
        /\ \A s \in Slots :
              /\ Root \in fs.above[s[1]]
              /\ Crossed(Root, fs.above[s[2]] \ {s[2]}) = {}
              /\ s[2] # s[1] => fs.above[s[2]] \ {s[2]} = fs.above[s[1]]
              /\ DOMAIN agg \cap Under(s[2]) \subseteq {s[1]} /\ Opened \cap Under(s[2]) = {}
        /\ \A s, t \in Slots : Under(s[2]) \cap Under(t[2]) # {} => s = t

Covered(f) == \E s \in Slots : f \in Under(s[2])
Above(f) == fs.above[f] \cap DOMAIN agg
Lost(f)  == ~complete /\ \A k \in Above(f) : "ScanErrors" \in marks[k]
Spent(f) == ~complete /\ \A k \in Above(f) : "EntryBudgetExhausted" \in marks[k]

\* What is known of inode i when `of` are its files that were counted.
Common(of) == {k \in Dirs : \A f \in of : k \in fs.above[f]}
LinkCount(i) == fs.outside[i] + Cardinality({f \in Files : fs.inode[f] = i})
Of(D, i) == {f \in D : fs.inode[f] = i}
Attributed == seen \ DOMAIN links
InodeInv(of, i) ==
    /\ i \in seen <=> of # {}
    /\ i \in DOMAIN links =>
          i \in seen /\ LinkCount(i) > 1 /\ links[i] = Link(LinkCount(i), Cardinality(of), Common(of))
    /\ i \in Attributed =>
          /\ \A k \in DOMAIN agg :
                /\ agg[k].files[i] = IF k \in Common(of) THEN 1 ELSE 0
                /\ i \in agg[k].private => k \in Common(of) /\ LinkCount(i) <= Cardinality(of)
          /\ Cardinality(of) < LinkCount(i) =>
                /\ progress = "finish"
                /\ complete \/ \A k \in Common(of) \cap DOMAIN agg : "UnresolvedHardlinkAttribution" \in marks[k]
    /\ i \notin Attributed => \A k \in DOMAIN agg : agg[k].files[i] = 0 /\ i \notin agg[k].private

\* D are the files that were counted: all that were reached and are neither to come nor lost.
CountInv(D) ==
    /\ D \subseteq Reached(Root)
    /\ \A s \in Slots : D \cap Under(s[2]) = {}
    /\ \A f \in Reached(Root) \ gone : f \in D \/ Covered(f) \/ Lost(f)
    /\ \A i \in Inodes : Standing(i) => InodeInv(Of(D, i), i)
TotalsInv ==
    /\ Scanning => \E D \in SUBSET Files : CountInv(D)
    /\ progress = "finish" => \A f \in Files : Covered(f) => Spent(f)

\* E are the entries that were charged, as long as nothing went wrong.
Countable == {e \in Beneath(Root) : Crossed(Root, fs.above[e] \ {e}) = {}}
Charged == IF progress = "visit" THEN budget + visit.yielded - unspent ELSE budget - unspent
TallyInv(E) ==
    /\ E \subseteq Countable
    /\ \A s \in Slots : E \cap Under(s[2]) \subseteq {s[1]}
    /\ Cardinality(E) = Charged
    /\ complete \/ (progress = "finish" /\ unspent = 0)
Share == allowance \div Len(roots)
AllotmentInv ==
    /\ left \in Nat
    /\ at <= Len(roots) => Share * (Len(roots) - at + 1) <= left
    /\ Scanning => /\ unspent <= budget /\ Least(RootLimit, Share) <= budget
                   /\ budget <= CeilDiv(left, Len(roots) - at + 1)
TalliesInv == Scanning /\ mishaps = 0 => \E E \in SUBSET Entries : TallyInv(E)

\* A report of the totals of one root.
RootReport == [root : Entries, agg : UNION {[K -> Metrics] : K \in SUBSET Entries}, marks : [Dirs -> SUBSET Reasons],
               complete : BOOLEAN, exhausted : BOOLEAN, visited : Nat, budget : Nat]
SmallIsComplete(r) ==
    LET many == Cardinality({e \in Beneath(r.root) : Crossed(r.root, fs.above[e] \ {e}) = {}})
    IN mishaps = 0 /\ r.root \in Dirs /\ many < Least(RootLimit, allowance \div Len(roots)) => r.complete
TruthfulReport(r) == \A d \in Dirs \cap DOMAIN r.agg : \A i \in Inodes : Standing(i) => Truthful(r, d, i)
ReportsInv == reports \in Seq(RootReport) /\ \A n \in 1 .. Len(reports) : TruthfulReport(reports[n]) /\ SmallIsComplete(reports[n])

InventoryInv == InventoryTypes /\ AllotmentInv /\ QueuesInv /\ FrontierInv /\ TotalsInv /\ TalliesInv /\ ReportsInv

-----------------------------------------------------------------------------
(* Facts about the file system and the queues. *)

\* What the file system is, of the one at hand.
Tree ==
    /\ fs.above \in [Entries -> SUBSET Dirs] /\ fs.mounts \subseteq Dirs
    /\ fs.inode \in [Files -> Inodes] /\ fs.outside \in [Inodes -> Nat]
    /\ \A d \in Dirs : d \in fs.above[d]
    /\ \A e \in Entries : \A c, d \in fs.above[e] :
           fs.above[d] \subseteq fs.above[e] /\ (c \in fs.above[d] \/ d \in fs.above[c])
    /\ \A c, d \in Dirs : c \in fs.above[d] /\ d \in fs.above[c] => c = d

LEMMA TreeHolds == ASSUME InventoryTypes PROVE Tree
BY FileSystemAssumption DEF InventoryTypes, Tree, Entries

\* Files have nothing beneath them, and directories themselves.
LEMMA UnderFacts ==
    ASSUME Tree, NEW e \in Entries
    PROVE  /\ e \in Under(e) /\ Under(e) \subseteq Entries
           /\ e \in Files => Under(e) = {e}
           /\ e \in Dirs => Under(e) = {x \in Entries : e \in fs.above[x]}
           /\ \A f \in Under(e) : Under(f) \subseteq Under(e)
<1>1. e \in Files => Under(e) = {e}
  <2>1. e \in Files => \A x \in Entries : e \notin fs.above[x]
      BY KindsAssumption DEF Tree
  <2> QED
      BY <2>1 DEF Under
<1>2. e \in Dirs => Under(e) = {x \in Entries : e \in fs.above[x]}
    BY DEF Under, Tree
<1>3. ASSUME NEW f \in Under(e), NEW x \in Under(f) PROVE x \in Under(e)
  <2>1. f \in Entries /\ x \in Entries /\ (x = f \/ f \in fs.above[x]) /\ (f = e \/ e \in fs.above[f])
      BY <1>3 DEF Under
  <2>2. f \in fs.above[x] => fs.above[f] \subseteq fs.above[x]
      BY <2>1 DEF Tree
  <2> QED
      BY <2>1, <2>2 DEF Under
<1> QED
    BY <1>1, <1>2, <1>3 DEF Under

\* What is retained above a file that is to come is above the directory it is to come of.
LEMMA RetainedAbove ==
    ASSUME InventoryTypes, FrontierInv, Scanning,
           NEW s \in Slots, NEW f \in Under(s[2])
    PROVE  Above(f) \subseteq fs.above[s[1]]
<1> DEFINE d == s[1]
           e == s[2]
<1>1. Tree /\ d \in Dirs /\ e \in Entries /\ f \in Entries /\ (f = e \/ e \in fs.above[f])
    BY TreeHolds DEF Slots, Under
<1>2. (e # d => fs.above[e] \ {e} = fs.above[d]) /\ DOMAIN agg \cap Under(e) \subseteq {d}
    BY DEF FrontierInv
<1> SUFFICES ASSUME NEW k \in Above(f) PROVE k \in fs.above[d]
    OBVIOUS
<1>3. k \in fs.above[f] /\ k \in DOMAIN agg /\ k \in Dirs
    BY DEF Above, InventoryTypes
<1> HIDE DEF d, e
<1>4. k \in Under(e) => k = d
    BY <1>2, <1>3
<1>5. k \in fs.above[e] \/ e \in fs.above[k]
    BY <1>1, <1>3 DEF Tree
<1>6. CASE e \in fs.above[k]
  <2>1. k \in Under(e)
      BY <1>3, <1>6 DEF Under, Entries
  <2> QED
      BY <1>1, <1>4, <2>1 DEF Tree
<1>7. CASE k \in fs.above[e]
  <2>1. k = e => k \in Under(e)
      BY <1>3 DEF Under, Entries
  <2> QED
      BY <1>1, <1>2, <1>4, <1>7, <2>1 DEF Tree
<1> QED
    BY <1>5, <1>6, <1>7

\* The head of a queue without duplicates is not in what is left of it.
LEMMA HeadFacts ==
    ASSUME NEW q \in Seq(Dirs), q # <<>>, Distinct(q)
    PROVE  /\ Tail(q) \in Seq(Dirs) /\ Distinct(Tail(q)) /\ Head(q) \in ToSet(q)
           /\ ToSet(Tail(q)) = ToSet(q) \ {Head(q)} /\ ToSet(q) \subseteq Dirs
<1>1. /\ Len(q) \in Nat \ {0} /\ DOMAIN q = 1 .. Len(q) /\ Head(q) = q[1] /\ 1 \in DOMAIN q
      /\ Tail(q) \in Seq(Dirs) /\ DOMAIN Tail(q) = 1 .. Len(q) - 1
      /\ \A i \in 1 .. Len(q) - 1 : Tail(q)[i] = q[i + 1]
    OBVIOUS
<1>2. ASSUME NEW i \in DOMAIN Tail(q), NEW j \in DOMAIN Tail(q), Tail(q)[i] = Tail(q)[j] PROVE i = j
  <2>1. i + 1 \in DOMAIN q /\ j + 1 \in DOMAIN q /\ q[i + 1] = q[j + 1] /\ i \in Nat /\ j \in Nat
      BY <1>1, <1>2
  <2>2. i + 1 = j + 1
      BY <2>1 DEF Distinct
  <2> QED
      BY <2>1, <2>2
<1>3. ASSUME NEW i \in DOMAIN Tail(q) PROVE Tail(q)[i] \in ToSet(q) \ {Head(q)}
  <2>1. i + 1 \in DOMAIN q /\ i + 1 # 1 /\ Tail(q)[i] = q[i + 1]
      BY <1>1
  <2>2. q[i + 1] # q[1]
      BY <1>1, <2>1 DEF Distinct
  <2> QED
      BY <1>1, <2>1, <2>2 DEF ToSet
<1>4. ASSUME NEW x \in ToSet(q) \ {Head(q)} PROVE x \in ToSet(Tail(q))
  <2>1. PICK i \in DOMAIN q : x = q[i] /\ i # 1
      BY <1>1 DEF ToSet
  <2>2. i - 1 \in DOMAIN Tail(q) /\ Tail(q)[i - 1] = x
      BY <1>1, <2>1
  <2> QED
      BY <2>2 DEF ToSet
<1>5. ToSet(Tail(q)) = ToSet(q) \ {Head(q)}
    BY <1>3, <1>4 DEF ToSet
<1>6. Head(q) \in ToSet(q) /\ ToSet(q) \subseteq Dirs
    BY <1>1 DEF ToSet
<1> QED
    BY <1>1, <1>2, <1>5, <1>6 DEF Distinct

LEMMA AppendFacts ==
    ASSUME NEW q \in Seq(Dirs), NEW d \in Dirs, Distinct(q), d \notin ToSet(q)
    PROVE  /\ Append(q, d) \in Seq(Dirs) /\ Distinct(Append(q, d))
           /\ ToSet(Append(q, d)) = ToSet(q) \cup {d}
<1> DEFINE r == Append(q, d)
<1>1. /\ r \in Seq(Dirs) /\ Len(q) \in Nat /\ DOMAIN q = 1 .. Len(q) /\ DOMAIN r = 1 .. Len(q) + 1
      /\ r[Len(q) + 1] = d /\ \A i \in 1 .. Len(q) : r[i] = q[i]
    OBVIOUS
<1> HIDE DEF r
<1>2. \A i \in DOMAIN r : (i \in DOMAIN q /\ r[i] = q[i]) \/ (i = Len(q) + 1 /\ r[i] = d)
    BY <1>1
<1>3. \A i \in DOMAIN q : q[i] \in ToSet(q)
    BY DEF ToSet
<1>4. ASSUME NEW i \in DOMAIN r, NEW j \in DOMAIN r, r[i] = r[j] PROVE i = j
    BY <1>2, <1>3, <1>4 DEF Distinct
<1>5. ToSet(r) = ToSet(q) \cup {d}
  <2>1. \A i \in DOMAIN q : i \in DOMAIN r /\ r[i] = q[i]
      BY <1>1
  <2>2. Len(q) + 1 \in DOMAIN r
      BY <1>1
  <2> QED
      BY <1>1, <1>2, <2>1, <2>2 DEF ToSet
<1> QED
    BY <1>1, <1>4, <1>5 DEF Distinct, r

-----------------------------------------------------------------------------
(* Facts about the metrics. *)

\* Of a file only what is above it is charged.
LEMMA AddFileTypes ==
    ASSUME NEW a, a \in [DOMAIN a -> Metrics], NEW p, NEW i \in Inodes, NEW own, own \subseteq {i}
    PROVE  DOMAIN AddFile(a, p, i, own) = DOMAIN a /\ AddFile(a, p, i, own) \in [DOMAIN a -> Metrics]
<1> DEFINE one(r) == [r EXCEPT !.files[i] = @ + 1]
           own2(r) == [r EXCEPT !.private = @ \cup own]
           c == Add(a, p, one)
           b == Add(c, p, own2)
<1>1. AddFile(a, p, i, own) = b
    BY DEF AddFile
<1>2. \A k \in DOMAIN a : a[k] \in Metrics
    OBVIOUS
<1>3. DOMAIN c = DOMAIN a /\ \A k \in DOMAIN a : c[k] = IF k \in p THEN one(a[k]) ELSE a[k]
    BY DEF Add
<1>4. ASSUME NEW r \in Metrics PROVE one(r) \in Metrics
    BY DEF Metrics
<1>5. ASSUME NEW r \in Metrics PROVE own2(r) \in Metrics
    BY DEF Metrics
<1> HIDE DEF one, c
<1>6. DOMAIN b = DOMAIN a /\ \A k \in DOMAIN a : b[k] = IF k \in p THEN own2(c[k]) ELSE c[k]
    BY <1>3 DEF Add
<1> HIDE DEF own2, b
<1>7. \A k \in DOMAIN a : b[k] \in Metrics
    BY <1>2, <1>3, <1>4, <1>5, <1>6
<1>8. b = [k \in DOMAIN a |-> b[k]]
    BY <1>6 DEF b, Add
<1> QED
    BY <1>1, <1>6, <1>7, <1>8

LEMMA AddFileFacts ==
    ASSUME NEW a, a \in [DOMAIN a -> Metrics], NEW p, NEW i \in Inodes, NEW own, own \subseteq {i},
           NEW k \in DOMAIN a, NEW j \in Inodes
    PROVE  /\ AddFile(a, p, i, own)[k].files[j] = a[k].files[j] + (IF k \in p /\ j = i THEN 1 ELSE 0)
           /\ j \in AddFile(a, p, i, own)[k].private <=> j \in a[k].private \/ (k \in p /\ j \in own)
<1> DEFINE one(r) == [r EXCEPT !.files[i] = @ + 1]
           own2(r) == [r EXCEPT !.private = @ \cup own]
           c == Add(a, p, one)
           b == Add(c, p, own2)
<1>1. AddFile(a, p, i, own) = b
    BY DEF AddFile
<1>2. \A d \in DOMAIN a : a[d] \in Metrics
    OBVIOUS
<1>3. DOMAIN c = DOMAIN a /\ \A d \in DOMAIN a : c[d] = IF d \in p THEN one(a[d]) ELSE a[d]
    BY DEF Add
<1>4. ASSUME NEW r \in Metrics
      PROVE  /\ one(r) \in Metrics /\ one(r).private = r.private
             /\ one(r).files[j] = r.files[j] + (IF j = i THEN 1 ELSE 0)
    BY DEF Metrics
<1>5. ASSUME NEW r \in Metrics
      PROVE  own2(r).private = r.private \cup own /\ own2(r).files = r.files
    BY DEF Metrics
<1> HIDE DEF one, c
<1>6. b[k] = IF k \in p THEN own2(c[k]) ELSE c[k]
    BY <1>3 DEF Add
<1> HIDE DEF own2, b
<1>7. CASE k \in p
  <2>1. a[k] \in Metrics /\ one(a[k]) \in Metrics /\ b[k] = own2(one(a[k]))
      BY <1>2, <1>3, <1>4, <1>6, <1>7
  <2> QED
      BY <1>1, <1>4, <1>5, <1>7, <2>1
<1>8. CASE k \notin p
  <2>1. b[k] = a[k] /\ a[k].files[j] \in Nat
      BY <1>2, <1>3, <1>6, <1>8 DEF Metrics
  <2> QED
      BY <1>1, <1>8, <2>1
<1> QED
    BY <1>7, <1>8

\* Errors and further links of a file change nothing else.
LEMMA RecordFacts ==
    ASSUME NEW a, a \in [DOMAIN a -> Metrics], NEW p
    PROVE  /\ DOMAIN RecordError(a, p) = DOMAIN a /\ RecordError(a, p) \in [DOMAIN a -> Metrics]
           /\ \A k \in DOMAIN a : /\ RecordError(a, p)[k].files = a[k].files
                                  /\ RecordError(a, p)[k].private = a[k].private
                                  /\ RecordError(a, p)[k].errors >= a[k].errors
                                  /\ k \in p => RecordError(a, p)[k].errors > 0
           /\ DOMAIN AddDuplicate(a, p) = DOMAIN a /\ AddDuplicate(a, p) \in [DOMAIN a -> Metrics]
           /\ \A k \in DOMAIN a : /\ AddDuplicate(a, p)[k].files = a[k].files
                                  /\ AddDuplicate(a, p)[k].private = a[k].private
                                  /\ AddDuplicate(a, p)[k].errors = a[k].errors
<1>1. \A k \in DOMAIN a : a[k] \in Metrics
    OBVIOUS
<1>2. ASSUME NEW r \in Metrics
      PROVE  /\ [r EXCEPT !.errors = @ + 1] \in Metrics /\ [r EXCEPT !.errors = @ + 1].errors > 0
             /\ [r EXCEPT !.errors = @ + 1].errors >= r.errors
             /\ [r EXCEPT !.errors = @ + 1].files = r.files /\ [r EXCEPT !.errors = @ + 1].private = r.private
             /\ [r EXCEPT !.dups = @ + 1] \in Metrics /\ [r EXCEPT !.dups = @ + 1].errors = r.errors /\ r.errors >= r.errors
             /\ [r EXCEPT !.dups = @ + 1].files = r.files /\ [r EXCEPT !.dups = @ + 1].private = r.private
    BY DEF Metrics
<1> QED
    BY <1>1, <1>2 DEF RecordError, AddDuplicate, Add

\* A directory that is retained begins with nothing.
LEMMA AddDirectoryFacts ==
    ASSUME NEW a, a \in [DOMAIN a -> Metrics], NEW d \in Dirs, NEW b, b = AddDirectory(a, d)
    PROVE  /\ DOMAIN a \subseteq DOMAIN b /\ DOMAIN b \subseteq DOMAIN a \cup {d}
           /\ b \in [DOMAIN b -> Metrics]
           /\ \A k \in DOMAIN a : /\ b[k].files = a[k].files /\ b[k].private = a[k].private
                                  /\ b[k].errors = a[k].errors
           /\ \A k \in DOMAIN b \ DOMAIN a : b[k].private = {} /\ \A i \in Inodes : b[k].files[i] = 0
<1> DEFINE one(r) == [r EXCEPT !.dirs = @ + 1]
           w == Widened(a, d)
<1>1. b = Add(w, fs.above[d], one)
    BY DEF AddDirectory
<1>2. Zero \in Metrics /\ Zero.private = {} /\ \A i \in Inodes : Zero.files[i] = 0
    BY DEF Zero, Metrics
<1>3. /\ DOMAIN a \subseteq DOMAIN w /\ DOMAIN w \subseteq DOMAIN a \cup {d}
      /\ \A k \in DOMAIN a : w[k] = a[k]
      /\ \A k \in DOMAIN w \ DOMAIN a : w[k] = Zero
      /\ \A k \in DOMAIN w : w[k] \in Metrics
    BY <1>2 DEF Widened
<1>4. ASSUME NEW r \in Metrics
      PROVE  one(r) \in Metrics /\ one(r).files = r.files /\ one(r).private = r.private /\ one(r).errors = r.errors
    BY DEF Metrics
<1> HIDE DEF one, w
<1>5. DOMAIN b = DOMAIN w /\ b \in [DOMAIN w -> Metrics] /\ \A k \in DOMAIN w : b[k] = w[k] \/ b[k] = one(w[k])
    BY <1>1, <1>3, <1>4 DEF Add
<1>6. ASSUME NEW k \in DOMAIN a
      PROVE  b[k].files = a[k].files /\ b[k].private = a[k].private /\ b[k].errors = a[k].errors
  <2>1. w[k] = a[k] /\ w[k] \in Metrics /\ (b[k] = w[k] \/ b[k] = one(w[k]))
      BY <1>3, <1>5
  <2> QED
      BY <1>4, <2>1
<1>7. ASSUME NEW k \in DOMAIN b \ DOMAIN a
      PROVE  b[k].private = {} /\ \A i \in Inodes : b[k].files[i] = 0
  <2>1. w[k] = Zero /\ (b[k] = w[k] \/ b[k] = one(w[k]))
      BY <1>3, <1>5
  <2> QED
      BY <1>2, <1>4, <2>1
<1> QED
    BY <1>3, <1>5, <1>6, <1>7

\* Marks are only added, to what is retained.
LEMMA MarkFacts ==
    ASSUME InventoryTypes, NEW p, NEW reason \in Reasons, Mark(agg, p, reason)
    PROVE  /\ marks' \in [Dirs -> SUBSET Reasons] /\ \A k \in Dirs : marks[k] \subseteq marks'[k]
           /\ \A k \in p \cap DOMAIN agg : reason \in marks'[k]
BY DEF InventoryTypes, Mark, Keys

\* An error is recorded in all that is above it.
LEMMA ErrorFacts ==
    ASSUME InventoryTypes, NEW p, ScanError(p)
    PROVE  /\ complete' = FALSE
           /\ DOMAIN agg' = DOMAIN agg /\ agg' \in [DOMAIN agg -> Metrics]
           /\ marks' \in [Dirs -> SUBSET Reasons] /\ \A k \in Dirs : marks[k] \subseteq marks'[k]
           /\ \A k \in DOMAIN agg : /\ agg'[k].files = agg[k].files /\ agg'[k].private = agg[k].private
                                    /\ agg'[k].errors >= agg[k].errors
           /\ \A k \in p \cap DOMAIN agg : agg'[k].errors > 0 /\ "ScanErrors" \in marks'[k]
<1>1. agg \in [DOMAIN agg -> Metrics] /\ "ScanErrors" \in Reasons
    BY DEF InventoryTypes, Reasons
<1>2. agg' = RecordError(agg, p) /\ Mark(agg, p, "ScanErrors") /\ complete' = FALSE
    BY DEF ScanError
<1>3. /\ marks' \in [Dirs -> SUBSET Reasons] /\ \A k \in Dirs : marks[k] \subseteq marks'[k]
      /\ \A k \in p \cap DOMAIN agg : "ScanErrors" \in marks'[k]
    BY <1>1, <1>2, MarkFacts
<1> QED
    BY <1>1, <1>2, <1>3, RecordFacts

-----------------------------------------------------------------------------
(* The types. *)

LEMMA ReasonsAre == {"EntryBudgetExhausted", "ScanErrors", "UnresolvedHardlinkAttribution"} \subseteq Reasons
BY DEF Reasons

LEMMA InitTypes == InventoryInit => InventoryTypes
<1> SUFFICES ASSUME InventoryInit PROVE InventoryTypes
    OBVIOUS
<1>1. agg = NoTree /\ links = NoTree /\ DOMAIN NoTree = {} /\ NoTree \in [{} -> Metrics] /\ NoTree \in [{} -> Links]
    BY DEF InventoryInit, NoTree
<1>2. agg \in [DOMAIN agg -> Metrics] /\ DOMAIN agg \subseteq Dirs /\ links \in [DOMAIN links -> Links] /\ DOMAIN links \subseteq Inodes
    BY <1>1
<1>3. /\ fs \in FileSystems /\ roots \in Roots /\ allowance \in Budgets /\ gone = {} /\ mishaps = 0
      /\ progress = "root" /\ at = 1 /\ budget = 0 /\ unspent = 0 /\ unopened = <<>> /\ open = <<>> /\ seen = {}
      /\ complete = TRUE /\ exhausted = FALSE
    BY DEF InventoryInit
<1>4. ahead \in [Dirs -> SUBSET Entries] /\ marks \in [Dirs -> SUBSET Reasons]
    BY DEF InventoryInit
<1>5. ~Scanning /\ progress # "visit"
    BY <1>3 DEF Scanning
<1>6. unopened \in Seq(Dirs) /\ open \in Seq(Dirs) /\ at \in Nat \ {0} /\ budget \in Nat /\ unspent \in Nat
    BY <1>3
<1>7. seen \subseteq Inodes /\ gone \subseteq Files /\ mishaps \in Nat /\ (mishaps = 0 => gone = {}) /\ complete \in BOOLEAN /\ exhausted \in BOOLEAN
    BY <1>3
<1>8. fs \in FileSystems /\ roots \in Roots /\ allowance \in Budgets /\ progress \in {"root", "fill", "visit", "finish", "done", "failed"}
    BY <1>3
<1> QED
    BY <1>2, <1>4, <1>5, <1>6, <1>7, <1>8 DEF InventoryTypes

\* Shares of what is left are no more than what is left.
LEMMA ShareIsLess == ASSUME NEW a \in Nat, NEW n \in Nat \ {0} PROVE CeilDiv(a, n) \in 0 .. a
<1>1. 0 * n <= a /\ 0 <= CeilDiv(a, n) => CeilDiv(a, n) \in Nat /\ CeilDiv(a, n) <= a
    BY CeilDivFacts, ShareFacts
<1> QED
    BY <1>1, CeilDivFacts

LEMMA RootBudgetFacts ==
    ASSUME InventoryTypes, left \in Nat, at <= Len(roots)
    PROVE  /\ Len(roots) - at + 1 \in Nat \ {0}
           /\ RootBudget(left, Len(roots) - at + 1) \in Nat
           /\ RootBudget(left, Len(roots) - at + 1) <= CeilDiv(left, Len(roots) - at + 1)
           /\ RootBudget(left, Len(roots) - at + 1) <= left
<1>1. Len(roots) \in Nat /\ at \in Nat \ {0} /\ RootLimit \in Nat
    BY KindsAssumption DEF InventoryTypes
<1>2. Len(roots) - at + 1 \in Nat \ {0}
    BY <1>1
<1>3. CeilDiv(left, Len(roots) - at + 1) \in 0 .. left
    BY <1>2, ShareIsLess
<1> QED
    BY <1>1, <1>2, <1>3 DEF RootBudget, Least

LEMMA QueueTypes ==
    ASSUME NEW q \in Seq(Dirs)
    PROVE  /\ Len(q) \in Nat /\ (q # <<>> => Len(q) # 0 /\ Head(q) \in Dirs /\ Tail(q) \in Seq(Dirs))
           /\ \A d \in Dirs : Append(q, d) \in Seq(Dirs)
OBVIOUS

\* What a directory is scanned into.
LEMMA TypesAtRoots ==
    ASSUME InventoryTypes, left \in Nat, BeginRoot \/ FileRoot \/ RootFails \/ EndRoot \/ EndRun
    PROVE  InventoryTypes'
<1>1. CASE BeginRoot
  <2>1. budget' \in Nat
      BY <1>1, RootBudgetFacts DEF BeginRoot
  <2>2. [Zero EXCEPT !.dirs = 1] \in Metrics
      BY DEF Zero, Metrics
  <2>3. Root \in Dirs /\ Root' = Root
      BY <1>1 DEF BeginRoot, inquiry, Root
  <2>4. DOMAIN agg' = {Root} /\ agg' \in [{Root} -> Metrics]
      BY <1>1, <2>2 DEF BeginRoot
  <2>5. links' = NoTree /\ DOMAIN NoTree = {} /\ NoTree \in [{} -> Links]
      BY <1>1 DEF BeginRoot, NoTree
  <2>6. <<Root>> \in Seq(Dirs) /\ <<>> \in Seq(Dirs)
      BY <2>3
  <2> QED
      BY <1>1, <2>1, <2>3, <2>4, <2>5, <2>6 DEF BeginRoot, InventoryTypes, Scanning, inquiry
<1>2. CASE FileRoot \/ RootFails \/ EndRoot \/ EndRun
  <2>1. /\ UNCHANGED <<fs, roots, allowance, gone, mishaps, budget, unspent, marks, ahead, complete, exhausted, unopened, open, seen, links, agg>>
        /\ progress' \in {"root", "done", "failed"} /\ (at' = at \/ at' = at + 1)
      BY <1>2 DEF FileRoot, RootFails, EndRoot, EndRun, inquiry, traversal, totals
  <2>2. at' \in Nat \ {0} /\ ~Scanning' /\ progress' # "visit"
      BY <2>1 DEF InventoryTypes, Scanning
  <2> QED
      BY <2>1, <2>2 DEF InventoryTypes
<1> QED
    BY <1>1, <1>2

LEMMA TypesInFill ==
    ASSUME InventoryTypes, ExhaustBudget \/ SkipMount \/ OpenReader \/ OpenFails \/ BeginVisit \/ EndScan
    PROVE  InventoryTypes'
<1>1. CASE ExhaustBudget
  <2>1. marks' \in [Dirs -> SUBSET Reasons]
      BY <1>1, MarkFacts, ReasonsAre DEF ExhaustBudget
  <2> QED
      BY <1>1, <2>1 DEF ExhaustBudget, InventoryTypes, Scanning, Root, inquiry, traversal
<1>2. CASE SkipMount
    BY <1>2, QueueTypes DEF SkipMount, MayOpen, InventoryTypes, Scanning, Root, inquiry, totals
<1>3. CASE OpenReader
  <2>1. Children(Head(unopened)) \subseteq Entries
      BY DEF Children, Beneath
  <2>2. Head(unopened) \in Dirs /\ Tail(unopened) \in Seq(Dirs) /\ Append(open, Head(unopened)) \in Seq(Dirs)
      BY <1>3, QueueTypes DEF OpenReader, MayOpen, InventoryTypes
  <2>3. ahead' \in [Dirs -> SUBSET Entries]
      BY <1>3, <2>1 DEF OpenReader, InventoryTypes
  <2> QED
      BY <1>3, <2>2, <2>3 DEF OpenReader, MayOpen, InventoryTypes, Scanning, Root, inquiry, totals
<1>4. CASE OpenFails
  <2>1. ScanError(fs.above[Head(unopened)]) /\ unopened' = Tail(unopened) /\ unopened # <<>>
      BY <1>4 DEF OpenFails, MayOpen
  <2>2. complete' = FALSE /\ DOMAIN agg' = DOMAIN agg /\ agg' \in [DOMAIN agg -> Metrics] /\ marks' \in [Dirs -> SUBSET Reasons]
      BY <2>1, ErrorFacts
  <2>3. unopened' \in Seq(Dirs) /\ mishaps' \in Nat /\ mishaps' # 0
      BY <1>4, <2>1, QueueTypes DEF InventoryTypes, OpenFails
  <2> QED
      BY <1>4, <2>2, <2>3 DEF OpenFails, MayOpen, InventoryTypes, Scanning, Root, inquiry
<1>5. CASE BeginVisit
  <2>1. Head(open) \in Dirs /\ Tail(open) \in Seq(Dirs) /\ Len(unopened) + Len(open) \in Nat \ {0}
      BY <1>5, QueueTypes DEF BeginVisit, InventoryTypes
  <2>2. VisitBudget(unspent, Len(unopened) + Len(open)) \in 0 .. unspent
      BY <2>1, ShareIsLess DEF InventoryTypes, VisitBudget
  <2> QED
      BY <1>5, <2>1, <2>2 DEF BeginVisit, InventoryTypes, Scanning, Root, inquiry, totals
<1>6. CASE EndScan
    BY <1>6 DEF EndScan, InventoryTypes, Scanning, Root, inquiry, traversal, totals
<1> QED
    BY <1>1, <1>2, <1>3, <1>4, <1>5, <1>6

LEMMA TypesInYield ==
    ASSUME InventoryTypes, NEW e \in Entries,
           YieldDirectory(e) \/ YieldDuplicate(e) \/ YieldFile(e) \/ YieldError(e)
    PROVE  InventoryTypes'
<1>1. progress = "visit" /\ Scanning /\ visit \in [dir : Dirs, slice : 0 .. unspent, yielded : 0 .. visit.slice]
    BY DEF InventoryTypes, Scanning, YieldDirectory, YieldDuplicate, YieldFile, YieldError, Yields
<1>2. ASSUME visit.yielded < visit.slice, ahead' = [ahead EXCEPT ![visit.dir] = @ \ {e}],
             visit' = [visit EXCEPT !.yielded = @ + 1], UNCHANGED unspent
      PROVE  /\ ahead' \in [Dirs -> SUBSET Entries]
             /\ visit' \in [dir : Dirs, slice : 0 .. unspent', yielded : 0 .. visit'.slice]
  <2>1. visit'.slice = visit.slice /\ visit'.dir = visit.dir /\ visit'.yielded = visit.yielded + 1
      BY <1>1, <1>2
  <2>2. ahead' \in [Dirs -> SUBSET Entries]
      BY <1>1, <1>2 DEF InventoryTypes
  <2>3. visit.yielded + 1 \in 0 .. visit.slice
      BY <1>1, <1>2 DEF InventoryTypes
  <2> QED
      BY <1>1, <1>2, <2>1, <2>2, <2>3
<1>3. CASE YieldDirectory(e)
  <2>1. /\ ahead' \in [Dirs -> SUBSET Entries]
        /\ visit' \in [dir : Dirs, slice : 0 .. unspent', yielded : 0 .. visit'.slice]
      BY <1>2, <1>3 DEF YieldDirectory, Yields
  <2>2. DOMAIN agg' \subseteq Dirs /\ agg' \in [DOMAIN agg' -> Metrics]
      BY <1>3, AddDirectoryFacts DEF YieldDirectory, InventoryTypes
  <2>3. unopened' \in Seq(Dirs)
      BY <1>3, QueueTypes DEF YieldDirectory, InventoryTypes
  <2> QED
      BY <1>1, <1>3, <2>1, <2>2, <2>3 DEF YieldDirectory, Yields, InventoryTypes, Scanning, Root, inquiry
<1>4. CASE YieldDuplicate(e)
  <2>1. /\ ahead' \in [Dirs -> SUBSET Entries]
        /\ visit' \in [dir : Dirs, slice : 0 .. unspent', yielded : 0 .. visit'.slice]
      BY <1>2, <1>4 DEF YieldDuplicate, Yields
  <2>2. DOMAIN agg' = DOMAIN agg /\ agg' \in [DOMAIN agg -> Metrics]
      BY <1>4, RecordFacts DEF YieldDuplicate, InventoryTypes
  <2>3. DOMAIN links' = DOMAIN links /\ links' \in [DOMAIN links -> Links]
    <3>1. \A i \in DOMAIN links : links[i] \in Links
        BY DEF InventoryTypes
    <3>2. \A i \in DOMAIN links :
              Link(links[i].expected, links[i].observed + 1, links[i].common \cap fs.above[e]) \in Links
        BY <3>1 DEF Link, Links
    <3> QED
        BY <1>4, <3>1, <3>2 DEF YieldDuplicate
  <2> QED
      BY <1>1, <1>4, <2>1, <2>2, <2>3 DEF YieldDuplicate, Yields, InventoryTypes, Scanning, Root, inquiry
<1>5. CASE YieldFile(e)
  <2> DEFINE i == fs.inode[e]
  <2>1. /\ ahead' \in [Dirs -> SUBSET Entries]
        /\ visit' \in [dir : Dirs, slice : 0 .. unspent', yielded : 0 .. visit'.slice]
      BY <1>2, <1>5 DEF YieldFile, Yields
  <2>2. Tree /\ e \in Files /\ i \in Inodes /\ fs.above[e] \in SUBSET Dirs
      BY <1>5, TreeHolds DEF YieldFile, Tree, Entries
  <2>3. DOMAIN agg' = DOMAIN agg /\ agg' \in [DOMAIN agg -> Metrics]
    <3>1. agg \in [DOMAIN agg -> Metrics]
        BY DEF InventoryTypes
    <3>2. PICK own : own \subseteq {i} /\ (agg' = agg \/ agg' = AddFile(agg, fs.above[e], i, own))
        BY <1>5 DEF YieldFile
    <3> HIDE DEF i
    <3> QED
        BY <2>2, <3>1, <3>2, AddFileTypes
  <2>4. DOMAIN links' \subseteq Inodes /\ links' \in [DOMAIN links' -> Links]
    <3>1. LinksOf(i) \in Nat
      <4>1. fs.outside[i] \in Nat
          BY <2>2 DEF Tree
      <4>2. Cardinality({f \in Files \ gone : fs.inode[f] = i}) \in Nat
        <5>1. IsFiniteSet({f \in Files \ gone : fs.inode[f] = i})
            BY KindsAssumption, FS_Subset
        <5> QED
            BY <5>1, FS_CardinalityType
      <4> QED
          BY <4>1, <4>2 DEF LinksOf
    <3>2. Link(LinksOf(i), 1, fs.above[e]) \in Links
        BY <2>2, <3>1 DEF Link, Links
    <3>3. CASE links' = links
        BY <3>3 DEF InventoryTypes
    <3>4. CASE links' = [j \in DOMAIN links \cup {i} |->
                               IF j = i THEN Link(LinksOf(i), 1, fs.above[e]) ELSE links[j]]
      <4> HIDE DEF i
      <4> QED
        BY <2>2, <3>2, <3>4 DEF InventoryTypes
    <3> QED
        BY <1>5, <3>3, <3>4 DEF YieldFile
  <2>5. seen' \subseteq Inodes
      BY <1>5, <2>2 DEF YieldFile, InventoryTypes
  <2> QED
      BY <1>1, <1>5, <2>1, <2>3, <2>4, <2>5 DEF YieldFile, Yields, InventoryTypes, Scanning, Root, inquiry
<1>6. CASE YieldError(e)
  <2>1. /\ ahead' \in [Dirs -> SUBSET Entries]
        /\ visit' \in [dir : Dirs, slice : 0 .. unspent', yielded : 0 .. visit'.slice]
      BY <1>2, <1>6 DEF YieldError
  <2>2. complete' = FALSE /\ DOMAIN agg' = DOMAIN agg /\ agg' \in [DOMAIN agg -> Metrics] /\ marks' \in [Dirs -> SUBSET Reasons]
      BY <1>6, ErrorFacts DEF YieldError
  <2>3. mishaps' \in Nat /\ (mishaps' = 0 => mishaps = 0)
      BY <1>6 DEF YieldError, InventoryTypes
  <2> QED
      BY <1>1, <1>6, <2>1, <2>2, <2>3 DEF YieldError, InventoryTypes, Scanning, Root, inquiry
<1> QED
    BY <1>3, <1>4, <1>5, <1>6

LEMMA TypesAfterVisit == ASSUME InventoryTypes, EndVisit \/ VisitFails PROVE InventoryTypes'
<1>1. progress = "visit" /\ Scanning /\ visit \in [dir : Dirs, slice : 0 .. unspent, yielded : 0 .. visit.slice]
    BY DEF InventoryTypes, Scanning, EndVisit, VisitFails
<1>2. CASE EndVisit
  <2>1. unspent' \in Nat /\ open' \in Seq(Dirs)
      BY <1>1, <1>2, QueueTypes DEF EndVisit, Charge, InventoryTypes
  <2> QED
      BY <1>1, <1>2, <2>1 DEF EndVisit, Charge, InventoryTypes, Scanning, Root, inquiry, totals
<1>3. CASE VisitFails
  <2>1. unspent' \in Nat
      BY <1>1, <1>3 DEF VisitFails, Charge, InventoryTypes
  <2>2. complete' = FALSE /\ DOMAIN agg' = DOMAIN agg /\ agg' \in [DOMAIN agg -> Metrics] /\ marks' \in [Dirs -> SUBSET Reasons]
      BY <1>3, ErrorFacts DEF VisitFails
  <2>3. mishaps' \in Nat /\ mishaps' # 0
      BY <1>3 DEF VisitFails, InventoryTypes
  <2> QED
      BY <1>1, <1>3, <2>1, <2>2, <2>3 DEF VisitFails, Charge, InventoryTypes, Scanning, Root, inquiry
<1> QED
    BY <1>2, <1>3

LEMMA TypesAtLinks ==
    ASSUME InventoryTypes, NEW i \in Inodes, ResolveLink(i)
    PROVE  InventoryTypes'
<1>1. marks' \in [Dirs -> SUBSET Reasons]
    BY MarkFacts, ReasonsAre DEF ResolveLink, InventoryTypes
<1>2. DOMAIN agg' = DOMAIN agg /\ agg' \in [DOMAIN agg -> Metrics]
  <2>1. PICK own : own \subseteq {i} /\ agg' = AddFile(agg, links[i].common, i, own)
      BY DEF ResolveLink
  <2>2. agg \in [DOMAIN agg -> Metrics]
      BY DEF InventoryTypes
  <2> QED
      BY <2>1, <2>2, AddFileTypes
<1>3. DOMAIN links' \subseteq Inodes /\ links' \in [DOMAIN links' -> Links]
    BY DEF ResolveLink, InventoryTypes
<1> QED
    BY <1>1, <1>2, <1>3 DEF ResolveLink, InventoryTypes, Scanning, Root, inquiry, traversal

LEMMA TypesAtUnlink ==
    ASSUME InventoryTypes, NEW f \in Files, Unlink(f)
    PROVE  InventoryTypes'
BY DEF Unlink, InventoryTypes, Scanning, Root, inquiry, traversal, totals

LEMMA TypesStep == ASSUME InventoryTypes, left \in Nat, [InventoryNext]_inventoryVars PROVE InventoryTypes'
<1>1. CASE Scan
    BY <1>1, TypesAtRoots, TypesInFill, TypesInYield, TypesAfterVisit, TypesAtLinks DEF Scan
<1>2. CASE \E f \in Files : Unlink(f)
    BY <1>2, TypesAtUnlink
<1>3. CASE UNCHANGED inventoryVars
    BY <1>3 DEF inventoryVars, InventoryTypes, Scanning, Root, inquiry, traversal, totals
<1> QED
    BY <1>1, <1>2, <1>3 DEF InventoryNext

-----------------------------------------------------------------------------
(* What each step does to the queues and to what is to come. *)

LEMMA StillToCome ==
    ASSUME InventoryTypes, QueuesInv, Scanning,
           ExhaustBudget \/ EndScan \/ (\E i \in Inodes : ResolveLink(i)) \/ (\E f \in Files : Unlink(f))
    PROVE  QueuesInv' /\ Slots' = Slots /\ Opened' = Opened
<1>1. /\ UNCHANGED <<unopened, open, ahead, visit>>
      /\ progress' = "visit" <=> progress = "visit"
    BY DEF ExhaustBudget, EndScan, ResolveLink, Unlink, traversal
<1>2. Opened' = Opened
    BY <1>1 DEF Opened
<1>3. Slots' = Slots
    BY <1>1, <1>2 DEF Slots
<1>4. QueuesInv'
    BY <1>1, <1>2 DEF QueuesInv, Scanning
<1> QED
    BY <1>2, <1>3, <1>4

LEMMA BeginVisitMoves ==
    ASSUME InventoryTypes, QueuesInv, BeginVisit
    PROVE  QueuesInv' /\ Slots' = Slots /\ Opened' = Opened
<1>1. /\ progress = "fill" /\ progress' = "visit" /\ open # <<>> /\ open' = Tail(open) /\ visit'.dir = Head(open)
      /\ UNCHANGED <<unopened, ahead>>
    BY DEF BeginVisit
<1>2. Distinct(unopened) /\ Distinct(open) /\ ToSet(unopened) \cap Opened = {} /\ open \in Seq(Dirs)
    BY <1>1 DEF QueuesInv, Scanning, InventoryTypes
<1>3. Distinct(open') /\ Head(open) \in ToSet(open) /\ ToSet(open') = ToSet(open) \ {Head(open)} /\ ToSet(open) \subseteq Dirs
    BY <1>1, <1>2, HeadFacts
<1>4. Opened' = Opened
    BY <1>1, <1>3 DEF Opened
<1>5. Slots' = Slots
    BY <1>1, <1>4 DEF Slots
<1>6. Distinct(unopened') /\ ToSet(unopened') \cap Opened' = {} /\ visit'.dir \notin ToSet(open')
    BY <1>1, <1>2, <1>3, <1>4
<1> QED
    BY <1>3, <1>4, <1>5, <1>6 DEF QueuesInv

\* The head of the queue is to come, of itself.
LEMMA HeadToCome ==
    ASSUME InventoryTypes, QueuesInv, MayOpen
    PROVE  /\ Head(unopened) \in Dirs /\ Head(unopened) \in Entries /\ Head(unopened) \notin Opened
           /\ <<Head(unopened), Head(unopened)>> \in Slots
           /\ Distinct(Tail(unopened)) /\ ToSet(Tail(unopened)) = ToSet(unopened) \ {Head(unopened)}
           /\ progress = "fill" /\ Scanning
           /\ Distinct(open) /\ ToSet(unopened) \cap Opened = {} /\ Opened = ToSet(open)
<1>1. progress = "fill" /\ Scanning /\ unopened \in Seq(Dirs) /\ unopened # <<>> /\ Distinct(unopened)
    BY DEF MayOpen, Scanning, InventoryTypes, QueuesInv
<1>2. /\ Head(unopened) \in ToSet(unopened) /\ ToSet(unopened) \subseteq Dirs
      /\ Distinct(Tail(unopened)) /\ ToSet(Tail(unopened)) = ToSet(unopened) \ {Head(unopened)}
    BY <1>1, HeadFacts
<1>3. Distinct(open) /\ ToSet(unopened) \cap Opened = {} /\ Opened = ToSet(open)
    BY <1>1 DEF QueuesInv, Opened
<1>4. <<Head(unopened), Head(unopened)>> \in Slots
    BY <1>2 DEF Slots, Entries
<1> QED
    BY <1>1, <1>2, <1>3, <1>4 DEF Entries

LEMMA HeadMoves ==
    ASSUME InventoryTypes, QueuesInv, SkipMount \/ OpenFails
    PROVE  /\ QueuesInv' /\ Opened' = Opened
           /\ Slots' = Slots \ {<<Head(unopened), Head(unopened)>>}
<1> DEFINE h == Head(unopened)
<1>1. MayOpen /\ unopened' = Tail(unopened) /\ UNCHANGED <<progress, open, ahead, visit>>
    BY DEF SkipMount, OpenFails
<1>2. /\ h \in Dirs /\ h \notin Opened /\ Distinct(unopened') /\ ToSet(unopened') = ToSet(unopened) \ {h}
      /\ progress = "fill" /\ Distinct(open) /\ ToSet(unopened) \cap Opened = {}
    BY <1>1, HeadToCome
<1>3. Opened' = Opened
    BY <1>1 DEF Opened
<1> HIDE DEF h
<1>4. Slots' = Slots \ {<<h, h>>}
    BY <1>1, <1>2, <1>3 DEF Slots
<1>5. QueuesInv'
    BY <1>1, <1>2, <1>3 DEF QueuesInv
<1> QED
    BY <1>3, <1>4, <1>5 DEF h

LEMMA OpenReaderMoves ==
    ASSUME InventoryTypes, QueuesInv, OpenReader
    PROVE  /\ QueuesInv' /\ Opened' = Opened \cup {Head(unopened)}
           /\ Slots' = (Slots \ {<<Head(unopened), Head(unopened)>>}) \cup ({Head(unopened)} \X Children(Head(unopened)))
<1> DEFINE h == Head(unopened)
<1>1. /\ MayOpen /\ unopened' = Tail(unopened) /\ open' = Append(open, h) /\ UNCHANGED <<progress, visit>>
      /\ ahead' = [ahead EXCEPT ![h] = Children(h)]
    BY DEF OpenReader
<1>2. /\ h \in Dirs /\ h \notin Opened /\ Distinct(unopened') /\ ToSet(unopened') = ToSet(unopened) \ {h}
      /\ progress = "fill" /\ Distinct(open) /\ ToSet(unopened) \cap Opened = {} /\ Opened = ToSet(open)
    BY <1>1, HeadToCome
<1>3. Distinct(open') /\ ToSet(open') = ToSet(open) \cup {h}
    BY <1>1, <1>2, AppendFacts DEF InventoryTypes
<1>4. Opened' = Opened \cup {h}
    BY <1>1, <1>2, <1>3 DEF Opened
<1>5. Children(h) \subseteq Entries
    BY DEF Children, Beneath
<1>6. ahead'[h] = Children(h) /\ \A d \in Dirs \ {h} : ahead'[d] = ahead[d]
    BY <1>1, <1>2 DEF InventoryTypes
<1> HIDE DEF h
<1>7. Slots' = (Slots \ {<<h, h>>}) \cup ({h} \X Children(h))
  <2>1. ASSUME NEW s \in Slots' PROVE s \in (Slots \ {<<h, h>>}) \cup ({h} \X Children(h))
      BY <1>2, <1>4, <1>6, <2>1 DEF Slots
  <2>2. ASSUME NEW s \in Slots, s # <<h, h>> PROVE s \in Slots'
    <3>1. s \in Dirs \X Entries /\ s[1] \in Dirs
        BY DEF Slots
    <3>2. CASE s[1] \in ToSet(unopened) /\ s[2] = s[1]
        BY <1>2, <2>2, <3>1, <3>2 DEF Slots
    <3>3. CASE s[1] \in Opened /\ s[2] \in ahead[s[1]]
        BY <1>2, <1>4, <1>6, <3>1, <3>3 DEF Slots
    <3> QED
        BY <3>2, <3>3 DEF Slots
  <2>3. ASSUME NEW s \in {h} \X Children(h) PROVE s \in Slots'
      BY <1>2, <1>4, <1>5, <1>6, <2>3 DEF Slots
  <2> QED
      BY <2>1, <2>2, <2>3
<1>8. QueuesInv'
    BY <1>1, <1>2, <1>3, <1>4 DEF QueuesInv
<1> QED
    BY <1>4, <1>7, <1>8 DEF h

\* What a reader yields is to come no more.
LEMMA YieldMoves ==
    ASSUME InventoryTypes, QueuesInv, progress = "visit", NEW e \in ahead[visit.dir],
           ahead' = [ahead EXCEPT ![visit.dir] = @ \ {e}], visit' = [visit EXCEPT !.yielded = @ + 1],
           UNCHANGED <<progress, unopened, open>>
    PROVE  /\ QueuesInv' /\ Opened' = Opened /\ <<visit.dir, e>> \in Slots
           /\ Slots' = Slots \ {<<visit.dir, e>>}
           /\ visit.dir \in Dirs /\ visit.dir \in Opened /\ e \in Entries
<1> DEFINE v == visit.dir
<1>1. v \in Dirs /\ visit'.dir = v /\ e \in Entries
    BY DEF InventoryTypes
<1>2. v \in Opened /\ Opened' = Opened
    BY <1>1 DEF Opened
<1>3. ahead'[v] = ahead[v] \ {e} /\ \A d \in Dirs \ {v} : ahead'[d] = ahead[d]
    BY <1>1 DEF InventoryTypes
<1>4. QueuesInv'
    BY <1>1, <1>2 DEF QueuesInv, Scanning
<1>5. ToSet(unopened) \cap Opened = {}
    BY DEF QueuesInv, Scanning
<1> HIDE DEF v
<1>6. Slots' = Slots \ {<<v, e>>}
  <2>1. ASSUME NEW s \in Slots' PROVE s \in Slots \ {<<v, e>>}
      BY <1>1, <1>2, <1>3, <1>5, <2>1 DEF Slots
  <2>2. ASSUME NEW s \in Slots, s # <<v, e>> PROVE s \in Slots'
    <3>1. s \in Dirs \X Entries /\ s[1] \in Dirs
        BY DEF Slots
    <3>2. CASE s[1] \in ToSet(unopened) /\ s[2] = s[1]
        BY <3>1, <3>2 DEF Slots
    <3>3. CASE s[1] \in Opened /\ s[2] \in ahead[s[1]]
      <4>1. s[1] # v \/ s[2] # e
          BY <2>2, <3>1
      <4> QED
          BY <1>2, <1>3, <3>1, <3>3, <4>1 DEF Slots
    <3> QED
        BY <3>2, <3>3 DEF Slots
  <2> QED
      BY <2>1, <2>2
<1>7. <<v, e>> \in Slots
    BY <1>1, <1>2 DEF Slots, v
<1> QED
    BY <1>1, <1>2, <1>4, <1>6, <1>7 DEF v

\* When a visit ends, only what its reader would still have yielded is dropped.
LEMMA EndVisitMoves ==
    ASSUME InventoryTypes, QueuesInv, EndVisit \/ VisitFails
    PROVE  /\ QueuesInv' /\ Opened' \subseteq Opened /\ Slots' \subseteq Slots
           /\ \A s \in Slots \ Slots' : s[1] = visit.dir /\ s[1] \in Dirs /\ (EndVisit => s[2] \in gone)
<1> DEFINE v == visit.dir
<1>1. /\ progress = "visit" /\ progress' = "fill" /\ UNCHANGED <<unopened, ahead>> /\ v \in Dirs
      /\ open' = open \/ open' = Append(open, v)
      /\ EndVisit => open' = IF ahead[v] \ gone = {} THEN open ELSE Append(open, v)
    BY DEF EndVisit, VisitFails, Charge, InventoryTypes
<1>2. /\ Distinct(unopened) /\ Distinct(open) /\ ToSet(unopened) \cap Opened = {} /\ v \notin ToSet(open)
      /\ Opened = ToSet(open) \cup {v}
    BY <1>1 DEF QueuesInv, Scanning, Opened
<1>3. Distinct(Append(open, v)) /\ ToSet(Append(open, v)) = ToSet(open) \cup {v}
    BY <1>1, <1>2, AppendFacts DEF InventoryTypes
<1>4. /\ Distinct(open') /\ Opened' = ToSet(open') /\ Opened' \subseteq Opened /\ ToSet(open) \subseteq Opened'
      /\ EndVisit /\ ahead[v] \ gone # {} => v \in Opened'
    BY <1>1, <1>2, <1>3 DEF Opened
<1> HIDE DEF v
<1>5. Slots' \subseteq Slots
    BY <1>1, <1>4 DEF Slots
<1>6. ASSUME NEW s \in Slots \ Slots' PROVE s[1] = v /\ s[1] \in Dirs /\ (EndVisit => s[2] \in gone)
  <2>1. s \in Dirs \X Entries /\ s[1] \in Dirs /\ s[1] \in Opened /\ s[2] \in ahead[s[1]] /\ s[1] \notin Opened'
      BY <1>1, <1>6 DEF Slots
  <2> QED
      BY <1>2, <1>4, <2>1
<1>7. QueuesInv'
    BY <1>1, <1>2, <1>4 DEF QueuesInv
<1> QED
    BY <1>4, <1>5, <1>6, <1>7 DEF v

-----------------------------------------------------------------------------
(* What is to come lies apart, and nothing beneath it was dealt with. *)

LEMMA SameTree == ASSUME UNCHANGED fs PROVE \A e \in Entries : Under(e)' = Under(e)
BY DEF Under

LEMMA FrontierShrinks ==
    ASSUME FrontierInv, Scanning, UNCHANGED <<fs, roots, at>>,
           DOMAIN agg' = DOMAIN agg, Slots' \subseteq Slots, Opened' \subseteq Opened
    PROVE  FrontierInv'
<1>1. Root' = Root /\ \A e \in Entries : Under(e)' = Under(e)
    BY SameTree DEF Root
<1>2. \A s \in Slots : s[2] \in Entries
    BY DEF Slots
<1>3. /\ Root \in DOMAIN agg /\ \A k \in DOMAIN agg : Root \in fs.above[k]
      /\ \A s \in Slots :
              /\ Root \in fs.above[s[1]] /\ Crossed(Root, fs.above[s[2]] \ {s[2]}) = {}
              /\ s[2] # s[1] => fs.above[s[2]] \ {s[2]} = fs.above[s[1]]
              /\ DOMAIN agg \cap Under(s[2]) \subseteq {s[1]} /\ Opened \cap Under(s[2]) = {}
      /\ \A s, t \in Slots : Under(s[2]) \cap Under(t[2]) # {} => s = t
    BY DEF FrontierInv
<1>4. Root' \in DOMAIN agg' /\ \A k \in DOMAIN agg' : Root' \in fs'.above[k]
    BY <1>1, <1>3
<1>5. ASSUME NEW s \in Slots'
      PROVE  /\ Root' \in fs'.above[s[1]] /\ Crossed(Root, fs.above[s[2]] \ {s[2]})' = {}
             /\ s[2] # s[1] => fs'.above[s[2]] \ {s[2]} = fs'.above[s[1]]
             /\ DOMAIN agg' \cap Under(s[2])' \subseteq {s[1]} /\ Opened' \cap Under(s[2])' = {}
  <2>1. s \in Slots /\ s[2] \in Entries
      BY <1>2
  <2>2. Under(s[2])' = Under(s[2])
      BY <1>1, <2>1
  <2>3. Crossed(Root, fs.above[s[2]] \ {s[2]})' = Crossed(Root, fs.above[s[2]] \ {s[2]})
      BY <1>1 DEF Crossed
  <2> QED
      BY <1>1, <1>3, <2>1, <2>2, <2>3
<1>6. ASSUME NEW s \in Slots', NEW t \in Slots', Under(s[2])' \cap Under(t[2])' # {} PROVE s = t
    BY <1>1, <1>2, <1>3, <1>6
<1> QED
    BY <1>4, <1>5, <1>6 DEF FrontierInv

LEMMA ChildFacts ==
    ASSUME Tree, NEW h \in Dirs, NEW c \in Children(h)
    PROVE  /\ c \in Entries /\ c # h /\ h \in fs.above[c] /\ fs.above[c] \ {c} = fs.above[h]
           /\ Under(c) \subseteq Under(h) /\ h \notin Under(c)
<1>1. c \in Entries /\ c # h /\ h \in fs.above[c] /\ \A x \in Beneath(h) : c # x => x \notin fs.above[c]
    BY DEF Children, Beneath
<1>2. fs.above[h] \subseteq fs.above[c] /\ h \in Entries /\ h \in fs.above[h]
    BY <1>1 DEF Tree, Entries
<1>3. c \notin fs.above[h]
  <2>1. c \in fs.above[h] => c \in Dirs
      BY <1>2 DEF Tree
  <2> QED
      BY <1>1, <2>1 DEF Tree
<1>4. ASSUME NEW x \in fs.above[c], x # c PROVE x \in fs.above[h]
  <2>1. x \in Dirs /\ x \in Entries /\ (x \in fs.above[h] \/ h \in fs.above[x])
      BY <1>1 DEF Tree, Entries
  <2>2. x \notin Beneath(h)
      BY <1>1, <1>4
  <2> QED
      BY <1>2, <2>1, <2>2 DEF Beneath
<1>5. Under(c) \subseteq Under(h)
  <2>1. c \in Under(h)
      BY <1>1 DEF Under
  <2> QED
      BY <1>2, <2>1, UnderFacts
<1>6. h \notin Under(c)
    BY <1>1, <1>3 DEF Under
<1> QED
    BY <1>1, <1>2, <1>3, <1>4, <1>5, <1>6

LEMMA ChildrenApart ==
    ASSUME Tree, NEW h \in Dirs, NEW b \in Children(h), NEW c \in Children(h), Under(b) \cap Under(c) # {}
    PROVE  b = c
<1>1. b \in Beneath(h) /\ c \in Beneath(h) /\ (b # c => b \notin fs.above[c] /\ c \notin fs.above[b])
    BY DEF Children
<1>2. PICK x \in Entries : (x = b \/ b \in fs.above[x]) /\ (x = c \/ c \in fs.above[x])
    BY DEF Under
<1>3. b \in fs.above[x] /\ c \in fs.above[x] => b \in fs.above[c] \/ c \in fs.above[b]
    BY DEF Tree
<1> QED
    BY <1>1, <1>2, <1>3

\* Whatever is in a directory is one of its children, or beneath one. It is the child
\* with the shortest way to it.
LEMMA ChildrenCover ==
    ASSUME Tree, gone \subseteq Files, NEW h \in Dirs, NEW x \in Under(h), x # h, x \notin gone
    PROVE  \E c \in Children(h) : x \in Under(c)
<1> DEFINE Path(e) == fs.above[e] \cup {e}
           B == {c \in Beneath(h) : x \in Under(c)}
           S == {Cardinality(Path(c)) : c \in B}
<1>1. x \in Entries /\ h \in fs.above[x]
    BY DEF Under
<1>2. x \in B
    BY <1>1 DEF Beneath, Under
<1>3. \A c \in Entries : IsFiniteSet(Path(c)) /\ Cardinality(Path(c)) \in Nat
  <2> TAKE c \in Entries
  <2>1. fs.above[c] \subseteq Dirs
      BY DEF Tree
  <2>2. IsFiniteSet(fs.above[c])
      BY <2>1, KindsAssumption, FS_Subset
  <2>3. IsFiniteSet(Path(c))
      BY <2>2, FS_AddElement
  <2> QED
      BY <2>3, FS_CardinalityType
<1>4. B \subseteq Entries
    BY DEF Beneath
<1>5. S \subseteq Nat /\ S # {}
    BY <1>2, <1>3, <1>4
<1>6. PICK m \in S : \A n \in S : m <= n
    BY <1>5, LeastExists
<1>7. PICK c \in B : m = Cardinality(Path(c))
    BY <1>6
<1>8. c \in Beneath(h) /\ c \in Entries /\ h \in fs.above[c] /\ c # h /\ x \in Under(c)
    BY <1>7 DEF Beneath
<1>9. c \notin gone
  <2>1. c \in Files => Under(c) = {c}
      BY <1>8, UnderFacts
  <2> QED
      BY <1>8, <2>1
<1>10. ASSUME NEW b \in Beneath(h), c # b, b \in fs.above[c] PROVE FALSE
  <2>1. b \in Dirs /\ b \in Entries /\ b \in fs.above[b] /\ fs.above[b] \subseteq fs.above[c] /\ Path(b) = fs.above[b]
      BY <1>8, <1>10 DEF Tree, Entries
  <2>2. c \notin fs.above[b]
    <3>1. c \in fs.above[b] => c \in Dirs
        BY <2>1 DEF Tree
    <3> QED
        BY <1>10, <2>1, <3>1 DEF Tree
  <2>3. Path(b) \subseteq Path(c) /\ Path(b) # Path(c)
      BY <2>1, <2>2
  <2>4. Cardinality(Path(b)) < Cardinality(Path(c))
    <3> HIDE DEF Path
    <3> QED
      BY <1>3, <1>8, <2>1, <2>3, FS_Subset
  <2>5. b \in B
    <3>1. c \in Under(b)
        BY <1>8, <1>10 DEF Under
    <3>2. x \in Under(b)
        BY <1>8, <2>1, <3>1, UnderFacts
    <3> QED
        BY <1>10, <3>2
  <2>6. Cardinality(Path(b)) \in S
      BY <2>5
  <2> QED
    <3> HIDE DEF S, Path
    <3> QED
      BY <1>3, <1>6, <1>7, <1>8, <2>1, <2>4, <2>6
<1>11. c \in Children(h)
    BY <1>8, <1>9, <1>10 DEF Children
<1> QED
    BY <1>8, <1>11

LEMMA FrontierOpens ==
    ASSUME InventoryTypes, QueuesInv, FrontierInv, OpenReader
    PROVE  FrontierInv'
<1>1. PICK h : h = Head(unopened)
    OBVIOUS
<1>2. /\ MayOpen /\ ~Foreign(h) /\ UNCHANGED <<fs, roots, at, agg, progress>>
      /\ Opened' = Opened \cup {h} /\ Slots' = (Slots \ {<<h, h>>}) \cup ({h} \X Children(h))
    BY <1>1, OpenReaderMoves DEF OpenReader, inquiry, totals
<1>3. h \in Dirs /\ h \notin Opened /\ <<h, h>> \in Slots /\ Scanning
    BY <1>1, <1>2, HeadToCome
<1>4. Root' = Root /\ \A e \in Entries : Under(e)' = Under(e)
    BY <1>2, SameTree DEF Root
<1>5. /\ Root \in DOMAIN agg /\ \A k \in DOMAIN agg : Root \in fs.above[k]
      /\ \A s \in Slots :
              /\ Root \in fs.above[s[1]] /\ Crossed(Root, fs.above[s[2]] \ {s[2]}) = {}
              /\ s[2] # s[1] => fs.above[s[2]] \ {s[2]} = fs.above[s[1]]
              /\ DOMAIN agg \cap Under(s[2]) \subseteq {s[1]} /\ Opened \cap Under(s[2]) = {}
      /\ \A s, t \in Slots : Under(s[2]) \cap Under(t[2]) # {} => s = t
    BY <1>3 DEF FrontierInv
<1>6. Root' \in DOMAIN agg' /\ \A k \in DOMAIN agg' : Root' \in fs'.above[k]
    BY <1>2, <1>4, <1>5
<1>7. Root \in fs.above[h] /\ DOMAIN agg \cap Under(h) \subseteq {h} /\ Opened \cap Under(h) = {}
  <2>1. <<h, h>>[1] = h /\ <<h, h>>[2] = h
      OBVIOUS
  <2> QED
      BY <1>3, <1>5, <2>1
<1>8. Tree /\ Crossed(Root, fs.above[h]) = {}
    BY <1>2, TreeHolds DEF Foreign
<1>9. ASSUME NEW s \in Slots'
      PROVE  \/ s \in Slots /\ s # <<h, h>> /\ s[2] \in Entries
             \/ s[1] = h /\ s[2] \in Children(h) /\ s = <<h, s[2]>>
  <2>1. s \in Slots \ {<<h, h>>} \/ s \in {h} \X Children(h)
      BY <1>2
  <2> QED
      BY <2>1 DEF Slots
<1>10. ASSUME NEW c \in Children(h)
       PROVE  /\ c \in Entries /\ Under(c) \subseteq Under(h) /\ h \notin Under(c) /\ fs.above[c] \ {c} = fs.above[h] /\ c # h
    BY <1>3, <1>8, ChildFacts
<1>11. h \in Under(h) /\ h \in Entries
    BY <1>3, <1>8, UnderFacts DEF Entries
<1>12. ASSUME NEW s \in Slots, s # <<h, h>> PROVE Under(s[2]) \cap Under(h) = {} /\ h \notin Under(s[2])
  <2>1. <<h, h>>[2] = h
      OBVIOUS
  <2> QED
      BY <1>3, <1>5, <1>11, <1>12, <2>1
<1>13. ASSUME NEW s \in Slots'
      PROVE  /\ Root' \in fs'.above[s[1]] /\ Crossed(Root, fs.above[s[2]] \ {s[2]})' = {}
             /\ s[2] # s[1] => fs'.above[s[2]] \ {s[2]} = fs'.above[s[1]]
             /\ DOMAIN agg' \cap Under(s[2])' \subseteq {s[1]} /\ Opened' \cap Under(s[2])' = {}
  <2>1. CASE s \in Slots /\ s # <<h, h>> /\ s[2] \in Entries
    <3>1. Under(s[2])' = Under(s[2]) /\ h \notin Under(s[2])
        BY <1>4, <1>12, <2>1
    <3>2. Crossed(Root, fs.above[s[2]] \ {s[2]})' = Crossed(Root, fs.above[s[2]] \ {s[2]})
        BY <1>2, <1>4 DEF Crossed
    <3> QED
        BY <1>2, <1>4, <1>5, <2>1, <3>1, <3>2
  <2>2. CASE s[1] = h /\ s[2] \in Children(h)
    <3>1. PICK c \in Children(h) : c = s[2]
        BY <2>2
    <3>2. /\ c \in Entries /\ Under(c) \subseteq Under(h) /\ h \notin Under(c) /\ fs.above[c] \ {c} = fs.above[h] /\ c # h
          /\ Under(c)' = Under(c)
        BY <1>4, <1>10
    <3>3. Crossed(Root, fs.above[c] \ {c})' = Crossed(Root, fs.above[h])
        BY <1>2, <1>4, <3>2 DEF Crossed
    <3>4. DOMAIN agg' \cap Under(c)' \subseteq {h} /\ Opened' \cap Under(c)' = {}
        BY <1>2, <1>7, <3>2
    <3>5. Root' \in fs'.above[h] /\ fs'.above[c] \ {c} = fs'.above[h]
        BY <1>2, <1>4, <1>7, <3>2
    <3> QED
        BY <1>8, <2>2, <3>1, <3>3, <3>4, <3>5
  <2> QED
      BY <1>9, <2>1, <2>2
<1>14. ASSUME NEW s \in Slots', NEW t \in Slots', Under(s[2])' \cap Under(t[2])' # {} PROVE s = t
  <2>1. s[2] \in Entries /\ t[2] \in Entries /\ Under(s[2]) \cap Under(t[2]) # {}
    <3>1. s[2] \in Entries /\ t[2] \in Entries
        BY <1>9, <1>10
    <3> QED
        BY <1>4, <1>14, <3>1
  <2>2. CASE s \in Slots /\ s # <<h, h>> /\ t \in Slots /\ t # <<h, h>>
      BY <1>5, <2>1, <2>2
  <2>3. CASE s[2] \in Children(h) /\ s = <<h, s[2]>> /\ t[2] \in Children(h) /\ t = <<h, t[2]>>
      BY <1>3, <1>8, <2>1, <2>3, ChildrenApart
  <2>4. CASE s \in Slots /\ s # <<h, h>> /\ t[2] \in Children(h)
      BY <1>10, <1>12, <2>1, <2>4
  <2>5. CASE t \in Slots /\ t # <<h, h>> /\ s[2] \in Children(h)
      BY <1>10, <1>12, <2>1, <2>5
  <2> QED
      BY <1>9, <2>2, <2>3, <2>4, <2>5
<1> QED
    BY <1>6, <1>13, <1>14 DEF FrontierInv

\* A directory that is yielded waits for a reader where it was to come from another's.
LEMMA YieldDirectoryMoves ==
    ASSUME InventoryTypes, QueuesInv, FrontierInv, NEW d \in Dirs, YieldDirectory(d)
    PROVE  /\ QueuesInv' /\ Opened' = Opened /\ <<visit.dir, d>> \in Slots
           /\ Slots' = (Slots \ {<<visit.dir, d>>}) \cup {<<d, d>>}
           /\ visit.dir \in Dirs /\ visit.dir \notin Under(d) /\ visit.dir # d
<1>1. PICK v : v = visit.dir
    OBVIOUS
<1>2. /\ progress = "visit" /\ Scanning /\ UNCHANGED <<progress, open>> /\ unopened' = Append(unopened, d)
      /\ d \in ahead[v] /\ ahead' = [ahead EXCEPT ![v] = @ \ {d}] /\ visit'.dir = v /\ v \in Dirs
      /\ Opened = ToSet(open) \cup {v} /\ Opened' = Opened
    BY <1>1 DEF YieldDirectory, Yields, Scanning, InventoryTypes, Opened
<1>3. Distinct(unopened) /\ Distinct(open) /\ ToSet(unopened) \cap Opened = {} /\ v \notin ToSet(open)
    BY <1>1, <1>2 DEF QueuesInv
<1>4. /\ \A s \in Slots : Opened \cap Under(s[2]) = {}
      /\ \A s, t \in Slots : Under(s[2]) \cap Under(t[2]) # {} => s = t
    BY <1>2 DEF FrontierInv
<1>5. <<v, d>> \in Slots /\ <<v, d>>[2] = d /\ d \in Entries /\ d \in Under(d)
    BY <1>2, TreeHolds, UnderFacts DEF Slots, Entries
<1>6. v \notin Under(d) /\ d # v /\ d \notin Opened
    BY <1>2, <1>4, <1>5
<1>7. d \notin ToSet(unopened)
  <2> SUFFICES ASSUME d \in ToSet(unopened) PROVE FALSE
      OBVIOUS
  <2>1. <<d, d>> \in Slots /\ <<d, d>>[2] = d
      BY <1>5 DEF Slots
  <2>2. <<d, d>> = <<v, d>>
      BY <1>4, <1>5, <2>1
  <2> QED
      BY <1>6, <2>2
<1>8. Distinct(unopened') /\ ToSet(unopened') = ToSet(unopened) \cup {d}
    BY <1>2, <1>3, <1>7, AppendFacts DEF InventoryTypes
<1>9. QueuesInv'
    BY <1>2, <1>3, <1>6, <1>8 DEF QueuesInv
<1>10. ahead'[v] = ahead[v] \ {d} /\ \A x \in Dirs \ {v} : ahead'[x] = ahead[x]
    BY <1>2 DEF InventoryTypes
<1>11. Slots' = (Slots \ {<<v, d>>}) \cup {<<d, d>>}
  <2>1. ASSUME NEW s \in Slots' PROVE s \in (Slots \ {<<v, d>>}) \cup {<<d, d>>}
    <3>1. s \in Dirs \X Entries /\ s[1] \in Dirs
        BY <2>1 DEF Slots
    <3>2. CASE s[1] \in ToSet(unopened') /\ s[2] = s[1]
      <4>1. s = <<d, d>> \/ (s[1] \in ToSet(unopened) /\ s[2] = s[1])
          BY <1>8, <3>1, <3>2
      <4> QED
          BY <1>3, <1>2, <3>1, <4>1 DEF Slots
    <3>3. CASE s[1] \in Opened /\ s[2] \in ahead'[s[1]]
        BY <1>10, <3>1, <3>3 DEF Slots
    <3> QED
        BY <1>2, <2>1, <3>2, <3>3 DEF Slots
  <2>2. ASSUME NEW s \in Slots, s # <<v, d>> PROVE s \in Slots'
    <3>1. s \in Dirs \X Entries /\ s[1] \in Dirs
        BY DEF Slots
    <3>2. CASE s[1] \in ToSet(unopened) /\ s[2] = s[1]
        BY <1>8, <3>1, <3>2 DEF Slots
    <3>3. CASE s[1] \in Opened /\ s[2] \in ahead[s[1]]
      <4>1. s[1] # v \/ s[2] # d
          BY <2>2, <3>1
      <4> QED
          BY <1>2, <1>10, <3>1, <3>3, <4>1 DEF Slots
    <3> QED
        BY <3>2, <3>3 DEF Slots
  <2>3. <<d, d>> \in Slots'
      BY <1>5, <1>8 DEF Slots
  <2> QED
      BY <2>1, <2>2, <2>3
<1> QED
    BY <1>1, <1>2, <1>5, <1>6, <1>9, <1>11

LEMMA FrontierYields ==
    ASSUME InventoryTypes, QueuesInv, FrontierInv, NEW d \in Dirs, YieldDirectory(d)
    PROVE  FrontierInv'
<1>1. PICK v : v = visit.dir
    OBVIOUS
<1>2. /\ Opened' = Opened /\ <<v, d>> \in Slots /\ Slots' = (Slots \ {<<v, d>>}) \cup {<<d, d>>}
      /\ v \in Dirs /\ v \notin Under(d) /\ v # d
    BY <1>1, YieldDirectoryMoves
<1>3. UNCHANGED <<fs, roots, at, progress>> /\ Scanning /\ agg' = AddDirectory(agg, d)
    BY DEF YieldDirectory, Yields, inquiry, Scanning
<1>4. DOMAIN agg \subseteq DOMAIN agg' /\ DOMAIN agg' \subseteq DOMAIN agg \cup {d}
  <2>1. PICK a : a = agg
      OBVIOUS
  <2>2. a \in [DOMAIN a -> Metrics]
      BY <2>1 DEF InventoryTypes
  <2>3. PICK b : b = agg' /\ b = AddDirectory(a, d)
      BY <1>3, <2>1
  <2> QED
      BY <2>1, <2>2, <2>3, AddDirectoryFacts
<1>5. Root' = Root /\ \A e \in Entries : Under(e)' = Under(e)
    BY <1>3, SameTree DEF Root
<1>6. /\ Root \in DOMAIN agg /\ \A k \in DOMAIN agg : Root \in fs.above[k]
      /\ \A s \in Slots :
              /\ Root \in fs.above[s[1]] /\ Crossed(Root, fs.above[s[2]] \ {s[2]}) = {}
              /\ s[2] # s[1] => fs.above[s[2]] \ {s[2]} = fs.above[s[1]]
              /\ DOMAIN agg \cap Under(s[2]) \subseteq {s[1]} /\ Opened \cap Under(s[2]) = {}
      /\ \A s, t \in Slots : Under(s[2]) \cap Under(t[2]) # {} => s = t
    BY <1>3 DEF FrontierInv
<1>7. /\ Root \in fs.above[v] /\ Crossed(Root, fs.above[d] \ {d}) = {} /\ fs.above[d] \ {d} = fs.above[v]
      /\ DOMAIN agg \cap Under(d) \subseteq {v} /\ Opened \cap Under(d) = {}
  <2>1. <<v, d>>[1] = v /\ <<v, d>>[2] = d
      OBVIOUS
  <2> QED
      BY <1>2, <1>6, <2>1
<1>8. d \in Entries /\ d \in Under(d)
    BY TreeHolds, UnderFacts DEF Entries
<1>9. Root' \in DOMAIN agg' /\ \A k \in DOMAIN agg' : Root' \in fs'.above[k]
    BY <1>3, <1>4, <1>5, <1>6, <1>7
<1>10. ASSUME NEW s \in Slots, s # <<v, d>> PROVE Under(s[2]) \cap Under(d) = {} /\ s[2] \in Entries
  <2>1. <<v, d>>[2] = d
      OBVIOUS
  <2> QED
      BY <1>2, <1>6, <1>10, <2>1 DEF Slots
<1>11. ASSUME NEW s \in Slots'
      PROVE  /\ Root' \in fs'.above[s[1]] /\ Crossed(Root, fs.above[s[2]] \ {s[2]})' = {}
             /\ s[2] # s[1] => fs'.above[s[2]] \ {s[2]} = fs'.above[s[1]]
             /\ DOMAIN agg' \cap Under(s[2])' \subseteq {s[1]} /\ Opened' \cap Under(s[2])' = {}
  <2>1. CASE s \in Slots /\ s # <<v, d>>
    <3>1. s[2] \in Entries /\ Under(s[2])' = Under(s[2]) /\ d \notin Under(s[2])
        BY <1>5, <1>8, <1>10, <2>1
    <3>2. Crossed(Root, fs.above[s[2]] \ {s[2]})' = Crossed(Root, fs.above[s[2]] \ {s[2]})
        BY <1>3, <1>5 DEF Crossed
    <3> QED
        BY <1>2, <1>3, <1>4, <1>5, <1>6, <2>1, <3>1, <3>2
  <2>2. CASE s = <<d, d>>
    <3>1. s[1] = d /\ s[2] = d /\ Under(d)' = Under(d)
        BY <1>5, <1>8, <2>2
    <3>2. Crossed(Root, fs.above[d] \ {d})' = {}
        BY <1>3, <1>5, <1>7 DEF Crossed
    <3>3. DOMAIN agg' \cap Under(d)' \subseteq {d} /\ Opened' \cap Under(d)' = {} /\ Root' \in fs'.above[d]
        BY <1>2, <1>3, <1>4, <1>5, <1>7, <3>1
    <3> QED
        BY <3>1, <3>2, <3>3
  <2> QED
      BY <1>2, <2>1, <2>2
<1>12. ASSUME NEW s \in Slots', NEW t \in Slots', Under(s[2])' \cap Under(t[2])' # {} PROVE s = t
  <2>1. <<d, d>>[2] = d /\ Under(d)' = Under(d)
      BY <1>5, <1>8
  <2>2. CASE s \in Slots /\ s # <<v, d>> /\ t \in Slots /\ t # <<v, d>>
      BY <1>5, <1>6, <1>10, <1>12, <2>2
  <2>3. CASE s = <<d, d>> /\ t \in Slots /\ t # <<v, d>>
      BY <1>5, <1>10, <1>12, <2>1, <2>3
  <2>4. CASE t = <<d, d>> /\ s \in Slots /\ s # <<v, d>>
      BY <1>5, <1>10, <1>12, <2>1, <2>4
  <2> QED
      BY <1>2, <2>2, <2>3, <2>4
<1> QED
    BY <1>9, <1>11, <1>12 DEF FrontierInv

LEMMA FrontierBegins ==
    ASSUME InventoryTypes, BeginRoot
    PROVE  /\ QueuesInv' /\ FrontierInv' /\ Slots' = {<<Root, Root>>} /\ Root' = Root /\ Root \in Dirs
<1>1. /\ Root \in Dirs /\ unopened' = <<Root>> /\ open' = <<>> /\ progress' = "fill" /\ DOMAIN agg' = {Root}
      /\ UNCHANGED <<fs, roots, at>>
    BY DEF BeginRoot, inquiry
<1>2. Root' = Root /\ \A e \in Entries : Under(e)' = Under(e)
    BY <1>1, SameTree DEF Root
<1>3. ToSet(<<Root>>) = {Root} /\ ToSet(<<>>) = {} /\ Distinct(<<Root>>) /\ Distinct(<<>>)
    BY DEF ToSet, Distinct
<1>4. Opened' = {}
    BY <1>1, <1>3 DEF Opened
<1>5. Slots' = {<<Root, Root>>}
    BY <1>1, <1>3, <1>4 DEF Slots, Entries
<1>6. QueuesInv'
    BY <1>1, <1>3, <1>4 DEF QueuesInv
<1>7. Root \in fs.above[Root]
    BY <1>1, TreeHolds DEF Tree
<1>8. Crossed(Root, fs.above[Root] \ {Root})' = {}
    BY <1>1, <1>2 DEF Crossed
<1>9. FrontierInv'
  <2>1. \A s \in Slots' : s = <<Root, Root>> /\ s[1] = Root /\ s[2] = Root
      BY <1>5
  <2> QED
      BY <1>1, <1>2, <1>4, <1>7, <1>8, <2>1 DEF FrontierInv
<1> QED
    BY <1>1, <1>2, <1>5, <1>6, <1>9

LEMMA FrontierStep ==
    ASSUME InventoryTypes, QueuesInv, FrontierInv, [InventoryNext]_inventoryVars
    PROVE  QueuesInv' /\ FrontierInv'
<1>1. CASE ~Scanning'
    BY <1>1 DEF QueuesInv, FrontierInv
<1>2. ASSUME Scanning, UNCHANGED <<fs, roots, at>>, DOMAIN agg' = DOMAIN agg, Slots' \subseteq Slots, Opened' \subseteq Opened
      PROVE  FrontierInv'
    BY <1>2, FrontierShrinks
<1>3. CASE BeginRoot
    BY <1>3, FrontierBegins
<1>4. CASE FileRoot \/ RootFails \/ EndRoot \/ EndRun
  <2>1. ~Scanning'
      BY <1>4 DEF FileRoot, RootFails, EndRoot, EndRun, Scanning
  <2> QED
      BY <1>1, <2>1
<1>5. CASE Scanning /\ (ExhaustBudget \/ EndScan \/ (\E i \in Inodes : ResolveLink(i)) \/ (\E f \in Files : Unlink(f)))
  <2>1. QueuesInv' /\ Slots' = Slots /\ Opened' = Opened
      BY <1>5, StillToCome
  <2>2. UNCHANGED <<fs, roots, at>>
      BY <1>5 DEF ExhaustBudget, EndScan, ResolveLink, Unlink, inquiry
  <2>3. DOMAIN agg' = DOMAIN agg
    <3>1. CASE \E i \in Inodes : ResolveLink(i)
      <4>1. PICK i \in Inodes : ResolveLink(i)
          BY <3>1
      <4>2. PICK own : own \subseteq {i} /\ agg' = AddFile(agg, links[i].common, i, own)
          BY <4>1 DEF ResolveLink
      <4>3. agg \in [DOMAIN agg -> Metrics]
          BY DEF InventoryTypes
      <4> QED
          BY <4>2, <4>3, AddFileTypes
    <3>2. CASE ExhaustBudget \/ EndScan \/ \E f \in Files : Unlink(f)
        BY <3>2 DEF ExhaustBudget, EndScan, Unlink, totals
    <3> QED
        BY <1>5, <3>1, <3>2
  <2> QED
      BY <1>2, <1>5, <2>1, <2>2, <2>3
<1>6. CASE SkipMount \/ OpenFails
  <2>1. QueuesInv' /\ Opened' = Opened /\ Slots' \subseteq Slots
      BY <1>6, HeadMoves
  <2>2. UNCHANGED <<fs, roots, at>> /\ Scanning
      BY <1>6 DEF SkipMount, OpenFails, MayOpen, Scanning, inquiry
  <2>3. DOMAIN agg' = DOMAIN agg
      BY <1>6, ErrorFacts DEF SkipMount, OpenFails, totals
  <2> QED
      BY <1>2, <2>1, <2>2, <2>3
<1>7. CASE OpenReader
    BY <1>7, OpenReaderMoves, FrontierOpens
<1>8. CASE BeginVisit
  <2>1. UNCHANGED <<fs, roots, at, agg>> /\ Scanning
      BY <1>8 DEF BeginVisit, Scanning, inquiry, totals
  <2> QED
      BY <1>2, <1>8, <2>1, BeginVisitMoves
<1>9. CASE EndVisit \/ VisitFails
  <2>1. QueuesInv' /\ Opened' \subseteq Opened /\ Slots' \subseteq Slots
      BY <1>9, EndVisitMoves
  <2>2. UNCHANGED <<fs, roots, at>> /\ Scanning
      BY <1>9 DEF EndVisit, VisitFails, Scanning, inquiry
  <2>3. DOMAIN agg' = DOMAIN agg
      BY <1>9, ErrorFacts DEF EndVisit, VisitFails, totals
  <2> QED
      BY <1>2, <2>1, <2>2, <2>3
<1>10. ASSUME NEW e \in Entries, YieldDirectory(e) PROVE QueuesInv' /\ FrontierInv'
    BY <1>10, YieldDirectoryMoves, FrontierYields DEF YieldDirectory
<1>11. ASSUME NEW e \in Entries, YieldDuplicate(e) \/ YieldFile(e) \/ YieldError(e) PROVE QueuesInv' /\ FrontierInv'
  <2>1. /\ progress = "visit" /\ Scanning /\ e \in ahead[visit.dir] /\ UNCHANGED <<progress, unopened, open, fs, roots, at>>
        /\ ahead' = [ahead EXCEPT ![visit.dir] = @ \ {e}] /\ visit' = [visit EXCEPT !.yielded = @ + 1]
      BY <1>11 DEF YieldDuplicate, YieldFile, YieldError, Yields, Scanning, inquiry
  <2>2. QueuesInv' /\ Opened' = Opened /\ Slots' \subseteq Slots
      BY <2>1, YieldMoves
  <2>3. DOMAIN agg' = DOMAIN agg
    <3>1. agg \in [DOMAIN agg -> Metrics]
        BY DEF InventoryTypes
    <3>2. CASE YieldDuplicate(e)
        BY <3>1, <3>2, RecordFacts DEF YieldDuplicate
    <3>3. CASE YieldFile(e)
      <4>1. e \in Files /\ fs.inode[e] \in Inodes
          BY <3>3, TreeHolds DEF YieldFile, Tree
      <4>2. PICK i \in Inodes : i = fs.inode[e]
          BY <4>1
      <4>3. PICK own : own \subseteq {i} /\ (agg' = agg \/ agg' = AddFile(agg, fs.above[e], i, own))
          BY <3>3, <4>2 DEF YieldFile
      <4> QED
          BY <3>1, <4>3, AddFileTypes
    <3>4. CASE YieldError(e)
        BY <3>4, ErrorFacts DEF YieldError
    <3> QED
        BY <1>11, <3>2, <3>3, <3>4
  <2> QED
      BY <1>2, <2>1, <2>2, <2>3
<1>12. CASE UNCHANGED inventoryVars
  <2>1. UNCHANGED <<fs, roots, at, agg, progress, unopened, open, ahead, visit>>
      BY <1>12 DEF inventoryVars, inquiry, traversal, totals
  <2>2. Opened' = Opened /\ Scanning' = Scanning
      BY <2>1 DEF Opened, Scanning
  <2>3. Slots' = Slots
      BY <2>1, <2>2 DEF Slots
  <2>4. QueuesInv'
      BY <2>1, <2>2 DEF QueuesInv
  <2> QED
      BY <1>1, <1>2, <2>1, <2>2, <2>3, <2>4
<1>13. CASE ~Scanning /\ \E f \in Files : Unlink(f)
  <2>1. ~Scanning'
      BY <1>13 DEF Unlink, Scanning
  <2> QED
      BY <1>1, <2>1
<1>14. ExhaustBudget \/ EndScan \/ (\E i \in Inodes : ResolveLink(i)) => Scanning
    BY DEF ExhaustBudget, EndScan, ResolveLink, Scanning
<1> QED
    BY <1>3, <1>4, <1>5, <1>6, <1>7, <1>8, <1>9, <1>10, <1>11, <1>12, <1>13, <1>14 DEF InventoryNext, Scan

-----------------------------------------------------------------------------
(* What was counted. *)

LEMMA SameCounts ==
    ASSUME UNCHANGED fs, NEW of, NEW i
    PROVE  LinkCount(i)' = LinkCount(i) /\ Common(of)' = Common(of) /\ Of(of, i)' = Of(of, i)
BY DEF LinkCount, Common, Of

\* What is known of an inode stays so when nothing is counted of it.
LEMMA InodeStays ==
    ASSUME InventoryTypes, NEW of, NEW i \in Inodes, InodeInv(of, i), UNCHANGED fs,
           i \in seen' <=> i \in seen, i \in DOMAIN links' <=> i \in DOMAIN links,
           i \in DOMAIN links => links'[i] = links[i],
           DOMAIN agg \subseteq DOMAIN agg',
           \A k \in DOMAIN agg : agg'[k].files[i] = agg[k].files[i] /\ (i \in agg'[k].private => i \in agg[k].private),
           \A k \in DOMAIN agg' \ DOMAIN agg :
               agg'[k].files[i] = 0 /\ i \notin agg'[k].private /\ (of # {} => k \notin Common(of)),
           \A k \in Dirs : marks[k] \subseteq marks'[k],
           progress = "finish" => progress' = "finish" /\ complete' = complete
    PROVE  InodeInv(of, i)'
<1>1. LinkCount(i)' = LinkCount(i) /\ Common(of)' = Common(of) /\ DOMAIN agg \subseteq Dirs
    BY SameCounts DEF InventoryTypes
<1>2. i \in Attributed' <=> i \in Attributed
    BY DEF Attributed
<1>3. i \in seen' <=> of # {}
    BY DEF InodeInv
<1>4. i \in DOMAIN links' =>
          i \in seen' /\ LinkCount(i)' > 1 /\ links'[i] = Link(LinkCount(i)', Cardinality(of), Common(of)')
    BY <1>1 DEF InodeInv
<1>5. ASSUME i \in Attributed', NEW k \in DOMAIN agg'
      PROVE  /\ agg'[k].files[i] = IF k \in Common(of)' THEN 1 ELSE 0
             /\ i \in agg'[k].private => k \in Common(of)' /\ LinkCount(i)' <= Cardinality(of)
    BY <1>1, <1>2, <1>3, <1>5 DEF InodeInv, Attributed
<1>6. ASSUME i \in Attributed', Cardinality(of) < LinkCount(i)'
      PROVE  /\ progress' = "finish"
             /\ complete' \/ \A k \in Common(of)' \cap DOMAIN agg' : "UnresolvedHardlinkAttribution" \in marks'[k]
    BY <1>1, <1>2, <1>3, <1>6 DEF InodeInv, Attributed
<1>7. ASSUME i \notin Attributed', NEW k \in DOMAIN agg' PROVE agg'[k].files[i] = 0 /\ i \notin agg'[k].private
    BY <1>1, <1>2, <1>7 DEF InodeInv
<1> QED
    BY <1>3, <1>4, <1>5, <1>6, <1>7 DEF InodeInv

LEMMA CountStays ==
    ASSUME InventoryTypes, UNCHANGED <<fs, roots, at, seen, links>>, NEW D, CountInv(D),
           Slots' \subseteq Slots, DOMAIN agg' = DOMAIN agg,
           \A k \in DOMAIN agg : agg'[k].files = agg[k].files /\ agg'[k].private = agg[k].private,
           \A k \in Dirs : marks[k] \subseteq marks'[k],
           complete' => complete, gone \subseteq gone',
           progress = "finish" => progress' = "finish" /\ complete' = complete,
           \A f \in Reached(Root) \ gone' : Covered(f) => Covered(f)' \/ Lost(f)'
    PROVE  CountInv(D)'
<1>1. Root' = Root /\ \A e \in Entries : Under(e)' = Under(e)
    BY SameTree DEF Root
<1>2. Reached(Root)' = Reached(Root)
    BY <1>1 DEF Reached, Crossed
<1>3. ASSUME NEW s \in Slots' PROVE D \cap Under(s[2])' = {}
  <2>1. s \in Slots /\ s[2] \in Entries
      BY DEF Slots
  <2> QED
      BY <1>1, <2>1 DEF CountInv
<1>4. ASSUME NEW f \in Reached(Root) \ gone' PROVE f \in D \/ Covered(f)' \/ Lost(f)'
  <2>1. f \in D \/ Covered(f) \/ Lost(f)
      BY DEF CountInv
  <2>2. Lost(f) => Lost(f)'
    <3>1. Above(f)' = Above(f) /\ Above(f) \subseteq Dirs
        BY DEF Above, InventoryTypes
    <3> QED
        BY <3>1 DEF Lost
  <2> QED
      BY <2>1, <2>2
<1>5. ASSUME NEW i \in Inodes, Standing(i)' PROVE InodeInv(Of(D, i), i)'
  <2>1. Standing(i)
      BY <1>5 DEF Standing
  <2>2. PICK of : of = Of(D, i)
      OBVIOUS
  <2>3. InodeInv(of, i) /\ Of(D, i)' = of
      BY <2>1, <2>2, SameCounts DEF CountInv
  <2>4. InodeInv(of, i)'
      BY <2>3, InodeStays
  <2> QED
      BY <2>3, <2>4
<1> QED
    BY <1>2, <1>3, <1>4, <1>5 DEF CountInv

\* A file beneath an entry that is still to come.
LEMMA StillCovered ==
    ASSUME UNCHANGED fs, NEW s \in Slots', NEW f \in Under(s[2])
    PROVE  Covered(f)'
<1>1. s[2] \in Entries
    BY DEF Slots
<1>2. f \in Under(s[2])'
    BY <1>1, SameTree
<1> QED
    BY <1>2 DEF Covered

\* An error of a directory is on record in all that is retained above what it hid.
LEMMA LostBeneath ==
    ASSUME InventoryTypes, FrontierInv, Scanning, UNCHANGED fs,
           NEW s \in Slots, NEW f \in Under(s[2]), ScanError(fs.above[s[1]])
    PROVE  Lost(f)'
<1>1. Above(f) \subseteq fs.above[s[1]] /\ Above(f) \subseteq DOMAIN agg
    BY RetainedAbove DEF Above
<1>2. complete' = FALSE /\ DOMAIN agg' = DOMAIN agg /\ \A k \in fs.above[s[1]] \cap DOMAIN agg : "ScanErrors" \in marks'[k]
    BY ErrorFacts
<1>3. Above(f)' = Above(f)
    BY <1>2 DEF Above
<1> QED
    BY <1>1, <1>2, <1>3 DEF Lost

\* Where nothing is counted, what is to come stays to come or is lost.
LEMMA CountWalks ==
    ASSUME InventoryTypes, QueuesInv, FrontierInv, Scanning, NEW D, CountInv(D),
           \/ ExhaustBudget \/ EndScan \/ BeginVisit \/ SkipMount \/ OpenFails \/ EndVisit \/ VisitFails
           \/ (\E e \in Entries : YieldError(e)) \/ (\E f \in Files : Unlink(f))
    PROVE  CountInv(D)'
<1>1. CASE ExhaustBudget \/ EndScan \/ BeginVisit \/ \E f \in Files : Unlink(f)
  <2>1. Slots' = Slots
      BY <1>1, StillToCome, BeginVisitMoves
  <2>2. UNCHANGED <<fs, roots, at, seen, links, agg>> /\ gone \subseteq gone' /\ (complete' => complete)
      BY <1>1 DEF ExhaustBudget, EndScan, BeginVisit, Unlink, inquiry, totals, InventoryTypes
  <2>3. \A k \in Dirs : marks[k] \subseteq marks'[k]
    <3>1. CASE ExhaustBudget
        BY <3>1, MarkFacts, ReasonsAre DEF ExhaustBudget
    <3>2. CASE EndScan \/ BeginVisit \/ \E f \in Files : Unlink(f)
        BY <3>2 DEF EndScan, BeginVisit, Unlink, totals
    <3> QED
        BY <1>1, <3>1, <3>2
  <2>4. progress = "finish" => progress' = "finish" /\ complete' = complete
      BY <1>1 DEF ExhaustBudget, EndScan, BeginVisit, Unlink, totals
  <2>5. ASSUME NEW f \in Reached(Root) \ gone', Covered(f) PROVE Covered(f)'
      BY <2>1, <2>2, <2>5, StillCovered DEF Covered
  <2> QED
      BY <2>1, <2>2, <2>3, <2>4, <2>5, CountStays
<1>2. CASE SkipMount
  <2>1. PICK h : h = Head(unopened)
      OBVIOUS
  <2>2. /\ Slots' = Slots \ {<<h, h>>} /\ UNCHANGED <<fs, roots, at, seen, links, agg, gone, progress, complete, marks>>
        /\ MayOpen /\ Foreign(h) /\ h \in Dirs
      BY <1>2, <2>1, HeadMoves, HeadToCome DEF SkipMount, inquiry, totals
  <2>3. ASSUME NEW f \in Reached(Root) \ gone', Covered(f) PROVE Covered(f)'
    <3>1. PICK s \in Slots : f \in Under(s[2])
        BY <2>3 DEF Covered
    <3>2. s # <<h, h>>
      <4> SUFFICES ASSUME s = <<h, h>> PROVE FALSE
          OBVIOUS
      <4>1. s[2] = h /\ f \in Files /\ h \in Entries
          BY <2>2 DEF Reached, Entries
      <4>2. h \in fs.above[f]
          BY <2>2, <3>1, <4>1, KindsAssumption DEF Under
      <4>3. fs.above[h] \subseteq fs.above[f]
          BY <4>1, <4>2, TreeHolds DEF Tree, Entries
      <4> QED
          BY <2>2, <2>3, <4>3 DEF Foreign, Crossed, Reached
    <3> QED
        BY <2>2, <3>1, <3>2, StillCovered
  <2> QED
      BY <2>2, <2>3, CountStays
<1>3. CASE OpenFails
  <2>1. PICK h : h = Head(unopened)
      OBVIOUS
  <2>2. /\ Slots' = Slots \ {<<h, h>>} /\ UNCHANGED <<fs, roots, at, seen, links, gone, progress>> /\ progress = "fill"
        /\ ScanError(fs.above[h])
      BY <1>3, <2>1, HeadMoves DEF OpenFails, inquiry, totals, MayOpen
  <2>3. /\ complete' = FALSE /\ DOMAIN agg' = DOMAIN agg
        /\ \A k \in Dirs : marks[k] \subseteq marks'[k]
        /\ \A k \in DOMAIN agg : agg'[k].files = agg[k].files /\ agg'[k].private = agg[k].private
      BY <2>2, ErrorFacts
  <2>4. ASSUME NEW f \in Reached(Root) \ gone', Covered(f) PROVE Covered(f)' \/ Lost(f)'
    <3>1. PICK s \in Slots : f \in Under(s[2])
        BY <2>4 DEF Covered
    <3>2. s # <<h, h>> => Covered(f)'
        BY <2>2, <3>1, StillCovered
    <3>3. s = <<h, h>> => Lost(f)'
      <4>1. <<h, h>>[1] = h
          OBVIOUS
      <4> QED
          BY <2>2, <3>1, <4>1, LostBeneath
    <3> QED
        BY <3>2, <3>3
  <2> QED
      BY <2>2, <2>3, <2>4, CountStays
<1>4. CASE EndVisit
  <2>1. /\ Slots' \subseteq Slots /\ \A s \in Slots \ Slots' : s[2] \in gone
        /\ UNCHANGED <<fs, roots, at, seen, links, agg, gone, complete, marks>> /\ progress = "visit"
      BY <1>4, EndVisitMoves DEF EndVisit, inquiry, totals
  <2>2. ASSUME NEW f \in Reached(Root) \ gone', Covered(f) PROVE Covered(f)'
    <3>1. PICK s \in Slots : f \in Under(s[2])
        BY <2>2 DEF Covered
    <3>2. s[2] \in gone => s[2] \in Files /\ Under(s[2]) = {s[2]}
        BY TreeHolds, UnderFacts DEF InventoryTypes, Entries
    <3>3. s \in Slots'
        BY <2>1, <2>2, <3>1, <3>2
    <3> QED
        BY <2>1, <3>1, <3>3, StillCovered
  <2> QED
      BY <2>1, <2>2, CountStays
<1>5. CASE VisitFails
  <2>1. /\ Slots' \subseteq Slots /\ \A s \in Slots \ Slots' : s[1] = visit.dir
        /\ UNCHANGED <<fs, roots, at, seen, links, gone>> /\ progress = "visit" /\ ScanError(fs.above[visit.dir])
      BY <1>5, EndVisitMoves DEF VisitFails, inquiry, totals
  <2>2. /\ complete' = FALSE /\ DOMAIN agg' = DOMAIN agg
        /\ \A k \in Dirs : marks[k] \subseteq marks'[k]
        /\ \A k \in DOMAIN agg : agg'[k].files = agg[k].files /\ agg'[k].private = agg[k].private
      BY <2>1, ErrorFacts
  <2>3. ASSUME NEW f \in Reached(Root) \ gone', Covered(f) PROVE Covered(f)' \/ Lost(f)'
    <3>1. PICK s \in Slots : f \in Under(s[2])
        BY <2>3 DEF Covered
    <3>2. s \in Slots' => Covered(f)'
        BY <2>1, <3>1, StillCovered
    <3>3. s \notin Slots' => Lost(f)'
        BY <2>1, <3>1, LostBeneath
    <3> QED
        BY <3>2, <3>3
  <2> QED
      BY <2>1, <2>2, <2>3, CountStays
<1>6. ASSUME NEW e \in Entries, YieldError(e) PROVE CountInv(D)'
  <2>1. PICK v : v = visit.dir
      OBVIOUS
  <2>2. /\ progress = "visit" /\ e \in ahead[visit.dir] /\ UNCHANGED <<progress, unopened, open, fs, roots, at, seen, links, gone>>
        /\ ahead' = [ahead EXCEPT ![visit.dir] = @ \ {e}] /\ visit' = [visit EXCEPT !.yielded = @ + 1]
        /\ ScanError(fs.above[v])
      BY <1>6, <2>1 DEF YieldError, inquiry
  <2>3. Slots' = Slots \ {<<v, e>>}
      BY <2>1, <2>2, YieldMoves
  <2>4. /\ complete' = FALSE /\ DOMAIN agg' = DOMAIN agg
        /\ \A k \in Dirs : marks[k] \subseteq marks'[k]
        /\ \A k \in DOMAIN agg : agg'[k].files = agg[k].files /\ agg'[k].private = agg[k].private
      BY <2>2, ErrorFacts
  <2>5. ASSUME NEW f \in Reached(Root) \ gone', Covered(f) PROVE Covered(f)' \/ Lost(f)'
    <3>1. PICK s \in Slots : f \in Under(s[2])
        BY <2>5 DEF Covered
    <3>2. s # <<v, e>> => Covered(f)'
        BY <2>2, <2>3, <3>1, StillCovered
    <3>3. s = <<v, e>> => Lost(f)'
      <4>1. <<v, e>>[1] = v
          OBVIOUS
      <4> QED
          BY <2>2, <3>1, <4>1, LostBeneath
    <3> QED
        BY <3>2, <3>3
  <2> QED
      BY <2>2, <2>3, <2>4, <2>5, CountStays
<1> QED
    BY <1>1, <1>2, <1>3, <1>4, <1>5, <1>6

LEMMA CountOpens ==
    ASSUME InventoryTypes, QueuesInv, FrontierInv, NEW D, CountInv(D), OpenReader
    PROVE  CountInv(D)'
<1>1. PICK h : h = Head(unopened)
    OBVIOUS
<1>2. /\ MayOpen /\ UNCHANGED <<fs, roots, at, progress, seen, links, agg, marks, complete, gone>>
      /\ Slots' = (Slots \ {<<h, h>>}) \cup ({h} \X Children(h))
    BY <1>1, OpenReaderMoves DEF OpenReader, inquiry, totals
<1>3. h \in Dirs /\ <<h, h>> \in Slots /\ <<h, h>>[2] = h /\ Tree /\ gone \subseteq Files
    BY <1>1, <1>2, HeadToCome, TreeHolds DEF InventoryTypes
<1>4. Root' = Root /\ \A e \in Entries : Under(e)' = Under(e)
    BY <1>2, SameTree DEF Root
<1>5. Reached(Root)' = Reached(Root)
    BY <1>2, <1>4 DEF Reached, Crossed
<1>6. ASSUME NEW s \in Slots' PROVE D \cap Under(s[2])' = {}
  <2>1. CASE s \in Slots
    <3>1. s[2] \in Entries
        BY <2>1 DEF Slots
    <3> QED
        BY <1>4, <2>1, <3>1 DEF CountInv
  <2>2. CASE s \in {h} \X Children(h)
    <3>1. PICK c \in Children(h) : c = s[2]
        BY <2>2
    <3>2. c \in Entries /\ Under(c) \subseteq Under(h)
        BY <1>3, ChildFacts
    <3>3. D \cap Under(h) = {}
        BY <1>3 DEF CountInv
    <3> QED
        BY <1>4, <3>1, <3>2, <3>3
  <2> QED
      BY <1>2, <2>1, <2>2
<1>7. ASSUME NEW f \in Reached(Root) \ gone' PROVE f \in D \/ Covered(f)' \/ Lost(f)'
  <2>1. f \in D \/ Covered(f) \/ Lost(f)
      BY <1>2, <1>7 DEF CountInv
  <2>2. Lost(f) => Lost(f)'
      BY <1>2 DEF Lost, Above
  <2>3. ASSUME Covered(f) PROVE Covered(f)'
    <3>1. PICK s \in Slots : f \in Under(s[2])
        BY <2>3 DEF Covered
    <3>2. s # <<h, h>> => Covered(f)'
        BY <1>2, <3>1, StillCovered
    <3>3. ASSUME s = <<h, h>> PROVE Covered(f)'
      <4>1. f \in Under(h) /\ f # h /\ f \notin gone
          BY <1>2, <1>3, <1>7, <3>1, <3>3, KindsAssumption DEF Reached
      <4>2. PICK c \in Children(h) : f \in Under(c)
          BY <1>3, <4>1, ChildrenCover
      <4>3. <<h, c>> \in Slots' /\ <<h, c>>[2] = c
          BY <1>2
      <4> QED
          BY <1>2, <4>2, <4>3, StillCovered
    <3> QED
        BY <3>2, <3>3
  <2> QED
      BY <2>1, <2>2, <2>3
<1>8. ASSUME NEW i \in Inodes, Standing(i)' PROVE InodeInv(Of(D, i), i)'
  <2>1. Standing(i)
      BY <1>2, <1>8 DEF Standing
  <2>2. PICK of : of = Of(D, i)
      OBVIOUS
  <2>3. InodeInv(of, i) /\ Of(D, i)' = of
      BY <1>2, <2>1, <2>2, SameCounts DEF CountInv
  <2>4. InodeInv(of, i)'
      BY <1>2, <2>3, InodeStays
  <2> QED
      BY <2>3, <2>4
<1> QED
    BY <1>5, <1>6, <1>7, <1>8 DEF CountInv

LEMMA CountBegins ==
    ASSUME InventoryTypes, BeginRoot
    PROVE  CountInv({})'
<1>1. Slots' = {<<Root, Root>>} /\ Root' = Root /\ Root \in Dirs
    BY FrontierBegins
<1>2. /\ seen' = {} /\ DOMAIN links' = {} /\ DOMAIN agg' = {Root} /\ agg'[Root] = [Zero EXCEPT !.dirs = 1]
      /\ UNCHANGED fs
    BY DEF BeginRoot, inquiry, NoTree
<1>3. agg'[Root].private = {} /\ \A i \in Inodes : agg'[Root].files[i] = 0
    BY <1>2 DEF Zero
<1>4. ASSUME NEW f \in Reached(Root)' PROVE Covered(f)'
  <2>1. f \in Files /\ Root \in fs.above[f]
      BY <1>1, <1>2, <1>4 DEF Reached
  <2>2. f \in Under(Root)
      BY <2>1 DEF Under, Entries
  <2>3. <<Root, Root>>[2] = Root
      OBVIOUS
  <2> QED
      BY <1>1, <1>2, <2>2, <2>3, StillCovered
<1>5. ASSUME NEW i \in Inodes PROVE InodeInv(Of({}, i), i)'
  <2>1. Of({}, i)' = {}
      BY DEF Of
  <2>2. InodeInv({}, i)'
      BY <1>2, <1>3 DEF InodeInv, Attributed
  <2> QED
      BY <2>1, <2>2
<1> QED
    BY <1>4, <1>5 DEF CountInv

LEMMA CountYieldsDirectory ==
    ASSUME InventoryTypes, QueuesInv, FrontierInv, NEW D, CountInv(D), NEW d \in Dirs, YieldDirectory(d)
    PROVE  CountInv(D)'
<1>1. PICK v : v = visit.dir
    OBVIOUS
<1>2. /\ progress = "visit" /\ UNCHANGED <<fs, roots, at, progress, seen, links, marks, complete, gone>>
      /\ agg' = AddDirectory(agg, d)
    BY DEF YieldDirectory, Yields, inquiry
<1>3. <<v, d>> \in Slots /\ Slots' = (Slots \ {<<v, d>>}) \cup {<<d, d>>}
    BY <1>1, YieldDirectoryMoves
<1>4. /\ DOMAIN agg \subseteq DOMAIN agg' /\ DOMAIN agg' \subseteq DOMAIN agg \cup {d}
      /\ \A k \in DOMAIN agg : agg'[k].files = agg[k].files /\ agg'[k].private = agg[k].private
      /\ \A k \in DOMAIN agg' \ DOMAIN agg : agg'[k].private = {} /\ \A i \in Inodes : agg'[k].files[i] = 0
  <2>1. agg \in [DOMAIN agg -> Metrics]
      BY DEF InventoryTypes
  <2> QED
      BY <1>2, <2>1, AddDirectoryFacts
<1>5. Root' = Root /\ \A e \in Entries : Under(e)' = Under(e)
    BY <1>2, SameTree DEF Root
<1>6. Reached(Root)' = Reached(Root) /\ D \subseteq Reached(Root) /\ Reached(Root) \subseteq Files
    BY <1>2, <1>5 DEF Reached, Crossed, CountInv
<1>7. <<d, d>>[2] = d /\ <<v, d>>[2] = d /\ d \in Entries
    BY DEF Entries
<1>8. D \cap Under(d) = {}
    BY <1>3, <1>7 DEF CountInv
<1>9. ASSUME NEW s \in Slots' PROVE D \cap Under(s[2])' = {}
  <2>1. s \in Slots => s[2] \in Entries
      BY DEF Slots
  <2> QED
      BY <1>3, <1>5, <1>7, <1>8, <2>1 DEF CountInv
<1>10. ASSUME NEW f \in Reached(Root) \ gone' PROVE f \in D \/ Covered(f)' \/ Lost(f)'
  <2>1. f \in D \/ Covered(f) \/ Lost(f)
      BY <1>2, <1>10 DEF CountInv
  <2>2. f \in Under(d) => Covered(f)'
      BY <1>2, <1>3, <1>7, StillCovered
  <2>3. ASSUME Lost(f), f \notin Under(d) PROVE Lost(f)'
    <3>1. d \notin fs.above[f]
        BY <1>6, <2>3 DEF Under, Entries
    <3>2. Above(f)' = Above(f)
        BY <1>2, <1>4, <3>1 DEF Above
    <3> QED
        BY <1>2, <2>3, <3>2 DEF Lost
  <2>4. ASSUME Covered(f), f \notin Under(d) PROVE Covered(f)'
    <3>1. PICK s \in Slots : f \in Under(s[2])
        BY <2>4 DEF Covered
    <3>2. s \in Slots'
        BY <1>3, <1>7, <2>4, <3>1
    <3> QED
        BY <1>2, <3>1, <3>2, StillCovered
  <2> QED
      BY <2>1, <2>2, <2>3, <2>4
<1>11. ASSUME NEW i \in Inodes, Standing(i)' PROVE InodeInv(Of(D, i), i)'
  <2>1. Standing(i)
      BY <1>2, <1>11 DEF Standing
  <2>2. PICK of : of = Of(D, i)
      OBVIOUS
  <2>3. InodeInv(of, i) /\ Of(D, i)' = of
      BY <1>2, <2>1, <2>2, SameCounts DEF CountInv
  <2>4. of # {} => d \notin Common(of)
    <3> SUFFICES ASSUME NEW f \in of, d \in Common(of) PROVE FALSE
        OBVIOUS
    <3>1. f \in D /\ f \in Files /\ d \in fs.above[f]
        BY <1>6, <2>2 DEF Of, Common
    <3>2. f \in Under(d)
        BY <3>1 DEF Under, Entries
    <3> QED
        BY <1>8, <3>1, <3>2
  <2>5. InodeInv(of, i)'
      BY <1>2, <1>4, <2>3, <2>4, InodeStays
  <2> QED
      BY <2>3, <2>5
<1> QED
    BY <1>6, <1>9, <1>10, <1>11 DEF CountInv

\* What holds of a file that is yielded.
LEMMA YieldedFacts ==
    ASSUME InventoryTypes, QueuesInv, FrontierInv, NEW D, CountInv(D),
           NEW f \in Files, Yields(f), UNCHANGED <<progress, unopened, open, fs, roots, at>>
    PROVE  /\ f \in Reached(Root) /\ f \notin D /\ f \notin gone /\ fs.inode[f] \in Inodes /\ fs.above[f] \subseteq Dirs
           /\ Slots' \subseteq Slots /\ Root' = Root /\ Reached(Root)' = Reached(Root)
           /\ \A s \in Slots' : (D \cup {f}) \cap Under(s[2])' = {}
           /\ \A g : Covered(g) => Covered(g)' \/ g = f
<1>1. PICK v : v = visit.dir
    OBVIOUS
<1>2. /\ progress = "visit" /\ Scanning /\ f \in ahead[visit.dir] /\ f \notin gone
      /\ ahead' = [ahead EXCEPT ![visit.dir] = @ \ {f}] /\ visit' = [visit EXCEPT !.yielded = @ + 1]
    BY DEF Yields, Scanning
<1>3. <<v, f>> \in Slots /\ Slots' = Slots \ {<<v, f>>} /\ v \in Dirs
    BY <1>1, <1>2, YieldMoves
<1>4. Tree /\ f \in Entries /\ f \notin Dirs
    BY TreeHolds, KindsAssumption DEF Entries
<1>5. fs.inode[f] \in Inodes /\ fs.above[f] \subseteq Dirs /\ fs.mounts \subseteq Dirs
    BY <1>4 DEF Tree
<1>6. Under(f) = {f}
    BY <1>4, UnderFacts
<1>7. Root \in fs.above[v] /\ Crossed(Root, fs.above[f] \ {f}) = {} /\ fs.above[f] \ {f} = fs.above[v]
  <2>1. <<v, f>>[1] = v /\ <<v, f>>[2] = f /\ f # v
      BY <1>3, <1>4
  <2> QED
      BY <1>2, <1>3, <2>1 DEF FrontierInv
<1>8. f \in Reached(Root)
    BY <1>4, <1>5, <1>7 DEF Reached, Crossed
<1>9. D \cap {f} = {}
  <2>1. <<v, f>>[2] = f
      OBVIOUS
  <2> QED
      BY <1>3, <1>6, <2>1 DEF CountInv
<1>10. Root' = Root /\ \A e \in Entries : Under(e)' = Under(e)
    BY SameTree DEF Root
<1>11. Reached(Root)' = Reached(Root)
    BY <1>10 DEF Reached, Crossed
<1>12. ASSUME NEW s \in Slots' PROVE (D \cup {f}) \cap Under(s[2])' = {}
  <2>1. s \in Slots /\ s # <<v, f>> /\ s[2] \in Entries /\ <<v, f>>[2] = f
      BY <1>3 DEF Slots
  <2>2. Under(s[2]) \cap Under(f) = {}
      BY <1>2, <1>3, <2>1 DEF FrontierInv
  <2> QED
      BY <1>6, <1>10, <2>1, <2>2 DEF CountInv
<1>13. ASSUME NEW g, Covered(g) PROVE Covered(g)' \/ g = f
  <2>1. PICK s \in Slots : g \in Under(s[2])
      BY <1>13 DEF Covered
  <2>2. <<v, f>>[2] = f
      OBVIOUS
  <2> QED
      BY <1>3, <1>6, <2>1, <2>2, StillCovered
<1> QED
    BY <1>2, <1>3, <1>5, <1>8, <1>9, <1>10, <1>11, <1>12, <1>13

\* A file that is yielded is counted; nothing else changes of the other inodes.
LEMMA CountGrows ==
    ASSUME InventoryTypes, QueuesInv, FrontierInv, NEW D, CountInv(D),
           NEW f \in Files, Yields(f), UNCHANGED <<progress, unopened, open, fs, roots, at, marks, complete, gone>>,
           DOMAIN agg' = DOMAIN agg,
           \A i \in Inodes \ {fs.inode[f]} :
               /\ i \in seen' <=> i \in seen
               /\ i \in DOMAIN links' <=> i \in DOMAIN links
               /\ i \in DOMAIN links => links'[i] = links[i]
               /\ \A k \in DOMAIN agg : agg'[k].files[i] = agg[k].files[i] /\ (i \in agg'[k].private => i \in agg[k].private),
           Standing(fs.inode[f]) => InodeInv(Of(D \cup {f}, fs.inode[f]), fs.inode[f])'
    PROVE  CountInv(D \cup {f})'
<1> DEFINE E == D \cup {f}
<1>1. /\ f \in Reached(Root) /\ f \notin D /\ fs.inode[f] \in Inodes
      /\ Root' = Root /\ Reached(Root)' = Reached(Root)
      /\ \A s \in Slots' : E \cap Under(s[2])' = {}
      /\ \A g : Covered(g) => Covered(g)' \/ g = f
    BY YieldedFacts
<1>2. E \subseteq Reached(Root)
    BY <1>1 DEF CountInv
<1>3. ASSUME NEW g \in Reached(Root) \ gone' PROVE g \in E \/ Covered(g)' \/ Lost(g)'
  <2>1. g \in D \/ Covered(g) \/ Lost(g)
      BY <1>3 DEF CountInv
  <2>2. Lost(g) => Lost(g)'
      BY DEF Lost, Above
  <2> QED
      BY <1>1, <2>1, <2>2
<1>4. ASSUME NEW i \in Inodes, Standing(i)' PROVE InodeInv(Of(E, i), i)'
  <2>1. Standing(i)
      BY <1>4 DEF Standing
  <2>2. CASE i = fs.inode[f]
      BY <2>1, <2>2
  <2>3. CASE i # fs.inode[f]
    <3>1. PICK of : of = Of(D, i)
        OBVIOUS
    <3>2. InodeInv(of, i)
        BY <2>1, <3>1 DEF CountInv
    <3>3. Of(E, i)' = of
        BY <2>3, <3>1 DEF Of
    <3>4. InodeInv(of, i)'
        BY <2>3, <3>2, InodeStays
    <3> QED
        BY <3>3, <3>4
  <2> QED
      BY <2>2, <2>3
<1> HIDE DEF E
<1>5. CountInv(E)'
    BY <1>1, <1>2, <1>3, <1>4 DEF CountInv
<1> QED
    BY <1>5 DEF E

\* What becomes of the metrics when a file is added.
FileIsAdded(p, i, own) ==
    /\ DOMAIN agg' = DOMAIN agg
    /\ \A k \in DOMAIN agg : \A j \in Inodes :
          /\ j # i \/ k \notin p => agg'[k].files[j] = agg[k].files[j]
          /\ j = i /\ k \in p => agg'[k].files[j] = agg[k].files[j] + 1
          /\ j \in agg'[k].private <=> j \in agg[k].private \/ (k \in p /\ j \in own)

LEMMA FileAdded ==
    ASSUME InventoryTypes, NEW p, NEW i \in Inodes, NEW own, own \subseteq {i}, agg' = AddFile(agg, p, i, own)
    PROVE  FileIsAdded(p, i, own)
<1>1. agg \in [DOMAIN agg -> Metrics]
    BY DEF InventoryTypes
<1>2. DOMAIN agg' = DOMAIN agg
    BY <1>1, AddFileTypes
<1>3. ASSUME NEW k \in DOMAIN agg, NEW j \in Inodes
      PROVE  /\ j # i \/ k \notin p => agg'[k].files[j] = agg[k].files[j]
             /\ j = i /\ k \in p => agg'[k].files[j] = agg[k].files[j] + 1
             /\ j \in agg'[k].private <=> j \in agg[k].private \/ (k \in p /\ j \in own)
  <2>1. agg[k].files[j] \in Nat
      BY <1>1 DEF Metrics
  <2>2. agg'[k].files[j] = agg[k].files[j] + (IF k \in p /\ j = i THEN 1 ELSE 0)
      BY <1>1, AddFileFacts
  <2>3. j \in agg'[k].private <=> j \in agg[k].private \/ (k \in p /\ j \in own)
      BY <1>1, AddFileFacts
  <2> QED
      BY <2>1, <2>2, <2>3
<1> QED
    BY <1>2, <1>3 DEF FileIsAdded

\* An inode none of whose files was unlinked has the links it had.
LEMMA StandingLinks == ASSUME NEW i, Standing(i) PROVE LinksOf(i) = LinkCount(i)
<1>1. {f \in Files \ gone : fs.inode[f] = i} = {f \in Files : fs.inode[f] = i}
    BY DEF Standing
<1> QED
    BY <1>1 DEF LinksOf, LinkCount

\* It has no fewer links than files.
LEMMA LinkCountFacts ==
    ASSUME Tree, NEW i \in Inodes, NEW of, of \subseteq {f \in Files : fs.inode[f] = i}
    PROVE  LinkCount(i) \in Nat /\ IsFiniteSet(of) /\ Cardinality(of) \in Nat /\ Cardinality(of) <= LinkCount(i)
<1> DEFINE all == {f \in Files : fs.inode[f] = i}
<1>1. IsFiniteSet(all)
    BY KindsAssumption, FS_Subset
<1>2. IsFiniteSet(of) /\ Cardinality(of) <= Cardinality(all) /\ Cardinality(all) \in Nat /\ Cardinality(of) \in Nat
    BY <1>1, FS_Subset, FS_CardinalityType
<1>3. fs.outside[i] \in Nat
    BY DEF Tree
<1> HIDE DEF all
<1>4. LinkCount(i) = fs.outside[i] + Cardinality(all)
    BY DEF LinkCount, all
<1> QED
    BY <1>2, <1>3, <1>4

LEMMA CountYieldsFile ==
    ASSUME InventoryTypes, QueuesInv, FrontierInv, NEW D, CountInv(D), NEW f \in Files, YieldFile(f)
    PROVE  CountInv(D \cup {f})'
<1>1. PICK i : i = fs.inode[f]
    OBVIOUS
<1>2. /\ Yields(f) /\ UNCHANGED <<progress, unopened, open, fs, roots, at, marks, complete, gone>>
      /\ i \notin seen /\ seen' = seen \cup {i}
      /\ \/ LinksOf(i) > 1 /\ agg' = agg
            /\ links' = [j \in DOMAIN links \cup {i} |-> IF j = i THEN Link(LinksOf(i), 1, fs.above[f]) ELSE links[j]]
         \/ ~(LinksOf(i) > 1) /\ links' = links /\ agg' = AddFile(agg, fs.above[f], i, {i})
    BY <1>1 DEF YieldFile, Yields, inquiry
<1>3. f \in Reached(Root) /\ f \notin D /\ i \in Inodes /\ fs.above[f] \subseteq Dirs /\ D \subseteq Files
    BY <1>1, <1>2, YieldedFacts DEF CountInv, Reached
<1>4. DOMAIN agg' = DOMAIN agg
  <2>1. PICK own : own = {i} /\ own \subseteq {i}
      OBVIOUS
  <2> QED
      BY <1>2, <1>3, <2>1, FileAdded DEF FileIsAdded
<1>5. ASSUME NEW j \in Inodes \ {i}
      PROVE  /\ j \in seen' <=> j \in seen
             /\ j \in DOMAIN links' <=> j \in DOMAIN links
             /\ j \in DOMAIN links => links'[j] = links[j]
             /\ \A k \in DOMAIN agg : agg'[k].files[j] = agg[k].files[j] /\ (j \in agg'[k].private => j \in agg[k].private)
  <2>1. PICK own : own = {i} /\ own \subseteq {i}
      OBVIOUS
  <2>2. ASSUME agg' = AddFile(agg, fs.above[f], i, own), NEW k \in DOMAIN agg
        PROVE  agg'[k].files[j] = agg[k].files[j] /\ (j \in agg'[k].private => j \in agg[k].private)
    <3>1. FileIsAdded(fs.above[f], i, own)
        BY <1>3, <2>1, <2>2, FileAdded
    <3> QED
        BY <1>5, <2>1, <3>1 DEF FileIsAdded
  <2>3. \A k \in DOMAIN agg : agg'[k].files[j] = agg[k].files[j] /\ (j \in agg'[k].private => j \in agg[k].private)
      BY <1>2, <2>1, <2>2
  <2>4. /\ j \in DOMAIN links' <=> j \in DOMAIN links
        /\ j \in DOMAIN links => links'[j] = links[j]
      BY <1>2, <1>5
  <2> QED
      BY <1>2, <2>3, <2>4
<1>6. ASSUME Standing(i) PROVE InodeInv(Of(D \cup {f}, i), i)'
  <2>1. InodeInv(Of(D, i), i)
      BY <1>3, <1>6 DEF CountInv
  <2>2. Of(D, i) = {} /\ i \notin DOMAIN links /\ i \notin Attributed
      BY <1>2, <2>1 DEF InodeInv, Attributed
  <2>3. Of(D \cup {f}, i)' = {f}
      BY <1>1, <1>2, <2>2 DEF Of
  <2>4. LinksOf(i) = LinkCount(i) /\ LinkCount(i) \in Nat
    <3>1. {} \subseteq {g \in Files : fs.inode[g] = i}
        OBVIOUS
    <3> QED
        BY <1>3, <1>6, <3>1, StandingLinks, LinkCountFacts, TreeHolds
  <2>5. LinkCount(i)' = LinkCount(i) /\ Common({f})' = fs.above[f] /\ Cardinality({f}) = 1
    <3>1. Common({f})' = fs.above[f]
        BY <1>2, <1>3 DEF Common
    <3> QED
        BY <1>2, <3>1, SameCounts, FS_Singleton
  <2>6. \A k \in DOMAIN agg : agg[k].files[i] = 0 /\ i \notin agg[k].private
      BY <2>1, <2>2 DEF InodeInv
  <2>7. CASE LinksOf(i) > 1
    <3>1. agg' = agg /\ i \in DOMAIN links' /\ links'[i] = Link(LinkCount(i), 1, fs.above[f]) /\ i \in seen' /\ LinkCount(i) > 1
        BY <1>2, <2>4, <2>7
    <3>2. i \notin Attributed'
        BY <3>1 DEF Attributed
    <3>3. InodeInv({f}, i)'
        BY <2>5, <2>6, <3>1, <3>2 DEF InodeInv
    <3> QED
        BY <2>3, <3>3
  <2>8. CASE ~(LinksOf(i) > 1)
    <3>1. PICK own : own = {i} /\ own \subseteq {i}
        OBVIOUS
    <3>2. links' = links /\ agg' = AddFile(agg, fs.above[f], i, own) /\ i \in seen' /\ i \notin DOMAIN links'
        BY <1>2, <2>2, <2>8, <3>1
    <3>3. i \in Attributed'
        BY <3>2 DEF Attributed
    <3>4. ASSUME NEW k \in DOMAIN agg'
          PROVE  /\ agg'[k].files[i] = IF k \in fs.above[f] THEN 1 ELSE 0
                 /\ i \in agg'[k].private => k \in fs.above[f]
      <4>1. FileIsAdded(fs.above[f], i, own)
          BY <1>3, <3>1, <3>2, FileAdded
      <4>2. k \in DOMAIN agg /\ agg[k].files[i] = 0 /\ i \notin agg[k].private
          BY <1>4, <2>6
      <4> QED
          BY <1>3, <4>1, <4>2 DEF FileIsAdded
    <3>5. LinkCount(i) <= 1
        BY <2>4, <2>8
    <3>6. PICK of : of = {f}
        OBVIOUS
    <3>7. of # {} /\ Cardinality(of) = 1 /\ Common(of)' = fs.above[f]
        BY <2>5, <3>6
    <3>8. InodeInv(of, i)'
        BY <2>4, <2>5, <3>2, <3>3, <3>4, <3>5, <3>7 DEF InodeInv
    <3> QED
        BY <2>3, <3>6, <3>8
  <2> QED
      BY <2>7, <2>8
<1>7. \A j \in Inodes \ {fs.inode[f]} :
               /\ j \in seen' <=> j \in seen
               /\ j \in DOMAIN links' <=> j \in DOMAIN links
               /\ j \in DOMAIN links => links'[j] = links[j]
               /\ \A k \in DOMAIN agg : agg'[k].files[j] = agg[k].files[j] /\ (j \in agg'[k].private => j \in agg[k].private)
    BY <1>1, <1>5
<1>8. Standing(fs.inode[f]) => InodeInv(Of(D \cup {f}, fs.inode[f]), fs.inode[f])'
    BY <1>1, <1>2, <1>6 DEF InodeInv
<1> QED
    BY <1>2, <1>4, <1>7, <1>8, CountGrows

LEMMA CountYieldsDuplicate ==
    ASSUME InventoryTypes, QueuesInv, FrontierInv, NEW D, CountInv(D), NEW f \in Files, YieldDuplicate(f)
    PROVE  CountInv(D \cup {f})'
<1>1. PICK i : i = fs.inode[f]
    OBVIOUS
<1>2. /\ Yields(f) /\ UNCHANGED <<progress, unopened, open, fs, roots, at, marks, complete, gone, seen>>
      /\ i \in seen /\ progress = "visit" /\ agg' = AddDuplicate(agg, fs.above[f])
      /\ links' = [j \in DOMAIN links |->
                      IF j = i THEN Link(links[j].expected, links[j].observed + 1, links[j].common \cap fs.above[f])
                      ELSE links[j]]
    BY <1>1 DEF YieldDuplicate, Yields, inquiry
<1>3. f \in Reached(Root) /\ f \notin D /\ i \in Inodes /\ fs.above[f] \subseteq Dirs /\ D \subseteq Files
    BY <1>1, <1>2, YieldedFacts DEF CountInv, Reached
<1>4. /\ DOMAIN agg' = DOMAIN agg
      /\ \A k \in DOMAIN agg : agg'[k].files = agg[k].files /\ agg'[k].private = agg[k].private
  <2>1. agg \in [DOMAIN agg -> Metrics]
      BY DEF InventoryTypes
  <2> QED
      BY <1>2, <2>1, RecordFacts
<1>5. ASSUME NEW j \in Inodes \ {i}
      PROVE  /\ j \in seen' <=> j \in seen
             /\ j \in DOMAIN links' <=> j \in DOMAIN links
             /\ j \in DOMAIN links => links'[j] = links[j]
             /\ \A k \in DOMAIN agg : agg'[k].files[j] = agg[k].files[j] /\ (j \in agg'[k].private => j \in agg[k].private)
    BY <1>2, <1>4, <1>5
<1>6. ASSUME Standing(i) PROVE InodeInv(Of(D \cup {f}, i), i)'
  <2>1. PICK of : of = Of(D, i)
      OBVIOUS
  <2>2. InodeInv(of, i) /\ of # {}
      BY <1>2, <1>3, <1>6, <2>1 DEF CountInv, InodeInv
  <2>3. Of(D \cup {f}, i)' = of \cup {f} /\ f \notin of
      BY <1>1, <1>2, <1>3, <2>1 DEF Of
  <2>4. of \cup {f} \subseteq {g \in Files : fs.inode[g] = i}
      BY <1>1, <1>3, <2>1 DEF Of
  <2>5. /\ LinkCount(i) \in Nat /\ IsFiniteSet(of) /\ Cardinality(of) \in Nat
        /\ Cardinality(of \cup {f}) <= LinkCount(i)
      BY <1>3, <2>4, TreeHolds, LinkCountFacts
  <2>6. Cardinality(of \cup {f}) = Cardinality(of) + 1
      BY <2>3, <2>5, FS_AddElement
  <2>7. i \notin Attributed
      BY <1>2, <2>2, <2>5, <2>6 DEF InodeInv
  <2>8. i \in DOMAIN links /\ LinkCount(i) > 1 /\ links[i] = Link(LinkCount(i), Cardinality(of), Common(of))
      BY <1>2, <2>2, <2>7 DEF InodeInv, Attributed
  <2>9. links'[i] = Link(LinkCount(i), Cardinality(of \cup {f}), Common(of) \cap fs.above[f])
    <3>1. /\ links[i].expected = LinkCount(i) /\ links[i].observed = Cardinality(of)
          /\ links[i].common = Common(of)
        BY <2>8 DEF Link
    <3>2. links'[i] = Link(links[i].expected, links[i].observed + 1, links[i].common \cap fs.above[f])
        BY <1>2, <2>8
    <3> QED
        BY <2>6, <3>1, <3>2
  <2>10. LinkCount(i)' = LinkCount(i) /\ Common(of \cup {f})' = Common(of) \cap fs.above[f]
    <3>1. Common(of \cup {f})' = Common(of) \cap fs.above[f]
        BY <1>2, <1>3 DEF Common
    <3> QED
        BY <1>2, <3>1, SameCounts
  <2>11. \A k \in DOMAIN agg' : agg'[k].files[i] = 0 /\ i \notin agg'[k].private
      BY <1>4, <2>2, <2>7 DEF InodeInv
  <2>12. i \in DOMAIN links' /\ i \in seen' /\ i \notin Attributed'
      BY <1>2, <2>8 DEF Attributed
  <2>13. InodeInv(of \cup {f}, i)'
      BY <2>8, <2>9, <2>10, <2>11, <2>12 DEF InodeInv
  <2> QED
      BY <2>3, <2>13
<1>7. \A j \in Inodes \ {fs.inode[f]} :
               /\ j \in seen' <=> j \in seen
               /\ j \in DOMAIN links' <=> j \in DOMAIN links
               /\ j \in DOMAIN links => links'[j] = links[j]
               /\ \A k \in DOMAIN agg : agg'[k].files[j] = agg[k].files[j] /\ (j \in agg'[k].private => j \in agg[k].private)
    BY <1>1, <1>5
<1>8. Standing(fs.inode[f]) => InodeInv(Of(D \cup {f}, fs.inode[f]), fs.inode[f])'
    BY <1>1, <1>2, <1>6 DEF InodeInv
<1> QED
    BY <1>2, <1>4, <1>7, <1>8, CountGrows

LEMMA CountResolves ==
    ASSUME InventoryTypes, QueuesInv, FrontierInv, NEW D, CountInv(D), NEW i \in Inodes, ResolveLink(i)
    PROVE  CountInv(D)'
<1>1. PICK p : p = links[i].common
    OBVIOUS
<1>2. PICK own : own = IF Unresolved(i) THEN {} ELSE {i}
    OBVIOUS
<1>3. /\ progress = "finish" /\ Scanning /\ i \in DOMAIN links /\ own \subseteq {i}
      /\ UNCHANGED <<progress, fs, roots, at, complete, gone, seen>>
      /\ agg' = AddFile(agg, p, i, own)
      /\ links' = [j \in DOMAIN links \ {i} |-> links[j]]
    BY <1>1, <1>2 DEF ResolveLink, Scanning, inquiry
<1>4. /\ \A k \in Dirs : marks[k] \subseteq marks'[k]
      /\ ~complete /\ Unresolved(i) => \A k \in p \cap DOMAIN agg : "UnresolvedHardlinkAttribution" \in marks'[k]
  <2>1. CASE ~complete /\ Unresolved(i)
    <3>1. Mark(agg, p, "UnresolvedHardlinkAttribution")
        BY <1>1, <2>1 DEF ResolveLink
    <3> QED
        BY <3>1, MarkFacts, ReasonsAre
  <2>2. CASE ~(~complete /\ Unresolved(i))
      BY <2>2 DEF ResolveLink
  <2> QED
      BY <2>1, <2>2
<1>5. FileIsAdded(p, i, own) /\ DOMAIN agg' = DOMAIN agg
    BY <1>3, FileAdded DEF FileIsAdded
<1>6. Root' = Root /\ \A e \in Entries : Under(e)' = Under(e)
    BY <1>3, SameTree DEF Root
<1>7. Slots' = Slots
    BY <1>3, StillToCome
<1>8. Reached(Root)' = Reached(Root) /\ D \subseteq Reached(Root) /\ Reached(Root) \subseteq Files
    BY <1>3, <1>6 DEF Reached, Crossed, CountInv
<1>9. ASSUME NEW s \in Slots' PROVE D \cap Under(s[2])' = {}
  <2>1. s \in Slots /\ s[2] \in Entries
      BY <1>7 DEF Slots
  <2> QED
      BY <1>6, <2>1 DEF CountInv
<1>10. ASSUME NEW f \in Reached(Root) \ gone' PROVE f \in D \/ Covered(f)' \/ Lost(f)'
  <2>1. f \in D \/ Covered(f) \/ Lost(f)
      BY <1>3, <1>10 DEF CountInv
  <2>2. Lost(f) => Lost(f)'
    <3>1. Above(f)' = Above(f) /\ Above(f) \subseteq Dirs
        BY <1>3, <1>5 DEF Above, InventoryTypes
    <3> QED
        BY <1>3, <1>4, <3>1 DEF Lost
  <2>3. Covered(f) => Covered(f)'
      BY <1>3, <1>7, StillCovered DEF Covered
  <2> QED
      BY <2>1, <2>2, <2>3
<1>11. ASSUME NEW j \in Inodes, Standing(j)' PROVE InodeInv(Of(D, j), j)'
  <2>1. Standing(j)
      BY <1>3, <1>11 DEF Standing
  <2>2. PICK of : of = Of(D, j)
      OBVIOUS
  <2>3. InodeInv(of, j) /\ Of(D, j)' = of
      BY <1>3, <2>1, <2>2, SameCounts DEF CountInv
  <2>4. CASE j # i
    <3>1. j \in DOMAIN links' <=> j \in DOMAIN links
        BY <1>3, <2>4
    <3>2. j \in DOMAIN links => links'[j] = links[j]
        BY <1>3, <2>4
    <3>3. \A k \in DOMAIN agg : agg'[k].files[j] = agg[k].files[j] /\ (j \in agg'[k].private => j \in agg[k].private)
      <4>1. j \notin own
          BY <1>3, <2>4
      <4> QED
          BY <1>5, <2>4, <4>1 DEF FileIsAdded
    <3>4. InodeInv(of, j)'
        BY <1>3, <1>4, <1>5, <2>3, <3>1, <3>2, <3>3, InodeStays
    <3> QED
        BY <2>3, <3>4
  <2>5. CASE j = i
    <3>1. i \in seen /\ links[i] = Link(LinkCount(i), Cardinality(of), Common(of)) /\ of # {} /\ i \notin Attributed
        BY <1>3, <2>3, <2>5 DEF InodeInv, Attributed
    <3>2. p = Common(of) /\ (Unresolved(i) <=> Cardinality(of) < LinkCount(i))
        BY <1>1, <3>1 DEF Link, Unresolved
    <3>3. \A k \in DOMAIN agg : agg[k].files[i] = 0 /\ i \notin agg[k].private
        BY <2>3, <2>5, <3>1 DEF InodeInv
    <3>4. LinkCount(i)' = LinkCount(i) /\ Common(of)' = Common(of)
        BY <1>3, SameCounts
    <3>5. LinkCount(i) \in Nat /\ Cardinality(of) \in Nat
      <4>1. of \subseteq {g \in Files : fs.inode[g] = i}
          BY <1>8, <2>2, <2>5 DEF Of
      <4> QED
          BY <4>1, TreeHolds, LinkCountFacts
    <3>6. ASSUME NEW k \in DOMAIN agg'
          PROVE  /\ agg'[k].files[i] = IF k \in Common(of) THEN 1 ELSE 0
                 /\ i \in agg'[k].private => k \in Common(of) /\ i \in own
      <4>1. k \in DOMAIN agg /\ agg[k].files[i] = 0 /\ i \notin agg[k].private
          BY <1>5, <3>3
      <4> QED
          BY <1>5, <3>2, <4>1 DEF FileIsAdded
    <3>7. i \in own => LinkCount(i) <= Cardinality(of)
        BY <1>2, <3>2, <3>5
    <3>8. i \notin DOMAIN links' /\ i \in seen' /\ i \in Attributed'
        BY <1>3, <3>1 DEF Attributed
    <3>9. Cardinality(of) < LinkCount(i) =>
              complete' \/ \A k \in Common(of) \cap DOMAIN agg' : "UnresolvedHardlinkAttribution" \in marks'[k]
        BY <1>3, <1>4, <1>5, <3>2
    <3>10. InodeInv(of, i)'
        BY <1>3, <3>1, <3>4, <3>6, <3>7, <3>8, <3>9 DEF InodeInv
    <3> QED
        BY <2>3, <2>5, <3>10
  <2> QED
      BY <2>4, <2>5
<1> QED
    BY <1>8, <1>9, <1>10, <1>11 DEF CountInv


-----------------------------------------------------------------------------
(* The files that were counted, step by step. *)

LEMMA CountStutters ==
    ASSUME InventoryTypes, UNCHANGED inventoryVars, NEW D, CountInv(D)
    PROVE  CountInv(D)' /\ Slots' = Slots
<1>1. /\ UNCHANGED <<fs, roots, at, seen, links, progress, unopened, open, ahead, visit, gone, agg, marks, complete>>
    BY DEF inventoryVars, inquiry, traversal, totals
<1>2. Opened' = Opened
    BY <1>1 DEF Opened
<1>3. Slots' = Slots
    BY <1>1, <1>2 DEF Slots, Entries
<1>4. \A f \in Reached(Root) \ gone' : Covered(f) => Covered(f)'
    BY <1>1, <1>3, StillCovered DEF Covered
<1>5. CountInv(D)'
    BY <1>1, <1>3, <1>4, CountStays
<1> QED
    BY <1>3, <1>5

LEMMA CountStep ==
    ASSUME InventoryTypes, QueuesInv, FrontierInv, TotalsInv, [InventoryNext]_inventoryVars, Scanning'
    PROVE  \E D \in SUBSET Files : CountInv(D)'
<1>1. CASE BeginRoot
    BY <1>1, CountBegins
<1>2. CASE ~BeginRoot
  <2>1. Scanning
      BY <1>2 DEF InventoryNext, Scan, Scanning, FileRoot, RootFails, ExhaustBudget, MayOpen, SkipMount, OpenReader,
          OpenFails, BeginVisit, EndVisit, VisitFails, EndScan, EndRoot, EndRun, Yields, YieldDirectory,
          YieldDuplicate, YieldFile, YieldError, ResolveLink, Unlink, inventoryVars
  <2>2. PICK D \in SUBSET Files : CountInv(D)
      BY <2>1 DEF TotalsInv
  <2>3. CASE \/ ExhaustBudget \/ EndScan \/ BeginVisit \/ SkipMount \/ OpenFails \/ EndVisit \/ VisitFails
             \/ (\E e \in Entries : YieldError(e)) \/ (\E f \in Files : Unlink(f))
      BY <2>1, <2>2, <2>3, CountWalks
  <2>4. CASE OpenReader
      BY <2>2, <2>4, CountOpens
  <2>5. CASE \E e \in Entries : YieldDirectory(e)
      BY <2>2, <2>5, CountYieldsDirectory DEF YieldDirectory
  <2>6. CASE \E e \in Entries : YieldDuplicate(e)
    <3>1. PICK f \in Files : YieldDuplicate(f)
        BY <2>6 DEF YieldDuplicate
    <3>2. CountInv(D \cup {f})'
        BY <2>2, <3>1, CountYieldsDuplicate
    <3> QED
        BY <2>2, <3>2
  <2>7. CASE \E e \in Entries : YieldFile(e)
    <3>1. PICK f \in Files : YieldFile(f)
        BY <2>7 DEF YieldFile
    <3>2. CountInv(D \cup {f})'
        BY <2>2, <3>1, CountYieldsFile
    <3> QED
        BY <2>2, <3>2
  <2>8. CASE \E i \in Inodes : ResolveLink(i)
      BY <2>2, <2>8, CountResolves
  <2>9. CASE FileRoot \/ RootFails \/ EndRoot \/ EndRun
      BY <2>1, <2>9 DEF FileRoot, RootFails, EndRoot, EndRun, Scanning
  <2>10. CASE UNCHANGED inventoryVars
      BY <2>2, <2>10, CountStutters
  <2> QED
      BY <1>2, <2>3, <2>4, <2>5, <2>6, <2>7, <2>8, <2>9, <2>10 DEF InventoryNext, Scan
<1> QED
    BY <1>1, <1>2

\* What the budget leaves in the queues is marked so.
LEMMA ExhaustedIsSpent ==
    ASSUME InventoryTypes, FrontierInv, QueuesInv, ExhaustBudget, NEW f \in Files, Covered(f)
    PROVE  Spent(f)'
<1>1. PICK s \in Slots : f \in Under(s[2])
    BY DEF Covered
<1> DEFINE pending == ToSet(unopened) \cup ToSet(open)
           paths == UNION {fs.above[d] : d \in pending}
<1>2. progress = "fill" /\ Scanning /\ UNCHANGED <<fs, agg>> /\ Mark(agg, paths, "EntryBudgetExhausted")
      /\ complete' = (complete /\ pending = {})
    BY DEF ExhaustBudget, Scanning, inquiry
<1>3. s[1] \in pending
    BY <1>2 DEF Slots, Opened
<1> HIDE DEF pending
<1>4. Above(f) \subseteq fs.above[s[1]]
    BY <1>1, <1>2, RetainedAbove
<1>5. fs.above[s[1]] \subseteq paths
    BY <1>3
<1> HIDE DEF paths
<1>6. \A k \in paths \cap DOMAIN agg : "EntryBudgetExhausted" \in marks'[k]
    BY <1>2, ReasonsAre, MarkFacts
<1>7. Above(f)' = Above(f) /\ Above(f) \subseteq DOMAIN agg
    BY <1>2 DEF Above
<1> QED
    BY <1>2, <1>3, <1>4, <1>5, <1>6, <1>7 DEF Spent

\* What was left so when the scan ended stays so while links are resolved.
LEMMA StaysSpent ==
    ASSUME InventoryTypes, progress = "finish", UNCHANGED fs,
           DOMAIN agg' = DOMAIN agg, complete' = complete, \A k \in Dirs : marks[k] \subseteq marks'[k],
           Slots' = Slots, \A f \in Files : Covered(f) => Spent(f), NEW f \in Files, Covered(f)'
    PROVE  Spent(f)'
<1>1. Covered(f)
    BY SameTree DEF Covered, Slots
<1>2. Above(f)' = Above(f) /\ Above(f) \subseteq Dirs
    BY DEF Above, InventoryTypes
<1> QED
    BY <1>1, <1>2 DEF Spent

LEMMA SpentStep ==
    ASSUME InventoryTypes, QueuesInv, FrontierInv, TotalsInv, [InventoryNext]_inventoryVars, progress' = "finish",
           NEW f \in Files, Covered(f)'
    PROVE  Spent(f)'
<1>1. CASE ExhaustBudget
  <2>1. Slots' = Slots /\ UNCHANGED fs
      BY <1>1, StillToCome DEF ExhaustBudget, Scanning, inquiry
  <2>2. Covered(f)
      BY <2>1, SameTree DEF Covered, Slots
  <2> QED
      BY <1>1, <2>2, ExhaustedIsSpent
<1>2. CASE EndScan
  <2>1. /\ progress = "fill" /\ unopened = <<>> /\ open = <<>>
        /\ UNCHANGED fs /\ Slots' = Slots
      BY <1>2, StillToCome DEF EndScan, Scanning, inquiry
  <2>2. Slots = {}
      BY <2>1 DEF Slots, Opened, ToSet
  <2> QED
      BY <2>1, <2>2 DEF Covered
<1>3. CASE \E i \in Inodes : ResolveLink(i)
  <2>1. PICK i \in Inodes : ResolveLink(i)
      BY <1>3
  <2>2. progress = "finish" /\ Slots' = Slots /\ UNCHANGED fs /\ complete' = complete
      BY <2>1, StillToCome DEF ResolveLink, Scanning, inquiry
  <2>3. \A k \in Dirs : marks[k] \subseteq marks'[k]
    <3>1. CASE ~complete /\ Unresolved(i)
      <4>1. Mark(agg, links[i].common, "UnresolvedHardlinkAttribution")
          BY <2>1, <3>1 DEF ResolveLink
      <4> QED
          BY <4>1, MarkFacts, ReasonsAre
    <3>2. CASE ~(~complete /\ Unresolved(i))
        BY <2>1, <3>2 DEF ResolveLink
    <3> QED
        BY <3>1, <3>2
  <2>4. DOMAIN agg' = DOMAIN agg
    <3>1. PICK own : own = IF Unresolved(i) THEN {} ELSE {i}
        OBVIOUS
    <3>2. agg' = AddFile(agg, links[i].common, i, own) /\ own \subseteq {i} /\ agg \in [DOMAIN agg -> Metrics]
        BY <2>1, <3>1 DEF ResolveLink, InventoryTypes
    <3> QED
        BY <3>2, AddFileTypes
  <2>5. \A g \in Files : Covered(g) => Spent(g)
      BY <2>2 DEF TotalsInv
  <2> QED
      BY <2>2, <2>3, <2>4, <2>5, StaysSpent
<1>4. CASE \E g \in Files : Unlink(g)
  <2>1. progress = "finish" /\ Slots' = Slots /\ UNCHANGED <<fs, agg, complete, marks>>
      BY <1>4, StillToCome DEF Unlink, Scanning, inquiry, totals
  <2>2. \A g \in Files : Covered(g) => Spent(g)
      BY <2>1 DEF TotalsInv
  <2> QED
      BY <2>1, <2>2, StaysSpent
<1>5. CASE UNCHANGED inventoryVars
  <2>1. progress = "finish" /\ UNCHANGED <<fs, agg, complete, marks, unopened, open, ahead, visit>>
      BY <1>5 DEF inventoryVars, inquiry, totals, traversal
  <2>2. Opened' = Opened
      BY <2>1 DEF Opened
  <2>3. Slots' = Slots
      BY <2>1, <2>2 DEF Slots, Entries
  <2>4. \A g \in Files : Covered(g) => Spent(g)
      BY <2>1 DEF TotalsInv
  <2> QED
      BY <2>1, <2>3, <2>4, StaysSpent
<1>6. CASE \/ BeginRoot \/ FileRoot \/ RootFails \/ SkipMount \/ OpenReader \/ OpenFails
           \/ BeginVisit \/ EndVisit \/ VisitFails \/ EndRoot \/ EndRun
           \/ \E e \in Entries : YieldDirectory(e) \/ YieldDuplicate(e) \/ YieldFile(e) \/ YieldError(e)
    BY <1>6 DEF BeginRoot, FileRoot, RootFails, MayOpen, SkipMount, OpenReader, OpenFails, BeginVisit, EndVisit,
        VisitFails, Charge, EndRoot, EndRun, Yields, YieldDirectory, YieldDuplicate, YieldFile, YieldError
<1> QED
    BY <1>1, <1>2, <1>3, <1>4, <1>5, <1>6 DEF InventoryNext, Scan

LEMMA TotalsStep ==
    ASSUME InventoryTypes, QueuesInv, FrontierInv, TotalsInv, [InventoryNext]_inventoryVars
    PROVE  TotalsInv'
BY CountStep, SpentStep DEF TotalsInv

-----------------------------------------------------------------------------
(* The entries that were charged, step by step. *)

LEMMA AllotmentInit == InventoryInit => AllotmentInv
<1> SUFFICES ASSUME InventoryInit PROVE AllotmentInv
    OBVIOUS
<1>1. /\ allowance \in Nat /\ roots \in Seq(Dirs \cup Files) /\ Len(roots) \in Nat
      /\ left = allowance /\ at = 1 /\ ~Scanning
    BY KindsAssumption DEF InventoryInit, Scanning
<1>2. \A n \in Nat \ {0} : \A a \in Nat : (a \div n) * n <= a
  <2> TAKE n \in Nat \ {0}
  <2> TAKE a \in Nat
  <2>1. a = n * (a \div n) + (a % n) /\ a % n \in 0 .. n - 1 /\ a \div n \in Nat
      OBVIOUS
  <2> DEFINE q == a \div n
             r == a % n
  <2> HIDE DEF q, r
  <2>2. n * q = q * n /\ q * n \in Nat
      BY <2>1 DEF q
  <2> QED
      BY <2>1, <2>2 DEF q, r
<1>3. at <= Len(roots) => Len(roots) \in Nat \ {0} /\ Len(roots) - at + 1 = Len(roots)
    BY <1>1
<1> QED
    BY <1>1, <1>2, <1>3 DEF AllotmentInv, Share

\* What a root leaves is enough for the roots after it.
LEMMA RootIsCharged ==
    ASSUME InventoryTypes, AllotmentInv, at <= Len(roots), UNCHANGED <<roots, allowance>>, ~Scanning',
           NEW v \in Nat, v <= CeilDiv(left, Len(roots) - at + 1), left' = left - v, at' = at + 1
    PROVE  AllotmentInv'
<1> DEFINE k == Len(roots) - at + 1
<1>1. /\ k \in Nat \ {0} /\ left \in Nat /\ Share \in Nat /\ Share * k <= left /\ at \in Nat \ {0} /\ Len(roots) \in Nat
  <2>1. roots \in Seq(Dirs \cup Files) /\ allowance \in Nat /\ at \in Nat \ {0} /\ Len(roots) \in Nat
      BY KindsAssumption DEF InventoryTypes
  <2>2. Len(roots) \in Nat \ {0}
      BY <2>1
  <2>3. Share \in Nat
      BY <2>1, <2>2 DEF Share
  <2> QED
      BY <2>1, <2>3 DEF AllotmentInv
<1>2. CeilDiv(left, k) \in Nat /\ CeilDiv(left, k) <= left /\ Share * (k - 1) <= left - v
    BY <1>1, ShareFacts
<1>3. left' \in Nat
    BY <1>1, <1>2
<1>4. Share' = Share /\ Len(roots') - at' + 1 = k - 1
    BY <1>1 DEF Share
<1> QED
    BY <1>2, <1>3, <1>4 DEF AllotmentInv

LEMMA AllotmentStep ==
    ASSUME InventoryTypes, AllotmentInv, [InventoryNext]_inventoryVars
    PROVE  AllotmentInv'
<1>1. CASE BeginRoot
  <2> DEFINE k == Len(roots) - at + 1
  <2>1. /\ k \in Nat \ {0} /\ left \in Nat /\ Share \in Nat /\ Share * k <= left
        /\ UNCHANGED <<roots, allowance, left, at>> /\ budget' = RootBudget(left, k) /\ unspent' = budget'
    <3>1. roots \in Seq(Dirs \cup Files) /\ allowance \in Nat /\ at \in Nat \ {0} /\ Len(roots) \in Nat /\ at <= Len(roots)
        BY <1>1, KindsAssumption DEF InventoryTypes, BeginRoot
    <3>2. Len(roots) \in Nat \ {0}
        BY <3>1
    <3>3. Share \in Nat
        BY <3>1, <3>2 DEF Share
    <3> QED
        BY <1>1, <3>1, <3>3 DEF AllotmentInv, BeginRoot, inquiry
  <2>2. CeilDiv(left, k) \in Nat /\ Share <= CeilDiv(left, k)
    <3>1. 0 \in Nat /\ 0 <= CeilDiv(left, k)
        BY <2>1, CeilDivFacts
    <3> QED
        BY <2>1, <3>1, ShareFacts
  <2>3. RootLimit \in Nat
      BY KindsAssumption
  <2>4. /\ RootBudget(left, k) \in Nat /\ RootBudget(left, k) <= CeilDiv(left, k)
        /\ Least(RootLimit, Share) <= RootBudget(left, k)
      BY <2>1, <2>2, <2>3 DEF RootBudget, Least
  <2>5. Share' = Share /\ (Len(roots) - at + 1)' = k
      BY <2>1 DEF Share
  <2> QED
      BY <2>1, <2>4, <2>5 DEF AllotmentInv
<1>2. CASE FileRoot
  <2> DEFINE b == RootBudget(left, Len(roots) - at + 1)
  <2>1. at <= Len(roots) /\ left \in Nat
      BY <1>2 DEF FileRoot, AllotmentInv
  <2>2. b \in Nat /\ b <= CeilDiv(left, Len(roots) - at + 1)
      BY <2>1, RootBudgetFacts
  <2>3. /\ UNCHANGED <<roots, allowance, progress>> /\ progress = "root" /\ left' = left - Least(b, 1) /\ at' = at + 1
      BY <1>2 DEF FileRoot, inquiry
  <2>4. Least(b, 1) \in Nat /\ Least(b, 1) <= b
      BY <2>2 DEF Least
  <2>5. Least(b, 1) <= CeilDiv(left, Len(roots) - at + 1)
    <3>1. Len(roots) - at + 1 \in Nat \ {0} /\ CeilDiv(left, Len(roots) - at + 1) \in Nat
        BY <2>1, RootBudgetFacts, CeilDivFacts
    <3> HIDE DEF b
    <3> QED
        BY <2>2, <2>4, <3>1
  <2> HIDE DEF b
  <2> QED
      BY <2>1, <2>3, <2>4, <2>5, RootIsCharged DEF Scanning
<1>3. CASE EndRoot
  <2>1. Scanning /\ progress' = "root" /\ UNCHANGED <<roots, allowance>> /\ at' = at + 1 /\ left' = left - (budget - unspent)
      BY <1>3 DEF EndRoot, Scanning, inquiry
  <2>2. at <= Len(roots) /\ left \in Nat /\ unspent \in Nat /\ budget \in Nat /\ unspent <= budget
        /\ budget <= CeilDiv(left, Len(roots) - at + 1)
      BY <2>1 DEF InventoryTypes, AllotmentInv
  <2>3. CeilDiv(left, Len(roots) - at + 1) \in Nat
      BY <2>2, RootBudgetFacts, CeilDivFacts
  <2>4. budget - unspent \in Nat /\ budget - unspent <= CeilDiv(left, Len(roots) - at + 1)
      BY <2>2, <2>3
  <2> QED
      BY <2>1, <2>2, <2>4, RootIsCharged DEF Scanning
<1>4. CASE EndVisit \/ VisitFails
  <2>1. Scanning /\ UNCHANGED <<roots, allowance, left, at, budget>> /\ unspent' = unspent - visit.yielded
      BY <1>4 DEF EndVisit, VisitFails, Charge, Scanning, inquiry
  <2>2. unspent' <= unspent /\ unspent' \in Nat
      BY <1>4, <2>1 DEF EndVisit, VisitFails, InventoryTypes
  <2>3. unspent \in Nat /\ budget \in Nat /\ unspent <= budget
      BY <2>1 DEF InventoryTypes, AllotmentInv
  <2>4. unspent' <= budget
      BY <2>2, <2>3
  <2> QED
      BY <2>1, <2>4 DEF AllotmentInv, Share
<1>5. CASE ~(BeginRoot \/ FileRoot \/ EndRoot \/ EndVisit \/ VisitFails)
  <2>1. UNCHANGED <<roots, allowance, left, at, budget, unspent>> /\ (Scanning' => Scanning)
      BY <1>5 DEF InventoryNext, Scan, Scanning, RootFails, ExhaustBudget, MayOpen, SkipMount, OpenReader,
          OpenFails, BeginVisit, EndScan, EndRun, Yields, YieldDirectory,
          YieldDuplicate, YieldFile, YieldError, ResolveLink, Unlink, inventoryVars, inquiry
  <2> QED
      BY <2>1 DEF AllotmentInv, Share
<1> QED
    BY <1>1, <1>2, <1>3, <1>4, <1>5

\* Charging nothing keeps the tally.
LEMMA TallyStays ==
    ASSUME UNCHANGED <<fs, roots, at>>, NEW E, TallyInv(E), Slots' \subseteq Slots, Charged' = Charged,
           complete' \/ (progress' = "finish" /\ unspent' = 0)
    PROVE  TallyInv(E)'
<1>1. Root' = Root /\ \A e \in Entries : Under(e)' = Under(e)
    BY SameTree DEF Root
<1>2. Countable' = Countable
    BY <1>1 DEF Countable, Beneath, Crossed, Entries
<1>3. \A s \in Slots' : E \cap Under(s[2])' \subseteq {s[1]}
  <2> TAKE s \in Slots'
  <2>1. s \in Slots /\ s[2] \in Entries
      BY DEF Slots
  <2> QED
      BY <1>1, <2>1 DEF TallyInv
<1> QED
    BY <1>2, <1>3 DEF TallyInv

\* What a reader yields was not charged before.
LEMMA YieldIsCharged ==
    ASSUME InventoryTypes, FrontierInv, progress = "visit", NEW e \in Entries, <<visit.dir, e>> \in Slots, e # visit.dir,
           NEW E, TallyInv(E),
           visit' = [visit EXCEPT !.yielded = @ + 1], UNCHANGED <<progress, fs, roots, at, budget, unspent, complete>>,
           \A s \in Slots' : \/ s \in Slots /\ s # <<visit.dir, e>>
                             \/ s = <<e, e>> /\ visit.dir \notin Under(e)
    PROVE  TallyInv(E \cup {e})'
<1> DEFINE v == visit.dir
<1>1. Scanning /\ Tree /\ Root' = Root /\ \A x \in Entries : Under(x)' = Under(x)
    BY SameTree, TreeHolds DEF Scanning, Root
<1>2. PICK t \in Slots : t = <<v, e>>
    OBVIOUS
<1>3. /\ Root \in fs.above[v] /\ Crossed(Root, fs.above[e] \ {e}) = {} /\ fs.above[e] \ {e} = fs.above[v]
  <2>1. t[1] = v /\ t[2] = e
      BY <1>2
  <2> QED
      BY <1>1, <2>1 DEF FrontierInv
<1>4. E \cap Under(e) \subseteq {v} /\ e \in Under(e)
    BY <1>2 DEF TallyInv, Under
<1>5. \A s \in Slots : Under(s[2]) \cap Under(e) # {} => s = t
    BY <1>1, <1>2 DEF FrontierInv
<1>6. Countable' = Countable
    BY <1>1 DEF Countable, Beneath, Crossed, Entries
<1>7. E \cup {e} \subseteq Countable
    BY <1>3 DEF TallyInv, Countable, Beneath
<1>8. ASSUME NEW s \in Slots' PROVE (E \cup {e}) \cap Under(s[2])' \subseteq {s[1]}
  <2>1. s[2] \in Entries
      BY DEF Slots, Entries
  <2>2. CASE s \in Slots /\ s # <<v, e>>
    <3>1. e \notin Under(s[2])
        BY <1>2, <1>4, <1>5, <2>2
    <3>2. E \cap Under(s[2]) \subseteq {s[1]}
        BY <2>2 DEF TallyInv
    <3> QED
        BY <1>1, <2>1, <3>1, <3>2
  <2>3. CASE s = <<e, e>> /\ v \notin Under(e)
    <3>1. s[1] = e /\ s[2] = e
        BY <2>3
    <3> QED
        BY <1>1, <1>4, <2>3, <3>1
  <2> QED
      BY <2>2, <2>3
<1>9. Cardinality(E \cup {e}) = Cardinality(E) + 1
  <2>1. e \notin E
      BY <1>4
  <2>2. IsFiniteSet(Entries) /\ E \subseteq Entries
      BY KindsAssumption, FS_Union DEF TallyInv, Countable, Beneath, Entries
  <2>3. IsFiniteSet(E)
      BY <2>2, FS_Subset
  <2> QED
      BY <2>1, <2>3, FS_AddElement
<1>10. Charged' = Charged + 1
    BY DEF Charged, InventoryTypes
<1> QED
    BY <1>6, <1>7, <1>8, <1>9, <1>10 DEF TallyInv

LEMMA TallyStep ==
    ASSUME InventoryTypes, QueuesInv, FrontierInv, TalliesInv, left \in Nat, [InventoryNext]_inventoryVars
    PROVE  TalliesInv'
<1> SUFFICES ASSUME Scanning', mishaps' = 0 PROVE \E E \in SUBSET Entries : TallyInv(E)'
    BY DEF TalliesInv, Entries
<1>1. CASE BeginRoot
  <2>1. FrontierInv' /\ Slots' = {<<Root, Root>>} /\ Root' = Root
      BY <1>1, FrontierBegins
  <2>2. Cardinality({}) = 0 /\ Charged' = 0 /\ complete'
    <3>1. budget' \in Nat /\ unspent' = budget' /\ progress' = "fill" /\ complete'
      <4>1. InventoryTypes'
          BY TypesStep
      <4> QED
          BY <1>1, <4>1 DEF BeginRoot, InventoryTypes
    <3>2. Charged' = 0
      <4>1. Charged' = budget' - unspent'
          BY <3>1 DEF Charged
      <4>2. PICK b \in Nat : b = budget' /\ b = unspent'
          BY <3>1
      <4>3. b - b = 0
          OBVIOUS
      <4> QED
          BY <4>1, <4>2, <4>3, Zenon
    <3> QED
        BY <3>1, <3>2, FS_EmptySet
  <2>3. TallyInv({})'
      BY <2>1, <2>2 DEF TallyInv
  <2> QED
      BY <2>3
<1>2. CASE ~BeginRoot
  <2>1. Scanning
      BY <1>2 DEF InventoryNext, Scan, Scanning, FileRoot, RootFails, ExhaustBudget, MayOpen, SkipMount, OpenReader,
          OpenFails, BeginVisit, EndVisit, VisitFails, EndScan, EndRoot, EndRun, Yields, YieldDirectory,
          YieldDuplicate, YieldFile, YieldError, ResolveLink, Unlink, inventoryVars
  <2>2. mishaps = 0 /\ gone = {} /\ mishaps \in Nat
    <3>1. mishaps \in Nat /\ (mishaps = 0 => gone = {})
        BY DEF InventoryTypes
    <3>2. mishaps' = mishaps \/ mishaps' = mishaps + 1
        BY DEF InventoryNext, Scan, BeginRoot, FileRoot, RootFails, ExhaustBudget, SkipMount, OpenReader,
            OpenFails, BeginVisit, EndVisit, VisitFails, EndScan, EndRoot, EndRun, YieldDirectory,
            YieldDuplicate, YieldFile, YieldError, ResolveLink, Unlink, inventoryVars
    <3> QED
        BY <3>1, <3>2
  <2>3. PICK E \in SUBSET Entries : TallyInv(E)
      BY <2>1, <2>2 DEF TalliesInv
  <2>4. complete \/ (progress = "finish" /\ unspent = 0)
      BY <2>3 DEF TallyInv
  <2>5. CASE ExhaustBudget
    <3>1. /\ UNCHANGED <<fs, roots, at, budget, unspent>> /\ progress = "fill" /\ progress' = "finish" /\ unspent = 0
          /\ Slots' = Slots
        BY <2>1, <2>5, StillToCome DEF ExhaustBudget, inquiry
    <3>2. Charged' = Charged
        BY <3>1 DEF Charged
    <3> QED
        BY <2>3, <3>1, <3>2, TallyStays
  <2>6. CASE EndScan
    <3>1. UNCHANGED <<fs, roots, at, budget, unspent, complete>> /\ progress = "fill" /\ progress' = "finish" /\ Slots' = Slots
        BY <2>1, <2>6, StillToCome DEF EndScan, inquiry, totals
    <3>2. Charged' = Charged
        BY <3>1 DEF Charged
    <3> QED
        BY <2>3, <2>4, <3>1, <3>2, TallyStays
  <2>7. CASE SkipMount
    <3>1. UNCHANGED <<fs, roots, at, budget, unspent, complete, progress>> /\ progress = "fill" /\ Slots' \subseteq Slots
        BY <2>7, HeadMoves DEF SkipMount, MayOpen, inquiry, totals
    <3>2. Charged' = Charged
        BY <3>1 DEF Charged
    <3> QED
        BY <2>3, <2>4, <3>1, <3>2, TallyStays
  <2>8. CASE OpenReader
    <3> DEFINE h == Head(unopened)
    <3>1. /\ UNCHANGED <<fs, roots, at, budget, unspent, complete, progress>> /\ progress = "fill" /\ MayOpen
          /\ Slots' = (Slots \ {<<h, h>>}) \cup ({h} \X Children(h))
        BY <2>8, OpenReaderMoves DEF OpenReader, MayOpen, inquiry, totals
    <3>2. h \in Dirs /\ <<h, h>> \in Slots /\ Tree
        BY <3>1, HeadToCome, TreeHolds
    <3> HIDE DEF h
    <3>3. Charged' = Charged
        BY <3>1 DEF Charged
    <3>4. Root' = Root /\ \A x \in Entries : Under(x)' = Under(x)
        BY <3>1, SameTree DEF Root
    <3>5. Countable' = Countable
        BY <3>1, <3>4 DEF Countable, Beneath, Crossed, Entries
    <3>6. PICK t \in Slots : t = <<h, h>>
        BY <3>2
    <3>7. E \cap Under(h) \subseteq {h}
      <4>1. t[1] = h /\ t[2] = h
          BY <3>6
      <4> QED
          BY <2>3, <4>1 DEF TallyInv
    <3>8. ASSUME NEW s \in Slots' PROVE E \cap Under(s[2])' \subseteq {s[1]}
      <4>1. CASE s \in Slots
        <5>1. s[2] \in Entries
            BY <4>1 DEF Slots
        <5> QED
            BY <2>3, <3>4, <4>1, <5>1 DEF TallyInv
      <4>2. CASE s \in {h} \X Children(h)
        <5>1. s[1] = h /\ s[2] \in Children(h)
            BY <4>2
        <5>2. s[2] \in Entries /\ Under(s[2]) \subseteq Under(h)
            BY <3>2, <5>1, ChildFacts
        <5> QED
            BY <3>4, <3>7, <5>1, <5>2
      <4> QED
          BY <3>1, <4>1, <4>2
    <3>9. TallyInv(E)'
        BY <2>3, <2>4, <3>1, <3>3, <3>5, <3>8 DEF TallyInv
    <3> QED
        BY <3>9
  <2>9. CASE BeginVisit
    <3>1. /\ UNCHANGED <<fs, roots, at, budget, unspent, complete>> /\ progress = "fill" /\ progress' = "visit"
          /\ visit'.yielded = 0 /\ Slots' = Slots /\ budget \in Nat /\ unspent \in Nat
        BY <2>9, BeginVisitMoves DEF BeginVisit, inquiry, totals, InventoryTypes
    <3>2. Charged' = Charged
        BY <3>1 DEF Charged
    <3> QED
        BY <2>3, <2>4, <3>1, <3>2, TallyStays
  <2>10. CASE EndVisit
    <3>1. /\ UNCHANGED <<fs, roots, at, budget, complete>> /\ progress = "visit" /\ progress' = "fill"
          /\ unspent' = unspent - visit.yielded /\ Slots' \subseteq Slots
        BY <2>10, EndVisitMoves DEF EndVisit, Charge, inquiry, totals
    <3>2. budget \in Nat /\ unspent \in Nat /\ visit.yielded \in Nat
        BY <3>1 DEF InventoryTypes
    <3>3. Charged' = Charged
        BY <3>1, <3>2 DEF Charged
    <3> QED
        BY <2>3, <2>4, <3>1, <3>3, TallyStays
  <2>11. CASE \E i \in Inodes : ResolveLink(i)
    <3>1. UNCHANGED <<fs, roots, at, budget, unspent, complete, progress>> /\ progress = "finish" /\ Slots' = Slots
        BY <2>1, <2>11, StillToCome DEF ResolveLink, inquiry
    <3>2. Charged' = Charged
        BY <3>1 DEF Charged
    <3> QED
        BY <2>3, <2>4, <3>1, <3>2, TallyStays
  <2>12. CASE UNCHANGED inventoryVars
    <3>1. UNCHANGED <<fs, roots, at, budget, unspent, complete, progress, visit, open, unopened, ahead>>
        BY <2>12 DEF inventoryVars, inquiry, totals, traversal
    <3>2. Charged' = Charged /\ Opened' = Opened
        BY <3>1 DEF Charged, Opened
    <3>3. Slots' = Slots
        BY <3>1, <3>2 DEF Slots, Entries
    <3> QED
        BY <2>3, <2>4, <3>1, <3>2, <3>3, TallyStays
  <2>13. CASE \E d \in Entries : YieldDirectory(d)
    <3>1. PICK d \in Dirs : YieldDirectory(d)
        BY <2>13 DEF YieldDirectory
    <3>2. /\ UNCHANGED <<progress, fs, roots, at, budget, unspent, complete>> /\ progress = "visit"
          /\ visit' = [visit EXCEPT !.yielded = @ + 1] /\ d \in Entries
        BY <3>1 DEF YieldDirectory, Yields, inquiry, Entries
    <3>3. /\ <<visit.dir, d>> \in Slots /\ Slots' = (Slots \ {<<visit.dir, d>>}) \cup {<<d, d>>}
          /\ visit.dir \notin Under(d) /\ visit.dir # d
        BY <3>1, YieldDirectoryMoves
    <3>4. TallyInv(E \cup {d})'
        BY <2>3, <3>2, <3>3, YieldIsCharged
    <3> QED
        BY <3>2, <3>4
  <2>14. CASE \E f \in Entries : YieldDuplicate(f) \/ YieldFile(f)
    <3>1. PICK f \in Files : YieldDuplicate(f) \/ YieldFile(f)
        BY <2>14 DEF YieldDuplicate, YieldFile
    <3>2. /\ UNCHANGED <<progress, fs, roots, at, budget, unspent, complete, unopened, open>> /\ progress = "visit"
          /\ visit' = [visit EXCEPT !.yielded = @ + 1] /\ f \in Entries /\ f \in ahead[visit.dir]
          /\ ahead' = [ahead EXCEPT ![visit.dir] = @ \ {f}]
        BY <3>1 DEF YieldDuplicate, YieldFile, Yields, inquiry, Entries
    <3>3. /\ <<visit.dir, f>> \in Slots /\ Slots' = Slots \ {<<visit.dir, f>>} /\ visit.dir \in Dirs
        BY <3>2, YieldMoves
    <3>4. f # visit.dir
        BY <3>3, KindsAssumption
    <3>5. TallyInv(E \cup {f})'
        BY <2>3, <3>2, <3>3, <3>4, YieldIsCharged
    <3> QED
        BY <3>2, <3>5
  <2>15. ~(OpenFails \/ VisitFails \/ (\E e \in Entries : YieldError(e)) \/ (\E f \in Files : Unlink(f)))
      BY <2>2 DEF OpenFails, VisitFails, YieldError, Unlink
  <2>16. ~(FileRoot \/ RootFails \/ EndRoot \/ EndRun)
      BY <2>1 DEF FileRoot, RootFails, EndRoot, EndRun, Scanning
  <2> QED
      BY <1>2, <2>5, <2>6, <2>7, <2>8, <2>9, <2>10, <2>11, <2>12, <2>13, <2>14, <2>15, <2>16 DEF InventoryNext, Scan
<1> QED
    BY <1>1, <1>2

-----------------------------------------------------------------------------
(* The reports. *)

\* A file that was not counted is not missing from anything that is reported complete.
LEMMA MissingIsMarked ==
    ASSUME InventoryTypes, TotalsInv, progress = "finish", NEW D, CountInv(D),
           NEW f \in Reached(Root) \ gone, f \notin D
    PROVE  ~complete /\ \A k \in Above(f) : marks[k] # {}
<1>1. f \in Files /\ (Covered(f) \/ Lost(f))
    BY DEF CountInv, Reached
<1>2. Covered(f) => Spent(f)
    BY <1>1 DEF TotalsInv
<1> QED
    BY <1>1, <1>2 DEF Lost, Spent

LEMMA ReportIsTruthful ==
    ASSUME InventoryTypes, FrontierInv, TotalsInv, progress = "finish", DOMAIN links = {},
           NEW d \in DOMAIN agg, NEW i \in Inodes, Standing(i),
           NEW r, r.root = Root, r.agg = agg, r.marks = marks, r.complete = complete, r.exhausted = exhausted
    PROVE  Truthful(r, d, i)
<1>1. PICK D \in SUBSET Files : CountInv(D)
    BY DEF TotalsInv, Scanning
<1>2. PICK of : of = Of(D, i)
    OBVIOUS
<1>3. InodeInv(of, i) /\ of \subseteq {f \in Files : fs.inode[f] = i}
    BY <1>1, <1>2 DEF CountInv, Of
<1> DEFINE R == {f \in Reached(Root) : fs.inode[f] = i}
<1>4. of \subseteq R /\ d \in Dirs /\ Attributed = seen
    BY <1>1, <1>2 DEF CountInv, Of, Attributed, InventoryTypes
<1>5. ASSUME NEW f \in R \ of
      PROVE  ~complete /\ (d \in fs.above[f] => marks[d] # {})
  <2>1. f \in Reached(Root) \ gone /\ f \notin D
      BY <1>2, <1>5 DEF Of, Standing, Reached
  <2>2. d \in fs.above[f] => d \in Above(f)
      BY DEF Above
  <2> QED
      BY <1>1, <2>1, <2>2, MissingIsMarked
<1>6. Holds(Root, d, i) <=> R # {} /\ \A f \in R : d \in fs.above[f]
    BY DEF Holds
<1>7. PICK truth : truth = IF Holds(Root, d, i) THEN 1 ELSE 0
    OBVIOUS
<1> HIDE DEF R
<1>8. Complete(r, d) => (d = Root => complete) /\ (d # Root => marks[d] = {})
    BY DEF Complete
<1>9. LowerBound(r, d) /\ d # Root => "UnresolvedHardlinkAttribution" \notin marks[d]
    BY DEF LowerBound
<1>10. CASE of = {}
  <2>1. agg[d].files[i] = 0 /\ i \notin agg[d].private
      BY <1>3, <1>4, <1>10 DEF InodeInv
  <2>2. Complete(r, d) => ~Holds(Root, d, i)
      BY <1>5, <1>6, <1>8, <1>10
  <2> QED
      BY <1>7, <2>1, <2>2 DEF Truthful
<1>11. CASE of # {}
  <2>1. /\ agg[d].files[i] = IF d \in Common(of) THEN 1 ELSE 0
        /\ i \in agg[d].private => d \in Common(of) /\ LinkCount(i) <= Cardinality(of)
        /\ Cardinality(of) < LinkCount(i) =>
              complete \/ \A k \in Common(of) \cap DOMAIN agg : "UnresolvedHardlinkAttribution" \in marks[k]
      BY <1>3, <1>4, <1>11 DEF InodeInv
  <2>2. Holds(Root, d, i) => d \in Common(of)
      BY <1>4, <1>6 DEF Common
  <2>3. i \in agg[d].private => LinksOf(i) <= Cardinality({f \in Files : fs.inode[f] = i /\ d \in fs.above[f]})
    <3> DEFINE all == {f \in Files : fs.inode[f] = i}
               held == {f \in Files : fs.inode[f] = i /\ d \in fs.above[f]}
    <3>1. LinksOf(i) = LinkCount(i) /\ LinkCount(i) \in Nat
        BY StandingLinks, TreeHolds, <1>3, LinkCountFacts
    <3>2. d \in Common(of) => of \subseteq held /\ held \subseteq all
        BY <1>3 DEF Common
    <3>3. IsFiniteSet(held) /\ Cardinality(held) \in Nat
        BY TreeHolds, LinkCountFacts
    <3> HIDE DEF all, held
    <3>4. d \in Common(of) => Cardinality(of) <= Cardinality(held) /\ Cardinality(of) \in Nat
        BY <3>2, <3>3, FS_Subset, FS_CardinalityType
    <3> QED
        BY <2>1, <3>1, <3>3, <3>4 DEF held
  <2>4. CASE R \subseteq of
    <3>1. Holds(Root, d, i) <=> d \in Common(of)
        BY <1>4, <1>6, <1>11, <2>4 DEF Common
    <3> QED
        BY <1>7, <2>1, <2>3, <3>1 DEF Truthful
  <2>5. CASE ~(R \subseteq of)
    <3>1. PICK f \in R : f \notin of
        BY <2>5
    <3>2. ~complete
        BY <1>5, <3>1
    <3>3. Cardinality(of) < LinkCount(i)
      <4> DEFINE all == {g \in Files : fs.inode[g] = i}
      <4>1. f \in all /\ of \subseteq all
          BY <1>3, <3>1 DEF R, Reached
      <4>2. IsFiniteSet(all) /\ Cardinality(all) \in Nat /\ Cardinality(all) <= LinkCount(i) /\ LinkCount(i) \in Nat
          BY TreeHolds, LinkCountFacts
      <4> HIDE DEF all
      <4>3. Cardinality(of) \in Nat /\ Cardinality(of) < Cardinality(all)
          BY <3>1, <4>1, <4>2, FS_Subset, FS_CardinalityType
      <4> QED
          BY <4>2, <4>3
    <3>4. d \in Common(of) => "UnresolvedHardlinkAttribution" \in marks[d]
        BY <2>1, <3>2, <3>3
    <3>5. Complete(r, d) => agg[d].files[i] = 0 /\ ~Holds(Root, d, i)
        BY <1>8, <2>1, <2>2, <3>2, <3>4
    <3>6. d = Root => Holds(Root, d, i)
        BY <1>6, <3>1 DEF R, Reached
    <3>7. LowerBound(r, d) => agg[d].files[i] <= truth
        BY <1>7, <1>9, <2>1, <3>4, <3>6
    <3> QED
        BY <1>7, <2>3, <3>5, <3>7 DEF Truthful
  <2> QED
      BY <2>4, <2>5
<1> QED
    BY <1>10, <1>11

\* What a report says stays true of the inodes that nobody unlinks a file of.
LEMMA TruthStays ==
    ASSUME InventoryTypes, UNCHANGED fs, gone \subseteq gone', NEW r, NEW d, NEW i, Standing(i)', Standing(i) => Truthful(r, d, i)
    PROVE  Truthful(r, d, i)'
<1>1. Standing(i)
    BY DEF Standing
<1>2. LinksOf(i)' = LinksOf(i)
  <2>1. LinksOf(i) = LinkCount(i)
      BY <1>1, StandingLinks
  <2>2. {f \in Files \ gone' : fs'.inode[f] = i} = {f \in Files : fs.inode[f] = i}
      BY DEF Standing
  <2> QED
      BY <2>1, <2>2 DEF LinksOf, LinkCount
<1>3. Holds(r.root, d, i)' <=> Holds(r.root, d, i)
    BY DEF Holds, Reached, Crossed
<1> QED
    BY <1>1, <1>2, <1>3 DEF Truthful, Complete, LowerBound

\* The reports so far and the one that is added.
LEMMA ReportAdded ==
    ASSUME reports \in Seq(RootReport), NEW r \in RootReport, reports' = Append(reports, r)
    PROVE  /\ reports' \in Seq(RootReport)
           /\ \A n \in 1 .. Len(reports') : (n \in 1 .. Len(reports) /\ reports'[n] = reports[n]) \/ reports'[n] = r
OBVIOUS

LEMMA ReportStays ==
    ASSUME InventoryTypes, UNCHANGED <<fs, roots, allowance>>, gone \subseteq gone', mishaps' = 0 => mishaps = 0,
           NEW r, TruthfulReport(r), SmallIsComplete(r)
    PROVE  TruthfulReport(r)' /\ SmallIsComplete(r)'
<1>1. ASSUME NEW d \in Dirs \cap DOMAIN r.agg, NEW i \in Inodes, Standing(i)' PROVE Truthful(r, d, i)'
  <2>1. Standing(i) => Truthful(r, d, i)
      BY <1>1 DEF TruthfulReport
  <2> QED
      BY <1>1, <2>1, TruthStays
<1>2. Beneath(r.root)' = Beneath(r.root)
    BY DEF Beneath, Entries
<1>3. SmallIsComplete(r)'
    BY <1>2 DEF SmallIsComplete, Crossed
<1> QED
    BY <1>1, <1>3 DEF TruthfulReport

LEMMA ReportsGrow ==
    ASSUME InventoryTypes, ReportsInv, UNCHANGED <<fs, roots, allowance, gone, mishaps>>,
           NEW r \in RootReport, reports' = Append(reports, r), TruthfulReport(r)', SmallIsComplete(r)'
    PROVE  ReportsInv'
<1>1. /\ reports' \in Seq(RootReport)
      /\ \A n \in 1 .. Len(reports') : (n \in 1 .. Len(reports) /\ reports'[n] = reports[n]) \/ reports'[n] = r
    BY ReportAdded DEF ReportsInv
<1>2. ASSUME NEW n \in 1 .. Len(reports') PROVE TruthfulReport(reports[n])' /\ SmallIsComplete(reports[n])'
  <2>1. PICK s : s = reports'[n]
      OBVIOUS
  <2>2. CASE n \in 1 .. Len(reports) /\ reports'[n] = reports[n]
    <3>1. TruthfulReport(s) /\ SmallIsComplete(s)
        BY <2>1, <2>2 DEF ReportsInv
    <3>2. TruthfulReport(s)' /\ SmallIsComplete(s)'
        BY <3>1, ReportStays
    <3> QED
        BY <2>1, <3>2
  <2>3. CASE reports'[n] = r
      BY <2>3
  <2> QED
      BY <1>1, <2>2, <2>3
<1> QED
    BY <1>1, <1>2 DEF ReportsInv

\* A root with fewer entries than its share never uses its budget up.
LEMMA SmallRootIsReported ==
    ASSUME InventoryTypes, AllotmentInv, TalliesInv, progress = "finish", NEW r, r.root = Root, r.complete = complete
    PROVE  SmallIsComplete(r)
<1> SUFFICES ASSUME mishaps = 0, Cardinality(Countable) < Least(RootLimit, Share), ~complete
             PROVE FALSE
    BY DEF SmallIsComplete, Countable, Share
<1>1. PICK E \in SUBSET Entries : TallyInv(E)
    BY DEF TalliesInv, Scanning
<1>2. unspent = 0 /\ Cardinality(E) = budget /\ budget \in Nat
    BY <1>1 DEF TallyInv, Charged, InventoryTypes
<1>3. IsFiniteSet(Countable)
  <2>1. IsFiniteSet(Entries) /\ Countable \subseteq Entries
      BY KindsAssumption, FS_Union DEF Countable, Beneath, Entries
  <2> QED
      BY <2>1, FS_Subset
<1>4. Cardinality(E) <= Cardinality(Countable) /\ Cardinality(Countable) \in Nat
    BY <1>1, <1>3, FS_Subset, FS_CardinalityType DEF TallyInv
<1>5. Least(RootLimit, Share) <= budget
    BY DEF AllotmentInv, Scanning
<1>6. Least(RootLimit, Share) \in Nat
  <2>1. allowance \in Nat /\ Len(roots) \in Nat \ {0} /\ RootLimit \in Nat
    <3>1. allowance \in Nat /\ roots \in Seq(Dirs \cup Files) /\ at \in Nat \ {0} /\ at <= Len(roots) /\ RootLimit \in Nat
        BY KindsAssumption DEF InventoryTypes, Scanning
    <3> QED
        BY <3>1
  <2> QED
      BY <2>1 DEF Share, Least
<1> QED
    BY <1>2, <1>4, <1>5, <1>6

LEMMA ReportsAtEndRoot ==
    ASSUME InventoryTypes, AllotmentInv, FrontierInv, TotalsInv, TalliesInv, ReportsInv, EndRoot
    PROVE  ReportsInv'
<1>1. PICK r : r = Report(agg, marks, complete, exhausted, budget - unspent, budget)
    OBVIOUS
<1>2. /\ progress = "finish" /\ DOMAIN links = {} /\ reports' = Append(reports, r)
      /\ UNCHANGED <<fs, roots, allowance, gone, mishaps>>
    BY <1>1 DEF EndRoot, inquiry
<1>3. /\ r.root = Root /\ r.agg = agg /\ r.marks = marks /\ r.complete = complete /\ r.exhausted = exhausted
      /\ r \in RootReport
  <2>1. Root \in Entries /\ agg \in [DOMAIN agg -> Metrics] /\ DOMAIN agg \subseteq Entries
      BY <1>2 DEF InventoryTypes, Scanning, Entries
  <2>2. budget \in Nat /\ budget - unspent \in Nat /\ complete \in BOOLEAN /\ exhausted \in BOOLEAN /\ marks \in [Dirs -> SUBSET Reasons]
    <3>1. budget \in Nat /\ unspent \in Nat /\ unspent <= budget
        BY <1>2 DEF InventoryTypes, AllotmentInv, Scanning
    <3> QED
        BY <3>1 DEF InventoryTypes
  <2>3. agg \in UNION {[K -> Metrics] : K \in SUBSET Entries}
      BY <2>1
  <2> QED
      BY <1>1, <2>1, <2>2, <2>3 DEF Report, RootReport
<1>4. TruthfulReport(r)
    BY <1>2, <1>3, ReportIsTruthful DEF TruthfulReport
<1>5. SmallIsComplete(r)
    BY <1>2, <1>3, SmallRootIsReported
<1>6. TruthfulReport(r)' /\ SmallIsComplete(r)'
    BY <1>2, <1>4, <1>5, ReportStays
<1> QED
    BY <1>2, <1>3, <1>6, ReportsGrow

\* The report of a file root says nothing of a directory.
LEMMA ReportsAtFileRoot ==
    ASSUME InventoryTypes, AllotmentInv, ReportsInv, FileRoot
    PROVE  ReportsInv'
<1> DEFINE b == RootBudget(left, Len(roots) - at + 1)
           i == fs.inode[Root]
           m == IF b = 0 THEN Zero
                ELSE [Zero EXCEPT !.files[i] = 1, !.private = IF LinksOf(i) > 1 THEN {} ELSE {i}]
<1>1. PICK r : r = Report([k \in {Root} |-> m], marks, b > 0, b = 0, Least(b, 1), b)
    OBVIOUS
<1>2. /\ reports' = Append(reports, r) /\ UNCHANGED <<fs, roots, allowance, gone, mishaps>>
      /\ Root \in Files /\ at <= Len(roots) /\ left \in Nat
    BY <1>1 DEF FileRoot, inquiry, AllotmentInv
<1>3. b \in Nat /\ Least(b, 1) \in Nat
  <2>1. b \in Nat
      BY <1>2, RootBudgetFacts
  <2> QED
      BY <2>1 DEF Least
<1>4. m \in Metrics
  <2>1. i \in Inodes
      BY <1>2, TreeHolds DEF Tree
  <2>2. Zero \in Metrics
      BY DEF Zero, Metrics
  <2> QED
      BY <2>1, <2>2 DEF Zero, Metrics
<1> HIDE DEF b, m
<1>5. PICK a : a = [k \in {Root} |-> m]
    OBVIOUS
<1>6. DOMAIN a = {Root} /\ a \in UNION {[K -> Metrics] : K \in SUBSET Entries}
  <2>1. a \in [{Root} -> Metrics] /\ {Root} \in SUBSET Entries
      BY <1>2, <1>4, <1>5 DEF Entries
  <2> QED
      BY <1>5, <2>1
<1>7. r.root = Root /\ r.agg = a
    BY <1>1, <1>5 DEF Report
<1>8. r \in RootReport
  <2>1. Root \in Entries /\ marks \in [Dirs -> SUBSET Reasons] /\ (b > 0) \in BOOLEAN /\ (b = 0) \in BOOLEAN
      BY <1>2 DEF InventoryTypes, Entries
  <2> QED
      BY <1>1, <1>3, <1>5, <1>6, <2>1 DEF Report, RootReport
<1>9. Root \notin Dirs
    BY <1>2, KindsAssumption
<1>10. TruthfulReport(r) /\ SmallIsComplete(r)
    BY <1>6, <1>7, <1>9 DEF TruthfulReport, SmallIsComplete
<1>11. TruthfulReport(r)' /\ SmallIsComplete(r)'
    BY <1>2, <1>10, ReportStays
<1> QED
    BY <1>2, <1>8, <1>11, ReportsGrow

LEMMA ReportsStep ==
    ASSUME InventoryTypes, AllotmentInv, FrontierInv, TotalsInv, TalliesInv, ReportsInv, [InventoryNext]_inventoryVars
    PROVE  ReportsInv'
<1>1. CASE ~(EndRoot \/ FileRoot)
  <2>1. UNCHANGED <<fs, roots, allowance, reports>>
      BY <1>1 DEF InventoryNext, Scan, BeginRoot, RootFails, ExhaustBudget, SkipMount, OpenReader, OpenFails,
          BeginVisit, EndVisit, VisitFails, EndScan, EndRun, YieldDirectory, YieldDuplicate, YieldFile, YieldError,
          ResolveLink, Unlink, inventoryVars, inquiry
  <2>2. gone \subseteq gone' /\ (mishaps' = mishaps \/ mishaps' = mishaps + 1)
      BY <1>1 DEF InventoryNext, Scan, BeginRoot, RootFails, ExhaustBudget, SkipMount, OpenReader, OpenFails,
          BeginVisit, EndVisit, VisitFails, EndScan, EndRun, YieldDirectory, YieldDuplicate, YieldFile, YieldError,
          ResolveLink, Unlink, inventoryVars
  <2>3. mishaps' = 0 => mishaps = 0
    <3>1. mishaps \in Nat
        BY DEF InventoryTypes
    <3> QED
        BY <2>2, <3>1
  <2>4. ASSUME NEW n \in 1 .. Len(reports') PROVE TruthfulReport(reports[n])' /\ SmallIsComplete(reports[n])'
    <3>1. PICK s : s = reports[n]
        OBVIOUS
    <3>2. TruthfulReport(s) /\ SmallIsComplete(s)
        BY <2>1, <2>4, <3>1 DEF ReportsInv
    <3>3. TruthfulReport(s)' /\ SmallIsComplete(s)'
        BY <2>1, <2>2, <2>3, <3>2, ReportStays
    <3> QED
        BY <2>1, <3>1, <3>3
  <2> QED
      BY <2>1, <2>4 DEF ReportsInv
<1> QED
    BY <1>1, ReportsAtEndRoot, ReportsAtFileRoot

LEMMA InventoryInvStep == InventoryInv /\ [InventoryNext]_inventoryVars => InventoryInv'
<1> SUFFICES ASSUME InventoryInv, [InventoryNext]_inventoryVars PROVE InventoryInv'
    OBVIOUS
<1>1. left \in Nat
    BY DEF InventoryInv, AllotmentInv
<1>2. InventoryTypes' /\ AllotmentInv'
    BY <1>1, TypesStep, AllotmentStep DEF InventoryInv
<1>3. QueuesInv' /\ FrontierInv' /\ TotalsInv' /\ TalliesInv'
    BY <1>1, FrontierStep, TotalsStep, TallyStep DEF InventoryInv
<1>4. ReportsInv'
    BY ReportsStep DEF InventoryInv
<1> QED
    BY <1>2, <1>3, <1>4 DEF InventoryInv

LEMMA InventoryInvHolds == InventorySpec => []InventoryInv
<1>1. InventoryInit => InventoryInv
  <2> SUFFICES ASSUME InventoryInit PROVE InventoryInv
      OBVIOUS
  <2>1. ~Scanning /\ progress = "root" /\ reports = <<>>
      BY DEF InventoryInit, Scanning
  <2>2. QueuesInv /\ FrontierInv /\ TotalsInv /\ TalliesInv
      BY <2>1 DEF QueuesInv, FrontierInv, TotalsInv, TalliesInv
  <2>3. ReportsInv
      BY <2>1 DEF ReportsInv
  <2> QED
      BY <2>2, <2>3, InitTypes, AllotmentInit DEF InventoryInv
<1> QED
    BY <1>1, InventoryInvStep, PTL DEF InventorySpec

\* For every file system, sequence of roots, budget and number of failures: what a
\* report says is complete counts every file below a retained directory once, what it
\* labels a lower bound counts nothing it should not, and no private byte has a link
\* elsewhere (resolve_hardlinks and the queues of scan_root in inventory.rs).
THEOREM InventoryTotals == InventorySpec => []TotalsMeanWhatTheySay
<1>1. InventoryInv => TotalsMeanWhatTheySay
    BY DEF InventoryInv, ReportsInv, TruthfulReport, TotalsMeanWhatTheySay
<1> QED
    BY <1>1, InventoryInvHolds, PTL

\* A root with fewer entries than its even share of the budget is reported complete
\* when nothing fails, wherever it stands among the roots (the outer loop of
\* scan_roots and the visit budget in inventory.rs).
THEOREM SmallRoots == InventorySpec => []SmallRootsAreComplete
<1>1. InventoryInv => SmallRootsAreComplete
    BY DEF InventoryInv, ReportsInv, SmallIsComplete, SmallRootsAreComplete
<1> QED
    BY <1>1, InventoryInvHolds, PTL
=============================================================================
