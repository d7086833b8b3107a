------------------------------ MODULE Generated ------------------------------
(***************************************************************************)
(* The collector of generated directories (src/src/generated.rs): a run    *)
(* discovers repositories below the requested roots under an entry budget, *)
(* classifies their generated directories, measures each with a bounded    *)
(* inventory, and writes a manifest that a later run may resume from.      *)
(*                                                                         *)
(* Directories are numbered in the order of their paths. The inventory of  *)
(* a directory (module Inventory) is abstracted to the entries it visits:  *)
(* it is complete when its budget reaches the directory's size.            *)
(***************************************************************************)
EXTENDS Naturals, Sequences, FiniteSets, FiniteSetsExt, SequencesExt, Budgets

CONSTANTS
    Artifacts,       \* generated directories: numbers, in path order
    RepoOf,          \* the repository each belongs to
    Requests,        \* sequences of requested roots, sorted
    Walk,            \* what the walk of a root yields: "plain", "broken" or a repository
    Worlds,          \* the sizes the directories may have at first
    Sizes,           \* the sizes they may take
    MaxEntries, PerArtifact,            \* --max-entries, --max-entries-per-artifact
    MaxDiscovery, PerRootDiscovery,     \* the discovery budgets
    MaxTrouble, AttemptCap              \* bounds: changes and failures, attempts counted

ASSUME ArtifactsAssumption ==
    IsFiniteSet(Artifacts) /\ \A a \in Artifacts : RepoOf[a] \notin {"plain", "broken"}
ASSUME WalkAssumption ==
    /\ \A request \in Requests : request \in Seq(DOMAIN Walk)
    /\ \A r \in DOMAIN Walk : Walk[r] \in Seq(ToSet(Walk[r]))
ASSUME SizesAssumption == Worlds \subseteq [Artifacts -> Nat] /\ Sizes \subseteq Nat
ASSUME BudgetsAssumption == {MaxEntries, PerArtifact, MaxDiscovery, PerRootDiscovery} \subseteq Nat

VARIABLES
    size, stamp, gen,   \* of each directory: entries, sampled activity, identity
    touched,            \* directories changed since the run began
    asked,              \* the requested roots
    phase,
    found,              \* discovery: per root, the repositories and completeness
    failed,             \* repositories whose classification failed
    unowned,            \* directories without complete ownership evidence
    looked,             \* identity and activity as the run first saw them
    artifacts,          \* the measurements of the run
    todo, remaining,    \* targets not yet measured; entries left
    prefer,             \* prefer_completion
    manifest,           \* the last manifest written, or none
    trouble

world == <<size, stamp, gen>>
plan == <<found, failed, unowned, looked, prefer>>
vars == <<world, touched, asked, phase, plan, artifacts, todo, remaining, manifest, trouble>>

None == 0 \* no identity, no manifest

Pending == [source |-> "Pending", identity |-> None, stamp |-> 0, attempts |-> 0,
            complete |-> FALSE, visited |-> 0, hint |-> 0]

NoManifest == [written |-> FALSE, artifacts |-> <<>>, roots |-> <<>>, complete |-> FALSE]

-----------------------------------------------------------------------------
(* Discovery *)

\* Mutant: a walk that was cut short is taken for the whole.
NeverCut(r, b) ==
    LET met == {Walk[r][k] : k \in 1 .. Least(b, Len(Walk[r]))}
    IN [root |-> r, repos |-> met \ {"plain", "broken"}, visited |-> Least(b, Len(Walk[r])),
        complete |-> "broken" \notin met]

\* What discover_one_root finds of root r within b entries.
Discovery(r, b) ==
    LET n == Least(b, Len(Walk[r]))
        met == {Walk[r][k] : k \in 1 .. n}
    IN [root |-> r, repos |-> met \ {"plain", "broken"}, visited |-> n,
        complete |-> b > 0 /\ Len(Walk[r]) <= b /\ "broken" \notin met]

\* Each root gets a fair share of what those before it left, and no more than
\* the cap.
DiscoverRoot(request, k, before) ==
    LET one == Discovery(request[k],
                         Least(CeilDiv(before.left, Len(request) - k + 1), PerRootDiscovery))
    IN [left |-> before.left - one.visited, roots |-> Append(before.roots, one)]

Discovered(request) ==
    LET D[k \in 0 .. Len(request)] ==
            IF k = 0 THEN [left |-> MaxDiscovery, roots |-> <<>>] ELSE DiscoverRoot(request, k, D[k - 1])
    IN D[Len(request)].roots

Repositories(f) == UNION {f[k].repos : k \in DOMAIN f}

-----------------------------------------------------------------------------
(* Measurements *)

\* measurement_is_complete; a failed measurement is never complete.
IsComplete(m) == m.complete

\* Mutant: whatever the last manifest says is taken over.
CarriedWhole(a) == manifest.written /\ a \in DOMAIN manifest.artifacts /\ manifest.artifacts[a].identity = gen[a]

\* An incomplete measurement is carried while the directory is the same one and
\* its sampled activity has not moved; a complete one never is.
Carried(a) ==
    /\ manifest.written /\ a \in DOMAIN manifest.artifacts
    /\ LET prior == manifest.artifacts[a] IN
       /\ prior.identity # None /\ prior.identity = gen[a]
       /\ prior.stamp = stamp[a]
       /\ ~IsComplete(prior)

Seeded(a, resume) ==
    IF resume /\ Carried(a) THEN [manifest.artifacts[a] EXCEPT !.source = "PriorManifest"] ELSE Pending

InitWith(w, request) ==
    /\ size = w /\ stamp = [a \in Artifacts |-> 0] /\ gen = [a \in Artifacts |-> 1]
    /\ touched = {} /\ asked = request /\ phase = "idle"
    /\ found = <<>> /\ failed = {} /\ unowned = {} /\ looked = [id |-> gen, stamp |-> stamp] /\ artifacts = <<>>
    /\ todo = {} /\ remaining = 0 /\ prefer = FALSE
    /\ manifest = NoManifest /\ trouble = 0

Init == \E w \in Worlds, request \in Requests : InitWith(w, request)

\* A run discovers, classifies and seeds; classification may fail for some
\* repositories, and ownership evidence be missing for some directories.
BeginRun(resume, bad, blind) ==
    /\ phase = "idle"
    /\ resume => manifest.written
    /\ trouble + Cardinality(bad) + Cardinality(blind) <= MaxTrouble
    /\ trouble' = trouble + Cardinality(bad) + Cardinality(blind)
    /\ found' = Discovered(asked)
    /\ bad \subseteq Repositories(found') /\ failed' = bad
    /\ LET listed == {a \in Artifacts : RepoOf[a] \in Repositories(found') \ bad}
           seeded == [a \in listed |-> Seeded(a, resume)]
       IN /\ blind \subseteq listed /\ unowned' = blind
          /\ artifacts' = seeded
          /\ todo' = {a \in listed : ~IsComplete(seeded[a])}
          /\ prefer' = (\E a \in listed : seeded[a].source = "PriorManifest")
    /\ looked' = [id |-> gen, stamp |-> stamp]
    /\ remaining' = MaxEntries
    /\ touched' = {}
    /\ phase' = "measure"
    /\ UNCHANGED <<world, asked, manifest>>

\* The order of completion runs: fewest attempts, hints before others, the
\* largest hint first; otherwise, and for ties, by path.
Before(a, b) ==
    LET m == artifacts[a]
        n == artifacts[b]
        fresh(x) == IF x.source = "PriorManifest" THEN 0 ELSE 1
    IN CASE prefer /\ m.attempts # n.attempts   -> m.attempts < n.attempts
         [] prefer /\ fresh(m) # fresh(n)       -> fresh(m) < fresh(n)
         [] prefer /\ m.hint # n.hint           -> m.hint > n.hint
         [] OTHER                               -> a < b

IsNext(a) == a \in todo /\ \A b \in todo \ {a} : Before(a, b)

Budget == Least(PerArtifact, IF prefer THEN remaining ELSE CeilDiv(remaining, Cardinality(todo)))

\* No budget: the measurement fails and keeps what it was seeded with.
OutOfBudget(a) ==
    /\ phase = "measure" /\ IsNext(a) /\ Budget = 0
    /\ todo' = todo \ {a}
    /\ UNCHANGED <<world, touched, asked, phase, plan, artifacts, remaining, manifest, trouble>>

\* The directory has vanished or left its worktree, which is noticed before the
\* first inventory or by its own: the same.
CannotMeasure(a) ==
    /\ phase = "measure" /\ a \in todo /\ trouble < MaxTrouble
    /\ remaining = MaxEntries \/ IsNext(a)
    /\ todo' = todo \ {a}
    /\ trouble' = trouble + 1
    /\ UNCHANGED <<world, touched, asked, phase, plan, artifacts, remaining, manifest>>

\* A bounded inventory; `fine` says whether it met no scan error, and
\* `pending` whether a directory is left to open when the budget is used up.
Measure(a, fine, pending) ==
    /\ phase = "measure" /\ IsNext(a) /\ Budget > 0
    /\ fine \/ trouble < MaxTrouble
    /\ trouble' = IF fine THEN trouble ELSE trouble + 1
    /\ LET n == Least(Budget, size[a]) IN
       /\ artifacts' = [artifacts EXCEPT ![a] =
              [source |-> "CurrentRun", identity |-> looked.id[a], stamp |-> looked.stamp[a],
               attempts |-> IF prefer THEN Least(@.attempts + 1, AttemptCap) ELSE @.attempts,
               complete |-> fine /\ Finishes(size[a], Budget, pending), visited |-> n, hint |-> n]]
       /\ remaining' = remaining - n
    /\ todo' = todo \ {a}
    /\ UNCHANGED <<world, touched, asked, phase, plan, manifest>>

-----------------------------------------------------------------------------
(* The manifest *)

RootCoverage(d) ==
    LET mine == {a \in DOMAIN artifacts : RepoOf[a] \in d.repos}
        owned == d.repos \cap failed = {} /\ mine \cap unowned = {}
    IN [root |-> d.root,
        complete |-> d.complete /\ owned /\ \A a \in mine : IsComplete(artifacts[a]),
        artifacts |-> mine]

FinishRun ==
    /\ phase = "measure" /\ todo = {}
    /\ manifest' =
         [written |-> TRUE, artifacts |-> artifacts,
          roots |-> [k \in DOMAIN found |-> RootCoverage(found[k])],
          complete |-> /\ \A k \in DOMAIN found : found[k].complete
                       /\ failed = {} /\ unowned = {}
                       /\ \A a \in DOMAIN artifacts : IsComplete(artifacts[a])]
    /\ phase' = "idle"
    /\ UNCHANGED <<world, touched, asked, plan, artifacts, todo, remaining, trouble>>

-----------------------------------------------------------------------------
(* Builds: a change below the sampled depth moves no stamp; a directory that is
   deleted and rebuilt is another one. *)
Change(a, n, shallow, rebuilt) ==
    /\ trouble < MaxTrouble /\ n # size[a] /\ (rebuilt => shallow)
    /\ size' = [size EXCEPT ![a] = n]
    /\ stamp' = IF shallow THEN [stamp EXCEPT ![a] = @ + 1] ELSE stamp
    /\ gen' = IF rebuilt THEN [gen EXCEPT ![a] = @ + 1] ELSE gen
    /\ touched' = touched \cup {a}
    /\ trouble' = trouble + 1
    /\ UNCHANGED <<asked, phase, plan, artifacts, todo, remaining, manifest>>

Run ==
    \/ \E resume \in BOOLEAN, bad \in SUBSET Range(RepoOf), blind \in SUBSET Artifacts : BeginRun(resume, bad, blind)
    \/ \E a \in Artifacts : OutOfBudget(a) \/ CannotMeasure(a) \/ \E fine, pending \in BOOLEAN : Measure(a, fine, pending)
    \/ FinishRun

Builds == \E a \in Artifacts, n \in Sizes, shallow, rebuilt \in BOOLEAN : Change(a, n, shallow, rebuilt)

Next == Run \/ Builds
Spec == Init /\ [][Next]_vars

-----------------------------------------------------------------------------
(* Properties *)

\* A measurement that a manifest calls complete was made by its own run and
\* covers the directory as it is, unless it was changed since that run began;
\* a hint of an earlier run is never passed off as a measurement. (README:
\* "Complete observations are measured again because a bounded activity sample
\* cannot prove that every deep descendant is unchanged".)
CompleteIsCurrent ==
    \A a \in DOMAIN manifest.artifacts :
        manifest.artifacts[a].complete /\ phase = "idle" =>
            /\ manifest.artifacts[a].source = "CurrentRun"
            /\ a \in touched \/ manifest.artifacts[a].visited = size[a]

\* A root reported as complete hides no generated directory of a repository
\* below it, whatever another root used of the budgets and wherever discovery,
\* classification, ownership or measurement failed.
CompleteRootsHideNothing ==
    phase = "idle" => \A k \in DOMAIN manifest.roots :
        manifest.roots[k].complete => \A a \in Artifacts :
            RepoOf[a] \in ToSet(Walk[manifest.roots[k].root]) =>
                /\ a \in manifest.roots[k].artifacts \ unowned
                /\ a \in touched \/ manifest.artifacts[a].visited = size[a]
=============================================================================
