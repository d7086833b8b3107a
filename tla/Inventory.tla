------------------------------ MODULE Inventory ------------------------------
(***************************************************************************)
(* The storage inventory (src/src/inventory.rs): one bounded, resumable    *)
(* traversal per requested root, which divides the entry budget among      *)
(* roots and among the directories of a root, attributes a hard-linked     *)
(* file to the deepest directory that holds all its links, and says of     *)
(* each retained directory whether its totals are complete.                *)
(*                                                                         *)
(* A file system is a record:                                              *)
(*   above   the directories on the way from a root to a path, the path    *)
(*           itself included when it is a directory                        *)
(*   inode   the inode of each file                                        *)
(*   outside the number of links an inode has beneath no root              *)
(*   mounts  the directories where another file system begins              *)
(* Sizes are abstracted to the set of inodes that were added: logical and  *)
(* allocated bytes are sums over `files`, private bytes over `private`.    *)
(***************************************************************************)
EXTENDS Naturals, Sequences, FiniteSets, SequencesExt, Budgets

CONSTANTS
    Dirs, Files, Inodes,    \* paths of directories and files; inodes
    FileSystems,            \* the file systems a run may meet
    Roots,                  \* the sequences of roots a run may be asked for
    Budgets,                \* the values --max-entries may take
    RootLimit,              \* max_entries_per_root, larger than any budget if absent
    DisplayDepth,           \* --depth
    MaxReaders,             \* MAX_OPEN_DIRECTORY_READERS
    MaxMishaps              \* bound: failing reads and vanishing files of a run

ASSUME KindsAssumption ==
    /\ IsFiniteSet(Dirs) /\ IsFiniteSet(Files) /\ Dirs \cap Files = {}
    /\ \A requested \in Roots : requested \in Seq(Dirs \cup Files)
    /\ Budgets \subseteq Nat /\ RootLimit \in Nat
\* The directories on the way to a path lie one in the other.
ASSUME FileSystemAssumption ==
    \A s \in FileSystems :
        /\ s.above \in [Dirs \cup Files -> SUBSET Dirs] /\ s.mounts \subseteq Dirs
        /\ s.inode \in [Files -> Inodes] /\ s.outside \in [Inodes -> Nat]
        /\ \A d \in Dirs : d \in s.above[d]
        /\ \A e \in Dirs \cup Files : \A c, d \in s.above[e] :
               s.above[d] \subseteq s.above[e] /\ (c \in s.above[d] \/ d \in s.above[c])
        /\ \A c, d \in Dirs : c \in s.above[d] /\ d \in s.above[c] => c = d

VARIABLES
    fs,          \* the file system
    gone,        \* the files unlinked since the run began
    roots, allowance, \* the request: its roots, and max_entries
    progress, at,     \* what the scanner does; the index of its root
    left,        \* remaining_entries of the whole run
    budget,      \* what the root was given
    unspent,     \* what is left of that (remaining)
    unopened,    \* queue of directories without a reader
    open,        \* queue of directories with one
    ahead,       \* the entries a directory's reader has not yielded yet
    visit,       \* the visit under way: directory, slice, entries yielded
    seen,        \* seen_files
    links,       \* pending_hardlinks
    agg,         \* aggregates: metrics of the retained directories
    marks,       \* incomplete_aggregates
    complete, exhausted,
    reports,     \* the roots already reported
    mishaps      \* failures and unlinks so far

inquiry == <<fs, roots, allowance>>
traversal == <<unopened, open, ahead, visit>>
totals == <<seen, links, agg, marks, complete, exhausted>>
inventoryVars == <<inquiry, gone, progress, at, left, budget, unspent, traversal, totals, reports, mishaps>>

Reasons == {"EntryBudgetExhausted", "ScanErrors", "UnresolvedHardlinkAttribution"}
NoVisit == [dir |-> "none", slice |-> 0, yielded |-> 0]
Zero == [files |-> [i \in Inodes |-> 0], private |-> {}, dirs |-> 0, dups |-> 0, errors |-> 0]
NoTree == <<>> \* the empty function

\* A file that waits for its other links (PendingHardlink).
Link(expected, observed, common) == [expected |-> expected, observed |-> observed, common |-> common]

Root == roots[at]

Entries == Dirs \cup Files
Beneath(d) == {e \in Entries \ {d} : d \in fs.above[e]}
\* The entries a reader of d yields: directly in d, and not unlinked.
Children(d) == {e \in Beneath(d) \ gone : \A c \in Beneath(d) : c # e => c \notin fs.above[e]}
\* The other file systems entered on the way from a root; how far it is.
Crossed(root, path) == fs.mounts \cap (path \ fs.above[root])
Foreign(d) == Crossed(Root, fs.above[d]) # {}
Depth(d) == Cardinality(fs.above[d] \ fs.above[Root])
LinksOf(i) == fs.outside[i] + Cardinality({f \in Files \ gone : fs.inode[f] = i})

-----------------------------------------------------------------------------
(* Aggregates *)

\* aggregate_keys, for the path whose ancestors are `path`.
Keys(path, a) == path \cap DOMAIN a

Add(a, path, m(_)) == [d \in DOMAIN a |-> IF d \in path THEN m(a[d]) ELSE a[d]]

Widened(a, d) ==
    IF Depth(d) <= DisplayDepth /\ d \notin DOMAIN a
    THEN [k \in DOMAIN a \cup {d} |-> IF k = d THEN Zero ELSE a[k]] ELSE a

AddDirectory(a, d) ==
    LET one(r) == [r EXCEPT !.dirs = @ + 1] IN Add(Widened(a, d), fs.above[d], one)

\* add_file; `private` is {i} or {}.
AddFile(a, path, i, private) ==
    LET one(r) == [r EXCEPT !.files[i] = @ + 1]
        own(r) == [r EXCEPT !.private = @ \cup private]
    IN Add(Add(a, path, one), path, own)

AddDuplicate(a, path) == LET one(r) == [r EXCEPT !.dups = @ + 1] IN Add(a, path, one)
RecordError(a, path) == LET one(r) == [r EXCEPT !.errors = @ + 1] IN Add(a, path, one)

Mark(a, path, reason) ==
    marks' = [d \in Dirs |-> IF d \in Keys(path, a) THEN marks[d] \cup {reason} ELSE marks[d]]

ScanError(path) ==
    /\ agg' = RecordError(agg, path)
    /\ Mark(agg, path, "ScanErrors")
    /\ complete' = FALSE

-----------------------------------------------------------------------------
(* Budgets *)

\* Mutants: the first root takes all; a share is rounded down.
FirstTakesAll(l, n) == Least(RootLimit, l)
FloorShare(r, queued) == r \div queued

\* The fair share of the next root among `n` roots still to come.
RootBudget(l, n) == Least(RootLimit, CeilDiv(l, n))
\* The share of one directory among the queued ones.
VisitBudget(r, queued) == CeilDiv(r, queued)

InventoryInit ==
    /\ fs \in FileSystems /\ roots \in Roots /\ allowance \in Budgets
    /\ gone = {} /\ progress = "root" /\ at = 1 /\ left = allowance /\ budget = 0 /\ unspent = 0
    /\ unopened = <<>> /\ open = <<>> /\ ahead = [d \in Dirs |-> {}] /\ visit = NoVisit
    /\ seen = {} /\ links = NoTree /\ agg = NoTree /\ marks = [d \in Dirs |-> {}]
    /\ complete = TRUE /\ exhausted = FALSE /\ reports = <<>> /\ mishaps = 0

\* The outer loop gives the root its share; a directory is then scanned.
BeginRoot ==
    /\ progress = "root" /\ at <= Len(roots) /\ Root \in Dirs
    /\ budget' = RootBudget(left, Len(roots) - at + 1)
    /\ unspent' = budget'
    /\ unopened' = <<Root>> /\ open' = <<>> /\ visit' = NoVisit
    /\ seen' = {} /\ links' = NoTree
    /\ agg' = [k \in {Root} |-> [Zero EXCEPT !.dirs = 1]]
    /\ marks' = [d \in Dirs |-> {}]
    /\ complete' = TRUE /\ exhausted' = FALSE
    /\ progress' = "fill"
    /\ UNCHANGED <<inquiry, gone, at, left, ahead, reports, mishaps>>

Report(a, m, c, x, v, b) ==
    [root |-> Root, agg |-> a, marks |-> m, complete |-> c, exhausted |-> x, visited |-> v, budget |-> b]

\* An exact file root costs one entry, and claims no private bytes while it
\* has other links (scan_file_root).
FileRoot ==
    /\ progress = "root" /\ at <= Len(roots) /\ Root \in Files \ gone
    /\ LET b == RootBudget(left, Len(roots) - at + 1)
           i == fs.inode[Root]
           m == IF b = 0 THEN Zero
                ELSE [Zero EXCEPT !.files[i] = 1, !.private = IF LinksOf(i) > 1 THEN {} ELSE {i}]
       IN /\ reports' = Append(reports, Report([k \in {Root} |-> m], marks, b > 0, b = 0, Least(b, 1), b))
          /\ left' = left - Least(b, 1)
    /\ at' = at + 1
    /\ UNCHANGED <<inquiry, gone, progress, budget, unspent, traversal, totals, mishaps>>

\* A root that has vanished ends the whole run with an error.
RootFails ==
    /\ progress = "root" /\ at <= Len(roots) /\ Root \in gone
    /\ progress' = "failed"
    /\ UNCHANGED <<inquiry, gone, at, left, budget, unspent, traversal, totals, reports, mishaps>>

-----------------------------------------------------------------------------
(* The traversal *)

\* The budget is used up: whatever is queued stays incomplete.
ExhaustBudget ==
    /\ progress = "fill" /\ unspent = 0
    /\ LET pending == ToSet(unopened) \cup ToSet(open)
           paths == UNION {fs.above[d] : d \in pending}
       IN /\ Mark(agg, paths, "EntryBudgetExhausted")
          /\ exhausted' = (pending # {})
          /\ complete' = (complete /\ pending = {})
    /\ progress' = "finish"
    /\ UNCHANGED <<inquiry, gone, at, left, budget, unspent, traversal, seen, links, agg, reports, mishaps>>

MayOpen == progress = "fill" /\ unspent > 0 /\ Len(open) < MaxReaders /\ unopened # <<>>

\* Another file system is skipped, and the scan stays complete.
SkipMount ==
    /\ MayOpen /\ Foreign(Head(unopened))
    /\ unopened' = Tail(unopened)
    /\ UNCHANGED <<inquiry, gone, progress, at, left, budget, unspent, open, ahead, visit, totals, reports, mishaps>>

OpenReader ==
    /\ MayOpen /\ ~Foreign(Head(unopened))
    /\ open' = Append(open, Head(unopened))
    /\ ahead' = [ahead EXCEPT ![Head(unopened)] = Children(Head(unopened))]
    /\ unopened' = Tail(unopened)
    /\ UNCHANGED <<inquiry, gone, progress, at, left, budget, unspent, visit, totals, reports, mishaps>>

\* The directory cannot be read, has vanished or is none any more.
OpenFails ==
    /\ MayOpen /\ mishaps < MaxMishaps
    /\ ScanError(fs.above[Head(unopened)])
    /\ unopened' = Tail(unopened)
    /\ mishaps' = mishaps + 1
    /\ UNCHANGED <<inquiry, gone, progress, at, left, budget, unspent, open, ahead, visit, seen, links, exhausted, reports>>

BeginVisit ==
    /\ progress = "fill" /\ unspent > 0 /\ ~MayOpen /\ open # <<>>
    /\ visit' = [dir |-> Head(open), slice |-> VisitBudget(unspent, Len(unopened) + Len(open)), yielded |-> 0]
    /\ open' = Tail(open)
    /\ progress' = "visit"
    /\ UNCHANGED <<inquiry, gone, at, left, budget, unspent, unopened, ahead, totals, reports, mishaps>>

Yields(e) ==
    /\ progress = "visit" /\ visit.yielded < visit.slice
    /\ e \in ahead[visit.dir] \ gone
    /\ ahead' = [ahead EXCEPT ![visit.dir] = @ \ {e}]
    /\ visit' = [visit EXCEPT !.yielded = @ + 1]

YieldDirectory(d) ==
    /\ d \in Dirs /\ Yields(d)
    /\ agg' = AddDirectory(agg, d)
    /\ unopened' = Append(unopened, d)
    /\ UNCHANGED <<inquiry, gone, progress, at, left, budget, unspent, open, seen, links, marks, complete, exhausted, reports, mishaps>>

\* A link of an inode already seen narrows the directory it is charged to.
YieldDuplicate(f) ==
    /\ f \in Files /\ Yields(f) /\ fs.inode[f] \in seen
    /\ agg' = AddDuplicate(agg, fs.above[f])
    /\ links' = [i \in DOMAIN links |->
                    IF i = fs.inode[f]
                    THEN Link(links[i].expected, links[i].observed + 1, links[i].common \cap fs.above[f])
                    ELSE links[i]]
    /\ UNCHANGED <<inquiry, gone, progress, at, left, budget, unspent, unopened, open, seen, marks, complete, exhausted, reports, mishaps>>

\* The first link of an inode waits for the others; a file without others counts.
YieldFile(f) ==
    /\ f \in Files /\ Yields(f) /\ fs.inode[f] \notin seen
    /\ LET i == fs.inode[f] IN
       /\ seen' = seen \cup {i}
       /\ IF LinksOf(i) > 1
          THEN /\ links' = [j \in DOMAIN links \cup {i} |->
                               IF j = i THEN Link(LinksOf(i), 1, fs.above[f]) ELSE links[j]]
               /\ agg' = agg
          ELSE /\ agg' = AddFile(agg, fs.above[f], i, {i})
               /\ links' = links
    /\ UNCHANGED <<inquiry, gone, progress, at, left, budget, unspent, unopened, open, marks, complete, exhausted, reports, mishaps>>

\* The entry is counted against the budget, but its metadata cannot be read; so
\* fares a name that was unlinked after the reader had it.
YieldError(e) ==
    /\ progress = "visit" /\ visit.yielded < visit.slice /\ e \in ahead[visit.dir]
    /\ ahead' = [ahead EXCEPT ![visit.dir] = @ \ {e}]
    /\ visit' = [visit EXCEPT !.yielded = @ + 1]
    /\ ScanError(fs.above[visit.dir])
    /\ e \notin gone => mishaps < MaxMishaps
    /\ mishaps' = IF e \in gone THEN mishaps ELSE mishaps + 1
    /\ UNCHANGED <<inquiry, gone, progress, at, left, budget, unspent, unopened, open, seen, links, exhausted, reports>>

Charge ==
    /\ unspent' = unspent - visit.yielded
    /\ visit' = NoVisit
    /\ progress' = "fill"

\* The reader has looked one entry ahead, so it knows whether it is exhausted.
EndVisit ==
    /\ progress = "visit"
    /\ visit.yielded = visit.slice \/ ahead[visit.dir] \ gone = {}
    /\ Charge
    /\ open' = IF ahead[visit.dir] \ gone = {} THEN open ELSE Append(open, visit.dir)
    /\ UNCHANGED <<inquiry, gone, at, left, budget, unopened, ahead, totals, reports, mishaps>>

\* The reader itself fails; what it has yielded is charged all the same.
VisitFails ==
    /\ progress = "visit" /\ mishaps < MaxMishaps
    /\ ScanError(fs.above[visit.dir])
    /\ Charge
    /\ mishaps' = mishaps + 1
    /\ UNCHANGED <<inquiry, gone, at, left, budget, unopened, open, ahead, seen, links, exhausted, reports>>

EndScan ==
    /\ progress = "fill" /\ unspent > 0 /\ unopened = <<>> /\ open = <<>>
    /\ progress' = "finish"
    /\ UNCHANGED <<inquiry, gone, at, left, budget, unspent, traversal, totals, reports, mishaps>>

\* Mutant: one link stands for all.
SeenAtAll(i) == links[i].observed < 1

\* Links that were not all observed leave their directory incomplete when the
\* scan is, and never count as private.
Unresolved(i) == links[i].observed < links[i].expected
ResolveLink(i) ==
    /\ progress = "finish" /\ i \in DOMAIN links
    /\ IF ~complete /\ Unresolved(i)
       THEN Mark(agg, links[i].common, "UnresolvedHardlinkAttribution")
       ELSE marks' = marks
    /\ agg' = AddFile(agg, links[i].common, i, IF Unresolved(i) THEN {} ELSE {i})
    /\ links' = [j \in DOMAIN links \ {i} |-> links[j]]
    /\ UNCHANGED <<inquiry, gone, progress, at, left, budget, unspent, traversal, seen, complete, exhausted, reports, mishaps>>

EndRoot ==
    /\ progress = "finish" /\ DOMAIN links = {}
    /\ reports' = Append(reports, Report(agg, marks, complete, exhausted, budget - unspent, budget))
    /\ left' = left - (budget - unspent)
    /\ at' = at + 1
    /\ progress' = "root"
    /\ UNCHANGED <<inquiry, gone, budget, unspent, traversal, totals, mishaps>>

EndRun ==
    /\ progress = "root" /\ at > Len(roots)
    /\ progress' = "done"
    /\ UNCHANGED <<inquiry, gone, at, left, budget, unspent, traversal, totals, reports, mishaps>>

Scan ==
    \/ BeginRoot \/ FileRoot \/ RootFails \/ ExhaustBudget \/ SkipMount \/ OpenReader \/ OpenFails
    \/ BeginVisit \/ EndVisit \/ VisitFails \/ EndScan \/ EndRoot \/ EndRun
    \/ \E e \in Entries : YieldDirectory(e) \/ YieldDuplicate(e) \/ YieldFile(e) \/ YieldError(e)
    \/ \E i \in Inodes : ResolveLink(i)

\* Somebody unlinks a file while the scan runs.
Unlink(f) ==
    /\ progress \notin {"done", "failed"} /\ mishaps < MaxMishaps /\ f \in Files \ gone
    /\ gone' = gone \cup {f}
    /\ mishaps' = mishaps + 1
    /\ UNCHANGED <<inquiry, progress, at, left, budget, unspent, traversal, totals, reports>>

InventoryNext == Scan \/ \E f \in Files : Unlink(f)
InventorySpec == InventoryInit /\ [][InventoryNext]_inventoryVars /\ WF_inventoryVars(Scan)

-----------------------------------------------------------------------------
(* Properties *)

\* What a user may read off a report: the status of the root and of a retained
\* directory, and whether its totals are labelled a lower bound (lines 959-987).
Complete(r, d) == IF d = r.root THEN r.complete ELSE r.marks[d] = {}
LowerBound(r, d) ==
    IF d = r.root
    THEN ~r.complete /\ r.agg[d].errors = 0 /\ r.exhausted
    ELSE r.agg[d].errors = 0 /\ r.marks[d] = {"EntryBudgetExhausted"}

\* What is there: the files a traversal of `root` can reach, and the directories
\* that hold every such link of an inode.
Reached(root) == {f \in Files : root \in fs.above[f] /\ Crossed(root, fs.above[f]) = {}}
Standing(i) == \A f \in gone : fs.inode[f] # i
Holds(root, d, i) ==
    LET of == {f \in Reached(root) : fs.inode[f] = i}
    IN of # {} /\ \A f \in of : d \in fs.above[f]

\* What is reported of inode i and the retained directory d.
Truthful(r, d, i) ==
    LET truth == IF Holds(r.root, d, i) THEN 1 ELSE 0
    IN /\ Complete(r, d) => r.agg[d].files[i] = truth
       /\ LowerBound(r, d) => r.agg[d].files[i] <= truth
       /\ i \in r.agg[d].private =>
            LinksOf(i) <= Cardinality({f \in Files : fs.inode[f] = i /\ d \in fs.above[f]})

\* A total that is reported as complete counts each file below the directory
\* exactly once: a hard-linked file in the deepest directory that holds all its
\* links and in those above it, whatever the order of entries, visits and
\* readers, and wherever the budget or an error stopped the rest of the scan. A
\* total labelled as an observed lower bound counts nothing twice and nothing
\* that belongs to a wider directory. Private bytes, whatever the status, are of
\* inodes the directory holds every link of. (README: "deduplicates hard-linked
\* files"; a capped scan marks only the affected branches incomplete; "a
\* conservative floor for space immediately private to the visited files".)
TotalsMeanWhatTheySay ==
    \A n \in 1 .. Len(reports) : \A d \in Dirs \cap DOMAIN reports[n].agg :
        \A i \in {j \in Inodes : Standing(j)} : Truthful(reports[n], d, i)

\* One large root or a wide early sibling cannot hide a later one: a root with
\* fewer entries than its share of the budget is reported complete when nothing
\* failed. (README: "divided fairly across the remaining roots and unused shares
\* flow forward".)
SmallRootsAreComplete ==
    \A n \in 1 .. Len(reports) :
        LET r == reports[n]
            size == Cardinality({e \in Beneath(r.root) : Crossed(r.root, fs.above[e] \ {e}) = {}})
        IN mishaps = 0 /\ r.root \in Dirs /\ size < Least(RootLimit, allowance \div Len(roots)) => r.complete

\* No traversal goes on for ever: every visit uses up an entry or a directory.
ScanEnds == <>(progress \in {"done", "failed"})
=============================================================================
