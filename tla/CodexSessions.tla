---------------------------- MODULE CodexSessions ----------------------------
(***************************************************************************)
(* The report on Codex task storage (src/src/codex_sessions.rs): it reads  *)
(* the thread index with one query, walks the two session stores under an  *)
(* entry budget, correlates the rows with the files, and measures the      *)
(* files with what is left of the budget. Codex goes on working meanwhile. *)
(*                                                                         *)
(* A file is [dir, thread, form]: live tasks lie in a dated directory      *)
(* below sessions, archived ones in archived_sessions. A measurement of a  *)
(* file is one entry; hard links between rollouts are left out.            *)
(***************************************************************************)
EXTENDS Naturals, Sequences, FiniteSets

CONSTANTS
    Threads,
    SessionStores,   \* the stores the run may start from: [disk, index]
    Configs,         \* [base, profile, named]: two config layers, --profile given
    SessionBudgets,  \* values of --max-entries
    MaxMoves         \* bound: steps of Codex

Day == "sessions/day"

ASSUME StoresAssumption ==
    /\ SessionBudgets \subseteq Nat
    /\ \A s \in SessionStores : \A f \in s.disk : f.dir \in {Day, "archived"}

VARIABLES
    disk,            \* the session files
    index,           \* rows of the threads table: thread -> [archived, dir, form]
    moves,
    stood,           \* files that stood since the query
    maxEntries,
    stage,
    rows,            \* what the query returned
    queue,           \* directories the walk has yet to read
    here, listing,   \* the directory being read, its entries still to come
    sessionFiles, leftovers, \* rollouts and temporary artifacts found
    visited, whole, failing, \* entries visited, discovery.complete, errors
    correlated,      \* thread -> the file its row was resolved to
    unresolved, missing,
    tried, measured, \* rollouts charged to the budget, and those read
    report

store == <<disk, index, moves, stood>>
walk == <<queue, here, listing, sessionFiles, leftovers, visited, whole>>
findings == <<correlated, unresolved, missing, tried, measured>>
sessionVars == <<store, maxEntries, stage, rows, walk, failing, findings, report>>

Forms == {"jsonl", "zst", "tmp"}
NoReport == [made |-> FALSE, complete |-> FALSE, health |-> "none", config |-> {}]
DayEntry == [dir |-> "sessions", thread |-> "none", form |-> "dir"]
RootOfStore(archived) == IF archived = 1 THEN "archived" ELSE Day
EmptyWalk == /\ queue = <<>> /\ here = "none" /\ listing = {}
             /\ sessionFiles = {} /\ leftovers = {} /\ visited = 0 /\ whole = TRUE

SessionsWith(s, max) ==
    /\ disk = s.disk /\ index = s.index /\ maxEntries = max
    /\ moves = 0 /\ stood = {} /\ stage = "idle" /\ rows = <<>> /\ EmptyWalk
    /\ failing = FALSE /\ correlated = <<>> /\ unresolved = {} /\ missing = {}
    /\ tried = {} /\ measured = {} /\ report = NoReport

SessionsInit == \E s \in SessionStores, max \in SessionBudgets : SessionsWith(s, max)

-----------------------------------------------------------------------------
(* The run *)

\* The index is read once, before the stores.
QueryThreads(ok) ==
    /\ stage = "idle" /\ stage' = "walk"
    /\ rows' = IF ok THEN index ELSE <<>>
    /\ failing' = ~ok
    /\ stood' = disk
    /\ queue' = <<"sessions", "archived">>
    /\ UNCHANGED <<disk, index, moves, maxEntries, here, listing, sessionFiles, leftovers,
                   visited, whole, findings, report>>

\* The entries of a directory: the dated directory lies in sessions.
Listed(d) == {f \in disk : f.dir = d} \cup (IF d = "sessions" THEN {DayEntry} ELSE {})

OpenStore ==
    /\ stage = "walk" /\ here = "none" /\ queue # <<>>
    /\ queue' = Tail(queue)
    /\ \/ here' = Head(queue) /\ listing' = Listed(Head(queue)) /\ UNCHANGED <<whole, failing>>
       \/ whole' = FALSE /\ failing' = TRUE /\ UNCHANGED <<here, listing>>
    /\ UNCHANGED <<store, maxEntries, stage, rows, sessionFiles, leftovers, visited, findings, report>>

\* A reader may or may not return an entry made while it reads.
Late == {f \in disk \ (sessionFiles \cup leftovers) : f.dir = here}

\* An entry that has gone since the directory was opened is an error.
VisitEntry(e) ==
    /\ stage = "walk" /\ here # "none" /\ e \in listing \cup Late /\ visited < maxEntries
    /\ visited' = visited + 1 /\ listing' = listing \ {e}
    /\ queue' = IF e = DayEntry THEN Append(queue, Day) ELSE queue
    /\ LET there == e = DayEntry \/ e \in disk IN
       /\ sessionFiles' = IF e \in disk /\ e.form # "tmp" THEN sessionFiles \cup {e} ELSE sessionFiles
       /\ leftovers' = IF e \in disk /\ e.form = "tmp" THEN leftovers \cup {e} ELSE leftovers
       /\ whole' = (whole /\ there)
       /\ failing' = (failing \/ ~there)
    /\ UNCHANGED <<store, maxEntries, stage, rows, here, findings, report>>

\* Mutant: a walk that ends at its budget looks at the directory it is in only.
QueueForgotten == visited >= maxEntries /\ listing # {}

\* What the walk leaves behind when it ends at its budget.
LeftBehind == visited >= maxEntries /\ (listing # {} \/ queue # <<>>)

\* The directory is at its end, or the budget is: the latter ends the walk.
CloseStore ==
    /\ stage = "walk" /\ here # "none"
    /\ listing = {} \/ visited >= maxEntries
    /\ here' = "none" /\ listing' = {}
    /\ whole' = (whole /\ ~LeftBehind)
    /\ queue' = IF visited >= maxEntries THEN <<>> ELSE queue
    /\ UNCHANGED <<store, maxEntries, stage, rows, sessionFiles, leftovers, visited, failing, findings, report>>

EndWalk ==
    /\ stage = "walk" /\ here = "none" /\ queue = <<>>
    /\ stage' = "correlate" /\ unresolved' = DOMAIN rows
    /\ UNCHANGED <<store, maxEntries, rows, walk, failing, correlated, missing, tried, measured, report>>

\* The physical files a row may mean: its path, plain or compressed.
Spellings(t) ==
    {f \in sessionFiles : f.dir = rows[t].dir /\ f.thread = t}

\* A row is trusted only below the store its archived flag names, with one
\* physical spelling that still stands.
Resolve(t) ==
    /\ stage = "correlate" /\ t \in unresolved
    /\ unresolved' = unresolved \ {t}
    /\ LET n == Cardinality(Spellings(t))
           placed == rows[t].archived \in {0, 1} /\ rows[t].dir = RootOfStore(rows[t].archived)
           sound == placed /\ n = 1 /\ Spellings(t) \subseteq disk
       IN /\ correlated' = IF sound THEN [u \in DOMAIN correlated \cup {t} |->
                                            IF u = t THEN CHOOSE f \in Spellings(t) : TRUE ELSE correlated[u]]
                           ELSE correlated
          /\ missing' = IF placed /\ n = 0 THEN missing \cup {t} ELSE missing
          /\ failing' = (failing \/ ~(sound \/ (placed /\ n = 0)))
    /\ UNCHANGED <<store, maxEntries, stage, rows, walk, tried, measured, report>>

EndCorrelation ==
    /\ stage = "correlate" /\ unresolved = {} /\ stage' = "measure"
    /\ UNCHANGED <<store, maxEntries, rows, walk, failing, findings, report>>

\* Mutant: a rollout that has gone before it is measured is left out quietly.
GoneIsFine(f) == TRUE
Measurable(f) == f \in disk

\* Each rollout costs an entry of the shared budget; its evidence may be
\* incomplete for reasons of its own.
MeasureFile(f, fine) ==
    /\ stage = "measure" /\ f \in sessionFiles \ (tried \cup unresolved)
    /\ LET spent == visited + Cardinality(tried) >= maxEntries IN
       /\ tried' = IF spent THEN tried ELSE tried \cup {f}
       /\ unresolved' = IF spent THEN unresolved \cup {f} ELSE unresolved
       /\ measured' = IF ~spent /\ fine /\ f \in disk THEN measured \cup {f} ELSE measured
       /\ failing' = (failing \/ spent \/ ~fine \/ ~Measurable(f))
    /\ UNCHANGED <<store, maxEntries, stage, rows, walk, correlated, missing, report>>

-----------------------------------------------------------------------------
(* Compression health *)

Setting(c) == IF c.named /\ c.profile # "unset" THEN c.profile ELSE c.base

\* A layer that cannot be read, or a choice of profile that is not known.
ConfigFails(c) ==
    \/ c.base = "bad"
    \/ c.named /\ c.profile \in {"bad", "absent"}
    \/ ~c.named /\ c.profile # "absent"

PlanComplete ==
    /\ whole /\ ~failing /\ missing = {}
    /\ sessionFiles = {correlated[t] : t \in DOMAIN correlated}

Health(c, marker) ==
    IF ~PlanComplete \/ ConfigFails(c) \/ marker = "bad" \/ leftovers # {} THEN "Incomplete"
    ELSE IF Setting(c) = "on" THEN "Enabled" ELSE "NotConfigured"

\* An incomplete health verdict makes the whole report incomplete.
FinishSessions(c, marker) ==
    /\ stage = "measure" /\ sessionFiles \subseteq tried \cup unresolved /\ stage' = "done"
    /\ report' = [made |-> TRUE, health |-> Health(c, marker), config |-> c,
                  complete |-> PlanComplete /\ Health(c, marker) # "Incomplete"]
    /\ UNCHANGED <<store, maxEntries, rows, walk, failing, findings>>

-----------------------------------------------------------------------------
(* Codex, at its own work: files change one at a time, rows follow. *)
Moved(d) ==
    /\ stage # "done" /\ moves < MaxMoves /\ moves' = moves + 1
    /\ disk' = d /\ stood' = stood \cap d
    /\ UNCHANGED <<index, maxEntries, stage, rows, walk, failing, findings, report>>

CreateRollout(t) ==
    /\ {f \in disk : f.thread = t} = {}
    /\ Moved(disk \cup {[dir |-> Day, thread |-> t, form |-> "jsonl"]})
ArchiveRollout(f, d) ==
    /\ f.form # "tmp" /\ f.dir # d
    /\ Moved((disk \ {f}) \cup {[f EXCEPT !.dir = d]})
StartCompression(f) ==
    /\ f.form = "jsonl" /\ Moved(disk \cup {[f EXCEPT !.form = "tmp"]})
PublishCompressed(f) ==
    /\ f.form = "tmp" /\ Moved((disk \ {f}) \cup {[f EXCEPT !.form = "zst"]})
RemoveRollout(f) == Moved(disk \ {f})
UpdateRow(t) ==
    /\ stage # "done" /\ moves < MaxMoves /\ moves' = moves + 1
    /\ LET mine == {f \in disk : f.thread = t /\ f.form # "tmp"} IN
       \/ /\ mine = {} /\ t \in DOMAIN index
          /\ index' = [u \in DOMAIN index \ {t} |-> index[u]]
       \/ \E f \in mine :
            index' = [u \in DOMAIN index \cup {t} |-> IF u # t THEN index[u]
                       ELSE [archived |-> IF f.dir = "archived" THEN 1 ELSE 0, dir |-> f.dir, form |-> f.form]]
    /\ UNCHANGED <<disk, stood, maxEntries, stage, rows, walk, failing, findings, report>>

Codex ==
    \/ \E t \in Threads : CreateRollout(t) \/ UpdateRow(t)
    \/ \E f \in disk : \/ \E d \in {Day, "archived"} : ArchiveRollout(f, d)
                       \/ StartCompression(f) \/ PublishCompressed(f) \/ RemoveRollout(f)

Collect ==
    \/ \E ok \in BOOLEAN : QueryThreads(ok)
    \/ OpenStore \/ (\E e \in listing \cup Late : VisitEntry(e)) \/ CloseStore \/ EndWalk
    \/ \E t \in Threads : Resolve(t)
    \/ EndCorrelation
    \/ \E f \in sessionFiles, fine \in BOOLEAN : MeasureFile(f, fine)
    \/ \E c \in Configs, marker \in {"absent", "present", "bad"} : FinishSessions(c, marker)

SessionsNext == Collect \/ Codex
SessionsSpec == SessionsInit /\ [][SessionsNext]_sessionVars

-----------------------------------------------------------------------------
(* Properties *)

\* A complete report is the task store as it was: it leaves out no rollout and
\* no half-written one that stood from the query to the end, however Codex
\* moved others in between; it has each thread of the index once, live or
\* archived by the store its file was in, with bytes read from that file, all
\* within --max-entries. (codex_sessions.rs: "complete" is the conjunction of
\* traversal, correlation, measurement and compression health.)
CompleteIsTheStore ==
    report.complete =>
        /\ stood \subseteq {correlated[t] : t \in DOMAIN correlated}
        /\ DOMAIN correlated = DOMAIN rows
        /\ \A t \in DOMAIN correlated :
            /\ correlated[t].thread = t
            /\ correlated[t].dir = RootOfStore(rows[t].archived)
            /\ correlated[t] \in measured
        /\ visited + Cardinality(sessionFiles) <= maxEntries
=============================================================================
