------------------------ MODULE CodexRecoveryProofs ------------------------
(***************************************************************************)
(* That a migration of Codex histories never loses an original, that its   *)
(* journals tell the truth and that a recovery restores what was           *)
(* rewritten, for any tasks, runs and number of troubles.                  *)
(*                                                                         *)
(* What a journal says is tied to what was rewritten through the one run   *)
(* that holds runner.lock (Exclusive).  While it works on a task, no other *)
(* rewriting process is alive and no other journal is uncertain (AtWork):  *)
(* CheckPrerequisites saw that, and a run only passes from one task to the *)
(* next with nothing uncertain left (Boundary).  Its journal in memory     *)
(* names a copy of the original as soon as the copy exists, and the file   *)
(* says "applying" before the process starts (OnTask); a process that      *)
(* outlives its run rewrites under that journal (NativeInv).  The content  *)
(* is confirmed by its version, which only grows: what was backed up, what *)
(* was rewritten and what is there after the rewriting are one version if  *)
(* the first and the last are.                                             *)
(*                                                                         *)
(* Selection is a fold, of which nothing is known here, not even that it   *)
(* selects tasks of the index: the task of a run is a task only as a       *)
(* premise.                                                                *)
(***************************************************************************)
EXTENDS CodexRecovery, TLAPS

\* The points of a batch: before it takes up a task, at work on one, ended.
Early == {"idle", "guard", "lock", "journals", "next"}
Owned == {"write", "publish", "copy", "plan", "recheck", "apply", "working", "verify", "confirm"}
Over  == {"completed", "stopped", "killed"}

\* What a journal may say, and the digest it may name.
Phases == {"none", "backing_up", "backed_up", "applying", "verified",
           "recovery_required", "refused_before_apply"}
Digests == Contents \cup {NoFile}

\* Every variable the argument is about has values of its kind, and no
\* history has been edited more often than there was trouble.
Types ==
    /\ live \in [Tasks -> [version : 0 .. MaxTrouble, form : Forms, archived : BOOLEAN]]
    /\ trouble \in 0 .. MaxTrouble
    /\ \A t \in Tasks : live[t].version <= trouble
    /\ rewriter \in [Tasks -> [run : Runs, version : 0 .. MaxTrouble] \cup {Nobody}]
    /\ native \subseteq Runs
    /\ stage \in [Runs -> Early \cup Owned \cup Over]
    /\ todo = [r \in Runs |-> todo[r]]
    /\ seen \in [Runs -> [Tasks -> [version : 0 .. MaxTrouble, form : Forms, archived : BOOLEAN]]]
    /\ want = [r \in Runs |-> [phase |-> want[r].phase, sha |-> want[r].sha]]
    /\ \A r \in Runs : want[r].phase \in Phases
    /\ journal \in [Runs \X Tasks -> [phase : Phases, sha : Digests]]
    /\ backup \in [Runs \X Tasks -> Digests \cup {Damaged}]

\* What has been rewritten is no longer legacy.
Rewritten == \A t \in Tasks : rewriter[t] = Nobody <=> live[t].form = "legacy"

\* runner.lock keeps two batches apart.
Exclusive == \A r \in Runs : stage[r] \in Owned \cup {"journals", "next"} => runner = r

\* The digest of a history that has not been rewritten.
Original(sha) == sha \in Contents /\ sha[2] = "legacy"

\* The copy of the original is what the digest says, unless somebody damages it.
Copied(e, sha) == Original(sha) /\ backup[e] \in {sha, Damaged}

\* The rewriting may not have begun.
Before(r) ==
    \/ stage[r] \in {"copy", "plan", "recheck", "apply"}
    \/ /\ stage[r] \in {"write", "publish"}
       /\ want[r].phase \in {"backing_up", "backed_up", "applying", "refused_before_apply"}

\* A batch at work on one task.
AtWork(r) ==
    /\ todo[r] # <<>>
    /\ native \subseteq {r}
    /\ stage[r] # "working" => native = {}
    /\ pending \subseteq {Entry(r)}
    /\ stage[r] \notin {"write", "publish"} => pending = {}
    /\ \A e \in Runs \X Tasks : e # Entry(r) => journal[e].phase \notin Uncertain

\* The journal in memory and the point reached.
InStep(r) ==
    /\ stage[r] = "copy" => want[r].phase = "backing_up"
    /\ stage[r] \in {"plan", "recheck"} => want[r].phase = "backed_up"
    /\ stage[r] \in {"apply", "working", "verify", "confirm"} => want[r].phase = "applying"
    /\ want[r].phase # "none"

\* The task of a batch.
OnTask(r, t) ==
    /\ Before(r) => rewriter[t] = Nobody
    /\ rewriter[t] # Nobody => rewriter[t].run = r
    /\ want[r].sha \in Digests
    /\ want[r].phase = "backing_up" => want[r].sha = NoFile
    /\ want[r].phase \in {"backed_up", "applying", "verified", "recovery_required"}
          => Copied(<<r, t>>, want[r].sha)
    /\ journal[<<r, t>>].sha \in {NoFile, want[r].sha}
    /\ stage[r] \in {"apply", "working"} => journal[<<r, t>>] = want[r]
    /\ want[r].phase \in {"applying", "verified"} =>
          /\ want[r].sha = <<seen[r][t].version, "legacy">>
          /\ seen[r][t].version <= live[t].version
          /\ rewriter[t] # Nobody => /\ seen[r][t].version <= rewriter[t].version
                                     /\ rewriter[t].version <= live[t].version
    /\ stage[r] \in {"verify", "confirm"} \/ want[r].phase = "verified" => rewriter[t] # Nobody
    /\ stage[r] = "confirm" \/ want[r].phase = "verified"
          => rewriter[t].version = seen[r][t].version

\* All that is known of a batch at work.
Own(r) == AtWork(r) /\ InStep(r) /\ (Task(r) \in Tasks => OnTask(r, Task(r)))

\* It holds of every run that is at one of those points.
OwnInv == \A r \in Runs : stage[r] \in Owned => Own(r)

\* Between two tasks no journal is uncertain.
Boundary ==
    \A r \in Runs : stage[r] = "next" =>
        pending = {} /\ \A e \in Runs \X Tasks : journal[e].phase \notin Uncertain

\* A process that rewrites, whether its run is alive or not.
NativeInv ==
    \A r \in native :
        /\ stage[r] \in {"working", "killed"}
        /\ todo[r] # <<>>
        /\ Task(r) \in Tasks => /\ journal[Entry(r)].phase = "applying"
                                /\ Copied(Entry(r), journal[Entry(r)].sha)

\* A run has no digest of a task it has not worked on.
Fresh ==
    \A r \in Runs, t \in Tasks :
        /\ stage[r] \in Early \cup Owned
        /\ ~(stage[r] \in Owned /\ t = Task(r))
        /\ rewriter[t] = Nobody
        => journal[<<r, t>>].sha = NoFile

\* The inductive invariant of the migration,
MigrationInv ==
    /\ Types /\ Rewritten /\ Exclusive /\ OwnInv /\ Boundary /\ NativeInv /\ Fresh
    /\ OriginalIsKept /\ VerifiedIsBackedUp

\* and of a recovery: it has a journal with a digest, hands back what that
\* names, and does not take a foreign directory for its own: it renames only
\* when none was there at its last look.
RecoveryInv ==
    /\ recovering # "idle" => source \in Runs \X Tasks /\ journal[source].sha \in Contents
    /\ recovering = "recovered" => restored = journal[source].sha
    /\ foreign \in {"none", "there", "late"}
    /\ foreign # "none" => home # "destination"
    /\ Renaming => foreign # "there"

IInv == MigrationInv /\ RecoveryInv

---------------------------------------------------------------------------
(* No copy and a damaged copy are not taken for a content.                 *)
LEMMA DigestsDiffer == NoFile \notin Contents /\ Damaged \notin Contents
    BY NoFileAssumption

(* Every run is idle, nothing was rewritten and no journal written.        *)
LEMMA InitHolds == RecoveryInit => IInv
<1> SUFFICES ASSUME RecoveryInit PROVE IInv
    OBVIOUS
<1>1. Init
    BY DEF RecoveryInit
<1>2. Types
  <2>1. live \in [Tasks -> [version : 0 .. MaxTrouble, form : Forms, archived : BOOLEAN]]
        /\ \A t \in Tasks : live[t].version = 0
      BY <1>1, TroubleAssumption DEF Init, Forms
  <2>2. journal \in [Runs \X Tasks -> [phase : Phases, sha : Digests]]
        /\ backup \in [Runs \X Tasks -> Digests \cup {Damaged}]
      BY <1>1 DEF Init, NoJournal, Phases, Digests
  <2>3. \A r \in Runs : want[r] = [phase |-> "none", sha |-> NoFile]
      BY <1>1 DEF Init, NoJournal
  <2>4. want = [r \in Runs |-> [phase |-> want[r].phase, sha |-> want[r].sha]]
        /\ \A r \in Runs : want[r].phase \in Phases
      BY <1>1, <2>3 DEF Init, NoJournal, Phases
  <2>5. todo = [r \in Runs |-> todo[r]] /\ stage \in [Runs -> Early \cup Owned \cup Over]
      BY <1>1 DEF Init, Early
  <2>6. seen \in [Runs -> [Tasks -> [version : 0 .. MaxTrouble, form : Forms, archived : BOOLEAN]]]
      BY <1>1, <2>1 DEF Init
  <2>7. /\ rewriter \in [Tasks -> [run : Runs, version : 0 .. MaxTrouble] \cup {Nobody}]
        /\ trouble \in 0 .. MaxTrouble /\ native \subseteq Runs
      BY <1>1, TroubleAssumption DEF Init
  <2> QED
      BY <2>1, <2>2, <2>4, <2>5, <2>6, <2>7 DEF Types
<1>3. Rewritten /\ Exclusive /\ OwnInv /\ Boundary /\ NativeInv /\ Fresh
  <2>1. \A r \in Runs : stage[r] = "idle"
      BY <1>1 DEF Init
  <2>2. \A t \in Tasks : rewriter[t] = Nobody /\ live[t].form = "legacy"
      BY <1>1 DEF Init
  <2>3. native = {} /\ \A e \in Runs \X Tasks : journal[e].sha = NoFile
      BY <1>1 DEF Init, NoJournal
  <2> QED
      BY <2>1, <2>2, <2>3 DEF Rewritten, Exclusive, OwnInv, Owned, Boundary, NativeInv, Fresh
<1>4. OriginalIsKept
    BY <1>1 DEF Init, OriginalIsKept
<1>5. VerifiedIsBackedUp
    BY <1>1 DEF Init, VerifiedIsBackedUp, NoJournal
<1>6. RecoveryInv
    BY DEF RecoveryInit, RecoveryInv
<1> QED
    BY <1>2, <1>3, <1>4, <1>5, <1>6 DEF IInv, MigrationInv

---------------------------------------------------------------------------
(* Before and after the work on tasks nothing is written; runner.lock goes *)
(* to one run, and prerequisites are checked under it.                     *)
LEMMA OutsideStep ==
    ASSUME MigrationInv, NEW r \in Runs,
           \/ PlanBatch(r) \/ TakeGuard(r) \/ TakeRunnerLock(r) \/ CheckPrerequisites(r)
           \/ FinishBatch(r) \/ StopBatch(r)
    PROVE  MigrationInv'
<1>1. UNCHANGED <<live, rewriter, want, native, files, trouble>>
    BY DEF PlanBatch, TakeGuard, TakeRunnerLock, CheckPrerequisites, FinishBatch, StopBatch,
           store, world, locks, files
<1>2. /\ stage[r] \in Early
      /\ stage' = [stage EXCEPT ![r] = stage'[r]]
      /\ stage'[r] \in (Early \ {"idle"}) \cup Over
    BY DEF PlanBatch, TakeGuard, TakeRunnerLock, CheckPrerequisites, FinishBatch, StopBatch,
           Goto, MigrationInv, Types, Early, Over
<1>3. /\ todo' = [todo EXCEPT ![r] = todo'[r]]
      /\ seen' = [seen EXCEPT ![r] = seen'[r]]
      /\ seen'[r] \in {seen[r], live}
    BY DEF PlanBatch, TakeGuard, TakeRunnerLock, CheckPrerequisites, FinishBatch, StopBatch,
           MigrationInv, Types
<1>4. \A x \in Runs \ {r} : stage'[x] = stage[x] /\ todo'[x] = todo[x] /\ seen'[x] = seen[x]
    BY <1>2, <1>3 DEF MigrationInv, Types
<1>5. Types'
  <2>1. /\ stage' \in [Runs -> Early \cup Owned \cup Over]
        /\ todo' = [x \in Runs |-> todo'[x]]
      BY <1>2, <1>3 DEF MigrationInv, Types
  <2>2. seen' \in [Runs -> [Tasks -> [version : 0 .. MaxTrouble, form : Forms, archived : BOOLEAN]]]
    <3> DEFINE S == [Tasks -> [version : 0 .. MaxTrouble, form : Forms, archived : BOOLEAN]]
    <3>1. seen \in [Runs -> S] /\ live \in S
        BY DEF MigrationInv, Types
    <3> HIDE DEF S
    <3>2. seen' \in [Runs -> S]
        BY <1>3, <3>1
    <3> QED
        BY <3>2 DEF S
  <2> QED
      BY <1>1, <2>1, <2>2 DEF MigrationInv, Types, files
<1>6. Exclusive'
  <2>1. CASE runner' = runner /\ (stage'[r] \in Owned \cup {"journals", "next"} => stage[r] = "journals")
      BY <1>4, <2>1 DEF MigrationInv, Exclusive
  <2>2. CASE runner = Nobody /\ runner' = r
      BY <1>4, <2>2, NobodyAssumption DEF MigrationInv, Exclusive
  <2>3. CASE runner' = (IF runner = r THEN Nobody ELSE runner) /\ stage'[r] \in Over
      BY <1>4, <2>3, NobodyAssumption DEF MigrationInv, Exclusive, Owned, Over
  <2>4. PlanBatch(r) \/ TakeGuard(r) \/ CheckPrerequisites(r)
           => runner' = runner /\ (stage'[r] \in Owned \cup {"journals", "next"} => stage[r] = "journals")
      BY <1>2 DEF PlanBatch, TakeGuard, CheckPrerequisites, Goto, locks, MigrationInv, Types, Owned
  <2>5. TakeRunnerLock(r) => runner = Nobody /\ runner' = r
      BY DEF TakeRunnerLock
  <2>6. FinishBatch(r) \/ StopBatch(r)
           => runner' = (IF runner = r THEN Nobody ELSE runner) /\ stage'[r] \in Over
      BY DEF FinishBatch, StopBatch, Goto, Release, MigrationInv, Types, Over
  <2> QED
      BY <2>1, <2>2, <2>3, <2>4, <2>5, <2>6
<1>7. \A x \in Runs \ {r} : stage[x] \in Owned /\ Own(x) => Own(x)'
    BY <1>1, <1>4 DEF Own, AtWork, InStep, OnTask, Before, Copied, Task, Entry, files
<1>8. OwnInv'
    BY <1>2, <1>4, <1>7 DEF MigrationInv, OwnInv, Early, Owned, Over
<1>9. NativeInv'
    BY <1>1, <1>2, <1>4 DEF MigrationInv, Types, NativeInv, Copied, Task, Entry, files, Early
<1>10. Boundary'
  <2>1. stage'[r] = "next" => pending = {} /\ \A e \in Runs \X Tasks : journal[e].phase \notin Uncertain
      BY DEF PlanBatch, TakeGuard, TakeRunnerLock, CheckPrerequisites, FinishBatch, StopBatch, Goto,
             NothingPending, MigrationInv, Types
  <2> QED
      BY <1>1, <1>4, <2>1 DEF MigrationInv, Boundary, files
<1>11. Fresh'
    BY <1>1, <1>2, <1>4 DEF MigrationInv, Fresh, Task, files, Early, Owned, Over
<1>12. Rewritten' /\ OriginalIsKept' /\ VerifiedIsBackedUp'
    BY <1>1 DEF MigrationInv, Rewritten, OriginalIsKept, VerifiedIsBackedUp, files
<1> QED
    BY <1>5, <1>6, <1>8, <1>9, <1>10, <1>11, <1>12 DEF MigrationInv

---------------------------------------------------------------------------
(* While a batch works on a task, or between two, it is the only one.      *)
LEMMA Alone ==
    ASSUME MigrationInv, NEW r \in Runs, stage[r] \in Owned \cup {"journals", "next"}
    PROVE  \A x \in Runs \ {r} : stage[x] \notin Owned \cup {"journals", "next"}
BY DEF MigrationInv, Exclusive

\* A step changes the points, plans and journals of one run only, and of
\* its files those of its task.
OfRun(r) ==
    /\ \A x \in Runs \ {r} :
          /\ stage'[x] = stage[x] /\ todo'[x] = todo[x]
          /\ seen'[x] = seen[x] /\ want'[x] = want[x]
    /\ \A e \in Runs \X Tasks :
          e # Entry(r) => journal'[e] = journal[e] /\ backup'[e] = backup[e]

(* A step of a batch after which it is at work: what is known of that work *)
(* is all there is to show.                                                *)
LEMMA OwnedStep ==
    ASSUME MigrationInv, NEW r \in Runs, stage[r] \in Owned \cup {"next"},
           Types', OfRun(r), stage'[r] \in Owned, Own(r)',
           UNCHANGED <<live, rewriter, runner, todo>>,
           OriginalIsKept', VerifiedIsBackedUp'
    PROVE  MigrationInv'
<1>1. \A x \in Runs \ {r} : stage'[x] \notin Owned \cup {"journals", "next"}
    BY Alone DEF OfRun
<1>2. Exclusive'
    BY <1>1 DEF MigrationInv, Exclusive, Owned
<1>3. OwnInv' /\ Boundary'
    BY <1>1 DEF OwnInv, Boundary, Owned
<1>4. NativeInv'
  <2>1. SUFFICES ASSUME native' = {r}, stage'[r] = "working" PROVE NativeInv'
      BY <1>1 DEF Own, AtWork, NativeInv
  <2>2. Own(r)' => /\ (todo[r] # <<>>)'
                   /\ (Task(r) \in Tasks => /\ journal[Entry(r)].phase = "applying"
                                             /\ Copied(Entry(r), journal[Entry(r)].sha))'
      BY <2>1 DEF Own, AtWork, InStep, OnTask, Entry
  <2> QED
      BY <2>1, <2>2 DEF NativeInv
<1>5. Fresh'
  <2>1. ASSUME NEW x \in Runs, NEW t \in Tasks, stage'[x] \in Early \cup Owned,
               ~(stage'[x] \in Owned /\ t = Task(x)'), rewriter'[t] = Nobody
        PROVE  journal'[<<x, t>>].sha = NoFile
    <3>1. stage[x] \in Early \cup Owned /\ Task(x)' = Task(x)
        BY <2>1 DEF OfRun, Early, Task
    <3>2. <<x, t>> # Entry(r)
        BY <2>1, <3>1 DEF Entry
    <3>3. ~(stage[x] \in Owned /\ t = Task(x))
        BY <2>1, <3>1, <3>2 DEF OfRun, Entry
    <3> QED
        BY <2>1, <3>1, <3>2, <3>3 DEF MigrationInv, Fresh, OfRun
  <2> QED
      BY <2>1 DEF Fresh
<1>6. Rewritten'
    BY DEF MigrationInv, Rewritten
<1> QED
    BY <1>2, <1>3, <1>4, <1>5, <1>6 DEF MigrationInv

(* Such a step that leaves the files alone.                                *)
LEMMA QuietStep ==
    ASSUME MigrationInv, NEW r \in Runs, stage[r] \in Owned \cup {"next"},
           UNCHANGED <<live, rewriter, runner, todo, seen, journal, backup, trouble>>,
           stage' = [stage EXCEPT ![r] = stage'[r]], stage'[r] \in Owned,
           want' = [want EXCEPT ![r] = want'[r]],
           want'[r] = [phase |-> want'[r].phase, sha |-> want'[r].sha],
           want'[r].phase \in Phases,
           native' \subseteq Runs, Own(r)'
    PROVE  MigrationInv'
<1>1. Types'
  <2>1. /\ want' = [x \in Runs |-> [phase |-> want'[x].phase, sha |-> want'[x].sha]]
        /\ \A x \in Runs : want'[x].phase \in Phases
      BY DEF MigrationInv, Types
  <2>2. stage' \in [Runs -> Early \cup Owned \cup Over]
      BY DEF MigrationInv, Types
  <2> QED
      BY <2>1, <2>2 DEF MigrationInv, Types
<1>2. OfRun(r)
    BY DEF MigrationInv, Types, OfRun
<1>3. OriginalIsKept' /\ VerifiedIsBackedUp'
    BY DEF MigrationInv, OriginalIsKept, VerifiedIsBackedUp
<1> QED
    BY <1>1, <1>2, <1>3, OwnedStep

(* A run that ends gives up runner.lock; its process stays only if the run *)
(* was killed.                                                             *)
LEMMA EndStep ==
    ASSUME MigrationInv, NEW r \in Runs,
           Types', OfRun(r), stage'[r] \in Over,
           UNCHANGED <<live, rewriter, todo, native>>,
           runner' = IF runner = r THEN Nobody ELSE runner,
           stage[r] \notin Owned => UNCHANGED files,
           r \in native => stage'[r] = "killed" /\ UNCHANGED files,
           OriginalIsKept', VerifiedIsBackedUp'
    PROVE  MigrationInv'
<1>1. Exclusive'
    BY NobodyAssumption DEF MigrationInv, Exclusive, OfRun, Owned, Over
<1>2. OwnInv'
  <2>1. SUFFICES ASSUME NEW x \in Runs, stage'[x] \in Owned PROVE Own(x)'
      BY DEF OwnInv
  <2>2. x # r /\ stage[x] \in Owned /\ UNCHANGED files
      BY <2>1, Alone DEF OfRun, Owned, Over
  <2>3. Own(x)
      BY <2>2 DEF MigrationInv, OwnInv
  <2> QED
      BY <2>2, <2>3 DEF Own, AtWork, InStep, OnTask, Before, Copied, Task, Entry, files, OfRun
<1>3. Boundary'
  <2>1. SUFFICES ASSUME NEW x \in Runs, stage'[x] = "next"
                 PROVE  pending' = {} /\ \A e \in Runs \X Tasks : journal'[e].phase \notin Uncertain
      BY DEF Boundary
  <2>2. x # r /\ stage[x] = "next" /\ UNCHANGED files
      BY <2>1, Alone DEF OfRun, Over
  <2> QED
      BY <2>2 DEF MigrationInv, Boundary, files
<1>4. NativeInv'
  <2>1. SUFFICES ASSUME NEW x \in native
                 PROVE  /\ stage'[x] \in {"working", "killed"}
                        /\ todo'[x] # <<>>
                        /\ (Task(x) \in Tasks => /\ journal[Entry(x)].phase = "applying"
                                                 /\ Copied(Entry(x), journal[Entry(x)].sha))'
      BY DEF NativeInv
  <2>2. x \in Runs /\ NativeInv
      BY DEF MigrationInv, Types
  <2>3. CASE x = r
      BY <2>2, <2>3 DEF NativeInv, Copied, Task, Entry, files
  <2>4. CASE x # r
    <3>1. Task(x)' = Task(x) /\ Entry(x)' = Entry(x) /\ Entry(x) # Entry(r)
        BY <2>4 DEF Task, Entry
    <3>2. Task(x) \in Tasks => /\ journal'[Entry(x)] = journal[Entry(x)]
                               /\ backup'[Entry(x)] = backup[Entry(x)]
        BY <2>2, <2>4, <3>1 DEF OfRun, Entry
    <3> QED
        BY <2>2, <2>4, <3>1, <3>2 DEF NativeInv, OfRun, Copied
  <2> QED
      BY <2>3, <2>4
<1>5. Fresh'
  <2>1. ASSUME NEW x \in Runs, NEW t \in Tasks, stage'[x] \in Early \cup Owned,
               ~(stage'[x] \in Owned /\ t = Task(x)'), rewriter'[t] = Nobody
        PROVE  journal'[<<x, t>>].sha = NoFile
    <3>1. x # r
        BY <2>1 DEF Early, Owned, Over
    <3>2. stage'[x] = stage[x] /\ Task(x)' = Task(x) /\ journal'[<<x, t>>] = journal[<<x, t>>]
        BY <3>1 DEF OfRun, Task, Entry
    <3> QED
        BY <2>1, <3>1, <3>2 DEF MigrationInv, Fresh
  <2> QED
      BY <2>1 DEF Fresh
<1>6. Rewritten'
    BY DEF MigrationInv, Rewritten
<1> QED
    BY <1>1, <1>2, <1>3, <1>4, <1>5, <1>6 DEF MigrationInv

(* Whatever journal is published, a rewritten original is still named by   *)
(* it, and "verified" is said only of what was rewritten as backed up.     *)
LEMMA JournalWritten ==
    ASSUME MigrationInv, NEW r \in Runs, stage[r] = "publish",
           UNCHANGED <<live, rewriter, backup>>,
           journal' = [journal EXCEPT ![Entry(r)] = want[r]]
    PROVE  /\ journal' \in [Runs \X Tasks -> [phase : Phases, sha : Digests]]
           /\ OriginalIsKept' /\ VerifiedIsBackedUp'
<1>1. Own(r)
    BY DEF MigrationInv, OwnInv, Owned
<1>2. CASE Task(r) \notin Tasks
  <2>1. journal' = journal
      BY <1>2 DEF MigrationInv, Types, Entry
  <2> QED
      BY <2>1 DEF MigrationInv, Types, OriginalIsKept, VerifiedIsBackedUp
<1>3. CASE Task(r) \in Tasks
  <2>1. OnTask(r, Task(r)) /\ want[r].phase # "none"
      BY <1>1, <1>3 DEF Own, InStep
  <2>2. want[r] \in [phase : Phases, sha : Digests]
      BY <2>1 DEF OnTask, MigrationInv, Types
  <2>3. journal' \in [Runs \X Tasks -> [phase : Phases, sha : Digests]]
      BY <2>2 DEF MigrationInv, Types
  <2>4. Entry(r) \in Runs \X Tasks /\ journal'[Entry(r)] = want[r]
      BY <1>3 DEF Entry, MigrationInv, Types
  <2>5. \A e \in Runs \X Tasks : e # Entry(r) => journal'[e] = journal[e]
      BY DEF MigrationInv, Types
  <2>6. OriginalIsKept'
    <3>1. SUFFICES ASSUME NEW t \in Tasks, rewriter[t] # Nobody
                   PROVE  LET e == <<rewriter[t].run, t>> IN
                          /\ journal'[e].phase \in {"applying", "recovery_required", "verified"}
                          /\ journal'[e].sha \in Contents
                          /\ journal'[e].sha[2] = "legacy"
                          /\ backup[e] \in {journal'[e].sha, Damaged}
        BY DEF OriginalIsKept
    <3>2. rewriter[t].run \in Runs
        BY <3>1 DEF MigrationInv, Types
    <3>3. CASE t = Task(r)
      <4>1. rewriter[t].run = r /\ ~Before(r)
          BY <2>1, <3>1, <3>3 DEF OnTask
      <4>2. want[r].phase \in {"recovery_required", "verified"}
          BY <2>1, <4>1 DEF Before, MigrationInv, Types, Phases
      <4>3. Copied(Entry(r), want[r].sha)
          BY <2>1, <3>3, <4>2 DEF OnTask, Entry
      <4> QED
          BY <2>4, <3>3, <4>1, <4>2, <4>3 DEF Copied, Original, Entry
    <3>4. CASE t # Task(r)
      <4>1. <<rewriter[t].run, t>> # Entry(r)
          BY <3>4 DEF Entry
      <4> QED
          BY <2>5, <3>1, <3>2, <4>1 DEF MigrationInv, OriginalIsKept
    <3> QED
        BY <3>3, <3>4
  <2>7. VerifiedIsBackedUp'
    <3>1. SUFFICES ASSUME NEW e \in Runs \X Tasks, journal'[e].phase = "verified"
                   PROVE  /\ rewriter[e[2]] # Nobody
                          /\ rewriter[e[2]].run = e[1]
                          /\ journal'[e].sha = <<rewriter[e[2]].version, "legacy">>
        BY <2>3 DEF VerifiedIsBackedUp
    <3>2. CASE e = Entry(r)
        BY <2>1, <2>4, <3>1, <3>2 DEF OnTask, Entry
    <3>3. CASE e # Entry(r)
        BY <2>5, <3>1, <3>3 DEF MigrationInv, Types, VerifiedIsBackedUp
    <3> QED
        BY <3>2, <3>3
  <2> QED
      BY <2>3, <2>6, <2>7
<1> QED
    BY <1>2, <1>3

(* CheckCandidate finds a legacy history, which nobody rewrote, and for which *)
(* this run has no digest.                                                 *)
LEMMA CheckCandidateStep ==
    ASSUME MigrationInv, NEW r \in Runs, CheckCandidate(r)
    PROVE  MigrationInv'
<1>1. /\ stage[r] = "next" /\ stage'[r] = "write" /\ stage' = [stage EXCEPT ![r] = stage'[r]]
      /\ todo[r] # <<>> /\ Quiet /\ Unchanged(r, Task(r))
      /\ want'[r] = [phase |-> "backing_up", sha |-> NoFile]
      /\ want' = [want EXCEPT ![r] = want'[r]]
      /\ UNCHANGED <<live, rewriter, runner, todo, seen, native, files, trouble>>
    BY DEF CheckCandidate, Goto, MigrationInv, Types, store, locks, files
<1>2. Own(r)'
  <2>1. pending = {} /\ \A e \in Runs \X Tasks : journal[e].phase \notin Uncertain
      BY <1>1 DEF MigrationInv, Boundary
  <2>2. AtWork(r)' /\ InStep(r)'
      BY <1>1, <2>1 DEF AtWork, InStep, Quiet, files
  <2>3. ASSUME Task(r) \in Tasks PROVE OnTask(r, Task(r))'
    <3>1. rewriter[Task(r)] = Nobody
        BY <1>1, <2>3 DEF Unchanged, Eligible, MigrationInv, Rewritten
    <3>2. journal[<<r, Task(r)>>].sha = NoFile
        BY <1>1, <2>3, <3>1 DEF MigrationInv, Fresh, Early, Owned
    <3> QED
        BY <1>1, <3>1, <3>2 DEF OnTask, Before, Digests, Task, files
  <2> QED
      BY <1>1, <2>2, <2>3 DEF Own, Task
<1>4. /\ want'[r] = [phase |-> want'[r].phase, sha |-> want'[r].sha]
      /\ want'[r].phase \in Phases
    BY <1>1 DEF Phases
<1> QED
    BY <1>1, <1>2, <1>4, QuietStep DEF files, MigrationInv, Types, Owned

(* PlanNative changes only the point reached.                              *)
LEMMA PlanNativeStep ==
    ASSUME MigrationInv, NEW r \in Runs, PlanNative(r)
    PROVE  MigrationInv'
<1>1. /\ stage[r] = "plan" /\ stage'[r] = "recheck" /\ stage' = [stage EXCEPT ![r] = stage'[r]]
      /\ UNCHANGED <<live, rewriter, runner, todo, seen, want, native, files, trouble>>
    BY DEF PlanNative, Goto, MigrationInv, Types, store, locks, files
<1>2. Own(r)
    BY <1>1 DEF MigrationInv, OwnInv, Owned
<1>3. Own(r)'
  <2>1. AtWork(r)' /\ InStep(r)'
      BY <1>1, <1>2 DEF Own, AtWork, InStep, Entry, Task, files
  <2>2. ASSUME Task(r) \in Tasks PROVE OnTask(r, Task(r))'
      BY <1>1, <1>2, <2>2 DEF Own, InStep, OnTask, Before, Copied, Task, files
  <2> QED
      BY <1>1, <2>1, <2>2 DEF Own, Task
<1>4. /\ want'[r] = [phase |-> want'[r].phase, sha |-> want'[r].sha]
      /\ want'[r].phase \in Phases /\ want' = [want EXCEPT ![r] = want'[r]]
    BY <1>1 DEF MigrationInv, Types
<1> QED
    BY <1>1, <1>3, <1>4, QuietStep DEF files, MigrationInv, Types, Owned

(* Revalidate sees the history as the plan saw it and as it was copied: the *)
(* digest has the planned version.                                         *)
LEMMA RevalidateStep ==
    ASSUME MigrationInv, NEW r \in Runs, Revalidate(r)
    PROVE  MigrationInv'
<1>1. /\ stage[r] = "recheck" /\ stage'[r] = "write" /\ stage' = [stage EXCEPT ![r] = stage'[r]]
      /\ Unchanged(r, Task(r)) /\ ContentOf(Task(r)) = want[r].sha
      /\ want' = [want EXCEPT ![r] = want'[r]]
      /\ want'[r] = [phase |-> "applying", sha |-> want[r].sha]
      /\ UNCHANGED <<live, rewriter, runner, todo, seen, native, files, trouble>>
  <2>1. want[r] = [phase |-> want[r].phase, sha |-> want[r].sha]
      BY DEF MigrationInv, Types
  <2>2. want' = [want EXCEPT ![r] = want'[r]] /\ want'[r] = [want[r] EXCEPT !.phase = "applying"]
      BY DEF Revalidate, Request, MigrationInv, Types
  <2> QED
      BY <2>1, <2>2 DEF Revalidate, Goto, MigrationInv, Types, store, locks, files
<1>2. Own(r)
    BY <1>1 DEF MigrationInv, OwnInv, Owned
<1>3. Own(r)'
  <2>1. AtWork(r)' /\ InStep(r)'
      BY <1>1, <1>2 DEF Own, AtWork, InStep, Entry, Task, files
  <2>2. ASSUME Task(r) \in Tasks PROVE OnTask(r, Task(r))'
    <3>1. /\ OnTask(r, Task(r)) /\ want[r].phase = "backed_up" /\ rewriter[Task(r)] = Nobody
        BY <1>1, <1>2, <2>2 DEF Own, InStep, OnTask, Before
    <3>2. /\ want[r].sha = <<seen[r][Task(r)].version, "legacy">>
          /\ seen[r][Task(r)].version = live[Task(r)].version
          /\ live[Task(r)].version \in Nat
        BY <1>1, <2>2, TroubleAssumption DEF Unchanged, Eligible, ContentOf, MigrationInv, Types
    <3> QED
        BY <1>1, <3>1, <3>2 DEF OnTask, Before, Copied, Task, files
  <2> QED
      BY <1>1, <2>1, <2>2 DEF Own, Task
<1>4. /\ want'[r] = [phase |-> want'[r].phase, sha |-> want'[r].sha]
      /\ want'[r].phase \in Phases
    BY <1>1 DEF Phases
<1> QED
    BY <1>1, <1>3, <1>4, QuietStep DEF files, MigrationInv, Types, Owned

(* StartNative adds the only rewriting process.                            *)
LEMMA StartNativeStep ==
    ASSUME MigrationInv, NEW r \in Runs, StartNative(r)
    PROVE  MigrationInv'
<1>1. /\ stage[r] = "apply" /\ stage'[r] = "working" /\ stage' = [stage EXCEPT ![r] = stage'[r]]
      /\ native = {} /\ native' = {r}
      /\ UNCHANGED <<live, rewriter, runner, todo, seen, want, files, trouble>>
    BY DEF StartNative, Quiet, Goto, MigrationInv, Types, store, locks, files
<1>2. Own(r)
    BY <1>1 DEF MigrationInv, OwnInv, Owned
<1>3. Own(r)'
  <2>1. AtWork(r)' /\ InStep(r)'
      BY <1>1, <1>2 DEF Own, AtWork, InStep, Entry, Task, files
  <2>2. ASSUME Task(r) \in Tasks PROVE OnTask(r, Task(r))'
      BY <1>1, <1>2, <2>2 DEF Own, InStep, OnTask, Before, Copied, Task, files
  <2> QED
      BY <1>1, <2>1, <2>2 DEF Own, Task
<1>4. /\ want'[r] = [phase |-> want'[r].phase, sha |-> want'[r].sha]
      /\ want'[r].phase \in Phases /\ want' = [want EXCEPT ![r] = want'[r]]
    BY <1>1 DEF MigrationInv, Types
<1> QED
    BY <1>1, <1>3, <1>4, QuietStep DEF files, MigrationInv, Types, Owned

(* NativeReports sees a paginated history, so one that was rewritten.      *)
LEMMA NativeReportsStep ==
    ASSUME MigrationInv, NEW r \in Runs, NativeReports(r)
    PROVE  MigrationInv'
<1>1. /\ stage[r] = "working" /\ stage'[r] = "verify" /\ stage' = [stage EXCEPT ![r] = stage'[r]]
      /\ r \notin native /\ live[Task(r)].form = "paginated"
      /\ UNCHANGED <<live, rewriter, runner, todo, seen, want, native, files, trouble>>
    BY DEF NativeReports, Goto, MigrationInv, Types, store, locks, files
<1>2. Own(r)
    BY <1>1 DEF MigrationInv, OwnInv, Owned
<1>3. Own(r)'
  <2>1. AtWork(r)' /\ InStep(r)'
      BY <1>1, <1>2 DEF Own, AtWork, InStep, Entry, Task, files
  <2>2. ASSUME Task(r) \in Tasks PROVE OnTask(r, Task(r))'
    <3>1. rewriter[Task(r)] # Nobody
        BY <1>1, <2>2 DEF MigrationInv, Rewritten
    <3> QED
        BY <1>1, <1>2, <2>2, <3>1 DEF Own, InStep, OnTask, Before, Copied, Task, files
  <2> QED
      BY <1>1, <2>1, <2>2 DEF Own, Task
<1>4. /\ want'[r] = [phase |-> want'[r].phase, sha |-> want'[r].sha]
      /\ want'[r].phase \in Phases /\ want' = [want EXCEPT ![r] = want'[r]]
    BY <1>1 DEF MigrationInv, Types
<1> QED
    BY <1>1, <1>3, <1>4, QuietStep DEF files, MigrationInv, Types, Owned

(* VerifyContinuation finds the planned version, and there was no other in *)
(* between.                                                                *)
LEMMA VerifyContinuationStep ==
    ASSUME MigrationInv, NEW r \in Runs, VerifyContinuation(r)
    PROVE  MigrationInv'
<1>1. /\ stage[r] = "verify" /\ stage'[r] = "confirm" /\ stage' = [stage EXCEPT ![r] = stage'[r]]
      /\ live[Task(r)].version = seen[r][Task(r)].version
      /\ UNCHANGED <<live, rewriter, runner, todo, seen, want, native, files, trouble>>
    BY DEF VerifyContinuation, Goto, MigrationInv, Types, store, locks, files
<1>2. Own(r)
    BY <1>1 DEF MigrationInv, OwnInv, Owned
<1>3. Own(r)'
  <2>1. AtWork(r)' /\ InStep(r)'
      BY <1>1, <1>2 DEF Own, AtWork, InStep, Entry, Task, files
  <2>2. ASSUME Task(r) \in Tasks PROVE OnTask(r, Task(r))'
    <3>1. OnTask(r, Task(r)) /\ want[r].phase = "applying" /\ rewriter[Task(r)] # Nobody
        BY <1>1, <1>2, <2>2 DEF Own, InStep, OnTask
    <3>2. rewriter[Task(r)].version \in Nat /\ live[Task(r)].version \in Nat
        BY <2>2, <3>1, TroubleAssumption DEF MigrationInv, Types
    <3>3. rewriter[Task(r)].version = seen[r][Task(r)].version
        BY <1>1, <3>1, <3>2 DEF OnTask
    <3> QED
        BY <1>1, <3>1, <3>3 DEF OnTask, Before, Copied, Task, files
  <2> QED
      BY <1>1, <2>1, <2>2 DEF Own, Task
<1>4. /\ want'[r] = [phase |-> want'[r].phase, sha |-> want'[r].sha]
      /\ want'[r].phase \in Phases /\ want' = [want EXCEPT ![r] = want'[r]]
    BY <1>1 DEF MigrationInv, Types
<1> QED
    BY <1>1, <1>3, <1>4, QuietStep DEF files, MigrationInv, Types, Owned

(* ConfirmMigration wants to say "verified" of the version it verified.    *)
LEMMA ConfirmMigrationStep ==
    ASSUME MigrationInv, NEW r \in Runs, ConfirmMigration(r)
    PROVE  MigrationInv'
<1>1. /\ stage[r] = "confirm" /\ stage'[r] = "write" /\ stage' = [stage EXCEPT ![r] = stage'[r]]
      /\ want' = [want EXCEPT ![r] = want'[r]]
      /\ want'[r] = [phase |-> "verified", sha |-> want[r].sha]
      /\ UNCHANGED <<live, rewriter, runner, todo, seen, native, files, trouble>>
  <2>1. want[r] = [phase |-> want[r].phase, sha |-> want[r].sha]
      BY DEF MigrationInv, Types
  <2>2. want' = [want EXCEPT ![r] = want'[r]] /\ want'[r] = [want[r] EXCEPT !.phase = "verified"]
      BY DEF ConfirmMigration, Request, MigrationInv, Types
  <2> QED
      BY <2>1, <2>2 DEF ConfirmMigration, Goto, MigrationInv, Types, store, locks, files
<1>2. Own(r)
    BY <1>1 DEF MigrationInv, OwnInv, Owned
<1>3. Own(r)'
  <2>1. AtWork(r)' /\ InStep(r)'
      BY <1>1, <1>2 DEF Own, AtWork, InStep, Entry, Task, files
  <2>2. ASSUME Task(r) \in Tasks PROVE OnTask(r, Task(r))'
    <3>1. OnTask(r, Task(r)) /\ want[r].phase = "applying"
        BY <1>1, <1>2, <2>2 DEF Own, InStep
    <3> QED
        BY <1>1, <3>1 DEF OnTask, Before, Copied, Task, files
  <2> QED
      BY <1>1, <2>1, <2>2 DEF Own, Task
<1>4. /\ want'[r] = [phase |-> want'[r].phase, sha |-> want'[r].sha]
      /\ want'[r].phase \in Phases
    BY <1>1 DEF Phases
<1> QED
    BY <1>1, <1>3, <1>4, QuietStep DEF files, MigrationInv, Types, Owned

(* CopyOriginal copies a history that nobody rewrote, so the original.     *)
LEMMA CopyOriginalStep ==
    ASSUME MigrationInv, NEW r \in Runs, CopyOriginal(r)
    PROVE  MigrationInv'
<1> DEFINE content == ContentOf(Task(r))
<1>1. /\ stage[r] = "copy" /\ stage'[r] = "write" /\ stage' = [stage EXCEPT ![r] = stage'[r]]
      /\ want' = [want EXCEPT ![r] = want'[r]]
      /\ want'[r] = [phase |-> "backed_up", sha |-> content]
      /\ backup' = [backup EXCEPT ![Entry(r)] = content]
      /\ UNCHANGED <<live, rewriter, runner, todo, seen, native, journal, pending, trouble>>
    BY DEF CopyOriginal, Goto, MigrationInv, Types, store, locks
<1>2. Own(r)
    BY <1>1 DEF MigrationInv, OwnInv, Owned
<1> HIDE DEF content
<1>3. Task(r) \in Tasks =>
        /\ OnTask(r, Task(r)) /\ want[r].phase = "backing_up" /\ rewriter[Task(r)] = Nobody
        /\ Original(content) /\ content \in Digests
  <2>1. SUFFICES ASSUME Task(r) \in Tasks
                 PROVE  /\ OnTask(r, Task(r)) /\ want[r].phase = "backing_up"
                        /\ rewriter[Task(r)] = Nobody
                        /\ Original(content) /\ content \in Digests
      OBVIOUS
  <2>2. OnTask(r, Task(r)) /\ want[r].phase = "backing_up" /\ rewriter[Task(r)] = Nobody
      BY <1>1, <1>2, <2>1 DEF Own, InStep, OnTask, Before
  <2>3. live[Task(r)].form = "legacy" /\ live[Task(r)].version \in 0 .. MaxTrouble
      BY <2>1, <2>2 DEF MigrationInv, Rewritten, Types
  <2> QED
      BY <2>2, <2>3 DEF content, ContentOf, Original, Contents, Forms, Digests
<1>4. Types'
  <2>1. backup' \in [Runs \X Tasks -> Digests \cup {Damaged}]
    <3>1. CASE Task(r) \in Tasks
        BY <1>1, <1>3, <3>1 DEF MigrationInv, Types
    <3>2. CASE Task(r) \notin Tasks
      <4>1. backup' = backup
          BY <1>1, <3>2 DEF MigrationInv, Types, Entry
      <4> QED
          BY <4>1 DEF MigrationInv, Types
    <3> QED
        BY <3>1, <3>2
  <2>2. /\ want' = [x \in Runs |-> [phase |-> want'[x].phase, sha |-> want'[x].sha]]
        /\ \A x \in Runs : want'[x].phase \in Phases
    <3>1. /\ want'[r] = [phase |-> want'[r].phase, sha |-> want'[r].sha]
          /\ want'[r].phase \in Phases
        BY <1>1 DEF Phases
    <3>2. want' = [want EXCEPT ![r] = want'[r]]
        BY <1>1
    <3> QED
        BY <3>1, <3>2 DEF MigrationInv, Types
  <2>3. stage' \in [Runs -> Early \cup Owned \cup Over]
      BY <1>1 DEF MigrationInv, Types, Owned
  <2> QED
      BY <1>1, <2>1, <2>2, <2>3 DEF MigrationInv, Types
<1>5. OfRun(r)
    BY <1>1 DEF MigrationInv, Types, OfRun
<1>6. Own(r)'
  <2>1. AtWork(r)' /\ InStep(r)'
      BY <1>1, <1>2 DEF Own, AtWork, InStep, Entry, Task
  <2>2. ASSUME Task(r) \in Tasks PROVE OnTask(r, Task(r))'
    <3>1. backup'[<<r, Task(r)>>] = content
        BY <1>1, <2>2 DEF MigrationInv, Types, Entry
    <3>2. journal[<<r, Task(r)>>].sha = NoFile
        BY <1>3, <2>2 DEF OnTask
    <3> QED
        BY <1>1, <1>3, <2>2, <3>1, <3>2 DEF OnTask, Before, Copied, Task
  <2> QED
      BY <1>1, <2>1, <2>2 DEF Own, Task
<1>7. OriginalIsKept'
  <2>1. SUFFICES ASSUME NEW t \in Tasks, rewriter[t] # Nobody
                 PROVE  backup'[<<rewriter[t].run, t>>] = backup[<<rewriter[t].run, t>>]
      BY <1>1 DEF MigrationInv, OriginalIsKept
  <2>2. <<rewriter[t].run, t>> # Entry(r)
      BY <1>3, <2>1 DEF Entry
  <2> QED
      BY <1>1, <2>2 DEF MigrationInv, Types
<1>8. VerifiedIsBackedUp'
    BY <1>1 DEF MigrationInv, VerifiedIsBackedUp
<1> QED
    BY <1>1, <1>4, <1>5, <1>6, <1>7, <1>8, OwnedStep DEF Owned

(* StageJournal writes the .pending file of the task at hand.              *)
LEMMA StageJournalStep ==
    ASSUME MigrationInv, NEW r \in Runs, StageJournal(r)
    PROVE  MigrationInv'
<1>1. /\ stage[r] = "write" /\ stage'[r] = "publish" /\ stage' = [stage EXCEPT ![r] = stage'[r]]
      /\ pending' = pending \cup {Entry(r)}
      /\ UNCHANGED <<live, rewriter, runner, todo, seen, want, native, journal, backup, trouble>>
    BY DEF StageJournal, Goto, MigrationInv, Types, store, locks
<1>2. Own(r)
    BY <1>1 DEF MigrationInv, OwnInv, Owned
<1>3. Own(r)'
  <2>1. AtWork(r)' /\ InStep(r)'
      BY <1>1, <1>2 DEF Own, AtWork, InStep, Entry, Task
  <2>2. ASSUME Task(r) \in Tasks PROVE OnTask(r, Task(r))'
      BY <1>1, <1>2, <2>2 DEF Own, InStep, OnTask, Before, Copied, Task
  <2> QED
      BY <1>1, <2>1, <2>2 DEF Own, Task
<1>4. /\ want'[r] = [phase |-> want'[r].phase, sha |-> want'[r].sha]
      /\ want'[r].phase \in Phases /\ want' = [want EXCEPT ![r] = want'[r]]
    BY <1>1 DEF MigrationInv, Types
<1> QED
    BY <1>1, <1>3, <1>4, QuietStep DEF MigrationInv, Types, Owned

(* Whatever error ends the operation, it is "recovery_required" that is    *)
(* wanted once the rewriting may have begun.                               *)
LEMMA UnwindStep ==
    ASSUME MigrationInv, NEW r \in Runs, stage[r] \in Owned, Unwind(r), Goto(r, "write"),
           stage[r] \in {"write", "publish"} => want[r].phase \in {"backed_up", "applying", "verified"},
           UNCHANGED <<live, rewriter, runner, todo, seen, backup>>,
           native' \subseteq native \ {r}, pending' \subseteq pending,
           trouble' \in trouble .. MaxTrouble,
           \/ journal' = journal /\ OriginalIsKept' /\ VerifiedIsBackedUp'
           \/ journal' = [journal EXCEPT ![Entry(r)] = want[r]] /\ stage[r] = "publish"
    PROVE  MigrationInv'
<1> DEFINE late == \/ stage[r] \in {"apply", "working", "verify", "confirm"}
                   \/ stage[r] \in {"write", "publish"} /\ want[r].phase = "verified"
           phase == IF late THEN "recovery_required" ELSE "refused_before_apply"
<1>1. /\ stage'[r] = "write" /\ stage' = [stage EXCEPT ![r] = stage'[r]]
      /\ want' = [want EXCEPT ![r] = want'[r]]
      /\ want'[r] = [phase |-> phase, sha |-> want[r].sha]
  <2>1. want[r] = [phase |-> want[r].phase, sha |-> want[r].sha]
      BY DEF MigrationInv, Types
  <2>2. want' = [want EXCEPT ![r] = want'[r]] /\ want'[r] = [want[r] EXCEPT !.phase = phase]
      BY DEF Unwind, Request, MigrationInv, Types
  <2>3. want'[r] = [phase |-> phase, sha |-> want[r].sha]
      BY <2>1, <2>2
  <2> QED
      BY <2>2, <2>3 DEF Goto, MigrationInv, Types
<1>2. phase \in {"recovery_required", "refused_before_apply"}
    OBVIOUS
<1>3. Own(r)
    BY DEF MigrationInv, OwnInv
<1>4. /\ journal' \in [Runs \X Tasks -> [phase : Phases, sha : Digests]]
      /\ OriginalIsKept' /\ VerifiedIsBackedUp'
    BY JournalWritten DEF MigrationInv, Types
<1>5. /\ \A e \in Runs \X Tasks : e # Entry(r) => journal'[e] = journal[e]
      /\ Task(r) \in Tasks => journal'[<<r, Task(r)>>].sha \in {NoFile, want[r].sha}
    BY <1>3 DEF MigrationInv, Types, Own, OnTask, Entry
<1>6. Own(r)'
  <2>1. AtWork(r)' /\ InStep(r)'
      BY <1>1, <1>2, <1>3, <1>5 DEF Own, AtWork, InStep, Entry, Task
  <2>2. ASSUME Task(r) \in Tasks PROVE OnTask(r, Task(r))'
    <3>1. OnTask(r, Task(r)) /\ InStep(r)
        BY <1>3, <2>2 DEF Own
    <3>2. ~late => rewriter[Task(r)] = Nobody
        BY <3>1 DEF OnTask, Before, Owned
    <3>3. late => Copied(<<r, Task(r)>>, want[r].sha)
        BY <3>1 DEF OnTask, InStep
    <3>4. Copied(<<r, Task(r)>>, want[r].sha)' <=> Copied(<<r, Task(r)>>, want[r].sha)
        BY <1>1 DEF Copied, Task
    <3> HIDE DEF late
    <3> QED
        BY <1>1, <1>5, <2>2, <3>1, <3>2, <3>3, <3>4 DEF OnTask, Before, Task
  <2> QED
      BY <2>1, <2>2 DEF Own, Task
<1>7. Types'
  <2> HIDE DEF phase
  <2>1. /\ want' = [x \in Runs |-> [phase |-> want'[x].phase, sha |-> want'[x].sha]]
        /\ \A x \in Runs : want'[x].phase \in Phases
    <3>1. /\ want'[r] = [phase |-> want'[r].phase, sha |-> want'[r].sha]
          /\ want'[r].phase \in Phases
        BY <1>1, <1>2 DEF Phases
    <3>2. want' = [want EXCEPT ![r] = want'[r]]
        BY <1>1
    <3> QED
        BY <3>1, <3>2 DEF MigrationInv, Types
  <2>2. stage' \in [Runs -> Early \cup Owned \cup Over]
      BY <1>1 DEF MigrationInv, Types, Owned
  <2>3. trouble' \in 0 .. MaxTrouble /\ \A t \in Tasks : live'[t].version <= trouble'
      BY TroubleAssumption DEF MigrationInv, Types
  <2> QED
      BY <1>4, <2>1, <2>2, <2>3 DEF MigrationInv, Types
<1>8. OfRun(r)
    BY <1>1, <1>5 DEF MigrationInv, Types, OfRun
<1> QED
    BY <1>1, <1>4, <1>6, <1>7, <1>8, OwnedStep DEF Owned

(* Refuse tears the rewriting process down and unwinds.                    *)
LEMMA RefuseStep ==
    ASSUME MigrationInv, NEW r \in Runs, Refuse(r)
    PROVE  MigrationInv'
<1>1. /\ stage[r] \in Owned \ {"write", "publish"} /\ Unwind(r) /\ Goto(r, "write")
      /\ native' = native \ {r} /\ trouble' = trouble
      /\ UNCHANGED <<live, rewriter, runner, todo, seen, journal, pending, backup>>
    BY DEF Refuse, Owned, store, locks, files
<1>2. OriginalIsKept' /\ VerifiedIsBackedUp'
    BY <1>1 DEF MigrationInv, OriginalIsKept, VerifiedIsBackedUp
<1>3. trouble' \in trouble .. MaxTrouble
    BY <1>1, TroubleAssumption DEF MigrationInv, Types
<1> QED
    BY <1>1, <1>2, <1>3, UnwindStep

(* JournalFails unwinds or ends, with the journal published or not.        *)
LEMMA JournalFailsStep ==
    ASSUME MigrationInv, NEW r \in Runs, JournalFails(r)
    PROVE  MigrationInv'
<1>1. /\ stage[r] \in {"write", "publish"}
      /\ UNCHANGED <<live, rewriter, todo, seen, native, backup>>
      /\ trouble' \in trouble .. MaxTrouble
      /\ pending' \subseteq pending
      /\ \/ UNCHANGED journal
         \/ stage[r] = "publish" /\ journal' = [journal EXCEPT ![Entry(r)] = want[r]]
    BY TroubleAssumption DEF JournalFails, Trouble, MigrationInv, Types, store
<1>2. Own(r) /\ stage[r] \in Owned
    BY <1>1 DEF MigrationInv, OwnInv, Owned
<1>3. /\ journal' \in [Runs \X Tasks -> [phase : Phases, sha : Digests]]
      /\ OriginalIsKept' /\ VerifiedIsBackedUp'
  <2>1. CASE UNCHANGED journal
      BY <1>1, <2>1 DEF MigrationInv, Types, OriginalIsKept, VerifiedIsBackedUp
  <2>2. CASE stage[r] = "publish" /\ journal' = [journal EXCEPT ![Entry(r)] = want[r]]
      BY <1>1, <2>2, JournalWritten
  <2> QED
      BY <1>1, <2>1, <2>2
<1>4. CASE want[r].phase \in {"recovery_required", "refused_before_apply", "backing_up"}
  <2>1. /\ stage' = [stage EXCEPT ![r] = "stopped"] /\ want' = want
        /\ runner' = IF runner = r THEN Nobody ELSE runner
      BY <1>4 DEF JournalFails, Release, Goto
  <2>2. trouble' \in 0 .. MaxTrouble /\ \A t \in Tasks : live'[t].version <= trouble'
      BY <1>1, TroubleAssumption DEF MigrationInv, Types
  <2>3. stage' \in [Runs -> Early \cup Owned \cup Over] /\ stage'[r] \in Over
      BY <2>1 DEF MigrationInv, Types, Over
  <2>4. Types'
      BY <1>1, <1>3, <2>1, <2>2, <2>3 DEF MigrationInv, Types
  <2>5. OfRun(r)
      BY <1>1, <2>1 DEF MigrationInv, Types, OfRun
  <2>6. r \notin native
      BY <1>1, <1>2 DEF Own, AtWork
  <2> QED
      BY <1>1, <1>2, <1>3, <2>1, <2>3, <2>4, <2>5, <2>6, EndStep
<1>5. CASE want[r].phase \notin {"recovery_required", "refused_before_apply", "backing_up"}
  <2>1. Unwind(r) /\ Goto(r, "write") /\ runner' = runner
      BY <1>5 DEF JournalFails, locks
  <2>2. want[r].phase \in {"backed_up", "applying", "verified"} /\ native' \subseteq native \ {r}
      BY <1>1, <1>2, <1>5 DEF Own, AtWork, InStep, MigrationInv, Types, Phases
  <2> QED
      BY <1>1, <1>2, <1>3, <2>1, <2>2, UnwindStep
<1> QED
    BY <1>4, <1>5

(* PublishJournal goes on with the task, passes to the next or ends.       *)
LEMMA PublishJournalStep ==
    ASSUME MigrationInv, NEW r \in Runs, PublishJournal(r)
    PROVE  MigrationInv'
<1> DEFINE next == After(want[r].phase)
<1>1. /\ stage[r] = "publish" /\ stage'[r] = next /\ stage' = [stage EXCEPT ![r] = next]
      /\ journal' = [journal EXCEPT ![Entry(r)] = want[r]]
      /\ pending' = pending \ {Entry(r)}
      /\ todo' = IF next = "next" THEN [todo EXCEPT ![r] = Tail(@)] ELSE todo
      /\ IF next = "stopped" THEN Release(r) ELSE runner' = runner
      /\ UNCHANGED <<live, rewriter, seen, want, native, backup, trouble>>
    BY DEF PublishJournal, Goto, MigrationInv, Types, store, locks
<1>2. Own(r) /\ native = {} /\ pending' = {} /\ want[r].phase \in Phases \ {"none"}
    BY <1>1 DEF MigrationInv, OwnInv, Owned, Own, AtWork, InStep, Types
<1>3. /\ journal' \in [Runs \X Tasks -> [phase : Phases, sha : Digests]]
      /\ OriginalIsKept' /\ VerifiedIsBackedUp'
    BY <1>1, JournalWritten
<1>4. /\ \A e \in Runs \X Tasks : e # Entry(r) => journal'[e] = journal[e]
      /\ Task(r) \in Tasks => journal'[<<r, Task(r)>>] = want[r]
    BY <1>1 DEF MigrationInv, Types, Entry
<1>5. /\ want[r].phase = "backing_up" => next = "copy"
      /\ want[r].phase = "backed_up" => next = "plan"
      /\ want[r].phase = "applying" => next = "apply"
      /\ want[r].phase = "verified" => next = "next"
      /\ want[r].phase \in {"recovery_required", "refused_before_apply"} => next = "stopped"
    BY DEF After
<1> HIDE DEF next
<1>6. Types'
  <2>1. todo' = [x \in Runs |-> todo'[x]]
      BY <1>1 DEF MigrationInv, Types
  <2>2. stage' \in [Runs -> Early \cup Owned \cup Over]
    <3>1. next \in Early \cup Owned \cup Over
        BY <1>2, <1>5 DEF Early, Owned, Over, Phases
    <3> QED
        BY <1>1, <3>1 DEF MigrationInv, Types
  <2> QED
      BY <1>1, <1>3, <2>1, <2>2 DEF MigrationInv, Types
<1>7. OfRun(r)
    BY <1>1, <1>4 DEF MigrationInv, Types, OfRun
<1>8. CASE want[r].phase \in {"backing_up", "backed_up", "applying"}
  <2>1. next \in {"copy", "plan", "apply"} /\ todo' = todo /\ runner' = runner
      BY <1>1, <1>5, <1>8
  <2>2. AtWork(r)' /\ InStep(r)'
      BY <1>1, <1>2, <1>4, <1>5, <1>8, <2>1 DEF Own, AtWork, InStep, Entry, Task
  <2>3. ASSUME Task(r) \in Tasks PROVE OnTask(r, Task(r))'
    <3>1. OnTask(r, Task(r)) /\ rewriter[Task(r)] = Nobody
        BY <1>1, <1>2, <1>8, <2>3 DEF Own, OnTask, Before
    <3>2. Copied(<<r, Task(r)>>, want[r].sha)' <=> Copied(<<r, Task(r)>>, want[r].sha)
        BY <1>1, <2>1 DEF Copied, Task
    <3> QED
        BY <1>1, <1>4, <1>8, <2>1, <2>3, <3>1, <3>2 DEF OnTask, Before, Task
  <2> QED
      BY <1>1, <1>3, <1>6, <1>7, <2>1, <2>2, <2>3, OwnedStep DEF Own, Owned, Task
<1>9. CASE want[r].phase \in {"recovery_required", "refused_before_apply"}
  <2>1. next = "stopped" /\ todo' = todo
      BY <1>1, <1>5, <1>9
  <2> QED
      BY <1>1, <1>2, <1>3, <1>6, <1>7, <2>1, EndStep DEF Release, Owned, Over
<1>10. CASE want[r].phase = "verified"
  <2>1. next = "next" /\ runner' = runner
      BY <1>1, <1>5, <1>10
  <2>2. \A x \in Runs \ {r} : stage'[x] \notin Owned \cup {"journals", "next"}
      BY <1>1, <1>7, Alone DEF OfRun, Owned
  <2>3. stage'[r] = "next" /\ stage'[r] \notin Owned
      BY <1>1, <2>1 DEF Owned
  <2>4. Exclusive' /\ OwnInv' /\ NativeInv'
      BY <1>1, <1>2, <2>1, <2>2, <2>3 DEF MigrationInv, Exclusive, OwnInv, NativeInv, Owned
  <2>5. Boundary'
    <3>1. ASSUME NEW e \in Runs \X Tasks PROVE journal'[e].phase \notin Uncertain
      <4>1. CASE e = Entry(r)
          BY <1>4, <1>10, <4>1 DEF Entry, Uncertain
      <4>2. CASE e # Entry(r)
          BY <1>2, <1>4, <4>2 DEF Own, AtWork
      <4> QED
          BY <4>1, <4>2
    <3> QED
        BY <1>2, <3>1 DEF Boundary
  <2>6. Fresh'
    <3>1. ASSUME NEW x \in Runs, NEW t \in Tasks, stage'[x] \in Early \cup Owned,
                 ~(stage'[x] \in Owned /\ t = Task(x)'), rewriter[t] = Nobody
          PROVE  journal'[<<x, t>>].sha = NoFile
      <4>1. CASE x = r
        <5>1. t # Task(r)
            BY <1>2, <1>10, <3>1 DEF Own, OnTask
        <5>2. journal[<<x, t>>].sha = NoFile
            BY <1>1, <3>1, <4>1, <5>1 DEF MigrationInv, Fresh, Owned
        <5> QED
            BY <1>4, <4>1, <5>1, <5>2 DEF Entry
      <4>2. CASE x # r
        <5>1. stage'[x] = stage[x] /\ Task(x)' = Task(x) /\ <<x, t>> # Entry(r)
            BY <1>7, <4>2 DEF OfRun, Task, Entry
        <5> QED
            BY <1>4, <3>1, <5>1 DEF MigrationInv, Fresh
      <4> QED
          BY <4>1, <4>2
    <3> QED
        BY <1>1, <3>1 DEF Fresh
  <2>7. Rewritten'
      BY <1>1 DEF MigrationInv, Rewritten
  <2> QED
      BY <1>3, <1>6, <2>4, <2>5, <2>6, <2>7 DEF MigrationInv
<1> QED
    BY <1>2, <1>8, <1>9, <1>10 DEF Phases

(* Kill leaves the journal as it is, and the process.                      *)
LEMMA KillStep ==
    ASSUME MigrationInv, NEW r \in Runs, Kill(r)
    PROVE  MigrationInv'
<1>1. /\ stage' = [stage EXCEPT ![r] = "killed"]
      /\ runner' = IF runner = r THEN Nobody ELSE runner
      /\ UNCHANGED <<live, rewriter, todo, seen, want, native, files, trouble>>
    BY DEF Kill, Release, Goto, store
<1>2. stage' \in [Runs -> Early \cup Owned \cup Over] /\ stage'[r] = "killed"
    BY <1>1 DEF MigrationInv, Types, Over
<1>3. Types'
    BY <1>1, <1>2 DEF MigrationInv, Types, files
<1>4. OfRun(r)
    BY <1>1 DEF MigrationInv, Types, OfRun, files
<1>5. OriginalIsKept' /\ VerifiedIsBackedUp'
    BY <1>1 DEF MigrationInv, OriginalIsKept, VerifiedIsBackedUp, files
<1> QED
    BY <1>1, <1>2, <1>3, <1>4, <1>5, EndStep DEF Over

---------------------------------------------------------------------------
(* The others: histories stay rewritten and only get newer, copies are only *)
(* damaged, rewriting processes only end.                                  *)
LEMMA ElsewhereStep ==
    ASSUME MigrationInv, Types',
           UNCHANGED <<rewriter, runner, stage, todo, seen, want, journal, pending>>,
           native' \subseteq native,
           \A t \in Tasks : /\ live'[t].form = "legacy" <=> live[t].form = "legacy"
                            /\ live[t].version <= live'[t].version,
           \A e \in Runs \X Tasks : backup'[e] \in {backup[e], Damaged}
    PROVE  MigrationInv'
<1>1. \A e \in Runs \X Tasks : \A sha : Copied(e, sha) => Copied(e, sha)'
    BY DEF Copied
<1>2. OwnInv'
  <2>1. SUFFICES ASSUME NEW r \in Runs, stage[r] \in Owned PROVE Own(r)'
      BY DEF OwnInv
  <2>2. Own(r)
      BY <2>1 DEF MigrationInv, OwnInv
  <2>3. AtWork(r)' /\ InStep(r)'
      BY <2>2 DEF Own, AtWork, InStep, Entry, Task
  <2>4. ASSUME Task(r) \in Tasks PROVE OnTask(r, Task(r))'
    <3>1. OnTask(r, Task(r)) /\ <<r, Task(r)>> \in Runs \X Tasks
        BY <2>2, <2>4 DEF Own
    <3>2. /\ live[Task(r)].version \in Nat /\ live'[Task(r)].version \in Nat
          /\ seen[r][Task(r)].version \in Nat
          /\ rewriter[Task(r)] # Nobody => rewriter[Task(r)].version \in Nat
        BY <2>4, TroubleAssumption DEF MigrationInv, Types
    <3>3. Copied(<<r, Task(r)>>, want[r].sha) => Copied(<<r, Task(r)>>, want[r].sha)'
        BY <1>1, <3>1 DEF Task, Copied
    <3> QED
        BY <2>4, <3>1, <3>2, <3>3 DEF OnTask, Before, Task
  <2> QED
      BY <2>3, <2>4 DEF Own, Task
<1>3. NativeInv'
  <2>1. SUFFICES ASSUME NEW r \in native', Task(r) \in Tasks
                 PROVE  Copied(Entry(r), journal[Entry(r)].sha)'
      BY DEF MigrationInv, NativeInv, Task, Entry
  <2>2. Copied(Entry(r), journal[Entry(r)].sha) /\ Entry(r) \in Runs \X Tasks
      BY <2>1 DEF MigrationInv, NativeInv, Types, Entry
  <2> QED
      BY <2>2 DEF Copied, Entry, Task
<1>4. OriginalIsKept'
  <2>1. SUFFICES ASSUME NEW t \in Tasks, rewriter[t] # Nobody
                 PROVE  backup'[<<rewriter[t].run, t>>] \in {journal[<<rewriter[t].run, t>>].sha, Damaged}
      BY DEF MigrationInv, OriginalIsKept
  <2>2. <<rewriter[t].run, t>> \in Runs \X Tasks
      BY <2>1 DEF MigrationInv, Types
  <2> QED
      BY <2>1, <2>2 DEF MigrationInv, OriginalIsKept
<1>5. Rewritten' /\ Exclusive' /\ Boundary' /\ Fresh' /\ VerifiedIsBackedUp'
    BY DEF MigrationInv, Rewritten, Exclusive, Boundary, Fresh, VerifiedIsBackedUp, Task
<1> QED
    BY <1>2, <1>3, <1>4, <1>5 DEF MigrationInv

(* Codex edits and unarchives histories without rewriting them.            *)
LEMMA CodexStep ==
    ASSUME MigrationInv, Codex
    PROVE  MigrationInv'
<1>1. UNCHANGED <<rewriter, runner, stage, todo, seen, want, native, journal, pending, backup>>
    BY DEF Codex, locks, files
<1>2. /\ live' \in [Tasks -> [version : 0 .. MaxTrouble, form : Forms, archived : BOOLEAN]]
      /\ trouble' \in 0 .. MaxTrouble
      /\ \A t \in Tasks : /\ live'[t].version <= trouble'
                          /\ live'[t].form = live[t].form
                          /\ live[t].version <= live'[t].version
  <2>1. CASE live' = live /\ trouble' = trouble
      BY <2>1, TroubleAssumption DEF MigrationInv, Types
  <2>2. ASSUME NEW t \in Tasks, Trouble, live' = [live EXCEPT ![t].version = @ + 1]
        PROVE  /\ live' \in [Tasks -> [version : 0 .. MaxTrouble, form : Forms, archived : BOOLEAN]]
               /\ trouble' \in 0 .. MaxTrouble
               /\ \A x \in Tasks : /\ live'[x].version <= trouble'
                                   /\ live'[x].form = live[x].form
                                   /\ live[x].version <= live'[x].version
    <3>1. /\ trouble \in Nat /\ trouble' = trouble + 1 /\ trouble' \in 0 .. MaxTrouble
          /\ \A x \in Tasks : live[x].version \in Nat /\ live[x].version <= trouble
        BY <2>2, TroubleAssumption DEF MigrationInv, Types, Trouble
    <3>2. live'[t] = [live[t] EXCEPT !.version = @ + 1] /\ \A x \in Tasks : x # t => live'[x] = live[x]
        BY <2>2 DEF MigrationInv, Types
    <3>3. live[t].version + 1 \in 0 .. MaxTrouble
        BY <3>1, TroubleAssumption
    <3>4. live'[t] = [version |-> live[t].version + 1, form |-> live[t].form,
                      archived |-> live[t].archived]
        BY <3>2 DEF MigrationInv, Types
    <3>5. live[t].form \in Forms /\ live[t].archived \in BOOLEAN
        BY DEF MigrationInv, Types
    <3>6. /\ live'[t] \in [version : 0 .. MaxTrouble, form : Forms, archived : BOOLEAN]
          /\ live'[t].version = live[t].version + 1 /\ live'[t].form = live[t].form
        BY <3>3, <3>4, <3>5
    <3>7. live' \in [Tasks -> [version : 0 .. MaxTrouble, form : Forms, archived : BOOLEAN]]
        BY <2>2, <3>2, <3>6 DEF MigrationInv, Types
    <3> QED
        BY <3>1, <3>2, <3>6, <3>7
  <2>3. ASSUME NEW t \in Tasks, Trouble, live' = [live EXCEPT ![t].archived = FALSE]
        PROVE  /\ live' \in [Tasks -> [version : 0 .. MaxTrouble, form : Forms, archived : BOOLEAN]]
               /\ trouble' \in 0 .. MaxTrouble
               /\ \A x \in Tasks : /\ live'[x].version <= trouble'
                                   /\ live'[x].form = live[x].form
                                   /\ live[x].version <= live'[x].version
    <3>1. /\ trouble \in Nat /\ trouble' = trouble + 1 /\ trouble' \in 0 .. MaxTrouble
          /\ \A x \in Tasks : live[x].version \in Nat /\ live[x].version <= trouble
        BY <2>3, TroubleAssumption DEF MigrationInv, Types, Trouble
    <3>2. /\ live' \in [Tasks -> [version : 0 .. MaxTrouble, form : Forms, archived : BOOLEAN]]
          /\ \A x \in Tasks : live'[x].version = live[x].version /\ live'[x].form = live[x].form
        BY <2>3 DEF MigrationInv, Types
    <3> QED
        BY <3>1, <3>2
  <2> QED
      BY <2>1, <2>2, <2>3 DEF Codex
<1>3. Types'
    BY <1>1, <1>2 DEF MigrationInv, Types
<1> QED
    BY <1>1, <1>2, <1>3, ElsewhereStep

(* The world takes the disk away and damages copies.                       *)
LEMMA WorldStep ==
    ASSUME MigrationInv, World
    PROVE  MigrationInv'
<1>1. UNCHANGED <<live, rewriter, runner, stage, todo, seen, want, native, journal, pending>>
    BY DEF World, store, locks
<1>2. /\ trouble' \in 0 .. MaxTrouble
      /\ \A t \in Tasks : live'[t].version <= trouble' /\ live[t].version <= live'[t].version
    BY <1>1, TroubleAssumption DEF World, Trouble, MigrationInv, Types
<1>3. /\ backup' \in [Runs \X Tasks -> Digests \cup {Damaged}]
      /\ \A e \in Runs \X Tasks : backup'[e] \in {backup[e], Damaged}
    BY DEF World, MigrationInv, Types
<1>4. Types'
    BY <1>1, <1>2, <1>3 DEF MigrationInv, Types
<1> QED
    BY <1>1, <1>2, <1>3, <1>4, ElsewhereStep

(* A process that dies has done what it has done.                          *)
LEMMA NativeDiesStep ==
    ASSUME MigrationInv, NEW r \in Runs, NativeDies(r)
    PROVE  MigrationInv'
<1>1. /\ UNCHANGED <<live, rewriter, runner, stage, todo, seen, want, journal, pending, backup, trouble>>
      /\ native' = native \ {r}
    BY DEF NativeDies, store, locks, files
<1>2. Types' /\ \A t \in Tasks : live[t].version <= live'[t].version
    BY <1>1, TroubleAssumption DEF MigrationInv, Types
<1> QED
    BY <1>1, <1>2, ElsewhereStep

(* The process rewrites under a journal that says "applying" and names a   *)
(* copy of what it finds.                                                  *)
LEMMA RewriteStep ==
    ASSUME MigrationInv, NEW r \in Runs, Rewrite(r)
    PROVE  MigrationInv'
<1> DEFINE t == Task(r)
<1>1. /\ r \in native
      /\ UNCHANGED <<runner, stage, todo, seen, want, journal, pending, backup, trouble>>
    BY DEF Rewrite, locks, files
<1>2. CASE live' = live /\ rewriter' = rewriter /\ native' \subseteq native
  <2>1. Types' /\ \A x \in Tasks : live[x].version <= live'[x].version
      BY <1>1, <1>2, TroubleAssumption DEF MigrationInv, Types
  <2> QED
      BY <1>1, <1>2, <2>1, ElsewhereStep
<1>3. CASE t \notin Tasks
  <2>1. live' = live /\ rewriter' = rewriter /\ native' \subseteq native
      BY <1>3 DEF Rewrite, MigrationInv, Types
  <2> QED
      BY <1>2, <2>1
<1>4. CASE /\ t \in Tasks /\ live[t].form = "partial"
           /\ live' = [live EXCEPT ![t].form = "paginated"]
           /\ rewriter' = rewriter /\ native' = native \ {r}
  <2>1. /\ live' \in [Tasks -> [version : 0 .. MaxTrouble, form : Forms, archived : BOOLEAN]]
        /\ \A x \in Tasks : /\ live'[x].version = live[x].version
                            /\ live'[x].form = "legacy" <=> live[x].form = "legacy"
      BY <1>4 DEF MigrationInv, Types, Forms
  <2>2. Types' /\ \A x \in Tasks : live[x].version <= live'[x].version
      BY <1>1, <1>4, <2>1, TroubleAssumption DEF MigrationInv, Types
  <2> QED
      BY <1>1, <1>4, <2>1, <2>2, ElsewhereStep
<1>5. CASE /\ t \in Tasks /\ live[t].form = "legacy"
           /\ live' = [live EXCEPT ![t].form = "partial"]
           /\ rewriter' = [rewriter EXCEPT ![t] = [run |-> r, version |-> live[t].version]]
           /\ native' = native
  <2>1. /\ live' \in [Tasks -> [version : 0 .. MaxTrouble, form : Forms, archived : BOOLEAN]]
        /\ live'[t].form = "partial"
        /\ \A x \in Tasks : /\ live'[x].version = live[x].version
                            /\ x # t => live'[x] = live[x]
      BY <1>5 DEF MigrationInv, Types, Forms
  <2>2. /\ rewriter[t] = Nobody
        /\ rewriter'[t] = [run |-> r, version |-> live[t].version]
        /\ rewriter'[t] \in [run : Runs, version : 0 .. MaxTrouble]
        /\ \A x \in Tasks : x # t => rewriter'[x] = rewriter[x]
      BY <1>5 DEF MigrationInv, Types, Rewritten
  <2>3. rewriter'[t] # Nobody
      BY <2>2, NobodyAssumption
  <2>4. rewriter' \in [Tasks -> [run : Runs, version : 0 .. MaxTrouble] \cup {Nobody}]
      BY <1>5, <2>2 DEF MigrationInv, Types
  <2>5. Types'
      BY <1>1, <1>5, <2>1, <2>4 DEF MigrationInv, Types
  <2>6. Rewritten'
      BY <2>1, <2>2, <2>3 DEF MigrationInv, Rewritten
  <2>7. OwnInv'
    <3>1. SUFFICES ASSUME NEW x \in Runs, stage[x] \in Owned PROVE Own(x)'
        BY <1>1 DEF OwnInv
    <3>2. Own(x) /\ x = r /\ stage[r] = "working"
        BY <1>1, <3>1 DEF MigrationInv, OwnInv, Own, AtWork
    <3>3. AtWork(r)' /\ InStep(r)'
        BY <1>1, <1>5, <3>2 DEF Own, AtWork, InStep, Entry, Task
    <3>4. OnTask(r, t) /\ want[r].phase = "applying"
        BY <1>5, <3>2 DEF Own, InStep
    <3>5. live[t].version \in Nat /\ ~Before(r) /\ ~Before(r)'
        BY <1>1, <1>5, <3>2, TroubleAssumption DEF MigrationInv, Types, Before
    <3>6. Copied(<<r, t>>, want[r].sha)' <=> Copied(<<r, t>>, want[r].sha)
        BY <1>1 DEF Copied, Task
    <3>7. ASSUME NEW y, y = t PROVE OnTask(r, y)'
        BY <1>1, <1>5, <2>1, <2>2, <3>2, <3>4, <3>5, <3>6, <3>7 DEF OnTask, Task
    <3> QED
        BY <1>1, <3>2, <3>3, <3>7 DEF Own, Task
  <2>8. Fresh'
      BY <1>1, <2>2, <2>3 DEF MigrationInv, Fresh, Task
  <2>9. OriginalIsKept'
    <3>1. Copied(<<r, t>>, journal[<<r, t>>].sha) /\ journal[<<r, t>>].phase = "applying"
        BY <1>1, <1>5 DEF MigrationInv, NativeInv, Entry
    <3>2. rewriter'[t].run = r
        BY <2>2
    <3> QED
        BY <1>1, <2>2, <3>1, <3>2 DEF MigrationInv, OriginalIsKept, Copied, Original
  <2>10. VerifiedIsBackedUp'
    <3>1. SUFFICES ASSUME NEW e \in Runs \X Tasks, journal[e].phase = "verified"
                   PROVE  rewriter'[e[2]] = rewriter[e[2]]
        BY <1>1 DEF MigrationInv, Types, VerifiedIsBackedUp
    <3>2. rewriter[e[2]] # Nobody /\ e[2] \in Tasks
        BY <3>1 DEF MigrationInv, Types, VerifiedIsBackedUp
    <3> QED
        BY <2>2, <3>2
  <2>11. Exclusive' /\ Boundary' /\ NativeInv'
      BY <1>1, <1>5 DEF MigrationInv, Exclusive, Boundary, NativeInv, Copied, Task, Entry
  <2> QED
      BY <2>5, <2>6, <2>7, <2>8, <2>9, <2>10, <2>11 DEF MigrationInv
<1> QED
    BY <1>3, <1>4, <1>5 DEF Rewrite

(* Every step of the migration preserves its invariant.                    *)
LEMMA MigrationStep == MigrationInv /\ [Next]_vars => MigrationInv'
<1> SUFFICES ASSUME MigrationInv, [Next]_vars PROVE MigrationInv'
    OBVIOUS
<1>1. ASSUME NEW r \in Runs, RunStep(r) PROVE MigrationInv'
  <2>1. CASE \/ PlanBatch(r) \/ TakeGuard(r) \/ TakeRunnerLock(r) \/ CheckPrerequisites(r)
             \/ FinishBatch(r) \/ StopBatch(r)
      BY <2>1, OutsideStep
  <2>2. CASE CheckCandidate(r)
      BY <2>2, CheckCandidateStep
  <2>3. CASE StageJournal(r)
      BY <2>3, StageJournalStep
  <2>4. CASE PublishJournal(r)
      BY <2>4, PublishJournalStep
  <2>5. CASE CopyOriginal(r)
      BY <2>5, CopyOriginalStep
  <2>6. CASE PlanNative(r)
      BY <2>6, PlanNativeStep
  <2>7. CASE Revalidate(r)
      BY <2>7, RevalidateStep
  <2>8. CASE StartNative(r)
      BY <2>8, StartNativeStep
  <2>9. CASE NativeReports(r)
      BY <2>9, NativeReportsStep
  <2>10. CASE VerifyContinuation(r)
      BY <2>10, VerifyContinuationStep
  <2>11. CASE ConfirmMigration(r)
      BY <2>11, ConfirmMigrationStep
  <2>12. CASE Refuse(r)
      BY <2>12, RefuseStep
  <2>13. CASE JournalFails(r)
      BY <2>13, JournalFailsStep
  <2> QED
      BY <1>1, <2>1, <2>2, <2>3, <2>4, <2>5, <2>6, <2>7, <2>8, <2>9, <2>10, <2>11, <2>12, <2>13
      DEF RunStep
<1>2. ASSUME NEW r \in Runs, Kill(r) \/ Rewrite(r) \/ NativeDies(r) PROVE MigrationInv'
    BY <1>2, KillStep, RewriteStep, NativeDiesStep
<1>3. CASE UNCHANGED vars
  <2>1. /\ UNCHANGED <<live, rewriter, runner, stage, todo, seen, want, native, journal, pending,
                       backup, trouble>>
      BY <1>3 DEF vars, store, locks, files
  <2>2. Types' /\ \A t \in Tasks : live[t].version <= live'[t].version
      BY <2>1, TroubleAssumption DEF MigrationInv, Types
  <2> QED
      BY <2>1, <2>2, ElsewhereStep
<1> QED
    BY <1>1, <1>2, <1>3, CodexStep, WorldStep DEF Next, Others

(* A journal never names another digest than it did.                       *)
LEMMA DigestKept ==
    ASSUME MigrationInv, [Next]_vars, NEW e \in Runs \X Tasks, journal[e].sha \in Contents
    PROVE  journal'[e].sha = journal[e].sha
<1>1. ASSUME NEW r \in Runs, stage[r] = "publish", journal' = [journal EXCEPT ![Entry(r)] = want[r]]
      PROVE  journal'[e].sha = journal[e].sha
  <2>1. CASE e = Entry(r)
    <3>1. OnTask(r, Task(r)) /\ Task(r) \in Tasks /\ e = <<r, Task(r)>>
        BY <1>1, <2>1 DEF Entry, MigrationInv, OwnInv, Own, Owned
    <3>2. journal[e].sha = want[r].sha
        BY <3>1, DigestsDiffer DEF OnTask
    <3> QED
        BY <1>1, <2>1, <3>2 DEF MigrationInv, Types
  <2>2. CASE e # Entry(r)
      BY <1>1, <2>2 DEF MigrationInv, Types
  <2> QED
      BY <2>1, <2>2
<1>2. ASSUME NEW r \in Runs, PublishJournal(r) PROVE journal'[e].sha = journal[e].sha
    BY <1>1, <1>2 DEF PublishJournal
<1>3. ASSUME NEW r \in Runs, JournalFails(r) PROVE journal'[e].sha = journal[e].sha
    BY <1>1, <1>3 DEF JournalFails
<1>4. ASSUME NEW r \in Runs, RunStep(r), ~PublishJournal(r), ~JournalFails(r)
      PROVE  journal' = journal
    BY <1>4 DEF RunStep, PlanBatch, TakeGuard, TakeRunnerLock, CheckPrerequisites, CheckCandidate,
           FinishBatch, StageJournal, CopyOriginal, PlanNative, Revalidate, StartNative,
           NativeReports, VerifyContinuation, ConfirmMigration, StopBatch, Refuse, files
<1>5. ASSUME NEW r \in Runs, Kill(r) \/ Rewrite(r) \/ NativeDies(r) PROVE journal' = journal
    BY <1>5 DEF Kill, Rewrite, NativeDies, files
<1>6. Codex \/ World \/ UNCHANGED vars => journal' = journal
    BY DEF Codex, World, vars, files
<1> QED
    BY <1>2, <1>3, <1>4, <1>5, <1>6 DEF Next, Others

(* What a recovery does leaves the migration alone.                        *)
LEMMA BesideStep ==
    ASSUME MigrationInv, UNCHANGED migration,
           trouble' = trouble \/ Trouble
    PROVE  MigrationInv'
<1>1. UNCHANGED <<live, rewriter, runner, stage, todo, seen, want, native, journal, pending, backup>>
    BY DEF migration, store, files
<1>2. /\ trouble' \in 0 .. MaxTrouble
      /\ \A t \in Tasks : live[t].version <= trouble' /\ live[t].version <= live'[t].version
    BY <1>1, TroubleAssumption DEF MigrationInv, Types, Trouble
<1>3. Types'
    BY <1>1, <1>2 DEF MigrationInv, Types
<1> QED
    BY <1>1, <1>2, <1>3, ElsewhereStep

(* Every step of a recovery preserves the invariant.                       *)
LEMMA RecoveryKeeps ==
    ASSUME IInv, RecoveryStep \/ KillRecovery \/ ForeignHome
    PROVE  IInv'
<1>1. UNCHANGED migration /\ (trouble' = trouble \/ Trouble)
    BY DEF RecoveryStep, BeginRecovery, CopyBack, LookBeforePublishing, PublishHome, SyncParent,
           Register, VerifyRecovered, FailRecovery, LookBeforeUndoing, UndoPublication,
           KillRecovery, ForeignHome
<1>2. MigrationInv'
    BY <1>1, BesideStep DEF IInv
<1>3. journal' = journal
    BY <1>1 DEF migration, files
<1>4. RecoveryInv'
  <2> USE DEF IInv, RecoveryInv, Renaming
  <2>1. ASSUME NEW e \in DOMAIN journal, BeginRecovery(e) PROVE RecoveryInv'
      BY <1>3, <2>1 DEF BeginRecovery, Advance, DestinationAbsent, MigrationInv, Types
  <2>2. CASE CopyBack
      BY <1>3, <2>2 DEF CopyBack, Advance
  <2>3. CASE LookBeforePublishing \/ PublishHome
      BY <1>3, <2>3 DEF LookBeforePublishing, PublishHome, Advance, DestinationAbsent
  <2>4. CASE SyncParent
      BY <1>3, <2>4 DEF SyncParent, Advance, EndRecovery
  <2>5. CASE Register
      BY <1>3, <2>5 DEF Register, Advance
  <2>6. CASE VerifyRecovered
      BY <1>3, <2>6 DEF VerifyRecovered, EndRecovery, Expected
  <2>7. CASE FailRecovery
      BY <1>3, <2>7 DEF FailRecovery, Advance, EndRecovery
  <2>8. CASE LookBeforeUndoing
      BY <1>3, <2>8 DEF LookBeforeUndoing, OwnHomePublished, Advance
  <2>9. CASE UndoPublication
      BY <1>3, <2>9 DEF UndoPublication, EndRecovery
  <2>10. CASE KillRecovery
      BY <1>3, <2>10 DEF KillRecovery, EndRecovery
  <2>11. CASE ForeignHome
      BY <1>3, <2>11 DEF ForeignHome
  <2> QED
      BY <2>1, <2>2, <2>3, <2>4, <2>5, <2>6, <2>7, <2>8, <2>9, <2>10, <2>11 DEF RecoveryStep
<1> QED
    BY <1>2, <1>4 DEF IInv

(* Every step preserves the invariant.                                     *)
LEMMA InductiveStep == IInv /\ [RecoveryNext]_allVars => IInv'
<1> SUFFICES ASSUME IInv, [RecoveryNext]_allVars PROVE IInv'
    OBVIOUS
<1>1. CASE [Next]_vars /\ UNCHANGED recovery
  <2>1. MigrationInv'
      BY <1>1, MigrationStep DEF IInv
  <2>2. RecoveryInv'
      BY <1>1, DigestKept DEF IInv, RecoveryInv, Renaming, recovery
  <2> QED
      BY <2>1, <2>2 DEF IInv
<1> QED
    BY <1>1, RecoveryKeeps DEF RecoveryNext, allVars

(* The invariant holds in every state, whatever runs, edits, kills and     *)
(* failures there are.                                                     *)
THEOREM Invariance == RecoverySpec => []IInv
    BY InitHolds, InductiveStep, PTL DEF RecoverySpec

(* A history that migrate_one had rewritten has a copy of the original, and *)
(* a journal that names it, whatever was killed or failed since.           *)
THEOREM OriginalSafety == RecoverySpec => []OriginalIsKept
<1>1. IInv => OriginalIsKept
    BY DEF IInv, MigrationInv
<1> QED
    BY <1>1, Invariance, PTL

(* A journal says "verified" only beside a copy of exactly what the binary *)
(* rewrote.                                                                *)
THEOREM VerifiedSafety == RecoverySpec => []VerifiedIsBackedUp
<1>1. IInv => VerifiedIsBackedUp
    BY DEF IInv, MigrationInv
<1> QED
    BY <1>1, Invariance, PTL

(* A journal says "refused_before_apply" only of a history that its run has *)
(* not had rewritten, and is not having rewritten: no process of the run   *)
(* works on it.                                                            *)
THEOREM RefusedSafety == RecoverySpec => []RefusedMeansUntouched
<1>1. IInv => RefusedMeansUntouched
  <2> SUFFICES ASSUME IInv, NEW e \in Runs \X Tasks, journal[e].phase = "refused_before_apply"
               PROVE  /\ rewriter[e[2]] # Nobody => rewriter[e[2]].run # e[1]
                      /\ e[1] \in native => todo[e[1]] # <<>> /\ Task(e[1]) # e[2]
      BY DEF IInv, MigrationInv, Types, RefusedMeansUntouched
  <2>1. e = <<e[1], e[2]>> /\ e[1] \in Runs /\ e[2] \in Tasks
      OBVIOUS
  <2>2. rewriter[e[2]] # Nobody => rewriter[e[2]].run # e[1]
      BY <2>1 DEF IInv, MigrationInv, OriginalIsKept
  <2>3. e[1] \in native => todo[e[1]] # <<>> /\ Task(e[1]) # e[2]
      BY <2>1 DEF IInv, MigrationInv, NativeInv, Entry
  <2> QED
      BY <2>2, <2>3
<1> QED
    BY <1>1, Invariance, PTL

(* What recover_with_binary hands back is what the journal names: the      *)
(* original, if a migration of it was verified.                            *)
THEOREM RecoverySafety == RecoverySpec => []RecoveredIsOriginal
<1>1. IInv => RecoveredIsOriginal
  <2> SUFFICES ASSUME IInv, recovering = "recovered"
               PROVE  /\ restored = journal[source].sha
                      /\ journal[source].phase = "verified" =>
                           restored = <<rewriter[source[2]].version, "legacy">>
      BY DEF RecoveredIsOriginal, Expected
  <2>1. restored = journal[source].sha /\ source \in DOMAIN journal
      BY DEF IInv, RecoveryInv, MigrationInv, Types
  <2> QED
      BY <2>1 DEF IInv, MigrationInv, VerifiedIsBackedUp
<1> QED
    BY <1>1, Invariance, PTL

(* No rewriting starts while the journal of another task is uncertain or a *)
(* .pending file stands.                                                   *)
THEOREM CertaintySafety == RecoverySpec => UncertaintyStopsMigration
<1>1. IInv /\ [RecoveryNext]_allVars =>
        [\A r \in native' \ native :
            /\ pending = {}
            /\ \A e \in DOMAIN journal :
                  e # Entry(r) => journal[e].phase \notin Uncertain]_vars
  <2> SUFFICES ASSUME IInv, [RecoveryNext]_allVars, NEW r \in native' \ native
               PROVE  /\ pending = {}
                      /\ \A e \in DOMAIN journal :
                            e # Entry(r) => journal[e].phase \notin Uncertain
      OBVIOUS
  <2>1. r \in Runs /\ StartNative(r)
    <3>1. CASE \E x \in Runs : RunStep(x)
      <4>1. PICK x \in Runs : RunStep(x)
          BY <3>1
      <4>2. StartNative(x) /\ native' = native \cup {x}
          BY <4>1 DEF RunStep, PlanBatch, TakeGuard, TakeRunnerLock, CheckPrerequisites,
                 CheckCandidate, FinishBatch, StageJournal, PublishJournal, CopyOriginal, PlanNative,
                 Revalidate, StartNative, NativeReports, VerifyContinuation, ConfirmMigration,
                 StopBatch, Refuse, JournalFails
      <4> QED
          BY <4>2
    <3>2. CASE Others
        BY <3>2 DEF Others, Kill, Rewrite, NativeDies, Codex, World
    <3>3. CASE UNCHANGED migration \/ UNCHANGED allVars
        BY <3>3 DEF migration, allVars, vars
    <3>4. RecoveryStep \/ KillRecovery \/ ForeignHome => UNCHANGED migration
        BY DEF RecoveryStep, BeginRecovery, CopyBack, LookBeforePublishing, PublishHome, SyncParent,
               Register, VerifyRecovered, FailRecovery, LookBeforeUndoing, UndoPublication,
               KillRecovery, ForeignHome
    <3> QED
        BY <3>1, <3>2, <3>3, <3>4 DEF RecoveryNext, Next
  <2>2. stage[r] = "apply" /\ Own(r)
      BY <2>1 DEF StartNative, IInv, MigrationInv, OwnInv, Owned
  <2> QED
      BY <2>2 DEF Own, AtWork, IInv, MigrationInv, Types
<1> QED
    BY <1>1, Invariance, PTL DEF RecoverySpec, UncertaintyStopsMigration

(* What somebody else put at the destination is still there after each step *)
(* of recover_with_binary, and of anything else, unless it came between the *)
(* last look at the destination and the rename.                            *)
THEOREM HomeSafety == RecoverySpec => ForeignHomeIsKept
<1>1. IInv /\ [RecoveryNext]_allVars => [foreign = "there" => foreign' = "there"]_allVars
  <2>1. IInv /\ (PublishHome \/ UndoPublication) => foreign # "there"
      BY DEF PublishHome, UndoPublication, IInv, RecoveryInv, Renaming
  <2>2. CASE ~(PublishHome \/ UndoPublication)
      BY <2>2 DEF RecoveryNext, RecoveryStep, BeginRecovery, CopyBack, LookBeforePublishing,
             SyncParent, Register, VerifyRecovered, FailRecovery, LookBeforeUndoing, KillRecovery,
             ForeignHome, recovery
  <2> QED
      BY <2>1, <2>2
<1> QED
    BY <1>1, Invariance, PTL DEF RecoverySpec, ForeignHomeIsKept
============================================================================
