------------------------- MODULE OwnershipHelperProofs -------------------------
(***************************************************************************)
(* The three safety properties of the ownership evidence and of the helper *)
(* that gathers it, for any processes, handles, roots, batches, helper     *)
(* versions and backends, however often anything fails or is killed.       *)
(*                                                                         *)
(* The invariant has two halves that meet in a daemon's answer.  CallerInv *)
(* follows the handles that stay for the whole capture: the scan under way *)
(* has seen them or will (Covered), an answer holds those below the roots  *)
(* of its batch, and the evidence those of all batches before.  ServiceInv *)
(* follows the installed files: they change only while the job is not      *)
(* loaded, so a daemon that runs is the installed one and has its digest.  *)
(***************************************************************************)
EXTENDS OwnershipHelper, FiniteSetTheorems, TLAPS

----------------------------------------------------------------------------
(* The inductive invariant.                                                *)

\* A version, or none; what may be installed, recorded of it before an installation,
\* and answered by the daemon.
Versioned == Versions \cup {Absent}
Installed == [Files -> Versioned]
Snapshots == [files : Installed, loaded : BOOLEAN]
Replies   == [complete : BOOLEAN, digest : Versioned, seen : SUBSET Handles, build : Versioned]

\* The scans there can be.
Scans ==
    [mode : {"none", "native", "targeted", "global", "complete", "incomplete"},
     left : SUBSET Processes, reading : Processes \cup {Nobody}, kind : Kinds,
     part : SUBSET Handles, seen : SUBSET Handles, denied : SUBSET Processes]

\* What the caller's half is about has values of its kind,
CallerTypes ==
    /\ handles \subseteq Handles
    /\ standing \subseteq handles
    /\ scan \in Scans
    /\ evidence \in [stage : {"none", "capturing", "done"}, complete : BOOLEAN,
                     seen : SUBSET Handles]
    /\ connection \in [state : {"none", "queued", "served", "answered", "reset"},
                       reply : Replies \cup {Absent}]
    /\ batch \in 1 .. Len(Batches)
    /\ digest \in Versioned

\* The daemon, the administrator's command and its stages.
Daemons ==
    [state : {"down", "starting", "bound", "accepting", "capturing"},
     build : Versioned, config : Versioned, digest : Versioned]
Stages ==
    Ends \cup
    {"inspect", "bootout", "binary", "config", "plist", "bootstrap", "probe", "discard",
     "undo_bootout", "undo_socket", "undo_files", "undo_bootstrap", "undo_discard",
     "out_bootout", "out_socket", "out_files"}
Installs ==
    [stage : Stages, version : Versioned, backup : Installed \cup {Absent},
     wasLoaded : BOOLEAN, before : Snapshots \cup {Absent}]

\* and so has what the service's half is about.
ServiceTypes ==
    /\ files \in Installed
    /\ loaded \in BOOLEAN
    /\ daemon \in Daemons
    /\ install \in Installs

\* The kinds a native reading has not got to yet.
Unread == [cwd |-> {"cwd", "mapped", "open"}, mapped |-> {"mapped", "open"}, open |-> {"open"}]

\* What the scan in progress has seen of a handle that stays, or will see.
Covered(h) ==
    /\ scan.mode = "native" =>
          \/ h.process \in scan.left \cup scan.denied
          \/ h \in scan.seen
          \/ scan.reading = h.process /\ (h \in scan.part \/ h.kind \in Unread[scan.kind])
    /\ scan.mode \in {"targeted", "global"} => h.process \in scan.left \/ h \in scan.seen
    /\ scan.mode = "complete" => h \in scan.seen

\* ... for every handle that stays.
ScanInv == \A h \in standing : Covered(h)

\* Nothing is scanned and nobody is asked before the capture begins.
Begins ==
    /\ evidence.stage = "none" => /\ scan.mode = "none" /\ connection.state = "none"
                                  /\ batch = 1 /\ ~evidence.complete
    /\ connection.state # "none" => policy = "privileged_helper" /\ evidence.stage = "capturing"

\* What lies below the roots of one batch.
Asked(i) == {h \in standing : Above[h.path] \cap Batches[i] # {}}

\* The batches before have brought what they asked for,
BatchesInv ==
    policy = "privileged_helper" /\ evidence.stage = "capturing" =>
        \A i \in 1 .. batch - 1 : Asked(i) \subseteq evidence.seen

\* and so does the answer that is under way.
ReplyInv ==
    connection.state = "answered" =>
        /\ connection.reply \in Replies
        /\ connection.reply.complete =>
              /\ Asked(batch) \subseteq connection.reply.seen
              /\ connection.reply.build \in Versions
              /\ connection.reply.digest = connection.reply.build

\* Complete evidence names every root above a handle that stayed.
EvidenceInv ==
    evidence.complete => /\ evidence.stage = "done"
                         /\ Matched(standing) \subseteq Matched(evidence.seen)

\* A daemon that runs is the installed one.
DaemonInv ==
    /\ daemon.state # "down" => /\ loaded
                                /\ daemon.build = files["binary"] /\ daemon.build \in Versions
                                /\ daemon.digest \in {Absent, daemon.build}
    /\ daemon.state = "capturing" => daemon.digest = daemon.build

\* All builds that contributed have the digest the first of them had.
BuildsInv == builds \subseteq {digest} /\ (digest = Absent => builds = {})

\* The stages in which files are written:
Unloaded == {"binary", "config", "plist", "undo_socket", "undo_files", "out_socket", "out_files"}

\* the job is not loaded then.
UnloadedInv == install.stage \in Unloaded => ~loaded

\* The stages of an installation that can still be rolled back,
Reversible == {"inspect", "bootout", "binary", "config", "plist", "bootstrap", "probe",
               "undo_bootout", "undo_socket", "undo_files", "undo_bootstrap"}

\* its files and its job as it found them,
Untouched == files = install.before.files /\ loaded = install.before.loaded

\* and what the backup is good for in each of them.
RollbackInv ==
    /\ install.stage \in Reversible => /\ install.before \in Snapshots
                                       /\ install.backup = install.before.files
    /\ install.stage \in Reversible \ {"inspect"} => install.wasLoaded = install.before.loaded
    /\ install.stage \in {"inspect", "bootout", "undo_discard", "failed", "rolled_back"} => Untouched
    /\ install.stage = "undo_bootstrap" => files = install.before.files /\ install.wasLoaded

\* The inductive invariant, by halves.
CallerInv ==
    /\ CallerTypes /\ ScanInv /\ Begins /\ BatchesInv /\ ReplyInv /\ EvidenceInv /\ BuildsInv
ServiceInv == ServiceTypes /\ DaemonInv /\ UnloadedInv /\ RollbackInv
IInv == CallerInv /\ ServiceInv

----------------------------------------------------------------------------
(* Frames and facts.                                                       *)

\* Steps of the service that the caller does not see, and the other way round.
LEMMA CallerStays ==
    ASSUME CallerInv,
           UNCHANGED <<policy, handles, standing, scan, evidence, connection, batch, digest, builds>>
    PROVE  CallerInv'
BY DEF CallerInv, CallerTypes, ScanInv, Covered, Begins, BatchesInv, ReplyInv, Asked, EvidenceInv,
       Matched, BuildsInv

LEMMA ServiceStays ==
    ASSUME ServiceInv, UNCHANGED <<files, loaded, daemon, install>>
    PROVE  ServiceInv'
BY DEF ServiceInv, ServiceTypes, DaemonInv, UnloadedInv, RollbackInv, Untouched

\* What a handle consists of; more handles match more roots.
LEMMA RootFacts ==
    /\ \A h \in Handles : /\ h.process \in Processes /\ h.path \in Paths /\ h.kind \in Kinds
                          /\ Above[h.path] \subseteq Roots
    /\ \A H \in SUBSET Handles : \A G \in SUBSET H : Matched(G) \subseteq Matched(H)
<1>1. ASSUME NEW h \in Handles
      PROVE  h.process \in Processes /\ h.path \in Paths /\ h.kind \in Kinds /\ Above[h.path] \subseteq Roots
    BY AboveAssumption DEF Handles
<1>2. \A H \in SUBSET Handles : \A G \in SUBSET H : Matched(G) \subseteq Matched(H)
    BY DEF Matched
<1> QED
    BY <1>1, <1>2

\* The invariant holds before anybody captures or installs.
LEMMA InitHolds == Init => IInv
<1> SUFFICES ASSUME Init PROVE IInv
    OBVIOUS
<1>1. /\ handles \subseteq Handles /\ standing = {} /\ batch = 1 /\ digest = Absent /\ builds = {}
      /\ scan = NoScan /\ evidence = NoEvidence /\ connection = NoConnection
      /\ daemon = NoDaemon /\ install = NoInstall /\ files \in Installed /\ loaded \in BOOLEAN
  <2>1. handles \subseteq Handles
      BY DEF Init, CaptureInit, Holdable
  <2>2. files \in Installed
      BY DEF Init, Installed, Versioned, Nothing, Only
  <2>3. loaded \in BOOLEAN
      BY DEF Init
  <2> QED
      BY <2>1, <2>2, <2>3 DEF Init, CaptureInit
<1>2. CallerTypes
  <2>1. NoScan \in Scans
      BY DEF NoScan, Scans, Kinds
  <2>2. 1 \in 1 .. Len(Batches)
      BY BatchesAssumption
  <2> QED
      BY <1>1, <2>1, <2>2 DEF CallerTypes, NoEvidence, NoConnection, Versioned
<1>3. ScanInv /\ Begins /\ BatchesInv /\ ReplyInv /\ EvidenceInv /\ BuildsInv
    BY <1>1 DEF ScanInv, Begins, BatchesInv, ReplyInv, EvidenceInv, BuildsInv, NoScan, NoEvidence,
           NoConnection
<1>4. ServiceTypes
    BY <1>1 DEF ServiceTypes, NoDaemon, NoInstall, Daemons, Installs, Versioned, Stages, Ends
<1>5. DaemonInv /\ UnloadedInv /\ RollbackInv
    BY <1>1 DEF DaemonInv, UnloadedInv, RollbackInv, NoDaemon, NoInstall, Unloaded, Reversible
<1> QED
    BY <1>2, <1>3, <1>4, <1>5 DEF IInv, CallerInv, ServiceInv

----------------------------------------------------------------------------
(* The steps of a scan and of a capture without the helper.                *)

\* A step of a scan keeps the caller's half if it covers what stays.
LEMMA ScanFrame ==
    ASSUME CallerInv,
           UNCHANGED <<policy, handles, standing, evidence, connection, batch, digest, builds>>,
           scan.mode # "none", scan' \in Scans, \A h \in standing : Covered(h)'
    PROVE  CallerInv'
<1> USE DEF CallerInv
<1>1. CallerTypes'
    BY DEF CallerTypes
<1>2. ScanInv'
    BY DEF ScanInv
<1>3. Begins' /\ BatchesInv' /\ ReplyInv' /\ EvidenceInv' /\ BuildsInv'
    BY DEF CallerTypes, Begins, BatchesInv, ReplyInv, Asked, EvidenceInv, Matched, BuildsInv
<1> QED
    BY <1>1, <1>2, <1>3

\* A scan that starts covers all that stays.
LEMMA StartCovers ==
    ASSUME CallerTypes, NEW m \in {"native", "global"}
    PROVE  /\ Scan(m, Alive) \in Scans
           /\ \A h \in standing : scan' = Scan(m, Alive) => Covered(h)'
<1>1. Alive \subseteq Processes
    BY RootFacts DEF CallerTypes, Alive
<1>2. Scan(m, Alive) = [mode |-> m, left |-> Alive, reading |-> Nobody, kind |-> "cwd",
                        part |-> {}, seen |-> {}, denied |-> {}]
  <2>1. NoScan = [mode |-> "none", left |-> {}, reading |-> Nobody, kind |-> "cwd",
                  part |-> {}, seen |-> {}, denied |-> {}]
      BY DEF NoScan
  <2>2. Scan(m, Alive) = [NoScan EXCEPT !.mode = m, !.left = Alive]
      BY DEF Scan
  <2> QED
      BY <2>1, <2>2
<1>3. \A h \in standing : h.process \in Alive
    BY DEF CallerTypes, Alive
<1> QED
    BY <1>1, <1>2, <1>3 DEF Scans, Covered, Kinds

\* Every step of a scan keeps what stays covered: a process is read kind by kind, handed
\* to lsof, or looked at by lsof at once.
LEMMA ScanStepCaller ==
    ASSUME CallerInv, ScanStep, UNCHANGED <<connection, batch, digest, builds>>
    PROVE  CallerInv'
<1> USE DEF CallerInv
<1> USE RootFacts, NobodyAssumption
<1>1. UNCHANGED <<policy, handles, standing, evidence>> /\ scan.mode # "none"
    BY DEF ScanStep, VisitProcess, LsofReads, ReadKind, NativeEnds, NativeFails, LsofEnds, LsofFails, people
<1>2. ASSUME NEW p \in Processes, VisitProcess(p) PROVE CallerInv'
  <2>1. scan' = [scan EXCEPT !.left = @ \ {p}, !.reading = p, !.kind = "cwd", !.part = {}]
      BY <1>2 DEF VisitProcess
  <2>2. scan' \in Scans
      BY <2>1 DEF CallerTypes, Scans, Kinds
  <2>3. \A h \in standing : Covered(h)'
      BY <1>1, <1>2, <2>1 DEF VisitProcess, CallerTypes, Scans, ScanInv, Covered, Unread, Kinds
  <2> QED
      BY <1>1, <2>2, <2>3, ScanFrame
<1>3. ASSUME NEW p \in Processes, LsofReads(p) PROVE CallerInv'
  <2>1. scan' = [scan EXCEPT !.left = @ \ {p}, !.seen = @ \cup Of(p)]
      BY <1>3 DEF LsofReads
  <2>2. scan' \in Scans
      BY <2>1 DEF CallerTypes, Scans, Of
  <2>3. \A h \in standing : Covered(h)'
      BY <1>1, <1>3, <2>1 DEF LsofReads, CallerTypes, Scans, ScanInv, Covered, Of
  <2> QED
      BY <1>1, <2>2, <2>3, ScanFrame
<1>4. CASE ReadKind
  <2> DEFINE p == scan.reading
             part == scan.part \cup Holding(p, scan.kind)
  <2>1. scan.mode = "native" /\ p \in Processes /\ part \subseteq Handles
      BY <1>4 DEF ReadKind, CallerTypes, Scans, Holding, Of
  <2>2. CASE scan' = [scan EXCEPT !.reading = Nobody, !.denied = @ \cup {p}]
    <3>1. scan' \in Scans
        BY <2>1, <2>2 DEF CallerTypes, Scans
    <3>2. \A h \in standing : Covered(h)'
        BY <1>1, <2>1, <2>2 DEF CallerTypes, Scans, ScanInv, Covered
    <3> QED
        BY <1>1, <3>1, <3>2, ScanFrame
  <2>3. CASE scan.kind = "open" /\ scan' = [scan EXCEPT !.reading = Nobody, !.seen = @ \cup part]
    <3>1. scan' \in Scans
        BY <2>1, <2>3 DEF CallerTypes, Scans
    <3>2. \A h \in standing : Covered(h)'
        BY <1>1, <2>1, <2>3 DEF CallerTypes, Scans, ScanInv, Covered, Unread, Holding, Of
    <3> QED
        BY <1>1, <3>1, <3>2, ScanFrame
  <2>4. CASE scan.kind # "open" /\ scan' = [scan EXCEPT !.kind = NextKind[@], !.part = part]
    <3>1. \/ scan.kind = "cwd" /\ NextKind[scan.kind] = "mapped"
          \/ scan.kind = "mapped" /\ NextKind[scan.kind] = "open"
        BY <2>4 DEF CallerTypes, Scans, Kinds, NextKind
    <3>2. scan' \in Scans
        BY <2>1, <2>4, <3>1 DEF CallerTypes, Scans, Kinds
    <3>3. \A h \in standing : Covered(h)'
        BY <1>1, <2>1, <2>4, <3>1 DEF CallerTypes, Scans, ScanInv, Covered, Unread, Holding, Of, Kinds
    <3> QED
        BY <1>1, <3>2, <3>3, ScanFrame
  <2> QED
      BY <1>4, <2>2, <2>3, <2>4 DEF ReadKind
<1>5. CASE NativeEnds
  <2>1. /\ scan.mode = "native" /\ scan.reading = Nobody /\ scan.left = {}
        /\ \/ scan' = [scan EXCEPT !.mode = "complete"] /\ scan.denied = {}
           \/ scan' = [scan EXCEPT !.mode = "targeted", !.left = scan.denied]
      BY <1>5 DEF NativeEnds, Resolve
  <2>2. scan' \in Scans
      BY <2>1 DEF CallerTypes, Scans
  <2>3. \A h \in standing : Covered(h)'
      BY <1>1, <2>1 DEF CallerTypes, Scans, ScanInv, Covered
  <2> QED
      BY <1>1, <2>2, <2>3, ScanFrame
<1>6. CASE NativeFails \/ LsofFails
  <2>1. scan' = Scan("global", Alive) \/ scan' = Incomplete
      BY <1>6 DEF NativeFails, LsofFails
  <2>2. Incomplete \in Scans /\ Incomplete.mode = "incomplete"
      BY DEF Incomplete, NoScan, Scans, Kinds
  <2>3. scan' \in Scans /\ \A h \in standing : Covered(h)'
      BY <2>1, <2>2, StartCovers DEF Covered
  <2> QED
      BY <1>1, <2>3, ScanFrame
<1>7. CASE LsofEnds
  <2>1. /\ scan.mode \in {"targeted", "global"} /\ scan.left = {}
        /\ scan' = [scan EXCEPT !.mode = "complete"]
      BY <1>7 DEF LsofEnds
  <2>2. scan' \in Scans
      BY <2>1 DEF CallerTypes, Scans
  <2>3. \A h \in standing : Covered(h)'
      BY <1>1, <2>1 DEF CallerTypes, Scans, ScanInv, Covered
  <2> QED
      BY <1>1, <2>2, <2>3, ScanFrame
<1> QED
    BY <1>2, <1>3, <1>4, <1>5, <1>6, <1>7 DEF ScanStep

\* A capture without the helper begins with a scan of everything alive,
LEMMA BeginCaptureCaller ==
    ASSUME CallerInv, BeginCapture, UNCHANGED <<connection, batch, digest, builds>>
    PROVE  CallerInv'
<1> USE DEF CallerInv
<1>1. /\ policy # "privileged_helper" /\ evidence.stage = "none" /\ policy' = policy
      /\ evidence' = [stage |-> "capturing", complete |-> FALSE, seen |-> {}]
      /\ standing' = handles /\ handles' = handles
      /\ \E m \in {"native", "global"} : scan' = Scan(m, Alive)
    BY DEF BeginCapture, NoEvidence
<1>2. connection.state = "none"
    BY <1>1 DEF Begins
<1>3. Alive \subseteq Processes /\ \A h \in handles : h.process \in Alive
    BY RootFacts DEF CallerTypes, Alive
<1>4. scan' \in Scans /\ ScanInv'
  <2>1. PICK m \in {"native", "global"} : scan' = Scan(m, Alive)
      BY <1>1
  <2>2. scan' = [mode |-> m, left |-> Alive, reading |-> Nobody, kind |-> "cwd",
                 part |-> {}, seen |-> {}, denied |-> {}]
      BY <2>1 DEF Scan, NoScan
  <2> QED
      BY <1>1, <1>3, <2>2 DEF Scans, ScanInv, Covered, Kinds
<1>5. CallerTypes'
    BY <1>1, <1>4 DEF CallerTypes
<1>6. Begins' /\ BatchesInv' /\ ReplyInv' /\ EvidenceInv' /\ BuildsInv'
    BY <1>1, <1>2 DEF Begins, BatchesInv, ReplyInv, EvidenceInv, BuildsInv
<1> QED
    BY <1>4, <1>5, <1>6

\* and ends with what the scan has seen.
LEMMA EndCaptureCaller ==
    ASSUME CallerInv, EndCapture, UNCHANGED <<connection, batch, digest, builds>>
    PROVE  CallerInv'
<1> USE DEF CallerInv
<1>1. /\ policy # "privileged_helper" /\ evidence.stage = "capturing" /\ scan' = NoScan
      /\ evidence' = [stage |-> "done", complete |-> (scan.mode = "complete"), seen |-> scan.seen]
      /\ UNCHANGED <<policy, handles, standing>>
    BY DEF EndCapture, Collected, people
<1>2. NoScan \in Scans /\ NoScan.mode = "none"
    BY DEF NoScan, Scans, Kinds
<1>3. connection.state = "none"
    BY <1>1 DEF Begins
<1>4. CallerTypes'
    BY <1>1, <1>2 DEF CallerTypes, Scans
<1>5. ScanInv'
    BY <1>1, <1>2 DEF ScanInv, Covered
<1>6. Begins' /\ BatchesInv' /\ ReplyInv' /\ BuildsInv'
    BY <1>1, <1>2, <1>3 DEF Begins, BatchesInv, ReplyInv, BuildsInv
<1>7. EvidenceInv'
  <2>1. scan.mode = "complete" => standing \subseteq scan.seen
      BY DEF ScanInv, Covered
  <2>2. scan.seen \subseteq Handles
      BY DEF CallerTypes, Scans
  <2> QED
      BY <1>1, <2>1, <2>2 DEF EvidenceInv, Matched
<1> QED
    BY <1>4, <1>5, <1>6, <1>7

\* Whatever the processes do, it only reduces what stays.
LEMMA ChurnCaller ==
    ASSUME CallerInv, Churn, UNCHANGED <<connection, batch, digest, builds>>
    PROVE  CallerInv'
<1> USE DEF CallerInv
<1>1. /\ evidence.stage # "done" /\ standing' = standing \cap handles'
      /\ UNCHANGED <<policy, scan, evidence>>
    BY DEF Churn
<1>2. handles' \subseteq Handles
    BY DEF Churn, Holdable, CallerTypes
<1>3. CallerTypes'
    BY <1>1, <1>2 DEF CallerTypes
<1>4. ScanInv' /\ Begins'
    BY <1>1 DEF ScanInv, Covered, Begins
<1>5. \A i \in 1 .. Len(Batches) : Asked(i)' \subseteq Asked(i)
    BY <1>1 DEF Asked
<1>6. BatchesInv' /\ ReplyInv' /\ EvidenceInv' /\ BuildsInv'
    BY <1>1, <1>5 DEF CallerTypes, BatchesInv, ReplyInv, EvidenceInv, BuildsInv
<1> QED
    BY <1>3, <1>4, <1>6

----------------------------------------------------------------------------
(* The caller of the helper.                                               *)

\* A failed capture leaves incomplete evidence, which names every root.
LEMMA FailCaptureCaller ==
    ASSUME CallerInv, FailCapture, policy = "privileged_helper"
    PROVE  CallerInv'
<1> USE DEF CallerInv
<1>1. /\ evidence' = [stage |-> "done", complete |-> FALSE, seen |-> {}]
      /\ connection' = [state |-> "none", reply |-> Absent]
      /\ UNCHANGED <<policy, handles, standing, scan, batch, digest, builds>>
    BY DEF FailCapture, Collected, NoConnection, people
<1>2. CallerTypes' /\ ScanInv'
    BY <1>1 DEF CallerTypes, ScanInv, Covered
<1>3. Begins' /\ BatchesInv' /\ ReplyInv' /\ EvidenceInv' /\ BuildsInv'
    BY <1>1 DEF Begins, BatchesInv, ReplyInv, EvidenceInv, BuildsInv
<1> QED
    BY <1>2, <1>3

\* What stays is counted from the first connection on.
LEMMA ConnectCaller == ASSUME CallerInv, Connect PROVE CallerInv'
<1> USE DEF CallerInv
<1>1. /\ policy = "privileged_helper" /\ evidence.stage \in {"none", "capturing"}
      /\ evidence' = [evidence EXCEPT !.stage = "capturing"]
      /\ standing' = IF evidence.stage = "none" THEN handles ELSE standing
      /\ connection' = [state |-> "queued", reply |-> Absent]
      /\ UNCHANGED <<policy, handles, scan, batch, digest, builds>>
    BY DEF Connect, NoConnection
<1>2. /\ evidence' \in [stage : {"none", "capturing", "done"}, complete : BOOLEAN,
                        seen : SUBSET Handles]
      /\ evidence'.stage = "capturing" /\ evidence'.complete = evidence.complete
      /\ evidence'.seen = evidence.seen
    BY <1>1 DEF CallerTypes
<1>3. CallerTypes'
    BY <1>1, <1>2 DEF CallerTypes
<1>4. ScanInv'
    BY <1>1 DEF ScanInv, Covered, Begins
<1>5. Begins' /\ ReplyInv' /\ EvidenceInv' /\ BuildsInv'
    BY <1>1, <1>2 DEF Begins, ReplyInv, EvidenceInv, BuildsInv
<1>6. BatchesInv'
    BY <1>1, <1>2 DEF BatchesInv, Begins, Asked
<1> QED
    BY <1>3, <1>4, <1>5, <1>6

\* The batches are all the roots, so with the last answer all that stays is in.
LEMMA ReceiveCaller == ASSUME CallerInv, Receive PROVE CallerInv'
<1> USE DEF CallerInv
<1> DEFINE reply == connection.reply
           seen == evidence.seen \cup reply.seen
<1>1. /\ connection.state = "answered" /\ reply.complete /\ SameDigest(reply)
      /\ builds' = builds \cup {reply.build} /\ digest' = reply.digest
      /\ connection' = [state |-> "none", reply |-> Absent]
      /\ UNCHANGED <<policy, handles, standing, scan>>
    BY DEF Receive, NoConnection, people
<1>2. /\ reply \in Replies /\ Asked(batch) \subseteq reply.seen
      /\ reply.build \in Versions /\ reply.digest = reply.build
    BY <1>1 DEF ReplyInv
<1>3. policy = "privileged_helper" /\ evidence.stage = "capturing"
    BY <1>1 DEF Begins
<1>4. seen \in SUBSET Handles
    BY <1>2 DEF CallerTypes, Replies
<1>5. \A i \in 1 .. batch : Asked(i) \subseteq seen
  <2>1. \A i \in 1 .. batch - 1 : Asked(i) \subseteq evidence.seen
      BY <1>3 DEF BatchesInv
  <2> QED
      BY <1>2, <2>1 DEF CallerTypes
<1>6. /\ \/ batch' = batch + 1 /\ batch < Len(Batches)
            /\ evidence' = [evidence EXCEPT !.seen = seen]
         \/ batch' = batch /\ batch = Len(Batches)
            /\ evidence' = [stage |-> "done", complete |-> TRUE, seen |-> seen]
    BY BatchesAssumption DEF Receive, Collected, CallerTypes
<1>7. \E s \in {"capturing", "done"}, c \in BOOLEAN :
          evidence' = [stage |-> s, complete |-> c, seen |-> seen]
  <2>1. /\ evidence = [stage |-> "capturing", complete |-> evidence.complete,
                       seen |-> evidence.seen]
        /\ evidence.complete \in BOOLEAN
      BY <1>3 DEF CallerTypes
  <2>2. [evidence EXCEPT !.seen = seen]
            = [stage |-> "capturing", complete |-> evidence.complete, seen |-> seen]
      BY <2>1
  <2> HIDE DEF seen
  <2> QED
      BY <1>6, <2>1, <2>2
<1>8. CallerTypes'
  <2>1. batch' \in 1 .. Len(Batches)
      BY <1>6, BatchesAssumption DEF CallerTypes
  <2>2. digest' \in Versioned
      BY <1>1, <1>2 DEF Versioned
  <2> QED
      BY <1>1, <1>4, <1>7, <2>1, <2>2 DEF CallerTypes
<1>9. ScanInv' /\ Begins' /\ ReplyInv'
    BY <1>1, <1>7 DEF ScanInv, Covered, Begins, ReplyInv
<1>10. BuildsInv'
    BY <1>1, <1>2, AbsentAssumption DEF BuildsInv, SameDigest
<1>11. \A i \in 1 .. Len(Batches) : Asked(i)' = Asked(i)
    BY <1>1 DEF Asked
<1>12. CASE batch' = batch + 1 /\ batch < Len(Batches) /\ evidence' = [evidence EXCEPT !.seen = seen]
  <2>1. evidence'.seen = seen /\ evidence'.stage = "capturing" /\ evidence'.complete = evidence.complete
      BY <1>3, <1>12 DEF CallerTypes
  <2>2. BatchesInv'
      BY <1>5, <1>11, <1>12, <2>1 DEF BatchesInv, CallerTypes
  <2>3. EvidenceInv'
      BY <1>3, <2>1 DEF EvidenceInv
  <2> QED
      BY <1>8, <1>9, <1>10, <2>2, <2>3
<1>13. CASE batch' = batch /\ batch = Len(Batches)
            /\ evidence' = [stage |-> "done", complete |-> TRUE, seen |-> seen]
  <2>1. BatchesInv'
      BY <1>13 DEF BatchesInv
  <2>2. standing' = standing /\ standing \subseteq Handles
      BY <1>1 DEF CallerTypes
  <2>3. ASSUME NEW h \in standing, NEW r \in Above[h.path] PROVE h \in seen
    <3>1. r \in Roots
        BY <2>2, RootFacts
    <3>2. PICK i \in 1 .. Len(Batches) : r \in Batches[i]
        BY <3>1, BatchesAssumption
    <3>3. h \in Asked(i)
        BY <3>2 DEF Asked
    <3> QED
        BY <1>5, <1>13, <3>3
  <2>4. Matched(standing) \subseteq Matched(seen)
      BY <2>3 DEF Matched
  <2>5. EvidenceInv'
      BY <1>13, <2>2, <2>4 DEF EvidenceInv, Matched
  <2> QED
      BY <1>8, <1>9, <1>10, <2>1, <2>5
<1> QED
    BY <1>6, <1>12, <1>13

\* All steps of the caller of the helper.
LEMMA ClientStepCaller ==
    ASSUME CallerInv, policy = "privileged_helper", ClientStep PROVE CallerInv'
BY ConnectCaller, ReceiveCaller, FailCaptureCaller DEF ClientStep, CannotConnect, Abandon, Reject

----------------------------------------------------------------------------
(* The daemon.                                                             *)

\* A daemon that ends takes its scan and its connections with it,
LEMMA DaemonGoneCaller ==
    ASSUME CallerInv, DaemonGone, UNCHANGED <<policy, people, evidence, batch, digest, builds>>
    PROVE  CallerInv'
<1> USE DEF CallerInv
<1>1. scan' = NoScan /\ UNCHANGED <<policy, handles, standing, evidence, batch, digest, builds>>
    BY DEF DaemonGone, people
<1>2. NoScan \in Scans /\ NoScan.mode = "none"
    BY DEF NoScan, Scans, Kinds
<1>3. \/ connection' = connection
      \/ /\ connection.state # "none" /\ connection'.state = "reset"
         /\ connection' = [state |-> "reset", reply |-> connection.reply]
    BY DEF DaemonGone, CallerTypes
<1>4. CallerTypes'
    BY <1>1, <1>2, <1>3 DEF CallerTypes
<1>5. ScanInv'
    BY <1>1, <1>2 DEF ScanInv, Covered
<1>6. Begins' /\ BuildsInv' /\ EvidenceInv'
    BY <1>1, <1>2, <1>3 DEF Begins, BuildsInv, EvidenceInv, Matched
<1>7. BatchesInv' /\ ReplyInv'
    BY <1>1, <1>3 DEF BatchesInv, ReplyInv, Asked
<1> QED
    BY <1>4, <1>5, <1>6, <1>7

\* and leaves files and job.
LEMMA DaemonGoneService ==
    ASSUME ServiceInv, DaemonGone, UNCHANGED <<files, loaded, install>>
    PROVE  ServiceInv'
<1>1. daemon' = NoDaemon /\ NoDaemon \in Daemons /\ NoDaemon.state = "down"
    BY DEF DaemonGone, NoDaemon, Daemons, Versioned
<1> QED
    BY <1>1 DEF ServiceInv, ServiceTypes, DaemonInv, UnloadedInv, RollbackInv, Untouched

\* A request accepted begins a scan of everything alive, or none.
LEMMA AcceptCaller ==
    ASSUME IInv, policy = "privileged_helper", Accept PROVE CallerInv'
<1> USE DEF IInv, CallerInv
<1>1. /\ connection.state = "queued" /\ connection' = [state |-> "served", reply |-> connection.reply]
      /\ scan' = Scan("global", Alive) \/ scan' = Incomplete
      /\ UNCHANGED <<policy, handles, standing, evidence, batch, digest, builds>>
    BY DEF Accept, people, CallerTypes
<1>2. Incomplete \in Scans /\ Incomplete.mode = "incomplete"
    BY DEF Incomplete, NoScan, Scans, Kinds
<1>3. scan' \in Scans /\ \A h \in standing : Covered(h)'
    BY <1>1, <1>2, StartCovers DEF Covered
<1>4. CallerTypes' /\ ScanInv'
    BY <1>1, <1>3 DEF CallerTypes, ScanInv
<1>5. evidence.stage = "capturing"
    BY <1>1 DEF Begins
<1>6. Begins' /\ BatchesInv' /\ ReplyInv' /\ EvidenceInv' /\ BuildsInv'
    BY <1>1, <1>5 DEF Begins, BatchesInv, Asked, ReplyInv, EvidenceInv, Matched, BuildsInv
<1> QED
    BY <1>4, <1>6

\* A complete answer holds what stays below the roots asked for, and the digest of the
\* build that gives it.
LEMMA ReplyCaller ==
    ASSUME IInv, policy = "privileged_helper", Reply PROVE CallerInv'
<1> USE DEF IInv, CallerInv
<1> DEFINE asked == Batches[batch]
           seen == {h \in scan.seen : Above[h.path] \cap asked # {}}
           complete == [complete |-> TRUE, digest |-> daemon.digest, seen |-> seen,
                        build |-> daemon.build]
           refused == [complete |-> FALSE, seen |-> {}, digest |-> Absent, build |-> daemon.build]
<1>1. /\ daemon.state = "capturing" /\ scan' = NoScan
      /\ \/ connection' = connection
         \/ /\ connection.state = "served"
            /\ \/ scan.mode = "complete" /\ connection' = [state |-> "answered", reply |-> complete]
               \/ connection' = [state |-> "answered", reply |-> refused]
      /\ UNCHANGED <<policy, handles, standing, evidence, batch, digest, builds>>
    BY DEF Reply, people
<1>2. /\ daemon.build \in Versions /\ daemon.digest = daemon.build
    BY <1>1 DEF ServiceInv, DaemonInv
<1>3. complete \in Replies /\ refused \in Replies
  <2>1. seen \in SUBSET Handles
      BY DEF CallerTypes, Scans
  <2> QED
      BY <1>2, <2>1 DEF Replies, Versioned
<1>4. NoScan \in Scans /\ NoScan.mode = "none"
    BY DEF NoScan, Scans, Kinds
<1>5. CallerTypes'
  <2>1. ASSUME NEW r \in Replies, connection' = [state |-> "answered", reply |-> r]
        PROVE  connection' \in [state : {"none", "queued", "served", "answered", "reset"},
                                reply : Replies \cup {Absent}]
      BY <2>1
  <2>2. connection' \in [state : {"none", "queued", "served", "answered", "reset"},
                         reply : Replies \cup {Absent}]
      BY <1>1, <1>3, <2>1 DEF CallerTypes
  <2> QED
      BY <1>1, <1>4, <2>2 DEF CallerTypes
<1>6. ScanInv'
    BY <1>1, <1>4 DEF ScanInv, Covered
<1>7. Begins' /\ BatchesInv' /\ EvidenceInv' /\ BuildsInv'
    BY <1>1, <1>4 DEF Begins, BatchesInv, Asked, EvidenceInv, Matched, BuildsInv
<1>8. ReplyInv'
  <2>1. Asked(batch)' = Asked(batch)
      BY <1>1 DEF Asked
  <2>2. CASE connection' = connection
      BY <1>1, <2>1, <2>2 DEF ReplyInv
  <2>3. CASE scan.mode = "complete" /\ connection' = [state |-> "answered", reply |-> complete]
    <3>1. Asked(batch) \subseteq seen
        BY <2>3 DEF ScanInv, Covered, Asked
    <3> QED
        BY <1>2, <1>3, <2>1, <2>3, <3>1 DEF ReplyInv
  <2>4. CASE connection' = [state |-> "answered", reply |-> refused]
      BY <1>3, <2>4 DEF ReplyInv
  <2> QED
      BY <1>1, <2>2, <2>3, <2>4
<1> QED
    BY <1>5, <1>6, <1>7, <1>8

\* All steps of the daemon.
LEMMA DaemonStepKeeps ==
    ASSUME IInv, policy = "privileged_helper", DaemonStep PROVE IInv'
<1> USE DEF IInv
<1>1. CASE Launch
  <2>1. CallerInv'
      BY <1>1, CallerStays DEF Launch, captureVars, people, client
  <2>2. /\ loaded /\ files["binary"] # Absent /\ UNCHANGED <<files, loaded, install>>
        /\ daemon' = [state |-> "starting", build |-> files["binary"], config |-> Absent,
                      digest |-> Absent]
      BY <1>1 DEF Launch, NoDaemon
  <2>3. files["binary"] \in Versions
      BY <2>2 DEF ServiceInv, ServiceTypes, Installed, Versioned, Files
  <2>4. ServiceInv'
      BY <2>2, <2>3 DEF ServiceInv, ServiceTypes, Daemons, Versioned, DaemonInv, UnloadedInv,
             RollbackInv, Untouched
  <2> QED
      BY <2>1, <2>4
<1>2. CASE Bind
  <2>1. CallerInv'
      BY <1>2, CallerStays DEF Bind, captureVars, people, client
  <2>2. /\ daemon.state = "starting" /\ UNCHANGED <<files, loaded, install>>
        /\ daemon' = [state |-> "bound", build |-> daemon.build, config |-> files["config"],
                      digest |-> daemon.digest]
      BY <1>2 DEF Bind, ServiceInv, ServiceTypes, Daemons
  <2>3. files["config"] \in Versioned
      BY DEF ServiceInv, ServiceTypes, Installed, Files
  <2>4. ServiceInv'
      BY <2>2, <2>3 DEF ServiceInv, ServiceTypes, Daemons, DaemonInv, UnloadedInv,
             RollbackInv, Untouched
  <2> QED
      BY <2>1, <2>4
<1>3. CASE OpenSocket
  <2>1. CallerInv'
      BY <1>3, CallerStays DEF OpenSocket, captureVars, people, client
  <2>2. /\ daemon.state = "bound" /\ UNCHANGED <<files, loaded, install>>
        /\ daemon' = [state |-> "accepting", build |-> daemon.build, config |-> daemon.config,
                      digest |-> daemon.digest]
      BY <1>3 DEF OpenSocket, ServiceInv, ServiceTypes, Daemons
  <2>3. ServiceInv'
      BY <2>2 DEF ServiceInv, ServiceTypes, Daemons, DaemonInv, UnloadedInv, RollbackInv, Untouched
  <2> QED
      BY <2>1, <2>3
<1>4. CASE StartupFails \/ DaemonDies
    BY <1>4, DaemonGoneCaller, DaemonGoneService DEF StartupFails, DaemonDies
<1>5. CASE Accept
  <2>1. /\ daemon.state = "accepting" /\ UNCHANGED <<files, loaded, install>>
        /\ daemon' = [state |-> "capturing", build |-> daemon.build, config |-> daemon.config,
                      digest |-> Digest]
      BY <1>5 DEF Accept, ServiceInv, ServiceTypes, Daemons
  <2>2. Digest = daemon.build /\ daemon.build \in Versioned
      BY <2>1 DEF Digest, ServiceInv, DaemonInv, Versioned
  <2>3. ServiceInv'
      BY <2>1, <2>2 DEF ServiceInv, ServiceTypes, Daemons, DaemonInv, UnloadedInv, RollbackInv, Untouched
  <2> QED
      BY <1>5, <2>3, AcceptCaller
<1>6. CASE Reply
  <2>1. /\ daemon.state = "capturing" /\ UNCHANGED <<files, loaded, install>>
        /\ daemon' = [state |-> "accepting", build |-> daemon.build, config |-> daemon.config,
                      digest |-> daemon.digest]
      BY <1>6 DEF Reply, ServiceInv, ServiceTypes, Daemons
  <2>2. ServiceInv'
      BY <2>1 DEF ServiceInv, ServiceTypes, Daemons, DaemonInv, UnloadedInv, RollbackInv, Untouched
  <2> QED
      BY <1>6, <2>2, ReplyCaller
<1> QED
    BY <1>1, <1>2, <1>3, <1>4, <1>5, <1>6 DEF DaemonStep

----------------------------------------------------------------------------
(* The administrator.                                                      *)

\* A step of the command to its next stage changes nothing else of it.
LEMMA StageFacts ==
    ASSUME ServiceTypes, NEW s \in Stages, Stage(s)
    PROVE  /\ install' \in Installs /\ install'.stage = s
           /\ install'.version = install.version /\ install'.backup = install.backup
           /\ install'.wasLoaded = install.wasLoaded /\ install'.before = install.before
BY DEF ServiceTypes, Installs, Stage

\* A step of the command that touches neither files, job nor daemon.
LEMMA StageKeeps ==
    ASSUME ServiceInv, NEW s \in Stages, Stage(s), UNCHANGED <<files, loaded, daemon>>,
           s \in Unloaded => ~loaded,
           s \in Reversible => install.stage \in Reversible,
           s \in Reversible \ {"inspect"} => install.wasLoaded = install.before.loaded,
           s \in {"inspect", "bootout", "undo_discard", "failed", "rolled_back"} => Untouched,
           s # "undo_bootstrap"
    PROVE  ServiceInv'
<1>1. /\ install' \in Installs /\ install'.stage = s
      /\ install'.backup = install.backup
      /\ install'.wasLoaded = install.wasLoaded /\ install'.before = install.before
    BY StageFacts DEF ServiceInv
<1>2. ServiceTypes' /\ DaemonInv' /\ UnloadedInv'
    BY <1>1 DEF ServiceInv, ServiceTypes, DaemonInv, UnloadedInv
<1>3. RollbackInv'
    BY <1>1 DEF ServiceInv, RollbackInv, Untouched
<1> QED
    BY <1>2, <1>3 DEF ServiceInv

\* An installation records what it finds,
LEMMA BackupService == ASSUME ServiceInv, NEW v \in Versions, Backup(v) PROVE ServiceInv'
<1>1. /\ install' = [stage |-> "inspect", version |-> v, backup |-> files, wasLoaded |-> FALSE,
                     before |-> [files |-> files, loaded |-> loaded]]
      /\ UNCHANGED <<files, loaded, daemon>>
    BY DEF Backup, service
<1>2. [files |-> files, loaded |-> loaded] \in Snapshots
    BY DEF ServiceInv, ServiceTypes, Snapshots
<1>3. install' \in Installs
    BY <1>1, <1>2 DEF ServiceInv, ServiceTypes, Installs, Stages, Versioned
<1>4. ServiceTypes' /\ DaemonInv' /\ UnloadedInv'
    BY <1>1, <1>3 DEF ServiceInv, ServiceTypes, DaemonInv, UnloadedInv, Unloaded
<1>5. RollbackInv'
    BY <1>1, <1>2 DEF RollbackInv, Untouched, Reversible
<1> QED
    BY <1>4, <1>5 DEF ServiceInv

\* and whether the job is loaded,
LEMMA InspectServiceKeeps == ASSUME ServiceInv, InspectService PROVE ServiceInv'
<1> USE DEF ServiceInv
<1>1. /\ install.stage = "inspect" /\ UNCHANGED <<files, loaded, daemon>>
      /\ install' = [stage |-> IF loaded THEN "bootout" ELSE "binary", version |-> install.version,
                     backup |-> install.backup, wasLoaded |-> loaded, before |-> install.before]
    BY DEF InspectService, service, ServiceTypes, Installs
<1>2. install' \in Installs
    BY <1>1 DEF ServiceTypes, Installs, Stages
<1>3. ServiceTypes' /\ DaemonInv' /\ UnloadedInv'
    BY <1>1, <1>2 DEF ServiceTypes, DaemonInv, UnloadedInv, Unloaded
<1>4. RollbackInv'
    BY <1>1 DEF RollbackInv, Untouched, Reversible
<1> QED
    BY <1>3, <1>4

\* The job and its daemon are gone together.
LEMMA BootoutKeeps ==
    ASSUME IInv,
           \/ Bootout("bootout", "binary") \/ Bootout("undo_bootout", "undo_socket")
           \/ Bootout("out_bootout", "out_socket")
    PROVE  IInv'
<1> USE DEF IInv
<1>1. PICK at \in Stages, next \in Stages :
          /\ <<at, next>> \in {<<"bootout", "binary">>, <<"undo_bootout", "undo_socket">>,
                              <<"out_bootout", "out_socket">>}
          /\ Bootout(at, next)
    BY DEF Stages
<1>2. /\ install.stage = at /\ loaded' = FALSE /\ files' = files /\ Stage(next)
      /\ UNCHANGED <<policy, people, evidence, batch, digest, builds>>
  <2>1. Bootout(at, next)
      BY <1>1
  <2> QED
      BY <2>1 DEF Bootout
<1>3. \/ DaemonGone
      \/ daemon.state = "down" /\ UNCHANGED <<daemon, scan, connection>>
  <2>1. Bootout(at, next)
      BY <1>1
  <2> QED
      BY <2>1 DEF Bootout
<1>4. CallerInv'
    BY <1>2, <1>3, DaemonGoneCaller, CallerStays DEF people
<1>5. daemon'.state = "down" /\ daemon' \in Daemons
    BY <1>3 DEF DaemonGone, NoDaemon, Daemons, Versioned, ServiceInv, ServiceTypes
<1>6. /\ install' \in Installs /\ install'.stage = next
      /\ install'.backup = install.backup
      /\ install'.wasLoaded = install.wasLoaded /\ install'.before = install.before
    BY <1>2, StageFacts DEF ServiceInv
<1>7. ServiceTypes' /\ DaemonInv' /\ UnloadedInv'
    BY <1>2, <1>5, <1>6 DEF ServiceInv, ServiceTypes, DaemonInv, UnloadedInv
<1>8. RollbackInv'
    BY <1>1, <1>2, <1>6 DEF ServiceInv, RollbackInv, Untouched, Reversible
<1> QED
    BY <1>4, <1>7, <1>8 DEF ServiceInv

\* Files are written while no daemon runs.
LEMMA WriteService ==
    ASSUME ServiceInv,
           Write("binary", "config") \/ Write("config", "plist") \/ Write("plist", "bootstrap")
    PROVE  ServiceInv'
<1> USE DEF ServiceInv
<1>1. PICK f \in Files, next \in Stages :
          /\ <<f, next>> \in {<<"binary", "config">>, <<"config", "plist">>,
                             <<"plist", "bootstrap">>}
          /\ Write(f, next)
    BY DEF Stages, Files
<1>2. /\ install.stage = f /\ files' = [files EXCEPT ![f] = install.version] /\ Stage(next)
      /\ UNCHANGED <<loaded, daemon>>
    BY <1>1 DEF Write
<1>3. ~loaded /\ daemon.state = "down"
    BY <1>1, <1>2 DEF UnloadedInv, Unloaded, DaemonInv
<1>4. /\ install' \in Installs /\ install'.stage = next
      /\ install'.backup = install.backup
      /\ install'.wasLoaded = install.wasLoaded /\ install'.before = install.before
    BY <1>2, StageFacts
<1>5. files' \in Installed
    BY <1>2 DEF ServiceTypes, Installed, Installs
<1>6. ServiceTypes' /\ DaemonInv' /\ UnloadedInv'
    BY <1>2, <1>3, <1>4, <1>5 DEF ServiceTypes, DaemonInv, UnloadedInv
<1>7. RollbackInv'
    BY <1>1, <1>2, <1>4 DEF RollbackInv, Untouched, Reversible
<1> QED
    BY <1>6, <1>7

\* The job is loaded again: the new one, or the one that was there.
LEMMA BootstrapService ==
    ASSUME ServiceInv, Bootstrap("bootstrap", "probe") \/ Bootstrap("undo_bootstrap", "undo_discard")
    PROVE  ServiceInv'
<1> USE DEF ServiceInv
<1>1. PICK at \in Stages, next \in Stages :
          /\ <<at, next>> \in {<<"bootstrap", "probe">>, <<"undo_bootstrap", "undo_discard">>}
          /\ Bootstrap(at, next)
    BY DEF Stages
<1>2. install.stage = at /\ loaded' = TRUE /\ Stage(next) /\ UNCHANGED <<files, daemon>>
    BY <1>1 DEF Bootstrap
<1>3. /\ install' \in Installs /\ install'.stage = next
      /\ install'.backup = install.backup
      /\ install'.wasLoaded = install.wasLoaded /\ install'.before = install.before
    BY <1>2, StageFacts
<1>4. ServiceTypes' /\ DaemonInv' /\ UnloadedInv'
    BY <1>1, <1>2, <1>3 DEF ServiceTypes, DaemonInv, UnloadedInv, Unloaded
<1>5. RollbackInv'
    BY <1>1, <1>2, <1>3 DEF RollbackInv, Untouched, Reversible
<1> QED
    BY <1>4, <1>5

\* The probe has the daemon read its own digest.
LEMMA ProbeService == ASSUME ServiceInv, Probe PROVE ServiceInv'
<1> USE DEF ServiceInv
<1>1. /\ daemon.state = "accepting" /\ UNCHANGED <<files, loaded>> /\ Stage("discard")
      /\ daemon' = [state |-> "accepting", build |-> daemon.build, config |-> daemon.config,
                    digest |-> Digest]
    BY DEF Probe, ServiceTypes, Daemons
<1>2. Digest = daemon.build /\ daemon.build \in Versioned
    BY <1>1 DEF Digest, DaemonInv, Versioned
<1>3. "discard" \in Stages
    BY DEF Stages
<1>4. install' \in Installs /\ install'.stage = "discard"
    BY <1>1, <1>3, StageFacts
<1> QED
    BY <1>1, <1>2, <1>4 DEF ServiceTypes, Daemons, DaemonInv, UnloadedInv, Unloaded, RollbackInv,
           Reversible

\* The backup is discarded when it is not needed any more.
LEMMA DiscardService ==
    ASSUME ServiceInv, Discard("discard", "installed") \/ Discard("undo_discard", "rolled_back")
    PROVE  ServiceInv'
<1> USE DEF ServiceInv
<1>1. PICK at \in Stages, next \in Stages :
          /\ <<at, next>> \in {<<"discard", "installed">>, <<"undo_discard", "rolled_back">>}
          /\ Discard(at, next)
    BY DEF Stages, Ends
<1>2. /\ install.stage = at /\ UNCHANGED <<files, loaded, daemon>>
      /\ install' = [stage |-> next, version |-> install.version, backup |-> Absent,
                     wasLoaded |-> install.wasLoaded, before |-> install.before]
    BY <1>1 DEF Discard, service, ServiceTypes, Installs
<1>3. install' \in Installs
    BY <1>2 DEF ServiceTypes, Installs
<1> QED
    BY <1>1, <1>2, <1>3 DEF ServiceTypes, DaemonInv, UnloadedInv, Unloaded, RollbackInv, Reversible,
           Untouched

\* A failure before the job is unloaded has touched nothing; one after it is rolled back.
LEMMA InstallFailsService == ASSUME ServiceInv, InstallFails PROVE ServiceInv'
<1>1. UNCHANGED <<files, loaded, daemon>>
    BY DEF InstallFails, service
<1>2. CASE install.stage \in {"inspect", "bootout"} /\ Stage("failed")
  <2>1. "failed" \in Stages \ (Unloaded \cup Reversible)
      BY DEF Stages, Ends, Unloaded, Reversible
  <2>2. Untouched
      BY <1>2 DEF ServiceInv, RollbackInv
  <2> QED
      BY <1>1, <1>2, <2>1, <2>2, StageKeeps
<1>3. CASE /\ install.stage \in {"binary", "config", "plist", "bootstrap", "probe"}
           /\ Stage(IF loaded THEN "undo_bootout" ELSE "undo_socket")
  <2> DEFINE s == IF loaded THEN "undo_bootout" ELSE "undo_socket"
  <2>1. s \in Stages /\ s \in Reversible /\ (s \in Unloaded => ~loaded)
      BY DEF Stages, Ends, Unloaded, Reversible
  <2>2. install.stage \in Reversible \ {"inspect"}
      BY <1>3 DEF Reversible
  <2>3. install.wasLoaded = install.before.loaded
      BY <2>2 DEF ServiceInv, RollbackInv
  <2> QED
      BY <1>1, <1>3, <2>1, <2>2, <2>3, StageKeeps
<1>4. CASE Stage("not_rolled_back")
  <2>1. "not_rolled_back" \in Stages \ (Unloaded \cup Reversible)
      BY DEF Stages, Ends, Unloaded, Reversible
  <2> QED
      BY <1>1, <1>4, <2>1, StageKeeps
<1> QED
    BY <1>2, <1>3, <1>4 DEF InstallFails

\* The socket is removed before the files.
LEMMA RemoveSocketService ==
    ASSUME ServiceInv,
           RemoveSocket("undo_socket", "undo_files") \/ RemoveSocket("out_socket", "out_files")
    PROVE  ServiceInv'
<1>1. PICK at \in Stages, next \in Stages :
          /\ <<at, next>> \in {<<"undo_socket", "undo_files">>, <<"out_socket", "out_files">>}
          /\ RemoveSocket(at, next)
    BY DEF Stages
<1>2. install.stage = at /\ Stage(next) /\ UNCHANGED <<files, loaded, daemon>>
    BY <1>1 DEF RemoveSocket
<1>3. ~loaded
    BY <1>1, <1>2 DEF ServiceInv, UnloadedInv, Unloaded
<1>4. next \in Reversible => /\ install.stage \in Reversible
                            /\ install.wasLoaded = install.before.loaded
    BY <1>1, <1>2 DEF ServiceInv, RollbackInv, Reversible
<1> QED
    BY <1>1, <1>2, <1>3, <1>4, StageKeeps

\* The files are as before, or all removed and the command still at it.
LEMMA RestoreFilesService == ASSUME ServiceInv, RestoreFiles PROVE ServiceInv'
<1> USE DEF ServiceInv
<1>1. install.stage = "undo_files" /\ UNCHANGED <<loaded, daemon>>
    BY DEF RestoreFiles
<1>2. /\ ~loaded /\ daemon.state = "down" /\ install.backup = install.before.files
      /\ install.before.files \in Installed /\ install.wasLoaded = install.before.loaded
    BY <1>1 DEF UnloadedInv, Unloaded, DaemonInv, RollbackInv, Reversible, Snapshots
<1>3. CASE /\ files' = Restored
           /\ Stage(IF install.wasLoaded THEN "undo_bootstrap" ELSE "undo_discard")
  <2> DEFINE s == IF install.wasLoaded THEN "undo_bootstrap" ELSE "undo_discard"
  <2>1. s \in Stages
      BY DEF Stages
  <2>2. /\ install' \in Installs /\ install'.stage = s
        /\ install'.backup = install.backup
        /\ install'.wasLoaded = install.wasLoaded /\ install'.before = install.before
      BY <1>3, <2>1, StageFacts
  <2>3. files' = install.before.files
      BY <1>2, <1>3 DEF Restored
  <2>4. ServiceTypes' /\ DaemonInv' /\ UnloadedInv'
      BY <1>1, <1>2, <2>2, <2>3 DEF ServiceTypes, DaemonInv, UnloadedInv
  <2>5. RollbackInv'
      BY <1>1, <1>2, <2>2, <2>3 DEF RollbackInv, Untouched, Reversible, ServiceTypes, Installs
  <2> QED
      BY <2>4, <2>5
<1>4. CASE files' = Nothing /\ UNCHANGED install
  <2>1. files' \in Installed
      BY <1>4 DEF Nothing, Installed, Versioned
  <2> QED
      BY <1>1, <1>2, <1>4, <2>1 DEF ServiceTypes, DaemonInv, UnloadedInv, RollbackInv
<1> QED
    BY <1>3, <1>4 DEF RestoreFiles

\* An uninstallation and a kill promise nothing about the files.
LEMMA UninstallService ==
    ASSUME ServiceInv, Uninstall \/ RemoveFiles \/ KillInstall PROVE ServiceInv'
<1>1. CASE Uninstall
  <2> DEFINE s == IF loaded THEN "out_bootout" ELSE "out_socket"
  <2>1. s \in Stages \ Reversible /\ (s \in Unloaded => ~loaded)
      BY DEF Stages, Reversible, Unloaded
  <2>2. Stage(s) /\ UNCHANGED <<files, loaded, daemon>>
      BY <1>1 DEF Uninstall, service
  <2> QED
      BY <2>1, <2>2, StageKeeps
<1>2. CASE RemoveFiles
  <2>1. /\ install.stage = "out_files" /\ files' = Nothing /\ Stage("uninstalled")
        /\ UNCHANGED <<loaded, daemon>>
      BY <1>2 DEF RemoveFiles
  <2>2. daemon.state = "down"
      BY <2>1 DEF ServiceInv, UnloadedInv, Unloaded, DaemonInv
  <2>3. "uninstalled" \in Stages \ (Reversible \cup Unloaded)
      BY DEF Stages, Ends, Reversible, Unloaded
  <2>4. install' \in Installs /\ install'.stage = "uninstalled"
      BY <2>1, <2>3, StageFacts DEF ServiceInv
  <2>5. files' \in Installed
      BY <2>1 DEF Nothing, Installed, Versioned
  <2> QED
      BY <2>1, <2>2, <2>3, <2>4, <2>5 DEF ServiceInv, ServiceTypes, DaemonInv, UnloadedInv,
             RollbackInv
<1>3. CASE KillInstall
  <2>1. "killed" \in Stages \ (Reversible \cup Unloaded)
      BY DEF Stages, Ends, Reversible, Unloaded
  <2>2. Stage("killed") /\ UNCHANGED <<files, loaded, daemon>>
      BY <1>3 DEF KillInstall, service
  <2> QED
      BY <2>1, <2>2, StageKeeps
<1> QED
    BY <1>1, <1>2, <1>3

\* All steps of the administrator.
LEMMA InstallStepKeeps == ASSUME IInv, InstallStep \/ KillInstall PROVE IInv'
<1> DEFINE B == \/ Bootout("bootout", "binary") \/ Bootout("undo_bootout", "undo_socket")
                \/ Bootout("out_bootout", "out_socket")
<1>1. CASE B
    BY <1>1, BootoutKeeps
<1>2. CASE ~B
  <2>1. CallerInv'
    <3>1. UNCHANGED <<policy, handles, standing, scan, evidence, connection, batch, digest, builds>>
        BY <1>2 DEF InstallStep, KillInstall, Backup, InspectService, Write, Bootstrap, Probe, Discard,
               InstallFails, RemoveSocket, RestoreFiles, Uninstall, RemoveFiles, captureVars, people,
               client
    <3> QED
        BY <3>1, CallerStays DEF IInv
  <2>2. ServiceInv'
      BY <1>2, BackupService, InspectServiceKeeps, WriteService, BootstrapService, ProbeService,
         DiscardService, InstallFailsService, RemoveSocketService, RestoreFilesService,
         UninstallService DEF InstallStep, IInv
  <2> QED
      BY <2>1, <2>2 DEF IInv
<1> QED
    BY <1>1, <1>2

----------------------------------------------------------------------------
(* The theorems.                                                           *)

\* The invariant is inductive.
LEMMA InductiveStep == IInv /\ [Next]_helperVars => IInv'
<1> SUFFICES ASSUME IInv, [Next]_helperVars PROVE IInv'
    OBVIOUS
<1>1. CASE CaptureNext /\ UNCHANGED <<service, install, client>>
  <2>1. ServiceInv'
      BY <1>1, ServiceStays DEF service, IInv
  <2>2. CallerInv'
      BY <1>1, BeginCaptureCaller, ScanStepCaller, EndCaptureCaller, ChurnCaller
         DEF CaptureNext, client, IInv
  <2> QED
      BY <2>1, <2>2 DEF IInv
<1>2. CASE policy = "privileged_helper" /\ (InstallStep \/ KillInstall \/ DaemonStep)
    BY <1>2, InstallStepKeeps, DaemonStepKeeps
<1>3. CASE policy = "privileged_helper" /\ ClientStep
  <2>1. ServiceInv'
      BY <1>3, ServiceStays DEF ClientStep, Connect, CannotConnect, Abandon, Receive, Reject, FailCapture,
             service, IInv
  <2> QED
      BY <1>3, <2>1, ClientStepCaller DEF IInv
<1>4. CASE UNCHANGED helperVars
    BY <1>4, CallerStays, ServiceStays DEF helperVars, captureVars, people, service, client, IInv
<1> QED
    BY <1>1, <1>2, <1>3, <1>4 DEF Next

\* Throughout every behaviour the caller's evidence covers what stays, and the helper that
\* runs is the one installed.
THEOREM HelperInvariance == Spec => []IInv
BY InitHolds, InductiveStep, PTL DEF Spec

\* A root below which some process holds the same handle from the beginning to the end of a
\* capture is reported as owned, whichever backend looked, in however many batches, and
\* whatever was opened, closed, denied or failed meanwhile.
THEOREM OwnerSafety == Spec => []StandingOwnerIsSeen
<1>1. IInv => StandingOwnerIsSeen
  <2> SUFFICES ASSUME IInv PROVE Matched(standing) \subseteq OwnedRoots
      BY DEF StandingOwnerIsSeen
  <2>1. standing \subseteq Handles
      BY DEF IInv, CallerInv, CallerTypes
  <2>2. Matched(standing) \subseteq Roots
      BY <2>1, RootFacts DEF Matched
  <2> QED
      BY <2>2 DEF IInv, CallerInv, EvidenceInv, OwnedRoots
<1> QED
    BY <1>1, HelperInvariance, PTL

\* Complete evidence comes from one build of the helper, although every batch has a
\* connection of its own and the helper may be replaced between two of them.
THEOREM BuildSafety == Spec => []OneBuildPerEvidence
<1>1. IInv => OneBuildPerEvidence
  <2> SUFFICES ASSUME IInv PROVE Cardinality(builds) <= 1
      BY DEF OneBuildPerEvidence
  <2>1. builds \in SUBSET {digest}
      BY DEF IInv, CallerInv, BuildsInv
  <2>2. IsFiniteSet({digest}) /\ Cardinality({digest}) = 1
      BY FS_Singleton
  <2> QED
      BY <2>1, <2>2, FS_Subset
<1> QED
    BY <1>1, HelperInvariance, PTL

\* An installation that fails and is rolled back leaves files and job as it found them,
\* wherever it failed.
THEOREM RollbackSafety == Spec => []RollbackRestores
<1>1. IInv => RollbackRestores
    BY DEF IInv, ServiceInv, RollbackInv, Untouched, RollbackRestores
<1> QED
    BY <1>1, HelperInvariance, PTL
=============================================================================
