---------------------------- MODULE OwnershipCapture ----------------------------
(***************************************************************************)
(* The snapshot of process ownership (lib.rs:4615-5476,                    *)
(* macos_open_handles.rs) beside the processes it looks at.  The processes *)
(* are visited one by one, and natively each in three readings, while they *)
(* open, close, start and exit; a snapshot that cannot be finished must    *)
(* free nothing.                                                           *)
(*                                                                         *)
(* A path stands for all paths with the same roots above it.               *)
(***************************************************************************)
EXTENDS FiniteSets, Integers, Sequences

CONSTANTS
    Processes,
    Foreign,    \* the processes that the caller may not inspect natively
    Paths,
    Roots,      \* the candidate and worktree roots that are asked about
    Above,      \* [Paths -> SUBSET Roots]: the roots among a path's ancestors
    Policies,   \* the macos_backend values configured
    MaxChurn,   \* bound: how often a process opens or closes something
    MaxTrouble  \* bound: failures, kills and limits

ASSUME AboveAssumption == Above \in [Paths -> SUBSET Roots]

VARIABLES
    policy,     \* MacosOwnershipBackend
    handles,    \* what the processes hold
    standing,   \* history: what has been held ever since the capture began
    churn,
    trouble,
    scan,       \* the enumeration in progress
    evidence    \* ProcessOwnershipEvidence of the caller

people == <<handles, standing, churn>>
captureVars == <<policy, people, trouble, scan, evidence>>

Nobody == "nobody"
ASSUME NobodyAssumption == Nobody \notin Processes

Kinds == {"cwd", "mapped", "open"}
Handles == [process : Processes, kind : Kinds, path : Paths]
\* Only the native snapshot reads the kinds apart.
Holdable == IF policy = "auto" THEN Handles ELSE {h \in Handles : h.kind = "open"}
Of(p) == {h \in handles : h.process = p}
Alive == {h.process : h \in handles}
Trouble == trouble < MaxTrouble /\ trouble' = trouble + 1

\* No scan; what one has seen is kept until somebody takes it.
NoScan == [mode |-> "none", left |-> {}, reading |-> Nobody, kind |-> "cwd",
           part |-> {}, seen |-> {}, denied |-> {}]
Scan(mode, processes) == [NoScan EXCEPT !.mode = mode, !.left = processes]
Finished == scan.mode \in {"complete", "incomplete"}
Incomplete == [NoScan EXCEPT !.mode = "incomplete"]

---------------------------------------------------------------------------
(* The native snapshot: libproc.                                           *)

\* capture_pids_with takes the next process of the list.
VisitProcess(p) ==
    /\ scan.mode = "native" /\ scan.reading = Nobody
    /\ p \in scan.left
    /\ scan' = [scan EXCEPT !.left = @ \ {p}, !.reading = p, !.kind = "cwd",
                            !.part = {}]
    /\ UNCHANGED <<policy, people, trouble, evidence>>

\* The vnodes of one kind that libproc names for a process.
Holding(p, kind) == {h \in Of(p) : h.kind = kind}

NextKind == [cwd |-> "mapped", mapped |-> "open"]

\* capture_process_paths: cwd and root, then the mapped files, then the
\* descriptors.  A process that may not be inspected is left to lsof; one that
\* is gone holds nothing.
ReadKind ==
    LET p == scan.reading
        part == scan.part \cup Holding(p, scan.kind)
    IN
    /\ scan.mode = "native" /\ p # Nobody
    /\ \/ /\ p \in Foreign
          /\ scan' = [scan EXCEPT !.reading = Nobody, !.denied = @ \cup {p}]
       \/ /\ p \notin Foreign
          /\ scan' = IF scan.kind = "open"
                     THEN [scan EXCEPT !.reading = Nobody,
                                       !.seen = @ \cup part]
                     ELSE [scan EXCEPT !.kind = NextKind[@], !.part = part]
    /\ UNCHANGED <<policy, people, trouble, evidence>>

DropDenied ==
    scan' = [scan EXCEPT !.mode = "complete"]

\* resolve_macos_ownership_capture: the processes that were refused are asked
\* for by one targeted lsof.
Resolve ==
    scan' = IF scan.denied = {}
            THEN [scan EXCEPT !.mode = "complete"]
            ELSE [scan EXCEPT !.mode = "targeted", !.left = scan.denied]

NativeEnds ==
    /\ scan.mode = "native" /\ scan.reading = Nobody /\ scan.left = {}
    /\ Resolve
    /\ UNCHANGED <<policy, people, trouble, evidence>>

\* A malformed answer is replaced by the global lsof; a limit is not.
NativeFails ==
    /\ scan.mode = "native" /\ Trouble
    /\ scan' \in {Scan("global", Alive), Incomplete}
    /\ UNCHANGED <<policy, people, evidence>>

---------------------------------------------------------------------------
(* lsof, for some processes or for all.                                    *)

LsofReads(p) ==
    /\ scan.mode \in {"targeted", "global"} /\ p \in scan.left
    /\ scan' = [scan EXCEPT !.left = @ \ {p}, !.seen = @ \cup Of(p)]
    /\ UNCHANGED <<policy, people, trouble, evidence>>

LsofEnds ==
    /\ scan.mode \in {"targeted", "global"} /\ scan.left = {}
    /\ scan' = [scan EXCEPT !.mode = "complete"]
    /\ UNCHANGED <<policy, people, trouble, evidence>>

\* A bad status, a warning, the time limit or the output limit.  The global
\* lsof that replaces a targeted one starts from nothing.
LsofFails ==
    /\ scan.mode \in {"targeted", "global"} /\ Trouble
    /\ scan' = IF scan.mode = "targeted" THEN Scan("global", Alive)
                                         ELSE Incomplete
    /\ UNCHANGED <<policy, people, evidence>>

ScanStep ==
    \/ \E p \in Processes : VisitProcess(p) \/ LsofReads(p)
    \/ ReadKind \/ NativeEnds \/ NativeFails \/ LsofEnds \/ LsofFails

---------------------------------------------------------------------------
(* The caller.                                                             *)

NoEvidence == [stage |-> "none", complete |-> FALSE, seen |-> {}]
Collected(complete, seen) ==
    [stage |-> "done", complete |-> complete, seen |-> seen]

\* match_process_ownership: every root above an observed path is owned, and
\* without complete evidence every root is (dirs_with_open_handles).
Matched(seen) == UNION {Above[h.path] : h \in seen}
OwnedRoots == IF evidence.complete THEN Matched(evidence.seen) ELSE Roots

\* resolve_macos_backend without the helper.
BeginCapture ==
    /\ policy # "privileged_helper" /\ evidence.stage = "none"
    /\ evidence' = [NoEvidence EXCEPT !.stage = "capturing"]
    /\ standing' = handles
    /\ scan' = IF policy = "auto" THEN Scan("native", Alive)
                                  ELSE Scan("global", Alive)
    /\ UNCHANGED <<policy, handles, churn, trouble>>

EndCapture ==
    /\ policy # "privileged_helper" /\ evidence.stage = "capturing"
    /\ Finished
    /\ evidence' = Collected(scan.mode = "complete", scan.seen)
    /\ scan' = NoScan
    /\ UNCHANGED <<policy, people, trouble>>

\* A process opens or closes a file, maps one or changes its directory; one
\* that starts or exits is one that opens its first or closes its last.
Churn ==
    /\ evidence.stage # "done"
    /\ churn < MaxChurn /\ churn' = churn + 1
    /\ \E h \in Holdable :
         handles' = IF h \in handles THEN handles \ {h} ELSE handles \cup {h}
    /\ standing' = standing \cap handles'
    /\ UNCHANGED <<policy, trouble, scan, evidence>>

CaptureInit ==
    /\ policy \in Policies
    /\ handles \in {{h} : h \in Holdable}
    /\ standing = {} /\ churn = 0 /\ trouble = 0
    /\ scan = NoScan
    /\ evidence = NoEvidence

CaptureNext == BeginCapture \/ ScanStep \/ EndCapture \/ Churn

---------------------------------------------------------------------------

\* A root below which one process has held the same handle from the beginning
\* to the end of the capture is owned, whichever backend looked and whatever
\* was opened, closed, denied or failed meanwhile (lib.rs:4604-4620).
StandingOwnerIsSeen ==
    evidence.stage = "done" => Matched(standing) \subseteq OwnedRoots
=============================================================================
