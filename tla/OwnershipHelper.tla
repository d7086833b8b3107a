---------------------------- MODULE OwnershipHelper -----------------------------
(***************************************************************************)
(* The privileged helper (ownership_helper.rs, ownership_protocol.rs): a   *)
(* daemon that launchd keeps alive and that answers one connection after   *)
(* the other with a global lsof, the caller that asks it for its roots in  *)
(* batches (lib.rs:4752-4850), and the administrator who installs, rolls   *)
(* back and uninstalls it meanwhile.  The scan itself is OwnershipCapture. *)
(***************************************************************************)
EXTENDS OwnershipCapture

CONSTANTS
    Batches,    \* the caller's roots, in requests of MAX_REQUEST_ROOTS
    Allowed,    \* [Versions -> SUBSET Roots]: the allowlist of a configuration
    Absent      \* model value: no such file, or no build at all

Versions == DOMAIN Allowed

\* The chunks of the caller's roots are all of them.
ASSUME BatchesAssumption ==
    /\ Batches \in Seq(SUBSET Roots) /\ Batches # <<>>
    /\ Roots = UNION {Batches[i] : i \in 1 .. Len(Batches)}
ASSUME AbsentAssumption == Absent \notin Versions

Files == {"binary", "config", "plist"}

VARIABLES
    files,      \* the version of each installed file
    loaded,     \* whether launchd has the job
    socket,     \* none, stale, bound (not open to the client yet) or ready
    startupError,
    daemon,     \* the process: its state, build, configuration and digest
    install,    \* the administrator's command
    connection, \* the caller's connection
    batch,      \* the request it is at
    digest,     \* the build hash of the batches before
    builds      \* history: the builds that gathered the evidence so far

service == <<files, loaded, socket, startupError, daemon>>
client == <<connection, batch, digest, builds>>
helperVars == <<captureVars, service, install, client>>

NoDaemon == [state |-> "down", build |-> Absent, config |-> Absent,
             digest |-> Absent]
NoConnection == [state |-> "none", reply |-> Absent]
NoInstall == [stage |-> "idle", version |-> Absent, backup |-> Absent,
              wasLoaded |-> FALSE, before |-> Absent]
Nothing == [f \in Files |-> Absent]

---------------------------------------------------------------------------
(* The daemon: serve.                                                      *)

\* A daemon that ends takes its scan and its connections with it; the socket
\* stays as a file.
DaemonGone ==
    /\ daemon' = NoDaemon
    /\ socket' = IF socket \in {"bound", "ready"} THEN "stale" ELSE socket
    /\ scan' = NoScan
    /\ connection' = IF connection.state \in {"queued", "served"}
                     THEN [connection EXCEPT !.state = "reset"]
                     ELSE connection

\* launchd: RunAtLoad and KeepAlive.
Launch ==
    /\ loaded /\ daemon.state = "down"
    /\ files["binary"] # Absent
    /\ daemon' = [NoDaemon EXCEPT !.state = "starting",
                                  !.build = files["binary"]]
    /\ UNCHANGED <<captureVars, files, loaded, socket, startupError, install,
                   client>>

\* prepare_listener up to bind, with the configuration read once.
Bind ==
    /\ daemon.state = "starting"
    /\ files["config"] # Absent
    /\ daemon' = [daemon EXCEPT !.state = "bound", !.config = files["config"]]
    /\ socket' = "bound"
    /\ UNCHANGED <<captureVars, files, loaded, startupError, install, client>>

ClearStartupError == startupError' = FALSE

\* The mode and the group of the socket, which is then verified.
OpenSocket ==
    /\ daemon.state = "bound" /\ socket = "bound"
    /\ daemon' = [daemon EXCEPT !.state = "accepting"]
    /\ socket' = "ready"
    /\ ClearStartupError
    /\ UNCHANGED <<captureVars, files, loaded, install, client>>

\* record_startup_failure, for a missing configuration or anything else.
StartupFails ==
    /\ daemon.state \in {"starting", "bound"}
    /\ \/ files["config"] = Absent /\ UNCHANGED trouble
       \/ Trouble
    /\ startupError' = TRUE
    /\ DaemonGone
    /\ UNCHANGED <<policy, people, evidence, files, loaded, install, batch,
                   digest, builds>>

DaemonDies ==
    /\ daemon.state # "down" /\ Trouble
    /\ DaemonGone
    /\ UNCHANGED <<policy, people, evidence, files, loaded, startupError,
                   install, batch, digest, builds>>

\* current_helper_build_sha256: the file at the daemon's path, read at the
\* first request.
Digest == IF daemon.digest = Absent THEN files["binary"] ELSE daemon.digest

\* validated_request_roots.
Permitted(roots) == roots \subseteq Allowed[daemon.config]

\* handle_connection: a request outside the allowlist is refused.
Accept ==
    /\ daemon.state = "accepting" /\ connection.state = "queued"
    /\ daemon' = [daemon EXCEPT !.state = "capturing", !.digest = Digest]
    /\ connection' = [connection EXCEPT !.state = "served"]
    /\ scan' = IF Permitted(Batches[batch])
               THEN Scan("global", Alive)
               ELSE Incomplete
    /\ UNCHANGED <<policy, people, trouble, evidence, files, loaded, socket,
                   startupError, install, batch, digest, builds>>

\* privileged_response_from_capture: what lies below the roots requested, or
\* a refusal.  Nobody may be there any more to read it.
Reply ==
    LET refused == [complete |-> FALSE, seen |-> {}, digest |-> Absent,
                    build |-> daemon.build]
        asked == Batches[batch]
        complete ==
            [complete |-> TRUE, digest |-> daemon.digest,
             seen |-> {h \in scan.seen : Above[h.path] \cap asked # {}},
             build |-> daemon.build]
    IN
    /\ daemon.state = "capturing" /\ Finished
    /\ daemon' = [daemon EXCEPT !.state = "accepting"]
    /\ scan' = NoScan
    /\ connection' = IF connection.state # "served" THEN connection
                     ELSE [state |-> "answered",
                           reply |-> IF scan.mode = "complete" THEN complete
                                                               ELSE refused]
    /\ UNCHANGED <<policy, people, trouble, evidence, files, loaded, socket,
                   startupError, install, batch, digest, builds>>

---------------------------------------------------------------------------
(* The caller: capture_privileged_helper_raw.                              *)

\* One more connection; the first begins the capture.
Connect ==
    /\ policy = "privileged_helper"
    /\ evidence.stage \in {"none", "capturing"}
    /\ connection.state = "none"
    /\ socket = "ready"
    /\ evidence' = [evidence EXCEPT !.stage = "capturing"]
    /\ standing' = IF evidence.stage = "none" THEN handles ELSE standing
    /\ connection' = [NoConnection EXCEPT !.state = "queued"]
    /\ UNCHANGED <<policy, handles, churn, trouble, scan, service, install,
                   batch, digest, builds>>

FailCapture ==
    /\ evidence' = Collected(FALSE, {})
    /\ connection' = NoConnection
    /\ UNCHANGED <<policy, people, trouble, scan, service, install, batch,
                   digest, builds>>

CannotConnect ==
    /\ policy = "privileged_helper" /\ connection.state = "none"
    /\ evidence.stage \in {"none", "capturing"}
    /\ socket # "ready"
    /\ FailCapture

\* HELPER_IO_TIMEOUT, or the daemon is gone.
Abandon ==
    /\ connection.state \in {"queued", "served", "reset"}
    /\ FailCapture

AnyDigest(reply) == TRUE

SameDigest(reply) == digest = Absent \/ reply.digest = digest

\* Every batch has to be complete and of the same build; the observations of
\* all are one evidence.
Receive ==
    LET reply == connection.reply
        last == batch = Len(Batches)
        seen == evidence.seen \cup reply.seen
    IN
    /\ connection.state = "answered"
    /\ reply.complete /\ SameDigest(reply)
    /\ builds' = builds \cup {reply.build}
    /\ digest' = reply.digest
    /\ connection' = NoConnection
    /\ IF last
       THEN evidence' = Collected(TRUE, seen) /\ UNCHANGED batch
       ELSE evidence' = [evidence EXCEPT !.seen = seen] /\ batch' = batch + 1
    /\ UNCHANGED <<policy, people, trouble, scan, service, install>>

Reject ==
    /\ connection.state = "answered"
    /\ ~(connection.reply.complete /\ SameDigest(connection.reply))
    /\ FailCapture

---------------------------------------------------------------------------
(* The administrator: install and its rollback.                            *)

\* The command has ended, one way or the other.
Ends == {"idle", "failed", "installed", "rolled_back", "not_rolled_back",
         "uninstalled", "killed"}

Stage(s) == install' = [install EXCEPT !.stage = s]
Only(v) == [f \in Files |-> v]

\* backup_existing_installation.
Backup(v) ==
    /\ install.stage \in Ends
    /\ install' = [stage |-> "inspect", version |-> v, backup |-> files,
                   wasLoaded |-> FALSE,
                   before |-> [files |-> files, loaded |-> loaded]]
    /\ UNCHANGED <<captureVars, service, client>>

InspectService ==
    /\ install.stage = "inspect"
    /\ install' = [install EXCEPT !.wasLoaded = loaded,
                      !.stage = IF loaded THEN "bootout" ELSE "binary"]
    /\ UNCHANGED <<captureVars, service, client>>

\* bootout_service ends the daemon.
Bootout(at, next) ==
    /\ install.stage = at
    /\ loaded' = FALSE
    /\ IF daemon.state = "down"
       THEN UNCHANGED <<daemon, socket, scan, connection>>
       ELSE DaemonGone
    /\ Stage(next)
    /\ UNCHANGED <<policy, people, trouble, evidence, files, startupError,
                   batch, digest, builds>>

Write(file, next) ==
    /\ install.stage = file
    /\ files' = [files EXCEPT ![file] = install.version]
    /\ Stage(next)
    /\ UNCHANGED <<captureVars, loaded, socket, startupError, daemon, client>>

Bootstrap(at, next) ==
    /\ install.stage = at
    /\ files["plist"] # Absent
    /\ loaded' = TRUE
    /\ Stage(next)
    /\ UNCHANGED <<captureVars, files, socket, startupError, daemon, client>>

\* wait_for_service_socket: a status request of the client's, answered when
\* the daemon is free, with the allowlist that was asked for.
Probe ==
    /\ install.stage = "probe"
    /\ daemon.state = "accepting" /\ socket = "ready"
    /\ daemon.config = install.version
    /\ daemon' = [daemon EXCEPT !.digest = Digest]
    /\ Stage("discard")
    /\ UNCHANGED <<captureVars, files, loaded, socket, startupError, client>>

\* The same commands fail, and the probe after five seconds.
InstallFails ==
    /\ Trouble
    /\ \/ /\ install.stage \in {"inspect", "bootout"} /\ Stage("failed")
       \/ /\ install.stage \in {"binary", "config", "plist", "bootstrap",
                                "probe"}
          /\ Stage(IF loaded THEN "undo_bootout" ELSE "undo_socket")
       \/ /\ install.stage \in {"undo_bootout", "undo_socket", "undo_files",
                                "undo_bootstrap", "undo_discard"}
          /\ Stage("not_rolled_back")
    /\ UNCHANGED <<policy, people, scan, evidence, service, client>>

RemoveSocket(at, next) ==
    /\ install.stage = at
    /\ socket' = "none"
    /\ Stage(next)
    /\ UNCHANGED <<captureVars, files, loaded, startupError, daemon, client>>

CopiedBack == [f \in Files |-> IF install.backup[f] = Absent
                               THEN files[f] ELSE install.backup[f]]

\* restore_installation: every file is removed and those that were there are
\* copied back.
Restored == install.backup

RestoreFiles ==
    /\ install.stage = "undo_files"
    /\ \/ files' = Restored
          /\ Stage(IF install.wasLoaded THEN "undo_bootstrap"
                                        ELSE "undo_discard")
       \/ files' = Nothing /\ UNCHANGED install /\ files # Nothing
    /\ UNCHANGED <<captureVars, loaded, socket, startupError, daemon, client>>

Discard(at, next) ==
    /\ install.stage = at
    /\ install' = [install EXCEPT !.stage = next, !.backup = Absent]
    /\ UNCHANGED <<captureVars, service, client>>

\* uninstall, a command of its own.
Uninstall ==
    /\ install.stage \in Ends
    /\ Stage(IF loaded THEN "out_bootout" ELSE "out_socket")
    /\ UNCHANGED <<captureVars, service, client>>

RemoveFiles ==
    /\ install.stage = "out_files"
    /\ ClearStartupError
    /\ files' = Nothing
    /\ Stage("uninstalled")
    /\ UNCHANGED <<captureVars, loaded, socket, daemon, client>>

KillInstall ==
    /\ install.stage \notin Ends /\ Trouble
    /\ Stage("killed")
    /\ UNCHANGED <<policy, people, scan, evidence, service, client>>

InstallStep ==
    \/ \E v \in Versions : Backup(v)
    \/ InspectService \/ Bootout("bootout", "binary")
    \/ Write("binary", "config") \/ Write("config", "plist")
    \/ Write("plist", "bootstrap")
    \/ Bootstrap("bootstrap", "probe") \/ Probe
    \/ Discard("discard", "installed")
    \/ InstallFails
    \/ Bootout("undo_bootout", "undo_socket")
    \/ RemoveSocket("undo_socket", "undo_files") \/ RestoreFiles
    \/ Bootstrap("undo_bootstrap", "undo_discard")
    \/ Discard("undo_discard", "rolled_back")
    \/ Uninstall \/ Bootout("out_bootout", "out_socket")
    \/ RemoveSocket("out_socket", "out_files") \/ RemoveFiles

DaemonStep ==
    Launch \/ Bind \/ OpenSocket \/ StartupFails \/ DaemonDies \/ Accept \/ Reply

ClientStep == Connect \/ CannotConnect \/ Abandon \/ Receive \/ Reject

Init ==
    /\ CaptureInit
    /\ \E v \in Versions : files \in {Nothing, Only(v)}
    /\ loaded \in IF files = Nothing \/ policy # "privileged_helper"
                  THEN {FALSE} ELSE {TRUE, FALSE}
    /\ socket = "none" /\ startupError = FALSE
    /\ daemon = NoDaemon /\ install = NoInstall
    /\ connection = NoConnection
    /\ batch = 1 /\ digest = Absent /\ builds = {}

Next ==
    \/ CaptureNext /\ UNCHANGED <<service, install, client>>
    \/ /\ policy = "privileged_helper"
       /\ InstallStep \/ KillInstall \/ DaemonStep \/ ClientStep

Spec == Init /\ [][Next]_helperVars

---------------------------------------------------------------------------

\* The evidence of one capture comes from one build of the helper, although
\* its batches are answered on connections of their own while the helper is
\* replaced (src/README.md:704).
OneBuildPerEvidence == evidence.complete => Cardinality(builds) <= 1

\* An installation that fails and is rolled back leaves the files and the job
\* as it found them, and one that fails before it touches anything too.
RollbackRestores ==
    install.stage \in {"failed", "rolled_back"} =>
        /\ files = install.before.files
        /\ loaded = install.before.loaded
=============================================================================
