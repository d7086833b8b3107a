----------------------------- MODULE CodexRecovery -----------------------------
(***************************************************************************)
(* recover-codex-migration (native.rs:1111-1303) beside the batches of     *)
(* CodexMigration: the copy that a journal names is restored into a new    *)
(* home of its own, which is made in a staging directory, moved to the     *)
(* requested destination before the vendor's server registers the history, *)
(* and moved back when that fails.                                         *)
(***************************************************************************)
EXTENDS CodexMigration

CONSTANT Recovery   \* the recovering process, as a holder of the shared lock

VARIABLES
    recovering, \* the point of recover_with_binary reached
    source,     \* the journal that is recovered from
    home,       \* where the new home is: none, stage, destination, elsewhere
    foreign,    \* somebody else's directory at the destination: none, there, or
                \* late, put there between a look at the destination and the rename
    restored    \* the bytes of the rollout in the new home

recovery == <<recovering, source, home, foreign, restored>>
migration == <<store, world, runner, stage, todo, seen, want, native, files>>
allVars == <<vars, recovery>>

Expected == journal[source].sha
DestinationAbsent == home # "destination" /\ foreign = "none"

\* It has looked at the destination, and is about to rename.
Renaming == recovering \in {"publishing", "undoing"}

Advance(s) == recovering' = s
EndRecovery(s) == recovering' = s /\ shared' = shared \ {Recovery}

\* Any journal with a digest will do, whatever its phase.  Lease, volume,
\* binary and the hash of the copy are checked, then the staging home made.
BeginRecovery(e) ==
    /\ recovering = "idle"
    /\ journal[e].sha \in Contents
    /\ DestinationAbsent
    /\ ~leased /\ BackupIntact(e, journal[e].sha)
    /\ source' = e
    /\ shared' = shared \cup {Recovery}
    /\ home' = "stage"
    /\ Advance("copy")
    /\ UNCHANGED <<migration, trouble, foreign, restored>>

CopyBack ==
    /\ recovering = "copy"
    /\ BackupIntact(source, Expected) /\ ~leased
    /\ restored' = backup[source]
    /\ Advance("publish")
    /\ UNCHANGED <<migration, trouble, shared, source, home, foreign>>

\* The registered paths are absolute: the home moves first.
LookBeforePublishing ==
    /\ recovering = "publish"
    /\ DestinationAbsent
    /\ Advance("publishing")
    /\ UNCHANGED <<migration, trouble, shared, source, home, foreign, restored>>

\* fs::rename puts it in the place of a directory that is empty, and fails
\* (FailRecovery) at one that is not.
PublishHome ==
    /\ recovering = "publishing"
    /\ home' = "destination" /\ foreign' = "none"
    /\ Advance("sync")
    /\ UNCHANGED <<migration, trouble, shared, source, restored>>

\* sync_dir(parent): only after it the home counts as published.
SyncParent ==
    /\ recovering = "sync"
    /\ \/ Advance("register") /\ UNCHANGED <<shared, trouble>>
       \/ Trouble /\ EndRecovery("failed")
    /\ UNCHANGED <<migration, source, home, foreign, restored>>

\* The vendor's server starts in the home, registers, reads, unarchives and
\* reads again; it may leave other bytes behind.
Register ==
    /\ recovering = "register"
    /\ ~leased
    /\ restored' \in {restored, Damaged}
    /\ Advance("verify")
    /\ UNCHANGED <<migration, trouble, shared, source, home, foreign>>

VerifyRegistered ==
    /\ recovering = "verify"
    /\ BackupIntact(source, Expected)
    /\ home = "destination"
    /\ EndRecovery("recovered")
    /\ UNCHANGED <<migration, trouble, source, home, foreign, restored>>

VerifyRecovered ==
    /\ recovering = "verify"
    /\ restored = Expected
    /\ BackupIntact(source, Expected)
    /\ home = "destination"
    /\ EndRecovery("recovered")
    /\ UNCHANGED <<migration, trouble, source, home, foreign, restored>>

\* Any check and any rename may fail.  What has not been published stays in
\* the stage, and what is not moved back at the destination.
FailRecovery ==
    /\ \/ recovering \in {"copy", "publish", "publishing", "undo", "undoing"}
          /\ EndRecovery("failed")
       \/ recovering \in {"register", "verify"} /\ Advance("undo")
          /\ UNCHANGED shared
    /\ UNCHANGED <<migration, trouble, source, home, foreign, restored>>

AnyHomePublished == recovering = "undo"

\* Only the very directory that was published is moved back.
OwnHomePublished == home = "destination"

LookBeforeUndoing ==
    /\ recovering = "undo"
    /\ OwnHomePublished
    /\ Advance("undoing")
    /\ UNCHANGED <<migration, trouble, shared, source, home, foreign, restored>>

\* Whatever is there by now is renamed.
UndoPublication ==
    /\ recovering = "undoing"
    /\ home' = IF home = "destination" THEN "stage" ELSE home
    /\ foreign' = "none"
    /\ EndRecovery("failed")
    /\ UNCHANGED <<migration, trouble, source, restored>>

KillRecovery ==
    /\ recovering \notin {"idle", "failed", "recovered", "killed"}
    /\ EndRecovery("killed")
    /\ UNCHANGED <<migration, trouble, source, home, foreign, restored>>

\* Somebody else makes the destination, or moves the published home away
\* and makes another in its place.
ForeignHome ==
    /\ foreign = "none" /\ recovering # "idle"
    /\ Trouble
    /\ foreign' = IF Renaming THEN "late" ELSE "there"
    /\ home' = IF home = "destination" THEN "elsewhere" ELSE home
    /\ UNCHANGED <<migration, shared, recovering, source, restored>>

RecoveryStep ==
    \/ \E e \in DOMAIN journal : BeginRecovery(e)
    \/ CopyBack \/ LookBeforePublishing \/ PublishHome \/ SyncParent \/ Register
    \/ VerifyRecovered \/ FailRecovery \/ LookBeforeUndoing \/ UndoPublication

RecoveryInit ==
    /\ Init
    /\ recovering = "idle" /\ source = Nobody /\ home = "none"
    /\ foreign = "none" /\ restored = NoFile

RecoveryNext ==
    \/ Next /\ UNCHANGED recovery
    \/ RecoveryStep
    \/ KillRecovery
    \/ ForeignHome

RecoverySpec == RecoveryInit /\ [][RecoveryNext]_allVars

---------------------------------------------------------------------------

\* What a recovery hands back is the original: the bytes that the binary
\* rewrote, if it rewrote them for that journal (native.rs:1208-1217).
RecoveredIsOriginal ==
    LET t == source[2] IN
    recovering = "recovered" =>
        /\ restored = Expected
        /\ journal[source].phase = "verified" =>
             restored = <<rewriter[t].version, "legacy">>

\* A recovery never moves or replaces a directory that somebody else put at
\* the destination, unless it came there after the last look at it, which
\* io::absent and the comparison of identities take before the two renames
\* (native.rs:1210-1211 and 1252-1260).
ForeignHomeIsKept == [][foreign = "there" => foreign' = "there"]_allVars
=============================================================================
