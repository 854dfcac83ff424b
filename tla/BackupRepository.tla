-------------------------- MODULE BackupRepository --------------------------
(* Backups of the database and the blob store, the checkpoint a permanent     *)
(* deletion waits for, and a restore into an empty target.                    *)
(*                                                                            *)
(* A backup copies what its snapshot of the database refers to, so it is      *)
(* identified with that snapshot and the blobs it lists.                      *)
EXTENDS PermanentDeletion, Sequences

CONSTANTS
    MaxBackups  \* bound: backups that reach the repository

VARIABLES
    repository,  \* the backups of the repository, oldest first
    backup,      \* None or the backup that runs
    restored,    \* None or what a restore has made of one of them
    torn         \* a blob was missing that was there when its backup began

backupVars == <<repository, backup, restored, torn>>

Image(rows, ledger, listed) == [material |-> rows, tombstones |-> ledger, blobs |-> listed]

\* The blobs the rows refer to, without the audios the ledger names.
LiveBlobRows(rows, ledger) ==
    {b \in Audios :
        /\ rows[b] \in {"live", "deleted"}
        /\ ledger[b] = 0 /\ ledger[Contribution(b.of)] = 0 /\ ledger[Day] = 0}
    \cup {b \in RawResponses : rows[b] \in {"live", "deleted"}}

\* The generation is not greater than the greatest one in the image.
UpToMaxTombstoneGeneration(image, generation) ==
    \E e \in Targets : generation <= image.tombstones[e]

\* The fence is shared from here to the end, whatever the end is.
BeginBackup ==
    /\ backup = None
    /\ ~FenceHeld
    /\ Len(repository) < MaxBackups
    /\ backup' = [phase |-> "copying",
                  image |-> Image(material, tombstones, LiveBlobRows(material, tombstones)),
                  present |-> blobs]
    /\ sharers' = 1
    /\ UNCHANGED <<repository, restored, torn, backupConfigured, requests, purger, failures,
                   purged, exportVars, materialVars>>

\* A copy that is missing or does not have its checksum ends the backup.
CopyVerifiedBlobs ==
    /\ backup # None
    /\ backup.phase = "copying"
    /\ IF backup.image.blobs \subseteq blobs
       THEN /\ backup' = [backup EXCEPT !.phase = "copied"]
            /\ UNCHANGED <<sharers, torn>>
       ELSE /\ backup' = None
            /\ sharers' = 0
            /\ torn' = (torn \/ (backup.image.blobs \cap backup.present) \ blobs # {})
    /\ UNCHANGED <<repository, restored, backupConfigured, requests, purger, failures,
                   purged, exportVars, materialVars>>

StoreSnapshot ==
    /\ backup # None
    /\ backup.phase = "copied"
    /\ repository' = Append(repository, backup.image)
    /\ backup' = [backup EXCEPT !.phase = "stored"]
    /\ UNCHANGED <<restored, torn, deletionVars, exportVars, materialVars>>

\* The deletions whose tombstones the repository now holds may go on.
Checkpoint ==
    /\ backup # None
    /\ backup.phase = "stored"
    /\ requests' = [e \in Targets |->
            IF /\ requests[e] # None
               /\ requests[e].checkpoint = "pending"
               /\ UpToMaxTombstoneGeneration(backup.image, tombstones[e])
            THEN [requests[e] EXCEPT !.checkpoint = "committed"] ELSE requests[e]]
    /\ backup' = None
    /\ sharers' = 0
    /\ UNCHANGED <<repository, restored, torn, backupConfigured, purger, failures, purged,
                   exportVars, materialVars>>

\* A failed command, an abort or a crash: the fence is released in every case.
EndBackup ==
    /\ backup # None
    /\ backup' = None
    /\ sharers' = 0
    /\ UNCHANGED <<repository, restored, torn, backupConfigured, requests, purger, failures,
                   purged, exportVars, materialVars>>

-----------------------------------------------------------------------------
(* The restore.                                                               *)

NewestTombstones == repository[Len(repository)].tombstones

\* Tombstones of the selected backup stay, those of the newest are added.
Ledger(image, newest) ==
    [e \in Targets |-> IF image.tombstones[e] # 0 THEN image.tombstones[e] ELSE newest[e]]

Owned(rows, e) == rows[e] \in {"live", "deleted"}

\* Material is purged by kind; a row that is not there is passed over, except
\* that of a raw response.
Replay(rows, ledger, e) ==
    IF rows = None \/ ledger[e] = 0 THEN rows
    ELSE IF e \in RawResponses THEN PurgeProviderRawResponse(rows, ledger, e)
    ELSE IF Owned(rows, e) THEN Purge(rows, ledger, e) ELSE rows

\* What is replayed for an entry changes nothing of another and not the day.
ReplayKind(rows, ledger, kind(_)) ==
    LET after(c) == Replay(rows, ledger, kind(c))
    IN  IF rows = None \/ \E c \in Entries : after(c) = None THEN None
        ELSE [t \in Targets |-> IF t = Day THEN rows[Day] ELSE after(t.of)[t]]

ApplyTombstones(image, newest) ==
    LET ledger == Ledger(image, newest)
        days == Replay(image.material, newest, Day)
        contributions == ReplayKind(days, newest, Contribution)
        audios == ReplayKind(contributions, newest, Audio)
    IN  [rows |-> ReplayKind(audios, newest, RawResponse), ledger |-> ledger]

RestoreBlobs(image, rows, ledger) == image.blobs \cap LiveBlobRows(rows, ledger)

Restored(image) ==
    LET replayed == ApplyTombstones(image, NewestTombstones)
    IN  IF replayed.rows = None THEN "refused"
        ELSE IF ~(LiveBlobRows(replayed.rows, replayed.ledger) \subseteq image.blobs)
             THEN "incomplete" ELSE "done"

RestoreBackup ==
    /\ restored = None
    /\ \E n \in DOMAIN repository :
          LET replayed == ApplyTombstones(repository[n], NewestTombstones)
              outcome == Restored(repository[n])
          IN  restored' = [outcome |-> outcome,
                           rows |-> IF outcome = "done" THEN replayed.rows ELSE None,
                           blobs |-> IF outcome = "done"
                                     THEN RestoreBlobs(repository[n], replayed.rows,
                                                       replayed.ledger)
                                     ELSE {}]
    /\ UNCHANGED <<repository, backup, torn, deletionVars, exportVars, materialVars>>

BackupInit ==
    /\ repository = <<>>
    /\ backup = None
    /\ restored = None
    /\ torn = FALSE

BackupNext ==
    \/ BeginBackup
    \/ CopyVerifiedBlobs
    \/ StoreSnapshot
    \/ Checkpoint
    \/ EndBackup
    \/ RestoreBackup

-----------------------------------------------------------------------------
(* All of it.  The system is down from the moment a restore is begun.         *)

RetentionInit == MaterialInit /\ ExportInit /\ DeletionInit /\ BackupInit

RetentionNext ==
    /\ restored = None
    /\ \/ MaterialNext /\ UNCHANGED <<exportVars, deletionVars, backupVars>>
       \/ TrashNext /\ UNCHANGED <<deletionVars, backupVars>>
       \/ DeletionNext /\ UNCHANGED backupVars
       \/ ExportNext /\ UNCHANGED <<deletionVars, backupVars>>
       \/ BackupNext

RetentionSpec ==
    RetentionInit /\ [][RetentionNext]_<<backupVars, deletionVars, exportVars, materialVars>>

-----------------------------------------------------------------------------
\* Where backups are configured, nothing a purge has removed by the time of a
\* restore comes back with it, whichever backup is chosen: a blob or a row is
\* removed only once the newest backup holds its tombstone.
PurgedStaysPurged ==
    backupConfigured /\ restored # None /\ restored.outcome = "done" =>
        /\ restored.blobs \cap purged = {}
        /\ \A e \in purged \ Audios :
              e \in Contributions \cup {Day} => restored.rows[e] \in {"absent", "gone"}

\* A backup that begins while no purge runs is not torn by one: what it listed
\* and the blob store held is there when it is copied.
BackupsAreWhole == ~torn
=============================================================================
