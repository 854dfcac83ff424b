------------------------- MODULE PermanentDeletion -------------------------
(* Deletion for good: the ledger of tombstones, the durable requests, and the *)
(* workers that delete blobs and then rows behind the fence backups share.    *)
(*                                                                            *)
(* The grace period may be zero, so an entry may be eligible as soon as it is *)
(* deleted; when it is requested is up to the owner.                          *)
EXTENDS DataExport

CONSTANTS
    Purgers,      \* workers of the maintenance queue
    MaxRequests,  \* bound: permanent deletions
    MaxFailures   \* bound: purges that fail, die or outlast their claim

VARIABLES
    backupConfigured,  \* a setting of the processes: deletions wait for a backup
    requests,  \* [Targets -> None or the row of permanent_deletion_request]
    purger,    \* [Purgers -> None or the request it works on]
    failures,  \* what has been spent of the second bound
    sharers,   \* 1 while a backup shares the fence
    purged     \* the blobs and rows that purges have removed, a history variable

deletionVars == <<backupConfigured, requests, purger, failures, sharers, purged>>

FenceHeld == \E w \in Purgers : purger[w] # None /\ purger[w].fenced

\* A mutant lets a purge in while a backup runs.
NoOtherPurge == ~FenceHeld

RequestRow ==
    [status : {"pending", "purging", "failed", "completed"},
     checkpoint : {"not_configured", "pending", "committed"},
     keys : SUBSET Targets, archives : SUBSET Exports, lapsed : BOOLEAN, audited : BOOLEAN]

ASSUME DeletionAssumption == None \notin RequestRow

\* The fence a request's transaction takes excludes purges and backups.
FenceFree == ~FenceHeld /\ sharers = 0

\* A target is eligible once it is deleted, a day once all it holds is.
Eligible(e) ==
    CASE e \in Contributions \cup Audios \cup RawResponses -> material[e] = "deleted"
      [] OTHER -> /\ material[Day] = "live"
                  /\ \E c \in Contributions : material[c] = "deleted"
                  /\ \A c \in Contributions : material[c] # "live"

ChildTargets(e) ==
    IF e = Day
    THEN {t \in Contributions \cup Audios : material[Contribution(t.of)] = "deleted"}
    ELSE {}

\* The keys of the blobs are captured with the request and never again.
CapturedBlobs(e) ==
    {b \in Within(e) \cap (Audios \cup RawResponses) : material[b] \in {"live", "deleted"}}

CapturedArchives(e) ==
    {x \in Invalidated(e) : exports[x].archiveBlobKey}

DeletionRequest(e) ==
    [status |-> "pending",
     checkpoint |-> IF backupConfigured THEN "pending" ELSE "not_configured",
     keys |-> CapturedBlobs(e), archives |-> CapturedArchives(e),
     lapsed |-> FALSE, audited |-> FALSE]

\* Tombstones of what a day holds follow its own, one generation each.
Numbered(e) ==
    {n \in [ChildTargets(e) -> 1..Cardinality(ChildTargets(e))] :
        \A s, t \in ChildTargets(e) : s # t => n[s] # n[t]}

\* One transaction: generation, tombstones, request, blob keys and exports.
\* A second tombstone for a target makes it fail.
Request(e) ==
    /\ requests[e] = None
    /\ Cardinality({t \in Targets : requests[t] # None}) < MaxRequests
    /\ FenceFree
    /\ Eligible(e)
    /\ \A t \in {e} \cup ChildTargets(e) : ~Tombstoned(t)
    /\ \E n \in Numbered(e) :
          tombstones' = [t \in Targets |->
              CASE t = e -> Generation
                [] t \in ChildTargets(e) -> Generation + n[t]
                [] OTHER -> tombstones[t]]
    /\ deletionGeneration' = Generation + Cardinality(ChildTargets(e))
    /\ requests' = [requests EXCEPT ![e] = DeletionRequest(e)]
    /\ InvalidateExportsForEntity(e)
    /\ UNCHANGED <<backupConfigured, material, restoring, blobs, restores, purger, failures,
                   sharers, purged, snapshot, exporter, archives, sweep, strays>>

\* What the dialogs show before they ask for the confirmation.
PreviewPermanentDeletion(e) == requests[e] = None /\ Eligible(e)

RequestPermanentDeletion(e) == PreviewPermanentDeletion(e) /\ Request(e)

\* The owner asks from the page of the day, from an entry or from its audio;
\* the daily maintenance asks for raw responses that have expired.
DeleteDayPermanently == RequestPermanentDeletion(Day)
DeleteEntryPermanently(c) == RequestPermanentDeletion(Contribution(c))
DeleteAudioPermanently(c) == RequestPermanentDeletion(Audio(c))
ExpiredRawResponses(c) == Eligible(RawResponse(c)) /\ Request(RawResponse(c))

-----------------------------------------------------------------------------
(* The workers.                                                               *)

FailsOnce == failures < MaxFailures /\ failures' = failures + 1

\* A purge whose worker has not finished in fifteen minutes may be claimed again.
LeaseLapses(e) ==
    /\ requests[e] # None
    /\ requests[e].status = "purging"
    /\ ~requests[e].lapsed
    /\ FailsOnce
    /\ requests' = [requests EXCEPT ![e].lapsed = TRUE]
    /\ UNCHANGED <<backupConfigured, purger, sharers, purged, exportVars, materialVars>>

InStatusClaimable(row) ==
    row.status \in {"pending", "failed"} \/ (row.status = "purging" /\ row.lapsed)

\* A mutant does not wait for the backup.
ClaimableAtOnce(e) == requests[e] # None /\ InStatusClaimable(requests[e])

Claimable(e) ==
    /\ requests[e] # None
    /\ InStatusClaimable(requests[e])
    /\ requests[e].checkpoint # "pending"

ClaimDeletion(w, e) ==
    /\ purger[w] = None
    /\ Claimable(e)
    /\ requests' = [requests EXCEPT ![e].status = "purging", ![e].lapsed = FALSE]
    /\ purger' = [purger EXCEPT ![w] = [target |-> e, fenced |-> FALSE]]
    /\ UNCHANGED <<backupConfigured, failures, sharers, purged, exportVars, materialVars>>

TakeFence(w) ==
    /\ purger[w] # None
    /\ ~purger[w].fenced
    /\ FenceFree
    /\ purger' = [purger EXCEPT ![w].fenced = TRUE]
    /\ UNCHANGED <<backupConfigured, requests, failures, sharers, purged, exportVars,
                   materialVars>>

Working(w) == purger[w] # None /\ purger[w].fenced

\* The key is marked once the object is gone; a missing object is no error.
DeleteBlob(w, b) ==
    /\ Working(w)
    /\ b \in requests[purger[w].target].keys
    /\ blobs' = blobs \ {b}
    /\ purged' = purged \cup {b}
    /\ requests' = [requests EXCEPT ![purger[w].target].keys = @ \ {b}]
    /\ UNCHANGED <<backupConfigured, purger, failures, sharers, exportVars, material,
                   tombstones, deletionGeneration, restoring, restores>>

DeleteExportArchive(w, x) ==
    /\ Working(w)
    /\ x \in requests[purger[w].target].archives
    /\ archives' = [archives EXCEPT ![x] = None]
    /\ requests' = [requests EXCEPT ![purger[w].target].archives = @ \ {x}]
    /\ UNCHANGED <<backupConfigured, purger, failures, sharers, purged, exports, snapshot,
                   exporter, sweep, strays, materialVars>>

\* The functions in the database, on the rows and tombstones given.
PurgeContribution(rows, ledger, e) ==
    IF rows[e] = "deleted" /\ ledger[e] # 0
    THEN [t \in Targets |-> IF t \in Within(e) THEN "gone" ELSE rows[t]]
    ELSE None

PurgeJournalDay(rows, ledger) ==
    IF /\ rows[Day] = "live"
       /\ ledger[Day] # 0
       /\ \A c \in Contributions :
             rows[c] \in {"absent", "gone"} \/ (rows[c] = "deleted" /\ ledger[c] # 0)
    THEN [t \in Targets |-> IF rows[t] = "absent" THEN "absent" ELSE "gone"]
    ELSE None

PurgeRecordingAudio(rows, ledger, e) ==
    IF rows[e] = "deleted" /\ ledger[e] # 0 THEN rows ELSE None

PurgeProviderRawResponse(rows, ledger, e) ==
    IF rows[e] \in {"live", "deleted"} /\ ledger[e] # 0
    THEN [rows EXCEPT ![e] = "gone"] ELSE None

Purge(rows, ledger, e) ==
    CASE e.kind = "contribution" -> PurgeContribution(rows, ledger, e)
      [] e.kind = "journal_day" -> PurgeJournalDay(rows, ledger)
      [] e.kind = "recording_audio" -> PurgeRecordingAudio(rows, ledger, e)
      [] OTHER -> PurgeProviderRawResponse(rows, ledger, e)

\* A request that is completed already is left as it is.  The completion event
\* has the identity of the tombstone and cannot be recorded twice.
CompleteDeletion(w) ==
    /\ Working(w)
    /\ LET e == purger[w].target
           rows == Purge(material, tombstones, e)
       IN  \/ /\ requests[e].status = "completed"
              /\ UNCHANGED <<requests, material, purged>>
           \/ /\ requests[e].status # "completed"
              /\ requests[e].checkpoint # "pending"
              /\ ~requests[e].audited
              /\ requests[e].keys = {} /\ requests[e].archives = {}
              /\ rows # None
              /\ material' = rows
              /\ requests' = [requests EXCEPT ![e].status = "completed",
                                              ![e].audited = TRUE]
              /\ purged' = purged \cup {t \in Targets : rows[t] = "gone"}
    /\ purger' = [purger EXCEPT ![w] = None]
    /\ UNCHANGED <<backupConfigured, failures, sharers, exportVars, tombstones,
                   deletionGeneration, restoring, blobs, restores>>

\* Any error, an abort while it waits for the fence among them; the row is
\* marked whatever has become of it.
MarkFailed(w) ==
    /\ purger[w] # None
    /\ FailsOnce
    /\ requests' = [requests EXCEPT ![purger[w].target].status = "failed"]
    /\ purger' = [purger EXCEPT ![w] = None]
    /\ UNCHANGED <<backupConfigured, sharers, purged, exportVars, materialVars>>

CrashPurger(w) ==
    /\ purger[w] # None
    /\ FailsOnce
    /\ purger' = [purger EXCEPT ![w] = None]
    /\ UNCHANGED <<backupConfigured, requests, sharers, purged, exportVars, materialVars>>

DeletionInit ==
    /\ backupConfigured \in BOOLEAN
    /\ requests = [e \in Targets |-> None]
    /\ purger = [w \in Purgers |-> None]
    /\ failures = 0
    /\ sharers = 0
    /\ purged = {}

RetentionJob(w) ==
    \/ \E e \in Targets : ClaimDeletion(w, e)
    \/ TakeFence(w)
    \/ \E b \in Targets : DeleteBlob(w, b)
    \/ \E x \in Exports : DeleteExportArchive(w, x)
    \/ CompleteDeletion(w)
    \/ MarkFailed(w)
    \/ CrashPurger(w)

DeletionNext ==
    \/ DeleteDayPermanently
    \/ \E c \in Entries :
          \/ DeleteEntryPermanently(c)
          \/ DeleteAudioPermanently(c)
          \/ ExpiredRawResponses(c)
    \/ \E e \in Targets : LeaseLapses(e)
    \/ \E w \in Purgers : RetentionJob(w)

=============================================================================
