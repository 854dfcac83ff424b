----------------------------- MODULE DataExport -----------------------------
(* Portable exports: a snapshot in the database, the archive a worker makes   *)
(* of it, its download, and what a deletion does to all three.                *)
(*                                                                            *)
(* An export's content is the set of targets it shows or carries the bytes    *)
(* of.  Exports never share a key: a repeated request is answered with the    *)
(* row it made.                                                               *)
EXTENDS RetainedMaterial

CONSTANTS
    Exports  \* identities of exports, a bound on how many are made

VARIABLES
    exports,   \* [Exports -> None or the row of export_request]
    snapshot,  \* [Exports -> None or what its open transaction has read]
    exporter,  \* [Exports -> the job that runs, or NoJob]
    archives,  \* [Exports -> None or the content of the archive in the blob store]
    sweep,     \* the rows whose archive the daily maintenance is to delete
    strays     \* exports whose worker left the archive behind, a history variable

exportVars == <<exports, snapshot, exporter, archives, sweep, strays>>

Closed == {"expired", "invalidated", "failed"}

NoJob == [phase |-> "idle", content |-> {}]
Exporting(x) == exporter[x].phase # "idle"

ExportRow ==
    [status : {"queued", "running", "completed"} \cup Closed, items : SUBSET Targets,
     leases : SUBSET Targets, released : BOOLEAN, archiveBlobKey : BOOLEAN, due : BOOLEAN]

ASSUME ExportAssumption == None \notin ExportRow

ExportRequest(items, leases) ==
    [status |-> "queued", items |-> items, leases |-> leases, released |-> FALSE,
     archiveBlobKey |-> FALSE, due |-> FALSE]

\* Every type of row is joined with the contributions that are not deleted.
SnapshotItems ==
    {e \in Contributions \cup Audios : material[Contribution(e.of)] = "live"}
    \cup {e \in {Day} : material[e] = "live"}

AudioLeases ==
    {e \in Audios : material[Contribution(e.of)] = "live" /\ material[e] = "live"}

RawLeases ==
    {e \in RawResponses : /\ material[Contribution(e.of)] = "live"
                          /\ material[e] \in {"live", "deleted"}
                          /\ ~Tombstoned(e)}

\* A snapshot holds the policy table in SHARE mode, which a deletion waits for.
SnapshotOpen == \E x \in Exports : snapshot[x] # None

BeginSnapshot(x, audio, raw) ==
    /\ exports[x] = None
    /\ snapshot[x] = None
    /\ snapshot' = [snapshot EXCEPT ![x] =
            [items |-> SnapshotItems,
             leases |-> (IF audio THEN AudioLeases ELSE {})
                        \cup (IF raw THEN RawLeases ELSE {})]]
    /\ UNCHANGED <<exports, exporter, archives, sweep, strays, materialVars>>

\* The row and its job are committed with the snapshot.
CreateSnapshot(x) ==
    /\ snapshot[x] # None
    /\ exports' = [exports EXCEPT ![x] = ExportRequest(snapshot[x].items, snapshot[x].leases)]
    /\ snapshot' = [snapshot EXCEPT ![x] = None]
    /\ UNCHANGED <<exporter, archives, sweep, strays, materialVars>>

CreateExport(x) == \E audio, raw \in BOOLEAN : BeginSnapshot(x, audio, raw)

\* A lease is released, which ends no record of what the export holds.
Close(row, status) == [row EXCEPT !.status = status, !.released = TRUE]

Holds(row, e) == e \in row.items \cup row.leases

Invalidated(e) ==
    {x \in Exports : /\ exports[x] # None
                     /\ exports[x].status \in {"queued", "running", "completed"}
                     /\ Holds(exports[x], e)}

Invalidate(e) ==
    [x \in Exports |->
        IF x \in Invalidated(e)
        THEN Close(exports[x], "invalidated")
        ELSE exports[x]]

\* A mutant does not take the lock that conflicts with a snapshot's.
InvalidateWithoutLock(e) == exports' = Invalidate(e)

\* The deletion waits for open snapshots, the snapshot for deletions.
InvalidateExportsForEntity(e) ==
    /\ ~SnapshotOpen
    /\ exports' = Invalidate(e)

SoftDelete(e) ==
    /\ material[e] = "live"
    /\ material' = [material EXCEPT ![e] = "deleted"]
    /\ InvalidateExportsForEntity(e)
    /\ UNCHANGED <<tombstones, deletionGeneration, restoring, blobs, restores,
                   snapshot, exporter, archives, sweep, strays>>

SoftDeleteContribution(c) == SoftDelete(Contribution(c))

DeleteAudio(c) == material[Contribution(c)] # "gone" /\ SoftDelete(Audio(c))

-----------------------------------------------------------------------------
(* The job of an export.                                                      *)

\* A second delivery of the job finds the row claimed and returns.
ClaimExport(x) ==
    /\ exports[x] # None
    /\ ~Exporting(x)
    /\ exports[x].status = "queued"
    /\ IF exports[x].due
       THEN /\ exports' = [exports EXCEPT ![x] = Close(@, "expired")]
            /\ UNCHANGED exporter
       ELSE /\ exports' = [exports EXCEPT ![x].status = "running"]
            /\ exporter' = [exporter EXCEPT ![x] = [phase |-> "items", content |-> {}]]
    /\ UNCHANGED <<snapshot, archives, sweep, strays, materialVars>>

AssertRunnable(x) == exports[x].status = "running"

WriteItems(x) ==
    /\ exporter[x].phase = "items"
    /\ AssertRunnable(x)
    /\ exporter' = [exporter EXCEPT ![x] = [phase |-> "blobs", content |-> exports[x].items]]
    /\ UNCHANGED <<exports, snapshot, archives, sweep, strays, materialVars>>

\* A lease names bytes, which are not in an archive by the row alone.
Bytes(e) == [kind |-> "bytes", of |-> e]

BlobLeases(x) ==
    {e \in exports[x].leases : ~exports[x].released /\ Bytes(e) \notin exporter[x].content}

WriteBlob(x, e) ==
    /\ exporter[x].phase = "blobs"
    /\ AssertRunnable(x)
    /\ e \in BlobLeases(x)
    /\ e \in blobs
    /\ exporter' = [exporter EXCEPT ![x].content = @ \cup {e, Bytes(e)}]
    /\ UNCHANGED <<exports, snapshot, archives, sweep, strays, materialVars>>

\* The archive is immutable and lies under a key of its own.
StoreArchive(x) ==
    /\ exporter[x].phase = "blobs"
    /\ BlobLeases(x) = {}
    /\ archives' = [archives EXCEPT ![x] = exporter[x].content]
    /\ exporter' = [exporter EXCEPT ![x].phase = "stored"]
    /\ UNCHANGED <<exports, snapshot, sweep, strays, materialVars>>

\* answered: the worker learns that the transaction has committed.
CompleteExport(x) ==
    /\ exporter[x].phase = "stored"
    /\ IF exports[x].status = "running"
       THEN \E answered \in BOOLEAN :
                /\ exports' = [exports EXCEPT ![x] =
                        [Close(@, "completed") EXCEPT !.archiveBlobKey = TRUE]]
                /\ exporter' = [exporter EXCEPT ![x] =
                        IF answered THEN NoJob ELSE [@ EXCEPT !.phase = "unanswered"]]
                /\ UNCHANGED archives
       ELSE /\ exports' = [exports EXCEPT ![x].released = TRUE]
            /\ exporter' = [exporter EXCEPT ![x] = NoJob]
            /\ archives' = [archives EXCEPT ![x] = None]
    /\ UNCHANGED <<snapshot, sweep, strays, materialVars>>

FailExport(x) ==
    exports' = [exports EXCEPT ![x] =
        IF @.status \in {"queued", "running"} THEN Close(@, "failed") ELSE @]

\* A missing blob, an abort or an error of the database: what was stored goes,
\* unless the blob store fails, which the worker ignores.
AbandonExport(x) ==
    /\ Exporting(x)
    /\ \/ archives' = [archives EXCEPT ![x] = None] /\ UNCHANGED strays
       \/ archives[x] # None /\ strays' = strays \cup {x} /\ UNCHANGED archives
    /\ exporter' = [exporter EXCEPT ![x] = NoJob]
    /\ FailExport(x)
    /\ UNCHANGED <<snapshot, sweep, materialVars>>

CrashExporter(x) ==
    /\ Exporting(x)
    /\ exporter' = [exporter EXCEPT ![x] = NoJob]
    /\ strays' = IF exporter[x].phase = "stored" THEN strays \cup {x} ELSE strays
    /\ UNCHANGED <<exports, snapshot, archives, sweep, materialVars>>

-----------------------------------------------------------------------------
(* What becomes of an archive.                                                *)

ExportExpires(x) ==
    /\ exports[x] # None
    /\ ~exports[x].due
    /\ exports' = [exports EXCEPT ![x].due = TRUE]
    /\ UNCHANGED <<snapshot, exporter, archives, sweep, strays, materialVars>>

Due(x) ==
    /\ exports[x] # None
    /\ \/ exports[x].due /\ exports[x].status \in {"queued", "running", "completed"}
       \/ exports[x].status \in Closed /\ exports[x].archiveBlobKey

ExpireDue ==
    /\ sweep = {}
    /\ \E x \in Exports : Due(x)
    /\ exports' = [x \in Exports |->
            IF ~Due(x) THEN exports[x]
            ELSE IF exports[x].status \in Closed
                 THEN Close(exports[x], exports[x].status)
                 ELSE Close(exports[x], "expired")]
    /\ sweep' = {x \in Exports : Due(x) /\ exports[x].archiveBlobKey}
    /\ UNCHANGED <<snapshot, exporter, archives, strays, materialVars>>

DeleteHostedArchive(x) ==
    /\ x \in sweep
    /\ archives[x] # None
    /\ archives' = [archives EXCEPT ![x] = None]
    /\ UNCHANGED <<exports, snapshot, exporter, sweep, strays, materialVars>>

\* A missing blob counts as deleted.
MarkHostedArchiveDeleted(x) ==
    /\ x \in sweep
    /\ archives[x] = None
    /\ sweep' = sweep \ {x}
    /\ exports' = [exports EXCEPT ![x].archiveBlobKey =
                      IF exports[x].status \in Closed THEN FALSE ELSE @]
    /\ UNCHANGED <<snapshot, exporter, archives, strays, materialVars>>

CrashSweep ==
    /\ sweep # {}
    /\ sweep' = {}
    /\ UNCHANGED <<exports, snapshot, exporter, archives, strays, materialVars>>

CanDownload(x) ==
    /\ exports[x] # None
    /\ exports[x].status = "completed"
    /\ ~exports[x].due
    /\ exports[x].archiveBlobKey

ExportInit ==
    /\ exports = [x \in Exports |-> None]
    /\ snapshot = [x \in Exports |-> None]
    /\ exporter = [x \in Exports |-> NoJob]
    /\ archives = [x \in Exports |-> None]
    /\ sweep = {}
    /\ strays = {}

ExportJob(x) ==
    \/ ClaimExport(x)
    \/ WriteItems(x)
    \/ \E e \in Targets : WriteBlob(x, e)
    \/ StoreArchive(x)
    \/ CompleteExport(x)
    \/ AbandonExport(x)
    \/ CrashExporter(x)

ExportNext ==
    \/ \E x \in Exports :
          \/ CreateExport(x)
          \/ CreateSnapshot(x)
          \/ ExportJob(x)
          \/ ExportExpires(x)
          \/ DeleteHostedArchive(x)
          \/ MarkHostedArchiveDeleted(x)
    \/ ExpireDue
    \/ CrashSweep

TrashNext ==
    \E c \in Entries : SoftDeleteContribution(c) \/ DeleteAudio(c)

-----------------------------------------------------------------------------
\* What the content of an archive shows that the owner has put away since.
PutAway(e) ==
    \/ e \in Contributions /\ material[e] # "live"
    \/ e.kind = "bytes" /\ e.of \in Audios /\ material[e.of] # "live"
    \/ e.kind = "bytes" /\ e.of \in RawResponses /\ Tombstoned(e.of)

\* No download shows anything the owner has put away, in whatever order the
\* snapshot, the worker and the deletion came; and an archive that does show
\* it can still be found: its worker will delete it, or its row names it.
\* Lost sight of is only the archive of a worker that died before its row named
\* it or whose attempt to delete it failed.
DeletedIsNotExported ==
    \A x \in Exports :
        archives[x] # None /\ (\E e \in archives[x] : PutAway(e)) =>
            /\ ~CanDownload(x)
            /\ \/ Exporting(x)
               \/ exports[x].archiveBlobKey
               \/ x \in strays
=============================================================================
