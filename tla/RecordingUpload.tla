--------------------------- MODULE RecordingUpload ---------------------------
(***************************************************************************)
(* The durable upload of one recording: the recording and chunk rows, the  *)
(* staged chunk files and the final audio object of the local blob store,  *)
(* the API requests that carry the three-step finalization (prepare,       *)
(* publish, confirm), soft deletion, and the permanent deletion of audio.  *)
(*                                                                         *)
(* The database and the file system do not commit together.  A transaction *)
(* is one action, so is one create-if-absent publication; everything       *)
(* between two of them interleaves, and a request may vanish anywhere.     *)
(* A chunk's bytes are one value, so equal checksums mean equal values.    *)
(***************************************************************************)
EXTENDS Naturals, Sequences, FiniteSets

CONSTANTS
    Clients,     \* request slots of the API
    Contents,    \* contents a chunk may have
    MaxChunks,   \* bound: chunk indexes per upload
    Manifests,   \* the finalize requests the clients may send
    AudioKeys,   \* idempotency keys for deleting and restoring the audio
    MaxAborts,   \* bound: requests that crash or lose their connection
    Missing      \* no content, no manifest, no object

ASSUME BoundsAssumption == MaxChunks \in Nat /\ MaxAborts \in Nat
ASSUME ManifestsAssumption ==
    Manifests \subseteq [chunks : Seq(Contents), audio : Seq(Contents)]
ASSUME MissingAssumption ==
    Missing \notin Contents \cup Manifests \cup Seq(Contents)

VARIABLES
    row,       \* the recording and upload rows
    chunks,    \* recording_chunk rows, by index
    staged,    \* chunk files in the staging area, by index
    blob,      \* the final object of the recording
    requests,  \* what each client's request is doing
    acked,     \* manifests that a client was told are durable
    keys,      \* idempotency keys recorded for deletion and for restoration
    purge,     \* the permanent deletion request and its cleanup items
    aborts     \* aborted requests so far

vars == <<row, chunks, staged, blob, requests, acked, keys, purge, aborts>>
storage == <<chunks, staged, blob>>

Indexes == 1..MaxChunks
FinalKey == 0
Objects == {FinalKey} \cup Indexes

Row == [state : {"absent", "uploading", "prepared", "durable"},
        bound : Manifests \cup {Missing},
        scheduled : 0..1,
        audioDeleted : BOOLEAN]

Step == {"idle", "stage", "record", "prepare", "read", "stat", "assemble",
         "link", "confirm", "schedule"}
Request == [pc : Step,
            index : Indexes \cup {0},
            content : Contents \cup {Missing},
            manifest : Manifests \cup {Missing},
            audio : Seq(Contents) \cup {Missing}]

Idle == [pc |-> "idle", index |-> 0, content |-> Missing,
         manifest |-> Missing, audio |-> Missing]

Purge == [state : {"none", "previewed", "purging", "completed"},
          pending : SUBSET Objects,
          erased : SUBSET Objects]

\* The tombstone is committed with the request and kept forever.
TombstoneAtCompletion == purge.state = "completed"
Tombstone == purge.state \in {"purging", "completed"}

Init ==
    /\ row = [state |-> "absent", bound |-> Missing, scheduled |-> 0,
              audioDeleted |-> FALSE]
    /\ chunks = [i \in Indexes |-> Missing]
    /\ staged = [i \in Indexes |-> Missing]
    /\ blob = Missing
    /\ requests = [c \in Clients |-> Idle]
    /\ acked = {}
    /\ keys = [deletion |-> {}, restoration |-> {}]
    /\ purge = [state |-> "none", pending |-> {}, erased |-> {}]
    /\ aborts = 0

-----------------------------------------------------------------------------
(* Requests                                                                *)

Goto(c, pc) == requests' = [requests EXCEPT ![c].pc = pc]
Respond(c) == requests' = [requests EXCEPT ![c] = Idle]
Begin(c, request) ==
    /\ requests[c] = Idle
    /\ requests' = [requests EXCEPT ![c] = request]

\* RecordingService.create: the row, or a replay of it.
Create ==
    /\ row.state = "absent"
    /\ row' = [row EXCEPT !.state = "uploading"]
    /\ UNCHANGED <<storage, requests, acked, keys, purge, aborts>>

\* The requests an owner's devices may start once the recording exists.
BeginUpload(c) ==
    /\ row.state # "absent"
    /\ \E i \in Indexes, x \in Contents :
           Begin(c, [Idle EXCEPT !.pc = "stage", !.index = i, !.content = x])
    /\ UNCHANGED <<row, storage, acked, keys, purge, aborts>>

BeginFinalize(c) ==
    /\ row.state # "absent"
    /\ \E m \in Manifests :
           Begin(c, [Idle EXCEPT !.pc = "prepare", !.manifest = m])
    /\ UNCHANGED <<row, storage, acked, keys, purge, aborts>>

\* RecordingService.retry rebuilds the request from the bound manifest.
BeginRetry(c) ==
    /\ row.bound # Missing
    /\ Begin(c, [Idle EXCEPT !.pc = "read", !.manifest = row.bound])
    /\ UNCHANGED <<row, storage, acked, keys, purge, aborts>>

\* LocalBlobStore.putStagingChunk: create if absent, or compare.
StageChunk(c) ==
    LET i == requests[c].index
        x == requests[c].content
    IN /\ requests[c].pc = "stage"
       /\ \/ /\ staged[i] = Missing
             /\ staged' = [staged EXCEPT ![i] = x]
             /\ Goto(c, "record")
          \/ staged[i] = x /\ Goto(c, "record") /\ UNCHANGED staged
          \/ staged[i] \notin {x, Missing} /\ Respond(c) /\ UNCHANGED staged
       /\ UNCHANGED <<row, chunks, blob, acked, keys, purge, aborts>>

\* The transaction of uploadChunk: an accepted chunk is only compared with,
\* and none is accepted after the manifest is prepared.
AcceptsAnyTime(state) == TRUE
AcceptsChunks(state) == state = "uploading"

RecordChunk(c) ==
    LET i == requests[c].index
        x == requests[c].content
    IN /\ requests[c].pc = "record"
       /\ chunks' = IF chunks[i] = Missing /\ AcceptsChunks(row.state)
                    THEN [chunks EXCEPT ![i] = x]
                    ELSE chunks
       /\ Respond(c)
       /\ UNCHANGED <<row, staged, blob, acked, keys, purge, aborts>>

\* validateManifest: the accepted chunks are exactly the described ones.
CoversManifest(m) ==
    \A i \in 1..Len(m.chunks) : i \in Indexes /\ chunks[i] = m.chunks[i]
MatchesManifest(m) ==
    /\ CoversManifest(m)
    /\ \A i \in Indexes : i > Len(m.chunks) => chunks[i] = Missing

\* The transaction of finalize: the first manifest is bound, the same one is
\* accepted again, another one conflicts.
MayRebind(bound, m) == TRUE
MayProceed(bound, m) == bound = m

Prepare(c) ==
    LET m == requests[c].manifest
    IN /\ requests[c].pc = "prepare"
       /\ \/ /\ row.state = "uploading"
             /\ MatchesManifest(m)
             /\ row' = [row EXCEPT !.state = "prepared", !.bound = m]
             /\ Goto(c, "read")
          \/ /\ row.state = "uploading"
             /\ ~MatchesManifest(m)
             /\ Respond(c)
             /\ UNCHANGED row
          \/ /\ row.state # "uploading"
             /\ IF MayProceed(row.bound, m) THEN Goto(c, "read") ELSE Respond(c)
             /\ UNCHANGED row
       /\ UNCHANGED <<storage, acked, keys, purge, aborts>>

\* publish reads the row without a lock and decides from that snapshot.
ReadRecording(c) ==
    /\ requests[c].pc = "read"
    /\ \/ row.state = "durable" /\ Goto(c, "schedule")
       \/ row.state = "prepared" /\ Goto(c, "stat")
    /\ UNCHANGED <<row, storage, acked, keys, purge, aborts>>

\* finalizeChunks first looks for the expected object.
StatBlob(c) ==
    /\ requests[c].pc = "stat"
    /\ \/ blob = Missing /\ Goto(c, "assemble")
       \/ /\ blob = row.bound.audio
          /\ requests' = [requests EXCEPT ![c] =
                             [@ EXCEPT !.pc = "confirm", !.audio = blob]]
       \/ blob \notin {row.bound.audio, Missing} /\ Respond(c)
    /\ UNCHANGED <<row, storage, acked, keys, purge, aborts>>

\* It then concatenates the staged chunks in the order of their rows into a
\* temporary file, and gives up unless the bytes are the expected ones.
Contiguous == \E n \in 0..MaxChunks : \A i \in Indexes : chunks[i] # Missing <=> i <= n
Assembled == [i \in 1..Cardinality({j \in Indexes : chunks[j] # Missing}) |-> staged[i]]

AnyBytes(bytes, m) == TRUE
ExpectedBytes(bytes, m) == bytes = m.audio

Assemble(c) ==
    /\ requests[c].pc = "assemble"
    /\ IF /\ Contiguous
          /\ \A i \in Indexes : chunks[i] # Missing => staged[i] = chunks[i]
          /\ ExpectedBytes(Assembled, row.bound)
       THEN requests' = [requests EXCEPT ![c] =
                            [@ EXCEPT !.pc = "link", !.audio = Assembled]]
       ELSE Respond(c)
    /\ UNCHANGED <<row, storage, acked, keys, purge, aborts>>

\* LocalBlobStore.publish: the hard link creates the object or finds it.
LinkBlob(c) ==
    LET bytes == requests[c].audio
    IN /\ requests[c].pc = "link"
       /\ \/ blob = Missing /\ blob' = bytes /\ Goto(c, "confirm")
          \/ blob = bytes /\ Goto(c, "confirm") /\ UNCHANGED blob
          \/ blob \notin {bytes, Missing} /\ Respond(c) /\ UNCHANGED blob
       /\ UNCHANGED <<row, chunks, staged, acked, keys, purge, aborts>>

\* enqueueTranscriptionRun from here: at most one first attempt.
ScheduleAgain(scheduled) == scheduled + 1
ScheduleFirst(scheduled) == IF scheduled = 0 THEN 1 ELSE scheduled

Acknowledge(c) ==
    /\ acked' = acked \cup {requests[c].manifest}
    /\ Respond(c)

\* The confirming transaction.  It compares the bound manifest and the bytes
\* but not the state; scheduling refuses deleted audio, which rolls it back.
Confirm(c) ==
    /\ requests[c].pc = "confirm"
    /\ IF /\ row.bound = requests[c].manifest
          /\ row.bound.audio = requests[c].audio
          /\ ~row.audioDeleted
       THEN /\ row' = [row EXCEPT !.state = "durable",
                                  !.scheduled = ScheduleFirst(@)]
            /\ Acknowledge(c)
       ELSE Respond(c) /\ UNCHANGED <<row, acked>>
    /\ UNCHANGED <<storage, keys, purge, aborts>>

\* publish of a durable recording: only a missing attempt is scheduled.
Schedule(c) ==
    /\ requests[c].pc = "schedule"
    /\ IF row.scheduled = 0
       THEN IF row.audioDeleted
            THEN Respond(c) /\ UNCHANGED <<row, acked>>
            ELSE row' = [row EXCEPT !.scheduled = 1] /\ Acknowledge(c)
       ELSE Acknowledge(c) /\ UNCHANGED row
    /\ UNCHANGED <<storage, keys, purge, aborts>>

\* The API process dies, or a statement or file operation fails: what the
\* request has committed stays, the rest is gone.
Abort(c) ==
    /\ aborts < MaxAborts
    /\ requests[c].pc # "idle"
    /\ aborts' = aborts + 1
    /\ Respond(c)
    /\ UNCHANGED <<row, storage, acked, keys, purge>>

RequestStep(c) ==
    \/ StageChunk(c) \/ RecordChunk(c) \/ Prepare(c) \/ ReadRecording(c)
    \/ StatBlob(c) \/ Assemble(c) \/ LinkBlob(c) \/ Confirm(c) \/ Schedule(c)

-----------------------------------------------------------------------------
(* Soft deletion and permanent deletion of the audio                       *)

\* RecordingService.setAudioDeleted.  The idempotency key is recorded before
\* the state is compared, and a known key does not stop the update.
DeleteAudio(k) ==
    /\ row.state = "durable"
    /\ keys' = [keys EXCEPT !.deletion = @ \cup {k}]
    /\ row' = [row EXCEPT !.audioDeleted = TRUE]
    /\ UNCHANGED <<storage, requests, acked, purge, aborts>>

RestoresAlways == TRUE
MayRestore == ~Tombstone

RestoreAudio(k) ==
    /\ row.state = "durable"
    /\ MayRestore
    /\ keys' = [keys EXCEPT !.restoration = @ \cup {k}]
    /\ row' = [row EXCEPT !.audioDeleted = FALSE]
    /\ UNCHANGED <<storage, requests, acked, purge, aborts>>

\* RetentionRepository.request: the preview reads the deletion without a lock
\* on the recording (the grace period may be zero days), ...
PreviewPurge ==
    /\ purge.state = "none"
    /\ row.audioDeleted
    /\ purge' = [purge EXCEPT !.state = "previewed"]
    /\ UNCHANGED <<row, storage, requests, acked, keys, aborts>>

\* ... and its last statements capture the object keys and commit the
\* tombstone with them.
RequestPurge ==
    /\ purge.state = "previewed"
    /\ purge' = [state |-> "purging",
                 pending |-> {FinalKey} \cup {i \in Indexes : chunks[i] # Missing},
                 erased |-> {}]
    /\ UNCHANGED <<row, storage, requests, acked, keys, aborts>>

\* The request's transaction may also fail.
AbandonPurge ==
    /\ purge.state = "previewed"
    /\ purge' = [purge EXCEPT !.state = "none"]
    /\ UNCHANGED <<row, storage, requests, acked, keys, aborts>>

\* RetentionJobHandler.purge deletes an object and then marks its item; a
\* crash in between repeats the deletion.  BlobStore.delete resolves every key
\* under the final root, where a staged chunk's key names no file.
ErasedBlob(object) == IF object = FinalKey THEN Missing ELSE blob

EraseObject(object) ==
    /\ purge.state = "purging"
    /\ object \in purge.pending
    /\ blob' = ErasedBlob(object)
    /\ purge' = [purge EXCEPT !.erased = @ \cup {object}]
    /\ UNCHANGED <<row, chunks, staged, requests, acked, keys, aborts>>

MarkErased(object) ==
    /\ purge.state = "purging"
    /\ object \in purge.pending \cap purge.erased
    /\ purge' = [purge EXCEPT !.pending = @ \ {object}]
    /\ UNCHANGED <<row, storage, requests, acked, keys, aborts>>

\* RetentionRepository.complete with purge_recording_audio, which raises
\* unless the audio is still soft-deleted.
CompletePurge ==
    /\ purge.state = "purging"
    /\ purge.pending = {}
    /\ row.audioDeleted
    /\ chunks' = [i \in Indexes |-> Missing]
    /\ purge' = [purge EXCEPT !.state = "completed"]
    /\ UNCHANGED <<row, staged, blob, requests, acked, keys, aborts>>

-----------------------------------------------------------------------------
ClientStep(c) == BeginUpload(c) \/ BeginFinalize(c) \/ BeginRetry(c) \/ Abort(c)

OwnerStep == \E k \in AudioKeys : DeleteAudio(k) \/ RestoreAudio(k)

PurgeStep ==
    \/ PreviewPurge \/ RequestPurge \/ AbandonPurge \/ CompletePurge
    \/ \E object \in Objects : EraseObject(object) \/ MarkErased(object)

Next ==
    \/ Create
    \/ \E c \in Clients : ClientStep(c) \/ RequestStep(c)
    \/ OwnerStep
    \/ PurgeStep

Spec == Init /\ [][Next]_vars

\* The API finishes the requests it has accepted.
ServerFairness == \A c \in Clients : WF_vars(RequestStep(c))

\* The browser's synchronization keeps retrying a prepared recording, whatever
\* else it sends in between.
RetryFairness == SF_vars(\E c \in Clients : BeginRetry(c))
FairSpec == Spec /\ ServerFairness /\ RetryFairness

-----------------------------------------------------------------------------
(* Properties                                                              *)

\* The shape of the rows, the files and the requests.
TypeOK ==
    /\ row \in Row
    /\ chunks \in [Indexes -> Contents \cup {Missing}]
    /\ staged \in [Indexes -> Contents \cup {Missing}]
    /\ blob \in Seq(Contents) \cup {Missing}
    /\ requests \in [Clients -> Request]
    /\ acked \subseteq Manifests
    /\ keys \in [deletion : SUBSET AudioKeys, restoration : SUBSET AudioKeys]
    /\ purge \in Purge
    /\ aborts \in 0..MaxAborts

\* A durable recording has, byte for byte, the audio its owner's manifest
\* describes, until its permanent deletion is committed: no race of finalize
\* and retry requests, crash, or slow publication exposes audio that is absent.
DurableAudioIntact ==
    row.state = "durable" /\ ~Tombstone => blob = row.bound.audio

\* Whoever is told that a manifest is durable was told the truth, and nobody
\* is told so of another manifest: the client may then drop its own chunks.
AcknowledgedIsDurable ==
    \A m \in acked : row.state = "durable" /\ m = row.bound

\* A recording becomes durable and its first transcription is scheduled in
\* the same step, once, however many requests publish and confirm it.
DurableIsScheduledOnce == row.scheduled = IF row.state = "durable" THEN 1 ELSE 0

\* The chunks of a bound manifest stay accepted and staged until they are
\* purged, whatever late uploads arrive: a retry can always assemble them.
BoundChunksKept ==
    row.bound # Missing /\ purge.state # "completed" =>
        /\ MatchesManifest(row.bound)
        /\ \A i \in Indexes : chunks[i] # Missing => staged[i] = chunks[i]

\* Once permanent deletion is committed, deleted audio is not restored.
CondemnedStaysDeleted ==
    [][Tombstone /\ row.audioDeleted => row'.audioDeleted]_vars

\* Refinement: the upload implements write-once audio.
WriteOnce == INSTANCE WriteOnceAudio WITH
    Audio <- {m.audio : m \in Manifests}, Nothing <- Missing,
    agreed <- IF row.bound = Missing THEN Missing ELSE row.bound.audio,
    stored <- blob, confirmed <- row.state = "durable", condemned <- Tombstone
AudioSpec == WriteOnce!AudioSpec

\* A prepared recording whose manifest describes its chunks becomes durable.
\* It takes a client that keeps retrying: nothing else resumes the upload.
PreparedResolves ==
    (row.state = "prepared" /\ row.bound.audio = row.bound.chunks)
        ~> row.state = "durable"

-----------------------------------------------------------------------------
(* What the documents promise and the code does not keep                   *)

\* The retention contract: a completed purge has deleted every captured chunk.
PurgedChunksAreGone ==
    purge.state = "completed" =>
        \A i \in 1..Len(row.bound.chunks) : staged[i] = Missing
=============================================================================
