# A verification project for the AI-integrated journal

The journal keeps a person's recordings and writings, and derives everything
else from them: transcripts, cleaned text, extracted and interpreted artifacts,
search indexes, exports.  The originals live in PostgreSQL rows and in files;
the derived data is produced by worker processes that take jobs from a pg-boss
queue in the same database.  What is hard about the program is not any one
function but what happens *between* transactions: deliveries that overlap,
answers that arrive late, crashes between two steps, edits that cross a run that
is about to publish, pages that decide on what they read a while ago.  The TLA+
modules in this directory model that part of the program, TLC checks them on
small instances, and TLAPS proves the safety properties of the core for every
value of the constants.

Source paths below are relative to `src/`.

## 1. Where to start

| Read | for |
|---|---|
| `TranscriptLedger`, `WriteOnceAudio`, `DerivedResults` | the three abstract specifications, 40 to 60 lines each: what a reader of the data may rely on |
| `Transcription` | attempts, jobs and deliveries of one recording's transcription |
| `RecordingUpload` | the three-step upload of one recording, its deletion and its permanent deletion |
| `ProcessorRuntime` | runs, results and artifacts of one journal day, with edits and batches |
| `JournalOutbox`, `RecordingSync` | the browser: written captures and recordings on their way to the server |
| `ArtifactAuthority`, `FeedbackMemory`, `RequirementNudges`, `TranscriptCleanup` | what the owner has decided, beside the workers that go on deriving |
| `OwnerSessions`, `OwnerSettings`, `ProcessorCatalog` | the account, the settings and the versions the workers run |
| `RetainedMaterial`, `DataExport`, `PermanentDeletion`, `BackupRepository` | how material leaves the system, each extending the one before |
| `TranscriptionProofs`, `RecordingUploadProofs`, `ProcessorRuntimeProofs`, `BrowserProofs`, `OwnerAccountProofs`, `OwnerDecisionsProofs`, `OwnerTextProofs`, `DeletionProofs` | the theorems |
| `MC*.tla`, `*.cfg` | the instances TLC checks |

To check a run: `tlc -workers 2 -config TranscriptionSafety.cfg MCTranscription.tla`.
To check the proofs: `tlapm ProcessorRuntimeProofs.tla`.  The runs, the map from
definitions to source lines, the hazards and the theorems are listed in
`PROJECT.json`.

## 2. The system

Four kinds of actor share one PostgreSQL database and one file tree: the *API*
(`apps/api`), which serves the owner's browser; the *workers* (`apps/worker`),
which consume queues; *pg-boss*, whose tables hold the jobs and whose
supervision returns abandoned ones; and the *browser* (`apps/web`), which
captures audio and text offline and synchronizes it.  AI providers are external
services.  Work is enqueued by inserting the job row in the transaction that
makes it necessary (ADR-0007), so state and work commit together.  What does not
commit together is everything else: a handler's transactions with each other,
the database with the file system, the settlement of a job with what its handler
did, the browser's store with the server.

### Inventory

| Component | State it keeps | Operations | Hard behaviour | Correct when |
|---|---|---|---|---|
| Transcription pipeline (`packages/database/src/transcription-repository.ts`, `apps/worker/src/transcription-pipeline.ts`) | numbered attempts, transcript revisions, the recording's transcription state | schedule, load, start, complete, fail, cancel, retry | redelivery, late answers, deletion of the audio in between | attempts publish in order, once, never for deleted audio; success is final; every attempt resolves |
| Queue runtime (`packages/database/src/queue-runtime.ts`, `queue-contracts.ts`) | pg-boss jobs | enqueue in a transaction, fetch, settle, retry, expire, dead-letter | a job expires or loses its heartbeat while its handler runs on | no job is lost, none retried beyond its limit |
| Recording upload (`apps/api/src/recording-service.ts`) | recording, upload and chunk rows | create, uploadChunk, finalize, retry, retryTranscription, delete, restore | database and files commit separately; concurrent requests with different manifests | acknowledged audio is durable and byte-exact; scheduled once |
| Blob store (`packages/storage/src/local-blob-store.ts`) | staged chunks, final objects | stage, assemble, link if absent, delete | crash between linking and confirming | an object is never replaced |
| Permanent deletion and retention (`packages/database/src/retention-repository.ts`, `apps/worker/src/retention.ts`) | requests, cleanup items, tombstones, policies | preview, request, claim, erase, complete | restoration, publication and a second worker in between; waiting for a backup | what is condemned stays deleted and is gone in the end |
| Processor runtime (`packages/database/src/processor-runtime-repository.ts`, `processor-reconciliation-repository.ts`, `apps/worker/src/processor-runtime.ts`) | runs with recorded inputs, results, artifacts | enqueue, load, start, complete, fail, cancel, invalidate dependents | edits crossing completions; chains of inputs; rollbacks caused by dependents | one result per successful run; all and only descendants of replaced text become stale; nothing stale is shown |
| Reprocessing batches (`apps/api/src/reprocessing-service.ts`) | batches and their runs | preview, start, cancel | inputs change between planning and scheduling | a batch runs what was previewed; a canceled one does nothing |
| Journal mutations (`apps/api/src/journal-service.ts`, `repositories/journal-repository.ts`) | days, contributions, text revisions, idempotency keys | create, edit, move, delete, restore | optimistic concurrency, replays | an edit is applied once and invalidates what depends on it |
| Artifact review (`apps/api/src/artifact-service.ts`) | artifact versions, authority, feedback | edit, accept, reject, merge | reconciliation by a worker at the same time | a worker never overrides the owner |
| Transcript cleanup (`packages/database/src/transcript-cleanup-repository.ts`, `apps/worker/src/transcript-cleanup-pipeline.ts`) | cleanup runs, corrected and cleaned layers | correct, schedule, complete, cancel | as transcription, with two layers | a cleaned text belongs to the current corrected one |
| Offline outbox (`apps/web/src/journal/offline.ts`) | encrypted captures in sequence | capture, replay, resolve conflict | lost answers, two tabs, a refused head of the queue | captures arrive once, in order, and all of them |
| Recording synchronization (`apps/web/src/recording/sync-controller.ts`) | local recordings and checkpoints | sync, retry, move, confirm | snapshots kept across awaits | local audio is dropped only when the server has it |
| Audio capture (`apps/web/src/recording/capture-controller.ts`) | recorder state, checkpoints | start, checkpoint, stop | storage pressure, events after stop | every checkpoint is stored before it is counted |
| Exports (`packages/database/src/export-repository.ts`, `apps/worker/src/export.ts`) | snapshots, leases, archives | request, claim, archive, complete, expire, invalidate | crash while running, deletion of a source | no archive of deleted data, no orphan, no stuck export |
| Requirements and nudges (`packages/database/src/nudge-repository.ts`, `apps/worker/src/nudge-engine.ts`) | evaluations, digests | record a run, digest, publish, dismiss | unlocked reads before updates | the owner's decision stands |
| Semantic search (`packages/database/src/search-embedding-repository.ts`, `search-repository.ts`) | index generations, chunks, a resume position | embed, resume, switch generation | two deliveries of one job | the position never goes back; a generation is complete when current |
| Grounded answers (`packages/database/src/grounded-answer-repository.ts`) | questions and answers | ask, answer, fail | redelivery | an answer cites what it was given |
| Feedback memory (`apps/api/src/memory-service.ts`, `packages/database/src/memory-repository.ts`) | memories and revisions, contexts bound to runs | feedback, approve, revise, disable, delete, assemble | stale pages, repeated requests | a run is told only what the owner approved |
| Settings (`packages/database/src/settings-repository.ts`, `apps/api/src/settings-service.ts`) | preferences, providers, a queue schedule | update, accept a disclosure, send | two releases at once, a schedule kept twice | nothing is sent without consent |
| Sessions (`apps/api/src/auth.ts`, `auth-store.ts`) | sessions, challenges, recovery codes, passkeys | set up, sign in, touch, recover, revoke | sign-ins under way during a recovery | a revoked or expired session is over; proofs count once |
| Processor catalog (`apps/api/src/processor-service.ts`, `packages/database/src/seeds.ts`) | versions, installations | create, publish, configure, roll back, seed | checks on versions read before other commits | what runs is what was chosen; dependencies are acyclic |
| Event feed (`apps/api/src/events.ts`) | an in-memory ring of hints | publish, replay | a reader that is too late | a late reader is told to read again |
| Backup and restore (`packages/database/scripts`, `apps/worker/src/backup.ts`) | dumps, checkpoints | back up, restore, reconcile | deletion between dump and file copy | deleted data does not return |
| Pure parts (`packages/processors`, `packages/domain`, `packages/webm-duration-fix`) | none | evidence, reconciliation, temporal rules, codecs | numeric edges | the documented functions |

Interactions: the upload's confirming transaction schedules the first attempt of
the *transcription*; a completed transcription seeds the corrected layer, and the
corrected layer and written text are sources of *processor runs*; a completed run
queues runs of its *dependents* and records *requirements*; journal mutations
invalidate dependents and exports; reconciliation of a result meets the owner's
review of artifacts; approved memories become the context of transcriptions;
permanent deletion removes what all of them wrote, from exports, backups and the
browsers' stores too.  All asynchronous parts share the queue runtime's delivery rules.

## 3. What is modelled

### `Transcription` (abstract: `TranscriptLedger`)

One recording, with `runs` (the `transcription_run` rows), `jobs` (the pg-boss
job each owns), `workers` (the delivery each slot executes, with a program
counter), `revisions` and `corrected` (the published layers) and the `recording`
row.  `EnqueueRun` is `enqueueTranscriptionRun`; the owner's actions are
`ConfirmDurable`, `RetryTranscription`, `DeleteAudio`, `RestoreAudio`; a delivery
goes `Fetch`, `Load`, then `MarkCanceled` or `MarkRunning`, `Transcribe`,
`Complete` or `MarkFailed`, `Settle`.  A repository method is one transaction that
locks the run and the recording first, hence one action; everything between two
methods interleaves.  Exceptions inside a transaction are modelled by what
survives them: the cancellation that `markRunning` writes and then rolls back is
not there afterwards.  Check constraints that a statement can violate are part of
the guards (`ErrorConsistent`).  Faults: `Crash`, `Expire` (the job's time limit
passes and the handler runs on with a raised abort signal), `LoseHeartbeat` (the
job is redelivered beside the running handler), `StatementFails`, `Reclaim`.

### `RecordingUpload` (abstract: `WriteOnceAudio`)

One recording from creation to permanent deletion.  `row` and `chunks` are rows,
`staged` and `blob` are files; `requests` holds, for each of a set of API request
slots, where the request is between two commits.  `StageChunk`/`RecordChunk` are
the file and the transaction of `uploadChunk`; `Prepare` the first transaction of
`finalize`; `ReadRecording`, `StatBlob`, `Assemble`, `LinkBlob`, `Confirm`,
`Schedule` the steps of `publish` with `finalizeChunks` and the hard link of
`LocalBlobStore.#publish`.  `Abort` drops a request anywhere: what it committed
stays.  `PreviewPurge`/`RequestPurge`/`EraseObject`/`MarkErased`/`CompletePurge`
are the permanent deletion of the audio.  A chunk's bytes are one value, so equal
checksums are equal values, and a manifest whose final digest does not describe
its chunks is a record whose `audio` differs from its `chunks`.

### `ProcessorRuntime` (abstract: `DerivedResults`)

One journal day with one written contribution and a set of processors, some of
which read the text (`Readers`), some each other (`Upstream`).  `runs` bind, when
they are queued, a revision of the text and one result per dependency; `results`
are appended and may be made stale; `shown` is the result behind each active
artifact.  A delivery goes `Fetch`, `Load`, `MarkCanceled` or `MarkRunning`,
`Generate`, `Complete` or `MarkFailed`, `Settle`, with the same faults as above.
`Complete` publishes, reconciles the artifact and queues the dependents in one
transaction, and is rolled back when one of them cannot be queued.

Two operations read before they lock what they write, and are two actions each:
an edit (`BeginEdit` is the recursive query of `invalidateProcessorDependents`,
`CommitEdit` or `RefuseEdit` the rest) and a batch (`BeginBatch` reads the inputs,
`CommitBatch` inserts the runs).

What this module abstracts: targets scoped to the day, with one contribution (runs
scoped to a contribution take a key-share lock on the row an edit holds, so they
wait for the edit instead of racing it); one version per processor; results in the
order of their commits; reads of `complete` at its commit (its own reads before
the advisory lock have the same shape as the batch's, which are separate); the
owner's authority over artifacts is `ArtifactAuthority`, the evaluation of
requirements after a run `RequirementNudges`.  The processing consumer is registered without a
database handle, so a provider's retry delay is not settled by the handler as it
is in transcription.

### The browser: `JournalOutbox` and `RecordingSync`

`JournalOutbox` has written captures in the outbox of IndexedDB that all tabs of the
browser share, the replay and the conflict dialog of each tab (`tabs`), requests that
were given up and may still arrive (`wire`), and the server's contributions with the
ledger of idempotent requests (`entries`, `accepted`).  A replay is one request after
another: `StartReplay` reads the records that are there, `Send`, `Receive` (the
mutation with its answer), then `DeleteRecord`, or `Inspect` and `MarkConflict` for a
stale base, or the end of the replay.  `KeepDraft` followed by `ReplaceByDraft`, and
`DiscardDraft`, are `resolveConflict`; between the two the tab may be closed.  Another
device edits, moves, deletes, restores and purges; `ApplyTombstones` removes what was
purged from the outbox.  Faults: `LoseRequest` (on its way, its answer, or later
arrival), `CloseTab`.

`RecordingSync` is one recording: the capture controller with the unit it is writing
(`capture`), the stored row and units (`row`, `chunks`), synchronizing activities, each
with the copy of the row it has read (`syncs`), a move of the recording to another day
(`mover`) and the server as `RecordingUpload` promises it (`server`).  An action is one
transaction of IndexedDB or one request.  `#save` replaces the whole row, so `Store`
does.  Faults: lost requests and answers (`LoseCall`), aborted activities, recorder
errors, refused writes, a closed page.  The module composes with the abstract side of
`RecordingUpload`: the server accepts units while it is uploading, binds them and
becomes durable.

### What the owner has decided

`ArtifactAuthority`: `rows` of the artifacts of one day, what the review panel has read
of each (`seen`), and the reconciliation that holds the day's lock (`plan`).  The panel
reads in two steps (`ReadRow`, `ReadPayload`) and decides on what it shows: `Confirm`,
`SaveCorrection`, `Pin`, `Delete`, `AdoptCandidate`, `DismissCandidate`,
`ReleaseOverride`, `SaveBullet`, `Split`, `QuickSplit`, `MergeSelected`, each guarded by
the revision in its ETag.  `PlanReconciliation` reads the rows, `ApplyReconciliation`
writes what was planned; `Invalidate` is an edit of the text the artifact came from.
`word` records the owner's decisions.

`FeedbackMemory`: `memories` with their revisions and approval, the ledger of feedback
requests, what the page of memories shows.  `CreateRun` binds the snapshot of
`assembleApprovedTranscriptionContext` to a transcription run.

`RequirementNudges`: evaluations of requirements, recorded in a read and a write
(`ReadEvaluation`, `RecordProcessorRun`), digests chosen in a read and made in a write
(`ReadCandidates`, `CreateOwnerDigest`), their delivery, and a card that shows one day
and answers, defers or dismisses with the revision it shows.  Hourly jobs overlap.

`TranscriptCleanup`: the corrections of one transcript, the cleanup runs and jobs they
cause and the cleaned texts.  A correction is checked (`EditCorrected`) and then
committed by `AppendCorrectedTranscriptRevision`, which cancels and stales what the
former correction led to; the same request may arrive several times.  Deliveries go
`Load`, `MarkRunning`, `Complete` or `MarkFailed`, with retries and expiry.

`OwnerSessions`: the account, sessions with idle and absolute ends under a clock,
challenges, recovery codes.  A sign-in is a proof and a later `IssueSession`; a request
finds its session, touches it and acts, in separate transactions.

`OwnerSettings`: preferences and one provider behind one revision, read by pages in
several connections (`ReadRevision`, `ReadTables`), the schedule that the queue is told
after the commit (`SynchronizeSchedule`), and the disclosure: the API and the worker
may be at different releases, which know different versions of it.

`ProcessorCatalog`: versions and installations; a request reads what it checks
(`Check`) and writes later (`Commit`) or meets a unique index or a guarded update
(`Conflict`); `SeedDatabase` may run at any time, over an older release's data.

### How material leaves the system

`RetainedMaterial` has one journal day with contributions, each with an audio and a raw
response, their blobs, and the ledger of tombstones.  `DataExport` adds snapshots,
leases, the worker that writes an archive step by step, downloads, expiry and the daily
maintenance; a soft deletion of a target invalidates the exports that hold it.
`PermanentDeletion` adds requests and workers: a request writes tombstones and captures
the keys of blobs in one transaction; a worker claims it (again, when a claim has
lapsed), takes the fence that backups share, deletes blob by blob, then rows
(`PurgeContribution`, `PurgeJournalDay`, ... are the functions of the database).
`BackupRepository` adds backups, which are snapshots of rows, ledger and the blobs they
refer to, the checkpoint that requests wait for, and a restore with the replay of the
newest ledger.  `RetentionSpec` is the four together; `MCDeletion` only divides it into
scenes that TLC can finish.

### Data left out everywhere

Prompts, provider answers, text, evidence, timestamps, pagination, response bodies
and logging.  Answers of a provider are nondeterministic outcomes: a result, a
partial result, a retryable error or a final error.


## 4. The runs

A run that covers several components explores *scenes*: the scene is chosen in the
initial state, never changes, and selects what happens in it.  Scenes are disjoint
parts of one state space, so a property of the run is checked in each of them.

| Run | What TLC explores | What it shows |
|---|---|---|
| `transcription_safety` | 2 workers, 2 retry keys, 1 crash or failed statement, 1 expiry or lost heartbeat, 1 deletion; 1.16 M states | The recording shows its newest attempt (`RecordingTracksLatestRun`), superseded attempts stay settled, transcripts appear in the order of attempts and once each, success implies a published transcript, nothing appears while the audio is deleted, and the ledger is implemented. |
| `transcription_liveness` | 2 workers, 1 retry key, 2 crashes, no overlapping deliveries | Every attempt resolves or ends in the dead-letter queue; a success is never taken back. |
| `transcription_overwrite` | as above with one stalled delivery | **Violated**: `SuccessIsFinal`. |
| `upload` | 2 request slots, 2 chunk indexes, 2 contents, 3 competing manifests, 2 aborts, 1 purge; 0.21 M states | Durable audio is byte-exact, acknowledgements are true, scheduling happens once, bound chunks survive late uploads, condemned audio stays deleted, `WriteOnceAudio` is implemented, and prepared recordings become durable if the client retries. |
| `upload_staging` | 1 slot, 1 chunk | **Violated**: `PurgedChunksAreGone`. |
| `processors_safety` | scenes *delivery* (1 processor, 2 workers, every kind of event), *lineage* (extractor, an interpreter that reads it, an observer that reads neither; overlapping edit and batch), *serial* (2 edits, transactions of the owner not overlapping others) | One result per successful run, settled runs stay settled, no queued run loses its job, nothing stale is shown, only descendants of replaced text are stale, and without overlaps all of them; `DerivedResults` is implemented. |
| `processors_liveness` | scenes *alone* (1 processor, 2 workers, expiry or lost heartbeat) and *chain* (an interpreter that reads the text and refuses partial results) | Every queued run concludes, even where completions and edits are rolled back; refused inputs are never bound. |
| `processors_retry` | 1 processor, 1 worker, 1 edit, serial | **Violated**: `PublishedFromCurrentText`. |
| `processors_stranded` | 1 processor, 1 worker, 1 crash | **Violated**: `NoStrandedRun`. |
| `browser` | scenes *one tab* and *two tabs* (3 captures, 1 change elsewhere, 2 deletions, 1 fault), *capture*, *pair* and *move* (2 units, 2 activities, 1 loss, 1 break, 1 move); 0.45 M states | Nothing that was written or recorded is lost (`CapturesKept`), no text is applied to a base its author did not see or after its author gave it up (`TextsOnTheirBase`), and both queues drain. |
| `owner` | scenes *artifacts*, *memories*, *sessions*, *settings*, *catalog*, *nudges*, *corrections*, one component each; 1.9 M states | What the owner decided stands: artifacts (`OwnersWordStands`), memories told to providers (`ApprovedContextOnly`), sessions and proofs of identity (`SessionsEnd`), consent and schedules (`ConsentAndSchedule`), the installed processors (`CatalogFollowsOwner`), what is asked and answered (`AsksAsAllowed`), corrected transcripts (`CorrectionsStand`). |
| `deletion` | scenes *exports*, *backups*, *workers*; 1 contribution written before and possibly 1 during an export, 2 workers, 2 requests, 1 failure, 2 backups | No export holds what was deleted before it was captured or is deleted since (`DeletedIsNotExported`), what was purged does not come back, from a restore either (`PurgedStaysPurged`), and a backup has the blobs of its rows (`BackupsAreWhole`). |

Every property of a passing run has a mutant: one definition of the model changed
the way a plausible defect of that code would change it (a dropped state check, an
omitted staleness condition, a missing guard of a revision, a closure of one step),
under which TLC finds the property violated by the same run.

`CHECK_DEADLOCK FALSE` appears where the bounded system comes to rest: all jobs
are settled and the bounds leave the owner nothing to do.  The uploads never rest,
because a client may always send another request, and there deadlock is checked.

### Bounds

Bounded are only what the environment may do without limit: retries by the owner
(`RetryKeys`), edits, deletions, batches, captures, sessions, requests, ticks of a clock,
crashes, stalls, losses.  Each counter is
a guard named `Max...`.  `RetryLimit` is a constant of the code (5) taken as 0 or 1;
with 1 a job goes through each of its states, is redelivered, and runs out of
retries.  Two workers, tabs, pages, clients or callers are what an overlap needs, two
request slots what a race of
finalizations needs (a third request adds no new kind of conflict), two chunk indexes what an
incomplete, a complete and an overlong upload need.  One crash and one stall reach
every point of a delivery.

In `browser`, three captures are a creation, an edit and the draft that replaces it.  In
`owner`, two results let one be a candidate beside an artifact the owner has taken over;
three changes of a memory are a creation, an approval and a revision; two ticks let a
session that was touched end absolutely; two sets of codes are a recovery; three drafts of
processors are a chain and a version beside it; two dates of a digest are a day and the
next.  In `deletion`, two requests are a contribution and the day it is in, two workers one
that takes over a lapsed claim, two backups one before and one after.  Where two scenes
would only multiply each other (exports and restores), they are kept apart.  The bounds
limit TLC only: the theorems of section 6 hold for all of them.

### Symmetry

Worker slots and retry keys are interchangeable and occur in no definition by name,
so they are symmetric in the runs that check invariants and action properties: workers in
`processors_safety`, workers and keys in `transcription_safety`, workers of the purges in
`deletion`.  No run that checks a liveness property uses symmetry, and neither does `owner`.

## 5. Fairness

*Transcription and processors*: each worker slot keeps taking steps of the delivery
it holds (`WF` of `WorkerStep`): a process that neither dies nor is stopped runs
its handler to the end; a provider call that does not return is an expiry, which
raises the abort signal.  Deliverable jobs are
fetched (`registerQueueWorker` polls) and abandoned ones reclaimed (pg-boss
supervision, started by the runtime).  In `Transcription` both hold for each job:
pg-boss fetches in order of creation, so no job is passed over for ever.  A
transaction that was begun ends (`CommitEdit \/ RefuseEdit`, `CommitBatch`).  The
owner is obliged to nothing, and no fault is obliged to happen.

*Upload*: the API finishes the requests it has accepted (`WF` of `RequestStep`).
`BeginRetry` is strongly fair, for some slot: the browser synchronizes when it comes
online or becomes visible again, and for a recording that the server reports as
prepared it calls `retryFinalization` (`apps/web/src/recording/sync-controller.ts:406`),
whatever else it sends in between.  It is an assumption about the owner as much as
about the code: nothing on the server resumes a prepared upload, see section 8.

*Browser*: an open tab goes on replaying (`WF` of `TabStep`), because the application
resumes its offline work whenever it becomes visible or online
(`apps/web/src/App.vue`, `resumeOfflineWork`).  An owner who is shown conflicts again and
again resolves one at a moment at which no replay is running (`SF` of `Resolve`): the
dialog offers both ways out and nothing else.  Writes of the recorder and requests of a
synchronization end (`WF` of `CaptureStep` and `SyncStep`) and saved recordings are taken
up (`WF` of `Resume`).  `QueuesDrain` is claimed for one open tab only.

## 6. What is proved

All constants are arbitrary subject to the `ASSUME`s beside them: any number of
workers, request slots, manifests, processors, any dependencies between them
(`Upstream` need not even be acyclic), any bounds.  No theorem assumes that TLC's
instance is representative.  The one assumption of finiteness is that a day has
finitely many processors.

**`TranscriptionProofs`.**  The invariant is `TypeInv` with `SafetyInv`, which adds
to the checked properties that nothing is scheduled before the audio is durable
and that the first publication seeds the corrected layer.  `TypeInv` is stronger
than `TypeOK`: a job that waits for redelivery has a retry left (or `Fetch` would
exceed the limit), and every published transcript belongs to an attempt that
exists.  The latter is what makes `RevisionsFollowAttempts` inductive: `Complete`
appends its run because it is *not stale*, that is the newest, so every earlier
publication belongs to an older attempt.  From it follow
`TypeCorrect`, `RecordingTracks`, `SupersededStaySettled`, `RevisionsInOrder`,
`SuccessIsPublished`, the action property `DeletedAudioIsSilent` and the refinement
`ImplementsLedger`.

The code breaks `SuccessIsFinal` (finding `transcription_overwrite`), and
`SuccessStandsUntilStall` says exactly when it can: never before pg-boss has given
up on a delivery that is still running.  Up to the first such stall, `OneDelivery`
is inductive: the job of a busy worker is active (so `Fetch` cannot hand it out
again and `Reclaim` finds its worker), two busy workers never share a run, and no
run a delivery is about to mark as running has succeeded.  `MarkRunning` is the only
action that can overwrite a success (`WorkerWritesOwnRun`), hence the theorem, for
any number of crashes, failed statements, retries and deletions;
`SuccessIsFinalWithoutStalls` is the case `MaxStalls = 0` of the run
`transcription_liveness`.

**`RecordingUploadProofs`.**  Here the difficulty is the requests in flight.  The
invariant says, for a request at each program counter, what it may still assume:
one that is about to link carries exactly the bytes of the *bound* manifest
(`RequestInv`), because binding is irrevocable and assembly compares the bytes; a
stored object is that of the bound manifest (`StoredInv`); the chunks it was
assembled from are staged (`StagedInv`); a tombstone exists only for a durable
recording (`DeletionInv`).  A slow request can then do no harm whenever it wakes
up.  `Stability` collects what no step undoes; the rest is one lemma per variable.
From it follow the six properties and `ImplementsWriteOnce`.

**`ProcessorRuntimeProofs`.**  `Inv` joins the checked invariants with what makes
them inductive: `QueuedClean` (a queued run has no error, so no delivery takes it for
concluded), `RetryInv` (a job to be retried has a retry left), `ReportsInv` (a delivery about to
report "completed" has started or settled its run), `OrderInv` (a batch that read its inputs earlier
still holds results that exist, of the right processors and partial only where
accepted) and `EditInv` (the results an open edit has selected exist).
`QueuedRunsKeepTheirJob` rests on `ReportsInv`: a delivery reports "completed" only
for a run that has left the queued state, and runs never return to it.
`InputsAreAccepted` rests on `OrderInv` and on the immutability of a result's run and
partiality (`FedStays`): that a batch's inputs may be *outdated* when they are
inserted does not make them of the wrong kind.  `ShownIsFresh` rests on staling and
deactivating being one transaction.  The steps are split as the code is: each step is
described by how it evolves the runs, the jobs, the results and the deliveries, and
these facts are combined once (`StepOK`).  From it follow `SettledRunsAreFinal` and
`ImplementsDerivedResults`, among others.

*Targeted invalidation.*  `StaleIsOutdated` speaks of `Texts`, a recursion over the recorded
inputs.  `HasSolution` shows that it has a solution (the least one: a text belongs to a
result that is in every set closed under reading), so `Texts` satisfies its equation
(`TextsUnfold`), and since a result reads older ones only (`InputsEarlier`) nothing a step
does changes the texts of a result that exists (`TextsStay`, by the oldest counterexample).
`TextInv` adds that everything an open edit has selected descends from the revision it
replaces (`EditOutdated`): the runs all of whose results do are closed under the recursive
query, so the query stays among them (`SelectionDescends`).  Hence `OnlyOutdatedIsStale`,
for every interleaving.

The other half, `SerialOutdatedIsStale`, is a theorem of `SceneSpec`, because it is false of
`Spec` (section 8): in the `serial` scene nothing comes between the halves of an edit
or a batch and no delivery or failed run is repeated.  `SerialInv` says how
that helps: an undelivered job is of a run never started and has no other delivery, so
no failed run is started again (`DeliveryInv`); every run still to finish and every input of
a batch binds the current revision and results that are not stale (`PendingAreCurrent`,
`OrderIsCurrent`), because a new run does so when it is queued (`NewRunsCurrent`) and an
edit cancels every run that would cease to (`EditSelectsAll`: the selection has all dependent
runs and all descending results).  A result published by such a run descends from the
current revision only.

**Sessions (`OwnerAccountProofs`).**  `SessionsEnd` says that each proof of identity counts once,
although nothing in the account, the codes or the challenges remembers it.  The invariant
says why: a proof that was accepted is void (`Void`): there is an account, the set the code
was of has been replaced, the challenge is consumed.  Void proofs stay void
(`VoidStays`), and none of the actions that accept a proof accepts a void one
(`SpendFresh`), so the history is without repetitions.  Sessions of a replaced set of codes
are revoked (`RowsInv`); a sign-in that was proved before the recovery and issues its session
after it gets one of the new account, which is not among those the recovery ended.  A request
that has found its session alive still has its row (`CookieInv`), and what it writes back is
bounded by the absolute end.  Before the set-up there is nothing (`AccountInv`).

**The outbox (`BrowserProofs`).**  A tab acts on what it was told a while ago: the queue it read,
the conflict it shows, the answer to a request that the server handled long before.  The
invariant joins what the store holds (`StoreInv`), what each tab still believes (`TabInv`)
and what waits in the queue (`QueueInv`), and rests on one fact: the server only moves on
(`Grows`).  A capture whose base has been passed stays overtaken (`Overtaken`), so a
request that is answered late, or is sent again by a second tab, is refused or is the
repetition of what was applied.  From it follow `TextsStandOnTheirBase` and `NothingIsLost`.

**The recording (`BrowserProofs`).**  Every writer of the recording row (the capture controller, the
activities, the mover) stores a *whole* row that it read earlier, so any of them could undo
another.  The invariant says of every copy that can still be stored that it counts every
unit the browser called saved (`Started`).  This holds because the capture is the only
writer while the row is fresh (`RowInv`), and afterwards nobody adds units, except the one
that was being written when the capture failed, which the browser did not call saved
(`late`).  Units are deleted only after a confirmation, and the server confirms only an
upload that it took whole, that is with all units (`ServerInv`, `ServerGrows`).  From it
follow `SyncInvariant` and `SavedAudioIsKept`.

**Where the recording is filed (`BrowserProofs`).**  Until a move meets another writer of
the row (`raced`), every copy of the row shows the day of the last move, and an upload that
can still be confirmed is filed under it, or is about to be (`DayInv`); from this follows
`MovesStand`.  The attempt to prove it corrected the model: the first version counted only
the activities among the other writers, and was not inductive.  TLC with two interruptions
shows why: `#failCapture` stores the controller's row without a guard
(`capture-controller.ts` 477-515), so a capture that failed once lets the owner move the
recording while its units are still being written, and then overwrites the move.  Section 8
lists it with the other races.  `CapturesAreKept` joins the three parts: a step of the
browser is a step of one of the two components (`BrowserSteps`).

**Settings (`OwnerAccountProofs`).**  Every accepted change leaves a receipt, and its
request tells the queue only after the transaction, in any order.  `QueueInv` says that one
schedule has the newest revision and is what is stored; that it is still to be told, or was
told last, or that an older one was told after it (`overtaken`).  Receipts are distinguished
by their revisions, so "newest" determines one.  `AcceptedInv` says that what is stored as
accepted is a disclosure the owner accepted; `ConsentAndScheduleAlways` follows.

**The catalog (`OwnerAccountProofs`).**  A request checks in one statement and commits in
another, so two may have checked the same state.  `NumbersInv` says what a checked request
may still assume, `ConfigInv` that each accepted change moved the configuration by one, and
`VersionsInv` that what was checked stays true (versions are never removed or changed) but
for the two things the unique index and the compare-and-swap guard at the commit.
`AcyclicInv` is about reachability, which is defined by closed sets and so can be reasoned
about without induction: the versions that existed before are a closed set that does not
hold the new identifier (`NotReached`).  The proof shows, by the way, that the cycle check
of `validateProcessorDefinition` never decides for a *new* version: a version needs only
published ones and nothing published needs it yet.

**Artifacts (`OwnerDecisionsProofs`).**  The panel reads an artifact in two statements, and
a processor's result is planned on rows read without a lock.  `PanelInv` says that a panel
whose revision is still the stored one shows what a reader would be shown now, unless the
artifact was invalidated since, so an `If-Match` that holds means a decision on the words
shown.  `WordInv` says that what the owner wrote is among the overrides of the active
revision and that every transition of the reconciliation keeps it.  What is excused from
it is what the property excuses, the two gaps of section 8.

**Questions (`OwnerTextProofs`).**  `SchedulerInv` says that the job that holds the lock is
alone, and had found room for one more digest; `AllowanceInv` that no date has more digests
than the largest limit the owner had set by its end, and that nothing is asked on a date to
come; `AskedInv` that what waits for an answer is asked for in a digest that can be
answered.  The largest number of digests is counted, so the proof needs cardinalities of
finite sets, and that the days are finitely many (`NudgeAssumption`).

**Corrections (`OwnerTextProofs`).**  Requests and deliveries act on what they read earlier, but
each checks it again in the transaction that writes.  The invariant says why that is
enough: no source is later than the latest correction, every text belongs to a run that
exists, and the keys of all corrections are in the ledger.  The steps are described by what
they do to the rows (`RunMoves`, `RunQueued`, `TextMade`, `CorrectionMade`), and each
description is shown once to keep the invariant.  Attempts are only compared, never
computed with, so the proof does not say what they are (`RunsType`).

**Memories (`OwnerDecisionsProofs`).**  The owner approves what a page *shows*, and the server applies
it to what is *stored*.  The two agree because a page that still has the current revision
shows the current words (`SeenInv`), and the server refuses every other revision.  Consent
stays with each later revision of an approved memory (`ConsentInv`).  The limit on the
number of items is shown at the last memory that fits, which exists because the numbers of
the memories are well-founded (`LastPlace`).  Assumed beside the types is only that the
placeholder `None` is no number (`MemoryAssumption`).

**Exports (`DeletionProofs`).**  A snapshot and a deletion exclude each other, so a row that
still counts (queued, running, completed) shows nothing that has been put away (`Shows`):
whatever a step puts away is one target (`OnlyThis`), and the rows that hold it are closed in the same
transaction.  The worker reads the row and not the material, so its archive holds no more
than the row says (`Carried`), however late it writes.  `FoundInv` says where an archive can be
found at each point of the job; it needs that a queued row has no job, and that what the maintenance
sweeps has a row.

**Permanent deletion and backups (`DeletionProofs`).**  Workers and backups share a fence
(`FenceInv`), which gives `BackupsAreWhole` at once.  `PurgedStaysPurged` is the long
argument.  The checkpoint of a backup compares one *number*, the greatest generation in its
image, with the generation of each request, and commits those not greater; that this implies
that the image holds the tombstone itself is `Truncated`: the ledger of an image is the
ledger of today cut off at a generation.  It is inductive because new tombstones are later than all
others (`TombstonesGrow`), which rests on the policy's counter and on the fence that keeps
two requests apart; the model therefore keeps the counter (`deletionGeneration`).  A request is
claimed only with its checkpoint, so all that a purge removes is covered by a tombstone of
the newest backup (`PurgeInv`), also when the claim lapsed and another worker goes on.  A
restore replays that ledger on the rows of any older backup.  `ReplayRemoves` shows, kind by kind
and in the order of the code, that what is covered is then absent or gone, though the tombstone may be
that of the contribution or of the day; this needs that every image is `Consistent` (a row that is
gone took with it what it held), and that a replay takes rows away and brings none back (`Only`).
Assumed is that there are finitely many entries (`MaterialAssumption`), because a day's request
numbers its children, and that the placeholder `None` is no row.

Assumed are the named `ASSUME`s of the modules and the facts of the standard
libraries (finite sets, sequences, functions, well-founded induction on `Nat`).

**Only model-checked.**  Liveness (`AttemptsResolve`, `PreparedResolves`,
`RunsConclude`, `QueuesDrain`).  Every invariant and every action property that a
passing run checks is also stated by a theorem; `SuccessIsFinal` is proved where no
running delivery is given up, because it is false otherwise.


## 7. Disagreements between documents and code that runs exhibit

1. `transcription_overwrite`: `markRunning`
   (`packages/database/src/transcription-repository.ts:252`) does not look at the
   status of the run.  A delivery that loaded the run before an overlapping one
   completed it puts a succeeded run back to running, and may leave it failed.
   ADR-0007 says that a retry never overwrites a successful artifact.
2. `upload_staging`: the purge deletes the captured staging keys under the root of
   the final objects (`packages/storage/src/local-blob-store.ts:472`), where they
   name nothing; the staged chunks remain after a completed permanent deletion.
3. `processors_retry`: an edit cancels queued and running runs only
   (`packages/database/src/processor-runtime-repository.ts:706`); a run that failed
   retryably before the edit is retried after it and publishes a fresh result of
   the replaced text.
4. `processors_stranded`: only queued and failed runs can be started
   (`processor-runtime-repository.ts:996`); a worker that dies after `markRunning`
   leaves a run that its redelivered job reports as canceled and completes.

`PROJECT.json` quotes the sentences these contradict.

## 8. Other divergences met while modelling

The models take these steps too.  They are kept out of the list of runs, so that it
stays short; TLC finds each of them as a violation of the formula given with it.

- *Stranded transcription.*  `markRunning` and `complete` cancel a stale run and then
  throw inside the same transaction (`transcription-repository.ts:259`, `:334`); the
  cancellation is rolled back, the job is completed, the run stays queued or running,
  and `retryTranscription` refuses it.  
  `\A i \in Attempts : Pending(i) => jobs[i].state \notin {"completed", "failed"}`
- *Superseded failure.*  `cancelLocked` (`transcription-repository.ts:541`) leaves the
  error columns of a failed run, which the constraint `transcription_run_error_consistent`
  refuses: redelivery of a superseded failed attempt fails until it is dead-lettered,
  where ADR-0007 lets workers do nothing.
  `[][\A w \in Workers : workers[w].pc = "cancel" => workers'[w].outcome # "transient"]_vars`
- *Recovery of prepared uploads.*  ADR-0008 describes recovery workers; no consumer in
  `apps/worker/src` resumes a prepared upload.  `PreparedResolves` fails when
  `RetryFairness` is left out of `FairSpec`.
- *Restoration racing a purge.*  `RetentionRepository.request`
  (`retention-repository.ts:101`) reads the soft deletion without locking the
  recording; a restoration in between leaves a recording that is durable, not deleted,
  condemned and finally erased.  `CompletePurge` can then not be taken
  unless the owner deletes the audio again.  This is why
  `CondemnedStaysDeleted` speaks of audio that is deleted when it is condemned.
  `row.state = "durable" /\ ~row.audioDeleted => blob = row.bound.audio`
- *Late link after a purge.*  A publication that stalls before its hard link while
  another request confirms the recording and its audio is purged stores the bytes
  again.  This is why `DurableAudioIntact` ends at the tombstone.
  `purge.state = "completed" => blob = Missing`
- *Replayed deletion.*  `setAudioDeleted` (`recording-service.ts:896`) applies a known
  idempotency key again: a duplicate of an old deletion deletes restored audio.
  `[][row'.audioDeleted /\ ~row.audioDeleted => keys' # keys]_vars`
- *Completion during an edit's traversal.*  A run that completes between the recursive
  query (`processor-runtime-repository.ts:611`) and the updates keeps a result of the
  replaced text fresh.  `OutdatedIsStale` is violated under `Spec`; it holds in the serial scene of
  `SceneSpec`, and there it is proved.
- *Batch during an edit.*  Inputs of a batch are read before anything is locked
  (`processor-runtime-repository.ts:377`), so it may queue a run over replaced text.
  `[][\A i \in DOMAIN runs' \ Attempts : runs'[i].text \in {None, source'.revision}]_vars`
- *Two upstream processors.*  `complete` queues every dependent in its own transaction
  (`:1246`) and raises when a dependent has another dependency without a result; with
  two upstream processors neither can commit first (`Upstream` with two dependencies).
  `[][\A w \in Workers : (workers[w].pc = "complete" /\ workers'[w].pc = "fail") => runs[workers[w].run].status # "running"]_vars`
- *Text and result.*  An edit queues replacements after it has staled the upstream
  results (`:757`), so a processor that reads both the text and such a result makes the
  edit fail: `RefuseEdit`, exercised by the scene *chain* of `processors_liveness`.
  `[][edit.open /\ ~edit'.open => source'.revision > source.revision]_vars`
- *Canceled batch.*  Canceling (`apps/api/src/reprocessing-service.ts:729`) changes queued and
  running runs only; a failed one is retried and publishes.
  `[][\A i \in Attempts : (runs[i].batch # None /\ batches[runs[i].batch] = "canceled") => (runs'[i].status = "succeeded" => runs[i].status = "succeeded")]_vars`
- *Deleted contribution.*  `softDeleteContribution` invalidates nothing; results derived
  from it remain shown until they are reprocessed.

The following were met while the newer modules were written.  The models take these
steps unless it says otherwise, and the properties are stated for what remains true.

*Browser.*

- A creation whose contribution was deleted elsewhere is answered with an error that
  ends the replay (`offline.ts:566`); everything behind it waits.  The same holds for any
  refused first record: `HeadRefused` is the exception in `OutboxDrains`.
- `MarkConflict` writes the record back as it was read: a record that another tab has
  sent, or that a purge has removed, is there again.  With two tabs a conflict that was
  settled may be asked about for ever; resolving it twice keeps the draft twice.
- `failCapture` stores the controller's copy of the row, which does not count a unit
  whose transaction has not returned: `audio.late` in `AudioKept`.
- A move made before the answer to a creation arrives proposes another identifier for
  the day, and the creation repeated with the same key is a conflict: failed, and not to
  be retried.  `#save` replaces a row that was moved meanwhile, and so does `#failCapture`
  after a capture that has failed before: `events.raced` in `MoveStands`.  `retry` runs outside the controller's single flight.
- A page closed while it records leaves a row in the state recording, which nothing takes
  up; the units stay on the device.
- `cacheDay` may store a day that was fetched before a purge or a sign-out (the cache of
  days is not modelled).

*Artifacts and memories.*

- An override that is released shows the newest candidate, a dismissed one included, where
  `docs/artifact-editing.md:9-11` speaks of the active generated version.
- Confirming an artifact that was invalidated since it was read stores an empty payload.
- Reconciliation that plans to create on a key whose manual artifact has no version fails.
- The replay of a feedback request is refused once its target is purged.
- `assembleApprovedTranscriptionContext` stops at the first memory that does not fit,
  where a shorter one behind it would.

*Settings, sessions, catalog.*

- The settings page reads in several connections; a torn read pairs an old preference with
  the new revision, and saving it undoes what another page saved.
- A settings request repeated late tells the queue its own schedule, over a newer one.
- Of two identical requests at the same time the second is refused instead of replayed.
- Seeding moves the current version of a built-in processor over a roll-back.

*Requirements and nudges.*

- `recordProcessorRun` reads the manual resolution without a lock and overwrites a
  dismissal or a not-applicable mark; other states fail a check constraint.
- Two first evaluations at once: the second insert fails and its run is not recorded.
- A day that has a digest and gets another eligible evaluation makes the hourly job fail
  at its insert, each time, and blocks the days and owners behind it.
- A dismissed digest overwrites items that were already answered.

*Cleanup.*

- `markRunning` and `complete` cancel and throw in one transaction, as in transcription;
  a superseded failed run cannot be canceled and its job fails until its retries run out.
- An aborted run stays running with a completed job; `markFailed` overwrites a
  cancellation.  The loser of two concurrent corrections gets an error of state.
- The retry of a failed run whose job is still to be redelivered gives two cleaned texts of
  one correction.

*Exports, deletion, backup.*

- A worker that dies between storing an archive and completing its row leaves the archive
  without an owner, and so does a deletion that fails in its error path: `strays`.
- An export whose completion was committed but not answered deletes its blob while the row
  offers it; the redelivered job of an export that a dead worker left running does nothing.
- A day cannot be requested when a recording or contribution in it has a tombstone already; a
  pending request for a raw response whose contribution was purged first fails for ever, and
  so does every backup meanwhile.
- A restoration from the trash may commit after permanent deletion was requested
  (`journal-repository.ts:634`), where `docs/retention-and-permanent-deletion.md:31` says
  that restore paths reject tombstoned identities.
- A restore is refused when a tombstone names a raw response that the dump no longer has
  (`backup-core.mjs:742`), where `docs/backup-and-restore.md:54` purges what matches.
- Blobs created between the capture of a day's keys and its purge are not captured.

## 9. What is not modelled, and why

- *Semantic index, search, grounded answers*: the embedding of one generation resumes and
  repeats as transcription does, over rows that only searches read; ranking is SQL.
- *Event feed*: a ring of hints in memory, one actor, no effect on stored state.
- *Processor definitions and evidence, temporal rules*: pure functions of their input, over
  character offsets and calendars, which the repository tests directly.  The models take
  their verdicts as data.
- *AI providers, WebM repair, cryptography*: external or numeric; their results are
  nondeterministic outcomes.
- *Process lifecycle*: start and shutdown appear as crashes and abandoned deliveries only.
- *The pool of connections*: a finalization awaits a second connection while it holds a
  row (`recording-service.ts:712`), which can exhaust the pool; the documents promise
  nothing about it.  Deadlocks that
  PostgreSQL breaks by aborting one transaction are steps that do not happen here.
- *Offline cache of days*: read-only copies.
- *HTTP routes, contracts and views* have no state of their own beyond what the pages of
  the models keep (what was read, and its revision).
- *Liveness of permanent deletion, exports, digests and cleanups* is not claimed: section 8
  lists the ways in which each can stop.

In the modelled parts, `PROJECT.json` says for each component what is left out.
