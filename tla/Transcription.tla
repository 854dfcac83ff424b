---------------------------- MODULE Transcription ----------------------------
(***************************************************************************)
(* The transcription of one recording: the recording row, its numbered     *)
(* attempts (transcription_run rows), the pg-boss job every attempt owns,  *)
(* the worker processes that execute deliveries of those jobs, and the     *)
(* owner's requests against the recording.                                 *)
(*                                                                         *)
(* A database transaction is one action, because every one of them locks   *)
(* the run and the recording row first.  What happens between two          *)
(* transactions of a handler (a provider call, the settlement of the job,  *)
(* a lost heartbeat, a crash) interleaves freely.                          *)
(*                                                                         *)
(* Attempt number i is the i-th element of runs; its job has the same      *)
(* identity in the code and the same index here.                           *)
(***************************************************************************)
EXTENDS Naturals, Sequences, FiniteSets

CONSTANTS
    Workers,      \* worker slots that may each hold one delivery
    RetryKeys,    \* idempotency keys the owner uses for "retry transcription"
    RetryLimit,   \* pg-boss redeliveries of one job (5 in the code)
    MaxCrashes,   \* bound: worker crashes and failed statements
    MaxStalls,    \* bound: expiries and lost heartbeats of live deliveries
    MaxDeletes    \* bound: how often the owner deletes the audio

ASSUME RetryLimitAssumption == RetryLimit \in Nat
ASSUME BoundsAssumption ==
    MaxCrashes \in Nat /\ MaxStalls \in Nat /\ MaxDeletes \in Nat

VARIABLES
    recording,  \* the recording row
    runs,       \* the transcription_run rows, by attempt
    jobs,       \* the pg-boss jobs, by attempt
    workers,    \* the delivery each worker slot is executing
    revisions,  \* source runs of the raw_stt revisions, oldest first
    corrected,  \* source run of the corrected layer's first revision, or NoRun
    keys,       \* idempotency keys already recorded
    crashes,    \* crashes and failed statements so far
    stalls,     \* deliveries that pg-boss gave up on while they were running
    deletes     \* deletions of the audio so far

vars == <<recording, runs, jobs, workers, revisions, corrected, keys, crashes,
          stalls, deletes>>

bounds == <<crashes, stalls, deletes>>

NoRun == 0

RunStatus == {"queued", "running", "succeeded", "failed", "canceled"}
RunError == {"none", "retryable", "final"}
Run == [status : RunStatus, error : RunError]

Job == [state : {"created", "active", "retry", "completed", "failed"},
        retries : 0..RetryLimit]

Recording == [persistence : {"prepared", "durable"},
              audioDeleted : BOOLEAN,
              latest : Nat,
              state : {"not_started", "queued", "running", "succeeded", "failed"}]

Step == {"idle", "load", "cancel", "mark", "transcribe", "complete", "fail",
         "report"}
Outcome == {"none", "completed", "transient", "deferred", "permanent"}
Delivery == [pc : Step, run : Nat, expired : BOOLEAN, error : RunError,
             outcome : Outcome]

Idle == [pc |-> "idle", run |-> NoRun, expired |-> FALSE, error |-> "none",
         outcome |-> "none"]

Attempts == DOMAIN runs
Pending(i) == runs[i].status \in {"queued", "running"}
DeliverableOnce(i) == jobs[i].state = "created"
Deliverable(i) == jobs[i].state \in {"created", "retry"}

Init ==
    /\ recording = [persistence |-> "prepared", audioDeleted |-> FALSE,
                    latest |-> NoRun, state |-> "not_started"]
    /\ runs = <<>>
    /\ jobs = <<>>
    /\ workers = [w \in Workers |-> Idle]
    /\ revisions = <<>>
    /\ corrected = NoRun
    /\ keys = {}
    /\ crashes = 0
    /\ stalls = 0
    /\ deletes = 0

-----------------------------------------------------------------------------
(* Helpers of the transcription repository                                 *)

\* The check constraint transcription_run_error_consistent: a statement that
\* would leave a run outside it raises and rolls its transaction back.
ErrorConsistent(run) == run.status = "failed" <=> run.error # "none"

\* A run is stale once a later attempt exists or its audio is deleted.
StaleIgnoringAttempts(i) == recording.audioDeleted
StaleIgnoringDeletion(i) == recording.latest # i
Stale(i) == recording.latest # i \/ recording.audioDeleted

\* The recording shows the state of its latest run only.
SetStateOfAnyRun(i, state) == [recording EXCEPT !.state = state]
SetState(i, state) ==
    IF recording.latest = i THEN [recording EXCEPT !.state = state]
                            ELSE recording

\* The owner may retry a run that failed or was canceled.
RetryableUnlessSucceeded(run) == run.status # "succeeded"
Retryable(run) == run.status \in {"failed", "canceled"}

\* The first success of a recording seeds the corrected layer.
SeedByFirstAttempt(i) == IF i = 1 THEN i ELSE corrected
SeedCorrected(i) == IF corrected = NoRun THEN i ELSE corrected

\* What cancelLocked writes: the status only, the error columns stay.
CanceledRun(run) == [run EXCEPT !.status = "canceled"]

\* enqueueTranscriptionRun: the new attempt, the recording's pointer to it
\* and the job are inserted by the caller's transaction.
EnqueueRun(row) ==
    /\ runs' = Append(runs, [status |-> "queued", error |-> "none"])
    /\ jobs' = Append(jobs, [state |-> "created", retries |-> 0])
    /\ recording' = [row EXCEPT !.latest = Len(runs) + 1, !.state = "queued"]

-----------------------------------------------------------------------------
(* The owner's requests                                                    *)

\* RecordingService.publish, third step: the confirming transaction makes the
\* audio durable and schedules the first attempt.  It is refused on every
\* other path that finds an attempt or deleted audio.
ConfirmDurable ==
    /\ recording.persistence = "prepared"
    /\ IF runs = <<>>
       THEN EnqueueRun([recording EXCEPT !.persistence = "durable"])
       ELSE /\ recording' = [recording EXCEPT !.persistence = "durable"]
            /\ UNCHANGED <<runs, jobs>>
    /\ UNCHANGED <<workers, revisions, corrected, keys, bounds>>

\* RecordingService.retryTranscription: a replayed key changes nothing.
RetryTranscription(k) ==
    /\ k \notin keys
    /\ recording.persistence = "durable"
    /\ ~recording.audioDeleted
    /\ runs # <<>>
    /\ Retryable(runs[Len(runs)])
    /\ keys' = keys \cup {k}
    /\ EnqueueRun(recording)
    /\ UNCHANGED <<workers, revisions, corrected, bounds>>

\* RecordingService.setAudioDeleted, in both directions.
DeleteAudio ==
    /\ recording.persistence = "durable"
    /\ ~recording.audioDeleted
    /\ deletes < MaxDeletes
    /\ recording' = [recording EXCEPT !.audioDeleted = TRUE]
    /\ deletes' = deletes + 1
    /\ UNCHANGED <<runs, jobs, workers, revisions, corrected, keys, crashes,
                   stalls>>

RestoreAudio ==
    /\ recording.persistence = "durable"
    /\ recording.audioDeleted
    /\ recording' = [recording EXCEPT !.audioDeleted = FALSE]
    /\ UNCHANGED <<runs, jobs, workers, revisions, corrected, keys, bounds>>

OwnerStep ==
    \/ ConfirmDurable
    \/ \E k \in RetryKeys : RetryTranscription(k)
    \/ DeleteAudio
    \/ RestoreAudio

-----------------------------------------------------------------------------
(* The worker: registerQueueWorker around TranscriptionJobHandler          *)

Goto(w, pc) == workers' = [workers EXCEPT ![w].pc = pc]

Report(w, outcome) ==
    workers' = [workers EXCEPT ![w] =
                   [@ EXCEPT !.pc = "report", !.outcome = outcome]]

FailWith(w, error) ==
    workers' = [workers EXCEPT ![w] = [@ EXCEPT !.pc = "fail", !.error = error]]

\* pg-boss hands a created or retryable job to a free worker slot; a
\* redelivery counts against the retry limit.
Fetch(w, i) ==
    /\ workers[w].pc = "idle"
    /\ Deliverable(i)
    /\ jobs' = [jobs EXCEPT ![i] =
                   [state |-> "active",
                    retries |-> @.retries + (IF @.state = "retry" THEN 1 ELSE 0)]]
    /\ workers' = [workers EXCEPT ![w] = [Idle EXCEPT !.pc = "load", !.run = i]]
    /\ UNCHANGED <<recording, runs, revisions, corrected, keys, bounds>>

\* Nothing is left to do for a run that succeeded or was canceled.
ConcludedUnlessSucceeded(run) == run.status = "canceled"
Concluded(run) == run.status \in {"succeeded", "canceled"}

\* TranscriptionJobHandler.load: one unlocked read decides what to do.
Load(w) ==
    LET i == workers[w].run
        run == runs[i]
    IN /\ workers[w].pc = "load"
       /\ \/ Concluded(run) /\ Report(w, "completed")
          \/ /\ ~Concluded(run)
             /\ Stale(i)
             /\ Goto(w, "cancel")
          \/ /\ ~Concluded(run)
             /\ ~Stale(i)
             /\ \/ run.error = "final" /\ Report(w, "completed")
                \/ /\ run.error # "final"
                   /\ IF workers[w].expired THEN Report(w, "completed")
                                            ELSE Goto(w, "mark")
       /\ UNCHANGED <<recording, runs, jobs, revisions, corrected, keys, bounds>>

\* TranscriptionRepository.markCanceled, called by load on a stale run.  The
\* error columns are not cleared, so the database refuses a failed run.
MarkCanceled(w) ==
    LET i == workers[w].run
        canceled == CanceledRun(runs[i])
    IN /\ workers[w].pc = "cancel"
       /\ \/ /\ runs[i].status = "succeeded"
             /\ Report(w, "completed")
             /\ UNCHANGED <<runs, recording>>
          \/ /\ runs[i].status # "succeeded"
             /\ ErrorConsistent(canceled)
             /\ runs' = [runs EXCEPT ![i] = canceled]
             /\ recording' = SetState(i, "failed")
             /\ Report(w, "completed")
          \/ /\ runs[i].status # "succeeded"
             /\ ~ErrorConsistent(canceled)
             /\ Report(w, "transient")
             /\ UNCHANGED <<runs, recording>>
       /\ UNCHANGED <<jobs, revisions, corrected, keys, bounds>>

\* TranscriptionRepository.markRunning.  For a stale run the cancellation is
\* written and then rolled back by the exception that reports it.
MarkRunning(w) ==
    LET i == workers[w].run
    IN /\ workers[w].pc = "mark"
       /\ \/ /\ Stale(i)
             /\ IF ErrorConsistent(CanceledRun(runs[i]))
                THEN Report(w, "completed")
                ELSE FailWith(w, "retryable")
             /\ UNCHANGED <<runs, recording>>
          \/ /\ ~Stale(i)
             /\ runs' = [runs EXCEPT ![i] = [status |-> "running",
                                            error |-> "none"]]
             /\ recording' = SetState(i, "running")
             /\ Goto(w, "transcribe")
       /\ UNCHANGED <<jobs, revisions, corrected, keys, bounds>>

\* The part of execute that runs outside the database: resolve the provider,
\* open the audio, transcribe, store the raw response.  An aborted delivery
\* gives up silently at the checks before and after the provider call.
Transcribe(w) ==
    /\ workers[w].pc = "transcribe"
    /\ \/ workers[w].expired /\ Report(w, "completed")
       \/ ~workers[w].expired /\ Goto(w, "complete")
       \/ \E error \in {"retryable", "final"} : FailWith(w, error)
    /\ UNCHANGED <<recording, runs, jobs, revisions, corrected, keys, bounds>>

\* TranscriptionRepository.complete.  The unique index on the source run
\* rejects a second raw revision of the same attempt; the first success of
\* the recording also seeds the corrected layer.
Complete(w) ==
    LET i == workers[w].run
        published == i \in {revisions[n] : n \in DOMAIN revisions}
    IN /\ workers[w].pc = "complete"
       /\ \/ /\ runs[i].status = "succeeded"
             /\ Report(w, "completed")
             /\ UNCHANGED <<runs, recording, revisions, corrected>>
          \/ /\ runs[i].status # "succeeded"
             /\ Stale(i)
             /\ IF ErrorConsistent(CanceledRun(runs[i]))
                THEN Report(w, "completed")
                ELSE FailWith(w, "retryable")
             /\ UNCHANGED <<runs, recording, revisions, corrected>>
          \/ /\ runs[i].status # "succeeded"
             /\ ~Stale(i)
             /\ published
             /\ FailWith(w, "retryable")
             /\ UNCHANGED <<runs, recording, revisions, corrected>>
          \/ /\ runs[i].status # "succeeded"
             /\ ~Stale(i)
             /\ ~published
             /\ revisions' = Append(revisions, i)
             /\ corrected' = SeedCorrected(i)
             /\ runs' = [runs EXCEPT ![i] = [status |-> "succeeded",
                                            error |-> "none"]]
             /\ recording' = SetState(i, "succeeded")
             /\ Report(w, "completed")
       /\ UNCHANGED <<jobs, keys, bounds>>

\* TranscriptionRepository.markFailed and the QueueJobError thrown after it.
\* A provider that names a retry delay makes the handler settle the job itself.
MarkFailed(w) ==
    LET i == workers[w].run
        error == workers[w].error
    IN /\ workers[w].pc = "fail"
       /\ IF runs[i].status = "succeeded"
          THEN UNCHANGED <<runs, recording>>
          ELSE /\ runs' = [runs EXCEPT ![i] = [status |-> "failed",
                                              error |-> error]]
               /\ recording' = SetState(i, "failed")
       /\ \/ error = "final" /\ Report(w, "permanent")
          \/ error = "retryable" /\ Report(w, "transient")
          \/ error = "retryable" /\ Report(w, "deferred")
       /\ UNCHANGED <<jobs, revisions, corrected, keys, bounds>>

\* A failed attempt of a job goes back to the queue until its retries are
\* used up, then to the dead-letter queue.
RequeueWithoutLimit(i) == jobs' = [jobs EXCEPT ![i].state = "retry"]
Requeue(i) ==
    jobs' = [jobs EXCEPT ![i].state = IF jobs[i].retries < RetryLimit
                                      THEN "retry" ELSE "failed"]

\* The delivery reports to pg-boss, which settles the job only while it is
\* active, whoever fetched it last.  After a local expiry pg-boss no longer
\* listens to the handler; only a self-settled (deferred) failure gets through.
Settle(w) ==
    LET i == workers[w].run
        outcome == workers[w].outcome
    IN /\ workers[w].pc = "report"
       /\ IF jobs[i].state # "active"
                \/ (workers[w].expired /\ outcome # "deferred")
          THEN UNCHANGED jobs
          ELSE \/ /\ outcome = "completed"
                  /\ jobs' = [jobs EXCEPT ![i].state = "completed"]
               \/ outcome \in {"transient", "deferred"} /\ Requeue(i)
               \/ /\ outcome = "permanent"
                  /\ jobs' = [jobs EXCEPT ![i].state = "failed"]
       /\ workers' = [workers EXCEPT ![w] = Idle]
       /\ UNCHANGED <<recording, runs, revisions, corrected, keys, bounds>>

WorkerStep(w) ==
    \/ Load(w) \/ MarkCanceled(w) \/ MarkRunning(w) \/ Transcribe(w)
    \/ Complete(w) \/ MarkFailed(w) \/ Settle(w)

-----------------------------------------------------------------------------
(* Faults                                                                  *)

Crashing == crashes < MaxCrashes /\ crashes' = crashes + 1 /\ UNCHANGED stalls
Stalling == stalls < MaxStalls /\ stalls' = stalls + 1 /\ UNCHANGED crashes

\* The process dies with its delivery; the job stays active until reclaimed.
Crash(w) ==
    /\ Crashing
    /\ workers[w].pc # "idle"
    /\ workers' = [workers EXCEPT ![w] = Idle]
    /\ UNCHANGED <<recording, runs, jobs, revisions, corrected, keys, deletes>>

\* The job's time limit passes in the process that runs it: pg-boss fails the
\* job and raises the abort signal, the handler keeps running.
Expire(w) ==
    /\ Stalling
    /\ workers[w].pc # "idle"
    /\ ~workers[w].expired
    /\ IF jobs[workers[w].run].state = "active" THEN Requeue(workers[w].run)
                                                ELSE UNCHANGED jobs
    /\ workers' = [workers EXCEPT ![w].expired = TRUE]
    /\ UNCHANGED <<recording, runs, revisions, corrected, keys, deletes>>

\* Supervision sees no heartbeat of a delivery that is in fact still running.
LoseHeartbeat(i) ==
    /\ Stalling
    /\ jobs[i].state = "active"
    /\ \E w \in Workers : workers[w].run = i
    /\ Requeue(i)
    /\ UNCHANGED <<recording, runs, workers, revisions, corrected, keys, deletes>>

\* A statement of the handler fails (connection lost, deadlock): its
\* transaction is rolled back.  Outside execute's try block, and inside
\* markFailed itself, the error reaches the queue as transient.
StatementFails(w) ==
    /\ Crashing
    /\ \/ /\ workers[w].pc \in {"load", "cancel", "fail"}
          /\ Report(w, "transient")
       \/ /\ workers[w].pc \in {"mark", "complete"}
          /\ FailWith(w, "retryable")
    /\ UNCHANGED <<recording, runs, jobs, revisions, corrected, keys, deletes>>

\* Supervision returns the job of a dead process to the queue.
Reclaim(i) ==
    /\ jobs[i].state = "active"
    /\ \A w \in Workers : workers[w].run # i
    /\ Requeue(i)
    /\ UNCHANGED <<recording, runs, workers, revisions, corrected, keys, bounds>>

FaultStep ==
    \/ \E w \in Workers : Crash(w) \/ Expire(w) \/ StatementFails(w)
    \/ \E i \in Attempts : LoseHeartbeat(i)

-----------------------------------------------------------------------------
Next ==
    \/ OwnerStep
    \/ \E w \in Workers, i \in Attempts : Fetch(w, i)
    \/ \E w \in Workers : WorkerStep(w)
    \/ \E i \in Attempts : Reclaim(i)
    \/ FaultStep

Spec == Init /\ [][Next]_vars

\* Worker processes keep polling and executing, and pg-boss supervises the
\* queue.  Nothing obliges the owner to act or a fault to happen.
FetchAny(i) == i \in Attempts /\ \E w \in Workers : Fetch(w, i)
ReclaimAny(i) == i \in Attempts /\ Reclaim(i)

MaxAttempts == Cardinality(RetryKeys) + 1

Fairness ==
    /\ \A w \in Workers : WF_vars(WorkerStep(w))
    /\ \A i \in 1..MaxAttempts : WF_vars(FetchAny(i)) /\ WF_vars(ReclaimAny(i))

FairSpec == Spec /\ Fairness

-----------------------------------------------------------------------------
(* Properties                                                              *)

\* The shape of the rows, the jobs and the deliveries.
TypeOK ==
    /\ recording \in Recording
    /\ runs \in Seq(Run)
    /\ jobs \in Seq(Job)
    /\ Len(jobs) = Len(runs)
    /\ workers \in [Workers -> Delivery]
    /\ \A w \in Workers : workers[w].pc # "idle" => workers[w].run \in Attempts
    /\ revisions \in Seq(Attempts)
    /\ corrected \in Attempts \cup {NoRun}
    /\ keys \subseteq RetryKeys
    /\ crashes \in 0..MaxCrashes
    /\ stalls \in 0..MaxStalls
    /\ deletes \in 0..MaxDeletes

\* The recording row and the run table never disagree: the state shown for a
\* recording is the state of its newest attempt, whichever worker, however
\* late, wrote last (SetState is called from five transactions).
RecordingTracksLatestRun ==
    /\ recording.latest = Len(runs)
    /\ recording.state =
         IF runs = <<>> THEN "not_started"
         ELSE IF runs[Len(runs)].status = "canceled" THEN "failed"
         ELSE runs[Len(runs)].status

\* Once the owner has started a newer attempt, no delivery of an older one,
\* redelivered or merely slow, brings that older attempt back to life: it
\* stays failed or canceled.
SupersededRunsSettled ==
    \A i \in Attempts : i < Len(runs) => runs[i].status \in {"failed", "canceled"}

\* Raw transcripts are published in the order of their attempts and at most
\* once per attempt: a late answer never becomes current over a newer one.
RevisionsFollowAttempts ==
    \A m, n \in DOMAIN revisions : m < n => revisions[m] < revisions[n]

\* A run that says it succeeded has published its transcript, and then the
\* corrected layer exists too.
SucceededRunIsPublished ==
    \A i \in Attempts :
        runs[i].status = "succeeded" =>
            /\ i \in {revisions[n] : n \in DOMAIN revisions}
            /\ corrected # NoRun

\* No transcript appears while the audio is deleted, although the deletion may
\* fall between any two steps of a worker.
NothingPublishedWhileDeleted ==
    [][revisions' # revisions => ~recording.audioDeleted]_vars

\* Refinement: the system implements the ledger its readers rely on.
Ledger == INSTANCE TranscriptLedger WITH
    attempts <- Len(runs), withheld <- recording.audioDeleted,
    published <- revisions, seed <- corrected
LedgerSpec == Ledger!LedgerSpec

\* Under fair workers and supervision every attempt leaves the queued and
\* running states, unless faults used up the retries of its job.
AttemptsResolve ==
    \A i \in 1..MaxAttempts :
        (i \in Attempts /\ Pending(i)) ~>
            (i \in Attempts /\ (~Pending(i) \/ jobs[i].state = "failed"))

-----------------------------------------------------------------------------
(* What the documents promise and the code does not keep                   *)

\* ADR-0007: a retry never overwrites a successful artifact, and a worker does
\* nothing when the run is already complete.
SuccessIsFinal ==
    [][\A i \in Attempts :
         runs[i].status = "succeeded" => runs'[i].status = "succeeded"]_vars
=============================================================================
