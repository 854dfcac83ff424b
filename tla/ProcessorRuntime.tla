-------------------------- MODULE ProcessorRuntime --------------------------
(***************************************************************************)
(* The derived results of one journal day: the processors that run over    *)
(* it, their runs and jobs, the results they publish, the owner who edits  *)
(* the source text and starts or cancels reprocessing batches, and the     *)
(* workers.                                                                *)
(*                                                                         *)
(* The day holds one written contribution.  A run binds, when it is        *)
(* queued, the revision of that text (if the processor reads it) and one   *)
(* result of every processor it depends on.  Every processor has a single  *)
(* version.  Runs and results are numbered in the order of their           *)
(* insertion; a job has the number of its run.                             *)
(*                                                                         *)
(* A transaction is one action, with two exceptions whose statements read  *)
(* the database before they lock what they write: an edit selects what     *)
(* depends on the old text before it invalidates it, and a batch reads the *)
(* inputs of its runs before it inserts them.                              *)
(***************************************************************************)
EXTENDS Naturals, Sequences, FiniteSets, SequencesExt

CONSTANTS
    Processors,
    Readers,         \* the processors that read the written text
    Upstream,        \* the processors whose results a processor reads
    AcceptsPartial,  \* the processors that take partial results as inputs
    Selections,      \* the sets of processors the owner may reprocess
    Workers,         \* worker slots that may each hold one delivery
    RetryLimit,      \* pg-boss redeliveries of one job
    MaxEdits,        \* bound: edits of the text
    MaxDeletes,      \* bound: deletions of the contribution
    MaxBatches,      \* bound: reprocessing batches
    MaxCrashes,      \* bound: worker crashes and failed statements
    MaxStalls        \* bound: expiries and lost heartbeats of live deliveries

ASSUME ProcessorsAssumption ==
    /\ Readers \subseteq Processors
    /\ Upstream \in [Processors -> SUBSET Processors]
    /\ AcceptsPartial \subseteq Processors
    /\ Selections \subseteq ((SUBSET Processors) \ {{}})
    /\ IsFiniteSet(Processors)
ASSUME LimitsAssumption ==
    /\ RetryLimit \in Nat /\ MaxEdits \in Nat /\ MaxDeletes \in Nat
    /\ MaxBatches \in Nat /\ MaxCrashes \in Nat /\ MaxStalls \in Nat

VARIABLES
    source,   \* the contribution: its current revision, deleted or not
    runs,     \* the processor_run rows
    jobs,     \* the pg-boss jobs of the runs
    results,  \* the processor_result rows
    shown,    \* the result behind the active artifact of each processor, or 0
    workers,  \* the delivery each worker slot is executing
    edit,     \* the edit transaction in progress
    order,    \* the inputs read by the batch transaction in progress
    batches,  \* the state of each reprocessing batch
    edits, deletes, crashes, stalls  \* counters of the bounded events

bounds == <<edits, deletes, crashes, stalls>>
vars == <<source, runs, jobs, results, shown, workers, edit, order, batches,
          bounds>>

None == 0

RunError == {"none", "retryable", "final"}
Run == [processor : Processors,
        status : {"queued", "running", "succeeded", "failed", "canceled"},
        error : RunError, text : Nat, inputs : SUBSET (Nat \ {0}), batch : Nat]
Job == [state : {"created", "active", "retry", "completed", "failed"},
        retries : 0..RetryLimit]
Result == [run : Nat \ {0}, partial : BOOLEAN, stale : BOOLEAN]
Basis == [text : Nat, inputs : SUBSET (Nat \ {0})]

Step == {"idle", "load", "cancel", "mark", "generate", "complete", "fail",
         "report"}
Delivery == [pc : Step, run : Nat, expired : BOOLEAN, error : RunError,
             outcome : {"none", "completed", "transient", "permanent"}]

Idle == [pc |-> "idle", run |-> None, expired |-> FALSE, error |-> "none",
         outcome |-> "none"]
NoEdit == [open |-> FALSE, direct |-> {}, runs |-> {}, results |-> {}]
NoOrder == <<>>
NewJob == [state |-> "created", retries |-> 0]

Attempts == DOMAIN runs
Pending(run) == run.status \in {"queued", "running"}
SettledJob(i) == jobs[i].state \in {"completed", "failed"}
Ordering == order # NoOrder

Init ==
    /\ source = [revision |-> 1, deleted |-> FALSE]
    /\ runs = <<>>
    /\ jobs = <<>>
    /\ results = <<>>
    /\ shown = [p \in Processors |-> None]
    /\ workers = [w \in Workers |-> Idle]
    /\ edit = NoEdit
    /\ order = NoOrder
    /\ batches = <<>>
    /\ edits = 0
    /\ deletes = 0
    /\ crashes = 0
    /\ stalls = 0

-----------------------------------------------------------------------------
(* Binding inputs and queueing runs: enqueueProcessorRun                   *)

\* The results of u that p may read: not stale, and complete unless p accepts
\* partial ones.  rows holds the results the transaction sees.
FeedsWithoutPartialCheck(u, p, rows) ==
    {r \in DOMAIN rows : runs[rows[r].run].processor = u /\ ~rows[r].stale}
Feeds(u, p, rows) ==
    {r \in DOMAIN rows :
        /\ runs[rows[r].run].processor = u
        /\ ~rows[r].stale
        /\ rows[r].partial => p \in AcceptsPartial}

Newest(S) == CHOOSE n \in S : \A m \in S : m <= n

\* The temporal context of an input comes from the inputs of the run behind it.
Grounded(run) == run.text # None \/ run.inputs # {}

Available(p, rows) ==
    \A u \in Upstream[p] :
        /\ Feeds(u, p, rows) # {}
        /\ Grounded(runs[rows[Newest(Feeds(u, p, rows))].run])

\* loadSourceInputs.
Inputs(p, text, rows) ==
    [text |-> IF p \in Readers /\ ~source.deleted THEN text ELSE None,
     inputs |-> {Newest(Feeds(u, p, rows)) : u \in Upstream[p]}]

\* The newest run of p already binds the same inputs, whatever became of it.
UpToDate(p, basis, rows) ==
    \E i \in DOMAIN rows :
        /\ rows[i].processor = p
        /\ \A j \in DOMAIN rows : rows[j].processor = p => j <= i
        /\ rows[i].text = basis.text
        /\ rows[i].inputs = basis.inputs

QueuedRun(p, basis, batch) ==
    [processor |-> p, status |-> "queued", error |-> "none",
     text |-> basis.text, inputs |-> basis.inputs, batch |-> batch]

\* One run and one job for each processor in the domain of basis, appended to
\* the rows the transaction has written so far.
Queue(basis, rows, batch) ==
    \E queue \in SetToSeqs(DOMAIN basis) :
        /\ runs' = rows \o [k \in DOMAIN queue |->
                               QueuedRun(queue[k], basis[queue[k]], batch)]
        /\ jobs' = jobs \o [k \in DOMAIN queue |-> NewJob]

\* The inputs of those processors of S that have to run again.
Outdated(S, text, rows, published) ==
    LET changed == {p \in S : ~UpToDate(p, Inputs(p, text, published), rows)}
    IN [p \in changed |-> Inputs(p, text, published)]

\* Only queued and running runs can be canceled.
CancelRunning(S) ==
    [i \in Attempts |-> IF i \in S /\ runs[i].status = "running"
                        THEN [runs[i] EXCEPT !.status = "canceled"] ELSE runs[i]]
Cancel(S) ==
    [i \in Attempts |-> IF i \in S /\ Pending(runs[i])
                        THEN [runs[i] EXCEPT !.status = "canceled"] ELSE runs[i]]

-----------------------------------------------------------------------------
(* The owner edits, deletes and restores the contribution                  *)

\* The runs that depend on those in S through recorded inputs: the recursive
\* query of invalidateProcessorDependents.
DirectlyImpacted(S) == S
EverythingImpacted(S) == Attempts
Impacted(S) ==
    LET Closed(X) == \A i \in Attempts :
                        (\E r \in runs[i].inputs : results[r].run \in X) => i \in X
    IN {i \in Attempts : \A X \in SUBSET Attempts : S \subseteq X /\ Closed(X) => i \in X}

\* JournalService.edit up to the traversal: the contribution is locked, the
\* new revision is not yet visible to anyone else.
BeginEdit ==
    LET direct == {i \in Attempts : runs[i].text = source.revision}
        impacted == Impacted(direct)
    IN /\ ~edit.open
       /\ ~source.deleted
       /\ edits < MaxEdits
       /\ edit' = [open |-> TRUE,
                   direct |-> {runs[i].processor : i \in direct},
                   runs |-> impacted,
                   results |-> {r \in DOMAIN results : results[r].run \in impacted}]
       /\ edits' = edits + 1
       /\ UNCHANGED <<source, runs, jobs, results, shown, workers, order, batches,
                      deletes, crashes, stalls>>

Staled == [r \in DOMAIN results |->
              [results[r] EXCEPT !.stale = @ \/ r \in edit.results]]

\* Generated artifacts whose active version comes from such a result are
\* deactivated.
DeactivatedNone == shown
DeactivatedAll == [p \in Processors |-> None]
Deactivated ==
    [p \in Processors |-> IF shown[p] \in edit.results THEN None ELSE shown[p]]

\* The rest of invalidateProcessorDependents: stale the results, deactivate
\* their artifacts, cancel the unfinished runs and queue replacements.
CommitEdit ==
    LET text == source.revision + 1
        rows == Cancel(edit.runs)
    IN /\ edit.open
       /\ \A p \in edit.direct : Available(p, Staled)
       /\ source' = [source EXCEPT !.revision = text]
       /\ results' = Staled
       /\ shown' = Deactivated
       /\ Queue(Outdated(edit.direct, text, rows, Staled), rows, None)
       /\ edit' = NoEdit
       /\ UNCHANGED <<workers, order, batches, bounds>>

\* A replacement whose inputs are unavailable raises: the whole edit is rolled
\* back and refused.
RefuseEdit ==
    /\ edit.open
    /\ \E p \in edit.direct : ~Available(p, Staled)
    /\ edit' = NoEdit
    /\ UNCHANGED <<source, runs, jobs, results, shown, workers, order, batches,
                   bounds>>

\* The contribution row is locked by an edit in progress.
Delete ==
    /\ ~edit.open
    /\ ~source.deleted
    /\ deletes < MaxDeletes
    /\ source' = [source EXCEPT !.deleted = TRUE]
    /\ deletes' = deletes + 1
    /\ UNCHANGED <<runs, jobs, results, shown, workers, edit, order, batches,
                   edits, crashes, stalls>>

Restore ==
    /\ ~edit.open
    /\ source.deleted
    /\ source' = [source EXCEPT !.deleted = FALSE]
    /\ UNCHANGED <<runs, jobs, results, shown, workers, edit, order, batches,
                   bounds>>

-----------------------------------------------------------------------------
(* Reprocessing batches                                                    *)

\* ReprocessingService.start up to the point where the inputs are read.
BeginBatch(S) ==
    /\ ~Ordering
    /\ Len(batches) < MaxBatches
    /\ \A p \in S : Available(p, results)
    /\ order' = [p \in S |-> Inputs(p, source.revision, results)]
    /\ UNCHANGED <<source, runs, jobs, results, shown, workers, edit, batches,
                   bounds>>

\* The rest of it: a batch always queues a run, even for inputs that were
\* processed before.
CommitBatch ==
    /\ Ordering
    /\ batches' = Append(batches, "active")
    /\ Queue(order, runs, Len(batches) + 1)
    /\ order' = NoOrder
    /\ UNCHANGED <<source, results, shown, workers, edit, bounds>>

\* ReprocessingService.cancel.
CancelBatch(b) ==
    /\ batches[b] = "active"
    /\ batches' = [batches EXCEPT ![b] = "canceled"]
    /\ runs' = Cancel({i \in Attempts : runs[i].batch = b})
    /\ UNCHANGED <<source, jobs, results, shown, workers, edit, order, bounds>>

OwnerStep ==
    \/ BeginEdit \/ CommitEdit \/ RefuseEdit \/ Delete \/ Restore
    \/ \E S \in Selections : BeginBatch(S)
    \/ CommitBatch
    \/ \E b \in DOMAIN batches : CancelBatch(b)

-----------------------------------------------------------------------------
(* The worker: registerQueueWorker around ProcessorJobHandler              *)

Goto(w, pc) == workers' = [workers EXCEPT ![w].pc = pc]

Report(w, outcome) ==
    workers' = [workers EXCEPT ![w] = [@ EXCEPT !.pc = "report", !.outcome = outcome]]

FailWith(w, error) ==
    workers' = [workers EXCEPT ![w] = [@ EXCEPT !.pc = "fail", !.error = error]]

Fetch(w, i) ==
    /\ workers[w].pc = "idle"
    /\ jobs[i].state \in {"created", "retry"}
    /\ jobs' = [jobs EXCEPT ![i] =
                   [state |-> "active",
                    retries |-> @.retries + (IF @.state = "retry" THEN 1 ELSE 0)]]
    /\ workers' = [workers EXCEPT ![w] = [Idle EXCEPT !.pc = "load", !.run = i]]
    /\ UNCHANGED <<source, runs, results, shown, edit, order, batches, bounds>>

\* A bound source is deleted, or a bound result is stale.  That the bound
\* revision of the text is still the current one is not asked.
InputsGone(run) ==
    \/ run.text # None /\ source.deleted
    \/ \E r \in run.inputs : results[r].stale

Concluded(run) ==
    run.status \in {"succeeded", "canceled"} \/ run.error = "final"

\* ProcessorJobHandler.load.
Load(w) ==
    LET run == runs[workers[w].run]
    IN /\ workers[w].pc = "load"
       /\ \/ InputsGone(run) /\ Goto(w, "cancel")
          \/ /\ ~InputsGone(run)
             /\ Concluded(run) \/ workers[w].expired
             /\ Report(w, "completed")
          \/ /\ ~InputsGone(run)
             /\ ~Concluded(run)
             /\ ~workers[w].expired
             /\ Goto(w, "mark")
       /\ UNCHANGED <<source, runs, jobs, results, shown, edit, order, batches,
                      bounds>>

\* ProcessorRuntimeRepository.markCanceled, from load and from an aborted
\* execution.
MarkCanceled(w) ==
    /\ workers[w].pc = "cancel"
    /\ runs' = Cancel({workers[w].run})
    /\ Report(w, "completed")
    /\ UNCHANGED <<source, jobs, results, shown, edit, order, batches, bounds>>

\* ProcessorRuntimeRepository.markRunning: a run that is neither queued nor
\* failed ends the delivery as canceled.
StartableAnyway(run) == TRUE
Startable(run) == run.status \in {"queued", "failed"}

MarkRunning(w) ==
    LET i == workers[w].run
    IN /\ workers[w].pc = "mark"
       /\ IF Startable(runs[i])
          THEN /\ runs' = [runs EXCEPT ![i] = [@ EXCEPT !.status = "running",
                                                       !.error = "none"]]
               /\ Goto(w, "generate")
          ELSE Report(w, "completed") /\ UNCHANGED runs
       /\ UNCHANGED <<source, jobs, results, shown, edit, order, batches, bounds>>

\* The provider call and the validation of its output.
Generate(w) ==
    /\ workers[w].pc = "generate"
    /\ \/ workers[w].expired /\ Goto(w, "cancel")
       \/ ~workers[w].expired /\ Goto(w, "complete")
       \/ /\ ~workers[w].expired
          /\ \E error \in {"retryable", "final"} : FailWith(w, error)
    /\ UNCHANGED <<source, runs, jobs, results, shown, edit, order, batches, bounds>>

Dependents(p) == {q \in Processors : p \in Upstream[q]}

Succeeded(i) == [runs EXCEPT ![i].status = "succeeded"]

\* The result, its artifact and the runs it makes necessary, in one transaction.
\* The same payload leaves the active artifact version as it is.
Publish(i, result) ==
    LET p == runs[i].processor
        published == Append(results, result)
    IN /\ results' = published
       /\ \/ shown' = [shown EXCEPT ![p] = Len(published)]
          \/ shown[p] # None /\ UNCHANGED shown
       /\ Queue(Outdated(Dependents(p), source.revision, Succeeded(i), published),
                Succeeded(i), None)

\* ProcessorRuntimeRepository.complete.  A dependent processor without all of
\* its inputs raises and rolls the completion back.
Complete(w) ==
    LET i == workers[w].run
        p == runs[i].processor
    IN /\ workers[w].pc = "complete"
       /\ \/ /\ runs[i].status = "succeeded"
             /\ Report(w, "completed")
             /\ UNCHANGED <<runs, jobs, results, shown>>
          \/ /\ runs[i].status \notin {"running", "succeeded"}
             /\ FailWith(w, "retryable")
             /\ UNCHANGED <<runs, jobs, results, shown>>
          \/ /\ runs[i].status = "running"
             /\ \E partial \in BOOLEAN :
                  LET result == [run |-> i, partial |-> partial, stale |-> FALSE]
                  IN IF \A q \in Dependents(p) :
                            Available(q, Append(results, result))
                     THEN Publish(i, result) /\ Report(w, "completed")
                     ELSE /\ FailWith(w, "retryable")
                          /\ UNCHANGED <<runs, jobs, results, shown>>
       /\ UNCHANGED <<source, edit, order, batches, bounds>>

\* ProcessorRuntimeRepository.markFailed and the QueueJobError thrown after it.
FailableUnlessSucceeded(run) == run.status # "succeeded"
FailableIfQueued(run) == run.status = "queued"
Failable(run) == run.status = "running"

MarkFailed(w) ==
    LET i == workers[w].run
        error == workers[w].error
    IN /\ workers[w].pc = "fail"
       /\ runs' = IF Failable(runs[i])
                  THEN [runs EXCEPT ![i] = [@ EXCEPT !.status = "failed",
                                                     !.error = error]]
                  ELSE runs
       /\ Report(w, IF error = "final" THEN "permanent" ELSE "transient")
       /\ UNCHANGED <<source, jobs, results, shown, edit, order, batches, bounds>>

RequeueWithoutLimit(i) == jobs' = [jobs EXCEPT ![i].state = "retry"]
Requeue(i) ==
    jobs' = [jobs EXCEPT ![i].state = IF jobs[i].retries < RetryLimit
                                      THEN "retry" ELSE "failed"]

\* pg-boss settles the job only while it is active, and no longer listens to a
\* handler whose job has expired in this process.
Settle(w) ==
    LET i == workers[w].run
        outcome == workers[w].outcome
    IN /\ workers[w].pc = "report"
       /\ IF jobs[i].state # "active" \/ workers[w].expired
          THEN UNCHANGED jobs
          ELSE \/ /\ outcome = "completed"
                  /\ jobs' = [jobs EXCEPT ![i].state = "completed"]
               \/ outcome = "transient" /\ Requeue(i)
               \/ /\ outcome = "permanent"
                  /\ jobs' = [jobs EXCEPT ![i].state = "failed"]
       /\ workers' = [workers EXCEPT ![w] = Idle]
       /\ UNCHANGED <<source, runs, results, shown, edit, order, batches, bounds>>

WorkerStep(w) ==
    \/ Load(w) \/ MarkCanceled(w) \/ MarkRunning(w) \/ Generate(w)
    \/ Complete(w) \/ MarkFailed(w) \/ Settle(w)

-----------------------------------------------------------------------------
(* Faults                                                                  *)

Crashing ==
    crashes < MaxCrashes /\ crashes' = crashes + 1 /\ UNCHANGED <<edits, deletes, stalls>>
Stalling ==
    stalls < MaxStalls /\ stalls' = stalls + 1 /\ UNCHANGED <<edits, deletes, crashes>>

\* The process dies with its delivery; the job stays active until reclaimed.
Crash(w) ==
    /\ Crashing
    /\ workers[w].pc # "idle"
    /\ workers' = [workers EXCEPT ![w] = Idle]
    /\ UNCHANGED <<source, runs, jobs, results, shown, edit, order, batches>>

\* The job's time limit passes in the process that runs it.
Expire(w) ==
    /\ Stalling
    /\ workers[w].pc # "idle"
    /\ ~workers[w].expired
    /\ IF jobs[workers[w].run].state = "active" THEN Requeue(workers[w].run)
                                                ELSE UNCHANGED jobs
    /\ workers' = [workers EXCEPT ![w].expired = TRUE]
    /\ UNCHANGED <<source, runs, results, shown, edit, order, batches>>

\* Supervision sees no heartbeat of a delivery that is in fact still running.
LoseHeartbeat(i) ==
    /\ Stalling
    /\ jobs[i].state = "active"
    /\ \E w \in Workers : workers[w].run = i
    /\ Requeue(i)
    /\ UNCHANGED <<source, runs, results, shown, workers, edit, order, batches>>

\* A statement of the handler fails and its transaction is rolled back.  Inside
\* execute's try block the error goes to markFailed, elsewhere to the queue.
StatementFails(w) ==
    /\ Crashing
    /\ \/ workers[w].pc \in {"load", "cancel", "fail"} /\ Report(w, "transient")
       \/ workers[w].pc \in {"mark", "complete"} /\ FailWith(w, "retryable")
    /\ UNCHANGED <<source, runs, jobs, results, shown, edit, order, batches>>

\* Supervision returns the job of a dead process to the queue.
Reclaim(i) ==
    /\ jobs[i].state = "active"
    /\ \A w \in Workers : workers[w].run # i
    /\ Requeue(i)
    /\ UNCHANGED <<source, runs, results, shown, workers, edit, order, batches, bounds>>

FaultStep ==
    \/ \E w \in Workers : Crash(w) \/ Expire(w) \/ StatementFails(w)
    \/ \E i \in Attempts : LoseHeartbeat(i)

-----------------------------------------------------------------------------
FetchAny == \E w \in Workers, i \in Attempts : Fetch(w, i)
ReclaimAny == \E i \in Attempts : Reclaim(i)

Next ==
    \/ OwnerStep
    \/ FetchAny
    \/ \E w \in Workers : WorkerStep(w)
    \/ ReclaimAny
    \/ FaultStep

Spec == Init /\ [][Next]_vars

\* Worker processes keep polling and executing and pg-boss supervises the queue.
\* A transaction that was begun ends.  Nothing obliges the owner to begin one.
Fairness ==
    /\ \A w \in Workers : WF_vars(WorkerStep(w))
    /\ WF_vars(FetchAny) /\ WF_vars(ReclaimAny)
    /\ WF_vars(CommitEdit \/ RefuseEdit)
    /\ WF_vars(CommitBatch)

FairSpec == Spec /\ Fairness
-----------------------------------------------------------------------------
(* Properties                                                              *)

\* The shape of the rows, the jobs and the deliveries; references point to rows
\* that exist.
TypeOK ==
    /\ source \in [revision : Nat \ {0}, deleted : BOOLEAN]
    /\ runs \in Seq(Run)
    /\ jobs \in Seq(Job)
    /\ Len(jobs) = Len(runs)
    /\ results \in Seq(Result)
    /\ \A r \in DOMAIN results : results[r].run \in Attempts
    /\ shown \in [Processors -> Nat]
    /\ workers \in [Workers -> Delivery]
    /\ \A w \in Workers : workers[w].pc # "idle" => workers[w].run \in Attempts
    /\ edit \in [open : BOOLEAN, direct : SUBSET Processors,
                 runs : SUBSET (Nat \ {0}), results : SUBSET (Nat \ {0})]
    /\ DOMAIN order \subseteq Processors
    /\ \A p \in DOMAIN order : order[p] \in Basis
    /\ batches \in Seq({"active", "canceled"})
    /\ edits \in 0..MaxEdits
    /\ deletes \in 0..MaxDeletes
    /\ crashes \in 0..MaxCrashes
    /\ stalls \in 0..MaxStalls

\* A run has published exactly one result if it succeeded and none otherwise,
\* however often its job is delivered and whoever cancels it meanwhile.
PublishedOnce ==
    /\ \A r \in DOMAIN results : runs[results[r].run].status = "succeeded"
    /\ \A r, s \in DOMAIN results : results[r].run = results[s].run => r = s
    /\ \A i \in Attempts :
         runs[i].status = "succeeded" => \E r \in DOMAIN results : results[r].run = i

\* A success or a cancellation is final: no late or repeated delivery takes a
\* run out of it.
SettledRunsStay ==
    [][\A i \in Attempts :
         runs[i].status \in {"succeeded", "canceled"} =>
             runs'[i].status = runs[i].status]_vars

\* A run that waits for its first execution is never abandoned by the queue:
\* its job is completed only after the run has left the queued state.
QueuedRunsKeepTheirJob ==
    \A i \in Attempts : runs[i].status = "queued" => jobs[i].state # "completed"

\* The artifact a processor shows comes from a result of that processor that
\* has not been made stale.
ShownIsFresh ==
    \A p \in Processors : shown[p] # None =>
        /\ shown[p] \in DOMAIN results
        /\ runs[results[shown[p]].run].processor = p
        /\ ~results[shown[p]].stale

\* A run binds results of the processors it depends on only, and a partial one
\* only if its processor accepts partial inputs, whichever of a batch, an edit
\* and the completion of an upstream run queued it.
InputsAreAccepted ==
    \A i \in Attempts : \A r \in runs[i].inputs :
        /\ r \in DOMAIN results
        /\ runs[results[r].run].processor \in Upstream[runs[i].processor]
        /\ results[r].partial => runs[i].processor \in AcceptsPartial

\* The revisions of the text a result was derived from, directly or through
\* the results it read.
Texts ==
    LET texts[r \in DOMAIN results] ==
            LET run == runs[results[r].run]
            IN ({run.text} \ {None}) \cup UNION {texts[i] : i \in run.inputs}
    IN texts

\* "Only" half of targeted invalidation: a stale result descends from a
\* revision of the text that was replaced.
StaleIsOutdated ==
    \A r \in DOMAIN results :
        results[r].stale => \E t \in Texts[r] : t < source.revision

\* "All" half: what descends from a replaced revision is stale.  It holds when
\* no transaction overlaps an edit and no failed run is retried after one.
OutdatedIsStale ==
    \A r \in DOMAIN results :
        ~results[r].stale => \A t \in Texts[r] : t = source.revision

\* Refinement: readers of the day see the derived results of DerivedResults.
Derived == INSTANCE DerivedResults WITH
    history <- [r \in DOMAIN results |-> runs[results[r].run].processor],
    withdrawn <- {r \in DOMAIN results : results[r].stale},
    visible <- shown
DerivedSpec == Derived!DerivedSpec

\* When no worker dies, every run that was queued is concluded, by a result, a
\* failure or a cancellation, although deliveries may expire and overlap.
RunsConclude ==
    []<>(\A i \in Attempts : ~Pending(runs[i]) \/ jobs[i].state = "failed")

-----------------------------------------------------------------------------
(* What the documents promise and the code does not keep                   *)

\* Fault-testing document: stale data cannot become current through a retry.
PublishedFromCurrentText ==
    [][\A i \in Attempts :
         (runs[i].status = "running" /\ runs'[i].status = "succeeded") =>
             runs[i].text \in {None, source.revision}]_vars

\* ADR-0007 and the fault matrix: abandoned work returns to processing.  A run
\* that is still queued or running has a job that will still execute it.
NoStrandedRun == \A i \in Attempts : Pending(runs[i]) => ~SettledJob(i)
=============================================================================
