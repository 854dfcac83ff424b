-------------------------- MODULE TranscriptCleanup --------------------------
(* Corrections of a recording's transcript and the cleaned text that is made *)
(* from each of them.                                                        *)
(*                                                                           *)
(* One recording.  Its corrected transcript has a first revision, made from  *)
(* the speech, and one more for each correction; the prompt and its          *)
(* configuration never change.                                               *)
EXTENDS Absence, Integers, Sequences, FiniteSets

CONSTANTS
    Inspectors,     \* pages that show the transcript
    Handlers,       \* requests that run at once
    Cleaners,       \* deliveries of cleanup jobs that run at once
    MaxCorrections, \* bound: corrections a page sends
    MaxCleanups,    \* bound: runs
    MaxDeliveries   \* bound: deliveries of jobs

VARIABLES
    corrected,    \* sequence of the corrections, [saw, key] each
    cleaned,      \* sequence of the cleaned revisions, [source, run, stale] each
    cleanups,     \* sequence of the runs and their jobs
    cleaners,     \* [Cleaners -> None or the delivery that is under way]
    inspectors,   \* [Inspectors -> what the page shows and its pending request]
    handlers,     \* [Handlers -> None or a request that has been checked]
    editKeys,     \* keys in the ledger of idempotent requests
    deliveries    \* spent of the bound

cleanupVars == <<corrected, cleaned, cleanups, cleaners, inspectors, handlers, editKeys, deliveries>>

-----------------------------------------------------------------------------
(* The rows.                                                                 *)

CleanupRun(source, attempt) ==
    [source |-> source, attempt |-> attempt, status |-> "queued", retryable |-> FALSE,
     stale |-> FALSE, job |-> "waiting"]

\* A mutant takes the input a run was made for to be the current one.
Assumed(i) == TRUE

\* The rows of the run, its revision and the transcript are locked together.
SourceIsCurrent(i) == cleanups[i].source = Len(corrected)

Latest(source) ==
    CHOOSE i \in DOMAIN cleanups :
        /\ cleanups[i].source = source
        /\ \A j \in DOMAIN cleanups : cleanups[j].source = source
                                         => cleanups[j].attempt <= cleanups[i].attempt

\* The page offers a retry when the latest run has failed for a while or was canceled.
MapCleanupRun(i) ==
    \/ cleanups[i].status = "failed" /\ cleanups[i].retryable
    \/ cleanups[i].status = "canceled"

\* Runs that wait or run are canceled, and those that succeeded are stale; a
\* failed one is left alone.
InvalidateRuns(source) ==
    [i \in DOMAIN cleanups |->
        IF cleanups[i].source # source THEN cleanups[i]
        ELSE CASE cleanups[i].status \in {"queued", "running"} ->
                     [cleanups[i] EXCEPT !.status = "canceled"]
               [] cleanups[i].status = "succeeded" -> [cleanups[i] EXCEPT !.stale = TRUE]
               [] OTHER -> cleanups[i]]

InvalidateRevisions(source) ==
    [n \in DOMAIN cleaned |->
        IF cleaned[n].source = source THEN [cleaned[n] EXCEPT !.stale = TRUE] ELSE cleaned[n]]

-----------------------------------------------------------------------------
(* The owner's pages and the requests they send.                             *)

\* After an answer, a refusal or a request that nobody answers too.
Reread(p) == [inspectors EXCEPT ![p].key = None, ![p].revision = Len(corrected)]

Inspect(p) ==
    /\ inspectors[p].key = None
    /\ inspectors' = Reread(p)
    /\ UNCHANGED <<corrected, cleaned, cleanups, cleaners, handlers, editKeys, deliveries>>

RequestKey(p) == <<p, inspectors[p].sent + 1>>

\* A draft is sent with the revision that is shown then, which a refetch may have
\* replaced since the owner began to write, and with a key of its own.
SendCorrection(p) ==
    /\ inspectors[p].key = None
    /\ inspectors[p].revision > 0
    /\ inspectors[p].sent < MaxCorrections
    /\ inspectors' = [inspectors EXCEPT ![p].key = RequestKey(p), ![p].sent = @ + 1]
    /\ UNCHANGED <<corrected, cleaned, cleanups, cleaners, handlers, editKeys, deliveries>>

\* The headers and the body of the request: its key and the revision it expects.
Received(p) == [page |-> p, key |-> inspectors[p].key, expected |-> inspectors[p].revision]

Replayed(key) == key \in editKeys

\* The ledger, the revision and the configuration are read without a lock; the
\* same request may arrive twice.
EditCorrected(h, p) ==
    /\ handlers[h] = None
    /\ inspectors[p].key # None
    /\ IF Replayed(inspectors[p].key) \/ inspectors[p].revision # Len(corrected)
       THEN inspectors' = Reread(p) /\ UNCHANGED handlers
       ELSE /\ handlers' = [handlers EXCEPT ![h] = Received(p)]
            /\ UNCHANGED inspectors
    /\ UNCHANGED <<corrected, cleaned, cleanups, cleaners, editKeys, deliveries>>

\* The run and its job are written in the transaction that asks for them.
QueueCleanup(before, source, attempt) == Append(before, CleanupRun(source, attempt))

\* The transcript is locked and compared with what the request was checked for;
\* an entry of the ledger that is there already undoes the whole transaction.  The
\* answer may be lost, and the request arrive again with its key.
AppendCorrectedTranscriptRevision(h) ==
    /\ handlers[h] # None
    /\ LET work == handlers[h]
       IN  /\ IF /\ work.expected = Len(corrected)
                 /\ ~Replayed(work.key)
                 /\ Len(cleanups) < MaxCleanups
              THEN /\ corrected' = Append(corrected, [saw |-> work.expected, key |-> work.key])
                   /\ cleaned' = InvalidateRevisions(work.expected)
                   /\ cleanups' = QueueCleanup(InvalidateRuns(work.expected),
                                               Len(corrected) + 1, 1)
                   /\ editKeys' = editKeys \cup {work.key}
              ELSE UNCHANGED <<corrected, cleaned, cleanups, editKeys>>
           /\ \/ /\ inspectors[work.page].key = work.key
                 /\ inspectors' = [inspectors EXCEPT ![work.page].key = None,
                                                     ![work.page].revision = Len(corrected')]
              \/ UNCHANGED inspectors
    /\ handlers' = [handlers EXCEPT ![h] = None]
    /\ UNCHANGED <<cleaners, deliveries>>

AsksForRetry(p) == inspectors[p].key = None /\ inspectors[p].revision > 0

\* The source is locked, must be current, and its latest run must have ended.
RetryCleanup(p) ==
    /\ AsksForRetry(p)
    /\ inspectors[p].revision = Len(corrected)
    /\ LET latest == Latest(Len(corrected))
       IN  /\ MapCleanupRun(latest)
           /\ Len(cleanups) < MaxCleanups
           /\ cleanups' = QueueCleanup(cleanups, Len(corrected), cleanups[latest].attempt + 1)
    /\ UNCHANGED <<corrected, cleaned, cleaners, inspectors, handlers, editKeys, deliveries>>

-----------------------------------------------------------------------------
(* The worker.                                                               *)

\* Whether a failure of the provider or the storage may pass; an answer that is
\* not of the form asked for will not.
Classify == BOOLEAN

FailedForGood(i) == cleanups[i].status = "failed" /\ ~cleanups[i].retryable

\* A run that has concluded is not run again.  The correction that superseded a
\* source has canceled its runs but those that failed, and canceling one of them
\* here fails: the database refuses a canceled run with an error.
Load(c, i) ==
    /\ cleaners[c] = None
    /\ cleanups[i].job = "waiting"
    /\ deliveries < MaxDeliveries
    /\ deliveries' = deliveries + 1
    /\ \/ /\ \/ cleanups[i].status \in {"succeeded", "canceled"}
             \/ FailedForGood(i) /\ SourceIsCurrent(i)
          /\ cleanups' = [cleanups EXCEPT ![i].job = "done"]
          /\ UNCHANGED cleaners
       \/ /\ cleanups[i].status = "failed"
          /\ ~SourceIsCurrent(i)
          /\ UNCHANGED <<cleanups, cleaners>>
       \/ /\ cleanups[i].status \notin {"succeeded", "canceled"}
          /\ ~FailedForGood(i)
          /\ SourceIsCurrent(i)
          /\ cleanups' = [cleanups EXCEPT ![i].job = "active"]
          /\ cleaners' = [cleaners EXCEPT ![c] = [run |-> i, phase |-> "loaded"]]
    /\ UNCHANGED <<corrected, cleaned, inspectors, handlers, editKeys>>

\* What becomes of the job when the delivery ends, if no other one has begun.
Job(i, end) == IF cleanups[i].job = "active" THEN end ELSE cleanups[i].job

Ended(c) == cleaners' = [cleaners EXCEPT ![c] = None]

\* A run that has succeeded cannot be running again, and the job is repeated; one
\* whose source was superseded is canceled in a transaction that is undone.
MarkRunning(c) ==
    /\ cleaners[c] # None
    /\ cleaners[c].phase = "loaded"
    /\ LET i == cleaners[c].run
       IN  IF SourceIsCurrent(i) /\ cleanups[i].status # "succeeded"
           THEN /\ cleanups' = [cleanups EXCEPT ![i].status = "running", ![i].retryable = FALSE]
                /\ cleaners' = [cleaners EXCEPT ![c].phase = "running"]
           ELSE /\ cleanups' = [cleanups EXCEPT ![i].job =
                                   Job(i, IF SourceIsCurrent(i) THEN "waiting" ELSE "done")]
                /\ Ended(c)
    /\ UNCHANGED <<corrected, cleaned, inspectors, handlers, editKeys, deliveries>>

\* The provider has answered and its answer is stored.
Complete(c) ==
    /\ cleaners[c] # None
    /\ cleaners[c].phase = "running"
    /\ LET i == cleaners[c].run
       IN  IF cleanups[i].status # "succeeded" /\ SourceIsCurrent(i)
           THEN /\ cleaned' = Append(cleaned,
                                     [source |-> cleanups[i].source, run |-> i, stale |-> FALSE])
                /\ cleanups' = [cleanups EXCEPT ![i].status = "succeeded",
                                                ![i].retryable = FALSE,
                                                ![i].job = Job(i, "done")]
           ELSE /\ cleanups' = [cleanups EXCEPT ![i].job = Job(i, "done")]
                /\ UNCHANGED cleaned
    /\ Ended(c)
    /\ UNCHANGED <<corrected, inspectors, handlers, editKeys, deliveries>>

\* The provider or the storage has failed.  Only a success is not overwritten.
MarkFailed(c) ==
    /\ cleaners[c] # None
    /\ cleaners[c].phase = "running"
    /\ LET i == cleaners[c].run
       IN  \E retryable \in Classify :
              cleanups' = [cleanups EXCEPT
                  ![i].status = IF @ = "succeeded" THEN @ ELSE "failed",
                  ![i].retryable = IF cleanups[i].status = "succeeded" THEN @ ELSE retryable,
                  ![i].job = Job(i, IF retryable THEN "waiting" ELSE "done")]
    /\ Ended(c)
    /\ UNCHANGED <<corrected, cleaned, inspectors, handlers, editKeys, deliveries>>

\* The worker is told to stop: its job counts as done and its run stays running.
Abort(c) ==
    /\ cleaners[c] # None
    /\ cleanups' = [cleanups EXCEPT ![cleaners[c].run].job = Job(cleaners[c].run, "done")]
    /\ Ended(c)
    /\ UNCHANGED <<corrected, cleaned, inspectors, handlers, editKeys, deliveries>>

Execute(c) ==
    \/ MarkRunning(c)
    \/ Complete(c)
    \/ MarkFailed(c)
    \/ Abort(c)

\* A job that takes too long is delivered again while the first delivery goes on.
Expire(i) ==
    /\ cleanups[i].job = "active"
    /\ cleanups' = [cleanups EXCEPT ![i].job = "waiting"]
    /\ UNCHANGED <<corrected, cleaned, cleaners, inspectors, handlers, editKeys, deliveries>>

-----------------------------------------------------------------------------
CleanupInit ==
    /\ corrected = <<[saw |-> 0, key |-> None]>>
    /\ cleaned = << >>
    /\ cleanups = <<CleanupRun(1, 1)>>
    /\ cleaners = [c \in Cleaners |-> None]
    /\ inspectors = [p \in Inspectors |-> [revision |-> 0, key |-> None, sent |-> 0]]
    /\ handlers = [h \in Handlers |-> None]
    /\ editKeys = {}
    /\ deliveries = 0

CleanupNext ==
    \/ \E p \in Inspectors :
          \/ Inspect(p)
          \/ SendCorrection(p)
          \/ RetryCleanup(p)
          \/ \E h \in Handlers : EditCorrected(h, p)
    \/ \E h \in Handlers : AppendCorrectedTranscriptRevision(h)
    \/ \E c \in Cleaners :
          \/ \E i \in DOMAIN cleanups : Load(c, i)
          \/ Execute(c)
    \/ \E i \in DOMAIN cleanups : Expire(i)

CleanupSpec == CleanupInit /\ [][CleanupNext]_cleanupVars

-----------------------------------------------------------------------------
\* A correction was written against its predecessor and once for each request,
\* however often the request arrived; a cleaned text is stale exactly if the
\* correction it was made from has been superseded, so that no text made late
\* from an old correction passes for the current one; a run has made one text
\* if it succeeded and none otherwise, however often it was delivered; and
\* nothing waits or runs for a correction that was superseded.
CorrectionsStand ==
    /\ \A n \in 2..Len(corrected) :
          /\ corrected[n].saw = n - 1
          /\ \A m \in 2..Len(corrected) : corrected[m].key = corrected[n].key => m = n
    /\ \A n \in DOMAIN cleaned : cleaned[n].stale = (cleaned[n].source < Len(corrected))
    /\ \A i \in DOMAIN cleanups :
          /\ Cardinality({n \in DOMAIN cleaned : cleaned[n].run = i})
                = (IF cleanups[i].status = "succeeded" THEN 1 ELSE 0)
          /\ cleanups[i].status \in {"queued", "running"} => SourceIsCurrent(i)
=============================================================================
