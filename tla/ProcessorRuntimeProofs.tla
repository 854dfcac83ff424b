----------------------- MODULE ProcessorRuntimeProofs -----------------------
(***************************************************************************)
(* Proofs about ProcessorRuntime, for any processors, acyclic or not,      *)
(* any number of workers and any bounds.  A step is described three times: *)
(* by what it does to the rows of the runs (Evolves), by what it does to   *)
(* the results and what is shown of them (Silent, Stales or PublishedBy),  *)
(* and by the deliveries.  The invariants follow from these descriptions   *)
(* without looking at the actions again.                                   *)
(*                                                                         *)
(* Everything but the last theorem is about Spec.  The last one is about   *)
(* SceneSpec of MCProcessorRuntime, whose serial scene says when targeted  *)
(* invalidation is complete; it does not depend on the small instance.     *)
(***************************************************************************)
EXTENDS MCProcessorRuntime, FiniteSetTheorems, WellFoundedInduction, TLAPS

-----------------------------------------------------------------------------
(* The inductive invariant                                                 *)

\* A run that waits for its first execution has no error.
QueuedClean == \A i \in Attempts : runs[i].status = "queued" => runs[i].error = "none"

\* A job that is to be retried has a retry left.
RetryInv ==
    \A i \in DOMAIN jobs : jobs[i].state = "retry" => jobs[i].retries < RetryLimit

\* A delivery that will complete its job has settled or started its run.
ReportsInv ==
    \A w \in Workers :
        (/\ workers[w].pc = "report"
         /\ workers[w].outcome = "completed"
         /\ ~workers[w].expired) => runs[workers[w].run].status # "queued"

\* These inputs are acceptable to p, as far as rows is the table of results.
Fed(p, inputs, rows) ==
    \A r \in inputs :
        /\ r \in DOMAIN rows
        /\ runs[rows[r].run].processor \in Upstream[p]
        /\ rows[r].partial => p \in AcceptsPartial

\* So are those a batch is about to bind.
OrderInv == \A p \in DOMAIN order : Fed(p, order[p].inputs, results)

\* An edit in progress has selected results that exist.
EditInv == edit.results \subseteq DOMAIN results

Inv ==
    /\ TypeOK
    /\ QueuedClean
    /\ RetryInv
    /\ ReportsInv
    /\ OrderInv
    /\ EditInv
    /\ PublishedOnce
    /\ QueuedRunsKeepTheirJob
    /\ ShownIsFresh
    /\ InputsAreAccepted

-----------------------------------------------------------------------------
(* Sequences and numbers                                                   *)

LEMMA AppendFacts ==
  ASSUME NEW S, NEW s \in Seq(S), NEW x \in S
  PROVE  /\ Append(s, x) \in Seq(S)
         /\ Len(Append(s, x)) = Len(s) + 1
         /\ \A i \in 1..Len(s) : Append(s, x)[i] = s[i]
         /\ Append(s, x)[Len(s) + 1] = x
  OBVIOUS

LEMMA ExceptFacts ==
  ASSUME NEW S, NEW s \in Seq(S), NEW i \in DOMAIN s, NEW x \in S
  PROVE  /\ [s EXCEPT ![i] = x] \in Seq(S)
         /\ Len([s EXCEPT ![i] = x]) = Len(s)
         /\ \A j \in DOMAIN s : j # i => [s EXCEPT ![i] = x][j] = s[j]
         /\ [s EXCEPT ![i] = x][i] = x
  OBVIOUS

\* A sequence followed by the values of a function on 1..n.
LEMMA ConcatFacts ==
  ASSUME NEW S, NEW s \in Seq(S), NEW n \in Nat, NEW f \in [1..n -> S]
  PROVE  /\ s \o f \in Seq(S)
         /\ Len(s \o f) = Len(s) + n
         /\ \A i \in 1..Len(s) : (s \o f)[i] = s[i]
         /\ \A i \in 1..n : (s \o f)[Len(s) + i] = f[i]
<1>1. f \in Seq(S) /\ Len(f) = n
  OBVIOUS
<1>2. QED
  BY <1>1

LEMMA DomainIsInterval ==
  ASSUME NEW S, NEW s \in Seq(S)
  PROVE  Len(s) \in Nat /\ DOMAIN s = 1..Len(s)
  OBVIOUS

Below == {pair \in Nat \X Nat : pair[1] < pair[2]}

LEMMA BelowWellFounded == IsWellFoundedOn(Below, Nat)
<1>1. OpToRel(<, Nat) = Below
  BY Zenon DEF OpToRel, Below
<1>2. QED
  BY <1>1, NatLessThanWellFounded, Zenon

\* A nonempty set of positions has a newest one.
LEMMA HasNewest ==
  ASSUME NEW n \in Nat, NEW S \in SUBSET (1..n), S # {}
  PROVE  Newest(S) \in S
<1> DEFINE T == {n - m : m \in S}
<1>1. T \subseteq Nat /\ T # {}
  <2>1. \A m \in S : m \in Nat /\ n - m \in Nat
    OBVIOUS
  <2>2. QED
    BY <2>1
<1>2. PICK x \in T : \A y \in T : ~(<<y, x>> \in Below)
  BY <1>1, BelowWellFounded, WFMin
<1>3. PICK k \in S : x = n - k
  OBVIOUS
<1>4. ASSUME NEW m \in S PROVE m <= k
  <2>1. n - m \in T
    OBVIOUS
  <2>2. ~(<<n - m, n - k>> \in Below)
    BY <1>2, <1>3, <2>1
  <2>3. QED
    BY <2>2 DEF Below
<1>5. QED
  BY <1>4 DEF Newest

-----------------------------------------------------------------------------
(* What a step does to the rows of the runs                                *)

\* A row keeps its identity and its inputs; a success or a cancellation stays,
\* and a row that is queued was not touched.
Evolved(a, b) ==
    /\ b.processor = a.processor /\ b.text = a.text
    /\ b.inputs = a.inputs /\ b.batch = a.batch
    /\ a.status \in {"succeeded", "canceled"} => b.status = a.status
    /\ b.status = "queued" => a.status = "queued" /\ b.error = a.error

\* No row becomes succeeded.
NoneSucceeds ==
    \A i \in Attempts : runs'[i].status = "succeeded" => runs[i].status = "succeeded"

\* rows is what a transaction makes of the rows it found.
Rewritten(rows) ==
    /\ rows \in Seq(Run)
    /\ Len(rows) = Len(runs)
    /\ \A i \in Attempts : Evolved(runs[i], rows[i])

LEMMA EvolvedItself == \A a : Evolved(a, a)
  BY DEF Evolved

LEMMA CancelRewrites ==
  ASSUME runs \in Seq(Run), NEW S
  PROVE  /\ Rewritten(Cancel(S))
         /\ \A i \in Attempts :
              /\ Cancel(S)[i].status = "succeeded" <=> runs[i].status = "succeeded"
              /\ i \in S => Cancel(S)[i].status # "queued"
<1>1. /\ DOMAIN Cancel(S) = Attempts
      /\ \A i \in Attempts :
           Cancel(S)[i] = IF i \in S /\ Pending(runs[i])
                          THEN [runs[i] EXCEPT !.status = "canceled"] ELSE runs[i]
  BY DEF Cancel
<1>2. \A i \in Attempts : runs[i] \in Run
  BY DEF Attempts
<1>3. \A i \in Attempts : [runs[i] EXCEPT !.status = "canceled"] \in Run
  BY <1>2 DEF Run
<1>4. ASSUME NEW i \in Attempts
      PROVE  /\ Cancel(S)[i] \in Run
             /\ Evolved(runs[i], Cancel(S)[i])
             /\ Cancel(S)[i].status = "succeeded" <=> runs[i].status = "succeeded"
             /\ i \in S => Cancel(S)[i].status # "queued"
  <2>1. CASE i \in S /\ Pending(runs[i])
    <3>1. Cancel(S)[i] = [runs[i] EXCEPT !.status = "canceled"]
      BY <1>1, <2>1
    <3>2. QED
      BY <1>2, <1>3, <2>1, <3>1 DEF Run, Evolved, Pending
  <2>2. CASE ~(i \in S /\ Pending(runs[i]))
    <3>1. Cancel(S)[i] = runs[i]
      BY <1>1, <2>2
    <3>2. QED
      BY <1>2, <2>2, <3>1 DEF Evolved, Pending
  <2>3. QED
    BY <2>1, <2>2
<1>5. Cancel(S) \in [1..Len(runs) -> Run]
  <2>1. Attempts = 1..Len(runs)
    BY DEF Attempts
  <2>2. Cancel(S) = [i \in Attempts |-> Cancel(S)[i]]
    BY <1>1 DEF Cancel
  <2>3. QED
    BY <1>4, <2>1, <2>2
<1>6. Cancel(S) \in Seq(Run) /\ Len(Cancel(S)) = Len(runs)
  BY <1>5
<1>7. QED
  BY <1>4, <1>6 DEF Rewritten

\* One row is replaced.
LEMMA RowRewrites ==
  ASSUME runs \in Seq(Run), NEW i \in Attempts, NEW r \in Run, Evolved(runs[i], r)
  PROVE  /\ Rewritten([runs EXCEPT ![i] = r])
         /\ [runs EXCEPT ![i] = r][i] = r
         /\ \A j \in Attempts : j # i => [runs EXCEPT ![i] = r][j] = runs[j]
<1>1. i \in DOMAIN runs
  BY DEF Attempts
<1>2. /\ [runs EXCEPT ![i] = r] \in Seq(Run)
      /\ Len([runs EXCEPT ![i] = r]) = Len(runs)
      /\ \A j \in DOMAIN runs : j # i => [runs EXCEPT ![i] = r][j] = runs[j]
      /\ [runs EXCEPT ![i] = r][i] = r
  BY <1>1, ExceptFacts
<1>3. ASSUME NEW j \in Attempts PROVE Evolved(runs[j], [runs EXCEPT ![i] = r][j])
  BY <1>2, EvolvedItself DEF Attempts
<1>4. QED
  BY <1>2, <1>3 DEF Rewritten, Attempts

\* The rows a worker writes.
LEMMA WorkerRows ==
  ASSUME NEW r \in Run
  PROVE  /\ LET b == [r EXCEPT !.status = "running", !.error = "none"]
            IN  b \in Run /\ b.status = "running"
                /\ (Startable(r) => Evolved(r, b))
         /\ \A e \in RunError :
              LET b == [r EXCEPT !.status = "failed", !.error = e]
              IN  b \in Run /\ b.status = "failed"
                  /\ (Failable(r) => Evolved(r, b))
         /\ LET b == [r EXCEPT !.status = "succeeded"]
            IN  b \in Run /\ b.status = "succeeded"
                /\ (r.status = "running" => Evolved(r, b))
<1>1. LET b == [r EXCEPT !.status = "running", !.error = "none"]
      IN  b \in Run /\ b.status = "running" /\ (Startable(r) => Evolved(r, b))
  BY DEF Run, RunError, Evolved, Startable
<1>2. ASSUME NEW e \in RunError
      PROVE  LET b == [r EXCEPT !.status = "failed", !.error = e]
             IN  b \in Run /\ b.status = "failed" /\ (Failable(r) => Evolved(r, b))
  BY DEF Run, Evolved, Failable
<1>3. LET b == [r EXCEPT !.status = "succeeded"]
      IN  b \in Run /\ b.status = "succeeded" /\ (r.status = "running" => Evolved(r, b))
  BY DEF Run, Evolved
<1>4. QED
  BY <1>1, <1>2, <1>3

-----------------------------------------------------------------------------
(* Inputs and queueing                                                     *)

\* The results a transaction sees are those of the table, with their runs.
Visible(rows) ==
    /\ rows \in Seq(Result)
    /\ \A r \in DOMAIN rows : rows[r].run \in Attempts

LEMMA FeedsAreResults ==
  ASSUME NEW rows, Visible(rows), NEW u, NEW p
  PROVE  Feeds(u, p, rows) \subseteq 1..Len(rows)
  BY DEF Feeds, Visible

\* Available inputs exist, and they are results p accepts.
LEMMA InputsTyped ==
  ASSUME TypeOK, NEW p \in Processors, NEW text \in Nat,
         NEW rows, Visible(rows), Available(p, rows)
  PROVE  /\ Inputs(p, text, rows) \in Basis
         /\ Fed(p, Inputs(p, text, rows).inputs, rows)
<1> DEFINE N(u) == Newest(Feeds(u, p, rows))
<1>1. Len(rows) \in Nat /\ DOMAIN rows = 1..Len(rows)
  BY DomainIsInterval DEF Visible
<1>2. ASSUME NEW u \in Upstream[p] PROVE N(u) \in Feeds(u, p, rows)
  <2>1. Feeds(u, p, rows) # {}
    BY <1>2 DEF Available
  <2>2. Feeds(u, p, rows) \in SUBSET (1..Len(rows))
    BY FeedsAreResults
  <2>3. QED
    BY <1>1, <2>1, <2>2, HasNewest
<1>3. ASSUME NEW u \in Upstream[p]
      PROVE  /\ N(u) \in DOMAIN rows
             /\ runs[rows[N(u)].run].processor = u
             /\ rows[N(u)].partial => p \in AcceptsPartial
  BY <1>2 DEF Feeds
<1>4. Inputs(p, text, rows).inputs = {N(u) : u \in Upstream[p]}
  BY DEF Inputs
<1>5. Fed(p, Inputs(p, text, rows).inputs, rows)
  BY <1>3, <1>4 DEF Fed
<1>6. {N(u) : u \in Upstream[p]} \in SUBSET (Nat \ {0})
  BY <1>1, <1>3
<1>7. (IF p \in Readers /\ ~source.deleted THEN text ELSE None) \in Nat
  BY DEF None
<1>8. Inputs(p, text, rows) \in Basis
  BY <1>6, <1>7 DEF Inputs, Basis
<1>9. QED
  BY <1>5, <1>8

LEMMA QueuedRunTyped ==
  ASSUME NEW p \in Processors, NEW b \in Basis, NEW k \in Nat
  PROVE  /\ QueuedRun(p, b, k) \in Run
         /\ QueuedRun(p, b, k).processor = p
         /\ QueuedRun(p, b, k).inputs = b.inputs
         /\ QueuedRun(p, b, k).status = "queued"
         /\ QueuedRun(p, b, k).error = "none"
  BY DEF QueuedRun, Run, RunError, Basis

LEMMA NewJobTyped == NewJob \in Job /\ NewJob.state = "created"
  BY LimitsAssumption DEF NewJob, Job

\* The rows and jobs after a transaction that wrote rows and queued runs.
Queued(basis, rows) ==
    /\ runs' \in Seq(Run)
    /\ jobs' \in Seq(Job)
    /\ Len(jobs') = Len(runs')
    /\ Len(rows) <= Len(runs')
    /\ \A i \in 1..Len(rows) : runs'[i] = rows[i] /\ jobs'[i] = jobs[i]
    /\ \A i \in DOMAIN runs' \ (1..Len(rows)) :
         \E p \in DOMAIN basis :
            /\ runs'[i].processor = p /\ runs'[i].inputs = basis[p].inputs
            /\ runs'[i].status = "queued" /\ runs'[i].error = "none"
            /\ jobs'[i] = NewJob

\* Rows to which as many new ones were appended.
LEMMA RowsAppended ==
  ASSUME NEW rows \in Seq(Run), NEW n \in Nat, NEW more \in [1..n -> Run]
  PROVE  /\ rows \o more \in Seq(Run)
         /\ Len(rows \o more) = Len(rows) + n
         /\ \A i \in 1..Len(rows) : (rows \o more)[i] = rows[i]
         /\ \A i \in 1..n : (rows \o more)[Len(rows) + i] = more[i]
  BY ConcatFacts

LEMMA QueueAppends ==
  ASSUME TypeOK, NEW rows \in Seq(Run), Len(rows) = Len(runs),
         NEW basis, DOMAIN basis \subseteq Processors,
         \A p \in DOMAIN basis : basis[p] \in Basis,
         NEW batch \in Nat, Queue(basis, rows, batch)
  PROVE  Queued(basis, rows)
<1>1. PICK queue \in SetToSeqs(DOMAIN basis) :
        /\ runs' = rows \o [k \in DOMAIN queue |->
                               QueuedRun(queue[k], basis[queue[k]], batch)]
        /\ jobs' = jobs \o [k \in DOMAIN queue |-> NewJob]
  BY DEF Queue
<1> DEFINE n == Cardinality(DOMAIN basis)
<1>2. n \in Nat
  <2>1. IsFiniteSet(DOMAIN basis)
    BY FS_Subset, ProcessorsAssumption
  <2>2. QED
    BY <2>1, FS_CardinalityType
<1>3. queue \in [1..n -> DOMAIN basis]
  BY <1>1 DEF SetToSeqs
<1> DEFINE more == [k \in DOMAIN queue |-> QueuedRun(queue[k], basis[queue[k]], batch)]
           again == [k \in DOMAIN queue |-> NewJob]
<1> HIDE DEF n
<1>4. \A k \in 1..n : queue[k] \in DOMAIN basis /\ queue[k] \in Processors
                      /\ basis[queue[k]] \in Basis
  BY <1>3
<1>5. more \in [1..n -> Run]
  BY <1>3, <1>4, QueuedRunTyped
<1>6. again \in [1..n -> Job]
  BY <1>3, NewJobTyped
<1>7. jobs \in Seq(Job) /\ Len(jobs) = Len(rows) /\ Len(rows) \in Nat
  BY DomainIsInterval DEF TypeOK
<1>8. /\ runs' \in Seq(Run)
      /\ Len(runs') = Len(rows) + n
      /\ \A i \in 1..Len(rows) : runs'[i] = rows[i]
      /\ \A i \in 1..n : runs'[Len(rows) + i] = more[i]
  <2>1. runs' = rows \o more
    BY <1>1
  <2> HIDE DEF more
  <2>2. /\ rows \o more \in Seq(Run)
        /\ Len(rows \o more) = Len(rows) + n
        /\ \A i \in 1..Len(rows) : (rows \o more)[i] = rows[i]
        /\ \A i \in 1..n : (rows \o more)[Len(rows) + i] = more[i]
    BY <1>2, <1>5, RowsAppended
  <2>3. QED
    BY <2>1, <2>2
<1>9. /\ jobs' \in Seq(Job)
      /\ Len(jobs') = Len(jobs) + n
      /\ \A i \in 1..Len(jobs) : jobs'[i] = jobs[i]
      /\ \A i \in 1..n : jobs'[Len(jobs) + i] = again[i]
  <2>1. jobs' = jobs \o again
    BY <1>1
  <2> HIDE DEF again
  <2>2. /\ jobs \o again \in Seq(Job)
        /\ Len(jobs \o again) = Len(jobs) + n
        /\ \A i \in 1..Len(jobs) : (jobs \o again)[i] = jobs[i]
        /\ \A i \in 1..n : (jobs \o again)[Len(jobs) + i] = again[i]
    <3>1. jobs \in Seq(Job)
      BY <1>7
    <3>2. QED
      BY <1>2, <1>6, <3>1, ConcatFacts
  <2>3. QED
    BY <2>1, <2>2
<1>10. ASSUME NEW i \in DOMAIN runs' \ (1..Len(rows))
       PROVE  \E p \in DOMAIN basis :
                 /\ runs'[i].processor = p /\ runs'[i].inputs = basis[p].inputs
                 /\ runs'[i].status = "queued" /\ runs'[i].error = "none"
                 /\ jobs'[i] = NewJob
  <2>1. i \in (Len(rows) + 1)..(Len(rows) + n)
    BY <1>2, <1>7, <1>8
  <2>2. PICK k \in 1..n : i = Len(rows) + k
    <3>1. i - Len(rows) \in 1..n /\ i = Len(rows) + (i - Len(rows))
      BY <1>2, <1>7, <2>1
    <3>2. QED
      BY <3>1
  <2>3. runs'[i] = QueuedRun(queue[k], basis[queue[k]], batch)
    BY <1>3, <1>8, <2>2
  <2>4. jobs'[i] = NewJob
    BY <1>3, <1>7, <1>9, <2>2
  <2>5. QED
    BY <1>4, <2>3, <2>4, QueuedRunTyped
<1>11. QED
  BY <1>2, <1>7, <1>8, <1>9, <1>10 DEF Queued

LEMMA OutdatedTyped ==
  ASSUME TypeOK, NEW S \in SUBSET Processors, NEW text \in Nat, NEW rows,
         NEW published, Visible(published), \A p \in S : Available(p, published)
  PROVE  LET basis == Outdated(S, text, rows, published)
         IN  /\ DOMAIN basis \subseteq Processors
             /\ \A p \in DOMAIN basis : /\ basis[p] \in Basis
                                        /\ Fed(p, basis[p].inputs, published)
<1>1. ASSUME NEW p \in S
      PROVE  /\ Inputs(p, text, published) \in Basis
             /\ Fed(p, Inputs(p, text, published).inputs, published)
  BY InputsTyped
<1>2. QED
  BY <1>1 DEF Outdated

-----------------------------------------------------------------------------
(* A step and the rows of runs and jobs                                    *)

JobsTyped == jobs \in Seq(Job) /\ Len(jobs) = Len(runs) /\ RetryInv

\* The job of a queued run is not completed.
KeepsJobs ==
    \A i \in Attempts :
        jobs'[i].state = "completed" =>
            jobs[i].state = "completed" \/ runs[i].status # "queued"

\* New runs are queued with a job and with acceptable inputs.
AddsQueuedRuns ==
    \A i \in DOMAIN runs' \ Attempts :
        /\ runs'[i].status = "queued" /\ runs'[i].error = "none"
        /\ jobs'[i] = NewJob
        /\ Fed(runs'[i].processor, runs'[i].inputs, results')

Evolves ==
    /\ runs' \in Seq(Run)
    /\ Len(runs) <= Len(runs')
    /\ \A i \in Attempts : Evolved(runs[i], runs'[i])
    /\ JobsTyped'
    /\ KeepsJobs
    /\ AddsQueuedRuns

LEMMA RunsUntouched ==
  ASSUME TypeOK, UNCHANGED runs, JobsTyped', KeepsJobs
  PROVE  Evolves /\ NoneSucceeds
  BY DomainIsInterval, EvolvedItself
  DEF TypeOK, Evolves, AddsQueuedRuns, NoneSucceeds, Attempts

LEMMA JobsUntouched ==
  ASSUME TypeOK, RetryInv, UNCHANGED jobs, Len(runs') = Len(runs)
  PROVE  JobsTyped' /\ KeepsJobs
<1>1. JobsTyped'
  BY DEF TypeOK, JobsTyped, RetryInv
<1>2. QED
  BY <1>1 DEF KeepsJobs

LEMMA RunsRewritten ==
  ASSUME TypeOK, RetryInv, Rewritten(runs'), UNCHANGED jobs
  PROVE  Evolves
<1>1. Len(runs) \in Nat /\ DOMAIN runs = 1..Len(runs)
  BY DomainIsInterval DEF TypeOK
<1>2. Len(runs') = Len(runs) /\ runs' \in Seq(Run) /\ DOMAIN runs' = DOMAIN runs
  BY <1>1, DomainIsInterval DEF Rewritten
<1>3. AddsQueuedRuns
  BY <1>2 DEF AddsQueuedRuns, Attempts
<1>4. QED
  BY <1>1, <1>2, <1>3, JobsUntouched DEF Rewritten, Evolves

\* Rows are rewritten and runs queued in one transaction.
LEMMA RunsQueued ==
  ASSUME TypeOK, RetryInv, NEW rows, Rewritten(rows),
         NEW basis, DOMAIN basis \subseteq Processors,
         \A p \in DOMAIN basis : /\ basis[p] \in Basis
                                 /\ Fed(p, basis[p].inputs, results'),
         NEW batch \in Nat, Queue(basis, rows, batch)
  PROVE  /\ Evolves
         /\ \A i \in Attempts : runs'[i] = rows[i]
<1>1. Len(rows) = Len(runs) /\ rows \in Seq(Run) /\ Attempts = 1..Len(rows)
      /\ Len(runs) \in Nat
  BY DomainIsInterval DEF TypeOK, Rewritten, Attempts
<1>2. Queued(basis, rows)
  BY <1>1, QueueAppends
<1>3. \A i \in Attempts : runs'[i] = rows[i] /\ jobs'[i] = jobs[i]
  BY <1>1, <1>2 DEF Queued
<1>4. \A i \in Attempts : Evolved(runs[i], runs'[i])
  BY <1>3 DEF Rewritten
<1>5. JobsTyped' /\ KeepsJobs
  <2>1. /\ DOMAIN jobs = Attempts /\ DOMAIN jobs' = DOMAIN runs'
        /\ jobs' \in Seq(Job) /\ Len(jobs') = Len(runs')
    BY <1>1, <1>2, DomainIsInterval DEF TypeOK, Queued
  <2>2. \A i \in DOMAIN runs' \ Attempts : jobs'[i].state = "created"
    BY <1>1, <1>2, NewJobTyped DEF Queued
  <2>3. RetryInv'
    BY <1>3, <2>1, <2>2 DEF RetryInv
  <2>4. QED
    BY <1>3, <2>1, <2>3 DEF JobsTyped, KeepsJobs
<1>6. AddsQueuedRuns
  <2>1. ASSUME NEW i \in DOMAIN runs' \ Attempts
        PROVE  /\ runs'[i].status = "queued" /\ runs'[i].error = "none"
               /\ jobs'[i] = NewJob
               /\ Fed(runs'[i].processor, runs'[i].inputs, results')
    BY <1>1, <1>2 DEF Queued
  <2>2. QED
    BY <2>1 DEF AddsQueuedRuns
<1>7. QED
  BY <1>1, <1>2, <1>3, <1>4, <1>5, <1>6 DEF Queued, Evolves

\* What the queue writes to a job.
JobState == {"created", "active", "retry", "completed", "failed"}

LEMMA JobWritten ==
  ASSUME TypeOK, RetryInv, NEW i \in Attempts, NEW job \in Job,
         job.state = "retry" => job.retries < RetryLimit,
         job.state # "completed" \/ runs[i].status # "queued",
         jobs' = [jobs EXCEPT ![i] = job], UNCHANGED runs
  PROVE  JobsTyped' /\ KeepsJobs
<1>1. i \in DOMAIN jobs /\ jobs \in Seq(Job)
  BY DomainIsInterval DEF TypeOK, Attempts
<1>2. /\ jobs' \in Seq(Job)
      /\ Len(jobs') = Len(jobs)
      /\ \A j \in DOMAIN jobs : j # i => jobs'[j] = jobs[j]
      /\ jobs'[i] = job
  BY <1>1, ExceptFacts
<1>3. DOMAIN jobs = Attempts
  BY DomainIsInterval DEF TypeOK, Attempts
<1>4. RetryInv'
  <2>1. DOMAIN jobs' = DOMAIN jobs
    BY <1>1, <1>2, DomainIsInterval
  <2>2. QED
    BY <1>2, <2>1 DEF RetryInv
<1>5. QED
  BY <1>2, <1>3, <1>4 DEF JobsTyped, KeepsJobs, TypeOK

LEMMA JobStateWritten ==
  ASSUME TypeOK, RetryInv, NEW i \in Attempts, NEW x \in JobState,
         x = "retry" => jobs[i].retries < RetryLimit,
         x # "completed" \/ runs[i].status # "queued",
         jobs' = [jobs EXCEPT ![i].state = x], UNCHANGED runs
  PROVE  JobsTyped' /\ KeepsJobs
<1>1. jobs[i] \in Job
  BY DomainIsInterval DEF TypeOK, Attempts
<1>2. /\ [jobs[i] EXCEPT !.state = x] \in Job /\ [jobs[i] EXCEPT !.state = x].state = x
      /\ [jobs[i] EXCEPT !.state = x].retries = jobs[i].retries
  BY <1>1 DEF Job, JobState
<1>3. jobs' = [jobs EXCEPT ![i] = [jobs[i] EXCEPT !.state = x]]
  OBVIOUS
<1> DEFINE job == [jobs[i] EXCEPT !.state = x]
<1> HIDE DEF job
<1>4. QED
  BY <1>2, <1>3, JobWritten DEF job

LEMMA Requeued ==
  ASSUME TypeOK, RetryInv, NEW i \in Attempts, Requeue(i), UNCHANGED runs
  PROVE  JobsTyped' /\ KeepsJobs
<1> DEFINE x == IF jobs[i].retries < RetryLimit THEN "retry" ELSE "failed"
<1>1. /\ x \in JobState /\ x # "completed"
      /\ x = "retry" => jobs[i].retries < RetryLimit
  BY DEF JobState
<1>2. jobs' = [jobs EXCEPT ![i].state = x]
  BY DEF Requeue
<1> HIDE DEF x
<1>3. QED
  BY <1>1, <1>2, JobStateWritten

-----------------------------------------------------------------------------
(* A step and the results                                                  *)

Silent == UNCHANGED <<results, shown>> /\ NoneSucceeds

Stales == results' = Staled /\ shown' = Deactivated /\ NoneSucceeds

PublishedBy(i) ==
    /\ runs[i].status = "running"
    /\ runs'[i].status = "succeeded"
    /\ \A j \in Attempts \ {i} :
         runs'[j].status = "succeeded" <=> runs[j].status = "succeeded"
    /\ \E result \in Result :
         /\ result.run = i
         /\ ~result.stale
         /\ results' = Append(results, result)
    /\ \/ shown' = [shown EXCEPT ![runs[i].processor] = Len(results) + 1]
       \/ UNCHANGED shown /\ shown[runs[i].processor] # None

Core ==
    /\ Evolves
    /\ Silent \/ Stales \/ \E i \in Attempts : PublishedBy(i)

ResultsTyped ==
    /\ Visible(results)
    /\ shown \in [Processors -> Nat]

\* Results are neither removed nor changed, except that they become stale.
ResultsKept ==
    \A r \in DOMAIN results :
        /\ r \in DOMAIN results'
        /\ results'[r].run = results[r].run
        /\ results'[r].partial = results[r].partial

\* These inputs are acceptable to p after the step.
FedNext(p, inputs) ==
    \A r \in inputs :
        /\ r \in DOMAIN results'
        /\ runs'[results'[r].run].processor \in Upstream[p]
        /\ results'[r].partial => p \in AcceptsPartial

LEMMA AttemptsGrow ==
  ASSUME TypeOK, Evolves
  PROVE  Attempts \subseteq Attempts' /\ Attempts = 1..Len(runs)
<1>1. Attempts = 1..Len(runs) /\ Attempts' = 1..Len(runs')
      /\ Len(runs) \in Nat /\ Len(runs') \in Nat
  BY DomainIsInterval DEF TypeOK, Evolves, Attempts
<1>2. QED
  BY <1>1 DEF Evolves

LEMMA StaledRows ==
  ASSUME results \in Seq(Result)
  PROVE  /\ Staled \in Seq(Result)
         /\ Len(Staled) = Len(results)
         /\ \A r \in DOMAIN results :
              /\ Staled[r].run = results[r].run
              /\ Staled[r].partial = results[r].partial
              /\ Staled[r].stale <=> results[r].stale \/ r \in edit.results
<1>1. ASSUME NEW r \in DOMAIN results, NEW x \in BOOLEAN
      PROVE  LET row == [results[r] EXCEPT !.stale = x]
             IN  /\ row \in Result
                 /\ row.run = results[r].run /\ row.partial = results[r].partial
                 /\ row.stale = x
  <2>1. results[r] \in Result
    OBVIOUS
  <2>2. QED
    BY <2>1 DEF Result
<1>2. DOMAIN Staled = 1..Len(results) /\ DOMAIN results = 1..Len(results)
  BY DEF Staled
<1>3. ASSUME NEW r \in DOMAIN results
      PROVE  /\ Staled[r] \in Result
             /\ Staled[r].run = results[r].run
             /\ Staled[r].partial = results[r].partial
             /\ Staled[r].stale <=> results[r].stale \/ r \in edit.results
  <2> DEFINE x == results[r].stale \/ r \in edit.results
  <2>1. x \in BOOLEAN
    BY Zenon
  <2>2. Staled[r] = [results[r] EXCEPT !.stale = x]
    BY Zenon DEF Staled
  <2> HIDE DEF x
  <2>3. /\ Staled[r] \in Result
        /\ Staled[r].run = results[r].run
        /\ Staled[r].partial = results[r].partial
        /\ Staled[r].stale = x
    BY <1>1, <2>1, <2>2
  <2>4. Staled[r].stale <=> x
    BY <2>3
  <2>5. QED
    BY <2>3, <2>4, Zenon DEF x
<1>4. Staled \in [1..Len(results) -> Result]
  <2>1. Staled = [r \in 1..Len(results) |-> Staled[r]]
    BY <1>2 DEF Staled
  <2>2. \A r \in 1..Len(results) : Staled[r] \in Result
    BY <1>2, <1>3
  <2>3. QED
    BY <2>1, <2>2
<1>5. Staled \in Seq(Result) /\ Len(Staled) = Len(results)
  BY <1>4
<1>6. QED
  BY <1>3, <1>5, Zenon

LEMMA ResultsStep ==
  ASSUME TypeOK, Core
  PROVE  ResultsTyped' /\ ResultsKept
<1>1. /\ results \in Seq(Result) /\ DOMAIN results = 1..Len(results)
      /\ Len(results) \in Nat
      /\ \A r \in DOMAIN results : results[r].run \in Attempts
      /\ shown \in [Processors -> Nat]
  BY DomainIsInterval DEF TypeOK
<1>2. Attempts \subseteq Attempts'
  BY AttemptsGrow DEF Core
<1>3. CASE Silent
  BY <1>1, <1>2, <1>3 DEF Silent, ResultsTyped, ResultsKept, Visible
<1>4. CASE Stales
  <2>1. /\ results' \in Seq(Result) /\ DOMAIN results' = DOMAIN results
        /\ ResultsKept
    BY <1>1, <1>4, StaledRows, DomainIsInterval DEF Stales, ResultsKept
  <2>2. \A r \in DOMAIN results' : results'[r].run \in Attempts'
    BY <1>1, <1>2, <2>1 DEF ResultsKept
  <2>3. shown' \in [Processors -> Nat]
    BY <1>1, <1>4 DEF Stales, Deactivated, None
  <2>4. QED
    BY <2>1, <2>2, <2>3 DEF ResultsTyped, Visible
<1>5. ASSUME NEW i \in Attempts, PublishedBy(i) PROVE ResultsTyped' /\ ResultsKept
  <2>1. PICK result \in Result :
          result.run = i /\ results' = Append(results, result)
    BY <1>5 DEF PublishedBy
  <2>2. /\ results' \in Seq(Result)
        /\ Len(results') = Len(results) + 1
        /\ \A r \in 1..Len(results) : results'[r] = results[r]
        /\ results'[Len(results) + 1] = result
    BY <1>1, <2>1, AppendFacts
  <2>3. DOMAIN results' = 1..(Len(results) + 1)
    BY <2>2, DomainIsInterval
  <2>4. \A r \in DOMAIN results' : results'[r].run \in Attempts'
    BY <1>1, <1>2, <2>1, <2>2, <2>3
  <2>5. ResultsKept
    BY <1>1, <2>2, <2>3 DEF ResultsKept
  <2>6. shown' \in [Processors -> Nat]
    BY <1>1, <1>5 DEF PublishedBy
  <2>7. QED
    BY <2>2, <2>4, <2>5, <2>6 DEF ResultsTyped, Visible
<1>6. QED
  BY <1>3, <1>4, <1>5 DEF Core

\* Acceptable inputs stay acceptable.
LEMMA FedStays ==
  ASSUME TypeOK, Evolves, ResultsKept, NEW p, NEW inputs, Fed(p, inputs, results)
  PROVE  FedNext(p, inputs)
<1>1. ASSUME NEW r \in inputs
      PROVE  /\ r \in DOMAIN results'
             /\ runs'[results'[r].run].processor \in Upstream[p]
             /\ results'[r].partial => p \in AcceptsPartial
  <2>1. /\ r \in DOMAIN results
        /\ runs[results[r].run].processor \in Upstream[p]
        /\ results[r].partial => p \in AcceptsPartial
    BY DEF Fed
  <2>2. results[r].run \in Attempts
    BY <2>1 DEF TypeOK
  <2>3. runs'[results[r].run].processor = runs[results[r].run].processor
    BY <2>2 DEF Evolves, Evolved
  <2>4. QED
    BY <2>1, <2>3 DEF ResultsKept
<1>2. QED
  BY <1>1 DEF FedNext

LEMMA OrderUntouched ==
  ASSUME TypeOK, OrderInv, Core, UNCHANGED order
  PROVE  OrderInv'
<1>1. ResultsKept /\ Evolves
  BY ResultsStep DEF Core
<1>2. \A p \in DOMAIN order : FedNext(p, order[p].inputs)
  BY <1>1, FedStays DEF OrderInv
<1>3. QED
  BY <1>2 DEF OrderInv, Fed, FedNext

LEMMA EditUntouched ==
  ASSUME TypeOK, EditInv, Core, edit' = edit \/ edit' = NoEdit
  PROVE  EditInv'
  BY ResultsStep DEF EditInv, ResultsKept, NoEdit

-----------------------------------------------------------------------------
(* A step and the deliveries                                               *)

DeliveriesTyped ==
    /\ workers \in [Workers -> Delivery]
    /\ \A w \in Workers : workers[w].pc # "idle" => workers[w].run \in Attempts

LEMMA DeliveriesUntouched ==
  ASSUME TypeOK, ReportsInv, Evolves, UNCHANGED workers
  PROVE  DeliveriesTyped' /\ ReportsInv'
<1>1. DeliveriesTyped'
  BY AttemptsGrow DEF TypeOK, DeliveriesTyped
<1>2. ASSUME NEW w \in Workers, workers[w].pc = "report",
             workers[w].outcome = "completed", ~workers[w].expired
      PROVE  runs'[workers[w].run].status # "queued"
  <2>1. runs[workers[w].run].status # "queued" /\ workers[w].run \in Attempts
    BY <1>2 DEF TypeOK, ReportsInv
  <2>2. QED
    BY <2>1 DEF Evolves, Evolved
<1>3. QED
  BY <1>1, <1>2 DEF ReportsInv

\* One delivery becomes d.
LEMMA DeliveryWritten ==
  ASSUME TypeOK, ReportsInv, Evolves, NEW w \in Workers, NEW d \in Delivery,
         d.pc # "idle" => d.run \in Attempts,
         (d.pc = "report" /\ d.outcome = "completed" /\ ~d.expired) =>
             runs'[d.run].status # "queued",
         workers' = [workers EXCEPT ![w] = d]
  PROVE  DeliveriesTyped' /\ ReportsInv'
<1>1. /\ workers \in [Workers -> Delivery]
      /\ \A v \in Workers : workers[v].pc # "idle" => workers[v].run \in Attempts
  BY DEF TypeOK
<1>2. /\ workers' \in [Workers -> Delivery] /\ workers'[w] = d
      /\ \A v \in Workers : v # w => workers'[v] = workers[v]
  BY <1>1
<1>3. Attempts \subseteq Attempts'
  BY AttemptsGrow
<1>4. \A v \in Workers : workers'[v].pc # "idle" => workers'[v].run \in Attempts
  BY <1>1, <1>2
<1>5. DeliveriesTyped'
  BY <1>2, <1>3, <1>4 DEF DeliveriesTyped
<1>6. ASSUME NEW v \in Workers, workers'[v].pc = "report",
             workers'[v].outcome = "completed", ~workers'[v].expired
      PROVE  runs'[workers'[v].run].status # "queued"
  <2>1. CASE v = w
    BY <1>2, <1>6, <2>1
  <2>2. CASE v # w
    <3>1. workers'[v] = workers[v]
      BY <1>2, <2>2
    <3>2. runs[workers[v].run].status # "queued" /\ workers[v].run \in Attempts
      BY <1>1, <1>6, <3>1 DEF ReportsInv
    <3>3. QED
      BY <3>1, <3>2 DEF Evolves, Evolved
  <2>3. QED
    BY <2>1, <2>2
<1>7. QED
  BY <1>5, <1>6 DEF ReportsInv

\* A busy delivery moves to a step that does not report.
LEMMA Went ==
  ASSUME TypeOK, ReportsInv, Evolves, NEW w \in Workers, workers[w].pc # "idle",
         NEW pc \in Step \ {"idle", "report"}, Goto(w, pc)
  PROVE  DeliveriesTyped' /\ ReportsInv'
<1> DEFINE d == [workers[w] EXCEPT !.pc = pc]
<1>1. workers[w] \in Delivery /\ workers[w].run \in Attempts
  BY DEF TypeOK
<1>2. d \in Delivery /\ d.pc = pc /\ d.run = workers[w].run
  BY <1>1 DEF Delivery
<1>3. workers' = [workers EXCEPT ![w] = d]
  BY DEF Goto
<1> HIDE DEF d
<1>4. QED
  BY <1>1, <1>2, <1>3, DeliveryWritten

LEMMA WentToFail ==
  ASSUME TypeOK, ReportsInv, Evolves, NEW w \in Workers, workers[w].pc # "idle",
         NEW error \in RunError, FailWith(w, error)
  PROVE  DeliveriesTyped' /\ ReportsInv'
<1> DEFINE d == [workers[w] EXCEPT !.pc = "fail", !.error = error]
<1>1. workers[w] \in Delivery /\ workers[w].run \in Attempts
  BY DEF TypeOK
<1>2. d \in Delivery /\ d.pc = "fail" /\ d.run = workers[w].run
  BY <1>1 DEF Delivery, Step
<1>3. workers' = [workers EXCEPT ![w] = d]
  BY DEF FailWith
<1> HIDE DEF d
<1>4. QED
  BY <1>1, <1>2, <1>3, DeliveryWritten

LEMMA Reported ==
  ASSUME TypeOK, ReportsInv, Evolves, NEW w \in Workers, workers[w].pc # "idle",
         NEW outcome \in {"completed", "transient", "permanent"},
         Report(w, outcome),
         (outcome = "completed" /\ ~workers[w].expired) =>
             runs'[workers[w].run].status # "queued"
  PROVE  DeliveriesTyped' /\ ReportsInv'
<1> DEFINE d == [workers[w] EXCEPT !.pc = "report", !.outcome = outcome]
<1>1. workers[w] \in Delivery /\ workers[w].run \in Attempts
  BY DEF TypeOK
<1>2. /\ d \in Delivery /\ d.pc = "report" /\ d.run = workers[w].run
      /\ d.outcome = outcome /\ d.expired = workers[w].expired
  BY <1>1 DEF Delivery, Step
<1>3. workers' = [workers EXCEPT ![w] = d]
  BY DEF Report
<1> HIDE DEF d
<1>4. QED
  BY <1>1, <1>2, <1>3, DeliveryWritten

LEMMA Freed ==
  ASSUME TypeOK, ReportsInv, Evolves, NEW w \in Workers,
         workers' = [workers EXCEPT ![w] = Idle]
  PROVE  DeliveriesTyped' /\ ReportsInv'
<1>1. Idle \in Delivery /\ Idle.pc = "idle"
  BY DEF Idle, Delivery, Step, RunError, None
<1>2. QED
  BY <1>1, DeliveryWritten

-----------------------------------------------------------------------------
(* What the other variables of a step have to satisfy                      *)

BoundsTyped ==
    /\ edits \in 0..MaxEdits
    /\ deletes \in 0..MaxDeletes
    /\ crashes \in 0..MaxCrashes
    /\ stalls \in 0..MaxStalls

RestTyped ==
    /\ source \in [revision : Nat \ {0}, deleted : BOOLEAN]
    /\ edit \in [open : BOOLEAN, direct : SUBSET Processors,
                 runs : SUBSET (Nat \ {0}), results : SUBSET (Nat \ {0})]
    /\ DOMAIN order \subseteq Processors
    /\ \A p \in DOMAIN order : order[p] \in Basis
    /\ batches \in Seq({"active", "canceled"})
    /\ BoundsTyped

StepOK ==
    /\ Core
    /\ DeliveriesTyped' /\ ReportsInv'
    /\ RestTyped' /\ OrderInv' /\ EditInv'

\* The steps of workers and queues touch nothing of the owner's.
LEMMA FrameKept ==
  ASSUME TypeOK, OrderInv, EditInv, Core,
         UNCHANGED <<source, edit, order, batches>>, BoundsTyped'
  PROVE  RestTyped' /\ OrderInv' /\ EditInv'
<1>1. RestTyped'
  BY DEF TypeOK, RestTyped
<1>2. OrderInv' /\ EditInv'
  BY OrderUntouched, EditUntouched
<1>3. QED
  BY <1>1, <1>2

LEMMA BoundsKept == ASSUME TypeOK, UNCHANGED bounds PROVE BoundsTyped'
  BY DEF TypeOK, BoundsTyped, bounds

LEMMA FaultBounds == ASSUME TypeOK, Crashing \/ Stalling PROVE BoundsTyped'
  BY LimitsAssumption, SMTT(30) DEF TypeOK, BoundsTyped, Crashing, Stalling

-----------------------------------------------------------------------------
(* The steps of the workers and of the queue                               *)

\* A step that touches neither the owner's variables nor the results is in
\* order when its runs, jobs and deliveries are.
LEMMA QuietStep ==
  ASSUME Inv, Evolves, NoneSucceeds, DeliveriesTyped', ReportsInv', BoundsTyped',
         UNCHANGED <<source, results, shown, edit, order, batches>>
  PROVE  StepOK
<1>1. Core
  BY DEF Core, Silent
<1>2. QED
  BY <1>1, FrameKept DEF Inv, StepOK

LEMMA FetchStep ==
  ASSUME Inv, NEW w \in Workers, NEW i \in Attempts, Fetch(w, i)
  PROVE  StepOK
<1>1. TypeOK /\ ReportsInv /\ RetryInv
  BY DEF Inv
<1>2. jobs[i] \in Job /\ i \in DOMAIN jobs
  BY <1>1, DomainIsInterval DEF TypeOK, Attempts
<1> DEFINE job == [state |-> "active",
                   retries |-> jobs[i].retries + (IF jobs[i].state = "retry" THEN 1 ELSE 0)]
           d == [Idle EXCEPT !.pc = "load", !.run = i]
<1>3. jobs' = [jobs EXCEPT ![i] = job] /\ workers' = [workers EXCEPT ![w] = d]
      /\ UNCHANGED runs
  BY DEF Fetch
<1>4. job \in Job /\ job.state = "active"
  BY <1>1, <1>2, LimitsAssumption DEF Job, RetryInv
<1>5. i \in Nat
  BY <1>1, DomainIsInterval DEF TypeOK, Attempts
<1>6. d \in Delivery /\ d.pc = "load" /\ d.run = i
  BY <1>5 DEF Idle, Delivery, Step, RunError
<1> HIDE DEF job, d
<1>7. Evolves /\ NoneSucceeds
  BY <1>1, <1>3, <1>4, JobWritten, RunsUntouched
<1>8. DeliveriesTyped' /\ ReportsInv'
  BY <1>1, <1>3, <1>6, <1>7, DeliveryWritten
<1>9. QED
  BY <1>1, <1>7, <1>8, QuietStep, BoundsKept DEF Fetch

LEMMA LoadStep ==
  ASSUME Inv, NEW w \in Workers, Load(w) PROVE StepOK
<1>1. TypeOK /\ ReportsInv /\ RetryInv /\ QueuedClean
  BY DEF Inv
<1>2. workers[w].pc = "load" /\ workers[w].pc # "idle" /\ workers[w].run \in Attempts
  BY <1>1 DEF Load, TypeOK
<1>3. Evolves /\ NoneSucceeds
  BY <1>1, RunsUntouched, JobsUntouched DEF Load
<1>4. CASE Goto(w, "cancel") \/ Goto(w, "mark")
  <2>1. "cancel" \in Step \ {"idle", "report"} /\ "mark" \in Step \ {"idle", "report"}
    BY DEF Step
  <2>2. DeliveriesTyped' /\ ReportsInv'
    BY <1>1, <1>2, <1>3, <1>4, <2>1, Went
  <2>3. QED
    BY <1>1, <1>3, <2>2, QuietStep, BoundsKept DEF Load
<1>5. CASE /\ Concluded(runs[workers[w].run]) \/ workers[w].expired
           /\ Report(w, "completed")
  <2>1. ~workers[w].expired => runs[workers[w].run].status # "queued"
    BY <1>1, <1>2, <1>5 DEF Concluded, QueuedClean
  <2>2. ~workers[w].expired => runs'[workers[w].run].status # "queued"
    BY <2>1 DEF Load
  <2>3. DeliveriesTyped' /\ ReportsInv'
    BY <1>1, <1>2, <1>3, <1>5, <2>2, Reported
  <2>4. QED
    BY <1>1, <1>3, <2>3, QuietStep, BoundsKept DEF Load
<1>6. QED
  BY <1>4, <1>5 DEF Load

LEMMA MarkCanceledStep ==
  ASSUME Inv, NEW w \in Workers, MarkCanceled(w) PROVE StepOK
<1>1. TypeOK /\ ReportsInv /\ RetryInv
  BY DEF Inv
<1>2. /\ workers[w].pc # "idle" /\ workers[w].run \in Attempts
      /\ runs' = Cancel({workers[w].run}) /\ UNCHANGED jobs /\ Report(w, "completed")
  BY <1>1 DEF MarkCanceled, TypeOK
<1>3. runs \in Seq(Run)
  BY <1>1 DEF TypeOK
<1>4. /\ Rewritten(runs')
      /\ \A i \in Attempts :
           /\ runs'[i].status = "succeeded" <=> runs[i].status = "succeeded"
           /\ i \in {workers[w].run} => runs'[i].status # "queued"
  BY <1>2, <1>3, CancelRewrites, Zenon
<1>5. Evolves /\ NoneSucceeds
  BY <1>1, <1>2, <1>4, RunsRewritten DEF NoneSucceeds
<1>6. DeliveriesTyped' /\ ReportsInv'
  BY <1>1, <1>2, <1>4, <1>5, Reported
<1>7. QED
  BY <1>1, <1>5, <1>6, QuietStep, BoundsKept DEF MarkCanceled

LEMMA MarkRunningStep ==
  ASSUME Inv, NEW w \in Workers, MarkRunning(w) PROVE StepOK
<1>1. TypeOK /\ ReportsInv /\ RetryInv
  BY DEF Inv
<1> DEFINE i == workers[w].run
<1>2. /\ workers[w].pc # "idle" /\ i \in Attempts /\ i \in DOMAIN runs
      /\ runs \in Seq(Run) /\ runs[i] \in Run
  BY <1>1 DEF MarkRunning, TypeOK, Attempts
<1>3. CASE Startable(runs[i])
  <2> DEFINE row == [runs[i] EXCEPT !.status = "running", !.error = "none"]
  <2>1. /\ runs' = [runs EXCEPT ![i] = row] /\ Goto(w, "generate") /\ UNCHANGED jobs
    BY <1>3 DEF MarkRunning
  <2>2. row \in Run /\ row.status = "running" /\ Evolved(runs[i], row)
    BY <1>2, <1>3, WorkerRows
  <2> HIDE DEF row, i
  <2>3. /\ Rewritten(runs') /\ runs'[i] = row
        /\ \A j \in Attempts : j # i => runs'[j] = runs[j]
    <3>1. /\ Rewritten([runs EXCEPT ![i] = row])
          /\ [runs EXCEPT ![i] = row][i] = row
          /\ \A j \in Attempts : j # i => [runs EXCEPT ![i] = row][j] = runs[j]
      BY <1>2, <2>2, RowRewrites, ZenonT(40)
    <3>2. QED
      BY <2>1, <3>1, Zenon
  <2>4. Evolves /\ NoneSucceeds
    BY <1>1, <2>1, <2>2, <2>3, RunsRewritten DEF NoneSucceeds
  <2>5. "generate" \in Step \ {"idle", "report"}
    BY DEF Step
  <2>6. DeliveriesTyped' /\ ReportsInv'
    BY <1>1, <1>2, <2>1, <2>4, <2>5, Went
  <2>7. QED
    BY <1>1, <2>4, <2>6, QuietStep, BoundsKept DEF MarkRunning
<1>4. CASE ~Startable(runs[i])
  <2>1. Report(w, "completed") /\ UNCHANGED <<runs, jobs>>
    BY <1>4 DEF MarkRunning
  <2>2. Evolves /\ NoneSucceeds
    BY <1>1, <2>1, RunsUntouched, JobsUntouched
  <2>3. runs'[workers[w].run].status # "queued"
    BY <1>4, <2>1 DEF Startable
  <2>4. DeliveriesTyped' /\ ReportsInv'
    BY <1>1, <1>2, <2>1, <2>2, <2>3, Reported
  <2>5. QED
    BY <1>1, <2>2, <2>4, QuietStep, BoundsKept DEF MarkRunning
<1>5. QED
  BY <1>3, <1>4

LEMMA GenerateStep ==
  ASSUME Inv, NEW w \in Workers, Generate(w) PROVE StepOK
<1>1. TypeOK /\ ReportsInv /\ RetryInv
  BY DEF Inv
<1>2. workers[w].pc # "idle"
  BY DEF Generate
<1>3. Evolves /\ NoneSucceeds
  BY <1>1, RunsUntouched, JobsUntouched DEF Generate
<1>4. DeliveriesTyped' /\ ReportsInv'
  <2>1. CASE Goto(w, "cancel") \/ Goto(w, "complete")
    <3>1. "cancel" \in Step \ {"idle", "report"} /\ "complete" \in Step \ {"idle", "report"}
      BY DEF Step
    <3>2. QED
      BY <1>1, <1>2, <1>3, <2>1, <3>1, Went
  <2>2. CASE \E error \in {"retryable", "final"} : FailWith(w, error)
    <3>1. {"retryable", "final"} \subseteq RunError
      BY DEF RunError
    <3>2. QED
      BY <1>1, <1>2, <1>3, <2>2, <3>1, WentToFail
  <2>3. QED
    BY <2>1, <2>2 DEF Generate
<1>5. QED
  BY <1>1, <1>3, <1>4, QuietStep, BoundsKept DEF Generate

LEMMA MarkFailedStep ==
  ASSUME Inv, NEW w \in Workers, MarkFailed(w) PROVE StepOK
<1>1. TypeOK /\ ReportsInv /\ RetryInv
  BY DEF Inv
<1> DEFINE i == workers[w].run
           error == workers[w].error
<1>2. /\ workers[w].pc # "idle" /\ i \in Attempts
      /\ runs \in Seq(Run) /\ runs[i] \in Run
  BY <1>1 DEF MarkFailed, TypeOK, Attempts
<1>3. error \in RunError
  BY <1>1 DEF TypeOK, Delivery
<1>4. Evolves /\ NoneSucceeds
  <2>1. CASE Failable(runs[i])
    <3> DEFINE row == [runs[i] EXCEPT !.status = "failed", !.error = error]
    <3>1. runs' = [runs EXCEPT ![i] = row] /\ UNCHANGED jobs
      BY <2>1 DEF MarkFailed
    <3>2. row \in Run /\ row.status = "failed" /\ Evolved(runs[i], row)
      BY <1>2, <1>3, <2>1, WorkerRows
    <3> HIDE DEF row, i, error
    <3>3. /\ Rewritten([runs EXCEPT ![i] = row])
          /\ [runs EXCEPT ![i] = row][i] = row
          /\ \A j \in Attempts : j # i => [runs EXCEPT ![i] = row][j] = runs[j]
      BY <1>2, <3>2, RowRewrites, ZenonT(40)
    <3>4. /\ Rewritten(runs') /\ runs'[i] = row
          /\ \A j \in Attempts : j # i => runs'[j] = runs[j]
      BY <3>1, <3>3, Zenon
    <3>5. QED
      BY <1>1, <3>1, <3>2, <3>4, RunsRewritten DEF NoneSucceeds
  <2>2. CASE ~Failable(runs[i])
    <3>1. UNCHANGED <<runs, jobs>>
      BY <2>2 DEF MarkFailed
    <3>2. QED
      BY <1>1, <3>1, RunsUntouched, JobsUntouched
  <2>3. QED
    BY <2>1, <2>2
<1>5. DeliveriesTyped' /\ ReportsInv'
  <2> DEFINE outcome == IF error = "final" THEN "permanent" ELSE "transient"
  <2>1. outcome \in {"completed", "transient", "permanent"} /\ outcome # "completed"
    OBVIOUS
  <2>2. Report(w, outcome)
    BY DEF MarkFailed
  <2> HIDE DEF outcome
  <2>3. QED
    BY <1>1, <1>2, <1>4, <2>1, <2>2, Reported
<1>6. QED
  BY <1>1, <1>4, <1>5, QuietStep, BoundsKept DEF MarkFailed

LEMMA SettleStep ==
  ASSUME Inv, NEW w \in Workers, Settle(w) PROVE StepOK
<1>1. TypeOK /\ ReportsInv /\ RetryInv
  BY DEF Inv
<1>2. /\ workers[w].run \in Attempts /\ UNCHANGED runs
      /\ workers' = [workers EXCEPT ![w] = Idle]
  BY <1>1 DEF Settle, TypeOK
<1>3. JobsTyped' /\ KeepsJobs
  <2>1. CASE UNCHANGED jobs
    BY <1>1, <1>2, <2>1, JobsUntouched
  <2>2. CASE ~(jobs[workers[w].run].state # "active" \/ workers[w].expired)
    <3>1. CASE /\ workers[w].outcome = "completed"
               /\ jobs' = [jobs EXCEPT ![workers[w].run].state = "completed"]
      <4>1. runs[workers[w].run].status # "queued"
        BY <1>1, <2>2, <3>1 DEF Settle, ReportsInv
      <4>2. "completed" \in JobState
        BY DEF JobState
      <4>3. QED
        BY <1>1, <1>2, <3>1, <4>1, <4>2, JobStateWritten
    <3>2. CASE Requeue(workers[w].run)
      BY <1>1, <1>2, <3>2, Requeued
    <3>3. CASE jobs' = [jobs EXCEPT ![workers[w].run].state = "failed"]
      <4>1. "failed" \in JobState
        BY DEF JobState
      <4>2. QED
        BY <1>1, <1>2, <3>3, <4>1, JobStateWritten
    <3>4. QED
      BY <2>2, <3>1, <3>2, <3>3 DEF Settle
  <2>3. QED
    BY <2>1, <2>2 DEF Settle
<1>4. Evolves /\ NoneSucceeds
  BY <1>1, <1>2, <1>3, RunsUntouched
<1>5. DeliveriesTyped' /\ ReportsInv'
  BY <1>1, <1>2, <1>4, Freed
<1>6. QED
  BY <1>1, <1>4, <1>5, QuietStep, BoundsKept DEF Settle

LEMMA FaultOK ==
  ASSUME Inv, FaultStep PROVE StepOK
<1>1. TypeOK /\ ReportsInv /\ RetryInv
  BY DEF Inv
<1>2. UNCHANGED <<source, runs, results, shown, edit, order, batches>>
  BY DEF FaultStep, Crash, Expire, StatementFails, LoseHeartbeat
<1>3. BoundsTyped'
  BY <1>1, FaultBounds DEF FaultStep, Crash, Expire, StatementFails, LoseHeartbeat
<1>4. SUFFICES JobsTyped' /\ KeepsJobs /\ (Evolves => DeliveriesTyped' /\ ReportsInv')
  BY <1>1, <1>2, <1>3, RunsUntouched, QuietStep
<1>5. ASSUME NEW w \in Workers, Crash(w)
      PROVE  JobsTyped' /\ KeepsJobs /\ (Evolves => DeliveriesTyped' /\ ReportsInv')
  BY <1>1, <1>2, <1>5, JobsUntouched, Freed DEF Crash
<1>6. ASSUME NEW w \in Workers, Expire(w)
      PROVE  JobsTyped' /\ KeepsJobs /\ (Evolves => DeliveriesTyped' /\ ReportsInv')
  <2>1. workers[w].pc # "idle" /\ workers[w].run \in Attempts
    BY <1>1, <1>6 DEF Expire, TypeOK
  <2>2. JobsTyped' /\ KeepsJobs
    BY <1>1, <1>2, <1>6, <2>1, JobsUntouched, Requeued DEF Expire
  <2>3. ASSUME Evolves PROVE DeliveriesTyped' /\ ReportsInv'
    <3> DEFINE d == [workers[w] EXCEPT !.expired = TRUE]
    <3>1. workers[w] \in Delivery
      BY <1>1 DEF TypeOK
    <3>2. d \in Delivery /\ d.run = workers[w].run /\ d.expired
      BY <3>1 DEF Delivery
    <3>3. workers' = [workers EXCEPT ![w] = d]
      BY <1>6 DEF Expire
    <3> HIDE DEF d
    <3>4. QED
      BY <1>1, <2>1, <2>3, <3>2, <3>3, DeliveryWritten
  <2>4. QED
    BY <2>2, <2>3
<1>7. ASSUME NEW w \in Workers, StatementFails(w)
      PROVE  JobsTyped' /\ KeepsJobs /\ (Evolves => DeliveriesTyped' /\ ReportsInv')
  <2>1. workers[w].pc # "idle" /\ UNCHANGED jobs
    BY <1>7 DEF StatementFails
  <2>2. JobsTyped' /\ KeepsJobs
    BY <1>1, <1>2, <2>1, JobsUntouched
  <2>3. CASE Report(w, "transient")
    BY <1>1, <2>1, <2>2, <2>3, Reported
  <2>4. CASE FailWith(w, "retryable")
    <3>1. "retryable" \in RunError
      BY DEF RunError
    <3>2. QED
      BY <1>1, <2>1, <2>2, <2>4, <3>1, WentToFail
  <2>5. QED
    BY <1>7, <2>3, <2>4 DEF StatementFails
<1>8. ASSUME NEW i \in Attempts, LoseHeartbeat(i)
      PROVE  JobsTyped' /\ KeepsJobs /\ (Evolves => DeliveriesTyped' /\ ReportsInv')
  <2>1. Requeue(i) /\ UNCHANGED workers
    BY <1>8 DEF LoseHeartbeat
  <2>2. QED
    BY <1>1, <1>2, <2>1, Requeued, DeliveriesUntouched
<1>9. QED
  BY <1>5, <1>6, <1>7, <1>8 DEF FaultStep

LEMMA ReclaimStep ==
  ASSUME Inv, NEW i \in Attempts, Reclaim(i) PROVE StepOK
<1>1. TypeOK /\ ReportsInv /\ RetryInv
  BY DEF Inv
<1>2. Requeue(i) /\ UNCHANGED workers /\ UNCHANGED runs
  BY DEF Reclaim
<1>3. Evolves /\ NoneSucceeds
  BY <1>1, <1>2, Requeued, RunsUntouched
<1>4. DeliveriesTyped' /\ ReportsInv'
  BY <1>1, <1>2, <1>3, DeliveriesUntouched
<1>5. QED
  BY <1>1, <1>3, <1>4, QuietStep, BoundsKept DEF Reclaim

LEMMA CompleteStep ==
  ASSUME Inv, NEW w \in Workers, Complete(w) PROVE StepOK
<1>1. TypeOK /\ ReportsInv /\ RetryInv
  BY DEF Inv
<1> DEFINE i == workers[w].run
           p == runs[i].processor
<1>2. /\ workers[w].pc # "idle" /\ i \in Attempts /\ i \in Nat \ {0}
      /\ runs \in Seq(Run) /\ runs[i] \in Run /\ p \in Processors
  <2>1. workers[w].pc # "idle" /\ i \in Attempts
    BY <1>1 DEF Complete, TypeOK
  <2>2. runs \in Seq(Run) /\ runs[i] \in Run /\ i \in Nat \ {0}
    BY <1>1, <2>1, DomainIsInterval DEF TypeOK, Attempts
  <2>3. QED
    BY <2>1, <2>2 DEF Run
<1>3. BoundsTyped' /\ UNCHANGED <<source, edit, order, batches>>
  BY <1>1, BoundsKept DEF Complete
<1>4. CASE /\ UNCHANGED <<runs, jobs, results, shown>>
           /\ FailWith(w, "retryable") \/
              (runs[i].status = "succeeded" /\ Report(w, "completed"))
  <2>1. Evolves /\ NoneSucceeds
    BY <1>1, <1>4, RunsUntouched, JobsUntouched
  <2>2. "retryable" \in RunError
    BY DEF RunError
  <2>3. CASE FailWith(w, "retryable")
    BY <1>1, <1>2, <1>3, <1>4, <2>1, <2>2, <2>3, WentToFail, QuietStep
  <2>4. CASE runs[i].status = "succeeded" /\ Report(w, "completed")
    <3>1. runs'[workers[w].run].status # "queued"
      BY <1>4, <2>4
    <3>2. QED
      BY <1>1, <1>2, <1>3, <1>4, <2>1, <2>4, <3>1, Reported, QuietStep
  <2>5. QED
    BY <1>4, <2>3, <2>4
<1>5. ASSUME NEW partial \in BOOLEAN, runs[i].status = "running",
             LET result == [run |-> i, partial |-> partial, stale |-> FALSE]
             IN /\ \A q \in Dependents(p) : Available(q, Append(results, result))
                /\ Publish(i, result) /\ Report(w, "completed")
      PROVE  StepOK
  <2> DEFINE result == [run |-> i, partial |-> partial, stale |-> FALSE]
             published == Append(results, result)
             rows == Succeeded(i)
             row == [runs[i] EXCEPT !.status = "succeeded"]
             basis == Outdated(Dependents(p), source.revision, rows, published)
  <2>1. result \in Result /\ result.run = i /\ ~result.stale
    BY <1>2 DEF Result
  <2>2. \A q \in Dependents(p) : Available(q, published)
    BY <1>5
  <2>3. results' = published /\ Queue(basis, rows, None) /\ Report(w, "completed")
    BY <1>5 DEF Publish
  <2>4. shown' = [shown EXCEPT ![p] = Len(published)] \/ (shown[p] # None /\ UNCHANGED shown)
    BY <1>5 DEF Publish
  <2> HIDE DEF result, p, i
  <2>5. /\ published \in Seq(Result) /\ Len(published) = Len(results) + 1
        /\ \A r \in 1..Len(results) : published[r] = results[r]
        /\ published[Len(results) + 1] = result
    BY <1>1, <2>1, AppendFacts DEF TypeOK
  <2>6. Visible(published)
    <3>1. DOMAIN published = 1..(Len(results) + 1) /\ DOMAIN results = 1..Len(results)
      BY <1>1, <2>5, DomainIsInterval DEF TypeOK
    <3> HIDE DEF published
    <3>2. Len(results) \in Nat /\ \A r \in 1..Len(results) : results[r].run \in Attempts
      BY <1>1, <3>1, DomainIsInterval DEF TypeOK
    <3>3. \A r \in 1..(Len(results) + 1) : published[r].run \in Attempts
      BY <1>2, <2>1, <2>5, <3>2
    <3>4. QED
      BY <2>5, <3>1, <3>3 DEF Visible
  <2>7. row \in Run /\ row.status = "succeeded" /\ Evolved(runs[i], row)
    BY <1>2, <1>5, WorkerRows DEF i
  <2>8. /\ Rewritten(rows) /\ rows[i] = row
        /\ \A j \in Attempts : j # i => rows[j] = runs[j]
    <3>1. rows = [runs EXCEPT ![i] = row]
      BY DEF Succeeded
    <3> HIDE DEF row, rows
    <3>2. /\ Rewritten([runs EXCEPT ![i] = row])
          /\ [runs EXCEPT ![i] = row][i] = row
          /\ \A j \in Attempts : j # i => [runs EXCEPT ![i] = row][j] = runs[j]
      <4>1. runs \in Seq(Run) /\ i \in Attempts /\ row \in Run /\ Evolved(runs[i], row)
        BY <1>2, <2>7, Zenon
      <4>2. QED
        BY <4>1, RowRewrites
    <3>3. QED
      BY <3>1, <3>2, Zenon
  <2>9. /\ DOMAIN basis \subseteq Processors
        /\ \A q \in DOMAIN basis : /\ basis[q] \in Basis
                                   /\ Fed(q, basis[q].inputs, published)
    <3>1. Dependents(p) \in SUBSET Processors
      BY DEF Dependents
    <3>2. source.revision \in Nat
      BY <1>1 DEF TypeOK
    <3> HIDE DEF published, rows
    <3>3. QED
      BY <1>1, <2>2, <2>6, <3>1, <3>2, OutdatedTyped
  <2> HIDE DEF basis, rows, row
  <2>10. Evolves /\ \A j \in Attempts : runs'[j] = rows[j]
    <3>1. \A q \in DOMAIN basis : /\ basis[q] \in Basis
                                  /\ Fed(q, basis[q].inputs, results')
      BY <2>3, <2>9
    <3>2. None \in Nat
      BY DEF None
    <3>3. QED
      BY <1>1, <2>3, <2>8, <2>9, <3>1, <3>2, RunsQueued
  <2>11. PublishedBy(i)
    <3>1. runs[i].status = "running" /\ runs'[i].status = "succeeded"
      BY <1>2, <1>5, <2>7, <2>8, <2>10 DEF i
    <3>2. \A j \in Attempts \ {i} : runs'[j].status = "succeeded" <=> runs[j].status = "succeeded"
      BY <2>8, <2>10
    <3>3. \E new \in Result : new.run = i /\ ~new.stale /\ results' = Append(results, new)
      BY <2>1, <2>3
    <3>4. \/ shown' = [shown EXCEPT ![runs[i].processor] = Len(results) + 1]
          \/ UNCHANGED shown /\ shown[runs[i].processor] # None
      BY <2>4, <2>5 DEF p
    <3>5. QED
      BY <3>1, <3>2, <3>3, <3>4 DEF PublishedBy
  <2>12. Core
    BY <1>2, <2>10, <2>11 DEF Core
  <2>13. DeliveriesTyped' /\ ReportsInv'
    <3>1. runs'[workers[w].run].status # "queued"
      BY <2>11 DEF PublishedBy, i
    <3>2. QED
      BY <1>1, <1>2, <2>3, <2>10, <3>1, Reported DEF i
  <2>14. QED
    BY <1>1, <1>3, <2>12, <2>13, FrameKept DEF Inv, StepOK
<1>6. QED
  BY <1>4, <1>5 DEF Complete

-----------------------------------------------------------------------------
(* The steps of the owner                                                  *)

\* The owner's steps leave the deliveries alone.
LEMMA OwnerStepOK ==
  ASSUME Inv, Core, UNCHANGED workers, RestTyped', OrderInv', EditInv'
  PROVE  StepOK
  BY DeliveriesUntouched DEF Inv, Core, StepOK

\* So does what only touches the owner's own variables.
LEMMA QuietCore ==
  ASSUME Inv, UNCHANGED <<runs, jobs, results, shown>> PROVE Core
<1>1. Evolves /\ NoneSucceeds
  BY RunsUntouched, JobsUntouched DEF Inv
<1>2. QED
  BY <1>1 DEF Core, Silent

LEMMA BeginEditStep ==
  ASSUME Inv, BeginEdit PROVE StepOK
<1>1. TypeOK
  BY DEF Inv
<1>2. Core
  BY QuietCore DEF BeginEdit
<1> DEFINE direct == {i \in Attempts : runs[i].text = source.revision}
           impacted == Impacted(direct)
<1>3. edit' = [open |-> TRUE, direct |-> {runs[i].processor : i \in direct},
               runs |-> impacted,
               results |-> {r \in DOMAIN results : results[r].run \in impacted}]
  BY DEF BeginEdit
<1>4. /\ Attempts = 1..Len(runs) /\ Len(runs) \in Nat
      /\ DOMAIN results = 1..Len(results) /\ Len(results) \in Nat
      /\ \A i \in Attempts : runs[i].processor \in Processors
  <2>1. runs \in Seq(Run) /\ results \in Seq(Result)
    BY <1>1 DEF TypeOK
  <2>2. /\ Attempts = 1..Len(runs) /\ Len(runs) \in Nat
        /\ DOMAIN results = 1..Len(results) /\ Len(results) \in Nat
    BY <2>1, DomainIsInterval DEF Attempts
  <2>3. \A i \in Attempts : runs[i] \in Run
    BY <2>1 DEF Attempts
  <2>4. QED
    BY <2>2, <2>3 DEF Run
<1>5. impacted \subseteq Attempts
  BY DEF Impacted
<1> HIDE DEF impacted
<1>6. /\ {runs[i].processor : i \in direct} \in SUBSET Processors
      /\ impacted \in SUBSET (Nat \ {0})
      /\ {r \in DOMAIN results : results[r].run \in impacted} \in SUBSET (Nat \ {0})
  BY <1>4, <1>5
<1>7. edit' \in [open : BOOLEAN, direct : SUBSET Processors,
                 runs : SUBSET (Nat \ {0}), results : SUBSET (Nat \ {0})]
  BY <1>3, <1>6
<1>8. BoundsTyped'
  BY <1>1, LimitsAssumption DEF TypeOK, BoundsTyped, BeginEdit
<1>9. RestTyped'
  BY <1>1, <1>7, <1>8 DEF TypeOK, RestTyped, BeginEdit
<1>10. EditInv'
  BY <1>3 DEF EditInv, BeginEdit
<1>11. OrderInv'
  BY <1>2, OrderUntouched DEF Inv, BeginEdit
<1>12. QED
  BY <1>2, <1>9, <1>10, <1>11, OwnerStepOK DEF BeginEdit

LEMMA NoEditTyped ==
  NoEdit \in [open : BOOLEAN, direct : SUBSET Processors,
              runs : SUBSET (Nat \ {0}), results : SUBSET (Nat \ {0})]
  BY DEF NoEdit

LEMMA CommitEditStep ==
  ASSUME Inv, CommitEdit PROVE StepOK
<1>1. TypeOK /\ RetryInv
  BY DEF Inv
<1> DEFINE text == source.revision + 1
           rows == Cancel(edit.runs)
           basis == Outdated(edit.direct, text, rows, Staled)
<1>2. /\ \A p \in edit.direct : Available(p, Staled)
      /\ source' = [source EXCEPT !.revision = text]
      /\ results' = Staled /\ shown' = Deactivated /\ edit' = NoEdit
      /\ Queue(basis, rows, None)
      /\ UNCHANGED <<workers, order, batches, bounds>>
  BY DEF CommitEdit
<1>3. /\ Rewritten(rows)
      /\ \A i \in Attempts : rows[i].status = "succeeded" <=> runs[i].status = "succeeded"
  BY <1>1, CancelRewrites, Zenon DEF TypeOK
<1>4. Visible(Staled)
  <2>1. results \in Seq(Result)
    BY <1>1 DEF TypeOK
  <2>2. /\ Staled \in Seq(Result) /\ DOMAIN Staled = DOMAIN results
        /\ \A r \in DOMAIN results : Staled[r].run = results[r].run
    BY <2>1, StaledRows, DomainIsInterval
  <2>3. QED
    BY <1>1, <2>2 DEF Visible, TypeOK
<1>5. text \in Nat \ {0} /\ source.deleted \in BOOLEAN
  BY <1>1 DEF TypeOK
<1>6. source' \in [revision : Nat \ {0}, deleted : BOOLEAN]
  BY <1>1, <1>2, <1>5 DEF TypeOK
<1>7. edit.direct \in SUBSET Processors
  BY <1>1 DEF TypeOK
<1> HIDE DEF rows, text
<1>8. /\ DOMAIN basis \subseteq Processors
      /\ \A p \in DOMAIN basis : /\ basis[p] \in Basis
                                 /\ Fed(p, basis[p].inputs, Staled)
  BY <1>1, <1>2, <1>4, <1>5, <1>7, OutdatedTyped
<1> HIDE DEF basis
<1>9. Evolves /\ \A i \in Attempts : runs'[i] = rows[i]
  <2>1. \A p \in DOMAIN basis : /\ basis[p] \in Basis
                                /\ Fed(p, basis[p].inputs, results')
    BY <1>2, <1>8
  <2>2. None \in Nat
    BY DEF None
  <2>3. QED
    BY <1>1, <1>2, <1>3, <1>8, <2>1, <2>2, RunsQueued
<1>10. Core
  BY <1>2, <1>3, <1>9 DEF Core, Stales, NoneSucceeds
<1>11. RestTyped'
  <2>1. BoundsTyped'
    BY <1>1, <1>2, BoundsKept
  <2>2. QED
    BY <1>1, <1>2, <1>6, <2>1, NoEditTyped DEF TypeOK, RestTyped
<1>12. OrderInv' /\ EditInv'
  BY <1>2, <1>10, OrderUntouched, EditUntouched DEF Inv
<1>13. QED
  BY <1>2, <1>10, <1>11, <1>12, OwnerStepOK

LEMMA SmallOwnerSteps ==
  ASSUME Inv, RefuseEdit \/ Delete \/ Restore PROVE StepOK
<1>1. TypeOK
  BY DEF Inv
<1>2. /\ Core /\ UNCHANGED <<workers, order, batches>>
      /\ edit' = edit \/ edit' = NoEdit
  BY QuietCore DEF RefuseEdit, Delete, Restore
<1>3. BoundsTyped'
  BY <1>1, LimitsAssumption, SMTT(30)
  DEF TypeOK, BoundsTyped, bounds, RefuseEdit, Delete, Restore
<1>4. source' \in [revision : Nat \ {0}, deleted : BOOLEAN]
  BY <1>1 DEF TypeOK, RefuseEdit, Delete, Restore
<1>5. RestTyped'
  BY <1>1, <1>2, <1>3, <1>4, NoEditTyped DEF TypeOK, RestTyped
<1>6. OrderInv' /\ EditInv'
  BY <1>1, <1>2, OrderUntouched, EditUntouched DEF Inv
<1>7. QED
  BY <1>2, <1>5, <1>6, OwnerStepOK

LEMMA BeginBatchStep ==
  ASSUME Inv, NEW S \in Selections, BeginBatch(S) PROVE StepOK
<1>1. TypeOK
  BY DEF Inv
<1>2. Core /\ UNCHANGED <<runs, results>>
  BY QuietCore DEF BeginBatch
<1>3. S \subseteq Processors /\ source.revision \in Nat /\ Visible(results)
  BY <1>1, ProcessorsAssumption DEF TypeOK, Visible
<1>4. ASSUME NEW p \in S
      PROVE  /\ Inputs(p, source.revision, results) \in Basis
             /\ Fed(p, Inputs(p, source.revision, results).inputs, results)
  BY <1>1, <1>3, InputsTyped DEF BeginBatch
<1>5. /\ DOMAIN order' = S
      /\ \A p \in S : order'[p] = Inputs(p, source.revision, results)
  BY DEF BeginBatch
<1>6. BoundsTyped'
  BY <1>1, BoundsKept DEF BeginBatch
<1>7. RestTyped'
  BY <1>1, <1>3, <1>4, <1>5, <1>6 DEF TypeOK, RestTyped, BeginBatch
<1>8. OrderInv'
  <2>1. \A p \in S : Fed(p, order'[p].inputs, results)
    BY <1>4, <1>5
  <2>2. QED
    BY <1>2, <1>5, <2>1 DEF OrderInv, Fed
<1>9. EditInv'
  BY DEF Inv, EditInv, BeginBatch
<1>10. QED
  BY <1>2, <1>7, <1>8, <1>9, OwnerStepOK DEF BeginBatch

LEMMA CommitBatchStep ==
  ASSUME Inv, CommitBatch PROVE StepOK
<1>1. TypeOK /\ RetryInv /\ OrderInv
  BY DEF Inv
<1>2. /\ Queue(order, runs, Len(batches) + 1) /\ order' = NoOrder
      /\ batches' = Append(batches, "active")
      /\ UNCHANGED <<source, results, shown, workers, edit, bounds>>
  BY DEF CommitBatch
<1>3. Rewritten(runs)
  BY <1>1, EvolvedItself DEF TypeOK, Rewritten
<1>4. /\ DOMAIN order \subseteq Processors
      /\ \A p \in DOMAIN order : /\ order[p] \in Basis
                                 /\ Fed(p, order[p].inputs, results')
  BY <1>1, <1>2 DEF TypeOK, OrderInv
<1>5. Len(batches) + 1 \in Nat
  BY <1>1 DEF TypeOK
<1>6. Evolves /\ \A i \in Attempts : runs'[i] = runs[i]
  BY <1>1, <1>2, <1>3, <1>4, <1>5, RunsQueued
<1>7. Core
  BY <1>2, <1>6 DEF Core, Silent, NoneSucceeds
<1>8. /\ DOMAIN order' = {}
      /\ batches' \in Seq({"active", "canceled"})
  BY <1>1, <1>2 DEF TypeOK, NoOrder
<1>9. RestTyped'
  BY <1>1, <1>2, <1>8, BoundsKept DEF TypeOK, RestTyped
<1>10. OrderInv' /\ EditInv'
  BY <1>1, <1>2, <1>7, <1>8, EditUntouched DEF Inv, OrderInv
<1>11. QED
  BY <1>2, <1>7, <1>9, <1>10, OwnerStepOK

LEMMA CancelBatchStep ==
  ASSUME Inv, NEW b \in DOMAIN batches, CancelBatch(b) PROVE StepOK
<1>1. TypeOK /\ RetryInv
  BY DEF Inv
<1> DEFINE S == {i \in Attempts : runs[i].batch = b}
<1>2. /\ runs' = Cancel(S) /\ batches' = [batches EXCEPT ![b] = "canceled"]
      /\ UNCHANGED <<source, jobs, results, shown, workers, edit, order, bounds>>
  BY DEF CancelBatch
<1>3. runs \in Seq(Run)
  BY <1>1 DEF TypeOK
<1> HIDE DEF S
<1>4. /\ Rewritten(runs')
      /\ \A i \in Attempts : runs'[i].status = "succeeded" <=> runs[i].status = "succeeded"
  BY <1>2, <1>3, CancelRewrites, Zenon
<1>5. Core
  BY <1>1, <1>2, <1>4, RunsRewritten DEF Core, Silent, NoneSucceeds
<1>6. batches' \in Seq({"active", "canceled"})
  BY <1>1, <1>2, ExceptFacts DEF TypeOK
<1>7. RestTyped'
  BY <1>1, <1>2, <1>6, BoundsKept DEF TypeOK, RestTyped
<1>8. OrderInv' /\ EditInv'
  BY <1>1, <1>2, <1>5, OrderUntouched, EditUntouched DEF Inv
<1>9. QED
  BY <1>2, <1>5, <1>7, <1>8, OwnerStepOK

-----------------------------------------------------------------------------
(* Every step                                                              *)

LEMMA EveryStep ==
  ASSUME Inv, [Next]_vars PROVE StepOK
<1>1. CASE OwnerStep
  BY <1>1, BeginEditStep, CommitEditStep, SmallOwnerSteps, BeginBatchStep,
     CommitBatchStep, CancelBatchStep DEF OwnerStep
<1>2. CASE FetchAny
  BY <1>2, FetchStep DEF FetchAny
<1>3. ASSUME NEW w \in Workers, WorkerStep(w) PROVE StepOK
  BY <1>3, LoadStep, MarkCanceledStep, MarkRunningStep, GenerateStep,
     CompleteStep, MarkFailedStep, SettleStep DEF WorkerStep
<1>4. CASE ReclaimAny
  BY <1>4, ReclaimStep DEF ReclaimAny
<1>5. CASE FaultStep
  BY <1>5, FaultOK
<1>6. CASE UNCHANGED vars
  <2>1. UNCHANGED <<source, runs, jobs, results, shown, workers, edit, order, batches>>
        /\ UNCHANGED bounds
    BY <1>6 DEF vars
  <2>2. /\ TypeOK /\ ReportsInv /\ Core
    BY <2>1, QuietCore DEF Inv
  <2>3. DeliveriesTyped' /\ ReportsInv'
    BY <2>1, <2>2, DeliveriesUntouched DEF Core
  <2>4. RestTyped' /\ OrderInv' /\ EditInv'
    BY <2>1, <2>2, FrameKept, BoundsKept DEF Inv
  <2>5. QED
    BY <2>2, <2>3, <2>4 DEF StepOK
<1>7. QED
  BY <1>1, <1>2, <1>3, <1>4, <1>5, <1>6 DEF Next

LEMMA TypeStep == ASSUME Inv, StepOK PROVE TypeOK' /\ RetryInv'
<1>1. /\ TypeOK /\ Core /\ Evolves /\ ResultsTyped' /\ JobsTyped'
      /\ DeliveriesTyped' /\ RestTyped'
  BY ResultsStep DEF Inv, StepOK, Core, Evolves
<1>2. runs' \in Seq(Run)
  BY <1>1 DEF Evolves
<1>3. jobs' \in Seq(Job) /\ Len(jobs') = Len(runs') /\ RetryInv'
  BY <1>1 DEF JobsTyped
<1>4. /\ results' \in Seq(Result) /\ shown' \in [Processors -> Nat]
      /\ \A r \in DOMAIN results' : results'[r].run \in Attempts'
  BY <1>1 DEF ResultsTyped, Visible
<1>5. /\ workers' \in [Workers -> Delivery]
      /\ \A w \in Workers : workers'[w].pc # "idle" => workers'[w].run \in Attempts'
  BY <1>1 DEF DeliveriesTyped
<1>6. QED
  BY <1>1, <1>2, <1>3, <1>4, <1>5 DEF TypeOK, RestTyped, BoundsTyped

\* The runs after a step are those before it and new ones that are queued.
LEMMA QueuedAfter ==
  ASSUME Inv, StepOK
  PROVE  QueuedClean' /\ QueuedRunsKeepTheirJob'
<1>1. /\ TypeOK /\ QueuedClean /\ QueuedRunsKeepTheirJob /\ Evolves
  BY DEF Inv, StepOK, Core
<1>2. /\ KeepsJobs /\ AddsQueuedRuns
      /\ \A i \in Attempts : Evolved(runs[i], runs'[i])
  BY <1>1 DEF Evolves
<1>3. NewJob.state # "completed"
  BY NewJobTyped
<1>4. ASSUME NEW i \in Attempts', runs'[i].status = "queued"
      PROVE  runs'[i].error = "none" /\ jobs'[i].state # "completed"
  <2>1. CASE i \in Attempts
    <3>1. runs[i].status = "queued" /\ runs'[i].error = runs[i].error
      BY <1>2, <1>4, <2>1 DEF Evolved
    <3>2. QED
      BY <1>1, <1>2, <2>1, <3>1 DEF QueuedClean, QueuedRunsKeepTheirJob, KeepsJobs
  <2>2. CASE i \notin Attempts
    BY <1>2, <1>3, <2>2 DEF AddsQueuedRuns, Attempts
  <2>3. QED
    BY <2>1, <2>2
<1>5. QED
  BY <1>4 DEF QueuedClean, QueuedRunsKeepTheirJob, Attempts

\* The runs behind the results of a step were there before it.
LEMMA ResultsOwned ==
  ASSUME Inv, StepOK
  PROVE  \A r \in DOMAIN results' : results'[r].run \in Attempts
<1>1. /\ results \in Seq(Result) /\ DOMAIN results = 1..Len(results)
      /\ Len(results) \in Nat
      /\ \A r \in DOMAIN results : results[r].run \in Attempts
  BY DomainIsInterval DEF Inv, TypeOK
<1>2. CASE Silent
  BY <1>1, <1>2 DEF Silent
<1>3. CASE Stales
  BY <1>1, <1>3, StaledRows, DomainIsInterval DEF Stales
<1>4. ASSUME NEW i \in Attempts, PublishedBy(i)
      PROVE  \A r \in DOMAIN results' : results'[r].run \in Attempts
  <2>1. PICK result \in Result :
          result.run = i /\ results' = Append(results, result)
    BY <1>4 DEF PublishedBy
  <2>2. /\ DOMAIN results' = 1..(Len(results) + 1)
        /\ \A r \in 1..Len(results) : results'[r] = results[r]
        /\ results'[Len(results) + 1] = result
    BY <1>1, <2>1, AppendFacts, DomainIsInterval
  <2>3. QED
    BY <1>1, <2>1, <2>2
<1>5. QED
  BY <1>2, <1>3, <1>4 DEF StepOK, Core

LEMMA InputsAfter ==
  ASSUME Inv, StepOK PROVE InputsAreAccepted'
<1>1. /\ TypeOK /\ Evolves /\ ResultsKept
      /\ \A i \in Attempts : Fed(runs[i].processor, runs[i].inputs, results)
  BY ResultsStep DEF Inv, StepOK, Core, InputsAreAccepted, Fed
<1>2. ASSUME NEW i \in Attempts PROVE FedNext(runs'[i].processor, runs'[i].inputs)
  <2>1. runs'[i].processor = runs[i].processor /\ runs'[i].inputs = runs[i].inputs
    BY <1>1 DEF Evolves, Evolved
  <2>2. FedNext(runs[i].processor, runs[i].inputs)
    BY <1>1, FedStays
  <2>3. QED
    BY <2>1, <2>2
<1>3. ASSUME NEW i \in DOMAIN runs' \ Attempts
      PROVE  FedNext(runs'[i].processor, runs'[i].inputs)
  <2>1. Fed(runs'[i].processor, runs'[i].inputs, results')
    BY <1>1 DEF Evolves, AddsQueuedRuns
  <2>2. \A r \in DOMAIN results' :
           runs'[results'[r].run].processor = runs[results'[r].run].processor
    BY <1>1, ResultsOwned DEF Evolves, Evolved
  <2>3. QED
    BY <2>1, <2>2 DEF Fed, FedNext
<1>4. QED
  BY <1>2, <1>3 DEF InputsAreAccepted, FedNext, Attempts

-----------------------------------------------------------------------------
(* Results and what is shown of them, after a step                         *)

\* A run that has succeeded after a step was there before it.
LEMMA SucceededWasThere ==
  ASSUME Inv, StepOK, NEW i \in Attempts', runs'[i].status = "succeeded"
  PROVE  i \in Attempts
  BY DEF StepOK, Core, Evolves, AddsQueuedRuns, Attempts

LEMMA SucceededStays ==
  ASSUME Inv, StepOK, NEW i \in Attempts, runs[i].status = "succeeded"
  PROVE  i \in Attempts' /\ runs'[i].status = "succeeded"
  BY AttemptsGrow DEF Inv, StepOK, Core, Evolves, Evolved

LEMMA PublishedAfter ==
  ASSUME Inv, StepOK PROVE PublishedOnce'
<1>1. /\ TypeOK /\ PublishedOnce /\ ResultsKept
  BY ResultsStep DEF Inv, StepOK
<1>2. /\ results \in Seq(Result) /\ DOMAIN results = 1..Len(results)
      /\ Len(results) \in Nat
      /\ \A r \in DOMAIN results : results[r].run \in Attempts
  BY <1>1, DomainIsInterval DEF TypeOK
<1>3. \A r \in DOMAIN results :
        results'[r].run = results[r].run /\ runs'[results'[r].run].status = "succeeded"
  BY <1>1, <1>2, SucceededStays DEF ResultsKept, PublishedOnce
<1>4. CASE DOMAIN results' = DOMAIN results /\ NoneSucceeds
  <2>1. \A r, s \in DOMAIN results' : results'[r].run = results'[s].run => r = s
    BY <1>1, <1>3, <1>4 DEF PublishedOnce
  <2>2. ASSUME NEW i \in Attempts', runs'[i].status = "succeeded"
        PROVE  \E r \in DOMAIN results' : results'[r].run = i
    <3>1. i \in Attempts /\ runs[i].status = "succeeded"
      BY <1>4, <2>2, SucceededWasThere DEF NoneSucceeds
    <3>2. PICK r \in DOMAIN results : results[r].run = i
      BY <1>1, <3>1 DEF PublishedOnce
    <3>3. QED
      BY <1>3, <1>4, <3>2
  <2>3. QED
    BY <1>3, <1>4, <2>1, <2>2 DEF PublishedOnce
<1>5. ASSUME NEW i \in Attempts, PublishedBy(i) PROVE PublishedOnce'
  <2>1. PICK result \in Result :
          result.run = i /\ results' = Append(results, result)
    BY <1>5 DEF PublishedBy
  <2>2. /\ DOMAIN results' = 1..(Len(results) + 1)
        /\ \A r \in 1..Len(results) : results'[r] = results[r]
        /\ results'[Len(results) + 1].run = i
    BY <1>2, <2>1, AppendFacts, DomainIsInterval
  <2>3. /\ runs[i].status # "succeeded" /\ runs'[i].status = "succeeded"
        /\ \A j \in Attempts \ {i} :
             runs'[j].status = "succeeded" <=> runs[j].status = "succeeded"
    BY <1>5 DEF PublishedBy
  <2>4. \A r \in DOMAIN results : results[r].run # i
    BY <1>1, <2>3 DEF PublishedOnce
  <2>5. \A r \in DOMAIN results' : runs'[results'[r].run].status = "succeeded"
    BY <1>2, <1>3, <2>2, <2>3
  <2>6. \A r, s \in DOMAIN results' : results'[r].run = results'[s].run => r = s
    <3>1. \A r, s \in DOMAIN results : results[r].run = results[s].run => r = s
      BY <1>1 DEF PublishedOnce
    <3>2. QED
      BY <1>2, <2>2, <2>4, <3>1
  <2>7. ASSUME NEW j \in Attempts', runs'[j].status = "succeeded"
        PROVE  \E r \in DOMAIN results' : results'[r].run = j
    <3>1. CASE j = i
      <4>1. Len(results) + 1 \in DOMAIN results'
        BY <1>2, <2>2
      <4>2. QED
        BY <2>2, <3>1, <4>1
    <3>2. CASE j # i
      <4>1. j \in Attempts
        BY <2>7, SucceededWasThere
      <4>2. runs[j].status = "succeeded"
        BY <2>3, <2>7, <3>2, <4>1
      <4>3. PICK r \in DOMAIN results : results[r].run = j
        BY <1>1, <4>1, <4>2 DEF PublishedOnce
      <4>4. r \in DOMAIN results' /\ results'[r].run = j
        BY <1>1, <4>3 DEF ResultsKept
      <4>5. QED
        BY <4>4
    <3>3. QED
      BY <3>1, <3>2
  <2>8. QED
    BY <2>5, <2>6, <2>7 DEF PublishedOnce
<1>6. Silent \/ Stales => DOMAIN results' = DOMAIN results /\ NoneSucceeds
  BY <1>2, StaledRows, DomainIsInterval DEF Silent, Stales
<1>7. QED
  BY <1>4, <1>5, <1>6 DEF StepOK, Core

LEMMA ShownAfter ==
  ASSUME Inv, StepOK PROVE ShownIsFresh'
<1>1. /\ TypeOK /\ ShownIsFresh /\ ResultsKept
      /\ \A i \in Attempts : runs'[i].processor = runs[i].processor
  BY ResultsStep DEF Inv, StepOK, Core, Evolves, Evolved
<1>2. /\ results \in Seq(Result) /\ DOMAIN results = 1..Len(results)
      /\ Len(results) \in Nat /\ shown \in [Processors -> Nat]
      /\ \A r \in DOMAIN results : results[r].run \in Attempts
  BY <1>1, DomainIsInterval DEF TypeOK
\* What was shown stays fresh unless its result becomes stale.
<1>3. ASSUME NEW p \in Processors, shown[p] # None,
             ~results'[shown[p]].stale
      PROVE  /\ shown[p] \in DOMAIN results'
             /\ runs'[results'[shown[p]].run].processor = p
             /\ ~results'[shown[p]].stale
  BY <1>1, <1>2, <1>3 DEF ShownIsFresh, ResultsKept
<1>4. CASE Silent
  BY <1>1, <1>3, <1>4 DEF Silent, ShownIsFresh
<1>5. CASE Stales
  <2>1. ASSUME NEW p \in Processors, shown'[p] # None
        PROVE  /\ shown'[p] = shown[p] /\ shown[p] # None
               /\ ~results'[shown[p]].stale
    <3>1. shown'[p] = shown[p] /\ shown[p] \notin edit.results
      BY <1>5, <2>1 DEF Stales, Deactivated
    <3>2. shown[p] # None /\ shown[p] \in DOMAIN results /\ ~results[shown[p]].stale
      BY <1>1, <2>1, <3>1 DEF ShownIsFresh
    <3>3. results'[shown[p]].stale <=>
             results[shown[p]].stale \/ shown[p] \in edit.results
      BY <1>2, <1>5, <3>2, StaledRows DEF Stales
    <3>4. QED
      BY <3>1, <3>2, <3>3, Zenon
  <2>2. QED
    BY <1>3, <2>1 DEF ShownIsFresh
<1>6. ASSUME NEW i \in Attempts, PublishedBy(i) PROVE ShownIsFresh'
  <2>1. PICK result \in Result :
          result.run = i /\ ~result.stale /\ results' = Append(results, result)
    BY <1>6 DEF PublishedBy
  <2>2. /\ DOMAIN results' = 1..(Len(results) + 1)
        /\ \A r \in 1..Len(results) : results'[r] = results[r]
        /\ results'[Len(results) + 1] = result
    BY <1>2, <2>1, AppendFacts, DomainIsInterval
  <2>3. ASSUME NEW p \in Processors, shown'[p] # None
        PROVE  /\ shown'[p] \in DOMAIN results'
               /\ runs'[results'[shown'[p]].run].processor = p
               /\ ~results'[shown'[p]].stale
    <3>1. CASE shown'[p] = shown[p]
      <4>1. shown[p] # None /\ shown[p] \in DOMAIN results /\ ~results[shown[p]].stale
        BY <1>1, <2>3, <3>1 DEF ShownIsFresh
      <4>2. ~results'[shown[p]].stale
        BY <1>2, <2>2, <4>1
      <4>3. QED
        BY <1>3, <3>1, <4>1, <4>2
    <3>2. CASE shown'[p] # shown[p]
      <4>1. shown'[p] = Len(results) + 1 /\ p = runs[i].processor
        BY <1>2, <1>6, <3>2 DEF PublishedBy
      <4>2. Len(results) + 1 \in DOMAIN results'
        BY <1>2, <2>2
      <4>3. QED
        BY <1>1, <2>1, <2>2, <4>1, <4>2
    <3>3. QED
      BY <3>1, <3>2
  <2>4. QED
    BY <2>3 DEF ShownIsFresh
<1>7. QED
  BY <1>4, <1>5, <1>6 DEF StepOK, Core

-----------------------------------------------------------------------------
(* The invariant                                                           *)

LEMMA InvInit == Init => Inv
<1> SUFFICES ASSUME Init PROVE Inv
  OBVIOUS
<1>1. /\ runs = <<>> /\ jobs = <<>> /\ results = <<>> /\ batches = <<>>
      /\ Attempts = {} /\ DOMAIN results = {} /\ DOMAIN jobs = {}
  BY DEF Init, Attempts
<1>2. /\ workers = [w \in Workers |-> Idle] /\ Idle \in Delivery /\ Idle.pc = "idle"
  BY DEF Init, Idle, Delivery, Step, RunError, None
<1>3. DOMAIN order = {}
  BY DEF Init, NoOrder
<1>4. edits = 0 /\ deletes = 0 /\ crashes = 0 /\ stalls = 0
  BY DEF Init
<1>5. TypeOK
  <2>1. source \in [revision : Nat \ {0}, deleted : BOOLEAN]
    BY DEF Init
  <2>2. shown \in [Processors -> Nat]
    BY DEF Init, None
  <2>3. edit \in [open : BOOLEAN, direct : SUBSET Processors,
                  runs : SUBSET (Nat \ {0}), results : SUBSET (Nat \ {0})]
    BY NoEditTyped DEF Init
  <2>4. QED
    BY <1>1, <1>2, <1>3, <1>4, <2>1, <2>2, <2>3, LimitsAssumption DEF TypeOK
<1>6. ReportsInv /\ OrderInv
  BY <1>2, <1>3 DEF ReportsInv, OrderInv
<1>7. EditInv
  BY DEF Init, EditInv, NoEdit
<1>8. ShownIsFresh
  BY DEF Init, ShownIsFresh
<1>9. QED
  BY <1>1, <1>5, <1>6, <1>7, <1>8 DEF Inv, QueuedClean, RetryInv, PublishedOnce,
     QueuedRunsKeepTheirJob, InputsAreAccepted

LEMMA InvStep == Inv /\ [Next]_vars => Inv'
<1> SUFFICES ASSUME Inv, [Next]_vars PROVE Inv'
  OBVIOUS
<1>1. StepOK
  BY EveryStep
<1>2. QED
  BY <1>1, TypeStep, QueuedAfter, PublishedAfter, ShownAfter, InputsAfter
  DEF Inv, StepOK

\* The inductive invariant.
THEOREM Invariance == Spec => []Inv
<1>1. QED
  BY InvInit, InvStep, PTL DEF Spec

\* The rows, the jobs and the deliveries keep their shape, and every reference
\* points to a row that exists.
THEOREM TypeCorrectness == Spec => []TypeOK
<1>1. Inv => TypeOK
  BY DEF Inv
<1>2. QED
  BY <1>1, Invariance, PTL

\* A run publishes one result, if it succeeds, however often its job is delivered.
THEOREM PublishesOnce == Spec => []PublishedOnce
<1>1. Inv => PublishedOnce
  BY DEF Inv
<1>2. QED
  BY <1>1, Invariance, PTL

\* The queue does not complete the job of a run that was not started.
THEOREM QueuedRunsAreExecuted == Spec => []QueuedRunsKeepTheirJob
<1>1. Inv => QueuedRunsKeepTheirJob
  BY DEF Inv
<1>2. QED
  BY <1>1, Invariance, PTL

\* No artifact shows a result that an edit made stale, or one of another processor.
THEOREM ShowsFreshResults == Spec => []ShownIsFresh
<1>1. Inv => ShownIsFresh
  BY DEF Inv
<1>2. QED
  BY <1>1, Invariance, PTL

\* Whoever queues a run binds inputs its processor depends on and accepts.
THEOREM BindsAcceptedInputs == Spec => []InputsAreAccepted
<1>1. Inv => InputsAreAccepted
  BY DEF Inv
<1>2. QED
  BY <1>1, Invariance, PTL

\* No later delivery, retry or cancellation changes a success or a cancellation.
THEOREM SettledRunsAreFinal == Spec => SettledRunsStay
<1> DEFINE A == \A i \in Attempts :
                   runs[i].status \in {"succeeded", "canceled"} =>
                       runs'[i].status = runs[i].status
<1>1. Inv /\ [Next]_vars => [A]_vars
  BY EveryStep DEF StepOK, Core, Evolves, Evolved
<1>2. QED
  BY <1>1, Invariance, PTL DEF Spec, SettledRunsStay

-----------------------------------------------------------------------------
(* Refinement                                                              *)

History == [r \in DOMAIN results |-> runs[results[r].run].processor]
Withdrawn == {r \in DOMAIN results : results[r].stale}

\* No processor of a run changes, so the history is rewritten only by growing.
LEMMA HistoryStep ==
  ASSUME Inv, StepOK
  PROVE  /\ History \in Seq(Processors) /\ Len(History) = Len(results)
         /\ \A r \in DOMAIN results : History'[r] = History[r]
<1>1. /\ results \in Seq(Result) /\ runs \in Seq(Run)
      /\ \A r \in DOMAIN results : results[r].run \in Attempts
  BY DEF Inv, TypeOK
<1>2. ASSUME NEW r \in DOMAIN results
      PROVE  runs[results[r].run].processor \in Processors
  <2>1. results[r].run \in Attempts
    BY <1>1
  <2>2. runs[results[r].run] \in Run
    BY <1>1, <2>1 DEF Attempts
  <2>3. QED
    BY <2>2 DEF Run
<1>3. DOMAIN results = 1..Len(results) /\ Len(results) \in Nat
  BY <1>1, DomainIsInterval
<1>4. History \in [1..Len(results) -> Processors]
  BY <1>2, <1>3 DEF History
<1>5. History \in Seq(Processors) /\ Len(History) = Len(results)
  BY <1>3, <1>4
<1>6. ASSUME NEW r \in DOMAIN results PROVE History'[r] = History[r]
  <2>1. r \in DOMAIN results' /\ results'[r].run = results[r].run
    BY ResultsStep DEF Inv, StepOK, ResultsKept
  <2>2. runs'[results[r].run].processor = runs[results[r].run].processor
    BY <1>1 DEF StepOK, Core, Evolves, Evolved
  <2>3. QED
    BY <2>1, <2>2 DEF History
<1>7. QED
  BY <1>5, <1>6

LEMMA DerivedStep ==
  ASSUME Inv, StepOK PROVE [Derived!DerivedNext]_(Derived!derived)
<1>1. /\ History \in Seq(Processors) /\ Len(History) = Len(results)
      /\ \A r \in DOMAIN results : History'[r] = History[r]
      /\ DOMAIN History = DOMAIN results /\ DOMAIN History' = DOMAIN results'
  BY HistoryStep DEF History
<1>2. /\ results \in Seq(Result) /\ DOMAIN results = 1..Len(results)
      /\ Len(results) \in Nat
  BY DomainIsInterval DEF Inv, TypeOK
<1>3. ASSUME DOMAIN results' = DOMAIN results PROVE History' = History
  <2>1. /\ History' = [r \in DOMAIN results |-> History'[r]]
        /\ History = [r \in DOMAIN results |-> History[r]]
    BY <1>3 DEF History
  <2>2. QED
    BY <1>1, <2>1, Zenon
<1>4. CASE Silent
  <2>1. History' = History /\ Withdrawn' = Withdrawn /\ shown' = shown
    BY <1>3, <1>4 DEF Silent, Withdrawn
  <2>2. QED
    BY <2>1 DEF Derived!derived, History, Withdrawn
<1>5. CASE Stales
  <2>1. /\ DOMAIN results' = DOMAIN results
        /\ \A r \in DOMAIN results :
             results'[r].stale <=> results[r].stale \/ r \in edit.results
    BY <1>2, <1>5, StaledRows, DomainIsInterval DEF Stales
  <2>2. edit.results \subseteq DOMAIN History
    BY <1>1 DEF Inv, EditInv
  <2>3. Withdrawn' = Withdrawn \cup edit.results
    BY <1>1, <2>1, <2>2, Zenon DEF Withdrawn
  <2>4. /\ History' = History
        /\ shown' = [p \in Processors |-> IF shown[p] \in edit.results THEN 0 ELSE shown[p]]
    BY <1>3, <1>5, <2>1 DEF Stales, Deactivated, None
  <2>5. /\ edit.results \in SUBSET DOMAIN History
        /\ Withdrawn' = Withdrawn \cup edit.results
        /\ shown' = [p \in Processors |-> IF shown[p] \in edit.results THEN 0 ELSE shown[p]]
        /\ UNCHANGED History
    BY <2>2, <2>3, <2>4
  <2>6. Derived!DerivedNext
    BY <2>5, Zenon DEF Derived!DerivedNext, Derived!Withdraw, History, Withdrawn
  <2>7. QED
    BY <2>6, Zenon
<1>6. ASSUME NEW i \in Attempts, PublishedBy(i)
      PROVE  Derived!DerivedNext
  <2> DEFINE p == runs[i].processor
  <2>1. p \in Processors
    <3>1. runs[i] \in Run
      BY DEF Inv, TypeOK, Attempts
    <3>2. QED
      BY <3>1 DEF Run
  <2>2. PICK result \in Result :
          result.run = i /\ ~result.stale /\ results' = Append(results, result)
    BY <1>6 DEF PublishedBy
  <2>3. /\ DOMAIN results' = 1..(Len(results) + 1)
        /\ \A r \in 1..Len(results) : results'[r] = results[r]
        /\ results'[Len(results) + 1] = result
    BY <1>2, <2>2, AppendFacts, DomainIsInterval
  <2>4. Withdrawn' = Withdrawn
    BY <1>2, <2>2, <2>3 DEF Withdrawn
  <2>5. History' = Append(History, p)
    <3>1. Len(results) + 1 \in DOMAIN results'
      BY <1>2, <2>3
    <3>2. History'[Len(results) + 1] = runs'[i].processor
      BY <2>2, <2>3, <3>1 DEF History
    <3>3. runs'[i].processor = p
      BY DEF StepOK, Core, Evolves, Evolved
    <3>4. History' = [r \in 1..(Len(results) + 1) |-> History'[r]]
      BY <2>3 DEF History
    <3>5. Append(History, p) = [r \in 1..(Len(results) + 1) |->
                                  IF r = Len(results) + 1 THEN p ELSE History[r]]
      BY <1>1, <1>2, <2>1
    <3>6. \A r \in 1..(Len(results) + 1) :
            History'[r] = IF r = Len(results) + 1 THEN p ELSE History[r]
      BY <1>1, <1>2, <3>2, <3>3
    <3>7. QED
      BY <3>4, <3>5, <3>6, Zenon
  <2>6. \/ shown' = [shown EXCEPT ![p] = Len(History) + 1]
        \/ shown[p] # 0 /\ UNCHANGED shown
    BY <1>1, <1>6 DEF PublishedBy, None
  <2> HIDE DEF p
  <2>7. QED
    BY <2>1, <2>4, <2>5, <2>6, Zenon
    DEF Derived!DerivedNext, Derived!Produce, History, Withdrawn
<1>7. QED
  BY <1>4, <1>5, <1>6 DEF StepOK, Core

\* The readers of a day see results appear, be replaced and be withdrawn, and
\* nothing else: no withdrawn result is ever shown again.
THEOREM ImplementsDerivedResults == Spec => DerivedSpec
<1>1. Init => Derived!DerivedInit
  BY DEF Init, Derived!DerivedInit, None
<1>2. Inv /\ [Next]_vars => [Derived!DerivedNext]_(Derived!derived)
  BY EveryStep, DerivedStep
<1>3. QED
  BY <1>1, <1>2, Invariance, PTL DEF Spec, DerivedSpec, Derived!DerivedSpec

-----------------------------------------------------------------------------
(* The texts behind a result                                               *)

\* The run behind a result, and what it contributes to the texts.
RunOf(r) == runs[results[r].run]
Ground(r) == {RunOf(r).text} \ {None}

\* f satisfies the recursive definition of the sets base[r] and those of inputs[r].
Solves(f, D, base, inputs) ==
    /\ f = [r \in D |-> f[r]]
    /\ \A r \in D : f[r] = base[r] \cup UNION {f[i] : i \in inputs[r]}

\* A recursive definition over D has a solution, the least one, whether or not
\* the references among D are acyclic.
LEMMA HasSolution ==
  ASSUME NEW D, NEW base, NEW inputs, \A r \in D : inputs[r] \subseteq D
  PROVE  \E f : Solves(f, D, base, inputs)
<1> DEFINE U == UNION {base[r] : r \in D}
           Closed(t, X) == \A r \in D :
                             (t \in base[r] \/ \E i \in inputs[r] : i \in X) => r \in X
           f == [r \in D |-> {t \in U : \A X \in SUBSET D : Closed(t, X) => r \in X}]
           g(r) == base[r] \cup UNION {f[i] : i \in inputs[r]}
<1>1. /\ f \in [D -> SUBSET U]
      /\ \A r \in D : \A t : t \in f[r] <=>
            t \in U /\ \A X \in SUBSET D : Closed(t, X) => r \in X
  <2> HIDE DEF U, Closed
  <2>1. QED
    OBVIOUS
<1>2. \A r \in D : base[r] \subseteq U
  OBVIOUS
<1> HIDE DEF f, U
<1>3. ASSUME NEW r \in D, NEW t \in g(r) PROVE t \in f[r]
  <2>1. CASE t \in base[r]
    BY <1>1, <1>2, <2>1
  <2>2. CASE \E i \in inputs[r] : t \in f[i]
    <3>1. PICK i \in inputs[r] : t \in f[i]
      BY <2>2
    <3>2. i \in D
      OBVIOUS
    <3>3. t \in U /\ \A X \in SUBSET D : Closed(t, X) => i \in X
      BY <1>1, <3>1, <3>2
    <3>4. ASSUME NEW X \in SUBSET D, Closed(t, X) PROVE r \in X
      <4>1. i \in X
        BY <3>3, <3>4
      <4>2. QED
        BY <3>4, <4>1
    <3>5. QED
      BY <1>1, <3>3, <3>4
  <2>3. QED
    BY <2>1, <2>2
<1>4. ASSUME NEW r \in D, NEW t \in f[r] PROVE t \in g(r)
  <2> DEFINE X == {s \in D : t \in g(s)}
  <2>1. ASSUME NEW s \in D, t \in base[s] \/ \E i \in inputs[s] : i \in X PROVE t \in g(s)
    <3>1. CASE t \in base[s]
      BY <3>1
    <3>2. CASE \E i \in inputs[s] : i \in X
      <4>1. PICK i \in inputs[s] : i \in D /\ t \in g(i)
        BY <3>2
      <4>2. t \in f[i]
        BY <1>3, <4>1
      <4>3. QED
        BY <4>2
    <3>3. QED
      BY <2>1, <3>1, <3>2
  <2> HIDE DEF g
  <2>2. X \in SUBSET D /\ Closed(t, X)
    BY <2>1
  <2>3. r \in X
    BY <1>1, <2>2
  <2>4. QED
    BY <2>3
<1>5. ASSUME NEW r \in D PROVE f[r] = g(r)
  BY <1>3, <1>4
<1>6. QED
  BY <1>1, <1>5 DEF Solves

\* Texts is one.
TextsDerived ==
    /\ DOMAIN Texts = DOMAIN results
    /\ \A r \in DOMAIN results :
         Texts[r] = Ground(r) \cup UNION {Texts[i] : i \in RunOf(r).inputs}

LEMMA TextsUnfold == TypeOK /\ InputsAreAccepted => TextsDerived
<1> SUFFICES ASSUME TypeOK, InputsAreAccepted PROVE TextsDerived
  OBVIOUS
<1> DEFINE base == [r \in DOMAIN results |-> Ground(r)]
           inputs == [r \in DOMAIN results |-> RunOf(r).inputs]
           value(f, r) == ({runs[results[r].run].text} \ {None})
                             \cup UNION {f[i] : i \in runs[results[r].run].inputs}
<1>1. \A r \in DOMAIN results : inputs[r] \subseteq DOMAIN results
  BY DEF TypeOK, InputsAreAccepted, RunOf
<1>2. \A r \in DOMAIN results : base[r] = Ground(r) /\ inputs[r] = RunOf(r).inputs
  OBVIOUS
<1> HIDE DEF base, inputs
<1>3. PICK f : Solves(f, DOMAIN results, base, inputs)
  BY <1>1, HasSolution
<1>4. ASSUME NEW r \in DOMAIN results PROVE f[r] = value(f, r)
  BY <1>2, <1>3 DEF Solves, Ground, RunOf
<1>5. f = [r \in DOMAIN results |-> value(f, r)]
  <2> HIDE DEF value
  <2>1. f = [r \in DOMAIN results |-> f[r]]
    BY <1>3, Zenon DEF Solves
  <2>2. QED
    BY <1>4, <2>1, Zenon
<1>6. Texts = [r \in DOMAIN results |-> value(Texts, r)]
  BY <1>5, Zenon DEF Texts
<1>7. \A r \in DOMAIN results :
         value(Texts, r) = Ground(r) \cup UNION {Texts[i] : i \in RunOf(r).inputs}
  BY Zenon DEF Ground, RunOf
<1>8. DOMAIN Texts = DOMAIN results /\ \A r \in DOMAIN results : Texts[r] = value(Texts, r)
  <2> HIDE DEF value
  <2>1. QED
    BY <1>6, Zenon
<1>9. QED
  BY <1>7, <1>8 DEF TextsDerived

LEMMA TextsUnfoldNext == TypeOK' /\ InputsAreAccepted' => TextsDerived'
  BY TextsUnfold, PTL

\* A result reads older results only, so its texts are known before it is there.
InputsEarlier ==
    \A r \in DOMAIN results : \A q \in RunOf(r).inputs : q < r

\* Every result that an edit in progress will make stale descends from the
\* revision that the edit replaces.
EditOutdated == edit.open => \A r \in edit.results : source.revision \in Texts[r]

\* What is stale descends from an older revision.
StaleDescends ==
    \A r \in DOMAIN results : results[r].stale =>
        \E t \in Nat : t \in Texts[r] /\ t < source.revision

\* A claim about results holds of every result if it holds of those that read
\* only results it holds of.
LEMMA ResultsInduction ==
  ASSUME NEW n \in Nat, NEW reads, NEW bad \in SUBSET (1..n),
         \A r \in 1..n : \A q \in reads[r] : q \in 1..n /\ q < r,
         \A r \in bad : \E q \in reads[r] : q \in bad
  PROVE  bad = {}
<1> SUFFICES ASSUME bad # {} PROVE FALSE
  OBVIOUS
<1>1. bad \subseteq Nat
  OBVIOUS
<1>2. PICK r \in bad : \A q \in bad : ~(<<q, r>> \in Below)
  BY <1>1, BelowWellFounded, WFMin
<1>3. PICK q \in reads[r] : q \in bad
  OBVIOUS
<1>4. q \in Nat /\ r \in Nat /\ q < r
  BY <1>1, <1>3
<1>5. QED
  BY <1>2, <1>3, <1>4 DEF Below

\* The run behind a result of before, and what it reads, stay.
LEMMA RunOfStays ==
  ASSUME Inv, StepOK, NEW r \in DOMAIN results
  PROVE  /\ r \in DOMAIN results'
         /\ RunOf(r)'.text = RunOf(r).text
         /\ RunOf(r)'.inputs = RunOf(r).inputs
         /\ Ground(r)' = Ground(r)
<1>1. r \in DOMAIN results' /\ results'[r].run = results[r].run
  BY ResultsStep DEF Inv, StepOK, ResultsKept
<1>2. results[r].run \in Attempts
  BY DEF Inv, TypeOK
<1>3. /\ runs'[results[r].run].text = runs[results[r].run].text
      /\ runs'[results[r].run].inputs = runs[results[r].run].inputs
  BY <1>2 DEF StepOK, Core, Evolves, Evolved
<1>4. QED
  BY <1>1, <1>3 DEF RunOf, Ground

\* A run that was there reads results that were there.
LEMMA InputsWereThere ==
  ASSUME Inv, NEW r \in DOMAIN results
  PROVE  RunOf(r).inputs \subseteq DOMAIN results
  BY DEF Inv, TypeOK, InputsAreAccepted, RunOf

\* The results after a step are those before it, or one more of a run that was
\* there.
LEMMA NewResult ==
  ASSUME Inv, StepOK
  PROVE  \A r \in DOMAIN results' \ DOMAIN results :
            /\ r = Len(results) + 1
            /\ results'[r].run \in Attempts
            /\ ~results'[r].stale
<1>1. results \in Seq(Result) /\ DOMAIN results = 1..Len(results) /\ Len(results) \in Nat
  BY DomainIsInterval DEF Inv, TypeOK
<1>2. CASE Silent
  BY <1>2 DEF Silent
<1>3. CASE Stales
  BY <1>3 DEF Stales, Staled
<1>4. ASSUME NEW i \in Attempts, PublishedBy(i), NEW r \in DOMAIN results' \ DOMAIN results
      PROVE  r = Len(results) + 1 /\ results'[r].run \in Attempts /\ ~results'[r].stale
  <2>1. PICK result \in Result :
          result.run = i /\ ~result.stale /\ results' = Append(results, result)
    BY <1>4 DEF PublishedBy
  <2>2. /\ DOMAIN results' = 1..(Len(results) + 1)
        /\ results'[Len(results) + 1] = result
    BY <1>1, <2>1, AppendFacts, DomainIsInterval
  <2>3. QED
    BY <1>1, <1>4, <2>1, <2>2
<1>5. QED
  BY <1>2, <1>3, <1>4 DEF StepOK, Core

LEMMA EarlierStep ==
  ASSUME Inv, StepOK, InputsEarlier PROVE InputsEarlier'
<1>1. DOMAIN results = 1..Len(results) /\ Len(results) \in Nat
  BY DomainIsInterval DEF Inv, TypeOK
<1>2. ASSUME NEW r \in DOMAIN results', NEW q \in RunOf(r)'.inputs PROVE q < r
  <2>1. CASE r \in DOMAIN results
    BY <1>2, <2>1, RunOfStays DEF InputsEarlier
  <2>2. CASE r \notin DOMAIN results
    <3>1. r = Len(results) + 1 /\ results'[r].run \in Attempts
      BY <2>2, NewResult
    <3>2. runs'[results'[r].run].inputs = runs[results'[r].run].inputs
      BY <3>1 DEF StepOK, Core, Evolves, Evolved
    <3>3. q \in runs[results'[r].run].inputs
      BY <1>2, <3>2 DEF RunOf
    <3>4. q \in DOMAIN results
      BY <3>1, <3>3 DEF Inv, InputsAreAccepted
    <3>5. QED
      BY <1>1, <3>1, <3>4
  <2>3. QED
    BY <2>1, <2>2
<1>3. QED
  BY <1>2 DEF InputsEarlier

\* The texts of a result never change.
LEMMA TextsStay ==
  ASSUME Inv, StepOK, Inv', InputsEarlier
  PROVE  \A r \in DOMAIN results : Texts'[r] = Texts[r]
<1>1. DOMAIN results = 1..Len(results) /\ Len(results) \in Nat
  BY DomainIsInterval DEF Inv, TypeOK
<1>2. TextsDerived /\ TextsDerived'
  BY TextsUnfold, TextsUnfoldNext DEF Inv
<1> DEFINE bad == {r \in DOMAIN results : Texts'[r] # Texts[r]}
           reads == [r \in DOMAIN results |-> RunOf(r).inputs]
<1>3. ASSUME NEW r \in 1..Len(results), NEW q \in reads[r]
      PROVE  q \in 1..Len(results) /\ q < r
  BY <1>1, <1>3, InputsWereThere DEF InputsEarlier
<1>4. ASSUME NEW r \in bad, \A q \in reads[r] : q \notin bad PROVE FALSE
  <2>1. r \in DOMAIN results /\ reads[r] = RunOf(r).inputs
    OBVIOUS
  <2>2. \A q \in RunOf(r).inputs : Texts'[q] = Texts[q]
    BY <1>4, <2>1, InputsWereThere
  <2>3. Texts[r] = Ground(r) \cup UNION {Texts[i] : i \in RunOf(r).inputs}
    BY <1>2, <2>1 DEF TextsDerived
  <2>4. Texts'[r] = Ground(r) \cup UNION {Texts'[i] : i \in RunOf(r).inputs}
    <3>1. /\ r \in DOMAIN results' /\ Ground(r)' = Ground(r)
          /\ RunOf(r)'.inputs = RunOf(r).inputs
      BY <2>1, RunOfStays
    <3>2. Texts'[r] = Ground(r)' \cup UNION {Texts'[i] : i \in RunOf(r)'.inputs}
      BY <1>2, <3>1 DEF TextsDerived
    <3>3. QED
      BY <3>1, <3>2, Zenon
  <2>5. {Texts'[i] : i \in RunOf(r).inputs} = {Texts[i] : i \in RunOf(r).inputs}
    BY <2>2
  <2>6. Texts'[r] = Texts[r]
    BY <2>3, <2>4, <2>5
  <2>7. QED
    BY <2>6
<1>5. bad \in SUBSET (1..Len(results))
  BY <1>1
<1> HIDE DEF bad, reads
<1>6. bad = {}
  BY <1>1, <1>3, <1>4, <1>5, ResultsInduction
<1>7. QED
  BY <1>6 DEF bad

\* A step that is neither half of an edit: no revision is written, and nothing
\* becomes stale.
BetweenEdits ==
    /\ source'.revision = source.revision
    /\ edit' = edit \/ edit' = NoEdit
    /\ \A r \in DOMAIN results : results'[r].stale = results[r].stale

LEMMA EditOrNot ==
  ASSUME Inv, [Next]_vars PROVE BeginEdit \/ CommitEdit \/ BetweenEdits
<1>1. results \in Seq(Result) /\ source \in [revision : Nat \ {0}, deleted : BOOLEAN]
  BY DEF Inv, TypeOK
<1>2. CASE UNCHANGED results /\ edit' \in {edit, NoEdit} /\ UNCHANGED source
  BY <1>2 DEF BetweenEdits
<1>3. CASE OwnerStep /\ ~BeginEdit /\ ~CommitEdit
  <2>1. CASE RefuseEdit
    BY <1>2, <2>1 DEF RefuseEdit
  <2>2. CASE Delete
    BY <1>1, <2>2 DEF Delete, BetweenEdits
  <2>3. CASE Restore
    BY <1>1, <2>3 DEF Restore, BetweenEdits
  <2>4. CASE \E S \in Selections : BeginBatch(S)
    BY <1>2, <2>4 DEF BeginBatch
  <2>5. CASE CommitBatch
    BY <1>2, <2>5 DEF CommitBatch
  <2>6. CASE \E b \in DOMAIN batches : CancelBatch(b)
    BY <1>2, <2>6 DEF CancelBatch
  <2>7. QED
    BY <1>3, <2>1, <2>2, <2>3, <2>4, <2>5, <2>6 DEF OwnerStep
<1>4. CASE FetchAny
  BY <1>2, <1>4 DEF FetchAny, Fetch
<1>5. ASSUME NEW w \in Workers, WorkerStep(w) PROVE BetweenEdits
  <2>1. UNCHANGED <<source, edit>>
    BY <1>5, Zenon DEF WorkerStep, Load, MarkCanceled, MarkRunning, Generate, Complete,
       MarkFailed, Settle
  <2>2. CASE Complete(w)
    <3>1. \/ UNCHANGED results
          \/ \E result \in Result : results' = Append(results, result)
      <4>1. CASE UNCHANGED results
        BY <4>1
      <4>2. CASE \E partial \in BOOLEAN :
                   results' = Append(results, [run |-> workers[w].run, partial |-> partial,
                                               stale |-> FALSE])
        <5>1. workers[w].run \in Nat \ {0}
          <6>1. workers[w].run \in Attempts
            BY <2>2 DEF Complete, Inv, TypeOK
          <6>2. QED
            BY <6>1, DomainIsInterval DEF Inv, TypeOK, Attempts
        <5>2. QED
          BY <4>2, <5>1 DEF Result
      <4>3. QED
        BY <2>2, <4>1, <4>2, Zenon DEF Complete, Publish
    <3>2. QED
      BY <1>1, <2>1, <3>1, AppendFacts, DomainIsInterval DEF BetweenEdits
  <2>3. CASE ~Complete(w)
    <3>1. UNCHANGED results
      BY <1>5, <2>3, Zenon DEF WorkerStep, Load, MarkCanceled, MarkRunning, Generate,
         MarkFailed, Settle
    <3>2. QED
      BY <2>1, <3>1 DEF BetweenEdits
  <2>4. QED
    BY <2>2, <2>3
<1>6. CASE ReclaimAny
  BY <1>2, <1>6 DEF ReclaimAny, Reclaim
<1>7. CASE FaultStep
  BY <1>2, <1>7, Zenon DEF FaultStep, Crash, Expire, StatementFails, LoseHeartbeat
<1>8. CASE UNCHANGED vars
  BY <1>2, <1>8 DEF vars
<1>9. QED
  BY <1>3, <1>4, <1>5, <1>6, <1>7, <1>8 DEF Next, OwnerStep

\* Everything a new edit selects descends from the revision it replaces.
LEMMA SelectionDescends ==
  ASSUME Inv, BeginEdit
  PROVE  \A r \in edit'.results : r \in DOMAIN results /\ source.revision \in Texts[r]
<1> DEFINE direct == {i \in Attempts : runs[i].text = source.revision}
           X == {i \in Attempts : \A r \in DOMAIN results :
                    results[r].run = i => source.revision \in Texts[r]}
<1>1. TextsDerived
  BY TextsUnfold DEF Inv
<1>2. ASSUME NEW i \in direct PROVE i \in X
  <2>1. source.revision # None /\ i \in Attempts /\ runs[i].text = source.revision
    BY DEF Inv, TypeOK, None
  <2>2. ASSUME NEW r \in DOMAIN results, results[r].run = i PROVE source.revision \in Texts[r]
    <3>1. source.revision \in Ground(r)
      BY <2>1, <2>2 DEF Ground, RunOf
    <3>2. QED
      BY <1>1, <3>1 DEF TextsDerived
  <2>3. QED
    BY <2>1, <2>2
<1>3. ASSUME NEW i \in Attempts, \E q \in runs[i].inputs : results[q].run \in X
      PROVE  i \in X
  <2>1. PICK q \in runs[i].inputs : results[q].run \in X
    BY <1>3
  <2>2. q \in DOMAIN results
    BY DEF Inv, InputsAreAccepted
  <2>3. source.revision \in Texts[q]
    BY <2>1, <2>2
  <2>4. ASSUME NEW r \in DOMAIN results, results[r].run = i PROVE source.revision \in Texts[r]
    <3>1. q \in RunOf(r).inputs
      BY <2>4 DEF RunOf
    <3>2. QED
      BY <1>1, <2>3, <3>1 DEF TextsDerived
  <2>5. QED
    BY <2>4
<1>4. edit'.results = {r \in DOMAIN results : results[r].run \in Impacted(direct)}
  BY DEF BeginEdit
<1> HIDE DEF direct
<1>5. Impacted(direct) \subseteq X
  <2>1. X \in SUBSET Attempts
    OBVIOUS
  <2> HIDE DEF X
  <2>2. QED
    BY <1>2, <1>3, <2>1 DEF Impacted
<1>6. QED
  BY <1>4, <1>5

LEMMA OutdatedStep ==
  ASSUME Inv, Inv', StepOK, [Next]_vars, InputsEarlier, EditOutdated, StaleDescends
  PROVE  EditOutdated' /\ StaleDescends'
<1>1. \A r \in DOMAIN results : Texts'[r] = Texts[r]
  BY TextsStay
<1>2. source.revision \in Nat /\ edit.results \subseteq DOMAIN results
  BY DEF Inv, TypeOK, EditInv
<1>3. CASE BeginEdit
  <2>1. source' = source /\ results' = results
    BY <1>3 DEF BeginEdit
  <2>2. EditOutdated'
    BY <1>1, <1>3, <2>1, SelectionDescends DEF EditOutdated
  <2>3. QED
    BY <1>1, <2>1, <2>2 DEF StaleDescends
<1>4. CASE CommitEdit
  <2>1. /\ source'.revision = source.revision + 1
        /\ edit' = NoEdit /\ edit.open /\ results' = Staled
    BY <1>4 DEF CommitEdit, Inv, TypeOK
  <2>2. EditOutdated'
    BY <2>1 DEF EditOutdated, NoEdit
  <2>3. DOMAIN Staled = DOMAIN results
    BY DEF Staled
  <2>4. ASSUME NEW r \in DOMAIN results, Staled[r].stale
        PROVE  \E t \in Nat : t \in Texts[r] /\ t < source.revision + 1
    <3>1. results[r].stale \/ r \in edit.results
      BY <2>4, StaledRows DEF Inv, TypeOK
    <3>2. CASE results[r].stale
      BY <1>2, <3>2 DEF StaleDescends
    <3>3. CASE r \in edit.results
      BY <1>2, <2>1, <3>3 DEF EditOutdated
    <3>4. QED
      BY <3>1, <3>2, <3>3
  <2>5. QED
    BY <1>1, <2>1, <2>2, <2>3, <2>4 DEF StaleDescends
<1>5. CASE BetweenEdits
  <2>1. source'.revision = source.revision
    BY <1>5 DEF BetweenEdits
  <2>2. EditOutdated'
    BY <1>1, <1>2, <1>5, <2>1 DEF EditOutdated, BetweenEdits, NoEdit
  <2>3. ASSUME NEW r \in DOMAIN results', results'[r].stale
        PROVE  \E t \in Nat : t \in Texts'[r] /\ t < source'.revision
    <3>1. r \in DOMAIN results
      BY <2>3, NewResult
    <3>2. results[r].stale
      BY <1>5, <2>3, <3>1 DEF BetweenEdits
    <3>3. QED
      BY <1>1, <2>1, <3>1, <3>2 DEF StaleDescends
  <2>4. QED
    BY <2>2, <2>3 DEF StaleDescends
<1>6. QED
  BY <1>3, <1>4, <1>5, EditOrNot

TextInv == Inv /\ InputsEarlier /\ EditOutdated /\ StaleDescends

LEMMA TextInvInit == Init => TextInv
  BY InvInit DEF Init, TextInv, InputsEarlier, EditOutdated, StaleDescends, NoEdit

LEMMA TextInvStep == TextInv /\ [Next]_vars => TextInv'
<1> SUFFICES ASSUME TextInv, [Next]_vars PROVE TextInv'
  OBVIOUS
<1>1. Inv /\ Inv' /\ StepOK
  BY InvStep, EveryStep DEF TextInv
<1>2. QED
  BY <1>1, EarlierStep, OutdatedStep DEF TextInv

LEMMA TextInvariance == Spec => []TextInv
  BY TextInvInit, TextInvStep, PTL DEF Spec

\* Targeted invalidation withdraws nothing else: whatever overlaps an edit, a
\* result is stale only if it descends, directly or through the results it
\* read, from a revision that was replaced.
THEOREM OnlyOutdatedIsStale == Spec => []StaleIsOutdated
<1>1. TextInv => StaleIsOutdated
  BY DEF TextInv, StaleDescends, StaleIsOutdated
<1>2. QED
  BY <1>1, TextInvariance, PTL

-----------------------------------------------------------------------------
(* The serial scene                                                        *)
(*                                                                         *)
(* When nothing comes between the two halves of an edit or of a batch, no  *)
(* delivery is lost or repeated and no failed run is retried, what         *)
(* descends from a replaced revision is stale.                             *)

\* These inputs are what the day holds now.
Current(text, inputs) ==
    /\ text \in {None, source.revision}
    /\ \A r \in inputs : r \in DOMAIN results /\ ~results[r].stale

\* What is still to run, and what a batch is about to queue, binds such inputs.
PendingAreCurrent ==
    \A i \in Attempts : Pending(runs[i]) => Current(runs[i].text, runs[i].inputs)
OrderIsCurrent == \A p \in DOMAIN order : Current(order[p].text, order[p].inputs)

\* An edit in progress has selected everything that depends on the revision it
\* replaces.
EditSelectsAll ==
    edit.open =>
        /\ \A i \in Attempts :
             (runs[i].text = source.revision \/ \E r \in runs[i].inputs : r \in edit.results)
                 => i \in edit.runs
        /\ \A r \in DOMAIN results : source.revision \in Texts[r] => r \in edit.results

OneAtATime == ~(edit.open /\ Ordering)

Busy(w) == workers[w].pc # "idle"

\* A job that was never delivered belongs to a run that was never started.
UndeliveredInv ==
    \A i \in Attempts : jobs[i].state = "created" =>
        /\ runs[i].status \in {"queued", "canceled"}
        /\ \A w \in Workers : Busy(w) => workers[w].run # i

OneDelivery ==
    \A w, v \in Workers : Busy(w) /\ Busy(v) /\ w # v => workers[w].run # workers[v].run

\* No delivery is about to start a run that failed.
StartsUntried ==
    \A w \in Workers : workers[w].pc \in {"load", "mark"} =>
        runs[workers[w].run].status # "failed"

SerialInv ==
    /\ UndeliveredInv
    /\ OneDelivery
    /\ StartsUntried
    /\ PendingAreCurrent
    /\ OrderIsCurrent
    /\ OneAtATime
    /\ EditSelectsAll
    /\ OutdatedIsStale

\* A step of the serial scene.
SerialStep ==
    /\ Inv /\ Inv' /\ StepOK /\ InputsEarlier
    /\ Next
    /\ scene = "serial"
    /\ InScene' /\ scene' = scene
    /\ Undisturbed

LEMMA SerialLimits ==
  ASSUME SerialStep
  PROVE  /\ \A i \in Attempts' : jobs'[i].retries = 0 /\ runs'[i].error # "final"
         /\ crashes' = 0 /\ stalls' = 0 /\ deletes' = 0
         /\ edit.open => ~edit'.open
         /\ Ordering => order' = NoOrder
  BY DEF SerialStep, InScene, Undisturbed

\* What a step of a worker does to its delivery, and to everything else.
WorkerMoves(w) ==
    /\ Busy(w)
    /\ \A v \in Workers : v # w => workers'[v] = workers[v]
    /\ workers'[w].pc = "idle" \/ workers'[w].run = workers[w].run
    /\ workers'[w].pc \in {"load", "mark"} =>
         workers[w].pc \in {"load", "mark"} /\ UNCHANGED runs
    /\ \A i \in Attempts \ {workers[w].run} : runs'[i].status = runs[i].status
    /\ \A i \in Attempts : jobs'[i].state = "created" => jobs[i].state = "created"
    /\ Pending(runs'[workers[w].run]) =>
         Pending(runs[workers[w].run]) \/ workers[w].pc = "mark"

\* What the other steps do to them, but for a fetch.
LeavesDeliveries ==
    /\ UNCHANGED workers
    /\ \A i \in Attempts :
         /\ runs'[i].status \in {runs[i].status, "canceled"}
         /\ jobs'[i].state = "created" => jobs[i].state = "created"

\* Only the delivery of w is written.
LEMMA OneDeliveryWritten ==
  ASSUME TypeOK, NEW w \in Workers, NEW d, workers' = [workers EXCEPT ![w] = d]
  PROVE  workers'[w] = d /\ \A v \in Workers : v # w => workers'[v] = workers[v]
  BY DEF TypeOK

\* A delivery moves on, fails, reports or is freed.
Onward(w) ==
    \/ \E pc \in Step \ {"idle", "load"} :
         /\ Goto(w, pc)
         /\ pc = "mark" => workers[w].pc = "load" /\ UNCHANGED runs
    \/ \E error \in RunError : FailWith(w, error)
    \/ \E outcome \in {"completed", "transient", "permanent"} : Report(w, outcome)
    \/ workers' = [workers EXCEPT ![w] = Idle]

\* All of these keep the run of a delivery.
LEMMA WorkerMoved ==
  ASSUME TypeOK, NEW w \in Workers, Busy(w), Onward(w)
  PROVE  /\ \A v \in Workers : v # w => workers'[v] = workers[v]
         /\ workers'[w].pc = "idle" \/ workers'[w].run = workers[w].run
         /\ workers'[w].pc \in {"load", "mark"} =>
              workers[w].pc \in {"load", "mark"} /\ UNCHANGED runs
<1>1. workers[w] \in Delivery /\ workers \in [Workers -> Delivery]
  BY DEF TypeOK
<1>2. ASSUME NEW pc \in Step \ {"idle", "load"}, Goto(w, pc),
             pc = "mark" => workers[w].pc = "load" /\ UNCHANGED runs
      PROVE  /\ \A v \in Workers : v # w => workers'[v] = workers[v]
             /\ workers'[w].run = workers[w].run /\ workers'[w].pc = pc
  BY <1>1, <1>2 DEF Goto, Delivery
<1>3. ASSUME NEW error \in RunError, FailWith(w, error)
      PROVE  /\ \A v \in Workers : v # w => workers'[v] = workers[v]
             /\ workers'[w].run = workers[w].run /\ workers'[w].pc = "fail"
  BY <1>1, <1>3 DEF FailWith, Delivery
<1>4. ASSUME NEW outcome \in {"completed", "transient", "permanent"}, Report(w, outcome)
      PROVE  /\ \A v \in Workers : v # w => workers'[v] = workers[v]
             /\ workers'[w].run = workers[w].run /\ workers'[w].pc = "report"
  BY <1>1, <1>4 DEF Report, Delivery
<1>5. ASSUME workers' = [workers EXCEPT ![w] = Idle]
      PROVE  /\ \A v \in Workers : v # w => workers'[v] = workers[v]
             /\ workers'[w].pc = "idle"
  BY <1>1, <1>5 DEF Idle
<1>6. QED
  BY <1>2, <1>3, <1>4, <1>5 DEF Onward

\* The rows that the steps of a worker leave alone.
LEMMA WorkerRun ==
  ASSUME TypeOK, NEW w \in Workers, Busy(w)
  PROVE  workers[w].run \in Attempts /\ runs[workers[w].run] \in Run
         /\ jobs[workers[w].run] \in Job /\ Attempts = DOMAIN jobs
  BY DomainIsInterval DEF TypeOK, Busy, Attempts

LEMMA LoadMoves == ASSUME Inv, NEW w \in Workers, Load(w) PROVE WorkerMoves(w)
<1>1. TypeOK /\ Busy(w) /\ UNCHANGED <<runs, jobs>>
  BY DEF Inv, Load, Busy
<1>2. Onward(w)
  <2>1. Goto(w, "cancel") \/ Goto(w, "mark") \/ Report(w, "completed")
    BY Zenon DEF Load
  <2>2. "cancel" \in Step /\ "mark" \in Step /\ workers[w].pc = "load" /\ UNCHANGED runs
    BY <1>1 DEF Step, Load
  <2> HIDE DEF Step
  <2>3. QED
    BY <2>1, <2>2 DEF Onward
<1>3. QED
  BY <1>1, <1>2, WorkerMoved DEF WorkerMoves, Onward

LEMMA MarkCanceledMoves == ASSUME Inv, NEW w \in Workers, MarkCanceled(w) PROVE WorkerMoves(w)
<1>1. TypeOK /\ Busy(w) /\ UNCHANGED jobs /\ Report(w, "completed")
      /\ runs' = Cancel({workers[w].run}) /\ runs \in Seq(Run)
  BY DEF Inv, MarkCanceled, Busy, TypeOK
<1>2. \A i \in Attempts : /\ i # workers[w].run => runs'[i] = runs[i]
                          /\ Pending(runs'[i]) => Pending(runs[i])
  BY <1>1 DEF Cancel, Pending
<1>3. workers[w].run \in Attempts
  BY <1>1, WorkerRun
<1>4. QED
  BY <1>1, <1>2, <1>3, WorkerMoved DEF WorkerMoves, Onward

\* One row is given another status.
LEMMA StatusWritten ==
  ASSUME TypeOK, NEW i \in Attempts, NEW row, runs' = [runs EXCEPT ![i] = row]
  PROVE  runs'[i] = row /\ \A j \in Attempts : j # i => runs'[j] = runs[j]
  BY DEF TypeOK, Attempts

LEMMA MarkRunningMoves == ASSUME Inv, NEW w \in Workers, MarkRunning(w) PROVE WorkerMoves(w)
<1>1. TypeOK /\ Busy(w) /\ UNCHANGED jobs /\ workers[w].pc = "mark"
  BY DEF Inv, MarkRunning, Busy
<1>2. workers[w].run \in Attempts
  BY <1>1, WorkerRun
<1>3. \A i \in Attempts : i # workers[w].run => runs'[i].status = runs[i].status
  BY <1>1, <1>2, StatusWritten DEF MarkRunning
<1>4. Onward(w)
  <2>1. Goto(w, "generate") \/ Report(w, "completed")
    BY DEF MarkRunning
  <2>2. "generate" \in Step
    BY DEF Step
  <2>3. QED
    BY <2>1, <2>2 DEF Onward
<1>5. QED
  BY <1>1, <1>3, <1>4, WorkerMoved DEF WorkerMoves, Onward

LEMMA GenerateMoves == ASSUME Inv, NEW w \in Workers, Generate(w) PROVE WorkerMoves(w)
<1>1. TypeOK /\ Busy(w) /\ UNCHANGED <<runs, jobs>>
  BY DEF Inv, Generate, Busy
<1>2. Onward(w)
  <2>1. Goto(w, "cancel") \/ Goto(w, "complete") \/ \E error \in RunError : FailWith(w, error)
    BY DEF Generate, RunError
  <2>2. "cancel" \in Step /\ "complete" \in Step
    BY DEF Step
  <2>3. QED
    BY <2>1, <2>2 DEF Onward
<1>3. QED
  BY <1>1, <1>2, WorkerMoved DEF WorkerMoves, Onward

LEMMA MarkFailedMoves == ASSUME Inv, NEW w \in Workers, MarkFailed(w) PROVE WorkerMoves(w)
<1>1. TypeOK /\ Busy(w) /\ UNCHANGED jobs
  BY DEF Inv, MarkFailed, Busy
<1>2. workers[w].run \in Attempts /\ runs[workers[w].run] \in Run
  BY <1>1, WorkerRun
<1>3. \E outcome \in {"completed", "transient", "permanent"} : Report(w, outcome)
  BY DEF MarkFailed
<1>4. /\ \A i \in Attempts : i # workers[w].run => runs'[i].status = runs[i].status
      /\ Pending(runs'[workers[w].run]) => Pending(runs[workers[w].run])
  <2> DEFINE row == [runs[workers[w].run] EXCEPT !.status = "failed",
                                                 !.error = workers[w].error]
  <2>1. ~Pending(row)
    BY <1>2 DEF Run, Pending
  <2>2. UNCHANGED runs \/ runs' = [runs EXCEPT ![workers[w].run] = row]
    BY DEF MarkFailed
  <2> HIDE DEF row
  <2>3. QED
    BY <1>1, <1>2, <2>1, <2>2, StatusWritten
<1>5. QED
  BY <1>1, <1>3, <1>4, WorkerMoved DEF WorkerMoves, Onward

\* What the queue writes to a job that is no longer undelivered.
LEMMA JobStateAfter ==
  ASSUME TypeOK, NEW i \in Attempts, NEW x, x # "created",
         UNCHANGED jobs \/ jobs' = [jobs EXCEPT ![i].state = x]
  PROVE  \A j \in Attempts : jobs'[j].state = "created" => jobs[j].state = "created"
<1>1. jobs \in Seq(Job) /\ DOMAIN jobs = Attempts
  BY DomainIsInterval DEF TypeOK, Attempts
<1>2. ASSUME jobs' = [jobs EXCEPT ![i].state = x],
             NEW j \in Attempts, jobs'[j].state = "created"
      PROVE  jobs[j].state = "created"
  <2>1. CASE j = i
    <3>1. jobs'[i].state = x
      <4>1. jobs[i] \in Job
        BY <1>1
      <4>2. QED
        BY <1>1, <1>2, <4>1 DEF Job
    <3>2. QED
      BY <1>2, <2>1, <3>1
  <2>2. CASE j # i
    BY <1>1, <1>2, <2>2
  <2>3. QED
    BY <2>1, <2>2
<1>3. QED
  BY <1>2

LEMMA SettleMoves == ASSUME Inv, NEW w \in Workers, Settle(w) PROVE WorkerMoves(w)
<1>1. TypeOK /\ Busy(w) /\ UNCHANGED runs /\ workers' = [workers EXCEPT ![w] = Idle]
  BY DEF Inv, Settle, Busy
<1>2. workers[w].run \in Attempts
  BY <1>1, WorkerRun
<1>3. \E x \in {"completed", "failed", "retry"} :
         UNCHANGED jobs \/ jobs' = [jobs EXCEPT ![workers[w].run].state = x]
  BY Zenon DEF Settle, Requeue
<1>4. \A i \in Attempts : jobs'[i].state = "created" => jobs[i].state = "created"
  BY <1>1, <1>2, <1>3, JobStateAfter
<1>5. QED
  BY <1>1, <1>4, WorkerMoved DEF WorkerMoves, Onward

\* What queueing runs writes, whatever the inputs they bind.
LEMMA QueueWrites ==
  ASSUME TypeOK, NEW rows \in Seq(Run), Len(rows) = Len(runs),
         NEW basis, DOMAIN basis \subseteq Processors, NEW batch, Queue(basis, rows, batch)
  PROVE  /\ \A i \in Attempts : runs'[i] = rows[i] /\ jobs'[i] = jobs[i]
         /\ \A i \in DOMAIN runs' \ Attempts : \E p \in DOMAIN basis :
              runs'[i].text = basis[p].text /\ runs'[i].inputs = basis[p].inputs
<1>1. PICK queue \in SetToSeqs(DOMAIN basis) :
        /\ runs' = rows \o [k \in DOMAIN queue |->
                               QueuedRun(queue[k], basis[queue[k]], batch)]
        /\ jobs' = jobs \o [k \in DOMAIN queue |-> NewJob]
  BY DEF Queue
<1> DEFINE n == Cardinality(DOMAIN basis)
           row(p) == QueuedRun(p, basis[p], batch)
           S == Run \cup {row(p) : p \in DOMAIN basis}
           more == [k \in DOMAIN queue |-> row(queue[k])]
           again == [k \in DOMAIN queue |-> NewJob]
<1>2. n \in Nat
  <2>1. IsFiniteSet(DOMAIN basis)
    BY FS_Subset, ProcessorsAssumption
  <2>2. QED
    BY <2>1, FS_CardinalityType
<1>3. queue \in [1..n -> DOMAIN basis]
  BY <1>1 DEF SetToSeqs
<1>4. runs' = rows \o more /\ jobs' = jobs \o again
  BY <1>1
<1> HIDE DEF n, row
<1>5. more \in [1..n -> S] /\ \A k \in 1..n : more[k] = row(queue[k])
  BY <1>3
<1>6. again \in [1..n -> Job]
  BY <1>3, NewJobTyped
<1>7. rows \in Seq(S)
  OBVIOUS
<1>8. /\ Attempts = 1..Len(rows) /\ Len(rows) \in Nat
      /\ jobs \in Seq(Job) /\ Len(jobs) = Len(rows)
  BY DomainIsInterval DEF TypeOK, Attempts
<1> HIDE DEF more, again, S
<1>9. /\ Len(runs') = Len(rows) + n /\ runs' \in Seq(S)
      /\ \A i \in 1..Len(rows) : runs'[i] = rows[i]
      /\ \A i \in 1..n : runs'[Len(rows) + i] = more[i]
  <2>1. /\ rows \o more \in Seq(S)
        /\ Len(rows \o more) = Len(rows) + n
        /\ \A i \in 1..Len(rows) : (rows \o more)[i] = rows[i]
        /\ \A i \in 1..n : (rows \o more)[Len(rows) + i] = more[i]
    <3>1. more \in [1..n -> S]
      BY <1>5
    <3>2. rows \in Seq(S) /\ n \in Nat
      BY <1>2, <1>7
    <3>3. QED
      BY ONLY <3>1, <3>2, ConcatFacts
  <2>2. QED
    BY <1>4, <2>1
<1>10. \A i \in 1..Len(jobs) : jobs'[i] = jobs[i]
  BY <1>2, <1>4, <1>6, <1>8, ConcatFacts
<1>11. ASSUME NEW i \in DOMAIN runs' \ Attempts
       PROVE  \E p \in DOMAIN basis :
                 runs'[i].text = basis[p].text /\ runs'[i].inputs = basis[p].inputs
  <2>1. DOMAIN runs' = 1..(Len(rows) + n)
    BY <1>9, DomainIsInterval
  <2>2. i - Len(rows) \in 1..n /\ i = Len(rows) + (i - Len(rows))
    BY <1>2, <1>8, <2>1
  <2>3. PICK k \in 1..n : i = Len(rows) + k
    BY <2>2
  <2>4. runs'[i] = row(queue[k]) /\ queue[k] \in DOMAIN basis
    BY <1>3, <1>5, <1>9, <2>3
  <2>5. /\ row(queue[k]).text = basis[queue[k]].text
        /\ row(queue[k]).inputs = basis[queue[k]].inputs
    BY DEF row, QueuedRun
  <2>6. QED
    BY <2>4, <2>5
<1>12. QED
  BY <1>8, <1>9, <1>10, <1>11

LEMMA OutdatedDomain ==
  ASSUME NEW S, NEW text, NEW rows, NEW published
  PROVE  LET basis == Outdated(S, text, rows, published)
         IN  /\ DOMAIN basis \subseteq S
             /\ \A p \in DOMAIN basis : basis[p] = Inputs(p, text, published)
  BY DEF Outdated

LEMMA SucceededRows ==
  ASSUME TypeOK, NEW i \in Attempts
  PROVE  /\ Succeeded(i) \in Seq(Run) /\ Len(Succeeded(i)) = Len(runs)
         /\ Succeeded(i)[i].status = "succeeded"
         /\ \A j \in Attempts : j # i => Succeeded(i)[j] = runs[j]
<1> DEFINE row == [runs[i] EXCEPT !.status = "succeeded"]
<1>1. row \in Run /\ row.status = "succeeded"
  <2>1. runs[i] \in Run
    BY DEF TypeOK, Attempts
  <2>2. QED
    BY <2>1 DEF Run
<1>2. Succeeded(i) = [runs EXCEPT ![i] = row]
  BY DEF Succeeded
<1> HIDE DEF row
<1>3. QED
  BY <1>1, <1>2, ExceptFacts DEF TypeOK, Attempts

\* A completion publishes or leaves the rows alone.
LEMMA CompleteMoves == ASSUME Inv, NEW w \in Workers, Complete(w) PROVE WorkerMoves(w)
<1>1. TypeOK /\ Busy(w)
  BY DEF Inv, Complete, Busy
<1>2. workers[w].run \in Attempts
  BY <1>1, WorkerRun
<1>3. \/ \E error \in RunError : FailWith(w, error)
      \/ \E outcome \in {"completed", "transient", "permanent"} : Report(w, outcome)
  <2>1. FailWith(w, "retryable") \/ Report(w, "completed")
    BY Zenon DEF Complete
  <2>2. QED
    BY <2>1 DEF RunError
<1>4. \/ UNCHANGED <<runs, jobs>>
      \/ \E result : Publish(workers[w].run, result)
  BY Zenon DEF Complete
<1>5. CASE UNCHANGED <<runs, jobs>>
  BY <1>1, <1>3, <1>5, WorkerMoved DEF WorkerMoves, Onward
<1>6. ASSUME NEW result, Publish(workers[w].run, result) PROVE WorkerMoves(w)
  <2> DEFINE i == workers[w].run
             basis == Outdated(Dependents(runs[i].processor), source.revision, Succeeded(i),
                               Append(results, result))
  <2>1. Queue(basis, Succeeded(i), None)
    BY <1>6 DEF Publish
  <2>2. DOMAIN basis \subseteq Processors
    BY OutdatedDomain DEF Dependents
  <2>3. /\ Succeeded(i) \in Seq(Run) /\ Len(Succeeded(i)) = Len(runs)
        /\ Succeeded(i)[i].status = "succeeded"
        /\ \A j \in Attempts : j # i => Succeeded(i)[j] = runs[j]
    BY <1>1, <1>2, SucceededRows
  <2> HIDE DEF basis
  <2>4. \A j \in Attempts : runs'[j] = Succeeded(i)[j] /\ jobs'[j] = jobs[j]
    BY <1>1, <2>1, <2>2, <2>3, QueueWrites
  <2>5. /\ ~Pending(runs'[i])
        /\ \A j \in Attempts : j # i => runs'[j] = runs[j]
        /\ \A j \in Attempts : jobs'[j] = jobs[j]
    BY <1>2, <2>3, <2>4 DEF Pending
  <2>6. QED
    BY <1>1, <1>3, <2>5, WorkerMoved DEF WorkerMoves, Onward
<1>7. QED
  BY <1>4, <1>5, <1>6

LEMMA WorkersMove == ASSUME Inv, NEW w \in Workers, WorkerStep(w) PROVE WorkerMoves(w)
  BY LoadMoves, MarkCanceledMoves, MarkRunningMoves, GenerateMoves, CompleteMoves,
     MarkFailedMoves, SettleMoves DEF WorkerStep

\* The owner and the queue leave the deliveries alone.
LEMMA OthersMove ==
  ASSUME Inv, OwnerStep \/ ReclaimAny PROVE LeavesDeliveries
<1>1. TypeOK /\ runs \in Seq(Run) /\ \A i \in Attempts : runs[i] \in Run
  BY DEF Inv, TypeOK, Attempts
<1>2. CASE UNCHANGED <<runs, jobs, workers>>
  BY <1>2 DEF LeavesDeliveries
<1>3. ASSUME NEW S
      PROVE  \A i \in Attempts : Cancel(S)[i].status \in {runs[i].status, "canceled"}
  BY <1>1 DEF Cancel, Run
<1>4. CASE CommitEdit
  <2> DEFINE basis == Outdated(edit.direct, source.revision + 1, Cancel(edit.runs), Staled)
  <2>1. Queue(basis, Cancel(edit.runs), None) /\ UNCHANGED workers
    BY <1>4 DEF CommitEdit
  <2>2. DOMAIN basis \subseteq Processors
    BY <1>1, OutdatedDomain DEF TypeOK
  <2>3. Cancel(edit.runs) \in Seq(Run) /\ Len(Cancel(edit.runs)) = Len(runs)
    BY <1>1, CancelRewrites DEF Rewritten
  <2> HIDE DEF basis
  <2>4. \A i \in Attempts : runs'[i] = Cancel(edit.runs)[i] /\ jobs'[i] = jobs[i]
    BY <1>1, <2>1, <2>2, <2>3, QueueWrites
  <2>5. QED
    BY <1>3, <2>1, <2>4 DEF LeavesDeliveries
<1>5. CASE CommitBatch
  <2>1. Queue(order, runs, Len(batches) + 1) /\ UNCHANGED workers
    BY <1>5 DEF CommitBatch
  <2>2. DOMAIN order \subseteq Processors
    BY <1>1 DEF TypeOK
  <2>3. \A i \in Attempts : runs'[i] = runs[i] /\ jobs'[i] = jobs[i]
    BY <1>1, <2>1, <2>2, QueueWrites
  <2>4. QED
    BY <2>1, <2>3 DEF LeavesDeliveries
<1>6. ASSUME NEW b \in DOMAIN batches, CancelBatch(b) PROVE LeavesDeliveries
  <2> DEFINE S == {i \in Attempts : runs[i].batch = b}
  <2>1. runs' = Cancel(S) /\ UNCHANGED <<jobs, workers>>
    BY <1>6 DEF CancelBatch
  <2> HIDE DEF S
  <2>2. QED
    BY <1>3, <2>1 DEF LeavesDeliveries
<1>7. CASE ReclaimAny
  <2>1. PICK i \in Attempts : Reclaim(i)
    BY <1>7 DEF ReclaimAny
  <2>2. \E x \in {"retry", "failed"} : jobs' = [jobs EXCEPT ![i].state = x]
    BY <2>1, Zenon DEF Reclaim, Requeue
  <2>3. \A j \in Attempts : jobs'[j].state = "created" => jobs[j].state = "created"
    BY <1>1, <2>2, JobStateAfter
  <2>4. UNCHANGED <<runs, workers>>
    BY <2>1 DEF Reclaim
  <2>5. QED
    BY <2>3, <2>4 DEF LeavesDeliveries
<1>8. QED
  BY <1>2, <1>4, <1>5, <1>6, <1>7
  DEF OwnerStep, BeginEdit, RefuseEdit, Delete, Restore, BeginBatch

\* A fetch in the serial scene is of a job that was never delivered.
FetchesNew(w, i) ==
    /\ jobs[i].state = "created"
    /\ workers'[w].run = i /\ workers'[w].pc = "load"
    /\ \A v \in Workers : v # w => workers'[v] = workers[v]
    /\ jobs'[i].state # "created"
    /\ \A j \in Attempts : j # i => jobs'[j] = jobs[j]
    /\ UNCHANGED runs

LEMMA SerialFetch ==
  ASSUME SerialStep, NEW w \in Workers, NEW i \in Attempts, Fetch(w, i)
  PROVE  FetchesNew(w, i)
<1>1. TypeOK /\ jobs \in Seq(Job) /\ DOMAIN jobs = Attempts /\ jobs[i] \in Job
  <2>1. TypeOK
    BY DEF SerialStep, Inv
  <2>2. jobs \in Seq(Job) /\ DOMAIN jobs = Attempts
    BY <2>1, DomainIsInterval DEF TypeOK, Attempts
  <2>3. QED
    BY <2>1, <2>2
<1> DEFINE job == [state |-> "active",
                   retries |-> jobs[i].retries + (IF jobs[i].state = "retry" THEN 1 ELSE 0)]
<1>2. jobs' = [jobs EXCEPT ![i] = job]
  BY DEF Fetch
<1>3. jobs'[i] = job /\ \A j \in Attempts : j # i => jobs'[j] = jobs[j]
  BY <1>1, <1>2
<1>4. UNCHANGED runs /\ i \in Attempts'
  BY DEF Fetch, Attempts
<1>5. jobs'[i].retries = 0
  BY <1>4, SerialLimits
<1>6. jobs[i].state = "created"
  <2>1. jobs[i].state \in {"created", "retry"} /\ jobs[i].retries \in Nat
    BY <1>1 DEF Fetch, Job
  <2>2. jobs[i].state # "retry"
    BY <1>3, <1>5, <2>1
  <2>3. QED
    BY <2>1, <2>2
<1>7. workers'[w] = [Idle EXCEPT !.pc = "load", !.run = i]
      /\ \A v \in Workers : v # w => workers'[v] = workers[v]
  BY <1>1, OneDeliveryWritten DEF Fetch
<1>8. QED
  BY <1>3, <1>4, <1>6, <1>7 DEF FetchesNew, Idle

\* Nothing fails in the serial scene, so this is all that happens to deliveries.
LEMMA SerialMoves ==
  ASSUME SerialStep
  PROVE  \/ \E w \in Workers : WorkerMoves(w)
         \/ \E w \in Workers, i \in Attempts : FetchesNew(w, i)
         \/ LeavesDeliveries
<1>1. Inv /\ Next /\ crashes \in Nat /\ stalls \in Nat
  BY LimitsAssumption DEF SerialStep, Inv, TypeOK
<1>2. ~FaultStep
  <2>1. ~Crashing /\ ~Stalling
    BY <1>1, SerialLimits DEF Crashing, Stalling
  <2>2. QED
    BY <2>1 DEF FaultStep, Crash, Expire, StatementFails, LoseHeartbeat
<1>3. CASE OwnerStep \/ ReclaimAny
  BY <1>1, <1>3, OthersMove
<1>4. CASE FetchAny
  BY <1>4, SerialFetch DEF FetchAny
<1>5. CASE \E w \in Workers : WorkerStep(w)
  BY <1>1, <1>5, WorkersMove
<1>6. QED
  BY <1>1, <1>2, <1>3, <1>4, <1>5 DEF Next

DeliveryInv == UndeliveredInv /\ OneDelivery /\ StartsUntried

LEMMA NewRunsQueued ==
  ASSUME SerialStep
  PROVE  /\ Attempts \subseteq Attempts'
         /\ \A i \in Attempts' \ Attempts :
              runs'[i].status = "queued"
         /\ \A w \in Workers : Busy(w) => workers[w].run \in Attempts
  BY AttemptsGrow
  DEF SerialStep, Inv, TypeOK, StepOK, Core, Evolves, AddsQueuedRuns, Attempts, Busy

LEMMA LeftDeliveries ==
  ASSUME SerialStep, DeliveryInv, LeavesDeliveries
  PROVE  DeliveryInv' /\ \A i \in Attempts : Pending(runs'[i]) => Pending(runs[i])
<1>1. /\ UNCHANGED workers
      /\ \A i \in Attempts : /\ runs'[i].status \in {runs[i].status, "canceled"}
                             /\ jobs'[i].state = "created" => jobs[i].state = "created"
  BY DEF LeavesDeliveries
<1>2. UndeliveredInv'
  BY <1>1, NewRunsQueued DEF DeliveryInv, UndeliveredInv, Busy
<1>3. OneDelivery'
  BY <1>1 DEF DeliveryInv, OneDelivery, Busy
<1>4. StartsUntried'
  BY <1>1, NewRunsQueued DEF DeliveryInv, StartsUntried, Busy
<1>5. \A i \in Attempts : Pending(runs'[i]) => Pending(runs[i])
  BY <1>1 DEF Pending
<1>6. QED
  BY <1>2, <1>3, <1>4, <1>5 DEF DeliveryInv

LEMMA FetchedDeliveries ==
  ASSUME SerialStep, DeliveryInv, NEW w \in Workers, NEW i \in Attempts, FetchesNew(w, i)
  PROVE  DeliveryInv' /\ \A j \in Attempts : Pending(runs'[j]) => Pending(runs[j])
<1>1. /\ UNCHANGED runs /\ Attempts' = Attempts
      /\ jobs'[i].state # "created" /\ jobs[i].state = "created"
      /\ \A j \in Attempts : j # i => jobs'[j] = jobs[j]
      /\ workers'[w].run = i /\ workers'[w].pc = "load"
      /\ \A v \in Workers : v # w => workers'[v] = workers[v]
  BY DEF FetchesNew, Attempts
<1>2. /\ runs[i].status \in {"queued", "canceled"}
      /\ \A v \in Workers : Busy(v) => workers[v].run # i
  BY <1>1 DEF DeliveryInv, UndeliveredInv
<1>3. UndeliveredInv'
  BY <1>1 DEF DeliveryInv, UndeliveredInv, Busy
<1>4. OneDelivery'
  BY <1>1, <1>2 DEF DeliveryInv, OneDelivery, Busy
<1>5. StartsUntried'
  BY <1>1, <1>2 DEF DeliveryInv, StartsUntried
<1>6. QED
  BY <1>1, <1>3, <1>4, <1>5 DEF DeliveryInv

LEMMA MovedDeliveries ==
  ASSUME SerialStep, DeliveryInv, NEW w \in Workers, WorkerMoves(w)
  PROVE  DeliveryInv' /\ \A i \in Attempts : Pending(runs'[i]) => Pending(runs[i])
<1> DEFINE r == workers[w].run
<1>1. Busy(w) /\ r \in Attempts
  BY NewRunsQueued DEF WorkerMoves
<1>2. /\ \A v \in Workers : v # w => workers'[v] = workers[v]
      /\ workers'[w].pc = "idle" \/ workers'[w].run = r
      /\ workers'[w].pc \in {"load", "mark"} =>
           workers[w].pc \in {"load", "mark"} /\ UNCHANGED runs
      /\ \A i \in Attempts \ {r} : runs'[i].status = runs[i].status
      /\ \A i \in Attempts : jobs'[i].state = "created" => jobs[i].state = "created"
      /\ Pending(runs'[r]) => Pending(runs[r]) \/ workers[w].pc = "mark"
  BY DEF WorkerMoves
<1>3. jobs[r].state # "created"
  BY <1>1 DEF DeliveryInv, UndeliveredInv
<1>4. \A v \in Workers : v # w /\ Busy(v) => workers[v].run # r
  BY <1>1 DEF DeliveryInv, OneDelivery
<1> HIDE DEF r
<1>5. UndeliveredInv'
  <2>1. ASSUME NEW i \in Attempts, jobs'[i].state = "created"
        PROVE  /\ runs'[i].status \in {"queued", "canceled"}
               /\ \A v \in Workers : Busy(v)' => workers'[v].run # i
    <3>1. jobs[i].state = "created" /\ i # r
      BY <1>2, <1>3, <2>1
    <3>2. QED
      BY <1>2, <3>1 DEF DeliveryInv, UndeliveredInv, Busy
  <2>2. ASSUME NEW i \in Attempts' \ Attempts
        PROVE  /\ runs'[i].status \in {"queued", "canceled"}
               /\ \A v \in Workers : Busy(v)' => workers'[v].run # i
    BY <1>1, <1>2, NewRunsQueued DEF Busy
  <2>3. QED
    BY <2>1, <2>2, NewRunsQueued DEF UndeliveredInv
<1>6. OneDelivery'
  <2>1. \A v \in Workers : Busy(v)' => Busy(v) /\ workers'[v].run = workers[v].run
    BY <1>1, <1>2 DEF Busy, r
  <2>2. QED
    BY <2>1 DEF DeliveryInv, OneDelivery
<1>7. StartsUntried'
  <2>1. ASSUME NEW v \in Workers, workers'[v].pc \in {"load", "mark"}
        PROVE  runs'[workers'[v].run].status # "failed"
    <3>1. CASE v = w
      BY <1>2, <2>1, <3>1 DEF DeliveryInv, StartsUntried, r
    <3>2. CASE v # w
      <4>1. workers'[v] = workers[v] /\ Busy(v) /\ workers[v].run \in Attempts \ {r}
        BY <1>2, <1>4, <2>1, <3>2, NewRunsQueued DEF Busy
      <4>2. QED
        BY <1>2, <2>1, <4>1 DEF DeliveryInv, StartsUntried
    <3>3. QED
      BY <3>1, <3>2
  <2>2. QED
    BY <2>1 DEF StartsUntried
<1>8. ASSUME NEW i \in Attempts, Pending(runs'[i]) PROVE Pending(runs[i])
  <2>1. CASE i # r
    BY <1>2, <1>8, <2>1 DEF Pending
  <2>2. CASE i = r
    <3>1. CASE workers[w].pc = "mark"
      <4>1. runs[r].status # "failed" /\ runs[r].status \notin {"succeeded", "canceled"}
        <5>1. runs[r].status # "failed"
          BY <3>1 DEF DeliveryInv, StartsUntried, r
        <5>2. Evolved(runs[r], runs'[r])
          BY <1>1 DEF SerialStep, StepOK, Core, Evolves
        <5>3. QED
          BY <1>8, <2>2, <5>1, <5>2 DEF Evolved, Pending
      <4>2. runs[r] \in Run
        <5>1. runs \in Seq(Run)
          BY DEF SerialStep, Inv, TypeOK
        <5>2. QED
          BY <1>1, <5>1 DEF Attempts
      <4>3. QED
        BY <2>2, <4>1, <4>2 DEF Run, Pending
    <3>2. QED
      BY <1>2, <1>8, <2>2, <3>1
  <2>3. QED
    BY <2>1, <2>2
<1>9. QED
  BY <1>5, <1>6, <1>7, <1>8 DEF DeliveryInv

LEMMA DeliveryStep ==
  ASSUME SerialStep, DeliveryInv
  PROVE  DeliveryInv' /\ \A i \in Attempts : Pending(runs'[i]) => Pending(runs[i])
  BY SerialMoves, LeftDeliveries, FetchedDeliveries, MovedDeliveries

-----------------------------------------------------------------------------
(* What the runs of the serial scene bind                                  *)

CurrentNext(text, inputs) ==
    /\ text \in {None, source'.revision}
    /\ \A r \in inputs : r \in DOMAIN results' /\ ~results'[r].stale

\* What a transaction binds is what it sees to be there.
LEMMA InputsSeen ==
  ASSUME NEW rows, Visible(rows), NEW p, NEW text, Available(p, rows)
  PROVE  /\ Inputs(p, text, rows).text \in {None, text}
         /\ \A r \in Inputs(p, text, rows).inputs : r \in DOMAIN rows /\ ~rows[r].stale
<1>1. Len(rows) \in Nat
  BY DomainIsInterval DEF Visible
<1>2. ASSUME NEW u \in Upstream[p]
      PROVE  Newest(Feeds(u, p, rows)) \in Feeds(u, p, rows)
  <2>1. Feeds(u, p, rows) # {}
    BY <1>2 DEF Available
  <2>2. Feeds(u, p, rows) \in SUBSET (1..Len(rows))
    BY FeedsAreResults
  <2>3. QED
    BY <1>1, <2>1, <2>2, HasNewest
<1>3. Inputs(p, text, rows).inputs = {Newest(Feeds(u, p, rows)) : u \in Upstream[p]}
  BY DEF Inputs
<1>4. \A u \in Upstream[p] : /\ Newest(Feeds(u, p, rows)) \in DOMAIN rows
                             /\ ~rows[Newest(Feeds(u, p, rows))].stale
  BY <1>2 DEF Feeds
<1>5. Inputs(p, text, rows).text \in {None, text}
  BY DEF Inputs
<1>6. QED
  BY <1>3, <1>4, <1>5

\* The runs queued for what is outdated bind what the transaction leaves.
LEMMA OutdatedBinds ==
  ASSUME TypeOK, NEW rows \in Seq(Run), Len(rows) = Len(runs),
         NEW S \in SUBSET Processors, Visible(results'), \A p \in S : Available(p, results'),
         Queue(Outdated(S, source'.revision, rows, results'), rows, None)
  PROVE  \A i \in DOMAIN runs' \ Attempts : CurrentNext(runs'[i].text, runs'[i].inputs)
<1> DEFINE basis == Outdated(S, source'.revision, rows, results')
<1>1. /\ DOMAIN basis \subseteq S
      /\ \A p \in DOMAIN basis : basis[p] = Inputs(p, source'.revision, results')
  BY OutdatedDomain
<1>2. Queue(basis, rows, None)
  OBVIOUS
<1> HIDE DEF basis
<1>3. ASSUME NEW p \in DOMAIN basis PROVE CurrentNext(basis[p].text, basis[p].inputs)
  BY <1>1, InputsSeen DEF CurrentNext
<1>4. DOMAIN basis \subseteq Processors
  BY <1>1
<1>5. \A i \in DOMAIN runs' \ Attempts : \E p \in DOMAIN basis :
         runs'[i].text = basis[p].text /\ runs'[i].inputs = basis[p].inputs
  BY <1>2, <1>4, QueueWrites
<1>6. QED
  BY <1>3, <1>5

LEMMA ResultsVisible == ASSUME Inv PROVE Visible(results)
  BY DEF Inv, TypeOK, Visible

LEMMA EditBinds ==
  ASSUME SerialStep, CommitEdit
  PROVE  \A i \in DOMAIN runs' \ Attempts : CurrentNext(runs'[i].text, runs'[i].inputs)
<1>1. TypeOK /\ StepOK /\ Inv
  BY DEF SerialStep, Inv
<1>2. /\ results' = Staled /\ source'.revision = source.revision + 1
      /\ \A p \in edit.direct : Available(p, Staled)
      /\ Queue(Outdated(edit.direct, source.revision + 1, Cancel(edit.runs), Staled),
               Cancel(edit.runs), None)
  BY <1>1 DEF CommitEdit, TypeOK
<1>3. Visible(Staled)
  <2>1. results \in Seq(Result)
    BY <1>1 DEF TypeOK
  <2>2. /\ Staled \in Seq(Result) /\ DOMAIN Staled = DOMAIN results
        /\ \A r \in DOMAIN results : Staled[r].run = results[r].run
    BY <2>1, StaledRows, DomainIsInterval
  <2>3. QED
    BY <1>1, <2>2 DEF Visible, TypeOK
<1>4. Cancel(edit.runs) \in Seq(Run) /\ Len(Cancel(edit.runs)) = Len(runs)
  BY <1>1, CancelRewrites DEF Rewritten, TypeOK
<1>5. edit.direct \in SUBSET Processors
  BY <1>1 DEF TypeOK
<1>6. /\ Visible(results') /\ \A p \in edit.direct : Available(p, results')
      /\ Queue(Outdated(edit.direct, source'.revision, Cancel(edit.runs), results'),
               Cancel(edit.runs), None)
  BY <1>2, <1>3, Zenon
<1>7. QED
  BY <1>1, <1>4, <1>5, <1>6, OutdatedBinds

LEMMA BatchBinds ==
  ASSUME SerialStep, OrderIsCurrent, CommitBatch
  PROVE  \A i \in DOMAIN runs' \ Attempts : CurrentNext(runs'[i].text, runs'[i].inputs)
<1>1. TypeOK /\ Queue(order, runs, Len(batches) + 1) /\ UNCHANGED <<source, results>>
  BY DEF SerialStep, Inv, CommitBatch
<1>2. DOMAIN order \subseteq Processors /\ runs \in Seq(Run)
  BY <1>1 DEF TypeOK
<1>3. \A p \in DOMAIN order : CurrentNext(order[p].text, order[p].inputs)
  BY <1>1 DEF OrderIsCurrent, Current, CurrentNext
<1>4. \A i \in DOMAIN runs' \ Attempts : \E p \in DOMAIN order :
         runs'[i].text = order[p].text /\ runs'[i].inputs = order[p].inputs
  BY <1>1, <1>2, QueueWrites
<1>5. QED
  BY <1>3, <1>4

LEMMA CompletionBinds ==
  ASSUME SerialStep, NEW w \in Workers, Complete(w)
  PROVE  \A i \in DOMAIN runs' \ Attempts : CurrentNext(runs'[i].text, runs'[i].inputs)
<1>1. TypeOK /\ Inv /\ Busy(w) /\ UNCHANGED source
  BY DEF SerialStep, Inv, Busy, Complete
<1> DEFINE i == workers[w].run
           S == Dependents(runs[i].processor)
<1>2. i \in Attempts /\ i \in Nat \ {0}
  <2>1. i \in Attempts
    BY <1>1, WorkerRun
  <2>2. QED
    BY <1>1, <2>1, DomainIsInterval DEF TypeOK, Attempts
<1>3. CASE UNCHANGED runs
  BY <1>3 DEF Attempts
<1>4. ASSUME NEW partial \in BOOLEAN,
             LET result == [run |-> i, partial |-> partial, stale |-> FALSE]
             IN /\ \A q \in S : Available(q, Append(results, result))
                /\ Publish(i, result)
      PROVE  \A j \in DOMAIN runs' \ Attempts : CurrentNext(runs'[j].text, runs'[j].inputs)
  <2> DEFINE result == [run |-> i, partial |-> partial, stale |-> FALSE]
  <2>1. /\ results' = Append(results, result)
        /\ \A q \in S : Available(q, Append(results, result))
        /\ Queue(Outdated(S, source.revision, Succeeded(i), Append(results, result)),
                 Succeeded(i), None)
    BY <1>4 DEF Publish
  <2>2. /\ \A q \in S : Available(q, results')
        /\ Queue(Outdated(S, source'.revision, Succeeded(i), results'), Succeeded(i), None)
    BY <1>1, <2>1, Zenon
  <2> HIDE DEF i, result
  <2>3. /\ Succeeded(i) \in Seq(Run) /\ Len(Succeeded(i)) = Len(runs)
    BY <1>1, <1>2, SucceededRows
  <2>4. S \in SUBSET Processors
    BY DEF Dependents
  <2> HIDE DEF S
  <2>5. Visible(results')
    BY ResultsOwned DEF SerialStep, Inv, TypeOK, Visible
  <2>6. QED
    BY <1>1, <2>2, <2>3, <2>4, <2>5, OutdatedBinds
<1>5. QED
  BY <1>3, <1>4, Zenon DEF Complete

\* Whoever queues a run of the serial scene binds what the day holds then.
LEMMA NewRunsCurrent ==
  ASSUME SerialStep, OrderIsCurrent
  PROVE  \A i \in DOMAIN runs' \ Attempts : CurrentNext(runs'[i].text, runs'[i].inputs)
<1>1. Inv /\ Next /\ runs \in Seq(Run)
  BY DEF SerialStep, Inv, TypeOK
<1>2. CASE DOMAIN runs' = DOMAIN runs
  BY <1>2 DEF Attempts
<1>3. CASE OwnerStep
  <2>1. ASSUME NEW b \in DOMAIN batches, CancelBatch(b) PROVE DOMAIN runs' = DOMAIN runs
    BY <2>1 DEF CancelBatch, Cancel, Attempts
  <2>2. QED
    BY <1>2, <1>3, <2>1, EditBinds, BatchBinds
    DEF OwnerStep, BeginEdit, RefuseEdit, Delete, Restore, BeginBatch
<1>4. ASSUME NEW w \in Workers, WorkerStep(w)
      PROVE  \A i \in DOMAIN runs' \ Attempts : CurrentNext(runs'[i].text, runs'[i].inputs)
  <2>1. CASE Complete(w)
    BY <2>1, CompletionBinds
  <2>2. CASE ~Complete(w)
    <3>1. DOMAIN runs' = DOMAIN runs
      BY <1>4, <2>2 DEF WorkerStep, Load, MarkCanceled, MarkRunning, Generate, MarkFailed,
         Settle, Cancel, Attempts
    <3>2. QED
      BY <1>2, <3>1
  <2>3. QED
    BY <2>1, <2>2
<1>5. CASE FetchAny \/ ReclaimAny \/ FaultStep
  <2>1. UNCHANGED runs
    BY <1>5, Zenon DEF FetchAny, Fetch, ReclaimAny, Reclaim, FaultStep, Crash, Expire,
       StatementFails, LoseHeartbeat
  <2>2. QED
    BY <1>2, <2>1
<1>6. QED
  BY <1>1, <1>3, <1>4, <1>5 DEF Next

-----------------------------------------------------------------------------
(* The serial scene keeps its invariant                                    *)

LEMMA SerialEdit ==
  ASSUME SerialStep PROVE BeginEdit \/ CommitEdit \/ BetweenEdits
  BY EditOrNot DEF SerialStep

\* What was current stays so when no revision is written and nothing is withdrawn.
LEMMA CurrentStays ==
  ASSUME SerialStep, BeginEdit \/ BetweenEdits, NEW text, NEW inputs, Current(text, inputs)
  PROVE  CurrentNext(text, inputs)
<1>1. /\ source'.revision = source.revision
      /\ \A r \in DOMAIN results : results'[r].stale = results[r].stale
  BY DEF BeginEdit, BetweenEdits
<1>2. DOMAIN results \subseteq DOMAIN results'
  BY ResultsStep DEF SerialStep, Inv, StepOK, ResultsKept
<1>3. QED
  BY <1>1, <1>2 DEF Current, CurrentNext

LEMMA PendingStep ==
  ASSUME SerialStep, SerialInv PROVE PendingAreCurrent'
<1>1. TypeOK /\ Inv /\ StepOK
  BY DEF SerialStep, Inv
<1>2. ASSUME NEW i \in Attempts, Pending(runs'[i])
      PROVE  CurrentNext(runs'[i].text, runs'[i].inputs)
  <2>1. Pending(runs[i])
    BY <1>2, DeliveryStep DEF SerialInv, DeliveryInv
  <2>2. runs'[i].text = runs[i].text /\ runs'[i].inputs = runs[i].inputs
    BY <1>1 DEF StepOK, Core, Evolves, Evolved
  <2>3. Current(runs[i].text, runs[i].inputs)
    BY <2>1 DEF SerialInv, PendingAreCurrent
  <2>4. CASE BeginEdit \/ BetweenEdits
    BY <2>2, <2>3, <2>4, CurrentStays
  <2>5. CASE CommitEdit
    <3> DEFINE basis == Outdated(edit.direct, source.revision + 1, Cancel(edit.runs), Staled)
    <3>1. /\ Queue(basis, Cancel(edit.runs), None) /\ edit.open
          /\ results' = Staled
      BY <2>5 DEF CommitEdit
    <3>2. DOMAIN basis \subseteq Processors
      BY <1>1, OutdatedDomain DEF TypeOK
    <3>3. Cancel(edit.runs) \in Seq(Run) /\ Len(Cancel(edit.runs)) = Len(runs)
      BY <1>1, CancelRewrites DEF Rewritten, TypeOK
    <3> HIDE DEF basis
    <3>4. runs'[i] = Cancel(edit.runs)[i]
      BY <1>1, <3>1, <3>2, <3>3, QueueWrites
    <3>5. i \notin edit.runs
      <4>1. runs[i] \in Run
        BY <1>1 DEF TypeOK, Attempts
      <4>2. i \in edit.runs => ~Pending(Cancel(edit.runs)[i])
        BY <2>1, <4>1 DEF Cancel, Pending, Run
      <4>3. QED
        BY <1>2, <3>4, <4>2
    <3>6. runs[i].text # source.revision /\ \A r \in runs[i].inputs : r \notin edit.results
      BY <3>1, <3>5 DEF SerialInv, EditSelectsAll
    <3>7. runs[i].text = None
      BY <2>3, <3>6 DEF Current
    <3>8. \A r \in runs[i].inputs : r \in DOMAIN Staled /\ ~Staled[r].stale
      <4>1. /\ DOMAIN Staled = DOMAIN results
            /\ \A r \in DOMAIN results :
                 Staled[r].stale <=> results[r].stale \/ r \in edit.results
        BY <1>1, StaledRows, DomainIsInterval DEF TypeOK
      <4>2. QED
        BY <2>3, <3>6, <4>1 DEF Current
    <3>9. QED
      BY <2>2, <3>1, <3>7, <3>8 DEF CurrentNext
  <2>6. QED
    BY <2>4, <2>5, SerialEdit
<1>3. ASSUME NEW i \in Attempts' \ Attempts
      PROVE  CurrentNext(runs'[i].text, runs'[i].inputs)
  BY <1>3, NewRunsCurrent DEF SerialInv, Attempts
<1>4. QED
  BY <1>2, <1>3 DEF PendingAreCurrent, Current, CurrentNext

LEMMA OrderMoves ==
  ASSUME Next
  PROVE  \/ UNCHANGED order
         \/ order' = NoOrder
         \/ \E S \in Selections : BeginBatch(S)
<1>1. CASE OwnerStep
  BY <1>1, Zenon
  DEF OwnerStep, BeginEdit, CommitEdit, RefuseEdit, Delete, Restore, CommitBatch, CancelBatch
<1>2. CASE FetchAny \/ ReclaimAny \/ FaultStep
  BY <1>2, Zenon DEF FetchAny, Fetch, ReclaimAny, Reclaim, FaultStep, Crash, Expire,
     StatementFails, LoseHeartbeat
<1>3. CASE \E w \in Workers : WorkerStep(w)
  BY <1>3, Zenon DEF WorkerStep, Load, MarkCanceled, MarkRunning, Generate, Complete,
     MarkFailed, Settle
<1>4. QED
  BY <1>1, <1>2, <1>3 DEF Next

LEMMA OrderStep ==
  ASSUME SerialStep, SerialInv PROVE OrderIsCurrent'
<1>1. Inv /\ Next /\ TypeOK
  BY DEF SerialStep, Inv
<1>2. CASE DOMAIN order' = {}
  BY <1>2 DEF OrderIsCurrent
<1>3. CASE \E S \in Selections : BeginBatch(S)
  <2>1. PICK S \in Selections : BeginBatch(S)
    BY <1>3
  <2>2. /\ \A p \in S : Available(p, results)
        /\ DOMAIN order' = S
        /\ \A p \in S : order'[p] = Inputs(p, source.revision, results)
        /\ UNCHANGED <<source, results>>
    BY <2>1 DEF BeginBatch
  <2>3. ASSUME NEW p \in S PROVE Current(order'[p].text, order'[p].inputs)
    BY <1>1, <2>2, ResultsVisible, InputsSeen DEF Current
  <2>4. QED
    BY <2>2, <2>3 DEF OrderIsCurrent, Current
<1>4. DOMAIN NoOrder = {}
  BY DEF NoOrder
<1>5. CASE UNCHANGED order /\ Ordering
  BY <1>2, <1>4, <1>5, SerialLimits
<1>6. CASE UNCHANGED order /\ ~Ordering
  BY <1>2, <1>4, <1>6 DEF Ordering
<1>7. QED
  BY <1>1, <1>2, <1>3, <1>4, <1>5, <1>6, OrderMoves

LEMMA AloneStep ==
  ASSUME SerialStep, SerialInv PROVE OneAtATime'
<1> SUFFICES ASSUME edit'.open, order' # NoOrder PROVE FALSE
  BY DEF OneAtATime, Ordering
<1>1. ~edit.open /\ ~Ordering
  BY SerialLimits
<1>2. PICK S \in Selections : BeginBatch(S)
  BY <1>1, OrderMoves DEF SerialStep, Ordering
<1>3. UNCHANGED edit
  BY <1>2 DEF BeginBatch
<1>4. QED
  BY <1>1, <1>3

\* The recursive query selects everything that depends on the text.
LEMMA SelectStep ==
  ASSUME SerialStep, SerialInv PROVE EditSelectsAll'
<1>1. TypeOK /\ Inv /\ InputsEarlier /\ TextsDerived
  BY TextsUnfold DEF SerialStep, Inv
<1>2. CASE ~edit'.open
  BY <1>2 DEF EditSelectsAll
<1>3. CASE edit'.open /\ ~BeginEdit
  <2>1. edit' = edit
    BY <1>3, SerialEdit DEF BetweenEdits, CommitEdit, NoEdit
  <2>2. QED
    BY <1>3, <2>1, SerialLimits
<1>4. CASE BeginEdit
  <2> DEFINE direct == {i \in Attempts : runs[i].text = source.revision}
             impacted == Impacted(direct)
  <2>1. /\ UNCHANGED <<source, runs, results>>
        /\ edit'.runs = impacted
        /\ edit'.results = {r \in DOMAIN results : results[r].run \in impacted}
    BY <1>4 DEF BeginEdit
  <2>2. direct \subseteq impacted
    BY DEF Impacted
  <2>3. ASSUME NEW i \in Attempts, NEW q \in runs[i].inputs, results[q].run \in impacted
        PROVE  i \in impacted
    <3> DEFINE Closed(X) == \A j \in Attempts :
                              (\E r \in runs[j].inputs : results[r].run \in X) => j \in X
    <3> HIDE DEF direct
    <3>1. impacted = {j \in Attempts : \A X \in SUBSET Attempts :
                                         direct \subseteq X /\ Closed(X) => j \in X}
      BY DEF Impacted
    <3>2. ASSUME NEW X \in SUBSET Attempts, direct \subseteq X, Closed(X) PROVE i \in X
      <4>1. results[q].run \in X
        BY <2>3, <3>1, <3>2
      <4>2. QED
        BY <3>2, <4>1
    <3> HIDE DEF Closed, impacted
    <3>3. QED
      BY <3>1, <3>2
  <2> DEFINE bad == {r \in DOMAIN results :
                       source.revision \in Texts[r] /\ results[r].run \notin impacted}
             reads == [r \in DOMAIN results |-> RunOf(r).inputs]
  <2>4. DOMAIN results = 1..Len(results) /\ Len(results) \in Nat
    BY <1>1, DomainIsInterval DEF TypeOK
  <2>5. \A r \in 1..Len(results) : \A q \in reads[r] : q \in 1..Len(results) /\ q < r
    BY <1>1, <2>4, InputsWereThere DEF InputsEarlier
  <2> HIDE DEF impacted
  <2>6. ASSUME NEW r \in bad PROVE \E q \in reads[r] : q \in bad
    <3>1. /\ r \in DOMAIN results /\ source.revision \in Texts[r]
          /\ results[r].run \notin impacted /\ reads[r] = RunOf(r).inputs
          /\ results[r].run \in Attempts
      BY <1>1 DEF TypeOK
    <3>2. source.revision \notin Ground(r)
      BY <2>2, <3>1 DEF Ground, RunOf
    <3>3. PICK q \in RunOf(r).inputs : source.revision \in Texts[q]
      BY <1>1, <3>1, <3>2 DEF TextsDerived
    <3>4. q \in DOMAIN results /\ results[q].run \notin impacted
      BY <1>1, <2>3, <3>1, <3>3, InputsWereThere DEF RunOf
    <3>5. QED
      BY <3>1, <3>3, <3>4
  <2>7. bad = {}
    <3>1. bad \in SUBSET (1..Len(results))
      BY <2>4
    <3> HIDE DEF bad, reads
    <3>2. QED
      BY <2>4, <2>5, <2>6, <3>1, ResultsInduction
  <2>8. \A r \in DOMAIN results : source.revision \in Texts[r] => r \in edit'.results
    BY <2>1, <2>7
  <2>9. ASSUME NEW i \in Attempts,
               runs[i].text = source.revision \/ \E r \in runs[i].inputs : r \in edit'.results
        PROVE  i \in edit'.runs
    BY <2>1, <2>2, <2>3, <2>9
  <2>10. \A r \in DOMAIN results : Texts'[r] = Texts[r]
    BY TextsStay DEF SerialStep
  <2>11. QED
    BY <2>1, <2>8, <2>9, <2>10 DEF EditSelectsAll, Attempts
<1>5. QED
  BY <1>2, <1>3, <1>4

LEMMA OutdatedIsStaleStep ==
  ASSUME SerialStep, SerialInv PROVE OutdatedIsStale'
<1>1. TypeOK /\ Inv /\ StepOK /\ TextsDerived'
  BY TextsUnfoldNext DEF SerialStep, Inv
<1>2. \A r \in DOMAIN results : Texts'[r] = Texts[r]
  BY TextsStay DEF SerialStep
<1>3. \A r \in DOMAIN results :
         ~results[r].stale => \A t \in Texts[r] : t = source.revision
  BY DEF SerialInv, OutdatedIsStale
<1>4. CASE CommitEdit
  <2>1. /\ edit.open /\ results' = Staled /\ DOMAIN Staled = DOMAIN results
        /\ \A r \in DOMAIN results : Staled[r].stale <=> results[r].stale \/ r \in edit.results
    BY <1>1, <1>4, StaledRows, DomainIsInterval DEF CommitEdit, TypeOK
  <2>2. ASSUME NEW r \in DOMAIN results, ~Staled[r].stale PROVE Texts[r] = {}
    <3>1. ~results[r].stale /\ source.revision \notin Texts[r]
      BY <2>1, <2>2 DEF SerialInv, EditSelectsAll
    <3>2. QED
      BY <1>3, <3>1
  <2>3. QED
    BY <1>2, <2>1, <2>2 DEF OutdatedIsStale
<1>5. CASE BeginEdit \/ BetweenEdits
  <2>1. /\ source'.revision = source.revision
        /\ \A r \in DOMAIN results : results'[r].stale = results[r].stale
    BY <1>5 DEF BeginEdit, BetweenEdits
  <2>2. ASSUME NEW r \in DOMAIN results' \ DOMAIN results, NEW t \in Texts'[r]
        PROVE  t = source.revision
    <3>1. /\ ~Silent /\ ~Stales
          /\ results'[r].run \in Attempts
      BY <2>2, NewResult DEF SerialStep, Silent, Stales, Staled
    <3>2. PICK i \in Attempts : PublishedBy(i)
      BY <1>1, <3>1 DEF StepOK, Core
    <3>3. results'[r].run = i
      <4>1. PICK result \in Result : result.run = i /\ results' = Append(results, result)
        BY <3>2 DEF PublishedBy
      <4>2. /\ results'[Len(results) + 1] = result /\ r = Len(results) + 1
        BY <1>1, <2>2, <4>1, AppendFacts, NewResult DEF TypeOK
      <4>3. QED
        BY <4>1, <4>2
    <3>4. runs'[i].text = runs[i].text /\ runs'[i].inputs = runs[i].inputs
      BY <1>1 DEF StepOK, Core, Evolves, Evolved
    <3>5. Current(runs[i].text, runs[i].inputs)
      BY <3>2 DEF PublishedBy, Pending, SerialInv, PendingAreCurrent
    <3>6. Texts'[r] = Ground(r)' \cup UNION {Texts'[q] : q \in RunOf(r)'.inputs}
      BY <1>1, <2>2 DEF TextsDerived
    <3>7. t \in Ground(r)' \/ \E q \in runs[i].inputs : t \in Texts'[q]
      BY <2>2, <3>3, <3>4, <3>6 DEF RunOf
    <3>8. CASE t \in Ground(r)'
      BY <3>3, <3>4, <3>5, <3>8 DEF Ground, RunOf, Current
    <3>9. ASSUME NEW q \in runs[i].inputs, t \in Texts'[q] PROVE t = source.revision
      BY <1>2, <1>3, <3>5, <3>9 DEF Current
    <3>10. QED
      BY <3>7, <3>8, <3>9
  <2>3. QED
    BY <1>2, <1>3, <2>1, <2>2 DEF OutdatedIsStale
<1>6. QED
  BY <1>4, <1>5, SerialEdit

LEMMA SerialInvStep == ASSUME SerialStep, SerialInv PROVE SerialInv'
<1>1. UndeliveredInv' /\ OneDelivery' /\ StartsUntried'
  BY DeliveryStep DEF SerialInv, DeliveryInv
<1>2. QED
  BY <1>1, PendingStep, OrderStep, AloneStep, SelectStep, OutdatedIsStaleStep DEF SerialInv

SceneInv == TextInv /\ (scene = "serial" => SerialInv)

LEMMA SceneInvariance == SceneSpec => []SceneInv
<1>1. SceneInit => SceneInv
  <2> SUFFICES ASSUME Init PROVE TextInv /\ SerialInv
    BY DEF SceneInit, SceneInv
  <2>1. TextInv
    BY TextInvInit
  <2>2. SerialInv
    BY DEF Init, SerialInv, UndeliveredInv, OneDelivery, StartsUntried, PendingAreCurrent,
       OrderIsCurrent, OneAtATime, EditSelectsAll, OutdatedIsStale, NoEdit, NoOrder, Busy, Idle,
       Attempts
  <2>3. QED
    BY <2>1, <2>2
<1>2. SceneInv /\ [SceneNext]_<<vars, scene>> => SceneInv'
  <2> SUFFICES ASSUME SceneInv, [SceneNext]_<<vars, scene>> PROVE SceneInv'
    OBVIOUS
  <2>1. CASE SceneNext
    <3>1. TextInv /\ TextInv'
      BY <2>1, TextInvStep DEF SceneInv, SceneNext
    <3>2. ASSUME scene = "serial" PROVE SerialInv'
      <4>1. SerialStep /\ SerialInv
        BY <2>1, <3>1, <3>2, EveryStep DEF SerialStep, SceneNext, SceneInv, TextInv
      <4>2. QED
        BY <4>1, SerialInvStep
    <3>3. QED
      BY <2>1, <3>1, <3>2 DEF SceneInv, SceneNext
  <2>2. CASE UNCHANGED <<vars, scene>>
    <3>1. /\ UNCHANGED <<source, runs, jobs, results, shown, workers, edit, order, batches>>
          /\ UNCHANGED scene
      BY <2>2 DEF vars
    <3>2. TextInv'
      BY <2>2, TextInvStep DEF SceneInv
    <3>3. SerialInv => SerialInv'
      BY <3>1 DEF SerialInv, UndeliveredInv, OneDelivery, StartsUntried, PendingAreCurrent,
         OrderIsCurrent, OneAtATime, EditSelectsAll, OutdatedIsStale, Busy, Attempts, Texts,
         Current, Ordering
    <3>4. QED
      BY <3>1, <3>2, <3>3 DEF SceneInv
  <2>3. QED
    BY <2>1, <2>2
<1>3. QED
  BY <1>1, <1>2, PTL DEF SceneSpec

\* Targeted invalidation withdraws everything it should when transactions do not
\* overlap and nothing is retried: what a reader still sees as valid descends
\* from the current revision only.
THEOREM SerialOutdatedIsStale == SceneSpec => []OutdatedIsStaleWhenSerial
<1>1. SceneInv => OutdatedIsStaleWhenSerial
  BY DEF SceneInv, SerialInv, OutdatedIsStaleWhenSerial
<1>2. QED
  BY <1>1, SceneInvariance, PTL
=============================================================================
