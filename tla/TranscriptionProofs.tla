------------------------ MODULE TranscriptionProofs -------------------------
(***************************************************************************)
(* Theorems about Transcription for every set of workers and keys and      *)
(* every bound, checked by TLAPS.                                          *)
(***************************************************************************)
EXTENDS Transcription, SequenceTheorems, TLAPS

-----------------------------------------------------------------------------
(* Type correctness                                                        *)

\* The parts of an inductive invariant that implies TypeOK.
Rows == runs \in Seq(Run) /\ recording \in Recording

\* A job waiting for redelivery has a retry left.
RetryLeft == \A i \in Attempts : jobs[i].state = "retry" => jobs[i].retries < RetryLimit

Queue == /\ jobs \in Seq(Job)
         /\ Len(jobs) = Len(runs)
         /\ RetryLeft

Deliveries == /\ workers \in [Workers -> Delivery]
              /\ \A w \in Workers : workers[w].pc # "idle" => workers[w].run \in Attempts

\* Published transcripts refer to existing attempts.
Published == revisions \in Seq(Attempts) /\ corrected \in Attempts \cup {NoRun}

Counters == /\ keys \subseteq RetryKeys
            /\ crashes \in 0..MaxCrashes
            /\ stalls \in 0..MaxStalls
            /\ deletes \in 0..MaxDeletes

TypeInv == Rows /\ Queue /\ Deliveries /\ Published /\ Counters

LEMMA TypeInvImpliesTypeOK == TypeInv => TypeOK
BY DEF TypeInv, TypeOK, Rows, Queue, Deliveries, Published, Counters

\* Replacing one element keeps a sequence's type and length.
LEMMA ReplaceInSeq ==
    ASSUME NEW S, NEW s \in Seq(S), NEW i \in DOMAIN s, NEW e \in S
    PROVE  LET t == [s EXCEPT ![i] = e]
           IN /\ t \in Seq(S)
              /\ Len(t) = Len(s)
              /\ DOMAIN t = DOMAIN s
              /\ \A j \in DOMAIN s : t[j] = IF j = i THEN e ELSE s[j]
<1>1. DOMAIN s = 1..Len(s) /\ Len(s) \in Nat
  BY LenProperties
<1>2. QED
  BY <1>1, ExceptSeq, LenProperties

\* Appending keeps the old elements in place.
LEMMA AppendToSeq ==
    ASSUME NEW S, NEW s \in Seq(S), NEW e \in S
    PROVE  LET t == Append(s, e)
           IN /\ t \in Seq(S)
              /\ Len(t) = Len(s) + 1
              /\ DOMAIN t = 1..(Len(s) + 1)
              /\ Len(s) \in Nat
              /\ DOMAIN s = 1..Len(s)
              /\ t[Len(s) + 1] = e
              /\ \A j \in DOMAIN s : t[j] = s[j]
OBVIOUS

\* Requeue keeps the jobs well formed and leaves the others alone.
LEMMA RequeueType ==
    ASSUME TypeInv, NEW i \in Attempts, Requeue(i)
    PROVE  /\ jobs' \in Seq(Job)
           /\ Len(jobs') = Len(jobs)
           /\ \A j \in Attempts : jobs'[j].state = "retry" => jobs'[j].retries < RetryLimit
<1> DEFINE next == IF jobs[i].retries < RetryLimit THEN "retry" ELSE "failed"
           job == [jobs[i] EXCEPT !.state = next]
<1>1. i \in DOMAIN jobs /\ DOMAIN jobs = Attempts
  BY LenProperties DEF TypeInv, Rows, Queue, Attempts
<1>2. jobs[i] \in Job /\ jobs \in Seq(Job)
  BY <1>1, ElementOfSeq, LenProperties DEF TypeInv, Queue
<1>3. job \in Job /\ (job.state = "retry" => job.retries < RetryLimit)
  BY <1>2 DEF Job
<1>4. jobs' = [jobs EXCEPT ![i] = job]
  BY <1>1, <1>2 DEF Requeue
<1>5. QED
  BY <1>1, <1>2, <1>3, <1>4, ReplaceInSeq DEF TypeInv, Queue, RetryLeft

\* The parts of TypeOK that a worker step can touch are kept when it moves one
\* delivery and rewrites one run.
LEMMA WorkerType ==
    ASSUME TypeInv, NEW w \in Workers, workers[w].pc # "idle"
    PROVE  /\ workers[w].run \in Attempts
           /\ workers[w] \in Delivery
           /\ \A pc \in Step : [workers EXCEPT ![w].pc = pc] \in [Workers -> Delivery]
           /\ runs[workers[w].run] \in Run
           /\ jobs[workers[w].run] \in Job
<1>1. workers[w].run \in Attempts /\ workers[w] \in Delivery
  BY DEF TypeInv, Deliveries
<1>2. Attempts = 1..Len(runs) /\ Attempts = 1..Len(jobs)
  BY LenProperties DEF TypeInv, Rows, Queue, Attempts
<1>3. runs[workers[w].run] \in Run /\ jobs[workers[w].run] \in Job
  BY <1>1, <1>2, ElementOfSeq DEF TypeInv, Rows, Queue
<1>4. \A pc \in Step : [workers EXCEPT ![w].pc = pc] \in [Workers -> Delivery]
  BY DEF TypeInv, Deliveries, Delivery
<1>5. QED
  BY <1>1, <1>3, <1>4

LEMMA MoveDelivery ==
    ASSUME TypeInv, DOMAIN runs' = DOMAIN runs, NEW w \in Workers,
           workers[w].pc # "idle",
           \/ \E pc \in Step : Goto(w, pc)
           \/ \E outcome \in Outcome : Report(w, outcome)
           \/ \E error \in RunError : FailWith(w, error)
           \/ workers' = [workers EXCEPT ![w] = Idle]
           \/ workers' = [workers EXCEPT ![w].expired = TRUE]
    PROVE  Deliveries'
<1>1. workers \in [Workers -> Delivery] /\ workers[w].run \in Attempts
  BY DEF TypeInv, Deliveries
<1>2. Idle \in Delivery
  BY DEF Idle, Delivery, Step, Outcome, RunError, NoRun
<1>3. CASE \E pc \in Step : Goto(w, pc)
  BY <1>1, <1>3 DEF Goto, TypeInv, Deliveries, Attempts, Delivery
<1>4. CASE \E outcome \in Outcome : Report(w, outcome)
  <2>1. PICK outcome \in Outcome : Report(w, outcome)
    BY <1>4
  <2>2. [workers[w] EXCEPT !.pc = "report", !.outcome = outcome] \in Delivery
    BY <1>1 DEF Delivery, Step
  <2>3. QED
    BY <1>1, <2>1, <2>2 DEF Report, TypeInv, Deliveries, Attempts, Delivery
<1>5. CASE \E error \in RunError : FailWith(w, error)
  <2>1. PICK error \in RunError : FailWith(w, error)
    BY <1>5
  <2>2. [workers[w] EXCEPT !.pc = "fail", !.error = error] \in Delivery
    BY <1>1 DEF Delivery, Step
  <2>3. QED
    BY <1>1, <2>1, <2>2 DEF FailWith, TypeInv, Deliveries, Attempts, Delivery
<1>6. CASE workers' = [workers EXCEPT ![w] = Idle]
  BY <1>1, <1>2, <1>6 DEF TypeInv, Deliveries, Attempts, Idle
<1>7. CASE workers' = [workers EXCEPT ![w].expired = TRUE]
  BY <1>1, <1>7 DEF TypeInv, Deliveries, Attempts, Delivery
<1>8. QED
  BY <1>3, <1>4, <1>5, <1>6, <1>7

\* Writing one run and the recording's state keeps the rows well formed.
LEMMA WriteRun ==
    ASSUME TypeInv, NEW i \in Attempts, NEW run \in Run,
           NEW state \in {"not_started", "queued", "running", "succeeded", "failed"},
           runs' = [runs EXCEPT ![i] = run],
           recording' = SetState(i, state)
    PROVE  /\ Rows'
           /\ Len(runs') = Len(runs)
           /\ Attempts' = Attempts
           /\ \A j \in Attempts : runs'[j] = IF j = i THEN run ELSE runs[j]
<1>1. recording' \in Recording
  BY DEF SetState, Recording, TypeInv, Rows
<1>2. QED
  BY <1>1, ReplaceInSeq DEF Rows, Attempts, TypeInv

\* A new attempt extends both sequences by one well-formed element.
LEMMA EnqueueType ==
    ASSUME TypeInv, NEW row \in Recording, EnqueueRun(row)
    PROVE  /\ Rows'
           /\ jobs' \in Seq(Job)
           /\ Len(jobs') = Len(runs')
           /\ Attempts \subseteq Attempts'
           /\ Len(runs) \in Nat
           /\ Attempts = 1..Len(runs)
           /\ Attempts' = 1..(Len(runs) + 1)
           /\ Len(runs') = Len(runs) + 1
           /\ recording'.latest = Len(runs')
           /\ recording'.state = "queued"
           /\ runs'[Len(runs')] = [status |-> "queued", error |-> "none"]
           /\ \A j \in Attempts : runs'[j] = runs[j] /\ jobs'[j] = jobs[j]
           /\ jobs'[Len(jobs')].state = "created"
<1> DEFINE run == [status |-> "queued", error |-> "none"]
           job == [state |-> "created", retries |-> 0]
<1>1. run \in Run /\ job \in Job
  BY RetryLimitAssumption DEF Run, Job, RunStatus, RunError
<1>2. runs' = Append(runs, run) /\ jobs' = Append(jobs, job)
  BY DEF EnqueueRun
<1>3. runs \in Seq(Run) /\ jobs \in Seq(Job) /\ Len(jobs) = Len(runs)
  BY DEF TypeInv, Rows, Queue
<1>4. recording' \in Recording /\ recording'.state = "queued"
      /\ recording'.latest = Len(runs) + 1
  <2>1. Len(runs) + 1 \in Nat
    BY <1>3, LenProperties
  <2>2. recording' = [row EXCEPT !.latest = Len(runs) + 1, !.state = "queued"]
    BY DEF EnqueueRun
  <2>3. QED
    BY <2>1, <2>2 DEF Recording
<1>5. /\ runs' \in Seq(Run) /\ Len(runs') = Len(runs) + 1
      /\ DOMAIN runs' = 1..(Len(runs) + 1) /\ Len(runs) \in Nat
      /\ DOMAIN runs = 1..Len(runs)
      /\ runs'[Len(runs) + 1] = run
      /\ \A j \in DOMAIN runs : runs'[j] = runs[j]
  BY <1>1, <1>2, <1>3, AppendToSeq
<1>6. /\ jobs' \in Seq(Job) /\ Len(jobs') = Len(jobs) + 1
      /\ jobs'[Len(jobs) + 1] = job
      /\ DOMAIN jobs = 1..Len(jobs)
      /\ \A j \in DOMAIN jobs : jobs'[j] = jobs[j]
  BY <1>1, <1>2, <1>3, AppendToSeq
<1>7. QED
  BY <1>3, <1>4, <1>5, <1>6 DEF Rows, Attempts

\* Published transcripts stay references to existing attempts.
LEMMA PublishedKept ==
    ASSUME TypeInv, Attempts \subseteq Attempts', UNCHANGED <<revisions, corrected>>
    PROVE  Published'
BY SeqMonotonic DEF Published, TypeInv

LEMMA InitType == Init => TypeInv
<1> SUFFICES ASSUME Init PROVE TypeInv
  OBVIOUS
<1>2. Idle \in Delivery /\ Idle.pc = "idle"
  BY DEF Idle, Delivery, Step, Outcome, RunError, NoRun
<1>3. runs = <<>> /\ jobs = <<>> /\ revisions = <<>> /\ Len(runs) = 0
      /\ Attempts = {}
  BY DEF Init, Attempts
<1>4. Rows
  <2>1. runs \in Seq(Run)
    BY <1>3, EmptySeq
  <2>2. recording \in Recording
    BY DEF Init, Recording, NoRun
  <2>3. QED
    BY <2>1, <2>2 DEF Rows
<1>5. Queue
  BY <1>3, EmptySeq DEF Queue, RetryLeft
<1>6. Deliveries
  <2>1. workers = [w \in Workers |-> Idle]
    BY DEF Init
  <2>2. QED
    BY <1>2, <2>1 DEF Deliveries
<1>7. Published
  BY <1>3, EmptySeq DEF Init, Published
<1>8. Counters
  BY BoundsAssumption DEF Init, Counters
<1>9. QED
  BY <1>4, <1>5, <1>6, <1>7, <1>8 DEF TypeInv

\* The owner's requests.
LEMMA OwnerType ==
    ASSUME TypeInv, OwnerStep
    PROVE  TypeInv'
<1>0. /\ Rows /\ Queue /\ Deliveries /\ Published /\ Counters
      /\ recording \in Recording
  BY DEF TypeInv, Rows
<1>1. ASSUME NEW row \in Recording, EnqueueRun(row), Counters',
             UNCHANGED <<workers, revisions, corrected>>
      PROVE  TypeInv'
  <2>1. /\ Rows' /\ jobs' \in Seq(Job) /\ Len(jobs') = Len(runs')
        /\ Attempts \subseteq Attempts'
        /\ Len(runs) \in Nat
        /\ Attempts = 1..Len(runs)
        /\ Attempts' = 1..(Len(runs) + 1)
        /\ Len(runs') = Len(runs) + 1
        /\ \A j \in Attempts : jobs'[j] = jobs[j]
        /\ jobs'[Len(jobs')].state = "created"
    BY <1>1, EnqueueType
  <2>2. Queue'
    <3>1. RetryLeft'
      <4>1. SUFFICES ASSUME NEW j \in Attempts', jobs'[j].state = "retry"
                     PROVE  jobs'[j].retries < RetryLimit
        BY DEF RetryLeft
      <4>2. j \in Attempts \/ j = Len(jobs')
        BY <2>1
      <4>3. QED
        BY <1>0, <2>1, <4>1, <4>2 DEF Queue, RetryLeft
    <3>2. QED
      BY <2>1, <3>1 DEF Queue
  <2>3. Deliveries'
    BY <1>0, <1>1, <2>1 DEF Deliveries
  <2>4. Published'
    BY <1>1, <2>1, PublishedKept
  <2>5. QED
    BY <1>1, <2>1, <2>2, <2>3, <2>4 DEF TypeInv
<1>2. CASE ConfirmDurable
  <2>1. [recording EXCEPT !.persistence = "durable"] \in Recording
    BY <1>0 DEF Recording
  <2>2. Counters'
    BY <1>0, <1>2 DEF ConfirmDurable, Counters, bounds
  <2>3. CASE runs = <<>>
    BY <1>1, <1>2, <2>1, <2>2, <2>3 DEF ConfirmDurable
  <2>4. CASE runs # <<>>
    BY <1>0, <1>2, <2>1, <2>2, <2>4
    DEF TypeInv, ConfirmDurable, Rows, Queue, Deliveries, Published, RetryLeft, Attempts
  <2>5. QED
    BY <2>3, <2>4
<1>3. CASE \E k \in RetryKeys : RetryTranscription(k)
  <2>1. Counters'
    BY <1>0, <1>3 DEF RetryTranscription, Counters, bounds
  <2>2. QED
    BY <1>0, <1>1, <1>3, <2>1 DEF RetryTranscription
<1>4. CASE DeleteAudio
  <2>1. Counters'
    BY <1>0, <1>4, BoundsAssumption DEF DeleteAudio, Counters
  <2>2. QED
    BY <1>0, <1>4, <2>1
    DEF TypeInv, DeleteAudio, Rows, Queue, Deliveries, Published, Recording, RetryLeft,
        Attempts
<1>5. CASE RestoreAudio
  BY <1>0, <1>5
  DEF TypeInv, RestoreAudio, Rows, Queue, Deliveries, Published, Counters, Recording,
      RetryLeft, Attempts, bounds
<1>6. QED
  BY <1>2, <1>3, <1>4, <1>5 DEF OwnerStep

\* A step that leaves every table alone and moves deliveries or the queue.
LEMMA TablesKept ==
    ASSUME TypeInv, UNCHANGED <<recording, runs, revisions, corrected, keys>>,
           Queue', Deliveries', Counters'
    PROVE  TypeInv'
<1>1. Rows' /\ Published'
  BY DEF TypeInv, Rows, Published, Attempts
<1>2. QED
  BY <1>1 DEF TypeInv

\* A step of one worker that rewrites at most its own run.
LEMMA RunWritten ==
    ASSUME TypeInv, NEW w \in Workers, workers[w].pc # "idle",
           NEW run \in Run,
           NEW state \in {"not_started", "queued", "running", "succeeded", "failed"},
           runs' = [runs EXCEPT ![workers[w].run] = run],
           recording' = SetState(workers[w].run, state),
           \/ \E pc \in Step : Goto(w, pc)
           \/ \E outcome \in Outcome : Report(w, outcome)
           \/ \E error \in RunError : FailWith(w, error),
           UNCHANGED jobs, Counters', Published'
    PROVE  TypeInv'
<1>1. workers[w].run \in Attempts
  BY WorkerType
<1>2. Rows' /\ Len(runs') = Len(runs) /\ Attempts' = Attempts
  BY <1>1, WriteRun
<1>3. Queue'
  BY <1>2 DEF TypeInv, Queue, RetryLeft
<1>4. Deliveries'
  BY <1>2, MoveDelivery DEF Attempts
<1>5. QED
  BY <1>2, <1>3, <1>4 DEF TypeInv

LEMMA WorkerStepType ==
    ASSUME TypeInv, NEW w \in Workers, WorkerStep(w)
    PROVE  TypeInv'
<1> DEFINE i == workers[w].run
<1>0. Rows /\ Queue /\ Deliveries /\ Published /\ Counters
  BY DEF TypeInv
<1>1. workers[w].pc # "idle"
  BY DEF WorkerStep, Load, MarkCanceled, MarkRunning, Transcribe, Complete, MarkFailed,
         Settle
<1>2. i \in Attempts /\ workers[w] \in Delivery /\ runs[i] \in Run /\ jobs[i] \in Job
  BY <1>1, WorkerType
<1>3. ASSUME UNCHANGED <<recording, runs, jobs, revisions, corrected, keys, bounds>>,
             \/ \E pc \in Step : Goto(w, pc)
             \/ \E outcome \in Outcome : Report(w, outcome)
             \/ \E error \in RunError : FailWith(w, error)
      PROVE  TypeInv'
  <2>1. Deliveries'
    BY <1>1, <1>3, MoveDelivery
  <2>2. Queue' /\ Counters'
    BY <1>0, <1>3 DEF Queue, RetryLeft, Attempts, Counters, bounds
  <2>3. QED
    BY <1>3, <2>1, <2>2, TablesKept
<1>4. CASE Load(w)
  BY <1>3, <1>4 DEF Load, Step, Outcome
<1>5. CASE Transcribe(w)
  BY <1>3, <1>5 DEF Transcribe, Step, Outcome, RunError
<1>6. CASE MarkCanceled(w)
  <2>1. CASE runs' = [runs EXCEPT ![i] = CanceledRun(runs[i])]
    <3>1. CanceledRun(runs[i]) \in Run
      BY <1>2 DEF CanceledRun, Run, RunStatus
    <3>2. Counters' /\ Published'
      BY <1>0, <1>6, <2>1 DEF MarkCanceled, Counters, bounds, Published, Attempts
    <3>3. \/ recording' = SetState(i, "failed") /\ Report(w, "completed")
          \/ UNCHANGED <<runs, recording>>
      BY <1>6 DEF MarkCanceled
    <3>4. CASE recording' = SetState(i, "failed") /\ Report(w, "completed")
      BY <1>1, <1>6, <2>1, <3>1, <3>2, <3>4, RunWritten DEF MarkCanceled, Outcome
    <3>5. CASE UNCHANGED <<runs, recording>>
      BY <1>3, <1>6, <3>5 DEF MarkCanceled, Outcome
    <3>6. QED
      BY <3>3, <3>4, <3>5
  <2>2. CASE UNCHANGED <<runs, recording>>
    BY <1>3, <1>6, <2>2 DEF MarkCanceled, Outcome
  <2>3. QED
    BY <1>6, <2>1, <2>2 DEF MarkCanceled
<1>7. CASE MarkRunning(w)
  <2>1. CASE Stale(i)
    BY <1>3, <1>7, <2>1 DEF MarkRunning, Outcome, RunError
  <2>2. CASE ~Stale(i)
    <3>1. [status |-> "running", error |-> "none"] \in Run
      BY DEF Run, RunStatus, RunError
    <3>2. Counters'
      BY <1>0, <1>7 DEF MarkRunning, Counters, bounds
    <3>3. Attempts' = Attempts
      BY <1>7, <2>2 DEF MarkRunning, Attempts
    <3>4. Published'
      BY <1>0, <1>7, <3>3 DEF MarkRunning, Published
    <3>5. QED
      BY <1>1, <1>7, <2>2, <3>1, <3>2, <3>4, RunWritten DEF MarkRunning, Step
  <2>3. QED
    BY <2>1, <2>2
<1>8. CASE Complete(w)
  <2>1. CASE UNCHANGED <<runs, recording, revisions, corrected>>
    BY <1>3, <1>8, <2>1 DEF Complete, Outcome, RunError
  <2>2. CASE /\ revisions' = Append(revisions, i)
             /\ corrected' = SeedCorrected(i)
             /\ runs' = [runs EXCEPT ![i] = [status |-> "succeeded", error |-> "none"]]
             /\ recording' = SetState(i, "succeeded")
             /\ Report(w, "completed")
    <3>1. [status |-> "succeeded", error |-> "none"] \in Run
      BY DEF Run, RunStatus, RunError
    <3>2. Counters'
      BY <1>0, <1>8 DEF Complete, Counters, bounds
    <3>3. Attempts' = Attempts
      BY <2>2 DEF Attempts
    <3>4. Published'
      BY <1>0, <1>2, <2>2, <3>3, AppendToSeq DEF Published, SeedCorrected
    <3>5. UNCHANGED jobs
      BY <1>8 DEF Complete
    <3>6. QED
      BY <1>1, <2>2, <3>1, <3>2, <3>4, <3>5, RunWritten DEF Outcome
  <2>3. QED
    BY <1>8, <2>1, <2>2 DEF Complete
<1>9. CASE MarkFailed(w)
  <2>1. Counters'
    BY <1>0, <1>9 DEF MarkFailed, Counters, bounds
  <2>2. \E outcome \in Outcome : Report(w, outcome)
    BY <1>9 DEF MarkFailed, Outcome
  <2>3. CASE runs[i].status = "succeeded"
    BY <1>3, <1>9, <2>2, <2>3 DEF MarkFailed
  <2>4. CASE runs[i].status # "succeeded"
    <3>1. [status |-> "failed", error |-> workers[w].error] \in Run
      BY <1>2 DEF Run, RunStatus, Delivery
    <3>2. /\ runs' = [runs EXCEPT ![i] = [status |-> "failed", error |-> workers[w].error]]
          /\ recording' = SetState(i, "failed")
      BY <1>9, <2>4 DEF MarkFailed
    <3>3. Attempts' = Attempts
      BY <3>2 DEF Attempts
    <3>4. Published' /\ UNCHANGED jobs
      BY <1>0, <1>9, <3>3 DEF MarkFailed, Published
    <3>5. QED
      BY <1>1, <2>1, <2>2, <3>1, <3>2, <3>4, RunWritten
  <2>5. QED
    BY <2>3, <2>4
<1>10. CASE Settle(w)
  <2>1. Counters' /\ UNCHANGED <<recording, runs, revisions, corrected, keys>>
    BY <1>0, <1>10 DEF Settle, Counters, bounds
  <2>2. Deliveries'
    BY <1>1, <1>10, MoveDelivery DEF Settle
  <2>3. ASSUME NEW state \in {"completed", "failed"}, jobs' = [jobs EXCEPT ![i].state = state]
        PROVE  Queue'
    <3> DEFINE job == [jobs[i] EXCEPT !.state = state]
    <3>1. job \in Job /\ job.state # "retry"
      BY <1>2 DEF Job
    <3>2. i \in DOMAIN jobs /\ DOMAIN jobs = Attempts /\ jobs' = [jobs EXCEPT ![i] = job]
      BY <1>0, <1>2, <2>3, LenProperties DEF Rows, Queue, Attempts
    <3>3. QED
      BY <1>0, <2>1, <3>1, <3>2, ReplaceInSeq DEF Queue, RetryLeft, Attempts
  <2>4. Requeue(i) => Queue'
    BY <1>0, <1>2, <2>1, RequeueType DEF Queue, RetryLeft, Attempts
  <2>5. UNCHANGED jobs => Queue'
    BY <1>0, <2>1 DEF Queue, RetryLeft, Attempts
  <2>6. \/ UNCHANGED jobs
        \/ Requeue(i)
        \/ \E state \in {"completed", "failed"} : jobs' = [jobs EXCEPT ![i].state = state]
    BY <1>10 DEF Settle
  <2>7. QED
    BY <2>1, <2>2, <2>3, <2>4, <2>5, <2>6, TablesKept
<1>11. QED
  BY <1>4, <1>5, <1>6, <1>7, <1>8, <1>9, <1>10 DEF WorkerStep

LEMMA FetchType ==
    ASSUME TypeInv, NEW w \in Workers, NEW i \in Attempts, Fetch(w, i)
    PROVE  TypeInv'
<1> DEFINE job == [state |-> "active",
                   retries |-> jobs[i].retries
                               + (IF jobs[i].state = "retry" THEN 1 ELSE 0)]
<1>0. Rows /\ Queue /\ Deliveries /\ Counters
  BY DEF TypeInv
<1>1. i \in DOMAIN jobs /\ DOMAIN jobs = Attempts /\ jobs[i] \in Job
  BY <1>0, LenProperties, ElementOfSeq DEF Rows, Queue, Attempts
<1>2. job \in Job /\ job.state # "retry"
  <2>1. jobs[i].retries \in 0..RetryLimit
        /\ (jobs[i].state = "retry" => jobs[i].retries < RetryLimit)
    BY <1>0, <1>1 DEF Job, Queue, RetryLeft
  <2>2. job.retries \in 0..RetryLimit
    BY <2>1, RetryLimitAssumption
  <2>3. QED
    BY <2>2 DEF Job
<1>3. jobs' = [jobs EXCEPT ![i] = job]
  BY DEF Fetch
<1>4. Queue'
  BY <1>0, <1>1, <1>2, <1>3, ReplaceInSeq DEF Fetch, Queue, RetryLeft, Attempts
<1>5. Deliveries'
  <2>1. i \in Nat
    BY <1>0, LenProperties DEF Rows, Attempts
  <2>2. [Idle EXCEPT !.pc = "load", !.run = i] \in Delivery
    BY <2>1 DEF Idle, Delivery, Step, Outcome, RunError
  <2>3. [Idle EXCEPT !.pc = "load", !.run = i].run = i
    BY DEF Idle
  <2>4. Attempts' = Attempts
    BY DEF Fetch, Attempts
  <2>5. QED
    BY <1>0, <2>2, <2>3, <2>4 DEF Fetch, Deliveries
<1>6. Counters'
  BY <1>0 DEF Fetch, Counters, bounds
<1>7. QED
  BY <1>4, <1>5, <1>6, TablesKept DEF Fetch

LEMMA SupervisionType ==
    ASSUME TypeInv, \/ \E i \in Attempts : Reclaim(i)
                    \/ FaultStep
    PROVE  TypeInv'
<1>0. Rows /\ Queue /\ Deliveries /\ Counters
  BY DEF TypeInv
<1>1. UNCHANGED jobs /\ UNCHANGED runs => Queue'
  BY <1>0 DEF Queue, RetryLeft, Attempts
<1>2. ASSUME NEW i \in Attempts, Requeue(i), UNCHANGED runs PROVE Queue'
  BY <1>0, <1>2, RequeueType DEF Queue, RetryLeft, Attempts
<1>3. UNCHANGED workers /\ UNCHANGED runs => Deliveries'
  BY <1>0 DEF Deliveries, Attempts
<1>4. (Crashing \/ Stalling) /\ UNCHANGED <<keys, deletes>> => Counters'
  BY <1>0, BoundsAssumption DEF Counters, Crashing, Stalling
<1>5. CASE \E i \in Attempts : Reclaim(i)
  <2>1. Counters'
    BY <1>0, <1>5 DEF Reclaim, Counters, bounds
  <2>2. QED
    BY <1>2, <1>3, <1>5, <2>1, TablesKept DEF Reclaim
<1>6. CASE \E i \in Attempts : LoseHeartbeat(i)
  BY <1>2, <1>3, <1>4, <1>6, TablesKept DEF LoseHeartbeat
<1>7. ASSUME NEW w \in Workers, Crash(w) PROVE TypeInv'
  <2>1. Deliveries'
    BY <1>7, MoveDelivery DEF Crash
  <2>2. QED
    BY <1>1, <1>4, <1>7, <2>1, TablesKept DEF Crash
<1>8. ASSUME NEW w \in Workers, Expire(w) PROVE TypeInv'
  <2>1. Deliveries'
    BY <1>8, MoveDelivery DEF Expire
  <2>2. workers[w].run \in Attempts
    BY <1>8, WorkerType DEF Expire
  <2>3. QED
    BY <1>1, <1>2, <1>4, <1>8, <2>1, <2>2, TablesKept DEF Expire
<1>9. ASSUME NEW w \in Workers, StatementFails(w) PROVE TypeInv'
  <2>1. workers[w].pc # "idle"
    BY <1>9 DEF StatementFails
  <2>2. Deliveries'
    BY <1>9, <2>1, MoveDelivery DEF StatementFails, Outcome, RunError
  <2>3. QED
    BY <1>1, <1>4, <1>9, <2>2, TablesKept DEF StatementFails
<1>10. QED
  BY <1>5, <1>6, <1>7, <1>8, <1>9 DEF FaultStep

LEMMA TypeStep == TypeInv /\ [Next]_vars => TypeInv'
<1>1. TypeInv /\ Next => TypeInv'
  BY OwnerType, WorkerStepType, FetchType, SupervisionType DEF Next
<1>2. TypeInv /\ UNCHANGED vars => TypeInv'
  BY DEF TypeInv, vars, Rows, Queue, RetryLeft, Deliveries, Published, Counters, Attempts
<1>3. QED
  BY <1>1, <1>2

\* Every reachable state has well-formed rows, jobs and deliveries.
THEOREM TypeCorrect == Spec => []TypeOK
<1>1. Spec => []TypeInv
  BY InitType, TypeStep, PTL DEF Spec
<1>2. QED
  BY <1>1, TypeInvImpliesTypeOK, PTL

-----------------------------------------------------------------------------
(* Safety                                                                  *)

\* Audio that is not yet durable has no attempt and cannot be deleted.
NothingBeforeDurable ==
    recording.persistence = "prepared" => runs = <<>> /\ ~recording.audioDeleted

\* The first published transcript seeds the corrected layer.
SeededByFirst == revisions # <<>> => corrected # NoRun

SafetyInv ==
    /\ RecordingTracksLatestRun
    /\ SupersededRunsSettled
    /\ RevisionsFollowAttempts
    /\ SucceededRunIsPublished
    /\ NothingBeforeDurable
    /\ SeededByFirst

Inv == TypeInv /\ SafetyInv

\* The part of SafetyInv that the run and revision tables decide alone.
Tables == <<recording, runs, revisions, corrected>>

LEMMA InitSafety == Init => SafetyInv
<1> SUFFICES ASSUME Init PROVE SafetyInv
  OBVIOUS
<1>1. runs = <<>> /\ Len(runs) = 0 /\ Attempts = {} /\ revisions = <<>>
      /\ DOMAIN revisions = {}
  BY DEF Init, Attempts
<1>2. recording.latest = 0 /\ recording.state = "not_started"
      /\ ~recording.audioDeleted
  BY DEF Init, NoRun
<1>3. QED
  BY <1>1, <1>2
  DEF SafetyInv, RecordingTracksLatestRun, SupersededRunsSettled,
      RevisionsFollowAttempts, SucceededRunIsPublished, NothingBeforeDurable,
      SeededByFirst

LEMMA TablesKeptSafe ==
    ASSUME SafetyInv, UNCHANGED Tables
    PROVE  SafetyInv'
BY DEF Tables, SafetyInv, RecordingTracksLatestRun, SupersededRunsSettled,
       RevisionsFollowAttempts, SucceededRunIsPublished, NothingBeforeDurable,
       SeededByFirst, Attempts

\* A new attempt may only follow a settled one.
LEMMA EnqueueSafe ==
    ASSUME Inv, NEW row \in Recording, EnqueueRun(row), row.persistence = "durable",
           runs # <<>> => Retryable(runs[Len(runs)]),
           UNCHANGED <<revisions, corrected>>
    PROVE  SafetyInv'
<1>0. TypeInv /\ SafetyInv /\ runs \in Seq(Run) /\ revisions \in Seq(Attempts)
  BY DEF Inv, TypeInv, Rows, Published
<1>1. /\ Len(runs) \in Nat
      /\ Attempts = 1..Len(runs)
      /\ Attempts' = 1..(Len(runs) + 1)
      /\ Len(runs') = Len(runs) + 1
      /\ recording'.latest = Len(runs')
      /\ recording'.state = "queued"
      /\ runs'[Len(runs')] = [status |-> "queued", error |-> "none"]
      /\ \A j \in Attempts : runs'[j] = runs[j]
  BY <1>0, EnqueueType
<1>2. runs' # <<>>
  BY <1>1
<1>3. RecordingTracksLatestRun'
  BY <1>1, <1>2 DEF RecordingTracksLatestRun
<1>4. SupersededRunsSettled'
  <2>1. SUFFICES ASSUME NEW j \in Attempts', j < Len(runs')
                 PROVE  runs'[j].status \in {"failed", "canceled"}
    BY DEF SupersededRunsSettled
  <2>2. j \in Attempts /\ runs'[j] = runs[j]
    BY <1>1, <2>1
  <2>3. CASE j < Len(runs)
    BY <1>0, <2>2, <2>3 DEF SafetyInv, SupersededRunsSettled
  <2>4. CASE j = Len(runs)
    <3>1. runs # <<>>
      BY <1>1, <2>2
    <3>2. QED
      BY <2>2, <2>4, <3>1 DEF Retryable
  <2>5. QED
    BY <1>1, <2>1, <2>3, <2>4
<1>5. RevisionsFollowAttempts'
  BY <1>0 DEF SafetyInv, RevisionsFollowAttempts
<1>6. SucceededRunIsPublished'
  <2>1. SUFFICES ASSUME NEW j \in Attempts', runs'[j].status = "succeeded"
                 PROVE  j \in {revisions[n] : n \in DOMAIN revisions} /\ corrected # NoRun
    BY DEF SucceededRunIsPublished
  <2>2. j \in Attempts
    BY <1>1, <2>1
  <2>3. QED
    BY <1>0, <1>1, <2>1, <2>2 DEF SafetyInv, SucceededRunIsPublished
<1>7. NothingBeforeDurable' /\ SeededByFirst'
  <2>1. recording'.persistence = "durable"
    BY DEF EnqueueRun, Recording
  <2>2. QED
    BY <1>0, <2>1 DEF NothingBeforeDurable, SafetyInv, SeededByFirst
<1>8. QED
  BY <1>3, <1>4, <1>5, <1>6, <1>7 DEF SafetyInv

\* A run is rewritten by the worker that executes it: the recording follows when
\* the run is the latest, and a superseded run may only settle.
LEMMA WriteSafe ==
    ASSUME Inv, NEW i \in Attempts, NEW run \in Run,
           NEW state \in {"queued", "running", "succeeded", "failed"},
           state = IF run.status = "canceled" THEN "failed" ELSE run.status,
           recording.latest # i => run.status \in {"failed", "canceled"},
           runs' = [runs EXCEPT ![i] = run],
           recording' = SetState(i, state),
           RevisionsFollowAttempts', SeededByFirst',
           revisions' = revisions \/ revisions' = Append(revisions, i),
           corrected # NoRun => corrected' # NoRun,
           run.status = "succeeded" =>
               i \in {revisions'[n] : n \in DOMAIN revisions'} /\ corrected' # NoRun
    PROVE  SafetyInv'
<1>0. TypeInv /\ SafetyInv /\ runs \in Seq(Run) /\ revisions \in Seq(Attempts)
      /\ recording \in Recording
  BY DEF Inv, TypeInv, Rows, Published
<1>1. /\ Len(runs') = Len(runs) /\ Attempts' = Attempts
      /\ \A j \in Attempts : runs'[j] = IF j = i THEN run ELSE runs[j]
  BY <1>0, WriteRun
<1>2. Attempts = 1..Len(runs) /\ Len(runs) \in Nat
  BY <1>0, LenProperties DEF Attempts
<1>3. Len(runs) > 0 /\ Len(runs') > 0 /\ Len(runs) \in Attempts
  BY <1>1, <1>2
<1>11. runs # <<>> /\ runs' # <<>>
  BY <1>3
<1>4. recording.latest = Len(runs)
  BY <1>0 DEF SafetyInv, RecordingTracksLatestRun
<1>5. RecordingTracksLatestRun'
  <2>1. CASE i = Len(runs)
    <3>1. recording' = [recording EXCEPT !.state = state]
      BY <1>4, <2>1 DEF SetState
    <3>2. recording'.latest = Len(runs) /\ recording'.state = state
      BY <1>0, <1>4, <3>1 DEF Recording
    <3>3. runs'[Len(runs')] = run
      BY <1>1, <1>3, <2>1
    <3>4. QED
      BY <1>1, <1>3, <1>11, <3>2, <3>3 DEF RecordingTracksLatestRun
  <2>2. CASE i # Len(runs)
    <3>1. recording' = recording
      BY <1>4, <2>2 DEF SetState
    <3>2. QED
      BY <1>0, <1>1, <1>3, <1>11, <2>2, <3>1 DEF SafetyInv, RecordingTracksLatestRun
  <2>3. QED
    BY <2>1, <2>2
<1>6. SupersededRunsSettled'
  <2>1. SUFFICES ASSUME NEW j \in Attempts, j < Len(runs)
                 PROVE  runs'[j].status \in {"failed", "canceled"}
    BY <1>1 DEF SupersededRunsSettled
  <2>2. runs[j].status \in {"failed", "canceled"}
    BY <1>0, <2>1 DEF SafetyInv, SupersededRunsSettled
  <2>3. j = i => run.status \in {"failed", "canceled"}
    BY <1>2, <1>4, <2>1
  <2>4. QED
    BY <1>1, <2>2, <2>3
<1>7. SucceededRunIsPublished'
  <2>1. SUFFICES ASSUME NEW j \in Attempts, runs'[j].status = "succeeded"
                 PROVE  j \in {revisions'[n] : n \in DOMAIN revisions'} /\ corrected' # NoRun
    BY <1>1 DEF SucceededRunIsPublished
  <2>2. CASE j = i
    BY <1>1, <2>1, <2>2
  <2>3. CASE j # i
    <3>1. j \in {revisions[n] : n \in DOMAIN revisions} /\ corrected # NoRun
      BY <1>0, <1>1, <2>1, <2>3 DEF SafetyInv, SucceededRunIsPublished
    <3>2. \A n \in DOMAIN revisions : n \in DOMAIN revisions' /\ revisions'[n] = revisions[n]
      BY <1>0, AppendToSeq
    <3>3. QED
      BY <3>1, <3>2
  <2>4. QED
    BY <2>2, <2>3
<1>8. NothingBeforeDurable'
  <2>1. recording'.persistence = recording.persistence
    BY <1>0 DEF SetState, Recording
  <2>2. QED
    BY <1>0, <1>11, <2>1 DEF SafetyInv, NothingBeforeDurable
<1>9. QED
  BY <1>5, <1>6, <1>7, <1>8 DEF SafetyInv

LEMMA OwnerSafe ==
    ASSUME Inv, OwnerStep
    PROVE  SafetyInv'
<1>0. TypeInv /\ SafetyInv /\ recording \in Recording
  BY DEF Inv, TypeInv, Rows
<1>1. CASE ConfirmDurable
  <2>1. runs = <<>>
    BY <1>0, <1>1 DEF ConfirmDurable, SafetyInv, NothingBeforeDurable
  <2>2. [recording EXCEPT !.persistence = "durable"] \in Recording
        /\ [recording EXCEPT !.persistence = "durable"].persistence = "durable"
    BY <1>0 DEF Recording
  <2>3. QED
    BY <1>1, <2>1, <2>2, EnqueueSafe DEF ConfirmDurable
<1>2. CASE \E k \in RetryKeys : RetryTranscription(k)
  BY <1>0, <1>2, EnqueueSafe DEF RetryTranscription
<1>3. CASE DeleteAudio \/ RestoreAudio
  <2>1. /\ UNCHANGED <<runs, revisions, corrected>>
        /\ recording.persistence = "durable"
        /\ \E deleted \in BOOLEAN : recording' = [recording EXCEPT !.audioDeleted = deleted]
    BY <1>3 DEF DeleteAudio, RestoreAudio
  <2>2. /\ recording'.persistence = "durable"
        /\ recording'.latest = recording.latest
        /\ recording'.state = recording.state
    BY <1>0, <2>1 DEF Recording
  <2>3. QED
    BY <1>0, <2>1, <2>2
    DEF SafetyInv, RecordingTracksLatestRun, SupersededRunsSettled,
        RevisionsFollowAttempts, SucceededRunIsPublished, NothingBeforeDurable,
        SeededByFirst, Attempts
<1>4. QED
  BY <1>1, <1>2, <1>3 DEF OwnerStep

\* A write that publishes nothing keeps the order of the revisions.
LEMMA SilentWriteSafe ==
    ASSUME Inv, NEW i \in Attempts, NEW run \in Run,
           NEW state \in {"queued", "running", "succeeded", "failed"},
           state = IF run.status = "canceled" THEN "failed" ELSE run.status,
           recording.latest # i => run.status \in {"failed", "canceled"},
           run.status # "succeeded",
           runs' = [runs EXCEPT ![i] = run],
           recording' = SetState(i, state),
           UNCHANGED <<revisions, corrected>>
    PROVE  SafetyInv'
<1>1. RevisionsFollowAttempts' /\ SeededByFirst'
  BY DEF Inv, SafetyInv, RevisionsFollowAttempts, SeededByFirst
<1>2. QED
  BY <1>1, WriteSafe

\* The newest attempt publishes after every earlier one.
LEMMA PublishSafe ==
    ASSUME Inv, NEW i \in Attempts, ~Stale(i),
           i \notin {revisions[n] : n \in DOMAIN revisions},
           runs' = [runs EXCEPT ![i] = [status |-> "succeeded", error |-> "none"]],
           recording' = SetState(i, "succeeded"),
           revisions' = Append(revisions, i),
           corrected' = SeedCorrected(i)
    PROVE  SafetyInv'
<1>0. TypeInv /\ SafetyInv /\ runs \in Seq(Run) /\ revisions \in Seq(Attempts)
  BY DEF Inv, TypeInv, Rows, Published
<1>1. Attempts = 1..Len(runs) /\ i = Len(runs) /\ Len(runs) \in Nat
  BY <1>0, LenProperties
  DEF Attempts, Stale, SafetyInv, RecordingTracksLatestRun
<1>2. /\ Len(revisions) \in Nat
      /\ DOMAIN revisions = 1..Len(revisions)
      /\ DOMAIN revisions' = 1..(Len(revisions) + 1)
      /\ revisions'[Len(revisions) + 1] = i
      /\ \A n \in DOMAIN revisions : revisions'[n] = revisions[n]
  BY <1>0, AppendToSeq
<1>3. \A n \in DOMAIN revisions : revisions[n] \in 1..Len(runs) /\ revisions[n] < i
  BY <1>0, <1>1, <1>2, ElementOfSeq
<1>4. RevisionsFollowAttempts'
  BY <1>0, <1>2, <1>3 DEF SafetyInv, RevisionsFollowAttempts
<1>5. corrected' # NoRun
  BY <1>1 DEF NoRun, SeedCorrected
<1>6. i \in {revisions'[n] : n \in DOMAIN revisions'}
  BY <1>2
<1>7. [status |-> "succeeded", error |-> "none"] \in Run
  BY DEF Run, RunStatus, RunError
<1>8. recording.latest = i
  BY DEF Stale
<1>9. SeededByFirst'
  BY <1>5 DEF SeededByFirst
<1>10. QED
  BY <1>4, <1>5, <1>6, <1>7, <1>8, <1>9, WriteSafe

LEMMA WorkerSafe ==
    ASSUME Inv, NEW w \in Workers, WorkerStep(w)
    PROVE  SafetyInv'
<1> DEFINE i == workers[w].run
<1>0. TypeInv /\ SafetyInv
  BY DEF Inv
<1>1. workers[w].pc # "idle"
  BY DEF WorkerStep, Load, MarkCanceled, MarkRunning, Transcribe, Complete, MarkFailed,
         Settle
<1>2. i \in Attempts /\ workers[w] \in Delivery /\ runs[i] \in Run
  BY <1>0, <1>1, WorkerType
<1>3. CASE Load(w) \/ Transcribe(w) \/ Settle(w)
  BY <1>0, <1>3, TablesKeptSafe DEF Load, Transcribe, Settle, Tables
<1>4. CASE MarkCanceled(w)
  <2>1. CASE UNCHANGED <<runs, recording>>
    BY <1>0, <1>4, <2>1, TablesKeptSafe DEF MarkCanceled, Tables
  <2>2. CASE /\ runs' = [runs EXCEPT ![i] = CanceledRun(runs[i])]
             /\ recording' = SetState(i, "failed")
    <3>1. CanceledRun(runs[i]) \in Run /\ CanceledRun(runs[i]).status = "canceled"
      BY <1>2 DEF CanceledRun, Run, RunStatus
    <3>2. UNCHANGED <<revisions, corrected>>
      BY <1>4 DEF MarkCanceled
    <3>3. QED
      BY <1>2, <2>2, <3>1, <3>2, SilentWriteSafe
  <2>3. QED
    BY <1>4, <2>1, <2>2 DEF MarkCanceled
<1>5. CASE MarkRunning(w)
  <2>1. CASE Stale(i)
    BY <1>0, <1>5, <2>1, TablesKeptSafe DEF MarkRunning, Tables
  <2>2. CASE ~Stale(i)
    <3>1. [status |-> "running", error |-> "none"] \in Run
      BY DEF Run, RunStatus, RunError
    <3>2. recording.latest = i
      BY <2>2 DEF Stale
    <3>3. QED
      BY <1>2, <1>5, <2>2, <3>1, <3>2, SilentWriteSafe DEF MarkRunning
  <2>3. QED
    BY <2>1, <2>2
<1>6. CASE Complete(w)
  <2>1. CASE UNCHANGED <<runs, recording, revisions, corrected>>
    BY <1>0, <2>1, TablesKeptSafe DEF Tables
  <2>2. CASE /\ ~Stale(i)
             /\ i \notin {revisions[n] : n \in DOMAIN revisions}
             /\ revisions' = Append(revisions, i)
             /\ corrected' = SeedCorrected(i)
             /\ runs' = [runs EXCEPT ![i] = [status |-> "succeeded", error |-> "none"]]
             /\ recording' = SetState(i, "succeeded")
    BY <1>2, <2>2, PublishSafe
  <2>3. QED
    BY <1>6, <2>1, <2>2 DEF Complete
<1>7. CASE MarkFailed(w)
  <2>1. CASE runs[i].status = "succeeded"
    BY <1>0, <1>7, <2>1, TablesKeptSafe DEF MarkFailed, Tables
  <2>2. CASE runs[i].status # "succeeded"
    <3>1. [status |-> "failed", error |-> workers[w].error] \in Run
      BY <1>2 DEF Run, RunStatus, Delivery
    <3>2. QED
      BY <1>2, <1>7, <2>2, <3>1, SilentWriteSafe DEF MarkFailed
  <2>3. QED
    BY <2>1, <2>2
<1>8. QED
  BY <1>3, <1>4, <1>5, <1>6, <1>7 DEF WorkerStep

LEMMA InvStep == Inv /\ [Next]_vars => Inv'
<1> SUFFICES ASSUME Inv, [Next]_vars PROVE SafetyInv'
  BY TypeStep DEF Inv
<1>0. TypeInv /\ SafetyInv
  BY DEF Inv
<1>1. CASE OwnerStep
  BY <1>1, OwnerSafe
<1>2. CASE \E w \in Workers : WorkerStep(w)
  BY <1>2, WorkerSafe
<1>3. CASE \E w \in Workers, i \in Attempts : Fetch(w, i)
  BY <1>0, <1>3, TablesKeptSafe DEF Fetch, Tables
<1>4. CASE (\E i \in Attempts : Reclaim(i)) \/ FaultStep
  BY <1>0, <1>4, TablesKeptSafe
  DEF Reclaim, FaultStep, Crash, Expire, StatementFails, LoseHeartbeat, Tables
<1>5. CASE UNCHANGED vars
  BY <1>0, <1>5, TablesKeptSafe DEF vars, Tables
<1>6. QED
  BY <1>1, <1>2, <1>3, <1>4, <1>5 DEF Next

LEMMA InvAlways == Spec => []Inv
<1>1. Init => Inv
  BY InitType, InitSafety DEF Inv
<1>2. QED
  BY <1>1, InvStep, PTL DEF Spec

\* The state shown for a recording is always that of its newest attempt.
THEOREM RecordingTracks == Spec => []RecordingTracksLatestRun
<1>1. Inv => RecordingTracksLatestRun
  BY DEF Inv, SafetyInv
<1>2. QED
  BY <1>1, InvAlways, PTL

\* No delivery, however late, revives an attempt the owner has replaced.
THEOREM SupersededStaySettled == Spec => []SupersededRunsSettled
<1>1. Inv => SupersededRunsSettled
  BY DEF Inv, SafetyInv
<1>2. QED
  BY <1>1, InvAlways, PTL

\* Transcripts are published in attempt order, at most one per attempt.
THEOREM RevisionsInOrder == Spec => []RevisionsFollowAttempts
<1>1. Inv => RevisionsFollowAttempts
  BY DEF Inv, SafetyInv
<1>2. QED
  BY <1>1, InvAlways, PTL

\* A run never claims success without its transcript.
THEOREM SuccessIsPublished == Spec => []SucceededRunIsPublished
<1>1. Inv => SucceededRunIsPublished
  BY DEF Inv, SafetyInv
<1>2. QED
  BY <1>1, InvAlways, PTL

-----------------------------------------------------------------------------
(* Refinement                                                              *)

\* Every step of the system is a step of the ledger or leaves it alone.
LEMMA LedgerStep ==
    ASSUME Inv, [Next]_vars
    PROVE  [Ledger!LedgerNext]_(Ledger!ledger)
<1>0. TypeInv /\ SafetyInv /\ recording \in Recording /\ runs \in Seq(Run)
      /\ revisions \in Seq(Attempts) /\ Len(runs) \in Nat /\ Attempts = 1..Len(runs)
  BY LenProperties DEF Inv, TypeInv, Rows, Published, Attempts
<1>1. ASSUME UNCHANGED <<revisions, corrected>>, UNCHANGED Len(runs),
             UNCHANGED recording.audioDeleted
      PROVE  UNCHANGED Ledger!ledger
  BY <1>1 DEF Ledger!ledger
<1>2. ASSUME UNCHANGED Tables PROVE UNCHANGED Ledger!ledger
  BY <1>2 DEF Ledger!ledger, Tables
<1>3. ASSUME NEW row \in Recording, EnqueueRun(row), ~recording.audioDeleted,
             row.audioDeleted = recording.audioDeleted,
             UNCHANGED <<revisions, corrected>>
      PROVE  Ledger!Request
  <2>1. Len(runs') = Len(runs) + 1
    BY <1>0, <1>3, EnqueueType
  <2>2. recording'.audioDeleted = recording.audioDeleted
    BY <1>0, <1>3 DEF EnqueueRun, Recording
  <2>3. QED
    BY <1>3, <2>1, <2>2 DEF Ledger!Request
<1>4. CASE ConfirmDurable
  <2>1. runs = <<>> /\ ~recording.audioDeleted
    BY <1>0, <1>4 DEF ConfirmDurable, SafetyInv, NothingBeforeDurable
  <2>2. [recording EXCEPT !.persistence = "durable"] \in Recording
        /\ [recording EXCEPT !.persistence = "durable"].audioDeleted = recording.audioDeleted
    BY <1>0 DEF Recording
  <2>3. QED
    BY <1>3, <1>4, <2>1, <2>2 DEF ConfirmDurable, Ledger!LedgerNext
<1>5. CASE \E k \in RetryKeys : RetryTranscription(k)
  BY <1>0, <1>3, <1>5 DEF RetryTranscription, Ledger!LedgerNext
<1>6. CASE DeleteAudio \/ RestoreAudio
  BY <1>0, <1>6
  DEF DeleteAudio, RestoreAudio, Recording, Ledger!LedgerNext, Ledger!Withhold
<1>7. ASSUME NEW w \in Workers, WorkerStep(w)
      PROVE  [Ledger!LedgerNext]_(Ledger!ledger)
  <2> DEFINE i == workers[w].run
  <2>1. workers[w].pc # "idle"
    BY <1>7 DEF WorkerStep, Load, MarkCanceled, MarkRunning, Transcribe, Complete,
                MarkFailed, Settle
  <2>2. i \in Attempts /\ runs[i] \in Run /\ workers[w] \in Delivery
    BY <1>0, <2>1, WorkerType
  <2>3. ASSUME NEW run \in Run, NEW state,
               runs' = [runs EXCEPT ![i] = run], recording' = SetState(i, state)
        PROVE  UNCHANGED Len(runs) /\ UNCHANGED recording.audioDeleted
    BY <1>0, <2>2, <2>3, ReplaceInSeq DEF SetState, Recording, Attempts
  <2>4. CASE Load(w) \/ Transcribe(w) \/ Settle(w)
    BY <1>2, <2>4 DEF Load, Transcribe, Settle, Tables
  <2>5. CASE MarkCanceled(w)
    <3>1. CanceledRun(runs[i]) \in Run
      BY <2>2 DEF CanceledRun, Run, RunStatus
    <3>2. QED
      BY <1>1, <2>3, <2>5, <3>1 DEF MarkCanceled
  <2>6. CASE MarkRunning(w)
    <3>1. [status |-> "running", error |-> "none"] \in Run
      BY DEF Run, RunStatus, RunError
    <3>2. QED
      BY <1>1, <2>3, <2>6, <3>1 DEF MarkRunning
  <2>7. CASE MarkFailed(w)
    <3>1. [status |-> "failed", error |-> workers[w].error] \in Run
      BY <2>2 DEF Run, RunStatus, Delivery
    <3>2. QED
      BY <1>1, <2>3, <2>7, <3>1 DEF MarkFailed
  <2>8. CASE Complete(w)
    <3>1. CASE UNCHANGED <<runs, recording, revisions, corrected>>
      BY <1>2, <3>1 DEF Tables
    <3>2. CASE /\ ~Stale(i)
               /\ i \notin {revisions[n] : n \in DOMAIN revisions}
               /\ revisions' = Append(revisions, i)
               /\ corrected' = SeedCorrected(i)
               /\ runs' = [runs EXCEPT ![i] = [status |-> "succeeded", error |-> "none"]]
               /\ recording' = SetState(i, "succeeded")
      <4>1. i = Len(runs) /\ ~recording.audioDeleted /\ Len(runs) > 0
        BY <1>0, <2>2, <3>2 DEF Stale, SafetyInv, RecordingTracksLatestRun
      <4>2. \A n \in DOMAIN revisions : revisions[n] \in 1..Len(runs)
        BY <1>0, ElementOfSeq, LenProperties
      <4>3. \A n \in DOMAIN revisions : revisions[n] < Len(runs)
        BY <1>0, <3>2, <4>1, <4>2
      <4>4. [status |-> "succeeded", error |-> "none"] \in Run
        BY DEF Run, RunStatus, RunError
      <4>5. UNCHANGED Len(runs) /\ UNCHANGED recording.audioDeleted
        BY <2>3, <3>2, <4>4
      <4>6. Ledger!Publish
        BY <3>2, <4>1, <4>3, <4>5 DEF Ledger!Publish, SeedCorrected, NoRun
      <4>7. QED
        BY <4>6 DEF Ledger!LedgerNext
    <3>3. QED
      BY <2>8, <3>1, <3>2 DEF Complete
  <2>9. QED
    BY <1>7, <2>4, <2>5, <2>6, <2>7, <2>8 DEF WorkerStep
<1>8. CASE \E w \in Workers, i \in Attempts : Fetch(w, i)
  BY <1>2, <1>8 DEF Fetch, Tables
<1>9. CASE (\E i \in Attempts : Reclaim(i)) \/ FaultStep
  BY <1>2, <1>9
  DEF Reclaim, FaultStep, Crash, Expire, StatementFails, LoseHeartbeat, Tables
<1>10. CASE UNCHANGED vars
  BY <1>2, <1>10 DEF vars, Tables
<1>11. QED
  BY <1>4, <1>5, <1>6, <1>7, <1>8, <1>9, <1>10 DEF Next, OwnerStep

\* The system implements the ledger its readers rely on.
THEOREM ImplementsLedger == Spec => LedgerSpec
<1>1. Init => Ledger!LedgerInit
  BY DEF Init, Ledger!LedgerInit, NoRun
<1>2. Inv /\ [Next]_vars => [Ledger!LedgerNext]_(Ledger!ledger)
  BY LedgerStep
<1>3. QED
  BY <1>1, <1>2, InvAlways, PTL DEF Spec, LedgerSpec, Ledger!LedgerSpec

\* No transcript appears while the audio is deleted, wherever the deletion fell.
THEOREM DeletedAudioIsSilent == Spec => NothingPublishedWhileDeleted
<1>1. ASSUME Inv, [Next]_vars
      PROVE  [revisions' # revisions => ~recording.audioDeleted]_vars
  <2>1. [Ledger!LedgerNext]_(Ledger!ledger)
    BY <1>1, LedgerStep
  <2>2. CASE Ledger!Publish
    BY <2>2 DEF Ledger!Publish
  <2>3. CASE Ledger!Request \/ Ledger!Withhold \/ UNCHANGED Ledger!ledger
    BY <2>3 DEF Ledger!Request, Ledger!Withhold, Ledger!ledger
  <2>4. QED
    BY <2>1, <2>2, <2>3 DEF Ledger!LedgerNext
<1>2. QED
  BY <1>1, InvAlways, PTL DEF Spec, NothingPublishedWhileDeleted

-----------------------------------------------------------------------------
(* Success is final until a live delivery is given up                      *)

Busy(w) == workers[w].pc # "idle"
Succeeded(i) == runs[i].status = "succeeded"

\* While pg-boss has not given up on a delivery that was still running, the
\* job of a busy worker is active, nobody else executes it, and no run that a
\* delivery is about to mark as running has succeeded.
SoleDeliveries ==
    /\ \A w \in Workers : Busy(w) => jobs[workers[w].run].state = "active"
    /\ \A v, w \in Workers :
         Busy(v) /\ Busy(w) /\ v # w => workers[v].run # workers[w].run
    /\ \A w \in Workers : workers[w].pc = "mark" => ~Succeeded(workers[w].run)

OneDelivery == stalls = 0 => SoleDeliveries

\* A worker that keeps its delivery leaves the queue alone; it writes no run
\* but its own, and undoes a success only when it marks the run as running.
OwnRunOnly(w) ==
    LET i == workers[w].run IN
    /\ \A v \in Workers \ {w} : workers'[v] = workers[v]
    /\ workers'[w].pc # "idle" => workers'[w].run = i /\ UNCHANGED jobs
    /\ workers'[w].pc = "mark" => ~Succeeded(i) /\ UNCHANGED runs
    /\ \A j \in Attempts \ {i} : jobs'[j] = jobs[j] /\ runs'[j] = runs[j]
    /\ Succeeded(i) /\ workers[w].pc # "mark" => runs'[i].status = "succeeded"
    /\ Attempts' = Attempts
    /\ UNCHANGED stalls

\* The delivery goes on to pc, with the same run; the others stay.
MovesTo(w, pc) ==
    /\ \A v \in Workers \ {w} : workers'[v] = workers[v]
    /\ workers'[w].run = workers[w].run
    /\ workers'[w].pc = pc

\* Some step a worker takes without marking its run or freeing its slot.
GoesOn(w) ==
    \E pc \in {"report", "fail", "cancel", "transcribe", "complete"} : MovesTo(w, pc)

\* At most the run is rewritten, and a success only by a success.
KeepsSuccess(i) ==
    \/ UNCHANGED runs
    \/ \E row : /\ runs' = [runs EXCEPT ![i] = row]
                /\ Succeeded(i) => row.status = "succeeded"

LEMMA DeliveryMoves ==
    ASSUME TypeInv, NEW w \in Workers
    PROVE  /\ \A pc \in Step : Goto(w, pc) => MovesTo(w, pc)
           /\ \A outcome \in Outcome : Report(w, outcome) => MovesTo(w, "report")
           /\ \A error \in RunError : FailWith(w, error) => MovesTo(w, "fail")
<1>1. workers \in [Workers -> Delivery]
  BY DEF TypeInv, Deliveries
<1>2. ASSUME NEW pc \in Step, Goto(w, pc) PROVE MovesTo(w, pc)
  BY <1>1, <1>2 DEF Goto, MovesTo, Delivery
<1>3. ASSUME NEW outcome \in Outcome, Report(w, outcome) PROVE MovesTo(w, "report")
  <2>1. workers' = [workers EXCEPT ![w] =
                      [workers[w] EXCEPT !.pc = "report", !.outcome = outcome]]
    BY <1>3 DEF Report
  <2>2. workers[w] \in Delivery
    BY <1>1
  <2>3. QED
    BY <1>1, <2>1, <2>2 DEF MovesTo, Delivery
<1>4. ASSUME NEW error \in RunError, FailWith(w, error) PROVE MovesTo(w, "fail")
  <2>1. workers' = [workers EXCEPT ![w] =
                      [workers[w] EXCEPT !.pc = "fail", !.error = error]]
    BY <1>4 DEF FailWith
  <2>2. workers[w] \in Delivery
    BY <1>1
  <2>3. QED
    BY <1>1, <2>1, <2>2 DEF MovesTo, Delivery
<1>5. QED
  BY <1>2, <1>3, <1>4

\* Rewriting one attempt leaves the others and the set of attempts as it is.
LEMMA OneRunWritten ==
    ASSUME TypeInv, NEW i \in Attempts, NEW row, runs' = [runs EXCEPT ![i] = row]
    PROVE  Attempts' = Attempts /\ runs'[i] = row
           /\ \A j \in Attempts \ {i} : runs'[j] = runs[j]
BY DEF TypeInv, Rows, Attempts

LEMMA GoesOnOwnRun ==
    ASSUME TypeInv, NEW w \in Workers, workers[w].run \in Attempts, GoesOn(w),
           KeepsSuccess(workers[w].run), UNCHANGED jobs, UNCHANGED stalls
    PROVE  OwnRunOnly(w)
<1> DEFINE i == workers[w].run
<1>1. /\ Attempts' = Attempts
      /\ \A j \in Attempts \ {i} : runs'[j] = runs[j]
      /\ Succeeded(i) => runs'[i].status = "succeeded"
  <2>1. CASE UNCHANGED runs
    BY <2>1 DEF Attempts, Succeeded
  <2>2. CASE ~UNCHANGED runs
    <3>1. PICK row : /\ runs' = [runs EXCEPT ![i] = row]
                     /\ Succeeded(i) => row.status = "succeeded"
      BY <2>2 DEF KeepsSuccess
    <3>2. Attempts' = Attempts /\ runs'[i] = row
          /\ \A j \in Attempts \ {i} : runs'[j] = runs[j]
      BY <3>1, OneRunWritten
    <3>3. QED
      BY <3>1, <3>2
  <2>3. QED
    BY <2>1, <2>2
<1>2. PICK pc \in {"report", "fail", "cancel", "transcribe", "complete"} : MovesTo(w, pc)
  BY DEF GoesOn
<1>3. QED
  BY <1>1, <1>2 DEF OwnRunOnly, MovesTo

LEMMA WorkerWritesOwnRun ==
    ASSUME TypeInv, NEW w \in Workers, WorkerStep(w)
    PROVE  Busy(w) /\ OwnRunOnly(w)
<1> DEFINE i == workers[w].run
<1>1. Busy(w)
  BY DEF WorkerStep, Load, MarkCanceled, MarkRunning, Transcribe, Complete, MarkFailed,
         Settle, Busy
<1> SUFFICES OwnRunOnly(w)
  BY <1>1
<1>2. i \in Attempts /\ DOMAIN jobs = Attempts /\ workers \in [Workers -> Delivery]
  BY <1>1, WorkerType, LenProperties
  DEF Busy, TypeInv, Rows, Queue, Deliveries, Attempts
<1>3. GoesOn(w) /\ KeepsSuccess(i) /\ UNCHANGED <<jobs, stalls>> => OwnRunOnly(w)
  BY <1>2, GoesOnOwnRun
<1>4. CASE Load(w)
  <2>1. UNCHANGED <<runs, jobs, stalls>>
    BY <1>4 DEF Load, bounds
  <2>2. \/ GoesOn(w)
        \/ MovesTo(w, "mark") /\ ~Succeeded(i)
    BY <1>4, DeliveryMoves DEF Load, Concluded, Succeeded, GoesOn, Step, Outcome
  <2>3. CASE GoesOn(w)
    BY <1>3, <2>1, <2>3 DEF KeepsSuccess
  <2>4. CASE MovesTo(w, "mark") /\ ~Succeeded(i)
    BY <1>4, <2>1, <2>4 DEF Load, OwnRunOnly, MovesTo, Succeeded, Attempts
  <2>5. QED
    BY <2>2, <2>3, <2>4
<1>5. CASE MarkCanceled(w)
  <2>1. GoesOn(w) /\ UNCHANGED <<jobs, stalls>>
    BY <1>5, DeliveryMoves DEF MarkCanceled, GoesOn, Outcome, bounds
  <2>2. KeepsSuccess(i)
    BY <1>5 DEF MarkCanceled, KeepsSuccess, Succeeded
  <2>3. QED
    BY <1>3, <2>1, <2>2
<1>6. CASE MarkRunning(w)
  <2>1. GoesOn(w) /\ UNCHANGED <<jobs, stalls>>
    BY <1>6, DeliveryMoves DEF MarkRunning, GoesOn, Step, Outcome, RunError, bounds
  <2>2. CASE UNCHANGED runs
    BY <1>3, <2>1, <2>2 DEF KeepsSuccess
  <2>3. CASE ~UNCHANGED runs
    <3>1. PICK row : runs' = [runs EXCEPT ![i] = row]
      BY <1>6, <2>3 DEF MarkRunning
    <3>2. Attempts' = Attempts /\ \A j \in Attempts \ {i} : runs'[j] = runs[j]
      BY <1>2, <3>1, OneRunWritten
    <3>3. workers[w].pc = "mark"
      BY <1>6 DEF MarkRunning
    <3>4. QED
      BY <2>1, <3>2, <3>3 DEF OwnRunOnly, MovesTo, GoesOn
  <2>4. QED
    BY <2>2, <2>3
<1>7. CASE Transcribe(w)
  <2>1. GoesOn(w)
    BY <1>7, DeliveryMoves DEF Transcribe, GoesOn, Step, Outcome, RunError
  <2>2. UNCHANGED <<runs, jobs, stalls>>
    BY <1>7 DEF Transcribe, bounds
  <2>3. QED
    BY <1>3, <2>1, <2>2 DEF KeepsSuccess
<1>8. CASE Complete(w)
  <2>1. GoesOn(w) /\ UNCHANGED <<jobs, stalls>>
    BY <1>8, DeliveryMoves DEF Complete, GoesOn, Outcome, RunError, bounds
  <2>2. KeepsSuccess(i)
    BY <1>8 DEF Complete, KeepsSuccess, Succeeded
  <2>3. QED
    BY <1>3, <2>1, <2>2
<1>9. CASE MarkFailed(w)
  <2>1. GoesOn(w) /\ UNCHANGED <<jobs, stalls>>
    BY <1>9, DeliveryMoves DEF MarkFailed, GoesOn, Outcome, bounds
  <2>2. KeepsSuccess(i)
    BY <1>9 DEF MarkFailed, KeepsSuccess, Succeeded
  <2>3. QED
    BY <1>3, <2>1, <2>2
<1>10. CASE Settle(w)
  <2>1. workers' = [workers EXCEPT ![w] = Idle] /\ UNCHANGED <<runs, stalls>>
    BY <1>10 DEF Settle, bounds
  <2>2. workers'[w].pc = "idle" /\ \A v \in Workers \ {w} : workers'[v] = workers[v]
    BY <1>2, <2>1 DEF Idle
  <2>3. UNCHANGED jobs \/ \E job : jobs' = [jobs EXCEPT ![i] = job]
    BY <1>10 DEF Settle, Requeue
  <2>4. \A j \in Attempts \ {i} : jobs'[j] = jobs[j]
    BY <1>2, <2>3
  <2>5. QED
    BY <1>10, <2>1, <2>2, <2>4 DEF Settle, OwnRunOnly, Succeeded, Attempts
<1>11. QED
  BY <1>4, <1>5, <1>6, <1>7, <1>8, <1>9, <1>10 DEF WorkerStep

LEMMA WorkerSole ==
    ASSUME TypeInv, TypeInv', SoleDeliveries, NEW w \in Workers, WorkerStep(w)
    PROVE  SoleDeliveries'
<1> DEFINE i == workers[w].run
<1>1. Busy(w) /\ OwnRunOnly(w)
  BY WorkerWritesOwnRun
<1>2. \A v \in Workers : Busy(v)' => Busy(v) /\ workers'[v].run = workers[v].run
  BY <1>1 DEF OwnRunOnly, Busy
<1>3. \A v \in Workers : Busy(v) => workers[v].run \in Attempts
  BY DEF TypeInv, Deliveries, Busy
<1>4. \A v \in Workers \ {w} : Busy(v) => workers[v].run # i
  BY <1>1 DEF SoleDeliveries
<1>5. ASSUME NEW v \in Workers, Busy(v)'
      PROVE  jobs'[workers'[v].run].state = "active"
  BY <1>1, <1>2, <1>3, <1>4, <1>5 DEF OwnRunOnly, SoleDeliveries, Busy
<1>6. ASSUME NEW v \in Workers, workers'[v].pc = "mark"
      PROVE  runs'[workers'[v].run].status # "succeeded"
  <2>1. CASE v = w
    BY <1>1, <1>6, <2>1 DEF OwnRunOnly, Succeeded
  <2>2. CASE v # w
    BY <1>1, <1>3, <1>4, <1>6, <2>2 DEF OwnRunOnly, SoleDeliveries, Busy, Succeeded
  <2>3. QED
    BY <2>1, <2>2
<1>7. \A u, v \in Workers :
        Busy(u)' /\ Busy(v)' /\ u # v => workers'[u].run # workers'[v].run
  BY <1>2 DEF SoleDeliveries
<1>8. QED
  BY <1>5, <1>6, <1>7 DEF SoleDeliveries, Busy, Succeeded

\* pg-boss hands out only a job that waits, and a busy worker's job is active.
LEMMA FetchSole ==
    ASSUME TypeInv, SoleDeliveries, NEW w \in Workers, NEW i \in Attempts, Fetch(w, i)
    PROVE  SoleDeliveries'
<1>1. DOMAIN jobs = Attempts /\ workers \in [Workers -> Delivery]
  BY LenProperties DEF TypeInv, Rows, Queue, Deliveries, Attempts
<1>2. /\ workers'[w] = [Idle EXCEPT !.pc = "load", !.run = i]
      /\ \A v \in Workers \ {w} : workers'[v] = workers[v]
      /\ UNCHANGED runs
  BY <1>1 DEF Fetch
<1>3. workers'[w].pc = "load" /\ workers'[w].run = i
  BY <1>2 DEF Idle
<1>4. jobs'[i].state = "active" /\ \A j \in Attempts \ {i} : jobs'[j] = jobs[j]
  BY <1>1 DEF Fetch
<1>5. \A v \in Workers : Busy(v) => workers[v].run \in Attempts /\ workers[v].run # i
  BY DEF TypeInv, Deliveries, Busy, SoleDeliveries, Fetch, Deliverable
<1>6. \A v \in Workers : Busy(v)' => v = w \/ (Busy(v) /\ workers'[v] = workers[v])
  BY <1>2 DEF Busy
<1>7. \A v \in Workers : Busy(v)' => jobs'[workers'[v].run].state = "active"
  BY <1>3, <1>4, <1>5, <1>6 DEF SoleDeliveries
<1>8. \A u, v \in Workers :
        Busy(u)' /\ Busy(v)' /\ u # v => workers'[u].run # workers'[v].run
  BY <1>3, <1>5, <1>6 DEF SoleDeliveries
<1>9. \A v \in Workers :
        workers'[v].pc = "mark" => runs'[workers'[v].run].status # "succeeded"
  BY <1>2, <1>3 DEF SoleDeliveries, Succeeded
<1>10. QED
  BY <1>7, <1>8, <1>9 DEF SoleDeliveries, Busy, Succeeded

\* The jobs and runs of the deliveries under way are left as they are.
LEMMA KeptSole ==
    ASSUME SoleDeliveries,
           \A w \in Workers : Busy(w)' =>
             /\ Busy(w)
             /\ workers'[w].run = workers[w].run
             /\ jobs'[workers[w].run] = jobs[workers[w].run]
             /\ runs'[workers[w].run] = runs[workers[w].run]
             /\ workers'[w].pc = "mark" => workers[w].pc = "mark"
    PROVE  SoleDeliveries'
BY DEF SoleDeliveries, Busy, Succeeded

LEMMA OwnerSole ==
    ASSUME TypeInv, SoleDeliveries, OwnerStep
    PROVE  SoleDeliveries'
<1>1. UNCHANGED workers
  BY DEF OwnerStep, ConfirmDurable, RetryTranscription, DeleteAudio, RestoreAudio
<1>2. \A w \in Workers : Busy(w) => workers[w].run \in Attempts
  BY DEF TypeInv, Deliveries, Busy
<1>3. \A i \in Attempts : jobs'[i] = jobs[i] /\ runs'[i] = runs[i]
  <2>1. CASE UNCHANGED <<runs, jobs>>
    BY <2>1
  <2>2. CASE \E row : EnqueueRun(row)
    BY <2>2, AppendToSeq, LenProperties DEF EnqueueRun, TypeInv, Rows, Queue, Attempts, Run,
       RunStatus, RunError, Job, RetryLimitAssumption
  <2>3. QED
    BY <2>1, <2>2 DEF OwnerStep, ConfirmDurable, RetryTranscription, DeleteAudio, RestoreAudio
<1>4. QED
  BY <1>1, <1>2, <1>3, KeptSole DEF Busy

LEMMA FaultSole ==
    ASSUME TypeInv, SoleDeliveries, stalls' = 0, stalls \in Nat,
           FaultStep \/ \E i \in Attempts : Reclaim(i)
    PROVE  SoleDeliveries'
<1>1. workers \in [Workers -> Delivery] /\ DOMAIN jobs = Attempts
  BY LenProperties DEF TypeInv, Rows, Queue, Deliveries, Attempts
<1>2. \A w \in Workers : Busy(w) => workers[w].run \in Attempts
  BY DEF TypeInv, Deliveries, Busy
<1>3. CASE \E i \in Attempts : Reclaim(i)
  <2>1. PICK i \in Attempts : Reclaim(i)
    BY <1>3
  <2>2. \A j \in Attempts \ {i} : jobs'[j] = jobs[j]
    BY <1>1, <2>1 DEF Reclaim, Requeue
  <2>3. QED
    BY <1>2, <2>1, <2>2, KeptSole DEF Reclaim, Busy
<1>4. CASE \E w \in Workers : Crash(w)
  <2>1. PICK w \in Workers : Crash(w)
    BY <1>4
  <2>2. workers'[w].pc = "idle" /\ \A v \in Workers \ {w} : workers'[v] = workers[v]
    BY <1>1, <2>1 DEF Crash, Idle
  <2>3. QED
    BY <2>1, <2>2, KeptSole DEF Crash, Busy
<1>5. CASE \E w \in Workers : StatementFails(w)
  <2>1. PICK w \in Workers : StatementFails(w)
    BY <1>5
  <2>2. MovesTo(w, "report") \/ MovesTo(w, "fail")
    BY <2>1, DeliveryMoves DEF StatementFails, Outcome, RunError
  <2>3. Busy(w) /\ UNCHANGED <<jobs, runs>>
    BY <2>1 DEF StatementFails, Busy
  <2>4. QED
    BY <2>2, <2>3, KeptSole DEF MovesTo, Busy
<1>6. CASE Stalling
  BY <1>6 DEF Stalling
<1>7. QED
  BY <1>3, <1>4, <1>5, <1>6 DEF FaultStep, Expire, LoseHeartbeat

\* No step takes a stall back.
LEMMA StallsGrow ==
    ASSUME TypeInv, [Next]_vars, stalls' = 0
    PROVE  stalls = 0 /\ stalls \in Nat
<1>1. stalls \in Nat
  BY DEF TypeInv, Counters
<1>2. UNCHANGED stalls \/ stalls' = stalls + 1
  BY DEF Next, vars, bounds, OwnerStep, ConfirmDurable, RetryTranscription, DeleteAudio,
         RestoreAudio, Fetch, WorkerStep, Load, MarkCanceled, MarkRunning, Transcribe,
         Complete, MarkFailed, Settle, Reclaim, FaultStep, Crash, Expire, StatementFails,
         LoseHeartbeat, Crashing, Stalling
<1>3. QED
  BY <1>1, <1>2

LEMMA OneDeliveryStep == TypeInv /\ OneDelivery /\ [Next]_vars => OneDelivery'
<1> SUFFICES ASSUME TypeInv, OneDelivery, [Next]_vars, stalls' = 0
             PROVE  SoleDeliveries'
  BY DEF OneDelivery
<1>0. SoleDeliveries /\ TypeInv' /\ stalls \in Nat
  BY StallsGrow, TypeStep DEF OneDelivery
<1>1. CASE OwnerStep
  BY <1>0, <1>1, OwnerSole
<1>2. CASE \E w \in Workers : WorkerStep(w)
  BY <1>0, <1>2, WorkerSole
<1>3. CASE \E w \in Workers, i \in Attempts : Fetch(w, i)
  BY <1>0, <1>3, FetchSole
<1>4. CASE FaultStep \/ \E i \in Attempts : Reclaim(i)
  BY <1>0, <1>4, FaultSole
<1>5. CASE UNCHANGED vars
  BY <1>0, <1>5, KeptSole DEF vars, Busy
<1>6. QED
  BY <1>1, <1>2, <1>3, <1>4, <1>5 DEF Next

LEMMA OneDeliveryAlways == Spec => []OneDelivery
<1>1. Init => OneDelivery
  BY DEF Init, OneDelivery, SoleDeliveries, Busy, Idle
<1>2. QED
  BY <1>1, OneDeliveryStep, InvAlways, PTL DEF Spec, Inv

\* A step taken before any stall leaves every success standing.
LEMMA SuccessKept ==
    ASSUME TypeInv, OneDelivery, [Next]_vars, stalls = 0,
           NEW i \in Attempts, Succeeded(i)
    PROVE  Succeeded(i)'
<1>1. CASE \E w \in Workers : WorkerStep(w)
  <2>1. PICK w \in Workers : WorkerStep(w)
    BY <1>1
  <2>2. Busy(w) /\ OwnRunOnly(w)
    BY <2>1, WorkerWritesOwnRun
  <2>3. CASE workers[w].run = i
    BY <2>2, <2>3 DEF OwnRunOnly, OneDelivery, SoleDeliveries, Succeeded
  <2>4. CASE workers[w].run # i
    BY <2>2, <2>4 DEF OwnRunOnly, Succeeded
  <2>5. QED
    BY <2>3, <2>4
<1>2. CASE \E row : EnqueueRun(row)
  BY <1>2, AppendToSeq DEF EnqueueRun, TypeInv, Rows, Attempts, Run, RunStatus, RunError,
     Succeeded
<1>3. CASE UNCHANGED runs
  BY <1>3 DEF Succeeded
<1>4. QED
  BY <1>1, <1>2, <1>3
  DEF Next, vars, OwnerStep, ConfirmDurable, RetryTranscription, DeleteAudio,
      RestoreAudio, Fetch, Reclaim, FaultStep, Crash, Expire, StatementFails, LoseHeartbeat

\* Crashes, failed statements, retries and deletions never undo a success:
\* as long as pg-boss has given up on no delivery that was still running
\* (an expiry or a lost heartbeat), a run that succeeded stays succeeded.
THEOREM SuccessStandsUntilStall ==
    Spec => [][stalls = 0 =>
                 \A i \in Attempts : Succeeded(i) => runs'[i].status = "succeeded"]_vars
<1>1. ASSUME TypeInv, OneDelivery, [Next]_vars
      PROVE  [stalls = 0 =>
                \A i \in Attempts : Succeeded(i) => runs'[i].status = "succeeded"]_vars
  BY <1>1, SuccessKept DEF Succeeded
<1>2. QED
  BY <1>1, InvAlways, OneDeliveryAlways, PTL DEF Spec, Inv

\* Where no live delivery is given up, ADR-0007 holds: success is final.
THEOREM SuccessIsFinalWithoutStalls == MaxStalls = 0 => (Spec => SuccessIsFinal)
<1> SUFFICES ASSUME MaxStalls = 0 PROVE Spec => SuccessIsFinal
  OBVIOUS
<1>1. ASSUME TypeInv, OneDelivery, [Next]_vars
      PROVE  [\A i \in Attempts :
                runs[i].status = "succeeded" => runs'[i].status = "succeeded"]_vars
  <2>1. stalls = 0
    BY <1>1 DEF TypeInv, Counters
  <2>2. QED
    BY <1>1, <2>1, SuccessKept DEF Succeeded
<1>2. QED
  BY <1>1, InvAlways, OneDeliveryAlways, PTL DEF Spec, Inv, SuccessIsFinal

=============================================================================
