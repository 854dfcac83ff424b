-------------------------- MODULE RequirementNudges --------------------------
(* Required information: evaluations of the processors' results, the digests  *)
(* that ask the owner for what is missing, and the owner's answers.           *)
(*                                                                            *)
(* A journal day is identified with its date; a digest with its day, which    *)
(* has one at most.  Requirements are processor versions with a nudge policy. *)
EXTENDS Absence, Naturals, FiniteSets

CONSTANTS
    JournalDays,   \* dates that have required information, a set of numbers
    Requirements,
    Recorders,     \* transactions that record a processor run
    Schedulers,    \* hourly jobs that may overlap
    Cards,         \* pages that show the digest of a day
    Limits,        \* daily limits the owner may set
    MaxRecords,    \* bound: processor runs that are recorded
    MaxActions,    \* bound: actions of the owner that are accepted
    MaxDates       \* bound: calendar days that pass

VARIABLES
    evaluations,  \* [JournalDays \X Requirements -> None or [state, manual]]
    recorder,     \* [Recorders -> None or what it has read and will write]
    digests,      \* [JournalDays -> None or the row of nudge_digest]
    scheduler,    \* [Schedulers -> None or what it has read]
    dailyLimit,   \* the owner's preference
    today,        \* the owner's local date
    allowance,    \* [date -> the largest limit of that date], a history variable
    cards,        \* [Cards \X JournalDays -> None or what the card shows]
    concluded,    \* days whose digest the owner has concluded, a history variable
    records,      \* spent of the bounds
    actions

nudgeVars == <<evaluations, recorder, digests, scheduler, dailyLimit, today, allowance,
               cards, concluded, records, actions>>

\* What a run says of its requirement; one it has not evaluated or has failed at
\* is unsettled.
EvaluateRequirementRun == {"satisfied", "insufficient_information", "unsettled"}

\* The rows of the two tables.
EvaluationRow ==
    [state : EvaluateRequirementRun
                \cup {"pending_user_response", "dismissed", "not_applicable"},
     manual : BOOLEAN]

DigestRow ==
    [status : {"queued", "published", "deferred", "dismissed", "resolved"},
     revision : Nat, items : SUBSET Requirements, date : 1..MaxDates,
     due : BOOLEAN, published : BOOLEAN]

ASSUME NudgeAssumption ==
    /\ IsFiniteSet(JournalDays) /\ Limits \subseteq Nat /\ MaxDates \in Nat \ {0}
    /\ None \notin EvaluationRow /\ None \notin DigestRow

-----------------------------------------------------------------------------
(* Recording a processor run.                                                 *)

RequirementEvaluation(state) == [state |-> state, manual |-> FALSE]

\* The evaluation is read without a lock; one the owner has resolved is left alone.
ReadEvaluation(t, d, r) ==
    /\ recorder[t] = None
    /\ records < MaxRecords
    /\ records' = records + 1
    /\ evaluations[d, r] # None => ~evaluations[d, r].manual
    /\ \E state \in EvaluateRequirementRun :
          recorder' = [recorder EXCEPT ![t] =
              [day |-> d, requirement |-> r, state |-> state, found |-> evaluations[d, r] # None]]
    /\ UNCHANGED <<evaluations, digests, scheduler, dailyLimit, today, allowance, cards,
                   concluded, actions>>

\* The states the database takes for an evaluation the owner has resolved.
ManualStates == {"satisfied", "dismissed", "not_applicable"}

\* A second insertion and a state that is none of those fail, and nothing
\* records the run again.
RecordProcessorRun(t) ==
    /\ recorder[t] # None
    /\ recorder' = [recorder EXCEPT ![t] = None]
    /\ LET d == recorder[t].day
           r == recorder[t].requirement
           state == recorder[t].state
       IN  IF ~recorder[t].found
           THEN evaluations' = IF evaluations[d, r] # None THEN evaluations
                               ELSE [evaluations EXCEPT ![<<d, r>>] = RequirementEvaluation(state)]
           ELSE evaluations' = IF evaluations[d, r].manual /\ state \notin ManualStates
                               THEN evaluations
                               ELSE [evaluations EXCEPT ![<<d, r>>].state = state]
    /\ UNCHANGED <<digests, scheduler, dailyLimit, today, allowance, cards, concluded,
                   records, actions>>

-----------------------------------------------------------------------------
(* The hourly job.                                                            *)

\* Outside the owner's quiet hours a digest is published when it is made.
NudgeDigest(items, date, quiet) ==
    [status |-> IF quiet THEN "queued" ELSE "published", revision |-> 1, items |-> items,
     date |-> date, due |-> ~quiet, published |-> ~quiet]

\* The time of delivery comes.
DeliveryWindowOpens(d) ==
    /\ digests[d] # None
    /\ ~digests[d].due
    /\ digests' = [digests EXCEPT ![d].due = TRUE]
    /\ UNCHANGED <<evaluations, recorder, scheduler, dailyLimit, today, allowance, cards,
                   concluded, records, actions>>

\* The list of digests that are due may be old; the row is locked and looked at again.
PublishDueDigest(d) ==
    /\ digests[d] # None
    /\ digests[d].status \in {"queued", "deferred"}
    /\ digests[d].due
    /\ digests' = [digests EXCEPT ![d].status = "published", ![d].published = TRUE,
                                  ![d].revision = @ + 1]
    /\ UNCHANGED <<evaluations, recorder, scheduler, dailyLimit, today, allowance, cards,
                   concluded, records, actions>>

\* A mutant leaves the advisory lock out.
Unlocked == TRUE

\* The owner's advisory lock is held to the end of the transaction.
DigestLockFree == \A s \in Schedulers : scheduler[s] = None

Asked(d, r) == digests[d] # None /\ r \in digests[d].items

Eligible(d, r) ==
    /\ evaluations[d, r] # None
    /\ evaluations[d, r].state = "insufficient_information"
    /\ ~Asked(d, r)

\* The job takes the newest day that has something to ask for.
ReadCandidates(s) ==
    /\ scheduler[s] = None
    /\ DigestLockFree
    /\ Cardinality({d \in JournalDays : digests[d] # None /\ digests[d].date = today}) < dailyLimit
    /\ \E d \in JournalDays :
          /\ \E r \in Requirements : Eligible(d, r)
          /\ \A later \in JournalDays, r \in Requirements : Eligible(later, r) => later <= d
          /\ scheduler' = [scheduler EXCEPT ![s] =
                [day |-> d, date |-> today, items |-> {r \in Requirements : Eligible(d, r)}]]
    /\ UNCHANGED <<evaluations, recorder, digests, dailyLimit, today, allowance, cards,
                   concluded, records, actions>>

\* A day that has a digest already does not get another one: the insertion
\* fails and the job with it.
CreateOwnerDigest(s) ==
    /\ scheduler[s] # None
    /\ scheduler' = [scheduler EXCEPT ![s] = None]
    /\ LET d == scheduler[s].day
           items == scheduler[s].items
       IN  IF digests[d] # None
           THEN UNCHANGED <<digests, evaluations>>
           ELSE /\ \E quiet \in BOOLEAN :
                      digests' = [digests EXCEPT ![d] =
                                     NudgeDigest(items, scheduler[s].date, quiet)]
                /\ evaluations' = [e \in DOMAIN evaluations |->
                      IF e[1] = d /\ e[2] \in items
                      THEN [evaluations[e] EXCEPT !.state = "pending_user_response"]
                      ELSE evaluations[e]]
    /\ UNCHANGED <<recorder, dailyLimit, today, allowance, cards, concluded, records, actions>>

-----------------------------------------------------------------------------
(* The owner.                                                                 *)

UpdatePreferences(limit) ==
    /\ dailyLimit' = limit
    /\ allowance' = [allowance EXCEPT ![today] = IF limit > @ THEN limit ELSE @]
    /\ UNCHANGED <<evaluations, recorder, digests, scheduler, today, cards, concluded,
                   records, actions>>

NextDate ==
    /\ today < MaxDates
    /\ today' = today + 1
    /\ allowance' = [allowance EXCEPT ![today + 1] = dailyLimit]
    /\ UNCHANGED <<evaluations, recorder, digests, scheduler, dailyLimit, cards, concluded,
                   records, actions>>

Pending(d) ==
    {r \in Requirements : evaluations[d, r] # None
                          /\ evaluations[d, r].state = "pending_user_response"}

\* The evaluations of the day are read first and its digest after them; a card
\* with nothing pending shows nothing.
ReadEvaluations(p, d) ==
    /\ Pending(d) # {}
    /\ cards' = [cards EXCEPT ![p] = [day |-> d, revision |-> 0, pending |-> Pending(d)]]
    /\ UNCHANGED <<evaluations, recorder, digests, scheduler, dailyLimit, today, allowance,
                   concluded, records, actions>>

\* The items of the digest in the states that were read.
MapDigest(p, digest) ==
    [cards[p] EXCEPT !.revision = digest.revision, !.pending = @ \cap digest.items]

GetDay(p) ==
    /\ cards[p] # None
    /\ cards[p].revision = 0
    /\ digests[cards[p].day] # None
    /\ cards' = [cards EXCEPT ![p] = MapDigest(p, digests[cards[p].day])]
    /\ UNCHANGED <<evaluations, recorder, digests, scheduler, dailyLimit, today, allowance,
                   concluded, records, actions>>

Concluded == {"dismissed", "resolved"}

\* A card sends the revision it shows.
Submit(p, d) ==
    /\ cards[p] # None
    /\ cards[p].day = d
    /\ cards[p].pending # {}
    /\ cards[p].revision > 0

\* The row is locked and its revision is the one the card shows.
Act(p, d) ==
    /\ actions < MaxActions
    /\ Submit(p, d)
    /\ digests[d] # None
    /\ digests[d].revision = cards[p].revision
    /\ digests[d].status \notin Concluded

\* The answer shows the day as it is then, unless it is lost.
Acted(p) ==
    /\ actions' = actions + 1
    /\ \/ cards' = [cards EXCEPT ![p] = None]
       \/ UNCHANGED cards
    /\ UNCHANGED <<recorder, scheduler, dailyLimit, today, allowance, records>>

\* What the digest becomes when one of its items is resolved.
Resolved(d, remaining) ==
    IF remaining = {} THEN "resolved"
    ELSE IF digests[d].status = "deferred" THEN "published" ELSE digests[d].status

\* An answer and a not-applicable resolve one item.  A digest that was deferred
\* before it was ever published cannot become published here: the database
\* refuses it and the answer with it.
Answer(p, d, r) ==
    /\ Act(p, d)
    /\ r \in cards[p].pending
    /\ \E state \in {"satisfied", "not_applicable"} :
          evaluations' = [evaluations EXCEPT ![<<d, r>>] = [state |-> state, manual |-> TRUE]]
    /\ LET remaining == (digests[d].items \cap Pending(d)) \ {r}
           status == Resolved(d, remaining)
       IN  /\ status = "published" => digests[d].published
           /\ digests' = [digests EXCEPT ![d].status = status, ![d].revision = @ + 1]
           /\ concluded' = IF remaining = {} THEN concluded \cup {d} ELSE concluded
    /\ Acted(p)

Defer(p, d) ==
    /\ Act(p, d)
    /\ digests' = [digests EXCEPT ![d].status = "deferred", ![d].due = FALSE,
                                  ![d].revision = @ + 1]
    /\ Acted(p)
    /\ UNCHANGED <<evaluations, concluded>>

\* Every item of the digest, one that was answered among them.
Dismiss(p, d) ==
    /\ Act(p, d)
    /\ evaluations' = [e \in DOMAIN evaluations |->
            IF e[1] = d /\ e[2] \in digests[d].items
            THEN [state |-> "dismissed", manual |-> TRUE] ELSE evaluations[e]]
    /\ digests' = [digests EXCEPT ![d].status = "dismissed", ![d].revision = @ + 1]
    /\ concluded' = concluded \cup {d}
    /\ Acted(p)

-----------------------------------------------------------------------------
NudgeInit ==
    /\ evaluations = [e \in JournalDays \X Requirements |-> None]
    /\ recorder = [t \in Recorders |-> None]
    /\ digests = [d \in JournalDays |-> None]
    /\ scheduler = [s \in Schedulers |-> None]
    /\ dailyLimit = 1
    /\ today = 1
    /\ allowance = [n \in 1..MaxDates |-> IF n = 1 THEN 1 ELSE 0]
    /\ cards = [p \in Cards |-> None]
    /\ concluded = {}
    /\ records = 0
    /\ actions = 0

RunSchedule(s) ==
    \/ \E d \in JournalDays : PublishDueDigest(d)
    \/ ReadCandidates(s)
    \/ CreateOwnerDigest(s)

\* The jobs of two hours may overlap.
NudgeDigestJobs == \E s \in Schedulers : RunSchedule(s)

NudgeNext ==
    \/ \E t \in Recorders :
          \/ \E d \in JournalDays, r \in Requirements : ReadEvaluation(t, d, r)
          \/ RecordProcessorRun(t)
    \/ NudgeDigestJobs
    \/ \E limit \in Limits : UpdatePreferences(limit)
    \/ NextDate
    \/ \E d \in JournalDays :
          \/ DeliveryWindowOpens(d)
          \/ \E p \in Cards :
                \/ ReadEvaluations(p, d)
                \/ \E r \in Requirements : Answer(p, d, r)
                \/ Defer(p, d)
                \/ Dismiss(p, d)
    \/ \E p \in Cards : GetDay(p)

NudgeSpec == NudgeInit /\ [][NudgeNext]_nudgeVars

-----------------------------------------------------------------------------
\* Jobs that overlap never ask for more on one date than the owner allowed; a
\* digest the owner has concluded stays so and waits for nothing; and whatever
\* waits for the owner's answer is asked for in a digest that can be answered.
AsksAsAllowed ==
    /\ \A n \in 1..MaxDates :
          Cardinality({d \in JournalDays : digests[d] # None /\ digests[d].date = n})
              <= allowance[n]
    /\ \A d \in JournalDays :
          /\ d \in concluded => digests[d].status \in Concluded
          /\ \A r \in Pending(d) : Asked(d, r) /\ digests[d].status \notin Concluded
=============================================================================
