-------------------------- MODULE OwnerTextProofs ---------------------------
(* Proofs about the corrections of a transcript and the questions about a    *)
(* day, for any number of pages, requests, deliveries, days and requirements *)
(* and any bounds.                                                           *)
(*                                                                           *)
(* Corrections. Requests and deliveries act on what they read earlier, but   *)
(* each checks it again in the transaction that writes: a correction that    *)
(* its base is the latest one and its key is new, a text that its source is  *)
(* the latest and its run has not succeeded. The invariant says what makes   *)
(* that enough: no source is later than the latest correction, every text    *)
(* belongs to a run, and the keys of all corrections are in the ledger.      *)
(*                                                                           *)
(* Questions. A job plans a digest, and asks later; the owner may lower the  *)
(* limit in between. No more is asked on a date than the owner allowed at    *)
(* some time of that date, because the job that holds the lock is alone and  *)
(* had found room for one more digest (SchedulerInv), and nothing is asked   *)
(* on a date to come (AllowanceInv). A card that answers finds a digest that *)
(* can be answered (AskedInv).                                               *)
EXTENDS TranscriptCleanup, RequirementNudges,
        FiniteSetTheorems, SequenceTheorems, TLAPS

-----------------------------------------------------------------------------
(* Corrections: the inductive invariant.                                     *)

(* The inductive invariant.                                                  *)

EditKeys == (Inspectors \X Nat) \cup {None}
CorrectionRow == [saw : Nat, key : EditKeys]
TextRow == [source : Nat, run : Nat, stale : BOOLEAN]
Statuses == {"queued", "running", "succeeded", "failed", "canceled"}
\* The attempts of a run are only compared with each other.
RunRow(attempts) ==
    [source : Nat, attempt : attempts, status : Statuses, retryable : BOOLEAN,
     stale : BOOLEAN, job : {"waiting", "active", "done"}]

RequestsType ==
    /\ inspectors \in [Inspectors -> [revision : Nat, key : EditKeys, sent : Nat]]
    /\ handlers \in [Handlers ->
          {None} \cup [page : Inspectors, key : EditKeys, expected : Nat]]
    /\ editKeys \subseteq EditKeys

RunsType == \E attempts : cleanups \in Seq(RunRow(attempts))

TypeInv ==
    /\ corrected \in Seq(CorrectionRow)
    /\ cleaned \in Seq(TextRow)
    /\ RunsType
    /\ RequestsType

CleanersInv ==
    cleaners \in [Cleaners -> {None} \cup
                     [run : DOMAIN cleanups, phase : {"loaded", "running"}]]

\* Each correction stands on the one before it, and its key is in the ledger.
LedgerInv ==
    \A n \in 2..Len(corrected) :
        /\ corrected[n].saw = n - 1
        /\ corrected[n].key \in editKeys
        /\ \A m \in 2..Len(corrected) : corrected[m].key = corrected[n].key => m = n

TextInv(text) ==
    /\ text.run \in DOMAIN cleanups
    /\ text.source <= Len(corrected)
    /\ text.stale = (text.source < Len(corrected))

MadeBy(i) == {n \in DOMAIN cleaned : cleaned[n].run = i}

RunInv(i) ==
    /\ cleanups[i].source <= Len(corrected)
    /\ Cardinality(MadeBy(i)) = (IF cleanups[i].status = "succeeded" THEN 1 ELSE 0)
    /\ cleanups[i].status \in {"queued", "running"} => SourceIsCurrent(i)

Inv ==
    /\ TypeInv
    /\ CleanersInv
    /\ LedgerInv
    /\ \A n \in DOMAIN cleaned : TextInv(cleaned[n])
    /\ \A i \in DOMAIN cleanups : RunInv(i)

LEMMA InvImplies == Inv => CorrectionsStand
  BY DEF Inv, LedgerInv, TextInv, RunInv, MadeBy, CorrectionsStand

LEMMA Shapes ==
  ASSUME TypeInv
  PROVE  /\ Len(corrected) \in Nat /\ DOMAIN corrected = 1..Len(corrected)
         /\ Len(cleaned) \in Nat /\ DOMAIN cleaned = 1..Len(cleaned)
         /\ \A n \in DOMAIN cleaned : cleaned[n] \in TextRow
         /\ Len(cleanups) \in Nat /\ DOMAIN cleanups = 1..Len(cleanups)
<1>1. PICK A : cleanups \in Seq(RunRow(A))
  BY DEF TypeInv, RunsType
<1>2. corrected \in Seq(CorrectionRow) /\ cleaned \in Seq(TextRow)
  BY DEF TypeInv
<1>3. Len(corrected) \in Nat /\ DOMAIN corrected = 1..Len(corrected)
  BY <1>2, LenProperties
<1>4. Len(cleaned) \in Nat /\ cleaned \in [1..Len(cleaned) -> TextRow]
  BY <1>2, LenProperties
<1>5. Len(cleanups) \in Nat /\ DOMAIN cleanups = 1..Len(cleanups)
  BY <1>1, LenProperties
<1>6. QED
  BY <1>3, <1>4, <1>5

LEMMA InvInit == CleanupInit => Inv
<1> SUFFICES ASSUME CleanupInit PROVE Inv
  OBVIOUS
<1>1. PICK first, run : first = [saw |-> 0, key |-> None] /\ run = CleanupRun(1, 1)
  OBVIOUS
<1>2. first \in CorrectionRow
  BY <1>1 DEF CorrectionRow, EditKeys
<1>3. run \in RunRow({1}) /\ run.source = 1 /\ run.status = "queued"
  BY <1>1 DEF RunRow, CleanupRun, Statuses
<1>4. corrected = <<first>> /\ cleanups = <<run>> /\ cleaned = <<>>
  BY <1>1 DEF CleanupInit
<1>5. corrected \in Seq(CorrectionRow) /\ Len(corrected) = 1
  BY <1>2, <1>4
<1>6. cleanups \in Seq(RunRow({1})) /\ DOMAIN cleanups = {1} /\ cleanups[1] = run
  BY <1>3, <1>4
<1>7. cleaned \in Seq(TextRow)
  BY <1>4, EmptySeq
<1>8. DOMAIN cleaned = {}
  BY <1>4
<1>9. RequestsType
  BY DEF CleanupInit, RequestsType, EditKeys
<1>10. TypeInv
  BY <1>5, <1>6, <1>7, <1>9 DEF TypeInv, RunsType
<1>11. CleanersInv
  BY DEF CleanupInit, CleanersInv
<1>12. LedgerInv
  BY <1>5 DEF LedgerInv
<1>13. MadeBy(1) = {}
  BY <1>8 DEF MadeBy
<1>14. RunInv(1)
  <2>1. Cardinality(MadeBy(1)) = 0
    BY <1>13, FS_EmptySet
  <2>2. cleanups[1].source = 1 /\ cleanups[1].status = "queued"
    BY <1>3, <1>6
  <2>3. QED
    BY <2>1, <2>2, <1>5 DEF RunInv, SourceIsCurrent
<1>15. QED
  BY <1>6, <1>8, <1>10, <1>11, <1>12, <1>14 DEF Inv

-----------------------------------------------------------------------------
(* Steps by what they do to the rows.                                        *)

\* Nothing but pages, requests and deliveries.
LEMMA RowsRest ==
  ASSUME Inv, UNCHANGED <<corrected, cleaned, cleanups, editKeys>>,
         RequestsType', CleanersInv'
  PROVE  Inv'
<1>1. TypeInv'
  BY DEF Inv, TypeInv, RunsType
<1>2. LedgerInv'
  BY DEF Inv, LedgerInv
<1>3. \A n \in DOMAIN cleaned' : TextInv(cleaned[n])'
  BY DEF Inv, TextInv
<1>4. \A i \in DOMAIN cleanups' : RunInv(i)'
  BY DEF Inv, RunInv, MadeBy, SourceIsCurrent
<1>5. QED
  BY <1>1, <1>2, <1>3, <1>4 DEF Inv

\* One run, which neither succeeds nor becomes active for a superseded source.
LEMMA RunMoves ==
  ASSUME Inv, NEW i \in DOMAIN cleanups, NEW A, cleanups \in Seq(RunRow(A)),
         NEW run \in RunRow(A), cleanups' = [cleanups EXCEPT ![i] = run],
         run.source = cleanups[i].source,
         run.status = "succeeded" <=> cleanups[i].status = "succeeded",
         run.status \in {"queued", "running"} => SourceIsCurrent(i),
         UNCHANGED <<corrected, cleaned, inspectors, handlers, editKeys>>,
         cleaners' \in [Cleaners -> {None} \cup
                           [run : DOMAIN cleanups, phase : {"loaded", "running"}]]
  PROVE  Inv'
<1>1. DOMAIN cleanups = 1..Len(cleanups)
  BY Shapes DEF Inv
<1>2. cleanups' \in Seq(RunRow(A))
  BY <1>1, ExceptSeq
<1>3. DOMAIN cleanups' = DOMAIN cleanups
  OBVIOUS
<1>4. \A j \in DOMAIN cleanups : cleanups'[j] = IF j = i THEN run ELSE cleanups[j]
  OBVIOUS
<1>5. TypeInv'
  BY <1>2 DEF Inv, TypeInv, RunsType, RequestsType
<1>6. CleanersInv'
  BY <1>3 DEF CleanersInv
<1>7. LedgerInv'
  BY DEF Inv, LedgerInv
<1>8. \A n \in DOMAIN cleaned' : TextInv(cleaned[n])'
  BY <1>3 DEF Inv, TextInv
<1>9. ASSUME NEW j \in DOMAIN cleanups' PROVE RunInv(j)'
  <2>1. RunInv(j) /\ MadeBy(j)' = MadeBy(j)
    BY <1>3 DEF Inv, MadeBy
  <2>2. CASE j = i
    BY <2>1, <2>2, <1>3, <1>4 DEF RunInv, SourceIsCurrent
  <2>3. CASE j # i
    BY <2>1, <2>3, <1>3, <1>4 DEF RunInv, SourceIsCurrent
  <2>4. QED
    BY <2>2, <2>3
<1>10. QED
  BY <1>5, <1>6, <1>7, <1>8, <1>9 DEF Inv

\* A new run for the latest correction.
LEMMA RunQueued ==
  ASSUME Inv, NEW attempt,
         cleanups' = QueueCleanup(cleanups, Len(corrected), attempt),
         UNCHANGED <<corrected, cleaned, cleaners, inspectors, handlers, editKeys>>
  PROVE  Inv'
<1>1. PICK A : cleanups \in Seq(RunRow(A))
  BY DEF Inv, TypeInv, RunsType
<1>2. PICK run : run = CleanupRun(Len(corrected), attempt)
  OBVIOUS
<1> DEFINE B == A \cup {attempt}
<1>3. Len(corrected) \in Nat /\ DOMAIN cleanups = 1..Len(cleanups) /\ Len(cleanups) \in Nat
  BY Shapes DEF Inv
<1>4. run \in RunRow(B) /\ run.source = Len(corrected) /\ run.status = "queued"
  BY <1>2, <1>3 DEF RunRow, CleanupRun, Statuses
<1>5. RunRow(A) \subseteq RunRow(B)
  BY DEF RunRow
<1>6. cleanups \in Seq(RunRow(B))
  BY <1>1, <1>5, SeqMonotonic
<1>7. cleanups' = Append(cleanups, run)
  BY <1>2 DEF QueueCleanup
<1>8. /\ cleanups' \in Seq(RunRow(B))
      /\ DOMAIN cleanups' = 1..(Len(cleanups) + 1)
      /\ cleanups'[Len(cleanups) + 1] = run
      /\ \A i \in DOMAIN cleanups : cleanups'[i] = cleanups[i]
  BY <1>3, <1>4, <1>6, <1>7, AppendProperties
<1>9. DOMAIN cleanups \subseteq DOMAIN cleanups'
  BY <1>3, <1>8
<1>10. TypeInv'
  BY <1>8 DEF Inv, TypeInv, RunsType, RequestsType
<1>11. CleanersInv'
  BY <1>9 DEF Inv, CleanersInv
<1>12. LedgerInv'
  BY DEF Inv, LedgerInv
<1>13. \A n \in DOMAIN cleaned' : TextInv(cleaned[n])'
  BY <1>9 DEF Inv, TextInv
<1>14. ASSUME NEW i \in DOMAIN cleanups' PROVE RunInv(i)'
  <2>1. MadeBy(i)' = MadeBy(i)
    BY DEF MadeBy
  <2>2. CASE i \in DOMAIN cleanups
    BY <2>1, <2>2, <1>8 DEF Inv, RunInv, SourceIsCurrent
  <2>3. CASE i \notin DOMAIN cleanups
    <3>1. cleanups'[i] = run
      BY <2>3, <1>3, <1>8
    <3>2. MadeBy(i) = {}
      BY <2>3 DEF MadeBy, Inv, TextInv
    <3>3. QED
      BY <3>1, <3>2, <2>1, <1>3, <1>4, FS_EmptySet DEF RunInv, SourceIsCurrent
  <2>4. QED
    BY <2>2, <2>3
<1>15. QED
  BY <1>10, <1>11, <1>12, <1>13, <1>14 DEF Inv

\* A run that has not succeeded makes its text from the latest correction.
LEMMA TextMade ==
  ASSUME Inv, NEW i \in DOMAIN cleanups, NEW A, cleanups \in Seq(RunRow(A)),
         NEW run \in RunRow(A), cleanups' = [cleanups EXCEPT ![i] = run],
         run.source = cleanups[i].source, run.status = "succeeded",
         cleanups[i].status # "succeeded", SourceIsCurrent(i),
         cleaned' = Append(cleaned, [source |-> cleanups[i].source, run |-> i, stale |-> FALSE]),
         UNCHANGED <<corrected, inspectors, handlers, editKeys>>,
         cleaners' \in [Cleaners -> {None} \cup
                           [run : DOMAIN cleanups, phase : {"loaded", "running"}]]
  PROVE  Inv'
<1>1. /\ DOMAIN cleanups = 1..Len(cleanups) /\ Len(cleanups) \in Nat
      /\ DOMAIN cleaned = 1..Len(cleaned) /\ Len(cleaned) \in Nat /\ Len(corrected) \in Nat
  BY Shapes DEF Inv
<1>2. cleanups' \in Seq(RunRow(A))
  BY <1>1, ExceptSeq
<1>3. DOMAIN cleanups' = DOMAIN cleanups
  OBVIOUS
<1>4. \A j \in DOMAIN cleanups : cleanups'[j] = IF j = i THEN run ELSE cleanups[j]
  OBVIOUS
<1>5. PICK text : text = [source |-> cleanups[i].source, run |-> i, stale |-> FALSE]
  OBVIOUS
<1>6. text.source = Len(corrected) /\ text.run = i /\ text.stale = FALSE
  BY <1>5 DEF SourceIsCurrent
<1>7. text \in TextRow
  <2>1. i \in Nat
    BY <1>1
  <2>2. QED
    BY <2>1, <1>1, <1>5 DEF TextRow, SourceIsCurrent
<1>8. cleaned \in Seq(TextRow) /\ cleaned' = Append(cleaned, text)
  BY <1>5 DEF Inv, TypeInv
<1>9. /\ cleaned' \in Seq(TextRow) /\ DOMAIN cleaned' = 1..(Len(cleaned) + 1)
      /\ cleaned'[Len(cleaned) + 1] = text
      /\ \A n \in DOMAIN cleaned : cleaned'[n] = cleaned[n]
  BY <1>1, <1>7, <1>8, AppendProperties
<1>10. TypeInv'
  BY <1>2, <1>9 DEF Inv, TypeInv, RunsType, RequestsType
<1>11. CleanersInv'
  BY <1>3 DEF CleanersInv
<1>12. LedgerInv'
  BY DEF Inv, LedgerInv
<1>13. ASSUME NEW n \in DOMAIN cleaned' PROVE TextInv(cleaned[n])'
  <2>1. CASE n \in DOMAIN cleaned
    BY <2>1, <1>3, <1>9 DEF Inv, TextInv
  <2>2. CASE n = Len(cleaned) + 1
    <3>1. cleaned'[n] = text /\ Len(corrected') = Len(corrected)
      BY <2>2, <1>9
    <3>2. text.source <= Len(corrected) /\ ~(text.source < Len(corrected))
      BY <1>1, <1>6
    <3>3. text.stale = (text.source < Len(corrected))
      <4>1. (text.source < Len(corrected)) = FALSE
        BY <3>2
      <4>2. QED
        BY <4>1, <1>6
    <3>4. QED
      BY <3>1, <3>2, <3>3, <1>3, <1>6 DEF TextInv
  <2>3. QED
    BY <2>1, <2>2, <1>1, <1>9
<1>14. ASSUME NEW j \in DOMAIN cleanups' PROVE RunInv(j)'
  <2>1. RunInv(j)
    BY <1>3 DEF Inv
  <2>2. CASE j # i
    <3>1. MadeBy(j)' = MadeBy(j)
      BY <2>2, <1>1, <1>6, <1>9 DEF MadeBy
    <3>2. QED
      BY <2>1, <2>2, <3>1, <1>3, <1>4 DEF RunInv, SourceIsCurrent
  <2>3. CASE j = i
    <3>1. Cardinality(MadeBy(i)) = 0
      BY <2>1, <2>3 DEF RunInv
    <3>2. IsFiniteSet(MadeBy(i))
      <4>1. IsFiniteSet(1..Len(cleaned))
        <5>1. 1 \in Int /\ Len(cleaned) \in Int
          BY <1>1
        <5>2. QED
          BY <5>1, FS_Interval
      <4>2. MadeBy(i) \subseteq 1..Len(cleaned)
        BY <1>1 DEF MadeBy
      <4>3. QED
        BY <4>1, <4>2, FS_Subset
    <3>3. MadeBy(i) = {}
      BY <3>1, <3>2, FS_EmptySet
    <3>4. MadeBy(i)' = {Len(cleaned) + 1}
      BY <3>3, <1>1, <1>6, <1>9 DEF MadeBy
    <3>5. Cardinality(MadeBy(i)') = 1
      BY <3>4, FS_Singleton
    <3>6. QED
      BY <2>1, <2>3, <3>5, <1>3, <1>4 DEF RunInv
  <2>4. QED
    BY <2>2, <2>3
<1>15. QED
  BY <1>10, <1>11, <1>12, <1>13, <1>14 DEF Inv

\* An accepted correction: the texts and the runs of its base are invalidated, and a
\* run for it is queued.
LEMMA CorrectionMade ==
  ASSUME Inv, NEW work \in [page : Inspectors, key : EditKeys, expected : Nat],
         work.expected = Len(corrected), ~Replayed(work.key),
         corrected' = Append(corrected, [saw |-> work.expected, key |-> work.key]),
         cleaned' = InvalidateRevisions(work.expected),
         cleanups' = QueueCleanup(InvalidateRuns(work.expected), Len(corrected) + 1, 1),
         editKeys' = editKeys \cup {work.key},
         RequestsType', UNCHANGED cleaners
  PROVE  Inv'
<1> DEFINE last == Len(corrected)
<1>1. /\ last \in Nat /\ DOMAIN corrected = 1..last
      /\ Len(cleaned) \in Nat /\ DOMAIN cleaned = 1..Len(cleaned)
      /\ \A n \in DOMAIN cleaned : cleaned[n] \in TextRow
      /\ Len(cleanups) \in Nat /\ DOMAIN cleanups = 1..Len(cleanups)
  BY Shapes DEF Inv
<1>2. PICK A : cleanups \in Seq(RunRow(A))
  BY DEF Inv, TypeInv, RunsType
<1>3. PICK correction : correction = [saw |-> work.expected, key |-> work.key]
  OBVIOUS
<1>4. correction \in CorrectionRow /\ correction.saw = last /\ correction.key = work.key
  BY <1>1, <1>3 DEF CorrectionRow
<1>5. corrected \in Seq(CorrectionRow) /\ corrected' = Append(corrected, correction)
  BY <1>3 DEF Inv, TypeInv
<1>6. /\ corrected' \in Seq(CorrectionRow) /\ Len(corrected') = last + 1
      /\ corrected'[last + 1] = correction
      /\ \A n \in DOMAIN corrected : corrected'[n] = corrected[n]
  BY <1>1, <1>4, <1>5, AppendProperties
<1>7. LedgerInv'
  <2>1. SUFFICES ASSUME NEW n \in 2..(last + 1)
                 PROVE  /\ corrected'[n].saw = n - 1
                        /\ corrected'[n].key \in editKeys'
                        /\ \A m \in 2..(last + 1) :
                              corrected'[m].key = corrected'[n].key => m = n
    BY <1>6 DEF LedgerInv
  <2>2. \A m \in 2..last : /\ corrected'[m] = corrected[m]
                            /\ corrected[m].saw = m - 1 /\ corrected[m].key \in editKeys
    BY <1>1, <1>6 DEF Inv, LedgerInv
  <2>3. work.key \notin editKeys
    BY DEF Replayed
  <2>4. CASE n = last + 1
    <3>1. \A m \in 2..last : corrected'[m].key # work.key
      BY <2>2, <2>3
    <3>2. corrected'[n].saw = n - 1 /\ corrected'[n].key = work.key
      BY <2>4, <1>1, <1>4, <1>6
    <3>3. \A m \in 2..(last + 1) : m = n \/ m \in 2..last
      BY <2>4, <1>1
    <3>4. QED
      BY <3>1, <3>2, <3>3
  <2>5. CASE n \in 2..last
    <3>1. \A m \in 2..last : corrected[m].key = corrected[n].key => m = n
      BY <2>5 DEF Inv, LedgerInv
    <3>2. \A m \in 2..(last + 1) : m = last + 1 \/ m \in 2..last
      BY <1>1
    <3>3. corrected'[last + 1].key # corrected'[n].key
      BY <2>2, <2>3, <2>5, <1>4, <1>6
    <3>4. \A m \in 2..last : corrected'[m].key = corrected'[n].key => m = n
      BY <2>2, <2>5, <3>1
    <3>5. QED
      BY <2>2, <2>5, <3>2, <3>3, <3>4
  <2>6. n = last + 1 \/ n \in 2..last
    BY <1>1
  <2>7. QED
    BY <2>4, <2>5, <2>6
<1>8. DOMAIN cleaned' = DOMAIN cleaned
  BY DEF InvalidateRevisions
<1>9. \A n \in DOMAIN cleaned :
         cleaned'[n] = IF cleaned[n].source = last THEN [cleaned[n] EXCEPT !.stale = TRUE]
                       ELSE cleaned[n]
  BY DEF InvalidateRevisions
<1>10. \A n \in DOMAIN cleaned :
          /\ cleaned'[n] \in TextRow
          /\ cleaned'[n].source = cleaned[n].source /\ cleaned'[n].run = cleaned[n].run
          /\ cleaned'[n].stale = IF cleaned[n].source = last THEN TRUE ELSE cleaned[n].stale
  BY <1>1, <1>9 DEF TextRow
<1>11. cleaned' \in Seq(TextRow)
  <2>1. cleaned' = [n \in 1..Len(cleaned) |-> cleaned'[n]]
    BY <1>1 DEF InvalidateRevisions
  <2>2. cleaned' \in [1..Len(cleaned) -> TextRow]
    BY <2>1, <1>10, <1>1
  <2>3. QED
    BY <2>2, <1>1, SeqDef
<1>12. PICK kept : kept = InvalidateRuns(work.expected)
  OBVIOUS
<1>13. DOMAIN kept = DOMAIN cleanups
  BY <1>12 DEF InvalidateRuns
<1>14. \A i \in DOMAIN cleanups : cleanups[i] \in RunRow(A)
  BY <1>2, <1>1, ElementOfSeq
<1>15. \A i \in DOMAIN cleanups :
          /\ cleanups[i].source # last => kept[i] = cleanups[i]
          /\ cleanups[i].source = last /\ cleanups[i].status \in {"queued", "running"} =>
                kept[i] = [cleanups[i] EXCEPT !.status = "canceled"]
          /\ cleanups[i].source = last /\ cleanups[i].status = "succeeded" =>
                kept[i] = [cleanups[i] EXCEPT !.stale = TRUE]
          /\ cleanups[i].source = last
             /\ cleanups[i].status \notin {"queued", "running", "succeeded"} =>
                kept[i] = cleanups[i]
  <2>1. SUFFICES ASSUME NEW i \in DOMAIN cleanups
                 PROVE  /\ cleanups[i].source # last => kept[i] = cleanups[i]
                        /\ cleanups[i].source = last
                           /\ cleanups[i].status \in {"queued", "running"} =>
                              kept[i] = [cleanups[i] EXCEPT !.status = "canceled"]
                        /\ cleanups[i].source = last /\ cleanups[i].status = "succeeded" =>
                              kept[i] = [cleanups[i] EXCEPT !.stale = TRUE]
                        /\ cleanups[i].source = last
                           /\ cleanups[i].status \notin {"queued", "running", "succeeded"} =>
                              kept[i] = cleanups[i]
    OBVIOUS
  <2>2. kept[i] =
          IF cleanups[i].source # work.expected THEN cleanups[i]
          ELSE CASE cleanups[i].status \in {"queued", "running"} ->
                       [cleanups[i] EXCEPT !.status = "canceled"]
                 [] cleanups[i].status = "succeeded" -> [cleanups[i] EXCEPT !.stale = TRUE]
                 [] OTHER -> cleanups[i]
    BY <1>12 DEF InvalidateRuns
  <2>3. PICK source, status, canceled, stale :
          /\ source = cleanups[i].source /\ status = cleanups[i].status
          /\ canceled = [cleanups[i] EXCEPT !.status = "canceled"]
          /\ stale = [cleanups[i] EXCEPT !.stale = TRUE]
    OBVIOUS
  <2>4. kept[i] = IF source # last THEN cleanups[i]
                  ELSE CASE status \in {"queued", "running"} -> canceled
                         [] status = "succeeded" -> stale
                         [] OTHER -> cleanups[i]
    BY <2>2, <2>3
  <2>5. QED
    BY <2>3, <2>4
<1>16. ASSUME NEW i \in DOMAIN cleanups
       PROVE  /\ kept[i] \in RunRow(A)
              /\ kept[i].source = cleanups[i].source
              /\ kept[i].status = "succeeded" <=> cleanups[i].status = "succeeded"
              /\ cleanups[i].source = last => kept[i].status \notin {"queued", "running"}
              /\ cleanups[i].source # last => kept[i] = cleanups[i]
  <2>1. PICK run \in RunRow(A) : run = cleanups[i]
    BY <1>14
  <2>2. \/ run.source # last /\ kept[i] = run
        \/ run.source = last /\ run.status \in {"queued", "running"}
           /\ kept[i] = [run EXCEPT !.status = "canceled"]
        \/ run.source = last /\ run.status = "succeeded" /\ kept[i] = [run EXCEPT !.stale = TRUE]
        \/ run.source = last /\ run.status \notin {"queued", "running", "succeeded"}
           /\ kept[i] = run
    <3>1. CASE run.source # last
      BY <3>1, <2>1, <1>15
    <3>2. CASE run.source = last /\ run.status \in {"queued", "running"}
      BY <3>2, <2>1, <1>15
    <3>3. CASE run.source = last /\ run.status = "succeeded"
      BY <3>3, <2>1, <1>15
    <3>4. CASE run.source = last /\ run.status \notin {"queued", "running", "succeeded"}
      BY <3>4, <2>1, <1>15
    <3>5. QED
      BY <3>1, <3>2, <3>3, <3>4
  <2>3. kept[i] \in RunRow(A)
    BY <2>2 DEF RunRow, Statuses
  <2>4. QED
    BY <2>1, <2>2, <2>3 DEF RunRow
<1>17. kept \in Seq(RunRow(A))
  <2>1. kept = [i \in 1..Len(cleanups) |-> kept[i]]
    BY <1>1, <1>12 DEF InvalidateRuns
  <2>2. kept \in [1..Len(cleanups) -> RunRow(A)]
    BY <2>1, <1>16, <1>1
  <2>3. QED
    BY <2>2, <1>1, SeqDef
<1> DEFINE B == A \cup {1}
<1>18. PICK run : run = CleanupRun(last + 1, 1)
  OBVIOUS
<1>19. run \in RunRow(B) /\ run.source = last + 1 /\ run.status = "queued"
  BY <1>1, <1>18 DEF RunRow, CleanupRun, Statuses
<1>20. kept \in Seq(RunRow(B))
  <2>1. RunRow(A) \subseteq RunRow(B)
    BY DEF RunRow
  <2>2. QED
    BY <2>1, <1>17, SeqMonotonic
<1>21. Len(kept) = Len(cleanups)
  <2>1. Len(kept) \in Nat /\ DOMAIN kept = 1..Len(kept)
    BY <1>17, LenProperties
  <2>2. 1..Len(kept) = 1..Len(cleanups)
    BY <2>1, <1>13, <1>1
  <2>3. \A a, b \in Nat : 1..a = 1..b => a = b
    <3>1. SUFFICES ASSUME NEW a \in Nat, NEW b \in Nat, 1..a = 1..b, a # b PROVE FALSE
      OBVIOUS
    <3>2. CASE a > b
      <4>1. a \in 1..a /\ a \notin 1..b
        BY <3>2
      <4>2. QED
        BY <3>1, <4>1
    <3>3. CASE b > a
      <4>1. b \in 1..b /\ b \notin 1..a
        BY <3>3
      <4>2. QED
        BY <3>1, <4>1
    <3>4. QED
      BY <3>1, <3>2, <3>3
  <2>4. Len(kept) \in Nat /\ Len(cleanups) \in Nat
    BY <2>1, <1>1
  <2>5. QED
    BY <2>2, <2>3, <2>4
<1>22. cleanups' = Append(kept, run)
  BY <1>12, <1>18 DEF QueueCleanup
<1>23. /\ cleanups' \in Seq(RunRow(B))
       /\ DOMAIN cleanups' = 1..(Len(cleanups) + 1)
       /\ cleanups'[Len(cleanups) + 1] = run
       /\ \A i \in DOMAIN cleanups : cleanups'[i] = kept[i]
  <2>1. /\ Append(kept, run) \in Seq(RunRow(B)) /\ Len(Append(kept, run)) = Len(kept) + 1
        /\ \A i \in 1..Len(kept) : Append(kept, run)[i] = kept[i]
        /\ Append(kept, run)[Len(kept) + 1] = run
    BY <1>19, <1>20, AppendProperties
  <2>2. DOMAIN Append(kept, run) = 1..(Len(kept) + 1)
    BY <2>1, LenProperties
  <2>3. QED
    BY <2>1, <2>2, <1>1, <1>21, <1>22
<1>24. DOMAIN cleanups \subseteq DOMAIN cleanups'
  BY <1>1, <1>23
<1>25. TypeInv'
  BY <1>6, <1>11, <1>23 DEF TypeInv, RunsType
<1>26. CleanersInv'
  BY <1>24 DEF Inv, CleanersInv
<1>27. ASSUME NEW n \in DOMAIN cleaned' PROVE TextInv(cleaned[n])'
  <2>1. n \in DOMAIN cleaned /\ TextInv(cleaned[n]) /\ cleaned[n] \in TextRow
    BY <1>1, <1>8 DEF Inv
  <2>2. PICK text : text = cleaned'[n]
    OBVIOUS
  <2>3. /\ text.source = cleaned[n].source /\ text.run = cleaned[n].run
        /\ text.stale = IF cleaned[n].source = last THEN TRUE ELSE cleaned[n].stale
    BY <2>1, <2>2, <1>10
  <2>4. cleaned[n].source \in Nat
    BY <2>1 DEF TextRow
  <2>5. text.run \in DOMAIN cleanups' /\ text.source <= last /\ text.source < last + 1
    BY <2>1, <2>3, <2>4, <1>1, <1>24 DEF TextInv
  <2>6. text.stale = TRUE
    <3>1. CASE cleaned[n].source = last
      BY <3>1, <2>3
    <3>2. CASE cleaned[n].source # last
      <4>1. cleaned[n].source < last
        BY <3>2, <2>1, <2>4, <1>1 DEF TextInv
      <4>2. (cleaned[n].source < last) = TRUE
        BY <4>1
      <4>3. cleaned[n].stale = TRUE
        BY <4>2, <2>1 DEF TextInv
      <4>4. QED
        BY <4>3, <3>2, <2>3
    <3>3. QED
      BY <3>1, <3>2
  <2>7. text.stale = (text.source < last + 1)
    <3>1. (text.source < last + 1) = TRUE
      BY <2>5
    <3>2. QED
      BY <3>1, <2>6
  <2>8. text.source <= last + 1
    BY <2>3, <2>4, <2>5, <1>1
  <2>9. QED
    BY <2>2, <2>5, <2>7, <2>8, <1>6 DEF TextInv
<1>28. ASSUME NEW i \in DOMAIN cleanups' PROVE RunInv(i)'
  <2>1. MadeBy(i)' = MadeBy(i)
    BY <1>8, <1>10 DEF MadeBy
  <2>2. CASE i \in DOMAIN cleanups
    <3>1. RunInv(i) /\ cleanups[i].source \in Nat
      BY <2>2, <1>14 DEF Inv, RunRow
    <3>2. cleanups'[i].source <= last + 1 /\ cleanups'[i].status \notin {"queued", "running"}
      BY <3>1, <2>2, <1>1, <1>16, <1>23 DEF RunInv, SourceIsCurrent
    <3>3. cleanups'[i].status = "succeeded" <=> cleanups[i].status = "succeeded"
      BY <2>2, <1>16, <1>23
    <3>4. QED
      BY <3>1, <3>2, <3>3, <2>1, <1>6 DEF RunInv
  <2>3. CASE i \notin DOMAIN cleanups
    <3>1. cleanups'[i] = run
      BY <2>3, <1>1, <1>23
    <3>2. MadeBy(i) = {}
      BY <2>3 DEF MadeBy, Inv, TextInv
    <3>3. Cardinality(MadeBy(i)') = 0
      BY <2>1, <3>2, FS_EmptySet
    <3>4. QED
      BY <3>1, <3>3, <1>1, <1>6, <1>19 DEF RunInv, SourceIsCurrent
  <2>4. QED
    BY <2>2, <2>3
<1>29. QED
  BY <1>7, <1>25, <1>26, <1>27, <1>28 DEF Inv

-----------------------------------------------------------------------------
(* The pages and their requests.                                             *)

InspectorRow == [revision : Nat, key : EditKeys, sent : Nat]

LEMMA RereadIsTyped ==
  ASSUME Inv, NEW p \in Inspectors, inspectors' = Reread(p)
  PROVE  inspectors' \in [Inspectors -> InspectorRow]
<1>1. Len(corrected) \in Nat
  BY Shapes DEF Inv
<1>2. inspectors \in [Inspectors -> InspectorRow]
  BY DEF Inv, TypeInv, RequestsType, InspectorRow
<1>3. PICK row \in InspectorRow : row = inspectors[p]
  BY <1>2
<1>4. [row EXCEPT !.key = None, !.revision = Len(corrected)] \in InspectorRow
  BY <1>1 DEF InspectorRow, EditKeys
<1>5. inspectors' = [inspectors EXCEPT
                        ![p] = [row EXCEPT !.key = None, !.revision = Len(corrected)]]
  BY <1>2, <1>3 DEF Reread
<1>6. QED
  BY <1>2, <1>4, <1>5

LEMMA InspectKeeps == ASSUME Inv, NEW p \in Inspectors, Inspect(p) PROVE Inv'
<1>1. inspectors' \in [Inspectors -> InspectorRow]
  BY RereadIsTyped DEF Inspect
<1>2. RequestsType'
  BY <1>1 DEF Inspect, RequestsType, InspectorRow, Inv, TypeInv
<1>3. CleanersInv'
  BY DEF Inspect, CleanersInv, Inv
<1>4. QED
  BY <1>2, <1>3, RowsRest DEF Inspect

LEMMA SendCorrectionKeeps == ASSUME Inv, NEW p \in Inspectors, SendCorrection(p) PROVE Inv'
<1>1. inspectors \in [Inspectors -> InspectorRow]
  BY DEF Inv, TypeInv, RequestsType, InspectorRow
<1>2. PICK row \in InspectorRow : row = inspectors[p]
  BY <1>1
<1>3. PICK sent \in Nat : sent = row.sent + 1
  BY <1>2 DEF InspectorRow
<1>4. <<p, sent>> \in EditKeys
  BY DEF EditKeys
<1>5. [row EXCEPT !.key = <<p, sent>>, !.sent = sent] \in InspectorRow
  BY <1>4 DEF InspectorRow
<1>6. inspectors' = [inspectors EXCEPT ![p] = [row EXCEPT !.key = <<p, sent>>, !.sent = sent]]
  BY <1>1, <1>2, <1>3 DEF SendCorrection, RequestKey
<1>7. inspectors' \in [Inspectors -> InspectorRow]
  BY <1>1, <1>5, <1>6
<1>8. RequestsType'
  BY <1>7 DEF SendCorrection, RequestsType, InspectorRow, Inv, TypeInv
<1>9. CleanersInv'
  BY DEF SendCorrection, CleanersInv, Inv
<1>10. QED
  BY <1>8, <1>9, RowsRest DEF SendCorrection

LEMMA EditCorrectedKeeps ==
  ASSUME Inv, NEW h \in Handlers, NEW p \in Inspectors, EditCorrected(h, p) PROVE Inv'
<1>1. CleanersInv'
  BY DEF EditCorrected, CleanersInv, Inv
<1>2. RequestsType'
  <2>1. CASE inspectors' = Reread(p) /\ UNCHANGED handlers
    <3>1. inspectors' \in [Inspectors -> InspectorRow]
      BY <2>1, RereadIsTyped
    <3>2. QED
      BY <2>1, <3>1 DEF EditCorrected, RequestsType, InspectorRow, Inv, TypeInv
  <2>2. CASE handlers' = [handlers EXCEPT ![h] = Received(p)] /\ UNCHANGED inspectors
    <3>1. inspectors[p] \in InspectorRow
      BY DEF Inv, TypeInv, RequestsType, InspectorRow
    <3>2. Received(p) \in [page : Inspectors, key : EditKeys, expected : Nat]
      BY <3>1 DEF Received, InspectorRow
    <3>3. QED
      BY <2>2, <3>2 DEF EditCorrected, RequestsType, Inv, TypeInv
  <2>3. QED
    BY <2>1, <2>2 DEF EditCorrected
<1>3. QED
  BY <1>1, <1>2, RowsRest DEF EditCorrected

LEMMA AppendKeeps ==
  ASSUME Inv, NEW h \in Handlers, AppendCorrectedTranscriptRevision(h) PROVE Inv'
<1>1. PICK work : work = handlers[h]
  OBVIOUS
<1>2. work \in [page : Inspectors, key : EditKeys, expected : Nat]
  BY <1>1 DEF AppendCorrectedTranscriptRevision, Inv, TypeInv, RequestsType
<1>3. work.page \in Inspectors /\ work.key \in EditKeys
  BY <1>2
<1>4. Len(corrected) \in Nat
  BY Shapes DEF Inv
<1>5. \/ /\ work.expected = Len(corrected)
         /\ ~Replayed(work.key)
         /\ corrected' = Append(corrected, [saw |-> work.expected, key |-> work.key])
         /\ cleaned' = InvalidateRevisions(work.expected)
         /\ cleanups' = QueueCleanup(InvalidateRuns(work.expected), Len(corrected) + 1, 1)
         /\ editKeys' = editKeys \cup {work.key}
      \/ UNCHANGED <<corrected, cleaned, cleanups, editKeys>>
  BY <1>1 DEF AppendCorrectedTranscriptRevision
<1>6. editKeys' \subseteq EditKeys
  BY <1>3, <1>5 DEF Inv, TypeInv, RequestsType
<1>7. Len(corrected') \in Nat
  <2>1. CASE corrected' = Append(corrected, [saw |-> work.expected, key |-> work.key])
    <3>1. PICK correction \in CorrectionRow :
            correction = [saw |-> work.expected, key |-> work.key]
      BY <1>2 DEF CorrectionRow
    <3>2. corrected \in Seq(CorrectionRow)
      BY DEF Inv, TypeInv
    <3>3. Len(Append(corrected, correction)) = Len(corrected) + 1
      BY <3>2, AppendProperties
    <3>4. QED
      BY <2>1, <3>1, <3>3, <1>4
  <2>2. CASE UNCHANGED corrected
    BY <2>2, <1>4
  <2>3. QED
    BY <2>1, <2>2, <1>5
<1>8. inspectors' \in [Inspectors -> InspectorRow]
  <2>1. inspectors \in [Inspectors -> InspectorRow]
    BY DEF Inv, TypeInv, RequestsType, InspectorRow
  <2>2. CASE UNCHANGED inspectors
    BY <2>1, <2>2
  <2>3. CASE inspectors' = [inspectors EXCEPT ![work.page].key = None,
                                              ![work.page].revision = Len(corrected')]
    <3>1. PICK row, len : row = inspectors[work.page] /\ len = Len(corrected')
      OBVIOUS
    <3>2. row \in InspectorRow /\ len \in Nat
      BY <3>1, <2>1, <1>3, <1>7
    <3>3. [row EXCEPT !.key = None, !.revision = len] \in InspectorRow
      BY <3>2 DEF InspectorRow, EditKeys
    <3>4. inspectors' = [inspectors EXCEPT
                            ![work.page] = [row EXCEPT !.key = None, !.revision = len]]
      BY <2>3, <3>1, <2>1, <1>3
    <3>5. QED
      BY <3>3, <3>4, <2>1
  <2>4. QED
    BY <2>2, <2>3, <1>1 DEF AppendCorrectedTranscriptRevision
<1>9. handlers' \in [Handlers ->
         {None} \cup [page : Inspectors, key : EditKeys, expected : Nat]]
  BY DEF AppendCorrectedTranscriptRevision, Inv, TypeInv, RequestsType
<1>10. RequestsType'
  BY <1>6, <1>8, <1>9 DEF RequestsType, InspectorRow
<1>11. UNCHANGED cleaners
  BY DEF AppendCorrectedTranscriptRevision
<1>12. CASE UNCHANGED <<corrected, cleaned, cleanups, editKeys>>
  <2>1. CleanersInv'
    BY <1>11, <1>12 DEF CleanersInv, Inv
  <2>2. QED
    BY <1>10, <1>12, <2>1, RowsRest
<1>13. CASE ~UNCHANGED <<corrected, cleaned, cleanups, editKeys>>
  BY <1>2, <1>5, <1>10, <1>11, <1>13, CorrectionMade
<1>14. QED
  BY <1>12, <1>13

LEMMA RetryCleanupKeeps == ASSUME Inv, NEW p \in Inspectors, RetryCleanup(p) PROVE Inv'
<1>1. PICK attempt : cleanups' = QueueCleanup(cleanups, Len(corrected), attempt)
  BY DEF RetryCleanup
<1>2. QED
  BY <1>1, RunQueued DEF RetryCleanup

-----------------------------------------------------------------------------
(* The worker.                                                               *)

Jobs == {"waiting", "active", "done"}
Deliveries == [run : DOMAIN cleanups, phase : {"loaded", "running"}]

\* A change of the job alone.
LEMMA JobMoves ==
  ASSUME Inv, NEW i \in DOMAIN cleanups, NEW job \in Jobs,
         cleanups' = [cleanups EXCEPT ![i].job = job],
         UNCHANGED <<corrected, cleaned, inspectors, handlers, editKeys>>,
         cleaners' \in [Cleaners -> {None} \cup Deliveries]
  PROVE  Inv'
<1>1. PICK A : cleanups \in Seq(RunRow(A))
  BY DEF Inv, TypeInv, RunsType
<1>2. cleanups[i] \in RunRow(A)
  BY <1>1, ElementOfSeq, Shapes DEF Inv
<1>3. PICK row : row = [cleanups[i] EXCEPT !.job = job]
  OBVIOUS
<1>4. row \in RunRow(A)
  BY <1>2, <1>3 DEF RunRow, Jobs
<1>5. row.source = cleanups[i].source /\ row.status = cleanups[i].status
  BY <1>2, <1>3 DEF RunRow
<1>6. cleanups' = [cleanups EXCEPT ![i] = row]
  BY <1>3
<1>7. RunInv(i)
  BY DEF Inv
<1>8. row.status \in {"queued", "running"} => SourceIsCurrent(i)
  BY <1>5, <1>7 DEF RunInv
<1>9. QED
  BY <1>1, <1>4, <1>5, <1>6, <1>8, RunMoves DEF Deliveries

LEMMA JobIsTyped ==
  ASSUME Inv, NEW i \in DOMAIN cleanups, NEW end \in Jobs
  PROVE  Job(i, end) \in Jobs
<1>1. PICK A : cleanups \in Seq(RunRow(A))
  BY DEF Inv, TypeInv, RunsType
<1>2. cleanups[i] \in RunRow(A)
  BY <1>1, ElementOfSeq, Shapes DEF Inv
<1>3. QED
  BY <1>2 DEF Job, RunRow, Jobs

LEMMA UnderWay ==
  ASSUME Inv, NEW c \in Cleaners, cleaners[c] # None
  PROVE  cleaners[c].run \in DOMAIN cleanups
  BY DEF Inv, CleanersInv

LEMMA Idle ==
  ASSUME Inv, NEW c \in Cleaners, Ended(c)
  PROVE  cleaners' \in [Cleaners -> {None} \cup Deliveries]
  BY DEF Inv, CleanersInv, Ended, Deliveries

LEMMA LoadKeeps ==
  ASSUME Inv, NEW c \in Cleaners, NEW i \in DOMAIN cleanups, Load(c, i) PROVE Inv'
<1>1. cleaners \in [Cleaners -> {None} \cup Deliveries]
  BY DEF Inv, CleanersInv, Deliveries
<1>2. UNCHANGED <<corrected, cleaned, inspectors, handlers, editKeys>>
  BY DEF Load
<1>3. CASE cleanups' = [cleanups EXCEPT ![i].job = "done"] /\ UNCHANGED cleaners
  BY <1>1, <1>2, <1>3, JobMoves DEF Jobs
<1>4. CASE UNCHANGED <<cleanups, cleaners>>
  <2>1. RequestsType' /\ CleanersInv'
    BY <1>2, <1>4 DEF RequestsType, CleanersInv, Inv, TypeInv
  <2>2. QED
    BY <1>2, <1>4, <2>1, RowsRest
<1>5. CASE /\ cleanups' = [cleanups EXCEPT ![i].job = "active"]
           /\ cleaners' = [cleaners EXCEPT ![c] = [run |-> i, phase |-> "loaded"]]
  <2>1. [run |-> i, phase |-> "loaded"] \in Deliveries
    BY DEF Deliveries
  <2>2. cleaners' \in [Cleaners -> {None} \cup Deliveries]
    BY <1>1, <1>5, <2>1
  <2>3. QED
    BY <1>2, <1>5, <2>2, JobMoves DEF Jobs
<1>6. QED
  BY <1>3, <1>4, <1>5 DEF Load

LEMMA MarkRunningKeeps == ASSUME Inv, NEW c \in Cleaners, MarkRunning(c) PROVE Inv'
<1>1. PICK i \in DOMAIN cleanups : i = cleaners[c].run
  BY UnderWay DEF MarkRunning
<1>2. UNCHANGED <<corrected, cleaned, inspectors, handlers, editKeys>>
  BY DEF MarkRunning
<1>3. CASE SourceIsCurrent(i) /\ cleanups[i].status # "succeeded"
  <2>1. /\ cleanups' = [cleanups EXCEPT ![i].status = "running", ![i].retryable = FALSE]
        /\ cleaners' = [cleaners EXCEPT ![c].phase = "running"]
    BY <1>1, <1>3 DEF MarkRunning
  <2>2. cleaners' \in [Cleaners -> {None} \cup Deliveries]
    <3>1. cleaners \in [Cleaners -> {None} \cup Deliveries] /\ cleaners[c] \in Deliveries
      BY DEF Inv, CleanersInv, Deliveries, MarkRunning
    <3>2. [cleaners[c] EXCEPT !.phase = "running"] \in Deliveries
      BY <3>1 DEF Deliveries
    <3>3. QED
      BY <2>1, <3>1, <3>2
  <2>3. PICK A : cleanups \in Seq(RunRow(A))
    BY DEF Inv, TypeInv, RunsType
  <2>4. cleanups[i] \in RunRow(A)
    BY <2>3, ElementOfSeq, Shapes DEF Inv
  <2>5. PICK row : row = [cleanups[i] EXCEPT !.status = "running", !.retryable = FALSE]
    OBVIOUS
  <2>6. row \in RunRow(A) /\ row.source = cleanups[i].source /\ row.status = "running"
    BY <2>4, <2>5 DEF RunRow, Statuses
  <2>7. cleanups' = [cleanups EXCEPT ![i] = row]
    BY <2>1, <2>5
  <2>8. QED
    BY <1>2, <1>3, <2>2, <2>3, <2>6, <2>7, RunMoves DEF Deliveries
<1>4. CASE ~(SourceIsCurrent(i) /\ cleanups[i].status # "succeeded")
  <2>1. PICK end \in Jobs : cleanups' = [cleanups EXCEPT ![i].job = Job(i, end)]
    BY <1>1, <1>4 DEF MarkRunning, Jobs
  <2>2. Ended(c)
    BY <1>1, <1>4 DEF MarkRunning
  <2>3. PICK job \in Jobs : job = Job(i, end)
    BY JobIsTyped
  <2>4. QED
    BY <1>2, <2>1, <2>2, <2>3, Idle, JobMoves
<1>5. QED
  BY <1>3, <1>4

LEMMA CompleteKeeps == ASSUME Inv, NEW c \in Cleaners, Complete(c) PROVE Inv'
<1>1. PICK i \in DOMAIN cleanups : i = cleaners[c].run
  BY UnderWay DEF Complete
<1>2. UNCHANGED <<corrected, inspectors, handlers, editKeys>> /\ Ended(c)
  BY DEF Complete
<1>3. PICK job \in Jobs : job = Job(i, "done")
  BY JobIsTyped DEF Jobs
<1>4. CASE cleanups[i].status # "succeeded" /\ SourceIsCurrent(i)
  <2>1. /\ cleaned' = Append(cleaned,
                             [source |-> cleanups[i].source, run |-> i, stale |-> FALSE])
        /\ cleanups' = [cleanups EXCEPT ![i].status = "succeeded", ![i].retryable = FALSE,
                                        ![i].job = job]
    BY <1>1, <1>3, <1>4 DEF Complete
  <2>2. PICK A : cleanups \in Seq(RunRow(A))
    BY DEF Inv, TypeInv, RunsType
  <2>3. cleanups[i] \in RunRow(A)
    BY <2>2, ElementOfSeq, Shapes DEF Inv
  <2>4. PICK row : row = [cleanups[i] EXCEPT !.status = "succeeded", !.retryable = FALSE,
                                             !.job = job]
    OBVIOUS
  <2>5. row \in RunRow(A)
    BY <2>3, <2>4 DEF RunRow, Statuses, Jobs
  <2>6. row.source = cleanups[i].source /\ row.status = "succeeded"
    BY <2>3, <2>4 DEF RunRow
  <2>7. cleanups' = [cleanups EXCEPT ![i] = row]
    BY <2>1, <2>4
  <2>8. QED
    BY <1>2, <1>4, <2>1, <2>2, <2>5, <2>6, <2>7, Idle, TextMade DEF Deliveries
<1>5. CASE ~(cleanups[i].status # "succeeded" /\ SourceIsCurrent(i))
  <2>1. cleanups' = [cleanups EXCEPT ![i].job = job] /\ UNCHANGED cleaned
    BY <1>1, <1>3, <1>5 DEF Complete
  <2>2. QED
    BY <1>2, <2>1, Idle, JobMoves
<1>6. QED
  BY <1>4, <1>5

LEMMA MarkFailedKeeps == ASSUME Inv, NEW c \in Cleaners, MarkFailed(c) PROVE Inv'
<1>1. PICK i \in DOMAIN cleanups : i = cleaners[c].run
  BY UnderWay DEF MarkFailed
<1>2. UNCHANGED <<corrected, cleaned, inspectors, handlers, editKeys>> /\ Ended(c)
  BY DEF MarkFailed
<1>3. PICK retryable \in BOOLEAN :
         cleanups' = [cleanups EXCEPT
            ![i].status = IF cleanups[i].status = "succeeded" THEN cleanups[i].status ELSE "failed",
            ![i].retryable = IF cleanups[i].status = "succeeded" THEN cleanups[i].retryable
                             ELSE retryable,
            ![i].job = Job(i, IF retryable THEN "waiting" ELSE "done")]
  BY <1>1 DEF MarkFailed, Classify
<1>4. PICK A : cleanups \in Seq(RunRow(A))
  BY DEF Inv, TypeInv, RunsType
<1>5. cleanups[i] \in RunRow(A)
  BY <1>4, ElementOfSeq, Shapes DEF Inv
<1>6. PICK job \in Jobs : job = Job(i, IF retryable THEN "waiting" ELSE "done")
  BY JobIsTyped DEF Jobs
<1>7. PICK status, again :
         /\ status = IF cleanups[i].status = "succeeded" THEN cleanups[i].status ELSE "failed"
         /\ again = IF cleanups[i].status = "succeeded" THEN cleanups[i].retryable
                    ELSE retryable
  OBVIOUS
<1>8. status \in {"succeeded", "failed"} /\ (status = "succeeded" <=> cleanups[i].status = "succeeded")
  BY <1>7
<1>9. again \in BOOLEAN
  <2>1. cleanups[i].retryable \in BOOLEAN
    BY <1>5 DEF RunRow
  <2>2. QED
    BY <2>1, <1>7
<1>10. PICK row : row = [cleanups[i] EXCEPT !.status = status, !.retryable = again, !.job = job]
  OBVIOUS
<1>11. row \in RunRow(A)
  BY <1>5, <1>8, <1>9, <1>10 DEF RunRow, Statuses, Jobs
<1>12. row.source = cleanups[i].source /\ row.status = status
  BY <1>5, <1>10 DEF RunRow
<1>13. cleanups' = [cleanups EXCEPT ![i] = row]
  BY <1>3, <1>6, <1>7, <1>10
<1>14. row.status \notin {"queued", "running"}
  BY <1>8, <1>12
<1>15. QED
  BY <1>2, <1>4, <1>8, <1>11, <1>12, <1>13, <1>14, Idle, RunMoves DEF Deliveries

LEMMA AbortKeeps == ASSUME Inv, NEW c \in Cleaners, Abort(c) PROVE Inv'
<1>1. PICK i \in DOMAIN cleanups : i = cleaners[c].run
  BY UnderWay DEF Abort
<1>2. PICK job \in Jobs : job = Job(i, "done")
  BY JobIsTyped DEF Jobs
<1>3. QED
  BY <1>1, <1>2, Idle, JobMoves DEF Abort

LEMMA ExpireKeeps == ASSUME Inv, NEW i \in DOMAIN cleanups, Expire(i) PROVE Inv'
  BY JobMoves DEF Expire, Jobs, Inv, CleanersInv, Deliveries

-----------------------------------------------------------------------------
LEMMA InvNext == Inv /\ [CleanupNext]_cleanupVars => Inv'
<1> SUFFICES ASSUME Inv, [CleanupNext]_cleanupVars PROVE Inv'
  OBVIOUS
<1>1. ASSUME NEW p \in Inspectors, Inspect(p) \/ SendCorrection(p) \/ RetryCleanup(p)
      PROVE  Inv'
  BY <1>1, InspectKeeps, SendCorrectionKeeps, RetryCleanupKeeps
<1>2. ASSUME NEW p \in Inspectors, NEW h \in Handlers, EditCorrected(h, p) PROVE Inv'
  BY <1>2, EditCorrectedKeeps
<1>3. ASSUME NEW h \in Handlers, AppendCorrectedTranscriptRevision(h) PROVE Inv'
  BY <1>3, AppendKeeps
<1>4. ASSUME NEW c \in Cleaners, NEW i \in DOMAIN cleanups, Load(c, i) PROVE Inv'
  BY <1>4, LoadKeeps
<1>5. ASSUME NEW c \in Cleaners, Execute(c) PROVE Inv'
  BY <1>5, MarkRunningKeeps, CompleteKeeps, MarkFailedKeeps, AbortKeeps DEF Execute
<1>6. ASSUME NEW i \in DOMAIN cleanups, Expire(i) PROVE Inv'
  BY <1>6, ExpireKeeps
<1>7. CASE UNCHANGED cleanupVars
  <2>1. RequestsType' /\ CleanersInv'
    BY <1>7 DEF cleanupVars, RequestsType, CleanersInv, Inv, TypeInv
  <2>2. QED
    BY <1>7, <2>1, RowsRest DEF cleanupVars
<1>8. QED
  BY <1>1, <1>2, <1>3, <1>4, <1>5, <1>6, <1>7 DEF CleanupNext

\* For any number of pages, requests and deliveries: corrections stand on each other
\* and once per request, and texts and runs agree with them (transcript-service.ts,
\* transcript-repository.ts, the cleanup worker).
THEOREM CorrectionsAlwaysStand == CleanupSpec => []CorrectionsStand
<1>1. CleanupInit => Inv
  BY InvInit
<1>2. Inv /\ [CleanupNext]_cleanupVars => Inv'
  BY InvNext
<1>3. Inv => CorrectionsStand
  BY InvImplies
<1>4. QED
  BY <1>1, <1>2, <1>3, PTL DEF CleanupSpec

-----------------------------------------------------------------------------
(* Questions: the inductive invariant.                                       *)

\* What a recorder has read, and what the job is about to ask for.
Reading ==
    [day : JournalDays, requirement : Requirements, state : EvaluateRequirementRun,
     found : BOOLEAN]

Plan == [day : JournalDays, date : 1..MaxDates, items : SUBSET Requirements]

NudgeType ==
    /\ evaluations \in [JournalDays \X Requirements -> EvaluationRow \cup {None}]
    /\ recorder \in [Recorders -> Reading \cup {None}]
    /\ digests \in [JournalDays -> DigestRow \cup {None}]
    /\ scheduler \in [Schedulers -> Plan \cup {None}]
    /\ dailyLimit \in Nat
    /\ today \in 1..MaxDates
    /\ allowance \in [1..MaxDates -> Nat]
    /\ concluded \subseteq JournalDays

\* The digests of a date.
AskedOn(date) == {d \in JournalDays : digests[d] # None /\ digests[d].date = date}

\* The owner has allowed the date what is asked on it; of dates to come nothing is
\* allowed yet.
AllowanceInv ==
    /\ dailyLimit <= allowance[today]
    /\ \A date \in 1..MaxDates : date > today => allowance[date] = 0
    /\ \A date \in 1..MaxDates : Cardinality(AskedOn(date)) <= allowance[date]

\* The job that holds the lock is alone, the date has room for one more digest, and
\* what it will ask for has been evaluated.
SchedulerInv ==
    \A s \in Schedulers : scheduler[s] # None =>
        /\ \A other \in Schedulers \ {s} : scheduler[other] = None
        /\ Cardinality(AskedOn(scheduler[s].date)) < allowance[scheduler[s].date]
        /\ \A r \in scheduler[s].items : evaluations[scheduler[s].day, r] # None

RecorderInv ==
    \A t \in Recorders : recorder[t] # None /\ recorder[t].found =>
        evaluations[recorder[t].day, recorder[t].requirement] # None

\* What waits for an answer is asked for in a digest that can be answered, and a
\* concluded digest stays concluded.
AskedInv ==
    \A d \in JournalDays :
        /\ d \in concluded => digests[d] # None /\ digests[d].status \in Concluded
        /\ \A r \in Pending(d) : Asked(d, r) /\ digests[d].status \notin Concluded

NudgeInv == NudgeType /\ AllowanceInv /\ SchedulerInv /\ RecorderInv /\ AskedInv

LEMMA NudgeInvImplies == NudgeInv => AsksAsAllowed
  BY DEF NudgeInv, AllowanceInv, AskedInv, AsksAsAllowed, AskedOn

LEMMA AskedOnIsFinite ==
  ASSUME NEW date PROVE IsFiniteSet(AskedOn(date)) /\ Cardinality(AskedOn(date)) \in Nat
<1>1. AskedOn(date) \subseteq JournalDays
  BY DEF AskedOn
<1>2. QED
  BY <1>1, NudgeAssumption, FS_Subset, FS_CardinalityType

LEMMA NudgeInvInit == NudgeInit => NudgeInv
<1> SUFFICES ASSUME NudgeInit PROVE NudgeInv
  OBVIOUS
<1> USE DEF NudgeInit
<1>1. NudgeType
  BY NudgeAssumption DEF NudgeType
<1>2. \A date : AskedOn(date) = {}
  BY DEF AskedOn
<1>3. AllowanceInv
  <2>1. Cardinality({}) = 0
    BY FS_EmptySet
  <2>2. \A date : Cardinality(AskedOn(date)) = 0
    BY <1>2, <2>1
  <2>3. allowance = [n \in 1..MaxDates |-> IF n = 1 THEN 1 ELSE 0] /\ 1 \in 1..MaxDates
    BY NudgeAssumption
  <2>4. QED
    BY <2>2, <2>3 DEF AllowanceInv
<1>4. SchedulerInv /\ RecorderInv
  BY DEF SchedulerInv, RecorderInv
<1>5. \A d \in JournalDays : Pending(d) = {}
  BY DEF Pending
<1>6. QED
  BY <1>1, <1>3, <1>4, <1>5 DEF AskedInv, NudgeInv

\* Steps that leave the tables, the lock and the owner's preference alone.
LEMMA NudgeRest ==
  ASSUME NudgeInv,
         UNCHANGED <<evaluations, recorder, digests, scheduler, dailyLimit, today, allowance,
                     concluded>>
  PROVE  NudgeInv'
<1>1. NudgeType'
  BY DEF NudgeInv, NudgeType
<1>2. AllowanceInv' /\ SchedulerInv'
  BY DEF NudgeInv, AllowanceInv, SchedulerInv, AskedOn
<1>3. RecorderInv' /\ AskedInv'
  BY DEF NudgeInv, RecorderInv, AskedInv, Pending, Asked
<1>4. QED
  BY <1>1, <1>2, <1>3 DEF NudgeInv

LEMMA ReadEvaluationStep ==
  ASSUME NudgeInv, NEW t \in Recorders, NEW d \in JournalDays, NEW r \in Requirements,
         ReadEvaluation(t, d, r)
  PROVE  NudgeInv'
<1>1. UNCHANGED <<evaluations, digests, scheduler, dailyLimit, today, allowance, concluded>>
  BY DEF ReadEvaluation
<1>2. PICK state \in EvaluateRequirementRun, found \in BOOLEAN :
        /\ found = (evaluations[d, r] # None)
        /\ recorder' = [recorder EXCEPT ![t] =
              [day |-> d, requirement |-> r, state |-> state, found |-> found]]
  BY DEF ReadEvaluation
<1>3. PICK reading : reading = [day |-> d, requirement |-> r, state |-> state, found |-> found]
  OBVIOUS
<1>4. /\ reading \in Reading /\ reading.day = d /\ reading.requirement = r
      /\ reading.found = found
  BY <1>3 DEF Reading
<1>5. recorder' = [recorder EXCEPT ![t] = reading]
  BY <1>2, <1>3
<1>6. NudgeType'
  BY <1>1, <1>4, <1>5 DEF NudgeInv, NudgeType
<1>7. AllowanceInv' /\ SchedulerInv'
  BY <1>1 DEF NudgeInv, AllowanceInv, SchedulerInv, AskedOn
<1>8. AskedInv'
  BY <1>1 DEF NudgeInv, AskedInv, Pending, Asked
<1>9. RecorderInv'
  BY <1>1, <1>2, <1>4, <1>5 DEF NudgeInv, NudgeType, RecorderInv
<1>10. QED
  BY <1>6, <1>7, <1>8, <1>9 DEF NudgeInv

\* A change of evaluations that loses no row and leaves nothing waiting that did not.
LEMMA Reevaluated ==
  ASSUME NudgeInv, UNCHANGED <<digests, scheduler, dailyLimit, today, allowance, concluded>>,
         recorder' \in [Recorders -> Reading \cup {None}],
         \A t \in Recorders : recorder'[t] = recorder[t] \/ recorder'[t] = None,
         evaluations' \in [JournalDays \X Requirements -> EvaluationRow \cup {None}],
         \A e \in JournalDays \X Requirements : evaluations[e] # None => evaluations'[e] # None,
         \A d \in JournalDays : Pending(d)' \subseteq Pending(d)
  PROVE  NudgeInv'
<1>1. NudgeType'
  BY DEF NudgeInv, NudgeType
<1>2. AllowanceInv'
  BY DEF NudgeInv, AllowanceInv, AskedOn
<1>3. SchedulerInv'
  <2>1. ASSUME NEW s \in Schedulers, scheduler[s] # None, NEW r \in scheduler[s].items
        PROVE  evaluations'[scheduler[s].day, r] # None
    <3>1. scheduler[s] \in Plan
      BY <2>1 DEF NudgeInv, NudgeType
    <3>2. <<scheduler[s].day, r>> \in JournalDays \X Requirements
      BY <2>1, <3>1 DEF Plan
    <3>3. QED
      BY <2>1, <3>2 DEF NudgeInv, SchedulerInv
  <2>2. QED
    BY <2>1 DEF NudgeInv, SchedulerInv, AskedOn
<1>4. RecorderInv'
  <2>1. ASSUME NEW t \in Recorders, recorder'[t] # None, recorder'[t].found
        PROVE  evaluations'[recorder[t].day, recorder[t].requirement] # None
    <3>1. recorder[t] = recorder'[t] /\ recorder[t] \in Reading
      BY <2>1 DEF NudgeInv, NudgeType
    <3>2. <<recorder[t].day, recorder[t].requirement>> \in JournalDays \X Requirements
      BY <3>1 DEF Reading
    <3>3. QED
      BY <2>1, <3>1, <3>2 DEF NudgeInv, RecorderInv
  <2>2. QED
    BY <2>1 DEF RecorderInv
<1>5. AskedInv'
  BY DEF NudgeInv, AskedInv, Asked
<1>6. QED
  BY <1>1, <1>2, <1>3, <1>4, <1>5 DEF NudgeInv

LEMMA RecordProcessorRunStep ==
  ASSUME NudgeInv, NEW t \in Recorders, RecordProcessorRun(t)
  PROVE  NudgeInv'
<1>1. UNCHANGED <<digests, scheduler, dailyLimit, today, allowance, concluded>>
      /\ recorder' = [recorder EXCEPT ![t] = None] /\ recorder[t] # None
  BY DEF RecordProcessorRun
<1>2. PICK d \in JournalDays, r \in Requirements, state \in EvaluateRequirementRun :
        d = recorder[t].day /\ r = recorder[t].requirement /\ state = recorder[t].state
  BY <1>1 DEF NudgeInv, NudgeType, Reading
<1>3. PICK e \in JournalDays \X Requirements : e = <<d, r>>
  BY <1>2
<1>4. \/ evaluations' = evaluations
      \/ evaluations' = [evaluations EXCEPT ![e] = RequirementEvaluation(state)]
      \/ evaluations[e] # None /\ evaluations' = [evaluations EXCEPT ![e].state = state]
  <2>1. recorder[t].found => evaluations[e] # None
    BY <1>1, <1>2, <1>3 DEF NudgeInv, RecorderInv
  <2>2. QED
    BY <1>2, <1>3, <2>1 DEF RecordProcessorRun
<1>5. PICK row \in EvaluationRow :
        /\ evaluations' = evaluations \/ evaluations' = [evaluations EXCEPT ![e] = row]
        /\ row.state # "pending_user_response"
  <2>1. PICK manual \in BOOLEAN : evaluations[e] # None => manual = evaluations[e].manual
    BY <1>3 DEF NudgeInv, NudgeType, EvaluationRow
  <2>2. [state |-> state, manual |-> manual] \in EvaluationRow
        /\ RequirementEvaluation(state) \in EvaluationRow
        /\ RequirementEvaluation(state).state # "pending_user_response"
    BY <1>2 DEF EvaluationRow, EvaluateRequirementRun, RequirementEvaluation
  <2>3. CASE evaluations[e] # None /\ evaluations' = [evaluations EXCEPT ![e].state = state]
    <3>1. PICK old, new \in EvaluationRow : old = evaluations[e] /\ new = [old EXCEPT !.state = state]
      BY <1>2, <2>3 DEF NudgeInv, NudgeType, EvaluationRow
    <3>2. new.state = state
      BY <3>1 DEF EvaluationRow
    <3>3. evaluations' = [evaluations EXCEPT ![e] = new]
      BY <2>3, <3>1
    <3>4. QED
      BY <1>2, <3>2, <3>3 DEF EvaluateRequirementRun
  <2>4. QED
    BY <1>4, <2>2, <2>3
<1>6. evaluations' \in [JournalDays \X Requirements -> EvaluationRow \cup {None}]
  BY <1>5 DEF NudgeInv, NudgeType
<1>7. \A o \in JournalDays \X Requirements : evaluations[o] # None => evaluations'[o] # None
  BY <1>5, NudgeAssumption DEF NudgeInv, NudgeType
<1>8. ASSUME NEW day \in JournalDays PROVE Pending(day)' \subseteq Pending(day)
  <2>1. ASSUME NEW q \in Requirements, q \in Pending(day)' PROVE q \in Pending(day)
    <3>1. <<day, q>> \in JournalDays \X Requirements
      OBVIOUS
    <3>2. evaluations'[<<day, q>>] = evaluations[<<day, q>>]
      BY <1>5, <2>1, <3>1 DEF NudgeInv, NudgeType, Pending
    <3>3. QED
      BY <2>1, <3>2 DEF Pending
  <2>2. QED
    BY <2>1 DEF Pending
<1>9. QED
  BY <1>1, <1>6, <1>7, <1>8, Reevaluated DEF NudgeInv, NudgeType

\* A change of one digest that leaves its date and its items.
LEMMA Redigested ==
  ASSUME NudgeInv, NEW d \in JournalDays, digests[d] # None, NEW row \in DigestRow,
         digests' = [digests EXCEPT ![d] = row],
         row.date = digests[d].date, row.items = digests[d].items,
         UNCHANGED <<recorder, scheduler, dailyLimit, today, allowance>>,
         concluded' = concluded \/ (concluded' = concluded \cup {d} /\ row.status \in Concluded),
         d \in concluded => row.status \in Concluded,
         evaluations' \in [JournalDays \X Requirements -> EvaluationRow \cup {None}],
         \A e \in JournalDays \X Requirements : evaluations[e] # None => evaluations'[e] # None,
         \A o \in JournalDays : Pending(o)' \subseteq Pending(o),
         row.status \in Concluded => Pending(d)' = {}
  PROVE  NudgeInv'
<1>1. NudgeType'
  BY DEF NudgeInv, NudgeType
<1>2. ASSUME NEW date PROVE AskedOn(date)' = AskedOn(date)
  BY NudgeAssumption DEF AskedOn, NudgeInv, NudgeType
<1>3. AllowanceInv'
  BY <1>2 DEF NudgeInv, AllowanceInv
<1>4. SchedulerInv'
  <2>1. ASSUME NEW s \in Schedulers, scheduler[s] # None, NEW r \in scheduler[s].items
        PROVE  evaluations'[scheduler[s].day, r] # None
    <3>1. scheduler[s] \in Plan
      BY <2>1 DEF NudgeInv, NudgeType
    <3>2. <<scheduler[s].day, r>> \in JournalDays \X Requirements
      BY <2>1, <3>1 DEF Plan
    <3>3. QED
      BY <2>1, <3>2 DEF NudgeInv, SchedulerInv
  <2>2. QED
    BY <1>2, <2>1 DEF NudgeInv, SchedulerInv
<1>5. RecorderInv'
  <2>1. ASSUME NEW t \in Recorders, recorder[t] # None, recorder[t].found
        PROVE  evaluations'[recorder[t].day, recorder[t].requirement] # None
    <3>1. recorder[t] \in Reading
      BY <2>1 DEF NudgeInv, NudgeType
    <3>2. <<recorder[t].day, recorder[t].requirement>> \in JournalDays \X Requirements
      BY <3>1 DEF Reading
    <3>3. QED
      BY <2>1, <3>2 DEF NudgeInv, RecorderInv
  <2>2. QED
    BY <2>1 DEF RecorderInv
<1>6. AskedInv'
  <2>1. ASSUME NEW o \in JournalDays
        PROVE  /\ o \in concluded' => digests'[o] # None /\ digests'[o].status \in Concluded
               /\ \A r \in Pending(o)' : Asked(o, r)' /\ digests'[o].status \notin Concluded
    <3>1. CASE o = d
      <4>1. digests'[d] = row /\ row # None
        BY NudgeAssumption DEF NudgeInv, NudgeType
      <4>2. QED
        BY <3>1, <4>1 DEF NudgeInv, AskedInv, Asked
    <3>2. CASE o # d
      <4>1. digests'[o] = digests[o] /\ (o \in concluded' => o \in concluded)
        BY <3>2 DEF NudgeInv, NudgeType
      <4>2. QED
        BY <4>1 DEF NudgeInv, AskedInv, Asked
    <3>3. QED
      BY <3>1, <3>2
  <2>2. QED
    BY <2>1 DEF AskedInv
<1>7. QED
  BY <1>1, <1>3, <1>4, <1>5, <1>6 DEF NudgeInv

LEMMA DueStep ==
  ASSUME NudgeInv, NEW d \in JournalDays, DeliveryWindowOpens(d) \/ PublishDueDigest(d)
  PROVE  NudgeInv'
<1>1. UNCHANGED <<evaluations, recorder, scheduler, dailyLimit, today, allowance, concluded>>
      /\ digests[d] # None
  BY DEF DeliveryWindowOpens, PublishDueDigest
<1>2. PICK old \in DigestRow : old = digests[d]
  BY <1>1 DEF NudgeInv, NudgeType
<1>3. PICK row \in DigestRow :
        /\ digests' = [digests EXCEPT ![d] = row]
        /\ row.date = old.date /\ row.items = old.items
        /\ row.status = old.status \/ (row.status = "published" /\ old.status \notin Concluded)
  <2>1. CASE DeliveryWindowOpens(d)
    <3>1. PICK row : row = [old EXCEPT !.due = TRUE]
      OBVIOUS
    <3>2. row \in DigestRow
      BY <3>1 DEF DigestRow
    <3>3. row.date = old.date /\ row.items = old.items /\ row.status = old.status
      BY <3>1 DEF DigestRow
    <3>4. digests' = [digests EXCEPT ![d] = row]
      BY <1>2, <2>1, <3>1 DEF DeliveryWindowOpens, NudgeInv, NudgeType
    <3>5. QED
      BY <3>2, <3>3, <3>4
  <2>2. CASE PublishDueDigest(d)
    <3>1. PICK n, row : n = old.revision + 1
                        /\ row = [old EXCEPT !.status = "published", !.published = TRUE,
                                             !.revision = n]
      OBVIOUS
    <3>2. n \in Nat
      BY <3>1 DEF DigestRow
    <3>3. row \in DigestRow
      BY <3>1, <3>2 DEF DigestRow
    <3>4. row.date = old.date /\ row.items = old.items /\ row.status = "published"
      BY <3>1 DEF DigestRow
    <3>5. digests' = [digests EXCEPT ![d] = row]
      BY <1>2, <2>2, <3>1 DEF PublishDueDigest, NudgeInv, NudgeType
    <3>6. QED
      BY <1>2, <2>2, <3>3, <3>4, <3>5 DEF PublishDueDigest, Concluded
  <2>3. QED
    BY <2>1, <2>2
<1>4. evaluations' = evaluations /\ \A o \in JournalDays : Pending(o)' = Pending(o)
  BY <1>1 DEF Pending
<1>5. d \in concluded => row.status \in Concluded
  BY <1>2, <1>3 DEF NudgeInv, AskedInv
<1>6. row.status \in Concluded => Pending(d)' = {}
  BY <1>2, <1>3, <1>4 DEF NudgeInv, AskedInv, Concluded
<1>7. row.date = digests[d].date /\ row.items = digests[d].items
  BY <1>2, <1>3
<1>8. evaluations' \in [JournalDays \X Requirements -> EvaluationRow \cup {None}]
  BY <1>4 DEF NudgeInv, NudgeType
<1>9. QED
  BY <1>1, <1>3, <1>4, <1>5, <1>6, <1>7, <1>8, Redigested

\* The items that have been asked for are no longer eligible, so what is found
\* has been evaluated and the date has room for the digest.
LEMMA ReadCandidatesStep ==
  ASSUME NudgeInv, NEW s \in Schedulers, ReadCandidates(s)
  PROVE  NudgeInv'
<1>1. /\ UNCHANGED <<evaluations, recorder, digests, dailyLimit, today, allowance, concluded>>
      /\ \A o \in Schedulers : scheduler[o] = None
      /\ Cardinality(AskedOn(today)) < dailyLimit
  BY DEF ReadCandidates, DigestLockFree, AskedOn
<1>2. PICK d \in JournalDays : scheduler' = [scheduler EXCEPT ![s] =
        [day |-> d, date |-> today, items |-> {r \in Requirements : Eligible(d, r)}]]
  BY DEF ReadCandidates
<1>3. PICK plan : plan = [day |-> d, date |-> today, items |-> {r \in Requirements : Eligible(d, r)}]
  OBVIOUS
<1>4. /\ plan \in Plan /\ plan.day = d /\ plan.date = today
      /\ \A r \in plan.items : evaluations[d, r] # None
  <2>1. plan.day = d /\ plan.date = today /\ plan.items = {r \in Requirements : Eligible(d, r)}
    BY <1>3
  <2>2. plan.items \in SUBSET Requirements /\ \A r \in plan.items : evaluations[d, r] # None
    BY <2>1 DEF Eligible
  <2>3. plan \in Plan
    BY <1>3, <2>1, <2>2 DEF Plan, NudgeInv, NudgeType
  <2>4. QED
    BY <2>1, <2>2, <2>3
<1>5. scheduler' = [scheduler EXCEPT ![s] = plan]
  BY <1>2, <1>3
<1>6. NudgeType'
  BY <1>1, <1>4, <1>5 DEF NudgeInv, NudgeType
<1>7. AllowanceInv'
  BY <1>1 DEF NudgeInv, AllowanceInv, AskedOn
<1>8. RecorderInv' /\ AskedInv'
  BY <1>1 DEF NudgeInv, RecorderInv, AskedInv, Pending, Asked
<1>9. SchedulerInv'
  <2>1. scheduler'[s] = plan /\ \A o \in Schedulers \ {s} : scheduler'[o] = None
    BY <1>1, <1>5 DEF NudgeInv, NudgeType
  <2>2. Cardinality(AskedOn(today)) < allowance[today]
    <3>1. Cardinality(AskedOn(today)) \in Nat /\ dailyLimit \in Nat /\ allowance[today] \in Nat
      BY AskedOnIsFinite DEF NudgeInv, NudgeType
    <3>2. QED
      BY <1>1, <3>1 DEF NudgeInv, AllowanceInv
  <2>3. \A date : AskedOn(date)' = AskedOn(date)
    BY <1>1 DEF AskedOn
  <2>4. QED
    BY <1>1, <1>4, <2>1, <2>2, <2>3 DEF SchedulerInv
<1>10. QED
  BY <1>6, <1>7, <1>8, <1>9 DEF NudgeInv

LEMMA CreateOwnerDigestStep ==
  ASSUME NudgeInv, NEW s \in Schedulers, CreateOwnerDigest(s)
  PROVE  NudgeInv'
<1>1. /\ UNCHANGED <<recorder, dailyLimit, today, allowance, concluded>>
      /\ scheduler' = [scheduler EXCEPT ![s] = None] /\ scheduler[s] # None
  BY DEF CreateOwnerDigest
<1>2. PICK plan \in Plan : plan = scheduler[s]
  BY <1>1 DEF NudgeInv, NudgeType
<1>3. PICK d \in JournalDays, items \in SUBSET Requirements, date \in 1..MaxDates :
        d = plan.day /\ items = plan.items /\ date = plan.date
  BY DEF Plan
<1>4. \A o \in Schedulers : scheduler'[o] = None
  BY <1>1, <1>2 DEF NudgeInv, NudgeType, SchedulerInv
<1>5. SchedulerInv'
  BY <1>4 DEF SchedulerInv
<1>6. CASE digests[d] # None
  <2>1. UNCHANGED <<digests, evaluations>>
    BY <1>2, <1>3, <1>6 DEF CreateOwnerDigest
  <2>2. NudgeType' /\ AllowanceInv'
    BY <1>1, <1>4, <2>1 DEF NudgeInv, NudgeType, AllowanceInv, AskedOn
  <2>3. RecorderInv' /\ AskedInv'
    BY <1>1, <2>1 DEF NudgeInv, RecorderInv, AskedInv, Pending, Asked
  <2>4. QED
    BY <1>5, <2>2, <2>3 DEF NudgeInv
<1>7. CASE digests[d] = None
  <2>1. PICK quiet \in BOOLEAN : digests' = [digests EXCEPT ![d] = NudgeDigest(items, date, quiet)]
    BY <1>2, <1>3, <1>7 DEF CreateOwnerDigest
  <2>2. evaluations' = [e \in DOMAIN evaluations |->
                          IF e[1] = d /\ e[2] \in items
                          THEN [evaluations[e] EXCEPT !.state = "pending_user_response"]
                          ELSE evaluations[e]]
    BY <1>2, <1>3, <1>7 DEF CreateOwnerDigest
  <2>3. PICK row : row = NudgeDigest(items, date, quiet)
    OBVIOUS
  <2>4. /\ row \in DigestRow /\ row.items = items /\ row.date = date
        /\ row.status \notin Concluded /\ row # None
    <3>1. row.items = items /\ row.date = date /\ row.status \notin Concluded
      BY <2>3 DEF NudgeDigest, Concluded
    <3>2. row \in DigestRow
      BY <2>3 DEF NudgeDigest, DigestRow
    <3>3. QED
      BY <3>1, <3>2, NudgeAssumption
  <2>5. digests' = [digests EXCEPT ![d] = row]
    BY <2>1, <2>3
  <2>6. \A r \in items : evaluations[d, r] # None
    BY <1>1, <1>2, <1>3 DEF NudgeInv, SchedulerInv
  <2>7. /\ evaluations' \in [JournalDays \X Requirements -> EvaluationRow \cup {None}]
        /\ \A e \in JournalDays \X Requirements : evaluations[e] # None => evaluations'[e] # None
    <3>1. DOMAIN evaluations = JournalDays \X Requirements
          /\ \A e \in JournalDays \X Requirements : evaluations[e] \in EvaluationRow \cup {None}
      BY DEF NudgeInv, NudgeType
    <3>2. ASSUME NEW row1 \in EvaluationRow
          PROVE  [row1 EXCEPT !.state = "pending_user_response"] \in EvaluationRow
      BY DEF EvaluationRow
    <3>3. ASSUME NEW e \in JournalDays \X Requirements
          PROVE  /\ evaluations'[e] \in EvaluationRow \cup {None}
                 /\ evaluations[e] # None => evaluations'[e] # None
      <4>1. CASE e[1] = d /\ e[2] \in items
        <5>1. e = <<d, e[2]>>
          BY <4>1
        <5>2. evaluations[e] \in EvaluationRow
          BY <2>6, <3>1, <4>1, <5>1
        <5>3. evaluations'[e] \in EvaluationRow
          BY <2>2, <3>1, <3>2, <4>1, <5>2
        <5>4. QED
          BY <5>3, NudgeAssumption
      <4>2. CASE ~(e[1] = d /\ e[2] \in items)
        BY <2>2, <3>1, <4>2
      <4>3. QED
        BY <4>1, <4>2
    <3>4. QED
      BY <2>2, <3>1, <3>3
  <2>8. NudgeType'
    BY <1>1, <1>4, <2>4, <2>5, <2>7 DEF NudgeInv, NudgeType
  <2>9. AllowanceInv'
    <3>1. AskedOn(date)' = AskedOn(date) \cup {d}
      BY <1>7, <2>4, <2>5 DEF AskedOn, NudgeInv, NudgeType
    <3>2. \A other : other # date => AskedOn(other)' = AskedOn(other)
      BY <1>7, <2>4, <2>5 DEF AskedOn, NudgeInv, NudgeType
    <3>3. Cardinality(AskedOn(date) \cup {d}) <= Cardinality(AskedOn(date)) + 1
      <4>1. PICK S : S = AskedOn(date) /\ IsFiniteSet(S) /\ Cardinality(S) \in Nat
        BY AskedOnIsFinite
      <4>2. Cardinality(S \cup {d}) = IF d \in S THEN Cardinality(S) ELSE Cardinality(S) + 1
        BY <4>1, FS_AddElement
      <4>3. QED
        BY <4>1, <4>2
    <3>4. Cardinality(AskedOn(date)) < allowance[date]
      BY <1>1, <1>2, <1>3 DEF NudgeInv, SchedulerInv
    <3>5. Cardinality(AskedOn(date)) \in Nat /\ allowance[date] \in Nat
      BY AskedOnIsFinite DEF NudgeInv, NudgeType
    <3>6. Cardinality(AskedOn(date) \cup {d}) \in Nat
      BY AskedOnIsFinite, FS_AddElement, FS_CardinalityType
    <3>7. Cardinality(AskedOn(date)') <= allowance[date]
      BY <3>1, <3>3, <3>4, <3>5, <3>6
    <3>8. \A n \in 1..MaxDates : Cardinality(AskedOn(n)') <= allowance[n]
      BY <3>2, <3>7 DEF NudgeInv, AllowanceInv
    <3>9. QED
      BY <1>1, <3>8 DEF NudgeInv, AllowanceInv
  <2>10. RecorderInv'
    <3>1. ASSUME NEW t \in Recorders, recorder[t] # None, recorder[t].found
          PROVE  evaluations'[recorder[t].day, recorder[t].requirement] # None
      <4>1. recorder[t] \in Reading
        BY <3>1 DEF NudgeInv, NudgeType
      <4>2. <<recorder[t].day, recorder[t].requirement>> \in JournalDays \X Requirements
        BY <4>1 DEF Reading
      <4>3. QED
        BY <2>7, <3>1, <4>2 DEF NudgeInv, RecorderInv
    <3>2. QED
      BY <1>1, <3>1 DEF RecorderInv
  <2>11. AskedInv'
    <3>1. ASSUME NEW o \in JournalDays
          PROVE  /\ o \in concluded' => digests'[o] # None /\ digests'[o].status \in Concluded
                 /\ \A r \in Pending(o)' : Asked(o, r)' /\ digests'[o].status \notin Concluded
      <4>1. ASSUME NEW r \in Pending(o)' PROVE r \in Pending(o) \/ (o = d /\ r \in items)
        <5>1. <<o, r>> \in JournalDays \X Requirements /\ evaluations'[o, r] # None
              /\ evaluations'[o, r].state = "pending_user_response"
          BY <4>1 DEF Pending
        <5>2. CASE ~(o = d /\ r \in items)
          <6>1. evaluations'[<<o, r>>] = evaluations[<<o, r>>]
            BY <2>2, <5>1, <5>2 DEF NudgeInv, NudgeType
          <6>2. QED
            BY <5>1, <6>1 DEF Pending
        <5>3. QED
          BY <5>2
      <4>2. CASE o = d
        <5>1. digests'[d] = row /\ d \notin concluded /\ Pending(d) = {}
          BY <1>7, <2>5 DEF NudgeInv, NudgeType, AskedInv, Asked
        <5>2. QED
          BY <1>1, <2>4, <4>1, <4>2, <5>1 DEF Asked
      <4>3. CASE o # d
        <5>1. digests'[o] = digests[o]
          BY <2>5, <4>3 DEF NudgeInv, NudgeType
        <5>2. QED
          BY <1>1, <4>1, <4>3, <5>1 DEF NudgeInv, AskedInv, Asked
      <4>4. QED
        BY <4>2, <4>3
    <3>2. QED
      BY <3>1 DEF AskedInv
  <2>12. QED
    BY <1>5, <2>8, <2>9, <2>10, <2>11 DEF NudgeInv
<1>8. QED
  BY <1>6, <1>7

\* More may be asked on the date at most; what was asked on it stays.
LEMMA PreferencesStep ==
  ASSUME NudgeInv, NextDate \/ \E limit \in Limits : UpdatePreferences(limit)
  PROVE  NudgeInv'
<1>1. UNCHANGED <<evaluations, recorder, digests, scheduler, concluded>>
  BY DEF NextDate, UpdatePreferences
<1>2. /\ NudgeType'
      /\ dailyLimit' <= allowance'[today']
      /\ \A date \in 1..MaxDates : date > today' => allowance'[date] = 0
      /\ \A date \in 1..MaxDates : allowance[date] <= allowance'[date]
  <2>1. CASE NextDate
    <3>1. /\ today' = today + 1 /\ today' \in 1..MaxDates /\ dailyLimit' = dailyLimit
          /\ allowance' = [allowance EXCEPT ![today'] = dailyLimit]
      BY <2>1, NudgeAssumption DEF NextDate, NudgeInv, NudgeType
    <3>2. allowance'[today'] = dailyLimit /\ allowance[today'] = 0 /\ dailyLimit \in Nat
      BY <3>1, NudgeAssumption DEF NudgeInv, NudgeType, AllowanceInv
    <3>3. NudgeType'
      BY <1>1, <3>1 DEF NudgeInv, NudgeType
    <3>4. \A date \in 1..MaxDates : date # today' => allowance'[date] = allowance[date]
      BY <3>1 DEF NudgeInv, NudgeType
    <3>5. QED
      BY <3>1, <3>2, <3>3, <3>4, NudgeAssumption DEF NudgeInv, NudgeType, AllowanceInv
  <2>2. ASSUME NEW limit \in Limits, UpdatePreferences(limit)
        PROVE  <1>2!1 /\ <1>2!2 /\ <1>2!3 /\ <1>2!4
    <3>1. PICK most \in Nat : most = IF limit > allowance[today] THEN limit ELSE allowance[today]
      BY NudgeAssumption DEF NudgeInv, NudgeType
    <3>2. /\ limit \in Nat /\ today' = today /\ dailyLimit' = limit
          /\ allowance' = [allowance EXCEPT ![today] = most]
      BY <2>2, <3>1, NudgeAssumption DEF UpdatePreferences, NudgeInv, NudgeType
    <3>3. allowance[today] \in Nat /\ limit <= most /\ allowance[today] <= most
      BY <3>1, <3>2 DEF NudgeInv, NudgeType
    <3>4. NudgeType'
      BY <1>1, <3>2 DEF NudgeInv, NudgeType
    <3>5. allowance'[today] = most /\ \A date \in 1..MaxDates : date # today => allowance'[date] = allowance[date]
      BY <3>2 DEF NudgeInv, NudgeType
    <3>6. QED
      BY <3>2, <3>3, <3>4, <3>5 DEF NudgeInv, NudgeType, AllowanceInv
  <2>3. QED
    BY <2>1, <2>2
<1>3. \A date : AskedOn(date)' = AskedOn(date)
  BY <1>1 DEF AskedOn
<1>4. AllowanceInv'
  <2>1. ASSUME NEW date \in 1..MaxDates PROVE Cardinality(AskedOn(date)) <= allowance'[date]
    <3>1. Cardinality(AskedOn(date)) \in Nat /\ allowance[date] \in Nat /\ allowance'[date] \in Nat
      BY <1>2, AskedOnIsFinite DEF NudgeInv, NudgeType
    <3>2. QED
      BY <1>2, <3>1 DEF NudgeInv, AllowanceInv
  <2>2. QED
    BY <1>2, <1>3, <2>1 DEF AllowanceInv
<1>5. SchedulerInv'
  <2>1. ASSUME NEW s \in Schedulers, scheduler[s] # None
        PROVE  Cardinality(AskedOn(scheduler[s].date)) < allowance'[scheduler[s].date]
    <3>1. PICK date \in 1..MaxDates : date = scheduler[s].date
      BY <2>1 DEF NudgeInv, NudgeType, Plan
    <3>2. Cardinality(AskedOn(date)) \in Nat /\ allowance[date] \in Nat /\ allowance'[date] \in Nat
      BY <1>2, AskedOnIsFinite DEF NudgeInv, NudgeType
    <3>3. Cardinality(AskedOn(date)) < allowance[date] /\ allowance[date] <= allowance'[date]
      BY <1>2, <2>1, <3>1 DEF NudgeInv, SchedulerInv
    <3>4. Cardinality(AskedOn(date)) < allowance'[date]
      BY <3>2, <3>3
    <3>5. QED
      BY <3>1, <3>4
  <2>2. QED
    BY <1>1, <1>3, <2>1 DEF NudgeInv, SchedulerInv
<1>6. RecorderInv' /\ AskedInv'
  BY <1>1 DEF NudgeInv, RecorderInv, AskedInv, Pending, Asked
<1>7. QED
  BY <1>2, <1>4, <1>5, <1>6 DEF NudgeInv

\* An action of the owner on a digest that is not concluded yet.
LEMMA Acting ==
  ASSUME NudgeInv, NEW p \in Cards, NEW d \in JournalDays, Act(p, d), Acted(p)
  PROVE  /\ UNCHANGED <<recorder, scheduler, dailyLimit, today, allowance>>
         /\ digests[d] # None /\ digests[d] \in DigestRow
         /\ digests[d].status \notin Concluded /\ d \notin concluded
  BY DEF NudgeInv, NudgeType, AskedInv, Act, Acted

LEMMA AnswerStep ==
  ASSUME NudgeInv, NEW p \in Cards, NEW d \in JournalDays, NEW r \in Requirements,
         Answer(p, d, r)
  PROVE  NudgeInv'
<1>1. Act(p, d) /\ Acted(p)
  BY DEF Answer
<1>2. PICK old \in DigestRow : old = digests[d]
  BY <1>1, Acting
<1>3. PICK remaining, status, n :
        /\ remaining = (old.items \cap Pending(d)) \ {r}
        /\ status = Resolved(d, remaining) /\ n = old.revision + 1
  OBVIOUS
<1>4. /\ digests' = [digests EXCEPT ![d].status = status, ![d].revision = @ + 1]
      /\ concluded' = IF remaining = {} THEN concluded \cup {d} ELSE concluded
  BY <1>2, <1>3 DEF Answer
<1>5. status \in {"queued", "published", "deferred", "dismissed", "resolved"}
      /\ (status \in Concluded <=> remaining = {})
  BY <1>1, <1>2, <1>3, Acting DEF Resolved, Concluded, DigestRow
<1>6. PICK row : row = [old EXCEPT !.status = status, !.revision = n]
  OBVIOUS
<1>7. n \in Nat
  BY <1>3 DEF DigestRow
<1>8. row \in DigestRow
  BY <1>5, <1>6, <1>7 DEF DigestRow
<1>9. row.status = status /\ row.date = old.date /\ row.items = old.items
  BY <1>6 DEF DigestRow
<1>10. digests' = [digests EXCEPT ![d] = row]
  BY <1>2, <1>3, <1>4, <1>6 DEF NudgeInv, NudgeType
<1>11. PICK e \in JournalDays \X Requirements, state \in {"satisfied", "not_applicable"} :
         e = <<d, r>> /\ evaluations' = [evaluations EXCEPT ![e] = [state |-> state, manual |-> TRUE]]
  BY DEF Answer
<1>12. PICK answer : answer = [state |-> state, manual |-> TRUE]
  OBVIOUS
<1>13. answer \in EvaluationRow /\ answer.state # "pending_user_response" /\ answer # None
  <2>1. answer \in EvaluationRow /\ answer.state # "pending_user_response"
    BY <1>12 DEF EvaluationRow, EvaluateRequirementRun
  <2>2. QED
    BY <2>1, NudgeAssumption
<1>14. /\ evaluations' = [evaluations EXCEPT ![e] = answer]
       /\ evaluations' \in [JournalDays \X Requirements -> EvaluationRow \cup {None}]
       /\ \A o \in JournalDays \X Requirements : evaluations[o] # None => evaluations'[o] # None
  BY <1>11, <1>12, <1>13 DEF NudgeInv, NudgeType
<1>15. ASSUME NEW o \in JournalDays, NEW q \in Pending(o)' PROVE q \in Pending(o) /\ <<o, q>> # e
  <2>1. <<o, q>> \in JournalDays \X Requirements /\ evaluations'[<<o, q>>] # None
        /\ evaluations'[<<o, q>>].state = "pending_user_response"
    BY <1>15 DEF Pending
  <2>2. <<o, q>> # e
    BY <1>13, <1>14, <2>1 DEF NudgeInv, NudgeType
  <2>3. evaluations'[<<o, q>>] = evaluations[<<o, q>>]
    BY <1>14, <2>1, <2>2 DEF NudgeInv, NudgeType
  <2>4. QED
    BY <2>1, <2>2, <2>3 DEF Pending
<1>16. row.status \in Concluded => Pending(d)' = {}
  <2>1. ASSUME NEW q \in Pending(d)', remaining = {} PROVE FALSE
    <3>1. q \in Pending(d) /\ q # r
      BY <1>11, <1>15, <2>1
    <3>2. q \in old.items
      BY <1>2, <3>1 DEF NudgeInv, AskedInv, Asked
    <3>3. QED
      BY <1>3, <2>1, <3>1, <3>2
  <2>2. QED
    BY <1>5, <1>9, <2>1
<1>17. \A o \in JournalDays : Pending(o)' \subseteq Pending(o)
  BY <1>15
<1>18. concluded' = concluded \/ (concluded' = concluded \cup {d} /\ row.status \in Concluded)
  BY <1>4, <1>5, <1>9
<1>19. row.date = digests[d].date /\ row.items = digests[d].items
  BY <1>2, <1>9
<1>20. QED
  BY <1>1, <1>8, <1>10, <1>14, <1>16, <1>17, <1>18, <1>19, Acting, Redigested

LEMMA DeferStep ==
  ASSUME NudgeInv, NEW p \in Cards, NEW d \in JournalDays, Defer(p, d)
  PROVE  NudgeInv'
<1>1. Act(p, d) /\ Acted(p) /\ UNCHANGED <<evaluations, concluded>>
  BY DEF Defer
<1>2. PICK old \in DigestRow : old = digests[d]
  BY <1>1, Acting
<1>3. PICK n, row : n = old.revision + 1
                    /\ row = [old EXCEPT !.status = "deferred", !.due = FALSE, !.revision = n]
  OBVIOUS
<1>4. n \in Nat
  BY <1>3 DEF DigestRow
<1>5. row \in DigestRow
  BY <1>3, <1>4 DEF DigestRow
<1>6. row.status \notin Concluded
  BY <1>3 DEF DigestRow, Concluded
<1>7. row.date = old.date /\ row.items = old.items
  BY <1>3 DEF DigestRow
<1>8. digests' = [digests EXCEPT ![d] = row]
  BY <1>2, <1>3 DEF Defer, NudgeInv, NudgeType
<1>9. row.date = digests[d].date /\ row.items = digests[d].items
  BY <1>2, <1>7
<1>10. /\ \A o \in JournalDays : Pending(o)' \subseteq Pending(o)
       /\ evaluations' \in [JournalDays \X Requirements -> EvaluationRow \cup {None}]
       /\ \A e \in JournalDays \X Requirements : evaluations[e] # None => evaluations'[e] # None
  BY <1>1 DEF Pending, NudgeInv, NudgeType
<1>11. QED
  BY <1>1, <1>5, <1>6, <1>8, <1>9, <1>10, Acting, Redigested

LEMMA DismissStep ==
  ASSUME NudgeInv, NEW p \in Cards, NEW d \in JournalDays, Dismiss(p, d)
  PROVE  NudgeInv'
<1>1. Act(p, d) /\ Acted(p) /\ concluded' = concluded \cup {d}
  BY DEF Dismiss
<1>2. PICK old \in DigestRow : old = digests[d]
  BY <1>1, Acting
<1>3. PICK n, row : n = old.revision + 1
                    /\ row = [old EXCEPT !.status = "dismissed", !.revision = n]
  OBVIOUS
<1>4. n \in Nat
  BY <1>3 DEF DigestRow
<1>5. row \in DigestRow
  BY <1>3, <1>4 DEF DigestRow
<1>6. row.status \in Concluded
  BY <1>3 DEF DigestRow, Concluded
<1>7. row.date = old.date /\ row.items = old.items
  BY <1>3 DEF DigestRow
<1>8. digests' = [digests EXCEPT ![d] = row]
  BY <1>2, <1>3 DEF Dismiss, NudgeInv, NudgeType
<1>9. row.date = digests[d].date /\ row.items = digests[d].items
  BY <1>2, <1>7
<1>10. PICK answer : answer = [state |-> "dismissed", manual |-> TRUE]
  OBVIOUS
<1>11. answer \in EvaluationRow /\ answer.state # "pending_user_response" /\ answer # None
  <2>1. answer \in EvaluationRow /\ answer.state # "pending_user_response"
    BY <1>10 DEF EvaluationRow
  <2>2. QED
    BY <2>1, NudgeAssumption
<1>12. evaluations' = [o \in JournalDays \X Requirements |->
            IF o[1] = d /\ o[2] \in old.items THEN answer ELSE evaluations[o]]
  BY <1>2, <1>10 DEF Dismiss, NudgeInv, NudgeType
<1>13. /\ evaluations' \in [JournalDays \X Requirements -> EvaluationRow \cup {None}]
       /\ \A e \in JournalDays \X Requirements : evaluations[e] # None => evaluations'[e] # None
  BY <1>11, <1>12 DEF NudgeInv, NudgeType
<1>14. ASSUME NEW o \in JournalDays, NEW q \in Pending(o)'
       PROVE  q \in Pending(o) /\ ~(o = d /\ q \in old.items)
  <2>1. <<o, q>> \in JournalDays \X Requirements /\ evaluations'[<<o, q>>] # None
        /\ evaluations'[<<o, q>>].state = "pending_user_response"
    BY <1>14 DEF Pending
  <2>2. evaluations'[<<o, q>>] = IF o = d /\ q \in old.items THEN answer ELSE evaluations[<<o, q>>]
    BY <1>12, <2>1
  <2>3. ~(o = d /\ q \in old.items)
    BY <1>11, <2>1, <2>2
  <2>4. evaluations'[<<o, q>>] = evaluations[<<o, q>>]
    BY <2>2, <2>3
  <2>5. QED
    BY <2>1, <2>3, <2>4 DEF Pending
<1>15. Pending(d)' = {}
  BY <1>2, <1>14 DEF NudgeInv, AskedInv, Asked
<1>16. \A o \in JournalDays : Pending(o)' \subseteq Pending(o)
  BY <1>14
<1>17. QED
  BY <1>1, <1>5, <1>6, <1>8, <1>9, <1>13, <1>15, <1>16, Acting, Redigested

LEMMA NudgeInvNext == NudgeInv /\ [NudgeNext]_nudgeVars => NudgeInv'
<1> SUFFICES ASSUME NudgeInv, [NudgeNext]_nudgeVars PROVE NudgeInv'
  OBVIOUS
<1>1. ASSUME NEW t \in Recorders, NEW d \in JournalDays, NEW r \in Requirements,
             ReadEvaluation(t, d, r)
      PROVE  NudgeInv'
  BY <1>1, ReadEvaluationStep
<1>2. ASSUME NEW t \in Recorders, RecordProcessorRun(t) PROVE NudgeInv'
  BY <1>2, RecordProcessorRunStep
<1>3. ASSUME NudgeDigestJobs PROVE NudgeInv'
  BY <1>3, DueStep, ReadCandidatesStep, CreateOwnerDigestStep DEF NudgeDigestJobs, RunSchedule
<1>4. ASSUME NextDate \/ \E limit \in Limits : UpdatePreferences(limit) PROVE NudgeInv'
  BY <1>4, PreferencesStep
<1>5. ASSUME NEW d \in JournalDays, DeliveryWindowOpens(d) PROVE NudgeInv'
  BY <1>5, DueStep
<1>6. ASSUME NEW d \in JournalDays, NEW p \in Cards, ReadEvaluations(p, d) PROVE NudgeInv'
  BY <1>6, NudgeRest DEF ReadEvaluations
<1>7. ASSUME NEW d \in JournalDays, NEW p \in Cards, NEW r \in Requirements, Answer(p, d, r)
      PROVE  NudgeInv'
  BY <1>7, AnswerStep
<1>8. ASSUME NEW d \in JournalDays, NEW p \in Cards, Defer(p, d) PROVE NudgeInv'
  BY <1>8, DeferStep
<1>9. ASSUME NEW d \in JournalDays, NEW p \in Cards, Dismiss(p, d) PROVE NudgeInv'
  BY <1>9, DismissStep
<1>10. ASSUME NEW p \in Cards, GetDay(p) PROVE NudgeInv'
  BY <1>10, NudgeRest DEF GetDay
<1>11. CASE UNCHANGED nudgeVars
  BY <1>11, NudgeRest DEF nudgeVars
<1>12. QED
  BY <1>1, <1>2, <1>3, <1>4, <1>5, <1>6, <1>7, <1>8, <1>9, <1>10, <1>11 DEF NudgeNext

\* For any number of days, requirements, overlapping jobs and cards: no date is asked
\* more than the owner allowed on it, a concluded digest stays concluded and waits for
\* nothing, and what waits for an answer can be answered (nudge-repository.ts).
THEOREM AsksAsAllowedAlways == NudgeSpec => []AsksAsAllowed
<1>1. NudgeInv /\ [NudgeNext]_nudgeVars => NudgeInv'
  BY NudgeInvNext
<1>2. QED
  BY NudgeInvInit, <1>1, NudgeInvImplies, PTL DEF NudgeSpec
=============================================================================
