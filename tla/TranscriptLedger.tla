-------------------------- MODULE TranscriptLedger --------------------------
(***************************************************************************)
(* What the transcription of a recording promises to its readers, with the *)
(* queue, the workers and their failures left out.  Attempts are numbered  *)
(* in the order they are requested.  A transcript is published only from   *)
(* the newest attempt, at most once per attempt, and never while the audio *)
(* is deleted.  What was published stays; the corrected layer is seeded by *)
(* the first publication and never reseeded.                               *)
(***************************************************************************)
EXTENDS Naturals, Sequences

VARIABLES
    attempts,   \* how many attempts were requested
    withheld,   \* the audio is deleted
    published,  \* the attempts whose transcript was published, oldest first
    seed        \* the attempt the corrected layer started from, or 0

ledger == <<attempts, withheld, published, seed>>

LedgerInit ==
    /\ attempts = 0
    /\ withheld = FALSE
    /\ published = <<>>
    /\ seed = 0

Request ==
    /\ ~withheld
    /\ attempts' = attempts + 1
    /\ UNCHANGED <<withheld, published, seed>>

Publish ==
    /\ ~withheld
    /\ attempts > 0
    /\ \A n \in DOMAIN published : published[n] < attempts
    /\ published' = Append(published, attempts)
    /\ seed' = IF seed = 0 THEN attempts ELSE seed
    /\ UNCHANGED <<attempts, withheld>>

Withhold ==
    /\ withheld' = ~withheld
    /\ UNCHANGED <<attempts, published, seed>>

LedgerNext == Request \/ Publish \/ Withhold

LedgerSpec == LedgerInit /\ [][LedgerNext]_ledger
=============================================================================
