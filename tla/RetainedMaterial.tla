-------------------------- MODULE RetainedMaterial --------------------------
(* What the owner keeps: the contributions of one journal day, each with the *)
(* audio of its recording and the raw response of its transcription, and the *)
(* ledger of what was deleted for good.                                       *)
(*                                                                            *)
(* A target of deletion is a record [kind, of]; the blob of an audio or of a *)
(* raw response is identified with the target.                                *)
EXTENDS Absence, Naturals, FiniteSets

CONSTANTS
    Entries,     \* contributions, each with a durable recording
    Late,        \* the entries that may be written later
    MaxRestores  \* bound: restores from the trash

ASSUME MaterialAssumption == IsFiniteSet(Entries) /\ Late \subseteq Entries /\ None \notin Entries

Contribution(c) == [kind |-> "contribution", of |-> c]
Audio(c) == [kind |-> "recording_audio", of |-> c]
RawResponse(c) == [kind |-> "provider_raw_response", of |-> c]
Day == [kind |-> "journal_day", of |-> None]

Contributions == {Contribution(c) : c \in Entries}
Audios == {Audio(c) : c \in Entries}
RawResponses == {RawResponse(c) : c \in Entries}
Targets == Contributions \cup Audios \cup RawResponses \cup {Day}

VARIABLES
    material,    \* [Targets -> {"absent", "live", "deleted", "gone"}]
    tombstones,  \* [Targets -> Nat], the generation of a tombstone, 0 for none
    deletionGeneration,  \* of the owner's policy, the generation of the last tombstone
    restoring,   \* the entries a restore has found free of tombstones
    blobs,       \* audios and raw responses the blob store holds
    restores     \* what has been spent of the bound

materialVars == <<material, tombstones, deletionGeneration, restoring, blobs, restores>>

Tombstoned(e) == tombstones[e] # 0

Generation == deletionGeneration + 1

\* What goes with a target: a day holds its contributions, a contribution
\* its recording and its runs.
Within(e) ==
    CASE e.kind = "journal_day" -> Targets
      [] e.kind = "contribution" -> {e, Audio(e.of), RawResponse(e.of)}
      [] OTHER -> {e}

-----------------------------------------------------------------------------
(* Only the proposed identity of a new day is compared with the ledger; an    *)
(* existing day is found by its date.                                         *)
EnsureDay == material[Day] # "gone"

CreateContribution(c) ==
    /\ EnsureDay
    /\ material[Contribution(c)] = "absent"
    /\ ~Tombstoned(Contribution(c))
    /\ material' = [e \in Targets |-> IF e \in Within(Contribution(c)) THEN "live"
                                      ELSE material[e]]
    /\ blobs' = blobs \cup {Audio(c), RawResponse(c)}
    /\ UNCHANGED <<tombstones, deletionGeneration, restoring, restores>>

\* A restore looks for a tombstone and only then locks the contribution.
AssertNotTombstoned(c) ==
    /\ material[Contribution(c)] = "deleted"
    /\ ~Tombstoned(Contribution(c))
    /\ restores < MaxRestores
    /\ restoring' = restoring \cup {c}
    /\ restores' = restores + 1
    /\ UNCHANGED <<material, tombstones, deletionGeneration, blobs>>

RestoreContribution(c) ==
    /\ c \in restoring
    /\ restoring' = restoring \ {c}
    /\ material' = IF material[Contribution(c)] = "deleted"
                   THEN [material EXCEPT ![Contribution(c)] = "live"] ELSE material
    /\ UNCHANGED <<tombstones, deletionGeneration, blobs, restores>>

\* The audio is restored under the lock of its recording.
RestoreAudio(c) ==
    /\ restores < MaxRestores
    /\ material[Audio(c)] = "deleted"
    /\ ~Tombstoned(Audio(c))
    /\ material' = [material EXCEPT ![Audio(c)] = "live"]
    /\ restores' = restores + 1
    /\ UNCHANGED <<tombstones, deletionGeneration, restoring, blobs>>

\* The owner's policy says how long a raw response is kept.
RawResponseExpires(c) ==
    /\ material[RawResponse(c)] = "live"
    /\ material' = [material EXCEPT ![RawResponse(c)] = "deleted"]
    /\ UNCHANGED <<tombstones, deletionGeneration, restoring, blobs, restores>>

MaterialInit ==
    /\ \E late \in SUBSET Late :
          /\ material = [e \in Targets |-> IF e.of \in late THEN "absent" ELSE "live"]
          /\ blobs = {e \in Audios \cup RawResponses : e.of \notin late}
    /\ tombstones = [e \in Targets |-> 0]
    /\ deletionGeneration = 0
    /\ restoring = {}
    /\ restores = 0

MaterialNext ==
    \E c \in Entries :
        \/ CreateContribution(c)
        \/ AssertNotTombstoned(c)
        \/ RestoreContribution(c)
        \/ RestoreAudio(c)
        \/ RawResponseExpires(c)
=============================================================================
