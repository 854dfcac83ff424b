--------------------------- MODULE WriteOnceAudio ----------------------------
(***************************************************************************)
(* What the upload of a recording promises: the owner's first manifest is  *)
(* binding, the bytes stored for it are exactly the bytes it describes and *)
(* are never replaced, and the recording is confirmed only while they are  *)
(* stored.  Only condemned audio is ever erased.                           *)
(***************************************************************************)
CONSTANTS
    Audio,    \* the bytes the owner's manifests may describe
    Nothing   \* no bytes

VARIABLES
    agreed,     \* the bytes the binding manifest describes
    stored,     \* the immutable bytes
    confirmed,  \* the owner has been told that the audio is safe
    condemned   \* permanent deletion was requested

audio == <<agreed, stored, confirmed, condemned>>

AudioInit ==
    /\ agreed = Nothing
    /\ stored = Nothing
    /\ confirmed = FALSE
    /\ condemned = FALSE

Agree ==
    /\ agreed = Nothing
    /\ agreed' \in Audio
    /\ UNCHANGED <<stored, confirmed, condemned>>

Store ==
    /\ agreed # Nothing
    /\ stored = Nothing
    /\ ~confirmed \/ condemned
    /\ stored' = agreed
    /\ UNCHANGED <<agreed, confirmed, condemned>>

Confirm ==
    /\ agreed # Nothing
    /\ stored = agreed
    /\ confirmed' = TRUE
    /\ UNCHANGED <<agreed, stored, condemned>>

Condemn ==
    /\ confirmed
    /\ condemned' = TRUE
    /\ UNCHANGED <<agreed, stored, confirmed>>

Erase ==
    /\ condemned
    /\ stored' = Nothing
    /\ UNCHANGED <<agreed, confirmed, condemned>>

AudioNext == Agree \/ Store \/ Confirm \/ Condemn \/ Erase

AudioSpec == AudioInit /\ [][AudioNext]_audio
=============================================================================
