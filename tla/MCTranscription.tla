-------------------------- MODULE MCTranscription ---------------------------
(* Small instances of Transcription for TLC.                               *)
EXTENDS Transcription, TLC

Symmetry == Permutations(Workers) \cup Permutations(RetryKeys)
=============================================================================
