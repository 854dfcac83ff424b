-------------------------- MODULE MCRecordingUpload --------------------------
(* Small instances of RecordingUpload for TLC.                             *)
EXTENDS RecordingUpload

CONSTANTS c1, c2, a, b

Manifest(chunkList, audio) == [chunks |-> chunkList, audio |-> audio]

\* Manifests that compete for the same chunks, one with a wrong digest of the
\* complete audio.
CompetingManifests ==
    {Manifest(<<a>>, <<a>>), Manifest(<<a, b>>, <<a, b>>), Manifest(<<a>>, <<b>>)}

OneManifest == {Manifest(<<a>>, <<a>>)}
=============================================================================
