----------------------------- MODULE MCDeletion -----------------------------
(* Small instances, for TLC, of what keeps, exports, deletes, backs up and    *)
(* restores the owner's material.                                             *)
(*                                                                            *)
(* The scene is chosen in the initial state and never changes: exports and    *)
(* purges without a backup, purges and backups without exports, or two workers*)
(* of the purges alone.                                                       *)
EXTENDS BackupRepository, TLC

CONSTANT Scenes   \* the scenes of this run

VARIABLE scene

\* Workers are alike, and only invariants are checked.
Alike == Permutations(Purgers)

deletionSceneVars == <<backupVars, deletionVars, exportVars, materialVars, scene>>

DeletionSceneInit ==
    /\ RetentionInit
    /\ scene \in Scenes
    /\ backupConfigured = (scene = "backups")

DeletionSceneNext ==
    /\ UNCHANGED scene
    /\ RetentionNext
    /\ scene # "exports" => UNCHANGED snapshot
    /\ scene # "backups" => UNCHANGED backupVars
    /\ scene = "exports" => restores' = 0 /\ failures' = 0
    /\ scene # "workers" =>
          \A v, w \in Purgers : purger'[v] # None /\ purger'[w] # None => v = w

DeletionSpec == DeletionSceneInit /\ [][DeletionSceneNext]_deletionSceneVars
=============================================================================
