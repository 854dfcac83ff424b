------------------------------- MODULE MCOwner -------------------------------
(* Small instances, for TLC, of the components that hold what the owner has  *)
(* decided.                                                                  *)
(*                                                                           *)
(* The scene is chosen in the initial state and never changes; only the      *)
(* component it is about takes steps.                                        *)
EXTENDS ArtifactAuthority, FeedbackMemory, OwnerSessions, OwnerSettings, ProcessorCatalog,
        RequirementNudges, TranscriptCleanup

CONSTANT Scenes   \* the scenes of this run

VARIABLE scene

MCProposals ==
    {[text |-> "x", pinned |-> "no"], [text |-> "y", pinned |-> "no"]}

MCWords ==
    {[field |-> "pinned", value |-> "yes"], [field |-> "text", value |-> "mine"]}

MCContents ==
    {[text |-> "name", type |-> "transcription", length |-> 1],
     [text |-> "alias", type |-> "transcription", length |-> 2],
     [text |-> "rule", type |-> "processor_rule", length |-> 1]}

MCDrafts ==
    {[id |-> "v1", label |-> 3, needs |-> {"legacy"}],
     [id |-> "v2", label |-> 3, needs |-> {"v1"}],
     [id |-> "v3", label |-> 4, needs |-> {}]}

ownerVars == <<artifactVars, memoryVars, sessionVars, settingsVars, catalogVars, nudgeVars,
               cleanupVars, scene>>

OwnerInit ==
    /\ ArtifactInit
    /\ MemoryInit
    /\ SessionInit
    /\ SettingsInit
    /\ CatalogInit
    /\ NudgeInit
    /\ CleanupInit
    /\ scene \in Scenes

OwnerNext ==
    \/ /\ scene = "artifacts"
       /\ ArtifactNext
       /\ UNCHANGED <<memoryVars, sessionVars, settingsVars, catalogVars, nudgeVars, cleanupVars, scene>>
    \/ /\ scene = "memories"
       /\ MemoryNext
       /\ UNCHANGED <<artifactVars, sessionVars, settingsVars, catalogVars, nudgeVars, cleanupVars, scene>>
    \/ /\ scene = "sessions"
       /\ SessionNext
       /\ UNCHANGED <<artifactVars, memoryVars, settingsVars, catalogVars, nudgeVars, cleanupVars, scene>>
    \/ /\ scene = "settings"
       /\ SettingsNext
       /\ UNCHANGED <<artifactVars, memoryVars, sessionVars, catalogVars, nudgeVars, cleanupVars, scene>>
    \/ /\ scene = "catalog"
       /\ CatalogNext
       /\ UNCHANGED <<artifactVars, memoryVars, sessionVars, settingsVars, nudgeVars, cleanupVars, scene>>
    \/ /\ scene = "nudges"
       /\ NudgeNext
       /\ UNCHANGED <<artifactVars, memoryVars, sessionVars, settingsVars, catalogVars, cleanupVars, scene>>
    \/ /\ scene = "corrections"
       /\ CleanupNext
       /\ UNCHANGED <<artifactVars, memoryVars, sessionVars, settingsVars, catalogVars, nudgeVars, scene>>

OwnerSpec == OwnerInit /\ [][OwnerNext]_ownerVars
=============================================================================
