------------------------- MODULE MCProcessorRuntime -------------------------
(* Small instances of ProcessorRuntime for TLC.                            *)
(*                                                                         *)
(* One run explores several scenes, one after the other: the scene is      *)
(* chosen in the initial state and never changes, and what does not belong *)
(* to it does not happen.                                                  *)
EXTENDS ProcessorRuntime, TLC

CONSTANTS
    extractor, observer, interpreter, reflector,
    Scenes   \* the scenes of this run

VARIABLE scene

\* The interpreter reads the results of the extractor.
ChainUpstream ==
    [p \in Processors |-> IF p = interpreter THEN {extractor} ELSE {}]

\* The processors a batch of the scene may select.
Selectable ==
    [delivery |-> {{reflector}},
     lineage |-> {{extractor, observer}},
     serial |-> {{extractor}, {interpreter}},
     retry |-> {{reflector}},
     alone |-> {{reflector}},
     chain |-> {{extractor}}]
AllSelections == (SUBSET Processors) \cap UNION {Selectable[s] : s \in DOMAIN Selectable}

Symmetry == Permutations(Workers)

OneBusy == Cardinality({w \in Workers : workers[w] # Idle}) < 2

\* What a step of the scene may lead to.
InScene ==
    /\ Ordering => DOMAIN order \in Selectable[scene]
    /\ CASE scene = "delivery" -> edits < 2 /\ crashes + stalls < 2
         [] scene = "lineage" ->
              /\ OneBusy
              /\ edits < 2 /\ deletes = 0 /\ crashes = 0 /\ stalls = 0
              /\ \A i \in Attempts : jobs[i].retries = 0 /\ runs[i].error # "final"
         [] scene = "serial" ->
              /\ deletes = 0 /\ crashes = 0 /\ stalls = 0
              /\ \A i \in Attempts : jobs[i].retries = 0 /\ runs[i].error # "final"
         [] scene = "retry" -> crashes = 0 /\ stalls = 0
         [] scene = "alone" -> crashes = 0
         [] scene = "chain" ->
              /\ deletes = 0 /\ crashes = 0
              /\ OneBusy

\* In these scenes nothing else happens between the two halves of an edit or of
\* a batch.
Undisturbed ==
    \/ scene \notin {"serial", "retry"}
    \/ /\ edit.open => ~edit'.open
       /\ Ordering => order' = NoOrder

SceneInit == Init /\ scene \in Scenes
SceneNext == Next /\ UNCHANGED scene /\ InScene' /\ Undisturbed
SceneSpec == SceneInit /\ [][SceneNext]_<<vars, scene>>
FairSceneSpec == SceneSpec /\ Fairness

\* "All" half of targeted invalidation, in the scene it is promised for.
OutdatedIsStaleWhenSerial == scene = "serial" => OutdatedIsStale
=============================================================================
