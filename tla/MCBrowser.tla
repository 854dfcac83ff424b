------------------------------ MODULE MCBrowser ------------------------------
(* Small instances of the browser's components for TLC.                    *)
(*                                                                         *)
(* The scene is chosen in the initial state and never changes; only the    *)
(* component it is about takes steps, and what does not belong to the      *)
(* scene does not happen.                                                  *)
EXTENDS JournalOutbox, RecordingSync, TLC

CONSTANTS
    t1, t2, s1, s2,
    Scenes   \* the scenes of this run

VARIABLE scene

OutboxScenes == {"one tab", "two tabs"}

OutboxScene ==
    CASE scene = "one tab" -> tabs[t2] = Resting
      [] scene = "two tabs" -> spent.remote + spent.deletions + spent.faults <= 2

\* The owner stops the recorder after its last unit.
Uneventful(units) ==
    /\ events.breaks = 0
    /\ capture.emitted <= units
    /\ capture.stopped => capture.emitted = units

RecordingScene ==
    CASE scene = "capture" -> syncs[s2].pc = "idle" /\ events.moves = 0
      [] scene = "pair" -> Uneventful(MaxUnits) /\ events.moves = 0
      [] scene = "move" -> Uneventful(1) /\ syncs[s2].pc = "idle"

BrowserInit == OutboxInit /\ SyncInit /\ scene \in Scenes

BrowserNext ==
    \/ /\ scene \in OutboxScenes
       /\ OutboxNext
       /\ UNCHANGED <<syncVars, scene>>
       /\ OutboxScene'
    \/ /\ scene \notin OutboxScenes
       /\ SyncNext
       /\ UNCHANGED <<outboxVars, scene>>
       /\ RecordingScene'

BrowserSpec == BrowserInit /\ [][BrowserNext]_<<outboxVars, syncVars, scene>>

FairBrowserSpec ==
    /\ BrowserSpec
    /\ OutboxFairness({t1})
    /\ SyncFairness({s1})
    /\ WF_syncVars(scene = "pair" /\ SyncStep(s2))

\* Nothing the owner wrote or recorded is lost, however many tabs, losses and
\* faults it takes to send it: every capture waits, was accepted, is kept as a
\* draft or was discarded by the owner, and audio that was saved is on the device
\* until the server has it.
CapturesKept == NothingLost /\ RecordingKept

\* Both queues drain.  With two tabs the conflict of a record that one of them has
\* already settled may be asked about for ever.
QueuesDrain == (scene = "one tab" => OutboxDrains) /\ SyncConcludes
=============================================================================
