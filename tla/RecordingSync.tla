---------------------------- MODULE RecordingSync ----------------------------
(***************************************************************************)
(* One audio recording in the browser: the capture controller that commits *)
(* its units to IndexedDB, the synchronization of the saved recording with *)
(* the server in any number of concurrent activities (tabs, or a retry     *)
(* beside a resume), and the owner's moves of it to another journal day.   *)
(*                                                                         *)
(* The server is the contract of the recording routes.  A unit is its      *)
(* index; an assignment of a journal day is the number of the move that    *)
(* made it, because each move proposes an identifier of its own.           *)
(***************************************************************************)
EXTENDS Naturals, FiniteSets, FiniteSetsExt

CONSTANTS
    Syncs,         \* the activities that may synchronize the recording
    MaxUnits,      \* bound: units the recorder emits
    MaxMoves,      \* bound: moves to another day
    MaxLosses,     \* bound: lost requests, failed finalizations, aborted activities
    MaxBreaks      \* bound: recorder errors, refused writes and closed capture tabs

ASSUME SyncAssumption ==
    /\ MaxUnits \in Nat \ {0} /\ MaxMoves \in Nat
    /\ MaxLosses \in Nat /\ MaxBreaks \in Nat

VARIABLES
    row,         \* the LocalRecordingRecord in IndexedDB
    chunks,      \* the units stored in IndexedDB
    capture,     \* the capture controller and its copy of the row
    server,      \* the upload and the contribution on the server
    syncs,       \* the synchronization activities
    mover,       \* RecordingSyncController.move
    audio,       \* history: units ever committed, and one in writing when the capture failed
    events       \* counters of the bounded events, and the last move

syncVars == <<row, chunks, capture, server, syncs, mover, audio, events>>

NoRecording == [state |-> "none", next |-> 0, created |-> FALSE, persist |-> "none",
                safe |-> FALSE, err |-> FALSE, day |-> 0]
IdleSync == [pc |-> "idle", row |-> NoRecording, seen |-> "none", left |-> {},
             safe |-> FALSE]
IdleMove == [pc |-> "idle", row |-> NoRecording, day |-> 0]

SyncInit ==
    /\ row = NoRecording
    /\ chunks = {}
    /\ capture = [on |-> FALSE, accepting |-> FALSE, stopped |-> FALSE, broken |-> FALSE,
                  queue |-> 0, emitted |-> 0, write |-> "ready", row |-> NoRecording]
    /\ server = [state |-> "none", accepted |-> {}, request |-> 0, day |-> 0]
    /\ syncs = [s \in Syncs |-> IdleSync]
    /\ mover = IdleMove
    /\ audio = [committed |-> {}, late |-> {}]
    /\ events = [losses |-> 0, breaks |-> 0, moves |-> 0, moved |-> 0, raced |-> FALSE]

Units(r) == 0..(r.next - 1)
Happen(event, limit) ==
    /\ events[event] < limit
    /\ events' = [events EXCEPT ![event] = @ + 1]

-----------------------------------------------------------------------------
(* BrowserCaptureController                                                *)

\* start: the row is stored before the recorder starts.
StartCapture ==
    /\ row = NoRecording
    /\ ~capture.on
    /\ row' = [NoRecording EXCEPT !.state = "recording"]
    /\ capture' = [capture EXCEPT !.on = TRUE, !.accepting = TRUE, !.row = row']
    /\ UNCHANGED <<chunks, server, syncs, mover, audio, events>>

\* A timeslice; a blob that arrives after a failure is dropped.
Emit ==
    /\ capture.on /\ capture.accepting /\ ~capture.stopped
    /\ capture.emitted < MaxUnits
    /\ capture' = [capture EXCEPT !.emitted = @ + 1, !.queue = @ + 1]
    /\ UNCHANGED <<row, chunks, server, syncs, mover, audio, events>>

\* persistUnit encrypts the unit before its transaction.
BeginUnit ==
    /\ capture.on /\ capture.accepting
    /\ capture.write = "ready" /\ capture.queue > 0
    /\ capture' = [capture EXCEPT !.write = "protected", !.queue = @ - 1]
    /\ UNCHANGED <<row, chunks, server, syncs, mover, audio, events>>

\* commitRecordingChunk: the unit and the row as it is stored now, in one
\* transaction.
InOrder == capture.row.next = row.next
CommitUnit ==
    /\ capture.on /\ capture.write = "protected"
    /\ InOrder
    /\ chunks' = chunks \cup {row.next}
    /\ row' = [row EXCEPT !.next = @ + 1]
    /\ audio' = [audio EXCEPT !.committed = @ \cup {row.next}]
    /\ capture' = [capture EXCEPT !.write = "committed"]
    /\ UNCHANGED <<server, syncs, mover, events>>

\* The controller takes the returned row for its own; if storage is low it stops
\* at this checkpoint and accepts no more data.
UnitSaved(low) ==
    /\ capture.on /\ capture.write = "committed"
    /\ capture' = [capture EXCEPT !.write = "ready", !.row = row,
                                  !.accepting = @ /\ ~low, !.stopped = @ \/ low]
    /\ UNCHANGED <<row, chunks, server, syncs, mover, audio, events>>

\* failCapture stores the controller's own copy of the row, which a transaction
\* that has not returned yet does not show.
FailCapture(state, write) ==
    LET copy == [capture.row EXCEPT !.state = state, !.safe = (capture.row.next > 0)]
    IN /\ row' = copy
       /\ capture' = [capture EXCEPT !.accepting = FALSE, !.stopped = TRUE,
                                     !.broken = TRUE, !.row = copy, !.write = write]
       /\ audio' = IF capture.write = "ready" THEN audio
                   ELSE [audio EXCEPT !.late = @ \cup {capture.row.next}]

\* unitFailed: the browser refuses the write, or the indices disagree.
UnitFails ==
    /\ capture.on /\ capture.write = "protected"
    /\ \/ Happen("breaks", MaxBreaks) /\ FailCapture("browser_storage_exhausted", "ready")
       \/ ~InOrder /\ FailCapture("browser_storage_exhausted", "ready") /\ UNCHANGED events
    /\ UNCHANGED <<chunks, server, syncs, mover>>

RecorderError ==
    /\ capture.on
    /\ Happen("breaks", MaxBreaks)
    /\ FailCapture("failed", capture.write)
    /\ UNCHANGED <<chunks, server, syncs, mover>>

StopCapture ==
    /\ capture.on /\ ~capture.stopped
    /\ capture' = [capture EXCEPT !.stopped = TRUE]
    /\ UNCHANGED <<row, chunks, server, syncs, mover, audio, events>>

\* finishStoppedRecording, after the queue of writes: the row is stored as saved
\* unless the capture failed.
FinishCapture ==
    /\ capture.on /\ capture.stopped /\ capture.write = "ready"
    /\ capture.accepting => capture.queue = 0
    /\ row' = IF capture.broken THEN row ELSE [capture.row EXCEPT !.state = "saved_locally"]
    /\ capture' = [capture EXCEPT !.on = FALSE, !.accepting = FALSE, !.queue = 0]
    /\ UNCHANGED <<chunks, server, syncs, mover, audio, events>>

\* The page is closed or reloaded: IndexedDB stays as it is.
CloseCapture ==
    /\ capture.on
    /\ Happen("breaks", MaxBreaks)
    /\ capture' = [capture EXCEPT !.on = FALSE, !.accepting = FALSE, !.queue = 0,
                                  !.write = "ready"]
    /\ UNCHANGED <<row, chunks, server, syncs, mover, audio>>

-----------------------------------------------------------------------------
(* RecordingSyncController: one activity                                   *)

\* resumePending takes up these rows ...
Resumable(r) ==
    /\ \/ r.state \in {"saved_locally", "uploading"}
       \/ r.state = "failed" /\ r.err /\ r.safe
    /\ r.next > 0
\* ... and the card of a recording offers a retry for these, which retry refuses
\* for a failure that is not safe.
Retryable(r) ==
    /\ r.state \in {"failed", "browser_storage_exhausted"} \/ r.persist = "prepared"
    /\ r.safe \/ r.state = "browser_storage_exhausted" \/ r.persist = "prepared"
    /\ r.state = "failed" => r.safe

Goto(s, pc) == syncs' = [syncs EXCEPT ![s].pc = pc]
\* #save: the activity's own copy of the row replaces the stored one.
Store(s, copy, pc) ==
    /\ row' = copy
    /\ syncs' = [syncs EXCEPT ![s].row = copy, ![s].pc = pc]
    /\ UNCHANGED <<chunks, capture, server, mover, audio, events>>
FailSync(s, safe) == syncs' = [syncs EXCEPT ![s].pc = "failing", ![s].safe = safe]
Local(s) == UNCHANGED <<row, chunks, capture, server, mover, audio, events>>

Resume(s) ==
    /\ syncs[s].pc = "idle"
    /\ Resumable(row)
    /\ Goto(s, "start")
    /\ Local(s)

RetryRead(s) ==
    /\ syncs[s].pc = "idle"
    /\ Retryable(row)
    /\ syncs' = [syncs EXCEPT ![s].pc = "reset", ![s].row = row]
    /\ Local(s)

RetryReset(s) ==
    /\ syncs[s].pc = "reset"
    /\ Store(s, [syncs[s].row EXCEPT !.state = "saved_locally", !.safe = TRUE, !.err = FALSE],
             "start")

Read(s) ==
    /\ syncs[s].pc = "start"
    /\ syncs' = [syncs EXCEPT ![s].pc = "claim", ![s].row = row]
    /\ Local(s)

Claim(s) ==
    /\ syncs[s].pc = "claim"
    /\ Store(s, [syncs[s].row EXCEPT !.state = "uploading", !.safe = TRUE],
             IF syncs[s].row.created THEN "status" ELSE "create")

SaveCreated(s) ==
    /\ syncs[s].pc = "created"
    /\ Store(s, [syncs[s].row EXCEPT !.created = TRUE, !.persist = syncs[s].seen], "status")

AfterStatusLax(seen) == IF seen = "uploading" THEN "prepare" ELSE "confirm"
AfterStatus(seen) ==
    CASE seen = "durable" -> "confirm"
      [] seen = "prepared" -> "publish"
      [] seen = "uploading" -> "prepare"

SaveStatus(s) ==
    /\ syncs[s].pc = "seen"
    /\ Store(s, [syncs[s].row EXCEPT !.created = TRUE, !.persist = syncs[s].seen],
             AfterStatus(syncs[s].seen))

\* prepareUpload reads every unit the copy counts; finalizing a WebM may fail.
Prepare(s) ==
    /\ syncs[s].pc = "prepare"
    /\ \/ /\ Units(syncs[s].row) \subseteq chunks
          /\ Goto(s, "upload")
          /\ UNCHANGED events
       \/ /\ ~(Units(syncs[s].row) \subseteq chunks)
          /\ FailSync(s, FALSE)
          /\ UNCHANGED events
       \/ /\ \E safe \in BOOLEAN : FailSync(s, safe)
          /\ Happen("losses", MaxLosses)
    /\ UNCHANGED <<row, chunks, capture, server, mover, audio>>

SaveProgress(s) == syncs[s].pc = "uploaded" /\ Store(s, syncs[s].row, "upload")

SaveFailure(s) ==
    /\ syncs[s].pc = "failing"
    /\ Store(s, [syncs[s].row EXCEPT !.state = "failed", !.safe = syncs[s].safe,
                                     !.err = TRUE], "idle")

\* confirmRecordingDurable: in one transaction the stored row is settled and
\* every unit of the recording deleted, those that came after the activity read
\* the row included.
Confirm(s) ==
    /\ syncs[s].pc = "confirm"
    /\ row' = [row EXCEPT !.state = "transcription_pending", !.created = TRUE,
                          !.persist = "durable", !.safe = FALSE, !.err = FALSE]
    /\ chunks' = {}
    /\ Goto(s, "idle")
    /\ UNCHANGED <<capture, server, mover, audio, events>>

-----------------------------------------------------------------------------
(* Its calls of the server.  Every call has an idempotency key that names  *)
(* the recording, so the same key with another request is a conflict.      *)

NextUnit(s) == Min(syncs[s].left)
AllAccepted(s) == server.accepted = Units(syncs[s].row)

\* What the server does, the answer's next step, and whether it is refused.
Served(s) ==
    CASE syncs[s].pc = "create" ->
           IF server.state = "none"
           THEN [server EXCEPT !.state = "uploading", !.request = syncs[s].row.day,
                               !.day = syncs[s].row.day]
           ELSE server
      [] syncs[s].pc = "status" -> server
      [] syncs[s].pc = "upload" /\ syncs[s].left # {} ->
           IF server.state = "uploading"
           THEN [server EXCEPT !.accepted = @ \cup {NextUnit(s)}]
           ELSE server
      [] syncs[s].pc = "upload" /\ syncs[s].left = {} ->
           IF server.state = "uploading" /\ AllAccepted(s)
           THEN [server EXCEPT !.state = "prepared"]
           ELSE server
      [] syncs[s].pc = "publish" ->
           IF server.state = "prepared" THEN [server EXCEPT !.state = "durable"]
           ELSE server

Refused(s) ==
    CASE syncs[s].pc = "create" ->
           server.state # "none" /\ server.request # syncs[s].row.day
      [] syncs[s].pc = "status" -> server.state = "none"
      [] syncs[s].pc = "upload" /\ syncs[s].left # {} ->
           server.state # "uploading" /\ NextUnit(s) \notin server.accepted
      [] syncs[s].pc = "upload" /\ syncs[s].left = {} -> ~AllAccepted(s)
      [] syncs[s].pc = "publish" -> FALSE

\* retryInformation: an answer that refuses the request is no reason to repeat it;
\* a lost one is.
EverySafe(refused) == TRUE
SafeToRetry(refused) == ~refused

Calls == {"create", "status", "upload", "publish"}

\* finalize prepares the manifest and publishes it in the same request, which is
\* the step "publish" of retryFinalization as well.
Answered(s) ==
    LET call == syncs[s]
        next == CASE call.pc = "create" -> "created"
                  [] call.pc = "status" -> "seen"
                  [] call.pc = "upload" -> IF call.left = {} THEN "publish" ELSE "uploaded"
                  [] call.pc = "publish" -> "confirm"
    IN syncs' = [syncs EXCEPT
           ![s].pc = next,
           ![s].seen = IF call.pc \in {"create", "status"} THEN server'.state ELSE @,
           ![s].left = CASE call.pc = "status" -> Units(call.row) \ server.accepted
                         [] call.pc = "upload" /\ call.left # {} -> @ \ {NextUnit(s)}
                         [] OTHER -> @]

Call(s) ==
    /\ syncs[s].pc \in Calls
    /\ server' = Served(s)
    /\ IF Refused(s) THEN FailSync(s, SafeToRetry(TRUE)) ELSE Answered(s)
    /\ UNCHANGED <<row, chunks, capture, mover, audio, events>>

\* A request or its answer is lost, or the server cannot serve it.
LoseCall(s) ==
    /\ syncs[s].pc \in Calls
    /\ Happen("losses", MaxLosses)
    /\ server' \in {server, Served(s)}
    /\ FailSync(s, SafeToRetry(FALSE))
    /\ UNCHANGED <<row, chunks, capture, mover, audio>>

\* cancel, clearSession, or the tab is closed: nothing is saved, and a request
\* under way may still be served.
Abort(s) ==
    /\ syncs[s].pc # "idle"
    /\ Happen("losses", MaxLosses)
    /\ server' \in IF syncs[s].pc \in Calls THEN {server, Served(s)} ELSE {server}
    /\ syncs' = [syncs EXCEPT ![s] = IdleSync]
    /\ UNCHANGED <<row, chunks, capture, mover, audio>>

-----------------------------------------------------------------------------
(* RecordingSyncController.move                                            *)

MoveRead ==
    /\ mover.pc = "idle"
    /\ row.state \notin {"none", "recording", "uploading"}
    /\ Happen("moves", MaxMoves)
    /\ mover' = [pc |-> IF row.created THEN "call" ELSE "put", row |-> row,
                 day |-> events.moves + 1]
    /\ UNCHANGED <<row, chunks, capture, server, syncs, audio>>

MoveCall ==
    /\ mover.pc = "call"
    /\ server' = [server EXCEPT !.day = mover.day]
    /\ mover' = [mover EXCEPT !.pc = "put"]
    /\ UNCHANGED <<row, chunks, capture, syncs, audio, events>>

\* A move that met a synchronization, or a capture that has failed and not ended
\* yet, is one of two writers of the whole row.
MovePut ==
    /\ mover.pc = "put"
    /\ row' = [mover.row EXCEPT !.day = mover.day]
    /\ mover' = IdleMove
    /\ events' = [events EXCEPT !.moved = mover.day,
                                !.raced = @ \/ capture.on
                                            \/ \E s \in Syncs : syncs[s].pc # "idle"]
    /\ UNCHANGED <<chunks, capture, server, syncs, audio>>

SyncStep(s) ==
    \/ RetryReset(s) \/ Read(s) \/ Claim(s) \/ Call(s) \/ SaveCreated(s) \/ SaveStatus(s)
    \/ Prepare(s) \/ SaveProgress(s) \/ SaveFailure(s) \/ Confirm(s)
CaptureStep ==
    \/ BeginUnit \/ CommitUnit \/ (\E low \in BOOLEAN : UnitSaved(low)) \/ FinishCapture

SyncNext ==
    \/ StartCapture \/ Emit \/ UnitFails \/ RecorderError \/ StopCapture
    \/ CaptureStep \/ CloseCapture
    \/ \E s \in Syncs :
         Resume(s) \/ RetryRead(s) \/ SyncStep(s) \/ LoseCall(s) \/ Abort(s)
    \/ MoveRead \/ MoveCall \/ MovePut

SyncSpec == SyncInit /\ [][SyncNext]_syncVars

\* Writes and requests end; the application resumes its offline work whenever it
\* becomes visible or online.
SyncFairness(open) ==
    /\ WF_syncVars(CaptureStep)
    /\ \A s \in open : WF_syncVars(SyncStep(s)) /\ WF_syncVars(Resume(s))

-----------------------------------------------------------------------------
(* Properties                                                              *)

Quiet == mover.pc = "idle" /\ \A s \in Syncs : syncs[s].pc = "idle"

\* Whatever is lost, closed or refused, and however activities overlap, a unit
\* the browser has called saved stays in IndexedDB until it is part of durable
\* audio on the server.  Not among them is a unit that was still being written
\* when the recorder failed: the failure stores a row that does not count it.
AudioKept ==
    \A u \in audio.committed \ audio.late :
        u \in chunks \/ (server.state = "durable" /\ u \in server.accepted)

\* The server files a durable recording under the day the owner last chose,
\* unless that choice was made while a synchronization was under way or a failed
\* capture had not ended.
MoveStands ==
    row.state = "transcription_pending" /\ Quiet /\ ~events.raced =>
        server.day \in {events.moved} \cup (events.moved + 1)..events.moves

RecordingKept == AudioKept /\ MoveStands

\* Saved audio does not wait for its upload for ever: it becomes durable, or its
\* failure is one the owner has to decide on.
SyncConcludes == []<>~Resumable(row)
=============================================================================
