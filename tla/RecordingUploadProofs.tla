------------------------ MODULE RecordingUploadProofs ------------------------
(***************************************************************************)
(* Proofs about RecordingUpload, for any set of clients, chunk contents,   *)
(* manifests and keys.  The inductive invariant Inv adds to the checked    *)
(* invariants what a request in flight may rely on: from the moment it     *)
(* reads a prepared row, its manifest is the bound one, the bytes it has   *)
(* assembled are the bound ones, and the object it is about to confirm     *)
(* exists unless permanent deletion has been committed.                    *)
(***************************************************************************)
EXTENDS RecordingUpload, SequenceTheorems, TLAPS

-----------------------------------------------------------------------------
(* The inductive invariant                                                 *)

\* A manifest is bound exactly from preparation on.
BoundInv == row.bound # Missing <=> row.state \in {"prepared", "durable"}

\* Whatever is stored is what the bound manifest describes.
StoredInv == blob # Missing => row.bound # Missing /\ blob = row.bound.audio

\* Only durable audio is deleted or purged.
DeletionInv ==
    row.audioDeleted \/ purge.state # "none" => row.state = "durable"

\* What a request may rely on.
Publishing == {"read", "stat", "assemble", "link", "confirm", "schedule"}

RequestInv(r) ==
    /\ r.pc \in {"stage", "record"} => r.index \in Indexes /\ r.content \in Contents
    /\ r.pc = "record" => staged[r.index] = r.content
    /\ r.pc = "prepare" => r.manifest \in Manifests
    /\ r.pc \in Publishing => row.bound # Missing /\ r.manifest = row.bound
    /\ r.pc \in {"link", "confirm"} => r.audio = row.bound.audio
    /\ r.pc = "confirm" => blob = row.bound.audio \/ Tombstone
    /\ r.pc = "schedule" => row.state = "durable"

RequestsInv == \A c \in Clients : RequestInv(requests[c])

\* Every accepted chunk is staged.
StagedInv == \A i \in Indexes : chunks[i] # Missing => staged[i] = chunks[i]

Inv ==
    /\ TypeOK
    /\ BoundInv
    /\ StoredInv
    /\ DeletionInv
    /\ RequestsInv
    /\ StagedInv
    /\ DurableAudioIntact
    /\ AcknowledgedIsDurable
    /\ DurableIsScheduledOnce
    /\ BoundChunksKept

-----------------------------------------------------------------------------
LEMMA IdleRequest == Idle \in Request /\ Idle.pc = "idle"
  BY DEF Idle, Request, Step

LEMMA BoundManifest ==
  ASSUME TypeOK, row.bound # Missing
  PROVE  /\ row.bound \in Manifests
         /\ row.bound.audio \in Seq(Contents)
         /\ row.bound.audio # Missing
  BY ManifestsAssumption, MissingAssumption DEF TypeOK, Row

LEMMA InvInit == Init => Inv
<1> SUFFICES ASSUME Init PROVE Inv
  OBVIOUS
<1>1. TypeOK
  BY IdleRequest, BoundsAssumption
  DEF Init, TypeOK, Row, Purge, Indexes, Objects
<1>2. RequestsInv
  BY IdleRequest DEF Init, RequestsInv, RequestInv, Publishing
<1>3. QED
  BY <1>1, <1>2
  DEF Init, Inv, BoundInv, StoredInv, DeletionInv, StagedInv, DurableAudioIntact,
      AcknowledgedIsDurable, DurableIsScheduledOnce, BoundChunksKept

-----------------------------------------------------------------------------
(* Types                                                                   *)

RequestsTyped == requests \in [Clients -> Request]

\* A request keeps its type when it moves on, ends or begins.
LEMMA RequestWritten ==
  ASSUME RequestsTyped, NEW c \in Clients
  PROVE  /\ \A r \in Request :
              requests' = [requests EXCEPT ![c] = r] => RequestsTyped'
         /\ \A pc \in Step : Goto(c, pc) => RequestsTyped'
         /\ Respond(c) => RequestsTyped'
<1>1. ASSUME NEW r \in Request, requests' = [requests EXCEPT ![c] = r]
      PROVE  RequestsTyped'
  BY <1>1 DEF RequestsTyped
<1>2. ASSUME NEW pc \in Step, Goto(c, pc) PROVE RequestsTyped'
  <2>1. [requests[c] EXCEPT !.pc = pc] \in Request
    BY DEF RequestsTyped, Request
  <2>2. requests' = [requests EXCEPT ![c] = [requests[c] EXCEPT !.pc = pc]]
    BY <1>2 DEF Goto
  <2>3. QED
    BY <1>1, <2>1, <2>2
<1>3. Respond(c) => RequestsTyped'
  BY <1>1, IdleRequest DEF Respond
<1>4. QED
  BY <1>1, <1>2, <1>3

LEMMA BegunRequests ==
  /\ \A i \in Indexes, x \in Contents :
       [Idle EXCEPT !.pc = "stage", !.index = i, !.content = x] \in Request
  /\ \A m \in Manifests : /\ [Idle EXCEPT !.pc = "prepare", !.manifest = m] \in Request
                           /\ [Idle EXCEPT !.pc = "read", !.manifest = m] \in Request
  BY IdleRequest DEF Request, Step, Idle

\* The rest of the state, as one predicate.
RestTyped ==
    /\ row \in Row
    /\ chunks \in [Indexes -> Contents \cup {Missing}]
    /\ staged \in [Indexes -> Contents \cup {Missing}]
    /\ blob \in Seq(Contents) \cup {Missing}
    /\ acked \subseteq Manifests
    /\ keys \in [deletion : SUBSET AudioKeys, restoration : SUBSET AudioKeys]
    /\ purge \in Purge
    /\ aborts \in 0..MaxAborts

LEMMA TypeParts == TypeOK <=> RequestsTyped /\ RestTyped
  BY DEF TypeOK, RequestsTyped, RestTyped

\* What a row may become.
LEMMA RowWritten ==
  ASSUME row \in Row
  PROVE  /\ [row EXCEPT !.state = "uploading"] \in Row
         /\ \A m \in Manifests : [row EXCEPT !.state = "prepared", !.bound = m] \in Row
         /\ [row EXCEPT !.state = "durable",
                        !.scheduled = ScheduleFirst(row.scheduled)] \in Row
         /\ [row EXCEPT !.scheduled = 1] \in Row
         /\ \A b \in BOOLEAN : [row EXCEPT !.audioDeleted = b] \in Row
<1>1. ScheduleFirst(row.scheduled) \in 0..1
  BY DEF Row, ScheduleFirst
<1>2. [row EXCEPT !.state = "durable",
                  !.scheduled = ScheduleFirst(row.scheduled)] \in Row
  BY <1>1 DEF Row
<1>3. \A b \in BOOLEAN : [row EXCEPT !.audioDeleted = b] \in Row
  BY DEF Row
<1>4. \A m \in Manifests : [row EXCEPT !.state = "prepared", !.bound = m] \in Row
  BY DEF Row
<1>5. [row EXCEPT !.state = "uploading"] \in Row /\ [row EXCEPT !.scheduled = 1] \in Row
  BY DEF Row
<1>6. QED
  BY <1>2, <1>3, <1>4, <1>5

LEMMA TypeStep == Inv /\ [Next]_vars => TypeOK'
<1> SUFFICES ASSUME Inv, [Next]_vars PROVE RequestsTyped' /\ RestTyped'
  BY DEF TypeOK, RequestsTyped, RestTyped
<1>0. TypeOK /\ RequestsTyped /\ RestTyped /\ RequestsInv
  BY TypeParts DEF Inv
<1>1. CASE Create
  BY <1>0, <1>1, RowWritten DEF RequestsTyped, RestTyped, Create, storage
<1>2. ASSUME NEW c \in Clients, ClientStep(c) PROVE RequestsTyped' /\ RestTyped'
  <2>1. CASE BeginUpload(c)
    <3>1. RequestsTyped'
      BY <1>0, <2>1, RequestWritten, BegunRequests DEF BeginUpload, Begin
    <3>2. RestTyped'
      BY <1>0, <2>1 DEF RestTyped, BeginUpload, storage
    <3>3. QED
      BY <3>1, <3>2
  <2>2. CASE BeginFinalize(c)
    <3>1. RequestsTyped'
      BY <1>0, <2>2, RequestWritten, BegunRequests DEF BeginFinalize, Begin
    <3>2. RestTyped'
      BY <1>0, <2>2 DEF RestTyped, BeginFinalize, storage
    <3>3. QED
      BY <3>1, <3>2
  <2>3. CASE BeginRetry(c)
    <3>1. RequestsTyped'
      BY <1>0, <2>3, RequestWritten, BegunRequests, BoundManifest DEF BeginRetry, Begin
    <3>2. RestTyped'
      BY <1>0, <2>3 DEF RestTyped, BeginRetry, storage
    <3>3. QED
      BY <3>1, <3>2
  <2>4. CASE Abort(c)
    <3>1. RequestsTyped'
      BY <1>0, <2>4, RequestWritten DEF Abort
    <3>2. RestTyped'
      BY <1>0, <2>4, BoundsAssumption DEF RestTyped, Abort, storage
    <3>3. QED
      BY <3>1, <3>2
  <2>5. QED
    BY <1>2, <2>1, <2>2, <2>3, <2>4 DEF ClientStep
<1>3. ASSUME NEW c \in Clients, RequestStep(c) PROVE RequestsTyped' /\ RestTyped'
  <2>0. RequestInv(requests[c]) /\ requests[c] \in Request
    BY <1>0 DEF RequestsInv, RequestsTyped
  <2>1. CASE StageChunk(c)
    <3>1. RequestsTyped'
      BY <1>0, <2>1, RequestWritten DEF StageChunk, Step
    <3>2. requests[c].index \in Indexes /\ requests[c].content \in Contents
      BY <2>0, <2>1 DEF StageChunk, RequestInv
    <3>3. staged' \in [Indexes -> Contents \cup {Missing}]
      BY <1>0, <2>1, <3>2 DEF StageChunk, RestTyped
    <3>4. QED
      BY <1>0, <2>1, <3>1, <3>3 DEF StageChunk, RestTyped
  <2>2. CASE RecordChunk(c)
    <3>1. RequestsTyped'
      BY <1>0, <2>2, RequestWritten DEF RecordChunk
    <3>2. requests[c].index \in Indexes /\ requests[c].content \in Contents
      BY <2>0, <2>2 DEF RecordChunk, RequestInv
    <3>3. chunks' \in [Indexes -> Contents \cup {Missing}]
      BY <1>0, <2>2, <3>2 DEF RecordChunk, RestTyped
    <3>4. QED
      BY <1>0, <2>2, <3>1, <3>3 DEF RecordChunk, RestTyped
  <2>3. CASE Prepare(c)
    <3>1. RequestsTyped'
      BY <1>0, <2>3, RequestWritten DEF Prepare, Step
    <3>2. row' \in Row
      BY <1>0, <2>0, <2>3, RowWritten DEF Prepare, RequestInv, RestTyped
    <3>3. QED
      BY <1>0, <2>3, <3>1, <3>2 DEF Prepare, RestTyped, storage
  <2>4. CASE ReadRecording(c)
    <3>1. RequestsTyped'
      BY <1>0, <2>4, RequestWritten DEF ReadRecording, Step
    <3>2. QED
      BY <1>0, <2>4, <3>1 DEF ReadRecording, RestTyped, storage
  <2>5. CASE StatBlob(c)
    <3>1. [requests[c] EXCEPT !.pc = "confirm", !.audio = blob] \in Request
      BY <1>0, <2>0 DEF Request, Step, RestTyped
    <3>2. RequestsTyped'
      BY <1>0, <2>5, <3>1, RequestWritten DEF StatBlob, Step
    <3>3. QED
      BY <1>0, <2>5, <3>2 DEF StatBlob, RestTyped, storage
  <2>6. CASE Assemble(c)
    <3>1. RequestsTyped'
      <4>1. CASE ExpectedBytes(Assembled, row.bound)
        <5>1. Assembled \in Seq(Contents)
          BY <1>0, <2>0, <2>6, <4>1, BoundManifest
          DEF ExpectedBytes, Assemble, RequestInv, Publishing
        <5>2. [requests[c] EXCEPT !.pc = "link", !.audio = Assembled] \in Request
          BY <2>0, <5>1 DEF Request, Step
        <5>3. QED
          BY <1>0, <2>6, <5>2, RequestWritten DEF Assemble
      <4>2. CASE ~ExpectedBytes(Assembled, row.bound)
        BY <1>0, <2>6, <4>2, RequestWritten DEF Assemble
      <4>3. QED
        BY <4>1, <4>2
    <3>2. QED
      BY <1>0, <2>6, <3>1 DEF Assemble, RestTyped, storage
  <2>7. CASE LinkBlob(c)
    <3>1. RequestsTyped'
      BY <1>0, <2>7, RequestWritten DEF LinkBlob, Step
    <3>2. blob' \in Seq(Contents) \cup {Missing}
      BY <1>0, <2>0, <2>7 DEF LinkBlob, RestTyped, Request
    <3>3. QED
      BY <1>0, <2>7, <3>1, <3>2 DEF LinkBlob, RestTyped
  <2>8. CASE Confirm(c)
    <3>1. RequestsTyped'
      BY <1>0, <2>8, RequestWritten DEF Confirm, Acknowledge
    <3>2. requests[c].manifest \in Manifests
      BY <1>0, <2>0, <2>8, BoundManifest DEF Confirm, RequestInv, Publishing
    <3>3. row' \in Row
      BY <1>0, <2>8, RowWritten DEF Confirm, RestTyped
    <3>4. acked' \subseteq Manifests
      BY <1>0, <2>8, <3>2 DEF Confirm, Acknowledge, RestTyped
    <3>5. QED
      BY <1>0, <2>8, <3>1, <3>3, <3>4 DEF Confirm, RestTyped, storage
  <2>9. CASE Schedule(c)
    <3>1. RequestsTyped'
      BY <1>0, <2>9, RequestWritten DEF Schedule, Acknowledge
    <3>2. requests[c].manifest \in Manifests
      BY <1>0, <2>0, <2>9, BoundManifest DEF Schedule, RequestInv, Publishing
    <3>3. row' \in Row
      BY <1>0, <2>9, RowWritten DEF Schedule, RestTyped
    <3>4. acked' \subseteq Manifests
      BY <1>0, <2>9, <3>2 DEF Schedule, Acknowledge, RestTyped
    <3>5. QED
      BY <1>0, <2>9, <3>1, <3>3, <3>4 DEF Schedule, RestTyped, storage
  <2>10. QED
    BY <1>3, <2>1, <2>2, <2>3, <2>4, <2>5, <2>6, <2>7, <2>8, <2>9 DEF RequestStep
<1>4. CASE OwnerStep
  <2>1. PICK k \in AudioKeys : DeleteAudio(k) \/ RestoreAudio(k)
    BY <1>4 DEF OwnerStep
  <2>2. row' \in Row
    BY <1>0, <2>1, RowWritten DEF RestTyped, DeleteAudio, RestoreAudio
  <2>3. keys' \in [deletion : SUBSET AudioKeys, restoration : SUBSET AudioKeys]
    BY <1>0, <2>1 DEF RestTyped, DeleteAudio, RestoreAudio
  <2>4. QED
    BY <1>0, <2>1, <2>2, <2>3
    DEF RequestsTyped, RestTyped, DeleteAudio, RestoreAudio, storage
<1>5. CASE PurgeStep
  <2>1. CASE PreviewPurge \/ RequestPurge \/ AbandonPurge
    <3>1. purge' \in Purge
      BY <1>0, <2>1
      DEF RestTyped, PreviewPurge, RequestPurge, AbandonPurge, Purge, Objects
    <3>2. QED
      BY <1>0, <2>1, <3>1
      DEF RequestsTyped, RestTyped, PreviewPurge, RequestPurge, AbandonPurge, storage
  <2>2. CASE CompletePurge
    <3>1. purge' \in Purge
      BY <1>0, <2>2 DEF RestTyped, CompletePurge, Purge
    <3>2. QED
      BY <1>0, <2>2, <3>1 DEF RequestsTyped, RestTyped, CompletePurge
  <2>3. ASSUME NEW object \in Objects, EraseObject(object) \/ MarkErased(object)
        PROVE  RequestsTyped' /\ RestTyped'
    <3>1. purge' \in Purge
      BY <1>0, <2>3 DEF RestTyped, EraseObject, MarkErased, Purge
    <3>2. QED
      BY <1>0, <2>3, <3>1
      DEF RequestsTyped, RestTyped, EraseObject, MarkErased, ErasedBlob, storage
  <2>4. QED
    BY <1>5, <2>1, <2>2, <2>3 DEF PurgeStep
<1>6. CASE UNCHANGED vars
  BY <1>0, <1>6 DEF RequestsTyped, RestTyped, vars
<1>7. QED
  BY <1>1, <1>2, <1>3, <1>4, <1>5, <1>6 DEF Next
-----------------------------------------------------------------------------
(* Stability: what no step of anybody takes away from a request in flight  *)

Stable ==
    /\ \A i \in Indexes : staged[i] # Missing => staged'[i] = staged[i]
    /\ row.bound # Missing => row'.bound = row.bound
    /\ row.state = "durable" => row'.state = "durable"
    /\ Tombstone => Tombstone'
    /\ row.bound # Missing /\ blob = row.bound.audio =>
           blob' = row.bound.audio \/ Tombstone'

LEMMA Stability == Inv /\ [Next]_vars => Stable
<1> SUFFICES ASSUME Inv, [Next]_vars PROVE Stable
  OBVIOUS
<1>0. TypeOK /\ BoundInv /\ RequestsInv
  BY DEF Inv
<1>1. CASE Create
  BY <1>0, <1>1 DEF Create, Stable, storage, Tombstone, TypeOK, Row, BoundInv
<1>2. ASSUME NEW c \in Clients, ClientStep(c) PROVE Stable
  BY <1>2
  DEF ClientStep, BeginUpload, BeginFinalize, BeginRetry, Abort, Stable, storage, Tombstone
<1>3. ASSUME NEW c \in Clients, RequestStep(c) PROVE Stable
  <2>0. RequestInv(requests[c]) /\ row \in Row
    BY <1>0 DEF RequestsInv, TypeOK
  <2>1. CASE StageChunk(c)
    <3>1. \A i \in Indexes : staged[i] # Missing => staged'[i] = staged[i]
      BY <1>0, <2>1 DEF StageChunk, TypeOK
    <3>2. QED
      BY <2>1, <3>1 DEF StageChunk, Stable, Tombstone
  <2>2. CASE Prepare(c)
    BY <1>0, <2>0, <2>2 DEF Prepare, Stable, storage, Tombstone, Row, BoundInv
  <2>3. CASE LinkBlob(c)
    BY <1>0, <2>0, <2>3, BoundManifest
    DEF LinkBlob, Stable, Tombstone, RequestInv, Publishing
  <2>4. CASE Confirm(c) \/ Schedule(c)
    BY <2>0, <2>4 DEF Confirm, Schedule, Stable, storage, Tombstone, Row
  <2>5. CASE RecordChunk(c) \/ ReadRecording(c) \/ StatBlob(c) \/ Assemble(c)
    BY <2>5
    DEF RecordChunk, ReadRecording, StatBlob, Assemble, Stable, storage, Tombstone
  <2>6. QED
    BY <1>3, <2>1, <2>2, <2>3, <2>4, <2>5 DEF RequestStep
<1>4. CASE OwnerStep
  BY <1>0, <1>4
  DEF OwnerStep, DeleteAudio, RestoreAudio, Stable, storage, Tombstone, TypeOK, Row
<1>5. CASE PurgeStep
  <2>1. CASE PreviewPurge \/ RequestPurge \/ AbandonPurge \/ CompletePurge
    BY <1>0, <2>1
    DEF PreviewPurge, RequestPurge, AbandonPurge, CompletePurge, Stable, storage,
        Tombstone, TypeOK, Purge
  <2>2. ASSUME NEW object \in Objects, EraseObject(object) \/ MarkErased(object)
        PROVE  Stable
    BY <1>0, <2>2
    DEF EraseObject, MarkErased, ErasedBlob, Stable, storage, Tombstone, TypeOK, Purge
  <2>3. QED
    BY <1>5, <2>1, <2>2 DEF PurgeStep
<1>6. CASE UNCHANGED vars
  BY <1>6 DEF vars, Stable, Tombstone
<1>7. QED
  BY <1>1, <1>2, <1>3, <1>4, <1>5, <1>6 DEF Next

\* So a request that does not move keeps what it relies on.
LEMMA RequestKept ==
  ASSUME Stable, MissingAssumption, NEW r, RequestInv(r)
  PROVE  RequestInv(r)'
  BY MissingAssumption DEF Stable, RequestInv, Publishing

-----------------------------------------------------------------------------
(* The requests                                                            *)

LEMMA RequestsStep == Inv /\ [Next]_vars => RequestsInv'
<1> SUFFICES ASSUME Inv, [Next]_vars, NEW d \in Clients
             PROVE  RequestInv(requests[d])'
  BY DEF RequestsInv
<1>0. TypeOK /\ RequestsInv /\ requests \in [Clients -> Request] /\ row \in Row
  BY DEF Inv, TypeOK
<1>1. RequestInv(requests[d]) /\ requests[d] \in Request
  BY <1>0 DEF RequestsInv
<1>2. Stable
  BY Stability
<1>3. CASE requests'[d] = requests[d]
  BY <1>1, <1>2, <1>3, MissingAssumption DEF Stable, RequestInv, Publishing
<1>4. CASE requests'[d] = Idle
  BY <1>4, IdleRequest DEF RequestInv, Publishing
<1>5. ASSUME NEW c \in Clients, ClientStep(c) PROVE RequestInv(requests[d])'
  <2>1. CASE c # d
    BY <1>0, <1>3, <1>5, <2>1
    DEF ClientStep, BeginUpload, BeginFinalize, BeginRetry, Abort, Begin, Respond
  <2>2. CASE c = d /\ BeginUpload(c)
    BY <1>0, <2>2 DEF BeginUpload, Begin, RequestInv, Publishing, Idle
  <2>3. CASE c = d /\ BeginFinalize(c)
    BY <1>0, <2>3 DEF BeginFinalize, Begin, RequestInv, Publishing, Idle
  <2>4. CASE c = d /\ BeginRetry(c)
    BY <1>0, <2>4 DEF BeginRetry, Begin, RequestInv, Publishing, Idle
  <2>5. CASE c = d /\ Abort(c)
    BY <1>0, <1>4, <2>5 DEF Abort, Respond
  <2>6. QED
    BY <1>5, <2>1, <2>2, <2>3, <2>4, <2>5 DEF ClientStep
<1>6. ASSUME NEW c \in Clients, RequestStep(c) PROVE RequestInv(requests[d])'
  <2>1. CASE c # d
    BY <1>0, <1>3, <1>6, <2>1
    DEF RequestStep, StageChunk, RecordChunk, Prepare, ReadRecording, StatBlob,
        Assemble, LinkBlob, Confirm, Schedule, Goto, Respond, Acknowledge
  <2>2. CASE c = d /\ Respond(c)
    BY <1>0, <1>4, <2>2 DEF Respond
  <2>3. CASE c = d /\ StageChunk(c)
    BY <1>0, <1>1, <2>2, <2>3, SMTT(30)
    DEF StageChunk, Goto, RequestInv, Publishing, TypeOK, Request
  <2>4. CASE c = d /\ Prepare(c)
    <3>1. CASE Goto(c, "read") /\ row'.bound = requests[c].manifest
      BY <1>0, <1>1, <2>4, <3>1, MissingAssumption
      DEF Prepare, Goto, RequestInv, Publishing, Request
    <3>2. row.state = "uploading" /\ MatchesManifest(requests[c].manifest) =>
            row'.bound = requests[c].manifest
      BY <1>0, <2>4, IdleRequest DEF Prepare, Row
    <3>3. QED
      BY <2>2, <2>4, <3>1, <3>2 DEF Prepare, MayProceed
  <2>5. CASE c = d /\ (ReadRecording(c) \/ LinkBlob(c))
    BY <1>0, <1>1, <2>2, <2>5
    DEF ReadRecording, LinkBlob, Goto, RequestInv, Publishing, Request, Tombstone
  <2>6. CASE c = d /\ StatBlob(c)
    <3>1. UNCHANGED <<row, storage, purge>>
      BY <2>6 DEF StatBlob
    <3>2. CASE Goto(c, "assemble")
      BY <1>0, <1>1, <2>6, <3>1, <3>2
      DEF StatBlob, Goto, RequestInv, Publishing, Request
    <3>3. CASE /\ blob = row.bound.audio
               /\ requests' = [requests EXCEPT ![c] =
                                 [@ EXCEPT !.pc = "confirm", !.audio = blob]]
      <4>1. /\ requests'[d].pc = "confirm" /\ requests'[d].audio = blob
            /\ requests'[d].manifest = requests[d].manifest
        BY <1>0, <1>1, <2>6, <3>3 DEF Request
      <4>2. QED
        BY <1>1, <2>6, <3>1, <3>3, <4>1
        DEF StatBlob, RequestInv, Publishing, storage, Tombstone
    <3>4. QED
      BY <2>2, <2>6, <3>2, <3>3 DEF StatBlob
  <2>7. CASE c = d /\ Assemble(c)
    <3>1. CASE /\ Assembled = row.bound.audio
               /\ requests' = [requests EXCEPT ![c] =
                                 [@ EXCEPT !.pc = "link", !.audio = Assembled]]
      <4>1. /\ requests'[d].pc = "link" /\ requests'[d].audio = row.bound.audio
            /\ requests'[d].manifest = requests[d].manifest
        BY <1>0, <1>1, <2>7, <3>1 DEF Request
      <4>2. QED
        BY <1>1, <2>7, <4>1 DEF Assemble, RequestInv, Publishing
    <3>2. QED
      BY <2>2, <2>7, <3>1 DEF Assemble, ExpectedBytes
  <2>8. CASE c = d /\ (RecordChunk(c) \/ Confirm(c) \/ Schedule(c))
    BY <2>2, <2>8 DEF RecordChunk, Confirm, Schedule, Acknowledge
  <2>9. QED
    BY <1>6, <2>1, <2>3, <2>4, <2>5, <2>6, <2>7, <2>8 DEF RequestStep
<1>7. CASE Create \/ OwnerStep \/ PurgeStep \/ UNCHANGED vars
  BY <1>3, <1>7
  DEF Create, OwnerStep, DeleteAudio, RestoreAudio, PurgeStep, PreviewPurge,
      RequestPurge, AbandonPurge, CompletePurge, EraseObject, MarkErased, vars
<1>8. QED
  BY <1>5, <1>6, <1>7 DEF Next
-----------------------------------------------------------------------------
(* The rows                                                                *)

\* How a step may write the recording row, and on what evidence.
RowStep ==
    \/ UNCHANGED row
    \/ /\ row.state = "absent"
       /\ row' = [row EXCEPT !.state = "uploading"]
    \/ \E m \in Manifests :
           /\ row.state = "uploading"
           /\ MatchesManifest(m)
           /\ row' = [row EXCEPT !.state = "prepared", !.bound = m]
           /\ UNCHANGED <<storage, acked, purge>>
    \/ /\ row.bound # Missing
       /\ blob = row.bound.audio \/ Tombstone
       /\ row' = [row EXCEPT !.state = "durable",
                             !.scheduled = ScheduleFirst(row.scheduled)]
       /\ UNCHANGED <<storage, purge>>
    \/ /\ row.state = "durable" /\ row.scheduled = 0
       /\ row' = [row EXCEPT !.scheduled = 1]
    \/ /\ row.state = "durable"
       /\ \E deleted \in BOOLEAN : row' = [row EXCEPT !.audioDeleted = deleted]
       /\ UNCHANGED <<storage, acked, purge>>

LEMMA RowSteps == Inv /\ [Next]_vars => RowStep
<1> SUFFICES ASSUME Inv, [Next]_vars PROVE RowStep
  OBVIOUS
<1>0. TypeOK /\ RequestsInv
  BY DEF Inv
<1>1. ASSUME NEW c \in Clients, RequestStep(c) PROVE RowStep
  <2>0. RequestInv(requests[c])
    BY <1>0 DEF RequestsInv
  <2>1. CASE Prepare(c)
    BY <2>0, <2>1 DEF Prepare, RowStep, RequestInv
  <2>2. CASE Confirm(c)
    BY <2>0, <2>2 DEF Confirm, RowStep, RequestInv, Publishing, storage
  <2>3. CASE Schedule(c)
    BY <2>0, <2>3 DEF Schedule, RowStep, RequestInv, Publishing
  <2>4. CASE UNCHANGED row
    BY <2>4 DEF RowStep
  <2>5. QED
    BY <1>1, <2>1, <2>2, <2>3, <2>4
    DEF RequestStep, StageChunk, RecordChunk, ReadRecording, StatBlob, Assemble, LinkBlob
<1>2. CASE Create \/ OwnerStep
  BY <1>2 DEF Create, OwnerStep, DeleteAudio, RestoreAudio, RowStep
<1>3. CASE UNCHANGED row
  BY <1>3 DEF RowStep
<1>4. QED
  BY <1>1, <1>2, <1>3
  DEF Next, ClientStep, BeginUpload, BeginFinalize, BeginRetry, Abort, PurgeStep,
      PreviewPurge, RequestPurge, AbandonPurge, CompletePurge, EraseObject,
      MarkErased, vars

\* How a step may write the object.
LEMMA BlobSteps ==
  Inv /\ [Next]_vars =>
    \/ UNCHANGED blob
    \/ blob' = Missing /\ Tombstone /\ Tombstone' /\ UNCHANGED row
    \/ /\ blob = Missing /\ row.bound # Missing /\ blob' = row.bound.audio
       /\ UNCHANGED <<row, purge>>
<1> SUFFICES ASSUME Inv, [Next]_vars, blob' # blob
             PROVE  \/ blob' = Missing /\ Tombstone /\ Tombstone' /\ UNCHANGED row
                    \/ /\ blob = Missing /\ row.bound # Missing
                       /\ blob' = row.bound.audio /\ UNCHANGED <<row, purge>>
  OBVIOUS
<1>0. TypeOK /\ RequestsInv
  BY DEF Inv
<1>1. ASSUME NEW c \in Clients, LinkBlob(c)
      PROVE  /\ blob = Missing /\ row.bound # Missing
             /\ blob' = row.bound.audio /\ UNCHANGED <<row, purge>>
  BY <1>0, <1>1 DEF LinkBlob, RequestsInv, RequestInv, Publishing
<1>2. ASSUME NEW object \in Objects, EraseObject(object)
      PROVE  blob' = Missing /\ Tombstone /\ Tombstone' /\ UNCHANGED row
  BY <1>0, <1>2, SMTT(30) DEF EraseObject, ErasedBlob, Tombstone, TypeOK, Purge
<1>3. (\E c \in Clients : LinkBlob(c)) \/ \E object \in Objects : EraseObject(object)
  BY DEF Next, Create, ClientStep, BeginUpload, BeginFinalize, BeginRetry, Abort,
         RequestStep, StageChunk, RecordChunk, Prepare, ReadRecording, StatBlob,
         Assemble, Confirm, Schedule, OwnerStep, DeleteAudio, RestoreAudio,
         PurgeStep, PreviewPurge, RequestPurge, AbandonPurge, CompletePurge,
         MarkErased, vars, storage
<1>4. QED
  BY <1>1, <1>2, <1>3

\* How a step may write the purge.
LEMMA PurgeSteps ==
  Inv /\ [Next]_vars =>
    /\ purge.state = "none" /\ purge'.state # "none" => row.audioDeleted /\ UNCHANGED row
    /\ Tombstone => Tombstone'
    /\ purge.state = "completed" => purge'.state = "completed"
    /\ Tombstone' # Tombstone => purge.state # "none" /\ UNCHANGED <<row, blob>>
<1> SUFFICES ASSUME Inv, [Next]_vars
             PROVE  /\ purge.state = "none" /\ purge'.state # "none" =>
                         row.audioDeleted /\ UNCHANGED row
                    /\ Tombstone => Tombstone'
                    /\ purge.state = "completed" => purge'.state = "completed"
                    /\ Tombstone' # Tombstone =>
                         purge.state # "none" /\ UNCHANGED <<row, blob>>
  OBVIOUS
<1>0. TypeOK
  BY DEF Inv
<1>1. CASE PurgeStep
  BY <1>0, <1>1
  DEF PurgeStep, PreviewPurge, RequestPurge, AbandonPurge, CompletePurge,
      EraseObject, MarkErased, Tombstone, TypeOK, Purge, storage
<1>2. CASE UNCHANGED purge
  BY <1>2 DEF Tombstone
<1>3. QED
  BY <1>1, <1>2
  DEF Next, Create, ClientStep, BeginUpload, BeginFinalize, BeginRetry, Abort,
      RequestStep, StageChunk, RecordChunk, Prepare, ReadRecording, StatBlob,
      Assemble, LinkBlob, Confirm, Schedule, OwnerStep, DeleteAudio, RestoreAudio, vars

LEMMA RowsStep ==
  Inv /\ [Next]_vars =>
    /\ BoundInv' /\ StoredInv' /\ DeletionInv'
    /\ DurableAudioIntact' /\ DurableIsScheduledOnce'
<1> SUFFICES ASSUME Inv, [Next]_vars
             PROVE  /\ BoundInv' /\ StoredInv' /\ DeletionInv'
                    /\ DurableAudioIntact' /\ DurableIsScheduledOnce'
  OBVIOUS
<1>0. /\ TypeOK /\ BoundInv /\ StoredInv /\ DeletionInv
      /\ DurableAudioIntact /\ DurableIsScheduledOnce /\ row \in Row
  BY DEF Inv, TypeOK
<1>1. RowStep /\ Stable
  BY RowSteps, Stability
<1>2. BoundInv' /\ DurableIsScheduledOnce'
  BY <1>0, <1>1, MissingAssumption
  DEF RowStep, BoundInv, DurableIsScheduledOnce, ScheduleFirst, Row
<1>3. StoredInv'
  BY <1>0, <1>1, BlobSteps, BoundManifest DEF Stable, StoredInv
<1>4. DeletionInv'
  <2>1. row'.state = "durable" \/ row.state # "durable"
    BY <1>1 DEF Stable
  <2>2. row'.audioDeleted => row'.state = "durable"
    BY <1>0, <1>1, <2>1 DEF RowStep, DeletionInv, Row
  <2>3. purge'.state # "none" => row'.state = "durable"
    BY <1>0, <2>1, <2>2, PurgeSteps DEF DeletionInv
  <2>4. QED
    BY <2>2, <2>3 DEF DeletionInv
<1>5. DurableAudioIntact'
  <2>1. CASE UNCHANGED blob /\ row.state = "durable"
    BY <1>0, <1>1, <2>1, PurgeSteps DEF Stable, DurableAudioIntact, BoundInv
  <2>2. CASE UNCHANGED blob /\ row.state # "durable"
    BY <1>0, <1>1, <2>2, PurgeSteps DEF RowStep, DurableAudioIntact, Row
  <2>3. CASE ~UNCHANGED blob
    BY <2>3, BlobSteps DEF DurableAudioIntact
  <2>4. QED
    BY <2>1, <2>2, <2>3
<1>6. QED
  BY <1>2, <1>3, <1>4, <1>5
-----------------------------------------------------------------------------
(* The chunks and the acknowledgements                                     *)

\* A chunk row is written from a staged chunk before preparation, or purged.
LEMMA ChunkSteps ==
  Inv /\ [Next]_vars =>
    \/ UNCHANGED chunks
    \/ /\ row.state = "uploading" /\ UNCHANGED <<row, staged>>
       /\ \E i \in Indexes : chunks' = [chunks EXCEPT ![i] = staged[i]]
    \/ purge'.state = "completed" /\ chunks' = [i \in Indexes |-> Missing]
<1> SUFFICES ASSUME Inv, [Next]_vars, chunks' # chunks
             PROVE  \/ /\ row.state = "uploading" /\ UNCHANGED <<row, staged>>
                       /\ \E i \in Indexes : chunks' = [chunks EXCEPT ![i] = staged[i]]
                    \/ /\ purge'.state = "completed"
                       /\ chunks' = [i \in Indexes |-> Missing]
  OBVIOUS
<1>0. TypeOK /\ RequestsInv
  BY DEF Inv
<1>1. ASSUME NEW c \in Clients, RecordChunk(c)
      PROVE  /\ row.state = "uploading" /\ UNCHANGED <<row, staged>>
             /\ \E i \in Indexes : chunks' = [chunks EXCEPT ![i] = staged[i]]
  BY <1>0, <1>1 DEF RecordChunk, AcceptsChunks, RequestsInv, RequestInv
<1>2. CASE CompletePurge
  BY <1>0, <1>2 DEF CompletePurge, TypeOK, Purge
<1>3. (\E c \in Clients : RecordChunk(c)) \/ CompletePurge
  BY DEF Next, Create, ClientStep, BeginUpload, BeginFinalize, BeginRetry, Abort,
         RequestStep, StageChunk, LinkBlob, Prepare, ReadRecording, StatBlob,
         Assemble, Confirm, Schedule, OwnerStep, DeleteAudio, RestoreAudio,
         PurgeStep, PreviewPurge, RequestPurge, AbandonPurge, EraseObject,
         MarkErased, vars, storage
<1>4. QED
  BY <1>1, <1>2, <1>3

LEMMA ChunksStep == Inv /\ [Next]_vars => StagedInv' /\ BoundChunksKept'
<1> SUFFICES ASSUME Inv, [Next]_vars PROVE StagedInv' /\ BoundChunksKept'
  OBVIOUS
<1>0. /\ TypeOK /\ BoundInv /\ StagedInv /\ BoundChunksKept /\ row \in Row
      /\ chunks \in [Indexes -> Contents \cup {Missing}]
  BY DEF Inv, TypeOK
<1>1. Stable /\ RowStep
  BY Stability, RowSteps
<1>2. StagedInv'
  <2>1. SUFFICES ASSUME NEW j \in Indexes, chunks'[j] # Missing
                 PROVE  staged'[j] = chunks'[j]
    BY DEF StagedInv
  <2>2. chunks'[j] = chunks[j] \/ (UNCHANGED staged /\ chunks'[j] = staged[j])
    BY <1>0, <2>1, ChunkSteps
  <2>3. QED
    BY <1>0, <1>1, <2>1, <2>2 DEF StagedInv, Stable
<1>3. ASSUME row'.bound # Missing, purge'.state # "completed"
      PROVE  MatchesManifest(row.bound)'
  <2>1. CASE row.bound # Missing
    <3>1. row'.bound = row.bound /\ purge.state # "completed"
      BY <1>1, <1>3, <2>1, PurgeSteps DEF Stable
    <3>2. UNCHANGED chunks
      BY <1>0, <1>3, <2>1, ChunkSteps DEF BoundInv
    <3>3. QED
      BY <1>0, <2>1, <3>1, <3>2 DEF BoundChunksKept, MatchesManifest, CoversManifest
  <2>2. CASE row.bound = Missing
    <3>1. PICK m \in Manifests : /\ MatchesManifest(m)
                                 /\ row' = [row EXCEPT !.state = "prepared", !.bound = m]
                                 /\ UNCHANGED <<storage, acked, purge>>
      BY <1>0, <1>1, <1>3, <2>2 DEF RowStep, Row
    <3>2. row'.bound = m /\ UNCHANGED chunks
      BY <1>0, <3>1 DEF Row, storage
    <3>3. QED
      BY <3>1, <3>2 DEF MatchesManifest, CoversManifest
  <2>3. QED
    BY <2>1, <2>2
<1>4. BoundChunksKept'
  BY <1>2, <1>3 DEF StagedInv, BoundChunksKept
<1>5. QED
  BY <1>2, <1>4

LEMMA AcknowledgementsStep == Inv /\ [Next]_vars => AcknowledgedIsDurable'
<1> SUFFICES ASSUME Inv, [Next]_vars, NEW m \in acked'
             PROVE  row'.state = "durable" /\ m = row'.bound
  BY DEF AcknowledgedIsDurable
<1>0. /\ TypeOK /\ RequestsInv /\ BoundInv /\ AcknowledgedIsDurable /\ row \in Row
  BY DEF Inv, TypeOK
<1>1. Stable
  BY Stability
<1>2. CASE m \in acked
  BY <1>0, <1>1, <1>2 DEF AcknowledgedIsDurable, Stable, BoundInv
<1>3. ASSUME NEW c \in Clients, Confirm(c) \/ Schedule(c), m \notin acked
      PROVE  row'.state = "durable" /\ m = row'.bound
  BY <1>0, <1>3
  DEF Confirm, Schedule, Acknowledge, RequestsInv, RequestInv, Publishing, Row
<1>4. acked' = acked \/ \E c \in Clients : Confirm(c) \/ Schedule(c)
  BY DEF Next, Create, ClientStep, BeginUpload, BeginFinalize, BeginRetry, Abort,
         RequestStep, StageChunk, RecordChunk, LinkBlob, Prepare, ReadRecording,
         StatBlob, Assemble, OwnerStep, DeleteAudio, RestoreAudio, PurgeStep,
         PreviewPurge, RequestPurge, AbandonPurge, CompletePurge, EraseObject,
         MarkErased, vars, storage
<1>5. QED
  BY <1>2, <1>3, <1>4

-----------------------------------------------------------------------------
(* Theorems                                                                *)

LEMMA InvStep == Inv /\ [Next]_vars => Inv'
  BY TypeStep, RequestsStep, RowsStep, ChunksStep, AcknowledgementsStep DEF Inv

\* Inv holds in every reachable state.
THEOREM Invariance == Spec => []Inv
  BY InvInit, InvStep, PTL DEF Spec

\* The rows, the files and the requests keep their shape, and the first
\* transcription is scheduled at most once.
THEOREM TypeCorrect == Spec => []TypeOK
<1>1. Inv => TypeOK
  BY DEF Inv
<1>2. QED
  BY <1>1, Invariance, PTL

\* The audio of a durable recording is stored, byte for byte as its manifest
\* describes it, until permanent deletion is committed.
THEOREM DurableIsIntact == Spec => []DurableAudioIntact
<1>1. Inv => DurableAudioIntact
  BY DEF Inv
<1>2. QED
  BY <1>1, Invariance, PTL

\* Nobody is told that a manifest is durable unless it is, and it is bound.
THEOREM AcknowledgementsAreTrue == Spec => []AcknowledgedIsDurable
<1>1. Inv => AcknowledgedIsDurable
  BY DEF Inv
<1>2. QED
  BY <1>1, Invariance, PTL

\* A recording is durable if and only if its first transcription is scheduled.
THEOREM ScheduledOnce == Spec => []DurableIsScheduledOnce
<1>1. Inv => DurableIsScheduledOnce
  BY DEF Inv
<1>2. QED
  BY <1>1, Invariance, PTL

\* The chunks of a bound manifest are kept until they are purged.
THEOREM ChunksAreKept == Spec => []BoundChunksKept
<1>1. Inv => BoundChunksKept
  BY DEF Inv
<1>2. QED
  BY <1>1, Invariance, PTL

\* Deleted audio is not restored once its permanent deletion is committed.
THEOREM CondemnedIsFinal == Spec => CondemnedStaysDeleted
<1>1. Inv /\ [Next]_vars => (Tombstone /\ row.audioDeleted => row'.audioDeleted)
  <2> SUFFICES ASSUME Inv, [Next]_vars, Tombstone, row.audioDeleted
               PROVE  row'.audioDeleted
    OBVIOUS
  <2>0. row \in Row
    BY DEF Inv, TypeOK
  <2>1. CASE OwnerStep
    BY <2>0, <2>1 DEF OwnerStep, DeleteAudio, RestoreAudio, MayRestore, Row
  <2>2. CASE ~OwnerStep
    BY <2>0, <2>2
    DEF Next, Create, ClientStep, BeginUpload, BeginFinalize, BeginRetry, Abort,
        RequestStep, StageChunk, RecordChunk, LinkBlob, Prepare, ReadRecording,
        StatBlob, Assemble, Confirm, Schedule, PurgeStep, PreviewPurge,
        RequestPurge, AbandonPurge, CompletePurge, EraseObject, MarkErased, vars, Row
  <2>3. QED
    BY <2>1, <2>2
<1>2. QED
  BY <1>1, Invariance, PTL DEF Spec, CondemnedStaysDeleted

\* The upload implements write-once audio.
THEOREM ImplementsWriteOnce == Spec => AudioSpec
<1>1. Init => WriteOnce!AudioInit
  BY DEF Init, WriteOnce!AudioInit, Tombstone
<1>2. Inv /\ Inv' /\ [Next]_vars => [WriteOnce!AudioNext]_WriteOnce!audio
  <2> SUFFICES ASSUME Inv, Inv', [Next]_vars
               PROVE  [WriteOnce!AudioNext]_WriteOnce!audio
    OBVIOUS
  <2>0. /\ TypeOK /\ BoundInv /\ StoredInv /\ DeletionInv /\ DurableAudioIntact
        /\ row \in Row /\ (row.bound # Missing => row.bound.audio # Missing)
    BY BoundManifest DEF Inv, TypeOK
  <2>1. RowStep /\ Stable
    BY RowSteps, Stability
  <2>2. CASE UNCHANGED <<row, blob>> /\ Tombstone' = Tombstone
    BY <2>2 DEF WriteOnce!audio
  <2>3. CASE Tombstone' # Tombstone
    <3>1. UNCHANGED <<row, blob>> /\ Tombstone' /\ row.state = "durable"
      BY <2>0, <2>3, PurgeSteps DEF DeletionInv, Tombstone
    <3>2. WriteOnce!Condemn
      BY <3>1 DEF WriteOnce!Condemn
    <3>3. QED
      BY <3>2 DEF WriteOnce!AudioNext
  <2>4. CASE blob' # blob /\ Tombstone' = Tombstone
    <3>1. CASE blob' = Missing /\ Tombstone /\ UNCHANGED row
      <4>1. WriteOnce!Erase
        BY <2>4, <3>1 DEF WriteOnce!Erase
      <4>2. QED
        BY <4>1 DEF WriteOnce!AudioNext
    <3>2. CASE /\ blob = Missing /\ row.bound # Missing
               /\ blob' = row.bound.audio /\ UNCHANGED <<row, purge>>
      <4>1. WriteOnce!Store
        BY <2>0, <2>4, <3>2 DEF WriteOnce!Store, DurableAudioIntact
      <4>2. QED
        BY <4>1 DEF WriteOnce!AudioNext
    <3>3. QED
      BY <2>4, <3>1, <3>2, BlobSteps
  <2>5. CASE row' # row /\ UNCHANGED blob /\ Tombstone' = Tombstone
    <3>1. CASE row'.bound = row.bound /\ (row'.state = "durable" <=> row.state = "durable")
      BY <2>5, <3>1 DEF WriteOnce!audio
    <3>2. CASE row'.bound # row.bound
      <4>1. PICK m \in Manifests : /\ row.state = "uploading"
                                   /\ row' = [row EXCEPT !.state = "prepared", !.bound = m]
        BY <2>0, <2>1, <3>2 DEF RowStep, Row
      <4>2. row'.bound = m /\ row.bound = Missing /\ row'.state # "durable"
        BY <2>0, <4>1 DEF Row, BoundInv
      <4>3. m # Missing
        BY MissingAssumption
      <4>4. WriteOnce!Agree
        BY <2>5, <4>1, <4>2, <4>3 DEF WriteOnce!Agree
      <4>5. QED
        BY <4>4 DEF WriteOnce!AudioNext
    <3>3. CASE row'.bound = row.bound /\ row.state # "durable" /\ row'.state = "durable"
      <4>1. row.bound # Missing /\ blob = row.bound.audio
        BY <2>0, <2>1, <3>3 DEF RowStep, Row, DeletionInv, Tombstone
      <4>2. (row.state = "durable")' = TRUE
        BY <3>3
      <4>3. /\ (IF row.bound = Missing THEN Missing ELSE row.bound.audio)' = row.bound.audio
            /\ row.bound.audio # Missing
        BY <2>0, <3>3, <4>1
      <4>4. WriteOnce!Confirm
        BY <2>5, <4>1, <4>2, <4>3 DEF WriteOnce!Confirm
      <4>5. QED
        BY <4>4 DEF WriteOnce!AudioNext
    <3>4. QED
      BY <2>1, <3>1, <3>2, <3>3 DEF Stable
  <2>6. QED
    BY <2>2, <2>3, <2>4, <2>5
<1>3. QED
  BY <1>1, <1>2, Invariance, PTL DEF Spec, AudioSpec, WriteOnce!AudioSpec
=============================================================================
