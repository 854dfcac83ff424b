--------------------------- MODULE DeletionProofs ---------------------------
(* Proofs about what keeps, exports, deletes, backs up and restores the      *)
(* owner's material, for any entries, exports and workers and any bounds.    *)
(*                                                                           *)
(* Exports.  A snapshot and a deletion exclude each other, so what an export *)
(* that still counts shows has not been put away (Shows), and its archive    *)
(* holds no more than its rows say (ContentInv).                             *)
(*                                                                           *)
(* Backups.  The fence keeps purges and backups apart (FenceInv).  A request *)
(* may go on once the newest backup holds its tombstone, which the number of *)
(* the newest tombstone is enough to tell, because a ledger that is copied   *)
(* is cut off at a generation (Truncated).  Whatever was purged is therefore *)
(* covered by a tombstone of the newest backup (PurgeInv), and a restore     *)
(* applies it to any older one (ReplayRemoves).                              *)
EXTENDS BackupRepository, FiniteSetTheorems, SequenceTheorems, TLAPS

-----------------------------------------------------------------------------
(* The inductive invariant.                                                  *)

Rows == {"absent", "live", "deleted", "gone"}
Away == {"absent", "gone"}

MaterialType ==
    /\ material \in [Targets -> Rows]
    /\ tombstones \in [Targets -> Nat]
    /\ deletionGeneration \in Nat
    /\ \A e \in Targets : tombstones[e] <= deletionGeneration

\* What is gone takes with it what it held.
Consistent(rows) ==
    /\ rows[Day] \in {"live", "gone"}
    /\ rows[Day] = "gone" => \A e \in Targets : rows[e] \in Away
    /\ \A c \in Entries : rows[Contribution(c)] \in Away => rows[RawResponse(c)] \in Away

Phases == {"idle", "items", "blobs", "stored", "unanswered"}
Open == {"queued", "running", "completed"}

ExportType ==
    /\ exports \in [Exports -> ExportRow \cup {None}]
    /\ DOMAIN snapshot = Exports
    /\ \A x \in Exports : snapshot[x] # None =>
          /\ DOMAIN snapshot[x] = {"items", "leases"}
          /\ snapshot[x].items \subseteq Targets /\ snapshot[x].leases \subseteq Targets
    /\ DOMAIN exporter = Exports
    /\ \A x \in Exports : DOMAIN exporter[x] = {"phase", "content"} /\ exporter[x].phase \in Phases
    /\ DOMAIN archives = Exports

\* Nothing that is shown, or whose bytes are leased, has been put away.
Shows(items, leases, rows, ledger) ==
    /\ leases \subseteq Audios \cup RawResponses
    /\ \A e \in items \cap Contributions : rows[e] = "live"
    /\ \A e \in leases :
          /\ Contribution(e.of) \in items
          /\ e \in Audios => rows[e] = "live"
          /\ e \in RawResponses => ledger[e] = 0

SnapshotInv(x) ==
    snapshot[x] # None =>
        exports[x] = None /\ Shows(snapshot[x].items, snapshot[x].leases, material, tombstones)

\* All that an archive of this row may hold.
Carried(row) == row.items \cup row.leases \cup {Bytes(e) : e \in row.leases}

ContentInv(x) ==
    /\ exports[x] # None /\ exports[x].status \in Open =>
          Shows(exports[x].items, exports[x].leases, material, tombstones)
    /\ Exporting(x) => exports[x] # None /\ exporter[x].content \subseteq Carried(exports[x])
    /\ archives[x] # None => exports[x] # None /\ archives[x] \subseteq Carried(exports[x])

\* An archive has a worker, a row that names it, or was left behind.
FoundInv(x) ==
    /\ archives[x] # None => Exporting(x) \/ exports[x].archiveBlobKey \/ x \in strays
    /\ exporter[x].phase \in {"items", "blobs"} => archives[x] = None
    /\ exports[x] = None \/ exports[x].status = "queued" => archives[x] = None /\ ~Exporting(x)
    /\ exporter[x].phase = "unanswered" => exports[x].archiveBlobKey \/ archives[x] = None
    /\ x \in sweep => exports[x] # None

ExportOK(x) == SnapshotInv(x) /\ ContentInv(x) /\ FoundInv(x)

ExportInv ==
    /\ ExportType
    /\ \A x \in Exports : ExportOK(x)

DeletionType ==
    /\ backupConfigured \in BOOLEAN
    /\ requests \in [Targets -> RequestRow \cup {None}]
    /\ DOMAIN purger = Purgers
    /\ \A w \in Purgers : purger[w] # None =>
          /\ DOMAIN purger[w] = {"target", "fenced"}
          /\ purger[w].target \in Targets

\* A backup shares the fence from its beginning to its end.
FenceInv ==
    /\ DOMAIN purger = Purgers
    /\ ~torn
    /\ backup # None =>
          /\ DOMAIN backup = {"phase", "image", "present"}
          /\ sharers = 1
          /\ ~FenceHeld
          /\ backup.phase = "copying" => backup.image.blobs \cap backup.present \subseteq blobs

Images == [material : [Targets -> Rows], tombstones : [Targets -> Nat], blobs : SUBSET Targets]

\* Every tombstone of the one ledger is in the other.
Earlier(ledger, later) == \A e \in Targets : ledger[e] # 0 => later[e] # 0

\* The ledger as it was up to some generation.
Truncated(ledger) ==
    \A e \in Targets : \/ ledger[e] = tombstones[e]
                       \/ ledger[e] = 0 /\ \A t \in Targets : ledger[t] < tombstones[e]

Newest == IF repository = <<>> THEN [e \in Targets |-> 0] ELSE NewestTombstones

BackupInv ==
    /\ repository \in Seq(Images)
    /\ \A n \in DOMAIN repository : Consistent(repository[n].material)
    /\ Earlier(Newest, tombstones)
    /\ backup # None =>
          /\ DOMAIN backup = {"phase", "image", "present"}
          /\ backup.image \in Images /\ Consistent(backup.image.material)
          /\ Truncated(backup.image.tombstones)
          /\ Earlier(Newest, backup.image.tombstones)
          /\ backup.phase = "stored" => Newest = backup.image.tombstones

Covered(t) == \E e \in Targets : t \in Within(e) /\ Newest[e] # 0

RequestInv(e) ==
    requests[e] # None =>
        /\ requests[e].keys \subseteq Within(e)
        /\ tombstones[e] # 0
        /\ backupConfigured => requests[e].checkpoint # "not_configured"
        /\ requests[e].checkpoint = "committed" => Newest[e] # 0

\* A worker's request may be purged.
PurgerInv(w) ==
    purger[w] # None =>
        requests[purger[w].target] # None /\ requests[purger[w].target].checkpoint # "pending"

PurgeInv ==
    /\ \A e \in Targets : RequestInv(e)
    /\ \A w \in Purgers : PurgerInv(w)
    /\ \A e \in Targets : material[e] = "gone" => e \in purged
    /\ purged \subseteq Targets
    /\ backupConfigured => \A t \in purged : Covered(t)

RetentionInv ==
    /\ MaterialType /\ Consistent(material)
    /\ ExportInv
    /\ DeletionType /\ FenceInv /\ BackupInv /\ PurgeInv
    /\ restored # None => PurgedStaysPurged

-----------------------------------------------------------------------------
(* The targets.                                                              *)

LEMMA TargetsOfEntry ==
  ASSUME NEW c \in Entries
  PROVE  /\ Contribution(c) \in Targets /\ Contribution(c) \in Contributions
         /\ Audio(c) \in Targets /\ Audio(c) \in Audios
         /\ RawResponse(c) \in Targets /\ RawResponse(c) \in RawResponses
         /\ Contribution(c).of = c /\ Audio(c).of = c /\ RawResponse(c).of = c
         /\ Contribution(c).kind = "contribution" /\ Audio(c).kind = "recording_audio"
         /\ RawResponse(c).kind = "provider_raw_response"
  BY DEF Targets, Contributions, Audios, RawResponses, Contribution, Audio, RawResponse

LEMMA DayIsTarget == Day \in Targets /\ Day.kind = "journal_day" /\ Day.of = None
  BY DEF Targets, Day

LEMMA KindsOfTargets ==
  ASSUME NEW e \in Targets
  PROVE  \/ e = Day
         \/ e.of \in Entries /\ e = Contribution(e.of) /\ e \in Contributions
         \/ e.of \in Entries /\ e = Audio(e.of) /\ e \in Audios
         \/ e.of \in Entries /\ e = RawResponse(e.of) /\ e \in RawResponses
  BY DEF Targets, Contributions, Audios, RawResponses, Contribution, Audio, RawResponse

LEMMA KindsApart ==
  /\ \A e \in Contributions : e.kind = "contribution" /\ e.of \in Entries /\ e = Contribution(e.of)
  /\ \A e \in Audios : e.kind = "recording_audio" /\ e.of \in Entries /\ e = Audio(e.of)
  /\ \A e \in RawResponses :
        e.kind = "provider_raw_response" /\ e.of \in Entries /\ e = RawResponse(e.of)
  /\ Contributions \subseteq Targets /\ Audios \subseteq Targets /\ RawResponses \subseteq Targets
  BY DEF Targets, Contributions, Audios, RawResponses, Contribution, Audio, RawResponse

\* What goes with a target.
LEMMA WithinTarget ==
  ASSUME NEW e \in Targets, NEW t \in Within(e)
  PROVE  /\ t \in Targets
         /\ e = Day \/ e = t \/ (e \in Contributions /\ t.of = e.of /\ e = Contribution(t.of))
         /\ e # Day => t # Day
<1>1. CASE e = Day
  BY <1>1, DayIsTarget DEF Within
<1>2. CASE e \in Contributions
  <2>1. e.kind = "contribution" /\ e.of \in Entries /\ e = Contribution(e.of)
    BY <1>2, KindsApart
  <2>2. t \in {e, Audio(e.of), RawResponse(e.of)}
    BY <2>1 DEF Within
  <2>3. t \in Targets /\ t.of = e.of /\ t # Day
    BY <2>1, <2>2, TargetsOfEntry, DayIsTarget
  <2>4. QED
    BY <1>2, <2>1, <2>3
<1>3. CASE e \in Audios \cup RawResponses
  <2>1. e.kind \in {"recording_audio", "provider_raw_response"}
    BY <1>3, KindsApart
  <2>2. Within(e) = {e}
    BY <2>1 DEF Within
  <2>3. QED
    BY <2>1, <2>2, DayIsTarget
<1>4. QED
  BY <1>1, <1>2, <1>3, KindsOfTargets

LEMMA WithinItself == \A e \in Targets : e \in Within(e)
  BY DEF Within

-----------------------------------------------------------------------------
(* The purges, of rows that may be those of an image.                        *)

LEMMA PurgeShape ==
  ASSUME NEW rows \in [Targets -> Rows], NEW ledger, NEW e \in Targets, Consistent(rows),
         Purge(rows, ledger, e) # None
  PROVE  /\ Purge(rows, ledger, e) \in [Targets -> Rows]
         /\ Consistent(Purge(rows, ledger, e))
         /\ \A t \in Targets :
               \/ Purge(rows, ledger, e)[t] = rows[t]
               \/ Purge(rows, ledger, e)[t] = "gone" /\ t \in Within(e)
         /\ \A c \in Entries : rows[Contribution(c)] = "live" =>
               /\ Purge(rows, ledger, e)[Contribution(c)] = "live"
               /\ Purge(rows, ledger, e)[Audio(c)] = rows[Audio(c)]
<1> DEFINE new == Purge(rows, ledger, e)
<1>1. CASE e = Day
  <2>1. new = PurgeJournalDay(rows, ledger)
    BY <1>1, DayIsTarget DEF Purge
  <2>2. /\ rows[Day] = "live"
        /\ \A c \in Contributions :
              rows[c] \in {"absent", "gone"} \/ (rows[c] = "deleted" /\ ledger[c] # 0)
        /\ new = [t \in Targets |-> IF rows[t] = "absent" THEN "absent" ELSE "gone"]
    BY <2>1 DEF PurgeJournalDay
  <2>3. \A t \in Targets : new[t] \in Away
    BY <2>2 DEF Away
  <2>4. Consistent(new)
    BY <2>2, <2>3, DayIsTarget, TargetsOfEntry DEF Consistent
  <2>5. \A c \in Entries : rows[Contribution(c)] # "live"
    BY <2>2, TargetsOfEntry
  <2>6. Within(e) = Targets
    BY <1>1, DayIsTarget DEF Within
  <2>7. QED
    BY <2>2, <2>4, <2>5, <2>6 DEF Rows
<1>2. CASE e \in Contributions
  <2>1. e.kind = "contribution" /\ e.of \in Entries /\ e = Contribution(e.of)
    BY <1>2, KindsApart
  <2>2. rows[e] = "deleted" /\ new = [t \in Targets |-> IF t \in Within(e) THEN "gone" ELSE rows[t]]
    BY <2>1 DEF Purge, PurgeContribution
  <2>3. Day \notin Within(e)
    BY <2>1, WithinTarget, DayIsTarget
  <2>4. RawResponse(e.of) \in Within(e)
    BY <2>1 DEF Within
  <2>5. rows[Day] # "gone"
    BY <2>2 DEF Consistent, Away
  <2>6. \A c \in Entries : Contribution(c) \in Within(e) => c = e.of
    BY <2>1, WithinTarget, TargetsOfEntry, DayIsTarget
  <2>7. Consistent(new)
    <3>1. new[Day] = rows[Day]
      BY <2>2, <2>3, DayIsTarget
    <3>2. ASSUME NEW c \in Entries, new[Contribution(c)] \in Away
          PROVE  new[RawResponse(c)] \in Away
      <4>1. CASE c = e.of
        BY <4>1, <2>2, <2>4, TargetsOfEntry DEF Away
      <4>2. CASE c # e.of
        <5>1. rows[Contribution(c)] \in Away
          BY <4>2, <2>2, <2>6, <3>2, TargetsOfEntry
        <5>2. rows[RawResponse(c)] \in Away
          BY <5>1 DEF Consistent
        <5>3. QED
          BY <5>2, <2>2, TargetsOfEntry DEF Away
      <4>3. QED
        BY <4>1, <4>2
    <3>3. QED
      BY <3>1, <3>2, <2>5 DEF Consistent
  <2>8. ASSUME NEW c \in Entries, rows[Contribution(c)] = "live"
        PROVE  new[Contribution(c)] = "live" /\ new[Audio(c)] = rows[Audio(c)]
    <3>1. c # e.of
      BY <2>1, <2>2, <2>8
    <3>2. Contribution(c) \notin Within(e) /\ Audio(c) \notin Within(e)
      BY <3>1, <2>1, WithinTarget, TargetsOfEntry, DayIsTarget
    <3>3. QED
      BY <3>2, <2>2, <2>8, TargetsOfEntry
  <2>9. QED
    BY <2>2, <2>7, <2>8 DEF Rows
<1>3. CASE e \in Audios
  <2>1. new = rows
    BY <1>3, KindsApart DEF Purge, PurgeRecordingAudio
  <2>2. QED
    BY <2>1
<1>4. CASE e \in RawResponses
  <2>1. e.kind = "provider_raw_response" /\ e.of \in Entries /\ e = RawResponse(e.of)
    BY <1>4, KindsApart
  <2>2. rows[e] \in {"live", "deleted"} /\ new = [rows EXCEPT ![e] = "gone"]
    BY <2>1 DEF Purge, PurgeProviderRawResponse
  <2>3. /\ \A t \in Targets : t # e => new[t] = rows[t]
        /\ new[e] = "gone"
        /\ e # Day
        /\ \A c \in Entries : e # Contribution(c) /\ e # Audio(c)
    BY <2>1, <2>2, DayIsTarget, TargetsOfEntry
  <2>4. Consistent(new)
    BY <2>2, <2>3, DayIsTarget, TargetsOfEntry DEF Consistent, Away
  <2>5. e \in Within(e)
    BY WithinItself
  <2>6. QED
    BY <2>2, <2>3, <2>4, <2>5, TargetsOfEntry DEF Rows
<1>5. QED
  BY <1>1, <1>2, <1>3, <1>4, KindsOfTargets

-----------------------------------------------------------------------------
(* What the steps do to the material and its ledger.                         *)

MaterialOK == MaterialType /\ Consistent(material)

\* Only an audio or a contribution that is put away stops being live.
StaysLive(e) == material[e] = "live" => material'[e] = "live"
LiveStays == \A e \in Contributions \cup Audios : StaysLive(e)
NothingGoes == \A e \in Targets : material'[e] = "gone" => material[e] = "gone"
ledgerVars == <<tombstones, deletionGeneration>>

LEMMA MaterialStep ==
  ASSUME MaterialOK, MaterialNext
  PROVE  /\ MaterialOK' /\ LiveStays /\ NothingGoes
         /\ UNCHANGED ledgerVars /\ blobs \subseteq blobs'
<1> USE DEF MaterialOK, MaterialType, Rows, Away, LiveStays, StaysLive, NothingGoes, ledgerVars
<1>1. PICK c \in Entries :
         \/ CreateContribution(c) \/ AssertNotTombstoned(c) \/ RestoreContribution(c)
         \/ RestoreAudio(c) \/ RawResponseExpires(c)
  BY DEF MaterialNext
<1>2. /\ Contribution(c) \in Targets /\ Audio(c) \in Targets /\ RawResponse(c) \in Targets
      /\ Day \in Targets /\ Day # Contribution(c) /\ Day # Audio(c) /\ Day # RawResponse(c)
      /\ \A d \in Entries : /\ RawResponse(d) \in Targets /\ Contribution(d) \in Targets
                            /\ Contribution(d) = Contribution(c) <=> d = c
                            /\ RawResponse(d) = RawResponse(c) <=> d = c
                            /\ Audio(c) # Contribution(d) /\ Audio(c) # RawResponse(d)
                            /\ RawResponse(c) # Contribution(d) /\ Contribution(c) # RawResponse(d)
  BY TargetsOfEntry, DayIsTarget
<1>3. Contributions \subseteq Targets /\ Audios \subseteq Targets
  BY KindsApart
<1>4. CASE CreateContribution(c)
  <2>1. Within(Contribution(c)) = {Contribution(c), Audio(c), RawResponse(c)}
    BY TargetsOfEntry DEF Within
  <2>2. /\ material' = [e \in Targets |-> IF e \in Within(Contribution(c)) THEN "live"
                                          ELSE material[e]]
        /\ material[Day] # "gone" /\ UNCHANGED ledgerVars /\ blobs \subseteq blobs'
    BY <1>4 DEF CreateContribution, EnsureDay
  <2>3. Consistent(material')
    BY <1>2, <2>1, <2>2 DEF Consistent
  <2>4. QED
    BY <1>2, <1>3, <2>1, <2>2, <2>3
<1>5. CASE AssertNotTombstoned(c)
  BY <1>3, <1>5 DEF AssertNotTombstoned
<1>6. CASE RestoreContribution(c)
  <2>1. /\ material' = IF material[Contribution(c)] = "deleted"
                       THEN [material EXCEPT ![Contribution(c)] = "live"] ELSE material
        /\ UNCHANGED <<tombstones, deletionGeneration, blobs>>
    BY <1>6 DEF RestoreContribution
  <2>2. Consistent(material')
    BY <1>2, <2>1 DEF Consistent
  <2>3. QED
    BY <1>2, <1>3, <2>1, <2>2
<1>7. CASE RestoreAudio(c)
  <2>1. /\ material' = [material EXCEPT ![Audio(c)] = "live"]
        /\ material[Audio(c)] = "deleted"
        /\ UNCHANGED <<tombstones, deletionGeneration, blobs>>
    BY <1>7 DEF RestoreAudio
  <2>2. Consistent(material')
    BY <1>2, <2>1 DEF Consistent
  <2>3. QED
    BY <1>2, <1>3, <2>1, <2>2
<1>8. CASE RawResponseExpires(c)
  <2>1. /\ material' = [material EXCEPT ![RawResponse(c)] = "deleted"]
        /\ material[RawResponse(c)] = "live"
        /\ UNCHANGED <<tombstones, deletionGeneration, blobs>>
    BY <1>8 DEF RawResponseExpires
  <2>2. Consistent(material')
    BY <1>2, <2>1 DEF Consistent
  <2>3. \A e \in Contributions \cup Audios : e # RawResponse(c)
    BY KindsApart, TargetsOfEntry
  <2>4. QED
    BY <1>2, <1>3, <2>1, <2>2, <2>3
<1>9. QED
  BY <1>1, <1>4, <1>5, <1>6, <1>7, <1>8

\* What the owner puts away, and what a deletion requests, is one target.
OnlyThis(e) ==
    /\ \A t \in Contributions \cup Audios : t # e => StaysLive(t)
    /\ \A t \in RawResponses : t # e /\ ~Tombstoned(t) => ~Tombstoned(t)'

LEMMA SoftDeleteStep ==
  ASSUME MaterialOK, NEW e \in Contributions \cup Audios, SoftDelete(e)
  PROVE  MaterialOK' /\ OnlyThis(e) /\ NothingGoes /\ UNCHANGED <<tombstones, deletionGeneration, blobs>>
<1> USE DEF MaterialOK, MaterialType, Rows, Away, StaysLive, OnlyThis, NothingGoes
<1>1. /\ material[e] = "live" /\ material' = [material EXCEPT ![e] = "deleted"]
      /\ UNCHANGED <<tombstones, deletionGeneration, blobs>>
  BY DEF SoftDelete
<1>2. e \in Targets /\ e # Day /\ \A c \in Entries : e # RawResponse(c)
  BY KindsApart, DayIsTarget, TargetsOfEntry
<1>3. \A c \in Entries : RawResponse(c) \in Targets /\ Contribution(c) \in Targets
  BY TargetsOfEntry
<1>4. Consistent(material')
  BY <1>1, <1>2, <1>3, DayIsTarget DEF Consistent
<1>5. QED
  BY <1>1, <1>2, <1>4, KindsApart DEF Tombstoned

\* New tombstones are later than all others.
TombstonesGrow ==
    \A t \in Targets : \/ tombstones'[t] = tombstones[t]
                       \/ tombstones[t] = 0 /\ tombstones'[t] > deletionGeneration

LEMMA ChildTargetsAreFinite ==
  ASSUME NEW e
  PROVE  /\ ChildTargets(e) \subseteq Contributions \cup Audios
         /\ Cardinality(ChildTargets(e)) \in Nat
<1>1. ChildTargets(e) \subseteq Contributions \cup Audios
  BY DEF ChildTargets
<1>2. IsFiniteSet(Contributions) /\ IsFiniteSet(Audios)
  <2>1. /\ [c \in Entries |-> Contribution(c)] \in Surjection(Entries, Contributions)
        /\ [c \in Entries |-> Audio(c)] \in Surjection(Entries, Audios)
    BY DEF Surjection, Contributions, Audios
  <2>2. QED
    BY <2>1, MaterialAssumption, FS_Surjection
<1>3. IsFiniteSet(Contributions \cup Audios)
  BY <1>2, FS_Union
<1>4. QED
  BY <1>1, <1>3, FS_Subset, FS_CardinalityType

LEMMA RequestStep ==
  ASSUME MaterialOK, NEW e \in Targets, Request(e)
  PROVE  /\ MaterialOK' /\ OnlyThis(e) /\ NothingGoes /\ TombstonesGrow
         /\ tombstones'[e] # 0 /\ UNCHANGED <<material, blobs>>
<1> USE DEF MaterialOK, MaterialType
<1> DEFINE children == ChildTargets(e)
           size == Cardinality(children)
<1>1. PICK n \in Numbered(e) :
         tombstones' = [t \in Targets |->
              CASE t = e -> Generation
                [] t \in children -> Generation + n[t]
                [] OTHER -> tombstones[t]]
  BY DEF Request
<1>2. /\ UNCHANGED <<material, blobs>>
      /\ deletionGeneration' = Generation + size
      /\ \A t \in {e} \cup children : tombstones[t] = 0
  BY DEF Request, Tombstoned
<1>3. size \in Nat /\ children \subseteq Contributions \cup Audios
  BY ChildTargetsAreFinite
<1>4. n \in [children -> 1..size] /\ e \notin children
  BY KindsApart, DayIsTarget DEF Numbered, ChildTargets
<1>5. Generation \in Nat /\ Generation = deletionGeneration + 1
  BY DEF Generation
<1> HIDE DEF children, size
<1>6. \A t \in children : n[t] \in Nat /\ n[t] >= 1 /\ n[t] <= size
  BY <1>3, <1>4
<1>7. ASSUME NEW t \in Targets
      PROVE  /\ tombstones'[t] \in Nat /\ tombstones'[t] <= deletionGeneration'
             /\ \/ tombstones'[t] = tombstones[t]
                \/ tombstones[t] = 0 /\ tombstones'[t] > deletionGeneration
  <2>1. CASE t = e
    <3>1. tombstones'[t] = Generation /\ tombstones[t] = 0
      BY <2>1, <1>1, <1>2, <1>4
    <3>2. QED
      BY <3>1, <1>2, <1>3, <1>5
  <2>2. CASE t # e /\ t \in children
    <3>1. tombstones'[t] = Generation + n[t] /\ tombstones[t] = 0
      BY <2>2, <1>1, <1>2
    <3>2. QED
      BY <2>2, <3>1, <1>2, <1>3, <1>5, <1>6
  <2>3. CASE t # e /\ t \notin children
    <3>1. tombstones'[t] = tombstones[t]
      BY <2>3, <1>1
    <3>2. tombstones[t] \in Nat /\ tombstones[t] <= deletionGeneration
      OBVIOUS
    <3>3. QED
      BY <3>1, <3>2, <1>2, <1>3, <1>5
  <2>4. QED
    BY <2>1, <2>2, <2>3
<1>8. MaterialOK'
  <2>1. tombstones' \in [Targets -> Nat]
    BY <1>1, <1>7
  <2>2. deletionGeneration' \in Nat
    BY <1>2, <1>3, <1>5
  <2>3. QED
    BY <1>2, <1>7, <2>1, <2>2
<1>9. OnlyThis(e)
  <2>1. ASSUME NEW t \in RawResponses, t # e, ~Tombstoned(t) PROVE ~Tombstoned(t)'
    <3>1. t \in Targets /\ t \notin children
      BY <1>3, KindsApart
    <3>2. tombstones'[t] = tombstones[t]
      BY <2>1, <3>1, <1>1
    <3>3. QED
      BY <2>1, <3>2 DEF Tombstoned
  <2>2. QED
    BY <2>1, <1>2 DEF OnlyThis, StaysLive
<1>10. tombstones'[e] # 0
  BY <1>1, <1>4, <1>5
<1>11. QED
  BY <1>2, <1>7, <1>8, <1>9, <1>10 DEF TombstonesGrow, NothingGoes

LEMMA PurgeStep ==
  ASSUME MaterialOK, NEW e \in Targets, material' = Purge(material, tombstones, e), material' # None,
         UNCHANGED ledgerVars
  PROVE  /\ MaterialOK'
         /\ \A c \in Entries : material[Contribution(c)] = "live" =>
               StaysLive(Contribution(c)) /\ StaysLive(Audio(c))
         /\ \A t \in Targets : material'[t] = "gone" => material[t] = "gone" \/ t \in Within(e)
  BY PurgeShape DEF MaterialOK, MaterialType, StaysLive, ledgerVars

-----------------------------------------------------------------------------
(* The steps, by what they are about.                                        *)

LEMMA ExportStepsKeepMaterial == ExportNext => UNCHANGED materialVars
  BY DEF ExportNext, CreateExport, BeginSnapshot, CreateSnapshot, ExportJob, ClaimExport, WriteItems,
         WriteBlob, StoreArchive, CompleteExport, AbandonExport, CrashExporter, ExportExpires,
         DeleteHostedArchive, MarkHostedArchiveDeleted, ExpireDue, CrashSweep

LEMMA TrashSteps == TrashNext => \E e \in Contributions \cup Audios : SoftDelete(e)
  BY TargetsOfEntry DEF TrashNext, SoftDeleteContribution, DeleteAudio

LEMMA DeletionSteps ==
  DeletionNext =>
    \/ \E e \in Targets : Request(e) \/ LeaseLapses(e)
    \/ \E w \in Purgers : RetentionJob(w)
  BY TargetsOfEntry, DayIsTarget DEF DeletionNext, DeleteDayPermanently, DeleteEntryPermanently,
     DeleteAudioPermanently, RequestPermanentDeletion, ExpiredRawResponses

retentionVars == <<backupVars, deletionVars, exportVars, materialVars>>

-----------------------------------------------------------------------------
(* The fence.                                                                *)

LEMMA FenceUnheld ==
  ASSUME DOMAIN purger = Purgers, NEW w \in Purgers, NEW job, ~FenceHeld,
         purger' = [purger EXCEPT ![w] = job], job # None => ~job.fenced
  PROVE  ~FenceHeld'
  BY DEF FenceHeld

LEMMA FenceInvJob ==
  ASSUME FenceInv, NEW w \in Purgers, RetentionJob(w), UNCHANGED backupVars
  PROVE  FenceInv'
<1> USE DEF FenceInv, backupVars
<1>1. CASE \E e \in Targets : ClaimDeletion(w, e)
  <2>1. PICK e \in Targets : ClaimDeletion(w, e)
    BY <1>1
  <2>2. /\ purger' = [purger EXCEPT ![w] = [target |-> e, fenced |-> FALSE]]
        /\ UNCHANGED <<sharers, blobs>>
    BY <2>1 DEF ClaimDeletion, materialVars
  <2>3. ~FenceHeld => ~FenceHeld'
    BY <2>2, FenceUnheld
  <2>4. QED
    BY <2>2, <2>3
<1>2. CASE TakeFence(w)
  <2>1. sharers = 0 /\ ~FenceHeld
    BY <1>2 DEF TakeFence, FenceFree
  <2>2. backup = None
    BY <2>1
  <2>3. DOMAIN purger' = Purgers
    BY <1>2 DEF TakeFence
  <2>4. QED
    BY <2>2, <2>3
<1>3. CASE \E b \in Targets : DeleteBlob(w, b)
  <2>1. Working(w) /\ UNCHANGED purger
    BY <1>3 DEF DeleteBlob
  <2>2. FenceHeld
    BY <2>1 DEF FenceHeld, Working
  <2>3. QED
    BY <2>1, <2>2
<1>4. CASE \E x \in Exports : DeleteExportArchive(w, x)
  <2>1. UNCHANGED <<purger, sharers, blobs>>
    BY <1>4 DEF DeleteExportArchive, materialVars
  <2>2. QED
    BY <2>1 DEF FenceHeld
<1>5. CASE CompleteDeletion(w) \/ MarkFailed(w) \/ CrashPurger(w)
  <2>1. purger' = [purger EXCEPT ![w] = None] /\ UNCHANGED <<sharers, blobs>>
    BY <1>5 DEF CompleteDeletion, MarkFailed, CrashPurger, materialVars
  <2>2. ~FenceHeld => ~FenceHeld'
    BY <2>1, FenceUnheld
  <2>3. QED
    BY <2>1, <2>2
<1>6. QED
  BY <1>1, <1>2, <1>3, <1>4, <1>5 DEF RetentionJob

LEMMA FenceInvBackup ==
  ASSUME FenceInv, BackupNext
  PROVE  FenceInv'
<1> USE DEF FenceInv
<1>1. CASE BeginBackup
  <2>1. /\ backup' = [phase |-> "copying",
                      image |-> Image(material, tombstones, LiveBlobRows(material, tombstones)),
                      present |-> blobs]
        /\ ~FenceHeld /\ sharers' = 1 /\ UNCHANGED <<torn, purger, blobs>>
    BY <1>1 DEF BeginBackup, materialVars
  <2>2. QED
    BY <2>1 DEF FenceHeld
<1>2. CASE CopyVerifiedBlobs
  <2>1. UNCHANGED <<purger, blobs>> /\ backup # None /\ backup.phase = "copying"
    BY <1>2 DEF CopyVerifiedBlobs, materialVars
  <2>2. CASE backup.image.blobs \subseteq blobs
    <3>1. backup' = [backup EXCEPT !.phase = "copied"] /\ UNCHANGED <<sharers, torn>>
      BY <1>2, <2>2 DEF CopyVerifiedBlobs
    <3>2. DOMAIN backup' = {"phase", "image", "present"} /\ backup'.phase # "copying"
      BY <2>1, <3>1
    <3>3. QED
      BY <2>1, <3>1, <3>2 DEF FenceHeld
  <2>3. CASE ~(backup.image.blobs \subseteq blobs)
    <3>1. /\ backup' = None
          /\ torn' = (torn \/ (backup.image.blobs \cap backup.present) \ blobs # {})
      BY <1>2, <2>3 DEF CopyVerifiedBlobs
    <3>2. (backup.image.blobs \cap backup.present) \ blobs = {}
      BY <2>1
    <3>3. QED
      BY <2>1, <3>1, <3>2
  <2>4. QED
    BY <2>2, <2>3
<1>3. CASE StoreSnapshot
  <2>1. /\ backup # None /\ backup' = [backup EXCEPT !.phase = "stored"]
        /\ UNCHANGED <<torn, sharers, purger, blobs>>
    BY <1>3 DEF StoreSnapshot, deletionVars, materialVars
  <2>2. DOMAIN backup' = {"phase", "image", "present"} /\ backup'.phase # "copying"
    BY <2>1
  <2>3. QED
    BY <2>1, <2>2 DEF FenceHeld
<1>4. CASE Checkpoint \/ EndBackup
  BY <1>4 DEF Checkpoint, EndBackup
<1>5. CASE RestoreBackup
  BY <1>5 DEF RestoreBackup, deletionVars, materialVars, FenceHeld
<1>6. QED
  BY <1>1, <1>2, <1>3, <1>4, <1>5 DEF BackupNext

LEMMA FenceInvNext ==
  ASSUME MaterialOK, FenceInv, [RetentionNext]_retentionVars
  PROVE  FenceInv'
<1> DEFINE still == UNCHANGED <<backup, torn, sharers, purger>>
<1>1. ASSUME still, blobs \subseteq blobs' PROVE FenceInv'
  BY <1>1 DEF FenceInv, FenceHeld
<1>2. CASE MaterialNext /\ UNCHANGED <<exportVars, deletionVars, backupVars>>
  BY <1>1, <1>2, MaterialStep DEF deletionVars, backupVars
<1>3. CASE TrashNext /\ UNCHANGED <<deletionVars, backupVars>>
  BY <1>1, <1>3, TrashSteps DEF SoftDelete, deletionVars, backupVars
<1>4. CASE DeletionNext /\ UNCHANGED backupVars
  <2>1. CASE \E e \in Targets : Request(e) \/ LeaseLapses(e)
    BY <1>1, <1>4, <2>1 DEF Request, LeaseLapses, backupVars, materialVars
  <2>2. CASE \E w \in Purgers : RetentionJob(w)
    BY <1>4, <2>2, FenceInvJob
  <2>3. QED
    BY <1>4, <2>1, <2>2, DeletionSteps
<1>5. CASE ExportNext /\ UNCHANGED <<deletionVars, backupVars>>
  BY <1>1, <1>5, ExportStepsKeepMaterial DEF materialVars, deletionVars, backupVars
<1>6. CASE BackupNext
  BY <1>6, FenceInvBackup
<1>7. CASE UNCHANGED retentionVars
  BY <1>1, <1>7 DEF retentionVars, materialVars, deletionVars, backupVars
<1>8. QED
  BY <1>2, <1>3, <1>4, <1>5, <1>6, <1>7 DEF RetentionNext

-----------------------------------------------------------------------------
(* Exports: what a step does to the material.                                *)

\* The audio of a live entry, and raw responses without a tombstone, are not touched.
Keeps ==
    /\ \A c \in Entries : material[Contribution(c)] = "live" =>
          StaysLive(Contribution(c)) /\ StaysLive(Audio(c))
    /\ \A t \in RawResponses : tombstones[t] = 0 => tombstones'[t] = 0

LEMMA ShowsStays ==
  ASSUME Keeps, NEW items, NEW leases, Shows(items, leases, material, tombstones)
  PROVE  Shows(items, leases, material', tombstones')
<1>1. \A e \in items \cap Contributions : material'[e] = "live"
  BY KindsApart DEF Shows, Keeps, StaysLive
<1>2. ASSUME NEW e \in leases, e \in Audios PROVE material'[e] = "live"
  <2>1. e.of \in Entries /\ e = Audio(e.of)
    BY <1>2, KindsApart
  <2>2. Contribution(e.of) \in items \cap Contributions
    BY <2>1, TargetsOfEntry DEF Shows
  <2>3. material[Contribution(e.of)] = "live" /\ material[e] = "live"
    BY <1>2, <2>2 DEF Shows
  <2>4. QED
    BY <2>1, <2>3 DEF Keeps, StaysLive
<1>3. QED
  BY <1>1, <1>2 DEF Shows, Keeps

LEMMA ShowsOthers ==
  ASSUME NEW e, OnlyThis(e), NEW items, NEW leases, Shows(items, leases, material, tombstones),
         e \notin items, e \notin leases
  PROVE  Shows(items, leases, material', tombstones')
  BY DEF Shows, OnlyThis, StaysLive, Tombstoned

LEMMA ExportInvKept ==
  ASSUME ExportInv, Keeps, UNCHANGED <<exports, snapshot, exporter, sweep, strays>>,
         DOMAIN archives' = Exports, \A x \in Exports : archives'[x] \in {archives[x], None}
  PROVE  ExportInv'
<1>1. ExportType'
  BY DEF ExportInv, ExportType
<1>2. ASSUME NEW x \in Exports PROVE ExportOK(x)'
  <2>1. SnapshotInv(x) /\ ContentInv(x) /\ FoundInv(x)
    BY DEF ExportInv, ExportOK
  <2>2. SnapshotInv(x)'
    BY <2>1, ShowsStays DEF SnapshotInv
  <2>3. ContentInv(x)'
    BY <2>1, ShowsStays DEF ContentInv, Exporting
  <2>4. FoundInv(x)'
    BY <2>1 DEF FoundInv, Exporting
  <2>5. QED
    BY <2>2, <2>3, <2>4 DEF ExportOK
<1>3. QED
  BY <1>1, <1>2 DEF ExportInv

LEMMA CloseRow ==
  ASSUME NEW row \in ExportRow, NEW status \in Closed \cup {"completed"}
  PROVE  /\ Close(row, status) \in ExportRow /\ Close(row, status) # None
         /\ Close(row, status).status = status
         /\ Close(row, status).items = row.items /\ Close(row, status).leases = row.leases
         /\ Close(row, status).archiveBlobKey = row.archiveBlobKey
  BY ExportAssumption DEF Close, ExportRow

LEMMA ExportInvPutAway ==
  ASSUME ExportInv, NEW e, OnlyThis(e), InvalidateExportsForEntity(e),
         UNCHANGED <<snapshot, exporter, archives, sweep, strays>>
  PROVE  ExportInv'
<1>1. (\A x \in Exports : snapshot[x] = None) /\ exports' = Invalidate(e)
  BY DEF InvalidateExportsForEntity, SnapshotOpen
<1>2. ASSUME NEW x \in Exports, exports[x] = None PROVE exports'[x] = None
  BY <1>1, <1>2 DEF Invalidate, Invalidated
<1>3. ASSUME NEW x \in Exports, exports[x] # None
      PROVE  /\ exports'[x] \in ExportRow /\ exports'[x] # None
             /\ exports'[x].items = exports[x].items /\ exports'[x].leases = exports[x].leases
             /\ exports'[x].archiveBlobKey = exports[x].archiveBlobKey
             /\ exports'[x].status = exports[x].status \/ exports'[x].status = "invalidated"
             /\ exports'[x].status \in Open =>
                   exports[x].status \in Open /\ e \notin exports[x].items \cup exports[x].leases
  <2>1. exports[x] \in ExportRow
    BY <1>3 DEF ExportInv, ExportType
  <2>2. CASE x \in Invalidated(e)
    <3>1. exports'[x] = Close(exports[x], "invalidated")
      BY <1>1, <2>2 DEF Invalidate
    <3>2. QED
      BY <2>1, <3>1, CloseRow DEF Open, Closed
  <2>3. CASE x \notin Invalidated(e)
    <3>1. exports'[x] = exports[x]
      BY <1>1, <2>3 DEF Invalidate
    <3>2. exports[x].status \in Open => e \notin exports[x].items \cup exports[x].leases
      BY <1>3, <2>3 DEF Invalidated, Open, Holds
    <3>3. QED
      BY <1>3, <2>1, <3>1, <3>2
  <2>4. QED
    BY <2>2, <2>3
<1>4. ExportType'
  <2>1. DOMAIN exports' = Exports
    BY <1>1 DEF Invalidate
  <2>2. \A x \in Exports : exports'[x] \in ExportRow \cup {None}
    BY <1>2, <1>3
  <2>3. exports' \in [Exports -> ExportRow \cup {None}]
    BY <1>1, <2>2 DEF Invalidate
  <2>4. QED
    BY <2>3 DEF ExportInv, ExportType
<1>5. ASSUME NEW x \in Exports PROVE ExportOK(x)'
  <2>1. SnapshotInv(x) /\ ContentInv(x) /\ FoundInv(x)
    BY DEF ExportInv, ExportOK
  <2>2. SnapshotInv(x)'
    BY <1>1 DEF SnapshotInv
  <2>3. ContentInv(x)'
    <3>1. exports'[x] # None /\ exports'[x].status \in Open =>
             Shows(exports'[x].items, exports'[x].leases, material', tombstones')
      BY <1>2, <1>3, <2>1, ShowsOthers DEF ContentInv
    <3>2. exports[x] # None => exports'[x] # None /\ Carried(exports[x]) = Carried(exports'[x])
      BY <1>3 DEF Carried
    <3>3. QED
      BY <2>1, <3>1, <3>2 DEF ContentInv, Exporting
  <2>4. FoundInv(x)'
    <3>1. exports[x] # None => /\ exports'[x].archiveBlobKey = exports[x].archiveBlobKey
                               /\ exports'[x] # None
                               /\ exports'[x].status = "queued" => exports[x].status = "queued"
      BY <1>3
    <3>2. QED
      BY <1>2, <2>1, <3>1 DEF FoundInv, ContentInv, Exporting
  <2>5. QED
    BY <2>2, <2>3, <2>4 DEF ExportOK
<1>6. QED
  BY <1>4, <1>5 DEF ExportInv

-----------------------------------------------------------------------------
(* Exports: their own steps.                                                 *)

\* What a step leaves alone of an export.
Spared(y) ==
    /\ exports'[y] = exports[y] /\ snapshot'[y] = snapshot[y] /\ exporter'[y] = exporter[y]
    /\ archives'[y] = archives[y] /\ (y \in strays => y \in strays')
    /\ (y \in sweep' => y \in sweep)

LEMMA SparedStays ==
  ASSUME UNCHANGED materialVars, NEW y, ExportOK(y), Spared(y)
  PROVE  ExportOK(y)'
  BY DEF ExportOK, SnapshotInv, ContentInv, FoundInv, Spared, Exporting, materialVars

\* A step is right if it is right about the export it is about.
LEMMA ExportInvOwn ==
  ASSUME ExportInv, UNCHANGED materialVars, NEW x \in Exports, ExportType',
         ExportOK(x)', \A y \in Exports \ {x} : Spared(y)
  PROVE  ExportInv'
  BY SparedStays DEF ExportInv

\* A variable that is changed at one place, or at none.
ChangedAt(f, g, x, value) ==
    DOMAIN f = DOMAIN g /\ f[x] = value /\ \A y \in DOMAIN g \ {x} : f[y] = g[y]

\* The steps of the job of an export change its row, the job and the archive.
LEMMA ExportInvJob ==
  ASSUME ExportInv, UNCHANGED <<snapshot, sweep, materialVars>>, NEW x \in Exports,
         NEW row, NEW job, NEW archive,
         exports' = [exports EXCEPT ![x] = row], ChangedAt(exporter', exporter, x, job),
         ChangedAt(archives', archives, x, archive),
         strays' = strays \/ strays' = strays \cup {x},
         exports[x] # None, row \in ExportRow,
         row.items = exports[x].items, row.leases = exports[x].leases,
         row.status \in Open => exports[x].status \in Open,
         DOMAIN job = {"phase", "content"}, job.phase \in Phases,
         job.phase # "idle" => job.content \subseteq Carried(row),
         archive # None => archive \subseteq Carried(row),
         archive # None => job.phase # "idle" \/ row.archiveBlobKey \/ x \in strays',
         job.phase \in {"items", "blobs"} => archive = None,
         row.status = "queued" => archive = None /\ job.phase = "idle",
         job.phase = "unanswered" => row.archiveBlobKey \/ archive = None
  PROVE  ExportInv'
<1>1. ExportType /\ ExportOK(x)
  BY DEF ExportInv
<1>2. /\ exports'[x] = row /\ exporter'[x] = job /\ archives'[x] = archive
      /\ DOMAIN exports = Exports /\ row # None
      /\ \A y \in Exports \ {x} : exporter'[y] = exporter[y] /\ archives'[y] = archives[y]
      /\ DOMAIN exporter' = Exports /\ DOMAIN archives' = Exports
  BY <1>1, ExportAssumption DEF ExportType, ChangedAt
<1>3. ExportType'
  <2>1. exports' \in [Exports -> ExportRow \cup {None}]
    BY <1>1 DEF ExportType
  <2>2. QED
    BY <1>1, <1>2, <2>1 DEF ExportType
<1>4. \A y \in Exports \ {x} : Spared(y)
  BY <1>1, <1>2 DEF ExportType, Spared
<1>5. ExportOK(x)'
  <2>1. SnapshotInv(x)'
    BY <1>1 DEF ExportOK, SnapshotInv
  <2>2. ContentInv(x)'
    <3>1. row.status \in Open => Shows(row.items, row.leases, material, tombstones)
      BY <1>1 DEF ExportOK, ContentInv
    <3>2. QED
      BY <1>2, <3>1 DEF ContentInv, Exporting, materialVars
  <2>3. FoundInv(x)'
    BY <1>2 DEF FoundInv, Exporting
  <2>4. QED
    BY <2>1, <2>2, <2>3 DEF ExportOK
<1>6. QED
  BY <1>3, <1>4, <1>5, ExportInvOwn

LEMMA ExportRowFacts ==
  ASSUME ExportInv, NEW x \in Exports
  PROVE  /\ exports[x] # None => exports[x] \in ExportRow
         /\ DOMAIN exports = Exports /\ DOMAIN exporter = Exports /\ DOMAIN archives = Exports
         /\ exports = [exports EXCEPT ![x] = exports[x]]
         /\ DOMAIN exporter[x] = {"phase", "content"} /\ exporter[x].phase \in Phases
         /\ SnapshotInv(x) /\ ContentInv(x) /\ FoundInv(x)
<1>1. ExportType /\ ExportOK(x)
  BY DEF ExportInv
<1>2. QED
  BY <1>1 DEF ExportType, ExportOK

LEMMA ChangedAtOne ==
  ASSUME NEW g, NEW x \in DOMAIN g, NEW value
  PROVE  ChangedAt([g EXCEPT ![x] = value], g, x, value) /\ ChangedAt(g, g, x, g[x])
  BY DEF ChangedAt

LEMMA ExportInvClaim ==
  ASSUME ExportInv, NEW x \in Exports, ClaimExport(x)
  PROVE  ExportInv'
<1>1. /\ exports[x] # None /\ ~Exporting(x) /\ exports[x].status = "queued"
      /\ UNCHANGED <<snapshot, archives, sweep, strays, materialVars>>
  BY DEF ClaimExport
<1>2. PICK row : row = exports[x]
  OBVIOUS
<1>3. /\ row \in ExportRow /\ archives[x] = None /\ exporter[x].phase = "idle"
      /\ DOMAIN exports = Exports /\ DOMAIN exporter = Exports /\ DOMAIN archives = Exports
      /\ DOMAIN exporter[x] = {"phase", "content"}
  BY <1>1, <1>2, ExportRowFacts DEF FoundInv, Exporting
<1>4. ChangedAt(archives', archives, x, None)
  BY <1>1, <1>3, ChangedAtOne
<1>5. CASE exports[x].due
  <2>1. exports' = [exports EXCEPT ![x] = Close(row, "expired")] /\ UNCHANGED exporter
    BY <1>2, <1>5 DEF ClaimExport
  <2>2. ChangedAt(exporter', exporter, x, exporter[x])
    BY <1>3, <2>1, ChangedAtOne
  <2>3. /\ Close(row, "expired") \in ExportRow /\ Close(row, "expired").status = "expired"
        /\ Close(row, "expired").items = row.items /\ Close(row, "expired").leases = row.leases
    BY <1>3, CloseRow DEF Closed
  <2>4. PICK new, job : new = Close(row, "expired") /\ job = exporter[x]
    OBVIOUS
  <2>5. QED
    BY <1>1, <1>2, <1>3, <1>4, <2>1, <2>2, <2>3, <2>4, ExportInvJob DEF Open, Phases
<1>6. CASE ~exports[x].due
  <2>1. PICK new, job : /\ new = [row EXCEPT !.status = "running"]
                        /\ job = [phase |-> "items", content |-> {}]
    OBVIOUS
  <2>2. exports' = [exports EXCEPT ![x] = new] /\ exporter' = [exporter EXCEPT ![x] = job]
    BY <1>2, <1>3, <1>6, <2>1 DEF ClaimExport
  <2>3. ChangedAt(exporter', exporter, x, job)
    BY <1>3, <2>2, ChangedAtOne
  <2>4. /\ new \in ExportRow /\ new.status = "running"
        /\ new.items = row.items /\ new.leases = row.leases
    BY <1>3, <2>1 DEF ExportRow
  <2>5. DOMAIN job = {"phase", "content"} /\ job.phase = "items" /\ job.content = {}
    BY <2>1
  <2>6. QED
    BY <1>1, <1>2, <1>3, <1>4, <2>2, <2>3, <2>4, <2>5, ExportInvJob DEF Open, Phases
<1>7. QED
  BY <1>5, <1>6

LEMMA ExportInvWrite ==
  ASSUME ExportInv, NEW x \in Exports, WriteItems(x) \/ \E e \in Targets : WriteBlob(x, e)
  PROVE  ExportInv'
<1>1. PICK row, old : row = exports[x] /\ old = exporter[x]
  OBVIOUS
<1>2. /\ old.phase \in {"items", "blobs"} /\ row.status = "running"
      /\ UNCHANGED <<exports, snapshot, archives, sweep, strays, materialVars>>
  BY <1>1 DEF WriteItems, WriteBlob, AssertRunnable
<1>3. /\ exports[x] # None /\ row \in ExportRow /\ archives[x] = None
      /\ old.content \subseteq Carried(row)
      /\ exports' = [exports EXCEPT ![x] = row]
      /\ x \in DOMAIN exporter /\ x \in DOMAIN archives /\ DOMAIN old = {"phase", "content"}
  BY <1>1, <1>2, ExportRowFacts DEF FoundInv, ContentInv, Exporting
<1>4. PICK job :
         /\ exporter' = [exporter EXCEPT ![x] = job]
         /\ DOMAIN job = {"phase", "content"} /\ job.phase = "blobs" /\ job.content \subseteq Carried(row)
  <2>1. CASE WriteItems(x)
    <3>1. PICK job : job = [phase |-> "blobs", content |-> row.items]
      OBVIOUS
    <3>2. exporter' = [exporter EXCEPT ![x] = job]
      BY <1>1, <2>1, <3>1 DEF WriteItems
    <3>3. job.content \subseteq Carried(row) /\ job.phase = "blobs"
      BY <3>1 DEF Carried
    <3>4. DOMAIN job = {"phase", "content"}
      BY <3>1
    <3>5. QED
      BY <3>2, <3>3, <3>4
  <2>2. CASE \E e \in Targets : WriteBlob(x, e)
    <3>1. PICK e \in Targets : WriteBlob(x, e)
      BY <2>2
    <3>2. PICK job : job = [old EXCEPT !.content = @ \cup {e, Bytes(e)}]
      OBVIOUS
    <3>3. e \in row.leases /\ old.phase = "blobs"
      BY <1>1, <3>1 DEF WriteBlob, BlobLeases
    <3>4. exporter' = [exporter EXCEPT ![x] = job]
      BY <1>1, <1>3, <3>1, <3>2 DEF WriteBlob
    <3>5. DOMAIN job = {"phase", "content"} /\ job.phase = "blobs"
      BY <1>3, <3>2, <3>3
    <3>6. job.content = old.content \cup {e, Bytes(e)}
      BY <1>3, <3>2
    <3>7. {e, Bytes(e)} \subseteq Carried(row)
      BY <3>3 DEF Carried
    <3>8. QED
      BY <1>3, <3>4, <3>5, <3>6, <3>7
  <2>3. QED
    BY <2>1, <2>2
<1>5. ChangedAt(exporter', exporter, x, job) /\ ChangedAt(archives', archives, x, None)
  BY <1>2, <1>3, <1>4, ChangedAtOne
<1>6. QED
  BY <1>1, <1>2, <1>3, <1>4, <1>5, ExportInvJob DEF Phases

LEMMA ExportInvStore ==
  ASSUME ExportInv, NEW x \in Exports, StoreArchive(x)
  PROVE  ExportInv'
<1>1. PICK row, old, job, archive :
         /\ row = exports[x] /\ old = exporter[x] /\ archive = old.content
         /\ job = [old EXCEPT !.phase = "stored"]
  OBVIOUS
<1>2. /\ old.phase = "blobs" /\ UNCHANGED <<exports, snapshot, sweep, strays, materialVars>>
      /\ archives' = [archives EXCEPT ![x] = archive]
  BY <1>1 DEF StoreArchive
<1>3. /\ exports[x] # None /\ row \in ExportRow /\ archive \subseteq Carried(row)
      /\ exports' = [exports EXCEPT ![x] = row]
      /\ x \in DOMAIN exporter /\ x \in DOMAIN archives /\ DOMAIN old = {"phase", "content"}
  BY <1>1, <1>2, ExportRowFacts DEF ContentInv, Exporting
<1>4. exporter' = [exporter EXCEPT ![x] = job]
  BY <1>1, <1>3 DEF StoreArchive
<1>5. DOMAIN job = {"phase", "content"} /\ job.phase = "stored" /\ job.content = archive
  BY <1>1, <1>3
<1>6. ChangedAt(exporter', exporter, x, job) /\ ChangedAt(archives', archives, x, archive)
  BY <1>2, <1>3, <1>4, ChangedAtOne
<1>7. row.status # "queued"
  BY <1>1, <1>2, ExportRowFacts DEF FoundInv, Exporting
<1>8. QED
  BY <1>1, <1>2, <1>3, <1>5, <1>6, <1>7, ExportInvJob DEF Phases

LEMMA ExportInvComplete ==
  ASSUME ExportInv, NEW x \in Exports, CompleteExport(x)
  PROVE  ExportInv'
<1>1. PICK row, old : row = exports[x] /\ old = exporter[x]
  OBVIOUS
<1>2. old.phase = "stored" /\ UNCHANGED <<snapshot, sweep, strays, materialVars>>
  BY <1>1 DEF CompleteExport
<1>3. /\ exports[x] # None /\ row \in ExportRow /\ old.content \subseteq Carried(row)
      /\ archives[x] # None => archives[x] \subseteq Carried(row)
      /\ row.status # "queued"
      /\ x \in DOMAIN exports /\ x \in DOMAIN exporter /\ x \in DOMAIN archives
      /\ DOMAIN old = {"phase", "content"}
  BY <1>1, <1>2, ExportRowFacts DEF FoundInv, ContentInv, Exporting
<1>4. CASE exports[x].status = "running"
  <2>1. PICK answered \in BOOLEAN :
           /\ exports' = [exports EXCEPT ![x] =
                             [Close(exports[x], "completed") EXCEPT !.archiveBlobKey = TRUE]]
           /\ exporter' = [exporter EXCEPT ![x] =
                             IF answered THEN NoJob ELSE [exporter[x] EXCEPT !.phase = "unanswered"]]
           /\ UNCHANGED archives
    BY <1>3, <1>4 DEF CompleteExport
  <2>2. PICK new, job :
           /\ new = [Close(row, "completed") EXCEPT !.archiveBlobKey = TRUE]
           /\ job = IF answered THEN NoJob ELSE [old EXCEPT !.phase = "unanswered"]
    OBVIOUS
  <2>3. exports' = [exports EXCEPT ![x] = new] /\ exporter' = [exporter EXCEPT ![x] = job]
    BY <1>1, <2>1, <2>2
  <2>4. /\ new \in ExportRow /\ new.status = "completed" /\ new.archiveBlobKey
        /\ new.items = row.items /\ new.leases = row.leases
    BY <1>3, <2>2 DEF Close, ExportRow
  <2>5. /\ DOMAIN job = {"phase", "content"} /\ job.phase \in {"idle", "unanswered"}
        /\ job.content \subseteq Carried(new)
    BY <1>3, <2>2, <2>4 DEF NoJob, Carried
  <2>6. ChangedAt(exporter', exporter, x, job) /\ ChangedAt(archives', archives, x, archives[x])
    <3>1. ChangedAt(exporter', exporter, x, job)
      BY <1>3, <2>3, ChangedAtOne
    <3>2. QED
      BY <1>3, <2>1, <3>1, ChangedAtOne
  <2>7. archives[x] # None => archives[x] \subseteq Carried(new)
    BY <1>3, <2>4 DEF Carried
  <2>8. PICK archive : archive = archives[x]
    OBVIOUS
  <2>9. QED
    BY <1>1, <1>2, <1>3, <1>4, <2>3, <2>4, <2>5, <2>6, <2>7, <2>8, ExportInvJob DEF Open, Phases
<1>5. CASE exports[x].status # "running"
  <2>1. PICK new : new = [row EXCEPT !.released = TRUE]
    OBVIOUS
  <2>2. exports' = [exports EXCEPT ![x] = new] /\ exporter' = [exporter EXCEPT ![x] = NoJob]
    BY <1>1, <1>3, <1>5, <2>1 DEF CompleteExport
  <2>3. archives' = [archives EXCEPT ![x] = None]
    BY <1>5 DEF CompleteExport
  <2>4. /\ new \in ExportRow /\ new.status = row.status
        /\ new.items = row.items /\ new.leases = row.leases
    BY <1>3, <2>1 DEF ExportRow
  <2>5. ChangedAt(exporter', exporter, x, NoJob) /\ ChangedAt(archives', archives, x, None)
    BY <1>3, <2>2, <2>3, ChangedAtOne
  <2>6. QED
    BY <1>1, <1>2, <1>3, <2>2, <2>4, <2>5, ExportInvJob DEF Phases, NoJob
<1>6. QED
  BY <1>4, <1>5

LEMMA ExportInvLost ==
  ASSUME ExportInv, NEW x \in Exports, AbandonExport(x) \/ CrashExporter(x)
  PROVE  ExportInv'
<1>1. PICK row, archive : row = exports[x] /\ archive = archives'[x]
  OBVIOUS
<1>2. /\ Exporting(x) /\ exporter' = [exporter EXCEPT ![x] = NoJob]
      /\ UNCHANGED <<snapshot, sweep, materialVars>>
  BY DEF AbandonExport, CrashExporter
<1>3. /\ exports[x] # None /\ row \in ExportRow /\ row.status # "queued"
      /\ archives[x] # None => archives[x] \subseteq Carried(row)
      /\ archives[x] # None => exporter[x].phase = "stored" \/ row.archiveBlobKey
      /\ x \in DOMAIN exports /\ x \in DOMAIN exporter /\ x \in DOMAIN archives
      /\ exports = [exports EXCEPT ![x] = row]
  BY <1>1, <1>2, ExportRowFacts DEF FoundInv, ContentInv, Exporting, Phases
<1>4. /\ archive \in {archives[x], None} /\ ChangedAt(archives', archives, x, archive)
      /\ strays' = strays \/ strays' = strays \cup {x}
      /\ archive # None => row.archiveBlobKey \/ x \in strays'
  <2>1. CASE AbandonExport(x)
    <3>1. CASE archives' = [archives EXCEPT ![x] = None] /\ UNCHANGED strays
      BY <1>1, <1>3, <3>1, ChangedAtOne
    <3>2. CASE archives[x] # None /\ strays' = strays \cup {x} /\ UNCHANGED archives
      BY <1>1, <1>3, <3>2, ChangedAtOne
    <3>3. QED
      BY <2>1, <3>1, <3>2 DEF AbandonExport
  <2>2. CASE CrashExporter(x)
    <3>1. /\ UNCHANGED archives
          /\ strays' = IF exporter[x].phase = "stored" THEN strays \cup {x} ELSE strays
      BY <2>2 DEF CrashExporter
    <3>2. QED
      BY <1>1, <1>3, <3>1, ChangedAtOne
  <2>3. QED
    BY <2>1, <2>2
<1>5. PICK new :
         /\ exports' = [exports EXCEPT ![x] = new] /\ new \in ExportRow
         /\ new.status \in {row.status, "failed"} /\ new.archiveBlobKey = row.archiveBlobKey
         /\ new.items = row.items /\ new.leases = row.leases
  <2>1. CASE AbandonExport(x) /\ row.status \in {"queued", "running"}
    <3>1. PICK new : new = Close(row, "failed")
      OBVIOUS
    <3>2. exports' = [exports EXCEPT ![x] = new]
      BY <1>1, <1>3, <2>1, <3>1 DEF AbandonExport, FailExport
    <3>3. /\ new \in ExportRow /\ new.status = "failed"
          /\ new.archiveBlobKey = row.archiveBlobKey
          /\ new.items = row.items /\ new.leases = row.leases
      BY <1>3, <3>1, CloseRow DEF Closed
    <3>4. QED
      BY <3>2, <3>3
  <2>2. CASE CrashExporter(x) \/ row.status \notin {"queued", "running"}
    <3>1. exports' = exports
      BY <1>1, <1>3, <2>2 DEF AbandonExport, FailExport, CrashExporter
    <3>2. exports' = [exports EXCEPT ![x] = row]
      BY <1>3, <3>1
    <3>3. QED
      BY <1>3, <3>2
  <2>3. QED
    BY <2>1, <2>2
<1>6. ChangedAt(exporter', exporter, x, NoJob) /\ Carried(new) = Carried(row)
  BY <1>2, <1>3, <1>5, ChangedAtOne DEF Carried
<1>7. NoJob.phase = "idle" /\ DOMAIN NoJob = {"phase", "content"}
  BY DEF NoJob
<1>8. archive # None => archive \subseteq Carried(new)
  BY <1>3, <1>4, <1>6
<1>9. PICK job : job = NoJob
  OBVIOUS
<1>10. QED
  BY <1>1, <1>2, <1>3, <1>4, <1>5, <1>6, <1>7, <1>8, <1>9, ExportInvJob DEF Open, Phases

LEMMA SnapshotShows ==
  ASSUME NEW audio \in BOOLEAN, NEW raw \in BOOLEAN, NEW leases,
         leases = (IF audio THEN AudioLeases ELSE {}) \cup (IF raw THEN RawLeases ELSE {})
  PROVE  /\ Shows(SnapshotItems, leases, material, tombstones)
         /\ SnapshotItems \subseteq Targets /\ leases \subseteq Targets
<1>1. leases \subseteq Audios \cup RawResponses
  BY DEF AudioLeases, RawLeases
<1>2. \A e \in SnapshotItems \cap Contributions : material[e] = "live"
  <2>1. \A e \in Contributions : e # Day
    BY KindsApart, DayIsTarget
  <2>2. QED
    BY <2>1, KindsApart DEF SnapshotItems
<1>3. ASSUME NEW e \in leases
      PROVE  /\ Contribution(e.of) \in SnapshotItems
             /\ e \in Audios => material[e] = "live"
             /\ e \in RawResponses => tombstones[e] = 0
  <2>1. e.of \in Entries /\ (e \in Audios => e \notin RawResponses)
    BY <1>1, KindsApart
  <2>2. material[Contribution(e.of)] = "live"
    BY DEF AudioLeases, RawLeases
  <2>3. Contribution(e.of) \in SnapshotItems
    BY <2>1, <2>2, TargetsOfEntry DEF SnapshotItems
  <2>4. QED
    BY <2>1, <2>3 DEF AudioLeases, RawLeases, Tombstoned
<1>4. SnapshotItems \subseteq Targets /\ leases \subseteq Targets
  BY <1>1, KindsApart, DayIsTarget DEF SnapshotItems
<1>5. QED
  BY <1>1, <1>2, <1>3, <1>4 DEF Shows

LEMMA ExportInvSnapshot ==
  ASSUME ExportInv, NEW x \in Exports, CreateExport(x)
  PROVE  ExportInv'
<1>1. PICK audio \in BOOLEAN, raw \in BOOLEAN : BeginSnapshot(x, audio, raw)
  BY DEF CreateExport
<1>2. PICK leases, seen :
         /\ leases = (IF audio THEN AudioLeases ELSE {}) \cup (IF raw THEN RawLeases ELSE {})
         /\ seen = [items |-> SnapshotItems, leases |-> leases]
  OBVIOUS
<1>3. /\ snapshot' = [snapshot EXCEPT ![x] = seen] /\ exports[x] = None
      /\ UNCHANGED <<exports, exporter, archives, sweep, strays, materialVars>>
  BY <1>1, <1>2 DEF BeginSnapshot
<1>4. DOMAIN seen = {"items", "leases"} /\ seen.items = SnapshotItems /\ seen.leases = leases
  BY <1>2
<1>5. /\ Shows(seen.items, seen.leases, material, tombstones)
      /\ seen.items \subseteq Targets /\ seen.leases \subseteq Targets
  BY <1>2, <1>4, SnapshotShows
<1>6. ExportType /\ ExportOK(x)
  BY DEF ExportInv
<1>7. snapshot'[x] = seen /\ \A y \in Exports \ {x} : snapshot'[y] = snapshot[y]
  BY <1>3, <1>6 DEF ExportType
<1>8. ExportType'
  <2>1. \A y \in Exports : snapshot'[y] # None =>
           /\ DOMAIN snapshot'[y] = {"items", "leases"}
           /\ snapshot'[y].items \subseteq Targets /\ snapshot'[y].leases \subseteq Targets
    BY <1>4, <1>5, <1>6, <1>7 DEF ExportType
  <2>2. QED
    BY <1>3, <1>6, <2>1 DEF ExportType
<1>9. ExportOK(x)'
  BY <1>3, <1>5, <1>6, <1>7
     DEF ExportOK, SnapshotInv, ContentInv, FoundInv, Exporting, materialVars
<1>10. \A y \in Exports \ {x} : Spared(y)
  BY <1>3, <1>7 DEF Spared
<1>11. QED
  BY <1>3, <1>8, <1>9, <1>10, ExportInvOwn

LEMMA ExportInvCreate ==
  ASSUME ExportInv, NEW x \in Exports, CreateSnapshot(x)
  PROVE  ExportInv'
<1>1. PICK row : row = ExportRequest(snapshot[x].items, snapshot[x].leases)
  OBVIOUS
<1>2. /\ snapshot[x] # None /\ snapshot' = [snapshot EXCEPT ![x] = None]
      /\ exports' = [exports EXCEPT ![x] = row]
      /\ UNCHANGED <<exporter, archives, sweep, strays, materialVars>>
  BY <1>1 DEF CreateSnapshot
<1>3. ExportType /\ SnapshotInv(x) /\ ContentInv(x) /\ FoundInv(x)
  BY DEF ExportInv, ExportOK
<1>4. /\ row \in ExportRow /\ row.items = snapshot[x].items /\ row.leases = snapshot[x].leases
      /\ row # None
  <2>1. snapshot[x].items \in SUBSET Targets /\ snapshot[x].leases \in SUBSET Targets
    BY <1>2, <1>3 DEF ExportType
  <2>2. row \in ExportRow
    BY <1>1, <2>1 DEF ExportRequest, ExportRow
  <2>3. QED
    BY <1>1, <2>2, ExportAssumption DEF ExportRequest
<1>5. /\ exports'[x] = row /\ snapshot'[x] = None
      /\ \A y \in Exports \ {x} : exports'[y] = exports[y] /\ snapshot'[y] = snapshot[y]
      /\ exports' \in [Exports -> ExportRow \cup {None}] /\ DOMAIN snapshot' = Exports
  BY <1>2, <1>3, <1>4 DEF ExportType
<1>6. ExportType'
  BY <1>2, <1>3, <1>5 DEF ExportType
<1>7. ExportOK(x)'
  <2>1. exports[x] = None /\ Shows(row.items, row.leases, material, tombstones)
    BY <1>2, <1>3, <1>4 DEF SnapshotInv
  <2>2. archives[x] = None /\ ~Exporting(x)
    BY <1>3, <2>1 DEF FoundInv
  <2>3. archives'[x] = None /\ ~Exporting(x)'
    BY <1>2, <2>2 DEF Exporting
  <2>4. SnapshotInv(x)' /\ ContentInv(x)'
    BY <1>2, <1>5, <2>1, <2>3 DEF SnapshotInv, ContentInv, materialVars
  <2>5. FoundInv(x)'
    BY <1>4, <1>5, <2>3 DEF FoundInv, Exporting
  <2>6. QED
    BY <2>4, <2>5 DEF ExportOK
<1>8. \A y \in Exports \ {x} : Spared(y)
  BY <1>2, <1>5 DEF Spared
<1>9. QED
  BY <1>2, <1>6, <1>7, <1>8, ExportInvOwn

\* Expiry ends exports; the row still says what its archive may hold and
\* names it until it is gone.
LEMMA ExportInvRows ==
  ASSUME ExportInv, UNCHANGED <<snapshot, exporter, strays, materialVars>>,
         exports' \in [Exports -> ExportRow \cup {None}], DOMAIN archives' = Exports,
         \A x \in Exports :
            /\ exports[x] = None => exports'[x] = None
            /\ exports[x] # None =>
                  /\ exports'[x] # None
                  /\ exports'[x].items = exports[x].items /\ exports'[x].leases = exports[x].leases
                  /\ exports'[x].status \in {exports[x].status} \cup Closed
                  /\ exports'[x].archiveBlobKey = exports[x].archiveBlobKey \/ archives'[x] = None
            /\ archives'[x] \in {archives[x], None}
            /\ x \in sweep' => exports[x] # None
  PROVE  ExportInv'
<1>1. ExportType'
  BY DEF ExportInv, ExportType
<1>2. ASSUME NEW x \in Exports PROVE ExportOK(x)'
  <2>1. SnapshotInv(x) /\ ContentInv(x) /\ FoundInv(x)
    BY DEF ExportInv, ExportOK
  <2>2. SnapshotInv(x)'
    BY <2>1 DEF SnapshotInv, materialVars
  <2>3. ContentInv(x)'
    <3>1. exports[x] # None => Carried(exports'[x]) = Carried(exports[x])
      BY DEF Carried
    <3>2. exports'[x] # None /\ exports'[x].status \in Open => exports[x].status \in Open
      BY DEF Open, Closed
    <3>3. QED
      BY <2>1, <3>1, <3>2 DEF ContentInv, Exporting, materialVars
  <2>4. FoundInv(x)'
    <3>1. exports'[x] # None /\ exports'[x].status = "queued" => exports[x].status = "queued"
      BY DEF Closed
    <3>2. QED
      BY <2>1, <3>1 DEF FoundInv, ContentInv, Exporting
  <2>5. QED
    BY <2>2, <2>3, <2>4 DEF ExportOK
<1>3. QED
  BY <1>1, <1>2 DEF ExportInv

LEMMA ExportInvExpire ==
  ASSUME ExportInv, ExpireDue
  PROVE  ExportInv'
<1>1. /\ exports' = [x \in Exports |->
                       IF ~Due(x) THEN exports[x]
                       ELSE IF exports[x].status \in Closed
                            THEN Close(exports[x], exports[x].status)
                            ELSE Close(exports[x], "expired")]
      /\ UNCHANGED <<snapshot, exporter, archives, strays, materialVars>>
  BY DEF ExpireDue
<1>2. ASSUME NEW x \in Exports
      PROVE  /\ exports[x] = None => exports'[x] = None
             /\ exports[x] # None =>
                   /\ exports'[x] \in ExportRow /\ exports'[x] # None
                   /\ exports'[x].items = exports[x].items /\ exports'[x].leases = exports[x].leases
                   /\ exports'[x].status \in {exports[x].status} \cup Closed
                   /\ exports'[x].archiveBlobKey = exports[x].archiveBlobKey
  <2>1. CASE Due(x)
    <3>1. exports[x] # None /\ exports[x] \in ExportRow
      BY <2>1, ExportRowFacts DEF Due
    <3>2. PICK status \in Closed : exports'[x] = Close(exports[x], status)
      <4>1. CASE exports[x].status \in Closed
        BY <1>1, <2>1, <4>1
      <4>2. CASE exports[x].status \notin Closed
        BY <1>1, <2>1, <4>2 DEF Closed
      <4>3. QED
        BY <4>1, <4>2
    <3>3. QED
      BY <3>1, <3>2, CloseRow
  <2>2. CASE ~Due(x)
    <3>1. exports'[x] = exports[x]
      BY <1>1, <2>2
    <3>2. QED
      BY <3>1, ExportRowFacts
  <2>3. QED
    BY <2>1, <2>2
<1>3. exports' \in [Exports -> ExportRow \cup {None}]
  BY <1>1, <1>2
<1>4. \A x \in Exports : x \in sweep' => exports[x] # None
  BY DEF ExpireDue, Due
<1>5. DOMAIN archives' = Exports
  BY <1>1 DEF ExportInv, ExportType
<1>6. QED
  BY <1>1, <1>2, <1>3, <1>4, <1>5, ExportInvRows

LEMMA ExportInvSweep ==
  ASSUME ExportInv, NEW x \in Exports,
         ExportExpires(x) \/ DeleteHostedArchive(x) \/ MarkHostedArchiveDeleted(x)
  PROVE  ExportInv'
<1>1. /\ UNCHANGED <<snapshot, exporter, strays, materialVars>> /\ ExportType
      /\ sweep' \subseteq sweep /\ \A y \in sweep \cap Exports : exports[y] # None
  BY DEF ExportExpires, DeleteHostedArchive, MarkHostedArchiveDeleted, ExportInv, ExportOK, FoundInv
<1>2. DOMAIN archives' = Exports /\ \A y \in Exports : archives'[y] \in {archives[y], None}
  <2>1. archives' = archives \/ archives' = [archives EXCEPT ![x] = None]
    BY DEF ExportExpires, DeleteHostedArchive, MarkHostedArchiveDeleted
  <2>2. QED
    BY <1>1, <2>1 DEF ExportType
<1>3. PICK row, new :
         /\ row = exports[x]
         /\ row = None => new = None
         /\ row # None =>
               /\ new \in ExportRow
               /\ new.items = row.items /\ new.leases = row.leases /\ new.status = row.status
               /\ new.archiveBlobKey = row.archiveBlobKey \/ archives'[x] = None
         /\ exports' = [exports EXCEPT ![x] = new]
  <2>1. exports[x] # None => exports[x] \in ExportRow
    BY ExportRowFacts
  <2>2. CASE ExportExpires(x)
    <3>1. PICK row, new : row = exports[x] /\ new = [row EXCEPT !.due = TRUE]
      OBVIOUS
    <3>2. row \in ExportRow /\ row # None /\ exports' = [exports EXCEPT ![x] = new]
      BY <1>1, <2>1, <2>2, <3>1 DEF ExportExpires, ExportType
    <3>3. /\ new \in ExportRow
          /\ new.items = row.items /\ new.leases = row.leases /\ new.status = row.status
          /\ new.archiveBlobKey = row.archiveBlobKey
      BY <3>1, <3>2 DEF ExportRow
    <3>4. QED
      BY <3>1, <3>2, <3>3
  <2>3. CASE DeleteHostedArchive(x)
    <3>1. exports' = [exports EXCEPT ![x] = exports[x]]
      BY <2>3, ExportRowFacts DEF DeleteHostedArchive
    <3>2. QED
      BY <2>1, <3>1
  <2>4. CASE MarkHostedArchiveDeleted(x)
    <3>1. /\ archives' = archives /\ archives[x] = None /\ exports[x] # None
          /\ exports' = [exports EXCEPT ![x].archiveBlobKey =
                            IF exports[x].status \in Closed THEN FALSE ELSE @]
      BY <1>1, <2>4 DEF MarkHostedArchiveDeleted
    <3>2. PICK row, key : /\ row = exports[x]
                          /\ key = IF row.status \in Closed THEN FALSE ELSE row.archiveBlobKey
      OBVIOUS
    <3>3. PICK new : new = [row EXCEPT !.archiveBlobKey = key]
      OBVIOUS
    <3>4. exports' = [exports EXCEPT ![x] = new]
      BY <1>1, <3>1, <3>2, <3>3 DEF ExportType
    <3>5. row # None =>
            /\ new \in ExportRow
            /\ new.items = row.items /\ new.leases = row.leases /\ new.status = row.status
      BY <2>1, <3>2, <3>3 DEF ExportRow
    <3>6. row # None
      BY <3>1, <3>2
    <3>7. QED
      BY <3>1, <3>2, <3>4, <3>5, <3>6
  <2>5. QED
    BY <2>2, <2>3, <2>4
<1>4. /\ exports'[x] = new /\ \A y \in Exports \ {x} : exports'[y] = exports[y]
      /\ exports' \in [Exports -> ExportRow \cup {None}]
  BY <1>1, <1>3 DEF ExportType
<1>5. new # None <=> row # None
  BY <1>3, ExportAssumption
<1>6. QED
  BY <1>1, <1>2, <1>3, <1>4, <1>5, ExportInvRows

LEMMA ExportInvExport ==
  ASSUME ExportInv, ExportNext
  PROVE  ExportInv'
<1>1. CASE \E x \in Exports : CreateExport(x)
  BY <1>1, ExportInvSnapshot
<1>2. CASE \E x \in Exports : CreateSnapshot(x)
  BY <1>2, ExportInvCreate
<1>3. CASE \E x \in Exports : ExportJob(x)
  BY <1>3, ExportInvClaim, ExportInvWrite, ExportInvStore, ExportInvComplete, ExportInvLost
     DEF ExportJob
<1>4. CASE \E x \in Exports :
              ExportExpires(x) \/ DeleteHostedArchive(x) \/ MarkHostedArchiveDeleted(x)
  BY <1>4, ExportInvSweep
<1>5. CASE ExpireDue
  BY <1>5, ExportInvExpire
<1>6. CASE CrashSweep
  <2>1. /\ UNCHANGED <<exports, snapshot, exporter, archives, strays, materialVars>> /\ sweep' = {}
        /\ ExportType
    BY <1>6 DEF CrashSweep, ExportInv
  <2>2. ASSUME NEW x \in Exports PROVE ExportOK(x)'
    <3>1. ExportOK(x) /\ Spared(x)
      BY <2>1 DEF ExportInv, Spared
    <3>2. QED
      BY <2>1, <3>1, SparedStays
  <2>3. ExportType'
    BY <2>1 DEF ExportType
  <2>4. QED
    BY <2>2, <2>3 DEF ExportInv
<1>7. QED
  BY <1>1, <1>2, <1>3, <1>4, <1>5, <1>6 DEF ExportNext

-----------------------------------------------------------------------------
(* The steps together.                                                       *)

LEMMA CompleteStep ==
  ASSUME DeletionType, NEW w \in Purgers, NEW e, e = purger[w].target, CompleteDeletion(w)
  PROVE  /\ e \in Targets /\ purger[w] # None
         /\ \/ UNCHANGED <<requests, material, purged>>
            \/ /\ material' = Purge(material, tombstones, e) /\ material' # None
               /\ requests[e].checkpoint # "pending"
               /\ requests' = [requests EXCEPT ![e].status = "completed", ![e].audited = TRUE]
               /\ purged' = purged \cup {t \in Targets : material'[t] = "gone"}
         /\ purger' = [purger EXCEPT ![w] = None]
         /\ UNCHANGED <<backupConfigured, exportVars, ledgerVars, blobs>>
  BY DEF CompleteDeletion, Working, DeletionType, ledgerVars

LEMMA JobMaterial ==
  ASSUME MaterialOK, DeletionType, NEW w \in Purgers, RetentionJob(w)
  PROVE  /\ MaterialOK' /\ UNCHANGED ledgerVars /\ Keeps
         /\ \A t \in Targets : material'[t] = "gone" => material[t] = "gone" \/ t \in purged'
<1>1. Contributions \subseteq Targets /\ RawResponses \subseteq Targets
  BY KindsApart
<1>2. CASE ~CompleteDeletion(w)
  <2>1. UNCHANGED <<material, tombstones, deletionGeneration>>
    BY <1>2 DEF RetentionJob, ClaimDeletion, TakeFence, DeleteBlob, DeleteExportArchive, MarkFailed,
         CrashPurger, materialVars
  <2>2. QED
    BY <1>1, <2>1 DEF MaterialOK, MaterialType, Keeps, StaysLive, ledgerVars
<1>3. CASE CompleteDeletion(w)
  <2>1. PICK e : e = purger[w].target
    OBVIOUS
  <2>2. e \in Targets /\ UNCHANGED ledgerVars
    BY <1>3, <2>1, CompleteStep
  <2>3. CASE UNCHANGED material
    BY <1>1, <2>2, <2>3 DEF MaterialOK, MaterialType, Keeps, StaysLive, ledgerVars
  <2>4. CASE ~UNCHANGED material
    <3>1. /\ material' = Purge(material, tombstones, e) /\ material' # None
          /\ purged' = purged \cup {t \in Targets : material'[t] = "gone"}
      BY <1>3, <2>1, <2>4, CompleteStep
    <3>2. /\ MaterialOK'
          /\ \A c \in Entries : material[Contribution(c)] = "live" =>
                StaysLive(Contribution(c)) /\ StaysLive(Audio(c))
      BY <2>2, <3>1, PurgeStep
    <3>3. QED
      BY <2>2, <3>1, <3>2 DEF Keeps, ledgerVars
  <2>5. QED
    BY <2>3, <2>4
<1>4. QED
  BY <1>2, <1>3

LEMMA MaterialNextStep ==
  ASSUME MaterialOK, DeletionType, [RetentionNext]_retentionVars
  PROVE  /\ MaterialOK'
         /\ TombstonesGrow
         /\ \A t \in Targets : material'[t] = "gone" => material[t] = "gone" \/ t \in purged'
<1>1. UNCHANGED ledgerVars => TombstonesGrow
  BY DEF ledgerVars, TombstonesGrow
<1>2. ASSUME UNCHANGED materialVars
      PROVE  MaterialOK' /\ UNCHANGED ledgerVars /\ NothingGoes
  BY <1>2 DEF materialVars, MaterialOK, MaterialType, ledgerVars, NothingGoes
<1>3. CASE MaterialNext
  BY <1>1, <1>3, MaterialStep DEF NothingGoes
<1>4. CASE TrashNext
  BY <1>1, <1>4, TrashSteps, SoftDeleteStep DEF NothingGoes, ledgerVars
<1>5. CASE DeletionNext
  <2>1. CASE \E e \in Targets : Request(e)
    BY <2>1, RequestStep DEF NothingGoes
  <2>2. CASE \E e \in Targets : LeaseLapses(e)
    BY <1>1, <1>2, <2>2 DEF LeaseLapses, NothingGoes
  <2>3. CASE \E w \in Purgers : RetentionJob(w)
    BY <1>1, <2>3, JobMaterial
  <2>4. QED
    BY <1>5, <2>1, <2>2, <2>3, DeletionSteps
<1>6. CASE ExportNext
  BY <1>1, <1>2, <1>6, ExportStepsKeepMaterial DEF NothingGoes
<1>7. CASE BackupNext \/ UNCHANGED retentionVars
  <2>1. UNCHANGED materialVars
    BY <1>7 DEF BackupNext, BeginBackup, CopyVerifiedBlobs, StoreSnapshot, Checkpoint, EndBackup,
         RestoreBackup, retentionVars
  <2>2. QED
    BY <1>1, <1>2, <2>1 DEF NothingGoes
<1>8. QED
  BY <1>3, <1>4, <1>5, <1>6, <1>7 DEF RetentionNext

LEMMA ExportInvDeletion ==
  ASSUME MaterialOK, DeletionType, ExportInv, DeletionNext
  PROVE  ExportInv'
<1>1. ASSUME UNCHANGED <<exports, snapshot, exporter, sweep, strays>>, Keeps,
             archives' = archives \/ \E x : archives' = [archives EXCEPT ![x] = None]
      PROVE  ExportInv'
  <2>1. DOMAIN archives = Exports
    BY DEF ExportInv, ExportType
  <2>2. DOMAIN archives' = Exports /\ \A x \in Exports : archives'[x] \in {archives[x], None}
    BY <1>1, <2>1
  <2>3. QED
    BY <1>1, <2>2, ExportInvKept
<1>2. CASE \E e \in Targets : Request(e)
  <2>1. PICK e \in Targets : Request(e)
    BY <1>2
  <2>2. InvalidateExportsForEntity(e) /\ UNCHANGED <<snapshot, exporter, archives, sweep, strays>>
    BY <2>1 DEF Request
  <2>3. QED
    BY <2>1, <2>2, RequestStep, ExportInvPutAway
<1>3. CASE \E e \in Targets : LeaseLapses(e)
  <2>1. UNCHANGED exportVars /\ UNCHANGED materialVars
    BY <1>3 DEF LeaseLapses
  <2>2. Keeps
    BY <2>1 DEF materialVars, Keeps, StaysLive
  <2>3. QED
    BY <1>1, <2>1, <2>2 DEF exportVars
<1>4. CASE \E w \in Purgers : RetentionJob(w)
  <2>1. PICK w \in Purgers : RetentionJob(w)
    BY <1>4
  <2>2. Keeps
    BY <2>1, JobMaterial
  <2>3. /\ UNCHANGED <<exports, snapshot, exporter, sweep, strays>>
        /\ archives' = archives \/ \E x : archives' = [archives EXCEPT ![x] = None]
    BY <2>1 DEF RetentionJob, ClaimDeletion, TakeFence, DeleteBlob, DeleteExportArchive,
         CompleteDeletion, MarkFailed, CrashPurger, exportVars
  <2>4. QED
    BY <1>1, <2>2, <2>3
<1>5. QED
  BY <1>2, <1>3, <1>4, DeletionSteps

LEMMA ExportInvNext ==
  ASSUME MaterialOK, DeletionType, ExportInv, [RetentionNext]_retentionVars
  PROVE  ExportInv'
<1>1. ASSUME UNCHANGED exportVars, Keeps PROVE ExportInv'
  BY <1>1, ExportInvKept DEF exportVars, ExportInv, ExportType
<1>2. CASE MaterialNext /\ UNCHANGED <<exportVars, deletionVars, backupVars>>
  <2>1. LiveStays /\ UNCHANGED ledgerVars
    BY <1>2, MaterialStep
  <2>2. Keeps
    BY <2>1, TargetsOfEntry DEF LiveStays, Keeps, ledgerVars
  <2>3. QED
    BY <1>1, <1>2, <2>2
<1>3. CASE TrashNext
  <2>1. PICK e \in Contributions \cup Audios : SoftDelete(e)
    BY <1>3, TrashSteps
  <2>2. InvalidateExportsForEntity(e) /\ UNCHANGED <<snapshot, exporter, archives, sweep, strays>>
    BY <2>1 DEF SoftDelete
  <2>3. QED
    BY <2>1, <2>2, SoftDeleteStep, ExportInvPutAway
<1>4. CASE DeletionNext
  BY <1>4, ExportInvDeletion
<1>5. CASE ExportNext
  BY <1>5, ExportInvExport
<1>6. CASE BackupNext \/ UNCHANGED retentionVars
  <2>1. UNCHANGED exportVars /\ UNCHANGED materialVars
    BY <1>6 DEF BackupNext, BeginBackup, CopyVerifiedBlobs, StoreSnapshot, Checkpoint, EndBackup,
         RestoreBackup, retentionVars
  <2>2. Keeps
    BY <2>1 DEF materialVars, Keeps, StaysLive
  <2>3. QED
    BY <1>1, <2>1, <2>2
<1>7. QED
  BY <1>2, <1>3, <1>4, <1>5, <1>6 DEF RetentionNext

-----------------------------------------------------------------------------
(* The replay of the newest ledger on the rows of a backup.                  *)

\* A replay takes rows away and brings none back.
Only(rows, after) ==
    /\ after \in [Targets -> Rows] /\ Consistent(after)
    /\ \A t \in Targets : after[t] = rows[t] \/ after[t] = "gone"

LEMMA ReplayShape ==
  ASSUME NEW rows \in [Targets -> Rows], Consistent(rows), rows # None, NEW ledger, NEW e \in Targets,
         NEW after, after = Replay(rows, ledger, e), after # None
  PROVE  /\ Only(rows, after)
         /\ ledger[e] # 0 /\ e \notin Audios => after[e] \in Away
         /\ ledger[e] # 0 /\ e = Day => \A t \in Targets : after[t] \in Away
<1>1. CASE ledger[e] = 0
  BY <1>1 DEF Replay, Only
<1>2. CASE ledger[e] # 0 /\ (e \in RawResponses \/ Owned(rows, e))
  <2>1. after = Purge(rows, ledger, e)
    BY <1>2, KindsApart DEF Replay, Purge
  <2>2. Only(rows, after)
    BY <2>1, PurgeShape DEF Only
  <2>3. ASSUME e \in Contributions PROVE after[e] \in Away
    <3>1. after = [t \in Targets |-> IF t \in Within(e) THEN "gone" ELSE rows[t]]
      BY <2>1, <2>3, KindsApart DEF Purge, PurgeContribution
    <3>2. QED
      BY <3>1, WithinItself DEF Away
  <2>4. ASSUME e = Day PROVE \A t \in Targets : after[t] \in Away
    <3>1. after = [t \in Targets |-> IF rows[t] = "absent" THEN "absent" ELSE "gone"]
      BY <2>1, <2>4, DayIsTarget DEF Purge, PurgeJournalDay
    <3>2. QED
      BY <3>1 DEF Away
  <2>5. ASSUME e \in RawResponses PROVE after[e] \in Away
    <3>1. after = [rows EXCEPT ![e] = "gone"]
      BY <2>1, <2>5, KindsApart DEF Purge, PurgeProviderRawResponse
    <3>2. QED
      BY <3>1 DEF Away
  <2>6. QED
    BY <2>2, <2>3, <2>4, <2>5, KindsOfTargets
<1>3. CASE ledger[e] # 0 /\ e \notin RawResponses /\ ~Owned(rows, e)
  <2>1. after = rows /\ rows[e] \in Away
    BY <1>3 DEF Replay, Owned, Rows, Away
  <2>2. e = Day => \A t \in Targets : rows[t] \in Away
    BY <2>1 DEF Consistent, Away
  <2>3. QED
    BY <2>1, <2>2 DEF Only
<1>4. QED
  BY <1>1, <1>2, <1>3

\* The targets of one kind, each on its own, as in ReplayKind.
LEMMA ReplayKindShape ==
  ASSUME NEW rows \in [Targets -> Rows], Consistent(rows), rows # None, NEW ledger,
         NEW targets \in [Entries -> Targets], \A c \in Entries : targets[c].of = c,
         \A c \in Entries : Replay(rows, ledger, targets[c]) # None,
         NEW after,
         after = [t \in Targets |-> IF t = Day THEN rows[Day]
                                    ELSE Replay(rows, ledger, targets[t.of])[t]]
  PROVE  /\ Only(rows, after)
         /\ \A c \in Entries : ledger[targets[c]] # 0 /\ targets[c] \notin Audios =>
               after[targets[c]] \in Away
<1>1. ASSUME NEW c \in Entries
      PROVE  /\ Only(rows, Replay(rows, ledger, targets[c]))
             /\ ledger[targets[c]] # 0 /\ targets[c] \notin Audios =>
                   Replay(rows, ledger, targets[c])[targets[c]] \in Away
  <2>1. targets[c] \in Targets /\ Replay(rows, ledger, targets[c]) # None
    OBVIOUS
  <2>2. QED
    BY <2>1, ReplayShape
<1>2. \A t \in Targets : t # Day => t.of \in Entries
  BY KindsOfTargets
<1>3. \A t \in Targets : t # Day => after[t] = Replay(rows, ledger, targets[t.of])[t]
  OBVIOUS
<1>4. \A t \in Targets : after[t] \in Rows /\ (after[t] = rows[t] \/ after[t] = "gone")
  BY <1>1, <1>2, <1>3 DEF Only
<1>5. Consistent(after)
  <2>1. after[Day] = rows[Day]
    BY DayIsTarget
  <2>2. rows[Day] = "gone" => \A e \in Targets : after[e] \in Away
    BY <1>4 DEF Consistent, Away
  <2>3. ASSUME NEW c \in Entries, after[Contribution(c)] \in Away
        PROVE  after[RawResponse(c)] \in Away
    <3>1. /\ after[Contribution(c)] = Replay(rows, ledger, targets[c])[Contribution(c)]
          /\ after[RawResponse(c)] = Replay(rows, ledger, targets[c])[RawResponse(c)]
      BY <1>3, TargetsOfEntry, DayIsTarget
    <3>2. Consistent(Replay(rows, ledger, targets[c]))
      BY <1>1 DEF Only
    <3>3. QED
      BY <2>3, <3>1, <3>2 DEF Consistent
  <2>4. QED
    BY <2>1, <2>2, <2>3 DEF Consistent
<1>6. ASSUME NEW c \in Entries, ledger[targets[c]] # 0, targets[c] \notin Audios
      PROVE  after[targets[c]] \in Away
  <2>1. targets[c] \in Targets /\ targets[c].of = c /\ targets[c] # Day
    BY DayIsTarget, MaterialAssumption
  <2>2. after[targets[c]] = Replay(rows, ledger, targets[c])[targets[c]]
    BY <1>3, <2>1
  <2>3. QED
    BY <1>1, <1>6, <2>2
<1>7. QED
  BY <1>4, <1>5, <1>6 DEF Only

LEMMA ReplayRemoves ==
  ASSUME NEW image \in Images, Consistent(image.material), NEW newest \in [Targets -> Nat],
         NEW rows, rows = ApplyTombstones(image, newest).rows, rows # None
  PROVE  /\ rows \in [Targets -> Rows]
         /\ \A e, t \in Targets :
               newest[e] # 0 /\ t \in Within(e) /\ t \notin Audios => rows[t] \in Away
<1>1. PICK days, contributions, audios :
         /\ days = Replay(image.material, newest, Day)
         /\ contributions = ReplayKind(days, newest, Contribution)
         /\ audios = ReplayKind(contributions, newest, Audio)
  OBVIOUS
<1>2. rows = ReplayKind(audios, newest, RawResponse)
  BY <1>1 DEF ApplyTombstones
<1>3. /\ audios # None /\ \A c \in Entries : Replay(audios, newest, RawResponse(c)) # None
      /\ rows = [t \in Targets |-> IF t = Day THEN audios[Day]
                                   ELSE Replay(audios, newest, RawResponse(t.of))[t]]
  BY <1>2 DEF ReplayKind
<1>4. /\ contributions # None /\ \A c \in Entries : Replay(contributions, newest, Audio(c)) # None
      /\ audios = [t \in Targets |-> IF t = Day THEN contributions[Day]
                                     ELSE Replay(contributions, newest, Audio(t.of))[t]]
  BY <1>1, <1>3 DEF ReplayKind
<1>5. /\ days # None /\ \A c \in Entries : Replay(days, newest, Contribution(c)) # None
      /\ contributions = [t \in Targets |-> IF t = Day THEN days[Day]
                                            ELSE Replay(days, newest, Contribution(t.of))[t]]
  BY <1>1, <1>4 DEF ReplayKind
<1>6. image.material # None /\ image.material \in [Targets -> Rows]
  BY <1>1, <1>5 DEF Replay, Images
<1>7. /\ Only(image.material, days)
      /\ newest[Day] # 0 => \A t \in Targets : days[t] \in Away
  BY <1>1, <1>5, <1>6, DayIsTarget, ReplayShape
<1>8. /\ Only(days, contributions)
      /\ \A c \in Entries : newest[Contribution(c)] # 0 => contributions[Contribution(c)] \in Away
  <2>1. PICK targets : targets = [c \in Entries |-> Contribution(c)]
    OBVIOUS
  <2>2. /\ targets \in [Entries -> Targets]
        /\ \A c \in Entries : /\ targets[c] = Contribution(c) /\ targets[c].of = c
                              /\ targets[c] \notin Audios
    BY <2>1, TargetsOfEntry, KindsApart
  <2>3. contributions = [t \in Targets |-> IF t = Day THEN days[Day]
                                          ELSE Replay(days, newest, targets[t.of])[t]]
    BY <1>5, <2>2, KindsOfTargets
  <2>4. days \in [Targets -> Rows] /\ Consistent(days)
    BY <1>7 DEF Only
  <2>5. QED
    BY <1>5, <2>2, <2>3, <2>4, ReplayKindShape
<1>9. Only(contributions, audios)
  <2>1. PICK targets : targets = [c \in Entries |-> Audio(c)]
    OBVIOUS
  <2>2. /\ targets \in [Entries -> Targets]
        /\ \A c \in Entries : targets[c] = Audio(c) /\ targets[c].of = c
    BY <2>1, TargetsOfEntry
  <2>3. audios = [t \in Targets |-> IF t = Day THEN contributions[Day]
                                   ELSE Replay(contributions, newest, targets[t.of])[t]]
    BY <1>4, <2>2, KindsOfTargets
  <2>4. contributions \in [Targets -> Rows] /\ Consistent(contributions)
    BY <1>8 DEF Only
  <2>5. QED
    BY <1>4, <2>2, <2>3, <2>4, ReplayKindShape
<1>10. /\ Only(audios, rows)
       /\ \A c \in Entries : newest[RawResponse(c)] # 0 => rows[RawResponse(c)] \in Away
  <2>1. PICK targets : targets = [c \in Entries |-> RawResponse(c)]
    OBVIOUS
  <2>2. /\ targets \in [Entries -> Targets]
        /\ \A c \in Entries : /\ targets[c] = RawResponse(c) /\ targets[c].of = c
                              /\ targets[c] \notin Audios
    BY <2>1, TargetsOfEntry, KindsApart
  <2>3. rows = [t \in Targets |-> IF t = Day THEN audios[Day]
                                 ELSE Replay(audios, newest, targets[t.of])[t]]
    BY <1>3, <2>2, KindsOfTargets
  <2>4. audios \in [Targets -> Rows] /\ Consistent(audios)
    BY <1>9 DEF Only
  <2>5. QED
    BY <1>3, <2>2, <2>3, <2>4, ReplayKindShape
<1>11. ASSUME NEW e \in Targets, NEW t \in Targets, newest[e] # 0, t \in Within(e), t \notin Audios
       PROVE  rows[t] \in Away
  <2>1. /\ days[t] \in Away => contributions[t] \in Away
        /\ contributions[t] \in Away => rows[t] \in Away
    BY <1>8, <1>9, <1>10 DEF Only, Away
  <2>2. CASE e = Day
    BY <1>7, <1>11, <2>1, <2>2
  <2>3. CASE e \in Contributions
    <3>1. e.of \in Entries /\ e = Contribution(e.of) /\ t \in {e, RawResponse(e.of)}
      BY <1>11, <2>3, KindsApart, TargetsOfEntry DEF Within
    <3>2. contributions[e] \in Away
      BY <1>8, <1>11, <3>1
    <3>3. rows[e] \in Away
      BY <1>9, <1>10, <1>11, <3>2 DEF Only, Away
    <3>4. rows[RawResponse(e.of)] \in Away
      BY <1>10, <3>1, <3>3 DEF Only, Consistent
    <3>5. QED
      BY <3>1, <3>3, <3>4
  <2>4. CASE e \in Audios \cup RawResponses
    <3>1. t = e /\ e \in RawResponses
      BY <1>11, <2>4, KindsApart DEF Within
    <3>2. QED
      BY <1>10, <1>11, <3>1, KindsApart
  <2>5. QED
    BY <2>2, <2>3, <2>4, KindsOfTargets
<1>12. QED
  BY <1>10, <1>11 DEF Only

-----------------------------------------------------------------------------
(* The rows of the requests.                                                 *)

\* What a step may change of a request: keys go, and a checkpoint is committed
\* once the backup that ends holds the tombstone.
RowStands(e) ==
    /\ requests[e] = None => requests'[e] = None
    /\ requests[e] # None =>
          /\ requests'[e] \in RequestRow
          /\ requests'[e].keys \subseteq requests[e].keys
          /\ \/ requests'[e].checkpoint = requests[e].checkpoint
             \/ requests'[e].checkpoint = "committed" /\ Newest[e] # 0
RowsStand == \A e \in Targets : RowStands(e)

LEMMA RequestFacts ==
  ASSUME DeletionType, NEW e \in Targets
  PROVE  /\ DOMAIN requests = Targets
         /\ requests[e] # None => requests[e] \in RequestRow
  BY DEF DeletionType

LEMMA RowChanged ==
  ASSUME DeletionType, NEW e \in Targets, NEW row \in RequestRow, requests[e] # None,
         requests' = [requests EXCEPT ![e] = row],
         row.keys \subseteq requests[e].keys, row.checkpoint = requests[e].checkpoint
  PROVE  RowsStand /\ requests' \in [Targets -> RequestRow \cup {None}]
<1>1. requests' \in [Targets -> RequestRow \cup {None}]
  BY DEF DeletionType
<1>2. requests'[e] = row /\ \A t \in Targets \ {e} : requests'[t] = requests[t]
  BY DEF DeletionType
<1>3. ASSUME NEW t \in Targets PROVE RowStands(t)
  BY <1>2, RequestFacts DEF RowStands
<1>4. QED
  BY <1>1, <1>3 DEF RowsStand

LEMMA RowsUnchanged ==
  ASSUME DeletionType, UNCHANGED requests
  PROVE  RowsStand /\ requests' \in [Targets -> RequestRow \cup {None}]
  BY DEF DeletionType, RowsStand, RowStands

LEMMA JobRows ==
  ASSUME DeletionType, NEW w \in Purgers, PurgerInv(w), RetentionJob(w)
  PROVE  RowsStand /\ requests' \in [Targets -> RequestRow \cup {None}]
<1>1. ASSUME UNCHANGED requests
      PROVE  RowsStand /\ requests' \in [Targets -> RequestRow \cup {None}]
  BY <1>1, RowsUnchanged
<1>2. CASE \E e \in Targets : ClaimDeletion(w, e)
  <2>1. PICK e \in Targets : ClaimDeletion(w, e)
    BY <1>2
  <2>2. PICK row, new : row = requests[e] /\ new = [row EXCEPT !.status = "purging", !.lapsed = FALSE]
    OBVIOUS
  <2>3. /\ requests[e] # None /\ row \in RequestRow
        /\ requests' = [requests EXCEPT ![e].status = "purging", ![e].lapsed = FALSE]
    BY <2>1, <2>2, RequestFacts DEF ClaimDeletion, Claimable
  <2>4. requests' = [requests EXCEPT ![e] = new]
    BY <2>2, <2>3 DEF DeletionType
  <2>5. new \in RequestRow /\ new.keys = row.keys /\ new.checkpoint = row.checkpoint
    BY <2>2, <2>3 DEF RequestRow
  <2>6. QED
    BY <2>2, <2>3, <2>4, <2>5, RowChanged
<1>3. CASE \E b \in Targets : DeleteBlob(w, b)
  <2>1. PICK b \in Targets : DeleteBlob(w, b)
    BY <1>3
  <2>2. PICK e, row : e = purger[w].target /\ row = requests[e]
    OBVIOUS
  <2>3. PICK new : new = [row EXCEPT !.keys = @ \ {b}]
    OBVIOUS
  <2>4. e \in Targets /\ requests[e] # None /\ row \in RequestRow
    BY <2>1, <2>2, RequestFacts DEF DeleteBlob, Working, PurgerInv, DeletionType
  <2>5. requests' = [requests EXCEPT ![e] = new]
    BY <2>1, <2>2, <2>3, <2>4 DEF DeleteBlob, DeletionType
  <2>6. new \in RequestRow /\ new.keys \subseteq row.keys /\ new.checkpoint = row.checkpoint
    BY <2>3, <2>4 DEF RequestRow
  <2>7. QED
    BY <2>2, <2>4, <2>5, <2>6, RowChanged
<1>4. CASE \E x \in Exports : DeleteExportArchive(w, x)
  <2>1. PICK x \in Exports : DeleteExportArchive(w, x)
    BY <1>4
  <2>2. PICK e, row : e = purger[w].target /\ row = requests[e]
    OBVIOUS
  <2>3. PICK new : new = [row EXCEPT !.archives = @ \ {x}]
    OBVIOUS
  <2>4. e \in Targets /\ requests[e] # None /\ row \in RequestRow
    BY <2>1, <2>2, RequestFacts DEF DeleteExportArchive, Working, PurgerInv, DeletionType
  <2>5. requests' = [requests EXCEPT ![e] = new]
    BY <2>1, <2>2, <2>3, <2>4 DEF DeleteExportArchive, DeletionType
  <2>6. new \in RequestRow /\ new.keys \subseteq row.keys /\ new.checkpoint = row.checkpoint
    BY <2>3, <2>4 DEF RequestRow
  <2>7. QED
    BY <2>2, <2>4, <2>5, <2>6, RowChanged
<1>5. CASE CompleteDeletion(w) /\ requests' # requests
  <2>1. PICK e, row : e = purger[w].target /\ row = requests[e]
    OBVIOUS
  <2>2. PICK new : new = [row EXCEPT !.status = "completed", !.audited = TRUE]
    OBVIOUS
  <2>3. /\ e \in Targets /\ purger[w] # None
        /\ requests' = [requests EXCEPT ![e].status = "completed", ![e].audited = TRUE]
    BY <1>5, <2>1, CompleteStep
  <2>4. requests[e] # None /\ row \in RequestRow
    BY <2>1, <2>3, RequestFacts DEF PurgerInv
  <2>5. requests' = [requests EXCEPT ![e] = new]
    BY <2>1, <2>2, <2>3 DEF DeletionType
  <2>6. new \in RequestRow /\ new.keys = row.keys /\ new.checkpoint = row.checkpoint
    BY <2>2, <2>4 DEF RequestRow
  <2>7. QED
    BY <2>1, <2>3, <2>4, <2>5, <2>6, RowChanged
<1>6. CASE MarkFailed(w)
  <2>1. PICK e, row : e = purger[w].target /\ row = requests[e]
    OBVIOUS
  <2>2. PICK new : new = [row EXCEPT !.status = "failed"]
    OBVIOUS
  <2>3. e \in Targets /\ requests[e] # None /\ row \in RequestRow
    BY <1>6, <2>1, RequestFacts DEF MarkFailed, PurgerInv, DeletionType
  <2>4. requests' = [requests EXCEPT ![e] = new]
    BY <1>6, <2>1, <2>2, <2>3 DEF MarkFailed, DeletionType
  <2>5. new \in RequestRow /\ new.keys = row.keys /\ new.checkpoint = row.checkpoint
    BY <2>2, <2>3 DEF RequestRow
  <2>6. QED
    BY <2>1, <2>3, <2>4, <2>5, RowChanged
<1>7. CASE TakeFence(w) \/ CrashPurger(w)
  BY <1>1, <1>7 DEF TakeFence, CrashPurger
<1>8. QED
  BY <1>1, <1>2, <1>3, <1>4, <1>5, <1>6, <1>7 DEF RetentionJob

LEMMA LapseRows ==
  ASSUME DeletionType, NEW e \in Targets, LeaseLapses(e)
  PROVE  RowsStand /\ requests' \in [Targets -> RequestRow \cup {None}]
<1>1. PICK row, new : row = requests[e] /\ new = [row EXCEPT !.lapsed = TRUE]
  OBVIOUS
<1>2. requests[e] # None /\ row \in RequestRow /\ requests' = [requests EXCEPT ![e] = new]
  BY <1>1, RequestFacts DEF LeaseLapses, DeletionType
<1>3. new \in RequestRow /\ new.keys = row.keys /\ new.checkpoint = row.checkpoint
  BY <1>1, <1>2 DEF RequestRow
<1>4. QED
  BY <1>1, <1>2, <1>3, RowChanged

LEMMA CheckpointRows ==
  ASSUME DeletionType, BackupInv, \A e \in Targets : RequestInv(e), MaterialType, Checkpoint
  PROVE  RowsStand /\ requests' \in [Targets -> RequestRow \cup {None}]
<1>1. PICK ledger : ledger = backup.image.tombstones
  OBVIOUS
<1>2. /\ backup # None /\ backup.phase = "stored"
      /\ requests' = [e \in Targets |->
            IF /\ requests[e] # None
               /\ requests[e].checkpoint = "pending"
               /\ UpToMaxTombstoneGeneration(backup.image, tombstones[e])
            THEN [requests[e] EXCEPT !.checkpoint = "committed"] ELSE requests[e]]
  BY DEF Checkpoint
<1>3. Newest = ledger /\ Truncated(ledger) /\ ledger \in [Targets -> Nat]
  BY <1>1, <1>2 DEF BackupInv, Images
<1>4. ASSUME NEW e \in Targets
      PROVE  RowStands(e) /\ requests'[e] \in RequestRow \cup {None}
  <2>1. CASE /\ requests[e] # None /\ requests[e].checkpoint = "pending"
             /\ UpToMaxTombstoneGeneration(backup.image, tombstones[e])
    <3>1. PICK row, new : row = requests[e] /\ new = [row EXCEPT !.checkpoint = "committed"]
      OBVIOUS
    <3>2. requests'[e] = new /\ row \in RequestRow
      BY <1>2, <2>1, <3>1, RequestFacts
    <3>3. new \in RequestRow /\ new.keys = row.keys /\ new.checkpoint = "committed"
      BY <3>1, <3>2 DEF RequestRow
    <3>4. PICK t \in Targets : tombstones[e] <= ledger[t]
      BY <1>1, <2>1 DEF UpToMaxTombstoneGeneration
    <3>5. tombstones[e] \in Nat /\ tombstones[e] # 0 /\ ledger[t] \in Nat
      BY <1>3, <2>1 DEF MaterialType, RequestInv
    <3>6. ~(ledger[t] < tombstones[e])
      BY <3>4, <3>5
    <3>7. ledger[e] # 0
      BY <1>3, <3>5, <3>6 DEF Truncated
    <3>8. QED
      BY <1>3, <2>1, <3>1, <3>2, <3>3, <3>7 DEF RowStands
  <2>2. CASE ~(/\ requests[e] # None /\ requests[e].checkpoint = "pending"
               /\ UpToMaxTombstoneGeneration(backup.image, tombstones[e]))
    <3>1. requests'[e] = requests[e]
      BY <1>2, <2>2
    <3>2. QED
      BY <3>1, RequestFacts DEF RowStands
  <2>3. QED
    BY <2>1, <2>2
<1>5. requests' \in [Targets -> RequestRow \cup {None}]
  BY <1>2, <1>4
<1>6. QED
  BY <1>4, <1>5 DEF RowsStand

LEMMA RequestRows ==
  ASSUME DeletionType, NEW e \in Targets, Request(e)
  PROVE  /\ requests[e] = None /\ requests'[e] # None
         /\ \A t \in Targets \ {e} : requests'[t] = requests[t]
         /\ requests'[e].keys \subseteq Within(e)
         /\ requests'[e].checkpoint # "committed"
         /\ backupConfigured => requests'[e].checkpoint = "pending"
         /\ requests' \in [Targets -> RequestRow \cup {None}]
<1>1. PICK row : row = DeletionRequest(e)
  OBVIOUS
<1>2. requests[e] = None /\ requests' = [requests EXCEPT ![e] = row]
  BY <1>1 DEF Request
<1>3. CapturedBlobs(e) \subseteq Within(e) /\ CapturedBlobs(e) \subseteq Targets
  BY KindsApart DEF CapturedBlobs
<1>4. CapturedArchives(e) \subseteq Exports
  BY DEF CapturedArchives, Invalidated
<1>5. row \in RequestRow
  BY <1>1, <1>3, <1>4 DEF DeletionRequest, RequestRow
<1>6. /\ row.keys \subseteq Within(e) /\ row.checkpoint # "committed"
      /\ backupConfigured => row.checkpoint = "pending"
  BY <1>1, <1>3 DEF DeletionRequest
<1>7. /\ requests'[e] = row /\ \A t \in Targets \ {e} : requests'[t] = requests[t]
      /\ requests' \in [Targets -> RequestRow \cup {None}]
  BY <1>2, <1>5 DEF DeletionType
<1>8. QED
  BY <1>2, <1>5, <1>6, <1>7, DeletionAssumption

-----------------------------------------------------------------------------
(* The backups.                                                              *)

LEMMA BackupInvKept ==
  ASSUME MaterialType, MaterialType', TombstonesGrow, BackupInv, UNCHANGED <<repository, backup>>
  PROVE  BackupInv' /\ Newest' = Newest
<1>1. Newest' = Newest
  BY DEF Newest, NewestTombstones
<1>2. ASSUME NEW ledger, Earlier(ledger, tombstones) PROVE Earlier(ledger, tombstones')
  BY <1>2 DEF Earlier, TombstonesGrow
<1>3. ASSUME NEW ledger \in [Targets -> Nat], Truncated(ledger) PROVE Truncated(ledger)'
  <2>1. ASSUME NEW e \in Targets
        PROVE  \/ ledger[e] = tombstones'[e]
               \/ ledger[e] = 0 /\ \A t \in Targets : ledger[t] < tombstones'[e]
    <3>1. CASE tombstones'[e] = tombstones[e]
      BY <1>3, <3>1 DEF Truncated
    <3>2. CASE tombstones[e] = 0 /\ tombstones'[e] > deletionGeneration
      <4>1. ledger[e] = 0
        BY <1>3, <3>2 DEF Truncated
      <4>2. ASSUME NEW t \in Targets PROVE ledger[t] < tombstones'[e]
        <5>1. ledger[t] = tombstones[t] \/ ledger[t] = 0
          BY <1>3 DEF Truncated
        <5>2. /\ ledger[t] \in Nat /\ tombstones[t] \in Nat /\ deletionGeneration \in Nat
              /\ tombstones[t] <= deletionGeneration
          BY DEF MaterialType
        <5>3. ledger[t] <= deletionGeneration
          BY <5>1, <5>2
        <5>4. tombstones'[e] \in Nat
          BY DEF MaterialType
        <5>5. QED
          BY <3>2, <5>2, <5>3, <5>4
      <4>3. QED
        BY <4>1, <4>2
    <3>3. QED
      BY <3>1, <3>2 DEF TombstonesGrow
  <2>2. QED
    BY <2>1 DEF Truncated
<1>4. QED
  BY <1>1, <1>2, <1>3 DEF BackupInv, Images

LEMMA BackupInvStep ==
  ASSUME MaterialOK, BackupInv, BackupNext
  PROVE  BackupInv' /\ Earlier(Newest, Newest')
<1>1. UNCHANGED materialVars
  BY DEF BackupNext, BeginBackup, CopyVerifiedBlobs, StoreSnapshot, Checkpoint, EndBackup,
     RestoreBackup
<1>2. UNCHANGED repository => Newest' = Newest
  BY DEF Newest, NewestTombstones
<1>3. Earlier(Newest, Newest)
  BY DEF Earlier
<1>4. \A ledger : /\ Earlier(ledger, tombstones) => Earlier(ledger, tombstones')
                  /\ Truncated(ledger) => Truncated(ledger)'
  BY <1>1 DEF Earlier, Truncated, materialVars
<1>5. CASE BeginBackup
  <2>1. PICK image : image = Image(material, tombstones, LiveBlobRows(material, tombstones))
    OBVIOUS
  <2>2. backup' = [phase |-> "copying", image |-> image, present |-> blobs] /\ UNCHANGED repository
    BY <1>5, <2>1 DEF BeginBackup
  <2>3. /\ DOMAIN backup' = {"phase", "image", "present"} /\ backup'.image = image
        /\ backup'.phase = "copying"
    BY <2>2
  <2>4. LiveBlobRows(material, tombstones) \subseteq Targets
    BY KindsApart DEF LiveBlobRows
  <2>5. image \in Images /\ Consistent(image.material) /\ image.tombstones = tombstones
    BY <2>1, <2>4 DEF Image, Images, MaterialOK, MaterialType
  <2>6. Truncated(image.tombstones)
    BY <2>5 DEF Truncated
  <2>7. Earlier(Newest, image.tombstones)
    BY <2>5 DEF BackupInv
  <2>8. QED
    BY <1>2, <1>3, <1>4, <2>2, <2>3, <2>5, <2>6, <2>7 DEF BackupInv
<1>6. CASE CopyVerifiedBlobs
  <2>1. backup # None /\ UNCHANGED repository
    BY <1>6 DEF CopyVerifiedBlobs
  <2>2. CASE backup' = None
    BY <1>2, <1>3, <1>4, <2>1, <2>2 DEF BackupInv
  <2>3. CASE backup' # None
    <3>1. backup' = [backup EXCEPT !.phase = "copied"]
      BY <1>6, <2>3 DEF CopyVerifiedBlobs
    <3>2. /\ DOMAIN backup' = {"phase", "image", "present"} /\ backup'.image = backup.image
          /\ backup'.phase = "copied"
      BY <2>1, <3>1 DEF BackupInv
    <3>3. QED
      BY <1>2, <1>3, <1>4, <2>1, <3>2 DEF BackupInv
  <2>4. QED
    BY <2>2, <2>3
<1>7. CASE StoreSnapshot
  <2>1. PICK image : image = backup.image
    OBVIOUS
  <2>2. /\ backup # None /\ repository' = Append(repository, image)
        /\ backup' = [backup EXCEPT !.phase = "stored"]
    BY <1>7, <2>1 DEF StoreSnapshot
  <2>3. /\ image \in Images /\ Consistent(image.material) /\ Truncated(image.tombstones)
        /\ Earlier(Newest, image.tombstones) /\ repository \in Seq(Images)
        /\ \A n \in DOMAIN repository : Consistent(repository[n].material)
    BY <2>1, <2>2 DEF BackupInv
  <2>4. /\ repository' \in Seq(Images) /\ repository' # <<>>
        /\ \A n \in DOMAIN repository' : Consistent(repository'[n].material)
        /\ repository'[Len(repository')] = image
    <3>1. /\ Len(repository') = Len(repository) + 1 /\ repository' \in Seq(Images)
          /\ Len(repository) \in Nat
          /\ \A n \in 1..Len(repository) : repository'[n] = repository[n]
          /\ repository'[Len(repository) + 1] = image
      BY <2>2, <2>3
    <3>2. DOMAIN repository = 1..Len(repository) /\ DOMAIN repository' = 1..(Len(repository) + 1)
      BY <2>3, <3>1
    <3>3. QED
      BY <2>3, <3>1, <3>2
  <2>5. Newest' = image.tombstones
    BY <2>4 DEF Newest, NewestTombstones
  <2>6. /\ DOMAIN backup' = {"phase", "image", "present"} /\ backup'.image = image
        /\ backup'.phase = "stored"
    BY <2>1, <2>2 DEF BackupInv
  <2>7. Earlier(image.tombstones, tombstones) /\ Earlier(image.tombstones, image.tombstones)
    BY <2>3 DEF Earlier, Truncated
  <2>8. QED
    BY <1>4, <2>3, <2>4, <2>5, <2>6, <2>7 DEF BackupInv
<1>8. CASE Checkpoint \/ EndBackup
  BY <1>2, <1>3, <1>4, <1>8 DEF Checkpoint, EndBackup, BackupInv
<1>9. CASE RestoreBackup
  BY <1>2, <1>3, <1>4, <1>9 DEF RestoreBackup, BackupInv
<1>10. QED
  BY <1>5, <1>6, <1>7, <1>8, <1>9 DEF BackupNext

-----------------------------------------------------------------------------
(* What is purged.                                                           *)

\* A worker was only given a request whose tombstone the newest backup holds.
LEMMA WorkerCovered ==
  ASSUME DeletionType, PurgeInv, backupConfigured, NEW w \in Purgers, purger[w] # None
  PROVE  Newest[purger[w].target] # 0
<1>1. PICK e : e = purger[w].target
  OBVIOUS
<1>2. e \in Targets /\ requests[e] # None /\ requests[e].checkpoint # "pending" /\ RequestInv(e)
  BY <1>1 DEF DeletionType, PurgeInv, PurgerInv
<1>3. requests[e].checkpoint \in {"not_configured", "pending", "committed"}
  BY <1>2, RequestFacts DEF RequestRow
<1>4. QED
  BY <1>1, <1>2, <1>3 DEF RequestInv

LEMMA RequestInvStays ==
  ASSUME TombstonesGrow, Earlier(Newest, Newest'), UNCHANGED backupConfigured,
         NEW e \in Targets, RequestInv(e), RowStands(e)
  PROVE  RequestInv(e)'
BY DEF RequestInv, RowStands, TombstonesGrow, Earlier

LEMMA PurgerInvStays ==
  ASSUME DeletionType, RowsStand, NEW w \in Purgers, PurgerInv(w),
         purger'[w] # None => purger[w] # None /\ purger'[w].target = purger[w].target
  PROVE  PurgerInv(w)'
<1>1. SUFFICES ASSUME purger'[w] # None PROVE PurgerInv(w)'
  BY DEF PurgerInv
<1>2. PICK e : e = purger[w].target
  OBVIOUS
<1>3. e \in Targets /\ purger'[w].target = e /\ requests[e] # None /\ requests[e].checkpoint # "pending"
  BY <1>1, <1>2 DEF DeletionType, PurgerInv
<1>4. requests'[e] \in RequestRow /\ requests'[e].checkpoint # "pending"
  BY <1>3 DEF RowsStand, RowStands
<1>5. QED
  BY <1>3, <1>4, DeletionAssumption DEF PurgerInv

\* What is purged stays covered.
LEMMA CoveredStays == Earlier(Newest, Newest') => \A t : Covered(t) => Covered(t)'
  BY DEF Covered, Earlier

\* Steps that give no worker a new request and purge nothing.
LEMMA PurgeInvKept ==
  ASSUME DeletionType, PurgeInv, TombstonesGrow, Earlier(Newest, Newest'), RowsStand,
         UNCHANGED <<backupConfigured, purged>>,
         \A w \in Purgers : purger'[w] # None =>
            purger[w] # None /\ purger'[w].target = purger[w].target,
         \A t \in Targets : material'[t] = "gone" => material[t] = "gone"
  PROVE  PurgeInv'
<1>1. \A e \in Targets : RequestInv(e)'
  BY RequestInvStays DEF PurgeInv, RowsStand
<1>2. \A w \in Purgers : PurgerInv(w)'
  BY PurgerInvStays DEF PurgeInv
<1>3. backupConfigured' => \A t \in purged' : Covered(t)'
  BY CoveredStays DEF PurgeInv
<1>4. QED
  BY <1>1, <1>2, <1>3 DEF PurgeInv

LEMMA PurgeInvRequest ==
  ASSUME DeletionType, PurgeInv, TombstonesGrow, Newest' = Newest, NEW e \in Targets, Request(e),
         tombstones'[e] # 0
  PROVE  PurgeInv'
<1>1. Earlier(Newest, Newest') /\ UNCHANGED <<backupConfigured, purger, material, purged>>
  BY DEF Earlier, Request
<1>2. ASSUME NEW t \in Targets PROVE RequestInv(t)'
  <2>1. CASE t = e
    BY <1>1, <2>1, RequestRows DEF RequestInv
  <2>2. CASE t # e
    <3>1. requests'[t] = requests[t]
      BY <2>2, RequestRows
    <3>2. RowStands(t)
      BY <3>1, RequestFacts DEF RowStands
    <3>3. QED
      BY <1>1, <3>2, RequestInvStays DEF PurgeInv
  <2>3. QED
    BY <2>1, <2>2
<1>3. ASSUME NEW w \in Purgers PROVE PurgerInv(w)'
  <2>1. purger[w] # None => purger[w].target \in Targets \ {e}
    BY RequestRows DEF DeletionType, PurgeInv, PurgerInv
  <2>2. QED
    BY <1>1, <2>1, RequestRows DEF PurgeInv, PurgerInv
<1>4. backupConfigured' => \A t \in purged' : Covered(t)'
  BY <1>1, CoveredStays DEF PurgeInv
<1>5. QED
  BY <1>1, <1>2, <1>3, <1>4 DEF PurgeInv

LEMMA PurgeInvJob ==
  ASSUME MaterialOK, DeletionType, PurgeInv, TombstonesGrow, Newest' = Newest,
         NEW w \in Purgers, RetentionJob(w)
  PROVE  PurgeInv'
<1>1. RowsStand /\ Earlier(Newest, Newest') /\ PurgerInv(w)
  BY JobRows DEF Earlier, PurgeInv
<1>2. DOMAIN purger = Purgers
  BY DEF DeletionType
<1>3. CASE \E e \in Targets : ClaimDeletion(w, e)
  <2>1. PICK e \in Targets : ClaimDeletion(w, e)
    BY <1>3
  <2>2. /\ purger' = [purger EXCEPT ![w] = [target |-> e, fenced |-> FALSE]]
        /\ requests[e] # None /\ requests[e].checkpoint # "pending"
        /\ UNCHANGED <<backupConfigured, purged, material>>
    BY <2>1 DEF ClaimDeletion, Claimable, materialVars
  <2>3. /\ purger'[w].target = e
        /\ \A v \in Purgers \ {w} : purger'[v] = purger[v]
    BY <1>2, <2>2
  <2>4. requests'[e] \in RequestRow /\ requests'[e].checkpoint # "pending"
    BY <1>1, <2>2 DEF RowsStand, RowStands
  <2>5. PurgerInv(w)'
    BY <2>3, <2>4, DeletionAssumption DEF PurgerInv
  <2>6. \A v \in Purgers : PurgerInv(v)'
    BY <1>1, <2>3, <2>5, PurgerInvStays DEF PurgeInv
  <2>7. \A t \in Targets : RequestInv(t)'
    BY <1>1, <2>2, RequestInvStays DEF PurgeInv, RowsStand
  <2>8. backupConfigured' => \A t \in purged' : Covered(t)'
    BY <1>1, <2>2, CoveredStays DEF PurgeInv
  <2>9. QED
    BY <2>2, <2>6, <2>7, <2>8 DEF PurgeInv
<1>4. CASE TakeFence(w) \/ MarkFailed(w) \/ CrashPurger(w) \/ \E x \in Exports : DeleteExportArchive(w, x)
  <2>1. UNCHANGED <<backupConfigured, purged, material>>
    BY <1>4 DEF TakeFence, MarkFailed, CrashPurger, DeleteExportArchive, materialVars
  <2>2. \A v \in Purgers : purger'[v] # None => purger[v] # None /\ purger'[v].target = purger[v].target
    <3>1. CASE TakeFence(w)
      <4>1. purger[w] # None /\ purger' = [purger EXCEPT ![w].fenced = TRUE]
        BY <3>1 DEF TakeFence
      <4>2. DOMAIN purger[w] = {"target", "fenced"}
        BY <4>1 DEF DeletionType
      <4>3. purger'[w].target = purger[w].target
        BY <1>2, <4>1, <4>2
      <4>4. QED
        BY <1>2, <4>1, <4>3
    <3>2. CASE MarkFailed(w) \/ CrashPurger(w)
      <4>1. purger' = [purger EXCEPT ![w] = None]
        BY <3>2 DEF MarkFailed, CrashPurger
      <4>2. QED
        BY <1>2, <4>1
    <3>3. CASE \E x \in Exports : DeleteExportArchive(w, x)
      BY <3>3 DEF DeleteExportArchive
    <3>4. QED
      BY <1>4, <3>1, <3>2, <3>3
  <2>3. QED
    BY <1>1, <2>1, <2>2, PurgeInvKept
<1>5. CASE \E b \in Targets : DeleteBlob(w, b)
  <2>1. PICK b \in Targets : DeleteBlob(w, b)
    BY <1>5
  <2>2. PICK e : e = purger[w].target
    OBVIOUS
  <2>3. /\ purger[w] # None /\ b \in requests[e].keys /\ purged' = purged \cup {b}
        /\ UNCHANGED <<backupConfigured, purger, material>>
    BY <2>1, <2>2 DEF DeleteBlob, Working
  <2>4. e \in Targets /\ b \in Within(e)
    BY <1>1, <2>2, <2>3 DEF DeletionType, PurgeInv, PurgerInv, RequestInv
  <2>5. backupConfigured => Covered(b)
    BY <2>2, <2>3, <2>4, WorkerCovered DEF Covered
  <2>6. \A v \in Purgers : PurgerInv(v)'
    BY <1>1, <2>3, PurgerInvStays DEF PurgeInv
  <2>7. \A t \in Targets : RequestInv(t)'
    BY <1>1, <2>3, RequestInvStays DEF PurgeInv, RowsStand
  <2>8. backupConfigured' => \A t \in purged' : Covered(t)'
    BY <1>1, <2>3, <2>5, CoveredStays DEF PurgeInv
  <2>9. QED
    BY <2>3, <2>6, <2>7, <2>8 DEF PurgeInv
<1>6. CASE CompleteDeletion(w)
  <2>1. PICK e : e = purger[w].target
    OBVIOUS
  <2>2. /\ e \in Targets /\ purger[w] # None
        /\ purger' = [purger EXCEPT ![w] = None] /\ UNCHANGED <<backupConfigured, ledgerVars>>
    BY <1>6, <2>1, CompleteStep
  <2>3. \A v \in Purgers : purger'[v] # None => purger[v] # None /\ purger'[v].target = purger[v].target
    BY <1>2, <2>2
  <2>4. CASE UNCHANGED <<requests, material, purged>>
    BY <1>1, <2>2, <2>3, <2>4, PurgeInvKept
  <2>5. CASE ~UNCHANGED <<requests, material, purged>>
    <3>1. /\ material' = Purge(material, tombstones, e) /\ material' # None
          /\ purged' = purged \cup {t \in Targets : material'[t] = "gone"}
      BY <1>6, <2>1, <2>5, CompleteStep
    <3>2. \A t \in Targets : material'[t] = "gone" => t \in purged \/ t \in Within(e)
      BY <2>2, <3>1, PurgeStep DEF PurgeInv
    <3>3. backupConfigured => \A t \in Within(e) : Covered(t)
      BY <2>1, <2>2, WorkerCovered DEF Covered
    <3>4. \A v \in Purgers : PurgerInv(v)'
      BY <1>1, <2>3, PurgerInvStays DEF PurgeInv
    <3>5. \A t \in Targets : RequestInv(t)'
      BY <1>1, <2>2, RequestInvStays DEF PurgeInv, RowsStand
    <3>6. backupConfigured' => \A t \in purged' : Covered(t)'
      BY <1>1, <2>2, <3>1, <3>2, <3>3, CoveredStays DEF PurgeInv
    <3>7. purged' \subseteq Targets /\ \A t \in Targets : material'[t] = "gone" => t \in purged'
      BY <3>1 DEF PurgeInv
    <3>8. QED
      BY <3>4, <3>5, <3>6, <3>7 DEF PurgeInv
  <2>6. QED
    BY <2>4, <2>5
<1>7. QED
  BY <1>3, <1>4, <1>5, <1>6 DEF RetentionJob

LEMMA PurgeInvStep ==
  ASSUME MaterialOK, DeletionType, BackupInv, PurgeInv, BackupNext, Earlier(Newest, Newest')
  PROVE  PurgeInv'
<1>1. UNCHANGED <<materialVars, backupConfigured, purger, purged>>
  BY DEF BackupNext, BeginBackup, CopyVerifiedBlobs, StoreSnapshot, Checkpoint, EndBackup,
     RestoreBackup, deletionVars
<1>2. RowsStand
  <2>1. CASE Checkpoint
    BY <2>1, CheckpointRows DEF PurgeInv, MaterialOK
  <2>2. CASE ~Checkpoint
    <3>1. UNCHANGED requests
      BY <2>2 DEF BackupNext, BeginBackup, CopyVerifiedBlobs, StoreSnapshot, EndBackup,
         RestoreBackup, deletionVars
    <3>2. QED
      BY <3>1, RowsUnchanged
  <2>3. QED
    BY <2>1, <2>2
<1>3. TombstonesGrow
  BY <1>1 DEF TombstonesGrow, materialVars
<1>4. QED
  BY <1>1, <1>2, <1>3, PurgeInvKept DEF materialVars

LEMMA DeletionTypeNext ==
  ASSUME MaterialOK, DeletionType, BackupInv, PurgeInv, [RetentionNext]_retentionVars
  PROVE  DeletionType'
<1>1. ASSUME requests' \in [Targets -> RequestRow \cup {None}], UNCHANGED <<backupConfigured, purger>>
      PROVE  DeletionType'
  BY <1>1 DEF DeletionType
<1>2. CASE MaterialNext /\ UNCHANGED <<exportVars, deletionVars, backupVars>>
  BY <1>1, <1>2, RowsUnchanged DEF deletionVars
<1>3. CASE (TrashNext \/ ExportNext) /\ UNCHANGED <<deletionVars, backupVars>>
  BY <1>1, <1>3, RowsUnchanged DEF deletionVars
<1>4. CASE DeletionNext
  <2>1. CASE \E e \in Targets : Request(e)
    BY <1>1, <2>1, RequestRows DEF Request
  <2>2. CASE \E e \in Targets : LeaseLapses(e)
    BY <1>1, <2>2, LapseRows DEF LeaseLapses
  <2>3. CASE \E w \in Purgers : RetentionJob(w)
    <3>1. PICK w \in Purgers : RetentionJob(w)
      BY <2>3
    <3>2. requests' \in [Targets -> RequestRow \cup {None}]
      BY <3>1, JobRows DEF PurgeInv
    <3>3. UNCHANGED backupConfigured
      BY <3>1 DEF RetentionJob, ClaimDeletion, TakeFence, DeleteBlob, DeleteExportArchive,
           CompleteDeletion, MarkFailed, CrashPurger
    <3>4. /\ DOMAIN purger' = Purgers
          /\ \A v \in Purgers : purger'[v] # None =>
                DOMAIN purger'[v] = {"target", "fenced"} /\ purger'[v].target \in Targets
      <4>1. DOMAIN purger = Purgers /\ \A v \in Purgers : purger[v] # None =>
                DOMAIN purger[v] = {"target", "fenced"} /\ purger[v].target \in Targets
        BY DEF DeletionType
      <4>2. CASE \E e \in Targets : ClaimDeletion(w, e)
        <5>1. PICK e \in Targets : ClaimDeletion(w, e)
          BY <4>2
        <5>2. PICK job : job = [target |-> e, fenced |-> FALSE]
          OBVIOUS
        <5>3. purger' = [purger EXCEPT ![w] = job]
          BY <5>1, <5>2 DEF ClaimDeletion
        <5>4. DOMAIN job = {"target", "fenced"} /\ job.target \in Targets
          BY <5>2
        <5>5. QED
          BY <4>1, <5>3, <5>4
      <4>3. CASE TakeFence(w)
        <5>1. PICK job, old : old = purger[w] /\ job = [old EXCEPT !.fenced = TRUE]
          OBVIOUS
        <5>2. purger[w] # None /\ purger' = [purger EXCEPT ![w] = job]
          BY <4>1, <4>3, <5>1 DEF TakeFence
        <5>3. DOMAIN job = {"target", "fenced"} /\ job.target \in Targets
          BY <4>1, <5>1, <5>2
        <5>4. QED
          BY <4>1, <5>2, <5>3
      <4>4. CASE CompleteDeletion(w) \/ MarkFailed(w) \/ CrashPurger(w)
        <5>1. purger' = [purger EXCEPT ![w] = None]
          BY <4>4 DEF CompleteDeletion, MarkFailed, CrashPurger
        <5>2. QED
          BY <4>1, <5>1
      <4>5. CASE (\E b \in Targets : DeleteBlob(w, b)) \/ \E x \in Exports : DeleteExportArchive(w, x)
        <5>1. UNCHANGED purger
          BY <4>5 DEF DeleteBlob, DeleteExportArchive
        <5>2. QED
          BY <4>1, <5>1
      <4>6. QED
        BY <3>1, <4>2, <4>3, <4>4, <4>5 DEF RetentionJob
    <3>5. QED
      BY <3>2, <3>3, <3>4 DEF DeletionType
  <2>4. QED
    BY <1>4, <2>1, <2>2, <2>3, DeletionSteps
<1>5. CASE BackupNext
  <2>1. UNCHANGED <<backupConfigured, purger>>
    BY <1>5 DEF BackupNext, BeginBackup, CopyVerifiedBlobs, StoreSnapshot, Checkpoint, EndBackup,
       RestoreBackup, deletionVars
  <2>2. CASE Checkpoint
    BY <1>1, <2>1, <2>2, CheckpointRows DEF PurgeInv, MaterialOK
  <2>3. CASE ~Checkpoint
    <3>1. UNCHANGED requests
      BY <1>5, <2>3 DEF BackupNext, BeginBackup, CopyVerifiedBlobs, StoreSnapshot, EndBackup,
         RestoreBackup, deletionVars
    <3>2. QED
      BY <1>1, <2>1, <3>1, RowsUnchanged
  <2>4. QED
    BY <2>2, <2>3
<1>6. CASE UNCHANGED retentionVars
  BY <1>1, <1>6, RowsUnchanged DEF retentionVars, deletionVars
<1>7. QED
  BY <1>2, <1>3, <1>4, <1>5, <1>6 DEF RetentionNext

LEMMA BackupAndPurgeNext ==
  ASSUME MaterialOK, DeletionType, BackupInv, PurgeInv, [RetentionNext]_retentionVars
  PROVE  BackupInv' /\ PurgeInv'
<1>1. MaterialType /\ MaterialType' /\ TombstonesGrow
  BY MaterialNextStep DEF MaterialOK
<1>2. ASSUME UNCHANGED <<repository, backup>>
      PROVE  BackupInv' /\ Newest' = Newest /\ Earlier(Newest, Newest')
  BY <1>1, <1>2, BackupInvKept DEF Earlier
<1>3. ASSUME UNCHANGED <<repository, backup, requests, backupConfigured, purged, purger>>, NothingGoes
      PROVE  BackupInv' /\ PurgeInv'
  BY <1>1, <1>2, <1>3, RowsUnchanged, PurgeInvKept DEF NothingGoes
<1>4. CASE MaterialNext /\ UNCHANGED <<exportVars, deletionVars, backupVars>>
  BY <1>3, <1>4, MaterialStep DEF deletionVars, backupVars
<1>5. CASE TrashNext /\ UNCHANGED <<deletionVars, backupVars>>
  BY <1>3, <1>5, TrashSteps, SoftDeleteStep DEF deletionVars, backupVars
<1>6. CASE DeletionNext /\ UNCHANGED backupVars
  <2>1. BackupInv' /\ Newest' = Newest /\ Earlier(Newest, Newest')
    BY <1>2, <1>6 DEF backupVars
  <2>2. CASE \E e \in Targets : Request(e)
    BY <1>1, <2>1, <2>2, RequestStep, PurgeInvRequest
  <2>3. CASE \E e \in Targets : LeaseLapses(e)
    <3>1. RowsStand /\ UNCHANGED <<backupConfigured, purged, purger, material>>
      BY <2>3, LapseRows DEF LeaseLapses, materialVars
    <3>2. QED
      BY <1>1, <2>1, <3>1, PurgeInvKept
  <2>4. CASE \E w \in Purgers : RetentionJob(w)
    BY <1>1, <2>1, <2>4, PurgeInvJob
  <2>5. QED
    BY <1>6, <2>1, <2>2, <2>3, <2>4, DeletionSteps
<1>7. CASE ExportNext /\ UNCHANGED <<deletionVars, backupVars>>
  <2>1. NothingGoes
    BY <1>7, ExportStepsKeepMaterial DEF materialVars, NothingGoes
  <2>2. QED
    BY <1>3, <1>7, <2>1 DEF deletionVars, backupVars
<1>8. CASE BackupNext
  BY <1>8, BackupInvStep, PurgeInvStep
<1>9. CASE UNCHANGED retentionVars
  BY <1>3, <1>9 DEF retentionVars, deletionVars, backupVars, materialVars, NothingGoes
<1>10. QED
  BY <1>4, <1>5, <1>6, <1>7, <1>8, <1>9 DEF RetentionNext

-----------------------------------------------------------------------------
(* The restore.                                                              *)

LEMMA RestoreIsSafe ==
  ASSUME BackupInv, PurgeInv, RestoreBackup
  PROVE  PurgedStaysPurged'
<1>1. PICK n \in DOMAIN repository :
         LET replayed == ApplyTombstones(repository[n], NewestTombstones)
             outcome == Restored(repository[n])
         IN  restored' = [outcome |-> outcome,
                          rows |-> IF outcome = "done" THEN replayed.rows ELSE None,
                          blobs |-> IF outcome = "done"
                                    THEN RestoreBlobs(repository[n], replayed.rows, replayed.ledger)
                                    ELSE {}]
  BY DEF RestoreBackup
<1>2. PICK image, rows, ledger :
         /\ image = repository[n]
         /\ rows = ApplyTombstones(image, NewestTombstones).rows
         /\ ledger = ApplyTombstones(image, NewestTombstones).ledger
  OBVIOUS
<1>3. UNCHANGED <<backupConfigured, purged>>
  BY DEF RestoreBackup, deletionVars
<1>4. SUFFICES ASSUME backupConfigured, restored'.outcome = "done"
               PROVE  /\ restored'.blobs \cap purged = {}
                      /\ \A e \in purged \ Audios :
                            e \in Contributions \cup {Day} => restored'.rows[e] \in {"absent", "gone"}
  BY <1>3 DEF PurgedStaysPurged
<1>5. Restored(image) = "done"
  BY <1>1, <1>2, <1>4
<1>6. restored'.rows = rows /\ restored'.blobs = RestoreBlobs(image, rows, ledger)
  BY <1>1, <1>2, <1>5
<1>7. rows # None
  BY <1>2, <1>5 DEF Restored
<1>8. /\ image \in Images /\ Consistent(image.material) /\ repository # <<>>
      /\ NewestTombstones \in [Targets -> Nat]
  <2>1. repository \in Seq(Images) /\ Len(repository) \in Nat /\ DOMAIN repository = 1..Len(repository)
    BY DEF BackupInv
  <2>2. Len(repository) \in DOMAIN repository
    BY <2>1
  <2>3. repository[n] \in Images /\ repository[Len(repository)] \in Images
    BY <2>1, <2>2
  <2>4. QED
    BY <1>2, <2>1, <2>2, <2>3 DEF BackupInv, Images, NewestTombstones
<1>9. PICK newest \in [Targets -> Nat] : newest = NewestTombstones /\ newest = Newest
  BY <1>8 DEF Newest
<1>10. ledger = [e \in Targets |-> IF image.tombstones[e] # 0 THEN image.tombstones[e] ELSE newest[e]]
  BY <1>2, <1>9 DEF ApplyTombstones, Ledger
<1>11. \A e, t \in Targets : newest[e] # 0 /\ t \in Within(e) /\ t \notin Audios => rows[t] \in Away
  BY <1>2, <1>7, <1>8, <1>9, ReplayRemoves
<1>12. \A t \in purged : t \in Targets /\ \E e \in Targets : t \in Within(e) /\ newest[e] # 0
  BY <1>4, <1>9 DEF PurgeInv, Covered
<1>13. \A t \in purged \ Audios : rows[t] \in Away
  BY <1>11, <1>12
<1>14. ASSUME NEW b \in purged, b \in LiveBlobRows(rows, ledger) PROVE FALSE
  <2>1. CASE b \in Audios
    <3>1. /\ b.of \in Entries /\ Contribution(b.of) \in Targets /\ b \in Targets /\ Day \in Targets
          /\ b \notin RawResponses
      BY <2>1, KindsApart, TargetsOfEntry, DayIsTarget
    <3>2. ledger[b] = 0 /\ ledger[Contribution(b.of)] = 0 /\ ledger[Day] = 0
      BY <1>14, <2>1, <3>1 DEF LiveBlobRows
    <3>3. newest[b] = 0 /\ newest[Contribution(b.of)] = 0 /\ newest[Day] = 0
      BY <1>10, <3>1, <3>2
    <3>4. PICK e \in Targets : b \in Within(e) /\ newest[e] # 0
      BY <1>12
    <3>5. e = Day \/ e = b \/ e = Contribution(b.of)
      BY <3>4, WithinTarget
    <3>6. QED
      BY <3>3, <3>4, <3>5
  <2>2. CASE b \notin Audios
    <3>1. rows[b] \in {"live", "deleted"}
      BY <1>14, <2>2 DEF LiveBlobRows
    <3>2. QED
      BY <1>13, <2>2, <3>1 DEF Away
  <2>3. QED
    BY <2>1, <2>2
<1>15. QED
  BY <1>6, <1>13, <1>14 DEF RestoreBlobs, Away

-----------------------------------------------------------------------------
(* The invariant holds, and what it implies.                                 *)

LEMMA RetentionInvInit == RetentionInit => RetentionInv
<1> SUFFICES ASSUME RetentionInit PROVE RetentionInv
  OBVIOUS
<1>1. PICK late \in SUBSET Late :
         material = [e \in Targets |-> IF e.of \in late THEN "absent" ELSE "live"]
  BY DEF RetentionInit, MaterialInit
<1>2. None \notin late
  BY MaterialAssumption
<1>3. MaterialType /\ \A e \in Targets : tombstones[e] = 0 /\ material[e] # "gone"
  BY <1>1 DEF RetentionInit, MaterialInit, MaterialType, Rows
<1>4. Consistent(material)
  BY <1>1, <1>2, DayIsTarget, TargetsOfEntry DEF Consistent, Away
<1>5. ExportInv
  <2>1. ExportType
    BY DEF RetentionInit, ExportInit, ExportType, NoJob, Phases
  <2>2. \A x \in Exports : ExportOK(x)
    BY DEF RetentionInit, ExportInit, ExportOK, SnapshotInv, ContentInv, FoundInv, NoJob, Exporting
  <2>3. QED
    BY <2>1, <2>2 DEF ExportInv
<1>6. DeletionType /\ FenceInv
  BY DEF RetentionInit, DeletionInit, BackupInit, DeletionType, FenceInv
<1>7. BackupInv
  <2>1. repository = <<>> /\ repository \in Seq(Images) /\ DOMAIN repository = {} /\ backup = None
    BY DEF RetentionInit, BackupInit
  <2>2. \A e \in Targets : Newest[e] = 0
    BY <2>1 DEF Newest
  <2>3. QED
    BY <2>1, <2>2 DEF BackupInv, Earlier
<1>8. PurgeInv
  BY <1>3 DEF RetentionInit, DeletionInit, PurgeInv, RequestInv, PurgerInv
<1>9. restored = None
  BY DEF RetentionInit, BackupInit
<1>10. QED
  BY <1>3, <1>4, <1>5, <1>6, <1>7, <1>8, <1>9 DEF RetentionInv

LEMMA RetentionInvNext == RetentionInv /\ [RetentionNext]_retentionVars => RetentionInv'
<1> SUFFICES ASSUME RetentionInv, [RetentionNext]_retentionVars PROVE RetentionInv'
  OBVIOUS
<1>1. MaterialOK /\ ExportInv /\ DeletionType /\ FenceInv /\ BackupInv /\ PurgeInv
  BY DEF RetentionInv, MaterialOK
<1>2. MaterialOK'
  BY <1>1, MaterialNextStep
<1>3. ExportInv' /\ DeletionType' /\ FenceInv'
  BY <1>1, ExportInvNext, DeletionTypeNext, FenceInvNext
<1>4. BackupInv' /\ PurgeInv'
  BY <1>1, BackupAndPurgeNext
<1>5. restored' # None => PurgedStaysPurged'
  <2>1. CASE RestoreBackup
    BY <1>1, <2>1, RestoreIsSafe
  <2>2. CASE RetentionNext /\ ~RestoreBackup
    <3>1. restored' = None
      BY <2>2 DEF RetentionNext, BackupNext, backupVars, BeginBackup, CopyVerifiedBlobs,
         StoreSnapshot, Checkpoint, EndBackup
    <3>2. QED
      BY <3>1
  <2>3. CASE UNCHANGED retentionVars
    BY <2>3 DEF RetentionInv, PurgedStaysPurged, retentionVars, backupVars, deletionVars
  <2>4. QED
    BY <2>1, <2>2, <2>3
<1>6. QED
  BY <1>2, <1>3, <1>4, <1>5 DEF RetentionInv, MaterialOK

LEMMA ShowsWhatIsThere == RetentionInv => DeletedIsNotExported
<1> SUFFICES ASSUME RetentionInv, NEW x \in Exports, archives[x] # None,
                    NEW e \in archives[x], PutAway(e)
             PROVE  /\ ~CanDownload(x)
                    /\ Exporting(x) \/ exports[x].archiveBlobKey \/ x \in strays
  BY DEF DeletedIsNotExported
<1>1. PICK row : row = exports[x]
  OBVIOUS
<1>2. /\ ContentInv(x) /\ FoundInv(x) /\ row # None /\ row \in ExportRow
      /\ e \in Carried(row)
  BY <1>1, ExportRowFacts DEF RetentionInv, ContentInv
<1>3. ASSUME CanDownload(x) PROVE FALSE
  <2>1. Shows(row.items, row.leases, material, tombstones)
    BY <1>1, <1>2, <1>3 DEF CanDownload, ContentInv, Open
  <2>2. row.items \subseteq Targets /\ row.leases \subseteq Audios \cup RawResponses
    BY <1>2, <2>1 DEF ExportRow, Shows
  <2>3. \A t \in Targets : t.kind # "bytes"
    BY KindsOfTargets, KindsApart, DayIsTarget
  <2>4. CASE e \in Contributions /\ material[e] # "live"
    <3>1. e \notin row.items
      BY <2>1, <2>4 DEF Shows
    <3>2. e \notin row.leases
      BY <2>2, <2>4, KindsApart
    <3>3. e.kind # "bytes" /\ \A l : Bytes(l).kind = "bytes"
      BY <2>3, <2>4, KindsApart DEF Bytes
    <3>4. QED
      BY <1>2, <3>1, <3>2, <3>3 DEF Carried
  <2>5. CASE e.kind = "bytes" /\ ~(e \in Contributions /\ material[e] # "live")
    <3>1. e \notin row.items /\ e \notin row.leases
      BY <2>2, <2>3, <2>5, KindsApart
    <3>2. PICK l \in row.leases : e = Bytes(l)
      BY <1>2, <3>1 DEF Carried
    <3>3. e.of = l
      BY <3>2 DEF Bytes
    <3>4. /\ l \in Audios => material[l] = "live"
          /\ l \in RawResponses => tombstones[l] = 0
      BY <2>1, <3>2 DEF Shows
    <3>5. QED
      BY <2>5, <3>3, <3>4 DEF PutAway, Tombstoned
  <2>6. QED
    BY <2>4, <2>5 DEF PutAway
<1>4. QED
  BY <1>1, <1>2, <1>3 DEF FoundInv

\* The invariant of everything that keeps, exports, deletes, backs up and
\* restores: any interleaving of the owner's requests, the export workers, the
\* maintenance workers and a backup, with crashes of each, keeps it.
THEOREM RetentionInvariant == RetentionSpec => []RetentionInv
<1>1. RetentionInv /\ [RetentionNext]_retentionVars => RetentionInv'
  BY RetentionInvNext
<1>2. RetentionInit => RetentionInv
  BY RetentionInvInit
<1>3. QED
  BY <1>1, <1>2, PTL DEF RetentionSpec, retentionVars

\* No export that can be downloaded shows anything the owner has put away or
\* deleted for good, whatever the order of the snapshot, the worker of the
\* export and the deletion; and an archive that shows it can still be found
\* and deleted, unless its worker died before its row named it or its own
\* attempt to delete it failed.
THEOREM DeletedIsNotExportedAlways == RetentionSpec => []DeletedIsNotExported
BY RetentionInvariant, ShowsWhatIsThere, PTL

\* Where backups are configured, no blob or row that a purge has removed is
\* there again after a restore, whichever backup of the repository is
\* restored: a purge waits for a backup that holds its tombstone, and the
\* restore applies the tombstones of the newest backup to the chosen one.
THEOREM PurgedStaysPurgedAlways == RetentionSpec => []PurgedStaysPurged
<1>1. RetentionInv => PurgedStaysPurged
  BY DEF RetentionInv, PurgedStaysPurged
<1>2. QED
  BY <1>1, RetentionInvariant, PTL

\* No blob that a backup listed, and that was there when it began, is gone
\* when the backup copies it: the advisory lock that purges take is shared by
\* the backup from its snapshot to its end.
THEOREM BackupsAreWholeAlways == RetentionSpec => []BackupsAreWhole
<1>1. RetentionInv => BackupsAreWhole
  BY DEF RetentionInv, FenceInv, BackupsAreWhole
<1>2. QED
  BY <1>1, RetentionInvariant, PTL
=============================================================================
