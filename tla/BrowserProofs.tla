---------------------------- MODULE BrowserProofs ----------------------------
(* Proofs about the browser's components, for any number of tabs, captures,  *)
(* activities and units, and any bounds.                                     *)
(*                                                                           *)
(* The outbox (JournalOutbox).  What a tab may still do depends on what it   *)
(* was told a while ago.  It is right all the same because the server only   *)
(* moves on: an accepted capture stays accepted, a revision is never taken   *)
(* back, and a capture whose base was overtaken (Outdated) is never applied, *)
(* however often it is sent.                                                 *)
(*                                                                           *)
(* The recording (RecordingSync).  Every writer stores a whole row that it   *)
(* read earlier: the capture controller, each activity and the mover.  No    *)
(* unit is lost by it because every copy that can still be stored counts     *)
(* every unit the browser called saved (Started), and because the units are  *)
(* only deleted by an activity whose upload the server took whole            *)
(* (ServerInv).  A move can be undone by it, but only by a copy that was     *)
(* read before the move: MoveInv says which copies those can be.             *)
EXTENDS MCBrowser, SequenceTheorems, FiniteSetTheorems, TLAPS

-----------------------------------------------------------------------------
(* The inductive invariant.                                                  *)

CaptureRow == [kind : {"create", "edit"}, entry : Entries, base : Nat,
               day : Days \cup {NoRow}, draftOf : Nat]
EntryRow == [row : {NoRow, "active", "deleted", "purged"}, texts : Seq(Nat),
             day : Days \cup {NoRow}]
Places == {"idle", "next", "sent", "delete", "inspect", "mark"}
TabState == [pc : Places, list : Seq(Nat), seen : Nat,
             conflict : [capture : Nat, revision : Nat]]

StoreType ==
    /\ captures \in Seq(CaptureRow)
    /\ entries \in [Entries -> EntryRow]
    /\ accepted \subseteq Captures
    /\ discarded \subseteq Captures

\* An edit that was overtaken on the server.
Outdated(i) ==
    /\ i \in Captures
    /\ captures[i].kind = "edit"
    /\ i \notin accepted
    /\ captures[i].base < Revision(captures[i].entry)

CaptureInv(i) ==
    /\ captures[i].kind = "create" => captures[i].base = 0
    /\ captures[i].kind = "edit" => captures[i].base <= Revision(captures[i].entry)
    /\ captures[i].draftOf # NoCapture => Outdated(captures[i].draftOf)
    /\ i \in discarded => Outdated(i)

EntryInv(e) ==
    /\ entries[e].row = NoRow => entries[e].texts = <<>>
    /\ \A k \in DOMAIN entries[e].texts :
          entries[e].texts[k] # Remote =>
              /\ entries[e].texts[k] \in accepted
              /\ captures[entries[e].texts[k]].base = k - 1

StoreInv ==
    /\ StoreType
    /\ \A i \in Captures : CaptureInv(i)
    /\ \A e \in Entries : EntryInv(e)

\* What a tab was told of the first capture of its list.
RequestInv(tab) ==
    /\ tab.list \in Seq(Captures)
    /\ tab.pc \in {"sent", "delete", "inspect", "mark"} => tab.list # <<>>
    /\ tab.pc = "delete" => Head(tab.list) \in accepted
    /\ tab.pc \in {"inspect", "mark"} => Outdated(Head(tab.list))
    /\ tab.pc = "mark" => tab.seen <= Revision(captures[Head(tab.list)].entry)

\* What its dialog shows.
DialogInv(tab) ==
    tab.conflict.capture # NoCapture =>
        /\ Outdated(tab.conflict.capture)
        /\ tab.conflict.revision <= Revision(captures[tab.conflict.capture].entry)

TabInv(t) == RequestInv(tabs[t]) /\ DialogInv(tabs[t])

TabsInv == tabs \in [Tabs -> TabState] /\ \A t \in Tabs : TabInv(t)

QueueInv == outbox \subseteq Captures /\ wire \subseteq Captures /\ NothingLost

OutboxInv == StoreInv /\ TabsInv /\ QueueInv

-----------------------------------------------------------------------------
(* Sizes and shapes.                                                         *)

LEMMA Shapes ==
  ASSUME StoreType
  PROVE  /\ Captures = 1 .. Len(captures) /\ Len(captures) \in Nat /\ Captures \subseteq Nat \ {0}
         /\ \A i \in Captures : captures[i] \in CaptureRow
         /\ \A e \in Entries : /\ entries[e] \in EntryRow
                               /\ entries[e].texts \in Seq(Nat)
                               /\ Revision(e) \in Nat
                               /\ DOMAIN entries[e].texts = 1 .. Revision(e)
<1>1. /\ Captures = 1 .. Len(captures) /\ Len(captures) \in Nat
      /\ \A i \in Captures : captures[i] \in CaptureRow
  BY LenProperties DEF StoreType, Captures
<1>2. ASSUME NEW e \in Entries
      PROVE  /\ entries[e] \in EntryRow
             /\ entries[e].texts \in Seq(Nat)
  BY DEF StoreType, EntryRow
<1>3. ASSUME NEW e \in Entries
      PROVE  Revision(e) \in Nat /\ DOMAIN entries[e].texts = 1 .. Revision(e)
  BY <1>2, LenProperties DEF Revision
<1>4. QED
  BY <1>1, <1>2, <1>3

-----------------------------------------------------------------------------
(* The server only moves on.                                                 *)

Grows ==
    /\ Captures \subseteq Captures'
    /\ \A i \in Captures : captures'[i] = captures[i]
    /\ \A e \in Entries : Revision(e) <= Revision(e)'
    /\ \A e \in Entries : entries[e].row = "purged" => entries'[e].row = "purged"
    /\ accepted \subseteq accepted'
    /\ discarded \subseteq discarded'

Overtaken == \A i : Outdated(i) => Outdated(i)'

\* A step that accepts nothing overtaken leaves it so.
LEMMA OvertakenStays ==
  ASSUME StoreType, StoreType', Grows,
         \A i \in accepted' \ accepted : ~Outdated(i)
  PROVE  Overtaken
<1> SUFFICES ASSUME NEW i, Outdated(i) PROVE Outdated(i)'
  BY DEF Overtaken
<1>1. i \in Captures /\ captures[i] \in CaptureRow /\ captures'[i] = captures[i] /\ i \in Captures'
  BY Shapes DEF Outdated, Grows
<1>2. PICK e \in Entries : e = captures[i].entry /\ captures[i].base \in Nat
  BY <1>1 DEF CaptureRow
<1>3. Revision(e) \in Nat /\ Revision(e)' \in Nat
  <2>1. entries'[e].texts \in Seq(Nat)
    BY DEF StoreType, EntryRow
  <2>2. QED
    BY <2>1, Shapes, LenProperties DEF Revision
<1>4. Revision(e) <= Revision(e)'
  BY DEF Grows
<1>5. captures[i].base < Revision(e)'
  BY <1>2, <1>3, <1>4 DEF Outdated
<1>6. QED
  BY <1>1, <1>2, <1>5 DEF Outdated, Grows, Revision

LEMMA CaptureStays ==
  ASSUME StoreInv, StoreType', Grows, Overtaken, NEW i \in Captures,
         i \in discarded' => i \in discarded \/ Outdated(i)
  PROVE  CaptureInv(i)'
<1>1. /\ CaptureInv(i) /\ captures[i] \in CaptureRow /\ captures'[i] = captures[i]
      /\ i \in Captures'
  BY Shapes DEF StoreInv, Grows
<1>2. PICK rec \in CaptureRow : rec = captures[i] /\ rec = captures'[i]
  BY <1>1
<1>3. /\ rec.entry \in Entries /\ rec.base \in Nat
      /\ rec.kind = "create" => rec.base = 0
      /\ rec.kind = "edit" => rec.base <= Revision(rec.entry)
      /\ rec.draftOf # NoCapture => Outdated(rec.draftOf)
      /\ i \in discarded' => Outdated(i)
  <2>1. rec.entry \in Entries /\ rec.base \in Nat
    BY <1>2 DEF CaptureRow
  <2>2. rec.kind = "edit" => rec.base <= Revision(rec.entry)
    BY <1>1, <1>2 DEF CaptureInv
  <2>3. (rec.draftOf # NoCapture => Outdated(rec.draftOf)) /\ (rec.kind = "create" => rec.base = 0)
    BY <1>1, <1>2 DEF CaptureInv
  <2>4. i \in discarded' => Outdated(i)
    BY <1>1 DEF CaptureInv
  <2>5. QED
    BY <2>1, <2>2, <2>3, <2>4
<1>4. Revision(rec.entry) \in Nat /\ Revision(rec.entry)' \in Nat
      /\ Revision(rec.entry) <= Revision(rec.entry)'
  <2>1. entries'[rec.entry].texts \in Seq(Nat)
    BY <1>3 DEF StoreType, EntryRow
  <2>2. QED
    BY <2>1, <1>3, Shapes, LenProperties DEF Revision, Grows, StoreInv
<1>5. rec.kind = "edit" => rec.base <= Revision(rec.entry)'
  BY <1>3, <1>4
<1>6. (rec.draftOf # NoCapture => Outdated(rec.draftOf)') /\ (i \in discarded' => Outdated(i)')
  BY <1>3 DEF Overtaken
<1>7. QED
  BY <1>2, <1>3, <1>5, <1>6 DEF CaptureInv, Revision, Outdated

LEMMA EntryStays ==
  ASSUME StoreInv, Grows, NEW e \in Entries, entries'[e] = entries[e]
  PROVE  EntryInv(e)'
<1>1. EntryInv(e) /\ accepted \subseteq Captures /\ accepted \subseteq accepted'
      /\ \A i \in Captures : captures'[i] = captures[i]
  BY DEF StoreInv, StoreType, Grows
<1>2. QED
  BY <1>1 DEF EntryInv

\* A capture is enqueued.
LEMMA EnqueueStep ==
  ASSUME StoreInv, NEW c \in CaptureRow, Enqueue(c),
         c.kind = "create" => c.base = 0,
         c.kind = "edit" => c.base <= Revision(c.entry),
         c.draftOf # NoCapture => Outdated(c.draftOf),
         UNCHANGED <<entries, accepted, discarded>>
  PROVE  StoreInv' /\ Grows /\ Overtaken /\ Captures' = Captures \cup {Len(captures) + 1}
<1>1. /\ captures \in Seq(CaptureRow) /\ captures' = Append(captures, c)
      /\ Captures = 1 .. Len(captures) /\ Len(captures) \in Nat
  BY Shapes DEF StoreInv, StoreType, Enqueue
<1>2. /\ captures' \in Seq(CaptureRow) /\ Len(captures') = Len(captures) + 1
      /\ \A i \in Captures : captures'[i] = captures[i]
      /\ captures'[Len(captures) + 1] = c
  BY <1>1, AppendProperties
<1>3. Captures' = Captures \cup {Len(captures) + 1}
  <2>1. Captures' = 1 .. Len(captures) + 1
    BY <1>2, LenProperties DEF Captures
  <2>2. QED
    BY <1>1, <2>1
<1>4. StoreType'
  BY <1>2, <1>3 DEF StoreInv, StoreType
<1>5. Grows
  <2>1. \A e \in Entries : Revision(e)' = Revision(e) /\ Revision(e) \in Nat
    BY Shapes DEF Revision, StoreInv
  <2>2. QED
    BY <1>2, <1>3, <2>1 DEF Grows
<1>6. Overtaken
  BY <1>4, <1>5, OvertakenStays DEF StoreInv
<1>7. ASSUME NEW i \in Captures' PROVE CaptureInv(i)'
  <2>1. CASE i \in Captures
    BY <1>4, <1>5, <1>6, <2>1, CaptureStays
  <2>2. CASE i = Len(captures) + 1
    <3>1. captures'[i] = c /\ i \notin discarded'
      BY <1>1, <1>2, <2>2 DEF StoreInv, StoreType
    <3>2. c.kind = "edit" => c.base <= Revision(c.entry)'
      BY DEF Revision
    <3>3. c.draftOf # NoCapture => Outdated(c.draftOf)'
      BY <1>6 DEF Overtaken
    <3>4. QED
      BY <3>1, <3>2, <3>3 DEF CaptureInv, Revision, Outdated
  <2>3. QED
    BY <1>3, <2>1, <2>2
<1>8. \A e \in Entries : EntryInv(e)'
  BY <1>5, EntryStays
<1>9. QED
  BY <1>3, <1>4, <1>5, <1>6, <1>7, <1>8 DEF StoreInv

\* A contribution changes without a capture being accepted.
LEMMA RemoteStep ==
  ASSUME StoreInv, NEW e \in Entries, NEW r \in EntryRow,
         entries' = [entries EXCEPT ![e] = r],
         r.row # NoRow, entries[e].row = "purged" => r.row = "purged",
         \/ r.texts = entries[e].texts
         \/ r.texts = Append(entries[e].texts, Remote),
         UNCHANGED <<captures, accepted, discarded>>
  PROVE  StoreInv' /\ Grows /\ Overtaken
<1>1. /\ entries'[e] = r /\ \A f \in Entries \ {e} : entries'[f] = entries[f]
      /\ entries' \in [Entries -> EntryRow]
  BY DEF StoreInv, StoreType
<1>2. StoreType'
  BY <1>1 DEF StoreInv, StoreType, Captures
<1>3. entries[e].texts \in Seq(Nat) /\ Revision(e) \in Nat
      /\ DOMAIN entries[e].texts = 1 .. Revision(e)
  BY Shapes DEF StoreInv
<1>4. /\ Revision(e) <= Len(r.texts)
      /\ \A k \in DOMAIN r.texts :
            r.texts[k] = Remote \/ (k \in DOMAIN entries[e].texts /\ r.texts[k] = entries[e].texts[k])
  <2>1. CASE r.texts = entries[e].texts
    BY <1>3, <2>1 DEF Revision
  <2>2. CASE r.texts = Append(entries[e].texts, Remote)
    <3>1. Remote \in Nat
      BY DEF Remote
    <3>2. /\ r.texts \in Seq(Nat)
          /\ Len(r.texts) = Revision(e) + 1
          /\ \A k \in 1 .. Revision(e) : r.texts[k] = entries[e].texts[k]
          /\ r.texts[Revision(e) + 1] = Remote
      BY <1>3, <2>2, <3>1, AppendProperties DEF Revision
    <3>3. DOMAIN r.texts = 1 .. Revision(e) + 1
      BY <3>2, LenProperties
    <3>4. \A k \in DOMAIN r.texts : k \in 1 .. Revision(e) \/ k = Revision(e) + 1
      BY <1>3, <3>3
    <3>5. Revision(e) <= Len(r.texts)
      BY <1>3, <3>2
    <3>6. QED
      BY <1>3, <3>2, <3>4, <3>5
  <2>3. QED
    BY <2>1, <2>2
<1>5. Grows
  <2>1. \A f \in Entries : Revision(f) <= Revision(f)'
    BY <1>1, <1>4, Shapes DEF Revision, StoreInv
  <2>2. QED
    BY <1>1, <2>1 DEF Grows, Captures
<1>6. Overtaken
  BY <1>2, <1>5, OvertakenStays DEF StoreInv
<1>7. \A i \in Captures : CaptureInv(i)'
  BY <1>2, <1>5, <1>6, CaptureStays
<1>8. ASSUME NEW f \in Entries PROVE EntryInv(f)'
  <2>1. CASE f = e
    BY <1>1, <1>4, <2>1 DEF StoreInv, EntryInv
  <2>2. CASE f # e
    BY <1>1, <1>5, <2>2, EntryStays
  <2>3. QED
    BY <2>1, <2>2
<1>9. QED
  BY <1>2, <1>5, <1>6, <1>7, <1>8 DEF StoreInv, Captures

\* What the verdicts say of a capture.
LEMMA VerdictCases ==
  ASSUME StoreInv, NEW i \in Captures
  PROVE  /\ Verdict(i) = "applied" =>
               /\ i \notin accepted
               /\ entries[captures[i].entry].row # "purged"
               /\ captures[i].base = Revision(captures[i].entry)
               /\ captures[i].kind = "create" => entries[captures[i].entry].texts = <<>>
         /\ Verdict(i) = "replayed" => i \in accepted
         /\ Verdict(i) = "mismatch" => Outdated(i)
<1>1. PICK rec \in CaptureRow : rec = captures[i]
  BY Shapes DEF StoreInv
<1>2. rec.entry \in Entries /\ rec.base \in Nat /\ rec.kind \in {"create", "edit"}
  BY <1>1 DEF CaptureRow
<1>3. /\ rec.kind = "create" => rec.base = 0
      /\ rec.kind = "edit" => rec.base <= Revision(rec.entry)
  BY <1>1 DEF StoreInv, CaptureInv
<1>4. EntryInv(rec.entry) /\ Revision(rec.entry) \in Nat
  BY <1>2, Shapes DEF StoreInv
<1>5. CASE i \in accepted
  BY <1>1, <1>5 DEF Verdict, Replayed
<1>6. CASE i \notin accepted /\ rec.kind = "create"
  <2>1. Verdict(i) = CreateVerdict(i)
    BY <1>1, <1>6 DEF Verdict, Replayed
  <2>2. CASE entries[rec.entry].row = NoRow
    <3>1. entries[rec.entry].texts = <<>> /\ Revision(rec.entry) = 0
      BY <1>4, <2>2 DEF EntryInv, Revision
    <3>2. QED
      BY <1>1, <1>3, <1>6, <2>1, <2>2, <3>1 DEF CreateVerdict, MayCreate, NoRow
  <2>3. CASE entries[rec.entry].row # NoRow
    BY <1>1, <2>1, <2>3 DEF CreateVerdict, MayCreate
  <2>4. QED
    BY <2>2, <2>3
<1>7. CASE i \notin accepted /\ rec.kind = "edit"
  <2>1. Verdict(i) = EditVerdict(i)
    BY <1>1, <1>7 DEF Verdict, Replayed
  <2>2. CASE entries[rec.entry].row # "active"
    BY <1>1, <2>1, <2>2 DEF EditVerdict
  <2>3. CASE entries[rec.entry].row = "active" /\ rec.base = Revision(rec.entry)
    BY <1>1, <1>7, <2>1, <2>3 DEF EditVerdict, BaseIsCurrent
  <2>4. CASE entries[rec.entry].row = "active" /\ rec.base # Revision(rec.entry)
    <3>1. Verdict(i) = "mismatch"
      BY <1>1, <2>1, <2>4 DEF EditVerdict, BaseIsCurrent
    <3>2. rec.base < Revision(rec.entry)
      BY <1>2, <1>3, <1>4, <1>7, <2>4
    <3>3. QED
      BY <1>1, <1>7, <3>1, <3>2 DEF Outdated
  <2>5. QED
    BY <2>2, <2>3, <2>4
<1>8. QED
  BY <1>2, <1>5, <1>6, <1>7

LEMMA Appended ==
  ASSUME NEW s \in Seq(Nat), NEW i \in Nat, NEW t, t = Append(s, i)
  PROVE  /\ t \in Seq(Nat)
         /\ Len(t) = Len(s) + 1
         /\ \A k \in 1 .. Len(s) : t[k] = s[k]
         /\ t[Len(s) + 1] = i
<1>1. t \in Seq(Nat) /\ Len(t) = Len(s) + 1
  BY AppendProperties
<1>2. \A k \in 1 .. Len(s) : t[k] = s[k]
  BY AppendProperties
<1>3. t[Len(s) + 1] = i
  BY AppendProperties
<1>4. QED
  BY <1>1, <1>2, <1>3

\* A capture is accepted: its text goes on the revision it was based on.
LEMMA AcceptStep ==
  ASSUME StoreInv, NEW i \in Captures, i \notin accepted, NEW e \in Entries,
         e = captures[i].entry, captures[i].base = Revision(e),
         NEW r \in EntryRow, entries' = [entries EXCEPT ![e] = r],
         r.row = "active", entries[e].row # "purged", r.texts = Append(entries[e].texts, i),
         accepted' = accepted \cup {i}, UNCHANGED <<captures, discarded>>
  PROVE  StoreInv' /\ Grows /\ Overtaken
<1>1. /\ entries'[e] = r /\ \A f \in Entries \ {e} : entries'[f] = entries[f]
      /\ entries' \in [Entries -> EntryRow]
  BY DEF StoreInv, StoreType
<1>2. StoreType'
  BY <1>1 DEF StoreInv, StoreType, Captures
<1>3. /\ entries[e].texts \in Seq(Nat) /\ Revision(e) \in Nat /\ i \in Nat
      /\ DOMAIN entries[e].texts = 1 .. Revision(e)
  BY Shapes DEF StoreInv
<1>4. /\ r.texts \in Seq(Nat)
      /\ Len(r.texts) = Revision(e) + 1
      /\ \A k \in 1 .. Revision(e) : r.texts[k] = entries[e].texts[k]
      /\ r.texts[Revision(e) + 1] = i
  <2>1. PICK s \in Seq(Nat) : s = entries[e].texts
    BY <1>3
  <2>2. r.texts = Append(s, i) /\ i \in Nat
    BY <1>3, <2>1
  <2>3. /\ r.texts \in Seq(Nat)
        /\ Len(r.texts) = Len(s) + 1
        /\ \A k \in 1 .. Len(s) : r.texts[k] = s[k]
        /\ r.texts[Len(s) + 1] = i
    BY <2>2, Appended
  <2>4. Revision(e) = Len(s)
    BY <2>1 DEF Revision
  <2>5. QED
    BY <2>1, <2>3, <2>4
<1>5. DOMAIN r.texts = 1 .. Revision(e) + 1
  BY <1>4, LenProperties
<1>6. Grows
  <2>1. \A f \in Entries : Revision(f) <= Revision(f)'
    BY <1>1, <1>3, <1>4, Shapes DEF Revision, StoreInv
  <2>2. QED
    BY <1>1, <2>1 DEF Grows, Captures
<1>7. Overtaken
  <2>1. ~Outdated(i)
    BY <1>3 DEF Outdated
  <2>2. QED
    BY <1>2, <1>6, <2>1, OvertakenStays DEF StoreInv
<1>8. \A j \in Captures : CaptureInv(j)'
  BY <1>2, <1>6, <1>7, CaptureStays
<1>9. ASSUME NEW f \in Entries PROVE EntryInv(f)'
  <2>1. CASE f = e
    <3>1. ASSUME NEW k \in DOMAIN r.texts, r.texts[k] # Remote
          PROVE  r.texts[k] \in accepted' /\ captures[r.texts[k]].base = k - 1
      <4>1. CASE k \in 1 .. Revision(e)
        <5>1. r.texts[k] = entries[e].texts[k] /\ k \in DOMAIN entries[e].texts
          BY <1>3, <1>4, <4>1
        <5>2. QED
          BY <3>1, <5>1 DEF StoreInv, EntryInv
      <4>2. CASE k = Revision(e) + 1
        BY <1>3, <1>4, <4>2
      <4>3. QED
        BY <1>3, <1>5, <4>1, <4>2
    <3>2. r.row # NoRow
      BY DEF NoRow
    <3>3. QED
      BY <1>1, <2>1, <3>1, <3>2 DEF EntryInv
  <2>2. CASE f # e
    BY <1>1, <1>6, <2>2, EntryStays
  <2>3. QED
    BY <2>1, <2>2
<1>10. QED
  BY <1>2, <1>6, <1>7, <1>8, <1>9 DEF StoreInv, Captures

\* Nothing on the server changes, and only overtaken captures are given up.
LEMMA QuietStep ==
  ASSUME StoreInv, UNCHANGED <<captures, entries, accepted>>,
         discarded \subseteq discarded', \A i \in discarded' : i \in discarded \/ Outdated(i)
  PROVE  StoreInv' /\ Grows /\ Overtaken
<1>1. StoreType'
  BY DEF StoreInv, StoreType, Captures, Outdated
<1>2. Grows
  <2>1. \A f \in Entries : Revision(f) <= Revision(f)'
    BY Shapes DEF Revision, StoreInv
  <2>2. QED
    BY <2>1 DEF Grows, Captures
<1>3. Overtaken
  BY <1>1, <1>2, OvertakenStays DEF StoreInv
<1>4. \A j \in Captures : CaptureInv(j)'
  BY <1>1, <1>2, <1>3, CaptureStays
<1>5. \A f \in Entries : EntryInv(f)'
  BY <1>2, EntryStays
<1>6. QED
  BY <1>1, <1>2, <1>3, <1>4, <1>5 DEF StoreInv, Captures

\* A mutation arrives at the server.
LEMMA MutateStep ==
  ASSUME StoreInv, NEW i \in Captures, Mutate(i), UNCHANGED <<captures, discarded>>
  PROVE  /\ StoreInv' /\ Grows /\ Overtaken
         /\ Settles(Verdict(i)) => i \in accepted'
         /\ Stale(Verdict(i)) => Outdated(i)
<1>1. CASE Verdict(i) = "applied"
  <2>1. PICK rec \in CaptureRow : rec = captures[i]
    BY Shapes DEF StoreInv
  <2>2. rec.entry \in Entries /\ rec.day \in Days \cup {NoRow}
        /\ rec.kind \in {"create", "edit"}
    BY <2>1 DEF CaptureRow
  <2> DEFINE e == rec.entry
  <2> DEFINE r == IF rec.kind = "create" THEN CreateTextContribution(i)
                  ELSE AppendTextRevision(entries[e], i)
  <2>3. /\ i \notin accepted /\ entries[e].row # "purged" /\ rec.base = Revision(e)
        /\ rec.kind = "create" => entries[e].texts = <<>>
    BY <1>1, <2>1, VerdictCases
  <2>4. entries' = [entries EXCEPT ![e] = r] /\ accepted' = accepted \cup {i}
    BY <1>1, <2>1 DEF Mutate
  <2>5. i \in Nat /\ entries[e] \in EntryRow /\ entries[e].texts \in Seq(Nat)
    BY <2>2, Shapes DEF StoreInv
  <2>6. Append(entries[e].texts, i) \in Seq(Nat)
    BY <2>5, AppendProperties
  <2>7. r \in EntryRow /\ r.row = "active" /\ r.texts = Append(entries[e].texts, i)
    <3>1. CASE rec.kind = "create"
      <4>1. r = [row |-> "active", texts |-> <<i>>, day |-> rec.day]
        BY <2>1, <3>1 DEF CreateTextContribution
      <4>2. <<i>> = Append(entries[e].texts, i)
        BY <2>3, <3>1
      <4>3. PICK seq \in Seq(Nat) : seq = <<i>> /\ seq = Append(entries[e].texts, i)
        BY <2>6, <4>2
      <4>4. r = [row |-> "active", texts |-> seq, day |-> rec.day]
        BY <4>1, <4>3
      <4> HIDE DEF r
      <4>5. QED
        BY <2>2, <4>3, <4>4 DEF EntryRow
    <3>2. CASE rec.kind = "edit"
      <4>1. r = [entries[e] EXCEPT !.texts = Append(@, i)]
        BY <3>2 DEF AppendTextRevision
      <4>2. entries[e].row = "active"
        BY <1>1, <2>1, <2>3, <3>2 DEF Verdict, Replayed, EditVerdict
      <4>3. QED
        BY <2>5, <2>6, <4>1, <4>2 DEF EntryRow
    <3>3. QED
      BY <2>2, <3>1, <3>2
  <2> HIDE DEF r
  <2>8. StoreInv' /\ Grows /\ Overtaken
    BY <2>1, <2>2, <2>3, <2>4, <2>7, AcceptStep
  <2>9. QED
    BY <1>1, <2>4, <2>8 DEF Settles, Stale
<1>2. CASE Verdict(i) # "applied"
  <2>1. UNCHANGED <<entries, accepted>>
    BY <1>2 DEF Mutate
  <2>2. StoreInv' /\ Grows /\ Overtaken
    BY <2>1, QuietStep
  <2>3. QED
    BY <1>2, <2>1, <2>2, VerdictCases DEF Settles, Stale
<1>3. QED
  BY <1>1, <1>2

-----------------------------------------------------------------------------
(* Tabs and queues.                                                          *)

LEMMA RevisionGrows ==
  ASSUME StoreInv, StoreInv', Grows, NEW i \in Captures, NEW n \in Nat,
         n <= Revision(captures[i].entry)
  PROVE  n <= Len(entries'[captures'[i].entry].texts)
<1>1. PICK rec \in CaptureRow : rec = captures[i] /\ rec = captures'[i]
  BY Shapes DEF StoreInv, Grows
<1>2. rec.entry \in Entries
  BY DEF CaptureRow
<1>3. Revision(rec.entry) <= Revision(rec.entry)' /\ Revision(rec.entry) \in Nat
  BY <1>2, Shapes DEF Grows, StoreInv
<1>4. Revision(rec.entry)' \in Nat
  <2>1. entries'[rec.entry].texts \in Seq(Nat)
    BY <1>2 DEF StoreInv, StoreType, EntryRow
  <2>2. QED
    BY <2>1, LenProperties DEF Revision
<1>5. n <= Revision(rec.entry)'
  BY <1>1, <1>3, <1>4
<1>6. QED
  BY <1>1, <1>5 DEF Revision

\* A tab that is left alone keeps what it knows.
LEMMA RequestStays ==
  ASSUME StoreInv, StoreInv', Grows, Overtaken, NEW tab \in TabState, RequestInv(tab)
  PROVE  RequestInv(tab)'
<1>1. tab.list \in Seq(Captures')
  BY SeqMonotonic DEF RequestInv, Grows
<1>2. ASSUME NEW h, h = Head(tab.list)
      PROVE  /\ tab.pc = "delete" => h \in accepted'
             /\ tab.pc \in {"inspect", "mark"} => Outdated(h)'
             /\ tab.pc = "mark" => tab.seen <= Len(entries'[captures'[h].entry].texts)
  <2>1. tab.pc = "delete" => h \in accepted'
    BY <1>2 DEF RequestInv, Grows
  <2>2. tab.pc \in {"inspect", "mark"} => Outdated(h) /\ Outdated(h)'
    BY <1>2 DEF RequestInv, Overtaken
  <2>3. ASSUME tab.pc = "mark" PROVE tab.seen <= Len(entries'[captures'[h].entry].texts)
    <3>1. h \in Captures /\ tab.seen <= Revision(captures[h].entry)
      BY <1>2, <2>2, <2>3 DEF RequestInv, Outdated
    <3>2. tab.seen \in Nat
      BY DEF TabState
    <3>3. QED
      BY <3>1, <3>2, RevisionGrows
  <2>4. QED
    BY <2>1, <2>2, <2>3
<1>3. QED
  BY <1>1, <1>2 DEF RequestInv, Revision

LEMMA DialogStays ==
  ASSUME StoreInv, StoreInv', Grows, Overtaken, NEW tab \in TabState, DialogInv(tab)
  PROVE  DialogInv(tab)'
<1> SUFFICES ASSUME NEW c, c = tab.conflict.capture, c # NoCapture
             PROVE  /\ Outdated(c)'
                    /\ tab.conflict.revision <= Len(entries'[captures'[c].entry].texts)
  BY DEF DialogInv, Revision
<1>1. Outdated(c) /\ tab.conflict.revision <= Revision(captures[c].entry)
  BY DEF DialogInv
<1>2. tab.conflict.revision \in Nat /\ c \in Captures
  BY <1>1 DEF TabState, Outdated
<1>3. QED
  BY <1>1, <1>2, RevisionGrows DEF Overtaken

LEMMA TabsStay ==
  ASSUME StoreInv, TabsInv, StoreInv', Grows, Overtaken, UNCHANGED tabs
  PROVE  TabsInv'
<1>1. ASSUME NEW t \in Tabs PROVE TabInv(t)'
  <2>1. PICK tab \in TabState : tab = tabs[t]
    BY DEF TabsInv
  <2>2. RequestInv(tab) /\ DialogInv(tab)
    BY <2>1 DEF TabsInv, TabInv
  <2>3. RequestInv(tab)' /\ DialogInv(tab)'
    BY <2>2, RequestStays, DialogStays
  <2>4. QED
    BY <2>1, <2>3 DEF TabInv, RequestInv, DialogInv, Outdated
<1>2. QED
  BY <1>1 DEF TabsInv

\* One tab goes on, and knows what it needs to.
LEMMA TabMoves ==
  ASSUME StoreInv, TabsInv, StoreInv', Grows, Overtaken, NEW t \in Tabs,
         NEW new \in TabState, tabs' = [tabs EXCEPT ![t] = new],
         RequestInv(new)', DialogInv(new)'
  PROVE  TabsInv'
<1>1. ASSUME NEW u \in Tabs PROVE TabInv(u)'
  <2>1. PICK tab \in TabState : tab = tabs[u]
    BY DEF TabsInv
  <2>2. RequestInv(tab) /\ DialogInv(tab)
    BY <2>1 DEF TabsInv, TabInv
  <2>3. RequestInv(tab)' /\ DialogInv(tab)'
    BY <2>2, RequestStays, DialogStays
  <2>4. tabs'[u] = IF u = t THEN new ELSE tab
    BY <2>1 DEF TabsInv
  <2>5. QED
    BY <2>3, <2>4 DEF TabInv, RequestInv, DialogInv, Outdated
<1>2. tabs' \in [Tabs -> TabState]
  BY DEF TabsInv
<1>3. QED
  BY <1>1, <1>2 DEF TabsInv

\* What leaves the outbox is settled.
LEMMA QueueStays ==
  ASSUME StoreInv, QueueInv, Grows, outbox' \subseteq Captures', wire' \subseteq Captures',
         \A i \in Captures' \ Captures : i \in outbox',
         \A i \in outbox \ outbox' :
             \/ i \in accepted' \/ Kept(i) \/ i \in discarded'
             \/ entries'[captures[i].entry].row = "purged"
  PROVE  QueueInv'
<1> SUFFICES ASSUME NEW i \in Captures'
             PROVE  \/ i \in outbox' \/ i \in accepted' \/ i \in discarded'
                    \/ \E j \in Captures' : captures'[j].draftOf = i
                    \/ entries'[captures'[i].entry].row = "purged"
  BY DEF QueueInv, NothingLost, Kept
<1>1. CASE i \in Captures
  <2>1. Kept(i) => \E j \in Captures' : captures'[j].draftOf = i
    BY DEF Kept, Grows
  <2>2. captures'[i] = captures[i] /\ captures[i].entry \in Entries
    BY <1>1, Shapes DEF Grows, StoreInv, CaptureRow
  <2>3. entries[captures[i].entry].row = "purged" => entries'[captures'[i].entry].row = "purged"
    BY <2>2 DEF Grows
  <2>4. QED
    BY <1>1, <2>1, <2>2, <2>3 DEF QueueInv, NothingLost, Grows
<1>2. QED
  BY <1>1

-----------------------------------------------------------------------------
(* The steps.                                                                *)

\* The outbox gains a capture and tabs stay as they are.
LEMMA EnqueueKeeps ==
  ASSUME OutboxInv, NEW c \in CaptureRow, Enqueue(c),
         c.kind = "create" => c.base = 0,
         c.kind = "edit" => c.base <= Revision(c.entry),
         c.draftOf # NoCapture => Outdated(c.draftOf),
         UNCHANGED <<entries, accepted, discarded, tabs, wire>>
  PROVE  OutboxInv'
<1>1. StoreInv' /\ Grows /\ Overtaken /\ Captures' = Captures \cup {Len(captures) + 1}
  BY EnqueueStep DEF OutboxInv
<1>2. TabsInv'
  BY <1>1, TabsStay DEF OutboxInv
<1>3. outbox' = outbox \cup {Len(captures) + 1}
  BY DEF Enqueue
<1>4. QueueInv'
  BY <1>1, <1>3, QueueStays DEF OutboxInv, QueueInv
<1>5. QED
  BY <1>1, <1>2, <1>4 DEF OutboxInv

LEMMA CreateKeeps ==
  ASSUME OutboxInv, NEW e \in Entries, NEW d \in Days, CaptureCreate(e, d)
  PROVE  OutboxInv'
<1> DEFINE c == [kind |-> "create", entry |-> e, base |-> 0, day |-> d, draftOf |-> NoCapture]
<1>1. c \in CaptureRow
  BY DEF CaptureRow, NoCapture
<1>2. Enqueue(c) /\ UNCHANGED <<entries, accepted, discarded, tabs, wire>>
  BY DEF CaptureCreate
<1>3. c.kind = "create" /\ c.base = 0 /\ c.draftOf = NoCapture
  OBVIOUS
<1> HIDE DEF c
<1>4. QED
  BY <1>1, <1>2, <1>3, EnqueueKeeps

LEMMA EditKeeps ==
  ASSUME OutboxInv, NEW e \in Entries, NEW base \in Nat, CaptureEdit(e, base)
  PROVE  OutboxInv'
<1> DEFINE c == [kind |-> "edit", entry |-> e, base |-> base, day |-> entries[e].day,
                 draftOf |-> NoCapture]
<1>1. entries[e].day \in Days \cup {NoRow} /\ base \in 1 .. Revision(e)
  BY DEF OutboxInv, StoreInv, StoreType, EntryRow, CaptureEdit
<1>2. c \in CaptureRow
  BY <1>1 DEF CaptureRow, NoCapture
<1>3. Enqueue(c) /\ UNCHANGED <<entries, accepted, discarded, tabs, wire>>
  BY DEF CaptureEdit
<1>4. Revision(e) \in Nat
  BY Shapes DEF OutboxInv, StoreInv
<1>5. c.kind = "edit" /\ c.base <= Revision(c.entry) /\ c.draftOf = NoCapture
  BY <1>1, <1>4
<1> HIDE DEF c
<1>6. QED
  BY <1>2, <1>3, <1>5, EnqueueKeeps

\* A draft that is kept has the base the dialog shows.
LEMMA DraftKeeps ==
  ASSUME OutboxInv, NEW t \in Tabs, KeepDraft(t)
  PROVE  OutboxInv'
<1> DEFINE i == tabs[t].conflict.capture
<1> DEFINE c == [captures[i] EXCEPT !.base = tabs[t].conflict.revision, !.draftOf = i]
<1>1. /\ i # NoCapture /\ Outdated(i)
      /\ tabs[t].conflict.revision <= Revision(captures[i].entry)
  BY DEF KeepDraft, OutboxInv, TabsInv, TabInv, DialogInv
<1>2. captures[i] \in CaptureRow /\ captures[i].kind = "edit" /\ i \in Nat
  BY <1>1, Shapes DEF Outdated, OutboxInv, StoreInv
<1>3. tabs[t].conflict.revision \in Nat
  BY DEF OutboxInv, TabsInv, TabState
<1>4. c \in CaptureRow
  BY <1>2, <1>3 DEF CaptureRow
<1>5. c.kind = "edit" /\ c.base <= Revision(c.entry) /\ c.draftOf = i
  BY <1>1, <1>2 DEF CaptureRow
<1>6. Enqueue(c) /\ UNCHANGED <<entries, accepted, discarded, tabs, wire>>
  BY DEF KeepDraft
<1> HIDE DEF c
<1>7. QED
  BY <1>1, <1>4, <1>5, <1>6, EnqueueKeeps

\* The server moves on while tabs and queues stay as they are.
LEMMA ServerMoves ==
  ASSUME OutboxInv, StoreInv', Grows, Overtaken,
         UNCHANGED <<captures, outbox, tabs>>, wire' \subseteq wire
  PROVE  OutboxInv'
<1>1. TabsInv'
  BY TabsStay DEF OutboxInv
<1>2. QueueInv'
  <2>1. Captures' = Captures
    BY DEF Captures
  <2>2. QED
    BY <2>1, QueueStays DEF OutboxInv, QueueInv
<1>3. QED
  BY <1>1, <1>2 DEF OutboxInv

LEMMA ElsewhereKeeps ==
  ASSUME OutboxInv, NEW e \in Entries,
         RemoteEdit(e) \/ (\E d \in Days : RemoteMove(e, d))
         \/ SoftDelete(e) \/ RestoreEntry(e) \/ PurgeEntry(e)
  PROVE  OutboxInv'
<1>1. entries[e] \in EntryRow /\ entries[e].texts \in Seq(Nat) /\ Elsewhere
  BY Shapes DEF OutboxInv, StoreInv, RemoteEdit, RemoteMove, SoftDelete, RestoreEntry, PurgeEntry,
     SetRow
<1>2. PICK r \in EntryRow :
        /\ entries' = [entries EXCEPT ![e] = r]
        /\ r.row # NoRow /\ entries[e].row # "purged"
        /\ r.texts = entries[e].texts \/ r.texts = Append(entries[e].texts, Remote)
  <2>1. CASE RemoteEdit(e)
    <3> DEFINE r == [entries[e] EXCEPT !.texts = Append(entries[e].texts, Remote)]
    <3>1. entries' = [entries EXCEPT ![e] = r] /\ entries[e].row = "active"
      BY <2>1 DEF RemoteEdit, AppendTextRevision
    <3>2. Append(entries[e].texts, Remote) \in Seq(Nat)
      BY <1>1, AppendProperties DEF Remote
    <3>3. /\ r \in EntryRow /\ r.row = "active"
          /\ r.texts = Append(entries[e].texts, Remote)
      BY <1>1, <3>1, <3>2 DEF EntryRow
    <3> HIDE DEF r
    <3>4. QED
      BY <3>1, <3>3 DEF NoRow
  <2>2. ASSUME NEW d \in Days, RemoteMove(e, d)
        PROVE  \E r \in EntryRow :
                 /\ entries' = [entries EXCEPT ![e] = r]
                 /\ r.row # NoRow /\ entries[e].row # "purged"
                 /\ r.texts = entries[e].texts \/ r.texts = Append(entries[e].texts, Remote)
    <3> DEFINE r == [entries[e] EXCEPT !.day = d]
    <3>1. entries' = [entries EXCEPT ![e] = r] /\ entries[e].row = "active"
      BY <2>2 DEF RemoteMove, Moved
    <3>2. r \in EntryRow /\ r.row = "active" /\ r.texts = entries[e].texts
      BY <1>1, <3>1 DEF EntryRow
    <3> HIDE DEF r
    <3>3. QED
      BY <3>1, <3>2 DEF NoRow
  <2>3. ASSUME NEW from \in {"active", "deleted"}, NEW to \in {"active", "deleted", "purged"},
               SetRow(e, from, to)
        PROVE  \E r \in EntryRow :
                 /\ entries' = [entries EXCEPT ![e] = r]
                 /\ r.row # NoRow /\ entries[e].row # "purged"
                 /\ r.texts = entries[e].texts \/ r.texts = Append(entries[e].texts, Remote)
    <3> DEFINE r == [entries[e] EXCEPT !.row = to]
    <3>1. entries' = [entries EXCEPT ![e] = r] /\ entries[e].row = from
      BY <1>1, <2>3 DEF SetRow, OutboxInv, StoreInv, StoreType
    <3>2. r \in EntryRow /\ r.row = to /\ r.texts = entries[e].texts
      BY <1>1 DEF EntryRow
    <3> HIDE DEF r
    <3>3. QED
      BY <3>1, <3>2 DEF NoRow
  <2>4. QED
    BY <2>1, <2>2, <2>3 DEF SoftDelete, RestoreEntry, PurgeEntry
<1>3. UNCHANGED <<captures, outbox, tabs, wire, accepted, discarded>>
  BY <1>1 DEF Elsewhere
<1>4. StoreInv' /\ Grows /\ Overtaken
  BY <1>2, <1>3, RemoteStep DEF OutboxInv
<1>5. QED
  BY <1>3, <1>4, ServerMoves

LEMMA LateKeeps ==
  ASSUME OutboxInv, NEW i \in wire, LateArrival(i)
  PROVE  OutboxInv'
<1>1. i \in Captures /\ Mutate(i) /\ UNCHANGED <<captures, discarded, outbox, tabs>>
      /\ wire' \subseteq wire
  BY DEF OutboxInv, QueueInv, LateArrival
<1>2. StoreInv' /\ Grows /\ Overtaken
  BY <1>1, MutateStep DEF OutboxInv
<1>3. QED
  BY <1>1, <1>2, ServerMoves

LEMMA SweepKeeps ==
  ASSUME OutboxInv, NEW t \in Tabs, ApplyTombstones(t)
  PROVE  OutboxInv'
<1>1. /\ UNCHANGED <<captures, tabs, wire, entries, accepted, discarded>>
      /\ outbox' \subseteq outbox
      /\ \A i \in outbox \ outbox' : entries[captures[i].entry].row = "purged"
  BY DEF ApplyTombstones, OutboxInv, QueueInv
<1>2. StoreInv' /\ Grows /\ Overtaken
  BY <1>1, QuietStep DEF OutboxInv
<1>3. TabsInv'
  BY <1>1, <1>2, TabsStay DEF OutboxInv
<1>4. QueueInv'
  <2>1. Captures' = Captures
    BY <1>1 DEF Captures
  <2>2. QED
    BY <1>1, <1>2, <2>1, QueueStays DEF OutboxInv, QueueInv
<1>5. QED
  BY <1>2, <1>3, <1>4 DEF OutboxInv

\* A step of one tab, with what it does to the queues.
LEMMA TabKeeps ==
  ASSUME OutboxInv, StoreInv', Grows, Overtaken, UNCHANGED captures, NEW t \in Tabs,
         NEW new \in TabState, tabs' = [tabs EXCEPT ![t] = new],
         RequestInv(new)', DialogInv(new)',
         outbox' \subseteq Captures, wire' \subseteq Captures,
         \A i \in outbox \ outbox' : i \in accepted' \/ Kept(i) \/ i \in discarded'
  PROVE  OutboxInv'
<1>1. TabsInv'
  BY TabMoves DEF OutboxInv
<1>2. Captures' = Captures
  BY DEF Captures
<1>3. QueueInv'
  BY <1>2, QueueStays DEF OutboxInv
<1>4. QED
  BY <1>1, <1>3 DEF OutboxInv

\* The dialog of a tab that goes on stays true.
LEMMA DialogKept ==
  ASSUME OutboxInv, StoreInv', Grows, Overtaken, NEW t \in Tabs, NEW new \in TabState,
         new.conflict = tabs[t].conflict
  PROVE  DialogInv(new)'
<1>1. DialogInv(new)
  BY DEF OutboxInv, TabsInv, TabInv, DialogInv
<1>2. StoreInv
  BY DEF OutboxInv
<1>3. QED
  BY <1>1, <1>2, DialogStays

LEMMA RestKeeps ==
  ASSUME OutboxInv, StoreInv', Grows, Overtaken, UNCHANGED <<captures, outbox>>, NEW t \in Tabs,
         Rest(t), wire' \subseteq Captures
  PROVE  OutboxInv'
<1>1. tabs[t] \in TabState
  BY DEF OutboxInv, TabsInv
<1>2. [tabs[t] EXCEPT !.pc = "idle", !.list = <<>>, !.seen = 0] \in TabState
  BY <1>1, EmptySeq DEF TabState, Places
<1>3. PICK new \in TabState :
        /\ tabs' = [tabs EXCEPT ![t] = new] /\ new.pc = "idle" /\ new.list = <<>>
        /\ new.conflict = tabs[t].conflict
  BY <1>1, <1>2 DEF Rest, OutboxInv, TabsInv, TabState
<1>4. DialogInv(new)'
  BY <1>3, DialogKept
<1>5. RequestInv(new)'
  BY <1>3, EmptySeq DEF RequestInv
<1>6. outbox' \subseteq Captures
  BY DEF OutboxInv, QueueInv
<1>7. \A i \in outbox \ outbox' : i \in accepted' \/ Kept(i) \/ i \in discarded'
  OBVIOUS
<1>8. QED
  BY <1>3, <1>4, <1>5, <1>6, <1>7, TabKeeps

LEMMA GoKeeps ==
  ASSUME OutboxInv, StoreInv', Grows, Overtaken, UNCHANGED <<captures, outbox, wire>>, NEW t \in Tabs,
         NEW pc \in {"sent", "delete", "inspect"}, Tab(t, pc), tabs[t].list # <<>>,
         pc = "delete" => Head(tabs[t].list) \in accepted',
         pc = "inspect" => Outdated(Head(tabs[t].list))
  PROVE  OutboxInv'
<1>1. tabs[t] \in TabState /\ tabs[t].list \in Seq(Captures)
  BY DEF OutboxInv, TabsInv, TabInv, RequestInv
<1>2. [tabs[t] EXCEPT !.pc = pc] \in TabState
  BY <1>1 DEF TabState, Places
<1>3. PICK new \in TabState :
        /\ tabs' = [tabs EXCEPT ![t] = new] /\ new.pc = pc /\ new.list = tabs[t].list
        /\ new.conflict = tabs[t].conflict
  BY <1>1, <1>2 DEF Tab, OutboxInv, TabsInv, TabState
<1>4. DialogInv(new)'
  BY <1>3, DialogKept
<1>5. RequestInv(new)'
  <2>1. new.list \in Seq(Captures)' /\ new.list # <<>> /\ new.pc # "mark"
    BY <1>1, <1>3 DEF Captures
  <2>2. ASSUME NEW h, h = Head(new.list)
        PROVE  (pc = "delete" => h \in accepted') /\ (pc = "inspect" => Outdated(h)')
    BY <1>3, <2>2 DEF Overtaken
  <2>3. QED
    BY <1>3, <2>1, <2>2 DEF RequestInv
<1>6. outbox' \subseteq Captures /\ wire' \subseteq Captures
  BY DEF OutboxInv, QueueInv
<1>7. \A i \in outbox \ outbox' : i \in accepted' \/ Kept(i) \/ i \in discarded'
  OBVIOUS
<1>8. QED
  BY <1>3, <1>4, <1>5, <1>6, <1>7, TabKeeps

\* A new replay reads the records that are there.
LEMMA StartKeeps ==
  ASSUME OutboxInv, NEW t \in Tabs, StartReplay(t)
  PROVE  OutboxInv'
<1>1. StoreInv' /\ Grows /\ Overtaken /\ UNCHANGED <<captures, outbox, wire>>
  <2>1. UNCHANGED <<captures, entries, accepted, discarded, outbox, wire>>
    BY DEF StartReplay
  <2>2. QED
    BY <2>1, QuietStep DEF OutboxInv
<1>2. PICK list \in [1..Cardinality(outbox) -> outbox] :
        tabs' = [tabs EXCEPT ![t].pc = "next", ![t].list = list]
  BY DEF StartReplay
<1>3. outbox \subseteq Captures /\ Captures = 1 .. Len(captures) /\ Len(captures) \in Nat
      /\ Captures \subseteq Nat
  BY Shapes DEF OutboxInv, StoreInv, QueueInv
<1>4. Cardinality(outbox) \in Nat
  <2>1. IsFiniteSet(Captures)
    BY <1>3, FS_Interval
  <2>2. QED
    BY <1>3, <2>1, FS_Subset, FS_CardinalityType
<1>5. list \in Seq(Captures) /\ list \in Seq(Nat)
  BY <1>2, <1>3, <1>4, IsASeq
<1>6. tabs[t] \in TabState
  BY DEF OutboxInv, TabsInv
<1>7. [tabs[t] EXCEPT !.pc = "next", !.list = list] \in TabState
  BY <1>5, <1>6 DEF TabState, Places
<1>8. PICK new \in TabState :
        /\ tabs' = [tabs EXCEPT ![t] = new] /\ new.pc = "next" /\ new.list = list
        /\ new.conflict = tabs[t].conflict
  BY <1>2, <1>6, <1>7 DEF OutboxInv, TabsInv, TabState
<1>9. DialogInv(new)'
  BY <1>1, <1>8, DialogKept
<1>10. RequestInv(new)'
  BY <1>1, <1>5, <1>8 DEF RequestInv, Captures
<1>11. outbox' \subseteq Captures /\ wire' \subseteq Captures
  BY <1>1 DEF OutboxInv, QueueInv
<1>12. \A i \in outbox \ outbox' : i \in accepted' \/ Kept(i) \/ i \in discarded'
  BY <1>1
<1>13. QED
  BY <1>1, <1>8, <1>9, <1>10, <1>11, <1>12, TabKeeps

LEMMA SendKeeps ==
  ASSUME OutboxInv, NEW t \in Tabs, Send(t)
  PROVE  OutboxInv'
<1>1. UNCHANGED <<captures, entries, accepted, discarded, outbox, wire>>
  BY DEF Send
<1>2. StoreInv' /\ Grows /\ Overtaken
  BY <1>1, QuietStep DEF OutboxInv
<1>3. CASE tabs[t].list = <<>>
  <2>1. Rest(t) /\ wire' \subseteq Captures
    BY <1>1, <1>3 DEF Send, OutboxInv, QueueInv
  <2>2. QED
    BY <1>1, <1>2, <2>1, RestKeeps
<1>4. CASE tabs[t].list # <<>>
  <2>1. Tab(t, "sent")
    BY <1>4 DEF Send
  <2>2. QED
    BY <1>1, <1>2, <1>4, <2>1, GoKeeps
<1>5. QED
  BY <1>3, <1>4

LEMMA HeadIsCaptured ==
  ASSUME OutboxInv, NEW t \in Tabs, tabs[t].pc \in {"sent", "delete", "inspect", "mark"}
  PROVE  tabs[t].list # <<>> /\ Head(tabs[t].list) \in Captures
         /\ Tail(tabs[t].list) \in Seq(Captures)
<1>1. tabs[t].list \in Seq(Captures) /\ tabs[t].list # <<>>
  BY DEF OutboxInv, TabsInv, TabInv, RequestInv
<1>2. QED
  BY <1>1, HeadTailProperties

LEMMA ReceiveKeeps ==
  ASSUME OutboxInv, NEW t \in Tabs, Receive(t)
  PROVE  OutboxInv'
<1> DEFINE i == Head(tabs[t].list)
<1>1. i \in Captures /\ tabs[t].list # <<>>
  BY HeadIsCaptured DEF Receive
<1>2. Mutate(i) /\ UNCHANGED <<captures, discarded, outbox, wire>>
  BY DEF Receive
<1>3. /\ StoreInv' /\ Grows /\ Overtaken
      /\ Settles(Verdict(i)) => i \in accepted'
      /\ Stale(Verdict(i)) => Outdated(i)
  BY <1>1, <1>2, MutateStep DEF OutboxInv
<1>4. \/ Settles(Verdict(i)) /\ Tab(t, "delete")
      \/ Stale(Verdict(i)) /\ Tab(t, "inspect")
      \/ Rest(t)
  BY DEF Receive
<1>5. CASE Settles(Verdict(i)) /\ Tab(t, "delete")
  BY <1>1, <1>2, <1>3, <1>5, GoKeeps
<1>6. CASE Stale(Verdict(i)) /\ Tab(t, "inspect")
  BY <1>1, <1>2, <1>3, <1>6, GoKeeps
<1>7. CASE Rest(t)
  <2>1. wire' \subseteq Captures
    BY <1>2 DEF OutboxInv, QueueInv
  <2>2. QED
    BY <1>2, <1>3, <1>7, <2>1, RestKeeps
<1>8. QED
  BY <1>4, <1>5, <1>6, <1>7

\* The record that leaves the outbox has been accepted.
LEMMA DeleteKeeps ==
  ASSUME OutboxInv, NEW t \in Tabs, DeleteRecord(t)
  PROVE  OutboxInv'
<1>1. /\ UNCHANGED <<captures, entries, accepted, discarded, wire>>
      /\ outbox' = outbox \ {Head(tabs[t].list)}
      /\ tabs' = [tabs EXCEPT ![t].pc = "next", ![t].list = Tail(@)]
      /\ tabs[t].pc = "delete"
  BY DEF DeleteRecord
<1>2. StoreInv' /\ Grows /\ Overtaken
  BY <1>1, QuietStep DEF OutboxInv
<1>3. /\ Tail(tabs[t].list) \in Seq(Captures) /\ tabs[t].list # <<>>
      /\ Head(tabs[t].list) \in accepted
  BY <1>1, HeadIsCaptured DEF OutboxInv, TabsInv, TabInv, RequestInv
<1>4. PICK rest \in Seq(Captures) : rest = Tail(tabs[t].list) /\ rest \in Seq(Nat)
  <2>1. Captures \subseteq Nat
    BY Shapes DEF OutboxInv, StoreInv
  <2>2. QED
    BY <1>3, <2>1, SeqMonotonic
<1>5. tabs[t] \in TabState
  BY DEF OutboxInv, TabsInv
<1>6. [tabs[t] EXCEPT !.pc = "next", !.list = rest] \in TabState
  BY <1>4, <1>5 DEF TabState, Places
<1>7. PICK new \in TabState :
        /\ tabs' = [tabs EXCEPT ![t] = new] /\ new.pc = "next" /\ new.list = rest
        /\ new.conflict = tabs[t].conflict
  BY <1>1, <1>4, <1>5, <1>6 DEF OutboxInv, TabsInv, TabState
<1>8. DialogInv(new)'
  BY <1>2, <1>7, DialogKept
<1>9. RequestInv(new)'
  BY <1>1, <1>4, <1>7 DEF RequestInv, Captures
<1>10. outbox' \subseteq Captures /\ wire' \subseteq Captures
  BY <1>1 DEF OutboxInv, QueueInv
<1>11. \A i \in outbox \ outbox' : i \in accepted' \/ Kept(i) \/ i \in discarded'
  BY <1>1, <1>3
<1>12. QED
  BY <1>1, <1>2, <1>7, <1>8, <1>9, <1>10, <1>11, TabKeeps

\* The revision that is read is one the contribution has.
LEMMA InspectKeeps ==
  ASSUME OutboxInv, NEW t \in Tabs, Inspect(t)
  PROVE  OutboxInv'
<1> DEFINE i == Head(tabs[t].list)
<1>1. UNCHANGED <<captures, entries, accepted, discarded, outbox, wire>>
      /\ tabs[t].pc = "inspect"
  BY DEF Inspect
<1>2. StoreInv' /\ Grows /\ Overtaken
  BY <1>1, QuietStep DEF OutboxInv
<1>3. /\ tabs[t].list \in Seq(Captures) /\ tabs[t].list # <<>>
      /\ Outdated(i) /\ i \in Captures
  BY <1>1, HeadIsCaptured DEF OutboxInv, TabsInv, TabInv, RequestInv
<1>4. wire' \subseteq Captures /\ outbox' \subseteq Captures
  BY <1>1 DEF OutboxInv, QueueInv
<1>5. CASE Rest(t)
  BY <1>1, <1>2, <1>4, <1>5, RestKeeps
<1>6. CASE tabs' = [tabs EXCEPT ![t].pc = "mark", ![t].seen = Revision(captures[i].entry)]
  <2>1. PICK n \in Nat : n = Revision(captures[i].entry)
    BY <1>3, Shapes DEF OutboxInv, StoreInv, CaptureRow
  <2>2. tabs[t] \in TabState
    BY DEF OutboxInv, TabsInv
  <2>3. [tabs[t] EXCEPT !.pc = "mark", !.seen = n] \in TabState
    BY <2>1, <2>2 DEF TabState, Places
  <2>4. PICK new \in TabState :
          /\ tabs' = [tabs EXCEPT ![t] = new] /\ new.pc = "mark" /\ new.list = tabs[t].list
          /\ new.seen = n /\ new.conflict = tabs[t].conflict
    BY <1>6, <2>1, <2>2, <2>3 DEF OutboxInv, TabsInv, TabState
  <2>5. DialogInv(new)'
    BY <1>2, <2>4, DialogKept
  <2>6. RequestInv(new)
    BY <1>3, <2>1, <2>4 DEF RequestInv
  <2>7. RequestInv(new)'
    BY <1>2, <2>6, RequestStays DEF OutboxInv
  <2>8. \A j \in outbox \ outbox' : j \in accepted' \/ Kept(j) \/ j \in discarded'
    BY <1>1
  <2>9. QED
    BY <1>1, <1>2, <1>4, <2>4, <2>5, <2>7, <2>8, TabKeeps
<1>7. QED
  BY <1>5, <1>6 DEF Inspect

LEMMA RestingRequest ==
  ASSUME NEW new \in TabState, new.pc = "idle", new.list = <<>>
  PROVE  RequestInv(new)'
BY EmptySeq DEF RequestInv

\* The dialog is about a capture that was overtaken.
LEMMA MarkKeeps ==
  ASSUME OutboxInv, NEW t \in Tabs, MarkConflict(t)
  PROVE  OutboxInv'
<1>1. PICK i \in Captures : i = Head(tabs[t].list)
  BY HeadIsCaptured DEF MarkConflict
<1>2. /\ UNCHANGED <<captures, entries, accepted, discarded, wire>>
      /\ outbox' = outbox \cup {i}
      /\ tabs' = [tabs EXCEPT ![t] = [Resting EXCEPT !.conflict =
                                        [capture |-> i, revision |-> tabs[t].seen]]]
      /\ tabs[t].pc = "mark"
  BY <1>1 DEF MarkConflict
<1>3. StoreInv' /\ Grows /\ Overtaken
  BY <1>2, QuietStep DEF OutboxInv
<1>4. PICK n \in Nat : n = tabs[t].seen
  BY DEF OutboxInv, TabsInv, TabState
<1>5. i \in Nat /\ Outdated(i) /\ n <= Revision(captures[i].entry)
  BY <1>1, <1>2, <1>4, Shapes DEF OutboxInv, StoreInv, TabsInv, TabInv, RequestInv
<1>6. PICK new \in TabState :
        /\ new = [Resting EXCEPT !.conflict = [capture |-> i, revision |-> n]]
        /\ new.pc = "idle" /\ new.list = <<>>
        /\ new.conflict.capture = i /\ new.conflict.revision = n
  <2>1. [Resting EXCEPT !.conflict = [capture |-> i, revision |-> n]]
           = [pc |-> "idle", list |-> <<>>, seen |-> 0,
              conflict |-> [capture |-> i, revision |-> n]]
    BY DEF Resting
  <2>2. <<>> \in Seq(Nat)
    BY EmptySeq
  <2>3. QED
    BY <1>4, <1>5, <2>1, <2>2 DEF TabState, Places
<1>7. tabs' = [tabs EXCEPT ![t] = new]
  BY <1>2, <1>4, <1>6
<1>8. DialogInv(new)
  BY <1>5, <1>6 DEF DialogInv
<1>9. DialogInv(new)'
  BY <1>3, <1>8, DialogStays DEF OutboxInv
<1>10. RequestInv(new)'
  BY <1>6, RestingRequest
<1>11. outbox' \subseteq Captures /\ wire' \subseteq Captures
  BY <1>2 DEF OutboxInv, QueueInv
<1>12. \A j \in outbox \ outbox' : j \in accepted' \/ Kept(j) \/ j \in discarded'
  BY <1>2
<1>13. QED
  BY <1>2, <1>3, <1>7, <1>9, <1>10, <1>11, <1>12, TabKeeps

\* The decision of a dialog settles its capture.
LEMMA ResolveKeeps ==
  ASSUME OutboxInv, NEW t \in Tabs, Resolve(t)
  PROVE  OutboxInv'
<1>1. PICK i : i = tabs[t].conflict.capture
  OBVIOUS
<1>2. /\ i # NoCapture /\ CloseDialog(t, i) /\ UNCHANGED <<captures, wire, entries, accepted>>
      /\ \/ Kept(i) /\ discarded' = discarded
         \/ discarded' = discarded \cup {i}
  BY <1>1 DEF Resolve, ReplaceByDraft, DiscardDraft
<1>3. Outdated(i)
  BY <1>1, <1>2 DEF OutboxInv, TabsInv, TabInv, DialogInv
<1>4. StoreInv' /\ Grows /\ Overtaken
  BY <1>2, <1>3, QuietStep DEF OutboxInv
<1>5. tabs[t] \in TabState
  BY DEF OutboxInv, TabsInv
<1>6. NoConflict \in [capture : Nat, revision : Nat] /\ NoConflict.capture = NoCapture
  BY DEF NoConflict, NoCapture
<1>7. [tabs[t] EXCEPT !.conflict = NoConflict] \in TabState
  BY <1>5, <1>6 DEF TabState
<1>8. PICK new \in TabState :
        /\ tabs' = [tabs EXCEPT ![t] = new] /\ new.conflict = NoConflict
        /\ new.pc = tabs[t].pc /\ new.list = tabs[t].list /\ new.seen = tabs[t].seen
  BY <1>2, <1>5, <1>7 DEF CloseDialog, OutboxInv, TabsInv, TabState
<1>9. DialogInv(new)'
  BY <1>6, <1>8 DEF DialogInv
<1>10. RequestInv(new)
  BY <1>8 DEF OutboxInv, TabsInv, TabInv, RequestInv
<1>11. RequestInv(new)'
  BY <1>4, <1>10, RequestStays DEF OutboxInv
<1>12. outbox' = outbox \ {i}
  BY <1>2 DEF CloseDialog
<1>13. outbox' \subseteq Captures /\ wire' \subseteq Captures
  BY <1>2, <1>12 DEF OutboxInv, QueueInv
<1>14. \A j \in outbox \ outbox' : j \in accepted' \/ Kept(j) \/ j \in discarded'
  BY <1>2, <1>12
<1>15. QED
  BY <1>2, <1>4, <1>8, <1>9, <1>11, <1>13, <1>14, TabKeeps

\* A lost request is served, or will be, or never was.
LEMMA LoseKeeps ==
  ASSUME OutboxInv, NEW t \in Tabs, LoseRequest(t)
  PROVE  OutboxInv'
<1> DEFINE i == Head(tabs[t].list)
<1>1. i \in Captures
  BY HeadIsCaptured DEF LoseRequest
<1>2. Rest(t) /\ UNCHANGED <<captures, outbox, discarded>>
  BY DEF LoseRequest
<1>3. CASE UNCHANGED <<entries, accepted, wire>>
  <2>1. StoreInv' /\ Grows /\ Overtaken
    BY <1>2, <1>3, QuietStep DEF OutboxInv
  <2>2. wire' \subseteq Captures
    BY <1>3 DEF OutboxInv, QueueInv
  <2>3. QED
    BY <1>2, <2>1, <2>2, RestKeeps
<1>4. CASE Mutate(i) /\ UNCHANGED wire
  <2>1. StoreInv' /\ Grows /\ Overtaken
    BY <1>1, <1>2, <1>4, MutateStep DEF OutboxInv
  <2>2. wire' \subseteq Captures
    BY <1>4 DEF OutboxInv, QueueInv
  <2>3. QED
    BY <1>2, <2>1, <2>2, RestKeeps
<1>5. CASE wire' = wire \cup {i} /\ UNCHANGED <<entries, accepted>>
  <2>1. StoreInv' /\ Grows /\ Overtaken
    BY <1>2, <1>5, QuietStep DEF OutboxInv
  <2>2. wire' \subseteq Captures
    BY <1>1, <1>5 DEF OutboxInv, QueueInv
  <2>3. QED
    BY <1>2, <2>1, <2>2, RestKeeps
<1>6. QED
  BY <1>3, <1>4, <1>5 DEF LoseRequest

LEMMA RestingTab ==
  Resting \in TabState /\ Resting.pc = "idle" /\ Resting.list = <<>>
  /\ Resting.conflict.capture = NoCapture
<1>1. <<>> \in Seq(Nat)
  BY EmptySeq
<1>2. QED
  BY <1>1 DEF Resting, NoConflict, NoCapture, TabState, Places

LEMMA CloseKeeps ==
  ASSUME OutboxInv, NEW t \in Tabs, CloseTab(t)
  PROVE  OutboxInv'
<1>1. /\ UNCHANGED <<captures, entries, accepted, discarded, outbox, wire>>
      /\ tabs' = [tabs EXCEPT ![t] = Resting]
  BY DEF CloseTab
<1>2. StoreInv' /\ Grows /\ Overtaken
  BY <1>1, QuietStep DEF OutboxInv
<1>3. PICK new \in TabState : new = Resting
  BY RestingTab
<1>4. new.pc = "idle" /\ new.list = <<>> /\ new.conflict.capture = NoCapture
  BY <1>3, RestingTab
<1>5. RequestInv(new)' /\ DialogInv(new)'
  BY <1>4, RestingRequest DEF DialogInv
<1>6. outbox' \subseteq Captures /\ wire' \subseteq Captures
  BY <1>1 DEF OutboxInv, QueueInv
<1>7. \A j \in outbox \ outbox' : j \in accepted' \/ Kept(j) \/ j \in discarded'
  BY <1>1
<1>8. QED
  BY <1>1, <1>2, <1>3, <1>5, <1>6, <1>7, TabKeeps

-----------------------------------------------------------------------------
(* The theorems.                                                             *)

LEMMA OutboxInvInit == OutboxInit => OutboxInv
<1> SUFFICES ASSUME OutboxInit PROVE OutboxInv
  OBVIOUS
<1>1. Captures = {} /\ captures \in Seq(CaptureRow)
  BY EmptySeq DEF OutboxInit, Captures
<1>2. \A e \in Entries : entries[e] = [row |-> NoRow, texts |-> <<>>, day |-> NoRow]
  BY DEF OutboxInit
<1>3. PICK seq \in Seq(Nat) : seq = <<>>
  BY EmptySeq
<1>4. [row |-> NoRow, texts |-> seq, day |-> NoRow] \in EntryRow
  BY DEF EntryRow
<1>5. StoreType
  BY <1>1, <1>2, <1>3, <1>4 DEF OutboxInit, StoreType
<1>6. StoreInv
  <2>1. ASSUME NEW e \in Entries PROVE EntryInv(e)
    <3>1. entries[e].texts = <<>> /\ DOMAIN entries[e].texts = {}
      BY <1>2
    <3>2. QED
      BY <3>1 DEF EntryInv
  <2>2. QED
    BY <1>1, <1>5, <2>1 DEF StoreInv
<1>7. TabsInv
  <2>1. ASSUME NEW t \in Tabs PROVE TabInv(t)
    BY RestingTab, EmptySeq DEF OutboxInit, TabInv, RequestInv, DialogInv
  <2>2. QED
    BY <2>1, RestingTab DEF OutboxInit, TabsInv
<1>8. QueueInv
  BY <1>1 DEF OutboxInit, QueueInv, NothingLost
<1>9. QED
  BY <1>6, <1>7, <1>8 DEF OutboxInv

LEMMA OutboxInvNext ==
  ASSUME OutboxInv, [OutboxNext]_outboxVars
  PROVE  OutboxInv'
<1>1. CASE UNCHANGED outboxVars
  <2>1. UNCHANGED <<captures, outbox, tabs, wire, entries, accepted, discarded>>
    BY <1>1 DEF outboxVars
  <2>2. StoreInv' /\ Grows /\ Overtaken
    BY <2>1, QuietStep DEF OutboxInv
  <2>3. QED
    BY <2>1, <2>2, ServerMoves
<1>2. ASSUME NEW e \in Entries, NEW d \in Days, CaptureCreate(e, d) \/ RemoteMove(e, d)
      PROVE  OutboxInv'
  BY <1>2, CreateKeeps, ElsewhereKeeps
<1>3. ASSUME NEW e \in Entries, NEW base \in 1..MaxCaptures + MaxRemote, CaptureEdit(e, base)
      PROVE  OutboxInv'
  <2>1. base \in Nat
    BY OutboxAssumption
  <2>2. QED
    BY <1>3, <2>1, EditKeeps
<1>4. ASSUME NEW e \in Entries,
             RemoteEdit(e) \/ SoftDelete(e) \/ RestoreEntry(e) \/ PurgeEntry(e)
      PROVE  OutboxInv'
  BY <1>4, ElsewhereKeeps
<1>5. ASSUME NEW i \in wire, LateArrival(i) PROVE OutboxInv'
  BY <1>5, LateKeeps
<1>6. ASSUME NEW t \in Tabs,
             ApplyTombstones(t) \/ TabStep(t) \/ KeepDraft(t) \/ Resolve(t)
             \/ LoseRequest(t) \/ CloseTab(t)
      PROVE  OutboxInv'
  BY <1>6, SweepKeeps, StartKeeps, SendKeeps, ReceiveKeeps, DeleteKeeps, InspectKeeps,
     MarkKeeps, DraftKeeps, ResolveKeeps, LoseKeeps, CloseKeeps
  DEF TabStep
<1>7. QED
  BY <1>1, <1>2, <1>3, <1>4, <1>5, <1>6 DEF OutboxNext

LEMMA OutboxInvImplies ==
  ASSUME OutboxInv
  PROVE  NothingLost /\ TextsOnTheirBase
<1>1. NothingLost
  BY DEF OutboxInv, QueueInv
<1>2. DecisionsStand
  <2> SUFFICES ASSUME NEW i \in Captures, i \in discarded \/ Kept(i)
               PROVE  i \notin accepted
    BY DEF DecisionsStand
  <2>1. CASE i \in discarded
    BY <2>1 DEF OutboxInv, StoreInv, CaptureInv, Outdated
  <2>2. CASE Kept(i)
    <3>1. PICK j \in Captures : captures[j].draftOf = i
      BY <2>2 DEF Kept
    <3>2. i # NoCapture
      BY Shapes DEF OutboxInv, StoreInv, NoCapture
    <3>3. QED
      BY <3>1, <3>2 DEF OutboxInv, StoreInv, CaptureInv, Outdated
  <2>3. QED
    BY <2>1, <2>2
<1>3. AppliedOnItsBase
  <2> SUFFICES ASSUME NEW e \in Entries
               PROVE  /\ \A k, l \in DOMAIN entries[e].texts :
                           entries[e].texts[k] = entries[e].texts[l] =>
                             k = l \/ entries[e].texts[k] = Remote
                      /\ \A k \in DOMAIN entries[e].texts :
                           entries[e].texts[k] # Remote =>
                             captures[entries[e].texts[k]].base = k - 1
    BY DEF AppliedOnItsBase
  <2>1. \A k \in DOMAIN entries[e].texts :
          entries[e].texts[k] # Remote => captures[entries[e].texts[k]].base = k - 1
    BY DEF OutboxInv, StoreInv, EntryInv
  <2>2. \A k \in DOMAIN entries[e].texts : k \in Nat
    BY Shapes DEF OutboxInv, StoreInv
  <2>3. QED
    BY <2>1, <2>2
<1>4. QED
  BY <1>1, <1>2, <1>3 DEF TextsOnTheirBase

\* The inductive invariant of the outbox, the tabs and the server.
THEOREM OutboxInvariant == OutboxSpec => []OutboxInv
<1>1. OutboxInit => OutboxInv
  BY OutboxInvInit
<1>2. OutboxInv /\ [OutboxNext]_outboxVars => OutboxInv'
  BY OutboxInvNext
<1>3. QED
  BY <1>1, <1>2, PTL DEF OutboxSpec

\* Whatever tab closes, whatever request is lost or late and whoever resolves a
\* conflict, no written capture disappears unsettled (journal/offline.ts).
THEOREM NothingIsLost == OutboxSpec => []NothingLost
<1>1. OutboxInv => NothingLost
  BY OutboxInvImplies
<1>2. QED
  BY <1>1, OutboxInvariant, PTL

\* A capture the owner gave up or replaced is never applied, and each accepted text
\* stands directly on the revision its author saw (journal-service.ts, mutate).
THEOREM TextsStandOnTheirBase == OutboxSpec => []TextsOnTheirBase
<1>1. OutboxInv => TextsOnTheirBase
  BY OutboxInvImplies
<1>2. QED
  BY <1>1, OutboxInvariant, PTL

-----------------------------------------------------------------------------
(* The inductive invariant.                                                  *)

States == {"none", "recording", "saved_locally", "uploading", "failed",
           "browser_storage_exhausted", "transcription_pending"}
ServerStates == {"none", "uploading", "prepared", "durable"}
Rows == [state : States, next : Nat, created : BOOLEAN, persist : ServerStates,
         safe : BOOLEAN, err : BOOLEAN, day : Nat]
CaptureState == [on : BOOLEAN, accepting : BOOLEAN, stopped : BOOLEAN, broken : BOOLEAN,
                 queue : Nat, emitted : Nat, write : {"ready", "protected", "committed"},
                 row : Rows]
SyncPlaces == {"idle", "start", "reset", "claim", "create", "created", "status", "seen",
               "prepare", "upload", "uploaded", "publish", "confirm", "failing"}
SyncState == [pc : SyncPlaces, row : Rows, seen : ServerStates, left : SUBSET Nat,
              safe : BOOLEAN]
MoverState == [pc : {"idle", "call", "put"}, row : Rows, day : Nat]
EventCounts == [losses : Nat, breaks : Nat, moves : Nat, moved : Nat, raced : BOOLEAN]

TypeInv ==
    /\ row \in Rows
    /\ capture \in CaptureState
    /\ DOMAIN server = {"state", "accepted", "request", "day"}
    /\ server.state \in ServerStates
    /\ syncs \in [Syncs -> SyncState]
    /\ mover \in MoverState
    /\ audio \in [committed : SUBSET Nat, late : SUBSET Nat]
    /\ events \in EventCounts

\* The units the browser called saved.
Owed == audio.committed \ audio.late
Covers(r) == \A u \in Owed : u < r.next
Fresh(r) == r.state \in {"none", "recording"}
\* A copy of the row that can be stored at any time.
Started(r) == Covers(r) /\ ~Fresh(r)

RowInv ==
    /\ Covers(row)
    /\ Fresh(row) =>
         /\ row.persist = "none" /\ server.state = "none" /\ mover.pc = "idle"
         /\ \A s \in Syncs : syncs[s].pc = "idle"
    /\ row.state = "none" => ~capture.on /\ ~capture.broken /\ capture.write = "ready"

ControlInv ==
    /\ capture.on /\ ~capture.broken => row.state = "recording"
    /\ capture.broken => ~capture.accepting
    /\ capture.on =>
         \A u \in Owed : \/ u < capture.row.next
                         \/ capture.write = "committed" /\ u = capture.row.next
    /\ capture.on /\ capture.broken /\ capture.write = "protected" =>
         capture.row.next \in audio.late

Whole(state) == state \in {"prepared", "durable"}
\* What an activity knows of the server, which may have moved on since.
SyncInv(a) ==
    /\ a.pc \notin {"idle", "start"} => Started(a.row)
    /\ a.pc \in {"seen", "prepare", "upload", "uploaded"} => server.state # "none"
    /\ a.pc = "seen" =>
         /\ a.seen # "none"
         /\ a.seen = "prepared" => Whole(server.state)
         /\ a.seen = "durable" => server.state = "durable"
    /\ a.pc = "publish" => Whole(server.state)
    /\ a.pc = "confirm" => server.state = "durable"
SyncsInv == \A s \in Syncs : SyncInv(syncs[s])

MoverInv == mover.pc # "idle" => Started(mover.row)

ServerInv ==
    /\ Whole(server.state) => Owed \subseteq server.accepted
    /\ server.state # "durable" => Owed \subseteq chunks

RecordingInv == TypeInv /\ RowInv /\ ControlInv /\ SyncsInv /\ MoverInv /\ ServerInv

LEMMA RecordingInvInit == SyncInit => RecordingInv
<1> SUFFICES ASSUME SyncInit PROVE RecordingInv
  OBVIOUS
<1>1. NoRecording \in Rows
  BY DEF NoRecording, Rows, States, ServerStates
<1>2. IdleSync \in SyncState
  BY <1>1 DEF IdleSync, SyncState, SyncPlaces, ServerStates
<1>3. TypeInv
  BY <1>1, <1>2 DEF TypeInv, SyncInit, CaptureState, ServerStates, MoverState, IdleMove,
     EventCounts
<1>4. Owed = {}
  BY DEF Owed, SyncInit
<1>5. RowInv /\ ControlInv /\ SyncsInv /\ MoverInv /\ ServerInv
  BY <1>4 DEF SyncInit, RowInv, ControlInv, SyncsInv, SyncInv, MoverInv, ServerInv, Covers,
     Whole, NoRecording, IdleSync, IdleMove, Fresh
<1>6. QED
  BY <1>3, <1>5 DEF RecordingInv

LEMMA RecordingInvImplies == RecordingInv => AudioKept
  BY DEF RecordingInv, ServerInv, AudioKept, Owed, Whole

-----------------------------------------------------------------------------
(* What a step leaves alone.                                                 *)

\* The server only moves on, and takes an upload for whole only with every unit.
ServerGrows ==
    /\ DOMAIN server' = {"state", "accepted", "request", "day"}
    /\ server'.state \in ServerStates
    /\ server.state # "none" => server'.state # "none"
    /\ Whole(server.state) => Whole(server'.state) /\ server.accepted \subseteq server'.accepted
    /\ server.state = "durable" => server'.state = "durable"

LEMMA SyncStays ==
  ASSUME NEW a, SyncInv(a), ServerGrows, Owed' \subseteq Owed
  PROVE  SyncInv(a)'
  BY DEF SyncInv, ServerGrows, Whole, Started, Covers, Fresh

LEMMA MoverStays ==
  ASSUME MoverInv, Owed' \subseteq Owed, UNCHANGED mover
  PROVE  MoverInv'
  BY DEF MoverInv, Started, Covers, Fresh

LEMMA SyncsStay ==
  ASSUME SyncsInv, ServerGrows, Owed' \subseteq Owed, UNCHANGED syncs
  PROVE  SyncsInv'
<1> SUFFICES ASSUME NEW s \in Syncs PROVE SyncInv(syncs[s])'
  BY DEF SyncsInv
<1>1. PICK a : a = syncs[s]
  OBVIOUS
<1>2. SyncInv(a)
  BY <1>1 DEF SyncsInv
<1>3. SyncInv(a)'
  BY <1>2, SyncStays
<1>4. a = syncs'[s]
  BY <1>1
<1>5. QED
  BY <1>3, <1>4 DEF SyncInv, Started, Covers, Fresh

-----------------------------------------------------------------------------
(* The capture controller.                                                   *)

LEMMA ServerRests == ASSUME TypeInv, UNCHANGED server PROVE ServerGrows
  BY DEF TypeInv, ServerGrows, Whole

\* A step of the capture that neither commits a unit nor stores the row.
LEMMA CaptureQuiet ==
  ASSUME RecordingInv, UNCHANGED <<row, chunks, server, syncs, mover, audio, events>>,
         capture' \in CaptureState, ControlInv',
         row.state = "none" => capture' = capture
  PROVE  RecordingInv'
<1>1. Owed' = Owed
  BY DEF Owed
<1>2. TypeInv'
  BY DEF RecordingInv, TypeInv
<1>3. RowInv'
  BY <1>1 DEF RecordingInv, RowInv, Covers, Fresh
<1>4. SyncsInv' /\ MoverInv'
  BY <1>1, SyncsStay, MoverStays, ServerRests DEF RecordingInv
<1>5. ServerInv'
  BY <1>1 DEF RecordingInv, ServerInv, Whole
<1>6. QED
  BY <1>2, <1>3, <1>4, <1>5 DEF RecordingInv

LEMMA EmitKeeps == RecordingInv /\ Emit => RecordingInv'
<1> SUFFICES ASSUME RecordingInv, Emit PROVE RecordingInv'
  OBVIOUS
<1>1. capture' \in CaptureState
  <2>1. capture \in CaptureState
    BY DEF RecordingInv, TypeInv
  <2>2. capture.queue \in Nat /\ capture.emitted \in Nat
    BY <2>1 DEF CaptureState
  <2>3. capture.queue + 1 \in Nat /\ capture.emitted + 1 \in Nat
    BY <2>2
  <2>4. QED
    BY <2>1, <2>3 DEF Emit, CaptureState
<1>2. ControlInv'
  BY DEF RecordingInv, TypeInv, ControlInv, CaptureState, Emit, Owed
<1>3. row.state # "none"
  BY DEF RecordingInv, RowInv, Emit
<1>4. QED
  BY <1>1, <1>2, <1>3, CaptureQuiet DEF Emit

LEMMA BeginUnitKeeps == RecordingInv /\ BeginUnit => RecordingInv'
<1> SUFFICES ASSUME RecordingInv, BeginUnit PROVE RecordingInv'
  OBVIOUS
<1>1. capture' \in CaptureState
  <2>1. capture \in CaptureState
    BY DEF RecordingInv, TypeInv
  <2>2. capture.queue \in Nat /\ capture.emitted \in Nat
    BY <2>1 DEF CaptureState
  <2>3. capture.queue - 1 \in Nat
    BY <2>2 DEF BeginUnit
  <2>4. QED
    BY <2>1, <2>3 DEF BeginUnit, CaptureState
<1>2. ControlInv'
  BY DEF RecordingInv, TypeInv, ControlInv, CaptureState, BeginUnit, Owed
<1>3. row.state # "none"
  BY DEF RecordingInv, RowInv, BeginUnit
<1>4. QED
  BY <1>1, <1>2, <1>3, CaptureQuiet DEF BeginUnit

LEMMA UnitSavedKeeps ==
  ASSUME RecordingInv, NEW low \in BOOLEAN, UnitSaved(low) PROVE RecordingInv'
<1>1. capture' \in CaptureState
  BY DEF RecordingInv, TypeInv, UnitSaved, CaptureState
<1>2. ControlInv'
  BY DEF RecordingInv, TypeInv, RowInv, Covers, ControlInv, CaptureState, UnitSaved, Owed
<1>3. row.state # "none"
  BY DEF RecordingInv, RowInv, UnitSaved
<1>4. QED
  BY <1>1, <1>2, <1>3, CaptureQuiet DEF UnitSaved

LEMMA StopCaptureKeeps == RecordingInv /\ StopCapture => RecordingInv'
<1> SUFFICES ASSUME RecordingInv, StopCapture PROVE RecordingInv'
  OBVIOUS
<1>1. capture' \in CaptureState
  BY DEF RecordingInv, TypeInv, StopCapture, CaptureState
<1>2. ControlInv'
  BY DEF RecordingInv, TypeInv, ControlInv, CaptureState, StopCapture, Owed
<1>3. row.state # "none"
  BY DEF RecordingInv, RowInv, StopCapture
<1>4. QED
  BY <1>1, <1>2, <1>3, CaptureQuiet DEF StopCapture

LEMMA CloseCaptureKeeps == RecordingInv /\ CloseCapture => RecordingInv'
<1> SUFFICES ASSUME RecordingInv, CloseCapture PROVE RecordingInv'
  OBVIOUS
<1>1. capture' \in CaptureState /\ ~capture'.on /\ ~capture'.accepting
      /\ capture'.write = "ready" /\ capture'.broken = capture.broken
  BY DEF RecordingInv, TypeInv, CloseCapture, CaptureState
<1>2. ControlInv'
  BY <1>1 DEF ControlInv
<1>3. events' \in EventCounts
  BY DEF RecordingInv, TypeInv, CloseCapture, Happen, EventCounts
<1>4. Owed' = Owed
  BY DEF Owed, CloseCapture
<1>5. TypeInv'
  BY <1>1, <1>3 DEF RecordingInv, TypeInv, CloseCapture
<1>6. RowInv'
  BY <1>4, <1>1 DEF RecordingInv, RowInv, Covers, Fresh, CloseCapture
<1>7. SyncsInv' /\ MoverInv'
  BY <1>4, SyncsStay, MoverStays, ServerRests DEF RecordingInv, CloseCapture
<1>8. ServerInv'
  BY <1>4 DEF RecordingInv, ServerInv, Whole, CloseCapture
<1>9. QED
  BY <1>2, <1>5, <1>6, <1>7, <1>8 DEF RecordingInv

LEMMA StartCaptureKeeps == RecordingInv /\ StartCapture => RecordingInv'
<1> SUFFICES ASSUME RecordingInv, StartCapture PROVE RecordingInv'
  OBVIOUS
<1>1. row.state = "none" /\ row.next = 0 /\ row.persist = "none"
  BY DEF StartCapture, NoRecording
<1>2. row' \in Rows /\ row'.state = "recording" /\ row'.next = 0 /\ row'.persist = "none"
  BY <1>1 DEF RecordingInv, TypeInv, StartCapture, Rows, States
<1>3. /\ capture' \in CaptureState /\ capture'.on /\ capture'.write = "ready"
      /\ ~capture'.broken /\ capture'.row = row'
  BY <1>1, <1>2 DEF RecordingInv, TypeInv, RowInv, StartCapture, CaptureState
<1>4. Owed' = Owed
  BY DEF Owed, StartCapture
<1>5. TypeInv'
  BY <1>2, <1>3 DEF RecordingInv, TypeInv, StartCapture
<1>6. Covers(row)
  BY DEF RecordingInv, RowInv
<1>7. ControlInv'
  BY <1>1, <1>2, <1>3, <1>4, <1>6 DEF ControlInv, Covers
<1>8. RowInv'
  BY <1>1, <1>2, <1>4 DEF RecordingInv, RowInv, Covers, Fresh, StartCapture
<1>9. SyncsInv' /\ MoverInv'
  BY <1>4, SyncsStay, MoverStays, ServerRests DEF RecordingInv, StartCapture
<1>10. ServerInv'
  BY <1>4 DEF RecordingInv, ServerInv, Whole, StartCapture
<1>11. QED
  BY <1>5, <1>7, <1>8, <1>9, <1>10 DEF RecordingInv

LEMMA CommitUnitKeeps == RecordingInv /\ CommitUnit => RecordingInv'
<1> SUFFICES ASSUME RecordingInv, CommitUnit PROVE RecordingInv'
  OBVIOUS
<1> DEFINE u == row.next
<1>1. row \in Rows /\ u \in Nat /\ capture.row.next = u
  BY DEF RecordingInv, TypeInv, Rows, CommitUnit, InOrder
<1>2. /\ row' \in Rows /\ row'.next = row.next + 1
      /\ row'.state = row.state /\ row'.persist = row.persist
  BY <1>1 DEF CommitUnit, Rows
<1>3. /\ capture' \in CaptureState /\ capture'.write = "committed" /\ capture'.row = capture.row
      /\ capture'.on = capture.on /\ capture'.broken = capture.broken
      /\ capture'.accepting = capture.accepting
  BY DEF RecordingInv, TypeInv, CommitUnit, CaptureState
<1>4. audio' \in [committed : SUBSET Nat, late : SUBSET Nat]
      /\ audio'.committed = audio.committed \cup {row.next} /\ audio'.late = audio.late
  BY <1>1 DEF RecordingInv, TypeInv, CommitUnit
<1>5. Owed' \subseteq Owed \cup {row.next}
  BY <1>4 DEF Owed
<1>6. TypeInv'
  BY <1>2, <1>3, <1>4 DEF RecordingInv, TypeInv, CommitUnit
<1>7. row.state # "none"
  BY DEF RecordingInv, RowInv, CommitUnit
<1>8. \A k \in Owed : k \in Nat /\ k < row.next
  BY DEF RecordingInv, TypeInv, RowInv, Covers, Owed
<1>9. RowInv'
  BY <1>1, <1>2, <1>5, <1>7, <1>8 DEF RecordingInv, RowInv, Covers, Fresh, CommitUnit
<1>10. ControlInv'
  BY <1>1, <1>2, <1>3, <1>5, <1>8, <1>4 DEF RecordingInv, ControlInv, CommitUnit
<1>11. CASE capture.broken
  <2>1. Owed' \subseteq Owed
    BY <1>11, <1>1, <1>4 DEF RecordingInv, ControlInv, Owed, CommitUnit
  <2>2. SyncsInv' /\ MoverInv'
    BY <2>1, SyncsStay, MoverStays, ServerRests DEF RecordingInv, CommitUnit
  <2>3. ServerInv'
    BY <2>1 DEF RecordingInv, ServerInv, Whole, CommitUnit
  <2>4. QED
    BY <1>6, <1>9, <1>10, <2>2, <2>3 DEF RecordingInv
<1>12. CASE ~capture.broken
  <2>1. row.state = "recording"
    BY <1>12 DEF RecordingInv, ControlInv, CommitUnit
  <2>2. /\ \A s \in Syncs : syncs[s].pc = "idle"
        /\ mover.pc = "idle" /\ server.state = "none"
    BY <2>1 DEF RecordingInv, RowInv, Fresh
  <2>3. SyncsInv' /\ MoverInv'
    BY <2>2 DEF SyncsInv, SyncInv, MoverInv, CommitUnit
  <2>4. ServerInv'
    BY <2>2, <1>5 DEF RecordingInv, ServerInv, Whole, CommitUnit
  <2>5. QED
    BY <1>6, <1>9, <1>10, <2>3, <2>4 DEF RecordingInv
<1>13. QED
  BY <1>11, <1>12

\* A failure stores the controller's copy: what it does not count is late.
LEMMA FailCaptureKeeps ==
  ASSUME RecordingInv, NEW state \in {"failed", "browser_storage_exhausted"}, NEW write,
         write = capture.write \/ write = "ready",
         capture.on, FailCapture(state, write), events' \in EventCounts,
         UNCHANGED <<chunks, server, syncs, mover>>
  PROVE  RecordingInv'
<1> DEFINE copy == [capture.row EXCEPT !.state = state, !.safe = (capture.row.next > 0)]
<1>1. capture \in CaptureState /\ capture.row \in Rows
  BY DEF RecordingInv, TypeInv, CaptureState
<1>2. PICK c : c = copy
  OBVIOUS
<1>3. c \in Rows /\ c.next = capture.row.next /\ c.state = state
  <2>1. PICK r \in Rows : r = capture.row
    BY <1>1
  <2>2. state \in States /\ (r.next > 0) \in BOOLEAN
    BY DEF States
  <2>3. c = [r EXCEPT !.state = state, !.safe = (r.next > 0)]
    BY <1>2, <2>1
  <2>4. c \in Rows
    BY <2>2, <2>3 DEF Rows
  <2>5. c.next = r.next /\ c.state = state
    BY <2>3 DEF Rows
  <2>6. QED
    BY <2>1, <2>4, <2>5
<1>4. row' = c
  BY <1>2 DEF FailCapture
<1>5. /\ capture' \in CaptureState /\ ~capture'.accepting /\ capture'.broken
      /\ capture'.row = c /\ capture'.write = write /\ capture'.on = capture.on
  BY <1>1, <1>2, <1>3 DEF FailCapture, CaptureState
<1>6. capture.row.next \in Nat
  BY <1>1 DEF Rows
<1>7. /\ audio' \in [committed : SUBSET Nat, late : SUBSET Nat]
      /\ audio'.committed = audio.committed
      /\ audio'.late = IF capture.write = "ready" THEN audio.late
                       ELSE audio.late \cup {capture.row.next}
  BY <1>6 DEF FailCapture, RecordingInv, TypeInv
<1>8. Owed' \subseteq Owed /\ \A u \in Owed' : u < c.next
  BY <1>3, <1>7 DEF Owed, RecordingInv, ControlInv
<1>9. TypeInv'
  BY <1>3, <1>4, <1>5, <1>7 DEF RecordingInv, TypeInv
<1>10. RowInv'
  BY <1>3, <1>4, <1>8 DEF RowInv, Covers, Fresh
<1>11. ControlInv'
  BY <1>3, <1>5, <1>7, <1>8 DEF ControlInv
<1>12. SyncsInv' /\ MoverInv'
  BY <1>8, SyncsStay, MoverStays, ServerRests DEF RecordingInv
<1>13. ServerInv'
  BY <1>8 DEF RecordingInv, ServerInv, Whole
<1>14. QED
  BY <1>9, <1>10, <1>11, <1>12, <1>13 DEF RecordingInv

LEMMA UnitFailsKeeps == RecordingInv /\ UnitFails => RecordingInv'
<1> SUFFICES ASSUME RecordingInv, UnitFails PROVE RecordingInv'
  OBVIOUS
<1>1. events' \in EventCounts
  BY DEF RecordingInv, TypeInv, UnitFails, Happen, EventCounts
<1>2. FailCapture("browser_storage_exhausted", "ready") /\ capture.on
      /\ UNCHANGED <<chunks, server, syncs, mover>>
  BY DEF UnitFails
<1>3. QED
  BY <1>1, <1>2, FailCaptureKeeps

LEMMA RecorderErrorKeeps == RecordingInv /\ RecorderError => RecordingInv'
<1> SUFFICES ASSUME RecordingInv, RecorderError PROVE RecordingInv'
  OBVIOUS
<1>1. events' \in EventCounts
  BY DEF RecordingInv, TypeInv, RecorderError, Happen, EventCounts
<1>2. FailCapture("failed", capture.write) /\ capture.on
      /\ UNCHANGED <<chunks, server, syncs, mover>>
  BY DEF RecorderError
<1>3. QED
  BY <1>1, <1>2, FailCaptureKeeps

LEMMA FinishCaptureKeeps == RecordingInv /\ FinishCapture => RecordingInv'
<1> SUFFICES ASSUME RecordingInv, FinishCapture PROVE RecordingInv'
  OBVIOUS
<1>1. /\ capture' \in CaptureState /\ ~capture'.on /\ ~capture'.accepting
      /\ capture'.write = "ready" /\ capture'.broken = capture.broken
  BY DEF RecordingInv, TypeInv, FinishCapture, CaptureState
<1>2. PICK r : r = IF capture.broken THEN row
                   ELSE [capture.row EXCEPT !.state = "saved_locally"]
  OBVIOUS
<1>3. row' = r
  BY <1>2 DEF FinishCapture
<1>4. Owed' = Owed
  BY DEF Owed, FinishCapture
<1>5. capture.row \in Rows
  BY DEF RecordingInv, TypeInv, CaptureState
<1>6. r \in Rows /\ Covers(r)
        /\ (capture.broken \/ r.state = "saved_locally")
  BY <1>2, <1>5 DEF RecordingInv, TypeInv, RowInv, ControlInv, Covers, FinishCapture, Rows, States
<1>7. TypeInv'
  BY <1>1, <1>3, <1>6 DEF RecordingInv, TypeInv, FinishCapture
<1>8. ControlInv'
  BY <1>1 DEF ControlInv
<1>9. RowInv'
  BY <1>1, <1>2, <1>3, <1>4, <1>6 DEF RecordingInv, RowInv, Covers, Fresh, FinishCapture
<1>10. SyncsInv' /\ MoverInv'
  BY <1>4, SyncsStay, MoverStays, ServerRests DEF RecordingInv, FinishCapture
<1>11. ServerInv'
  BY <1>4 DEF RecordingInv, ServerInv, Whole, FinishCapture
<1>12. QED
  BY <1>7, <1>8, <1>9, <1>10, <1>11 DEF RecordingInv

-----------------------------------------------------------------------------
(* An activity: one of its steps changes its own state and at most one of    *)
(* the row and the server.                                                   *)

LEMMA ActivityMoves ==
  ASSUME RecordingInv, NEW s \in Syncs, NEW a \in SyncState,
         syncs' = [syncs EXCEPT ![s] = a], SyncInv(a)',
         ServerGrows, Owed' = Owed
  PROVE  SyncsInv' /\ syncs' \in [Syncs -> SyncState]
<1>1. syncs \in [Syncs -> SyncState] /\ syncs'[s] = a
  BY DEF RecordingInv, TypeInv
<1>2. syncs' \in [Syncs -> SyncState]
  BY <1>1
<1>3. SUFFICES ASSUME NEW t \in Syncs PROVE SyncInv(syncs[t])'
  BY <1>2 DEF SyncsInv
<1>4. PICK b : b = syncs'[t]
  OBVIOUS
<1>5. SyncInv(b)'
  <2>1. CASE t = s
    BY <2>1, <1>1, <1>4
  <2>2. CASE t # s
    <3>1. b = syncs[t]
      BY <2>2, <1>1, <1>4
    <3>2. SyncInv(b)
      BY <3>1 DEF RecordingInv, SyncsInv
    <3>3. QED
      BY <3>2, SyncStays
  <2>3. QED
    BY <2>1, <2>2
<1>6. QED
  BY <1>4, <1>5 DEF SyncInv, Started, Covers, Fresh

\* An activity at work implies that the recording was captured.
LEMMA WorkMeansCaptured ==
  ASSUME RecordingInv, NEW s \in Syncs, syncs[s].pc # "idle"
  PROVE  /\ ~Fresh(row) /\ Started(row)
         /\ capture.on => capture.broken
  BY DEF RecordingInv, RowInv, ControlInv, Started, Fresh

\* A row that counts every kept unit is stored, the capture and the server rest.
LEMMA RowStored ==
  ASSUME RecordingInv, ~Fresh(row), row' \in Rows, Started(row)', Owed' = Owed,
         UNCHANGED <<capture, server, audio>>, UNCHANGED chunks,
         syncs' \in [Syncs -> SyncState], SyncsInv', mover' \in MoverState, MoverInv',
         events' \in EventCounts
  PROVE  RecordingInv'
<1>1. TypeInv'
  BY DEF RecordingInv, TypeInv
<1>2. RowInv'
  BY DEF RowInv, Started, Covers, Fresh
<1>3. ControlInv'
  BY DEF RecordingInv, ControlInv, Fresh
<1>4. ServerInv'
  BY DEF RecordingInv, ServerInv, Whole
<1>5. QED
  BY <1>1, <1>2, <1>3, <1>4 DEF RecordingInv

LEMMA StoreKeeps ==
  ASSUME RecordingInv, NEW s \in Syncs, syncs[s].pc # "idle",
         NEW copy \in Rows, Started(copy), NEW pc \in SyncPlaces, Store(s, copy, pc),
         pc # "seen",
         pc \in {"prepare", "upload", "uploaded"} => server.state # "none",
         pc = "publish" => Whole(server.state),
         pc = "confirm" => server.state = "durable"
  PROVE  RecordingInv'
<1>1. Owed' = Owed
  BY DEF Store, Owed
<1>2. syncs \in [Syncs -> SyncState]
  BY DEF RecordingInv, TypeInv
<1>3. PICK a : a = [syncs[s] EXCEPT !.row = copy, !.pc = pc]
  OBVIOUS
<1>4. syncs' = [syncs EXCEPT ![s] = a]
  BY <1>2, <1>3 DEF Store
<1>5. a \in SyncState /\ a.row = copy /\ a.pc = pc
  BY <1>2, <1>3 DEF SyncState
<1>6. Started(copy)'
  BY <1>1 DEF Started, Covers, Fresh
<1>7. ServerGrows
  BY ServerRests DEF RecordingInv, Store
<1>8. SyncInv(a)'
  BY <1>5, <1>6 DEF SyncInv, Store, Whole
<1>9. SyncsInv' /\ syncs' \in [Syncs -> SyncState]
  BY <1>1, <1>4, <1>5, <1>7, <1>8, ActivityMoves
<1>10. MoverInv'
  BY <1>1, MoverStays DEF RecordingInv, Store
<1>11. row' = copy /\ Started(row)'
  BY <1>6 DEF Store, Started, Covers, Fresh
<1>12. ~Fresh(row)
  BY WorkMeansCaptured
<1>13. QED
  BY <1>1, <1>9, <1>10, <1>11, <1>12, RowStored DEF RecordingInv, TypeInv, Store

LEMMA CopyOfRow ==
  ASSUME RecordingInv, NEW s \in Syncs, syncs[s].pc \notin {"idle", "start"}
  PROVE  syncs[s].row \in Rows /\ Started(syncs[s].row)
<1>1. syncs[s] \in SyncState /\ SyncInv(syncs[s])
  BY DEF RecordingInv, TypeInv, SyncsInv
<1>2. QED
  BY <1>1 DEF SyncState, SyncInv

LEMMA RetryResetKeeps == ASSUME RecordingInv, NEW s \in Syncs, RetryReset(s) PROVE RecordingInv'
<1> DEFINE r == syncs[s].row
           copy == [r EXCEPT !.state = "saved_locally", !.safe = TRUE, !.err = FALSE]
<1>1. syncs[s].pc = "reset" /\ Store(s, copy, "start")
  BY DEF RetryReset
<1>2. r \in Rows /\ Started(r)
  BY <1>1, CopyOfRow
<1>3. copy \in Rows /\ Started(copy)
  BY <1>2 DEF Rows, States, Started, Covers, Fresh
<1>4. QED
  BY <1>1, <1>3, StoreKeeps DEF SyncPlaces

LEMMA ClaimKeeps == ASSUME RecordingInv, NEW s \in Syncs, Claim(s) PROVE RecordingInv'
<1> DEFINE r == syncs[s].row
           copy == [r EXCEPT !.state = "uploading", !.safe = TRUE]
           pc == IF r.created THEN "status" ELSE "create"
<1>1. syncs[s].pc = "claim" /\ Store(s, copy, pc)
  BY DEF Claim
<1>2. r \in Rows /\ Started(r)
  BY <1>1, CopyOfRow
<1>3. copy \in Rows /\ Started(copy)
  BY <1>2 DEF Rows, States, Started, Covers, Fresh
<1>4. pc \in {"status", "create"}
  OBVIOUS
<1>5. QED
  BY <1>1, <1>3, <1>4, StoreKeeps DEF SyncPlaces

LEMMA SaveCreatedKeeps == ASSUME RecordingInv, NEW s \in Syncs, SaveCreated(s) PROVE RecordingInv'
<1> DEFINE r == syncs[s].row
           copy == [r EXCEPT !.created = TRUE, !.persist = syncs[s].seen]
<1>1. syncs[s].pc = "created" /\ Store(s, copy, "status")
  BY DEF SaveCreated
<1>2. r \in Rows /\ Started(r)
  BY <1>1, CopyOfRow
<1>3. syncs[s].seen \in ServerStates
  BY DEF RecordingInv, TypeInv, SyncState
<1>4. copy \in Rows /\ Started(copy)
  BY <1>2, <1>3 DEF Rows, States, Started, Covers, Fresh
<1>5. QED
  BY <1>1, <1>4, StoreKeeps DEF SyncPlaces

LEMMA SaveStatusKeeps == ASSUME RecordingInv, NEW s \in Syncs, SaveStatus(s) PROVE RecordingInv'
<1> DEFINE r == syncs[s].row
           copy == [r EXCEPT !.created = TRUE, !.persist = syncs[s].seen]
           pc == AfterStatus(syncs[s].seen)
<1>1. syncs[s].pc = "seen" /\ Store(s, copy, pc)
  BY DEF SaveStatus
<1>2. r \in Rows /\ Started(r)
  BY <1>1, CopyOfRow
<1>3. syncs[s] \in SyncState /\ SyncInv(syncs[s])
  BY DEF RecordingInv, TypeInv, SyncsInv
<1>4. syncs[s].seen \in ServerStates
  BY <1>3 DEF SyncState
<1>5. copy \in Rows /\ Started(copy)
  BY <1>2, <1>4 DEF Rows, States, Started, Covers, Fresh
<1>6. /\ pc \in {"confirm", "publish", "prepare"}
      /\ server.state # "none"
      /\ pc = "publish" => Whole(server.state)
      /\ pc = "confirm" => server.state = "durable"
  BY <1>1, <1>3, <1>4 DEF AfterStatus, SyncInv, ServerStates
<1>7. QED
  BY <1>1, <1>5, <1>6, StoreKeeps DEF SyncPlaces

LEMMA SaveProgressKeeps == ASSUME RecordingInv, NEW s \in Syncs, SaveProgress(s) PROVE RecordingInv'
<1>1. syncs[s].pc = "uploaded" /\ Store(s, syncs[s].row, "upload")
  BY DEF SaveProgress
<1>2. syncs[s].row \in Rows /\ Started(syncs[s].row)
  BY <1>1, CopyOfRow
<1>3. server.state # "none"
  BY <1>1 DEF RecordingInv, SyncsInv, SyncInv
<1>4. QED
  BY <1>1, <1>2, <1>3, StoreKeeps DEF SyncPlaces

LEMMA SaveFailureKeeps == ASSUME RecordingInv, NEW s \in Syncs, SaveFailure(s) PROVE RecordingInv'
<1> DEFINE r == syncs[s].row
           copy == [r EXCEPT !.state = "failed", !.safe = syncs[s].safe, !.err = TRUE]
<1>1. syncs[s].pc = "failing" /\ Store(s, copy, "idle")
  BY DEF SaveFailure
<1>2. r \in Rows /\ Started(r)
  BY <1>1, CopyOfRow
<1>3. syncs[s].safe \in BOOLEAN
  BY DEF RecordingInv, TypeInv, SyncState
<1>4. copy \in Rows /\ Started(copy)
  BY <1>2, <1>3 DEF Rows, States, Started, Covers, Fresh
<1>5. QED
  BY <1>1, <1>4, StoreKeeps DEF SyncPlaces

-----------------------------------------------------------------------------
(* Steps of an activity that do not store the row.                           *)

LEMMA ActivityKeeps ==
  ASSUME RecordingInv, NEW s \in Syncs, NEW a \in SyncState,
         syncs' = [syncs EXCEPT ![s] = a], SyncInv(a)', ~Fresh(row),
         ServerGrows, ServerInv', events' \in EventCounts,
         UNCHANGED <<row, chunks, capture, mover, audio>>
  PROVE  RecordingInv'
<1>1. Owed' = Owed
  BY DEF Owed
<1>2. SyncsInv' /\ syncs' \in [Syncs -> SyncState]
  BY <1>1, ActivityMoves
<1>3. MoverInv'
  BY <1>1, MoverStays DEF RecordingInv
<1>4. TypeInv'
  BY <1>2 DEF RecordingInv, TypeInv, ServerGrows
<1>5. RowInv'
  BY <1>1 DEF RecordingInv, RowInv, Covers, Fresh
<1>6. ControlInv'
  BY <1>1 DEF RecordingInv, ControlInv
<1>7. QED
  BY <1>2, <1>3, <1>4, <1>5, <1>6 DEF RecordingInv

\* ... and do not call the server.
LEMMA LocalKeeps ==
  ASSUME RecordingInv, NEW s \in Syncs, NEW a \in SyncState,
         syncs' = [syncs EXCEPT ![s] = a], SyncInv(a), ~Fresh(row),
         events' \in EventCounts,
         UNCHANGED <<row, chunks, capture, mover, audio, server>>
  PROVE  RecordingInv'
<1>1. Owed' = Owed
  BY DEF Owed
<1>2. ServerGrows
  BY ServerRests DEF RecordingInv
<1>3. SyncInv(a)'
  BY <1>1, <1>2, SyncStays
<1>4. ServerInv'
  BY <1>1 DEF RecordingInv, ServerInv, Whole
<1>5. QED
  BY <1>2, <1>3, <1>4, ActivityKeeps

LEMMA ResumeKeeps == ASSUME RecordingInv, NEW s \in Syncs, Resume(s) PROVE RecordingInv'
<1>1. PICK a : a = [syncs[s] EXCEPT !.pc = "start"]
  OBVIOUS
<1>2. syncs[s] \in SyncState
  BY DEF RecordingInv, TypeInv
<1>3. a \in SyncState /\ a.pc = "start"
  BY <1>1, <1>2 DEF SyncState, SyncPlaces
<1>4. syncs' = [syncs EXCEPT ![s] = a]
  BY <1>1 DEF Resume, Goto, RecordingInv, TypeInv
<1>5. SyncInv(a)
  BY <1>3 DEF SyncInv
<1>6. ~Fresh(row)
  BY DEF Resume, Resumable, Fresh
<1>7. QED
  BY <1>3, <1>4, <1>5, <1>6, LocalKeeps DEF Resume, Local, RecordingInv, TypeInv

LEMMA RetryReadKeeps == ASSUME RecordingInv, NEW s \in Syncs, RetryRead(s) PROVE RecordingInv'
<1>1. PICK a : a = [syncs[s] EXCEPT !.pc = "reset", !.row = row]
  OBVIOUS
<1>2. syncs[s] \in SyncState /\ row \in Rows
  BY DEF RecordingInv, TypeInv
<1>3. a \in SyncState /\ a.pc = "reset" /\ a.row = row
  BY <1>1, <1>2 DEF SyncState, SyncPlaces
<1>4. syncs' = [syncs EXCEPT ![s] = a]
  BY <1>1 DEF RetryRead, RecordingInv, TypeInv
<1>5. ~Fresh(row)
  BY DEF RetryRead, Retryable, Fresh, RecordingInv, RowInv
<1>6. SyncInv(a)
  BY <1>3, <1>5 DEF SyncInv, Started, RecordingInv, RowInv, Covers, Fresh
<1>7. QED
  BY <1>3, <1>4, <1>5, <1>6, LocalKeeps DEF RetryRead, Local, RecordingInv, TypeInv

LEMMA ReadKeeps == ASSUME RecordingInv, NEW s \in Syncs, Read(s) PROVE RecordingInv'
<1>1. PICK a : a = [syncs[s] EXCEPT !.pc = "claim", !.row = row]
  OBVIOUS
<1>2. syncs[s] \in SyncState /\ row \in Rows
  BY DEF RecordingInv, TypeInv
<1>3. a \in SyncState /\ a.pc = "claim" /\ a.row = row
  BY <1>1, <1>2 DEF SyncState, SyncPlaces
<1>4. syncs' = [syncs EXCEPT ![s] = a]
  BY <1>1 DEF Read, RecordingInv, TypeInv
<1>5. ~Fresh(row) /\ Started(row)
  BY WorkMeansCaptured DEF Read
<1>6. SyncInv(a)
  BY <1>3, <1>5 DEF SyncInv, Started, Covers, Fresh
<1>7. QED
  BY <1>3, <1>4, <1>5, <1>6, LocalKeeps DEF Read, Local, RecordingInv, TypeInv

\* The activity goes on to a place where nothing more is assumed of the server.
LEMMA GotoKeeps ==
  ASSUME RecordingInv, NEW s \in Syncs, syncs[s].pc \notin {"idle", "start"},
         NEW pc \in {"failing", "upload"}, NEW safe \in BOOLEAN,
         pc = "upload" => server.state # "none",
         syncs' = [syncs EXCEPT ![s].pc = pc, ![s].safe = safe]
         \/ syncs' = [syncs EXCEPT ![s].pc = pc],
         events' \in EventCounts,
         UNCHANGED <<row, chunks, capture, server, mover, audio>>
  PROVE  RecordingInv'
<1>1. syncs[s] \in SyncState
  BY DEF RecordingInv, TypeInv
<1>2. PICK a : /\ a \in {[syncs[s] EXCEPT !.pc = pc, !.safe = safe], [syncs[s] EXCEPT !.pc = pc]}
               /\ syncs' = [syncs EXCEPT ![s] = a]
  BY DEF RecordingInv, TypeInv
<1>3. a \in SyncState /\ a.pc = pc /\ a.row = syncs[s].row
  BY <1>1, <1>2 DEF SyncState, SyncPlaces
<1>4. Started(a.row)
  BY <1>3, CopyOfRow
<1>5. SyncInv(a)
  BY <1>3, <1>4 DEF SyncInv
<1>6. ~Fresh(row)
  BY WorkMeansCaptured
<1>7. QED
  BY <1>2, <1>3, <1>5, <1>6, LocalKeeps

LEMMA Counted ==
  ASSUME TypeInv, NEW event \in {"losses", "breaks", "moves"}, NEW limit,
         Happen(event, limit)
  PROVE  events' \in EventCounts
<1>1. events \in EventCounts
  BY DEF TypeInv
<1>2. events[event] \in Nat
  BY <1>1 DEF EventCounts
<1>3. events[event] + 1 \in Nat
  BY <1>2
<1>4. events' = [events EXCEPT ![event] = events[event] + 1]
  BY DEF Happen
<1>5. QED
  BY <1>1, <1>3, <1>4 DEF EventCounts

LEMMA PrepareKeeps == ASSUME RecordingInv, NEW s \in Syncs, Prepare(s) PROVE RecordingInv'
<1>1. events' \in EventCounts
  <2>1. CASE UNCHANGED events
    BY <2>1 DEF RecordingInv, TypeInv
  <2>2. CASE Happen("losses", MaxLosses)
    BY <2>2, Counted DEF RecordingInv
  <2>3. QED
    BY <2>1, <2>2 DEF Prepare
<1>2. syncs[s].pc = "prepare" /\ server.state # "none"
  BY DEF Prepare, RecordingInv, SyncsInv, SyncInv
<1>3. PICK pc \in {"failing", "upload"}, safe \in BOOLEAN :
         \/ syncs' = [syncs EXCEPT ![s].pc = pc, ![s].safe = safe]
         \/ syncs' = [syncs EXCEPT ![s].pc = pc]
  BY DEF Prepare, Goto, FailSync
<1>4. UNCHANGED <<row, chunks, capture, server, mover, audio>>
  BY DEF Prepare
<1>5. QED
  BY <1>1, <1>2, <1>3, <1>4, GotoKeeps

\* The only step that deletes units: the server has them all.
LEMMA ConfirmKeeps == ASSUME RecordingInv, NEW s \in Syncs, Confirm(s) PROVE RecordingInv'
<1>1. syncs[s].pc = "confirm" /\ server.state = "durable"
  BY DEF Confirm, RecordingInv, SyncsInv, SyncInv
<1>2. PICK a : a = [syncs[s] EXCEPT !.pc = "idle"]
  OBVIOUS
<1>3. a \in SyncState /\ a.pc = "idle"
  BY <1>2 DEF RecordingInv, TypeInv, SyncState, SyncPlaces
<1>4. syncs' = [syncs EXCEPT ![s] = a]
  BY <1>2 DEF Confirm, Goto, RecordingInv, TypeInv
<1>5. Owed' = Owed
  BY DEF Confirm, Owed
<1>6. ServerGrows
  BY ServerRests DEF RecordingInv, Confirm
<1>7. SyncInv(a)'
  BY <1>3 DEF SyncInv
<1>8. SyncsInv' /\ syncs' \in [Syncs -> SyncState]
  BY <1>3, <1>4, <1>5, <1>6, <1>7, ActivityMoves
<1>9. MoverInv'
  BY <1>5, MoverStays DEF RecordingInv, Confirm
<1>10. ~Fresh(row) /\ Started(row) /\ (capture.on => capture.broken)
  BY <1>1, WorkMeansCaptured
<1>11. row \in Rows
  BY DEF RecordingInv, TypeInv
<1>12. row' \in Rows /\ row'.next = row.next /\ row'.state = "transcription_pending"
  BY <1>11 DEF Confirm, Rows, States, ServerStates
<1>13. TypeInv'
  BY <1>8, <1>12 DEF RecordingInv, TypeInv, Confirm
<1>14. RowInv'
  BY <1>5, <1>10, <1>12 DEF RowInv, Started, Covers, Fresh
<1>15. ControlInv'
  BY <1>5, <1>10 DEF RecordingInv, ControlInv, Confirm
<1>16. ServerInv'
  BY <1>1, <1>5 DEF RecordingInv, ServerInv, Whole, Confirm
<1>17. QED
  BY <1>8, <1>9, <1>13, <1>14, <1>15, <1>16 DEF RecordingInv

-----------------------------------------------------------------------------
(* Its calls of the server.                                                  *)

\* What a request may do on the server, whether or not its answer arrives.
LEMMA ServedGrows ==
  ASSUME RecordingInv, NEW s \in Syncs, syncs[s].pc \in Calls,
         server' = server \/ server' = Served(s), UNCHANGED <<chunks, audio>>
  PROVE  ServerGrows /\ ServerInv'
<1>1. DOMAIN server = {"state", "accepted", "request", "day"} /\ server.state \in ServerStates
  BY DEF RecordingInv, TypeInv
<1>2. Owed' = Owed
  BY DEF Owed
<1>3. Started(syncs[s].row) /\ syncs[s].row \in Rows
  BY CopyOfRow DEF Calls
<1>4. Owed \subseteq Units(syncs[s].row)
  <2>1. SUFFICES ASSUME NEW u \in Owed PROVE u \in 0..(syncs[s].row.next - 1)
    BY DEF Units
  <2>2. u \in Nat /\ u < syncs[s].row.next
    BY <1>3 DEF Started, Covers, Owed, RecordingInv, TypeInv
  <2>3. syncs[s].row.next \in Nat
    BY <1>3 DEF Rows
  <2>4. QED
    BY <2>2, <2>3
<1>5. CASE server' = server
  BY <1>1, <1>2, <1>5 DEF ServerGrows, ServerInv, Whole, RecordingInv
<1>6. CASE server' = Served(s) /\ syncs[s].pc = "create"
  BY <1>1, <1>2, <1>6 DEF ServerGrows, ServerInv, Whole, RecordingInv, Served, ServerStates
<1>7. CASE server' = Served(s) /\ syncs[s].pc = "status"
  BY <1>1, <1>2, <1>7 DEF ServerGrows, ServerInv, Whole, RecordingInv, Served, ServerStates
<1>8. CASE server' = Served(s) /\ syncs[s].pc = "publish"
  BY <1>1, <1>2, <1>8 DEF ServerGrows, ServerInv, Whole, RecordingInv, Served, ServerStates
<1>9. CASE server' = Served(s) /\ syncs[s].pc = "upload"
  BY <1>1, <1>2, <1>4, <1>9
     DEF ServerGrows, ServerInv, Whole, RecordingInv, Served, ServerStates, AllAccepted
<1>10. QED
  BY <1>5, <1>6, <1>7, <1>8, <1>9 DEF Calls

LEMMA AnsweredKeeps ==
  ASSUME RecordingInv, NEW s \in Syncs, syncs[s].pc \in Calls, server' = Served(s), ~Refused(s),
         Answered(s), UNCHANGED <<row, chunks, capture, mover, audio, events>>
  PROVE  RecordingInv'
<1> DEFINE call == syncs[s]
           next == CASE call.pc = "create" -> "created"
                     [] call.pc = "status" -> "seen"
                     [] call.pc = "upload" -> IF call.left = {} THEN "publish" ELSE "uploaded"
                     [] call.pc = "publish" -> "confirm"
           seen == IF call.pc \in {"create", "status"} THEN server'.state ELSE call.seen
           left == CASE call.pc = "status" -> Units(call.row) \ server.accepted
                     [] call.pc = "upload" /\ call.left # {} -> call.left \ {NextUnit(s)}
                     [] OTHER -> call.left
<1>1. syncs[s] \in SyncState /\ SyncInv(syncs[s])
  BY DEF RecordingInv, TypeInv, SyncsInv
<1>2. PICK pc, sn, lf : pc = next /\ sn = seen /\ lf = left
  OBVIOUS
<1>3. PICK a : a = [syncs[s] EXCEPT !.pc = pc, !.seen = sn, !.left = lf]
  OBVIOUS
<1>4. syncs' = [syncs EXCEPT ![s] = a]
  <2>1. syncs' = [syncs EXCEPT ![s].pc = pc, ![s].seen = sn, ![s].left = lf]
    BY <1>2, Zenon DEF Answered
  <2>2. syncs \in [Syncs -> SyncState]
    BY DEF RecordingInv, TypeInv
  <2>3. QED
    BY <1>3, <2>1, <2>2
<1>5. ServerGrows /\ ServerInv'
  BY ServedGrows
<1>6. pc \in SyncPlaces
  BY <1>2 DEF Calls, SyncPlaces
<1>7. sn \in ServerStates
  BY <1>1, <1>2, <1>5 DEF SyncState, ServerGrows
<1>8. lf \in SUBSET Nat
  <2>1. call.row.next \in Nat /\ call.left \in SUBSET Nat
    BY <1>1 DEF SyncState, Rows
  <2>2. Units(call.row) \subseteq Nat
    BY <2>1 DEF Units
  <2>3. QED
    BY <1>2, <2>1, <2>2 DEF Calls
<1>9. a \in SyncState
  BY <1>1, <1>3, <1>6, <1>7, <1>8 DEF SyncState
<1>10. a.pc = pc /\ a.seen = sn /\ a.row = syncs[s].row
  BY <1>1, <1>3 DEF SyncState
<1>11. Started(syncs[s].row) /\ ~Fresh(row)
  BY CopyOfRow, WorkMeansCaptured DEF Calls
<1>12. Started(a.row)'
  BY <1>10, <1>11 DEF Started, Covers, Fresh, Owed
<1>13. DOMAIN server = {"state", "accepted", "request", "day"} /\ server.state \in ServerStates
  BY DEF RecordingInv, TypeInv
<1>14. SyncInv(a)'
  <2>1. CASE call.pc = "create"
    BY <2>1, <1>2, <1>10, <1>12 DEF SyncInv
  <2>2. CASE call.pc = "status"
    BY <2>2, <1>2, <1>10, <1>12 DEF SyncInv, Refused, Served, Whole
  <2>3. CASE call.pc = "upload" /\ call.left # {}
    BY <2>3, <1>1, <1>2, <1>5, <1>10, <1>12 DEF SyncInv, ServerGrows
  <2>4. CASE call.pc = "upload" /\ call.left = {}
    <3>1. pc = "publish" /\ server.state # "none" /\ AllAccepted(s)
      BY <2>4, <1>1, <1>2 DEF SyncInv, Refused
    <3>2. Whole(server'.state)
      BY <3>1, <2>4, <1>13 DEF Served, Whole, ServerStates
    <3>3. QED
      BY <3>1, <3>2, <1>10, <1>12 DEF SyncInv
  <2>5. CASE call.pc = "publish"
    <3>1. pc = "confirm" /\ Whole(server.state)
      BY <2>5, <1>1, <1>2 DEF SyncInv
    <3>2. server'.state = "durable"
      BY <3>1, <2>5, <1>13 DEF Served, Whole
    <3>3. QED
      BY <3>1, <3>2, <1>10, <1>12 DEF SyncInv
  <2>6. QED
    BY <2>1, <2>2, <2>3, <2>4, <2>5 DEF Calls
<1>15. QED
  BY <1>4, <1>5, <1>9, <1>11, <1>14, ActivityKeeps DEF RecordingInv, TypeInv

\* A refused or lost request may have been served all the same.
LEMMA FailedCallKeeps ==
  ASSUME RecordingInv, NEW s \in Syncs, syncs[s].pc \in Calls,
         server' = server \/ server' = Served(s), NEW safe \in BOOLEAN, FailSync(s, safe),
         UNCHANGED <<row, chunks, capture, mover, audio>>, events' \in EventCounts
  PROVE  RecordingInv'
<1>1. syncs[s] \in SyncState
  BY DEF RecordingInv, TypeInv
<1>2. PICK a : a = [syncs[s] EXCEPT !.pc = "failing", !.safe = safe]
  OBVIOUS
<1>3. a \in SyncState /\ a.pc = "failing" /\ a.row = syncs[s].row
  BY <1>1, <1>2 DEF SyncState, SyncPlaces
<1>4. syncs' = [syncs EXCEPT ![s] = a]
  BY <1>2 DEF FailSync, RecordingInv, TypeInv
<1>5. ServerGrows /\ ServerInv'
  BY ServedGrows
<1>6. Started(syncs[s].row) /\ ~Fresh(row)
  BY CopyOfRow, WorkMeansCaptured DEF Calls
<1>7. SyncInv(a)'
  BY <1>3, <1>6 DEF SyncInv, Started, Covers, Fresh, Owed
<1>8. QED
  BY <1>3, <1>4, <1>5, <1>6, <1>7, ActivityKeeps

LEMMA CallKeeps == ASSUME RecordingInv, NEW s \in Syncs, Call(s) PROVE RecordingInv'
<1>1. /\ syncs[s].pc \in Calls
      /\ server' = Served(s)
      /\ UNCHANGED <<row, chunks, capture, mover, audio, events>>
  BY DEF Call
<1>2. CASE Refused(s)
  <2>1. FailSync(s, SafeToRetry(TRUE)) /\ SafeToRetry(TRUE) \in BOOLEAN
    BY <1>2 DEF Call, SafeToRetry
  <2>2. QED
    BY <1>1, <2>1, FailedCallKeeps DEF RecordingInv, TypeInv
<1>3. CASE ~Refused(s)
  BY <1>1, <1>3, AnsweredKeeps DEF Call
<1>4. QED
  BY <1>2, <1>3

LEMMA LoseCallKeeps == ASSUME RecordingInv, NEW s \in Syncs, LoseCall(s) PROVE RecordingInv'
<1>1. /\ syncs[s].pc \in Calls
      /\ server' = server \/ server' = Served(s)
      /\ FailSync(s, SafeToRetry(FALSE)) /\ SafeToRetry(FALSE) \in BOOLEAN
      /\ UNCHANGED <<row, chunks, capture, mover, audio>>
  BY DEF LoseCall, SafeToRetry
<1>2. events' \in EventCounts
  BY Counted DEF LoseCall, RecordingInv
<1>3. QED
  BY <1>1, <1>2, FailedCallKeeps

LEMMA AbortKeeps == ASSUME RecordingInv, NEW s \in Syncs, Abort(s) PROVE RecordingInv'
<1>1. NoRecording \in Rows
  BY DEF NoRecording, Rows, States, ServerStates
<1>2. IdleSync \in SyncState /\ IdleSync.pc = "idle"
  BY <1>1 DEF IdleSync, SyncState, SyncPlaces, ServerStates
<1>3. SyncInv(IdleSync)'
  BY DEF SyncInv, IdleSync
<1>4. ServerGrows /\ ServerInv'
  <2>1. CASE syncs[s].pc \in Calls
    BY <2>1, ServedGrows DEF Abort
  <2>2. CASE syncs[s].pc \notin Calls
    <3>1. UNCHANGED <<server, chunks, audio>>
      BY <2>2 DEF Abort
    <3>2. ServerInv'
      BY <3>1 DEF RecordingInv, ServerInv, Whole, Owed
    <3>3. QED
      BY <3>1, <3>2, ServerRests DEF RecordingInv
  <2>3. QED
    BY <2>1, <2>2
<1>5. events' \in EventCounts
  BY Counted DEF Abort, RecordingInv
<1>6. ~Fresh(row)
  BY WorkMeansCaptured DEF Abort
<1>7. QED
  BY <1>2, <1>3, <1>4, <1>5, <1>6, ActivityKeeps DEF Abort

-----------------------------------------------------------------------------
(* A move to another day.                                                    *)

LEMMA MoveReadKeeps == RecordingInv /\ MoveRead => RecordingInv'
<1> SUFFICES ASSUME RecordingInv, MoveRead PROVE RecordingInv'
  OBVIOUS
<1>1. ~Fresh(row) /\ Started(row) /\ row \in Rows
  BY DEF MoveRead, Fresh, Started, RecordingInv, RowInv, TypeInv
<1>2. events.moves + 1 \in Nat
  BY DEF RecordingInv, TypeInv, EventCounts
<1>3. mover' \in MoverState /\ mover'.row = row
  BY <1>1, <1>2 DEF MoveRead, MoverState
<1>4. Owed' = Owed
  BY DEF MoveRead, Owed
<1>5. Started(row)' /\ MoverInv'
  BY <1>1, <1>3, <1>4 DEF MoverInv, Started, Covers, Fresh, MoveRead
<1>6. events' \in EventCounts
  BY Counted DEF MoveRead, RecordingInv
<1>7. SyncsInv'
  BY <1>4, SyncsStay, ServerRests DEF RecordingInv, MoveRead
<1>8. QED
  BY <1>1, <1>3, <1>4, <1>5, <1>6, <1>7, RowStored DEF MoveRead, RecordingInv, TypeInv

LEMMA MoveCallKeeps == RecordingInv /\ MoveCall => RecordingInv'
<1> SUFFICES ASSUME RecordingInv, MoveCall PROVE RecordingInv'
  OBVIOUS
<1>1. ~Fresh(row) /\ Started(mover.row)
  BY DEF MoveCall, Fresh, RecordingInv, RowInv, MoverInv
<1>2. Owed' = Owed
  BY DEF MoveCall, Owed
<1>3. mover \in MoverState
  BY DEF RecordingInv, TypeInv
<1>4. mover' \in MoverState /\ mover'.row = mover.row
  BY <1>3 DEF MoveCall, MoverState
<1>5. /\ DOMAIN server' = DOMAIN server /\ server'.state = server.state
      /\ server'.accepted = server.accepted
  BY DEF MoveCall, RecordingInv, TypeInv
<1>6. ServerGrows
  BY <1>5 DEF ServerGrows, RecordingInv, TypeInv, Whole
<1>7. TypeInv'
  BY <1>4, <1>5 DEF RecordingInv, TypeInv, MoveCall
<1>8. RowInv'
  BY <1>1, <1>2 DEF RecordingInv, RowInv, Covers, Fresh, MoveCall
<1>9. ControlInv'
  BY <1>2 DEF RecordingInv, ControlInv, MoveCall
<1>10. SyncsInv'
  BY <1>2, <1>6, SyncsStay DEF RecordingInv, MoveCall
<1>11. MoverInv'
  BY <1>1, <1>2, <1>4 DEF MoverInv, Started, Covers, Fresh
<1>12. ServerInv'
  BY <1>2, <1>5 DEF RecordingInv, ServerInv, Whole, MoveCall
<1>13. QED
  BY <1>7, <1>8, <1>9, <1>10, <1>11, <1>12 DEF RecordingInv

LEMMA MovePutKeeps == RecordingInv /\ MovePut => RecordingInv'
<1> SUFFICES ASSUME RecordingInv, MovePut PROVE RecordingInv'
  OBVIOUS
<1>1. ~Fresh(row) /\ Started(mover.row)
  BY DEF MovePut, Fresh, RecordingInv, RowInv, MoverInv
<1>2. mover \in MoverState
  BY DEF RecordingInv, TypeInv
<1>3. mover.row \in Rows /\ mover.day \in Nat
  BY <1>2 DEF MoverState
<1>4. row' \in Rows /\ row'.next = mover.row.next /\ row'.state = mover.row.state
  BY <1>3 DEF MovePut, Rows
<1>5. Owed' = Owed
  BY DEF MovePut, Owed
<1>6. Started(row)'
  BY <1>1, <1>4, <1>5 DEF Started, Covers, Fresh
<1>7. NoRecording \in Rows
  BY DEF NoRecording, Rows, States, ServerStates
<1>8. mover' \in MoverState /\ MoverInv'
  BY <1>7 DEF MovePut, IdleMove, MoverState, MoverInv
<1>9. events' \in EventCounts
  <2>1. events \in EventCounts
    BY DEF RecordingInv, TypeInv
  <2>2. PICK raced \in BOOLEAN :
          events' = [events EXCEPT !.moved = mover.day, !.raced = raced]
    BY <2>1 DEF MovePut, EventCounts
  <2>3. QED
    BY <2>1, <2>2, <1>3 DEF EventCounts
<1>10. SyncsInv'
  BY <1>5, SyncsStay, ServerRests DEF RecordingInv, MovePut
<1>11. QED
  BY <1>1, <1>4, <1>5, <1>6, <1>8, <1>9, <1>10, RowStored DEF MovePut, RecordingInv, TypeInv

-----------------------------------------------------------------------------
LEMMA RecordingInvNext == RecordingInv /\ [SyncNext]_syncVars => RecordingInv'
<1> SUFFICES ASSUME RecordingInv, [SyncNext]_syncVars PROVE RecordingInv'
  OBVIOUS
<1>1. CASE StartCapture \/ Emit \/ UnitFails \/ RecorderError \/ StopCapture \/ CloseCapture
  BY <1>1, StartCaptureKeeps, EmitKeeps, UnitFailsKeeps, RecorderErrorKeeps,
     StopCaptureKeeps, CloseCaptureKeeps
<1>2. CASE CaptureStep
  BY <1>2, BeginUnitKeeps, CommitUnitKeeps, UnitSavedKeeps, FinishCaptureKeeps DEF CaptureStep
<1>3. ASSUME NEW s \in Syncs, Resume(s) \/ RetryRead(s) \/ LoseCall(s) \/ Abort(s)
      PROVE  RecordingInv'
  BY <1>3, ResumeKeeps, RetryReadKeeps, LoseCallKeeps, AbortKeeps
<1>4. ASSUME NEW s \in Syncs, SyncStep(s)
      PROVE  RecordingInv'
  BY <1>4, RetryResetKeeps, ReadKeeps, ClaimKeeps, CallKeeps, SaveCreatedKeeps,
     SaveStatusKeeps, PrepareKeeps, SaveProgressKeeps, SaveFailureKeeps, ConfirmKeeps
     DEF SyncStep
<1>5. CASE MoveRead \/ MoveCall \/ MovePut
  BY <1>5, MoveReadKeeps, MoveCallKeeps, MovePutKeeps
<1>6. CASE UNCHANGED syncVars
  BY <1>6 DEF syncVars, RecordingInv, TypeInv, RowInv, ControlInv, SyncsInv, SyncInv, MoverInv,
     ServerInv, Covers, Started, Fresh, Owed, Whole
<1>7. QED
  BY <1>1, <1>2, <1>3, <1>4, <1>5, <1>6 DEF SyncNext

\* The inductive invariant of the capture, the activities, the mover and the server.
THEOREM SyncInvariant == SyncSpec => []RecordingInv
<1>1. SyncInit => RecordingInv
  BY RecordingInvInit
<1>2. RecordingInv /\ [SyncNext]_syncVars => RecordingInv'
  BY RecordingInvNext
<1>3. QED
  BY <1>1, <1>2, PTL DEF SyncSpec

\* Whatever is lost, closed or refused, and however the activities, the capture and a
\* move overlap, a unit the browser called saved stays in IndexedDB until it is part of
\* durable audio on the server (sync-controller.ts, indexed-db.ts).
THEOREM SavedAudioIsKept == SyncSpec => []AudioKept
<1>1. RecordingInv => AudioKept
  BY RecordingInvImplies
<1>2. QED
  BY <1>1, SyncInvariant, PTL

-----------------------------------------------------------------------------
(* Where the recording is filed.                                              *)

\* Moves are made one after the other, and only of a recording that has ended.
MovesInv ==
    /\ mover.pc = "idle" => events.moved = events.moves
    /\ mover.pc # "idle" => mover.day = events.moves /\ events.moves = events.moved + 1
    /\ Fresh(row) => events.moves = 0 /\ ~row.created
    /\ mover.pc = "call" => mover.row.created

OnServer == server.state # "none"

\* What counts as created was created on the server.
Founded(r) ==
    /\ r.created => OnServer
    /\ r.state = "transcription_pending" => r.created
Active(s) == syncs[s].pc \notin {"idle", "start"}
\* An activity that has met its upload.
Past == {"created", "status", "seen", "prepare", "upload", "uploaded", "publish", "confirm"}

FoundedInv ==
    /\ Founded(row)
    /\ \A s \in Syncs : Active(s) => Founded(syncs[s].row)
    /\ \A s \in Syncs : syncs[s].pc \in Past => OnServer
    /\ mover.pc # "idle" => Founded(mover.row)
    /\ capture.on /\ capture.row.created => OnServer

\* The mover has told the server; the row is still to be stored.
Called == mover.pc = "put" /\ mover.row.created
Filed == server.day = events.moved \/ Called

\* Until a move meets another writer of the row, every copy of it shows the day of
\* the last move, and an upload that can still be confirmed is filed under it.
DayInv ==
    /\ row.day = events.moved
    /\ \A s \in Syncs : Active(s) => syncs[s].row.day = events.moved
    /\ capture.on => events.moved = 0 /\ capture.row.day = 0
    /\ server.request \in Nat /\ server.request <= events.moved
    /\ OnServer /\ server.request = events.moved => Filed
    /\ row.created => Filed
    /\ \A s \in Syncs : (Active(s) /\ syncs[s].row.created) \/ syncs[s].pc \in Past => Filed
    /\ capture.on /\ capture.row.created => Filed

MoveInv ==
    /\ MovesInv
    /\ FoundedInv
    /\ Called => server.day = mover.day
    /\ ~events.raced => DayInv

LEMMA MoveTypes ==
  ASSUME RecordingInv
  PROVE  /\ events.moves \in Nat /\ events.moved \in Nat /\ events.raced \in BOOLEAN
         /\ row \in Rows /\ mover.row \in Rows /\ capture.row \in Rows
         /\ \A s \in Syncs : syncs[s] \in SyncState /\ syncs[s].row \in Rows
         /\ DOMAIN server = {"state", "accepted", "request", "day"}
  BY DEF RecordingInv, TypeInv, EventCounts, MoverState, CaptureState, SyncState

LEMMA MoveInvInit == SyncInit => MoveInv
  BY DEF SyncInit, MoveInv, MovesInv, FoundedInv, DayInv, Founded, Active, OnServer, Called, Filed,
     Past, Fresh, NoRecording, IdleSync, IdleMove

LEMMA MoveInvImplies == MoveInv => MoveStands
<1> SUFFICES ASSUME MoveInv, row.state = "transcription_pending", Quiet, ~events.raced
             PROVE  server.day = events.moved
  BY DEF MoveStands
<1>1. row.created /\ DayInv
  BY DEF MoveInv, FoundedInv, Founded
<1>2. QED
  BY <1>1 DEF DayInv, Filed, Called, Quiet

SameMoves ==
    /\ events'.moved = events.moved
    /\ events'.moves = events.moves
    /\ events'.raced = events.raced

LEMMA EventMoves ==
  ASSUME RecordingInv, NEW event \in {"losses", "breaks"}, NEW limit, Happen(event, limit)
  PROVE  SameMoves
  BY DEF Happen, SameMoves, RecordingInv, TypeInv, EventCounts

-----------------------------------------------------------------------------
(* The capture.                                                              *)

LEMMA CaptureMoves ==
  ASSUME RecordingInv, MoveInv, UNCHANGED <<server, syncs, mover>>, SameMoves,
         row'.created => row.created \/ (capture.on /\ capture.row.created),
         row'.state = "transcription_pending" => row'.created,
         ~events.raced => row'.day = events.moved,
         Fresh(row)' => events.moves = 0 /\ ~row'.created,
         capture'.on /\ capture'.row.created =>
             row.created \/ (capture.on /\ capture.row.created),
         ~events.raced /\ capture'.on => events.moved = 0 /\ capture'.row.day = 0
  PROVE  MoveInv'
<1>1. MovesInv'
  BY DEF MoveInv, MovesInv, SameMoves
<1>2. FoundedInv'
  BY DEF MoveInv, FoundedInv, Founded, Active, OnServer
<1>3. (Called => server.day = mover.day)'
  BY DEF MoveInv, Called
<1>4. ASSUME ~events.raced PROVE DayInv'
  <2>1. DayInv
    BY <1>4 DEF MoveInv
  <2>2. Filed' <=> Filed
    BY DEF Filed, Called, SameMoves
  <2>3. QED
    BY <1>4, <2>1, <2>2 DEF DayInv, Active, OnServer, SameMoves
<1>5. QED
  BY <1>1, <1>2, <1>3, <1>4 DEF MoveInv, SameMoves

LEMMA CaptureFacts ==
  ASSUME MoveInv
  PROVE  /\ row.state = "transcription_pending" => row.created
         /\ Fresh(row) => events.moves = 0 /\ ~row.created
         /\ ~events.raced => row.day = events.moved
         /\ ~events.raced /\ capture.on => events.moved = 0 /\ capture.row.day = 0
  BY DEF MoveInv, MovesInv, FoundedInv, Founded, DayInv

\* Steps that leave the row and the controller's copy of it alone.
LEMMA CaptureRests ==
  ASSUME RecordingInv, MoveInv, UNCHANGED <<row, server, syncs, mover>>, SameMoves,
         capture'.row = capture.row, capture'.on => capture.on
  PROVE  MoveInv'
  BY CaptureMoves, CaptureFacts DEF Fresh

LEMMA QuietCaptureMoves ==
  ASSUME RecordingInv, MoveInv, Emit \/ BeginUnit \/ StopCapture \/ CloseCapture
  PROVE  MoveInv'
<1>1. capture \in CaptureState
  BY DEF RecordingInv, TypeInv
<1>2. UNCHANGED <<row, server, syncs, mover>>
  BY DEF Emit, BeginUnit, StopCapture, CloseCapture
<1>3. capture'.row = capture.row /\ (capture'.on => capture.on)
  BY <1>1 DEF CaptureState, Emit, BeginUnit, StopCapture, CloseCapture
<1>4. SameMoves
  BY EventMoves DEF Emit, BeginUnit, StopCapture, CloseCapture, SameMoves
<1>5. QED
  BY <1>2, <1>3, <1>4, CaptureRests

LEMMA UnitSavedMoves ==
  ASSUME RecordingInv, MoveInv, NEW low \in BOOLEAN, UnitSaved(low) PROVE MoveInv'
<1>1. capture'.row = row /\ capture.on
  BY DEF UnitSaved, RecordingInv, TypeInv, CaptureState
<1>2. UNCHANGED <<row, server, syncs, mover>> /\ SameMoves
  BY DEF UnitSaved, SameMoves
<1>3. QED
  BY <1>1, <1>2, CaptureMoves, CaptureFacts DEF Fresh

LEMMA CommitUnitMoves == ASSUME RecordingInv, MoveInv, CommitUnit PROVE MoveInv'
<1>1. row'.created = row.created /\ row'.state = row.state /\ row'.day = row.day
  BY MoveTypes DEF CommitUnit, Rows
<1>2. capture'.row = capture.row /\ capture'.on = capture.on
  BY DEF CommitUnit, RecordingInv, TypeInv, CaptureState
<1>3. UNCHANGED <<server, syncs, mover>> /\ SameMoves
  BY DEF CommitUnit, SameMoves
<1>4. QED
  BY <1>1, <1>2, <1>3, CaptureMoves, CaptureFacts DEF Fresh

LEMMA StartCaptureMoves == ASSUME RecordingInv, MoveInv, StartCapture PROVE MoveInv'
<1>1. Fresh(row) /\ mover.pc = "idle"
  BY DEF StartCapture, NoRecording, Fresh, RecordingInv, RowInv
<1>2. events.moves = 0 /\ events.moved = 0
  BY <1>1 DEF MoveInv, MovesInv
<1>3. PICK r : r = [NoRecording EXCEPT !.state = "recording"]
  OBVIOUS
<1>4. r.created = FALSE /\ r.state = "recording" /\ r.day = 0
  BY <1>3 DEF NoRecording
<1>5. row' = r /\ capture'.row = r
  BY <1>3 DEF StartCapture, RecordingInv, TypeInv, CaptureState
<1>6. UNCHANGED <<server, syncs, mover>> /\ SameMoves
  BY DEF StartCapture, SameMoves
<1>7. QED
  BY <1>2, <1>4, <1>5, <1>6, CaptureMoves DEF Fresh

LEMMA FailCaptureMoves ==
  ASSUME RecordingInv, MoveInv, NEW state \in {"failed", "browser_storage_exhausted"}, NEW write,
         capture.on, FailCapture(state, write), SameMoves, UNCHANGED <<server, syncs, mover>>
  PROVE  MoveInv'
<1>1. PICK r \in Rows : r = capture.row
  BY MoveTypes
<1>2. PICK c : c = [r EXCEPT !.state = state, !.safe = (r.next > 0)]
  OBVIOUS
<1>3. c.created = r.created /\ c.state = state /\ c.day = r.day
  BY <1>2 DEF Rows
<1>4. row' = c /\ capture'.row = c
  BY <1>1, <1>2 DEF FailCapture, RecordingInv, TypeInv, CaptureState
<1>5. QED
  BY <1>1, <1>3, <1>4, CaptureMoves, CaptureFacts DEF Fresh

LEMMA FailingCaptureMoves == ASSUME RecordingInv, MoveInv, UnitFails \/ RecorderError PROVE MoveInv'
<1>1. SameMoves
  BY EventMoves DEF UnitFails, RecorderError, SameMoves
<1>2. QED
  BY <1>1, FailCaptureMoves DEF UnitFails, RecorderError

LEMMA FinishCaptureMoves == ASSUME RecordingInv, MoveInv, FinishCapture PROVE MoveInv'
<1>1. ~capture'.on /\ capture.on
  BY DEF FinishCapture, RecordingInv, TypeInv, CaptureState
<1>2. UNCHANGED <<server, syncs, mover>> /\ SameMoves
  BY DEF FinishCapture, SameMoves
<1>3. CASE capture.broken
  <2>1. row' = row
    BY <1>3 DEF FinishCapture
  <2>2. QED
    BY <1>1, <1>2, <2>1, CaptureMoves, CaptureFacts DEF Fresh
<1>4. CASE ~capture.broken
  <2>1. PICK r \in Rows : r = capture.row
    BY MoveTypes
  <2>2. row' = [r EXCEPT !.state = "saved_locally"]
    BY <1>4, <2>1 DEF FinishCapture
  <2>3. row'.created = r.created /\ row'.state = "saved_locally" /\ row'.day = r.day
    BY <2>2 DEF Rows
  <2>4. QED
    BY <1>1, <1>2, <2>1, <2>3, CaptureMoves, CaptureFacts DEF Fresh
<1>5. QED
  BY <1>3, <1>4

-----------------------------------------------------------------------------
(* The activities.                                                           *)

\* A step of an activity that leaves the row alone.
LEMMA ActivityMovesOn ==
  ASSUME RecordingInv, MoveInv, NEW s \in Syncs, NEW a, syncs' = [syncs EXCEPT ![s] = a],
         UNCHANGED <<row, capture, mover>>, SameMoves,
         \/ server'.request = server.request /\ server'.day = server.day /\ (OnServer' <=> OnServer)
         \/ /\ ~OnServer /\ OnServer' /\ Active(s)
            /\ server'.request = syncs[s].row.day /\ server'.day = syncs[s].row.day,
         a.pc \notin {"idle", "start"} => a.row = row \/ (Active(s) /\ a.row = syncs[s].row),
         a.pc \in Past => OnServer' /\ (~events.raced => Filed')
  PROVE  MoveInv'
<1>1. /\ syncs'[s] = a
      /\ \A o \in Syncs : o # s => syncs'[o] = syncs[o]
  BY DEF RecordingInv, TypeInv
<1>2. MovesInv'
  BY DEF MoveInv, MovesInv, SameMoves, Fresh
<1>3. FoundedInv'
  <2>1. OnServer => OnServer'
    OBVIOUS
  <2>2. ASSUME NEW o \in Syncs
        PROVE  /\ Active(o)' => Founded(syncs[o].row)'
               /\ syncs'[o].pc \in Past => OnServer'
    <3>1. CASE o = s
      BY <1>1, <2>1, <3>1 DEF MoveInv, FoundedInv, Founded, Active
    <3>2. CASE o # s
      BY <1>1, <2>1, <3>2 DEF MoveInv, FoundedInv, Founded, Active
    <3>3. QED
      BY <3>1, <3>2
  <2>3. QED
    BY <2>1, <2>2 DEF MoveInv, FoundedInv, Founded
<1>4. (Called => server.day = mover.day)'
  BY DEF MoveInv, FoundedInv, Founded, Called
<1>5. ASSUME ~events.raced PROVE DayInv'
  <2>1. DayInv
    BY <1>5 DEF MoveInv
  <2>2. events.moved \in Nat /\ row.day \in Nat
    BY MoveTypes DEF Rows
  <2>3. /\ server'.request \in Nat /\ server'.request <= events.moved
        /\ OnServer' /\ server'.request = events.moved => Filed'
        /\ Filed => Filed'
    <3>1. CASE server'.request = server.request /\ server'.day = server.day /\ (OnServer' <=> OnServer)
      BY <2>1, <3>1 DEF DayInv, Filed, Called, SameMoves
    <3>2. CASE Active(s) /\ server'.request = syncs[s].row.day /\ server'.day = syncs[s].row.day
      <4>1. syncs[s].row.day = events.moved
        BY <2>1, <3>2 DEF DayInv
      <4>2. QED
        BY <2>2, <3>2, <4>1 DEF Filed, SameMoves
    <3>3. QED
      BY <3>1, <3>2
  <2>4. ASSUME NEW o \in Syncs
        PROVE  /\ Active(o)' => syncs'[o].row.day = events.moved
               /\ (Active(o)' /\ syncs'[o].row.created) \/ syncs'[o].pc \in Past => Filed'
    <3>1. CASE o = s
      BY <1>1, <1>5, <2>1, <2>3, <3>1 DEF DayInv, Active
    <3>2. CASE o # s
      BY <1>1, <2>1, <2>3, <3>2 DEF DayInv, Active
    <3>3. QED
      BY <3>1, <3>2
  <2>5. QED
    BY <2>1, <2>3, <2>4 DEF DayInv, SameMoves
<1>6. QED
  BY <1>2, <1>3, <1>4, <1>5 DEF MoveInv, SameMoves

LEMMA ServerSame == ASSUME UNCHANGED server PROVE OnServer' <=> OnServer
  BY DEF OnServer

\* Reading the row, and steps to a place that is not past the upload.
LEMMA ReadingMoves ==
  ASSUME RecordingInv, MoveInv, NEW s \in Syncs, Resume(s) \/ RetryRead(s) \/ Read(s)
  PROVE  MoveInv'
<1>1. PICK a : syncs' = [syncs EXCEPT ![s] = a]
               /\ (a.pc = "start" \/ (a.pc \in {"reset", "claim"} /\ a.row = row))
  <2>1. PICK old \in SyncState : old = syncs[s]
    BY MoveTypes
  <2>2. syncs \in [Syncs -> SyncState]
    BY DEF RecordingInv, TypeInv
  <2>3. CASE Resume(s)
    <3>1. PICK a : a = [old EXCEPT !.pc = "start"]
      OBVIOUS
    <3>2. a.pc = "start"
      BY <3>1 DEF SyncState
    <3>3. syncs' = [syncs EXCEPT ![s] = a]
      BY <2>1, <2>2, <2>3, <3>1 DEF Resume, Goto
    <3>4. QED
      BY <3>2, <3>3
  <2>4. CASE RetryRead(s)
    <3>1. PICK a : a = [old EXCEPT !.pc = "reset", !.row = row]
      OBVIOUS
    <3>2. a.pc = "reset" /\ a.row = row
      BY <3>1 DEF SyncState
    <3>3. syncs' = [syncs EXCEPT ![s] = a]
      BY <2>1, <2>2, <2>4, <3>1 DEF RetryRead
    <3>4. QED
      BY <3>2, <3>3
  <2>5. CASE Read(s)
    <3>1. PICK a : a = [old EXCEPT !.pc = "claim", !.row = row]
      OBVIOUS
    <3>2. a.pc = "claim" /\ a.row = row
      BY <3>1 DEF SyncState
    <3>3. syncs' = [syncs EXCEPT ![s] = a]
      BY <2>1, <2>2, <2>5, <3>1 DEF Read
    <3>4. QED
      BY <3>2, <3>3
  <2>6. QED
    BY <2>3, <2>4, <2>5
<1>2. UNCHANGED <<row, capture, mover, server, events>>
  BY DEF Resume, RetryRead, Read, Local
<1>3. a.pc \notin Past
  BY <1>1 DEF Past
<1>4. QED
  BY <1>1, <1>2, <1>3, ServerSame, ActivityMovesOn DEF SameMoves

LEMMA PrepareMoves == ASSUME RecordingInv, MoveInv, NEW s \in Syncs, Prepare(s) PROVE MoveInv'
<1>1. PICK old \in SyncState : old = syncs[s] /\ old.pc = "prepare"
  BY MoveTypes DEF Prepare
<1>2. PICK pc \in {"upload", "failing"}, safe \in BOOLEAN :
        syncs' = [syncs EXCEPT ![s].pc = pc] \/ syncs' = [syncs EXCEPT ![s].pc = pc, ![s].safe = safe]
  BY DEF Prepare, Goto, FailSync
<1>3. PICK a : /\ a \in {[old EXCEPT !.pc = pc], [old EXCEPT !.pc = pc, !.safe = safe]}
               /\ syncs' = [syncs EXCEPT ![s] = a]
  BY <1>1, <1>2 DEF RecordingInv, TypeInv
<1>4. a.pc = pc /\ a.row = old.row
  BY <1>3 DEF SyncState
<1>5. UNCHANGED <<row, capture, mover, server>> /\ SameMoves
  BY EventMoves DEF Prepare, SameMoves
<1>6. Active(s) /\ syncs[s].pc \in Past
  BY <1>1 DEF Active, Past
<1>7. OnServer' /\ (~events.raced => Filed')
  BY <1>5, <1>6 DEF MoveInv, FoundedInv, DayInv, Filed, Called, OnServer, SameMoves
<1>8. QED
  BY <1>1, <1>3, <1>4, <1>5, <1>6, <1>7, ServerSame, ActivityMovesOn

\* What a call may do on the server.
LEMMA ServedMoves ==
  ASSUME RecordingInv, NEW s \in Syncs, syncs[s].pc \in Calls,
         server' = server \/ server' = Served(s)
  PROVE  \/ server'.request = server.request /\ server'.day = server.day /\ (OnServer' <=> OnServer)
         \/ /\ ~OnServer /\ OnServer' /\ Active(s) /\ syncs[s].pc = "create"
            /\ server'.request = syncs[s].row.day /\ server'.day = syncs[s].row.day
<1>1. DOMAIN server = {"state", "accepted", "request", "day"}
  BY MoveTypes
<1>2. CASE server' = server
  BY <1>2 DEF OnServer
<1>3. CASE server' = Served(s) /\ syncs[s].pc = "create"
  BY <1>1, <1>3 DEF Served, OnServer, Active
<1>4. CASE server' = Served(s) /\ syncs[s].pc = "status"
  BY <1>1, <1>4 DEF Served, OnServer
<1>5. CASE server' = Served(s) /\ syncs[s].pc = "upload"
  BY <1>1, <1>5 DEF Served, OnServer
<1>6. CASE server' = Served(s) /\ syncs[s].pc = "publish"
  BY <1>1, <1>6 DEF Served, OnServer
<1>7. QED
  BY <1>2, <1>3, <1>4, <1>5, <1>6 DEF Calls

\* A request that failed, and an activity that ended.
LEMMA FailedCallMoves ==
  ASSUME RecordingInv, MoveInv, NEW s \in Syncs, syncs[s].pc \in Calls,
         server' = server \/ server' = Served(s), NEW safe \in BOOLEAN, FailSync(s, safe),
         UNCHANGED <<row, capture, mover>>, SameMoves
  PROVE  MoveInv'
<1>1. PICK old \in SyncState : old = syncs[s]
  BY MoveTypes
<1>2. PICK a : a = [old EXCEPT !.pc = "failing", !.safe = safe]
  OBVIOUS
<1>3. a.pc = "failing" /\ a.row = old.row
  BY <1>2 DEF SyncState
<1>4. syncs' = [syncs EXCEPT ![s] = a]
  BY <1>1, <1>2 DEF FailSync, RecordingInv, TypeInv
<1>5. Active(s) /\ a.pc \notin Past
  BY <1>3 DEF Active, Calls, Past
<1>6. QED
  BY <1>1, <1>3, <1>4, <1>5, ServedMoves, ActivityMovesOn

LEMMA AnsweredMoves ==
  ASSUME RecordingInv, MoveInv, NEW s \in Syncs, syncs[s].pc \in Calls, server' = Served(s),
         ~Refused(s), Answered(s), UNCHANGED <<row, capture, mover>>, SameMoves
  PROVE  MoveInv'
<1>1. PICK old \in SyncState : old = syncs[s]
  BY MoveTypes
<1>2. PICK pc, seen, left :
        /\ pc = CASE syncs[s].pc = "create" -> "created"
                  [] syncs[s].pc = "status" -> "seen"
                  [] syncs[s].pc = "upload" -> IF syncs[s].left = {} THEN "publish" ELSE "uploaded"
                  [] syncs[s].pc = "publish" -> "confirm"
        /\ seen = IF syncs[s].pc \in {"create", "status"} THEN server'.state ELSE syncs[s].seen
        /\ left = CASE syncs[s].pc = "status" -> Units(syncs[s].row) \ server.accepted
                    [] syncs[s].pc = "upload" /\ syncs[s].left # {} -> syncs[s].left \ {NextUnit(s)}
                    [] OTHER -> syncs[s].left
  OBVIOUS
<1>9. syncs' = [syncs EXCEPT ![s].pc = pc, ![s].seen = seen, ![s].left = left]
  BY <1>2, Zenon DEF Answered
<1>3. PICK a : a = [old EXCEPT !.pc = pc, !.seen = seen, !.left = left]
  OBVIOUS
<1>4. a.pc = pc /\ a.row = old.row
  BY <1>3 DEF SyncState
<1>5. syncs' = [syncs EXCEPT ![s] = a]
  BY <1>1, <1>3, <1>9 DEF RecordingInv, TypeInv
<1>6. Active(s)
  BY DEF Active, Calls
<1>7. OnServer' /\ (~events.raced => Filed')
  <2>1. CASE syncs[s].pc # "create"
    <3>1. syncs[s].pc \in Past
      BY <2>1 DEF Calls, Past
    <3>2. OnServer /\ (~events.raced => Filed)
      BY <3>1 DEF MoveInv, FoundedInv, DayInv
    <3>3. QED
      BY <2>1, <3>2, ServedMoves DEF Filed, Called, SameMoves
  <2>2. CASE syncs[s].pc = "create" /\ OnServer
    <3>1. server' = server /\ server.request = syncs[s].row.day
      BY <2>2 DEF Served, Refused, OnServer
    <3>2. ~events.raced => syncs[s].row.day = events.moved /\ Filed
      BY <1>6, <2>2, <3>1 DEF MoveInv, DayInv
    <3>3. QED
      BY <2>2, <3>1, <3>2 DEF Filed, Called, SameMoves, OnServer
  <2>3. CASE syncs[s].pc = "create" /\ ~OnServer
    <3>1. server'.day = syncs[s].row.day /\ OnServer'
      BY <2>3, MoveTypes DEF Served, OnServer
    <3>2. ~events.raced => syncs[s].row.day = events.moved
      BY <1>6 DEF MoveInv, DayInv
    <3>3. QED
      BY <3>1, <3>2 DEF Filed, SameMoves
  <2>4. QED
    BY <2>1, <2>2, <2>3
<1>8. QED
  BY <1>1, <1>4, <1>5, <1>6, <1>7, ServedMoves, ActivityMovesOn

LEMMA CallMoves == ASSUME RecordingInv, MoveInv, NEW s \in Syncs, Call(s) PROVE MoveInv'
<1>1. /\ syncs[s].pc \in Calls /\ server' = Served(s)
      /\ UNCHANGED <<row, capture, mover>> /\ SameMoves
  BY DEF Call, SameMoves
<1>2. CASE Refused(s)
  <2>1. PICK safe \in BOOLEAN : FailSync(s, safe)
    BY <1>2 DEF Call, SafeToRetry
  <2>2. QED
    BY <1>1, <2>1, FailedCallMoves
<1>3. CASE ~Refused(s)
  BY <1>1, <1>3, AnsweredMoves DEF Call
<1>4. QED
  BY <1>2, <1>3

LEMMA LoseCallMoves == ASSUME RecordingInv, MoveInv, NEW s \in Syncs, LoseCall(s) PROVE MoveInv'
<1>1. /\ syncs[s].pc \in Calls /\ (server' = server \/ server' = Served(s))
      /\ UNCHANGED <<row, capture, mover>>
  BY DEF LoseCall
<1>2. SameMoves
  BY EventMoves DEF LoseCall
<1>3. PICK safe \in BOOLEAN : FailSync(s, safe)
  BY DEF LoseCall, SafeToRetry
<1>4. QED
  BY <1>1, <1>2, <1>3, FailedCallMoves

LEMMA AbortMoves == ASSUME RecordingInv, MoveInv, NEW s \in Syncs, Abort(s) PROVE MoveInv'
<1>1. PICK a : a = IdleSync
  OBVIOUS
<1>2. a.pc = "idle" /\ a.pc \notin Past
  BY <1>1 DEF IdleSync, Past
<1>3. syncs' = [syncs EXCEPT ![s] = a] /\ UNCHANGED <<row, capture, mover>>
  BY <1>1 DEF Abort
<1>4. SameMoves
  BY EventMoves DEF Abort
<1>5. CASE syncs[s].pc \in Calls
  <2>1. server' = server \/ server' = Served(s)
    BY <1>5 DEF Abort
  <2>2. QED
    BY <1>2, <1>3, <1>4, <1>5, <2>1, ServedMoves, ActivityMovesOn
<1>6. CASE syncs[s].pc \notin Calls
  <2>1. server' = server
    BY <1>6 DEF Abort
  <2>2. QED
    BY <1>2, <1>3, <1>4, <2>1, ServerSame, ActivityMovesOn
<1>7. QED
  BY <1>5, <1>6

\* An activity stores its own copy.
LEMMA StoreMoves ==
  ASSUME RecordingInv, MoveInv, NEW s \in Syncs, Active(s), NEW copy, NEW pc, Store(s, copy, pc),
         copy.day = syncs[s].row.day, ~Fresh(copy),
         copy.created => syncs[s].row.created \/ syncs[s].pc \in Past,
         copy.state = "transcription_pending" => copy.created,
         pc \in Past => copy.created \/ syncs[s].pc \in Past
  PROVE  MoveInv'
<1>1. PICK old \in SyncState : old = syncs[s]
  BY MoveTypes
<1>2. PICK a : a = [old EXCEPT !.row = copy, !.pc = pc]
  OBVIOUS
<1>3. a.pc = pc /\ a.row = copy
  BY <1>2 DEF SyncState
<1>4. /\ syncs'[s] = a
      /\ \A o \in Syncs : o # s => syncs'[o] = syncs[o]
  BY <1>1, <1>2 DEF Store, RecordingInv, TypeInv
<1>5. row' = copy /\ UNCHANGED <<capture, server, mover, events>>
  BY DEF Store
<1>6. /\ copy.created \/ pc \in Past => OnServer /\ (~events.raced => Filed)
      /\ ~events.raced => copy.day = events.moved
  BY DEF MoveInv, FoundedInv, Founded, DayInv
<1>7. MovesInv'
  BY <1>5 DEF MoveInv, MovesInv, Fresh
<1>8. FoundedInv'
  <2>1. ASSUME NEW o \in Syncs
        PROVE  /\ Active(o)' => Founded(syncs[o].row)'
               /\ syncs'[o].pc \in Past => OnServer'
    <3>1. CASE o = s
      BY <1>3, <1>4, <1>5, <1>6, <3>1 DEF Founded, OnServer
    <3>2. CASE o # s
      BY <1>4, <1>5, <3>2 DEF MoveInv, FoundedInv, Founded, Active, OnServer
    <3>3. QED
      BY <3>1, <3>2
  <2>2. QED
    BY <1>5, <1>6, <2>1 DEF MoveInv, FoundedInv, Founded, OnServer
<1>9. (Called => server.day = mover.day)'
  BY <1>5 DEF MoveInv, Called
<1>10. ASSUME ~events.raced PROVE DayInv'
  <2>1. DayInv
    BY <1>10 DEF MoveInv
  <2>2. Filed' <=> Filed
    BY <1>5 DEF Filed, Called
  <2>3. ASSUME NEW o \in Syncs
        PROVE  /\ Active(o)' => syncs'[o].row.day = events.moved
               /\ (Active(o)' /\ syncs'[o].row.created) \/ syncs'[o].pc \in Past => Filed'
    <3>1. CASE o = s
      BY <1>3, <1>4, <1>6, <1>10, <2>2, <3>1
    <3>2. CASE o # s
      BY <1>4, <2>1, <2>2, <3>2 DEF DayInv, Active
    <3>3. QED
      BY <3>1, <3>2
  <2>4. QED
    BY <1>5, <1>6, <1>10, <2>1, <2>2, <2>3 DEF DayInv, OnServer
<1>11. QED
  BY <1>5, <1>7, <1>8, <1>9, <1>10 DEF MoveInv

LEMMA StoringMoves ==
  ASSUME RecordingInv, MoveInv, NEW s \in Syncs,
         \/ RetryReset(s) \/ Claim(s) \/ SaveCreated(s) \/ SaveStatus(s)
         \/ SaveProgress(s) \/ SaveFailure(s)
  PROVE  MoveInv'
<1>1. PICK old \in Rows : old = syncs[s].row
  BY MoveTypes
<1>2. syncs[s].pc \notin {"idle", "start"} => Active(s) /\ ~Fresh(old) /\ Founded(old)
  BY <1>1, CopyOfRow DEF Active, Started, MoveInv, FoundedInv
<1>3. CASE RetryReset(s)
  <2>1. PICK copy : copy = [old EXCEPT !.state = "saved_locally", !.safe = TRUE, !.err = FALSE]
    OBVIOUS
  <2>2. copy.day = old.day /\ copy.created = old.created /\ copy.state = "saved_locally"
    BY <2>1 DEF Rows
  <2>3. Store(s, copy, "start") /\ syncs[s].pc = "reset"
    BY <1>1, <1>3, <2>1 DEF RetryReset
  <2>4. QED
    BY <1>1, <1>2, <2>2, <2>3, StoreMoves DEF Fresh, Past
<1>4. CASE Claim(s)
  <2>1. PICK copy : copy = [old EXCEPT !.state = "uploading", !.safe = TRUE]
    OBVIOUS
  <2>2. copy.day = old.day /\ copy.created = old.created /\ copy.state = "uploading"
    BY <2>1 DEF Rows
  <2>3. PICK pc : pc = IF old.created THEN "status" ELSE "create"
    OBVIOUS
  <2>4. Store(s, copy, pc) /\ syncs[s].pc = "claim"
    BY <1>1, <1>4, <2>1, <2>3 DEF Claim
  <2>5. pc \in Past => copy.created
    BY <2>2, <2>3 DEF Past
  <2>6. QED
    BY <1>1, <1>2, <2>2, <2>4, <2>5, StoreMoves DEF Fresh
<1>5. CASE SaveCreated(s)
  <2>1. PICK seen, copy : seen = syncs[s].seen /\ copy = [old EXCEPT !.created = TRUE, !.persist = seen]
    OBVIOUS
  <2>2. copy.day = old.day /\ copy.created = TRUE /\ copy.state = old.state
    BY <2>1 DEF Rows
  <2>3. Store(s, copy, "status") /\ syncs[s].pc = "created"
    BY <1>1, <1>5, <2>1 DEF SaveCreated
  <2>4. syncs[s].pc \in Past
    BY <2>3 DEF Past
  <2>5. QED
    BY <1>1, <1>2, <2>2, <2>3, <2>4, StoreMoves DEF Fresh
<1>6. CASE SaveStatus(s)
  <2>1. PICK seen, copy, pc :
          /\ seen = syncs[s].seen /\ copy = [old EXCEPT !.created = TRUE, !.persist = seen]
          /\ pc = AfterStatus(seen)
    OBVIOUS
  <2>2. copy.day = old.day /\ copy.created = TRUE /\ copy.state = old.state
    BY <2>1 DEF Rows
  <2>3. Store(s, copy, pc) /\ syncs[s].pc = "seen"
    BY <1>1, <1>6, <2>1 DEF SaveStatus
  <2>4. syncs[s].pc \in Past
    BY <2>3 DEF Past
  <2>5. QED
    BY <1>1, <1>2, <2>2, <2>3, <2>4, StoreMoves DEF Fresh
<1>7. CASE SaveProgress(s)
  <2>1. Store(s, old, "upload") /\ syncs[s].pc = "uploaded"
    BY <1>1, <1>7 DEF SaveProgress
  <2>2. syncs[s].pc \in Past
    BY <2>1 DEF Past
  <2>3. QED
    BY <1>1, <1>2, <2>1, <2>2, StoreMoves DEF Founded
<1>8. CASE SaveFailure(s)
  <2>1. PICK safe, copy : safe = syncs[s].safe
                          /\ copy = [old EXCEPT !.state = "failed", !.safe = safe, !.err = TRUE]
    OBVIOUS
  <2>2. copy.day = old.day /\ copy.created = old.created /\ copy.state = "failed"
    BY <2>1 DEF Rows
  <2>3. Store(s, copy, "idle") /\ syncs[s].pc = "failing"
    BY <1>1, <1>8, <2>1 DEF SaveFailure
  <2>4. QED
    BY <1>1, <1>2, <2>2, <2>3, StoreMoves DEF Fresh, Past
<1>9. QED
  BY <1>3, <1>4, <1>5, <1>6, <1>7, <1>8

LEMMA ConfirmMoves == ASSUME RecordingInv, MoveInv, NEW s \in Syncs, Confirm(s) PROVE MoveInv'
<1>1. /\ syncs[s].pc = "confirm" /\ UNCHANGED <<capture, server, mover, events>>
      /\ syncs' = [syncs EXCEPT ![s].pc = "idle"]
  BY DEF Confirm, Goto
<1>2. row'.created = TRUE /\ row'.day = row.day /\ row'.state = "transcription_pending"
  BY MoveTypes DEF Confirm, Rows
<1>3. /\ syncs'[s].pc = "idle"
      /\ \A o \in Syncs : o # s => syncs'[o] = syncs[o]
  BY <1>1 DEF RecordingInv, TypeInv, SyncState
<1>4. syncs[s].pc \in Past
  BY <1>1 DEF Past
<1>5. OnServer /\ (~events.raced => Filed)
  BY <1>4 DEF MoveInv, FoundedInv, DayInv
<1>6. MovesInv'
  BY <1>1, <1>2 DEF MoveInv, MovesInv, Fresh
<1>7. FoundedInv'
  <2>1. ASSUME NEW o \in Syncs
        PROVE  /\ Active(o)' => Founded(syncs[o].row)'
               /\ syncs'[o].pc \in Past => OnServer'
    <3>1. CASE o = s
      BY <1>1, <1>3, <1>5, <3>1 DEF Active, OnServer
    <3>2. CASE o # s
      BY <1>1, <1>3, <3>2 DEF MoveInv, FoundedInv, Founded, Active, OnServer
    <3>3. QED
      BY <3>1, <3>2
  <2>2. QED
    BY <1>1, <1>2, <1>5, <2>1 DEF MoveInv, FoundedInv, Founded, OnServer
<1>8. (Called => server.day = mover.day)'
  BY <1>1 DEF MoveInv, Called
<1>9. ASSUME ~events.raced PROVE DayInv'
  <2>1. DayInv
    BY <1>9 DEF MoveInv
  <2>2. Filed' <=> Filed
    BY <1>1 DEF Filed, Called
  <2>3. ASSUME NEW o \in Syncs
        PROVE  /\ Active(o)' => syncs'[o].row.day = events.moved
               /\ (Active(o)' /\ syncs'[o].row.created) \/ syncs'[o].pc \in Past => Filed'
    <3>1. CASE o = s
      BY <1>3, <1>5, <1>9, <2>2, <3>1 DEF Active
    <3>2. CASE o # s
      BY <1>3, <2>1, <2>2, <3>2 DEF DayInv, Active
    <3>3. QED
      BY <3>1, <3>2
  <2>4. QED
    BY <1>1, <1>2, <1>5, <1>9, <2>1, <2>2, <2>3 DEF DayInv, OnServer
<1>10. QED
  BY <1>1, <1>6, <1>7, <1>8, <1>9 DEF MoveInv

-----------------------------------------------------------------------------
(* The moves.                                                                *)

LEMMA MoveReadMoves == ASSUME RecordingInv, MoveInv, MoveRead PROVE MoveInv'
<1>1. PICK pc, n, r : /\ pc = IF row.created THEN "call" ELSE "put"
                      /\ n = events.moves + 1 /\ r = row
  OBVIOUS
<1>2. /\ mover.pc = "idle" /\ ~Fresh(row)
      /\ mover' = [pc |-> pc, row |-> r, day |-> n]
      /\ UNCHANGED <<row, capture, server, syncs>>
  BY <1>1 DEF MoveRead, Fresh
<1>3. mover'.pc = pc /\ mover'.row = r /\ mover'.day = n
  BY <1>2
<1>4. events'.moves = n /\ events'.moved = events.moved /\ events'.raced = events.raced
  BY <1>1 DEF MoveRead, Happen, RecordingInv, TypeInv, EventCounts
<1>5. MovesInv'
  BY <1>1, <1>2, <1>3, <1>4, MoveTypes DEF MoveInv, MovesInv, Fresh
<1>6. FoundedInv'
  BY <1>1, <1>2, <1>3 DEF MoveInv, FoundedInv, Founded, Active, OnServer
<1>7. ~Called' /\ ~Called
  BY <1>1, <1>2, <1>3 DEF Called
<1>8. ASSUME ~events.raced PROVE DayInv'
  <2>1. DayInv
    BY <1>8 DEF MoveInv
  <2>2. Filed' <=> Filed
    BY <1>2, <1>4, <1>7 DEF Filed
  <2>3. QED
    BY <1>2, <1>4, <2>1, <2>2 DEF DayInv, Active, OnServer
<1>9. QED
  BY <1>4, <1>5, <1>6, <1>7, <1>8 DEF MoveInv

LEMMA MoveCallMoves == ASSUME RecordingInv, MoveInv, MoveCall PROVE MoveInv'
<1>1. /\ mover.pc = "call" /\ UNCHANGED <<row, capture, syncs, events>>
  BY DEF MoveCall
<1>2. mover'.pc = "put" /\ mover'.row = mover.row /\ mover'.day = mover.day
  BY DEF MoveCall, RecordingInv, TypeInv, MoverState
<1>3. /\ server'.day = mover.day /\ server'.request = server.request
      /\ server'.state = server.state
  BY MoveTypes DEF MoveCall
<1>4. Called' /\ Filed'
  BY <1>1, <1>2 DEF Called, Filed, MoveInv, MovesInv
<1>5. MovesInv'
  BY <1>1, <1>2 DEF MoveInv, MovesInv, Fresh
<1>6. FoundedInv'
  BY <1>1, <1>2, <1>3 DEF MoveInv, FoundedInv, Founded, Active, OnServer
<1>7. ~events.raced => DayInv'
  BY <1>1, <1>3, <1>4 DEF MoveInv, DayInv, Active, OnServer
<1>8. QED
  BY <1>1, <1>2, <1>3, <1>5, <1>6, <1>7 DEF MoveInv

LEMMA MovePutMoves == ASSUME RecordingInv, MoveInv, MovePut PROVE MoveInv'
<1>1. PICK r \in Rows : r = mover.row
  BY MoveTypes
<1>2. PICK n : n = mover.day
  OBVIOUS
<1>3. mover.pc = "put" /\ n = events.moves /\ events.moves = events.moved + 1
  BY <1>2 DEF MovePut, MoveInv, MovesInv
<1>4. row'.day = n /\ row'.created = r.created /\ row'.state = r.state
  <2>1. row' = [r EXCEPT !.day = n]
    BY <1>1, <1>2 DEF MovePut
  <2>2. QED
    BY <2>1 DEF Rows
<1>5. mover'.pc = "idle" /\ UNCHANGED <<capture, server, syncs>>
  BY DEF MovePut, IdleMove
<1>6. /\ events'.moved = n /\ events'.moves = events.moves
      /\ ~events'.raced => /\ ~events.raced /\ ~capture.on
                          /\ \A s \in Syncs : syncs[s].pc = "idle"
  <2>1. PICK raced \in BOOLEAN :
          raced = (events.raced \/ capture.on \/ \E s \in Syncs : syncs[s].pc # "idle")
    OBVIOUS
  <2>2. events' = [events EXCEPT !.moved = n, !.raced = raced]
    BY <1>2, <2>1 DEF MovePut
  <2>3. events'.moved = n /\ events'.moves = events.moves /\ events'.raced = raced
    BY <2>2 DEF RecordingInv, TypeInv, EventCounts
  <2>4. QED
    BY <2>1, <2>3
<1>7. ~Fresh(r) /\ Founded(r)
  BY <1>1, <1>3 DEF RecordingInv, MoverInv, Started, MoveInv, FoundedInv
<1>8. MovesInv'
  BY <1>3, <1>4, <1>5, <1>6, <1>7 DEF MovesInv, Fresh
<1>9. FoundedInv'
  BY <1>4, <1>5, <1>7 DEF MoveInv, FoundedInv, Founded, Active, OnServer
<1>10. ~Called'
  BY <1>5 DEF Called
<1>11. ASSUME ~events'.raced PROVE DayInv'
  <2>1. DayInv /\ ~capture.on /\ \A s \in Syncs : syncs[s].pc = "idle"
    BY <1>6, <1>11 DEF MoveInv
  <2>2. server.request \in Nat /\ server.request <= events.moved /\ events.moved \in Nat
    BY <2>1, MoveTypes DEF DayInv
  <2>3. server.request < n
    BY <1>3, <2>2
  <2>4. r.created => server.day = n
    BY <1>1, <1>2, <1>3 DEF MoveInv, Called
  <2>5. \A s \in Syncs : ~Active(s)' /\ syncs'[s].pc \notin Past
    BY <1>5, <2>1 DEF Active, Past
  <2>6. QED
    BY <1>3, <1>4, <1>5, <1>6, <2>1, <2>2, <2>3, <2>4, <2>5 DEF DayInv, Filed, OnServer
<1>12. QED
  BY <1>8, <1>9, <1>10, <1>11 DEF MoveInv

LEMMA MoveInvNext == RecordingInv /\ MoveInv /\ [SyncNext]_syncVars => MoveInv'
<1> SUFFICES ASSUME RecordingInv, MoveInv, [SyncNext]_syncVars PROVE MoveInv'
  OBVIOUS
<1>1. CASE StartCapture \/ Emit \/ UnitFails \/ RecorderError \/ StopCapture \/ CloseCapture
  BY <1>1, StartCaptureMoves, QuietCaptureMoves, FailingCaptureMoves
<1>2. CASE CaptureStep
  BY <1>2, QuietCaptureMoves, CommitUnitMoves, UnitSavedMoves, FinishCaptureMoves DEF CaptureStep
<1>3. ASSUME NEW s \in Syncs, Resume(s) \/ RetryRead(s) \/ LoseCall(s) \/ Abort(s)
      PROVE  MoveInv'
  BY <1>3, ReadingMoves, LoseCallMoves, AbortMoves
<1>4. ASSUME NEW s \in Syncs, SyncStep(s) PROVE MoveInv'
  BY <1>4, ReadingMoves, StoringMoves, CallMoves, PrepareMoves, ConfirmMoves DEF SyncStep
<1>5. CASE MoveRead \/ MoveCall \/ MovePut
  BY <1>5, MoveReadMoves, MoveCallMoves, MovePutMoves
<1>6. CASE UNCHANGED syncVars
  <2>1. UNCHANGED <<row, server, syncs, mover, capture, events>>
    BY <1>6 DEF syncVars
  <2>2. QED
    BY <2>1, CaptureRests DEF SameMoves
<1>7. QED
  BY <1>1, <1>2, <1>3, <1>4, <1>5, <1>6 DEF SyncNext

\* However moves, failures and activities interleave, a durable recording is filed
\* under the day the owner last chose, unless a choice met a synchronization under way
\* or a failed capture that had not ended (sync-controller.ts, capture-controller.ts).
THEOREM MovesStand == SyncSpec => []MoveStands
<1>1. RecordingInv /\ MoveInv /\ [SyncNext]_syncVars => (RecordingInv /\ MoveInv)'
  BY RecordingInvNext, MoveInvNext
<1>2. SyncInit => RecordingInv /\ MoveInv
  BY RecordingInvInit, MoveInvInit
<1>3. QED
  BY <1>1, <1>2, MoveInvImplies, PTL DEF SyncSpec

-----------------------------------------------------------------------------
(* The two together.                                                         *)

\* A step of the browser is a step of one of the two components, whatever the scene
\* leaves out.
LEMMA BrowserSteps ==
  [BrowserNext]_<<outboxVars, syncVars, scene>>
    => [OutboxNext]_outboxVars /\ [SyncNext]_syncVars
  BY DEF BrowserNext

\* Nothing the owner wrote or recorded is lost, and what was moved stays where the
\* owner moved it (journal/offline.ts, sync-controller.ts, indexed-db.ts).
THEOREM CapturesAreKept == BrowserSpec => []CapturesKept
<1>1. BrowserInit => OutboxInit /\ SyncInit
  BY DEF BrowserInit
<1>2. BrowserSpec => OutboxSpec /\ SyncSpec
  BY <1>1, BrowserSteps, PTL DEF BrowserSpec, OutboxSpec, SyncSpec
<1>3. NothingLost /\ AudioKept /\ MoveStands => CapturesKept
  BY DEF CapturesKept, RecordingKept
<1>4. QED
  BY <1>2, <1>3, NothingIsLost, SavedAudioIsKept, MovesStand, PTL
=============================================================================
