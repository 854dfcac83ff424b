---------------------------- MODULE JournalOutbox ----------------------------
(***************************************************************************)
(* Written captures on their way from a browser to the server: the         *)
(* encrypted outbox in IndexedDB that all tabs share, its replay in order, *)
(* the owner's decision on a conflict, the server's idempotent mutations   *)
(* of contributions, another device that changes the same contributions,   *)
(* and their permanent deletion.                                           *)
(*                                                                         *)
(* A capture has the number of its idempotency key, and captures are       *)
(* numbered in the order of their outbox sequence.  A text is the number   *)
(* of the capture that carried it.                                         *)
(***************************************************************************)
EXTENDS Naturals, Sequences, FiniteSets

CONSTANTS
    Tabs,
    Entries,        \* the contributions that may be written
    Days,           \* the journal days they may be filed under
    MaxCaptures,    \* bound: creations, edits and drafts kept after a conflict
    MaxRemote,      \* bound: edits and moves by another device
    MaxDeletions,   \* bound: deletions, restorations and purges of entries
    MaxFaults       \* bound: lost or delayed requests and closed tabs

ASSUME OutboxAssumption ==
    /\ MaxCaptures \in Nat /\ MaxRemote \in Nat
    /\ MaxDeletions \in Nat /\ MaxFaults \in Nat

VARIABLES
    captures,     \* what was ever captured, by idempotency key
    outbox,       \* the records of the outbox
    conflicted,   \* those of them that were stored in the state conflict
    swept,        \* the tombstones this browser has applied
    tabs,         \* replay and conflict dialog of each tab
    wire,         \* requests that were given up by the browser and may still arrive
    entries,      \* the contribution rows
    accepted,     \* the rows of journal_api_idempotency
    discarded,    \* captures the owner gave up in a conflict dialog (history)
    spent         \* counters of the bounded events

outboxVars == <<captures, outbox, conflicted, swept, tabs, wire, entries, accepted,
                discarded, spent>>

Remote == 0          \* the author of a text that another device wrote
NoRow == "none"
NoCapture == 0

Capture == [kind : {"create", "edit"}, entry : Entries, base : Nat, day : Days,
            draftOf : Nat]
NoConflict == [capture |-> NoCapture, revision |-> 0]
Resting == [pc |-> "idle", list |-> <<>>, seen |-> 0, conflict |-> NoConflict]

OutboxInit ==
    /\ captures = <<>>
    /\ outbox = {} /\ conflicted = {} /\ swept = {}
    /\ tabs = [t \in Tabs |-> Resting]
    /\ wire = {}
    /\ entries = [e \in Entries |-> [row |-> NoRow, texts |-> <<>>, day |-> NoRow]]
    /\ accepted = {}
    /\ discarded = {}
    /\ spent = [remote |-> 0, deletions |-> 0, faults |-> 0]

Revision(e) == Len(entries[e].texts)
Exists(e) == entries[e].row \in {"active", "deleted"}
Captures == DOMAIN captures

Spend(what, limit) == spent[what] < limit /\ spent' = [spent EXCEPT ![what] = @ + 1]

-----------------------------------------------------------------------------
(* Capturing: JournalDayView and OfflineJournal.enqueue                    *)

Enqueue(capture) ==
    /\ Len(captures) < MaxCaptures
    /\ captures' = Append(captures, capture)
    /\ outbox' = outbox \cup {Len(captures) + 1}

\* addContribution: a new contribution has a fresh identifier.
CaptureCreate(e, d) ==
    /\ entries[e].row = NoRow
    /\ \A i \in Captures : captures[i].entry # e
    /\ Enqueue([kind |-> "create", entry |-> e, base |-> 0, day |-> d,
                draftOf |-> NoCapture])
    /\ UNCHANGED <<conflicted, swept, tabs, wire, entries, accepted, discarded, spent>>

\* saveEdit: the base is the revision the view shows, which may be an old one.
CaptureEdit(e, base) ==
    /\ Exists(e)
    /\ base \in 1..Revision(e)
    /\ Enqueue([kind |-> "edit", entry |-> e, base |-> base, day |-> entries[e].day,
                draftOf |-> NoCapture])
    /\ UNCHANGED <<conflicted, swept, tabs, wire, entries, accepted, discarded, spent>>

-----------------------------------------------------------------------------
(* The server: JournalWriteRepository                                      *)

\* assertNotTombstoned, and the primary key of the row.
MayCreate(e) == entries[e].row = NoRow
CreateTextContribution(i) ==
    [row |-> "active", texts |-> <<i>>, day |-> captures[i].day]

AppendTextRevision(row, text) == [row EXCEPT !.texts = Append(@, text)]

\* A move leaves the revision as it is.
Moved(row, d) == [row EXCEPT !.day = d]

-----------------------------------------------------------------------------
(* The server: PostgresJournalService                                      *)

\* What the transaction of capture i comes to.  An error rolls it back, the
\* idempotency row included.
CreateVerdict(i) == IF MayCreate(captures[i].entry) THEN "applied" ELSE "refused"

AnyBase(i) == TRUE
BaseIsCurrent(i) == captures[i].base = Revision(captures[i].entry)
EditVerdict(i) ==
    IF entries[captures[i].entry].row # "active" THEN "refused"
    ELSE IF BaseIsCurrent(i) THEN "applied" ELSE "mismatch"

\* mutate: a known key is answered from the current row, which must not be deleted.
NeverReplayed(i) == FALSE
Replayed(i) == i \in accepted
Verdict(i) ==
    CASE Replayed(i) ->
           IF entries[captures[i].entry].row = "active" THEN "replayed" ELSE "refused"
      [] ~Replayed(i) /\ captures[i].kind = "create" -> CreateVerdict(i)
      [] ~Replayed(i) /\ captures[i].kind = "edit" -> EditVerdict(i)

\* The row of the contribution and of the idempotency key, in one transaction.
Mutate(i) ==
    LET e == captures[i].entry
    IN IF Verdict(i) = "applied"
       THEN /\ entries' = [entries EXCEPT ![e] = IF captures[i].kind = "create"
                                                 THEN CreateTextContribution(i)
                                                 ELSE AppendTextRevision(@, i)]
            /\ accepted' = accepted \cup {i}
       ELSE UNCHANGED <<entries, accepted>>

\* Another device works on the entry.
Elsewhere == UNCHANGED <<captures, outbox, conflicted, swept, tabs, wire, accepted, discarded>>

RemoteEdit(e) ==
    /\ entries[e].row = "active"
    /\ Spend("remote", MaxRemote)
    /\ entries' = [entries EXCEPT ![e] = AppendTextRevision(@, Remote)]
    /\ Elsewhere

RemoteMove(e, d) ==
    /\ entries[e].row = "active"
    /\ d # entries[e].day
    /\ Spend("remote", MaxRemote)
    /\ entries' = [entries EXCEPT ![e] = Moved(@, d)]
    /\ Elsewhere

SetRow(e, from, to) ==
    /\ entries[e].row = from
    /\ Spend("deletions", MaxDeletions)
    /\ entries' = [entries EXCEPT ![e].row = to]
    /\ Elsewhere

\* The completion of a permanent deletion leaves a tombstone.
SoftDelete(e) == SetRow(e, "active", "deleted")
RestoreEntry(e) == SetRow(e, "deleted", "active")
PurgeEntry(e) == SetRow(e, "deleted", "purged")

\* A request the browser no longer waits for reaches the server.
LateArrival(i) ==
    /\ i \in wire
    /\ wire' = wire \ {i}
    /\ Mutate(i)
    /\ UNCHANGED <<captures, outbox, conflicted, swept, tabs, discarded, spent>>

-----------------------------------------------------------------------------
(* A tab: resumeOfflineWork, OfflineJournal.replay and resolveConflict     *)

Tab(t, pc) == tabs' = [tabs EXCEPT ![t].pc = pc]
Rest(t) == tabs' = [tabs EXCEPT ![t].pc = "idle", ![t].list = <<>>, ![t].seen = 0]

\* The ledger of permanent deletions is applied once per generation, in one
\* transaction of IndexedDB.
ApplyTombstones(t) ==
    LET fresh == {e \in Entries : entries[e].row = "purged"} \ swept
        gone == {i \in Captures : captures[i].entry \in fresh}
    IN /\ tabs[t].pc = "idle"
       /\ fresh # {}
       /\ swept' = swept \cup fresh
       /\ outbox' = outbox \ gone
       /\ conflicted' = conflicted \ gone
       /\ UNCHANGED <<captures, tabs, wire, entries, accepted, discarded, spent>>

\* One replay at a time in a tab; it works through the records there are now.
StartReplay(t) ==
    /\ tabs[t].pc = "idle"
    /\ outbox # {}
    /\ \E list \in [1..Cardinality(outbox) -> outbox] :
         /\ \A k, l \in DOMAIN list : k < l => list[k] < list[l]
         /\ tabs' = [tabs EXCEPT ![t].pc = "next", ![t].list = list]
    /\ UNCHANGED <<captures, outbox, conflicted, swept, wire, entries, accepted,
                   discarded, spent>>

Send(t) ==
    /\ tabs[t].pc = "next"
    /\ IF tabs[t].list = <<>> THEN Rest(t) ELSE Tab(t, "sent")
    /\ UNCHANGED <<captures, outbox, conflicted, swept, wire, entries, accepted,
                   discarded, spent>>

\* The server's answer.  A success is followed by the deletion of the record, a
\* stale base by a read of the current contribution, any other error by nothing.
SettlesRefused(verdict) == verdict # "mismatch"
Settles(verdict) == verdict \in {"applied", "replayed"}
NeverStale(verdict) == FALSE
Stale(verdict) == verdict = "mismatch"

Receive(t) ==
    LET i == Head(tabs[t].list)
        verdict == Verdict(i)
    IN /\ tabs[t].pc = "sent"
       /\ Mutate(i)
       /\ \/ Settles(verdict) /\ Tab(t, "delete")
          \/ Stale(verdict) /\ Tab(t, "inspect")
          \/ ~Settles(verdict) /\ ~Stale(verdict) /\ Rest(t)
       /\ UNCHANGED <<captures, outbox, conflicted, swept, wire, discarded, spent>>

DeleteRecord(t) ==
    LET i == Head(tabs[t].list)
    IN /\ tabs[t].pc = "delete"
       /\ outbox' = outbox \ {i}
       /\ conflicted' = conflicted \ {i}
       /\ tabs' = [tabs EXCEPT ![t].pc = "next", ![t].list = Tail(@)]
       /\ UNCHANGED <<captures, swept, wire, entries, accepted, discarded, spent>>

\* getContribution after a conflict, and the end of this replay if it is gone.
Inspect(t) ==
    LET e == captures[Head(tabs[t].list)].entry
    IN /\ tabs[t].pc = "inspect"
       /\ IF Exists(e)
          THEN tabs' = [tabs EXCEPT ![t].pc = "mark", ![t].seen = Revision(e)]
          ELSE Rest(t)
       /\ UNCHANGED <<captures, outbox, conflicted, swept, wire, entries, accepted,
                      discarded, spent>>

\* The record is written back as it was read, whatever happened to it since.
MarkConflict(t) ==
    LET i == Head(tabs[t].list)
    IN /\ tabs[t].pc = "mark"
       /\ outbox' = outbox \cup {i}
       /\ conflicted' = conflicted \cup {i}
       /\ tabs' = [tabs EXCEPT ![t] =
                      [Resting EXCEPT !.conflict =
                           [capture |-> i, revision |-> tabs[t].seen]]]
       /\ UNCHANGED <<captures, swept, wire, entries, accepted, discarded, spent>>

\* The dialog stays as it is until the record it is about was deleted.
CloseDialog(t, i) ==
    /\ outbox' = outbox \ {i}
    /\ conflicted' = conflicted \ {i}
    /\ tabs' = [tabs EXCEPT ![t].conflict = NoConflict]

\* resolveConflict with the draft: first the new edit is enqueued ...
KeepDraft(t) ==
    LET i == tabs[t].conflict.capture
    IN /\ i # NoCapture
       /\ Enqueue([captures[i] EXCEPT !.base = tabs[t].conflict.revision,
                                      !.draftOf = i])
       /\ UNCHANGED <<conflicted, swept, tabs, wire, entries, accepted, discarded,
                      spent>>

\* ... then the record in conflict is deleted.
Kept(i) == \E j \in Captures : captures[j].draftOf = i
ReplaceByDraft(t) ==
    LET i == tabs[t].conflict.capture
    IN /\ i # NoCapture
       /\ Kept(i)
       /\ CloseDialog(t, i)
       /\ UNCHANGED <<captures, swept, wire, entries, accepted, discarded, spent>>

DiscardDraft(t) ==
    LET i == tabs[t].conflict.capture
    IN /\ i # NoCapture
       /\ CloseDialog(t, i)
       /\ discarded' = discarded \cup {i}
       /\ UNCHANGED <<captures, swept, wire, entries, accepted, spent>>

\* The request is lost on its way, or its answer is, or it is still on its way
\* when the browser gives it up.
LoseRequest(t) ==
    LET i == Head(tabs[t].list)
    IN /\ tabs[t].pc = "sent"
       /\ Spend("faults", MaxFaults)
       /\ Rest(t)
       /\ \/ UNCHANGED <<entries, accepted, wire>>
          \/ Mutate(i) /\ UNCHANGED wire
          \/ wire' = wire \cup {i} /\ UNCHANGED <<entries, accepted>>
       /\ UNCHANGED <<captures, outbox, conflicted, swept, discarded>>

\* The tab is closed, or its session ends and it is locked.
CloseTab(t) ==
    /\ Spend("faults", MaxFaults)
    /\ tabs[t] # Resting
    /\ tabs' = [tabs EXCEPT ![t] = Resting]
    /\ UNCHANGED <<captures, outbox, conflicted, swept, wire, entries, accepted,
                   discarded>>

TabStep(t) ==
    \/ StartReplay(t) \/ Send(t) \/ Receive(t) \/ DeleteRecord(t)
    \/ Inspect(t) \/ MarkConflict(t)
Resolve(t) == ReplaceByDraft(t) \/ DiscardDraft(t)

OutboxNext ==
    \/ \E e \in Entries, d \in Days : CaptureCreate(e, d) \/ RemoteMove(e, d)
    \/ \E e \in Entries, base \in 1..MaxCaptures + MaxRemote : CaptureEdit(e, base)
    \/ \E e \in Entries : RemoteEdit(e) \/ SoftDelete(e) \/ RestoreEntry(e) \/ PurgeEntry(e)
    \/ \E i \in wire : LateArrival(i)
    \/ \E t \in Tabs :
         \/ ApplyTombstones(t) \/ TabStep(t) \/ KeepDraft(t) \/ Resolve(t)
         \/ LoseRequest(t) \/ CloseTab(t)

OutboxSpec == OutboxInit /\ [][OutboxNext]_outboxVars

\* The application resumes its offline work whenever it becomes visible or
\* online.  An owner who is shown conflicts again and again decides one at a
\* moment at which no replay is running.  open holds the tabs that are used.
OutboxFairness(open) ==
    \A t \in open :
        /\ WF_outboxVars(TabStep(t))
        /\ SF_outboxVars(tabs[t].pc = "idle" /\ Resolve(t))

-----------------------------------------------------------------------------
(* Properties                                                              *)

\* Whatever tab closes, whatever request is lost and whoever resolves a
\* conflict, the text of a capture is in the outbox, or accepted, or replaced
\* by the same draft on a newer base, or was given up by the owner, or its
\* contribution was permanently deleted.
NothingLost ==
    \A i \in Captures :
        \/ i \in outbox
        \/ i \in accepted
        \/ Kept(i)
        \/ i \in discarded
        \/ entries[captures[i].entry].row = "purged"

\* A capture that the owner was asked about was not and will not be applied: no
\* draft duplicates a text the server has accepted, and a discarded text does
\* not appear.
DecisionsStand ==
    \A i \in Captures : i \in discarded \/ Kept(i) => i \notin accepted

\* The texts of a contribution are those of its accepted captures and of other
\* devices, each capture once, and each edit directly on the revision its
\* author saw.
AppliedOnItsBase ==
    \A e \in Entries :
        /\ \A k, l \in DOMAIN entries[e].texts :
             entries[e].texts[k] = entries[e].texts[l] =>
                 k = l \/ entries[e].texts[k] = Remote
        /\ \A k \in DOMAIN entries[e].texts :
             entries[e].texts[k] # Remote => captures[entries[e].texts[k]].base = k - 1

TextsOnTheirBase == DecisionsStand /\ AppliedOnItsBase

\* The first record cannot be sent: its contribution was deleted meanwhile.
HeadRefused ==
    \E i \in outbox :
        /\ \A j \in outbox : i <= j
        /\ entries[captures[i].entry].row \in {"deleted", "purged"}

\* With one tab the outbox drains, through conflicts, lost answers and closed
\* tabs, unless its first record belongs to a contribution that was deleted
\* elsewhere.
OutboxDrains == []<>(outbox = {} \/ HeadRefused)
=============================================================================
