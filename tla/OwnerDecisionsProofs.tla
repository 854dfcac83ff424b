------------------------ MODULE OwnerDecisionsProofs ------------------------
(* Proofs about what the owner has decided: the memories that may be used    *)
(* and the artifacts that were edited, for any number of requests, memories  *)
(* and artifacts and any limits of a run's context.                          *)
(*                                                                           *)
(* Memories. A memory is approved from a page that shows it as it was a      *)
(* while ago. The owner's consent is to the right words because a page that  *)
(* still has the current revision shows the current words (SeenInv), and     *)
(* consent is kept with each later revision of the memory (ConsentInv).      *)
(*                                                                           *)
(* Artifacts. A decision is made on a panel that read the artifact a while   *)
(* ago, in two steps. It is on the right words because a panel whose         *)
(* revision is still the current one shows what a reader would be shown now  *)
(* (PanelInv). What the owner wrote stays among the overrides of the active  *)
(* revision, whatever a processor's result, planned earlier, does to the row *)
(* (WordInv); the two known gaps are the artifacts excused.                  *)
EXTENDS FeedbackMemory, ArtifactAuthority,
        FiniteSetTheorems, SequenceTheorems, WellFoundedInduction, TLAPS

-----------------------------------------------------------------------------
(* Memories: the inductive invariant.                                        *)

(* The inductive invariant.                                                  *)

Rows == [revision : Nat, content : Contents, scope : Scopes,
         approval : {"approved", "pending"}, enabled : BOOLEAN, deleted : BOOLEAN]
Revisions == [revision : Nat, content : Contents]

TypeInv ==
    /\ memories \in Seq(Rows)
    /\ ledger \in [Keys -> Nat \cup {None}]
    /\ shown \in Seq({None} \cup Revisions)
    /\ Len(shown) = Len(memories)

\* What a page shows of a memory is one of its revisions.
SeenInv(m) ==
    shown[m] # None =>
        /\ shown[m].revision <= memories[m].revision
        /\ shown[m].revision = memories[m].revision => shown[m].content = memories[m].content

ConsentInv(m) ==
    memories[m].approval = "approved" /\ ~memories[m].deleted =>
        <<m, memories[m].content>> \in approved

Made == {k \in Keys : ledger[k] \notin {None, 0}}
LedgerInv ==
    /\ IsFiniteSet(Made) /\ Cardinality(Made) = Len(memories)
    /\ \A k \in Made : ledger[k] \in Memories

ContextInv ==
    \A run \in contexts : run.items \subseteq run.consent /\ Cardinality(run.items) <= ContextItems

Inv ==
    /\ TypeInv
    /\ \A m \in Memories : SeenInv(m) /\ ConsentInv(m)
    /\ LedgerInv
    /\ ContextInv

LEMMA InvImplies == Inv => ApprovedContextOnly
  BY DEF Inv, LedgerInv, ContextInv, ApprovedContextOnly, Made

LEMMA Shapes ==
  ASSUME TypeInv
  PROVE  /\ Len(memories) \in Nat /\ Memories = 1..Len(memories)
         /\ \A m \in Memories : memories[m] \in Rows
         /\ DOMAIN shown = Memories
         /\ \A m \in Memories : shown[m] \in {None} \cup Revisions
<1>1. Len(memories) \in Nat /\ memories \in [1..Len(memories) -> Rows]
      /\ DOMAIN memories = 1..Len(memories)
  BY LenProperties DEF TypeInv
<1>2. Len(shown) \in Nat /\ shown \in [1..Len(shown) -> {None} \cup Revisions]
      /\ DOMAIN shown = 1..Len(shown)
  BY LenProperties DEF TypeInv
<1>3. QED
  BY <1>1, <1>2 DEF Memories, TypeInv

LEMMA InvInit == MemoryInit => Inv
<1> SUFFICES ASSUME MemoryInit PROVE Inv
  OBVIOUS
<1>1. memories = <<>> /\ shown = <<>> /\ Len(memories) = 0 /\ Len(shown) = 0
  BY EmptySeq DEF MemoryInit
<1>2. memories \in Seq(Rows) /\ shown \in Seq({None} \cup Revisions)
  BY <1>1, EmptySeq
<1>3. TypeInv
  BY <1>1, <1>2 DEF TypeInv, MemoryInit
<1>4. Memories = {}
  BY <1>1, <1>3, Shapes
<1>5. Made = {}
  BY DEF Made, MemoryInit
<1>6. LedgerInv
  BY <1>1, <1>5, FS_EmptySet DEF LedgerInv
<1>7. ContextInv
  BY DEF ContextInv, MemoryInit
<1>8. QED
  BY <1>3, <1>4, <1>6, <1>7 DEF Inv

-----------------------------------------------------------------------------
(* A finite set of numbers is no larger than each of them allows.            *)

\* The largest element of a set of places, found as the one after which fewest follow.
LEMMA LastPlace ==
  ASSUME NEW n \in Nat, NEW T \in SUBSET (1..n), T # {}
  PROVE  \E last \in T : \A m \in T : m <= last
<1> DEFINE from(m) == m..n
           U == {from(m) : m \in T}
<1>1. IsWellFoundedOn(StrictSubsetOrdering(1..n), FiniteSubsetsOf(1..n))
  BY FS_StrictSubsetOrderingWellFounded
<1>2. U \subseteq FiniteSubsetsOf(1..n)
  <2>1. SUFFICES ASSUME NEW m \in T PROVE from(m) \in FiniteSubsetsOf(1..n)
    OBVIOUS
  <2>2. m \in Int /\ n \in Int /\ from(m) \subseteq 1..n
    OBVIOUS
  <2>3. IsFiniteSet(from(m))
    BY <2>2, FS_Interval
  <2>4. QED
    BY <2>2, <2>3 DEF FiniteSubsetsOf
<1>3. U # {}
  OBVIOUS
<1>4. PICK least \in U : \A u \in U : <<u, least>> \notin StrictSubsetOrdering(1..n)
  <2> HIDE DEF U
  <2>1. QED
    BY <1>1, <1>2, <1>3, WFMin
<1>5. PICK last \in T : least = from(last)
  OBVIOUS
<1>6. ASSUME NEW m \in T, m > last PROVE FALSE
  <2>1. from(m) \subseteq from(last) /\ from(m) # from(last)
    <3>1. last \in from(last) /\ last \notin from(m)
      BY <1>6
    <3>2. QED
      BY <3>1, <1>6
  <2>2. from(m) \in U /\ from(m) \subseteq 1..n /\ from(last) \subseteq 1..n
    OBVIOUS
  <2>3. <<from(m), from(last)>> \in StrictSubsetOrdering(1..n)
    BY <2>1, <2>2 DEF StrictSubsetOrdering
  <2>4. QED
    BY <1>4, <1>5, <2>2, <2>3
<1>7. \A m \in T : m <= last
  <2>1. SUFFICES ASSUME NEW m \in T, ~(m <= last) PROVE FALSE
    OBVIOUS
  <2>2. m > last
    BY <2>1
  <2>3. QED
    BY <1>6, <2>2
<1>8. QED
  BY <1>7

\* A context is assembled from what the owner has approved, within the limit.
LEMMA AssembledIsAllowed ==
  ASSUME Inv
  PROVE  Assembled \subseteq approved /\ Cardinality(Assembled) <= ContextItems
<1> DEFINE T == {k \in Usable : Fits(k)}
<1>1. Len(memories) \in Nat /\ Memories = 1..Len(memories)
  BY Shapes DEF Inv
<1>2. \A m \in Usable : m \in Memories /\ <<m, memories[m].content>> \in approved
  BY DEF Usable, Applicable, Inv, ConsentInv
<1>3. Assembled \subseteq approved
  BY <1>2 DEF Assembled
<1>4. T \in SUBSET (1..Len(memories))
  BY <1>1 DEF Usable
<1>5. IsFiniteSet(1..Len(memories))
  BY <1>1, FS_Interval
<1>6. IsFiniteSet(T)
  BY <1>4, <1>5, FS_Subset
<1>7. Cardinality(T) <= ContextItems
  <2>1. CASE T = {}
    BY <2>1, FS_EmptySet, MemoryAssumption
  <2>2. CASE T # {}
    <3>1. PICK last \in T : \A m \in T : m <= last
      BY <2>2, <1>1, <1>4, LastPlace
    <3>2. T \subseteq UpTo(last) /\ UpTo(last) \subseteq 1..Len(memories)
      BY <3>1, <1>1 DEF UpTo, Usable
    <3>3. IsFiniteSet(UpTo(last))
      BY <3>2, <1>5, FS_Subset
    <3>4. Cardinality(T) <= Cardinality(UpTo(last))
      BY <3>2, <3>3, FS_Subset
    <3>5. Cardinality(UpTo(last)) <= ContextItems
      BY <3>1 DEF Fits
    <3>6. Cardinality(T) \in Nat /\ Cardinality(UpTo(last)) \in Nat
      BY <1>6, <3>3, FS_CardinalityType
    <3>7. QED
      BY <3>4, <3>5, <3>6, MemoryAssumption
  <2>3. QED
    BY <2>1, <2>2
<1>8. IsFiniteSet(Assembled) /\ Cardinality(Assembled) <= Cardinality(T)
  <2> DEFINE f == [m \in T |-> <<m, memories[m].content>>]
  <2>1. f \in Surjection(T, Assembled)
    BY DEF Surjection, Assembled
  <2>2. QED
    BY <2>1, <1>6, FS_Surjection
<1>9. Cardinality(T) \in Nat /\ Cardinality(Assembled) \in Nat
  BY <1>6, <1>8, FS_CardinalityType
<1>10. QED
  BY <1>3, <1>7, <1>8, <1>9, MemoryAssumption

-----------------------------------------------------------------------------
(* Feedback.                                                                 *)

\* Neither a memory nor what is known of one.
LEMMA MemoriesRest ==
  ASSUME Inv, UNCHANGED <<memories, shown, approved, ledger>>, ContextInv'
  PROVE  Inv'
<1>1. TypeInv'
  BY DEF Inv, TypeInv
<1>2. \A m \in Memories' : (SeenInv(m) /\ ConsentInv(m))'
  BY DEF Inv, SeenInv, ConsentInv, Memories
<1>3. LedgerInv'
  BY DEF Inv, LedgerInv, Made, Memories
<1>4. QED
  BY <1>1, <1>2, <1>3 DEF Inv

LEMMA ContextRests == ASSUME Inv, UNCHANGED contexts PROVE ContextInv'
  BY DEF Inv, ContextInv

LEMMA LocalFeedback ==
  ASSUME Inv, NEW key \in Keys, ledger[key] = None, RecordFeedback(key, 0),
         UNCHANGED <<memories, shown, approved, contexts>>
  PROVE  Inv'
<1>1. TypeInv'
  BY DEF Inv, TypeInv, RecordFeedback
<1>2. \A m \in Memories' : (SeenInv(m) /\ ConsentInv(m))'
  BY DEF Inv, SeenInv, ConsentInv, Memories
<1>3. ledger' = [ledger EXCEPT ![key] = 0] /\ ledger \in [Keys -> Nat \cup {None}]
  BY DEF RecordFeedback, Inv, TypeInv
<1>4. Made' = Made
  BY <1>3 DEF Made
<1>5. LedgerInv'
  BY <1>3, <1>4 DEF Inv, LedgerInv, Made, Memories
<1>6. QED
  BY <1>1, <1>2, <1>5, ContextRests DEF Inv

LEMMA RememberedFeedback ==
  ASSUME Inv, NEW key \in Keys, ledger[key] = None,
         NEW content \in Contents, NEW scope \in Scopes, NEW allowed \in BOOLEAN,
         memories' = Append(memories, MemoryRow(content, scope, allowed)),
         RecordFeedback(key, Len(memories) + 1),
         shown' = Append(shown, None),
         approved' = IF allowed THEN approved \cup {<<Len(memories) + 1, content>>}
                     ELSE approved,
         UNCHANGED contexts
  PROVE  Inv'
<1> DEFINE last == Len(memories) + 1
<1>1. /\ Len(memories) \in Nat /\ Memories = 1..Len(memories) /\ Len(shown) = Len(memories)
      /\ memories \in Seq(Rows) /\ shown \in Seq({None} \cup Revisions)
  BY Shapes DEF Inv, TypeInv
<1>2. PICK row : row = MemoryRow(content, scope, allowed)
  OBVIOUS
<1>3. /\ row \in Rows /\ row.content = content /\ ~row.deleted
      /\ row.approval = "approved" => allowed
  BY <1>2 DEF MemoryRow, Rows
<1>4. /\ memories' \in Seq(Rows) /\ Len(memories') = last /\ memories'[last] = row
      /\ \A m \in 1..Len(memories) : memories'[m] = memories[m]
  BY <1>1, <1>2, <1>3, AppendProperties
<1>5. /\ shown' \in Seq({None} \cup Revisions) /\ Len(shown') = last /\ shown'[last] = None
      /\ \A m \in 1..Len(memories) : shown'[m] = shown[m]
  BY <1>1, AppendProperties
<1>6. Memories' = 1..last
  BY <1>4, LenProperties DEF Memories
<1>7. ledger' = [ledger EXCEPT ![key] = last] /\ ledger \in [Keys -> Nat \cup {None}]
      /\ last \in Nat \ {0}
  BY <1>1 DEF RecordFeedback, Inv, TypeInv
<1>8. TypeInv'
  BY <1>4, <1>5, <1>7 DEF TypeInv
<1>9. ASSUME NEW m \in Memories' PROVE (SeenInv(m) /\ ConsentInv(m))'
  <2>1. CASE m = last
    BY <2>1, <1>3, <1>4, <1>5 DEF SeenInv, ConsentInv
  <2>2. CASE m \in Memories
    <3>1. SeenInv(m) /\ ConsentInv(m) /\ memories'[m] = memories[m] /\ shown'[m] = shown[m]
      BY <2>2, <1>1, <1>4, <1>5 DEF Inv
    <3>2. approved \subseteq approved'
      OBVIOUS
    <3>3. QED
      BY <3>1, <3>2 DEF SeenInv, ConsentInv
  <2>3. QED
    BY <2>1, <2>2, <1>1, <1>6
<1>10. LedgerInv'
  <2>1. last # None
    BY <1>7, MemoryAssumption
  <2>2. Made' = Made \cup {key} /\ key \notin Made
    BY <2>1, <1>7 DEF Made
  <2>3. IsFiniteSet(Made) /\ Cardinality(Made) = Len(memories)
    BY DEF Inv, LedgerInv
  <2>4. IsFiniteSet(Made \cup {key}) /\ Cardinality(Made \cup {key}) = last
    BY <2>2, <2>3, FS_AddElement
  <2>5. IsFiniteSet(Made') /\ Cardinality(Made') = Len(memories')
    BY <2>2, <2>4, <1>4
  <2>6. \A k \in Made' : ledger'[k] \in Memories'
    <3>1. \A k \in Made : ledger[k] \in 1..Len(memories)
      BY <1>1 DEF Inv, LedgerInv
    <3>2. QED
      BY <3>1, <2>2, <1>1, <1>6, <1>7 DEF Made
  <2>7. QED
    BY <2>5, <2>6 DEF LedgerInv
<1>11. QED
  BY <1>8, <1>9, <1>10, ContextRests DEF Inv

LEMMA CreateFeedbackKeeps ==
  ASSUME Inv, NEW key \in Keys, NEW mode \in Modes, NEW content \in Contents,
         NEW scope \in Scopes, CreateFeedback(key, mode, content, scope)
  PROVE  Inv'
<1>1. ledger[key] = None /\ UNCHANGED contexts
  BY DEF CreateFeedback, Answered
<1>2. CASE Classified(mode, content, scope) = "occurrence_only"
  BY <1>1, <1>2, LocalFeedback DEF CreateFeedback
<1>3. CASE Classified(mode, content, scope) # "occurrence_only"
  <2>1. PICK allowed \in BOOLEAN : allowed = (mode = "correct_and_remember")
    OBVIOUS
  <2>2. /\ memories' = Append(memories, MemoryRow(content, scope, allowed))
        /\ RecordFeedback(key, Len(memories) + 1)
        /\ shown' = Append(shown, None)
        /\ approved' = IF allowed THEN approved \cup {<<Len(memories) + 1, content>>}
                       ELSE approved
    BY <2>1, <1>3 DEF CreateFeedback
  <2>3. QED
    BY <2>2, <1>1, RememberedFeedback
<1>4. QED
  BY <1>2, <1>3

-----------------------------------------------------------------------------
(* The view and the mutations.                                               *)

LEMMA ListMemoriesKeeps ==
  ASSUME Inv, NEW m \in Memories, ListMemories(m) PROVE Inv'
<1>1. /\ DOMAIN shown = Memories /\ memories[m] \in Rows
      /\ shown \in Seq({None} \cup Revisions) /\ Memories = 1..Len(shown)
  BY Shapes DEF Inv, TypeInv
<1>2. PICK revision : revision = Revision(m)
  OBVIOUS
<1>3. /\ revision \in Revisions
      /\ revision.revision = memories[m].revision /\ revision.content = memories[m].content
      /\ memories[m].revision \in Nat
  BY <1>1, <1>2 DEF Revision, Revisions, Rows
<1>4. shown' = [shown EXCEPT ![m] = revision]
  BY <1>2 DEF ListMemories
<1>5. shown' \in Seq({None} \cup Revisions) /\ Len(shown') = Len(shown)
  BY <1>1, <1>3, <1>4, ExceptSeq
<1>6. TypeInv'
  BY <1>5 DEF Inv, TypeInv, ListMemories
<1>7. ASSUME NEW n \in Memories' PROVE (SeenInv(n) /\ ConsentInv(n))'
  <2>1. n \in Memories /\ SeenInv(n) /\ ConsentInv(n)
    BY DEF ListMemories, Memories, Inv
  <2>2. shown'[n] = IF n = m THEN revision ELSE shown[n]
    BY <2>1, <1>1, <1>4
  <2>3. QED
    BY <2>1, <2>2, <1>3 DEF SeenInv, ConsentInv, ListMemories
<1>8. LedgerInv'
  BY DEF Inv, LedgerInv, Made, Memories, ListMemories
<1>9. QED
  BY <1>6, <1>7, <1>8, ContextRests DEF Inv, ListMemories

\* A change of one memory that keeps what the owner has consented to of the others.
LEMMA ChangeKeeps ==
  ASSUME Inv, NEW m \in Memories, NEW row \in Rows, row.revision = memories[m].revision,
         AppendRevision(m, row),
         row.approval = "approved" /\ ~row.deleted => <<m, row.content>> \in approved',
         \A n \in Memories : \A c : n # m /\ <<n, c>> \in approved => <<n, c>> \in approved'
  PROVE  Inv'
<1>1. /\ DOMAIN shown = Memories /\ Memories = 1..Len(memories) /\ memories \in Seq(Rows)
      /\ \A n \in Memories : shown[n] \in {None} \cup Revisions
  BY Shapes DEF Inv, TypeInv
<1>2. PICK next : next = [row EXCEPT !.revision = row.revision + 1]
  OBVIOUS
<1>3. row.revision \in Nat /\ row.revision + 1 \in Nat
  BY DEF Rows
<1>4. next \in Rows
  BY <1>2, <1>3 DEF Rows
<1>5. /\ next.revision = row.revision + 1 /\ next.content = row.content
      /\ next.approval = row.approval /\ next.deleted = row.deleted
  BY <1>2 DEF Rows
<1>6. memories' = [memories EXCEPT ![m] = next]
  BY <1>2 DEF AppendRevision
<1>7. memories' \in Seq(Rows) /\ Len(memories') = Len(memories)
  BY <1>1, <1>4, <1>6, ExceptSeq
<1>8. UNCHANGED <<ledger, targets, shown, contexts>>
  BY DEF AppendRevision
<1>9. TypeInv'
  BY <1>7, <1>8 DEF Inv, TypeInv
<1>10. Memories' = Memories
  BY <1>6 DEF Memories
<1>11. ASSUME NEW n \in Memories' PROVE (SeenInv(n) /\ ConsentInv(n))'
  <2>1. n \in Memories /\ SeenInv(n) /\ ConsentInv(n)
    BY <1>10 DEF Inv
  <2>2. memories'[n] = IF n = m THEN next ELSE memories[n]
    BY <2>1, <1>6 DEF Memories
  <2>3. CASE n = m
    <3>1. memories'[n] = next
      BY <2>2, <2>3
    <3>2. shown[n] # None => shown[n].revision \in Nat
      BY <2>1, <1>1 DEF Revisions
    <3>3. shown[n] # None => shown[n].revision <= row.revision
      BY <2>1, <2>3 DEF SeenInv
    <3>4. SeenInv(n)'
      BY <3>1, <3>2, <3>3, <1>3, <1>5, <1>8 DEF SeenInv
    <3>5. ConsentInv(n)'
      BY <3>1, <2>3, <1>5 DEF ConsentInv
    <3>6. QED
      BY <3>4, <3>5
  <2>4. CASE n # m
    BY <2>1, <2>2, <2>4, <1>8 DEF SeenInv, ConsentInv
  <2>5. QED
    BY <2>3, <2>4
<1>12. LedgerInv'
  BY <1>7, <1>8, <1>10 DEF Inv, LedgerInv, Made
<1>13. QED
  BY <1>8, <1>9, <1>11, <1>12, ContextRests DEF Inv

LEMMA RowOf == ASSUME Inv, NEW m \in Memories PROVE memories[m] \in Rows /\ ConsentInv(m) /\ SeenInv(m)
  BY Shapes DEF Inv

LEMMA SaveEditKeeps ==
  ASSUME Inv, NEW m \in Memories, NEW content \in Contents, SaveEdit(m, content) PROVE Inv'
<1>1. PICK row : row = [memories[m] EXCEPT !.content = content]
  OBVIOUS
<1>2. memories[m] \in Rows
  BY RowOf
<1>3. /\ row \in Rows /\ row.revision = memories[m].revision /\ row.content = content
      /\ row.approval = memories[m].approval
  BY <1>1, <1>2 DEF Rows
<1>4. AppendRevision(m, row)
  BY <1>1 DEF SaveEdit, EditMemory
<1>5. approved' = IF memories[m].approval = "approved"
                  THEN approved \cup {<<m, content>>} ELSE approved
  BY DEF SaveEdit, EditMemory
<1>6. QED
  BY <1>3, <1>4, <1>5, ChangeKeeps

\* The words shown are the current ones, because their revision is.
LEMMA ApproveKeeps == ASSUME Inv, NEW m \in Memories, Approve(m) PROVE Inv'
<1>1. PICK row : row = [memories[m] EXCEPT !.approval = "approved", !.enabled = TRUE]
  OBVIOUS
<1>2. memories[m] \in Rows
  BY RowOf
<1>3. row \in Rows /\ row.revision = memories[m].revision /\ row.content = memories[m].content
  BY <1>1, <1>2 DEF Rows
<1>4. AppendRevision(m, row) /\ approved' = approved \cup {<<m, shown[m].content>>}
  BY <1>1 DEF Approve
<1>5. shown[m].content = memories[m].content
  BY RowOf DEF SeenInv, Approve, MayChange, Requested
<1>6. QED
  BY <1>3, <1>4, <1>5, ChangeKeeps

LEMMA EnableKeeps == ASSUME Inv, NEW m \in Memories, Enable(m) \/ Disable(m) PROVE Inv'
<1>1. PICK enabled \in BOOLEAN :
        AppendRevision(m, [memories[m] EXCEPT !.enabled = enabled]) /\ UNCHANGED approved
  BY DEF Enable, Disable
<1>2. PICK row : row = [memories[m] EXCEPT !.enabled = enabled]
  OBVIOUS
<1>3. memories[m] \in Rows /\ ConsentInv(m)
  BY RowOf
<1>4. /\ row \in Rows /\ row.revision = memories[m].revision
      /\ row.content = memories[m].content /\ row.approval = memories[m].approval
      /\ row.deleted = memories[m].deleted
  BY <1>2, <1>3 DEF Rows
<1>5. row.approval = "approved" /\ ~row.deleted => <<m, row.content>> \in approved
  BY <1>3, <1>4 DEF ConsentInv
<1>6. QED
  BY <1>1, <1>2, <1>4, <1>5, ChangeKeeps

LEMMA DeleteMemoryKeeps == ASSUME Inv, NEW m \in Memories, DeleteMemory(m) PROVE Inv'
<1>1. PICK row : row = [memories[m] EXCEPT !.enabled = FALSE, !.deleted = TRUE]
  OBVIOUS
<1>2. memories[m] \in Rows
  BY RowOf
<1>3. row \in Rows /\ row.revision = memories[m].revision /\ row.deleted
  BY <1>1, <1>2 DEF Rows
<1>4. AppendRevision(m, row) /\ approved' = {item \in approved : item[1] # m}
  BY <1>1 DEF DeleteMemory
<1>5. \A n, c : n # m /\ <<n, c>> \in approved => <<n, c>> \in approved'
  BY <1>4
<1>6. QED
  BY <1>3, <1>4, <1>5, ChangeKeeps

-----------------------------------------------------------------------------
LEMMA CreateRunKeeps == Inv /\ CreateRun => Inv'
<1> SUFFICES ASSUME Inv, CreateRun PROVE Inv'
  OBVIOUS
<1>1. Assembled \subseteq approved /\ Cardinality(Assembled) <= ContextItems
  BY AssembledIsAllowed
<1>2. PICK run : /\ run.items = Assembled /\ run.consent = approved
                 /\ contexts' = contexts \cup {run}
  BY DEF CreateRun
<1>3. \A r \in contexts : r.items \subseteq r.consent /\ Cardinality(r.items) <= ContextItems
  BY DEF Inv, ContextInv
<1>4. ContextInv'
  BY <1>1, <1>2, <1>3 DEF ContextInv
<1>5. QED
  BY <1>4, MemoriesRest DEF CreateRun

LEMMA InvNext == Inv /\ [MemoryNext]_memoryVars => Inv'
<1> SUFFICES ASSUME Inv, [MemoryNext]_memoryVars PROVE Inv'
  OBVIOUS
<1>1. ASSUME NEW key \in Keys, NEW mode \in Modes, NEW content \in Contents,
             NEW scope \in Scopes, CreateFeedback(key, mode, content, scope)
      PROVE  Inv'
  BY <1>1, CreateFeedbackKeeps
<1>2. ASSUME NEW key \in Keys, PurgeTarget(key) PROVE Inv'
  BY <1>2, MemoriesRest, ContextRests DEF PurgeTarget
<1>3. ASSUME NEW m \in Memories, ListMemories(m) PROVE Inv'
  BY <1>3, ListMemoriesKeeps
<1>4. ASSUME NEW m \in Memories, NEW content \in Contents, SaveEdit(m, content) PROVE Inv'
  BY <1>4, SaveEditKeeps
<1>5. ASSUME NEW m \in Memories, Approve(m) \/ Enable(m) \/ Disable(m) \/ DeleteMemory(m)
      PROVE  Inv'
  BY <1>5, ApproveKeeps, EnableKeeps, DeleteMemoryKeeps
<1>6. CASE CreateRun
  BY <1>6, CreateRunKeeps
<1>7. CASE UNCHANGED memoryVars
  BY <1>7, MemoriesRest, ContextRests DEF memoryVars
<1>8. QED
  BY <1>1, <1>2, <1>3, <1>4, <1>5, <1>6, <1>7 DEF MemoryNext

\* For any number of requests, memories and pages: a transcription run is given only
\* words the owner has allowed, within the limit, and a request for feedback makes at
\* most one memory (memory-service.ts, memory-repository.ts).
THEOREM OnlyApprovedContext == MemorySpec => []ApprovedContextOnly
<1>1. MemoryInit => Inv
  BY InvInit
<1>2. Inv /\ [MemoryNext]_memoryVars => Inv'
  BY InvNext
<1>3. Inv => ApprovedContextOnly
  BY InvImplies
<1>4. QED
  BY <1>1, <1>2, <1>3, PTL DEF MemorySpec

-----------------------------------------------------------------------------
(* Artifacts: the inductive invariant.                                       *)

RowFields == {"authority", "active", "revision", "version", "generated", "manual", "candidate"}
SeenFields == {"at", "revision", "active", "payload", "candidate", "pulled"}

RowShape(r) ==
    /\ DOMAIN r = RowFields
    /\ DOMAIN r.candidate = {"payload", "status"}
    /\ r.revision \in Nat

\* A row is edited exactly when its authority is manual.
SoundRow(r) == RowShape(r) /\ (Edited(r) <=> r.authority = "manual")

SoundWord(w) == w.said \/ w.fields = <<>>

ArtifactShapes ==
    /\ DOMAIN rows = Artifacts
    /\ DOMAIN seen = Artifacts
    /\ DOMAIN word = Artifacts
    /\ \A a \in Artifacts : SoundRow(rows[a])
    /\ \A a \in Artifacts : DOMAIN seen[a] = SeenFields /\ seen[a].revision \in Nat
    /\ \A a \in Artifacts : SoundWord(word[a])

\* As long as the revision is the one the panel read, the panel shows what a reader
\* would be shown now, unless the artifact was invalidated.
Accurate(s, r) ==
    s.at # "nothing" =>
        /\ r.authority # "none"
        /\ s.revision <= r.revision
        /\ s.at = "payload" /\ s.revision = r.revision =>
              /\ s.pulled \/ s.payload = Shown(r)
              /\ Reviewable(s) /\ Reviewable(r) => s.candidate.payload = r.candidate.payload

\* What the owner wrote is among the overrides of the active manual revision.
Holds(r, w) ==
    /\ Edited(r)
    /\ r.active
    /\ Tombstoned(r) <=> w.gone
    /\ IsRestriction(w.fields, r.manual.overrides.fields)

PanelInv == \A a \in Artifacts : Accurate(seen[a], rows[a])
WordInv == \A a \in Artifacts \ excused : word[a].said => Holds(rows[a], word[a])

\* What the planner was given existed then and exists now.
PlanInv == plan.held => \A a \in DOMAIN plan.current \cap Artifacts : rows[a].authority # "none"

ArtifactInv == ArtifactShapes /\ PanelInv /\ WordInv /\ PlanInv

-----------------------------------------------------------------------------
(* The operators.                                                            *)

\* What is written over both sides, or over the larger one, keeps a restriction.
LEMMA WithinOverlay ==
  ASSUME NEW f, NEW g, NEW h, IsRestriction(g, h)
  PROVE  IsRestriction(Overlaid(f, g), Overlaid(f, h))
<1>1. DOMAIN Overlaid(f, g) \subseteq DOMAIN Overlaid(f, h)
  BY DEF Overlaid, IsRestriction
<1>2. ASSUME NEW x \in DOMAIN Overlaid(f, g)
      PROVE  Overlaid(f, g)[x] = Overlaid(f, h)[x]
  BY DEF Overlaid, IsRestriction
<1>3. QED
  BY <1>1, <1>2 DEF IsRestriction

LEMMA WithinApplied ==
  ASSUME NEW w, NEW overrides, NEW payload, IsRestriction(w, overrides.fields)
  PROVE  IsRestriction(w, ApplyOverrides(payload, overrides))
<1>1. CASE overrides.whole
  BY <1>1 DEF ApplyOverrides
<1>2. CASE ~overrides.whole
  <2>1. ApplyOverrides(payload, overrides) = Overlaid(overrides.fields, payload)
    BY <1>2 DEF ApplyOverrides
  <2>2. IsRestriction(overrides.fields, Overlaid(overrides.fields, payload))
    BY DEF Overlaid, IsRestriction
  <2>3. QED
    BY <2>1, <2>2 DEF IsRestriction
<1>3. QED
  BY <1>1, <1>2

LEMMA WithinSelf ==
  ASSUME NEW f
  PROVE  IsRestriction(f, f)
  BY DEF IsRestriction

LEMMA RowsOfTheCode ==
  /\ SoundRow(NoRow)
  /\ RowShape(ManualRow) /\ ManualRow.revision = 0
  /\ \A payload : SoundRow(GeneratedRow(payload)) /\ GeneratedRow(payload).authority = "generated"
<1>1. SoundRow(NoRow)
  BY DEF SoundRow, RowShape, RowFields, Edited, NoRow, NoRevision, ManualRevision, NoCandidate
<1>2. /\ DOMAIN ManualRow = RowFields
      /\ ManualRow.authority = "manual"
      /\ ManualRow.revision = 0
      /\ ManualRow.candidate = NoCandidate
      /\ ManualRow.manual = NoRevision
  BY DEF ManualRow, NoRow, RowFields
<1>3. RowShape(ManualRow)
  BY <1>2 DEF RowShape, NoCandidate
<1>4. \A payload : /\ SoundRow(GeneratedRow(payload))
                   /\ GeneratedRow(payload).authority = "generated"
  BY DEF SoundRow, RowShape, RowFields, Edited, GeneratedRow, NoRevision, ManualRevision,
     NoCandidate
<1>5. QED
  BY <1>1, <1>2, <1>3, <1>4

\* Resolving a candidate changes nothing that is shown.
LEMMA Resolving ==
  ASSUME NEW r, RowShape(r), NEW status \in {"superseded", "adopted", "dismissed"}
  PROVE  /\ RowShape(Resolve(r, status))
         /\ \A x \in RowFields \ {"candidate"} : Resolve(r, status)[x] = r[x]
         /\ Resolve(r, status).candidate.payload = r.candidate.payload
         /\ ~Reviewable(Resolve(r, status))
         /\ Shown(Resolve(r, status)) = Shown(r)
<1> DEFINE new == Resolve(r, status)
<1>1. CASE ~Reviewable(r)
  BY <1>1 DEF Resolve
<1>2. CASE Reviewable(r)
  <2>1. new = [r EXCEPT !.candidate = [r.candidate EXCEPT !.status = status]]
    BY <1>2 DEF Resolve
  <2>2. /\ DOMAIN new = RowFields
        /\ \A x \in RowFields \ {"candidate"} : new[x] = r[x]
        /\ new.candidate = [r.candidate EXCEPT !.status = status]
    BY <2>1 DEF RowShape, RowFields
  <2>3. /\ DOMAIN new.candidate = {"payload", "status"}
        /\ new.candidate.payload = r.candidate.payload
        /\ new.candidate.status = status
    BY <2>2 DEF RowShape
  <2>4. /\ new.manual = r.manual /\ new.authority = r.authority
        /\ new.revision = r.revision
    BY <2>2 DEF RowFields
  <2>5. RowShape(new)
    BY <2>2, <2>3, <2>4 DEF RowShape
  <2>6. Basis(new) = Basis(r)
    BY <1>2, <2>3 DEF Basis, Reviewable
  <2>7. Shown(new) = Shown(r)
    BY <2>4, <2>6 DEF Shown
  <2>8. QED
    BY <2>2, <2>3, <2>5, <2>7 DEF Reviewable
<1>3. QED
  BY <1>1, <1>2

Operations == {"confirm", "correct", "pin", "delete", "add", "split_source", "split_result",
               "merge_source", "merge_result"}

LEMMA Appending ==
  ASSUME NEW r, RowShape(r), NEW operation \in Operations, NEW overrides, NEW payload
  PROVE  LET new == AppendManualRevision(r, operation, overrides, payload)
         IN  /\ SoundRow(new)
             /\ Edited(new)
             /\ new.authority = "manual"
             /\ new.active
             /\ new.revision = r.revision + 1
             /\ new.manual = ManualRevision(operation, overrides, payload)
<1> DEFINE old == Resolve(r, "superseded")
           new == AppendManualRevision(r, operation, overrides, payload)
<1>1. RowShape(old) /\ old.revision = r.revision
  BY Resolving DEF RowFields
<1>2. /\ DOMAIN new = RowFields
      /\ new.candidate = old.candidate
      /\ new.manual = ManualRevision(operation, overrides, payload)
      /\ new.authority = "manual" /\ new.active
      /\ new.revision = old.revision + 1
  BY <1>1 DEF RowShape, RowFields, AppendManualRevision
<1>3. Edited(new)
  BY <1>2 DEF Edited, ManualRevision, Operations
<1>4. new.revision \in Nat
  BY <1>1, <1>2 DEF RowShape
<1>5. SoundRow(new)
  BY <1>1, <1>2, <1>3, <1>4 DEF SoundRow, RowShape
<1>6. QED
  BY <1>1, <1>2, <1>3, <1>5

-----------------------------------------------------------------------------
(* Edits.                                                                    *)

\* What an edit has to leave behind at every artifact it touches.
EditedWell(a) ==
    /\ SoundRow(rows'[a])
    /\ rows'[a].authority # "none"
    /\ seen[a].at = "nothing" \/ rows'[a].revision > rows[a].revision
    /\ SoundWord(word'[a])
    /\ a \notin excused' /\ word'[a].said => Holds(rows'[a], word'[a])

LEMMA EditsKeep ==
  ASSUME ArtifactInv, UNCHANGED <<plan, seen>>, excused \subseteq excused',
         DOMAIN rows' = Artifacts, DOMAIN word' = Artifacts,
         \A a \in Artifacts :
            EditedWell(a) \/ (rows'[a] = rows[a] /\ word'[a] = word[a])
  PROVE  ArtifactInv'
<1>1. ArtifactShapes'
  BY DEF ArtifactInv, ArtifactShapes, EditedWell
<1>2. ASSUME NEW a \in Artifacts PROVE Accurate(seen[a], rows'[a])
  <2>1. CASE rows'[a] = rows[a]
    BY <2>1 DEF ArtifactInv, PanelInv
  <2>2. CASE EditedWell(a)
    <3>1. /\ seen[a].revision \in Nat /\ rows[a].revision \in Nat /\ rows'[a].revision \in Nat
          /\ rows'[a].authority # "none"
          /\ seen[a].at = "nothing" \/ rows'[a].revision > rows[a].revision
      BY <2>2 DEF EditedWell, ArtifactInv, ArtifactShapes, SoundRow, RowShape
    <3>2. seen[a].at # "nothing" => seen[a].revision <= rows[a].revision
      BY DEF ArtifactInv, PanelInv, Accurate
    <3>3. seen[a].at # "nothing" => seen[a].revision < rows'[a].revision
      BY <3>1, <3>2
    <3>4. QED
      BY <3>1, <3>3 DEF Accurate
  <2>3. QED
    BY <2>1, <2>2
<1>3. PanelInv'
  BY <1>2 DEF PanelInv
<1>4. ASSUME NEW a \in Artifacts, a \notin excused', word'[a].said
      PROVE  Holds(rows'[a], word'[a])
  <2>1. CASE rows'[a] = rows[a] /\ word'[a] = word[a]
    BY <1>4, <2>1 DEF ArtifactInv, WordInv
  <2>2. CASE EditedWell(a)
    BY <1>4, <2>2 DEF EditedWell
  <2>3. QED
    BY <2>1, <2>2
<1>5. WordInv'
  BY <1>4 DEF WordInv
<1>6. PlanInv'
  BY DEF ArtifactInv, PlanInv, EditedWell
<1>7. QED
  BY <1>1, <1>3, <1>5, <1>6 DEF ArtifactInv

LEMMA DecideKeeps ==
  ASSUME ArtifactInv, NEW a \in Artifacts, NEW r, NEW decision, NEW whole \in BOOLEAN,
         Decide(a, r, decision, whole),
         SoundRow(r), r.authority # "none",
         seen[a].at = "nothing" \/ r.revision > rows[a].revision,
         SoundWord(decision),
         (~(whole /\ seen[a].pulled) /\ a \notin excused /\ decision.said) => Holds(r, decision)
  PROVE  ArtifactInv'
<1>1. DOMAIN rows = Artifacts /\ DOMAIN word = Artifacts
  BY DEF ArtifactInv, ArtifactShapes
<1>2. /\ rows' = [rows EXCEPT ![a] = r]
      /\ word' = [word EXCEPT ![a] = decision]
      /\ UNCHANGED <<plan, seen>>
      /\ excused' = IF whole /\ seen[a].pulled THEN excused \cup {a} ELSE excused
  BY DEF Decide
<1>3. DOMAIN rows' = Artifacts /\ DOMAIN word' = Artifacts /\ excused \subseteq excused'
  BY <1>1, <1>2
<1>4. rows'[a] = r /\ word'[a] = decision
  BY <1>1, <1>2
<1>5. EditedWell(a)
  BY <1>2, <1>4 DEF EditedWell
<1>6. \A b \in Artifacts \ {a} : rows'[b] = rows[b] /\ word'[b] = word[b]
  BY <1>1, <1>2
<1>7. QED
  BY <1>2, <1>3, <1>5, <1>6, EditsKeep

\* The revision in the request is the one the panel read.
LEMMA PanelShows ==
  ASSUME ArtifactInv, NEW a \in Artifacts, MayEdit(a)
  PROVE  /\ SoundRow(rows[a]) /\ RowShape(rows[a])
         /\ rows[a].authority # "none"
         /\ seen[a].pulled \/ seen[a].payload = Shown(rows[a])
         /\ Reviewable(seen[a]) /\ Reviewable(rows[a])
              => seen[a].candidate.payload = rows[a].candidate.payload
         /\ SoundWord(word[a])
  BY DEF ArtifactInv, ArtifactShapes, PanelInv, Accurate, MayEdit, Perform, Actionable,
     PreconditionHolds, SoundRow

Removals == {"delete", "split_source", "merge_source"}

\* A manual revision that has what the owner wrote among its overrides.
LEMMA AppendedHolds ==
  ASSUME NEW r, RowShape(r), NEW operation \in Operations, NEW overrides, NEW payload,
         NEW w, IsRestriction(w.fields, overrides.fields), operation \in Removals <=> w.gone
  PROVE  Holds(AppendManualRevision(r, operation, overrides, payload), w)
<1> DEFINE new == AppendManualRevision(r, operation, overrides, payload)
<1>1. Edited(new) /\ new.active /\ new.manual = ManualRevision(operation, overrides, payload)
  BY Appending
<1>2. new.manual.operation = operation /\ new.manual.overrides = overrides
  BY <1>1 DEF ManualRevision
<1>3. Tombstoned(new) <=> w.gone
  BY <1>2 DEF Tombstoned, Removals
<1>4. QED
  BY <1>1, <1>2, <1>3 DEF Holds

\* Every edit that appends a manual revision to one artifact.
LEMMA AppendKeeps ==
  ASSUME ArtifactInv, NEW a \in Artifacts, MayEdit(a), NEW r, RowShape(r),
         r.revision = rows[a].revision,
         NEW operation \in Operations, NEW overrides, NEW payload,
         NEW w, w.said, operation \in Removals <=> w.gone, NEW whole \in BOOLEAN,
         (~(whole /\ seen[a].pulled) /\ a \notin excused)
            => IsRestriction(w.fields, overrides.fields),
         Decide(a, AppendManualRevision(r, operation, overrides, payload), w, whole)
  PROVE  ArtifactInv'
<1> DEFINE new == AppendManualRevision(r, operation, overrides, payload)
<1>1. SoundRow(new) /\ new.authority # "none" /\ new.revision = r.revision + 1
  BY Appending
<1>2. rows[a].revision \in Nat
  BY PanelShows DEF RowShape
<1>3. new.revision > rows[a].revision
  BY <1>1, <1>2
<1>4. SoundWord(w)
  BY DEF SoundWord
<1>5. (~(whole /\ seen[a].pulled) /\ a \notin excused) => Holds(new, w)
  BY AppendedHolds
<1> HIDE DEF new
<1>6. Decide(a, new, w, whole)
  BY DEF new
<1>7. QED
  BY <1>1, <1>3, <1>4, <1>5, <1>6, DecideKeeps

LEMMA SaidFields ==
  ASSUME NEW fields, NEW gone
  PROVE  /\ Says(fields, gone).said
         /\ Says(fields, gone).fields = fields
         /\ Says(fields, gone).gone = gone
  BY DEF Says

LEMMA ConfirmKeeps ==
  ASSUME ArtifactInv, NEW a \in Artifacts, Confirm(a) PROVE ArtifactInv'
<1> DEFINE w == Says(seen[a].payload, FALSE)
           all == WholeArtifact(Shown(rows[a]))
<1>1. MayEdit(a) /\ Decide(a, AppendManualRevision(rows[a], "confirm", all, Shown(rows[a])), w, TRUE)
  BY DEF Confirm
<1>2. w.said /\ w.fields = seen[a].payload /\ ~w.gone
  BY SaidFields
<1>3. all.fields = Shown(rows[a])
  BY DEF WholeArtifact
<1>4. ~seen[a].pulled => IsRestriction(w.fields, all.fields)
  BY <1>1, <1>2, <1>3, PanelShows, WithinSelf
<1>5. RowShape(rows[a]) /\ "confirm" \in Operations /\ "confirm" \notin Removals
  BY <1>1, PanelShows DEF Operations, Removals
<1>6. QED
  BY <1>1, <1>2, <1>4, <1>5, AppendKeeps

LEMMA DeleteKeeps ==
  ASSUME ArtifactInv, NEW a \in Artifacts, Delete(a) PROVE ArtifactInv'
<1> DEFINE w == Says(seen[a].payload, TRUE)
           all == WholeArtifact(Shown(rows[a]))
<1>1. MayEdit(a) /\ Decide(a, AppendManualRevision(rows[a], "delete", all, Shown(rows[a])), w, TRUE)
  BY DEF Delete
<1>2. w.said /\ w.fields = seen[a].payload /\ w.gone
  BY SaidFields
<1>3. all.fields = Shown(rows[a])
  BY DEF WholeArtifact
<1>4. ~seen[a].pulled => IsRestriction(w.fields, all.fields)
  BY <1>1, <1>2, <1>3, PanelShows, WithinSelf
<1>5. RowShape(rows[a]) /\ "delete" \in Operations /\ "delete" \in Removals
  BY <1>1, PanelShows DEF Operations, Removals
<1>6. QED
  BY <1>1, <1>2, <1>4, <1>5, AppendKeeps

LEMMA CorrectKeeps ==
  ASSUME ArtifactInv, NEW a \in Artifacts, NEW written, Correct(a, written)
  PROVE  ArtifactInv'
<1> DEFINE w == Says(written, FALSE)
           all == MergeOverrides(rows[a].manual.overrides, WholeArtifact(written))
<1>1. MayEdit(a) /\ Decide(a, AppendManualRevision(rows[a], "correct", all, written), w, FALSE)
  BY DEF Correct
<1>2. w.said /\ w.fields = written /\ ~w.gone
  BY SaidFields
<1>3. all.fields = written
  BY DEF WholeArtifact, MergeOverrides
<1>4. IsRestriction(w.fields, all.fields)
  BY <1>2, <1>3, WithinSelf
<1>5. RowShape(rows[a]) /\ "correct" \in Operations /\ "correct" \notin Removals
  BY <1>1, PanelShows DEF Operations, Removals
<1>6. QED
  BY <1>1, <1>2, <1>4, <1>5, AppendKeeps

LEMMA PinKeeps ==
  ASSUME ArtifactInv, NEW a \in Artifacts, NEW field, NEW value, Pin(a, field, value)
  PROVE  ArtifactInv'
<1> DEFINE override == FieldOverride(field, value)
           before == rows[a].manual.overrides
           merged == MergeOverrides(before, override)
           w == Says(Overlaid(Field(field, value), word[a].fields), FALSE)
<1>1. /\ MayEdit(a)
      /\ Decide(a, AppendManualRevision(rows[a], "pin", merged,
                          ApplyOverrides(Shown(rows[a]), override)), w, FALSE)
  BY DEF Pin
<1>2. w.said /\ w.fields = Overlaid(Field(field, value), word[a].fields) /\ ~w.gone
  BY SaidFields
<1>3. merged.fields = Overlaid(Field(field, value), before.fields)
  BY DEF MergeOverrides, FieldOverride
<1>4. ASSUME a \notin excused
      PROVE  IsRestriction(word[a].fields, before.fields)
  <2>1. CASE word[a].said
    BY <1>4, <2>1 DEF ArtifactInv, WordInv, Holds
  <2>2. CASE ~word[a].said
    <3>1. word[a].fields = <<>>
      BY <1>1, <2>2, PanelShows DEF SoundWord
    <3>2. QED
      BY <3>1 DEF IsRestriction
  <2>3. QED
    BY <2>1, <2>2
<1>5. a \notin excused => IsRestriction(w.fields, merged.fields)
  BY <1>2, <1>3, <1>4, WithinOverlay
<1>6. RowShape(rows[a]) /\ "pin" \in Operations /\ "pin" \notin Removals
  BY <1>1, PanelShows DEF Operations, Removals
<1>7. QED
  BY <1>1, <1>2, <1>5, <1>6, AppendKeeps

LEMMA AdoptCandidateKeeps ==
  ASSUME ArtifactInv, NEW a \in Artifacts, AdoptCandidate(a) PROVE ArtifactInv'
<1> DEFINE r == Resolve(rows[a], "adopted")
           payload == rows[a].candidate.payload
           w == Says(seen[a].candidate.payload, FALSE)
<1>1. /\ MayEdit(a)
      /\ Reviewable(seen[a]) /\ Reviewable(rows[a])
      /\ Decide(a, AppendManualRevision(r, "confirm", WholeArtifact(payload), payload), w, FALSE)
  BY DEF AdoptCandidate
<1>2. w.said /\ w.fields = seen[a].candidate.payload /\ ~w.gone
  BY SaidFields
<1>3. WholeArtifact(payload).fields = payload
  BY DEF WholeArtifact
<1>4. IsRestriction(w.fields, WholeArtifact(payload).fields)
  BY <1>1, <1>2, <1>3, PanelShows, WithinSelf
<1>5. RowShape(r) /\ r.revision = rows[a].revision
  BY <1>1, PanelShows, Resolving DEF RowFields
<1>6. "confirm" \in Operations /\ "confirm" \notin Removals
  BY DEF Operations, Removals
<1>7. QED
  BY <1>1, <1>2, <1>4, <1>5, <1>6, AppendKeeps

LEMMA DismissCandidateKeeps ==
  ASSUME ArtifactInv, NEW a \in Artifacts, DismissCandidate(a) PROVE ArtifactInv'
<1> DEFINE old == Resolve(rows[a], "dismissed")
           new == [old EXCEPT !.revision = @ + 1]
<1>1. MayEdit(a) /\ Decide(a, new, word[a], FALSE)
  BY DEF DismissCandidate
<1>2. /\ RowShape(old)
      /\ old.revision = rows[a].revision /\ old.authority = rows[a].authority
      /\ old.manual = rows[a].manual /\ old.active = rows[a].active
  BY <1>1, PanelShows, Resolving DEF RowFields
<1>3. /\ RowShape(new)
      /\ new.revision = rows[a].revision + 1 /\ new.authority = rows[a].authority
      /\ new.manual = rows[a].manual /\ new.active = rows[a].active
  BY <1>2 DEF RowShape, RowFields
<1>4. SoundRow(rows[a]) /\ rows[a].authority # "none" /\ rows[a].revision \in Nat
  BY <1>1, PanelShows DEF RowShape
<1>5. SoundRow(new)
  BY <1>3, <1>4 DEF SoundRow, Edited
<1>6. a \notin excused /\ word[a].said => Holds(new, word[a])
  BY <1>3 DEF ArtifactInv, WordInv, Holds, Edited, Tombstoned
<1>7. SoundWord(word[a])
  BY <1>1, PanelShows
<1>8. new.authority # "none" /\ new.revision > rows[a].revision
  BY <1>3, <1>4
<1> HIDE DEF new
<1>9. QED
  BY <1>1, <1>5, <1>6, <1>7, <1>8, DecideKeeps

LEMMA ReleaseOverrideKeeps ==
  ASSUME ArtifactInv, NEW a \in Artifacts, ReleaseOverride(a) PROVE ArtifactInv'
<1> DEFINE new == [rows[a] EXCEPT !.manual = NoRevision, !.authority = "generated",
                                  !.active = ActiveVersion(rows[a]), !.revision = @ + 1]
<1>1. MayEdit(a) /\ Decide(a, new, NoWord, FALSE)
  BY DEF ReleaseOverride
<1>2. RowShape(rows[a]) /\ rows[a].revision \in Nat
  BY <1>1, PanelShows DEF RowShape
<1>3. /\ RowShape(new) /\ new.revision = rows[a].revision + 1
      /\ new.authority = "generated" /\ new.manual = NoRevision
  BY <1>2 DEF RowShape, RowFields
<1>4. SoundRow(new)
  BY <1>3 DEF SoundRow, Edited, NoRevision, ManualRevision
<1>5. SoundWord(NoWord) /\ ~NoWord.said
  BY DEF SoundWord, NoWord
<1>6. new.authority # "none" /\ new.revision > rows[a].revision
  BY <1>2, <1>3
<1> HIDE DEF new
<1>7. QED
  BY <1>1, <1>4, <1>5, <1>6, DecideKeeps

LEMMA NewArtifacts ==
  ASSUME NEW operation \in Operations \ Removals, NEW payload
  PROVE  LET new == NewArtifact(operation, payload)
         IN  /\ SoundRow(new)
             /\ new.authority # "none"
             /\ Holds(new, Says(payload, FALSE))
<1> DEFINE w == Says(payload, FALSE)
           new == AppendManualRevision(ManualRow, operation, WholeArtifact(payload), payload)
<1>1. SoundRow(new) /\ new.authority = "manual"
  BY RowsOfTheCode, Appending
<1>2. w.fields = payload /\ ~w.gone /\ WholeArtifact(payload).fields = payload
  BY SaidFields DEF WholeArtifact
<1>3. IsRestriction(w.fields, WholeArtifact(payload).fields)
  BY <1>2, WithinSelf
<1>4. Holds(new, w)
  BY <1>2, <1>3, RowsOfTheCode, AppendedHolds
<1>5. QED
  BY <1>1, <1>4 DEF NewArtifact

LEMMA UnusedIsUnseen ==
  ASSUME ArtifactInv, NEW a \in Artifacts, Unused(a)
  PROVE  seen[a].at = "nothing"
  BY DEF ArtifactInv, PanelInv, Accurate, Unused, Stored

LEMMA AddKeeps ==
  ASSUME ArtifactInv, NEW a \in Artifacts, NEW payload, Add(a, payload) PROVE ArtifactInv'
<1> DEFINE new == NewArtifact("add", payload)
           w == Says(payload, FALSE)
<1>1. Unused(a) /\ Decide(a, new, w, FALSE)
  BY DEF Add
<1>2. SoundRow(new) /\ new.authority # "none" /\ Holds(new, w)
  BY NewArtifacts DEF Operations, Removals
<1>3. SoundWord(w)
  BY SaidFields DEF SoundWord
<1>4. seen[a].at = "nothing"
  BY <1>1, UnusedIsUnseen
<1> HIDE DEF new, w
<1>5. QED
  BY <1>1, <1>2, <1>3, <1>4, DecideKeeps

\* A source of a split or a merge.
LEMMA SourceEditedWell ==
  ASSUME ArtifactInv, NEW a \in Artifacts, MayEdit(a),
         NEW operation \in {"split_source", "merge_source"},
         rows'[a] = AppendManualRevision(rows[a], operation, WholeArtifact(Shown(rows[a])),
                                         Shown(rows[a])),
         word'[a] = Says(seen[a].payload, TRUE),
         seen[a].pulled => a \in excused'
  PROVE  EditedWell(a)
<1> DEFINE all == WholeArtifact(Shown(rows[a]))
           new == AppendManualRevision(rows[a], operation, all, Shown(rows[a]))
           w == Says(seen[a].payload, TRUE)
<1>1. operation \in Operations /\ operation \in Removals
  BY DEF Operations, Removals
<1>2. RowShape(rows[a]) /\ rows[a].revision \in Nat
  BY PanelShows DEF RowShape
<1>3. SoundRow(new) /\ new.authority = "manual" /\ new.revision = rows[a].revision + 1
  BY <1>1, <1>2, Appending
<1>4. w.said /\ w.fields = seen[a].payload /\ w.gone /\ all.fields = Shown(rows[a])
  BY SaidFields DEF WholeArtifact
<1>5. ~seen[a].pulled => IsRestriction(w.fields, all.fields)
  BY <1>4, PanelShows, WithinSelf
<1>6. ~seen[a].pulled => Holds(new, w)
  BY <1>1, <1>2, <1>4, <1>5, AppendedHolds
<1>7. SoundWord(w)
  BY <1>4 DEF SoundWord
<1> HIDE DEF new, w
<1>8. rows'[a] = new /\ word'[a] = w
  BY DEF new, w
<1>9. new.revision > rows[a].revision /\ new.authority # "none"
  BY <1>2, <1>3
<1>10. QED
  BY <1>3, <1>6, <1>7, <1>8, <1>9 DEF EditedWell

\* What a split or a merge makes.
LEMMA ResultEditedWell ==
  ASSUME ArtifactInv, NEW b \in Artifacts, Unused(b), NEW payload,
         NEW operation \in {"split_result", "merge_result"},
         rows'[b] = NewArtifact(operation, payload), word'[b] = Says(payload, FALSE)
  PROVE  EditedWell(b)
<1>1. operation \in Operations \ Removals
  BY DEF Operations, Removals
<1>2. seen[b].at = "nothing"
  BY UnusedIsUnseen
<1>3. SoundWord(Says(payload, FALSE))
  BY SaidFields DEF SoundWord
<1>4. QED
  BY <1>1, <1>2, <1>3, NewArtifacts DEF EditedWell

LEMMA SplitKeeps ==
  ASSUME ArtifactInv, NEW a \in Artifacts, NEW pieces, Split(a, pieces) PROVE ArtifactInv'
<1>1. MayEdit(a) /\ \A b \in DOMAIN pieces : Unused(b)
  BY DEF Split
<1>2. a \notin DOMAIN pieces
  BY <1>1, PanelShows DEF Unused, Stored
<1>3. /\ DOMAIN rows' = Artifacts /\ DOMAIN word' = Artifacts
      /\ UNCHANGED <<plan, seen>> /\ excused \subseteq excused'
      /\ seen[a].pulled => a \in excused'
  BY DEF Split
<1>4. /\ rows'[a] = AppendManualRevision(rows[a], "split_source",
                          WholeArtifact(Shown(rows[a])), Shown(rows[a]))
      /\ word'[a] = Says(seen[a].payload, TRUE)
  BY <1>2, Zenon DEF Split
<1>5. EditedWell(a)
  BY <1>1, <1>3, <1>4, SourceEditedWell
<1>6. ASSUME NEW b \in Artifacts, b \in DOMAIN pieces PROVE EditedWell(b)
  <2>1. b # a /\ Unused(b)
    BY <1>1, <1>2, <1>6
  <2>2. /\ rows'[b] = NewArtifact("split_result", pieces[b])
        /\ word'[b] = Says(pieces[b], FALSE)
    BY <1>6, <2>1, Zenon DEF Split
  <2>3. QED
    BY <2>1, <2>2, ResultEditedWell
<1>7. ASSUME NEW b \in Artifacts, b # a, b \notin DOMAIN pieces
      PROVE  rows'[b] = rows[b] /\ word'[b] = word[b]
  BY <1>7, Zenon DEF Split
<1>8. QED
  BY <1>3, <1>5, <1>6, <1>7, EditsKeep

LEMMA MergeKeeps ==
  ASSUME ArtifactInv, NEW sources \in SUBSET Artifacts, NEW into \in Reserved, NEW merged,
         Merge(sources, into, merged)
  PROVE  ArtifactInv'
<1>1. Unused(into) /\ into \in Artifacts /\ \A s \in sources : MayEdit(s)
  BY DEF Merge, Artifacts
<1>2. into \notin sources
  BY <1>1, PanelShows DEF Unused, Stored
<1>3. /\ DOMAIN rows' = Artifacts /\ DOMAIN word' = Artifacts
      /\ UNCHANGED <<plan, seen>> /\ excused \subseteq excused'
      /\ \A s \in sources : seen[s].pulled => s \in excused'
  BY DEF Merge
<1>4. ASSUME NEW s \in Artifacts, s \in sources PROVE EditedWell(s)
  <2>1. s # into
    BY <1>2, <1>4
  <2>2. /\ rows'[s] = AppendManualRevision(rows[s], "merge_source",
                            WholeArtifact(Shown(rows[s])), Shown(rows[s]))
        /\ word'[s] = Says(seen[s].payload, TRUE)
    BY <1>4, <2>1, Zenon DEF Merge
  <2>3. QED
    BY <1>1, <1>3, <1>4, <2>2, SourceEditedWell
<1>5. /\ rows'[into] = NewArtifact("merge_result", merged)
      /\ word'[into] = Says(merged, FALSE)
  BY <1>1, <1>2, Zenon DEF Merge
<1>6. EditedWell(into)
  BY <1>1, <1>5, ResultEditedWell
<1>7. ASSUME NEW b \in Artifacts, b \notin sources, b # into
      PROVE  rows'[b] = rows[b] /\ word'[b] = word[b]
  BY <1>7, Zenon DEF Merge
<1>8. QED
  BY <1>3, <1>4, <1>6, <1>7, EditsKeep

-----------------------------------------------------------------------------
(* Reconciliation, invalidation and the panel's reads.                       *)

\* What a step that is not the owner's leaves of a row: what is shown changes with
\* the revision only.
Reworked(old, new) ==
    /\ SoundRow(new)
    /\ old.authority # "none" => new.authority # "none" /\ new.revision >= old.revision
    /\ new.revision = old.revision => new = old \/ old.authority = "none"

\* And what it leaves of a row with a manual revision, unless it removes the row.
Respected(old, new) ==
    Edited(old) => new.manual = old.manual /\ (old.active => new.active)

LEMMA ReplacedReworks ==
  ASSUME NEW r, SoundRow(r), r.authority # "none", NEW payload
  PROVE  Reworked(r, Replaced(r, payload)) /\ Respected(r, Replaced(r, payload))
<1> DEFINE new == Replaced(r, payload)
<1>1. /\ DOMAIN new = RowFields
      /\ new.candidate = r.candidate /\ new.manual = r.manual
      /\ new.authority = r.authority /\ new.revision = r.revision + 1
      /\ new.active = TRUE
  BY DEF Replaced, SoundRow, RowShape, RowFields
<1>2. r.revision \in Nat
  BY DEF SoundRow, RowShape
<1>3. SoundRow(new)
  BY <1>1, <1>2 DEF SoundRow, RowShape, Edited
<1>4. QED
  BY <1>1, <1>2, <1>3 DEF Reworked, Respected

LEMMA DisagreeReworks ==
  ASSUME NEW r, SoundRow(r), NEW payload
  PROVE  Reworked(r, Disagree(r, payload)) /\ Respected(r, Disagree(r, payload))
<1> DEFINE new == Disagree(r, payload)
<1>1. r.revision \in Nat /\ RowShape(r)
  BY DEF SoundRow, RowShape
<1>2. CASE ~Edited(r) \/ (Edited(r) /\ r.manual.payload = payload /\ ~Reviewable(r))
  BY <1>1, <1>2 DEF Disagree, Reworked, Respected
<1>3. CASE Edited(r) /\ r.manual.payload # payload
  <2>1. new = [r EXCEPT !.candidate = Candidate(payload), !.revision = @ + 1]
    BY <1>3 DEF Disagree
  <2>2. /\ DOMAIN new = RowFields
        /\ new.candidate = Candidate(payload) /\ new.manual = r.manual
        /\ new.authority = r.authority /\ new.revision = r.revision + 1
        /\ new.active = r.active
    BY <1>1, <2>1 DEF RowShape, RowFields
  <2>3. SoundRow(new)
    BY <1>1, <2>2 DEF SoundRow, RowShape, Edited, Candidate
  <2>4. QED
    BY <1>1, <2>2, <2>3 DEF Reworked, Respected
<1>4. CASE Edited(r) /\ r.manual.payload = payload /\ Reviewable(r)
  <2> DEFINE old == Resolve(r, "superseded")
  <2>1. new = [old EXCEPT !.revision = @ + 1]
    BY <1>4 DEF Disagree
  <2>2. /\ RowShape(old) /\ old.manual = r.manual /\ old.authority = r.authority
        /\ old.revision = r.revision /\ old.active = r.active
    BY <1>1, Resolving DEF RowFields
  <2>3. /\ RowShape(new) /\ new.manual = r.manual
        /\ new.authority = r.authority /\ new.revision = r.revision + 1
        /\ new.active = r.active
    BY <1>1, <2>1, <2>2 DEF RowShape, RowFields
  <2>4. SoundRow(new)
    BY <2>3 DEF SoundRow, Edited
  <2>5. QED
    BY <1>1, <2>3, <2>4 DEF Reworked, Respected
<1>5. QED
  BY <1>2, <1>3, <1>4

LEMMA RemovedReworks ==
  ASSUME NEW r, SoundRow(r)
  PROVE  Reworked(r, Removed(r))
<1>1. /\ DOMAIN Removed(r) = RowFields
      /\ Removed(r).candidate = r.candidate /\ Removed(r).manual = r.manual
      /\ Removed(r).authority = r.authority /\ Removed(r).revision = r.revision + 1
  BY DEF Removed, Superseded, SoundRow, RowShape, RowFields
<1>2. r.revision \in Nat
  BY DEF SoundRow, RowShape
<1>3. SoundRow(Removed(r))
  BY <1>1, <1>2 DEF SoundRow, RowShape, Edited
<1>4. QED
  BY <1>1, <1>2, <1>3 DEF Reworked, Respected

LEMMA CreateReworks ==
  ASSUME NEW r, SoundRow(r), NEW payload
  PROVE  Reworked(r, Create(r, payload)) /\ Respected(r, Create(r, payload))
<1>1. CASE r.authority = "none"
  BY <1>1, RowsOfTheCode DEF Create, Reworked, Respected, SoundRow
<1>2. CASE r.authority = "manual"
  BY <1>2 DEF Create, Reworked, Respected, SoundRow, RowShape
<1>3. CASE r.authority \notin {"none", "manual"}
  <2>1. Create(r, payload) = Replaced(r, payload)
    BY <1>3, Zenon DEF Create
  <2>2. QED
    BY <1>3, <2>1, ReplacedReworks
<1>4. QED
  BY <1>1, <1>2, <1>3

LEMMA ReconciledReworks ==
  ASSUME ArtifactInv, plan.held, NEW a \in Artifacts
  PROVE  /\ Reworked(rows[a], Reconciled(a))
         /\ \/ Respected(rows[a], Reconciled(a))
            \/ /\ a \in DOMAIN plan.current
               /\ Outcome(plan.current, plan.result, plan.removes, a) = "remove"
<1> DEFINE outcome == Outcome(plan.current, plan.result, plan.removes, a)
<1>1. SoundRow(rows[a])
  BY DEF ArtifactInv, ArtifactShapes
<1>2. CASE outcome = "create"
  <2>1. Reconciled(a) = Create(rows[a], plan.result[a])
    BY <1>2, Zenon DEF Reconciled
  <2>2. QED
    BY <1>1, <2>1, CreateReworks
<1>3. CASE outcome = "replace"
  <2>1. Reconciled(a) = Replaced(rows[a], plan.result[a])
    BY <1>3 DEF Reconciled
  <2>2. a \in DOMAIN plan.current
    BY <1>3 DEF Outcome
  <2>3. QED
    BY <1>1, <2>1, <2>2, ReplacedReworks DEF ArtifactInv, PlanInv
<1>4. CASE outcome = "remove"
  <2>1. Reconciled(a) = Removed(rows[a])
    BY <1>4 DEF Reconciled
  <2>2. a \in DOMAIN plan.current
    BY <1>4 DEF Outcome
  <2>3. QED
    BY <1>1, <1>4, <2>1, <2>2, RemovedReworks
<1>5. CASE outcome = "unchanged"
  <2>1. \/ Reconciled(a) = Disagree(rows[a], plan.result[a])
        \/ Reconciled(a) = rows[a]
    BY <1>5 DEF Reconciled
  <2>2. QED
    BY <1>1, <2>1, DisagreeReworks DEF Reworked, Respected, SoundRow, RowShape
<1>6. CASE outcome = "retain"
  <2>1. Reconciled(a) = rows[a]
    BY <1>6 DEF Reconciled
  <2>2. QED
    BY <1>1, <2>1 DEF Reworked, Respected, SoundRow, RowShape
<1>7. outcome \in {"create", "replace", "remove", "unchanged", "retain"}
  BY DEF Outcome
<1>8. QED
  BY <1>2, <1>3, <1>4, <1>5, <1>6, <1>7

LEMMA ReworkedAccurate ==
  ASSUME NEW s, NEW old, NEW new, SoundRow(old), s.revision \in Nat,
         Accurate(s, old), Reworked(old, new)
  PROVE  Accurate(s, new)
<1>1. old.revision \in Nat /\ new.revision \in Nat
  BY DEF Reworked, SoundRow, RowShape
<1>2. CASE s.at = "nothing"
  BY <1>2 DEF Accurate
<1>3. CASE s.at # "nothing"
  <2>1. old.authority # "none" /\ s.revision <= old.revision
    BY <1>3 DEF Accurate
  <2>2. new.authority # "none" /\ new.revision >= old.revision /\ s.revision <= new.revision
    BY <1>1, <2>1 DEF Reworked
  <2>3. s.revision = new.revision => new.revision = old.revision
    BY <1>1, <2>1, <2>2
  <2>4. s.revision = new.revision => new = old
    BY <2>1, <2>3 DEF Reworked
  <2>5. QED
    BY <2>2, <2>4 DEF Accurate
<1>4. QED
  BY <1>2, <1>3

LEMMA ApplyReconciliationKeeps ==
  ASSUME ArtifactInv, ApplyReconciliation PROVE ArtifactInv'
<1>1. /\ plan.held /\ rows' = [a \in Artifacts |-> Reconciled(a)]
      /\ UNCHANGED <<seen, word>> /\ excused \subseteq excused'
      /\ \A a \in DOMAIN plan.current :
            (Outcome(plan.current, plan.result, plan.removes, a) = "remove" /\ Edited(rows[a]))
               => a \in excused'
  BY DEF ApplyReconciliation
<1>2. ASSUME NEW a \in Artifacts
      PROVE  Reworked(rows[a], rows'[a]) /\ (a \in excused' \/ Respected(rows[a], rows'[a]))
  <2>1. rows'[a] = Reconciled(a)
    BY <1>1
  <2>2. Reworked(rows[a], Reconciled(a))
    BY <1>1, ReconciledReworks
  <2>3. a \in excused' \/ Respected(rows[a], Reconciled(a))
    BY <1>1, ReconciledReworks DEF Respected
  <2>4. QED
    BY <2>1, <2>2, <2>3
<1>3. ArtifactShapes'
  BY <1>1, <1>2 DEF ArtifactInv, ArtifactShapes, Reworked
<1>4. PanelInv'
  BY <1>1, <1>2, ReworkedAccurate DEF ArtifactInv, ArtifactShapes, PanelInv
<1>5. ASSUME NEW a \in Artifacts, a \notin excused', word[a].said
      PROVE  Holds(rows'[a], word[a])
  <2>1. Holds(rows[a], word[a]) /\ Respected(rows[a], rows'[a])
    BY <1>1, <1>2, <1>5 DEF ArtifactInv, WordInv
  <2>2. QED
    BY <2>1 DEF Holds, Respected, Edited, Tombstoned
<1>6. WordInv'
  BY <1>1, <1>5 DEF WordInv
<1>7. PlanInv'
  BY DEF ApplyReconciliation, NoPlan, PlanInv
<1>8. QED
  BY <1>3, <1>4, <1>6, <1>7 DEF ArtifactInv

LEMMA PlanReconciliationKeeps ==
  ASSUME ArtifactInv, PlanReconciliation PROVE ArtifactInv'
<1>1. UNCHANGED <<rows, seen, word, excused>> /\ plan'.current = Current
  BY DEF PlanReconciliation
<1>2. \A a \in DOMAIN Current : rows[a].authority # "none"
  BY DEF Current, Stored
<1>3. PlanInv'
  BY <1>1, <1>2 DEF PlanInv
<1>4. QED
  BY <1>1, <1>3 DEF ArtifactInv, ArtifactShapes, PanelInv, WordInv

LEMMA InvalidateKeeps ==
  ASSUME ArtifactInv, NEW a \in Artifacts, Invalidate(a) PROVE ArtifactInv'
<1> DEFINE old == rows[a]
           new == Superseded(rows[a])
           panel == [seen[a] EXCEPT !.pulled = seen[a].at # "nothing"]
<1>1. /\ rows[a].authority = "generated" /\ UNCHANGED <<plan, word, excused>>
      /\ DOMAIN rows' = Artifacts /\ DOMAIN seen' = Artifacts
      /\ rows'[a] = new /\ seen'[a] = panel
      /\ \A b \in Artifacts \ {a} : rows'[b] = rows[b] /\ seen'[b] = seen[b]
  BY DEF Invalidate, ArtifactInv, ArtifactShapes
<1>2. SoundRow(old) /\ DOMAIN seen[a] = SeenFields /\ seen[a].revision \in Nat
      /\ Accurate(seen[a], old)
  BY DEF ArtifactInv, ArtifactShapes, PanelInv
<1>3. /\ DOMAIN new = RowFields
      /\ new.candidate = old.candidate /\ new.manual = old.manual
      /\ new.authority = old.authority /\ new.revision = old.revision
  BY <1>2 DEF Superseded, SoundRow, RowShape, RowFields
<1>4. SoundRow(new)
  BY <1>2, <1>3 DEF SoundRow, RowShape, Edited
<1>5. /\ DOMAIN panel = SeenFields
      /\ panel.at = seen[a].at /\ panel.revision = seen[a].revision
      /\ panel.candidate = seen[a].candidate
      /\ panel.pulled = (seen[a].at # "nothing")
  BY <1>2 DEF SeenFields
<1>6. Accurate(panel, new)
  BY <1>2, <1>3, <1>5 DEF Accurate, Reviewable
<1> HIDE DEF new, panel
<1>7. ArtifactShapes'
  BY <1>1, <1>2, <1>4, <1>5 DEF ArtifactInv, ArtifactShapes
<1>8. PanelInv'
  BY <1>1, <1>6 DEF ArtifactInv, PanelInv
<1>9. ~Edited(old)
  BY <1>1, <1>2 DEF SoundRow
<1>10. WordInv'
  BY <1>1, <1>9 DEF ArtifactInv, WordInv, Holds
<1>11. PlanInv'
  BY <1>1, <1>3 DEF ArtifactInv, PlanInv
<1>12. QED
  BY <1>7, <1>8, <1>10, <1>11 DEF ArtifactInv

\* What the panel does changes nothing but what it shows.
LEMMA LooksKeep ==
  ASSUME ArtifactInv, UNCHANGED <<rows, plan, word, excused>>, NEW a \in Artifacts, NEW s,
         seen' = [seen EXCEPT ![a] = s],
         DOMAIN s = SeenFields, s.revision \in Nat, Accurate(s, rows[a])
  PROVE  ArtifactInv'
<1>1. /\ DOMAIN seen' = Artifacts /\ seen'[a] = s
      /\ \A b \in Artifacts \ {a} : seen'[b] = seen[b]
  BY DEF ArtifactInv, ArtifactShapes
<1>2. ArtifactShapes'
  BY <1>1 DEF ArtifactInv, ArtifactShapes
<1>3. PanelInv'
  BY <1>1 DEF ArtifactInv, PanelInv
<1>4. QED
  BY <1>2, <1>3 DEF ArtifactInv, WordInv, PlanInv

LEMMA ReadRowKeeps ==
  ASSUME ArtifactInv, NEW a \in Artifacts, ReadRow(a) PROVE ArtifactInv'
<1> DEFINE s == [Unseen EXCEPT !.at = "row", !.revision = rows[a].revision,
                               !.active = rows[a].active]
<1>1. /\ rows[a].authority # "none" /\ seen' = [seen EXCEPT ![a] = s]
      /\ UNCHANGED <<rows, plan, word, excused>>
  BY DEF ReadRow, Stored
<1>2. rows[a].revision \in Nat
  BY DEF ArtifactInv, ArtifactShapes, SoundRow, RowShape
<1>3. DOMAIN s = SeenFields /\ s.at = "row" /\ s.revision = rows[a].revision
  BY DEF Unseen, SeenFields
<1>4. Accurate(s, rows[a])
  BY <1>1, <1>2, <1>3 DEF Accurate
<1> HIDE DEF s
<1>5. QED
  BY <1>1, <1>2, <1>3, <1>4, LooksKeep

LEMMA ReadPayloadKeeps ==
  ASSUME ArtifactInv, NEW a \in Artifacts, ReadPayload(a) PROVE ArtifactInv'
<1> DEFINE old == seen[a]
           candidate == IF Reviewable(rows[a]) THEN rows[a].candidate ELSE NoCandidate
           s == [old EXCEPT !.at = "payload", !.payload = Shown(rows[a]),
                            !.active = @ /\ ~Tombstoned(rows[a]), !.candidate = candidate]
<1>1. /\ old.at = "row" /\ seen' = [seen EXCEPT ![a] = s]
      /\ UNCHANGED <<rows, plan, word, excused>>
  BY DEF ReadPayload
<1>2. /\ DOMAIN old = SeenFields /\ old.revision \in Nat /\ Accurate(old, rows[a])
  BY DEF ArtifactInv, ArtifactShapes, PanelInv
<1>3. /\ DOMAIN s = SeenFields /\ s.at = "payload" /\ s.revision = old.revision
      /\ s.payload = Shown(rows[a]) /\ s.candidate = candidate
  BY <1>2 DEF SeenFields
<1>4. Accurate(s, rows[a])
  BY <1>1, <1>2, <1>3 DEF Accurate
<1> HIDE DEF s
<1>5. QED
  BY <1>1, <1>2, <1>3, <1>4, LooksKeep

-----------------------------------------------------------------------------
LEMMA ArtifactInvInit == ArtifactInit => ArtifactInv
<1> SUFFICES ASSUME ArtifactInit PROVE ArtifactInv
  OBVIOUS
<1>1. ArtifactShapes
  BY RowsOfTheCode DEF ArtifactInit, ArtifactShapes, SoundWord, NoWord, Unseen, SeenFields
<1>2. PanelInv
  BY DEF ArtifactInit, PanelInv, Accurate, Unseen
<1>3. WordInv /\ PlanInv
  BY DEF ArtifactInit, WordInv, PlanInv, NoWord, NoPlan
<1>4. QED
  BY <1>1, <1>2, <1>3 DEF ArtifactInv

LEMMA EditStepKeeps ==
  ASSUME ArtifactInv, NEW a \in Artifacts, EditStep(a) PROVE ArtifactInv'
<1>1. CASE SaveBullet(a)
  BY <1>1, AddKeeps DEF SaveBullet
<1>2. CASE QuickSplit(a)
  BY <1>2, SplitKeeps DEF QuickSplit
<1>3. ASSUME NEW w \in Words, SaveCorrection(a, w.field, w.value) PROVE ArtifactInv'
  BY <1>3, CorrectKeeps DEF SaveCorrection
<1>4. ASSUME NEW w \in Words, Pin(a, w.field, w.value) PROVE ArtifactInv'
  BY <1>4, PinKeeps
<1>5. QED
  BY <1>1, <1>2, <1>3, <1>4, ConfirmKeeps, DeleteKeeps, AdoptCandidateKeeps,
     DismissCandidateKeeps, ReleaseOverrideKeeps DEF EditStep

LEMMA ArtifactInvNext == ArtifactInv /\ [ArtifactNext]_artifactVars => ArtifactInv'
<1> SUFFICES ASSUME ArtifactInv, [ArtifactNext]_artifactVars PROVE ArtifactInv'
  OBVIOUS
<1>1. CASE PlanReconciliation \/ ApplyReconciliation
  BY <1>1, PlanReconciliationKeeps, ApplyReconciliationKeeps
<1>2. ASSUME NEW a \in Artifacts,
             Invalidate(a) \/ ReadRow(a) \/ ReadPayload(a) \/ EditStep(a)
      PROVE  ArtifactInv'
  BY <1>2, InvalidateKeeps, ReadRowKeeps, ReadPayloadKeeps, EditStepKeeps
<1>3. ASSUME NEW sources \in SUBSET Artifacts, NEW into \in Reserved,
             MergeSelected(sources, into)
      PROVE  ArtifactInv'
  BY <1>3, MergeKeeps DEF MergeSelected
<1>4. CASE UNCHANGED artifactVars
  BY <1>4 DEF artifactVars, ArtifactInv, ArtifactShapes, PanelInv, WordInv, PlanInv
<1>5. QED
  BY <1>1, <1>2, <1>3, <1>4 DEF ArtifactNext

LEMMA ArtifactInvImplies == ArtifactInv => OwnersWordStands
<1> SUFFICES ASSUME ArtifactInv, NEW a \in Artifacts \ excused, word[a].said
             PROVE  /\ Edited(rows[a])
                    /\ rows[a].authority = "manual"
                    /\ IsRestriction(word[a].fields, Shown(rows[a]))
                    /\ Listed(rows[a]) = ~word[a].gone
  BY DEF OwnersWordStands
<1>1. Holds(rows[a], word[a]) /\ SoundRow(rows[a])
  BY DEF ArtifactInv, ArtifactShapes, WordInv
<1>2. IsRestriction(word[a].fields, Shown(rows[a]))
  BY <1>1, WithinApplied DEF Holds, Shown
<1>3. QED
  BY <1>1, <1>2 DEF Holds, SoundRow, Listed

\* Whatever is reconciled or invalidated, and however old what the panel shows is, the
\* fields the owner gave a value keep it, what the owner removed is gone and what was
\* not is listed (artifact-service.ts, processor-reconciliation-repository.ts).
THEOREM WordStands == ArtifactSpec => []OwnersWordStands
<1>1. QED
  BY ArtifactInvInit, ArtifactInvNext, ArtifactInvImplies, PTL DEF ArtifactSpec
=============================================================================
