---------------------------- MODULE FeedbackMemory ----------------------------
(* Memories: what the owner's feedback asks the application to remember,    *)
(* its approval and revisions, and the snapshot of approved transcription    *)
(* memories that a new transcription run is bound to.                        *)
(*                                                                           *)
(* A memory's number is its place in creation order, which is the order of   *)
(* its version 7 UUID.                                                       *)
EXTENDS Absence, Naturals, FiniteSets, Sequences

CONSTANTS
    Keys,            \* idempotency keys of feedback requests
    Contents,        \* what a memory may say, each a record with a length
    Scopes,          \* scopes a request may ask for
    ContextItems,    \* at most so many items of context
    ContextLength,   \* and at most so many UTF-16 units
    MaxChanges,      \* bound: accepted mutations of memories
    MaxRuns,         \* bound: transcription runs that are created
    MaxPurges        \* bound: feedback targets that are deleted for good

ASSUME MemoryAssumption == ContextItems \in Nat /\ None \notin Nat

VARIABLES
    memories,   \* sequence of memories in creation order
    ledger,     \* [Keys -> None or the memory, 0 for none, that the request made]
    targets,    \* [Keys -> BOOLEAN], the feedback's target exists
    shown,      \* [memory -> what the view shows of it]
    approved,   \* what the owner approved or wrote, a history variable
    contexts,   \* the snapshots bound to runs
    changes     \* accepted mutations

memoryVars == <<memories, ledger, targets, shown, approved, contexts, changes>>

Modes == {"occurrence_only", "suggest_memory", "correct_and_remember"}

-----------------------------------------------------------------------------
(* Rows.                                                                     *)

MemoryRow(content, scope, allowed) ==
    [revision |-> 1, content |-> content, scope |-> scope,
     approval |-> IF allowed THEN "approved" ELSE "pending",
     enabled |-> allowed, deleted |-> FALSE]

\* An immutable revision, as the view and a run's context refer to it.
Revision(m) == [revision |-> memories[m].revision, content |-> memories[m].content]

Memories == DOMAIN memories

\* What kind of memory a scope is for; feedback without one stays local.
Classified(mode, content, scope) ==
    IF mode = "occurrence_only" THEN "occurrence_only"
    ELSE CASE content.type = "transcription" /\ scope # "global_transcription" -> "invalid"
           [] content.type = "processor_rule" /\ scope # "processor" -> "invalid"
           [] OTHER -> scope

-----------------------------------------------------------------------------
(* Feedback.                                                                 *)

\* Looked up before anything else, inside the transaction and outside it.
OwnedTarget(key) == targets[key]

\* The ledger is read again under a lock on the key.
Answered(key) == ledger[key] # None

RecordFeedback(key, memory) == ledger' = [ledger EXCEPT ![key] = memory]

\* A repeated request is answered from the ledger and changes nothing; it is
\* refused when its target has been deleted since.
CreateFeedback(key, mode, content, scope) ==
    LET kind == Classified(mode, content, scope)
        allowed == mode = "correct_and_remember"
    IN  /\ OwnedTarget(key)
        /\ ~Answered(key)
        /\ kind # "invalid"
        /\ IF kind = "occurrence_only"
           THEN RecordFeedback(key, 0) /\ UNCHANGED <<memories, shown, approved>>
           ELSE /\ memories' = Append(memories, MemoryRow(content, scope, allowed))
                /\ RecordFeedback(key, Len(memories) + 1)
                /\ shown' = Append(shown, None)
                /\ approved' = IF allowed
                               THEN approved \cup {<<Len(memories) + 1, content>>}
                               ELSE approved
        /\ UNCHANGED <<targets, contexts, changes>>

PurgeTarget(key) ==
    /\ targets[key]
    /\ Cardinality({k \in Keys : ~targets[k]}) < MaxPurges
    /\ targets' = [targets EXCEPT ![key] = FALSE]
    /\ UNCHANGED <<memories, ledger, shown, approved, contexts, changes>>

-----------------------------------------------------------------------------
(* The view of memories and their mutations.                                 *)

\* Without its switch the view leaves deleted memories out.
Visible(m) == ~memories[m].deleted

ListMemories(m) ==
    /\ Visible(m)
    /\ shown' = [shown EXCEPT ![m] = Revision(m)]
    /\ UNCHANGED <<memories, ledger, targets, approved, contexts, changes>>

\* The row is locked, and its revision is the one of the request's ETag.
Requested(m) == shown[m] # None /\ changes < MaxChanges

\* A mutant that does not compare the revision.
MayChangeUnseen(m) == Requested(m) /\ ~memories[m].deleted

MayChange(m) ==
    /\ Requested(m)
    /\ memories[m].revision = shown[m].revision
    /\ ~memories[m].deleted

AppendRevision(m, row) ==
    /\ memories' = [memories EXCEPT ![m] = [row EXCEPT !.revision = @ + 1]]
    /\ changes' = changes + 1
    /\ UNCHANGED <<ledger, targets, shown, contexts>>

\* An edit keeps the state of approval: the owner's words in a pending memory
\* still wait for the approval.
EditMemory(m, content) ==
    /\ MayChange(m)
    /\ AppendRevision(m, [memories[m] EXCEPT !.content = content])
    /\ approved' = IF memories[m].approval = "approved"
                   THEN approved \cup {<<m, content>>} ELSE approved

\* The editor changes what a memory says, not its type.
SaveEdit(m, content) ==
    /\ Requested(m)
    /\ content.type = shown[m].content.type
    /\ EditMemory(m, content)

Approve(m) ==
    /\ MayChange(m)
    /\ AppendRevision(m, [memories[m] EXCEPT !.approval = "approved", !.enabled = TRUE])
    /\ approved' = approved \cup {<<m, shown[m].content>>}

Enable(m) ==
    /\ MayChange(m)
    /\ memories[m].approval = "approved"
    /\ AppendRevision(m, [memories[m] EXCEPT !.enabled = TRUE])
    /\ UNCHANGED approved

Disable(m) ==
    /\ MayChange(m)
    /\ AppendRevision(m, [memories[m] EXCEPT !.enabled = FALSE])
    /\ UNCHANGED approved

\* The owner's consent ends with the deletion.
DeleteMemory(m) ==
    /\ MayChange(m)
    /\ AppendRevision(m, [memories[m] EXCEPT !.enabled = FALSE, !.deleted = TRUE])
    /\ approved' = {item \in approved : item[1] # m}

-----------------------------------------------------------------------------
(* The context of a transcription run.                                       *)

Applicable(m) ==
    /\ memories[m].approval = "approved"
    /\ memories[m].enabled
    /\ ~memories[m].deleted
    /\ memories[m].scope = "global_transcription"

Usable == {m \in Memories : Applicable(m)}

\* A memory with those that were made before it.
UpTo(m) == {n \in Usable : n <= m}

Length[S \in SUBSET Usable] ==
    IF S = {} THEN 0
    ELSE LET m == CHOOSE m \in S : TRUE
         IN  memories[m].content.length + Length[S \ {m}]

\* The assembly stops at the first memory that no longer fits.
Fits(m) == Cardinality(UpTo(m)) <= ContextItems /\ Length[UpTo(m)] <= ContextLength

Assembled == {<<m, memories[m].content>> : m \in {k \in Usable : Fits(k)}}

CreateRun ==
    /\ Cardinality(contexts) < MaxRuns
    /\ contexts' = contexts \cup
            {[number |-> Cardinality(contexts) + 1, items |-> Assembled,
              consent |-> approved]}
    /\ UNCHANGED <<memories, ledger, targets, shown, approved, changes>>

-----------------------------------------------------------------------------
MemoryInit ==
    /\ memories = <<>>
    /\ ledger = [k \in Keys |-> None]
    /\ targets = [k \in Keys |-> TRUE]
    /\ shown = <<>>
    /\ approved = {}
    /\ contexts = {}
    /\ changes = 0

MemoryNext ==
    \/ \E key \in Keys :
          \/ \E mode \in Modes, content \in Contents, scope \in Scopes :
                CreateFeedback(key, mode, content, scope)
          \/ PurgeTarget(key)
    \/ \E m \in Memories :
          \/ ListMemories(m)
          \/ \E content \in Contents : SaveEdit(m, content)
          \/ Approve(m)
          \/ Enable(m)
          \/ Disable(m)
          \/ DeleteMemory(m)
    \/ CreateRun

MemorySpec == MemoryInit /\ [][MemoryNext]_memoryVars

-----------------------------------------------------------------------------
\* A run is given nothing the owner has not allowed: each memory of its context
\* says, word for word, what the owner wrote in an approved memory or saw when
\* approving it, the owner had not deleted it, the items fit the limits, and one
\* request for feedback has made at most one memory, however often it is sent.
ApprovedContextOnly ==
    /\ \A run \in contexts :
          /\ run.items \subseteq run.consent
          /\ Cardinality(run.items) <= ContextItems
    /\ \A k \in Keys : ledger[k] \notin {None, 0} => ledger[k] \in Memories
    /\ Len(memories) = Cardinality({k \in Keys : ledger[k] \notin {None, 0}})
=============================================================================
