-------------------------- MODULE ArtifactAuthority --------------------------
(* The artifacts of one journal day: what processors generate, what the    *)
(* owner says about it in the review panel, and how a later result is       *)
(* reconciled with both.                                                    *)
(*                                                                          *)
(* A row keeps the payload of its active generated version, its active      *)
(* manual revision and its newest candidate; superseded history, which no   *)
(* decision reads, is left out.  A payload is a function on the fields it   *)
(* has.  An artifact is identified with its logical key.                    *)
EXTENDS Naturals, FiniteSets, Functions

CONSTANTS
    Generated,        \* logical keys a processor's output may have
    Reserved,         \* identities for what the owner adds, splits and merges
    Proposals,        \* payloads a processor may generate
    Words,            \* what the owner may write into a field
    MaxEdits,         \* bound: edits of the owner that are accepted
    MaxResults,       \* bound: results that are reconciled
    MaxInvalidations  \* bound: results that are invalidated

Artifacts == Generated \cup Reserved

VARIABLES
    rows,    \* [Artifacts -> the row in the database, or NoRow]
    plan,    \* the reconciliation that holds the day's lock, or NoPlan
    seen,    \* [Artifacts -> what the panel shows]
    word,    \* [Artifacts -> what the owner decided], a history variable
    excused, \* artifacts one of the two known gaps has touched
    count    \* what has been spent of the bounds

artifactVars == <<rows, plan, seen, word, excused, count>>

-----------------------------------------------------------------------------
(* Rows and what a reader of the API sees of them.                          *)

WholeArtifact(payload) == [whole |-> TRUE, fields |-> payload]

Field(field, value) == [f \in {field} |-> value]

FieldOverride(field, value) == [whole |-> FALSE, fields |-> Field(field, value)]

ManualRevision(operation, overrides, payload) ==
    [operation |-> operation, overrides |-> overrides, payload |-> payload]

NoRevision == ManualRevision("none", [whole |-> FALSE, fields |-> <<>>], <<>>)

Candidate(payload) == [payload |-> payload, status |-> "reviewable"]

NoCandidate == [payload |-> <<>>, status |-> "none"]

\* version: whether a generated version is active, or there are superseded ones
\* only, or there never was one; generated: the payload of the active version.
NoRow ==
    [authority |-> "none", active |-> FALSE, revision |-> 0, version |-> "none",
     generated |-> <<>>, manual |-> NoRevision, candidate |-> NoCandidate]

GeneratedRow(payload) ==
    [authority |-> "generated", active |-> TRUE, revision |-> 1, version |-> "active",
     generated |-> payload, manual |-> NoRevision, candidate |-> NoCandidate]

\* processor_artifacts has revision 0 until the first manual revision is appended.
ManualRow == [NoRow EXCEPT !.authority = "manual", !.active = TRUE]

Stored(a) == rows[a].authority # "none"

Edited(row) == row.manual.operation # "none"

ActiveVersion(row) == row.version = "active"

Superseded(row) == [row EXCEPT !.version = "superseded", !.generated = <<>>, !.active = FALSE]

\* The payload with the values of these fields written over it.
Overlaid(fields, payload) ==
    [f \in DOMAIN fields \cup DOMAIN payload |->
        IF f \in DOMAIN fields THEN fields[f] ELSE payload[f]]

ApplyOverrides(payload, overrides) ==
    IF overrides.whole THEN overrides.fields ELSE Overlaid(overrides.fields, payload)

MergeOverrides(previous, next) ==
    IF next.whole THEN next
    ELSE [whole |-> previous.whole, fields |-> Overlaid(next.fields, previous.fields)]

\* The newest candidate of any status comes before the active version.
Basis(row) ==
    CASE row.candidate.status # "none" -> row.candidate.payload
      [] row.candidate.status = "none" /\ ActiveVersion(row) -> row.generated
      [] OTHER -> row.manual.payload

Shown(row) == ApplyOverrides(Basis(row), row.manual.overrides)

Tombstoned(row) == row.manual.operation \in {"delete", "split_source", "merge_source"}

Listed(row) == row.active /\ ~Tombstoned(row)

Reviewable(row) == row.candidate.status = "reviewable"

Resolve(row, status) ==
    IF Reviewable(row) THEN [row EXCEPT !.candidate.status = status] ELSE row

-----------------------------------------------------------------------------
(* Reconciling a result.                                                    *)

\* What the planner is given: active artifacts that have an active version.
Current ==
    [a \in {k \in Artifacts : Stored(k) /\ rows[k].active /\ ActiveVersion(rows[k])}
        |-> [authority |-> rows[a].authority, payload |-> rows[a].generated]]

\* replace_scope has one key; append_only never removes.
Results == UNION {[keys -> Proposals] : keys \in SUBSET Generated}

Outcome(current, result, removes, a) ==
    CASE a \in DOMAIN result /\ a \notin DOMAIN current -> "create"
      [] a \in DOMAIN result /\ a \in DOMAIN current ->
            IF current[a].authority = "manual" \/ current[a].payload = result[a]
            THEN "unchanged" ELSE "replace"
      [] a \notin DOMAIN result /\ a \in DOMAIN current /\ removes ->
            IF current[a].authority = "manual" THEN "unchanged" ELSE "remove"
      [] OTHER -> "retain"

NoPlan == [held |-> FALSE, current |-> <<>>, result |-> <<>>, removes |-> FALSE]

\* The day's advisory lock is held from here; the rows are read without one.
PlanReconciliation ==
    /\ ~plan.held
    /\ count.results < MaxResults
    /\ \E result \in Results, removes \in BOOLEAN :
          plan' = [held |-> TRUE, current |-> Current, result |-> result, removes |-> removes]
    /\ count' = [count EXCEPT !.results = @ + 1]
    /\ UNCHANGED <<rows, seen, word, excused>>

Replaced(row, payload) ==
    [row EXCEPT !.version = "active", !.generated = payload, !.active = TRUE,
                !.revision = @ + 1]

Disagree(row, payload) ==
    CASE ~Edited(row) -> row
      [] Edited(row) /\ row.manual.payload # payload ->
            [row EXCEPT !.candidate = Candidate(payload), !.revision = @ + 1]
      [] Edited(row) /\ row.manual.payload = payload ->
            IF Reviewable(row)
            THEN [Resolve(row, "superseded") EXCEPT !.revision = @ + 1] ELSE row

Create(row, payload) ==
    CASE row.authority = "none" -> GeneratedRow(payload)
      [] row.authority = "manual" -> row
      [] OTHER -> Replaced(row, payload)

Removed(row) == [Superseded(row) EXCEPT !.revision = @ + 1]

Reconciled(a) ==
    LET outcome == Outcome(plan.current, plan.result, plan.removes, a)
    IN  CASE outcome = "create" -> Create(rows[a], plan.result[a])
          [] outcome = "replace" -> Replaced(rows[a], plan.result[a])
          [] outcome = "remove" -> Removed(rows[a])
          [] outcome = "unchanged" ->
                IF a \in DOMAIN plan.result /\ plan.current[a].authority = "manual"
                THEN Disagree(rows[a], plan.result[a]) ELSE rows[a]
          [] OTHER -> rows[a]

\* A key whose artifact has no version yet makes the transaction fail.
HasHistory ==
    \A a \in DOMAIN plan.result \ DOMAIN plan.current :
        Stored(a) => rows[a].version # "none"

ApplyReconciliation ==
    /\ plan.held
    /\ HasHistory
    /\ rows' = [a \in Artifacts |-> Reconciled(a)]
    /\ plan' = NoPlan
    /\ excused' = excused \cup
            {a \in DOMAIN plan.current :
                /\ Outcome(plan.current, plan.result, plan.removes, a) = "remove"
                /\ Edited(rows[a])}
    /\ UNCHANGED <<seen, word, count>>

\* The transaction of an edit of the journal supersedes the versions its text
\* led to; the artifact's revision stays.
Invalidate(a) ==
    /\ count.invalidations < MaxInvalidations
    /\ ActiveVersion(rows[a])
    /\ rows[a].authority = "generated"
    /\ rows' = [rows EXCEPT ![a] = Superseded(@)]
    /\ seen' = [seen EXCEPT ![a].pulled = seen[a].at # "nothing"]
    /\ count' = [count EXCEPT !.invalidations = @ + 1]
    /\ UNCHANGED <<plan, word, excused>>

-----------------------------------------------------------------------------
(* The review panel.                                                        *)

\* at: how far the panel has come; pulled: the artifact was invalidated since.
Unseen ==
    [at |-> "nothing", revision |-> 0, active |-> FALSE, payload |-> <<>>,
     candidate |-> NoCandidate, pulled |-> FALSE]

\* The list is read without a transaction: the row, and then what is shown.
ReadRow(a) ==
    /\ Stored(a)
    /\ seen' = [seen EXCEPT ![a] =
                    [Unseen EXCEPT !.at = "row", !.revision = rows[a].revision,
                                   !.active = rows[a].active]]
    /\ UNCHANGED <<rows, plan, word, excused, count>>

ReadPayload(a) ==
    /\ seen[a].at = "row"
    /\ seen' = [seen EXCEPT
            ![a].at = "payload",
            ![a].payload = Shown(rows[a]),
            ![a].active = @ /\ ~Tombstoned(rows[a]),
            ![a].candidate = IF Reviewable(rows[a]) THEN rows[a].candidate
                             ELSE NoCandidate]
    /\ UNCHANGED <<rows, plan, word, excused, count>>

Actionable(a) == seen[a].at = "payload" /\ seen[a].active

\* The request carries the revision the panel shows as a strong ETag.
Perform(a) == Actionable(a) /\ count.edits < MaxEdits

\* A mutant that does not compare the ETag.
AnyRevision(a) == Stored(a)

\* The ETag is compared under the lock of the row.
PreconditionHolds(a) == rows[a].revision = seen[a].revision

MayEdit(a) == Perform(a) /\ PreconditionHolds(a)

\* What a split or a merge may name.
DistinctTargets(sources, results) ==
    \/ Cardinality(sources) = 1 /\ Cardinality(results) >= 2
    \/ Cardinality(sources) >= 2 /\ Cardinality(results) = 1

AppendManualRevision(row, operation, overrides, payload) ==
    [Resolve(row, "superseded") EXCEPT
        !.manual = ManualRevision(operation, overrides, payload),
        !.authority = "manual", !.active = TRUE, !.revision = @ + 1]

Decide(a, row, decision, whole) ==
    /\ rows' = [rows EXCEPT ![a] = row]
    /\ word' = [word EXCEPT ![a] = decision]
    /\ excused' = IF whole /\ seen[a].pulled THEN excused \cup {a} ELSE excused
    /\ count' = [count EXCEPT !.edits = @ + 1]
    /\ UNCHANGED <<plan, seen>>

\* The owner's decision about an artifact: field values and whether it is gone.
Says(fields, gone) == [said |-> TRUE, fields |-> fields, gone |-> gone]

NoWord == [said |-> FALSE, fields |-> <<>>, gone |-> FALSE]

Confirm(a) ==
    /\ MayEdit(a)
    /\ Decide(a,
              AppendManualRevision(rows[a], "confirm", WholeArtifact(Shown(rows[a])), Shown(rows[a])),
              Says(seen[a].payload, FALSE), TRUE)

Correct(a, written) ==
    /\ MayEdit(a)
    /\ Decide(a,
              AppendManualRevision(rows[a], "correct",
                     MergeOverrides(rows[a].manual.overrides, WholeArtifact(written)),
                     written),
              Says(written, FALSE), FALSE)

\* The panel's editor sends the whole payload it was opened with.
SaveCorrection(a, field, value) ==
    /\ Actionable(a)
    /\ Correct(a, Overlaid(Field(field, value), seen[a].payload))

Pin(a, field, value) ==
    LET override == FieldOverride(field, value)
    IN  /\ MayEdit(a)
        /\ field \in DOMAIN Shown(rows[a])
        /\ Decide(a,
                  AppendManualRevision(rows[a], "pin",
                         MergeOverrides(rows[a].manual.overrides, override),
                         ApplyOverrides(Shown(rows[a]), override)),
                  Says(Overlaid(Field(field, value), word[a].fields), FALSE), FALSE)

Delete(a) ==
    /\ MayEdit(a)
    /\ Decide(a,
              AppendManualRevision(rows[a], "delete", WholeArtifact(Shown(rows[a])), Shown(rows[a])),
              Says(seen[a].payload, TRUE), TRUE)

\* A candidate is identified by the payload the panel showed.
AdoptCandidate(a) ==
    /\ MayEdit(a)
    /\ Reviewable(seen[a])
    /\ Reviewable(rows[a])
    /\ Decide(a,
              AppendManualRevision(Resolve(rows[a], "adopted"), "confirm",
                     WholeArtifact(rows[a].candidate.payload),
                     rows[a].candidate.payload),
              Says(seen[a].candidate.payload, FALSE), FALSE)

DismissCandidate(a) ==
    /\ MayEdit(a)
    /\ Reviewable(seen[a])
    /\ Reviewable(rows[a])
    /\ Decide(a, [Resolve(rows[a], "dismissed") EXCEPT !.revision = @ + 1],
              word[a], FALSE)

ReleaseOverride(a) ==
    /\ MayEdit(a)
    /\ Edited(rows[a])
    /\ Decide(a, [rows[a] EXCEPT !.manual = NoRevision, !.authority = "generated",
                                 !.active = ActiveVersion(rows[a]),
                                 !.revision = @ + 1],
              NoWord, FALSE)

NewArtifact(operation, payload) ==
    AppendManualRevision(ManualRow, operation, WholeArtifact(payload), payload)

Unused(a) == a \in Reserved /\ ~Stored(a)

Add(a, payload) ==
    /\ Unused(a)
    /\ count.edits < MaxEdits
    /\ Decide(a, NewArtifact("add", payload), Says(payload, FALSE), FALSE)

SaveBullet(a) == \E payload \in Proposals : Add(a, payload)

\* pieces: the payload of every new artifact.
Split(a, pieces) ==
    /\ MayEdit(a)
    /\ DistinctTargets({a}, DOMAIN pieces)
    /\ \A b \in DOMAIN pieces : Unused(b)
    /\ rows' = [b \in Artifacts |->
            CASE b = a -> AppendManualRevision(rows[a], "split_source",
                                 WholeArtifact(Shown(rows[a])), Shown(rows[a]))
              [] b \in DOMAIN pieces -> NewArtifact("split_result", pieces[b])
              [] OTHER -> rows[b]]
    /\ word' = [b \in Artifacts |->
            CASE b = a -> Says(seen[a].payload, TRUE)
              [] b \in DOMAIN pieces -> Says(pieces[b], FALSE)
              [] OTHER -> word[b]]
    /\ excused' = IF seen[a].pulled THEN excused \cup {a} ELSE excused
    /\ count' = [count EXCEPT !.edits = @ + 1]
    /\ UNCHANGED <<plan, seen>>

\* The quick split makes an artifact of every field the panel shows.
QuickSplit(a) ==
    /\ Actionable(a)
    /\ \E into \in Injection(DOMAIN seen[a].payload, Reserved) :
          Split(a, [b \in Range(into) |->
                      LET f == CHOOSE f \in DOMAIN into : into[f] = b
                      IN  Field(f, seen[a].payload[f])])

\* Every source's revision is in the ETag and every source's row is locked.
Merge(sources, into, merged) ==
    /\ DistinctTargets(sources, {into})
    /\ Unused(into)
    /\ \A s \in sources : MayEdit(s)
    /\ rows' = [b \in Artifacts |->
            CASE b \in sources -> AppendManualRevision(rows[b], "merge_source",
                                         WholeArtifact(Shown(rows[b])), Shown(rows[b]))
              [] b = into -> NewArtifact("merge_result", merged)
              [] OTHER -> rows[b]]
    /\ word' = [b \in Artifacts |->
            CASE b \in sources -> Says(seen[b].payload, TRUE)
              [] b = into -> Says(merged, FALSE)
              [] OTHER -> word[b]]
    /\ excused' = excused \cup {s \in sources : seen[s].pulled}
    /\ count' = [count EXCEPT !.edits = @ + 1]
    /\ UNCHANGED <<plan, seen>>

MergeSelected(sources, into) ==
    /\ \A s \in sources : Actionable(s)
    /\ Merge(sources, into, [s \in sources |-> seen[s].payload])

-----------------------------------------------------------------------------
ArtifactInit ==
    /\ rows = [a \in Artifacts |-> NoRow]
    /\ plan = NoPlan
    /\ seen = [a \in Artifacts |-> Unseen]
    /\ word = [a \in Artifacts |-> NoWord]
    /\ excused = {}
    /\ count = [edits |-> 0, results |-> 0, invalidations |-> 0]

EditStep(a) ==
    \/ Confirm(a)
    \/ Delete(a)
    \/ AdoptCandidate(a)
    \/ DismissCandidate(a)
    \/ ReleaseOverride(a)
    \/ SaveBullet(a)
    \/ QuickSplit(a)
    \/ \E w \in Words : SaveCorrection(a, w.field, w.value) \/ Pin(a, w.field, w.value)

ArtifactNext ==
    \/ PlanReconciliation
    \/ ApplyReconciliation
    \/ \E a \in Artifacts :
          \/ Invalidate(a)
          \/ ReadRow(a)
          \/ ReadPayload(a)
          \/ EditStep(a)
    \/ \E sources \in SUBSET Artifacts, into \in Reserved : MergeSelected(sources, into)

ArtifactSpec == ArtifactInit /\ [][ArtifactNext]_artifactVars

-----------------------------------------------------------------------------
\* What the owner decided about an artifact is what everyone is shown, whatever
\* is reconciled or invalidated and whatever the panel had read: every field the
\* owner gave a value has it, what was removed is gone and what was not is listed.
\* Excused is only an artifact that an invalidation emptied without a new revision
\* before the owner confirmed it, and one that a reconciliation planned to remove
\* before the owner edited it.
OwnersWordStands ==
    \A a \in Artifacts \ excused :
        word[a].said =>
            LET row == rows[a]
            IN  /\ Edited(row)
                /\ row.authority = "manual"
                /\ IsRestriction(word[a].fields, Shown(row))
                /\ Listed(row) = ~word[a].gone
=============================================================================
