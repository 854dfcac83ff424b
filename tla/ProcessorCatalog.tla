--------------------------- MODULE ProcessorCatalog ---------------------------
(* The catalog of processors: their immutable versions, the version each of  *)
(* them runs at present, and the seeding of the built-in ones, which an older *)
(* release may have left at their first version.                             *)
(*                                                                           *)
(* A request reads what it checks and writes later in the same transaction:  *)
(* other transactions commit in between, and only the unique indexes and the *)
(* guarded update of the configuration revision stand between them.          *)
EXTENDS Naturals, FiniteSets

CONSTANTS
    BuiltIn,        \* the processor that the releases bring
    Custom,         \* the one the owner publishes
    Drafts,         \* [id, label, needs]: versions the owner may publish
    Clients,        \* clients with a request to make
    MaxRequests,    \* bound: requests
    MaxSeeds        \* bound: times that the database is seeded

VARIABLES
    installations,  \* [Processors -> the installation]
    versions,       \* published versions
    works,          \* [Clients -> the request it has made]
    answers,        \* requests that were accepted
    seeds,          \* times that the database was seeded
    requests,       \* requests so far
    choices         \* [Processors -> the version last chosen], a history variable

catalogVars == <<installations, versions, works, answers, seeds, requests, choices>>

Processors == {BuiltIn, Custom}

Version(id, label, processor, revision, needs) ==
    [id |-> id, label |-> label, processor |-> processor, revision |-> revision,
     needs |-> needs]

LegacyVersion == Version("legacy", 1, BuiltIn, 1, {})
ShippedVersion == Version("shipped", 2, BuiltIn, 2, {})

NoInstallation == [configRevision |-> 0, current |-> "none"]
Installed(processor) == installations[processor].configRevision > 0

VersionsOf(processor) == {v \in versions : v.processor = processor}
Published(id) == \E v \in versions : v.id = id

-----------------------------------------------------------------------------
(* Validation of a draft.                                                    *)

Needs == UNION {{v.id} \X v.needs : v \in versions}

\* What is in every set that holds from and is closed under the graph.
ReachedFrom(graph, from) ==
    LET ends == from \cup {edge[2] : edge \in graph}
        closed == {nodes \in SUBSET ends :
                     /\ from \subseteq nodes
                     /\ \A edge \in graph : edge[1] \in nodes => edge[2] \in nodes}
    IN  {node \in ends : \A nodes \in closed : node \in nodes}

FindProcessorDependencyCycle(graph) ==
    \E edge \in graph : edge[1] \in ReachedFrom(graph, {edge[2]})

\* A version needs published versions of other processors.
AssertValid(draft, processor) ==
    /\ \A need \in draft.needs :
          \E v \in versions : v.id = need /\ v.processor # processor
    /\ ~FindProcessorDependencyCycle(Needs \cup ({draft.id} \X draft.needs))

-----------------------------------------------------------------------------
(* Requests.                                                                 *)

\* The resource carries the revision that a change has to name.
Resource(processor) == installations[processor].configRevision

\* checked: 0, or the revision that was next when the request was checked.
Request(kind, processor, id, expected) ==
    [number |-> requests + 1, kind |-> kind, processor |-> processor, id |-> id,
     expected |-> expected, checked |-> 0]

NoWork ==
    [number |-> 0, kind |-> "none", processor |-> BuiltIn, id |-> "none", expected |-> 0,
     checked |-> 0]

Ask(client, request) ==
    /\ requests < MaxRequests
    /\ works' = [works EXCEPT ![client] = request]
    /\ requests' = requests + 1
    /\ UNCHANGED <<installations, versions, answers, seeds, choices>>

AskCreate(client) ==
    \E draft \in Drafts :
        /\ ~Installed(Custom)
        /\ Ask(client, Request("create", Custom, draft.id, 0))

AskPublish(client) ==
    \E processor \in Processors, draft \in Drafts :
        /\ Installed(processor)
        /\ Ask(client, Request("publish", processor, draft.id, Resource(processor)))

AskUpdate(client) ==
    \E v \in versions :
        Ask(client, Request("update", v.processor, v.id, Resource(v.processor)))

\* An answer that was lost: the client makes the request again under its key.
AskAgain(client) ==
    \E receipt \in answers :
        /\ requests < MaxRequests
        /\ works' = [works EXCEPT ![client] = receipt]
        /\ requests' = requests + 1
        /\ UNCHANGED <<installations, versions, answers, seeds, choices>>

Settled(client) == works' = [works EXCEPT ![client] = NoWork]

Replay(client) ==
    /\ \E receipt \in answers : receipt.number = works[client].number
    /\ Settled(client)
    /\ UNCHANGED <<installations, versions, answers, seeds, requests, choices>>

Draft(id) == CHOOSE draft \in Drafts : draft.id = id

NextRevision(processor) ==
    IF VersionsOf(processor) = {} THEN 1
    ELSE CHOOSE n \in 1 .. Cardinality(versions) + 1 :
            /\ \E v \in VersionsOf(processor) : v.revision = n - 1
            /\ \A v \in VersionsOf(processor) : v.revision < n

\* What a request of each kind checks of what it reads.
CreateChecks(work) ==
    /\ ~Installed(work.processor)
    /\ AssertValid(Draft(work.id), work.processor)

PublishChecks(work) ==
    /\ Resource(work.processor) = work.expected
    /\ AssertValid(Draft(work.id), work.processor)
    /\ ~Published(work.id)
    /\ \A v \in VersionsOf(work.processor) : v.label # Draft(work.id).label

UpdateChecks(work) ==
    /\ Resource(work.processor) = work.expected
    /\ \E v \in VersionsOf(work.processor) : v.id = work.id

Checks(work) ==
    CASE work.kind = "create" -> CreateChecks(work)
      [] work.kind = "publish" -> PublishChecks(work)
      [] OTHER -> UpdateChecks(work)

Checked(work) == [work EXCEPT !.checked = NextRevision(work.processor)]

Check(client) ==
    /\ works[client].checked = 0
    /\ \A receipt \in answers : receipt.number # works[client].number
    /\ works' = [works EXCEPT ![client] =
            IF Checks(@) THEN Checked(@) ELSE NoWork]
    /\ UNCHANGED <<installations, versions, answers, seeds, requests, choices>>

-----------------------------------------------------------------------------
(* Writes.                                                                   *)

Remembered(work) == answers' = answers \cup {[work EXCEPT !.checked = 0]}

NewVersion(work) ==
    Version(work.id, Draft(work.id).label, work.processor, work.checked, Draft(work.id).needs)

\* The unique indexes of the table.
Insertable(version) ==
    \A v \in versions :
        /\ v.id # version.id
        /\ v.processor = version.processor =>
               v.revision # version.revision /\ v.label # version.label

InsertVersion(work) ==
    /\ Insertable(NewVersion(work))
    /\ versions' = versions \cup {NewVersion(work)}

\* A mutant relies on what the request has read.
AdvanceRead(work) ==
    installations' = [installations EXCEPT ![work.processor] =
        [@ EXCEPT !.configRevision = work.expected + 1, !.current = work.id]]

\* The update takes hold where the configuration is still the expected one.
Advance(work) ==
    /\ Resource(work.processor) = work.expected
    /\ installations' = [installations EXCEPT ![work.processor] =
            [@ EXCEPT !.configRevision = work.expected + 1, !.current = work.id]]

CreateProcessor(work) ==
    /\ ~Installed(work.processor)
    /\ InsertVersion(work)
    /\ installations' = [installations EXCEPT ![work.processor] =
            [configRevision |-> 1, current |-> work.id]]

PublishVersion(work) == InsertVersion(work) /\ Advance(work)

Update(work) == Advance(work) /\ UNCHANGED versions

Commit(client) ==
    /\ works[client].checked # 0
    /\ \/ works[client].kind = "create" /\ CreateProcessor(works[client])
       \/ works[client].kind = "publish" /\ PublishVersion(works[client])
       \/ works[client].kind = "update" /\ Update(works[client])
    /\ Remembered(works[client])
    /\ choices' = [choices EXCEPT ![works[client].processor] = works[client].id]
    /\ Settled(client)
    /\ UNCHANGED <<seeds, requests>>

\* An index or the guard of the update refuses: the transaction leaves nothing.
Conflict(client) ==
    LET work == works[client] IN
    /\ work.checked # 0
    /\ \/ work.kind = "create" /\ Installed(work.processor)
       \/ work.kind # "create" /\ Resource(work.processor) # work.expected
       \/ work.kind # "update" /\ ~Insertable(NewVersion(work))
    /\ Settled(client)
    /\ UNCHANGED <<installations, versions, answers, seeds, requests, choices>>

-----------------------------------------------------------------------------
(* Seeding: what is there already is left alone, and a built-in processor    *)
(* that runs its first version is moved to the version of this release.      *)

SeedDatabase ==
    /\ seeds < MaxSeeds
    /\ seeds' = seeds + 1
    /\ versions' = IF Insertable(ShippedVersion) THEN versions \cup {ShippedVersion}
                   ELSE versions
    /\ installations' = [installations EXCEPT ![BuiltIn].current =
            IF @ \in {LegacyVersion.id, ShippedVersion.id} THEN ShippedVersion.id ELSE @]
    /\ UNCHANGED <<works, answers, requests, choices>>

-----------------------------------------------------------------------------
CatalogInit ==
    /\ installations = [processor \in Processors |->
            IF processor = BuiltIn THEN [configRevision |-> 1, current |-> LegacyVersion.id]
            ELSE NoInstallation]
    /\ versions = {LegacyVersion}
    /\ works = [client \in Clients |-> NoWork]
    /\ answers = {}
    /\ seeds = 0
    /\ requests = 0
    /\ choices = [processor \in Processors |-> "none"]

Client(client) ==
    IF works[client].kind = "none"
    THEN AskCreate(client) \/ AskPublish(client) \/ AskUpdate(client) \/ AskAgain(client)
    ELSE Replay(client) \/ Check(client) \/ Commit(client) \/ Conflict(client)

CatalogNext ==
    \/ \E client \in Clients : Client(client)
    \/ SeedDatabase

CatalogSpec == CatalogInit /\ [][CatalogNext]_catalogVars

-----------------------------------------------------------------------------
\* What the catalog runs is what the owner chose last, each accepted request
\* moved the configuration by one whatever the clients repeated or raced, and
\* versions are numbered without a gap and need published versions that are of
\* other processors and not, through others, the version itself.
\* A built-in processor that the owner leaves at its first version is exempt.
CatalogFollowsOwner ==
    /\ \A processor \in Processors :
          LET installed == installations[processor]
              accepted == {r \in answers : r.processor = processor /\ r.kind # "create"}
          IN  Installed(processor) =>
              /\ installed.configRevision = 1 + Cardinality(accepted)
              /\ choices[processor] \notin {"none", LegacyVersion.id} =>
                     installed.current = choices[processor]
              /\ {v.revision : v \in VersionsOf(processor)} =
                     1 .. Cardinality(VersionsOf(processor))
    /\ \A v \in versions :
          /\ \A need \in v.needs : \E w \in versions : w.id = need /\ w.processor # v.processor
          /\ v.id \notin ReachedFrom(Needs, v.needs)
=============================================================================
