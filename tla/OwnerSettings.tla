---------------------------- MODULE OwnerSettings ----------------------------
(* The owner's settings: preferences and providers behind one revision, the *)
(* disclosure a provider needs accepted before anything is sent to it, and   *)
(* the schedule of backups, which the queue keeps a copy of.                 *)
(*                                                                           *)
(* The backup schedule stands for all the preferences that the form replaces *)
(* together, and one provider for all of them.                               *)
EXTENDS Absence, Naturals, FiniteSets

CONSTANTS
    Pages,          \* settings pages that are open
    MaxSaves,       \* bound: accepted changes
    MaxSends,       \* bound: provider calls of the worker
    MaxReleases,    \* bound: releases that change the provider's disclosure
    MaxRepeats      \* bound: requests that are sent a second time

ASSUME SettingsAssumption == None \notin Nat

VARIABLES
    stored,      \* the settings in the database
    released,    \* [process -> version of the disclosure it was released with]
    pages,       \* [Pages -> None or what the page shows]
    receipts,    \* accepted changes of preferences, by their revision
    pending,     \* schedules the API still has to tell the queue
    queue,       \* the queue's schedule and the revision it comes from
    overtaken,   \* whether an older schedule was told after a newer one
    sends,       \* provider calls, a history variable
    acceptances  \* disclosures the owner has accepted, a history variable

settingsVars ==
    <<stored, released, pages, receipts, pending, queue, overtaken, sends, acceptances>>

Versions == 1 .. MaxReleases + 1

-----------------------------------------------------------------------------
(* What is stored and what a page shows.                                     *)

ProviderConfiguration ==
    [enabled |-> FALSE, accepted |-> None]

StoredSettings ==
    [revision |-> 1, backup |-> FALSE, provider |-> ProviderConfiguration, credential |-> FALSE]

\* The disclosure is accepted when the version of this release is.
Accepted(process) == stored.provider.accepted = released[process]

\* The tables are read at once on several connections, in any order.
Unread == [revision |-> None, backup |-> None,
           enabled |-> None, accepted |-> None, version |-> None]

Loaded(p) == pages[p] # None /\ \A f \in DOMAIN pages[p] : pages[p][f] # None

GetSettings(p) ==
    /\ pages' = [pages EXCEPT ![p] = Unread]
    /\ UNCHANGED <<stored, released, receipts, pending, queue, overtaken, sends,
                   acceptances>>

ReadRevision(p) ==
    /\ pages[p] # None
    /\ pages[p].revision = None
    /\ pages' = [pages EXCEPT ![p].revision = stored.revision]
    /\ UNCHANGED <<stored, released, receipts, pending, queue, overtaken, sends,
                   acceptances>>

ReadTables(p) ==
    /\ pages[p] # None
    /\ pages[p].backup = None
    /\ pages' = [pages EXCEPT ![p] =
            [@ EXCEPT !.backup = stored.backup,
                      !.enabled = stored.provider.enabled /\ Accepted("api"),
                      !.accepted = Accepted("api"), !.version = released["api"]]]
    /\ UNCHANGED <<stored, released, receipts, pending, queue, overtaken, sends,
                   acceptances>>

-----------------------------------------------------------------------------
(* Changes.                                                                  *)

LockOwner(expected) ==
    /\ stored.revision = expected
    /\ stored.revision <= MaxSaves

Receipt(backup) == [revision |-> stored.revision + 1, backup |-> backup]

\* The queue is told after the commit.
UpdateSettings(p, backup) ==
    /\ Loaded(p)
    /\ LockOwner(pages[p].revision)
    /\ stored' = [stored EXCEPT !.revision = @ + 1, !.backup = backup]
    /\ receipts' = receipts \cup {Receipt(backup)}
    /\ pending' = pending \cup {Receipt(backup)}
    /\ pages' = [pages EXCEPT ![p] = None]
    /\ UNCHANGED <<released, queue, overtaken, sends, acceptances>>

SavePreferences(p) == \E backup \in BOOLEAN : UpdateSettings(p, backup)

\* A request that comes a second time finds its receipt; the queue is told again.
ReplaySettings(receipt) ==
    /\ Cardinality({x \in pending : x.revision < stored.revision}) < MaxRepeats
    /\ pending' = pending \cup {receipt}
    /\ UNCHANGED <<stored, released, pages, receipts, queue, overtaken, sends,
                   acceptances>>

SynchronizeSchedule(told) ==
    /\ pending' = pending \ {told}
    /\ queue' = told
    /\ overtaken' = (told.revision < queue.revision
                     \/ (overtaken /\ told.revision < stored.revision))
    /\ UNCHANGED <<stored, released, pages, receipts, sends, acceptances>>

\* The page sends the acceptance of the version it shows.
\* A mutant takes any tick for it.
Ticked(p, accepts) == accepts /\ pages[p] # None

Acknowledged(p, accepts) == accepts /\ pages[p].version = released["api"]

UpdateProvider(p, enabled, accepts, credential) ==
    /\ Loaded(p)
    /\ enabled => Accepted("api") \/ Acknowledged(p, accepts)
    /\ LockOwner(pages[p].revision)
    /\ stored' = [stored EXCEPT
            !.revision = @ + 1,
            !.provider.enabled = enabled,
            !.provider.accepted = IF Acknowledged(p, accepts) THEN released["api"] ELSE @,
            !.credential = CASE credential = "clear" -> FALSE
                             [] credential = "replace" -> TRUE
                             [] OTHER -> @]
    /\ pages' = [pages EXCEPT ![p] = None]
    /\ acceptances' = IF accepts THEN acceptances \cup {pages[p].version} ELSE acceptances
    /\ UNCHANGED <<released, receipts, pending, queue, overtaken, sends>>

\* The box stays ticked when the disclosure had been accepted.
SaveProvider(p) ==
    \E enabled, ticks \in BOOLEAN, credential \in {"keep", "replace", "clear"} :
        UpdateProvider(p, enabled, ticks \/ pages[p].accepted, credential)

-----------------------------------------------------------------------------
(* The worker.                                                               *)

\* A call is made when the provider is enabled, the disclosure of the worker's
\* release is the accepted one, and there is a credential.
Resolvable ==
    /\ stored.provider.enabled
    /\ Accepted("worker")
    /\ stored.credential

SendToProvider ==
    /\ Cardinality(sends) < MaxSends
    /\ Resolvable
    /\ sends' = sends \cup {[number |-> Cardinality(sends) + 1,
                             version |-> released["worker"],
                             consent |-> acceptances]}
    /\ UNCHANGED <<stored, released, pages, receipts, pending, queue, overtaken,
                   acceptances>>

\* A release may word the disclosure anew; the processes restart one by one.
Release(process) ==
    /\ released[process] <= MaxReleases
    /\ released' = [released EXCEPT ![process] = @ + 1]
    /\ pages' = IF process = "api" THEN [p \in Pages |-> IF Loaded(p) THEN pages[p] ELSE None]
                ELSE pages
    /\ UNCHANGED <<stored, receipts, pending, queue, overtaken, sends, acceptances>>

-----------------------------------------------------------------------------
SettingsInit ==
    /\ stored = StoredSettings
    /\ released = [process \in {"api", "worker"} |-> 1]
    /\ pages = [p \in Pages |-> None]
    /\ receipts = {}
    /\ pending = {}
    /\ queue = [revision |-> 1, backup |-> FALSE]
    /\ overtaken = FALSE
    /\ sends = {}
    /\ acceptances = {}

SettingsNext ==
    \/ \E p \in Pages :
          \/ GetSettings(p)
          \/ ReadRevision(p)
          \/ ReadTables(p)
          \/ Loaded(p) /\ SavePreferences(p)
          \/ Loaded(p) /\ SaveProvider(p)
    \/ \E receipt \in receipts : ReplaySettings(receipt)
    \/ \E told \in pending : SynchronizeSchedule(told)
    \/ SendToProvider
    \/ \E process \in {"api", "worker"} : Release(process)

SettingsSpec == SettingsInit /\ [][SettingsNext]_settingsVars

-----------------------------------------------------------------------------
\* Nothing is sent to a provider under a disclosure the owner has not accepted,
\* whichever releases the API and the worker are at; and once the queue has been
\* told everything, and no older schedule was told last, it runs backups exactly
\* when the settings say so.
ConsentAndSchedule ==
    /\ \A send \in sends : send.version \in send.consent
    /\ pending = {} /\ ~overtaken => queue.backup = stored.backup
=============================================================================
