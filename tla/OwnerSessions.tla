---------------------------- MODULE OwnerSessions ----------------------------
(* The owner's account: how it is set up and recovered, how sessions are     *)
(* issued, kept alive and ended, and the one-time challenges of passkeys.    *)
(*                                                                           *)
(* Passwords, tokens and keys are abstract: a caller either holds one or     *)
(* does not.  What a service call does in one transaction is one step, and   *)
(* the session is issued by a later step.                                    *)
EXTENDS Absence, Integers, FiniteSets, Sequences, TLC

CONSTANTS
    Callers,          \* browsers of the owner that call the API
    CodesPerSet,      \* recovery codes that are handed out together
    IdleTime,         \* a session ends when it is not used for so long
    AbsoluteTime,     \* and so long after it was issued
    ChallengeTime,    \* how long a challenge may be answered
    MaxTime,          \* bound: ticks of the clock
    MaxSessions,      \* bound: sessions
    MaxSets,          \* bound: sets of recovery codes
    MaxChallenges     \* bound: challenges

ASSUME TimesAssumption ==
    IdleTime \in Nat /\ AbsoluteTime \in Nat /\ ChallengeTime \in Nat

VARIABLES
    clock,
    owner,       \* None or [password, codes]: what is stored of the account
    sessions,    \* sequence of session rows
    challenges,  \* sequence of challenge rows
    passkeys,    \* number of registered authenticators
    callers,     \* [Callers -> what the caller is doing]
    spent        \* what was accepted as proof, a history variable

sessionVars == <<clock, owner, sessions, challenges, passkeys, callers, spent>>

Lesser(a, b) == IF a < b THEN a ELSE b

\* cookie: the session the browser has; pc "issue" waits for its new session,
\* "touch" has found the session of its request alive.
Browser(cookie) == [pc |-> "idle", cookie |-> cookie, read |-> 0]

CallerIs(c, pc) == callers[c].pc = pc

Goto(c, pc) == callers' = [callers EXCEPT ![c].pc = pc]

-----------------------------------------------------------------------------
(* The store.                                                                *)

OwnerRow(set) == [password |-> set, codes |-> {<<set, i>> : i \in 1 .. CodesPerSet}]

\* The account's row is not the missing one.
ASSUME AccountAssumption ==
    MaxSets \in Nat /\ \A set \in 1 .. MaxSets + 1 : OwnerRow(set) # None

CodeSets == IF owner = None THEN 0 ELSE owner.password

SessionRow ==
    [revoked |-> FALSE, idle |-> Lesser(clock + IdleTime, clock + AbsoluteTime),
     absolute |-> clock + AbsoluteTime, set |-> CodeSets]

Expired(s) == sessions[s].idle <= clock \/ sessions[s].absolute <= clock

\* Active sessions, as the settings page lists them.
ActiveSessions == {s \in DOMAIN sessions : ~sessions[s].revoked /\ ~Expired(s)}

Revoked(s) ==
    [sessions EXCEPT ![s].revoked = TRUE]

\* A mutant leaves the sessions of a recovered account alive.
RevokedNone == sessions

RevokedAll == [s \in DOMAIN sessions |-> [sessions[s] EXCEPT !.revoked = TRUE]]

ChallengeRow(purpose) ==
    [purpose |-> purpose, expires |-> clock + ChallengeTime, consumed |-> FALSE]

SaveChallenge(purpose) ==
    /\ Len(challenges) < MaxChallenges
    /\ challenges' = Append(challenges, ChallengeRow(purpose))

\* One update statement finds and consumes the challenge.
ConsumeChallenge(n, purpose) ==
    /\ n \in DOMAIN challenges
    /\ challenges[n].purpose = purpose
    /\ ~challenges[n].consumed
    /\ challenges[n].expires > clock
    /\ challenges' = [challenges EXCEPT ![n].consumed = TRUE]

Spend(proof) == spent' = Append(spent, proof)

-----------------------------------------------------------------------------
(* The account.                                                              *)

\* The singleton constraint refuses a second owner.
CreateOwner == owner = None /\ owner' = OwnerRow(1)

Bootstrap(c) ==
    /\ CallerIs(c, "idle")
    /\ CreateOwner
    /\ Spend(<<"bootstrap">>)
    /\ Goto(c, "issue")
    /\ UNCHANGED <<clock, sessions, challenges, passkeys>>

LoginWithPassword(c) ==
    /\ CallerIs(c, "idle")
    /\ owner # None
    /\ Goto(c, "issue")
    /\ UNCHANGED <<clock, owner, sessions, challenges, passkeys, spent>>

\* The code is spent, the password and every code are replaced, and every
\* session is revoked, in one transaction.
RecoverOwner ==
    /\ \E set \in 1 .. CodeSets, i \in 1 .. CodesPerSet :
          /\ <<set, i>> \in owner.codes
          /\ Spend(<<"code", set, i>>)
    /\ owner' = OwnerRow(CodeSets + 1)
    /\ sessions' = RevokedAll

Recover(c) ==
    /\ CallerIs(c, "idle")
    /\ owner # None
    /\ CodeSets < MaxSets
    /\ RecoverOwner
    /\ Goto(c, "issue")
    /\ UNCHANGED <<clock, challenges, passkeys>>

IssueSession(c) ==
    /\ CallerIs(c, "issue")
    /\ Len(sessions) < MaxSessions
    /\ sessions' = Append(sessions, SessionRow)
    /\ callers' = [callers EXCEPT ![c] = Browser(Len(sessions) + 1)]
    /\ UNCHANGED <<clock, owner, challenges, passkeys, spent>>

-----------------------------------------------------------------------------
(* Requests with a session.                                                  *)

\* A session that has ended is revoked by the request that finds it so.
FindSession(c) ==
    LET s == callers[c].cookie
    IN  /\ CallerIs(c, "idle")
        /\ s # None
        /\ IF s \in ActiveSessions
           THEN /\ callers' = [callers EXCEPT ![c] = [@ EXCEPT !.pc = "touch",
                                                               !.read = clock]]
                /\ UNCHANGED sessions
           ELSE /\ callers' = [callers EXCEPT ![c] = Browser(None)]
                /\ sessions' = Revoked(s)
        /\ UNCHANGED <<clock, owner, challenges, passkeys, spent>>

\* Touching spares a session revoked meanwhile; the request goes on.
TouchSession(c) ==
    LET s == callers[c].cookie
    IN  /\ CallerIs(c, "touch")
        /\ sessions' = IF sessions[s].revoked THEN sessions
                       ELSE [sessions EXCEPT ![s].idle =
                                Lesser(callers[c].read + IdleTime, sessions[s].absolute)]
        /\ Goto(c, "act")
        /\ UNCHANGED <<clock, owner, challenges, passkeys, spent>>

AnyRequest(c) ==
    /\ CallerIs(c, "act")
    /\ Goto(c, "idle")
    /\ UNCHANGED <<clock, owner, sessions, challenges, passkeys, spent>>

Logout(c) ==
    /\ CallerIs(c, "act")
    /\ sessions' = Revoked(callers[c].cookie)
    /\ callers' = [callers EXCEPT ![c] = Browser(None)]
    /\ UNCHANGED <<clock, owner, challenges, passkeys, spent>>

RevokeOwnedSession(c) ==
    /\ CallerIs(c, "act")
    /\ \E s \in ActiveSessions :
          /\ sessions' = Revoked(s)
          /\ callers' = [callers EXCEPT ![c] =
                            Browser(IF @.cookie = s THEN None ELSE @.cookie)]
    /\ UNCHANGED <<clock, owner, challenges, passkeys, spent>>

-----------------------------------------------------------------------------
(* Passkeys.                                                                 *)

RegistrationOptions(c) ==
    /\ CallerIs(c, "act")
    /\ SaveChallenge("passkey_registration")
    /\ Goto(c, "idle")
    /\ UNCHANGED <<clock, owner, sessions, passkeys, spent>>

\* The authenticator answers the challenge; verifying the answer is the library's.
VerifyRegistration(c) ==
    /\ CallerIs(c, "act")
    /\ \E n \in DOMAIN challenges :
          ConsumeChallenge(n, "passkey_registration") /\ Spend(<<"challenge", n>>)
    /\ passkeys' = passkeys + 1
    /\ Goto(c, "rotate")
    /\ UNCHANGED <<clock, owner, sessions>>

\* The session that registered the passkey gives way to a new one.
RotateSession(c) ==
    /\ CallerIs(c, "rotate")
    /\ sessions' = Revoked(callers[c].cookie)
    /\ Goto(c, "issue")
    /\ UNCHANGED <<clock, owner, challenges, passkeys, spent>>

AuthenticationOptions(c) ==
    /\ CallerIs(c, "idle")
    /\ owner # None
    /\ SaveChallenge("passkey_authentication")
    /\ UNCHANGED <<clock, owner, sessions, passkeys, callers, spent>>

LoginWithPasskey(c) ==
    /\ CallerIs(c, "idle")
    /\ passkeys > 0
    /\ \E n \in DOMAIN challenges :
          ConsumeChallenge(n, "passkey_authentication") /\ Spend(<<"challenge", n>>)
    /\ Goto(c, "issue")
    /\ UNCHANGED <<clock, owner, sessions, passkeys>>

Tick ==
    /\ clock < MaxTime
    /\ clock' = clock + 1
    /\ UNCHANGED <<owner, sessions, challenges, passkeys, callers, spent>>

-----------------------------------------------------------------------------
SessionInit ==
    /\ clock = 0
    /\ owner = None
    /\ sessions = <<>>
    /\ challenges = <<>>
    /\ passkeys = 0
    /\ callers = [c \in Callers |-> Browser(None)]
    /\ spent = <<>>

SubmitForm(c) == Bootstrap(c) \/ LoginWithPassword(c) \/ Recover(c)

AuthenticatedRequest(c) == FindSession(c) \/ TouchSession(c) \/ AnyRequest(c)

RegisterPasskey(c) == RegistrationOptions(c) \/ VerifyRegistration(c) \/ RotateSession(c)

UsePasskey(c) == AuthenticationOptions(c) \/ LoginWithPasskey(c)

SessionNext ==
    \/ Tick
    \/ \E c \in Callers :
          \/ SubmitForm(c)
          \/ IssueSession(c)
          \/ AuthenticatedRequest(c)
          \/ Logout(c)
          \/ RevokeOwnedSession(c)
          \/ RegisterPasskey(c)
          \/ UsePasskey(c)

SessionSpec == SessionInit /\ [][SessionNext]_sessionVars

-----------------------------------------------------------------------------
\* Sessions end as the owner was told: the set-up, a recovery code and a
\* challenge are each accepted once, whoever presents them at the same time; a
\* recovery ends every session that was issued before it, whatever requests were
\* under way; and no request prolongs a session beyond its absolute end or brings
\* a revoked one back to the list.
SessionsEnd ==
    /\ Cardinality({spent[i] : i \in DOMAIN spent}) = Len(spent)
    /\ \A s \in DOMAIN sessions :
          /\ sessions[s].set < CodeSets => s \notin ActiveSessions
          /\ s \in ActiveSessions => clock < sessions[s].absolute
          /\ sessions[s].idle <= sessions[s].absolute
=============================================================================
