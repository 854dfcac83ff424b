------------------------- MODULE OwnerAccountProofs -------------------------
(* Proofs about the owner's account: the sessions, the settings and the      *)
(* catalog of processors, for any number of callers, pages, clients and      *)
(* releases and any lengths of time.                                         *)
(*                                                                           *)
(* Sessions. A proof of identity is accepted once because accepting it       *)
(* destroys it: a recovery replaces the whole set of codes, an answer        *)
(* consumes its challenge, and a set-up leaves an account. SpentInv says so  *)
(* of every proof that was ever accepted.                                    *)
(*                                                                           *)
(* Settings. The queue is told of a schedule after the transaction that      *)
(* stored it, and two requests may tell it in the wrong order. Of every      *)
(* change there is a receipt, and the receipt of the stored schedule is      *)
(* still to be told, or was told last, or an older one was told after it:    *)
(* QueueInv says so.                                                         *)
(*                                                                           *)
(* Catalog. Two requests may have checked the same revision; the one that    *)
(* commits second finds it changed (ConfigInv). A version is current only    *)
(* when it is published, and the versions need each other without a cycle    *)
(* because a published version never changes what it needs and needs only    *)
(* published ones (AcyclicInv).                                              *)
EXTENDS OwnerSessions, OwnerSettings, ProcessorCatalog,
        FiniteSetTheorems, SequenceTheorems, TLAPS

-----------------------------------------------------------------------------
(* Sessions: the inductive invariant.                                        *)

(* The inductive invariant.                                                  *)

SessionRows == [revoked : BOOLEAN, idle : Nat, absolute : Nat, set : Nat]
Purposes == {"passkey_registration", "passkey_authentication"}
ChallengeRows == [purpose : Purposes, expires : Nat, consumed : BOOLEAN]
Places == {"idle", "issue", "touch", "act", "rotate"}
BrowserStates == [pc : Places, cookie : Nat \cup {None}, read : Nat]

BootstrapProof == <<"bootstrap">>
CodeProof(set, i) == <<"code", set, i>>
ChallengeProof(n) == <<"challenge", n>>
ProofsOfIdentity ==
    {BootstrapProof} \cup {CodeProof(set, i) : set \in Nat, i \in Nat}
    \cup {ChallengeProof(n) : n \in Nat}

TypeInv ==
    /\ clock \in Nat
    /\ owner \in {None} \cup {OwnerRow(set) : set \in 1 .. MaxSets + 1}
    /\ sessions \in Seq(SessionRows)
    /\ challenges \in Seq(ChallengeRows)
    /\ callers \in [Callers -> BrowserStates]
    /\ spent \in Seq(ProofsOfIdentity)

\* A request that has found its session still has its row.
CookieInv ==
    \A c \in Callers : callers[c].pc = "touch" => callers[c].cookie \in DOMAIN sessions

RowInv(s) ==
    /\ sessions[s].idle <= sessions[s].absolute
    /\ sessions[s].set <= CodeSets
    /\ sessions[s].set < CodeSets => sessions[s].revoked
RowsInv == \A s \in DOMAIN sessions : RowInv(s)

\* An accepted proof cannot be presented again.
Void(proof) ==
    /\ proof = BootstrapProof => owner # None
    /\ \A set, i \in Nat : proof = CodeProof(set, i) => set < CodeSets
    /\ \A n \in Nat : proof = ChallengeProof(n) =>
          n \in DOMAIN challenges /\ challenges[n].consumed

SpentInv ==
    /\ \A i \in DOMAIN spent : Void(spent[i])
    /\ IsInjective(spent)

Inv == TypeInv /\ CookieInv /\ RowsInv /\ SpentInv

\* Nothing happens before the account is set up.
AccountInv ==
    owner = None =>
        /\ DOMAIN sessions = {}
        /\ passkeys = 0
        /\ \A c \in Callers : callers[c].pc = "idle"

-----------------------------------------------------------------------------
(* Lemmas about the operators.                                               *)

\* The account's row has the number of its set.
LEMMA AccountSet ==
  /\ OwnerRow(1).password = 1
  /\ \A set : OwnerRow(set).password = set
BY DEF OwnerRow

LEMMA CodeSetsType ==
  ASSUME TypeInv
  PROVE  /\ CodeSets \in 0 .. MaxSets + 1
         /\ owner # None => owner = OwnerRow(CodeSets) /\ CodeSets \in 1 .. MaxSets + 1
         /\ CodeSets \in Nat
BY AccountAssumption, AccountSet DEF TypeInv, CodeSets

\* Each proof of identity has one reading.
LEMMA ProofsDiffer ==
  ASSUME NEW set \in Nat, NEW i \in Nat, NEW n \in Nat,
         NEW s \in Nat, NEW j \in Nat, NEW m \in Nat
  PROVE  /\ BootstrapProof # CodeProof(set, i)
         /\ BootstrapProof # ChallengeProof(n)
         /\ CodeProof(set, i) # ChallengeProof(n)
         /\ CodeProof(set, i) = CodeProof(s, j) => set = s /\ i = j
         /\ ChallengeProof(n) = ChallengeProof(m) => n = m
<1>1. BootstrapProof[1] = "bootstrap" /\ CodeProof(set, i)[1] = "code"
      /\ ChallengeProof(n)[1] = "challenge"
  BY DEF BootstrapProof, CodeProof, ChallengeProof
<1>2. QED
  BY <1>1 DEF CodeProof, ChallengeProof

\* What a sequence without repetitions enumerates has as many elements.
LEMMA Enumerated ==
  ASSUME NEW S, NEW seq \in Seq(S), IsInjective(seq)
  PROVE  Cardinality({seq[i] : i \in DOMAIN seq}) = Len(seq)
<1> DEFINE Rng == {seq[i] : i \in DOMAIN seq}
<1>1. Len(seq) \in Nat /\ DOMAIN seq = 1 .. Len(seq)
  BY LenProperties
<1>2. seq \in [1 .. Len(seq) -> Rng]
  BY <1>1, LenProperties
<1>3. seq \in Bijection(1 .. Len(seq), Rng)
  BY <1>1, <1>2 DEF Bijection, Injection, Surjection
<1>4. QED
  BY <1>1, <1>3, FS_CountingElements DEF ExistsBijection

\* A proof that is not void yet is none of those accepted so far.
LEMMA SpendFresh ==
  ASSUME TypeInv, SpentInv, NEW proof \in ProofsOfIdentity, ~Void(proof), Spend(proof)
  PROVE  /\ spent' \in Seq(ProofsOfIdentity)
         /\ IsInjective(spent')
         /\ \A i \in DOMAIN spent' : spent'[i] = proof \/ \E j \in DOMAIN spent : spent'[i] = spent[j]
<1>1. /\ spent \in Seq(ProofsOfIdentity) /\ spent' = Append(spent, proof)
      /\ DOMAIN spent = 1 .. Len(spent) /\ Len(spent) \in Nat
  BY LenProperties DEF TypeInv, Spend
<1>2. /\ spent' \in Seq(ProofsOfIdentity)
      /\ Len(spent') = Len(spent) + 1
      /\ \A i \in 1 .. Len(spent) : spent'[i] = spent[i]
      /\ spent'[Len(spent) + 1] = proof
  BY <1>1, AppendProperties
<1>3. DOMAIN spent' = 1 .. Len(spent) + 1
  BY <1>2, LenProperties
<1>4. \A i \in 1 .. Len(spent) : spent[i] # proof
  BY <1>1 DEF SpentInv
<1>5. IsInjective(spent')
  <2> SUFFICES ASSUME NEW i \in DOMAIN spent', NEW j \in DOMAIN spent', spent'[i] = spent'[j]
               PROVE  i = j
    BY DEF IsInjective
  <2>1. CASE i \in 1 .. Len(spent) /\ j \in 1 .. Len(spent)
    BY <2>1, <1>1, <1>2 DEF SpentInv, IsInjective
  <2>2. CASE i = Len(spent) + 1 \/ j = Len(spent) + 1
    BY <2>2, <1>1, <1>2, <1>3, <1>4
  <2>3. QED
    BY <2>1, <2>2, <1>1, <1>3
<1>6. QED
  BY <1>1, <1>2, <1>3, <1>5

-----------------------------------------------------------------------------
(* What a step does to the rows of sessions and of challenges.               *)

\* The rows are those there were, some of them revoked.
RowsRevoked ==
    /\ sessions' \in Seq(SessionRows)
    /\ DOMAIN sessions' = DOMAIN sessions
    /\ \A s \in DOMAIN sessions :
          sessions'[s] \in {sessions[s], [sessions[s] EXCEPT !.revoked = TRUE]}

LEMMA RevokedOne ==
  ASSUME TypeInv, NEW x, sessions' = Revoked(x)
  PROVE  RowsRevoked
<1>1. DOMAIN sessions = 1 .. Len(sessions) /\ Len(sessions) \in Nat
      /\ sessions \in [1 .. Len(sessions) -> SessionRows]
  BY LenProperties DEF TypeInv
<1>2. sessions' \in [1 .. Len(sessions) -> SessionRows]
  BY <1>1 DEF Revoked, SessionRows
<1>3. sessions' \in Seq(SessionRows)
  BY <1>1, <1>2, IsASeq
<1>4. QED
  BY <1>1, <1>2, <1>3 DEF Revoked, RowsRevoked, SessionRows

LEMMA RevokedEvery ==
  ASSUME TypeInv, sessions' = RevokedAll
  PROVE  RowsRevoked /\ \A s \in DOMAIN sessions' : sessions'[s].revoked
<1>1. DOMAIN sessions = 1 .. Len(sessions) /\ Len(sessions) \in Nat
      /\ sessions \in [1 .. Len(sessions) -> SessionRows]
  BY LenProperties DEF TypeInv
<1>2. sessions' \in [1 .. Len(sessions) -> SessionRows]
  BY <1>1 DEF RevokedAll, SessionRows
<1>3. sessions' \in Seq(SessionRows)
  BY <1>1, <1>2, IsASeq
<1>4. QED
  BY <1>1, <1>2, <1>3 DEF RevokedAll, RowsRevoked, SessionRows

LEMMA RevokedKeepRows ==
  ASSUME TypeInv, RowsInv, RowsRevoked, CodeSets' = CodeSets
  PROVE  RowsInv'
<1> SUFFICES ASSUME NEW s \in DOMAIN sessions' PROVE RowInv(s)'
  BY DEF RowsInv
<1>1. s \in DOMAIN sessions /\ sessions[s] \in SessionRows
  BY LenProperties DEF RowsRevoked, TypeInv
<1>2. /\ sessions'[s].idle = sessions[s].idle /\ sessions'[s].absolute = sessions[s].absolute
      /\ sessions'[s].set = sessions[s].set
      /\ sessions[s].revoked => sessions'[s].revoked
  BY <1>1 DEF RowsRevoked, SessionRows
<1>3. QED
  BY <1>1, <1>2 DEF RowsInv, RowInv

\* Challenges are added and consumed, and stay consumed.
ChallengesKept ==
    /\ challenges' \in Seq(ChallengeRows)
    /\ \A n \in DOMAIN challenges :
          /\ n \in DOMAIN challenges'
          /\ challenges[n].consumed => challenges'[n].consumed

LEMMA ChallengeSaved ==
  ASSUME TypeInv, NEW purpose \in Purposes, SaveChallenge(purpose)
  PROVE  ChallengesKept
<1>1. ChallengeRow(purpose) \in ChallengeRows
  BY TimesAssumption DEF TypeInv, ChallengeRow, ChallengeRows
<1>2. PICK row \in ChallengeRows : challenges' = Append(challenges, row)
  BY <1>1 DEF SaveChallenge
<1>3. /\ challenges \in Seq(ChallengeRows)
      /\ DOMAIN challenges = 1 .. Len(challenges) /\ Len(challenges) \in Nat
  BY LenProperties DEF TypeInv
<1>4. /\ challenges' \in Seq(ChallengeRows)
      /\ Len(challenges') = Len(challenges) + 1
      /\ \A n \in 1 .. Len(challenges) : challenges'[n] = challenges[n]
  BY <1>2, <1>3, AppendProperties
<1>5. DOMAIN challenges' = 1 .. Len(challenges) + 1
  BY <1>4, LenProperties
<1>6. QED
  BY <1>3, <1>4, <1>5 DEF ChallengesKept

LEMMA ChallengeConsumed ==
  ASSUME TypeInv, NEW n \in DOMAIN challenges, NEW purpose, ConsumeChallenge(n, purpose)
  PROVE  /\ ChallengesKept
         /\ n \in Nat /\ n \in DOMAIN challenges' /\ challenges'[n].consumed
         /\ ~challenges[n].consumed
<1>1. /\ DOMAIN challenges = 1 .. Len(challenges) /\ Len(challenges) \in Nat
      /\ challenges \in [1 .. Len(challenges) -> ChallengeRows]
  BY LenProperties DEF TypeInv
<1>2. challenges' = [challenges EXCEPT ![n].consumed = TRUE] /\ ~challenges[n].consumed
  BY DEF ConsumeChallenge
<1>3. challenges' \in [1 .. Len(challenges) -> ChallengeRows]
  BY <1>1, <1>2 DEF ChallengeRows
<1>4. challenges' \in Seq(ChallengeRows)
  BY <1>1, <1>3, IsASeq
<1>5. QED
  BY <1>1, <1>2, <1>3, <1>4 DEF ChallengesKept, ChallengeRows

-----------------------------------------------------------------------------
(* What was accepted stays void.                                             *)

LEMMA VoidStays ==
  ASSUME TypeInv, ChallengesKept, owner # None => owner' # None,
         CodeSets' \in Nat, CodeSets <= CodeSets'
  PROVE  \A proof : Void(proof) => Void(proof)'
BY CodeSetsType DEF Void, ChallengesKept

LEMMA SpentStays ==
  ASSUME TypeInv, SpentInv, ChallengesKept, owner # None => owner' # None,
         CodeSets' \in Nat, CodeSets <= CodeSets', UNCHANGED spent
  PROVE  SpentInv'
BY VoidStays DEF SpentInv

LEMMA SpentGrows ==
  ASSUME TypeInv, SpentInv, ChallengesKept, owner # None => owner' # None,
         CodeSets' \in Nat, CodeSets <= CodeSets',
         NEW proof \in ProofsOfIdentity, ~Void(proof), Void(proof)', Spend(proof)
  PROVE  SpentInv' /\ spent' \in Seq(ProofsOfIdentity)
<1>1. \A j \in DOMAIN spent : Void(spent[j])
  BY DEF SpentInv
<1>2. \A p : Void(p) => Void(p)'
  BY VoidStays
<1>3. /\ spent' \in Seq(ProofsOfIdentity)
      /\ IsInjective(spent')
      /\ \A i \in DOMAIN spent' : spent'[i] = proof \/ \E j \in DOMAIN spent : spent'[i] = spent[j]
  BY SpendFresh
<1>4. ASSUME NEW i \in DOMAIN spent' PROVE Void(spent[i])'
  <2>1. CASE spent'[i] = proof
    <3>1. \A p : p = proof => Void(p)'
      OBVIOUS
    <3>2. QED
      BY <2>1, <3>1 DEF Void
  <2>2. ASSUME NEW j \in DOMAIN spent, spent'[i] = spent[j] PROVE Void(spent[i])'
    BY <2>2, <1>1, <1>2 DEF Void
  <2>3. QED
    BY <1>3, <2>1, <2>2
<1>5. QED
  BY <1>3, <1>4 DEF SpentInv

-----------------------------------------------------------------------------
(* The steps.                                                                *)

\* What a browser that waits for its owner holds.
LEMMA BrowserWaits ==
  ASSUME NEW cookie \in Nat \cup {None}
  PROVE  Browser(cookie) \in BrowserStates /\ Browser(cookie).pc = "idle"
BY DEF Browser, BrowserStates, Places

LEMMA InvInit == SessionInit => Inv
<1> SUFFICES ASSUME SessionInit PROVE Inv
  OBVIOUS
<1>1. TypeInv
  <2>1. callers \in [Callers -> BrowserStates]
    BY BrowserWaits DEF SessionInit
  <2>2. sessions \in Seq(SessionRows) /\ challenges \in Seq(ChallengeRows)
        /\ spent \in Seq(ProofsOfIdentity)
    BY EmptySeq DEF SessionInit
  <2>3. QED
    BY <2>1, <2>2 DEF SessionInit, TypeInv
<1>2. CookieInv /\ RowsInv /\ SpentInv
  BY DEF SessionInit, CookieInv, RowsInv, SpentInv, Browser, IsInjective
<1>3. QED
  BY <1>1, <1>2 DEF Inv

\* A caller moves on, and everything it relies on is as it was.
LEMMA CallerMoves ==
  ASSUME Inv, NEW c \in Callers, NEW pc \in Places, Goto(c, pc), pc # "touch"
  PROVE  /\ callers' \in [Callers -> BrowserStates]
         /\ \A b \in Callers : callers'[b].pc = "touch" =>
               callers'[b] = callers[b] /\ callers[b].cookie \in DOMAIN sessions
BY DEF Inv, TypeInv, CookieInv, Goto, BrowserStates

LEMMA CallerReturns ==
  ASSUME Inv, NEW c \in Callers, NEW cookie \in Nat \cup {None},
         callers' = [callers EXCEPT ![c] = Browser(cookie)]
  PROVE  /\ callers' \in [Callers -> BrowserStates]
         /\ \A b \in Callers : callers'[b].pc = "touch" =>
               callers'[b] = callers[b] /\ callers[b].cookie \in DOMAIN sessions
<1>1. Browser(cookie) \in BrowserStates /\ Browser(cookie).pc = "idle"
  BY BrowserWaits
<1>2. callers' \in [Callers -> BrowserStates]
  BY <1>1 DEF Inv, TypeInv
<1>3. ASSUME NEW b \in Callers, callers'[b].pc = "touch"
      PROVE  callers'[b] = callers[b] /\ callers[b].cookie \in DOMAIN sessions
  BY <1>1, <1>3 DEF Inv, TypeInv, CookieInv
<1>4. QED
  BY <1>2, <1>3

\* Steps that leave the account, its sessions and what was accepted alone.
LEMMA QuietStep ==
  ASSUME Inv, ChallengesKept, clock' \in Nat, UNCHANGED <<owner, sessions, spent>>,
         callers' \in [Callers -> BrowserStates],
         \A b \in Callers : callers'[b].pc = "touch" =>
             callers'[b] = callers[b] /\ callers[b].cookie \in DOMAIN sessions
  PROVE  Inv'
<1>1. TypeInv'
  BY DEF Inv, TypeInv, ChallengesKept
<1>2. CodeSets' = CodeSets /\ CodeSets \in Nat
  BY CodeSetsType DEF Inv, CodeSets
<1>3. CookieInv' /\ RowsInv'
  BY <1>2 DEF Inv, CookieInv, RowsInv, RowInv
<1>4. SpentInv'
  BY <1>2, SpentStays DEF Inv
<1>5. QED
  BY <1>1, <1>3, <1>4 DEF Inv

LEMMA ChallengesUnchanged ==
  ASSUME TypeInv, UNCHANGED challenges
  PROVE  ChallengesKept
BY DEF TypeInv, ChallengesKept

\* Steps that revoke sessions.
LEMMA RevokingStep ==
  ASSUME Inv, RowsRevoked, UNCHANGED <<clock, owner, challenges, spent>>,
         callers' \in [Callers -> BrowserStates],
         \A b \in Callers : callers'[b].pc = "touch" =>
             callers'[b] = callers[b] /\ callers[b].cookie \in DOMAIN sessions
  PROVE  Inv'
<1>1. TypeInv'
  BY DEF Inv, TypeInv, RowsRevoked
<1>2. CodeSets' = CodeSets /\ CodeSets \in Nat
  BY CodeSetsType DEF Inv, CodeSets
<1>3. CookieInv'
  BY DEF CookieInv, RowsRevoked
<1>4. RowsInv'
  BY <1>2, RevokedKeepRows DEF Inv
<1>5. SpentInv'
  BY <1>2, SpentStays, ChallengesUnchanged DEF Inv
<1>6. QED
  BY <1>1, <1>3, <1>4, <1>5 DEF Inv

LEMMA CallersStay ==
  ASSUME Inv, UNCHANGED callers
  PROVE  /\ callers' \in [Callers -> BrowserStates]
         /\ \A b \in Callers : callers'[b].pc = "touch" =>
               callers'[b] = callers[b] /\ callers[b].cookie \in DOMAIN sessions
BY DEF Inv, TypeInv, CookieInv

LEMMA MovesQuietly ==
  ASSUME Inv, NEW c \in Callers, NEW pc \in {"issue", "idle"}, Goto(c, pc),
         UNCHANGED <<clock, owner, sessions, challenges, spent>>
  PROVE  Inv'
<1>1. clock' \in Nat /\ ChallengesKept
  BY ChallengesUnchanged DEF Inv, TypeInv
<1>2. pc \in Places /\ pc # "touch"
  BY DEF Places
<1>3. /\ callers' \in [Callers -> BrowserStates]
      /\ \A b \in Callers : callers'[b].pc = "touch" =>
            callers'[b] = callers[b] /\ callers[b].cookie \in DOMAIN sessions
  BY <1>2, CallerMoves
<1>4. QED
  BY <1>1, <1>3, QuietStep

LEMMA QuietSteps ==
  ASSUME Inv, NEW c \in Callers,
         \/ LoginWithPassword(c)
         \/ AnyRequest(c)
         \/ RegistrationOptions(c)
         \/ AuthenticationOptions(c)
         \/ Tick
  PROVE  Inv'
<1> clock \in Nat
  BY DEF Inv, TypeInv
<1>1. CASE LoginWithPassword(c)
  <2>1. Goto(c, "issue") /\ UNCHANGED <<clock, owner, sessions, challenges, spent>>
    BY <1>1 DEF LoginWithPassword
  <2>2. QED
    BY <2>1, MovesQuietly
<1>2. CASE AnyRequest(c)
  <2>1. Goto(c, "idle") /\ UNCHANGED <<clock, owner, sessions, challenges, spent>>
    BY <1>2 DEF AnyRequest
  <2>2. QED
    BY <2>1, MovesQuietly
<1>3. CASE RegistrationOptions(c)
  <2>1. /\ Goto(c, "idle")
        /\ UNCHANGED <<clock, owner, sessions, spent>>
        /\ SaveChallenge("passkey_registration")
    BY <1>3 DEF RegistrationOptions
  <2>2. ChallengesKept
    BY <2>1, ChallengeSaved DEF Inv, Purposes
  <2>3. /\ callers' \in [Callers -> BrowserStates]
        /\ \A b \in Callers : callers'[b].pc = "touch" =>
              callers'[b] = callers[b] /\ callers[b].cookie \in DOMAIN sessions
    BY <2>1, CallerMoves DEF Places
  <2>4. QED
    BY <2>1, <2>2, <2>3, QuietStep
<1>4. CASE AuthenticationOptions(c)
  <2>1. /\ UNCHANGED <<clock, owner, sessions, spent, callers>>
        /\ SaveChallenge("passkey_authentication")
    BY <1>4 DEF AuthenticationOptions
  <2>2. ChallengesKept
    BY <2>1, ChallengeSaved DEF Inv, Purposes
  <2>3. QED
    BY <2>1, <2>2, CallersStay, QuietStep
<1>5. CASE Tick
  <2>1. UNCHANGED <<owner, sessions, spent, callers, challenges>> /\ clock' \in Nat
    BY <1>5 DEF Tick
  <2>2. ChallengesKept
    BY <2>1, ChallengesUnchanged DEF Inv
  <2>3. QED
    BY <2>1, <2>2, CallersStay, QuietStep
<1>6. QED
  BY <1>1, <1>2, <1>3, <1>4, <1>5

LEMMA ReturnsRevoking ==
  ASSUME Inv, RowsRevoked, UNCHANGED <<clock, owner, challenges, spent>>,
         NEW c \in Callers, NEW cookie \in Nat \cup {None},
         callers' = [callers EXCEPT ![c] = Browser(cookie)]
  PROVE  Inv'
<1>1. /\ callers' \in [Callers -> BrowserStates]
      /\ \A b \in Callers : callers'[b].pc = "touch" =>
            callers'[b] = callers[b] /\ callers[b].cookie \in DOMAIN sessions
  BY CallerReturns
<1>2. QED
  BY <1>1, RevokingStep

LEMMA RevokingSteps ==
  ASSUME Inv, NEW c \in Callers,
         \/ Logout(c)
         \/ RevokeOwnedSession(c)
         \/ RotateSession(c)
  PROVE  Inv'
<1>1. CASE Logout(c)
  <2>1. RowsRevoked
    BY <1>1, RevokedOne DEF Logout, Inv
  <2>2. /\ callers' = [callers EXCEPT ![c] = Browser(None)] /\ None \in Nat \cup {None}
        /\ UNCHANGED <<clock, owner, challenges, spent>>
    BY <1>1 DEF Logout
  <2>3. QED
    BY <2>1, <2>2, ReturnsRevoking
<1>2. CASE RevokeOwnedSession(c)
  <2>1. PICK s \in ActiveSessions :
          /\ sessions' = Revoked(s)
          /\ callers' = [callers EXCEPT ![c] =
                            Browser(IF @.cookie = s THEN None ELSE @.cookie)]
    BY <1>2 DEF RevokeOwnedSession
  <2>2. RowsRevoked
    BY <2>1, RevokedOne DEF Inv
  <2>3. callers[c].cookie \in Nat \cup {None}
    BY DEF Inv, TypeInv, BrowserStates
  <2> DEFINE cookie == IF callers[c].cookie = s THEN None ELSE callers[c].cookie
  <2>4. cookie \in Nat \cup {None} /\ callers' = [callers EXCEPT ![c] = Browser(cookie)]
    BY <2>1, <2>3
  <2>5. UNCHANGED <<clock, owner, challenges, spent>>
    BY <1>2 DEF RevokeOwnedSession
  <2> HIDE DEF cookie
  <2>6. QED
    BY <2>2, <2>4, <2>5, ReturnsRevoking
<1>3. CASE RotateSession(c)
  <2>1. RowsRevoked
    BY <1>3, RevokedOne DEF RotateSession, Inv
  <2>2. Goto(c, "issue") /\ UNCHANGED <<clock, owner, challenges, spent>>
    BY <1>3 DEF RotateSession
  <2>3. /\ callers' \in [Callers -> BrowserStates]
        /\ \A b \in Callers : callers'[b].pc = "touch" =>
              callers'[b] = callers[b] /\ callers[b].cookie \in DOMAIN sessions
    BY <2>2, CallerMoves DEF Places
  <2>4. QED
    BY <2>1, <2>2, <2>3, RevokingStep
<1>4. QED
  BY <1>1, <1>2, <1>3

LEMMA FindStep ==
  ASSUME Inv, NEW c \in Callers, FindSession(c)
  PROVE  Inv'
<1> DEFINE s == callers[c].cookie
<1>1. CASE s \in ActiveSessions
  <2>1. /\ callers' = [callers EXCEPT ![c] = [@ EXCEPT !.pc = "touch", !.read = clock]]
        /\ UNCHANGED <<clock, owner, sessions, challenges, passkeys, spent>>
    BY <1>1 DEF FindSession
  <2>2. callers' \in [Callers -> BrowserStates]
    BY <2>1 DEF Inv, TypeInv, BrowserStates, Places
  <2>3. CookieInv'
    <3> SUFFICES ASSUME NEW b \in Callers, callers'[b].pc = "touch"
                 PROVE  callers'[b].cookie \in DOMAIN sessions
      BY <2>1 DEF CookieInv
    <3>1. CASE b = c
      BY <1>1, <2>1, <3>1 DEF Inv, TypeInv, BrowserStates, ActiveSessions
    <3>2. CASE b # c
      BY <2>1, <3>2 DEF Inv, TypeInv, CookieInv
    <3>3. QED
      BY <3>1, <3>2
  <2>4. CodeSets' = CodeSets /\ CodeSets \in Nat
    BY <2>1, CodeSetsType DEF Inv, CodeSets
  <2>5. TypeInv' /\ RowsInv'
    BY <2>1, <2>2, <2>4 DEF Inv, TypeInv, RowsInv, RowInv
  <2>6. SpentInv'
    BY <2>1, <2>4, SpentStays, ChallengesUnchanged DEF Inv
  <2>7. QED
    BY <2>3, <2>5, <2>6 DEF Inv
<1>2. CASE s \notin ActiveSessions
  <2>1. RowsRevoked
    BY <1>2, RevokedOne DEF FindSession, Inv
  <2>2. /\ callers' = [callers EXCEPT ![c] = Browser(None)] /\ None \in Nat \cup {None}
        /\ UNCHANGED <<clock, owner, challenges, spent>>
    BY <1>2 DEF FindSession
  <2>3. QED
    BY <2>1, <2>2, ReturnsRevoking
<1>3. QED
  BY <1>1, <1>2

\* A touched session ends no later than its absolute end.
LEMMA TouchStep ==
  ASSUME Inv, NEW c \in Callers, TouchSession(c)
  PROVE  Inv'
<1> DEFINE s == callers[c].cookie
<1> DEFINE end == Lesser(callers[c].read + IdleTime, sessions[s].absolute)
<1>1. /\ s \in DOMAIN sessions
      /\ DOMAIN sessions = 1 .. Len(sessions) /\ Len(sessions) \in Nat
      /\ sessions \in [1 .. Len(sessions) -> SessionRows]
  BY LenProperties DEF Inv, TypeInv, CookieInv, TouchSession, CallerIs
<1>2. end \in Nat /\ end <= sessions[s].absolute
  <2>1. callers[c].read \in Nat /\ sessions[s].absolute \in Nat
    BY <1>1 DEF Inv, TypeInv, BrowserStates, SessionRows
  <2>2. QED
    BY <2>1, TimesAssumption DEF Lesser
<1>3. /\ sessions' = IF sessions[s].revoked THEN sessions ELSE [sessions EXCEPT ![s].idle = end]
      /\ Goto(c, "act") /\ UNCHANGED <<clock, owner, challenges, passkeys, spent>>
  BY DEF TouchSession
<1> HIDE DEF end
<1>4. sessions' \in [1 .. Len(sessions) -> SessionRows]
  BY <1>1, <1>2, <1>3 DEF SessionRows
<1>5. /\ callers' \in [Callers -> BrowserStates]
      /\ \A b \in Callers : callers'[b].pc = "touch" =>
            callers'[b] = callers[b] /\ callers[b].cookie \in DOMAIN sessions
  BY <1>3, CallerMoves DEF Places
<1>6. TypeInv'
  <2>1. sessions' \in Seq(SessionRows)
    BY <1>1, <1>4, IsASeq
  <2>2. QED
    BY <1>3, <1>5, <2>1 DEF Inv, TypeInv
<1>7. DOMAIN sessions' = DOMAIN sessions
  BY <1>1, <1>4
<1>8. CookieInv'
  BY <1>5, <1>7 DEF CookieInv
<1>9. CodeSets' = CodeSets /\ CodeSets \in Nat
  BY <1>3, CodeSetsType DEF Inv, CodeSets
<1>10. RowsInv'
  <2> SUFFICES ASSUME NEW r \in DOMAIN sessions' PROVE RowInv(r)'
    BY DEF RowsInv
  <2>1. RowInv(r) /\ r \in DOMAIN sessions
    BY <1>7 DEF Inv, RowsInv
  <2>2. /\ sessions'[r].idle \in {sessions[r].idle, end}
        /\ sessions'[r].idle # sessions[r].idle => r = s
        /\ sessions'[r].absolute = sessions[r].absolute
        /\ sessions'[r].set = sessions[r].set
        /\ sessions'[r].revoked = sessions[r].revoked
    BY <1>1, <1>3, <2>1 DEF SessionRows
  <2>3. QED
    BY <1>2, <1>9, <2>1, <2>2 DEF RowInv
<1>11. SpentInv'
  BY <1>3, <1>9, SpentStays, ChallengesUnchanged DEF Inv
<1>12. QED
  BY <1>6, <1>8, <1>10, <1>11 DEF Inv

\* A new session is of the newest set of codes.
LEMMA IssueStep ==
  ASSUME Inv, NEW c \in Callers, IssueSession(c)
  PROVE  Inv'
<1>1. /\ UNCHANGED <<clock, owner, challenges, passkeys, spent>>
      /\ sessions' = Append(sessions, SessionRow)
      /\ callers' = [callers EXCEPT ![c] = Browser(Len(sessions) + 1)]
  BY DEF IssueSession
<1>2. /\ CodeSets' = CodeSets /\ CodeSets \in Nat
      /\ sessions \in Seq(SessionRows)
      /\ DOMAIN sessions = 1 .. Len(sessions) /\ Len(sessions) \in Nat
  BY <1>1, CodeSetsType, LenProperties DEF Inv, TypeInv, CodeSets
<1>3. SessionRow \in SessionRows
  BY <1>2, TimesAssumption DEF Inv, TypeInv, SessionRow, SessionRows, Lesser
<1>4. SessionRow.idle <= SessionRow.absolute /\ SessionRow.set = CodeSets
  BY TimesAssumption DEF Inv, TypeInv, SessionRow, Lesser
<1>5. PICK row \in SessionRows : sessions' = Append(sessions, row)
                               /\ row.idle <= row.absolute /\ row.set = CodeSets
  BY <1>1, <1>3, <1>4
<1>6. /\ sessions' \in Seq(SessionRows)
      /\ Len(sessions') = Len(sessions) + 1
      /\ \A r \in 1 .. Len(sessions) : sessions'[r] = sessions[r]
      /\ sessions'[Len(sessions) + 1] = row
  BY <1>2, <1>5, AppendProperties
<1>7. DOMAIN sessions' = 1 .. Len(sessions) + 1
  BY <1>6, LenProperties
<1>8. /\ callers' \in [Callers -> BrowserStates]
      /\ \A b \in Callers : callers'[b].pc = "touch" =>
            callers'[b] = callers[b] /\ callers[b].cookie \in DOMAIN sessions
  <2>1. Len(sessions) + 1 \in Nat \cup {None}
    BY <1>2
  <2>2. QED
    BY <1>1, <2>1, CallerReturns
<1>9. TypeInv'
  BY <1>1, <1>6, <1>8 DEF Inv, TypeInv
<1>10. CookieInv'
  BY <1>2, <1>7, <1>8 DEF CookieInv
<1>11. RowsInv'
  BY <1>2, <1>5, <1>6, <1>7 DEF Inv, RowsInv, RowInv
<1>12. SpentInv'
  BY <1>1, <1>2, SpentStays, ChallengesUnchanged DEF Inv
<1>13. QED
  BY <1>9, <1>10, <1>11, <1>12 DEF Inv

\* Steps that accept a proof and leave the sessions to the next step.
LEMMA AcceptingStep ==
  ASSUME Inv, NEW c \in Callers, NEW pc \in {"issue", "rotate"}, Goto(c, pc),
         UNCHANGED <<clock, sessions>>, ChallengesKept,
         owner' \in {None} \cup {OwnerRow(set) : set \in 1 .. MaxSets + 1},
         RowsInv', SpentInv' /\ spent' \in Seq(ProofsOfIdentity)
  PROVE  Inv'
<1>1. /\ callers' \in [Callers -> BrowserStates]
      /\ \A b \in Callers : callers'[b].pc = "touch" =>
            callers'[b] = callers[b] /\ callers[b].cookie \in DOMAIN sessions
  <2>1. pc \in Places /\ pc # "touch"
    BY DEF Places
  <2>2. QED
    BY <2>1, CallerMoves
<1>2. TypeInv'
  BY <1>1 DEF Inv, TypeInv, ChallengesKept
<1>3. CookieInv'
  BY <1>1 DEF CookieInv
<1>4. QED
  BY <1>2, <1>3 DEF Inv

\* The account that is set up is the proof that it cannot be again.
LEMMA BootstrapStep ==
  ASSUME Inv, AccountInv, NEW c \in Callers, Bootstrap(c)
  PROVE  Inv'
<1>1. /\ owner = None /\ owner' = OwnerRow(1) /\ Spend(BootstrapProof) /\ Goto(c, "issue")
      /\ UNCHANGED <<clock, sessions, challenges, passkeys>>
  BY DEF Bootstrap, CreateOwner, BootstrapProof
<1>2. /\ owner' # None /\ CodeSets = 0 /\ CodeSets' = 1
      /\ owner' \in {None} \cup {OwnerRow(set) : set \in 1 .. MaxSets + 1}
  BY <1>1, AccountAssumption, AccountSet DEF CodeSets
<1>3. ChallengesKept
  BY <1>1, ChallengesUnchanged DEF Inv
<1>4. RowsInv'
  BY <1>1 DEF AccountInv, RowsInv
<1>5. SpentInv' /\ spent' \in Seq(ProofsOfIdentity)
  <2>1. BootstrapProof \in ProofsOfIdentity
    BY DEF ProofsOfIdentity
  <2>2. ~Void(BootstrapProof)
    BY <1>1 DEF Void
  <2>3. Void(BootstrapProof)'
    BY <1>2, ProofsDiffer DEF Void
  <2>4. CodeSets' \in Nat /\ CodeSets <= CodeSets' /\ (owner # None => owner' # None)
    BY <1>2
  <2>5. QED
    BY <1>1, <1>3, <2>1, <2>2, <2>3, <2>4, SpentGrows DEF Inv
<1>6. QED
  BY <1>1, <1>2, <1>3, <1>4, <1>5, AcceptingStep

\* Recovery replaces the codes and ends the sessions.
LEMMA RecoverStep ==
  ASSUME Inv, NEW c \in Callers, Recover(c)
  PROVE  Inv'
<1>1. PICK set \in 1 .. CodeSets, i \in 1 .. CodesPerSet :
        <<set, i>> \in owner.codes /\ Spend(CodeProof(set, i))
  BY DEF Recover, RecoverOwner, CodeProof
<1>2. /\ owner # None /\ CodeSets < MaxSets /\ CodeSets \in 1 .. MaxSets + 1
      /\ owner = OwnerRow(CodeSets)
  BY CodeSetsType DEF Inv, Recover
<1>3. /\ owner' = OwnerRow(CodeSets + 1) /\ sessions' = RevokedAll /\ Goto(c, "issue")
      /\ UNCHANGED <<clock, challenges, passkeys>>
  BY DEF Recover, RecoverOwner
<1>4. CodeSets + 1 \in 1 .. MaxSets + 1
  BY <1>2, AccountAssumption
<1>5. owner' # None /\ CodeSets' = CodeSets + 1 /\ CodeSets' \in Nat /\ CodeSets <= CodeSets'
  BY <1>2, <1>3, <1>4, AccountAssumption, AccountSet DEF CodeSets
<1>6. RowsRevoked /\ \A s \in DOMAIN sessions' : sessions'[s].revoked
  BY <1>3, RevokedEvery DEF Inv
<1>7. RowsInv'
  <2> SUFFICES ASSUME NEW s \in DOMAIN sessions' PROVE RowInv(s)'
    BY DEF RowsInv
  <2>1. s \in DOMAIN sessions /\ sessions[s] \in SessionRows
    BY <1>6, LenProperties DEF RowsRevoked, Inv, TypeInv
  <2>2. /\ sessions'[s].idle = sessions[s].idle /\ sessions'[s].absolute = sessions[s].absolute
        /\ sessions'[s].set = sessions[s].set /\ sessions'[s].set \in Nat
        /\ sessions'[s].revoked
    BY <1>6, <2>1 DEF RowsRevoked, SessionRows
  <2>3. QED
    BY <1>2, <1>5, <2>1, <2>2 DEF Inv, RowsInv, RowInv
<1>8. set \in Nat /\ i \in Nat /\ set = CodeSets
  BY <1>1, <1>2 DEF OwnerRow
<1>9. ChallengesKept
  BY <1>3, ChallengesUnchanged DEF Inv
<1>10. SpentInv' /\ spent' \in Seq(ProofsOfIdentity)
  <2>1. CodeProof(set, i) \in ProofsOfIdentity
    BY <1>8 DEF ProofsOfIdentity
  <2>2. ~Void(CodeProof(set, i))
    BY <1>2, <1>8 DEF Void
  <2>3. Void(CodeProof(set, i))'
    <3>1. \A p : p = CodeProof(set, i) => Void(p)'
      BY <1>2, <1>5, <1>8, ProofsDiffer DEF Void
    <3>2. QED
      BY <3>1
  <2>4. owner # None => owner' # None
    BY <1>5
  <2>5. QED
    BY <1>1, <1>5, <1>9, <2>1, <2>2, <2>3, <2>4, SpentGrows DEF Inv
<1>11. callers' \in [Callers -> BrowserStates]
       /\ \A b \in Callers : callers'[b].pc = "touch" =>
             callers'[b] = callers[b] /\ callers[b].cookie \in DOMAIN sessions
  BY <1>3, CallerMoves DEF Places
<1>12. TypeInv'
  BY <1>3, <1>4, <1>6, <1>10, <1>11 DEF Inv, TypeInv, RowsRevoked
<1>13. CookieInv'
  BY <1>6, <1>11 DEF CookieInv, RowsRevoked
<1>14. QED
  BY <1>7, <1>10, <1>12, <1>13 DEF Inv

\* An answered challenge is consumed.
LEMMA AnswerStep ==
  ASSUME Inv, NEW c \in Callers, NEW pc \in {"issue", "rotate"}, Goto(c, pc),
         NEW n \in DOMAIN challenges, NEW purpose, ConsumeChallenge(n, purpose),
         Spend(ChallengeProof(n)), UNCHANGED <<clock, owner, sessions>>
  PROVE  Inv'
<1>1. /\ ChallengesKept
      /\ n \in Nat /\ n \in DOMAIN challenges' /\ challenges'[n].consumed
      /\ ~challenges[n].consumed
  BY ChallengeConsumed DEF Inv
<1>2. CodeSets' = CodeSets /\ CodeSets \in Nat /\ CodeSets <= CodeSets'
  BY CodeSetsType DEF Inv, CodeSets
<1>3. RowsInv'
  BY <1>2 DEF Inv, RowsInv, RowInv
<1>4. SpentInv' /\ spent' \in Seq(ProofsOfIdentity)
  <2>1. ChallengeProof(n) \in ProofsOfIdentity
    BY <1>1 DEF ProofsOfIdentity
  <2>2. ~Void(ChallengeProof(n))
    BY <1>1 DEF Void
  <2>3. Void(ChallengeProof(n))'
    <3>1. \A p : p = ChallengeProof(n) => Void(p)'
      BY <1>1, ProofsDiffer DEF Void
    <3>2. QED
      BY <3>1
  <2>4. (owner # None => owner' # None) /\ CodeSets' \in Nat
    BY <1>2
  <2>5. QED
    BY <1>1, <1>2, <2>1, <2>2, <2>3, <2>4, SpentGrows DEF Inv
<1>5. owner' \in {None} \cup {OwnerRow(set) : set \in 1 .. MaxSets + 1}
  BY DEF Inv, TypeInv
<1>6. UNCHANGED <<clock, sessions>>
  OBVIOUS
<1>7. QED
  BY <1>1, <1>3, <1>4, <1>5, <1>6, AcceptingStep

LEMMA AnswerSteps ==
  ASSUME Inv, NEW c \in Callers, VerifyRegistration(c) \/ LoginWithPasskey(c)
  PROVE  Inv'
<1>1. CASE VerifyRegistration(c)
  <2>1. PICK n \in DOMAIN challenges :
          ConsumeChallenge(n, "passkey_registration") /\ Spend(ChallengeProof(n))
    BY <1>1 DEF VerifyRegistration, ChallengeProof
  <2>2. Goto(c, "rotate") /\ UNCHANGED <<clock, owner, sessions>>
    BY <1>1 DEF VerifyRegistration
  <2>3. QED
    BY <2>1, <2>2, AnswerStep
<1>2. CASE LoginWithPasskey(c)
  <2>1. PICK n \in DOMAIN challenges :
          ConsumeChallenge(n, "passkey_authentication") /\ Spend(ChallengeProof(n))
    BY <1>2 DEF LoginWithPasskey, ChallengeProof
  <2>2. Goto(c, "issue") /\ UNCHANGED <<clock, owner, sessions>>
    BY <1>2 DEF LoginWithPasskey
  <2>3. QED
    BY <2>1, <2>2, AnswerStep
<1>3. QED
  BY <1>1, <1>2

LEMMA StutteringStep ==
  ASSUME Inv, UNCHANGED sessionVars
  PROVE  Inv'
<1>1. clock' \in Nat /\ ChallengesKept /\ UNCHANGED <<owner, sessions, spent, callers>>
  BY ChallengesUnchanged DEF Inv, TypeInv, sessionVars
<1>2. QED
  BY <1>1, CallersStay, QuietStep

LEMMA InvNext ==
  ASSUME Inv, AccountInv, [SessionNext]_sessionVars
  PROVE  Inv'
<1>1. CASE Tick
  <2>1. UNCHANGED <<owner, sessions, spent, callers, challenges>> /\ clock' \in Nat
    BY <1>1 DEF Tick, Inv, TypeInv
  <2>2. ChallengesKept
    BY <2>1, ChallengesUnchanged DEF Inv
  <2>3. QED
    BY <2>1, <2>2, CallersStay, QuietStep
<1>2. ASSUME NEW c \in Callers,
             SubmitForm(c) \/ IssueSession(c) \/ AuthenticatedRequest(c) \/ Logout(c)
             \/ RevokeOwnedSession(c) \/ RegisterPasskey(c) \/ UsePasskey(c)
      PROVE  Inv'
  BY <1>2, QuietSteps, RevokingSteps, FindStep, TouchStep, IssueStep, BootstrapStep,
     RecoverStep, AnswerSteps
  DEF SubmitForm, AuthenticatedRequest, RegisterPasskey, UsePasskey
<1>3. CASE UNCHANGED sessionVars
  BY <1>3, StutteringStep
<1>4. QED
  BY <1>1, <1>2, <1>3 DEF SessionNext

\* Only the set-up can happen while there is no account.
LEMMA AccountNext ==
  ASSUME Inv, AccountInv, [SessionNext]_sessionVars
  PROVE  AccountInv'
<1> SUFFICES ASSUME owner' = None
             PROVE  /\ DOMAIN sessions' = {}
                    /\ passkeys' = 0
                    /\ \A c \in Callers : callers'[c].pc = "idle"
  BY DEF AccountInv
<1>1. CASE owner # None
  <2>1. CodeSets \in Nat /\ MaxSets \in Nat
    BY CodeSetsType, AccountAssumption DEF Inv
  <2>2. ASSUME NEW c \in Callers, Recover(c) PROVE FALSE
    <3>1. owner' = OwnerRow(CodeSets + 1) /\ CodeSets < MaxSets
      BY <2>2 DEF Recover, RecoverOwner
    <3>2. QED
      BY <3>1, <2>1, AccountAssumption
  <2>3. UNCHANGED owner
    BY <1>1, <2>2 DEF SessionNext, sessionVars, Tick, SubmitForm, IssueSession,
       AuthenticatedRequest, Logout, RevokeOwnedSession, RegisterPasskey, UsePasskey,
       Bootstrap, CreateOwner, LoginWithPassword, FindSession, TouchSession, AnyRequest,
       RegistrationOptions, VerifyRegistration, RotateSession, AuthenticationOptions,
       LoginWithPasskey
  <2>4. QED
    BY <1>1, <2>3
<1>2. CASE owner = None
  <2>1. DOMAIN sessions = {} /\ passkeys = 0 /\ \A c \in Callers : callers[c].pc = "idle"
    BY <1>2 DEF AccountInv
  <2>2. ASSUME NEW c \in Callers, Bootstrap(c) PROVE FALSE
    BY <2>2, AccountAssumption DEF Bootstrap, CreateOwner
  <2>3. ASSUME NEW c \in Callers, FindSession(c)
        PROVE  DOMAIN sessions' = {} /\ passkeys' = 0
               /\ \A b \in Callers : callers'[b].pc = "idle"
    <3>1. callers[c].cookie \notin ActiveSessions
      BY <2>1 DEF ActiveSessions
    <3>2. /\ callers' = [callers EXCEPT ![c] = Browser(None)]
          /\ sessions' = Revoked(callers[c].cookie) /\ UNCHANGED passkeys
      BY <2>3, <3>1 DEF FindSession
    <3>3. DOMAIN sessions' = {}
      BY <2>1, <3>2, RevokedOne DEF Inv, RowsRevoked
    <3>4. Browser(None).pc = "idle"
      BY DEF Browser
    <3>5. QED
      BY <2>1, <3>2, <3>3, <3>4 DEF Inv, TypeInv
  <2>4. CASE \E c \in Callers : FindSession(c)
    BY <2>3, <2>4
  <2>5. CASE Tick \/ UNCHANGED sessionVars \/ \E c \in Callers : AuthenticationOptions(c)
    BY <1>2, <2>1, <2>5 DEF Tick, sessionVars, AuthenticationOptions
  <2>6. QED
    BY <1>2, <2>1, <2>2, <2>4, <2>5
    DEF SessionNext, SubmitForm, IssueSession, AuthenticatedRequest, Logout,
       RevokeOwnedSession, RegisterPasskey, UsePasskey, LoginWithPassword, Recover,
       TouchSession, AnyRequest, RegistrationOptions, VerifyRegistration, RotateSession,
       LoginWithPasskey, CallerIs
<1>3. QED
  BY <1>1, <1>2

-----------------------------------------------------------------------------
(* The theorem.                                                              *)

LEMMA InvImplies ==
  ASSUME Inv
  PROVE  SessionsEnd
<1>1. Cardinality({spent[i] : i \in DOMAIN spent}) = Len(spent)
  BY Enumerated DEF Inv, TypeInv, SpentInv
<1>2. ASSUME NEW s \in DOMAIN sessions
      PROVE  /\ sessions[s].set < CodeSets => s \notin ActiveSessions
             /\ s \in ActiveSessions => clock < sessions[s].absolute
             /\ sessions[s].idle <= sessions[s].absolute
  <2>1. sessions[s] \in SessionRows
    BY LenProperties DEF Inv, TypeInv
  <2>2. sessions[s].absolute \in Nat /\ clock \in Nat
    BY <2>1 DEF SessionRows, Inv, TypeInv
  <2>3. QED
    BY <2>2 DEF Inv, RowsInv, RowInv, ActiveSessions, Expired
<1>3. QED
  BY <1>1, <1>2 DEF SessionsEnd

\* Whatever requests cross: the set-up, a recovery code and a challenge are each
\* accepted once, a recovery ends every older session, and no session outlives its
\* absolute end (owner-account-repository.ts, session-repository.ts).
THEOREM SessionsEndAlways == SessionSpec => []SessionsEnd
<1>1. SessionInit => Inv /\ AccountInv
  <2>1. SessionInit => AccountInv
    <3>1. Browser(None).pc = "idle"
      BY DEF Browser
    <3>2. DOMAIN <<>> = {}
      OBVIOUS
    <3>3. QED
      BY <3>1, <3>2 DEF SessionInit, AccountInv
  <2>2. QED
    BY <2>1, InvInit
<1>2. Inv /\ AccountInv /\ [SessionNext]_sessionVars => Inv' /\ AccountInv'
  BY InvNext, AccountNext
<1>3. Inv => SessionsEnd
  BY InvImplies
<1>4. QED
  BY <1>1, <1>2, <1>3, PTL DEF SessionSpec

-----------------------------------------------------------------------------
(* Settings: the inductive invariant.                                        *)

Releases == {"api", "worker"}
Schedule == [revision : Nat, backup : BOOLEAN]
Providers == [enabled : BOOLEAN, accepted : Nat \cup {None}]
SettingsRows == [revision : Nat, backup : BOOLEAN, provider : Providers, credential : BOOLEAN]

SettingsType ==
    /\ stored \in SettingsRows
    /\ released \in [Releases -> Nat]
    /\ receipts \subseteq Schedule
    /\ pending \subseteq receipts
    /\ queue \in Schedule

\* The schedules the queue may have been told, the one it was installed with among them.
Schedules == receipts \cup {[revision |-> 1, backup |-> FALSE]}

Current(told) ==
    /\ told \in Schedules
    /\ told.backup = stored.backup
    /\ \A other \in Schedules \ {told} : other.revision < told.revision

\* The current schedule is still to be told, was told last, or an older one was.
QueueInv ==
    /\ queue \in Schedules
    /\ \A told \in Schedules : told.revision <= stored.revision
    /\ \E told \in Schedules :
          Current(told) /\ (told \in pending \/ queue = told \/ overtaken)

\* The stored acceptance is one the owner gave.
AcceptedInv == stored.provider.accepted \in acceptances \cup {None}

SettingsInv ==
    /\ SettingsType
    /\ QueueInv
    /\ AcceptedInv
    /\ \A send \in sends : send.version \in send.consent

LEMMA SettingsInvImplies == SettingsInv => ConsentAndSchedule
<1> SUFFICES ASSUME SettingsInv, pending = {}, ~overtaken
             PROVE  queue.backup = stored.backup
  BY DEF SettingsInv, ConsentAndSchedule
<1>1. PICK told \in Schedules : Current(told) /\ (told \in pending \/ queue = told \/ overtaken)
  BY DEF SettingsInv, QueueInv
<1>2. QED
  BY <1>1 DEF Current

LEMMA StoredFields ==
  ASSUME NEW s \in SettingsRows
  PROVE  /\ s.revision \in Nat /\ s.backup \in BOOLEAN /\ s.credential \in BOOLEAN
         /\ s.provider \in Providers /\ s.provider.accepted \in Nat \cup {None}
  BY DEF SettingsRows, Providers

LEMMA SettingsInvInit == SettingsInit => SettingsInv
<1> SUFFICES ASSUME SettingsInit PROVE SettingsInv
  OBVIOUS
<1> DEFINE first == [revision |-> 1, backup |-> FALSE]
<1>1. SettingsType
  BY DEF SettingsInit, SettingsType, StoredSettings, ProviderConfiguration, Schedule, Providers,
     SettingsRows, Releases
<1>2. Schedules = {first}
  BY DEF Schedules, SettingsInit
<1>3. Current(first) /\ queue = first /\ first.revision <= stored.revision
  BY <1>2 DEF Current, SettingsInit, StoredSettings
<1>4. QueueInv
  BY <1>2, <1>3 DEF QueueInv
<1>5. AcceptedInv /\ \A send \in sends : send.version \in send.consent
  BY DEF AcceptedInv, SettingsInit, StoredSettings, ProviderConfiguration
<1>6. QED
  BY <1>1, <1>4, <1>5 DEF SettingsInv

\* A change of anything but preferences leaves what the queue has been told in order.
LEMMA QueueRests ==
  ASSUME SettingsInv, UNCHANGED <<receipts, queue, overtaken>>, pending \subseteq pending',
         stored'.backup = stored.backup, stored.revision <= stored'.revision,
         SettingsType'
  PROVE  QueueInv'
<1>1. Schedules' = Schedules
  BY DEF Schedules
<1>2. \A told \in Schedules : Current(told) => Current(told)'
  BY <1>1 DEF Current
<1>3. PICK told \in Schedules : Current(told) /\ (told \in pending \/ queue = told \/ overtaken)
  BY DEF SettingsInv, QueueInv
<1>4. Current(told)' /\ (told \in pending \/ queue = told \/ overtaken)'
  BY <1>2, <1>3
<1>5. \A s \in Schedules : s.revision <= stored'.revision
  <2>1. ASSUME NEW s \in Schedules PROVE s.revision <= stored'.revision
    <3>1. s.revision \in Nat /\ s.revision <= stored.revision
      BY DEF SettingsInv, SettingsType, QueueInv, Schedules, Schedule
    <3>2. stored.revision \in Nat /\ stored'.revision \in Nat
      BY StoredFields DEF SettingsInv, SettingsType
    <3>3. QED
      BY <3>1, <3>2
  <2>2. QED
    BY <2>1
<1>6. QED
  BY <1>1, <1>4, <1>5 DEF QueueInv, SettingsInv

LEMMA SettingsRest ==
  ASSUME SettingsInv, UNCHANGED <<stored, receipts, pending, queue, overtaken, sends, acceptances>>,
         released' \in [Releases -> Nat]
  PROVE  SettingsInv'
<1>1. SettingsType'
  BY DEF SettingsInv, SettingsType
<1>2. stored.revision \in Nat
  BY StoredFields DEF SettingsInv, SettingsType
<1>3. QueueInv'
  BY <1>1, <1>2, QueueRests
<1>4. QED
  BY <1>1, <1>3 DEF SettingsInv, AcceptedInv

LEMMA UpdateSettingsStep ==
  ASSUME SettingsInv, NEW p \in Pages, NEW backup \in BOOLEAN, UpdateSettings(p, backup)
  PROVE  SettingsInv'
<1>1. PICK s \in SettingsRows : s = stored
  BY DEF SettingsInv, SettingsType
<1>2. PICK new : new = [revision |-> s.revision + 1, backup |-> backup]
  OBVIOUS
<1>3. /\ s.revision \in Nat /\ new \in Schedule /\ new.revision = s.revision + 1
      /\ new.backup = backup
  BY <1>2, StoredFields DEF Schedule
<1>4. /\ stored' \in SettingsRows /\ stored'.revision = s.revision + 1
       /\ stored'.backup = backup /\ stored'.provider = s.provider
  <2>1. stored' = [s EXCEPT !.revision = s.revision + 1, !.backup = backup]
    BY <1>1 DEF UpdateSettings
  <2>2. PICK t, n : t = stored' /\ n = s.revision + 1
    OBVIOUS
  <2>3. n \in Nat /\ t = [s EXCEPT !.revision = n, !.backup = backup]
    BY <1>3, <2>1, <2>2
  <2>4. t.revision = n /\ t.backup = backup /\ t.provider = s.provider
    BY <2>3 DEF SettingsRows
  <2>5. t \in SettingsRows
    BY <2>3 DEF SettingsRows
  <2>6. QED
    BY <2>2, <2>4, <2>5
<1>5. /\ receipts' = receipts \cup {new} /\ pending' = pending \cup {new}
      /\ UNCHANGED <<released, queue, overtaken, sends, acceptances>>
  BY <1>1, <1>2 DEF UpdateSettings, Receipt
<1>6. SettingsType'
  BY <1>3, <1>5, <1>4 DEF SettingsInv, SettingsType
<1>7. Schedules' = Schedules \cup {new}
  BY <1>5 DEF Schedules
<1>8. \A told \in Schedules : told.revision \in Nat /\ told.revision <= s.revision
  BY <1>1 DEF SettingsInv, SettingsType, QueueInv, Schedules, Schedule
<1>9. \A told \in Schedules : told.revision < new.revision
  BY <1>3, <1>8
<1>10. Current(new)'
  BY <1>3, <1>7, <1>9, <1>4 DEF Current
<1>11. QueueInv'
  <2>1. \A told \in Schedules' : told.revision <= stored'.revision
    BY <1>3, <1>7, <1>8, <1>4
  <2>2. new \in pending' /\ new \in Schedules' /\ queue' \in Schedules'
    BY <1>5, <1>7 DEF SettingsInv, QueueInv
  <2>3. QED
    BY <1>10, <2>1, <2>2 DEF QueueInv
<1>12. QED
  BY <1>1, <1>5, <1>6, <1>11, <1>4 DEF SettingsInv, AcceptedInv

LEMMA SynchronizeStep ==
  ASSUME SettingsInv, NEW told \in pending, SynchronizeSchedule(told)
  PROVE  SettingsInv'
<1>1. /\ pending' = pending \ {told} /\ queue' = told
      /\ overtaken' = (told.revision < queue.revision
                       \/ (overtaken /\ told.revision < stored.revision))
      /\ UNCHANGED <<stored, released, receipts, sends, acceptances>>
  BY DEF SynchronizeSchedule
<1>2. told \in Schedules /\ Schedules' = Schedules /\ queue \in Schedules
  BY <1>1 DEF SettingsInv, SettingsType, Schedules, QueueInv
<1>3. SettingsType'
  BY <1>1 DEF SettingsInv, SettingsType
<1>4. PICK now \in Schedules : Current(now) /\ (now \in pending \/ queue = now \/ overtaken)
  BY DEF SettingsInv, QueueInv
<1>5. Current(now)'
  BY <1>1, <1>2, <1>4 DEF Current
<1>6. \A s \in Schedules : s.revision \in Nat /\ s.revision <= stored.revision
  BY DEF SettingsInv, SettingsType, QueueInv, Schedules, Schedule
<1>7. stored.revision \in Nat
  BY StoredFields DEF SettingsInv, SettingsType
<1>8. (now \in pending \/ queue = now \/ overtaken)'
  <2>1. CASE told = now
    BY <1>1, <2>1
  <2>2. CASE told # now /\ now \in pending
    BY <1>1, <2>2
  <2>3. CASE told # now /\ queue = now
    <3>1. told.revision < queue.revision
      BY <1>2, <1>4, <2>3 DEF Current
    <3>2. QED
      BY <1>1, <3>1
  <2>4. CASE told # now /\ overtaken
    <3>1. told.revision < now.revision /\ now.revision <= stored.revision
      BY <1>2, <1>4, <1>6, <2>4 DEF Current
    <3>2. told.revision < stored.revision
      BY <1>2, <1>4, <1>6, <1>7, <3>1
    <3>3. QED
      BY <1>1, <2>4, <3>2
  <2>5. QED
    BY <1>4, <2>1, <2>2, <2>3, <2>4
<1>9. QueueInv'
  BY <1>1, <1>2, <1>5, <1>6, <1>8 DEF QueueInv
<1>10. QED
  BY <1>1, <1>3, <1>9 DEF SettingsInv, AcceptedInv

LEMMA UpdateProviderStep ==
  ASSUME SettingsInv, NEW p \in Pages, NEW enabled \in BOOLEAN, NEW accepts, NEW credential,
         UpdateProvider(p, enabled, accepts, credential)
  PROVE  SettingsInv'
<1> DEFINE accepted == IF Acknowledged(p, accepts) THEN released["api"]
                       ELSE stored.provider.accepted
           key == CASE credential = "clear" -> FALSE
                    [] credential = "replace" -> TRUE
                    [] OTHER -> stored.credential
<1>1. PICK s \in SettingsRows : s = stored
  BY DEF SettingsInv, SettingsType
<1>2. /\ UNCHANGED <<released, receipts, pending, queue, overtaken, sends>>
      /\ acceptances' = IF accepts THEN acceptances \cup {pages[p].version} ELSE acceptances
  BY DEF UpdateProvider
<1>3. PICK a, k : a = accepted /\ k = key
  OBVIOUS
<1>4. a \in Nat \cup {None} /\ k \in BOOLEAN
  BY <1>1, <1>3, StoredFields DEF SettingsInv, SettingsType, Releases
<1> HIDE DEF accepted, key
<1>5. /\ stored' \in SettingsRows /\ stored'.revision = s.revision + 1
      /\ stored'.backup = s.backup /\ stored'.provider.accepted = a
      /\ s.revision \in Nat
  <2>1. s.revision + 1 \in Nat /\ s.revision \in Nat
    BY StoredFields
  <2>2. stored' = [stored EXCEPT !.revision = @ + 1, !.provider.enabled = enabled,
                                 !.provider.accepted = accepted, !.credential = key]
    BY DEF UpdateProvider, accepted, key
  <2>3. PICK t, n : t = stored' /\ n = s.revision + 1
    OBVIOUS
  <2>4. t = [s EXCEPT !.revision = n, !.provider.enabled = enabled,
                      !.provider.accepted = a, !.credential = k]
    BY <1>1, <1>3, <2>2, <2>3
  <2>5. n \in Nat
    BY <2>1, <2>3
  <2>6. t.revision = n /\ t.backup = s.backup
    BY <2>4 DEF SettingsRows
  <2>7. t.provider.accepted = a
    BY <2>4 DEF SettingsRows, Providers
  <2>8. t \in SettingsRows
    BY <1>4, <2>4, <2>5 DEF SettingsRows, Providers
  <2>9. QED
    BY <2>1, <2>3, <2>6, <2>7, <2>8
<1>6. SettingsType'
  BY <1>2, <1>5 DEF SettingsInv, SettingsType
<1>7. QueueInv'
  BY <1>1, <1>2, <1>5, <1>6, QueueRests
<1>8. AcceptedInv'
  <2>1. CASE Acknowledged(p, accepts)
    <3>1. a = pages[p].version /\ accepts
      BY <1>3, <2>1 DEF accepted, Acknowledged
    <3>2. QED
      BY <1>2, <1>5, <3>1 DEF AcceptedInv
  <2>2. CASE ~Acknowledged(p, accepts)
    <3>1. a = stored.provider.accepted
      BY <1>3, <2>2 DEF accepted
    <3>2. QED
      BY <1>2, <1>5, <3>1 DEF AcceptedInv, SettingsInv
  <2>3. QED
    BY <2>1, <2>2
<1>9. QED
  BY <1>2, <1>6, <1>7, <1>8 DEF SettingsInv

\* The worker's release is among the accepted ones when it sends.
LEMMA SendStep == ASSUME SettingsInv, SendToProvider PROVE SettingsInv'
<1>1. UNCHANGED <<stored, released, receipts, pending, queue, overtaken, acceptances>>
  BY DEF SendToProvider
<1>2. SettingsType'
  BY <1>1 DEF SettingsInv, SettingsType
<1>3. stored.revision \in Nat
  BY StoredFields DEF SettingsInv, SettingsType
<1>4. QueueInv'
  BY <1>1, <1>2, <1>3, QueueRests
<1>5. released["worker"] \in acceptances
  BY SettingsAssumption DEF SendToProvider, Resolvable, Accepted, SettingsInv, SettingsType,
     AcceptedInv, Releases, SettingsRows
<1>6. \A send \in sends' : send.version \in send.consent
  BY <1>5 DEF SendToProvider, SettingsInv
<1>7. QED
  BY <1>1, <1>2, <1>4, <1>6 DEF SettingsInv, AcceptedInv

LEMMA SettingsInvNext == SettingsInv /\ [SettingsNext]_settingsVars => SettingsInv'
<1> SUFFICES ASSUME SettingsInv, [SettingsNext]_settingsVars PROVE SettingsInv'
  OBVIOUS
<1> USE DEF SettingsInv
<1>1. ASSUME NEW p \in Pages, GetSettings(p) \/ ReadRevision(p) \/ ReadTables(p)
      PROVE  SettingsInv'
  BY <1>1, SettingsRest DEF GetSettings, ReadRevision, ReadTables, SettingsType
<1>2. ASSUME NEW p \in Pages, SavePreferences(p) PROVE SettingsInv'
  BY <1>2, UpdateSettingsStep DEF SavePreferences
<1>3. ASSUME NEW p \in Pages, SaveProvider(p) PROVE SettingsInv'
  BY <1>3, UpdateProviderStep DEF SaveProvider
<1>4. ASSUME NEW receipt \in receipts, ReplaySettings(receipt) PROVE SettingsInv'
  <2>1. /\ pending' = pending \cup {receipt}
        /\ UNCHANGED <<stored, released, receipts, queue, overtaken, sends, acceptances>>
    BY <1>4 DEF ReplaySettings
  <2>2. SettingsType'
    BY <2>1 DEF SettingsType
  <2>3. stored.revision \in Nat
    BY StoredFields DEF SettingsType
  <2>4. QueueInv'
    BY <2>1, <2>2, <2>3, QueueRests
  <2>5. QED
    BY <2>1, <2>2, <2>4 DEF AcceptedInv
<1>5. ASSUME NEW told \in pending, SynchronizeSchedule(told) PROVE SettingsInv'
  BY <1>5, SynchronizeStep
<1>6. CASE SendToProvider
  BY <1>6, SendStep
<1>7. ASSUME NEW process \in Releases, Release(process) PROVE SettingsInv'
  <2>1. released' \in [Releases -> Nat]
    BY <1>7 DEF Release, SettingsType
  <2>2. QED
    BY <1>7, <2>1, SettingsRest DEF Release
<1>8. CASE UNCHANGED settingsVars
  BY <1>8, SettingsRest DEF settingsVars, SettingsType
<1>9. QED
  BY <1>1, <1>2, <1>3, <1>4, <1>5, <1>6, <1>7, <1>8 DEF SettingsNext, Releases

\* For any number of pages, releases, sends and repeated requests: a provider is only
\* called under a disclosure the owner has accepted, and the queue runs backups when
\* the settings say so (settings-service.ts, settings-repository.ts).
THEOREM ConsentAndScheduleAlways == SettingsSpec => []ConsentAndSchedule
<1>1. SettingsInv /\ [SettingsNext]_settingsVars => SettingsInv'
  BY SettingsInvNext
<1>2. QED
  BY SettingsInvInit, <1>1, SettingsInvImplies, PTL DEF SettingsSpec

-----------------------------------------------------------------------------
(* The catalog of processors: the inductive invariant.                       *)

WorkFields == {"number", "kind", "processor", "id", "expected", "checked"}

WorkShape(work) ==
    /\ DOMAIN work = WorkFields
    /\ work.number \in Nat /\ work.expected \in Nat /\ work.checked \in Nat
    /\ work.kind \in {"none", "create", "publish", "update"}
    /\ work.processor \in Processors

CatalogShapes ==
    /\ DOMAIN installations = Processors
    /\ \A p \in Processors :
          /\ DOMAIN installations[p] = {"configRevision", "current"}
          /\ installations[p].configRevision \in Nat
    /\ DOMAIN works = Clients
    /\ \A c \in Clients : WorkShape(works[c])
    /\ \A r \in answers : WorkShape(r)
    /\ requests \in Nat
    /\ DOMAIN choices = Processors
    /\ IsFiniteSet(versions)
    /\ IsFiniteSet(answers)

\* A request has a number of its own, or that of a request that was accepted.
HasReceipt(number) == \E r \in answers : r.number = number
Working(c) == works[c].kind # "none"

NumbersInv ==
    /\ \A r \in answers : r.number <= requests /\ r.checked = 0 /\ r.kind # "none"
    /\ \A c \in Clients :
          /\ works[c].number <= requests
          /\ works[c].checked # 0 => Working(c) /\ ~HasReceipt(works[c].number)
          /\ Working(c) /\ works[c].kind # "create" => works[c].expected > 0
    /\ \A r \in answers : r.kind # "create" => r.expected > 0
    /\ \A c, d \in Clients :
          c # d /\ Working(c) /\ Working(d) /\ works[c].number = works[d].number
             => HasReceipt(works[c].number)

ChangesOf(p) == {r \in answers : r.processor = p /\ r.kind # "create"}

ConfigInv ==
    \A p \in Processors :
        /\ Installed(p) => installations[p].configRevision = 1 + Cardinality(ChangesOf(p))
        /\ ~Installed(p) => ChangesOf(p) = {}
        /\ choices[p] \notin {"none", LegacyVersion.id} =>
              Installed(p) /\ installations[p].current = choices[p]

Met(needs, p) == \A need \in needs : \E w \in versions : w.id = need /\ w.processor # p
Revisions(p) == {v.revision : v \in VersionsOf(p)}

\* What was checked stays true, but for what an index or the update guards.
VersionsInv ==
    /\ LegacyVersion \in versions
    /\ \A v \in versions : v.processor \in Processors /\ Installed(v.processor)
    /\ \A v \in versions : Met(v.needs, v.processor)
    /\ \A p \in Processors : Revisions(p) = 1 .. Cardinality(VersionsOf(p))
    /\ \A c \in Clients : works[c].checked # 0 =>
          /\ works[c].checked <= Cardinality(VersionsOf(works[c].processor)) + 1
          /\ works[c].kind # "update" => Met(Draft(works[c].id).needs, works[c].processor)

\* No version needs itself, through others.
AcyclicInv == \A v \in versions : v.id \notin ReachedFrom(Needs, v.needs)

CatalogInv == CatalogShapes /\ NumbersInv /\ ConfigInv /\ VersionsInv /\ AcyclicInv

-----------------------------------------------------------------------------
(* Reaching through needs.                                                   *)

ClosedUnder(graph, nodes) == \A edge \in graph : edge[1] \in nodes => edge[2] \in nodes

LEMMA NotReached ==
  ASSUME NEW graph, NEW from, NEW node, NEW nodes,
         from \subseteq nodes, ClosedUnder(graph, nodes), node \notin nodes
  PROVE  node \notin ReachedFrom(graph, from)
<1> DEFINE ends == from \cup {edge[2] : edge \in graph}
           closed == {s \in SUBSET ends :
                        /\ from \subseteq s
                        /\ \A edge \in graph : edge[1] \in s => edge[2] \in s}
<1>1. nodes \cap ends \in closed
  BY DEF ClosedUnder
<1>2. ReachedFrom(graph, from) = {n \in ends : \A s \in closed : n \in s}
  BY DEF ReachedFrom
<1> HIDE DEF closed
<1>3. QED
  BY <1>1, <1>2

LEMMA NotReachedBecause ==
  ASSUME NEW graph, NEW from, NEW node, node \notin ReachedFrom(graph, from)
  PROVE  \E nodes : from \subseteq nodes /\ ClosedUnder(graph, nodes) /\ node \notin nodes
<1> DEFINE ends == from \cup {edge[2] : edge \in graph}
           closed == {s \in SUBSET ends :
                        /\ from \subseteq s
                        /\ \A edge \in graph : edge[1] \in s => edge[2] \in s}
<1>1. ReachedFrom(graph, from) = {n \in ends : \A s \in closed : n \in s}
  BY DEF ReachedFrom
<1>2. CASE node \notin ends
  BY <1>2 DEF ClosedUnder
<1>3. CASE node \in ends
  <2> HIDE DEF closed
  <2>1. PICK s \in closed : node \notin s
    BY <1>1, <1>3
  <2>2. from \subseteq s /\ ClosedUnder(graph, s)
    BY <2>1 DEF closed, ClosedUnder
  <2>3. QED
    BY <2>1, <2>2
<1>4. QED
  BY <1>2, <1>3

Ids == {v.id : v \in versions}

LEMMA EdgesOfNeeds ==
  \A edge \in Needs : \E v \in versions : edge[1] = v.id /\ edge[2] \in v.needs
  BY DEF Needs

\* A new version is needed by none yet.
LEMMA AddedAcyclic ==
  ASSUME CatalogInv, NEW x, Insertable(x), Met(x.needs, x.processor),
         versions' = versions \cup {x}
  PROVE  AcyclicInv'
<1>1. x.id \notin Ids /\ x.needs \subseteq Ids /\ \A v \in versions : v.needs \subseteq Ids
  BY DEF Insertable, Ids, Met, CatalogInv, VersionsInv
<1>2. \A edge \in Needs' : edge[1] # x.id => edge \in Needs
  BY DEF Needs
<1>3. ASSUME NEW v \in versions'
      PROVE  v.id \notin ReachedFrom(Needs', v.needs)
  <2>1. CASE v = x
    <3>1. ClosedUnder(Needs', Ids)
      BY <1>1, <1>2, EdgesOfNeeds DEF ClosedUnder
    <3>2. QED
      BY <1>1, <2>1, <3>1, NotReached
  <2>2. CASE v \in versions
    <3>1. v.id \notin ReachedFrom(Needs, v.needs)
      BY <2>2 DEF CatalogInv, AcyclicInv
    <3>2. PICK nodes : v.needs \subseteq nodes /\ ClosedUnder(Needs, nodes) /\ v.id \notin nodes
      BY <3>1, NotReachedBecause
    <3>3. ASSUME NEW edge \in Needs', edge[1] \in nodes \cap Ids
          PROVE  edge[2] \in nodes \cap Ids
      <4>1. edge \in Needs
        BY <1>1, <1>2, <3>3
      <4>2. edge[2] \in nodes
        BY <3>2, <3>3, <4>1 DEF ClosedUnder
      <4>3. edge[2] \in Ids
        BY <1>1, <4>1, EdgesOfNeeds
      <4>4. QED
        BY <4>2, <4>3
    <3>4. ClosedUnder(Needs', nodes \cap Ids)
      BY <3>3 DEF ClosedUnder
    <3>5. v.needs \subseteq nodes \cap Ids /\ v.id \notin nodes \cap Ids
      BY <1>1, <2>2, <3>2
    <3>6. QED
      BY <3>4, <3>5, NotReached
  <2>3. QED
    BY <2>1, <2>2
<1>4. QED
  BY <1>3 DEF AcyclicInv

\* Versions are numbered without a gap.
LEMMA Numbered ==
  ASSUME CatalogInv, NEW p \in Processors
  PROVE  /\ IsFiniteSet(VersionsOf(p))
         /\ Cardinality(VersionsOf(p)) \in Nat
         /\ Cardinality(VersionsOf(p)) <= Cardinality(versions)
         /\ Cardinality(versions) \in Nat
         /\ Revisions(p) = 1 .. Cardinality(VersionsOf(p))
<1>1. IsFiniteSet(versions) /\ VersionsOf(p) \subseteq versions
  BY DEF CatalogInv, CatalogShapes, VersionsOf
<1>2. /\ IsFiniteSet(VersionsOf(p))
      /\ Cardinality(VersionsOf(p)) <= Cardinality(versions)
  BY <1>1, FS_Subset
<1>3. Cardinality(VersionsOf(p)) \in Nat /\ Cardinality(versions) \in Nat
  BY <1>1, <1>2, FS_CardinalityType
<1>4. QED
  BY <1>2, <1>3 DEF CatalogInv, VersionsInv

LEMMA NextRevisionFollows ==
  ASSUME CatalogInv, NEW p \in Processors
  PROVE  NextRevision(p) = Cardinality(VersionsOf(p)) + 1
<1> DEFINE k == Cardinality(VersionsOf(p))
           Next(n) == /\ \E v \in VersionsOf(p) : v.revision = n - 1
                      /\ \A v \in VersionsOf(p) : v.revision < n
<1>1. k \in Nat /\ k <= Cardinality(versions) /\ Cardinality(versions) \in Nat
  BY Numbered
<1>2. /\ \A v \in VersionsOf(p) : v.revision \in 1 .. k
      /\ \A n \in 1 .. k : \E v \in VersionsOf(p) : v.revision = n
  BY Numbered DEF Revisions
<1>3. CASE VersionsOf(p) = {}
  BY <1>3, FS_EmptySet DEF NextRevision
<1>4. CASE VersionsOf(p) # {}
  <2>1. k >= 1
    BY <1>1, <1>2, <1>4
  <2>2. k + 1 \in 1 .. Cardinality(versions) + 1
    BY <1>1
  <2>3. Next(k + 1)
    <3>1. \E v \in VersionsOf(p) : v.revision = k
      BY <1>1, <1>2, <2>1
    <3>2. QED
      BY <1>1, <1>2, <3>1
  <2>4. ASSUME NEW n \in 1 .. Cardinality(versions) + 1, Next(n)
        PROVE  n = k + 1
    <3>1. n - 1 \in 1 .. k
      BY <1>2, <2>4
    <3>2. k < n
      <4>1. PICK v \in VersionsOf(p) : v.revision = k
        BY <1>1, <1>2, <2>1
      <4>2. QED
        BY <2>4, <4>1
    <3>3. QED
      BY <1>1, <2>4, <3>1, <3>2
  <2>5. NextRevision(p) = CHOOSE n \in 1 .. Cardinality(versions) + 1 : Next(n)
    BY <1>4 DEF NextRevision
  <2> HIDE DEF Next
  <2>6. QED
    BY <2>2, <2>3, <2>4, <2>5
<1>5. QED
  BY <1>3, <1>4

\* The next version takes the next number, whatever was added since it was checked.
LEMMA AddedNumbered ==
  ASSUME CatalogInv, NEW x, Insertable(x), x.processor \in Processors,
         x.revision \in Nat \ {0},
         x.revision <= Cardinality(VersionsOf(x.processor)) + 1,
         versions' = versions \cup {x}
  PROVE  /\ IsFiniteSet(versions')
         /\ \A p \in Processors :
               /\ Revisions(p)' = 1 .. Cardinality(VersionsOf(p))'
               /\ Cardinality(VersionsOf(p)) <= Cardinality(VersionsOf(p))'
<1> DEFINE q == x.processor
           k == Cardinality(VersionsOf(q))
<1>1. x \notin versions /\ \A v \in VersionsOf(q) : v.revision # x.revision
  BY DEF Insertable, VersionsOf
<1>2. IsFiniteSet(versions')
  BY FS_AddElement DEF CatalogInv, CatalogShapes
<1>3. k \in Nat /\ Revisions(q) = 1 .. k /\ IsFiniteSet(VersionsOf(q))
  BY Numbered
<1>4. x.revision = k + 1
  BY <1>1, <1>3 DEF Revisions
<1>5. VersionsOf(q)' = VersionsOf(q) \cup {x}
  BY DEF VersionsOf
<1>6. Cardinality(VersionsOf(q)') = k + 1
  BY <1>1, <1>3, <1>5, FS_AddElement DEF VersionsOf
<1>7. Revisions(q)' = Revisions(q) \cup {k + 1}
  BY <1>4, <1>5 DEF Revisions
<1>8. Revisions(q)' = 1 .. k + 1
  BY <1>3, <1>7
<1>9. ASSUME NEW p \in Processors, p # q
      PROVE  /\ VersionsOf(p)' = VersionsOf(p) /\ Revisions(p)' = Revisions(p)
  BY <1>9 DEF VersionsOf, Revisions
<1>10. \A p \in Processors : Cardinality(VersionsOf(p)) \in Nat
                             /\ Revisions(p) = 1 .. Cardinality(VersionsOf(p))
  BY Numbered
<1>11. QED
  BY <1>2, <1>3, <1>6, <1>8, <1>9, <1>10

-----------------------------------------------------------------------------
(* Requests.                                                                 *)

\* What the request of a client has to be for the invariant.
FitsIn(w, c) ==
    /\ WorkShape(w)
    /\ w.kind \notin {"none", "create"} => w.expected > 0
    /\ w.kind # "none" =>
          \/ HasReceipt(w.number)
          \/ \A d \in Clients \ {c} : Working(d) => works[d].number # w.number
    /\ w.checked # 0 =>
          /\ w.kind # "none"
          /\ ~HasReceipt(w.number)
          /\ w.checked <= Cardinality(VersionsOf(w.processor)) + 1
          /\ w.kind # "update" => Met(Draft(w.id).needs, w.processor)

LEMMA RequestsKeep ==
  ASSUME CatalogInv, NEW c \in Clients, NEW w, FitsIn(w, c),
         works' = [works EXCEPT ![c] = w],
         UNCHANGED <<installations, versions, answers, choices>>,
         requests' \in Nat, requests' >= requests, w.number <= requests'
  PROVE  CatalogInv'
<1>1. /\ DOMAIN works' = Clients /\ works'[c] = w
      /\ \A d \in Clients \ {c} : works'[d] = works[d]
  BY DEF CatalogInv, CatalogShapes
<1>2. CatalogShapes'
  BY <1>1 DEF CatalogInv, CatalogShapes, FitsIn
<1>3. NumbersInv'
  <2>1. requests \in Nat /\ \A d \in Clients : works[d].number \in Nat
    BY DEF CatalogInv, CatalogShapes, WorkShape
  <2>2. \A r \in answers : r.number <= requests'
    BY <2>1 DEF CatalogInv, CatalogShapes, NumbersInv, WorkShape
  <2>3. \A d \in Clients : works'[d].number <= requests'
    BY <1>1, <2>1 DEF CatalogInv, NumbersInv
  <2>4. \A d \in Clients :
          /\ works'[d].checked # 0 => works'[d].kind # "none" /\ ~HasReceipt(works'[d].number)
          /\ works'[d].kind \notin {"none", "create"} => works'[d].expected > 0
    BY <1>1 DEF CatalogInv, NumbersInv, FitsIn, Working
  <2>5. \A d, e \in Clients :
          /\ d # e /\ works'[d].kind # "none" /\ works'[e].kind # "none"
          /\ works'[d].number = works'[e].number
          => HasReceipt(works'[d].number)
    BY <1>1 DEF CatalogInv, NumbersInv, FitsIn, Working
  <2>6. QED
    BY <2>2, <2>3, <2>4, <2>5 DEF CatalogInv, NumbersInv, Working, HasReceipt
<1>4. ConfigInv'
  BY DEF CatalogInv, ConfigInv, ChangesOf, Installed
<1>5. VersionsInv'
  <2>1. \A p : VersionsOf(p)' = VersionsOf(p)
    BY DEF VersionsOf
  <2>2. \A d \in Clients : works'[d].checked # 0 =>
          /\ works'[d].checked <= Cardinality(VersionsOf(works'[d].processor)) + 1
          /\ works'[d].kind # "update" => Met(Draft(works'[d].id).needs, works'[d].processor)
    BY <1>1 DEF CatalogInv, VersionsInv, FitsIn
  <2>3. \A needs, p : Met(needs, p)' = Met(needs, p)
    BY DEF Met
  <2>4. \A p \in Processors : Revisions(p)' = 1 .. Cardinality(VersionsOf(p))'
    BY <2>1 DEF CatalogInv, VersionsInv, Revisions
  <2>5. \A p : Installed(p)' = Installed(p)
    BY DEF Installed
  <2>6. QED
    BY <2>1, <2>2, <2>3, <2>4, <2>5 DEF CatalogInv, VersionsInv
<1>6. AcyclicInv'
  BY DEF CatalogInv, AcyclicInv, Needs, ReachedFrom
<1>7. QED
  BY <1>2, <1>3, <1>4, <1>5, <1>6 DEF CatalogInv

LEMMA SettledFits == ASSUME NEW c PROVE FitsIn(NoWork, c)
  BY DEF FitsIn, NoWork, WorkShape, WorkFields, Processors

LEMMA AskKeeps ==
  ASSUME CatalogInv, NEW c \in Clients, NEW kind \in {"create", "publish", "update"},
         NEW p \in Processors, NEW id, NEW expected \in Nat, kind # "create" => expected > 0,
         Ask(c, Request(kind, p, id, expected))
  PROVE  CatalogInv'
<1> DEFINE w == Request(kind, p, id, expected)
<1>1. requests \in Nat
  BY DEF CatalogInv, CatalogShapes
<1>2. /\ WorkShape(w) /\ w.number = requests + 1 /\ w.checked = 0 /\ w.kind = kind
      /\ w.expected = expected
  BY <1>1 DEF Request, WorkShape, WorkFields
<1>3. \A d \in Clients : works[d].number # requests + 1
  BY <1>1 DEF CatalogInv, CatalogShapes, WorkShape, NumbersInv
<1>4. FitsIn(w, c)
  BY <1>2, <1>3 DEF FitsIn
<1>5. /\ works' = [works EXCEPT ![c] = w] /\ requests' = requests + 1
      /\ UNCHANGED <<installations, versions, answers, choices>>
  BY DEF Ask
<1> HIDE DEF w
<1>6. requests' \in Nat /\ requests' >= requests /\ w.number <= requests'
  BY <1>1, <1>2, <1>5
<1>7. QED
  BY <1>4, <1>5, <1>6, RequestsKeep

LEMMA AskCreateKeeps ==
  ASSUME CatalogInv, NEW c \in Clients, AskCreate(c) PROVE CatalogInv'
  BY AskKeeps DEF AskCreate, Processors

LEMMA AskPublishKeeps ==
  ASSUME CatalogInv, NEW c \in Clients, AskPublish(c) PROVE CatalogInv'
<1>1. PICK p \in Processors, draft \in Drafts :
         /\ Installed(p)
         /\ Ask(c, Request("publish", p, draft.id, Resource(p)))
  BY DEF AskPublish
<1>2. Resource(p) \in Nat /\ Resource(p) > 0
  BY <1>1 DEF Resource, Installed, CatalogInv, CatalogShapes
<1>3. QED
  BY <1>1, <1>2, AskKeeps

LEMMA AskUpdateKeeps ==
  ASSUME CatalogInv, NEW c \in Clients, AskUpdate(c) PROVE CatalogInv'
<1>1. PICK v \in versions : Ask(c, Request("update", v.processor, v.id, Resource(v.processor)))
  BY DEF AskUpdate
<1>2. v.processor \in Processors /\ Installed(v.processor)
  BY DEF CatalogInv, VersionsInv
<1>3. Resource(v.processor) \in Nat /\ Resource(v.processor) > 0
  BY <1>2 DEF Resource, Installed, CatalogInv, CatalogShapes
<1>4. QED
  BY <1>1, <1>2, <1>3, AskKeeps

LEMMA AskAgainKeeps ==
  ASSUME CatalogInv, NEW c \in Clients, AskAgain(c) PROVE CatalogInv'
<1>1. PICK r \in answers :
         /\ works' = [works EXCEPT ![c] = r] /\ requests' = requests + 1
         /\ UNCHANGED <<installations, versions, answers, choices>>
  BY DEF AskAgain
<1>2. /\ WorkShape(r) /\ r.checked = 0 /\ HasReceipt(r.number)
      /\ r.number \in Nat /\ r.number <= requests /\ requests \in Nat
      /\ r.kind \notin {"none", "create"} => r.expected > 0
  BY DEF CatalogInv, CatalogShapes, NumbersInv, HasReceipt, WorkShape
<1>3. FitsIn(r, c)
  BY <1>2 DEF FitsIn
<1>4. requests' \in Nat /\ requests' >= requests /\ r.number <= requests'
  BY <1>1, <1>2
<1>5. QED
  BY <1>1, <1>3, <1>4, RequestsKeep

LEMMA SettleKeeps ==
  ASSUME CatalogInv, NEW c \in Clients, Settled(c),
         UNCHANGED <<installations, versions, answers, requests, choices>>
  PROVE  CatalogInv'
<1>1. requests \in Nat /\ requests >= requests /\ NoWork.number <= requests
  BY DEF CatalogInv, CatalogShapes, NoWork
<1>2. QED
  BY <1>1, SettledFits, RequestsKeep DEF Settled

LEMMA CheckKeeps ==
  ASSUME CatalogInv, NEW c \in Clients, Working(c), Check(c) PROVE CatalogInv'
<1> DEFINE work == works[c]
           new == IF Checks(work) THEN Checked(work) ELSE NoWork
<1>1. /\ work.checked = 0 /\ ~HasReceipt(work.number)
      /\ works' = [works EXCEPT ![c] = new]
      /\ UNCHANGED <<installations, versions, answers, requests, choices>>
  BY DEF Check, HasReceipt
<1>2. WorkShape(work) /\ work.number \in Nat /\ work.number <= requests /\ requests \in Nat
  BY DEF CatalogInv, CatalogShapes, NumbersInv, WorkShape
<1>3. CASE ~Checks(work)
  <2>1. new = NoWork
    BY <1>3
  <2>2. QED
    BY <1>1, <2>1, SettleKeeps DEF Settled
<1>4. CASE Checks(work)
  <2>1. new = [work EXCEPT !.checked = NextRevision(work.processor)]
    BY <1>4 DEF Checked
  <2>2. /\ NextRevision(work.processor) = Cardinality(VersionsOf(work.processor)) + 1
        /\ Cardinality(VersionsOf(work.processor)) \in Nat
    BY <1>2, NextRevisionFollows, Numbered DEF WorkShape
  <2>3. /\ WorkShape(new) /\ new.number = work.number /\ new.kind = work.kind
        /\ new.processor = work.processor /\ new.id = work.id
        /\ new.expected = work.expected
        /\ new.checked = Cardinality(VersionsOf(work.processor)) + 1
    BY <1>2, <2>1, <2>2 DEF WorkShape, WorkFields
  <2>4. work.kind \notin {"none", "create"} => work.expected > 0
    BY DEF CatalogInv, NumbersInv, Working
  <2>5. \A d \in Clients \ {c} : Working(d) => works[d].number # work.number
    BY <1>1 DEF CatalogInv, NumbersInv
  <2>6. work.kind # "update" => Met(Draft(work.id).needs, work.processor)
    BY <1>2, <1>4 DEF Checks, CreateChecks, PublishChecks, AssertValid, Met, Working, WorkShape
  <2>7. FitsIn(new, c)
    BY <1>1, <2>2, <2>3, <2>4, <2>5, <2>6 DEF FitsIn, Working
  <2> HIDE DEF new
  <2>8. requests' \in Nat /\ requests' >= requests /\ new.number <= requests'
    BY <1>1, <1>2, <2>3
  <2>9. QED
    BY <1>1, <2>7, <2>8, RequestsKeep
<1>5. QED
  BY <1>3, <1>4

-----------------------------------------------------------------------------
(* Writes.                                                                   *)

\* The version that a request adds, if it adds one.
Adds(w) == versions' = versions \cup {NewVersion(w)} /\ Insertable(NewVersion(w))

\* The configuration that a request leaves: of the revision it was checked against,
\* and of no other processor.
Configures(w) ==
    /\ DOMAIN installations' = Processors
    /\ DOMAIN installations'[w.processor] = {"configRevision", "current"}
    /\ installations'[w.processor].current = w.id
    /\ \/ /\ w.kind = "create" /\ ~Installed(w.processor)
          /\ installations'[w.processor].configRevision = 1
       \/ /\ w.kind \in {"publish", "update"}
          /\ installations[w.processor].configRevision = w.expected
          /\ installations'[w.processor].configRevision = w.expected + 1
    /\ \A p \in Processors \ {w.processor} : installations'[p] = installations[p]

LEMMA AdvanceConfigures ==
  ASSUME CatalogInv, NEW w, WorkShape(w), w.kind \in {"publish", "update"}, Advance(w)
  PROVE  Configures(w)
<1> DEFINE p == w.processor
           new == [installations[p] EXCEPT !.configRevision = w.expected + 1, !.current = w.id]
<1>1. p \in Processors /\ DOMAIN installations = Processors
      /\ DOMAIN installations[p] = {"configRevision", "current"}
  BY DEF WorkShape, CatalogInv, CatalogShapes
<1>2. DOMAIN new = {"configRevision", "current"} /\ new.current = w.id
      /\ new.configRevision = w.expected + 1
  BY <1>1
<1>3. installations' = [installations EXCEPT ![p] = new]
      /\ installations[p].configRevision = w.expected
  BY DEF Advance, Resource
<1> HIDE DEF new
<1>4. QED
  BY <1>1, <1>2, <1>3 DEF Configures

LEMMA CommitWrites ==
  ASSUME CatalogInv, NEW c \in Clients, Commit(c)
  PROVE  /\ Configures(works[c])
         /\ IF works[c].kind = "update" THEN UNCHANGED versions ELSE Adds(works[c])
<1> DEFINE w == works[c]
<1>1. WorkShape(w)
  BY DEF CatalogInv, CatalogShapes
<1>2. CASE w.kind = "create" /\ CreateProcessor(w)
  <2>1. Configures(w)
    BY <1>1, <1>2 DEF CreateProcessor, Configures, CatalogInv, CatalogShapes, WorkShape
  <2>2. QED
    BY <1>2, <2>1 DEF CreateProcessor, InsertVersion, Adds
<1>3. CASE w.kind = "publish" /\ PublishVersion(w)
  BY <1>1, <1>3, AdvanceConfigures DEF PublishVersion, InsertVersion, Adds
<1>4. CASE w.kind = "update" /\ Update(w)
  BY <1>1, <1>4, AdvanceConfigures DEF Update
<1>5. QED
  BY <1>2, <1>3, <1>4 DEF Commit

LEMMA CommitKeeps ==
  ASSUME CatalogInv, NEW c \in Clients, Commit(c) PROVE CatalogInv'
<1>1. PICK w : w = works[c]
  OBVIOUS
<1> DEFINE q == w.processor
           receipt == [w EXCEPT !.checked = 0]
<1>2. /\ w.checked # 0 /\ answers' = answers \cup {receipt}
      /\ choices' = [choices EXCEPT ![q] = w.id]
      /\ works' = [works EXCEPT ![c] = NoWork]
      /\ UNCHANGED requests
  BY <1>1 DEF Commit, Remembered, Settled
<1>3. /\ WorkShape(w) /\ q \in Processors /\ w.number \in Nat /\ w.expected \in Nat
      /\ w.number <= requests /\ w.kind # "none" /\ ~HasReceipt(w.number)
      /\ w.kind # "create" => w.expected > 0
  BY <1>1, <1>2 DEF CatalogInv, CatalogShapes, NumbersInv, WorkShape, Working
<1>4. /\ WorkShape(receipt) /\ receipt.number = w.number /\ receipt.kind = w.kind
      /\ receipt.processor = q /\ receipt.expected = w.expected /\ receipt.checked = 0
  BY <1>3 DEF WorkShape, WorkFields
<1>5. Configures(w) /\ IF w.kind = "update" THEN UNCHANGED versions ELSE Adds(w)
  BY <1>1, CommitWrites
<1>6. /\ DOMAIN works' = Clients /\ works'[c] = NoWork
      /\ \A d \in Clients \ {c} : works'[d] = works[d]
      /\ DOMAIN choices' = Processors /\ choices'[q] = w.id
      /\ \A p \in Processors \ {q} : choices'[p] = choices[p]
  BY <1>2, <1>3 DEF CatalogInv, CatalogShapes
<1>7. receipt \notin answers
  BY <1>3, <1>4 DEF HasReceipt
<1> HIDE DEF receipt
<1>8. IsFiniteSet(answers) /\ IsFiniteSet(answers')
  BY <1>2, FS_AddElement DEF CatalogInv, CatalogShapes
<1>9. ASSUME NEW p \in Processors
      PROVE  Installed(p) => Installed(p)'
  <2>1. installations[p].configRevision \in Nat
    BY DEF CatalogInv, CatalogShapes
  <2>2. QED
    BY <1>3, <1>5, <2>1 DEF Installed, Configures
<1>10. Installed(q)'
  BY <1>3, <1>5 DEF Installed, Configures
<1>11. /\ w.kind # "update" => Met(Draft(w.id).needs, q)
       /\ w.checked <= Cardinality(VersionsOf(q)) + 1
  BY <1>1, <1>2 DEF CatalogInv, VersionsInv
<1>12. versions \subseteq versions'
  BY <1>5 DEF Adds
<1>13. \A needs, p : Met(needs, p) => Met(needs, p)'
  BY <1>12 DEF Met
<1>14. /\ IsFiniteSet(versions') /\ AcyclicInv'
       /\ \A p \in Processors :
             /\ Revisions(p)' = 1 .. Cardinality(VersionsOf(p))'
             /\ Cardinality(VersionsOf(p)) <= Cardinality(VersionsOf(p))'
             /\ Cardinality(VersionsOf(p))' \in Nat
       /\ \A v \in versions' : v.processor \in Processors /\ Met(v.needs, v.processor)'
                               /\ Installed(v.processor)'
  <2>1. CASE w.kind = "update"
    <3>1. UNCHANGED versions
      BY <1>5, <2>1
    <3>2. \A p : VersionsOf(p)' = VersionsOf(p) /\ Revisions(p)' = Revisions(p)
      BY <3>1 DEF VersionsOf, Revisions
    <3>3. AcyclicInv'
      BY <3>1 DEF CatalogInv, AcyclicInv, Needs, ReachedFrom
    <3>4. \A v \in versions : v.processor \in Processors /\ Met(v.needs, v.processor)
                              /\ Installed(v.processor)
      BY DEF CatalogInv, VersionsInv
    <3>5. \A p \in Processors : Cardinality(VersionsOf(p)) \in Nat
                                /\ Revisions(p) = 1 .. Cardinality(VersionsOf(p))
      BY Numbered
    <3>6. QED
      BY <1>9, <1>13, <3>1, <3>2, <3>3, <3>4, <3>5 DEF CatalogInv, CatalogShapes
  <2>2. CASE w.kind # "update"
    <3> DEFINE x == NewVersion(w)
    <3>1. versions' = versions \cup {x} /\ Insertable(x)
      BY <1>5, <2>2 DEF Adds
    <3>2. x.processor = q /\ x.revision = w.checked /\ x.needs = Draft(w.id).needs
      BY DEF NewVersion, Version
    <3>3. x.revision \in Nat \ {0} /\ x.revision <= Cardinality(VersionsOf(x.processor)) + 1
      BY <1>2, <1>3, <1>11, <3>2 DEF WorkShape
    <3>4. Met(x.needs, x.processor)
      BY <1>11, <2>2, <3>2
    <3> HIDE DEF x
    <3>5. /\ IsFiniteSet(versions')
          /\ \A p \in Processors :
                /\ Revisions(p)' = 1 .. Cardinality(VersionsOf(p))'
                /\ Cardinality(VersionsOf(p)) <= Cardinality(VersionsOf(p))'
      BY <1>3, <3>1, <3>2, <3>3, AddedNumbered
    <3>6. AcyclicInv'
      BY <3>1, <3>4, AddedAcyclic
    <3>7. \A v \in versions : v.processor \in Processors /\ Met(v.needs, v.processor)
                              /\ Installed(v.processor)
      BY DEF CatalogInv, VersionsInv
    <3>8. \A p \in Processors : IsFiniteSet(VersionsOf(p)')
      BY <3>5, FS_Subset DEF VersionsOf
    <3>9. \A p \in Processors : Cardinality(VersionsOf(p))' \in Nat
      BY <3>8, FS_CardinalityType
    <3>10. \A v \in versions' : v.processor \in Processors /\ Met(v.needs, v.processor)'
                                /\ Installed(v.processor)'
      BY <1>3, <1>9, <1>10, <1>13, <3>1, <3>2, <3>4, <3>7
    <3>11. QED
      BY <3>5, <3>6, <3>9, <3>10
  <2>3. QED
    BY <2>1, <2>2
<1>15. CatalogShapes'
  <2>1. \A d \in Clients : WorkShape(works'[d])
    BY <1>6, SettledFits DEF FitsIn, CatalogInv, CatalogShapes
  <2>2. \A r \in answers' : WorkShape(r)
    BY <1>2, <1>4 DEF CatalogInv, CatalogShapes
  <2>3. /\ DOMAIN installations' = Processors
        /\ \A p \in Processors :
              /\ DOMAIN installations'[p] = {"configRevision", "current"}
              /\ installations'[p].configRevision \in Nat
    BY <1>3, <1>5 DEF Configures, CatalogInv, CatalogShapes
  <2>4. QED
    BY <1>2, <1>6, <1>8, <1>14, <2>1, <2>2, <2>3 DEF CatalogInv, CatalogShapes
<1>16. NumbersInv'
  <2>1. \A n : HasReceipt(n)' <=> HasReceipt(n) \/ n = w.number
    BY <1>2, <1>4 DEF HasReceipt
  <2>2. \A r \in answers' : /\ r.number <= requests' /\ r.checked = 0 /\ r.kind # "none"
                            /\ r.kind # "create" => r.expected > 0
    BY <1>2, <1>3, <1>4 DEF CatalogInv, NumbersInv
  <2>3. \A d \in Clients \ {c} : works[d].checked # 0 => works[d].number # w.number
    BY <1>1, <1>3 DEF CatalogInv, NumbersInv, Working
  <2>4. \A d \in Clients :
          /\ works'[d].number <= requests'
          /\ works'[d].checked # 0 =>
                works'[d].kind # "none" /\ ~HasReceipt(works[d].number)'
          /\ works'[d].kind \notin {"none", "create"} => works'[d].expected > 0
    <3>1. NoWork.number <= requests' /\ NoWork.checked = 0 /\ NoWork.kind = "none"
      BY <1>2 DEF NoWork, CatalogInv, CatalogShapes
    <3>2. QED
      BY <1>2, <1>6, <2>1, <2>3, <3>1 DEF CatalogInv, NumbersInv, Working
  <2>5. \A d, e \in Clients :
          /\ d # e /\ works'[d].kind # "none" /\ works'[e].kind # "none"
          /\ works'[d].number = works'[e].number
          => HasReceipt(works[d].number)'
    BY <1>6, <2>1 DEF CatalogInv, NumbersInv, Working, NoWork
  <2>6. QED
    BY <2>2, <2>4, <2>5 DEF NumbersInv, Working
<1>17. ASSUME NEW p \in Processors
       PROVE  /\ Installed(p)' => installations'[p].configRevision = 1 + Cardinality(ChangesOf(p)')
              /\ ~Installed(p)' => ChangesOf(p)' = {}
              /\ choices'[p] \notin {"none", LegacyVersion.id} =>
                    Installed(p)' /\ installations'[p].current = choices'[p]
  <2>1. /\ Installed(p) => installations[p].configRevision = 1 + Cardinality(ChangesOf(p))
        /\ ~Installed(p) => ChangesOf(p) = {}
        /\ choices[p] \notin {"none", LegacyVersion.id} =>
              Installed(p) /\ installations[p].current = choices[p]
    BY DEF CatalogInv, ConfigInv
  <2>2. CASE p # q
    <3>1. ChangesOf(p)' = ChangesOf(p)
      BY <1>2, <1>4, <2>2 DEF ChangesOf
    <3>2. installations'[p] = installations[p] /\ choices'[p] = choices[p]
      BY <1>5, <1>6, <2>2 DEF Configures
    <3>3. QED
      BY <2>1, <3>1, <3>2 DEF Installed
  <2>3. CASE p = q /\ w.kind = "create"
    <3>1. ChangesOf(p)' = ChangesOf(p)
      BY <1>2, <1>4, <2>3 DEF ChangesOf
    <3>2. ChangesOf(p) = {}
      BY <1>5, <2>1, <2>3 DEF Configures
    <3>3. installations'[p].configRevision = 1 + Cardinality(ChangesOf(p)')
      BY <1>5, <2>3, <3>1, <3>2, FS_EmptySet DEF Configures
    <3>4. QED
      BY <1>5, <1>6, <1>10, <2>3, <3>3 DEF Configures
  <2>4. CASE p = q /\ w.kind # "create"
    <3>1. ChangesOf(p)' = ChangesOf(p) \cup {receipt}
      BY <1>2, <1>4, <2>4 DEF ChangesOf
    <3>2. receipt \notin ChangesOf(p) /\ IsFiniteSet(ChangesOf(p))
      BY <1>7, <1>8, FS_Subset DEF ChangesOf
    <3>3. Cardinality(ChangesOf(p)') = Cardinality(ChangesOf(p)) + 1
          /\ Cardinality(ChangesOf(p)) \in Nat
      BY <3>1, <3>2, FS_AddElement, FS_CardinalityType
    <3>4. installations[p].configRevision = w.expected
          /\ installations'[p].configRevision = w.expected + 1
      BY <1>5, <2>4 DEF Configures
    <3>5. Installed(p)
      BY <1>3, <2>4, <3>4 DEF Installed
    <3>6. installations'[p].configRevision = 1 + Cardinality(ChangesOf(p)')
      BY <1>3, <2>1, <3>3, <3>4, <3>5
    <3>7. QED
      BY <1>5, <1>6, <1>10, <2>4, <3>6 DEF Configures
  <2>5. QED
    BY <2>2, <2>3, <2>4
<1>18. ConfigInv'
  BY <1>17 DEF ConfigInv
<1>19. ASSUME NEW d \in Clients, works'[d].checked # 0
       PROVE  (/\ works[d].checked <= Cardinality(VersionsOf(works[d].processor)) + 1
               /\ works[d].kind # "update" =>
                     Met(Draft(works[d].id).needs, works[d].processor))'
  <2>1. PICK v : v = works[d]
    OBVIOUS
  <2>2. works'[d] = v
    BY <1>6, <1>19, <2>1 DEF NoWork
  <2>3. v.processor \in Processors /\ v.checked \in Nat /\ v.checked # 0
    BY <1>19, <2>1, <2>2 DEF CatalogInv, CatalogShapes, WorkShape
  <2>4. /\ v.checked <= Cardinality(VersionsOf(v.processor)) + 1
        /\ v.kind # "update" => Met(Draft(v.id).needs, v.processor)
    BY <2>1, <2>3 DEF CatalogInv, VersionsInv
  <2>5. /\ Cardinality(VersionsOf(v.processor)) \in Nat
        /\ Cardinality(VersionsOf(v.processor))' \in Nat
        /\ Cardinality(VersionsOf(v.processor)) <= Cardinality(VersionsOf(v.processor))'
    BY <1>14, <2>3, Numbered
  <2>6. v.checked <= Cardinality(VersionsOf(v.processor))' + 1
    BY <2>3, <2>4, <2>5
  <2>7. QED
    BY <1>13, <2>2, <2>4, <2>6
<1>20. VersionsInv'
  BY <1>12, <1>14, <1>19 DEF CatalogInv, VersionsInv
<1>21. QED
  BY <1>14, <1>15, <1>16, <1>18, <1>20 DEF CatalogInv

LEMMA SeedDatabaseKeeps ==
  ASSUME CatalogInv, SeedDatabase PROVE CatalogInv'
<1> DEFINE x == ShippedVersion
<1>1. UNCHANGED <<works, answers, requests, choices>>
  BY DEF SeedDatabase
<1>2. /\ x.processor = BuiltIn /\ x.revision = 2 /\ x.needs = {}
      /\ BuiltIn \in Processors
  BY DEF ShippedVersion, Version, Processors
<1>3. /\ LegacyVersion \in versions /\ LegacyVersion.processor = BuiltIn
  BY DEF CatalogInv, VersionsInv, LegacyVersion, Version
<1>4. Cardinality(VersionsOf(BuiltIn)) >= 1
  <2>1. LegacyVersion \in VersionsOf(BuiltIn)
    BY <1>3 DEF VersionsOf
  <2>2. IsFiniteSet(VersionsOf(BuiltIn)) /\ Cardinality(VersionsOf(BuiltIn)) \in Nat
    BY <1>2, Numbered
  <2>3. Cardinality(VersionsOf(BuiltIn)) # 0
    BY <2>1, <2>2, FS_EmptySet
  <2>4. QED
    BY <2>2, <2>3
<1>5. Cardinality(VersionsOf(BuiltIn)) \in Nat
  BY <1>2, Numbered
<1>6. \A p \in Processors : /\ Cardinality(VersionsOf(p)) \in Nat
                            /\ Revisions(p) = 1 .. Cardinality(VersionsOf(p))
                            /\ IsFiniteSet(VersionsOf(p))
  BY Numbered
<1>7. /\ DOMAIN installations' = Processors
      /\ \A p \in Processors :
            /\ DOMAIN installations'[p] = {"configRevision", "current"}
            /\ installations'[p].configRevision = installations[p].configRevision
            /\ installations[p].current \notin {"legacy", "shipped"} =>
                  installations'[p].current = installations[p].current
            /\ installations[p].current = "shipped" => installations'[p].current = "shipped"
  BY <1>2 DEF SeedDatabase, CatalogInv, CatalogShapes, LegacyVersion, ShippedVersion, Version
<1>8. \A p : p \in Processors => (Installed(p)' <=> Installed(p))
  BY <1>7 DEF Installed
<1>9. /\ IsFiniteSet(versions') /\ AcyclicInv' /\ versions \subseteq versions'
      /\ \A p \in Processors :
            /\ Revisions(p)' = 1 .. Cardinality(VersionsOf(p))'
            /\ Cardinality(VersionsOf(p)) <= Cardinality(VersionsOf(p))'
            /\ Cardinality(VersionsOf(p))' \in Nat
      /\ \A v \in versions' : v \in versions \/ v = x
  <2>1. CASE Insertable(x)
    <3>1. versions' = versions \cup {x}
      BY <2>1 DEF SeedDatabase
    <3>2. x.revision <= Cardinality(VersionsOf(x.processor)) + 1 /\ x.revision \in Nat \ {0}
      BY <1>2, <1>4, <1>5
    <3>3. Met(x.needs, x.processor)
      BY <1>2 DEF Met
    <3> HIDE DEF x
    <3>4. /\ IsFiniteSet(versions')
          /\ \A p \in Processors :
                /\ Revisions(p)' = 1 .. Cardinality(VersionsOf(p))'
                /\ Cardinality(VersionsOf(p)) <= Cardinality(VersionsOf(p))'
      BY <1>2, <2>1, <3>1, <3>2, AddedNumbered
    <3>5. AcyclicInv'
      BY <2>1, <3>1, <3>3, AddedAcyclic
    <3>6. \A p \in Processors : IsFiniteSet(VersionsOf(p)')
      BY <3>4, FS_Subset DEF VersionsOf
    <3>7. \A p \in Processors : Cardinality(VersionsOf(p))' \in Nat
      BY <3>6, FS_CardinalityType
    <3>8. QED
      BY <3>1, <3>4, <3>5, <3>7
  <2>2. CASE ~Insertable(x)
    <3>1. UNCHANGED versions
      BY <2>2 DEF SeedDatabase
    <3>2. \A p : VersionsOf(p)' = VersionsOf(p) /\ Revisions(p)' = Revisions(p)
      BY <3>1 DEF VersionsOf, Revisions
    <3>3. AcyclicInv'
      BY <3>1 DEF CatalogInv, AcyclicInv, Needs, ReachedFrom
    <3>4. QED
      BY <1>6, <3>1, <3>2, <3>3 DEF CatalogInv, CatalogShapes
  <2>3. QED
    BY <2>1, <2>2
<1>10. \A needs, p : Met(needs, p) => Met(needs, p)'
  BY <1>9 DEF Met
<1>11. CatalogShapes'
  BY <1>1, <1>7, <1>9 DEF CatalogInv, CatalogShapes
<1>12. NumbersInv'
  BY <1>1 DEF CatalogInv, NumbersInv, HasReceipt, Working
<1>13. ConfigInv'
  <2>1. \A p : ChangesOf(p)' = ChangesOf(p)
    BY <1>1 DEF ChangesOf
  <2>2. ASSUME NEW p \in Processors, choices[p] \notin {"none", LegacyVersion.id}
        PROVE  Installed(p) /\ installations'[p].current = choices[p]
    <3>1. Installed(p) /\ installations[p].current = choices[p]
      BY <2>2 DEF CatalogInv, ConfigInv
    <3>2. LegacyVersion.id = "legacy"
      BY DEF LegacyVersion, Version
    <3>3. installations'[p].current = installations[p].current
      BY <1>7, <2>2, <3>1, <3>2
    <3>4. QED
      BY <3>1, <3>3
  <2>3. QED
    BY <1>1, <1>7, <1>8, <2>1, <2>2 DEF CatalogInv, ConfigInv
<1>14. ASSUME NEW d \in Clients, works[d].checked # 0
       PROVE  (/\ works[d].checked <= Cardinality(VersionsOf(works[d].processor)) + 1
               /\ works[d].kind # "update" =>
                     Met(Draft(works[d].id).needs, works[d].processor))'
  <2>1. PICK v : v = works[d]
    OBVIOUS
  <2>2. works'[d] = v
    BY <1>1, <2>1
  <2>3. v.processor \in Processors /\ v.checked \in Nat /\ v.checked # 0
    BY <1>14, <2>1 DEF CatalogInv, CatalogShapes, WorkShape
  <2>4. /\ v.checked <= Cardinality(VersionsOf(v.processor)) + 1
        /\ v.kind # "update" => Met(Draft(v.id).needs, v.processor)
    BY <2>1, <2>3 DEF CatalogInv, VersionsInv
  <2>5. /\ Cardinality(VersionsOf(v.processor)) \in Nat
        /\ Cardinality(VersionsOf(v.processor))' \in Nat
        /\ Cardinality(VersionsOf(v.processor)) <= Cardinality(VersionsOf(v.processor))'
    BY <1>6, <1>9, <2>3
  <2>6. v.checked <= Cardinality(VersionsOf(v.processor))' + 1
    BY <2>3, <2>4, <2>5
  <2>7. QED
    BY <1>10, <2>2, <2>4, <2>6
<1>15. ASSUME NEW v \in versions'
       PROVE  v.processor \in Processors /\ Installed(v.processor)' /\ Met(v.needs, v.processor)'
  <2>1. CASE v \in versions
    BY <1>8, <1>10, <2>1 DEF CatalogInv, VersionsInv
  <2>2. CASE v = x
    <3>1. Installed(BuiltIn)'
      BY <1>2, <1>3, <1>8 DEF CatalogInv, VersionsInv
    <3>2. QED
      BY <1>2, <2>2, <3>1 DEF Met
  <2>3. QED
    BY <1>9, <2>1, <2>2
<1>16. VersionsInv'
  BY <1>1, <1>3, <1>9, <1>14, <1>15 DEF CatalogInv, VersionsInv
<1>17. QED
  BY <1>9, <1>11, <1>12, <1>13, <1>16 DEF CatalogInv

-----------------------------------------------------------------------------
LEMMA CatalogInvInit == CatalogInit => CatalogInv
<1> SUFFICES ASSUME CatalogInit PROVE CatalogInv
  OBVIOUS
<1>1. BuiltIn \in Processors /\ IsFiniteSet({}) /\ Cardinality({}) = 0
  BY FS_EmptySet DEF Processors
<1>2. IsFiniteSet({LegacyVersion}) /\ Cardinality({LegacyVersion}) = 1
  BY FS_Singleton
<1>3. CatalogShapes
  BY <1>1, <1>2, SettledFits
     DEF CatalogInit, CatalogShapes, FitsIn, NoInstallation
<1>4. NumbersInv
  BY DEF CatalogInit, NumbersInv, NoWork, Working
<1>5. \A p \in Processors : Installed(p) <=> p = BuiltIn
  BY DEF CatalogInit, Installed, NoInstallation
<1>6. ConfigInv
  BY <1>1, <1>5 DEF CatalogInit, ConfigInv, ChangesOf
<1>7. \A p \in Processors : VersionsOf(p) = IF p = BuiltIn THEN {LegacyVersion} ELSE {}
  BY DEF CatalogInit, VersionsOf, LegacyVersion, Version
<1>8. LegacyVersion.revision = 1 /\ LegacyVersion.processor = BuiltIn /\ LegacyVersion.needs = {}
  BY DEF LegacyVersion, Version
<1>9. ASSUME NEW p \in Processors
      PROVE  Revisions(p) = 1 .. Cardinality(VersionsOf(p))
  <2>1. CASE p = BuiltIn
    BY <1>2, <1>7, <1>8, <2>1 DEF Revisions
  <2>2. CASE p # BuiltIn
    BY <1>1, <1>7, <2>2 DEF Revisions
  <2>3. QED
    BY <2>1, <2>2
<1>10. VersionsInv
  BY <1>1, <1>5, <1>8, <1>9 DEF CatalogInit, VersionsInv, Met, NoWork
<1>11. AcyclicInv
  <2>1. ClosedUnder(Needs, {})
    BY DEF ClosedUnder
  <2>2. QED
    BY <1>8, <2>1, NotReached DEF CatalogInit, AcyclicInv
<1>12. QED
  BY <1>3, <1>4, <1>6, <1>10, <1>11 DEF CatalogInv

LEMMA CatalogInvNext == CatalogInv /\ [CatalogNext]_catalogVars => CatalogInv'
<1> SUFFICES ASSUME CatalogInv, [CatalogNext]_catalogVars PROVE CatalogInv'
  OBVIOUS
<1>1. ASSUME NEW c \in Clients,
             AskCreate(c) \/ AskPublish(c) \/ AskUpdate(c) \/ AskAgain(c)
      PROVE  CatalogInv'
  BY <1>1, AskCreateKeeps, AskPublishKeeps, AskUpdateKeeps, AskAgainKeeps
<1>2. ASSUME NEW c \in Clients, Replay(c) \/ Conflict(c)
      PROVE  CatalogInv'
  BY <1>2, SettleKeeps DEF Replay, Conflict
<1>3. ASSUME NEW c \in Clients, Working(c), Check(c) \/ Commit(c)
      PROVE  CatalogInv'
  BY <1>3, CheckKeeps, CommitKeeps
<1>4. CASE SeedDatabase
  BY <1>4, SeedDatabaseKeeps
<1>5. CASE UNCHANGED catalogVars
  <2>1. \A p : /\ VersionsOf(p)' = VersionsOf(p) /\ Installed(p)' = Installed(p)
               /\ ChangesOf(p)' = ChangesOf(p)
    BY <1>5 DEF catalogVars, VersionsOf, Installed, ChangesOf
  <2>2. \A needs, p : Met(needs, p)' = Met(needs, p)
    BY <1>5 DEF catalogVars, Met
  <2>3. CatalogShapes' /\ NumbersInv'
    BY <1>5 DEF catalogVars, CatalogInv, CatalogShapes, NumbersInv, HasReceipt, Working
  <2>4. ConfigInv'
    BY <1>5, <2>1 DEF catalogVars, CatalogInv, ConfigInv
  <2>5. VersionsInv'
    BY <1>5, <2>1, <2>2 DEF catalogVars, CatalogInv, VersionsInv, Revisions
  <2>6. AcyclicInv'
    BY <1>5 DEF catalogVars, CatalogInv, AcyclicInv, Needs, ReachedFrom
  <2>7. QED
    BY <2>3, <2>4, <2>5, <2>6 DEF CatalogInv
<1>6. QED
  BY <1>1, <1>2, <1>3, <1>4, <1>5 DEF CatalogNext, Client, Working

LEMMA CatalogInvImplies == CatalogInv => CatalogFollowsOwner
<1> SUFFICES ASSUME CatalogInv PROVE CatalogFollowsOwner
  OBVIOUS
<1>1. ASSUME NEW p \in Processors, Installed(p)
      PROVE  /\ installations[p].configRevision = 1 + Cardinality(ChangesOf(p))
             /\ choices[p] \notin {"none", LegacyVersion.id} =>
                    installations[p].current = choices[p]
             /\ Revisions(p) = 1 .. Cardinality(VersionsOf(p))
  BY <1>1 DEF CatalogInv, ConfigInv, VersionsInv
<1>2. ASSUME NEW v \in versions
      PROVE  /\ \A need \in v.needs : \E w \in versions : w.id = need /\ w.processor # v.processor
             /\ v.id \notin ReachedFrom(Needs, v.needs)
  BY DEF CatalogInv, VersionsInv, AcyclicInv, Met
<1>3. QED
  BY <1>1, <1>2 DEF CatalogFollowsOwner, ChangesOf, Revisions

\* However requests are repeated and race, and whenever the database is seeded, the
\* catalog runs what the owner chose last, every accepted request moved the
\* configuration by one, and versions are numbered without a gap and need only others
\* (processor-service.ts, seeds.ts).
THEOREM CatalogFollows == CatalogSpec => []CatalogFollowsOwner
<1>1. QED
  BY CatalogInvInit, CatalogInvNext, CatalogInvImplies, PTL DEF CatalogSpec
=============================================================================
