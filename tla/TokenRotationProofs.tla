------------------------ MODULE TokenRotationProofs ------------------------
(***************************************************************************)
(* TokenRotation's safety, for any number of concurrent requests and of    *)
(* tokens. The argument: a token that a request has received and not yet   *)
(* saved is known to nobody else (HeldInOneClient), so no other request    *)
(* can have it replaced before it is saved; and each chain of rotations    *)
(* has exactly one live token (OneLiveTokenPerChain), so following that    *)
(* token through a step is following the user's access.                    *)
(***************************************************************************)
EXTENDS TokenRotation, TLAPS

CredentialIsManual == credential \in Manual \union {NoToken}

ChainsAreRooted == \A t \in Issued : chain[t] \in Issued

\* The token of a request about to save is live, came from Questrade, and is
\* neither in Postgres nor in another client.
HeldInOneClient ==
    \A c \in Requests : pc[c] = "save" =>
        /\ refreshToken[c] \in live
        /\ refreshToken[c] \notin Manual
        /\ refreshToken[c] # stored
        /\ \A d \in Requests \ {c} : refreshToken[d] # refreshToken[c]

OneLiveTokenPerChain ==
    /\ \A t \in Issued : \E u \in live : chain[u] = chain[t]
    /\ \A u, v \in live : chain[u] = chain[v] => u = v

\* Until the first save, replacements are only in memory or lost.
NothingSavedYet ==
    stored = NoToken => live \subseteq Manual \union InFlight \union lost

StoredTokenRecoverable ==
    stored # NoToken =>
        \E t \in live :
            /\ chain[t] = chain[stored]
            /\ t \in {stored} \union InFlight \union lost

\* The inductive invariant.
Inv ==
    /\ TypeOK
    /\ CredentialIsManual
    /\ ChainsAreRooted
    /\ HeldInOneClient
    /\ OneLiveTokenPerChain
    /\ NothingSavedYet
    /\ StoredTokenRecoverable

-----------------------------------------------------------------------------
\* Every lemma below unfolds the invariant.
USE NoTokenAssumption
    DEF Inv, TypeOK, CredentialIsManual, ChainsAreRooted, HeldInOneClient,
        OneLiveTokenPerChain, NothingSavedYet, StoredTokenRecoverable,
        Issued, Manual, InFlight, questradeVars, clientVars, ApiCalls

LEMMA InitInv == Init => Inv
BY DEF Init

(* The user. *)
LEMMA GenerateTokenInv ==
    ASSUME Inv, NEW t \in Tokens, GenerateToken(t)
    PROVE  Inv'
BY DEF GenerateToken, Fresh

LEMMA SaveCredentialInv ==
    ASSUME Inv, NEW t \in Tokens, SaveCredential(t)
    PROVE  Inv'
BY DEF SaveCredential

LEMMA DeleteCredentialInv ==
    ASSUME Inv, DeleteCredential
    PROVE  Inv'
BY DEF DeleteCredential

(* One request. *)
LEMMA BuildInv ==
    ASSUME Inv, NEW c \in Requests, Build(c)
    PROVE  Inv'
BY DEF Build

LEMMA AuthCachedInv ==
    ASSUME Inv, NEW c \in Requests, AuthCached(c)
    PROVE  Inv'
BY DEF AuthCached

LEMMA AccessExpiresInv ==
    ASSUME Inv, NEW c \in Requests, AccessExpires(c)
    PROVE  Inv'
BY DEF AccessExpires

LEMMA LoadStoredInv ==
    ASSUME Inv, NEW c \in Requests, LoadStored(c)
    PROVE  Inv'
BY DEF LoadStored

LEMMA ReauthenticateInv ==
    ASSUME Inv, NEW c \in Requests, Reauthenticate(c)
    PROVE  Inv'
BY DEF Reauthenticate

LEMMA RotateInv ==
    ASSUME Inv, NEW c \in Requests, NEW t \in Tokens, Rotate(c, t)
    PROVE  Inv'
BY DEF Rotate, Replace, Fresh

LEMMA LoseResponseInv ==
    ASSUME Inv, NEW c \in Requests, NEW t \in Tokens, LoseResponse(c, t)
    PROVE  Inv'
BY DEF LoseResponse, Replace, Fresh, Finish

LEMMA RefuseInv ==
    ASSUME Inv, NEW c \in Requests, Refuse(c)
    PROVE  Inv'
BY DEF Refuse, Finish

LEMMA ExchangeFailsInv ==
    ASSUME Inv, NEW c \in Requests, ExchangeFails(c)
    PROVE  Inv'
BY DEF ExchangeFails, Finish

LEMMA SaveRefreshTokenInv ==
    ASSUME Inv, NEW c \in Requests, SaveRefreshToken(c)
    PROVE  Inv'
BY DEF SaveRefreshToken

LEMMA SaveFailsInv ==
    ASSUME Inv, NEW c \in Requests, SaveFails(c)
    PROVE  Inv'
BY DEF SaveFails

LEMMA ApiGetInv ==
    ASSUME Inv, NEW c \in Requests, ApiGet(c)
    PROVE  Inv'
<1>1. CASE callsLeft[c] > 1
  <2>1. /\ pc[c] = "call" /\ pc' = [pc EXCEPT ![c] = "auth"]
        /\ callsLeft' = [callsLeft EXCEPT ![c] = callsLeft[c] - 1]
        /\ UNCHANGED <<questradeVars, credential, stored, lost, configured, refreshToken,
                       loadedFromStore, accessToken, outcome>>
    BY <1>1 DEF ApiGet
  <2>2. callsLeft[c] - 1 \in 0..ApiCalls
    BY <1>1
  <2>3. TypeOK'
    BY <2>1, <2>2
  <2> QED
    BY <2>1, <2>3
<1>2. CASE ~(callsLeft[c] > 1)
  <2>1. /\ pc[c] = "call"
        /\ Finish(c, "ok")
        /\ UNCHANGED <<questradeVars, credential, stored, lost>>
    BY <1>2 DEF ApiGet
  <2> QED
    BY <2>1 DEF Finish
<1> QED
  BY <1>1, <1>2

LEMMA ApiGetFailsInv ==
    ASSUME Inv, NEW c \in Requests, ApiGetFails(c)
    PROVE  Inv'
BY DEF ApiGetFails, Finish

LEMMA CrashInv ==
    ASSUME Inv, Crash
    PROVE  Inv'
BY DEF Crash

-----------------------------------------------------------------------------
LEMMA StutterInv == Inv /\ UNCHANGED vars => Inv'
BY DEF vars

LEMMA NextInv == Inv /\ [Next]_vars => Inv'
<1> SUFFICES ASSUME Inv, [Next]_vars PROVE Inv'
  OBVIOUS
<1>1. CASE UNCHANGED vars
  BY <1>1, StutterInv
<1>2. CASE \E t \in Tokens : GenerateToken(t) \/ SaveCredential(t)
  BY <1>2, GenerateTokenInv, SaveCredentialInv
<1>3. CASE DeleteCredential
  BY <1>3, DeleteCredentialInv
<1>4. CASE \E c \in Requests : Build(c)
  BY <1>4, BuildInv
<1>5. ASSUME NEW c \in Requests, ClientStep(c)
      PROVE  Inv'
  BY <1>5, AuthCachedInv, AccessExpiresInv, LoadStoredInv, ReauthenticateInv, RotateInv,
     LoseResponseInv, RefuseInv, ExchangeFailsInv, SaveRefreshTokenInv, SaveFailsInv,
     ApiGetInv, ApiGetFailsInv
     DEF ClientStep
<1>6. CASE Crash
  BY <1>6, CrashInv
<1> QED
  BY <1>1, <1>2, <1>3, <1>4, <1>5, <1>6 DEF Next

\* The inductive invariant holds in every reachable state of the client, the
\* two rows and Questrade's token table.
THEOREM InvariantHolds == Spec => []Inv
BY InitInv, NextInv, PTL DEF Spec

\* Every variable keeps its type; in particular no client, no row and no
\* history ever names a token Questrade did not issue.
THEOREM TypeCorrect == Spec => []TypeOK
<1>1. Inv => TypeOK
  BY DEF Inv
<1> QED
  BY <1>1, InvariantHolds, PTL

LEMMA InvRecoverable == Inv => PresentedTokenRecoverable
<1> SUFFICES ASSUME Inv, Presented # NoToken
             PROVE  \E t \in live : /\ chain[t] = chain[Presented]
                                   /\ t \in {Presented} \union InFlight \union lost
  BY DEF PresentedTokenRecoverable
<1>1. CASE stored # NoToken
  BY <1>1 DEF Presented
<1>2. CASE stored = NoToken
  \* The credential roots its chain, whose live token is a manual one (so the
  \* credential itself), in flight, or lost.
  <2>1. Presented \in Manual
    BY <1>2 DEF Presented
  <2>2. PICK u \in live : chain[u] = chain[Presented]
    BY <2>1
  <2>3. u \in Manual => u = Presented
    BY <2>1, <2>2
  <2> QED
    BY <1>2, <2>2, <2>3
<1> QED
  BY <1>1, <1>2

\* Whatever the interleaving of requests, crashes, failed saves, failed loads
\* and reconnects, the chain of the token the next request presents is live
\* at that token, in a request's hands, or lost to a fault (client.go:95-148).
THEOREM Recoverable == Spec => []PresentedTokenRecoverable
BY InvariantHolds, InvRecoverable, PTL

LEMMA StepSavesLiveToken ==
    Inv /\ Inv' /\ [Next]_vars => (stored' # stored => stored' \in live')
<1> SUFFICES ASSUME Inv, Next, stored' # stored
             PROVE  stored' \in live'
  BY DEF vars
<1>1. ASSUME NEW c \in Requests, ClientStep(c)
      PROVE  stored' \in live'
  <2>1. SaveRefreshToken(c) \/ SaveFails(c)
    BY <1>1 DEF ClientStep, AuthCached, AccessExpires, LoadStored, Reauthenticate, Rotate,
       LoseResponse, Refuse, ExchangeFails, ApiGet, ApiGetFails
  <2> QED
    BY <2>1 DEF SaveRefreshToken, SaveFails
<1>2. CASE Crash
  BY <1>2 DEF Crash
<1> QED
  BY <1>1, <1>2 DEF Next, GenerateToken, SaveCredential, DeleteCredential, Build

\* No write to broker_oauth_tokens, a late one at a crash included, ever
\* replaces the row's token by one that a later exchange has superseded.
THEOREM NoLostUpdate == Spec => SavesOnlyLiveTokens
BY InvariantHolds, StepSavesLiveToken, PTL DEF Spec, SavesOnlyLiveTokens
=============================================================================
