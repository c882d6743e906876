--------------------------- MODULE TokenRotation ---------------------------
(***************************************************************************)
(* How one user's Questrade refresh token travels between Questrade, the   *)
(* broker_oauth_tokens row, the user_broker_credentials row and the        *)
(* request-local clients of internal/brokerage/questrade/client.go.        *)
(*                                                                         *)
(* Every HTTP request builds a fresh client (userbrokers.Factory.Build),   *)
(* so client.mu never orders two requests: they meet only in Postgres and  *)
(* at Questrade, where a refresh token is accepted once and replaced.      *)
(* A client is used by one goroutine, so each of its blocking calls is one *)
(* step here and everything between two calls belongs to the earlier one.  *)
(***************************************************************************)
EXTENDS Naturals

CONSTANTS
    Requests,   \* concurrent GetAccount / GetQuote calls of the user
    Tokens,     \* refresh tokens Questrade can issue (bounds the model)
    NoToken     \* the empty string: no row, or no token

ASSUME NoTokenAssumption == NoToken \notin Tokens

VARIABLES
    \* Questrade
    live,             \* tokens Questrade still accepts
    chain,            \* chain[t]: the manually generated token t descends from
    \* Postgres
    credential,       \* refresh_token in user_broker_credentials
    stored,           \* refresh_token in broker_oauth_tokens
    \* one client per request
    pc, configured, refreshToken, loadedFromStore, accessToken, callsLeft, outcome,
    \* history
    lost              \* replacements whose value a fault kept out of Postgres

questradeVars == <<live, chain>>
clientVars == <<pc, configured, refreshToken, loadedFromStore, accessToken, callsLeft, outcome>>
vars == <<live, chain, credential, stored, clientVars, lost>>

Issued == {t \in Tokens : chain[t] # NoToken}
Manual == {t \in Tokens : chain[t] = t}
Fresh == Tokens \ Issued

\* Tokens that only a request's memory holds, on their way to Postgres.
InFlight == {refreshToken[c] : c \in {d \in Requests : pc[d] = "save"}}

\* The token the next request will present: the store's, else the
\* credential's.
Presented == IF stored = NoToken THEN credential ELSE stored

\* GetAccount is two apiGet calls (accounts, balances); GetQuote is two as
\* well (symbol search, quotes).
ApiCalls == 2

TypeOK ==
    /\ live \subseteq Issued
    /\ chain \in [Tokens -> Tokens \union {NoToken}]
    /\ credential \in Issued \union {NoToken}
    /\ stored \in Issued \union {NoToken}
    /\ pc \in [Requests -> {"idle", "auth", "exchange", "save", "call"}]
    /\ configured \in [Requests -> Issued \union {NoToken}]
    /\ refreshToken \in [Requests -> Issued \union {NoToken}]
    /\ loadedFromStore \in [Requests -> BOOLEAN]
    /\ accessToken \in [Requests -> BOOLEAN]
    /\ callsLeft \in [Requests -> 0..ApiCalls]
    /\ outcome \in [Requests -> {"none", "ok", "refused", "error"}]
    /\ lost \subseteq Issued

Init ==
    /\ live = {}
    /\ chain = [t \in Tokens |-> NoToken]
    /\ credential = NoToken
    /\ stored = NoToken
    /\ pc = [c \in Requests |-> "idle"]
    /\ configured = [c \in Requests |-> NoToken]
    /\ refreshToken = [c \in Requests |-> NoToken]
    /\ loadedFromStore = [c \in Requests |-> FALSE]
    /\ accessToken = [c \in Requests |-> FALSE]
    /\ callsLeft = [c \in Requests |-> 0]
    /\ outcome = [c \in Requests |-> "none"]
    /\ lost = {}

-----------------------------------------------------------------------------
(* The user, on Questrade's website and on the Profile page. *)

GenerateToken(t) ==
    /\ t \in Fresh
    /\ live' = live \union {t}
    /\ chain' = [chain EXCEPT ![t] = t]
    /\ UNCHANGED <<credential, stored, clientVars, lost>>

\* POST /api/v1/broker-credentials: the token is not tried, and the
\* broker_oauth_tokens row is not touched.
SaveCredential(t) ==
    /\ t \in Manual
    /\ credential' = t
    /\ UNCHANGED <<questradeVars, stored, clientVars, lost>>

DeleteCredential ==
    /\ credential # NoToken
    /\ credential' = NoToken
    /\ UNCHANGED <<questradeVars, stored, clientVars, lost>>

-----------------------------------------------------------------------------
(* One request. *)

\* The request is over and its client is garbage.
Finish(c, result) ==
    /\ pc' = [pc EXCEPT ![c] = "idle"]
    /\ configured' = [configured EXCEPT ![c] = NoToken]
    /\ refreshToken' = [refreshToken EXCEPT ![c] = NoToken]
    /\ loadedFromStore' = [loadedFromStore EXCEPT ![c] = FALSE]
    /\ accessToken' = [accessToken EXCEPT ![c] = FALSE]
    /\ callsLeft' = [callsLeft EXCEPT ![c] = 0]
    /\ outcome' = [outcome EXCEPT ![c] = result]

\* Factory.Build: credentials loaded and decrypted, client constructed.
Build(c) ==
    /\ pc[c] = "idle"
    /\ credential # NoToken
    /\ pc' = [pc EXCEPT ![c] = "auth"]
    /\ configured' = [configured EXCEPT ![c] = credential]
    /\ refreshToken' = [refreshToken EXCEPT ![c] = credential]
    /\ callsLeft' = [callsLeft EXCEPT ![c] = ApiCalls]
    /\ outcome' = [outcome EXCEPT ![c] = "none"]
    /\ UNCHANGED <<questradeVars, credential, stored, loadedFromStore, accessToken, lost>>

\* ensureAuth's early return.
AuthCached(c) ==
    /\ pc[c] = "auth"
    /\ accessToken[c]
    /\ pc' = [pc EXCEPT ![c] = "call"]
    /\ UNCHANGED <<questradeVars, credential, stored, configured, refreshToken,
                   loadedFromStore, accessToken, callsLeft, outcome, lost>>

\* expiresAt passes between two calls (ExpiresIn is Questrade's to choose,
\* and 30 seconds are taken off it).
AccessExpires(c) ==
    /\ pc[c] = "auth"
    /\ accessToken[c]
    /\ accessToken' = [accessToken EXCEPT ![c] = FALSE]
    /\ UNCHANGED <<questradeVars, credential, stored, pc, configured, refreshToken,
                   loadedFromStore, callsLeft, outcome, lost>>

\* The first ensureAuth consults the store, and only the first: a stored
\* token wins over the credential, and when the query fails the client
\* carries on with the credential's token.
LoadStored(c) ==
    /\ pc[c] = "auth"
    /\ ~accessToken[c]
    /\ ~loadedFromStore[c]
    /\ pc' = [pc EXCEPT ![c] = "exchange"]
    /\ loadedFromStore' = [loadedFromStore EXCEPT ![c] = TRUE]
    /\ \/ refreshToken' = [refreshToken EXCEPT ![c] = IF stored = NoToken THEN @ ELSE stored]
       \/ UNCHANGED refreshToken
    /\ UNCHANGED <<questradeVars, credential, stored, configured, accessToken, callsLeft,
                   outcome, lost>>

Reauthenticate(c) ==
    /\ pc[c] = "auth"
    /\ ~accessToken[c]
    /\ loadedFromStore[c]
    /\ pc' = [pc EXCEPT ![c] = "exchange"]
    /\ UNCHANGED <<questradeVars, credential, stored, configured, refreshToken,
                   loadedFromStore, accessToken, callsLeft, outcome, lost>>

\* What Questrade does with a token it accepts: the token dies at once and
\* a new one, t, continues its chain.
Replace(c, t) ==
    /\ pc[c] = "exchange"
    /\ refreshToken[c] \in live
    /\ t \in Fresh
    /\ live' = (live \ {refreshToken[c]}) \union {t}
    /\ chain' = [chain EXCEPT ![t] = chain[refreshToken[c]]]

\* Mutant of Rotate: the new token is never assigned to the client.
RotateKeepsOldToken(c, t) ==
    /\ Replace(c, t)
    /\ pc' = [pc EXCEPT ![c] = "save"]
    /\ accessToken' = [accessToken EXCEPT ![c] = TRUE]
    /\ UNCHANGED <<credential, stored, configured, refreshToken, loadedFromStore, callsLeft,
                   outcome, lost>>

\* The response arrives: the client keeps the new token in memory.
Rotate(c, t) ==
    /\ Replace(c, t)
    /\ pc' = [pc EXCEPT ![c] = "save"]
    /\ refreshToken' = [refreshToken EXCEPT ![c] = t]
    /\ accessToken' = [accessToken EXCEPT ![c] = TRUE]
    /\ UNCHANGED <<credential, stored, configured, loadedFromStore, callsLeft, outcome, lost>>

\* Questrade replaced the token but the client never learns it: timeout,
\* cancelled context, transport error or undecodable body.
LoseResponse(c, t) ==
    /\ Replace(c, t)
    /\ Finish(c, "error")
    /\ lost' = lost \union {t}
    /\ UNCHANGED <<credential, stored>>

\* Mutant of Refuse: the client authenticates again instead of failing.
RefuseRetries(c) ==
    /\ pc[c] = "exchange"
    /\ refreshToken[c] \notin live
    /\ pc' = [pc EXCEPT ![c] = "auth"]
    /\ UNCHANGED <<questradeVars, credential, stored, configured, refreshToken, loadedFromStore,
                   accessToken, callsLeft, outcome, lost>>

\* Questrade answers 400 to a token it no longer accepts.
Refuse(c) ==
    /\ pc[c] = "exchange"
    /\ refreshToken[c] \notin live
    /\ Finish(c, "refused")
    /\ UNCHANGED <<questradeVars, credential, stored, lost>>

\* The exchange fails without reaching Questrade's token table.
ExchangeFails(c) ==
    /\ pc[c] = "exchange"
    /\ Finish(c, "error")
    /\ UNCHANGED <<questradeVars, credential, stored, lost>>

\* Mutant of SaveRefreshToken: the upsert writes nothing when a row exists
\* (DO NOTHING for DO UPDATE).
SaveDoesNothingOnConflict(c) ==
    /\ pc[c] = "save"
    /\ pc' = [pc EXCEPT ![c] = "call"]
    /\ stored' = IF stored = NoToken THEN refreshToken[c] ELSE stored
    /\ UNCHANGED <<questradeVars, credential, configured, refreshToken, loadedFromStore,
                   accessToken, callsLeft, outcome, lost>>

SaveRefreshToken(c) ==
    /\ pc[c] = "save"
    /\ pc' = [pc EXCEPT ![c] = "call"]
    /\ stored' = refreshToken[c]
    /\ UNCHANGED <<questradeVars, credential, configured, refreshToken, loadedFromStore,
                   accessToken, callsLeft, outcome, lost>>

\* SaveRefreshToken reports an error (and Postgres may still have committed
\* it): ensureAuth logs it and carries on.
SaveFails(c) ==
    /\ pc[c] = "save"
    /\ pc' = [pc EXCEPT ![c] = "call"]
    /\ \/ /\ stored' = refreshToken[c]
          /\ UNCHANGED lost
       \/ /\ lost' = lost \union {refreshToken[c]}
          /\ UNCHANGED stored
    /\ UNCHANGED <<questradeVars, credential, configured, refreshToken, loadedFromStore,
                   accessToken, callsLeft, outcome>>

\* Mutant of ApiGet: the last call is followed by another.
ApiGetNeverEnds(c) ==
    /\ pc[c] = "call"
    /\ callsLeft' = [callsLeft EXCEPT ![c] = @ - 1]
    /\ pc' = [pc EXCEPT ![c] = "auth"]
    /\ UNCHANGED <<questradeVars, credential, stored, configured, refreshToken, loadedFromStore,
                   accessToken, outcome, lost>>

\* The rest of apiGet: a 200 with a usable body ...
ApiGet(c) ==
    /\ pc[c] = "call"
    /\ IF callsLeft[c] > 1
       THEN /\ callsLeft' = [callsLeft EXCEPT ![c] = @ - 1]
            /\ pc' = [pc EXCEPT ![c] = "auth"]
            /\ UNCHANGED <<configured, refreshToken, loadedFromStore, accessToken, outcome>>
       ELSE Finish(c, "ok")
    /\ UNCHANGED <<questradeVars, credential, stored, lost>>

\* ... or anything else, an empty list included.
ApiGetFails(c) ==
    /\ pc[c] = "call"
    /\ Finish(c, "error")
    /\ UNCHANGED <<questradeVars, credential, stored, lost>>

\* The gateway dies. A save already on its way to Postgres may still land.
Crash ==
    /\ stored' \in {stored} \union InFlight
    /\ lost' = lost \union (InFlight \ {stored'})
    /\ pc' = [c \in Requests |-> "idle"]
    /\ configured' = [c \in Requests |-> NoToken]
    /\ refreshToken' = [c \in Requests |-> NoToken]
    /\ loadedFromStore' = [c \in Requests |-> FALSE]
    /\ accessToken' = [c \in Requests |-> FALSE]
    /\ callsLeft' = [c \in Requests |-> 0]
    /\ outcome' = [c \in Requests |-> "none"]
    /\ UNCHANGED <<questradeVars, credential>>

-----------------------------------------------------------------------------
ClientStep(c) ==
    \/ AuthCached(c)
    \/ AccessExpires(c)
    \/ LoadStored(c)
    \/ Reauthenticate(c)
    \/ \E t \in Tokens : Rotate(c, t) \/ LoseResponse(c, t)
    \/ Refuse(c)
    \/ ExchangeFails(c)
    \/ SaveRefreshToken(c)
    \/ SaveFails(c)
    \/ ApiGet(c)
    \/ ApiGetFails(c)

Next ==
    \/ \E t \in Tokens : GenerateToken(t) \/ SaveCredential(t)
    \/ DeleteCredential
    \/ \E c \in Requests : Build(c) \/ ClientStep(c)
    \/ Crash

Spec == Init /\ [][Next]_vars

\* Every blocking call has a timeout (http.Client's 10s, the request
\* context), so a request in progress always gets to its next step. Nothing
\* obliges a user to act, a new request to arrive or the gateway to crash.
FairSpec == Spec /\ \A c \in Requests : WF_vars(ClientStep(c))

-----------------------------------------------------------------------------
\* The live token of the chain the next request will present is that very
\* token, or is in the hands of a request that has yet to save it, or was
\* kept out of Postgres by a crash, a lost response or a failed save. Races
\* between requests, reconnects and load fallbacks alone never strand the
\* user (client.go:95-148).
PresentedTokenRecoverable ==
    Presented # NoToken =>
        \E t \in live :
            /\ chain[t] = chain[Presented]
            /\ t \in {Presented} \union InFlight \union lost

\* No lost update: whatever write changes broker_oauth_tokens writes a token
\* Questrade still accepts, never one a later exchange has replaced
\* (client.go:138-145 run by several requests at once).
SavesOnlyLiveTokens == [][stored' # stored => stored' \in live']_vars

\* Every request that has built a client ends (both ensureAuth calls of
\* GetAccount included), whatever the other requests do to its token.
RequestsFinish == \A c \in Requests : pc[c] # "idle" ~> pc[c] = "idle"

\* README.md:43 on a refused token: "generate a fresh refresh token from
\* Questrade and reconnect via Profile". So Questrade refuses no request that
\* was built from a credential it accepts.
ReconnectRestoresAccess ==
    [][\A c \in Requests :
        outcome[c] # "refused" /\ outcome'[c] = "refused" => configured[c] \notin live]_vars
=============================================================================
