------------------------------ MODULE Balance ------------------------------
(***************************************************************************)
(* GET /api/v1/balance (internal/httpapi/market_handlers.go) over the      *)
(* credential rows of module Credentials: Factory.BuildAll lists the rows  *)
(* and loads them one by one while they may change, one goroutine per      *)
(* client fetches an account, and the handler joins them and adds up.      *)
(***************************************************************************)
EXTENDS Credentials, Integers, SequencesExt

CONSTANTS
    AccountOf,        \* AccountOf[b]: equity and currency of the account at b
    USDCADRate        \* hundredths of a USD for one CAD

ASSUME BalanceAssumption ==
    /\ \A b \in Brokers : AccountOf[b].equity \in Int
    /\ USDCADRate \in Int

VARIABLES
    phase,      \* "idle", "build", "fetch" or "replied"
    toBuild,    \* listed brokers BuildAll has yet to build
    built,      \* clients, in order
    results,    \* results[n]: what goroutine n has written
    reply,      \* NoReply, "500", or the response body
    everConnected, alwaysConnected   \* history, over the request

balanceVars == <<phase, toBuild, built, results, reply, everConnected, alwaysConnected>>
vars == <<credentialVars, balanceVars>>

NoReply == [status |-> "none"]
Failure == [status |-> "500"]

TypeOK ==
    /\ CredentialsTypeOK
    /\ phase \in {"idle", "build", "fetch", "replied"}
    /\ toBuild \in Seq(Brokers) /\ built \in Seq(Brokers)
    /\ results \in [1..Len(built) -> {"pending", "ok", "error"}]
    /\ reply.status \in {"none", "500", "200"}
    /\ alwaysConnected \subseteq everConnected /\ everConnected \subseteq Brokers

BalanceInit ==
    /\ phase = "idle"
    /\ toBuild = <<>>
    /\ built = <<>>
    /\ results = <<>>
    /\ reply = NoReply
    /\ everConnected = {}
    /\ alwaysConnected = {}

Init == CredentialsInit /\ BalanceInit

-----------------------------------------------------------------------------
\* engine.USDRate and engine.AggregateBalances, in hundredths of a USD.
USDRate(currency) == IF currency = "CAD" THEN USDCADRate ELSE 100

EquityUSD(b) == AccountOf[b].equity * USDRate(AccountOf[b].currency)

\* A loop that adds up.
Total(amounts) ==
    LET sum[n \in 0..Len(amounts)] == IF n = 0 THEN 0 ELSE sum[n - 1] + amounts[n]
    IN  sum[Len(amounts)]

\* Mutant of AggregateBalances: USDRate is not applied.
AggregateUnconverted(brokers) ==
    Total([n \in DOMAIN brokers |-> AccountOf[brokers[n]].equity * 100])

AggregateBalances(brokers) == Total([n \in DOMAIN brokers |-> EquityUSD(brokers[n])])

\* SELECT ... ORDER BY broker.
InOrder(brokers) ==
    LET only(b) == IF b \in brokers THEN <<b>> ELSE <<>>
    IN  only("alpaca") \o (only("oanda") \o only("questrade"))

Reply(r) ==
    /\ reply' = r
    /\ phase' = "replied"
    /\ UNCHANGED <<toBuild, built, results>>

ListConnectedBrokers ==
    /\ phase = "idle"
    /\ everConnected' = Connected
    /\ alwaysConnected' = Connected
    /\ \/ /\ phase' = "build"
          /\ toBuild' = InOrder(Connected)
          /\ UNCHANGED <<built, results, reply>>
       \/ Reply(Failure)
    /\ UNCHANGED credentialVars

\* Mutant of BuildNext: break for continue at a deleted row.
BuildStopsAtDeletedRow ==
    /\ phase = "build"
    /\ toBuild # <<>>
    /\ \/ /\ rows[Head(toBuild)] = NoRow
          /\ toBuild' = <<>>
          /\ UNCHANGED <<phase, built, results, reply>>
       \/ /\ Readable(Head(toBuild))
          /\ toBuild' = Tail(toBuild)
          /\ built' = Append(built, Head(toBuild))
          /\ results' = Append(results, "pending")
          /\ UNCHANGED <<phase, reply>>
       \/ Reply(Failure)
    /\ UNCHANGED <<credentialVars, everConnected, alwaysConnected>>

\* Factory.Build of the next listed broker: a row deleted meanwhile is
\* skipped; one that does not open under this key, or a statement Postgres
\* fails, ends the request.
BuildNext ==
    /\ phase = "build"
    /\ toBuild # <<>>
    /\ \/ /\ rows[Head(toBuild)] = NoRow
          /\ toBuild' = Tail(toBuild)
          /\ UNCHANGED <<phase, built, results, reply>>
       \/ /\ Readable(Head(toBuild))
          /\ toBuild' = Tail(toBuild)
          /\ built' = Append(built, Head(toBuild))
          /\ results' = Append(results, "pending")
          /\ UNCHANGED <<phase, reply>>
       \/ Reply(Failure)
    /\ UNCHANGED <<credentialVars, everConnected, alwaysConnected>>

FanOut ==
    /\ phase = "build"
    /\ toBuild = <<>>
    /\ phase' = "fetch"
    /\ UNCHANGED <<credentialVars, toBuild, built, results, reply, everConnected, alwaysConnected>>

\* Mutant of Fetch: the goroutine appends its result to the slice.
FetchAppends(n) ==
    /\ phase = "fetch"
    /\ n \in DOMAIN results
    /\ results[n] = "pending"
    /\ \E outcome \in {"ok", "error"} : results' = Append(results, outcome)
    /\ UNCHANGED <<credentialVars, phase, toBuild, built, reply, everConnected, alwaysConnected>>

\* Goroutine n: GetAccount returns, in at most the request's 10 seconds.
Fetch(n) ==
    /\ phase = "fetch"
    /\ n \in DOMAIN results
    /\ results[n] = "pending"
    /\ \E outcome \in {"ok", "error"} : results' = [results EXCEPT ![n] = outcome]
    /\ UNCHANGED <<credentialVars, phase, toBuild, built, reply, everConnected, alwaysConnected>>

\* Mutant of Respond: a failed goroutine returns without wg.Done.
RespondAwaitsSuccess ==
    /\ phase = "fetch"
    /\ \A n \in DOMAIN results : results[n] = "ok"
    /\ Reply([status |-> "200",
              brokers |-> [n \in DOMAIN results |->
                  [broker |-> built[n], equityUSD |-> EquityUSD(built[n]), error |-> FALSE]],
              unified |-> AggregateBalances(built)])
    /\ UNCHANGED <<credentialVars, everConnected, alwaysConnected>>

\* The loop over the results: the accounts that were fetched, in order.
Fetched ==
    LET accounts[n \in 0..Len(built)] ==
            IF n = 0 THEN <<>>
            ELSE IF results[n] = "ok" THEN Append(accounts[n - 1], built[n])
            ELSE accounts[n - 1]
    IN  accounts[Len(built)]

\* wg.Wait, then the statuses and the totals.
Respond ==
    /\ phase = "fetch"
    /\ \A n \in DOMAIN results : results[n] # "pending"
    /\ Reply([status |-> "200",
              brokers |-> [n \in DOMAIN results |->
                  [broker |-> built[n],
                   equityUSD |-> IF results[n] = "ok" THEN EquityUSD(built[n]) ELSE 0,
                   error |-> results[n] = "error"]],
              unified |-> AggregateBalances(Fetched)])
    /\ UNCHANGED <<credentialVars, everConnected, alwaysConnected>>

\* The portfolio page polls again.
NextPoll ==
    /\ phase = "replied"
    /\ phase' = "idle"
    /\ toBuild' = <<>>
    /\ built' = <<>>
    /\ results' = <<>>
    /\ reply' = NoReply
    /\ everConnected' = {}
    /\ alwaysConnected' = {}
    /\ UNCHANGED credentialVars

HandlerStep ==
    \/ ListConnectedBrokers
    \/ BuildNext
    \/ FanOut
    \/ \E n \in DOMAIN results : Fetch(n)
    \/ Respond

\* The credential handlers run beside this one ...
CredentialsStep ==
    /\ RequestNext
    /\ everConnected' = IF phase = "build" THEN everConnected \union Connected' ELSE everConnected
    /\ alwaysConnected' = IF phase = "build" THEN alwaysConnected \intersect Connected'
                          ELSE alwaysConnected
    /\ UNCHANGED <<phase, toBuild, built, results, reply>>

\* ... and a restart ends this request with the others.
RestartGateway ==
    /\ \E k \in Keys : Restart(k)
    /\ phase' = "idle"
    /\ toBuild' = <<>>
    /\ built' = <<>>
    /\ results' = <<>>
    /\ reply' = NoReply
    /\ everConnected' = {}
    /\ alwaysConnected' = {}

Next == HandlerStep \/ NextPoll \/ CredentialsStep \/ RestartGateway

Spec == Init /\ [][Next]_vars

\* Postgres and the brokers answer or the request's 10-second context ends
\* the call: a handler always gets on.
FairSpec == Spec /\ WF_vars(HandlerStep /\ phase # "idle")

-----------------------------------------------------------------------------
Rank == [alpaca |-> 1, oanda |-> 2, questrade |-> 3]
Ordered(brokers) == \A m, n \in 1..Len(brokers) : m < n => Rank[brokers[m]] < Rank[brokers[n]]

\* The listing and the loads are separate statements, with credentials saved
\* and deleted in between. Still a 200 names every broker that stayed
\* connected while the clients were built, none that never was, each once
\* and in order, whatever the goroutines' own order and outcomes.
ReplyCoversConnected ==
    reply.status = "200" =>
        LET named == [n \in DOMAIN reply.brokers |-> reply.brokers[n].broker] IN
        /\ alwaysConnected \subseteq ToSet(named)
        /\ ToSet(named) \subseteq everConnected
        /\ Ordered(named)

\* The unified total is the sum of the equities shown per broker, the failed
\* ones left out of both (market_handlers.go:66-79, balance.go:32-44).
TotalIsSumOfStatuses ==
    reply.status = "200" =>
        reply.unified = Total([n \in DOMAIN reply.brokers |-> reply.brokers[n].equityUSD])

\* Every balance request is answered: no goroutine is waited for in vain.
BalanceAnswered == phase = "build" ~> phase \in {"replied", "idle"}
=============================================================================
