------------------------------- MODULE Orders -------------------------------
(***************************************************************************)
(* POST /api/v1/orders (internal/httpapi/order_handlers.go), the one       *)
(* endpoint that moves real money, with what it reads and writes: the      *)
(* credential rows, the Alpaca account and the day_trades rows behind the  *)
(* Pattern Day Trader gate, the broker, the orders table, and the life of  *)
(* the gateway process that runs it (cmd/main_gateway/main.go).            *)
(*                                                                         *)
(* A member of Requests is one POST. The handler's blocking calls are its  *)
(* steps; each call may fail, a cancelled request context included.        *)
(***************************************************************************)
CONSTANTS
    Requests,       \* POSTs, each made once; a retry is another POST
    Users,
    NoUser,
    Brokers         \* the brokers a run looks at

ASSUME OrdersAssumption ==
    /\ NoUser \notin Users
    /\ Brokers \subseteq {"alpaca", "oanda", "questrade"}

VARIABLES
    gateway,        \* the process: "serving", "draining" or "stopped"
    connected,      \* connected[u]: brokers u has a credential row for
    belowThreshold, \* belowThreshold[u]: Alpaca equity under $25,000, at Alpaca
    limitReached,   \* limitReached[u]: u's day_trades rows inside the window
                    \* are PDTDayTradeLimit or more (counted in PDTWindow)
    accepted,       \* POSTs whose order a broker accepted
    turnedDown,     \* POSTs a broker answered with success without keeping the
                    \* order: Alpaca's "rejected", OANDA's create and cancel
    ledger,         \* rows of the orders table
    \* one handler per POST
    pc, user, broker, sawBelow, response,
    \* history
    untracked,      \* decided orders a fault kept out of the ledger
    sawClear        \* sawClear[r]: r's user was unrestricted at some moment
                    \* since r arrived

handlerVars == <<pc, user, broker, sawBelow, response>>
worldVars == <<connected, belowThreshold, limitReached>>
vars == <<gateway, worldVars, accepted, turnedDown, ledger, handlerVars, untracked, sawClear>>

Steps == {"build", "account", "gate", "place", "persist"}
Responses == {"none", "201", "400", "403", "404", "500", "502"}

Running(r) == pc[r] \in Steps

\* A broker has answered for the order, or has it.
Decided == accepted \union turnedDown

\* models.Order.Status: Alpaca's status is copied. OANDA's is "accepted" (or
\* filled), a cancel in its answer is not looked at.
Status(r) ==
    IF r \in turnedDown /\ broker[r] = "alpaca" THEN "rejected" ELSE "accepted"

\* Mutant of Row: the client leaves models.Order.Broker empty.
RowWithoutBroker(r) == [user |-> user[r], broker |-> "none", order |-> r, status |-> Status(r)]

Row(r) == [user |-> user[r], broker |-> broker[r], order |-> r, status |-> Status(r)]

TypeOK ==
    /\ gateway \in {"serving", "draining", "stopped"}
    /\ connected \in [Users -> SUBSET Brokers]
    /\ belowThreshold \in [Users -> BOOLEAN]
    /\ limitReached \in [Users -> BOOLEAN]
    /\ accepted \subseteq Requests
    /\ turnedDown \subseteq Requests
    /\ ledger \subseteq [user : Users, broker : Brokers, order : Requests,
                         status : {"accepted", "rejected"}]
    /\ pc \in [Requests -> {"new", "done"} \union Steps]
    /\ user \in [Requests -> Users \union {NoUser}]
    /\ broker \in [Requests -> Brokers \union {"none"}]
    /\ sawBelow \in [Requests -> BOOLEAN]
    /\ response \in [Requests -> Responses]
    /\ untracked \subseteq Requests
    /\ sawClear \in [Requests -> BOOLEAN]

Init ==
    /\ gateway = "serving"
    /\ connected \in [Users -> {{}, Brokers}]
    /\ belowThreshold \in [Users -> BOOLEAN]
    /\ limitReached \in [Users -> BOOLEAN]
    /\ accepted = {}
    /\ turnedDown = {}
    /\ ledger = {}
    /\ pc = [r \in Requests |-> "new"]
    /\ user = [r \in Requests |-> NoUser]
    /\ broker = [r \in Requests |-> "none"]
    /\ sawBelow = [r \in Requests |-> FALSE]
    /\ response = [r \in Requests |-> "none"]
    /\ untracked = {}
    /\ sawClear = [r \in Requests |-> FALSE]

-----------------------------------------------------------------------------
\* engine.CheckPDT on what the handler read.
CheckPDT(below, atLimit) == below /\ atLimit

Restricted(u) == CheckPDT(belowThreshold[u], limitReached[u])

\* The handler writes its response and returns.
Respond(r, status) ==
    /\ pc' = [pc EXCEPT ![r] = "done"]
    /\ response' = [response EXCEPT ![r] = status]
    /\ sawBelow' = [sawBelow EXCEPT ![r] = FALSE]
    /\ UNCHANGED <<user, broker>>

Advance(r, step) ==
    /\ pc' = [pc EXCEPT ![r] = step]
    /\ UNCHANGED <<user, broker, sawBelow, response>>

\* A POST whose body passes validation enters the handler ...
Submit(r, u, b) ==
    /\ gateway = "serving"
    /\ pc[r] = "new"
    /\ pc' = [pc EXCEPT ![r] = "build"]
    /\ user' = [user EXCEPT ![r] = u]
    /\ broker' = [broker EXCEPT ![r] = b]
    /\ sawClear' = [sawClear EXCEPT ![r] = ~Restricted(u)]
    /\ UNCHANGED <<gateway, worldVars, accepted, turnedDown, ledger, sawBelow, response, untracked>>

\* ... and one that does not never reaches a broker.
RejectBody(r) ==
    /\ gateway = "serving"
    /\ pc[r] = "new"
    /\ Respond(r, "400")
    /\ UNCHANGED <<gateway, worldVars, accepted, turnedDown, ledger, untracked, sawClear>>

Build(r) ==
    /\ pc[r] = "build"
    /\ \/ /\ broker[r] \in connected[user[r]]
          /\ Advance(r, IF broker[r] = "alpaca" THEN "account" ELSE "place")
       \/ /\ broker[r] \notin connected[user[r]]
          /\ Respond(r, "404")
       \/ Respond(r, "500")
    /\ UNCHANGED <<gateway, worldVars, accepted, turnedDown, ledger, untracked, sawClear>>

\* target.GetAccount, whose equity the gate uses after the next call.
FetchAccount(r) ==
    /\ pc[r] = "account"
    /\ \/ /\ pc' = [pc EXCEPT ![r] = "gate"]
          /\ sawBelow' = [sawBelow EXCEPT ![r] = belowThreshold[user[r]]]
          /\ UNCHANGED <<user, broker, response>>
       \/ Respond(r, "502")
    /\ UNCHANGED <<gateway, worldVars, accepted, turnedDown, ledger, untracked, sawClear>>

\* Mutant of GateOnPDT: an error of ListRecent lets the order through.
GateFailsOpen(r) ==
    /\ pc[r] = "gate"
    /\ \/ IF CheckPDT(sawBelow[r], limitReached[user[r]])
          THEN Respond(r, "403")
          ELSE Advance(r, "place")
       \/ Advance(r, "place")
    /\ UNCHANGED <<gateway, worldVars, accepted, turnedDown, ledger, untracked, sawClear>>

\* DayTrades.ListRecent, then CheckPDT on the two results.
GateOnPDT(r) ==
    /\ pc[r] = "gate"
    /\ \/ IF CheckPDT(sawBelow[r], limitReached[user[r]])
          THEN Respond(r, "403")
          ELSE Advance(r, "place")
       \/ Respond(r, "500")
    /\ UNCHANGED <<gateway, worldVars, accepted, turnedDown, ledger, untracked, sawClear>>

\* PlaceOrder: the broker accepts and the handler learns it. Questrade's
\* PlaceOrder is a stub that always fails.
PlaceOrder(r) ==
    /\ pc[r] = "place"
    /\ broker[r] # "questrade"
    /\ accepted' = accepted \union {r}
    /\ Advance(r, "persist")
    /\ UNCHANGED <<gateway, worldVars, turnedDown, ledger, untracked, sawClear>>

\* PlaceOrder: the broker's 200 or 201 carries an order it does not keep. To
\* the handler that is a success like any other.
PlaceTurnedDown(r) ==
    /\ pc[r] = "place"
    /\ broker[r] # "questrade"
    /\ turnedDown' = turnedDown \union {r}
    /\ Advance(r, "persist")
    /\ UNCHANGED <<gateway, worldVars, accepted, ledger, untracked, sawClear>>

\* Mutant of LoseReply: the row is inserted before the error is looked at.
LoseReplyRecorded(r) ==
    /\ pc[r] = "place"
    /\ broker[r] # "questrade"
    /\ accepted' = accepted \union {r}
    /\ ledger' = ledger \union {Row(r)}
    /\ Respond(r, "502")
    /\ UNCHANGED <<gateway, worldVars, turnedDown, untracked, sawClear>>

\* The broker accepts, but the call returns an error: its 10s timeout, a
\* cancelled context, a transport error or a body that does not decode.
LoseReply(r) ==
    /\ pc[r] = "place"
    /\ broker[r] # "questrade"
    /\ accepted' = accepted \union {r}
    /\ untracked' = untracked \union {r}
    /\ Respond(r, "502")
    /\ UNCHANGED <<gateway, worldVars, turnedDown, ledger, sawClear>>

\* Mutant of PlaceFails: the error is not looked at.
PlaceFailureIgnored(r) ==
    /\ pc[r] = "place"
    /\ Advance(r, "persist")
    /\ UNCHANGED <<gateway, worldVars, accepted, turnedDown, ledger, untracked, sawClear>>

\* Mutant of PlaceFails: the handler starts over.
PlaceFailureRetried(r) ==
    /\ pc[r] = "place"
    /\ Advance(r, "build")
    /\ UNCHANGED <<gateway, worldVars, accepted, turnedDown, ledger, untracked, sawClear>>

PlaceFails(r) ==
    /\ pc[r] = "place"
    /\ Respond(r, "502")
    /\ UNCHANGED <<gateway, worldVars, accepted, turnedDown, ledger, untracked, sawClear>>

\* Mutant of Persist: a failed insert is answered 500.
PersistFailureReported(r) ==
    /\ pc[r] = "persist"
    /\ \/ /\ ledger' = ledger \union {Row(r)}
          /\ UNCHANGED untracked
          /\ Respond(r, "201")
       \/ /\ untracked' = untracked \union {r}
          /\ UNCHANGED ledger
          /\ Respond(r, "500")
    /\ UNCHANGED <<gateway, worldVars, accepted, turnedDown, sawClear>>

\* Orders.Create; the reply is 201 whatever it returns.
Persist(r) ==
    /\ pc[r] = "persist"
    /\ \/ /\ ledger' = ledger \union {Row(r)}
          /\ UNCHANGED untracked
       \/ /\ untracked' = untracked \union {r}
          /\ UNCHANGED ledger
    /\ Respond(r, "201")
    /\ UNCHANGED <<gateway, worldVars, accepted, turnedDown, sawClear>>

HandlerStep(r) ==
    \/ Build(r)
    \/ FetchAccount(r)
    \/ GateOnPDT(r)
    \/ PlaceOrder(r)
    \/ PlaceTurnedDown(r)
    \/ LoseReply(r)
    \/ PlaceFails(r)
    \/ Persist(r)

-----------------------------------------------------------------------------
(* The world around the handlers. *)

\* A change of u's account or day trades may clear every request of u.
NoteClear ==
    sawClear' = [r \in Requests |->
        sawClear[r] \/ (Running(r) /\ ~CheckPDT(belowThreshold'[user[r]], limitReached'[user[r]]))]

EquityCrosses(u) ==
    /\ belowThreshold' = [belowThreshold EXCEPT ![u] = ~@]
    /\ UNCHANGED limitReached
    /\ NoteClear
    /\ UNCHANGED <<gateway, connected, accepted, turnedDown, ledger, handlerVars, untracked>>

\* Another process records the round trip that reaches the limit, or one
\* leaves the window.
DayTradesChange(u) ==
    /\ limitReached' = [limitReached EXCEPT ![u] = ~@]
    /\ UNCHANGED belowThreshold
    /\ NoteClear
    /\ UNCHANGED <<gateway, connected, accepted, turnedDown, ledger, handlerVars, untracked>>

\* Credentials come and go while a handler runs.
ConnectOrDisconnect(u, b) ==
    /\ gateway # "stopped"
    /\ connected' = [connected EXCEPT ![u] = IF b \in @ THEN @ \ {b} ELSE @ \union {b}]
    /\ UNCHANGED <<gateway, belowThreshold, limitReached, accepted, turnedDown, ledger, handlerVars,
                   untracked, sawClear>>

\* The process ends with handlers still running: killed, crashed, or main
\* returned because Shutdown's 10 seconds were up (a handler may take longer:
\* two broker calls of 10s each). What was on its way to a broker or to
\* Postgres may still arrive.
Die ==
    /\ gateway # "stopped"
    /\ gateway' = "stopped"
    /\ \E late \in SUBSET {r \in Requests : pc[r] = "place" /\ broker[r] # "questrade"},
          landed \in SUBSET {r \in Requests : pc[r] = "persist"} :
          /\ accepted' = accepted \union late
          /\ ledger' = ledger \union {Row(r) : r \in landed}
          /\ untracked' = untracked \union late
                \union {r \in Requests : pc[r] = "persist" /\ r \notin landed}
    /\ pc' = [r \in Requests |-> IF Running(r) THEN "done" ELSE pc[r]]
    /\ sawBelow' = [r \in Requests |-> FALSE]
    /\ UNCHANGED <<worldVars, turnedDown, user, broker, response, sawClear>>

\* SIGTERM: Shutdown closes the listener and waits for the handlers.
Terminate ==
    /\ gateway = "serving"
    /\ gateway' = "draining"
    /\ UNCHANGED <<worldVars, accepted, turnedDown, ledger, handlerVars, untracked, sawClear>>

\* Mutant of Drained: main does not wait for Shutdown to return.
DrainedTooEarly ==
    /\ gateway = "draining"
    /\ gateway' = "stopped"
    /\ pc' = [r \in Requests |-> IF Running(r) THEN "done" ELSE pc[r]]
    /\ UNCHANGED <<worldVars, accepted, turnedDown, ledger, user, broker, sawBelow, response, untracked,
                   sawClear>>

Drained ==
    /\ gateway = "draining"
    /\ \A r \in Requests : ~Running(r)
    /\ gateway' = "stopped"
    /\ UNCHANGED <<worldVars, accepted, turnedDown, ledger, handlerVars, untracked, sawClear>>

Start ==
    /\ gateway = "stopped"
    /\ gateway' = "serving"
    /\ UNCHANGED <<worldVars, accepted, turnedDown, ledger, handlerVars, untracked, sawClear>>

Next ==
    \/ \E r \in Requests :
          \/ \E u \in Users, b \in Brokers : Submit(r, u, b)
          \/ RejectBody(r)
          \/ HandlerStep(r)
    \/ \E u \in Users :
          \/ EquityCrosses(u)
          \/ DayTradesChange(u)
          \/ \E b \in Brokers : ConnectOrDisconnect(u, b)
    \/ Die
    \/ Terminate
    \/ Drained
    \/ Start

Spec == Init /\ [][Next]_vars

\* Every blocking call of a handler returns: http.Client's 10s for a broker,
\* the request context for Postgres.
FairSpec == Spec /\ \A r \in Requests : WF_vars(HandlerStep(r))

-----------------------------------------------------------------------------
(* What OrderBook sees of a state. *)

Stage ==
    [r \in Requests |-> CASE pc[r] = "new" -> "new"
                          [] pc[r] = "done" -> "over"
                          [] OTHER -> "open"]

Recorded == {row.order : row \in ledger}

Verdict(status) ==
    CASE status = "none" -> "nothing"
      [] status = "201" -> "placed"
      [] status = "502" -> "unknown"
      [] OTHER -> "notPlaced"

Told == [r \in Requests |-> Verdict(response[r])]

-----------------------------------------------------------------------------
\* Every row of the ledger is an order a broker has decided on, from a POST of
\* the row's own user, at the row's own broker, under any interleaving of
\* handlers, faults and restarts. An order a broker took is never recorded as
\* rejected, and at Alpaca a row not marked as rejected is an order Alpaca took.
\* The code keeps to orders.go:20-21 ("submitted to (or had rejected by) the
\* broker") here and not to README.md:22 ("Failed submissions are never persisted").
LedgerMatchesBroker ==
    \A row \in ledger :
        /\ row.order \in Decided
        /\ row.user = user[row.order] /\ row.broker = broker[row.order]
        /\ row.order \in accepted => row.status = "accepted"
        /\ row.broker = "alpaca" /\ row.status = "accepted" => row.order \in accepted

\* Every order a broker decided on is in the ledger, or about to be written by
\* the handler that placed it, or was cut off by a fault; never by another
\* request and never by a shutdown that drains.
AcceptedOrdersAccountedFor ==
    \A r \in Decided : Row(r) \in ledger \/ pc[r] = "persist" \/ r \in untracked

\* What the caller is told: 201 means a broker has decided on the order; 400,
\* 403, 404 and 500 mean none has (only a 502 leaves it open), so a caller may
\* retry those without submitting twice.
ResponsesAreTruthful ==
    \A r \in Requests :
        /\ response[r] = "201" => r \in Decided
        /\ response[r] \in {"400", "403", "404", "500"} => r \notin Decided

\* The PDT gate reads the equity and the day trades in two calls while both
\* change. Still no order gets through to Alpaca for a user who was restricted
\* at every moment since the POST arrived (order_handlers.go:79-98).
GateIsNeverFooled ==
    \A r \in Decided : broker[r] = "alpaca" => sawClear[r]

\* Every POST behaves as OrderBook says: accepted at most once and only while
\* its handler runs, answered once, and recorded with a 201 or by an insert
\* under way at a crash, never beside another answer (order_handlers.go:100-121).
OB == INSTANCE OrderBook WITH stage <- Stage, recorded <- Recorded, told <- Told
ImplementsOrderBook == OB!Spec

\* Every POST that enters the handler is over eventually, whatever fails,
\* and whether or not the gateway is draining.
HandlersFinish == \A r \in Requests : Running(r) ~> ~Running(r)
=============================================================================
