---------------------------- MODULE OrdersProofs ----------------------------
(***************************************************************************)
(* Orders' safety, for any number of concurrent POSTs and users. The       *)
(* argument ties each POST's control point to what the broker and the      *)
(* orders table know of it (PostsFollowTheHandler), and follows the two    *)
(* reads of the PDT gate: as long as a POST has seen no clear moment, its  *)
(* user is restricted now and the equity it has read was below the         *)
(* threshold (GateReadsAgree). From the same invariant, each step of       *)
(* Orders maps to a step of OrderBook or changes nothing of it.            *)
(***************************************************************************)
EXTENDS Orders, TLAPS

\* Where a POST is decides what is known of it.
PostsFollowTheHandler ==
    \A r \in Requests :
        /\ Running(r) => user[r] \in Users /\ broker[r] \in Brokers /\ response[r] = "none"
        /\ pc[r] \in {"new", "build", "account", "gate", "place"} => r \notin Decided
        /\ pc[r] = "new" => response[r] = "none"
        /\ pc[r] = "persist" => r \in Decided
        /\ pc[r] \in {"account", "gate"} => broker[r] = "alpaca"
        /\ r \in Decided => user[r] \in Users /\ broker[r] \in Brokers
        /\ r \notin accepted \intersect turnedDown

GateReadsAgree ==
    \A r \in Requests : ~sawClear[r] =>
        /\ Running(r) => Restricted(user[r])
        /\ pc[r] = "gate" => sawBelow[r]
        /\ pc[r] = "place" => broker[r] # "alpaca"

\* The inductive invariant.
Inv ==
    /\ TypeOK
    /\ PostsFollowTheHandler
    /\ GateReadsAgree
    /\ LedgerMatchesBroker
    /\ AcceptedOrdersAccountedFor
    /\ ResponsesAreTruthful
    /\ GateIsNeverFooled

-----------------------------------------------------------------------------
\* Every lemma below unfolds the invariant and the two ways a step moves pc.
USE DEF Inv, TypeOK, PostsFollowTheHandler, GateReadsAgree, LedgerMatchesBroker,
        AcceptedOrdersAccountedFor, ResponsesAreTruthful, GateIsNeverFooled,
        Steps, Responses, Running, Row, Decided, Status, CheckPDT, Restricted, Respond, Advance,
        handlerVars, worldVars

LEMMA InitInv == Init => Inv
BY DEF Init

(* The handler. *)
LEMMA SubmitInv ==
    ASSUME Inv, NEW r \in Requests, NEW u \in Users, NEW b \in Brokers, Submit(r, u, b)
    PROVE  Inv'
<1>1. TypeOK'
  BY DEF Submit
<1>2. PostsFollowTheHandler'
  BY DEF Submit
<1>3. GateReadsAgree'
  <2> HIDE DEF LedgerMatchesBroker, AcceptedOrdersAccountedFor, ResponsesAreTruthful, GateIsNeverFooled
  <2> QED
    BY DEF Submit
<1>4. LedgerMatchesBroker'
  BY DEF Submit
<1>5. AcceptedOrdersAccountedFor'
  BY DEF Submit
<1>6. ResponsesAreTruthful'
  BY DEF Submit
<1>7. GateIsNeverFooled'
  BY DEF Submit
<1> QED
  BY <1>1, <1>2, <1>3, <1>4, <1>5, <1>6, <1>7

LEMMA RejectBodyInv ==
    ASSUME Inv, NEW r \in Requests, RejectBody(r)
    PROVE  Inv'
BY DEF RejectBody

LEMMA BuildInv ==
    ASSUME Inv, NEW r \in Requests, Build(r)
    PROVE  Inv'
<1>1. TypeOK'
  <2>1. UNCHANGED <<gateway, worldVars, accepted, turnedDown, ledger, untracked, sawClear>>
    BY DEF Build
  <2>2. ASSUME NEW step \in Steps, Advance(r, step)
        PROVE  TypeOK'
    BY <2>1, <2>2
  <2>3. ASSUME NEW status \in Responses, Respond(r, status)
        PROVE  TypeOK'
    BY <2>1, <2>3
  <2>4. \/ \E step \in Steps : Advance(r, step)
        \/ \E status \in Responses : Respond(r, status)
    <3> HIDE DEF Advance, Respond
    <3> QED
      BY DEF Build
  <2> QED
    BY <2>2, <2>3, <2>4
<1>2. PostsFollowTheHandler'
  BY DEF Build
<1>3. GateReadsAgree'
  BY DEF Build
<1>4. LedgerMatchesBroker'
  BY DEF Build
<1>5. AcceptedOrdersAccountedFor'
  BY DEF Build
<1>6. ResponsesAreTruthful'
  BY DEF Build
<1>7. GateIsNeverFooled'
  BY DEF Build
<1> QED
  BY <1>1, <1>2, <1>3, <1>4, <1>5, <1>6, <1>7

LEMMA FetchAccountInv ==
    ASSUME Inv, NEW r \in Requests, FetchAccount(r)
    PROVE  Inv'
<1>1. TypeOK'
  <2>1. CASE Respond(r, "502")
    BY <2>1 DEF FetchAccount
  <2>2. CASE sawBelow' = [sawBelow EXCEPT ![r] = belowThreshold[user[r]]]
    <3>1. belowThreshold[user[r]] \in BOOLEAN
      BY DEF FetchAccount
    <3>2. sawBelow' \in [Requests -> BOOLEAN]
      BY <2>2, <3>1
    <3> QED
      BY <3>2 DEF FetchAccount
  <2> QED
    BY <2>1, <2>2 DEF FetchAccount
<1>2. PostsFollowTheHandler'
  BY DEF FetchAccount
<1>3. GateReadsAgree'
  BY DEF FetchAccount
<1>4. LedgerMatchesBroker'
  BY DEF FetchAccount
<1>5. AcceptedOrdersAccountedFor'
  BY DEF FetchAccount
<1>6. ResponsesAreTruthful'
  BY DEF FetchAccount
<1>7. GateIsNeverFooled'
  BY DEF FetchAccount
<1> QED
  BY <1>1, <1>2, <1>3, <1>4, <1>5, <1>6, <1>7

LEMMA GateOnPDTInv ==
    ASSUME Inv, NEW r \in Requests, GateOnPDT(r)
    PROVE  Inv'
<1>1. TypeOK'
  <2>1. UNCHANGED <<gateway, worldVars, accepted, turnedDown, ledger, untracked, sawClear>>
    BY DEF GateOnPDT
  <2>2. ASSUME NEW step \in Steps, Advance(r, step)
        PROVE  TypeOK'
    BY <2>1, <2>2
  <2>3. ASSUME NEW status \in Responses, Respond(r, status)
        PROVE  TypeOK'
    BY <2>1, <2>3
  <2>4. \/ \E step \in Steps : Advance(r, step)
        \/ \E status \in Responses : Respond(r, status)
    <3> HIDE DEF Advance, Respond
    <3> QED
      BY DEF GateOnPDT
  <2> QED
    BY <2>2, <2>3, <2>4
<1>2. PostsFollowTheHandler'
  BY DEF GateOnPDT
<1>3. GateReadsAgree'
  BY DEF GateOnPDT
<1>4. LedgerMatchesBroker'
  BY DEF GateOnPDT
<1>5. AcceptedOrdersAccountedFor'
  BY DEF GateOnPDT
<1>6. ResponsesAreTruthful'
  BY DEF GateOnPDT
<1>7. GateIsNeverFooled'
  BY DEF GateOnPDT
<1> QED
  BY <1>1, <1>2, <1>3, <1>4, <1>5, <1>6, <1>7

LEMMA PlaceOrderInv ==
    ASSUME Inv, NEW r \in Requests, PlaceOrder(r)
    PROVE  Inv'
BY DEF PlaceOrder

LEMMA PlaceTurnedDownInv ==
    ASSUME Inv, NEW r \in Requests, PlaceTurnedDown(r)
    PROVE  Inv'
BY DEF PlaceTurnedDown

LEMMA LoseReplyInv ==
    ASSUME Inv, NEW r \in Requests, LoseReply(r)
    PROVE  Inv'
BY DEF LoseReply

LEMMA PlaceFailsInv ==
    ASSUME Inv, NEW r \in Requests, PlaceFails(r)
    PROVE  Inv'
BY DEF PlaceFails

LEMMA PersistInv ==
    ASSUME Inv, NEW r \in Requests, Persist(r)
    PROVE  Inv'
BY DEF Persist

(* The world and the process. *)
LEMMA EquityCrossesInv ==
    ASSUME Inv, NEW u \in Users, EquityCrosses(u)
    PROVE  Inv'
BY DEF EquityCrosses, NoteClear

LEMMA DayTradesChangeInv ==
    ASSUME Inv, NEW u \in Users, DayTradesChange(u)
    PROVE  Inv'
BY DEF DayTradesChange, NoteClear

LEMMA ConnectOrDisconnectInv ==
    ASSUME Inv, NEW u \in Users, NEW b \in Brokers, ConnectOrDisconnect(u, b)
    PROVE  Inv'
BY DEF ConnectOrDisconnect

LEMMA DieInv ==
    ASSUME Inv, Die
    PROVE  Inv'
BY DEF Die

LEMMA TerminateInv ==
    ASSUME Inv, Terminate
    PROVE  Inv'
BY DEF Terminate

LEMMA DrainedInv ==
    ASSUME Inv, Drained
    PROVE  Inv'
BY DEF Drained

LEMMA StartInv ==
    ASSUME Inv, Start
    PROVE  Inv'
BY DEF Start

-----------------------------------------------------------------------------
LEMMA StutterInv == Inv /\ UNCHANGED vars => Inv'
BY DEF vars

LEMMA NextInv == Inv /\ [Next]_vars => Inv'
<1> SUFFICES ASSUME Inv, [Next]_vars PROVE Inv'
  OBVIOUS
<1> HIDE DEF Inv
<1>1. CASE UNCHANGED vars
  BY <1>1, StutterInv
<1>2. ASSUME NEW r \in Requests,
             \/ \E u \in Users, b \in Brokers : Submit(r, u, b)
             \/ RejectBody(r)
      PROVE  Inv'
  BY <1>2, SubmitInv, RejectBodyInv
<1>3. ASSUME NEW r \in Requests, HandlerStep(r)
      PROVE  Inv'
  BY <1>3, BuildInv, FetchAccountInv, GateOnPDTInv, PlaceOrderInv,
     PlaceTurnedDownInv, LoseReplyInv, PlaceFailsInv, PersistInv
     DEF HandlerStep
<1>4. ASSUME NEW u \in Users,
             \/ EquityCrosses(u)
             \/ DayTradesChange(u)
             \/ \E b \in Brokers : ConnectOrDisconnect(u, b)
      PROVE  Inv'
  BY <1>4, EquityCrossesInv, DayTradesChangeInv, ConnectOrDisconnectInv
<1>5. CASE Die \/ Terminate \/ Drained \/ Start
  BY <1>5, DieInv, TerminateInv, DrainedInv, StartInv
<1> QED
  BY <1>1, <1>2, <1>3, <1>4, <1>5 DEF Next

\* The inductive invariant holds in every reachable state.
THEOREM InvariantHolds == Spec => []Inv
BY InitInv, NextInv, PTL DEF Spec

\* Every variable keeps its type: handlers, ledger and history name only
\* known users, brokers and POSTs.
THEOREM TypeCorrect == Spec => []TypeOK
<1>1. Inv => TypeOK
  BY DEF Inv
<1> QED
  BY <1>1, InvariantHolds, PTL

\* No order row without an order a broker decided on, from that user's own POST
\* and at that broker, and no row that calls an order Alpaca turned down
\* accepted (order_handlers.go:100-119).
THEOREM LedgerSound == Spec => []LedgerMatchesBroker
<1>1. Inv => LedgerMatchesBroker
  BY DEF Inv
<1> QED
  BY <1>1, InvariantHolds, PTL

\* No order a broker decided on goes missing except by a lost reply, a failed insert or
\* the death of the process; a graceful drain loses none.
THEOREM NothingUnaccounted == Spec => []AcceptedOrdersAccountedFor
<1>1. Inv => AcceptedOrdersAccountedFor
  BY DEF Inv
<1> QED
  BY <1>1, InvariantHolds, PTL

\* A 201 is an order a broker decided on, and a 400, 403, 404 or 500 is none.
THEOREM ResponsesTruthful == Spec => []ResponsesAreTruthful
<1>1. Inv => ResponsesAreTruthful
  BY DEF Inv
<1> QED
  BY <1>1, InvariantHolds, PTL

\* The gate's two separate reads never let an Alpaca order through for a
\* user restricted ever since the POST arrived (order_handlers.go:79-98).
THEOREM GateHolds == Spec => []GateIsNeverFooled
<1>1. Inv => GateIsNeverFooled
  BY DEF Inv
<1> QED
  BY <1>1, InvariantHolds, PTL

-----------------------------------------------------------------------------
(* Orders implements OrderBook: each step of the handlers, of the world    *)
(* and of the process is a step of the order book or leaves it as it is.   *)

\* What the gate read and what the rows say plays no part here.
HIDE DEF GateReadsAgree, LedgerMatchesBroker, AcceptedOrdersAccountedFor, ResponsesAreTruthful,
         GateIsNeverFooled, CheckPDT, Restricted, Respond, Advance
USE DEF Stage, Recorded, Verdict, Told, OB!Decided

LEMMA InitRefines == Init => OB!Init
BY DEF Init, OB!Init

\* An answer moves one POST and nothing else that the order book sees.
LEMMA RespondCloses ==
    ASSUME Inv, NEW r \in Requests, NEW status \in Responses, Respond(r, status)
    PROVE  OB!Close(r, Verdict(status))
BY DEF Respond, OB!Close

\* A step from one call to the next is not seen.
LEMMA AdvanceUnseen ==
    ASSUME Inv, NEW r \in Requests, NEW step \in Steps, Running(r), Advance(r, step)
    PROVE  UNCHANGED <<Stage, Told>>
BY DEF Advance

\* An error before the broker call refuses the POST.
LEMMA RespondRefuses ==
    ASSUME Inv, NEW r \in Requests, NEW status \in {"400", "403", "404", "500"},
           pc[r] \in {"new", "build", "account", "gate"},
           Respond(r, status), UNCHANGED <<accepted, turnedDown, ledger>>
    PROVE  OB!Refuse(r)
<1>1. status \in Responses /\ Verdict(status) = "notPlaced"
  OBVIOUS
<1>2. OB!Close(r, "notPlaced")
  BY <1>1, RespondCloses
<1> QED
  BY <1>2 DEF OB!Refuse

\* A 502 leaves the outcome open.
LEMMA RespondLeavesOpen ==
    ASSUME Inv, NEW r \in Requests, pc[r] \in {"account", "place"}, Respond(r, "502"),
           accepted' \in {accepted, accepted \union {r}}, UNCHANGED <<turnedDown, ledger>>
    PROVE  OB!LeaveOpen(r)
<1>1. "502" \in Responses /\ Verdict("502") = "unknown"
  OBVIOUS
<1>2. OB!Close(r, "unknown")
  BY <1>1, RespondCloses
<1> QED
  BY <1>2 DEF OB!LeaveOpen

LEMMA SubmitRefines ==
    ASSUME Inv, NEW r \in Requests, NEW u \in Users, NEW b \in Brokers, Submit(r, u, b)
    PROVE  OB!Arrive(r)
BY DEF Submit, OB!Arrive

LEMMA PlaceOrderRefines ==
    ASSUME Inv, NEW r \in Requests, PlaceOrder(r)
    PROVE  OB!Accept(r)
<1>1. UNCHANGED <<Stage, Told>>
  BY AdvanceUnseen DEF PlaceOrder
<1> QED
  BY <1>1 DEF PlaceOrder, OB!Accept

LEMMA PlaceTurnedDownRefines ==
    ASSUME Inv, NEW r \in Requests, PlaceTurnedDown(r)
    PROVE  OB!TurnDown(r)
<1>1. UNCHANGED <<Stage, Told>>
  BY AdvanceUnseen DEF PlaceTurnedDown
<1> QED
  BY <1>1 DEF PlaceTurnedDown, OB!TurnDown

LEMMA PersistRefines ==
    ASSUME Inv, NEW r \in Requests, Persist(r)
    PROVE  OB!Confirm(r)
<1>1. "201" \in Responses /\ Verdict("201") = "placed"
  OBVIOUS
<1>2. OB!Close(r, "placed")
  BY <1>1, RespondCloses DEF Persist
<1>3. Recorded' \in {Recorded, Recorded \union {r}}
  BY DEF Persist
<1> QED
  BY <1>2, <1>3 DEF Persist, OB!Confirm

LEMMA HandlerStepRefines ==
    ASSUME Inv, NEW r \in Requests, HandlerStep(r)
    PROVE  OB!Next \/ UNCHANGED OB!vars
<1>1. CASE Build(r)
  <2>1. CASE \E step \in Steps : Advance(r, step)
    BY <1>1, <2>1, AdvanceUnseen DEF Build, OB!vars
  <2>2. CASE \E status \in {"404", "500"} : Respond(r, status)
    BY <1>1, <2>2, RespondRefuses DEF Build, OB!Next
  <2> QED
    BY <1>1, <2>1, <2>2 DEF Build
<1>2. CASE FetchAccount(r)
  <2>1. CASE Respond(r, "502")
    BY <1>2, <2>1, RespondLeavesOpen DEF FetchAccount, OB!Next
  <2>2. CASE pc' = [pc EXCEPT ![r] = "gate"] /\ UNCHANGED response
    <3>1. UNCHANGED <<Stage, Told>>
      BY <1>2, <2>2 DEF FetchAccount
    <3> QED
      BY <1>2, <3>1 DEF FetchAccount, OB!vars
  <2> QED
    BY <1>2, <2>1, <2>2 DEF FetchAccount
<1>3. CASE GateOnPDT(r)
  <2>1. CASE Advance(r, "place")
    BY <1>3, <2>1, AdvanceUnseen DEF GateOnPDT, OB!vars
  <2>2. CASE \E status \in {"403", "500"} : Respond(r, status)
    BY <1>3, <2>2, RespondRefuses DEF GateOnPDT, OB!Next
  <2> QED
    BY <1>3, <2>1, <2>2 DEF GateOnPDT
<1>4. CASE PlaceOrder(r)
  BY <1>4, PlaceOrderRefines DEF OB!Next
<1>5. CASE PlaceTurnedDown(r)
  BY <1>5, PlaceTurnedDownRefines DEF OB!Next
<1>6. CASE LoseReply(r)
  BY <1>6, RespondLeavesOpen DEF LoseReply, OB!Next
<1>7. CASE PlaceFails(r)
  BY <1>7, RespondLeavesOpen DEF PlaceFails, OB!Next
<1>8. CASE Persist(r)
  BY <1>8, PersistRefines DEF OB!Next
<1> QED
  BY <1>1, <1>2, <1>3, <1>4, <1>5, <1>6, <1>7, <1>8 DEF HandlerStep

LEMMA DieRefines ==
    ASSUME Inv, Die
    PROVE  OB!Crash
<1>1. PICK late \in SUBSET {r \in Requests : pc[r] = "place" /\ broker[r] # "questrade"},
           landed \in SUBSET {r \in Requests : pc[r] = "persist"} :
           /\ accepted' = accepted \union late
           /\ ledger' = ledger \union {Row(r) : r \in landed}
  <2> HIDE DEF Row
  <2> QED
    BY DEF Die
<1>2. late \in SUBSET {r \in Requests : Stage[r] = "open" /\ r \notin OB!Decided}
  OBVIOUS
<1>3. landed \in SUBSET {r \in OB!Decided : Stage[r] = "open"}
  OBVIOUS
<1>4. Recorded' = Recorded \union landed
  <2>1. \A r \in landed : Row(r).order = r
    OBVIOUS
  <2>2. \A x : x \in Recorded' <=> x \in Recorded \/ \E r \in landed : x = Row(r).order
    <3> HIDE DEF Row
    <3> QED
      BY <1>1
  <2> QED
    BY <2>1, <2>2
<1>5. Stage' = [r \in Requests |-> IF Stage[r] = "open" THEN "over" ELSE Stage[r]]
  BY DEF Die
<1>6. UNCHANGED <<turnedDown, Told>>
  BY DEF Die
<1> HIDE DEF Stage, Recorded, Told, Inv, OB!Decided
<1> QED
  BY <1>1, <1>2, <1>3, <1>4, <1>5, <1>6, Zenon DEF OB!Crash

LEMMA StepRefines == Inv /\ [Next]_vars => [OB!Next]_OB!vars
<1> SUFFICES ASSUME Inv, [Next]_vars PROVE OB!Next \/ UNCHANGED OB!vars
  OBVIOUS
<1>1. CASE UNCHANGED <<accepted, turnedDown, ledger, pc, response>>
  BY <1>1 DEF OB!vars
<1>2. ASSUME NEW r \in Requests, \E u \in Users, b \in Brokers : Submit(r, u, b)
      PROVE  OB!Next
  BY <1>2, SubmitRefines DEF OB!Next
<1>3. ASSUME NEW r \in Requests, RejectBody(r)
      PROVE  OB!Next
  BY <1>3, RespondRefuses DEF RejectBody, OB!Next
<1>4. ASSUME NEW r \in Requests, HandlerStep(r)
      PROVE  OB!Next \/ UNCHANGED OB!vars
  BY <1>4, HandlerStepRefines
<1>5. CASE Die
  BY <1>5, DieRefines DEF OB!Next
<1>6. CASE \/ Terminate \/ Drained \/ Start
           \/ \E u \in Users : \/ EquityCrosses(u)
                               \/ DayTradesChange(u)
                               \/ \E b \in Brokers : ConnectOrDisconnect(u, b)
  BY <1>1, <1>6 DEF Terminate, Drained, Start, EquityCrosses, DayTradesChange,
                    ConnectOrDisconnect
<1> QED
  BY <1>1, <1>2, <1>3, <1>4, <1>5, <1>6 DEF Next, vars

\* The handler implements the order book (order_handlers.go:28-122): a POST is
\* decided on at most once, answered once, and recorded with its answer or not
\* at all, whatever runs beside it and whenever the process dies.
THEOREM OrdersImplementOrderBook == Spec => ImplementsOrderBook
BY InvariantHolds, InitRefines, StepRefines, PTL DEF Spec, OB!Spec, ImplementsOrderBook
=============================================================================
