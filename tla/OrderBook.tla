----------------------------- MODULE OrderBook -----------------------------
(***************************************************************************)
(* What POST /api/v1/orders promises its callers and the orders table,     *)
(* without the handler: a broker decides on a POST at most once, while it  *)
(* is open; the answer says what is known of the order, and an order that  *)
(* was decided on is recorded with its answer or not at all. Module Orders *)
(* implements this.                                                        *)
(***************************************************************************)
CONSTANT Requests

VARIABLES
    stage,      \* stage[r]: "new", "open" or "over"
    accepted,   \* POSTs whose order a broker has
    turnedDown, \* POSTs a broker answered with success without keeping the order
    recorded,   \* POSTs with a row in the orders table
    told        \* told[r]: "nothing", "placed", "notPlaced" or "unknown"

vars == <<stage, accepted, turnedDown, recorded, told>>

Decided == accepted \union turnedDown

Init ==
    /\ stage = [r \in Requests |-> "new"]
    /\ accepted = {}
    /\ turnedDown = {}
    /\ recorded = {}
    /\ told = [r \in Requests |-> "nothing"]

\* The POST is answered, once and for all.
Close(r, verdict) ==
    /\ stage' = [stage EXCEPT ![r] = "over"]
    /\ told' = [told EXCEPT ![r] = verdict]

Arrive(r) ==
    /\ stage[r] = "new"
    /\ stage' = [stage EXCEPT ![r] = "open"]
    /\ UNCHANGED <<accepted, turnedDown, recorded, told>>

\* No broker has the order or ever will.
Refuse(r) ==
    /\ stage[r] \in {"new", "open"}
    /\ r \notin Decided
    /\ Close(r, "notPlaced")
    /\ UNCHANGED <<accepted, turnedDown, recorded>>

Accept(r) ==
    /\ stage[r] = "open"
    /\ r \notin Decided
    /\ accepted' = accepted \union {r}
    /\ UNCHANGED <<stage, turnedDown, recorded, told>>

TurnDown(r) ==
    /\ stage[r] = "open"
    /\ r \notin Decided
    /\ turnedDown' = turnedDown \union {r}
    /\ UNCHANGED <<stage, accepted, recorded, told>>

\* The decision is confirmed; that its row is written is not promised.
Confirm(r) ==
    /\ stage[r] = "open"
    /\ r \in Decided
    /\ recorded' \in {recorded, recorded \union {r}}
    /\ Close(r, "placed")
    /\ UNCHANGED <<accepted, turnedDown>>

\* The outcome is not known, and no row is written.
LeaveOpen(r) ==
    /\ stage[r] = "open"
    /\ r \notin Decided
    /\ accepted' \in {accepted, accepted \union {r}}
    /\ Close(r, "unknown")
    /\ UNCHANGED <<turnedDown, recorded>>

\* All open POSTs end unanswered. What was on its way may still arrive.
Crash ==
    /\ stage' = [r \in Requests |-> IF stage[r] = "open" THEN "over" ELSE stage[r]]
    /\ \E late \in SUBSET {r \in Requests : stage[r] = "open" /\ r \notin Decided},
          landed \in SUBSET {r \in Decided : stage[r] = "open"} :
          /\ accepted' = accepted \union late
          /\ recorded' = recorded \union landed
    /\ UNCHANGED <<turnedDown, told>>

Next ==
    \/ \E r \in Requests :
          Arrive(r) \/ Refuse(r) \/ Accept(r) \/ TurnDown(r) \/ Confirm(r) \/ LeaveOpen(r)
    \/ Crash

Spec == Init /\ [][Next]_vars
=============================================================================
