----------------------------- MODULE PriceFeed -----------------------------
(***************************************************************************)
(* What GET /ws/quotes promises the page, without handler, goroutine or    *)
(* sockets: a stream is one queue. The answer to the handshake comes       *)
(* first, then OANDA's prices one after the other, or a farewell in their  *)
(* place. A stream may break at any moment, from the back: what is still   *)
(* heard of it is what was said first. Module QuoteStream implements this. *)
(***************************************************************************)
EXTENDS Naturals, Sequences

CONSTANTS
    Streams,
    NoStream,
    Numbers,   \* prices are numbered modulo this
    Depth      \* what a stream holds before OANDA has to wait

VARIABLES
    stage,   \* stage[s]: "new", "open", "feeding" or "over"
    feed,    \* feed[s]: said and not yet heard
    next,    \* next[s]: the number of OANDA's next price
    shown    \* the price on screen and the stream it came from

vars == <<stage, feed, next, shown>>

Init ==
    /\ stage = [s \in Streams |-> "new"]
    /\ feed = [s \in Streams |-> <<>>]
    /\ next = [s \in Streams |-> 0]
    /\ shown = [stream |-> NoStream, price |-> 0]

Turn(s, from, to) ==
    /\ stage[s] = from
    /\ stage' = [stage EXCEPT ![s] = to]

Say(s, message) == feed' = [feed EXCEPT ![s] = Append(@, message)]

Open(s) == Turn(s, "new", "open") /\ Say(s, [kind |-> "101"]) /\ UNCHANGED <<next, shown>>

Refuse(s) == Turn(s, "new", "over") /\ Say(s, [kind |-> "refused"]) /\ UNCHANGED <<next, shown>>

Start(s) == Turn(s, "open", "feeding") /\ UNCHANGED <<feed, next, shown>>

Fail(s) == Turn(s, "open", "over") /\ Say(s, [kind |-> "failed"]) /\ UNCHANGED <<next, shown>>

\* OANDA's next price. Once the stream is over it reaches nobody.
Price(s) ==
    /\ \/ /\ stage[s] = "feeding"
          /\ Len(feed[s]) < Depth
          /\ Say(s, [kind |-> "price", price |-> next[s]])
       \/ /\ stage[s] = "over"
          /\ UNCHANGED feed
    /\ next' = [next EXCEPT ![s] = (@ + 1) % Numbers]
    /\ UNCHANGED <<stage, shown>>

Hear(s) ==
    /\ feed[s] # <<>>
    /\ feed' = [feed EXCEPT ![s] = Tail(@)]
    /\ shown' = IF Head(feed[s]).kind = "price" THEN [stream |-> s, price |-> Head(feed[s]).price]
                ELSE shown
    /\ UNCHANGED <<stage, next>>

\* Several streams break at once when the gateway dies.
Break(broken) ==
    /\ stage' = [s \in Streams |-> IF s \in broken THEN "over" ELSE stage[s]]
    /\ \E left \in [Streams -> 0..Depth] :
          /\ \A s \in Streams : left[s] <= Len(feed[s])
          /\ feed' = [s \in Streams |-> IF s \in broken THEN SubSeq(feed[s], 1, left[s]) ELSE feed[s]]
    /\ UNCHANGED <<next, shown>>

Next ==
    \/ \E s \in Streams : Open(s) \/ Refuse(s) \/ Start(s) \/ Fail(s) \/ Price(s) \/ Hear(s)
    \/ \E broken \in SUBSET Streams : Break(broken)

Spec == Init /\ [][Next]_vars
=============================================================================
