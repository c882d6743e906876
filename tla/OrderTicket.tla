---------------------------- MODULE OrderTicket ----------------------------
(***************************************************************************)
(* The order ticket of the web client (web/src/pages/Trade.tsx) over the   *)
(* order book of the gateway, and the polled balance that decides which    *)
(* brokers the ticket offers and whether it is there at all                *)
(* (hooks/usePolling.ts, context/PortfolioContext.tsx). The user is signed *)
(* in and may do anything the page allows. Of the form only the broker and *)
(* the confirmation box are kept: the other fields behave like the broker. *)
(***************************************************************************)
EXTENDS Naturals

CONSTANTS
    MaxPosts,   \* POSTs made, in this order (bounds the model)
    Brokers,
    Polls,      \* balance polls in progress at once (bounds the model)
    MaxTicks,   \* times the box is ticked (bounds the model)
    NoBroker, Unmounted

ASSUME OrderTicketAssumption ==
    /\ NoBroker \notin Brokers
    /\ MaxPosts \in Nat /\ MaxTicks \in Nat

VARIABLES
    stage, accepted, turnedDown, recorded, told,    \* the gateway: OrderBook
    answering,  \* brokers whose account can be read at the moment
    poll,       \* poll[p]: Idle, or the accounts left to read and those read
    listed,     \* brokers with an account in the balance on screen
    ticket,     \* the mounted OrderTicket
    tick,       \* tick[r]: the ticking of the box r was sent under, 0 if unsent
    heard,      \* heard[r]: what the browser learned of r
    ticks       \* times the box has been ticked

gatewayVars == <<stage, accepted, turnedDown, recorded, told>>
pollVars == <<answering, poll>>
pageVars == <<ticket, ticks>>
postVars == <<tick, heard>>
vars == <<gatewayVars, pollVars, listed, pageVars, postVars>>

Requests == 1..MaxPosts

Gateway == INSTANCE OrderBook

Idle == [unread |-> {}, alive |-> {NoBroker}]
Reports == {"nothing", "placed", "notPlaced", "unknown", "lost"}

Tickets ==
    [broker : Brokers, box : 0..MaxTicks, submitting : BOOLEAN,
     post : 0..MaxPosts, message : {"none", "result", "error"}]

TypeOK ==
    /\ stage \in [Requests -> {"new", "open", "over"}]
    /\ accepted \subseteq Requests /\ turnedDown \subseteq Requests
    /\ recorded \subseteq Gateway!Decided
    /\ told \in [Requests -> Reports \ {"lost"}]
    /\ answering \subseteq Brokers
    /\ poll \in [Polls -> [unread : SUBSET Brokers, alive : SUBSET Brokers] \union {Idle}]
    /\ listed \subseteq Brokers
    /\ ticket \in Tickets \union {Unmounted}
    /\ tick \in [Requests -> 0..MaxTicks]
    /\ heard \in [Requests -> Reports]
    /\ ticks \in 0..MaxTicks

Init ==
    /\ Gateway!Init
    /\ answering \in SUBSET Brokers
    /\ poll = [p \in Polls |-> Idle]
    /\ listed = {}
    /\ ticket = Unmounted
    /\ tick = [r \in Requests |-> 0]
    /\ heard = [r \in Requests |-> "nothing"]
    /\ ticks = 0

-----------------------------------------------------------------------------
(* The page. *)

\* brokers[0], which is undefined for an empty list.
FirstOf(list) == IF list = {} THEN NoBroker ELSE CHOOSE b \in list : TRUE

NewTicket(list) ==
    [broker |-> FirstOf(list), box |-> 0, submitting |-> FALSE, post |-> 0,
     message |-> "none"]

\* Mutant of Rendered: the ticket is shown without connected brokers, too.
RenderedAlways(old, list) ==
    IF old = Unmounted THEN NewTicket(list) ELSE old

\* The page shows a ticket while the balance lists a broker. A ticket that stays
\* mounted keeps its state, a broker that is no longer listed included.
Rendered(old, list) ==
    CASE list = {} -> Unmounted
      [] list # {} /\ old = Unmounted -> NewTicket(list)
      [] OTHER -> old

\* To another page and back. The balance is polled on every page.
LeaveAndReturn ==
    /\ ticket' = Rendered(Unmounted, listed)
    /\ UNCHANGED <<gatewayVars, pollVars, listed, ticks, postVars>>

\* The answers of polls from before a reload are not used.
Reload ==
    /\ listed' = {}
    /\ poll' = [p \in Polls |-> Idle]
    /\ ticket' = Unmounted
    /\ UNCHANGED <<gatewayVars, answering, ticks, postVars>>

ChooseBroker(b) ==
    /\ ticket # Unmounted
    /\ b \in listed
    /\ ticket' = [ticket EXCEPT !.broker = b]
    /\ UNCHANGED <<gatewayVars, pollVars, listed, ticks, postVars>>

Tick ==
    /\ ticket # Unmounted
    /\ ticket.box = 0
    /\ ticks < MaxTicks
    /\ ticks' = ticks + 1
    /\ ticket' = [ticket EXCEPT !.box = ticks + 1]
    /\ UNCHANGED <<gatewayVars, pollVars, listed, postVars>>

Untick ==
    /\ ticket # Unmounted
    /\ ticket' = [ticket EXCEPT !.box = 0]
    /\ UNCHANGED <<gatewayVars, pollVars, listed, ticks, postVars>>

Submitting == ticket # Unmounted /\ ticket.submitting

\* handleSubmit, up to the answer. The button is enabled by the ticked box and
\* disabled while submitting.
Submit(r) ==
    /\ ticket # Unmounted /\ ~Submitting
    /\ ticket.box # 0
    /\ \A q \in Requests : tick[q] = 0 <=> q >= r
    /\ tick' = [tick EXCEPT ![r] = ticket.box]
    /\ ticket' = [ticket EXCEPT !.submitting = TRUE, !.post = r, !.message = "none"]
    /\ UNCHANGED <<gatewayVars, pollVars, listed, ticks, heard>>

Awaits(r) == Submitting /\ ticket.post = r

\* Mutant of Succeed: the box stays ticked.
SucceedKeepsBox(r) ==
    \E shown \in {"result", "none"} :
        ticket' = [ticket EXCEPT !.submitting = FALSE, !.message = shown]

\* setResult, setConfirmed(false); a 201 whose body was cut off shows nothing.
Succeed(r) ==
    \E shown \in {"result", "none"} :
        ticket' = [ticket EXCEPT !.submitting = FALSE, !.message = shown, !.box = 0]

\* Mutant of Fail: setSubmitting(false) is not in a finally.
FailWithoutFinally(r) ==
    ticket' = [ticket EXCEPT !.message = "error"]

\* setError: the box stays ticked.
Fail(r) ==
    ticket' = [ticket EXCEPT !.submitting = FALSE, !.message = "error"]

\* Mutant of Hear: the status of the response is not looked at.
HearIgnoresStatus(r) ==
    /\ tick[r] # 0 /\ heard[r] = "nothing"
    /\ told[r] # "nothing"
    /\ heard' = [heard EXCEPT ![r] = told[r]]
    /\ IF ~Awaits(r) THEN UNCHANGED ticket ELSE Succeed(r)
    /\ UNCHANGED <<gatewayVars, pollVars, listed, ticks, tick>>

\* The response arrives. When the ticket that sent r is gone nobody sees it.
Hear(r) ==
    /\ tick[r] # 0 /\ heard[r] = "nothing"
    /\ told[r] # "nothing"
    /\ heard' = [heard EXCEPT ![r] = told[r]]
    /\ IF ~Awaits(r) THEN UNCHANGED ticket
       ELSE IF told[r] = "placed" THEN Succeed(r) ELSE Fail(r)
    /\ UNCHANGED <<gatewayVars, pollVars, listed, ticks, tick>>

\* fetch rejects: the POST or its response is lost, or the gateway is gone.
\* What was sent may still arrive.
LoseAnswer(r) ==
    /\ tick[r] # 0 /\ heard[r] = "nothing"
    /\ heard' = [heard EXCEPT ![r] = "lost"]
    /\ IF Awaits(r) THEN Fail(r) ELSE UNCHANGED ticket
    /\ UNCHANGED <<gatewayVars, pollVars, listed, ticks, tick>>

-----------------------------------------------------------------------------
(* The gateway. *)

GatewayStep ==
    /\ \/ \E r \in Requests :
             \/ tick[r] # 0 /\ (Gateway!Arrive(r) \/ Gateway!Refuse(r))
             \/ Gateway!Accept(r)
             \/ Gateway!TurnDown(r)
             \/ Gateway!Confirm(r)
             \/ Gateway!LeaveOpen(r)
       \/ Gateway!Crash
    /\ UNCHANGED <<pollVars, listed, pageVars, postVars>>

\* An account becomes readable or unreadable: connected, disconnected, a
\* broker down or back.
AccountChanges(b) ==
    /\ answering' = IF b \in answering THEN answering \ {b} ELSE answering \union {b}
    /\ UNCHANGED <<gatewayVars, poll, listed, pageVars, postVars>>

-----------------------------------------------------------------------------
(* The polled balance. *)

\* setInterval's tick, whether or not an earlier poll has been answered ...
SendPoll(p) ==
    /\ poll[p] = Idle
    /\ poll' = [poll EXCEPT ![p] = [unread |-> Brokers, alive |-> {}]]
    /\ UNCHANGED <<gatewayVars, answering, listed, pageVars, postVars>>

\* ... one account read by the gateway ...
ReadAccount(p, b) ==
    /\ b \in poll[p].unread
    /\ poll' = [poll EXCEPT ![p] = [unread |-> @.unread \ {b},
                                    alive |-> @.alive \union ({b} \intersect answering)]]
    /\ UNCHANGED <<gatewayVars, answering, listed, pageVars, postVars>>

Answered(p) == poll[p] # Idle /\ poll[p].unread = {}

\* Mutant of PollArrives: the new state is merged into the previous one.
PollArrivesMerged(p) ==
    /\ Answered(p)
    /\ listed' = listed \union poll[p].alive
    /\ ticket' = Rendered(ticket, listed')
    /\ poll' = [poll EXCEPT ![p] = Idle]
    /\ UNCHANGED <<gatewayVars, answering, ticks, postVars>>

\* ... and its answer on screen, even if a later poll was faster.
PollArrives(p) ==
    /\ Answered(p)
    /\ listed' = poll[p].alive
    /\ ticket' = Rendered(ticket, listed')
    /\ poll' = [poll EXCEPT ![p] = Idle]
    /\ UNCHANGED <<gatewayVars, answering, ticks, postVars>>

\* A poll that fails leaves the last balance on screen.
PollFails(p) ==
    /\ poll[p] # Idle
    /\ poll' = [poll EXCEPT ![p] = Idle]
    /\ UNCHANGED <<gatewayVars, answering, listed, pageVars, postVars>>

PollStep(p) ==
    \/ SendPoll(p)
    \/ \E b \in Brokers : ReadAccount(p, b)
    \/ PollArrives(p)
    \/ PollFails(p)

Next ==
    \/ LeaveAndReturn
    \/ Reload
    \/ \E b \in Brokers : ChooseBroker(b) \/ AccountChanges(b)
    \/ Tick
    \/ Untick
    \/ \E r \in Requests : Submit(r) \/ Hear(r) \/ LoseAnswer(r)
    \/ GatewayStep
    \/ \E p \in Polls : PollStep(p)

Spec == Init /\ [][Next]_vars

\* A fetch is answered or rejected in the end, and the interval goes on.
FairSpec ==
    /\ Spec
    /\ \A r \in Requests : WF_vars(Hear(r) \/ LoseAnswer(r))
    /\ \A p \in Polls : WF_vars(PollStep(p))

-----------------------------------------------------------------------------
\* Two orders go out under one ticking of the box only if the first outcome
\* was not known: a 502, or an answer that was lost. Not by a second click, a
\* ticket that a poll or another page replaced while its POST was under way,
\* or an order reported as placed (Trade.tsx:90-117, 199-205).
OneOrderPerTick ==
    \A r, s \in Requests :
        r # s /\ tick[r] = tick[s] /\ {r, s} \subseteq accepted =>
            heard[r] \in {"unknown", "lost"} \/ heard[s] \in {"unknown", "lost"}

\* What the ticket says of its last POST: a result is an order some broker
\* has decided on; an error is none that a broker has, or one whose outcome the
\* gateway or the browser does not know (Trade.tsx:104-107, 191-197).
MessageIsTrue ==
    ticket # Unmounted =>
        /\ ticket.message = "result" => ticket.post \in Gateway!Decided
        /\ ticket.message = "error" /\ ticket.post \in accepted =>
              heard[ticket.post] \in {"unknown", "lost"}

\* The ticket can be used again, whatever becomes of the POST: it is never
\* stuck at "Submitting..." (Trade.tsx:108-110).
TicketRecovers == Submitting ~> ~Submitting

\* Polls overtake each other and fail. Still, once the accounts stop changing and
\* the page is left alone while polls succeed again and again, it ends up with
\* the accounts as they are, and stays with them (usePolling.ts:19-36).
EventuallyFresh ==
    /\ <>[][UNCHANGED answering /\ ~Reload]_vars
    /\ []<><<\E p \in Polls : PollArrives(p)>>_vars
    => <>[](listed = answering)
=============================================================================
