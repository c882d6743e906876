------------------------- MODULE OrderTicketProofs -------------------------
(***************************************************************************)
(* The safety of the order ticket, for any number of POSTs, brokers, polls *)
(* and tickings of the box. The argument follows one ticking: while the    *)
(* box stays ticked, every POST sent under it but the one in flight has    *)
(* been heard of, and was not reported as placed (BoxOutlivesFailures).    *)
(***************************************************************************)
EXTENDS OrderTicket, TLAPS

Failures == {"notPlaced", "unknown", "lost"}

\* What the gateway told of a POST is so for good, and it knows only of POSTs
\* that were sent.
GatewayIsTrue ==
    \A r \in Requests :
        /\ told[r] # "nothing" => stage[r] = "over"
        /\ told[r] = "notPlaced" => r \notin Gateway!Decided
        /\ told[r] = "placed" => r \in Gateway!Decided
        /\ tick[r] = 0 => /\ stage[r] = "new" /\ told[r] = "nothing" /\ heard[r] = "nothing"
                          /\ r \notin Gateway!Decided

HeardIsTold == \A r \in Requests : heard[r] \in {"nothing", "lost", told[r]}

TicksAreCounted ==
    /\ \A r \in Requests : tick[r] <= ticks
    /\ ticket # Unmounted => ticket.box <= ticks

BoxOutlivesFailures ==
    ticket # Unmounted /\ ticket.box # 0 =>
        \A r \in Requests : tick[r] = ticket.box => Awaits(r) \/ heard[r] \in Failures

\* Of two POSTs of one ticking the first has failed, as far as the browser knows.
OneMayHavePlaced ==
    \A r, s \in Requests :
        r # s /\ tick[r] = tick[s] /\ tick[r] # 0 => heard[r] \in Failures \/ heard[s] \in Failures

MessageIsHeard ==
    ticket # Unmounted =>
        /\ ticket.message = "result" => ticket.post \in Gateway!Decided
        /\ ticket.message = "error" => ticket.post \in Requests /\ heard[ticket.post] \in Failures

Inv ==
    /\ TypeOK
    /\ GatewayIsTrue
    /\ HeardIsTold
    /\ TicksAreCounted
    /\ BoxOutlivesFailures
    /\ OneMayHavePlaced
    /\ MessageIsHeard

Known == GatewayIsTrue /\ HeardIsTold /\ OneMayHavePlaced
Shown == TicksAreCounted /\ BoxOutlivesFailures /\ MessageIsHeard

USE OrderTicketAssumption
    DEF Requests, Inv, Known, Shown, gatewayVars, pollVars, pageVars, postVars, Reports, Failures,
        Gateway!Decided

-----------------------------------------------------------------------------
LEMMA InitInv == Init => Inv
BY DEF Init, Gateway!Init, TypeOK, Idle, GatewayIsTrue, HeardIsTold, TicksAreCounted,
   BoxOutlivesFailures, OneMayHavePlaced, MessageIsHeard

\* One field of a ticket is set.
LEMMA SetBox ==
    ASSUME NEW t \in Tickets, NEW box \in 0..MaxTicks
    PROVE  LET u == [t EXCEPT !.box = box] IN
           /\ u \in Tickets /\ u.box = box
           /\ u.broker = t.broker /\ u.submitting = t.submitting /\ u.post = t.post /\ u.message = t.message
BY DEF Tickets

LEMMA SetSubmitting ==
    ASSUME NEW t \in Tickets, NEW submitting \in BOOLEAN
    PROVE  LET u == [t EXCEPT !.submitting = submitting] IN
           /\ u \in Tickets /\ u.submitting = submitting
           /\ u.broker = t.broker /\ u.box = t.box /\ u.post = t.post /\ u.message = t.message
BY DEF Tickets

LEMMA SetPost ==
    ASSUME NEW t \in Tickets, NEW post \in 0..MaxPosts
    PROVE  LET u == [t EXCEPT !.post = post] IN
           /\ u \in Tickets /\ u.post = post
           /\ u.broker = t.broker /\ u.box = t.box /\ u.submitting = t.submitting /\ u.message = t.message
BY DEF Tickets

LEMMA SetMessage ==
    ASSUME NEW t \in Tickets, NEW message \in {"none", "result", "error"}
    PROVE  LET u == [t EXCEPT !.message = message] IN
           /\ u \in Tickets /\ u.message = message
           /\ u.broker = t.broker /\ u.box = t.box /\ u.submitting = t.submitting /\ u.post = t.post
BY DEF Tickets

\* What is on screen after the list of brokers changed: nothing, a blank
\* ticket, or the ticket that was there.
LEMMA RenderedCases ==
    ASSUME NEW list \in SUBSET Brokers, NEW old \in Tickets \union {Unmounted}
    PROVE  Rendered(old, list) \in {Unmounted, old, NewTicket(list)}
BY DEF Rendered

LEMMA NewTicketTyped ==
    ASSUME NEW list \in SUBSET Brokers, list # {}
    PROVE  NewTicket(list) \in Tickets
BY DEF NewTicket, FirstOf, Tickets

LEMMA RenderedTyped ==
    ASSUME NEW list \in SUBSET Brokers, NEW old \in Tickets \union {Unmounted}
    PROVE  Rendered(old, list) \in Tickets \union {Unmounted}
<1>1. CASE list = {}
  BY <1>1 DEF Rendered
<1>2. CASE list # {}
  BY <1>2, NewTicketTyped DEF Rendered
<1> QED
  BY <1>1, <1>2

\* A ticket that a poll, a page or a reload replaces takes its box along.
LEMMA ShownKept ==
    ASSUME Inv, NEW list \in SUBSET Brokers, ticket' \in {Unmounted, ticket, NewTicket(list)},
           UNCHANGED <<gatewayVars, ticks, postVars>>
    PROVE  Known' /\ Shown'
<1>1. CASE ticket' = ticket
  BY <1>1 DEF GatewayIsTrue, HeardIsTold, OneMayHavePlaced, TicksAreCounted, BoxOutlivesFailures,
     MessageIsHeard, Awaits, Submitting
<1>2. CASE ticket' = Unmounted
  BY <1>2 DEF GatewayIsTrue, HeardIsTold, OneMayHavePlaced, TicksAreCounted, BoxOutlivesFailures,
     MessageIsHeard
<1>3. CASE ticket' = NewTicket(list)
  <2>1. ticket'.box = 0 /\ ticket'.message = "none"
    BY <1>3 DEF NewTicket
  <2> QED
    BY <2>1 DEF GatewayIsTrue, HeardIsTold, OneMayHavePlaced, TicksAreCounted, BoxOutlivesFailures,
       MessageIsHeard, TypeOK
<1> QED
  BY <1>1, <1>2, <1>3

LEMMA LeaveAndReturnInv == Inv /\ LeaveAndReturn => Inv'
<1> SUFFICES ASSUME Inv, LeaveAndReturn PROVE Inv'
  OBVIOUS
<1>1. listed \in SUBSET Brokers
  BY DEF TypeOK
<1>2. ticket' \in Tickets \union {Unmounted}
  BY <1>1, RenderedTyped DEF LeaveAndReturn
<1>3. ticket' \in {Unmounted, NewTicket(listed)}
  BY <1>1, RenderedCases DEF LeaveAndReturn
<1>4. TypeOK'
  BY <1>2 DEF LeaveAndReturn, TypeOK
<1> QED
  BY <1>1, <1>3, <1>4, ShownKept DEF LeaveAndReturn

LEMMA ReloadInv == Inv /\ Reload => Inv'
<1> SUFFICES ASSUME Inv, Reload PROVE Inv'
  OBVIOUS
<1>1. TypeOK'
  BY DEF Reload, TypeOK
<1> QED
  BY <1>1, ShownKept DEF Reload

LEMMA ChooseBrokerInv ==
    ASSUME Inv, NEW b \in Brokers, ChooseBroker(b)
    PROVE  Inv'
<1>1. ticket \in Tickets /\ ticket' = [ticket EXCEPT !.broker = b]
  BY DEF ChooseBroker, TypeOK
<1>2. TypeOK'
  BY <1>1 DEF ChooseBroker, TypeOK, Tickets
<1>3. Known'
  BY DEF ChooseBroker, GatewayIsTrue, HeardIsTold, OneMayHavePlaced
<1>4. Shown'
  BY <1>1 DEF ChooseBroker, Tickets, TicksAreCounted, BoxOutlivesFailures, MessageIsHeard, Awaits, Submitting
<1> QED
  BY <1>2, <1>3, <1>4

\* Nothing was sent under a new ticking yet.
LEMMA TickInv == Inv /\ Tick => Inv'
<1> SUFFICES ASSUME Inv, Tick PROVE Inv'
  OBVIOUS
<1>1. /\ ticket \in Tickets /\ ticket' = [ticket EXCEPT !.box = ticks + 1]
      /\ ticks \in Nat /\ ticks' = ticks + 1 /\ ticks' \in 0..MaxTicks
  BY DEF Tick, TypeOK
<1>5. /\ ticket' \in Tickets
      /\ ticket'.box = ticks + 1 /\ ticket'.message = ticket.message /\ ticket'.post = ticket.post
  BY <1>1, SetBox
<1>2. TypeOK'
  BY <1>1, <1>5 DEF Tick, TypeOK
<1>3. Known'
  BY DEF Tick, GatewayIsTrue, HeardIsTold, OneMayHavePlaced
<1>4. \A r \in Requests : tick[r] \in Nat /\ tick[r] <= ticks
  BY DEF TypeOK, TicksAreCounted
<1>6. Shown'
  <2>1. TicksAreCounted'
    BY <1>1, <1>4, <1>5 DEF Tick, TicksAreCounted
  <2>2. BoxOutlivesFailures'
    BY <1>1, <1>4, <1>5 DEF Tick, BoxOutlivesFailures
  <2>3. MessageIsHeard'
    BY <1>1, <1>5 DEF Tick, MessageIsHeard
  <2> QED
    BY <2>1, <2>2, <2>3
<1> QED
  BY <1>2, <1>3, <1>6

LEMMA UntickInv == Inv /\ Untick => Inv'
<1> SUFFICES ASSUME Inv, Untick PROVE Inv'
  OBVIOUS
<1>1. ticket \in Tickets /\ ticket' = [ticket EXCEPT !.box = 0]
  BY DEF Untick, TypeOK
<1>2. ticket' \in Tickets /\ ticket'.box = 0 /\ ticket'.message = ticket.message /\ ticket'.post = ticket.post
  BY <1>1, SetBox
<1>3. TypeOK'
  BY <1>2 DEF Untick, TypeOK
<1>4. Known'
  BY DEF Untick, GatewayIsTrue, HeardIsTold, OneMayHavePlaced
<1>5. Shown'
  BY <1>1, <1>2 DEF Untick, TicksAreCounted, BoxOutlivesFailures, MessageIsHeard, TypeOK
<1> QED
  BY <1>3, <1>4, <1>5

\* Whatever else was sent under this ticking has failed: the button was enabled.
LEMMA SubmitInv ==
    ASSUME Inv, NEW r \in Requests, Submit(r)
    PROVE  Inv'
<1>1. /\ ticket \in Tickets /\ ticket # Unmounted /\ ~Submitting /\ ticket.box # 0 /\ tick[r] = 0
      /\ tick' = [tick EXCEPT ![r] = ticket.box]
      /\ ticket' = [ticket EXCEPT !.submitting = TRUE, !.post = r, !.message = "none"]
      /\ UNCHANGED <<gatewayVars, pollVars, listed, ticks, heard>>
  BY DEF Submit, TypeOK
<1>2. /\ ticket' \in Tickets /\ ticket'.box = ticket.box /\ ticket'.submitting = TRUE /\ ticket'.post = r
      /\ ticket'.message = "none"
  <2> DEFINE t == [ticket EXCEPT !.submitting = TRUE]
             u == [t EXCEPT !.post = r]
  <2>1. ticket' = [u EXCEPT !.message = "none"]
    BY <1>1
  <2>2. t \in Tickets /\ t.box = ticket.box /\ t.submitting = TRUE
    BY <1>1, SetSubmitting
  <2> HIDE DEF t
  <2>3. u \in Tickets /\ u.box = t.box /\ u.submitting = t.submitting /\ u.post = r
    BY <2>2, SetPost
  <2> HIDE DEF u
  <2> QED
    BY <2>1, <2>2, <2>3, SetMessage
<1>3. TypeOK'
  <2>1. tick' \in [Requests -> 0..MaxTicks]
    BY <1>1 DEF TypeOK, Tickets
  <2> QED
    BY <1>1, <1>2, <2>1 DEF TypeOK
<1>4. \A s \in Requests : s # r => tick'[s] = tick[s]
  BY <1>1 DEF TypeOK
<1>5. tick'[r] = ticket.box
  BY <1>1 DEF TypeOK
<1>6. \A s \in Requests : tick[s] = ticket.box => heard[s] \in Failures
  BY <1>1 DEF BoxOutlivesFailures, Awaits
<1>7. GatewayIsTrue' /\ HeardIsTold'
  BY <1>1, <1>4, <1>5 DEF GatewayIsTrue, HeardIsTold
<1>8. OneMayHavePlaced'
  BY <1>1, <1>4, <1>5, <1>6 DEF OneMayHavePlaced
<1>9. TicksAreCounted'
  BY <1>1, <1>2, <1>4, <1>5 DEF TicksAreCounted
<1>10. BoxOutlivesFailures'
  BY <1>1, <1>2, <1>4, <1>5, <1>6 DEF BoxOutlivesFailures, Awaits, Submitting
<1>11. MessageIsHeard'
  BY <1>2 DEF MessageIsHeard
<1> QED
  BY <1>3, <1>7, <1>8, <1>9, <1>10, <1>11

\* The browser learns of r, and the ticket, if it is the one that waits for r,
\* leaves its "Submitting...".
LEMMA AnswerInv ==
    ASSUME Inv, NEW r \in Requests, NEW report \in {"lost", told[r]}, report # "nothing",
           tick[r] # 0, heard[r] = "nothing", heard' = [heard EXCEPT ![r] = report],
           IF ~Awaits(r) THEN UNCHANGED ticket
           ELSE IF report = "placed" THEN Succeed(r) ELSE Fail(r),
           UNCHANGED <<gatewayVars, pollVars, listed, ticks, tick>>
    PROVE  Inv'
<1>1. report \in Reports /\ heard'[r] = report /\ \A s \in Requests : s # r => heard'[s] = heard[s]
  BY DEF TypeOK
<1>2. \A s \in Requests : heard[s] \in Failures => heard'[s] = heard[s]
  BY <1>1
<1>3. Known'
  BY <1>1, <1>2 DEF GatewayIsTrue, HeardIsTold, OneMayHavePlaced
<1>4. CASE ~Awaits(r)
  <2>1. TypeOK'
    BY <1>1, <1>4 DEF TypeOK
  <2>2. Shown'
    BY <1>2, <1>4 DEF TicksAreCounted, BoxOutlivesFailures, MessageIsHeard, Awaits, Submitting
  <2> QED
    BY <1>3, <2>1, <2>2
<1>5. CASE Awaits(r) /\ report = "placed"
  <2>1. ticket \in Tickets /\ ticket.post = r
    BY <1>5 DEF Awaits, Submitting, TypeOK
  <2>2. PICK shown \in {"result", "none"} :
           ticket' = [ticket EXCEPT !.submitting = FALSE, !.message = shown, !.box = 0]
    BY <1>5 DEF Succeed
  <2>3. /\ ticket' \in Tickets /\ ticket'.box = 0 /\ ticket'.message = shown /\ ticket'.post = r
    <3> DEFINE t == [ticket EXCEPT !.submitting = FALSE]
               u == [t EXCEPT !.message = shown]
    <3>1. ticket' = [u EXCEPT !.box = 0]
      BY <2>2
    <3>2. t \in Tickets /\ t.post = r
      BY <2>1, SetSubmitting
    <3> HIDE DEF t
    <3>3. shown \in {"none", "result", "error"}
      OBVIOUS
    <3>4. u \in Tickets /\ u.post = t.post /\ u.message = shown
      BY <3>2, <3>3, SetMessage
    <3> HIDE DEF u
    <3> QED
      BY <3>1, <3>2, <3>4, SetBox
  <2>4. TypeOK'
    BY <1>1, <2>3 DEF TypeOK
  <2>5. r \in Gateway!Decided
    BY <1>5 DEF GatewayIsTrue
  <2>6. Shown'
    BY <2>3, <2>5 DEF TicksAreCounted, BoxOutlivesFailures, MessageIsHeard, TypeOK
  <2> QED
    BY <1>3, <2>4, <2>6
<1>6. CASE Awaits(r) /\ report # "placed"
  <2>1. ticket \in Tickets /\ ticket # Unmounted /\ ticket.post = r
    BY <1>6 DEF Awaits, Submitting, TypeOK
  <2>2. ticket' = [ticket EXCEPT !.submitting = FALSE, !.message = "error"]
    BY <1>6 DEF Fail
  <2>3. /\ ticket' \in Tickets /\ ticket'.box = ticket.box /\ ticket'.message = "error" /\ ticket'.post = r
    <3> DEFINE t == [ticket EXCEPT !.submitting = FALSE]
    <3>1. ticket' = [t EXCEPT !.message = "error"]
      BY <2>2
    <3>2. t \in Tickets /\ t.box = ticket.box /\ t.post = r
      BY <2>1, SetSubmitting
    <3> HIDE DEF t
    <3> QED
      BY <3>1, <3>2, SetMessage
  <2>4. TypeOK'
    BY <1>1, <2>3 DEF TypeOK
  <2>5. report \in Failures
    BY <1>1, <1>6
  <2>6. \A s \in Requests : tick[s] = ticket.box /\ ticket.box # 0 => heard'[s] \in Failures
    BY <1>1, <1>2, <2>1, <2>5 DEF BoxOutlivesFailures, Awaits
  <2>7. Shown'
    BY <1>1, <2>1, <2>3, <2>5, <2>6 DEF TicksAreCounted, BoxOutlivesFailures, MessageIsHeard
  <2> QED
    BY <1>3, <2>4, <2>7
<1> QED
  BY <1>4, <1>5, <1>6

LEMMA HearInv ==
    ASSUME Inv, NEW r \in Requests, Hear(r)
    PROVE  Inv'
BY AnswerInv DEF Hear

LEMMA LoseAnswerInv ==
    ASSUME Inv, NEW r \in Requests, LoseAnswer(r)
    PROVE  Inv'
<1>1. IF ~Awaits(r) THEN UNCHANGED ticket
      ELSE IF "lost" = "placed" THEN Succeed(r) ELSE Fail(r)
  BY DEF LoseAnswer
<1> QED
  BY <1>1, AnswerInv DEF LoseAnswer

\* The gateway only adds to what it has told and accepted.
LEMMA GatewayStepInv == Inv /\ GatewayStep => Inv'
<1> SUFFICES ASSUME Inv, GatewayStep PROVE Inv'
  OBVIOUS
<1> USE DEF TypeOK, GatewayIsTrue
<1> DEFINE Typed == /\ stage' \in [Requests -> {"new", "open", "over"}]
                    /\ recorded' \subseteq accepted' \union turnedDown'
                    /\ accepted' \subseteq Requests /\ turnedDown' \subseteq Requests
                    /\ told' \in [Requests -> {"nothing", "placed", "notPlaced", "unknown"}]
           Grows == /\ accepted \subseteq accepted' /\ turnedDown \subseteq turnedDown'
                    /\ \A r \in Requests : told[r] # "nothing" => told'[r] = told[r]
           Goal == Typed /\ Grows /\ GatewayIsTrue'
<1>1. UNCHANGED <<pollVars, listed, pageVars, postVars>>
  BY DEF GatewayStep
<1>2. ASSUME NEW r \in Requests, tick[r] # 0, Gateway!Arrive(r)
      PROVE  Goal
  BY <1>1, <1>2 DEF Gateway!Arrive
<1>3. ASSUME NEW r \in Requests, tick[r] # 0, Gateway!Refuse(r)
      PROVE  Goal
  BY <1>1, <1>3 DEF Gateway!Refuse, Gateway!Close
<1>4. ASSUME NEW r \in Requests, Gateway!Accept(r)
      PROVE  Goal
  BY <1>1, <1>4 DEF Gateway!Accept
<1>5. ASSUME NEW r \in Requests, Gateway!TurnDown(r)
      PROVE  Goal
  BY <1>1, <1>5 DEF Gateway!TurnDown
<1>6. ASSUME NEW r \in Requests, Gateway!Confirm(r)
      PROVE  Goal
  BY <1>1, <1>6 DEF Gateway!Confirm, Gateway!Close
<1>7. ASSUME NEW r \in Requests, Gateway!LeaveOpen(r)
      PROVE  Goal
  BY <1>1, <1>7 DEF Gateway!LeaveOpen, Gateway!Close
<1>8. ASSUME Gateway!Crash
      PROVE  Goal
  BY <1>1, <1>8 DEF Gateway!Crash
<1>9. Goal
  BY <1>2, <1>3, <1>4, <1>5, <1>6, <1>7, <1>8 DEF GatewayStep
<1> HIDE DEF Goal
<1>10. TypeOK'
  BY <1>1, <1>9 DEF Goal
<1>11. HeardIsTold' /\ OneMayHavePlaced'
  BY <1>1, <1>9 DEF Goal, HeardIsTold, OneMayHavePlaced
<1>12. Shown'
  BY <1>1, <1>9 DEF Goal, TicksAreCounted, BoxOutlivesFailures, MessageIsHeard, Awaits, Submitting
<1> QED
  BY <1>9, <1>10, <1>11, <1>12 DEF Goal

LEMMA UpdateTyped ==
    ASSUME NEW D, NEW R, NEW f \in [D -> R], NEW x, NEW v \in R
    PROVE  [f EXCEPT ![x] = v] \in [D -> R]
OBVIOUS

\* Polls and accounts change the ticket by what is listed only.
LEMMA PollStepInv ==
    ASSUME Inv, NEW p \in Polls, PollStep(p)
    PROVE  Inv'
<1>1. CASE PollArrives(p)
  <2>1. poll[p] # Idle /\ poll[p].alive \in SUBSET Brokers
    BY <1>1 DEF PollArrives, Answered, TypeOK
  <2>2. listed' \in SUBSET Brokers
    BY <1>1, <2>1 DEF PollArrives
  <2>3. ticket' \in Tickets \union {Unmounted} /\ ticket' \in {Unmounted, ticket, NewTicket(listed')}
    BY <1>1, <2>2, RenderedTyped, RenderedCases DEF PollArrives, TypeOK
  <2>4. TypeOK'
    BY <1>1, <2>2, <2>3 DEF PollArrives, TypeOK
  <2> QED
    BY <1>1, <2>2, <2>3, <2>4, ShownKept DEF PollArrives
<1>2. CASE SendPoll(p) \/ PollFails(p)
  <2>1. poll' \in [Polls -> [unread : SUBSET Brokers, alive : SUBSET Brokers] \union {Idle}]
    <3> DEFINE States == [unread : SUBSET Brokers, alive : SUBSET Brokers] \union {Idle}
    <3>1. [unread |-> Brokers, alive |-> {}] \in States /\ Idle \in States
      OBVIOUS
    <3>2. poll \in [Polls -> States]
      BY DEF TypeOK
    <3> HIDE DEF States
    <3>3. poll' \in [Polls -> States]
      BY <1>2, <3>1, <3>2, UpdateTyped DEF SendPoll, PollFails
    <3> QED
      BY <3>3 DEF States
  <2>2. TypeOK'
    BY <1>2, <2>1 DEF SendPoll, PollFails, TypeOK
  <2> QED
    BY <1>2, <2>2, ShownKept DEF SendPoll, PollFails
<1>3. ASSUME NEW b \in Brokers, ReadAccount(p, b)
      PROVE  Inv'
  <2>1. poll[p] \in [unread : SUBSET Brokers, alive : SUBSET Brokers]
    BY <1>3 DEF ReadAccount, TypeOK, Idle
  <2>2. TypeOK'
    BY <1>3, <2>1 DEF ReadAccount, TypeOK
  <2> QED
    BY <1>3, <2>2, ShownKept DEF ReadAccount
<1> QED
  BY <1>1, <1>2, <1>3 DEF PollStep

LEMMA AccountChangesInv ==
    ASSUME Inv, NEW b \in Brokers, AccountChanges(b)
    PROVE  Inv'
<1>1. TypeOK'
  BY DEF AccountChanges, TypeOK
<1> QED
  BY <1>1, ShownKept DEF AccountChanges

LEMMA NextInv == Inv /\ [Next]_vars => Inv'
<1> SUFFICES ASSUME Inv, [Next]_vars PROVE Inv'
  OBVIOUS
<1>1. CASE UNCHANGED vars
  <2>1. TypeOK'
    BY <1>1 DEF vars, TypeOK
  <2> QED
    BY <1>1, <2>1, ShownKept DEF vars
<1>2. CASE Next
  BY <1>2, LeaveAndReturnInv, ReloadInv, ChooseBrokerInv, AccountChangesInv, TickInv, UntickInv,
     SubmitInv, HearInv, LoseAnswerInv, GatewayStepInv, PollStepInv
     DEF Next
<1> QED
  BY <1>1, <1>2

LEMMA AlwaysInv == Spec => []Inv
BY InitInv, NextInv, PTL DEF Spec

-----------------------------------------------------------------------------
\* The page, the polls and the gateway stay within their types.
THEOREM TypeCorrect == Spec => []TypeOK
BY AlwaysInv, PTL

\* However often the button is pressed, and whatever polls, page changes and
\* lost answers come in between, two orders are placed under one ticking of the
\* box only if the outcome of one was not known (Trade.tsx:90-117, 199-205).
THEOREM OneOrder == Spec => []OneOrderPerTick
<1>1. Inv => OneOrderPerTick
  <2> SUFFICES ASSUME Inv, NEW r \in Requests, NEW s \in Requests, r # s, tick[r] = tick[s],
                      r \in accepted, s \in accepted
               PROVE  heard[r] \in {"unknown", "lost"} \/ heard[s] \in {"unknown", "lost"}
    BY DEF OneOrderPerTick
  <2>1. tick[r] # 0 /\ heard[r] # "notPlaced" /\ heard[s] # "notPlaced"
    BY DEF GatewayIsTrue, HeardIsTold
  <2> QED
    BY <2>1 DEF OneMayHavePlaced
<1> QED
  BY <1>1, AlwaysInv, PTL

\* A result on the ticket is an order a broker decided on, an error one that none has
\* or nobody knows of (Trade.tsx:104-107, 191-197).
THEOREM MessageTrue == Spec => []MessageIsTrue
<1>1. Inv => MessageIsTrue
  BY DEF MessageIsTrue, MessageIsHeard, GatewayIsTrue, HeardIsTold
<1> QED
  BY <1>1, AlwaysInv, PTL
=============================================================================
