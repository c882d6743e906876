------------------------- MODULE QuoteStreamProofs -------------------------
(***************************************************************************)
(* No price is lost or overtaken between OANDA and the page, for any       *)
(* number of streams and any depth of the connections. The argument goes   *)
(* link by link: each place a price can be at holds the predecessor of     *)
(* what the next place before it holds, so that the whole pipeline is in   *)
(* order whichever of its places are empty. The second part shows that     *)
(* this pipeline is one queue to whoever stands outside: each step maps to *)
(* a step of PriceFeed or changes nothing of it.                           *)
(***************************************************************************)
EXTENDS QuoteStream, SequenceTheorems, TLAPS

\* The next price the goroutine will hand over, and the next one written.
NextSent(s) == IF producer[s] = "send" THEN scanned[s] ELSE upstream[s][1]
NextWritten(s) == IF handler[s] = "write" THEN held[s] ELSE NextSent(s)

Reaching(s) == handler[s] # "gone" /\ ws[s] \in {"connecting", "open"}

\* Where the handler is tells what the browser, the goroutine and the socket
\* can be at.
Together(s) ==
    /\ ws[s] = "none" <=> handler[s] = "none"
    /\ handler[s] \in {"none", "checks"} => frames[s] = <<>>
    /\ handler[s] = "checks" => ws[s] # "open"
    /\ handler[s] = "pricing" => Len(frames[s]) <= 1
    /\ handler[s] \in {"none", "checks", "pricing"} => producer[s] = "none"
    /\ tick.stream = s => ws[s] \notin {"none", "connecting"}

\* The answer to the handshake comes first, then prices, then at most a farewell.
FramesInTurn(s) ==
    ws[s] \in {"connecting", "open"} =>
        /\ ws[s] = "connecting" /\ handler[s] \in {"pricing", "relay", "write"} =>
              frames[s] # <<>> /\ frames[s][1].kind = "101"
        /\ \A n \in 1..Len(frames[s]) :
              \/ frames[s][n].kind = "price"
              \/ ws[s] = "connecting" /\ n = 1
              \/ handler[s] = "gone" /\ frames[s][n].kind = "failed"

UpstreamInOrder(s) ==
    /\ InOrder(upstream[s])
    /\ producer[s] = "send" => upstream[s][1] = Successor(scanned[s])

HeldInOrder(s) == handler[s] = "write" => NextSent(s) = Successor(held[s])

FramesInOrder(s) ==
    Reaching(s) =>
        \A n \in 1..Len(frames[s]) : frames[s][n].kind = "price" =>
            (IF n < Len(frames[s]) THEN frames[s][n + 1].price ELSE NextWritten(s))
                = Successor(frames[s][n].price)

ShownInOrder(s) ==
    Reaching(s) /\ tick.stream = s =>
        (IF frames[s] # <<>> THEN frames[s][1].price ELSE NextWritten(s)) = Successor(tick.price)

StreamInv(s) ==
    /\ Together(s) /\ FramesInTurn(s) /\ UpstreamInOrder(s)
    /\ HeldInOrder(s) /\ FramesInOrder(s) /\ ShownInOrder(s)

\* The inductive invariant.
Inv == TypeOK /\ \A s \in Streams : StreamInv(s)

USE StreamAssumption

-----------------------------------------------------------------------------
(* Prices and frames. *)

LEMMA SuccessorTyped == \A n \in Prices : Successor(n) \in Prices
BY DEF Prices, Successor

LEMMA FramesTyped ==
    /\ \A kind \in {"101", "refused", "failed"} : Frame(kind) \in Frames /\ Frame(kind).kind = kind
    /\ \A n \in Prices : /\ PriceFrame(n) \in Frames
                         /\ PriceFrame(n).kind = "price" /\ PriceFrame(n).price = n
    /\ \A f \in Frames : f.kind = "price" => f.price \in Prices
<1>1. \A kind \in {"101", "refused", "failed"} : Frame(kind) \in Frames /\ Frame(kind).kind = kind
  BY DEF Frames, Frame
<1>2. \A n \in Prices : /\ PriceFrame(n) \in Frames
                         /\ PriceFrame(n).kind = "price" /\ PriceFrame(n).price = n
  BY DEF Frames, PriceFrame
<1>3. ASSUME NEW f \in Frames, f.kind = "price"
      PROVE  f.price \in Prices
  <2>1. \/ \E kind \in {"101", "refused", "failed"} : f = Frame(kind)
        \/ \E n \in Prices : f = PriceFrame(n)
    BY DEF Frames
  <2> QED
    BY <1>1, <1>2, <1>3, <2>1
<1> QED
  BY <1>1, <1>2, <1>3

\* What a step of another stream leaves of this one.
LEMMA StreamKept ==
    ASSUME NEW s \in Streams, StreamInv(s),
           \/ ws'[s] = ws[s]
           \/ ws[s] # "none" /\ ws'[s] \in {"aborting", "closing", "closed"},
           UNCHANGED <<handler[s], held[s], producer[s], scanned[s], upstream[s], frames[s]>>,
           tick' = tick \/ tick'.stream # s
    PROVE  StreamInv(s)'
<1>1. Together(s)'
  BY DEF StreamInv, Together
<1>2. Reaching(s)' => Reaching(s) /\ ws'[s] = ws[s]
  BY DEF Reaching
<1>3. FramesInTurn(s)'
  BY <1>2 DEF StreamInv, FramesInTurn
<1>4. UpstreamInOrder(s)' /\ HeldInOrder(s)'
  BY DEF StreamInv, UpstreamInOrder, HeldInOrder, NextSent, InOrder
<1>5. FramesInOrder(s)' /\ ShownInOrder(s)'
  BY <1>2 DEF StreamInv, FramesInOrder, ShownInOrder, NextWritten, NextSent
<1> QED
  BY <1>1, <1>3, <1>4, <1>5 DEF StreamInv

LEMMA InitInv == Init => Inv
<1> SUFFICES ASSUME Init PROVE Inv
  OBVIOUS
<1>1. 0 \in Prices
  BY DEF Prices
<1>2. TypeOK
  <2>1. frames \in [Streams -> Seq(Frames)] /\ \A s \in Streams : Len(frames[s]) = 0
    BY DEF Init
  <2>2. upstream \in [Streams -> Seq(Prices)] /\ \A s \in Streams : Len(upstream[s]) = 1
    BY <1>1 DEF Init
  <2>3. tick \in [stream : Streams \union {NoStream}, price : Prices]
    BY <1>1 DEF Init, NoTick
  <2>4. ASSUME NEW s \in Streams
        PROVE  Len(frames[s]) <= Buffer + 1 /\ Len(upstream[s]) \in 1..Buffer + 1
    <3>1. Len(frames[s]) = 0 /\ Len(upstream[s]) = 1
      BY <2>1, <2>2
    <3>2. 0 <= Buffer + 1 /\ 1 \in 1..Buffer + 1
      OBVIOUS
    <3> QED
      BY <3>1, <3>2
  <2>5. /\ current \in Streams \union {NoStream} /\ connected \in BOOLEAN /\ error \in BOOLEAN
        /\ ws \in [Streams -> {"none", "connecting", "open", "aborting", "closing", "closed"}]
        /\ reset \in [Streams -> BOOLEAN]
        /\ handler \in [Streams -> {"none", "checks", "pricing", "relay", "write", "gone"}]
        /\ producer \in [Streams -> {"none", "scan", "send", "ended"}]
    BY DEF Init
  <2>6. held \in [Streams -> Prices] /\ scanned \in [Streams -> Prices]
    BY <1>1 DEF Init
  <2> QED
    BY <2>1, <2>2, <2>3, <2>4, <2>5, <2>6 DEF TypeOK
<1>3. ASSUME NEW s \in Streams PROVE StreamInv(s)
  BY <1>3 DEF Init, StreamInv, Together, FramesInTurn, UpstreamInOrder, HeldInOrder, FramesInOrder,
     ShownInOrder, Reaching, InOrder, NoTick
<1> QED
  BY <1>2, <1>3 DEF Inv

-----------------------------------------------------------------------------
(* The other streams. *)

StepOf(s) ==
    \/ OnOpen(s) \/ OnMessage(s) \/ OnClose(s)
    \/ HandlerStep(s) \/ ProducerStep(s)
    \/ Price(s) \/ UpstreamEnds(s)

LEMMA OthersUntouched ==
    ASSUME Inv, NEW s \in Streams, StepOf(s), NEW u \in Streams, u # s
    PROVE  /\ UNCHANGED <<ws[u], handler[u], held[u], producer[u], scanned[u], frames[u], upstream[u]>>
           /\ tick' = tick \/ tick'.stream = s
<1>1. UNCHANGED <<ws[u], handler[u], held[u], producer[u], scanned[u]>>
  <2>1. CASE OnOpen(s) \/ OnMessage(s) \/ OnClose(s) \/ Price(s) \/ UpstreamEnds(s)
    BY <2>1 DEF Inv, TypeOK, OnOpen, OnMessage, OnClose, Price, UpstreamEnds, gatewayVars
  <2>2. CASE ProducerStep(s)
    BY <2>2 DEF Inv, TypeOK, ProducerStep, Scan, Send, StopProducer
  <2>3. CASE HandlerStep(s)
    BY <2>3 DEF Inv, TypeOK, HandlerStep, Upgrade, Refuse, StreamPricing, StreamPricingFails, Write, WriteFails,
       TicksEnd, Return
  <2> QED
    BY <2>1, <2>2, <2>3 DEF StepOf
<1>2. frames'[u] = frames[u]
  <2>1. CASE OnOpen(s) \/ OnMessage(s) \/ OnClose(s) \/ Price(s) \/ UpstreamEnds(s)
    BY <2>1 DEF Inv, TypeOK, OnOpen, OnMessage, OnClose, Price, UpstreamEnds
  <2>2. CASE ProducerStep(s)
    BY <2>2 DEF Inv, TypeOK, ProducerStep, Scan, Send, StopProducer
  <2>3. CASE HandlerStep(s)
    BY <2>3 DEF Inv, TypeOK, HandlerStep, Upgrade, Refuse, StreamPricing, StreamPricingFails, Write, WriteFails,
       TicksEnd, ToBrowser
  <2> QED
    BY <2>1, <2>2, <2>3 DEF StepOf
<1>3. upstream'[u] = upstream[u]
  <2>1. CASE OnOpen(s) \/ OnMessage(s) \/ OnClose(s) \/ Price(s) \/ UpstreamEnds(s)
    BY <2>1 DEF Inv, TypeOK, OnOpen, OnMessage, OnClose, Price, UpstreamEnds
  <2>2. CASE ProducerStep(s)
    BY <2>2 DEF Inv, TypeOK, ProducerStep, Scan, Send, StopProducer
  <2>3. CASE HandlerStep(s)
    BY <2>3 DEF HandlerStep, Upgrade, Refuse, StreamPricing, StreamPricingFails, Write, WriteFails, TicksEnd
  <2> QED
    BY <2>1, <2>2, <2>3 DEF StepOf
<1>4. tick' = tick \/ tick'.stream = s
  <2>1. CASE OnMessage(s)
    BY <2>1 DEF OnMessage
  <2>2. CASE ~OnMessage(s)
    BY <2>2 DEF StepOf, OnOpen, OnClose, Price, UpstreamEnds, ProducerStep, Scan, Send, StopProducer, HandlerStep,
       Upgrade, Refuse, StreamPricing, StreamPricingFails, Write, WriteFails, TicksEnd, pageVars
  <2> QED
    BY <2>1, <2>2
<1> QED
  BY <1>1, <1>2, <1>3, <1>4

LEMMA OthersKept ==
    ASSUME Inv, NEW s \in Streams, StepOf(s), NEW u \in Streams, u # s
    PROVE  StreamInv(u)'
BY OthersUntouched, StreamKept DEF Inv

-----------------------------------------------------------------------------
(* Types. *)

LEMMA UpdateTyped ==
    ASSUME NEW D, NEW R, NEW f \in [D -> R], NEW x, NEW v \in R
    PROVE  [f EXCEPT ![x] = v] \in [D -> R]
OBVIOUS

LEMMA FrameTaken ==
    ASSUME Inv, NEW s \in Streams, frames[s] # <<>>,
           frames' = [frames EXCEPT ![s] = Tail(@)]
    PROVE  /\ frames' \in [Streams -> Seq(Frames)] /\ Len(frames'[s]) <= Buffer + 1
           /\ Len(frames'[s]) = Len(frames[s]) - 1
           /\ \A n \in 1..Len(frames'[s]) : frames'[s][n] = frames[s][n + 1]
<1> DEFINE f == frames[s]
<1>1. f \in Seq(Frames) /\ f # <<>> /\ Len(f) <= Buffer + 1
  BY DEF Inv, TypeOK
<1>2. frames'[s] = Tail(f)
  BY DEF Inv, TypeOK
<1> HIDE DEF f
<1>3. /\ Tail(f) \in Seq(Frames) /\ Len(Tail(f)) = Len(f) - 1
      /\ \A n \in 1..Len(Tail(f)) : Tail(f)[n] = f[n + 1]
  BY <1>1, HeadTailProperties
<1>4. frames' \in [Streams -> Seq(Frames)]
  BY <1>3, UpdateTyped DEF Inv, TypeOK, f
<1>5. Len(f) \in Nat
  BY <1>1
<1> QED
  BY <1>1, <1>2, <1>3, <1>4, <1>5 DEF f

LEMMA FrameSent ==
    ASSUME Inv, NEW s \in Streams, NEW frame \in Frames, ToBrowser(s, frame), Len(frames[s]) <= Buffer
    PROVE  /\ frames' \in [Streams -> Seq(Frames)] /\ Len(frames'[s]) <= Buffer + 1
           /\ \/ ws[s] \notin {"connecting", "open"} /\ frames'[s] = frames[s]
              \/ /\ Len(frames'[s]) = Len(frames[s]) + 1
                 /\ frames'[s][Len(frames[s]) + 1] = frame
                 /\ \A n \in 1..Len(frames[s]) : frames'[s][n] = frames[s][n]
<1> DEFINE f == frames[s]
<1>1. f \in Seq(Frames) /\ Len(f) <= Buffer + 1 /\ Len(f) <= Buffer
  BY DEF Inv, TypeOK
<1>2. CASE ws[s] \notin {"connecting", "open"}
  BY <1>1, <1>2 DEF ToBrowser, Inv, TypeOK
<1>3. CASE ws[s] \in {"connecting", "open"}
  <2>1. frames' = [frames EXCEPT ![s] = Append(f, frame)] /\ frames'[s] = Append(f, frame)
    BY <1>3 DEF ToBrowser, Inv, TypeOK
  <2> HIDE DEF f
  <2>2. /\ Append(f, frame) \in Seq(Frames) /\ Len(Append(f, frame)) = Len(f) + 1
        /\ \A n \in 1..Len(f) : Append(f, frame)[n] = f[n]
        /\ Append(f, frame)[Len(f) + 1] = frame
    BY <1>1, AppendProperties
  <2>3. frames' \in [Streams -> Seq(Frames)]
    BY <2>1, <2>2, UpdateTyped DEF Inv, TypeOK
  <2>4. Len(f) \in Nat
    BY <1>1
  <2> QED
    BY <1>1, <2>1, <2>2, <2>3, <2>4 DEF f
<1> QED
  BY <1>2, <1>3

LEMMA OnOpenTyped ==
    ASSUME Inv, NEW s \in Streams, OnOpen(s)
    PROVE  TypeOK'
<1>1. /\ frames' \in [Streams -> Seq(Frames)]
      /\ \A u \in Streams : Len(frames'[u]) <= Buffer + 1
  BY FrameTaken DEF OnOpen, Inv, TypeOK
<1>2. UNCHANGED <<current, tick, reset, handler, held, producer, scanned, upstream>>
  BY DEF OnOpen, gatewayVars
<1>3. ws' \in [Streams -> {"none", "connecting", "open", "aborting", "closing", "closed"}]
  BY DEF OnOpen, Inv, TypeOK
<1> QED
  BY <1>1, <1>2, <1>3 DEF OnOpen, Inv, TypeOK

LEMMA OnMessageTyped ==
    ASSUME Inv, NEW s \in Streams, OnMessage(s)
    PROVE  TypeOK'
<1>1. /\ frames' \in [Streams -> Seq(Frames)]
      /\ \A u \in Streams : Len(frames'[u]) <= Buffer + 1
  BY FrameTaken DEF OnMessage, Inv, TypeOK
<1>2. UNCHANGED <<current, connected, ws, reset, handler, held, producer, scanned, upstream>>
  BY DEF OnMessage, gatewayVars
<1>3. frames[s] \in Seq(Frames) /\ frames[s] # <<>>
  BY DEF OnMessage, Inv, TypeOK
<1>4. Head(frames[s]) = frames[s][1] /\ 1 \in 1..Len(frames[s]) /\ frames[s][1] \in Frames
  BY <1>3
<1>5. Head(frames[s]).kind # "failed" => Head(frames[s]).price \in Prices
  BY <1>4, FramesTyped DEF OnMessage, Inv, StreamInv, FramesInTurn
<1>6. tick' \in [stream : Streams \union {NoStream}, price : Prices] /\ error' \in BOOLEAN
  <2>1. CASE Head(frames[s]).kind = "failed"
    BY <2>1 DEF OnMessage, Inv, TypeOK
  <2>2. CASE Head(frames[s]).kind # "failed"
    <3>1. tick' = [stream |-> s, price |-> Head(frames[s]).price] /\ error' = FALSE
      BY <2>2 DEF OnMessage
    <3> QED
      BY <1>5, <2>2, <3>1
  <2> QED
    BY <2>1, <2>2
<1> QED
  BY <1>1, <1>2, <1>6 DEF Inv, TypeOK

LEMMA OnCloseTyped ==
    ASSUME Inv, NEW s \in Streams, OnClose(s)
    PROVE  TypeOK'
<1>1. frames' \in [Streams -> Seq(Frames)]
  BY UpdateTyped DEF OnClose, Inv, TypeOK
<1>2. ASSUME NEW u \in Streams
      PROVE  Len(frames'[u]) <= Buffer + 1
  <2>1. CASE u = s
    <3>1. Len(frames'[u]) = 0
      BY <2>1 DEF OnClose, Inv, TypeOK
    <3> QED
      BY <3>1
  <2>2. CASE u # s
    BY <2>2 DEF OnClose, Inv, TypeOK
  <2> QED
    BY <2>1, <2>2
<1>3. UNCHANGED <<current, tick, reset, handler, held, producer, scanned, upstream>>
  BY DEF OnClose, gatewayVars
<1>4. ws' \in [Streams -> {"none", "connecting", "open", "aborting", "closing", "closed"}] /\ connected' \in BOOLEAN
  BY DEF OnClose, Inv, TypeOK
<1>5. error' \in BOOLEAN
  BY DEF OnClose, Inv, TypeOK
<1> QED
  BY <1>1, <1>2, <1>3, <1>4, <1>5 DEF Inv, TypeOK

\* A step of the handler that sends no frame, or one that fits.
LEMMA HandlerTyped ==
    ASSUME Inv, NEW s \in Streams, HandlerStep(s)
    PROVE  TypeOK'
<1>1. /\ frames' \in [Streams -> Seq(Frames)]
      /\ \A u \in Streams : Len(frames'[u]) <= Buffer + 1
  <2>1. ASSUME NEW frame \in Frames, ToBrowser(s, frame), Len(frames[s]) <= Buffer
        PROVE  /\ frames' \in [Streams -> Seq(Frames)]
               /\ \A u \in Streams : Len(frames'[u]) <= Buffer + 1
    <3>1. \A u \in Streams \ {s} : frames'[u] = frames[u]
      BY <2>1 DEF ToBrowser, Inv, TypeOK
    <3> QED
      BY <2>1, <3>1, FrameSent DEF Inv, TypeOK
  <2>2. handler[s] \in {"checks", "pricing"} => Len(frames[s]) <= Buffer
    <3>1. CASE handler[s] = "checks"
      <4>1. Len(frames[s]) = 0
        BY <3>1 DEF Inv, StreamInv, Together
      <4> QED
        BY <4>1
    <3>2. CASE handler[s] = "pricing"
      <4>1. Len(frames[s]) <= 1 /\ Len(frames[s]) \in Nat
        BY <3>2 DEF Inv, StreamInv, Together, TypeOK
      <4> QED
        BY <4>1
    <3> QED
      BY <3>1, <3>2
  <2>3. CASE Upgrade(s)
    BY <2>1, <2>2, <2>3, FramesTyped DEF Upgrade
  <2>4. CASE Refuse(s)
    BY <2>1, <2>2, <2>4, FramesTyped DEF Refuse
  <2>5. CASE StreamPricingFails(s)
    BY <2>1, <2>2, <2>5, FramesTyped DEF StreamPricingFails
  <2>6. CASE Write(s)
    <3>1. held[s] \in Prices
      BY DEF Inv, TypeOK
    <3> QED
      BY <2>1, <2>6, <3>1, FramesTyped DEF Write
  <2>7. CASE StreamPricing(s) \/ WriteFails(s) \/ TicksEnd(s)
    BY <2>7 DEF StreamPricing, WriteFails, TicksEnd, Inv, TypeOK
  <2> QED
    BY <2>3, <2>4, <2>5, <2>6, <2>7 DEF HandlerStep
<1>2. /\ handler' \in [Streams -> {"none", "checks", "pricing", "relay", "write", "gone"}]
      /\ producer' \in [Streams -> {"none", "scan", "send", "ended"}]
      /\ reset' \in [Streams -> BOOLEAN]
  BY DEF HandlerStep, Upgrade, Refuse, StreamPricing, StreamPricingFails, Write, WriteFails, TicksEnd, Return,
     Inv, TypeOK
<1>3. 0 \in Prices
  BY DEF Prices
<1>4. held' \in [Streams -> Prices]
  BY <1>3, UpdateTyped DEF HandlerStep, Upgrade, Refuse, StreamPricing, StreamPricingFails, Write, WriteFails, TicksEnd,
     Return, Inv, TypeOK
<1>5. UNCHANGED <<current, connected, tick, error, ws, scanned, upstream>>
  BY DEF HandlerStep, Upgrade, Refuse, StreamPricing, StreamPricingFails, Write, WriteFails, TicksEnd, pageVars
<1> QED
  BY <1>1, <1>2, <1>4, <1>5 DEF Inv, TypeOK

\* upstream: the goroutine takes a price, OANDA sends one.
LEMMA PriceTaken ==
    ASSUME Inv, NEW s \in Streams, Len(upstream[s]) > 1,
           upstream' = [upstream EXCEPT ![s] = Tail(@)]
    PROVE  /\ upstream' \in [Streams -> Seq(Prices)] /\ Len(upstream'[s]) \in 1..Buffer + 1
           /\ Len(upstream'[s]) = Len(upstream[s]) - 1
           /\ \A n \in 1..Len(upstream'[s]) : upstream'[s][n] = upstream[s][n + 1]
<1> DEFINE f == upstream[s]
<1>1. f \in Seq(Prices) /\ f # <<>> /\ Len(f) \in 1..Buffer + 1 /\ Len(f) > 1
  BY DEF Inv, TypeOK
<1>2. upstream'[s] = Tail(f)
  BY DEF Inv, TypeOK
<1> HIDE DEF f
<1>3. /\ Tail(f) \in Seq(Prices) /\ Len(Tail(f)) = Len(f) - 1
      /\ \A n \in 1..Len(Tail(f)) : Tail(f)[n] = f[n + 1]
  BY <1>1, HeadTailProperties
<1>4. upstream' \in [Streams -> Seq(Prices)]
  BY <1>3, UpdateTyped DEF Inv, TypeOK, f
<1>5. Len(f) - 1 \in 1..Buffer + 1
  BY <1>1
<1> QED
  BY <1>2, <1>3, <1>4, <1>5 DEF f

LEMMA PriceSent ==
    ASSUME Inv, NEW s \in Streams, Price(s)
    PROVE  /\ upstream' \in [Streams -> Seq(Prices)] /\ Len(upstream'[s]) \in 1..Buffer + 1
           /\ Len(upstream'[s]) = Len(upstream[s]) + 1
           /\ upstream'[s][Len(upstream[s]) + 1] = Successor(upstream[s][Len(upstream[s])])
           /\ \A n \in 1..Len(upstream[s]) : upstream'[s][n] = upstream[s][n]
<1> DEFINE f == upstream[s]
           next == Successor(f[Len(f)])
<1>1. f \in Seq(Prices) /\ Len(f) \in 1..Buffer + 1 /\ Len(f) <= Buffer
  BY DEF Price, Inv, TypeOK
<1>2. upstream' = [upstream EXCEPT ![s] = Append(f, next)] /\ upstream'[s] = Append(f, next)
  BY DEF Price, Inv, TypeOK
<1>3. next \in Prices
  BY <1>1, SuccessorTyped
<1> HIDE DEF f, next
<1>4. /\ Append(f, next) \in Seq(Prices) /\ Len(Append(f, next)) = Len(f) + 1
      /\ \A n \in 1..Len(f) : Append(f, next)[n] = f[n]
      /\ Append(f, next)[Len(f) + 1] = next
  BY <1>1, <1>3, AppendProperties
<1>5. upstream' \in [Streams -> Seq(Prices)]
  BY <1>2, <1>4, UpdateTyped DEF Inv, TypeOK
<1>6. Len(f) + 1 \in 1..Buffer + 1
  BY <1>1
<1> QED
  BY <1>2, <1>4, <1>5, <1>6 DEF f, next

LEMMA ProducerTyped ==
    ASSUME Inv, NEW s \in Streams, ProducerStep(s) \/ Price(s) \/ UpstreamEnds(s)
    PROVE  TypeOK'
<1>1. /\ upstream' \in [Streams -> Seq(Prices)]
      /\ \A u \in Streams : Len(upstream'[u]) \in 1..Buffer + 1
  <2>1. \A u \in Streams \ {s} : upstream'[u] = upstream[u]
    BY DEF ProducerStep, Scan, Send, StopProducer, Price, UpstreamEnds, Inv, TypeOK
  <2>2. CASE Scan(s)
    BY <2>1, <2>2, PriceTaken DEF Scan, Inv, TypeOK
  <2>3. CASE Price(s)
    BY <2>1, <2>3, PriceSent DEF Inv, TypeOK
  <2>4. CASE ~Scan(s) /\ ~Price(s)
    BY <2>4 DEF ProducerStep, Send, StopProducer, UpstreamEnds, Inv, TypeOK
  <2> QED
    BY <2>2, <2>3, <2>4
<1>2. /\ handler' \in [Streams -> {"none", "checks", "pricing", "relay", "write", "gone"}]
      /\ producer' \in [Streams -> {"none", "scan", "send", "ended"}]
  BY DEF ProducerStep, Scan, Send, StopProducer, Price, UpstreamEnds, gatewayVars, Inv, TypeOK
<1>3. 0 \in Prices
  BY DEF Prices
<1>4. held' \in [Streams -> Prices]
  BY UpdateTyped DEF ProducerStep, Scan, Send, StopProducer, Price, UpstreamEnds, gatewayVars, Inv, TypeOK
<1>5. scanned' \in [Streams -> Prices]
  <2>1. CASE Scan(s)
    <3>1. Head(upstream[s]) \in Prices
      BY <2>1, HeadTailProperties DEF Scan, Inv, TypeOK
    <3> QED
      BY <2>1, <3>1 DEF Scan, Inv, TypeOK
  <2>2. CASE ~Scan(s)
    BY <1>3, <2>2 DEF ProducerStep, Send, StopProducer, Price, UpstreamEnds, gatewayVars, Inv, TypeOK
  <2> QED
    BY <2>1, <2>2
<1>6. UNCHANGED <<current, connected, tick, error, ws, frames, reset>>
  BY DEF ProducerStep, Scan, Send, StopProducer, Price, UpstreamEnds, pageVars
<1> QED
  BY <1>1, <1>2, <1>4, <1>5, <1>6 DEF Inv, TypeOK

-----------------------------------------------------------------------------
(* The stream of a step. *)

\* The browser takes the first frame.
LEMMA FramesStayInOrder ==
    ASSUME NEW s \in Streams, FramesInOrder(s), Reaching(s)' => Reaching(s),
           NextWritten(s)' = NextWritten(s),
           Len(frames[s]) \in Nat, Len(frames'[s]) = Len(frames[s]) - 1,
           \A n \in 1..Len(frames'[s]) : frames'[s][n] = frames[s][n + 1]
    PROVE  FramesInOrder(s)'
<1> SUFFICES ASSUME Reaching(s), NEW n \in 1..Len(frames'[s]), frames'[s][n].kind = "price"
             PROVE  (IF n < Len(frames'[s]) THEN frames'[s][n + 1].price ELSE NextWritten(s))
                        = Successor(frames'[s][n].price)
  BY DEF FramesInOrder
<1>1. n + 1 \in 1..Len(frames[s]) /\ frames[s][n + 1] = frames'[s][n]
  OBVIOUS
<1>2. (IF n + 1 < Len(frames[s]) THEN frames[s][n + 1 + 1].price ELSE NextWritten(s))
          = Successor(frames'[s][n].price)
  BY <1>1 DEF FramesInOrder
<1>3. CASE n < Len(frames'[s])
  <2>1. n + 1 \in 1..Len(frames'[s]) /\ n + 1 < Len(frames[s])
    BY <1>3
  <2> QED
    BY <1>2, <1>3, <2>1
<1>4. CASE ~(n < Len(frames'[s]))
  BY <1>2, <1>4
<1> QED
  BY <1>3, <1>4

LEMMA OnOpenInv ==
    ASSUME Inv, NEW s \in Streams, OnOpen(s)
    PROVE  StreamInv(s)'
<1>1. /\ ws[s] = "connecting" /\ ws'[s] = "open" /\ frames[s] # <<>>
      /\ UNCHANGED <<tick, handler, held, producer, scanned, upstream>>
  BY DEF OnOpen, gatewayVars, Inv, TypeOK
<1>2. /\ Len(frames'[s]) = Len(frames[s]) - 1 /\ Len(frames[s]) \in Nat
      /\ \A n \in 1..Len(frames'[s]) : frames'[s][n] = frames[s][n + 1]
  BY <1>1, FrameTaken DEF OnOpen, Inv, TypeOK
<1>3. tick.stream # s /\ handler[s] \notin {"none", "checks"}
  BY <1>1 DEF Inv, StreamInv, Together
<1>4. Together(s)'
  BY <1>1, <1>2, <1>3 DEF Inv, StreamInv, Together
<1>5. FramesInTurn(s)'
  BY <1>1, <1>2 DEF Inv, StreamInv, FramesInTurn
<1>6. UpstreamInOrder(s)' /\ HeldInOrder(s)'
  BY <1>1 DEF Inv, StreamInv, UpstreamInOrder, HeldInOrder, NextSent
<1>7. FramesInOrder(s)'
  <2>1. NextWritten(s)' = NextWritten(s) /\ (Reaching(s)' => Reaching(s))
    BY <1>1 DEF NextWritten, NextSent, Reaching
  <2> QED
    BY <1>2, <2>1, FramesStayInOrder DEF Inv, StreamInv
<1>8. ShownInOrder(s)'
  BY <1>1, <1>3 DEF ShownInOrder
<1> QED
  BY <1>4, <1>5, <1>6, <1>7, <1>8 DEF StreamInv

LEMMA OnMessageInv ==
    ASSUME Inv, NEW s \in Streams, OnMessage(s)
    PROVE  StreamInv(s)'
<1>1. /\ ws[s] = "open" /\ frames[s] # <<>>
      /\ UNCHANGED <<ws, handler, held, producer, scanned, upstream>>
  BY DEF OnMessage, gatewayVars
<1>2. /\ Len(frames'[s]) = Len(frames[s]) - 1 /\ Len(frames[s]) \in Nat
      /\ frames'[s] \in Seq(Frames)
      /\ \A n \in 1..Len(frames'[s]) : frames'[s][n] = frames[s][n + 1]
  BY <1>1, FrameTaken DEF OnMessage, Inv, TypeOK
<1>3. Head(frames[s]) = frames[s][1] /\ 1 \in 1..Len(frames[s])
  BY <1>1 DEF Inv, TypeOK
<1>4. Together(s)'
  BY <1>1, <1>2 DEF Inv, StreamInv, Together
<1>5. FramesInTurn(s)'
  BY <1>1, <1>2 DEF Inv, StreamInv, FramesInTurn
<1>6. UpstreamInOrder(s)' /\ HeldInOrder(s)'
  BY <1>1 DEF Inv, StreamInv, UpstreamInOrder, HeldInOrder, NextSent
<1>7. FramesInOrder(s)'
  <2>1. NextWritten(s)' = NextWritten(s) /\ (Reaching(s)' => Reaching(s))
    BY <1>1 DEF NextWritten, NextSent, Reaching
  <2> QED
    BY <1>2, <2>1, FramesStayInOrder DEF Inv, StreamInv
<1>8. ShownInOrder(s)'
  <2> SUFFICES ASSUME handler[s] # "gone"
               PROVE  (IF frames'[s] # <<>> THEN frames'[s][1].price ELSE NextWritten(s)) = Successor(tick'.price)
    BY <1>1 DEF ShownInOrder, Reaching, NextWritten, NextSent
  <2>1. frames[s][1].kind = "price"
    BY <1>1, <1>3 DEF Inv, StreamInv, FramesInTurn
  <2>2. tick'.price = frames[s][1].price
    BY <1>3, <2>1 DEF OnMessage
  <2>3. (IF 1 < Len(frames[s]) THEN frames[s][2].price ELSE NextWritten(s)) = Successor(frames[s][1].price)
    BY <1>1, <1>3, <2>1 DEF Inv, StreamInv, FramesInOrder, Reaching
  <2>4. CASE frames'[s] # <<>>
    <3>1. 1 < Len(frames[s]) /\ frames'[s][1] = frames[s][2]
      BY <1>2, <2>4
    <3> QED
      BY <2>2, <2>3, <2>4, <3>1
  <2>5. CASE frames'[s] = <<>>
    <3>1. ~(1 < Len(frames[s]))
      BY <1>2, <2>5
    <3> QED
      BY <2>2, <2>3, <2>5, <3>1
  <2> QED
    BY <2>4, <2>5
<1> QED
  BY <1>4, <1>5, <1>6, <1>7, <1>8 DEF StreamInv

LEMMA OnCloseInv ==
    ASSUME Inv, NEW s \in Streams, OnClose(s)
    PROVE  StreamInv(s)'
<1>1. /\ ws[s] # "none" /\ ws'[s] = "closed" /\ frames'[s] = <<>>
      /\ UNCHANGED <<tick, handler, held, producer, scanned, upstream>>
  BY DEF OnClose, gatewayVars, Inv, TypeOK
<1>2. Together(s)'
  BY <1>1 DEF Inv, StreamInv, Together
<1>3. UpstreamInOrder(s)' /\ HeldInOrder(s)'
  BY <1>1 DEF Inv, StreamInv, UpstreamInOrder, HeldInOrder, NextSent
<1> QED
  BY <1>1, <1>2, <1>3 DEF StreamInv, FramesInTurn, FramesInOrder, ShownInOrder, Reaching

\* The steps that leave the browser's side alone and hand a price on.
LEMMA HandedOn ==
    ASSUME NEW s \in Streams, StreamInv(s),
           UNCHANGED <<ws[s], frames[s], tick>>,
           handler[s] = "gone" => handler'[s] = "gone",
           handler'[s] # "gone" => NextWritten(s)' = NextWritten(s)
    PROVE  FramesInOrder(s)' /\ ShownInOrder(s)'
BY DEF StreamInv, FramesInOrder, ShownInOrder, Reaching

LEMMA ScanInv ==
    ASSUME Inv, NEW s \in Streams, Scan(s)
    PROVE  StreamInv(s)'
<1>1. /\ producer[s] = "scan" /\ producer'[s] = "send" /\ UNCHANGED <<tick, ws, frames, handler, held>>
  BY DEF Scan, pageVars, Inv, TypeOK
<1>2. /\ Len(upstream[s]) > 1 /\ Len(upstream[s]) \in Nat
      /\ Len(upstream'[s]) = Len(upstream[s]) - 1
      /\ \A n \in 1..Len(upstream'[s]) : upstream'[s][n] = upstream[s][n + 1]
  BY PriceTaken DEF Scan, Inv, TypeOK
<1>3. scanned'[s] = upstream[s][1]
  BY DEF Scan, Inv, TypeOK
<1>4. Together(s)' /\ FramesInTurn(s)'
  BY <1>1 DEF Inv, StreamInv, Together, FramesInTurn
<1>5. InOrder(upstream[s])
  BY DEF Inv, StreamInv, UpstreamInOrder
<1>6. InOrder(upstream'[s])
  BY <1>2, <1>5 DEF InOrder
<1>7. upstream'[s][1] = Successor(scanned'[s])
  <2>1. upstream[s][1 + 1] = Successor(upstream[s][1]) /\ upstream'[s][1] = upstream[s][1 + 1]
    BY <1>2, <1>5 DEF InOrder
  <2> QED
    BY <1>3, <2>1
<1>8. NextSent(s)' = NextSent(s) /\ NextWritten(s)' = NextWritten(s)
  BY <1>1, <1>3 DEF NextSent, NextWritten
<1>9. HeldInOrder(s)'
  BY <1>1, <1>8 DEF Inv, StreamInv, HeldInOrder
<1> QED
  BY <1>1, <1>4, <1>6, <1>7, <1>8, <1>9, HandedOn DEF Inv, StreamInv, UpstreamInOrder

LEMMA PriceInv ==
    ASSUME Inv, NEW s \in Streams, Price(s)
    PROVE  StreamInv(s)'
<1>1. UNCHANGED <<tick, ws, frames, handler, held, producer, scanned>>
  BY DEF Price, pageVars, gatewayVars
<1>2. /\ Len(upstream[s]) \in Nat \ {0}
      /\ Len(upstream'[s]) = Len(upstream[s]) + 1
      /\ upstream'[s][Len(upstream[s]) + 1] = Successor(upstream[s][Len(upstream[s])])
      /\ \A n \in 1..Len(upstream[s]) : upstream'[s][n] = upstream[s][n]
  BY PriceSent DEF Inv, TypeOK
<1>3. InOrder(upstream[s])
  BY DEF Inv, StreamInv, UpstreamInOrder
<1>4. InOrder(upstream'[s])
  BY <1>2, <1>3 DEF InOrder
<1>5. upstream'[s][1] = upstream[s][1]
  BY <1>2
<1>6. NextSent(s)' = NextSent(s) /\ NextWritten(s)' = NextWritten(s)
  BY <1>1, <1>5 DEF NextSent, NextWritten
<1>7. Together(s)' /\ FramesInTurn(s)' /\ HeldInOrder(s)'
  BY <1>1, <1>6 DEF Inv, StreamInv, Together, FramesInTurn, HeldInOrder
<1> QED
  BY <1>1, <1>4, <1>5, <1>6, <1>7, HandedOn DEF Inv, StreamInv, UpstreamInOrder

LEMMA SendInv ==
    ASSUME Inv, NEW s \in Streams, Send(s)
    PROVE  StreamInv(s)'
<1>1. /\ producer[s] = "send" /\ producer'[s] = "scan" /\ handler[s] = "relay" /\ handler'[s] = "write"
      /\ held'[s] = scanned[s] /\ UNCHANGED <<tick, ws, frames, upstream>>
  BY DEF Send, pageVars, Inv, TypeOK
<1>2. NextWritten(s)' = NextWritten(s)
  BY <1>1 DEF NextSent, NextWritten
<1>3. Together(s)' /\ FramesInTurn(s)'
  BY <1>1 DEF Inv, StreamInv, Together, FramesInTurn
<1>4. UpstreamInOrder(s)' /\ HeldInOrder(s)'
  BY <1>1 DEF Inv, StreamInv, UpstreamInOrder, HeldInOrder, NextSent
<1> QED
  BY <1>1, <1>2, <1>3, <1>4, HandedOn DEF Inv, StreamInv

\* The goroutine ends.
LEMMA EndInv ==
    ASSUME Inv, NEW s \in Streams, StopProducer(s) \/ UpstreamEnds(s)
    PROVE  StreamInv(s)'
<1>1. /\ producer[s] # "none" /\ producer'[s] = "ended"
      /\ producer[s] = "scan" \/ handler[s] = "gone"
      /\ UNCHANGED <<tick, ws, frames, handler, held, upstream>>
  BY DEF StopProducer, UpstreamEnds, Cancelled, pageVars, Inv, TypeOK
<1>2. handler[s] # "gone" => NextSent(s)' = NextSent(s) /\ NextWritten(s)' = NextWritten(s)
  BY <1>1 DEF NextSent, NextWritten
<1>3. Together(s)' /\ FramesInTurn(s)'
  BY <1>1 DEF Inv, StreamInv, Together, FramesInTurn
<1>4. UpstreamInOrder(s)'
  BY <1>1 DEF Inv, StreamInv, UpstreamInOrder
<1>5. HeldInOrder(s)'
  BY <1>1, <1>2 DEF Inv, StreamInv, HeldInOrder
<1> QED
  BY <1>1, <1>2, <1>3, <1>4, <1>5, HandedOn DEF Inv, StreamInv

LEMMA UpgradeInv ==
    ASSUME Inv, NEW s \in Streams, Upgrade(s)
    PROVE  StreamInv(s)'
<1>1. /\ handler[s] = "checks" /\ handler'[s] = "pricing" /\ UNCHANGED <<tick, ws, producer, held, scanned, upstream>>
      /\ ToBrowser(s, Frame("101"))
  BY DEF Upgrade, pageVars, Inv, TypeOK
<1>2. /\ ws[s] \notin {"none", "open"} /\ producer[s] = "none" /\ frames[s] = <<>> /\ Len(frames[s]) = 0
  BY <1>1 DEF Inv, StreamInv, Together
<1>3. \/ ws[s] \notin {"connecting", "open"} /\ frames'[s] = <<>>
      \/ Len(frames'[s]) = 1 /\ frames'[s][1] = Frame("101")
  <2>1. Len(frames[s]) <= Buffer /\ Frame("101") \in Frames
    BY <1>2, FramesTyped
  <2>2. \/ ws[s] \notin {"connecting", "open"} /\ frames'[s] = frames[s]
        \/ /\ Len(frames'[s]) = Len(frames[s]) + 1
           /\ frames'[s][Len(frames[s]) + 1] = Frame("101")
    BY <1>1, <2>1, FrameSent
  <2>3. Len(frames[s]) + 1 = 1
    BY <1>2
  <2> QED
    BY <1>2, <2>2, <2>3
<1>4. Frame("101").kind = "101"
  BY FramesTyped
<1>5. frames'[s] \in Seq(Frames)
  BY HandlerTyped DEF HandlerStep, TypeOK
<1>6. Together(s)'
  <2>1. Len(frames'[s]) <= 1
    <3>1. CASE frames'[s] = <<>>
      <4>1. Len(frames'[s]) = 0
        BY <3>1
      <4> QED
        BY <4>1
    <3>2. CASE Len(frames'[s]) = 1
      BY <3>2
    <3> QED
      BY <1>3, <3>1, <3>2
  <2>2. tick.stream # s \/ ws[s] \notin {"none", "connecting"}
    BY <1>1 DEF Inv, StreamInv, Together
  <2> QED
    BY <1>1, <1>2, <2>1, <2>2 DEF Together
<1>7. FramesInTurn(s)'
  BY <1>1, <1>2, <1>3, <1>4, <1>5 DEF FramesInTurn
<1>8. UpstreamInOrder(s)' /\ HeldInOrder(s)'
  BY <1>1 DEF Inv, StreamInv, UpstreamInOrder, HeldInOrder, NextSent
<1>9. FramesInOrder(s)'
  BY <1>1, <1>2, <1>3, <1>4 DEF FramesInOrder, Reaching
<1>10. ShownInOrder(s)'
  BY <1>1, <1>2 DEF ShownInOrder, Reaching, Inv, StreamInv, Together
<1> QED
  BY <1>6, <1>7, <1>8, <1>9, <1>10 DEF StreamInv

LEMMA StreamPricingInv ==
    ASSUME Inv, NEW s \in Streams, StreamPricing(s)
    PROVE  StreamInv(s)'
<1>1. /\ handler[s] = "pricing" /\ handler'[s] = "relay" /\ producer'[s] = "scan"
      /\ UNCHANGED <<tick, ws, frames, held, scanned, upstream>>
  BY DEF StreamPricing, pageVars, Inv, TypeOK
<1>2. producer[s] = "none"
  BY <1>1 DEF Inv, StreamInv, Together
<1>3. NextSent(s)' = NextSent(s) /\ NextWritten(s)' = NextWritten(s)
  BY <1>1, <1>2 DEF NextSent, NextWritten
<1>4. Together(s)' /\ FramesInTurn(s)'
  BY <1>1 DEF Inv, StreamInv, Together, FramesInTurn
<1>5. UpstreamInOrder(s)' /\ HeldInOrder(s)'
  BY <1>1 DEF Inv, StreamInv, UpstreamInOrder, HeldInOrder
<1> QED
  BY <1>1, <1>3, <1>4, <1>5, HandedOn DEF Inv, StreamInv

LEMMA WriteInv ==
    ASSUME Inv, NEW s \in Streams, Write(s)
    PROVE  StreamInv(s)'
<1> DEFINE l == Len(frames[s])
<1>1. /\ handler[s] = "write" /\ handler'[s] = "relay" /\ UNCHANGED <<tick, ws, producer, scanned, upstream>>
      /\ ToBrowser(s, PriceFrame(held[s])) /\ l <= Buffer
  BY DEF Write, pageVars, Inv, TypeOK
<1>2. held[s] \in Prices /\ l \in Nat /\ frames[s] \in Seq(Frames)
  BY DEF Inv, TypeOK
<1>3. /\ PriceFrame(held[s]) \in Frames
      /\ PriceFrame(held[s]).kind = "price" /\ PriceFrame(held[s]).price = held[s]
  BY <1>2, FramesTyped
<1>4. \/ ws[s] \notin {"connecting", "open"} /\ frames'[s] = frames[s]
      \/ /\ Len(frames'[s]) = l + 1 /\ frames'[s][l + 1] = PriceFrame(held[s])
         /\ \A n \in 1..l : frames'[s][n] = frames[s][n]
  BY <1>1, <1>3, FrameSent
<1>5. frames'[s] \in Seq(Frames)
  BY HandlerTyped DEF HandlerStep, TypeOK
<1>6. NextWritten(s)' = Successor(held[s]) /\ NextSent(s)' = NextSent(s)
  BY <1>1 DEF NextWritten, NextSent, Inv, StreamInv, HeldInOrder
<1>7. NextWritten(s) = held[s]
  BY <1>1 DEF NextWritten
<1>8. Together(s)' /\ UpstreamInOrder(s)' /\ HeldInOrder(s)'
  BY <1>1 DEF Inv, StreamInv, Together, UpstreamInOrder, HeldInOrder
<1>9. CASE ws[s] \notin {"connecting", "open"}
  BY <1>1, <1>8, <1>9 DEF StreamInv, FramesInTurn, FramesInOrder, ShownInOrder, Reaching
<1>10. CASE ws[s] \in {"connecting", "open"}
  <2>1. /\ Len(frames'[s]) = l + 1 /\ frames'[s][l + 1] = PriceFrame(held[s])
        /\ \A n \in 1..l : frames'[s][n] = frames[s][n]
    BY <1>4, <1>10
  <2>2. FramesInTurn(s)'
    <3>1. ws[s] = "connecting" => frames'[s] # <<>> /\ frames'[s][1].kind = "101"
      <4>1. ws[s] = "connecting" => 1 \in 1..l /\ frames[s][1].kind = "101"
        BY <1>1, <1>2 DEF Inv, StreamInv, FramesInTurn
      <4> QED
        BY <1>2, <1>5, <2>1, <4>1
    <3>2. ASSUME NEW n \in 1..Len(frames'[s])
          PROVE  frames'[s][n].kind = "price" \/ (ws[s] = "connecting" /\ n = 1)
      <4>1. CASE n = l + 1
        BY <1>3, <2>1, <4>1
      <4>2. CASE n # l + 1
        <5>1. n \in 1..l
          BY <1>2, <2>1, <4>2
        <5> QED
          BY <1>1, <1>10, <2>1, <5>1 DEF Inv, StreamInv, FramesInTurn
      <4> QED
        BY <4>1, <4>2
    <3> QED
      BY <1>1, <3>1, <3>2 DEF FramesInTurn
  <2>3. ASSUME NEW n \in 1..Len(frames'[s]), frames'[s][n].kind = "price"
        PROVE  (IF n < Len(frames'[s]) THEN frames'[s][n + 1].price ELSE NextWritten(s)')
                   = Successor(frames'[s][n].price)
    <3>1. CASE n = l + 1
      BY <1>2, <1>3, <1>6, <2>1, <3>1
    <3>2. CASE n = l
      <4>1. NextWritten(s) = Successor(frames[s][n].price)
        <5>1. Reaching(s) /\ FramesInOrder(s)
          BY <1>1, <1>10 DEF Inv, StreamInv, Reaching
        <5>2. n \in 1..l /\ ~(n < l) /\ frames[s][n].kind = "price"
          BY <1>2, <2>1, <2>3, <3>2
        <5> QED
          BY <5>1, <5>2 DEF FramesInOrder
      <4> QED
        BY <1>2, <1>3, <1>7, <2>1, <3>2, <4>1
    <3>3. CASE n < l
      <4>1. n \in 1..l /\ n + 1 \in 1..l /\ n < l + 1
        BY <1>2, <3>3
      <4>2. frames[s][n + 1].price = Successor(frames[s][n].price)
        <5>1. Reaching(s) /\ FramesInOrder(s)
          BY <1>1, <1>10 DEF Inv, StreamInv, Reaching
        <5>2. frames[s][n].kind = "price"
          BY <2>1, <2>3, <4>1
        <5> QED
          BY <3>3, <4>1, <5>1, <5>2 DEF FramesInOrder
      <4> QED
        BY <2>1, <4>1, <4>2
    <3> QED
      BY <1>2, <2>1, <3>1, <3>2, <3>3
  <2>4. FramesInOrder(s)'
    BY <2>3 DEF FramesInOrder
  <2>5. ShownInOrder(s)'
    <3> SUFFICES ASSUME tick.stream = s
                 PROVE  frames'[s] # <<>> /\ frames'[s][1].price = Successor(tick.price)
      BY <1>1 DEF ShownInOrder
    <3>1. (IF frames[s] # <<>> THEN frames[s][1].price ELSE held[s]) = Successor(tick.price)
      BY <1>1, <1>7, <1>10 DEF Inv, StreamInv, ShownInOrder, Reaching
    <3>2. CASE frames[s] = <<>>
      BY <1>2, <1>3, <1>5, <2>1, <3>1, <3>2
    <3>3. CASE frames[s] # <<>>
      <4>1. 1 \in 1..l
        BY <1>2, <3>3
      <4> QED
        BY <1>2, <1>5, <2>1, <3>1, <3>3, <4>1
    <3> QED
      BY <3>2, <3>3
  <2> QED
    BY <1>8, <2>2, <2>4, <2>5 DEF StreamInv
<1> QED
  BY <1>9, <1>10

\* What the handler leaves behind when it returns.
LEMMA ReturnInv ==
    ASSUME NEW s \in Streams, StreamInv(s), handler[s] # "none", handler'[s] = "gone",
           UNCHANGED <<tick, ws, producer, scanned, upstream>>,
           FramesInTurn(s)'
    PROVE  StreamInv(s)'
<1>1. Together(s)'
  BY DEF StreamInv, Together
<1>2. UpstreamInOrder(s)' /\ HeldInOrder(s)'
  BY DEF StreamInv, UpstreamInOrder, HeldInOrder
<1> QED
  BY <1>1, <1>2 DEF StreamInv, FramesInOrder, ShownInOrder, Reaching

LEMMA RefuseInv ==
    ASSUME Inv, NEW s \in Streams, Refuse(s)
    PROVE  StreamInv(s)'
<1>1. /\ handler[s] = "checks" /\ handler'[s] = "gone" /\ UNCHANGED <<tick, ws, producer, scanned, upstream>>
      /\ ToBrowser(s, Frame("refused"))
  BY DEF Refuse, Return, pageVars, Inv, TypeOK
<1>2. ws[s] # "open" /\ frames[s] = <<>> /\ Len(frames[s]) = 0
  BY <1>1 DEF Inv, StreamInv, Together
<1>3. ws[s] = "connecting" => Len(frames'[s]) = 1
  <2>1. Len(frames[s]) <= Buffer /\ Frame("refused") \in Frames
    BY <1>2, FramesTyped
  <2>2. ws[s] \notin {"connecting", "open"} \/ Len(frames'[s]) = Len(frames[s]) + 1
    BY <1>1, <2>1, FrameSent
  <2>3. Len(frames[s]) + 1 = 1
    BY <1>2
  <2> QED
    BY <2>2, <2>3
<1>4. FramesInTurn(s)'
  BY <1>1, <1>2, <1>3 DEF FramesInTurn
<1> QED
  BY <1>1, <1>4, ReturnInv DEF Inv

LEMMA StreamPricingFailsInv ==
    ASSUME Inv, NEW s \in Streams, StreamPricingFails(s)
    PROVE  StreamInv(s)'
<1> DEFINE l == Len(frames[s])
<1>1. /\ handler[s] = "pricing" /\ handler'[s] = "gone" /\ UNCHANGED <<tick, ws, producer, scanned, upstream>>
      /\ ToBrowser(s, Frame("failed"))
  BY DEF StreamPricingFails, Return, pageVars, Inv, TypeOK
<1>2. l \in Nat /\ l <= 1
  BY <1>1 DEF Inv, StreamInv, Together, TypeOK
<1>3. \/ ws[s] \notin {"connecting", "open"}
      \/ /\ Len(frames'[s]) = l + 1 /\ frames'[s][l + 1] = Frame("failed")
         /\ \A n \in 1..l : frames'[s][n] = frames[s][n]
  <2>1. l <= Buffer /\ Frame("failed") \in Frames
    BY <1>2, FramesTyped
  <2> QED
    BY <1>1, <2>1, FrameSent
<1>4. FramesInTurn(s)'
  <2> SUFFICES ASSUME ws[s] \in {"connecting", "open"}, NEW n \in 1..l + 1
               PROVE  \/ frames'[s][n].kind = "price"
                      \/ ws[s] = "connecting" /\ n = 1
                      \/ frames'[s][n].kind = "failed"
    BY <1>1, <1>3 DEF FramesInTurn
  <2>1. CASE n = l + 1
    BY <1>3, <2>1, FramesTyped
  <2>2. CASE n # l + 1
    <3>1. n \in 1..l
      BY <1>2, <2>2
    <3>2. frames[s][n].kind = "price" \/ (ws[s] = "connecting" /\ n = 1)
      BY <1>1, <3>1 DEF Inv, StreamInv, FramesInTurn
    <3> QED
      BY <1>3, <3>1, <3>2
  <2> QED
    BY <2>1, <2>2
<1> QED
  BY <1>1, <1>4, ReturnInv DEF Inv

\* The write fails, or the channel is closed: no farewell.
LEMMA LeaveInv ==
    ASSUME Inv, NEW s \in Streams, WriteFails(s) \/ TicksEnd(s)
    PROVE  StreamInv(s)'
<1>1. /\ handler[s] \in {"write", "relay"} /\ handler'[s] = "gone"
      /\ UNCHANGED <<tick, ws, frames, producer, scanned, upstream>>
  BY DEF WriteFails, TicksEnd, Return, pageVars, Inv, TypeOK
<1>2. FramesInTurn(s)'
  BY <1>1 DEF Inv, StreamInv, FramesInTurn
<1> QED
  BY <1>1, <1>2, ReturnInv DEF Inv

LEMMA StepInv ==
    ASSUME Inv, NEW s \in Streams, StepOf(s)
    PROVE  Inv'
<1>1. TypeOK'
  BY OnOpenTyped, OnMessageTyped, OnCloseTyped, HandlerTyped, ProducerTyped DEF StepOf
<1>2. StreamInv(s)'
  <2>1. CASE HandlerStep(s)
    BY <2>1, UpgradeInv, RefuseInv, StreamPricingInv, StreamPricingFailsInv, WriteInv, LeaveInv DEF HandlerStep
  <2>2. CASE ProducerStep(s)
    BY <2>2, ScanInv, SendInv, EndInv DEF ProducerStep
  <2>3. CASE OnOpen(s) \/ OnMessage(s) \/ OnClose(s) \/ Price(s) \/ UpstreamEnds(s)
    BY <2>3, OnOpenInv, OnMessageInv, OnCloseInv, PriceInv, EndInv
  <2> QED
    BY <2>1, <2>2, <2>3 DEF StepOf
<1> QED
  BY <1>1, <1>2, OthersKept DEF Inv

-----------------------------------------------------------------------------
(* The page's steps and the death of the gateway. *)

\* The cleanup touches one socket, which is not idle.
LEMMA CleanUpTyped ==
    ASSUME Inv
    PROVE  /\ CleanUp(ws) \in [Streams -> {"none", "connecting", "open", "aborting", "closing", "closed"}]
           /\ \A u \in Streams : \/ CleanUp(ws)[u] = ws[u]
                                 \/ ws[u] # "none" /\ CleanUp(ws)[u] \in {"aborting", "closing"}
<1>1. CASE current = NoStream
  BY <1>1 DEF CleanUp, Inv, TypeOK
<1>2. CASE current # NoStream
  <2> DEFINE kept == CASE ws[current] = "connecting" -> "aborting"
                       [] ws[current] = "open" -> "closing"
                       [] OTHER -> ws[current]
  <2>1. current \in Streams
    BY <1>2 DEF Inv, TypeOK
  <2>2. CleanUp(ws) = [ws EXCEPT ![current] = kept]
    BY <1>2 DEF CleanUp
  <2>3. /\ kept \in {"none", "connecting", "open", "aborting", "closing", "closed"}
        /\ kept = ws[current] \/ (ws[current] # "none" /\ kept \in {"aborting", "closing"})
    BY <2>1 DEF Inv, TypeOK
  <2> HIDE DEF kept
  <2> QED
    BY <2>1, <2>2, <2>3 DEF Inv, TypeOK
<1> QED
  BY <1>1, <1>2

LEMMA HideStreamInv ==
    ASSUME Inv, HideStream
    PROVE  Inv'
<1>1. /\ ws' = CleanUp(ws) /\ current' = NoStream
      /\ UNCHANGED <<connected, tick, error, frames, reset, handler, held, producer, scanned, upstream>>
  BY DEF HideStream, gatewayVars
<1>2. TypeOK'
  BY <1>1, CleanUpTyped DEF Inv, TypeOK
<1>3. ASSUME NEW u \in Streams
      PROVE  StreamInv(u)'
  BY <1>1, CleanUpTyped, StreamKept DEF Inv
<1> QED
  BY <1>2, <1>3 DEF Inv

LEMMA ShowSymbolInv ==
    ASSUME Inv, NEW s \in Streams, ShowSymbol(s)
    PROVE  Inv'
<1>1. /\ ws[s] = "none" /\ ws' = [CleanUp(ws) EXCEPT ![s] = "connecting"] /\ current' = s
      /\ handler' = [handler EXCEPT ![s] = "checks"]
      /\ UNCHANGED <<connected, tick, error, frames, reset, held, producer, scanned, upstream>>
  BY DEF ShowSymbol
<1>2. /\ ws'[s] = "connecting" /\ \A u \in Streams \ {s} : ws'[u] = CleanUp(ws)[u]
      /\ ws' \in [Streams -> {"none", "connecting", "open", "aborting", "closing", "closed"}]
  BY <1>1, CleanUpTyped
<1>3. /\ handler'[s] = "checks" /\ \A u \in Streams \ {s} : handler'[u] = handler[u]
      /\ handler' \in [Streams -> {"none", "checks", "pricing", "relay", "write", "gone"}]
  BY <1>1 DEF Inv, TypeOK
<1>4. TypeOK'
  BY <1>1, <1>2, <1>3 DEF Inv, TypeOK
<1>5. ASSUME NEW u \in Streams, u # s
      PROVE  StreamInv(u)'
  BY <1>1, <1>2, <1>3, <1>5, CleanUpTyped, StreamKept DEF Inv
<1>6. StreamInv(s)'
  <2>1. handler[s] = "none" /\ producer[s] = "none" /\ frames[s] = <<>> /\ tick.stream # s
    BY <1>1 DEF Inv, StreamInv, Together
  <2>2. Together(s)'
    BY <1>1, <1>2, <1>3, <2>1 DEF Together
  <2>3. UpstreamInOrder(s)' /\ HeldInOrder(s)'
    BY <1>1, <1>3 DEF Inv, StreamInv, UpstreamInOrder, HeldInOrder
  <2>4. Len(frames'[s]) = 0
    BY <1>1, <2>1
  <2>5. FramesInTurn(s)' /\ FramesInOrder(s)'
    BY <1>3, <2>4 DEF FramesInTurn, FramesInOrder
  <2>6. ShownInOrder(s)'
    BY <1>1, <2>1 DEF ShownInOrder
  <2> QED
    BY <2>2, <2>3, <2>5, <2>6 DEF StreamInv
<1> QED
  BY <1>4, <1>5, <1>6 DEF Inv

LEMMA GatewayDiesInv ==
    ASSUME Inv, GatewayDies
    PROVE  Inv'
<1>1. UNCHANGED <<current, connected, tick, error, ws, frames, reset, upstream>>
  BY DEF GatewayDies, pageVars
<1>2. /\ handler' \in [Streams -> {"none", "checks", "pricing", "relay", "write", "gone"}]
      /\ producer' \in [Streams -> {"none", "scan", "send", "ended"}]
      /\ held' \in [Streams -> Prices] /\ scanned' \in [Streams -> Prices]
  <2>1. 0 \in Prices
    BY DEF Prices
  <2> QED
    BY <2>1 DEF GatewayDies
<1>3. TypeOK'
  BY <1>1, <1>2 DEF Inv, TypeOK
<1>4. ASSUME NEW s \in Streams
      PROVE  StreamInv(s)'
  <2>1. /\ handler'[s] = IF handler[s] = "none" THEN "none" ELSE "gone"
        /\ producer'[s] = IF producer[s] = "none" THEN "none" ELSE "ended"
        /\ held'[s] = 0
    BY DEF GatewayDies
  <2>2. CASE handler[s] = "none"
    <3>1. /\ producer[s] = "none" /\ ws[s] = "none" /\ handler'[s] = "none" /\ producer'[s] = "none"
      BY <2>1, <2>2 DEF Inv, StreamInv, Together
    <3>2. Together(s)'
      BY <1>1, <2>2, <3>1 DEF Inv, StreamInv, Together
    <3>3. UpstreamInOrder(s)' /\ HeldInOrder(s)'
      BY <1>1, <3>1 DEF Inv, StreamInv, UpstreamInOrder, HeldInOrder
    <3> QED
      BY <1>1, <3>1, <3>2, <3>3 DEF StreamInv, FramesInTurn, FramesInOrder, ShownInOrder, Reaching
  <2>3. CASE handler[s] # "none"
    <3>1. handler'[s] = "gone" /\ producer'[s] # "send"
      BY <2>1, <2>3
    <3>2. Together(s)'
      BY <1>1, <2>3, <3>1 DEF Inv, StreamInv, Together
    <3>3. UpstreamInOrder(s)' /\ HeldInOrder(s)'
      BY <1>1, <3>1 DEF Inv, StreamInv, UpstreamInOrder, HeldInOrder
    <3>4. FramesInTurn(s)'
      BY <1>1, <3>1 DEF Inv, StreamInv, FramesInTurn
    <3> QED
      BY <3>1, <3>2, <3>3, <3>4 DEF StreamInv, FramesInOrder, ShownInOrder, Reaching
  <2> QED
    BY <2>2, <2>3
<1> QED
  BY <1>3, <1>4 DEF Inv

LEMMA NextInv == Inv /\ [Next]_vars => Inv'
<1> SUFFICES ASSUME Inv, [Next]_vars
             PROVE  Inv'
  OBVIOUS
<1>1. CASE HideStream
  BY <1>1, HideStreamInv
<1>2. CASE GatewayDies
  BY <1>2, GatewayDiesInv
<1>3. ASSUME NEW s \in Streams, ShowSymbol(s)
      PROVE  Inv'
  BY <1>3, ShowSymbolInv
<1>4. ASSUME NEW s \in Streams, StepOf(s)
      PROVE  Inv'
  BY <1>4, StepInv
<1>5. CASE UNCHANGED vars
  <2>1. UNCHANGED <<current, connected, tick, error, ws, frames, reset, handler, held, producer, scanned, upstream>>
    BY <1>5 DEF vars, pageVars, gatewayVars
  <2>2. TypeOK'
    BY <2>1 DEF Inv, TypeOK
  <2>3. ASSUME NEW s \in Streams
        PROVE  StreamInv(s)'
    BY <2>1, StreamKept DEF Inv
  <2> QED
    BY <2>2, <2>3 DEF Inv
<1> QED
  BY <1>1, <1>2, <1>3, <1>4, <1>5 DEF Next, StepOf

-----------------------------------------------------------------------------
(* The pipeline. *)

\* Two lists in order follow each other in order when their ends meet.
LEMMA Joined ==
    ASSUME NEW a \in Seq(Prices), NEW b \in Seq(Prices), InOrder(a), InOrder(b), b # <<>>,
           a # <<>> => b[1] = Successor(a[Len(a)])
    PROVE  /\ a \o b \in Seq(Prices) /\ InOrder(a \o b) /\ a \o b # <<>>
           /\ (a \o b)[1] = IF a = <<>> THEN b[1] ELSE a[1]
<1>1. /\ a \o b \in Seq(Prices) /\ Len(a \o b) = Len(a) + Len(b)
      /\ Len(a) \in Nat /\ Len(b) \in Nat \ {0}
      /\ \A n \in 1..Len(a) + Len(b) : (a \o b)[n] = IF n <= Len(a) THEN a[n] ELSE b[n - Len(a)]
  BY ConcatProperties
<1>2. ASSUME NEW n \in 1..Len(a \o b) - 1
      PROVE  (a \o b)[n + 1] = Successor((a \o b)[n])
  <2>1. CASE n < Len(a)
    <3>1. n \in 1..Len(a) - 1 /\ (a \o b)[n] = a[n] /\ (a \o b)[n + 1] = a[n + 1]
      BY <1>1, <2>1
    <3> QED
      BY <3>1 DEF InOrder
  <2>2. CASE n = Len(a)
    <3>1. (a \o b)[n] = a[n] /\ (a \o b)[n + 1] = b[1]
      BY <1>1, <2>2
    <3>2. a # <<>>
      BY <1>1, <2>2
    <3> QED
      BY <2>2, <3>1, <3>2
  <2>3. CASE n > Len(a)
    <3> DEFINE m == n - Len(a)
    <3>1. m \in 1..Len(b) - 1 /\ (a \o b)[n] = b[m] /\ (a \o b)[n + 1] = b[m + 1]
      BY <1>1, <2>3
    <3> QED
      BY <3>1 DEF InOrder
  <2> QED
    BY <1>1, <2>1, <2>2, <2>3
<1>3. (a \o b)[1] = IF a = <<>> THEN b[1] ELSE a[1]
  <2>1. CASE a = <<>>
    <3>1. Len(a) = 0
      BY <2>1
    <3> QED
      BY <1>1, <2>1, <3>1
  <2>2. CASE a # <<>>
    BY <1>1, <2>2
  <2> QED
    BY <2>1, <2>2
<1>4. Len(a \o b) # 0
  BY <1>1
<1> QED
  BY <1>1, <1>2, <1>3, <1>4 DEF InOrder

\* A place for one price: empty, or holding the predecessor of the next one.
LEMMA PlaceJoined ==
    ASSUME NEW full \in BOOLEAN, NEW n \in Prices, NEW b \in Seq(Prices), InOrder(b), b # <<>>,
           full => b[1] = Successor(n)
    PROVE  LET a == IF full THEN <<n>> ELSE <<>>
           IN  /\ a \o b \in Seq(Prices) /\ InOrder(a \o b) /\ a \o b # <<>>
               /\ (a \o b)[1] = IF full THEN n ELSE b[1]
<1> DEFINE a == IF full THEN <<n>> ELSE <<>>
<1>1. CASE full
  <2>1. a \in Seq(Prices) /\ Len(a) = 1 /\ a[1] = n /\ a # <<>>
    BY <1>1
  <2> HIDE DEF a
  <2>2. InOrder(a)
    BY <2>1 DEF InOrder
  <2>3. b[1] = Successor(a[Len(a)])
    BY <1>1, <2>1
  <2> QED
    BY <1>1, <2>1, <2>2, <2>3, Joined DEF a
<1>2. CASE ~full
  <2>1. a \in Seq(Prices) /\ Len(a) = 0 /\ a = <<>>
    BY <1>2
  <2> HIDE DEF a
  <2>2. InOrder(a)
    BY <2>1 DEF InOrder
  <2> QED
    BY <1>2, <2>1, <2>2, Joined DEF a
<1> QED
  BY <1>1, <1>2

\* What is on its way to the browser, without the answer to the handshake.
LEMMA WrittenInOrder ==
    ASSUME Inv, NEW s \in Streams, Reaching(s)
    PROVE  /\ Written(s) \in Seq(Prices) /\ InOrder(Written(s))
           /\ Written(s) # <<>> => NextWritten(s) = Successor(Written(s)[Len(Written(s))])
           /\ ws[s] = "open" =>
                 /\ Written(s) = <<>> <=> frames[s] = <<>>
                 /\ Written(s) # <<>> => Written(s)[1] = frames[s][1].price
<1> DEFINE f == frames[s]
           opened == f # <<>> /\ f[1].kind = "101"
           k == IF opened THEN 1 ELSE 0
           after == IF opened THEN Tail(f) ELSE f
<1>1. f \in Seq(Frames) /\ Len(f) \in Nat
  BY DEF Inv, TypeOK
<1>2. /\ after \in Seq(Frames) /\ Len(after) = Len(f) - k /\ k \in {0, 1}
      /\ \A n \in 1..Len(after) : n + k \in 1..Len(f) /\ after[n] = f[n + k]
  <2>1. CASE opened
    <3>1. /\ Tail(f) \in Seq(Frames) /\ Len(Tail(f)) = Len(f) - 1
          /\ \A n \in 1..Len(Tail(f)) : Tail(f)[n] = f[n + 1]
      BY <1>1, <2>1, HeadTailProperties
    <3> QED
      BY <1>1, <2>1, <3>1
  <2>2. CASE ~opened
    BY <1>1, <2>2
  <2> QED
    BY <2>1, <2>2
<1>3. Written(s) = [n \in 1..Len(after) |-> after[n].price]
  BY DEF Written
<1>4. ws[s] = "open" => ~opened
  BY <1>1 DEF Inv, StreamInv, FramesInTurn, Reaching
<1>5. ws[s] = "connecting" => opened \/ f = <<>>
  BY DEF Inv, TypeOK, StreamInv, Together, FramesInTurn, Reaching
<1> HIDE DEF after, k, opened
<1>6. ASSUME NEW n \in 1..Len(after)
      PROVE  after[n] \in Frames /\ after[n].kind = "price" /\ after[n].price \in Prices
  <2>1. f[n + k].kind = "price"
    <3>1. n + k \in 1..Len(f)
      BY <1>2, <1>6
    <3>2. ws[s] = "connecting" => n + k # 1
      BY <1>1, <1>2, <1>5, <1>6, <3>1 DEF k
    <3> QED
      BY <3>1, <3>2 DEF Inv, StreamInv, FramesInTurn, Reaching
  <2>2. after[n] \in Frames
    BY <1>2, <1>6
  <2> QED
    BY <1>2, <1>6, <2>1, <2>2, FramesTyped
<1>7. Len(after) \in Nat
  BY <1>2
<1>8. /\ Written(s) \in Seq(Prices) /\ Len(Written(s)) = Len(after)
      /\ \A n \in 1..Len(after) : Written(s)[n] = f[n + k].price
  BY <1>2, <1>3, <1>6, <1>7
<1>9. ASSUME NEW n \in 1..Len(after)
      PROVE  (IF n < Len(after) THEN Written(s)[n + 1] ELSE NextWritten(s)) = Successor(Written(s)[n])
  <2>1. n + k \in 1..Len(f) /\ f[n + k].kind = "price"
    BY <1>2, <1>6, <1>9
  <2>2. (IF n + k < Len(f) THEN f[n + k + 1].price ELSE NextWritten(s)) = Successor(f[n + k].price)
    BY <2>1 DEF Inv, StreamInv, FramesInOrder
  <2>3. CASE n < Len(after)
    <3>1. n + k < Len(f) /\ n + 1 \in 1..Len(after) /\ n + k + 1 = n + 1 + k
      BY <1>1, <1>2, <2>3
    <3> QED
      BY <1>8, <2>2, <2>3, <3>1
  <2>4. CASE ~(n < Len(after))
    <3>1. ~(n + k < Len(f))
      BY <1>1, <1>2, <2>4
    <3> QED
      BY <1>8, <2>2, <2>4, <3>1
  <2> QED
    BY <2>3, <2>4
<1>10. InOrder(Written(s))
  BY <1>7, <1>8, <1>9 DEF InOrder
<1>11. Written(s) # <<>> => NextWritten(s) = Successor(Written(s)[Len(Written(s))])
  <2> SUFFICES ASSUME Written(s) # <<>>
               PROVE  NextWritten(s) = Successor(Written(s)[Len(after)])
    BY <1>8
  <2>1. Len(after) \in 1..Len(after)
    BY <1>7, <1>8
  <2> QED
    BY <1>9, <2>1
<1>12. ASSUME ws[s] = "open"
       PROVE  /\ Written(s) = <<>> <=> f = <<>>
              /\ Written(s) # <<>> => Written(s)[1] = f[1].price
  <2>1. k = 0 /\ Len(Written(s)) = Len(f)
    BY <1>1, <1>2, <1>4, <1>8, <1>12 DEF k
  <2>2. Written(s) = <<>> <=> f = <<>>
    BY <1>1, <1>8, <2>1
  <2>3. ASSUME Written(s) # <<>>
        PROVE  Written(s)[1] = f[1].price
    <3>1. 1 \in 1..Len(after) /\ 1 + k = 1
      BY <1>7, <1>8, <2>1, <2>3
    <3> QED
      BY <1>8, <3>1
  <2> QED
    BY <2>2, <2>3
<1> QED
  BY <1>8, <1>10, <1>11, <1>12

LEMMA PipelineInOrder ==
    ASSUME Inv, NEW s \in Streams, Reaching(s)
    PROVE  InOrder(Pipeline(s))
<1> DEFINE sent == (IF producer[s] = "send" THEN <<scanned[s]>> ELSE <<>>) \o upstream[s]
           received == (IF handler[s] = "write" THEN <<held[s]>> ELSE <<>>) \o sent
           written == Written(s) \o received
           shown == tick.stream = s /\ ws[s] = "open"
<1>1. /\ upstream[s] \in Seq(Prices) /\ upstream[s] # <<>> /\ InOrder(upstream[s])
      /\ held[s] \in Prices /\ scanned[s] \in Prices /\ tick.price \in Prices
  <2>1. upstream[s] \in Seq(Prices) /\ Len(upstream[s]) # 0
    BY DEF Inv, TypeOK
  <2> QED
    BY <2>1 DEF Inv, TypeOK, StreamInv, UpstreamInOrder
<1>2. sent \in Seq(Prices) /\ InOrder(sent) /\ sent # <<>> /\ sent[1] = NextSent(s)
  <2>1. producer[s] = "send" => upstream[s][1] = Successor(scanned[s])
    BY DEF Inv, StreamInv, UpstreamInOrder
  <2> QED
    BY <1>1, <2>1, PlaceJoined DEF NextSent
<1>3. received \in Seq(Prices) /\ InOrder(received) /\ received # <<>> /\ received[1] = NextWritten(s)
  <2>1. handler[s] = "write" => sent[1] = Successor(held[s])
    BY <1>2 DEF Inv, StreamInv, HeldInOrder
  <2> HIDE DEF sent
  <2> QED
    BY <1>1, <1>2, <2>1, PlaceJoined DEF NextWritten
<1>4. /\ written \in Seq(Prices) /\ InOrder(written) /\ written # <<>>
      /\ written[1] = IF Written(s) = <<>> THEN NextWritten(s) ELSE Written(s)[1]
  <2> HIDE DEF received
  <2> QED
    BY <1>3, WrittenInOrder, Joined
<1>5. shown => written[1] = Successor(tick.price)
  <2> HIDE DEF written
  <2> QED
    BY <1>4, WrittenInOrder DEF Inv, StreamInv, ShownInOrder
<1>6. InOrder((IF shown THEN <<tick.price>> ELSE <<>>) \o written)
  <2>1. shown \in BOOLEAN
    OBVIOUS
  <2> HIDE DEF written, shown
  <2> QED
    BY <1>1, <1>4, <1>5, <2>1, PlaceJoined
<1> QED
  BY <1>6 DEF Pipeline

-----------------------------------------------------------------------------
\* The variables keep their types, and neither the socket nor OANDA's
\* connection ever holds more than its buffer and one (a write waits for room,
\* stream_handlers.go:80-93).
THEOREM TypeCorrect == Spec => []TypeOK
<1>1. Inv => TypeOK
  BY DEF Inv
<1> QED
  BY <1>1, InitInv, NextInv, PTL DEF Spec

\* While the handler runs and the browser keeps the socket, no price is lost,
\* repeated or overtaken between OANDA and the page (stream_handlers.go:80-93,
\* client.go:289-332).
THEOREM NoPriceLost == Spec => []NoPriceLostOrReordered
<1>1. Inv => NoPriceLostOrReordered
  BY PipelineInOrder DEF NoPriceLostOrReordered, Reaching
<1> QED
  BY <1>1, InitInv, NextInv, PTL DEF Spec

-----------------------------------------------------------------------------
(* Sequences. *)

LEMMA AppendMoves ==
    ASSUME NEW S, NEW a \in Seq(S), NEW b \in Seq(S), NEW x \in S
    PROVE  Append(a, x) \o b = a \o (<<x>> \o b)
<1>1. <<x>> \in Seq(S)
  OBVIOUS
<1>2. Append(a, x) = a \o <<x>>
  BY AppendIsConcat
<1> QED
  BY <1>1, <1>2, ConcatAssociative

LEMMA AppendInside ==
    ASSUME NEW S, NEW a \in Seq(S), NEW b \in Seq(S), NEW x \in S
    PROVE  Append(a \o b, x) = a \o Append(b, x)
<1>1. <<x>> \in Seq(S) /\ a \o b \in Seq(S)
  BY ConcatProperties
<1>2. Append(a \o b, x) = (a \o b) \o <<x>> /\ Append(b, x) = b \o <<x>>
  BY <1>1, AppendIsConcat
<1> QED
  BY <1>1, <1>2, ConcatAssociative

LEMMA PushedThrough ==
    ASSUME NEW S, NEW a \in Seq(S), NEW b \in Seq(S), NEW x \in S,
           NEW c, c = Append(b, x), NEW d, d = a \o b, NEW e, e = a \o c
    PROVE  e = Append(d, x)
BY AppendInside

LEMMA CutAfter ==
    ASSUME NEW S, NEW a \in Seq(S), NEW b \in Seq(S), NEW c \in Seq(S),
           NEW d, d = a \o (b \o c), NEW e, e = a \o b
    PROVE  d = e \o c
BY ConcatAssociative

LEMMA TakenFromConcat ==
    ASSUME NEW S, NEW a \in Seq(S), NEW b \in Seq(S), a # <<>>
    PROVE  a \o b # <<>> /\ Head(a \o b) = Head(a) /\ Tail(a \o b) = Tail(a) \o b
<1>1. /\ Len(a) \in Nat \ {0} /\ Len(b) \in Nat
      /\ a \o b \in Seq(S) /\ Len(a \o b) = Len(a) + Len(b)
      /\ \A i \in 1..Len(a) + Len(b) : (a \o b)[i] = IF i <= Len(a) THEN a[i] ELSE b[i - Len(a)]
  BY EmptySeq, LenProperties, ConcatProperties
<1>2. a \o b # <<>>
  BY <1>1, EmptySeq
<1>3. Head(a \o b) = Head(a)
  BY <1>1
<1>4. /\ Tail(a) \in Seq(S) /\ Len(Tail(a)) = Len(a) - 1
      /\ \A i \in 1..Len(Tail(a)) : Tail(a)[i] = a[i + 1]
  BY HeadTailProperties
<1>5. /\ Tail(a \o b) \in Seq(S) /\ Len(Tail(a \o b)) = Len(a) + Len(b) - 1
      /\ \A i \in 1..Len(a) + Len(b) - 1 : Tail(a \o b)[i] = (a \o b)[i + 1]
  BY <1>1, <1>2, HeadTailProperties
<1>6. /\ Tail(a) \o b \in Seq(S) /\ Len(Tail(a) \o b) = Len(a) - 1 + Len(b)
      /\ \A i \in 1..Len(a) - 1 + Len(b) :
            (Tail(a) \o b)[i] = IF i <= Len(a) - 1 THEN Tail(a)[i] ELSE b[i - (Len(a) - 1)]
  BY <1>4, ConcatProperties
<1>7. ASSUME NEW i \in 1..Len(a) + Len(b) - 1
      PROVE  Tail(a \o b)[i] = (Tail(a) \o b)[i]
  <2>1. i + 1 \in 1..Len(a) + Len(b) /\ i \in 1..Len(a) - 1 + Len(b) /\ i \in Int /\ Len(a) \in Int
    BY <1>1
  <2>2. Tail(a \o b)[i] = (a \o b)[i + 1]
    BY <1>5
  <2>3. CASE i <= Len(a) - 1
    <3>1. i + 1 <= Len(a) /\ i \in 1..Len(Tail(a))
      BY <1>1, <1>4, <2>3
    <3>2. (a \o b)[i + 1] = a[i + 1]
      BY <1>1, <2>1, <3>1
    <3> QED
      BY <1>4, <1>6, <2>1, <2>2, <2>3, <3>1, <3>2
  <2>4. CASE ~(i <= Len(a) - 1)
    <3>1. ~(i + 1 <= Len(a)) /\ i + 1 - Len(a) = i - (Len(a) - 1)
      BY <1>1, <2>1, <2>4
    <3>2. (a \o b)[i + 1] = b[i + 1 - Len(a)]
      BY <1>1, <2>1, <3>1
    <3> QED
      BY <1>6, <2>1, <2>2, <2>4, <3>1, <3>2
  <2> QED
    BY <2>3, <2>4
<1>8. Len(Tail(a \o b)) = Len(Tail(a) \o b)
  BY <1>1, <1>5, <1>6
<1>9. Tail(a \o b) = Tail(a) \o b
  BY <1>5, <1>6, <1>7, <1>8, SeqEqual
<1> QED
  BY <1>2, <1>3, <1>9

LEMMA Preceded ==
    ASSUME NEW S, NEW a \in Seq(S), NEW b \in Seq(S), NEW x \in S,
           Len(a) = Len(b) + 1, a[1] = x, \A n \in 1..Len(b) : a[n + 1] = b[n]
    PROVE  a = <<x>> \o b
<1> DEFINE one == <<x>>
<1>1. one \in Seq(S) /\ Len(one) = 1 /\ one[1] = x /\ Len(b) \in Nat
  <2>1. one \in Seq(S) /\ Len(one) = 1 /\ one[1] = x
    OBVIOUS
  <2>2. Len(b) \in Nat
    OBVIOUS
  <2> QED
    BY <2>1, <2>2
<1> HIDE DEF one
<1>2. /\ one \o b \in Seq(S) /\ Len(one \o b) = 1 + Len(b)
      /\ \A i \in 1..1 + Len(b) : (one \o b)[i] = IF i <= 1 THEN one[i] ELSE b[i - 1]
  <2>1. /\ one \o b \in Seq(S) /\ Len(one \o b) = Len(one) + Len(b)
        /\ \A i \in 1..Len(one) + Len(b) : (one \o b)[i] = IF i <= Len(one) THEN one[i] ELSE b[i - Len(one)]
    BY <1>1, ConcatProperties
  <2> QED
    BY <1>1, <2>1
<1>3. ASSUME NEW i \in 1..Len(a)
      PROVE  a[i] = (one \o b)[i]
  <2>1. i \in 1..1 + Len(b)
    BY <1>1
  <2>2. CASE i = 1
    BY <1>1, <1>2, <2>1, <2>2
  <2>3. CASE i # 1
    <3>1. i - 1 \in 1..Len(b) /\ i - 1 + 1 = i /\ ~(i <= 1)
      BY <1>1, <2>1, <2>3
    <3>2. a[i] = b[i - 1]
      BY <3>1
    <3> QED
      BY <1>2, <2>1, <3>1, <3>2
  <2> QED
    BY <2>2, <2>3
<1>4. Len(a) = Len(one \o b)
  BY <1>1, <1>2
<1>5. a = one \o b
  BY <1>2, <1>3, <1>4, SeqEqual
<1> QED
  BY <1>5 DEF one

LEMMA Followed ==
    ASSUME NEW S, NEW a \in Seq(S), NEW b \in Seq(S), NEW x \in S,
           Len(a) = Len(b) + 1, a[Len(b) + 1] = x, \A n \in 1..Len(b) : a[n] = b[n]
    PROVE  a = Append(b, x)
<1>1. /\ Append(b, x) \in Seq(S) /\ Len(Append(b, x)) = Len(b) + 1 /\ Append(b, x)[Len(b) + 1] = x
      /\ \A n \in 1..Len(b) : Append(b, x)[n] = b[n]
  BY AppendProperties
<1>2. ASSUME NEW n \in 1..Len(a)
      PROVE  a[n] = Append(b, x)[n]
  <2>1. n = Len(b) + 1 \/ n \in 1..Len(b)
    <3>1. Len(b) \in Nat
      OBVIOUS
    <3> QED
      BY <3>1
  <2> QED
    BY <1>1, <2>1
<1> QED
  BY <1>1, <1>2, SeqEqual

\* What is kept of a queue that breaks from the back.
LEMMA FrontKept ==
    ASSUME NEW S, NEW a \in Seq(S), NEW b \in Seq(S)
    PROVE  Len(a) \in 0..Len(a \o b) /\ SubSeq(a \o b, 1, Len(a)) = a
<1>1. /\ Len(a) \in Nat /\ Len(b) \in Nat
      /\ a \o b \in Seq(S) /\ Len(a \o b) = Len(a) + Len(b)
      /\ \A i \in 1..Len(a) + Len(b) : (a \o b)[i] = IF i <= Len(a) THEN a[i] ELSE b[i - Len(a)]
  BY LenProperties, ConcatProperties
<1>2. \A i \in 1..Len(a) : i \in 1..Len(a) + Len(b) /\ i <= Len(a)
  BY <1>1
<1>3. \A i \in 1..Len(a) : (a \o b)[i] = a[i] /\ a[i] \in S
  BY <1>1, <1>2, ElementOfSeq
<1>4. \A i \in 1..Len(a) : (a \o b)[i] \in S
  BY <1>3
<1> DEFINE kept == SubSeq(a \o b, 1, Len(a))
<1>5. /\ kept \in Seq(S) /\ Len(kept) = (IF 1 <= Len(a) THEN Len(a) - 1 + 1 ELSE 0)
      /\ \A i \in 1..Len(a) - 1 + 1 : kept[i] = (a \o b)[1 + i - 1]
  BY <1>1, <1>4, SubSeqProperties
<1>6. Len(kept) = Len(a) /\ \A i \in 1..Len(a) : kept[i] = (a \o b)[i]
  BY <1>1, <1>5
<1> HIDE DEF kept
<1>7. kept = a
  BY <1>3, <1>5, <1>6, SeqEqual
<1> QED
  BY <1>1, <1>7 DEF kept

-----------------------------------------------------------------------------
(* The queue of a stream, and OANDA before it is asked. *)

\* OANDA sends nothing before it is asked.
NothingSentYet == \A s \in Streams : producer[s] = "none" => Len(upstream[s]) = 1

LEMMA NothingSentInit == Init => NothingSentYet
BY DEF Init, NothingSentYet

LEMMA NothingSentNext ==
    ASSUME Inv, NothingSentYet, [Next]_vars
    PROVE  NothingSentYet'
<1> SUFFICES ASSUME NEW u \in Streams, producer'[u] = "none"
             PROVE  Len(upstream'[u]) = 1
  BY DEF NothingSentYet
<1>1. CASE UNCHANGED vars
  BY <1>1 DEF vars, gatewayVars, NothingSentYet
<1>2. CASE HideStream
  BY <1>2 DEF HideStream, gatewayVars, NothingSentYet
<1>3. CASE GatewayDies
  BY <1>3 DEF GatewayDies, NothingSentYet
<1>4. ASSUME NEW s \in Streams, ShowSymbol(s)
      PROVE  Len(upstream'[u]) = 1
  BY <1>4 DEF ShowSymbol, NothingSentYet
<1>5. ASSUME NEW s \in Streams, StepOf(s), u # s
      PROVE  Len(upstream'[u]) = 1
  BY <1>5, OthersUntouched DEF NothingSentYet
<1>6. ASSUME StepOf(u)
      PROVE  Len(upstream'[u]) = 1
  <2>1. CASE OnOpen(u) \/ OnMessage(u) \/ OnClose(u)
    BY <2>1 DEF OnOpen, OnMessage, OnClose, gatewayVars, NothingSentYet
  <2>2. CASE HandlerStep(u)
    BY <2>2 DEF HandlerStep, Upgrade, Refuse, StreamPricing, StreamPricingFails, Write, WriteFails, TicksEnd,
       Inv, TypeOK, NothingSentYet
  <2>3. CASE ProducerStep(u) \/ Price(u) \/ UpstreamEnds(u)
    BY <2>3 DEF ProducerStep, Scan, Send, StopProducer, Price, UpstreamEnds, gatewayVars, Inv, TypeOK
  <2> QED
    BY <1>6, <2>1, <2>2, <2>3 DEF StepOf
<1> QED
  BY <1>1, <1>2, <1>3, <1>4, <1>5, <1>6 DEF Next, StepOf

LEMMA PlaceTyped ==
    ASSUME NEW full \in BOOLEAN, NEW n \in Prices
    PROVE  /\ Place(full, n) \in Seq(Frames) /\ Len(Place(full, n)) \in Nat /\ Len(Place(full, n)) <= 1
           /\ full => Place(full, n) = <<PriceFrame(n)>>
           /\ ~full => Place(full, n) = <<>>
BY FramesTyped DEF Place

LEMMA SentTyped ==
    ASSUME TypeOK, NEW s \in Streams
    PROVE  Sent(s) \in Seq(Frames) /\ Len(Sent(s)) = Len(upstream[s]) - 1
<1>1. upstream[s] \in Seq(Prices) /\ Len(upstream[s]) - 1 \in Nat
  BY DEF TypeOK
<1>2. \A n \in 1..Len(upstream[s]) - 1 : PriceFrame(upstream[s][n]) \in Frames
  BY <1>1, FramesTyped, ElementOfSeq
<1> QED
  BY <1>1, <1>2 DEF Sent

SentTypes == \A s \in Streams : Sent(s) \in Seq(Frames) /\ Len(Sent(s)) = Len(upstream[s]) - 1

LEMMA SentAlwaysTyped == TypeOK => SentTypes
BY SentTyped DEF SentTypes

LEMMA QueueBound ==
    ASSUME NEW room \in Nat, NEW sent \in Nat, sent <= room + 1,
           NEW f \in Nat, f <= room + 1, NEW w \in Nat, w <= sent + 1
    PROVE  /\ f + w \in 0..2 * room + 3
           /\ sent <= room => f + w < 2 * room + 3
OBVIOUS

LEMMA QueueTyped ==
    ASSUME TypeOK, NEW s \in Streams
    PROVE  /\ frames[s] \in Seq(Frames)
           /\ ToHandOver(s) \in Seq(Frames) /\ ToWrite(s) \in Seq(Frames)
           /\ FeedOf(s) \in Seq(Frames) /\ Len(FeedOf(s)) \in 0..2 * Buffer + 3
           /\ Len(upstream[s]) <= Buffer => Len(FeedOf(s)) < 2 * Buffer + 3
<1> DEFINE scan == Place(producer[s] = "send", scanned[s])
           write == Place(handler[s] = "write", held[s])
           sent == Len(upstream[s])
<1>1. /\ frames[s] \in Seq(Frames) /\ Len(frames[s]) \in Nat /\ Len(frames[s]) <= Buffer + 1
      /\ sent \in Nat /\ sent >= 1 /\ sent <= Buffer + 1
      /\ held[s] \in Prices /\ scanned[s] \in Prices /\ Buffer \in Nat
  BY DEF TypeOK
<1>2. /\ scan \in Seq(Frames) /\ Len(scan) \in Nat /\ Len(scan) <= 1
      /\ write \in Seq(Frames) /\ Len(write) \in Nat /\ Len(write) <= 1
  <2>1. (producer[s] = "send") \in BOOLEAN /\ (handler[s] = "write") \in BOOLEAN
    OBVIOUS
  <2>2. scan \in Seq(Frames) /\ Len(scan) \in Nat /\ Len(scan) <= 1
    BY <1>1, <2>1, PlaceTyped
  <2>3. write \in Seq(Frames) /\ Len(write) \in Nat /\ Len(write) <= 1
    BY <1>1, <2>1, PlaceTyped
  <2> QED
    BY <2>2, <2>3
<1>3. Sent(s) \in Seq(Frames) /\ Len(Sent(s)) = sent - 1
  BY SentTyped
<1> HIDE DEF scan, write, sent
<1>4. <<>> \in Seq(Frames) /\ Len(<<>>) = 0
  BY EmptySeq
<1>5. ToHandOver(s) \in Seq(Frames) /\ Len(ToHandOver(s)) \in Nat /\ Len(ToHandOver(s)) <= sent
  <2>1. scan \o Sent(s) \in Seq(Frames) /\ Len(scan \o Sent(s)) = Len(scan) + Len(Sent(s))
    BY <1>2, <1>3, ConcatProperties
  <2>2. Len(scan \o Sent(s)) \in Nat /\ Len(scan \o Sent(s)) <= sent
    BY <1>1, <1>2, <1>3, <2>1
  <2>3. CASE producer[s] = "ended"
    BY <1>1, <1>4, <2>3 DEF ToHandOver
  <2>4. CASE producer[s] # "ended"
    BY <2>1, <2>2, <2>4 DEF ToHandOver, scan
  <2> QED
    BY <2>3, <2>4
<1>6. ToWrite(s) \in Seq(Frames) /\ Len(ToWrite(s)) \in Nat /\ Len(ToWrite(s)) <= sent + 1
  <2>1. /\ write \o ToHandOver(s) \in Seq(Frames)
        /\ Len(write \o ToHandOver(s)) = Len(write) + Len(ToHandOver(s))
    BY <1>2, <1>5, ConcatProperties
  <2>2. Len(write \o ToHandOver(s)) \in Nat /\ Len(write \o ToHandOver(s)) <= sent + 1
    BY <1>1, <1>2, <1>5, <2>1
  <2>3. CASE handler[s] = "gone"
    BY <1>1, <1>4, <2>3 DEF ToWrite
  <2>4. CASE handler[s] # "gone"
    BY <2>1, <2>2, <2>4 DEF ToWrite, write
  <2> QED
    BY <2>3, <2>4
<1>7. /\ FeedOf(s) \in Seq(Frames) /\ Len(FeedOf(s)) \in 0..2 * Buffer + 3
      /\ sent <= Buffer => Len(FeedOf(s)) < 2 * Buffer + 3
  <2>1. CASE ~Wanted(s)
    BY <1>1, <1>4, <2>1 DEF FeedOf
  <2>2. CASE Wanted(s)
    <3>1. /\ frames[s] \o ToWrite(s) \in Seq(Frames)
          /\ Len(frames[s] \o ToWrite(s)) = Len(frames[s]) + Len(ToWrite(s))
      BY <1>1, <1>6, ConcatProperties
    <3>2. /\ Len(frames[s]) + Len(ToWrite(s)) \in 0..2 * Buffer + 3
          /\ sent <= Buffer => Len(frames[s]) + Len(ToWrite(s)) < 2 * Buffer + 3
      BY <1>1, <1>6, QueueBound
    <3> QED
      BY <2>2, <3>1, <3>2 DEF FeedOf
  <2> QED
    BY <2>1, <2>2
<1> QED
  BY <1>1, <1>5, <1>6, <1>7 DEF sent

\* Before the goroutine runs, all there is to hear is on the socket.
QuietFirst ==
    \A s \in Streams : producer[s] = "none" /\ handler[s] # "write" => ToWrite(s) = <<>>

LEMMA QuietBefore == Inv /\ NothingSentYet => QuietFirst
<1> SUFFICES ASSUME Inv, NothingSentYet, NEW s \in Streams, producer[s] = "none", handler[s] # "write"
             PROVE  ToWrite(s) = <<>>
  BY DEF QuietFirst
<1>1. TypeOK
  BY DEF Inv
<1>2. Sent(s) \in Seq(Frames) /\ Len(Sent(s)) = 0
  <2>1. Len(upstream[s]) = 1
    BY DEF NothingSentYet
  <2>2. Sent(s) \in Seq(Frames) /\ Len(Sent(s)) = Len(upstream[s]) - 1
    BY <1>1, SentTyped
  <2> QED
    BY <2>1, <2>2
<1>3. Sent(s) = <<>>
  BY <1>2, EmptySeq
<1>4. <<>> \o <<>> = <<>>
  BY EmptySeq, ConcatEmptySeq
<1>5. ToHandOver(s) = <<>>
  BY <1>3, <1>4 DEF ToHandOver, Place
<1> QED
  BY <1>4, <1>5 DEF ToWrite, Place

-----------------------------------------------------------------------------
(* From a step of one stream to the queues of all. *)

LEMMA PlacesKept ==
    ASSUME NEW s \in Streams, UNCHANGED <<handler[s], held[s], producer[s], scanned[s], upstream[s]>>
    PROVE  Sent(s)' = Sent(s) /\ ToHandOver(s)' = ToHandOver(s) /\ ToWrite(s)' = ToWrite(s)
<1>1. Sent(s)' = Sent(s)
  BY DEF Sent
<1>2. ToHandOver(s)' = ToHandOver(s)
  BY <1>1 DEF ToHandOver, Place
<1> QED
  BY <1>1, <1>2 DEF ToWrite, Place

LEMMA QueueKept ==
    ASSUME NEW s \in Streams,
           UNCHANGED <<ws[s], handler[s], held[s], producer[s], scanned[s], frames[s], upstream[s]>>
    PROVE  StageOf(s)' = StageOf(s) /\ FeedOf(s)' = FeedOf(s)
<1>1. ToWrite(s)' = ToWrite(s)
  BY PlacesKept
<1> QED
  BY <1>1 DEF StageOf, FeedOf, Wanted

LEMMA OneUpdated ==
    ASSUME NEW D, NEW f, NEW g, f = [u \in D |-> f[u]], g = [u \in D |-> g[u]], NEW s \in D,
           \A u \in D : u # s => g[u] = f[u]
    PROVE  g = [f EXCEPT ![s] = g[s]]
OBVIOUS

LEMMA OneStream ==
    ASSUME Inv, NEW s \in Streams, StepOf(s)
    PROVE  /\ Stage' = [Stage EXCEPT ![s] = StageOf(s)']
           /\ Feed' = [Feed EXCEPT ![s] = FeedOf(s)']
           /\ NextPrice' = [NextPrice EXCEPT ![s] = upstream'[s][Len(upstream'[s])]]
           /\ Stage[s] = StageOf(s) /\ Feed[s] = FeedOf(s) /\ NextPrice[s] = upstream[s][Len(upstream[s])]
<1>1. ASSUME NEW u \in Streams, u # s
      PROVE  StageOf(u)' = StageOf(u) /\ FeedOf(u)' = FeedOf(u) /\ upstream'[u] = upstream[u]
  <2>1. UNCHANGED <<ws[u], handler[u], held[u], producer[u], scanned[u], frames[u], upstream[u]>>
    BY <1>1, OthersUntouched
  <2> QED
    BY <2>1, QueueKept
<1>2. Stage' = [Stage EXCEPT ![s] = StageOf(s)']
  BY <1>1, OneUpdated DEF Stage
<1>3. Feed' = [Feed EXCEPT ![s] = FeedOf(s)']
  BY <1>1, OneUpdated DEF Feed
<1>4. NextPrice' = [NextPrice EXCEPT ![s] = upstream'[s][Len(upstream'[s])]]
  BY <1>1, OneUpdated DEF NextPrice
<1> QED
  BY <1>2, <1>3, <1>4 DEF Stage, Feed, NextPrice

\* A step that nobody at either end notices.
LEMMA Unnoticed ==
    ASSUME Inv, NEW s \in Streams, StepOf(s),
           StageOf(s)' = StageOf(s), FeedOf(s)' = FeedOf(s),
           upstream'[s][Len(upstream'[s])] = upstream[s][Len(upstream[s])], tick' = tick
    PROVE  UNCHANGED PF!vars
<1>1. Stage' = Stage /\ Feed' = Feed /\ NextPrice' = NextPrice
  BY OneStream DEF Stage, Feed, NextPrice
<1> QED
  BY <1>1 DEF PF!vars

QueuesTyped ==
    \A s \in Streams : FeedOf(s) \in Seq(Frames) /\ Len(FeedOf(s)) \in 0..2 * Buffer + 3

LEMMA QueuesAlwaysTyped == TypeOK => QueuesTyped
BY QueueTyped DEF QueuesTyped

\* After a break a queue is a front of what it was.
LEMMA Breaks ==
    ASSUME TypeOK, TypeOK', NEW broken \in SUBSET Streams,
           \A u \in Streams \ broken : StageOf(u)' = StageOf(u) /\ FeedOf(u)' = FeedOf(u),
           \A u \in broken : /\ StageOf(u)' = "over"
                             /\ \E rest \in Seq(Frames) : FeedOf(u) = FeedOf(u)' \o rest,
           UNCHANGED <<NextPrice, tick>>
    PROVE  PF!Break(broken)
<1> DEFINE left == [u \in Streams |-> IF u \in broken THEN Len(FeedOf(u)') ELSE 0]
<1>1. QueuesTyped /\ QueuesTyped'
  <2>1. QueuesTyped
    BY QueuesAlwaysTyped
  <2>2. QueuesTyped'
    BY QueuesAlwaysTyped, PTL
  <2> QED
    BY <2>1, <2>2
<1>2. \A u \in Streams : /\ (FeedOf(u)') \in Seq(Frames) /\ Len(FeedOf(u)') \in 0..2 * Buffer + 3
                         /\ Len(FeedOf(u)) \in Nat
  BY <1>1 DEF QueuesTyped
<1>3. left \in [Streams -> 0..2 * Buffer + 3]
  BY <1>2
<1>4. ASSUME NEW u \in broken
      PROVE  Len(FeedOf(u)') <= Len(FeedOf(u)) /\ SubSeq(FeedOf(u), 1, Len(FeedOf(u)')) = FeedOf(u)'
  <2>1. PICK rest \in Seq(Frames) : FeedOf(u) = FeedOf(u)' \o rest
    OBVIOUS
  <2>2. u \in Streams
    OBVIOUS
  <2>3. /\ Len(FeedOf(u)') \in 0..Len(FeedOf(u)' \o rest)
        /\ SubSeq(FeedOf(u)' \o rest, 1, Len(FeedOf(u)')) = FeedOf(u)'
    BY <1>2, <2>2, FrontKept
  <2> QED
    BY <1>2, <2>1, <2>2, <2>3
<1>5. \A u \in Streams : left[u] <= Len(Feed[u])
  <2> SUFFICES ASSUME NEW u \in Streams PROVE left[u] <= Len(Feed[u])
    OBVIOUS
  <2>1. Feed[u] = FeedOf(u) /\ Len(FeedOf(u)) >= 0
    BY <1>2 DEF Feed
  <2>2. CASE u \in broken
    BY <1>4, <2>1, <2>2
  <2>3. CASE u \notin broken
    BY <2>1, <2>3
  <2> QED
    BY <2>2, <2>3
<1>6. Feed' = [u \in Streams |-> IF u \in broken THEN SubSeq(Feed[u], 1, left[u]) ELSE Feed[u]]
  <2>1. ASSUME NEW u \in Streams
        PROVE  FeedOf(u)' = IF u \in broken THEN SubSeq(Feed[u], 1, left[u]) ELSE Feed[u]
    <3>1. Feed[u] = FeedOf(u)
      BY DEF Feed
    <3>2. CASE u \in broken
      BY <1>4, <3>1, <3>2
    <3>3. CASE u \notin broken
      BY <3>1, <3>3
    <3> QED
      BY <3>2, <3>3
  <2> HIDE DEF left
  <2> QED
    BY <2>1 DEF Feed
<1>7. Stage' = [u \in Streams |-> IF u \in broken THEN "over" ELSE Stage[u]]
  BY DEF Stage
<1> HIDE DEF left
<1> QED
  BY <1>3, <1>5, <1>6, <1>7 DEF PF!Break

LEMMA OneBreaks ==
    ASSUME Inv, TypeOK', NEW s \in Streams, StepOf(s), StageOf(s)' = "over",
           NEW rest \in Seq(Frames), FeedOf(s) = FeedOf(s)' \o rest,
           UNCHANGED <<upstream[s], tick>>
    PROVE  PF!Break({s})
<1>1. ASSUME NEW u \in Streams \ {s}
      PROVE  StageOf(u)' = StageOf(u) /\ FeedOf(u)' = FeedOf(u)
  <2>1. UNCHANGED <<ws[u], handler[u], held[u], producer[u], scanned[u], frames[u], upstream[u]>>
    BY OthersUntouched
  <2> QED
    BY <2>1, QueueKept
<1>2. NextPrice' = NextPrice
  BY OneStream DEF NextPrice
<1> QED
  BY <1>1, <1>2, Breaks DEF Inv

-----------------------------------------------------------------------------
(* The steps of one stream, seen as PriceFeed's. *)

LEMMA HearMapped ==
    ASSUME Inv, NEW s \in Streams, OnOpen(s) \/ OnMessage(s)
    PROVE  PF!Hear(s)
<1>1. StepOf(s)
  BY DEF StepOf
<1>2. /\ ws[s] \in {"connecting", "open"} /\ ws'[s] = "open"
      /\ frames[s] # <<>> /\ frames'[s] = Tail(frames[s])
      /\ UNCHANGED <<handler, held, producer, scanned, upstream>>
  BY DEF OnOpen, OnMessage, gatewayVars, Inv, TypeOK
<1>3. frames[s] \in Seq(Frames) /\ ToWrite(s) \in Seq(Frames)
  BY QueueTyped DEF Inv
<1>4. FeedOf(s) = frames[s] \o ToWrite(s) /\ FeedOf(s)' = Tail(frames[s]) \o ToWrite(s)
  <2>1. ToWrite(s)' = ToWrite(s)
    BY <1>2, PlacesKept
  <2> QED
    BY <1>2, <2>1 DEF FeedOf, Wanted
<1>5. FeedOf(s) # <<>> /\ Head(FeedOf(s)) = Head(frames[s]) /\ FeedOf(s)' = Tail(FeedOf(s))
  BY <1>2, <1>3, <1>4, TakenFromConcat
<1>6. StageOf(s)' = StageOf(s)
  BY <1>2 DEF StageOf, Wanted
<1>7. tick' = IF Head(frames[s]).kind = "price" THEN [stream |-> s, price |-> Head(frames[s]).price]
              ELSE tick
  <2>1. CASE OnOpen(s)
    BY <2>1 DEF OnOpen
  <2>2. CASE OnMessage(s)
    <3>1. Head(frames[s]) = frames[s][1] /\ 1 \in 1..Len(frames[s])
      BY <1>2, <1>3, EmptySeq
    <3>2. frames[s][1].kind \in {"price", "failed"}
      BY <2>2, <3>1 DEF OnMessage, Inv, StreamInv, FramesInTurn
    <3> QED
      BY <2>2, <3>1, <3>2 DEF OnMessage
  <2> QED
    BY <2>1, <2>2
<1>8. Stage' = Stage /\ NextPrice' = NextPrice
  BY <1>1, <1>2, <1>6, OneStream DEF Stage, NextPrice
<1>9. Feed[s] = FeedOf(s) /\ Feed' = [Feed EXCEPT ![s] = Tail(FeedOf(s))]
  BY <1>1, <1>5, OneStream
<1> QED
  BY <1>5, <1>7, <1>8, <1>9 DEF PF!Hear

LEMMA OnCloseMapped ==
    ASSUME Inv, TypeOK', NEW s \in Streams, OnClose(s)
    PROVE  PF!Break({s})
<1>1. StepOf(s)
  BY DEF StepOf
<1>2. ws'[s] = "closed" /\ UNCHANGED <<upstream, tick>>
  BY DEF OnClose, Inv, TypeOK
<1>3. StageOf(s)' = "over" /\ FeedOf(s)' = <<>>
  BY <1>2 DEF StageOf, FeedOf, Wanted
<1>4. FeedOf(s) \in Seq(Frames)
  BY QueueTyped DEF Inv
<1>5. FeedOf(s) = FeedOf(s)' \o FeedOf(s)
  BY <1>3, <1>4, ConcatEmptySeq
<1> QED
  BY <1>1, <1>2, <1>3, <1>4, <1>5, OneBreaks

\* Of a browser that has left, the queue is empty whatever the gateway does.
LEMMA NobodyListens ==
    ASSUME NEW s \in Streams, ~Wanted(s), ws'[s] = ws[s]
    PROVE  /\ StageOf(s) = "over" /\ StageOf(s)' = "over"
           /\ FeedOf(s) = <<>> /\ FeedOf(s)' = <<>>
BY DEF StageOf, FeedOf, Wanted

\* What the handler says before there are prices.
LEMMA SaidFirst ==
    ASSUME Inv, QuietFirst, QuietFirst', NEW s \in Streams, NEW frame \in Frames, ToBrowser(s, frame),
           handler[s] \in {"checks", "pricing"}, handler'[s] \in {"pricing", "gone"}, Wanted(s),
           UNCHANGED <<ws, producer>>
    PROVE  FeedOf(s)' = Append(FeedOf(s), frame)
<1>1. /\ producer[s] = "none" /\ ws[s] \in {"connecting", "open"}
  BY DEF Inv, StreamInv, Together, Wanted
<1>2. ToWrite(s) = <<>> /\ ToWrite(s)' = <<>>
  BY <1>1 DEF QuietFirst
<1>3. frames'[s] = Append(frames[s], frame)
  BY <1>1 DEF ToBrowser, Inv, TypeOK
<1>4. frames[s] \in Seq(Frames) /\ Append(frames[s], frame) \in Seq(Frames)
  BY AppendProperties DEF Inv, TypeOK
<1>5. FeedOf(s) = frames[s]
  BY <1>2, <1>4, ConcatEmptySeq DEF FeedOf
<1>6. FeedOf(s)' = Append(frames[s], frame)
  BY <1>2, <1>3, <1>4, ConcatEmptySeq DEF FeedOf, Wanted
<1> QED
  BY <1>5, <1>6

LEMMA AnswerMapped ==
    ASSUME Inv, QuietFirst, QuietFirst', NEW s \in Streams,
           Upgrade(s) \/ Refuse(s) \/ StreamPricingFails(s)
    PROVE  PF!Open(s) \/ PF!Refuse(s) \/ PF!Fail(s) \/ UNCHANGED PF!vars
<1>1. StepOf(s)
  BY DEF StepOf, HandlerStep
<1>2. UNCHANGED <<ws, producer, upstream, tick>>
  BY DEF Upgrade, Refuse, StreamPricingFails, pageVars
<1>3. CASE ~Wanted(s)
  <2>1. StageOf(s)' = StageOf(s) /\ FeedOf(s)' = FeedOf(s)
    BY <1>2, <1>3, NobodyListens
  <2> QED
    BY <1>1, <1>2, <2>1, Unnoticed
<1>4. ASSUME Wanted(s), NEW frame \in Frames, ToBrowser(s, frame),
             handler[s] \in {"checks", "pricing"}, handler'[s] \in {"pricing", "gone"}
      PROVE  /\ StageOf(s) = IF handler[s] = "checks" THEN "new" ELSE "open"
             /\ StageOf(s)' = IF handler'[s] = "pricing" THEN "open" ELSE "over"
             /\ Feed' = [Feed EXCEPT ![s] = Append(Feed[s], frame)] /\ NextPrice' = NextPrice
  <2>1. producer[s] = "none"
    BY <1>4 DEF Inv, StreamInv, Together
  <2>2. FeedOf(s)' = Append(FeedOf(s), frame)
    BY <1>2, <1>4, SaidFirst
  <2>3. NextPrice' = NextPrice
    BY <1>2 DEF NextPrice
  <2> QED
    BY <1>1, <1>2, <1>4, <2>1, <2>2, <2>3, OneStream DEF StageOf, Wanted
<1>5. CASE Wanted(s) /\ Upgrade(s)
  <2>1. /\ ToBrowser(s, Frame("101")) /\ Frame("101") \in Frames
        /\ handler[s] = "checks" /\ handler'[s] = "pricing"
    BY <1>5, FramesTyped DEF Upgrade, Inv, TypeOK
  <2>2. /\ StageOf(s) = "new" /\ StageOf(s)' = "open" /\ NextPrice' = NextPrice
        /\ Feed' = [Feed EXCEPT ![s] = Append(Feed[s], Frame("101"))]
    BY <1>4, <1>5, <2>1
  <2> QED
    BY <1>1, <1>2, <2>2, OneStream DEF PF!Open, PF!Turn, PF!Say, Frame
<1>6. CASE Wanted(s) /\ Refuse(s)
  <2>1. /\ ToBrowser(s, Frame("refused")) /\ Frame("refused") \in Frames
        /\ handler[s] = "checks" /\ handler'[s] = "gone"
    BY <1>6, FramesTyped DEF Refuse, Return, Inv, TypeOK
  <2>2. /\ StageOf(s) = "new" /\ StageOf(s)' = "over" /\ NextPrice' = NextPrice
        /\ Feed' = [Feed EXCEPT ![s] = Append(Feed[s], Frame("refused"))]
    BY <1>4, <1>6, <2>1
  <2> QED
    BY <1>1, <1>2, <2>2, OneStream DEF PF!Refuse, PF!Turn, PF!Say, Frame
<1>7. CASE Wanted(s) /\ StreamPricingFails(s)
  <2>1. /\ ToBrowser(s, Frame("failed")) /\ Frame("failed") \in Frames
        /\ handler[s] = "pricing" /\ handler'[s] = "gone"
    BY <1>7, FramesTyped DEF StreamPricingFails, Return, Inv, TypeOK
  <2>2. /\ StageOf(s) = "open" /\ StageOf(s)' = "over" /\ NextPrice' = NextPrice
        /\ Feed' = [Feed EXCEPT ![s] = Append(Feed[s], Frame("failed"))]
    BY <1>4, <1>7, <2>1
  <2> QED
    BY <1>1, <1>2, <2>2, OneStream DEF PF!Fail, PF!Turn, PF!Say, Frame
<1> QED
  BY <1>3, <1>5, <1>6, <1>7

LEMMA StartMapped ==
    ASSUME Inv, NEW s \in Streams, StreamPricing(s)
    PROVE  PF!Start(s) \/ UNCHANGED PF!vars
<1>1. StepOf(s)
  BY DEF StepOf, HandlerStep
<1>2. /\ handler[s] = "pricing" /\ handler'[s] = "relay" /\ producer[s] = "none" /\ producer'[s] = "scan"
      /\ UNCHANGED <<ws, frames, held, scanned, upstream, tick>>
  BY DEF StreamPricing, pageVars, Inv, TypeOK, StreamInv, Together
<1>3. FeedOf(s)' = FeedOf(s)
  <2>1. Sent(s)' = Sent(s)
    BY <1>2 DEF Sent
  <2>2. ToHandOver(s)' = ToHandOver(s)
    BY <1>2, <2>1 DEF ToHandOver, Place
  <2> QED
    BY <1>2, <2>2 DEF FeedOf, ToWrite, Place, Wanted
<1>4. CASE ~Wanted(s)
  BY <1>1, <1>2, <1>3, <1>4, NobodyListens, Unnoticed
<1>5. CASE Wanted(s)
  <2>1. StageOf(s) = "open" /\ StageOf(s)' = "feeding"
    BY <1>2, <1>5 DEF StageOf, Wanted
  <2>2. Feed' = Feed /\ NextPrice' = NextPrice
    BY <1>1, <1>2, <1>3, OneStream DEF Feed, NextPrice
  <2> QED
    BY <1>1, <1>2, <2>1, <2>2, OneStream DEF PF!Start, PF!Turn
<1> QED
  BY <1>4, <1>5

\* A price that moves from one place to the next keeps its place in the queue.
LEMMA WriteMapped ==
    ASSUME Inv, NEW s \in Streams, Write(s)
    PROVE  UNCHANGED PF!vars
<1>1. StepOf(s)
  BY DEF StepOf, HandlerStep
<1>2. /\ handler[s] = "write" /\ handler'[s] = "relay" /\ ToBrowser(s, PriceFrame(held[s]))
      /\ UNCHANGED <<ws, producer, scanned, upstream, tick>>
  BY DEF Write, pageVars, Inv, TypeOK
<1>3. StageOf(s)' = StageOf(s)
  BY <1>2 DEF StageOf, Wanted
<1>4. CASE ~Wanted(s)
  BY <1>1, <1>2, <1>3, <1>4, NobodyListens, Unnoticed
<1>5. CASE Wanted(s)
  <2>1. PriceFrame(held[s]) \in Frames
    BY FramesTyped DEF Inv, TypeOK
  <2>2. frames[s] \in Seq(Frames) /\ ToHandOver(s) \in Seq(Frames)
    BY QueueTyped DEF Inv
  <2>3. frames'[s] = Append(frames[s], PriceFrame(held[s]))
    <3>1. ws[s] \in {"connecting", "open"}
      BY <1>2, <1>5 DEF Inv, StreamInv, Together, Wanted
    <3> QED
      BY <1>2, <3>1 DEF ToBrowser, Inv, TypeOK
  <2>4. ToHandOver(s)' = ToHandOver(s)
    <3>1. Sent(s)' = Sent(s)
      BY <1>2 DEF Sent
    <3> QED
      BY <1>2, <3>1 DEF ToHandOver, Place
  <2>5. ToWrite(s) = <<PriceFrame(held[s])>> \o ToHandOver(s)
    BY <1>2 DEF ToWrite, Place
  <2>6. ToWrite(s)' = ToHandOver(s)
    <3>1. ToWrite(s)' = <<>> \o ToHandOver(s)
      BY <1>2, <2>4 DEF ToWrite, Place
    <3> QED
      BY <2>2, <3>1, ConcatEmptySeq
  <2>7. FeedOf(s) = frames[s] \o (<<PriceFrame(held[s])>> \o ToHandOver(s))
    BY <1>5, <2>5 DEF FeedOf
  <2>8. FeedOf(s)' = Append(frames[s], PriceFrame(held[s])) \o ToHandOver(s)
    BY <1>2, <1>5, <2>3, <2>6 DEF FeedOf, Wanted
  <2>9. FeedOf(s)' = FeedOf(s)
    BY <2>1, <2>2, <2>7, <2>8, AppendMoves
  <2> QED
    BY <1>1, <1>2, <1>3, <2>9, Unnoticed
<1> QED
  BY <1>4, <1>5

LEMMA ScanMapped ==
    ASSUME Inv, NEW s \in Streams, Scan(s)
    PROVE  UNCHANGED PF!vars
<1> DEFINE f == upstream[s]
<1>1. StepOf(s)
  BY DEF StepOf, ProducerStep
<1>2. /\ producer[s] = "scan" /\ producer'[s] = "send" /\ scanned'[s] = Head(f) /\ Len(f) > 1
      /\ UNCHANGED <<ws, frames, handler, held, tick>>
  BY DEF Scan, pageVars, Inv, TypeOK
<1>3. /\ f \in Seq(Prices) /\ Len(f) \in Nat /\ Head(f) = f[1] /\ f[1] \in Prices
      /\ Len(upstream'[s]) = Len(f) - 1 /\ \A n \in 1..Len(f) - 1 : upstream'[s][n] = f[n + 1]
  <2>1. f \in Seq(Prices) /\ Len(f) \in Nat /\ 1 \in 1..Len(f)
    BY <1>2 DEF Inv, TypeOK
  <2>2. /\ Len(upstream'[s]) = Len(f) - 1
        /\ \A n \in 1..Len(upstream'[s]) : upstream'[s][n] = f[n + 1]
    BY PriceTaken DEF Scan
  <2> QED
    BY <2>1, <2>2, ElementOfSeq
<1>4. /\ Sent(s) \in Seq(Frames) /\ Len(Sent(s)) = Len(f) - 1
      /\ (Sent(s)') \in Seq(Frames) /\ Len(Sent(s)') = Len(f) - 2
  <2>1. TypeOK /\ TypeOK'
    BY <1>1, StepInv DEF Inv
  <2>2. SentTypes /\ SentTypes'
    <3>1. SentTypes
      BY <2>1, SentAlwaysTyped
    <3>2. SentTypes'
      BY <2>1, SentAlwaysTyped, PTL
    <3> QED
      BY <3>1, <3>2
  <2>3. Sent(s) \in Seq(Frames) /\ Len(Sent(s)) = Len(f) - 1
    BY <2>2 DEF SentTypes
  <2>4. (Sent(s)') \in Seq(Frames) /\ Len(Sent(s)') = Len(upstream'[s]) - 1
    BY <2>2 DEF SentTypes
  <2> QED
    BY <1>3, <2>3, <2>4
<1>5. Sent(s) = <<PriceFrame(f[1])>> \o Sent(s)'
  <2>1. \A n \in 1..Len(f) - 1 : Sent(s)[n] = PriceFrame(f[n])
    BY DEF Sent
  <2>2. \A n \in 1..Len(f) - 2 : (Sent(s)')[n] = PriceFrame(upstream'[s][n])
    <3>1. \A n \in 1..Len(upstream'[s]) - 1 : (Sent(s)')[n] = PriceFrame(upstream'[s][n])
      BY DEF Sent
    <3>2. Len(upstream'[s]) - 1 = Len(f) - 2
      BY <1>3
    <3> QED
      BY <3>1, <3>2
  <2>3. ASSUME NEW n \in 1..Len(Sent(s)')
        PROVE  Sent(s)[n + 1] = (Sent(s)')[n]
    <3>1. n \in 1..Len(f) - 2 /\ n \in 1..Len(f) - 1 /\ n + 1 \in 1..Len(f) - 1
      BY <1>3, <1>4
    <3>2. (Sent(s)')[n] = PriceFrame(f[n + 1])
      BY <1>3, <2>2, <3>1
    <3> QED
      BY <2>1, <3>1, <3>2
  <2>4. PriceFrame(f[1]) \in Frames /\ Sent(s)[1] = PriceFrame(f[1])
    BY <1>2, <1>3, <2>1, FramesTyped
  <2>5. Len(Sent(s)) = Len(Sent(s)') + 1
    BY <1>3, <1>4
  <2> QED
    BY <1>4, <2>3, <2>4, <2>5, Preceded
<1>6. ToHandOver(s)' = ToHandOver(s)
  <2>1. ToHandOver(s) = <<>> \o Sent(s)
    BY <1>2 DEF ToHandOver, Place
  <2>2. ToHandOver(s)' = <<PriceFrame(f[1])>> \o Sent(s)'
    BY <1>2, <1>3 DEF ToHandOver, Place
  <2> QED
    BY <1>4, <1>5, <2>1, <2>2, ConcatEmptySeq
<1>7. FeedOf(s)' = FeedOf(s)
  BY <1>2, <1>6 DEF FeedOf, ToWrite, Place, Wanted
<1>8. StageOf(s)' = StageOf(s)
  BY <1>2 DEF StageOf, Wanted
<1>9. upstream'[s][Len(upstream'[s])] = f[Len(f)]
  <2>1. Len(f) - 1 \in 1..Len(f) - 1 /\ Len(f) - 1 + 1 = Len(f)
    BY <1>2, <1>3
  <2> QED
    BY <1>3, <2>1
<1> QED
  BY <1>1, <1>2, <1>7, <1>8, <1>9, Unnoticed

LEMMA SendMapped ==
    ASSUME Inv, NEW s \in Streams, Send(s)
    PROVE  UNCHANGED PF!vars
<1>1. StepOf(s)
  BY DEF StepOf, ProducerStep
<1>2. /\ producer[s] = "send" /\ producer'[s] = "scan" /\ handler[s] = "relay" /\ handler'[s] = "write"
      /\ held'[s] = scanned[s] /\ UNCHANGED <<ws, frames, upstream, tick>>
  BY DEF Send, pageVars, Inv, TypeOK
<1>3. Sent(s) \in Seq(Frames) /\ Sent(s)' = Sent(s)
  BY <1>2, SentTyped DEF Sent, Inv
<1> DEFINE price == <<PriceFrame(scanned[s])>>
<1>4. price \in Seq(Frames)
  <2>1. PriceFrame(scanned[s]) \in Frames
    BY FramesTyped DEF Inv, TypeOK
  <2> QED
    BY <2>1
<1>5. ToWrite(s) = <<>> \o (price \o Sent(s))
  BY <1>2 DEF ToWrite, ToHandOver, Place
<1>6. ToWrite(s)' = price \o (<<>> \o Sent(s))
  BY <1>2, <1>3 DEF ToWrite, ToHandOver, Place
<1> HIDE DEF price
<1>7. ToWrite(s)' = ToWrite(s)
  <2>1. price \o Sent(s) \in Seq(Frames)
    BY <1>3, <1>4, ConcatProperties
  <2> QED
    BY <1>3, <1>5, <1>6, <2>1, ConcatEmptySeq
<1>8. FeedOf(s)' = FeedOf(s) /\ StageOf(s)' = StageOf(s)
  BY <1>2, <1>7 DEF FeedOf, StageOf, Wanted
<1> QED
  BY <1>1, <1>2, <1>8, Unnoticed

LEMMA StopMapped ==
    ASSUME Inv, NEW s \in Streams, StopProducer(s)
    PROVE  UNCHANGED PF!vars
<1>1. StepOf(s)
  BY DEF StepOf, ProducerStep
<1>2. handler[s] = "gone" /\ UNCHANGED <<ws, frames, handler, upstream, tick>>
  BY DEF StopProducer, Cancelled, pageVars
<1>3. FeedOf(s)' = FeedOf(s) /\ StageOf(s)' = StageOf(s)
  BY <1>2 DEF FeedOf, ToWrite, StageOf, Wanted
<1> QED
  BY <1>1, <1>2, <1>3, Unnoticed

LEMMA PriceMapped ==
    ASSUME Inv, NEW s \in Streams, Price(s)
    PROVE  PF!Price(s)
<1> DEFINE f == upstream[s]
           price == PriceFrame(f[Len(f)])
<1>1. StepOf(s)
  BY DEF StepOf
<1>2. /\ producer[s] \in {"scan", "send"} /\ Len(f) <= Buffer
      /\ UNCHANGED <<ws, frames, handler, held, producer, scanned, tick>>
  BY DEF Price, pageVars, gatewayVars
<1>3. /\ f \in Seq(Prices) /\ Len(f) \in Nat /\ Len(f) >= 1 /\ f[Len(f)] \in Prices
      /\ Len(upstream'[s]) = Len(f) + 1 /\ upstream'[s][Len(f) + 1] = Successor(f[Len(f)])
      /\ \A n \in 1..Len(f) : upstream'[s][n] = f[n]
  <2>1. f \in Seq(Prices) /\ Len(f) \in Nat /\ Len(f) >= 1
    BY DEF Inv, TypeOK
  <2>2. f[Len(f)] \in Prices
    BY <2>1, ElementOfSeq
  <2> QED
    BY <2>1, <2>2, PriceSent
<1>4. NextPrice[s] = f[Len(f)] /\ NextPrice' = [NextPrice EXCEPT ![s] = (f[Len(f)] + 1) % Numbers]
  BY <1>1, <1>3, OneStream DEF Successor
<1>5. StageOf(s)' = StageOf(s) /\ Stage' = Stage
  <2>1. StageOf(s)' = StageOf(s)
    BY <1>2 DEF StageOf, Wanted
  <2> QED
    BY <1>1, <2>1, OneStream DEF Stage
<1>6. CASE ~Wanted(s) \/ handler[s] = "gone"
  <2>1. StageOf(s) = "over"
    BY <1>6 DEF StageOf
  <2>2. FeedOf(s)' = FeedOf(s)
    BY <1>2, <1>6 DEF FeedOf, ToWrite, Wanted
  <2>3. Feed' = Feed
    BY <1>1, <2>2, OneStream DEF Feed
  <2>4. Stage[s] = "over"
    BY <1>1, <2>1, OneStream
  <2> QED
    BY <1>2, <1>4, <1>5, <2>3, <2>4 DEF PF!Price
<1>7. CASE Wanted(s) /\ handler[s] # "gone"
  <2>1. StageOf(s) = "feeding"
    BY <1>2, <1>7 DEF StageOf, Inv, StreamInv, Together
  <2>2. price \in Frames
    BY <1>3, FramesTyped
  <2>3. Sent(s)' = Append(Sent(s), price)
    <3>1. SentTypes /\ SentTypes'
      <4>1. TypeOK /\ TypeOK'
        BY <1>1, StepInv DEF Inv
      <4>2. SentTypes
        BY <4>1, SentAlwaysTyped
      <4>3. SentTypes'
        BY <4>1, SentAlwaysTyped, PTL
      <4> QED
        BY <4>2, <4>3
    <3>2. /\ Sent(s) \in Seq(Frames) /\ Len(Sent(s)) = Len(f) - 1
          /\ (Sent(s)') \in Seq(Frames) /\ Len(Sent(s)') = Len(f)
      <4>1. Sent(s) \in Seq(Frames) /\ Len(Sent(s)) = Len(f) - 1
        BY <3>1 DEF SentTypes
      <4>2. (Sent(s)') \in Seq(Frames) /\ Len(Sent(s)') = Len(upstream'[s]) - 1
        BY <3>1 DEF SentTypes
      <4> QED
        BY <1>3, <4>1, <4>2
    <3>3. \A n \in 1..Len(f) - 1 : Sent(s)[n] = PriceFrame(f[n])
      BY DEF Sent
    <3>4. \A n \in 1..Len(f) : (Sent(s)')[n] = PriceFrame(f[n])
      <4>1. \A n \in 1..Len(upstream'[s]) - 1 : (Sent(s)')[n] = PriceFrame(upstream'[s][n])
        BY DEF Sent
      <4>2. Len(upstream'[s]) - 1 = Len(f)
        BY <1>3
      <4> QED
        BY <1>3, <4>1, <4>2
    <3>5. ASSUME NEW n \in 1..Len(Sent(s))
          PROVE  (Sent(s)')[n] = Sent(s)[n]
      <4>1. n \in 1..Len(f) - 1 /\ n \in 1..Len(f)
        BY <1>3, <3>2
      <4> QED
        BY <3>3, <3>4, <4>1
    <3>6. Len(f) \in 1..Len(f)
      BY <1>3
    <3>7. (Sent(s)')[Len(f)] = price
      BY <3>4, <3>6
    <3>8. Len(Sent(s)) + 1 = Len(f)
      BY <1>3, <3>2
    <3> HIDE DEF price, f
    <3> QED
      BY <2>2, <3>2, <3>5, <3>7, <3>8, Followed
  <2> DEFINE scan == Place(producer[s] = "send", scanned[s])
             write == Place(handler[s] = "write", held[s])
  <2>4. /\ Sent(s) \in Seq(Frames) /\ ToHandOver(s) \in Seq(Frames)
        /\ ToWrite(s) \in Seq(Frames) /\ frames[s] \in Seq(Frames)
    BY SentTyped, QueueTyped DEF Inv
  <2>5. scan \in Seq(Frames) /\ write \in Seq(Frames)
    <3>1. (producer[s] = "send") \in BOOLEAN /\ (handler[s] = "write") \in BOOLEAN
      OBVIOUS
    <3>2. held[s] \in Prices /\ scanned[s] \in Prices
      BY DEF Inv, TypeOK
    <3> QED
      BY <3>1, <3>2, PlaceTyped
  <2>6. scan' = scan /\ write' = write
    BY <1>2 DEF Place
  <2> HIDE DEF price
  <2>7. ToHandOver(s)' = Append(ToHandOver(s), price)
    <3>1. ToHandOver(s) = scan \o Sent(s) /\ ToHandOver(s)' = scan' \o Sent(s)'
      BY <1>2 DEF ToHandOver
    <3>2. scan \in Seq(Frames) /\ Sent(s) \in Seq(Frames) /\ price \in Frames
      BY <2>2, <2>4, <2>5
    <3> HIDE DEF scan
    <3>3. ToHandOver(s)' = scan \o Sent(s)'
      BY <2>6, <3>1
    <3> QED
      BY <2>3, <3>1, <3>2, <3>3, PushedThrough
  <2>8. ToWrite(s)' = Append(ToWrite(s), price)
    <3>1. ToWrite(s) = write \o ToHandOver(s) /\ ToWrite(s)' = write' \o ToHandOver(s)'
      BY <1>2, <1>7 DEF ToWrite
    <3> HIDE DEF write
    <3>2. write \in Seq(Frames) /\ ToHandOver(s) \in Seq(Frames) /\ price \in Frames
      BY <2>2, <2>4, <2>5
    <3>3. ToWrite(s)' = write \o ToHandOver(s)'
      BY <2>6, <3>1
    <3> QED
      BY <2>7, <3>1, <3>2, <3>3, PushedThrough
  <2>9. FeedOf(s)' = Append(FeedOf(s), price)
    <3> DEFINE flying == frames[s]
    <3>1. FeedOf(s) = flying \o ToWrite(s) /\ FeedOf(s)' = flying \o ToWrite(s)'
      BY <1>2, <1>7 DEF FeedOf, Wanted
    <3>2. flying \in Seq(Frames) /\ ToWrite(s) \in Seq(Frames) /\ price \in Frames
      BY <2>2, <2>4
    <3> HIDE DEF flying
    <3> QED
      BY <2>8, <3>1, <3>2, PushedThrough
  <2>10. Len(FeedOf(s)) < 2 * Buffer + 3
    BY <1>2, QueueTyped DEF Inv
  <2>11. /\ Stage[s] = "feeding" /\ Len(Feed[s]) < 2 * Buffer + 3
         /\ Feed' = [Feed EXCEPT ![s] = Append(Feed[s], price)]
    BY <1>1, <2>1, <2>9, <2>10, OneStream
  <2>12. price = [kind |-> "price", price |-> NextPrice[s]]
    BY <1>4 DEF price, PriceFrame
  <2> QED
    BY <1>2, <1>4, <1>5, <2>11, <2>12 DEF PF!Price, PF!Say
<1> QED
  BY <1>6, <1>7

\* A goroutine that ends takes what it has not handed over with it.
LEMMA UpstreamEndsMapped ==
    ASSUME Inv, NEW s \in Streams, UpstreamEnds(s)
    PROVE  PF!Break({s})
<1>1. StepOf(s) /\ TypeOK'
  BY StepInv DEF StepOf, Inv
<1>2. /\ producer[s] = "scan" /\ producer'[s] = "ended"
      /\ UNCHANGED <<ws, frames, handler, held, upstream, tick>>
  BY DEF UpstreamEnds, pageVars, Inv, TypeOK
<1>3. StageOf(s)' = "over"
  BY <1>2 DEF StageOf
<1>4. <<>> \in Seq(Frames) /\ FeedOf(s) \in Seq(Frames)
  BY QueueTyped, EmptySeq DEF Inv
<1>5. CASE ~Wanted(s) \/ handler[s] = "gone"
  <2>1. FeedOf(s)' = FeedOf(s)
    BY <1>2, <1>5 DEF FeedOf, ToWrite, Wanted
  <2>2. FeedOf(s) = FeedOf(s)' \o <<>>
    BY <1>4, <2>1, ConcatEmptySeq
  <2> QED
    BY <1>1, <1>2, <1>3, <1>4, <2>2, OneBreaks
<1>6. CASE Wanted(s) /\ handler[s] # "gone"
  <2> DEFINE write == Place(handler[s] = "write", held[s])
  <2>1. ToHandOver(s) \in Seq(Frames) /\ frames[s] \in Seq(Frames)
    BY QueueTyped DEF Inv
  <2>2. write \in Seq(Frames) /\ write' = write
    <3>1. (handler[s] = "write") \in BOOLEAN /\ held[s] \in Prices
      BY DEF Inv, TypeOK
    <3>2. write \in Seq(Frames)
      BY <3>1, PlaceTyped
    <3>3. write' = write
      BY <1>2 DEF Place
    <3> QED
      BY <3>2, <3>3
  <2>3. FeedOf(s) = frames[s] \o (write \o ToHandOver(s))
    BY <1>6 DEF FeedOf, ToWrite
  <2>4. FeedOf(s)' = frames[s] \o (write' \o <<>>)
    BY <1>2, <1>6 DEF FeedOf, ToWrite, ToHandOver, Wanted
  <2> HIDE DEF write
  <2>5. FeedOf(s)' = frames[s] \o write
    BY <2>2, <2>4, ConcatEmptySeq
  <2>6. FeedOf(s) = FeedOf(s)' \o ToHandOver(s)
    <3> DEFINE flying == frames[s]
    <3>1. flying \in Seq(Frames) /\ write \in Seq(Frames) /\ ToHandOver(s) \in Seq(Frames)
      BY <2>1, <2>2
    <3>2. FeedOf(s) = flying \o (write \o ToHandOver(s)) /\ FeedOf(s)' = flying \o write
      BY <2>3, <2>5
    <3> HIDE DEF flying
    <3> QED
      BY <3>1, <3>2, CutAfter
  <2> QED
    BY <1>1, <1>2, <1>3, <2>1, <2>6, OneBreaks
<1> QED
  BY <1>5, <1>6

\* So does a handler that returns.
HandlerGone(s) == handler'[s] = "gone" /\ UNCHANGED <<ws[s], frames[s]>>

LEMMA GoneQueue ==
    ASSUME TypeOK, NEW s \in Streams, HandlerGone(s)
    PROVE  /\ StageOf(s)' = "over"
           /\ \E rest \in Seq(Frames) : FeedOf(s) = FeedOf(s)' \o rest
<1>1. StageOf(s)' = "over"
  BY DEF HandlerGone, StageOf
<1>2. <<>> \in Seq(Frames) /\ frames[s] \in Seq(Frames) /\ ToWrite(s) \in Seq(Frames)
  BY QueueTyped, EmptySeq
<1>3. CASE ~Wanted(s)
  <2>1. FeedOf(s) = <<>> /\ FeedOf(s)' = <<>>
    BY <1>3 DEF FeedOf, Wanted, HandlerGone
  <2>2. FeedOf(s) = FeedOf(s)' \o <<>>
    BY <1>2, <2>1, ConcatEmptySeq
  <2> QED
    BY <1>1, <1>2, <2>2
<1>4. CASE Wanted(s)
  <2>1. FeedOf(s) = frames[s] \o ToWrite(s) /\ FeedOf(s)' = frames[s] \o <<>>
    BY <1>4 DEF FeedOf, ToWrite, Wanted, HandlerGone
  <2>2. FeedOf(s)' = frames[s]
    BY <1>2, <2>1, ConcatEmptySeq
  <2> QED
    BY <1>1, <1>2, <2>1, <2>2
<1> QED
  BY <1>3, <1>4

LEMMA LeaveMapped ==
    ASSUME Inv, NEW s \in Streams, WriteFails(s) \/ TicksEnd(s)
    PROVE  PF!Break({s})
<1>1. StepOf(s) /\ TypeOK'
  BY StepInv DEF StepOf, HandlerStep, Inv
<1>2. HandlerGone(s) /\ UNCHANGED <<upstream, tick>>
  BY DEF WriteFails, TicksEnd, Return, pageVars, HandlerGone, Inv, TypeOK
<1>3. PICK rest \in Seq(Frames) : FeedOf(s) = FeedOf(s)' \o rest
  BY <1>2, GoneQueue DEF Inv
<1>4. StageOf(s)' = "over"
  BY <1>2, GoneQueue DEF Inv
<1> QED
  BY <1>1, <1>2, <1>3, <1>4, OneBreaks

-----------------------------------------------------------------------------
(* The page and the process. *)

\* Of a stream whose socket is closed nothing more is heard.
LEMMA ClosedQueue ==
    ASSUME TypeOK, NEW s \in Streams, ws'[s] \in {"aborting", "closing"}
    PROVE  /\ StageOf(s)' = "over"
           /\ \E rest \in Seq(Frames) : FeedOf(s) = FeedOf(s)' \o rest
<1>1. StageOf(s)' = "over" /\ FeedOf(s)' = <<>>
  BY DEF StageOf, FeedOf, Wanted
<1>2. FeedOf(s) \in Seq(Frames)
  BY QueueTyped
<1>3. FeedOf(s) = FeedOf(s)' \o FeedOf(s)
  BY <1>1, <1>2, ConcatEmptySeq
<1> QED
  BY <1>1, <1>2, <1>3

LEMMA HideStreamMapped ==
    ASSUME Inv, TypeOK', HideStream
    PROVE  \E broken \in SUBSET Streams : PF!Break(broken)
<1> DEFINE broken == {u \in Streams : ws'[u] # ws[u]}
<1>1. ws' = CleanUp(ws) /\ UNCHANGED <<tick, frames, handler, held, producer, scanned, upstream>>
  BY DEF HideStream, gatewayVars
<1>2. \A u \in broken : ws'[u] \in {"aborting", "closing"}
  BY <1>1, CleanUpTyped
<1>3. \A u \in broken : /\ StageOf(u)' = "over"
                        /\ \E rest \in Seq(Frames) : FeedOf(u) = FeedOf(u)' \o rest
  BY <1>2, ClosedQueue DEF Inv
<1>4. ASSUME NEW u \in Streams \ broken
      PROVE  StageOf(u)' = StageOf(u) /\ FeedOf(u)' = FeedOf(u)
  <2>1. UNCHANGED <<ws[u], handler[u], held[u], producer[u], scanned[u], frames[u], upstream[u]>>
    BY <1>1
  <2> QED
    BY <2>1, QueueKept
<1>5. UNCHANGED <<NextPrice, tick>>
  BY <1>1 DEF NextPrice
<1>6. broken \in SUBSET Streams
  OBVIOUS
<1> HIDE DEF broken
<1>7. PF!Break(broken)
  BY <1>3, <1>4, <1>5, <1>6, Breaks DEF Inv
<1> QED
  BY <1>6, <1>7

LEMMA ShowSymbolMapped ==
    ASSUME Inv, TypeOK', NEW s \in Streams, ShowSymbol(s)
    PROVE  \E broken \in SUBSET Streams : PF!Break(broken)
<1> DEFINE broken == {u \in Streams \ {s} : ws'[u] # ws[u]}
<1>1. /\ ws[s] = "none" /\ ws'[s] = "connecting" /\ handler[s] = "none" /\ handler'[s] = "checks"
      /\ producer[s] = "none"
      /\ \A u \in Streams \ {s} : ws'[u] = CleanUp(ws)[u] /\ handler'[u] = handler[u]
      /\ UNCHANGED <<tick, frames, held, producer, scanned, upstream>>
  <2>1. handler[s] = "none" /\ producer[s] = "none"
    BY DEF ShowSymbol, Inv, StreamInv, Together
  <2>2. CleanUp(ws) \in [Streams -> {"none", "connecting", "open", "aborting", "closing", "closed"}]
    BY CleanUpTyped
  <2> QED
    BY <2>1, <2>2 DEF ShowSymbol, Inv, TypeOK
<1>2. \A u \in broken : ws'[u] \in {"aborting", "closing"}
  BY <1>1, CleanUpTyped
<1>3. \A u \in broken : /\ StageOf(u)' = "over"
                        /\ \E rest \in Seq(Frames) : FeedOf(u) = FeedOf(u)' \o rest
  BY <1>2, ClosedQueue DEF Inv
<1>4. ASSUME NEW u \in Streams \ broken
      PROVE  StageOf(u)' = StageOf(u) /\ FeedOf(u)' = FeedOf(u)
  <2>1. CASE u # s
    <3>1. UNCHANGED <<ws[u], handler[u], held[u], producer[u], scanned[u], frames[u], upstream[u]>>
      BY <1>1, <2>1
    <3> QED
      BY <3>1, QueueKept
  <2>2. CASE u = s
    <3>1. StageOf(s)' = StageOf(s)
      BY <1>1 DEF StageOf, Wanted
    <3>2. ToHandOver(s)' = ToHandOver(s)
      <4>1. Sent(s)' = Sent(s)
        BY <1>1 DEF Sent
      <4> QED
        BY <1>1, <4>1 DEF ToHandOver, Place
    <3>3. FeedOf(s)' = FeedOf(s)
      BY <1>1, <3>2 DEF FeedOf, ToWrite, Place, Wanted
    <3> QED
      BY <2>2, <3>1, <3>3
  <2> QED
    BY <2>1, <2>2
<1>5. UNCHANGED <<NextPrice, tick>>
  BY <1>1 DEF NextPrice
<1>6. broken \in SUBSET Streams
  OBVIOUS
<1> HIDE DEF broken
<1>7. PF!Break(broken)
  BY <1>3, <1>4, <1>5, <1>6, Breaks DEF Inv
<1> QED
  BY <1>6, <1>7

LEMMA GatewayDiesMapped ==
    ASSUME Inv, TypeOK', GatewayDies
    PROVE  \E broken \in SUBSET Streams : PF!Break(broken)
<1> DEFINE broken == {u \in Streams : handler[u] # "none"}
<1>1. UNCHANGED <<ws, frames, upstream, tick>>
  BY DEF GatewayDies, pageVars
<1>2. \A u \in broken : HandlerGone(u)
  BY <1>1 DEF GatewayDies, HandlerGone
<1>3. \A u \in broken : /\ StageOf(u)' = "over"
                        /\ \E rest \in Seq(Frames) : FeedOf(u) = FeedOf(u)' \o rest
  BY <1>2, GoneQueue DEF Inv
<1>4. ASSUME NEW u \in Streams \ broken
      PROVE  StageOf(u)' = StageOf(u) /\ FeedOf(u)' = FeedOf(u)
  <2>1. /\ handler[u] = "none" /\ producer[u] = "none"
        /\ handler'[u] = "none" /\ producer'[u] = "none"
    BY DEF GatewayDies, Inv, StreamInv, Together
  <2>2. StageOf(u)' = StageOf(u)
    BY <1>1, <2>1 DEF StageOf, Wanted
  <2>3. ToHandOver(u)' = ToHandOver(u)
    <3>1. Sent(u)' = Sent(u)
      BY <1>1 DEF Sent
    <3> QED
      BY <2>1, <3>1 DEF ToHandOver, Place
  <2>4. FeedOf(u)' = FeedOf(u)
    BY <1>1, <2>1, <2>3 DEF FeedOf, ToWrite, Place, Wanted
  <2> QED
    BY <2>2, <2>4
<1>5. UNCHANGED <<NextPrice, tick>>
  BY <1>1 DEF NextPrice
<1>6. broken \in SUBSET Streams
  OBVIOUS
<1> HIDE DEF broken
<1>7. PF!Break(broken)
  BY <1>3, <1>4, <1>5, <1>6, Breaks DEF Inv
<1> QED
  BY <1>6, <1>7

-----------------------------------------------------------------------------
LEMMA InitMapped == Init => PF!Init
<1> SUFFICES ASSUME Init
             PROVE  PF!Init
  OBVIOUS
<1>1. QuietFirst
  BY InitInv, NothingSentInit, QuietBefore
<1>2. ASSUME NEW s \in Streams
      PROVE  StageOf(s) = "new" /\ FeedOf(s) = <<>> /\ upstream[s][Len(upstream[s])] = 0
  <2>1. ToWrite(s) = <<>>
    BY <1>1 DEF QuietFirst, Init
  <2>2. <<>> \o <<>> = <<>>
    BY EmptySeq, ConcatEmptySeq
  <2>3. FeedOf(s) = <<>>
    BY <2>1, <2>2 DEF FeedOf, Init
  <2> QED
    BY <2>3 DEF Init, StageOf, Wanted
<1> QED
  BY <1>2 DEF PF!Init, Stage, Feed, NextPrice, Init, NoTick

LEMMA NextMapped ==
    ASSUME Inv, NothingSentYet, Inv', NothingSentYet', [Next]_vars
    PROVE  [PF!Next]_(PF!vars)
<1>1. QuietFirst /\ QuietFirst'
  <2>1. QuietFirst
    BY QuietBefore
  <2>2. QuietFirst'
    BY QuietBefore, PTL
  <2> QED
    BY <2>1, <2>2
<1>2. TypeOK'
  BY DEF Inv
<1>3. CASE UNCHANGED vars
  <2>1. UNCHANGED <<tick, ws, frames, handler, held, producer, scanned, upstream>>
    BY <1>3 DEF vars, pageVars, gatewayVars
  <2>2. \A u \in Streams : StageOf(u)' = StageOf(u) /\ FeedOf(u)' = FeedOf(u)
    BY <2>1, QueueKept
  <2> QED
    BY <2>1, <2>2 DEF PF!vars, Stage, Feed, NextPrice
<1>4. CASE HideStream
  BY <1>2, <1>4, HideStreamMapped DEF PF!Next
<1>5. CASE GatewayDies
  BY <1>2, <1>5, GatewayDiesMapped DEF PF!Next
<1>6. ASSUME NEW s \in Streams, ShowSymbol(s)
      PROVE  [PF!Next]_(PF!vars)
  BY <1>2, <1>6, ShowSymbolMapped DEF PF!Next
<1>7. ASSUME NEW s \in Streams, StepOf(s)
      PROVE  [PF!Next]_(PF!vars)
  <2>1. {s} \in SUBSET Streams
    OBVIOUS
  <2>2. CASE OnOpen(s) \/ OnMessage(s)
    BY <2>2, HearMapped DEF PF!Next
  <2>3. CASE OnClose(s)
    BY <1>2, <2>1, <2>3, OnCloseMapped DEF PF!Next
  <2>4. CASE Upgrade(s) \/ Refuse(s) \/ StreamPricingFails(s)
    BY <1>1, <2>4, AnswerMapped DEF PF!Next
  <2>5. CASE StreamPricing(s)
    BY <2>5, StartMapped DEF PF!Next
  <2>6. CASE Write(s)
    BY <2>6, WriteMapped
  <2>7. CASE WriteFails(s) \/ TicksEnd(s)
    BY <2>1, <2>7, LeaveMapped DEF PF!Next
  <2>8. CASE ProducerStep(s)
    BY <2>8, ScanMapped, SendMapped, StopMapped DEF ProducerStep
  <2>9. CASE Price(s)
    BY <2>9, PriceMapped DEF PF!Next
  <2>10. CASE UpstreamEnds(s)
    BY <2>1, <2>10, UpstreamEndsMapped DEF PF!Next
  <2> QED
    BY <1>7, <2>2, <2>3, <2>4, <2>5, <2>6, <2>7, <2>8, <2>9, <2>10 DEF StepOf, HandlerStep
<1> QED
  BY <1>3, <1>4, <1>5, <1>6, <1>7 DEF Next, StepOf

\* Goroutine, channel, handler and socket together are one queue per stream
\* that breaks only from the back, however many streams there are and however
\* deep their connections (stream_handlers.go:61-94, client.go:289-332,
\* useOandaStream.ts:36-50).
THEOREM QuoteStreamImplementsPriceFeed == Spec => ImplementsPriceFeed
<1>1. Init => PF!Init
  BY InitMapped
<1>2. Init => Inv /\ NothingSentYet
  BY InitInv, NothingSentInit
<1>3. Inv /\ NothingSentYet /\ [Next]_vars => (Inv /\ NothingSentYet)'
  BY NextInv, NothingSentNext
<1>4. (Inv /\ NothingSentYet) /\ (Inv /\ NothingSentYet)' /\ [Next]_vars => [PF!Next]_(PF!vars)
  BY NextMapped
<1> QED
  BY <1>1, <1>2, <1>3, <1>4, PTL DEF Spec, ImplementsPriceFeed, PF!Spec
=============================================================================
