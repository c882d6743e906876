---------------------------- MODULE QuoteStream ----------------------------
(***************************************************************************)
(* GET /ws/quotes: the gateway's handler (internal/httpapi/                *)
(* stream_handlers.go), the goroutine that reads OANDA's price stream for  *)
(* it (internal/brokerage/oanda/client.go), and the page that shows it     *)
(* (web/src/hooks/useOandaStream.ts under web/src/pages/Market.tsx).       *)
(*                                                                         *)
(* A stream is one run of the hook's effect: one symbol, one WebSocket,    *)
(* one handler, one goroutine. The page stays on screen throughout.        *)
(***************************************************************************)
EXTENDS Naturals, Sequences

CONSTANTS
    Streams,
    NoStream,
    Buffer,     \* prices and frames a connection holds before its sender blocks
    Numbers     \* prices are numbered modulo this

ASSUME StreamAssumption ==
    /\ NoStream \notin Streams
    /\ Buffer \in Nat \ {0}
    /\ Numbers \in Nat /\ Numbers > 2

VARIABLES
    \* the page: the stream of the symbol on screen and the hook's state
    current, connected, tick, error,
    ws,         \* ws[s]: the browser's socket
    frames,     \* frames[s]: on their way from the gateway to the browser
    reset,      \* reset[s]: the gateway's kernel knows the browser is gone
    \* the gateway
    handler,    \* handler[s]: where handleStreamQuotes is
    held,       \* held[s]: the price it received and has not yet written
    producer,   \* producer[s]: where StreamPricing's goroutine is
    scanned,    \* scanned[s]: the price it is sending
    upstream    \* upstream[s]: prices on their way from OANDA, the next one last

pageVars == <<current, connected, tick, error>>
gatewayVars == <<handler, held, producer, scanned>>
vars == <<pageVars, ws, frames, reset, gatewayVars, upstream>>

Prices == 0..Numbers - 1
Frame(kind) == [kind |-> kind]
PriceFrame(n) == [kind |-> "price", price |-> n]
Frames == {Frame(kind) : kind \in {"101", "refused", "failed"}} \union {PriceFrame(n) : n \in Prices}
NoTick == [stream |-> NoStream, price |-> 0]
Successor(n) == (n + 1) % Numbers

TypeOK ==
    /\ current \in Streams \union {NoStream}
    /\ connected \in BOOLEAN
    /\ tick \in [stream : Streams \union {NoStream}, price : Prices]
    /\ error \in BOOLEAN
    /\ ws \in [Streams -> {"none", "connecting", "open", "aborting", "closing", "closed"}]
    /\ frames \in [Streams -> Seq(Frames)] /\ upstream \in [Streams -> Seq(Prices)]
    /\ \A s \in Streams : Len(frames[s]) <= Buffer + 1 /\ Len(upstream[s]) \in 1..Buffer + 1
    /\ reset \in [Streams -> BOOLEAN]
    /\ handler \in [Streams -> {"none", "checks", "pricing", "relay", "write", "gone"}]
    /\ held \in [Streams -> Prices]
    /\ producer \in [Streams -> {"none", "scan", "send", "ended"}]
    /\ scanned \in [Streams -> Prices]

Init ==
    /\ current = NoStream
    /\ connected = FALSE
    /\ tick = NoTick
    /\ error = FALSE
    /\ ws = [s \in Streams |-> "none"]
    /\ frames = [s \in Streams |-> <<>>]
    /\ reset = [s \in Streams |-> FALSE]
    /\ handler = [s \in Streams |-> "none"]
    /\ held = [s \in Streams |-> 0]
    /\ producer = [s \in Streams |-> "none"]
    /\ scanned = [s \in Streams |-> 0]
    /\ upstream = [s \in Streams |-> <<0>>]

-----------------------------------------------------------------------------
(* The page. *)

\* The effect's cleanup: ws.close(). A socket still connecting is aborted.
CleanUp(sockets) ==
    IF current = NoStream THEN sockets
    ELSE [sockets EXCEPT ![current] =
             CASE @ = "connecting" -> "aborting"
               [] @ = "open" -> "closing"
               [] OTHER -> @]

\* The symbol (or the broker) changes: the hook's state is left as it is.
ShowSymbol(s) ==
    /\ ws[s] = "none"
    /\ current' = s
    /\ ws' = [CleanUp(ws) EXCEPT ![s] = "connecting"]
    /\ handler' = [handler EXCEPT ![s] = "checks"]
    /\ UNCHANGED <<connected, tick, error, frames, reset, held, producer, scanned, upstream>>

HideStream ==
    /\ current # NoStream
    /\ current' = NoStream
    /\ ws' = CleanUp(ws)
    /\ UNCHANGED <<connected, tick, error, frames, reset, gatewayVars, upstream>>

OnOpen(s) ==
    /\ ws[s] = "connecting"
    /\ frames[s] # <<>> /\ Head(frames[s]).kind = "101"
    /\ frames' = [frames EXCEPT ![s] = Tail(@)]
    /\ ws' = [ws EXCEPT ![s] = "open"]
    /\ connected' = TRUE
    /\ error' = FALSE
    /\ UNCHANGED <<current, tick, reset, gatewayVars, upstream>>

OnMessage(s) ==
    /\ ws[s] = "open"
    /\ frames[s] # <<>>
    /\ frames' = [frames EXCEPT ![s] = Tail(@)]
    /\ IF Head(frames[s]).kind = "failed"
       THEN error' = TRUE /\ UNCHANGED tick
       ELSE tick' = [stream |-> s, price |-> Head(frames[s]).price] /\ error' = FALSE
    /\ UNCHANGED <<current, connected, ws, reset, gatewayVars, upstream>>

\* The socket ends and onclose fires, whichever symbol is on screen by then;
\* onerror fires first when the handshake failed, and may after a lost
\* connection.
OnClose(s) ==
    /\ \/ /\ ws[s] \in {"connecting", "aborting"}
          /\ error' = TRUE
       \/ /\ ws[s] = "open"
          /\ handler[s] = "gone" => frames[s] = <<>>
          /\ error' \in {error, TRUE}
       \/ /\ ws[s] = "closing"
          /\ UNCHANGED error
    /\ ws' = [ws EXCEPT ![s] = "closed"]
    /\ connected' = FALSE
    /\ frames' = [frames EXCEPT ![s] = <<>>]
    /\ UNCHANGED <<current, tick, reset, gatewayVars, upstream>>

-----------------------------------------------------------------------------
(* The handler. *)

\* What a return does: the deferred cancel and conn.Close.
Return(s) ==
    /\ handler' = [handler EXCEPT ![s] = "gone"]
    /\ held' = [held EXCEPT ![s] = 0]

Cancelled(s) == handler[s] = "gone"

\* Frames reach a browser that still has the socket.
ToBrowser(s, frame) ==
    frames' = IF ws[s] \in {"connecting", "open"} THEN [frames EXCEPT ![s] = Append(@, frame)]
              ELSE frames

\* Session, parameters, Build and the broker's type are checked and the
\* connection is upgraded ...
Upgrade(s) ==
    /\ handler[s] = "checks"
    /\ handler' = [handler EXCEPT ![s] = "pricing"]
    /\ ToBrowser(s, Frame("101"))
    /\ UNCHANGED <<pageVars, ws, reset, held, producer, scanned, upstream>>

\* ... or the handshake is answered 400, 401, 403, 404, 500 or 501.
Refuse(s) ==
    /\ handler[s] = "checks"
    /\ Return(s)
    /\ ToBrowser(s, Frame("refused"))
    /\ UNCHANGED <<pageVars, ws, reset, producer, scanned, upstream>>

StreamPricing(s) ==
    /\ handler[s] = "pricing"
    /\ handler' = [handler EXCEPT ![s] = "relay"]
    /\ producer' = [producer EXCEPT ![s] = "scan"]
    /\ UNCHANGED <<pageVars, ws, frames, reset, held, scanned, upstream>>

StreamPricingFails(s) ==
    /\ handler[s] = "pricing"
    /\ Return(s)
    /\ ToBrowser(s, Frame("failed"))
    /\ UNCHANGED <<pageVars, ws, reset, producer, scanned, upstream>>

\* Mutant of Write: writes never block.
WriteUnbounded(s) ==
    /\ handler[s] = "write"
    /\ ~reset[s]
    /\ ToBrowser(s, PriceFrame(held[s]))
    /\ reset' = [reset EXCEPT ![s] = ws[s] = "closed"]
    /\ handler' = [handler EXCEPT ![s] = "relay"]
    /\ held' = [held EXCEPT ![s] = 0]
    /\ UNCHANGED <<pageVars, ws, producer, scanned, upstream>>

\* WriteJSON. With the browser gone the first write still succeeds; what
\* comes back makes the next one fail.
Write(s) ==
    /\ handler[s] = "write"
    /\ Len(frames[s]) <= Buffer
    /\ ~reset[s]
    /\ ToBrowser(s, PriceFrame(held[s]))
    /\ reset' = [reset EXCEPT ![s] = ws[s] = "closed"]
    /\ handler' = [handler EXCEPT ![s] = "relay"]
    /\ held' = [held EXCEPT ![s] = 0]
    /\ UNCHANGED <<pageVars, ws, producer, scanned, upstream>>

\* Mutant of WriteFails: continue for return.
WriteFailureSkipped(s) ==
    /\ handler[s] = "write"
    /\ reset[s]
    /\ handler' = [handler EXCEPT ![s] = "relay"]
    /\ held' = [held EXCEPT ![s] = 0]
    /\ UNCHANGED <<pageVars, ws, frames, reset, producer, scanned, upstream>>

WriteFails(s) ==
    /\ handler[s] = "write"
    /\ reset[s]
    /\ Return(s)
    /\ UNCHANGED <<pageVars, ws, frames, reset, producer, scanned, upstream>>

\* Mutant of TicksEnd: the error is written after the loop as well.
TicksEndWithError(s) ==
    /\ handler[s] = "relay"
    /\ producer[s] = "ended"
    /\ Len(frames[s]) <= Buffer
    /\ Return(s)
    /\ ToBrowser(s, Frame("failed"))
    /\ UNCHANGED <<pageVars, ws, reset, producer, scanned, upstream>>

\* The channel is closed and drained: range ends.
TicksEnd(s) ==
    /\ handler[s] = "relay"
    /\ producer[s] = "ended"
    /\ Return(s)
    /\ UNCHANGED <<pageVars, ws, frames, reset, producer, scanned, upstream>>

-----------------------------------------------------------------------------
(* The goroutine. *)

\* A PRICE line is scanned (heartbeats and unusable lines are skipped).
Scan(s) ==
    /\ producer[s] = "scan"
    /\ Len(upstream[s]) > 1
    /\ scanned' = [scanned EXCEPT ![s] = Head(upstream[s])]
    /\ upstream' = [upstream EXCEPT ![s] = Tail(@)]
    /\ producer' = [producer EXCEPT ![s] = "send"]
    /\ UNCHANGED <<pageVars, ws, frames, reset, handler, held>>

\* Mutant of Send: select with a default that drops the price.
SendDropsWhenBusy(s) ==
    /\ producer[s] = "send"
    /\ \/ /\ handler[s] = "relay"
          /\ held' = [held EXCEPT ![s] = scanned[s]]
          /\ handler' = [handler EXCEPT ![s] = "write"]
       \/ /\ handler[s] # "relay"
          /\ UNCHANGED <<held, handler>>
    /\ scanned' = [scanned EXCEPT ![s] = 0]
    /\ producer' = [producer EXCEPT ![s] = "scan"]
    /\ UNCHANGED <<pageVars, ws, frames, reset, upstream>>

\* The channel is unbuffered: the send happens when the handler receives.
Send(s) ==
    /\ producer[s] = "send"
    /\ handler[s] = "relay"
    /\ held' = [held EXCEPT ![s] = scanned[s]]
    /\ handler' = [handler EXCEPT ![s] = "write"]
    /\ scanned' = [scanned EXCEPT ![s] = 0]
    /\ producer' = [producer EXCEPT ![s] = "scan"]
    /\ UNCHANGED <<pageVars, ws, frames, reset, upstream>>

\* ctx is cancelled: the select sees it, and a blocked Scan ends.
StopProducer(s) ==
    /\ producer[s] \in {"scan", "send"}
    /\ Cancelled(s)
    /\ producer' = [producer EXCEPT ![s] = "ended"]
    /\ scanned' = [scanned EXCEPT ![s] = 0]
    /\ UNCHANGED <<pageVars, ws, frames, reset, handler, held, upstream>>

-----------------------------------------------------------------------------
(* OANDA and the process. *)

\* The last element of upstream[s] is the number of the price to come.
Price(s) ==
    /\ producer[s] \in {"scan", "send"}
    /\ Len(upstream[s]) <= Buffer
    /\ upstream' = [upstream EXCEPT ![s] = Append(@, Successor(@[Len(@)]))]
    /\ UNCHANGED <<pageVars, ws, frames, reset, gatewayVars>>

\* The stream ends, or a line is too long for the scanner.
UpstreamEnds(s) ==
    /\ producer[s] = "scan"
    /\ producer' = [producer EXCEPT ![s] = "ended"]
    /\ UNCHANGED <<pageVars, ws, frames, reset, handler, held, scanned, upstream>>

GatewayDies ==
    /\ handler' = [s \in Streams |-> IF handler[s] = "none" THEN "none" ELSE "gone"]
    /\ producer' = [s \in Streams |-> IF producer[s] = "none" THEN "none" ELSE "ended"]
    /\ held' = [s \in Streams |-> 0]
    /\ scanned' = [s \in Streams |-> 0]
    /\ UNCHANGED <<pageVars, ws, frames, reset, upstream>>

HandlerStep(s) ==
    \/ Upgrade(s)
    \/ Refuse(s)
    \/ StreamPricing(s)
    \/ StreamPricingFails(s)
    \/ Write(s)
    \/ WriteFails(s)
    \/ TicksEnd(s)

ProducerStep(s) == Scan(s) \/ Send(s) \/ StopProducer(s)

BrowserStep(s) == OnOpen(s) \/ OnMessage(s) \/ (OnClose(s) /\ ws[s] \in {"aborting", "closing"})

Next ==
    \/ HideStream
    \/ GatewayDies
    \/ \E s \in Streams :
          \/ ShowSymbol(s)
          \/ OnOpen(s)
          \/ OnMessage(s)
          \/ OnClose(s)
          \/ HandlerStep(s)
          \/ ProducerStep(s)
          \/ Price(s)
          \/ UpstreamEnds(s)

Spec == Init /\ [][Next]_vars

\* The browser runs its events and the gateway its goroutines; OANDA answers
\* the request for a stream.
FairSpec ==
    /\ Spec
    /\ \A s \in Streams : WF_vars(HandlerStep(s)) /\ WF_vars(ProducerStep(s)) /\ WF_vars(BrowserStep(s))

\* The market is open: prices keep coming.
OpenMarketSpec == FairSpec /\ \A s \in Streams : WF_vars(Price(s))

-----------------------------------------------------------------------------
\* Prices the gateway has written and the page has not yet shown. The answer to
\* the handshake comes before them.
Written(s) ==
    LET opened == frames[s] # <<>> /\ frames[s][1].kind = "101"
        after == IF opened THEN Tail(frames[s]) ELSE frames[s]
    IN  [n \in 1..Len(after) |-> after[n].price]

\* Prices between OANDA and the page, the oldest first.
Pipeline(s) ==
    (IF tick.stream = s /\ ws[s] = "open" THEN <<tick.price>> ELSE <<>>)
    \o (Written(s)
    \o ((IF handler[s] = "write" THEN <<held[s]>> ELSE <<>>)
    \o ((IF producer[s] = "send" THEN <<scanned[s]>> ELSE <<>>)
    \o upstream[s])))

InOrder(prices) == \A n \in 1..Len(prices) - 1 : prices[n + 1] = Successor(prices[n])

\* While the handler runs and the browser keeps the socket, no price OANDA
\* sent is lost, repeated or overtaken on its way through the goroutine, the
\* channel and the socket (stream_handlers.go:80-93, client.go:289-332).
NoPriceLostOrReordered ==
    \A s \in Streams :
        handler[s] # "gone" /\ ws[s] \in {"connecting", "open"} =>
            InOrder(Pipeline(s))

-----------------------------------------------------------------------------
(* What PriceFeed sees of a state. *)

\* The browser still takes what the gateway writes.
Wanted(s) == ws[s] \in {"none", "connecting", "open"}

StageOf(s) ==
    IF ~Wanted(s) \/ handler[s] = "gone" \/ producer[s] = "ended" THEN "over"
    ELSE IF handler[s] \in {"none", "checks"} THEN "new"
    ELSE IF handler[s] = "pricing" THEN "open"
    ELSE "feeding"

Stage == [s \in Streams |-> StageOf(s)]

Place(full, price) == IF full THEN <<PriceFrame(price)>> ELSE <<>>

\* OANDA's prices before the last element of upstream[s].
Sent(s) == [n \in 1..Len(upstream[s]) - 1 |-> PriceFrame(upstream[s][n])]

\* What the goroutine has yet to hand over, and the handler to write.
ToHandOver(s) == IF producer[s] = "ended" THEN <<>> ELSE Place(producer[s] = "send", scanned[s]) \o Sent(s)
ToWrite(s) == IF handler[s] = "gone" THEN <<>> ELSE Place(handler[s] = "write", held[s]) \o ToHandOver(s)

FeedOf(s) == IF Wanted(s) THEN frames[s] \o ToWrite(s) ELSE <<>>
Feed == [s \in Streams |-> FeedOf(s)]

NextPrice == [s \in Streams |-> upstream[s][Len(upstream[s])]]

\* Goroutine, channel, handler and socket together are one queue: a stream
\* that breaks, wherever it does, loses only its end, nothing is said after
\* the last word, and only what is heard changes the price on screen
\* (stream_handlers.go:61-94, client.go:289-332, useOandaStream.ts:36-50).
PF == INSTANCE PriceFeed WITH
          Depth <- 2 * Buffer + 3, stage <- Stage, feed <- Feed, next <- NextPrice, shown <- tick
ImplementsPriceFeed == PF!Spec

\* stream_handlers.go:89-90: "Client disconnected or the connection died -
\* stop reading the upstream OANDA stream too": once the browser is gone,
\* handler and goroutine end, provided prices keep coming.
AbandonedStreamEnds ==
    \A s \in Streams :
        ws[s] = "closed" ~> handler[s] = "gone" /\ producer[s] \in {"none", "ended"}
=============================================================================
