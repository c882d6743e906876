# VOT Tradings in TLA+

Models of the VOT-Tradings gateway (Go, `internal/`, `cmd/`) and of the parts of
its web client with a state of their own (live prices, the order ticket, who is
signed in), the TLC runs that check them, and TLAPS proofs of what matters most:
the rotation of Questrade's single-use refresh tokens, the placing of orders
from the click to the ledger, the pattern day trader gate, stored credentials, the
balance, sessions, and live prices.
Paths below are relative to the repository.

`PROJECT.json` lists the components, the runs, a mutant for every property, the
lines every definition stands for, the disagreements found, the hazards and the
theorems.

## 1. The system

One gateway process serves an HTTP API. A request is a goroutine. Requests share
no memory worth the name (every request builds its own broker clients), so they
meet in Postgres, in Redis and at the brokers.

| Component | State | Operations | Talks to |
|---|---|---|---|
| Questrade client (`internal/brokerage/questrade`, `internal/db/oauth_tokens.go`) | per request: tokens, `loadedFromStore`, expiry; per user: the `broker_oauth_tokens` row | `ensureAuth`, `apiGet`, `GetAccount`, `GetQuote` | Questrade (a token dies when exchanged), Postgres |
| Orders (`internal/httpapi/order_handlers.go`, `internal/db/orders.go`) | the `orders` table | `POST`/`GET /api/v1/orders` | factory, PDT engine, broker, Postgres |
| PDT engine (`internal/engine/pdt.go`, `internal/db/day_trades.go`) | `day_trades` rows, written elsewhere | `ListRecent`, `CheckPDT` | the clock |
| Credentials (`internal/httpapi/credential_handlers.go`, `internal/db/broker_credentials.go`, `pkg/crypto`) | `user_broker_credentials` rows, the process's key | list, save, delete, import-env | Postgres |
| Balance (`internal/httpapi/market_handlers.go`, `internal/userbrokers`, `internal/engine/balance.go`) | none of its own | `BuildAll`, fan-out, aggregation; one-shot quote | credentials, brokers |
| Accounts and sessions (`internal/httpapi/auth_handlers.go`, `internal/auth`, `internal/db/users.go`) | `users` rows, Redis keys with a TTL, cookies | register, login, logout, me, `requireAuth` | Postgres, Redis, browser |
| Quote stream (`internal/httpapi/stream_handlers.go`, `StreamPricing` in `internal/brokerage/oanda`, `web/src/hooks/useOandaStream.ts`) | a WebSocket, a goroutine, a channel, the hook's state | subscribe, relay, disconnect | OANDA, browser |
| Gateway process (`cmd/main_gateway`) | running, draining, stopped | start, SIGTERM with a 10 s drain, death | all of the above |
| Order ticket (`web/src/pages/Trade.tsx`, `hooks/usePolling.ts`, `context/PortfolioContext.tsx`) | form, confirmation box, message; the last good balance | tick, submit; poll every 15 s | orders, balance |
| Who is signed in (`web/src/context/AuthContext.tsx`, login, register, `NavBar`) | per tab the user shown; one cookie per browser | `getMe` on load, login, register, log out | accounts and sessions |
| Other pages (`web/src/pages`) | forms and lists of Profile; what the API returned | | the API |

What is hard here:

* two requests of one user exchange the same single-use token; a crash, a lost
  response or a failed save strikes between the exchange and the save;
* a broker accepts an order and the reply, or the insert after it, is lost; the
  process drains or dies in between; a broker turns an order down in an answer
  that looks like success;
* the PDT gate decides on an equity and a list of day trades read in two calls;
* dates in UTC compared with a local clock, a window that carries a time of day;
* credentials listed in one statement and loaded, or overwritten, in others;
* a key that changes under rows sealed with the old one;
* registrations, logins and logouts side by side, responses out of order,
  sessions that expire, a Redis that fails or restarts empty;
* a goroutine that must end when its reader does, and socket events of a symbol
  no longer on screen;
* a ticket that a poll or another page unmounts while its order is under way, an
  answer that never comes, a consent that outlives a failure;
* polls that overtake each other;
* tabs that share a cookie and learn of its user at different times.

What makes each part correct is stated by the properties of its module (section 4).

## 2. Modules

Each module models one component; the modules `MCOrders`, `MCPDTWindow`,
`MCCredentials`, `MCBalance` and `MCBrowserTabs` only add symmetry sets and
constant values for TLC, which the other modules do not need.

| Module | Models | Built on |
|---|---|---|
| `TokenRotation` | one user's Questrade token between Questrade, two tables and the clients of concurrent requests | |
| `TokenRotationProofs` | its inductive invariant and theorems | `TokenRotation`, TLAPS |
| `OrderBook` | what `POST /api/v1/orders` promises: decided on once, answered once, recorded or not at all | |
| `Orders` | the handler of `POST /api/v1/orders` and the life of the process; implements `OrderBook` | `OrderBook` |
| `OrdersProofs` | its inductive invariant and theorems, the refinement of `OrderBook` among them | `Orders`, TLAPS |
| `OrderTicket` | the ticket of the web client and the balance it polls | `OrderBook` |
| `OrderTicketProofs` | its inductive invariant and theorems | `OrderTicket`, TLAPS |
| `PDTWindow` | the day-trade count, the rows fetched for it, the clock | |
| `PDTWindowProofs` | what the loop computes, and its theorems | `PDTWindow`, TLAPS |
| `Credentials` | one user's credential rows, import-env, key changes | |
| `CredentialsProofs` | its inductive invariant and theorems | `Credentials`, TLAPS |
| `Balance` | `GET /api/v1/balance` running beside the credential handlers | `Credentials` |
| `BalanceProofs` | its inductive invariant and theorems | `Balance`, `CredentialsProofs` |
| `Sessions` | accounts, sessions, cookies | |
| `BrowserTabs` | the tabs of a browser: whom each shows as signed in | `Sessions` |
| `SessionsProofs` | inductive invariants and theorems of both | `BrowserTabs`, TLAPS |
| `PriceFeed` | what `GET /ws/quotes` promises: one queue per stream, which may break off at its end | |
| `QuoteStream` | hook, WebSocket handler, pricing goroutine; implements `PriceFeed` | `PriceFeed` |
| `QuoteStreamProofs` | its inductive invariant and theorems, the refinement of `PriceFeed` among them | `QuoteStream`, TLAPS |

Definitions named "Mutant of …" are not part of any specification. Each is a
plausible mistake in the code one definition models; with it in place of the
original TLC reports the property named in `PROJECT.json` as violated, which
shows that the property depends on that code.

### How state and actions correspond to the code

A handler is sequential between its blocking calls, so one blocking call, with
everything up to the next, is one action. The step a request is at (`pc`,
`step`, `phase`, `handler`) is its program counter. Each call may fail at any
time: a cancelled request context can make any of them return an error. A write
that reports an error may have been carried out.

**TokenRotation.** `live` and `chain` are Questrade's: which tokens it accepts
and which hand-generated token each descends from. `credential` and `stored` are
the `refresh_token` of the two tables. The rest is one `questrade.Client` per
request. `LoadStored` … `SaveFails` are the steps of `ensureAuth`
(client.go:95-148), `ApiGet` and `ApiGetFails` the rest of `apiGet`, twice per
request. `Replace` is what Questrade does; `Rotate` and `LoseResponse` are the
two things that can become of its answer. `client.mu` is not modelled: a client
is used by one goroutine. `lost` is history.

**Orders.** A member of `Requests` is one POST; a retry is another. `Build` is
`Factory.Build`, `FetchAccount` and `GateOnPDT` the two reads of the gate and its
verdict, `PlaceOrder`, `PlaceTurnedDown`, `LoseReply` and `PlaceFails` the
outcomes of the broker call (of Questrade's stub only the last), `Persist` the insert with the reply that follows it. `Terminate`,
`Drained`, `Die` and `Start` are `main`: `Shutdown` waits for the handlers, but
for 10 seconds, and an Alpaca handler may need longer; that, a crash and a kill
are `Die`, where calls under way may still have their effect. The equity and the
day trades change at any time; `Restricted` is the verdict on what they are now.
`turnedDown` are the orders a broker did not keep although it answered 200 or 201:
Alpaca says so in the status, which the client copies; OANDA creates and cancels
such an order in one answer, of which the client reads the creation and the fill.
A row carries that `Status`, of which the model tells "rejected" from anything
else ("accepted"). An order is decided on (`Decided`) when it was accepted or
turned down. `untracked` and `sawClear` are history.

**OrderBook** is the same POST without the handler: `stage`, which orders a
broker has or turned down, which are recorded, and what was answered. `Orders` maps to it by
`Stage` (any step of the handler is "open"), `Recorded` (the orders of the
ledger's rows) and `Told` (201 "placed", 502 "unknown", no answer "nothing",
anything else "notPlaced"). It lets an order stay unrecorded beside a
201, since a failed insert is only logged, but never lets a row appear beside
another answer.

**OrderTicket.** `ticket` is the mounted component or `Unmounted`: `Rendered` is
what React does with it when the balance changes, `LeaveAndReturn` a visit to
another page, `Reload` a reload of the client. `tick` and `ticks` number the
tickings of the box, so that "the same consent" can be said. `Submit`, `Hear`,
`LoseAnswer` are `handleSubmit` before and after its `await`, with `createOrder`
between them; the answer to a ticket that is gone is heard by nobody. The button
is the guard of `Submit`. The gateway is `OrderBook`: what holds here
holds of any handler that implements it, and `Orders` does. `SendPoll` is the
interval's tick, which does not wait for an earlier poll; `ReadAccount` is one
account of the gateway's fan-out, read at a moment of its own; `PollArrives` and
`PollFails` are the two `setState` calls.

**PDTWindow.** Days are numbered, Monday first; an instant is a day and a slot
of it. `trade_date` becomes midnight UTC on the local clock (`TradeDate`),
weekdays and `AddDate` go by the local clock. `trades` is the rows of one user
and broker in the order they were written; the loop of `businessDaysBack` is a
recursive function on the pair of its variables.

**Credentials.** A row records whose credentials it holds (the user's or the
environment's) and the key it was sealed with; `Readable` is a successful
`Load`. `ImportList` is the one listing of import-env, `ImportBroker` each of its
three checks and saves in turn. Rows of other users are left out: every
statement carries `user_id`.

**Balance.** `ListConnectedBrokers`, `BuildNext` (one `Factory.Build` per listed
broker), `FanOut`, `Fetch(n)` per goroutine, `Respond`. `CredentialsStep` lets any
step of `Credentials` happen meanwhile. Money is in hundredths of a USD.

**Sessions.** An email stands for its user, who knows the password. A request's
response is a step of its own (`Receive`, `LoseResponse`) because the browser may
see responses in another order than they were sent. `requireAuth` only reads
(`Live`). `created`, `loggedOut` and `undeleted` are history.

**BrowserTabs.** Every request of `Sessions` is made by a tab. `shown` is the
`user` of its `AuthContext`, `me` its `getMe`, which takes a failed call for "not
signed in". The browser stores the cookie when the headers of a response come
in (`ReceiveInTab`), the tab shows the user when it has read the body
(`ShowSignIn`); between the two another tab may sign in. A loading page shows no
log-out button but does show the login form. `overtaken` is history: the tab's
user was decided for a cookie that is no longer the browser's.

**QuoteStream.** A stream is one run of the hook's effect. `frames` is the
WebSocket connection, `upstream` OANDA's, both `Buffer` deep, after which the
sender blocks; the channel is a rendezvous (`Send`). The gateway never reads
from the socket, so it learns that a browser is gone from the second write after
it (`reset`). Closing a socket runs its `onclose` later, when another symbol may
be on screen; a closing socket delivers no more messages. The Market page stays
mounted. The OANDA request has no timeout; the model lets it succeed, fail or,
without fairness, hang.

**PriceFeed** is a stream without handler, goroutine or sockets: `stage`, and the
`feed` of what was said and not yet heard. `QuoteStream` maps to it by `StageOf`
("over" as soon as nothing OANDA sends can reach the browser any more) and
`FeedOf`: the frames on the socket, then the price the handler holds, the one the
goroutine holds, and those on OANDA's connection, as far as somebody is left to
pass them on. `Depth` is what
these places hold together: a full socket and one frame more, one price each with
handler and goroutine, a full connection. A handler that returns, a goroutine that
ends, a browser that closes its socket and a gateway that dies are all `Break`: they
cut the queue off somewhere, and what is left of it is a beginning.

## 3. Bounds and fairness

| Run | Bounds | Why they are enough |
|---|---|---|
| `rotation` | 2 requests, 4 tokens | two requests race for one token, any number is covered by the proofs; four tokens are a reconnect and two rotations, or three rotations |
| `rotation_reconnect` | 1 request, 4 tokens | |
| `orders` | 2 POSTs of a user, all three brokers | side by side or one after the other, at one broker or at two; requests of different users share only the process, and the proofs cover any number of them |
| `pdt` | 17 days, 3 slots a day, 4 trades | every day of the week as the current day with two full windows behind it; midnight, and two later instants; the limit and one more |
| `pdt_weekend`, `pdt_west` | 10 days; 6 slots of 4 hours for the time zone | |
| `credentials` | 2 imports, 2 keys, 2 brokers in the environment | two imports at different brokers; rows under the key and under another |
| `balance` | 2 keys, no import | accounts of 1, 2 and 4 units, so no two sets add up to the same; to a balance request an import is three saves; with one import beside it the safety properties hold as well (1.2 million states up to symmetry of the keys), and the proofs cover any number |
| `sessions` | 2 tabs of one browser with one request each, 2 emails, 2 tokens, TTL of 1 in 1 tick | the tabs sign in as different users, or in turn, and race each other's logout; a session expires while a later one is alive; the proofs cover any number of everything |
| `stream` | 1 stream, connections two prices deep, prices modulo 4 | streams share no gateway state; every stage can be full; a lost, repeated or overtaken price shows modulo 4; the proofs cover any number of streams and any depth |
| `stream_weekend` | 1 stream, connections one price deep | |
| `ticket` | 2 POSTs, 1 broker, 2 polls, 2 tickings of the box | a second order under the old consent or under a new one; one poll overtaken by another; one broker is a list that fills and empties, which is what mounts and unmounts the ticket, and the proofs cover more |

`PDTWindow` ends with its clock, so its runs do not check deadlock. All other
runs do. Symmetry is used only without liveness (`credentials`, `sessions`: emails,
tokens, and one tab with its request against the other).

Fairness is weak and only on what the code's own scheduling carries out:

* a request in progress takes its next step (`TokenRotation`, `Orders`,
  `Balance`): every broker call runs under `http.Client`'s 10 s timeout or the
  request's context, and Postgres under the latter;
* `QuoteStream`: goroutines run, the browser delivers its events; in
  `OpenMarketSpec` prices keep coming. `StreamPricing` uses a client without a
  timeout, so that OANDA answers the request for a stream is an assumption;
* `OrderTicket`: a `fetch` is resolved or rejected in the end, and a poll that
  is under way is answered or fails. Nothing is assumed of the gateway.
  `EventuallyFresh` says in its own premises that the accounts stop changing and
  that some polls keep succeeding.

Nothing obliges a user to act, a request to arrive, a restart to happen or the
clock to move.

## 4. What the runs show

| Run | Property | In words |
|---|---|---|
| `rotation` | `PresentedTokenRecoverable` | the live token of the chain that will be presented next is that token, is about to be saved, or fell to a fault: races alone never strand a user |
| | `SavesOnlyLiveTokens` | no lost update: whoever writes the row writes a live token |
| | `RequestsFinish` | every request ends |
| `orders` | `LedgerMatchesBroker`, `AcceptedOrdersAccountedFor` | the ledger holds only orders a broker decided on, each for its user and broker, none that Alpaca turned down as accepted, and lacks one only after a fault |
| | `ResponsesAreTruthful` | 201: a broker decided on the order; 400, 403, 404, 500: none did; 502 leaves it open |
| | `GateIsNeverFooled` | no Alpaca order for a user restricted throughout the request |
| | `ImplementsOrderBook` | decided on at most once and while its handler runs; answered once; no row beside another answer than 201 |
| | `HandlersFinish` | every handler ends, draining or not |
| `pdt` | `ExactOnBusinessDays` | past midnight of a business day the count is the reference count |
| | `NoMissedRestriction` | at midnight it errs to the safe side |
| | `PrefetchSuffices` | 14 days fetched are enough on every weekday |
| | `LiftsOnlyAtDayTurn` | time lifts a restriction only at the turn of a day |
| `credentials` | `ReportedImportsHappened` | the reply of import-env is true |
| | `ImportOverwritesOnlyRacingSaves` | only a save behind its back is overwritten |
| `balance` | `ReplyCoversConnected` | every broker connected throughout is named, once, in order |
| | `TotalIsSumOfStatuses` | the total is the sum of what is shown |
| | `BalanceAnswered` | every request is answered |
| `sessions` | `EmailRegisteredOnce` | concurrent and retried registrations make one user |
| | `SessionsAreAccountedFor` | a live session has a user and was not deleted |
| | `ShownUserActs` | a tab acts for the user it shows, until another cookie overtakes what it knew |
| | `EndedSessionsStayEnded` | no login, retry or late response brings a session back |
| `stream` | `NoPriceLostOrReordered` | through goroutine, channel and socket |
| | `ImplementsPriceFeed` | one queue: the handshake is answered first, no gaps, a farewell only in place of prices, whatever breaks takes the end of the queue and not its middle |
| | `AbandonedStreamEnds` | while prices keep coming |
| `ticket` | `OneOrderPerTick` | two orders under one consent only if the outcome of one was not known |
| | `MessageIsTrue` | a result is an order a broker decided on; an error is none, or one whose outcome is unknown |
| | `TicketRecovers` | never stuck at "Submitting…" |
| | `EventuallyFresh` | once accounts stop changing, the balance on screen settles on them |

The runs with a counterexample each show the code doing something else than a
line of the repository says (`findings` in `PROJECT.json` quotes both):

| Run | The code | The text |
|---|---|---|
| `rotation_reconnect` | a dead stored token shadows the token the user reconnects with | README.md:43 |
| `pdt_weekend` | on weekends the oldest of the five days is not counted | pdt.go:34-35 |
| `pdt_west` | west of UTC the oldest day's trades fall out of the window early | pdt.go:59-61 |
| `stream_weekend` | without prices the stream of a client that is gone is kept open | stream_handlers.go:89-90 |

On one point the repository disagrees with itself. README.md:22 says that "failed
submissions are never persisted", orders.go:20-21 that `Create` persists an order
"already submitted to (or had rejected by) the broker". The code does the latter for
an order turned down in a success, whose row `Persist` writes after
`PlaceTurnedDown` and which is answered 201, and never for one turned down with an
error. `LedgerMatchesBroker` and `ResponsesAreTruthful` therefore speak of orders
decided on, not of accepted ones: that every row is an accepted order would be false.
A row for an Alpaca order says which it was; one for an OANDA order says "accepted"
either way (oanda/client.go:211), and so does the ticket (Trade.tsx:193-197).

Some weaknesses need no counterexample, because a property that holds says
where its guarantee ends: a 502 leaves open whether the broker accepted
(`ResponsesAreTruthful`); a credential saved between the listing and the copy of
an import is overwritten (`ImportOverwritesOnlyRacingSaves`); a row sealed under
an earlier key turns the whole balance into a 500 (`ReplyCoversConnected` speaks
of 200s); a session whose DEL failed lives on after its logout
(`SessionsAreAccountedFor`), and one in use expires all the same, although
session.go:22 calls its TTL rolling. In the client: after a 502 or a lost answer
one more click sends the order again under the old consent (`OneOrderPerTick`); a
sign-in in another tab, or a `getMe` answered after the tab's own sign-in, leaves
a tab that shows one user and trades for another (`ShownUserActs`, `overtaken`).

Others no property is about: the confirmation box names a broker and stays ticked
when the broker changes (Trade.tsx:126); the close event of the previous socket
marks the open one as not connected (useOandaStream.ts:50), and the last price of
the previous symbol stays on screen (useOandaStream.ts:31).

README.md:257 also lists logout as behind the session check; `Routes` leaves it
open (httpapi.go:60), and `Sessions` follows the code.

## 5. Proofs

The proofs hold for any finite or infinite sets of requests, users, tokens, tabs,
polls and brokers. The only assumptions are those of the modules, which TLC
evaluates in every run: a model value for "none" is not an element of the set it
is added to, bounds and time to live are natural numbers, `Orders` and
`Credentials` use some of the gateway's three brokers, and a request belongs to
the browser of its tab.

**TokenRotationProofs.** `PresentedTokenRecoverable` and `SavesOnlyLiveTokens` are
not inductive. What carries them:

* `HeldInOneClient`: a token a request has received and not yet saved is live,
  is nobody's hand-generated token, is not in the table and is in no other
  client. So no concurrent request can have it replaced before the save, and
  the save writes a live token.
* `OneLiveTokenPerChain`: each chain of rotations has exactly one live token.
  With `StoredTokenRecoverable` this makes "the user's access" one token that
  can be followed through every step.
* `CredentialIsManual`, `ChainsAreRooted`, `NothingSavedYet` tie the two tables
  to the chains.

`Inv` is their conjunction with `TypeOK`; one lemma per action shows that it is
preserved, `InvariantHolds` that it holds, and `TypeCorrect`, `Recoverable` and
`NoLostUpdate` draw the conclusions.

**OrdersProofs.** `PostsFollowTheHandler` says what is known at each step of the
handler (not decided on before the broker call, decided on at the insert, and never both
accepted and turned down).
`GateReadsAgree` is the heart of the gate: a POST that has seen no clear moment
has a restricted user now, read an equity below the threshold, and has not gone
past the gate to Alpaca. With the four properties they are inductive:
`TypeCorrect`, `LedgerSound`, `NothingUnaccounted`, `ResponsesTruthful`,
`GateHolds`.

The refinement follows from the same invariant: each step of `Orders` maps to a
step of `OrderBook` or leaves its variables alone. `Build`, `FetchAccount` and
the reads of the gate are stutters or refusals; `PlaceOrder` is `Accept`,
`PlaceTurnedDown` is `TurnDown`;
`Persist` is `Confirm`, with or without a row; `Die` is `Crash`, where the orders
and inserts under way choose what still takes effect. The theorem is
`OrdersImplementOrderBook`.

**OrderTicketProofs.** `MessageIsTrue` needs that what the ticket shows is what was
heard of its last POST, and that `OrderBook` keeps a POST that was told
"notPlaced" undecided for good. `OneOrderPerTick` is not inductive: what
carries it is `BoxOutlivesFailures`, that a POST whose ticking is still in the
box of the mounted ticket is the one under way or one that failed; a success, or
a new ticket, has cleared the box. Theorems: `TypeCorrect`, `OneOrder`,
`MessageTrue`.

**CredentialsProofs.** An import carries what its reply will report and what it
found connected; the invariant says that each broker it reports has been
written since the listing, and that a broker it has yet to write and did not
find connected has a row only if somebody saved it meanwhile. Theorems:
`CredentialsTypeCorrect`, `ImportsTruthful`, `OnlyRacingSavesOverwritten`.

**SessionsProofs.** First `Sessions`: `SessionsHaveUsers` says that a session
belongs to a generated token and a registered user, and that a request about to
start a session has a user. Then the tabs: `RequestsKnow` (a response that is
under way names the user of the session its cookie opens) and `TabsKnow` (so do
an answered `getMe`, a body yet to be read, and what a tab that is not overtaken
shows). Tokens are used once, so a session, once it names a user, never names
another. `TabsImplementSessions` shows that the tabs add no behaviour to
`Sessions`; the rest are the properties of the run.

**BalanceProofs.** The rows and imports keep the invariant of `CredentialsProofs`.
`ListIsComplete` says that while the clients are built, every broker that has
stayed connected is built or still to be built, and every one of these was
connected at some moment; `ListInOrder` that the two lists are in order, one
before the other. A row that is gone when its turn comes was not connected
throughout, so skipping it keeps both. The total needs no induction: the gateway
knows three brokers, `ListInOrder` makes every list one of at most three, and for
each length both loops are unrolled. Theorems: `BalanceTypeCorrect`,
`RepliesCoverConnected`, `TotalsAddUp`.

**QuoteStreamProofs.** `NoPriceLostOrReordered` speaks of one sequence; the proof
goes link by link. `NextSent` is the next price the goroutine hands over,
`NextWritten` the next one the handler writes, wherever they are; the invariant
says that each place holds the predecessor of the next price of the place behind
it (`UpstreamInOrder`, `HeldInOrder`, `FramesInOrder`, `ShownInOrder`), that the
answer to the handshake comes first and a farewell last (`FramesInTurn`), and what
the other side can be at for each step of the handler (`Together`). `Joined` puts
the links together. Theorems: `TypeCorrect`, `NoPriceLost`.

The refinement of `PriceFeed` needs two facts more: OANDA sends nothing before it
is asked (`NothingSentYet`), so until the goroutine runs, what there is to hear is
on the socket (`QuietFirst`). A price that is
scanned, sent or written changes its place and not the feed; what ends a stream
leaves a front of it, which is all `Break` asks. Theorem:
`QuoteStreamImplementsPriceFeed`.

**PDTWindowProofs.** The invariant is small (`TypeOK`, and every row dates from a
business day); the work is in the window. `Back` is a closed form of the loop of
`businessDaysBack`: it satisfies the equation of the recursion, which shows that
the loop ends, and five turns of it, each through a weekend or not, give the day
the window starts on. The window is then an interval of days, and so is the
reference: the five last business days are those within a week (`WeekHasFive`,
`LastFive`). Equal intervals have equal counts, and a larger one a count at least
as large. Theorems: `TypeCorrect`; for a gateway in any time zone
`FourteenDaysSuffice`, and `ExactWhileDatesAgree`, that the count is exact wherever a
row read back falls on its own date; for a gateway on UTC `ExactOnUTC`,
`NothingMissedOnUTC` and `LiftedByDayTurnOnUTC`. That hypothesis is needed: `pdt_west`
is the counterexample without it.

Only model-checked: everything under fairness (`RequestsFinish`, `HandlersFinish`,
`BalanceAnswered`, `AbandonedStreamEnds`, `TicketRecovers`, `EventuallyFresh`), which
is out of the prover's reach, and the properties whose runs refute them.

## 6. Not modelled

* Formats, JSON, numbers as strings, HTTP details, logging, configuration.
* `GET` handlers that only read one table (orders, credentials, me), the
  one-shot quote, CORS, health, the logo.
* The byte layout of the encryption; only "opens under the key that sealed it".
* Password hashing: `Login` stands for a request with the right password.
* The deep learning engine, the `predictions` table, TWAP/VWAP: not in the
  repository.
* Of the web client, the pages that show what the API returned, and Profile,
  whose forms call the credential handlers one at a time. Of the order ticket,
  the fields that do not decide what can happen (symbol, side, type, quantity).
* Two streams at once, and a stream that outlives its session: the check before
  the upgrade is all README.md:267 promises.

## 7. Plan

Done: `TokenRotation` (the user's access to real money), `OrderBook`, `Orders`
and `OrderTicket` (an order from the click to the ledger), `Credentials`,
`Sessions` and `BrowserTabs`, `Balance`, `PriceFeed` and `QuoteStream`, `PDTWindow`;
proofs of all of them.

Left, in this order:

1. A register of one live token per user as the abstract specification of
   `TokenRotation`.
2. `Sessions` with `QuoteStream`: streams that outlive their session, once the
   code ends them.
3. The Profile page over `Credentials`.
