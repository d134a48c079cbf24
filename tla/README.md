# A TLA+ model of ExchangeConnectivity

ExchangeConnectivity is a collection of C++ programs that talk to Binance over
HTTPS and WebSockets, with the data structures a market-data path needs. It has
no automated tests to speak of. This directory models the programs, checks them
with TLC on small instances, and proves their safety for all instances with TLAPS.
`PROJECT.json` lists the runs, the properties, the mutants, the theorems, the
hazards and the source lines each definition stands for.

To check a module: `tlc -config SpscRing.cfg SpscRing`. To check the proofs of a
module: `tlapm SpscRingProofs.tla`, and likewise for every `*Proofs` module (about
five minutes each at most).

## 1. The system

The programs share no library: code is copied between directories. The table
names each part once and lists its copies.

| Part | Source | State | Operations | Hard because |
|---|---|---|---|---|
| Ring buffer | `pools/main.cpp` 242-339 | slots, two cursors, two cached cursors | `emplace`, `push`, `pop` | two threads, no lock, relaxed and acquire loads |
| Fixed pool | `pools/main.cpp` 342-473 | objects, ring of free indices | `acquire`, `release`, leases | an object changes threads twice per use; `release` terminates on a full ring, `acquire` may fail |
| Growing pool | `pools/main.cpp` 43-173 | vector of objects, free list, mutex | `acquire`, `release`, leases | objects are used outside the mutex that covers their vector |
| Update queue | `pools/main.cpp` 485-536 | deque, flag, condition variable | `push`, `pop`, `close` | wake-ups after unlocking |
| REST session | `rest_client/`, copied to `binance_order_client/`, `binance_spot_client/`, `binance_order_execution_module/networking/` | Idle, Running or Completed; one operation; a deadline | `asyncRequest`, seven handlers, `complete` | the deadline races every handler |
| Order gateway | `binance_order_client/` | credentials, symbol | `sendOrder` | one report per order on every path; what an error says about the exchange |
| Spot client | `binance_spot_client/` | credentials | `sendOrder`, `cancelOrder`, `getBalances` | requests that arrive after their timeout was reported, three response parsers |
| WebSocket client | `web_socket_client/`, copied to `binance_order_execution_module/networking/` | session state, outgoing queue, writing flag | `start`, `send`, `stop`, eight handlers | calls from any thread, reads and writes in flight when it stops |
| User data stream | `binance_order_execution_module/main.cpp` | keys, a WebSocket client | `start`, `stop` | start and send are posted, not done; the stop comes when nobody runs it |
| WebSocket demo | `web_socket_client/main.cpp` | two threads | start, sleep, send, stop | a second of sleep instead of a wait |
| Old Binance WebSocket client | `binance/binance_web_socket_client.*` | state, outgoing queue | `connect`, `send`, `close` | state is changed by the wrong handler |
| Market data connector | `binance_connector/`, old session also in `web_socket_client_old/` | two stream clients, handlers | `startDepth`, `startTrades`, `asyncSnapshot`, `stop*` | sessions outlive the connector's idea of them |
| Parsers | `binance_connector/binance/parser.cpp`, `binance/binance_market_data_parser.cpp`, `binance_data_parser/` | none | decimal and JSON conversion | boundaries, two answers to one text, keys that differ by message |
| Pooled REST client | `rest_client_async/` | idle connections | get, post, ...; redirects | an unlocked pool between two threads, redirects, a blocking shutdown |
| Synchronous REST client | `rest_client_2/` | cached endpoints | get, post, ...; redirects | endpoint expiry, redirect recursion, exceptions at every step |
| Configuration, utilities | `configuration/`, `utilities/` | none | parsing, encodings, clocks | wrapped indices, padding |

How they interact. In `pools`, a feed thread acquires an object, fills it and
pushes the lease on the queue; the main thread pops it, reads it and returns it.
In the network programs one thread runs an `io_context`: the callers issue
operations or post calls, the handlers run on a strand, and the program ends when
the context has no work left. The order gateway and the spot client call the REST
session, which calls back their lambda, which calls the caller's handler. The
connector and the user data stream own WebSocket clients, which own sessions; a
session keeps itself alive through its handlers. The connector hands what it
receives to the strict parser.

What makes each part correct:

- ring: first in, first out, bounded, and no slot accessed by both threads;
- pools: one owner per object, no object lost, messages consumed as produced;
- queue: no item without a consumer that is awake or about to be;
- REST session and gateway: one report, a true one, nothing sent after it, and an
  end to every request;
- spot client: a handler for every call, and a way for its caller to try again
  without placing an order twice;
- WebSocket session: messages leave once, in order and all of them, one write at
  a time; a stopped session does nothing and is freed; its program ends with it;
- connector: no message to a handler that has been stopped, and a stop that stops;
- general REST clients: a connection serves one request at a time; redirects end;
  an address does not outlive its time;
- conversions: what is printed parses back; what is refused is not half accepted;
  a field is read from its own key.

`PROJECT.json` lists the hazards line by line, with the properties that would
catch each.

## 2. The modules

Three modules are abstract specifications and model no code of their own:
`BoundedFifo` (implemented by the ring), `Request` (a one-shot HTTP request,
implemented by the REST session in the gateway) and `RedirectChain` (what the two
general REST clients promise of one request).
Everything else is translated from the code. `Baseline` is both: it is `runBaseline`,
the benchmark without a pool, and so what the code itself measures a pool against;
`ScspPool` implements it.

```
BoundedFifo <- SpscRing <- ScspPool          Request <- RestSession < OrderGateway
Baseline    <- ScspPool                      SpotClient
UpdateQueue  < MutexPool
WsSession    < WsPrograms                    RedirectChain <- RestPool, SyncRest
BinanceWs                                    SnapshotRequest < Connector
Decimals < MarketMessages < Conversions > Texts

SpscRing < SpscRingProofs                    OrderGateway < OrderGatewayProofs
ScspPool < ScspPoolProofs                    SpotClient   < SpotClientProofs
MutexPool < MutexPoolProofs                  Connector    < ConnectorProofs
WsPrograms < WsProgramsProofs <- BinanceWs   RestPool < RestClientsProofs <- SyncRest

<-  implements, or instantiates or is instantiated by     <  is extended by or used in
```

### SpscRing (`ring`)

The ring between one producer and one consumer. A step is one access to shared
memory:

| Code | Model |
|---|---|
| the test at line 264 on the cached cursor | `EmplaceBegin` |
| the acquire load and the second test, 266-268 | `EmplaceRefresh`, `EmplaceRefused` |
| destroying and constructing the slot, 273-275 | `EmplaceConstruct` |
| the release store, 278 | `EmplacePublish` |
| 306-316, 319-320, 323 of `pop` | `PopBegin`, `PopRefresh`, `PopRefused`, `PopTake`, `PopAdvance` |

An acquire load need not see the newest store of the other thread: it returns any
value between the last one this thread saw and the current one. `CursorInv` (each
cache stays behind what it caches; the producer is at most Capacity ahead; with the
types of the variables) and `NoSlotRace` are invariants; `ImplementsFifo` is the
refinement of `BoundedFifo`: an item is in the queue from the store that
publishes it until it has been copied out.

Run `ring`: Capacity 4, two values, ten pushes, so that both cursors wrap twice.
Two values suffice because the ring never looks at them. The theorems of section 3
drop the bounds, here and in the runs below. Not modelled: overflow of the 64-bit
cursors after 2^63 operations.

### ScspPool (`scsp_pool`)

The fixed pool over `SpscRing` (instantiated, not copied) and the two threads of
`runScSpPool`. The feed thread consumes from the ring and the main thread
produces into it. The queue of leases is one step per operation, because its
mutex is held throughout; what matters of the mutex here is what it *orders*: a
thread that locks it has seen every cursor the other thread stored before
unlocking it (`mutexRead`, `mutexWrite`, `knownRead`, `knownWrite`). Loads are
otherwise as stale as in `SpscRing`. The call of `queue.size()` every 100 000
messages, which only reads and only adds to what the feed thread has seen, is
left out. A dereferenced empty lease ends the process (`nullDeref`), and so does
`std::terminate` (`terminated`).

- `OneOwner`: each index is in exactly one place: ring, queue, feed thread, main
  thread (with the types of the variables).
- `ImplementsBaseline`: with every lease on the queue replaced by the message its
  object holds, the run is one of `Baseline`: what is read through a lease is what
  was written through it, each message once and in order, and no object changes
  while it is queued or being read. The benchmark compares the checksums of the two.
- `NeverTerminates`: `release` is never refused. This depends on the queue's
  mutex: with a queue that ordered nothing (the mutant) the cached read cursor can
  be old enough for a refusal.
- `ExhaustedOnlyByBacklog`: the unchecked dereference is reached only when a push
  has left at least Capacity - 1 leases on the queue; the bound is tight.
- `Finishes`: otherwise every message is consumed and the run ends.

Run `scsp_pool`: Capacity 4 and six messages, so that indices are reused, the pool
is exhausted in some runs and the ring wraps. `PoolAssumption` is what the code
asserts of the capacity at compile time.

### UpdateQueue and MutexPool (`mutex_pool`, `mutex_pool_checksum`)

`UpdateQueue` is the queue with its condition variable: a critical section is a
step, a notification is a step of its own (the code notifies after unlocking), and
a waiter may wake for no reason. `MutexPool` is the growing pool and `runPool`'s
two threads. The pool's mutex covers the free list and the growth, not the
objects: consuming and clearing an object are steps with a beginning and an end,
and a reallocation in between leaves the main thread with a dangling reference,
whose use reads or writes nothing useful or kills the process.

- `OneOwner`, which includes the order of consumption, as above, through growth
  and last-in first-out reuse.
- `NoLostWakeup`: a consumer asleep on an item or on the close has a notification
  on its way.
- `GrowsOnlyByBacklog`: an action property: the pool grows only when the queue
  holds every object but at most one.
- `Finishes`: unless a dangling reference kills the process, every message is
  consumed.

Run `mutex_pool`: two initial objects and six messages, so the pool grows from 2
to 4 to 8 places. Run `mutex_pool_checksum` is expected to fail: the results
recorded at the end of `pools/main.cpp` give the pool the baseline's checksum, and
`ChecksumOfBaseline` says that every update is consumed intact; TLC finds the
reallocation under the main thread's reference (see `findings`).

### RestSession and OrderGateway (`order_gateway`)

`RestSession` has one action per handler of the session (`Execute`, `OnResolve`,
`OnConnect`, `OnHandshake`, `OnWrite`, `OnRead`, `OnTimeout`), each a whole
handler, and the network's own steps: an operation ends at some moment
(`OperationEnds`), its handler runs later, the timer expires (`TimerExpires`), the
request arrives at the exchange or does not, the answer comes or does not. A
handler that was already ready when the deadline passed runs after it. `calls`
counts the calls of the response handler. `OrderGateway` extends it with
`sendOrder`, its refusals, the response lambda and `parseResponse`, and with the
program: one order, then `ioContext.run` until no work is left. An order is
represented by the first check it fails, an answer by what `parseResponse` tells
apart. The exchange is external: it places the order or not when the request
arrives, acknowledges only what it placed and refuses only what it did not. The
last is a promise of the exchange the code depends on: it takes any answer outside
2xx that is a JSON object, a 5xx as well, for a refusal (`binance_order_gateway.cpp`
220).

- `OneTrueReport`: at most one call of the handler ever, and exactly one when
  `run` returns, unless the caller gave none; the errors of the steps before the
  write, and the gateway's own refusals, mean that the exchange has not seen the
  order; Submitted and ExchangeRejected agree with the exchange.
- `ImplementsRequest`: the session is a `Request`: written at most once, never
  after the report, reported once, an early error only of a request that was not
  written, a response only if the server gave it.
- `RunEnds`: `run` returns, whatever the network does.

Fairness: the thread in `run` executes ready handlers, the clock reaches the
deadline, and an operation that was cancelled ends. An operation that was not
cancelled may never end. The state space is finite without bounds.

### SpotClient (`spot_client`)

`sendOrder`, `cancelOrder` and `getBalances` with their argument checks, the
common `asyncSignedRequest` and the three response parsers. A session is not
modelled a second time: it is taken for the three steps of a `Request`
(`SessionWrites`, `SessionReads`, `SessionFails`), and what its handlers do is
what run `order_gateway` is about. A request that was written may arrive at any
later time, also after its timeout was reported. The exchange is external: it
refuses a request whose signed timestamp is older than the receive window and an
order whose client id is that of an open order; it may answer 2xx with `REJECTED`;
it fills orders, in part or whole, when it likes; and its answers may be garbled
or lack fields. `toOrderStatus` has every branch of the code. A status it does not
know becomes New, so the test for an unknown status in `parseCancelResponse`
cannot succeed. The caller is the one the API suggests: after a transport error it
waits for the window to pass, looks at the balances, and sends again if they have
not changed.

- `OneLiveOrder`: that caller never has its order twice. This rests on the
  timestamp that `asyncSignedRequest` signs, in the unit of the window (the mutant
  signs a finer one).
- `ReportMatchesBook`: what a send's report leaves the order to be (`Meaning`): a
  status is told only of an order that was placed and is no further back than the
  status says, whatever has traded or was cancelled since; Rejected and
  ExchangeRejected only of one that was not placed; and a cancellation is told only
  when an order was cancelled.
- `EveryCallReports`: every call that got a handler calls it.

Fairness: the session's deadline (`SessionFails`), nothing else. Run `spot_client`:
a window of one tick and a clock of four, enough for a first request before, in
and after its window and a second one with a window of its own.

### WsSession and WsPrograms (`ws_programs`)

`WsSession` is `WebSocketClient` and one session. `start`, `send` and `stop` post to
the strand (`inbox`, first in first out); `RunStart`, `RunSend`, `RunStop` and the
handlers (`OnStep` for the four connecting steps, `OnRead`, `OnWrite`) are one step
each; operations end in steps of their own. Messages are numbered as sent, `wire`
is what was written. `WsPrograms` adds who uses it and who runs the handlers: any
client with a thread that never leaves `run`; the user data stream, which starts
and sends before `run`, and whose destructor posts its stop when `run` has
returned; and the demo, whose main thread sends, stops the client and stops the
context, while another thread may not even have entered `run`.

- `WriteLoop`: the `writing` flag tells the truth, a write has a front to refer
  to, and a queued message is never left without a write.
- `RunKeepsSession`: a connected session has a read outstanding, and `run` returns
  by itself only when the session has stopped.
- `WireInOrder`: what is on the wire is a prefix of what was sent, each once.
- `StoppedIsFinal`: after the session has stopped no operation starts and no
  message reaches the handler.
- `Flushes`: once connected to a peer that reads (`PeerReads`), every message reaches
  the wire, or the session or the context stops. The demo's message, sent too early
  or not, is one of them.
- `Drains`: after the client's `stop` nothing of the session remains, unless the
  context was stopped first, as the demo does; the user data stream's program ends
  when its session does.

Fairness: posted calls and ready handlers run; operations on a closed socket end;
`run` returns when nothing is left. Connecting may hang for ever: nothing in the
code limits it. Neither does anything limit a write on an open connection:
`timeout::suggested` (line 158) gives a client no idle timeout and sends no pings, so
a peer that does not read holds the write, and the queue behind it, until `stop`.
`Flushes` therefore has the peer's reading as its premise and not as fairness.

Run `ws_programs`: three sends and two messages received, enough for a write in
flight with another message queued behind it and a third posted. Not modelled:
the chunks Beast makes of one write (see the hazard at line 255).

### BinanceWs (`binance_ws`)

The old client with one action per handler, and the program that connects, sends
the subscription and runs. `onWrite` leaves the state Disconnected, so that later
messages stay in the queue and `close` returns at once; the model has this. Two
things happen inside a read. The control callback (`Ping`) answers a ping with a
synchronous write, also while `async_write` is under way: the two share a TLS stream
and may mix their records (`torn`). And the pong, like `main`'s message handler, may
throw: nothing catches that, and the program is `terminated`. What the client offers
all the same:

- `NothingLost`: one `async_write` at a time, with a front; nothing lost, repeated or
  overtaken between `send`, the queue and the wire, but for the first message, which
  a pong may garble; and `run` returns only with an error that was reported or a
  stream that was closed.
- `SubscriptionSent`: what was sent before the handshake goes out after it, unless a
  pong garbled it, an error was reported, the stream was closed or the program was
  terminated.

Fairness: ready handlers run and `run` returns; a read of a closed stream ends; and
the only write there ever is ends, because it is the first on its connection and
small enough for the socket's buffer. Run `binance_ws`: three sends, two messages
received.

### Connector and SnapshotRequest (`connector`)

One stream of the connector and its sessions, beside one snapshot request.
`StartDepth` and `StopDepth` are the connector's calls, `OnResolve`, `OnConnected`,
`OnHandshake`, `OnMessage` and `OnError` the sessions' callbacks; there is one
thread, so each is one step. A session is described by the operation it waits for
and its socket. The trade stream is the same code over other members and shares
nothing with this one. `SnapshotRequest` has the request's callbacks, `Finish`,
and `OnSnapshotResponse`, whose handler may throw.

`stop` only closes the socket. A session that is still resolving has none, so it
goes on to connect and to read. The properties say exactly how far that goes:

- `OpenMeansOwned`: an open connection belongs to the stream the connector has, or
  to a session that was stopped while it resolved.
- `LateWasHeld`: a session stopped at any other point gives the next handler at most
  what it held then. A read takes off the socket what is there, and closing the
  socket does not empty the buffers behind it: the messages in them complete one
  read after the other, and `onRead` does not ask whether it was stopped. Before the
  subscription is written nothing is delivered late.
- `StoppedEnds`: and it ends.
- `SnapshotReported`: a request that has ended has told its handler, the snapshot
  exactly if the exchange sent one, and a second time only after the handler threw.

Fairness: ready stream callbacks run, and an operation on a closed socket ends.
The snapshot request gets none: it has no deadline. Run `connector`: two starts,
so that a stopped session meets the handler of the next, and two messages, so that
one can be behind the other in a stopped session's buffer.

### RestPool (`rest_pool`)

The asynchronous client: two requests, made by `main.cpp`'s main thread around
`future.get` while a runner thread runs the context, or both before it
(`program`). The look at the pool (`startRequest`) and the handlers are steps of
their own, and so is the call of the user's handler: a promise is fulfilled there,
and the main thread goes on from then. A connection that is not kept is shut down
where it is; for TLS that waits for the peer and may hold the thread for ever
(`MayBlock`). A read may fail with the peer still there, on an answer that is no
HTTP, so that shutdown may block as well.

- `OneUser`: a connection has one user or lies idle; the pool keeps its limit; and
  the main thread touches the pool only while no handler can, which is all that
  protects it: the promise is fulfilled after the connection was given back.
- `AnsweredOnce`: a handler is called at most once, and when `run` has returned
  every request begun before that has been answered. The request that is begun
  later, which `main.cpp` may do, is not.
- `ImplementsChain`: each request is a `RedirectChain`: a 303 becomes a GET, another
  host is refused, a redirect is the result only at the limit or without a place.
- `Finishes`: the programs end even if the server redirects for ever, unless a TLS
  shutdown holds the thread. That, and the request made later that nobody runs, are
  hazards no property here covers, because the code has nothing that limits either.

Fairness: asynchronous operations end, because `expires_after` limits all but the
resolver's, which the operating system limits; the threads run. Run `rest_pool`:
two methods, two redirects, a pool of one, so that a second connection is refused.

### SyncRest (`sync_rest`)

The synchronous client: construction, three requests in one try block as in
`main.cpp`, or two that are caught one by one; each hop resolves if the endpoints
are old, connects, shakes hands, writes and reads, and each step may throw. The
clock passes at any point.

- `StaleBounded`: no hop uses endpoints that were more than `DnsTtl` old when it
  began, whatever failed before.
- `ImplementsChain`: each request is a `RedirectChain`.

No liveness: blocking calls have no deadline, and none is assumed. Run
`sync_rest`: a lifetime of one tick, a clock of five, two redirects.

### Decimals, MarketMessages, Texts, Conversions (`conversions`)

Pure conversions as operators. `Decimals` has `toDecimalString`, the strict
`parseDecimal` character by character with its overflow test, and the loose one;
`MarketMessages` what each parser reads of each message, as a table of keys and
types, with the levels of the book; `Texts` the trimmings, splittings and encodings
of `utilities/`, with unsigned indices that wrap. `Conversions` enumerates the
inputs and compares with definitions written independently.

- `DecimalsAgree`: what is printed is read back as the same value, at both limits;
  the strict parser returns what the text stands for and refuses no decimal that
  fits; the loose one agrees with it but for a leading '+' and the least value.
- `MessagesAgree`: what the strict parser takes of a message the loose ones read
  alike, and every book message it takes they take, also when a key is missing or a
  value has another type; the loose ones fill every member of their structures, and
  no two members come from one key, but for a ticker's update ids, which are its
  trade ids.
- `TextsAgree`: the trimmings agree and leave the text only where the comment says
  (blank or empty texts, characters past ASCII); parts and chunks lose nothing;
  encodings can be read back, and Base64's padding is right unless the length is a
  multiple of three.

Run `conversions`: values of two decimal places up to 1011, a limit that is not a
power of ten, so that the overflow test meets its every branch; texts of up to six
characters of one digit that carries, one that fills, one that vanishes and each
other class. The code has eight places and 64 bits; nothing in it depends on the
two numbers but through `DecimalPlaces` and `MaxValue`. The behaviours only build
inputs, so a state without successor is a complete one and deadlock is not checked.

## 3. What is proved

Every safety invariant, every action property and every refinement that a run
expects to hold is a theorem, but for the three invariants of `Conversions`. Each
proof has the same plan: an invariant `IInv` that TLC accepts on the run's
instance, one lemma for the initial states, one for each action or group of
actions, `InductiveInvariant` (`Spec => []IInv`), and the theorems as consequences.
What follows says what `IInv` adds to the property, because a property alone is
seldom preserved by every step.

The bounds that keep TLC's instances finite (`MessageCount`, `MaxSends`,
`MaxReceived`, `MaxStarts`, `MaxMessages`, `MaxClock`, ...) are constants of the
modules, so a theorem holds for every value of them and no finite run is too long
for it. The assumptions are the ones the modules state: they make the
constants natural numbers, and repeat what the code asserts.

### SpscRingProofs

For every Capacity that is a power of two from 2 to 2^31, every set of values and
any number of pushes (`CapacityAssumption`, `ValuesAssumption`):

- `CursorsCorrect`, `SlotsExclusive`: the two invariants of run `ring`, the first
  with `TypeCorrect`. `CursorInv` is inductive: the cached cursors only ever move to
  values the other side has stored, the two tests keep the distances between them,
  and between a passed test and the access it allows no step of the other side can
  undo it. `NoSlotRace` follows: the two cursors are less than Capacity apart, so
  their slots differ (`SlotInjective`).
- `RingImplementsFifo`: the refinement. It needs one more invariant, `Constructed`
  (the published slot holds the item), and lemmas on how the mapped sequence
  changes when it gains an item at one end or loses one at the other.

### ScspPoolProofs

For every such Capacity and any number of messages: `EveryObjectHasOneOwner`,
`BaselineImplemented`, `ReleaseNeverTerminates`, `ExhaustionIsBacklog`.

The proof counts. Every object is in the ring, on the queue or in one hand
(`AccountInv`): the distance of the cursors, the length of the queue and the leases
in hand add up to Capacity. How old a loaded cursor can be is `MutexInv`: locking
the queue's mutex has shown the main thread the read cursor of the last push, which
is behind by at most the lease in the feed thread's hand, and the feed thread a
write cursor behind by at most the object returned since. With a lease in hand the
main thread therefore always finds room in the ring, although neither the pool nor
the ring says why; this is the argument the code depends on and does not give. On the
other side, the ring looks empty only when all but one object are on the queue. That
nothing is in two places (`DistinctInv`) and nothing is lost (`CoveredInv`) give
`OneOwner`; `ContentInv` numbers the messages on the queue.

The refinement rests on `ContentInv` and so, through `DistinctInv`, on ownership: the
objects on the queue hold the messages after the last one popped, without a gap
(`BaselineSeen`). The mapped queue is therefore known by its length and by the number
of messages popped, and `BaselineStutters` disposes at once of every step that changes
neither, writing or clearing an object among them: the object is on nobody's queue.
Five steps remain, and each is the baseline's step of the same name, by what
`MessagesGrow` says of a run of numbers that gains one at its end or loses its first.

### MutexPoolProofs

For every initial capacity and any number of messages: `EveryObjectHasOneOwner`,
`WakeupsNotLost`, `GrowthIsBacklog` (the action property). The partition is the
fixed pool's with `size` for Capacity, so the only step that is new in kind is the
one that grows: it starts from an empty free list, and then `AccountInv` says that
the queue holds everything but what the main thread has in hand. `NoLostWakeup` is
inductive as it stands: each step of the feed thread that makes the condition true
leads to the notification, and while the consumer sleeps no other step takes it
away.

### OrderGatewayProofs

`ReportsTruth` and `Refinement`. The module has no constants and no bounds: TLC sees
all of its states already, and the proof says why the properties hold in them.
`CallInv` says that the handler was called for one of two reasons, a refusal or the
session's outcome, that exclude each other; `RequestInv` relates the outstanding
operation to the request, so that a deadline that strikes during resolve, connect
or handshake knows that the request is unsent; `ExchangeInv` carries the exchange's
word from the answer to the outcome. The refinement takes every action of the
gateway to a step of `Request` or to a stutter: a handler that fails completes
early or late as the operation it belongs to, the handshake's handler is the
write, and all steps after completion stutter.

### SpotClientProofs

For every receive window and every bound of the clock, and the four requests the
module has: `NeverTwoOrders`, `ReportsAreTrue`. The heart is `WindowInv`: the
balances are asked for after the window of the first request has passed; from then
on the exchange places nothing for it, so what the balances say of it cannot become
false, and the second order is sent only after "unchanged". `SessionInv` says that a
report is the client's own error or was read from the answer, and `BookInv` that the
answer was true of the book when it was given. It stays so, because an order only
moves on: `Since` is what the book may say after each answer, `SinceStays` that no
step of an order leaves it, and `Parses` that it is within what the report means.

### WsProgramsProofs

For any number of messages in both directions: `WriteLoopHolds`, `WireKeepsOrder`,
`RunKeepsASession`, `StoppedStaysStopped`. `QueueInv` is the invariant behind the
first two: what the session has finished writing, its queue and the sends still
posted to the strand are, one after the other, 1..sent, and `start` is posted before
them and `stop` after them. `ConnectedInv` ties reads and writes to the connection,
`ProgramInv` says how each of the three programs can stand to its session.
`BoundsAssumption` asks for at least one send: each of the programs makes one.

The module also treats the old client, `Old == INSTANCE BinanceWs`, whose session
is the ancestor of this one and whose proof has the same shape:
`OldClientLosesNothing`, from `ClientInvariant`, in which the wire and the queue
together are 1..sent, but for a first message that a pong may have garbled, and there
is at most one `async_write`. A pong, or an exception that ends the program, disturbs
nothing else: `torn` and `run` are all they change. The instance shares names of
variables with `WsPrograms` and nothing else; the theorem speaks of `Old!Spec` alone.

### ConnectorProofs

For any number of starts and messages: `OpenConnectionsOwned`,
`LateMessagesWereHeld`, `SnapshotIsReported`. `OwnerInv` says that every session
but the connector's current one was stopped, `SocketInv` that a session has a
socket once it has resolved, so that its stop has closed it unless it was
resolving then, and `LateInv` that what a stopped session has delivered and what
it still has unread are together no more than it held: nothing arrives on a closed
socket. A session stopped before its subscription gets one operation further at
most, and that one fails.

### RestClientsProofs

For every set of methods with GET and POST, every limit of redirects and every size
of the pool: `ConnectionsHaveOneUser`, `HandlersAnsweredOnce`, `ChainsImplemented`.
Three facts support each other and none can be proved alone: a connection is in the
pool or with the one request whose step uses it (`OwnedInv`), a handler has been
called exactly if its request is done (`AnswerInv`), and the main thread looks at the
pool only between the two requests (`TurnInv`). That a new connection can be given
a number of its own is a pigeonhole argument (`FreeConnectionExists`).

The synchronous client is here as `Sync == INSTANCE SyncRest`, under the assumption
that module makes, `DnsTtl \in Nat`: `EndpointsFresh` (its `StaleBounded`; the time
the client remembers is the time its endpoints were asked for, also after a failure)
and `SyncChainImplemented` (its `ImplementsChain`). Both clients implement
`RedirectChain`, so the two proofs of that are side by side.

### What is only model-checked

- Liveness: `RunEnds`, `EveryCallReports`, `Flushes`, `Drains`, `StoppedEnds`,
  `SubscriptionSent` and the three `Finishes`. They rest on fairness and so on
  ENABLED, which the installed provers do not handle.
- `DecimalsAgree`, `MessagesAgree` and `TextsAgree`. What the folds and recursive
  functions of `Decimals` and `Texts` compute for every text needs induction over
  the text, which is beyond the provers too; and they know nothing of `^`, by which
  the limits of `Decimals` are defined.
- `ChecksumOfBaseline`, which the code violates.

Nothing is proved about the C++ itself: the theorems are about these modules.

## 4. What is not modelled

- `OrderBookBuilder` and `test()` of `pools/main.cpp`, one thread that prints.
- The destruction of the connector while its sessions live: its program destroys
  it after `run` has returned. Handlers that call the connector or a client from
  within themselves: no program here does.
- `binance/binance_rest_client.cpp`: one straight line of blocking calls, without
  state, deadline, retry or a second actor.
- `configuration/`: one pass over a JSON file, without state.
- The order client's and the order execution module's `toOrderStatus`,
  `ScaledValue`'s comparison and arithmetic, `escapeJsonString`, the names of
  enumerators; the second slice helper, files, clocks, random numbers, threads and
  the printing of `utilities/`. No order of events can disturb them.
- The chunks of one WebSocket write, and a write's use of a message that `stopNow`
  has cleared: Beast's internals. Fragmentation, and the pings that Beast answers by
  itself in the newer clients, appear through the end of the operation. In the old
  client the program answers them, and `BinanceWs` has that.
- TLS, HTTP, JSON (simdjson, nlohmann) and `std::stod` are libraries and appear only
  through their outcomes. HMAC signing is an outcome too: it succeeds or not.
- Exceptions thrown by a user's handler, but for the snapshot's and the old client's
  message handler's.
- Delimiters of `utilities/` are one character: with an empty one the loops of
  `StringUtilities.cpp` (55-58, 70-73) do not end, and no caller passes one. A book
  level that is no array is refused like one that is too short.
- Memory: allocation never fails and queues have no limit but the runs' bounds.

## 5. Plan

1. Done: every part of section 1 but those of section 4; the theorems of section 3.
2. Worth doing: the WebSocket session as a queue that may drop what it has not
   written only when it stops; `MutexPool` against `Baseline`, up to the reallocation
   under a reader that run `mutex_pool_checksum` finds.
3. `OrderBookBuilder` over `MutexPool`, should another program use it.
