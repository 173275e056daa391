# A TLA+ model of the astronomy shop

The shop is a set of small services, each in a language of its own, behind a web frontend.
This directory holds a formal model of what in it can go wrong in more than one step. Its core
is where money, goods and the contents of carts change hands: placing an order
(`src/src/checkout`), the arithmetic that prices it, the Kafka producer it ends at, and the
cart store it starts from (`src/src/cart`). Around it are the shop as its users see it
(frontend and mobile app), the editor of the feature flags, the messages that services
exchange, the consumers of the orders, and the state that the small services keep. TLC checks
the models on small instances; TLAPS proves the properties that matter most for every value of
the constants.

Paths below are relative to the repository, `src/checkout/main.go` being
`src/src/checkout/main.go` here.

## 1. The system

| component | state it keeps | operations | what is hard |
|---|---|---|---|
| checkout, `PlaceOrder` (`src/checkout/main.go`) | none: the locals of one goroutine per request | reads cart, products, prices and a quote; then charges, ships, empties the cart, mails, publishes an event | partial failure, calls executed although they failed, a cart that changes meanwhile, crashes |
| checkout, `money` (`src/checkout/money/money.go`) | none | Sum, MultiplySlow, Negate, predicates; `Must` panics | signs, carry, int32, amounts that are not valid operands |
| checkout, producer (`src/checkout/kafka/producer.go`, `main.go` 492-557) | sarama's queue and two unbuffered channels, shared by all orders | send, wait for a report, give up, drain errors, overload | reports that belong to no one in particular, blocking, no deadline |
| cart (`src/cart/src`) | one hash per user in Valkey, with an expiry; one connection and a flag | AddItem, GetCart, EmptyCart, Ping | read-modify-write over two awaits, late commands, expiry, reconnection |
| accounting, fraud detection | offsets of their consumer groups | consume the topic `orders` | commits by timer, a crash or an exception between poll and commit |
| currency (`src/currency/src/server.cpp`) | the conversion table, which lookups can extend | Convert, GetSupportedCurrencies | floating point, an unsynchronised map |
| product catalogue (`src/product-catalog/main.go`) | the list of products, read at start | ListProducts, GetProduct, SearchProducts | a flag that makes one product fail |
| shipping, quote | none | GetQuote, ShipOrder, getquote | cents cut from a double, an error answered as 0.0 |
| payment, email | none | Charge; send_order_confirmation | no idempotency: each executed call is a charge, a mail |
| recommendation | a cache that only grows, behind a flag | ListRecommendations | unsynchronised globals |
| ad | the ads by category; a singleton of load workers | GetAds | unsynchronised start and stop of workers |
| flagd-ui | the browser's copy of the flag file | read-file, write-to-file | two editors, a file written in place |
| frontend, react-native app | session and cached queries in the browser | API routes that call the services | a route that fails after its effect took place, the user's retry |
| load generator, flagd, Kafka, Valkey, PostgreSQL, Envoy, telemetry, Kubernetes, Argo CD, Terraform, CI | | | third party, configuration or test equipment |

How they interact: the browser calls the frontend's API routes; these call the services by
gRPC. `PlaceOrder` calls cart, catalogue, currency, shipping (which calls quote by HTTP) and
payment by gRPC, email by HTTP, and hands the order to Kafka, from which accounting and fraud
detection consume it. There is no shared memory between services and no transaction anywhere:
the only state that two services write is the cart (the frontend adds to it, checkout empties
it). Every service evaluates flags of flagd at every request.

`PROJECT.json` lists the hazards of this code line by line, with the properties that cover
each.

What would make each component correct:

* PlaceOrder: nothing is shipped unpaid, nothing is done twice, the answer is true of the
  effects, no item disappears from a cart without being in an order, none is ordered twice,
  every order ends. The code does not keep all of that; the properties say exactly how far it
  does.
* money: a sum is exact and can be added again; an order's total never panics.
* producer: an order never waits for a report that cannot come.
* cart: what a user adds stays until it is ordered or lapses.
* consumers: an order that was published is handled at least once, and no record stops a
  consumer for good. Both consumers fall short of the first, in ways that the property names.
* the shop's clients: who is told that his order is complete has one, who waits for answers is
  charged for what he was shown and once, and each tab shows its own changes.
* flagd-ui: a save undoes nobody else's edits, the file is always one that was saved, the page
  says when it holds edits that are not saved, and does not cover itself for ever.
* prices: what the cart page shows, what is charged and what the catalogue and the quote say
  are one amount. They are not; the properties say when.
* messages: a reader makes of a message what its writer meant, whichever of them was built
  from an older `demo.proto`, or fails.
* the cart's connection: the flag says whether the connection is good. The ad service's load:
  it ends when the flag is off. The recommendation cache: it is never emptied by a race.

## 2. Modules

Each component module declares its CONSTANTS, with a named assumption where a proof needs one,
its VARIABLES, one action per operation or step, `Next`, `Spec`, and its properties at the
end. `MC*` modules give TLC its instances, `*Proofs` hold the proofs. Definitions called a
*variant* in their comment change one operation the way a plausible bug would; each property
was seen to fail with one of them, and they play no part in the specifications.

| module | models | uses |
|---|---|---|
| `Money` | `money.go`, function by function | |
| `MoneyLaws` | any two amounts, the laws about Sum and the predicates | `Money` |
| `OrderTotal` | the total of an order: `main.go` 268-277 and `MultiplySlow` | `Money` |
| `OrderEffects` | abstract: what an order promises | |
| `Checkout` | `PlaceOrder` and the cart it works on | implements `OrderEffects` |
| `OrderProducer` | `sendToPostProcessor`, `producer.go` | |
| `AtomicCart` | abstract: a cart whose operations are atomic | |
| `CartStore` | `CartService.cs`, `ValkeyCartStore.cs`, Valkey's commands | implements `AtomicCart` for users whose calls take turns |
| `CartConnection` | `EnsureRedisConnected`, its lock, its flag and its handlers | |
| `Storefront` | cart, orders and currency from the providers of frontend and mobile app to the routes and the services behind them | implements `OrderEffects` |
| `Session` | `Session.gateway.ts` and the modules that keep a user | |
| `FlagdUi` | `src/flagd-ui`: both views, both routes, the file | |
| `DemoMessages` | the messages and services of `demo.proto`, as data | |
| `Wire` | what ts-proto generates for a table of message types: `encode`, `decode`, JSON, `fromPartial` | |
| `OrderConsumers` | `Consumer.cs` of accounting, `main.kt` of fraud detection | |
| `Prices` | quote, shipping, currency service, the cart page's total and what an order is charged | |
| `CpuLoad` | `CPULoad.java` of the ad service | |
| `Recommendations` | `get_product_list` behind its flag | |
| `Services` | `Session`, `OrderConsumers`, `CpuLoad`, `CartConnection`, `Recommendations` and `Prices` side by side: a step is a step of one of them | those six |
| `MCWire` | nothing: `Wire` for the types of `DemoMessages`, and the versions of `demo.proto` its writers may have | `Wire`, `DemoMessages` |
| `MCMoney`, `MCWebApps`, `MCServices` | nothing: systems that share no state, checked in one run, a behaviour being of one of them (its `scene`) | |

### Money, MoneyLaws, OrderTotal

An amount is a record of units, nanos and code. `nanosMod` (10^9) and half the range of int32
(2^31) are the constants `NanosMod` and `Int32Half`, of which only `2 * NanosMod < Int32Half <
3 * NanosMod` is assumed: a sum of two nano parts fits an int32, one more unit subtracted from
it may not. `Wrap32` is the int32 result of an addition. Units are int64 in the code and
unbounded here, no amount of the shop coming near 2^63. `Sum` returns an amount or an error,
as in Go.

`OrderTotal` takes the total apart into the additions the code makes: shipping, then each
line, multiplied by a loop of `Sum`s. Each addition that answers an error leads to `panic`, as
`Must` does. `owed` is the exact worth, in nano units, of what has been looked at. `Payable`
says what prices are assumed to be like: a price, or shipping, is zero or at least half a unit,
and no quantity is zero. The catalogue's cheapest product is 0.99 USD; a quote is at least 40
USD per item (`quote/app/routes.php` 29), but 0 for an empty cart and 0.0 when it failed; and
in a currency of rate 0 everything is 0. Below half a unit the properties fail: 0.30 + 0.30 is
(1, -400000000), and the next `Must` panics. From half a unit on they fail only for orders that
are `lean`: the first amount that is not zero, shipping included, is less than a unit. Zero and
0.99 make (1, -10000000), which is charged, or panics if a line follows.

### Checkout

A request is at a point `pc[r]` of `PlaceOrder`, named for the call it waits for. The calls
before the charge only read, and one action makes each: `GetUserCart`, `PrepOrderItems` (all
products and prices), `QuoteShipping`. From the charge on a call has an effect, and is
modelled in three parts: it is made (`calls`), it is executed (`Execute`, at any time, or
never, or after its caller has given up), and the request goes on, with an answer or an error.
It gets a good answer only if the call was executed, and an error in any case: a refusal, a
lost answer and a broken connection look alike to the caller. `ChargeCard` and `ShipOrder`
return on an error; `EmptyUserCart`, `SendOrderConfirmation` and `SendToPostProcessor` go on,
as the code ignores or logs theirs. `Crash` ends all requests of the process at once, leaving
their calls out; the deployment restarts the process, which has nothing to recover, and
requests not yet made go on.

The cart holds items, one per AddItem call, so that a lost or repeated one can be told.
AddItem is a read and a write of it (`AddRead`, `AddWrite`), as in the cart service: any number
of them overlap, a write that was sent is executed at any time, also long after its call has
answered an error, or is lost (`AddLost`). `base` is what an AddItem has read. `Drop` is a cart
that its user empties or that lapses. `Sellable` items have a product in the catalogue. `late`,
`missed`, `dropped`, `raced` and `cleared` only record what happened, for the properties. An
event may be written to the topic several times, by
sarama's retries or `kafkaQueueProblems`.

### OrderProducer

The senders are the calls of `sendToPostProcessor` and the goroutines that
`kafkaQueueProblems` starts. `pipe` is what sarama holds: messages sent, each with the report
it will make. sarama itself is external and modelled from how it is used: it takes a message
while it holds fewer than `Capacity`, makes one report for each, and anybody who listens on a
channel gets any report. The goroutine of `producer.go` 37-41 takes errors too (`Drain`).
`done` are the orders whose context is over.

### CartStore

A call is at the command it awaits. A command is sent (`out`) and executed later (`HashSet`,
`KeyExpire`) or never; its call goes on once it was executed, or fails at any time, executed
or not, and the command of a failed call can be executed yet. `AddItem` is the read, what the
code makes of it, and the sending of the write: the three happen between two awaits. A cart is
the set of AddItem calls it reflects; the merging of quantities is left out, since these calls
determine it. `named` are the carts that carry a UserId. `Expire` may happen whenever a key
has a time to live. `OneAtATime` are the users who wait for a call, and the commands it may
have left behind, before they make the next.

### CartConnection

A thread is at a step of `EnsureRedisConnected`; the flag is read without the lock and again
with it. A multiplexer is external: it loses its connection and gets it back when it likes,
and the handlers it has been given by then run later, in order, in threads of their own.
`missed` records that a handler ran of a multiplexer that is no longer in use or is just being
replaced, or that a connection was lost before there were handlers.

### Storefront, Session

A client is a tab or an app. A click is an AddItem, EmptyCart or PlaceOrder call, in steps: the
page sends it, the route has its service called, and the page is told of success or error. An
item is known by the click that added it. `query` is what react-query caches for each currency:
the data, whether a fetch is under way, with what answer; adding and emptying invalidate it, and
the fetch that follows may be answered before or after other clicks take effect. The checkout
route looks up every product after the order was placed, and answers 500 when that fails. Behind
the routes, a click's write of the cart is sent (`out`) and executed later or never (`Execute`),
however its call has ended: an addition writes what it read with its item, so that two tabs can
write over each other; and an order goes on when its EmptyCart fails (`GoOn`), which may then be
executed late. A cart lapses at any time (`Lapse`). Within one order the effects come in the
order `PlaceOrder` has them in, and what users see of them is proved to keep `OrderEffects`.
`kept` are the orders that ended before the cart was emptied, `lapsed` the users whose cart
lapsed or was emptied by one of those, and `hasty` the users who clicked before the last click
was answered and its fetch had ended, had two clients open when they clicked, or had a click or
a fetch fail: all three for the properties. That a connection breaks while the server goes on is
a click whose answer is never received. Left out: where in the shop a user is, since he can go
anywhere at any time, and the query of a page's first instant, before the stored currency has
been read. react-query is external and modelled from how it is used.

`Session` is the part below: which user a tab acts for. Two tabs read and write `localStorage`
in separate steps, and modules keep the user they read when they were loaded.

### FlagdUi

Each page has a view, what it shows, what it read last, and the saves and reads under way: the
effect that reads the file runs when `reloadData` becomes true and again when it has set it to
false, so each save is followed by two reads whose answers may cross. The spinner is drawn over
the page and keeps nobody from typing, or from saving again, with the keyboard; `SaveSlots` and
`ReadSlots` bound a page's calls under way to two and three. The text area of the advanced view
has a default value only, so that what it was put on the page with stays in it (`KeepsText`)
while `last` follows every read. The server opens the file, which empties it, and writes it in a
second step; other requests come in between. A file is a configuration, "null", empty or torn,
the last being the end of a longer text behind a shorter one. Any call may fail, be lost or
never be answered, and a page may be loaded again. `version` counts the writes, and `base`,
`touched`, `rash`, `refused` and `broken` record what happened to a page, for the properties.

### DemoMessages, Wire

ts-proto generates the same text for each message, filled in with its fields. `DemoMessages` has
the fields and `Wire` the text, once, for any table of types. `Types` is the reader's table,
`known` the writer's: `Writers` are the tables it may know, and `Agrees` is what is asked of
them, that a number is not used again for a field of another kind that is written alike. What a
caller gives is encoded as it is: it has a value for every field (`Sent`), as `fromPartial`
makes them, which only `MCWire` uses, to complete the messages it tries. The wire is a sequence
of words; that a tag, a number or a text takes more than one byte is left out. int32 and int64
wrap as on the wire, and the reader refuses what is beyond `Number.MAX_SAFE_INTEGER`. A decode
that refuses throws, and there is no message: the properties about one ask for `got.ok`.

The generated `encode`, `decode`, `toJSON` and `fromJSON` call those of the types inside. Here
each is a recursive function that goes level by level instead: `Encodings(V, p)[n]` has the
words of every part of the message `p` with at most `n` levels inside, `Decodings(w)[n]` what
decode makes of at most `n` of the words `w`, and `Turn` is one turn of decode's loop. That
gives each a domain TLC can compute and an induction the prover can make.

### OrderConsumers

One consumer group in a behaviour. The offsets a client library commits are modelled from its
documented contract: Confluent's by a timer, of records handed over; Kafka's Java client at a
poll, of what earlier polls returned, and at close, of all that was. A record is an order or
one that cannot be parsed, which accounting logs and which ends fraud detection's loop through
the closing of its consumer. `Crash` loses what is in memory. `first` is where the group began
to read, and `passed` what it passed over when it began anew, for the properties.

### Prices

An amount goes from `calculateQuote` (which fails as 0.0) through `create_quote_from_float`,
`getDouble` and `getUnitsAndNanos`, and the cart page's sum, as the code represents it at each
place; doubles are exact except where they are cut off, which may cost a nano or a cent. Every
request for a quote draws a new one. The table of rates grows by the codes that are asked for.
Quantities are positive. The sum an order is charged is the exact one: `OrderTotal` shows that
it is.

### CpuLoad, Recommendations

The steps of `getInstance` and `execute`, and those of a cache miss, are the reads and writes
of the shared fields; threads take them in any order. The Java code being unsynchronised, it
is assumed that a thread sees the fields as they are. The recommendation list is known by its
length; line 87 of `recommendation_server.py` reads it three times, what to append to, what to
slice and how much of it, before it stores the result.

## 3. What the runs check

| run | instance | properties | what it shows |
|---|---|---|---|
| `Money`, laws | every pair of -2..2 units and -12..12 nanos, nanosMod 10, two currencies | `SumIsExact`, `SumIsValidUnlessUnitsVanish`, `SignsAgreeWithValue` | when Sum is exact, is valid; the predicates are signs |
| `Money`, total | up to two lines, 1 to 3 pieces, five prices and four costs of shipping, zero among both | `NoPanic`, `ChargesWhatIsOwed`, `ChargesValidAmount` | payable orders are charged exactly, in a valid amount unless lean |
| `Money_form` | the same | `SumKeepsMoneyForm` (violated) | the sum of two valid amounts need not be valid |
| `Money_zero` | the same with quantities 0 to 2 | `ChargesWhatIsOwed` (violated) | quantity 0 is charged as 1 |
| `Checkout` | one user, two items, one sellable, two requests, two events each, two scenes | `TypeOK`, `ItemsAreAccountedFor`, `ReorderedOnlyByRacingAdd`, `UnsellableIsNeverCharged`, `KeepsPromise`, `EveryOrderEnds` | see below |
| `OrderProducer` | two orders, two copies, capacity 2, errors, callers that leave | `ReportsMatchWaits`, `BlockedOnlyByAbandoned`, `EveryOrderGetsPast`, `CancelledOrdersEnd` | how an order can be held up at Kafka |
| `OrderProducer_offsets` | the same without any failure | `ReportIsOwn` (violated) | reports get swapped |
| `CartStore` | one user, two additions, one EmptyCart, overlapping | `ImmortalOnlyHalfWritten`, `LostOnlyToStaleWrite` | how items get lost and keys stay |
| `CartStore_turns` | and a GetCart, calls take turns | `CartIsAtomic` | in turn, a cart is atomic |
| `CartStore_userid` | the same | `CartNamesItsUser` (violated) | a cart refilled has no UserId |
| `WebApps`, flags | one basic and one advanced page, two flags of two variants, two saves, two edits; scenes "pages" and "page" | `FlagdUiTypeOK`, `FileIsWhole`, `FreshSaveKeepsOthers`, `UnmarkedIsSaved`, `SpinnerHasCause` | what saves undo, and what pages say of it |
| `WebApps`, shop | two tabs of one user, two currencies, four clicks or other acts; scenes "tabs" and "carts" | `StorefrontTypeOK`, `ConfirmedIsOrdered`, `NothingOrderedTwice`, `ReadsItsOwnChanges`, `PatientUserOrdersWhatIsShown` | what a user is told, shown and charged |
| `Wire` | every method of `demo.proto`, each with the versions a writer may have, up to two fields given | `ReadAsMeant`, `OnlyUnsafeUnitsFail`, `JsonKeepsTheMessage` | messages between services deployed one by one |
| `Services` | six scenes, bounds below | `OneUserPerBrowser`, `OrdersLostHaveCause`, `CatchesUp`, `WorkersAreThoseOfRunning`, `FlagTellsTheTruth`, `CacheHoldsCatalogues`, `ChargedIsShown`, `ChargedIsOwed` | the small services |

What the properties of `Checkout` say. `KeepsPromise`: charge, ship, then empty, mail and
event, each at most once but the event; "ok" means charged and shipped, "unavailable" means
charged, and an "internal" order may have been charged nevertheless, which is why that answer
promises nothing. `ItemsAreAccountedFor`: an item that was written to the cart is in it or in
the items of an order, or it is gone for a cause: the user emptied the cart or it lapsed; it was
written between the GetCart and the EmptyCart of an order that did empty the cart; or it was
written between the read and the write of another AddItem, which may be executed when its call
has long been answered. `ReorderedOnlyByRacingAdd`: once an order's EmptyCart was executed, a
later order has none of its items, unless at that moment an AddItem had read the cart and its
write was still to be executed, its call answered or not. These two are the exact extent to
which emptying the cart by user rather than by item, and a read and a write for each addition,
are harmless. Two requests at once for the same cart do order the same items twice, both being
charged: nothing in the code prevents it, and the property speaks of orders that read the cart
after it was emptied.

In `OrderProducer`, `ReportsMatchWaits` is the balance of the channels: waits + waits given up
= reports owed + errors drained. From it follows what can go wrong: an error the draining
goroutine takes leaves one wait for which there is no report (that order hangs until its
caller leaves, or takes the next order's report and passes the lack on), a wait that is given
up leaves a report for which there is no wait, and as many of them as the producer holds block
every later order at `Input()`. `BlockedOnlyByAbandoned` says there is no other way.

In `WebApps`, `NothingOrderedTwice` names the ways in which an item is paid for twice: the
first order ended before the cart was emptied, or its user clicked again before he was
answered, had two tabs open or was answered an error. `PatientUserOrdersWhatIsShown` says that
whoever does none of the last three is charged for what he saw, or for an empty cart, which the
checkout service charges too, if a cart of his lapsed or an earlier order emptied it after it
had ended; `ReadsItsOwnChanges`, that a tab's cart is not older than
its own last change, unless a fetch failed or was already under way and was not started again.
`FreshSaveKeepsOthers`: an edit is undone by a page that read the file before it, and by no
other. `UnmarkedIsSaved` has three exceptions, each listed below: a save that was refused, text
typed while a read was under way, and text typed while a save was, whose answer takes the mark
off.

In `Services`, `OrdersLostHaveCause` is how many orders the two consumers can lose: accounting
one for each crash, the one it holds when the timer commits; fraud detection what a poll's
batch has behind a record that cannot be parsed, what was on the topic before it first read it,
and, if it crashed before it had committed anything, what came before it began anew, polled or
not; none by a later crash. `ChargedIsOwed` and `ChargedIsShown` say under which conditions the
amounts agree; each of their premises was seen to be necessary. `FlagTellsTheTruth` and
`WorkersAreThoseOfRunning` speak of moments when no thread is half way.

### Bounds and why they are enough

* Money: with nanosMod 10, tenths, -12..12 contains both sides of every comparison the code
  makes (0, ±nanosMod), the sums of two cover the range of a carry, and `Int32Half` 21 is as
  tight as 2^31 is for 10^9: between two and three units of nanos.
* OrderTotal: zero, and prices on both sides of one unit and from one half on, with and without
  carry, lean orders and others; two lines show that a line starts from the total of the one
  before, three pieces that the loop runs more than once.
* Checkout: one user, since requests of different users share nothing; two requests and two
  items are what a lost or repeated item needs, one request to take the item and one to repeat
  it, one item added before and one after, or the two overlapping. In the scene "carts" the
  cart changes at any time and mails and events, which no cart depends on, are not executed; in
  "effects" they are, and the cart is filled before the first order. `MaxEvents` = 2 shows a
  repeated event.
* OrderProducer: two orders and two copies of one are enough for a swapped report, a report
  that is drained and one that is abandoned, and with capacity 2 for a full pipe.
* CartStore: two additions lose one, and a third writer, EmptyCart, is needed for a stale
  write over an emptied cart. One user, since a key is a user's.
* WebApps, flags: two pages are what one save undoing the other needs, one of each view, two
  flags so that each can change its own; two saves overlap, and two edits make a page older
  than the file and a text that is typed while a read, or a save, is under way. In "pages" both
  are open, each with one save and two reads under way, and no call is lost; in "page" one is,
  with calls that are lost, invalid text, a second save under the spinner and pages loaded
  again, of three saves and edits together.
* WebApps, shop: users share nothing, so one. In "tabs" he has two tabs and currencies, and no
  call fails; of four acts one adds an item, two order it and one is left for another tab,
  currency or addition. In "carts" he has one tab, waits for the answer to each click, and
  calls fail, writes are late and carts lapse. The proofs have no scenes.
* Wire: all methods, with 8, 64 and 31 for 2^31, 2^63 and 2^53 - 1, in the same order. A
  writer has the reader's table but for one type, at the top or inside, with a field more,
  without its last, or with a field of another wire type. Two fields are given, each with
  extreme values or with a message that is empty, full or has a single field. `MaxDepth` is 4,
  an order's item's cost being three levels inside PlaceOrderResponse, and an unknown message
  one more.
* Services. `Session`: two tabs race. `OrderConsumers`: four records, batches of three
  and two crashes have a batch with orders before and behind a bad record, and a crash after a
  restart. `CpuLoad`: three threads, the third to find what two have left. `CartConnection`:
  three threads, three multiplexers, three drops: an old one's handler runs while another is
  made. `Recommendations`: three requests, two of them racing; a catalogue of three has a
  quarter that is cut off. `Prices`: a price whose nanos begin with a zero and one whose do
  not, a quote that gets such nanos when it loses a cent and one that does not, one and two
  pieces, a currency with a rate, dollars and an unknown code.

No run uses symmetry. `CHECK_DEADLOCK FALSE` is set where the system has nothing left to do
once its finite set of calls is over.

### Fairness

`Checkout`: `Fairness` (in `FairSpec`, and in the run's `MCSpec`) has a running goroutine
advance, weakly fair, at every point but the wait for Kafka. It is an assumption on the calls,
all of which return, with an answer or an error: the connection reports a dead peer. The
execution of calls is not fair, so no answer is assumed to be good. The wait for Kafka is not
fair either, because the context of a request has no deadline of its own; so `EveryOrderEnds`
lets an order end there.

`OrderProducer`: the goroutines run when they can (a goroutine that is ready to take from a
channel eventually does) and so does the draining one; no caller ever has to leave.
`EveryOrderGetsPast` therefore has a premise, that no error is drained and no caller leaves,
and the run contains behaviours that violate the premise as well as ones that keep it.

`OrderConsumers`, in `Services`: a service that stopped is started (the deployment restarts
the container), and one that runs goes on with its loop, whose calls return. Crashes and
orders are bounded, so that `CatchesUp` says: when they end, the service gets to the end of
the topic and stays there. The timer's commits are not fair.

The other specifications have no fairness and no liveness property: a call that never returns,
which they all contain, ends nothing and loses nothing the properties speak of.

## 4. What is proved

| theorem | module | property |
|---|---|---|
| `SumIsNormalise`, `SumExact`, `SumValid`, `PredicatesAreSigns` | `MoneyProofs` | the first addition never wraps; every property of `MoneyLaws`, for all amounts |
| `PayableOrdersDoNotPanic`, `...AreChargedExactly`, `...ChargeValidAmounts` | `MoneyProofs` | `NoPanic`, `ChargesWhatIsOwed`, `ChargesValidAmount`, under `Payable`, for any number of lines and any quantities |
| `TypeCorrect`, `CheckoutKeepsPromise`, `ItemsStayAccountedFor`, `ItemsAreReorderedOnlyByRacingAdd`, `UnsellableOrdersAreNeverCharged` | `CheckoutProofs` | every property of `Checkout` but liveness, for any users, items, requests |
| `TypeCorrect`, `ReportsAndWaitsMatch`, `OrdersBlockOnlyBehindAbandoned` | `OrderProducerProofs` | the balance and what follows, for any finite sets and capacity |
| `TypeCorrect`, `KeysAreImmortalOnlyHalfWritten`, `ItemsAreLostOnlyToStaleWrites`, `CartsAreAtomicInTurn` | `CartStoreProofs` | every property of `CartStore` that holds, for any users and calls |
| `StorefrontTypeCorrect`, `ToldIsOrdered`, `StorefrontKeepsPromise`, `OrderedOnce`, `OwnChangesAreRead`, `PatientUsersAreChargedWhatIsShown` | `StorefrontProofs` | every property of `Storefront`, for any clients, users and currencies |
| `FlagdUiTypeCorrect`, `FileStaysWhole`, `SpinnerIsCaused`, `FreshSavesKeepOthers`, `UnmarkedMeansSaved` | `FlagdUiProofs` | every property of `FlagdUi`, for any pages, flags and variants |
| `BrowserHasOneUser`, `LoadEndsWithFlag`, `FlagIsTrue`, `LostOrdersHaveCause`, `CacheIsBounded`, `ShownIsCharged`, `OwedIsCharged` | `ServicesProofs` | every invariant of `Services`, for any tabs, threads, orders, batches, crashes, connections, catalogue, prices, rates and costs |
| `WireInvHolds`, `ReadAsMeantHolds`, `OnlyUnsafeUnitsFailHolds`, `JsonKeepsTheMessageHolds` | `WireProofs` | every property of `Wire`, for any tables of types, methods, messages, depth and widths of integers that keep `WireAssumption` |

Arguments and invariants:

* **Money.** `CarryOfTwo` bounds the carry of two valid nano parts and what it leaves;
  `NanosAddInRange` shows that their sum is in int32; `NormaliseOfSum` computes the result in
  each of the three branches. The two laws follow by the branch that applies. That a unit
  outweighs any valid nano part (`UnitsOutweighNanos`) makes the predicates signs.
* **OrderTotal.** The inductive invariant says where each of total and out stands: unless the
  order is lean, total is zero or has at least one unit; out is zero, if the price is, or at
  least half a unit; a lean total is not valid, so that nothing can be added to it; and owed is
  what total, out and the turns of the loop that are left are worth together. A half unit is
  enough to make the double a whole unit, and a sum with a whole unit never vanishes; that is
  why `Payable` asks for it.
* **Checkout, promise.** `OrderInv` relates where an order is to its effects: a call that is
  out has not been executed (but for an event), no call that lies ahead of an order was made,
  and those made after a call whose error is checked have its effect behind them. Each step
  then maps to a step of `OrderEffects` or to a stutter: the execution of a call to `Perform`,
  a return to `Answer`.
* **Checkout, items.** `CartInv` adds that each item of the cart is in what an AddItem half done
  has read, in what that one has `missed`, or accounted for, and that, while an order may yet
  empty the cart, each item in it is in an order or in that order's `late` set: so neither the
  write of an old base nor a late EmptyCart loses anything else. For the theorem on reordering,
  `ClearedInv` says that an emptied order's items, unless its EmptyCart was raced, are neither
  in the cart nor in the hands of an AddItem, where a later order could find them.
* **OrderProducer.** A message in the pipe is by a sender that is past `Input()`, and no two
  are by the same one; with that each action moves one element from one side of the balance to
  the other, or one on each side. The finiteness of all sets is part of the invariant.
* **CartStore.** `CommandInv` relates a call's place to the commands it has sent and executed;
  `FreshInv` says that an addition that is not stale holds all that the cart holds; `TurnInv`
  says that at most one call of a user in turn is active and no command of an ended call is
  out, which gives the refinement of `AtomicCart`.
* **Storefront.** `OrdersInv` relates where an order's click is to its effects, so that each
  step maps to a step of `OrderEffects` or to a stutter; an order whose write is out was
  shipped, and one that has gone on is in `executed` or in `kept`. `OnceInv` is for ordering
  once: carts, and what clicks have read of them, are of their users' clicks (`CartsAreOwn`), a
  user who is not hasty has one click under way (`OneAtATime`), and what an order that emptied
  the cart before it ended saw is no longer in it, nor in what later clicks read (`TakenOut`);
  `NeverRefused` adds that an order of such a user was not answered an error.
  `OwnChangesInv` follows each fetch through its crossings: what a client was told is in what
  its fetch brings back and in what it shows, unless the fetch is marked late. `PatientInv` is
  for a user who is not hasty: with no click under way his only client shows his cart or has
  it on its way (`ShowsCart`), only the selected currency is fetched, and a client that clicks
  has fetched before, so that the answer starts its fetch again (`OneFetch`), and what he
  orders is what he was shown (`OrdersShown`); where "is his cart" means that it is, or that
  his cart is empty and he is in `lapsed` (`IsCart`), which a late EmptyCart and a lapse keep.
* **FlagdUi.** `FileInv` says that a write is alone with an empty file unless writes
  overlapped; `SpinnerInv` says for each page what the spinner waits for. `FreshInv` is the
  bookkeeping of versions: no page, save or read goes back to a version that is yet to come,
  and one that goes back to the present version differs from the file in the flags it has
  touched only. `UnmarkedInv` says that an unmarked page which reads shows nothing of its own
  (`Clean`), and that a page shows what each save of it under way saves, or nothing of its own,
  unless it was typed in since, but for the exceptions.

* **Services.** The parts share no variable, so a step of `Services` is a step or a stutter of
  each (`PartsSteps`), and each part has an invariant of its own.
  * *Session.* `SessionInv`: unless two tabs raced, a tab that is open acts for the user that
    is stored, and whatever a tab has read and has still to write names that user.
  * *CpuLoad.* `WorkersHaveACall`: an instance that is not running has workers only while a
    call is about to mark it as running or to stop them; `FlagsAgree`: without a clash the
    calls in `execute` saw the same flag, so that none of them undoes what another does;
    `MarksAreTrue`: what a call is about to say of an instance is so.
  * *CartConnection.* `LockIsHeld` puts at most one thread behind the lock;
    `EventsFollowLinks` says that a multiplexer tells nothing before it is watched, and that
    the last thing it has to tell is how its link is; `FlagIsRight`, that the flag is down while
    the lock is held, and right once everything has been told.
  * *OrderConsumers.* `Positions` orders the offsets: committed, handled, polled, produced.
    `Beginnings` says that a group that has begun and stopped with nothing committed has
    crashed. `NothingLost` reduces a step to the records it loses; of these only a crash, the end
    of a batch at a record that cannot be parsed, and a start without a committed offset make
    any.
  * *Recommendations.* Threads append to a list that others have read before. The invariant
    counts, as ghosts under \E, the whole appends and the quarters that the list consists of:
    both, with the threads that are about to make one, are at most `misses`, and the list, like
    what each thread has read to append to, is at most what that many make of it in the worst
    order (`Grown`, all whole ones first). `GrownPlus` and `GrownMonotone` compare two such
    lists.
  * *Prices.* `ChargedIsShown` and `ChargedIsOwed` are inductive with the types, because
    nothing that an order is for changes once it is placed; the work is in the step that places
    it. `Converted` bounds what a conversion loses, `QuoteOf` what cutting a quote to cents
    does, `ChargeIsOwed` and `ChargeIsShown` add that up over the products by `SumsCompare`:
    sums compare as their terms do. `ServicesAssumption` has it that shipping costs whole
    cents, as `quote/app/routes.php` 29 makes it tenths of a dollar; with other costs a quote
    would lose up to another cent.
  * What a recursive function computes is proved by induction over a set that takes the place
    of the predicate (`NatInd`, `SubsetInd`, from the well-foundedness of strict inclusion):
    that `Grown`, `Decimal` and the community modules' sum are what their definitions say is
    proved there, existence first.

* **Wire.** `WireInv` is short: what was given, written and got are what the operators make of
  each other. The work is in what the operators compute, in six steps.
  * *Recursive functions.* `f[n \in S] == ...` is by definition some function that satisfies
    its equation, if there is one. The lemmas named `*Rec` show for each that there is: by
    induction over the levels or turns, in the form of sets (`NatInd`, `UpInd`, `DownInd`).
  * *Where things are.* `Places` says that the words of a message are those of its values, one
    behind the other, each with the tag of its field and, for a message inside, the words that
    `Encodings` has for it (`Placed`, `ElementAt`, `FieldChain`, `MessageChain`).
  * *One turn.* `Partly` is the message decode has between two values: the meaning of the
    values passed, the other fields having their defaults. `OneTurn` shows that a turn gets
    from one value to the next: `TurnReads` for a field the reader has, `TurnSkips` for
    another, `ReadItem` for the value itself, which for a message inside needs what *Levels*
    proves of it.
  * *The loop.* Turns beyond the last change nothing and `Reached` follows the others
    (`ReachedStart`, `ReachedNext`, `ReachedOver`, `ReachedEnd`), so that `OneMessage` says
    what the loop makes of a message if the messages inside are read as they are meant.
  * *Levels.* `AllIsRead` removes that condition by induction from the deepest messages up; a
    message inside has fewer words than the one around it, so that the index of `Decodings`
    suffices. `Delivered` is the result for the message that was sent. Both `ReadAsMeant` and
    `OnlyUnsafeUnitsFail` follow from it.
  * *JSON.* `AllTidy`: what was read has, at every level, just the fields of its type, none of
    them deeper than allowed. `JsonRoundTrip`: on such a message `fromJSON` undoes `toJSON`,
    level by level, since what `toJSON` leaves out is what `fromJSON` puts in.

  `WireAssumption` is what the code gives: fields of a type differ in number and name, only
  strings and messages repeat (numbers would be packed, and `demo.proto` has no such field), a
  reader has no double, tables of writers agree with the reader's, and the messages that callers
  give have values of their fields' types, nested no deeper than `MaxDepth`. Half the range of
  int64 is a multiple of that of int32.

The proofs assume only the named assumptions of the constants, which TLC evaluates in the
runs of their modules, and `Payable` where it is stated.

Left to TLC: the liveness properties `EveryOrderEnds`, `EveryOrderGetsPast`,
`CancelledOrdersEnd` and `CatchesUp`, since liveness under fairness is out of the prover's
reach. Every other property of a passing run is proved.

## 5. Where code and documents differ

* `Money_form`: `money.go` 95 and `pb/demo.proto` 156 against 0.30 + 0.30.
* `Money_zero`: `money.go` 111-112, "adding the value to itself n-1 times", against a
  quantity of 0, charged as one piece.
* `OrderProducer_offsets`: `producer.go` 28, "So we can know the partition and offset of
  messages", against reports that are not the order's own.
* `CartStore_userid`: `CartServiceTests.cs` 95, `Assert.Equal(userId, cart.UserId)`, against a
  cart filled after EmptyCart.

Seen while modelling, without a violated run of their own; the models contain the behaviour,
and where a property needs a condition because of it, the condition says so:

* Shipping is zero when the quote failed; an order that begins with it and one piece at 0.99 USD
  has the total (1, -10000000) (`money.go` 95): it is charged in that form, and a second line
  makes `Must` panic (`main.go` 271). `NoPanic` and `ChargesValidAmount` except such orders
  (`lean`).
* The cart page's total adds each product's price once, whatever its quantity (`CartItems.tsx`
  39); the order is charged for every piece. `ChargedIsShown` has the condition.
* The currency service forgets the zeros nanos begin with (`server.cpp` 150): 57.08 USD, a
  price of the catalogue, is converted as 57.80.
* A quote can lose a cent (`quote.rs` 76), 64.1 becoming 64.09, of which the currency service
  then makes 64.90.
* Any code that is asked for is put into the table of currencies with rate 0 (`server.cpp`
  195), is offered from then on, and prices everything at nothing.
* Two requests that find no `CPULoad` make one each (`CPULoad.java` 34); workers of the one
  that is replaced run for ever.
* flagd-ui: a save before the file was read writes "null" over the flags (`BasicView.tsx` 57);
  an answer 500 to a save is taken for a success (65; `AdvancedView.tsx` 103); what is typed
  is compared with an older text when a read is under way (`AdvancedView.tsx` 125), and the
  answer to a save takes the mark off what was typed since it was sent (106), so "Unsaved
  changes" may be missing; the spinner stays when a call fails (`BasicView.tsx` 67);
  a read that meets a write gives the basic view an object it fails to render (89).
* The mobile app divides nanos by 10^8 (`ProductCard.tsx` 49); `setSessionValue` spreads a
  promise (`Session.gateway.ts` 34; nothing calls it); the app says that a cart was emptied, or
  an item added, before the call is answered (`cart.tsx` 30, `ProductList.tsx` 23).
* `IsPositive` (`money.go` 36-40) is true of invalid amounts with zero units, which its
  comment excludes.

## 6. Not modelled

* Cart service: the quantities of a cart's lines, since a cart is the set of additions it
  reflects; Ping and the health check, which change nothing.
* Product catalogue: its list never changes, GetProduct is a choice in `Checkout` and the
  prices are constants of `Prices`; SearchProducts matches strings.
* Payment and email: stateless; their effects are counted in `Checkout`. ShipOrder likewise.
* Recommendation: the random choice among products, and the case without the flag, which has
  no state. Ad service: the ads, a constant map, and the garbage collection trigger, which is
  of one call at a time.
* Frontend and mobile app: pages that only read (products, ads, recommendations), the fields
  of forms, navigation, settings and telemetry. The data races of the currency table and of
  `CPULoad`'s list on the level of memory.
* Load generator: a random client. Envoy, flagd, Kafka, Valkey, PostgreSQL and the
  observability programs are third party, and appear only as the code uses them; Kubernetes,
  Argo CD, Terraform and the CI workflow are declarations that third-party programs carry out.
