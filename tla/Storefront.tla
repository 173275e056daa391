------------------------------ MODULE Storefront ------------------------------
(***************************************************************************)
(* The shop as its users meet it: clients (a tab of a browser, or the      *)
(* mobile app), the cart that react-query caches in each, the routes of    *)
(* the frontend's server, and behind these the cart service, whose writes  *)
(* may be executed late and whose carts lapse, and the checkout service.   *)
(*                                                                         *)
(* A click is an AddItem, an EmptyCart or a PlaceOrder call.  An item is   *)
(* known by the click that added it, so that an item ordered twice can be  *)
(* seen, and so can a cart that is shown after it has changed.  A user can *)
(* go to any page at any time: where he is constrains nothing, and is left *)
(* out.  Which user a client acts for is the subject of module Session.    *)
(***************************************************************************)
EXTENDS Naturals, Sequences

CONSTANTS
  Clients,
  Users,
  UserOf,       \* of each client: its user
  Currencies,
  Usual,        \* the currency of each client at first
  MaxActs       \* bound: what users do, be it a click, a new client or another currency

ASSUME StorefrontAssumption ==
  /\ UserOf \in [Clients -> Users]
  /\ Usual \in Currencies
  /\ MaxActs \in Nat

VARIABLES
  open,       \* the clients that are open
  currency,   \* of each client: the selected currency
  query,      \* of each client and currency: what react-query keeps of the cart
  clicks,     \* the clicks so far
  cart,       \* of each user: the cart at the cart service
  out,        \* the clicks whose write of the cart was sent, and not executed yet
  acts,       \* what users have done so far
  \* For the properties only:
  executed,   \* the clicks that have written a cart
  charged,    \* the orders that were charged
  shipped,    \* the orders that were shipped
  kept,       \* the orders that ended with the cart not emptied yet
  lapsed,     \* the users whose cart lapsed, or was emptied late by an order in kept
  hasty       \* the users that were not patient, or not lucky

browser   == <<open, currency, query, acts>>
store     == <<cart, out, executed, lapsed>>
shop      == <<store, charged, shipped, kept>>
storeVars == <<browser, clicks, shop, hasty>>

Clicks == 1..MaxActs   \* a click is known by its number

Act == acts < MaxActs /\ acts' = acts + 1

-----------------------------------------------------------------------------
Nothing == [items |-> {}, seen |-> {}]
NoFetch == [at |-> "none", has |-> FALSE, data |-> Nothing, got |-> Nothing, late |-> FALSE]

StoreInit ==
  /\ open = {}
  /\ currency = [c \in Clients |-> Usual]
  /\ query = [c \in Clients |-> [k \in Currencies |-> NoFetch]]
  /\ clicks = <<>>
  /\ cart = [u \in Users |-> {}]
  /\ out = {}
  /\ acts = 0
  /\ executed = {} /\ charged = {} /\ shipped = {}
  /\ kept = {} /\ lapsed = {} /\ hasty = {}

-----------------------------------------------------------------------------
(* react-query: one query for each currency, of which the one for the        *)
(* selected currency is shown.                                               *)

Active(c) == query[c][currency[c]]

Shown(c) == Active(c).data.items

Started(q) == [q EXCEPT !.at = "sent", !.got = Nothing, !.late = FALSE]

\* Mounted or focused: a fetch under way is joined.
Fetched(q) == IF q.at = "none" THEN Started(q) ELSE q

\* Variant: an invalidated query joins the fetch under way.
RefetchedLate(q) == IF q.at = "none" THEN Started(q) ELSE [q EXCEPT !.late = ~q.has]

\* Invalidated while it is shown: a fetch under way is cancelled and started again,
\* unless there are no data yet.
Refetched(q) == IF q.at = "none" \/ q.has THEN Started(q) ELSE [q EXCEPT !.late = TRUE]

\* Variant: queries are not invalidated.
InvalidatedNot(c) == query[c]

\* invalidateQueries(['cart']) after a click that was answered well.
Invalidated(c) ==
  [k \in Currencies |->
     IF k = currency[c] THEN Refetched(query[c][k])
     ELSE [query[c][k] EXCEPT !.late = query[c][k].at # "none"]]

\* A client is opened, and fetches its cart.
Open(c) ==
  /\ c \notin open
  /\ Act
  /\ open' = open \cup {c}
  /\ query' = [query EXCEPT ![c][currency[c]] = Started(@)]
  /\ UNCHANGED <<currency, clicks, shop, hasty>>

\* GET /api/cart, which looks every product up and converts its price.
ServeCart(c, k) ==
  /\ query[c][k].at = "sent"
  /\ query' = [query EXCEPT ![c][k].at = "back",
                            ![c][k].got = [items |-> cart[UserOf[c]], seen |-> executed]]
  /\ UNCHANGED <<open, currency, acts, clicks, shop, hasty>>

ReceiveCart(c, k) ==
  /\ query[c][k].at = "back"
  /\ query' = [query EXCEPT ![c][k] = [@ EXCEPT !.at = "none", !.has = TRUE,
                                                !.data = query[c][k].got, !.got = Nothing]]
  /\ UNCHANGED <<open, currency, acts, clicks, shop, hasty>>

\* The fetch fails, and so did its retries: what was there stays.
FailCart(c, k) ==
  /\ query[c][k].at = "sent"
  /\ query' = [query EXCEPT ![c][k] = [@ EXCEPT !.at = "none", !.late = TRUE]]
  /\ hasty' = hasty \cup {UserOf[c]}
  /\ UNCHANGED <<open, currency, acts, clicks, shop>>

\* The window gets the focus.
Focus(c) ==
  /\ c \in open
  /\ Active(c).at = "none"
  /\ query' = [query EXCEPT ![c][currency[c]] = Fetched(@)]
  /\ UNCHANGED <<open, currency, acts, clicks, shop, hasty>>

-----------------------------------------------------------------------------
(* Clicks.                                                                   *)

\* The client waits for nothing.
Idle(c) ==
  /\ Active(c).at = "none"
  /\ \A i \in DOMAIN clicks : clicks[i].by = c => clicks[i].at \in {"told", "refused"}

Alone(c) == \A d \in open \ {c} : UserOf[d] # UserOf[c]

\* The user does not wait until the last thing he did has shown its effect.
Presses(c) == hasty' = IF Idle(c) /\ Alone(c) THEN hasty ELSE hasty \cup {UserOf[c]}

\* Variant: the value of the option is not read.
SelectNothing(c, k) ==
  /\ c \in open
  /\ k # currency[c]
  /\ Act
  /\ currency' = [currency EXCEPT ![c] = ""]
  /\ Presses(c)
  /\ UNCHANGED <<open, query, clicks, shop>>

\* The user selects a currency, and the query for it is mounted.
SelectCurrency(c, k) ==
  /\ c \in open
  /\ k # currency[c]
  /\ Act
  /\ currency' = [currency EXCEPT ![c] = k]
  /\ query' = [query EXCEPT ![c][k] = Fetched(@)]
  /\ Presses(c)
  /\ UNCHANGED <<open, clicks, shop>>

\* Nothing keeps a user from clicking again before a click has ended.
Click(c, kind) ==
  /\ c \in open
  /\ Act
  /\ clicks' = Append(clicks, [by |-> c, kind |-> kind, at |-> "sent",
                               shown |-> Shown(c), saw |-> {}])
  /\ Presses(c)
  /\ UNCHANGED <<open, currency, query, shop>>

AddItem(c) == Click(c, "add")

\* The cart page has its buttons only while it shows items.
EmptyCart(c) == Shown(c) # {} /\ Click(c, "empty")
PlaceOrder(c) == Shown(c) # {} /\ Click(c, "order")

\* A click goes on at the server.
Goes(i, kind, from, to) ==
  /\ clicks[i].kind = kind
  /\ clicks[i].at = from
  /\ clicks' = [clicks EXCEPT ![i].at = to]

UserBy(i) == UserOf[clicks[i].by]

\* The cart service reads the cart, and the click goes on with what it read.
Reads(i, kind, to) ==
  /\ clicks[i].kind = kind /\ clicks[i].at = "sent"
  /\ clicks' = [clicks EXCEPT ![i].at = to, ![i].saw = cart[UserBy(i)]]

\* Its write of the cart is sent to the store.
Sends(i) == out' = out \cup {i} /\ UNCHANGED <<cart, executed, lapsed>>

\* Variant: what an order writes is what it has read.
WritesBack(i) == IF clicks[i].kind = "add" THEN clicks[i].saw \cup {i} ELSE clicks[i].saw

\* What a click writes: the cart it read with its item in it, or an empty one.
Writes(i) == IF clicks[i].kind = "add" THEN clicks[i].saw \cup {i} ELSE {}

\* The store executes a write, however the call that sent it has ended since.
Execute(i) ==
  /\ i \in out
  /\ out' = out \ {i}
  /\ cart' = [cart EXCEPT ![UserBy(i)] = Writes(i)]
  /\ executed' = executed \cup {i}
  /\ lapsed' = IF i \in kept THEN lapsed \cup {UserBy(i)} ELSE lapsed
  /\ UNCHANGED <<browser, clicks, charged, shipped, kept, hasty>>

\* A cart lapses, an hour after it was last written.
Lapse(u) ==
  /\ cart[u] # {}
  /\ cart' = [cart EXCEPT ![u] = {}]
  /\ lapsed' = lapsed \cup {u}
  /\ UNCHANGED <<browser, clicks, out, executed, charged, shipped, kept, hasty>>

\* POST /api/cart: AddItem reads the cart and writes it ...
ServeAdd(i) ==
  /\ Reads(i, "add", "writing")
  /\ Sends(i)
  /\ UNCHANGED <<browser, charged, shipped, kept, hasty>>

\* ... and once it is written ...
Added(i) ==
  /\ i \in executed
  /\ Goes(i, "add", "writing", "added")
  /\ UNCHANGED <<browser, shop, hasty>>

\* ... the route gets the cart, which may fail although the item was added.
AnswerAdd(i, well) ==
  /\ Goes(i, "add", "added", IF well THEN "ok" ELSE "error")
  /\ UNCHANGED <<browser, shop, hasty>>

\* DELETE /api/cart.
ServeEmpty(i) ==
  /\ Goes(i, "empty", "sent", "writing")
  /\ Sends(i)
  /\ UNCHANGED <<browser, charged, shipped, kept, hasty>>

Emptied(i) ==
  /\ i \in executed
  /\ Goes(i, "empty", "writing", "ok")
  /\ UNCHANGED <<browser, shop, hasty>>

\* POST /api/checkout: the checkout service gets the cart ...
ReadCart(i) ==
  /\ Reads(i, "order", "read")
  /\ UNCHANGED <<browser, shop, hasty>>

\* ... charges the card ...
Charge(i) ==
  /\ Goes(i, "order", "read", "charged")
  /\ charged' = charged \cup {i}
  /\ UNCHANGED <<browser, store, shipped, kept, hasty>>

\* ... ships the order, or fails with the card charged; and sends the cart to be
\* emptied ...
Ship(i, ships) ==
  /\ Goes(i, "order", "charged", IF ships THEN "writing" ELSE "error")
  /\ IF ships THEN shipped' = shipped \cup {i} /\ Sends(i) ELSE UNCHANGED <<shipped, store>>
  /\ UNCHANGED <<browser, charged, kept, hasty>>

\* ... which it goes on without, if that fails.
GoOn(i) ==
  /\ Goes(i, "order", "writing", "placed")
  /\ kept' = IF i \in executed THEN kept ELSE kept \cup {i}
  /\ UNCHANGED <<browser, store, charged, shipped, hasty>>

\* The route looks each product up again, which may fail although the order is placed.
LookUp(i, well) ==
  /\ Goes(i, "order", "placed", IF well THEN "ok" ELSE "error")
  /\ UNCHANGED <<browser, shop, hasty>>

\* A service refuses before anything is done, a write takes too long, or the request or
\* a good answer is lost.
Fail(i) ==
  /\ \E from \in {"sent", "read", "writing", "ok"} : Goes(i, clicks[i].kind, from, "error")
  /\ UNCHANGED <<browser, shop, hasty>>

\* Variant: the status is not looked at, nor whether the body can be parsed.
GoodAnyway(i) == clicks[i].at \in {"ok", "error"}

\* request() parses whatever it gets: the body of an error is no JSON.
Good(i) == clicks[i].at = "ok"

\* A good answer arrives: the user is told, and the cart is fetched again.
ReceiveGood(i) ==
  LET c == clicks[i].by IN
  /\ Good(i)
  /\ clicks' = [clicks EXCEPT ![i].at = "told"]
  /\ query' = [query EXCEPT ![c] = Invalidated(c)]
  /\ UNCHANGED <<open, currency, acts, shop, hasty>>

\* After an error nothing happens, and the user may click again.
ReceiveError(i) ==
  /\ clicks[i].at = "error"
  /\ clicks' = [clicks EXCEPT ![i].at = "refused"]
  /\ hasty' = hasty \cup {UserBy(i)}
  /\ UNCHANGED <<browser, shop>>

StoreNext ==
  \/ \E c \in Clients :
       \/ Open(c) \/ Focus(c)
       \/ AddItem(c) \/ EmptyCart(c) \/ PlaceOrder(c)
       \/ \E k \in Currencies :
            SelectCurrency(c, k) \/ ServeCart(c, k) \/ ReceiveCart(c, k) \/ FailCart(c, k)
  \/ \E u \in Users : Lapse(u)
  \/ \E i \in DOMAIN clicks :
       \/ ServeAdd(i) \/ Added(i) \/ ServeEmpty(i) \/ Emptied(i) \/ Execute(i)
       \/ \E well \in BOOLEAN : AnswerAdd(i, well) \/ Ship(i, well) \/ LookUp(i, well)
       \/ ReadCart(i) \/ Charge(i) \/ GoOn(i)
       \/ Fail(i) \/ ReceiveGood(i) \/ ReceiveError(i)

StoreSpec == StoreInit /\ [][StoreNext]_storeVars

-----------------------------------------------------------------------------
(* Properties.                                                               *)

DataType  == [items : SUBSET Clicks, seen : SUBSET Clicks]
QueryType == [at : {"none", "sent", "back"}, has : BOOLEAN, data : DataType, got : DataType,
              late : BOOLEAN]
ClickType ==
  [by : Clients, kind : {"add", "empty", "order"},
   at : {"sent", "writing", "added", "read", "charged", "placed", "ok", "error", "told", "refused"},
   shown : SUBSET Clicks, saw : SUBSET Clicks]

\* The types of the variables.
StorefrontTypeOK ==
  /\ open \subseteq Clients
  /\ currency \in [Clients -> Currencies]
  /\ query \in [Clients -> [Currencies -> QueryType]]
  /\ clicks \in Seq(ClickType) /\ Len(clicks) <= acts
  /\ cart \in [Users -> SUBSET Clicks] /\ out \subseteq Clicks
  /\ acts \in 0..MaxActs
  /\ executed \subseteq Clicks /\ charged \subseteq Clicks
  /\ shipped \subseteq Clicks /\ kept \subseteq Clicks
  /\ lapsed \subseteq Users /\ hasty \subseteq Users

\* The effects of an order that OrderEffects knows and this module tells apart, and the
\* answer that the user gets to see.
TookPlace(i, e) ==
  \/ e = "charge" /\ i \in charged
  \/ e = "ship" /\ i \in shipped
  \/ e = "empty" /\ i \in executed /\ clicks[i].kind = "order"

Told(i) == i \in DOMAIN clicks /\ clicks[i].kind = "order" /\ clicks[i].at = "told"

OrderTimes ==
  [i \in Clicks |-> [e \in {"charge", "ship", "empty", "email", "event"} |->
                       IF TookPlace(i, e) THEN 1 ELSE 0]]
OrderAnswers == [i \in Clicks |-> IF Told(i) THEN "ok" ELSE "none"]

Orders == INSTANCE OrderEffects
            WITH Requests <- Clicks, times <- OrderTimes, answer <- OrderAnswers

\* What users see of their orders is what OrderEffects promises to the callers of the
\* checkout service: the route and the page add nothing, and make nothing worse.
ImplementsOrderEffects == Orders!Spec

\* "Your order is complete!": whoever is told so, by the page or by the app, has an
\* order that was charged and shipped.
ConfirmedIsOrdered ==
  \A i \in DOMAIN clicks :
    clicks[i].kind = "order" /\ clicks[i].at = "told" => i \in charged \cap shipped

\* An item is paid for once, however often its user clicks, unless the first of two
\* orders ended before the cart was emptied, or its user did not wait for an answer, got
\* an error for one, or had another client open.
NothingOrderedTwice ==
  \A i, j \in charged :
    i < j /\ clicks[i].saw \cap clicks[j].saw # {}
      => i \in kept \/ UserBy(i) \in hasty

\* A client reads its own changes: with no fetch under way, what it shows was read after
\* each change that it was told was made; unless the last fetch failed, or was under way
\* when the client was told and could not be started again.  An order is told of as done
\* whether its cart was emptied or not.
ReadsItsOwnChanges ==
  \A i \in executed \ kept :
    LET q == Active(clicks[i].by) IN
    clicks[i].at = "told" /\ q.at = "none" /\ ~q.late => i \in q.data.seen

\* Who waits for each click to end before the next, has no other client open and never
\* gets an error is charged for exactly what he was shown when he clicked; or, if a cart
\* of his lapsed or an order of his emptied one after it had ended, for an empty cart.
PatientUserOrdersWhatIsShown ==
  \A i \in charged : UserBy(i) \notin hasty =>
    \/ clicks[i].saw = clicks[i].shown
    \/ clicks[i].saw = {} /\ UserBy(i) \in lapsed
=============================================================================
