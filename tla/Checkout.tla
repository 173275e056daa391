------------------------------ MODULE Checkout ------------------------------
(***************************************************************************)
(* PlaceOrder (checkout/main.go) run by any number of requests at once,    *)
(* against a cart its user keeps filling and services that may refuse a    *)
(* call, execute it late, or execute it and lose the answer.               *)
(*                                                                         *)
(* The checkout service keeps nothing: what an order is lives in the       *)
(* locals of one goroutine and in the effects it has had on the others.    *)
(* The items of a cart are told apart (an item is one AddItem call), so    *)
(* that an item ordered twice, or lost, can be seen.                       *)
(***************************************************************************)
EXTENDS Naturals, FiniteSets

CONSTANTS
  Users,
  Items,        \* what users put into carts, one AddItem call each
  Buyer,        \* Buyer[i]: the user who adds item i
  Sellable,     \* the items whose product is in the catalogue
  Requests,     \* the PlaceOrder calls
  Owner,        \* Owner[r]: the user who makes call r
  KafkaEnabled, \* kafkaBrokerSvcAddr is set
  MaxEvents     \* bound: how often the event of an order is written

ASSUME CheckoutAssumption ==
  /\ Buyer \in [Items -> Users]
  /\ Sellable \subseteq Items
  /\ Owner \in [Requests -> Users]
  /\ KafkaEnabled \in BOOLEAN
  /\ MaxEvents \in Nat

\* The calls that change something, and the points of PlaceOrder that make
\* them; the points before them only read.
Calls == {"charge", "ship", "empty", "email", "event"}
Reads == {"getCart", "prepare", "quote"}

VARIABLES
  cart,      \* cart[u]: what the cart service holds for u
  adding,    \* the items whose AddItem has read the cart, and may yet write it
  base,      \* base[i]: the cart that the AddItem of i has read
  added,     \* the items whose AddItem has written the cart
  pc,        \* pc[r]: where PlaceOrder is
  snapshot,  \* snapshot[r]: prep.cartItems
  calls,     \* calls made and not executed yet, <<request, call>>
  times,     \* times[r][c]: how often call c of r was executed
  answer     \* answer[r]: the status PlaceOrder returned

\* What happened, for the properties to refer to.
VARIABLES
  late,      \* late[r]: items written between r's GetCart and its EmptyCart
  missed,    \* missed[i]: items written between the read and the write of i
  dropped,   \* dropped[u]: items in a cart that its user emptied or that lapsed
  raced,     \* the requests whose EmptyCart ran while an AddItem was half done
  cleared    \* cleared[r]: requests whose EmptyCart ran before r's GetCart

orderVars == <<pc, calls, times, answer>>
addVars   == <<adding, base, added, missed>>
cartVars  == <<cart, dropped, addVars>>
history   == <<late, raced, cleared>>
vars      == <<cartVars, orderVars, snapshot, history>>

Ended == {"idle", "done", "failed", "lost"}

TypeOK ==
  /\ cart \in [Users -> SUBSET Items]
  /\ adding \in SUBSET Items
  /\ base \in [Items -> SUBSET Items]
  /\ added \in SUBSET Items
  /\ pc \in [Requests -> Ended \cup Reads \cup Calls]
  /\ snapshot \in [Requests -> SUBSET Items]
  /\ calls \in SUBSET (Requests \X Calls)
  /\ times \in [Requests -> [Calls -> Nat]]
  /\ answer \in [Requests -> {"none", "ok", "internal", "unavailable"}]
  /\ late \in [Requests -> SUBSET Items]
  /\ missed \in [Items -> SUBSET Items]
  /\ dropped \in [Users -> SUBSET Items]
  /\ raced \in SUBSET Requests
  /\ cleared \in [Requests -> SUBSET Requests]

Init ==
  /\ cart = [u \in Users |-> {}]
  /\ adding = {}
  /\ base = [i \in Items |-> {}]
  /\ added = {}
  /\ pc = [r \in Requests |-> "idle"]
  /\ snapshot = [r \in Requests |-> {}]
  /\ calls = {}
  /\ times = [r \in Requests |-> [c \in Calls |-> 0]]
  /\ answer = [r \in Requests |-> "none"]
  /\ late = [r \in Requests |-> {}]
  /\ missed = [i \in Items |-> {}]
  /\ dropped = [u \in Users |-> {}]
  /\ raced = {}
  /\ cleared = [r \in Requests |-> {}]

-----------------------------------------------------------------------------
(* The user fills the cart.  AddItem reads the cart and writes it back in  *)
(* two awaited calls to the store (ValkeyCartStore.cs).  Any number of     *)
(* them overlap; and a write that was sent may be executed at any time,    *)
(* long after its call has answered FailedPrecondition.                    *)

InProgress(r) == pc[r] \notin Ended

\* r has read the cart and may still empty it, its caller gone or not.
MayEmpty(r) == pc[r] \in {"prepare", "quote", "charge", "ship"} \/ <<r, "empty">> \in calls

\* The AddItem calls of u that have read the cart, answered an error or not.
HalfDone(u) == {i \in adding : Buyer[i] = u}

AddRead(i) ==
  /\ i \notin added \cup adding
  /\ adding' = adding \cup {i}
  /\ base' = [base EXCEPT ![i] = cart[Buyer[i]]]
  /\ UNCHANGED <<cart, dropped, added, missed, orderVars, snapshot, history>>

\* What is recorded of the write of i: the orders and the other additions of
\* its user that have read the cart before.
RecordWrite(i) ==
  /\ late' = [r \in Requests |-> IF Owner[r] = Buyer[i] /\ MayEmpty(r)
                                 THEN late[r] \cup {i} ELSE late[r]]
  /\ missed' = [j \in Items |-> IF j \in HalfDone(Buyer[i]) \ {i}
                                THEN missed[j] \cup {i} ELSE missed[j]]

\* A variant that takes any cart it reads for an empty one.
AddWriteAlone(i) ==
  /\ i \in adding
  /\ cart' = [cart EXCEPT ![Buyer[i]] = {i}]
  /\ added' = added \cup {i}
  /\ adding' = adding \ {i}
  /\ base' = [base EXCEPT ![i] = {}]
  /\ RecordWrite(i)
  /\ UNCHANGED <<dropped, orderVars, snapshot, raced, cleared>>

AddWrite(i) ==
  /\ i \in adding
  /\ cart' = [cart EXCEPT ![Buyer[i]] = base[i] \cup {i}]
  /\ added' = added \cup {i}
  /\ adding' = adding \ {i}
  /\ base' = [base EXCEPT ![i] = {}]
  /\ RecordWrite(i)
  /\ UNCHANGED <<dropped, orderVars, snapshot, raced, cleared>>

\* The write of i is lost with its connection, or was never sent.
AddLost(i) ==
  /\ i \in adding
  /\ adding' = adding \ {i}
  /\ base' = [base EXCEPT ![i] = {}]
  /\ missed' = [missed EXCEPT ![i] = {}]
  /\ UNCHANGED <<cart, dropped, added, orderVars, snapshot, history>>

\* The user empties the cart himself, or it lapses, an hour after it was last
\* written.
Drop(u) ==
  /\ cart[u] # {}
  /\ cart' = [cart EXCEPT ![u] = {}]
  /\ dropped' = [dropped EXCEPT ![u] = @ \cup cart[u]]
  /\ UNCHANGED <<addVars, orderVars, snapshot, history>>

-----------------------------------------------------------------------------
(* PlaceOrder up to the charge: calls that only read. *)

PlaceOrder(r) ==
  /\ pc[r] = "idle"
  /\ pc' = [pc EXCEPT ![r] = "getCart"]
  /\ UNCHANGED <<cartVars, snapshot, calls, times, answer, history>>

\* return nil, status.Errorf(code, ...)
Return(r, code) ==
  /\ pc' = [pc EXCEPT ![r] = "failed"]
  /\ answer' = [answer EXCEPT ![r] = code]
  /\ UNCHANGED <<calls, times>>

\* The goroutine makes call c and waits for it.
Make(r, c) ==
  /\ pc' = [pc EXCEPT ![r] = c]
  /\ calls' = calls \cup {<<r, c>>}
  /\ UNCHANGED <<times, answer>>

EmptiedFor(u) == {q \in Requests : Owner[q] = u /\ times[q]["empty"] > 0}

\* A variant that hands the status of the cart service on to the caller.
GetUserCartHandsOn(r) ==
  /\ pc[r] = "getCart"
  /\ Return(r, "failed precondition")
  /\ UNCHANGED <<cartVars, snapshot, history>>

\* cart.GetCart; an order UUID that cannot be made ends the order the same way.
GetUserCart(r) ==
  /\ pc[r] = "getCart"
  /\ \/ /\ snapshot' = [snapshot EXCEPT ![r] = cart[Owner[r]]]
        /\ cleared' = [cleared EXCEPT ![r] = EmptiedFor(Owner[r])]
        /\ pc' = [pc EXCEPT ![r] = "prepare"]
        /\ UNCHANGED <<calls, times, answer>>
     \/ Return(r, "internal") /\ UNCHANGED <<snapshot, cleared>>
  /\ UNCHANGED <<cartVars, late, raced>>

\* A variant that leaves out the lines it finds no product for.
PrepOrderItemsSkipping(r) ==
  /\ pc[r] = "prepare"
  /\ \/ /\ pc' = [pc EXCEPT ![r] = "quote"]
        /\ UNCHANGED <<calls, times, answer>>
     \/ Return(r, "internal")
  /\ UNCHANGED <<cartVars, snapshot, history>>

\* GetProduct and Convert for every line; any error ends the order.  A line
\* whose product the catalogue does not know always gives one.
PrepOrderItems(r) ==
  /\ pc[r] = "prepare"
  /\ \/ /\ snapshot[r] \subseteq Sellable
        /\ pc' = [pc EXCEPT ![r] = "quote"]
        /\ UNCHANGED <<calls, times, answer>>
     \/ Return(r, "internal")
  /\ UNCHANGED <<cartVars, snapshot, history>>

\* GetQuote, Convert and the total, which goes to the payment service.  An
\* empty cart is not an error: it is quoted, charged and shipped like others.
QuoteShipping(r) ==
  /\ pc[r] = "quote"
  /\ Make(r, "charge") \/ Return(r, "internal")
  /\ UNCHANGED <<cartVars, snapshot, history>>

-----------------------------------------------------------------------------
(* PlaceOrder from the charge on: calls that change something.  A call     *)
(* returns well only if it was executed; it may fail whether it was or not *)
(* (a refusal, a broken connection, a lost answer), and one that failed    *)
(* may be executed yet.                                                    *)

\* A variant whose EmptyCart answers without having written the cart.
ExecuteKeepingCart(r, c) ==
  /\ <<r, c>> \in calls
  /\ calls' = calls \ {<<r, c>>}
  /\ times' = [times EXCEPT ![r][c] = @ + 1]
  /\ UNCHANGED <<cartVars, pc, answer, snapshot, history>>

\* The called service does its work.  An event may be written again: by the
\* producer's retries, or by the copies kafkaQueueProblems asks for.
Execute(r, c) ==
  /\ <<r, c>> \in calls
  /\ \/ calls' = calls \ {<<r, c>>}
     \/ c = "event" /\ times[r][c] + 1 < MaxEvents /\ calls' = calls
  /\ times' = [times EXCEPT ![r][c] = @ + 1]
  /\ IF c = "empty"
     THEN /\ cart' = [cart EXCEPT ![Owner[r]] = {}]
          /\ raced' = IF HalfDone(Owner[r]) = {} THEN raced ELSE raced \cup {r}
     ELSE UNCHANGED <<cart, raced>>
  /\ UNCHANGED <<dropped, addVars, pc, answer, snapshot, late, cleared>>

Done(r, c) == times[r][c] > 0

\* An error here is returned even when the card was charged after all.
ChargeCard(r) ==
  /\ pc[r] = "charge"
  /\ (Done(r, "charge") /\ Make(r, "ship")) \/ Return(r, "internal")
  /\ UNCHANGED <<cartVars, snapshot, history>>

\* A variant that does not look at the error.
ShipOrderUnchecked(r) ==
  /\ pc[r] = "ship"
  /\ Make(r, "empty")
  /\ UNCHANGED <<cartVars, snapshot, history>>

\* Nothing refunds the charge of an order that cannot be shipped.
ShipOrder(r) ==
  /\ pc[r] = "ship"
  /\ (Done(r, "ship") /\ Make(r, "empty")) \/ Return(r, "unavailable")
  /\ UNCHANGED <<cartVars, snapshot, history>>

\* A variant that insists on an emptied cart.
EmptyUserCartInsisting(r) ==
  /\ pc[r] = "empty"
  /\ Done(r, "empty")
  /\ Make(r, "email")
  /\ UNCHANGED <<cartVars, snapshot, history>>

\* _ = cs.emptyUserCart(ctx, req.UserId): whether it worked does not matter.
EmptyUserCart(r) ==
  /\ pc[r] = "empty"
  /\ Make(r, "email")
  /\ UNCHANGED <<cartVars, snapshot, history>>

\* return resp, nil
Finish(r) ==
  /\ pc' = [pc EXCEPT ![r] = "done"]
  /\ answer' = [answer EXCEPT ![r] = "ok"]
  /\ UNCHANGED <<calls, times>>

\* A confirmation that cannot be sent is logged and forgotten.
SendOrderConfirmation(r) ==
  /\ pc[r] = "email"
  /\ IF KafkaEnabled THEN Make(r, "event") ELSE Finish(r)
  /\ UNCHANGED <<cartVars, snapshot, history>>

\* So is an event; how long the wait for it may take is OrderProducer's.
SendToPostProcessor(r) ==
  /\ pc[r] = "event"
  /\ Finish(r)
  /\ UNCHANGED <<cartVars, snapshot, history>>

\* The process dies (a panic of money.Must, which nothing recovers, a kill, a
\* deployment) with everything it was doing; calls it made are still out.
Crash ==
  /\ \E r \in Requests : InProgress(r)
  /\ pc' = [r \in Requests |-> IF InProgress(r) THEN "lost" ELSE pc[r]]
  /\ UNCHANGED <<cartVars, calls, times, answer, snapshot, history>>

-----------------------------------------------------------------------------
Advance(r) ==
  \/ GetUserCart(r) \/ PrepOrderItems(r) \/ QuoteShipping(r)
  \/ ChargeCard(r) \/ ShipOrder(r) \/ EmptyUserCart(r)
  \/ SendOrderConfirmation(r) \/ SendToPostProcessor(r)

Next ==
  \/ \E i \in Items : AddRead(i) \/ AddWrite(i) \/ AddLost(i)
  \/ \E u \in Users : Drop(u)
  \/ \E r \in Requests : PlaceOrder(r) \/ Advance(r)
  \/ \E r \in Requests, c \in Calls : Execute(r, c)
  \/ Crash

Spec == Init /\ [][Next]_vars

\* Every call of a request returns, with an answer or an error.  Nothing says so
\* of the wait for Kafka, which no deadline bounds.
Fairness == \A r \in Requests : WF_vars(pc[r] # "event" /\ Advance(r))

FairSpec == Spec /\ Fairness

-----------------------------------------------------------------------------
(* Properties *)

Ordered(u) == {i \in Items : \E r \in Requests : Owner[r] = u /\ i \in snapshot[r]}

\* Items an EmptyCart swept away that was not told of them.
SweptUnordered(u) ==
  {i \in Items : \E r \in Requests : Owner[r] = u /\ Done(r, "empty") /\ i \in late[r]}

\* Items an AddItem wrote over that had read the cart before them.
Overwritten(u) ==
  {i \in Items : \E j \in added : Buyer[j] = u /\ i \in missed[j]}

Accounted(u) == Ordered(u) \cup SweptUnordered(u) \cup Overwritten(u) \cup dropped[u]

\* An item that was written to its user's cart is in it until it is in an
\* order, but for four things: the user emptied the cart or it lapsed; an
\* EmptyCart swept the item away whose order had read the cart before it; or
\* another AddItem, its caller perhaps answered long ago, wrote the cart it had
\* read before it.  There is no other way to lose one.
ItemsAreAccountedFor ==
  \A i \in added : i \in cart[Buyer[i]] \cup Accounted(Buyer[i])

\* What was ordered is not ordered again once the cart was emptied, except
\* that an AddItem which had read the cart by then, and whose write was still
\* to be executed, its caller answered an error or not, writes the old cart
\* back.
ReorderedOnlyByRacingAdd ==
  \A r \in Requests : \A q \in cleared[r] :
    q \in raced \/ snapshot[q] \cap snapshot[r] = {}

\* An order with a line whose product is not in the catalogue never costs
\* anything.
UnsellableIsNeverCharged ==
  \A r \in Requests : Done(r, "charge") => snapshot[r] \subseteq Sellable

\* Effects in order, at most once, and answers that imply them.
Promise == INSTANCE OrderEffects

KeepsPromise == Promise!Spec

\* Every order ends, in an answer or with the process, or has nothing left to
\* do but wait for Kafka.
EveryOrderEnds ==
  \A r \in Requests : InProgress(r) ~> ~InProgress(r) \/ pc[r] = "event"
=============================================================================
