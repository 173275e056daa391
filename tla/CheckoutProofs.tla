--------------------------- MODULE CheckoutProofs ---------------------------
(***************************************************************************)
(* The safety properties of Checkout, for any users, items and requests:   *)
(* type correctness, the promise of OrderEffects, and what can happen to   *)
(* an item between the cart and the orders.                                *)
(***************************************************************************)
EXTENDS Checkout, TLAPS

THEOREM TypeCorrect == Spec => []TypeOK
  <1>1. Init => TypeOK
    BY DEF Init, TypeOK, Ended
  <1>2. TypeOK /\ [Next]_vars => TypeOK'
    <2> SUFFICES ASSUME TypeOK, [Next]_vars PROVE TypeOK'
      OBVIOUS
    <2> USE DEF TypeOK, orderVars, cartVars, addVars, history
    <2>1. ASSUME NEW i \in Items, AddRead(i) PROVE TypeOK'
      BY <2>1, CheckoutAssumption DEF AddRead
    <2>2. ASSUME NEW i \in Items, AddWrite(i) PROVE TypeOK'
      <3>1. late' \in [Requests -> SUBSET Items] /\ missed' \in [Items -> SUBSET Items]
        BY <2>2 DEF AddWrite, RecordWrite
      <3>2. /\ cart' \in [Users -> SUBSET Items]
            /\ added' \in SUBSET Items /\ adding' \in SUBSET Items
            /\ base' \in [Items -> SUBSET Items]
        BY <2>2 DEF AddWrite
      <3>3. QED
        BY <2>2, <3>1, <3>2 DEF AddWrite
    <2>3. ASSUME NEW i \in Items, AddLost(i) PROVE TypeOK'
      BY <2>3 DEF AddLost
    <2>3a. ASSUME NEW u \in Users, Drop(u) PROVE TypeOK'
      BY <2>3a DEF Drop
    <2>4. ASSUME NEW r \in Requests, PlaceOrder(r) PROVE TypeOK'
      BY <2>4 DEF PlaceOrder, Reads
    <2>a. ASSUME NEW r \in Requests, NEW c \in Calls, Make(r, c),
                 UNCHANGED <<cartVars, snapshot, history>>
          PROVE  TypeOK'
      BY <2>a DEF Make
    <2>b. ASSUME NEW r \in Requests, NEW code \in {"internal", "unavailable"},
                 Return(r, code), UNCHANGED <<cartVars, snapshot, history>>
          PROVE  TypeOK'
      BY <2>b DEF Return, Ended
    <2>c. ASSUME NEW r \in Requests, Finish(r), UNCHANGED <<cartVars, snapshot, history>>
          PROVE  TypeOK'
      BY <2>c DEF Finish, Ended
    <2>5. ASSUME NEW r \in Requests, GetUserCart(r) PROVE TypeOK'
      <3>1. CASE Return(r, "internal") /\ UNCHANGED <<snapshot, cleared>>
        BY <2>5, <3>1, <2>b DEF GetUserCart
      <3>2. CASE ~(Return(r, "internal") /\ UNCHANGED <<snapshot, cleared>>)
        <4>1. /\ snapshot' = [snapshot EXCEPT ![r] = cart[Owner[r]]]
              /\ cleared' = [cleared EXCEPT ![r] = EmptiedFor(Owner[r])]
              /\ pc' = [pc EXCEPT ![r] = "prepare"]
              /\ UNCHANGED <<calls, times, answer, cartVars, late, raced>>
          BY <2>5, <3>2 DEF GetUserCart
        <4>2. EmptiedFor(Owner[r]) \in SUBSET Requests /\ cart[Owner[r]] \in SUBSET Items
          BY CheckoutAssumption DEF EmptiedFor
        <4>3. cleared' \in [Requests -> SUBSET Requests] /\ snapshot' \in [Requests -> SUBSET Items]
          BY <4>1, <4>2
        <4>4. pc' \in [Requests -> Ended \cup Reads \cup Calls]
          BY <4>1 DEF Reads
        <4>5. QED
          BY <4>1, <4>3, <4>4
      <3>3. QED
        BY <3>1, <3>2
    <2>6. ASSUME NEW r \in Requests, PrepOrderItems(r) PROVE TypeOK'
      <3>1. CASE pc' = [pc EXCEPT ![r] = "quote"] /\ UNCHANGED <<calls, times, answer>>
        BY <2>6, <3>1 DEF PrepOrderItems, Reads
      <3>2. QED
        BY <2>6, <3>1, <2>b DEF PrepOrderItems
    <2>7. ASSUME NEW r \in Requests, QuoteShipping(r) PROVE TypeOK'
      BY <2>7, <2>a, <2>b, Zenon DEF QuoteShipping, Calls
    <2>8. ASSUME NEW r \in Requests, ChargeCard(r) PROVE TypeOK'
      BY <2>8, <2>a, <2>b, Zenon DEF ChargeCard, Calls
    <2>9. ASSUME NEW r \in Requests, ShipOrder(r) PROVE TypeOK'
      BY <2>9, <2>a, <2>b, Zenon DEF ShipOrder, Calls
    <2>10. ASSUME NEW r \in Requests, EmptyUserCart(r) PROVE TypeOK'
      BY <2>10, <2>a, Zenon DEF EmptyUserCart, Calls
    <2>11. ASSUME NEW r \in Requests, SendOrderConfirmation(r) PROVE TypeOK'
      BY <2>11, <2>a, <2>c, Zenon DEF SendOrderConfirmation, Calls
    <2>12. ASSUME NEW r \in Requests, SendToPostProcessor(r) PROVE TypeOK'
      BY <2>12, <2>c, Zenon DEF SendToPostProcessor
    <2>13. ASSUME NEW r \in Requests, NEW c \in Calls, Execute(r, c) PROVE TypeOK'
      <3>1. times' \in [Requests -> [Calls -> Nat]]
        BY <2>13 DEF Execute
      <3>2. cart' \in [Users -> SUBSET Items] /\ raced' \in SUBSET Requests
        BY <2>13, CheckoutAssumption DEF Execute
      <3>3. QED
        BY <2>13, <3>1, <3>2 DEF Execute
    <2>14. CASE Crash
      BY <2>14 DEF Crash, Ended
    <2>15. CASE UNCHANGED vars
      BY <2>15 DEF vars
    <2>16. QED
      BY <2>1, <2>2, <2>3, <2>3a, <2>4, <2>5, <2>6, <2>7, <2>8, <2>9, <2>10, <2>11,
         <2>12, <2>13, <2>14, <2>15 DEF Next, Advance
  <1>3. QED
    BY <1>1, <1>2, PTL DEF Spec

-----------------------------------------------------------------------------
(* The promise of OrderEffects. *)

Made(r, c) == <<r, c>> \in calls \/ Done(r, c)

\* The calls that PlaceOrder has still to make, from each of its points.
Ahead(p) == IF p \in {"idle", "getCart", "prepare", "quote"} THEN Calls
            ELSE IF p = "charge" THEN {"ship", "empty", "email", "event"}
            ELSE IF p = "ship" THEN {"empty", "email", "event"}
            ELSE IF p = "empty" THEN {"email", "event"}
            ELSE IF p = "email" THEN {"event"}
            ELSE {}

\* A call is out, or was executed once, or neither; it was made after the good
\* answers it depends on; and no answer is given before the end.
ReqInv(r) ==
  /\ \A c \in Calls : c # "event" /\ <<r, c>> \in calls => ~Done(r, c)
  /\ \A c \in Ahead(pc[r]) : ~Made(r, c)
  /\ Made(r, "ship") \/ pc[r] = "ship" => Done(r, "charge")
  /\ \/ Made(r, "empty") \/ Made(r, "email") \/ Made(r, "event")
     \/ pc[r] \in {"empty", "email", "event", "done"}
     => Done(r, "charge") /\ Done(r, "ship")
  /\ answer[r] # "none" => pc[r] \in {"done", "failed"}

OrderInv == \A r \in Requests : ReqInv(r)

\* What a step does not touch of a request keeps its ReqInv.
LEMMA Frame ==
  ASSUME NEW r \in Requests, ReqInv(r),
         pc'[r] = pc[r], answer'[r] = answer[r], times'[r] = times[r],
         \A c \in Calls : <<r, c>> \in calls' <=> <<r, c>> \in calls
  PROVE  ReqInv(r)'
  BY DEF Done, ReqInv, Made, Calls, Ahead

\* A request that makes call c, the first one ahead of it.
LEMMA MakeKeeps ==
  ASSUME TypeOK, NEW r \in Requests, NEW c \in Calls, OrderInv, Make(r, c),
         c \in Ahead(pc[r]), Ahead(c) \subseteq Ahead(pc[r]) \ {c},
         answer[r] = "none",
         c # "charge" => Done(r, "charge"),
         c \in {"empty", "email", "event"} => Done(r, "ship")
  PROVE  OrderInv'
  <1>1. ASSUME NEW q \in Requests, q # r PROVE ReqInv(q)'
    BY <1>1, Frame DEF TypeOK, Make, OrderInv
  <1>2. ReqInv(r)'
    <2>1. /\ pc'[r] = c /\ times' = times /\ answer' = answer
          /\ \A d \in Calls : <<r, d>> \in calls' <=> (<<r, d>> \in calls \/ d = c)
      BY DEF TypeOK, Make
    <2>2. ReqInv(r)
      BY DEF OrderInv
    <2>3. \A d \in Ahead(c) : ~Made(r, d)'
      BY <2>1, <2>2 DEF Done, ReqInv, Made, Ahead, Calls
    <2>4. \A d \in Calls : d # "event" /\ <<r, d>> \in calls' => ~Done(r, d)'
      BY <2>1, <2>2 DEF ReqInv, Made, Done
    <2>5. QED
      BY <2>1, <2>2, <2>3, <2>4 DEF Done, ReqInv, Made, Calls
  <1>3. QED
    BY <1>1, <1>2 DEF OrderInv

\* A request that ends, with or without an answer.
LEMMA EndKeeps ==
  ASSUME TypeOK, NEW r \in Requests, OrderInv, NEW e \in {"done", "failed", "lost"},
         pc' = [pc EXCEPT ![r] = e], UNCHANGED <<calls, times>>,
         answer'[r] # "none" => e # "lost",
         \A q \in Requests : q # r => answer'[q] = answer[q],
         e = "done" => Done(r, "charge") /\ Done(r, "ship")
  PROVE  OrderInv'
  <1>1. ASSUME NEW q \in Requests, q # r PROVE ReqInv(q)'
    BY <1>1, Frame DEF TypeOK, OrderInv
  <1>2. ReqInv(r)'
    BY DEF Done, TypeOK, OrderInv, ReqInv, Made, Ahead
  <1>3. QED
    BY <1>1, <1>2 DEF OrderInv

\* A request that goes on to another reading call.
LEMMA ReadKeeps ==
  ASSUME TypeOK, NEW r \in Requests, OrderInv,
         pc[r] \in {"idle", "getCart", "prepare", "quote"},
         NEW p \in Reads, pc' = [pc EXCEPT ![r] = p], UNCHANGED <<calls, times, answer>>
  PROVE  OrderInv'
  <1>1. ASSUME NEW q \in Requests, q # r PROVE ReqInv(q)'
    BY <1>1, Frame DEF TypeOK, OrderInv
  <1>2. ReqInv(r)'
    BY DEF Done, TypeOK, OrderInv, ReqInv, Made, Ahead, Reads
  <1>3. QED
    BY <1>1, <1>2 DEF OrderInv

\* What an execution does to the record of what was executed.
LEMMA ExecuteEffect ==
  ASSUME TypeOK, NEW r \in Requests, NEW c \in Calls, Execute(r, c)
  PROVE  /\ Done(r, c)'
         /\ \A q \in Requests, d \in Calls :
               <<q, d>> # <<r, c>> => (Done(q, d)' <=> Done(q, d))
         /\ \A q \in Requests, d \in Calls :
               <<q, d>> # <<r, c>> => (<<q, d>> \in calls' <=> <<q, d>> \in calls)
  <1>1. times'[r][c] = times[r][c] + 1 /\ times[r][c] \in Nat
    BY DEF Execute, TypeOK
  <1>2. ASSUME NEW q \in Requests, NEW d \in Calls, <<q, d>> # <<r, c>>
        PROVE  times'[q][d] = times[q][d]
    <2>1. CASE q = r
      BY <1>2, <2>1 DEF Execute, TypeOK
    <2>2. CASE q # r
      BY <2>2 DEF Execute, TypeOK
    <2>3. QED
      BY <2>1, <2>2
  <1>3. ASSUME NEW q \in Requests, NEW d \in Calls, <<q, d>> # <<r, c>>
        PROVE  <<q, d>> \in calls' <=> <<q, d>> \in calls
    BY <1>3 DEF Execute
  <1>4. QED
    BY <1>1, <1>2, <1>3 DEF Done

\* A service executes a call that is out.
LEMMA ExecuteKeeps ==
  ASSUME TypeOK, NEW r \in Requests, NEW c \in Calls, OrderInv, Execute(r, c)
  PROVE  OrderInv'
  <1>1. ASSUME NEW q \in Requests, q # r PROVE ReqInv(q)'
    BY <1>1, Frame DEF TypeOK, Execute, OrderInv
  <1>2. ReqInv(r)'
    <2>1. /\ ReqInv(r) /\ <<r, c>> \in calls
          /\ Done(r, c)'
          /\ \A d \in Calls : d # c => (Done(r, d)' <=> Done(r, d))
          /\ \A d \in Calls : d # c => (<<r, d>> \in calls' <=> <<r, d>> \in calls)
          /\ c # "event" => <<r, c>> \notin calls'
          /\ pc' = pc /\ answer' = answer
      BY ExecuteEffect DEF Execute, OrderInv
    <2>2. \A d \in Calls : Made(r, d)' <=> Made(r, d)
      BY <2>1 DEF Made
    <2>3. \A d \in Ahead(pc[r]) : d \in Calls
      BY DEF Ahead, Calls
    <2>4. QED
      BY <2>1, <2>2, <2>3 DEF ReqInv, Calls
  <1>3. QED
    BY <1>1, <1>2 DEF OrderInv

LEMMA OrderInvariant == Spec => []OrderInv
  <1>1. Init => OrderInv
    BY DEF Done, Init, OrderInv, ReqInv, Made, Ahead, Calls
  <1>2. TypeOK /\ OrderInv /\ [Next]_vars => OrderInv'
    <2> SUFFICES ASSUME TypeOK, OrderInv, [Next]_vars PROVE OrderInv'
      OBVIOUS
    <2> USE DEF orderVars, cartVars, history
    <2>0. ASSUME UNCHANGED orderVars PROVE OrderInv'
      BY <2>0, Frame DEF OrderInv
    <2>1. ASSUME NEW i \in Items, AddRead(i) PROVE OrderInv'
      BY <2>1, <2>0 DEF AddRead
    <2>2. ASSUME NEW i \in Items, AddWrite(i) \/ AddLost(i) PROVE OrderInv'
      BY <2>2, <2>0 DEF AddWrite, AddLost
    <2>2a. ASSUME NEW u \in Users, Drop(u) PROVE OrderInv'
      BY <2>2a, <2>0 DEF Drop
    <2>3. ASSUME NEW r \in Requests, NEW code \in {"internal", "unavailable"},
                 Return(r, code)
          PROVE  OrderInv'
      BY <2>3, EndKeeps DEF Return, TypeOK
    <2>4. ASSUME NEW r \in Requests, PlaceOrder(r) PROVE OrderInv'
      BY <2>4, ReadKeeps DEF PlaceOrder, Reads
    <2>5. ASSUME NEW r \in Requests, GetUserCart(r) PROVE OrderInv'
      BY <2>5, <2>3, ReadKeeps DEF GetUserCart, Reads
    <2>6. ASSUME NEW r \in Requests, PrepOrderItems(r) PROVE OrderInv'
      BY <2>6, <2>3, ReadKeeps DEF PrepOrderItems, Reads
    <2>7. ASSUME NEW r \in Requests, QuoteShipping(r) PROVE OrderInv'
      BY <2>7, <2>3, MakeKeeps DEF QuoteShipping, OrderInv, ReqInv, Ahead, Calls
    <2>8. ASSUME NEW r \in Requests, ChargeCard(r) PROVE OrderInv'
      <3>1. pc[r] = "charge" /\ ReqInv(r)
        BY <2>8 DEF ChargeCard, OrderInv
      <3>2. CASE Done(r, "charge") /\ Make(r, "ship")
        BY <3>1, <3>2, MakeKeeps DEF Done, ReqInv, Ahead, Calls
      <3>3. QED
        BY <2>8, <2>3, <3>2 DEF ChargeCard
    <2>9. ASSUME NEW r \in Requests, ShipOrder(r) PROVE OrderInv'
      <3>1. pc[r] = "ship" /\ ReqInv(r)
        BY <2>9 DEF ShipOrder, OrderInv
      <3>2. CASE Done(r, "ship") /\ Make(r, "empty")
        BY <3>1, <3>2, MakeKeeps DEF Done, ReqInv, Ahead, Calls
      <3>3. QED
        BY <2>9, <2>3, <3>2 DEF ShipOrder
    <2>10. ASSUME NEW r \in Requests, EmptyUserCart(r) PROVE OrderInv'
      <3>1. pc[r] = "empty" /\ ReqInv(r) /\ Make(r, "email")
        BY <2>10 DEF EmptyUserCart, OrderInv
      <3>2. QED
        BY <3>1, MakeKeeps DEF ReqInv, Ahead, Calls
    <2>11. ASSUME NEW r \in Requests, Finish(r), pc[r] \in {"email", "event"}
           PROVE  OrderInv'
      <3>1. ReqInv(r)
        BY DEF OrderInv
      <3>2. Done(r, "charge") /\ Done(r, "ship")
        BY <2>11, <3>1 DEF ReqInv
      <3>3. QED
        BY <2>11, <3>2, EndKeeps DEF Finish, TypeOK
    <2>12. ASSUME NEW r \in Requests, SendOrderConfirmation(r) PROVE OrderInv'
      <3>1. pc[r] = "email" /\ ReqInv(r)
        BY <2>12 DEF SendOrderConfirmation, OrderInv
      <3>2. CASE Make(r, "event")
        BY <3>1, <3>2, MakeKeeps DEF ReqInv, Ahead, Calls
      <3>3. QED
        BY <2>12, <2>11, <3>1, <3>2 DEF SendOrderConfirmation
    <2>13. ASSUME NEW r \in Requests, SendToPostProcessor(r) PROVE OrderInv'
      BY <2>13, <2>11 DEF SendToPostProcessor
    <2>14. ASSUME NEW r \in Requests, NEW c \in Calls, Execute(r, c) PROVE OrderInv'
      BY <2>14, ExecuteKeeps
    <2>15. CASE Crash
      BY <2>15 DEF Done, Crash, InProgress, Ended, TypeOK, OrderInv, ReqInv, Made, Ahead
    <2>16. CASE UNCHANGED vars
      BY <2>16, <2>0 DEF vars
    <2>17. QED
      BY <2>1, <2>2, <2>2a, <2>4, <2>5, <2>6, <2>7, <2>8, <2>9, <2>10, <2>12,
         <2>13, <2>14, <2>15, <2>16 DEF Next, Advance
  <1>3. QED
    BY <1>1, <1>2, TypeCorrect, PTL DEF Spec

\* The checkout service keeps the promise of OrderEffects, crashes, refusals,
\* lost answers and late executions included: every step performs one effect,
\* for the first time and after those it depends on, or gives one answer that
\* implies no more than what took place, or is no step of an order at all.
THEOREM CheckoutKeepsPromise == Spec => KeepsPromise
  <1>1. Init => Promise!Init
    BY DEF Init, Promise!Init, Calls, Promise!Effects
  <1>2. TypeOK /\ OrderInv /\ [Next]_vars => [Promise!Next]_(Promise!vars)
    <2> SUFFICES ASSUME TypeOK, OrderInv, [Next]_vars
                 PROVE  [Promise!Next]_(Promise!vars)
      OBVIOUS
    <2> USE DEF orderVars, cartVars, history
    <2>0. ASSUME UNCHANGED <<times, answer>> PROVE [Promise!Next]_(Promise!vars)
      BY <2>0 DEF Promise!vars
    <2>1. ASSUME NEW r \in Requests, NEW a \in {"ok", "internal", "unavailable"},
                 answer[r] = "none", answer' = [answer EXCEPT ![r] = a], times' = times,
                 a = "ok" => Done(r, "charge") /\ Done(r, "ship"),
                 a = "unavailable" => Done(r, "charge")
          PROVE  [Promise!Next]_(Promise!vars)
      <3>1. \A e \in Promise!Implied(a) : times[r][e] > 0
        BY <2>1 DEF Done, Promise!Implied
      <3>2. Promise!Answer(r, a) /\ a \in Promise!Answers
        BY <2>1, <3>1 DEF Promise!Answer, Promise!Answers
      <3>3. QED
        BY <3>2 DEF Promise!Next
    <2>2. ASSUME NEW r \in Requests, pc[r] \notin {"done", "failed"}
          PROVE  answer[r] = "none"
      BY <2>2 DEF OrderInv, ReqInv
    <2>3. ASSUME NEW i \in Items, AddRead(i) PROVE [Promise!Next]_(Promise!vars)
      BY <2>3, <2>0 DEF AddRead
    <2>4. ASSUME NEW i \in Items, AddWrite(i) \/ AddLost(i)
          PROVE  [Promise!Next]_(Promise!vars)
      BY <2>4, <2>0 DEF AddWrite, AddLost
    <2>4a. ASSUME NEW u \in Users, Drop(u) PROVE [Promise!Next]_(Promise!vars)
      BY <2>4a, <2>0 DEF Drop
    <2>5. ASSUME NEW r \in Requests, PlaceOrder(r) PROVE [Promise!Next]_(Promise!vars)
      BY <2>5, <2>0 DEF PlaceOrder
    <2>6. ASSUME NEW r \in Requests,
                 GetUserCart(r) \/ PrepOrderItems(r) \/ QuoteShipping(r)
          PROVE  [Promise!Next]_(Promise!vars)
      BY <2>6, <2>0, <2>1, <2>2
      DEF GetUserCart, PrepOrderItems, QuoteShipping, Make, Return
    <2>7. ASSUME NEW r \in Requests, ChargeCard(r) PROVE [Promise!Next]_(Promise!vars)
      BY <2>7, <2>0, <2>1, <2>2 DEF ChargeCard, Make, Return
    <2>8. ASSUME NEW r \in Requests, ShipOrder(r) PROVE [Promise!Next]_(Promise!vars)
      <3>1. Done(r, "charge")
        BY <2>8 DEF ShipOrder, OrderInv, ReqInv
      <3>2. QED
        BY <2>8, <3>1, <2>0, <2>1, <2>2 DEF ShipOrder, Make, Return
    <2>9. ASSUME NEW r \in Requests, EmptyUserCart(r)
          PROVE  [Promise!Next]_(Promise!vars)
      BY <2>9, <2>0 DEF EmptyUserCart, Make
    <2>10. ASSUME NEW r \in Requests, SendOrderConfirmation(r) \/ SendToPostProcessor(r)
           PROVE  [Promise!Next]_(Promise!vars)
      <3>1. pc[r] \in {"email", "event"}
        BY <2>10 DEF SendOrderConfirmation, SendToPostProcessor
      <3>2. Done(r, "charge") /\ Done(r, "ship")
        BY <3>1 DEF OrderInv, ReqInv
      <3>3. QED
        BY <2>10, <3>1, <3>2, <2>0, <2>1, <2>2
        DEF SendOrderConfirmation, SendToPostProcessor, Make, Finish
    <2>11. ASSUME NEW r \in Requests, NEW c \in Calls, Execute(r, c)
           PROVE  [Promise!Next]_(Promise!vars)
      <3>1. /\ <<r, c>> \in calls /\ Made(r, c) /\ ReqInv(r)
            /\ ~Done(r, c) \/ c = "event"
            /\ answer' = answer
        BY <2>11 DEF Execute, OrderInv, ReqInv, Made
      <3>2. times' = [times EXCEPT ![r][c] = @ + 1]
        BY <2>11 DEF Execute
      <3>3. \A f \in Promise!Before(c) : times[r][f] > 0
        BY <3>1 DEF ReqInv, Calls, Done, Promise!Before
      <3>4. Promise!Perform(r, c) /\ c \in Promise!Effects
        BY <3>1, <3>2, <3>3 DEF Promise!Perform, Promise!Effects, Calls, Done, TypeOK
      <3>5. QED
        BY <3>4 DEF Promise!Next
    <2>12. CASE Crash
      BY <2>12, <2>0 DEF Crash
    <2>13. CASE UNCHANGED vars
      BY <2>13, <2>0 DEF vars
    <2>14. QED
      BY <2>3, <2>4, <2>4a, <2>5, <2>6, <2>7, <2>8, <2>9, <2>10, <2>11, <2>12, <2>13
      DEF Next, Advance
  <1>3. QED
    BY <1>1, <1>2, TypeCorrect, OrderInvariant, PTL DEF Spec, KeepsPromise, Promise!Spec

-----------------------------------------------------------------------------
(* What can happen to an item. *)

\* The strengthening.  A half-done AddItem holds the cart as it was: what was
\* taken out of that since is accounted for, and what was put in since is
\* missed, which its write accounts for; so is what an EmptyCart still to come
\* would sweep away, but for the late items of its order, which its execution
\* accounts for.
CartInv ==
  /\ \A u \in Users : cart[u] \subseteq added
  /\ \A i \in adding :
       /\ i \notin added /\ base[i] \subseteq added
       /\ base[i] \subseteq cart[Buyer[i]] \cup Accounted(Buyer[i])
       /\ cart[Buyer[i]] \subseteq base[i] \cup missed[i] \cup Accounted(Buyer[i])
  /\ \A r \in Requests :
       /\ snapshot[r] \subseteq added
       /\ pc[r] \in {"idle", "getCart"} => snapshot[r] = {}
       /\ MayEmpty(r) => cart[Owner[r]] \subseteq late[r] \cup Accounted(Owner[r])
  /\ ItemsAreAccountedFor

\* Everyone has a cart.
LEMMA HaveCarts ==
  ASSUME TypeOK
  PROVE  /\ \A i \in added \cup adding : i \in Items /\ Buyer[i] \in Users
         /\ \A r \in Requests : Owner[r] \in Users
  BY CheckoutAssumption DEF TypeOK

\* Nothing that is accounted for is ever forgotten.
LEMMA AccountedGrows ==
  ASSUME TypeOK, NEW u \in Users,
         \A r \in Requests : /\ snapshot[r] \subseteq snapshot'[r]
                             /\ late[r] \subseteq late'[r]
                             /\ Done(r, "empty") => Done(r, "empty")',
         \A i \in added : i \in added' /\ missed[i] \subseteq missed'[i],
         dropped[u] \subseteq dropped'[u]
  PROVE  Accounted(u) \subseteq Accounted(u)'
  <1>1. Ordered(u) \subseteq Ordered(u)'
    BY DEF Ordered
  <1>2. SweptUnordered(u) \subseteq SweptUnordered(u)'
    BY DEF SweptUnordered
  <1>3. Overwritten(u) \subseteq Overwritten(u)'
    BY DEF Overwritten
  <1>4. QED
    BY <1>1, <1>2, <1>3 DEF Accounted

\* The steps of an order that leave the cart, its own copy of it and the
\* execution of its calls alone.
LEMMA OrderStepKeepsCart ==
  ASSUME TypeOK, CartInv, UNCHANGED <<cartVars, snapshot, late, times>>,
         \A r \in Requests :
            /\ MayEmpty(r)' => MayEmpty(r)
            /\ pc'[r] \in {"idle", "getCart"} => pc[r] \in {"idle", "getCart"}
  PROVE  CartInv'
  <1> USE DEF cartVars, addVars
  <1>1. \A u : Accounted(u)' = Accounted(u)
    BY DEF Accounted, Ordered, SweptUnordered, Overwritten, Done
  <1>2. ItemsAreAccountedFor'
    BY <1>1 DEF CartInv, ItemsAreAccountedFor
  <1>3. QED
    BY <1>1, <1>2 DEF CartInv

LEMMA AddReadKeepsCart ==
  ASSUME TypeOK, CartInv, NEW i \in Items, AddRead(i)
  PROVE  CartInv'
  <1> USE DEF orderVars, history
  <1>1. \A v : Accounted(v)' = Accounted(v)
    BY DEF AddRead, Accounted, Ordered, SweptUnordered, Overwritten, Done
  <1>2. ItemsAreAccountedFor'
    BY <1>1 DEF AddRead, CartInv, ItemsAreAccountedFor
  <1>3. \A r \in Requests : MayEmpty(r)' <=> MayEmpty(r)
    BY DEF AddRead, MayEmpty
  <1>4. /\ i \notin added /\ adding' = adding \cup {i} /\ base'[i] = cart[Buyer[i]]
        /\ \A j \in adding : j # i /\ base'[j] = base[j]
        /\ UNCHANGED <<cart, added, missed, snapshot, late, pc>>
    BY DEF AddRead, TypeOK
  <1>5. ASSUME NEW j \in adding'
        PROVE  /\ j \notin added /\ base'[j] \subseteq added
               /\ base'[j] \subseteq cart[Buyer[j]] \cup Accounted(Buyer[j])
               /\ cart[Buyer[j]] \subseteq base'[j] \cup missed[j] \cup Accounted(Buyer[j])
    <2>1. CASE j = i
      BY <1>4, <2>1, CheckoutAssumption DEF CartInv
    <2>2. CASE j # i
      BY <1>4, <2>2 DEF CartInv
    <2>3. QED
      BY <2>1, <2>2
  <1>6. QED
    BY <1>1, <1>2, <1>3, <1>4, <1>5 DEF CartInv

\* What a write puts over is in the cart it read, or was missed.
LEMMA AddWriteKeepsCart ==
  ASSUME TypeOK, CartInv, NEW i \in Items, AddWrite(i)
  PROVE  CartInv'
  <1> USE DEF orderVars
  <1> DEFINE u == Buyer[i]
  <1>1. /\ u \in Users /\ i \in adding /\ i \notin added
        /\ cart'[u] = base[i] \cup {i}
        /\ \A v \in Users : v # u => cart'[v] = cart[v]
        /\ added' = added \cup {i} /\ adding' = adding \ {i}
        /\ \A j \in adding' : base'[j] = base[j]
        /\ UNCHANGED <<dropped, snapshot, pc, calls, times>>
    BY CheckoutAssumption DEF AddWrite, TypeOK, CartInv
  <1>2. \A r \in Requests :
          /\ late[r] \subseteq late'[r]
          /\ Owner[r] = u /\ MayEmpty(r) => i \in late'[r]
          /\ MayEmpty(r)' <=> MayEmpty(r)
    BY DEF AddWrite, RecordWrite, TypeOK, MayEmpty
  <1>3. /\ \A j \in Items : missed[j] \subseteq missed'[j]
        /\ \A j \in adding' : Buyer[j] = u => i \in missed'[j]
    BY <1>1 DEF AddWrite, RecordWrite, HalfDone, TypeOK
  <1>4. \A v \in Users : Accounted(v) \subseteq Accounted(v)'
    BY <1>1, <1>2, <1>3, AccountedGrows DEF Done, TypeOK
  <1>5. missed[i] \subseteq Accounted(u)'
    <2>1. missed[i] \subseteq missed'[i] /\ i \in added' /\ missed[i] \subseteq Items
      BY <1>1, <1>3 DEF TypeOK
    <2>2. missed[i] \subseteq Overwritten(u)'
      BY <2>1 DEF Overwritten
    <2>3. QED
      BY <2>2 DEF Accounted
  <1>6. /\ cart[u] \subseteq cart'[u] \cup Accounted(u)'
        /\ cart'[u] \subseteq cart[u] \cup Accounted(u)' \cup {i}
    BY <1>1, <1>4, <1>5 DEF CartInv
  <1>7. ItemsAreAccountedFor'
    <2> SUFFICES ASSUME NEW j \in added'
                 PROVE  j \in cart'[Buyer[j]] \cup Accounted(Buyer[j])'
      BY DEF ItemsAreAccountedFor
    <2>1. CASE j = i
      BY <1>1, <2>1
    <2>2. CASE j \in added
      <3>1. Buyer[j] \in Users /\ j \in cart[Buyer[j]] \cup Accounted(Buyer[j])
        BY <2>2, HaveCarts DEF CartInv, ItemsAreAccountedFor
      <3>2. QED
        BY <1>1, <1>4, <1>6, <3>1
    <2>3. QED
      BY <1>1, <2>1, <2>2
  <1>8. ASSUME NEW v \in Users PROVE cart'[v] \subseteq added'
    BY <1>1 DEF CartInv
  <1>9. ASSUME NEW j \in adding'
        PROVE  /\ j \notin added' /\ base'[j] \subseteq added'
               /\ base'[j] \subseteq cart'[Buyer[j]] \cup Accounted(Buyer[j])'
               /\ cart'[Buyer[j]] \subseteq base'[j] \cup missed'[j] \cup Accounted(Buyer[j])'
    <2>1. /\ j \in adding /\ j # i /\ j \in Items /\ Buyer[j] \in Users /\ base'[j] = base[j]
          /\ j \notin added /\ base[j] \subseteq added
          /\ base[j] \subseteq cart[Buyer[j]] \cup Accounted(Buyer[j])
          /\ cart[Buyer[j]] \subseteq base[j] \cup missed[j] \cup Accounted(Buyer[j])
          /\ missed[j] \subseteq missed'[j]
          /\ Accounted(Buyer[j]) \subseteq Accounted(Buyer[j])'
      BY <1>1, <1>3, <1>4, HaveCarts DEF CartInv
    <2>2. CASE Buyer[j] = u
      BY <1>1, <1>3, <1>6, <2>1, <2>2
    <2>3. CASE Buyer[j] # u
      BY <1>1, <2>1, <2>3
    <2>4. QED
      BY <2>2, <2>3
  <1>10. ASSUME NEW r \in Requests
         PROVE  /\ snapshot'[r] \subseteq added'
                /\ pc'[r] \in {"idle", "getCart"} => snapshot'[r] = {}
                /\ MayEmpty(r)' => cart'[Owner[r]] \subseteq late'[r] \cup Accounted(Owner[r])'
    <2>1. /\ Owner[r] \in Users /\ snapshot[r] \subseteq added
          /\ pc[r] \in {"idle", "getCart"} => snapshot[r] = {}
          /\ MayEmpty(r) => cart[Owner[r]] \subseteq late[r] \cup Accounted(Owner[r])
          /\ Accounted(Owner[r]) \subseteq Accounted(Owner[r])'
      BY <1>4, HaveCarts DEF CartInv
    <2>2. CASE Owner[r] = u
      BY <1>1, <1>2, <1>6, <2>1, <2>2
    <2>3. CASE Owner[r] # u
      BY <1>1, <1>2, <2>1, <2>3
    <2>4. QED
      BY <2>2, <2>3
  <1>11. QED
    BY <1>7, <1>8, <1>9, <1>10 DEF CartInv

LEMMA AddLostKeepsCart ==
  ASSUME TypeOK, CartInv, NEW i \in Items, AddLost(i)
  PROVE  CartInv'
  <1> USE DEF orderVars, history
  <1>1. /\ i \notin added /\ adding' = adding \ {i}
        /\ \A j \in Items : j # i => base'[j] = base[j] /\ missed'[j] = missed[j]
        /\ UNCHANGED <<cart, dropped, added, snapshot, late, pc, times, calls>>
    BY DEF AddLost, TypeOK, CartInv
  <1>2. \A v \in Users : Accounted(v) \subseteq Accounted(v)'
    BY <1>1, AccountedGrows DEF Done, TypeOK
  <1>3. ItemsAreAccountedFor'
    BY <1>1, <1>2, HaveCarts DEF CartInv, ItemsAreAccountedFor
  <1>4. \A r \in Requests : MayEmpty(r)' <=> MayEmpty(r)
    BY <1>1 DEF MayEmpty
  <1>5. ASSUME NEW j \in adding'
        PROVE  /\ j \notin added /\ base'[j] \subseteq added
               /\ base'[j] \subseteq cart[Buyer[j]] \cup Accounted(Buyer[j])'
               /\ cart[Buyer[j]] \subseteq base'[j] \cup missed'[j] \cup Accounted(Buyer[j])'
    <2>1. /\ j \in adding /\ Buyer[j] \in Users
          /\ base'[j] = base[j] /\ missed'[j] = missed[j]
      BY <1>1, HaveCarts
    <2>2. QED
      BY <1>2, <2>1 DEF CartInv
  <1>6. QED
    BY <1>1, <1>2, <1>3, <1>4, <1>5, HaveCarts DEF CartInv

\* What takes a whole cart away, if all of it is accounted for.
LEMMA ClearingKeepsCart ==
  ASSUME TypeOK, CartInv, NEW u \in Users,
         cart' = [cart EXCEPT ![u] = {}], cart[u] \subseteq Accounted(u)',
         UNCHANGED <<addVars, snapshot, late, pc>>,
         dropped' = dropped \/ \A v \in Users : dropped[v] \subseteq dropped'[v],
         \A r \in Requests : /\ Done(r, "empty") => Done(r, "empty")'
                             /\ MayEmpty(r)' => MayEmpty(r)
  PROVE  CartInv'
  <1> USE DEF addVars
  <1>1. \A v \in Users : Accounted(v) \subseteq Accounted(v)'
    BY AccountedGrows
  <1>2. \A v \in Users : /\ cart'[v] \subseteq cart[v]
                         /\ cart[v] \subseteq cart'[v] \cup Accounted(v)'
    BY DEF TypeOK
  <1>3. ASSUME NEW j \in adding
        PROVE  /\ j \notin added /\ base[j] \subseteq added
               /\ base[j] \subseteq cart'[Buyer[j]] \cup Accounted(Buyer[j])'
               /\ cart'[Buyer[j]] \subseteq base[j] \cup missed[j] \cup Accounted(Buyer[j])'
    <2>1. Buyer[j] \in Users
      BY HaveCarts
    <2>2. /\ j \notin added /\ base[j] \subseteq added
          /\ base[j] \subseteq cart[Buyer[j]] \cup Accounted(Buyer[j])
          /\ cart[Buyer[j]] \subseteq base[j] \cup missed[j] \cup Accounted(Buyer[j])
      BY DEF CartInv
    <2>3. QED
      BY <1>1, <1>2, <2>1, <2>2
  <1>4. ItemsAreAccountedFor'
    <2> SUFFICES ASSUME NEW j \in added
                 PROVE  j \in cart'[Buyer[j]] \cup Accounted(Buyer[j])'
      BY DEF ItemsAreAccountedFor
    <2>1. Buyer[j] \in Users /\ j \in cart[Buyer[j]] \cup Accounted(Buyer[j])
      BY HaveCarts DEF CartInv, ItemsAreAccountedFor
    <2>2. QED
      BY <1>1, <1>2, <2>1
  <1>5. ASSUME NEW r \in Requests
        PROVE  MayEmpty(r)' => cart'[Owner[r]] \subseteq late[r] \cup Accounted(Owner[r])'
    <2>1. Owner[r] \in Users
      BY HaveCarts
    <2>2. QED
      BY <1>1, <1>2, <2>1 DEF CartInv
  <1>6. QED
    BY <1>2, <1>3, <1>4, <1>5 DEF CartInv

LEMMA DropKeepsCart ==
  ASSUME TypeOK, CartInv, NEW u \in Users, Drop(u)
  PROVE  CartInv'
  <1> USE DEF orderVars, history
  <1>1. /\ cart[u] \subseteq dropped'[u]
        /\ \A v \in Users : dropped[v] \subseteq dropped'[v]
    BY DEF Drop, TypeOK
  <1>2. cart[u] \subseteq Accounted(u)'
    BY <1>1 DEF Accounted
  <1>3. \A r \in Requests : /\ Done(r, "empty") => Done(r, "empty")'
                            /\ MayEmpty(r)' => MayEmpty(r)
    BY DEF Drop, Done, MayEmpty
  <1>4. QED
    BY <1>1, <1>2, <1>3, ClearingKeepsCart DEF Drop

\* The snapshot accounts for all the cart holds.
LEMMA GetUserCartKeepsCart ==
  ASSUME TypeOK, CartInv, NEW r \in Requests, GetUserCart(r),
         snapshot' = [snapshot EXCEPT ![r] = cart[Owner[r]]],
         pc' = [pc EXCEPT ![r] = "prepare"], UNCHANGED <<calls, times>>
  PROVE  CartInv'
  <1>1. /\ snapshot'[r] = cart[Owner[r]] /\ snapshot[r] = {}
        /\ \A q \in Requests : q # r => snapshot'[q] = snapshot[q] /\ pc'[q] = pc[q]
        /\ pc'[r] = "prepare"
        /\ UNCHANGED <<cart, dropped, adding, base, added, missed, late, calls, times>>
    BY DEF GetUserCart, TypeOK, CartInv, cartVars, addVars
  <1>2. \A v \in Users : Accounted(v) \subseteq Accounted(v)'
    BY <1>1, AccountedGrows DEF Done
  <1>3. Owner[r] \in Users /\ cart[Owner[r]] \subseteq Accounted(Owner[r])'
    <2>1. Owner[r] \in Users /\ cart[Owner[r]] \subseteq Items
      BY CheckoutAssumption DEF TypeOK
    <2>2. cart[Owner[r]] \subseteq Ordered(Owner[r])'
      BY <1>1, <2>1 DEF Ordered
    <2>3. QED
      BY <2>1, <2>2 DEF Accounted
  <1>4. \A q \in Requests : q # r => (MayEmpty(q)' <=> MayEmpty(q))
    BY <1>1 DEF MayEmpty
  <1>5. ItemsAreAccountedFor'
    BY <1>1, <1>2, HaveCarts DEF CartInv, ItemsAreAccountedFor
  <1>6. ASSUME NEW q \in Requests
        PROVE  /\ snapshot'[q] \subseteq added'
               /\ pc'[q] \in {"idle", "getCart"} => snapshot'[q] = {}
               /\ MayEmpty(q)' => cart'[Owner[q]] \subseteq late'[q] \cup Accounted(Owner[q])'
    <2>1. CASE q = r
      BY <1>1, <1>3, <2>1 DEF CartInv
    <2>2. CASE q # r
      BY <1>1, <1>2, <1>4, <2>2, HaveCarts DEF CartInv
    <2>3. QED
      BY <2>1, <2>2
  <1>7. ASSUME NEW j \in adding
        PROVE  /\ j \notin added /\ base[j] \subseteq added
               /\ base[j] \subseteq cart[Buyer[j]] \cup Accounted(Buyer[j])'
               /\ cart[Buyer[j]] \subseteq base[j] \cup missed[j] \cup Accounted(Buyer[j])'
    BY <1>2, HaveCarts DEF CartInv
  <1>8. QED
    BY <1>1, <1>5, <1>6, <1>7 DEF CartInv

\* What EmptyCart sweeps away is in an order, or late for this one.
LEMMA ExecuteKeepsCart ==
  ASSUME TypeOK, CartInv, NEW r \in Requests, NEW c \in Calls, Execute(r, c)
  PROVE  CartInv'
  <1> DEFINE u == Owner[r]
  <1>1. u \in Users /\ UNCHANGED <<snapshot, pc, late, dropped, addVars>>
    BY CheckoutAssumption DEF Execute
  <1>2. \A q \in Requests : Done(q, "empty") => Done(q, "empty")'
    BY ExecuteEffect DEF Calls
  <1>3. \A q \in Requests : MayEmpty(q)' => MayEmpty(q)
    <2>1. calls' \subseteq calls
      BY DEF Execute
    <2>2. QED
      BY <1>1, <2>1 DEF MayEmpty
  <1>4. \A v \in Users : Accounted(v) \subseteq Accounted(v)'
    BY <1>1, <1>2, AccountedGrows DEF addVars
  <1>5. CASE c # "empty"
    <2>1. cart' = cart
      BY <1>5 DEF Execute
    <2>2. ItemsAreAccountedFor'
      BY <1>1, <1>4, <2>1, HaveCarts DEF CartInv, ItemsAreAccountedFor, addVars
    <2>3. ASSUME NEW j \in adding
          PROVE  /\ j \notin added /\ base[j] \subseteq added
                 /\ base[j] \subseteq cart[Buyer[j]] \cup Accounted(Buyer[j])'
                 /\ cart[Buyer[j]] \subseteq base[j] \cup missed[j] \cup Accounted(Buyer[j])'
      BY <1>4, HaveCarts DEF CartInv
    <2>4. QED
      BY <1>1, <1>3, <1>4, <2>1, <2>2, <2>3, HaveCarts DEF CartInv, addVars
  <1>6. CASE c = "empty"
    <2>1. cart' = [cart EXCEPT ![u] = {}]
      BY <1>6 DEF Execute
    <2>2. late[r] \subseteq Accounted(u)'
      <3>1. Done(r, "empty")' /\ late[r] \subseteq Items
        BY <1>6, ExecuteEffect DEF TypeOK
      <3>2. late[r] \subseteq SweptUnordered(u)'
        BY <1>1, <3>1 DEF SweptUnordered
      <3>3. QED
        BY <3>2 DEF Accounted
    <2>3. cart[u] \subseteq Accounted(u)'
      <3>1. MayEmpty(r)
        BY <1>6 DEF Execute, MayEmpty
      <3>2. QED
        BY <1>1, <1>4, <2>2, <3>1 DEF CartInv
    <2>4. QED
      BY <1>1, <1>2, <1>3, <2>1, <2>3, ClearingKeepsCart
  <1>7. QED
    BY <1>5, <1>6

LEMMA CartInvariant == Spec => []CartInv
  <1>1. Init => CartInv
    <2> SUFFICES ASSUME Init PROVE CartInv
      OBVIOUS
    <2>1. \A r \in Requests : ~MayEmpty(r) /\ snapshot[r] = {}
      BY DEF Init, MayEmpty
    <2>2. added = {} /\ adding = {} /\ \A u \in Users : cart[u] = {}
      BY DEF Init
    <2>3. QED
      BY <2>1, <2>2 DEF CartInv, ItemsAreAccountedFor
  <1>2. TypeOK /\ CartInv /\ [Next]_vars => CartInv'
    <2> SUFFICES ASSUME TypeOK, CartInv, [Next]_vars PROVE CartInv'
      OBVIOUS
    <2> USE DEF orderVars, history
    <2>1. ASSUME NEW r \in Requests, NEW code, Return(r, code), pc[r] # "idle",
                 UNCHANGED <<cartVars, snapshot, late>>
          PROVE  CartInv'
      BY <2>1, OrderStepKeepsCart DEF Return, MayEmpty, TypeOK
    <2>2. ASSUME NEW r \in Requests, NEW c \in Calls, Make(r, c),
                 c = "charge" => pc[r] = "quote",
                 c = "ship" => pc[r] = "charge",
                 c = "empty" => pc[r] = "ship",
                 UNCHANGED <<cartVars, snapshot, late>>
          PROVE  CartInv'
      BY <2>2, OrderStepKeepsCart DEF Make, MayEmpty, TypeOK, Calls
    <2>3. ASSUME NEW r \in Requests, Finish(r), UNCHANGED <<cartVars, snapshot, late>>
          PROVE  CartInv'
      BY <2>3, OrderStepKeepsCart DEF Finish, MayEmpty, TypeOK
    <2>4. ASSUME NEW r \in Requests, PlaceOrder(r) PROVE CartInv'
      BY <2>4, OrderStepKeepsCart DEF PlaceOrder, MayEmpty, TypeOK
    <2>5. ASSUME NEW r \in Requests, GetUserCart(r) PROVE CartInv'
      BY <2>5, <2>1, GetUserCartKeepsCart DEF GetUserCart
    <2>6. ASSUME NEW r \in Requests, PrepOrderItems(r) PROVE CartInv'
      <3>1. CASE Return(r, "internal")
        BY <2>6, <3>1, <2>1 DEF PrepOrderItems
      <3>2. CASE pc' = [pc EXCEPT ![r] = "quote"] /\ UNCHANGED <<calls, times, answer>>
        BY <2>6, <3>2, OrderStepKeepsCart DEF PrepOrderItems, MayEmpty, TypeOK
      <3>3. QED
        BY <2>6, <3>1, <3>2 DEF PrepOrderItems
    <2>7. ASSUME NEW r \in Requests, QuoteShipping(r) PROVE CartInv'
      BY <2>7, <2>1, <2>2 DEF QuoteShipping, Calls
    <2>8. ASSUME NEW r \in Requests, ChargeCard(r) PROVE CartInv'
      BY <2>8, <2>1, <2>2 DEF ChargeCard, Calls
    <2>9. ASSUME NEW r \in Requests, ShipOrder(r) PROVE CartInv'
      BY <2>9, <2>1, <2>2 DEF ShipOrder, Calls
    <2>10. ASSUME NEW r \in Requests,
                  EmptyUserCart(r) \/ SendOrderConfirmation(r) \/ SendToPostProcessor(r)
           PROVE  CartInv'
      BY <2>10, <2>2, <2>3
      DEF EmptyUserCart, SendOrderConfirmation, SendToPostProcessor, Calls
    <2>11. CASE Crash
      BY <2>11, OrderStepKeepsCart DEF Crash, InProgress, Ended, MayEmpty, TypeOK
    <2>12. CASE UNCHANGED vars
      BY <2>12, OrderStepKeepsCart DEF vars, MayEmpty
    <2>13. QED
      BY <2>4, <2>5, <2>6, <2>7, <2>8, <2>9, <2>10, <2>11, <2>12,
         AddReadKeepsCart, AddWriteKeepsCart, AddLostKeepsCart, DropKeepsCart,
         ExecuteKeepsCart
      DEF Next, Advance
  <1>3. QED
    BY <1>1, <1>2, TypeCorrect, PTL DEF Spec

\* An added item is in the cart until it is in an order, unless the user
\* emptied the cart or it lapsed, or the item was added between an order's
\* GetCart and its EmptyCart, or between the read and the write of another
\* AddItem.
THEOREM ItemsStayAccountedFor == Spec => []ItemsAreAccountedFor
  <1>1. CartInv => ItemsAreAccountedFor
    BY DEF CartInv
  <1>2. QED
    BY <1>1, CartInvariant, PTL

\* The strengthening: an emptied order's items are nowhere a later order could
\* find them, unless its EmptyCart was raced.
ClearedInv ==
  \A q \in Requests :
    /\ Done(q, "empty") /\ q \notin raced =>
         /\ snapshot[q] \cap cart[Owner[q]] = {}
         /\ \A j \in HalfDone(Owner[q]) : snapshot[q] \cap (base[j] \cup {j}) = {}
    /\ \A p \in cleared[q] : Done(p, "empty") /\ Owner[p] = Owner[q]

\* The steps that leave carts, snapshots and emptied orders alone.
LEMMA OrderStepKeepsCleared ==
  ASSUME ClearedInv, ReorderedOnlyByRacingAdd,
         UNCHANGED <<cart, adding, base, snapshot, raced, cleared, times>>
  PROVE  ClearedInv' /\ ReorderedOnlyByRacingAdd'
  BY DEF ClearedInv, ReorderedOnlyByRacingAdd, HalfDone, Done

\* The steps of the carts: what is in a cart, or read for an AddItem, comes
\* from them or was never ordered.
LEMMA CartStepKeepsCleared ==
  ASSUME ClearedInv, ReorderedOnlyByRacingAdd,
         UNCHANGED <<snapshot, raced, cleared, times>>,
         \A q \in Requests :
           /\ \A i \in cart'[Owner[q]] :
                \/ i \notin snapshot[q] \/ i \in cart[Owner[q]]
                \/ \E j \in HalfDone(Owner[q]) : i \in base[j] \cup {j}
           /\ \A j \in HalfDone(Owner[q])' : \A i \in base'[j] \cup {j} :
                \/ i \notin snapshot[q] \/ i \in cart[Owner[q]]
                \/ \E k \in HalfDone(Owner[q]) : i \in base[k] \cup {k}
  PROVE  ClearedInv' /\ ReorderedOnlyByRacingAdd'
  <1>1. ReorderedOnlyByRacingAdd'
    BY DEF ReorderedOnlyByRacingAdd
  <1>2. ASSUME NEW q \in Requests, Done(q, "empty"), q \notin raced
        PROVE  /\ snapshot[q] \cap cart'[Owner[q]] = {}
               /\ \A j \in HalfDone(Owner[q])' : snapshot[q] \cap (base'[j] \cup {j}) = {}
    <2>1. /\ snapshot[q] \cap cart[Owner[q]] = {}
          /\ \A j \in HalfDone(Owner[q]) : snapshot[q] \cap (base[j] \cup {j}) = {}
      BY <1>2 DEF ClearedInv
    <2>2. QED
      BY <2>1
  <1>3. ClearedInv'
    BY <1>2 DEF ClearedInv, Done
  <1>4. QED
    BY <1>1, <1>3

\* What was ordered is ordered again, once the cart was emptied, only if an
\* AddItem that had read the cart by then wrote it back.
THEOREM ItemsAreReorderedOnlyByRacingAdd == Spec => []ReorderedOnlyByRacingAdd
  <1> DEFINE Inv == ClearedInv /\ ReorderedOnlyByRacingAdd
  <1>1. Init => Inv
    BY DEF Init, ClearedInv, ReorderedOnlyByRacingAdd, Done, Calls
  <1>2. TypeOK /\ OrderInv /\ CartInv /\ Inv /\ [Next]_vars => Inv'
    <2> SUFFICES ASSUME TypeOK, OrderInv, CartInv, Inv, [Next]_vars PROVE Inv'
      OBVIOUS
    <2> USE DEF orderVars, cartVars, addVars, history
    <2>0. \A q \in Requests : Owner[q] \in Users
      BY CheckoutAssumption
    <2>1. ASSUME NEW i \in Items, AddRead(i) PROVE Inv'
      <3>1. /\ base'[i] = cart[Buyer[i]] /\ adding' = adding \cup {i}
            /\ \A j \in adding : j # i /\ base'[j] = base[j]
            /\ UNCHANGED <<cart, snapshot, raced, cleared, times>>
        BY <2>1 DEF AddRead, TypeOK
      <3>2. \A q \in Requests : i \notin snapshot[q]
        BY <2>1 DEF AddRead, CartInv
      <3>3. \A v : \A j \in HalfDone(v)' :
              (j \in HalfDone(v) /\ j # i) \/ (j = i /\ Buyer[i] = v)
        BY <3>1 DEF HalfDone
      <3>4. ASSUME NEW q \in Requests, NEW j \in HalfDone(Owner[q])', NEW k \in base'[j] \cup {j}
            PROVE  \/ k \notin snapshot[q] \/ k \in cart[Owner[q]]
                   \/ \E h \in HalfDone(Owner[q]) : k \in base[h] \cup {h}
        <4>1. CASE j = i
          BY <3>1, <3>2, <3>3, <3>4, <4>1
        <4>2. CASE j # i
          BY <3>1, <3>3, <3>4, <4>2 DEF HalfDone
        <4>3. QED
          BY <4>1, <4>2
      <3>5. QED
        BY <3>1, <3>4, CartStepKeepsCleared
    <2>2. ASSUME NEW i \in Items, AddWrite(i) PROVE Inv'
      <3>1. /\ i \in adding /\ cart'[Buyer[i]] = base[i] \cup {i}
            /\ \A v \in Users : v # Buyer[i] => cart'[v] = cart[v]
            /\ adding' = adding \ {i}
            /\ \A j \in adding' : base'[j] = base[j]
            /\ UNCHANGED <<snapshot, raced, cleared, times>>
        BY <2>2, CheckoutAssumption DEF AddWrite, TypeOK
      <3>2. i \in HalfDone(Buyer[i])
        BY <3>1 DEF HalfDone
      <3>3. \A v : \A j \in HalfDone(v)' : j \in HalfDone(v) /\ base'[j] = base[j]
        BY <3>1 DEF HalfDone
      <3>4. \A q \in Requests : \A k \in cart'[Owner[q]] :
              \/ k \in cart[Owner[q]]
              \/ \E j \in HalfDone(Owner[q]) : k \in base[j] \cup {j}
        BY <2>0, <3>1, <3>2
      <3>5. QED
        BY <3>1, <3>3, <3>4, CartStepKeepsCleared
    <2>3. ASSUME NEW i \in Items, AddLost(i) PROVE Inv'
      <3>1. /\ adding' = adding \ {i} /\ \A j \in adding' : base'[j] = base[j]
            /\ UNCHANGED <<cart, snapshot, raced, cleared, times>>
        BY <2>3 DEF AddLost, TypeOK
      <3>2. \A v : \A j \in HalfDone(v)' : j \in HalfDone(v) /\ base'[j] = base[j]
        BY <3>1 DEF HalfDone
      <3>3. QED
        BY <3>1, <3>2, CartStepKeepsCleared
    <2>4. ASSUME NEW u \in Users, Drop(u) PROVE Inv'
      <3>1. /\ \A v \in Users : cart'[v] \subseteq cart[v]
            /\ UNCHANGED <<adding, base, snapshot, raced, cleared, times>>
        BY <2>4 DEF Drop, TypeOK
      <3>2. \A v : HalfDone(v)' = HalfDone(v)
        BY <3>1 DEF HalfDone
      <3>3. QED
        BY <2>0, <3>1, <3>2, CartStepKeepsCleared
    <2>5. ASSUME NEW r \in Requests, GetUserCart(r) PROVE Inv'
      <3>1. CASE UNCHANGED <<snapshot, cleared>>
        BY <2>5, <3>1, OrderStepKeepsCleared DEF GetUserCart, Return
      <3>2. CASE ~UNCHANGED <<snapshot, cleared>>
        <4>1. /\ snapshot'[r] = cart[Owner[r]] /\ cleared'[r] = EmptiedFor(Owner[r])
              /\ \A q \in Requests : q # r =>
                    snapshot'[q] = snapshot[q] /\ cleared'[q] = cleared[q]
              /\ UNCHANGED <<cart, adding, base, raced, times>>
          BY <2>5, <3>2 DEF GetUserCart, Return, TypeOK
        <4>2. ~Done(r, "empty")
          <5>1. ReqInv(r) /\ "empty" \in Ahead(pc[r])
            BY <2>5 DEF GetUserCart, OrderInv, Ahead, Calls
          <5>2. QED
            BY <5>1 DEF ReqInv, Made, Done
        <4>3. \A p \in cleared'[r] : p # r /\ Done(p, "empty") /\ Owner[p] = Owner[r]
          BY <4>1, <4>2 DEF EmptiedFor, Done
        <4>4. ClearedInv'
          BY <4>1, <4>2, <4>3 DEF ClearedInv, HalfDone, Done
        <4>5. ReorderedOnlyByRacingAdd'
          <5> SUFFICES ASSUME NEW x \in Requests, NEW q \in cleared'[x], q \notin raced
                       PROVE  snapshot'[q] \cap snapshot'[x] = {}
            BY <4>1 DEF ReorderedOnlyByRacingAdd
          <5>1. q \in Requests
            BY <2>5, <4>1 DEF EmptiedFor, TypeOK
          <5>2. CASE x = r
            BY <4>1, <4>3, <5>1, <5>2 DEF ClearedInv
          <5>3. CASE x # r
            BY <4>1, <4>2, <5>1, <5>3 DEF ClearedInv, ReorderedOnlyByRacingAdd
          <5>4. QED
            BY <5>2, <5>3
        <4>6. QED
          BY <4>4, <4>5
      <3>3. QED
        BY <3>1, <3>2
    <2>6. ASSUME NEW r \in Requests, NEW c \in Calls, Execute(r, c) PROVE Inv'
      <3>1. UNCHANGED <<adding, base, snapshot, cleared>> /\ raced \subseteq raced'
        BY <2>6 DEF Execute
      <3>2. ReorderedOnlyByRacingAdd'
        BY <3>1 DEF ReorderedOnlyByRacingAdd
      <3>3. \A v : HalfDone(v)' = HalfDone(v)
        BY <3>1 DEF HalfDone
      <3>4. /\ \A q \in Requests : Done(q, "empty") => Done(q, "empty")'
            /\ \A q \in Requests : Done(q, "empty")' => Done(q, "empty") \/ (q = r /\ c = "empty")
        BY <2>6, ExecuteEffect DEF Calls
      <3>5. /\ \A v \in Users : cart'[v] \subseteq cart[v]
            /\ c = "empty" => /\ cart'[Owner[r]] = {}
                              /\ r \notin raced' => HalfDone(Owner[r]) = {}
        BY <2>0, <2>6 DEF Execute, TypeOK
      <3>6. ASSUME NEW q \in Requests
            PROVE  /\ Done(q, "empty")' /\ q \notin raced' =>
                        /\ snapshot[q] \cap cart'[Owner[q]] = {}
                        /\ \A j \in HalfDone(Owner[q]) : snapshot[q] \cap (base[j] \cup {j}) = {}
                   /\ \A p \in cleared[q] : Done(p, "empty")' /\ Owner[p] = Owner[q]
        <4>1. \A p \in cleared[q] : Done(p, "empty")' /\ Owner[p] = Owner[q]
          BY <3>4 DEF ClearedInv, TypeOK
        <4>2. CASE q = r /\ c = "empty"
          BY <3>5, <4>1, <4>2
        <4>3. CASE ~(q = r /\ c = "empty")
          <5>1. Done(q, "empty")' /\ q \notin raced' => Done(q, "empty") /\ q \notin raced
            BY <3>1, <3>4, <4>3
          <5>2. cart'[Owner[q]] \subseteq cart[Owner[q]]
            BY <2>0, <3>5
          <5>3. QED
            BY <4>1, <5>1, <5>2 DEF ClearedInv
        <4>4. QED
          BY <4>2, <4>3
      <3>7. ClearedInv'
        BY <3>1, <3>3, <3>6 DEF ClearedInv
      <3>8. QED
        BY <3>2, <3>7
    <2>7. ASSUME NEW r \in Requests,
                 \/ PlaceOrder(r) \/ PrepOrderItems(r) \/ QuoteShipping(r)
                 \/ ChargeCard(r) \/ ShipOrder(r) \/ EmptyUserCart(r)
                 \/ SendOrderConfirmation(r) \/ SendToPostProcessor(r)
          PROVE  Inv'
      BY <2>7, OrderStepKeepsCleared
      DEF PlaceOrder, PrepOrderItems, QuoteShipping, ChargeCard, ShipOrder,
          EmptyUserCart, SendOrderConfirmation, SendToPostProcessor, Make, Return, Finish
    <2>8. CASE Crash
      BY <2>8, OrderStepKeepsCleared DEF Crash
    <2>9. CASE UNCHANGED vars
      BY <2>9, OrderStepKeepsCleared DEF vars
    <2>10. QED
      BY <2>1, <2>2, <2>3, <2>4, <2>5, <2>6, <2>7, <2>8, <2>9 DEF Next, Advance
  <1>3. QED
    BY <1>1, <1>2, TypeCorrect, OrderInvariant, CartInvariant, PTL DEF Spec

-----------------------------------------------------------------------------
\* The strengthening: whoever has got past prepOrderItems, or has a charge
\* under way, holds a cart of known products.
SellableInv ==
  \A r \in Requests : pc[r] = "quote" \/ Made(r, "charge") => snapshot[r] \subseteq Sellable

\* No order with an unknown product is ever charged.
THEOREM UnsellableOrdersAreNeverCharged == Spec => []UnsellableIsNeverCharged
  <1>1. Init => SellableInv
    BY DEF Init, SellableInv, Made, Done, Calls
  <1>2. TypeOK /\ OrderInv /\ SellableInv /\ [Next]_vars => SellableInv'
    <2> SUFFICES ASSUME TypeOK, OrderInv, SellableInv, [Next]_vars PROVE SellableInv'
      OBVIOUS
    <2> USE DEF orderVars, cartVars, history
    <2>0. ASSUME UNCHANGED snapshot,
                 \A r \in Requests : \/ pc'[r] = "quote" => pc[r] = "quote"
                                      \/ snapshot[r] \subseteq Sellable,
                 \A r \in Requests : \/ Made(r, "charge")' => Made(r, "charge")
                                      \/ snapshot[r] \subseteq Sellable
          PROVE  SellableInv'
      BY <2>0 DEF SellableInv
    <2>1. ASSUME UNCHANGED <<snapshot, calls, times>>,
                 \A r \in Requests : \/ pc'[r] = "quote" => pc[r] = "quote"
                                      \/ snapshot[r] \subseteq Sellable
          PROVE  SellableInv'
      BY <2>1, <2>0 DEF Made, Done
    <2>2. ASSUME NEW i \in Items, AddRead(i) PROVE SellableInv'
      BY <2>2, <2>1 DEF AddRead
    <2>3. ASSUME NEW i \in Items, AddWrite(i) \/ AddLost(i) PROVE SellableInv'
      BY <2>3, <2>1 DEF AddWrite, AddLost
    <2>3a. ASSUME NEW u \in Users, Drop(u) PROVE SellableInv'
      BY <2>3a, <2>1 DEF Drop
    <2>4. ASSUME NEW r \in Requests, PlaceOrder(r) \/ PrepOrderItems(r) PROVE SellableInv'
      BY <2>4, <2>1 DEF PlaceOrder, PrepOrderItems, Return, TypeOK
    <2>5. ASSUME NEW r \in Requests, GetUserCart(r) PROVE SellableInv'
      <3>1. CASE Return(r, "internal") /\ UNCHANGED snapshot
        BY <2>5, <3>1, <2>1 DEF Return, TypeOK
      <3>2. CASE pc' = [pc EXCEPT ![r] = "prepare"] /\ UNCHANGED <<calls, times>>
        <4>1. ~Made(r, "charge")
          <5>1. ReqInv(r) /\ "charge" \in Ahead(pc[r])
            BY <2>5 DEF GetUserCart, OrderInv, Ahead, Calls
          <5>2. QED
            BY <5>1 DEF ReqInv
        <4>2. \A q \in Requests : q # r => snapshot'[q] = snapshot[q]
          BY <2>5 DEF GetUserCart, TypeOK, Return
        <4>3. \A q \in Requests : Made(q, "charge")' <=> Made(q, "charge")
          BY <3>2 DEF Made, Done
        <4>4. QED
          BY <3>2, <4>1, <4>2, <4>3 DEF SellableInv, TypeOK
      <3>3. QED
        BY <2>5, <3>1, <3>2 DEF GetUserCart
    <2>6. ASSUME NEW r \in Requests, NEW c \in Calls, Make(r, c), UNCHANGED snapshot,
                 c = "charge" => pc[r] = "quote"
          PROVE  SellableInv'
      <3>1. \A q \in Requests :
              Made(q, "charge")' => Made(q, "charge") \/ (q = r /\ pc[r] = "quote")
        BY <2>6 DEF Make, Made, Done
      <3>2. \A q \in Requests : pc'[q] = "quote" => pc[q] = "quote"
        BY <2>6 DEF Make, TypeOK, Calls
      <3>3. QED
        BY <2>6, <3>1, <3>2 DEF SellableInv
    <2>7. ASSUME NEW r \in Requests, UNCHANGED snapshot,
                 Return(r, "internal") \/ Return(r, "unavailable") \/ Finish(r)
          PROVE  SellableInv'
      BY <2>7, <2>1 DEF Return, Finish, TypeOK
    <2>8. ASSUME NEW r \in Requests,
                 \/ QuoteShipping(r) \/ ChargeCard(r) \/ ShipOrder(r) \/ EmptyUserCart(r)
                 \/ SendOrderConfirmation(r) \/ SendToPostProcessor(r)
          PROVE  SellableInv'
      BY <2>8, <2>6, <2>7
      DEF QuoteShipping, ChargeCard, ShipOrder, EmptyUserCart, SendOrderConfirmation,
          SendToPostProcessor, Calls
    <2>9. ASSUME NEW r \in Requests, NEW c \in Calls, Execute(r, c) PROVE SellableInv'
      <3>1. Made(r, c) /\ UNCHANGED <<snapshot, pc>>
        BY <2>9 DEF Execute, Made
      <3>2. \A q \in Requests : Made(q, "charge")' => Made(q, "charge")
        BY <2>9, <3>1, ExecuteEffect DEF Made, Calls
      <3>3. QED
        BY <3>1, <3>2, <2>0
    <2>10. CASE Crash
      BY <2>10, <2>1 DEF Crash, TypeOK
    <2>11. CASE UNCHANGED vars
      BY <2>11, <2>1 DEF vars
    <2>12. QED
      BY <2>2, <2>3, <2>3a, <2>4, <2>5, <2>8, <2>9, <2>10, <2>11 DEF Next, Advance
  <1>3. SellableInv => UnsellableIsNeverCharged
    BY DEF SellableInv, UnsellableIsNeverCharged, Made
  <1>4. QED
    BY <1>1, <1>2, <1>3, TypeCorrect, OrderInvariant, PTL DEF Spec
=============================================================================
