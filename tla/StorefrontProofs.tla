--------------------------- MODULE StorefrontProofs ---------------------------
(***************************************************************************)
(* What users see of their orders, for any clients, users and currencies:  *)
(* type correctness, the promise of OrderEffects, that whoever is told so  *)
(* has an order, that no item is in two orders but for named causes, that  *)
(* a client shows its own changes, and that a patient user is charged for  *)
(* what he was shown.                                                      *)
(***************************************************************************)
EXTENDS Storefront, SequenceTheorems, TLAPS

\* A click goes on, in its own place in the sequence and in nothing but the field at.
LEMMA ClickGoesOn ==
  ASSUME NEW i \in DOMAIN clicks, clicks \in Seq(ClickType),
         NEW to \in {"added", "read", "charged", "writing", "placed", "ok", "error", "told",
                     "refused"},
         clicks' = [clicks EXCEPT ![i].at = to]
  PROVE  /\ clicks' \in Seq(ClickType) /\ Len(clicks') = Len(clicks)
         /\ DOMAIN clicks' = DOMAIN clicks
         /\ clicks'[i] = [clicks[i] EXCEPT !.at = to]
         /\ \A j \in DOMAIN clicks : j # i => clicks'[j] = clicks[j]
  <1> DEFINE e == [clicks[i] EXCEPT !.at = to]
  <1>1. i \in 1..Len(clicks) /\ clicks[i] \in ClickType /\ DOMAIN clicks = 1..Len(clicks)
    BY LenProperties, ElementOfSeq
  <1>2. e \in ClickType
    BY <1>1 DEF ClickType
  <1>3. clicks' = [clicks EXCEPT ![i] = e]
    OBVIOUS
  <1> HIDE DEF e
  <1>4. /\ clicks' \in Seq(ClickType) /\ Len(clicks') = Len(clicks)
        /\ \A j \in 1..Len(clicks) : clicks'[j] = IF j = i THEN e ELSE clicks[j]
    BY <1>1, <1>2, <1>3, ExceptSeq
  <1>5. DOMAIN clicks' = 1..Len(clicks')
    BY <1>4, LenProperties
  <1>6. QED
    BY <1>1, <1>4, <1>5 DEF e

\* A click goes on with the cart that it has read.
LEMMA ReadingOn ==
  ASSUME StorefrontTypeOK, NEW i \in DOMAIN clicks, NEW kind, NEW to \in {"writing", "read"},
         Reads(i, kind, to)
  PROVE  /\ clicks' \in Seq(ClickType) /\ Len(clicks') = Len(clicks)
         /\ DOMAIN clicks' = DOMAIN clicks
         /\ clicks[i].at = "sent" /\ clicks[i].kind = kind
         /\ clicks'[i].at = to /\ clicks'[i].saw = cart[UserBy(i)]
         /\ \A j \in DOMAIN clicks : /\ clicks'[j].kind = clicks[j].kind
                                     /\ clicks'[j].by = clicks[j].by
                                     /\ clicks'[j].shown = clicks[j].shown
                                     /\ UserBy(j)' = UserBy(j)
                                     /\ j # i => clicks'[j] = clicks[j]
  <1> DEFINE e == [clicks[i] EXCEPT !.at = to, !.saw = cart[UserBy(i)]]
  <1>0. clicks \in Seq(ClickType)
    BY DEF StorefrontTypeOK
  <1>1. i \in 1..Len(clicks) /\ clicks[i] \in ClickType /\ DOMAIN clicks = 1..Len(clicks)
    BY <1>0, LenProperties, ElementOfSeq
  <1>2. cart[UserBy(i)] \in SUBSET Clicks
    BY <1>1, StorefrontAssumption DEF StorefrontTypeOK, ClickType, UserBy
  <1>3. /\ e \in ClickType /\ e.at = to /\ e.saw = cart[UserBy(i)] /\ e.kind = clicks[i].kind
        /\ e.by = clicks[i].by /\ e.shown = clicks[i].shown
    BY <1>1, <1>2 DEF ClickType
  <1>4. clicks' = [clicks EXCEPT ![i] = e] /\ clicks[i].at = "sent" /\ clicks[i].kind = kind
    BY DEF Reads
  <1> HIDE DEF e
  <1>5. /\ clicks' \in Seq(ClickType) /\ Len(clicks') = Len(clicks)
        /\ \A j \in 1..Len(clicks) : clicks'[j] = IF j = i THEN e ELSE clicks[j]
    BY <1>0, <1>1, <1>3, <1>4, ExceptSeq
  <1>6. DOMAIN clicks' = DOMAIN clicks
    BY <1>1, <1>5, LenProperties
  <1>7. QED
    BY <1>1, <1>3, <1>4, <1>5, <1>6 DEF UserBy

\* A user clicks: the sequence grows by one click, of the next number.
LEMMA ClickIsAdded ==
  ASSUME StorefrontTypeOK, NEW c \in Clients, NEW kind \in {"add", "empty", "order"},
         Click(c, kind)
  PROVE  /\ clicks' \in Seq(ClickType) /\ Len(clicks') = Len(clicks) + 1
         /\ Len(clicks') <= acts'
         /\ DOMAIN clicks' = DOMAIN clicks \cup {Len(clicks) + 1}
         /\ clicks'[Len(clicks) + 1].kind = kind /\ clicks'[Len(clicks) + 1].at = "sent"
         /\ Len(clicks) + 1 \notin DOMAIN clicks
         /\ \A j \in DOMAIN clicks : clicks'[j] = clicks[j]
  <1> DEFINE e == [by |-> c, kind |-> kind, at |-> "sent", shown |-> Shown(c), saw |-> {}]
  <1>1. Shown(c) \in SUBSET Clicks
    BY DEF StorefrontTypeOK, QueryType, DataType, Shown, Active
  <1>2. e \in ClickType
    BY <1>1 DEF ClickType
  <1>3. clicks \in Seq(ClickType) /\ clicks' = Append(clicks, e)
    BY DEF StorefrontTypeOK, Click
  <1>4. Len(clicks) \in Nat /\ DOMAIN clicks = 1..Len(clicks)
    BY <1>3, LenProperties
  <1>5. /\ clicks' \in Seq(ClickType) /\ Len(clicks') = Len(clicks) + 1
        /\ clicks'[Len(clicks) + 1] = e
        /\ \A j \in 1..Len(clicks) : clicks'[j] = clicks[j]
    BY <1>2, <1>3, AppendProperties
  <1>6. DOMAIN clicks' = 1..Len(clicks')
    BY <1>5, LenProperties
  <1>7. Len(clicks) <= acts /\ acts' = acts + 1 /\ acts \in Nat
    BY StorefrontAssumption DEF StorefrontTypeOK, Click, Act
  <1>8. QED
    BY <1>4, <1>5, <1>6, <1>7

\* What react-query keeps has its type whatever becomes of it.
LEMMA QueryTypes ==
  ASSUME StorefrontTypeOK, NEW q \in QueryType
  PROVE  Started(q) \in QueryType /\ Fetched(q) \in QueryType /\ Refetched(q) \in QueryType
  BY DEF Started, Fetched, Refetched, QueryType, DataType, Nothing

\* A record of the type keeps it when a field is replaced by one of the field's type.
LEMMA QueryFields ==
  ASSUME NEW q \in QueryType
  PROVE  /\ \A a \in {"none", "sent", "back"} : [q EXCEPT !.at = a] \in QueryType
         /\ \A b \in BOOLEAN : [q EXCEPT !.has = b] \in QueryType
         /\ \A b \in BOOLEAN : [q EXCEPT !.late = b] \in QueryType
         /\ \A d \in DataType : [q EXCEPT !.data = d] \in QueryType
         /\ \A d \in DataType : [q EXCEPT !.got = d] \in QueryType
         /\ q.got \in DataType
  BY DEF QueryType

LEMMA QueryIsSet ==
  ASSUME StorefrontTypeOK, NEW c \in Clients, NEW k \in Currencies, NEW q \in QueryType
  PROVE  [query EXCEPT ![c][k] = q] \in [Clients -> [Currencies -> QueryType]]
  BY DEF StorefrontTypeOK

LEMMA InvalidatedType ==
  ASSUME StorefrontTypeOK, NEW c \in Clients
  PROVE  Invalidated(c) \in [Currencies -> QueryType]
  <1>1. ASSUME NEW k \in Currencies
        PROVE  /\ Refetched(query[c][k]) \in QueryType
               /\ [query[c][k] EXCEPT !.late = query[c][k].at # "none"] \in QueryType
    <2>1. query[c][k] \in QueryType
      BY DEF StorefrontTypeOK
    <2>2. \A b \in BOOLEAN : [query[c][k] EXCEPT !.late = b] \in QueryType
      BY <2>1 DEF QueryType
    <2>3. (query[c][k].at # "none") \in BOOLEAN
      OBVIOUS
    <2>4. QED
      BY <2>1, <2>2, <2>3, QueryTypes
  <1>2. QED
    BY <1>1 DEF Invalidated

\* The values of the variables have the types that the comments beside them give.
THEOREM StorefrontTypeCorrect == StoreSpec => []StorefrontTypeOK
  <1>1. StoreInit => StorefrontTypeOK
    BY StorefrontAssumption, EmptySeq
    DEF StoreInit, StorefrontTypeOK, QueryType, DataType, NoFetch, Nothing
  <1>2. StorefrontTypeOK /\ [StoreNext]_storeVars => StorefrontTypeOK'
    <2> SUFFICES ASSUME StorefrontTypeOK, [StoreNext]_storeVars PROVE StorefrontTypeOK'
      OBVIOUS
    <2> USE DEF browser, shop, store
    <2>0. /\ clicks \in Seq(ClickType) /\ Len(clicks) \in Nat /\ Len(clicks) <= acts
          /\ DOMAIN clicks \subseteq Clicks
          /\ \A i \in DOMAIN clicks : clicks[i] \in ClickType /\ clicks[i].by \in Clients
                                      /\ UserBy(i) \in Users
      <3>1. clicks \in Seq(ClickType) /\ Len(clicks) <= acts /\ acts \in Nat /\ acts <= MaxActs
        BY StorefrontAssumption DEF StorefrontTypeOK
      <3>2. Len(clicks) \in Nat /\ DOMAIN clicks = 1..Len(clicks)
        BY <3>1, LenProperties
      <3>3. \A i \in DOMAIN clicks : clicks[i] \in ClickType
        BY <3>1, <3>2, ElementOfSeq
      <3>4. QED
        BY <3>1, <3>2, <3>3, StorefrontAssumption DEF ClickType, UserBy, Clicks
    <2>1. ASSUME Act PROVE acts' \in 0..MaxActs /\ acts <= acts'
      BY <2>1, StorefrontAssumption DEF Act, StorefrontTypeOK
    <2>2. ASSUME NEW c \in Clients, Presses(c) PROVE hasty' \subseteq Users
      BY <2>2, StorefrontAssumption DEF Presses, StorefrontTypeOK
    <2>3. ASSUME NEW c \in Clients, Open(c) PROVE StorefrontTypeOK'
      <3>1. query' \in [Clients -> [Currencies -> QueryType]]
        BY <2>3, QueryTypes DEF Open, StorefrontTypeOK
      <3>2. acts' \in 0..MaxActs /\ Len(clicks) <= acts'
        BY <2>0, <2>1, <2>3, StorefrontAssumption DEF Open, StorefrontTypeOK
      <3>3. QED
        BY <2>3, <3>1, <3>2 DEF Open, StorefrontTypeOK
    <2>4. ASSUME NEW c \in Clients, Focus(c) PROVE StorefrontTypeOK'
      <3>1. query' \in [Clients -> [Currencies -> QueryType]]
        BY <2>4, QueryTypes DEF Focus, StorefrontTypeOK
      <3>2. QED
        BY <2>4, <3>1 DEF Focus, StorefrontTypeOK
    <2>5. ASSUME NEW c \in Clients, AddItem(c) \/ EmptyCart(c) \/ PlaceOrder(c)
          PROVE  StorefrontTypeOK'
      <3>1. PICK kind \in {"add", "empty", "order"} : Click(c, kind)
        BY <2>5 DEF AddItem, EmptyCart, PlaceOrder
      <3>2. clicks' \in Seq(ClickType) /\ Len(clicks') <= acts'
        BY <3>1, ClickIsAdded
      <3>3. acts' \in 0..MaxActs /\ hasty' \subseteq Users
        BY <3>1, <2>1, <2>2 DEF Click
      <3>4. QED
        BY <3>1, <3>2, <3>3 DEF Click, StorefrontTypeOK
    <2>6. ASSUME NEW c \in Clients, NEW k \in Currencies, SelectCurrency(c, k)
          PROVE  StorefrontTypeOK'
      <3>1. query' \in [Clients -> [Currencies -> QueryType]]
        BY <2>6, QueryTypes DEF SelectCurrency, StorefrontTypeOK
      <3>2. /\ acts' \in 0..MaxActs /\ Len(clicks) <= acts' /\ hasty' \subseteq Users
        BY <2>0, <2>1, <2>2, <2>6, StorefrontAssumption DEF SelectCurrency, StorefrontTypeOK
      <3>3. QED
        BY <2>6, <3>1, <3>2 DEF SelectCurrency, StorefrontTypeOK
    <2>7. ASSUME NEW c \in Clients, NEW k \in Currencies, ServeCart(c, k)
          PROVE  StorefrontTypeOK'
      <3>1. [items |-> cart[UserOf[c]], seen |-> executed] \in DataType
        BY StorefrontAssumption DEF StorefrontTypeOK, DataType
      <3> DEFINE q == [query[c][k] EXCEPT !.at = "back",
                         !.got = [items |-> cart[UserOf[c]], seen |-> executed]]
      <3> DEFINE sent == [query[c][k] EXCEPT !.at = "back"]
      <3>2. q \in QueryType
        <4>1. sent \in QueryType
          BY QueryFields DEF StorefrontTypeOK
        <4> HIDE DEF sent
        <4>2. [sent EXCEPT !.got = [items |-> cart[UserOf[c]], seen |-> executed]] \in QueryType
          BY <3>1, <4>1, QueryFields
        <4>3. QED
          BY <4>2 DEF sent
      <3>3. query' = [query EXCEPT ![c][k] = q]
        BY <2>7 DEF ServeCart, StorefrontTypeOK, QueryType
      <3>4. query' \in [Clients -> [Currencies -> QueryType]]
        BY <3>2, <3>3, QueryIsSet
      <3>5. QED
        BY <2>7, <3>4 DEF ServeCart, StorefrontTypeOK
    <2>8. ASSUME NEW c \in Clients, NEW k \in Currencies, ReceiveCart(c, k)
          PROVE  StorefrontTypeOK'
      <3> DEFINE q == [query[c][k] EXCEPT !.at = "none", !.has = TRUE,
                                          !.data = query[c][k].got, !.got = Nothing]
      <3> DEFINE one == [query[c][k] EXCEPT !.at = "none"]
                 two == [one EXCEPT !.has = TRUE]
                 three == [two EXCEPT !.data = query[c][k].got]
      <3>0. q \in QueryType
        <4>0. query[c][k] \in QueryType
          BY DEF StorefrontTypeOK
        <4>1. query[c][k].got \in DataType /\ Nothing \in DataType
          BY <4>0, QueryFields DEF DataType, Nothing
        <4>2. one \in QueryType
          BY QueryFields DEF StorefrontTypeOK
        <4> HIDE DEF one
        <4>3. two \in QueryType
          BY <4>2, QueryFields
        <4> HIDE DEF two
        <4>4. three \in QueryType
          BY <4>1, <4>3, QueryFields
        <4> HIDE DEF three
        <4>5. [three EXCEPT !.got = Nothing] \in QueryType
          BY <4>1, <4>4, QueryFields
        <4>6. QED
          BY <4>5 DEF one, two, three
      <3>1. query' \in [Clients -> [Currencies -> QueryType]]
        BY <2>8, <3>0, QueryIsSet DEF ReceiveCart
      <3>2. QED
        BY <2>8, <3>1 DEF ReceiveCart, StorefrontTypeOK
    <2>9. ASSUME NEW c \in Clients, NEW k \in Currencies, FailCart(c, k)
          PROVE  StorefrontTypeOK'
      <3> DEFINE q == [query[c][k] EXCEPT !.at = "none", !.late = TRUE]
      <3> DEFINE none == [query[c][k] EXCEPT !.at = "none"]
      <3>0. q \in QueryType
        <4>1. none \in QueryType
          BY QueryFields DEF StorefrontTypeOK
        <4> HIDE DEF none
        <4>2. [none EXCEPT !.late = TRUE] \in QueryType
          BY <4>1, QueryFields
        <4>3. QED
          BY <4>2 DEF none
      <3>1. query' \in [Clients -> [Currencies -> QueryType]]
        BY <2>9, <3>0, QueryIsSet DEF FailCart
      <3>2. hasty' \subseteq Users
        BY <2>9, StorefrontAssumption DEF FailCart, StorefrontTypeOK
      <3>3. QED
        BY <2>9, <3>1, <3>2 DEF FailCart, StorefrontTypeOK
    <2>10. ASSUME NEW i \in DOMAIN clicks, NEW well \in BOOLEAN,
                  \/ Added(i) \/ AnswerAdd(i, well) \/ ServeEmpty(i) \/ Emptied(i)
                  \/ Charge(i) \/ Ship(i, well) \/ GoOn(i) \/ LookUp(i, well) \/ Fail(i)
           PROVE  StorefrontTypeOK'
      <3>1. PICK to \in {"added", "charged", "writing", "placed", "ok", "error"} :
               clicks' = [clicks EXCEPT ![i].at = to]
        BY <2>10 DEF Added, AnswerAdd, ServeEmpty, Emptied, Charge, Ship, GoOn, LookUp, Fail, Goes
      <3>2. clicks' \in Seq(ClickType) /\ Len(clicks') = Len(clicks)
        BY <2>0, <3>1, ClickGoesOn
      <3>3. /\ charged' \subseteq charged \cup {i} /\ shipped' \subseteq shipped \cup {i}
            /\ kept' \subseteq kept \cup {i} /\ out' \subseteq out \cup {i}
            /\ UNCHANGED <<open, currency, query, acts, cart, executed, lapsed, hasty>>
        BY <2>10 DEF Added, AnswerAdd, ServeEmpty, Emptied, Charge, Ship, GoOn, LookUp, Fail, Sends
      <3>4. QED
        BY <2>0, <3>2, <3>3 DEF StorefrontTypeOK
    <2>11. ASSUME NEW i \in DOMAIN clicks, ServeAdd(i) \/ ReadCart(i) PROVE StorefrontTypeOK'
      <3>1. clicks' \in Seq(ClickType) /\ Len(clicks') = Len(clicks)
        BY <2>11, ReadingOn DEF ServeAdd, ReadCart
      <3>2. out' \subseteq Clicks
        BY <2>0, <2>11 DEF ServeAdd, ReadCart, Sends, StorefrontTypeOK
      <3>3. QED
        BY <2>11, <3>1, <3>2 DEF ServeAdd, ReadCart, Sends, StorefrontTypeOK
    <2>12. ASSUME NEW i \in DOMAIN clicks, Execute(i) PROVE StorefrontTypeOK'
      <3>1. Writes(i) \in SUBSET Clicks
        BY <2>0 DEF Writes, ClickType
      <3>2. /\ cart' \in [Users -> SUBSET Clicks] /\ executed' \subseteq Clicks
            /\ out' \subseteq Clicks /\ lapsed' \subseteq Users
        BY <2>0, <2>12, <3>1 DEF Execute, StorefrontTypeOK
      <3>3. QED
        BY <2>12, <3>2 DEF Execute, StorefrontTypeOK
    <2>13. ASSUME NEW u \in Users, Lapse(u) PROVE StorefrontTypeOK'
      BY <2>13 DEF Lapse, StorefrontTypeOK
    <2>14. ASSUME NEW i \in DOMAIN clicks, ReceiveGood(i) PROVE StorefrontTypeOK'
      <3>1. clicks' \in Seq(ClickType) /\ Len(clicks') = Len(clicks)
        BY <2>0, <2>14, ClickGoesOn DEF ReceiveGood
      <3>2. query' \in [Clients -> [Currencies -> QueryType]]
        BY <2>0, <2>14, InvalidatedType DEF ReceiveGood, StorefrontTypeOK
      <3>3. QED
        BY <2>14, <3>1, <3>2 DEF ReceiveGood, StorefrontTypeOK
    <2>15. ASSUME NEW i \in DOMAIN clicks, ReceiveError(i) PROVE StorefrontTypeOK'
      <3>1. clicks' \in Seq(ClickType) /\ Len(clicks') = Len(clicks)
        BY <2>0, <2>15, ClickGoesOn DEF ReceiveError
      <3>2. hasty' \subseteq Users
        BY <2>0, <2>15 DEF ReceiveError, StorefrontTypeOK
      <3>3. QED
        BY <2>15, <3>1, <3>2 DEF ReceiveError, StorefrontTypeOK
    <2>16. CASE UNCHANGED storeVars
      BY <2>16 DEF storeVars, StorefrontTypeOK
    <2>17. QED
      BY <2>3, <2>4, <2>5, <2>6, <2>7, <2>8, <2>9, <2>10, <2>11, <2>12, <2>13, <2>14, <2>15,
         <2>16 DEF StoreNext
  <1>3. QED
    BY <1>1, <1>2, PTL DEF StoreSpec

-----------------------------------------------------------------------------
(* The promise of OrderEffects. *)

\* How far an order has come, and what has taken place by then.
OrderInv(i) ==
  /\ clicks[i].at \in {"sent", "read"} => i \notin charged
  /\ clicks[i].at \in {"sent", "read", "charged"} => i \notin shipped \cup out \cup executed
  /\ clicks[i].at \in {"charged", "writing", "placed", "ok", "told"} => i \in charged
  /\ clicks[i].at \in {"writing", "placed", "ok", "told"} => i \in shipped
  /\ clicks[i].at \in {"placed", "ok", "told"} => i \in executed \cup kept
  /\ i \in out \cup executed => i \in charged /\ i \in shipped

\* How far another click has come, and whether it has written a cart.
ChangeInv(i) ==
  /\ clicks[i].at = "sent" => i \notin out \cup executed
  /\ clicks[i].at \in {"added", "ok", "told"} => i \in executed
  /\ i \notin charged \cup shipped

\* A click that steps, or does not.
ClickInv(i) == IF clicks[i].kind = "order" THEN OrderInv(i) ELSE ChangeInv(i)

OrdersInv ==
  /\ executed \cup charged \cup shipped \cup out \cup kept \subseteq DOMAIN clicks
  /\ out \cap executed = {}
  /\ \A i \in DOMAIN clicks : ClickInv(i)

\* A step that a click takes, with what it leaves alone.
LEMMA StepKeepsOthers ==
  ASSUME NEW i \in DOMAIN clicks, OrdersInv, DOMAIN clicks' = DOMAIN clicks,
         \A j \in DOMAIN clicks : j # i => clicks'[j] = clicks[j],
         charged' \in {charged, charged \cup {i}}, shipped' \in {shipped, shipped \cup {i}},
         executed' \in {executed, executed \cup {i}}, kept' \in {kept, kept \cup {i}},
         out' \in {out, out \cup {i}, out \ {i}}, out' \cap executed' = {},
         ClickInv(i)'
  PROVE  OrdersInv'
  <1>1. ASSUME NEW j \in DOMAIN clicks', j # i PROVE ClickInv(j)'
    <2>1. clicks'[j] = clicks[j] /\ ClickInv(j)
      BY <1>1 DEF OrdersInv
    <2>2. /\ j \in charged' <=> j \in charged
          /\ j \in shipped' <=> j \in shipped
          /\ j \in executed' <=> j \in executed
          /\ j \in kept' <=> j \in kept
          /\ j \in out' <=> j \in out
      BY <1>1
    <2>3. QED
      BY <2>1, <2>2 DEF ClickInv, OrderInv, ChangeInv
  <1>2. executed' \cup charged' \cup shipped' \cup out' \cup kept' \subseteq DOMAIN clicks
    BY DEF OrdersInv
  <1>3. QED
    BY <1>1, <1>2 DEF OrdersInv

THEOREM OrdersInvariant == StoreSpec => []OrdersInv
  <1>1. StoreInit => OrdersInv
    BY EmptySeq DEF StoreInit, OrdersInv
  <1>2. StorefrontTypeOK /\ OrdersInv /\ [StoreNext]_storeVars => OrdersInv'
    <2> SUFFICES ASSUME StorefrontTypeOK, OrdersInv, [StoreNext]_storeVars PROVE OrdersInv'
      OBVIOUS
    <2> USE DEF browser, shop, store
    <2>0. clicks \in Seq(ClickType) /\ \A i \in DOMAIN clicks : clicks[i] \in ClickType
      <3>1. clicks \in Seq(ClickType)
        BY DEF StorefrontTypeOK
      <3>2. QED
        BY <3>1, LenProperties, ElementOfSeq
    <2>1. ASSUME UNCHANGED <<clicks, executed, charged, shipped, out, kept>> PROVE OrdersInv'
      BY <2>1 DEF OrdersInv, ClickInv, OrderInv, ChangeInv
    <2>2. ASSUME NEW i \in DOMAIN clicks,
                 NEW to \in {"added", "read", "charged", "writing", "placed", "ok", "error",
                             "told", "refused"},
                 clicks' = [clicks EXCEPT ![i].at = to]
          PROVE  /\ DOMAIN clicks' = DOMAIN clicks
                 /\ clicks'[i].kind = clicks[i].kind /\ clicks'[i].at = to
                 /\ \A j \in DOMAIN clicks : j # i => clicks'[j] = clicks[j]
      BY <2>0, <2>2, ClickGoesOn, ZenonT(60) DEF ClickType
    <2>3. ASSUME NEW c \in Clients, NEW k \in Currencies,
                 Open(c) \/ Focus(c) \/ SelectCurrency(c, k) \/ ServeCart(c, k)
                   \/ ReceiveCart(c, k) \/ FailCart(c, k)
          PROVE  OrdersInv'
      BY <2>1, <2>3 DEF Open, Focus, SelectCurrency, ServeCart, ReceiveCart, FailCart
    <2>4. ASSUME NEW c \in Clients, AddItem(c) \/ EmptyCart(c) \/ PlaceOrder(c)
          PROVE  OrdersInv'
      <3>1. PICK kind \in {"add", "empty", "order"} : Click(c, kind)
        BY <2>4 DEF AddItem, EmptyCart, PlaceOrder
      <3>2. PICK n : n = Len(clicks) + 1
        OBVIOUS
      <3>3. /\ DOMAIN clicks' = DOMAIN clicks \cup {n} /\ n \notin DOMAIN clicks
            /\ clicks'[n].at = "sent" /\ \A j \in DOMAIN clicks : clicks'[j] = clicks[j]
        BY <3>1, <3>2, ClickIsAdded
      <3>4. UNCHANGED <<executed, charged, shipped, out, kept>>
        BY <3>1 DEF Click
      <3>5. ClickInv(n)'
        BY <3>3, <3>4 DEF OrdersInv, ClickInv, OrderInv, ChangeInv
      <3>6. \A j \in DOMAIN clicks : ClickInv(j)'
        BY <3>3, <3>4 DEF OrdersInv, ClickInv, OrderInv, ChangeInv
      <3>7. QED
        BY <3>3, <3>4, <3>5, <3>6 DEF OrdersInv
    <2>5. ASSUME NEW i \in DOMAIN clicks,
                 ServeEmpty(i) \/ ServeAdd(i) \/ ReadCart(i)
          PROVE  OrdersInv'
      <3>1. /\ DOMAIN clicks' = DOMAIN clicks /\ clicks'[i].kind = clicks[i].kind
            /\ \A j \in DOMAIN clicks : j # i => clicks'[j] = clicks[j]
            /\ clicks[i].at = "sent" /\ clicks'[i].at \in {"writing", "read"}
            /\ clicks[i].kind = "order" <=> clicks'[i].at = "read"
        <4>1. CASE ServeEmpty(i)
          BY <2>2, <4>1 DEF ServeEmpty, Goes
        <4>2. CASE ServeAdd(i)
          BY <4>2, ReadingOn DEF ServeAdd
        <4>3. CASE ReadCart(i)
          BY <4>3, ReadingOn DEF ReadCart
        <4>4. QED
          BY <2>5, <4>1, <4>2, <4>3
      <3>2. /\ UNCHANGED <<executed, charged, shipped, kept>> /\ out' \in {out, out \cup {i}}
            /\ clicks[i].kind = "order" => out' = out
        BY <2>5 DEF ServeEmpty, ServeAdd, ReadCart, Sends, Goes, Reads
      <3>3. i \notin executed
        BY <3>1 DEF OrdersInv, ClickInv, OrderInv, ChangeInv
      <3>4. out' \cap executed' = {}
        BY <3>2, <3>3 DEF OrdersInv
      <3>5. ClickInv(i)'
        BY <3>1, <3>2 DEF OrdersInv, ClickInv, OrderInv, ChangeInv
      <3>6. QED
        BY <3>1, <3>2, <3>4, <3>5, StepKeepsOthers
    <2>6. ASSUME NEW i \in DOMAIN clicks, NEW well \in BOOLEAN,
                 \/ Added(i) \/ AnswerAdd(i, well) \/ Emptied(i) \/ LookUp(i, well) \/ Fail(i)
          PROVE  OrdersInv'
      <3>0. UNCHANGED <<executed, charged, shipped, out, kept>>
        BY <2>6 DEF Added, AnswerAdd, Emptied, LookUp, Fail
      <3>1. PICK to \in {"added", "ok", "error"} :
              /\ clicks' = [clicks EXCEPT ![i].at = to]
              /\ to # "error" /\ clicks[i].kind = "order" => clicks[i].at = "placed"
              /\ to # "error" /\ clicks[i].kind # "order" =>
                   clicks[i].at = "added" \/ i \in executed
        BY <2>6 DEF Added, AnswerAdd, Emptied, LookUp, Fail, Goes
      <3>2. /\ clicks'[i].at = to /\ clicks'[i].kind = clicks[i].kind
            /\ DOMAIN clicks' = DOMAIN clicks
            /\ \A j \in DOMAIN clicks : j # i => clicks'[j] = clicks[j]
        BY <2>2, <3>1
      <3>4. ClickInv(i)'
        BY <3>0, <3>1, <3>2 DEF OrdersInv, ClickInv, OrderInv, ChangeInv
      <3>5. QED
        BY <3>0, <3>2, <3>4, StepKeepsOthers DEF OrdersInv
    <2>7. ASSUME NEW i \in DOMAIN clicks, GoOn(i) PROVE OrdersInv'
      <3>1. /\ clicks' = [clicks EXCEPT ![i].at = "placed"] /\ clicks[i].at = "writing"
            /\ clicks[i].kind = "order" /\ kept' = IF i \in executed THEN kept ELSE kept \cup {i}
            /\ UNCHANGED <<executed, charged, shipped, out>>
        BY <2>7 DEF GoOn, Goes
      <3>2. ClickInv(i)'
        BY <2>2, <3>1 DEF OrdersInv, ClickInv, OrderInv
      <3>3. QED
        BY <2>2, <3>1, <3>2, StepKeepsOthers DEF OrdersInv
    <2>8. ASSUME NEW i \in DOMAIN clicks, Charge(i) PROVE OrdersInv'
      <3>1. /\ clicks' = [clicks EXCEPT ![i].at = "charged"] /\ clicks[i].at = "read"
            /\ clicks[i].kind = "order" /\ charged' = charged \cup {i}
            /\ UNCHANGED <<executed, shipped, out, kept>>
        BY <2>8 DEF Charge, Goes
      <3>2. ClickInv(i)'
        BY <2>2, <3>1 DEF OrdersInv, ClickInv, OrderInv
      <3>3. QED
        BY <2>2, <3>1, <3>2, StepKeepsOthers DEF OrdersInv
    <2>9. ASSUME NEW i \in DOMAIN clicks, NEW ships \in BOOLEAN, Ship(i, ships) PROVE OrdersInv'
      <3>1. PICK to \in {"writing", "error"} : clicks' = [clicks EXCEPT ![i].at = to]
                                               /\ (to = "writing" <=> ships)
        BY <2>9 DEF Ship, Goes
      <3>2. /\ clicks[i].at = "charged" /\ clicks[i].kind = "order"
            /\ IF ships THEN shipped' = shipped \cup {i} /\ out' = out \cup {i}
                        ELSE UNCHANGED <<shipped, out>>
            /\ UNCHANGED <<executed, charged, kept>>
        BY <2>9 DEF Ship, Sends, Goes
      <3>3. i \notin executed
        BY <3>2 DEF OrdersInv, ClickInv, OrderInv
      <3>4. ClickInv(i)'
        BY <2>2, <3>1, <3>2 DEF OrdersInv, ClickInv, OrderInv
      <3>5. out' \cap executed' = {}
        BY <3>2, <3>3 DEF OrdersInv
      <3>6. QED
        BY <2>2, <3>1, <3>2, <3>4, <3>5, StepKeepsOthers
    <2>10. ASSUME NEW i \in DOMAIN clicks, Execute(i) PROVE OrdersInv'
      <3>1. /\ i \in out /\ out' = out \ {i} /\ executed' = executed \cup {i}
            /\ UNCHANGED <<clicks, charged, shipped, kept>>
        BY <2>10 DEF Execute
      <3>2. ClickInv(i)'
        BY <3>1 DEF OrdersInv, ClickInv, OrderInv, ChangeInv
      <3>3. out' \cap executed' = {}
        BY <3>1 DEF OrdersInv
      <3>4. QED
        BY <3>1, <3>2, <3>3, StepKeepsOthers
    <2>11. ASSUME NEW i \in DOMAIN clicks, ReceiveGood(i) \/ ReceiveError(i) PROVE OrdersInv'
      <3>1. PICK to \in {"told", "refused"} :
               /\ clicks' = [clicks EXCEPT ![i].at = to]
               /\ to = "told" => clicks[i].at = "ok"
        BY <2>11 DEF ReceiveGood, ReceiveError, Good
      <3>2. UNCHANGED <<executed, charged, shipped, out, kept>>
        BY <2>11 DEF ReceiveGood, ReceiveError
      <3>3. /\ clicks'[i].at = to /\ clicks'[i].kind = clicks[i].kind
            /\ DOMAIN clicks' = DOMAIN clicks
            /\ \A j \in DOMAIN clicks : j # i => clicks'[j] = clicks[j]
        BY <2>2, <3>1
      <3>4. ClickInv(i)'
        BY <3>1, <3>2, <3>3 DEF OrdersInv, ClickInv, OrderInv, ChangeInv
      <3>5. QED
        BY <3>2, <3>3, <3>4, StepKeepsOthers DEF OrdersInv
    <2>12. ASSUME NEW u \in Users, Lapse(u) PROVE OrdersInv'
      BY <2>1, <2>12 DEF Lapse
    <2>13. CASE UNCHANGED storeVars
      BY <2>1, <2>13 DEF storeVars
    <2>14. QED
      BY <2>3, <2>4, <2>5, <2>6, <2>7, <2>8, <2>9, <2>10, <2>11, <2>12, <2>13,
         StorefrontAssumption DEF StoreNext
  <1>3. QED
    BY <1>1, <1>2, StorefrontTypeCorrect, PTL DEF StoreSpec

\* "Your order is complete!" is true, whatever fails and whoever clicks how often: an
\* order that its user was told of was charged and shipped.
THEOREM ToldIsOrdered == StoreSpec => []ConfirmedIsOrdered
  <1>1. OrdersInv => ConfirmedIsOrdered
    BY DEF OrdersInv, ClickInv, OrderInv, ConfirmedIsOrdered
  <1>2. QED
    BY <1>1, OrdersInvariant, PTL

\* A step that is none of an order: it neither changes an effect nor tells of one.
LEMMA NothingTookPlace ==
  ASSUME OrdersInv, UNCHANGED <<charged, shipped>>, DOMAIN clicks \subseteq DOMAIN clicks',
         executed \subseteq executed',
         \A i \in executed' \ executed : clicks'[i].kind # "order",
         \A i \in DOMAIN clicks : clicks'[i].kind = clicks[i].kind,
         \A i \in Clicks : Told(i)' <=> Told(i)
  PROVE  Orders!vars' = Orders!vars
  <1>1. ASSUME NEW i, NEW e PROVE TookPlace(i, e)' <=> TookPlace(i, e)
    BY DEF TookPlace, OrdersInv
  <1>2. OrderTimes' = OrderTimes
    BY <1>1 DEF OrderTimes, Clicks
  <1>3. OrderAnswers' = OrderAnswers
    BY DEF OrderAnswers, Clicks
  <1>4. QED
    BY <1>2, <1>3 DEF Orders!vars

\* A step that is the effect e of order i, for the first time and after those it needs.
LEMMA EffectTakesPlace ==
  ASSUME NEW i \in Clicks, NEW e \in {"charge", "ship", "empty"},
         ~TookPlace(i, e), TookPlace(i, e)',
         \A j \in Clicks, f \in Orders!Effects :
            j # i \/ f # e => (TookPlace(j, f)' <=> TookPlace(j, f)),
         e # "charge" => TookPlace(i, "charge"),
         e = "empty" => TookPlace(i, "ship"),
         \A j \in Clicks : Told(j)' <=> Told(j)
  PROVE  Orders!Next
  <1> DEFINE T == OrderTimes
  <1>1. /\ T = [j \in Clicks |-> [f \in Orders!Effects |-> IF TookPlace(j, f) THEN 1 ELSE 0]]
        /\ e \in Orders!Effects
    BY DEF OrderTimes, Orders!Effects
  <1>2. T' = [j \in Clicks |-> [f \in Orders!Effects |-> IF TookPlace(j, f)' THEN 1 ELSE 0]]
    BY DEF OrderTimes, Orders!Effects, Clicks
  <1>3. T' = [T EXCEPT ![i][e] = @ + 1]
    <2>1. T[i][e] = 0 /\ T'[i][e] = 1
      BY <1>1, <1>2
    <2>2. \A j \in Clicks, f \in Orders!Effects :
             T'[j][f] = IF j = i /\ f = e THEN T[j][f] + 1 ELSE T[j][f]
      BY <1>1, <1>2, <2>1
    <2>3. /\ T \in [Clicks -> [Orders!Effects -> {0, 1}]]
          /\ T' \in [Clicks -> [Orders!Effects -> {0, 1}]]
      BY <1>1, <1>2
    <2> HIDE DEF T
    <2>4. ASSUME NEW j \in Clicks PROVE T'[j] = IF j = i THEN [T[i] EXCEPT ![e] = @ + 1] ELSE T[j]
      <3>1. CASE j = i
        <4>1. \A f \in Orders!Effects : T'[i][f] = [T[i] EXCEPT ![e] = @ + 1][f]
          BY <1>1, <2>2, <2>3
        <4>2. T'[i] \in [Orders!Effects -> {0, 1}] /\ T[i] \in [Orders!Effects -> {0, 1}]
          BY <2>3
        <4>3. QED
          BY <3>1, <4>1, <4>2
      <3>2. CASE j # i
        <4>1. \A f \in Orders!Effects : T'[j][f] = T[j][f]
          BY <2>2, <3>2
        <4>2. T'[j] \in [Orders!Effects -> {0, 1}] /\ T[j] \in [Orders!Effects -> {0, 1}]
          BY <2>3
        <4>3. QED
          BY <3>2, <4>1, <4>2
      <3>3. QED
        BY <3>1, <3>2
    <2>5. QED
      BY <2>3, <2>4
  <1>4. T[i][e] = 0
    BY <1>1
  <1>5. \A f \in Orders!Before(e) : T[i][f] > 0
    <2>1. \A f \in Orders!Before(e) : f \in Orders!Effects /\ TookPlace(i, f)
      BY DEF Orders!Before, Orders!Effects
    <2>2. QED
      BY <1>1, <2>1
  <1>6. OrderAnswers' = OrderAnswers
    BY DEF OrderAnswers, Clicks
  <1>7. Orders!Perform(i, e)
    BY <1>3, <1>4, <1>5, <1>6 DEF Orders!Perform
  <1>8. QED
    BY <1>1, <1>7 DEF Orders!Next

\* The storefront keeps the promise of OrderEffects to the user: each step is one effect
\* of an order, for the first time and after those it depends on, or tells a user of
\* effects that have taken place, or is no step of an order at all.
THEOREM StorefrontKeepsPromise == StoreSpec => ImplementsOrderEffects
  <1>1. StoreInit => Orders!Init
    BY DEF StoreInit, Orders!Init, OrderTimes, OrderAnswers, TookPlace, Told, Orders!Effects
  <1>2. StorefrontTypeOK /\ OrdersInv /\ [StoreNext]_storeVars => [Orders!Next]_(Orders!vars)
    <2> SUFFICES ASSUME StorefrontTypeOK, OrdersInv, [StoreNext]_storeVars
                 PROVE  [Orders!Next]_(Orders!vars)
      OBVIOUS
    <2> USE DEF browser, shop, store
    <2>0. /\ clicks \in Seq(ClickType) /\ DOMAIN clicks \subseteq Clicks
          /\ \A i \in DOMAIN clicks : clicks[i] \in ClickType
      <3>1. clicks \in Seq(ClickType) /\ Len(clicks) <= acts /\ acts \in Nat /\ acts <= MaxActs
        BY StorefrontAssumption DEF StorefrontTypeOK
      <3>2. Len(clicks) \in Nat /\ DOMAIN clicks = 1..Len(clicks)
        BY <3>1, LenProperties
      <3>3. QED
        BY <3>1, <3>2, StorefrontAssumption, ElementOfSeq DEF Clicks
    <2>1. ASSUME UNCHANGED <<clicks, executed, charged, shipped>> PROVE Orders!vars' = Orders!vars
      BY <2>1, NothingTookPlace DEF Told
    <2>2. ASSUME NEW i \in DOMAIN clicks,
                 NEW to \in {"added", "read", "charged", "writing", "placed", "ok", "error",
                             "refused"},
                 clicks' = [clicks EXCEPT ![i].at = to],
                 clicks[i].at # "told"
          PROVE  /\ DOMAIN clicks' = DOMAIN clicks
                 /\ \A j \in DOMAIN clicks : clicks'[j].kind = clicks[j].kind
                 /\ \A j \in Clicks : Told(j)' <=> Told(j)
      <3>1. /\ DOMAIN clicks' = DOMAIN clicks
            /\ clicks'[i].kind = clicks[i].kind /\ clicks'[i].at = to
            /\ \A j \in DOMAIN clicks : j # i => clicks'[j] = clicks[j]
        BY <2>0, <2>2, ClickGoesOn, ZenonT(60) DEF ClickType
      <3>2. QED
        BY <2>2, <3>1 DEF Told
    <2>3. ASSUME NEW c \in Clients, NEW k \in Currencies,
                 Open(c) \/ Focus(c) \/ SelectCurrency(c, k) \/ ServeCart(c, k)
                   \/ ReceiveCart(c, k) \/ FailCart(c, k)
          PROVE  Orders!vars' = Orders!vars
      BY <2>1, <2>3 DEF Open, Focus, SelectCurrency, ServeCart, ReceiveCart, FailCart
    <2>4. ASSUME NEW c \in Clients, AddItem(c) \/ EmptyCart(c) \/ PlaceOrder(c)
          PROVE  Orders!vars' = Orders!vars
      <3>1. PICK kind \in {"add", "empty", "order"} : Click(c, kind)
        BY <2>4 DEF AddItem, EmptyCart, PlaceOrder
      <3>2. UNCHANGED <<executed, charged, shipped>>
        BY <3>1 DEF Click
      <3>3. \A i \in Clicks : Told(i)' <=> Told(i)
        BY <3>1, ClickIsAdded DEF Told
      <3>4. QED
        BY <3>1, <3>2, <3>3, ClickIsAdded, NothingTookPlace
    <2>5. ASSUME NEW i \in DOMAIN clicks, NEW well \in BOOLEAN,
                 \/ Added(i) \/ AnswerAdd(i, well) \/ ServeEmpty(i) \/ Emptied(i)
                 \/ GoOn(i) \/ LookUp(i, well) \/ Fail(i) \/ ReceiveError(i)
          PROVE  Orders!vars' = Orders!vars
      <3>1. PICK to \in {"added", "writing", "placed", "ok", "error", "refused"} :
               clicks' = [clicks EXCEPT ![i].at = to]
        BY <2>5 DEF Added, AnswerAdd, ServeEmpty, Emptied, GoOn, LookUp, Fail, Goes, ReceiveError
      <3>2. clicks[i].at # "told" /\ UNCHANGED <<executed, charged, shipped>>
        BY <2>5 DEF Added, AnswerAdd, ServeEmpty, Emptied, GoOn, LookUp, Fail, Goes, ReceiveError,
                    Sends
      <3>3. QED
        BY <2>2, <3>1, <3>2, NothingTookPlace
    <2>6. ASSUME NEW u \in Users, Lapse(u) PROVE Orders!vars' = Orders!vars
      BY <2>1, <2>6 DEF Lapse
    <2>7. ASSUME NEW i \in DOMAIN clicks, ServeAdd(i) \/ ReadCart(i)
          PROVE  Orders!vars' = Orders!vars
      <3>1. /\ DOMAIN clicks' = DOMAIN clicks /\ clicks[i].at = "sent"
            /\ clicks'[i].at \in {"writing", "read"}
            /\ \A j \in DOMAIN clicks : /\ clicks'[j].kind = clicks[j].kind
                                        /\ j # i => clicks'[j] = clicks[j]
        BY <2>7, ReadingOn DEF ServeAdd, ReadCart
      <3>2. UNCHANGED <<executed, charged, shipped>>
        BY <2>7 DEF ServeAdd, ReadCart, Sends
      <3>3. \A j \in Clicks : Told(j)' <=> Told(j)
        BY <3>1 DEF Told
      <3>4. QED
        BY <3>1, <3>2, <3>3, NothingTookPlace
    <2>8. ASSUME NEW i \in DOMAIN clicks, Charge(i) PROVE Orders!Next
      <3>1. /\ clicks' = [clicks EXCEPT ![i].at = "charged"] /\ clicks[i].at = "read"
            /\ clicks[i].kind = "order" /\ charged' = charged \cup {i}
            /\ UNCHANGED <<executed, shipped>> /\ i \notin charged
        BY <2>8 DEF Charge, Goes, OrdersInv, ClickInv, OrderInv
      <3>2. \A j \in executed : clicks'[j].kind = clicks[j].kind
        BY <2>2, <3>1 DEF OrdersInv
      <3>3. /\ ~TookPlace(i, "charge") /\ TookPlace(i, "charge")'
            /\ \A j \in Clicks, f \in Orders!Effects :
                 j # i \/ f # "charge" => (TookPlace(j, f)' <=> TookPlace(j, f))
        BY <3>1, <3>2 DEF TookPlace
      <3>4. i \in Clicks /\ \A j \in Clicks : Told(j)' <=> Told(j)
        BY <2>0, <2>2, <3>1
      <3>5. QED
        BY <3>3, <3>4, EffectTakesPlace
    <2>9. ASSUME NEW i \in DOMAIN clicks, NEW ships \in BOOLEAN, Ship(i, ships)
          PROVE  Orders!Next \/ Orders!vars' = Orders!vars
      <3>1. PICK to \in {"writing", "error"} : clicks' = [clicks EXCEPT ![i].at = to]
        BY <2>9 DEF Ship, Goes
      <3>2. /\ clicks[i].at = "charged" /\ clicks[i].kind = "order" /\ i \in charged
            /\ i \notin shipped /\ UNCHANGED <<executed, charged>>
            /\ shipped' = IF ships THEN shipped \cup {i} ELSE shipped
        BY <2>9 DEF Ship, Sends, Goes, OrdersInv, ClickInv, OrderInv
      <3>3. \A j \in executed : clicks'[j].kind = clicks[j].kind
        BY <2>2, <3>1, <3>2 DEF OrdersInv
      <3>4. CASE ships
        <4>1. /\ ~TookPlace(i, "ship") /\ TookPlace(i, "ship")' /\ TookPlace(i, "charge")
              /\ \A j \in Clicks, f \in Orders!Effects :
                   j # i \/ f # "ship" => (TookPlace(j, f)' <=> TookPlace(j, f))
          BY <3>2, <3>3, <3>4 DEF TookPlace
        <4>2. i \in Clicks /\ \A j \in Clicks : Told(j)' <=> Told(j)
          BY <2>0, <2>2, <3>1, <3>2
        <4>3. QED
          BY <4>1, <4>2, EffectTakesPlace
      <3>5. CASE ~ships
        BY <2>2, <3>1, <3>2, <3>5, NothingTookPlace
      <3>6. QED
        BY <3>4, <3>5
    <2>10. ASSUME NEW i \in DOMAIN clicks, Execute(i)
           PROVE  Orders!Next \/ Orders!vars' = Orders!vars
      <3>1. /\ i \in out /\ executed' = executed \cup {i}
            /\ UNCHANGED <<clicks, charged, shipped>> /\ i \notin executed
        BY <2>10 DEF Execute, OrdersInv
      <3>2. \A j \in Clicks : Told(j)' <=> Told(j)
        BY <3>1 DEF Told
      <3>3. CASE clicks[i].kind = "order"
        <4>1. i \in charged /\ i \in shipped
          BY <3>1, <3>3 DEF OrdersInv, ClickInv, OrderInv
        <4>2. /\ ~TookPlace(i, "empty") /\ TookPlace(i, "empty")'
              /\ TookPlace(i, "charge") /\ TookPlace(i, "ship")
              /\ \A j \in Clicks, f \in Orders!Effects :
                   j # i \/ f # "empty" => (TookPlace(j, f)' <=> TookPlace(j, f))
          BY <3>1, <3>3, <4>1 DEF TookPlace
        <4>3. i \in Clicks
          BY <2>0
        <4>4. QED
          BY <3>2, <4>2, <4>3, EffectTakesPlace
      <3>4. CASE clicks[i].kind # "order"
        BY <3>1, <3>2, <3>4, NothingTookPlace
      <3>5. QED
        BY <3>3, <3>4
    <2>11. ASSUME NEW i \in DOMAIN clicks, ReceiveGood(i)
           PROVE  Orders!Next \/ Orders!vars' = Orders!vars
      <3>1. /\ clicks' = [clicks EXCEPT ![i].at = "told"] /\ clicks[i].at = "ok"
            /\ UNCHANGED <<executed, charged, shipped>>
        BY <2>11 DEF ReceiveGood, Good
      <3>2. /\ DOMAIN clicks' = DOMAIN clicks
            /\ clicks'[i].kind = clicks[i].kind /\ clicks'[i].at = "told"
            /\ \A j \in DOMAIN clicks : j # i => clicks'[j] = clicks[j]
        <4>1. /\ DOMAIN clicks' = DOMAIN clicks /\ clicks'[i] = [clicks[i] EXCEPT !.at = "told"]
              /\ \A j \in DOMAIN clicks : j # i => clicks'[j] = clicks[j]
          BY <2>0, <3>1, ClickGoesOn
        <4>2. QED
          BY <2>0, <4>1 DEF ClickType
      <3>3. CASE clicks[i].kind # "order"
        <4>1. \A j \in Clicks : Told(j)' <=> Told(j)
          BY <3>1, <3>2, <3>3 DEF Told
        <4>2. QED
          BY <3>1, <3>2, <4>1, NothingTookPlace
      <3>4. CASE clicks[i].kind = "order"
        <4>1. i \in charged /\ i \in shipped
          BY <3>1, <3>4 DEF OrdersInv, ClickInv, OrderInv
        <4>2. ~Told(i) /\ Told(i)' /\ \A j \in Clicks : j # i => (Told(j)' <=> Told(j))
          BY <3>1, <3>2, <3>4 DEF Told
        <4>3. OrderTimes' = OrderTimes
          <5>1. \A j, e : TookPlace(j, e)' <=> TookPlace(j, e)
            BY <3>1, <3>2 DEF TookPlace, OrdersInv
          <5>2. QED
            BY <5>1 DEF OrderTimes, Clicks
        <4>4. OrderAnswers' = [OrderAnswers EXCEPT ![i] = "ok"] /\ OrderAnswers[i] = "none"
          BY <2>0, <4>2 DEF OrderAnswers, Clicks
        <4>5. \A e \in Orders!Implied("ok") : OrderTimes[i][e] > 0
          BY <2>0, <4>1 DEF Orders!Implied, OrderTimes, TookPlace
        <4>6. Orders!Answer(i, "ok") /\ "ok" \in Orders!Answers
          BY <4>3, <4>4, <4>5 DEF Orders!Answer, Orders!Answers
        <4>7. QED
          BY <2>0, <4>6 DEF Orders!Next
      <3>5. QED
        BY <3>3, <3>4
    <2>12. CASE UNCHANGED storeVars
      BY <2>1, <2>12 DEF storeVars
    <2>13. QED
      BY <2>3, <2>4, <2>5, <2>6, <2>7, <2>8, <2>9, <2>10, <2>11, <2>12,
         StorefrontAssumption DEF StoreNext
  <1>3. QED
    BY <1>1, <1>2, StorefrontTypeCorrect, OrdersInvariant, PTL
    DEF StoreSpec, ImplementsOrderEffects, Orders!Spec

-----------------------------------------------------------------------------
(* Nothing is ordered twice. *)

\* Carts, and what clicks read of them, hold what their own users' clicks have added.
CartsAreOwn ==
  /\ \A u \in Users : \A x \in cart[u] : x \in executed /\ x \in DOMAIN clicks /\ UserBy(x) = u
  /\ \A i \in DOMAIN clicks : \A x \in clicks[i].saw :
       x \in executed /\ x \in DOMAIN clicks /\ UserBy(x) = UserBy(i)

\* A user who is patient has one click under way at most: those before it were told.
OneAtATime ==
  /\ \A i \in DOMAIN clicks : clicks[i].by \in open
  /\ \A i, j \in DOMAIN clicks :
       i < j /\ UserBy(i) = UserBy(j) /\ UserBy(i) \notin hasty => clicks[i].at = "told"

\* What a patient user has ordered is gone from his cart, and from what his later clicks
\* have read of it.
TakenOut ==
  /\ \A i \in executed \ kept : clicks[i].kind = "order" /\ UserBy(i) \notin hasty
       => clicks[i].saw \cap cart[UserBy(i)] = {}
  /\ \A i, j \in DOMAIN clicks :
       i < j /\ i \in executed \ kept /\ clicks[i].kind = "order" /\ UserBy(i) \notin hasty
         => clicks[i].saw \cap clicks[j].saw = {}

\* Who was refused a click is not patient any more.
NeverRefused == \A i \in DOMAIN clicks : clicks[i].at = "refused" => UserBy(i) \in hasty

OnceInv == CartsAreOwn /\ OneAtATime /\ TakenOut

\* Clients that open and users that lose patience change nothing else.
LEMMA ImpatienceKeepsOnce ==
  ASSUME OnceInv, OrdersInv, UNCHANGED <<clicks, executed, cart, kept>>,
         open \subseteq open', hasty \subseteq hasty'
  PROVE  OnceInv'
  BY DEF OnceInv, CartsAreOwn, OneAtATime, TakenOut, UserBy, OrdersInv

\* A click goes on that was not told yet: what it is and what it saw stay, and with
\* them the owners of all clicks.
LEMMA GoingOn ==
  ASSUME clicks \in Seq(ClickType), NEW i \in DOMAIN clicks,
         NEW to \in {"added", "read", "charged", "writing", "placed", "ok", "error", "told",
                     "refused"},
         clicks' = [clicks EXCEPT ![i].at = to]
  PROVE  /\ DOMAIN clicks' = DOMAIN clicks
         /\ clicks'[i].at = to
         /\ \A j \in DOMAIN clicks : /\ clicks'[j].kind = clicks[j].kind
                                     /\ clicks'[j].by = clicks[j].by
                                     /\ clicks'[j].saw = clicks[j].saw
                                     /\ clicks'[j].shown = clicks[j].shown
                                     /\ UserBy(j)' = UserBy(j)
                                     /\ j # i => clicks'[j].at = clicks[j].at
  <1>1. clicks[i] \in ClickType
    BY LenProperties, ElementOfSeq
  <1>2. /\ DOMAIN clicks' = DOMAIN clicks
        /\ clicks'[i] = [clicks[i] EXCEPT !.at = to]
        /\ \A j \in DOMAIN clicks : j # i => clicks'[j] = clicks[j]
    BY ClickGoesOn
  <1>3. /\ clicks'[i].kind = clicks[i].kind /\ clicks'[i].by = clicks[i].by
        /\ clicks'[i].saw = clicks[i].saw /\ clicks'[i].at = to
        /\ clicks'[i].shown = clicks[i].shown
    BY <1>1, <1>2 DEF ClickType
  <1>4. QED
    BY <1>2, <1>3 DEF UserBy

\* ... and executes nothing.
LEMMA GoingOnKeepsOnce ==
  ASSUME StorefrontTypeOK, OrdersInv, OnceInv, NEW i \in DOMAIN clicks,
         NEW to \in {"added", "read", "charged", "writing", "placed", "ok", "error", "told",
                     "refused"},
         clicks' = [clicks EXCEPT ![i].at = to], clicks[i].at # "told",
         UNCHANGED <<executed, cart, open>>, hasty \subseteq hasty', kept \subseteq kept'
  PROVE  OnceInv'
  <1>1. clicks \in Seq(ClickType)
    BY DEF StorefrontTypeOK
  <1>2. /\ DOMAIN clicks' = DOMAIN clicks
        /\ clicks'[i].at = to
        /\ \A j \in DOMAIN clicks : /\ clicks'[j].kind = clicks[j].kind
                                    /\ clicks'[j].by = clicks[j].by
                                    /\ clicks'[j].saw = clicks[j].saw
                                    /\ UserBy(j)' = UserBy(j)
                                    /\ j # i => clicks'[j].at = clicks[j].at
    BY <1>1, GoingOn
  <1>3. CartsAreOwn'
    BY <1>2 DEF OnceInv, CartsAreOwn
  <1>4. OneAtATime'
    BY <1>2 DEF OnceInv, OneAtATime
  <1>5. TakenOut'
    BY <1>2 DEF OnceInv, TakenOut, OrdersInv
  <1>6. QED
    BY <1>3, <1>4, <1>5 DEF OnceInv

\* The users of clicks are users.
LEMMA ClicksHaveUsers ==
  ASSUME StorefrontTypeOK, NEW i \in DOMAIN clicks
  PROVE  clicks[i] \in ClickType /\ UserBy(i) \in Users
  <1>1. clicks[i] \in ClickType
    BY LenProperties, ElementOfSeq DEF StorefrontTypeOK
  <1>2. QED
    BY <1>1, StorefrontAssumption DEF ClickType, UserBy

\* Who was told of a click has no write of it to come, unless it is an order that ended
\* with its cart not emptied.
LEMMA ToldIsExecuted ==
  ASSUME OrdersInv, NEW i \in out, i \in DOMAIN clicks, clicks[i].at = "told"
  PROVE  i \in kept /\ clicks[i].kind = "order"
  BY DEF OrdersInv, ClickInv, OrderInv, ChangeInv

\* A write of a cart is executed: of an order, the user's last click unless it has ended
\* with the cart not emptied, or of an addition that has read what the orders before it
\* have left.
LEMMA ExecutionKeepsOnce ==
  ASSUME StorefrontTypeOK, OrdersInv, OnceInv, NEW i \in DOMAIN clicks, Execute(i)
  PROVE  OnceInv'
  <1> USE DEF browser, shop, store
  <1>1. /\ i \in out /\ i \notin executed /\ executed' = executed \cup {i}
        /\ cart' = [cart EXCEPT ![UserBy(i)] = Writes(i)]
        /\ UNCHANGED <<clicks, open, hasty, kept>>
    BY DEF Execute, OrdersInv
  <1>2. cart \in [Users -> SUBSET Clicks] /\ \A j \in DOMAIN clicks : UserBy(j) \in Users
    BY ClicksHaveUsers DEF StorefrontTypeOK
  <1>3. /\ cart'[UserBy(i)] = Writes(i)
        /\ \A u \in Users : u # UserBy(i) => cart'[u] = cart[u]
        /\ \A j \in DOMAIN clicks : UserBy(j)' = UserBy(j)
    BY <1>1, <1>2 DEF UserBy
  <1>4. /\ clicks[i].kind = "add" => Writes(i) = clicks[i].saw \cup {i}
        /\ clicks[i].kind # "add" => Writes(i) = {}
    BY DEF Writes
  <1>5. \A j \in DOMAIN clicks : i \notin clicks[j].saw
    BY <1>1 DEF OnceInv, CartsAreOwn
  <1>6. ASSUME NEW j \in DOMAIN clicks, UserBy(j) # UserBy(i)
        PROVE  clicks[i].saw \cap clicks[j].saw = {}
    <2>1. /\ \A x \in clicks[i].saw : UserBy(x) = UserBy(i)
          /\ \A x \in clicks[j].saw : UserBy(x) = UserBy(j)
      BY DEF OnceInv, CartsAreOwn
    <2>2. QED
      BY <1>6, <2>1
  <1>7. CartsAreOwn'
    <2>1. ASSUME NEW u \in Users, NEW x \in cart'[u]
          PROVE  x \in executed' /\ x \in DOMAIN clicks /\ UserBy(x) = u
      <3>1. CASE u # UserBy(i)
        BY <1>1, <1>3, <2>1, <3>1 DEF OnceInv, CartsAreOwn
      <3>2. CASE u = UserBy(i)
        <4>1. x \in clicks[i].saw \/ x = i
          BY <1>3, <1>4, <2>1, <3>2
        <4>2. QED
          BY <1>1, <3>2, <4>1 DEF OnceInv, CartsAreOwn
      <3>3. QED
        BY <3>1, <3>2
    <2>2. QED
      BY <1>1, <1>3, <2>1 DEF OnceInv, CartsAreOwn
  <1>8. OneAtATime'
    BY <1>1, <1>3 DEF OnceInv, OneAtATime
  <1>9. ASSUME NEW j \in executed' \ kept, clicks[j].kind = "order", UserBy(j) \notin hasty
        PROVE  clicks[j].saw \cap cart'[UserBy(j)] = {}
    <2>1. j \in DOMAIN clicks
      BY <1>1, <1>9 DEF OrdersInv
    <2>2. CASE j = i
      BY <1>3, <1>4, <1>9, <2>2
    <2>3. CASE j # i /\ UserBy(j) # UserBy(i)
      BY <1>1, <1>2, <1>3, <1>9, <2>1, <2>3 DEF OnceInv, TakenOut
    <2>4. CASE j # i /\ UserBy(j) = UserBy(i) /\ clicks[i].kind = "add"
      <3>1. ~(i < j)
        BY <1>1, <1>9, <2>1, <2>4, ToldIsExecuted DEF OnceInv, OneAtATime
      <3>2. i \in Nat /\ j \in Nat
        BY <2>1, LenProperties DEF StorefrontTypeOK
      <3>3. clicks[j].saw \cap clicks[i].saw = {}
        BY <1>1, <1>9, <2>1, <2>4, <3>1, <3>2 DEF OnceInv, TakenOut
      <3>4. QED
        BY <1>3, <1>4, <1>5, <2>1, <2>4, <3>3
    <2>5. CASE j # i /\ UserBy(j) = UserBy(i) /\ clicks[i].kind # "add"
      BY <1>3, <1>4, <2>5
    <2>6. QED
      BY <2>2, <2>3, <2>4, <2>5
  <1>10. ASSUME NEW j \in DOMAIN clicks, NEW k \in DOMAIN clicks, j < k, j \in executed' \ kept,
                clicks[j].kind = "order", UserBy(j) \notin hasty
         PROVE  clicks[j].saw \cap clicks[k].saw = {}
    <2>1. CASE j # i
      BY <1>1, <1>10, <2>1 DEF OnceInv, TakenOut
    <2>2. CASE j = i
      <3>1. UserBy(k) # UserBy(i)
        BY <1>1, <1>10, <2>2, ToldIsExecuted DEF OnceInv, OneAtATime
      <3>2. QED
        BY <1>6, <2>2, <3>1
    <2>3. QED
      BY <2>1, <2>2
  <1>11. TakenOut'
    BY <1>1, <1>3, <1>9, <1>10 DEF TakenOut, OrdersInv
  <1>12. QED
    BY <1>7, <1>8, <1>11 DEF OnceInv

\* A cart lapses.
LEMMA LapseKeepsOnce ==
  ASSUME StorefrontTypeOK, OrdersInv, OnceInv, NEW u \in Users, Lapse(u)
  PROVE  OnceInv'
  <1>1. /\ cart' = [cart EXCEPT ![u] = {}]
        /\ UNCHANGED <<clicks, executed, kept, open, hasty>>
    BY DEF Lapse, browser
  <1>2. \A v \in Users : cart'[v] \subseteq cart[v]
    BY <1>1 DEF StorefrontTypeOK
  <1>3. \A i \in DOMAIN clicks : UserBy(i) \in Users /\ UserBy(i)' = UserBy(i)
    BY <1>1, ClicksHaveUsers DEF UserBy
  <1>4. CartsAreOwn'
    BY <1>1, <1>2, <1>3 DEF OnceInv, CartsAreOwn
  <1>5. OneAtATime'
    BY <1>1, <1>3 DEF OnceInv, OneAtATime
  <1>6. ASSUME NEW i \in executed \ kept, clicks[i].kind = "order", UserBy(i) \notin hasty
        PROVE  clicks[i].saw \cap cart'[UserBy(i)] = {}
    <2>1. i \in DOMAIN clicks /\ clicks[i].saw \cap cart[UserBy(i)] = {}
      BY <1>6 DEF OrdersInv, OnceInv, TakenOut
    <2>2. QED
      BY <1>2, <1>3, <2>1
  <1>7. TakenOut'
    BY <1>1, <1>3, <1>6 DEF OnceInv, TakenOut, OrdersInv
  <1>8. QED
    BY <1>4, <1>5, <1>7 DEF OnceInv

\* A click gets its user's cart.
LEMMA ReadingKeepsOnce ==
  ASSUME StorefrontTypeOK, OrdersInv, OnceInv, NEW i \in DOMAIN clicks, NEW kind,
         NEW to \in {"writing", "read"}, Reads(i, kind, to),
         UNCHANGED <<executed, cart, kept, open, hasty>>
  PROVE  OnceInv'
  <1>1. /\ DOMAIN clicks' = DOMAIN clicks
        /\ clicks[i].at = "sent" /\ clicks'[i].at = to /\ clicks'[i].saw = cart[UserBy(i)]
        /\ \A j \in DOMAIN clicks : /\ clicks'[j].kind = clicks[j].kind
                                    /\ clicks'[j].by = clicks[j].by
                                    /\ UserBy(j)' = UserBy(j)
                                    /\ j # i => clicks'[j] = clicks[j]
    BY ReadingOn
  <1>2. \A j \in DOMAIN clicks : UserBy(j) \in Users
    BY ClicksHaveUsers
  <1>3. CartsAreOwn'
    <2>1. ASSUME NEW j \in DOMAIN clicks, NEW x \in clicks'[j].saw
          PROVE  x \in executed /\ x \in DOMAIN clicks /\ UserBy(x) = UserBy(j)
      <3>1. CASE j = i
        BY <1>1, <1>2, <2>1, <3>1 DEF OnceInv, CartsAreOwn
      <3>2. CASE j # i
        BY <1>1, <2>1, <3>2 DEF OnceInv, CartsAreOwn
      <3>3. QED
        BY <3>1, <3>2
    <2>2. QED
      BY <1>1, <2>1 DEF OnceInv, CartsAreOwn
  <1>4. OneAtATime'
    BY <1>1 DEF OnceInv, OneAtATime
  <1>5. i \notin executed
    BY <1>1 DEF OrdersInv, ClickInv, OrderInv, ChangeInv
  <1>6. ASSUME NEW j \in executed \ kept, clicks[j].kind = "order", UserBy(j) \notin hasty
        PROVE  clicks'[j].saw \cap cart[UserBy(j)] = {}
    BY <1>1, <1>5, <1>6 DEF OnceInv, TakenOut, OrdersInv
  <1>7. ASSUME NEW j \in DOMAIN clicks, NEW k \in DOMAIN clicks, j < k, j \in executed \ kept,
               clicks[j].kind = "order", UserBy(j) \notin hasty
        PROVE  clicks'[j].saw \cap clicks'[k].saw = {}
    <2>1. j # i /\ clicks'[j] = clicks[j]
      BY <1>1, <1>5, <1>7
    <2>2. CASE k # i
      BY <1>1, <1>7, <2>1, <2>2 DEF OnceInv, TakenOut
    <2>3. CASE k = i /\ UserBy(j) = UserBy(i)
      BY <1>1, <1>7, <2>1, <2>3 DEF OnceInv, TakenOut
    <2>4. CASE k = i /\ UserBy(j) # UserBy(i)
      <3>1. /\ \A x \in clicks[j].saw : UserBy(x) = UserBy(j)
            /\ \A x \in cart[UserBy(i)] : UserBy(x) = UserBy(i)
        BY <1>2 DEF OnceInv, CartsAreOwn
      <3>2. QED
        BY <1>1, <2>1, <2>4, <3>1
    <2>5. QED
      BY <2>2, <2>3, <2>4
  <1>8. TakenOut'
    BY <1>1, <1>6, <1>7 DEF TakenOut, OrdersInv
  <1>9. QED
    BY <1>3, <1>4, <1>8 DEF OnceInv

\* A user clicks.  He is patient only if he has no other client open and all his
\* clicks were told or refused, and none was refused to a patient user.
LEMMA ClickKeepsOnce ==
  ASSUME StorefrontTypeOK, OrdersInv, OnceInv, NeverRefused,
         NEW c \in Clients, NEW kind \in {"add", "empty", "order"}, Click(c, kind)
  PROVE  OnceInv'
  <1> USE DEF browser, shop, store
  <1>0. clicks \in Seq(ClickType) /\ Len(clicks) \in Nat /\ DOMAIN clicks = 1..Len(clicks)
    BY LenProperties DEF StorefrontTypeOK
  <1>n. PICK n \in Nat : n = Len(clicks) + 1
    BY <1>0
  <1>1. /\ DOMAIN clicks' = DOMAIN clicks \cup {n} /\ n \notin DOMAIN clicks
        /\ clicks'[n].at = "sent"
        /\ \A j \in DOMAIN clicks : clicks'[j] = clicks[j] /\ UserBy(j)' = UserBy(j) /\ j < n
    <2>1. /\ DOMAIN clicks' = DOMAIN clicks \cup {n} /\ n \notin DOMAIN clicks
          /\ clicks'[n].at = "sent"
          /\ \A j \in DOMAIN clicks : clicks'[j] = clicks[j]
      BY <1>n, ClickIsAdded
    <2>2. \A j \in DOMAIN clicks : j < n
      BY <1>0, <1>n
    <2>3. QED
      BY <2>1, <2>2 DEF UserBy
  <1>2. clicks'[n].by = c /\ clicks'[n].saw = {} /\ UserBy(n)' = UserOf[c]
    <2> DEFINE e == [by |-> c, kind |-> kind, at |-> "sent", shown |-> Shown(c), saw |-> {}]
    <2>1. clicks' = Append(clicks, e)
      BY DEF Click
    <2>2. clicks'[n] = e
      <3> HIDE DEF e
      <3>1. QED
        BY <1>0, <1>n, <2>1
    <2>3. QED
      BY <2>2 DEF UserBy
  <1>3. /\ UNCHANGED <<executed, cart, open, kept>> /\ c \in open
        /\ hasty' = IF Idle(c) /\ Alone(c) THEN hasty ELSE hasty \cup {UserOf[c]}
    BY DEF Click, Presses
  <1>4. n \notin executed
    BY <1>1 DEF OrdersInv
  <1>5. CartsAreOwn'
    BY <1>1, <1>2, <1>3 DEF OnceInv, CartsAreOwn
  <1>6. OneAtATime'
    <2>1. ASSUME NEW i \in DOMAIN clicks, UserBy(i) = UserOf[c], UserOf[c] \notin hasty'
          PROVE  clicks[i].at = "told"
      <3>1. Idle(c) /\ Alone(c) /\ UserOf[c] \notin hasty
        BY <1>3, <2>1
      <3>2. clicks[i].by = c
        BY <2>1, <3>1 DEF Alone, OnceInv, OneAtATime, UserBy
      <3>3. clicks[i].at \in {"told", "refused"}
        BY <3>1, <3>2 DEF Idle
      <3>4. QED
        BY <2>1, <3>1, <3>3 DEF NeverRefused
    <2>2. \A i, j \in DOMAIN clicks' : i < j => i \in DOMAIN clicks
      BY <1>0, <1>1, <1>n
    <2>3. \A i \in DOMAIN clicks' : clicks'[i].by \in open'
      BY <1>1, <1>2, <1>3 DEF OnceInv, OneAtATime
    <2>4. ASSUME NEW i \in DOMAIN clicks', NEW j \in DOMAIN clicks', i < j,
                 UserBy(i)' = UserBy(j)', UserBy(i)' \notin hasty'
          PROVE  clicks'[i].at = "told"
      <3>1. i \in DOMAIN clicks
        BY <2>2, <2>4
      <3>2. CASE j = n
        BY <1>1, <1>2, <2>1, <2>4, <3>1, <3>2
      <3>3. CASE j # n
        BY <1>1, <1>3, <2>4, <3>1, <3>3 DEF OnceInv, OneAtATime
      <3>4. QED
        BY <3>2, <3>3
    <2>5. QED
      BY <2>3, <2>4 DEF OneAtATime
  <1>7. TakenOut'
    BY <1>1, <1>2, <1>3, <1>4 DEF OnceInv, TakenOut, OrdersInv
  <1>8. QED
    BY <1>5, <1>6, <1>7 DEF OnceInv

\* The carts, the clicks of patient users and their orders are always as OnceInv has them.
LEMMA OnceInvariant == StoreSpec => [](OnceInv /\ NeverRefused)
  <1>1. StoreInit => OnceInv /\ NeverRefused
    BY EmptySeq DEF StoreInit, OnceInv, CartsAreOwn, OneAtATime, TakenOut, NeverRefused
  <1>2. StorefrontTypeOK /\ OrdersInv /\ OnceInv /\ NeverRefused /\ [StoreNext]_storeVars
        => OnceInv' /\ NeverRefused'
    <2> SUFFICES ASSUME StorefrontTypeOK, OrdersInv, OnceInv, NeverRefused,
                        [StoreNext]_storeVars
                 PROVE  OnceInv' /\ NeverRefused'
      OBVIOUS
    <2> USE DEF browser, shop, store
    <2>0. clicks \in Seq(ClickType)
      BY DEF StorefrontTypeOK
    <2>1. ASSUME UNCHANGED <<clicks, executed, cart, kept>>, open \subseteq open',
                 hasty \subseteq hasty'
          PROVE  OnceInv' /\ NeverRefused'
      BY <2>1, ImpatienceKeepsOnce DEF NeverRefused, UserBy
    <2>2. ASSUME NEW i \in DOMAIN clicks,
                 NEW to \in {"added", "read", "charged", "writing", "placed", "ok", "error",
                             "told", "refused"},
                 clicks' = [clicks EXCEPT ![i].at = to], hasty \subseteq hasty',
                 to = "refused" => UserBy(i) \in hasty'
          PROVE  NeverRefused'
      <3>1. /\ DOMAIN clicks' = DOMAIN clicks
            /\ clicks'[i].at = to
            /\ \A j \in DOMAIN clicks : /\ UserBy(j)' = UserBy(j)
                                        /\ j # i => clicks'[j].at = clicks[j].at
        BY <2>0, <2>2, GoingOn
      <3>2. QED
        BY <2>2, <3>1 DEF NeverRefused
    <2>3. ASSUME NEW c \in Clients, NEW k \in Currencies,
                 Open(c) \/ Focus(c) \/ SelectCurrency(c, k) \/ ServeCart(c, k)
                   \/ ReceiveCart(c, k) \/ FailCart(c, k)
          PROVE  OnceInv' /\ NeverRefused'
      BY <2>1, <2>3 DEF Open, Focus, SelectCurrency, ServeCart, ReceiveCart, FailCart, Presses
    <2>4. ASSUME NEW c \in Clients, AddItem(c) \/ EmptyCart(c) \/ PlaceOrder(c)
          PROVE  OnceInv' /\ NeverRefused'
      <3>1. PICK kind \in {"add", "empty", "order"} : Click(c, kind)
        BY <2>4 DEF AddItem, EmptyCart, PlaceOrder
      <3>2. hasty \subseteq hasty'
        BY <3>1 DEF Click, Presses
      <3>3. NeverRefused'
        BY <3>1, <3>2, ClickIsAdded DEF NeverRefused, UserBy
      <3>4. QED
        BY <3>1, <3>3, ClickKeepsOnce
    <2>5. ASSUME NEW i \in DOMAIN clicks, Execute(i) PROVE OnceInv' /\ NeverRefused'
      <3>1. UNCHANGED <<clicks, hasty>>
        BY <2>5 DEF Execute
      <3>2. QED
        BY <2>5, <3>1, ExecutionKeepsOnce DEF NeverRefused, UserBy
    <2>6. ASSUME NEW i \in DOMAIN clicks, NEW well \in BOOLEAN,
                 \/ Added(i) \/ AnswerAdd(i, well) \/ ServeEmpty(i) \/ Emptied(i)
                 \/ Charge(i) \/ Ship(i, well) \/ GoOn(i) \/ LookUp(i, well) \/ Fail(i)
                 \/ ReceiveGood(i) \/ ReceiveError(i)
          PROVE  OnceInv' /\ NeverRefused'
      <3>1. PICK to \in {"added", "charged", "writing", "placed", "ok", "error", "told", "refused"} :
               /\ clicks' = [clicks EXCEPT ![i].at = to]
               /\ to = "refused" => UserBy(i) \in hasty'
        BY <2>6 DEF Added, AnswerAdd, ServeEmpty, Emptied, Charge, Ship, GoOn, LookUp, Fail, Goes,
                    ReceiveGood, ReceiveError
      <3>2. /\ clicks[i].at # "told" /\ UNCHANGED <<executed, cart, open>>
            /\ hasty \subseteq hasty' /\ kept \subseteq kept'
        BY <2>6 DEF Added, AnswerAdd, ServeEmpty, Emptied, Charge, Ship, GoOn, LookUp, Fail, Goes,
                    ReceiveGood, ReceiveError, Good, Sends
      <3>3. QED
        BY <2>2, <3>1, <3>2, GoingOnKeepsOnce
    <2>7. ASSUME NEW i \in DOMAIN clicks, ServeAdd(i) \/ ReadCart(i)
          PROVE  OnceInv' /\ NeverRefused'
      <3>1. PICK kind \in {"add", "order"}, to \in {"writing", "read"} : Reads(i, kind, to)
        BY <2>7 DEF ServeAdd, ReadCart
      <3>2. UNCHANGED <<executed, cart, kept, open, hasty>>
        BY <2>7 DEF ServeAdd, ReadCart, Sends
      <3>3. NeverRefused'
        BY <3>1, <3>2, ReadingOn DEF NeverRefused
      <3>4. QED
        BY <3>1, <3>2, <3>3, ReadingKeepsOnce
    <2>8. ASSUME NEW u \in Users, Lapse(u) PROVE OnceInv' /\ NeverRefused'
      <3>1. UNCHANGED <<clicks, hasty>>
        BY <2>8 DEF Lapse
      <3>2. QED
        BY <2>8, <3>1, LapseKeepsOnce DEF NeverRefused, UserBy
    <2>9. CASE UNCHANGED storeVars
      BY <2>1, <2>9 DEF storeVars
    <2>10. QED
      BY <2>3, <2>4, <2>5, <2>6, <2>7, <2>8, <2>9, StorefrontAssumption DEF StoreNext
  <1>3. QED
    BY <1>1, <1>2, StorefrontTypeCorrect, OrdersInvariant, PTL DEF StoreSpec

\* An item is paid for once, whoever clicks how often and whatever fails: unless the
\* first of two orders ended before the cart was emptied, or its user did not wait for an answer,
\* got an error, or had another client open.
THEOREM OrderedOnce == StoreSpec => []NothingOrderedTwice
  <1>1. StorefrontTypeOK /\ OrdersInv /\ OnceInv => NothingOrderedTwice
    <2> SUFFICES ASSUME StorefrontTypeOK, OrdersInv, OnceInv,
                        NEW i \in charged, NEW j \in charged, i < j,
                        clicks[i].saw \cap clicks[j].saw # {}, i \notin kept,
                        UserBy(i) \notin hasty
                 PROVE  FALSE
      BY DEF NothingOrderedTwice
    <2>1. /\ i \in DOMAIN clicks /\ j \in DOMAIN clicks /\ clicks[i].kind = "order"
          /\ OrderInv(i)
      BY DEF OrdersInv, ClickInv, ChangeInv
    <2>2. CASE UserBy(i) = UserBy(j)
      <3>1. i \in executed
        BY <2>1, <2>2 DEF OnceInv, OneAtATime, OrderInv
      <3>2. QED
        BY <2>1, <3>1 DEF OnceInv, TakenOut
    <2>3. CASE UserBy(i) # UserBy(j)
      <3>1. /\ \A x \in clicks[i].saw : UserBy(x) = UserBy(i)
            /\ \A x \in clicks[j].saw : UserBy(x) = UserBy(j)
        BY <2>1 DEF OnceInv, CartsAreOwn
      <3>2. QED
        BY <2>3, <3>1
    <2>4. QED
      BY <2>2, <2>3
  <1>2. QED
    BY <1>1, StorefrontTypeCorrect, OrdersInvariant, OnceInvariant, PTL

-----------------------------------------------------------------------------
(* What clients show. *)

\* What a fetch that begins, or begins again, makes of a query.
LEMMA FetchBegins ==
  ASSUME NEW q \in QueryType
  PROVE  /\ Started(q).at = "sent" /\ ~Started(q).late
         /\ Fetched(q).at # "none"
         /\ Fetched(q) = q \/ Fetched(q) = Started(q)
         /\ Refetched(q).at # "none"
         /\ q.at = "none" \/ q.has => Refetched(q) = Started(q)
         /\ q.at # "none" /\ ~q.has => Refetched(q).late
         /\ Started(q).has = q.has /\ Fetched(q).has = q.has /\ Refetched(q).has = q.has
  BY DEF Started, Fetched, Refetched, QueryType

\* What the fetch of k by c makes of its query: it begins, if it is the selected one, or
\* is answered, received, or fails.
Fetches(c, k) ==
  LET q == query[c][k]
      p == query'[c][k]
  IN  /\ \A d \in Clients : \A j \in Currencies :
           d # c \/ j # k => query'[d][j] = query[d][j]
      /\ \/ /\ p.at = "sent" /\ ~p.late /\ (q.has => p.has)
            /\ q.at = "none" \/ c \notin open
         \/ /\ q.at = "sent" /\ p.at = "back" /\ p.late = q.late /\ (q.has => p.has)
            /\ p.got = [items |-> cart[UserOf[c]], seen |-> executed]
         \/ /\ q.at = "back" /\ p.at = "none" /\ p.late = q.late /\ p.has
            /\ p.data = q.got
         \/ q.at = "sent" /\ p.at = "none" /\ p.late /\ UserOf[c] \in hasty'

\* The steps of a client other than its clicks fetch.
LEMMA ClientsFetch ==
  ASSUME StorefrontTypeOK, NEW c \in Clients
  PROVE  /\ Open(c) => Fetches(c, currency[c])
         /\ Focus(c) => Fetches(c, currency[c])
         /\ \A k \in Currencies : ServeCart(c, k) \/ ReceiveCart(c, k) \/ FailCart(c, k)
                                    => Fetches(c, k)
  <1>1. currency[c] \in Currencies /\ \A k \in Currencies : query[c][k] \in QueryType
    BY DEF StorefrontTypeOK
  <1>2. ASSUME Open(c) PROVE Fetches(c, currency[c])
    <2>1. query' = [query EXCEPT ![c][currency[c]] = Started(query[c][currency[c]])]
      BY <1>2 DEF Open
    <2>2. Started(query[c][currency[c]]).at = "sent" /\ ~Started(query[c][currency[c]]).late
          /\ Started(query[c][currency[c]]).has = query[c][currency[c]].has
      BY <1>1, FetchBegins
    <2>3. \A d \in Clients : \A j \in Currencies :
           query'[d][j] = IF d = c /\ j = currency[c] THEN Started(query[c][currency[c]]) ELSE query[d][j]
      BY <1>1, <2>1 DEF StorefrontTypeOK
    <2>4. QED
      BY <1>1, <1>2, <2>2, <2>3 DEF Open, Fetches
  <1>3. ASSUME Focus(c) PROVE Fetches(c, currency[c])
    <2>1. query[c][currency[c]].at = "none"
          /\ query' = [query EXCEPT ![c][currency[c]] = Started(query[c][currency[c]])]
      BY <1>3 DEF Focus, Active, Fetched
    <2>2. Started(query[c][currency[c]]).at = "sent" /\ ~Started(query[c][currency[c]]).late
          /\ Started(query[c][currency[c]]).has = query[c][currency[c]].has
      BY <1>1, FetchBegins
    <2>3. \A d \in Clients : \A j \in Currencies :
           query'[d][j] = IF d = c /\ j = currency[c] THEN Started(query[c][currency[c]]) ELSE query[d][j]
      BY <1>1, <2>1 DEF StorefrontTypeOK
    <2>4. QED
      BY <1>1, <2>1, <2>2, <2>3 DEF Fetches
  <1>4. ASSUME NEW k \in Currencies, ServeCart(c, k) PROVE Fetches(c, k)
    <2> DEFINE got == [items |-> cart[UserOf[c]], seen |-> executed]
               q == [query[c][k] EXCEPT !.at = "back", !.got = got]
    <2>1. query' = [query EXCEPT ![c][k] = q] /\ query[c][k].at = "sent"
      BY <1>4 DEF ServeCart, StorefrontTypeOK, QueryType
    <2>2. q.at = "back" /\ q.late = query[c][k].late /\ q.has = query[c][k].has /\ q.got = got
      BY <1>1 DEF QueryType
    <2> HIDE DEF q
    <2>3. \A d \in Clients : \A j \in Currencies :
           query'[d][j] = IF d = c /\ j = k THEN q ELSE query[d][j]
      BY <2>1 DEF StorefrontTypeOK
    <2>4. QED
      BY <2>1, <2>2, <2>3 DEF Fetches
  <1>5. ASSUME NEW k \in Currencies, ReceiveCart(c, k) PROVE Fetches(c, k)
    <2> DEFINE q == [query[c][k] EXCEPT !.at = "none", !.has = TRUE,
                                        !.data = query[c][k].got, !.got = Nothing]
    <2>1. query' = [query EXCEPT ![c][k] = q] /\ query[c][k].at = "back"
      BY <1>5 DEF ReceiveCart
    <2>2. q.at = "none" /\ q.late = query[c][k].late /\ q.has /\ q.data = query[c][k].got
      BY <1>1 DEF QueryType
    <2> HIDE DEF q
    <2>3. \A d \in Clients : \A j \in Currencies :
           query'[d][j] = IF d = c /\ j = k THEN q ELSE query[d][j]
      BY <2>1 DEF StorefrontTypeOK
    <2>4. QED
      BY <2>1, <2>2, <2>3 DEF Fetches
  <1>6. ASSUME NEW k \in Currencies, FailCart(c, k) PROVE Fetches(c, k)
    <2> DEFINE q == [query[c][k] EXCEPT !.at = "none", !.late = TRUE]
    <2>1. query' = [query EXCEPT ![c][k] = q] /\ query[c][k].at = "sent"
          /\ UserOf[c] \in hasty'
      BY <1>6 DEF FailCart
    <2>2. q.at = "none" /\ q.late
      BY <1>1 DEF QueryType
    <2> HIDE DEF q
    <2>3. \A d \in Clients : \A j \in Currencies :
           query'[d][j] = IF d = c /\ j = k THEN q ELSE query[d][j]
      BY <2>1 DEF StorefrontTypeOK
    <2>4. QED
      BY <2>1, <2>2, <2>3 DEF Fetches
  <1>7. QED
    BY <1>2, <1>3, <1>4, <1>5, <1>6

\* A good answer has the selected query fetched again, and the others when they are.
LEMMA GoodAnswerFetches ==
  ASSUME StorefrontTypeOK, NEW i \in DOMAIN clicks, ReceiveGood(i)
  PROVE  LET c == clicks[i].by IN
         /\ c \in Clients
         /\ \A d \in Clients \ {c} : \A k \in Currencies : query'[d][k] = query[d][k]
         /\ \A k \in Currencies \ {currency[c]} :
              /\ query'[c][k].at = query[c][k].at
              /\ query[c][k].at # "none" => query'[c][k].late
         /\ query'[c][currency[c]].at # "none"
         /\ query'[c][currency[c]].has = query[c][currency[c]].has
         /\ query[c][currency[c]].has => query'[c][currency[c]].at = "sent"
         /\ query'[c][currency[c]].at = "sent" \/ query'[c][currency[c]].late
  <1> DEFINE c == clicks[i].by
  <1>1. c \in Clients
    <2>1. clicks[i] \in ClickType
      BY LenProperties, ElementOfSeq DEF StorefrontTypeOK
    <2>2. QED
      BY <2>1 DEF ClickType
  <1>2. currency[c] \in Currencies /\ \A k \in Currencies : query[c][k] \in QueryType
    BY <1>1 DEF StorefrontTypeOK
  <1>3. query' = [query EXCEPT ![c] = Invalidated(c)]
    BY DEF ReceiveGood
  <1> HIDE DEF c
  <1>4. \A d \in Clients \ {c} : \A k \in Currencies : query'[d][k] = query[d][k]
    BY <1>1, <1>3 DEF StorefrontTypeOK
  <1>5. /\ query'[c][currency[c]] = Refetched(query[c][currency[c]])
        /\ \A k \in Currencies \ {currency[c]} :
             query'[c][k] = [query[c][k] EXCEPT !.late = query[c][k].at # "none"]
    BY <1>1, <1>2, <1>3 DEF StorefrontTypeOK, Invalidated
  <1>6. ASSUME NEW k \in Currencies \ {currency[c]}
        PROVE  /\ query'[c][k].at = query[c][k].at
               /\ query[c][k].at # "none" => query'[c][k].late
    BY <1>2, <1>5, ZenonT(60) DEF QueryType
  <1>7. /\ query'[c][currency[c]].at # "none"
        /\ query'[c][currency[c]].has = query[c][currency[c]].has
        /\ query[c][currency[c]].has => query'[c][currency[c]].at = "sent"
        /\ query'[c][currency[c]].at = "sent" \/ query'[c][currency[c]].late
    BY <1>2, <1>5, FetchBegins
  <1>8. QED
    BY <1>1, <1>4, <1>6, <1>7 DEF c

\* Whatever was told to be done is in what a client has fetched since, unless its query
\* is marked late.  Only the selected query is kept up to date without being fetched.
OwnChangesInv ==
  \A i \in executed \ kept : clicks[i].at = "told" =>
    \A k \in Currencies :
      LET q == query[clicks[i].by][k] IN
      ~q.late => /\ q.at = "back" => i \in q.got.seen
                 /\ q.at = "none" /\ k = currency[clicks[i].by] => i \in q.data.seen

\* No click is told of, and none that was told of before is done only now: what was told
\* before stays.
LEMMA UntoldKeepsOwnChanges ==
  ASSUME OwnChangesInv, OrdersInv, UNCHANGED <<query, currency>>,
         NEW n \in Nat, executed' \subseteq executed \cup {n}, kept \subseteq kept',
         clicks'[n].at # "told" \/ n \in kept,
         \A j \in DOMAIN clicks : j # n => clicks'[j] = clicks[j]
  PROVE  OwnChangesInv'
  BY DEF OwnChangesInv, OrdersInv

\* A client shows what it was told was done, once nothing is being fetched; unless the
\* last fetch failed, or was under way when the client was told and could not be
\* started again.
THEOREM OwnChangesAreRead == StoreSpec => []ReadsItsOwnChanges
  <1>1. StoreInit => OwnChangesInv
    BY DEF StoreInit, OwnChangesInv
  <1>2. StorefrontTypeOK /\ OrdersInv /\ OwnChangesInv /\ [StoreNext]_storeVars
        => OwnChangesInv'
    <2> SUFFICES ASSUME StorefrontTypeOK, OrdersInv, OwnChangesInv, [StoreNext]_storeVars
                 PROVE  OwnChangesInv'
      OBVIOUS
    <2> USE DEF browser, shop, store
    <2>0. /\ clicks \in Seq(ClickType) /\ executed \subseteq DOMAIN clicks
          /\ DOMAIN clicks = 1..Len(clicks) /\ Len(clicks) \in Nat
          /\ \A i \in DOMAIN clicks : clicks[i] \in ClickType /\ clicks[i].by \in Clients
      <3>1. clicks \in Seq(ClickType) /\ executed \subseteq DOMAIN clicks
        BY DEF StorefrontTypeOK, OrdersInv
      <3>2. DOMAIN clicks = 1..Len(clicks) /\ Len(clicks) \in Nat
        BY <3>1, LenProperties
      <3>3. \A i \in DOMAIN clicks : clicks[i] \in ClickType
        BY <3>1, <3>2, ElementOfSeq
      <3>4. QED
        BY <3>1, <3>2, <3>3 DEF ClickType
    <2>1. ASSUME NEW c \in Clients, NEW k \in Currencies, Fetches(c, k),
                 UNCHANGED <<currency, clicks, executed, kept>>
          PROVE  OwnChangesInv'
      <3> SUFFICES ASSUME NEW i \in executed \ kept, clicks[i].at = "told", NEW j \in Currencies,
                          ~query'[clicks[i].by][j].late
                   PROVE  LET q == query'[clicks[i].by][j] IN
                          /\ q.at = "back" => i \in q.got.seen
                          /\ q.at = "none" /\ j = currency[clicks[i].by] => i \in q.data.seen
        BY <2>1 DEF OwnChangesInv
      <3>1. clicks[i].by \in Clients
        BY <2>0
      <3>2. CASE clicks[i].by = c /\ j = k
        BY <2>1, <3>2, SMTT(30) DEF Fetches, OwnChangesInv
      <3>3. CASE ~(clicks[i].by = c /\ j = k)
        BY <2>1, <3>1, <3>3, SMTT(30) DEF Fetches, OwnChangesInv
      <3>4. QED
        BY <3>2, <3>3
    <2>2. ASSUME NEW c \in Clients, NEW k \in Currencies,
                 Open(c) \/ Focus(c) \/ ServeCart(c, k) \/ ReceiveCart(c, k) \/ FailCart(c, k)
          PROVE  OwnChangesInv'
      <3>1. UNCHANGED <<currency, clicks, executed, kept>>
        BY <2>2 DEF Open, Focus, ServeCart, ReceiveCart, FailCart
      <3>2. currency[c] \in Currencies
        BY DEF StorefrontTypeOK
      <3>3. \E j \in Currencies : Fetches(c, j)
        BY <2>2, <3>2, ClientsFetch
      <3>4. QED
        BY <2>1, <3>1, <3>3
    <2>3. ASSUME NEW c \in Clients, NEW k \in Currencies, SelectCurrency(c, k)
          PROVE  OwnChangesInv'
      <3> DEFINE q == Fetched(query[c][k])
      <3>1. /\ query' = [query EXCEPT ![c][k] = q] /\ currency' = [currency EXCEPT ![c] = k]
            /\ UNCHANGED <<clicks, executed, kept>>
        BY <2>3 DEF SelectCurrency
      <3>2. q.at # "none" /\ (q = query[c][k] \/ q.at = "sent")
        BY FetchBegins DEF StorefrontTypeOK
      <3> HIDE DEF q
      <3>3. /\ \A d \in Clients : \A j \in Currencies :
                 query'[d][j] = IF d = c /\ j = k THEN q ELSE query[d][j]
            /\ \A d \in Clients : currency'[d] = IF d = c THEN k ELSE currency[d]
        BY <3>1 DEF StorefrontTypeOK
      <3>4. QED
        BY <2>0, <3>1, <3>2, <3>3 DEF OwnChangesInv
    <2>4. ASSUME NEW c \in Clients, AddItem(c) \/ EmptyCart(c) \/ PlaceOrder(c)
          PROVE  OwnChangesInv'
      <3>1. PICK kind \in {"add", "empty", "order"} : Click(c, kind)
        BY <2>4 DEF AddItem, EmptyCart, PlaceOrder
      <3>2. PICK n \in Nat : n = Len(clicks) + 1
        BY <2>0
      <3>3. clicks'[n].at = "sent" /\ \A j \in DOMAIN clicks : clicks'[j] = clicks[j]
        BY <3>1, <3>2, ClickIsAdded
      <3>4. UNCHANGED <<query, currency, executed, kept>>
        BY <3>1 DEF Click
      <3>5. QED
        BY <3>3, <3>4, UntoldKeepsOwnChanges
    <2>5. ASSUME NEW i \in DOMAIN clicks, NEW well \in BOOLEAN,
                 \/ Added(i) \/ AnswerAdd(i, well) \/ ServeEmpty(i) \/ Emptied(i)
                 \/ Charge(i) \/ Ship(i, well) \/ GoOn(i) \/ LookUp(i, well) \/ Fail(i)
                 \/ ReceiveError(i) \/ ServeAdd(i) \/ ReadCart(i)
          PROVE  OwnChangesInv'
      <3>1. /\ UNCHANGED <<query, currency, executed>> /\ kept \subseteq kept'
        BY <2>5 DEF Added, AnswerAdd, ServeEmpty, Emptied, Charge, Ship, GoOn, LookUp, Fail,
                    ReceiveError, ServeAdd, ReadCart, Sends
      <3>2. clicks'[i].at # "told" /\ \A j \in DOMAIN clicks : j # i => clicks'[j] = clicks[j]
        <4>1. CASE ServeAdd(i) \/ ReadCart(i)
          BY <4>1, ReadingOn DEF ServeAdd, ReadCart
        <4>2. CASE ~(ServeAdd(i) \/ ReadCart(i))
          <5>1. PICK to \in {"added", "charged", "writing", "placed", "ok", "error", "refused"} :
                   clicks' = [clicks EXCEPT ![i].at = to]
            BY <2>5, <4>2 DEF Added, AnswerAdd, ServeEmpty, Emptied, Charge, Ship, GoOn, LookUp,
                              Fail, Goes, ReceiveError
          <5>2. clicks'[i].at = to
            BY <2>0, <5>1, GoingOn
          <5>3. \A j \in DOMAIN clicks : j # i => clicks'[j] = clicks[j]
            BY <2>0, <5>1, ClickGoesOn
          <5>4. QED
            BY <5>2, <5>3
        <4>3. QED
          BY <4>1, <4>2
      <3>3. i \in Nat
        BY <2>0
      <3>4. QED
        BY <3>1, <3>2, <3>3, UntoldKeepsOwnChanges
    <2>6. ASSUME NEW i \in DOMAIN clicks, Execute(i) PROVE OwnChangesInv'
      <3>1. /\ UNCHANGED <<query, currency, clicks, kept>> /\ i \in out
            /\ executed' = executed \cup {i}
        BY <2>6 DEF Execute
      <3>2. clicks[i].at = "told" => i \in kept
        BY <3>1, ToldIsExecuted
      <3>3. i \in Nat
        BY <2>0
      <3>4. QED
        BY <3>1, <3>2, <3>3, UntoldKeepsOwnChanges
    <2>7. ASSUME NEW i \in DOMAIN clicks, ReceiveGood(i) PROVE OwnChangesInv'
      <3>1. UNCHANGED <<currency, executed, kept>> /\ clicks' = [clicks EXCEPT ![i].at = "told"]
        BY <2>7 DEF ReceiveGood
      <3>2. /\ clicks'[i].by = clicks[i].by
            /\ \A j \in DOMAIN clicks : j # i => clicks'[j] = clicks[j]
        <4>1. clicks'[i].by = clicks[i].by
          BY <2>0, <3>1, GoingOn
        <4>2. \A j \in DOMAIN clicks : j # i => clicks'[j] = clicks[j]
          BY <2>0, <3>1, ClickGoesOn
        <4>3. QED
          BY <4>1, <4>2
      <3>3. ASSUME NEW j \in executed \ kept, clicks'[j].at = "told", NEW k \in Currencies,
                   ~query'[clicks'[j].by][k].late
            PROVE  LET q == query'[clicks'[j].by][k] IN
                   /\ q.at = "back" => j \in q.got.seen
                   /\ q.at = "none" /\ k = currency[clicks'[j].by] => j \in q.data.seen
        <4>1. CASE clicks'[j].by = clicks[i].by
          BY <2>7, <3>3, <4>1, GoodAnswerFetches
        <4>2. CASE clicks'[j].by # clicks[i].by
          <5>1. j # i /\ j \in DOMAIN clicks /\ clicks'[j] = clicks[j]
                /\ clicks[j].by \in Clients
            BY <2>0, <3>2, <3>3, <4>2
          <5>2. query'[clicks[j].by][k] = query[clicks[j].by][k]
            BY <2>7, <4>2, <5>1, GoodAnswerFetches
          <5>3. QED
            BY <3>3, <5>1, <5>2 DEF OwnChangesInv
        <4>3. QED
          BY <4>1, <4>2
      <3>4. QED
        BY <3>1, <3>3 DEF OwnChangesInv
    <2>8. ASSUME NEW u \in Users, Lapse(u) PROVE OwnChangesInv'
      BY <2>8 DEF Lapse, OwnChangesInv
    <2>9. CASE UNCHANGED storeVars
      BY <2>9 DEF storeVars, OwnChangesInv
    <2>10. QED
      BY <2>2, <2>3, <2>4, <2>5, <2>6, <2>7, <2>8, <2>9, StorefrontAssumption DEF StoreNext,
         StorefrontTypeOK
  <1>3. StorefrontTypeOK /\ OrdersInv /\ OwnChangesInv => ReadsItsOwnChanges
    <2> SUFFICES ASSUME StorefrontTypeOK, OrdersInv, OwnChangesInv, NEW i \in executed \ kept,
                        clicks[i].at = "told", Active(clicks[i].by).at = "none",
                        ~Active(clicks[i].by).late
                 PROVE  i \in Active(clicks[i].by).data.seen
      BY DEF ReadsItsOwnChanges
    <2>1. currency[clicks[i].by] \in Currencies
      <3>1. i \in DOMAIN clicks /\ clicks \in Seq(ClickType)
        BY DEF OrdersInv, StorefrontTypeOK
      <3>2. clicks[i] \in ClickType
        BY <3>1, LenProperties, ElementOfSeq
      <3>3. QED
        BY <3>2 DEF StorefrontTypeOK, ClickType
    <2>2. QED
      BY <2>1 DEF OwnChangesInv, Active
  <1>4. QED
    BY <1>1, <1>2, <1>3, StorefrontTypeCorrect, OrdersInvariant, PTL DEF StoreSpec

-----------------------------------------------------------------------------
(* What a patient user is charged for. *)

AllTold(c) == \A i \in DOMAIN clicks : clicks[i].by = c => clicks[i].at = "told"

\* What a client of u shows is his cart, or his cart has lapsed since.
IsCart(items, u) == items = cart[u] \/ (cart[u] = {} /\ u \in lapsed)

\* The only client of a patient user, when it waits for nothing, shows the cart, and so
\* will what is on its way to it.
ShowsCart ==
  \A c \in open : UserOf[c] \notin hasty /\ Alone(c) /\ AllTold(c) =>
    /\ Active(c).at = "none" => IsCart(Shown(c), UserOf[c])
    /\ Active(c).at = "back" => IsCart(Active(c).got.items, UserOf[c])

\* A patient user has fetches of the selected currency only, and clicks only when the
\* client has fetched the cart before.
OneFetch ==
  \A c \in Clients : UserOf[c] \notin hasty =>
    /\ \A k \in Currencies \ {currency[c]} : query[c][k].at = "none"
    /\ c \in open /\ (Active(c).at = "none" \/ ~AllTold(c)) => Active(c).has

\* What an order has read is what its user was shown, or his cart has lapsed.
SawShown(i) ==
  clicks[i].saw = clicks[i].shown \/ (clicks[i].saw = {} /\ UserBy(i) \in lapsed)

\* The cart that a patient user's order is to get is the one that he was shown.
OrdersShown ==
  \A i \in DOMAIN clicks : clicks[i].kind = "order" /\ UserBy(i) \notin hasty =>
    /\ clicks[i].at = "sent" => IsCart(clicks[i].shown, UserBy(i))
    /\ clicks[i].at = "read" \/ i \in charged => SawShown(i)

PatientInv == ShowsCart /\ OneFetch /\ OrdersShown

\* A client that fetches shows the cart when it has.
LEMMA FetchingKeepsPatient ==
  ASSUME StorefrontTypeOK, PatientInv, NEW c \in Clients, NEW k \in Currencies, Fetches(c, k),
         UNCHANGED <<currency, clicks, cart, lapsed, charged>>, hasty \subseteq hasty',
         \/ UNCHANGED open /\ (query[c][k].at = "none" => k = currency[c])
         \/ open' = open \cup {c} /\ c \notin open /\ k = currency[c]
              /\ query'[c][k].at = "sent" /\ AllTold(c)
  PROVE  PatientInv'
  <1>1. \A d \in Clients : currency[d] \in Currencies
    BY DEF StorefrontTypeOK
  <1>2. open \subseteq Clients /\ open \subseteq open'
    BY DEF StorefrontTypeOK
  <1>3. \A d \in Clients : AllTold(d)' = AllTold(d)
    BY DEF AllTold
  <1>4. OrdersShown'
    BY DEF PatientInv, OrdersShown, IsCart, SawShown, UserBy
  <1>5. \A d \in Clients \ {c} : Active(d)' = Active(d) /\ Shown(d)' = Shown(d)
    BY <1>1 DEF Fetches, Active, Shown
  <1>6. ASSUME NEW d \in open', UserOf[d] \notin hasty', Alone(d)', AllTold(d)'
        PROVE  /\ Active(d)'.at = "none" => IsCart(Shown(d)', UserOf[d])
               /\ Active(d)'.at = "back" => IsCart(Active(d)'.got.items, UserOf[d])
    <2>1. d \in Clients /\ UserOf[d] \notin hasty /\ AllTold(d) /\ Alone(d)
      BY <1>2, <1>3, <1>6 DEF Alone, StorefrontTypeOK
    <2>2. CASE d # c
      BY <1>5, <2>1, <2>2 DEF PatientInv, ShowsCart
    <2>3. CASE d = c /\ k # currency[c]
      <3>1. d \in open /\ Active(d)' = Active(d) /\ Shown(d)' = Shown(d)
        BY <1>1, <2>3 DEF Fetches, Active, Shown
      <3>2. QED
        BY <2>1, <3>1 DEF PatientInv, ShowsCart
    <2>4. CASE d = c /\ k = currency[c]
      <3>1. Active(d) = query[c][k] /\ Active(d)' = query'[c][k] /\ Shown(d)' = query'[c][k].data.items
        BY <2>4 DEF Active, Shown
      <3>2. CASE query'[c][k].at = "sent"
        BY <3>1, <3>2
      <3>3. CASE query'[c][k].got = [items |-> cart[UserOf[c]], seen |-> executed]
                 /\ query'[c][k].at = "back"
        BY <2>4, <3>1, <3>3 DEF IsCart
      <3>4. CASE query[c][k].at = "back" /\ query'[c][k].at = "none"
                 /\ query'[c][k].data = query[c][k].got
        BY <2>1, <2>4, <3>1, <3>4 DEF PatientInv, ShowsCart
      <3>5. QED
        BY <1>6, <2>4, <3>2, <3>3, <3>4 DEF Fetches
    <2>5. QED
      BY <2>2, <2>3, <2>4
  <1>7. ASSUME NEW d \in Clients, UserOf[d] \notin hasty'
        PROVE  /\ \A j \in Currencies \ {currency[d]} : query'[d][j].at = "none"
               /\ d \in open' /\ (Active(d)'.at = "none" \/ ~AllTold(d)') => Active(d)'.has
    <2>1. UserOf[d] \notin hasty
      BY <1>7
    <2>2. CASE d # c
      BY <1>3, <1>5, <2>1, <2>2 DEF PatientInv, OneFetch, Fetches
    <2>3. CASE d = c
      <3>1. k = currency[c]
        BY <2>1, <2>3 DEF PatientInv, OneFetch, Fetches
      <3>2. \A j \in Currencies \ {currency[d]} : query'[d][j].at = "none"
        BY <2>1, <2>3, <3>1 DEF PatientInv, OneFetch, Fetches
      <3>3. Active(d) = query[c][k] /\ Active(d)' = query'[c][k]
        BY <2>3, <3>1 DEF Active
      <3>4. CASE UNCHANGED open
        <4>1. (c \in open /\ (query[c][k].at = "none" \/ ~AllTold(c))) => query[c][k].has
          BY <2>1, <2>3, <3>3 DEF PatientInv, OneFetch
        <4>2. UserOf[c] \notin hasty'
          BY <1>7, <2>3
        <4>3. query[c][k].has => query'[c][k].has
          BY <4>2 DEF Fetches
        <4>4. query'[c][k].at = "none" => query'[c][k].has
          BY <4>2, <3>4 DEF Fetches
        <4>5. (c \in open' /\ (query'[c][k].at = "none" \/ ~AllTold(c)')) => query'[c][k].has
          BY <1>3, <3>4, <4>1, <4>3, <4>4
        <4>6. QED
          BY <2>3, <3>2, <3>3, <4>5
      <3>5. CASE query'[c][k].at = "sent" /\ AllTold(c)
        BY <1>3, <2>3, <3>2, <3>3, <3>5
      <3>6. QED
        BY <3>4, <3>5
    <2>4. QED
      BY <2>2, <2>3
  <1>8. QED
    BY <1>4, <1>6, <1>7 DEF PatientInv, ShowsCart, OneFetch, IsCart

\* A click that goes on without being told leaves all clients with what they wait for.
LEMMA UntoldAsBefore ==
  ASSUME NEW i \in DOMAIN clicks, clicks[i].at # "told", clicks'[i].at # "told",
         DOMAIN clicks' = DOMAIN clicks,
         \A j \in DOMAIN clicks : /\ clicks'[j].by = clicks[j].by
                                  /\ j # i => clicks'[j].at = clicks[j].at
  PROVE  \A d \in Clients : AllTold(d)' <=> AllTold(d)
  <1>1. ASSUME NEW d \in Clients PROVE AllTold(d)' <=> AllTold(d)
    <2>1. CASE clicks[i].by = d
      BY <2>1 DEF AllTold
    <2>2. CASE clicks[i].by # d
      BY <2>2 DEF AllTold
    <2>3. QED
      BY <2>1, <2>2
  <1>2. QED
    BY <1>1

\* A click goes on and changes no cart; an order that is charged was read before.
LEMMA GoingOnKeepsPatient ==
  ASSUME StorefrontTypeOK, PatientInv, NEW i \in DOMAIN clicks,
         NEW to \in {"added", "charged", "writing", "placed", "ok", "error", "refused"},
         clicks' = [clicks EXCEPT ![i].at = to], clicks[i].at # "told",
         UNCHANGED <<open, query, currency, cart, lapsed>>, hasty \subseteq hasty',
         charged' \subseteq charged \cup {i}, i \in charged' => i \in charged \/ clicks[i].at = "read"
  PROVE  PatientInv'
  <1>1. clicks \in Seq(ClickType)
    BY DEF StorefrontTypeOK
  <1>2. /\ DOMAIN clicks' = DOMAIN clicks /\ clicks'[i].at = to
        /\ \A j \in DOMAIN clicks : /\ clicks'[j].kind = clicks[j].kind
                                    /\ clicks'[j].by = clicks[j].by
                                    /\ clicks'[j].saw = clicks[j].saw
                                    /\ clicks'[j].shown = clicks[j].shown
                                    /\ UserBy(j)' = UserBy(j)
                                    /\ j # i => clicks'[j].at = clicks[j].at
    BY <1>1, GoingOn
  <1>3. \A d \in Clients : AllTold(d)' <=> AllTold(d)
    BY <1>2, UntoldAsBefore
  <1>4. OrdersShown'
    BY <1>2 DEF PatientInv, OrdersShown, IsCart, SawShown
  <1>5. ShowsCart' /\ OneFetch'
    BY <1>3 DEF PatientInv, ShowsCart, OneFetch, IsCart, Alone, Active, Shown, StorefrontTypeOK
  <1>6. QED
    BY <1>4, <1>5 DEF PatientInv

\* A cart changes: it lapses, or it is that of the user of a click under way, whose only
\* client, if he is patient, waits for that click.
LEMMA CartChangeKeepsPatient ==
  ASSUME StorefrontTypeOK, PatientInv, OnceInv, NEW u \in Users,
         UNCHANGED <<clicks, open, query, currency, charged, hasty>>, lapsed \subseteq lapsed',
         \A v \in Users : v # u => cart'[v] = cart[v],
         \/ cart'[u] = {} /\ u \in lapsed'
         \/ \E i \in DOMAIN clicks : UserBy(i) = u /\ clicks[i].at \notin {"told", "sent"}
  PROVE  PatientInv'
  <1>1. DOMAIN clicks \subseteq Nat /\ open \subseteq Clients
        /\ \A d \in Clients : UserOf[d] \in Users
    BY LenProperties, StorefrontAssumption DEF StorefrontTypeOK
  <1>2. ASSUME NEW v \in Users, NEW items, IsCart(items, v),
               v = u => cart'[u] = {} /\ u \in lapsed'
        PROVE  IsCart(items, v)'
    BY <1>2 DEF IsCart
  <1>3. OrdersShown'
    <2> SUFFICES ASSUME NEW j \in DOMAIN clicks, clicks[j].kind = "order", UserBy(j) \notin hasty
                 PROVE  /\ clicks[j].at = "sent" => IsCart(clicks[j].shown, UserBy(j))'
                        /\ clicks[j].at = "read" \/ j \in charged => SawShown(j)'
      BY DEF OrdersShown, UserBy
    <2>1. ASSUME clicks[j].at = "sent" PROVE IsCart(clicks[j].shown, UserBy(j))'
      <3>1. UserBy(j) = u => cart'[u] = {} /\ u \in lapsed'
        BY <1>1, <2>1 DEF OnceInv, OneAtATime
      <3>2. IsCart(clicks[j].shown, UserBy(j)) /\ UserBy(j) \in Users
        BY <2>1, ClicksHaveUsers DEF PatientInv, OrdersShown
      <3>3. QED
        BY <1>2, <3>1, <3>2 DEF UserBy, IsCart
    <2>2. QED
      BY <2>1 DEF PatientInv, OrdersShown, SawShown, UserBy
  <1>4. ShowsCart'
    <2> SUFFICES ASSUME NEW d \in open, UserOf[d] \notin hasty, Alone(d), AllTold(d)
                 PROVE  /\ Active(d).at = "none" => IsCart(Shown(d), UserOf[d])'
                        /\ Active(d).at = "back" => IsCart(Active(d).got.items, UserOf[d])'
      BY DEF ShowsCart, Alone, AllTold, Active, Shown
    <2>1. UserOf[d] = u => cart'[u] = {} /\ u \in lapsed'
      BY DEF Alone, AllTold, OnceInv, OneAtATime, UserBy
    <2>2. UserOf[d] \in Users
      BY <1>1
    <2>3. QED
      BY <1>2, <2>1, <2>2 DEF PatientInv, ShowsCart, IsCart, Active, Shown
  <1>5. OneFetch'
    BY DEF PatientInv, OneFetch, Active, AllTold
  <1>6. QED
    BY <1>3, <1>4, <1>5 DEF PatientInv

\* A write of a cart is executed.
LEMMA ExecutionKeepsPatient ==
  ASSUME StorefrontTypeOK, OrdersInv, OnceInv, PatientInv, NEW i \in DOMAIN clicks, Execute(i)
  PROVE  PatientInv'
  <1> USE DEF browser
  <1>1. /\ i \in out /\ cart' = [cart EXCEPT ![UserBy(i)] = Writes(i)]
        /\ UNCHANGED <<clicks, open, query, currency, charged, hasty>>
        /\ lapsed \subseteq lapsed' /\ (i \in kept => UserBy(i) \in lapsed')
    BY DEF Execute
  <1>2. UserBy(i) \in Users /\ cart \in [Users -> SUBSET Clicks]
    BY ClicksHaveUsers DEF StorefrontTypeOK
  <1>3. /\ cart'[UserBy(i)] = Writes(i)
        /\ \A v \in Users : v # UserBy(i) => cart'[v] = cart[v]
    BY <1>1, <1>2
  <1>4. clicks[i].at # "sent"
    BY <1>1 DEF OrdersInv, ClickInv, OrderInv, ChangeInv
  <1>5. clicks[i].at = "told" => i \in kept /\ Writes(i) = {}
    BY <1>1, ToldIsExecuted DEF Writes
  <1>6. \/ cart'[UserBy(i)] = {} /\ UserBy(i) \in lapsed'
        \/ clicks[i].at \notin {"told", "sent"}
    BY <1>1, <1>3, <1>4, <1>5
  <1>7. QED
    BY <1>1, <1>2, <1>3, <1>6, CartChangeKeepsPatient

\* A cart lapses.
LEMMA LapseKeepsPatient ==
  ASSUME StorefrontTypeOK, OnceInv, PatientInv, NEW u \in Users, Lapse(u)
  PROVE  PatientInv'
  <1>1. /\ cart' = [cart EXCEPT ![u] = {}] /\ lapsed' = lapsed \cup {u}
        /\ UNCHANGED <<clicks, open, query, currency, charged, hasty>>
    BY DEF Lapse, browser
  <1>2. cart'[u] = {} /\ \A v \in Users : v # u => cart'[v] = cart[v]
    BY <1>1 DEF StorefrontTypeOK
  <1>3. QED
    BY <1>1, <1>2, CartChangeKeepsPatient

\* A click gets the cart, which is what its user was shown if it is an order.
LEMMA ReadingKeepsPatient ==
  ASSUME StorefrontTypeOK, PatientInv, NEW i \in DOMAIN clicks, NEW kind,
         NEW to \in {"writing", "read"}, Reads(i, kind, to),
         UNCHANGED <<open, query, currency, cart, lapsed, charged, hasty>>
  PROVE  PatientInv'
  <1>1. /\ DOMAIN clicks' = DOMAIN clicks
        /\ clicks[i].at = "sent" /\ clicks'[i].at = to /\ clicks'[i].saw = cart[UserBy(i)]
        /\ \A j \in DOMAIN clicks : /\ clicks'[j].kind = clicks[j].kind
                                    /\ clicks'[j].by = clicks[j].by
                                    /\ clicks'[j].shown = clicks[j].shown
                                    /\ UserBy(j)' = UserBy(j)
                                    /\ j # i => clicks'[j] = clicks[j]
    BY ReadingOn
  <1>2. \A d \in Clients : AllTold(d)' <=> AllTold(d)
    BY <1>1, UntoldAsBefore
  <1>3. OrdersShown'
    <2> SUFFICES ASSUME NEW j \in DOMAIN clicks, clicks[j].kind = "order", UserBy(j) \notin hasty
                 PROVE  /\ clicks'[j].at = "sent" => IsCart(clicks[j].shown, UserBy(j))'
                        /\ clicks'[j].at = "read" \/ j \in charged => SawShown(j)'
      BY <1>1 DEF OrdersShown, IsCart
    <2>1. CASE j = i
      <3>1. IsCart(clicks[i].shown, UserBy(i))
        BY <1>1, <2>1 DEF PatientInv, OrdersShown
      <3>2. SawShown(i)'
        BY <1>1, <3>1 DEF IsCart, SawShown
      <3>3. QED
        BY <1>1, <2>1, <3>2
    <2>2. CASE j # i
      BY <1>1, <2>2 DEF PatientInv, OrdersShown, IsCart, SawShown
    <2>3. QED
      BY <2>1, <2>2
  <1>4. ShowsCart' /\ OneFetch'
    BY <1>2 DEF PatientInv, ShowsCart, OneFetch, IsCart, Alone, Active, Shown, StorefrontTypeOK
  <1>5. QED
    BY <1>3, <1>4 DEF PatientInv

\* A client that waits for nothing has been told of all its clicks, if its user is patient.
LEMMA IdleIsTold ==
  ASSUME NeverRefused, NEW c \in Clients, Idle(c), UserOf[c] \notin hasty
  PROVE  AllTold(c)
  BY DEF Idle, AllTold, NeverRefused, UserBy

\* A user clicks: if he is patient, he is shown the cart.
LEMMA ClickKeepsPatient ==
  ASSUME StorefrontTypeOK, OrdersInv, OnceInv, NeverRefused, PatientInv,
         NEW c \in Clients, NEW kind \in {"add", "empty", "order"}, Click(c, kind)
  PROVE  PatientInv'
  <1> USE DEF browser, shop, store
  <1> DEFINE e == [by |-> c, kind |-> kind, at |-> "sent", shown |-> Shown(c), saw |-> {}]
  <1>1. /\ clicks \in Seq(ClickType) /\ Len(clicks) \in Nat
        /\ \A i \in DOMAIN clicks : clicks[i] \in ClickType
    <2>1. clicks \in Seq(ClickType)
      BY DEF StorefrontTypeOK
    <2>2. QED
      BY <2>1, LenProperties, ElementOfSeq
  <1>2. /\ clicks' = Append(clicks, e) /\ c \in open
        /\ UNCHANGED <<open, query, currency, cart, lapsed, charged>>
        /\ hasty' = IF Idle(c) /\ Alone(c) THEN hasty ELSE hasty \cup {UserOf[c]}
    BY DEF Click, Presses
  <1>3. e.by = c /\ e.at = "sent" /\ e.shown = Shown(c)
    OBVIOUS
  <1> HIDE DEF e
  <1>0. PICK n \in Nat : n = Len(clicks) + 1
    BY <1>1
  <1>4. clicks'[n] = e
    BY <1>0, <1>1, <1>2
  <1>5. /\ DOMAIN clicks' = DOMAIN clicks \cup {n} /\ n \notin DOMAIN clicks
        /\ \A j \in DOMAIN clicks : clicks'[j] = clicks[j]
    BY <1>0, ClickIsAdded
  <1>6. UserBy(n)' = UserOf[c] /\ \A j \in DOMAIN clicks : UserBy(j)' = UserBy(j)
    BY <1>3, <1>4, <1>5 DEF UserBy
  <1>7. ~AllTold(c)' /\ \A d \in Clients \ {c} : AllTold(d)' <=> AllTold(d)
    BY <1>3, <1>4, <1>5 DEF AllTold
  <1>8. UserOf[c] \notin hasty' => Idle(c) /\ Alone(c) /\ UserOf[c] \notin hasty /\ AllTold(c)
    BY <1>2, IdleIsTold
  <1>9. hasty \subseteq hasty' /\ open \subseteq Clients
    BY <1>2 DEF StorefrontTypeOK
  <1>10. ShowsCart'
    BY <1>2, <1>7, <1>9 DEF PatientInv, ShowsCart, IsCart, Alone, Active, Shown
  <1>11. OneFetch'
    <2>1. UserOf[c] \notin hasty' => Active(c).has
      BY <1>2, <1>8 DEF Idle, PatientInv, OneFetch
    <2>2. QED
      BY <1>2, <1>7, <1>9, <2>1 DEF PatientInv, OneFetch, Active
  <1>12. OrdersShown'
    <2>1. UserOf[c] \notin hasty' => IsCart(Shown(c), UserOf[c])
      BY <1>2, <1>8 DEF Idle, PatientInv, ShowsCart
    <2>2. n \notin charged
      BY <1>5 DEF OrdersInv
    <2>3. ASSUME NEW j \in DOMAIN clicks', clicks'[j].kind = "order", UserBy(j)' \notin hasty'
          PROVE  /\ clicks'[j].at = "sent" => IsCart(clicks'[j].shown, UserBy(j)')
                 /\ clicks'[j].at = "read" \/ j \in charged => SawShown(j)'
      <3>1. CASE j = n
        BY <1>3, <1>4, <1>6, <2>1, <2>2, <2>3, <3>1
      <3>2. CASE j # n
        BY <1>2, <1>5, <1>6, <1>9, <2>3, <3>2 DEF PatientInv, OrdersShown, SawShown
      <3>3. QED
        BY <3>1, <3>2
    <2>4. QED
      BY <1>2, <2>3 DEF OrdersShown, IsCart
  <1>13. QED
    BY <1>10, <1>11, <1>12 DEF PatientInv

\* A user selects a currency, the cart in which is then fetched.
LEMMA SelectingKeepsPatient ==
  ASSUME StorefrontTypeOK, NeverRefused, PatientInv,
         NEW c \in Clients, NEW k \in Currencies, SelectCurrency(c, k)
  PROVE  PatientInv'
  <1> USE DEF shop, store
  <1> DEFINE q == Fetched(query[c][k])
  <1>1. /\ query' = [query EXCEPT ![c][k] = q] /\ currency' = [currency EXCEPT ![c] = k]
        /\ k # currency[c] /\ UNCHANGED <<open, clicks, cart, lapsed, charged>>
        /\ hasty' = IF Idle(c) /\ Alone(c) THEN hasty ELSE hasty \cup {UserOf[c]}
    BY DEF SelectCurrency, Presses
  <1>2. query[c][k].at = "none" => q.at = "sent"
    BY FetchBegins DEF StorefrontTypeOK, Fetched
  <1> HIDE DEF q
  <1>3. /\ \A d \in Clients : \A j \in Currencies :
             query'[d][j] = IF d = c /\ j = k THEN q ELSE query[d][j]
        /\ \A d \in Clients : currency'[d] = IF d = c THEN k ELSE currency[d]
        /\ \A d \in Clients : currency[d] \in Currencies
        /\ open \subseteq Clients
    BY <1>1 DEF StorefrontTypeOK
  <1>4. /\ \A d \in Clients \ {c} : Active(d)' = Active(d) /\ Shown(d)' = Shown(d)
        /\ Active(c)' = q
    BY <1>3 DEF Active, Shown
  <1>5. \A d \in Clients : (AllTold(d)' <=> AllTold(d)) /\ (Alone(d)' <=> Alone(d))
    BY <1>1 DEF AllTold, Alone
  <1>6. hasty \subseteq hasty'
    BY <1>1
  <1>7. ASSUME UserOf[c] \notin hasty'
        PROVE  /\ AllTold(c) /\ q.at = "sent"
               /\ \A j \in Currencies \ {k} : query'[c][j].at = "none"
    <2>1. Idle(c) /\ UserOf[c] \notin hasty
      BY <1>1, <1>7
    <2>2. \A j \in Currencies : query[c][j].at = "none"
      BY <2>1 DEF Idle, Active, PatientInv, OneFetch
    <2>3. QED
      BY <1>2, <1>3, <2>1, <2>2, IdleIsTold
  <1>8. ShowsCart'
    <2> SUFFICES ASSUME NEW d \in open, UserOf[d] \notin hasty', Alone(d), AllTold(d)
                 PROVE  /\ Active(d)'.at = "none" => IsCart(Shown(d)', UserOf[d])
                        /\ Active(d)'.at = "back" => IsCart(Active(d)'.got.items, UserOf[d])
      BY <1>1, <1>3, <1>5 DEF ShowsCart, IsCart
    <2>1. CASE d = c
      BY <1>4, <1>7, <2>1
    <2>2. CASE d # c
      BY <1>3, <1>4, <1>6, <2>2 DEF PatientInv, ShowsCart
    <2>3. QED
      BY <2>1, <2>2
  <1>9. OneFetch'
    <2> SUFFICES ASSUME NEW d \in Clients, UserOf[d] \notin hasty'
                 PROVE  /\ \A j \in Currencies \ {currency'[d]} : query'[d][j].at = "none"
                        /\ d \in open /\ (Active(d)'.at = "none" \/ ~AllTold(d)) => Active(d)'.has
      BY <1>1, <1>5 DEF OneFetch
    <2>1. CASE d = c
      BY <1>3, <1>4, <1>7, <2>1
    <2>2. CASE d # c
      BY <1>3, <1>4, <1>6, <2>2 DEF PatientInv, OneFetch
    <2>3. QED
      BY <2>1, <2>2
  <1>10. OrdersShown'
    BY <1>1, <1>6 DEF PatientInv, OrdersShown, IsCart, SawShown, UserBy
  <1>11. QED
    BY <1>8, <1>9, <1>10 DEF PatientInv

\* A client is told of its click, and fetches the cart that the click has changed.
LEMMA TellingKeepsPatient ==
  ASSUME StorefrontTypeOK, OnceInv, PatientInv, NEW i \in DOMAIN clicks, ReceiveGood(i)
  PROVE  PatientInv'
  <1> USE DEF shop, store
  <1>1. /\ clicks \in Seq(ClickType) /\ clicks[i].at = "ok"
        /\ clicks' = [clicks EXCEPT ![i].at = "told"]
        /\ UNCHANGED <<open, currency, cart, lapsed, charged, hasty>>
    BY DEF ReceiveGood, Good, StorefrontTypeOK
  <1>2. /\ DOMAIN clicks' = DOMAIN clicks /\ clicks'[i].at = "told"
        /\ \A j \in DOMAIN clicks : /\ clicks'[j].kind = clicks[j].kind
                                    /\ clicks'[j].by = clicks[j].by
                                    /\ clicks'[j].saw = clicks[j].saw
                                    /\ clicks'[j].shown = clicks[j].shown
                                    /\ UserBy(j)' = UserBy(j)
                                    /\ j # i => clicks'[j].at = clicks[j].at
    BY <1>1, GoingOn
  <1>0. PICK c : c = clicks[i].by
    OBVIOUS
  <1>3. /\ c \in Clients
        /\ \A d \in Clients \ {c} : \A k \in Currencies : query'[d][k] = query[d][k]
        /\ \A k \in Currencies \ {currency[c]} : query'[c][k].at = query[c][k].at
        /\ query'[c][currency[c]].has = query[c][currency[c]].has
        /\ query[c][currency[c]].has => query'[c][currency[c]].at = "sent"
    BY <1>0, GoodAnswerFetches
  <1>4. c \in open /\ ~AllTold(c) /\ UserBy(i) = UserOf[c]
    BY <1>0, <1>1 DEF OnceInv, OneAtATime, AllTold, UserBy
  <1>5. \A d \in Clients \ {c} : AllTold(d)' <=> AllTold(d)
    BY <1>0, <1>2 DEF AllTold
  <1>6. /\ \A d \in Clients : currency[d] \in Currencies
        /\ open \subseteq Clients
    BY DEF StorefrontTypeOK
  <1>7. \A d \in Clients \ {c} : Active(d)' = Active(d) /\ Shown(d)' = Shown(d)
    BY <1>1, <1>3, <1>6 DEF Active, Shown
  <1>8. UserOf[c] \notin hasty => Active(c)'.at = "sent" /\ Active(c)'.has
    <2>1. UserOf[c] \notin hasty => Active(c).has
      BY <1>3, <1>4 DEF PatientInv, OneFetch
    <2>2. QED
      BY <1>1, <1>3, <2>1 DEF Active
  <1>9. ShowsCart'
    <2> SUFFICES ASSUME NEW d \in open, UserOf[d] \notin hasty, Alone(d), AllTold(d)'
                 PROVE  /\ Active(d)'.at = "none" => IsCart(Shown(d)', UserOf[d])
                        /\ Active(d)'.at = "back" => IsCart(Active(d)'.got.items, UserOf[d])
      BY <1>1 DEF ShowsCart, IsCart, Alone
    <2>1. CASE d = c
      BY <1>8, <2>1
    <2>2. CASE d # c
      BY <1>5, <1>6, <1>7, <2>2 DEF PatientInv, ShowsCart
    <2>3. QED
      BY <2>1, <2>2
  <1>10. OneFetch'
    <2> SUFFICES ASSUME NEW d \in Clients, UserOf[d] \notin hasty
                 PROVE  /\ \A j \in Currencies \ {currency[d]} : query'[d][j].at = "none"
                        /\ d \in open /\ (Active(d)'.at = "none" \/ ~AllTold(d)')
                             => Active(d)'.has
      BY <1>1 DEF OneFetch
    <2>1. CASE d = c
      <3>1. \A j \in Currencies \ {currency[d]} : query'[d][j].at = "none"
        BY <1>3, <2>1 DEF PatientInv, OneFetch
      <3>2. QED
        BY <1>8, <2>1, <3>1
    <2>2. CASE d # c
      BY <1>3, <1>5, <1>7, <2>2 DEF PatientInv, OneFetch
    <2>3. QED
      BY <2>1, <2>2
  <1>11. OrdersShown'
    BY <1>1, <1>2 DEF PatientInv, OrdersShown, IsCart, SawShown
  <1>12. QED
    BY <1>9, <1>10, <1>11 DEF PatientInv

\* Whatever others do, and whatever is lost or fails for them: who waits for each click to
\* end before the next, has no other client open and never gets an error is charged for
\* exactly what he was shown when he clicked; or, if a cart of his lapsed or an order of
\* his emptied one after it had ended, for an empty cart.
THEOREM PatientUsersAreChargedWhatIsShown == StoreSpec => []PatientUserOrdersWhatIsShown
  <1>1. StoreInit => PatientInv
    BY EmptySeq, StorefrontAssumption
       DEF StoreInit, NoFetch, PatientInv, ShowsCart, OneFetch, OrdersShown
  <1>2. StorefrontTypeOK /\ OrdersInv /\ OnceInv /\ NeverRefused /\ PatientInv
        /\ [StoreNext]_storeVars => PatientInv'
    <2> SUFFICES ASSUME StorefrontTypeOK, OrdersInv, OnceInv, NeverRefused, PatientInv,
                        [StoreNext]_storeVars
                 PROVE  PatientInv'
      OBVIOUS
    <2> USE DEF browser, shop, store
    <2>0. \A c \in Clients : currency[c] \in Currencies
      BY DEF StorefrontTypeOK
    <2>1. ASSUME NEW c \in Clients, Open(c) PROVE PatientInv'
      <3>1. c \notin open /\ open' = open \cup {c} /\ UNCHANGED <<currency, clicks, shop, hasty>>
        BY <2>1 DEF Open
      <3>2. AllTold(c)
        BY <3>1 DEF AllTold, OnceInv, OneAtATime
      <3>3. Fetches(c, currency[c])
        BY <2>1, ClientsFetch
      <3>4. query'[c][currency[c]].at = "sent"
        <4>1. query' = [query EXCEPT ![c][currency[c]] = Started(query[c][currency[c]])]
          BY <2>1 DEF Open
        <4>2. Started(query[c][currency[c]]).at = "sent"
          BY <2>0, FetchBegins DEF StorefrontTypeOK
        <4>3. QED
          BY <2>0, <4>1, <4>2 DEF StorefrontTypeOK
      <3>5. QED
        BY <2>0, <3>1, <3>2, <3>3, <3>4, FetchingKeepsPatient
    <2>2. ASSUME NEW c \in Clients, Focus(c) PROVE PatientInv'
      <3>1. UNCHANGED <<open, currency, clicks, shop, hasty>>
        BY <2>2 DEF Focus
      <3>2. Fetches(c, currency[c])
        BY <2>2, ClientsFetch
      <3>3. QED
        BY <2>0, <3>1, <3>2, FetchingKeepsPatient
    <2>3. ASSUME NEW c \in Clients, NEW k \in Currencies,
                 ServeCart(c, k) \/ ReceiveCart(c, k) \/ FailCart(c, k)
          PROVE  PatientInv'
      <3>1. /\ UNCHANGED <<open, currency, clicks, shop>> /\ hasty \subseteq hasty'
            /\ query[c][k].at # "none"
        BY <2>3 DEF ServeCart, ReceiveCart, FailCart
      <3>2. Fetches(c, k)
        BY <2>3, ClientsFetch
      <3>3. QED
        BY <3>1, <3>2, FetchingKeepsPatient
    <2>4. ASSUME NEW c \in Clients, NEW k \in Currencies, SelectCurrency(c, k)
          PROVE  PatientInv'
      BY <2>4, SelectingKeepsPatient
    <2>5. ASSUME NEW c \in Clients, AddItem(c) \/ EmptyCart(c) \/ PlaceOrder(c)
          PROVE  PatientInv'
      BY <2>5, ClickKeepsPatient DEF AddItem, EmptyCart, PlaceOrder
    <2>6. ASSUME NEW i \in DOMAIN clicks, Execute(i) PROVE PatientInv'
      BY <2>6, ExecutionKeepsPatient
    <2>7. ASSUME NEW i \in DOMAIN clicks, NEW well \in BOOLEAN,
                 \/ Added(i) \/ AnswerAdd(i, well) \/ ServeEmpty(i) \/ Emptied(i)
                 \/ Charge(i) \/ Ship(i, well) \/ GoOn(i) \/ LookUp(i, well) \/ Fail(i)
                 \/ ReceiveError(i)
          PROVE  PatientInv'
      <3>1. PICK to \in {"added", "charged", "writing", "placed", "ok", "error", "refused"} :
               clicks' = [clicks EXCEPT ![i].at = to]
        BY <2>7 DEF Added, AnswerAdd, ServeEmpty, Emptied, Charge, Ship, GoOn, LookUp, Fail, Goes,
                    ReceiveError
      <3>2. /\ clicks[i].at # "told" /\ UNCHANGED <<open, query, currency, cart, lapsed>>
            /\ hasty \subseteq hasty'
        BY <2>7 DEF Added, AnswerAdd, ServeEmpty, Emptied, Charge, Ship, GoOn, LookUp, Fail, Goes,
                    ReceiveError, Sends
      <3>3. \/ charged' = charged
            \/ charged' = charged \cup {i} /\ clicks[i].at = "read"
        BY <2>7 DEF Added, AnswerAdd, ServeEmpty, Emptied, Charge, Ship, GoOn, LookUp, Fail, Goes,
                    ReceiveError
      <3>4. QED
        BY <3>1, <3>2, <3>3, GoingOnKeepsPatient
    <2>8. ASSUME NEW i \in DOMAIN clicks, ServeAdd(i) \/ ReadCart(i) PROVE PatientInv'
      <3>1. PICK kind \in {"add", "order"}, to \in {"writing", "read"} : Reads(i, kind, to)
        BY <2>8 DEF ServeAdd, ReadCart
      <3>2. UNCHANGED <<open, query, currency, cart, lapsed, charged, hasty>>
        BY <2>8 DEF ServeAdd, ReadCart, Sends
      <3>3. QED
        BY <3>1, <3>2, ReadingKeepsPatient
    <2>9. ASSUME NEW i \in DOMAIN clicks, ReceiveGood(i) PROVE PatientInv'
      BY <2>9, TellingKeepsPatient
    <2>10. ASSUME NEW u \in Users, Lapse(u) PROVE PatientInv'
      BY <2>10, LapseKeepsPatient
    <2>11. CASE UNCHANGED storeVars
      BY <2>11, SMTT(30)
      DEF storeVars, PatientInv, ShowsCart, OneFetch, OrdersShown, IsCart, SawShown,
                   Alone, AllTold, Active, Shown, UserBy
    <2>12. QED
      BY <2>1, <2>2, <2>3, <2>4, <2>5, <2>6, <2>7, <2>8, <2>9, <2>10, <2>11 DEF StoreNext
  <1>3. OrdersInv /\ PatientInv => PatientUserOrdersWhatIsShown
    BY DEF OrdersInv, ClickInv, ChangeInv, PatientInv, OrdersShown, SawShown,
           PatientUserOrdersWhatIsShown
  <1>4. QED
    BY <1>1, <1>2, <1>3, StorefrontTypeCorrect, OrdersInvariant, OnceInvariant, PTL
       DEF StoreSpec
=============================================================================
