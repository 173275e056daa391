----------------------------- MODULE OrderTotal -----------------------------
(***************************************************************************)
(* How PlaceOrder arrives at the amount it charges (checkout/main.go, from *)
(* the prepared order to chargeCard): shipping first, then each line of    *)
(* the order times its quantity, by repeated addition.  Every addition is  *)
(* wrapped in money.Must, so that an error of Sum panics, and nothing in   *)
(* the service recovers from a panic.                                      *)
(***************************************************************************)
EXTENDS Money, Sequences

CONSTANTS Code,        \* the currency of the order
          Costs,       \* what one piece of a line can cost, in that currency
          Shippings,   \* what shipping can cost, in that currency
          Quantities,  \* the quantities of a line
          MaxLines     \* bound: lines of an order

InCurrency == [units : Int, nanos : Int32, code : {Code}]

ASSUME OrderTotalAssumption ==
  /\ Code \in STRING
  /\ Costs \subseteq InCurrency
  /\ Shippings \subseteq InCurrency
  /\ Quantities \subseteq Nat
  /\ MaxLines \in Nat

VARIABLES
  pc,         \* "shipping", "items", "multiply", then "charge" or "panic"
  shipping,   \* prep.shippingCostLocalized
  items,      \* what is left of prep.orderItems, a sequence of [cost, quantity]
  total,      \* total
  out,        \* out, in MultiplySlow
  n,          \* n, in MultiplySlow
  owed,       \* the exact worth of shipping and of the lines looked at so far
  lean        \* whether the first amount added that is not zero was under a unit

vars == <<pc, shipping, items, total, out, n, owed, lean>>

Zero == Amount(0, 0, Code)
Lines == [cost : Costs, quantity : Quantities]

\* An amount whose double has at least one whole unit ...
HalfUnit(m) ==
  /\ 0 <= m.units
  /\ 0 <= m.nanos /\ m.nanos < NanosMod
  /\ m.units > 0 \/ 2 * m.nanos >= NanosMod

\* ... and one that has one whole unit itself.
WholeUnit(m) == m.units > 0 /\ 0 <= m.nanos /\ m.nanos < NanosMod

\* What becomes of lean when m is added to the total.
LeanAfter(m) == lean \/ (IsZero(total) /\ ~IsZero(m) /\ ~WholeUnit(m))

TypeOK ==
  /\ pc \in {"shipping", "items", "multiply", "charge", "panic"}
  /\ shipping \in Shippings
  /\ items \in Seq(Lines)
  /\ total \in InCurrency
  /\ out \in InCurrency
  /\ n \in Nat
  /\ owed \in Int
  /\ lean \in BOOLEAN

Init ==
  /\ pc = "shipping"
  /\ shipping \in Shippings
  /\ items \in UNION {[1..k -> Lines] : k \in 0..MaxLines}
  /\ total = Zero
  /\ out = Zero
  /\ n = 0
  /\ owed = 0
  /\ lean = FALSE

\* total = money.Must(money.Sum(total, prep.shippingCostLocalized))
AddShipping ==
  /\ pc = "shipping"
  /\ LET s == Sum(total, shipping)
     IN  /\ pc' = IF s.err = "none" THEN "items" ELSE "panic"
         /\ total' = IF s.err = "none" THEN s.m ELSE total
  /\ owed' = Value(shipping)
  /\ lean' = LeanAfter(shipping)
  /\ UNCHANGED <<shipping, items, out, n>>

\* The next line of the order enters MultiplySlow.
NextLine ==
  /\ pc = "items"
  /\ items # <<>>
  /\ pc' = "multiply"
  /\ out' = Head(items).cost
  /\ n' = Head(items).quantity
  /\ owed' = owed + Head(items).quantity * Value(Head(items).cost)
  /\ UNCHANGED <<shipping, items, total, lean>>

\* A variant whose loop runs once more than it should.
MultiplyStepFrom0 ==
  /\ pc = "multiply"
  /\ n > 0
  /\ LET s == Sum(out, Head(items).cost)
     IN  /\ pc' = IF s.err = "none" THEN "multiply" ELSE "panic"
         /\ out' = IF s.err = "none" THEN s.m ELSE out
  /\ n' = n - 1
  /\ UNCHANGED <<shipping, items, total, owed, lean>>

\* One turn of the loop of MultiplySlow: out = Must(Sum(out, m)); n--
MultiplyStep ==
  /\ pc = "multiply"
  /\ n > 1
  /\ LET s == Sum(out, Head(items).cost)
     IN  /\ pc' = IF s.err = "none" THEN "multiply" ELSE "panic"
         /\ out' = IF s.err = "none" THEN s.m ELSE out
  /\ n' = n - 1
  /\ UNCHANGED <<shipping, items, total, owed, lean>>

\* MultiplySlow returns, and total = money.Must(money.Sum(total, multPrice))
AddLine ==
  /\ pc = "multiply"
  /\ n <= 1
  /\ LET s == Sum(total, out)
     IN  /\ pc' = IF s.err = "none" THEN "items" ELSE "panic"
         /\ total' = IF s.err = "none" THEN s.m ELSE total
  /\ items' = Tail(items)
  /\ lean' = LeanAfter(out)
  /\ UNCHANGED <<shipping, out, n, owed>>

\* The loop over the lines ends: cs.chargeCard(ctx, total, ...)
Charge ==
  /\ pc = "items"
  /\ items = <<>>
  /\ pc' = "charge"
  /\ UNCHANGED <<shipping, items, total, out, n, owed, lean>>

Next == AddShipping \/ NextLine \/ MultiplyStep \/ AddLine \/ Charge

Spec == Init /\ [][Next]_vars

-----------------------------------------------------------------------------
(* What the order must be made of for its total to be right. *)

\* Nothing costs less than half a unit, unless it costs nothing.  The cheapest
\* product costs 0.99 USD, which is more than half a unit of every currency of
\* the table; a quote is 40 USD an item or more, 0 for an empty cart, 0.0 when
\* it failed; and in a currency of rate 0 everything is 0.
Payable ==
  /\ \A m \in Costs \cup Shippings : IsZero(m) \/ HalfUnit(m)
  /\ 0 \notin Quantities

-----------------------------------------------------------------------------
\* An order makes the checkout process panic only if the first of its amounts
\* that is not zero, shipping included, was less than a unit: Sum makes
\* (1, nanos - 10^9) of zero and such an amount, which the next Sum refuses.
\* Shipping of 0.0 and a line of one piece at 0.99 are enough.
NoPanic == pc = "panic" => lean

\* The card is charged what shipping and the lines are worth, to the nano.
ChargesWhatIsOwed == pc = "charge" => Value(total) = owed

\* The amount that reaches the payment service is well formed, but for the
\* same orders; and it is positive exactly when something is owed.
ChargesValidAmount ==
  pc = "charge" /\ ~lean =>
    /\ IsValid(total)
    /\ IsPositive(total) <=> owed > 0
    /\ IsZero(total) <=> owed = 0
=============================================================================
