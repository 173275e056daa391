--------------------------------- MODULE Prices ---------------------------------
(***************************************************************************)
(* What a cart costs: what the cart page shows as its total, what an order *)
(* of it is charged, and what both should be.  The price of a product goes *)
(* from the catalogue through the currency service, and the price of the   *)
(* shipping from the quote service through the shipping and the currency   *)
(* service, each time in a representation of its own.  All prices begin in *)
(* USD.  A double is exact here up to what it costs when it is cut off: a  *)
(* nano or a cent.  The sum that an order is charged is module OrderTotal. *)
(***************************************************************************)
EXTENDS Integers, FiniteSets, Functions

CONSTANTS
  Products,
  Price,         \* of each product, in nanos of a dollar
  MaxQuantity,   \* bound: pieces of each product
  Codes, Rate,   \* the rate of each code, 0 if the service does not know it
  Costs,         \* what shipping a piece may cost, in nanos of a dollar
  NanosMod       \* nanos of a unit

VARIABLES
  cart,       \* how many of each product
  currency,   \* the selected currency
  table,      \* the codes in currency_conversion
  less,       \* of each code: the nanos, 0 or 1, that a conversion to it is cut by
  quote,      \* what the shipping service answered the page, 0 before it did
  order       \* what was charged, and for what

vars == <<cart, currency, table, less, quote, order>>

Amount(n) == [units |-> n \div NanosMod, nanos |-> n % NanosMod]
Worth(m)  == m.units * NanosMod + m.nanos

Bought == {p \in Products : cart[p] > 0}
Items  == SumFunctionOnSet(cart, Bought)

-----------------------------------------------------------------------------
(* The currency service.                                                     *)

\* The loop over the digits of nanos, the last one first, forgets the zeros that
\* precede the first other digit.
Decimal[n \in 0 .. NanosMod - 1] ==
  IF n = 0 \/ 10 * n >= NanosMod THEN n ELSE Decimal[10 * n]

getDouble(m) == m.units * NanosMod + Decimal[m.nanos]

\* Variant: the rates are taken the wrong way round.
ConvertBack(m, code) == Amount((getDouble(m) * Rate["USD"]) \div Rate[code])

\* From USD.  A code that is not in the table gets there with rate 0.
Convert(m, code) ==
  LET exact == (getDouble(m) * Rate[code]) \div Rate["USD"]
  IN  Amount(IF exact = 0 THEN 0 ELSE exact - less[code])

-----------------------------------------------------------------------------
(* The quote and the shipping service.                                       *)

\* An exception leaves the quote at 0.
calculateQuote(cost, fails) == IF fails THEN 0 ELSE cost * Items

\* 100 times the double is cut to an integer, which may be a cent too few.
createQuote(value, short) ==
  LET cent  == NanosMod \div 100
      cents == (value \div cent) % 100
  IN  [units |-> value \div NanosMod,
       nanos |-> cent * (IF short /\ cents > 0 THEN cents - 1 ELSE cents)]

-----------------------------------------------------------------------------
(* The cart page.                                                            *)

\* A price in USD is not converted.
getProductPrice(p) ==
  IF currency = "USD" THEN Amount(Price[p]) ELSE Convert(Amount(Price[p]), currency)

shippingConst == Convert(quote, currency)

\* Each product once, however many pieces of it.
unitSum == SumFunctionOnSet([p \in Products |-> getProductPrice(p).units], Bought)
             + shippingConst.units
nanoSum == SumFunctionOnSet([p \in Products |-> getProductPrice(p).nanos], Bought)
             + shippingConst.nanos

\* Variant: nanos that make a unit are not carried.
TotalUncarried == [units |-> unitSum, nanos |-> nanoSum % NanosMod]

total == [units |-> unitSum + nanoSum \div NanosMod, nanos |-> nanoSum % NanosMod]

-----------------------------------------------------------------------------
NoOrder == [placed |-> FALSE, charged |-> 0, shown |-> Amount(0), quote |-> Amount(0),
            cost |-> 0, fails |-> FALSE]

Init ==
  /\ cart = [p \in Products |-> 0]
  /\ currency = "USD"
  /\ table = {c \in Codes : Rate[c] > 0}
  /\ less \in [Codes -> {0, 1}]
  /\ quote = Amount(0)
  /\ order = NoOrder

\* A piece more: shipping is asked for again, by another key.
AddItem(p) ==
  /\ ~order.placed
  /\ cart[p] < MaxQuantity
  /\ cart' = [cart EXCEPT ![p] = @ + 1]
  /\ quote' = Amount(0)
  /\ UNCHANGED <<currency, table, less, order>>

\* The list to select from is the table of the currency service.
SelectCurrency(code) ==
  /\ ~order.placed
  /\ code \in table \ {currency}
  /\ currency' = code
  /\ quote' = Amount(0)
  /\ UNCHANGED <<cart, table, less, order>>

\* Somebody else has a price converted to any code, which gets into the table.
ConvertElsewhere(code) ==
  /\ table' = table \cup {code}
  /\ UNCHANGED <<cart, currency, less, quote, order>>

\* GET /api/shipping: shown, or shown anew when the window gets the focus.
GetShipping(cost, fails, short) ==
  /\ ~order.placed
  /\ Bought # {}
  /\ quote' = createQuote(calculateQuote(cost, fails), short)
  /\ UNCHANGED <<cart, currency, table, less, order>>

\* The checkout service converts every price, and gets a quote of its own.
PlaceOrder(cost, fails, short) ==
  LET mine == createQuote(calculateQuote(cost, fails), short) IN
  /\ ~order.placed
  /\ Bought # {}
  /\ order' =
       [placed |-> TRUE, shown |-> total, quote |-> mine, cost |-> cost, fails |-> fails,
        charged |-> Worth(Convert(mine, currency)) +
                    SumFunctionOnSet(
                      [p \in Products |-> cart[p] * Worth(Convert(Amount(Price[p]), currency))],
                      Bought)]
  /\ UNCHANGED <<cart, currency, table, less, quote>>

Next ==
  \/ \E p \in Products : AddItem(p)
  \/ \E code \in Codes : SelectCurrency(code) \/ ConvertElsewhere(code)
  \/ \E cost \in Costs, fails, short \in BOOLEAN :
       GetShipping(cost, fails, short) \/ PlaceOrder(cost, fails, short)

-----------------------------------------------------------------------------
(* Properties.                                                               *)

\* The zeros of m get lost when it is converted.
LosesZeros(m) == Worth(m) # getDouble(m)

Near(n, m, by) == n - m <= by /\ m - n <= by

\* An order is charged what the cart page shows, to a nano for each product, if there is
\* one piece of each and the page has got the price of shipping that the order gets; unless the page
\* shows dollars, which it does not have converted, and the conversion of a price loses zeros.
ChargedIsShown ==
  /\ order.placed /\ order.quote = quote
  /\ \A p \in Bought : cart[p] = 1
  /\ currency = "USD" => \A p \in Bought : ~LosesZeros(Amount(Price[p]))
  => Near(order.charged, Worth(order.shown), Cardinality(Bought))

\* An order is charged what the catalogue and the quote say, in the selected currency, to
\* a cent of shipping and two nanos for shipping and for each piece; unless a price, or a
\* quote that has lost a cent, loses zeros, or the quote failed.  In a currency that is in the
\* table only from being asked for, that is nothing.
ChargedIsOwed ==
  /\ order.placed /\ ~order.fails
  /\ ~LosesZeros(order.quote)
  /\ \A p \in Bought : ~LosesZeros(Amount(Price[p]))
  => Near(order.charged * Rate["USD"],
          (order.cost * Items
             + SumFunctionOnSet([p \in Products |-> cart[p] * Price[p]], Bought)) * Rate[currency],
          (NanosMod \div 100) * Rate[currency] + 2 * (Items + 1) * Rate["USD"])
=============================================================================
