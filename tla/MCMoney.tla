------------------------------- MODULE MCMoney -------------------------------
(***************************************************************************)
(* Two amounts and an order's total, both in tenths, in one run: a         *)
(* behaviour is of one of them, its scene, and the variables of the other  *)
(* stay as they are.                                                       *)
(***************************************************************************)
EXTENDS MoneyLaws, OrderTotal

VARIABLE scene

\* Every amount of -2 to 2 units, valid or not, in two currencies for one operand.
MCAmounts == [units : -2..2, nanos : -12..12, code : {"USD"}]
             \cup [units : {1}, nanos : {0, 5}, code : {"EUR"}]

\* Payable orders: nothing, and prices on both sides of the one-unit and half-unit marks,
\* with and without a carry.
MCCosts     == {Amount(0, 0, "USD"), Amount(0, 5, "USD"), Amount(0, 9, "USD"),
                Amount(1, 0, "USD"), Amount(2, 7, "USD")}
MCShippings == {Amount(0, 0, "USD"), Amount(0, 6, "USD"), Amount(1, 0, "USD"), Amount(4, 9, "USD")}

MCInit ==
  \/ scene = "laws" /\ AnyOperands /\ Init /\ items = <<>> /\ shipping = Amount(1, 0, "USD")
  \/ scene = "total" /\ Init /\ l = Zero /\ r = Zero

MCNext ==
  /\ UNCHANGED scene
  /\ \/ scene = "laws" /\ Another /\ UNCHANGED vars
     \/ scene = "total" /\ Next /\ UNCHANGED operands

MCSpec == MCInit /\ [][MCNext]_<<scene, operands, vars>>
=============================================================================
