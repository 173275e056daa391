----------------------------- MODULE MoneyLaws -----------------------------
(***************************************************************************)
(* What the money functions owe their callers, for two amounts l and r     *)
(* taken at will from a set of amounts, the ones no caller should build    *)
(* included (nanos out of range, signs that do not match).                 *)
(***************************************************************************)
EXTENDS Money

CONSTANTS Amounts   \* the amounts the functions are applied to

ASSUME AmountsAssumption == Amounts \subseteq AnyAmount

VARIABLES l, r
operands == <<l, r>>

AnyOperands == l \in Amounts /\ r \in Amounts

\* The functions are called again with another right operand.
Another == r' \in Amounts /\ UNCHANGED l

Laws == AnyOperands /\ [][Another]_operands

OperandsOK == l \in Amounts /\ r \in Amounts

-----------------------------------------------------------------------------
Units == l.units + r.units
Nanos == l.nanos + r.nanos

\* Sum loses no nano unit, its int32 intermediate results included, except in
\* the one case where it does: no whole units, and nanos from which one unit
\* more cannot be subtracted in an int32 (less than -1147483648 of them).
SumIsExact ==
  (Sum(l, r).err = "none" /\ (Units # 0 \/ Nanos - NanosMod >= -Int32Half))
    => Value(Sum(l, r).m) = Value(l) + Value(r)

\* The result of Sum is itself a valid amount, hence a valid operand of the
\* next Sum, exactly when the two whole parts do not cancel out and leave a
\* nano part of less than one unit.
SumIsValidUnlessUnitsVanish ==
  Sum(l, r).err = "none" =>
    (IsValid(Sum(l, r).m) <=> ~(Units = 0 /\ Nanos # 0 /\ Nanos < NanosMod))

\* Where IsPositive and IsNegative look at the nanos, on valid amounts and, by
\* the precedence of &&, on all that have no whole units, the predicates are
\* the sign of what the amount is worth; on others neither is true.  Negating
\* a valid amount swaps them.
SignsAgreeWithValue ==
  /\ IsValid(l) \/ l.units = 0 =>
       /\ IsPositive(l) <=> Value(l) > 0
       /\ IsNegative(l) <=> Value(l) < 0
       /\ IsZero(l) <=> Value(l) = 0
  /\ ~IsValid(l) /\ l.units # 0 => ~IsPositive(l) /\ ~IsNegative(l)
  /\ IsValid(l) => (IsPositive(Negate(l)) <=> IsNegative(l))

\* demo.proto, on Money: "If `units` is positive, `nanos` must be positive or
\* zero." and money.go line 95: "nanos guaranteed to not to go over the limit".
\* The amounts Sum accepts do not always give an amount of that form.
SumKeepsMoneyForm == Sum(l, r).err = "none" => IsValid(Sum(l, r).m)
=============================================================================
