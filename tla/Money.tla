------------------------------- MODULE Money -------------------------------
(***************************************************************************)
(* The money arithmetic of the checkout service (checkout/money/money.go): *)
(* an amount is a number of whole units and a number of nano units, of a   *)
(* currency.  nanosMod is 10^9 in the code; it is a parameter here because *)
(* TLC's integers are 32 bits wide and because nothing depends on its      *)
(* value, only on how it compares with the range of int32, in which nanos  *)
(* are computed.  Units are int64 in the code and unbounded here: no       *)
(* amount of the shop comes near 2^63.                                     *)
(***************************************************************************)
EXTENDS Integers

CONSTANTS NanosMod,    \* nanosMod: nano units in one unit (10^9)
          Int32Half    \* int32 is -Int32Half .. Int32Half - 1 (2^31)

\* 2 * 10^9 < 2^31 < 3 * 10^9: two nano parts can be added in an int32, and
\* one more whole unit of nanos cannot be subtracted from that sum.
ASSUME NanosAssumption ==
  /\ NanosMod \in Nat \ {0, 1}
  /\ Int32Half \in Nat
  /\ 2 * NanosMod < Int32Half
  /\ Int32Half < 3 * NanosMod

Int32 == -Int32Half .. Int32Half - 1

\* The int32 result of one addition or subtraction of two int32 values.
Wrap32(n) == IF n >= Int32Half THEN n - 2 * Int32Half
             ELSE IF n < -Int32Half THEN n + 2 * Int32Half
             ELSE n

Amount(units, nanos, code) == [units |-> units, nanos |-> nanos, code |-> code]

AnyAmount == [units : Int, nanos : Int32, code : STRING]

\* What an amount is worth, in nano units: the reference the code is held to.
Value(m) == m.units * NanosMod + m.nanos

-----------------------------------------------------------------------------
(* Predicates *)

signMatches(m) ==
  \/ m.nanos = 0
  \/ m.units = 0
  \/ (m.nanos < 0) <=> (m.units < 0)

validNanos(nanos) == -NanosMod < nanos /\ nanos < NanosMod

IsValid(m) == signMatches(m) /\ validNanos(m.nanos)

IsZero(m) == m.units = 0 /\ m.nanos = 0

\* A variant that takes the negative amounts for the positive ones.
IsPositiveSwapped(m) == IsValid(m) /\ m.units < 0

\* && binds tighter than || in Go: the zero-units disjunct is not guarded by
\* IsValid.
IsPositive(m) == (IsValid(m) /\ m.units > 0) \/ (m.units = 0 /\ m.nanos > 0)
IsNegative(m) == (IsValid(m) /\ m.units < 0) \/ (m.units = 0 /\ m.nanos < 0)

Negate(m) == Amount(-m.units, Wrap32(-m.nanos), m.code)

-----------------------------------------------------------------------------
(* Sum and what its callers see: an amount, or an error. *)

Success(m) == [err |-> "none", m |-> m]
Failure(e) == [err |-> e, m |-> Amount(0, 0, "")]

\* A variant that forgets to carry whole units out of the nanos.
CarryNothing(nanos) == 0

\* nanos / nanosMod, which truncates toward zero.
Carry(nanos) == IF nanos >= 0 THEN nanos \div NanosMod
                ELSE -((-nanos) \div NanosMod)

\* A variant that borrows from the nanos whatever the sign of the units.
NormaliseOneWay(units, nanos, code) ==
  IF (units = 0 /\ nanos = 0) \/ (units > 0 /\ nanos >= 0) \/ (units < 0 /\ nanos <= 0)
  THEN Amount(units + Carry(nanos), nanos - NanosMod * Carry(nanos), code)
  ELSE Amount(units - 1, Wrap32(nanos + NanosMod), code)

\* Lines 87-103: the parts are added, then brought to one sign.
Normalise(units, nanos, code) ==
  IF \/ units = 0 /\ nanos = 0
     \/ units > 0 /\ nanos >= 0
     \/ units < 0 /\ nanos <= 0
  THEN Amount(units + Carry(nanos), nanos - NanosMod * Carry(nanos), code)
  ELSE IF units > 0
  THEN Amount(units - 1, Wrap32(nanos + NanosMod), code)
  ELSE Amount(units + 1, Wrap32(nanos - NanosMod), code)

Sum(l, r) ==
  IF ~IsValid(l) \/ ~IsValid(r) THEN Failure("invalid value")
  ELSE IF l.code # r.code THEN Failure("mismatching currency")
  ELSE Success(Normalise(l.units + r.units, Wrap32(l.nanos + r.nanos), l.code))
=============================================================================
