---------------------------- MODULE MoneyProofs ----------------------------
(***************************************************************************)
(* The laws of MoneyLaws for every set of amounts; and when a payable      *)
(* order panics, and that it is charged exactly what is owed, for any      *)
(* prices, quantities and number of lines.                                 *)
(***************************************************************************)
EXTENDS MoneyLaws, OrderTotal, TLAPS

-----------------------------------------------------------------------------
(* Sum, for every nanosMod that an int32 holds two but not three of.         *)

\* Division by nanosMod of a sum of two nano parts gives -1, 0 or 1.
LEMMA CarryOfTwo ==
  ASSUME NEW d \in Int, -2 * NanosMod < d, d < 2 * NanosMod
  PROVE  /\ d >= NanosMod => Carry(d) = 1
         /\ -NanosMod < d /\ d < NanosMod => Carry(d) = 0
         /\ d <= -NanosMod => Carry(d) = -1
  <1> DEFINE M == NanosMod
  <1>1. M \in Nat /\ M > 1
    BY NanosAssumption
  <1>2. ASSUME NEW a \in Nat, a < 2 * M
        PROVE a \div M = IF a >= M THEN 1 ELSE 0
    BY <1>1, <1>2
  <1>3. QED
    BY <1>1, <1>2 DEF Carry

\* Valid operands leave the int32 addition of their nanos in range.
LEMMA NanosAddInRange ==
  ASSUME NEW a \in Int, NEW b \in Int, validNanos(a), validNanos(b)
  PROVE  /\ Wrap32(a + b) = a + b
         /\ -2 * NanosMod < a + b
         /\ a + b < 2 * NanosMod
  BY NanosAssumption DEF validNanos, Wrap32

\* Normalise, on the sums it is given: exact but for one case of int32
\* overflow, and of one sign unless the units vanish.
LEMMA NormaliseOfSum ==
  ASSUME NEW u \in Int, NEW d \in Int, NEW c,
         -2 * NanosMod < d, d < 2 * NanosMod,
         u > 0 => -NanosMod < d, u < 0 => d < NanosMod
  PROVE  /\ u # 0 \/ d - NanosMod >= -Int32Half =>
              Value(Normalise(u, d, c)) = u * NanosMod + d
         /\ ~(u = 0 /\ d # 0 /\ d < NanosMod) <=> IsValid(Normalise(u, d, c))
  <1> DEFINE res == Normalise(u, d, c)
  <1>0. NanosMod \in Int /\ NanosMod > 1
    BY NanosAssumption
  <1>1. CASE \/ u = 0 /\ d = 0
             \/ u > 0 /\ d >= 0
             \/ u < 0 /\ d <= 0
    <2> DEFINE q == Carry(d)
    <2>1. /\ q \in {-1, 0, 1}
          /\ -NanosMod < d - NanosMod * q /\ d - NanosMod * q < NanosMod
          /\ d >= 0 => q >= 0 /\ d - NanosMod * q >= 0
          /\ d <= 0 => q <= 0 /\ d - NanosMod * q <= 0
      BY <1>0, CarryOfTwo
    <2>2. res = Amount(u + q, d - NanosMod * q, c)
      BY <1>1 DEF Normalise
    <2> HIDE DEF q
    <2>3. res.units = u + q /\ res.nanos = d - NanosMod * q
      BY <2>2 DEF Amount
    <2>4. Value(res) = u * NanosMod + d
      BY <1>0, <2>1, <2>3 DEF Value
    <2>5. IsValid(res)
      BY <1>0, <1>1, <2>1, <2>3 DEF IsValid, signMatches, validNanos
    <2>6. QED
      BY <1>1, <2>4, <2>5
  <1>2. CASE u > 0 /\ d < 0
    <2>1. res = Amount(u - 1, d + NanosMod, c)
      BY <1>2, NanosAssumption DEF Normalise, Wrap32
    <2>2. res.units = u - 1 /\ res.nanos = d + NanosMod
      BY <2>1 DEF Amount
    <2>3. Value(res) = u * NanosMod + d
      BY <1>0, <2>2 DEF Value
    <2>4. QED
      BY <1>0, <1>2, <2>2, <2>3 DEF IsValid, signMatches, validNanos
  <1>3. CASE u < 0 /\ d > 0
    <2>1. res.units = u + 1 /\ res.nanos = d - NanosMod
      BY <1>3, NanosAssumption DEF Normalise, Wrap32, Amount
    <2>2. Value(res) = u * NanosMod + d
      BY <1>0, <2>1 DEF Value
    <2>3. QED
      BY <1>0, <1>3, <2>1, <2>2 DEF IsValid, signMatches, validNanos
  <1>4. CASE u = 0 /\ d > 0
    <2>1. res.units = 1 /\ res.nanos = d - NanosMod
      BY <1>4, NanosAssumption DEF Normalise, Wrap32, Amount
    <2>2. Value(res) = u * NanosMod + d
      BY <1>0, <1>4, <2>1 DEF Value
    <2>3. QED
      BY <1>0, <1>4, <2>1, <2>2 DEF IsValid, signMatches, validNanos
  <1>5. CASE u = 0 /\ d < 0
    <2>1. res.units = 1 /\ res.nanos = Wrap32(d - NanosMod)
      BY <1>5, NanosAssumption DEF Normalise, Amount
    <2>2. \/ Wrap32(d - NanosMod) < -NanosMod
          \/ Wrap32(d - NanosMod) > NanosMod
      BY <1>0, <1>5, NanosAssumption DEF Wrap32
    <2>3. Wrap32(d - NanosMod) \in Int
      BY <1>0, <1>5, NanosAssumption DEF Wrap32
    <2>4. ~validNanos(res.nanos)
      BY <1>0, <2>1, <2>2, <2>3 DEF validNanos
    <2>5. d - NanosMod >= -Int32Half => Value(res) = u * NanosMod + d
      BY <1>0, <1>5, <2>1, NanosAssumption DEF Wrap32, Value
    <2>6. QED
      BY <1>0, <1>5, <2>4, <2>5 DEF IsValid
  <1>6. QED
    BY <1>1, <1>2, <1>3, <1>4, <1>5

-----------------------------------------------------------------------------
\* The operands of a Sum that succeeds, as NormaliseOfSum needs them.
LEMMA SumIsNormalise ==
  ASSUME NEW a \in AnyAmount, NEW b \in AnyAmount, Sum(a, b).err = "none"
  PROVE  LET u == a.units + b.units
             d == a.nanos + b.nanos
         IN  /\ IsValid(a) /\ IsValid(b)
             /\ u \in Int /\ d \in Int
             /\ -2 * NanosMod < d /\ d < 2 * NanosMod
             /\ u > 0 => -NanosMod < d
             /\ u < 0 => d < NanosMod
             /\ Sum(a, b).m = Normalise(u, d, a.code)
  <1>1. IsValid(a) /\ IsValid(b)
    BY DEF Sum, Failure
  <1>2. /\ a.units \in Int /\ a.nanos \in Int
        /\ b.units \in Int /\ b.nanos \in Int
    BY NanosAssumption DEF AnyAmount, Int32
  <1>3. /\ Wrap32(a.nanos + b.nanos) = a.nanos + b.nanos
        /\ -2 * NanosMod < a.nanos + b.nanos
        /\ a.nanos + b.nanos < 2 * NanosMod
    BY <1>1, <1>2, NanosAddInRange DEF IsValid
  <1>4. Sum(a, b).m = Normalise(a.units + b.units, a.nanos + b.nanos, a.code)
    BY <1>1, <1>3 DEF Sum, Success, Failure
  <1>5. /\ a.units + b.units > 0 => -NanosMod < a.nanos + b.nanos
        /\ a.units + b.units < 0 => a.nanos + b.nanos < NanosMod
    BY <1>1, <1>2, NanosAssumption DEF IsValid, signMatches, validNanos
  <1>6. QED
    BY <1>1, <1>2, <1>3, <1>4, <1>5

-----------------------------------------------------------------------------
(* The laws.                                                                 *)

\* The arguments stay amounts of the set, so the laws are about amounts.
LEMMA OperandsCorrect == Laws => []OperandsOK
  <1>1. AnyOperands => OperandsOK
    BY DEF AnyOperands, OperandsOK
  <1>2. OperandsOK /\ [Another]_operands => OperandsOK'
    BY DEF OperandsOK, Another, operands
  <1>3. QED
    BY <1>1, <1>2, PTL DEF Laws

\* Sum is exact on every pair of amounts, whatever nanosMod is: it can lose
\* nano units only of a sum without whole units whose nanos, less one unit
\* more, are not in int32.
THEOREM SumExact == Laws => []SumIsExact
  <1>1. OperandsOK => SumIsExact
    <2> SUFFICES ASSUME OperandsOK, Sum(l, r).err = "none",
                        Units # 0 \/ Nanos - NanosMod >= -Int32Half
                 PROVE  Value(Sum(l, r).m) = Value(l) + Value(r)
      BY DEF SumIsExact
    <2>1. l \in AnyAmount /\ r \in AnyAmount
      BY AmountsAssumption DEF OperandsOK
    <2>2. Value(Sum(l, r).m) = (l.units + r.units) * NanosMod + (l.nanos + r.nanos)
      BY <2>1, SumIsNormalise, NormaliseOfSum DEF Units, Nanos
    <2>3. QED
      BY <2>1, <2>2, NanosAssumption DEF Value, AnyAmount, Int32
  <1>2. QED
    BY <1>1, OperandsCorrect, PTL

\* Sum gives back a valid amount exactly when the units do not vanish from
\* under a nano part of less than one unit.
THEOREM SumValid == Laws => []SumIsValidUnlessUnitsVanish
  <1>1. OperandsOK => SumIsValidUnlessUnitsVanish
    <2> SUFFICES ASSUME OperandsOK, Sum(l, r).err = "none"
                 PROVE  IsValid(Sum(l, r).m)
                          <=> ~(Units = 0 /\ Nanos # 0 /\ Nanos < NanosMod)
      BY DEF SumIsValidUnlessUnitsVanish
    <2>1. l \in AnyAmount /\ r \in AnyAmount
      BY AmountsAssumption DEF OperandsOK
    <2> DEFINE u == l.units + r.units
               d == l.nanos + r.nanos
    <2>2. /\ u \in Int /\ d \in Int
          /\ -2 * NanosMod < d /\ d < 2 * NanosMod
          /\ u > 0 => -NanosMod < d
          /\ u < 0 => d < NanosMod
          /\ Sum(l, r).m = Normalise(u, d, l.code)
      BY <2>1, SumIsNormalise
    <2> HIDE DEF u, d
    <2>3. ~(u = 0 /\ d # 0 /\ d < NanosMod) <=> IsValid(Normalise(u, d, l.code))
      BY <2>2, NormaliseOfSum
    <2>4. QED
      BY <2>2, <2>3 DEF Units, Nanos, u, d
  <1>2. QED
    BY <1>1, OperandsCorrect, PTL

\* At least one whole unit, of either sign, outweighs the nano part of a valid amount.
LEMMA UnitsOutweighNanos ==
  ASSUME NEW u \in Int, NEW k \in Int, validNanos(k)
  PROVE  /\ u > 0 => u * NanosMod + k > 0
         /\ u < 0 => u * NanosMod + k < 0
         /\ u = 0 => u * NanosMod + k = k
  <1> DEFINE M == NanosMod
  <1>1. M \in Int /\ M > 1 /\ -M < k /\ k < M
    BY NanosAssumption DEF validNanos
  <1>2. u > 0 => u * M >= M
    BY <1>1, Z3
  <1>3. u < 0 => u * M <= -M
    BY <1>1, Z3
  <1>4. u * M \in Int /\ (u = 0 => u * M = 0)
    BY <1>1
  <1> HIDE DEF M
  <1>5. /\ u > 0 => u * M + k > 0
        /\ u < 0 => u * M + k < 0
        /\ u = 0 => u * M + k = k
    BY <1>1, <1>2, <1>3, <1>4
  <1>6. QED
    BY <1>5 DEF M

\* The predicates are the sign of what an amount is worth that is valid or has no whole
\* units, whatever nanosMod is, and false of others; Negate, whose int32 negation never
\* wraps on a valid amount, turns that sign round.
THEOREM PredicatesAreSigns == Laws => []SignsAgreeWithValue
  <1>1. OperandsOK => SignsAgreeWithValue
    <2> SUFFICES ASSUME OperandsOK PROVE SignsAgreeWithValue
      OBVIOUS
    <2> DEFINE u == l.units
               k == l.nanos
    <2>1. u \in Int /\ k \in Int /\ Value(l) \in Int
      BY AmountsAssumption, NanosAssumption DEF OperandsOK, AnyAmount, Int32, Value
    <2>2. u = 0 => Value(l) = k
      BY <2>1, NanosAssumption DEF Value
    <2>3. ASSUME IsValid(l)
          PROVE  /\ validNanos(k) /\ (k = 0 \/ u = 0 \/ (k < 0 <=> u < 0))
                 /\ u > 0 => Value(l) > 0
                 /\ u < 0 => Value(l) < 0
      <3>1. validNanos(k) /\ (k = 0 \/ u = 0 \/ (k < 0 <=> u < 0))
        BY <2>3 DEF IsValid, signMatches
      <3>2. QED
        BY <2>1, <3>1, UnitsOutweighNanos DEF Value
    <2>4. ASSUME IsValid(l) \/ u = 0
          PROVE  /\ IsPositive(l) <=> Value(l) > 0
                 /\ IsNegative(l) <=> Value(l) < 0
                 /\ IsZero(l) <=> Value(l) = 0
      <3>1. CASE u = 0
        BY <2>1, <2>2, <3>1 DEF IsPositive, IsNegative, IsZero
      <3>2. CASE u # 0
        <4>1. IsValid(l) /\ (u > 0 => Value(l) > 0) /\ (u < 0 => Value(l) < 0)
          BY <2>3, <2>4, <3>2
        <4>2. (IsPositive(l) <=> u > 0) /\ (IsNegative(l) <=> u < 0) /\ ~IsZero(l)
          BY <3>2, <4>1 DEF IsPositive, IsNegative, IsZero
        <4>3. QED
          BY <2>1, <3>2, <4>1, <4>2
      <3>3. QED
        BY <3>1, <3>2
    <2>5. ASSUME IsValid(l)
          PROVE  IsPositive(Negate(l)) <=> IsNegative(l)
      <3>1. Wrap32(-k) = -k /\ validNanos(-k)
        BY <2>1, <2>3, <2>5, NanosAssumption DEF validNanos, Wrap32
      <3>2. IsValid(Negate(l)) /\ Negate(l).units = -u /\ Negate(l).nanos = -k
        BY <2>1, <2>3, <2>5, <3>1 DEF IsValid, signMatches, Negate, Amount
      <3>3. IsPositive(Negate(l)) <=> (-u > 0 \/ (-u = 0 /\ -k > 0))
        BY <3>2 DEF IsPositive
      <3>4. IsNegative(l) <=> (u < 0 \/ (u = 0 /\ k < 0))
        BY <2>5 DEF IsNegative
      <3>5. (-u > 0 \/ (-u = 0 /\ -k > 0)) <=> (u < 0 \/ (u = 0 /\ k < 0))
        BY <2>1
      <3>6. QED
        BY <3>3, <3>4, <3>5
    <2>6. ~IsValid(l) /\ u # 0 => ~IsPositive(l) /\ ~IsNegative(l)
      BY DEF IsPositive, IsNegative
    <2>7. QED
      BY <2>4, <2>5, <2>6 DEF SignsAgreeWithValue
  <1>2. QED
    BY <1>1, OperandsCorrect, PTL

-----------------------------------------------------------------------------
\* Adding non-negative amounts that reach a whole unit together succeeds,
\* exactly, and gives at least one whole unit.
LEMMA SumReachesUnit ==
  ASSUME NEW a \in InCurrency, NEW b \in InCurrency,
         IsValid(a), IsValid(b),
         a.units >= 0, a.nanos >= 0, b.units >= 0, b.nanos >= 0,
         a.units + b.units > 0 \/ a.nanos + b.nanos >= NanosMod
  PROVE  /\ Sum(a, b).err = "none"
         /\ Sum(a, b).m \in InCurrency
         /\ WholeUnit(Sum(a, b).m)
         /\ Value(Sum(a, b).m) = Value(a) + Value(b)
  <1> DEFINE u == a.units + b.units
             k == a.nanos + b.nanos
             q == Carry(k)
  <1>1. /\ a \in AnyAmount /\ b \in AnyAmount
        /\ a.code = Code /\ b.code = Code
        /\ a.units \in Int /\ b.units \in Int /\ a.nanos \in Int /\ b.nanos \in Int
    BY OrderTotalAssumption, NanosAssumption DEF InCurrency, AnyAmount, Int32
  <1>2. Sum(a, b).err = "none"
    BY <1>1 DEF Sum, Success
  <1>3. /\ u \in Int /\ k \in Int /\ u >= 0 /\ k >= 0 /\ k < 2 * NanosMod
        /\ Sum(a, b).m = Normalise(u, k, Code)
    BY <1>1, <1>2, SumIsNormalise
  <1>4. Value(Sum(a, b).m) = Value(a) + Value(b)
    <2>1. /\ -2 * NanosMod < k /\ k < 2 * NanosMod /\ -NanosMod < k
          /\ ~(u < 0) /\ k - NanosMod >= -Int32Half
      BY <1>3, NanosAssumption
    <2> HIDE DEF u, k
    <2>2. Value(Normalise(u, k, Code)) = u * NanosMod + k
      BY <1>3, <2>1, NormaliseOfSum
    <2>3. QED
      BY <1>1, <1>3, <2>2, NanosAssumption DEF Value, u, k
  <1>5. q = IF k >= NanosMod THEN 1 ELSE 0
    BY <1>3, NanosAssumption, CarryOfTwo
  <1>6. Normalise(u, k, Code) = Amount(u + q, k - NanosMod * q, Code)
    <2>1. CASE u > 0 \/ k = 0
      BY <1>3, <2>1 DEF Normalise
    <2>2. CASE u = 0 /\ k # 0
      <3>1. q = 1 /\ Wrap32(k - NanosMod) = k - NanosMod
        BY <1>3, <1>5, <2>2, NanosAssumption DEF Wrap32
      <3> HIDE DEF q
      <3>2. QED
        BY <1>3, <2>2, <3>1, NanosAssumption DEF Normalise
    <2>3. QED
      BY <1>3, <2>1, <2>2
  <1> HIDE DEF q
  <1>7. /\ 0 <= k - NanosMod * q /\ k - NanosMod * q < NanosMod
        /\ u + q > 0
        /\ k - NanosMod * q \in Int32 /\ u + q \in Int
    BY <1>3, <1>5, NanosAssumption DEF Int32
  <1>8. QED
    BY <1>2, <1>3, <1>4, <1>6, <1>7 DEF WholeUnit, InCurrency, Amount

\* Adding to an amount that is zero or has a whole unit one that is zero or
\* half a unit at least: exact, and again zero or a whole unit, but for the
\* one case of a lean start.
LEMMA SumOfPayable ==
  ASSUME NEW a \in InCurrency, NEW b \in InCurrency,
         IsZero(a) \/ WholeUnit(a), IsZero(b) \/ HalfUnit(b)
  PROVE  /\ Sum(a, b).err = "none"
         /\ Sum(a, b).m \in InCurrency
         /\ Value(Sum(a, b).m) = Value(a) + Value(b)
         /\ IF IsZero(a) /\ ~IsZero(b) /\ ~WholeUnit(b)
            THEN ~IsValid(Sum(a, b).m)
            ELSE IsZero(Sum(a, b).m) \/ WholeUnit(Sum(a, b).m)
         /\ ~IsZero(b) /\ (WholeUnit(a) \/ WholeUnit(b)) => WholeUnit(Sum(a, b).m)
         /\ IsZero(a) /\ IsZero(b) => IsZero(Sum(a, b).m)
  <1>1. /\ a \in AnyAmount /\ b \in AnyAmount
        /\ a.code = Code /\ b.code = Code
        /\ a.units \in Int /\ b.units \in Int /\ a.nanos \in Int /\ b.nanos \in Int
        /\ NanosMod \in Int /\ NanosMod > 1
    BY OrderTotalAssumption, NanosAssumption DEF InCurrency, AnyAmount, Int32
  <1>2. /\ IsValid(a) /\ a.units >= 0 /\ a.nanos >= 0
        /\ IsValid(b) /\ b.units >= 0 /\ b.nanos >= 0
    BY <1>1 DEF IsZero, WholeUnit, HalfUnit, IsValid, signMatches, validNanos
  <1>3. CASE a.units + b.units > 0 \/ a.nanos + b.nanos >= NanosMod
    <2>1. /\ Sum(a, b).err = "none"
          /\ Sum(a, b).m \in InCurrency
          /\ WholeUnit(Sum(a, b).m)
          /\ Value(Sum(a, b).m) = Value(a) + Value(b)
      BY <1>2, <1>3, SumReachesUnit
    <2>2. ~(IsZero(a) /\ ~IsZero(b) /\ ~WholeUnit(b)) /\ ~(IsZero(a) /\ IsZero(b))
      BY <1>1, <1>3 DEF IsZero, WholeUnit, HalfUnit
    <2>3. QED
      BY <2>1, <2>2
  <1>4. CASE ~(a.units + b.units > 0 \/ a.nanos + b.nanos >= NanosMod)
    <2> DEFINE k == b.nanos
    <2>1. /\ a.units = 0 /\ a.nanos = 0 /\ b.units = 0 /\ IsZero(a)
          /\ ~WholeUnit(a) /\ ~WholeUnit(b) /\ (IsZero(b) <=> k = 0)
          /\ 0 <= k /\ k < NanosMod
      BY <1>1, <1>2, <1>4 DEF IsZero, WholeUnit
    <2>2. Sum(a, b).err = "none"
      BY <1>1, <1>2 DEF Sum, Success
    <2>3. Sum(a, b).m = Normalise(0, k, Code)
      <3>1. a.units + b.units = 0 /\ a.nanos + b.nanos = k
        BY <1>1, <2>1
      <3>2. QED
        BY <1>1, <2>2, <3>1, SumIsNormalise
    <2>4. Value(a) = 0 /\ Value(b) = k
      BY <1>1, <2>1 DEF Value
    <2>5. CASE k = 0
      <3>1. Carry(0) = 0
        BY <1>1, NanosAssumption, CarryOfTwo
      <3>2. Sum(a, b).m = Amount(0, 0, Code)
        BY <1>1, <2>3, <2>5, <3>1 DEF Normalise
      <3>3. QED
        BY <1>1, <2>1, <2>2, <2>4, <2>5, <3>2, OrderTotalAssumption, NanosAssumption
        DEF Amount, IsZero, Value, InCurrency, Int32
    <2>6. CASE k # 0
      <3>1. Sum(a, b).m = Amount(1, k - NanosMod, Code)
        BY <1>1, <2>1, <2>3, <2>6, NanosAssumption DEF Normalise, Wrap32
      <3>2. Sum(a, b).m.units = 1 /\ Sum(a, b).m.nanos = k - NanosMod
        BY <3>1 DEF Amount
      <3>3. ~IsValid(Sum(a, b).m)
        BY <1>1, <2>1, <3>2 DEF IsValid, signMatches
      <3>4. Sum(a, b).m \in InCurrency /\ Value(Sum(a, b).m) = k
        BY <1>1, <2>1, <3>1, NanosAssumption DEF Amount, InCurrency, Int32, Value
      <3>5. k = 0 + k
        BY <1>1
      <3>6. ~IsZero(b) /\ IsZero(a) /\ ~WholeUnit(a) /\ ~WholeUnit(b)
        BY <2>1, <2>6
      <3> HIDE DEF k
      <3>7. QED
        BY <2>2, <2>4, <3>3, <3>4, <3>5, <3>6
    <2>7. QED
      BY <2>5, <2>6
  <1>5. QED
    BY <1>3, <1>4

\* The strengthening: what total, out and n are worth at each point of the
\* computation.  A total is zero or of a whole unit, unless it is the one
\* invalid amount of a lean start, which nothing can be added to.  While a
\* line is multiplied, what is still owed is the part built so far and the
\* turns of the loop that are left.
Multiplies ==
  /\ items # <<>>
  /\ n >= 1
  /\ IsZero(Head(items).cost) => IsZero(out)
  /\ ~IsZero(Head(items).cost) => HalfUnit(out)
  /\ Value(total) + Value(out) + (n - 1) * Value(Head(items).cost) = owed

Accounts ==
  /\ pc = "panic" => lean
  /\ pc = "shipping" => total = Zero /\ ~lean
  /\ IF lean THEN pc # "panic" => ~IsValid(total)
     ELSE IsZero(total) \/ WholeUnit(total)
  /\ pc \in {"items", "charge"} => Value(total) = owed
  /\ pc = "multiply" => Multiplies

IInv == TypeOK /\ Accounts

\* The type of the amounts Sum gives back, for the steps that store them.
LEMMA PayableTypes ==
  ASSUME Payable
  PROVE  /\ \A m \in Costs \cup Shippings :
              m \in InCurrency /\ (IsZero(m) \/ HalfUnit(m)) /\ Value(m) \in Int
         /\ Zero \in InCurrency /\ IsZero(Zero) /\ Value(Zero) = 0
         /\ \A k \in Quantities : k \in Nat /\ k >= 1
  BY OrderTotalAssumption, NanosAssumption
  DEF Payable, Zero, IsZero, Amount, InCurrency, Int32, Value

\* What zero and positive amounts are worth.
LEMMA WorthOfAmounts ==
  ASSUME NEW m \in InCurrency
  PROVE  /\ Value(m) \in Int
         /\ IsZero(m) => Value(m) = 0 /\ IsValid(m) /\ ~IsPositive(m)
         /\ WholeUnit(m) => Value(m) > 0 /\ IsValid(m) /\ IsPositive(m) /\ ~IsZero(m)
  <1>1. m.units \in Int /\ m.nanos \in Int /\ NanosMod \in Int /\ NanosMod > 1
    BY NanosAssumption DEF InCurrency, Int32
  <1>2. Value(m) \in Int
    BY <1>1 DEF Value
  <1>3. ASSUME IsZero(m)
        PROVE  Value(m) = 0 /\ IsValid(m) /\ ~IsPositive(m)
    BY <1>1, <1>3 DEF IsZero, Value, IsValid, signMatches, validNanos, IsPositive
  <1>4. ASSUME WholeUnit(m)
        PROVE  Value(m) > 0 /\ IsValid(m) /\ IsPositive(m) /\ ~IsZero(m)
    <2>1. IsValid(m) /\ IsPositive(m) /\ ~IsZero(m)
      BY <1>1, <1>4 DEF WholeUnit, IsZero, IsValid, signMatches, validNanos, IsPositive
    <2>2. Value(m) > 0
      BY <1>1, <1>4, <2>1, UnitsOutweighNanos DEF WholeUnit, IsValid, Value
    <2>3. QED
      BY <2>1, <2>2
  <1>5. QED
    BY <1>2, <1>3, <1>4

THEOREM InductiveInvariant ==
  ASSUME Payable
  PROVE  Spec => []IInv
  <1>1. Init => IInv
    <2> SUFFICES ASSUME Init PROVE IInv
      OBVIOUS
    <2>1. items \in Seq(Lines)
      BY OrderTotalAssumption DEF Init
    <2>2. Zero \in InCurrency /\ IsZero(Zero)
      BY PayableTypes
    <2> HIDE DEF Zero
    <2>3. /\ pc = "shipping" /\ shipping \in Shippings /\ total = Zero /\ out = Zero
          /\ n = 0 /\ owed = 0 /\ ~lean /\ lean \in BOOLEAN
      BY Zenon DEF Init
    <2>4. TypeOK
      BY <2>1, <2>2, <2>3 DEF TypeOK
    <2>5. Accounts
      BY <2>2, <2>3 DEF Accounts
    <2>6. QED
      BY <2>4, <2>5 DEF IInv
  <1>2. IInv /\ [Next]_vars => IInv'
    <2> SUFFICES ASSUME IInv, [Next]_vars PROVE IInv'
      OBVIOUS
    <2> USE DEF IInv, TypeOK
    <2>0. /\ items # <<>> =>
                /\ Head(items) \in Lines /\ Tail(items) \in Seq(Lines)
                /\ Head(items).cost \in InCurrency
                /\ IsZero(Head(items).cost) \/ HalfUnit(Head(items).cost)
                /\ Value(Head(items).cost) \in Int
                /\ Head(items).quantity \in Nat /\ Head(items).quantity >= 1
          /\ Value(total) \in Int /\ Value(out) \in Int
      <3>1. Value(total) \in Int /\ Value(out) \in Int
        BY NanosAssumption DEF Value, InCurrency, Int32
      <3>2. ASSUME items # <<>>
            PROVE  Head(items) \in Lines /\ Tail(items) \in Seq(Lines)
        BY <3>2
      <3>3. ASSUME NEW x \in Lines
            PROVE  x.cost \in Costs /\ x.quantity \in Quantities
        BY DEF Lines
      <3>4. QED
        BY <3>1, <3>2, <3>3, PayableTypes
    <2>1. CASE AddShipping
      <3> DEFINE s == Sum(total, shipping)
      <3>1. /\ pc = "shipping" /\ ~lean /\ total \in InCurrency /\ IsZero(total)
            /\ Value(total) = 0
            /\ shipping \in InCurrency /\ (IsZero(shipping) \/ HalfUnit(shipping))
            /\ Value(shipping) \in Int
        BY <2>1, PayableTypes DEF AddShipping, Accounts
      <3>2. /\ s.err = "none" /\ s.m \in InCurrency
            /\ Value(s.m) = Value(total) + Value(shipping)
            /\ IF ~IsZero(shipping) /\ ~WholeUnit(shipping)
               THEN ~IsValid(s.m) ELSE IsZero(s.m) \/ WholeUnit(s.m)
        BY <3>1, SumOfPayable
      <3>3. lean' = (~IsZero(shipping) /\ ~WholeUnit(shipping))
        BY <2>1, <3>1 DEF AddShipping, LeanAfter
      <3>4. /\ pc' = "items" /\ total' = s.m /\ owed' = Value(shipping)
            /\ items' = items /\ out' = out /\ n' = n /\ shipping' = shipping
        BY <2>1, <3>2 DEF AddShipping
      <3> HIDE DEF s
      <3>5. TypeOK'
        BY <3>1, <3>2, <3>3, <3>4
      <3>6. Value(total') = owed'
        BY <3>1, <3>2, <3>4
      <3>7. IF lean' THEN ~IsValid(total') ELSE IsZero(total') \/ WholeUnit(total')
        BY <3>2, <3>3, <3>4
      <3>8. QED
        BY <3>4, <3>5, <3>6, <3>7 DEF Accounts
    <2>2. CASE NextLine
      <3>1. /\ items # <<>> /\ pc = "items" /\ pc' = "multiply"
            /\ out' = Head(items).cost /\ n' = Head(items).quantity
            /\ items' = items /\ total' = total /\ shipping' = shipping
            /\ owed' = owed + n' * Value(out') /\ lean' = lean
            /\ Value(out') \in Int /\ n' \in Nat /\ n' >= 1
        BY <2>0, <2>2 DEF NextLine
      <3>2. owed' = Value(total') + Value(out') + (n' - 1) * Value(out')
        BY <2>0, <3>1 DEF Accounts
      <3>3. Multiplies'
        BY <2>0, <3>1, <3>2 DEF Multiplies
      <3>4. QED
        BY <2>0, <3>1, <3>3 DEF Accounts
    <2>3. CASE MultiplyStep
      <3> DEFINE c == Head(items).cost
                 s == Sum(out, c)
      <3>1. /\ pc = "multiply" /\ n > 1 /\ items # <<>>
            /\ out \in InCurrency /\ c \in InCurrency /\ Value(c) \in Int
            /\ IsZero(c) \/ HalfUnit(c)
            /\ IsZero(c) => IsZero(out)
            /\ ~IsZero(c) => HalfUnit(out)
        BY <2>0, <2>3 DEF MultiplyStep, Accounts, Multiplies
      <3>2. /\ s.err = "none" /\ s.m \in InCurrency
            /\ IsZero(c) => IsZero(s.m)
            /\ ~IsZero(c) => HalfUnit(s.m)
            /\ Value(s.m) = Value(out) + Value(c)
        <4> HIDE DEF c
        <4>1. CASE IsZero(c)
          BY <3>1, <4>1, SumOfPayable
        <4>2. CASE ~IsZero(c)
          <5>1. /\ HalfUnit(out) /\ HalfUnit(c)
                /\ out.units \in Int /\ out.nanos \in Int
                /\ c.units \in Int /\ c.nanos \in Int
            BY <3>1, <4>2, NanosAssumption DEF InCurrency, Int32
          <5>2. /\ IsValid(out) /\ out.units >= 0 /\ out.nanos >= 0
                /\ IsValid(c) /\ c.units >= 0 /\ c.nanos >= 0
            BY <5>1, NanosAssumption DEF HalfUnit, IsValid, signMatches, validNanos
          <5>3. out.units + c.units > 0 \/ out.nanos + c.nanos >= NanosMod
            BY <5>1, NanosAssumption DEF HalfUnit
          <5>4. /\ s.err = "none" /\ s.m \in InCurrency /\ WholeUnit(s.m)
                /\ Value(s.m) = Value(out) + Value(c)
            BY <3>1, <5>2, <5>3, SumReachesUnit
          <5>5. HalfUnit(s.m)
            BY <5>4 DEF WholeUnit, HalfUnit, InCurrency
          <5>6. QED
            BY <4>2, <5>4, <5>5
        <4>3. QED
          BY <4>1, <4>2
      <3>3. /\ pc' = "multiply" /\ out' = s.m /\ n' = n - 1 /\ lean' = lean
            /\ items' = items /\ total' = total /\ shipping' = shipping
            /\ owed' = owed
        BY <2>3, <3>2 DEF MultiplyStep
      <3>4. Value(total) + Value(out) + (n - 1) * Value(c) = owed
        BY <3>1 DEF Accounts, Multiplies
      <3>5. Head(items').cost = c
        BY <3>3
      <3> HIDE DEF c, s
      <3>6. out' \in InCurrency /\ n' \in Nat /\ n' >= 1
        BY <3>1, <3>2, <3>3
      <3>7. Value(total') + Value(out') + (n' - 1) * Value(c) = owed'
        BY <2>0, <3>1, <3>2, <3>3, <3>4
      <3>8. Multiplies'
        BY <3>1, <3>2, <3>3, <3>5, <3>6, <3>7 DEF Multiplies
      <3>9. QED
        BY <3>1, <3>3, <3>6, <3>8 DEF Accounts
    <2>4. CASE AddLine
      <3> DEFINE s == Sum(total, out)
      <3>1. /\ pc = "multiply" /\ n = 1 /\ items # <<>>
            /\ total \in InCurrency /\ out \in InCurrency
            /\ IsZero(out) \/ HalfUnit(out)
            /\ Value(total) + Value(out) = owed
            /\ IF lean THEN ~IsValid(total) ELSE IsZero(total) \/ WholeUnit(total)
        BY <2>0, <2>4 DEF AddLine, Accounts, Multiplies
      <3>2. /\ Tail(items) \in Seq(Lines) /\ items' = Tail(items)
            /\ shipping' = shipping /\ out' = out /\ n' = n /\ owed' = owed
        BY <2>0, <2>4, <3>1 DEF AddLine
      <3>3. CASE lean
        <4>1. s.err # "none"
          BY <3>1, <3>3 DEF Sum, Failure
        <4>2. pc' = "panic" /\ total' = total /\ lean'
          BY <2>4, <3>3, <4>1 DEF AddLine, LeanAfter
        <4>3. lean' \in BOOLEAN
          BY <2>4 DEF AddLine, LeanAfter
        <4>4. QED
          BY <3>1, <3>2, <4>2, <4>3 DEF Accounts
      <3>4. CASE ~lean
        <4>1. /\ s.err = "none" /\ s.m \in InCurrency
              /\ Value(s.m) = Value(total) + Value(out)
              /\ IF IsZero(total) /\ ~IsZero(out) /\ ~WholeUnit(out)
                 THEN ~IsValid(s.m) ELSE IsZero(s.m) \/ WholeUnit(s.m)
          BY <3>1, <3>4, SumOfPayable
        <4>2. lean' = (IsZero(total) /\ ~IsZero(out) /\ ~WholeUnit(out))
          BY <2>4, <3>4 DEF AddLine, LeanAfter
        <4>3. pc' = "items" /\ total' = s.m
          BY <2>4, <4>1 DEF AddLine
        <4> HIDE DEF s
        <4>4. QED
          BY <3>1, <3>2, <4>1, <4>2, <4>3 DEF Accounts
      <3>5. QED
        BY <3>3, <3>4
    <2>5. CASE Charge
      BY <2>5 DEF Charge, Accounts
    <2>6. CASE UNCHANGED vars
      BY <2>6 DEF vars, Accounts, Multiplies
    <2>7. QED
      BY <2>1, <2>2, <2>3, <2>4, <2>5, <2>6 DEF Next
  <1>3. QED
    BY <1>1, <1>2, PTL DEF Spec

\* A payable order panics the checkout process only after a lean start.
THEOREM PayableOrdersDoNotPanic ==
  ASSUME Payable
  PROVE  Spec => []NoPanic
  <1>1. IInv => NoPanic
    BY DEF IInv, Accounts, NoPanic
  <1>2. QED
    BY <1>1, InductiveInvariant, PTL

\* A payable order is charged exactly what its lines and shipping are worth.
THEOREM PayableOrdersAreChargedExactly ==
  ASSUME Payable
  PROVE  Spec => []ChargesWhatIsOwed
  <1>1. IInv => ChargesWhatIsOwed
    BY DEF IInv, Accounts, ChargesWhatIsOwed
  <1>2. QED
    BY <1>1, InductiveInvariant, PTL

\* But for a lean start, the charged amount is well formed, and positive
\* exactly when something is owed.
THEOREM PayableOrdersChargeValidAmounts ==
  ASSUME Payable
  PROVE  Spec => []ChargesValidAmount
  <1>1. IInv => ChargesValidAmount
    <2> SUFFICES ASSUME IInv, pc = "charge", ~lean
                 PROVE  /\ IsValid(total)
                        /\ IsPositive(total) <=> owed > 0
                        /\ IsZero(total) <=> owed = 0
      BY DEF ChargesValidAmount
    <2>1. total \in InCurrency /\ Value(total) = owed /\ (IsZero(total) \/ WholeUnit(total))
      BY DEF IInv, TypeOK, Accounts
    <2>2. QED
      BY <2>1, WorthOfAmounts
  <1>2. QED
    BY <1>1, InductiveInvariant, PTL
=============================================================================
