----------------------------- MODULE WireProofs -----------------------------
(***************************************************************************)
(* The three invariants of Wire, for every table of types, every table a   *)
(* writer may know that agrees with it, messages nested to any depth, and  *)
(* any width of integers.                                                  *)
(*                                                                         *)
(* The recursive functions of Wire satisfy their equations: each of them is*)
(* a CHOOSE of a function, so that one must be shown to exist.  Then come  *)
(* numbers (what Signed makes of the bits that were written), the fields of*)
(* a type, the levels of a message, and where each value is in the words of*)
(* a message (Placed).  A turn of the loop of decode before a value reads  *)
(* or skips that value (OneTurn), so that turn by turn the loop comes to   *)
(* have read as much of the message as Partly says (Reached), and at the   *)
(* end what was meant (OneMessage).  Induction over the levels makes this  *)
(* whole messages (AllIsRead, Delivered), and toJSON and fromJSON go the   *)
(* same way (JsonRoundTrip).                                               *)
(***************************************************************************)
EXTENDS Wire, FiniteSetTheorems, SequenceTheorems, WellFoundedInduction, TLAPS

-----------------------------------------------------------------------------
(* Recursive functions.                                                       *)

\* Induction on the numbers, for a set of them: the one in NaturalsInduction is about an
\* operator.  A least number that is not in S would have 0 .. n - 1 below 0 .. n in the
\* well-founded order of finite sets.
LEMMA NatInd ==
  ASSUME NEW S, 0 \in S, \A n \in Nat : n \in S => n + 1 \in S
  PROVE  \A n \in Nat : n \in S
  <1> DEFINE T == {k \in FiniteSubsetsOf(Nat) : \E n \in Nat : k = 0..n /\ n \notin S}
  <1>1. SUFFICES ASSUME NEW m \in Nat, m \notin S PROVE FALSE
    OBVIOUS
  <1>2. 0..m \in T
    BY <1>1, FS_Interval DEF FiniteSubsetsOf
  <1>3. T \subseteq FiniteSubsetsOf(Nat)
    OBVIOUS
  <1>4. PICK s \in T : \A y \in T : ~ (<<y, s>> \in StrictSubsetOrdering(Nat))
    <2> HIDE DEF T
    <2> QED BY <1>2, <1>3, WFMin, FS_StrictSubsetOrderingWellFounded
  <1>5. PICK n \in Nat : s = 0..n /\ n \notin S
    BY <1>4
  <1>6. n # 0 /\ n - 1 \in Nat /\ n - 1 \notin S
    BY <1>5
  <1>7. 0..(n - 1) \in T
    BY <1>6, FS_Interval DEF FiniteSubsetsOf
  <1>8. <<0..(n - 1), s>> \in StrictSubsetOrdering(Nat)
    BY <1>5, <1>6 DEF StrictSubsetOrdering
  <1>9. QED
    BY <1>4, <1>7, <1>8

\* g is f on the numbers below m, and z at m.
Continues(g, f, m, z) == (\A n \in Nat : n < m => g[n] = f[n]) /\ g[m] = z

\* What X has at the level below n, z if there is none.
Below(z, X, n) == IF n = 0 THEN z ELSE X[n - 1]

\* A function may be given one value more: so a recursive function is built up.
LEMMA Longer ==
  ASSUME NEW m \in Nat, NEW f, NEW z
  PROVE  \E g : Continues(g, f, m, z)
  <1> DEFINE g == [n \in 0..m |-> IF n = m THEN z ELSE f[n]]
  <1>1. Continues(g, f, m, z)
    BY DEF Continues
  <1>2. QED
    BY <1>1

\* What the levels of p are.
LEMMA LevelsRec ==
  ASSUME NEW V, NEW p
  PROVE  /\ Levels(V, p)[0] = {p}
         /\ \A n \in 1 .. MaxDepth :
              Levels(V, p)[n] = UNION {Inside(V, q) : q \in Levels(V, p)[n - 1]}
  <1> DEFINE Body(f, n) == IF n = 0 THEN {p} ELSE UNION {Inside(V, q) : q \in f[n - 1]}
             S == {m \in Nat : \E f : \A n \in Nat : n < m => f[n] = Body(f, n)}
  <1>1. ASSUME NEW f, NEW g, NEW n \in Nat, n # 0 => f[n - 1] = g[n - 1]
        PROVE  Body(f, n) = Body(g, n)
    <2>1. CASE n = 0
      BY <2>1
    <2>2. CASE n # 0
      BY <1>1, <2>2
    <2>3. QED
      BY <2>1, <2>2
  <1> HIDE DEF Body
  <1>2. ASSUME NEW m \in Nat, m \in S PROVE m + 1 \in S
    <2>1. PICK f : \A n \in Nat : n < m => f[n] = Body(f, n)
      BY <1>2
    <2>2. PICK g : Continues(g, f, m, Body(f, m))
      BY Longer
    <2>3. ASSUME NEW n \in Nat, n < m + 1 PROVE g[n] = Body(g, n)
      <3>1. n # 0 => f[n - 1] = g[n - 1]
        BY <2>2, <2>3 DEF Continues
      <3>2. Body(f, n) = Body(g, n)
        BY <1>1, <3>1
      <3>3. QED
        BY <2>1, <2>2, <2>3, <3>2 DEF Continues
    <2>4. QED
      BY <2>3
  <1>3. MaxDepth + 1 \in S
    <2>1. 0 \in S
      OBVIOUS
    <2>2. MaxDepth + 1 \in Nat
      BY WireAssumption
    <2> HIDE DEF S
    <2>3. \A m \in Nat : m \in S
      BY <1>2, <2>1, NatInd
    <2>4. QED
      BY <2>2, <2>3
  <1>4. \E h : h = [n \in 0..MaxDepth |-> Body(h, n)]
    <2>1. PICK f : \A n \in Nat : n < MaxDepth + 1 => f[n] = Body(f, n)
      BY <1>3
    <2> DEFINE h == [n \in 0..MaxDepth |-> f[n]]
    <2>2. ASSUME NEW n \in 0..MaxDepth PROVE h[n] = Body(h, n)
      <3>1. n # 0 => f[n - 1] = h[n - 1]
        BY WireAssumption
      <3>2. f[n] = Body(f, n) /\ h[n] = f[n]
        BY <2>1, WireAssumption
      <3> HIDE DEF h
      <3>3. QED
        BY <1>1, <3>1, <3>2
    <2>3. h = [n \in 0..MaxDepth |-> h[n]]
      OBVIOUS
    <2> HIDE DEF h
    <2>4. h = [n \in 0..MaxDepth |-> Body(h, n)]
      BY <2>2, <2>3
    <2>5. QED
      BY <2>4
  <1>5. Levels(V, p) = [n \in 0 .. MaxDepth |-> Body(Levels(V, p), n)]
    BY <1>4 DEF Body, Levels
  <1> DEFINE whole == Levels(V, p)
  <1>6. \A n \in 0 .. MaxDepth : whole[n] = Body(whole, n)
    <2>1. whole = [n \in 0 .. MaxDepth |-> Body(whole, n)]
      BY <1>5
    <2> HIDE DEF whole
    <2>2. QED
      BY <2>1
  <1>7. 0 \in 0 .. MaxDepth /\ \A n \in 1 .. MaxDepth : n \in 0 .. MaxDepth /\ n # 0
    BY WireAssumption
  <1> HIDE DEF whole
  <1>8. /\ whole[0] = {p}
         /\ \A n \in 1 .. MaxDepth : whole[n] = UNION {Inside(V, q) : q \in whole[n - 1]}
    BY <1>6, <1>7 DEF Body, Below
  <1>9. QED
    BY <1>8 DEF whole

\* u has the words of a field value by value.
ByValue(u, enc, g, v) ==
  /\ u[0] = <<>>
  /\ \A k \in 1 .. Len(Elements(g, v)) :
       u[k] = u[k - 1] \o EncodeElement(enc, g, Elements(g, v)[k])

\* u has the words of a message field by field.
ByField(u, V, enc, q) ==
  /\ u[0] = <<>>
  /\ \A i \in 1 .. Len(V[q[1]]) :
       u[i] = u[i - 1] \o EncodeField(enc, V[q[1]][i], q[2][V[q[1]][i].name])

\* The words of the values of a field, one after the other.
LEMMA FieldWordsRec ==
  ASSUME NEW enc, NEW fld, NEW v, Len(Elements(fld, v)) \in Nat
  PROVE  ByValue(FieldWords(enc, fld, v), enc, fld, v)
  <1> DEFINE Body(f, k) ==
               IF k = 0 THEN <<>> ELSE f[k - 1] \o EncodeElement(enc, fld, Elements(fld, v)[k])
             S == {m \in Nat : \E f : \A k \in Nat : k < m => f[k] = Body(f, k)}
  <1>1. ASSUME NEW f, NEW g, NEW k \in Nat, k # 0 => f[k - 1] = g[k - 1]
        PROVE  Body(f, k) = Body(g, k)
    <2>1. CASE k = 0
      BY <2>1
    <2>2. CASE k # 0
      BY <1>1, <2>2
    <2>3. QED
      BY <2>1, <2>2
  <1> HIDE DEF Body
  <1>2. ASSUME NEW m \in Nat, m \in S PROVE m + 1 \in S
    <2>1. PICK f : \A k \in Nat : k < m => f[k] = Body(f, k)
      BY <1>2
    <2>2. PICK g : Continues(g, f, m, Body(f, m))
      BY Longer
    <2>3. ASSUME NEW k \in Nat, k < m + 1 PROVE g[k] = Body(g, k)
      <3>1. k # 0 => f[k - 1] = g[k - 1]
        BY <2>2, <2>3 DEF Continues
      <3>2. Body(f, k) = Body(g, k)
        BY <1>1, <3>1
      <3>3. QED
        BY <2>1, <2>2, <2>3, <3>2 DEF Continues
    <2>4. QED
      BY <2>3
  <1>3. Len(Elements(fld, v)) + 1 \in S
    <2>1. 0 \in S
      OBVIOUS
    <2>2. Len(Elements(fld, v)) + 1 \in Nat
      OBVIOUS
    <2> HIDE DEF S
    <2>3. \A m \in Nat : m \in S
      BY <1>2, <2>1, NatInd
    <2>4. QED
      BY <2>2, <2>3
  <1>4. \E h : h = [k \in 0..Len(Elements(fld, v)) |-> Body(h, k)]
    <2>1. PICK f : \A k \in Nat : k < Len(Elements(fld, v)) + 1 => f[k] = Body(f, k)
      BY <1>3
    <2> DEFINE h == [k \in 0..Len(Elements(fld, v)) |-> f[k]]
    <2>2. ASSUME NEW k \in 0..Len(Elements(fld, v)) PROVE h[k] = Body(h, k)
      <3>1. k # 0 => f[k - 1] = h[k - 1]
        OBVIOUS
      <3>2. f[k] = Body(f, k) /\ h[k] = f[k]
        BY <2>1
      <3> HIDE DEF h
      <3>3. QED
        BY <1>1, <3>1, <3>2
    <2>3. h = [k \in 0..Len(Elements(fld, v)) |-> h[k]]
      OBVIOUS
    <2> HIDE DEF h
    <2>4. h = [k \in 0..Len(Elements(fld, v)) |-> Body(h, k)]
      BY <2>2, <2>3
    <2>5. QED
      BY <2>4
  <1>5. FieldWords(enc, fld, v) =
          [k \in 0 .. Len(Elements(fld, v)) |-> Body(FieldWords(enc, fld, v), k)]
    BY <1>4 DEF Body, FieldWords
  <1> DEFINE whole == FieldWords(enc, fld, v)
  <1>6. \A k \in 0 .. Len(Elements(fld, v)) : whole[k] = Body(whole, k)
    <2>1. whole = [k \in 0 .. Len(Elements(fld, v)) |-> Body(whole, k)]
      BY <1>5
    <2> HIDE DEF whole
    <2>2. QED
      BY <2>1
  <1>7. /\ 0 \in 0 .. Len(Elements(fld, v))
        /\ \A k \in 1 .. Len(Elements(fld, v)) : k \in 0 .. Len(Elements(fld, v)) /\ k # 0
    OBVIOUS
  <1> HIDE DEF whole
  <1>8. /\ whole[0] = <<>>
         /\ \A k \in 1 .. Len(Elements(fld, v)) :
              whole[k] = whole[k - 1] \o EncodeElement(enc, fld, Elements(fld, v)[k])
    BY <1>6, <1>7 DEF Body, Below
  <1>9. QED
    BY <1>8 DEF whole, ByValue

\* The words of the fields of a message.
LEMMA MessageWordsRec ==
  ASSUME NEW V, NEW enc, NEW p, Len(V[p[1]]) \in Nat
  PROVE  ByField(MessageWords(V, enc, p), V, enc, p)
  <1> DEFINE Body(f, i) ==
               IF i = 0 THEN <<>>
               ELSE f[i - 1] \o EncodeField(enc, V[p[1]][i], p[2][V[p[1]][i].name])
             S == {m \in Nat : \E f : \A i \in Nat : i < m => f[i] = Body(f, i)}
  <1>1. ASSUME NEW f, NEW g, NEW i \in Nat, i # 0 => f[i - 1] = g[i - 1]
        PROVE  Body(f, i) = Body(g, i)
    <2>1. CASE i = 0
      BY <2>1
    <2>2. CASE i # 0
      BY <1>1, <2>2
    <2>3. QED
      BY <2>1, <2>2
  <1> HIDE DEF Body
  <1>2. ASSUME NEW m \in Nat, m \in S PROVE m + 1 \in S
    <2>1. PICK f : \A i \in Nat : i < m => f[i] = Body(f, i)
      BY <1>2
    <2>2. PICK g : Continues(g, f, m, Body(f, m))
      BY Longer
    <2>3. ASSUME NEW i \in Nat, i < m + 1 PROVE g[i] = Body(g, i)
      <3>1. i # 0 => f[i - 1] = g[i - 1]
        BY <2>2, <2>3 DEF Continues
      <3>2. Body(f, i) = Body(g, i)
        BY <1>1, <3>1
      <3>3. QED
        BY <2>1, <2>2, <2>3, <3>2 DEF Continues
    <2>4. QED
      BY <2>3
  <1>3. Len(V[p[1]]) + 1 \in S
    <2>1. 0 \in S
      OBVIOUS
    <2>2. Len(V[p[1]]) + 1 \in Nat
      OBVIOUS
    <2> HIDE DEF S
    <2>3. \A m \in Nat : m \in S
      BY <1>2, <2>1, NatInd
    <2>4. QED
      BY <2>2, <2>3
  <1>4. \E h : h = [i \in 0..Len(V[p[1]]) |-> Body(h, i)]
    <2>1. PICK f : \A i \in Nat : i < Len(V[p[1]]) + 1 => f[i] = Body(f, i)
      BY <1>3
    <2> DEFINE h == [i \in 0..Len(V[p[1]]) |-> f[i]]
    <2>2. ASSUME NEW i \in 0..Len(V[p[1]]) PROVE h[i] = Body(h, i)
      <3>1. i # 0 => f[i - 1] = h[i - 1]
        OBVIOUS
      <3>2. f[i] = Body(f, i) /\ h[i] = f[i]
        BY <2>1
      <3> HIDE DEF h
      <3>3. QED
        BY <1>1, <3>1, <3>2
    <2>3. h = [i \in 0..Len(V[p[1]]) |-> h[i]]
      OBVIOUS
    <2> HIDE DEF h
    <2>4. h = [i \in 0..Len(V[p[1]]) |-> Body(h, i)]
      BY <2>2, <2>3
    <2>5. QED
      BY <2>4
  <1>5. MessageWords(V, enc, p) = [i \in 0 .. Len(V[p[1]]) |-> Body(MessageWords(V, enc, p), i)]
    BY <1>4 DEF Body, MessageWords
  <1> DEFINE whole == MessageWords(V, enc, p)
  <1>6. \A i \in 0 .. Len(V[p[1]]) : whole[i] = Body(whole, i)
    <2>1. whole = [i \in 0 .. Len(V[p[1]]) |-> Body(whole, i)]
      BY <1>5
    <2> HIDE DEF whole
    <2>2. QED
      BY <2>1
  <1>7. 0 \in 0 .. Len(V[p[1]]) /\ \A i \in 1 .. Len(V[p[1]]) : i \in 0 .. Len(V[p[1]]) /\ i # 0
    OBVIOUS
  <1> HIDE DEF whole
  <1>8. /\ whole[0] = <<>>
         /\ \A i \in 1 .. Len(V[p[1]]) :
              whole[i] = whole[i - 1] \o EncodeField(enc, V[p[1]][i], p[2][V[p[1]][i].name])
    BY <1>6, <1>7 DEF Body, Below
  <1>9. QED
    BY <1>8 DEF whole, ByField

\* The words of what p holds.
LEMMA EncodingsRec ==
  ASSUME NEW V, NEW p
  PROVE  \A n \in 0 .. MaxDepth : \A q \in Parts(V, p) :
           Encodings(V, p)[n][q] = EncodeMessage(V, Below(<<>>, Encodings(V, p), n), q)
  <1> DEFINE Body(f, n) ==
               [q \in Parts(V, p) |-> EncodeMessage(V, IF n = 0 THEN <<>> ELSE f[n - 1], q)]
             S == {m \in Nat : \E f : \A n \in Nat : n < m => f[n] = Body(f, n)}
  <1>1. ASSUME NEW f, NEW g, NEW n \in Nat, n # 0 => f[n - 1] = g[n - 1]
        PROVE  Body(f, n) = Body(g, n)
    <2>1. CASE n = 0
      BY <2>1
    <2>2. CASE n # 0
      BY <1>1, <2>2
    <2>3. QED
      BY <2>1, <2>2
  <1> HIDE DEF Body
  <1>2. ASSUME NEW m \in Nat, m \in S PROVE m + 1 \in S
    <2>1. PICK f : \A n \in Nat : n < m => f[n] = Body(f, n)
      BY <1>2
    <2>2. PICK g : Continues(g, f, m, Body(f, m))
      BY Longer
    <2>3. ASSUME NEW n \in Nat, n < m + 1 PROVE g[n] = Body(g, n)
      <3>1. n # 0 => f[n - 1] = g[n - 1]
        BY <2>2, <2>3 DEF Continues
      <3>2. Body(f, n) = Body(g, n)
        BY <1>1, <3>1
      <3>3. QED
        BY <2>1, <2>2, <2>3, <3>2 DEF Continues
    <2>4. QED
      BY <2>3
  <1>3. MaxDepth + 1 \in S
    <2>1. 0 \in S
      OBVIOUS
    <2>2. MaxDepth + 1 \in Nat
      BY WireAssumption
    <2> HIDE DEF S
    <2>3. \A m \in Nat : m \in S
      BY <1>2, <2>1, NatInd
    <2>4. QED
      BY <2>2, <2>3
  <1>4. \E h : h = [n \in 0..MaxDepth |-> Body(h, n)]
    <2>1. PICK f : \A n \in Nat : n < MaxDepth + 1 => f[n] = Body(f, n)
      BY <1>3
    <2> DEFINE h == [n \in 0..MaxDepth |-> f[n]]
    <2>2. ASSUME NEW n \in 0..MaxDepth PROVE h[n] = Body(h, n)
      <3>1. n # 0 => f[n - 1] = h[n - 1]
        BY WireAssumption
      <3>2. f[n] = Body(f, n) /\ h[n] = f[n]
        BY <2>1, WireAssumption
      <3> HIDE DEF h
      <3>3. QED
        BY <1>1, <3>1, <3>2
    <2>3. h = [n \in 0..MaxDepth |-> h[n]]
      OBVIOUS
    <2> HIDE DEF h
    <2>4. h = [n \in 0..MaxDepth |-> Body(h, n)]
      BY <2>2, <2>3
    <2>5. QED
      BY <2>4
  <1>5. Encodings(V, p) = [n \in 0 .. MaxDepth |-> Body(Encodings(V, p), n)]
    BY <1>4 DEF Body, Encodings
  <1> DEFINE whole == Encodings(V, p)
  <1>6. \A n \in 0 .. MaxDepth : whole[n] = Body(whole, n)
    <2>1. whole = [n \in 0 .. MaxDepth |-> Body(whole, n)]
      BY <1>5
    <2> HIDE DEF whole
    <2>2. QED
      BY <2>1
  <1>7. 0 \in 0 .. MaxDepth /\ \A n \in 1 .. MaxDepth : n \in 0 .. MaxDepth /\ n # 0
    BY WireAssumption
  <1> HIDE DEF whole
  <1>8. \A n \in 0 .. MaxDepth : \A q \in Parts(V, p) :
           whole[n][q] = EncodeMessage(V, Below(<<>>, whole, n), q)
    BY <1>6, <1>7 DEF Body, Below
  <1>9. QED
    BY <1>8 DEF whole

\* The turns of a loop.
LEMMA LoopRec ==
  ASSUME NEW dec, NEW w, Len(w) \in Nat, NEW x
  PROVE  /\ Loop(dec, w, x)[0] =
              [msg |-> createBase(Types[x[1]]), at |-> x[2], ok |-> TRUE, on |-> TRUE]
         /\ \A n \in 1 .. Len(w) :
              Loop(dec, w, x)[n] = Turn(dec, w, Types[x[1]], x[3], Loop(dec, w, x)[n - 1])
  <1> DEFINE Body(f, n) ==
               IF n = 0
                 THEN [msg |-> createBase(Types[x[1]]), at |-> x[2], ok |-> TRUE, on |-> TRUE]
                 ELSE Turn(dec, w, Types[x[1]], x[3], f[n - 1])
             S == {m \in Nat : \E f : \A n \in Nat : n < m => f[n] = Body(f, n)}
  <1>1. ASSUME NEW f, NEW g, NEW n \in Nat, n # 0 => f[n - 1] = g[n - 1]
        PROVE  Body(f, n) = Body(g, n)
    <2>1. CASE n = 0
      BY <2>1
    <2>2. CASE n # 0
      BY <1>1, <2>2
    <2>3. QED
      BY <2>1, <2>2
  <1> HIDE DEF Body
  <1>2. ASSUME NEW m \in Nat, m \in S PROVE m + 1 \in S
    <2>1. PICK f : \A n \in Nat : n < m => f[n] = Body(f, n)
      BY <1>2
    <2>2. PICK g : Continues(g, f, m, Body(f, m))
      BY Longer
    <2>3. ASSUME NEW n \in Nat, n < m + 1 PROVE g[n] = Body(g, n)
      <3>1. n # 0 => f[n - 1] = g[n - 1]
        BY <2>2, <2>3 DEF Continues
      <3>2. Body(f, n) = Body(g, n)
        BY <1>1, <3>1
      <3>3. QED
        BY <2>1, <2>2, <2>3, <3>2 DEF Continues
    <2>4. QED
      BY <2>3
  <1>3. Len(w) + 1 \in S
    <2>1. 0 \in S
      OBVIOUS
    <2>2. Len(w) + 1 \in Nat
      OBVIOUS
    <2> HIDE DEF S
    <2>3. \A m \in Nat : m \in S
      BY <1>2, <2>1, NatInd
    <2>4. QED
      BY <2>2, <2>3
  <1>4. \E h : h = [n \in 0..Len(w) |-> Body(h, n)]
    <2>1. PICK f : \A n \in Nat : n < Len(w) + 1 => f[n] = Body(f, n)
      BY <1>3
    <2> DEFINE h == [n \in 0..Len(w) |-> f[n]]
    <2>2. ASSUME NEW n \in 0..Len(w) PROVE h[n] = Body(h, n)
      <3>1. n # 0 => f[n - 1] = h[n - 1]
        OBVIOUS
      <3>2. f[n] = Body(f, n) /\ h[n] = f[n]
        BY <2>1
      <3> HIDE DEF h
      <3>3. QED
        BY <1>1, <3>1, <3>2
    <2>3. h = [n \in 0..Len(w) |-> h[n]]
      OBVIOUS
    <2> HIDE DEF h
    <2>4. h = [n \in 0..Len(w) |-> Body(h, n)]
      BY <2>2, <2>3
    <2>5. QED
      BY <2>4
  <1>5. Loop(dec, w, x) = [n \in 0 .. Len(w) |-> Body(Loop(dec, w, x), n)]
    BY <1>4 DEF Body, Loop
  <1> DEFINE whole == Loop(dec, w, x)
  <1>6. \A n \in 0 .. Len(w) : whole[n] = Body(whole, n)
    <2>1. whole = [n \in 0 .. Len(w) |-> Body(whole, n)]
      BY <1>5
    <2> HIDE DEF whole
    <2>2. QED
      BY <2>1
  <1>7. 0 \in 0 .. Len(w) /\ \A n \in 1 .. Len(w) : n \in 0 .. Len(w) /\ n # 0
    OBVIOUS
  <1> HIDE DEF whole
  <1>8. /\ whole[0] = [msg |-> createBase(Types[x[1]]), at |-> x[2], ok |-> TRUE, on |-> TRUE]
         /\ \A n \in 1 .. Len(w) : whole[n] = Turn(dec, w, Types[x[1]], x[3], whole[n - 1])
    BY <1>6, <1>7 DEF Body, Below
  <1>9. QED
    BY <1>8 DEF whole

\* What decode makes of any words.
LEMMA DecodingsRec ==
  ASSUME NEW w, Len(w) \in Nat
  PROVE  \A n \in 0 .. Len(w) : \A x \in (DOMAIN Types) \X Nat \X Nat :
           Decodings(w)[n][x] = Loop(Below(<<>>, Decodings(w), n), w, x)[Len(w)]
  <1> DEFINE Body(f, n) == [x \in (DOMAIN Types) \X Nat \X Nat |->
                              Loop(IF n = 0 THEN <<>> ELSE f[n - 1], w, x)[Len(w)]]
             S == {m \in Nat : \E f : \A n \in Nat : n < m => f[n] = Body(f, n)}
  <1>1. ASSUME NEW f, NEW g, NEW n \in Nat, n # 0 => f[n - 1] = g[n - 1]
        PROVE  Body(f, n) = Body(g, n)
    <2>1. CASE n = 0
      BY <2>1
    <2>2. CASE n # 0
      BY <1>1, <2>2
    <2>3. QED
      BY <2>1, <2>2
  <1> HIDE DEF Body
  <1>2. ASSUME NEW m \in Nat, m \in S PROVE m + 1 \in S
    <2>1. PICK f : \A n \in Nat : n < m => f[n] = Body(f, n)
      BY <1>2
    <2>2. PICK g : Continues(g, f, m, Body(f, m))
      BY Longer
    <2>3. ASSUME NEW n \in Nat, n < m + 1 PROVE g[n] = Body(g, n)
      <3>1. n # 0 => f[n - 1] = g[n - 1]
        BY <2>2, <2>3 DEF Continues
      <3>2. Body(f, n) = Body(g, n)
        BY <1>1, <3>1
      <3>3. QED
        BY <2>1, <2>2, <2>3, <3>2 DEF Continues
    <2>4. QED
      BY <2>3
  <1>3. Len(w) + 1 \in S
    <2>1. 0 \in S
      OBVIOUS
    <2>2. Len(w) + 1 \in Nat
      OBVIOUS
    <2> HIDE DEF S
    <2>3. \A m \in Nat : m \in S
      BY <1>2, <2>1, NatInd
    <2>4. QED
      BY <2>2, <2>3
  <1>4. \E h : h = [n \in 0..Len(w) |-> Body(h, n)]
    <2>1. PICK f : \A n \in Nat : n < Len(w) + 1 => f[n] = Body(f, n)
      BY <1>3
    <2> DEFINE h == [n \in 0..Len(w) |-> f[n]]
    <2>2. ASSUME NEW n \in 0..Len(w) PROVE h[n] = Body(h, n)
      <3>1. n # 0 => f[n - 1] = h[n - 1]
        OBVIOUS
      <3>2. f[n] = Body(f, n) /\ h[n] = f[n]
        BY <2>1
      <3> HIDE DEF h
      <3>3. QED
        BY <1>1, <3>1, <3>2
    <2>3. h = [n \in 0..Len(w) |-> h[n]]
      OBVIOUS
    <2> HIDE DEF h
    <2>4. h = [n \in 0..Len(w) |-> Body(h, n)]
      BY <2>2, <2>3
    <2>5. QED
      BY <2>4
  <1>5. Decodings(w) = [n \in 0 .. Len(w) |-> Body(Decodings(w), n)]
    BY <1>4 DEF Body, Decodings
  <1> DEFINE whole == Decodings(w)
  <1>6. \A n \in 0 .. Len(w) : whole[n] = Body(whole, n)
    <2>1. whole = [n \in 0 .. Len(w) |-> Body(whole, n)]
      BY <1>5
    <2> HIDE DEF whole
    <2>2. QED
      BY <2>1
  <1>7. 0 \in 0 .. Len(w) /\ \A n \in 1 .. Len(w) : n \in 0 .. Len(w) /\ n # 0
    OBVIOUS
  <1> HIDE DEF whole
  <1>8. \A n \in 0 .. Len(w) : \A x \in (DOMAIN Types) \X Nat \X Nat :
           whole[n][x] = Loop(Below(<<>>, whole, n), w, x)[Len(w)]
    <2> DEFINE D == (DOMAIN Types) \X Nat \X Nat
               z(n, x) == Loop(Below(<<>>, whole, n), w, x)[Len(w)]
    <2>1. \A n \in 0 .. Len(w) : whole[n] = [x \in D |-> z(n, x)]
      BY <1>6 DEF Body, Below
    <2> HIDE DEF D, z
    <2>2. \A n \in 0 .. Len(w) : \A x \in D : whole[n][x] = z(n, x)
      BY <2>1
    <2>3. QED
      BY <2>2 DEF D, z
  <1>9. QED
    BY <1>8 DEF whole

\* The objects of what p holds.
LEMMA ToObjectsRec ==
  ASSUME NEW p
  PROVE  \A n \in 0 .. MaxDepth : \A q \in Parts(Types, p) :
           ToObjects(p)[n][q] = ToObject(Below(<<>>, ToObjects(p), n), q)
  <1> DEFINE Body(f, n) == [q \in Parts(Types, p) |-> ToObject(IF n = 0 THEN <<>> ELSE f[n - 1], q)]
             S == {m \in Nat : \E f : \A n \in Nat : n < m => f[n] = Body(f, n)}
  <1>1. ASSUME NEW f, NEW g, NEW n \in Nat, n # 0 => f[n - 1] = g[n - 1]
        PROVE  Body(f, n) = Body(g, n)
    <2>1. CASE n = 0
      BY <2>1
    <2>2. CASE n # 0
      BY <1>1, <2>2
    <2>3. QED
      BY <2>1, <2>2
  <1> HIDE DEF Body
  <1>2. ASSUME NEW m \in Nat, m \in S PROVE m + 1 \in S
    <2>1. PICK f : \A n \in Nat : n < m => f[n] = Body(f, n)
      BY <1>2
    <2>2. PICK g : Continues(g, f, m, Body(f, m))
      BY Longer
    <2>3. ASSUME NEW n \in Nat, n < m + 1 PROVE g[n] = Body(g, n)
      <3>1. n # 0 => f[n - 1] = g[n - 1]
        BY <2>2, <2>3 DEF Continues
      <3>2. Body(f, n) = Body(g, n)
        BY <1>1, <3>1
      <3>3. QED
        BY <2>1, <2>2, <2>3, <3>2 DEF Continues
    <2>4. QED
      BY <2>3
  <1>3. MaxDepth + 1 \in S
    <2>1. 0 \in S
      OBVIOUS
    <2>2. MaxDepth + 1 \in Nat
      BY WireAssumption
    <2> HIDE DEF S
    <2>3. \A m \in Nat : m \in S
      BY <1>2, <2>1, NatInd
    <2>4. QED
      BY <2>2, <2>3
  <1>4. \E h : h = [n \in 0..MaxDepth |-> Body(h, n)]
    <2>1. PICK f : \A n \in Nat : n < MaxDepth + 1 => f[n] = Body(f, n)
      BY <1>3
    <2> DEFINE h == [n \in 0..MaxDepth |-> f[n]]
    <2>2. ASSUME NEW n \in 0..MaxDepth PROVE h[n] = Body(h, n)
      <3>1. n # 0 => f[n - 1] = h[n - 1]
        BY WireAssumption
      <3>2. f[n] = Body(f, n) /\ h[n] = f[n]
        BY <2>1, WireAssumption
      <3> HIDE DEF h
      <3>3. QED
        BY <1>1, <3>1, <3>2
    <2>3. h = [n \in 0..MaxDepth |-> h[n]]
      OBVIOUS
    <2> HIDE DEF h
    <2>4. h = [n \in 0..MaxDepth |-> Body(h, n)]
      BY <2>2, <2>3
    <2>5. QED
      BY <2>4
  <1>5. ToObjects(p) = [n \in 0 .. MaxDepth |-> Body(ToObjects(p), n)]
    BY <1>4 DEF Body, ToObjects
  <1> DEFINE whole == ToObjects(p)
  <1>6. \A n \in 0 .. MaxDepth : whole[n] = Body(whole, n)
    <2>1. whole = [n \in 0 .. MaxDepth |-> Body(whole, n)]
      BY <1>5
    <2> HIDE DEF whole
    <2>2. QED
      BY <2>1
  <1>7. 0 \in 0 .. MaxDepth /\ \A n \in 1 .. MaxDepth : n \in 0 .. MaxDepth /\ n # 0
    BY WireAssumption
  <1> HIDE DEF whole
  <1>8. \A n \in 0 .. MaxDepth : \A q \in Parts(Types, p) :
           whole[n][q] = ToObject(Below(<<>>, whole, n), q)
    BY <1>6, <1>7 DEF Body, Below
  <1>9. QED
    BY <1>8 DEF whole

\* The messages of what p holds.
LEMMA FromObjectsRec ==
  ASSUME NEW p
  PROVE  \A n \in 0 .. MaxDepth : \A q \in Parts(Types, p) :
           FromObjects(p)[n][q] = FromObject(Below(<<>>, FromObjects(p), n), q)
  <1> DEFINE Body(f, n) ==
               [q \in Parts(Types, p) |-> FromObject(IF n = 0 THEN <<>> ELSE f[n - 1], q)]
             S == {m \in Nat : \E f : \A n \in Nat : n < m => f[n] = Body(f, n)}
  <1>1. ASSUME NEW f, NEW g, NEW n \in Nat, n # 0 => f[n - 1] = g[n - 1]
        PROVE  Body(f, n) = Body(g, n)
    <2>1. CASE n = 0
      BY <2>1
    <2>2. CASE n # 0
      BY <1>1, <2>2
    <2>3. QED
      BY <2>1, <2>2
  <1> HIDE DEF Body
  <1>2. ASSUME NEW m \in Nat, m \in S PROVE m + 1 \in S
    <2>1. PICK f : \A n \in Nat : n < m => f[n] = Body(f, n)
      BY <1>2
    <2>2. PICK g : Continues(g, f, m, Body(f, m))
      BY Longer
    <2>3. ASSUME NEW n \in Nat, n < m + 1 PROVE g[n] = Body(g, n)
      <3>1. n # 0 => f[n - 1] = g[n - 1]
        BY <2>2, <2>3 DEF Continues
      <3>2. Body(f, n) = Body(g, n)
        BY <1>1, <3>1
      <3>3. QED
        BY <2>1, <2>2, <2>3, <3>2 DEF Continues
    <2>4. QED
      BY <2>3
  <1>3. MaxDepth + 1 \in S
    <2>1. 0 \in S
      OBVIOUS
    <2>2. MaxDepth + 1 \in Nat
      BY WireAssumption
    <2> HIDE DEF S
    <2>3. \A m \in Nat : m \in S
      BY <1>2, <2>1, NatInd
    <2>4. QED
      BY <2>2, <2>3
  <1>4. \E h : h = [n \in 0..MaxDepth |-> Body(h, n)]
    <2>1. PICK f : \A n \in Nat : n < MaxDepth + 1 => f[n] = Body(f, n)
      BY <1>3
    <2> DEFINE h == [n \in 0..MaxDepth |-> f[n]]
    <2>2. ASSUME NEW n \in 0..MaxDepth PROVE h[n] = Body(h, n)
      <3>1. n # 0 => f[n - 1] = h[n - 1]
        BY WireAssumption
      <3>2. f[n] = Body(f, n) /\ h[n] = f[n]
        BY <2>1, WireAssumption
      <3> HIDE DEF h
      <3>3. QED
        BY <1>1, <3>1, <3>2
    <2>3. h = [n \in 0..MaxDepth |-> h[n]]
      OBVIOUS
    <2> HIDE DEF h
    <2>4. h = [n \in 0..MaxDepth |-> Body(h, n)]
      BY <2>2, <2>3
    <2>5. QED
      BY <2>4
  <1>5. FromObjects(p) = [n \in 0 .. MaxDepth |-> Body(FromObjects(p), n)]
    BY <1>4 DEF Body, FromObjects
  <1> DEFINE whole == FromObjects(p)
  <1>6. \A n \in 0 .. MaxDepth : whole[n] = Body(whole, n)
    <2>1. whole = [n \in 0 .. MaxDepth |-> Body(whole, n)]
      BY <1>5
    <2> HIDE DEF whole
    <2>2. QED
      BY <2>1
  <1>7. 0 \in 0 .. MaxDepth /\ \A n \in 1 .. MaxDepth : n \in 0 .. MaxDepth /\ n # 0
    BY WireAssumption
  <1> HIDE DEF whole
  <1>8. \A n \in 0 .. MaxDepth : \A q \in Parts(Types, p) :
           whole[n][q] = FromObject(Below(<<>>, whole, n), q)
    BY <1>6, <1>7 DEF Body, Below
  <1>9. QED
    BY <1>8 DEF whole

\* The meanings of what p holds.
LEMMA MeaningsRec ==
  ASSUME NEW V, NEW p
  PROVE  \A n \in 0 .. MaxDepth : \A q \in Parts(V, p) :
           Meanings(V, p)[n][q] = Meant(Below(<<>>, Meanings(V, p), n), V, q)
  <1> DEFINE Body(f, n) == [q \in Parts(V, p) |-> Meant(IF n = 0 THEN <<>> ELSE f[n - 1], V, q)]
             S == {m \in Nat : \E f : \A n \in Nat : n < m => f[n] = Body(f, n)}
  <1>1. ASSUME NEW f, NEW g, NEW n \in Nat, n # 0 => f[n - 1] = g[n - 1]
        PROVE  Body(f, n) = Body(g, n)
    <2>1. CASE n = 0
      BY <2>1
    <2>2. CASE n # 0
      BY <1>1, <2>2
    <2>3. QED
      BY <2>1, <2>2
  <1> HIDE DEF Body
  <1>2. ASSUME NEW m \in Nat, m \in S PROVE m + 1 \in S
    <2>1. PICK f : \A n \in Nat : n < m => f[n] = Body(f, n)
      BY <1>2
    <2>2. PICK g : Continues(g, f, m, Body(f, m))
      BY Longer
    <2>3. ASSUME NEW n \in Nat, n < m + 1 PROVE g[n] = Body(g, n)
      <3>1. n # 0 => f[n - 1] = g[n - 1]
        BY <2>2, <2>3 DEF Continues
      <3>2. Body(f, n) = Body(g, n)
        BY <1>1, <3>1
      <3>3. QED
        BY <2>1, <2>2, <2>3, <3>2 DEF Continues
    <2>4. QED
      BY <2>3
  <1>3. MaxDepth + 1 \in S
    <2>1. 0 \in S
      OBVIOUS
    <2>2. MaxDepth + 1 \in Nat
      BY WireAssumption
    <2> HIDE DEF S
    <2>3. \A m \in Nat : m \in S
      BY <1>2, <2>1, NatInd
    <2>4. QED
      BY <2>2, <2>3
  <1>4. \E h : h = [n \in 0..MaxDepth |-> Body(h, n)]
    <2>1. PICK f : \A n \in Nat : n < MaxDepth + 1 => f[n] = Body(f, n)
      BY <1>3
    <2> DEFINE h == [n \in 0..MaxDepth |-> f[n]]
    <2>2. ASSUME NEW n \in 0..MaxDepth PROVE h[n] = Body(h, n)
      <3>1. n # 0 => f[n - 1] = h[n - 1]
        BY WireAssumption
      <3>2. f[n] = Body(f, n) /\ h[n] = f[n]
        BY <2>1, WireAssumption
      <3> HIDE DEF h
      <3>3. QED
        BY <1>1, <3>1, <3>2
    <2>3. h = [n \in 0..MaxDepth |-> h[n]]
      OBVIOUS
    <2> HIDE DEF h
    <2>4. h = [n \in 0..MaxDepth |-> Body(h, n)]
      BY <2>2, <2>3
    <2>5. QED
      BY <2>4
  <1>5. Meanings(V, p) = [n \in 0 .. MaxDepth |-> Body(Meanings(V, p), n)]
    BY <1>4 DEF Body, Meanings
  <1> DEFINE whole == Meanings(V, p)
  <1>6. \A n \in 0 .. MaxDepth : whole[n] = Body(whole, n)
    <2>1. whole = [n \in 0 .. MaxDepth |-> Body(whole, n)]
      BY <1>5
    <2> HIDE DEF whole
    <2>2. QED
      BY <2>1
  <1>7. 0 \in 0 .. MaxDepth /\ \A n \in 1 .. MaxDepth : n \in 0 .. MaxDepth /\ n # 0
    BY WireAssumption
  <1> HIDE DEF whole
  <1>8. \A n \in 0 .. MaxDepth : \A q \in Parts(V, p) :
           whole[n][q] = Meant(Below(<<>>, whole, n), V, q)
    BY <1>6, <1>7 DEF Body, Below
  <1>9. QED
    BY <1>8 DEF whole

\* Which of what p holds cannot be read.
LEMMA UnsafeInRec ==
  ASSUME NEW V, NEW p
  PROVE  \A n \in 0 .. MaxDepth : \A q \in Parts(V, p) :
           q \in UnsafeIn(V, p)[n] <=> HasUnsafe(Below({}, UnsafeIn(V, p), n), V, q)
  <1> DEFINE Body(f, n) == {q \in Parts(V, p) : HasUnsafe(IF n = 0 THEN {} ELSE f[n - 1], V, q)}
             S == {m \in Nat : \E f : \A n \in Nat : n < m => f[n] = Body(f, n)}
  <1>1. ASSUME NEW f, NEW g, NEW n \in Nat, n # 0 => f[n - 1] = g[n - 1]
        PROVE  Body(f, n) = Body(g, n)
    <2>1. CASE n = 0
      BY <2>1
    <2>2. CASE n # 0
      BY <1>1, <2>2
    <2>3. QED
      BY <2>1, <2>2
  <1> HIDE DEF Body
  <1>2. ASSUME NEW m \in Nat, m \in S PROVE m + 1 \in S
    <2>1. PICK f : \A n \in Nat : n < m => f[n] = Body(f, n)
      BY <1>2
    <2>2. PICK g : Continues(g, f, m, Body(f, m))
      BY Longer
    <2>3. ASSUME NEW n \in Nat, n < m + 1 PROVE g[n] = Body(g, n)
      <3>1. n # 0 => f[n - 1] = g[n - 1]
        BY <2>2, <2>3 DEF Continues
      <3>2. Body(f, n) = Body(g, n)
        BY <1>1, <3>1
      <3>3. QED
        BY <2>1, <2>2, <2>3, <3>2 DEF Continues
    <2>4. QED
      BY <2>3
  <1>3. MaxDepth + 1 \in S
    <2>1. 0 \in S
      OBVIOUS
    <2>2. MaxDepth + 1 \in Nat
      BY WireAssumption
    <2> HIDE DEF S
    <2>3. \A m \in Nat : m \in S
      BY <1>2, <2>1, NatInd
    <2>4. QED
      BY <2>2, <2>3
  <1>4. \E h : h = [n \in 0..MaxDepth |-> Body(h, n)]
    <2>1. PICK f : \A n \in Nat : n < MaxDepth + 1 => f[n] = Body(f, n)
      BY <1>3
    <2> DEFINE h == [n \in 0..MaxDepth |-> f[n]]
    <2>2. ASSUME NEW n \in 0..MaxDepth PROVE h[n] = Body(h, n)
      <3>1. n # 0 => f[n - 1] = h[n - 1]
        BY WireAssumption
      <3>2. f[n] = Body(f, n) /\ h[n] = f[n]
        BY <2>1, WireAssumption
      <3> HIDE DEF h
      <3>3. QED
        BY <1>1, <3>1, <3>2
    <2>3. h = [n \in 0..MaxDepth |-> h[n]]
      OBVIOUS
    <2> HIDE DEF h
    <2>4. h = [n \in 0..MaxDepth |-> Body(h, n)]
      BY <2>2, <2>3
    <2>5. QED
      BY <2>4
  <1>5. UnsafeIn(V, p) = [n \in 0 .. MaxDepth |-> Body(UnsafeIn(V, p), n)]
    BY <1>4 DEF Body, UnsafeIn
  <1> DEFINE whole == UnsafeIn(V, p)
  <1>6. \A n \in 0 .. MaxDepth : whole[n] = Body(whole, n)
    <2>1. whole = [n \in 0 .. MaxDepth |-> Body(whole, n)]
      BY <1>5
    <2> HIDE DEF whole
    <2>2. QED
      BY <2>1
  <1>7. 0 \in 0 .. MaxDepth /\ \A n \in 1 .. MaxDepth : n \in 0 .. MaxDepth /\ n # 0
    BY WireAssumption
  <1> HIDE DEF whole
  <1>8. \A n \in 0 .. MaxDepth : \A q \in Parts(V, p) :
           q \in whole[n] <=> HasUnsafe(Below({}, whole, n), V, q)
    BY <1>6, <1>7 DEF Body, Below
  <1>9. QED
    BY <1>8 DEF whole

-----------------------------------------------------------------------------
(* Numbers.                                                                  *)

\* What / and % mean: the quotient and the remainder there are.
LEMMA DivMod ==
  ASSUME NEW n \in Int, NEW m \in Nat \ {0}
  PROVE  /\ n \div m \in Int /\ n % m \in 0 .. m - 1
         /\ n = m * (n \div m) + (n % m)
  OBVIOUS

\* ... and there is one of each only.
LEMMA DivModOnce ==
  ASSUME NEW m \in Nat \ {0}, NEW q \in Int, NEW r \in 0 .. m - 1,
         NEW p \in Int, NEW s \in 0 .. m - 1, m * q + r = m * p + s
  PROVE  q = p /\ r = s
  <1>1. m * (q - p) = s - r
    OBVIOUS
  <1>2. q - p \in Int /\ s - r < m /\ s - r > -m
    OBVIOUS
  <1>3. CASE q - p >= 1
    <2>1. m * (q - p) >= m
      BY <1>2, <1>3
    <2>2. QED
      BY <1>1, <1>2, <2>1
  <1>4. CASE q - p <= -1
    <2>1. m * (q - p) <= -m
      BY <1>2, <1>4
    <2>2. QED
      BY <1>1, <1>2, <2>1
  <1>5. QED
    BY <1>1, <1>2, <1>3, <1>4

\* The rest does not change with a multiple.
LEMMA ModShift ==
  ASSUME NEW n \in Int, NEW m \in Nat \ {0}, NEW k \in Int
  PROVE  (n + m * k) % m = n % m
  <1> DEFINE n2 == n + m * k
  <1>1. /\ n \div m \in Int /\ n % m \in 0 .. m - 1
        /\ n = m * (n \div m) + (n % m)
    BY DivMod
  <1>2. /\ n2 \div m \in Int /\ n2 % m \in 0 .. m - 1
        /\ n2 = m * (n2 \div m) + (n2 % m)
    <2>1. n2 \in Int
      OBVIOUS
    <2> HIDE DEF n2
    <2>2. QED
      BY <2>1, DivMod
  <1> DEFINE q == n \div m
             r == n % m
             q2 == n2 \div m
             r2 == n2 % m
  <1>3. /\ q \in Int /\ r \in 0 .. m - 1 /\ n = m * q + r
        /\ q2 \in Int /\ r2 \in 0 .. m - 1 /\ n2 = m * q2 + r2
    <2> HIDE DEF n2
    <2>1. QED
      BY <1>1, <1>2
  <1> HIDE DEF q, r, q2, r2
  <1>4. q + k \in Int /\ m * (q + k) + r = m * q2 + r2
    <2>1. m * (q + k) = m * q + m * k
      BY <1>3
    <2>2. n2 = m * q + r + m * k
      BY <1>3
    <2> DEFINE a == m * q
               b == m * k
               c == m * q2
               d == m * (q + k)
    <2>3. /\ a \in Int /\ b \in Int /\ r \in Int /\ q + k \in Int
          /\ d = a + b /\ n2 = a + r + b /\ n2 = c + r2
      BY <1>3, <2>1, <2>2
    <2> HIDE DEF n2, a, b, c, d
    <2>4. d + r = c + r2
      BY <2>3
    <2>5. QED
      BY <2>3, <2>4 DEF c, d
  <1> DEFINE z == q + k
  <1>5. /\ z \in Int /\ r \in 0 .. m - 1 /\ q2 \in Int /\ r2 \in 0 .. m - 1
        /\ m * z + r = m * q2 + r2
    BY <1>3, <1>4
  <1> HIDE DEF z
  <1>6. r = r2
    BY <1>5, DivModOnce, Zenon
  <1>7. QED
    BY <1>6 DEF r, r2

\* What fits is read as it was.
LEMMA SignedSame ==
  ASSUME NEW half \in Nat \ {0}, NEW v \in -half .. half - 1
  PROVE  Signed(v, half) = v
  <1>1. v + half \in Int /\ v + half >= 0 /\ v + half < 2 * half /\ 2 * half \in Nat \ {0}
    OBVIOUS
  <1>2. (v + half) % (2 * half) = v + half
    <2> DEFINE n == v + half
               m == 2 * half
    <2>1. n \in 0 .. m - 1 /\ m \in Nat \ {0} /\ n \in Int
      BY <1>1
    <2> HIDE DEF n, m
    <2>2. /\ n \div m \in Int /\ n % m \in 0 .. m - 1 /\ n = m * (n \div m) + (n % m)
      BY <2>1, DivMod
    <2>3. 0 \in Int /\ m * 0 + n = m * (n \div m) + (n % m)
      BY <2>1, <2>2
    <2>4. n = n % m
      BY <2>1, <2>2, <2>3, DivModOnce, Zenon
    <2>5. QED
      BY <2>4 DEF n, m
  <1>3. QED
    BY <1>1, <1>2 DEF Signed

\* The low bits of a number are those of its 64 bits.
LEMMA SignedLow ==
  ASSUME NEW half \in Nat \ {0}, NEW v \in Int, Int64Half % half = 0
  PROVE  /\ Signed(v % (2 * Int64Half), half) = Signed(v, half)
         /\ v % (2 * Int64Half) \in Nat
  <1>1. Int64Half \in Nat \ {0} /\ 2 * Int64Half \in Nat \ {0}
    BY WireAssumption
  <1> DEFINE M == 2 * Int64Half
             k == Int64Half \div half
             d == v \div M
             r == v % M
  <1>2. /\ d \in Int /\ r \in 0 .. M - 1 /\ v = M * d + r
    BY <1>1, DivMod
  <1>3. k \in Int /\ Int64Half = half * k
    <2>1. /\ Int64Half \div half \in Int
          /\ Int64Half = half * (Int64Half \div half) + (Int64Half % half)
      BY <1>1, DivMod
    <2>2. QED
      BY <1>1, <2>1
  <1>4. M \in Nat \ {0} /\ M = 2 * Int64Half
    BY <1>1
  <1> HIDE DEF M, k, d, r
  <1>5. M = (2 * half) * k
    BY <1>1, <1>3, <1>4
  <1>6. k * d \in Int /\ M * d = (2 * half) * (k * d)
    <2>1. d \in Int /\ k \in Int /\ k * d \in Int
      BY <1>2, <1>3
    <2>2. \A x, y, z \in Int : (x * y) * z = x * (y * z)
      OBVIOUS
    <2> DEFINE h2 == 2 * half
    <2>3. h2 \in Int
      OBVIOUS
    <2>4. (h2 * k) * d = h2 * (k * d)
      <3> HIDE DEF h2
      <3>1. QED
        BY <2>1, <2>2, <2>3, Zenon
    <2>5. QED
      BY <1>5, <2>1, <2>4
  <1>7. /\ r + half \in Int /\ v + half \in Int /\ 2 * half \in Nat \ {0}
        /\ v + half = (r + half) + (2 * half) * (k * d)
    BY <1>2, <1>4, <1>6
  <1>8. (v + half) % (2 * half) = (r + half) % (2 * half)
    <2> DEFINE n == r + half
               n2 == v + half
               m == 2 * half
               z == k * d
    <2>1. /\ n \in Int /\ n2 \in Int /\ z \in Int
          /\ m \in Nat \ {0} /\ n2 = n + m * z
      BY <1>6, <1>7
    <2> HIDE DEF n, n2, m, z
    <2>2. (n + m * z) % m = n % m
      BY <2>1, ModShift, Zenon
    <2>3. n2 = n + m * z
      BY <2>1
    <2>4. QED
      BY <2>2, <2>3 DEF n, n2, m
  <1>9. r \in Nat
    BY <1>2, <1>4
  <1>10. Signed(r, half) = Signed(v, half)
    BY <1>8 DEF Signed
  <1>11. QED
    BY <1>9, <1>10 DEF r, M

-----------------------------------------------------------------------------
(* Types.                                                                    *)

Kinds == {"string", "bool", "int32", "int64", "double", "message"}

\* A field as a type has it.
IsField(f) ==
  /\ f.no \in Nat \ {0} /\ f.repeated \in BOOLEAN /\ f.kind \in Kinds
  /\ f.repeated => f.kind \in {"string", "message"}

\* The fields of a type, one by one.
IsType(T) ==
  /\ Len(T) \in Nat /\ DOMAIN T = 1 .. Len(T)
  /\ \A i \in 1 .. Len(T) : IsField(T[i])
  /\ \A i, j \in 1 .. Len(T) : i # j => T[i].no # T[j].no /\ T[i].name # T[j].name

\* What a table says of a type.
LEMMA TypeOf ==
  ASSUME NEW V, IsTable(V), NEW type \in DOMAIN V
  PROVE  /\ IsType(V[type])
         /\ \A i \in 1 .. Len(V[type]) :
              V[type][i].kind = "message" => V[type][i].type \in DOMAIN V
  <1> DEFINE T == V[type]
  <1>1. /\ T \in Seq(Fields)
        /\ \A i, j \in DOMAIN T : i # j => T[i].no # T[j].no /\ T[i].name # T[j].name
        /\ \A f \in Range(T) : /\ f.kind = "message" => f.type \in DOMAIN V
                               /\ f.repeated => f.kind \in {"string", "message"}
    BY DEF IsTable
  <1> HIDE DEF T
  <1>2. Len(T) \in Nat /\ DOMAIN T = 1 .. Len(T) /\ \A i \in 1 .. Len(T) : T[i] \in Fields
    BY <1>1
  <1>3. ASSUME NEW i \in 1 .. Len(T)
        PROVE  IsField(T[i]) /\ (T[i].kind = "message" => T[i].type \in DOMAIN V)
    <2>1. T[i] \in Range(T)
      BY <1>2 DEF Range
    <2>2. T[i] \in Fields
      BY <1>2
    <2>3. QED
      BY <1>1, <2>1, <2>2 DEF IsField, Fields, Kinds
  <1>4. QED
    BY <1>1, <1>2, <1>3 DEF IsType, T

\* A tag has the number of the field and its wire type, and can be taken apart again.
LEMMA TagFacts ==
  ASSUME NEW f, IsField(f)
  PROVE  /\ WireType(f) \in {0, 1, 2} /\ TagOf(f) \in Nat /\ TagOf(f) # 0
         /\ TagOf(f) \div 8 = f.no /\ TagOf(f) % 8 = WireType(f)
  <1>1. f.no \in Nat \ {0}
    BY DEF IsField
  <1>2. WireType(f) \in {0, 1, 2}
    BY DEF IsField, Kinds, WireType
  <1> DEFINE no == f.no
             t == WireType(f)
  <1>3. no \in Nat \ {0} /\ t \in {0, 1, 2} /\ TagOf(f) = 8 * no + t
    BY <1>1, <1>2 DEF TagOf
  <1> HIDE DEF no, t
  <1>4. (8 * no + t) \div 8 = no /\ (8 * no + t) % 8 = t
    BY <1>3
  <1>5. QED
    BY <1>2, <1>3, <1>4 DEF no, t

\* A field is found under its name.
LEMMA Named ==
  ASSUME NEW T, IsType(T), NEW i \in 1 .. Len(T)
  PROVE  FieldNamed(T, T[i].name) = T[i] /\ T[i].name \in Names(T)
  <1>1. DOMAIN T = 1 .. Len(T) /\ \A j \in 1 .. Len(T) : T[j].name = T[i].name => j = i
    BY DEF IsType
  <1>2. (CHOOSE j \in DOMAIN T : T[j].name = T[i].name) = i
    BY <1>1
  <1>3. QED
    BY <1>1, <1>2 DEF FieldNamed, Names

\* A name of a type is that of one of its fields.
LEMMA NameOf ==
  ASSUME NEW T, IsType(T), NEW name \in Names(T)
  PROVE  \E i \in 1 .. Len(T) : T[i].name = name /\ FieldNamed(T, name) = T[i]
  <1>1. PICK i \in 1 .. Len(T) : T[i].name = name
    BY DEF Names, IsType
  <1>2. QED
    BY <1>1, Named

\* The field that is written as another is the only one, and the one that is
\* expected under its tag.
LEMMA WrittenOnce ==
  ASSUME NEW S, IsType(S), NEW f, IsField(f)
  PROVE  /\ Expected(S, TagOf(f)) = Written(S, f)
         /\ Written(S, f) \subseteq 1 .. Len(S)
         /\ \A i \in Written(S, f) :
              TagOf(S[i]) = TagOf(f) /\ (CHOOSE j \in Written(S, f) : TRUE) = i
  <1>1. /\ DOMAIN S = 1 .. Len(S)
        /\ \A i \in 1 .. Len(S) : IsField(S[i])
        /\ \A i, j \in 1 .. Len(S) : i # j => S[i].no # S[j].no
    BY DEF IsType
  <1>2. \A i \in 1 .. Len(S) : TagOf(S[i]) \div 8 = S[i].no
    BY <1>1, TagFacts
  <1>3. \A i \in 1 .. Len(S) : TagOf(S[i]) = TagOf(f) => S[i].no = TagOf(f) \div 8
    BY <1>2
  <1>4. Written(S, f) = {i \in 1 .. Len(S) : TagOf(S[i]) = TagOf(f)}
    BY <1>1 DEF Written
  <1>5. Expected(S, TagOf(f)) = Written(S, f)
    BY <1>1, <1>3, <1>4 DEF Expected
  <1>6. \A i, j \in Written(S, f) : i = j
    BY <1>1, <1>3, <1>4
  <1>7. ASSUME NEW i \in Written(S, f)
        PROVE  (CHOOSE j \in Written(S, f) : TRUE) = i
    BY <1>6
  <1>8. QED
    BY <1>4, <1>5, <1>7

-----------------------------------------------------------------------------
(* What a message holds, level by level.                                     *)

\* q is a message of its type, as far as its own fields go.
Whole(V, q) ==
  /\ q = <<q[1], q[2]>> /\ q[1] \in DOMAIN V
  /\ DOMAIN q[2] = Names(V[q[1]])
  /\ \A i \in 1 .. Len(V[q[1]]) : IsValue(V[q[1]][i], q[2][V[q[1]][i].name])

\* What q holds of messages is in P.
Kids(V, q, P) ==
  \A i \in 1 .. Len(V[q[1]]) : V[q[1]][i].kind = "message" =>
    \A k \in DOMAIN q[2][V[q[1]][i].name] :
      <<V[q[1]][i].type, q[2][V[q[1]][i].name][k]>> \in P

\* What p holds that has at most n levels inside.
Level(V, p, n) == Levels(V, p)[MaxDepth - n]

\* Inside has all that a message holds of messages.
LEMMA KidsInside ==
  ASSUME NEW V, IsTable(V), NEW q, Whole(V, q)
  PROVE  Kids(V, q, Inside(V, q))
  <1> DEFINE S == V[q[1]]
  <1>1. IsType(S)
    BY TypeOf DEF Whole
  <1>2. ASSUME NEW i \in 1 .. Len(S), S[i].kind = "message",
               NEW k \in DOMAIN q[2][S[i].name]
        PROVE  <<S[i].type, q[2][S[i].name][k]>> \in Inside(V, q)
    <2>1. S[i] \in Range(S) /\ S[i].name \in DOMAIN q[2]
      BY <1>1, Named DEF IsType, Range, Whole
    <2> DEFINE F == {g \in Range(S) : g.kind = "message" /\ g.name \in DOMAIN q[2]}
               I(f) == {<<f.type, q[2][f.name][j]>> : j \in DOMAIN q[2][f.name]}
    <2>2. S[i] \in F
      BY <1>2, <2>1
    <2>3. <<S[i].type, q[2][S[i].name][k]>> \in I(S[i])
      OBVIOUS
    <2>4. Inside(V, q) = UNION {I(f) : f \in F}
      BY DEF Inside
    <2> HIDE DEF F, I
    <2>5. QED
      BY <2>2, <2>3, <2>4
  <1>3. QED
    BY <1>2 DEF Kids

\* What is inside has a type and is a pair.
LEMMA InsideTyped ==
  ASSUME NEW V, IsTable(V), NEW q, q[1] \in DOMAIN V, NEW r \in Inside(V, q)
  PROVE  r = <<r[1], r[2]>> /\ r[1] \in DOMAIN V
  <1> DEFINE S == V[q[1]]
  <1>1. PICK f \in Range(S) : f.kind = "message" /\ \E k \in DOMAIN q[2][f.name] :
                                r = <<f.type, q[2][f.name][k]>>
    BY DEF Inside
  <1>2. \E i \in 1 .. Len(S) : f = S[i]
    BY <1>1, TypeOf DEF IsType, Range
  <1>3. f.type \in DOMAIN V
    BY <1>1, <1>2, TypeOf
  <1>4. QED
    BY <1>1, <1>3

\* The levels below p have pairs of a type and a message, and what is inside a message is
\* a level below it.
LEMMA LevelsTyped ==
  ASSUME NEW V, IsTable(V), NEW p, p = <<p[1], p[2]>>, p[1] \in DOMAIN V
  PROVE  /\ p \in Levels(V, p)[0]
         /\ \A n \in 0 .. MaxDepth : \A q \in Levels(V, p)[n] :
              /\ q = <<q[1], q[2]>> /\ q[1] \in DOMAIN V /\ q \in Parts(V, p)
              /\ n < MaxDepth => Inside(V, q) \subseteq Levels(V, p)[n + 1]
  <1>0. MaxDepth \in Nat
    BY WireAssumption
  <1> DEFINE Lv == Levels(V, p)
             P == {n \in Nat : n <= MaxDepth =>
                     \A q \in Lv[n] : q = <<q[1], q[2]>> /\ q[1] \in DOMAIN V}
  <1>1. /\ Lv[0] = {p}
        /\ \A n \in 1 .. MaxDepth : Lv[n] = UNION {Inside(V, q) : q \in Lv[n - 1]}
    BY LevelsRec
  <1>2. Parts(V, p) = UNION {Lv[n] : n \in 0 .. MaxDepth}
    BY DEF Parts
  <1> HIDE DEF Lv
  <1>3. Lv[0] = {p}
    BY <1>1
  <1>4. ASSUME NEW n \in 0 .. MaxDepth, n < MaxDepth
        PROVE  Lv[n + 1] = UNION {Inside(V, q) : q \in Lv[n]}
    <2>1. n + 1 \in 1 .. MaxDepth /\ (n + 1) - 1 = n
      BY <1>0, <1>4
    <2>2. QED
      BY <1>1, <2>1
  <1>5. 0 \in P
    BY <1>3
  <1>6. ASSUME NEW n \in Nat, n \in P PROVE n + 1 \in P
    <2>1. SUFFICES ASSUME n + 1 <= MaxDepth, NEW r \in Lv[n + 1]
                   PROVE  r = <<r[1], r[2]>> /\ r[1] \in DOMAIN V
      OBVIOUS
    <2>2. n \in 0 .. MaxDepth /\ n < MaxDepth
      BY <1>0, <2>1
    <2>3. PICK q \in Lv[n] : r \in Inside(V, q)
      BY <1>4, <2>2
    <2>4. q[1] \in DOMAIN V
      BY <1>6, <2>2
    <2>5. QED
      BY <2>3, <2>4, InsideTyped, Zenon
  <1>7. \A n \in Nat : n \in P
    <2> HIDE DEF P
    <2>1. QED
      BY <1>5, <1>6, NatInd
  <1>8. ASSUME NEW n \in 0 .. MaxDepth, NEW q \in Lv[n]
        PROVE  /\ q = <<q[1], q[2]>> /\ q[1] \in DOMAIN V /\ q \in Parts(V, p)
               /\ n < MaxDepth => Inside(V, q) \subseteq Lv[n + 1]
    <2>1. q = <<q[1], q[2]>> /\ q[1] \in DOMAIN V
      BY <1>0, <1>7
    <2>2. q \in Parts(V, p)
      BY <1>2
    <2>3. n < MaxDepth => Inside(V, q) \subseteq Lv[n + 1]
      BY <1>4
    <2>4. QED
      BY <2>1, <2>2, <2>3
  <1>9. QED
    BY <1>3, <1>8 DEF Lv

\* A message is whole at each level, and what it holds is on the next.
LEMMA LevelFacts ==
  ASSUME NEW V, IsTable(V), NEW p, p = <<p[1], p[2]>>, p[1] \in DOMAIN V, IsMessage(V, p)
  PROVE  /\ p \in Level(V, p, MaxDepth)
         /\ \A n \in 0 .. MaxDepth : \A q \in Level(V, p, n) :
              /\ Whole(V, q) /\ q \in Parts(V, p)
              /\ Kids(V, q, IF n = 0 THEN {} ELSE Level(V, p, n - 1))
  <1>0. MaxDepth \in Nat
    BY WireAssumption
  <1> DEFINE Lv == Levels(V, p)
  <1>1. /\ p \in Lv[0]
        /\ \A n \in 0 .. MaxDepth : \A q \in Lv[n] :
             /\ q = <<q[1], q[2]>> /\ q[1] \in DOMAIN V /\ q \in Parts(V, p)
             /\ n < MaxDepth => Inside(V, q) \subseteq Lv[n + 1]
    BY LevelsTyped
  <1>2. /\ \A n \in 0 .. MaxDepth : \A q \in Lv[n] :
             /\ DOMAIN q[2] = Names(V[q[1]])
             /\ \A f \in Range(V[q[1]]) : IsValue(f, q[2][f.name])
        /\ \A q \in Lv[MaxDepth] : Inside(V, q) = {}
    BY DEF IsMessage
  <1> HIDE DEF Lv
  <1>3. ASSUME NEW n \in 0 .. MaxDepth, NEW q \in Lv[n]
        PROVE  Whole(V, q)
    <2>1. q[1] \in DOMAIN V
      BY <1>1
    <2>2. IsType(V[q[1]])
      BY <2>1, TypeOf
    <2>3. \A i \in 1 .. Len(V[q[1]]) : V[q[1]][i] \in Range(V[q[1]])
      BY <2>2 DEF IsType, Range
    <2>4. QED
      BY <1>1, <1>2, <2>3 DEF Whole
  <1>4. ASSUME NEW n \in 0 .. MaxDepth, NEW q \in Lv[MaxDepth - n]
        PROVE  Kids(V, q, IF n = 0 THEN {} ELSE Lv[MaxDepth - (n - 1)])
    <2>1. MaxDepth - n \in 0 .. MaxDepth
      BY <1>0
    <2>2. Kids(V, q, Inside(V, q))
      BY <1>3, <2>1, KidsInside
    <2>3. Inside(V, q) \subseteq IF n = 0 THEN {} ELSE Lv[MaxDepth - (n - 1)]
      <3>1. CASE n = 0
        <4>1. MaxDepth - n = MaxDepth
          BY <1>0, <3>1
        <4>2. QED
          BY <1>2, <3>1, <4>1
      <3>2. CASE n # 0
        <4>1. MaxDepth - n < MaxDepth /\ (MaxDepth - n) + 1 = MaxDepth - (n - 1)
          BY <1>0, <3>2
        <4>2. Inside(V, q) \subseteq Lv[(MaxDepth - n) + 1]
          BY <1>1, <2>1, <4>1
        <4>3. QED
          BY <3>2, <4>1, <4>2
      <3>3. QED
        BY <3>1, <3>2
    <2>4. QED
      BY <2>2, <2>3 DEF Kids
  <1>5. p \in Lv[MaxDepth - MaxDepth]
    BY <1>0, <1>1
  <1>6. \A n \in 0 .. MaxDepth : MaxDepth - n \in 0 .. MaxDepth
    BY <1>0
  <1>7. QED
    BY <1>1, <1>3, <1>4, <1>5, <1>6 DEF Level, Lv

\* What holds at a level when it holds a level below holds at every level ...
LEMMA UpInd ==
  ASSUME NEW S, \A n \in 0 .. MaxDepth : (n # 0 => n - 1 \in S) => n \in S
  PROVE  \A n \in 0 .. MaxDepth : n \in S
  <1> DEFINE R == {n \in Nat : n <= MaxDepth => n \in S}
  <1>1. MaxDepth \in Nat
    BY WireAssumption
  <1>2. 0 \in R
    BY <1>1
  <1>3. ASSUME NEW n \in Nat, n \in R PROVE n + 1 \in R
    <2>1. SUFFICES ASSUME n + 1 <= MaxDepth PROVE n + 1 \in S
      OBVIOUS
    <2>2. n + 1 \in 0 .. MaxDepth /\ (n + 1) - 1 = n /\ n <= MaxDepth
      BY <1>1, <2>1
    <2>3. n \in S
      BY <1>3, <2>2
    <2>4. QED
      BY <2>2, <2>3
  <1> HIDE DEF R
  <1>4. \A n \in Nat : n \in R
    BY <1>2, <1>3, NatInd
  <1>5. QED
    BY <1>1, <1>4 DEF R

\* ... and so does what holds at the top and below any level it holds at.
LEMMA DownInd ==
  ASSUME NEW S, MaxDepth \in S, \A n \in 1 .. MaxDepth : n \in S => n - 1 \in S
  PROVE  \A n \in 0 .. MaxDepth : n \in S
  <1> DEFINE R == {n \in Nat : n <= MaxDepth => MaxDepth - n \in S}
  <1>1. MaxDepth \in Nat
    BY WireAssumption
  <1>2. 0 \in R
    BY <1>1
  <1>3. ASSUME NEW n \in Nat, n \in R PROVE n + 1 \in R
    <2>1. SUFFICES ASSUME n + 1 <= MaxDepth PROVE MaxDepth - (n + 1) \in S
      OBVIOUS
    <2>2. MaxDepth - n \in S /\ MaxDepth - n \in 1 .. MaxDepth
      BY <1>1, <1>3, <2>1
    <2>3. (MaxDepth - n) - 1 = MaxDepth - (n + 1)
      BY <1>1
    <2>4. QED
      BY <2>2, <2>3
  <1> HIDE DEF R
  <1>4. \A n \in Nat : n \in R
    BY <1>2, <1>3, NatInd
  <1>5. SUFFICES ASSUME NEW n \in 0 .. MaxDepth PROVE n \in S
    OBVIOUS
  <1>6. MaxDepth - n \in Nat /\ MaxDepth - (MaxDepth - n) = n /\ MaxDepth - n <= MaxDepth
    BY <1>1
  <1>7. QED
    BY <1>4, <1>6 DEF R

-----------------------------------------------------------------------------
(* What is written, and where.                                               *)

\* The words x are in w, from a on.
At(w, a, x) ==
  /\ a \in Nat \ {0} /\ a + Len(x) <= Len(w) + 1
  /\ \A i \in 1 .. Len(x) : w[a + i - 1] = x[i]

\* Where two sequences of words are, one after the other, each of them is.
LEMMA AtBoth ==
  ASSUME NEW w \in Seq(Nat), NEW a, NEW s \in Seq(Nat), NEW t \in Seq(Nat), At(w, a, s \o t)
  PROVE  At(w, a, s) /\ At(w, a + Len(s), t)
  <1> DEFINE x == s \o t
  <1>1. /\ a \in Nat \ {0} /\ a + Len(x) <= Len(w) + 1
        /\ \A i \in 1 .. Len(x) : w[a + i - 1] = x[i]
    BY DEF At
  <1>2. /\ Len(x) = Len(s) + Len(t) /\ Len(s) \in Nat /\ Len(t) \in Nat /\ Len(w) \in Nat
        /\ \A i \in 1 .. Len(s) : x[i] = s[i]
        /\ \A i \in 1 .. Len(t) : x[Len(s) + i] = t[i]
    OBVIOUS
  <1> HIDE DEF x
  <1>3. At(w, a, s)
    <2>1. a + Len(s) <= Len(w) + 1
      BY <1>1, <1>2
    <2>2. ASSUME NEW i \in 1 .. Len(s) PROVE w[a + i - 1] = s[i]
      <3>1. i \in 1 .. Len(x)
        BY <1>2
      <3>2. w[a + i - 1] = x[i]
        BY <1>1, <3>1
      <3>3. QED
        BY <1>2, <3>2
    <2>3. QED
      BY <1>1, <2>1, <2>2 DEF At
  <1>4. At(w, a + Len(s), t)
    <2>1. (a + Len(s)) + Len(t) <= Len(w) + 1 /\ a + Len(s) \in Nat \ {0}
      BY <1>1, <1>2
    <2>2. ASSUME NEW i \in 1 .. Len(t) PROVE w[(a + Len(s)) + i - 1] = t[i]
      <3>1. Len(s) + i \in 1 .. Len(x) /\ a + (Len(s) + i) - 1 = (a + Len(s)) + i - 1
        BY <1>1, <1>2
      <3>2. w[a + (Len(s) + i) - 1] = x[Len(s) + i]
        BY <1>1, <3>1
      <3>3. QED
        BY <1>2, <3>1, <3>2
    <2>3. QED
      BY <2>1, <2>2 DEF At
  <1>5. QED
    BY <1>3, <1>4

\* u[k] is the first k of the parts in c, one after the other.
Chain(u, c, n) ==
  /\ n \in Nat /\ u[0] = <<>>
  /\ \A k \in 1 .. n : c[k] \in Seq(Nat) /\ u[k] = u[k - 1] \o c[k]

\* What a chain makes is words.
LEMMA ChainTyped ==
  ASSUME NEW u, NEW c, NEW n, Chain(u, c, n)
  PROVE  \A k \in 0 .. n : u[k] \in Seq(Nat)
  <1> DEFINE P == {k \in Nat : k <= n => u[k] \in Seq(Nat)}
  <1>1. 0 \in P
    <2>1. u[0] \in Seq(Nat)
      BY DEF Chain
    <2>2. QED
      BY <2>1
  <1>2. ASSUME NEW k \in Nat, k \in P PROVE k + 1 \in P
    <2>1. SUFFICES ASSUME k + 1 <= n PROVE u[k + 1] \in Seq(Nat)
      OBVIOUS
    <2>2. k + 1 \in 1 .. n /\ (k + 1) - 1 = k /\ k <= n
      BY <2>1 DEF Chain
    <2>3. u[k] \in Seq(Nat)
      BY <1>2, <2>2
    <2>4. c[k + 1] \in Seq(Nat) /\ u[k + 1] = u[k] \o c[k + 1]
      BY <2>2 DEF Chain
    <2>5. QED
      BY <2>3, <2>4
  <1>3. \A k \in Nat : k \in P
    <2> HIDE DEF P
    <2>1. QED
      BY <1>1, <1>2, NatInd
  <1>4. n \in Nat
    BY DEF Chain
  <1>5. QED
    BY <1>3, <1>4

\* Where the words of a whole chain are, each link is, after the links before it.
LEMMA ChainAt ==
  ASSUME NEW u, NEW c, NEW n, Chain(u, c, n), NEW w \in Seq(Nat), NEW a, At(w, a, u[n])
  PROVE  /\ \A k \in 0 .. n : Len(u[k]) \in Nat /\ Len(u[k]) <= Len(u[n])
         /\ \A k \in 1 .. n : /\ Len(u[k]) = Len(u[k - 1]) + Len(c[k])
                              /\ At(w, a + Len(u[k - 1]), c[k])
  <1>0. n \in Nat /\ \A k \in 0 .. n : u[k] \in Seq(Nat)
    BY ChainTyped DEF Chain
  <1>1. ASSUME NEW k \in 1 .. n
        PROVE  /\ k - 1 \in 0 .. n /\ k \in 0 .. n /\ c[k] \in Seq(Nat)
               /\ u[k] = u[k - 1] \o c[k] /\ Len(u[k]) = Len(u[k - 1]) + Len(c[k])
               /\ Len(c[k]) \in Nat /\ Len(u[k - 1]) \in Nat
    <2>1. k - 1 \in 0 .. n /\ k \in 0 .. n
      BY <1>0
    <2>2. u[k - 1] \in Seq(Nat) /\ c[k] \in Seq(Nat) /\ u[k] = u[k - 1] \o c[k]
      BY <1>0, <2>1 DEF Chain
    <2>3. QED
      BY <2>1, <2>2
  <1> DEFINE P == {j \in Nat : j <= n => /\ At(w, a, u[n - j])
                                         /\ Len(u[n - j]) <= Len(u[n])}
  <1>2. 0 \in P
    <2>1. n - 0 = n /\ Len(u[n]) <= Len(u[n])
      BY <1>0
    <2>2. QED
      BY <2>1
  <1>3. ASSUME NEW j \in Nat, j \in P PROVE j + 1 \in P
    <2>1. SUFFICES ASSUME j + 1 <= n
                   PROVE  At(w, a, u[n - (j + 1)]) /\ Len(u[n - (j + 1)]) <= Len(u[n])
      OBVIOUS
    <2>2. n - j \in 1 .. n /\ (n - j) - 1 = n - (j + 1) /\ j <= n
      BY <1>0, <2>1
    <2>3. At(w, a, u[n - j]) /\ Len(u[n - j]) <= Len(u[n])
      BY <1>3, <2>2
    <2> DEFINE k == n - j
    <2>4. /\ k - 1 \in 0 .. n /\ k \in 0 .. n /\ c[k] \in Seq(Nat)
          /\ u[k] = u[k - 1] \o c[k] /\ Len(u[k]) = Len(u[k - 1]) + Len(c[k])
          /\ Len(c[k]) \in Nat /\ Len(u[k - 1]) \in Nat
      BY <1>1, <2>2
    <2>5. At(w, a, u[k]) /\ Len(u[k]) <= Len(u[n]) /\ k - 1 = n - (j + 1)
      BY <2>2, <2>3
    <2>6. Len(u[n]) \in Nat
      BY <1>0
    <2> HIDE DEF k
    <2>7. At(w, a, u[k - 1])
      BY <1>0, <2>4, <2>5, AtBoth
    <2>8. Len(u[k - 1]) <= Len(u[n])
      <3> DEFINE x == Len(u[k - 1])
                 y == Len(c[k])
                 z == Len(u[k])
                 m == Len(u[n])
      <3>1. x \in Nat /\ y \in Nat /\ z = x + y /\ z <= m /\ m \in Nat
        BY <2>4, <2>5, <2>6
      <3> HIDE DEF x, y, z, m
      <3>2. x <= m
        BY <3>1
      <3>3. QED
        BY <3>2 DEF x, m
    <2>9. u[k - 1] = u[n - (j + 1)]
      BY <2>5
    <2>10. QED
      BY <2>7, <2>8, <2>9
  <1>4. \A j \in Nat : j \in P
    <2> HIDE DEF P
    <2>1. QED
      BY <1>2, <1>3, NatInd
  <1>5. ASSUME NEW k \in 0 .. n PROVE At(w, a, u[k]) /\ Len(u[k]) <= Len(u[n])
    <2>1. n - k \in Nat /\ n - k <= n /\ n - (n - k) = k
      BY <1>0
    <2>2. n - k \in P
      BY <1>4, <2>1
    <2>3. At(w, a, u[n - (n - k)]) /\ Len(u[n - (n - k)]) <= Len(u[n])
      BY <2>1, <2>2
    <2>4. QED
      BY <2>1, <2>3
  <1>6. ASSUME NEW k \in 1 .. n PROVE At(w, a + Len(u[k - 1]), c[k])
    <2>1. At(w, a, u[k - 1] \o c[k])
      BY <1>1, <1>5
    <2>2. QED
      BY <1>0, <1>1, <2>1, AtBoth
  <1>7. \A k \in 0 .. n : Len(u[k]) \in Nat
    BY <1>0
  <1>8. QED
    BY <1>1, <1>5, <1>6, <1>7

\* The values of a field that are written.
LEMMA ElementsOf ==
  ASSUME NEW g, IsField(g), NEW v, IsValue(g, v)
  PROVE  LET s == Elements(g, v)
         IN  /\ Len(s) \in Nat /\ DOMAIN s = 1 .. Len(s)
             /\ g.kind = "message" \/ g.repeated =>
                  /\ s = v /\ Len(v) \in Nat /\ DOMAIN v = 1 .. Len(v)
                  /\ v = [k \in 1 .. Len(v) |-> v[k]]
             /\ ~g.repeated => Len(s) <= 1
             /\ g.kind # "message" => \A k \in 1 .. Len(s) : IsScalar(g, s[k])
             /\ g.kind # "message" /\ ~g.repeated => IsScalar(g, v)
  <1>1. CASE g.kind = "message" \/ g.repeated
    <2>1. Elements(g, v) = v /\ v \in Seq(Range(v)) /\ (g.repeated \/ Len(v) <= 1)
      BY <1>1 DEF Elements, IsValue
    <2>2. g.kind # "message" => \A k \in DOMAIN v : IsScalar(g, v[k])
      BY <1>1 DEF IsValue
    <2>3. v = [k \in 1 .. Len(v) |-> v[k]] /\ Len(v) \in Nat /\ DOMAIN v = 1 .. Len(v)
      BY <2>1
    <2>4. QED
      BY <1>1, <2>1, <2>2, <2>3 DEF IsField
  <1>2. CASE ~(g.kind = "message" \/ g.repeated)
    <2>1. Elements(g, v) = IF v = Unset(g) THEN <<>> ELSE <<v>>
      BY <1>2 DEF Elements
    <2>2. IsScalar(g, v)
      BY <1>2 DEF IsValue
    <2> DEFINE s == Elements(g, v)
    <2>3. /\ Len(s) \in Nat /\ DOMAIN s = 1 .. Len(s) /\ Len(s) <= 1
          /\ \A k \in 1 .. Len(s) : s[k] = v
      <3>1. CASE v = Unset(g)
        BY <2>1, <3>1
      <3>2. CASE v # Unset(g)
        BY <2>1, <3>2
      <3>3. QED
        BY <3>1, <3>2
    <2> HIDE DEF s
    <2>4. \A k \in 1 .. Len(s) : IsScalar(g, s[k])
      BY <2>2, <2>3
    <2>5. QED
      BY <1>2, <2>2, <2>3, <2>4 DEF s
  <1>3. QED
    BY <1>1, <1>2

-----------------------------------------------------------------------------
(* The words of a value, and of a message.                                   *)

\* The contents of a value that has a length.
Content(enc, g, x) ==
  IF g.kind = "message" THEN enc[<<g.type, x>>] ELSE IF x = 0 THEN <<>> ELSE <<x>>

\* The number that is written of a value that has none.
Coded(g, x) == IF g.kind = "bool" THEN IF x THEN 1 ELSE 0 ELSE x % (2 * Int64Half)

\* What can be written of a field.
Writable(enc, g, x) ==
  IF g.kind = "message" THEN enc[<<g.type, x>>] \in Seq(Nat) ELSE IsScalar(g, x)

\* What is written of a value is a tag, then a length and so many words, or one word.
LEMMA ElementWords ==
  ASSUME NEW enc, NEW g, IsField(g), NEW x, Writable(enc, g, x)
  PROVE  /\ EncodeElement(enc, g, x) \in Seq(Nat)
         /\ WireType(g) = 2 => /\ Content(enc, g, x) \in Seq(Nat)
                               /\ EncodeElement(enc, g, x) =
                                    <<TagOf(g)>> \o
                                      (<<Len(Content(enc, g, x))>> \o Content(enc, g, x))
         /\ WireType(g) # 2 => /\ Coded(g, x) \in Nat
                               /\ EncodeElement(enc, g, x) = <<TagOf(g)>> \o <<Coded(g, x)>>
  <1>1. TagOf(g) \in Nat
    BY TagFacts
  <1> DEFINE z == Content(enc, g, x)
  <1>2. CASE g.kind \in {"message", "string"}
    <2>1. WireType(g) = 2
      BY <1>2 DEF WireType
    <2>2. z \in Seq(Nat)
      BY <1>2 DEF Content, Writable, IsScalar
    <2>3. EncodeValue(enc, g, x) = <<Len(z)>> \o z
      BY <1>2 DEF EncodeValue, Ldelim, Content
    <2> HIDE DEF z
    <2>4. EncodeElement(enc, g, x) = <<TagOf(g)>> \o (<<Len(z)>> \o z)
      BY <2>3 DEF EncodeElement
    <2>5. Len(z) \in Nat
      BY <2>2
    <2>6. <<Len(z)>> \o z \in Seq(Nat)
      BY <2>2, <2>5
    <2>7. <<TagOf(g)>> \o (<<Len(z)>> \o z) \in Seq(Nat)
      BY <1>1, <2>6
    <2>8. QED
      BY <2>1, <2>2, <2>4, <2>7 DEF z
  <1>3. CASE ~(g.kind \in {"message", "string"})
    <2>1. WireType(g) # 2
      BY <1>3 DEF WireType
    <2>2. Coded(g, x) \in Nat
      <3>1. CASE g.kind = "bool"
        BY <3>1 DEF Coded
      <3>2. CASE g.kind # "bool"
        <4>1. x \in Int
          <5>1. Int64Half \in Nat
            BY WireAssumption
          <5>2. IsScalar(g, x)
            BY <1>3 DEF Writable
          <5>3. QED
            BY <3>2, <5>1, <5>2 DEF IsScalar
        <4>2. 2 * Int64Half \in Nat \ {0}
          BY WireAssumption
        <4> DEFINE m == 2 * Int64Half
        <4>3. x % m \in Nat
          <5> HIDE DEF m
          <5>1. m \in Nat \ {0}
            BY <4>2 DEF m
          <5>2. QED
            BY <4>1, <5>1
        <4>4. QED
          BY <3>2, <4>3 DEF Coded
      <3>3. QED
        BY <3>1, <3>2
    <2>3. EncodeValue(enc, g, x) = <<Coded(g, x)>>
      BY <1>3 DEF EncodeValue, Coded
    <2>4. EncodeElement(enc, g, x) = <<TagOf(g)>> \o <<Coded(g, x)>>
      BY <2>3 DEF EncodeElement
    <2>5. QED
      BY <1>1, <2>1, <2>2, <2>4
  <1>4. QED
    BY <1>2, <1>3

\* Where the words of a value are.
LEMMA ElementAt ==
  ASSUME NEW enc, NEW g, IsField(g), NEW x, Writable(enc, g, x),
         NEW w \in Seq(Nat), NEW o, At(w, o, EncodeElement(enc, g, x))
  PROVE  /\ o \in Nat \ {0} /\ w[o] = TagOf(g) /\ Len(EncodeElement(enc, g, x)) \in Nat
         /\ Len(EncodeElement(enc, g, x)) >= 2
         /\ WireType(g) = 2 => /\ w[o + 1] = Len(Content(enc, g, x))
                               /\ Len(Content(enc, g, x)) \in Nat
                               /\ At(w, o + 2, Content(enc, g, x))
                               /\ Len(EncodeElement(enc, g, x)) = 2 + Len(Content(enc, g, x))
         /\ WireType(g) # 2 => /\ w[o + 1] = Coded(g, x)
                               /\ Len(EncodeElement(enc, g, x)) = 2
  <1> DEFINE y == EncodeElement(enc, g, x)
             z == Content(enc, g, x)
             t == TagOf(g)
  <1>1. o \in Nat \ {0} /\ y \in Seq(Nat) /\ At(w, o, y) /\ t \in Nat
    BY ElementWords, TagFacts DEF At
  <1>2. CASE WireType(g) = 2
    <2>1. z \in Seq(Nat) /\ y = <<t>> \o (<<Len(z)>> \o z)
      BY <1>2, ElementWords
    <2> HIDE DEF y, z, t
    <2> DEFINE l == Len(z)
    <2>2. l \in Nat
      BY <2>1
    <2>3. <<t>> \in Seq(Nat) /\ <<l>> \in Seq(Nat) /\ <<l>> \o z \in Seq(Nat)
      BY <1>1, <2>1, <2>2
    <2>4. At(w, o, <<t>> \o (<<l>> \o z))
      BY <1>1, <2>1
    <2>5. At(w, o, <<t>>) /\ At(w, o + Len(<<t>>), <<l>> \o z)
      BY <2>3, <2>4, AtBoth, Zenon
    <2>6. Len(<<t>>) = 1 /\ Len(<<l>>) = 1
      OBVIOUS
    <2>7. At(w, o + 1, <<l>> \o z)
      BY <2>5, <2>6
    <2>8. At(w, o + 1, <<l>>) /\ At(w, (o + 1) + Len(<<l>>), z)
      BY <2>1, <2>3, <2>7, AtBoth, Zenon
    <2>9. (o + 1) + 1 = o + 2
      BY <1>1
    <2>10. At(w, o + 2, z)
      BY <2>6, <2>8, <2>9
    <2>11. w[o] = t /\ w[o + 1] = l
      BY <1>1, <2>2, <2>5, <2>8, SMTT(30) DEF At
    <2>12. Len(y) = 2 + l
      <3>1. Len(<<l>> \o z) = 1 + l
        BY <2>1, <2>2
      <3>2. Len(<<t>> \o (<<l>> \o z)) = 1 + Len(<<l>> \o z)
        BY <1>1, <2>3
      <3>3. QED
        BY <2>1, <2>2, <3>1, <3>2
    <2>13. QED
      BY <1>1, <1>2, <2>2, <2>10, <2>11, <2>12 DEF y, z, t, l
  <1>3. CASE WireType(g) # 2
    <2> DEFINE c == Coded(g, x)
    <2>1. c \in Nat /\ y = <<t>> \o <<c>>
      BY <1>3, ElementWords
    <2> HIDE DEF y, z, t, c
    <2>2. <<t>> \in Seq(Nat) /\ <<c>> \in Seq(Nat) /\ Len(<<t>>) = 1 /\ Len(<<t>> \o <<c>>) = 2
      BY <1>1, <2>1
    <2>3. At(w, o, <<t>>) /\ At(w, o + Len(<<t>>), <<c>>)
      BY <1>1, <2>1, <2>2, AtBoth
    <2>4. At(w, o + 1, <<c>>)
      BY <2>2, <2>3
    <2>5. w[o] = t /\ w[o + 1] = c
      BY <1>1, <2>1, <2>3, <2>4 DEF At
    <2>6. Len(y) = 2
      BY <2>1, <2>2
    <2>7. QED
      BY <1>1, <1>3, <2>5, <2>6 DEF y, t, c
  <1>4. QED
    BY <1>2, <1>3

\* The values of the i-th field of q that are written, and the words of these.
Items(V, q, i) == Elements(V[q[1]][i], q[2][V[q[1]][i].name])

Words(enc, V, q, i) == FieldWords(enc, V[q[1]][i], q[2][V[q[1]][i].name])

\* What q holds of messages is written in enc.
Inner(enc, V, q) ==
  \A i \in 1 .. Len(V[q[1]]) : V[q[1]][i].kind = "message" =>
    \A k \in DOMAIN q[2][V[q[1]][i].name] :
      enc[<<V[q[1]][i].type, q[2][V[q[1]][i].name][k]>>] \in Seq(Nat)

\* Where the first k values of the i-th field end in a message that starts at a.
Place(enc, V, q, a, i, k) ==
  a + Len(MessageWords(V, enc, q)[i - 1]) + (IF k = 0 THEN 0 ELSE Len(Words(enc, V, q, i)[k]))

\* s is what is written of the value v of g.
AreItems(g, v, s) ==
  /\ IsField(g) /\ Len(s) \in Nat /\ DOMAIN s = 1 .. Len(s)
  /\ g.kind = "message" \/ g.repeated =>
       /\ s = v /\ Len(v) \in Nat /\ DOMAIN v = 1 .. Len(v)
       /\ v = [k \in 1 .. Len(v) |-> v[k]]
  /\ ~g.repeated => Len(s) <= 1
  /\ g.kind # "message" => \A k \in 1 .. Len(s) : IsScalar(g, s[k])
  /\ g.kind # "message" /\ ~g.repeated =>
       IsScalar(g, v) /\ s = IF v = Unset(g) THEN <<>> ELSE <<v>>

\* What is written of the i-th field of q.
LEMMA ItemFacts ==
  ASSUME NEW V, IsTable(V), NEW q, Whole(V, q), NEW i \in 1 .. Len(V[q[1]])
  PROVE  /\ IsField(V[q[1]][i]) /\ Len(Items(V, q, i)) \in Nat
         /\ AreItems(V[q[1]][i], q[2][V[q[1]][i].name], Items(V, q, i))
  <1> DEFINE g == V[q[1]][i]
             v == q[2][g.name]
             s == Elements(g, v)
  <1>1. IsField(g)
    BY TypeOf DEF IsType, Whole
  <1>2. IsValue(g, v)
    BY DEF Whole
  <1>3. Items(V, q, i) = s
    BY DEF Items
  <1>4. g.kind # "message" /\ ~g.repeated => s = IF v = Unset(g) THEN <<>> ELSE <<v>>
    BY DEF Elements
  <1> HIDE DEF g, v
  <1>5. /\ Len(s) \in Nat /\ DOMAIN s = 1 .. Len(s)
        /\ g.kind = "message" \/ g.repeated =>
             /\ s = v /\ Len(v) \in Nat /\ DOMAIN v = 1 .. Len(v)
             /\ v = [k \in 1 .. Len(v) |-> v[k]]
        /\ ~g.repeated => Len(s) <= 1
        /\ g.kind # "message" => \A k \in 1 .. Len(s) : IsScalar(g, s[k])
        /\ g.kind # "message" /\ ~g.repeated => IsScalar(g, v)
    BY <1>1, <1>2, ElementsOf, Zenon
  <1> HIDE DEF s
  <1>6. IsField(g) /\ Len(s) \in Nat /\ AreItems(g, v, s)
    BY <1>1, <1>4, <1>5 DEF AreItems
  <1>7. QED
    BY <1>3, <1>6 DEF g, v

\* Each value that is written of a field can be.
LEMMA ItemWritable ==
  ASSUME NEW V, IsTable(V), NEW q, Whole(V, q), NEW enc, Inner(enc, V, q),
         NEW i \in 1 .. Len(V[q[1]]), NEW k \in 1 .. Len(Items(V, q, i))
  PROVE  Writable(enc, V[q[1]][i], Items(V, q, i)[k])
  <1>1. CASE V[q[1]][i].kind = "message"
    <2> DEFINE g == V[q[1]][i]
               v == q[2][g.name]
               s == Items(V, q, i)
    <2>1. AreItems(g, v, s) /\ k \in 1 .. Len(s) /\ g.kind = "message"
      BY <1>1, ItemFacts
    <2>2. \A j \in DOMAIN v : enc[<<g.type, v[j]>>] \in Seq(Nat)
      BY <1>1 DEF Inner
    <2> HIDE DEF g, v, s
    <2>3. s = v /\ k \in DOMAIN v
      BY <2>1 DEF AreItems
    <2>4. Writable(enc, g, s[k])
      BY <2>1, <2>2, <2>3 DEF Writable
    <2>5. QED
      BY <2>4 DEF g, s
  <1>2. CASE V[q[1]][i].kind # "message"
    BY <1>2, ItemFacts DEF Writable, AreItems
  <1>3. QED
    BY <1>1, <1>2

\* The words of a field are those of its values.
LEMMA FieldChain ==
  ASSUME NEW V, IsTable(V), NEW q, Whole(V, q), NEW enc, Inner(enc, V, q),
         NEW i \in 1 .. Len(V[q[1]])
  PROVE  /\ Chain(Words(enc, V, q, i),
                  [k \in 1 .. Len(Items(V, q, i)) |->
                     EncodeElement(enc, V[q[1]][i], Items(V, q, i)[k])],
                  Len(Items(V, q, i)))
         /\ EncodeField(enc, V[q[1]][i], q[2][V[q[1]][i].name]) =
              Words(enc, V, q, i)[Len(Items(V, q, i))]
  <1> DEFINE g == V[q[1]][i]
             v == q[2][g.name]
             s == Items(V, q, i)
             n == Len(s)
             u == Words(enc, V, q, i)
             c == [k \in 1 .. n |-> EncodeElement(enc, g, s[k])]
  <1>1. n \in Nat /\ IsField(g)
    BY ItemFacts
  <1>2. s = Elements(g, v) /\ u = FieldWords(enc, g, v)
    BY DEF Items, Words
  <1>3. ByValue(FieldWords(enc, g, v), enc, g, v)
    BY <1>1, <1>2, FieldWordsRec
  <1>4. \A k \in 1 .. n : EncodeElement(enc, g, s[k]) \in Seq(Nat)
    <2>1. ASSUME NEW k \in 1 .. n PROVE EncodeElement(enc, g, s[k]) \in Seq(Nat)
      <3>1. Writable(enc, g, s[k])
        BY ItemWritable
      <3>2. QED
        BY <1>1, <3>1, ElementWords
    <2>2. QED
      BY <2>1
  <1>5. EncodeField(enc, g, v) = u[n]
    BY <1>2 DEF EncodeField
  <1> HIDE DEF g, v, s, u
  <1>6. u[0] = <<>> /\ \A k \in 1 .. n : u[k] = u[k - 1] \o EncodeElement(enc, g, s[k])
    BY <1>2, <1>3 DEF ByValue
  <1>7. \A k \in 1 .. n : c[k] = EncodeElement(enc, g, s[k])
    OBVIOUS
  <1>8. Chain(u, c, n)
    <2> HIDE DEF c, n
    <2>1. QED
      BY <1>1, <1>4, <1>6, <1>7 DEF Chain
  <1>9. QED
    BY <1>5, <1>8 DEF g, v, s, u

\* The words of a message are those of its fields.
LEMMA MessageChain ==
  ASSUME NEW V, IsTable(V), NEW q, Whole(V, q), NEW enc, Inner(enc, V, q)
  PROVE  /\ Chain(MessageWords(V, enc, q),
                  [i \in 1 .. Len(V[q[1]]) |-> Words(enc, V, q, i)[Len(Items(V, q, i))]],
                  Len(V[q[1]]))
         /\ EncodeMessage(V, enc, q) \in Seq(Nat)
  <1> DEFINE n == Len(V[q[1]])
             u == MessageWords(V, enc, q)
             F(i) == Words(enc, V, q, i)[Len(Items(V, q, i))]
             c == [i \in 1 .. n |-> F(i)]
  <1>1. n \in Nat
    BY TypeOf DEF Whole, IsType
  <1>2. \A i \in 1 .. n :
          F(i) \in Seq(Nat) /\ EncodeField(enc, V[q[1]][i], q[2][V[q[1]][i].name]) = F(i)
    <2>1. ASSUME NEW i \in 1 .. n PROVE F(i) \in Seq(Nat)
      <3>1. Len(Items(V, q, i)) \in 0 .. Len(Items(V, q, i))
        BY ItemFacts
      <3>2. QED
        BY <3>1, FieldChain, ChainTyped, Zenon
    <2>2. QED
      BY <2>1, FieldChain
  <1>3. /\ u[0] = <<>>
        /\ \A i \in 1 .. n :
             u[i] = u[i - 1] \o EncodeField(enc, V[q[1]][i], q[2][V[q[1]][i].name])
    <2>1. ByField(u, V, enc, q)
      BY <1>1, MessageWordsRec
    <2>2. QED
      BY <2>1 DEF ByField
  <1> HIDE DEF u, F
  <1>4. \A i \in 1 .. n : c[i] = F(i)
    OBVIOUS
  <1>5. Chain(u, c, n)
    <2> HIDE DEF c, n
    <2>1. QED
      BY <1>1, <1>2, <1>3, <1>4 DEF Chain
  <1>6. u[n] \in Seq(Nat)
    <2> HIDE DEF c, n
    <2>1. QED
      BY <1>1, <1>5, ChainTyped
  <1>7. QED
    BY <1>5, <1>6 DEF u, F, EncodeMessage

\* The values of q follow each other in w, from a on.
Placed(V, q, enc, w, a) ==
  /\ a \in Nat \ {0} /\ Len(EncodeMessage(V, enc, q)) \in Nat
  /\ a + Len(EncodeMessage(V, enc, q)) <= Len(w) + 1
  /\ Len(V[q[1]]) \in Nat
  /\ Place(enc, V, q, a, 1, 0) = a
  /\ Place(enc, V, q, a, Len(V[q[1]]) + 1, 0) = a + Len(EncodeMessage(V, enc, q))
  /\ \A i \in 1 .. Len(V[q[1]]) :
       /\ Len(Items(V, q, i)) \in Nat
       /\ Place(enc, V, q, a, i, Len(Items(V, q, i))) = Place(enc, V, q, a, i + 1, 0)
  /\ \A i \in 1 .. Len(V[q[1]]) : \A k \in 1 .. Len(Items(V, q, i)) :
       LET e == EncodeElement(enc, V[q[1]][i], Items(V, q, i)[k])
       IN  /\ At(w, Place(enc, V, q, a, i, k - 1), e)
           /\ Place(enc, V, q, a, i, k) = Place(enc, V, q, a, i, k - 1) + Len(e)
           /\ Place(enc, V, q, a, i, k) <= a + Len(EncodeMessage(V, enc, q))
           /\ a <= Place(enc, V, q, a, i, k - 1)

\* The values of a message follow each other, from where it starts to where it ends.
LEMMA Places ==
  ASSUME NEW V, IsTable(V), NEW q, Whole(V, q), NEW enc, Inner(enc, V, q),
         NEW w \in Seq(Nat), NEW a, At(w, a, EncodeMessage(V, enc, q))
  PROVE  Placed(V, q, enc, w, a)
  <1> DEFINE L == Len(V[q[1]])
             u == MessageWords(V, enc, q)
             F(i) == Words(enc, V, q, i)[Len(Items(V, q, i))]
             c == [i \in 1 .. L |-> F(i)]
             x == EncodeMessage(V, enc, q)
             P(i, k) == Place(enc, V, q, a, i, k)
             N(i) == Len(Items(V, q, i))
             U(i) == Words(enc, V, q, i)
             E(i, k) == EncodeElement(enc, V[q[1]][i], Items(V, q, i)[k])
  <1>1. L \in Nat /\ a \in Nat \ {0}
    BY TypeOf DEF Whole, IsType, At
  <1>2. Chain(u, c, L) /\ x = u[L] /\ x \in Seq(Nat)
    BY MessageChain DEF EncodeMessage
  <1>3. \A i \in 1 .. L : c[i] = F(i)
    OBVIOUS
  <1>4. \A i \in 1 .. L : N(i) \in Nat
    BY ItemFacts
  <1>5. \A i \in 1 .. L : Chain(U(i), [k \in 1 .. N(i) |-> E(i, k)], N(i)) /\ F(i) = U(i)[N(i)]
    BY FieldChain
  <1>6. a + Len(x) <= Len(w) + 1 /\ At(w, a, x)
    BY DEF At
  <1> DEFINE l(i) == Len(u[i])
             m(i, k) == Len(U(i)[k])
             e(i, k) == Len(E(i, k))
             X == Len(x)
  <1>7. \A i : P(i, 0) = a + l(i - 1) + 0 /\ \A k : k # 0 => P(i, k) = a + l(i - 1) + m(i, k)
    BY DEF Place
  <1> HIDE DEF L, u, F, c, x, P, N, U, E
  <1>8. /\ \A i \in 0 .. L : l(i) \in Nat /\ l(i) <= l(L)
        /\ \A i \in 1 .. L : /\ l(i) = l(i - 1) + Len(c[i])
                             /\ At(w, a + l(i - 1), c[i])
    BY <1>2, <1>6, ChainAt
  <1>9. l(0) = 0 /\ l(L) = X /\ X \in Nat
    BY <1>2 DEF Chain
  <1>10. ASSUME NEW i \in 1 .. L
         PROVE  /\ N(i) \in Nat /\ m(i, 0) = 0
                /\ l(i) = l(i - 1) + m(i, N(i))
                /\ \A k \in 0 .. N(i) : m(i, k) \in Nat /\ m(i, k) <= m(i, N(i))
                /\ \A k \in 1 .. N(i) : /\ m(i, k) = m(i, k - 1) + e(i, k)
                                        /\ e(i, k) \in Nat
                                        /\ At(w, (a + l(i - 1)) + m(i, k - 1), E(i, k))
    <2> DEFINE b == a + l(i - 1)
               n == N(i)
               v == U(i)
               d == [k \in 1 .. N(i) |-> E(i, k)]
    <2>1. n \in Nat /\ Chain(v, d, n) /\ F(i) = v[n]
      BY <1>4, <1>5
    <2>2. At(w, b, v[n])
      BY <1>3, <1>8, <2>1
    <2>3. \A k \in 1 .. n : d[k] = E(i, k)
      OBVIOUS
    <2>4. l(i) = l(i - 1) + m(i, N(i))
      BY <1>3, <1>8, <2>1
    <2> HIDE DEF b, n, v, d
    <2>5. /\ \A k \in 0 .. n : Len(v[k]) \in Nat /\ Len(v[k]) <= Len(v[n])
          /\ \A k \in 1 .. n : /\ Len(v[k]) = Len(v[k - 1]) + Len(d[k])
                               /\ At(w, b + Len(v[k - 1]), d[k])
      BY <2>1, <2>2, ChainAt
    <2>6. Len(v[0]) = 0 /\ \A k \in 1 .. n : d[k] \in Seq(Nat)
      BY <2>1 DEF Chain
    <2>7. \A k \in 1 .. n : Len(d[k]) \in Nat
      BY <2>6
    <2> HIDE DEF l
    <2>8. \A k \in 1 .. n : /\ Len(v[k]) = Len(v[k - 1]) + Len(E(i, k))
                            /\ Len(E(i, k)) \in Nat
                            /\ At(w, b + Len(v[k - 1]), E(i, k))
      BY <2>3, <2>5, <2>7
    <2>9. QED
      BY <2>1, <2>4, <2>5, <2>6, <2>8 DEF b, n, v
  <1> HIDE DEF l, m, e, X
  <1>11. P(1, 0) = a
    <2>1. 1 - 1 = 0
      OBVIOUS
    <2>2. P(1, 0) = a + l(0) + 0
      BY <1>7, <2>1
    <2>3. QED
      BY <1>1, <1>9, <2>2
  <1>12. P(L + 1, 0) = a + X
    <2>1. (L + 1) - 1 = L
      BY <1>1
    <2>2. P(L + 1, 0) = a + l(L) + 0
      BY <1>7, <2>1
    <2>3. QED
      BY <1>1, <1>9, <2>2
  <1>13. ASSUME NEW i \in 1 .. L
         PROVE  /\ P(i, N(i)) = P(i + 1, 0)
                /\ \A k \in 1 .. N(i) : /\ At(w, P(i, k - 1), E(i, k))
                                        /\ P(i, k) = P(i, k - 1) + e(i, k)
                                        /\ P(i, k) <= a + X
                                        /\ a <= P(i, k - 1)
    <2>1. i - 1 \in 0 .. L /\ i \in 0 .. L /\ (i + 1) - 1 = i
      BY <1>1
    <2> DEFINE b == a + l(i - 1)
    <2>2. l(i - 1) \in Nat /\ l(i) \in Nat /\ l(i) <= X /\ b \in Nat
      BY <1>1, <1>8, <1>9, <2>1
    <2>3. P(i + 1, 0) = a + l(i)
      <3>1. P(i + 1, 0) = a + l(i) + 0
        BY <1>7, <2>1
      <3>2. QED
        BY <1>1, <2>2, <3>1
    <2>4. /\ N(i) \in Nat /\ m(i, 0) = 0
          /\ l(i) = l(i - 1) + m(i, N(i))
          /\ \A k \in 0 .. N(i) : m(i, k) \in Nat /\ m(i, k) <= m(i, N(i))
          /\ \A k \in 1 .. N(i) : /\ m(i, k) = m(i, k - 1) + e(i, k)
                                  /\ e(i, k) \in Nat
                                  /\ At(w, b + m(i, k - 1), E(i, k))
      BY <1>10
    <2>5. ASSUME NEW k \in 0 .. N(i) PROVE P(i, k) = b + m(i, k) /\ m(i, k) \in Nat
      <3>1. CASE k = 0
        <4>1. P(i, 0) = b + 0
          BY <1>7
        <4>2. QED
          BY <2>4, <3>1, <4>1
      <3>2. CASE k # 0
        BY <1>7, <2>4, <3>2
      <3>3. QED
        BY <3>1, <3>2
    <2>6. N(i) \in 0 .. N(i)
      BY <2>4
    <2>7. P(i, N(i)) = P(i + 1, 0)
      <3>1. P(i, N(i)) = b + m(i, N(i)) /\ m(i, N(i)) \in Nat
        BY <2>5, <2>6
      <3>2. QED
        BY <1>1, <2>2, <2>3, <2>4, <3>1
    <2>8. ASSUME NEW k \in 1 .. N(i)
          PROVE  /\ At(w, P(i, k - 1), E(i, k))
                 /\ P(i, k) = P(i, k - 1) + e(i, k)
                 /\ P(i, k) <= a + X
                 /\ a <= P(i, k - 1)
      <3>1. k \in 0 .. N(i) /\ k - 1 \in 0 .. N(i)
        BY <2>4
      <3>2. /\ P(i, k) = b + m(i, k) /\ P(i, k - 1) = b + m(i, k - 1)
            /\ m(i, k) \in Nat /\ m(i, k - 1) \in Nat
        BY <2>5, <3>1
      <3>3. /\ m(i, k) = m(i, k - 1) + e(i, k) /\ e(i, k) \in Nat
            /\ At(w, b + m(i, k - 1), E(i, k)) /\ m(i, k) <= m(i, N(i))
            /\ m(i, N(i)) \in Nat
        BY <2>4, <2>6, <3>1
      <3>4. b + m(i, N(i)) <= a + X
        <4> DEFINE y == l(i - 1)
                   z == m(i, N(i))
        <4>1. y \in Nat /\ z \in Nat /\ X \in Nat /\ y + z <= X
          BY <1>9, <2>2, <2>4, <3>3
        <4> HIDE DEF y, z
        <4>2. (a + y) + z <= a + X
          BY <1>1, <4>1
        <4>3. QED
          BY <4>2 DEF y, z
      <3>0. a <= P(i, k - 1)
        BY <1>1, <2>2, <3>2, SMTT(30)
      <3> HIDE DEF b
      <3>5. P(i, k) = P(i, k - 1) + e(i, k)
        BY <2>2, <3>2, <3>3
      <3>6. P(i, k) <= a + X
        <4> DEFINE y == m(i, k)
                   z == m(i, N(i))
        <4>1. /\ y \in Nat /\ z \in Nat /\ X \in Nat /\ y <= z /\ b \in Nat
              /\ b + z <= a + X /\ P(i, k) = b + y
          BY <1>9, <2>2, <3>2, <3>3, <3>4
        <4> HIDE DEF y, z
        <4>2. QED
          BY <1>1, <4>1
      <3>7. QED
        BY <3>0, <3>2, <3>3, <3>5, <3>6
    <2>9. QED
      BY <2>7, <2>8
  <1>14. QED
    BY <1>1, <1>4, <1>6, <1>9, <1>11, <1>12, <1>13 DEF Placed, L, x, P, N, E, e, X

-----------------------------------------------------------------------------
(* Reading a value.                                                          *)

\* What a value is to be read as, and whether it cannot be.
ItemMeant(mean, f, x) ==
  CASE f.kind = "message" -> mean[<<f.type, x>>]
    [] f.kind = "int32"   -> Signed(x, Int32Half)
    [] OTHER              -> x

Bad(bad, f, x) == \/ f.kind = "int64" /\ x \notin -MaxSafe .. MaxSafe
                  \/ f.kind = "message" /\ <<f.type, x>> \in bad

\* What was made of the words z at a: mean, unless unsafe.
Right(d, a, z, mean, unsafe) ==
  /\ d.ok \in BOOLEAN /\ (d.ok <=> ~unsafe)
  /\ d.ok => d.msg = mean /\ d.at = a + Len(z)

\* Wherever w has the words z of r, at most c of them, dec has made the right thing.
Reads(dec, w, c, r, z, mean, unsafe) ==
  \A a : At(w, a, z) /\ Len(z) <= c => Right(dec[<<r[1], a, a + Len(z)>>], a, z, mean, unsafe)

\* r has read a value as val, up to a place, unless it is unsafe.
Got(r, unsafe, val, at) ==
  /\ r.ok \in BOOLEAN /\ (r.ok <=> ~unsafe)
  /\ r.ok => r.val = val /\ r.at = at

\* A record that Read returns.
LEMMA GotRecord ==
  ASSUME NEW val, NEW at, NEW ok \in BOOLEAN, NEW unsafe, ok <=> ~unsafe
  PROVE  Got([val |-> val, at |-> at, ok |-> ok], unsafe, val, at)
  <1> DEFINE r == [val |-> val, at |-> at, ok |-> ok]
  <1>1. r.val = val /\ r.at = at /\ r.ok = ok
    OBVIOUS
  <1> HIDE DEF r
  <1>2. Got(r, unsafe, val, at)
    BY <1>1 DEF Got
  <1>3. QED
    BY <1>2 DEF r

IsNumber(f) == f.kind \in {"int64", "int32", "bool"}

\* A message within a message is read as dec has it.
LEMMA ReadMessage ==
  ASSUME NEW f, f.kind = "message", NEW x, NEW w, NEW o \in Nat, NEW dec, NEW z, Len(z) \in Nat,
         w[o + 1] = Len(z), At(w, o + 2, z), NEW c, Len(z) <= c, NEW mean, NEW unsafe,
         Reads(dec, w, c, <<f.type, x>>, z, mean, unsafe)
  PROVE  Got(Read(dec, w, f, o + 1), unsafe, mean, o + (2 + Len(z)))
  <1> DEFINE d == dec[<<f.type, o + 2, o + 2 + Len(z)>>]
  <1>1. Right(d, o + 2, z, mean, unsafe)
    <2>1. <<f.type, x>>[1] = f.type
      OBVIOUS
    <2>2. QED
      BY <2>1 DEF Reads
  <1>2. (o + 1) + 1 = o + 2 /\ (o + 1) + 1 + w[o + 1] = o + 2 + Len(z)
    OBVIOUS
  <1>3. dec[<<f.type, (o + 1) + 1, (o + 1) + 1 + w[o + 1]>>] = d
    BY <1>2
  <1>4. Read(dec, w, f, o + 1) = [val |-> d.msg, at |-> d.at, ok |-> d.ok]
    BY <1>3 DEF Read
  <1>5. o + 2 + Len(z) = o + (2 + Len(z))
    OBVIOUS
  <1> HIDE DEF d
  <1>6. QED
    BY <1>1, <1>4, <1>5 DEF Right, Got

\* A string is read as it was written, the empty one too.
LEMMA ReadText ==
  ASSUME NEW f, f.kind = "string", NEW g, g.kind = "string", NEW enc, NEW x \in Nat,
         NEW w \in Seq(Nat), NEW o \in Nat, NEW dec,
         w[o + 1] = Len(Content(enc, g, x)), At(w, o + 2, Content(enc, g, x))
  PROVE  Got(Read(dec, w, f, o + 1), FALSE, x, o + (2 + Len(Content(enc, g, x))))
  <1> DEFINE z == Content(enc, g, x)
  <1>0. z = IF x = 0 THEN <<>> ELSE <<x>>
    BY DEF Content
  <1>1. Read(dec, w, f, o + 1) =
          [val |-> IF w[o + 1] = 0 THEN 0 ELSE w[(o + 1) + 1],
           at |-> (o + 1) + 1 + w[o + 1], ok |-> TRUE]
    BY DEF Read
  <1>2. Len(z) \in {0, 1} /\ (Len(z) = 0 <=> x = 0)
    <2>1. CASE x = 0
      BY <1>0, <2>1
    <2>2. CASE x # 0
      BY <1>0, <2>2
    <2>3. QED
      BY <2>1, <2>2
  <1>3. (o + 1) + 1 = o + 2 /\ (o + 1) + 1 + w[o + 1] = o + (2 + Len(z))
    BY <1>2
  <1>4. x # 0 => w[o + 2] = x
    <2>1. At(w, o + 2, z)
      OBVIOUS
    <2> HIDE DEF z
    <2>2. QED
      BY <1>0, <2>1 DEF At
  <1>5. (IF w[o + 1] = 0 THEN 0 ELSE w[(o + 1) + 1]) = x
    BY <1>2, <1>3, <1>4
  <1> HIDE DEF z
  <1>6. Read(dec, w, f, o + 1) = [val |-> x, at |-> o + (2 + Len(z)), ok |-> TRUE]
    BY <1>1, <1>3, <1>5
  <1>7. QED
    BY <1>6, GotRecord DEF z

\* An int32 is read as its low bits, a bool as it was, and an int64 unless it is too large.
LEMMA ReadNumber ==
  ASSUME NEW f, IsNumber(f), NEW x, IsScalar(f, x),
         NEW w, NEW o \in Nat, NEW dec, w[o + 1] = Coded(f, x), NEW mean, NEW bad
  PROVE  Got(Read(dec, w, f, o + 1), Bad(bad, f, x), ItemMeant(mean, f, x), o + 2)
  <1> DEFINE r == Read(dec, w, f, o + 1)
             y == w[o + 1]
  <1>0. (o + 1) + 1 = o + 2
    OBVIOUS
  <1>1. /\ Int32Half \in Nat \ {0} /\ Int64Half \in Nat \ {0} /\ Int64Half % Int32Half = 0
        /\ MaxSafe \in Nat
    BY WireAssumption
  <1>2. CASE f.kind = "int64"
    <2>1. x \in -Int64Half .. Int64Half - 1 /\ x \in Int
      BY <1>1, <1>2 DEF IsScalar
    <2>2. Int64Half % Int64Half = 0
      BY <1>1
    <2>3. y = x % (2 * Int64Half)
      BY <1>2 DEF Coded
    <2>4. Signed(y, Int64Half) = Signed(x, Int64Half)
      BY <1>1, <2>1, <2>2, <2>3, SignedLow, Zenon
    <2>5. Signed(x, Int64Half) = x
      BY <1>1, <2>1, SignedSame
    <2> DEFINE safe == -MaxSafe <= x /\ x <= MaxSafe
    <2>6. r = [val |-> x, at |-> o + 2, ok |-> safe]
      BY <1>0, <1>2, <2>4, <2>5 DEF Read, longToNumber
    <2>7. Bad(bad, f, x) <=> ~safe
      BY <1>1, <1>2, <2>1 DEF Bad
    <2>8. ItemMeant(mean, f, x) = x /\ safe \in BOOLEAN
      BY <1>2 DEF ItemMeant
    <2>9. QED
      BY <2>6, <2>7, <2>8, GotRecord
  <1>3. CASE f.kind = "int32"
    <2>1. x \in Int
      BY <1>1, <1>3 DEF IsScalar
    <2>2. y = x % (2 * Int64Half)
      BY <1>3 DEF Coded
    <2>3. Signed(y, Int32Half) = Signed(x, Int32Half)
      BY <1>1, <2>1, <2>2, SignedLow, Zenon
    <2>4. r = [val |-> Signed(x, Int32Half), at |-> o + 2, ok |-> TRUE]
      BY <1>0, <1>3, <2>3 DEF Read
    <2>5. ItemMeant(mean, f, x) = Signed(x, Int32Half) /\ (TRUE <=> ~Bad(bad, f, x))
      BY <1>3 DEF ItemMeant, Bad
    <2>6. QED
      BY <2>4, <2>5, GotRecord
  <1>4. CASE f.kind = "bool"
    <2>1. x \in BOOLEAN /\ y = IF x THEN 1 ELSE 0
      BY <1>4 DEF IsScalar, Coded
    <2>2. (y # 0) = x
      BY <2>1
    <2>3. r = [val |-> x, at |-> o + 2, ok |-> TRUE]
      BY <1>0, <1>4, <2>2 DEF Read
    <2>4. ItemMeant(mean, f, x) = x /\ (TRUE <=> ~Bad(bad, f, x))
      BY <1>4 DEF ItemMeant, Bad
    <2>5. QED
      BY <2>3, <2>4, GotRecord
  <1>5. QED
    BY <1>2, <1>3, <1>4 DEF IsNumber

\* g and f are written alike.
Alike(g, f) == f.kind = g.kind /\ f.repeated = g.repeated /\ f.type = g.type

\* dec has made the right thing of x, if it is a message, in at most c words.
KidRead(f, x, enc, w, c, dec, mean, bad) ==
  f.kind = "message" =>
    /\ Len(enc[<<f.type, x>>]) <= c
    /\ Reads(dec, w, c, <<f.type, x>>, enc[<<f.type, x>>], mean[<<f.type, x>>],
             <<f.type, x>> \in bad)

\* A value of a known field is read as it was meant, to its end.
LEMMA ReadItem ==
  ASSUME NEW f, NEW g, IsField(f), IsField(g), Alike(g, f), f.kind # "double",
         NEW enc, NEW x, Writable(enc, g, x), NEW w \in Seq(Nat), NEW o,
         At(w, o, EncodeElement(enc, g, x)), NEW c, NEW dec, NEW mean, NEW bad,
         KidRead(f, x, enc, w, c, dec, mean, bad)
  PROVE  Got(Read(dec, w, f, o + 1), Bad(bad, f, x), ItemMeant(mean, f, x),
             o + Len(EncodeElement(enc, g, x)))
  <1> DEFINE y == EncodeElement(enc, g, x)
             z == Content(enc, g, x)
             r == Read(dec, w, f, o + 1)
  <1>1. /\ o \in Nat /\ Len(y) \in Nat
        /\ WireType(g) = 2 => /\ w[o + 1] = Len(z) /\ Len(z) \in Nat
                              /\ At(w, o + 2, z) /\ Len(y) = 2 + Len(z)
        /\ WireType(g) # 2 => w[o + 1] = Coded(g, x) /\ Len(y) = 2
    BY ElementAt
  <1>2. f.kind = g.kind /\ f.type = g.type
    BY DEF Alike
  <1>3. CASE f.kind = "message"
    <2>1. WireType(g) = 2 /\ z = enc[<<f.type, x>>]
      BY <1>2, <1>3 DEF WireType, Content
    <2> DEFINE m == mean[<<f.type, x>>]
               u == <<f.type, x>> \in bad
    <2>2. Len(z) <= c /\ Reads(dec, w, c, <<f.type, x>>, z, m, u)
      BY <1>3, <2>1 DEF KidRead
    <2>3. ItemMeant(mean, f, x) = m /\ (Bad(bad, f, x) <=> u)
      BY <1>3 DEF ItemMeant, Bad
    <2> HIDE DEF m, u, z, y
    <2>4. Len(z) \in Nat /\ w[o + 1] = Len(z) /\ At(w, o + 2, z) /\ o \in Nat
      BY <1>1, <2>1
    <2>5. Got(r, u, m, o + (2 + Len(z)))
      BY <1>3, <2>2, <2>4, ReadMessage, Zenon
    <2>6. Got(r, u, m, o + Len(y))
      BY <1>1, <2>1, <2>5
    <2> HIDE DEF r
    <2>7. QED
      BY <2>3, <2>6 DEF Got, r, y
  <1>4. CASE f.kind = "string"
    <2>1. WireType(g) = 2 /\ x \in Nat /\ g.kind = "string"
      BY <1>2, <1>4 DEF WireType, Writable, IsScalar
    <2>2. ItemMeant(mean, f, x) = x /\ ~Bad(bad, f, x)
      BY <1>4 DEF ItemMeant, Bad
    <2>3. w[o + 1] = Len(z) /\ At(w, o + 2, z) /\ o \in Nat
      BY <1>1, <2>1
    <2>4. Got(r, FALSE, x, o + (2 + Len(z)))
      BY <1>4, <2>1, <2>3, ReadText
    <2> HIDE DEF r, z, y
    <2>5. o + (2 + Len(z)) = o + Len(y)
      BY <1>1, <2>1
    <2>6. QED
      BY <2>2, <2>4, <2>5 DEF r, y, Got
  <1>5. CASE f.kind \notin {"message", "string"}
    <2>1. IsNumber(f)
      BY <1>5 DEF IsField, Kinds, IsNumber
    <2>2. WireType(g) # 2 /\ Coded(g, x) = Coded(f, x)
      BY <1>2, <1>5 DEF WireType, Coded
    <2>3. IsScalar(f, x)
      BY <1>2, <1>5 DEF Writable, IsScalar
    <2>4. w[o + 1] = Coded(f, x)
      BY <1>1, <2>2
    <2>5. o \in Nat /\ Len(y) = 2
      BY <1>1, <2>2
    <2>6. Got(r, Bad(bad, f, x), ItemMeant(mean, f, x), o + 2)
      BY <2>1, <2>3, <2>4, <2>5, ReadNumber, Zenon
    <2>7. QED
      BY <2>5, <2>6
  <1>6. QED
    BY <1>3, <1>4, <1>5

-----------------------------------------------------------------------------
(* A turn of the loop.                                                       *)

\* All has been read up to a place.
Fine(msg, at) == [msg |-> msg, at |-> at, ok |-> TRUE, on |-> TRUE]

\* What a turn makes of the state before a value.
Turned(s, unread, msg, at) ==
  /\ unread => s.ok = FALSE /\ s.on = FALSE
  /\ ~unread => s = Fine(msg, at)

\* What is not expected is skipped.
LEMMA TurnSkips ==
  ASSUME NEW T, IsType(T), NEW g, IsField(g), Written(T, g) = {},
         NEW enc, NEW x, Writable(enc, g, x), NEW w \in Seq(Nat), NEW o,
         At(w, o, EncodeElement(enc, g, x)), NEW dec, NEW end \in Nat, o < end, NEW msg
  PROVE  Turn(dec, w, T, end, Fine(msg, o)) = Fine(msg, o + Len(EncodeElement(enc, g, x)))
  <1> DEFINE y == EncodeElement(enc, g, x)
             z == Content(enc, g, x)
             s == Fine(msg, o)
  <1>1. /\ o \in Nat /\ w[o] = TagOf(g)
        /\ WireType(g) = 2 => /\ w[o + 1] = Len(z) /\ Len(z) \in Nat
                              /\ Len(y) = 2 + Len(z)
        /\ WireType(g) # 2 => Len(y) = 2
    BY ElementAt
  <1>2. /\ WireType(g) \in {0, 1, 2} /\ TagOf(g) # 0 /\ TagOf(g) % 8 = WireType(g)
    BY TagFacts
  <1>3. Expected(T, w[o]) = {}
    BY <1>1, WrittenOnce
  <1>4. s.on /\ s.at = o /\ ~(s.at >= end)
    BY <1>1 DEF Fine
  <1>5. ~(w[o] % 8 = 4 \/ w[o] = 0)
    BY <1>1, <1>2
  <1>6. Turn(dec, w, T, end, s) = [s EXCEPT !.at = SkipType(w[o] % 8, w, @ + 1)]
    BY <1>3, <1>4, <1>5 DEF Turn
  <1>7. SkipType(w[o] % 8, w, o + 1) = o + Len(y)
    <2>1. w[o] % 8 = WireType(g)
      BY <1>1, <1>2
    <2> HIDE DEF y, z
    <2>2. CASE WireType(g) = 2
      <3>1. SkipType(2, w, o + 1) = (o + 1) + 1 + w[o + 1]
        BY DEF SkipType
      <3> DEFINE n == Len(z)
                 l == Len(y)
      <3>2. o \in Nat /\ n \in Nat /\ w[o + 1] = n /\ l = 2 + n
        BY <1>1, <2>2
      <3> HIDE DEF n, l
      <3>3. (o + 1) + 1 + w[o + 1] = o + l
        BY <3>2
      <3>4. QED
        BY <2>1, <2>2, <3>1, <3>3 DEF l
    <2>3. CASE WireType(g) # 2
      <3>1. SkipType(WireType(g), w, o + 1) = (o + 1) + 1
        BY <2>3 DEF SkipType
      <3>2. (o + 1) + 1 = o + 2 /\ Len(y) = 2
        BY <1>1, <2>3
      <3>3. QED
        BY <2>1, <3>1, <3>2
    <2>4. QED
      BY <2>2, <2>3
  <1>8. QED
    BY <1>6, <1>7 DEF Fine

\* What is expected is read, unless it is unsafe.
LEMMA TurnReads ==
  ASSUME NEW T, IsType(T), NEW g, IsField(g), NEW j \in Written(T, g),
         Alike(g, T[j]), T[j].kind # "double",
         NEW enc, NEW x, Writable(enc, g, x), NEW w \in Seq(Nat), NEW o,
         At(w, o, EncodeElement(enc, g, x)), NEW c, NEW dec, NEW mean, NEW bad,
         KidRead(T[j], x, enc, w, c, dec, mean, bad),
         NEW end \in Nat, o < end, NEW msg
  PROVE  Turned(Turn(dec, w, T, end, Fine(msg, o)), Bad(bad, T[j], x),
                Put(msg, T[j], ItemMeant(mean, T[j], x)), o + Len(EncodeElement(enc, g, x)))
  <1> DEFINE f == T[j]
             r == Read(dec, w, f, o + 1)
             s == Fine(msg, o)
             l == Len(EncodeElement(enc, g, x))
  <1>1. IsField(f) /\ j \in 1 .. Len(T)
    BY WrittenOnce DEF IsType
  <1>2. o \in Nat /\ w[o] = TagOf(g)
    BY ElementAt
  <1>3. Expected(T, w[o]) # {} /\ T[CHOOSE i \in Expected(T, w[o]) : TRUE] = f
    <2>1. Expected(T, w[o]) = Written(T, g)
      BY <1>2, WrittenOnce
    <2>2. (CHOOSE i \in Written(T, g) : TRUE) = j
      BY WrittenOnce
    <2>3. QED
      BY <2>1, <2>2
  <1>4. Got(r, Bad(bad, f, x), ItemMeant(mean, f, x), o + l)
    <2> HIDE DEF f
    <2>1. /\ IsField(f) /\ Alike(g, f) /\ f.kind # "double"
          /\ KidRead(f, x, enc, w, c, dec, mean, bad)
      BY <1>1 DEF f
    <2>2. QED
      BY <2>1, ReadItem
  <1>5. s.on /\ s.at = o /\ s.msg = msg /\ ~(s.at >= end)
    BY <1>2 DEF Fine
  <1>6. Turn(dec, w, T, end, s) =
          [msg |-> IF r.ok THEN Put(msg, f, r.val) ELSE msg, at |-> r.at, ok |-> r.ok, on |-> r.ok]
    BY <1>3, <1>5 DEF Turn
  <1> DEFINE s2 == Turn(dec, w, T, end, s)
             u == Bad(bad, f, x)
             m == ItemMeant(mean, f, x)
  <1> HIDE DEF f, r, s, l, s2, u, m
  <1>7. s2 = [msg |-> IF r.ok THEN Put(msg, f, r.val) ELSE msg,
              at |-> r.at, ok |-> r.ok, on |-> r.ok]
    BY <1>6 DEF s2
  <1>8. Got(r, u, m, o + l)
    BY <1>4 DEF u, m
  <1>9. u => s2.ok = FALSE /\ s2.on = FALSE
    BY <1>7, <1>8 DEF Got
  <1>10. ~u => s2 = Fine(Put(msg, f, m), o + l)
    <2>1. SUFFICES ASSUME ~u PROVE s2 = Fine(Put(msg, f, m), o + l)
      OBVIOUS
    <2>2. r.ok = TRUE /\ r.val = m /\ r.at = o + l
      BY <1>8, <2>1 DEF Got
    <2>3. s2 = [msg |-> Put(msg, f, m), at |-> o + l, ok |-> TRUE, on |-> TRUE]
      BY <1>7, <2>2
    <2>4. QED
      BY <2>3 DEF Fine
  <1>11. QED
    BY <1>9, <1>10 DEF Turned, f, s, l, s2, u, m

-----------------------------------------------------------------------------
(* What a message is like when a part of it has been read.                   *)

\* What a writer and a reader know of a type goes together.
Both(S, T) ==
  /\ IsType(S) /\ IsType(T)
  /\ \A i \in 1 .. Len(S), j \in 1 .. Len(T) : TagOf(S[i]) = TagOf(T[j]) => Alike(S[i], T[j])
  /\ \A j \in 1 .. Len(T) : T[j].kind # "double"

\* The table of a writer that agrees with the reader's fits it in every type both know.
LEMMA BothKnown ==
  ASSUME NEW V, IsTable(V), Agrees(V), NEW type \in DOMAIN V, type \in DOMAIN Types
  PROVE  Both(V[type], Types[type])
  <1> DEFINE S == V[type]
             T == Types[type]
  <1>1. IsTable(Types) /\ \A f \in Range(T) : f.kind # "double"
    BY WireAssumption
  <1>2. IsType(S) /\ IsType(T)
    BY <1>1, TypeOf
  <1>3. /\ \A i \in 1 .. Len(S) : S[i] \in Range(S)
        /\ \A i \in 1 .. Len(T) : T[i] \in Range(T)
    BY <1>2 DEF IsType, Range
  <1>4. \A g \in Range(S), f \in Range(T) : TagOf(g) = TagOf(f) => Alike(g, f)
    BY DEF Agrees, Alike
  <1> HIDE DEF S, T
  <1>5. Both(S, T)
    BY <1>1, <1>2, <1>3, <1>4 DEF Both
  <1>6. QED
    BY <1>5 DEF S, T

\* A field of the one that is written as a field of the other.
LEMMA BothFields ==
  ASSUME NEW S, NEW T, Both(S, T), NEW i \in 1 .. Len(S), NEW j \in 1 .. Len(T),
         i \in Written(S, T[j]) \/ j \in Written(T, S[i])
  PROVE  /\ i \in Written(S, T[j]) /\ j \in Written(T, S[i])
         /\ (CHOOSE n \in Written(S, T[j]) : TRUE) = i
         /\ Alike(S[i], T[j]) /\ IsField(S[i]) /\ IsField(T[j]) /\ T[j].kind # "double"
         /\ FieldNamed(T, T[j].name) = T[j] /\ T[j].name \in Names(T)
  <1>1. /\ IsType(S) /\ IsType(T) /\ IsField(S[i]) /\ IsField(T[j]) /\ T[j].kind # "double"
        /\ DOMAIN S = 1 .. Len(S) /\ DOMAIN T = 1 .. Len(T)
    BY DEF Both, IsType
  <1>2. TagOf(S[i]) = TagOf(T[j])
    BY DEF Written
  <1>3. i \in Written(S, T[j]) /\ j \in Written(T, S[i])
    BY <1>1, <1>2 DEF Written
  <1>4. Alike(S[i], T[j])
    BY <1>2 DEF Both
  <1>5. (CHOOSE n \in Written(S, T[j]) : TRUE) = i
    BY <1>1, <1>3, WrittenOnce
  <1>6. FieldNamed(T, T[j].name) = T[j] /\ T[j].name \in Names(T)
    BY <1>1, Named
  <1>7. QED
    BY <1>1, <1>3, <1>4, <1>5, <1>6

\* What a field has when the first k of its values have been read.
Partial(mean, f, v, k) ==
  IF f.kind = "message" \/ f.repeated THEN [n \in 1 .. k |-> ItemMeant(mean, f, v[n])]
  ELSE IF k = 0 THEN Unset(f) ELSE ItemMeant(mean, f, v)

\* Of no values a field has its default ...
LEMMA PartialNone ==
  ASSUME NEW mean, NEW f, IsField(f), NEW v
  PROVE  Partial(mean, f, v, 0) = Unset(f)
  <1>1. CASE f.kind = "message" \/ f.repeated
    <2>1. f.kind # "bool" /\ Unset(f) = <<>>
      BY <1>1 DEF Unset, IsField
    <2>2. [n \in 1 .. 0 |-> ItemMeant(mean, f, v[n])] = <<>>
      OBVIOUS
    <2>3. QED
      BY <1>1, <2>1, <2>2 DEF Partial
  <1>2. CASE ~(f.kind = "message" \/ f.repeated)
    BY <1>2 DEF Partial
  <1>3. QED
    BY <1>1, <1>2

\* ... and of all of them what was meant.
LEMMA PartialAll ==
  ASSUME NEW mean, NEW f, NEW g, IsField(f), Alike(g, f), f.kind # "double",
         NEW v, NEW s, AreItems(g, v, s)
  PROVE  Partial(mean, f, v, Len(s)) = ValueMeant(mean, f, v)
  <1>1. f.kind = g.kind /\ f.repeated = g.repeated
    BY DEF Alike
  <1>2. CASE f.kind = "message"
    <2>1. s = v /\ DOMAIN v = 1 .. Len(v)
      BY <1>1, <1>2 DEF AreItems
    <2>2. \A n : ItemMeant(mean, f, v[n]) = mean[<<f.type, v[n]>>]
      BY <1>2 DEF ItemMeant
    <2>3. Partial(mean, f, v, Len(s)) = [n \in 1 .. Len(v) |-> mean[<<f.type, v[n]>>]]
      BY <1>2, <2>1, <2>2 DEF Partial
    <2>4. ValueMeant(mean, f, v) = [n \in DOMAIN v |-> mean[<<f.type, v[n]>>]]
      BY <1>2 DEF ValueMeant
    <2>5. QED
      BY <2>1, <2>3, <2>4
  <1>3. CASE f.kind # "message" /\ f.repeated
    <2>1. s = v /\ v = [n \in 1 .. Len(v) |-> v[n]]
      BY <1>1, <1>3 DEF AreItems
    <2>2. f.kind = "string"
      BY <1>3 DEF IsField
    <2>3. \A n : ItemMeant(mean, f, v[n]) = v[n]
      BY <2>2 DEF ItemMeant
    <2>4. Partial(mean, f, v, Len(s)) = [n \in 1 .. Len(v) |-> v[n]]
      BY <1>3, <2>1, <2>3 DEF Partial
    <2>5. ValueMeant(mean, f, v) = v
      BY <2>2 DEF ValueMeant
    <2>6. QED
      BY <2>1, <2>4, <2>5
  <1>4. CASE f.kind # "message" /\ ~f.repeated
    <2>1. s = IF v = Unset(g) THEN <<>> ELSE <<v>>
      BY <1>1, <1>4 DEF AreItems
    <2>2. Unset(f) = Unset(g)
      BY <1>1 DEF Unset
    <2>3. ItemMeant(mean, f, v) = ValueMeant(mean, f, v)
      BY <1>4 DEF ItemMeant, ValueMeant
    <2>4. CASE v = Unset(g)
      <3>1. Partial(mean, f, v, Len(s)) = Unset(f)
        BY <1>4, <2>1, <2>4 DEF Partial
      <3>2. f.kind = "int32" => Unset(f) = 0 /\ Signed(0, Int32Half) = 0
        <4>1. SUFFICES ASSUME f.kind = "int32" PROVE Unset(f) = 0 /\ Signed(0, Int32Half) = 0
          OBVIOUS
        <4>2. Unset(f) = 0
          BY <1>4, <4>1 DEF Unset
        <4>3. Int32Half \in Nat \ {0} /\ 0 \in -Int32Half .. Int32Half - 1
          BY WireAssumption
        <4>4. QED
          BY <4>2, <4>3, SignedSame
      <3>3. ValueMeant(mean, f, v) = v
        BY <1>4, <2>2, <2>4, <3>2 DEF ValueMeant
      <3>4. QED
        BY <2>2, <2>4, <3>1, <3>3
    <2>5. CASE v # Unset(g)
      <3>1. Len(s) = 1
        BY <2>1, <2>5
      <3>2. QED
        BY <1>4, <2>3, <3>1 DEF Partial
    <2>6. QED
      BY <2>4, <2>5
  <1>5. QED
    BY <1>2, <1>3, <1>4

\* What Put makes of what a field has.
Grown(f, old, x) == IF f.repeated THEN Append(old, x)
                    ELSE IF f.kind = "message" THEN <<x>> ELSE x

\* What Put makes of a value that is read next.
LEMMA PartialNext ==
  ASSUME NEW mean, NEW f, NEW g, IsField(f), Alike(g, f),
         NEW v, NEW s, AreItems(g, v, s), NEW k \in 1 .. Len(s)
  PROVE  Grown(f, Partial(mean, f, v, k - 1), ItemMeant(mean, f, s[k])) = Partial(mean, f, v, k)
  <1>1. f.kind = g.kind /\ f.repeated = g.repeated /\ Len(s) \in Nat /\ k \in Nat \ {0}
    BY DEF Alike, AreItems
  <1>2. CASE f.repeated
    <2> DEFINE P(n) == [m \in 1 .. n |-> ItemMeant(mean, f, v[m])]
    <2>1. s = v
      BY <1>1, <1>2 DEF AreItems
    <2>2. Partial(mean, f, v, k - 1) = P(k - 1) /\ Partial(mean, f, v, k) = P(k)
      BY <1>2 DEF Partial
    <2>3. Append(P(k - 1), ItemMeant(mean, f, v[k])) = P(k)
      <3> DEFINE I(m) == ItemMeant(mean, f, v[m])
      <3>1. Append([m \in 1 .. (k - 1) |-> I(m)], I(k)) = [m \in 1 .. k |-> I(m)]
        <4> HIDE DEF I
        <4> DEFINE a == [m \in 1 .. (k - 1) |-> I(m)]
        <4>1. Len(a) = k - 1
          BY <1>1
        <4>2. Append(a, I(k)) = [m \in 1 .. (Len(a) + 1) |-> IF m = Len(a) + 1 THEN I(k) ELSE a[m]]
          BY <1>1
        <4>3. QED
          BY <1>1, <4>1, <4>2
      <3>2. QED
        BY <3>1
    <2>4. QED
      BY <1>2, <2>1, <2>2, <2>3 DEF Grown
  <1>3. CASE ~f.repeated /\ f.kind = "message"
    <2>1. s = v /\ Len(s) <= 1
      BY <1>1, <1>3 DEF AreItems
    <2>2. k = 1
      BY <1>1, <2>1
    <2>3. [n \in 1 .. 1 |-> ItemMeant(mean, f, v[n])] = <<ItemMeant(mean, f, v[1])>>
      OBVIOUS
    <2>4. QED
      BY <1>3, <2>1, <2>2, <2>3 DEF Partial, Grown
  <1>4. CASE ~f.repeated /\ f.kind # "message"
    <2>1. s = (IF v = Unset(g) THEN <<>> ELSE <<v>>)
      BY <1>1, <1>4 DEF AreItems
    <2>2. k = 1 /\ s[k] = v
      <3>1. CASE v = Unset(g)
        BY <1>1, <2>1, <3>1
      <3>2. CASE v # Unset(g)
        BY <1>1, <2>1, <3>2
      <3>3. QED
        BY <3>1, <3>2
    <2>3. QED
      BY <1>4, <2>2 DEF Partial, Grown
  <1>5. QED
    BY <1>2, <1>3, <1>4

\* What field f of a message has, and the message, when the first k values of the
\* i-th field of q have been read, and all before.
Portion(mean, V, q, i, k, f) ==
  LET S == V[q[1]]
      n == CHOOSE m \in Written(S, f) : TRUE
  IN  IF Written(S, f) = {} THEN Unset(f)
      ELSE IF n < i THEN ValueMeant(mean, f, q[2][S[n].name])
      ELSE IF n = i THEN Partial(mean, f, q[2][S[n].name], k)
      ELSE Unset(f)

Partly(mean, V, q, i, k) ==
  [name \in Names(Types[q[1]]) |-> Portion(mean, V, q, i, k, FieldNamed(Types[q[1]], name))]

\* V and Types go together for q.
Fits(V, q) == IsTable(V) /\ Whole(V, q) /\ Both(V[q[1]], Types[q[1]])

\* Messages of which every field has the same are the same.
LEMMA PartlySame ==
  ASSUME NEW V, NEW q, Fits(V, q), NEW mean, NEW i, NEW k, NEW i2, NEW k2,
         \A j \in 1 .. Len(Types[q[1]]) :
           Portion(mean, V, q, i, k, Types[q[1]][j]) = Portion(mean, V, q, i2, k2, Types[q[1]][j])
  PROVE  Partly(mean, V, q, i, k) = Partly(mean, V, q, i2, k2)
  <1> DEFINE T == Types[q[1]]
  <1>1. IsType(T)
    BY DEF Fits, Both
  <1>2. ASSUME NEW name \in Names(T)
        PROVE  Portion(mean, V, q, i, k, FieldNamed(T, name)) =
                 Portion(mean, V, q, i2, k2, FieldNamed(T, name))
    <2>1. PICK j \in 1 .. Len(T) : FieldNamed(T, name) = T[j]
      BY <1>1, NameOf
    <2>2. QED
      BY <2>1
  <1>3. QED
    BY <1>2 DEF Partly

\* Where the field is that f is written as.
LEMMA WrittenAt ==
  ASSUME NEW V, NEW q, Fits(V, q), NEW j \in 1 .. Len(Types[q[1]]),
         Written(V[q[1]], Types[q[1]][j]) # {}
  PROVE  \E n \in 1 .. Len(V[q[1]]) :
           /\ n = (CHOOSE m \in Written(V[q[1]], Types[q[1]][j]) : TRUE)
           /\ n \in Written(V[q[1]], Types[q[1]][j])
           /\ j \in Written(Types[q[1]], V[q[1]][n])
           /\ Alike(V[q[1]][n], Types[q[1]][j])
  <1> DEFINE S == V[q[1]]
             T == Types[q[1]]
  <1>1. Both(S, T) /\ IsType(S) /\ IsField(T[j])
    BY DEF Fits, Both, IsType
  <1>2. PICK n : n \in Written(S, T[j])
    OBVIOUS
  <1>3. n \in 1 .. Len(S)
    BY <1>1, <1>2, WrittenOnce
  <1> HIDE DEF S, T
  <1>4. j \in 1 .. Len(T)
    BY DEF T
  <1>5. /\ (CHOOSE m \in Written(S, T[j]) : TRUE) = n
        /\ j \in Written(T, S[n]) /\ Alike(S[n], T[j])
    BY <1>1, <1>2, <1>3, <1>4, BothFields
  <1>6. QED
    BY <1>2, <1>3, <1>5 DEF S, T

\* Before the first field is read a message has its defaults.
LEMMA PartlyStart ==
  ASSUME NEW V, NEW q, Fits(V, q), NEW mean
  PROVE  Partly(mean, V, q, 1, 0) = createBase(Types[q[1]])
  <1> DEFINE T == Types[q[1]]
  <1>1. IsType(T)
    BY DEF Fits, Both
  <1>2. ASSUME NEW j \in 1 .. Len(T)
        PROVE  Portion(mean, V, q, 1, 0, T[j]) = Unset(T[j])
    <2>1. CASE Written(V[q[1]], T[j]) = {}
      BY <2>1 DEF Portion
    <2>2. CASE Written(V[q[1]], T[j]) # {}
      <3>1. PICK n \in 1 .. Len(V[q[1]]) : n = (CHOOSE m \in Written(V[q[1]], T[j]) : TRUE)
        BY <2>2, WrittenAt, SMTT(30)
      <3>2. ~(n < 1)
        OBVIOUS
      <3>3. \A v : Partial(mean, T[j], v, 0) = Unset(T[j])
        BY <1>1, PartialNone DEF IsType
      <3> HIDE DEF T
      <3>4. QED
        BY <2>2, <3>1, <3>2, <3>3 DEF Portion
    <2>3. QED
      BY <2>1, <2>2
  <1>3. ASSUME NEW name \in Names(T)
        PROVE  Portion(mean, V, q, 1, 0, FieldNamed(T, name)) = Unset(FieldNamed(T, name))
    <2>1. PICK j \in 1 .. Len(T) : FieldNamed(T, name) = T[j]
      BY <1>1, NameOf
    <2>2. QED
      BY <1>2, <2>1
  <1>4. QED
    BY <1>3 DEF Partly, createBase

\* When the last value of a field has been read, the next field has its turn.
LEMMA PartlyOver ==
  ASSUME NEW V, NEW q, Fits(V, q), NEW mean, NEW i \in 1 .. Len(V[q[1]])
  PROVE  Partly(mean, V, q, i, Len(Items(V, q, i))) = Partly(mean, V, q, i + 1, 0)
  <1> DEFINE S == V[q[1]]
             T == Types[q[1]]
             N == Len(Items(V, q, i))
  <1>1. ASSUME NEW j \in 1 .. Len(T)
        PROVE  Portion(mean, V, q, i, N, T[j]) = Portion(mean, V, q, i + 1, 0, T[j])
    <2>1. CASE Written(S, T[j]) = {}
      BY <2>1 DEF Portion
    <2>2. CASE Written(S, T[j]) # {}
      <3>1. PICK n \in 1 .. Len(S) : /\ n = (CHOOSE m \in Written(S, T[j]) : TRUE)
                                     /\ Alike(S[n], T[j])
        BY <2>2, WrittenAt
      <3> DEFINE v == q[2][S[n].name]
      <3>2. IsField(T[j]) /\ T[j].kind # "double"
        BY DEF Fits, Both, IsType
      <3>3. Partial(mean, T[j], v, 0) = Unset(T[j])
        BY <3>2, PartialNone
      <3>4. n = i => Partial(mean, T[j], v, N) = ValueMeant(mean, T[j], v)
        <4>1. SUFFICES ASSUME n = i PROVE Partial(mean, T[j], v, N) = ValueMeant(mean, T[j], v)
          OBVIOUS
        <4>2. AreItems(S[i], q[2][S[i].name], Items(V, q, i))
          BY ItemFacts DEF Fits
        <4>3. AreItems(S[n], v, Items(V, q, i))
          BY <4>1, <4>2
        <4> HIDE DEF S, T, v
        <4>4. QED
          BY <3>1, <3>2, <4>3, PartialAll
      <3>5. /\ n < i => n < i + 1 /\ n # i
            /\ n = i => n < i + 1 /\ ~(n < i)
            /\ n > i => ~(n < i) /\ n # i /\ ~(n < i + 1)
        <4>1. Len(S) \in Nat
          BY DEF Fits, Both, IsType
        <4>2. QED
          BY <4>1
      <3>6. /\ Portion(mean, V, q, i, N, T[j]) =
                 IF n < i THEN ValueMeant(mean, T[j], v)
                 ELSE IF n = i THEN Partial(mean, T[j], v, N) ELSE Unset(T[j])
            /\ Portion(mean, V, q, i + 1, 0, T[j]) =
                 IF n < i + 1 THEN ValueMeant(mean, T[j], v)
                 ELSE IF n = i + 1 THEN Partial(mean, T[j], v, 0) ELSE Unset(T[j])
        BY <2>2, <3>1 DEF Portion
      <3>7. n < i \/ n = i \/ n > i
        <4>1. Len(S) \in Nat
          BY DEF Fits, Both, IsType
        <4>2. QED
          BY <4>1
      <3> HIDE DEF S, T, v, N
      <3>8. QED
        BY <3>3, <3>4, <3>5, <3>6, <3>7
    <2>3. QED
      BY <2>1, <2>2
  <1>2. QED
    BY <1>1, PartlySame

\* When all fields have been read, the message is as it was meant.
LEMMA PartlyEnd ==
  ASSUME NEW V, NEW q, Fits(V, q), NEW mean
  PROVE  Partly(mean, V, q, Len(V[q[1]]) + 1, 0) = Meant(mean, V, q)
  <1> DEFINE S == V[q[1]]
             T == Types[q[1]]
             M(f) == IF Written(S, f) = {} THEN Unset(f)
                     ELSE LET g == S[CHOOSE i \in Written(S, f) : TRUE]
                          IN  ValueMeant(mean, f, q[2][g.name])
  <1>1. IsType(T) /\ Len(S) \in Nat
    BY DEF Fits, Both, IsType
  <1>2. ASSUME NEW j \in 1 .. Len(T)
        PROVE  Portion(mean, V, q, Len(S) + 1, 0, T[j]) = M(T[j])
    <2>1. CASE Written(S, T[j]) = {}
      BY <2>1 DEF Portion
    <2>2. CASE Written(S, T[j]) # {}
      <3>1. PICK n \in 1 .. Len(S) : n = (CHOOSE m \in Written(S, T[j]) : TRUE)
        BY <2>2, WrittenAt, SMTT(30)
      <3>2. n < Len(S) + 1
        BY <1>1
      <3>3. QED
        BY <2>2, <3>1, <3>2 DEF Portion
    <2>3. QED
      BY <2>1, <2>2
  <1>3. ASSUME NEW name \in Names(T)
        PROVE  Portion(mean, V, q, Len(S) + 1, 0, FieldNamed(T, name)) = M(FieldNamed(T, name))
    <2>1. PICK j \in 1 .. Len(T) : FieldNamed(T, name) = T[j]
      BY <1>1, NameOf
    <2> HIDE DEF M
    <2>2. QED
      BY <1>2, <2>1
  <1>4. QED
    BY <1>3 DEF Partly, Meant

\* What is skipped leaves the message as it is.
LEMMA PartlySkip ==
  ASSUME NEW V, NEW q, Fits(V, q), NEW mean, NEW i \in 1 .. Len(V[q[1]]), NEW k, NEW k2,
         Written(Types[q[1]], V[q[1]][i]) = {}
  PROVE  Partly(mean, V, q, i, k2) = Partly(mean, V, q, i, k)
  <1> DEFINE S == V[q[1]]
             T == Types[q[1]]
  <1>1. ASSUME NEW j \in 1 .. Len(T)
        PROVE  Portion(mean, V, q, i, k2, T[j]) = Portion(mean, V, q, i, k, T[j])
    <2>1. CASE Written(S, T[j]) = {}
      BY <2>1 DEF Portion
    <2>2. CASE Written(S, T[j]) # {}
      <3>1. PICK n \in 1 .. Len(S) : /\ n = (CHOOSE m \in Written(S, T[j]) : TRUE)
                                     /\ j \in Written(T, S[n])
        BY <2>2, WrittenAt
      <3>2. n # i
        BY <3>1
      <3>3. QED
        BY <2>2, <3>1, <3>2 DEF Portion
    <2>3. QED
      BY <2>1, <2>2
  <1>2. QED
    BY <1>1, PartlySame

\* What is read is put in its place.
LEMMA PartlyPut ==
  ASSUME NEW V, NEW q, Fits(V, q), NEW mean, NEW i \in 1 .. Len(V[q[1]]),
         NEW k \in 1 .. Len(Items(V, q, i)), NEW j \in Written(Types[q[1]], V[q[1]][i])
  PROVE  Put(Partly(mean, V, q, i, k - 1), Types[q[1]][j],
             ItemMeant(mean, Types[q[1]][j], Items(V, q, i)[k])) = Partly(mean, V, q, i, k)
  <1> DEFINE S == V[q[1]]
             T == Types[q[1]]
             f == T[j]
             g == S[i]
             v == q[2][g.name]
             s == Items(V, q, i)
             P(n) == Partly(mean, V, q, i, n)
             Q(n) == Portion(mean, V, q, i, n, f)
             x == ItemMeant(mean, f, s[k])
             y == Grown(f, Q(k - 1), x)
  <1>1. Both(S, T) /\ IsType(T) /\ IsType(S) /\ IsField(g)
    BY DEF Fits, Both, IsType
  <1>2. j \in 1 .. Len(T)
    BY <1>1, WrittenOnce
  <1>3. /\ i \in Written(S, f) /\ (CHOOSE n \in Written(S, f) : TRUE) = i
        /\ Alike(g, f) /\ IsField(f)
        /\ FieldNamed(T, f.name) = f /\ f.name \in Names(T)
    <2>1. /\ i \in Written(S, T[j]) /\ (CHOOSE n \in Written(S, T[j]) : TRUE) = i
          /\ Alike(S[i], T[j]) /\ IsField(T[j])
          /\ FieldNamed(T, T[j].name) = T[j] /\ T[j].name \in Names(T)
      <3> HIDE DEF S, T
      <3>1. i \in 1 .. Len(S) /\ j \in Written(T, S[i])
        BY DEF S, T
      <3>2. QED
        BY <1>1, <1>2, <3>1, BothFields
    <2>2. QED
      BY <2>1
  <1>4. \A n : Q(n) = Partial(mean, f, v, n)
    <2>1. ~(i < i)
      OBVIOUS
    <2>2. QED
      BY <1>3, <2>1 DEF Portion
  <1>5. AreItems(g, v, s)
    BY ItemFacts DEF Fits
  <1>6. y = Q(k)
    <2> HIDE DEF S, T, f, g, v, s, Q
    <2>1. k \in 1 .. Len(s)
      BY DEF s
    <2>2. QED
      BY <1>3, <1>4, <1>5, <2>1, PartialNext
  <1>7. ASSUME NEW name \in Names(T), name # f.name
        PROVE  Portion(mean, V, q, i, k, FieldNamed(T, name)) =
                 Portion(mean, V, q, i, k - 1, FieldNamed(T, name))
    <2>1. PICK m \in 1 .. Len(T) : T[m].name = name /\ FieldNamed(T, name) = T[m]
      BY <1>1, NameOf
    <2>2. m # j
      BY <1>7, <2>1
    <2>3. CASE Written(S, T[m]) = {}
      BY <2>1, <2>3 DEF Portion
    <2>4. CASE Written(S, T[m]) # {}
      <3>1. PICK n \in 1 .. Len(S) : /\ n = (CHOOSE z \in Written(S, T[m]) : TRUE)
                                     /\ m \in Written(T, S[n])
        BY <2>4, WrittenAt, ZenonT(60)
      <3>2. n # i
        <4>1. SUFFICES ASSUME n = i PROVE m = j
          BY <2>2
        <4>2. m \in Written(T, S[i])
          BY <3>1, <4>1
        <4>3. \A z \in Written(T, S[i]) : (CHOOSE z2 \in Written(T, S[i]) : TRUE) = z
          BY <1>1, WrittenOnce
        <4>4. QED
          BY <4>2, <4>3
      <3>3. QED
        BY <2>1, <2>4, <3>1, <3>2, SMTT(30) DEF Portion
    <2>5. QED
      BY <2>3, <2>4
  <1> DEFINE G(n) == [name \in Names(T) |-> Portion(mean, V, q, i, n, FieldNamed(T, name))]
  <1>8. P(k - 1) = G(k - 1) /\ P(k) = G(k)
    BY DEF Partly
  <1>9. G(k - 1)[f.name] = Q(k - 1)
    BY <1>3
  <1>10. Put(G(k - 1), f, x) = [G(k - 1) EXCEPT ![f.name] = y]
    BY <1>9 DEF Put, Grown
  <1>11. [G(k - 1) EXCEPT ![f.name] = y] = G(k)
    <2> DEFINE R(n, name) == Portion(mean, V, q, i, n, FieldNamed(T, name))
               D == Names(T)
    <2>1. /\ \A name \in D : name # f.name => R(k, name) = R(k - 1, name)
          /\ f.name \in D /\ R(k, f.name) = y
      BY <1>3, <1>6, <1>7
    <2> HIDE DEF R, D, y
    <2>2. [[name \in D |-> R(k - 1, name)] EXCEPT ![f.name] = y] = [name \in D |-> R(k, name)]
      BY <2>1
    <2>3. QED
      BY <2>2 DEF R, D
  <1>12. QED
    BY <1>8, <1>10, <1>11

\* The k-th value of the i-th field of q cannot be read.
BadAt(bad, V, q, i, k) ==
  \E j \in Written(Types[q[1]], V[q[1]][i]) : Bad(bad, Types[q[1]][j], Items(V, q, i)[k])

\* A message is unsafe when some value in it cannot be read.
LEMMA UnsafeAt ==
  ASSUME NEW V, NEW q, Fits(V, q), q[1] \in DOMAIN Types, NEW bad
  PROVE  HasUnsafe(bad, V, q) <=>
           \E i \in 1 .. Len(V[q[1]]) : \E k \in 1 .. Len(Items(V, q, i)) : BadAt(bad, V, q, i, k)
  <1> DEFINE S == V[q[1]]
             T == Types[q[1]]
             U(f, v) == \/ f.kind = "int64" /\ v \notin -MaxSafe .. MaxSafe
                        \/ f.kind = "message" /\ \E k \in DOMAIN v : <<f.type, v[k]>> \in bad
  <1>1. Both(S, T) /\ IsType(T) /\ IsType(S) /\ MaxSafe \in Nat
    BY WireAssumption DEF Fits, Both
  <1>2. HasUnsafe(bad, V, q) <=>
          \E j \in 1 .. Len(T) : \E i \in Written(S, T[j]) : U(T[j], q[2][S[i].name])
    <2>1. Range(T) = {T[j] : j \in 1 .. Len(T)}
      BY <1>1 DEF IsType, Range
    <2>2. HasUnsafe(bad, V, q) <=>
            \E f \in Range(T) : \E i \in Written(S, f) : U(f, q[2][S[i].name])
      BY DEF HasUnsafe
    <2> HIDE DEF U, S, T
    <2>3. QED
      BY <2>1, <2>2
  <1>3. ASSUME NEW j \in 1 .. Len(T), NEW i \in 1 .. Len(S), Alike(S[i], T[j])
        PROVE  U(T[j], q[2][S[i].name]) <=>
                 \E k \in 1 .. Len(Items(V, q, i)) : Bad(bad, T[j], Items(V, q, i)[k])
    <2> DEFINE f == T[j]
               g == S[i]
               v == q[2][g.name]
               s == Items(V, q, i)
    <2>1. AreItems(g, v, s) /\ IsField(f) /\ Alike(g, f)
      BY <1>1, <1>3, ItemFacts DEF Fits, IsType
    <2> HIDE DEF f, g, v, s
    <2>2. f.kind = g.kind /\ f.repeated = g.repeated
      BY <2>1 DEF Alike
    <2>3. CASE f.kind = "message"
      <3>1. s = v /\ DOMAIN v = 1 .. Len(s)
        BY <2>1, <2>2, <2>3 DEF AreItems
      <3>2. \A k : Bad(bad, f, s[k]) <=> <<f.type, v[k]>> \in bad
        BY <2>3, <3>1 DEF Bad
      <3>3. U(f, v) <=> \E k \in DOMAIN v : <<f.type, v[k]>> \in bad
        BY <2>3
      <3>4. U(f, v) <=> \E k \in 1 .. Len(s) : Bad(bad, f, s[k])
        <4> HIDE DEF U
        <4>1. QED
          BY <3>1, <3>2, <3>3
      <3>5. QED
        BY <3>4 DEF f, g, v, s
    <2>4. CASE f.kind = "int64"
      <3>1. /\ s = (IF v = Unset(g) THEN <<>> ELSE <<v>>)
            /\ Unset(g) = 0
        BY <2>1, <2>2, <2>4 DEF AreItems, IsField, Unset
      <3>2. \A z : Bad(bad, f, z) <=> z \notin -MaxSafe .. MaxSafe
        BY <2>4 DEF Bad
      <3>3. U(f, v) <=> v \notin -MaxSafe .. MaxSafe
        BY <2>4
      <3>4. 0 \in -MaxSafe .. MaxSafe
        BY <1>1
      <3> DEFINE safe == -MaxSafe .. MaxSafe
      <3>5. U(f, v) <=> \E k \in 1 .. Len(s) : Bad(bad, f, s[k])
        <4> HIDE DEF U, safe
        <4>1. CASE v = 0
          <5>1. s = <<>>
            BY <3>1, <4>1
          <5>2. Len(s) = 0
            BY <5>1
          <5>3. v \in safe
            BY <3>4, <4>1 DEF safe
          <5>4. ~U(f, v)
            BY <3>3, <5>3 DEF safe
          <5>5. QED
            BY <5>2, <5>4
        <4>2. CASE v # 0
          <5>1. s = <<v>>
            BY <3>1, <4>2
          <5>2. Len(s) = 1 /\ s[1] = v
            BY <5>1
          <5>3. Bad(bad, f, s[1]) <=> U(f, v)
            BY <3>2, <3>3, <5>2
          <5>4. QED
            BY <5>2, <5>3
        <4>3. QED
          BY <4>1, <4>2
      <3>6. QED
        BY <3>5 DEF f, g, v, s
    <2>5. CASE f.kind # "message" /\ f.kind # "int64"
      BY <2>5 DEF Bad, f, g, v, s
    <2>6. QED
      BY <2>3, <2>4, <2>5
  <1>4. ASSUME HasUnsafe(bad, V, q)
        PROVE  \E i \in 1 .. Len(S) : \E k \in 1 .. Len(Items(V, q, i)) : BadAt(bad, V, q, i, k)
    <2>0. PICK j \in 1 .. Len(T) : \E i \in Written(S, T[j]) : U(T[j], q[2][S[i].name])
      BY <1>2, <1>4
    <2>1. PICK i \in Written(S, T[j]) : U(T[j], q[2][S[i].name])
      BY <2>0
    <2>2. i \in 1 .. Len(S)
      BY <1>1, WrittenOnce DEF IsType
    <2>3. j \in Written(T, S[i]) /\ Alike(S[i], T[j])
      <3> HIDE DEF S, T, U
      <3>1. QED
        BY <1>1, <2>1, <2>2, BothFields
    <2>4. PICK k \in 1 .. Len(Items(V, q, i)) : Bad(bad, T[j], Items(V, q, i)[k])
      BY <1>3, <2>1, <2>2, <2>3
    <2>5. QED
      BY <2>2, <2>3, <2>4 DEF BadAt
  <1>5. ASSUME NEW i \in 1 .. Len(S), NEW k \in 1 .. Len(Items(V, q, i)), BadAt(bad, V, q, i, k)
        PROVE  HasUnsafe(bad, V, q)
    <2>1. PICK j \in Written(T, S[i]) : Bad(bad, T[j], Items(V, q, i)[k])
      BY <1>5 DEF BadAt
    <2>2. j \in 1 .. Len(T)
      BY <1>1, WrittenOnce DEF IsType
    <2>3. i \in Written(S, T[j]) /\ Alike(S[i], T[j])
      <3> HIDE DEF S, T, U
      <3>1. i \in 1 .. Len(S)
        BY DEF S
      <3>2. QED
        BY <1>1, <2>1, <2>2, <3>1, BothFields
    <2>4. U(T[j], q[2][S[i].name])
      BY <1>3, <2>1, <2>2, <2>3
    <2> HIDE DEF U
    <2>5. QED
      BY <1>2, <2>2, <2>3, <2>4
  <1>6. QED
    BY <1>4, <1>5

-----------------------------------------------------------------------------
(* Reading a message: its values, one turn of the loop of decode for each.    *)

\* At a, w has the words of q, and dec reads the messages q holds, of c words at
\* most, a word less than q may have.
Scene(V, q, enc, w, a, c, dec, mean, bad) ==
  /\ Fits(V, q) /\ q[1] \in DOMAIN Types /\ Inner(enc, V, q) /\ w \in Seq(Nat)
  /\ At(w, a, EncodeMessage(V, enc, q)) /\ c \in Int /\ Len(EncodeMessage(V, enc, q)) <= c + 1
  /\ \A i \in 1 .. Len(V[q[1]]) : \A k \in 1 .. Len(Items(V, q, i)) :
     \A j \in Written(Types[q[1]], V[q[1]][i]) :
       LET f == Types[q[1]][j]
           r == <<f.type, Items(V, q, i)[k]>>
       IN  f.kind = "message" => Reads(dec, w, c, r, enc[r], mean[r], r \in bad)

\* A message within q has two words less than q.
LEMMA KidFits ==
  ASSUME NEW V, NEW q, NEW enc, NEW w, NEW a, NEW c, NEW dec, NEW mean, NEW bad,
         Scene(V, q, enc, w, a, c, dec, mean, bad),
         NEW i \in 1 .. Len(V[q[1]]), NEW k \in 1 .. Len(Items(V, q, i)),
         NEW j \in Written(Types[q[1]], V[q[1]][i])
  PROVE  /\ KidRead(Types[q[1]][j], Items(V, q, i)[k], enc, w, c, dec, mean, bad)
         /\ Alike(V[q[1]][i], Types[q[1]][j])
         /\ Types[q[1]][j].kind # "double"
  <1> DEFINE S == V[q[1]]
             T == Types[q[1]]
             f == T[j]
             g == S[i]
             x == Items(V, q, i)[k]
             r == <<f.type, x>>
             z == EncodeMessage(V, enc, q)
             e == EncodeElement(enc, g, x)
             o == Place(enc, V, q, a, i, k - 1)
             p == Place(enc, V, q, a, i, k)
  <1>1. Both(S, T) /\ IsTable(V) /\ Whole(V, q) /\ IsType(S) /\ IsType(T) /\ IsField(g)
    BY DEF Scene, Fits, Both, IsType
  <1>2. j \in 1 .. Len(T)
    BY <1>1, WrittenOnce
  <1>3. Alike(g, f) /\ f.kind # "double"
    <2> HIDE DEF S, T
    <2>1. TagOf(S[i]) = TagOf(T[j])
      BY DEF Written, S, T
    <2>2. i \in 1 .. Len(S)
      BY DEF S
    <2>3. QED
      BY <1>1, <1>2, <2>1, <2>2 DEF Both
  <1>4. f.kind = "message" => Reads(dec, w, c, r, enc[r], mean[r], r \in bad)
    BY DEF Scene
  <1>5. ASSUME f.kind = "message"
        PROVE  Len(enc[r]) <= c
    <2>0. Placed(V, q, enc, w, a)
      BY <1>1, Places DEF Scene
    <2>1. /\ Len(z) \in Nat /\ At(w, o, e) /\ p = o + Len(e) /\ p <= a + Len(z) /\ a \in Nat
          /\ a <= o
      BY <2>0 DEF Placed
    <2>2. g.kind = "message" /\ g.type = f.type
      BY <1>3, <1>5 DEF Alike
    <2>3. Writable(enc, g, x)
      BY <1>1, ItemWritable DEF Scene
    <2>4. Content(enc, g, x) = enc[r] /\ WireType(g) = 2
      BY <2>2 DEF Content, WireType
    <2>5. Len(enc[r]) \in Nat /\ Len(e) = 2 + Len(enc[r])
      <3> HIDE DEF g, x, r, o, e
      <3>1. At(w, o, EncodeElement(enc, g, x)) /\ w \in Seq(Nat)
        BY <2>1 DEF Scene, e
      <3>2. QED
        BY <1>1, <2>3, <2>4, <3>1, ElementAt DEF e
    <2>7. c \in Int /\ Len(z) <= c + 1
      BY DEF Scene
    <2> DEFINE l == Len(enc[r])
               m == Len(z)
               n == Len(e)
    <2>8. l \in Nat /\ m \in Nat /\ n = 2 + l /\ p = o + n /\ p <= a + m /\ a \in Nat
          /\ a <= o /\ o \in Nat /\ c \in Int /\ m <= c + 1
      BY <2>1, <2>5, <2>7 DEF At
    <2> HIDE DEF l, m, n, o, p
    <2>9. l <= c
      BY <2>8
    <2>10. QED
      BY <2>9 DEF l
  <1>6. QED
    BY <1>3, <1>4, <1>5 DEF KidRead

\* A turn before a value of q reads it, or skips it.
LEMMA OneTurn ==
  ASSUME NEW V, NEW q, NEW enc, NEW w, NEW a, NEW c, NEW dec, NEW mean, NEW bad,
         Scene(V, q, enc, w, a, c, dec, mean, bad),
         NEW i \in 1 .. Len(V[q[1]]), NEW k \in 1 .. Len(Items(V, q, i))
  PROVE  Turned(Turn(dec, w, Types[q[1]], a + Len(EncodeMessage(V, enc, q)),
                     Fine(Partly(mean, V, q, i, k - 1), Place(enc, V, q, a, i, k - 1))),
                BadAt(bad, V, q, i, k), Partly(mean, V, q, i, k), Place(enc, V, q, a, i, k))
  <1> DEFINE S == V[q[1]]
             T == Types[q[1]]
             g == S[i]
             x == Items(V, q, i)[k]
             z == EncodeMessage(V, enc, q)
             e == EncodeElement(enc, g, x)
             o == Place(enc, V, q, a, i, k - 1)
             p == Place(enc, V, q, a, i, k)
             end == a + Len(z)
             P(n) == Partly(mean, V, q, i, n)
             b == BadAt(bad, V, q, i, k)
  <1>1. /\ Both(S, T) /\ IsTable(V) /\ Whole(V, q) /\ IsType(S) /\ IsType(T) /\ IsField(g)
        /\ w \in Seq(Nat) /\ Inner(enc, V, q) /\ Fits(V, q)
    BY DEF Scene, Fits, Both, IsType
  <1>2. Placed(V, q, enc, w, a)
    BY <1>1, Places DEF Scene
  <1>3. Writable(enc, g, x)
    BY <1>1, ItemWritable
  <1>4. /\ At(w, o, e) /\ p = o + Len(e) /\ end \in Nat /\ p <= end
    BY <1>2 DEF Placed
  <1>5. o < end
    <2> HIDE DEF g, x, o, e
    <2>1. At(w, o, EncodeElement(enc, g, x))
      BY <1>4 DEF e
    <2>2. o \in Nat /\ Len(e) \in Nat /\ Len(e) >= 2
      BY <1>1, <1>3, <2>1, ElementAt DEF e
    <2> HIDE DEF end, p
    <2>3. QED
      BY <1>4, <2>2
  <1>6. CASE Written(T, g) = {}
    <2>1. P(k) = P(k - 1)
      BY <1>1, <1>6, PartlySkip
    <2>2. ~b
      BY <1>6 DEF BadAt
    <2>3. Turn(dec, w, T, end, Fine(P(k - 1), o)) = Fine(P(k - 1), p)
      <3> DEFINE m == P(k - 1)
      <3> HIDE DEF T, g, x, o, e, end, p, P, m
      <3>1. At(w, o, EncodeElement(enc, g, x)) /\ end \in Nat
        BY <1>4 DEF e
      <3>2. Turn(dec, w, T, end, Fine(m, o)) = Fine(m, o + Len(e))
        BY <1>1, <1>3, <1>5, <1>6, <3>1, TurnSkips DEF e
      <3>3. QED
        BY <1>4, <3>2 DEF m
    <2> HIDE DEF b, P
    <2>4. QED
      BY <2>1, <2>2, <2>3 DEF Turned, b, P
  <1>7. CASE Written(T, g) # {}
    <2>1. PICK j : j \in Written(T, g)
      BY <1>7
    <2> DEFINE f == T[j]
               u == Bad(bad, f, x)
    <2>2. b <=> u
      <3>1. \A n \in Written(T, g) : n = j
        <4> HIDE DEF T, g
        <4>1. \A n \in Written(T, g) : (CHOOSE m \in Written(T, g) : TRUE) = n
          BY <1>1, WrittenOnce
        <4>2. QED
          BY <2>1, <4>1
      <3>2. QED
        BY <2>1, <3>1 DEF BadAt
    <2>3. /\ KidRead(f, x, enc, w, c, dec, mean, bad) /\ Alike(g, f) /\ f.kind # "double"
      BY <2>1, KidFits
    <2>4. Put(P(k - 1), f, ItemMeant(mean, f, x)) = P(k)
      BY <1>1, <2>1, PartlyPut
    <2>5. Turned(Turn(dec, w, T, end, Fine(P(k - 1), o)), u, P(k), p)
      <3> DEFINE m == P(k - 1)
      <3> HIDE DEF T, g, x, o, e, end, p, P, m
      <3>1. At(w, o, EncodeElement(enc, g, x)) /\ end \in Nat
        BY <1>4 DEF e
      <3>2. Turned(Turn(dec, w, T, end, Fine(m, o)), Bad(bad, T[j], x),
                   Put(m, T[j], ItemMeant(mean, T[j], x)), o + Len(EncodeElement(enc, g, x)))
        BY <1>1, <1>3, <1>5, <2>1, <2>3, <3>1, TurnReads
      <3>3. QED
        BY <1>4, <2>4, <3>2 DEF m, e
    <2> HIDE DEF b, P, u
    <2>6. QED
      BY <2>2, <2>5 DEF Turned, b, P
  <1>8. QED
    BY <1>6, <1>7

\* A value takes two words at least.
LEMMA Apart ==
  ASSUME NEW V, NEW q, NEW enc, NEW w, NEW a, NEW c, NEW dec, NEW mean, NEW bad,
         Scene(V, q, enc, w, a, c, dec, mean, bad),
         NEW i \in 1 .. Len(V[q[1]]), NEW k \in 1 .. Len(Items(V, q, i))
  PROVE  /\ Place(enc, V, q, a, i, k - 1) \in Nat /\ Place(enc, V, q, a, i, k) \in Nat
         /\ Place(enc, V, q, a, i, k - 1) + 2 <= Place(enc, V, q, a, i, k)
         /\ Place(enc, V, q, a, i, k) <= Len(w) + 1
         /\ a \in Nat \ {0} /\ Len(w) \in Nat
  <1> DEFINE g == V[q[1]][i]
             x == Items(V, q, i)[k]
             z == EncodeMessage(V, enc, q)
             e == EncodeElement(enc, g, x)
             o == Place(enc, V, q, a, i, k - 1)
             p == Place(enc, V, q, a, i, k)
  <1>1. /\ IsTable(V) /\ Whole(V, q) /\ IsField(g) /\ w \in Seq(Nat) /\ Inner(enc, V, q)
    BY DEF Scene, Fits, Both, IsType
  <1>2. Placed(V, q, enc, w, a)
    BY <1>1, Places DEF Scene
  <1>3. Writable(enc, g, x)
    BY <1>1, ItemWritable
  <1>4. /\ At(w, o, e) /\ p = o + Len(e) /\ p <= a + Len(z) /\ a + Len(z) <= Len(w) + 1
        /\ a \in Nat \ {0} /\ Len(z) \in Nat
    BY <1>2 DEF Placed
  <1> HIDE DEF g, x, o, e, p
  <1>5. At(w, o, EncodeElement(enc, g, x))
    BY <1>4 DEF e
  <1>6. o \in Nat /\ Len(e) \in Nat /\ Len(e) >= 2
    BY <1>1, <1>3, <1>5, ElementAt DEF e
  <1> DEFINE n == Len(e)
             l == Len(z)
             m == Len(w)
  <1>7. o \in Nat /\ n \in Nat /\ n >= 2 /\ l \in Nat /\ m \in Nat /\ p = o + n
        /\ p <= a + l /\ a + l <= m + 1 /\ a \in Nat \ {0}
    BY <1>1, <1>4, <1>6
  <1> HIDE DEF n, l, m
  <1>8. p \in Nat /\ o + 2 <= p /\ p <= m + 1
    BY <1>7
  <1>9. QED
    BY <1>7, <1>8 DEF o, p, m

\* The states of the loop for q.
Turns(V, q, enc, w, a, dec) == Loop(dec, w, <<q[1], a, a + Len(EncodeMessage(V, enc, q))>>)

\* Up to the k-th value of the i-th field all can be read.
NoneBad(bad, V, q, i, k) ==
  \A n \in 1 .. Len(V[q[1]]) : \A m \in 1 .. Len(Items(V, q, n)) :
    BadAt(bad, V, q, n, m) => n > i \/ (n = i /\ m > k)

\* The state in which the loop has read the first k values of the i-th field of q.
Upto(s, V, q, enc, a, mean, bad, i, k) ==
  \/ /\ s = Fine(Partly(mean, V, q, i, k), Place(enc, V, q, a, i, k))
     /\ NoneBad(bad, V, q, i, k)
  \/ s.ok = FALSE /\ s.on = FALSE /\ HasUnsafe(bad, V, q)

\* The loop comes to read so much, in a turn a word at most.
Reached(V, q, enc, w, a, dec, mean, bad, i, k) ==
  \E t \in 0 .. Len(w) :
    /\ a + t <= Place(enc, V, q, a, i, k)
    /\ Upto(Turns(V, q, enc, w, a, dec)[t], V, q, enc, a, mean, bad, i, k)

\* The loop begins with the defaults and goes on turn by turn.
Looped(V, q, enc, w, a, dec) ==
  /\ Turns(V, q, enc, w, a, dec)[0] = Fine(createBase(Types[q[1]]), a)
  /\ \A n \in 1 .. Len(w) :
       Turns(V, q, enc, w, a, dec)[n] =
         Turn(dec, w, Types[q[1]], a + Len(EncodeMessage(V, enc, q)),
              Turns(V, q, enc, w, a, dec)[n - 1])

\* The turns of the loop, as its recursive definition has them.
LEMMA TurnsRec ==
  ASSUME NEW V, NEW q, NEW enc, NEW w, w \in Seq(Nat), NEW a, NEW dec
  PROVE  Looped(V, q, enc, w, a, dec)
  <1> DEFINE l == a + Len(EncodeMessage(V, enc, q))
             x == <<q[1], a, l>>
  <1>1. x[1] = q[1] /\ x[2] = a /\ x[3] = l
    OBVIOUS
  <1>2. Len(w) \in Nat
    OBVIOUS
  <1>3. Turns(V, q, enc, w, a, dec) = Loop(dec, w, x)
    BY DEF Turns
  <1> HIDE DEF l, x
  <1>4. /\ Loop(dec, w, x)[0] =
             [msg |-> createBase(Types[x[1]]), at |-> x[2], ok |-> TRUE, on |-> TRUE]
        /\ \A n \in 1 .. Len(w) :
             Loop(dec, w, x)[n] = Turn(dec, w, Types[x[1]], x[3], Loop(dec, w, x)[n - 1])
    BY <1>2, LoopRec
  <1>5. QED
    BY <1>1, <1>3, <1>4 DEF Looped, Fine, l

\* The loop begins before the first field ...
LEMMA ReachedStart ==
  ASSUME NEW V, NEW q, NEW enc, NEW w, NEW a, NEW c, NEW dec, NEW mean, NEW bad,
         Scene(V, q, enc, w, a, c, dec, mean, bad)
  PROVE  Reached(V, q, enc, w, a, dec, mean, bad, 1, 0)
  <1> DEFINE s == Turns(V, q, enc, w, a, dec)[0]
             o == Place(enc, V, q, a, 1, 0)
  <1>1. IsTable(V) /\ Whole(V, q) /\ Fits(V, q) /\ w \in Seq(Nat)
    BY DEF Scene, Fits
  <1>2. o = a /\ a \in Nat
    BY <1>1, Places DEF Scene, Placed
  <1>3. s = Fine(createBase(Types[q[1]]), a)
    <2>1. Looped(V, q, enc, w, a, dec)
      BY <1>1, TurnsRec
    <2>2. QED
      BY <2>1 DEF Looped
  <1>4. s = Fine(Partly(mean, V, q, 1, 0), o)
    BY <1>1, <1>2, <1>3, PartlyStart
  <1>5. NoneBad(bad, V, q, 1, 0)
    <2>1. SUFFICES ASSUME NEW n \in 1 .. Len(V[q[1]]), NEW m \in 1 .. Len(Items(V, q, n))
                   PROVE  n > 1 \/ (n = 1 /\ m > 0)
      BY DEF NoneBad
    <2>2. Len(V[q[1]]) \in Nat /\ Len(Items(V, q, n)) \in Nat
      BY <1>1, TypeOf, ItemFacts DEF Whole, IsType
    <2>3. QED
      BY <2>2
  <1>6. 0 \in 0 .. Len(w) /\ a + 0 <= o
    BY <1>1, <1>2
  <1>7. Upto(s, V, q, enc, a, mean, bad, 1, 0)
    BY <1>4, <1>5 DEF Upto
  <1>8. QED
    BY <1>6, <1>7 DEF Reached

\* ... goes from the end of a field to the next one ...
LEMMA ReachedOver ==
  ASSUME NEW V, NEW q, NEW enc, NEW w, NEW a, NEW c, NEW dec, NEW mean, NEW bad,
         Scene(V, q, enc, w, a, c, dec, mean, bad), NEW i \in 1 .. Len(V[q[1]]),
         Reached(V, q, enc, w, a, dec, mean, bad, i, Len(Items(V, q, i)))
  PROVE  Reached(V, q, enc, w, a, dec, mean, bad, i + 1, 0)
  <1> DEFINE L == Len(Items(V, q, i))
  <1>1. /\ IsTable(V) /\ Whole(V, q) /\ Fits(V, q) /\ w \in Seq(Nat) /\ L \in Nat
        /\ Len(V[q[1]]) \in Nat
    BY ItemFacts, TypeOf DEF Scene, Fits, Both, IsType
  <1>2. Place(enc, V, q, a, i, L) = Place(enc, V, q, a, i + 1, 0)
    BY <1>1, Places DEF Scene, Placed
  <1>3. Partly(mean, V, q, i, L) = Partly(mean, V, q, i + 1, 0)
    BY <1>1, PartlyOver
  <1>4. NoneBad(bad, V, q, i, L) => NoneBad(bad, V, q, i + 1, 0)
    <2>1. SUFFICES ASSUME NoneBad(bad, V, q, i, L),
                          NEW n \in 1 .. Len(V[q[1]]), NEW m \in 1 .. Len(Items(V, q, n)),
                          BadAt(bad, V, q, n, m)
                   PROVE  n > i + 1 \/ (n = i + 1 /\ m > 0)
      BY DEF NoneBad
    <2>2. n > i \/ (n = i /\ m > L)
      BY <2>1 DEF NoneBad
    <2>3. ~(n = i /\ m > L)
      BY <1>1
    <2>4. m > 0
      BY <1>1, ItemFacts
    <2>5. QED
      BY <1>1, <2>2, <2>3, <2>4
  <1> HIDE DEF L
  <1>5. PICK t \in 0 .. Len(w) :
          /\ a + t <= Place(enc, V, q, a, i, L)
          /\ Upto(Turns(V, q, enc, w, a, dec)[t], V, q, enc, a, mean, bad, i, L)
    BY DEF Reached, L
  <1>6. Upto(Turns(V, q, enc, w, a, dec)[t], V, q, enc, a, mean, bad, i + 1, 0)
    BY <1>2, <1>3, <1>4, <1>5 DEF Upto
  <1>7. QED
    BY <1>2, <1>5, <1>6 DEF Reached

\* ... reads each value of a field in a turn of its own ...
LEMMA ReachedNext ==
  ASSUME NEW V, NEW q, NEW enc, NEW w, NEW a, NEW c, NEW dec, NEW mean, NEW bad,
         Scene(V, q, enc, w, a, c, dec, mean, bad),
         NEW i \in 1 .. Len(V[q[1]]), NEW k \in 1 .. Len(Items(V, q, i)),
         Reached(V, q, enc, w, a, dec, mean, bad, i, k - 1)
  PROVE  Reached(V, q, enc, w, a, dec, mean, bad, i, k)
  <1> DEFINE u == Turns(V, q, enc, w, a, dec)
             o == Place(enc, V, q, a, i, k - 1)
             p == Place(enc, V, q, a, i, k)
             end == a + Len(EncodeMessage(V, enc, q))
             P(n) == Partly(mean, V, q, i, n)
             N == Len(w)
  <1>1. /\ IsTable(V) /\ Whole(V, q) /\ Fits(V, q) /\ w \in Seq(Nat)
        /\ q[1] \in DOMAIN Types
    BY DEF Scene, Fits
  <1>2. Len(V[q[1]]) \in Nat /\ \A n \in 1 .. Len(V[q[1]]) : Len(Items(V, q, n)) \in Nat
    BY <1>1, TypeOf, ItemFacts DEF Whole, IsType
  <1>3. /\ o \in Nat /\ p \in Nat /\ o + 2 <= p /\ p <= N + 1 /\ a \in Nat \ {0} /\ N \in Nat
    BY Apart
  <1>4. PICK t \in 0 .. N : a + t <= o /\ Upto(u[t], V, q, enc, a, mean, bad, i, k - 1)
    BY DEF Reached
  <1>5. t + 1 \in 0 .. N /\ t + 1 \in 1 .. N /\ (t + 1) - 1 = t /\ a + (t + 1) <= p
    <2> HIDE DEF o, p, N
    <2>1. QED
      BY <1>3, <1>4
  <1>6. u[t + 1] = Turn(dec, w, Types[q[1]], end, u[t])
    <2>1. \A n \in 1 .. Len(w) : u[n] = Turn(dec, w, Types[q[1]], end, u[n - 1])
      BY <1>1, TurnsRec DEF Looped
    <2> HIDE DEF u, end
    <2>2. QED
      BY <1>5, <2>1
  <1>7. Upto(u[t + 1], V, q, enc, a, mean, bad, i, k)
    <2>1. CASE u[t].ok = FALSE /\ u[t].on = FALSE /\ HasUnsafe(bad, V, q)
      <3>1. u[t + 1] = u[t]
        BY <1>6, <2>1 DEF Turn
      <3>2. QED
        BY <2>1, <3>1 DEF Upto
    <2>2. CASE u[t] = Fine(P(k - 1), o) /\ NoneBad(bad, V, q, i, k - 1)
      <3>1. Turned(u[t + 1], BadAt(bad, V, q, i, k), P(k), p)
        <4>1. Turned(Turn(dec, w, Types[q[1]], end, Fine(P(k - 1), o)),
                     BadAt(bad, V, q, i, k), P(k), p)
          BY OneTurn
        <4>2. QED
          BY <1>6, <2>2, <4>1
      <3>2. CASE BadAt(bad, V, q, i, k)
        <4>1. HasUnsafe(bad, V, q)
          BY <1>1, <3>2, UnsafeAt
        <4>2. QED
          BY <3>1, <3>2, <4>1 DEF Turned, Upto
      <3>3. CASE ~BadAt(bad, V, q, i, k)
        <4>1. NoneBad(bad, V, q, i, k)
          <5>1. SUFFICES ASSUME NEW n \in 1 .. Len(V[q[1]]), NEW m \in 1 .. Len(Items(V, q, n)),
                                BadAt(bad, V, q, n, m)
                         PROVE  n > i \/ (n = i /\ m > k)
            BY DEF NoneBad
          <5>2. n > i \/ (n = i /\ m > k - 1)
            BY <2>2, <5>1 DEF NoneBad
          <5>3. ~(n = i /\ m = k)
            BY <3>3, <5>1
          <5>4. k \in Nat /\ m \in Nat
            BY <1>2
          <5>5. QED
            BY <5>2, <5>3, <5>4
        <4>2. u[t + 1] = Fine(P(k), p)
          BY <3>1, <3>3 DEF Turned
        <4>3. QED
          BY <4>1, <4>2 DEF Upto
      <3>4. QED
        BY <3>2, <3>3
    <2>3. QED
      BY <1>4, <2>1, <2>2 DEF Upto
  <1> HIDE DEF p, u
  <1>8. QED
    BY <1>5, <1>7 DEF Reached, p, u

\* The loop has ended at t, and what it leaves.
Over(V, q, enc, w, a, dec, t) ==
  LET s == Turns(V, q, enc, w, a, dec)[t]
  IN  s.on = FALSE \/ s.at >= a + Len(EncodeMessage(V, enc, q))

Leaves(V, q, enc, w, a, dec, t) ==
  Turns(V, q, enc, w, a, dec)[Len(w)] = Turns(V, q, enc, w, a, dec)[t]

\* A loop that has ended does nothing more.
LEMMA Stays ==
  ASSUME NEW V, NEW q, NEW enc, NEW w, w \in Seq(Nat), NEW a, NEW dec, NEW t \in 0 .. Len(w),
         Over(V, q, enc, w, a, dec, t)
  PROVE  Leaves(V, q, enc, w, a, dec, t)
  <1> DEFINE s == Turns(V, q, enc, w, a, dec)[t]
             u == Turns(V, q, enc, w, a, dec)
             end == a + Len(EncodeMessage(V, enc, q))
             N == Len(w)
             S == {n \in Nat : t + n <= N => u[t + n] = s}
  <1>1. Looped(V, q, enc, w, a, dec)
    BY TurnsRec
  <1>2. \A n \in 1 .. N : u[n] = Turn(dec, w, Types[q[1]], end, u[n - 1])
    BY <1>1 DEF Looped
  <1>3. N \in Nat /\ t \in Nat /\ t <= N
    OBVIOUS
  <1>4. Turn(dec, w, Types[q[1]], end, s) = s
    BY DEF Over, Turn
  <1>5. u[t] = s
    OBVIOUS
  <1> HIDE DEF s, u, end, N
  <1>6. 0 \in S
    BY <1>3, <1>5
  <1>7. ASSUME NEW n \in Nat, n \in S PROVE n + 1 \in S
    <2>1. SUFFICES ASSUME t + (n + 1) <= N PROVE u[t + (n + 1)] = s
      OBVIOUS
    <2>2. u[t + n] = s
      BY <1>3, <1>7, <2>1
    <2>3. t + (n + 1) \in 1 .. N /\ (t + (n + 1)) - 1 = t + n
      BY <1>3, <2>1
    <2>4. QED
      BY <1>2, <1>4, <2>2, <2>3
  <1> HIDE DEF S
  <1>8. \A n \in Nat : n \in S
    BY <1>6, <1>7, NatInd
  <1>9. N - t \in Nat /\ t + (N - t) = N
    BY <1>3
  <1>10. u[N] = s
    <2>1. N - t \in S
      BY <1>8, <1>9
    <2>2. t + (N - t) <= N
      BY <1>3, <1>9
    <2>3. u[t + (N - t)] = s
      BY <2>1, <2>2 DEF S
    <2>4. QED
      BY <1>9, <2>3
  <1>11. QED
    BY <1>10 DEF Leaves, N, u, s

\* ... and so comes to the end of the message, or to what it cannot read.
LEMMA ReachedEnd ==
  ASSUME NEW V, NEW q, NEW enc, NEW w, NEW a, NEW c, NEW dec, NEW mean, NEW bad,
         Scene(V, q, enc, w, a, c, dec, mean, bad)
  PROVE  Reached(V, q, enc, w, a, dec, mean, bad, Len(V[q[1]]) + 1, 0)
  <1> DEFINE L == Len(V[q[1]])
             N(i) == Len(Items(V, q, i))
             R(i, k) == Reached(V, q, enc, w, a, dec, mean, bad, i, k)
             S == {n \in Nat : n <= L => R(n + 1, 0)}
  <1>1. L \in Nat /\ \A i \in 1 .. L : N(i) \in Nat
    BY TypeOf, ItemFacts DEF Scene, Fits, Whole, IsType
  <1>2. /\ R(1, 0)
        /\ \A i \in 1 .. L : R(i, N(i)) => R(i + 1, 0)
        /\ \A i \in 1 .. L : \A k \in 1 .. N(i) : R(i, k - 1) => R(i, k)
    BY ReachedStart, ReachedOver, ReachedNext
  <1> HIDE DEF L, N, R
  <1>3. ASSUME NEW i \in 1 .. L, R(i, 0) PROVE R(i, N(i))
    <2> DEFINE K == {k \in Nat : k <= N(i) => R(i, k)}
    <2>1. 0 \in K
      BY <1>3
    <2>2. ASSUME NEW k \in Nat, k \in K PROVE k + 1 \in K
      <3>1. SUFFICES ASSUME k + 1 <= N(i) PROVE R(i, k + 1)
        OBVIOUS
      <3>2. k + 1 \in 1 .. N(i) /\ (k + 1) - 1 = k /\ k <= N(i)
        BY <1>1, <3>1
      <3>3. R(i, k)
        BY <2>2, <3>2
      <3>4. QED
        BY <1>2, <3>2, <3>3
    <2> HIDE DEF K
    <2>3. \A k \in Nat : k \in K
      BY <2>1, <2>2, NatInd
    <2>4. N(i) \in K
      BY <1>1, <2>3
    <2>5. QED
      BY <1>1, <2>4 DEF K
  <1>4. 0 \in S
    BY <1>2
  <1>5. ASSUME NEW n \in Nat, n \in S PROVE n + 1 \in S
    <2>1. SUFFICES ASSUME n + 1 <= L PROVE R((n + 1) + 1, 0)
      OBVIOUS
    <2>2. n + 1 \in 1 .. L /\ n <= L
      BY <1>1, <2>1
    <2>3. R(n + 1, 0)
      BY <1>5, <2>2
    <2>4. QED
      BY <1>2, <1>3, <2>2, <2>3
  <1> HIDE DEF S
  <1>6. \A n \in Nat : n \in S
    BY <1>4, <1>5, NatInd
  <1>7. L \in S
    BY <1>1, <1>6
  <1>8. QED
    BY <1>1, <1>7 DEF S, R, L

\* What the loop of decode makes of the words of a message.
LEMMA OneMessage ==
  ASSUME NEW V, NEW q, NEW enc, NEW w, NEW a, NEW c, NEW dec, NEW mean, NEW bad,
         Scene(V, q, enc, w, a, c, dec, mean, bad)
  PROVE  Right(Turns(V, q, enc, w, a, dec)[Len(w)], a, EncodeMessage(V, enc, q),
               Meant(mean, V, q), HasUnsafe(bad, V, q))
  <1> DEFINE u == Turns(V, q, enc, w, a, dec)
             z == EncodeMessage(V, enc, q)
             L == Len(V[q[1]])
             end == a + Len(z)
             d == u[Len(w)]
  <1>1. /\ IsTable(V) /\ Whole(V, q) /\ Fits(V, q) /\ w \in Seq(Nat) /\ q[1] \in DOMAIN Types
        /\ L \in Nat
    BY TypeOf DEF Scene, Fits, Whole, IsType
  <1>2. Place(enc, V, q, a, L + 1, 0) = end /\ end \in Nat
    BY <1>1, Places DEF Scene, Placed
  <1>3. Partly(mean, V, q, L + 1, 0) = Meant(mean, V, q)
    BY <1>1, PartlyEnd
  <1>4. PICK t \in 0 .. Len(w) : Upto(u[t], V, q, enc, a, mean, bad, L + 1, 0)
    BY ReachedEnd DEF Reached
  <1>5. CASE u[t].ok = FALSE /\ u[t].on = FALSE /\ HasUnsafe(bad, V, q)
    <2>1. d = u[t]
      <3>1. Over(V, q, enc, w, a, dec, t)
        BY <1>5 DEF Over
      <3>2. QED
        BY <1>1, <3>1, Stays DEF Leaves
    <2>2. QED
      BY <1>5, <2>1 DEF Right
  <1>6. CASE u[t] = Fine(Partly(mean, V, q, L + 1, 0), Place(enc, V, q, a, L + 1, 0))
             /\ NoneBad(bad, V, q, L + 1, 0)
    <2>1. u[t] = Fine(Meant(mean, V, q), end)
      BY <1>2, <1>3, <1>6
    <2> DEFINE s == u[t]
    <2>2. /\ s.msg = Meant(mean, V, q) /\ s.at = end /\ s.ok = TRUE
      BY <2>1 DEF Fine
    <2>3. d = s
      <3>1. s.at >= end
        BY <1>2, <2>2
      <3>2. Over(V, q, enc, w, a, dec, t)
        BY <3>1 DEF Over
      <3>3. QED
        BY <1>1, <3>2, Stays DEF Leaves
    <2>4. ~HasUnsafe(bad, V, q)
      <3>1. SUFFICES ASSUME HasUnsafe(bad, V, q) PROVE FALSE
        OBVIOUS
      <3>2. PICK i \in 1 .. L : \E k \in 1 .. Len(Items(V, q, i)) : BadAt(bad, V, q, i, k)
        BY <1>1, <3>1, UnsafeAt
      <3>3. PICK k \in 1 .. Len(Items(V, q, i)) : BadAt(bad, V, q, i, k)
        BY <3>2
      <3>4. i > L + 1 \/ i = L + 1
        BY <1>6, <3>3 DEF NoneBad
      <3>5. QED
        BY <1>1, <3>4
    <2>5. QED
      BY <2>2, <2>3, <2>4 DEF Right
  <1>7. QED
    BY <1>4, <1>5, <1>6 DEF Upto

-----------------------------------------------------------------------------
(* Reading what was written, level by level.                                  *)

\* p is a message that a writer knowing V may send to a reader.
Sendable(V, p) ==
  /\ IsTable(V) /\ Agrees(V) /\ IsMessage(V, p) /\ p = <<p[1], p[2]>>
  /\ p[1] \in DOMAIN V /\ p[1] \in DOMAIN Types

\* What q, at level n of p, holds of messages is a level below.
BelowIt(V, p, n, q) ==
  \A i \in 1 .. Len(V[q[1]]) : V[q[1]][i].kind = "message" =>
    \A k \in DOMAIN q[2][V[q[1]][i].name] :
      n # 0 /\ <<V[q[1]][i].type, q[2][V[q[1]][i].name][k]>> \in Level(V, p, n - 1)

\* What holds of a message at any level.
LEMMA AtLevel ==
  ASSUME NEW V, NEW p, Sendable(V, p), NEW n \in 0 .. MaxDepth, NEW q \in Level(V, p, n)
  PROVE  IsTable(V) /\ Whole(V, q) /\ q \in Parts(V, p) /\ BelowIt(V, p, n, q)
  <1>1. IsTable(V) /\ p = <<p[1], p[2]>> /\ p[1] \in DOMAIN V /\ IsMessage(V, p)
    BY DEF Sendable
  <1>2. /\ Whole(V, q) /\ q \in Parts(V, p)
        /\ Kids(V, q, IF n = 0 THEN {} ELSE Level(V, p, n - 1))
    BY <1>1, LevelFacts
  <1>3. BelowIt(V, p, n, q)
    <2>1. CASE n = 0
      <3>1. Kids(V, q, {})
        BY <1>2, <2>1
      <3>2. QED
        BY <3>1 DEF Kids, BelowIt
    <2>2. CASE n # 0
      <3>1. Kids(V, q, Level(V, p, n - 1))
        BY <1>2, <2>2
      <3>2. QED
        BY <2>2, <3>1 DEF Kids, BelowIt
    <2>3. QED
      BY <2>1, <2>2
  <1>4. QED
    BY <1>1, <1>2, <1>3

\* At level n all has words.
HaveWords(V, p, n) == \A q \in Level(V, p, n) : Encodings(V, p)[n][q] \in Seq(Nat)

\* When a level has words, what a message above holds of messages has.
LEMMA InnerWords ==
  ASSUME NEW V, NEW p, Sendable(V, p), NEW n \in 0 .. MaxDepth, NEW q \in Level(V, p, n),
         n # 0 => HaveWords(V, p, n - 1)
  PROVE  Inner(Below(<<>>, Encodings(V, p), n), V, q)
  <1> DEFINE B == Below(<<>>, Encodings(V, p), n)
  <1>1. BelowIt(V, p, n, q)
    BY AtLevel
  <1>2. n # 0 => \A r \in Level(V, p, n - 1) : B[r] \in Seq(Nat)
    BY DEF HaveWords, Below
  <1> HIDE DEF B
  <1>3. Inner(B, V, q)
    BY <1>1, <1>2 DEF BelowIt, Inner
  <1>4. QED
    BY <1>3 DEF B

\* Every message on every level has words.
LEMMA AllHaveWords ==
  ASSUME NEW V, NEW p, Sendable(V, p)
  PROVE  \A n \in 0 .. MaxDepth : HaveWords(V, p, n)
  <1> DEFINE S == {n \in 0 .. MaxDepth : HaveWords(V, p, n)}
  <1>1. ASSUME NEW n \in 0 .. MaxDepth, n # 0 => HaveWords(V, p, n - 1)
        PROVE  HaveWords(V, p, n)
    <2>1. SUFFICES ASSUME NEW q \in Level(V, p, n)
                   PROVE  Encodings(V, p)[n][q] \in Seq(Nat)
      BY DEF HaveWords
    <2> DEFINE B == Below(<<>>, Encodings(V, p), n)
    <2>2. IsTable(V) /\ Whole(V, q) /\ q \in Parts(V, p)
      BY AtLevel
    <2>3. Inner(B, V, q)
      BY <1>1, InnerWords
    <2>4. Encodings(V, p)[n][q] = EncodeMessage(V, B, q)
      BY <2>2, EncodingsRec
    <2> HIDE DEF B
    <2>5. EncodeMessage(V, B, q) \in Seq(Nat)
      BY <2>2, <2>3, MessageChain
    <2>6. QED
      BY <2>4, <2>5
  <1>2. \A n \in 0 .. MaxDepth : (n # 0 => n - 1 \in S) => n \in S
    BY <1>1
  <1> HIDE DEF S
  <1>3. \A n \in 0 .. MaxDepth : n \in S
    BY <1>2, UpInd
  <1>4. QED
    BY <1>3 DEF S

\* At level n all that the reader knows is read as it was meant.
AllRead(V, p, w, n) ==
  \A q \in Level(V, p, n) : q[1] \in DOMAIN Types =>
    \A c \in 0 .. Len(w) :
      Reads(Decodings(w)[c], w, c, q, Encodings(V, p)[n][q], Meanings(V, p)[n][q],
            q \in UnsafeIn(V, p)[n])

\* The scene of a message at level n.
LEMMA SceneAt ==
  ASSUME NEW V, NEW p, Sendable(V, p), NEW w \in Seq(Nat), NEW n \in 0 .. MaxDepth,
         n # 0 => AllRead(V, p, w, n - 1),
         NEW q \in Level(V, p, n), q[1] \in DOMAIN Types, NEW c \in 0 .. Len(w),
         NEW a, At(w, a, EncodeMessage(V, Below(<<>>, Encodings(V, p), n), q)),
         Len(EncodeMessage(V, Below(<<>>, Encodings(V, p), n), q)) <= c
  PROVE  Scene(V, q, Below(<<>>, Encodings(V, p), n), w, a, c - 1, Below(<<>>, Decodings(w), c),
               Below(<<>>, Meanings(V, p), n), Below({}, UnsafeIn(V, p), n))
  <1> DEFINE E == Below(<<>>, Encodings(V, p), n)
             D == Below(<<>>, Decodings(w), c)
             M == Below(<<>>, Meanings(V, p), n)
             U == Below({}, UnsafeIn(V, p), n)
             S == V[q[1]]
             T == Types[q[1]]
             z == EncodeMessage(V, E, q)
  <1>1. IsTable(V) /\ Whole(V, q) /\ q \in Parts(V, p) /\ BelowIt(V, p, n, q)
    BY AtLevel
  <1>2. Both(S, T)
    BY <1>1, BothKnown DEF Sendable, Whole
  <1>3. \A m \in 0 .. MaxDepth : HaveWords(V, p, m)
    BY AllHaveWords
  <1>4. MaxDepth \in Nat /\ Len(w) \in Nat /\ c \in Int /\ c - 1 \in Int /\ (c - 1) + 1 = c
    BY WireAssumption
  <1>5. n # 0 => n - 1 \in 0 .. MaxDepth
    BY <1>4
  <1>6. Inner(E, V, q)
    BY <1>3, <1>5, InnerWords
  <1>7. ASSUME NEW i \in 1 .. Len(S), NEW k \in 1 .. Len(Items(V, q, i)),
               NEW j \in Written(T, S[i]), T[j].kind = "message"
        PROVE  LET r == <<T[j].type, Items(V, q, i)[k]>>
               IN  Reads(D, w, c - 1, r, E[r], M[r], r \in U)
    <2> DEFINE f == T[j]
               g == S[i]
               v == q[2][g.name]
               s == Items(V, q, i)
               r == <<f.type, s[k]>>
    <2>1. j \in 1 .. Len(T) /\ Alike(g, f)
      <3> HIDE DEF S, T
      <3>1. i \in 1 .. Len(S) /\ j \in Written(T, S[i])
        BY DEF S, T
      <3>2. IsType(T) /\ IsType(S) /\ IsField(S[i])
        BY <1>2, <3>1 DEF Both, IsType
      <3>3. j \in 1 .. Len(T)
        BY <3>1, <3>2, WrittenOnce
      <3>4. QED
        BY <1>2, <3>1, <3>3, BothFields
    <2>2. g.kind = "message" /\ g.type = f.type
      BY <1>7, <2>1 DEF Alike
    <2>3. s = v /\ k \in DOMAIN v
      <3>1. AreItems(g, v, s)
        BY <1>1, ItemFacts
      <3> HIDE DEF g, v, s
      <3>2. s = v /\ DOMAIN s = 1 .. Len(s)
        BY <2>2, <3>1 DEF AreItems
      <3>3. QED
        BY <3>2 DEF s
    <2>4. n # 0 /\ r \in Level(V, p, n - 1)
      BY <1>1, <2>2, <2>3 DEF BelowIt
    <2>5. r[1] = f.type /\ f.type \in DOMAIN Types
      BY <1>7, <2>1, TypeOf, WireAssumption
    <2>6. E[r] = Encodings(V, p)[n - 1][r] /\ M[r] = Meanings(V, p)[n - 1][r]
          /\ U = UnsafeIn(V, p)[n - 1]
      BY <2>4 DEF Below
    <2>7. E[r] \in Seq(Nat)
      BY <1>3, <1>5, <2>4, <2>6 DEF HaveWords
    <2> HIDE DEF r, E, M, U, D
    <2>8. Reads(D, w, c - 1, r, E[r], M[r], r \in U)
      <3>1. CASE c = 0
        <4>1. Len(E[r]) \in Nat
          BY <2>7
        <4>2. ~(Len(E[r]) <= c - 1)
          BY <3>1, <4>1
        <4>3. QED
          BY <4>2 DEF Reads
      <3>2. CASE c # 0
        <4>1. D = Decodings(w)[c - 1]
          BY <3>2 DEF D, Below
        <4>2. c - 1 \in 0 .. Len(w)
          BY <1>4, <3>2
        <4>3. AllRead(V, p, w, n - 1)
          BY <2>4
        <4>4. Reads(Decodings(w)[c - 1], w, c - 1, r, Encodings(V, p)[n - 1][r],
                    Meanings(V, p)[n - 1][r], r \in UnsafeIn(V, p)[n - 1])
          BY <2>4, <2>5, <4>2, <4>3 DEF AllRead
        <4>5. QED
          BY <2>6, <4>1, <4>4
      <3>3. QED
        BY <3>1, <3>2
    <2>9. QED
      BY <2>8 DEF r
  <1>8. At(w, a, z) /\ Len(z) <= (c - 1) + 1 /\ Fits(V, q)
    BY <1>1, <1>2, <1>4 DEF Fits
  <1> HIDE DEF E, D, M, U
  <1>9. Scene(V, q, E, w, a, c - 1, D, M, U)
    BY <1>4, <1>6, <1>7, <1>8 DEF Scene
  <1>10. QED
    BY <1>9 DEF E, D, M, U

\* Every message on every level that the reader knows is read as it was meant.
LEMMA AllIsRead ==
  ASSUME NEW V, NEW p, Sendable(V, p), NEW w \in Seq(Nat)
  PROVE  \A n \in 0 .. MaxDepth : AllRead(V, p, w, n)
  <1> DEFINE S == {n \in 0 .. MaxDepth : AllRead(V, p, w, n)}
  <1>1. ASSUME NEW n \in 0 .. MaxDepth, n # 0 => AllRead(V, p, w, n - 1)
        PROVE  AllRead(V, p, w, n)
    <2> DEFINE E == Below(<<>>, Encodings(V, p), n)
               M == Below(<<>>, Meanings(V, p), n)
               U == Below({}, UnsafeIn(V, p), n)
    <2>1. SUFFICES ASSUME NEW q \in Level(V, p, n), q[1] \in DOMAIN Types,
                          NEW c \in 0 .. Len(w)
                   PROVE  Reads(Decodings(w)[c], w, c, q, Encodings(V, p)[n][q],
                                Meanings(V, p)[n][q], q \in UnsafeIn(V, p)[n])
      BY DEF AllRead
    <2> DEFINE z == EncodeMessage(V, E, q)
               D == Below(<<>>, Decodings(w), c)
    <2>2. q \in Parts(V, p)
      BY AtLevel
    <2>3. /\ Encodings(V, p)[n][q] = z
          /\ Meanings(V, p)[n][q] = Meant(M, V, q)
          /\ q \in UnsafeIn(V, p)[n] <=> HasUnsafe(U, V, q)
      BY <2>2, EncodingsRec, MeaningsRec, UnsafeInRec
    <2>4. ASSUME NEW a, At(w, a, z), Len(z) <= c
          PROVE  Right(Decodings(w)[c][<<q[1], a, a + Len(z)>>], a, z,
                       Meant(M, V, q), HasUnsafe(U, V, q))
      <3> DEFINE x == <<q[1], a, a + Len(z)>>
      <3>1. Scene(V, q, E, w, a, c - 1, D, M, U)
        BY <1>1, <2>1, <2>4, SceneAt
      <3>2. Right(Turns(V, q, E, w, a, D)[Len(w)], a, z, Meant(M, V, q), HasUnsafe(U, V, q))
        <4> HIDE DEF E, D, M, U
        <4>1. QED
          BY <3>1, OneMessage
      <3>3. z \in Seq(Nat) /\ a \in Nat
        <4>1. Inner(E, V, q) /\ IsTable(V) /\ Whole(V, q)
          BY <3>1 DEF Scene, Fits
        <4> HIDE DEF E
        <4>2. QED
          BY <2>4, <4>1, MessageChain DEF At
      <3>4. x \in (DOMAIN Types) \X Nat \X Nat
        <4> HIDE DEF z
        <4>1. Len(z) \in Nat
          BY <3>3
        <4>2. QED
          BY <2>1, <3>3, <4>1
      <3>5. Decodings(w)[c][x] = Loop(D, w, x)[Len(w)]
        <4>1. Len(w) \in Nat
          OBVIOUS
        <4> HIDE DEF x
        <4>2. QED
          BY <3>4, <4>1, DecodingsRec
      <3>6. Turns(V, q, E, w, a, D) = Loop(D, w, x)
        BY DEF Turns
      <3>7. QED
        BY <3>2, <3>5, <3>6
    <2> HIDE DEF z, E, M, U
    <2>5. Reads(Decodings(w)[c], w, c, q, z, Meant(M, V, q), HasUnsafe(U, V, q))
      BY <2>4 DEF Reads
    <2>6. Reads(Decodings(w)[c], w, c, q, z, Meant(M, V, q), q \in UnsafeIn(V, p)[n])
      BY <2>3, <2>5 DEF Reads, Right
    <2>7. QED
      BY <2>3, <2>6
  <1>2. \A n \in 0 .. MaxDepth : (n # 0 => n - 1 \in S) => n \in S
    BY <1>1
  <1> HIDE DEF S
  <1>3. \A n \in 0 .. MaxDepth : n \in S
    BY <1>2, UpInd
  <1>4. QED
    BY <1>3 DEF S

\* What decode makes of what encode has written: what was meant, unless there is a
\* number it cannot represent.
LEMMA Delivered ==
  ASSUME NEW V, NEW p, Sendable(V, p)
  PROVE  /\ encode(V, p) \in Seq(Nat)
         /\ Right(decode(encode(V, p), p[1]), 1, encode(V, p), Meaning(V, p), Unsafe(V, p))
  <1> DEFINE w == encode(V, p)
  <1>1. /\ MaxDepth \in 0 .. MaxDepth /\ p \in Level(V, p, MaxDepth)
        /\ p[1] \in DOMAIN Types
    BY LevelFacts, WireAssumption DEF Sendable
  <1>2. w = Encodings(V, p)[MaxDepth][p] /\ w \in Seq(Nat)
    BY <1>1, AllHaveWords DEF encode, HaveWords
  <1> HIDE DEF w
  <1>3. Len(w) \in Nat
    BY <1>2
  <1>4. AllRead(V, p, w, MaxDepth)
    BY <1>1, <1>2, AllIsRead
  <1>5. Reads(Decodings(w)[Len(w)], w, Len(w), p, w, Meaning(V, p), Unsafe(V, p))
    <2>1. Len(w) \in 0 .. Len(w)
      BY <1>3
    <2>2. Reads(Decodings(w)[Len(w)], w, Len(w), p, Encodings(V, p)[MaxDepth][p],
                Meanings(V, p)[MaxDepth][p], p \in UnsafeIn(V, p)[MaxDepth])
      BY <1>1, <1>4, <2>1 DEF AllRead
    <2>3. QED
      BY <1>2, <2>2 DEF Meaning, Unsafe
  <1>6. At(w, 1, w) /\ Len(w) <= Len(w) /\ 1 + Len(w) = Len(w) + 1
    BY <1>3 DEF At
  <1>7. Right(Decodings(w)[Len(w)][<<p[1], 1, 1 + Len(w)>>], 1, w, Meaning(V, p), Unsafe(V, p))
    BY <1>5, <1>6 DEF Reads
  <1>8. Right(decode(w, p[1]), 1, w, Meaning(V, p), Unsafe(V, p))
    BY <1>6, <1>7 DEF decode
  <1>9. QED
    BY <1>2, <1>8 DEF w

-----------------------------------------------------------------------------
(* JSON: what a message that was read looks like, and what becomes of it.      *)

\* The levels of p, from p to the deepest messages.
Nested(V, p) ==
  /\ Level(V, p, MaxDepth) = {p}
  /\ \A n \in 0 .. MaxDepth : \A q \in Level(V, p, n) :
       /\ q = <<q[1], q[2]>> /\ q[1] \in DOMAIN V /\ q \in Parts(V, p)
       /\ n # 0 => Inside(V, q) \subseteq Level(V, p, n - 1)
  /\ \A n \in 1 .. MaxDepth : \A x \in Level(V, p, n - 1) :
       \E q \in Level(V, p, n) : x \in Inside(V, q)

\* The levels lead from p down.
LEMMA LevelsDown ==
  ASSUME NEW V, IsTable(V), NEW p, p = <<p[1], p[2]>>, p[1] \in DOMAIN V
  PROVE  Nested(V, p)
  <1> DEFINE Lv == Levels(V, p)
  <1>1. MaxDepth \in Nat
    BY WireAssumption
  <1>2. /\ p \in Lv[0]
        /\ \A n \in 0 .. MaxDepth : \A q \in Lv[n] :
             /\ q = <<q[1], q[2]>> /\ q[1] \in DOMAIN V /\ q \in Parts(V, p)
             /\ n < MaxDepth => Inside(V, q) \subseteq Lv[n + 1]
    BY LevelsTyped
  <1>3. /\ Lv[0] = {p}
        /\ \A n \in 1 .. MaxDepth : Lv[n] = UNION {Inside(V, q) : q \in Lv[n - 1]}
    BY LevelsRec
  <1>4. \A n : Level(V, p, n) = Lv[MaxDepth - n]
    BY DEF Level
  <1> HIDE DEF Lv
  <1>5. Level(V, p, MaxDepth) = {p}
    <2>1. MaxDepth - MaxDepth = 0
      BY <1>1
    <2>2. QED
      BY <1>3, <1>4, <2>1
  <1>6. ASSUME NEW n \in 0 .. MaxDepth, NEW q \in Level(V, p, n)
        PROVE  /\ q = <<q[1], q[2]>> /\ q[1] \in DOMAIN V /\ q \in Parts(V, p)
               /\ n # 0 => Inside(V, q) \subseteq Level(V, p, n - 1)
    <2>1. MaxDepth - n \in 0 .. MaxDepth /\ q \in Lv[MaxDepth - n]
      BY <1>1, <1>4
    <2>2. (n # 0 => MaxDepth - n < MaxDepth) /\ (MaxDepth - n) + 1 = MaxDepth - (n - 1)
      BY <1>1
    <2>3. QED
      BY <1>2, <1>4, <2>1, <2>2
  <1>7. ASSUME NEW n \in 1 .. MaxDepth, NEW x \in Level(V, p, n - 1)
        PROVE  \E q \in Level(V, p, n) : x \in Inside(V, q)
    <2>1. MaxDepth - (n - 1) \in 1 .. MaxDepth /\ (MaxDepth - (n - 1)) - 1 = MaxDepth - n
      BY <1>1
    <2>2. x \in UNION {Inside(V, q) : q \in Lv[MaxDepth - n]}
      BY <1>3, <1>4, <2>1
    <2>3. QED
      BY <1>4, <2>2
  <1>8. QED
    BY <1>5, <1>6, <1>7 DEF Nested

\* x is what q holds of messages in field i.
HeldAt(V, q, i, x) ==
  /\ V[q[1]][i].kind = "message" /\ V[q[1]][i].name \in DOMAIN q[2]
  /\ \E k \in DOMAIN q[2][V[q[1]][i].name] :
       x = <<V[q[1]][i].type, q[2][V[q[1]][i].name][k]>>

\* What is inside a message is held by one of its fields.
LEMMA InsideAt ==
  ASSUME NEW V, IsTable(V), NEW q, q[1] \in DOMAIN V, NEW x
  PROVE  x \in Inside(V, q) <=> \E i \in 1 .. Len(V[q[1]]) : HeldAt(V, q, i, x)
  <1> DEFINE S == V[q[1]]
             m == q[2]
             G == {g \in Range(S) : g.kind = "message" /\ g.name \in DOMAIN m}
  <1>1. Range(S) = {S[i] : i \in 1 .. Len(S)}
    BY TypeOf DEF IsType, Range
  <1>2. Inside(V, q) = UNION {{<<f.type, m[f.name][k]>> : k \in DOMAIN m[f.name]} : f \in G}
    BY DEF Inside
  <1>3. x \in Inside(V, q) <=>
          \E f \in G : \E k \in DOMAIN m[f.name] : x = <<f.type, m[f.name][k]>>
    <2> HIDE DEF G, m
    <2>1. QED
      BY <1>2
  <1>4. \A f : f \in G <=>
               \E i \in 1 .. Len(S) : f = S[i] /\ f.kind = "message" /\ f.name \in DOMAIN m
    <2> HIDE DEF m, S
    <2>1. QED
      BY <1>1
  <1>5. \A i : HeldAt(V, q, i, x) <=>
               /\ S[i].kind = "message" /\ S[i].name \in DOMAIN m
               /\ \E k \in DOMAIN m[S[i].name] : x = <<S[i].type, m[S[i].name][k]>>
    BY DEF HeldAt
  <1> HIDE DEF G, m, S
  <1>6. QED
    BY <1>3, <1>4, <1>5 DEF S

\* A value of messages is a sequence, empty at the deepest level.
Tidy(x, n) ==
  /\ x[2] = [name \in Names(Types[x[1]]) |-> x[2][name]]
  /\ \A j \in 1 .. Len(Types[x[1]]) : Types[x[1]][j].kind = "message" =>
       LET v == x[2][Types[x[1]][j].name]
       IN  /\ v = [k \in DOMAIN v |-> v[k]]
           /\ n = 0 => v = <<>>

\* What a message of q was meant to be, in field j: nothing, or what the messages
\* written there were meant to be.
MeantOf(V, p, n, q, j, v) ==
  \/ v = <<>>
  \/ \E i \in 1 .. Len(V[q[1]]) :
       LET u == q[2][V[q[1]][i].name]
           f == Types[q[1]][j]
       IN  /\ V[q[1]][i].kind = "message" /\ V[q[1]][i].type = f.type
           /\ Len(u) \in Nat /\ DOMAIN u = 1 .. Len(u)
           /\ v = [k \in DOMAIN u |-> Below(<<>>, Meanings(V, p), n)[<<f.type, u[k]>>]]

\* What a field of messages was meant to be.
LEMMA MeantField ==
  ASSUME NEW V, NEW p, Sendable(V, p), NEW n \in 0 .. MaxDepth, NEW q \in Level(V, p, n),
         q[1] \in DOMAIN Types
  PROVE  /\ Meanings(V, p)[n][q] =
              [name \in Names(Types[q[1]]) |-> Meanings(V, p)[n][q][name]]
         /\ \A j \in 1 .. Len(Types[q[1]]) : Types[q[1]][j].kind = "message" =>
              MeantOf(V, p, n, q, j, Meanings(V, p)[n][q][Types[q[1]][j].name])
  <1> DEFINE B == Below(<<>>, Meanings(V, p), n)
             S == V[q[1]]
             T == Types[q[1]]
             M == Meanings(V, p)[n][q]
             W(name) == LET f == FieldNamed(T, name)
                        IN  IF Written(S, f) = {} THEN Unset(f)
                            ELSE LET g == S[CHOOSE i \in Written(S, f) : TRUE]
                                 IN  ValueMeant(B, f, q[2][g.name])
  <1>1. IsTable(V) /\ Whole(V, q) /\ q \in Parts(V, p) /\ Both(S, T) /\ Fits(V, q)
    BY AtLevel, BothKnown DEF Sendable, Whole, Fits
  <1>2. M = [name \in Names(T) |-> W(name)]
    <2>1. M = Meant(B, V, q)
      BY <1>1, MeaningsRec
    <2>2. QED
      BY <2>1 DEF Meant
  <1>3. M = [name \in Names(T) |-> M[name]]
    <2> HIDE DEF W, M
    <2>1. QED
      BY <1>2
  <1>4. ASSUME NEW j \in 1 .. Len(T), T[j].kind = "message"
        PROVE  MeantOf(V, p, n, q, j, M[T[j].name])
    <2>1. IsType(T)
      BY <1>1 DEF Both
    <2>2. FieldNamed(T, T[j].name) = T[j] /\ T[j].name \in Names(T)
      <3> HIDE DEF T
      <3>1. j \in 1 .. Len(T)
        BY DEF T
      <3>2. QED
        BY <2>1, <3>1, Named
    <2>3. M[T[j].name] = W(T[j].name)
      <3> HIDE DEF M, W
      <3>1. QED
        BY <1>2, <2>2
    <2>4. CASE Written(S, T[j]) = {}
      <3>1. W(T[j].name) = <<>>
        BY <1>4, <2>2, <2>4 DEF Unset
      <3>2. QED
        BY <2>3, <3>1 DEF MeantOf
    <2>5. CASE Written(S, T[j]) # {}
      <3>1. PICK i \in 1 .. Len(S) : /\ i = (CHOOSE m \in Written(S, T[j]) : TRUE)
                                     /\ Alike(S[i], T[j])
        BY <1>1, <2>5, WrittenAt
      <3> DEFINE u == q[2][S[i].name]
      <3>2. W(T[j].name) = ValueMeant(B, T[j], u)
        BY <2>2, <2>5, <3>1
      <3>3. ValueMeant(B, T[j], u) = [k \in DOMAIN u |-> B[<<T[j].type, u[k]>>]]
        BY <1>4 DEF ValueMeant
      <3>4. S[i].kind = "message" /\ S[i].type = T[j].type
        BY <1>4, <3>1 DEF Alike
      <3>5. Len(u) \in Nat /\ DOMAIN u = 1 .. Len(u)
        <4>1. AreItems(S[i], u, Items(V, q, i))
          BY <1>1, ItemFacts
        <4> HIDE DEF u
        <4>2. QED
          BY <3>4, <4>1 DEF AreItems
      <3> HIDE DEF B, M, W
      <3>6. QED
        BY <2>3, <3>2, <3>3, <3>4, <3>5, ZenonT(60) DEF MeantOf, B
    <2>6. QED
      BY <2>4, <2>5
  <1>5. QED
    BY <1>3, <1>4

\* x is what a message at level n of p was meant to be.
IsMeant(V, p, n, x) ==
  \E q \in Level(V, p, n) : q[1] \in DOMAIN Types /\ x = <<q[1], Meanings(V, p)[n][q]>>

\* What was meant is tidy ...
LEMMA MeantTidy ==
  ASSUME NEW V, NEW p, Sendable(V, p), NEW n \in 0 .. MaxDepth, NEW x, IsMeant(V, p, n, x)
  PROVE  Tidy(x, n)
  <1>1. PICK q \in Level(V, p, n) : q[1] \in DOMAIN Types /\ x = <<q[1], Meanings(V, p)[n][q]>>
    BY DEF IsMeant
  <1> DEFINE T == Types[q[1]]
             M == Meanings(V, p)[n][q]
  <1>2. x[1] = q[1] /\ x[2] = M
    BY <1>1
  <1>3. /\ M = [name \in Names(T) |-> M[name]]
        /\ \A j \in 1 .. Len(T) : T[j].kind = "message" => MeantOf(V, p, n, q, j, M[T[j].name])
    BY <1>1, MeantField
  <1>4. ASSUME NEW j \in 1 .. Len(T), T[j].kind = "message",
               NEW v, v = M[T[j].name]
        PROVE  /\ v = [k \in DOMAIN v |-> v[k]]
               /\ n = 0 => v = <<>>
    <2>1. CASE v = <<>>
      BY <2>1
    <2>2. CASE v # <<>>
      <3>1. MeantOf(V, p, n, q, j, v)
        BY <1>3, <1>4
      <3>2. PICK i \in 1 .. Len(V[q[1]]) :
              LET u == q[2][V[q[1]][i].name]
              IN  /\ V[q[1]][i].kind = "message"
                  /\ Len(u) \in Nat /\ DOMAIN u = 1 .. Len(u)
                  /\ v = [k \in DOMAIN u |-> Below(<<>>, Meanings(V, p), n)[<<T[j].type, u[k]>>]]
        BY <2>2, <3>1 DEF MeantOf
      <3> DEFINE u == q[2][V[q[1]][i].name]
                 F(k) == Below(<<>>, Meanings(V, p), n)[<<T[j].type, u[k]>>]
                 D == DOMAIN u
      <3>3. v = [k \in D |-> F(k)]
        BY <3>2
      <3>4. ASSUME n = 0 PROVE v = <<>>
        <4>1. D = {}
          BY <3>2, <3>4, AtLevel DEF BelowIt
        <4>2. v = [k \in {} |-> F(k)]
          BY <3>3, <4>1
        <4> HIDE DEF F
        <4>3. QED
          BY <4>2
      <3> HIDE DEF F, D
      <3>5. QED
        BY <3>3, <3>4
    <2>3. QED
      BY <2>1, <2>2
  <1> HIDE DEF M, T
  <1>5. x[2] = [name \in Names(T) |-> x[2][name]]
    BY <1>2, <1>3
  <1>6. QED
    BY <1>2, <1>4, <1>5 DEF Tidy, T

\* ... and holds what its parts were meant to be.
LEMMA MeantInside ==
  ASSUME NEW V, NEW p, Sendable(V, p), NEW n \in 0 .. MaxDepth, NEW y, IsMeant(V, p, n, y),
         NEW x \in Inside(Types, y)
  PROVE  n # 0 /\ IsMeant(V, p, n - 1, x)
  <1>1. PICK q \in Level(V, p, n) : q[1] \in DOMAIN Types /\ y = <<q[1], Meanings(V, p)[n][q]>>
    BY DEF IsMeant
  <1> DEFINE T == Types[q[1]]
             M == Meanings(V, p)[n][q]
             B == Below(<<>>, Meanings(V, p), n)
  <1>2. y[1] = q[1] /\ y[2] = M
    BY <1>1
  <1>3. IsTable(Types)
    BY WireAssumption
  <1>4. PICK j \in 1 .. Len(T) : HeldAt(Types, y, j, x)
    BY <1>1, <1>2, <1>3, InsideAt
  <1> DEFINE f == T[j]
             v == M[f.name]
  <1>5. PICK k \in DOMAIN v : f.kind = "message" /\ x = <<f.type, v[k]>>
    BY <1>2, <1>4 DEF HeldAt
  <1>6. MeantOf(V, p, n, q, j, v)
    BY <1>1, <1>5, MeantField
  <1>7. v # <<>>
    BY <1>5, SMTT(30)
  <1>8. PICK i \in 1 .. Len(V[q[1]]) :
          LET u == q[2][V[q[1]][i].name]
          IN  /\ V[q[1]][i].kind = "message" /\ V[q[1]][i].type = f.type
              /\ v = [m \in DOMAIN u |-> B[<<f.type, u[m]>>]]
    BY <1>6, <1>7 DEF MeantOf
  <1> DEFINE u == q[2][V[q[1]][i].name]
             r == <<f.type, u[k]>>
  <1>9. k \in DOMAIN u /\ v[k] = B[r]
    <2> DEFINE D == DOMAIN u
               F(m) == B[<<f.type, u[m]>>]
    <2>1. v = [m \in D |-> F(m)]
      BY <1>8
    <2>2. k \in D /\ v[k] = F(k)
      <3> HIDE DEF D, F
      <3>1. v = [m \in D |-> F(m)] /\ k \in DOMAIN v
        BY <1>5, <2>1
      <3> HIDE DEF v
      <3>2. QED
        BY <3>1
    <2>3. QED
      BY <2>2
  <1>10. n # 0 /\ r \in Level(V, p, n - 1)
    <2>1. BelowIt(V, p, n, q)
      BY AtLevel
    <2>2. V[q[1]][i].kind = "message" /\ V[q[1]][i].type = f.type
      BY <1>8
    <2>3. \A m \in DOMAIN u : n # 0 /\ <<f.type, u[m]>> \in Level(V, p, n - 1)
      BY <2>1, <2>2 DEF BelowIt
    <2>4. QED
      BY <1>9, <2>3
  <1>11. r[1] = f.type /\ f.type \in DOMAIN Types
    BY <1>1, <1>3, <1>5, TypeOf
  <1>12. B[r] = Meanings(V, p)[n - 1][r]
    BY <1>10 DEF Below
  <1>13. x = <<r[1], Meanings(V, p)[n - 1][r]>>
    BY <1>5, <1>9, <1>11, <1>12
  <1> HIDE DEF r
  <1>14. QED
    BY <1>10, <1>11, <1>13 DEF IsMeant

\* What is to become of p, to the deepest messages.
LEMMA AllTidy ==
  ASSUME NEW V, NEW p, Sendable(V, p), NEW P, P = <<p[1], Meaning(V, p)>>
  PROVE  \A n \in 0 .. MaxDepth : \A x \in Level(Types, P, n) : Tidy(x, n)
  <1> DEFINE S == {n \in 0 .. MaxDepth : \A x \in Level(Types, P, n) : IsMeant(V, p, n, x)}
  <1>1. MaxDepth \in Nat /\ IsTable(Types)
    BY WireAssumption
  <1>2. P = <<P[1], P[2]>> /\ P[1] \in DOMAIN Types
    BY DEF Sendable
  <1>3. Nested(Types, P)
    BY <1>1, <1>2, LevelsDown
  <1>4. MaxDepth \in S
    <2>1. IsMeant(V, p, MaxDepth, P)
      <3>1. p \in Level(V, p, MaxDepth) /\ p[1] \in DOMAIN Types
        BY LevelFacts DEF Sendable
      <3>2. QED
        BY <3>1 DEF IsMeant, Meaning
    <2>2. QED
      BY <1>1, <1>3, <2>1 DEF Nested
  <1>5. ASSUME NEW n \in 1 .. MaxDepth, n \in S PROVE n - 1 \in S
    <2>1. n \in 0 .. MaxDepth /\ n - 1 \in 0 .. MaxDepth
      BY <1>1
    <2>2. SUFFICES ASSUME NEW x \in Level(Types, P, n - 1) PROVE IsMeant(V, p, n - 1, x)
      BY <2>1
    <2>3. PICK y \in Level(Types, P, n) : x \in Inside(Types, y)
      BY <1>3, <2>2 DEF Nested
    <2>4. IsMeant(V, p, n, y)
      BY <1>5
    <2>5. QED
      BY <2>1, <2>3, <2>4, MeantInside
  <1> HIDE DEF S
  <1>6. \A n \in 0 .. MaxDepth : n \in S
    BY <1>4, <1>5, DownInd
  <1>7. \A n \in 0 .. MaxDepth : \A x \in Level(Types, P, n) : IsMeant(V, p, n, x)
    BY <1>6 DEF S
  <1>8. QED
    BY <1>7, MeantTidy

\* Of P everything is tidy, so that toJSON is made for it.
Orderly(P) ==
  /\ P = <<P[1], P[2]>> /\ P[1] \in DOMAIN Types
  /\ \A n \in 0 .. MaxDepth : \A x \in Level(Types, P, n) : Tidy(x, n)

\* The object of x, a message at level n of P, and that of P.
Obj(P, n, x) == <<x[1], ToObjects(P)[n][x]>>

TopObject(P) == <<P[1], toJSON(P)>>

\* What the object o of x has for field i.
AsObject(js, x, i, o) ==
  LET f == Types[x[1]][i]
      v == x[2][f.name]
  IN  /\ f.name \in DOMAIN o <=> v # Unset(f)
      /\ f.name \in DOMAIN o /\ f.kind = "message" =>
           o[f.name] = [k \in DOMAIN v |-> js[<<f.type, v[k]>>]]
      /\ f.name \in DOMAIN o /\ f.kind # "message" => o[f.name] = v

\* The object of a message has a key for every field without its default, and no other.
LEMMA ObjectField ==
  ASSUME NEW js, NEW x, x[1] \in DOMAIN Types, NEW i \in 1 .. Len(Types[x[1]])
  PROVE  AsObject(js, x, i, ToObject(js, x))
  <1> DEFINE T == Types[x[1]]
             f == T[i]
             v == x[2][f.name]
             o == ToObject(js, x)
             N == {n \in Names(T) : x[2][n] # Unset(FieldNamed(T, n))}
             W(name) == LET g == FieldNamed(T, name)
                        IN  IF g.kind = "message"
                              THEN [k \in DOMAIN x[2][name] |-> js[<<g.type, x[2][name][k]>>]]
                              ELSE x[2][name]
  <1>1. IsType(T)
    BY TypeOf, WireAssumption
  <1>2. FieldNamed(T, f.name) = f /\ f.name \in Names(T)
    <2> HIDE DEF T
    <2>1. i \in 1 .. Len(T)
      BY DEF T
    <2>2. QED
      BY <1>1, <2>1, Named
  <1>3. o = [name \in N |-> W(name)]
    BY DEF ToObject
  <1>4. f.name \in N <=> v # Unset(f)
    BY <1>2
  <1>5. f.kind = "message" => W(f.name) = [k \in DOMAIN v |-> js[<<f.type, v[k]>>]]
    BY <1>2
  <1>6. f.kind # "message" => W(f.name) = v
    BY <1>2
  <1> HIDE DEF N, W, o
  <1>7. DOMAIN o = N /\ (f.name \in N => o[f.name] = W(f.name))
    BY <1>3
  <1>8. QED
    BY <1>4, <1>5, <1>6, <1>7 DEF AsObject, o

\* The objects of the messages in P are where the messages are.
LEMMA ObjectsInside ==
  ASSUME NEW P, Orderly(P)
  PROVE  \A n \in 0 .. MaxDepth : \A x \in Level(Types, P, n) :
           Obj(P, n, x) \in Level(Types, TopObject(P), n)
  <1> DEFINE O == TopObject(P)
             S == {n \in 0 .. MaxDepth : \A x \in Level(Types, P, n) :
                                           Obj(P, n, x) \in Level(Types, O, n)}
  <1>1. MaxDepth \in Nat /\ IsTable(Types)
    BY WireAssumption
  <1>2. /\ P = <<P[1], P[2]>> /\ P[1] \in DOMAIN Types
        /\ O = <<O[1], O[2]>> /\ O[1] \in DOMAIN Types
    BY DEF Orderly, TopObject
  <1>3. Nested(Types, P) /\ Nested(Types, O)
    <2> HIDE DEF O
    <2>1. QED
      BY <1>1, <1>2, LevelsDown
  <1>4. MaxDepth \in S
    <2>1. Obj(P, MaxDepth, P) = O
      BY DEF Obj, TopObject, toJSON
    <2> HIDE DEF O
    <2>2. Level(Types, P, MaxDepth) = {P} /\ Level(Types, O, MaxDepth) = {O}
      BY <1>3 DEF Nested
    <2>3. QED
      BY <1>1, <2>1, <2>2
  <1>5. ASSUME NEW n \in 1 .. MaxDepth, n \in S PROVE n - 1 \in S
    <2>1. n \in 0 .. MaxDepth /\ n - 1 \in 0 .. MaxDepth /\ n # 0
      BY <1>1
    <2>2. SUFFICES ASSUME NEW x \in Level(Types, P, n - 1)
                   PROVE  Obj(P, n - 1, x) \in Level(Types, O, n - 1)
      BY <2>1
    <2>3. PICK y \in Level(Types, P, n) : x \in Inside(Types, y)
      BY <1>3, <2>2 DEF Nested
    <2> DEFINE J == ToObjects(P)[n - 1]
               o == ToObject(J, y)
               z == Obj(P, n, y)
    <2>4. y[1] \in DOMAIN Types /\ y \in Parts(Types, P)
      BY <1>3, <2>1 DEF Nested
    <2>5. z[1] = y[1] /\ z[2] = o
      <3>1. ToObjects(P)[n][y] = ToObject(Below(<<>>, ToObjects(P), n), y)
        BY <2>1, <2>4, ToObjectsRec
      <3>2. Below(<<>>, ToObjects(P), n) = J
        BY <2>1 DEF Below
      <3>3. QED
        BY <3>1, <3>2 DEF Obj
    <2>6. z \in Level(Types, O, n)
      BY <1>5
    <2>7. PICK i \in 1 .. Len(Types[y[1]]) : HeldAt(Types, y, i, x)
      BY <1>1, <2>3, <2>4, InsideAt
    <2> DEFINE f == Types[y[1]][i]
               v == y[2][f.name]
    <2>8. PICK k \in DOMAIN v : f.kind = "message" /\ x = <<f.type, v[k]>>
      BY <2>7 DEF HeldAt
    <2>9. AsObject(J, y, i, o)
      BY <2>4, ObjectField
    <2>10. v # Unset(f)
      BY <2>8 DEF Unset
    <2> HIDE DEF o, z, J
    <2>11. f.name \in DOMAIN o /\ o[f.name] = [m \in DOMAIN v |-> J[<<f.type, v[m]>>]]
      BY <2>8, <2>9, <2>10 DEF AsObject
    <2>12. k \in DOMAIN o[f.name] /\ o[f.name][k] = J[<<f.type, v[k]>>]
      BY <2>11
    <2>13. x[1] = f.type /\ Obj(P, n - 1, x) = <<f.type, o[f.name][k]>>
      BY <2>8, <2>12 DEF Obj, J
    <2>14. HeldAt(Types, z, i, Obj(P, n - 1, x))
      BY <2>5, <2>8, <2>11, <2>12, <2>13 DEF HeldAt
    <2>15. Obj(P, n - 1, x) \in Inside(Types, z)
      BY <1>1, <2>4, <2>5, <2>14, InsideAt
    <2> HIDE DEF O
    <2>16. QED
      BY <1>3, <2>1, <2>6, <2>15 DEF Nested
  <1> HIDE DEF S
  <1>6. \A n \in 0 .. MaxDepth : n \in S
    BY <1>4, <1>5, DownInd
  <1>7. QED
    BY <1>6 DEF S

\* The messages of the objects are the messages.
LEMMA JsonRoundTrip ==
  ASSUME NEW P, Orderly(P)
  PROVE  fromJSON(TopObject(P)) = P[2]
  <1> DEFINE O == TopObject(P)
             F == FromObjects(O)
             S == {n \in 0 .. MaxDepth : \A x \in Level(Types, P, n) : F[n][Obj(P, n, x)] = x[2]}
  <1>1. MaxDepth \in Nat /\ IsTable(Types)
    BY WireAssumption
  <1>2. /\ P = <<P[1], P[2]>> /\ P[1] \in DOMAIN Types
        /\ O = <<O[1], O[2]>> /\ O[1] \in DOMAIN Types
    BY DEF Orderly, TopObject
  <1>3. Nested(Types, P) /\ Nested(Types, O)
    <2> HIDE DEF O
    <2>1. QED
      BY <1>1, <1>2, LevelsDown
  <1>4. ASSUME NEW n \in 0 .. MaxDepth, n # 0 => n - 1 \in S
        PROVE  n \in S
    <2>1. SUFFICES ASSUME NEW x \in Level(Types, P, n) PROVE F[n][Obj(P, n, x)] = x[2]
      OBVIOUS
    <2> DEFINE T == Types[x[1]]
               J == Below(<<>>, ToObjects(P), n)
               K == Below(<<>>, F, n)
               z == Obj(P, n, x)
               o == ToObject(J, x)
               W(name) == LET f == FieldNamed(T, name)
                          IN  IF name \notin DOMAIN o THEN Unset(f)
                              ELSE IF f.kind = "message"
                                THEN [k \in DOMAIN o[name] |-> K[<<f.type, o[name][k]>>]]
                                ELSE o[name]
    <2>2. x[1] \in DOMAIN Types /\ x \in Parts(Types, P) /\ IsType(T)
      BY <1>1, <1>3, TypeOf DEF Nested
    <2>3. z[1] = x[1] /\ z[2] = o
      BY <2>2, ToObjectsRec DEF Obj
    <2>4. z \in Parts(Types, O)
      <3>1. z \in Level(Types, O, n)
        BY ObjectsInside
      <3> HIDE DEF O, z
      <3>2. QED
        BY <1>3, <3>1 DEF Nested
    <2>5. F[n][z] = [name \in Names(T) |-> W(name)]
      <3>1. F[n][z] = FromObject(K, z)
        <4> HIDE DEF z, O
        <4>1. QED
          BY <2>4, FromObjectsRec
      <3> HIDE DEF z, o, K
      <3>2. FromObject(K, z) = [name \in Names(T) |-> W(name)]
        BY <2>3 DEF FromObject
      <3>3. QED
        BY <3>1, <3>2
    <2>6. Tidy(x, n)
      BY DEF Orderly
    <2>7. ASSUME NEW name \in Names(T) PROVE W(name) = x[2][name]
      <3>1. PICK i \in 1 .. Len(T) : T[i].name = name /\ FieldNamed(T, name) = T[i]
        BY <2>2, NameOf
      <3> DEFINE f == T[i]
                 v == x[2][name]
      <3>2. AsObject(J, x, i, o)
        BY <2>2, ObjectField
      <3>3. /\ name \in DOMAIN o <=> v # Unset(f)
            /\ name \in DOMAIN o /\ f.kind = "message" =>
                 o[name] = [k \in DOMAIN v |-> J[<<f.type, v[k]>>]]
            /\ name \in DOMAIN o /\ f.kind # "message" => o[name] = v
        <4> HIDE DEF o, J
        <4>1. QED
          BY <3>1, <3>2 DEF AsObject
      <3>4. CASE name \notin DOMAIN o
        BY <3>1, <3>3, <3>4
      <3>5. CASE name \in DOMAIN o /\ f.kind # "message"
        BY <3>1, <3>3, <3>5
      <3>6. CASE name \in DOMAIN o /\ f.kind = "message"
        <4>1. v # <<>> /\ v = [k \in DOMAIN v |-> v[k]] /\ (n = 0 => v = <<>>)
          BY <2>6, <3>1, <3>3, <3>6 DEF Tidy, Unset
        <4>2. n # 0 /\ n - 1 \in 0 .. MaxDepth /\ n - 1 \in S
          BY <1>1, <1>4, <4>1
        <4>3. J = ToObjects(P)[n - 1] /\ K = F[n - 1]
          BY <4>2 DEF Below
        <4>4. ASSUME NEW k \in DOMAIN v
              PROVE  K[<<f.type, J[<<f.type, v[k]>>]>>] = v[k]
          <5> DEFINE r == <<f.type, v[k]>>
          <5>1. r \in Inside(Types, x)
            <6>1. name \in DOMAIN x[2]
              BY <2>6 DEF Tidy
            <6>2. HeldAt(Types, x, i, r)
              BY <3>1, <3>6, <6>1 DEF HeldAt
            <6>3. QED
              BY <1>1, <2>2, <6>2, InsideAt
          <5>2. r \in Level(Types, P, n - 1)
            BY <1>3, <4>2, <5>1 DEF Nested
          <5>3. Obj(P, n - 1, r) = <<f.type, J[r]>>
            BY <4>3 DEF Obj
          <5>4. F[n - 1][Obj(P, n - 1, r)] = r[2]
            BY <4>2, <5>2
          <5>5. QED
            BY <4>3, <5>3, <5>4
        <4>5. W(name) = [k \in DOMAIN o[name] |-> K[<<f.type, o[name][k]>>]]
          BY <3>1, <3>6
        <4>6. o[name] = [k \in DOMAIN v |-> J[<<f.type, v[k]>>]]
          BY <3>3, <3>6
        <4> HIDE DEF W, o, J, K, f, v
        <4>7. [k \in DOMAIN o[name] |-> K[<<f.type, o[name][k]>>]] = [k \in DOMAIN v |-> v[k]]
          BY <4>4, <4>6
        <4>8. QED
          BY <4>1, <4>5, <4>7 DEF v
      <3>7. QED
        BY <3>4, <3>5, <3>6
    <2>8. x[2] = [name \in Names(T) |-> x[2][name]]
      BY <2>6 DEF Tidy
    <2> HIDE DEF W, T, z, F
    <2>9. QED
      BY <2>5, <2>7, <2>8 DEF z
  <1> HIDE DEF S
  <1>5. \A n \in 0 .. MaxDepth : n \in S
    BY <1>4, UpInd
  <1>6. F[MaxDepth][Obj(P, MaxDepth, P)] = P[2]
    <2>1. P \in Level(Types, P, MaxDepth)
      BY <1>3 DEF Nested
    <2>2. QED
      BY <1>1, <1>5, <2>1 DEF S
  <1>7. Obj(P, MaxDepth, P) = O
    BY DEF Obj, TopObject, toJSON
  <1>8. QED
    BY <1>6, <1>7 DEF fromJSON

-----------------------------------------------------------------------------
(* The specification.                                                         *)

\* The inductive invariant: what is on its way is a message of a writer the reader
\* may meet, the wire has its words, and what was got is what decode makes of them.
WireInv ==
  /\ stage \in {"idle", "given", "written", "read"}
  /\ stage # "idle" => /\ method \in DOMAIN Methods /\ side \in {"request", "response"}
                       /\ known \in Writers(Expects) /\ given \in Objects(known, Expects)
  /\ stage \in {"written", "read"} => wire = encode(known, Sent)
  /\ stage = "read" => got = decode(wire, Expects)

\* The invariant holds at first ...
THEOREM WireInvInit == Init => WireInv
  BY DEF Init, WireInv

\* ... and every step keeps it.
THEOREM WireInvNext == WireInv /\ [Next]_vars => WireInv'
  <1> SUFFICES ASSUME WireInv, [Next]_vars PROVE WireInv'
    OBVIOUS
  <1>1. ASSUME NEW c \in DOMAIN Methods, NEW s \in {"request", "response"}, Begin(c, s)
        PROVE  WireInv'
    <2>1. /\ stage' = "given" /\ method' = c /\ side' = s
          /\ known' \in Writers(Methods[c][s]) /\ given' \in Objects(known', Methods[c][s])
      BY <1>1 DEF Begin
    <2>2. Expects' = Methods[c][s]
      BY <2>1 DEF Expects
    <2>3. QED
      BY <2>1, <2>2 DEF WireInv
  <1>2. CASE Serialize
    <2>1. /\ stage = "given" /\ stage' = "written" /\ wire' = encode(known, Sent)
          /\ UNCHANGED <<method, side, known, given, got>>
      BY <1>2 DEF Serialize
    <2>2. Expects' = Expects /\ Sent' = Sent
      BY <2>1 DEF Expects, Sent
    <2>3. QED
      BY <2>1, <2>2 DEF WireInv
  <1>3. CASE Deserialize
    <2>1. /\ stage = "written" /\ stage' = "read" /\ got' = decode(wire, Expects)
          /\ UNCHANGED <<method, side, known, given, wire>>
      BY <1>3 DEF Deserialize
    <2>2. Expects' = Expects /\ Sent' = Sent
      BY <2>1 DEF Expects, Sent
    <2>3. QED
      BY <2>1, <2>2 DEF WireInv
  <1>4. CASE UNCHANGED vars
    BY <1>4 DEF vars, WireInv, Expects, Sent
  <1>5. QED
    BY <1>1, <1>2, <1>3, <1>4 DEF Next

\* So it always holds.  (Of Begin, Serialize and Deserialize: each leaves alone what the
\* one before it has done.)
THEOREM WireInvHolds == Spec => []WireInv
  <1>1. Init => WireInv
    BY WireInvInit
  <1>2. WireInv /\ [Next]_vars => WireInv'
    BY WireInvNext
  <1>3. QED
    BY <1>1, <1>2, PTL DEF Spec

\* What is on its way a reader may meet.
LEMMA SentIsSendable ==
  ASSUME WireInv, stage # "idle"
  PROVE  Sendable(known, Sent) /\ Sent[1] = Expects
  <1>1. /\ method \in DOMAIN Methods /\ side \in {"request", "response"}
        /\ known \in Writers(Expects) /\ given \in Objects(known, Expects)
    BY DEF WireInv
  <1>2. Expects = Methods[method][side]
    BY DEF Expects
  <1>3. /\ Expects \in DOMAIN Types
        /\ \A V \in Writers(Expects) :
             /\ Expects \in DOMAIN V /\ IsTable(V) /\ Agrees(V)
             /\ \A object \in Objects(V, Expects) :
                  IsMessage(V, <<Expects, object>>)
    <2> HIDE DEF Expects
    <2>1. QED
      BY <1>1, <1>2, WireAssumption
  <1>4. Sent = <<Expects, given>>
    BY DEF Sent
  <1>5. IsMessage(known, Sent)
    BY <1>1, <1>3, <1>4
  <1>6. Sent[1] = Expects /\ Sent = <<Sent[1], Sent[2]>>
    BY <1>4
  <1>7. QED
    BY <1>1, <1>3, <1>5, <1>6 DEF Sendable

\* What was got is right, or unsafe.
LEMMA GotRight ==
  ASSUME WireInv, stage = "read"
  PROVE  wire \in Seq(Nat) /\ Right(got, 1, wire, Meaning(known, Sent), Unsafe(known, Sent))
  <1>1. Sendable(known, Sent) /\ Sent[1] = Expects
    BY SentIsSendable
  <1>2. wire = encode(known, Sent) /\ got = decode(wire, Sent[1])
    BY <1>1 DEF WireInv
  <1>3. QED
    BY <1>1, <1>2, Delivered

\* A message is read as its writer meant it, whatever else the writer knew, at any depth:
\* what decode makes of the words of encode (demo.ts, Cart.decode and its like).
THEOREM ReadAsMeantHolds == Spec => []ReadAsMeant
  <1>1. WireInv => ReadAsMeant
    <2>1. SUFFICES ASSUME WireInv, stage = "read", got.ok
                   PROVE  got.msg = Meaning(known, Sent) /\ got.at = Len(wire) + 1
      BY DEF ReadAsMeant
    <2>2. wire \in Seq(Nat) /\ Right(got, 1, wire, Meaning(known, Sent), Unsafe(known, Sent))
      BY <2>1, GotRight
    <2>3. got.msg = Meaning(known, Sent) /\ got.at = 1 + Len(wire)
      BY <2>1, <2>2 DEF Right
    <2>4. Len(wire) \in Nat
      BY <2>2
    <2>5. QED
      BY <2>3, <2>4
  <1>2. QED
    BY <1>1, WireInvHolds, PTL

\* Reading fails exactly when an int64 is beyond MAX_SAFE_INTEGER (demo.ts, longToNumber).
THEOREM OnlyUnsafeUnitsFailHolds == Spec => []OnlyUnsafeUnitsFail
  <1>1. WireInv => OnlyUnsafeUnitsFail
    BY GotRight DEF OnlyUnsafeUnitsFail, Right
  <1>2. QED
    BY <1>1, WireInvHolds, PTL

\* fromJSON undoes toJSON for every message that was read (demo.ts, Cart.toJSON, fromJSON).
THEOREM JsonKeepsTheMessageHolds == Spec => []JsonKeepsTheMessage
  <1>1. WireInv => JsonKeepsTheMessage
    <2>1. SUFFICES ASSUME WireInv, stage = "read", got.ok
                   PROVE  fromJSON(<<Expects, toJSON(<<Expects, got.msg>>)>>) = got.msg
      BY DEF JsonKeepsTheMessage
    <2> DEFINE P == <<Expects, got.msg>>
    <2>2. Sendable(known, Sent) /\ Sent[1] = Expects
      BY <2>1, SentIsSendable
    <2>3. got.msg = Meaning(known, Sent)
      BY <2>1, GotRight DEF Right
    <2>4. P = <<Sent[1], Meaning(known, Sent)>>
      BY <2>2, <2>3
    <2>5. P = <<P[1], P[2]>> /\ P[1] = Expects /\ P[2] = got.msg /\ P[1] \in DOMAIN Types
      BY <2>2 DEF Sendable
    <2> HIDE DEF P
    <2>6. \A n \in 0 .. MaxDepth : \A x \in Level(Types, P, n) : Tidy(x, n)
      BY <2>2, <2>4, AllTidy
    <2>7. Orderly(P)
      BY <2>5, <2>6 DEF Orderly
    <2>8. fromJSON(TopObject(P)) = P[2]
      BY <2>7, JsonRoundTrip
    <2>9. QED
      BY <2>5, <2>8 DEF TopObject, P
  <1>2. QED
    BY <1>1, WireInvHolds, PTL
=============================================================================
