-------------------------- MODULE CartStoreProofs --------------------------
(***************************************************************************)
(* CartStore for any users and calls: what is lost and to whom, which keys *)
(* stay for ever, and that the carts of users who wait for their calls are *)
(* atomic.                                                                 *)
(***************************************************************************)
EXTENDS CartStore, TLAPS

LEMMA CallTypes ==
  /\ \A c \in Calls : Of[c] \in Users
  /\ \A c \in Writers : c \in Calls /\ c \notin Gets
  /\ \A c \in Adds : c \in Writers /\ c \notin Empties
  /\ \A c \in Empties : c \in Writers
  /\ \A c \in Gets : c \in Calls
  BY CallsAssumption DEF Calls, Writers

THEOREM TypeCorrect == Spec => []TypeOK
  <1>1. Init => TypeOK
    BY DEF Init, TypeOK
  <1>2. TypeOK /\ [Next]_vars => TypeOK'
    <2> SUFFICES ASSUME TypeOK, [Next]_vars PROVE TypeOK'
      OBVIOUS
    <2> USE CallTypes DEF TypeOK, store, service, wire
    <2>1. ASSUME NEW c \in Adds, AddItem(c) PROVE TypeOK'
      BY <2>1 DEF AddItem, Await, Commands
    <2>2. ASSUME NEW c \in Empties, EmptyCart(c) PROVE TypeOK'
      BY <2>2 DEF EmptyCart, Await, Commands
    <2>3. ASSUME NEW c \in Gets, GetCart(c) PROVE TypeOK'
      BY <2>3 DEF GetCart
    <2>4. ASSUME NEW c \in Writers, SetExpiry(c) \/ Return(c) PROVE TypeOK'
      BY <2>4 DEF SetExpiry, Return, Await, Commands
    <2>5. ASSUME NEW c \in Writers, HashSet(c) PROVE TypeOK'
      <3>1. /\ keys' \subseteq Users /\ named' \subseteq Users /\ mortal' \subseteq keys'
            /\ items' \in [Users -> SUBSET Adds] /\ gone' \in [Users -> SUBSET Adds]
        BY <2>5 DEF HashSet
      <3>2. stale' \subseteq Adds
        BY <2>5 DEF HashSet, Holding
      <3>3. out' \subseteq Writers \X Commands /\ executed' \subseteq Writers \X Commands
        BY <2>5 DEF HashSet, Executes, Commands
      <3>4. QED
        BY <2>5, <3>1, <3>2, <3>3 DEF HashSet, Executes
    <2>6. ASSUME NEW c \in Writers, KeyExpire(c) PROVE TypeOK'
      BY <2>6 DEF KeyExpire, Executes, Commands
    <2>7. ASSUME NEW c \in Calls, Fail(c) PROVE TypeOK'
      BY <2>7 DEF Fail
    <2>8. ASSUME NEW u \in Users, Expire(u) PROVE TypeOK'
      BY <2>8 DEF Expire
    <2>9. CASE UNCHANGED vars
      BY <2>9 DEF vars
    <2>10. QED
      BY <2>1, <2>2, <2>3, <2>4, <2>5, <2>6, <2>7, <2>8, <2>9 DEF Next
  <1>3. QED
    BY <1>1, <1>2, PTL DEF Spec

-----------------------------------------------------------------------------
(* The commands of a call. *)

\* HashSet comes first, is executed once, and a call that goes on or returns
\* has seen it executed.
CallInv(c) ==
  /\ pc[c] = "idle" => <<c, "set">> \notin out
  /\ <<c, "set">> \in out => ~Wrote(c)
  /\ pc[c] = "idle" => ~Wrote(c)
  /\ pc[c] \in {"expire", "ok"} => Wrote(c)
  /\ ~Wrote(c) => <<c, "expire">> \notin out /\ <<c, "expire">> \notin executed
  /\ pc[c] = "ok" => <<c, "expire">> \in executed

CommandInv == \A c \in Writers : CallInv(c)

\* What a step does not touch of a call keeps its CallInv.
LEMMA CallFrame ==
  ASSUME NEW c \in Writers, CallInv(c), pc'[c] = pc[c],
         \A m \in Commands : /\ <<c, m>> \in out' <=> <<c, m>> \in out
                             /\ <<c, m>> \in executed' <=> <<c, m>> \in executed
  PROVE  CallInv(c)'
  BY DEF CallInv, Wrote, Commands

LEMMA CommandInvariant == Spec => []CommandInv
  <1>1. Init => CommandInv
    BY CallTypes DEF Init, CommandInv, CallInv, Wrote
  <1>2. TypeOK /\ CommandInv /\ [Next]_vars => CommandInv'
    <2> SUFFICES ASSUME TypeOK, CommandInv, [Next]_vars, NEW d \in Writers PROVE CallInv(d)'
      BY DEF CommandInv
    <2> USE DEF store, service, wire
    <2>0. CallInv(d) /\ d \in Calls
      BY CallTypes DEF CommandInv
    <2>1. ASSUME NEW c \in Writers, NEW m \in Commands, Await(c, m),
                 m = "set" => pc[c] = "idle", m = "expire" => pc[c] = "set" /\ Wrote(c)
          PROVE  CallInv(d)'
      <3>1. CASE c = d
        BY <2>0, <2>1, <3>1 DEF Await, CallInv, Wrote, TypeOK, Commands
      <3>2. CASE c # d
        BY <2>0, <2>1, <3>2, CallFrame DEF Await, TypeOK
      <3>3. QED
        BY <3>1, <3>2
    <2>2. ASSUME NEW c \in Writers, NEW m \in Commands, Executes(c, m) PROVE CallInv(d)'
      <3>1. CASE c = d
        BY <2>0, <2>2, <3>1 DEF Executes, CallInv, Wrote, Commands
      <3>2. CASE c # d
        BY <2>0, <2>2, <3>2, CallFrame DEF Executes
      <3>3. QED
        BY <3>1, <3>2
    <2>3. ASSUME NEW c \in Adds, AddItem(c) PROVE CallInv(d)'
      BY <2>3, <2>1, CallTypes DEF AddItem, MayStart, Commands
    <2>4. ASSUME NEW c \in Empties, EmptyCart(c) PROVE CallInv(d)'
      BY <2>4, <2>1, CallTypes DEF EmptyCart, MayStart, Commands
    <2>5. ASSUME NEW c \in Gets, GetCart(c) PROVE CallInv(d)'
      BY <2>5, <2>0, CallFrame, CallTypes DEF GetCart, TypeOK
    <2>6. ASSUME NEW c \in Writers, SetExpiry(c) PROVE CallInv(d)'
      BY <2>6, <2>1 DEF SetExpiry, Wrote, Commands
    <2>7. ASSUME NEW c \in Writers, Return(c) PROVE CallInv(d)'
      <3>1. CASE c = d
        BY <2>0, <2>7, <3>1 DEF Return, CallInv, Wrote, TypeOK
      <3>2. CASE c # d
        BY <2>0, <2>7, <3>2, CallFrame DEF Return, TypeOK
      <3>3. QED
        BY <3>1, <3>2
    <2>8. ASSUME NEW c \in Calls, Fail(c) PROVE CallInv(d)'
      <3>1. CASE c = d
        BY <2>0, <2>8, <3>1 DEF Fail, CallInv, Wrote, TypeOK
      <3>2. CASE c # d
        BY <2>0, <2>8, <3>2, CallFrame DEF Fail, TypeOK
      <3>3. QED
        BY <3>1, <3>2
    <2>9. ASSUME NEW c \in Writers, HashSet(c) \/ KeyExpire(c) PROVE CallInv(d)'
      BY <2>9, <2>2 DEF HashSet, KeyExpire, Commands
    <2>10. ASSUME NEW u \in Users, Expire(u) PROVE CallInv(d)'
      BY <2>10, <2>0, CallFrame DEF Expire
    <2>11. CASE UNCHANGED vars
      BY <2>11, <2>0, CallFrame DEF vars
    <2>12. QED
      BY <2>3, <2>4, <2>5, <2>6, <2>7, <2>8, <2>9, <2>10, <2>11 DEF Next
  <1>3. QED
    BY <1>1, <1>2, TypeCorrect, PTL DEF Spec

-----------------------------------------------------------------------------
(* Keys that stay for ever. *)

\* A key without a time to live is one a call wrote that is busy or failed
\* before it had set the expiry: every call that returned well has left its
\* user's key mortal.
THEOREM KeysAreImmortalOnlyHalfWritten == Spec => []ImmortalOnlyHalfWritten
  <1>1. Init => ImmortalOnlyHalfWritten
    BY DEF Init, ImmortalOnlyHalfWritten
  <1>2. TypeOK /\ CommandInv /\ ImmortalOnlyHalfWritten /\ [Next]_vars
          => ImmortalOnlyHalfWritten'
    <2> SUFFICES ASSUME TypeOK, CommandInv, ImmortalOnlyHalfWritten, [Next]_vars,
                        NEW u \in keys' \ mortal'
                 PROVE  \E c \in Writers : /\ Of[c] = u /\ Wrote(c)'
                                           /\ pc'[c] # "ok" /\ <<c, "expire">> \notin executed'
      BY DEF ImmortalOnlyHalfWritten
    <2> DEFINE Witness(c) == /\ Of[c] = u /\ Wrote(c)
                             /\ pc[c] # "ok" /\ <<c, "expire">> \notin executed
    <2> USE DEF store, service, wire
    <2>1. CASE \E c \in Writers : HashSet(c) /\ Of[c] = u
      <3>1. PICK c \in Writers : HashSet(c) /\ Of[c] = u
        BY <2>1
      <3>2. CallInv(c)
        BY DEF CommandInv
      <3>3. Wrote(c)' /\ pc'[c] # "ok" /\ <<c, "expire">> \notin executed'
        BY <3>1, <3>2 DEF HashSet, Executes, CallInv, Wrote
      <3>4. QED
        BY <3>1, <3>3
    <2>2. CASE u \in keys \ mortal
      <3>1. PICK c \in Writers : Witness(c)
        BY <2>2 DEF ImmortalOnlyHalfWritten
      <3>2. CallInv(c) /\ c \in Calls
        BY CallTypes DEF CommandInv
      <3>3. Wrote(c)'
        BY <3>1 DEF Next, AddItem, EmptyCart, GetCart, SetExpiry, Return, HashSet, KeyExpire,
                    Fail, Expire, Executes, Await, Wrote, vars
      <3>4. pc'[c] # "ok"
        <4>1. \A g \in Gets : g # c
          BY CallTypes
        <4>2. ASSUME NEW d \in Writers, Return(d) PROVE d # c
          BY <3>1, <4>2 DEF Return
        <4>3. QED
          BY <3>1, <3>2, <4>1, <4>2
          DEF Next, AddItem, EmptyCart, GetCart, SetExpiry, Return, HashSet, KeyExpire,
              Fail, Expire, Executes, Await, TypeOK, vars
      <3>5. <<c, "expire">> \notin executed'
        <4>1. ASSUME NEW d \in Writers, KeyExpire(d) PROVE d # c
          <5>1. Of[d] # u
            BY <2>2, <4>1 DEF KeyExpire
          <5>2. QED
            BY <3>1, <5>1
        <4>2. QED
          BY <3>1, <4>1
          DEF Next, AddItem, EmptyCart, GetCart, SetExpiry, Return, HashSet, KeyExpire,
              Fail, Expire, Executes, Await, vars
      <3>6. QED
        BY <3>1, <3>3, <3>4, <3>5
    <2>3. QED
      BY <2>1, <2>2, ZenonT(60)
      DEF Next, AddItem, EmptyCart, GetCart, SetExpiry, Return, HashSet, KeyExpire,
          Fail, Expire, Executes, TypeOK, vars
  <1>3. QED
    BY <1>1, <1>2, TypeCorrect, CommandInvariant, PTL DEF Spec

-----------------------------------------------------------------------------
(* Lost items. *)

\* An addition whose cart is not stale holds all that is in the store, and an
\* emptying holds nothing.
FreshInv ==
  /\ \A c \in Adds : /\ pc[c] = "idle" => c \notin stale
                     /\ <<c, "set">> \in out /\ c \notin stale => items[Of[c]] \subseteq local[c]
  /\ \A c \in Empties : local[c] = {}
  /\ \A u \in Users : u \notin keys => items[u] = {}

LEMMA FreshInvariant == Spec => []FreshInv
  <1>1. Init => FreshInv
    BY CallTypes DEF Init, FreshInv
  <1>2. TypeOK /\ CommandInv /\ FreshInv /\ [Next]_vars => FreshInv'
    <2> SUFFICES ASSUME TypeOK, CommandInv, FreshInv, [Next]_vars PROVE FreshInv'
      OBVIOUS
    <2> USE DEF store, service, wire
    <2>1. ASSUME NEW c \in Adds, AddItem(c) PROVE FreshInv'
      <3>1. /\ local'[c] = items[Of[c]] \cup {c} /\ pc'[c] = "set"
            /\ \A d \in Calls : d # c => local'[d] = local[d] /\ pc'[d] = pc[d]
            /\ \A d \in Calls : d # c => (<<d, "set">> \in out' <=> <<d, "set">> \in out)
            /\ UNCHANGED <<items, stale, keys>>
        BY <2>1, CallTypes DEF AddItem, Await, TypeOK
      <3>2. QED
        BY <3>1, CallTypes DEF FreshInv
    <2>2. ASSUME NEW c \in Writers,
                 \/ c \in Empties /\ EmptyCart(c)
                 \/ SetExpiry(c) \/ Return(c) \/ KeyExpire(c)
          PROVE FreshInv'
      <3>1. /\ \A d \in Adds : <<d, "set">> \in out' => <<d, "set">> \in out
            /\ \A d \in Adds : pc'[d] = "idle" => pc[d] = "idle"
            /\ UNCHANGED <<items, stale, keys, local>>
        BY <2>2, CallTypes
        DEF EmptyCart, SetExpiry, Return, KeyExpire, Executes, Await, TypeOK
      <3>2. QED
        BY <3>1 DEF FreshInv
    <2>3. ASSUME NEW c \in Gets, GetCart(c) PROVE FreshInv'
      BY <2>3, CallTypes DEF GetCart, FreshInv, TypeOK
    <2>4. ASSUME NEW c \in Calls, Fail(c) PROVE FreshInv'
      BY <2>4, CallTypes DEF Fail, FreshInv, TypeOK
    <2>5. ASSUME NEW c \in Writers, HashSet(c) PROVE FreshInv'
      <3>1. /\ \A u \in Users : u # Of[c] => items'[u] = items[u]
            /\ keys' = keys \cup {Of[c]} /\ stale' = stale \cup (Holding(Of[c]) \ {c})
            /\ out' = out \ {<<c, "set">>} /\ UNCHANGED <<local, pc>>
        BY <2>5 DEF HashSet, Executes, TypeOK
      <3>2. \A d \in Adds : pc'[d] = "idle" => d \notin stale'
        BY <3>1, CallTypes DEF FreshInv, Holding, CommandInv, CallInv
      <3>3. ASSUME NEW d \in Adds, <<d, "set">> \in out', d \notin stale'
            PROVE  items'[Of[d]] \subseteq local'[d]
        <4>1. d # c /\ <<d, "set">> \in out /\ d \notin stale
          BY <3>1, <3>3
        <4>2. Of[d] # Of[c]
          BY <3>1, <3>3, <4>1 DEF Holding
        <4>3. QED
          BY <3>1, <4>1, <4>2, CallTypes DEF FreshInv
      <3>4. QED
        BY <3>1, <3>2, <3>3 DEF FreshInv
    <2>6. ASSUME NEW u \in Users, Expire(u) PROVE FreshInv'
      <3>1. /\ items'[u] = {} /\ \A v \in Users : v # u => items'[v] = items[v]
            /\ keys' = keys \ {u} /\ UNCHANGED <<stale, local, pc, out>>
        BY <2>6 DEF Expire, TypeOK
      <3>2. QED
        BY <3>1, CallTypes DEF FreshInv
    <2>7. CASE UNCHANGED vars
      BY <2>7 DEF vars, FreshInv
    <2>8. QED
      BY <2>1, <2>2, <2>3, <2>4, <2>5, <2>6, <2>7, CallTypes DEF Next
  <1>3. QED
    BY <1>1, <1>2, TypeCorrect, CommandInvariant, PTL DEF Spec

\* An item leaves a cart only by EmptyCart, by expiry, or by an addition that
\* had read the cart before somebody else wrote it.
THEOREM ItemsAreLostOnlyToStaleWrites == Spec => LostOnlyToStaleWrite
  <1> DEFINE Step ==
        \A u \in Users :
          \/ items[u] \subseteq items'[u]
          \/ u \notin keys'
          \/ \E c \in Empties \cup stale : Of[c] = u /\ Wrote(c)' /\ ~Wrote(c)
  <1>1. TypeOK /\ CommandInv /\ FreshInv /\ [Next]_vars => [Step]_vars
    <2> SUFFICES ASSUME TypeOK, CommandInv, FreshInv, Next, NEW u \in Users,
                        ~(items[u] \subseteq items'[u]), u \in keys'
                 PROVE  \E c \in Empties \cup stale : Of[c] = u /\ Wrote(c)' /\ ~Wrote(c)
      OBVIOUS
    <2> USE DEF store, service, wire
    <2>1. \E c \in Writers : HashSet(c) /\ Of[c] = u
      BY DEF Next, AddItem, EmptyCart, GetCart, SetExpiry, Return, HashSet, KeyExpire, Fail,
             Expire, TypeOK
    <2>2. PICK c \in Writers : HashSet(c) /\ Of[c] = u
      BY <2>1
    <2>3. <<c, "set">> \in out /\ items'[u] = local[c] /\ Wrote(c)'
      BY <2>2 DEF HashSet, Executes, Wrote, TypeOK
    <2>4. ~Wrote(c)
      BY <2>3 DEF CommandInv, CallInv
    <2>5. c \in Empties \cup stale
      BY <2>2, <2>3 DEF FreshInv, Writers
    <2>6. QED
      BY <2>2, <2>3, <2>4, <2>5
  <1>2. QED
    BY <1>1, TypeCorrect, CommandInvariant, FreshInvariant, PTL DEF Spec, LostOnlyToStaleWrite

-----------------------------------------------------------------------------
(* Atomicity, for the users whose calls do not overlap. *)

\* A call that may still change the store.
Busy(c) == pc[c] \in {"set", "expire"} \/ \E m \in Commands : <<c, m>> \in out

\* Of the calls of a user one is busy at a time, so that an addition holds what
\* is in the store and itself, or what was there when the key expired.
TurnInv ==
  /\ \A c, d \in Writers :
       Of[c] = Of[d] /\ Of[c] \in OneAtATime /\ Busy(c) /\ Busy(d) => c = d
  /\ \A c \in Adds : LET u == Of[c] IN
       u \in OneAtATime /\ <<c, "set">> \in out =>
         \/ local[c] = items[u] \cup {c}
         \/ u \notin keys /\ local[c] = gone[u] \cup {c}

LEMMA TurnInvariant == Spec => []TurnInv
  <1>1. Init => TurnInv
    BY CallTypes DEF Init, TurnInv, Busy
  <1>2. TypeOK /\ CommandInv /\ FreshInv /\ TurnInv /\ [Next]_vars => TurnInv'
    <2> SUFFICES ASSUME TypeOK, CommandInv, FreshInv, TurnInv, [Next]_vars PROVE TurnInv'
      OBVIOUS
    <2> USE DEF store, service, wire
    <2>0. ASSUME \A d \in Writers : Busy(d)' => Busy(d),
                 \A d \in Adds : <<d, "set">> \in out' => <<d, "set">> \in out,
                 UNCHANGED <<items, keys, gone, local>>
          PROVE  TurnInv'
      BY <2>0 DEF TurnInv
    <2>1. ASSUME NEW c \in Writers, MayStart(c), Await(c, "set")
          PROVE  \A d, e \in Writers :
                   Of[d] = Of[e] /\ Of[d] \in OneAtATime /\ Busy(d)' /\ Busy(e)' => d = e
      <3>1. \A d \in Writers : d # c => (Busy(d)' => Busy(d))
        BY <2>1, CallTypes DEF Await, Busy, TypeOK
      <3>2. \A d \in Writers : d # c /\ Of[d] = Of[c] /\ Of[c] \in OneAtATime => ~Busy(d)
        BY <2>1, CallTypes DEF MayStart, Busy
      <3>3. QED
        BY <3>1, <3>2 DEF TurnInv
    <2>2. ASSUME NEW c \in Adds, AddItem(c) PROVE TurnInv'
      <3>1. /\ local'[c] = items[Of[c]] \cup {c}
            /\ \A d \in Calls : d # c => local'[d] = local[d]
            /\ \A d \in Calls : d # c => (<<d, "set">> \in out' <=> <<d, "set">> \in out)
            /\ UNCHANGED <<items, gone, keys>>
        BY <2>2, CallTypes DEF AddItem, Await, TypeOK
      <3>2. QED
        BY <2>1, <2>2, <3>1, CallTypes DEF AddItem, TurnInv
    <2>3. ASSUME NEW c \in Empties, EmptyCart(c) PROVE TurnInv'
      <3>1. /\ \A d \in Adds : <<d, "set">> \in out' => <<d, "set">> \in out
            /\ UNCHANGED <<items, gone, keys, local>>
        BY <2>3, CallTypes DEF EmptyCart, Await
      <3>2. QED
        BY <2>1, <2>3, <3>1, CallTypes DEF EmptyCart, TurnInv
    <2>4. ASSUME NEW c \in Gets, GetCart(c) PROVE TurnInv'
      <3>1. /\ \A d \in Writers : pc'[d] = pc[d] /\ local'[d] = local[d]
            /\ UNCHANGED <<items, gone, keys, out>>
        BY <2>4, CallTypes DEF GetCart, TypeOK
      <3>2. QED
        BY <3>1, CallTypes DEF TurnInv, Busy
    <2>5. ASSUME NEW c \in Writers, SetExpiry(c) \/ Return(c) PROVE TurnInv'
      BY <2>5, <2>0, CallTypes DEF SetExpiry, Return, Await, Busy, TypeOK, Commands
    <2>6. ASSUME NEW c \in Calls, Fail(c) PROVE TurnInv'
      BY <2>6, <2>0, CallTypes DEF Fail, Busy, TypeOK
    <2>7. ASSUME NEW c \in Writers, KeyExpire(c) PROVE TurnInv'
      BY <2>7, <2>0 DEF KeyExpire, Executes, Busy
    <2>8. ASSUME NEW c \in Writers, HashSet(c) PROVE TurnInv'
      <3>1. /\ \A u \in Users : u # Of[c] =>
                 items'[u] = items[u] /\ gone'[u] = gone[u] /\ (u \in keys' <=> u \in keys)
            /\ out' = out \ {<<c, "set">>} /\ UNCHANGED <<local, pc>>
        BY <2>8 DEF HashSet, Executes, TypeOK
      <3>2. \A d \in Writers : Busy(d)' => Busy(d)
        BY <3>1 DEF Busy
      <3>3. ASSUME NEW d \in Adds, Of[d] \in OneAtATime, <<d, "set">> \in out'
            PROVE  Of[d] # Of[c] /\ <<d, "set">> \in out
        <4>1. d # c /\ <<d, "set">> \in out
          BY <3>1, <3>3
        <4>2. Busy(c) /\ Busy(d)
          BY <2>8, <4>1 DEF Busy, HashSet, Executes, Commands
        <4>3. QED
          BY <3>3, <4>1, <4>2, CallTypes DEF TurnInv
      <3>4. QED
        BY <3>1, <3>2, <3>3, CallTypes DEF TurnInv
    <2>9. ASSUME NEW u \in Users, Expire(u) PROVE TurnInv'
      <3>1. /\ gone'[u] = items[u] /\ keys' = keys \ {u} /\ u \in keys
            /\ \A v \in Users : v # u => items'[v] = items[v] /\ gone'[v] = gone[v]
            /\ UNCHANGED <<local, pc, out>>
        BY <2>9 DEF Expire, TypeOK
      <3>2. QED
        BY <3>1, CallTypes DEF TurnInv, Busy
    <2>10. CASE UNCHANGED vars
      BY <2>10 DEF vars, TurnInv, Busy
    <2>11. QED
      BY <2>2, <2>3, <2>4, <2>5, <2>6, <2>7, <2>8, <2>9, <2>10 DEF Next
  <1>3. QED
    BY <1>1, <1>2, TypeCorrect, CommandInvariant, FreshInvariant, PTL DEF Spec

\* The users who wait for their calls see a cart that changes atomically: an
\* addition takes effect, all of it, when HashSet is executed, an emptying
\* likewise, a GetCart when it reads.
THEOREM CartsAreAtomicInTurn == Spec => CartIsAtomic
  <1> USE DEF store, service, wire
  <1>1. Init => Atomic!Init
    BY CallTypes, CallsAssumption DEF Init, Atomic!Init, Atomic!Calls, OfThem, Wrote, Calls, Writers
  <1>2. TypeOK /\ CommandInv /\ FreshInv /\ TurnInv /\ [Next]_vars
          => [Atomic!Next]_(Atomic!vars)
    <2> SUFFICES ASSUME TypeOK, CommandInv, FreshInv, TurnInv, [Next]_vars
                 PROVE  [Atomic!Next]_(Atomic!vars)
      OBVIOUS
    <2>0. ASSUME UNCHANGED <<items, gone, executed>>,
                 \A c \in Calls : pc'[c] = pc[c] \/ {pc[c], pc'[c]} \cap {"ok", "failed"} = {},
                 \A c \in Gets : local'[c] = local[c]
          PROVE  [Atomic!Next]_(Atomic!vars)
      <3>1. UNCHANGED [c \in OfThem(Calls) |-> IF pc[c] \in {"ok", "failed"} THEN pc[c] ELSE "none"]
        BY <2>0 DEF OfThem
      <3>2. UNCHANGED [c \in OfThem(Gets) |-> local[c]]
        BY <2>0 DEF OfThem
      <3>3. QED
        BY <2>0, <3>1, <3>2 DEF Atomic!vars, Wrote
    <2>1. ASSUME NEW c \in Adds, AddItem(c) PROVE [Atomic!Next]_(Atomic!vars)
      <3>1. c \notin Gets /\ c \in Calls
        BY CallTypes
      <3>2. QED
        BY <2>0, <2>1, <3>1, CallTypes DEF AddItem, MayStart, Await, TypeOK
    <2>2. ASSUME NEW c \in Empties, EmptyCart(c) PROVE [Atomic!Next]_(Atomic!vars)
      BY <2>0, <2>2, CallTypes DEF EmptyCart, MayStart, Await, TypeOK
    <2>3. ASSUME NEW c \in Writers, SetExpiry(c) PROVE [Atomic!Next]_(Atomic!vars)
      BY <2>0, <2>3, CallTypes DEF SetExpiry, Await, TypeOK
    <2>4. ASSUME NEW c \in Writers, KeyExpire(c) PROVE [Atomic!Next]_(Atomic!vars)
      <3>1. \A d : Wrote(d)' <=> Wrote(d)
        BY <2>4 DEF KeyExpire, Executes, Wrote
      <3>2. QED
        BY <2>4, <3>1 DEF KeyExpire, Executes, Atomic!vars
    <2>5. ASSUME NEW c \in Calls, NEW a \in {"ok", "failed"}, pc[c] \notin {"ok", "failed"},
                 pc' = [pc EXCEPT ![c] = a], UNCHANGED <<items, gone, local, executed>>,
                 a = "ok" => c \in Writers /\ Wrote(c)
          PROVE  [Atomic!Next]_(Atomic!vars)
      <3>1. CASE Of[c] \notin OneAtATime
        <4>1. UNCHANGED [d \in OfThem(Calls) |-> IF pc[d] \in {"ok", "failed"} THEN pc[d] ELSE "none"]
          BY <2>5, <3>1 DEF OfThem, TypeOK
        <4>2. QED
          BY <2>5, <4>1 DEF Atomic!vars, Wrote
      <3>2. CASE Of[c] \in OneAtATime
        <4>1. c \in OfThem(Calls) /\ c \in Atomic!Calls
          BY <3>2, CallTypes DEF OfThem, Atomic!Calls, Calls
        <4>2. [d \in OfThem(Calls) |-> IF pc[d] \in {"ok", "failed"} THEN pc[d] ELSE "none"]'
              = [[d \in OfThem(Calls) |-> IF pc[d] \in {"ok", "failed"} THEN pc[d] ELSE "none"]
                  EXCEPT ![c] = a]
          BY <2>5, <4>1 DEF OfThem, TypeOK
        <4>3. a = "ok" => c \in {d \in OfThem(Writers) : Wrote(d)}
          BY <2>5, <3>2 DEF OfThem
        <4>4. Atomic!Answer(c, a)
          BY <2>5, <4>1, <4>2, <4>3 DEF Atomic!Answer, Wrote
        <4>5. QED
          BY <4>1, <4>4 DEF Atomic!Next
      <3>3. QED
        BY <3>1, <3>2
    <2>6. ASSUME NEW c \in Writers, Return(c) PROVE [Atomic!Next]_(Atomic!vars)
      BY <2>5, <2>6, CallTypes DEF Return, CommandInv, CallInv
    <2>7. ASSUME NEW c \in Calls, Fail(c) PROVE [Atomic!Next]_(Atomic!vars)
      BY <2>5, <2>7 DEF Fail
    <2>8. ASSUME NEW c \in Gets, GetCart(c) PROVE [Atomic!Next]_(Atomic!vars)
      <3>0. /\ pc[c] = "idle" /\ pc' = [pc EXCEPT ![c] = "ok"]
            /\ local' = [local EXCEPT ![c] = items[Of[c]]]
            /\ UNCHANGED <<items, gone, executed>> /\ c \in Calls
        BY <2>8, CallTypes DEF GetCart, MayStart
      <3>1. CASE Of[c] \notin OneAtATime
        <4>1. /\ UNCHANGED [d \in OfThem(Calls) |-> IF pc[d] \in {"ok", "failed"} THEN pc[d] ELSE "none"]
              /\ UNCHANGED [d \in OfThem(Gets) |-> local[d]]
          BY <3>0, <3>1, CallTypes DEF OfThem, TypeOK
        <4>2. QED
          BY <3>0, <4>1 DEF Atomic!vars, Wrote
      <3>2. CASE Of[c] \in OneAtATime
        <4>1. c \in OfThem(Calls) /\ c \in OfThem(Gets)
          BY <3>0, <3>2 DEF OfThem
        <4>2. [d \in OfThem(Calls) |-> IF pc[d] \in {"ok", "failed"} THEN pc[d] ELSE "none"]'
              = [[d \in OfThem(Calls) |-> IF pc[d] \in {"ok", "failed"} THEN pc[d] ELSE "none"]
                  EXCEPT ![c] = "ok"]
          BY <3>0, <4>1 DEF OfThem, TypeOK
        <4>3. [d \in OfThem(Gets) |-> local[d]]'
              = [[d \in OfThem(Gets) |-> local[d]] EXCEPT ![c] = items[Of[c]]]
          BY <3>0, <4>1, CallTypes DEF OfThem, TypeOK
        <4>4. Atomic!Read(c)
          BY <3>0, <3>2, <4>1, <4>2, <4>3 DEF Atomic!Read, Wrote
        <4>5. QED
          BY <4>1, <4>4 DEF Atomic!Next
      <3>3. QED
        BY <3>1, <3>2
    <2>9. ASSUME NEW c \in Writers, HashSet(c) PROVE [Atomic!Next]_(Atomic!vars)
      <3> DEFINE u == Of[c]
      <3>0. /\ u \in Users /\ c \in Calls /\ <<c, "set">> \in out
            /\ items' = [items EXCEPT ![u] = local[c]]
            /\ gone' = [gone EXCEPT ![u] = {}]
            /\ UNCHANGED <<pc, local>>
            /\ \A d : Wrote(d)' <=> Wrote(d) \/ d = c
        BY <2>9, CallTypes DEF HashSet, Executes, Wrote
      <3>1. CASE u \notin OneAtATime
        <4>1. /\ UNCHANGED [v \in OneAtATime |-> items[v]]
              /\ UNCHANGED [v \in OneAtATime |-> gone[v]]
          BY <3>0, <3>1, CallsAssumption DEF TypeOK
        <4>2. UNCHANGED {d \in OfThem(Writers) : Wrote(d)}
          BY <3>0, <3>1 DEF OfThem
        <4>3. QED
          BY <3>0, <4>1, <4>2 DEF Atomic!vars
      <3>2. CASE u \in OneAtATime
        <4>1. ~Wrote(c) /\ pc[c] # "ok"
          BY <3>0 DEF CommandInv, CallInv
        <4>2. /\ c \in OfThem(Writers) /\ c \in OfThem(Calls)
              /\ c \in Adds => c \in OfThem(Adds)
              /\ c \in Empties => c \in OfThem(Empties)
          BY <3>0, <3>2 DEF OfThem
        <4>3. {d \in OfThem(Writers) : Wrote(d)}' = {d \in OfThem(Writers) : Wrote(d)} \cup {c}
          BY <3>0, <4>2 DEF OfThem
        <4>4. [v \in OneAtATime |-> gone[v]]' = [[v \in OneAtATime |-> gone[v]] EXCEPT ![u] = {}]
          BY <3>0, CallsAssumption DEF TypeOK
        <4>5. [v \in OneAtATime |-> items[v]]'
              = [[v \in OneAtATime |-> items[v]] EXCEPT ![u] = local[c]]
          BY <3>0, CallsAssumption DEF TypeOK
        <4>6. CASE c \in Empties
          <5>1. local[c] = {}
            BY <4>6 DEF FreshInv
          <5>2. Atomic!Clear(c)
            BY <3>0, <3>2, <4>1, <4>2, <4>3, <4>4, <4>5, <5>1 DEF Atomic!Clear
          <5>3. QED
            BY <4>2, <4>6, <5>2 DEF Atomic!Next
        <4>7. CASE c \in Adds
          <5>1. \E back \in {{}, gone[u]} : local[c] = items[u] \cup back \cup {c}
            <6>1. u \notin keys => items[u] = {}
              BY <3>0 DEF FreshInv
            <6>2. QED
              BY <3>0, <3>2, <4>7, <6>1 DEF TurnInv
          <5>2. Atomic!Add(c)
            BY <3>0, <3>2, <4>1, <4>2, <4>3, <4>4, <4>5, <5>1 DEF Atomic!Add
          <5>3. QED
            BY <4>2, <4>7, <5>2 DEF Atomic!Next
        <4>8. QED
          BY <4>6, <4>7 DEF Writers
      <3>3. QED
        BY <3>1, <3>2
    <2>10. ASSUME NEW u \in Users, Expire(u) PROVE [Atomic!Next]_(Atomic!vars)
      <3>0. /\ items' = [items EXCEPT ![u] = {}] /\ gone' = [gone EXCEPT ![u] = items[u]]
            /\ UNCHANGED <<pc, local, executed>>
        BY <2>10 DEF Expire
      <3>1. CASE u \notin OneAtATime
        <4>1. /\ UNCHANGED [v \in OneAtATime |-> items[v]]
              /\ UNCHANGED [v \in OneAtATime |-> gone[v]]
          BY <3>0, <3>1, CallsAssumption DEF TypeOK
        <4>2. QED
          BY <3>0, <4>1 DEF Atomic!vars, Wrote
      <3>2. CASE u \in OneAtATime
        <4>1. [v \in OneAtATime |-> gone[v]]'
              = [[v \in OneAtATime |-> gone[v]] EXCEPT ![u] = items[u]]
          BY <3>0, CallsAssumption DEF TypeOK
        <4>2. [v \in OneAtATime |-> items[v]]' = [[v \in OneAtATime |-> items[v]] EXCEPT ![u] = {}]
          BY <3>0, CallsAssumption DEF TypeOK
        <4>3. Atomic!Lapse(u)
          BY <3>0, <3>2, <4>1, <4>2 DEF Atomic!Lapse, Wrote
        <4>4. QED
          BY <3>2, <4>3 DEF Atomic!Next
      <3>3. QED
        BY <3>1, <3>2
    <2>11. CASE UNCHANGED vars
      BY <2>11, <2>0 DEF vars
    <2>12. QED
      BY <2>1, <2>2, <2>3, <2>4, <2>6, <2>7, <2>8, <2>9, <2>10, <2>11 DEF Next
  <1>3. QED
    BY <1>1, <1>2, TypeCorrect, CommandInvariant, FreshInvariant, TurnInvariant, PTL
    DEF Spec, CartIsAtomic, Atomic!Spec
=============================================================================
