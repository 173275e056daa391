----------------------------- MODULE CartStore -----------------------------
(***************************************************************************)
(* The cart service (cart/src/services/CartService.cs and                  *)
(* cartstore/ValkeyCartStore.cs).  The service holds no lock and no cart:  *)
(* a call reads or writes a hash in Valkey and then sets the expiry of its *)
(* key, each with an awaited command, and the calls of a user overlap at   *)
(* every await.  A command that was sent may fail without having been      *)
(* executed, fail after it, or be executed after it was given up on.       *)
(*                                                                         *)
(* A cart is the set of AddItem calls it reflects: AddItem merges by       *)
(* product, so these determine its lines and quantities.                   *)
(***************************************************************************)
EXTENDS Naturals

CONSTANTS
  Users,
  Adds, Empties, Gets,   \* the calls of AddItem, EmptyCart and GetCart
  Of,                    \* Of[c]: the user id of call c
  OneAtATime             \* the users whose calls do not overlap

Calls == Adds \cup Empties \cup Gets
Writers == Adds \cup Empties

ASSUME CallsAssumption ==
  /\ Of \in [Calls -> Users]
  /\ OneAtATime \subseteq Users
  /\ Adds \cap Empties = {} /\ Writers \cap Gets = {}

VARIABLES
  keys,     \* the users with a key in Valkey
  items,    \* items[u]: the items in the value of u's key
  named,    \* the users whose value carries their UserId
  mortal,   \* the users whose key has a time to live
  pc,       \* pc[c]: the command call c awaits, or how it ended
  local,    \* local[c]: the items of the cart that call c holds
  signed,   \* the calls that hold a cart with a UserId
  out,      \* the commands sent and not executed yet, <<call, command>>
  executed  \* the commands executed

\* What happened, for the properties to refer to.
VARIABLES
  stale,    \* the additions that hold a cart older than the one in Valkey
  gone      \* gone[u]: what u's key held when it expired, until it is written

store   == <<keys, items, named, mortal, stale, gone>>
service == <<pc, local, signed>>
wire    == <<out, executed>>
vars    == <<store, service, wire>>

Commands == {"set", "expire"}

TypeOK ==
  /\ keys \subseteq Users
  /\ items \in [Users -> SUBSET Adds]
  /\ named \subseteq Users
  /\ mortal \subseteq keys
  /\ pc \in [Calls -> {"idle", "set", "expire", "ok", "failed"}]
  /\ local \in [Calls -> SUBSET Adds]
  /\ signed \subseteq Calls
  /\ out \subseteq Writers \X Commands
  /\ executed \subseteq Writers \X Commands
  /\ stale \subseteq Adds
  /\ gone \in [Users -> SUBSET Adds]

Init ==
  /\ keys = {}
  /\ items = [u \in Users |-> {}]
  /\ named = {}
  /\ mortal = {}
  /\ pc = [c \in Calls |-> "idle"]
  /\ local = [c \in Calls |-> {}]
  /\ signed = {}
  /\ out = {}
  /\ executed = {}
  /\ stale = {}
  /\ gone = [u \in Users |-> {}]

-----------------------------------------------------------------------------
(* The service. *)

\* A user whose calls do not overlap waits for the last one to be over, the
\* commands it gave up on included.
MayStart(c) ==
  /\ pc[c] = "idle"
  /\ Of[c] \in OneAtATime =>
       \A d \in Calls \ {c} : Of[d] = Of[c] =>
         /\ pc[d] \in {"idle", "ok", "failed"}
         /\ \A m \in Commands : <<d, m>> \notin out

\* The call sends a command and awaits it.
Await(c, m) ==
  /\ pc' = [pc EXCEPT ![c] = m]
  /\ out' = out \cup {<<c, m>>}
  /\ UNCHANGED executed

\* A variant that starts from an empty cart, whatever the store holds.
AddItemAfresh(c) ==
  /\ MayStart(c)
  /\ local' = [local EXCEPT ![c] = {c}]
  /\ signed' = signed \cup {c}
  /\ Await(c, "set")
  /\ UNCHANGED store

\* await db.HashGetAsync, what AddItem makes of the answer, and
\* await db.HashSetAsync.  Only a new cart gets a UserId.
AddItem(c) ==
  /\ MayStart(c)
  /\ local' = [local EXCEPT ![c] = items[Of[c]] \cup {c}]
  /\ signed' = IF Of[c] \notin keys \/ Of[c] \in named THEN signed \cup {c} ELSE signed
  /\ Await(c, "set")
  /\ UNCHANGED store

\* await db.HashSetAsync(userId, _emptyCartBytes), which has no UserId.
EmptyCart(c) ==
  /\ MayStart(c)
  /\ Await(c, "set")
  /\ UNCHANGED <<store, local, signed>>

\* await db.HashGetAsync, and the answer.
GetCart(c) ==
  /\ MayStart(c)
  /\ local' = [local EXCEPT ![c] = items[Of[c]]]
  /\ signed' = IF Of[c] \in named THEN signed \cup {c} ELSE signed
  /\ pc' = [pc EXCEPT ![c] = "ok"]
  /\ UNCHANGED <<store, wire>>

\* A variant that is content with having written the cart.
SetExpiryNever(c) ==
  /\ pc[c] = "set"
  /\ <<c, "set">> \in executed
  /\ pc' = [pc EXCEPT ![c] = "ok"]
  /\ UNCHANGED <<store, local, signed, wire>>

\* HashSet has answered: await db.KeyExpireAsync.
SetExpiry(c) ==
  /\ pc[c] = "set"
  /\ <<c, "set">> \in executed
  /\ Await(c, "expire")
  /\ UNCHANGED <<store, local, signed>>

\* KeyExpire has answered: the call returns.
Return(c) ==
  /\ pc[c] = "expire"
  /\ <<c, "expire">> \in executed
  /\ pc' = [pc EXCEPT ![c] = "ok"]
  /\ UNCHANGED <<store, local, signed, wire>>

\* Any exception, of the connection or of a command: FailedPrecondition.  The
\* flag cartFailure has EmptyCart fail so before it has sent anything.
Fail(c) ==
  /\ IF pc[c] = "idle" THEN MayStart(c) ELSE pc[c] \in {"set", "expire"}
  /\ pc' = [pc EXCEPT ![c] = "failed"]
  /\ UNCHANGED <<store, local, signed, wire>>

-----------------------------------------------------------------------------
(* Valkey. *)

Executes(c, m) ==
  /\ <<c, m>> \in out
  /\ out' = out \ {<<c, m>>}
  /\ executed' = executed \cup {<<c, m>>}
  /\ UNCHANGED service

\* Additions of u that have read the cart and not written it yet.
Holding(u) == {d \in Adds : Of[d] = u /\ <<d, "set">> \in out}

HashSet(c) ==
  LET u == Of[c] IN
  /\ Executes(c, "set")
  /\ keys' = keys \cup {u}
  /\ items' = [items EXCEPT ![u] = local[c]]
  /\ named' = IF c \in signed THEN named \cup {u} ELSE named \ {u}
  /\ stale' = stale \cup (Holding(u) \ {c})
  /\ gone' = [gone EXCEPT ![u] = {}]
  /\ UNCHANGED mortal

KeyExpire(c) ==
  /\ Executes(c, "expire")
  /\ mortal' = mortal \cup ({Of[c]} \cap keys)
  /\ UNCHANGED <<keys, items, named, stale, gone>>

\* The hour is over.
Expire(u) ==
  /\ u \in mortal
  /\ keys' = keys \ {u}
  /\ mortal' = mortal \ {u}
  /\ named' = named \ {u}
  /\ items' = [items EXCEPT ![u] = {}]
  /\ gone' = [gone EXCEPT ![u] = items[u]]
  /\ UNCHANGED <<stale, service, wire>>

-----------------------------------------------------------------------------
Next ==
  \/ \E c \in Adds : AddItem(c)
  \/ \E c \in Empties : EmptyCart(c)
  \/ \E c \in Gets : GetCart(c)
  \/ \E c \in Writers : SetExpiry(c) \/ Return(c) \/ HashSet(c) \/ KeyExpire(c)
  \/ \E c \in Calls : Fail(c)
  \/ \E u \in Users : Expire(u)

Spec == Init /\ [][Next]_vars

-----------------------------------------------------------------------------
(* Properties *)

Wrote(c) == <<c, "set">> \in executed

\* An item leaves the cart of u only when EmptyCart writes it, when the key
\* expires, or when an AddItem writes that read the cart before another call
\* wrote it: overlapping additions are the only ones that are lost.
LostOnlyToStaleWrite ==
  [][\A u \in Users :
       \/ items[u] \subseteq items'[u]
       \/ u \notin keys'
       \/ \E c \in Empties \cup stale : Of[c] = u /\ Wrote(c)' /\ ~Wrote(c)]_vars

\* A key without a time to live, which would stay for ever, is one that a call
\* wrote that is still busy or that failed before it had set the expiry.
ImmortalOnlyHalfWritten ==
  \A u \in keys \ mortal :
    \E c \in Writers : /\ Of[c] = u /\ Wrote(c)
                       /\ pc[c] # "ok" /\ <<c, "expire">> \notin executed

\* CartServiceTests.cs, after two additions: "Assert.Equal(userId,
\* cart.UserId);".  The cart a user fills after having emptied it has none.
CartNamesItsUser == \A c \in Gets : local[c] # {} => c \in signed

\* The users whose calls do not overlap see a cart that changes atomically.
OfThem(S) == {c \in S : Of[c] \in OneAtATime}

Atomic == INSTANCE AtomicCart WITH
  Users   <- OneAtATime,
  Adds    <- OfThem(Adds),
  Empties <- OfThem(Empties),
  Gets    <- OfThem(Gets),
  items   <- [u \in OneAtATime |-> items[u]],
  gone    <- [u \in OneAtATime |-> gone[u]],
  effect  <- {c \in OfThem(Writers) : Wrote(c)},
  answer  <- [c \in OfThem(Calls) |-> IF pc[c] \in {"ok", "failed"} THEN pc[c] ELSE "none"],
  got     <- [c \in OfThem(Gets) |-> local[c]]

CartIsAtomic == Atomic!Spec
=============================================================================
