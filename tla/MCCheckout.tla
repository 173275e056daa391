----------------------------- MODULE MCCheckout -----------------------------
(***************************************************************************)
(* One user with two tabs, and two items, of which one is not in the       *)
(* catalogue any more.  A behaviour is of one of two scenes.  In "carts"   *)
(* the cart changes at any time, and the mails and events of the orders    *)
(* are not executed.  In "effects" they are, and the cart is filled before *)
(* the first order.                                                        *)
(***************************************************************************)
EXTENDS Checkout

CONSTANTS u1, i1, i2, r1, r2

OneBuyer == [i \in {i1, i2} |-> u1]
OneOwner == [r \in {r1, r2} |-> u1]

VARIABLE scene
MCVars == <<scene, vars>>

MCInit == Init /\ scene \in {"carts", "effects"}

CartStep ==
  \/ \E i \in Items : AddRead(i) \/ AddWrite(i) \/ AddLost(i)
  \/ \E u \in Users : Drop(u)

MCNext ==
  /\ UNCHANGED scene
  /\ \/ CartStep /\ (scene = "effects" => \A r \in Requests : pc[r] = "idle")
     \/ \E r \in Requests : PlaceOrder(r) \/ Advance(r)
     \/ \E r \in Requests, c \in Calls :
          Execute(r, c) /\ (scene = "carts" => c \notin {"email", "event"})
     \/ Crash

MCSpec == MCInit /\ [][MCNext]_MCVars /\ Fairness
=============================================================================
