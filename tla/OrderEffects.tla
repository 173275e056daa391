---------------------------- MODULE OrderEffects ----------------------------
(***************************************************************************)
(* What the checkout service promises of an order, whatever fails on the   *)
(* way: which effects an order may have on the services around it, in      *)
(* which order, how often, and what the caller may conclude from the       *)
(* answer it gets.  Checkout implements it.                                *)
(***************************************************************************)
EXTENDS Naturals

CONSTANTS Requests   \* the PlaceOrder calls

\* The effects of an order: a charged card, a shipment, an emptied cart, a
\* confirmation mail and an event for the consumers of the order topic.
Effects == {"charge", "ship", "empty", "email", "event"}

VARIABLES
  times,    \* how often each effect of each request has taken place
  answer    \* what the caller of each request was answered

vars == <<times, answer>>

\* Nothing is shipped unpaid; nothing is cleared away or told unshipped.
Before(e) == CASE e = "charge" -> {}
               [] e = "ship"   -> {"charge"}
               [] OTHER        -> {"charge", "ship"}

Answers == {"none", "ok", "internal", "unavailable"}

\* What an answer says has taken place.
Implied(a) == CASE a = "ok"          -> {"charge", "ship"}
                [] a = "unavailable" -> {"charge"}
                [] OTHER             -> {}

Init ==
  /\ times = [r \in Requests |-> [e \in Effects |-> 0]]
  /\ answer = [r \in Requests |-> "none"]

\* An effect takes place after those it depends on, and once, but for the event:
\* consumers of the topic may see an order several times.
Perform(r, e) ==
  /\ times[r][e] = 0 \/ e = "event"
  /\ \A f \in Before(e) : times[r][f] > 0
  /\ times' = [times EXCEPT ![r][e] = @ + 1]
  /\ UNCHANGED answer

\* The caller is answered, once.
Answer(r, a) ==
  /\ answer[r] = "none"
  /\ a # "none"
  /\ \A e \in Implied(a) : times[r][e] > 0
  /\ answer' = [answer EXCEPT ![r] = a]
  /\ UNCHANGED times

Next == \E r \in Requests :
          \/ \E e \in Effects : Perform(r, e)
          \/ \E a \in Answers : Answer(r, a)

Spec == Init /\ [][Next]_vars
=============================================================================
