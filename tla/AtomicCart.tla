----------------------------- MODULE AtomicCart -----------------------------
(***************************************************************************)
(* A cart as its callers would like to think of it: AddItem, EmptyCart and *)
(* GetCart take effect at one instant between the call and its answer, a   *)
(* call that fails does so wholly or not at all, and a cart lapses as a    *)
(* whole.  CartStore implements it for users whose calls do not overlap.   *)
(***************************************************************************)
CONSTANTS Users, Adds, Empties, Gets, Of

Calls == Adds \cup Empties \cup Gets

VARIABLES
  items,    \* items[u]: the AddItem calls that the cart of u reflects
  gone,     \* gone[u]: what the cart of u held when it lapsed, until it is written
  effect,   \* the calls that have taken effect
  answer,   \* answer[c]: "none", "ok" or "failed"
  got       \* got[c]: what GetCart call c was given

vars == <<items, gone, effect, answer, got>>

Init ==
  /\ items = [u \in Users |-> {}]
  /\ gone = [u \in Users |-> {}]
  /\ effect = {}
  /\ answer = [c \in Calls |-> "none"]
  /\ got = [c \in Gets |-> {}]

\* An addition that runs while the cart lapses may bring it back.
Add(c) ==
  /\ c \notin effect /\ answer[c] # "ok"
  /\ \E back \in {{}, gone[Of[c]]} :
       items' = [items EXCEPT ![Of[c]] = @ \cup back \cup {c}]
  /\ gone' = [gone EXCEPT ![Of[c]] = {}]
  /\ effect' = effect \cup {c}
  /\ UNCHANGED <<answer, got>>

Clear(c) ==
  /\ c \notin effect /\ answer[c] # "ok"
  /\ items' = [items EXCEPT ![Of[c]] = {}]
  /\ gone' = [gone EXCEPT ![Of[c]] = {}]
  /\ effect' = effect \cup {c}
  /\ UNCHANGED <<answer, got>>

Lapse(u) ==
  /\ items' = [items EXCEPT ![u] = {}]
  /\ gone' = [gone EXCEPT ![u] = items[u]]
  /\ UNCHANGED <<effect, answer, got>>

Read(c) ==
  /\ answer[c] = "none"
  /\ answer' = [answer EXCEPT ![c] = "ok"]
  /\ got' = [got EXCEPT ![c] = items[Of[c]]]
  /\ UNCHANGED <<items, gone, effect>>

Answer(c, a) ==
  /\ answer[c] = "none"
  /\ a = "ok" => c \in effect
  /\ answer' = [answer EXCEPT ![c] = a]
  /\ UNCHANGED <<items, gone, effect, got>>

Next ==
  \/ \E c \in Adds : Add(c)
  \/ \E c \in Empties : Clear(c)
  \/ \E u \in Users : Lapse(u)
  \/ \E c \in Gets : Read(c)
  \/ \E c \in Calls : \E a \in {"ok", "failed"} : Answer(c, a)

Spec == Init /\ [][Next]_vars
=============================================================================
