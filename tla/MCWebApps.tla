------------------------------- MODULE MCWebApps -------------------------------
(***************************************************************************)
(* The editor of the flags and the shop, which share no state, in one run: *)
(* a behaviour is of one of them, and the variables of the other stay as   *)
(* they are.  Each is met in two scenes.                                   *)
(*                                                                         *)
(* The editor: in "pages" both pages are open, the schemas come before     *)
(* anything else, a page saves again and gets an answer to a save when its *)
(* last calls have ended, no call is lost and no text is invalid; in       *)
(* "page" one page does as it pleases, but saves only when the schemas     *)
(* have come or not and is loaded again only for a call that is lost, the  *)
(* other stays away, no write fails half way, and there are three saves    *)
(* and edits.                                                              *)
(*                                                                         *)
(* The shop: in "tabs" there are two clients and two currencies, no call   *)
(* of a client fails and no cart lapses; in "carts" the calls, the writes  *)
(* and the carts do as they please, and the user has one client and one    *)
(* currency, and waits for the answer to each click.                       *)
(***************************************************************************)
EXTENDS FlagdUi, Storefront, FiniteSets

CONSTANTS b1, a1, f1, f2, c1, c2, u1

VARIABLE scene

\* Both flags are off at first, and a text is longer by one for each that is.
MCInitial == [f \in {f1, f2} |-> "off"]
MCLength == [c \in [{f1, f2} -> {"off", "on"}] |-> 2 + Cardinality({f \in {f1, f2} : c[f] = "off"})]

\* Two tabs of one browser.
MCUserOf == [c \in {c1, c2} |-> u1]

MCInit == Init /\ StoreInit /\ scene \in {"pages", "page", "tabs", "carts"}

\* The flags are alike: the first to be edited is the first flag.
FirstFlag ==
  edits = 0 /\ edits' = 1
    => \E e \in Pages : shown'[e].kind = "invalid" \/ shown'[e].flags[f1] # shown[e].flags[f1]

\* At most one save of each page is under way, and two reads, no call is lost,
\* and all texts are texts of a file.
Few ==
  \A e \in Pages :
    /\ save'[e][2].at = "none" /\ reads'[e][3].at = "none"
    /\ ~LoseSave(e, 1) /\ \A i \in ReadSlots : ~LoseRead(e, i)
    /\ schema'[e].left + schema'[e].had \in {0, 2}
    /\ schema[e].left > 0 => schema' # schema
    /\ ~Garble(e)

\* One page stays away; the other saves when the schemas have come or not, is loaded again
\* when it waits for a call that is lost, no write fails half way, and its saves and edits
\* are three at most.
Single ==
  /\ \E e \in Pages : reads[e] = Opened(e) /\ UNCHANGED <<reads[e], save[e], schema[e]>>
  /\ \A e \in Pages : save'[e] # save[e] => schema[e].left = 0
  /\ \A e \in Pages : Reopen(e) => broken[e]
  /\ ~cut'
  /\ saves' + edits' <= 3

\* The clients are alike, and the first is opened first; no call of a client
\* fails and no cart lapses.
Orderly ==
  /\ c1 \in open'
  /\ \A u \in Users : ~Lapse(u)
  /\ \A c \in Clients, k \in Currencies : ~FailCart(c, k)
  /\ \A i \in DOMAIN clicks : ~Fail(i) /\ ~AnswerAdd(i, FALSE) /\ ~LookUp(i, FALSE)
  /\ \A i \in executed' \ executed : clicks[i].at = "writing"

\* A user who waits for the answer to a click before the next.
Waits ==
  Len(clicks') > Len(clicks)
    => \A i \in DOMAIN clicks : clicks[i].at \in {"told", "refused"}

MCNext ==
  /\ UNCHANGED scene
  /\ \/ scene = "pages" /\ Next /\ UNCHANGED storeVars /\ FirstFlag /\ Few
     \/ scene = "page" /\ Next /\ UNCHANGED storeVars /\ FirstFlag /\ Single
     \/ scene = "tabs" /\ StoreNext /\ UNCHANGED vars /\ Orderly
     \/ scene = "carts" /\ StoreNext /\ UNCHANGED vars
          /\ UNCHANGED currency /\ open' = {c1} /\ Waits

MCSpec == MCInit /\ [][MCNext]_<<scene, vars, storeVars>>
=============================================================================
