-------------------------------- MODULE Session --------------------------------
(***************************************************************************)
(* Who a tab of a browser acts for.  The tabs share localStorage.  Each    *)
(* has a default session of its own, with a new user, and stores it when   *)
(* it finds none; it reads and then writes, and nothing keeps another tab  *)
(* from writing in between.  Modules of the frontend keep the user they    *)
(* read when they were loaded: the gateway, which adds items and shows the *)
(* cart, with the first page, the form that places an order with the cart  *)
(* page.                                                                   *)
(***************************************************************************)
EXTENDS Naturals

CONSTANTS Tabs, Currencies, Default

VARIABLES
  storage,   \* what localStorage holds: sessions, at most one
  tab,       \* of each tab: what it is doing, and the users its modules keep
  raced      \* whether two tabs have stored a session without seeing the other's

vars == <<storage, tab, raced>>

\* A tab's default session has a user that no other tab has.
defaultSession(t) == [userId |-> t, currencyCode |-> Default]

Closed == [at |-> "closed", read |-> {}, wants |-> Default, gateway |-> {}, detail |-> {}]

Init ==
  /\ storage = {}
  /\ tab = [t \in Tabs |-> Closed]
  /\ raced = FALSE

\* Sessions, at most one, that getSession returns when it read some.
Found(t, some) == IF some = {} THEN {defaultSession(t)} ELSE some

User(some) == {s.userId : s \in some}

\* The first page is loaded: getSession reads ...
Load(t) ==
  /\ tab[t].at = "closed"
  /\ tab' = [tab EXCEPT ![t].at = "loading", ![t].read = storage]
  /\ UNCHANGED <<storage, raced>>

\* ... and stores the default if there was nothing.
Start(t) ==
  LET some == tab[t].read IN
  /\ tab[t].at = "loading"
  /\ storage' = IF some = {} THEN Found(t, some) ELSE storage
  /\ raced' = (raced \/ (some = {} /\ storage # {}))
  /\ tab' = [tab EXCEPT ![t].at = "open", ![t].read = {}, ![t].gateway = User(Found(t, some))]

\* setSessionValue reads the session ...
SelectCurrency(t, c) ==
  /\ tab[t].at = "open"
  /\ tab' = [tab EXCEPT ![t].at = "setting", ![t].wants = c, ![t].read = storage]
  /\ UNCHANGED <<storage, raced>>

\* Variant: the other values are those of the default.
ChangedDefault(t) == {[defaultSession(t) EXCEPT !.currencyCode = tab[t].wants]}

Changed(t) == {[s EXCEPT !.currencyCode = tab[t].wants] : s \in Found(t, tab[t].read)}

\* ... and stores it with one value changed.
SetSessionValue(t) ==
  /\ tab[t].at = "setting"
  /\ storage' = Changed(t)
  /\ tab' = [tab EXCEPT ![t].at = "open", ![t].read = {}, ![t].wants = Default]
  /\ UNCHANGED raced

\* The cart page is loaded.
LoadCartPage(t) ==
  /\ tab[t].at = "open"
  /\ tab[t].detail = {}
  /\ tab' = [tab EXCEPT ![t].detail = User(Found(t, storage))]
  /\ UNCHANGED <<storage, raced>>

\* The tab is closed, or about to be loaded again.
Close(t) ==
  /\ tab[t].at # "closed"
  /\ tab' = [tab EXCEPT ![t] = Closed]
  /\ UNCHANGED <<storage, raced>>

Next ==
  \E t \in Tabs :
    \/ Load(t) \/ Start(t) \/ LoadCartPage(t) \/ Close(t)
    \/ \E c \in Currencies : SelectCurrency(t, c)
    \/ SetSessionValue(t)

-----------------------------------------------------------------------------
\* A tab orders the cart it fills: the cart page keeps the user that the gateway
\* keeps, and all tabs keep the same; unless two tabs were opened at once before there
\* was a session.
OneUserPerBrowser ==
  ~raced =>
    \A s, t \in Tabs :
      /\ tab[t].detail \in {{}, tab[t].gateway}
      /\ tab[s].gateway = {} \/ tab[t].gateway \in {{}, tab[s].gateway}
=============================================================================
