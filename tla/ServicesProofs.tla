----------------------------- MODULE ServicesProofs -----------------------------
(***************************************************************************)
(* The properties of Services, for any tabs, threads, orders, products and *)
(* prices, while all of its parts run.                                     *)
(***************************************************************************)
EXTENDS Services, FiniteSetTheorems, SequenceTheorems, WellFoundedInduction, TLAPS

\* A step of Services is a step of one part, or of none, for each of them.
LEMMA PartsSteps ==
  ASSUME [Next]_vars
  PROVE  /\ [Sessions!Next]_sessions /\ [Orders!Next]_orders /\ [Load!Next]_load
         /\ [Valkey!Next]_valkey /\ [Advice!Next]_advice /\ [Costing!Next]_prices
  BY DEF Next, InSessions, InOrders, InLoad, InValkey, InAdvice, InPrices, vars

\* The bounds that the parts have.
LEMMA Bounds ==
  MaxBatch \in Nat /\ ThreadCount \in Nat /\ MaxConnections \in Nat /\ Catalogue \in Nat
  BY ServicesAssumption

-----------------------------------------------------------------------------
(* The session of a browser.                                                 *)

SessionType == [userId : Tabs, currencyCode : Currencies \cup {Default}]

TabType ==
  [at : {"closed", "loading", "open", "setting"}, read : SUBSET SessionType,
   wants : Currencies \cup {Default}, gateway : SUBSET Tabs, detail : SUBSET Tabs]

SessionTypeOK == storage \subseteq SessionType /\ tab \in [Tabs -> TabType] /\ raced \in BOOLEAN

\* With some session stored, a tab that is open acts for its user, one that is not acts for
\* nobody, and whatever it has read is still right about the user.
ActsRight(x, some) ==
  /\ x.at \in {"closed", "loading"} => x.gateway = {} /\ x.detail = {}
  /\ x.at \in {"open", "setting"} =>
       some # {} /\ x.gateway = Sessions!User(some) /\ x.detail \in {{}, x.gateway}
  /\ x.at = "loading" /\ x.read # {} =>
       some # {} /\ Sessions!User(x.read) = Sessions!User(some)
  /\ x.at = "setting" => x.read # {} /\ Sessions!User(x.read) = Sessions!User(some)

\* So do all tabs, unless two have stored a session without seeing the other's.
SessionInv == ~raced => \A t \in Tabs : ActsRight(tab[t], storage)

\* A tab stays a tab when some of what it holds changes.
LEMMA TabFields ==
  ASSUME NEW x \in TabType, NEW some \in SUBSET SessionType, NEW users \in SUBSET Tabs,
         NEW c \in Currencies \cup {Default}
  PROVE  /\ [x EXCEPT !.at = "loading", !.read = some] \in TabType
         /\ [x EXCEPT !.at = "setting", !.wants = c, !.read = some] \in TabType
         /\ [x EXCEPT !.at = "open", !.read = {}, !.wants = c] \in TabType
         /\ [x EXCEPT !.at = "open", !.read = {}, !.gateway = users] \in TabType
         /\ [x EXCEPT !.detail = users] \in TabType
  BY DEF TabType

\* What one tab does leaves the others right, if it leaves the user that is stored.
LEMMA OneTabChanges ==
  ASSUME SessionTypeOK, SessionInv, NEW t \in Tabs, NEW x, tab' = [tab EXCEPT ![t] = x],
         raced => raced', ~raced' => ActsRight(x, storage'),
         ~raced' /\ storage # {} =>
           storage' # {} /\ Sessions!User(storage') = Sessions!User(storage)
  PROVE  SessionInv'
  <1> SUFFICES ASSUME ~raced', NEW u \in Tabs PROVE ActsRight(tab'[u], storage')
    BY DEF SessionInv
  <1>1. CASE u = t
    BY <1>1 DEF SessionTypeOK
  <1>2. CASE u # t
    <2>1. tab'[u] = tab[u] /\ ActsRight(tab[u], storage)
      BY <1>2 DEF SessionTypeOK, SessionInv
    <2>2. QED
      BY <2>1 DEF ActsRight
  <1>3. QED
    BY <1>1, <1>2

\* The user of a session stays when another currency is selected.
LEMMA ChangedKeepsUser ==
  ASSUME SessionTypeOK, NEW t \in Tabs, tab[t].read # {}
  PROVE  /\ Sessions!Changed(t) \subseteq SessionType /\ Sessions!Changed(t) # {}
         /\ Sessions!User(Sessions!Changed(t)) = Sessions!User(tab[t].read)
  <1> DEFINE some == tab[t].read
  <1>1. some \subseteq SessionType /\ tab[t].wants \in Currencies \cup {Default}
    BY DEF SessionTypeOK, TabType
  <1>2. Sessions!Changed(t) = {[s EXCEPT !.currencyCode = tab[t].wants] : s \in some}
    BY DEF Sessions!Changed, Sessions!Found
  <1>3. \A s \in some : LET c == [s EXCEPT !.currencyCode = tab[t].wants]
                        IN  c \in SessionType /\ c.userId = s.userId
    BY <1>1 DEF SessionType
  <1>4. Sessions!Changed(t) \subseteq SessionType /\ Sessions!Changed(t) # {}
    BY <1>2, <1>3, ZenonT(60)
  <1>5. Sessions!User(Sessions!Changed(t)) \subseteq Sessions!User(some)
    BY <1>2, <1>3 DEF Sessions!User
  <1>6. ASSUME NEW s \in some PROVE s.userId \in Sessions!User(Sessions!Changed(t))
    <2>1. [s EXCEPT !.currencyCode = tab[t].wants] \in Sessions!Changed(t)
      BY <1>2
    <2>2. QED
      BY <2>1, <1>3 DEF Sessions!User
  <1>7. Sessions!User(some) \subseteq Sessions!User(Sessions!Changed(t))
    BY <1>6 DEF Sessions!User
  <1>8. QED
    BY <1>4, <1>5, <1>7

\* Whatever the tabs of a browser do at once, what its users order is what they filled
\* their cart with, unless two tabs were opened before there was a session.
THEOREM BrowserHasOneUser == Spec => []OneUserPerBrowser
  <1>1. Init => SessionTypeOK /\ SessionInv
    <2> SUFFICES ASSUME Init PROVE SessionTypeOK /\ SessionInv
      OBVIOUS
    <2>1. /\ storage = {} /\ raced = FALSE
          /\ tab = [t \in Tabs |-> Sessions!Closed]
      BY DEF Init, Sessions!Init
    <2>2. Sessions!Closed \in TabType
      BY DEF Sessions!Closed, TabType
    <2>3. SessionTypeOK
      BY <2>1, <2>2 DEF SessionTypeOK
    <2>4. SessionInv
      BY <2>1 DEF SessionInv, ActsRight, Sessions!Closed
    <2>5. QED
      BY <2>3, <2>4
  <1>2. SessionTypeOK /\ SessionInv /\ [Next]_vars => SessionTypeOK' /\ SessionInv'
    <2> SUFFICES ASSUME SessionTypeOK, SessionInv, [Next]_vars
                 PROVE  SessionTypeOK' /\ SessionInv'
      OBVIOUS
    <2> USE DEF SessionTypeOK
    <2>0. \A u \in Tabs : tab[u] \in TabType /\ (~raced => ActsRight(tab[u], storage))
      BY DEF SessionInv
    <2>1. ASSUME NEW t \in Tabs, Sessions!Load(t) PROVE SessionTypeOK' /\ SessionInv'
      <3>1. /\ tab[t].at = "closed" /\ storage' = storage /\ raced' = raced
            /\ tab' = [tab EXCEPT ![t] = [tab[t] EXCEPT !.at = "loading", !.read = storage]]
        BY <2>1 DEF Sessions!Load
      <3>2. [tab[t] EXCEPT !.at = "loading", !.read = storage] \in TabType
        BY <2>0, TabFields
      <3>3. SessionTypeOK'
        BY <3>1, <3>2
      <3>4. SessionInv'
        BY <2>0, <3>1, OneTabChanges DEF TabType, ActsRight
      <3>5. QED
        BY <3>3, <3>4
    <2>2. ASSUME NEW t \in Tabs, Sessions!Start(t) PROVE SessionTypeOK' /\ SessionInv'
      <3> DEFINE some == tab[t].read
                 found == Sessions!Found(t, some)
      <3>1. /\ found \subseteq SessionType /\ found # {} /\ (some # {} => found = some)
        <4>1. some \subseteq SessionType
          BY <2>0 DEF TabType
        <4>2. Sessions!defaultSession(t) \in SessionType
          BY DEF Sessions!defaultSession, SessionType
        <4>3. QED
          BY <4>1, <4>2 DEF Sessions!Found
      <3>2. Sessions!User(found) \subseteq Tabs
        BY <3>1 DEF Sessions!User, SessionType
      <3>3. /\ tab[t].at = "loading"
            /\ storage' = IF some = {} THEN found ELSE storage
            /\ raced' = (raced \/ (some = {} /\ storage # {}))
            /\ tab' = [tab EXCEPT ![t] = [tab[t] EXCEPT !.at = "open", !.read = {},
                                                       !.gateway = Sessions!User(found)]]
        BY <2>2 DEF Sessions!Start
      <3>4. [tab[t] EXCEPT !.at = "open", !.read = {}, !.gateway = Sessions!User(found)]
              \in TabType
        BY <2>0, <3>2, TabFields
      <3>5. SessionTypeOK'
        <4> HIDE DEF found
        <4> QED BY <3>1, <3>3, <3>4
      <3>6. SessionInv'
        <4> DEFINE x == [tab[t] EXCEPT !.at = "open", !.read = {},
                                       !.gateway = Sessions!User(found)]
        <4>1. ASSUME ~raced'
              PROVE  /\ ~raced /\ storage' # {} /\ tab[t].detail = {}
                     /\ Sessions!User(found) = Sessions!User(storage')
                     /\ storage # {} => Sessions!User(storage) = Sessions!User(storage')
          <5>1. ~raced /\ (some = {} => storage = {})
            BY <3>3, <4>1
          <5>2. ActsRight(tab[t], storage)
            BY <2>0, <5>1
          <5> HIDE DEF found
          <5>3. QED
            BY <3>1, <3>3, <5>1, <5>2 DEF ActsRight
        <4>2. ~raced' => ActsRight(x, storage')
          <5> HIDE DEF found
          <5> QED BY <2>0, <4>1 DEF ActsRight, TabType
        <4>3. tab' = [tab EXCEPT ![t] = x]
          BY <3>3
        <4> HIDE DEF x
        <4>4. QED
          BY <3>3, <4>1, <4>2, <4>3, OneTabChanges
      <3>7. QED
        BY <3>5, <3>6
    <2>3. ASSUME NEW t \in Tabs, NEW c \in Currencies, Sessions!SelectCurrency(t, c)
          PROVE  SessionTypeOK' /\ SessionInv'
      <3>1. /\ tab[t].at = "open" /\ storage' = storage /\ raced' = raced
            /\ tab' = [tab EXCEPT ![t] = [tab[t] EXCEPT !.at = "setting", !.wants = c,
                                                       !.read = storage]]
        BY <2>3 DEF Sessions!SelectCurrency
      <3>2. [tab[t] EXCEPT !.at = "setting", !.wants = c, !.read = storage] \in TabType
        BY <2>0, TabFields
      <3>3. SessionTypeOK'
        BY <3>1, <3>2
      <3>4. SessionInv'
        BY <2>0, <3>1, OneTabChanges DEF TabType, ActsRight
      <3>5. QED
        BY <3>3, <3>4
    <2>4. ASSUME NEW t \in Tabs, Sessions!SetSessionValue(t)
          PROVE  SessionTypeOK' /\ SessionInv'
      <3>1. /\ tab[t].at = "setting" /\ raced' = raced /\ storage' = Sessions!Changed(t)
            /\ tab' = [tab EXCEPT ![t] = [tab[t] EXCEPT !.at = "open", !.read = {},
                                                       !.wants = Default]]
        BY <2>4 DEF Sessions!SetSessionValue
      <3>2. [tab[t] EXCEPT !.at = "open", !.read = {}, !.wants = Default] \in TabType
        BY <2>0, TabFields
      <3>3. Sessions!Changed(t) \subseteq SessionType
        BY DEF Sessions!Changed, Sessions!Found, Sessions!defaultSession, TabType, SessionType
      <3>4. SessionTypeOK'
        BY <3>1, <3>2, <3>3
      <3>5. SessionInv'
        <4>1. ASSUME ~raced'
              PROVE  /\ storage' # {} /\ storage # {}
                     /\ Sessions!User(storage') = Sessions!User(storage)
          BY <2>0, <3>1, <4>1, ChangedKeepsUser DEF ActsRight
        <4> DEFINE x == [tab[t] EXCEPT !.at = "open", !.read = {}, !.wants = Default]
        <4>2. ~raced' => ActsRight(x, storage')
          BY <2>0, <3>1, <4>1 DEF TabType, ActsRight
        <4>3. tab' = [tab EXCEPT ![t] = x]
          BY <3>1
        <4> HIDE DEF x
        <4>4. QED
          BY <3>1, <4>1, <4>2, <4>3, OneTabChanges
      <3>6. QED
        BY <3>4, <3>5
    <2>5. ASSUME NEW t \in Tabs, Sessions!LoadCartPage(t)
          PROVE  SessionTypeOK' /\ SessionInv'
      <3> DEFINE user == Sessions!User(Sessions!Found(t, storage))
      <3>1. /\ tab[t].at = "open" /\ storage' = storage /\ raced' = raced
            /\ tab' = [tab EXCEPT ![t] = [tab[t] EXCEPT !.detail = user]]
        BY <2>5 DEF Sessions!LoadCartPage
      <3>2. user \subseteq Tabs
        BY DEF Sessions!User, Sessions!Found, Sessions!defaultSession, SessionType
      <3>3. storage # {} => user = Sessions!User(storage)
        BY DEF Sessions!Found
      <3> HIDE DEF user
      <3>4. [tab[t] EXCEPT !.detail = user] \in TabType
        BY <2>0, <3>2, TabFields
      <3>5. SessionTypeOK'
        BY <3>1, <3>4
      <3>6. SessionInv'
        BY <2>0, <3>1, <3>3, OneTabChanges DEF TabType, ActsRight
      <3>7. QED
        BY <3>5, <3>6
    <2>6. ASSUME NEW t \in Tabs, Sessions!Close(t) PROVE SessionTypeOK' /\ SessionInv'
      <3>1. /\ storage' = storage /\ raced' = raced
            /\ tab' = [tab EXCEPT ![t] = Sessions!Closed]
        BY <2>6 DEF Sessions!Close
      <3>2. SessionTypeOK'
        BY <3>1 DEF Sessions!Closed, TabType
      <3>3. SessionInv'
        BY <3>1, OneTabChanges DEF Sessions!Closed, ActsRight
      <3>4. QED
        BY <3>2, <3>3
    <2>7. CASE UNCHANGED sessions
      BY <2>7 DEF sessions, SessionInv
    <2>8. QED
      BY <2>1, <2>2, <2>3, <2>4, <2>5, <2>6, <2>7, PartsSteps DEF Sessions!Next
  <1>3. SessionTypeOK /\ SessionInv => OneUserPerBrowser
    BY DEF OneUserPerBrowser, Sessions!OneUserPerBrowser, SessionTypeOK, TabType, SessionInv,
           ActsRight
  <1>4. QED
    BY <1>1, <1>2, <1>3, PTL DEF Spec

-----------------------------------------------------------------------------
(* The load of the ad service.                                               *)

CallType ==
  [at : {"none", "make", "take", "execute", "spawn", "mark", "stop"},
   of : SUBSET Threads, enabled : BOOLEAN]

LoadTypeOK ==
  /\ instance \subseteq Threads /\ (\A i, j \in instance : i = j)
  /\ call \in [Threads -> CallType] /\ (\A r \in Threads : \A i, j \in call[r].of : i = j)
  /\ running \in [Threads -> BOOLEAN] /\ workers \in [Threads -> Nat] /\ clash \in BOOLEAN

\* Workers of an instance that is not running are about to be told to stop, or the
\* instance is about to be marked as running.
WorkersHaveACall ==
  \A i \in Threads : ~running[i] /\ workers[i] # 0 =>
    \E r \in Threads : call[r].at \in {"mark", "stop"} /\ i \in call[r].of

\* The step that a call is at is one for its flag, and calls that overlap without a clash
\* have the same.
FlagsAgree ==
  /\ \A r \in Threads : /\ call[r].at \in {"spawn", "mark"} => call[r].enabled
                        /\ call[r].at = "stop" => ~call[r].enabled
  /\ ~clash => \A r, q \in Threads :
                 Load!InExecute(r) /\ Load!InExecute(q) => (call[r].enabled <=> call[q].enabled)

\* Without a clash, an instance has workers when it is or is about to be marked as running,
\* and is not running when its workers are about to be told to stop.
MarksAreTrue ==
  ~clash =>
    /\ \A i \in Threads : running[i] => workers[i] >= ThreadCount
    /\ \A r \in Threads : \A i \in call[r].of :
         /\ call[r].at = "mark" => workers[i] >= ThreadCount
         /\ call[r].at = "stop" => ~running[i]

LoadInv == WorkersHaveACall /\ FlagsAgree /\ MarksAreTrue

\* Steps of a thread before it is at any instance.
LEMMA LoadBegins ==
  ASSUME LoadTypeOK, LoadInv, NEW r \in Threads, NEW b \in BOOLEAN,
         Load!Look(r) \/ Load!Make(r) \/ Load!Take(r, b)
  PROVE  LoadTypeOK' /\ LoadInv'
  <1> USE DEF LoadTypeOK
  <1>1. PICK x \in CallType :
          /\ call' = [call EXCEPT ![r] = x] /\ \A i, j \in x.of : i = j
          /\ x.at \in {"make", "take", "execute"} /\ call[r].at \in {"none", "make", "take"}
          /\ clash \/ (x.at = "execute" /\ \E q \in Threads :
                         Load!InExecute(q) /\ call[q].enabled # x.enabled) => clash'
          /\ clash => clash'
    <2>1. CASE Load!Look(r) \/ Load!Make(r)
      <3>1. PICK to \in {"make", "take"} :
              /\ call' = [call EXCEPT ![r] = [call[r] EXCEPT !.at = to]]
              /\ call[r].at \in {"none", "make"} /\ clash' = clash
        BY <2>1 DEF Load!Look, Load!Make
      <3> DEFINE x == [call[r] EXCEPT !.at = to]
      <3>2. x \in CallType /\ x.at = to /\ x.of = call[r].of
        BY DEF CallType
      <3>3. /\ call' = [call EXCEPT ![r] = x] /\ \A i, j \in x.of : i = j
            /\ x.at \in {"make", "take"} /\ x.at # "execute"
        BY <3>1, <3>2
      <3> HIDE DEF x
      <3>4. QED
        BY <3>1, <3>2, <3>3
    <2>2. CASE Load!Take(r, b)
      <3> DEFINE x == [at |-> "execute", of |-> instance, enabled |-> b]
      <3>1. x \in CallType /\ call' = [call EXCEPT ![r] = x] /\ call[r].at = "take"
        BY <2>2 DEF Load!Take, CallType
      <3>2. QED
        BY <2>2, <3>1, ZenonT(60) DEF Load!Take
    <2>3. QED
      BY <2>1, <2>2
  <1>2. running' = running /\ workers' = workers
    BY DEF Load!Look, Load!Make, Load!Take
  <1>3. LoadTypeOK'
    BY <1>1, <1>2, ZenonT(60) DEF Load!Look, Load!Make, Load!Take
  <1>4. \A q \in Threads : q # r => call'[q] = call[q]
    BY <1>1
  <1>5. call'[r].at \in {"make", "take", "execute"}
    BY <1>1
  <1>6. WorkersHaveACall'
    BY <1>1, <1>2, <1>4, <1>5 DEF LoadInv, WorkersHaveACall
  <1>7. FlagsAgree'
    BY <1>1, <1>4, <1>5 DEF LoadInv, FlagsAgree, Load!InExecute, CallType
  <1>8. MarksAreTrue'
    BY <1>1, <1>2, <1>3, <1>4, <1>5 DEF LoadInv, MarksAreTrue
  <1>9. QED
    BY <1>3, <1>6, <1>7, <1>8 DEF LoadInv

\* A step of execute keeps the rest of the call.
LEMMA LoadGoesOn ==
  ASSUME LoadTypeOK, NEW r \in Threads, NEW i \in Threads, NEW from,
         NEW to \in {"none", "spawn", "mark", "stop"}, Load!On(r, i, from, to),
         running' \in [Threads -> BOOLEAN], workers' \in [Threads -> Nat]
  PROVE  /\ LoadTypeOK' /\ clash' = clash
         /\ call[r].at = from /\ call[r].of = {i} /\ call'[r].at = to
         /\ call'[r].of \in {{}, {i}}
         /\ to # "none" => call'[r].of = {i} /\ call'[r].enabled = call[r].enabled
         /\ \A q \in Threads : q # r => call'[q] = call[q]
  <1> USE DEF LoadTypeOK
  <1> DEFINE x == IF to = "none" THEN Load!NoCall ELSE [call[r] EXCEPT !.at = to]
  <1>1. /\ call[r].at = from /\ i \in call[r].of /\ call' = [call EXCEPT ![r] = x]
        /\ instance' = instance /\ clash' = clash
    BY DEF Load!On
  <1>2. x \in CallType /\ x.at = to
    <2>1. Load!NoCall \in CallType /\ Load!NoCall.at = "none"
      BY DEF CallType, Load!NoCall
    <2>2. [call[r] EXCEPT !.at = to] \in CallType /\ [call[r] EXCEPT !.at = to].at = to
      BY DEF CallType
    <2>3. QED
      BY <2>1, <2>2
  <1>3. /\ call[r].of = {i} /\ x.of \in {{}, {i}}
        /\ to # "none" => x.of = {i} /\ x.enabled = call[r].enabled
    <2>1. call[r] \in CallType /\ call[r].of = {i}
      BY <1>1
    <2>2. CASE to = "none"
      BY <2>1, <2>2 DEF Load!NoCall
    <2>3. CASE to # "none"
      <3>1. x = [call[r] EXCEPT !.at = to]
        BY <2>3
      <3>2. QED
        BY <2>1, <3>1 DEF CallType
    <2>4. QED
      BY <2>1, <2>2, <2>3
  <1> HIDE DEF x
  <1>4. call'[r] = x /\ \A q \in Threads : q # r => call'[q] = call[q]
    BY <1>1
  <1>5. call' \in [Threads -> CallType] /\ \A j, k \in x.of : j = k
    BY <1>1, <1>2, <1>3
  <1>6. LoadTypeOK'
    <2>1. \A q \in Threads : \A j, k \in call'[q].of : j = k
      BY <1>4, <1>5
    <2>2. instance' \subseteq Threads /\ (\A j, k \in instance' : j = k) /\ clash' \in BOOLEAN
      BY <1>1
    <2>3. QED
      BY <1>5, <2>1, <2>2
  <1>7. QED
    BY <1>1, <1>2, <1>3, <1>4, <1>6

\* Without a clash no call is about to mark an instance as running while another is about
\* to stop workers.
LEMMA OneFlag ==
  ASSUME FlagsAgree, ~clash, NEW r \in Threads, NEW q \in Threads, call[r].at = "mark",
         call[q].at = "stop"
  PROVE  FALSE
  <1>1. call[r].enabled /\ ~call[q].enabled
    BY DEF FlagsAgree
  <1>2. Load!InExecute(r) /\ Load!InExecute(q)
    BY DEF Load!InExecute
  <1>3. QED
    BY <1>1, <1>2 DEF FlagsAgree

\* Steps of execute.
LEMMA LoadExecutes ==
  ASSUME LoadTypeOK, LoadInv, NEW r \in Threads, NEW i \in Threads,
         \/ Load!Enabled(r, i) \/ Load!SpawnLoadWorkers(r, i) \/ Load!MarkRunning(r, i)
         \/ Load!MarkStopped(r, i) \/ Load!StopWorkers(r, i)
  PROVE  LoadTypeOK' /\ LoadInv'
  <1> USE DEF LoadTypeOK
  <1>1. CASE Load!Enabled(r, i)
    <2> DEFINE to == IF running[i] THEN "none" ELSE "spawn"
    <2>1. /\ call[r].enabled /\ Load!On(r, i, "execute", to)
          /\ running' = running /\ workers' = workers
      BY <1>1 DEF Load!Enabled
    <2>2. /\ LoadTypeOK' /\ clash' = clash
          /\ call[r].at = "execute" /\ call[r].of = {i} /\ call'[r].at \in {"none", "spawn"}
          /\ call'[r].at = "spawn" => call'[r].enabled = call[r].enabled
          /\ \A q \in Threads : q # r => call'[q] = call[q]
      BY <2>1, LoadGoesOn
    <2>3. WorkersHaveACall'
      BY <2>1, <2>2 DEF LoadInv, WorkersHaveACall
    <2>4. FlagsAgree'
      <3>1. \A q \in Threads : Load!InExecute(q)' =>
              Load!InExecute(q) /\ call'[q].enabled = call[q].enabled
        <4> HIDE DEF LoadTypeOK
        <4>1. SUFFICES ASSUME NEW q \in Threads,
                              call'[q].at \in {"execute", "spawn", "mark", "stop"}
                       PROVE  /\ call[q].at \in {"execute", "spawn", "mark", "stop"}
                              /\ call'[q].enabled = call[q].enabled
          BY DEF Load!InExecute
        <4>2. CASE q = r
          BY <2>2, <4>1, <4>2
        <4>3. QED
          BY <2>2, <4>1, <4>2
      <3>2. \A q \in Threads : /\ call'[q].at \in {"spawn", "mark"} => call'[q].enabled
                               /\ call'[q].at = "stop" => ~call'[q].enabled
        <4> HIDE DEF LoadTypeOK
        <4>1. ASSUME NEW q \in Threads
              PROVE  /\ call'[q].at \in {"spawn", "mark"} => call'[q].enabled
                     /\ call'[q].at = "stop" => ~call'[q].enabled
          <5>1. CASE q = r
            BY <2>1, <2>2, <5>1
          <5>2. CASE q # r
            BY <2>2, <5>2 DEF LoadInv, FlagsAgree
          <5>3. QED
            BY <5>1, <5>2
        <4>2. QED
          BY <4>1
      <3>3. QED
        BY <2>2, <3>1, <3>2 DEF LoadInv, FlagsAgree
    <2>5. MarksAreTrue'
      BY <2>1, <2>2 DEF LoadInv, MarksAreTrue
    <2>6. QED
      BY <2>2, <2>3, <2>4, <2>5 DEF LoadInv
  <1>2. CASE Load!SpawnLoadWorkers(r, i)
    <2>1. /\ Load!On(r, i, "spawn", "mark")
          /\ running' = running /\ workers' = [workers EXCEPT ![i] = @ + ThreadCount]
      BY <1>2 DEF Load!SpawnLoadWorkers
    <2>2. workers' \in [Threads -> Nat] /\ running' \in [Threads -> BOOLEAN]
      BY <2>1, Bounds
    <2>3. /\ LoadTypeOK' /\ clash' = clash
          /\ call[r].at = "spawn" /\ call[r].of = {i} /\ call'[r].at = "mark"
          /\ call'[r].of = {i} /\ call'[r].enabled = call[r].enabled
          /\ \A q \in Threads : q # r => call'[q] = call[q]
      BY <2>1, <2>2, LoadGoesOn
    <2>4. /\ \A j \in Threads : j # i => workers'[j] = workers[j]
          /\ \A j \in Threads : workers'[j] >= workers[j]
          /\ workers'[i] >= ThreadCount
      BY <2>1, Bounds
    <2>5. WorkersHaveACall'
      BY <2>1, <2>3, <2>4 DEF LoadInv, WorkersHaveACall
    <2>6. FlagsAgree'
      BY <2>3 DEF LoadInv, FlagsAgree, Load!InExecute
    <2>7. MarksAreTrue'
      <3>1. SUFFICES ASSUME ~clash' PROVE MarksAreTrue'
        BY DEF MarksAreTrue
      <3>2. \A j \in Threads : running'[j] => workers'[j] >= ThreadCount
        BY <2>1, <2>2, <2>3, <2>4, <3>1, Bounds DEF LoadInv, MarksAreTrue
      <3>3. \A q \in Threads : \A j \in call'[q].of :
              /\ call'[q].at = "mark" => workers'[j] >= ThreadCount
              /\ call'[q].at = "stop" => ~running'[j]
        BY <2>1, <2>2, <2>3, <2>4, <3>1, Bounds DEF LoadInv, MarksAreTrue, CallType
      <3>4. QED
        BY <3>2, <3>3 DEF MarksAreTrue
    <2>8. QED
      BY <2>3, <2>5, <2>6, <2>7 DEF LoadInv
  <1>3. CASE Load!MarkRunning(r, i)
    <2>1. /\ Load!On(r, i, "mark", "none")
          /\ workers' = workers /\ running' = [running EXCEPT ![i] = TRUE]
      BY <1>3 DEF Load!MarkRunning
    <2>2. /\ LoadTypeOK' /\ clash' = clash
          /\ call[r].at = "mark" /\ call[r].of = {i} /\ call'[r].at = "none"
          /\ \A q \in Threads : q # r => call'[q] = call[q]
      BY <2>1, LoadGoesOn
    <2>3. running'[i] /\ \A j \in Threads : j # i => running'[j] = running[j]
      BY <2>1
    <2>4. WorkersHaveACall'
      BY <2>1, <2>2, <2>3 DEF LoadInv, WorkersHaveACall
    <2>5. FlagsAgree'
      BY <2>2 DEF LoadInv, FlagsAgree, Load!InExecute
    <2>6. MarksAreTrue'
      <3>1. SUFFICES ASSUME ~clash' PROVE MarksAreTrue'
        BY DEF MarksAreTrue
      <3>2. workers[i] >= ThreadCount
        BY <2>2, <3>1 DEF LoadInv, MarksAreTrue
      <3>3. ASSUME NEW q \in Threads, call[q].at = "stop" PROVE FALSE
        BY <2>2, <3>1, <3>3, OneFlag DEF LoadInv
      <3>4. \A j \in Threads : running'[j] => workers'[j] >= ThreadCount
        BY <2>1, <2>2, <2>3, <3>1, <3>2 DEF LoadInv, MarksAreTrue
      <3>5. ASSUME NEW q \in Threads, NEW j \in call'[q].of
            PROVE  /\ call'[q].at = "mark" => workers'[j] >= ThreadCount
                   /\ call'[q].at = "stop" => ~running'[j]
        <4>1. CASE q = r
          BY <2>2, <4>1
        <4>2. CASE q # r
          <5>1. call'[q] = call[q] /\ j \in Threads
            BY <2>2, <4>2 DEF CallType
          <5>2. /\ call[q].at = "mark" => workers[j] >= ThreadCount
                /\ call[q].at = "stop" => ~running[j]
            BY <2>2, <3>1, <5>1 DEF LoadInv, MarksAreTrue
          <5> HIDE DEF LoadTypeOK
          <5>3. QED
            BY <2>1, <2>3, <3>3, <4>2, <5>1, <5>2
        <4>3. QED
          BY <4>1, <4>2
      <3>6. QED
        BY <3>4, <3>5 DEF MarksAreTrue
    <2>7. QED
      BY <2>2, <2>4, <2>5, <2>6 DEF LoadInv
  <1>4. CASE Load!MarkStopped(r, i)
    <2>1. /\ ~call[r].enabled /\ Load!On(r, i, "execute", "stop")
          /\ workers' = workers /\ running' = [running EXCEPT ![i] = FALSE]
      BY <1>4 DEF Load!MarkStopped
    <2>2. /\ LoadTypeOK' /\ clash' = clash
          /\ call[r].at = "execute" /\ call[r].of = {i} /\ call'[r].at = "stop"
          /\ call'[r].of = {i} /\ call'[r].enabled = call[r].enabled
          /\ \A q \in Threads : q # r => call'[q] = call[q]
      BY <2>1, LoadGoesOn
    <2>3. ~running'[i] /\ \A j \in Threads : j # i => running'[j] = running[j]
      BY <2>1
    <2>4. WorkersHaveACall'
      BY <2>1, <2>2, <2>3 DEF LoadInv, WorkersHaveACall
    <2>5. FlagsAgree'
      BY <2>1, <2>2 DEF LoadInv, FlagsAgree, Load!InExecute
    <2>6. MarksAreTrue'
      BY <2>1, <2>2, <2>3 DEF LoadInv, MarksAreTrue
    <2>7. QED
      BY <2>2, <2>4, <2>5, <2>6 DEF LoadInv
  <1>5. CASE Load!StopWorkers(r, i)
    <2>1. /\ Load!On(r, i, "stop", "none")
          /\ running' = running /\ workers' = [workers EXCEPT ![i] = 0]
      BY <1>5 DEF Load!StopWorkers
    <2>2. /\ LoadTypeOK' /\ clash' = clash
          /\ call[r].at = "stop" /\ call[r].of = {i} /\ call'[r].at = "none"
          /\ \A q \in Threads : q # r => call'[q] = call[q]
      BY <2>1, LoadGoesOn
    <2>3. workers'[i] = 0 /\ \A j \in Threads : j # i => workers'[j] = workers[j]
      BY <2>1
    <2>4. WorkersHaveACall'
      BY <2>1, <2>2, <2>3 DEF LoadInv, WorkersHaveACall
    <2>5. FlagsAgree'
      BY <2>2 DEF LoadInv, FlagsAgree, Load!InExecute
    <2>6. MarksAreTrue'
      <3>1. SUFFICES ASSUME ~clash' PROVE MarksAreTrue'
        BY DEF MarksAreTrue
      <3>2. ~running[i]
        BY <2>2, <3>1 DEF LoadInv, MarksAreTrue
      <3>3. ASSUME NEW q \in Threads, call[q].at = "mark" PROVE FALSE
        BY <2>2, <3>1, <3>3, OneFlag DEF LoadInv
      <3>4. \A j \in Threads : running'[j] => workers'[j] >= ThreadCount
        BY <2>1, <2>2, <2>3, <3>1, <3>2 DEF LoadInv, MarksAreTrue
      <3>5. ASSUME NEW q \in Threads, NEW j \in call'[q].of
            PROVE  /\ call'[q].at = "mark" => workers'[j] >= ThreadCount
                   /\ call'[q].at = "stop" => ~running'[j]
        <4>1. CASE q = r
          BY <2>2, <4>1
        <4>2. CASE q # r
          <5>1. call'[q] = call[q] /\ j \in Threads
            BY <2>2, <4>2 DEF CallType
          <5>2. /\ call[q].at = "mark" => workers[j] >= ThreadCount
                /\ call[q].at = "stop" => ~running[j]
            BY <2>2, <3>1, <5>1 DEF LoadInv, MarksAreTrue
          <5> HIDE DEF LoadTypeOK
          <5>3. QED
            BY <2>1, <2>3, <3>3, <4>2, <5>1, <5>2
        <4>3. QED
          BY <4>1, <4>2
      <3>6. QED
        BY <3>4, <3>5 DEF MarksAreTrue
    <2>7. QED
      BY <2>2, <2>4, <2>5, <2>6 DEF LoadInv
  <1>6. QED
    BY <1>1, <1>2, <1>3, <1>4, <1>5

\* However the calls that turn the load on and off overlap, an instance has no workers
\* when it is not running, and has them when it is, unless calls with both flags overlapped.
THEOREM LoadEndsWithFlag == Spec => []WorkersAreThoseOfRunning
  <1>1. Init => LoadTypeOK /\ LoadInv
    <2> SUFFICES ASSUME Init PROVE LoadTypeOK /\ LoadInv
      OBVIOUS
    <2>1. /\ instance = {} /\ call = [r \in Threads |-> Load!NoCall] /\ clash = FALSE
          /\ running = [r \in Threads |-> FALSE] /\ workers = [r \in Threads |-> 0]
      BY DEF Init, Load!Init
    <2>2. Load!NoCall \in CallType /\ Load!NoCall.of = {} /\ Load!NoCall.at = "none"
      BY DEF CallType, Load!NoCall
    <2>3. LoadTypeOK
      BY <2>1, <2>2 DEF LoadTypeOK
    <2>4. LoadInv
      BY <2>1, <2>2 DEF LoadInv, WorkersHaveACall, FlagsAgree, MarksAreTrue, Load!InExecute
    <2>5. QED
      BY <2>3, <2>4
  <1>2. LoadTypeOK /\ LoadInv /\ [Next]_vars => LoadTypeOK' /\ LoadInv'
    <2> SUFFICES ASSUME LoadTypeOK, LoadInv, [Next]_vars PROVE LoadTypeOK' /\ LoadInv'
      OBVIOUS
    <2>1. CASE Load!Next
      BY <2>1, LoadBegins, LoadExecutes DEF Load!Next
    <2>2. CASE UNCHANGED load
      BY <2>2 DEF load, LoadTypeOK, LoadInv, WorkersHaveACall, FlagsAgree, MarksAreTrue,
                  Load!InExecute
    <2>3. QED
      BY <2>1, <2>2, PartsSteps
  <1>3. LoadTypeOK /\ LoadInv => WorkersAreThoseOfRunning
    BY DEF WorkersAreThoseOfRunning, Load!WorkersAreThoseOfRunning, Load!InExecute, LoadTypeOK,
           LoadInv, WorkersHaveACall, MarksAreTrue
  <1>4. QED
    BY <1>1, <1>2, <1>3, PTL DEF Spec

-----------------------------------------------------------------------------
(* The connection of the cart service.                                       *)

Working == {"connecting", "testing", "watching", "opening"}

ValkeyTypeOK ==
  /\ redis \in Nat /\ redis <= MaxConnections
  /\ opened \in BOOLEAN /\ missed \in BOOLEAN
  /\ at \in [Threads -> {"out", "waiting"} \cup Working]
  /\ link \in [Valkey!Multiplexers -> BOOLEAN] /\ watched \subseteq Valkey!Multiplexers
  /\ events \in [Valkey!Multiplexers -> Seq({"failed", "restored"})]

\* The thread that has the lock is the one that makes a connection.
LockIsHeld ==
  /\ locker \subseteq Threads /\ \A s, t \in locker : s = t
  /\ \A t \in Threads : t \in locker <=> at[t] \in Working

\* A multiplexer has no link before it is made and tells nothing before it is watched, and
\* the last that it is to tell is how its link is.
EventsFollowLinks ==
  \A m \in Valkey!Multiplexers :
    /\ m > redis => ~link[m] /\ m \notin watched
    /\ m \notin watched => events[m] = <<>>
    /\ events[m] # <<>> => (events[m][Len(events[m])] = "restored" <=> link[m])

\* How far the thread that makes a connection has come with it.
ConnectionIsMade ==
  \A t \in Threads :
    /\ at[t] \in {"testing", "watching"} => redis \in Valkey!Multiplexers \ watched
    /\ at[t] = "opening" => redis \in watched
    /\ at[t] \in {"watching", "opening"} /\ ~missed => link[redis]

Good == redis # 0 /\ link[redis] /\ redis \in watched

\* The flag is down while a connection is made, and is right when it is not, as soon as
\* the multiplexer in use has nothing more to tell.
FlagIsRight ==
  ~missed =>
    /\ locker # {} => ~opened
    /\ locker = {} /\ (redis # 0 => events[redis] = <<>>) => (opened <=> Good)

ValkeyInv == ValkeyTypeOK /\ LockIsHeld /\ EventsFollowLinks /\ ConnectionIsMade /\ FlagIsRight

\* The thread that has the lock is alone.
LEMMA LockIsAlone ==
  ASSUME ValkeyInv, NEW t \in Threads, NEW from \in Working,
         NEW to \in {"out"} \cup Working, Valkey!Goes(t, from, to)
  PROVE  /\ at' \in [Threads -> {"out", "waiting"} \cup Working] /\ LockIsHeld'
         /\ at[t] = from /\ at'[t] = to
         /\ locker = {t} /\ locker' = IF to = "out" THEN {} ELSE {t}
         /\ \A s \in Threads : s # t => at[s] \notin Working /\ at'[s] = at[s]
  <1> USE DEF ValkeyInv, ValkeyTypeOK, Working
  <1>1. /\ at[t] = from /\ at' = [at EXCEPT ![t] = to]
        /\ locker' = IF to = "out" THEN {} ELSE locker
    BY DEF Valkey!Goes
  <1>2. locker = {t} /\ \A s \in Threads : s # t => at[s] \notin Working
    BY <1>1 DEF LockIsHeld
  <1>3. /\ at'[t] = to /\ locker' = IF to = "out" THEN {} ELSE {t}
        /\ \A s \in Threads : s # t => at'[s] = at[s]
    BY <1>1, <1>2
  <1>4. LockIsHeld'
    BY <1>2, <1>3 DEF LockIsHeld
  <1>5. QED
    BY <1>1, <1>2, <1>3, <1>4

\* Steps of EnsureRedisConnected without the lock.
LEMMA ValkeyWaits ==
  ASSUME ValkeyInv, NEW t \in Threads, Valkey!Ensure(t) \/ Valkey!Enter(t)
  PROVE  ValkeyInv'
  <1> USE DEF ValkeyInv, ValkeyTypeOK
  <1>1. /\ redis' = redis /\ opened' = opened /\ link' = link /\ watched' = watched
        /\ events' = events /\ missed' = missed
        /\ at[t] \notin Working /\ \A s \in Threads : s # t => at'[s] = at[s]
        /\ at'[t] \in {"out", "waiting", "connecting"}
        /\ \/ locker' = locker /\ at'[t] # "connecting"
           \/ locker = {} /\ locker' = {t} /\ ~opened /\ at'[t] = "connecting"
        /\ at' \in [Threads -> {"out", "waiting"} \cup Working]
    BY DEF Valkey!Ensure, Valkey!Enter, Working
  <1>2. LockIsHeld'
    BY <1>1 DEF LockIsHeld, Working
  <1>3. EventsFollowLinks' /\ ConnectionIsMade'
    BY <1>1 DEF EventsFollowLinks, ConnectionIsMade
  <1>4. FlagIsRight'
    BY <1>1 DEF FlagIsRight, Good
  <1>5. QED
    BY <1>1, <1>2, <1>3, <1>4

\* Steps with the lock.
LEMMA ValkeyConnects ==
  ASSUME ValkeyInv, NEW t \in Threads, NEW connects \in BOOLEAN, Valkey!Connect(t, connects)
  PROVE  ValkeyInv'
  <1> USE DEF ValkeyInv, ValkeyTypeOK, Valkey!Multiplexers
  <1>1. /\ Valkey!Goes(t, "connecting", IF connects THEN "testing" ELSE "out")
        /\ redis < MaxConnections /\ redis' = redis + 1
        /\ link' = [link EXCEPT ![redis + 1] = connects]
        /\ opened' = opened /\ watched' = watched /\ events' = events /\ missed' = missed
    BY DEF Valkey!Connect
  <1>2. /\ at' \in [Threads -> {"out", "waiting"} \cup Working] /\ LockIsHeld'
        /\ locker # {} /\ at'[t] = IF connects THEN "testing" ELSE "out"
        /\ \A s \in Threads : s # t => at'[s] \notin Working
    BY <1>1, LockIsAlone DEF Working
  <1>3. redis + 1 \in Valkey!Multiplexers /\ redis + 1 \notin watched
    BY <1>1, Bounds DEF EventsFollowLinks
  <1>4. ValkeyTypeOK'
    BY <1>1, <1>2, Bounds
  <1>5. /\ link'[redis + 1] = connects
        /\ \A m \in Valkey!Multiplexers : m # redis + 1 => link'[m] = link[m]
    BY <1>1, <1>3
  <1>6. EventsFollowLinks'
    BY <1>1, <1>3, <1>5 DEF EventsFollowLinks
  <1>7. ConnectionIsMade'
    BY <1>1, <1>2, <1>3 DEF ConnectionIsMade, Working
  <1>8. FlagIsRight'
    BY <1>1, <1>2, <1>3, <1>5 DEF FlagIsRight, Good
  <1>9. QED
    BY <1>2, <1>4, <1>6, <1>7, <1>8

LEMMA ValkeyMakes ==
  ASSUME ValkeyInv, NEW t \in Threads,
         Valkey!Test(t) \/ Valkey!Watch(t) \/ Valkey!RaiseFlag(t)
  PROVE  ValkeyInv'
  <1> USE DEF ValkeyInv, ValkeyTypeOK
  <1>1. /\ redis' = redis /\ link' = link /\ events' = events /\ missed' = missed
    BY DEF Valkey!Test, Valkey!Watch, Valkey!RaiseFlag
  <1>2. CASE Valkey!Test(t)
    <2> DEFINE to == IF link[redis] THEN "watching" ELSE "out"
    <2>1. Valkey!Goes(t, "testing", to) /\ opened' = opened /\ watched' = watched
      BY <1>2 DEF Valkey!Test
    <2>2. /\ at' \in [Threads -> {"out", "waiting"} \cup Working] /\ LockIsHeld'
          /\ at[t] = "testing" /\ at'[t] = to
          /\ locker # {} /\ (to = "watching" => locker' # {})
          /\ \A s \in Threads : s # t => at'[s] \notin Working
      BY <2>1, LockIsAlone DEF Working
    <2>3. redis \in Valkey!Multiplexers \ watched
      BY <2>2 DEF ConnectionIsMade
    <2>4. EventsFollowLinks' /\ ConnectionIsMade'
      BY <1>1, <2>1, <2>2, <2>3 DEF EventsFollowLinks, ConnectionIsMade, Working
    <2>5. FlagIsRight'
      BY <1>1, <2>1, <2>2, <2>3 DEF FlagIsRight, Good
    <2>6. QED
      BY <1>1, <2>1, <2>2, <2>4, <2>5
  <1>3. CASE Valkey!Watch(t)
    <2>1. /\ Valkey!Goes(t, "watching", "opening") /\ opened' = opened
          /\ watched' = watched \cup {redis}
      BY <1>3 DEF Valkey!Watch
    <2>2. /\ at' \in [Threads -> {"out", "waiting"} \cup Working] /\ LockIsHeld'
          /\ at[t] = "watching" /\ at'[t] = "opening" /\ locker # {} /\ locker' # {}
          /\ \A s \in Threads : s # t => at'[s] \notin Working
      BY <2>1, LockIsAlone DEF Working
    <2>3. redis \in Valkey!Multiplexers
      BY <2>2 DEF ConnectionIsMade
    <2>4. EventsFollowLinks'
      BY <1>1, <2>1, <2>3 DEF EventsFollowLinks, Valkey!Multiplexers
    <2>5. ConnectionIsMade'
      BY <1>1, <2>1, <2>2 DEF ConnectionIsMade, Working
    <2>6. FlagIsRight'
      BY <1>1, <2>1, <2>2 DEF FlagIsRight
    <2>7. QED
      BY <1>1, <2>1, <2>2, <2>3, <2>4, <2>5, <2>6
  <1>4. CASE Valkey!RaiseFlag(t)
    <2>1. Valkey!Goes(t, "opening", "out") /\ opened' = TRUE /\ watched' = watched
      BY <1>4 DEF Valkey!RaiseFlag
    <2>2. /\ at' \in [Threads -> {"out", "waiting"} \cup Working] /\ LockIsHeld'
          /\ at[t] = "opening" /\ at'[t] = "out" /\ locker' = {}
          /\ \A s \in Threads : s # t => at'[s] \notin Working
      BY <2>1, LockIsAlone DEF Working
    <2>3. redis \in watched /\ (~missed => Good)
      BY <2>2 DEF ConnectionIsMade, Good, Valkey!Multiplexers
    <2>4. EventsFollowLinks' /\ ConnectionIsMade'
      BY <1>1, <2>1, <2>2 DEF EventsFollowLinks, ConnectionIsMade, Working
    <2>5. FlagIsRight'
      BY <1>1, <2>1, <2>2, <2>3 DEF FlagIsRight, Good
    <2>6. QED
      BY <1>1, <2>1, <2>2, <2>4, <2>5
  <1>5. QED
    BY <1>2, <1>3, <1>4

\* The last of a sequence when one is put at its end, and when the first is taken.
LEMMA LastOfAppend ==
  ASSUME NEW S, NEW q \in Seq(S), NEW e \in S
  PROVE  /\ Append(q, e) \in Seq(S) /\ Append(q, e) # <<>>
         /\ Append(q, e)[Len(Append(q, e))] = e
  <1>1. /\ Append(q, e) \in Seq(S) /\ Len(Append(q, e)) = Len(q) + 1
        /\ Append(q, e)[Len(q) + 1] = e
    BY AppendProperties
  <1>2. QED
    BY <1>1, EmptySeq

LEMMA LastOfTail ==
  ASSUME NEW S, NEW q \in Seq(S), q # <<>>
  PROVE  /\ Tail(q) \in Seq(S)
         /\ Tail(q) # <<>> => Tail(q)[Len(Tail(q))] = q[Len(q)]
         /\ Tail(q) = <<>> => Head(q) = q[Len(q)]
  <1>1. /\ Tail(q) \in Seq(S) /\ Head(q) = q[1] /\ Len(q) \in Nat \ {0}
        /\ Len(Tail(q)) = Len(q) - 1
        /\ \A i \in 1 .. Len(Tail(q)) : Tail(q)[i] = q[i + 1]
    BY HeadTailProperties, EmptySeq, LenProperties
  <1>2. Tail(q) # <<>> => Len(Tail(q)) # 0
    BY <1>1, EmptySeq
  <1>3. Tail(q) # <<>> => Tail(q)[Len(Tail(q))] = q[Len(q)]
    BY <1>1, <1>2
  <1>4. Tail(q) = <<>> => Len(Tail(q)) = 0
    BY EmptySeq
  <1>5. QED
    BY <1>1, <1>3, <1>4

\* A multiplexer loses its connection or gets it back.
LEMMA ValkeyLinks ==
  ASSUME ValkeyInv, NEW m \in Valkey!Multiplexers, Valkey!Drop(m) \/ Valkey!Reconnect(m)
  PROVE  ValkeyInv'
  <1> USE DEF ValkeyInv, ValkeyTypeOK
  <1>1. /\ redis' = redis /\ opened' = opened /\ locker' = locker /\ at' = at
        /\ watched' = watched
        /\ missed => missed'
    BY DEF Valkey!Drop, Valkey!Reconnect
  <1>2. PICK event \in {"failed", "restored"} :
          /\ link' = [link EXCEPT ![m] = event = "restored"]
          /\ events' = Valkey!Told(m, event)
          /\ event = "restored" => m <= redis
          /\ event = "failed" => link[m] /\ (Valkey!InWindow(m) => missed')
    BY DEF Valkey!Drop, Valkey!Reconnect
  <1>3. /\ link' \in [Valkey!Multiplexers -> BOOLEAN] /\ (link'[m] <=> event = "restored")
        /\ \A n \in Valkey!Multiplexers : n # m => link'[n] = link[n]
    BY <1>2
  <1>4. /\ events' \in [Valkey!Multiplexers -> Seq({"failed", "restored"})]
        /\ \A n \in Valkey!Multiplexers : n # m \/ n \notin watched => events'[n] = events[n]
        /\ m \in watched => events'[m] = Append(events[m], event)
    BY <1>2 DEF Valkey!Told
  <1>5. m \in watched =>
          events'[m] # <<>> /\ (events'[m][Len(events'[m])] = "restored" <=> link'[m])
    <2>1. SUFFICES ASSUME m \in watched
                   PROVE  events'[m] # <<>> /\ events'[m][Len(events'[m])] = event
      BY <1>3
    <2>2. events[m] \in Seq({"failed", "restored"}) /\ events'[m] = Append(events[m], event)
      BY <1>4, <2>1
    <2>3. QED
      BY <2>2, LastOfAppend
  <1>6. LockIsHeld'
    BY <1>1 DEF LockIsHeld
  <1>7. EventsFollowLinks'
    <2>1. SUFFICES ASSUME NEW n \in Valkey!Multiplexers
                   PROVE  /\ n > redis => ~link'[n] /\ n \notin watched
                          /\ n \notin watched => events'[n] = <<>>
                          /\ events'[n] # <<>> =>
                               (events'[n][Len(events'[n])] = "restored" <=> link'[n])
      BY <1>1 DEF EventsFollowLinks
    <2>2. CASE n = m
      <3>1. (m > redis => event # "restored") /\ (m > redis => m \notin watched)
        BY <1>2, Bounds DEF EventsFollowLinks, Valkey!Multiplexers
      <3>2. m \notin watched => events'[m] = <<>>
        BY <1>4 DEF EventsFollowLinks
      <3>3. QED
        BY <1>3, <1>5, <2>2, <3>1, <3>2
    <2>3. CASE n # m
      BY <1>3, <1>4, <2>3 DEF EventsFollowLinks
    <2>4. QED
      BY <2>2, <2>3
  <1>8. ConnectionIsMade'
    BY <1>1, <1>2, <1>3 DEF ConnectionIsMade, Valkey!InWindow
  <1>9. FlagIsRight'
    <2>1. CASE m = redis /\ redis \in watched
      BY <1>1, <1>5, <2>1 DEF FlagIsRight, Valkey!Multiplexers
    <2>2. CASE m # redis \/ redis \notin watched
      <3>1. Good' <=> Good
        BY <1>1, <1>3, <2>2 DEF Good
      <3>2. redis # 0 => events'[redis] = events[redis]
        BY <1>4, <2>2 DEF Valkey!Multiplexers
      <3>3. QED
        BY <1>1, <3>1, <3>2 DEF FlagIsRight
    <2>3. QED
      BY <2>1, <2>2
  <1>10. missed' \in BOOLEAN
    BY DEF Valkey!Drop, Valkey!Reconnect
  <1>11. QED
    BY <1>1, <1>3, <1>4, <1>6, <1>7, <1>8, <1>9, <1>10

\* A multiplexer tells what has become of its link.
LEMMA ValkeyTells ==
  ASSUME ValkeyInv, NEW m \in Valkey!Multiplexers, Valkey!Handle(m)
  PROVE  ValkeyInv'
  <1> USE DEF ValkeyInv, ValkeyTypeOK
  <1>1. /\ redis' = redis /\ locker' = locker /\ at' = at /\ link' = link
        /\ watched' = watched /\ events[m] # <<>>
        /\ events' = [events EXCEPT ![m] = Tail(events[m])]
        /\ opened' \in BOOLEAN /\ (opened' <=> Head(events[m]) = "restored")
        /\ missed' \in BOOLEAN /\ (missed \/ m # redis \/ locker # {} => missed')
    BY DEF Valkey!Handle, Valkey!FlagAfter
  <1> DEFINE q == events[m]
  <1>2. /\ q \in Seq({"failed", "restored"}) /\ q # <<>>
        /\ events'[m] = Tail(q)
        /\ \A n \in Valkey!Multiplexers : n # m => events'[n] = events[n]
    BY <1>1
  <1>3. /\ Tail(q) \in Seq({"failed", "restored"})
        /\ Tail(q) # <<>> => Tail(q)[Len(Tail(q))] = q[Len(q)]
        /\ Tail(q) = <<>> => Head(q) = q[Len(q)]
    <2> HIDE DEF q
    <2> QED BY <1>2, LastOfTail
  <1>4. events' \in [Valkey!Multiplexers -> Seq({"failed", "restored"})]
    BY <1>1, <1>3
  <1>5. m \in watched /\ (q[Len(q)] = "restored" <=> link[m])
    BY <1>2 DEF EventsFollowLinks
  <1> HIDE DEF q
  <1>6. LockIsHeld' /\ ConnectionIsMade'
    BY <1>1 DEF LockIsHeld, ConnectionIsMade
  <1>7. EventsFollowLinks'
    BY <1>1, <1>2, <1>3, <1>5 DEF EventsFollowLinks
  <1>8. FlagIsRight'
    <2>1. SUFFICES ASSUME ~missed', locker' = {}, redis' # 0 => events'[redis'] = <<>>
                   PROVE  opened' <=> Good'
      BY <1>1 DEF FlagIsRight
    <2>2. m = redis /\ redis # 0 /\ Tail(q) = <<>>
      <3>1. m = redis /\ redis # 0
        BY <1>1, <2>1 DEF Valkey!Multiplexers
      <3>2. QED
        BY <1>1, <1>2, <2>1, <3>1
    <2>3. opened' <=> link[m]
      BY <1>1, <1>3, <1>5, <2>2 DEF q
    <2>4. QED
      BY <1>1, <1>5, <2>2, <2>3 DEF Good
  <1>9. QED
    BY <1>1, <1>4, <1>6, <1>7, <1>8

\* Whatever the threads and the multiplexers do at once, the flag tells whether the
\* connection is good when nothing is on its way, unless a handler ran at a wrong time.
THEOREM FlagIsTrue == Spec => []FlagTellsTheTruth
  <1>1. Init => ValkeyInv
    <2> SUFFICES ASSUME Init PROVE ValkeyInv
      OBVIOUS
    <2>1. Valkey!Init
      BY DEF Init
    <2>2. ValkeyTypeOK
      <3>1. <<>> \in Seq({"failed", "restored"})
        OBVIOUS
      <3>2. events \in [Valkey!Multiplexers -> Seq({"failed", "restored"})]
        BY <2>1, <3>1 DEF Valkey!Init
      <3>3. /\ at \in [Threads -> {"out", "waiting"} \cup Working]
            /\ link \in [Valkey!Multiplexers -> BOOLEAN]
        BY <2>1 DEF Valkey!Init
      <3>4. redis = 0 /\ opened = FALSE /\ missed = FALSE /\ watched = {}
        BY <2>1 DEF Valkey!Init
      <3>5. redis \in Nat /\ redis <= MaxConnections
        BY <3>4, Bounds
      <3>6. QED
        BY <3>2, <3>3, <3>4, <3>5 DEF ValkeyTypeOK
    <2>3. LockIsHeld /\ EventsFollowLinks /\ ConnectionIsMade /\ FlagIsRight
      BY <2>1 DEF Valkey!Init, LockIsHeld, Working, EventsFollowLinks, ConnectionIsMade,
                  FlagIsRight, Good
    <2>4. QED
      BY <2>2, <2>3 DEF ValkeyInv
  <1>2. ValkeyInv /\ [Next]_vars => ValkeyInv'
    <2> SUFFICES ASSUME ValkeyInv, [Next]_vars PROVE ValkeyInv'
      OBVIOUS
    <2>1. CASE Valkey!Next
      BY <2>1, ValkeyWaits, ValkeyConnects, ValkeyMakes, ValkeyLinks, ValkeyTells
      DEF Valkey!Next
    <2>2. CASE UNCHANGED valkey
      BY <2>2 DEF valkey, ValkeyInv, ValkeyTypeOK, LockIsHeld, EventsFollowLinks,
                  ConnectionIsMade, FlagIsRight, Good
    <2>3. QED
      BY <2>1, <2>2, PartsSteps
  <1>3. ValkeyInv => FlagTellsTheTruth
    BY DEF ValkeyInv, ValkeyTypeOK, FlagIsRight, Good, FlagTellsTheTruth,
           Valkey!FlagTellsTheTruth, Valkey!Multiplexers
  <1>4. QED
    BY <1>1, <1>2, <1>3, PTL DEF Spec

-----------------------------------------------------------------------------
(* The consumers of the topic of orders.                                     *)

Kinds == {"order", "garbled"}

OrdersTypeOK ==
  /\ group \in {"accounting", "fraud-detection"} /\ up \in BOOLEAN
  /\ topic \in Seq(Kinds) /\ committed \in Nat \cup {-1}
  /\ position \in Nat /\ pending \in Nat /\ crashes \in Nat /\ first \in Nat \cup {-1}

\* Nothing is pending in a service that is down. What is committed has been fetched, and in
\* fraud detection it has been handled.
Positions ==
  /\ pending <= position /\ position <= Len(topic) /\ committed <= position
  /\ ~up => pending = 0
  /\ group = "accounting" => pending <= 1
  /\ group = "fraud-detection" => pending <= MaxBatch /\ (up => committed <= position - pending)

\* A group has begun when it runs or has committed.  Once begun it stops without an offset
\* only by a crash, and only then passes over anything.
Beginnings ==
  /\ up \/ committed # -1 => first # -1
  /\ ~up /\ first # -1 /\ committed = -1 => crashes > 0
  /\ passed # {} => crashes > 0

OrdersInv == OrdersTypeOK /\ Positions /\ Beginnings /\ OrdersLostHaveCause

LEMMA SameCardinality ==
  \A S : Orders!Cardinality(S) = Cardinality(S) /\ Costing!Cardinality(S) = Cardinality(S)
  BY DEF Orders!Cardinality, Costing!Cardinality, Cardinality

\* No cause goes away when no order gets lost.
LEMMA NothingLost ==
  ASSUME OrdersInv, group' = group, crashes' \in Nat, crashes <= crashes',
         Orders!Offsets \subseteq Orders!Offsets',
         \A b \in Orders!Offsets : Orders!Kind(b)' = Orders!Kind(b),
         group = "accounting" => Orders!Lost' \subseteq Orders!Lost,
         passed' # {} => crashes' > 0,
         group # "accounting" =>
           Orders!Lost' \ Orders!PassedOver' \subseteq Orders!Lost \ Orders!PassedOver
  PROVE  OrdersLostHaveCause'
  <1> USE DEF OrdersInv, OrdersTypeOK, OrdersLostHaveCause, Orders!OrdersLostHaveCause
  <1>1. CASE group = "accounting"
    <2>1. IsFiniteSet(Orders!Lost)
      <3>1. IsFiniteSet(Orders!Offsets)
        BY FS_Interval DEF Orders!Offsets
      <3>2. QED
        BY <3>1, FS_Subset DEF Orders!Lost
    <2>2. /\ Cardinality(Orders!Lost') <= Cardinality(Orders!Lost)
          /\ Cardinality(Orders!Lost') \in Nat /\ Cardinality(Orders!Lost) \in Nat
      BY <1>1, <2>1, FS_Subset, FS_CardinalityType
    <2>3. Cardinality(Orders!Lost) <= crashes
      BY <1>1, SameCardinality
    <2>4. Cardinality(Orders!Lost') <= crashes'
      BY <2>2, <2>3
    <2>5. Orders!Cardinality(Orders!Lost') <= crashes'
      BY <2>4, SameCardinality
    <2>6. QED
      BY <1>1, <2>5
  <1>2. CASE group # "accounting"
    <2>1. ASSUME NEW r \in Orders!Lost' \ Orders!PassedOver'
          PROVE  \E b \in Orders!Offsets' :
                   b < r /\ r < b + MaxBatch /\ Orders!Kind(b)' = "garbled"
      <3>1. PICK b \in Orders!Offsets : b < r /\ r < b + MaxBatch /\ Orders!Kind(b) = "garbled"
        BY <1>2
      <3>2. b \in Orders!Offsets' /\ Orders!Kind(b)' = "garbled"
        BY <3>1
      <3>3. QED
        BY <3>1, <3>2
    <2>2. QED
      BY <1>2, <2>1
  <1>3. QED
    BY <1>1, <1>2

\* What a group passed over is what it did, unless it starts.
LEMMA SamePassedOver ==
  ASSUME first' = first, passed' = passed
  PROVE  Orders!PassedOver' = Orders!PassedOver
  BY DEF Orders!PassedOver

\* What is on the topic stays there.
LEMMA Produced ==
  ASSUME OrdersTypeOK, NEW kind \in Kinds, Orders!Produce(kind)
  PROVE  /\ topic' \in Seq(Kinds) /\ Len(topic') = Len(topic) + 1
         /\ Orders!Offsets \subseteq Orders!Offsets'
         /\ \A b \in Orders!Offsets : Orders!Kind(b)' = Orders!Kind(b)
  <1> USE DEF OrdersTypeOK
  <1>1. topic \in Seq(Kinds) /\ topic' = Append(topic, kind) /\ Len(topic) \in Nat
    BY DEF Orders!Produce
  <1>2. topic' \in Seq(Kinds) /\ Len(topic') = Len(topic) + 1
    BY <1>1, AppendProperties
  <1>3. \A i \in 1 .. Len(topic) : topic'[i] = topic[i]
    BY <1>1, AppendProperties
  <1>4. Orders!Offsets \subseteq Orders!Offsets'
    BY <1>1, <1>2 DEF Orders!Offsets
  <1>5. ASSUME NEW b \in Orders!Offsets PROVE Orders!Kind(b)' = Orders!Kind(b)
    BY <1>1, <1>3 DEF Orders!Offsets, Orders!Kind
  <1>6. QED
    BY <1>2, <1>4, <1>5

\* Steps that handle no record and lose none, because the service goes on from where it is.
LEMMA OrdersFlow ==
  ASSUME OrdersInv,
         \/ \E kind \in Kinds : Orders!Produce(kind)
         \/ Orders!Consume \/ Orders!CommitByTimer
         \/ \E n \in 0..MaxBatch, commits \in BOOLEAN : Orders!Poll(n, commits)
  PROVE  OrdersInv'
  <1> USE DEF OrdersInv
  <1>1. CASE \E kind \in Kinds : Orders!Produce(kind)
    <2> PICK kind \in Kinds : Orders!Produce(kind)
      BY <1>1
    <2>1. /\ topic' \in Seq(Kinds) /\ Len(topic') = Len(topic) + 1
          /\ Orders!Offsets \subseteq Orders!Offsets'
          /\ \A b \in Orders!Offsets : Orders!Kind(b)' = Orders!Kind(b)
      BY Produced
    <2>2. /\ group' = group /\ committed' = committed /\ position' = position
          /\ pending' = pending /\ up' = up /\ handled' = handled /\ crashes' = crashes
          /\ first' = first /\ passed' = passed
      BY DEF Orders!Produce, Orders!history
    <2>3. OrdersTypeOK'
      BY <2>1, <2>2 DEF OrdersTypeOK
    <2>4. Len(topic) \in Nat
      BY DEF OrdersTypeOK
    <2>5. Positions' /\ Beginnings'
      BY <2>1, <2>2, <2>4 DEF Positions, Beginnings, OrdersTypeOK
    <2>6. Orders!Lost' \subseteq Orders!Lost
      <3>1. SUFFICES ASSUME NEW r \in Orders!Lost' PROVE r \in Orders!Lost
        OBVIOUS
      <3>2. /\ r \in Orders!Offsets' /\ r < Orders!Reached /\ Orders!Kind(r)' = "order"
            /\ r \notin handled
        BY <2>2 DEF Orders!Lost, Orders!Reached, Orders!Current
      <3>3. r \in Orders!Offsets
        BY <2>4, <3>2 DEF Orders!Offsets, Orders!Reached, Orders!Current, Positions, OrdersTypeOK
      <3>4. QED
        BY <2>1, <3>2, <3>3 DEF Orders!Lost
    <2>7. OrdersLostHaveCause'
      BY <2>1, <2>2, <2>5, <2>6, NothingLost, SamePassedOver DEF OrdersTypeOK, Beginnings
    <2>8. QED
      BY <2>3, <2>5, <2>7
  <1>2. CASE \/ Orders!Consume \/ Orders!CommitByTimer
             \/ \E n \in 0..MaxBatch, commits \in BOOLEAN : Orders!Poll(n, commits)
    <2>1. /\ group' = group /\ topic' = topic /\ up' = up /\ handled' = handled
          /\ crashes' = crashes /\ first' = first /\ passed' = passed /\ up
      BY <1>2 DEF Orders!Consume, Orders!CommitByTimer, Orders!Poll, Orders!history
    <2>2. OrdersTypeOK' /\ Positions' /\ Orders!Current' = Orders!Current /\ Beginnings'
      <3>1. Len(topic) \in Nat /\ Len(topic') = Len(topic)
        BY <2>1 DEF OrdersTypeOK
      <3>2. CASE Orders!Consume
        BY <2>1, <3>1, <3>2 DEF Orders!Consume, OrdersTypeOK, Positions, Beginnings, Orders!Current
      <3>3. CASE Orders!CommitByTimer
        BY <2>1, <3>1, <3>3 DEF Orders!CommitByTimer, OrdersTypeOK, Positions, Beginnings, Orders!Current
      <3>4. CASE \E n \in 0..MaxBatch, commits \in BOOLEAN : Orders!Poll(n, commits)
        BY <2>1, <3>1, <3>4, Bounds
        DEF Orders!Poll, Orders!PolledOffset, OrdersTypeOK, Positions, Beginnings, Orders!Current
      <3>5. QED
        BY <1>2, <3>2, <3>3, <3>4
    <2>3. Orders!Lost' = Orders!Lost
      BY <2>1, <2>2 DEF Orders!Lost, Orders!Reached, Orders!Offsets, Orders!Kind
    <2>4. OrdersLostHaveCause'
      BY <2>1, <2>2, <2>3, NothingLost, SamePassedOver
      DEF Orders!Offsets, Orders!Kind, OrdersTypeOK, Beginnings
    <2>5. QED
      BY <2>2, <2>4
  <1>3. QED
    BY <1>1, <1>2

\* A service starts where its group has come, or where its client begins to read.
LEMMA OrdersStart ==
  ASSUME OrdersInv, Orders!Start
  PROVE  OrdersInv'
  <1> USE DEF OrdersInv
  <1>1. /\ group' = group /\ topic' = topic /\ committed' = committed /\ pending' = pending
        /\ handled' = handled /\ crashes' = crashes /\ ~up /\ up' = TRUE
        /\ position' = IF committed = -1 THEN Orders!Reset ELSE committed
        /\ first' = IF first = -1 THEN Orders!Reset ELSE first
        /\ passed' = IF first # -1 /\ committed = -1 THEN first .. Orders!Reset - 1 ELSE passed
    BY DEF Orders!Start
  <1>2. pending = 0 /\ Len(topic) \in Nat /\ Orders!Reset \in Nat /\ Orders!Reset <= Len(topic)
    BY <1>1 DEF OrdersTypeOK, Positions, Orders!Reset
  <1>3. OrdersTypeOK' /\ Positions'
    <2>1. position' \in Nat /\ committed <= position' /\ position' <= Len(topic)
      BY <1>1, <1>2 DEF OrdersTypeOK, Positions
    <2>2. QED
      BY <1>1, <1>2, <2>1, Bounds DEF OrdersTypeOK, Positions
  <1>4. Orders!Reached' = position' /\ Orders!Reached = committed
    BY <1>1, <1>2, <1>3 DEF Orders!Reached, Orders!Current, OrdersTypeOK
  <1>5. group = "accounting" => Orders!Lost' \subseteq Orders!Lost
    BY <1>1, <1>4 DEF Orders!Lost, Orders!Offsets, Orders!Kind, Orders!Reset
  <1>6. Orders!Lost' \ Orders!PassedOver' \subseteq Orders!Lost \ Orders!PassedOver
    <2>1. CASE committed = -1
      <3>1. SUFFICES ASSUME NEW r \in Orders!Lost' PROVE r \in Orders!PassedOver'
        OBVIOUS
      <3>2. r \in Nat /\ r < Orders!Reset
        BY <1>1, <1>4, <2>1 DEF Orders!Lost, Orders!Offsets
      <3>3. first \in Nat \cup {-1}
        BY DEF OrdersTypeOK
      <3>4. r \in 0 .. first' - 1 \/ r \in passed'
        BY <1>1, <1>2, <2>1, <3>2, <3>3
      <3>5. QED
        BY <3>4 DEF Orders!PassedOver
    <2>2. CASE committed # -1
      <3>1. first' = first /\ passed' = passed
        BY <1>1, <2>2 DEF Beginnings
      <3>2. Orders!Lost' = Orders!Lost
        BY <1>1, <1>4, <2>2 DEF Orders!Lost, Orders!Offsets, Orders!Kind
      <3>3. QED
        BY <3>1, <3>2, SamePassedOver
    <2>3. QED
      BY <2>1, <2>2
  <1>7. Beginnings'
    <2>1. first' # -1
      BY <1>1, <1>2
    <2>2. passed' # {} => crashes' > 0
      BY <1>1 DEF Beginnings
    <2>3. QED
      BY <1>1, <2>1, <2>2 DEF Beginnings
  <1>8. OrdersLostHaveCause'
    BY <1>1, <1>5, <1>6, <1>7, NothingLost
    DEF Orders!Offsets, Orders!Kind, OrdersTypeOK, Beginnings
  <1>9. QED
    BY <1>3, <1>7, <1>8

\* A crash of accounting loses the record it has, at most, and one of fraud detection none.
LEMMA OrdersCrash ==
  ASSUME OrdersInv, Orders!Crash
  PROVE  OrdersInv'
  <1> USE DEF OrdersInv
  <1>1. /\ group' = group /\ topic' = topic /\ committed' = committed /\ position' = position
        /\ handled' = handled /\ crashes' = crashes + 1 /\ up /\ up' = FALSE /\ pending' = 0
        /\ first' = first /\ passed' = passed
    BY DEF Orders!Crash, Orders!history
  <1>2. OrdersTypeOK' /\ Positions' /\ Beginnings'
    <2>1. crashes' \in Nat /\ crashes' > 0
      BY <1>1 DEF OrdersTypeOK
    <2>2. OrdersTypeOK'
      BY <1>1, <2>1 DEF OrdersTypeOK
    <2>3. Positions'
      BY <1>1, Bounds DEF OrdersTypeOK, Positions
    <2>4. Beginnings'
      BY <1>1, <2>1 DEF Beginnings
    <2>5. QED
      BY <2>2, <2>3, <2>4
  <1>3. Orders!Reached' = committed /\ Orders!Reached = position - pending
    BY <1>1 DEF Orders!Reached, Orders!Current
  <1>4. CASE group = "accounting"
    <2>1. Orders!Lost' \subseteq Orders!Lost \cup {Orders!Current}
      BY <1>1, <1>3, <1>4
      DEF Orders!Lost, Orders!Offsets, Orders!Kind, Orders!Current, Positions, OrdersTypeOK
    <2>2. IsFiniteSet(Orders!Lost)
      <3>1. IsFiniteSet(Orders!Offsets)
        BY FS_Interval DEF Orders!Offsets
      <3>2. QED
        BY <3>1, FS_Subset DEF Orders!Lost
    <2>3. /\ Cardinality(Orders!Lost \cup {Orders!Current}) <= Cardinality(Orders!Lost) + 1
          /\ IsFiniteSet(Orders!Lost \cup {Orders!Current})
          /\ Cardinality(Orders!Lost) \in Nat
      <3> DEFINE L == Orders!Lost
                 c == Orders!Current
      <3>1. IsFiniteSet(L)
        BY <2>2
      <3> HIDE DEF L, c
      <3>2. /\ IsFiniteSet(L \cup {c}) /\ Cardinality(L) \in Nat
            /\ Cardinality(L \cup {c}) = IF c \in L THEN Cardinality(L) ELSE Cardinality(L) + 1
        BY <3>1, FS_AddElement, FS_CardinalityType
      <3>3. QED
        BY <3>2 DEF L, c
    <2>4. /\ Cardinality(Orders!Lost') <= Cardinality(Orders!Lost \cup {Orders!Current})
          /\ Cardinality(Orders!Lost') \in Nat
          /\ Cardinality(Orders!Lost \cup {Orders!Current}) \in Nat
      BY <2>1, <2>3, FS_Subset, FS_CardinalityType
    <2>5. Cardinality(Orders!Lost) <= crashes
      BY <1>4, SameCardinality DEF OrdersLostHaveCause, Orders!OrdersLostHaveCause
    <2>6. Cardinality(Orders!Lost') <= crashes'
      BY <1>1, <2>3, <2>4, <2>5 DEF OrdersTypeOK
    <2>7. Orders!Cardinality(Orders!Lost') <= crashes'
      BY <2>6, SameCardinality
    <2>8. QED
      BY <1>1, <1>2, <1>4, <2>7 DEF OrdersLostHaveCause, Orders!OrdersLostHaveCause
  <1>5. CASE group # "accounting"
    <2>1. Orders!Lost' \subseteq Orders!Lost
      BY <1>1, <1>3, <1>5
      DEF Orders!Lost, Orders!Offsets, Orders!Kind, Positions, OrdersTypeOK
    <2>2. QED
      BY <1>1, <1>2, <1>5, <2>1, NothingLost, SamePassedOver
      DEF Orders!Offsets, Orders!Kind, OrdersTypeOK, Beginnings
  <1>6. QED
    BY <1>4, <1>5

\* An order that is handled is not lost.
LEMMA OrdersHandle ==
  ASSUME OrdersInv, Orders!ProcessMessage \/ Orders!Fold
  PROVE  OrdersInv'
  <1> USE DEF OrdersInv
  <1>1. /\ group' = group /\ topic' = topic /\ committed' = committed /\ position' = position
        /\ crashes' = crashes /\ up' = up /\ pending > 0 /\ pending' = pending - 1
        /\ first' = first /\ passed' = passed
        /\ handled \subseteq handled'
        /\ Orders!Kind(Orders!Current) = "order" => Orders!Current \in handled'
    BY DEF Orders!ProcessMessage, Orders!Fold, Orders!history, OrdersTypeOK
  <1>2. up
    BY <1>1 DEF Positions
  <1>3. OrdersTypeOK' /\ Positions' /\ Beginnings'
    BY <1>1, <1>2, Bounds DEF OrdersTypeOK, Positions, Beginnings
  <1>4. Orders!Reached' = Orders!Current + 1 /\ Orders!Reached = Orders!Current
    BY <1>1, <1>2 DEF Orders!Reached, Orders!Current, OrdersTypeOK
  <1>5. Orders!Lost' \subseteq Orders!Lost
    BY <1>1, <1>4 DEF Orders!Lost, Orders!Offsets, Orders!Kind, Orders!Current, OrdersTypeOK
  <1>6. OrdersLostHaveCause'
    BY <1>1, <1>3, <1>5, NothingLost, SamePassedOver
    DEF Orders!Offsets, Orders!Kind, OrdersTypeOK, Beginnings
  <1>7. QED
    BY <1>3, <1>6

\* A record that cannot be parsed takes what is left of its batch with it.
LEMMA OrdersFail ==
  ASSUME OrdersInv, Orders!FailParse
  PROVE  OrdersInv'
  <1> USE DEF OrdersInv
  <1>1. /\ group = "fraud-detection" /\ group' = group /\ topic' = topic /\ position' = position
        /\ handled' = handled /\ crashes' = crashes /\ first' = first /\ passed' = passed
        /\ committed' = position /\ up' = FALSE /\ pending' = 0 /\ pending > 0
        /\ Orders!Kind(Orders!Current) # "order"
    BY DEF Orders!FailParse, Orders!ClosedOffset, Orders!history
  <1>2. up /\ Len(topic) \in Nat
    BY <1>1 DEF Positions, OrdersTypeOK
  <1>3. OrdersTypeOK' /\ Positions' /\ Beginnings'
    <2>1. OrdersTypeOK'
      BY <1>1 DEF OrdersTypeOK
    <2>2. Positions'
      BY <1>1, <1>2, Bounds DEF OrdersTypeOK, Positions
    <2>3. Beginnings'
      BY <1>1, <1>2 DEF Beginnings, OrdersTypeOK
    <2>4. QED
      BY <2>1, <2>2, <2>3
  <1>4. Orders!Reached' = position /\ Orders!Reached = Orders!Current
    BY <1>1, <1>2 DEF Orders!Reached
  <1>5. Orders!Current \in Orders!Offsets /\ Orders!Kind(Orders!Current) = "garbled"
    <2>1. Orders!Current \in Orders!Offsets
      BY <1>1, <1>2 DEF Orders!Current, Orders!Offsets, Positions, OrdersTypeOK
    <2>2. Orders!Kind(Orders!Current) \in Kinds
      BY <1>2, <2>1 DEF Orders!Offsets, Orders!Kind, OrdersTypeOK
    <2>3. QED
      BY <1>1, <2>1, <2>2 DEF Kinds
  <1>6. ASSUME NEW r \in Orders!Lost' \ Orders!PassedOver'
        PROVE  \E b \in Orders!Offsets' :
                 b < r /\ r < b + MaxBatch /\ Orders!Kind(b)' = "garbled"
    <2>1. /\ r \in Orders!Offsets /\ Orders!Kind(r) = "order" /\ r < position
          /\ r \notin handled /\ r \notin Orders!PassedOver
      BY <1>1, <1>4, SamePassedOver DEF Orders!Lost, Orders!Offsets, Orders!Kind
    <2>2. CASE r < Orders!Current
      <3>1. r \in Orders!Lost \ Orders!PassedOver
        BY <1>4, <2>1, <2>2 DEF Orders!Lost
      <3>2. PICK b \in Orders!Offsets : b < r /\ r < b + MaxBatch /\ Orders!Kind(b) = "garbled"
        BY <1>1, <3>1 DEF OrdersLostHaveCause, Orders!OrdersLostHaveCause
      <3>3. QED
        BY <1>1, <3>2 DEF Orders!Offsets, Orders!Kind
    <2>3. CASE ~(r < Orders!Current)
      <3>1. Orders!Current < r
        BY <1>5, <2>1, <2>3 DEF Orders!Offsets
      <3>2. r < Orders!Current + MaxBatch
        BY <1>1, <2>1, Bounds
        DEF Orders!Offsets, Orders!Current, Positions, OrdersTypeOK
      <3>3. /\ Orders!Offsets' = Orders!Offsets
            /\ \A b \in Orders!Offsets : Orders!Kind(b)' = Orders!Kind(b)
        BY <1>1 DEF Orders!Offsets, Orders!Kind
      <3>4. QED
        BY <1>5, <3>1, <3>2, <3>3
    <2>4. QED
      BY <2>2, <2>3
  <1>7. OrdersLostHaveCause'
    BY <1>1, <1>3, <1>6 DEF OrdersLostHaveCause, Orders!OrdersLostHaveCause, Beginnings
  <1>8. QED
    BY <1>3, <1>7

\* However orders, crashes and commits follow each other, an order that a service loses is
\* one for a crash of accounting, or one that fraud detection loses to the record before it in
\* its batch that cannot be parsed, or passed over when it first began to read, or when it
\* began anew after a crash before its first commit.
THEOREM LostOrdersHaveCause == Spec => []OrdersLostHaveCause
  <1>1. Init => OrdersInv
    <2> SUFFICES ASSUME Init PROVE OrdersInv
      OBVIOUS
    <2>1. Orders!Init
      BY DEF Init
    <2>2. topic = <<>> /\ topic \in Seq(Kinds) /\ Len(topic) = 0
      BY <2>1, EmptySeq DEF Orders!Init
    <2>3. OrdersTypeOK /\ Positions /\ Beginnings
      <3>1. OrdersTypeOK
        BY <2>1, <2>2 DEF Orders!Init, OrdersTypeOK
      <3>2. Positions
        BY <2>1, <2>2, Bounds DEF Orders!Init, Positions
      <3>3. Beginnings
        BY <2>1 DEF Orders!Init, Beginnings
      <3>4. QED
        BY <3>1, <3>2, <3>3
    <2>4. Orders!Lost = {}
      BY <2>2 DEF Orders!Lost, Orders!Offsets
    <2>5. Orders!Cardinality(Orders!Lost) = 0
      BY <2>4, SameCardinality, FS_EmptySet
    <2>6. OrdersLostHaveCause
      BY <2>1, <2>3, <2>4, <2>5
      DEF OrdersLostHaveCause, Orders!OrdersLostHaveCause, OrdersTypeOK, Beginnings
    <2>7. QED
      BY <2>3, <2>6 DEF OrdersInv
  <1>2. OrdersInv /\ [Next]_vars => OrdersInv'
    <2> SUFFICES ASSUME OrdersInv, [Next]_vars PROVE OrdersInv'
      OBVIOUS
    <2>1. CASE Orders!Next
      <3>1. CASE \/ \E kind \in Kinds : Orders!Produce(kind)
                 \/ Orders!Consume \/ Orders!CommitByTimer
                 \/ \E n \in 0..MaxBatch, commits \in BOOLEAN : Orders!Poll(n, commits)
        BY <3>1, OrdersFlow
      <3>2. CASE Orders!Start \/ Orders!Crash \/ Orders!ProcessMessage \/ Orders!Fold
                 \/ Orders!FailParse
        BY <3>2, OrdersStart, OrdersCrash, OrdersHandle, OrdersFail
      <3>3. CASE Orders!Poll(0, TRUE) \/ \E n \in 1..MaxBatch, c \in BOOLEAN : Orders!Poll(n, c)
        <4>1. 0 \in 0..MaxBatch /\ TRUE \in BOOLEAN /\ 1..MaxBatch \subseteq 0..MaxBatch
          BY Bounds
        <4>2. \E n \in 0..MaxBatch, commits \in BOOLEAN : Orders!Poll(n, commits)
          BY <3>3, <4>1
        <4>3. QED
          BY <3>1, <4>2
      <3>4. QED
        BY <2>1, <3>1, <3>2, <3>3 DEF Orders!Next, Orders!Work, Kinds
    <2>2. CASE UNCHANGED orders
      <3>1. OrdersTypeOK' /\ Positions' /\ Beginnings'
        BY <2>2 DEF orders, OrdersInv, OrdersTypeOK, Positions, Beginnings
      <3>2. Orders!Lost' = Orders!Lost
        BY <2>2 DEF orders, Orders!Lost, Orders!Offsets, Orders!Reached, Orders!Current, Orders!Kind
      <3>3. OrdersLostHaveCause'
        BY <2>2, <3>1, <3>2, NothingLost, SamePassedOver
        DEF orders, Orders!Offsets, Orders!Kind, OrdersInv, OrdersTypeOK, Beginnings
      <3>4. QED
        BY <3>1, <3>3 DEF OrdersInv
    <2>3. QED
      BY <2>1, <2>2, PartsSteps
  <1>3. OrdersInv => OrdersLostHaveCause
    BY DEF OrdersInv
  <1>4. QED
    BY <1>1, <1>2, <1>3, PTL DEF Spec

-----------------------------------------------------------------------------
(* The cache of recommendations.                                             *)

\* Induction over the naturals, said of a set.
LEMMA NatInd ==
  ASSUME NEW S, 0 \in S, \A n \in Nat : n \in S => n + 1 \in S
  PROVE  \A n \in Nat : n \in S
  <1> DEFINE T == {k \in FiniteSubsetsOf(Nat) : \E n \in Nat : k = 0..n /\ n \notin S}
  <1>1. SUFFICES ASSUME NEW m \in Nat, m \notin S PROVE FALSE
    OBVIOUS
  <1>2. 0..m \in T
    BY <1>1, FS_Interval DEF FiniteSubsetsOf
  <1>3. T \subseteq FiniteSubsetsOf(Nat)
    OBVIOUS
  <1>4. PICK s \in T : \A y \in T : ~ (<<y, s>> \in StrictSubsetOrdering(Nat))
    <2> HIDE DEF T
    <2> QED BY <1>2, <1>3, WFMin, FS_StrictSubsetOrderingWellFounded
  <1>5. PICK n \in Nat : s = 0..n /\ n \notin S
    BY <1>4
  <1>6. n # 0 /\ n - 1 \in Nat /\ n - 1 \notin S
    BY <1>5
  <1>7. 0..(n - 1) \in T
    BY <1>6, FS_Interval DEF FiniteSubsetsOf
  <1>8. <<0..(n - 1), s>> \in StrictSubsetOrdering(Nat)
    BY <1>5, <1>6 DEF StrictSubsetOrdering
  <1>9. QED
    BY <1>4, <1>7, <1>8

\* h is what k quarters make of n ids, one after the other.
Grows(h, n, k) == h[0] = n /\ \A i \in 1..k : h[i] = h[i - 1] + h[i - 1] \div 4

LEMMA GrowthExists ==
  ASSUME NEW n \in Nat
  PROVE  \A k \in Nat : \E h \in [0..k -> Nat] : Grows(h, n, k)
  <1> DEFINE S == {k \in Nat : \E h \in [0..k -> Nat] : Grows(h, n, k)}
  <1>1. 0 \in S
    <2> DEFINE h == [i \in 0..0 |-> n]
    <2>1. h \in [0..0 -> Nat] /\ Grows(h, n, 0)
      BY DEF Grows
    <2>2. QED
      BY <2>1
  <1>2. ASSUME NEW k \in Nat, k \in S PROVE k + 1 \in S
    <2>1. PICK h \in [0..k -> Nat] : Grows(h, n, k)
      BY <1>2
    <2> DEFINE next == h[k] + h[k] \div 4
               h2 == [i \in 0..(k + 1) |-> IF i = k + 1 THEN next ELSE h[i]]
    <2>2. next \in Nat
      <3>1. h[k] \in Nat
        OBVIOUS
      <3>2. h[k] \div 4 \in Nat
        BY <3>1
      <3>3. QED
        BY <3>1, <3>2
    <2> HIDE DEF next
    <2>3. h2 \in [0..(k + 1) -> Nat]
      BY <2>2
    <2>4. h2[0] = n /\ (\A i \in 0..k : h2[i] = h[i]) /\ h2[k + 1] = next
      BY <2>1 DEF Grows
    <2> HIDE DEF h2
    <2>5. ASSUME NEW i \in 1..(k + 1) PROVE h2[i] = h2[i - 1] + h2[i - 1] \div 4
      <3>1. CASE i = k + 1
        BY <2>4, <3>1 DEF next
      <3>2. CASE i # k + 1
        <4>1. i \in 1..k /\ i \in 0..k /\ i - 1 \in 0..k
          BY <3>2
        <4>2. h[i] = h[i - 1] + h[i - 1] \div 4
          BY <2>1, <4>1 DEF Grows
        <4>3. QED
          BY <2>4, <4>1, <4>2
      <3>3. QED
        BY <3>1, <3>2
    <2>6. Grows(h2, n, k + 1)
      BY <2>4, <2>5 DEF Grows
    <2>7. QED
      BY <2>3, <2>6
  <1>3. QED
    <2> HIDE DEF S
    <2>1. \A k \in Nat : k \in S
      BY <1>1, <1>2, NatInd
    <2>2. QED
      BY <2>1 DEF S

\* There is one such h.
LEMMA GrowthUnique ==
  ASSUME NEW n \in Nat, NEW k \in Nat, NEW m \in Nat, NEW g, NEW h,
         Grows(g, n, k), Grows(h, n, m)
  PROVE  \A i \in Nat : i <= k /\ i <= m => g[i] = h[i]
  <1> DEFINE S == {i \in Nat : i <= k /\ i <= m => g[i] = h[i]}
  <1>1. 0 \in S
    BY DEF Grows
  <1>2. ASSUME NEW i \in Nat, i \in S PROVE i + 1 \in S
    <2>1. SUFFICES ASSUME i + 1 <= k, i + 1 <= m PROVE g[i + 1] = h[i + 1]
      OBVIOUS
    <2>2. g[i] = h[i] /\ i + 1 \in 1..k /\ i + 1 \in 1..m /\ (i + 1) - 1 = i
      BY <1>2, <2>1
    <2>3. g[i + 1] = g[i] + g[i] \div 4 /\ h[i + 1] = h[i] + h[i] \div 4
      BY <2>2 DEF Grows
    <2>4. QED
      BY <2>2, <2>3
  <1>3. QED
    <2> HIDE DEF S
    <2>1. \A i \in Nat : i \in S
      BY <1>1, <1>2, NatInd
    <2>2. QED
      BY <2>1 DEF S

LEMMA GrownIs ==
  ASSUME NEW n \in Nat, NEW k \in Nat, NEW h \in [0..k -> Nat], Grows(h, n, k)
  PROVE  Advice!Grown(n, k) = h[k]
  <1> DEFINE Rec(f) == [i \in 0..k |-> IF i = 0 THEN n ELSE f[i - 1] + f[i - 1] \div 4]
             g == CHOOSE f : f = Rec(f)
  <1>1. h = Rec(h)
    BY DEF Grows
  <1>2. g = Rec(g)
    BY <1>1
  <1> HIDE DEF g
  <1>3. Grows(g, n, k)
    BY <1>2 DEF Grows
  <1>4. g[k] = h[k]
    BY <1>3, GrowthUnique
  <1>5. Advice!Grown(n, k) = g[k]
    BY DEF Advice!Grown, g
  <1>6. QED
    BY <1>4, <1>5

\* What a quarter more makes of a list.
LEMMA GrownStep ==
  ASSUME NEW n \in Nat, NEW k \in Nat
  PROVE  /\ Advice!Grown(n, k) \in Nat /\ Advice!Grown(n, 0) = n
         /\ Advice!Grown(n, k + 1) = Advice!Grown(n, k) + Advice!Grown(n, k) \div 4
  <1>0. k + 1 \in Nat /\ 0 \in Nat
    OBVIOUS
  <1>1. PICK h \in [0..(k + 1) -> Nat] : Grows(h, n, k + 1)
    BY <1>0, GrowthExists
  <1> DEFINE g == [i \in 0..k |-> h[i]]
  <1>2. g \in [0..k -> Nat] /\ Grows(g, n, k)
    BY <1>1 DEF Grows
  <1>3. PICK f \in [0..0 -> Nat] : Grows(f, n, 0)
    BY GrowthExists
  <1>4. g[k] = h[k]
    OBVIOUS
  <1> HIDE DEF g
  <1>5. h[k + 1] = h[k] + h[k] \div 4
    BY <1>1 DEF Grows
  <1>6. /\ Advice!Grown(n, k) = g[k] /\ Advice!Grown(n, k + 1) = h[k + 1]
        /\ Advice!Grown(n, 0) = f[0] /\ f[0] = n
    <2>1. Advice!Grown(n, k) = g[k]
      BY <1>2, GrownIs
    <2>2. Advice!Grown(n, k + 1) = h[k + 1]
      BY <1>0, <1>1, GrownIs
    <2>3. Advice!Grown(n, 0) = f[0] /\ f[0] = n
      BY <1>0, <1>3, GrownIs DEF Grows
    <2>4. QED
      BY <2>1, <2>2, <2>3
  <1>7. g[k] \in Nat
    BY <1>2
  <1>8. QED
    BY <1>4, <1>5, <1>6, <1>7

\* Ids that are there before the quarters are there after them.
LEMMA GrownPlus ==
  ASSUME NEW n \in Nat, NEW c \in Nat
  PROVE  \A k \in Nat : Advice!Grown(n, k) + c <= Advice!Grown(n + c, k)
  <1> DEFINE S == {k \in Nat : Advice!Grown(n, k) + c <= Advice!Grown(n + c, k)}
  <1>0. n + c \in Nat /\ 0 \in Nat
    OBVIOUS
  <1>1. 0 \in S
    BY <1>0, GrownStep
  <1>2. ASSUME NEW k \in Nat, k \in S PROVE k + 1 \in S
    <2> DEFINE x == Advice!Grown(n, k)
               y == Advice!Grown(n + c, k)
    <2>1. x \in Nat /\ y \in Nat /\ x + c <= y
      BY <1>0, <1>2, GrownStep
    <2>2. /\ Advice!Grown(n, k + 1) = x + x \div 4
          /\ Advice!Grown(n + c, k + 1) = y + y \div 4
      BY <1>0, GrownStep
    <2> HIDE DEF x, y
    <2>3. x \div 4 <= y \div 4 /\ x \div 4 \in Nat /\ y \div 4 \in Nat
      BY <2>1
    <2>4. x + x \div 4 + c <= y + y \div 4
      BY <2>1, <2>3
    <2>5. QED
      BY <2>2, <2>4
  <1>3. QED
    <2> HIDE DEF S
    <2>1. \A k \in Nat : k \in S
      BY <1>1, <1>2, NatInd
    <2>2. QED
      BY <2>1 DEF S

\* More ids and more quarters make a longer list.
LEMMA GrownMonotone ==
  ASSUME NEW n \in Nat, NEW m \in Nat, NEW k \in Nat, NEW l \in Nat, n <= m, k <= l
  PROVE  Advice!Grown(n, k) <= Advice!Grown(m, l)
  <1>1. Advice!Grown(n, k) <= Advice!Grown(m, k)
    <2>1. m - n \in Nat /\ n + (m - n) = m
      OBVIOUS
    <2>2. Advice!Grown(n, k) + (m - n) <= Advice!Grown(m, k)
      BY <2>1, GrownPlus
    <2>3. QED
      BY <2>1, <2>2, GrownStep
  <1> DEFINE S == {i \in Nat : Advice!Grown(m, k) <= Advice!Grown(m, k + i)}
  <1>2. 0 \in S
    BY GrownStep
  <1>3. ASSUME NEW i \in Nat, i \in S PROVE i + 1 \in S
    <2> DEFINE x == Advice!Grown(m, k + i)
    <2>0. k + i \in Nat
      OBVIOUS
    <2>1. /\ x \in Nat /\ Advice!Grown(m, k) \in Nat /\ Advice!Grown(m, k) <= x
          /\ Advice!Grown(m, (k + i) + 1) = x + x \div 4
      BY <1>3, <2>0, GrownStep
    <2> HIDE DEF x
    <2>2. x \div 4 \in Nat
      BY <2>1
    <2>3. k + (i + 1) = (k + i) + 1
      OBVIOUS
    <2>4. Advice!Grown(m, k) <= Advice!Grown(m, k + (i + 1))
      BY <2>1, <2>2, <2>3
    <2>5. QED
      BY <2>4
  <1>4. l - k \in S
    <2> HIDE DEF S
    <2> QED BY <1>2, <1>3, NatInd
  <1>5. QED
    BY <1>1, <1>4, GrownStep

Places ==
  {"new", "list", "append", "again", "slice", "quarter", "store", "use", "done", "failed"}

AdviceTypeOK ==
  /\ cached_ids \in Nat /\ misses \in Nat /\ extended \in BOOLEAN
  /\ request \in [Threads -> [at : Places, read : Nat, sliced : Nat]]

\* The threads that are at some places.
ThreadsAt(places, requests) == {r \in Threads : requests[r].at \in places}

\* Where a thread that has missed goes before it appends the list, and a quarter of it.
Asking  == {"list", "append"}
Missing == {"list", "append", "again", "slice", "quarter"}

\* Where it has read what it will make the list of.
Keeping == {"append", "slice", "quarter", "store"}

\* The list, and what any thread will make one of, is one that whole catalogues and quarters
\* can make: one of each for each miss but those that are still to come to it.
ListIsGrown ==
  \E wholes, quarters \in Nat :
    /\ wholes + Cardinality(ThreadsAt(Asking, request)) <= misses
    /\ quarters + Cardinality(ThreadsAt(Missing, request)) <= misses
    /\ cached_ids <= Advice!Grown(wholes * Catalogue, quarters)
    /\ \A r \in ThreadsAt(Keeping, request) :
         request[r].read <= Advice!Grown(wholes * Catalogue, quarters)

\* Once extended the list holds a catalogue, and so does what it will be made of.
ListHasCatalogue ==
  /\ extended => Catalogue <= cached_ids
  /\ \A r \in ThreadsAt({"again", "slice", "quarter", "store"}, request) : extended
  /\ \A r \in ThreadsAt({"slice", "quarter", "store"}, request) : Catalogue <= request[r].read

AdviceInv == AdviceTypeOK /\ ListIsGrown /\ ListHasCatalogue

\* The number of threads at some places follows the one that goes on.
Follows(places, r) ==
  LET before == Cardinality(ThreadsAt(places, request))
      after  == Cardinality(ThreadsAt(places, request'))
  IN  /\ before \in Nat /\ after \in Nat
      /\ (request[r].at \in places <=> request'[r].at \in places) => after = before
      /\ request[r].at \in places /\ request'[r].at \notin places => after = before - 1
      /\ request[r].at \notin places /\ request'[r].at \in places => after = before + 1

LEMMA OneGoesOn ==
  ASSUME AdviceTypeOK, NEW r \in Threads, NEW from \in Places, NEW to \in Places, NEW read \in Nat,
         NEW sliced \in Nat, Advice!Goes(r, from, to, read, sliced)
  PROVE  /\ request' \in [Threads -> [at : Places, read : Nat, sliced : Nat]]
         /\ request[r].at = from /\ request'[r] = [at |-> to, read |-> read, sliced |-> sliced]
         /\ \A q \in Threads : q # r => request'[q] = request[q]
         /\ \A places : Follows(places, r)
  <1>1. /\ request[r].at = from /\ request' = [request EXCEPT ![r] = [at |-> to, read |-> read, sliced |-> sliced]]
        /\ request \in [Threads -> [at : Places, read : Nat, sliced : Nat]]
    BY DEF Advice!Goes, AdviceTypeOK
  <1>2. /\ request' \in [Threads -> [at : Places, read : Nat, sliced : Nat]]
        /\ request'[r] = [at |-> to, read |-> read, sliced |-> sliced]
        /\ \A q \in Threads : q # r => request'[q] = request[q]
    BY <1>1
  <1>3. ASSUME NEW places PROVE Follows(places, r)
    <2> DEFINE S == ThreadsAt(places, request)
               T == ThreadsAt(places, request')
    <2>1. /\ S \subseteq Threads /\ T \subseteq Threads /\ S \ {r} = T \ {r}
          /\ (r \in S <=> request[r].at \in places) /\ (r \in T <=> request'[r].at \in places)
      BY <1>1, <1>2 DEF ThreadsAt
    <2> HIDE DEF S, T
    <2>2. IsFiniteSet(Threads)
      BY ServicesAssumption
    <2>3. IsFiniteSet(S) /\ Cardinality(S) \in Nat /\ IsFiniteSet(T) /\ Cardinality(T) \in Nat
      BY <2>1, <2>2, FS_Subset, FS_CardinalityType
    <2>4. (r \in S <=> r \in T) => Cardinality(T) = Cardinality(S)
      <3>1. (r \in S <=> r \in T) => S = T
        BY <2>1
      <3>2. QED
        BY <3>1
    <2>5. r \in S /\ r \notin T => Cardinality(T) = Cardinality(S) - 1
      <3>1. r \in S /\ r \notin T => T = S \ {r}
        BY <2>1
      <3>2. QED
        BY <2>3, <3>1, FS_RemoveElement
    <2>6. r \notin S /\ r \in T => Cardinality(T) = Cardinality(S) + 1
      <3>1. r \notin S /\ r \in T => T = S \cup {r}
        BY <2>1
      <3>2. QED
        BY <2>3, <3>1, FS_AddElement
    <2>7. QED
      BY <2>1, <2>3, <2>4, <2>5, <2>6 DEF Follows, S, T
  <1>4. QED
    BY <1>1, <1>2, <1>3

\* The list stays grown when no thread goes past what it has to do, and the list and what is
\* read of it stay below what they were.
LEMMA ListStaysGrown ==
  ASSUME AdviceTypeOK, ListIsGrown, misses' \in Nat, cached_ids' \in Nat,
         Cardinality(ThreadsAt(Asking, request)) \in Nat,
         Cardinality(ThreadsAt(Missing, request)) \in Nat,
         Cardinality(ThreadsAt(Asking, request')) \in Nat,
         Cardinality(ThreadsAt(Missing, request')) \in Nat,
         Cardinality(ThreadsAt(Asking, request')) - misses'
           <= Cardinality(ThreadsAt(Asking, request)) - misses,
         Cardinality(ThreadsAt(Missing, request')) - misses'
           <= Cardinality(ThreadsAt(Missing, request)) - misses,
         cached_ids' = cached_ids,
         \A r \in ThreadsAt(Keeping, request') :
           \/ request'[r].read = cached_ids
           \/ r \in ThreadsAt(Keeping, request) /\ request'[r].read = request[r].read
  PROVE  ListIsGrown'
  <1>1. PICK wholes, quarters \in Nat :
          /\ wholes + Cardinality(ThreadsAt(Asking, request)) <= misses
          /\ quarters + Cardinality(ThreadsAt(Missing, request)) <= misses
          /\ cached_ids <= Advice!Grown(wholes * Catalogue, quarters)
          /\ \A r \in ThreadsAt(Keeping, request) :
               request[r].read <= Advice!Grown(wholes * Catalogue, quarters)
    BY DEF ListIsGrown
  <1>2. /\ wholes + Cardinality(ThreadsAt(Asking, request')) <= misses'
        /\ quarters + Cardinality(ThreadsAt(Missing, request')) <= misses'
    BY <1>1 DEF AdviceTypeOK
  <1>3. \A r \in ThreadsAt(Keeping, request') :
          request'[r].read <= Advice!Grown(wholes * Catalogue, quarters)
    BY <1>1
  <1>4. QED
    BY <1>1, <1>2, <1>3 DEF ListIsGrown

\* Steps of a request that leave the list.
LEMMA AdviceReads ==
  ASSUME AdviceInv, NEW r \in Threads, NEW well \in BOOLEAN,
         \/ Advice!Hit(r) \/ Advice!Miss(r) \/ Advice!ListProducts(r, well)
         \/ Advice!ReadAgain(r) \/ Advice!ReadSliced(r) \/ Advice!Use(r)
  PROVE  AdviceInv'
  <1> USE DEF AdviceInv
  <1>1. PICK from \in Places, to \in Places, read \in Nat, sliced \in Nat :
          /\ Advice!Goes(r, from, to, read, sliced)
          /\ \/ from = "new" /\ to = "done" /\ misses' = misses
             \/ from = "new" /\ to = "list" /\ misses' = misses + 1
             \/ from = "list" /\ to \in {"append", "failed"} /\ read = cached_ids
                  /\ misses' = misses
             \/ from = "again" /\ to = "slice" /\ read = cached_ids /\ misses' = misses
             \/ from = "slice" /\ to = "quarter" /\ read = request[r].read /\ misses' = misses
             \/ from = "use" /\ to = "done" /\ misses' = misses
    <2>1. cached_ids \in Nat /\ 0 \in Nat /\ request[r].read \in Nat
      BY DEF AdviceTypeOK
    <2>2. CASE Advice!Hit(r)
      <3>1. Advice!Goes(r, "new", "done", cached_ids, 0) /\ misses' = misses
        BY <2>2 DEF Advice!Hit
      <3>2. QED
        BY <2>1, <3>1 DEF Places
    <2>3. CASE Advice!Miss(r)
      <3>1. Advice!Goes(r, "new", "list", 0, 0) /\ misses' = misses + 1
        BY <2>3 DEF Advice!Miss
      <3>2. QED
        BY <2>1, <3>1 DEF Places
    <2>4. CASE Advice!ListProducts(r, well)
      <3> DEFINE to == IF well THEN "append" ELSE "failed"
      <3>1. Advice!Goes(r, "list", to, cached_ids, 0) /\ misses' = misses
        BY <2>4 DEF Advice!ListProducts
      <3>2. to \in Places /\ to \in {"append", "failed"} /\ "list" \in Places
        BY DEF Places
      <3> HIDE DEF to
      <3>3. QED
        BY <2>1, <3>1, <3>2
    <2>5. CASE Advice!ReadAgain(r)
      <3>1. Advice!Goes(r, "again", "slice", cached_ids, 0) /\ misses' = misses
        BY <2>5 DEF Advice!ReadAgain
      <3>2. QED
        BY <2>1, <3>1 DEF Places
    <2>6. CASE Advice!Use(r)
      <3>1. Advice!Goes(r, "use", "done", cached_ids, 0) /\ misses' = misses
        BY <2>6 DEF Advice!Use
      <3>2. QED
        BY <2>1, <3>1 DEF Places
    <2>7. CASE Advice!ReadSliced(r)
      <3>1. /\ Advice!Goes(r, "slice", "quarter", request[r].read, cached_ids)
            /\ misses' = misses
        BY <2>7 DEF Advice!ReadSliced
      <3>2. QED
        BY <2>1, <3>1 DEF Places
    <2>8. QED
      BY <2>2, <2>3, <2>4, <2>5, <2>6, <2>7
  <1>2. cached_ids' = cached_ids /\ extended' = extended /\ misses \in Nat /\ misses' \in Nat
    BY <1>1 DEF Advice!Hit, Advice!Miss, Advice!ListProducts, Advice!ReadAgain,
                Advice!ReadSliced, Advice!Use, AdviceTypeOK
  <1>3. /\ request' \in [Threads -> [at : Places, read : Nat, sliced : Nat]]
        /\ request[r].at = from /\ request'[r] = [at |-> to, read |-> read, sliced |-> sliced]
        /\ \A q \in Threads : q # r => request'[q] = request[q]
        /\ \A places : Follows(places, r)
    BY <1>1, OneGoesOn
  <1>4. /\ Cardinality(ThreadsAt(Asking, request)) \in Nat
        /\ Cardinality(ThreadsAt(Asking, request')) \in Nat
        /\ Cardinality(ThreadsAt(Asking, request')) - misses'
             <= Cardinality(ThreadsAt(Asking, request)) - misses
    <2>1. Follows(Asking, r) /\ request[r].at = from /\ request'[r].at = to
      BY <1>3
    <2>2. from \in Asking <=> from \in {"list", "append"}
      BY DEF Asking
    <2>3. to \in Asking <=> to \in {"list", "append"}
      BY DEF Asking
    <2>4. QED
      BY <1>1, <1>2, <2>1, <2>2, <2>3 DEF Follows
  <1>5. /\ Cardinality(ThreadsAt(Missing, request)) \in Nat
        /\ Cardinality(ThreadsAt(Missing, request')) \in Nat
        /\ Cardinality(ThreadsAt(Missing, request')) - misses'
             <= Cardinality(ThreadsAt(Missing, request)) - misses
    <2>1. Follows(Missing, r) /\ request[r].at = from /\ request'[r].at = to
      BY <1>3
    <2>2. from \in Missing <=> from \in {"list", "append", "again", "slice", "quarter"}
      BY DEF Missing
    <2>3. to \in Missing <=> to \in {"list", "append", "again", "slice", "quarter"}
      BY DEF Missing
    <2>4. QED
      BY <1>1, <1>2, <2>1, <2>2, <2>3 DEF Follows
  <1>6. AdviceTypeOK'
    BY <1>2, <1>3 DEF AdviceTypeOK
  <1>7. ASSUME NEW q \in ThreadsAt(Keeping, request')
        PROVE  \/ request'[q].read = cached_ids
               \/ /\ q \in ThreadsAt(Keeping, request)
                  /\ request'[q].read = request[q].read
    <2>1. CASE q = r
      BY <1>1, <1>3, <2>1 DEF ThreadsAt, Keeping
    <2>2. CASE q # r
      BY <1>3, <2>2 DEF ThreadsAt
    <2>3. QED
      BY <2>1, <2>2
  <1>8. ListIsGrown'
    BY <1>2, <1>4, <1>5, <1>6, <1>7, ListStaysGrown DEF AdviceTypeOK
  <1>9. ListHasCatalogue'
    <2>1. extended' => Catalogue <= cached_ids'
      BY <1>2 DEF ListHasCatalogue
    <2>2. ASSUME NEW q \in Threads,
                 request'[q].at \in {"again", "slice", "quarter", "store"}
          PROVE  extended' /\ (request'[q].at # "again" => Catalogue <= request'[q].read)
      <3>1. CASE q = r
        BY <1>1, <1>2, <1>3, <2>2, <3>1 DEF ThreadsAt, ListHasCatalogue
      <3>2. CASE q # r
        BY <1>2, <1>3, <2>2, <3>2 DEF ThreadsAt, ListHasCatalogue
      <3>3. QED
        BY <3>1, <3>2
    <2>3. QED
      BY <2>1, <2>2 DEF ThreadsAt, ListHasCatalogue
  <1>10. QED
    BY <1>6, <1>8, <1>9

\* A catalogue more, and more quarters, make a longer list.
LEMMA MoreGrown ==
  ASSUME NEW wholes \in Nat, NEW quarters \in Nat
  PROVE  LET longest == Advice!Grown(wholes * Catalogue, quarters)
         IN  /\ longest \in Nat
             /\ longest + Catalogue <= Advice!Grown((wholes + 1) * Catalogue, quarters)
             /\ Advice!Grown((wholes + 1) * Catalogue, quarters) \in Nat
             /\ longest + longest \div 4 = Advice!Grown(wholes * Catalogue, quarters + 1)
             /\ \A n \in Nat : wholes <= n /\ quarters <= n =>
                  longest <= Advice!Grown(n * Catalogue, n)
  <1> DEFINE ids == wholes * Catalogue
  <1>1. ids \in Nat /\ (wholes + 1) * Catalogue = ids + Catalogue /\ Catalogue \in Nat
    BY Bounds
  <1>2. ids + Catalogue \in Nat
    BY <1>1
  <1>3. ASSUME NEW n \in Nat, wholes <= n, quarters <= n
        PROVE  Advice!Grown(ids, quarters) <= Advice!Grown(n * Catalogue, n)
    <2>1. n - wholes \in Nat
      BY <1>3
    <2>2. (n - wholes) * Catalogue \in Nat
      BY <1>1, <2>1
    <2>3. n * Catalogue = ids + (n - wholes) * Catalogue
      BY <1>1
    <2>4. n * Catalogue \in Nat /\ ids <= n * Catalogue
      BY <1>1, <2>2, <2>3
    <2> HIDE DEF ids
    <2>5. QED
      BY <1>1, <1>3, <2>4, GrownMonotone
  <1>4. /\ Advice!Grown(ids, quarters) \in Nat
        /\ Advice!Grown(ids, quarters + 1)
             = Advice!Grown(ids, quarters) + Advice!Grown(ids, quarters) \div 4
        /\ Advice!Grown(ids + Catalogue, quarters) \in Nat
    <2> HIDE DEF ids
    <2> QED BY <1>1, <1>2, GrownStep
  <1>5. Advice!Grown(ids, quarters) + Catalogue <= Advice!Grown(ids + Catalogue, quarters)
    <2> HIDE DEF ids
    <2> QED BY <1>1, GrownPlus
  <1>6. QED
    BY <1>1, <1>3, <1>4, <1>5

LEMMA AdviceAppendsAll ==
  ASSUME AdviceInv, NEW r \in Threads, Advice!AppendAll(r)
  PROVE  AdviceInv'
  <1> USE DEF AdviceInv
  <1>1. /\ Advice!Goes(r, "append", "again", 0, 0) /\ cached_ids' = request[r].read + Catalogue
        /\ extended' = TRUE /\ misses' = misses
    BY DEF Advice!AppendAll
  <1>2. /\ request' \in [Threads -> [at : Places, read : Nat, sliced : Nat]]
        /\ request[r].at = "append" /\ request'[r] = [at |-> "again", read |-> 0, sliced |-> 0]
        /\ \A q \in Threads : q # r => request'[q] = request[q]
        /\ \A places : Follows(places, r)
    <2>1. "append" \in Places /\ "again" \in Places /\ 0 \in Nat
      BY DEF Places
    <2>2. QED
      BY <1>1, <2>1, OneGoesOn
  <1>3. request[r].read \in Nat /\ misses \in Nat /\ Catalogue \in Nat
    BY Bounds DEF AdviceTypeOK
  <1>4. AdviceTypeOK'
    BY <1>1, <1>2, <1>3 DEF AdviceTypeOK
  <1>5. ListIsGrown'
    <2>1. PICK wholes, quarters \in Nat :
            /\ wholes + Cardinality(ThreadsAt(Asking, request)) <= misses
            /\ quarters + Cardinality(ThreadsAt(Missing, request)) <= misses
            /\ cached_ids <= Advice!Grown(wholes * Catalogue, quarters)
            /\ \A q \in ThreadsAt(Keeping, request) :
                 request[q].read <= Advice!Grown(wholes * Catalogue, quarters)
      BY DEF ListIsGrown
    <2> DEFINE longest == Advice!Grown(wholes * Catalogue, quarters)
               longer  == Advice!Grown((wholes + 1) * Catalogue, quarters)
    <2>2. longest \in Nat /\ longer \in Nat /\ longest + Catalogue <= longer
      BY MoreGrown
    <2>3. \A q \in Threads : request[q].at \in Keeping => request[q].read <= longest
      BY <2>1 DEF ThreadsAt
    <2>4. (wholes + 1) + Cardinality(ThreadsAt(Asking, request')) <= misses
      <3>1. Follows(Asking, r) /\ "append" \in Asking /\ "again" \notin Asking
        BY <1>2 DEF Asking
      <3>2. Cardinality(ThreadsAt(Asking, request)) \in Nat
        BY <3>1 DEF Follows
      <3>3. Cardinality(ThreadsAt(Asking, request')) = Cardinality(ThreadsAt(Asking, request)) - 1
        BY <1>2, <3>1 DEF Follows
      <3>4. QED
        BY <1>3, <2>1, <3>2, <3>3
    <2>5. quarters + Cardinality(ThreadsAt(Missing, request')) <= misses
      <3>1. Follows(Missing, r) /\ "append" \in Missing /\ "again" \in Missing
        BY <1>2 DEF Missing
      <3>2. Cardinality(ThreadsAt(Missing, request')) = Cardinality(ThreadsAt(Missing, request))
        BY <1>2, <3>1 DEF Follows
      <3>3. QED
        BY <2>1, <3>2
    <2> HIDE DEF longest, longer
    <2>6. cached_ids' <= longer
      BY <1>1, <1>2, <1>3, <2>2, <2>3 DEF Keeping
    <2>7. ASSUME NEW q \in ThreadsAt(Keeping, request')
          PROVE  request'[q].read <= longer
      <3>1. q \in Threads /\ q # r /\ request'[q] = request[q]
        BY <1>2 DEF ThreadsAt, Keeping
      <3>2. request[q].read \in Nat /\ request[q].read <= longest
        BY <2>3, <2>7, <3>1 DEF ThreadsAt, AdviceTypeOK
      <3>3. QED
        BY <1>3, <2>2, <3>1, <3>2
    <2>8. wholes + 1 \in Nat
      OBVIOUS
    <2>9. QED
      BY <1>1, <2>4, <2>5, <2>6, <2>7, <2>8 DEF ListIsGrown, longer
  <1>6. ListHasCatalogue'
    <2>1. Catalogue <= cached_ids'
      BY <1>1, <1>3
    <2>2. ASSUME NEW q \in Threads, request'[q].at \in {"slice", "quarter", "store"}
          PROVE  Catalogue <= request'[q].read
      <3>1. q # r /\ request'[q] = request[q]
        BY <1>2, <2>2
      <3>2. QED
        BY <2>2, <3>1 DEF ThreadsAt, ListHasCatalogue
    <2>3. QED
      BY <1>1, <2>1, <2>2 DEF ThreadsAt, ListHasCatalogue
  <1>7. QED
    BY <1>4, <1>5, <1>6

\* What a thread takes is at most a quarter of what the list is.
LEMMA AdviceTakesQuarter ==
  ASSUME AdviceInv, NEW r \in Threads, Advice!TakeQuarter(r)
  PROVE  AdviceInv'
  <1> USE DEF AdviceInv
  <1> DEFINE taken == Advice!Slice(request[r].sliced, Advice!Quarter(cached_ids))
  <1>0. taken \in Nat /\ taken <= cached_ids \div 4 /\ request[r].read + taken \in Nat
    <2>1. request[r].sliced \in Nat /\ request[r].read \in Nat /\ cached_ids \div 4 \in Nat
      BY DEF AdviceTypeOK
    <2>2. QED
      BY <2>1 DEF Advice!Slice, Advice!Quarter
  <1>1. /\ Advice!Goes(r, "quarter", "store", request[r].read + taken, 0)
        /\ cached_ids' = cached_ids /\ extended' = extended /\ misses' = misses
    BY DEF Advice!TakeQuarter
  <1> HIDE DEF taken
  <1>2. /\ request' \in [Threads -> [at : Places, read : Nat, sliced : Nat]]
        /\ request[r].at = "quarter" /\ request'[r].at = "store"
        /\ request'[r].read = request[r].read + taken
        /\ \A q \in Threads : q # r => request'[q] = request[q]
        /\ \A places : Follows(places, r)
    <2> DEFINE read == request[r].read + taken
    <2>1. "quarter" \in Places /\ "store" \in Places /\ 0 \in Nat /\ read \in Nat
      BY <1>0 DEF Places
    <2>2. Advice!Goes(r, "quarter", "store", read, 0)
      BY <1>1
    <2> HIDE DEF read
    <2>3. /\ request' \in [Threads -> [at : Places, read : Nat, sliced : Nat]]
          /\ request[r].at = "quarter" /\ request'[r] = [at |-> "store", read |-> read, sliced |-> 0]
          /\ \A q \in Threads : q # r => request'[q] = request[q]
          /\ \A places : Follows(places, r)
      BY <2>1, <2>2, OneGoesOn
    <2>4. QED
      BY <2>3 DEF read
  <1>3. /\ request[r].read \in Nat /\ misses \in Nat /\ cached_ids \in Nat
        /\ cached_ids \div 4 \in Nat /\ Catalogue \in Nat
    BY Bounds DEF AdviceTypeOK
  <1>4. AdviceTypeOK'
    BY <1>1, <1>2, <1>3 DEF AdviceTypeOK
  <1>5. ListIsGrown'
    <2>1. PICK wholes, quarters \in Nat :
            /\ wholes + Cardinality(ThreadsAt(Asking, request)) <= misses
            /\ quarters + Cardinality(ThreadsAt(Missing, request)) <= misses
            /\ cached_ids <= Advice!Grown(wholes * Catalogue, quarters)
            /\ \A q \in ThreadsAt(Keeping, request) :
                 request[q].read <= Advice!Grown(wholes * Catalogue, quarters)
      BY DEF ListIsGrown
    <2> DEFINE longest == Advice!Grown(wholes * Catalogue, quarters)
               longer  == Advice!Grown(wholes * Catalogue, quarters + 1)
    <2>2. longest \in Nat /\ longer = longest + longest \div 4
      BY MoreGrown
    <2>3. \A q \in Threads : request[q].at \in Keeping => request[q].read <= longest
      BY <2>1 DEF ThreadsAt
    <2>4. wholes + Cardinality(ThreadsAt(Asking, request')) <= misses
      <3>1. Follows(Asking, r) /\ "quarter" \notin Asking /\ "store" \notin Asking
        BY <1>2 DEF Asking
      <3>2. Cardinality(ThreadsAt(Asking, request')) = Cardinality(ThreadsAt(Asking, request))
        BY <1>2, <3>1 DEF Follows
      <3>3. QED
        BY <2>1, <3>2
    <2>5. (quarters + 1) + Cardinality(ThreadsAt(Missing, request')) <= misses
      <3>1. Follows(Missing, r) /\ "quarter" \in Missing /\ "store" \notin Missing
        BY <1>2 DEF Missing
      <3>2. Cardinality(ThreadsAt(Missing, request)) \in Nat
        BY <3>1 DEF Follows
      <3>3. Cardinality(ThreadsAt(Missing, request')) = Cardinality(ThreadsAt(Missing, request)) - 1
        BY <1>2, <3>1 DEF Follows
      <3>4. QED
        BY <1>3, <2>1, <3>2, <3>3
    <2>6. cached_ids <= longest
      BY <2>1
    <2> HIDE DEF longest, longer
    <2>7. longest \div 4 \in Nat /\ cached_ids \div 4 <= longest \div 4
      BY <1>3, <2>2, <2>6
    <2>8. cached_ids' <= longer
      BY <1>1, <1>3, <2>2, <2>6, <2>7
    <2>9. ASSUME NEW q \in ThreadsAt(Keeping, request')
          PROVE  request'[q].read <= longer
      <3>1. CASE q = r
        <4>1. request[r].read <= longest
          BY <1>2, <2>3 DEF Keeping
        <4>2. QED
          BY <1>0, <1>2, <1>3, <2>2, <2>7, <3>1, <4>1
      <3>2. CASE q # r
        <4>1. q \in Threads /\ request'[q] = request[q]
          BY <1>2, <3>2 DEF ThreadsAt
        <4>2. request[q].read \in Nat /\ request[q].read <= longest
          BY <2>3, <2>9, <4>1 DEF ThreadsAt, AdviceTypeOK
        <4>3. QED
          BY <2>2, <2>7, <4>1, <4>2
      <3>3. QED
        BY <3>1, <3>2
    <2>10. quarters + 1 \in Nat
      OBVIOUS
    <2>11. QED
      BY <1>1, <2>4, <2>5, <2>8, <2>9, <2>10 DEF ListIsGrown, longer
  <1>6. ListHasCatalogue'
    <2>1. extended' => Catalogue <= cached_ids'
      BY <1>1 DEF ListHasCatalogue
    <2>2. ASSUME NEW q \in Threads,
                 request'[q].at \in {"again", "slice", "quarter", "store"}
          PROVE  extended' /\ (request'[q].at # "again" => Catalogue <= request'[q].read)
      <3>1. CASE q = r
        <4>1. extended /\ Catalogue <= request[r].read
          BY <1>2 DEF ThreadsAt, ListHasCatalogue
        <4>2. QED
          BY <1>0, <1>1, <1>2, <1>3, <3>1, <4>1
      <3>2. CASE q # r
        BY <1>1, <1>2, <2>2, <3>2 DEF ThreadsAt, ListHasCatalogue
      <3>3. QED
        BY <3>1, <3>2
    <2>3. QED
      BY <2>1, <2>2 DEF ThreadsAt, ListHasCatalogue
  <1>7. QED
    BY <1>4, <1>5, <1>6

\* The list becomes what the thread has made of what it read.
LEMMA AdviceAppendsQuarter ==
  ASSUME AdviceInv, NEW r \in Threads, Advice!AppendQuarter(r)
  PROVE  AdviceInv'
  <1> USE DEF AdviceInv
  <1>1. /\ Advice!Goes(r, "store", "use", 0, 0) /\ cached_ids' = request[r].read
        /\ extended' = extended /\ misses' = misses
    BY DEF Advice!AppendQuarter
  <1>2. /\ request' \in [Threads -> [at : Places, read : Nat, sliced : Nat]]
        /\ request[r].at = "store" /\ request'[r].at = "use"
        /\ \A q \in Threads : q # r => request'[q] = request[q]
        /\ \A places : Follows(places, r)
    <2>1. "store" \in Places /\ "use" \in Places /\ 0 \in Nat
      BY DEF Places
    <2>2. /\ request' \in [Threads -> [at : Places, read : Nat, sliced : Nat]]
          /\ request[r].at = "store" /\ request'[r] = [at |-> "use", read |-> 0, sliced |-> 0]
          /\ \A q \in Threads : q # r => request'[q] = request[q]
          /\ \A places : Follows(places, r)
      BY <1>1, <2>1, OneGoesOn
    <2>3. QED
      BY <2>2
  <1>3. request[r].read \in Nat
    BY DEF AdviceTypeOK
  <1>4. AdviceTypeOK'
    BY <1>1, <1>2, <1>3 DEF AdviceTypeOK
  <1>5. ListIsGrown'
    <2>1. PICK wholes, quarters \in Nat :
            /\ wholes + Cardinality(ThreadsAt(Asking, request)) <= misses
            /\ quarters + Cardinality(ThreadsAt(Missing, request)) <= misses
            /\ cached_ids <= Advice!Grown(wholes * Catalogue, quarters)
            /\ \A q \in ThreadsAt(Keeping, request) :
                 request[q].read <= Advice!Grown(wholes * Catalogue, quarters)
      BY DEF ListIsGrown
    <2>2. Cardinality(ThreadsAt(Asking, request')) = Cardinality(ThreadsAt(Asking, request))
      <3>1. Follows(Asking, r) /\ "store" \notin Asking /\ "use" \notin Asking
        BY <1>2 DEF Asking
      <3>2. QED
        BY <1>2, <3>1 DEF Follows
    <2>3. Cardinality(ThreadsAt(Missing, request')) = Cardinality(ThreadsAt(Missing, request))
      <3>1. Follows(Missing, r) /\ "store" \notin Missing /\ "use" \notin Missing
        BY <1>2 DEF Missing
      <3>2. QED
        BY <1>2, <3>1 DEF Follows
    <2>4. cached_ids' <= Advice!Grown(wholes * Catalogue, quarters)
      BY <1>1, <1>2, <2>1 DEF ThreadsAt, Keeping
    <2>5. \A q \in ThreadsAt(Keeping, request') :
            request'[q].read <= Advice!Grown(wholes * Catalogue, quarters)
      BY <1>2, <2>1 DEF ThreadsAt, Keeping
    <2>6. QED
      BY <1>1, <2>1, <2>2, <2>3, <2>4, <2>5 DEF ListIsGrown
  <1>6. ListHasCatalogue'
    <2>1. Catalogue <= cached_ids'
      BY <1>1, <1>2 DEF ListHasCatalogue, ThreadsAt
    <2>2. ASSUME NEW q \in Threads,
                 request'[q].at \in {"again", "slice", "quarter", "store"}
          PROVE  extended' /\ (request'[q].at # "again" => Catalogue <= request'[q].read)
      <3>1. q # r /\ request'[q] = request[q]
        BY <1>2, <2>2
      <3>2. QED
        BY <1>1, <2>2, <3>1 DEF ThreadsAt, ListHasCatalogue
    <2>3. QED
      BY <2>1, <2>2 DEF ThreadsAt, ListHasCatalogue
  <1>7. QED
    BY <1>4, <1>5, <1>6

\* Whatever extensions of the list get lost, it holds a catalogue once extended, and leaks no
\* more than requests do one after the other.
THEOREM CacheIsBounded == Spec => []CacheHoldsCatalogues
  <1>1. Init => AdviceInv
    <2> SUFFICES ASSUME Init PROVE AdviceInv
      OBVIOUS
    <2>1. /\ cached_ids = 0 /\ misses = 0 /\ extended = FALSE
          /\ request = [r \in Threads |-> [at |-> "new", read |-> 0, sliced |-> 0]]
      BY DEF Init, Advice!Init
    <2>2. AdviceTypeOK
      BY <2>1 DEF AdviceTypeOK, Places
    <2>3. ThreadsAt(Asking, request) = {} /\ ThreadsAt(Missing, request) = {}
      BY <2>1 DEF ThreadsAt, Asking, Missing
    <2>4. \A q \in Threads : request[q].at = "new"
      BY <2>1
    <2>5. 0 <= Advice!Grown(0 * Catalogue, 0)
      BY MoreGrown
    <2>6. ListIsGrown
      <3>1. /\ 0 + Cardinality(ThreadsAt(Asking, request)) <= misses
            /\ 0 + Cardinality(ThreadsAt(Missing, request)) <= misses
        BY <2>1, <2>3, FS_EmptySet
      <3>2. ThreadsAt(Keeping, request) = {}
        BY <2>4 DEF ThreadsAt, Keeping
      <3>3. QED
        BY <2>1, <2>5, <3>1, <3>2 DEF ListIsGrown
    <2>7. ListHasCatalogue
      BY <2>1, <2>4 DEF ListHasCatalogue, ThreadsAt
    <2>8. QED
      BY <2>2, <2>6, <2>7 DEF AdviceInv
  <1>2. AdviceInv /\ [Next]_vars => AdviceInv'
    <2> SUFFICES ASSUME AdviceInv, [Next]_vars PROVE AdviceInv'
      OBVIOUS
    <2>1. CASE Advice!Next
      BY <2>1, AdviceReads, AdviceAppendsAll, AdviceTakesQuarter, AdviceAppendsQuarter
      DEF Advice!Next
    <2>2. CASE UNCHANGED advice
      BY <2>2 DEF advice, AdviceInv, AdviceTypeOK, ListIsGrown, ListHasCatalogue
    <2>3. QED
      BY <2>1, <2>2, PartsSteps
  <1>3. AdviceInv => CacheHoldsCatalogues
    <2> SUFFICES ASSUME AdviceInv PROVE CacheHoldsCatalogues
      OBVIOUS
    <2>1. PICK wholes, quarters \in Nat :
            /\ wholes + Cardinality(ThreadsAt(Asking, request)) <= misses
            /\ quarters + Cardinality(ThreadsAt(Missing, request)) <= misses
            /\ cached_ids <= Advice!Grown(wholes * Catalogue, quarters)
      BY DEF AdviceInv, ListIsGrown
    <2>2. /\ Cardinality(ThreadsAt(Asking, request)) \in Nat
          /\ Cardinality(ThreadsAt(Missing, request)) \in Nat
      <3>1. /\ ThreadsAt(Asking, request) \subseteq Threads
            /\ ThreadsAt(Missing, request) \subseteq Threads
        BY DEF ThreadsAt
      <3>2. QED
        BY <3>1, ServicesAssumption, FS_Subset, FS_CardinalityType
    <2>3. wholes <= misses /\ quarters <= misses /\ misses \in Nat /\ cached_ids \in Nat
      BY <2>1, <2>2 DEF AdviceInv, AdviceTypeOK
    <2> DEFINE longest == Advice!Grown(wholes * Catalogue, quarters)
               bound   == Advice!Grown(misses * Catalogue, misses)
    <2>4. longest \in Nat /\ longest <= bound /\ bound \in Nat
      BY <2>3, MoreGrown
    <2>5. cached_ids <= longest
      BY <2>1
    <2> HIDE DEF longest, bound
    <2>6. cached_ids <= bound
      BY <2>3, <2>4, <2>5
    <2>7. QED
      BY <2>6 DEF CacheHoldsCatalogues, Advice!CacheHoldsCatalogues, bound, AdviceInv,
                  ListHasCatalogue
  <1>4. QED
    BY <1>1, <1>2, <1>3, PTL DEF Spec

-----------------------------------------------------------------------------
(* Sums of functions, as the bill of an order is one.                        *)

Sum(f, S) == Costing!SumFunctionOnSet(f, S)

\* The element that a sum takes first.
Pick(S) == CHOOSE x \in S : TRUE

Sums(it, f, S) ==
  it = [s \in SUBSET S |-> IF s = {} THEN 0 ELSE f[Pick(s)] + it[s \ {Pick(s)}]]

\* Induction over the subsets of a finite set, in which the set P takes the place of a
\* predicate.
LEMMA SubsetInd ==
  ASSUME NEW U, IsFiniteSet(U), NEW P,
         \A S \in SUBSET U : (\A s \in SUBSET S : s # S => s \in P) => S \in P
  PROVE  \A S \in SUBSET U : S \in P
  <1> DEFINE others == {S \in FiniteSubsetsOf(U) : S \notin P}
  <1>1. SUFFICES ASSUME NEW S \in SUBSET U, S \notin P PROVE FALSE
    OBVIOUS
  <1>2. \A s \in SUBSET U : s \in FiniteSubsetsOf(U)
    BY FS_Subset DEF FiniteSubsetsOf
  <1>3. S \in others /\ others \subseteq FiniteSubsetsOf(U)
    BY <1>1, <1>2
  <1>4. PICK least \in others : \A s \in others : ~ (<<s, least>> \in StrictSubsetOrdering(U))
    <2> HIDE DEF others
    <2> QED BY <1>3, WFMin, FS_StrictSubsetOrderingWellFounded
  <1>5. least \in SUBSET U /\ least \notin P
    BY DEF FiniteSubsetsOf
  <1>6. \A s \in SUBSET least : s # least => s \in P
    BY <1>2, <1>4, <1>5 DEF StrictSubsetOrdering
  <1>7. QED
    BY <1>5, <1>6

\* The sums over two sets agree on what both sets contain.
LEMMA SumsAgree ==
  ASSUME NEW U, IsFiniteSet(U), NEW f, NEW S \in SUBSET U, NEW T \in SUBSET U,
         NEW i, Sums(i, f, S), NEW j, Sums(j, f, T)
  PROVE  \A s \in SUBSET U : s \subseteq S /\ s \subseteq T => i[s] = j[s]
  <1> DEFINE P == {s \in SUBSET U : s \subseteq S /\ s \subseteq T => i[s] = j[s]}
  <1>1. ASSUME NEW s \in SUBSET U, \A r \in SUBSET s : r # s => r \in P PROVE s \in P
    <2>1. SUFFICES ASSUME s \subseteq S, s \subseteq T PROVE i[s] = j[s]
      OBVIOUS
    <2>2. /\ i[s] = IF s = {} THEN 0 ELSE f[Pick(s)] + i[s \ {Pick(s)}]
          /\ j[s] = IF s = {} THEN 0 ELSE f[Pick(s)] + j[s \ {Pick(s)}]
      BY <2>1 DEF Sums
    <2>3. CASE s = {}
      BY <2>2, <2>3
    <2>4. CASE s # {}
      <3>1. Pick(s) \in s
        BY <2>4 DEF Pick
      <3>2. s \ {Pick(s)} \in P
        BY <1>1, <3>1
      <3>3. i[s \ {Pick(s)}] = j[s \ {Pick(s)}]
        BY <2>1, <3>2
      <3>4. QED
        BY <2>2, <2>4, <3>3
    <2>5. QED
      BY <2>3, <2>4
  <1> HIDE DEF P
  <1>2. \A s \in SUBSET U : s \in P
    BY <1>1, SubsetInd
  <1>3. QED
    BY <1>2 DEF P

LEMMA SumIsOfSums ==
  ASSUME NEW f, NEW S
  PROVE  Sum(f, S) = (CHOOSE it : Sums(it, f, S))[S]
  BY DEF Sum, Sums, Pick, Costing!SumFunctionOnSet, Costing!FoldFunctionOnSet,
         Costing!MapThenFoldSet

\* A sum begins with the element it takes first, wherever it has been taken.
LEMMA SumUnfolds ==
  ASSUME NEW f, NEW S, IsFiniteSet(S), \A s \in SUBSET S : \E it : Sums(it, f, s)
  PROVE  /\ S = {} => Sum(f, S) = 0
         /\ S # {} => Sum(f, S) = f[Pick(S)] + Sum(f, S \ {Pick(S)})
  <1> DEFINE i == CHOOSE it : Sums(it, f, S)
             rest == S \ {Pick(S)}
             j == CHOOSE it : Sums(it, f, rest)
  <1>1. Sums(i, f, S) /\ Sums(j, f, rest)
    OBVIOUS
  <1>2. Sum(f, S) = i[S] /\ Sum(f, rest) = j[rest]
    BY SumIsOfSums
  <1> HIDE DEF i, j
  <1>3. i[S] = IF S = {} THEN 0 ELSE f[Pick(S)] + i[rest]
    BY <1>1 DEF Sums
  <1>4. i[rest] = j[rest]
    BY <1>1, SumsAgree
  <1>5. QED
    BY <1>2, <1>3, <1>4

LEMMA SumsExist ==
  ASSUME NEW U, IsFiniteSet(U), NEW f
  PROVE  \A S \in SUBSET U : \E it : Sums(it, f, S)
  <1> DEFINE P == {S \in SUBSET U : \E it : Sums(it, f, S)}
  <1>1. ASSUME NEW S \in SUBSET U, \A s \in SUBSET S : s # S => s \in P PROVE S \in P
    <2> DEFINE of(s) == IF s = {} THEN 0 ELSE f[Pick(s)] + Sum(f, s \ {Pick(s)})
               it == [s \in SUBSET S |-> of(s)]
    <2>1. \A s \in SUBSET S : s # S => Sum(f, s) = of(s)
      <3>1. SUFFICES ASSUME NEW s \in SUBSET S, s # S PROVE Sum(f, s) = of(s)
        OBVIOUS
      <3>2. \A r \in SUBSET s : \E any : Sums(any, f, r)
        BY <1>1, <3>1
      <3>3. IsFiniteSet(s)
        BY FS_Subset
      <3>4. /\ s = {} => Sum(f, s) = 0
            /\ s # {} => Sum(f, s) = f[Pick(s)] + Sum(f, s \ {Pick(s)})
        <4> HIDE DEF it, of, P
        <4> QED BY <3>2, <3>3, SumUnfolds
      <3>5. QED
        BY <3>4
    <2>2. \A s \in SUBSET S : s # {} => s \ {Pick(s)} \in SUBSET S /\ s \ {Pick(s)} # S
      BY DEF Pick
    <2>3. \A s \in SUBSET S : s # {} => it[s \ {Pick(s)}] = Sum(f, s \ {Pick(s)})
      <3>1. \A s \in SUBSET S : it[s] = of(s)
        OBVIOUS
      <3> HIDE DEF it, of
      <3>2. QED
        BY <2>1, <2>2, <3>1
    <2>4. \A s \in SUBSET S :
            of(s) = IF s = {} THEN 0 ELSE f[Pick(s)] + it[s \ {Pick(s)}]
      <3> HIDE DEF it
      <3> QED BY <2>3
    <2>5. Sums(it, f, S)
      BY <2>4 DEF Sums
    <2>6. QED
      BY <2>5
  <1> HIDE DEF P
  <1>2. \A S \in SUBSET U : S \in P
    BY <1>1, SubsetInd
  <1>3. QED
    BY <1>2 DEF P

\* A sum over a finite set is what its definition says.
LEMMA SumOf ==
  ASSUME NEW U, IsFiniteSet(U), NEW f
  PROVE  \A S \in SUBSET U :
           /\ S = {} => Sum(f, S) = 0
           /\ S # {} => Sum(f, S) = f[Pick(S)] + Sum(f, S \ {Pick(S)})
  <1>1. SUFFICES ASSUME NEW S \in SUBSET U
                 PROVE  /\ S = {} => Sum(f, S) = 0
                        /\ S # {} => Sum(f, S) = f[Pick(S)] + Sum(f, S \ {Pick(S)})
    OBVIOUS
  <1>2. IsFiniteSet(S) /\ \A s \in SUBSET S : \E it : Sums(it, f, s)
    BY FS_Subset, SumsExist
  <1>3. QED
    BY <1>2, SumUnfolds

LEMMA SumIsInt ==
  ASSUME NEW U, IsFiniteSet(U), NEW f, \A p \in U : f[p] \in Int
  PROVE  \A S \in SUBSET U : Sum(f, S) \in Int
  <1> DEFINE P == {S \in SUBSET U : Sum(f, S) \in Int}
  <1>1. ASSUME NEW S \in SUBSET U, \A s \in SUBSET S : s # S => s \in P PROVE S \in P
    <2>1. S # {} => Pick(S) \in S
      BY DEF Pick
    <2>2. S # {} => f[Pick(S)] \in Int /\ S \ {Pick(S)} \in P
      BY <1>1, <2>1
    <2>3. /\ S = {} => Sum(f, S) = 0
          /\ S # {} => Sum(f, S) = f[Pick(S)] + Sum(f, S \ {Pick(S)})
      BY SumOf
    <2>4. QED
      BY <2>2, <2>3
  <1> HIDE DEF P
  <1>2. \A S \in SUBSET U : S \in P
    BY <1>1, SubsetInd
  <1>3. QED
    BY <1>2 DEF P

\* Sums compare as their terms do.
LEMMA SumsCompare ==
  ASSUME NEW U, IsFiniteSet(U), NEW f, NEW g, NEW h, NEW k \in Int, NEW l \in Int, NEW m \in Int,
         \A p \in U : f[p] \in Int /\ g[p] \in Int /\ h[p] \in Int,
         \A p \in U : k * f[p] <= l * g[p] + m * h[p]
  PROVE  \A S \in SUBSET U : k * Sum(f, S) <= l * Sum(g, S) + m * Sum(h, S)
  <1> DEFINE P == {S \in SUBSET U : k * Sum(f, S) <= l * Sum(g, S) + m * Sum(h, S)}
  <1>1. ASSUME NEW S \in SUBSET U, \A s \in SUBSET S : s # S => s \in P PROVE S \in P
    <2>1. CASE S = {}
      <3>1. Sum(f, S) = 0 /\ Sum(g, S) = 0 /\ Sum(h, S) = 0
        BY <2>1, SumOf
      <3>2. QED
        BY <3>1
    <2>2. CASE S # {}
      <3> DEFINE p == Pick(S)
                 a == Sum(f, S \ {p})
                 b == Sum(g, S \ {p})
                 c == Sum(h, S \ {p})
      <3>1. p \in S /\ p \in U
        BY <2>2 DEF Pick
      <3>2. k * a <= l * b + m * c
        BY <1>1, <3>1
      <3>3. Sum(f, S) = f[p] + a /\ Sum(g, S) = g[p] + b /\ Sum(h, S) = h[p] + c
        BY <2>2, SumOf
      <3>4. a \in Int /\ b \in Int /\ c \in Int
        BY SumIsInt
      <3>5. /\ f[p] \in Int /\ g[p] \in Int /\ h[p] \in Int
            /\ k * f[p] <= l * g[p] + m * h[p]
        BY <3>1
      <3> HIDE DEF p, a, b, c
      <3>6. /\ k * (f[p] + a) = k * f[p] + k * a
            /\ l * (g[p] + b) = l * g[p] + l * b
            /\ m * (h[p] + c) = m * h[p] + m * c
        BY <3>4, <3>5
      <3>7. k * f[p] \in Int /\ k * a \in Int /\ l * g[p] \in Int /\ l * b \in Int
            /\ m * h[p] \in Int /\ m * c \in Int
        BY <3>4, <3>5
      <3>8. k * (f[p] + a) <= l * (g[p] + b) + m * (h[p] + c)
        BY <3>2, <3>4, <3>5, <3>6, <3>7
      <3>9. QED
        BY <3>3, <3>8
    <2>3. QED
      BY <2>1, <2>2
  <1> HIDE DEF P
  <1>2. \A S \in SUBSET U : S \in P
    BY <1>1, SubsetInd
  <1>3. QED
    BY <1>2 DEF P

\* A sum of ones counts.
LEMMA SumCounts ==
  ASSUME NEW U, IsFiniteSet(U)
  PROVE  \A S \in SUBSET U : Sum([p \in U |-> 1], S) = Cardinality(S)
  <1> DEFINE ones == [p \in U |-> 1]
             P == {S \in SUBSET U : Sum(ones, S) = Cardinality(S)}
  <1>1. ASSUME NEW S \in SUBSET U, \A s \in SUBSET S : s # S => s \in P PROVE S \in P
    <2>1. CASE S = {}
      <3>1. Sum(ones, S) = 0
        BY <2>1, SumOf
      <3>2. QED
        BY <2>1, <3>1, FS_EmptySet
    <2>2. CASE S # {}
      <3>1. Pick(S) \in S
        BY <2>2 DEF Pick
      <3>2. Sum(ones, S \ {Pick(S)}) = Cardinality(S \ {Pick(S)})
        <4>1. S \ {Pick(S)} \in P
          BY <1>1, <3>1
        <4>2. QED
          BY <4>1
      <3>3. ones[Pick(S)] = 1
        BY <3>1
      <3>4. Sum(ones, S) = ones[Pick(S)] + Sum(ones, S \ {Pick(S)})
        <4> HIDE DEF ones
        <4> QED BY <2>2, SumOf
      <3>5. IsFiniteSet(S)
        BY FS_Subset
      <3>6. Cardinality(S \ {Pick(S)}) = Cardinality(S) - 1 /\ Cardinality(S) \in Nat
        BY <3>1, <3>5, FS_RemoveElement, FS_CardinalityType
      <3> HIDE DEF ones
      <3>7. QED
        BY <3>2, <3>3, <3>4, <3>6
    <2>3. QED
      BY <2>1, <2>2
  <1> HIDE DEF P, ones
  <1>2. \A S \in SUBSET U : S \in P
    BY <1>1, SubsetInd
  <1>3. QED
    BY <1>2 DEF P, ones

-----------------------------------------------------------------------------
(* What conversions make of an amount.                                       *)

\* g is what the loop over the digits of nanos makes of each nanos from m on.
Decimals(g, m) ==
  \A n \in m .. NanosMod - 1 : g[n] = IF n = 0 \/ 10 * n >= NanosMod THEN n ELSE g[10 * n]

LEMMA DecimalsExist ==
  \E g \in [0 .. NanosMod - 1 -> Nat] : Decimals(g, 0)
  <1> DEFINE Upto(k) == NanosMod - k .. NanosMod - 1
             P == {k \in Nat : k <= NanosMod =>
                                 \E g \in [Upto(k) -> Nat] : Decimals(g, NanosMod - k)}
  <1>1. NanosMod \in Nat \ {0}
    BY ServicesAssumption
  <1>2. 0 \in P
    <2>1. Upto(0) = {}
      BY <1>1
    <2> DEFINE g == [n \in Upto(0) |-> 0]
    <2>2. g \in [Upto(0) -> Nat] /\ Decimals(g, NanosMod - 0)
      BY <1>1 DEF Decimals
    <2>3. QED
      BY <2>2
  <1>3. ASSUME NEW k \in Nat, k \in P PROVE k + 1 \in P
    <2>1. SUFFICES ASSUME k + 1 <= NanosMod
                   PROVE  \E g \in [Upto(k + 1) -> Nat] : Decimals(g, NanosMod - (k + 1))
      OBVIOUS
    <2>2. PICK g \in [Upto(k) -> Nat] : Decimals(g, NanosMod - k)
      BY <1>1, <1>3, <2>1
    <2> DEFINE m == NanosMod - (k + 1)
               new == IF m = 0 \/ 10 * m >= NanosMod THEN m ELSE g[10 * m]
               h == [n \in Upto(k + 1) |-> IF n = m THEN new ELSE g[n]]
    <2>3. m \in Nat /\ (\A n \in Nat : n \in Upto(k + 1) <=> n = m \/ n \in Upto(k))
          /\ m \notin Upto(k) /\ Upto(k + 1) \subseteq Nat /\ Upto(k) \subseteq Nat
      BY <1>1, <2>1
    <2>4. \A n \in Upto(k + 1) : n # 0 /\ 10 * n < NanosMod => 10 * n \in Upto(k)
      BY <1>1, <2>1
    <2>5. new \in Nat
      <3>1. m \in Upto(k + 1)
        BY <2>3
      <3>2. CASE m = 0 \/ 10 * m >= NanosMod
        <4> HIDE DEF m
        <4> QED BY <2>3, <3>2
      <3>3. CASE ~(m = 0 \/ 10 * m >= NanosMod)
        <4>1. 10 * m < NanosMod
          BY <1>1, <2>3, <3>3
        <4>2. 10 * m \in Upto(k)
          <5> HIDE DEF m, Upto
          <5> QED BY <2>4, <3>1, <3>3, <4>1
        <4>3. g[10 * m] \in Nat
          BY <4>2
        <4>4. QED
          <5> HIDE DEF m
          <5> QED BY <3>3, <4>3
      <3>4. QED
        BY <3>2, <3>3
    <2>6. \A n \in Upto(k + 1) : n # m => g[n] \in Nat
      BY <2>3
    <2>7. h \in [Upto(k + 1) -> Nat]
      <3> HIDE DEF new, m
      <3> QED BY <2>5, <2>6
    <2>8. h[m] = new /\ \A n \in Upto(k) : h[n] = g[n]
      <3> HIDE DEF new, m, Upto
      <3> QED BY <2>3
    <2>9. \A n \in Upto(k) : g[n] = IF n = 0 \/ 10 * n >= NanosMod THEN n ELSE g[10 * n]
      BY <2>2 DEF Decimals
    <2>10. ASSUME NEW n \in Upto(k + 1)
           PROVE  h[n] = IF n = 0 \/ 10 * n >= NanosMod THEN n ELSE h[10 * n]
      <3>1. n # 0 /\ 10 * n < NanosMod => h[10 * n] = g[10 * n]
        <4> HIDE DEF h, m
        <4> QED BY <2>4, <2>8
      <3>2. ~(n = 0 \/ 10 * n >= NanosMod) <=> n # 0 /\ 10 * n < NanosMod
        BY <1>1, <2>3
      <3>3. CASE n = m
        <4> HIDE DEF h, Upto
        <4> QED BY <2>8, <3>1, <3>2, <3>3
      <3>4. CASE n # m
        <4>1. n \in Upto(k)
          <5> HIDE DEF m, Upto
          <5> QED BY <2>3, <3>4
        <4> HIDE DEF h, Upto, m
        <4>2. QED
          BY <2>8, <2>9, <3>1, <3>2, <4>1
      <3>5. QED
        BY <3>3, <3>4
    <2>11. Decimals(h, m)
      <3> HIDE DEF h
      <3> QED BY <2>10 DEF Decimals
    <2>12. QED
      <3> HIDE DEF h
      <3> QED BY <2>7, <2>11
  <1> HIDE DEF P
  <1>4. NanosMod \in P
    BY <1>1, <1>2, <1>3, NatInd
  <1>5. NanosMod - NanosMod = 0
    BY <1>1
  <1>6. QED
    BY <1>1, <1>4, <1>5 DEF P

LEMMA DecimalIsNat ==
  \A n \in 0 .. NanosMod - 1 : Costing!Decimal[n] \in Nat
  <1> DEFINE D == Costing!Decimal
             P == {k \in Nat : \A n \in 0 .. NanosMod - 1 : n >= NanosMod - k => D[n] \in Nat}
  <1>1. NanosMod \in Nat \ {0}
    BY ServicesAssumption
  <1>2. D = [n \in 0 .. NanosMod - 1 |->
               IF n = 0 \/ 10 * n >= NanosMod THEN n ELSE D[10 * n]]
    <2>1. PICK g \in [0 .. NanosMod - 1 -> Nat] : Decimals(g, 0)
      BY DecimalsExist
    <2>2. g = [n \in 0 .. NanosMod - 1 |->
                 IF n = 0 \/ 10 * n >= NanosMod THEN n ELSE g[10 * n]]
      BY <2>1 DEF Decimals
    <2>3. QED
      BY <2>2 DEF Costing!Decimal
  <1> HIDE DEF D
  <1>3. 0 \in P
    BY <1>1
  <1>4. ASSUME NEW k \in Nat, k \in P PROVE k + 1 \in P
    <2>1. SUFFICES ASSUME NEW n \in 0 .. NanosMod - 1, n >= NanosMod - (k + 1)
                   PROVE  D[n] \in Nat
      OBVIOUS
    <2>2. CASE n = 0 \/ 10 * n >= NanosMod
      BY <1>2, <2>2
    <2>3. CASE ~(n = 0 \/ 10 * n >= NanosMod)
      <3>1. 10 * n \in 0 .. NanosMod - 1 /\ 10 * n >= NanosMod - k
        BY <1>1, <2>1, <2>3
      <3>2. D[n] = D[10 * n]
        BY <1>2, <2>3
      <3>3. QED
        BY <1>4, <3>1, <3>2
    <2>4. QED
      BY <2>2, <2>3
  <1> HIDE DEF P
  <1>5. NanosMod \in P
    BY <1>1, <1>3, <1>4, NatInd
  <1>6. QED
    BY <1>1, <1>5 DEF P, D

LEMMA DivMod ==
  ASSUME NEW n \in Int, NEW m \in Nat \ {0}
  PROVE  /\ n \div m \in Int /\ n % m \in 0 .. m - 1
         /\ n = m * (n \div m) + (n % m)
         /\ n >= 0 => n \div m >= 0
  <1>1. n \div m \in Int /\ n % m \in Int
    OBVIOUS
  <1>2. n % m >= 0 /\ n % m < m
    OBVIOUS
  <1>3. n = m * (n \div m) + (n % m)
    OBVIOUS
  <1>4. ASSUME n >= 0, n \div m < 0 PROVE FALSE
    <2>1. n \div m <= -1
      BY <1>1, <1>4
    <2>2. m * (n \div m) <= m * (-1)
      BY <1>1, <2>1
    <2>3. QED
      BY <1>1, <1>2, <1>3, <1>4, <2>2
  <1>5. QED
    BY <1>1, <1>2, <1>3, <1>4

LEMMA DivModOnce ==
  ASSUME NEW m \in Nat \ {0}, NEW q \in Int, NEW r \in 0 .. m - 1,
         NEW p \in Int, NEW s \in 0 .. m - 1, m * q + r = m * p + s
  PROVE  q = p /\ r = s
  <1>1. m * (q - p) = s - r
    OBVIOUS
  <1>2. q - p \in Int /\ s - r < m /\ s - r > -m
    OBVIOUS
  <1>3. CASE q - p >= 1
    <2>1. m * (q - p) >= m
      BY <1>2, <1>3
    <2>2. QED
      BY <1>1, <1>2, <2>1
  <1>4. CASE q - p <= -1
    <2>1. m * (q - p) <= -m
      BY <1>2, <1>4
    <2>2. QED
      BY <1>1, <1>2, <2>1
  <1>5. QED
    BY <1>1, <1>2, <1>3, <1>4

MoneyType == [units : Nat, nanos : 0 .. NanosMod - 1]

\* An amount is written in units and nanos, and is worth what it was.
LEMMA AmountOf ==
  ASSUME NEW n \in Nat
  PROVE  Costing!Amount(n) \in MoneyType /\ Costing!Worth(Costing!Amount(n)) = n
  <1>1. NanosMod \in Nat \ {0}
    BY ServicesAssumption
  <1>2. /\ n \div NanosMod \in Nat /\ n % NanosMod \in 0 .. NanosMod - 1
        /\ n = NanosMod * (n \div NanosMod) + (n % NanosMod)
    <2>1. n \in Int /\ n >= 0
      OBVIOUS
    <2>2. /\ n \div NanosMod \in Int /\ n % NanosMod \in 0 .. NanosMod - 1
          /\ n = NanosMod * (n \div NanosMod) + (n % NanosMod)
          /\ n >= 0 => n \div NanosMod >= 0
      BY <1>1, <2>1, DivMod, Zenon
    <2>3. QED
      BY <2>1, <2>2
  <1>3. Costing!Amount(n) = [units |-> n \div NanosMod, nanos |-> n % NanosMod]
    BY DEF Costing!Amount
  <1>4. Costing!Amount(n) \in MoneyType
    BY <1>2, <1>3 DEF MoneyType
  <1>5. Costing!Worth(Costing!Amount(n)) = (n \div NanosMod) * NanosMod + (n % NanosMod)
    BY <1>3 DEF Costing!Worth
  <1>6. QED
    BY <1>1, <1>2, <1>4, <1>5

LEMMA WorthOf ==
  ASSUME NEW m \in MoneyType
  PROVE  /\ Costing!Worth(m) \in Nat /\ Costing!getDouble(m) \in Nat
         /\ m.units \in Nat /\ m.nanos \in Nat /\ m.units * NanosMod \in Nat
  <1>1. NanosMod \in Nat \ {0}
    BY ServicesAssumption
  <1>2. m.units \in Nat /\ m.nanos \in 0 .. NanosMod - 1
    BY DEF MoneyType
  <1>3. Costing!Decimal[m.nanos] \in Nat
    BY <1>2, DecimalIsNat
  <1>4. m.units * NanosMod \in Nat
    BY <1>1, <1>2
  <1>5. QED
    BY <1>1, <1>2, <1>3, <1>4 DEF Costing!Worth, Costing!getDouble

PricesTypeOK ==
  /\ cart \in [Products -> Nat] /\ currency \in Codes /\ less \in [Codes -> {0, 1}]
  /\ quote \in MoneyType

\* A conversion loses at most two nanos of what the rate makes of a double, and at most
\* one if the rate is 1.
LEMMA Converted ==
  ASSUME PricesTypeOK, NEW m \in MoneyType, NEW code \in Codes
  PROVE  LET d == Costing!getDouble(m)
             c == Costing!Convert(m, code)
             w == Costing!Worth(c)
         IN  /\ c \in MoneyType /\ w \in Nat
             /\ Rate["USD"] * w <= Rate[code] * d
             /\ Rate[code] * d <= Rate["USD"] * w + 2 * Rate["USD"]
             /\ code = "USD" => w <= d /\ d <= w + 1
  <1> DEFINE d == Costing!getDouble(m)
             u == Rate["USD"]
             r == Rate[code]
             exact == (d * r) \div u
             e == IF exact = 0 THEN 0 ELSE exact - less[code]
  <1>1. u \in Nat \ {0} /\ r \in Nat
    BY ServicesAssumption
  <1>2. d \in Nat
    BY WorthOf
  <1>3. Costing!Convert(m, code) = Costing!Amount(e)
    BY DEF Costing!Convert
  <1>4. less[code] \in {0, 1}
    BY DEF PricesTypeOK
  <1> HIDE DEF d, u, r
  <1>5. d * r \in Nat
    BY <1>1, <1>2
  <1>6. exact \in Nat /\ (d * r) % u \in 0 .. u - 1 /\ d * r = u * exact + ((d * r) % u)
    <2>1. d * r \in Int /\ d * r >= 0
      BY <1>5
    <2>2. /\ (d * r) \div u \in Int /\ (d * r) % u \in 0 .. u - 1
          /\ d * r = u * ((d * r) \div u) + ((d * r) % u)
          /\ d * r >= 0 => (d * r) \div u >= 0
      BY <1>1, <2>1, DivMod, Zenon
    <2>3. QED
      BY <2>1, <2>2
  <1> HIDE DEF exact
  <1>7. e \in Nat /\ e <= exact /\ exact <= e + 1
    BY <1>4, <1>6
  <1> HIDE DEF e
  <1>8. u * e <= u * exact /\ u * exact <= u * (e + 1)
    BY <1>1, <1>6, <1>7
  <1>9. u * e \in Nat /\ u * exact \in Nat /\ u * (e + 1) = u * e + u /\ r * d = d * r
    BY <1>1, <1>2, <1>6, <1>7
  <1>10. u * e <= r * d /\ r * d <= u * e + 2 * u
    BY <1>1, <1>5, <1>6, <1>8, <1>9
  <1>11. code = "USD" => e <= d /\ d <= e + 1
    <2>1. SUFFICES ASSUME code = "USD" PROVE e <= d /\ d <= e + 1
      OBVIOUS
    <2>2. u * d + 0 = u * exact + ((d * r) % u)
      BY <1>1, <1>2, <1>6, <2>1 DEF u, r
    <2>3. d = exact
      <3>1. d \in Int /\ 0 \in 0 .. u - 1 /\ exact \in Int /\ (d * r) % u \in 0 .. u - 1
        BY <1>1, <1>2, <1>6
      <3>2. QED
        BY <1>1, <2>2, <3>1, DivModOnce, Zenon
    <2>4. QED
      BY <1>7, <2>3
  <1>12. Costing!Amount(e) \in MoneyType /\ Costing!Worth(Costing!Amount(e)) = e
    BY <1>7, AmountOf
  <1>13. QED
    BY <1>3, <1>7, <1>10, <1>11, <1>12 DEF u, r, d

Cent == NanosMod \div 100

\* A quote is of whole cents, of which it may lack one.
LEMMA QuoteOf ==
  ASSUME NEW n \in Nat, NEW short \in BOOLEAN
  PROVE  LET q == Costing!createQuote(Cent * n, short)
         IN  /\ q \in MoneyType
             /\ Costing!Worth(q) = Cent * n \/ Costing!Worth(q) = Cent * n - Cent
  <1> DEFINE v == Cent * n
             cents == (v \div Cent) % 100
             lack == short /\ cents > 0
             left == IF lack THEN cents - 1 ELSE cents
  <1>1. NanosMod \in Nat \ {0} /\ Cent \in Nat \ {0} /\ NanosMod = 100 * Cent
    BY ServicesAssumption DEF Cent
  <1>2. v \in Nat
    BY <1>1
  <1>3. v \div Cent = n
    <2>1. v \in Int /\ 0 \in 0 .. Cent - 1
      BY <1>1, <1>2
    <2> HIDE DEF v
    <2>2. v \div Cent \in Int /\ v % Cent \in 0 .. Cent - 1
          /\ v = Cent * (v \div Cent) + (v % Cent)
      BY <1>1, <2>1, DivMod, Zenon
    <2>3. Cent * (v \div Cent) + (v % Cent) = Cent * n + 0
      BY <1>1, <2>2 DEF v
    <2>4. n \in Int
      OBVIOUS
    <2>5. QED
      BY <1>1, <2>1, <2>2, <2>3, <2>4, DivModOnce, Zenon
  <1> DEFINE units == n \div 100
  <1>4. cents \in 0 .. 99 /\ units \in Nat /\ n = 100 * units + cents
    <2>1. cents = n % 100
      <3> HIDE DEF v
      <3> QED BY <1>3
    <2>2. n % 100 \in 0 .. 99 /\ n \div 100 \in Nat /\ n = 100 * (n \div 100) + (n % 100)
      OBVIOUS
    <2>3. QED
      <3> HIDE DEF cents
      <3> QED BY <2>1, <2>2
  <1>5. Cent * cents \in Nat /\ Cent * cents < NanosMod
    <2>1. Cent * cents <= Cent * 99 /\ Cent * cents \in Nat
      <3> HIDE DEF cents
      <3> QED BY <1>1, <1>4
    <2>2. QED
      BY <1>1, <2>1
  <1> HIDE DEF cents
  <1>6. v = NanosMod * units + Cent * cents
    <2>1. Cent * n = Cent * (100 * units + cents)
      BY <1>4
    <2> HIDE DEF units
    <2>2. QED
      BY <1>1, <1>4, <2>1
  <1>7. v \div NanosMod = units
    <2>1. v \in Int /\ Cent * cents \in 0 .. NanosMod - 1 /\ units \in Int
      BY <1>1, <1>2, <1>4, <1>5
    <2> HIDE DEF v, units
    <2>2. v \div NanosMod \in Int /\ v % NanosMod \in 0 .. NanosMod - 1
          /\ v = NanosMod * (v \div NanosMod) + (v % NanosMod)
      <3>1. NanosMod \in Nat \ {0} /\ v \in Int
        BY <1>1, <2>1
      <3>2. QED
        BY <3>1, DivMod, Zenon
    <2>3. NanosMod * (v \div NanosMod) + (v % NanosMod) = NanosMod * units + Cent * cents
      BY <1>6, <2>2
    <2> DEFINE p == v \div NanosMod
               r == v % NanosMod
               s == Cent * cents
    <2>4. /\ NanosMod \in Nat \ {0} /\ p \in Int /\ r \in 0 .. NanosMod - 1
          /\ s \in 0 .. NanosMod - 1 /\ NanosMod * p + r = NanosMod * units + s
      BY <1>1, <2>1, <2>2, <2>3
    <2> HIDE DEF p, r, s
    <2>5. p = units
      BY <2>1, <2>4, DivModOnce
    <2>6. QED
      BY <2>5 DEF p
  <1>8. Costing!createQuote(v, short) = [units |-> units, nanos |-> Cent * left]
    <2> HIDE DEF v, units
    <2> QED BY <1>7 DEF Costing!createQuote, Cent, cents
  <1> HIDE DEF v, units
  <1>9. /\ left \in Nat /\ left <= cents
        /\ Cent * left = Cent * cents \/ Cent * left = Cent * cents - Cent
    BY <1>1, <1>4
  <1> HIDE DEF left
  <1>10. Cent * left \in 0 .. NanosMod - 1
    <2>1. Cent * left \in Nat /\ Cent * left <= Cent * cents
      BY <1>1, <1>4, <1>9
    <2>2. QED
      BY <1>1, <1>5, <2>1
  <1>11. Costing!createQuote(v, short) \in MoneyType
    BY <1>4, <1>8, <1>10 DEF MoneyType, units
  <1>12. Costing!Worth(Costing!createQuote(v, short)) = units * NanosMod + Cent * left
    BY <1>8 DEF Costing!Worth
  <1>13. units \in Nat
    BY <1>4 DEF units
  <1>14. Costing!Worth(Costing!createQuote(v, short)) = v
         \/ Costing!Worth(Costing!createQuote(v, short)) = v - Cent
    <2>1. units * NanosMod = NanosMod * units /\ NanosMod * units \in Nat
      BY <1>1, <1>13
    <2>2. QED
      BY <1>1, <1>5, <1>6, <1>9, <1>12, <2>1
  <1>15. QED
    BY <1>11, <1>14 DEF v

-----------------------------------------------------------------------------
(* What an order is charged.                                                 *)

Converting(m) == Costing!Worth(Costing!Convert(m, currency))
ChargeOf      == [p \in Products |-> cart[p] * Converting(Costing!Amount(Price[p]))]

\* What an order is charged that gets the quote q.
Charge(q) == Converting(q) + Sum(ChargeOf, Costing!Bought)

LEMMA BoughtIsFinite ==
  Costing!Bought \subseteq Products /\ IsFiniteSet(Costing!Bought)
  BY ServicesAssumption, FS_Subset DEF Costing!Bought

LEMMA ChargeIsOwed ==
  ASSUME PricesTypeOK, NEW q \in MoneyType, NEW v \in Nat,
         Costing!Worth(q) = v \/ Costing!Worth(q) = v - Cent,
         ~Costing!LosesZeros(q),
         \A p \in Costing!Bought : ~Costing!LosesZeros(Costing!Amount(Price[p]))
  PROVE  Costing!Near(Charge(q) * Rate["USD"],
                      (v + Sum([p \in Products |-> cart[p] * Price[p]], Costing!Bought))
                        * Rate[currency],
                      Cent * Rate[currency] + 2 * (Costing!Items + 1) * Rate["USD"])
  <1> DEFINE u == Rate["USD"]
             r == Rate[currency]
             B == Costing!Bought
             owed == [p \in Products |-> cart[p] * Price[p]]
             w == Converting(q)
             a == Sum(ChargeOf, B)
             b == Sum(owed, B)
             n == Sum(cart, B)
  <1>1. /\ u \in Nat \ {0} /\ r \in Nat /\ currency \in Codes /\ Cent \in Nat
        /\ Price \in [Products -> Nat] /\ cart \in [Products -> Nat]
    BY ServicesAssumption DEF PricesTypeOK, Cent
  <1>2. B \subseteq Products /\ IsFiniteSet(B)
    BY BoughtIsFinite
  <1>3. ASSUME NEW p \in B
        PROVE  /\ ChargeOf[p] \in Int /\ owed[p] \in Int /\ cart[p] \in Int
               /\ u * ChargeOf[p] <= r * owed[p] + 0 * cart[p]
               /\ r * owed[p] <= u * ChargeOf[p] + (2 * u) * cart[p]
    <2> DEFINE c == cart[p]
               x == Price[p]
               y == Converting(Costing!Amount(x))
    <2>1. c \in Nat /\ x \in Nat /\ p \in Products
      BY <1>1, <1>2
    <2>2. ChargeOf[p] = c * y /\ owed[p] = c * x
      BY <2>1 DEF ChargeOf
    <2>3. Costing!Amount(x) \in MoneyType /\ Costing!getDouble(Costing!Amount(x)) = x
      BY <2>1, AmountOf DEF Costing!LosesZeros
    <2> HIDE DEF c, x
    <2>4. y \in Nat /\ u * y <= r * x /\ r * x <= u * y + 2 * u
      BY <1>1, <2>3, Converted DEF Converting
    <2> HIDE DEF y, u, r, owed
    <2>5. c * y \in Nat /\ c * x \in Nat /\ u * y \in Nat /\ r * x \in Nat
      BY <1>1, <2>1, <2>4
    <2>6. c * (u * y) <= c * (r * x) /\ c * (r * x) <= c * (u * y + 2 * u)
      BY <1>1, <2>1, <2>4, <2>5
    <2>7. /\ c * (u * y) = u * (c * y) /\ c * (r * x) = r * (c * x)
          /\ c * (u * y + 2 * u) = u * (c * y) + (2 * u) * c
      BY <1>1, <2>1, <2>4
    <2>8. u * (c * y) <= r * (c * x) + 0 * c /\ r * (c * x) <= u * (c * y) + (2 * u) * c
      BY <1>1, <2>1, <2>5, <2>6, <2>7
    <2>9. QED
      BY <2>1, <2>2, <2>5, <2>8 DEF c
  <1>4. Costing!getDouble(q) = Costing!Worth(q) /\ Costing!Worth(q) \in Nat
    BY WorthOf DEF Costing!LosesZeros
  <1>5. w \in Nat /\ u * w <= r * Costing!Worth(q) /\ r * Costing!Worth(q) <= u * w + 2 * u
    BY <1>1, <1>4, Converted DEF Converting
  <1>6. Costing!Items = n
    BY DEF Costing!Items, Sum
  <1> HIDE DEF u, r, B, owed, w
  <1>7. a \in Int /\ b \in Int /\ n \in Int
    BY <1>2, <1>3, SumIsInt
  <1>8. u * a <= r * b + 0 * n
    <2>1. u \in Int /\ r \in Int /\ 0 \in Int /\ B \in SUBSET B
      BY <1>1
    <2>2. QED
      BY <1>2, <1>3, <2>1, SumsCompare
  <1>9. r * b <= u * a + (2 * u) * n
    <2>1. u \in Int /\ r \in Int /\ 2 * u \in Int /\ B \in SUBSET B
      BY <1>1
    <2>2. QED
      BY <1>2, <1>3, <2>1, SumsCompare
  <1>10. r * v <= u * w + 2 * u + Cent * r /\ u * w <= r * v
    <2>1. r * (v - Cent) = r * v - Cent * r /\ r * v \in Nat /\ Cent * r \in Nat /\ u * w \in Nat
      BY <1>1, <1>5
    <2>2. r * Costing!Worth(q) = r * v \/ r * Costing!Worth(q) = r * v - Cent * r
      BY <2>1
    <2>3. QED
      BY <1>1, <1>5, <2>1, <2>2
  <1> HIDE DEF a, b, n
  <1>11. /\ (w + a) * u = u * w + u * a
         /\ (v + b) * r = r * v + r * b
         /\ 2 * (n + 1) * u = (2 * u) * n + 2 * u
         /\ u * w \in Int /\ u * a \in Int /\ r * v \in Int /\ r * b \in Int
         /\ (2 * u) * n \in Int /\ 0 * n = 0 /\ Cent * r \in Nat
    BY <1>1, <1>5, <1>7
  <1>12. /\ (v + b) * r - (w + a) * u <= Cent * r + 2 * (n + 1) * u
         /\ (w + a) * u - (v + b) * r <= 0
    BY <1>1, <1>8, <1>9, <1>10, <1>11
  <1>13. 0 <= Cent * r + 2 * (n + 1) * u
    BY <1>1, <1>8, <1>9, <1>10, <1>11, <1>12
  <1>14. QED
    BY <1>1, <1>6, <1>11, <1>12, <1>13
       DEF Costing!Near, Charge, u, r, B, owed, w, a, b, n

LEMMA ChargeIsShown ==
  ASSUME PricesTypeOK, \A p \in Costing!Bought : cart[p] = 1,
         currency = "USD" =>
           \A p \in Costing!Bought : ~Costing!LosesZeros(Costing!Amount(Price[p]))
  PROVE  Costing!Near(Charge(quote), Costing!Worth(Costing!total), Cardinality(Costing!Bought))
  <1> DEFINE B == Costing!Bought
             units == [p \in Products |-> Costing!getProductPrice(p).units]
             nanos == [p \in Products |-> Costing!getProductPrice(p).nanos]
             shown == [p \in Products |-> Costing!Worth(Costing!getProductPrice(p))]
             ones  == [p \in B |-> 1]
             s == Costing!shippingConst
             M == NanosMod
             a == Sum(ChargeOf, B)
             b == Sum(shown, B)
             y == Sum(units, B)
             z == Sum(nanos, B)
             n == Sum(ones, B)
  <1>1. /\ M \in Nat \ {0} /\ currency \in Codes /\ quote \in MoneyType
        /\ Price \in [Products -> Nat] /\ cart \in [Products -> Nat]
    BY ServicesAssumption DEF PricesTypeOK
  <1>2. B \subseteq Products /\ IsFiniteSet(B)
    BY BoughtIsFinite
  <1>3. s \in MoneyType /\ Converting(quote) = Costing!Worth(s)
    BY <1>1, Converted DEF Costing!shippingConst, Converting
  <1>4. ASSUME NEW p \in B
        PROVE  /\ ChargeOf[p] \in Int /\ shown[p] \in Int /\ units[p] \in Int
               /\ nanos[p] \in Int /\ ones[p] = 1
               /\ shown[p] = M * units[p] + nanos[p]
               /\ ChargeOf[p] <= shown[p] + 1 /\ shown[p] <= ChargeOf[p] + 1
    <2> DEFINE x == Costing!Amount(Price[p])
               g == Costing!getProductPrice(p)
               c == Costing!Convert(x, currency)
    <2>1. p \in Products /\ Price[p] \in Nat /\ cart[p] = 1
      BY <1>1, <1>2
    <2>2. x \in MoneyType /\ Costing!Worth(x) = Price[p]
      BY <2>1, AmountOf
    <2>3. /\ c \in MoneyType
          /\ currency = "USD" => /\ Costing!Worth(c) <= Costing!getDouble(x)
                                 /\ Costing!getDouble(x) <= Costing!Worth(c) + 1
      BY <1>1, <2>2, Converted
    <2>4. g = IF currency = "USD" THEN x ELSE c
      BY DEF Costing!getProductPrice
    <2>5. ChargeOf[p] = 1 * Costing!Worth(c)
      BY <2>1 DEF ChargeOf, Converting
    <2>6. currency = "USD" => Costing!getDouble(x) = Costing!Worth(x)
      BY DEF Costing!LosesZeros
    <2>7. /\ shown[p] = Costing!Worth(g) /\ units[p] = g.units /\ nanos[p] = g.nanos
          /\ ones[p] = 1
      BY <2>1
    <2> HIDE DEF g, x, c, shown, units, nanos, ones
    <2>8. g \in MoneyType
      BY <2>2, <2>3, <2>4
    <2>9. Costing!Worth(c) \in Nat /\ Costing!Worth(g) \in Nat
      BY <2>3, <2>8, WorthOf
    <2>10. g.units \in Nat /\ g.nanos \in Nat /\ Costing!Worth(g) = g.units * M + g.nanos
      BY <2>8, WorthOf DEF Costing!Worth
    <2>11. Costing!Worth(c) <= Costing!Worth(g) + 1 /\ Costing!Worth(g) <= Costing!Worth(c) + 1
      BY <2>3, <2>4, <2>6, <2>9
    <2>12. shown[p] = M * units[p] + nanos[p]
      BY <1>1, <2>7, <2>10
    <2>13. QED
      BY <2>5, <2>7, <2>9, <2>10, <2>11, <2>12
  <1>5. n = Cardinality(B)
    BY <1>2, SumCounts
  <1>6. Costing!unitSum = y + s.units /\ Costing!nanoSum = z + s.nanos
    BY DEF Costing!unitSum, Costing!nanoSum, Sum
  <1> HIDE DEF B, units, nanos, shown, ones, s
  <1>7. a \in Int /\ b \in Int /\ y \in Int /\ z \in Int /\ n \in Int
    BY <1>2, <1>4, SumIsInt
  <1>8. /\ 1 \in Int /\ -1 \in Int /\ M \in Int /\ -M \in Int /\ B \in SUBSET B
        /\ \A p \in B : ones[p] \in Int
    BY <1>1, <1>4
  <1>9. 1 * a <= 1 * b + 1 * n
    <2>1. \A p \in B : 1 * ChargeOf[p] <= 1 * shown[p] + 1 * ones[p]
      BY <1>4
    <2>2. QED
      BY <1>2, <1>4, <1>8, <2>1, SumsCompare
  <1>10. 1 * b <= 1 * a + 1 * n
    <2>1. \A p \in B : 1 * shown[p] <= 1 * ChargeOf[p] + 1 * ones[p]
      BY <1>4
    <2>2. QED
      BY <1>2, <1>4, <1>8, <2>1, SumsCompare
  <1>11. 1 * b <= M * y + 1 * z
    <2>1. \A p \in B : 1 * shown[p] <= M * units[p] + 1 * nanos[p]
      BY <1>1, <1>4
    <2>2. QED
      BY <1>2, <1>4, <1>8, <2>1, SumsCompare
  <1>12. (-1) * b <= (-M) * y + (-1) * z
    <2>1. \A p \in B : (-1) * shown[p] <= (-M) * units[p] + (-1) * nanos[p]
      BY <1>1, <1>4
    <2>2. QED
      BY <1>2, <1>4, <1>8, <2>1, SumsCompare
  <1> HIDE DEF a, b, y, z, n
  <1>13. b = M * y + z
    <2>1. (-M) * y = -(M * y) /\ M * y \in Int
      BY <1>1, <1>7
    <2>2. QED
      BY <1>7, <1>11, <1>12, <2>1
  <1>14. Costing!Worth(Costing!total) = b + Costing!Worth(s)
    <2> DEFINE i == Costing!unitSum
               j == Costing!nanoSum
    <2>1. s.units \in Nat /\ s.nanos \in Nat
      BY <1>3, WorthOf
    <2>2. i \in Int /\ j \in Int /\ i = y + s.units /\ j = z + s.nanos
      BY <1>6, <1>7, <2>1
    <2> DEFINE d == j \div M
               e == j % M
    <2>3. Costing!Worth(Costing!total) = (i + d) * M + e
      BY DEF Costing!total, Costing!Worth
    <2> HIDE DEF i, j
    <2>4. d \in Int /\ e \in 0 .. M - 1 /\ j = M * d + e
      BY <1>1, <2>2, DivMod, Zenon
    <2> HIDE DEF d, e
    <2>5. (i + d) * M = M * i + M * d
      BY <1>1, <2>2, <2>4
    <2>6. M * d \in Int /\ M * i \in Int
      BY <1>1, <2>2, <2>4
    <2>7. Costing!Worth(Costing!total) = M * i + j
      BY <1>1, <2>2, <2>3, <2>4, <2>5, <2>6
    <2>8. M * i = M * y + s.units * M
      BY <1>1, <1>7, <2>1, <2>2
    <2>9. Costing!Worth(s) = s.units * M + s.nanos
      BY DEF Costing!Worth
    <2>10. s.units * M \in Int /\ M * y \in Int
      BY <1>1, <1>7, <2>1
    <2>11. QED
      BY <1>7, <1>13, <2>1, <2>2, <2>7, <2>8, <2>9, <2>10
  <1>15. Charge(quote) = Costing!Worth(s) + a
    BY <1>3 DEF Charge, a, B
  <1>16. Costing!Worth(s) \in Nat
    BY <1>3, WorthOf
  <1>17. QED
    BY <1>5, <1>7, <1>9, <1>10, <1>14, <1>15, <1>16 DEF Costing!Near, B

\* Once it is placed, an order stays what it was, and so does what it was charged for.
PricesInv == PricesTypeOK /\ Costing!ChargedIsShown /\ Costing!ChargedIsOwed

\* What a quote and a bill are of whole cents.
LEMMA QuoteIsMoney ==
  ASSUME PricesTypeOK, NEW cost \in Costs, NEW fails \in BOOLEAN, NEW short \in BOOLEAN
  PROVE  LET v == Costing!calculateQuote(cost, fails)
             q == Costing!createQuote(v, short)
         IN  /\ q \in MoneyType /\ v \in Nat
             /\ Costing!Worth(q) = v \/ Costing!Worth(q) = v - Cent
  <1> DEFINE v == Costing!calculateQuote(cost, fails)
  <1>1. cost \in Nat /\ cost % Cent = 0 /\ Cent \in Nat \ {0} /\ cart \in [Products -> Nat]
    BY ServicesAssumption DEF Cent, PricesTypeOK
  <1>2. Costing!Items \in Nat
    <2> DEFINE B == Costing!Bought
               none == [p \in Products |-> 0]
    <2>1. /\ B \subseteq Products /\ IsFiniteSet(B) /\ B \in SUBSET B
          /\ \A p \in B : cart[p] \in Int /\ none[p] \in Int /\ cart[p] >= 0 /\ none[p] = 0
      BY <1>1, BoughtIsFinite
    <2> HIDE DEF B, none
    <2>2. Sum(cart, B) \in Int /\ Sum(none, B) \in Int
      BY <2>1, SumIsInt
    <2>3. 0 \in Int /\ 1 \in Int /\ \A p \in B : 0 * none[p] <= 1 * cart[p] + 0 * none[p]
      BY <2>1
    <2>4. 0 * Sum(none, B) <= 1 * Sum(cart, B) + 0 * Sum(none, B)
      BY <2>1, <2>3, SumsCompare
    <2>5. Sum(cart, B) \in Nat
      BY <2>2, <2>4
    <2>6. QED
      BY <2>5 DEF Costing!Items, Sum, B
  <1>3. PICK n \in Nat : cost = Cent * n
    <2>1. cost \in Int /\ cost >= 0
      BY <1>1
    <2>2. /\ cost \div Cent \in Int /\ cost % Cent \in 0 .. Cent - 1
          /\ cost = Cent * (cost \div Cent) + (cost % Cent)
          /\ cost >= 0 => cost \div Cent >= 0
      BY <1>1, <2>1, DivMod, Zenon
    <2> DEFINE d == cost \div Cent
    <2>3. d \in Nat
      BY <2>1, <2>2
    <2>4. cost = Cent * d + 0
      BY <1>1, <2>2
    <2> HIDE DEF d
    <2>5. cost = Cent * d
      BY <1>1, <2>3, <2>4
    <2>6. QED
      BY <2>3, <2>5
  <1>4. PICK m \in Nat : v = Cent * m
    <2>1. CASE fails
      <3>1. v = Cent * 0
        BY <1>1, <2>1 DEF Costing!calculateQuote
      <3>2. QED
        BY <3>1
    <2>2. CASE ~fails
      <3>1. v = cost * Costing!Items
        BY <2>2 DEF Costing!calculateQuote
      <3> HIDE DEF v
      <3>2. v = Cent * (n * Costing!Items) /\ n * Costing!Items \in Nat
        BY <1>1, <1>2, <1>3, <3>1
      <3>3. QED
        BY <3>2
    <2>3. QED
      BY <2>1, <2>2
  <1> HIDE DEF v
  <1>5. v \in Nat
    BY <1>1, <1>4
  <1>6. QED
    BY <1>4, <1>5, QuoteOf DEF v

\* What does not touch an order, what it is for, or what it is shown as, leaves it right.
LEMMA OrderStays ==
  ASSUME PricesInv,
         cart' = cart, currency' = currency, less' = less, quote' = quote, order' = order
  PROVE  PricesInv'
  BY DEF PricesInv, PricesTypeOK, Costing!ChargedIsShown, Costing!ChargedIsOwed, Costing!Items,
         Costing!Bought, Costing!LosesZeros, Costing!Near, Costing!Worth

LEMMA OrderIsPlaced ==
  ASSUME PricesInv, NEW cost \in Costs, NEW fails \in BOOLEAN, NEW short \in BOOLEAN,
         Costing!PlaceOrder(cost, fails, short)
  PROVE  PricesInv'
  <1> DEFINE v == Costing!calculateQuote(cost, fails)
             q == Costing!createQuote(v, short)
             B == Costing!Bought
             owed == Sum([p \in Products |-> cart[p] * Price[p]], B)
             lost == \E p \in B : Costing!LosesZeros(Costing!Amount(Price[p]))
  <1>1. /\ q \in MoneyType /\ v \in Nat
        /\ Costing!Worth(q) = v \/ Costing!Worth(q) = v - Cent
    BY QuoteIsMoney DEF PricesInv
  <1>2. /\ cart' = cart /\ currency' = currency /\ less' = less /\ quote' = quote
        /\ order' = [placed |-> TRUE, shown |-> Costing!total, quote |-> q, cost |-> cost,
                     fails |-> fails, charged |-> Charge(q)]
    BY DEF Costing!PlaceOrder, Charge, Converting, ChargeOf, Sum
  <1> HIDE DEF q
  <1>3. /\ order'.shown = Costing!total /\ order'.quote = q /\ order'.cost = cost
        /\ order'.fails = fails /\ order'.charged = Charge(q)
    BY <1>2
  <1>4. PricesTypeOK'
    BY <1>2 DEF PricesInv, PricesTypeOK
  <1>5. Costing!ChargedIsShown'
    <2>1. SUFFICES ASSUME q = quote, \A p \in B : cart[p] = 1, currency = "USD" => ~lost
                   PROVE  Costing!Near(Charge(q), Costing!Worth(Costing!total), Cardinality(B))
      BY <1>2, <1>3, SameCardinality
         DEF Costing!ChargedIsShown, Costing!Bought, Costing!LosesZeros, Costing!Near,
             Costing!Worth
    <2>2. QED
      BY <2>1, ChargeIsShown DEF PricesInv
  <1>6. Costing!ChargedIsOwed'
    <2>1. SUFFICES ASSUME ~fails, ~Costing!LosesZeros(q), ~lost
                   PROVE  Costing!Near(Charge(q) * Rate["USD"],
                                       (cost * Costing!Items + owed) * Rate[currency],
                                       Cent * Rate[currency]
                                         + 2 * (Costing!Items + 1) * Rate["USD"])
      BY <1>2, <1>3
         DEF Costing!ChargedIsOwed, Costing!Bought, Costing!LosesZeros, Costing!Near,
             Costing!Worth, Costing!Items, Cent, Sum
    <2>2. v = cost * Costing!Items
      BY <2>1 DEF Costing!calculateQuote
    <2>3. QED
      BY <1>1, <2>1, <2>2, ChargeIsOwed DEF PricesInv
  <1>7. QED
    BY <1>4, <1>5, <1>6 DEF PricesInv

LEMMA PricesStep ==
  ASSUME PricesInv, [Costing!Next]_prices
  PROVE  PricesInv'
  <1>1. CASE UNCHANGED prices
    BY <1>1, OrderStays DEF prices
  <1>2. ASSUME NEW p \in Products, Costing!AddItem(p) PROVE PricesInv'
    <2>1. /\ cart' = [cart EXCEPT ![p] = @ + 1] /\ quote' = Costing!Amount(0) /\ ~order.placed
          /\ currency' = currency /\ less' = less /\ order' = order
      BY <1>2 DEF Costing!AddItem
    <2>2. Costing!Amount(0) \in MoneyType
      BY AmountOf
    <2>3. cart' \in [Products -> Nat]
      BY <2>1 DEF PricesInv, PricesTypeOK
    <2>4. PricesTypeOK'
      BY <2>1, <2>2, <2>3 DEF PricesInv, PricesTypeOK
    <2>5. QED
      BY <2>1, <2>4 DEF PricesInv, Costing!ChargedIsShown, Costing!ChargedIsOwed
  <1>3. ASSUME NEW code \in Codes, Costing!SelectCurrency(code) PROVE PricesInv'
    <2>1. /\ currency' = code /\ quote' = Costing!Amount(0) /\ ~order.placed
          /\ cart' = cart /\ less' = less /\ order' = order
      BY <1>3 DEF Costing!SelectCurrency
    <2>2. Costing!Amount(0) \in MoneyType
      BY AmountOf
    <2>3. PricesTypeOK'
      BY <2>1, <2>2 DEF PricesInv, PricesTypeOK
    <2>4. QED
      BY <2>1, <2>3 DEF PricesInv, Costing!ChargedIsShown, Costing!ChargedIsOwed
  <1>4. ASSUME NEW code \in Codes, Costing!ConvertElsewhere(code) PROVE PricesInv'
    BY <1>4, OrderStays DEF Costing!ConvertElsewhere
  <1>5. ASSUME NEW cost \in Costs, NEW fails \in BOOLEAN, NEW short \in BOOLEAN,
               Costing!GetShipping(cost, fails, short)
        PROVE  PricesInv'
    <2>1. /\ quote' = Costing!createQuote(Costing!calculateQuote(cost, fails), short)
          /\ ~order.placed
          /\ cart' = cart /\ currency' = currency /\ less' = less /\ order' = order
      BY <1>5 DEF Costing!GetShipping
    <2>2. quote' \in MoneyType
      BY <2>1, QuoteIsMoney DEF PricesInv
    <2>3. PricesTypeOK'
      BY <2>1, <2>2 DEF PricesInv, PricesTypeOK
    <2>4. QED
      BY <2>1, <2>3 DEF PricesInv, Costing!ChargedIsShown, Costing!ChargedIsOwed
  <1>6. QED
    BY <1>1, <1>2, <1>3, <1>4, <1>5, OrderIsPlaced DEF Costing!Next

LEMMA PricesHold == Spec => []PricesInv
  <1>1. Init => PricesInv
    <2>1. SUFFICES ASSUME Costing!Init PROVE PricesInv
      BY DEF Init
    <2>2. "USD" \in Codes /\ Costing!Amount(0) \in MoneyType
      BY ServicesAssumption, AmountOf
    <2>3. PricesTypeOK /\ order.placed = FALSE
      BY <2>1, <2>2 DEF Costing!Init, Costing!NoOrder, PricesTypeOK
    <2>4. QED
      BY <2>3 DEF PricesInv, Costing!ChargedIsShown, Costing!ChargedIsOwed
  <1>2. PricesInv /\ [Next]_vars => PricesInv'
    BY PartsSteps, PricesStep
  <1>3. QED
    BY <1>1, <1>2, PTL DEF Spec

\* An order is charged what the cart page shows, to a nano for each product, under the
\* conditions that Prices names, whatever the prices, the rates and the costs of shipping.
THEOREM ShownIsCharged == Spec => []ChargedIsShown
  <1>1. PricesInv => ChargedIsShown
    BY DEF PricesInv, ChargedIsShown
  <1>2. QED
    BY <1>1, PricesHold, PTL

\* An order is charged what the catalogue and the quote say, to a cent and two nanos for
\* each piece, under the conditions that Prices names.
THEOREM OwedIsCharged == Spec => []ChargedIsOwed
  <1>1. PricesInv => ChargedIsOwed
    BY DEF PricesInv, ChargedIsOwed
  <1>2. QED
    BY <1>1, PricesHold, PTL
=============================================================================
