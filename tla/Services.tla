-------------------------------- MODULE Services --------------------------------
(***************************************************************************)
(* The parts of the shop that share no state and send each other nothing   *)
(* whose order matters, side by side: the session that tabs keep, the two  *)
(* consumers of the topic of orders, the load that the ad service makes,   *)
(* the connection of the cart service, the cache of recommendations, and   *)
(* what a cart costs.  A step is a step of one of them.                    *)
(***************************************************************************)
EXTENDS Integers, Sequences, FiniteSets

CONSTANTS
  Tabs, Currencies, Default,                              \* Session
  MaxOrders, MaxBatch, MaxCrashes,                        \* OrderConsumers
  Threads,                                                \* of each service that has some
  ThreadCount, MaxCalls,                                  \* CpuLoad
  MaxConnections, MaxDrops,                               \* CartConnection
  Catalogue,                                              \* Recommendations
  Products, Price, MaxQuantity, Codes, Rate, Costs, NanosMod   \* Prices

\* A hundredth of NanosMod is a cent.  Shipping costs whole cents, of which the quote
\* service chooses tens.
ASSUME ServicesAssumption ==
  /\ MaxBatch \in Nat
  /\ ThreadCount \in Nat
  /\ MaxConnections \in Nat
  /\ Catalogue \in Nat /\ IsFiniteSet(Threads)
  /\ IsFiniteSet(Products) /\ Price \in [Products -> Nat]
  /\ "USD" \in Codes /\ Rate \in [Codes -> Nat] /\ Rate["USD"] > 0
  /\ NanosMod \in Nat \ {0} /\ NanosMod % 100 = 0
  /\ Costs \subseteq Nat /\ \A cost \in Costs : cost % (NanosMod \div 100) = 0

VARIABLES
  storage, tab, raced,                                                           \* Session
  group, topic, committed, position, pending, up, handled, crashes,              \* OrderConsumers
  first, passed,
  instance, call, running, workers, calls, clash,                                \* CpuLoad
  redis, opened, locker, at, link, watched, events, drops, missed,               \* CartConnection
  first_run, cached_ids, request, misses, extended,                              \* Recommendations
  cart, currency, table, less, quote, order                                      \* Prices

sessions == <<storage, tab, raced>>
orders   == <<group, topic, committed, position, pending, up, handled, crashes,
              first, passed>>
load     == <<instance, call, running, workers, calls, clash>>
valkey   == <<redis, opened, locker, at, link, watched, events, drops, missed>>
advice   == <<first_run, cached_ids, request, misses, extended>>
prices   == <<cart, currency, table, less, quote, order>>
vars     == <<sessions, orders, load, valkey, advice, prices>>

Sessions == INSTANCE Session
Orders   == INSTANCE OrderConsumers
Load     == INSTANCE CpuLoad WITH Requests <- Threads
Valkey   == INSTANCE CartConnection
Advice   == INSTANCE Recommendations WITH Requests <- Threads
Costing  == INSTANCE Prices

Init ==
  /\ Sessions!Init /\ Orders!Init /\ Load!Init /\ Valkey!Init /\ Advice!Init /\ Costing!Init

InSessions == Sessions!Next /\ UNCHANGED <<orders, load, valkey, advice, prices>>
InOrders   == Orders!Next /\ UNCHANGED <<sessions, load, valkey, advice, prices>>
InLoad     == Load!Next /\ UNCHANGED <<sessions, orders, valkey, advice, prices>>
InValkey   == Valkey!Next /\ UNCHANGED <<sessions, orders, load, advice, prices>>
InAdvice   == Advice!Next /\ UNCHANGED <<sessions, orders, load, valkey, prices>>
InPrices   == Costing!Next /\ UNCHANGED <<sessions, orders, load, valkey, advice>>

Next == InSessions \/ InOrders \/ InLoad \/ InValkey \/ InAdvice \/ InPrices

Spec == Init /\ [][Next]_vars

-----------------------------------------------------------------------------
\* A tab orders the cart it fills, unless two tabs stored a session at once (see Session).
OneUserPerBrowser == Sessions!OneUserPerBrowser

\* Which orders accounting and fraud detection lose, and when (see OrderConsumers).
OrdersLostHaveCause == Orders!OrdersLostHaveCause

\* An instance of the ad service's load has workers when it is running and none when it
\* is not (see CpuLoad).
WorkersAreThoseOfRunning == Load!WorkersAreThoseOfRunning

\* The flag of the cart service tells whether its connection is good (see CartConnection).
FlagTellsTheTruth == Valkey!FlagTellsTheTruth

\* The cache of the recommendation service between its bounds (see Recommendations).
CacheHoldsCatalogues == Advice!CacheHoldsCatalogues

\* When an order is charged what the cart page shows (see Prices).
ChargedIsShown == Costing!ChargedIsShown

\* When an order is charged what the catalogue and the quote say (see Prices).
ChargedIsOwed == Costing!ChargedIsOwed
=============================================================================
