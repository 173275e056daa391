------------------------------ MODULE MCServices ------------------------------
(***************************************************************************)
(* The systems of Services in one run: they share no state, so that a      *)
(* behaviour is of one of them, its scene, and the variables of the others *)
(* stay as they are.                                                       *)
(***************************************************************************)
EXTENDS Services

CONSTANTS t1, t2, t3

VARIABLE scene

mcVars == <<scene, vars>>

\* A price whose nanos begin with a zero, one whose do not, a cost of shipping that has
\* such nanos when it loses a cent; and a currency that the shop does not know.
MCPrice == [lens |-> 57080, book |-> 21950]
MCRate  == [USD |-> 113, EUR |-> 100, XYZ |-> 0]

MCInit ==
  /\ scene \in {"sessions", "orders", "load", "valkey", "advice", "prices"}
  /\ Init
  /\ scene # "orders" => group = "accounting"
  /\ scene # "prices" => \A code \in DOMAIN less : less[code] = 0

Only(name, A) == scene = name /\ UNCHANGED scene /\ A

MCNext ==
  \/ Only("sessions", InSessions) \/ Only("orders", InOrders) \/ Only("load", InLoad)
  \/ Only("valkey", InValkey) \/ Only("advice", InAdvice) \/ Only("prices", InPrices)

\* The consumers in their scene.
Consumers(A) ==
  Only("orders", A /\ UNCHANGED <<sessions, load, valkey, advice, prices>>)

\* A service that stopped is started, and one that runs goes on with its loop.
MCSpec ==
  /\ MCInit /\ [][MCNext]_mcVars
  /\ WF_mcVars(Consumers(Orders!Start))
  /\ WF_mcVars(Consumers(Orders!Work))

-----------------------------------------------------------------------------
\* Neither of the two consumers is stopped for good by a record that cannot be parsed
\* (see OrderConsumers).
CatchesUp == scene = "orders" => Orders!CatchesUp
=============================================================================
