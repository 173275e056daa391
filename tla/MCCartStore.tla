---------------------------- MODULE MCCartStore ----------------------------
(* One user: the calls of another concern another key.                        *)
EXTENDS CartStore

CONSTANTS u1, a1, a2, e1, g1

OneCaller == [c \in Calls |-> u1]
=============================================================================
