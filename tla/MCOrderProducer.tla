-------------------------- MODULE MCOrderProducer --------------------------
(* Two orders, the first of which may overload the queue with two copies.     *)
EXTENDS OrderProducer, TLC

CONSTANTS o1, o2, c1, c2

CopiesOfFirst == (c1 :> o1) @@ (c2 :> o1)
=============================================================================
