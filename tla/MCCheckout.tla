----------------------------- MODULE MCCheckout -----------------------------
(* Two orders over two products with enough stock for both; the processor *)
(* declines the second.  Their events share the only partition.           *)
EXTENDS Checkout, TLC

CONSTANTS o1, o2, p1, p2, r1

MCOrderIds == {o1, o2}
MCProducts == {p1, p2}
MCCart == (o1 :> (p1 :> 1 @@ p2 :> 1)) @@ (o2 :> (p1 :> 1 @@ p2 :> 0))
MCListed == (p1 :> 2) @@ (p2 :> 1)
MCTotal == (o1 :> 10) @@ (o2 :> 13)
MCPartitions == {1}
MCHash == [o \in MCOrderIds |-> 1]
=============================================================================
