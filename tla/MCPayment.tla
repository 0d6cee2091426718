------------------------------ MODULE MCPayment ------------------------------
(* Two deliveries of OrderCreated and an HTTP charge that may overlap. *)
EXTENDS Payment, TLC

CONSTANTS o1, o2, d1, d2, r1

MCOrders == {o1, o2}
MCDeliveries == {d1, d2}
\* o2's total is the declined amount.
MCTotal == (o1 :> 10) @@ (o2 :> 13)
Symmetry == Permutations(MCDeliveries)
=============================================================================
