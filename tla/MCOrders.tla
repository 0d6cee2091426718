------------------------------ MODULE MCOrders ------------------------------
(* Two orders compete for the same stock; a third asks for a product the   *)
(* catalog does not list.                                                  *)
EXTENDS Orders, TLC

CONSTANTS o1, o2, o3, p1, p2, p3

MCOrderIds == {o1, o2, o3}
MCProducts == {p1, p2, p3}
Quantities(a, b, c) == (p1 :> a) @@ (p2 :> b) @@ (p3 :> c)
MCCart == (o1 :> Quantities(2, 1, 0)) @@ (o2 :> Quantities(1, 0, 0)) @@ (o3 :> Quantities(0, 1, 1))
MCListed == (p1 :> 2) @@ (p2 :> 1)
\* o2's payment is declined.
MCOutcomes == (o1 :> {"succeeded"}) @@ (o2 :> {"failed"}) @@ (o3 :> {})
=============================================================================
