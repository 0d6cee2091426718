----------------------------- MODULE MCEventBus -----------------------------
(* One topic, three orders on two partitions: two of them share one. *)
EXTENDS EventBus

CONSTANTS k1, k2, k3

MCKeys == {k1, k2, k3}
MCHash == [k \in MCKeys |-> IF k = k3 THEN 2 ELSE 1]
=============================================================================
