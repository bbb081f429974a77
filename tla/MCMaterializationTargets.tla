---------------------- MODULE MCMaterializationTargets ----------------------
(* Instances of MaterializationTargets for TLC. *)
EXTENDS MaterializationTargets

CONSTANTS k1, k2, p1, p2, push, gsi, g1, g2

Promotion == {[from |-> p1, router |-> FALSE, child |-> [k \in {k1} |-> p2]]}
NoPlan == {}
=============================================================================
