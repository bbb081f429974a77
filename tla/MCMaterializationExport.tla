----------------------- MODULE MCMaterializationExport -----------------------
(* Instances of MaterializationExport for TLC. *)
EXTENDS MaterializationExport

CONSTANTS k1, k2, p1, p2, p3, m1, m2

\* A promotion of k1, and a split that moves it once more.
Repartitions == {[from |-> p1, router |-> FALSE, child |-> [k \in {k1} |-> p2]],
                 [from |-> p2, router |-> TRUE, child |-> [k \in {k1} |-> p3]]}
Promotion == {[from |-> p1, router |-> FALSE, child |-> [k \in {k1} |-> p2]]}
\* A split of the receiver.
MatRepartitions == {[from |-> m1, router |-> TRUE, child |-> [k \in Keys |-> m2]]}
=============================================================================
