-------------------------- MODULE MCEncodedTopology --------------------------
(* The instances of EncodedTopology that TLC checks. *)
EXTENDS EncodedTopology

Children == 0 .. HashSplitN - 1
Roots == 0 .. RootTreesN - 1

\* Every node above depth 3, and every routing hash that tells them apart.
DeepNodes ==
  {<<r>> : r \in Roots} \cup {<<r, c>> : r \in Roots, c \in Children}
  \cup {<<r, c, d>> : r \in Roots, c \in Children, d \in Children}
\* The first tree to depth 3, the others to depth 2.
UnevenNodes == {n \in DeepNodes : n[1] = 0 \/ Len(n) < 3}
Hashes16 == 0 .. 15

\* A routing hash as a number in base HashSplitN.
Powers == [i \in 0 .. 4 |-> HashSplitN ^ i]
AllDigits == [h \in Hashes |->
  <<h % RootTreesN>> \o [i \in 1 .. 3 |-> (h \div (RootTreesN * Powers[i - 1])) % HashSplitN]]

MCBloomBits(capacity, h) ==
  IF capacity <= 2 THEN {h % 2, 2 + (h % 3)} ELSE {h % 3, 3 + (h % 4)}

\* A tree of range splits down to single keys.
TreeSplits ==
  {[start |-> 0, mid |-> 5, end |-> 8], [start |-> 0, mid |-> 3, end |-> 5], [start |-> 5, mid |-> 6, end |-> 8],
   [start |-> 0, mid |-> 1, end |-> 3], [start |-> 1, mid |-> 2, end |-> 3], [start |-> 3, mid |-> 4, end |-> 5],
   [start |-> 6, mid |-> 7, end |-> 8]}

\* The three bodies share no state but the hash body: the facts of one kind at a time, so that TLC explores
\* the sum of their orders instead of the product.
OneKindAtATime ==
  \/ nodes = {} /\ promoted = {}
  \/ intervals = {} /\ (promoted = {} \/ nodes \subseteq {<<0>>})

MCSpec == Init /\ [][Next /\ OneKindAtATime']_vars
=============================================================================
