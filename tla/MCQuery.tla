------------------------------- MODULE MCQuery -------------------------------
(* The instance of Query that TLC checks. *)
EXTENDS Query

\* Four keys of one hash: a hash key with three sort keys and a hash key with one.  A second hash of the same
\* partitions, and a third in a tree of its own.
TheHashOf == [k \in Keys |-> IF k < 5 THEN 1 ELSE k - 3]
TheDigits == <<<<0, 0, 0>>, <<0, 0, 0>>, <<1, 0>>>>
TheSplittable == {<<0>>, <<0, 0>>}
TheBounds == [h \in Promotable |-> IF h = 1 THEN {2, 3} ELSE {}]
TheTopologies == {[splits |-> {}, promoted |-> {}], [splits |-> {<<0>>}, promoted |-> {1}]}
\* The table of an earlier life had split every hash partition that may split, and the root of the third hash,
\* and may have promoted the first hash.
TheViews == {[known |-> TRUE, splits |-> TheSplittable \cup {<<1>>}, promoted |-> hs, cut |-> {}] : hs \in {{}, {1}}}

TheRequests ==
  {[shape |-> "point", op |-> "get", keys |-> {3}], [shape |-> "point", op |-> "get", keys |-> {5}],
   [shape |-> "single_owner", op |-> "put", keys |-> {3, 5}]}

\* The second item is above the response budget alone.
TheWeight == [k \in Keys |-> IF k = 2 THEN 4 ELSE 1]
AllOf(first, next) ==
  [first |-> first, next |-> next, lower |-> Bound(first, TRUE), upper |-> Bound(next, FALSE), desc |-> FALSE, empty |-> FALSE]
Forward ==
  [queries |-> <<AllOf(1, 4), [AllOf(1, 4) EXCEPT !.empty = TRUE], [AllOf(6, 7) EXCEPT !.upper = Bound(6, TRUE)]>>,
   limit |-> 2, response |-> 3, select |-> "projection"]
Backward ==
  [queries |-> <<[AllOf(1, 4) EXCEPT !.desc = TRUE, !.lower = Bound(1, FALSE)]>>, limit |-> 9, response |-> 3, select |-> "projection"]
Counted == [queries |-> <<AllOf(1, 4), AllOf(5, 6)>>, limit |-> 9, response |-> 3, select |-> "count"]
TheQueries == {Forward, Backward, Counted}

=============================================================================
