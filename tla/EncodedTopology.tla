--------------------------- MODULE EncodedTopology ---------------------------
(***************************************************************************)
(* The two encoded bodies of a topology: the writer side                   *)
(* (sharding/topology-encode.ts, the range sweep of topology-keeper.ts)    *)
(* and the readers (topology-codec.ts), checked on every order in which    *)
(* the facts of a small tree can come and be built into the bodies.        *)
(*                                                                         *)
(* A hash partition is a node <<root, child, ..., child>>, a routing hash  *)
(* its digits (the root, then a child index per level) and a bitmap a      *)
(* sequence of 0 and 1 whose first element is position 0.  A sort position *)
(* of a promoted hash is a natural number: 0 is ~min, KeyMax is ~max, and  *)
(* an interval is [start, end) of them.  The framing of a body (magic,     *)
(* header, offsets, padding) is left out, and so is how the facts get to   *)
(* the keeper and when it builds (topology-keeper.ts): a build may happen  *)
(* at any time.                                                            *)
(***************************************************************************)
EXTENDS Naturals, Integers, Sequences, FiniteSets, SequencesExt

CONSTANTS
  RankBlock,        \* TOPOLOGY_RANK_BLOCK_BITS: the bits of one block of the rank index
  KeyMax,           \* ~max
  BloomMinCapacity, \* TOPOLOGY_BLOOM_MIN_CAPACITY
  BloomBits(_, _),  \* the bits a routing hash sets in a filter of a capacity
  RangeBodyMax,     \* the boundaries that fit in maxRangeBodyBytes
  PromotedListMax,  \* the longest list of promoted hashes; above it the body has a Bloom filter
  RootTreesN, HashSplitN,
  Nodes,            \* the hash partitions that can split
  Hashes,           \* the routing hashes, as naturals in their order
  Promotable,       \* those that can be promoted
  Digits,           \* [Hashes -> Seq(Nat)]: the root and the child digits of a routing hash
  RangeSplits,      \* the range splits that can be reported, as [start, mid, end]
  None              \* null; also the result of an encoder where an invariant() of the code fails

\* Binds the value of an intermediate result: Then(x, Op) is Op(x).
Then(x, Op(_)) == CHOOSE r \in {Op(y) : y \in {x}} : TRUE

\* FoldLeft, with each result bound before the next element.
FoldValues(Op(_, _), base, seq) == FoldLeft(LAMBDA acc, x : Then(acc, LAMBDA a : Op(a, x)), base, seq)

\* The elements of a set in a strict order: the element with i - 1 others before it comes i-th.
InOrder(S, Before(_, _)) ==
  [i \in 1 .. Cardinality(S) |-> CHOOSE x \in S : Cardinality({y \in S : Before(y, x)}) = i - 1]

Zeros(n) == [i \in 1 .. n |-> 0]

\* The ones at the positions from .. to - 1, and all of them.
OnesIn(bits, from, to) == Cardinality({i \in DOMAIN bits : from < i /\ i <= to /\ bits[i] = 1})
Ones(bits) == OnesIn(bits, 0, Len(bits))

----------------------------------------------------------------------------
(* The hash split bitmap: a level-order tree with rank (LOUDS). *)

\* The byte order of node keys [depth, root, path]: the level order.
NodeBefore(x, y) ==
  \/ Len(x) < Len(y)
  \/ /\ Len(x) = Len(y)
     /\ \E i \in DOMAIN x : x[i] < y[i] /\ \A j \in 1 .. i - 1 : x[j] = y[j]

InLevelOrder(nodes) == InOrder(nodes, NodeBefore)

\* The ones before each block of RankBlock bits, and the total at the end.
rankIndex(bits) ==
  LET blocks == (Len(bits) + RankBlock - 1) \div RankBlock
  IN [b \in 1 .. blocks + 1 |-> OnesIn(bits, 0, (b - 1) * RankBlock)]

hashBit(view, pos) == pos < Len(view.bits) /\ view.bits[pos + 1] = 1

\* The ones before pos: the index of its block, and the ones of the block before it.
hashRank1(view, pos) ==
  LET block == pos \div RankBlock
  IN view.rank[block + 1] + OnesIn(view.bits, block * RankBlock, pos)

ChildPos(view, pos, child) == view.rootTreesN + view.hashSplitN * hashRank1(view, pos) + child

\* Two cursors over the same scan: one on the nodes, one that moves to the parent of each.
encodeHashBitmap(R, K, nodeCount, scan) ==
  LET bitCount == R + K * nodeCount
      Place(acc, node) ==
        LET ahead == {j \in acc.parent .. Len(scan) : scan[j] = Front(node)}
            parent == CHOOSE j \in ahead : \A l \in ahead : j <= l
            pos == IF Len(node) = 1 THEN node[1] ELSE R + K * (parent - 1) + Last(node)
        IN IF acc = None \/ (Len(node) > 1 /\ ahead = {}) THEN None
           ELSE IF pos >= bitCount THEN None
           ELSE [parent |-> IF Len(node) = 1 THEN acc.parent ELSE parent,
                 bits |-> [acc.bits EXCEPT ![pos + 1] = 1]]
      placed == FoldValues(Place, [parent |-> 1, bits |-> Zeros(bitCount)], scan)
  IN IF Len(scan) # nodeCount \/ placed = None THEN None ELSE placed.bits

\* The position of a pending split in the old bitmap, or -1 when it is under a leaf of it.
oldPosition(old, node) ==
  FoldValues(LAMBDA pos, child : IF pos = -1 \/ ~hashBit(old, pos) THEN -1 ELSE ChildPos(old, pos, child),
           node[1], Tail(node))

\* The merge walks the result in level order.  m.queue holds runs of old positions (key <<>>) and new
\* nodes, m.out the result so far, m.oldChild the old position of the children of the next old split.
HeadPos(old, m) == IF m.pending = <<>> THEN -1 ELSE oldPosition(old, Head(m.pending))

RunLength(e, headPos) ==
  IF headPos \in e.start .. e.start + e.len - 1 THEN headPos - e.start ELSE e.len

\* The children of an old run are the next run of old positions.
appendOld(queue, tail, start, len) ==
  IF len = 0 THEN queue
  ELSE IF tail.key = <<>> /\ tail.start + tail.len = start
  THEN [queue EXCEPT ![Len(queue)].len = @ + len]
  ELSE Append(queue, [start |-> start, len |-> len, key |-> <<>>])

\* Copies the run at the front up to the next pending split.
CopyRun(old, m, len, run) ==
  [m EXCEPT !.out = @ \o run,
            !.oldChild = @ + old.hashSplitN * Ones(run),
            !.queue = LET moved == [@ EXCEPT ![1].start = @ + len, ![1].len = @ - len]
                      IN appendOld(moved, Last(moved), m.oldChild, old.hashSplitN * Ones(run))]

\* Marks the pending split at the front, and queues its children, which are new nodes.
splitNew(old, m) ==
  [out |-> Append(m.out, 1), oldChild |-> m.oldChild, pending |-> Tail(m.pending),
   queue |-> [m.queue EXCEPT ![1].start = @ + 1, ![1].len = @ - 1]
             \o [c \in 1 .. old.hashSplitN |->
                   [start |-> 0, len |-> 1, key |-> Append(Head(m.pending), c - 1)]]]

\* Mutant of SplitAtFront: the key of a new node is not compared.
SplitAnyNew(old, m, e, headPos) ==
  IF e.key = <<>>
  THEN IF e.len > 0 /\ headPos = e.start THEN splitNew(old, m) ELSE m
  ELSE IF m.pending # <<>> /\ headPos = -1 THEN splitNew(old, m)
  ELSE [m EXCEPT !.out = Append(@, 0), !.queue[1].len = 0]

\* An old leaf that is a pending split, or a new node that is one.
SplitAtFront(old, m, e, headPos) ==
  IF e.key = <<>>
  THEN IF e.len > 0 /\ headPos = e.start THEN splitNew(old, m) ELSE m
  ELSE IF m.pending # <<>> /\ headPos = -1 /\ Head(m.pending) = e.key THEN splitNew(old, m)
  ELSE [m EXCEPT !.out = Append(@, 0), !.queue[1].len = 0]

DropDone(m) == IF m.queue[1].len = 0 THEN [m EXCEPT !.queue = Tail(@)] ELSE m

\* One turn of the loop.
MergeStep(old, m) ==
  LET Copied(len) == IF m.queue[1].key # <<>> THEN m
                     ELSE CopyRun(old, m, len, SubSeq(old.bits, m.queue[1].start + 1, m.queue[1].start + len))
  IN Then(Then(RunLength(m.queue[1], HeadPos(old, m)), Copied),
          LAMBDA c : DropDone(SplitAtFront(old, c, c.queue[1], HeadPos(old, c))))

\* The bitmap of the splits of old and the pending ones, without the rows of the splits of old.
mergeHashBitmap(old, nodeCount, pending) ==
  LET bitCount == old.rootTreesN + old.hashSplitN * nodeCount
      start == [queue |-> <<[start |-> 0, len |-> old.rootTreesN, key |-> <<>>]>>,
                out |-> <<>>, oldChild |-> old.rootTreesN, pending |-> pending]
      merged == FoldValues(LAMBDA m, turn : IF m.queue = <<>> THEN m ELSE MergeStep(old, m),
                         start, Zeros(2 * bitCount + 2))
  IN IF /\ merged.queue = <<>> /\ merged.pending = <<>>
        /\ Len(merged.out) = bitCount /\ Ones(merged.out) = nodeCount
        /\ merged.oldChild = Len(old.bits)
     THEN merged.out ELSE None

\* The deepest known hash partition of a routing hash; the walk stops before a position in cut.
findLeaf(view, digits, cut) ==
  LET Walk(acc, child) ==
        LET next == ChildPos(view, acc.pos, child)
        IN IF acc.done \/ ~hashBit(view, acc.pos) \/ next \in cut
           THEN [acc EXCEPT !.done = TRUE]
           ELSE [acc EXCEPT !.pos = next, !.path = Append(@, child)]
  IN FoldValues(Walk, [pos |-> digits[1], path |-> <<digits[1]>>, done |-> FALSE], Tail(digits)).path

----------------------------------------------------------------------------
(* The promoted routing hashes: a sorted list, or a Bloom filter. *)

\* The merge of two sorted streams; an equal value goes in once.
mergePromotedRoutingHashes(base, added) ==
  LET merge[i \in 1 .. Len(base) + 1, j \in 1 .. Len(added) + 1] ==
        LET fromBase == j > Len(added) \/ (i <= Len(base) /\ base[i] <= added[j])
            v == IF fromBase THEN base[i] ELSE added[j]
            rest == IF fromBase THEN merge[i + 1, j] ELSE merge[i, j + 1]
        IN IF i > Len(base) /\ j > Len(added) THEN <<>>
           ELSE IF rest # <<>> /\ Head(rest) = v THEN rest ELSE <<v>> \o rest
  IN merge[1, 1]

promotedRoutingHashesInOrder(list) == \A i \in 2 .. Len(list) : list[i - 1] < list[i]

\* The smallest doubling of BloomMinCapacity that holds count keys.
BloomCapacity(count) ==
  LET sizes == {BloomMinCapacity * 2^i : i \in 0 .. count}
  IN CHOOSE c \in sizes : c >= count /\ \A d \in sizes : d >= count => c <= d

\* Mutant of promotedKeysBloom: a filter of another size is extended.
promotedKeysBloomAnySize(count, all, old, added) ==
  LET capacity == BloomCapacity(count)
      extends == old # None
  IN [capacity |-> capacity,
      bits |-> UNION {BloomBits(capacity, h) : h \in IF extends THEN added ELSE all}
               \cup (IF extends THEN old.bits ELSE {})]

\* One layer with every promoted hash: a copy of the old bits and the new hashes when the old filter
\* has the same size, else all of them.
promotedKeysBloom(count, all, old, added) ==
  LET capacity == BloomCapacity(count)
      extends == old # None /\ old.capacity = capacity
  IN [capacity |-> capacity,
      bits |-> UNION {BloomBits(capacity, h) : h \in IF extends THEN added ELSE all}
               \cup (IF extends THEN old.bits ELSE {})]

isPromotedRoutingHash(view, h) ==
  LET Halve(s, turn) ==
        LET mid == s.a + (s.b - s.a) \div 2
        IN IF s.a >= s.b THEN s
           ELSE IF view.promoted[mid + 1] < h THEN [s EXCEPT !.a = mid + 1] ELSE [s EXCEPT !.b = mid]
      found == FoldValues(Halve, [a |-> 0, b |-> Len(view.promoted)], view.promoted).a
  IN IF view.promoted = None
     THEN IF view.bloom # None /\ BloomBits(view.bloom.capacity, h) \subseteq view.bloom.bits
          THEN "maybe" ELSE "false"
     ELSE IF found < Len(view.promoted) /\ view.promoted[found + 1] = h THEN "exact" ELSE "false"

----------------------------------------------------------------------------
(* The range body of one promoted hash. *)

Interval == [start : 0 .. KeyMax - 1, end : 1 .. KeyMax]

\* The primary key order: the start ascending, then the end descending.
RowBefore(x, y) == x.start < y.start \/ (x.start = y.start /\ x.end > y.end)

\* Closes each open interval that ends at or before start; KeyMax closes every one but the root.
CloseBefore(acc, start) ==
  LET Close(a, turn) ==
        LET end == Last(a.stack).end
            open == SelectSeq(a.stack, LAMBDA s : s.end # end)
            level == IF open = <<>> THEN -1 ELSE Last(open).rank
            emits == start = KeyMax \/ end < start
        IN IF a.stack = <<>> THEN a
           ELSE IF end = KeyMax \/ end > start THEN a
           ELSE [a EXCEPT !.stack = open,
                          !.boundaries = IF emits THEN Append(@, end) ELSE @,
                          !.levels = IF emits THEN Append(@, level) ELSE @,
                          !.depths = IF emits THEN Append(@, level) ELSE @]
  IN FoldValues(Close, acc, acc.stack)

\* One pass over the intervals in row order, with a stack of the open ancestors of the current one.
SweepRow(acc, row, maxKeptRank) ==
  LET closed == CloseBefore(acc, row.start)
      top == Last(closed.stack)
      rank == IF closed.stack = <<>> THEN 0 ELSE top.rank + 1
      emits == row.start > 0 /\ (closed.boundaries = <<>> \/ Last(closed.boundaries) # row.start)
      level == rank - 1
      depths == IF emits THEN Append(closed.depths, level) ELSE closed.depths
  IN IF acc.crossed THEN acc
     ELSE IF closed.stack # <<>> /\ top.end # KeyMax /\ (row.end = KeyMax \/ top.end < row.end)
          THEN [acc EXCEPT !.crossed = TRUE]
     ELSE IF rank > maxKeptRank THEN closed
     ELSE [closed EXCEPT !.boundaries = IF emits THEN Append(@, row.start) ELSE @,
                         !.levels = IF emits THEN Append(@, level) ELSE @,
                         !.depths = [depths EXCEPT ![Len(depths)] = rank],
                         !.maxRank = IF rank > @ THEN rank ELSE @,
                         !.stack = Append(@, [end |-> row.end, rank |-> rank])]

sweepRangeIntervals(rows, maxKeptRank) ==
  CloseBefore(FoldValues(LAMBDA acc, row : SweepRow(acc, row, maxKeptRank),
                       [boundaries |-> <<>>, levels |-> <<>>, depths |-> <<0>>, maxRank |-> 0,
                        stack |-> <<>>, crossed |-> FALSE], rows),
              KeyMax)

\* The boundaries that the ranks up to m need: those whose level is below m.
SizeBelow(swept, m) == Cardinality({j \in DOMAIN swept.levels : swept.levels[j] < m})

\* The range body of a set of known intervals.  A body that is too large drops its deepest ranks;
\* intervals that cross leave only the range root.
buildRangeBody(intervals) ==
  LET rows == InOrder(intervals, RowBefore)
      Body(swept, truncated) ==
        [boundaries |-> swept.boundaries, levels |-> swept.levels, depths |-> swept.depths,
         truncatedAtRank |-> truncated]
      first == sweepRangeIntervals(rows, KeyMax)
      fits == {m \in 0 .. first.maxRank : SizeBelow(first, m) <= RangeBodyMax}
      keep == CHOOSE m \in fits : \A n \in fits : n <= m
  IN IF first.crossed
     THEN [boundaries |-> <<>>, levels |-> <<>>, depths |-> <<0>>, truncatedAtRank |-> -1]
     ELSE IF Len(first.levels) <= RangeBodyMax THEN Body(first, -1)
     ELSE Body(sweepRangeIntervals(rows, keep), keep)

NoRangeBody == [boundaries |-> <<>>, levels |-> <<>>, depths |-> <<>>, truncatedAtRank |-> -1]

levelAt(view, p) == IF p = 0 \/ p = Len(view.boundaries) + 1 THEN -1 ELSE view.levels[p]

\* Mutant of countBoundaries: a key that is a boundary counts as below it.
countBoundariesBelow(view, key, orEqual) ==
  Cardinality({j \in DOMAIN view.boundaries : view.boundaries[j] < key})

countBoundaries(view, key, orEqual) ==
  Cardinality({j \in DOMAIN view.boundaries : view.boundaries[j] < key
                                              \/ (orEqual /\ view.boundaries[j] = key)})

rangeBoundaryAt(view, p) ==
  IF p = 0 THEN 0 ELSE IF p = Len(view.boundaries) + 1 THEN KeyMax ELSE view.boundaries[p]

\* The interval of rank t over the segments i .. j: it reaches to the nearest boundary below rank t.
IntervalAt(view, i, j, t) ==
  LET starts == {p \in 0 .. i : levelAt(view, p) < t}
      ends == {p \in j + 1 .. Len(view.boundaries) + 1 : levelAt(view, p) < t}
  IN [start |-> rangeBoundaryAt(view, CHOOSE p \in starts : \A q \in starts : q <= p),
      end |-> rangeBoundaryAt(view, CHOOSE p \in ends : \A q \in ends : p <= q)]

\* The deepest known interval of the segments i .. j up to a rank, without those of cut.
intervalRule(view, i, j, threshold, cut) ==
  LET ranks == {t \in 0 .. threshold : IntervalAt(view, i, j, t) \notin cut}
  IN IF ranks = {} THEN None
     ELSE IntervalAt(view, i, j, CHOOSE t \in ranks : \A u \in ranks : u <= t)

rangePointLookup(view, key, cut) ==
  LET i == countBoundaries(view, key, TRUE)
  IN IF view.depths = <<>> THEN None ELSE intervalRule(view, i, i, view.depths[i + 1], cut)

\* The interval of the sort keys lower .. upper; with none at the end, upper is the first key after.
rangeIntervalLookup(view, lower, upper, inclusive, cut) ==
  LET i == countBoundaries(view, lower, TRUE)
      j == countBoundaries(view, upper, inclusive)
      seen == {view.depths[p + 1] : p \in i .. j} \cup {levelAt(view, p) : p \in i + 1 .. j}
      threshold == CHOOSE r \in seen : \A s \in seen : r <= s
  IN IF view.depths = <<>> THEN None
     ELSE IF j < i THEN intervalRule(view, i, i, view.depths[i + 1], cut)
     ELSE intervalRule(view, i, j, threshold, cut)

----------------------------------------------------------------------------
(* The facts that a keeper knows, and the bodies it built from them. *)

VARIABLES
  nodes, promoted, \* the split hash partitions, the promoted hashes
  builtNodes, builtPromoted, \* those the hash body has
  hashBody,
  intervals,       \* the known intervals of one promoted hash
  rangeBody

hashVars == <<nodes, promoted, builtNodes, builtPromoted, hashBody>>
rangeVars == <<intervals, rangeBody>>
vars == <<hashVars, rangeVars>>

\* A report of a hash split also makes the ancestors known.
LearnSplit(node) ==
  /\ node \notin nodes
  /\ nodes' = nodes \cup {SubSeq(node, 1, d) : d \in 1 .. Len(node)}
  /\ UNCHANGED <<promoted, builtNodes, builtPromoted, hashBody, rangeVars>>

LearnPromotion(h) ==
  /\ h \notin promoted
  /\ promoted' = promoted \cup {h}
  /\ UNCHANGED <<nodes, builtNodes, builtPromoted, hashBody, rangeVars>>

NewBitmap ==
  IF hashBody = None
  THEN encodeHashBitmap(RootTreesN, HashSplitN, Cardinality(nodes), InLevelOrder(nodes))
  ELSE mergeHashBitmap(hashBody, Cardinality(nodes), InLevelOrder(nodes \ builtNodes))

SortedHashes(hs) == InOrder(hs, LAMBDA x, y : x < y)

\* The stored list and the new hashes; a body with a filter has no list, and every hash is read again.
NewList ==
  IF hashBody = None THEN mergePromotedRoutingHashes(<<>>, SortedHashes(promoted))
  ELSE IF hashBody.promoted = None THEN mergePromotedRoutingHashes(<<>>, SortedHashes(promoted))
  ELSE mergePromotedRoutingHashes(hashBody.promoted, SortedHashes(promoted \ builtPromoted))

NewFilter ==
  promotedKeysBloom(Cardinality(promoted), promoted,
                    IF hashBody = None THEN None ELSE hashBody.bloom, promoted \ builtPromoted)

BuildHashBody ==
  /\ nodes # builtNodes \/ promoted # builtPromoted
  /\ \E bits \in {NewBitmap} \ {None}, listed \in {Cardinality(promoted) <= PromotedListMax} :
       hashBody' = [rootTreesN |-> RootTreesN, hashSplitN |-> HashSplitN,
                    bits |-> bits, rank |-> rankIndex(bits),
                    promoted |-> IF listed THEN NewList ELSE None,
                    bloom |-> IF listed THEN None ELSE NewFilter]
  /\ builtNodes' = nodes /\ builtPromoted' = promoted
  /\ UNCHANGED <<nodes, promoted, rangeVars>>

\* A report of a range split makes the range root, the source and the targets known.
LearnRangeSplit(s) ==
  /\ intervals' = intervals \cup {[start |-> 0, end |-> KeyMax], [start |-> s.start, end |-> s.end],
                                  [start |-> s.start, end |-> s.mid], [start |-> s.mid, end |-> s.end]}
  /\ intervals' # intervals
  /\ rangeBody' = None
  /\ UNCHANGED hashVars

BuildRangeBody ==
  /\ intervals # {} /\ rangeBody = None
  /\ rangeBody' = buildRangeBody(intervals)
  /\ UNCHANGED <<intervals, hashVars>>

Init ==
  /\ nodes = {} /\ promoted = {} /\ builtNodes = {} /\ builtPromoted = {} /\ hashBody = None
  /\ intervals = {} /\ rangeBody = None

Next ==
  \/ \E node \in Nodes : LearnSplit(node)
  \/ \E h \in Promotable : LearnPromotion(h)
  \/ BuildHashBody
  \/ \E s \in RangeSplits : LearnRangeSplit(s)
  \/ BuildRangeBody

Spec == Init /\ [][Next]_vars

----------------------------------------------------------------------------
(* Properties. *)

\* A build that has something to add gives a body: no invariant() of the encoders fails.  And a bitmap that
\* was merged, build after build, is the bitmap that one build from all the rows gives.
MergeIsTheFullBuild ==
  /\ nodes # builtNodes \/ promoted # builtPromoted => NewBitmap # None
  /\ hashBody # None =>
       hashBody.bits = encodeHashBitmap(RootTreesN, HashSplitN, Cardinality(builtNodes), InLevelOrder(builtNodes))

\* The leaf of a routing hash in the tree of a set of split nodes, by definition.
LeafIn(tree, digits) ==
  CHOOSE leaf \in {SubSeq(digits, 1, d) : d \in DOMAIN digits} :
    /\ leaf \notin tree
    /\ \A d \in 1 .. Len(leaf) - 1 : SubSeq(leaf, 1, d) \in tree

LeafFound(h) == findLeaf(hashBody, Digits[h], {}) = LeafIn(builtNodes, Digits[h])

PromotionFound(h) ==
  /\ h \in builtPromoted => isPromotedRoutingHash(hashBody, h) # "false"
  /\ isPromotedRoutingHash(hashBody, h) = "exact" => h \in builtPromoted

\* The hash body sends every routing hash to its leaf in the tree, through the rank index of its bitmap; and
\* a promoted hash is always found: a list finds no other, a filter may.
HashesAreFound == hashBody # None => \A h \in Hashes : LeafFound(h) /\ PromotionFound(h)

\* The deepest interval of a set that holds the keys lower .. upper and is not cut.
Deepest(known, lower, upper, cut) ==
  LET holding == {i \in known \ cut : i.start <= lower /\ upper < i.end}
  IN IF holding = {} THEN None
     ELSE CHOOSE i \in holding : \A j \in holding : j.start <= i.start /\ i.end <= j.end

\* The rank of an interval: the known intervals around it.
RankIn(known, i) == Cardinality({j \in known \ {i} : j.start <= i.start /\ i.end <= j.end})

Kept ==
  {i \in intervals : rangeBody.truncatedAtRank = -1 \/ RankIn(intervals, i) <= rangeBody.truncatedAtRank}

\* A truncated body fits, and would not fit with one more rank.
TruncationIsTight ==
  /\ Len(rangeBody.boundaries) <= RangeBodyMax
  /\ rangeBody.truncatedAtRank >= 0 =>
       LET deeper == {i \in intervals : RankIn(intervals, i) <= rangeBody.truncatedAtRank + 1}
       IN Cardinality(({i.start : i \in deeper} \cup {i.end : i \in deeper}) \ {0, KeyMax}) > RangeBodyMax

\* A range body finds, for every key and every interval of keys, the deepest known interval that holds
\* it; when that one is cut, the next deepest; and when the body is truncated, the deepest it kept, of as
\* many ranks as fit.
IntervalsAreFound ==
  rangeBody # None =>
    /\ TruncationIsTight
    /\ \A kept \in {Kept} : \A key \in 1 .. KeyMax - 1 : \A best \in {Deepest(kept, key, key, {})} :
         /\ rangePointLookup(rangeBody, key, {}) = best
         /\ rangePointLookup(rangeBody, key, {best}) = Deepest(kept, key, key, {best})
         /\ \A upper \in key .. KeyMax - 1 :
              rangeIntervalLookup(rangeBody, key, upper, TRUE, {}) = Deepest(kept, key, upper, {})

=============================================================================
