------------------------------- MODULE Routing -------------------------------
(***************************************************************************)
(* How a request finds the partition that owns its key: the entry that the *)
(* client takes from the topology cache (sharding/client.ts), dispatch,    *)
(* resolution, forwarding and the fallbacks of a missed hint in every      *)
(* partition on the way (sharding/runtime.ts), and what each of them       *)
(* learns from the answer, while partitions split and keys are promoted.   *)
(*                                                                         *)
(* A composite key is its position in the order of the key codec.  A range *)
(* partition holds the positions start .. end - 1 of one routing hash: 0   *)
(* is the unbounded start and Top the unbounded end.  A hash partition is  *)
(* its path <<root, child, ...>>.  Repartition models the transfer itself; *)
(* here it is what a request can tell of it: the targets exist, the source *)
(* has cut over, the target has a page, the target has all of its rows.    *)
(* One request runs at a time, a chain of calls of which the last is under *)
(* way; everything else may happen between any two of its steps.           *)
(***************************************************************************)
EXTENDS Integers, Sequences, FiniteSets, SequencesExt, TLC

CONSTANTS
  Keys,              \* the composite keys, positive integers
  Hashes, HashOf,    \* the routing hashes, and that of each key
  Digits,            \* [Hashes -> Seq(Nat)]: the root and the child digits of a hash
  BoundsOf,          \* [Promotable -> sets of positions]: the boundaries that a range split may select
  Splittable,        \* the hash partitions that may split, as paths
  Promotable,        \* the hashes that may be promoted, or taken for it
  InitialTopologies, \* the completed repartitions at first: [splits, promoted], the paths and the hashes
  FalsePositives,    \* the hashes that a Bloom filter takes for promoted
  ListsPromotions,   \* TRUE: a hash body lists the promoted hashes; FALSE: it has a Bloom filter
  InitialViews,      \* the hash bodies that an isolate may hold at first, of an earlier life of the table too
  maxForwardRetries, MAX_TOPOLOGY_FALLBACKS,
  rangeHierarchyMaxRows,
  Requests,          \* the requests of the clients: [shape, op, keys]
  MaxRequests, MaxEvents

\* There is a last key.
ASSUME KeysAssumption ==
  /\ Keys \subseteq Nat \ {0}
  /\ \E k \in Keys : \A j \in Keys : j <= k
  /\ HashOf \in [Keys -> Hashes]
\* A boundary stands for the first key above it.  A hash has a digit for every level that splits.
ASSUME HashesAssumption ==
  /\ Digits \in [Hashes -> Seq(Nat) \ {<<>>}]
  /\ Promotable \subseteq Hashes /\ FalsePositives \subseteq Promotable
  /\ BoundsOf \in [Promotable -> SUBSET Keys]
  /\ \A path \in Splittable, h \in Hashes : IsPrefix(path, Digits[h]) => Len(path) < Len(Digits[h])
\* A point has one key.
ASSUME RequestsAssumption ==
  /\ Requests \subseteq [shape : {"point", "single_owner"}, op : {"get", "put"}, keys : (SUBSET Keys) \ {{}}]
  /\ \A req \in Requests : req.shape = "point" => \E k \in Keys : req.keys = {k}
\* A promoted hash has a last partition on its path, which promoted it.
ASSUME TopologiesAssumption ==
  /\ \A top \in InitialTopologies :
       /\ top.promoted \subseteq Promotable /\ top.splits \subseteq Splittable
       /\ \A h \in top.promoted : \E n \in 1 .. Len(Digits[h]) :
            SubSeq(Digits[h], 1, n) \notin top.splits /\ \A m \in 1 .. n - 1 : SubSeq(Digits[h], 1, m) \in top.splits
  /\ InitialViews \subseteq {[known |-> FALSE]}
                            \cup [known : {TRUE}, splits : SUBSET Seq(Nat), promoted : SUBSET Promotable, cut : {{}}]

VARIABLES
  part,     \* the partitions: identity, lifecycle and repartitions
  rows,     \* the item rows of a partition: the number of writes that each key has seen
  hints,    \* what a partition has learned: range slices, hash arena, promotion Bloom filter
  cache,    \* the topology cache of the isolates of the clients and of the partitions
  flight,   \* the call or the answer under way
  stack,    \* the callers that wait, the last first
  request,  \* the request in hand
  done,     \* how the last request ended
  writes,   \* what the client knows of its writes of a key: how many succeeded, how many may have
  used      \* the bounds that are used up

topologyVars == <<part, rows>>
hintVars == <<hints, cache>>
requestVars == <<flight, stack, request, done, writes>>
vars == <<part, rows, hints, cache, flight, stack, request, done, writes, used>>

----------------------------------------------------------------------------
(* Partitions. *)

Top == 1 + CHOOSE k \in Keys : \A j \in Keys : j <= k

Hash(path) == [kind |-> "hash", path |-> path]
Slice(h, start, end) == [kind |-> "range", hash |-> h, start |-> start, end |-> end]
RangeRoot(h) == Slice(h, 0, Top)

PathOf(h, n) == SubSeq(Digits[h], 1, n)
HashPartitions == {Hash(p) : p \in UNION {{PathOf(h, n) : n \in 1 .. Len(Digits[h])} : h \in Hashes}}
RangePartitions ==
  {r \in UNION {{Slice(h, s, e) : s \in BoundsOf[h] \cup {0}, e \in BoundsOf[h] \cup {Top}} : h \in Promotable} : r.start < r.end}
Partitions == HashPartitions \cup RangePartitions

IsHashRoot(p) == p.kind = "hash" /\ Len(p.path) = 1
IsRangeRoot(p) == p.kind = "range" /\ p = RangeRoot(p.hash)

OwnsHash(p, h) ==
  CASE p.kind = "hash" -> IsPrefix(p.path, Digits[h])
    [] p.kind = "range" -> p.hash = h
ownsByTopology(p, k) ==
  /\ OwnsHash(p, HashOf[k])
  /\ p.kind = "range" => p.start <= k /\ k < p.end

identityDepth(p) == IF p.kind = "hash" THEN Len(p.path) - 1 ELSE part[p].depth

isImporting(p) == part[p].phase \in {"awaiting_data", "importing"}
routerRole(p) == part[p].split \in {"cut_over", "completed"}
\* Mutant of overrideCutOver: the override of a completed promotion counts no more.
overrideMigrating(p, h) == part[p].promo[h] = "cut_over"
overrideCutOver(p, h) == part[p].promo[h] \in {"cut_over", "completed"}

\* The repartition that made p has cut over: its source hands the slice to p.
CutOverTo(p) ==
  IF IsRangeRoot(p) THEN overrideCutOver(part[p].source, p.hash) ELSE routerRole(part[p].source)

----------------------------------------------------------------------------
(* Repartitions. *)

Absent == [phase |-> "absent", source |-> Hash(<<>>), split |-> "none", kids |-> {},
           promo |-> [h \in Hashes |-> "none"], depth |-> 0]
NoRows == [k \in Keys |-> 0]

\* A hash is promoted by the last partition of its path.
InitTopology ==
  \E top \in InitialTopologies :
    LET exists(p) ==
          CASE p.kind = "hash" -> \A n \in 1 .. Len(p.path) - 1 : SubSeq(p.path, 1, n) \in top.splits
            [] p.kind = "range" -> IsRangeRoot(p) /\ p.hash \in top.promoted
        leaf(p) == p.kind = "hash" /\ exists(p) /\ p.path \notin top.splits
        promoter(p, h) == leaf(p) /\ OwnsHash(p, h) /\ h \in top.promoted
        source(p) == IF p.kind = "hash" THEN Hash(Front(p.path)) ELSE CHOOSE q \in HashPartitions : promoter(q, p.hash)
    IN /\ part = [p \in Partitions |->
            IF ~exists(p) THEN Absent
            ELSE [phase |-> "active", source |-> source(p), depth |-> 0,
                  split |-> IF p.kind = "range" \/ leaf(p) THEN "none" ELSE "completed",
                  kids |-> IF p.kind = "range" \/ leaf(p) THEN {} ELSE {c \in HashPartitions : Len(c.path) > 1 /\ Front(c.path) = p.path},
                  promo |-> [h \in Hashes |-> IF promoter(p, h) THEN "completed" ELSE "none"]]]
       /\ rows = [p \in Partitions |-> [k \in Keys |->
            IF exists(p) /\ OwnsHash(p, HashOf[k]) /\ ~promoter(p, HashOf[k]) THEN 1 ELSE 0]]

canQueueSplit(p) ==
  /\ part[p].phase = "active"
  /\ part[p].split = "none"
  /\ p.kind = "hash" => \A h \in Hashes : part[p].promo[h] \in {"none", "completed"}

\* A boundary leaves each side a row.  Where between the rows it falls is a matter of their bytes.
RangeBoundaries(p) ==
  {b \in BoundsOf[p.hash] : \E j, k \in Keys : rows[p][j] > 0 /\ rows[p][k] > 0 /\ p.start <= j /\ j < b /\ b <= k /\ k < p.end}

\* The targets of a split: a child per digit, or the two sides of a boundary.
SplitTargets(p) ==
  IF p.kind = "hash"
    THEN {{c \in HashPartitions : Len(c.path) = Len(p.path) + 1 /\ IsPrefix(p.path, c.path)} : x \in {p} \cap {Hash(s) : s \in Splittable}}
    ELSE {{Slice(p.hash, p.start, b), Slice(p.hash, b, p.end)} : b \in RangeBoundaries(p)}

\* A target that waits for its data.  A child of a hash partition takes over its overrides: no promotion of the source
\* can begin or end any more.
Awaiting(source, promo, depth) ==
  [phase |-> "awaiting_data", source |-> source, split |-> "none", kids |-> {}, promo |-> promo, depth |-> depth]

PlannedSplit(p, kids) == [part[p] EXCEPT !.split = "planned", !.kids = kids]

\* A write asked for a split; it is planned and its targets exist.
PlanSplit ==
  /\ used.events < MaxEvents
  /\ \E p \in Partitions :
       /\ canQueueSplit(p)
       /\ \E kids \in SplitTargets(p) :
            part' = [q \in Partitions |->
              IF q \in kids THEN Awaiting(p, part[p].promo, part[p].depth + 1)
              ELSE IF q = p THEN PlannedSplit(p, kids) ELSE part[q]]
  /\ used' = [used EXCEPT !.events = @ + 1]
  /\ UNCHANGED <<rows, hintVars, requestVars>>

PlanPromotion ==
  /\ used.events < MaxEvents
  /\ \E p \in HashPartitions, h \in Promotable :
       /\ part[p].phase = "active" /\ part[p].split = "none"
       /\ OwnsHash(p, h) /\ part[p].promo[h] = "none"
       /\ part' = [part EXCEPT ![p].promo[h] = "planned",
                               ![RangeRoot(h)] = Awaiting(p, Absent.promo, 0)]
  /\ used' = [used EXCEPT !.events = @ + 1]
  /\ UNCHANGED <<rows, hintVars, requestVars>>

CutOver ==
  /\ \/ \E p \in Partitions :
          /\ part[p].split = "planned"
          /\ part' = [part EXCEPT ![p].split = "cut_over"]
     \/ \E p \in HashPartitions, h \in Promotable :
          /\ part[p].phase = "active" /\ part[p].promo[h] = "planned"
          /\ part' = [part EXCEPT ![p].promo[h] = "cut_over"]
  /\ UNCHANGED <<rows, hintVars, requestVars, used>>

FirstPage ==
  /\ \E p \in Partitions :
       /\ part[p].phase = "awaiting_data" /\ CutOverTo(p)
       /\ part' = [part EXCEPT ![p].phase = "importing"]
  /\ UNCHANGED <<rows, hintVars, requestVars, used>>

\* The last page, the acknowledgement, and with the last target the end of the repartition at its source.
\* The source of a split keeps its rows for life; that of a promotion gives them back.
ImportCompletes ==
  /\ \E p \in Partitions :
       LET s == part[p].source
           arrived == [part EXCEPT ![p].phase = "active"]
           all == \A q \in part[s].kids : arrived[q].phase = "active"
           moved == [k \in Keys |-> IF ownsByTopology(p, k) /\ ~overrideCutOver(p, HashOf[k]) THEN rows[s][k] ELSE 0]
       IN /\ part[p].phase = "importing"
          /\ part' = IF IsRangeRoot(p) THEN [arrived EXCEPT ![s].promo[p.hash] = "completed"]
                     ELSE IF all THEN [arrived EXCEPT ![s].split = "completed"]
                     ELSE arrived
          /\ rows' = [rows EXCEPT ![p] = moved,
                                  ![s] = IF IsRangeRoot(p) THEN [k \in Keys |-> IF moved[k] > 0 THEN 0 ELSE @[k]] ELSE @]
  /\ UNCHANGED <<hintVars, requestVars, used>>

RepartitionStep == PlanSplit \/ PlanPromotion \/ CutOver \/ FirstPage \/ ImportCompletes

----------------------------------------------------------------------------
(* What a partition has learned. *)

\* slices: range partitions below the roots; arena: the hash partitions below it that are known to be split
\* or to exist; bloom: the hashes in its filter, which exists from the first of them on.
NoHints == [slices |-> {}, arena |-> {}, bloom |-> {}]

\* A filter has what was added to it, and what it takes for that; an empty one has nothing.
BloomHas(bloom, h) == bloom # {} /\ h \in bloom \cup FalsePositives
maybePromoted(hint, h) == BloomHas(hint.bloom, h)

Holds(r, k) == r.hash = HashOf[k] /\ r.start <= k /\ k < r.end
Deepest(slices) == CHOOSE r \in slices : \A s \in slices : part[s].depth <= part[r].depth

\* The deepest learned slice with the key, or none.
findDeepestKnownRangeSlice(hint, k) ==
  LET holding == {r \in hint.slices : Holds(r, k)}
  IN IF holding = {} THEN {} ELSE {Deepest(holding)}

\* A slice is remembered until the table is above its bound; then any of the older ones go.
learnRangeBoundary(slices, found) ==
  IF Cardinality(slices \cup found) <= rangeHierarchyMaxRows THEN {slices \cup found}
  ELSE {s \in SUBSET (slices \cup found) : Cardinality(s) = rangeHierarchyMaxRows - rangeHierarchyMaxRows \div 10}

deleteLearnedRangeSlice(hint, r) == [hint EXCEPT !.slices = @ \ {r}]

hashDescendant(p, h, relDepth) == Hash(PathOf(h, Len(p.path) + relDepth))

\* The arena of p knows the path of a hash down to this many levels below p.
findLeaf(p, hint, h) ==
  LET known(n) == \A m \in 1 .. n : PathOf(h, Len(p.path) + m) \in hint.arena
  IN CHOOSE n \in 0 .. Len(Digits[h]) - Len(p.path) :
       known(n) /\ ~(n < Len(Digits[h]) - Len(p.path) /\ known(n + 1))

updateFromHint(p, arena, h, relDepth) == arena \cup {PathOf(h, Len(p.path) + m) : m \in 1 .. relDepth}

\* The block at the level goes, and with it what was known below.
invalidate(p, arena, h, relDepth) ==
  {path \in arena : ~IsPrefix(PathOf(h, Len(p.path) + relDepth), path)}

\* A served node as the learner sees it.  The slices of its ancestors come with a range node.
Node(p) == [ref |-> p, hashDepth |-> IF p.kind = "hash" THEN identityDepth(p) ELSE 0]
RangeAncestors(r) ==
  {q \in RangePartitions : /\ part[q].phase # "absent" /\ q.hash = r.hash /\ q # r
                           /\ q.start <= r.start /\ r.end <= q.end}

\* A hash partition writes its own depth on the range nodes of an answer that enters the hash tree.
StampRangeNodes(p, nodes) ==
  {IF n.ref.kind = "range" /\ p.kind = "hash" THEN [n EXCEPT !.hashDepth = identityDepth(p)] ELSE n : n \in nodes}

learn(p, nodes, keys) ==
  LET hint == hints[p]
      minRangeDepth == IF p.kind = "hash" THEN 1 ELSE identityDepth(p) + 2
      ranges == {n \in nodes : n.ref.kind = "range"}
      slices == {r \in UNION {{n.ref} \cup RangeAncestors(n.ref) : n \in ranges} : part[r].depth >= minRangeDepth}
      paths == {<<n.ref.hash, n.hashDepth - identityDepth(p)>> : n \in ranges}
               \cup {<<HashOf[x[2]], x[1].hashDepth - identityDepth(p)>> :
                       x \in {y \in (nodes \ ranges) \X keys : OwnsHash(y[1].ref, HashOf[y[2]])}}
  IN {[slices |-> kept,
       arena |-> IF p.kind = "hash" /\ (routerRole(p) \/ hint.arena # {})
                   THEN hint.arena \cup UNION {updateFromHint(p, {}, x[1], x[2]) : x \in {y \in paths : y[2] > 0}}
                   ELSE hint.arena,
       bloom |-> IF p.kind = "hash" THEN hint.bloom \cup {n.ref.hash : n \in ranges} ELSE hint.bloom] :
      kept \in learnRangeBoundary(hint.slices, slices)}

----------------------------------------------------------------------------
(* The topology cache of an isolate. *)

NoView == [known |-> FALSE]
Sites == {"client", "partition"}

\* The bodies of the keeper: the completed repartitions.
CurrentHashView ==
  [known |-> TRUE, splits |-> {p.path : p \in {q \in HashPartitions : part[q].split = "completed"}},
   promoted |-> {h \in Hashes : \E p \in HashPartitions : part[p].promo[h] = "completed"}, cut |-> {}]
CurrentRangeView(h) ==
  [known |-> TRUE, cut |-> {},
   slices |-> IF \E p \in HashPartitions : part[p].promo[h] = "completed"
                THEN {RangeRoot(h)} \cup UNION {part[r].kids : r \in {q \in RangePartitions : q.hash = h /\ part[q].split = "completed"}}
                ELSE {}]

EmptyCache == [hash |-> NoView, range |-> [h \in Hashes |-> NoView]]

\* A hint that missed is cut from the body that gave it.  The same version keeps its cut set, a newer one begins anew.
Version(view) == [view EXCEPT !.cut = {}]
Refreshed(old, new) == IF old.known /\ Version(old) = new THEN old ELSE new
cutTopologyHint(view, version, hint) ==
  IF view.known /\ Version(view) = version THEN [view EXCEPT !.cut = @ \cup {hint}] ELSE view

RefreshCache ==
  /\ used.events < MaxEvents
  /\ \E site \in Sites :
       \/ cache' = [cache EXCEPT ![site].hash = Refreshed(@, CurrentHashView)]
       \/ \E h \in Hashes : cache' = [cache EXCEPT ![site].range[h] = Refreshed(@, CurrentRangeView(h))]
  /\ cache' # cache
  /\ used' = [used EXCEPT !.events = @ + 1]
  /\ UNCHANGED <<topologyVars, hints, requestVars>>

isPromotedRoutingHash(view, h) ==
  CASE ListsPromotions -> IF h \in view.promoted THEN "exact" ELSE "no"
    [] ~ListsPromotions -> IF BloomHas(view.promoted, h) THEN "maybe" ELSE "no"

\* The path of the hash down to the deepest partition that the view names and no miss has cut.
CachedLeaf(view, h) ==
  LET reached(n) == \A m \in 1 .. n - 1 : PathOf(h, m) \in view.splits /\ PathOf(h, m + 1) \notin view.cut
  IN PathOf(h, CHOOSE n \in 1 .. Len(Digits[h]) : reached(n) /\ ~(n < Len(Digits[h]) /\ reached(n + 1)))

\* The slice of the view that holds the whole interval and no smaller one that does, without the cut ones.
CachedSlice(view, from, to) ==
  LET holding == {r \in view.slices \ view.cut : r.start <= from /\ to < r.end}
  IN CHOOSE r \in holding : ~\E s \in holding \ {r} : r.start <= s.start /\ s.end <= r.end

----------------------------------------------------------------------------
(* Resolution on a partition: itself, or the deepest partition below it that it knows for the key. *)

\* version: the cached body that named the target, if any.
Resolution(kind, to, via, learned, relDepth, version) ==
  [kind |-> kind, to |-> to, via |-> via, learned |-> learned, relDepth |-> relDepth, version |-> version]
Nowhere(kind) == Resolution(kind, Hash(<<>>), "none", FALSE, 1, NoView)
Local == Nowhere("local")
OutOfRange == Nowhere("out_of_range")
SpansMany == Nowhere("spans_many")
Remote(to, via) == Resolution("remote", to, via, FALSE, 1, NoView)
RemoteLearned(to, via) == Resolution("remote", to, via, TRUE, 1, NoView)

rangeOwner(hint, k, via) ==
  LET slice == findDeepestKnownRangeSlice(hint, k)
  IN IF slice = {} THEN Remote(RangeRoot(HashOf[k]), via)
     ELSE RemoteLearned(CHOOSE r \in slice : TRUE, via)

\* Mutant of hashTopologyOwner: the learned level is not at least one.
hashTopologyOwnerUnclamped(p, hint, view, h) ==
  IF ~routerRole(p) THEN Local
  ELSE Resolution("remote", hashDescendant(p, h, findLeaf(p, hint, h)), "hash", FALSE, findLeaf(p, hint, h), NoView)

hashTopologyOwner(p, hint, view, h) ==
  LET learnedDepth == IF findLeaf(p, hint, h) > 1 THEN findLeaf(p, hint, h) ELSE 1
      leaf == CachedLeaf(view, h)
      cached == view.known /\ Len(leaf) - Len(p.path) >= learnedDepth
      relDepth == IF cached THEN Len(leaf) - Len(p.path) ELSE learnedDepth
  IN IF ~routerRole(p) THEN Local
     ELSE Resolution("remote", hashDescendant(p, h, relDepth), "hash", FALSE, relDepth, IF cached THEN Version(view) ELSE NoView)

rangeChildFor(p, k) == CHOOSE c \in part[p].kids : ownsByTopology(c, k)

\* Strictly inside: deeper than the child, never an ancestor.
rangeRouterOwner(p, hint, k) ==
  LET child == rangeChildFor(p, k)
      jump == {r \in findDeepestKnownRangeSlice(hint, k) : child.start <= r.start /\ r.end <= child.end /\ r # child}
  IN IF jump = {} THEN Remote(child, "range")
     ELSE RemoteLearned(CHOOSE r \in jump : TRUE, "range")

resolve(p, hint, view, k, bloom) ==
  LET h == HashOf[k]
  IN CASE ~ownsByTopology(p, k) -> OutOfRange
       [] p.kind = "hash" /\ ownsByTopology(p, k) ->
            IF overrideCutOver(p, h) THEN rangeOwner(hint, k, "override")
            ELSE IF bloom /\ maybePromoted(hint, h) THEN rangeOwner(hint, k, "bloom")
            ELSE hashTopologyOwner(p, hint, view, h)
       [] p.kind = "range" /\ ownsByTopology(p, k) ->
            IF routerRole(p) THEN rangeRouterOwner(p, hint, k) ELSE Local

\* One owner of all keys, or many: a filter hit is asked again without the filter before that answer.
singleOwnerOnce(p, hint, view, keys, bloom) ==
  LET owners == {[key |-> k, res |-> resolve(p, hint, view, k, bloom)] : k \in keys}
      found == {o.res : o \in owners}
      targets == {o.res.to : o \in {x \in owners : x.res.kind = "remote"}}
      first == CHOOSE o \in owners : \A x \in owners : o.key <= x.key
  IN IF OutOfRange \in found THEN OutOfRange
     ELSE IF found = {Local} THEN Local
     ELSE IF Cardinality(targets) > 1 \/ Local \in found THEN SpansMany
     ELSE first.res
singleOwner(p, hint, view, keys, bloom) ==
  LET owner == singleOwnerOnce(p, hint, view, keys, bloom)
      bloomHit == \E k \in keys : LET r == resolve(p, hint, view, k, bloom) IN r.kind = "remote" /\ r.via = "bloom"
  IN IF owner = SpansMany /\ bloomHit THEN singleOwnerOnce(p, hint, view, keys, FALSE) ELSE owner

\* The two shapes of a request with a key scope: a point is its own single owner.
OwnerOf(p, hint, view, req, bloom) ==
  IF req.shape = "point" THEN resolve(p, hint, view, CHOOSE k \in req.keys : TRUE, bloom)
  ELSE singleOwner(p, hint, view, req.keys, bloom)

----------------------------------------------------------------------------
(* The client. *)

None == [shape |-> "none"]
Idle == [type |-> "idle"]
Call(to, mode, from) == [type |-> "call", to |-> to, mode |-> mode, from |-> from, query |-> None]
\* state: the import state of the partition that refuses.
Answer(code, at, nodes, value) ==
  [type |-> "answer", code |-> code, at |-> at, nodes |-> nodes, value |-> value,
   state |-> part[at].phase]

AwaitingData(e) == e.code = "migrating" /\ e.state = "awaiting_data"

\* The request names keys; Query has the other shape, which names an interval.
KeyScope == request.shape \in {"point", "single_owner"}
Dispatching == flight.type = "call" /\ flight.mode = "dispatch"
Answered(callers) == flight.type = "answer" /\ (stack # <<>>) = callers

FirstKey(keys) == CHOOSE k \in keys : \A j \in keys : k <= j

\* What is resolved: one key, or an interval of the sort keys of the hash key that begins at key.
PointScope(k) == [key |-> k, from |-> k, to |-> k]

Entry(to, by, bloom, version) == [to |-> to, by |-> by, bloom |-> bloom, version |-> version]
RootEntry(k) == Entry(Hash(PathOf(HashOf[k], 1)), "root", TRUE, NoView)

resolveKey(views, scope, bloom) ==
  LET k == scope.key
      h == HashOf[k]
      hit == IF bloom THEN isPromotedRoutingHash(views.hash, h) ELSE "no"
      ranged == views.range[h].known /\ views.range[h].slices # {}
      leaf == CachedLeaf(views.hash, h)
  IN IF ~views.hash.known THEN RootEntry(k)
     ELSE IF hit # "no" /\ ranged THEN Entry(CachedSlice(views.range[h], scope.from, scope.to), "slice", bloom, Version(views.range[h]))
     ELSE IF hit = "exact" \/ (hit = "maybe" /\ ~views.range[h].known) THEN Entry(RangeRoot(h), "promotion", bloom, NoView)
     ELSE IF Len(leaf) = 1 THEN RootEntry(k)
     ELSE Entry(Hash(leaf), "leaf", bloom, Version(views.hash))

Send ==
  /\ request = None
  /\ used.requests < MaxRequests
  /\ \E req \in Requests :
       LET scope == PointScope(FirstKey(req.keys))
           entry == resolveKey(cache.client, scope, TRUE)
       IN /\ \A k \in req.keys : resolveKey(cache.client, PointScope(k), TRUE).to = entry.to
          /\ request' = [shape |-> req.shape, op |-> req.op, keys |-> req.keys, scope |-> scope, entry |-> entry,
                         fallbacks |-> 0, query |-> None]
          /\ flight' = Call(entry.to, "dispatch", entry.to)
  /\ done' = None
  /\ used' = [used EXCEPT !.requests = @ + 1]
  /\ UNCHANGED <<topologyVars, hintVars, stack, writes>>

\* The entries after a miss at the entry, with the cache that the miss leaves; none for another error.
MissFallback(views, entry, scope, e) ==
  LET h == HashOf[scope.key]
      missing == e.code = "not_initialized" /\ e.at = entry.to
      cutSlice == [views EXCEPT !.range[h] = cutTopologyHint(@, entry.version, entry.to)]
      cutLeaf == [views EXCEPT !.hash = cutTopologyHint(@, entry.version, entry.to.path)]
      again(next, bloom) == {[entry |-> resolveKey(next, scope, bloom), views |-> next]}
  IN CASE entry.by \in {"slice", "promotion"} /\ IsRangeRoot(entry.to) /\ (missing \/ AwaitingData(e)) -> again(views, FALSE)
       [] entry.by = "slice" /\ ~IsRangeRoot(entry.to) /\ missing -> again(cutSlice, entry.bloom)
       [] entry.by = "leaf" /\ missing -> again(cutLeaf, entry.bloom)
       [] OTHER -> {}

EnterAgain(entry) ==
  /\ request' = [request EXCEPT !.entry = entry, !.fallbacks = @ + 1]
  /\ flight' = [Call(entry.to, "dispatch", entry.to) EXCEPT !.query = request.query]

ClientMisses ==
  /\ Answered(FALSE)
  /\ \E next \in MissFallback(cache.client, request.entry, request.scope, flight) :
       LET entry == IF request.fallbacks >= MAX_TOPOLOGY_FALLBACKS \/ next.entry.to = request.entry.to
                      THEN RootEntry(request.scope.key) ELSE next.entry
       IN cache' = [cache EXCEPT !.client = next.views] /\ EnterAgain(entry)
  /\ UNCHANGED <<topologyVars, hints, stack, done, writes, used>>

ClientEnds ==
  /\ KeyScope /\ Answered(FALSE)
  /\ MissFallback(cache.client, request.entry, request.scope, flight) = {}
  /\ done' = [req |-> [shape |-> request.shape, op |-> request.op, keys |-> request.keys],
              code |-> flight.code, value |-> flight.value]
  /\ writes' = [k \in Keys |->
       IF request.op = "put" /\ k \in request.keys /\ flight.code \in {"ok", "lost"} THEN writes[k] + 1 ELSE writes[k]]
  /\ request' = None /\ flight' = Idle
  /\ UNCHANGED <<topologyVars, hintVars, stack, used>>

----------------------------------------------------------------------------
(* Dispatch. *)

Frame(p, how, res, nodes) == [at |-> p, how |-> how, res |-> res, nodes |-> nodes, retries |-> 0]

\* The handler runs on p: a read answers its row, a write counts.
RunLocal(p, nodes) ==
  /\ rows' = IF request.op = "put" THEN [rows EXCEPT ![p] = [k \in Keys |-> IF k \in request.keys THEN @[k] + 1 ELSE @[k]]] ELSE rows
  /\ flight' = Answer("ok", p, nodes \cup {Node(p)}, IF request.op = "get" THEN rows[p][FirstKey(request.keys)] ELSE 0)

Refuse(code, p, nodes) == flight' = Answer(code, p, nodes, 0) /\ UNCHANGED rows

NoIdentity ==
  /\ Dispatching /\ part[flight.to].phase = "absent"
  /\ Refuse("not_initialized", flight.to, {})
  /\ UNCHANGED <<part, hintVars, stack, request, done, writes, used>>

\* Of an operation: refuse, or read the source.
whileMigrating(op) == IF op = "put" THEN "throw" ELSE "read_source"

WhileImporting ==
  /\ KeyScope /\ Dispatching /\ isImporting(flight.to)
  /\ LET p == flight.to
     IN IF whileMigrating(request.op) = "throw" THEN Refuse("migrating", p, {Node(p)}) /\ UNCHANGED stack
        ELSE IF \E k \in request.keys : ~ownsByTopology(p, k) THEN Refuse("misrouted", p, {Node(p)}) /\ UNCHANGED stack
        ELSE /\ stack' = <<Frame(p, "read_through", Local, {Node(p)})>> \o stack
             /\ flight' = Call(part[p].source, "execute", p)
             /\ UNCHANGED rows
  /\ UNCHANGED <<part, hintVars, request, done, writes, used>>

Dispatch ==
  /\ KeyScope /\ Dispatching /\ part[flight.to].phase = "active"
  /\ LET p == flight.to
     IN \E owner \in {OwnerOf(p, hints[p], cache.partition.hash, request, TRUE)} :
          \/ /\ owner \in {OutOfRange, SpansMany}
             /\ IF owner = OutOfRange THEN Refuse("misrouted", p, {Node(p)}) ELSE Refuse("not_applicable", p, {})
             /\ UNCHANGED stack
          \/ /\ owner = Local
             /\ RunLocal(p, {}) /\ UNCHANGED stack
          \/ /\ owner.kind = "remote"
             /\ stack' = <<Frame(p, "forward", owner, {})>> \o stack
             /\ flight' = Call(owner.to, "dispatch", p)
             /\ UNCHANGED rows
  /\ UNCHANGED <<part, hintVars, request, done, writes, used>>

\* A source reads for a target that imports from it.
ExecuteLocal ==
  /\ KeyScope /\ flight.type = "call" /\ flight.mode = "execute"
  /\ LET p == flight.to
         t == flight.from
         k == FirstKey(request.keys)
     IN \/ /\ ~CutOverTo(t)
           /\ Refuse("not_cut_over", p, {Node(p)}) /\ UNCHANGED stack
        \/ /\ IsRangeRoot(t) /\ part[p].promo[t.hash] = "completed"
           /\ Refuse("slice_reclaimed", p, {Node(p)}) /\ UNCHANGED stack
        \/ /\ CutOverTo(t) /\ ~(IsRangeRoot(t) /\ part[p].promo[t.hash] = "completed")
           /\ IF t.kind = "hash" /\ part[p].promo[HashOf[k]] = "completed"
                THEN LET owner == rangeOwner(hints[p], k, "override")
                     IN /\ stack' = <<Frame(p, "caller_slice", owner, {})>> \o stack
                        /\ flight' = Call(owner.to, "dispatch", p)
                        /\ UNCHANGED rows
                ELSE RunLocal(p, {}) /\ UNCHANGED stack
  /\ UNCHANGED <<part, hintVars, request, done, writes, used>>

----------------------------------------------------------------------------
(* Answers on their way back. *)

\* How to resolve again after a missed hint, without the hint that missed; none for another error.
missLadder(f, hint, view, e) ==
  LET point == request.shape = "point"
      h == HashOf[FirstKey(request.keys)]
      missing(kind) == e.code = "not_initialized" /\ e.at.kind = kind
      notCutOver == e.code = "not_cut_over" /\ request.op = "get"
  IN CASE f.res.learned /\ missing("range") ->
            {[bloom |-> point /\ f.res.via = "bloom", hint |-> deleteLearnedRangeSlice(hint, f.res.to), view |-> view]}
       [] f.res.via = "bloom" /\ ~(f.res.learned /\ missing("range")) /\ (missing("range") \/ AwaitingData(e) \/ notCutOver) ->
            {[bloom |-> FALSE, hint |-> hint, view |-> view]}
       [] f.res.via = "hash" /\ f.res.relDepth > 1 /\ missing("hash") ->
            {[bloom |-> point,
              hint |-> [hint EXCEPT !.arena = invalidate(f.at, @, h, f.res.relDepth)],
              view |-> cutTopologyHint(view, f.res.version, f.res.to.path)]}
       [] OTHER -> {}

\* Mutant of Retries: a hit of the filter that missed is not resolved again.
RetriesOfHints(f) ==
  IF f.how = "forward" /\ f.res.via # "bloom" /\ f.retries < maxForwardRetries
    THEN missLadder(f, hints[f.at], cache.partition.hash, flight) ELSE {}
Retries(f) == IF f.how = "forward" /\ f.retries < maxForwardRetries THEN missLadder(f, hints[f.at], cache.partition.hash, flight) ELSE {}

\* An answer that carries the routing of the partition it came from, with this hop.
PassedOn(f) ==
  LET stamped == IF f.how = "read_through" \/ f.res.to.kind = "range" THEN StampRangeNodes(f.at, flight.nodes) ELSE flight.nodes
  IN [flight EXCEPT !.nodes = f.nodes \cup IF flight.nodes = {} /\ flight.code \notin {"ok", "not_applicable"} THEN {Node(f.at)} ELSE stamped]

Learned(f) ==
  IF f.how = "read_through" /\ flight.code # "ok" THEN {hints[f.at]} ELSE learn(f.at, flight.nodes, request.keys)

Return ==
  /\ Answered(TRUE) /\ Head(stack).how # "walk"
  /\ LET f == Head(stack)
     IN /\ Retries(f) = {}
        /\ \E hint \in Learned(f) : hints' = [hints EXCEPT ![f.at] = hint]
        /\ flight' = PassedOn(f)
  /\ stack' = Tail(stack)
  /\ UNCHANGED <<topologyVars, cache, request, done, writes, used>>

\* The caller waits for another partition; the nodes of the answer go with it, but not the one that was missed.
NodesButMissed(f) == {n \in PassedOn(f).nodes : n.ref # f.res.to}
WaitsFor(f, owner) == [f EXCEPT !.res = owner, !.retries = @ + 1, !.nodes = NodesButMissed(f)]

\* The miss is learned from, its hint goes, and the keys are resolved again.
Retry ==
  /\ Answered(TRUE)
  /\ LET f == Head(stack)
     IN /\ Retries(f) # {}
        /\ \E hint \in learn(f.at, flight.nodes, request.keys) :
           \E next \in missLadder(f, hint, cache.partition.hash, flight) :
           \E owner \in {OwnerOf(f.at, next.hint, next.view, request, next.bloom)} :
          /\ hints' = [hints EXCEPT ![f.at] = next.hint]
          /\ cache' = [cache EXCEPT !.partition.hash = next.view]
          /\ IF owner.kind = "remote"
               THEN /\ stack' = <<WaitsFor(f, owner)>> \o Tail(stack)
                    /\ flight' = Call(owner.to, "dispatch", f.at)
                    /\ UNCHANGED rows
               ELSE /\ IF owner = Local THEN RunLocal(f.at, NodesButMissed(f)) ELSE Refuse("not_applicable", f.at, NodesButMissed(f))
                    /\ stack' = Tail(stack)
  /\ UNCHANGED <<part, request, done, writes, used>>

----------------------------------------------------------------------------
(* Faults. *)

\* The answer of a write that ran does not arrive: its caller cannot know that it applied.
LoseAnswer ==
  /\ used.events < MaxEvents
  /\ flight.type = "answer" /\ flight.code = "ok" /\ request.op = "put"
  /\ flight' = Answer("lost", flight.at, {}, 0)
  /\ used' = [used EXCEPT !.events = @ + 1]
  /\ UNCHANGED <<topologyVars, hintVars, stack, request, done, writes>>

\* A restart before the throttled write of the filter.
Restart ==
  /\ used.events < MaxEvents
  /\ \E p \in HashPartitions :
       /\ hints[p].bloom # {}
       /\ hints' = [hints EXCEPT ![p].bloom = {}]
  /\ used' = [used EXCEPT !.events = @ + 1]
  /\ UNCHANGED <<topologyVars, cache, requestVars>>

Init ==
  /\ InitTopology
  /\ hints = [p \in Partitions |-> NoHints]
  /\ \E view \in InitialViews : cache = [s \in Sites |-> [EmptyCache EXCEPT !.hash = view]]
  /\ flight = Idle /\ stack = <<>> /\ request = None
  /\ done = None
  /\ writes = [k \in Keys |-> 1]
  /\ used = [requests |-> 0, events |-> 0]

RequestStep == ClientMisses \/ ClientEnds \/ NoIdentity \/ WhileImporting \/ Dispatch \/ ExecuteLocal \/ Return \/ Retry
Next == RepartitionStep \/ RefreshCache \/ Send \/ RequestStep \/ LoseAnswer \/ Restart
Spec == Init /\ [][Next]_vars

----------------------------------------------------------------------------
(* Properties. *)

\* A read that is answered sees every write of its key that succeeded or may have, whichever partition served
\* it: a source before or after its cutover, a target that reads through, or a stale hint on the way.
\* dispatch and executeLocal, runtime.ts.
ReadsSeeEveryWrite ==
  done # None /\ done.req.op = "get" /\ done.code = "ok" => done.value = writes[FirstKey(done.req.keys)]

\* A missed hint is resolved again, by the client (resolveKey, client.ts) and by every partition on the way
\* (missLadder, runtime.ts): whatever bodies of an earlier life, slices, levels and filters name, no request
\* ends at a partition that does not exist, and no request of one key at one that does not hold the key.
\* Not more than that: which other refusals a hint may bring to the surface is in README, section 6.
EveryMissIsResolved ==
  done # None => done.code # "not_initialized" /\ (done.code = "misrouted" => Cardinality(done.req.keys) > 1)

\* No request meets a partition twice on its way, so forwards always end: except that a source which reads
\* for a target may hand a promoted key to the range tree.  resolve and the ladders of runtime.ts.
ForwardsGoDown ==
  \A i, j \in DOMAIN stack :
    i # j /\ stack[i].at = stack[j].at => (stack[i].how = "caller_slice") # (stack[j].how = "caller_slice")

=============================================================================
