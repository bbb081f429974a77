------------------------------- MODULE Query -------------------------------
(***************************************************************************)
(* queryItems over the partitions of Routing: the page loop of the client  *)
(* (client/db.ts), the visits that a partition plans for an interval       *)
(* (range-frontier.ts, runtime.ts), the walk over them with the budget of  *)
(* the page and the cursor (do-partition.ts), and the scan of a leaf       *)
(* (query-collector.ts, partition-store.ts).                               *)
(*                                                                         *)
(* A hash key is the block first .. next - 1 of positions: its empty sort  *)
(* key is first, and next stands for an absent upper edge.  The caller     *)
(* asks for a page with the cursor of the page before until there is none. *)
(***************************************************************************)
EXTENDS Routing

CONSTANTS
  Queries,          \* [queries, limit, response, select]; a sub-query is [first, next, lower, upper, desc, empty]
  Matches, Weight,  \* the keys whose items the filter keeps, and their bytes
  MAX_EVALUATED_BYTES_PER_PAGE, MAX_PARTITION_VISITS_PER_PAGE

----------------------------------------------------------------------------
(* Intervals: a lower and an upper bound, [at, inclusive].  A segment is a half-open interval. *)

Bound(at, inclusive) == [at |-> at, inclusive |-> inclusive]

\* The sort keys of the hash key inside a composite interval; none when start >= end.
projectOnHashKey(q, r) ==
  [start |-> IF r.start < q.first THEN q.first ELSE r.start, end |-> IF r.end > q.next THEN q.next ELSE r.end]

rangeIntersects(s, q) ==
  /\ q.upper.at > s.start \/ (q.upper.at = s.start /\ q.upper.inclusive)
  /\ q.lower.at < s.end
intervalInside(s, q) ==
  /\ q.lower.at >= s.start
  /\ q.upper.at < s.end \/ (q.upper.at = s.end /\ ~q.upper.inclusive)

isChildFullyBeforeCursor(s, c, desc) ==
  IF desc THEN s.start > c.at \/ (s.start = c.at /\ ~c.inclusive) ELSE c.at >= s.end
cursorFallsInChild(s, c) == s.start <= c.at /\ c.at < s.end
makeBoundaryCursor(s, desc) == IF desc THEN Bound(s.start, FALSE) ELSE Bound(s.end, TRUE)

clipQueryToVisit(q, s) ==
  [q EXCEPT !.lower = IF @.at < s.start THEN Bound(s.start, TRUE) ELSE @,
            !.upper = IF @.at < s.end \/ (@.at = s.end /\ ~@.inclusive) THEN @ ELSE Bound(s.end, FALSE),
            !.cursor = {c \in @ : cursorFallsInChild(s, c)}]

----------------------------------------------------------------------------
(* The budget of a page and the scan of a leaf. *)

PageBudget(spec) ==
  [items |-> spec.limit, bytes |-> MAX_EVALUATED_BYTES_PER_PAGE, response |-> spec.response,
   visits |-> MAX_PARTITION_VISITS_PER_PAGE, allowOversizedFirstItem |-> TRUE]

consume(budget, res) ==
  [items |-> budget.items - res.scanned, bytes |-> budget.bytes - res.bytes,
   response |-> budget.response - res.response, visits |-> budget.visits - res.visits,
   allowOversizedFirstItem |-> budget.allowOversizedFirstItem /\ res.items = <<>>]

budgetExhausted(budget) == budget.items <= 0 \/ budget.bytes <= 0 \/ budget.response <= 0
visitsExhausted(budget) == budget.visits <= 0

\* lastEvaluated and next are cursors, at most one each.
NoResult == [items |-> <<>>, count |-> 0, scanned |-> 0, bytes |-> 0, response |-> 0, visits |-> 0, lastEvaluated |-> {}, next |-> {}]

InBounds(k, q) ==
  /\ k > q.lower.at \/ (k = q.lower.at /\ q.lower.inclusive)
  /\ k < q.upper.at \/ (k = q.upper.at /\ q.upper.inclusive)
\* Mutant of PastCursor: a rejected candidate is left out of the next page.
PastCursorExclusive(k, c, desc) == IF desc THEN k < c.at ELSE k > c.at
PastCursor(k, c, desc) == (k = c.at /\ c.inclusive) \/ IF desc THEN k < c.at ELSE k > c.at

\* The cursor takes the place of the near bound.
Scanned(k, q) ==
  /\ q.first <= k /\ k < q.next
  /\ InBounds(k, IF q.cursor = {} THEN q ELSE IF q.desc THEN [q EXCEPT !.upper = Bound(Top, FALSE)] ELSE [q EXCEPT !.lower = Bound(0, TRUE)])
  /\ \A c \in q.cursor : PastCursor(k, c, q.desc)

InScanOrder(keys, desc) ==
  [i \in 1 .. Cardinality(keys) |-> CHOOSE k \in keys : Cardinality({j \in keys : IF desc THEN j > k ELSE j < k}) = i - 1]

\* The candidate that a budget rejects is the inclusive cursor of the page, and the scan stops there.
queryItemsLocal(p, q) ==
  LET candidates == InScanOrder({k \in Keys : rows[p][k] > 0 /\ Scanned(k, q)}, q.desc)
      take(res, k) ==
        LET left == consume(q.budget, res)
            payload == k \in Matches /\ q.select = "projection"
            full == \/ left.items <= 0 \/ Weight[k] > left.bytes
                    \/ payload /\ Weight[k] > left.response /\ ~left.allowOversizedFirstItem
        IN IF res.next # {} THEN res
           ELSE IF full THEN [res EXCEPT !.next = {Bound(k, TRUE)}]
           ELSE [res EXCEPT !.items = IF payload THEN Append(@, <<k, rows[p][k]>>) ELSE @,
                            !.count = IF k \in Matches THEN @ + 1 ELSE @,
                            !.scanned = @ + 1, !.bytes = @ + Weight[k],
                            !.response = IF payload THEN @ + Weight[k] ELSE @,
                            !.lastEvaluated = {Bound(k, FALSE)}]
  IN [FoldLeft(take, NoResult, candidates) EXCEPT !.visits = 1]

----------------------------------------------------------------------------
(* The frontier: the visits that a partition plans for an interval. *)

\* A base: a range partition or the slice of one, whole for a hash partition, and whether p itself serves it.
Base(to, start, end, speculative) == [to |-> to, start |-> start, end |-> end, local |-> FALSE, speculative |-> speculative]
LocalBase(p) == [Base(p, IF p.kind = "hash" THEN 0 ELSE p.start, IF p.kind = "hash" THEN Top ELSE p.end, FALSE) EXCEPT !.local = TRUE]

Bases(p, q, bloom) ==
  LET h == HashOf[q.first]
      level == findLeaf(p, hints[p], h)
  IN IF p.kind = "range"
       THEN IF routerRole(p) THEN {Base(c, c.start, c.end, FALSE) : c \in part[p].kids} ELSE {LocalBase(p)}
     ELSE IF overrideCutOver(p, h) THEN {Base(RangeRoot(h), 0, Top, FALSE)}
     ELSE IF bloom /\ maybePromoted(hints[p], h) THEN {Base(RangeRoot(h), 0, Top, TRUE)}
     ELSE IF routerRole(p) THEN {Base(hashDescendant(p, h, IF level = 0 THEN 1 ELSE level), 0, Top, FALSE)}
     ELSE {LocalBase(p)}

Inside(inner, outer) == outer.start <= inner.start /\ inner.end <= outer.end
StrictlyInside(inner, outer) == Inside(inner, outer) /\ (inner.start > outer.start \/ inner.end < outer.end)

\* The pieces of a base between the edges of the slices learned inside it, each with its deepest slice.
Pieces(q, base, learned) ==
  LET segment == projectOnHashKey(q, base)
      inside == {r \in learned : LET s == projectOnHashKey(q, r) IN s.start < s.end /\ StrictlyInside(r, base) /\ StrictlyInside(s, segment)}
      points == {segment.start, segment.end} \cup UNION {{projectOnHashKey(q, r).start, projectOnHashKey(q, r).end} : r \in inside}
      pieces == {s \in [start : points, end : points] : s.start < s.end /\ \A x \in points : x <= s.start \/ s.end <= x}
      holding(s) == {r \in inside : Inside(s, projectOnHashKey(q, r))}
  IN {[start |-> s.start, end |-> s.end, base |-> base, learned |-> holding(s) # {},
       to |-> IF holding(s) = {} THEN base.to ELSE Deepest(holding(s))] :
      s \in {s \in pieces : rangeIntersects(s, q)}}

\* Neighbours with one target are one visit.
Merged(pieces) ==
  LET joined(v) == \E x \in pieces : x.end = v.start /\ x.to = v.to
      last(v) == CHOOSE x \in pieces :
        /\ x.to = v.to /\ x.start >= v.start
        /\ \A y \in pieces : v.start <= y.start /\ y.start <= x.start => y.to = v.to
        /\ ~\E y \in pieces : y.start = x.end /\ y.to = v.to
  IN {[v EXCEPT !.end = last(v).end] : v \in {x \in pieces : ~joined(x)}}

planRangeFrontier(q, bases, learned) ==
  LET visits == UNION {Merged(Pieces(q, b, learned)) : b \in bases}
      starts == InScanOrder({v.start : v \in visits}, q.desc)
  IN [i \in DOMAIN starts |-> CHOOSE v \in visits : v.start = starts[i]]

planRange(p, q, bloom) ==
  LET bases == Bases(p, q, bloom)
      learned == IF \E b \in bases : b.local \/ b.to.kind = "hash" THEN {} ELSE {r \in hints[p].slices : r.hash = HashOf[q.first]}
  IN planRangeFrontier(q, bases, learned)

assertCanOwnRange(p, q) ==
  /\ OwnsHash(p, HashOf[q.first])
  /\ p.kind = "range" => LET s == projectOnHashKey(q, p) IN s.start < s.end /\ intervalInside(s, q)

----------------------------------------------------------------------------
(* The client: pages of sub-queries. *)

RangeScope == request.shape = "range"

\* The sub-queries from i on that can have items; the first of them, if any.
NextQuery(spec, i) ==
  LET left == {j \in i .. Len(spec.queries) : ~spec.queries[j].empty}
  IN {j \in left : \A l \in left : j <= l}

SubQuery(spec, i, cursor, budget) ==
  LET sub == spec.queries[i]
  IN [first |-> sub.first, next |-> sub.next, lower |-> sub.lower, upper |-> sub.upper, desc |-> sub.desc,
      select |-> spec.select, cursor |-> cursor, budget |-> budget]

\* The last position of an interval: an exclusive upper bound is above it.
RangeEntryScope(q) == [key |-> q.first, from |-> q.lower.at, to |-> IF q.upper.inclusive THEN q.upper.at ELSE q.upper.at - 1]

\* Sub-query i goes out, in the page with this budget.
Ask(spec, i, cursor, budget, out) ==
  LET q == SubQuery(spec, i, cursor, budget)
      entry == resolveKey(cache.client, RangeEntryScope(q), TRUE)
  IN /\ request' = [shape |-> "range", op |-> "query", keys |-> {q.first}, scope |-> RangeEntryScope(q), entry |-> entry,
                    fallbacks |-> 0, spec |-> spec, current |-> i, query |-> q, out |-> out]
     /\ flight' = [Call(entry.to, "dispatch", entry.to) EXCEPT !.query = q]

NoPage == [items |-> <<>>, count |-> 0, pages |-> <<>>]

SendQuery ==
  /\ request = None
  /\ used.requests < MaxRequests
  /\ \E spec \in Queries : \E i \in NextQuery(spec, 1) : Ask(spec, i, {}, PageBudget(spec), NoPage)
  /\ done' = None
  /\ used' = [used EXCEPT !.requests = @ + 1]
  /\ UNCHANGED <<topologyVars, hintVars, stack, writes>>

EndQuery(code, out) ==
  /\ done' = [req |-> [shape |-> "range", op |-> "query", keys |-> request.keys], code |-> code,
              value |-> out, spec |-> request.spec]
  /\ request' = None /\ flight' = Idle

\* The answer to a sub-query: the next sub-query in the page, the cursor that begins the next page, or the end.
QueryAnswered ==
  /\ RangeScope /\ Answered(FALSE) /\ flight.code = "ok"
  /\ LET spec == request.spec
         res == flight.value
         budget == consume(request.query.budget, res)
         exhausted == budgetExhausted(budget) \/ visitsExhausted(budget)
         later == NextQuery(spec, request.current + 1)
         ends == res.next # {} \/ exhausted \/ later = {}
         out == [items |-> request.out.items \o res.items, count |-> request.out.count + res.count,
                 pages |-> IF ends THEN Append(request.out.pages, [left |-> budget, items |-> Len(request.out.items \o res.items)])
                           ELSE request.out.pages]
     IN \/ /\ res.next # {}
           /\ Ask(spec, request.current, res.next, PageBudget(spec), out) /\ UNCHANGED done
        \/ /\ res.next = {} /\ exhausted
           /\ \E i \in later : Ask(spec, i, {}, PageBudget(spec), out) /\ UNCHANGED done
        \/ /\ res.next = {} /\ ~exhausted
           /\ \E i \in later : Ask(spec, i, {}, budget, out) /\ UNCHANGED done
        \/ /\ res.next = {} /\ later = {}
           /\ EndQuery("ok", out)
  /\ UNCHANGED <<topologyVars, hintVars, stack, writes, used>>

QueryFails ==
  /\ RangeScope /\ Answered(FALSE) /\ flight.code # "ok"
  /\ MissFallback(cache.client, request.entry, request.scope, flight) = {}
  /\ EndQuery(flight.code, NoPage)
  /\ UNCHANGED <<topologyVars, hintVars, stack, writes, used>>

----------------------------------------------------------------------------
(* The walk of a partition over its visits. *)

\* The visits that can still have items of this page, the one under way first.
WalkFrame(p, q, visits) ==
  [at |-> p, how |-> "walk", res |-> Local, nodes |-> {Node(p)}, retries |-> 0, query |-> q, budget |-> q.budget, out |-> NoResult,
   visits |-> SelectSeq(visits, LAMBDA v : rangeIntersects(v, q) /\ \A c \in q.cursor : ~isChildFullyBeforeCursor(v, c, q.desc))]

\* Mutant of VisitQuery: each visit gets the budget of the whole page.
VisitQueryAnew(f) == clipQueryToVisit(f.query, Head(f.visits))
VisitQuery(f) == [clipQueryToVisit(f.query, Head(f.visits)) EXCEPT !.budget = f.budget]

\* The frame after the result of its first visit; no visit is left when the walk stops there.
Settled(f, res) ==
  LET later == Len(f.visits) > 1
      budget == consume(f.budget, res)
      last == IF res.lastEvaluated # {} THEN res.lastEvaluated ELSE f.out.lastEvaluated
      next == IF res.next # {} THEN res.next
              ELSE IF ~later THEN {}
              ELSE IF budgetExhausted(budget) THEN last
              ELSE IF visitsExhausted(budget) THEN {makeBoundaryCursor(Head(f.visits), f.query.desc)}
              ELSE {}
      stops == res.next # {} \/ budgetExhausted(budget) \/ (visitsExhausted(budget) /\ later)
  IN [f EXCEPT !.out = [items |-> @.items \o res.items, count |-> @.count + res.count, scanned |-> @.scanned + res.scanned,
                        bytes |-> @.bytes + res.bytes, response |-> @.response + res.response, visits |-> @.visits + res.visits,
                        lastEvaluated |-> last, next |-> next],
               !.budget = budget, !.retries = 0, !.visits = IF stops THEN <<>> ELSE Tail(@)]

\* The next visit of the frame goes out, or its result goes back.
WalkOn(f, callers) ==
  IF f.visits = <<>>
    THEN /\ flight' = Answer("ok", f.at, f.nodes, f.out)
         /\ stack' = callers
    ELSE LET to == Head(f.visits).to
         IN /\ flight' = [Call(to, "dispatch", f.at) EXCEPT !.query = VisitQuery(f)]
            /\ stack' = <<[f EXCEPT !.res = Remote(to, "visit")]>> \o callers

DispatchQuery ==
  /\ RangeScope /\ Dispatching /\ part[flight.to].phase = "active"
  /\ LET p == flight.to
         q == flight.query
     IN IF ~assertCanOwnRange(p, q) THEN Refuse("misrouted", p, {Node(p)}) /\ UNCHANGED stack
        ELSE \E f \in {WalkFrame(p, q, planRange(p, q, TRUE))} :
               /\ IF f.visits # <<>> /\ Head(f.visits).base.local
                    THEN WalkOn(Settled(f, queryItemsLocal(p, VisitQuery(f))), stack)
                    ELSE WalkOn(f, stack)
               /\ UNCHANGED rows
  /\ UNCHANGED <<part, hintVars, request, done, writes, used>>

\* The import gate of a read: what the partition can own, its source answers.
QueryWhileImporting ==
  /\ RangeScope /\ Dispatching /\ isImporting(flight.to)
  /\ LET p == flight.to
     IN IF ~assertCanOwnRange(p, flight.query) THEN Refuse("misrouted", p, {Node(p)}) /\ UNCHANGED stack
        ELSE /\ stack' = <<Frame(p, "read_through", Local, {Node(p)})>> \o stack
             /\ flight' = [Call(part[p].source, "execute", p) EXCEPT !.query = flight.query]
             /\ UNCHANGED rows
  /\ UNCHANGED <<part, hintVars, request, done, writes, used>>

ExecuteLocalQuery ==
  /\ RangeScope /\ flight.type = "call" /\ flight.mode = "execute"
  /\ LET p == flight.to
         t == flight.from
         q == flight.query
         s == projectOnHashKey(q, t)
         reclaimed == IsRangeRoot(t) /\ part[p].promo[t.hash] = "completed"
         outside == s.start >= s.end \/ ~rangeIntersects(s, q) \/ \E c \in q.cursor : ~cursorFallsInChild(s, c)
         promoted == part[p].promo[HashOf[q.first]] = "completed"
     IN \/ /\ ~CutOverTo(t)
           /\ Refuse("not_cut_over", p, {Node(p)}) /\ UNCHANGED stack
        \/ /\ reclaimed
           /\ Refuse("slice_reclaimed", p, {Node(p)}) /\ UNCHANGED stack
        \/ /\ CutOverTo(t) /\ ~reclaimed /\ t.kind = "range"
           /\ IF outside THEN Refuse("misrouted", p, {Node(p)})
              ELSE flight' = Answer("ok", p, {Node(p)}, queryItemsLocal(p, clipQueryToVisit(q, s))) /\ UNCHANGED rows
           /\ UNCHANGED stack
        \/ /\ CutOverTo(t) /\ t.kind = "hash" /\ promoted
           /\ stack' = <<Frame(p, "caller_slice", Remote(RangeRoot(HashOf[q.first]), "override"), {})>> \o stack
           /\ flight' = [Call(RangeRoot(HashOf[q.first]), "dispatch", p) EXCEPT !.query = q]
           /\ UNCHANGED rows
        \/ /\ CutOverTo(t) /\ t.kind = "hash" /\ ~promoted
           /\ flight' = Answer("ok", p, {Node(p)}, queryItemsLocal(p, q)) /\ UNCHANGED <<rows, stack>>
  /\ UNCHANGED <<part, hintVars, request, done, writes, used>>

----------------------------------------------------------------------------
(* The answers to the visits. *)

Walking == Answered(TRUE) /\ Head(stack).how = "walk"

VisitAnswered ==
  /\ Walking /\ flight.code = "ok"
  /\ LET f == Head(stack)
     IN /\ \E hint \in Learned(f) : hints' = [hints EXCEPT ![f.at] = hint]
        /\ WalkOn(Settled([f EXCEPT !.nodes = PassedOn(f).nodes], flight.value), Tail(stack))
  /\ UNCHANGED <<topologyVars, cache, request, done, writes, used>>

\* A visit that missed: a learned slice that does not exist, or the guess of the Bloom filter.
NotInitialized == flight.code = "not_initialized" /\ flight.at.kind = "range"
SliceMissing(f) == Head(f.visits).learned /\ NotInitialized
GuessWrong(f) ==
  /\ Head(f.visits).base.speculative /\ ~SliceMissing(f)
  /\ NotInitialized \/ flight.code = "not_cut_over" \/ AwaitingData(flight)
VisitMissed(f) == f.retries < maxForwardRetries /\ (SliceMissing(f) \/ GuessWrong(f))

\* Without the slice the visit goes to its base; without the guess, where a plan of the visit without the
\* filter says: down the hash tree, or to the rows here.
RetryVisit ==
  /\ Walking /\ VisitMissed(Head(stack))
  /\ LET f == Head(stack)
         v == Head(f.visits)
         again == planRange(f.at, VisitQuery(f), FALSE)
         nodes == {n \in f.nodes \cup flight.nodes : SliceMissing(f) \/ n.ref # v.to}
         retried(to, base, learned) ==
           [f EXCEPT !.nodes = nodes, !.retries = @ + 1, !.visits[1] = [v EXCEPT !.to = to, !.base = base, !.learned = learned]]
     IN /\ \E hint \in Learned(f) : hints' = [hints EXCEPT ![f.at] = IF SliceMissing(f) THEN deleteLearnedRangeSlice(hint, v.to) ELSE hint]
        /\ IF SliceMissing(f) THEN WalkOn(retried(v.base.to, v.base, FALSE), Tail(stack))
           ELSE IF Len(again) # 1 THEN flight' = Answer("internal", f.at, nodes, 0) /\ stack' = Tail(stack)
           ELSE IF Head(again).base.local THEN WalkOn(Settled([f EXCEPT !.nodes = nodes], queryItemsLocal(f.at, VisitQuery(f))), Tail(stack))
           ELSE WalkOn(retried(Head(again).to, Head(again).base, Head(again).learned), Tail(stack))
  /\ UNCHANGED <<topologyVars, cache, request, done, writes, used>>

VisitFailed ==
  /\ Walking /\ flight.code # "ok" /\ ~VisitMissed(Head(stack))
  /\ LET f == Head(stack)
     IN \E hint \in Learned(f) : hints' = [hints EXCEPT ![f.at] = hint]
  /\ flight' = PassedOn(Head(stack))
  /\ stack' = Tail(stack)
  /\ UNCHANGED <<topologyVars, cache, request, done, writes, used>>

QueryStep == QueryAnswered \/ QueryFails \/ DispatchQuery \/ QueryWhileImporting \/ ExecuteLocalQuery
             \/ VisitAnswered \/ RetryVisit \/ VisitFailed

NextWithQueries == Next \/ SendQuery \/ QueryStep
SpecWithQueries == Init /\ [][NextWithQueries]_vars

----------------------------------------------------------------------------
(* Properties. *)

\* The items of a query in its order, as the client last wrote them.
ScanOf(spec) ==
  LET keysOf(q) == InScanOrder({k \in Matches : writes[k] > 0 /\ q.first <= k /\ k < q.next /\ InBounds(k, q) /\ ~q.empty}, q.desc)
  IN FoldLeft(LAMBDA all, q : all \o keysOf(q), <<>>, spec.queries)

\* The pages of a query, joined, are the scan of its intervals: no item twice, none left out, none out of order,
\* none stale, though each page plans its visits anew over partitions that split meanwhile.  #queryItems of
\* db.ts, planRangeFrontier, walkRangeVisits and the collector.
PagesAreTheScan ==
  done # None /\ done.req.op = "query" /\ done.code = "ok" =>
    LET scan == ScanOf(done.spec)
    IN /\ done.value.count = Len(scan)
       /\ done.spec.select = "projection" => done.value.items = [i \in DOMAIN scan |-> <<scan[i], writes[scan[i]]>>]

\* No page evaluates more items or bytes or visits more leaves than its budget, over all sub-queries and
\* partitions together; only a first item may be above the response budget, and it ends the page.
\* QueryPageBudget of page-budget.ts, shared by the client and every walk.
PagesFitTheirBudget ==
  done # None /\ done.req.op = "query" /\ done.code = "ok" =>
    \A i \in DOMAIN done.value.pages :
      LET page == done.value.pages[i]
          before == IF i = 1 THEN 0 ELSE done.value.pages[i - 1].items
      IN /\ page.left.items >= 0 /\ page.left.bytes >= 0 /\ page.left.visits >= 0
         /\ page.left.response < 0 => page.items = before + 1
=============================================================================
