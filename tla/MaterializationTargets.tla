----------------------- MODULE MaterializationTargets -----------------------
(***************************************************************************)
(* The runner of the targets of a materialization partition and what it    *)
(* keeps in storage (target-runner.ts, materialization-store.ts,           *)
(* materialization-cleanup.ts): the change positions of the images, the    *)
(* cursor and the epoch of each target, the retry rows, the keys that an   *)
(* item has in each GSI, and the fences that a split or promoted partition *)
(* inherits.  The receivers are the partitions of the GSI tables           *)
(* (gsiWriteLocal of do-partition.ts) and a push target that follows the   *)
(* same rules.                                                             *)
(*                                                                         *)
(* A call is its writes, one for each entry.  Each is one transaction at   *)
(* its receiver, at any time: before the answer, after the timeout, after  *)
(* the restart or the cutover of the partition that sent it, or never.     *)
(*                                                                         *)
(* An image is its revision and where a GSI puts its item: an index key,   *)
(* NoKey when the item has no key attribute, BadKey when it is not valid,  *)
(* Deleted for a tombstone.  A retry row can be due at any time.           *)
(***************************************************************************)
EXTENDS Naturals, Sequences, FiniteSets

CONSTANTS
  Keys,
  Parts, First, NoPart,
  Targets, Gsis,              \* the targets of the list, and which are a GSI
  IndexKeys, Sink,            \* the places of the entries: the keys of a GSI, a push target
  NoKey, BadKey, Deleted,
  Values,                     \* what a write of the base table gives: index keys, NoKey, BadKey, Deleted
  Plans,                      \* repartitions: [from, router, child: moved keys -> targets]
  Failing,                    \* the partitions where the evaluation of an item can fail
  MaxItems,                   \* config.maxItemsPerStep
  MaxRevision, MaxFaults      \* bounds of the writes and of the failures

ASSUME TargetsAreValid ==
  /\ First \in Parts /\ NoPart \notin Parts /\ Failing \subseteq Parts /\ Gsis \subseteq Targets /\ Sink \notin IndexKeys
  /\ {NoKey, BadKey, Deleted, Sink} \cap IndexKeys = {} /\ Values \subseteq IndexKeys \cup {NoKey, BadKey, Deleted}
  /\ IsFiniteSet(Keys) /\ IsFiniteSet(Targets)
  /\ \A plan \in Plans : /\ plan.from \in Parts /\ plan.router \in BOOLEAN /\ DOMAIN plan.child \subseteq Keys
                         /\ \A k \in DOMAIN plan.child : plan.child[k] \in Parts \ {plan.from, First}

ASSUME LimitsAreNat == MaxItems \in Nat \ {0} /\ MaxRevision \in Nat /\ MaxFaults \in Nat

VARIABLES
  owner, importing, router, made,  \* the materialization table, as in Repartition
  newest,    \* [Keys -> Nat]: the newest revision that the base table exported
  db,        \* [Parts -> a storage]
  run,       \* [Parts -> the memory of the runner and of the cleanup]
  wire,      \* the writes that can still apply
  entries,   \* [Targets -> [Places -> [Keys -> Nat]]]: the revision of an entry, 0 for none
  seen,      \* [Targets -> [Places -> [Parts -> Nat]]]: producer_fences
  faults

table == <<owner, importing, router, made>>
receivers == <<entries, seen>>
vars == <<table, newest, db, run, wire, receivers, faults>>

Places == IndexKeys \cup {Sink}
Greater(a, b) == IF a > b THEN a ELSE b
Largest(S) == CHOOSE x \in S : \A y \in S : y <= x
Least(S) == CHOOSE x \in S : \A y \in S : x <= y
Children(plan) == {plan.child[k] : k \in DOMAIN plan.child}

NoImage == [rev |-> 0, at |-> NoKey]
NoBatch == [epoch |-> 0]
NoPass == [bound |-> 0, on |-> FALSE]
NoCursors == [t \in Targets |-> 0]
NoSnapshot == [on |-> FALSE, cursors |-> NoCursors]

\* latest_items, change_positions, materialization_targets, target_retry, target_index_keys,
\* ancestor_fences and the cursor snapshot.  A position is [seq, key, prev], 0 for no older one.
EmptyStore ==
  [image |-> [k \in Keys |-> NoImage], newestSeq |-> [k \in Keys |-> 0], positions |-> {},
   cursor |-> NoCursors, epoch |-> [t \in Targets |-> 1], open |-> [t \in Targets |-> FALSE],
   row |-> [t \in Targets |-> [k \in Keys |-> "none"]], inherited |-> [t \in Targets |-> {}],
   keys |-> [t \in Targets |-> [k \in Keys |-> {}]],
   fences |-> [t \in Targets |-> [a \in Parts |-> 0]], until |-> [t \in Targets |-> 0],
   snapshot |-> NoSnapshot]
EmptyRun == [started |-> [t \in Targets |-> FALSE], batch |-> [t \in Targets |-> NoBatch], pass |-> NoPass]

canRunLocally(p) == p \in made /\ ~router[p] /\ importing[p] = NoPart
owns(p, k) == owner[k] = p

----------------------------------------------------------------------------
(* The storage.                                                            *)

minCursor(d) == Least({d.cursor[t] : t \in Targets})
hasPositionAfter(d, seq) == \E x \in d.positions : x.seq > seq

\* #nextPosition: above each stored position, each cursor and each position that a batch read.
nextPosition(d, read) == 1 + Largest({0} \cup {x.seq : x \in d.positions} \cup {Greater(d.cursor[t], read[t]) : t \in Targets})

InsertPosition(d, k, read, prev) ==
  LET seq == nextPosition(d, read)
  IN  [d EXCEPT !.positions = @ \cup {[seq |-> seq, key |-> k, prev |-> prev]}, !.newestSeq[k] = seq]
MovePosition(d, k, read, x) ==
  LET seq == nextPosition(d, read)
  IN  [d EXCEPT !.positions = (@ \ {x}) \cup {[x EXCEPT !.seq = seq]}, !.newestSeq[k] = seq]

\* #planPosition with its write: the position of a new image of k.
planPosition(d, k, read) ==
  LET e == d.newestSeq[k]
      at == {x \in d.positions : x.seq = e /\ e > minCursor(d)}
      prev == LET p == (CHOOSE x \in at : TRUE).prev IN IF p > minCursor(d) THEN p ELSE 0
  IN  IF Targets = {} THEN d
      ELSE IF at = {} THEN InsertPosition(d, k, read, 0)
      ELSE IF \A t \in Targets : read[t] < e THEN d
      ELSE IF prev # 0 /\ \A t \in Targets : d.cursor[t] >= e \/ d.cursor[t] < prev
           THEN MovePosition(d, k, read, CHOOSE x \in at : TRUE)
      ELSE InsertPosition(d, k, read, e)

putLatestImage(d, k, new, read) == [planPosition(d, k, read) EXCEPT !.image[k] = new]

RaiseTargetEpoch(d, t) == [d EXCEPT !.epoch[t] = @ + 1]
UpdateTarget(d, t, cursor, open) == [d EXCEPT !.cursor[t] = cursor, !.open[t] = open]
RecordRetry(d, t, K) == [d EXCEPT !.row[t] = [k \in Keys |-> IF k \in K THEN "retry" ELSE @[k]]]
DeleteRetry(d, t, K) == [d EXCEPT !.row[t] = [k \in Keys |-> IF k \in K THEN "none" ELSE @[k]],
                                  !.inherited[t] = @ \ K]
RecordViolation(d, t, K) == [d EXCEPT !.row[t] = [k \in Keys |-> IF k \in K THEN "violation" ELSE @[k]]]

\* The fences of a target go when no inherited work is left, also none that a promotion still copies.
dropDoneTargetFences(d, t) ==
  IF /\ d.until[t] <= d.cursor[t]
     /\ d.snapshot.on => d.until[t] <= d.snapshot.cursors[t]
     /\ ~ \E k \in d.inherited[t] : d.row[t][k] = "retry"
  THEN [d EXCEPT !.fences[t] = [a \in Parts |-> 0]] ELSE d

\* An item with its positions, its rows and its keys.
DeleteItems(d, K) ==
  [d EXCEPT !.image = [k \in Keys |-> IF k \in K THEN NoImage ELSE @[k]],
            !.newestSeq = [k \in Keys |-> IF k \in K THEN 0 ELSE @[k]],
            !.positions = {x \in @ : x.key \notin K},
            !.row = [t \in Targets |-> [k \in Keys |-> IF k \in K THEN "none" ELSE @[t][k]]],
            !.inherited = [t \in Targets |-> @[t] \ K],
            !.keys = [t \in Targets |-> [k \in Keys |-> IF k \in K THEN {} ELSE @[t][k]]]]

----------------------------------------------------------------------------
(* The images of the base table.                                           *)

Waits(p, t) == run[p].batch[t] # NoBatch

\* readPosition: the highest position that the batch in flight read.
readPosition(p) == [t \in Targets |-> IF Waits(p, t) THEN Greater(run[p].batch[t].highest, db[p].cursor[t]) ELSE db[p].cursor[t]]

\* applyLatestImagesLocal for an image that is newer than the stored one.
applyLatestImagesLocal(k, at) ==
  LET p == owner[k]
  IN  /\ importing[p] = NoPart /\ newest[k] < MaxRevision
      /\ at = Deleted => db[p].image[k].at # Deleted /\ newest[k] > 0
      /\ newest' = [newest EXCEPT ![k] = @ + 1]
      /\ db' = [db EXCEPT ![p] = putLatestImage(@, k, [rev |-> newest[k] + 1, at |-> at], readPosition(p))]
      /\ UNCHANGED <<table, run, wire, receivers, faults>>

----------------------------------------------------------------------------
(* The claim of a batch.                                                   *)

RetryKeys(d, t) == {k \in Keys : d.row[t][k] = "retry" /\ d.image[k].rev # 0}

\* #claimRefs: the due retry rows, at most half of a batch and at least one; then the positions
\* from the cursor to `highest`, 0 for none.  A position of a claimed or a retried item is passed.
FromRetry(d, t) == {K \in SUBSET RetryKeys(d, t) : Cardinality(K) <= Greater(1, MaxItems \div 2)}
FromPositions(d, t, due, highest) ==
  {k \in Keys \ (due \cup RetryKeys(d, t)) : \E x \in d.positions : x.key = k /\ x.seq > d.cursor[t] /\ x.seq <= highest}
Highests(d, t, due) ==
  LET after == {x.seq : x \in {y \in d.positions : y.seq > d.cursor[t]}}
  IN  IF after = {} THEN {0}
      ELSE {h \in after : Cardinality(FromPositions(d, t, due, h)) <= Greater(1, MaxItems - Cardinality(due))}

\* desiredGsiEntry, and the one place of a push target.
DesiredPlace(t, new) == IF t \notin Gsis THEN Sink ELSE IF new.at \in IndexKeys THEN new.at ELSE NoKey

\* #claimGsi and toPushItem: the writes of an item.
ClaimedItem(d, t, k) ==
  LET new == d.image[k]
      put == DesiredPlace(t, new)
  IN  [rev |-> new.rev, deleted |-> new.at = Deleted, put |-> put, deletes |-> d.keys[t][k] \ {put},
       violation |-> t \in Gsis /\ new.at = BadKey]

\* A key set that gets the key only when it has none.
addIndexKeyOnce(d, t, K) ==
  IF t \notin Gsis THEN d
  ELSE [d EXCEPT !.keys[t] = [k \in Keys |-> IF k \in K /\ DesiredPlace(t, d.image[k]) # NoKey /\ @[k] = {}
                                               THEN {DesiredPlace(t, d.image[k])} ELSE @[k]]]

\* The desired key goes into the key set before the call.
addIndexKey(d, t, K) ==
  IF t \notin Gsis THEN d
  ELSE [d EXCEPT !.keys[t] = [k \in Keys |-> IF k \in K /\ DesiredPlace(t, d.image[k]) # NoKey
                                               THEN @[k] \cup {DesiredPlace(t, d.image[k])} ELSE @[k]]]

\* The retry rows of moved items: a promotion that is not complete can still copy them.
ForgetMoved(p, d, t, due) ==
  IF d.snapshot.on THEN d ELSE DeleteRetry(d, t, {k \in due : ~owns(p, k)})

\* The writes of one call of a batch: the places of call[k].
Writes(p, t, b, n, places) ==
  {[from |-> p, target |-> t, epoch |-> b.epoch, fences |-> b.fences, call |-> n, key |-> x[1], place |-> x[2],
    value |-> IF n = 1 /\ x[2] = b.items[x[1]].put /\ ~b.items[x[1]].deleted THEN b.items[x[1]].rev ELSE 0,
    put |-> n = 1 /\ x[2] = b.items[x[1]].put] : x \in places}

\* The first call: the put of each item, or the deletes of an item with no desired entry.
firstCall(items) ==
  UNION {{<<k, place>> : place \in IF items[k].put # NoKey THEN {items[k].put} ELSE items[k].deletes} : k \in DOMAIN items}
NoAnswers(places) == [x \in places |-> "none"]

\* A batch of the instance before the restart can still apply: the first claim raises the epoch.
claimEpoch(p, t) == IF ~run[p].started[t] /\ db[p].open[t] THEN db[p].epoch[t] + 1 ELSE db[p].epoch[t]

\* #claim in one transaction, with the items whose evaluation fails.
claim(p, t, due, highest, failing) ==
  LET d == db[p]
      found == due \cup FromPositions(d, t, due, highest)
      claimed == {k \in found : owns(p, k) /\ d.image[k].rev # 0} \ failing
      after == addIndexKey(RecordRetry(ForgetMoved(p, [d EXCEPT !.epoch[t] = claimEpoch(p, t)], t, due), t, failing), t, claimed)
      items == [k \in claimed |-> ClaimedItem(d, t, k)]
      empty == dropDoneTargetFences(IF highest # 0 \/ d.open[t]
                                    THEN UpdateTarget(after, t, Greater(highest, d.cursor[t]), FALSE) ELSE after, t)
      full == dropDoneTargetFences([after EXCEPT !.open[t] = TRUE], t)
      b == [epoch |-> claimEpoch(p, t), fences |-> full.fences[t], cursor |-> d.cursor[t], highest |-> highest,
            items |-> items, calls |-> <<NoAnswers(firstCall(items))>>]
  IN  /\ canRunLocally(p) /\ ~Waits(p, t)
      /\ failing \subseteq {k \in found : owns(p, k) /\ t \in Gsis /\ p \in Failing}
      /\ faults + Cardinality(failing) <= MaxFaults /\ faults' = faults + Cardinality(failing)
      /\ IF claimed = {}
         THEN /\ db' = [db EXCEPT ![p] = empty]
              /\ run' = [run EXCEPT ![p].started[t] = TRUE]
              /\ UNCHANGED wire
         ELSE /\ db' = [db EXCEPT ![p] = full]
              /\ run' = [run EXCEPT ![p].started[t] = TRUE, ![p].batch[t] = b]
              /\ wire' = wire \cup Writes(p, t, b, 1, firstCall(items))
      /\ UNCHANGED <<table, newest, receivers>>
      /\ db' # db \/ run' # run

----------------------------------------------------------------------------
(* The receivers.                                                          *)

\* The batch in flight gets the outcome of a write, when it still waits for it.
Answered(w, outcome) ==
  LET b == run[w.from].batch[w.target]
      x == <<w.key, w.place>>
  IN  run' = IF b # NoBatch /\ b.epoch = w.epoch /\ w.call \in DOMAIN b.calls /\ x \in DOMAIN b.calls[w.call]
             THEN [run EXCEPT ![w.from].batch[w.target].calls[w.call][x] = outcome]
             ELSE run

RaisedByFences(w) == [a \in Parts |-> Greater(seen[w.target][w.place][a], w.fences[a])]
IsFenced(w) == w.epoch < RaisedByFences(w)[w.from]

\* gsiWriteLocal for one entry, in its own transaction.  A push target follows the same rules, and can
\* then reject the item.  (One that rejects a delete keeps its copy, as it asked.)
gsiWriteLocal(w, rejected) ==
  LET fenced == IsFenced(w)
  IN  /\ rejected => w.target \notin Gsis /\ w.value # 0 /\ ~fenced /\ faults < MaxFaults
      /\ faults' = IF rejected THEN faults + 1 ELSE faults
      /\ wire' = wire \ {w}
      /\ seen' = [seen EXCEPT ![w.target][w.place] =
                    IF fenced THEN RaisedByFences(w) ELSE [RaisedByFences(w) EXCEPT ![w.from] = w.epoch]]
      /\ entries' = IF fenced \/ rejected THEN entries ELSE [entries EXCEPT ![w.target][w.place][w.key] = w.value]
      /\ Answered(w, IF fenced THEN "retry" ELSE IF rejected THEN "violation" ELSE "applied")
      /\ UNCHANGED <<table, newest, db>>

\* A GSI refuses an entry before its first write: it is over its size, or the data of a put is not valid there.
refuse(w, outcome) ==
  /\ w.target \in Gsis /\ (outcome = "violation" => w.value # 0)
  /\ faults < MaxFaults /\ faults' = faults + 1
  /\ wire' = wire \ {w}
  /\ Answered(w, outcome)
  /\ UNCHANGED <<table, newest, db, receivers>>

----------------------------------------------------------------------------
(* The answer of a batch.                                                  *)

AllAnswered(b) == \A n \in DOMAIN b.calls : \A x \in DOMAIN b.calls[n] : b.calls[n][x] # "none"

\* #sendGsi: after a put that applied, the other keys; after a put that is not valid, each key.
secondCall(t, b) ==
  LET put(k) == IF <<k, b.items[k].put>> \in DOMAIN b.calls[1] THEN b.calls[1][<<k, b.items[k].put>>] ELSE "none"
      others(k) == IF put(k) = "applied" THEN b.items[k].deletes
                   ELSE IF put(k) = "violation" THEN b.items[k].deletes \cup {b.items[k].put}
                   ELSE {}
  IN  IF t \notin Gsis \/ Len(b.calls) = 2 THEN {}
      ELSE UNION {{<<k, place>> : place \in IF b.items[k].put = NoKey THEN {} ELSE others(k)} : k \in DOMAIN b.items}

sendGsi(p, t) ==
  LET b == run[p].batch[t]
      places == secondCall(t, b)
  IN  /\ Waits(p, t) /\ AllAnswered(b) /\ places # {}
      /\ run' = [run EXCEPT ![p].batch[t].calls = Append(@, NoAnswers(places))]
      /\ wire' = wire \cup Writes(p, t, b, 2, places)
      /\ UNCHANGED <<table, newest, db, receivers, faults>>

\* The result of an item.
Result(b, k) ==
  LET outcomes == {b.calls[n][x] : <<n, x>> \in {<<n, x>> \in (DOMAIN b.calls) \X UNION {DOMAIN b.calls[i] : i \in DOMAIN b.calls} :
                                                    x \in DOMAIN b.calls[n] /\ x[1] = k}}
  IN  IF "retry" \in outcomes THEN "retry"
      ELSE IF b.items[k].violation \/ "violation" \in outcomes THEN "rejected"
      ELSE "applied"

\* The keys of an item whose deletes applied.
Removed(b, k) ==
  {place \in IndexKeys : \E n \in DOMAIN b.calls : /\ n = 2 \/ b.items[k].put = NoKey
                                                   /\ <<k, place>> \in DOMAIN b.calls[n]
                                                   /\ b.calls[n][<<k, place>>] = "applied"}

removeIndexKeys(d, t, b) ==
  [d EXCEPT !.keys[t] = [k \in Keys |-> IF k \in DOMAIN b.items THEN @[k] \ Removed(b, k) ELSE @[k]]]

\* #applyResult for the owned items whose image is still the one that the call sent.
applyResult(p, d, t, b) ==
  LET of(result) == {k \in DOMAIN b.items : /\ owns(p, k) /\ d.image[k].rev = b.items[k].rev
                                            /\ Result(b, k) = result}
      dead == {k \in DOMAIN b.items : b.items[k].deleted}
  IN  RecordViolation(RecordRetry(DeleteRetry(d, t, of("applied") \cup (of("rejected") \cap dead)), t, of("retry")),
                      t, of("rejected") \ dead)

\* The transition of #complete for a known answer of the current epoch.  due: a retry row is due.
Completed(p, t, b, due) ==
  LET d == applyResult(p, removeIndexKeys(db[p], t, b), t, b)
      cursor == IF b.highest # 0 /\ d.cursor[t] = b.cursor THEN b.highest ELSE d.cursor[t]
      more == hasPositionAfter(d, cursor) \/ (due /\ \E k \in Keys : d.row[t][k] = "retry")
  IN  dropDoneTargetFences(IF cursor # d.cursor[t] \/ ~more THEN UpdateTarget(d, t, cursor, more) ELSE d, t)

\* #complete.  known is FALSE for a call with no answer; whole when a receiver refused a whole call.
complete(p, t, known, whole, due) ==
  LET b == run[p].batch[t]
      last == b.calls[Len(b.calls)]
  IN  /\ Waits(p, t)
      /\ IF known THEN AllAnswered(b) /\ (whole \/ secondCall(t, b) = {}) ELSE ~whole /\ faults < MaxFaults
      /\ whole => DOMAIN last # {} /\ \A x \in DOMAIN last : last[x] = "retry"
      /\ faults' = IF known THEN faults ELSE faults + 1
      /\ run' = [run EXCEPT ![p].batch[t] = NoBatch]
      /\ db' = IF ~canRunLocally(p) \/ b.epoch < db[p].epoch[t] THEN db
               ELSE IF ~known THEN [db EXCEPT ![p] = RaiseTargetEpoch(@, t)]
               ELSE IF whole \/ \A k \in DOMAIN b.items : Result(b, k) = "retry" THEN db
               ELSE [db EXCEPT ![p] = Completed(p, t, b, due)]
      /\ UNCHANGED <<table, newest, wire, receivers>>

\* The instance restarts: the memory goes, the writes in flight can still apply.
restart(p) ==
  /\ run[p] # EmptyRun /\ faults < MaxFaults /\ faults' = faults + 1
  /\ run' = [run EXCEPT ![p] = EmptyRun]
  /\ UNCHANGED <<table, newest, db, wire, receivers>>

----------------------------------------------------------------------------
(* The cleanup.                                                            *)

cleanupBound(d) == Least({d.cursor[t] : t \in Targets} \cup IF d.snapshot.on THEN {d.snapshot.cursors[t] : t \in Targets} ELSE {})
Done(p) == {x \in db[p].positions : x.seq <= run[p].pass.bound}

startPass(p) ==
  /\ canRunLocally(p) /\ ~run[p].pass.on
  /\ \E x \in db[p].positions : x.seq <= cleanupBound(db[p])
     \/ \E k \in Keys : db[p].image[k].at = Deleted
  /\ run' = [run EXCEPT ![p].pass = [bound |-> cleanupBound(db[p]), on |-> TRUE]]
  /\ UNCHANGED <<table, newest, db, wire, receivers, faults>>

\* The lowest positions first.
deletePositionsUpTo(p) ==
  /\ canRunLocally(p) /\ run[p].pass.on /\ Done(p) # {}
  /\ db' = [db EXCEPT ![p].positions = @ \ {x \in @ : x.seq = Least({y.seq : y \in Done(p)})}]
  /\ UNCHANGED <<table, newest, run, wire, receivers, faults>>

\* A tombstone that each target read, with no row and no key left.
deleteTombstone(p, k) ==
  /\ canRunLocally(p) /\ run[p].pass.on /\ Done(p) = {}
  /\ db[p].image[k].at = Deleted /\ db[p].newestSeq[k] <= run[p].pass.bound
  /\ \A t \in Targets : db[p].row[t][k] = "none" /\ db[p].keys[t][k] = {}
  /\ db' = [db EXCEPT ![p] = DeleteItems(@, {k})]
  /\ UNCHANGED <<table, newest, run, wire, receivers, faults>>

endPass(p) ==
  /\ run[p].pass.on /\ Done(p) = {}
  /\ run' = [run EXCEPT ![p].pass = NoPass]
  /\ UNCHANGED <<table, newest, db, wire, receivers, faults>>

----------------------------------------------------------------------------
(* The repartitions of the materialization table.                          *)

\* onRepartitionCutover: each target gets the next epoch; a promotion keeps the cursors for the child.
onRepartitionCutover(plan) ==
  LET p == plan.from
  IN  /\ canRunLocally(p) /\ \A q \in Parts : importing[q] # p
      /\ \A k \in DOMAIN plan.child : owns(p, k)
      /\ Children(plan) \cap made = {} /\ made' = made \cup Children(plan)
      /\ plan.router => DOMAIN plan.child = {k \in Keys : owns(p, k)}
      /\ owner' = [k \in Keys |-> IF k \in DOMAIN plan.child THEN plan.child[k] ELSE owner[k]]
      /\ importing' = [q \in Parts |-> IF q \in Children(plan) THEN p ELSE importing[q]]
      /\ router' = [router EXCEPT ![p] = plan.router]
      /\ db' = [db EXCEPT ![p].epoch = [t \in Targets |-> @[t] + 1],
                          ![p].snapshot = IF plan.router THEN @ ELSE [on |-> TRUE, cursors |-> db[p].cursor]]
      /\ UNCHANGED <<newest, run, wire, receivers, faults>>

\* #cursors: the cursors that the child starts from.
Cursors(d) == IF d.snapshot.on THEN d.snapshot.cursors ELSE d.cursor

\* #positionsAbove: from the newest position down, while the links lead to positions above minSeq.
RECURSIVE positionsAbove(_, _, _)
positionsAbove(d, seq, minSeq) ==
  LET at == {x \in d.positions : x.seq = seq /\ seq > minSeq}
  IN  IF at = {} THEN {} ELSE at \cup positionsAbove(d, (CHOOSE x \in at : TRUE).prev, minSeq)

\* buildPage and insertMigratedItem for one item: its copied rows are inherited.
insertMigratedItem(q, k) ==
  LET d == db[importing[q]]
      minSeq == Least({Cursors(d)[t] : t \in Targets})
  IN  /\ importing[q] # NoPart /\ owns(q, k) /\ d.image[k].rev # 0 /\ db[q].image[k].rev = 0
      /\ db' = [db EXCEPT ![q].image[k] = d.image[k], ![q].newestSeq[k] = d.newestSeq[k],
                          ![q].positions = @ \cup positionsAbove(d, d.newestSeq[k], minSeq),
                          ![q].row = [t \in Targets |-> [@[t] EXCEPT ![k] = d.row[t][k]]],
                          ![q].inherited = [t \in Targets |-> @[t] \cup IF d.row[t][k] # "none" THEN {k} ELSE {}],
                          ![q].keys = [t \in Targets |-> [@[t] EXCEPT ![k] = d.keys[t][k]]]]
      /\ UNCHANGED <<table, newest, run, wire, receivers, faults>>

\* An import that carries the fences of no ancestor.
importFencesOfNone(d, src, p, t) == [a \in Parts |-> 0]

\* The fences of a target with inherited work: those of the source, and the source at its epoch.
importFences(d, src, p, t) ==
  IF (\E x \in d.positions : x.seq > Cursors(src)[t]) \/ (\E k \in d.inherited[t] : d.row[t][k] = "retry")
  THEN [src.fences[t] EXCEPT ![p] = Greater(@, src.epoch[t])]
  ELSE [a \in Parts |-> 0]

\* The state page, the last of the import: importMigrationState.
importMigrationState(q) ==
  LET p == importing[q]
      until(t) == Largest({Cursors(db[p])[t]} \cup {x.seq : x \in db[q].positions})
  IN  /\ p # NoPart
      /\ \A k \in Keys : owns(q, k) /\ db[p].image[k].rev # 0 => db[q].image[k].rev # 0
      /\ importing' = [importing EXCEPT ![q] = NoPart]
      /\ db' = [db EXCEPT ![q].cursor = Cursors(db[p]),
                          ![q].until = [t \in Targets |-> until(t)],
                          ![q].fences = [t \in Targets |-> importFences(db[q], db[p], p, t)]]
      /\ UNCHANGED <<owner, router, made, newest, run, wire, receivers, faults>>

\* beforeComplete of a promotion, when its child has each row.
beforeComplete(p) ==
  /\ db[p].snapshot.on /\ \A q \in Parts : importing[q] # p
  /\ db' = [db EXCEPT ![p].snapshot = NoSnapshot]
  /\ UNCHANGED <<table, newest, run, wire, receivers, faults>>

\* cleanupSourceStep of a promotion.
cleanupSourceStep(p, k) ==
  /\ ~db[p].snapshot.on /\ ~router[p] /\ \A q \in Parts : importing[q] # p
  /\ ~owns(p, k) /\ db[p].image[k].rev # 0
  /\ db' = [db EXCEPT ![p] = DeleteItems(@, {k})]
  /\ UNCHANGED <<table, newest, run, wire, receivers, faults>>

----------------------------------------------------------------------------

Init ==
  /\ owner = [k \in Keys |-> First] /\ importing = [p \in Parts |-> NoPart]
  /\ router = [p \in Parts |-> FALSE] /\ made = {First}
  /\ newest = [k \in Keys |-> 0]
  /\ db = [p \in Parts |-> EmptyStore] /\ run = [p \in Parts |-> EmptyRun]
  /\ wire = {}
  /\ entries = [t \in Targets |-> [x \in Places |-> [k \in Keys |-> 0]]]
  /\ seen = [t \in Targets |-> [x \in Places |-> [p \in Parts |-> 0]]]
  /\ faults = 0

ingests == \E k \in Keys, at \in Values : applyLatestImagesLocal(k, at)
claims(p, t) == \E due \in FromRetry(db[p], t) : \E highest \in Highests(db[p], t, due), failing \in SUBSET Keys :
                  claim(p, t, due, highest, failing)
completes(p, t) == \E known, whole, due \in BOOLEAN : complete(p, t, known, whole, due)
steps(p) == \E t \in Targets : claims(p, t) \/ sendGsi(p, t) \/ completes(p, t)
receives == \E w \in wire : (\E rejected \in BOOLEAN : gsiWriteLocal(w, rejected)) \/ \E outcome \in {"retry", "violation"} : refuse(w, outcome)
cleans(p) == startPass(p) \/ deletePositionsUpTo(p) \/ endPass(p) \/ \E k \in Keys : deleteTombstone(p, k)
moves == \/ \E plan \in Plans : onRepartitionCutover(plan)
         \/ \E q \in Parts : importMigrationState(q) \/ beforeComplete(q)
                             \/ \E k \in Keys : insertMigratedItem(q, k) \/ cleanupSourceStep(q, k)

Next == \/ ingests \/ receives \/ moves
        \/ \E p \in Parts : steps(p) \/ cleans(p) \/ restart(p)

Spec == Init /\ [][Next]_vars

----------------------------------------------------------------------------
(* Properties.                                                             *)

Holds(t, k, place) == entries[t][place][k]
Wanted(t, new, place) == IF new.at # Deleted /\ DesiredPlace(t, new) = place THEN new.rev ELSE 0

\* Nothing of an item is left to do for a target.
CaughtUp(p, t, k) ==
  /\ db[p].row[t][k] = "none"
  /\ ~ \E x \in db[p].positions : x.key = k /\ x.seq > db[p].cursor[t]

\* Once the cursor of a target is past the positions of an item and no row of it is left, each
\* receiver holds exactly the image: no batch, late answer, restart or repartition loses a change,
\* leaves an entry at an old key, or lets an older call win.
CaughtUpIsCurrent ==
  \A k \in Keys, t \in Targets :
    LET p == owner[k]
    IN  importing[p] = NoPart /\ CaughtUp(p, t, k) =>
          \A place \in Places : Holds(t, k, place) = Wanted(t, db[p].image[k], place)

\* The receivers reject each late call of an ancestor: once the owner of an item is past its inherited
\* work, no write that another partition sent for the item can apply.
AncestorsAreRejected ==
  \A w \in wire : LET p == owner[w.key] IN importing[p] = NoPart /\ w.from # p /\ CaughtUp(p, w.target, w.key) => IsFenced(w)

\* The partition that holds the rows of an item knows each key of a GSI where the item has an entry
\* or where a put that the receiver would accept can still write one, so it can delete the entry.
EntriesHaveKeys ==
  \A k \in Keys, t \in Gsis, place \in IndexKeys :
    LET p == IF importing[owner[k]] = NoPart THEN owner[k] ELSE importing[owner[k]]
    IN  \/ Holds(t, k, place) # 0
        \/ \E w \in wire : w.target = t /\ w.place = place /\ w.key = k /\ w.value # 0 /\ ~IsFenced(w)
        => place \in db[p].keys[t][k]

=============================================================================
