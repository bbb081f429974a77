# FokosDB: a TLA+ verification project

FokosDB is a document database on Cloudflare Durable Objects. A table is a tree
of partition objects that split as they grow; transactions run as a two-phase
commit between coordinator objects and partitions; secondary indexes are
materialized asynchronously. This directory holds TLA+ models of its parts, the
TLC configurations that check them on small instances, and TLAPS proofs for
every instance. All source paths below are under `packages/fokosdb/src/`.

## 1. The system

| Part | State it keeps | Operations | What makes it correct |
|---|---|---|---|
| Partition store (`shared/partition/partition-store.ts`) | item rows with a revision and two transaction-order stamps, locks, deletion marks | upsert, delete, stamp, lock, release | revisions and stamps never fall, also over a delete |
| Transaction participant (`shared/partition/transaction-participant.ts`, `server/do-partition.ts`) | the locks and their quarantine | prepare, commit, cancel, single shot, plain writes, the stale job | all locks or none; a lock protects its key; a write is applied once |
| Coordinator (`server/do-transaction-coordinator.ts`) | the ledger of transactions and participants | initiate, drive, recover, sweep | a decision is durable, and is carried out |
| Read transaction (`client/db.ts`) | none; two phases in the client | read, compare | the answer is a snapshot |
| Repartition (`sharding/repartition-flow.ts`, `sharding/sharding-store.ts`, `shared/partition/fokos-migration-host.ts`) | the row of each repartition, the import cursor of a target, the promotions | queue, plan, initialize, cut over, serve and apply pages, acknowledge, clean up | one owner for each key; no move changes the table |
| Batch (`client/db.ts`, `sharding/runtime.ts`, `shared/batch-*.ts`) | none; calls in flight | split by owner, forward, merge, trim | one true outcome for each item |
| Destroy (`client/db.ts`, `sharding/client.ts`) | the fence of every partition | traverse, fence, wipe, reset | nothing is left behind; a group stays empty |
| Materialization export (`shared/partition/materialization-export.ts`, `server/materialization/do-materialization.ts`) | the outbox, the epoch and the inherited fences of a base partition; the images and the producer fences of a receiver | capture, claim, send, apply, acknowledge, retry, import | every change arrives, none comes back |
| Materialization targets (`server/materialization/`) | the images, the change positions, and for each target a cursor, an epoch, retry rows, index keys and inherited fences | put an image, claim a batch, call in two steps, apply the answer, clean up, migrate | a target that caught up holds the newest image, and nothing at an old key |
| Routing (`sharding/client.ts`, `sharding/runtime.ts`, `sharding/topology-cache.ts`, `sharding/hash-topology.ts`) | the cached topology bodies of an isolate with the positions that a miss cut; what a partition learned: range slices, levels of the hash tree, a Bloom filter of promoted hashes | resolve, dispatch, forward, read through, miss, learn | a read sees every write whatever anybody learned, a miss is resolved again; forwards end |
| Queries (`client/db.ts`, `sharding/range-frontier.ts`, `server/do-partition.ts`, `shared/query/`) | none; the page of a client, the walks and their budgets in flight | plan visits, walk, scan, resume at a cursor | the pages joined are the scan; no page is above its budget |
| Topology bodies (`sharding/topology-encode.ts`, `-codec.ts`, `-keeper.ts`) | encoded bitmaps, Bloom filter, range ranks | encode, merge, look up | the incremental build is the full build; lookups find the deepest owner |

The hard behaviours are: several drives of one transaction at a time, each with
an old view of the ledger; calls that are lost, repeated or delivered late;
coordinators and partitions that stop between two steps; a stale job that asks
about a lock and applies the answer later; partitions that split while they are
read, written, locked or destroyed, with pages and acknowledgements that arrive
late or twice.

## 2. The modules

`PartitionStore` has the operators on one row. `Participant` adds the partitions
as participants; every local step there is one storage transaction without an
await, so it is one action. A request is a sequence of operations, any number of
them on one item, as the mode `ordered_per_item` allows (the mode `standard` is
the case of one for each item): a condition sees what the earlier operations of
its item left (`DataBefore`), a prepare keeps none of these temporary writes and
compares the stamps from before them (`Watermark`), the lock row of an item has
the list of its operations and the data of the last write (`LockRow`), and a
commit replays the lists of its lock rows in the order of the request
(`LockEntries`, `ApplyOps`). A single shot keeps its temporary writes
(`WriteEntries`). `Coordinator` is the ledger and the drives: an action
is what the code runs between two awaits, and a fan-out is a function from
participants to the states of their calls. `Transactions` composes both: it
delivers calls and answers, now, late or again, runs the stale job and the
writes outside the coordinator, and states the properties. `AtomicStore` is the
abstract specification: one map from keys to data on which the operations of a
transaction take effect in one step, in their order. `ReadTransaction` runs the client's two phases beside all of
this. `Participant_proofs` has the lemmas on what a list of operations does to
rows, marks and locks; `Transactions_proofs` and `ReadTransaction_proofs` hold
the theorems.

`Repartition` models hash splits, range splits and promotions together: the row
of a repartition at its source, the calls to its targets, the pages that carry
the overrides, the rows and the locks, the cleanup, and the requests that run
meanwhile, with the read that a target passes to its source. The topology is a
constant: a plan is a repartition that may be queued. Calls and pages stay
deliverable for ever, which stands for every delay and repetition. `Table` is
what the partitions promise together: one value and one lock for each key.
`Repartition_proofs` holds the theorems.

`Batch` models one call of `batchGetItems` or `batchWriteItems` with the nodes
it passes through, `Destroy` the destroy of a table against partitions that go
on working and initialise the targets of a repartition one by one, each call with an
outcome of its own, `EncodedTopology` the bodies that the admin objects build and the
clients decode. Each is independent of the others; `Destroy_proofs` holds the theorems
of the second. The `MC*` modules give the
constants of the instances; each run has one `.cfg`.

`MaterializationExport` models the outbox of the base partitions, the workers
that claim its rows and send them, and the receivers that take the images, while
both tables repartition. A call is sent once, and each of its items may run at
any later time or never; so an item that runs after the timeout, the restart or
the split of its sender is covered. An image is its revision and whether it is a
delete. `MaterializationExport_proofs` holds the theorems.

`MaterializationTargets` continues there: the partition that took an image sends it to
the GSIs and push targets of its table. An image is its revision and the index key
that it gives. A call is one write for each entry, and each may apply at any later time
or never. `Failing` names the partitions where the evaluation of an item can fail. A push
target is assumed to follow the rules that `targets.ts` asks of it: it compares the
epochs of producers, as a GSI does.

`Routing` models one request at a time as the chain of calls that it is: `flight` is the
call or the answer under way, `stack` the callers that wait, each with the resolution that
it acts on. Between any two steps of the chain a split or a promotion goes on, a cache
refreshes, an answer is lost or a partition restarts. `Repartition` has the transfer itself;
here a repartition is only what a request can tell of it: the targets exist, the source
has cut over, the target has a page, the target has all rows. `hints` is what each
partition learned from answers, `cache` the decoded bodies of the client's isolate and of
the partitions' isolate. A key is its position in the order of the key codec; a Bloom
filter holds what was added and the members of `FalsePositives`. The rows count the writes
of a key, so a read that missed a write shows. `Routing_proofs` holds the theorems. `Query` extends it with the range shape: the
pages of the client over its sub-queries, the visits that a partition plans, the walk with
the budget and the cursor, and the scan of a leaf. A walk is one more caller on the stack.

Data is abstracted: a value is the sequence of the writers it is made of, from the last
put on, a writer once for each of its writes (so a lost or repeated write shows), a condition is "any", "exists" or "absent", a
payload is a size. Every definition that models code is mapped to its lines in
`PROJECT.json`.

## 3. The runs

| Run | Question | Instance |
|---|---|---|
| `drives` | Is a transaction decided once, durably, applied once, finished, and are its locks released, with two drives, a lost answer or dead drive, late and repeated calls, a plain write and the stale job? | 1 transaction on 2 partitions, 2 drives, 1 fault |
| `read_transaction` | Is a read a snapshot, do revisions and stamps order writes, and is the whole one atomic store? | 3 keys on 2 partitions, 1 transaction of 4 operations (one item is deleted and created again), 2 other writes (one with a delete and an update of one item), timestamps behind and ahead |
| `repartition` | Does every key keep one owner, its value, its lock and its revision while partitions promote and split, is a read through the source current, and does every repartition end? | a promotion, a hash split and a second promotion of one routingHash; 4 partitions, 2 keys; 1 put with a read, or 1 transaction |
| `batch` | Does every item of a batch get one true outcome, while a partition splits and a call fails? Does a read end under the response limit? | 3 items of which one call carries 2 and one is above the response limit, hints of the client and of the partition, a root that splits in two, 1 fault |
| `destroy` | Does a destroy, repeated until it succeeds, leave nothing, while partitions split, report and write? What does a split break that the walk missed? | 4 groups, 7 nodes, 1 failure, 2 lost calls or restarts |
| `destroy_walk` | Does a split that is planned during the walk keep the index empty? It does not: a finding. | 3 groups, 4 nodes |
| `destroy_again` | Does a later destroy reset the topology that the first one left? Not of an index: a finding. | 3 groups, 4 nodes, 1 failure |
| `materialization_export` | Does every change of a key reach its receiver, and does no older image come back? | 1 key, a promotion at the base table, a split of the receiver, 2 workers, 2 calls, 1 fault |
| `materialization_targets` | Does a GSI that caught up hold exactly the newest image, and does the partition know each key with an entry? | 1 key, 2 index keys, 2 revisions, a promotion, 1 fault |
| `fences_of_retries` | Does a new partition that caught up reject every late call of its source? It does not: a finding. | the same, evaluation can fail at the new partition |
| `routing` | Does every read see every write, and is every missed hint resolved again, whatever the caches and the hints say, while partitions split and hashes are promoted? Do forwards end, and do the pages of a query join to its scan within their budgets? | 6 keys of 3 hash keys, 2 of them promotable, 1 false positive, a cached body of an earlier life of the table at first; 2 requests, 2 events (repartitions, refreshes, faults), 2 visits in a page |
| `encoded_topology` | Are the merged bodies the full builds, and do lookups find the deepest owner? | 2 hash trees to depth 3, 5 promotable hashes, a tree of 7 range splits |

The bounds are large enough for every action to fire and for every mutant of
`PROJECT.json` to break its property: a mutant changes one mapped definition the
way a plausible bug would.

In `routing` the first request leaves hints behind and the second one meets them, stale or
not. There are two topologies at first, a fresh table, and one with a split root and a
promoted hash, so two more repartitions are enough for a hint that is two levels behind.
Deadlock is not checked in this run: its requests and events are bounded, so it ends.
The cached body is of an earlier life of the table, which had split every partition that
can split and one that cannot, and had promoted a hash or none: so it names partitions that
are never made, partitions that a split makes again at the same time, and range roots.

`EveryMissIsResolved` says that no request ends at a partition that does not exist, and no
request of one key at one that does not hold it. It is not the claim of `client.ts` 131, that a
hint "changes the latency only, never the result": that claim is too strong for the code, and
section 6 lists the refusals that a hint may bring to the caller.

**Findings.** `destroy_walk` violates `EmptiedGroupsStayEmpty`. Before it destroys the
indexes, the client walks the materialization partitions and fences each. The walk reads
the status of a partition first and fences it after. A split that is planned between the
two calls, and whose target imports its rows before the fence, is in no status that the
walk reads. Its target is never fenced and writes into the index after the destroy.
When the client has no index left to destroy, this index is still there when `destroy()` returns,
and it may report a repartition after its facts were reset: the race also refutes
`NothingLeftBehind` and `KnownTopologyIsReset` without their exceptions. So the history
variable `raced` remembers such a split, and the properties of the run `destroy` say exactly
what it can break: an index comes back, nothing else does (`OnlyAnIndexComesBack`).

`destroy_again` violates `TopologyIsReset`. The client learns the names of the indexes
from the materialization partitions. A destroy that stops after it deleted them, and before
the reset of the admin objects, leaves the facts of the index; a later call does not
know the index and returns. `KnownTopologyIsReset` says what holds.

`fences_of_retries` violates `AncestorsAreRejected`, which the comments of
`target-runner.ts` (17-19) and the plan of the targets state. A new partition
inherits the fences of its source and must send them with each call until its
inherited work is done. When the claim of an inherited item fails, or a receiver answers
`retry`, `recordTargetRetry` writes a row that is not marked as inherited, and the cursor
moves past the item. `dropDoneTargetFences` sees no inherited work and deletes the
fences, so the retry carries none, and a late write of the source is accepted. The passing
run excludes this case: `Failing` holds only the source, and a batch has one item, so a
batch that a receiver refuses moves no cursor.

## 4. Fairness

A drive that runs goes on, because its awaits end (each RPC has a timeout). An
unfinished transaction is driven again by the `tx_recovery` job, and the stale
job asks and applies, because both are scheduled jobs that re-arm themselves. An
outstanding call is executed or given up. A repartition goes on at its source
and an import goes on at its target: each has a durable deadline that the alarm
serves. A worker of the export that has rows goes on, its alarm starts it
again, and a wait ends. In `Destroy` and `Batch` the client
goes on, and calls end. No fairness is assumed of clients that retry, of faults
or of plain writes.

## 5. The proofs

`Transactions_proofs` proves, for any sets of transactions, keys, partitions,
drives, requests and timestamps, any number of faults and any late delivery:
`TypeOK`, `LocksAreAllOrNone`, `AppliedOnlyAfterDecision`, `DecidedIsDurable`,
`CommittedIsApplied`, `WritesApplyOnce`, `GuardHidesNoCommit`, the action
properties `RevisionsAdvance` and `AppliesInTimestampOrder`, and
`ImplementsAtomicStore`. The assumptions are the named ASSUMEs of the modules:
timestamps are positive, a request has at most `MAX_ITEMS_PER_TX` operations
(`transaction-limits.ts`), each key has one partition, and a single shot is not
empty. A request may have several operations on one item.

The lemmas on lists of operations are in `Participant_proofs`. A list is
followed by a function of the number of operations that ran (`DataAfter`,
`StoreAfter`), so what every prefix of it keeps is shown by an induction over a set,
which needs no theorem with an operator parameter: the set of the numbers where a
claim fails has no smallest member, so it is empty (`SmallestNat`, `Inductive`). `OneRowMoves`
and `StoreMoves` say that a list only raises the revision and the stamps of each
row or hands them to the marks of the partition, also over a delete and a
re-creation inside the list. The replay of a lock row gives each write the data of
the last one. `FinalData` says that only the last operation that changes an item
decides what a list leaves of it, and `LockResult` that this operation and this data
in a lock row are what the operations of the request leave one after the other: the
refinement needs both.

None of the properties is inductive: that a decided commit can be carried out
depends on what calls are still under way, on what the drives believe, and on
what the stale job was told. The inductive invariant `IInv` has one part for each
of these: the ledger (`LedgerInv`), the calls ever sent (`CallInv`), what a
drive in a phase knows (`DriveInv`), locks and rows (`LockInv`, `RowInv`), answers
under way (`AnswerInv`), answers of the stale job (`StaleInv`), and what is true
of a transaction that was swept (`SweptInv`). The proof first shows that every
action is a `CoordStep` (it changes the ledger, an answer, a drive or the calls)
or a `ParticipantStep` (it locks, applies, drops or guards), and then that each of
these keeps each part; the facts `LocksLeave` and `AppliedGrows` carry most of it.
The refinement maps the storing of the decision to the atomic commit, the local
writes to writes, the sweep to the end of the idempotency window, and everything
else to a stutter; a decided write that still waits in its lock counts as
written.

`ReadTransaction_proofs` proves `ReadsAreSnapshots`, for any keys that are read,
on top of `IInv` of `Transactions_proofs`. The snapshot is the content between the
two phases. `ReadInv` follows each key from its first answer: it is unchanged or
its revision rose (`Since`), because revisions go on over deletes. A write that
was decided at that moment and still waited in a lock is the hard case
(`Agrees`): it stays in its lock, which fails the second phase, or it is applied,
which raises the revision (`DecidedKept`), except for the delete of an item that
is absent anyway.

`Repartition_proofs` proves, for any topology, any transactions, page sizes and
delays: `EveryKeyHasOneOwner`, `CommitNeverWedges`, `RevisionsContinue`,
`ReadThroughIsCurrent` and `ImplementsTable`. The assumptions describe the
topology (`TopologyAssumption`): the targets of a split tile the slice of the
source, a promotion moves all keys of one routingHash to one range partition,
hash partitions hold whole routingHashes, range partitions only split into range
partitions, and only the promotions of one routingHash share a target. They are
what `planSplit`, `planPromotion` and the encoding of partition ids give.

The invariant relates a partition to its source only, so no induction over the
tree is needed: `FlowInv` (what a source may queue and believes of its targets,
which targets import, which overrides a hash child took over), `PageInv` (a page
that may still be applied holds what the source has now, because a source that
cut over executes no writes), `CopyInv` (a target that imports has the rows up to
its cursor and nothing else), and `OwnerInv`, from which the other properties
follow. `Carried` is the heart of the refinement: a step of a repartition gives
every owner the row, the lock and the deletion mark of the owner before it.

`MaterializationExport_proofs` proves, for any keys, partitions, receivers,
numbers of workers and calls, and any repartitions of the base table and of the
receivers: `NothingComesBack` and `NoRowMeansMaterialized`. The assumptions are
that partitions and receivers are different, that a repartition has new targets
(`PartsAreValid`), and that the keys are finitely many (`KeysAreFinite`). Neither
property is inductive, because both speak of what a receiver holds and nothing of
the calls that the network still has. The invariant calls an image *open* while a
receiver could still apply it: no receiver took it, and no higher epoch of its
sender reached the holder of its key. `OpenInv` says that an open image has a
row that its base partition may not forget, and that the next call of that key
is going to close it (`Protected`): the call is still in flight, or the epoch rose
since, or the restart check of `ensureEpoch` or a fence of an ancestor waits for the
next claim. `CallsInv` orders the calls of a key: a later call carries no older
image and closes every open image before it (`Covers`), so a receiver takes the
images of a key in the order of their revisions. `RowsInv` says what a row, or no
row, says about the item. The proof has one lemma for each kind of step (a call,
an answer, the end of a worker, a restart, a change of a row, an apply, a
cutover, an import), each over the frame that the actions of this kind share
(`RowStep`, `WireFrame`, `ReceiverFrame`).

`Destroy_proofs` proves, for any trees of partitions, any number of failures of the
client, of lost calls and of restarts: `TypeOK`, `NothingLeftBehind`, `OnlyAnIndexComesBack`
and `KnownTopologyIsReset`, with the splits that the walk misses. The assumptions are that each
group is one tree (`TreeIsValid`, `GroupsAreTrees`: every set of nodes has a topmost one),
and that an index has a materialization (`IndexHasWriter`). A traversal speaks of what is still to
visit, and the partitions change that meanwhile, so the invariant ties the two
together. `StackInv`: the frames are a path from the root of the group down, each
linked by the one below. `FrameInv`: a child that still has a storage is among the
targets of its parent's frame or on top of it, because the parent was fenced, and its
last pass had ended, before its links were read. `DfsInv`: a visited partition is gone
or on the stack, so a phase that ends with an empty stack has emptied its group
(`EmptyGroup`; `NoOrphans` stands for the induction over the tree; only an index may come
back into an empty group, once `raced` holds). `WalkInv`: what the
walk visited is closed (fenced, and no pass in flight), and a linked child of it was
visited or still will be (`Pending`); so after the walk no materialization partition
works (`QuietInv`) and nobody writes an index any more, unless the walk missed a split. `RootInv` and `FactInv` say what
the client knows of the indexes. The partitions' steps go through `Background`, the
frame of what they may change; the client's steps are proved one by one, over lemmas on
the three ways in which the stack changes (`StepStack`, `PopStack`, `PushStack`).

`Routing_proofs` proves, for any keys, hashes, boundaries, initial topologies, Bloom
filters, hints, cached bodies and retry bounds: `ReadsSeeEveryWrite`, `ForwardsGoDown`, that
every key has one owner (`OneOwnerPerKey`), and that its owner holds exactly the writes that
ran (`OwnersHaveEveryWrite`). The assumptions are that there is a last key and each key has a
hash (`KeysAssumption`), that a hash has a digit for every level that splits and boundaries
are keys (`HashesAssumption`), that a point request has one key (`RequestsAssumption`), and
that a hash promoted at first was promoted by the last partition of its path, and a cached
body names promotable hashes (`TopologiesAssumption`).

The invariant has three layers. `TopologyInv` is about the repartitions alone: partitions
that exist are nested or apart (`NestedInv`), what lies below a partition lies in a target
of its split (`CoveredInv`), targets tile their source and wait until it cuts over
(`SplitInv`, `SourceInv`), a range root has a source that promoted its hash (`RootInv`,
`RangeInv`, `PromoInv`), and children take over completed promotions (`InheritInv`).
`OneOwner` follows: of two nested partitions with one key the upper one is a router or gave
the hash away. That there is an owner at all (`OwnerExists`) needs `PromoterInv` besides: who
cut a hash over has its range root, and the source of the root cut over too. The owner is
then the last hash partition on the path of the key that is reached, or the smallest range
partition below the root. `RowsInv` says that the owner of a key, or its source while it imports, has
exactly the writes that ran; each of the five repartition steps carries the owners and their
rows over (`OwnersKeep`, with the one step that moves rows, `ImportCompletes`). The last
layer is the request under way. The surprise is how little it needs to know of what was
learned: hints and caches need their types only (`LearnedInv`), because no answer depends
on whether they are current. `ResolveLeads` is the reason: a partition resolves a key to
itself only if it is its owner, by its own durable rows and never by a hint. What remains is
the read that a target passes to its source: it was right to ask when it asked, but the
source may cut over, give rows back or hand the key on before the call arrives. `ExecuteInv`
keeps what a source must still know to answer (`SourceReads`, kept by `ReadersKeep`).

`ForwardsGoDown` needs the invariant and one order more. `ResolvesTo` says that whatever a
hint or a body names lies strictly below the partition that resolves (`Down`: under it in
its tree, or from the hash tree to a range tree): a learned level is at least one, a jump of
a range router is strictly inside its child. `ChainInv` lifts this to the stack: every caller,
and the partition that is called, lies down from each caller behind it (`Follows`). The one
exception is a source that hands a promoted key on (`HandsOn`): its target called it back up
with a read through, so it may be among the callers behind it already. All of those are in
the hash tree and the way from there leads to range partitions alone, so no other partition
is met twice (`Chains`).

These theorems are about the requests for keys of `Routing`; the next-state relation of
`Query` has the range shape besides, which TLC checks.

Only TLC checks the following. Liveness under fairness is out of the prover's reach:
`EveryTransactionFinishes`, `EveryLockIsReleased`, `EveryRepartitionFinishes`,
`ChangesReachTheReceiver`, `ReadsEnd`, `DestroyEnds`. So is what recursive definitions and folds over
data compute: all of `EncodedTopology`; `OutcomesAreTrue`, `OneOutcomeEach` and `AnswersFit` of
`Batch`, where the merges and trims fold over lists of items; `PagesAreTheScan` and
`PagesFitTheirBudget` of `Query`. `CaughtUpIsCurrent` and `EntriesHaveKeys` of
`MaterializationTargets` hold only where the finding `fences_of_retries` is excluded: they are
no theorems of the code. `EveryMissIsResolved` of `Routing` is none either: it holds while
the retry bounds (`maxForwardRetries`, `MAX_TOPOLOGY_FALLBACKS`) exceed the number of stale
hints on the way, which the instance grants. Range splits of `Repartition` are the other way
round: TLC's instance has a promotion, a hash split and a second promotion, and only the proof
covers a topology with range splits.

## 6. What is not modelled

Of transactions: the check of the coordinator reference of a prepare, conditions on a version,
the images and the results of the operations in an answer, and the limits of sizes.

**What a hint may change.** `client.ts` 131 says that a hint never changes the result. The model
has the code, in which a hint can bring these refusals to the caller where an entry at the root
would have been served. All of them can be repeated with success later, and
`ReadsSeeEveryWrite` and `ForwardsGoDown` hold with them, for every initial body.

- `not_cut_over` at a range root: on a hit of the Bloom filter of its cached body the client
  enters at a range root while the promotion has not cut over; the root asks its source, which
  refuses. A partition in the same place resolves again (`#missLadder`, `runtime.ts` 551), the
  fallback of the client (`client.ts` 216-231) knows only the two other refusals.
- `migrating` and `not_cut_over` at a leaf: the fallback of a leaf hint knows only
  `not_initialized` (`client.ts` 247). A body of an earlier life of the table names a child that
  a split of this life makes again; while that child awaits its data it refuses a write, or
  passes a read to its source and hands back its `not_cut_over`. The ladder of a partition
  has the same gap for a level of the hash tree (`runtime.ts` 554-558).
- `misrouted` of a request with several keys: its fallback resolves the first key alone
  (`#resolveKey`). When a refresh has shown the hash of that key promoted meanwhile, it
  enters a range tree that does not hold the other keys. The instance of `routing` reaches this.

The last two need a table that was destroyed and made again under a cached body, and end with
its next refresh.

Of routing: the group shape (it is in `Batch`), `speculative: false`, admission and
deadlines, hash roots that do not exist yet, and lost answers of reads (they are as if never
asked). A partition stays when it exists, so a hint of an earlier life of the table is only
in `InitialViews`. The cache keeps every body and every cut: the eviction of bodies above its
weight and the bound of a cut set, `TOPOLOGY_CUT_MAX` (`topology-cache.ts` 49, 143), are left
out. The encoding of a cursor and its fingerprint are abstracted.

Host configuration and errors have no state that interacts. An expression is a pure
predicate or a new value. What is left of the plan: the TTL sweep, the thresholds of the
split planner, the arming of the one alarm of an object, and the outbox and the due
builds of the topology admin objects.
