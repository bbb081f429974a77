---------------------------- MODULE Repartition -----------------------------
(***************************************************************************)
(* Repartitioning, sharding/repartition-flow.ts with the migration host of *)
(* FokosDB: a source partition gives keys away to its targets, by a hash   *)
(* split, a range split or the promotion of one routingHash to a range     *)
(* tree, while items are written, read and locked.                         *)
(*                                                                         *)
(* A plan is one repartition that may be queued.  The slices that a plan   *)
(* gives its targets are fixed by the topology, so they are constants.     *)
(* Calls between partitions may arrive late and more than once: an init    *)
(* call stays in `asked', a served page in `pages', and the acknowledgement*)
(* of an imported target may arrive at any time.  Each local step is one   *)
(* storage transaction.                                                    *)
(***************************************************************************)
EXTENDS Naturals, FiniteSets

CONSTANTS
  Key,        \* the items, in storage order
  HashOf,     \* [Key -> Hash]: their routingHashes
  Hash,
  Part, Root, \* partitions
  Slice,      \* [Part -> SUBSET Key]: the keys inside the identity of a partition
  Plan, NoPlan,
  KindOf,     \* [Plan -> {"hash_split", "range_split", "key_promotion"}]
  SourceOf,   \* [Plan -> Part]
  TargetsOf,  \* [Plan -> SUBSET Part]
  Tx, NoTx,
  TxKeys,     \* [Tx -> SUBSET Key]
  ReadKeys,   \* the keys that the reader may ask for
  PageSizes,  \* the numbers of keys that a page may cover
  MaxClock    \* bound on the puts

Ranges == UNION {TargetsOf[pl] : pl \in {q \in Plan : KindOf[q] # "hash_split"}}
IsSplit(pl) == KindOf[pl] # "key_promotion"
HashesOf(K) == {HashOf[k] : k \in K}

(* The keys that a plan moves, and their routingHashes. *)
Moving == [pl \in Plan |-> UNION {Slice[t] : t \in TargetsOf[pl]}]
MovingHashes == [pl \in Plan |-> HashesOf(Moving[pl])]

(* The plans of a source. *)
Splits == [p \in Part |-> {pl \in Plan : SourceOf[pl] = p /\ IsSplit(pl)}]
Promotions == [p \in Part |-> {pl \in Plan : SourceOf[pl] = p /\ ~IsSplit(pl)}]

ASSUME KeyAssumption == Key \subseteq Nat \ {0} /\ HashOf \in [Key -> Hash]
ASSUME TxAssumption == NoTx \notin Tx /\ TxKeys \in [Tx -> SUBSET Key]
ASSUME PartAssumption == Root \in Part /\ Slice \in [Part -> SUBSET Key] /\ Slice[Root] = Key
ASSUME PlanAssumption ==
  /\ NoPlan \notin Plan
  /\ KindOf \in [Plan -> {"hash_split", "range_split", "key_promotion"}]
  /\ SourceOf \in [Plan -> Part]
  /\ TargetsOf \in [Plan -> SUBSET Part]

(* The topology: the targets of a split tile the slice of the source; a    *)
(* promotion moves every key of one routingHash to one range partition; a  *)
(* hash partition holds whole routingHashes; a range partition only splits *)
(* into range partitions; only the range root of a routingHash can be the  *)
(* target of two plans.                                                    *)
ASSUME TopologyAssumption ==
  /\ \A pl \in Plan :
       /\ TargetsOf[pl] # {} /\ SourceOf[pl] \notin TargetsOf[pl] /\ Root \notin TargetsOf[pl]
       /\ \A t, u \in TargetsOf[pl] : t # u => Slice[t] \cap Slice[u] = {}
       /\ IsSplit(pl) => Moving[pl] = Slice[SourceOf[pl]]
       /\ KindOf[pl] = "range_split" <=> SourceOf[pl] \in Ranges
       /\ KindOf[pl] = "hash_split" => TargetsOf[pl] \cap Ranges = {}
       /\ ~IsSplit(pl) => /\ \E h \in Hash : Moving[pl] = {k \in Slice[SourceOf[pl]] : HashOf[k] = h}
                          /\ \E t \in Part : TargetsOf[pl] = {t}
                          /\ Moving[pl] # {}
  /\ Root \notin Ranges
  /\ \A p \in Part \ Ranges : \A k \in Slice[p], j \in Key : HashOf[j] = HashOf[k] => j \in Slice[p]
  /\ \A pl, q \in Plan : (pl # q /\ SourceOf[pl] = SourceOf[q]) =>
       /\ ~(IsSplit(pl) /\ IsSplit(q))
       /\ (~IsSplit(pl) /\ ~IsSplit(q)) => Moving[pl] \cap Moving[q] = {}
  /\ \A pl, q \in Plan : (pl # q /\ TargetsOf[pl] \cap TargetsOf[q] # {}) => ~IsSplit(pl) /\ ~IsSplit(q)

VARIABLES
  state,    \* [Plan -> RepState]: the state of its row, "none" before it is queued
  inited,   \* [Plan -> SUBSET Part]: the targets whose init was answered
  acked,    \* [Plan -> SUBSET Part]: the targets that acknowledged
  import,   \* [Part -> import record]
  adopted,  \* [Part -> SUBSET Hash]: the overrides that a hash child took over
  row,      \* [Part -> [Key -> Row]]
  mark,     \* [Part -> Nat]: max_deleted_v
  lock,     \* [Part -> [Key -> Tx \cup {NoTx}]]
  asked,    \* the init calls that were sent
  pages,    \* the pages that were served
  txState,  \* [Tx -> {"open", "committing", "cancelling"}]
  clock,    \* the stamp of the last write
  seen,     \* history: [Key -> Nat], the highest revision of a key
  read      \* one read through an importing partition

flowVars == <<state, inited, acked, import, adopted, asked, pages>>
dataVars == <<row, mark, lock, clock, seen>>
vars == <<flowVars, dataVars, txState, read>>

RepState == {"none", "queued", "planned", "cutover", "completed", "cleaned"}
NoRow == [v |-> 0, val |-> 0]
NoImport == [plan |-> NoPlan, state |-> "none", stream |-> "overrides", at |-> 0]
NoRead == [state |-> "idle"]

Init ==
  /\ state = [pl \in Plan |-> "none"]
  /\ inited = [pl \in Plan |-> {}] /\ acked = [pl \in Plan |-> {}]
  /\ import = [p \in Part |-> NoImport]
  /\ adopted = [p \in Part |-> {}]
  /\ row = [p \in Part |-> [k \in Key |-> NoRow]]
  /\ mark = [p \in Part |-> 0]
  /\ lock = [p \in Part |-> [k \in Key |-> NoTx]]
  /\ asked = {} /\ pages = {}
  /\ txState = [t \in Tx |-> "open"]
  /\ clock = 0
  /\ seen = [k \in Key |-> 0]
  /\ read = NoRead
-----------------------------------------------------------------------------
(***************************************************************************)
(* Ownership.                                                              *)
(***************************************************************************)
CutOver(pl) == state[pl] \in {"cutover", "completed", "cleaned"}

Known(p) == p = Root \/ import[p].state # "none"

(* Mutant of IsImporting: a target that read no page yet is taken for done. *)
IsReading(p) == import[p].state = "importing"

IsImporting(p) == import[p].state \in {"awaiting", "importing"}

(* routerRole. *)
RouterRole(p) == \E pl \in Splits[p] : CutOver(pl)

(* overrideFor: the promotion of h by p is in a state of S, or p adopted   *)
(* it, which writes it as cleaned.                                         *)
Promoted(p, h, S) ==
  \/ h \in adopted[p]
  \/ \E pl \in Promotions[p] : state[pl] \in S /\ h \in MovingHashes[pl]

(* ownedByRangeTree and hasTerminalRouteOverride. *)
OwnedByRangeTree(p, h) == Promoted(p, h, {"cutover", "completed", "cleaned"})
HasTerminalOverride(p, h) == Promoted(p, h, {"completed", "cleaned"})

(* Mutant of OwnsLocally: the promotions are not asked. *)
OwnsPromoted(p, k) == k \in Slice[p] /\ ~RouterRole(p)

(* ownsLocally: no forward pointer leads away from p. *)
OwnsLocally(p, k) == k \in Slice[p] /\ ~RouterRole(p) /\ ~OwnedByRangeTree(p, HashOf[k])

(* The requests for k that p executes itself. *)
Serves(p, k) == Known(p) /\ ~IsImporting(p) /\ OwnsLocally(p, k)

(* belongsToTarget: a hash child gets no data of a promoted key. *)
BelongsToTarget(pl, t, k) ==
  k \in Slice[t] /\ ~(KindOf[pl] = "hash_split" /\ HasTerminalOverride(SourceOf[pl], HashOf[k]))
-----------------------------------------------------------------------------
(***************************************************************************)
(* The source: queue, plan, initialize, cut over.                          *)
(***************************************************************************)
Unfinished == {"queued", "planned", "cutover"}

(* Mutant of CanQueue: an unfinished promotion does not block a split. *)
CanQueueAnySplit(pl) ==
  LET p == SourceOf[pl]
  IN /\ \A q \in Splits[p] : state[q] = "none"
     /\ ~IsSplit(pl) => \A h \in MovingHashes[pl] : ~Promoted(p, h, RepState \ {"none"})

(* canQueue: a split in any state blocks everything, an unfinished         *)
(* promotion blocks a hash split, an override blocks a second promotion.   *)
CanQueue(pl) ==
  LET p == SourceOf[pl]
  IN /\ \A q \in Splits[p] : state[q] = "none"
     /\ IsSplit(pl) => \A q \in Promotions[p] : state[q] \notin Unfinished
     /\ ~IsSplit(pl) => \A h \in MovingHashes[pl] : ~Promoted(p, h, RepState \ {"none"})

(* queue, after a request that this partition served: it does not import. *)
Queue(pl) ==
  /\ Known(SourceOf[pl]) /\ ~IsImporting(SourceOf[pl])
  /\ state[pl] = "none" /\ CanQueue(pl)
  /\ state' = [state EXCEPT ![pl] = "queued"]
  /\ UNCHANGED <<inited, acked, import, adopted, asked, pages, dataVars, txState, read>>

(* plan: the target rows. *)
PlanStep(pl) ==
  /\ state[pl] = "queued"
  /\ state' = [state EXCEPT ![pl] = "planned"]
  /\ UNCHANGED <<inited, acked, import, adopted, asked, pages, dataVars, txState, read>>

(* initializeTargets: a target is "initializing" before its call. *)
SendInit(pl, t) ==
  /\ state[pl] = "planned" /\ t \in TargetsOf[pl] \ inited[pl] /\ <<pl, t>> \notin asked
  /\ asked' = asked \cup {<<pl, t>>}
  /\ UNCHANGED <<state, inited, acked, import, adopted, pages, dataVars, txState, read>>

(* initAsTarget: a repeated call changes nothing that is modelled, and a   *)
(* call of another repartition is refused.                                 *)
InitAsTarget(pl, t) ==
  /\ <<pl, t>> \in asked /\ import[t].state = "none"
  /\ import' = [import EXCEPT ![t] = [plan |-> pl, state |-> "awaiting", stream |-> "overrides", at |-> 0]]
  /\ UNCHANGED <<state, inited, acked, adopted, asked, pages, dataVars, txState, read>>

InitAnswer(pl, t) ==
  /\ state[pl] = "planned" /\ <<pl, t>> \in asked /\ t \notin inited[pl]
  /\ import[t].plan = pl
  /\ inited' = [inited EXCEPT ![pl] = @ \cup {t}]
  /\ UNCHANGED <<state, acked, import, adopted, asked, pages, dataVars, txState, read>>

(* Mutant of Cutover: one initialized target is enough. *)
CutoverEarly(pl) ==
  /\ state[pl] = "planned" /\ inited[pl] # {}
  /\ state' = [state EXCEPT ![pl] = "cutover"]
  /\ UNCHANGED <<inited, acked, import, adopted, asked, pages, dataVars, txState, read>>

(* cutover. *)
Cutover(pl) ==
  /\ state[pl] = "planned" /\ inited[pl] = TargetsOf[pl]
  /\ state' = [state EXCEPT ![pl] = "cutover"]
  /\ UNCHANGED <<inited, acked, import, adopted, asked, pages, dataVars, txState, read>>
-----------------------------------------------------------------------------
(***************************************************************************)
(* Pages.  A page answers one cursor: the overrides, or the rows or locks  *)
(* of the keys after `at' up to `to', which the byte budget chooses.       *)
(***************************************************************************)
(* The keys of a stream that come after a key. *)
After(pl, t, at) == {k \in Key : k > at /\ BelongsToTarget(pl, t, k)}
Covered(pl, t, at, to) == {k \in After(pl, t, at) : k <= to}

(* The budgets let a page cover some of the keys that are left; it covers  *)
(* one at least.                                                           *)
Fits(pl, t, at, to) ==
  \/ to = at /\ After(pl, t, at) = {}
  \/ to \in After(pl, t, at) /\ Cardinality(Covered(pl, t, at, to)) \in PageSizes

OverridesPage(pl, t) ==
  [plan |-> pl, target |-> t, stream |-> "overrides", at |-> 0, to |-> 0, last |-> TRUE, mark |-> 0, rows |-> << >>,
   hashes |-> IF KindOf[pl] = "hash_split" THEN {h \in HashesOf(Slice[t]) : HasTerminalOverride(SourceOf[pl], h)} ELSE {}]

KeyPage(pl, t, stream, at, to, data, m) ==
  [plan |-> pl, target |-> t, stream |-> stream, at |-> at, to |-> to, last |-> After(pl, t, to) = {},
   mark |-> m, rows |-> [k \in Covered(pl, t, at, to) |-> data[k]], hashes |-> {}]

(* Mutant of GivesPages: a source that still executes writes gives pages. *)
GivesPagesEarly(pl) == state[pl] \in {"planned", "cutover"}

GivesPages(pl) == state[pl] = "cutover"

(* servePage at the cursor of the target. *)
ServePage(t) ==
  LET pl == import[t].plan  s == SourceOf[pl]  at == import[t].at
  IN /\ IsImporting(t) /\ GivesPages(pl)
     /\ \/ /\ import[t].stream = "overrides"
           /\ pages' = pages \cup {OverridesPage(pl, t)}
        \/ \E to \in Key \cup {at} :
             /\ Fits(pl, t, at, to)
             /\ \/ /\ import[t].stream = "items"
                   /\ pages' = pages \cup {KeyPage(pl, t, "items", at, to, row[s], 0)}
                \/ /\ import[t].stream = "locks"
                   /\ pages' = pages \cup {KeyPage(pl, t, "locks", at, to, lock[s], mark[s])}
     /\ UNCHANGED <<state, inited, acked, import, adopted, asked, dataVars, txState, read>>

(* importOnePage applies a page only at the cursor it was asked for. *)
PageFollowsCursor(g) ==
  /\ IsImporting(g.target) /\ import[g.target].plan = g.plan
  /\ import[g.target].stream = g.stream /\ import[g.target].at = g.at

NextStream == [s \in {"overrides", "items"} |-> IF s = "overrides" THEN "items" ELSE "locks"]

NextImport(g) ==
  IF ~g.last THEN [plan |-> g.plan, state |-> "importing", stream |-> g.stream, at |-> g.to]
  ELSE IF g.stream = "locks" THEN [plan |-> g.plan, state |-> "imported", stream |-> "locks", at |-> g.to]
  ELSE [plan |-> g.plan, state |-> "importing", stream |-> NextStream[g.stream], at |-> 0]

MaxOf(a, b) == IF a >= b THEN a ELSE b

(* Mutant of MergedMark: the target keeps its own mark. *)
OwnMark(p, m) == mark[p]

(* mergeDeletionMetadata. *)
MergedMark(p, m) == MaxOf(mark[p], m)

(* importOnePage and applyPage: rows and locks that are there stay. *)
ApplyPage(g) ==
  LET t == g.target
      Merge(old, none) == [k \in Key |-> IF k \in DOMAIN g.rows /\ old[k] = none THEN g.rows[k] ELSE old[k]]
  IN /\ g \in pages /\ PageFollowsCursor(g)
     /\ import' = [import EXCEPT ![t] = NextImport(g)]
     /\ adopted' = [adopted EXCEPT ![t] = @ \cup g.hashes]
     /\ row' = IF g.stream = "items" THEN [row EXCEPT ![t] = Merge(@, NoRow)] ELSE row
     /\ lock' = IF g.stream = "locks" THEN [lock EXCEPT ![t] = Merge(@, NoTx)] ELSE lock
     /\ mark' = [mark EXCEPT ![t] = MergedMark(t, g.mark)]
     /\ UNCHANGED <<state, inited, acked, asked, pages, clock, seen, txState, read>>
-----------------------------------------------------------------------------
(***************************************************************************)
(* Acknowledgement and cleanup.                                            *)
(***************************************************************************)
AllAcked(pl, t) == acked[pl] \cup {t} = TargetsOf[pl]

(* acceptAck of a call that the target sent once its import was stored as  *)
(* imported; a late one changes nothing.                                   *)
AcceptAck(pl, t) ==
  /\ import[t].plan = pl /\ import[t].state \in {"imported", "active"} /\ state[pl] = "cutover"
  /\ acked' = [acked EXCEPT ![pl] = @ \cup {t}]
  /\ state' = IF AllAcked(pl, t) THEN [state EXCEPT ![pl] = "completed"] ELSE state
  /\ UNCHANGED <<inited, import, adopted, asked, pages, dataVars, txState, read>>

(* sendAck has its answer. *)
AckAnswer(t) ==
  /\ import[t].state = "imported" /\ t \in acked[import[t].plan]
  /\ import' = [import EXCEPT ![t].state = "active"]
  /\ UNCHANGED <<state, inited, acked, adopted, asked, pages, dataVars, txState, read>>

(* The keys whose copies the cleanup of pl drops: of the promoted          *)
(* routingHash, or all.                                                    *)
CopiesOf(pl) == {k \in Key : IsSplit(pl) \/ HashOf[k] \in MovingHashes[pl]}

(* cleanupSourceStep: the lock copies, one transaction at a time, then the *)
(* rows of a promoted routingHash; a split keeps its rows.                 *)
CleanupSourceStep(pl) ==
  LET p == SourceOf[pl]
      locked == {k \in CopiesOf(pl) : lock[p][k] # NoTx}
      rows == {k \in CopiesOf(pl) : ~IsSplit(pl) /\ row[p][k] # NoRow}
  IN /\ state[pl] = "completed"
     /\ \/ /\ \E t \in {lock[p][k] : k \in locked} :
                lock' = [lock EXCEPT ![p] = [k \in Key |-> IF k \in locked /\ @[k] = t THEN NoTx ELSE @[k]]]
           /\ UNCHANGED <<state, row>>
        \/ /\ locked = {} /\ rows # {}
           /\ \E k \in rows : row' = [row EXCEPT ![p][k] = NoRow]
           /\ UNCHANGED <<state, lock>>
        \/ /\ locked = {} /\ rows = {}
           /\ state' = [state EXCEPT ![pl] = "cleaned"]
           /\ UNCHANGED <<row, lock>>
     /\ UNCHANGED <<inited, acked, import, adopted, asked, pages, mark, clock, seen, txState, read>>
-----------------------------------------------------------------------------
(***************************************************************************)
(* The table that the partitions are.                                      *)
(***************************************************************************)
(* A hash child that imports does not own the keys that its source had     *)
(* promoted, also before it has read the overrides.                        *)
Inherits(p, k) ==
  /\ IsImporting(p) /\ KindOf[import[p].plan] = "hash_split"
  /\ HasTerminalOverride(SourceOf[import[p].plan], HashOf[k])

(* p is in the tree: its repartition is cut over. *)
Entered(p) == p = Root \/ (Known(p) /\ CutOver(import[p].plan))

Owner(p, k) == k \in Slice[p] /\ Entered(p) /\ OwnsLocally(p, k) /\ ~Inherits(p, k)

(* The partition with the rows of p: its source while it imports. *)
DataAt(p) == IF IsImporting(p) THEN SourceOf[import[p].plan] ELSE p

TheOwner(k) == CHOOSE p \in Part : Owner(p, k)
ValueOf(k) == row[DataAt(TheOwner(k))][k].val
HolderOf(k) == lock[DataAt(TheOwner(k))][k]
-----------------------------------------------------------------------------
(***************************************************************************)
(* Requests.                                                               *)
(***************************************************************************)
RevisionAt(p, k) == IF row[p][k] = NoRow THEN mark[p] ELSE row[p][k].v

(* An open read remembers the values that K gets. *)
ReadSees(K, val) ==
  read' = IF read.state = "open" /\ read.key \in K THEN [read EXCEPT !.vals = @ \cup {val}] ELSE read

Written(p, K) ==
  /\ row' = [row EXCEPT ![p] = [k \in Key |-> IF k \in K THEN [v |-> RevisionAt(p, k) + 1, val |-> clock + 1]
                                              ELSE @[k]]]
  /\ seen' = [k \in Key |-> IF k \in K THEN RevisionAt(p, k) + 1 ELSE seen[k]]
  /\ clock' = clock + 1
  /\ ReadSees(K, clock + 1)

PutItem(p, k) ==
  /\ Serves(p, k) /\ lock[p][k] = NoTx /\ clock < MaxClock
  /\ Written(p, {k})
  /\ UNCHANGED <<flowVars, mark, lock, txState>>

DeleteItem(p, k) ==
  /\ Serves(p, k) /\ lock[p][k] = NoTx /\ row[p][k] # NoRow
  /\ row' = [row EXCEPT ![p][k] = NoRow]
  /\ mark' = [mark EXCEPT ![p] = MaxOf(@, row[p][k].v + 1)]
  /\ seen' = [seen EXCEPT ![k] = row[p][k].v + 1]
  /\ ReadSees({k}, 0)
  /\ UNCHANGED <<flowVars, lock, clock, txState>>

(* The keys of a request of t that p executes. *)
Group(t, p) == {k \in TxKeys[t] : Serves(p, k)}

(* The locks of t at p that p owns. *)
Owned(t, p) == {k \in Group(t, p) : lock[p][k] = t}

SetLocks(p, K, holder) == lock' = [lock EXCEPT ![p] = [k \in Key |-> IF k \in K THEN holder ELSE @[k]]]

Prepare(t, p) ==
  /\ txState[t] = "open" /\ Group(t, p) # {}
  /\ \A k \in Group(t, p) : lock[p][k] \in {NoTx, t}
  /\ SetLocks(p, Group(t, p), t)
  /\ UNCHANGED <<flowVars, row, mark, clock, seen, txState, read>>

(* The coordinator decides: to commit when every key is prepared. *)
Decide(t, decision) ==
  /\ txState[t] = "open"
  /\ decision = "committing" => \A k \in TxKeys[t] : HolderOf(k) = t
  /\ txState' = [txState EXCEPT ![t] = decision]
  /\ UNCHANGED <<flowVars, dataVars, read>>

(* commitLocal. *)
Commit(t, p) ==
  /\ txState[t] = "committing"
  /\ Owned(t, p) # {} /\ Owned(t, p) = Group(t, p)
  /\ Written(p, Owned(t, p))
  /\ SetLocks(p, Owned(t, p), NoTx)
  /\ UNCHANGED <<flowVars, mark, txState>>

Cancel(t, p) ==
  /\ txState[t] = "cancelling" /\ Owned(t, p) # {}
  /\ SetLocks(p, Owned(t, p), NoTx)
  /\ UNCHANGED <<flowVars, row, mark, clock, seen, txState, read>>
-----------------------------------------------------------------------------
(* A read of a key that p cannot answer yet: whileImporting asks the       *)
(* source.  The read remembers every value of the key while it runs.       *)
StartRead(p, k) ==
  /\ read.state = "idle" /\ Known(p) /\ IsImporting(p) /\ k \in Slice[p]
  /\ read' = [state |-> "open", at |-> p, plan |-> import[p].plan, key |-> k, answer |-> 0, vals |-> {ValueOf(k)}]
  /\ UNCHANGED <<flowVars, dataVars, txState>>

(* Mutant of CallerSliceServed: a promotion answers from reclaimed rows. *)
AnySliceServed(pl) == CutOver(pl)

(* resolveCallerSlice: not before the cutover, and not from rows that a    *)
(* promotion gives back.                                                   *)
CallerSliceServed(pl) == state[pl] = "cutover" \/ (IsSplit(pl) /\ CutOver(pl))

(* executeLocal at the source: a promoted key is forwarded to its tree. *)
ExecuteLocal ==
  LET pl == read.plan  k == read.key  s == SourceOf[pl]
  IN /\ read.state = "open" /\ CallerSliceServed(pl)
     /\ read' = [read EXCEPT !.state = "answered",
                             !.answer = IF KindOf[pl] = "hash_split" /\ HasTerminalOverride(s, HashOf[k])
                                        THEN ValueOf(k) ELSE row[s][k].val]
     /\ UNCHANGED <<flowVars, dataVars, txState>>
-----------------------------------------------------------------------------
Next ==
  \/ \E pl \in Plan :
       \/ Queue(pl) \/ PlanStep(pl) \/ Cutover(pl) \/ CleanupSourceStep(pl)
       \/ \E t \in TargetsOf[pl] : SendInit(pl, t) \/ InitAsTarget(pl, t) \/ InitAnswer(pl, t) \/ AcceptAck(pl, t)
  \/ \E t \in Part : ServePage(t) \/ AckAnswer(t)
  \/ \E g \in pages : ApplyPage(g)
  \/ \E p \in Part, k \in Key : PutItem(p, k) \/ DeleteItem(p, k)
  \/ \E t \in Tx : \E decision \in {"committing", "cancelling"} : Decide(t, decision)
  \/ \E t \in Tx, p \in Part : Prepare(t, p) \/ Commit(t, p) \/ Cancel(t, p)
  \/ \E p \in Part, k \in ReadKeys : StartRead(p, k)
  \/ ExecuteLocal

Spec == Init /\ [][Next]_vars

(* A repartition goes on: every step of its source and every call to a     *)
(* target has a durable deadline, which the alarm serves.  A target goes   *)
(* on with its import in the same way.                                     *)
Advance(pl) ==
  \/ PlanStep(pl) \/ Cutover(pl) \/ CleanupSourceStep(pl)
  \/ \E t \in TargetsOf[pl] : SendInit(pl, t) \/ InitAsTarget(pl, t) \/ InitAnswer(pl, t) \/ AcceptAck(pl, t)

GoOnImporting(t) == ServePage(t) \/ \E g \in pages : g.target = t /\ ApplyPage(g)

Fairness ==
  /\ \A pl \in Plan : WF_vars(Advance(pl))
  /\ \A t \in Part : WF_vars(GoOnImporting(t))

FairSpec == Spec /\ Fairness
-----------------------------------------------------------------------------
(***************************************************************************)
(* Properties.                                                             *)
(***************************************************************************)
(* Every key has exactly one owner at every moment, and no other partition *)
(* executes a request for it: not a source after its cutover, not a target *)
(* before its own, not the hash child of a key that was promoted before    *)
(* the split, and not two range trees of one routingHash.                  *)
EveryKeyHasOneOwner ==
  \A k \in Key :
    \E p \in Part : Owner(p, k) /\ \A q \in Part : (Owner(q, k) \/ Serves(q, k)) => q = p

(* A commit that is decided finds, on the partition that owns its keys now,*)
(* all its locks or none, whatever moved since the prepare:                *)
(* commit_keyset_mismatch never stops it.                                  *)
CommitNeverWedges ==
  \A t \in Tx, p \in Part : txState[t] = "committing" => Owned(t, p) \in {{}, Group(t, p)}

(* The revisions of a key go on where they were when it moves, also when   *)
(* the item is deleted: mergeDeletionMetadata.                             *)
RevisionsContinue ==
  \A p \in Part, k \in Key : Serves(p, k) => RevisionAt(p, k) >= seen[k]

(* A read that the source answers for an importing target returns a value  *)
(* that the key had while the read ran, however late the call arrives.     *)
ReadThroughIsCurrent ==
  read.state = "answered" => read.answer \in read.vals

(* The values and the locks of all keys are those of one table: no move    *)
(* changes, loses or brings back one.                                      *)
AbstractTable == INSTANCE Table WITH
  value <- [k \in Key |-> ValueOf(k)],
  holder <- [k \in Key |-> HolderOf(k)],
  stamp <- clock

ImplementsTable == AbstractTable!TSpec

(* A repartition that is queued comes to its end, also when two sources    *)
(* promote the same routingHash.                                           *)
EveryRepartitionFinishes ==
  \A pl \in Plan : state[pl] = "queued" ~> state[pl] = "cleaned"
=============================================================================
