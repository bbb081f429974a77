------------------------- MODULE Repartition_proofs -------------------------
(***************************************************************************)
(* Proofs about Repartition: one owner for each key, data that does not    *)
(* change while it moves, and the refinement of Table.  No induction over  *)
(* the tree of partitions is needed: the invariant relates a partition to  *)
(* its source only.                                                        *)
(***************************************************************************)
EXTENDS Repartition, TLAPS

-----------------------------------------------------------------------------
(***************************************************************************)
(* The inductive invariant, in parts.                                      *)
(***************************************************************************)
ImportState == {"none", "awaiting", "importing", "imported", "active"}
Stream == {"overrides", "items", "locks"}

Import == [plan : Plan \cup {NoPlan}, state : ImportState, stream : Stream, at : Nat]
Row == [v : Nat, val : Nat]

TypeInv ==
  /\ state \in [Plan -> RepState]
  /\ inited \in [Plan -> SUBSET Part] /\ acked \in [Plan -> SUBSET Part]
  /\ import \in [Part -> Import]
  /\ adopted \in [Part -> SUBSET Hash]
  /\ row \in [Part -> [Key -> Row]]
  /\ mark \in [Part -> Nat]
  /\ lock \in [Part -> [Key -> Tx \cup {NoTx}]]
  /\ asked \subseteq Plan \X Part
  /\ txState \in [Tx -> {"open", "committing", "cancelling"}]
  /\ clock \in Nat
  /\ seen \in [Key -> Nat]

(* The sources: a plan is queued by a partition that holds its data, a     *)
(* split excludes unfinished promotions, and a promotion is the first one  *)
(* of its routingHash.                                                     *)
SourceInv ==
  /\ \A pl \in Plan : state[pl] # "none" => Known(SourceOf[pl]) /\ ~IsImporting(SourceOf[pl])
  /\ \A pl, q \in Plan : (SourceOf[pl] = SourceOf[q] /\ IsSplit(pl) /\ ~IsSplit(q) /\ state[pl] # "none")
                           => state[q] \notin Unfinished
  /\ \A pl \in Plan : (~IsSplit(pl) /\ state[pl] # "none") => MovingHashes[pl] \cap adopted[SourceOf[pl]] = {}

(* The calls: what a source believes of its targets is true.               *)
CallInv ==
  /\ \A pl \in Plan, t \in Part : <<pl, t>> \in asked => t \in TargetsOf[pl] /\ state[pl] \notin {"none", "queued"}
  /\ \A pl \in Plan : inited[pl] \subseteq {t \in TargetsOf[pl] : import[t].plan = pl}
  /\ \A pl \in Plan : CutOver(pl) => inited[pl] = TargetsOf[pl]
  /\ \A pl \in Plan : acked[pl] \subseteq {t \in TargetsOf[pl] : import[t].plan = pl
                                                                 /\ import[t].state \in {"imported", "active"}}
  /\ \A pl \in Plan : state[pl] \in {"completed", "cleaned"} => acked[pl] = TargetsOf[pl]

(* The targets. *)
TargetInv ==
  \A t \in Part :
    /\ import[t].state = "none" <=> import[t].plan = NoPlan
    /\ import[t].plan # NoPlan => <<import[t].plan, t>> \in asked
    /\ import[t].state \in {"none", "awaiting"} => import[t].stream = "overrides" /\ import[t].at = 0
    /\ import[t].state \in {"importing", "imported", "active"} => CutOver(import[t].plan)

(* The overrides that a target takes over: the promotions that its source  *)
(* has ended.                                                              *)
Overrides(pl, t) ==
  IF KindOf[pl] = "hash_split" THEN {h \in HashesOf(Slice[t]) : HasTerminalOverride(SourceOf[pl], h)} ELSE {}

(* t imports its slice by plan pl. *)
Takes(t, pl) == IsImporting(t) /\ import[t].plan = pl

AdoptedInv ==
  \A t \in Part :
    /\ ~Known(t) \/ t \in Ranges => adopted[t] = {}
    /\ \A pl \in Plan : Takes(t, pl) => adopted[t] = IF import[t].stream = "overrides" THEN {} ELSE Overrides(pl, t)

(* A page of overrides stands; a page of keys stands while its target      *)
(* imports.                                                                *)
PageShape(g) ==
  /\ g.plan \in Plan /\ g.target \in TargetsOf[g.plan]
  /\ g.stream \in Stream /\ g.at \in Nat /\ g.to \in Nat /\ g.mark \in Nat /\ g.last \in BOOLEAN
  /\ g.stream = "overrides" => g.last
  /\ g.stream # "overrides" => g.hashes = {} /\ g.at <= g.to

PageContents(g, pl, t, s) ==
  /\ g.last <=> After(pl, t, g.to) = {}
  /\ DOMAIN g.rows = Covered(pl, t, g.at, g.to)
  /\ g.stream = "items" => \A k \in DOMAIN g.rows : g.rows[k] = row[s][k]
  /\ g.stream = "locks" =>
       /\ \A k \in DOMAIN g.rows : g.rows[k] = lock[s][k]
       /\ \A k \in Key : (BelongsToTarget(pl, t, k) /\ row[s][k] = NoRow) => g.mark >= seen[k]

PageHolds(g) ==
  /\ PageShape(g) /\ CutOver(g.plan)
  /\ g.stream = "overrides" => g.hashes = Overrides(g.plan, g.target)
  /\ (g.stream # "overrides" /\ IsImporting(g.target)) => PageContents(g, g.plan, g.target, SourceOf[g.plan])

PageInv == \A g \in pages : PageHolds(g)

(* The copies of a target: the keys before its cursor are those of its     *)
(* source, and nothing else is there.                                      *)
ItemCopied(pl, t, k) ==
  /\ BelongsToTarget(pl, t, k)
  /\ import[t].stream = "locks" \/ (import[t].stream = "items" /\ k <= import[t].at)
LockCopied(pl, t, k) ==
  BelongsToTarget(pl, t, k) /\ import[t].stream = "locks" /\ k <= import[t].at

CopyInv ==
  /\ \A t \in Part : ~Known(t) => \A k \in Key : row[t][k] = NoRow /\ lock[t][k] = NoTx
  /\ \A t \in Part, pl \in Plan : Takes(t, pl) => \A k \in Key :
       /\ row[t][k] = IF ItemCopied(pl, t, k) THEN row[SourceOf[pl]][k] ELSE NoRow
       /\ lock[t][k] = IF LockCopied(pl, t, k) THEN lock[SourceOf[pl]][k] ELSE NoTx

(* One owner for each key. *)
OwnerInv ==
  /\ \A k \in Key : \E p \in Part : Owner(p, k)
  /\ \A k \in Key, p, q \in Part : Owner(p, k) /\ Owner(q, k) => p = q

(* Revisions where the data is; the locks of a transaction that commits;   *)
(* values are stamps.                                                      *)
RevisionInv == \A p \in Part, k \in Key : Owner(p, k) => RevisionAt(DataAt(p), k) >= seen[k]

WedgeInv ==
  \A t \in Tx, p \in Part : txState[t] = "committing" =>
    \A j, k \in TxKeys[t] : (Owner(p, j) /\ Owner(p, k) /\ lock[DataAt(p)][j] = t) => lock[DataAt(p)][k] = t

ValueInv == \A p \in Part, k \in Key : row[p][k] = NoRow \/ row[p][k].val # 0

(* The read. *)
OpenRead == [state : {"open", "answered"}, at : Part, plan : Plan, key : Key, answer : Nat, vals : SUBSET Nat]

(* The source of plan pl may answer a read of k with a value of vals. *)
MayAnswer(at, pl, k, vals) ==
  /\ at \in TargetsOf[pl] /\ k \in Slice[at]
  /\ ValueOf(k) \in vals
  /\ (CallerSliceServed(pl) /\ ~(KindOf[pl] = "hash_split" /\ HasTerminalOverride(SourceOf[pl], HashOf[k])))
       => row[SourceOf[pl]][k].val \in vals

ReadInv ==
  /\ read \in {NoRead} \cup OpenRead
  /\ read.state = "open" => MayAnswer(read.at, read.plan, read.key, read.vals)

FlowInv == SourceInv /\ CallInv /\ TargetInv /\ AdoptedInv
IInv ==
  /\ TypeInv /\ FlowInv /\ PageInv /\ CopyInv /\ OwnerInv
  /\ RevisionInv /\ WedgeInv /\ ValueInv
  /\ ReadInv /\ ReadThroughIsCurrent
-----------------------------------------------------------------------------
(***************************************************************************)
(* The topology.                                                           *)
(***************************************************************************)
(* The ends of a plan are partitions, and its source is none of its        *)
(* targets.                                                                *)
LEMMA Ends ==
  \A pl \in Plan : /\ SourceOf[pl] \in Part /\ TargetsOf[pl] \subseteq Part /\ TargetsOf[pl] # {}
                   /\ SourceOf[pl] \notin TargetsOf[pl] /\ Root \notin TargetsOf[pl]
                   /\ pl # NoPlan
  BY PlanAssumption, TopologyAssumption

(* A plan moves keys of its source, each one to one target. *)
LEMMA MovingKeys ==
  \A pl \in Plan :
    /\ Moving[pl] \subseteq Slice[SourceOf[pl]] /\ Moving[pl] \subseteq Key
    /\ \A k \in Key : k \in Moving[pl] <=> \E t \in TargetsOf[pl] : k \in Slice[t]
    /\ \A t, u \in TargetsOf[pl] : \A k \in Key : (k \in Slice[t] /\ k \in Slice[u]) => t = u
    /\ IsSplit(pl) => Moving[pl] = Slice[SourceOf[pl]]
<1> SUFFICES ASSUME NEW pl \in Plan
             PROVE  /\ Moving[pl] \subseteq Slice[SourceOf[pl]] /\ Moving[pl] \subseteq Key
                    /\ \A k \in Key : k \in Moving[pl] <=> \E t \in TargetsOf[pl] : k \in Slice[t]
                    /\ \A t, u \in TargetsOf[pl] : \A k \in Key : (k \in Slice[t] /\ k \in Slice[u]) => t = u
                    /\ IsSplit(pl) => Moving[pl] = Slice[SourceOf[pl]]
  OBVIOUS
<1>1. Slice[SourceOf[pl]] \subseteq Key
  BY Ends, PartAssumption
<1>2. IsSplit(pl) => Moving[pl] = Slice[SourceOf[pl]]
  BY TopologyAssumption
<1>3. ~IsSplit(pl) => Moving[pl] \subseteq Slice[SourceOf[pl]]
  BY TopologyAssumption
<1>4. Moving[pl] = UNION {Slice[t] : t \in TargetsOf[pl]}
  BY DEF Moving
<1>5. \A k \in Key : k \in Moving[pl] <=> \E t \in TargetsOf[pl] : k \in Slice[t]
  BY <1>4
<1>6. \A t, u \in TargetsOf[pl] : \A k \in Key : (k \in Slice[t] /\ k \in Slice[u]) => t = u
  BY TopologyAssumption
<1> QED
  BY <1>1, <1>2, <1>3, <1>5, <1>6

(* A promotion moves every key of its routingHash, and no other promotion  *)
(* of the source moves that routingHash.                                   *)
LEMMA PromotedKeys ==
  /\ \A pl \in Plan, k \in Key :
       (~IsSplit(pl) /\ k \in Slice[SourceOf[pl]]) => (HashOf[k] \in MovingHashes[pl] <=> k \in Moving[pl])
  /\ \A pl, q \in Plan : \A h \in Hash :
       (~IsSplit(pl) /\ ~IsSplit(q) /\ SourceOf[pl] = SourceOf[q] /\ h \in MovingHashes[pl] /\ h \in MovingHashes[q])
         => pl = q
  /\ \A pl \in Plan : ~IsSplit(pl) => KindOf[pl] = "key_promotion" /\ TargetsOf[pl] \subseteq Ranges
                                      /\ SourceOf[pl] \notin Ranges
<1>1. ASSUME NEW pl \in Plan, NEW k \in Key, ~IsSplit(pl), k \in Slice[SourceOf[pl]]
      PROVE  HashOf[k] \in MovingHashes[pl] <=> k \in Moving[pl]
  <2>1. MovingHashes[pl] = {HashOf[j] : j \in Moving[pl]}
    BY DEF MovingHashes, HashesOf
  <2>2. PICK h \in Hash : Moving[pl] = {j \in Slice[SourceOf[pl]] : HashOf[j] = h}
    BY <1>1, TopologyAssumption
  <2> QED
    BY <1>1, <2>1, <2>2
<1>2. ASSUME NEW pl \in Plan, NEW q \in Plan, NEW h \in Hash, ~IsSplit(pl), ~IsSplit(q), SourceOf[pl] = SourceOf[q],
             h \in MovingHashes[pl], h \in MovingHashes[q]
      PROVE  pl = q
  <2>1. MovingHashes[pl] = {HashOf[j] : j \in Moving[pl]} /\ MovingHashes[q] = {HashOf[j] : j \in Moving[q]}
    BY DEF MovingHashes, HashesOf
  <2>2. PICK k \in Moving[pl] : HashOf[k] = h
    BY <1>2, <2>1
  <2>3. PICK g \in Hash : Moving[q] = {j \in Slice[SourceOf[q]] : HashOf[j] = g}
    BY <1>2, TopologyAssumption
  <2>4. k \in Moving[q]
    BY <1>2, <2>1, <2>2, <2>3, MovingKeys
  <2> QED
    BY <1>2, <2>2, <2>4, TopologyAssumption
<1>3. ASSUME NEW pl \in Plan, ~IsSplit(pl)
      PROVE  KindOf[pl] = "key_promotion" /\ TargetsOf[pl] \subseteq Ranges /\ SourceOf[pl] \notin Ranges
  BY <1>3, TopologyAssumption DEF IsSplit, Ranges
<1> QED
  BY <1>1, <1>2, <1>3

(* Which splits lead into range trees. *)
LEMMA SplitKinds ==
  \A pl \in Plan : IsSplit(pl) =>
    IF SourceOf[pl] \in Ranges THEN KindOf[pl] = "range_split" /\ TargetsOf[pl] \subseteq Ranges
    ELSE KindOf[pl] = "hash_split" /\ TargetsOf[pl] \cap Ranges = {}
  BY TopologyAssumption, PlanAssumption DEF IsSplit, Ranges
-----------------------------------------------------------------------------
(***************************************************************************)
(* Ownership, in terms of the plans that lead away from a partition.       *)
(***************************************************************************)
GivenAway(p, k) == \E pl \in Plan : SourceOf[pl] = p /\ CutOver(pl) /\ k \in Moving[pl]

(* The keys that a hash child does not own because its source had promoted *)
(* them.                                                                   *)
Withheld(p, k) == HashOf[k] \in adopted[p] \/ Inherits(p, k)

(* A partition owns a key locally exactly when the key is in its slice,    *)
(* was not adopted as promoted, and no cut-over plan gives it away.        *)
LEMMA LocalKeys ==
  /\ \A p \in Part, k \in Key : OwnsLocally(p, k) <=> k \in Slice[p] /\ HashOf[k] \notin adopted[p] /\ ~GivenAway(p, k)
  /\ \A p \in Part, k \in Key :
       OwnsLocally(p, k)' <=> k \in Slice[p] /\ HashOf[k] \notin adopted'[p] /\ ~GivenAway(p, k)'
<1>1. ASSUME NEW p \in Part, NEW k \in Key
      PROVE  /\ k \in Slice[p] /\ RouterRole(p) => GivenAway(p, k)
             /\ k \in Slice[p] /\ RouterRole(p)' => GivenAway(p, k)'
  BY MovingKeys DEF RouterRole, Splits, GivenAway, CutOver
<1>2. ASSUME NEW p \in Part, NEW k \in Key, k \in Slice[p]
      PROVE  /\ OwnedByRangeTree(p, HashOf[k]) => GivenAway(p, k) \/ HashOf[k] \in adopted[p]
             /\ OwnedByRangeTree(p, HashOf[k])' => GivenAway(p, k)' \/ HashOf[k] \in adopted'[p]
  BY <1>2, PromotedKeys DEF OwnedByRangeTree, Promoted, Promotions, GivenAway, CutOver
<1>3. ASSUME NEW p \in Part, NEW k \in Key, k \in Slice[p]
      PROVE  /\ HashOf[k] \in adopted[p] => OwnedByRangeTree(p, HashOf[k])
             /\ HashOf[k] \in adopted'[p] => OwnedByRangeTree(p, HashOf[k])'
             /\ GivenAway(p, k) => RouterRole(p) \/ OwnedByRangeTree(p, HashOf[k])
             /\ GivenAway(p, k)' => RouterRole(p)' \/ OwnedByRangeTree(p, HashOf[k])'
  BY <1>3, PromotedKeys DEF OwnedByRangeTree, Promoted, Promotions, RouterRole, Splits, GivenAway, CutOver
<1> QED
  BY <1>1, <1>2, <1>3 DEF OwnsLocally

(* The owners of a key, by the plans that give keys away and the           *)
(* promotions a hash child does not own.                                   *)
LEMMA OwnedKeys ==
  /\ \A p \in Part, k \in Key :
       Owner(p, k) <=> k \in Slice[p] /\ Entered(p) /\ ~GivenAway(p, k) /\ ~Withheld(p, k)
  /\ \A p \in Part, k \in Key :
       Owner(p, k)' <=> k \in Slice[p] /\ Entered(p)' /\ ~GivenAway(p, k)' /\ ~Withheld(p, k)'
  BY LocalKeys DEF Owner, Withheld

(* A partition that takes no data in is in the tree: what it serves, it    *)
(* owns, and what it owns it serves.                                       *)
LEMMA ServedKeys ==
  ASSUME TypeInv, FlowInv
  PROVE  \A p \in Part, k \in Key : Serves(p, k) <=> Owner(p, k) /\ Known(p) /\ ~IsImporting(p)
<1> SUFFICES ASSUME NEW p \in Part, NEW k \in Key
             PROVE  Serves(p, k) <=> Owner(p, k) /\ Known(p) /\ ~IsImporting(p)
  OBVIOUS
<1>1. Known(p) /\ ~IsImporting(p) => Entered(p) /\ ~Inherits(p, k)
  BY DEF TypeInv, FlowInv, TargetInv, Import, ImportState, Known, IsImporting, Entered, Inherits
<1>2. OwnsLocally(p, k) => k \in Slice[p]
  BY DEF OwnsLocally
<1> QED
  BY <1>1, <1>2 DEF Serves, Owner
-----------------------------------------------------------------------------
(***************************************************************************)
(* Types.                                                                  *)
(***************************************************************************)
LEMMA TypeInit == Init => TypeInv
<1>1. NoImport \in Import
  BY DEF NoImport, Import, ImportState, Stream
<1>2. NoRow \in Row
  BY DEF NoRow, Row
<1> QED
  BY <1>1, <1>2 DEF Init, TypeInv, RepState

(* The cursor after a page is an import record.                            *)
LEMMA NextImportType ==
  ASSUME NEW g, g.plan \in Plan, g.stream \in Stream, g.to \in Nat
  PROVE  NextImport(g) \in Import
<1>1. g.stream # "locks" => NextStream[g.stream] \in Stream
  BY DEF NextStream, Stream
<1>2. CASE ~g.last
  BY <1>2 DEF NextImport, Import, ImportState
<1>3. CASE g.last /\ g.stream = "locks"
  BY <1>3 DEF NextImport, Import, ImportState, Stream
<1>4. CASE g.last /\ g.stream # "locks"
  BY <1>1, <1>4 DEF NextImport, Import, ImportState
<1> QED
  BY <1>2, <1>3, <1>4

(* A revision is a number.                                                 *)
LEMMA RevisionType ==
  ASSUME TypeInv, NEW p \in Part, NEW k \in Key
  PROVE  RevisionAt(p, k) \in Nat
  BY DEF TypeInv, RevisionAt, Row

(* What a write leaves in the rows, the revisions and the clock, key by    *)
(* key.                                                                    *)
LEMMA WrittenType ==
  ASSUME TypeInv, NEW p \in Part, NEW K \in SUBSET Key, Written(p, K)
  PROVE  /\ row' \in [Part -> [Key -> Row]] /\ seen' \in [Key -> Nat] /\ clock' \in Nat
         /\ clock' = clock + 1
         /\ \A q \in Part, k \in Key :
              row'[q][k] = IF q = p /\ k \in K THEN [v |-> RevisionAt(p, k) + 1, val |-> clock + 1] ELSE row[q][k]
         /\ \A k \in Key : seen'[k] = IF k \in K THEN RevisionAt(p, k) + 1 ELSE seen[k]
<1>1. \A k \in Key : [v |-> RevisionAt(p, k) + 1, val |-> clock + 1] \in Row /\ RevisionAt(p, k) + 1 \in Nat
  BY RevisionType DEF TypeInv, Row
<1> DEFINE New == [k \in Key |-> IF k \in K THEN [v |-> RevisionAt(p, k) + 1, val |-> clock + 1] ELSE row[p][k]]
<1>2. row' = [row EXCEPT ![p] = New]
  BY DEF Written
<1>3. New \in [Key -> Row]
  BY <1>1 DEF TypeInv
<1>4. /\ row' \in [Part -> [Key -> Row]]
      /\ \A q \in Part : row'[q] = IF q = p THEN New ELSE row[q]
  <2> HIDE DEF New
  <2> QED
    BY <1>2, <1>3 DEF TypeInv
<1>5. \A q \in Part, k \in Key :
        row'[q][k] = IF q = p /\ k \in K THEN [v |-> RevisionAt(p, k) + 1, val |-> clock + 1] ELSE row[q][k]
  BY <1>4
<1>6. /\ seen' \in [Key -> Nat]
      /\ \A k \in Key : seen'[k] = IF k \in K THEN RevisionAt(p, k) + 1 ELSE seen[k]
  BY <1>1 DEF Written, TypeInv
<1>7. clock' \in Nat /\ clock' = clock + 1
  BY DEF Written, TypeInv
<1> QED
  BY <1>4, <1>5, <1>6, <1>7

(* What a write promises: it stays within its keys, and a written row has  *)
(* a stamp and the revision that is seen.                                  *)
LEMMA Writes ==
  ASSUME TypeInv, NEW p \in Part, NEW K \in SUBSET Key, Written(p, K)
  PROVE  /\ \A q \in Part, k \in Key : (q # p \/ k \notin K) => row'[q][k] = row[q][k]
         /\ \A k \in Key \ K : seen'[k] = seen[k]
         /\ \A k \in K : row'[p][k].val = clock + 1 /\ clock + 1 # 0 /\ row'[p][k].v >= seen'[k]
<1>1. /\ \A q \in Part, k \in Key :
           row'[q][k] = IF q = p /\ k \in K THEN [v |-> RevisionAt(p, k) + 1, val |-> clock + 1] ELSE row[q][k]
      /\ \A k \in Key : seen'[k] = IF k \in K THEN RevisionAt(p, k) + 1 ELSE seen[k]
  BY WrittenType
<1>2. \A k \in Key : RevisionAt(p, k) \in Nat
  BY RevisionType
<1>3. clock \in Nat
  BY DEF TypeInv
<1>4. ASSUME NEW k \in K
      PROVE  row'[p][k].val = clock + 1 /\ clock + 1 # 0 /\ row'[p][k].v >= seen'[k]
  <2>1. row'[p][k] = [v |-> RevisionAt(p, k) + 1, val |-> clock + 1] /\ seen'[k] = RevisionAt(p, k) + 1
    BY <1>1
  <2>2. RevisionAt(p, k) + 1 \in Nat
    BY <1>2
  <2>3. row'[p][k].val = clock + 1 /\ row'[p][k].v = RevisionAt(p, k) + 1
    BY <2>1
  <2> QED
    BY <1>3, <2>1, <2>2, <2>3
<1> QED
  BY <1>1, <1>4

(* SetLocks changes the locks of its keys on one partition.                *)
LEMMA SetLocksType ==
  ASSUME TypeInv, NEW p \in Part, NEW K \in SUBSET Key, NEW t \in Tx \cup {NoTx}, SetLocks(p, K, t)
  PROVE  /\ lock' \in [Part -> [Key -> Tx \cup {NoTx}]]
         /\ \A q \in Part, k \in Key : lock'[q][k] = IF q = p /\ k \in K THEN t ELSE lock[q][k]
<1> DEFINE New == [k \in Key |-> IF k \in K THEN t ELSE lock[p][k]]
<1>1. lock' = [lock EXCEPT ![p] = New]
  BY DEF SetLocks
<1>2. New \in [Key -> Tx \cup {NoTx}]
  BY DEF TypeInv
<1>3. /\ lock' \in [Part -> [Key -> Tx \cup {NoTx}]]
      /\ \A q \in Part : lock'[q] = IF q = p THEN New ELSE lock[q]
  <2> HIDE DEF New
  <2> QED
    BY <1>1, <1>2 DEF TypeInv
<1> QED
  BY <1>3
(* What an applied page does. *)
LEMMA ApplyEffect ==
  ASSUME TypeInv, FlowInv, PageInv, NEW g \in pages, ApplyPage(g)
  PROVE  LET pl == g.plan  t == g.target  s == SourceOf[pl]
         IN  /\ pl \in Plan /\ t \in TargetsOf[pl] /\ t \in Part /\ s \in Part /\ s # t
             /\ IsImporting(t) /\ state[pl] = "cutover"
             /\ import[t].plan = pl /\ import[t].stream = g.stream /\ import[t].at = g.at
             /\ NextImport(g) \in Import
             /\ import' \in [Part -> Import]
             /\ \A q \in Part : import'[q] = IF q = t THEN NextImport(g) ELSE import[q]
             /\ row' \in [Part -> [Key -> Row]] /\ lock' \in [Part -> [Key -> Tx \cup {NoTx}]]
             /\ \A q \in Part, k \in Key :
                  /\ row'[q][k] = IF q = t /\ g.stream = "items" /\ k \in Covered(pl, t, g.at, g.to) /\ row[t][k] = NoRow
                                  THEN row[s][k] ELSE row[q][k]
                  /\ lock'[q][k] = IF q = t /\ g.stream = "locks" /\ k \in Covered(pl, t, g.at, g.to) /\ lock[t][k] = NoTx
                                   THEN lock[s][k] ELSE lock[q][k]
             /\ mark' \in [Part -> Nat] /\ mark'[t] >= g.mark /\ \A q \in Part : q # t => mark'[q] = mark[q]
             /\ adopted' \in [Part -> SUBSET Hash]
             /\ \A q \in Part : adopted'[q] = IF q = t THEN adopted[t] \cup g.hashes ELSE adopted[q]
<1> DEFINE pl == g.plan  t == g.target  s == SourceOf[pl]
<1>1. /\ pl \in Plan /\ t \in TargetsOf[pl] /\ t \in Part /\ s \in Part /\ s # t
      /\ g.stream \in Stream /\ g.at \in Nat /\ g.to \in Nat /\ g.mark \in Nat
  BY Ends DEF PageInv, PageHolds, PageShape, PageContents
<1>2. /\ IsImporting(t) /\ CutOver(pl)
      /\ import[t].plan = pl /\ import[t].stream = g.stream /\ import[t].at = g.at
  <2>1. CutOver(pl)
    BY DEF PageInv, PageHolds
  <2> QED
    BY <2>1 DEF ApplyPage, PageFollowsCursor
<1>3. state[pl] = "cutover"
  BY <1>1, <1>2, Ends DEF FlowInv, CallInv, CutOver, IsImporting
<1>4. NextImport(g) \in Import
  BY <1>1, NextImportType
<1>5. /\ import' \in [Part -> Import]
      /\ \A q \in Part : import'[q] = IF q = t THEN NextImport(g) ELSE import[q]
  BY <1>1, <1>4 DEF ApplyPage, TypeInv
<1>6. g.hashes \subseteq Hash
  <2>1. CASE g.stream = "overrides"
    <3>1. g.hashes = Overrides(pl, t)
      BY <2>1 DEF PageInv, PageHolds, PageShape, PageContents
    <3>2. HashesOf(Slice[t]) \subseteq Hash
      BY <1>1, PartAssumption, KeyAssumption DEF HashesOf
    <3> QED
      BY <3>1, <3>2 DEF Overrides
  <2>2. CASE g.stream # "overrides"
    BY <2>2 DEF PageInv, PageHolds, PageShape, PageContents
  <2> QED
    BY <2>1, <2>2
<1>7. /\ adopted' \in [Part -> SUBSET Hash]
      /\ \A q \in Part : adopted'[q] = IF q = t THEN adopted[t] \cup g.hashes ELSE adopted[q]
  BY <1>1, <1>6 DEF ApplyPage, TypeInv
<1>8. MergedMark(t, g.mark) \in Nat /\ MergedMark(t, g.mark) >= g.mark
  BY <1>1 DEF MergedMark, MaxOf, TypeInv
<1>9. mark' \in [Part -> Nat] /\ mark'[t] >= g.mark /\ \A q \in Part : q # t => mark'[q] = mark[q]
  BY <1>1, <1>8 DEF ApplyPage, TypeInv
<1> DEFINE Merge(old, none) == [k \in Key |-> IF k \in DOMAIN g.rows /\ old[k] = none THEN g.rows[k] ELSE old[k]]
<1>10. /\ row' \in [Part -> [Key -> Row]]
       /\ \A q \in Part, k \in Key :
            row'[q][k] = IF q = t /\ g.stream = "items" /\ k \in Covered(pl, t, g.at, g.to) /\ row[t][k] = NoRow
                         THEN row[s][k] ELSE row[q][k]
  <2>1. CASE g.stream = "items"
    <3>1. DOMAIN g.rows = Covered(pl, t, g.at, g.to) /\ \A k \in DOMAIN g.rows : g.rows[k] = row[s][k]
      BY <1>2, <2>1 DEF PageInv, PageHolds, PageShape, PageContents
    <3>2. row' = [row EXCEPT ![t] = Merge(row[t], NoRow)]
      BY <2>1 DEF ApplyPage
    <3>3. Merge(row[t], NoRow) \in [Key -> Row]
      BY <1>1, <3>1 DEF TypeInv
    <3>4. /\ row' \in [Part -> [Key -> Row]]
          /\ \A q \in Part : row'[q] = IF q = t THEN Merge(row[t], NoRow) ELSE row[q]
      <4> HIDE DEF Merge
      <4> QED
        BY <1>1, <3>2, <3>3 DEF TypeInv
    <3> QED
      BY <2>1, <3>1, <3>4
  <2>2. CASE g.stream # "items"
    BY <2>2 DEF ApplyPage, TypeInv
  <2> QED
    BY <2>1, <2>2
<1>11. /\ lock' \in [Part -> [Key -> Tx \cup {NoTx}]]
       /\ \A q \in Part, k \in Key :
            lock'[q][k] = IF q = t /\ g.stream = "locks" /\ k \in Covered(pl, t, g.at, g.to) /\ lock[t][k] = NoTx
                          THEN lock[s][k] ELSE lock[q][k]
  <2>1. CASE g.stream = "locks"
    <3>1. DOMAIN g.rows = Covered(pl, t, g.at, g.to) /\ \A k \in DOMAIN g.rows : g.rows[k] = lock[s][k]
      BY <1>2, <2>1 DEF PageInv, PageHolds, PageShape, PageContents
    <3>2. lock' = [lock EXCEPT ![t] = Merge(lock[t], NoTx)]
      BY <2>1 DEF ApplyPage
    <3>3. Merge(lock[t], NoTx) \in [Key -> Tx \cup {NoTx}]
      BY <1>1, <3>1 DEF TypeInv
    <3>4. /\ lock' \in [Part -> [Key -> Tx \cup {NoTx}]]
          /\ \A q \in Part : lock'[q] = IF q = t THEN Merge(lock[t], NoTx) ELSE lock[q]
      <4> HIDE DEF Merge
      <4> QED
        BY <1>1, <3>2, <3>3 DEF TypeInv
    <3> QED
      BY <2>1, <3>1, <3>4
  <2>2. CASE g.stream # "locks"
    BY <2>2 DEF ApplyPage, TypeInv
  <2> QED
    BY <2>1, <2>2
<1> HIDE DEF Merge
<1> QED
  BY <1>1, <1>2, <1>3, <1>4, <1>5, <1>7, <1>9, <1>10, <1>11

(* applyPage changes only the target of its page.                          *)
LEMMA ApplyFrame ==
  ASSUME TypeInv, FlowInv, PageInv, NEW g \in pages, ApplyPage(g), NEW p \in Part, ~IsImporting(p)
  PROVE  \A k \in Key : row'[p][k] = row[p][k]
<1>1. LET u == g.target
          s == SourceOf[g.plan]
      IN  /\ IsImporting(u)
          /\ \A q \in Part, k \in Key :
               /\ row'[q][k] = IF q = u /\ g.stream = "items" /\ k \in Covered(g.plan, u, g.at, g.to) /\ row[u][k] = NoRow
                               THEN row[s][k] ELSE row[q][k]
               /\ lock'[q][k] = IF q = u /\ g.stream = "locks" /\ k \in Covered(g.plan, u, g.at, g.to) /\ lock[u][k] = NoTx
                                THEN lock[s][k] ELSE lock[q][k]
  BY ApplyEffect
<1> QED
  BY <1>1

(* What a cleanup step does: it drops locks or rows of the keys that its   *)
(* plan gave away, and a split keeps its rows.                             *)
LEMMA CleanupEffect ==
  ASSUME TypeInv, NEW pl \in Plan, CleanupSourceStep(pl)
  PROVE  LET s == SourceOf[pl]
         IN  /\ state[pl] = "completed" /\ s \in Part
             /\ row' \in [Part -> [Key -> Row]] /\ lock' \in [Part -> [Key -> Tx \cup {NoTx}]]
             /\ \A q \in Part, k \in Key : q # s \/ k \notin CopiesOf(pl) => row'[q][k] = row[q][k] /\ lock'[q][k] = lock[q][k]
             /\ \A k \in Key : row'[s][k] \in {row[s][k], NoRow} /\ lock'[s][k] \in {lock[s][k], NoTx}
             /\ IsSplit(pl) => row' = row
             /\ \/ state' = state
                \/ state' = [state EXCEPT ![pl] = "cleaned"]
<1> DEFINE s == SourceOf[pl]
           locked == {k \in CopiesOf(pl) : lock[s][k] # NoTx}
           rows == {k \in CopiesOf(pl) : ~IsSplit(pl) /\ row[s][k] # NoRow}
<1>1. state[pl] = "completed" /\ s \in Part /\ NoRow \in Row
  BY Ends DEF CleanupSourceStep, NoRow, Row
<1>2. CASE /\ \E t \in {lock[s][k] : k \in locked} :
                lock' = [lock EXCEPT ![s] = [k \in Key |-> IF k \in locked /\ lock[s][k] = t THEN NoTx ELSE lock[s][k]]]
           /\ UNCHANGED <<state, row>>
  <2>1. PICK t \in {lock[s][k] : k \in locked} :
               lock' = [lock EXCEPT ![s] = [k \in Key |-> IF k \in locked /\ lock[s][k] = t THEN NoTx ELSE lock[s][k]]]
    BY <1>2
  <2> DEFINE New == [k \in Key |-> IF k \in locked /\ lock[s][k] = t THEN NoTx ELSE lock[s][k]]
  <2>2. New \in [Key -> Tx \cup {NoTx}]
    BY <1>1 DEF TypeInv
  <2>3. /\ lock' \in [Part -> [Key -> Tx \cup {NoTx}]]
        /\ \A q \in Part : lock'[q] = IF q = s THEN New ELSE lock[q]
    <3>1. lock' = [lock EXCEPT ![s] = New]
      BY <2>1
    <3> HIDE DEF New, locked, rows
    <3> QED
      BY <1>1, <2>2, <3>1 DEF TypeInv
  <2> QED
    BY <1>1, <1>2, <2>3 DEF TypeInv
<1>3. CASE \E k \in rows : row' = [row EXCEPT ![s][k] = NoRow] /\ UNCHANGED <<state, lock>>
  <2>1. PICK j \in rows : row' = [row EXCEPT ![s][j] = NoRow] /\ UNCHANGED <<state, lock>>
    BY <1>3
  <2>2. /\ row' \in [Part -> [Key -> Row]]
        /\ \A q \in Part, k \in Key : row'[q][k] = IF q = s /\ k = j THEN NoRow ELSE row[q][k]
    BY <1>1, <2>1 DEF TypeInv
  <2>3. j \in CopiesOf(pl) /\ ~IsSplit(pl)
    OBVIOUS
  <2> QED
    BY <1>1, <2>1, <2>2, <2>3 DEF TypeInv
<1>4. CASE state' = [state EXCEPT ![pl] = "cleaned"] /\ UNCHANGED <<row, lock>>
  BY <1>1, <1>4 DEF TypeInv
<1> QED
  BY <1>2, <1>3, <1>4 DEF CleanupSourceStep

(* Every step keeps the types.                                             *)
LEMMA TypeStep == TypeInv /\ FlowInv /\ PageInv /\ [Next]_vars => TypeInv'
<1> SUFFICES ASSUME TypeInv, FlowInv, PageInv, [Next]_vars
             PROVE  TypeInv'
  OBVIOUS
<1> USE DEF flowVars, dataVars
<1>1. CASE UNCHANGED vars
  BY <1>1 DEF vars, TypeInv
<1>2. ASSUME NEW pl \in Plan, Queue(pl) \/ PlanStep(pl) \/ Cutover(pl)
      PROVE  TypeInv'
  BY <1>2 DEF Queue, PlanStep, Cutover, TypeInv, RepState
<1>3. ASSUME NEW pl \in Plan, CleanupSourceStep(pl)
      PROVE  TypeInv'
  BY <1>3, CleanupEffect DEF CleanupSourceStep, TypeInv, RepState
<1>4. ASSUME NEW pl \in Plan, NEW t \in TargetsOf[pl], SendInit(pl, t) \/ InitAsTarget(pl, t) \/ InitAnswer(pl, t)
      PROVE  TypeInv'
  <2>1. t \in Part
    BY Ends
  <2>2. [plan |-> pl, state |-> "awaiting", stream |-> "overrides", at |-> 0] \in Import
    BY DEF Import, ImportState, Stream
  <2>3. CASE SendInit(pl, t)
    BY <2>1, <2>3 DEF SendInit, TypeInv
  <2>4. CASE InitAsTarget(pl, t)
    BY <2>1, <2>2, <2>4 DEF InitAsTarget, TypeInv
  <2>5. CASE InitAnswer(pl, t)
    BY <2>1, <2>5 DEF InitAnswer, TypeInv
  <2> QED
    BY <1>4, <2>3, <2>4, <2>5
<1>5. ASSUME NEW pl \in Plan, NEW t \in TargetsOf[pl], AcceptAck(pl, t)
      PROVE  TypeInv'
  <2>1. t \in Part
    BY Ends
  <2> QED
    BY <1>5, <2>1 DEF AcceptAck, TypeInv, RepState
<1>6. ASSUME NEW t \in Part, ServePage(t)
      PROVE  TypeInv'
  BY <1>6 DEF ServePage, TypeInv
<1>7. ASSUME NEW t \in Part, AckAnswer(t)
      PROVE  TypeInv'
  <2>1. [import[t] EXCEPT !.state = "active"] \in Import
    BY DEF TypeInv, Import, ImportState
  <2> QED
    BY <1>7, <2>1 DEF AckAnswer, TypeInv
<1>8. ASSUME NEW g \in pages, ApplyPage(g)
      PROVE  TypeInv'
  <2>1. /\ import' \in [Part -> Import] /\ row' \in [Part -> [Key -> Row]] /\ mark' \in [Part -> Nat]
        /\ lock' \in [Part -> [Key -> Tx \cup {NoTx}]] /\ adopted' \in [Part -> SUBSET Hash]
    BY <1>8, ApplyEffect
  <2>2. UNCHANGED <<state, inited, acked, asked, clock, seen, txState>>
    BY <1>8 DEF ApplyPage
  <2> QED
    BY <2>1, <2>2 DEF TypeInv
<1>9. ASSUME NEW p \in Part, NEW k \in Key, PutItem(p, k)
      PROVE  TypeInv'
  <2>1. row' \in [Part -> [Key -> Row]] /\ seen' \in [Key -> Nat] /\ clock' \in Nat
    BY <1>9, WrittenType DEF PutItem
  <2> QED
    BY <1>9, <2>1 DEF PutItem, TypeInv
<1>10. ASSUME NEW p \in Part, NEW k \in Key, DeleteItem(p, k)
       PROVE  TypeInv'
  <2>1. NoRow \in Row /\ row[p][k].v + 1 \in Nat /\ MaxOf(mark[p], row[p][k].v + 1) \in Nat
    BY DEF TypeInv, Row, NoRow, MaxOf
  <2> QED
    BY <1>10, <2>1 DEF DeleteItem, TypeInv
<1>11. ASSUME NEW t \in Tx, NEW decision \in {"committing", "cancelling"}, Decide(t, decision)
       PROVE  TypeInv'
  BY <1>11 DEF Decide, TypeInv
<1>12. ASSUME NEW t \in Tx, NEW p \in Part, Prepare(t, p) \/ Cancel(t, p)
       PROVE  TypeInv'
  <2>1. Group(t, p) \subseteq Key /\ Owned(t, p) \subseteq Key
    BY TxAssumption DEF Group, Owned
  <2>2. lock' \in [Part -> [Key -> Tx \cup {NoTx}]]
    BY <1>12, <2>1, SetLocksType DEF Prepare, Cancel
  <2> QED
    BY <1>12, <2>2 DEF Prepare, Cancel, TypeInv
<1>13. ASSUME NEW t \in Tx, NEW p \in Part, Commit(t, p)
       PROVE  TypeInv'
  <2>1. Group(t, p) \subseteq Key /\ Owned(t, p) \subseteq Key
    BY TxAssumption DEF Group, Owned
  <2>2. lock' \in [Part -> [Key -> Tx \cup {NoTx}]]
    BY <1>13, <2>1, SetLocksType DEF Commit
  <2>3. row' \in [Part -> [Key -> Row]] /\ seen' \in [Key -> Nat] /\ clock' \in Nat
    BY <1>13, <2>1, WrittenType DEF Commit
  <2> QED
    BY <1>13, <2>2, <2>3 DEF Commit, TypeInv
<1>14. ASSUME NEW p \in Part, NEW k \in ReadKeys, StartRead(p, k)
       PROVE  TypeInv'
  BY <1>14 DEF StartRead, TypeInv
<1>15. ASSUME ExecuteLocal
       PROVE  TypeInv'
  BY <1>15 DEF ExecuteLocal, TypeInv
<1> QED
  BY <1>1, <1>2, <1>3, <1>4, <1>5, <1>6, <1>7, <1>8, <1>9, <1>10, <1>11, <1>12, <1>13, <1>14, <1>15 DEF Next
-----------------------------------------------------------------------------
(***************************************************************************)
(* The flow of repartitions.                                               *)
(***************************************************************************)
(* Requests change no state of the flow. *)
LEMMA FlowSteps ==
  ASSUME [Next]_vars
  PROVE  \/ UNCHANGED flowVars
         \/ \E pl \in Plan : \/ Queue(pl) \/ PlanStep(pl) \/ Cutover(pl) \/ CleanupSourceStep(pl)
                             \/ \E t \in TargetsOf[pl] : SendInit(pl, t) \/ InitAsTarget(pl, t) \/ InitAnswer(pl, t)
                                                         \/ AcceptAck(pl, t)
         \/ \E t \in Part : ServePage(t) \/ AckAnswer(t)
         \/ \E g \in pages : ApplyPage(g)
<1>1. CASE UNCHANGED vars
  BY <1>1 DEF vars
<1>2. ASSUME NEW p \in Part, NEW k \in Key, PutItem(p, k) \/ DeleteItem(p, k)
      PROVE  UNCHANGED flowVars
  BY <1>2 DEF PutItem, DeleteItem
<1>3. ASSUME NEW t \in Tx, NEW decision \in {"committing", "cancelling"}, Decide(t, decision)
      PROVE  UNCHANGED flowVars
  BY <1>3 DEF Decide
<1>4. ASSUME NEW t \in Tx, NEW p \in Part, Prepare(t, p) \/ Commit(t, p) \/ Cancel(t, p)
      PROVE  UNCHANGED flowVars
  BY <1>4 DEF Prepare, Commit, Cancel
<1>5. ASSUME NEW p \in Part, NEW k \in ReadKeys, StartRead(p, k)
      PROVE  UNCHANGED flowVars
  BY <1>5 DEF StartRead
<1>6. ASSUME ExecuteLocal
      PROVE  UNCHANGED flowVars
  BY <1>6 DEF ExecuteLocal
<1> QED
  BY <1>1, <1>2, <1>3, <1>4, <1>5, <1>6 DEF Next

(* Only the steps of a source change the states of the plans, and only     *)
(* pages change the overrides.                                             *)
LEMMA StateFrame ==
  ASSUME [Next]_vars
  PROVE  \/ UNCHANGED state
         \/ \E pl \in Plan : \/ Queue(pl) \/ PlanStep(pl) \/ Cutover(pl) \/ CleanupSourceStep(pl)
                             \/ \E t \in TargetsOf[pl] : AcceptAck(pl, t)
<1>1. UNCHANGED flowVars => UNCHANGED state
  BY DEF flowVars
<1>2. ASSUME NEW pl \in Plan, NEW t \in TargetsOf[pl], SendInit(pl, t) \/ InitAsTarget(pl, t) \/ InitAnswer(pl, t)
      PROVE  UNCHANGED state
  BY <1>2 DEF SendInit, InitAsTarget, InitAnswer
<1>3. ASSUME NEW t \in Part, ServePage(t)
      PROVE  UNCHANGED state
  BY <1>3 DEF ServePage
<1>4. ASSUME NEW t \in Part, AckAnswer(t)
      PROVE  UNCHANGED state
  BY <1>4 DEF AckAnswer
<1>5. ASSUME NEW g \in pages, ApplyPage(g)
      PROVE  UNCHANGED state
  BY <1>5 DEF ApplyPage
<1> QED
  BY <1>1, <1>2, <1>3, <1>4, <1>5, FlowSteps

(* Only a page of overrides changes what a partition adopted.              *)
LEMMA AdoptedFrame ==
  ASSUME [Next]_vars
  PROVE  UNCHANGED adopted \/ \E g \in pages : ApplyPage(g)
<1>1. UNCHANGED flowVars => UNCHANGED adopted
  BY DEF flowVars
<1>2. ASSUME NEW pl \in Plan, Queue(pl) \/ PlanStep(pl) \/ Cutover(pl) \/ CleanupSourceStep(pl)
      PROVE  UNCHANGED adopted
  BY <1>2 DEF Queue, PlanStep, Cutover, CleanupSourceStep
<1>3. ASSUME NEW pl \in Plan, NEW t \in TargetsOf[pl],
             SendInit(pl, t) \/ InitAsTarget(pl, t) \/ InitAnswer(pl, t) \/ AcceptAck(pl, t)
      PROVE  UNCHANGED adopted
  BY <1>3 DEF SendInit, InitAsTarget, InitAnswer, AcceptAck
<1>4. ASSUME NEW t \in Part, ServePage(t)
      PROVE  UNCHANGED adopted
  BY <1>4 DEF ServePage
<1>5. ASSUME NEW t \in Part, AckAnswer(t)
      PROVE  UNCHANGED adopted
  BY <1>5 DEF AckAnswer
<1> QED
  BY <1>1, <1>2, <1>3, <1>4, <1>5, FlowSteps

(* Every step keeps what canQueue assumes of the plans of one source.      *)
LEMMA SourceStep ==
  ASSUME TypeInv, FlowInv, PageInv, [Next]_vars
  PROVE  SourceInv'
<1> USE DEF FlowInv
<1>1. CASE UNCHANGED flowVars
  BY <1>1 DEF flowVars, SourceInv, Known, IsImporting
<1>2. ASSUME NEW pl \in Plan, Queue(pl)
      PROVE  SourceInv'
  <2>1. /\ UNCHANGED <<import, adopted>> /\ state[pl] = "none"
        /\ \A q \in Plan : state'[q] = IF q = pl THEN "queued" ELSE state[q]
    BY <1>2 DEF Queue, TypeInv
  <2>2. Known(SourceOf[pl]) /\ ~IsImporting(SourceOf[pl])
    BY <1>2 DEF Queue
  <2>3. \A q \in Plan : SourceOf[q] = SourceOf[pl] /\ IsSplit(q) => state[q] = "none"
    BY <1>2, Ends DEF Queue, CanQueue, Splits
  <2>4. \A q \in Plan : IsSplit(pl) /\ SourceOf[q] = SourceOf[pl] /\ ~IsSplit(q) => state[q] \notin Unfinished
    BY <1>2, Ends DEF Queue, CanQueue, Promotions
  <2>5. ~IsSplit(pl) => MovingHashes[pl] \cap adopted[SourceOf[pl]] = {}
    BY <1>2 DEF Queue, CanQueue, Promoted
  <2>6. \A q \in Plan : state'[q] # "none" => Known(SourceOf[q])' /\ ~IsImporting(SourceOf[q])'
    BY <2>1, <2>2 DEF SourceInv, Known, IsImporting
  <2>7. \A q, r \in Plan : (SourceOf[q] = SourceOf[r] /\ IsSplit(q) /\ ~IsSplit(r) /\ state'[q] # "none")
                             => state'[r] \notin Unfinished
    BY <2>1, <2>3, <2>4 DEF SourceInv, Unfinished
  <2>8. \A q \in Plan : (~IsSplit(q) /\ state'[q] # "none") => MovingHashes[q] \cap adopted'[SourceOf[q]] = {}
    BY <2>1, <2>5 DEF SourceInv
  <2> QED
    BY <2>6, <2>7, <2>8 DEF SourceInv
<1>3. ASSUME NEW pl \in Plan, PlanStep(pl) \/ Cutover(pl) \/ CleanupSourceStep(pl)
      PROVE  SourceInv'
  <2>1. UNCHANGED <<import, adopted>> /\ state[pl] # "none"
    BY <1>3 DEF PlanStep, Cutover, CleanupSourceStep
  <2>2. \A q \in Plan : /\ state'[q] = "none" <=> state[q] = "none"
                        /\ state'[q] \in Unfinished => state[q] \in Unfinished
    BY <1>3, CleanupEffect DEF PlanStep, Cutover, TypeInv, Unfinished
  <2> QED
    BY <2>1, <2>2 DEF SourceInv, Known, IsImporting
<1>4. ASSUME NEW pl \in Plan, NEW t \in TargetsOf[pl], SendInit(pl, t) \/ InitAnswer(pl, t) \/ AcceptAck(pl, t)
      PROVE  SourceInv'
  <2>1. UNCHANGED <<import, adopted>>
    BY <1>4 DEF SendInit, InitAnswer, AcceptAck
  <2>2. \A q \in Plan : /\ state'[q] = "none" <=> state[q] = "none"
                        /\ state'[q] \in Unfinished => state[q] \in Unfinished
    BY <1>4 DEF SendInit, InitAnswer, AcceptAck, TypeInv, Unfinished
  <2> QED
    BY <2>1, <2>2 DEF SourceInv, Known, IsImporting
<1>5. ASSUME NEW pl \in Plan, NEW t \in TargetsOf[pl], InitAsTarget(pl, t)
      PROVE  SourceInv'
  <2>1. t \in Part /\ t # Root /\ UNCHANGED <<state, adopted>> /\ import[t].state = "none"
    BY <1>5, Ends DEF InitAsTarget
  <2>2. \A p \in Part : p # t => import'[p] = import[p]
    BY <1>5 DEF InitAsTarget, TypeInv
  <2>3. \A p \in Part : Known(p) => Known(p)' /\ (~IsImporting(p) => ~IsImporting(p)')
    BY <2>1, <2>2 DEF Known, IsImporting
  <2> QED
    BY <2>1, <2>3, Ends DEF SourceInv
<1>6. ASSUME NEW t \in Part, ServePage(t) \/ AckAnswer(t)
      PROVE  SourceInv'
  <2>1. UNCHANGED <<state, adopted>>
    BY <1>6 DEF ServePage, AckAnswer
  <2>2. \A p \in Part : /\ import'[p].state = "none" <=> import[p].state = "none"
                        /\ IsImporting(p)' <=> IsImporting(p)
    <3>1. CASE ServePage(t)
      BY <3>1 DEF ServePage, IsImporting
    <3>2. CASE AckAnswer(t)
      <4>1. /\ \A p \in Part : p # t => import'[p] = import[p]
            /\ import[t].state = "imported" /\ import'[t].state = "active"
        BY <3>2 DEF AckAnswer, TypeInv, Import
      <4> QED
        BY <4>1 DEF IsImporting
    <3> QED
      BY <1>6, <3>1, <3>2
  <2> QED
    BY <2>1, <2>2, Ends DEF SourceInv, Known
<1>7. ASSUME NEW g \in pages, ApplyPage(g)
      PROVE  SourceInv'
  <2>1. UNCHANGED state
    BY <1>7 DEF ApplyPage
  <2>2. NextImport(g).state \in {"importing", "imported"}
    BY DEF NextImport
  <2>3. \A p \in Part : /\ Known(p) => Known(p)'
                        /\ ~IsImporting(p) => ~IsImporting(p)' /\ adopted'[p] = adopted[p]
    BY <1>7, <2>2, ApplyEffect DEF Known, IsImporting
  <2> QED
    BY <2>1, <2>3, Ends DEF SourceInv
<1> QED
  BY <1>1, <1>2, <1>3, <1>4, <1>5, <1>6, <1>7, FlowSteps

(* The promotions that the source of a split has ended stay the same. *)
LEMMA Frozen ==
  ASSUME TypeInv, FlowInv, PageInv, [Next]_vars
  PROVE  \A pl \in Plan : IsSplit(pl) /\ state[pl] # "none" =>
           /\ state'[pl] # "none"
           /\ \A h \in Hash : HasTerminalOverride(SourceOf[pl], h)' <=> HasTerminalOverride(SourceOf[pl], h)
<1> SUFFICES ASSUME NEW pl \in Plan, IsSplit(pl), state[pl] # "none"
             PROVE  /\ state'[pl] # "none"
                    /\ \A h \in Hash : HasTerminalOverride(SourceOf[pl], h)' <=> HasTerminalOverride(SourceOf[pl], h)
  OBVIOUS
<1> DEFINE s == SourceOf[pl]
<1>1. s \in Part /\ ~IsImporting(s) /\ \A q \in Promotions[s] : q \in Plan /\ state[q] \notin Unfinished
  BY Ends DEF FlowInv, SourceInv, Promotions
<1>2. adopted'[s] = adopted[s]
  <2>1. ASSUME NEW g \in pages, ApplyPage(g)
        PROVE  adopted'[s] = adopted[s]
    BY <1>1, <2>1, ApplyEffect
  <2> QED
    BY <2>1, AdoptedFrame
<1>3. ASSUME NEW q \in Plan
      PROVE  /\ state[q] # "none" => state'[q] # "none"
             /\ state[q] \notin Unfinished => (state'[q] \in {"completed", "cleaned"} <=> state[q] \in {"completed", "cleaned"})
  <2>1. CASE UNCHANGED state
    BY <2>1
  <2>2. ASSUME NEW r \in Plan, Queue(r) \/ PlanStep(r) \/ Cutover(r) \/ CleanupSourceStep(r)
        PROVE  /\ state[q] # "none" => state'[q] # "none"
               /\ state[q] \notin Unfinished => (state'[q] \in {"completed", "cleaned"} <=> state[q] \in {"completed", "cleaned"})
    BY <2>2, CleanupEffect DEF Queue, PlanStep, Cutover, TypeInv, Unfinished
  <2>3. ASSUME NEW r \in Plan, NEW t \in TargetsOf[r], AcceptAck(r, t)
        PROVE  /\ state[q] # "none" => state'[q] # "none"
               /\ state[q] \notin Unfinished => (state'[q] \in {"completed", "cleaned"} <=> state[q] \in {"completed", "cleaned"})
    BY <2>3 DEF AcceptAck, TypeInv, Unfinished
  <2> QED
    BY <2>1, <2>2, <2>3, StateFrame
<1>4. \A q \in Promotions[s] : state'[q] \in {"completed", "cleaned"} <=> state[q] \in {"completed", "cleaned"}
  BY <1>1, <1>3
<1> QED
  BY <1>2, <1>3, <1>4 DEF HasTerminalOverride, Promoted

(* Every step keeps what a source believes of its targets.                 *)
LEMMA CallStep ==
  ASSUME TypeInv, FlowInv, PageInv, [Next]_vars
  PROVE  CallInv'
<1> USE DEF FlowInv
<1>1. CASE UNCHANGED flowVars
  BY <1>1 DEF flowVars, CallInv, CutOver
<1>2. ASSUME NEW pl \in Plan, Queue(pl) \/ PlanStep(pl)
      PROVE  CallInv'
  <2>1. UNCHANGED <<inited, acked, import, asked>>
    BY <1>2 DEF Queue, PlanStep
  <2>2. \A q \in Plan : q # pl => state'[q] = state[q]
    BY <1>2 DEF Queue, PlanStep, TypeInv
  <2>3. state[pl] \in {"none", "queued"} /\ state'[pl] \in {"queued", "planned"}
    BY <1>2 DEF Queue, PlanStep, TypeInv
  <2> QED
    BY <2>1, <2>2, <2>3 DEF CallInv, CutOver
<1>3. ASSUME NEW pl \in Plan, Cutover(pl)
      PROVE  CallInv'
  <2>1. /\ UNCHANGED <<inited, acked, import, asked>> /\ inited[pl] = TargetsOf[pl]
        /\ \A q \in Plan : state'[q] = IF q = pl THEN "cutover" ELSE state[q]
    BY <1>3 DEF Cutover, TypeInv
  <2> QED
    BY <2>1 DEF CallInv, CutOver
<1>4. ASSUME NEW pl \in Plan, CleanupSourceStep(pl)
      PROVE  CallInv'
  <2>1. UNCHANGED <<inited, acked, import, asked>> /\ state[pl] = "completed"
    BY <1>4 DEF CleanupSourceStep
  <2>2. \A q \in Plan : state'[q] = state[q] \/ (q = pl /\ state'[q] = "cleaned")
    BY <1>4, CleanupEffect DEF TypeInv
  <2> QED
    BY <2>1, <2>2 DEF CallInv, CutOver
<1>5. ASSUME NEW pl \in Plan, NEW t \in TargetsOf[pl], SendInit(pl, t)
      PROVE  CallInv'
  BY <1>5 DEF SendInit, CallInv, CutOver
<1>6. ASSUME NEW pl \in Plan, NEW t \in TargetsOf[pl], InitAnswer(pl, t)
      PROVE  CallInv'
  <2>1. /\ UNCHANGED <<state, acked, import, asked>> /\ import[t].plan = pl
        /\ \A q \in Plan : inited'[q] = IF q = pl THEN inited[q] \cup {t} ELSE inited[q]
        /\ state[pl] = "planned"
    BY <1>6 DEF InitAnswer, TypeInv
  <2>2. ASSUME NEW q \in Plan, NEW u \in inited'[q]
        PROVE  u \in TargetsOf[q] /\ import'[u].plan = q
    <3>1. u \in inited[q] \/ (q = pl /\ u = t)
      BY <2>1
    <3> QED
      BY <2>1, <3>1 DEF CallInv
  <2>3. ASSUME NEW q \in Plan, CutOver(q)'
        PROVE  inited'[q] = TargetsOf[q]
    <3>1. q # pl /\ CutOver(q)
      BY <2>1, <2>3 DEF CutOver
    <3> QED
      BY <2>1, <3>1 DEF CallInv
  <2>4. \A q \in Plan, u \in Part : <<q, u>> \in asked' => u \in TargetsOf[q] /\ state'[q] \notin {"none", "queued"}
    BY <2>1 DEF CallInv
  <2>5. \A q \in Plan :
          /\ acked'[q] \subseteq {u \in TargetsOf[q] : import'[u].plan = q
                                                        /\ import'[u].state \in {"imported", "active"}}
          /\ state'[q] \in {"completed", "cleaned"} => acked'[q] = TargetsOf[q]
    BY <2>1 DEF CallInv
  <2> QED
    BY <2>2, <2>3, <2>4, <2>5 DEF CallInv
<1>7. ASSUME NEW pl \in Plan, NEW t \in TargetsOf[pl], AcceptAck(pl, t)
      PROVE  CallInv'
  <2>1. /\ UNCHANGED <<inited, import, asked>>
        /\ import[t].plan = pl /\ import[t].state \in {"imported", "active"} /\ state[pl] = "cutover"
        /\ \A q \in Plan : acked'[q] = IF q = pl THEN acked[q] \cup {t} ELSE acked[q]
        /\ t \in Part
    BY <1>7, Ends DEF AcceptAck, TypeInv
  <2>2. \A q \in Plan : \/ state'[q] = state[q]
                        \/ q = pl /\ state'[q] = "completed" /\ acked'[pl] = TargetsOf[pl]
    BY <1>7, <2>1 DEF AcceptAck, AllAcked, TypeInv
  <2>3. \A q \in Plan : /\ CutOver(q)' <=> CutOver(q)
                        /\ state'[q] \in {"none", "queued"} <=> state[q] \in {"none", "queued"}
    BY <2>1, <2>2 DEF CutOver
  <2>4. \A q \in Plan : state'[q] \in {"completed", "cleaned"} => acked'[q] = TargetsOf[q]
    <3>1. ASSUME NEW q \in Plan, state'[q] \in {"completed", "cleaned"}, state'[q] = state[q]
          PROVE  acked'[q] = TargetsOf[q]
      BY <2>1, <3>1 DEF CallInv
    <3> QED
      BY <2>2, <3>1
  <2>5. \A q \in Plan : acked'[q] \subseteq {u \in TargetsOf[q] : import'[u].plan = q
                                                                  /\ import'[u].state \in {"imported", "active"}}
    <3>1. ASSUME NEW q \in Plan, NEW u \in acked'[q]
          PROVE  u \in TargetsOf[q] /\ import'[u].plan = q /\ import'[u].state \in {"imported", "active"}
      <4>1. u \in acked[q] \/ (q = pl /\ u = t)
        BY <2>1
      <4> QED
        BY <2>1, <4>1 DEF CallInv
    <3> QED
      BY <3>1
  <2>6. \A q \in Plan, u \in Part : <<q, u>> \in asked' => u \in TargetsOf[q] /\ state'[q] \notin {"none", "queued"}
    BY <2>1, <2>3 DEF CallInv
  <2>7. \A q \in Plan : /\ inited'[q] \subseteq {u \in TargetsOf[q] : import'[u].plan = q}
                        /\ CutOver(q)' => inited'[q] = TargetsOf[q]
    BY <2>1, <2>3 DEF CallInv
  <2> QED
    BY <2>4, <2>5, <2>6, <2>7 DEF CallInv
<1>8. ASSUME NEW pl \in Plan, NEW t \in TargetsOf[pl], InitAsTarget(pl, t)
      PROVE  CallInv'
  <2>1. /\ UNCHANGED <<state, inited, acked, asked>> /\ import[t].state = "none"
        /\ \A p \in Part : p # t => import'[p] = import[p]
    BY <1>8 DEF InitAsTarget, TypeInv
  <2>2. import[t].plan = NoPlan /\ t \in Part
    BY <2>1, Ends DEF TargetInv
  <2>3. \A q \in Plan : t \notin inited[q] /\ t \notin acked[q]
    BY <2>2, Ends DEF CallInv
  <2> QED
    BY <2>1, <2>3, Ends DEF CallInv, CutOver
<1>9. ASSUME NEW t \in Part, ServePage(t)
      PROVE  CallInv'
  BY <1>9 DEF ServePage, CallInv, CutOver
<1>10. ASSUME NEW t \in Part, AckAnswer(t)
       PROVE  CallInv'
  <2>1. /\ UNCHANGED <<state, inited, acked, asked>>
        /\ \A p \in Part : p # t => import'[p] = import[p]
        /\ import'[t].state = "active" /\ import'[t].plan = import[t].plan
    BY <1>10 DEF AckAnswer, TypeInv, Import
  <2> QED
    BY <2>1, Ends DEF CallInv, CutOver
<1>11. ASSUME NEW g \in pages, ApplyPage(g)
       PROVE  CallInv'
  <2>1. UNCHANGED <<state, inited, acked, asked>>
    BY <1>11 DEF ApplyPage
  <2>2. NextImport(g).plan = g.plan
    BY DEF NextImport
  <2>3. /\ IsImporting(g.target) /\ import[g.target].plan = g.plan
        /\ \A p \in Part : import'[p] = IF p = g.target THEN NextImport(g) ELSE import[p]
    BY <1>11, ApplyEffect
  <2>4. /\ \A p \in Part : import'[p].plan = import[p].plan
        /\ \A p \in Part : import[p].state \in {"imported", "active"} => import'[p] = import[p]
    BY <2>2, <2>3 DEF IsImporting
  <2> QED
    BY <2>1, <2>4, Ends DEF CallInv, CutOver
<1> QED
  BY <1>1, <1>2, <1>3, <1>4, <1>5, <1>6, <1>7, <1>8, <1>9, <1>10, <1>11, FlowSteps

(* A plan that is cut over stays so.                                       *)
LEMMA CutOverStays ==
  ASSUME TypeInv, [Next]_vars
  PROVE  \A pl \in Plan : CutOver(pl) => CutOver(pl)'
<1>1. ASSUME NEW q \in Plan, Queue(q) \/ PlanStep(q) \/ Cutover(q) \/ CleanupSourceStep(q)
      PROVE  \A pl \in Plan : CutOver(pl) => CutOver(pl)'
  BY <1>1, CleanupEffect DEF Queue, PlanStep, Cutover, TypeInv, CutOver
<1>2. ASSUME NEW q \in Plan, NEW t \in TargetsOf[q], AcceptAck(q, t)
      PROVE  \A pl \in Plan : CutOver(pl) => CutOver(pl)'
  BY <1>2 DEF AcceptAck, TypeInv, CutOver
<1>3. CASE UNCHANGED state
  BY <1>3 DEF CutOver
<1> QED
  BY <1>1, <1>2, <1>3, StateFrame

(* Every step keeps the imports in line with the calls and the cutover.    *)
LEMMA TargetStep ==
  ASSUME TypeInv, FlowInv, PageInv, [Next]_vars
  PROVE  TargetInv'
<1> USE DEF FlowInv
<1>1. CASE UNCHANGED flowVars
  BY <1>1 DEF flowVars, TargetInv, CutOver
<1>2. ASSUME NEW pl \in Plan, Queue(pl) \/ PlanStep(pl) \/ Cutover(pl) \/ CleanupSourceStep(pl)
      PROVE  TargetInv'
  <2>1. UNCHANGED <<import, asked>>
    BY <1>2 DEF Queue, PlanStep, Cutover, CleanupSourceStep
  <2> QED
    BY <2>1, CutOverStays DEF TargetInv, TypeInv, Import
<1>3. ASSUME NEW pl \in Plan, NEW u \in TargetsOf[pl], SendInit(pl, u) \/ InitAnswer(pl, u) \/ AcceptAck(pl, u)
      PROVE  TargetInv'
  <2>1. UNCHANGED import /\ asked \subseteq asked'
    BY <1>3 DEF SendInit, InitAnswer, AcceptAck
  <2> QED
    BY <2>1, CutOverStays DEF TargetInv, TypeInv, Import
<1>4. ASSUME NEW pl \in Plan, NEW u \in TargetsOf[pl], InitAsTarget(pl, u)
      PROVE  TargetInv'
  <2>1. /\ UNCHANGED <<state, asked>> /\ <<pl, u>> \in asked
        /\ \A p \in Part : p # u => import'[p] = import[p]
    BY <1>4 DEF InitAsTarget, TypeInv
  <2>2. u \in Part /\ pl # NoPlan
    BY Ends
  <2>3. import'[u] = [plan |-> pl, state |-> "awaiting", stream |-> "overrides", at |-> 0]
    BY <1>4, <2>2 DEF InitAsTarget, TypeInv
  <2> QED
    BY <2>1, <2>2, <2>3 DEF TargetInv, CutOver
<1>5. ASSUME NEW u \in Part, ServePage(u)
      PROVE  TargetInv'
  BY <1>5 DEF ServePage, TargetInv, CutOver
<1>6. ASSUME NEW u \in Part, AckAnswer(u)
      PROVE  TargetInv'
  <2>1. /\ UNCHANGED <<state, asked>> /\ import[u].state = "imported"
        /\ \A p \in Part : p # u => import'[p] = import[p]
        /\ import'[u].state = "active" /\ import'[u].plan = import[u].plan
    BY <1>6 DEF AckAnswer, TypeInv, Import
  <2> QED
    BY <2>1 DEF TargetInv, CutOver
<1>7. ASSUME NEW g \in pages, ApplyPage(g)
      PROVE  TargetInv'
  <2>1. UNCHANGED <<state, asked>>
    BY <1>7 DEF ApplyPage
  <2>2. NextImport(g).plan = g.plan /\ NextImport(g).state \in {"importing", "imported"}
    BY DEF NextImport
  <2>3. /\ g.plan # NoPlan /\ state[g.plan] = "cutover" /\ import[g.target].plan = g.plan
        /\ \A p \in Part : import'[p] = IF p = g.target THEN NextImport(g) ELSE import[p]
    BY <1>7, ApplyEffect, Ends
  <2> QED
    BY <2>1, <2>2, <2>3 DEF TargetInv, CutOver
<1> QED
  BY <1>1, <1>2, <1>3, <1>4, <1>5, <1>6, <1>7, FlowSteps
(* What belongs to a target is fixed once its plan is queued. *)
LEMMA FrozenSlices ==
  ASSUME TypeInv, FlowInv, PageInv, [Next]_vars, NEW pl \in Plan, state[pl] # "none", NEW t \in TargetsOf[pl]
  PROVE  /\ Overrides(pl, t)' = Overrides(pl, t)
         /\ \A k \in Key : BelongsToTarget(pl, t, k)' <=> BelongsToTarget(pl, t, k)
         /\ \A at : After(pl, t, at)' = After(pl, t, at)
         /\ \A at, to : Covered(pl, t, at, to)' = Covered(pl, t, at, to)
<1>1. KindOf[pl] = "hash_split" =>
        \A h \in Hash : HasTerminalOverride(SourceOf[pl], h)' <=> HasTerminalOverride(SourceOf[pl], h)
  BY Frozen DEF IsSplit
<1>2. \A k \in Key : HashOf[k] \in Hash
  BY KeyAssumption
<1>3. HashesOf(Slice[t]) \subseteq Hash
  BY Ends, PartAssumption, <1>2 DEF HashesOf
<1>4. \A k \in Key : BelongsToTarget(pl, t, k)' <=> BelongsToTarget(pl, t, k)
  BY <1>1, <1>2 DEF BelongsToTarget
<1>5. Overrides(pl, t)' = Overrides(pl, t)
  BY <1>1, <1>3 DEF Overrides
<1>6. \A at : After(pl, t, at)' = After(pl, t, at)
  BY <1>4 DEF After
<1>7. \A at, to : Covered(pl, t, at, to)' = Covered(pl, t, at, to)
  BY <1>6 DEF Covered
<1> QED
  BY <1>4, <1>5, <1>6, <1>7

(* Only an init call makes a partition import. *)
LEMMA ImportFrame ==
  ASSUME TypeInv, FlowInv, PageInv, [Next]_vars, NEW t \in Part
  PROVE  /\ Known(t) => Known(t)' /\ import'[t].plan = import[t].plan
         /\ Known(t) /\ IsImporting(t)' => IsImporting(t)
         /\ \/ import'[t] = import[t]
            \/ ~Known(t) /\ import'[t].state = "awaiting" /\ import'[t].stream = "overrides" /\ import'[t].at = 0
            \/ ~IsImporting(t)'
            \/ \E g \in pages : ApplyPage(g) /\ g.target = t
<1>1. CASE UNCHANGED import
  BY <1>1 DEF Known, IsImporting
<1>2. ASSUME NEW pl \in Plan, NEW u \in TargetsOf[pl], InitAsTarget(pl, u)
      PROVE  /\ Known(t) => Known(t)' /\ import'[t].plan = import[t].plan /\ import'[t] = import[t]
             /\ \/ import'[t] = import[t]
                \/ ~Known(t) /\ import'[t].state = "awaiting" /\ import'[t].stream = "overrides" /\ import'[t].at = 0
  <2>1. u # Root /\ u \in Part
    BY Ends
  <2>2. import'[t] = IF t = u THEN [plan |-> pl, state |-> "awaiting", stream |-> "overrides", at |-> 0] ELSE import[t]
    BY <1>2, <2>1 DEF InitAsTarget, TypeInv
  <2>3. import[u].state = "none"
    BY <1>2 DEF InitAsTarget
  <2>4. CASE t = u
    BY <2>1, <2>2, <2>3, <2>4 DEF Known
  <2>5. CASE t # u
    BY <2>2, <2>5 DEF Known
  <2> QED
    BY <2>4, <2>5
<1>3. ASSUME NEW u \in Part, AckAnswer(u)
      PROVE  /\ Known(t) => Known(t)' /\ import'[t].plan = import[t].plan
             /\ import'[t] = import[t] \/ ~IsImporting(t)'
  <2>1. import'[t] = IF t = u THEN [import[t] EXCEPT !.state = "active"] ELSE import[t]
    BY <1>3 DEF AckAnswer, TypeInv
  <2> QED
    BY <2>1 DEF TypeInv, Import, Known, IsImporting
<1>4. ASSUME NEW g \in pages, ApplyPage(g)
      PROVE  /\ Known(t) => Known(t)' /\ import'[t].plan = import[t].plan
             /\ Known(t) /\ IsImporting(t)' => IsImporting(t)
             /\ import'[t] = import[t] \/ g.target = t
  <2>1. /\ IsImporting(g.target) /\ import[g.target].plan = g.plan
        /\ import'[t] = IF t = g.target THEN NextImport(g) ELSE import[t]
    BY <1>4, ApplyEffect
  <2>2. NextImport(g).plan = g.plan /\ NextImport(g).state \in {"importing", "imported"}
    BY DEF NextImport
  <2> QED
    BY <2>1, <2>2 DEF Known, IsImporting
<1>5. \/ UNCHANGED import
      \/ \E pl \in Plan : \E u \in TargetsOf[pl] : InitAsTarget(pl, u)
      \/ \E u \in Part : AckAnswer(u)
      \/ \E g \in pages : ApplyPage(g)
  <2>1. UNCHANGED flowVars => UNCHANGED import
    BY DEF flowVars
  <2>2. ASSUME NEW pl \in Plan, Queue(pl) \/ PlanStep(pl) \/ Cutover(pl) \/ CleanupSourceStep(pl)
        PROVE  UNCHANGED import
    BY <2>2 DEF Queue, PlanStep, Cutover, CleanupSourceStep
  <2>3. ASSUME NEW pl \in Plan, NEW u \in TargetsOf[pl], SendInit(pl, u) \/ InitAnswer(pl, u) \/ AcceptAck(pl, u)
        PROVE  UNCHANGED import
    BY <2>3 DEF SendInit, InitAnswer, AcceptAck
  <2>4. ASSUME NEW u \in Part, ServePage(u)
        PROVE  UNCHANGED import
    BY <2>4 DEF ServePage
  <2> QED
    BY <2>1, <2>2, <2>3, <2>4, FlowSteps
<1>6. IsImporting(t)' /\ import'[t] = import[t] => IsImporting(t)
  BY DEF IsImporting
<1>7. CASE UNCHANGED import
  BY <1>1, <1>7
<1>8. CASE \E pl \in Plan : \E u \in TargetsOf[pl] : InitAsTarget(pl, u)
  BY <1>2, <1>6, <1>8
<1>9. CASE \E u \in Part : AckAnswer(u)
  BY <1>3, <1>6, <1>9
<1>10. CASE \E g \in pages : ApplyPage(g)
  BY <1>4, <1>10
<1> QED
  BY <1>5, <1>7, <1>8, <1>9, <1>10

(* A partition that imports takes its slice from one plan, which asked it. *)
LEMMA TakesFrom ==
  ASSUME TypeInv, FlowInv, NEW t \in Part
  PROVE  /\ IsImporting(t) => Takes(t, import[t].plan) /\ import[t].plan \in Plan
         /\ \A pl \in Plan : Takes(t, pl) => t \in TargetsOf[pl] /\ state[pl] # "none" /\ Known(t)
<1>1. IsImporting(t) => import[t].plan \in Plan
  BY DEF TypeInv, Import, FlowInv, TargetInv, IsImporting
<1>2. ASSUME NEW pl \in Plan, Takes(t, pl)
      PROVE  t \in TargetsOf[pl] /\ state[pl] # "none" /\ Known(t)
  <2>1. <<pl, t>> \in asked
    BY <1>2, Ends DEF FlowInv, TargetInv, Takes
  <2> QED
    BY <1>2, <2>1 DEF FlowInv, CallInv, Takes, IsImporting, Known
<1> QED
  BY <1>1, <1>2 DEF Takes

(* Every step keeps the overrides of a hash child those of its source.     *)
LEMMA AdoptedStep ==
  ASSUME TypeInv, FlowInv, PageInv, [Next]_vars
  PROVE  AdoptedInv'
<1>1. ASSUME NEW t \in Part, NEW g \in pages, ApplyPage(g), g.target = t
      PROVE  Known(t) /\ \A pl \in Plan : Takes(t, pl)' =>
                             adopted'[t] = IF import'[t].stream = "overrides" THEN {} ELSE Overrides(pl, t)'
  <2>1. /\ g.plan \in Plan /\ IsImporting(t) /\ import[t].plan = g.plan /\ import[t].stream = g.stream
        /\ import'[t] = NextImport(g) /\ adopted'[t] = adopted[t] \cup g.hashes
    BY <1>1, ApplyEffect
  <2>2. /\ g.stream \in Stream
        /\ g.stream = "overrides" => g.hashes = Overrides(g.plan, t) /\ g.last
        /\ g.stream # "overrides" => g.hashes = {}
    BY <1>1 DEF PageInv, PageHolds, PageShape, PageContents
  <2>3. /\ NextImport(g).plan = g.plan
        /\ g.stream = "overrides" /\ g.last => NextImport(g).stream = "items"
        /\ g.stream # "overrides" => NextImport(g).stream # "overrides"
    BY <2>2 DEF NextImport, NextStream, Stream
  <2>4. Takes(t, g.plan)
    BY <2>1 DEF Takes
  <2>5. adopted[t] = IF g.stream = "overrides" THEN {} ELSE Overrides(g.plan, t)
    BY <2>1, <2>4 DEF FlowInv, AdoptedInv
  <2>6. Overrides(g.plan, t)' = Overrides(g.plan, t)
    BY <2>1, <2>4, TakesFrom, FrozenSlices
  <2>7. \A pl \in Plan : Takes(t, pl)' => pl = g.plan
    BY <2>1, <2>3 DEF Takes
  <2>8. adopted'[t] = IF import'[t].stream = "overrides" THEN {} ELSE Overrides(g.plan, t)'
    BY <2>1, <2>2, <2>3, <2>5, <2>6
  <2> QED
    BY <2>1, <2>7, <2>8 DEF Known, IsImporting
<1>2. ASSUME NEW t \in Part, ~\E g \in pages : ApplyPage(g) /\ g.target = t
      PROVE  adopted'[t] = adopted[t]
  <2>1. ASSUME NEW g \in pages, ApplyPage(g)
        PROVE  adopted'[t] = adopted[t]
    BY <1>2, <2>1, ApplyEffect
  <2> QED
    BY <2>1, AdoptedFrame
<1>3. ASSUME NEW t \in Part, ~Known(t)'
      PROVE  adopted'[t] = {}
  <2>1. ~Known(t)
    BY <1>3, ImportFrame
  <2>2. ~\E g \in pages : ApplyPage(g) /\ g.target = t
    BY <1>1, <2>1
  <2> QED
    BY <1>2, <2>1, <2>2 DEF FlowInv, AdoptedInv
<1>4. ASSUME NEW t \in Part, NEW pl \in Plan, Takes(t, pl)'
      PROVE  adopted'[t] = IF import'[t].stream = "overrides" THEN {} ELSE Overrides(pl, t)'
  <2>1. CASE \E g \in pages : ApplyPage(g) /\ g.target = t
    BY <1>1, <1>4, <2>1
  <2>2. CASE ~(\E g \in pages : ApplyPage(g) /\ g.target = t)
    <3>1. adopted'[t] = adopted[t]
      BY <1>2, <2>2
    <3>2. CASE import'[t] = import[t]
      <4>1. Takes(t, pl)
        BY <1>4, <3>2 DEF Takes, IsImporting
      <4>2. Overrides(pl, t)' = Overrides(pl, t)
        BY <4>1, TakesFrom, FrozenSlices
      <4>3. adopted[t] = IF import[t].stream = "overrides" THEN {} ELSE Overrides(pl, t)
        BY <4>1 DEF FlowInv, AdoptedInv
      <4> QED
        BY <3>1, <3>2, <4>2, <4>3
    <3>3. CASE import'[t] # import[t]
      <4>1. ~Known(t) /\ import'[t].stream = "overrides"
        BY <1>4, <2>2, <3>3, ImportFrame DEF Takes
      <4> QED
        BY <3>1, <4>1 DEF FlowInv, AdoptedInv
    <3> QED
      BY <3>2, <3>3
  <2> QED
    BY <2>1, <2>2
<1>5. ASSUME NEW t \in Part, t \in Ranges
      PROVE  adopted'[t] = {}
  <2>1. ASSUME NEW g \in pages, ApplyPage(g), g.target = t
        PROVE  adopted'[t] = {}
    <3>1. adopted'[t] = adopted[t] \cup g.hashes
      BY <2>1, ApplyEffect
    <3>2. /\ g.plan \in Plan /\ t \in TargetsOf[g.plan]
          /\ g.hashes = {} \/ g.hashes = Overrides(g.plan, t)
      BY <2>1 DEF PageInv, PageHolds, PageShape
    <3>3. KindOf[g.plan] # "hash_split"
      BY <1>5, <3>2, TopologyAssumption
    <3> QED
      BY <1>5, <3>1, <3>2, <3>3 DEF Overrides, FlowInv, AdoptedInv
  <2> QED
    BY <1>2, <1>5, <2>1 DEF FlowInv, AdoptedInv
<1> QED
  BY <1>3, <1>4, <1>5 DEF AdoptedInv

(* Every step keeps the invariant of the repartition rows, calls and       *)
(* imports, from the types and the pages alone.                            *)
LEMMA FlowStep == TypeInv /\ FlowInv /\ PageInv /\ [Next]_vars => FlowInv'
  BY SourceStep, CallStep, TargetStep, AdoptedStep DEF FlowInv
-----------------------------------------------------------------------------
(***************************************************************************)
(* The data of a slice that moves.                                         *)
(***************************************************************************)
(* Before the cutover of its plan a target owns nothing; then it owns what *)
(* belongs to it.                                                          *)
LEMMA OwnedByTarget ==
  ASSUME TypeInv, FlowInv, NEW t \in Part, NEW pl \in Plan, Takes(t, pl), NEW k \in Key
  PROVE  Owner(t, k) <=> CutOver(pl) /\ BelongsToTarget(pl, t, k)
<1>1. /\ t \in TargetsOf[pl] /\ t # Root /\ Known(t) /\ IsImporting(t) /\ import[t].plan = pl
  BY TakesFrom, Ends DEF Takes
<1>2. ~GivenAway(t, k)
  <2>1. \A q \in Plan : SourceOf[q] = t => state[q] = "none"
    BY <1>1 DEF FlowInv, SourceInv
  <2> QED
    BY <2>1 DEF GivenAway, CutOver
<1>3. Entered(t) <=> CutOver(pl)
  BY <1>1 DEF Entered
<1>4. ASSUME k \in Slice[t]
      PROVE  Withheld(t, k) <=> ~BelongsToTarget(pl, t, k)
  <2>1. HashOf[k] \in HashesOf(Slice[t])
    BY <1>4 DEF HashesOf
  <2>2. adopted[t] \subseteq Overrides(pl, t)
    BY <1>1 DEF FlowInv, AdoptedInv, Takes
  <2>3. HashOf[k] \in adopted[t] => KindOf[pl] = "hash_split" /\ HasTerminalOverride(SourceOf[pl], HashOf[k])
    BY <2>2 DEF Overrides
  <2>4. Inherits(t, k) <=> KindOf[pl] = "hash_split" /\ HasTerminalOverride(SourceOf[pl], HashOf[k])
    BY <1>1 DEF Inherits
  <2> QED
    BY <1>4, <2>3, <2>4 DEF Withheld, BelongsToTarget
<1>5. BelongsToTarget(pl, t, k) => k \in Slice[t]
  BY DEF BelongsToTarget
<1> QED
  BY <1>2, <1>3, <1>4, <1>5, OwnedKeys

(* A plan that is cut over while a target imports is in the cutover state. *)
LEMMA MovingPlan ==
  ASSUME TypeInv, FlowInv, NEW t \in Part, NEW pl \in Plan, Takes(t, pl)
  PROVE  CutOver(pl) <=> state[pl] = "cutover"
  BY TakesFrom DEF FlowInv, CallInv, CutOver, Takes, IsImporting

(* The steps of requests, and stuttering. *)
Request ==
  \/ UNCHANGED vars
  \/ \E p \in Part, k \in Key : PutItem(p, k) \/ DeleteItem(p, k)
  \/ \E t \in Tx : \E decision \in {"committing", "cancelling"} : Decide(t, decision)
  \/ \E t \in Tx, p \in Part : Prepare(t, p) \/ Commit(t, p) \/ Cancel(t, p)
  \/ \E p \in Part, k \in ReadKeys : StartRead(p, k)
  \/ ExecuteLocal

(* The steps: requests, the steps of a plan with its targets, and pages.   *)
LEMMA NextCases ==
  ASSUME [Next]_vars
  PROVE  \/ Request
         \/ \E pl \in Plan : \/ Queue(pl) \/ PlanStep(pl) \/ Cutover(pl) \/ CleanupSourceStep(pl)
                             \/ \E t \in TargetsOf[pl] : SendInit(pl, t) \/ InitAsTarget(pl, t) \/ InitAnswer(pl, t)
                                                         \/ AcceptAck(pl, t)
         \/ \E t \in Part : ServePage(t) \/ AckAnswer(t)
         \/ \E g \in pages : ApplyPage(g)
  BY DEF Next, Request

(* A request writes only keys that one partition serves, and no deletion   *)
(* mark falls.                                                             *)
Touches(p, K) ==
  /\ \A k \in K : Serves(p, k)
  /\ \A q \in Part, k \in Key : (q # p \/ k \notin K) => row'[q][k] = row[q][k] /\ lock'[q][k] = lock[q][k]
  /\ \A k \in Key \ K : seen'[k] = seen[k]
  /\ \A q \in Part : mark'[q] >= mark[q]
  /\ \A k \in K : \/ row'[p][k] = row[p][k] /\ seen'[k] = seen[k]
                  \/ row'[p][k] = NoRow /\ mark'[p] >= seen'[k]
                  \/ row'[p][k].val # 0 /\ row'[p][k].v >= seen'[k]

(* The requests that write or lock touch only keys that the partition      *)
(* executes.                                                               *)
LEMMA Touching ==
  ASSUME TypeInv
  PROVE  /\ \A p \in Part, k \in Key : PutItem(p, k) \/ DeleteItem(p, k) => Touches(p, {k})
         /\ \A t \in Tx, p \in Part : Prepare(t, p) \/ Commit(t, p) \/ Cancel(t, p) =>
              Touches(p, Group(t, p)) /\ Group(t, p) \subseteq Key
<1>1. ASSUME NEW p \in Part, NEW k \in Key, PutItem(p, k)
      PROVE  Touches(p, {k})
  <2>1. Serves(p, k) /\ UNCHANGED <<lock, mark>> /\ Written(p, {k})
    BY <1>1 DEF PutItem
  <2>2. /\ \A q \in Part, j \in Key : (q # p \/ j \notin {k}) => row'[q][j] = row[q][j]
        /\ \A j \in Key \ {k} : seen'[j] = seen[j]
        /\ \A j \in {k} : row'[p][j].val # 0 /\ row'[p][j].v >= seen'[j]
    BY <2>1, Writes
  <2> QED
    BY <2>1, <2>2 DEF TypeInv, Touches
<1>2. ASSUME NEW p \in Part, NEW k \in Key, DeleteItem(p, k)
      PROVE  Touches(p, {k})
  <2>1. /\ \A q \in Part, j \in Key : (q # p \/ j # k) => row'[q][j] = row[q][j]
        /\ \A j \in Key : j # k => seen'[j] = seen[j]
    BY <1>2 DEF DeleteItem, TypeInv
  <2>2. /\ \A q \in Part : mark'[q] >= mark[q]
        /\ row'[p][k] = NoRow /\ mark'[p] >= seen'[k]
    <3>1. row[p][k].v + 1 \in Nat
      BY DEF TypeInv, Row
    <3> QED
      BY <1>2, <3>1 DEF DeleteItem, TypeInv, MaxOf
  <2>3. Serves(p, k) /\ UNCHANGED lock
    BY <1>2 DEF DeleteItem
  <2> QED
    BY <2>1, <2>2, <2>3 DEF Touches
<1>3. ASSUME NEW t \in Tx, NEW p \in Part, Prepare(t, p) \/ Cancel(t, p)
      PROVE  Touches(p, Group(t, p)) /\ Group(t, p) \subseteq Key
  <2>1. Group(t, p) \subseteq Key /\ Owned(t, p) \subseteq Group(t, p) /\ \A k \in Group(t, p) : Serves(p, k)
    BY TxAssumption DEF Group, Owned
  <2>2. \A q \in Part, k \in Key : (q # p \/ k \notin Group(t, p)) => lock'[q][k] = lock[q][k]
    BY <1>3, <2>1, SetLocksType DEF Prepare, Cancel
  <2>3. UNCHANGED <<row, mark, seen>>
    BY <1>3 DEF Prepare, Cancel
  <2> QED
    BY <2>1, <2>2, <2>3 DEF TypeInv, Touches
<1>4. ASSUME NEW t \in Tx, NEW p \in Part, Commit(t, p)
      PROVE  Touches(p, Group(t, p)) /\ Group(t, p) \subseteq Key
  <2>1. /\ Group(t, p) \subseteq Key /\ \A k \in Group(t, p) : Serves(p, k)
        /\ Owned(t, p) = Group(t, p) /\ SetLocks(p, Group(t, p), NoTx) /\ Written(p, Group(t, p)) /\ UNCHANGED mark
    BY <1>4, TxAssumption DEF Group, Commit
  <2>2. \A q \in Part, k \in Key : (q # p \/ k \notin Group(t, p)) => lock'[q][k] = lock[q][k]
    <3>1. \A q \in Part, k \in Key : lock'[q][k] = IF q = p /\ k \in Group(t, p) THEN NoTx ELSE lock[q][k]
      BY <2>1, SetLocksType
    <3> QED
      BY <3>1
  <2>3. /\ \A q \in Part, k \in Key : (q # p \/ k \notin Group(t, p)) => row'[q][k] = row[q][k]
        /\ \A k \in Key \ Group(t, p) : seen'[k] = seen[k]
        /\ \A k \in Group(t, p) : row'[p][k].val # 0 /\ row'[p][k].v >= seen'[k]
    BY <2>1, Writes
  <2> QED
    BY <2>1, <2>2, <2>3 DEF TypeInv, Touches
<1> QED
  BY <1>1, <1>2, <1>3, <1>4

(* Each request touches the keys of one partition, or nothing.             *)
LEMMA Requests ==
  ASSUME TypeInv, Request
  PROVE  \E p \in Part : \E K \in SUBSET Key : Touches(p, K)
<1>1. CASE UNCHANGED <<row, lock, seen, mark>>
  <2>1. Touches(Root, {})
    BY <1>1, PartAssumption DEF TypeInv, Touches
  <2>2. Root \in Part /\ {} \in SUBSET Key
    BY PartAssumption
  <2> QED
    BY <2>1, <2>2
<1>2. ASSUME NEW t \in Tx, NEW decision \in {"committing", "cancelling"}, Decide(t, decision)
      PROVE  UNCHANGED <<row, lock, seen, mark>>
  BY <1>2 DEF Decide, dataVars
<1>3. ASSUME NEW p \in Part, NEW k \in ReadKeys, StartRead(p, k)
      PROVE  UNCHANGED <<row, lock, seen, mark>>
  BY <1>3 DEF StartRead, dataVars
<1>4. ASSUME ExecuteLocal
      PROVE  UNCHANGED <<row, lock, seen, mark>>
  BY <1>4 DEF ExecuteLocal, dataVars
<1>5. UNCHANGED vars => UNCHANGED <<row, lock, seen, mark>>
  BY DEF vars, dataVars
<1>6. CASE UNCHANGED <<row, lock, seen, mark>>
  BY <1>1, <1>6
<1>7. CASE \E p \in Part, k \in Key : PutItem(p, k) \/ DeleteItem(p, k)
  <2>1. PICK p \in Part, k \in Key : PutItem(p, k) \/ DeleteItem(p, k)
    BY <1>7
  <2>2. Touches(p, {k}) /\ {k} \in SUBSET Key
    BY <2>1, Touching
  <2> QED
    BY <2>2
<1>8. CASE \E t \in Tx, p \in Part : Prepare(t, p) \/ Commit(t, p) \/ Cancel(t, p)
  BY <1>8, Touching
<1> QED
  BY <1>2, <1>3, <1>4, <1>5, <1>6, <1>7, <1>8 DEF Request
(* A cleanup drops no copy that a target still needs. *)
LEMMA CleanedKeys ==
  ASSUME TypeInv, FlowInv, NEW q \in Plan, state[q] = "completed",
         NEW t \in Part, NEW pl \in Plan, Takes(t, pl), CutOver(pl), SourceOf[pl] = SourceOf[q],
         NEW k \in Key, BelongsToTarget(pl, t, k)
  PROVE  ~IsSplit(q) /\ k \notin CopiesOf(q)
<1>1. t \in TargetsOf[pl] /\ state[pl] = "cutover" /\ pl # q
  BY TakesFrom, MovingPlan
<1>2. k \in Slice[t] /\ k \in Slice[SourceOf[pl]] /\ k \in Moving[pl]
  BY <1>1, MovingKeys DEF BelongsToTarget
<1>3. ~IsSplit(q)
  <2>1. CASE IsSplit(pl)
    BY <1>1, <2>1, TopologyAssumption
  <2>2. CASE ~IsSplit(pl)
    BY <1>1, <2>2 DEF FlowInv, SourceInv, Unfinished
  <2> QED
    BY <2>1, <2>2
<1>4. HashOf[k] \notin MovingHashes[q]
  <2>1. SUFFICES ASSUME HashOf[k] \in MovingHashes[q]
                 PROVE  FALSE
    OBVIOUS
  <2>2. CASE IsSplit(pl)
    <3>1. KindOf[pl] = "hash_split"
      BY <1>3, <2>2, PromotedKeys, SplitKinds
    <3>2. HasTerminalOverride(SourceOf[pl], HashOf[k])
      BY <1>3, <2>1, Ends DEF HasTerminalOverride, Promoted, Promotions
    <3> QED
      BY <3>1, <3>2 DEF BelongsToTarget
  <2>3. CASE ~IsSplit(pl)
    <3>1. HashOf[k] \in MovingHashes[pl]
      BY <1>2, <2>3, PromotedKeys
    <3>2. HashOf[k] \in Hash
      BY KeyAssumption
    <3> QED
      BY <1>1, <1>3, <2>1, <2>3, <3>1, <3>2, PromotedKeys
  <2> QED
    BY <2>2, <2>3
<1> QED
  BY <1>3, <1>4 DEF CopiesOf

(* While a target imports, its slice does not change at the source.        *)
LEMMA SliceStands ==
  ASSUME TypeInv, FlowInv, PageInv, OwnerInv, [Next]_vars,
         NEW t \in Part, NEW pl \in Plan, Takes(t, pl), CutOver(pl),
         NEW k \in Key, BelongsToTarget(pl, t, k)
  PROVE  LET s == SourceOf[pl]
         IN  /\ row'[s][k] = row[s][k] /\ lock'[s][k] = lock[s][k] /\ seen'[k] = seen[k]
             /\ mark'[s] >= mark[s]
<1> DEFINE s == SourceOf[pl]
<1>1. s \in Part /\ t \in TargetsOf[pl] /\ state[pl] # "none" /\ ~IsImporting(s)
  BY TakesFrom, Ends DEF FlowInv, SourceInv
<1>2. Owner(t, k) /\ IsImporting(t)
  BY OwnedByTarget DEF Takes
<1>3. CASE Request
  <2>1. PICK p \in Part, K \in SUBSET Key : Touches(p, K)
    BY <1>3, Requests
  <2>2. k \notin K
    <3>1. SUFFICES ASSUME Serves(p, k)
                   PROVE  FALSE
      BY <2>1 DEF Touches
    <3>2. Owner(p, k) /\ ~IsImporting(p)
      BY <3>1, ServedKeys
    <3> QED
      BY <1>2, <3>2 DEF OwnerInv
  <2> QED
    BY <1>1, <2>1, <2>2 DEF Touches
<1>4. CASE UNCHANGED <<row, lock, seen, mark>>
  BY <1>1, <1>4 DEF TypeInv
<1>5. ASSUME NEW q \in Plan, CleanupSourceStep(q)
      PROVE  row'[s][k] = row[s][k] /\ lock'[s][k] = lock[s][k] /\ UNCHANGED <<seen, mark>>
  <2>1. /\ state[q] = "completed"
        /\ s # SourceOf[q] \/ k \notin CopiesOf(q) => row'[s][k] = row[s][k] /\ lock'[s][k] = lock[s][k]
    BY <1>1, <1>5, CleanupEffect
  <2>2. UNCHANGED <<seen, mark>>
    BY <1>5 DEF CleanupSourceStep
  <2> QED
    BY <2>1, <2>2, CleanedKeys
<1>6. ASSUME NEW g \in pages, ApplyPage(g)
      PROVE  row'[s][k] = row[s][k] /\ lock'[s][k] = lock[s][k] /\ UNCHANGED seen /\ mark'[s] = mark[s]
  <2>1. IsImporting(g.target) /\ (s # g.target => row'[s][k] = row[s][k] /\ lock'[s][k] = lock[s][k] /\ mark'[s] = mark[s])
    BY <1>1, <1>6, ApplyEffect, ZenonT(60)
  <2>2. UNCHANGED seen
    BY <1>6 DEF ApplyPage
  <2> QED
    BY <1>1, <2>1, <2>2
<1>7. ASSUME NEW q \in Plan, Queue(q) \/ PlanStep(q) \/ Cutover(q)
      PROVE  UNCHANGED <<row, lock, seen, mark>>
  BY <1>7 DEF Queue, PlanStep, Cutover, dataVars
<1>8. ASSUME NEW q \in Plan, NEW u \in TargetsOf[q],
             SendInit(q, u) \/ InitAsTarget(q, u) \/ InitAnswer(q, u) \/ AcceptAck(q, u)
      PROVE  UNCHANGED <<row, lock, seen, mark>>
  BY <1>8 DEF SendInit, InitAsTarget, InitAnswer, AcceptAck, dataVars
<1>9. ASSUME NEW u \in Part, ServePage(u)
      PROVE  UNCHANGED <<row, lock, seen, mark>>
  BY <1>9 DEF ServePage, dataVars
<1>10. ASSUME NEW u \in Part, AckAnswer(u)
      PROVE  UNCHANGED <<row, lock, seen, mark>>
  BY <1>10 DEF AckAnswer, dataVars
<1>11. mark[s] \in Nat
  BY <1>1 DEF TypeInv
<1> QED
  BY <1>3, <1>4, <1>5, <1>6, <1>7, <1>8, <1>9, <1>10, <1>11, NextCases

(* A target of a plan that is cut over imports by that plan, or did.       *)
LEMMA EnteredTarget ==
  ASSUME TypeInv, FlowInv, NEW pl \in Plan, CutOver(pl), NEW t \in TargetsOf[pl]
  PROVE  t \in Part /\ Known(t) /\ import[t].plan = pl
<1>1. t \in Part /\ import[t].plan = pl /\ pl # NoPlan
  BY Ends DEF FlowInv, CallInv
<1>2. import[t].state # "none"
  BY <1>1 DEF FlowInv, TargetInv
<1> QED
  BY <1>1, <1>2 DEF Known

(* What a served page says stays true. *)
LEMMA PageStays ==
  ASSUME TypeInv, FlowInv, PageInv, OwnerInv, [Next]_vars, NEW g, PageHolds(g)
  PROVE  PageHolds(g)'
<1>1. PICK pl \in Plan : pl = g.plan
  BY DEF PageHolds, PageShape
<1>2. PICK t \in TargetsOf[pl] : t = g.target
  BY <1>1 DEF PageHolds, PageShape
<1>3. CutOver(pl) /\ state[pl] # "none"
  BY <1>1 DEF PageHolds, CutOver
<1>4. t \in Part /\ Known(t) /\ import[t].plan = pl
  BY <1>3, EnteredTarget
<1>5. CutOver(pl)'
  BY <1>3, CutOverStays
<1>6. /\ Overrides(pl, t)' = Overrides(pl, t)
      /\ \A k \in Key : BelongsToTarget(pl, t, k)' <=> BelongsToTarget(pl, t, k)
      /\ After(pl, t, g.to)' = After(pl, t, g.to) /\ Covered(pl, t, g.at, g.to)' = Covered(pl, t, g.at, g.to)
  BY <1>3, FrozenSlices
<1>7. ASSUME g.stream # "overrides", IsImporting(t)'
      PROVE  PageContents(g, pl, t, SourceOf[pl])'
  <2>1. Takes(t, pl)
    BY <1>4, <1>7, ImportFrame DEF Takes
  <2>2. PageContents(g, pl, t, SourceOf[pl])
    BY <1>1, <1>2, <1>7, <2>1 DEF PageHolds, Takes
  <2>3. \A k \in Key : BelongsToTarget(pl, t, k) =>
            /\ row'[SourceOf[pl]][k] = row[SourceOf[pl]][k] /\ lock'[SourceOf[pl]][k] = lock[SourceOf[pl]][k]
            /\ seen'[k] = seen[k]
    BY <1>3, <1>4, <2>1, SliceStands
  <2>4. \A k \in Covered(pl, t, g.at, g.to) : k \in Key /\ BelongsToTarget(pl, t, k)
    BY DEF Covered, After
  <2> QED
    BY <1>6, <2>2, <2>3, <2>4 DEF PageContents
<1> QED
  BY <1>1, <1>2, <1>5, <1>6, <1>7 DEF PageHolds, PageShape

(* A page that a cut-over source serves holds.                             *)
LEMMA NewPage ==
  ASSUME TypeInv, FlowInv, RevisionInv, NEW t \in Part, NEW pl \in Plan, Takes(t, pl), CutOver(pl),
         NEW at \in Nat, NEW to \in Key \cup {at}, Fits(pl, t, at, to),
         NEW stream \in {"items", "locks"}, NEW data, NEW m \in Nat,
         stream = "items" => data = row[SourceOf[pl]],
         stream = "locks" => data = lock[SourceOf[pl]] /\ m = mark[SourceOf[pl]]
  PROVE  PageHolds(KeyPage(pl, t, stream, at, to, data, m))
<1>1. PICK g : g = KeyPage(pl, t, stream, at, to, data, m)
  OBVIOUS
<1>2. /\ g.plan = pl /\ g.target = t /\ g.stream = stream /\ g.at = at /\ g.to = to /\ g.mark = m
      /\ g.last = (After(pl, t, to) = {}) /\ g.hashes = {}
      /\ g.rows = [k \in Covered(pl, t, at, to) |-> data[k]]
  BY <1>1 DEF KeyPage
<1>3. t \in TargetsOf[pl]
  BY TakesFrom
<1>4. to \in Nat /\ at <= to
  <2>1. \A k \in Key : k \in Nat
    BY KeyAssumption
  <2>2. to = at \/ to \in After(pl, t, at)
    BY DEF Fits
  <2> QED
    BY <2>1, <2>2 DEF After
<1>5. ASSUME NEW k \in Key, BelongsToTarget(pl, t, k), row[SourceOf[pl]][k] = NoRow
      PROVE  mark[SourceOf[pl]] >= seen[k]
  <2>1. Owner(t, k) /\ DataAt(t) = SourceOf[pl]
    BY <1>5, OwnedByTarget DEF DataAt, Takes
  <2>2. RevisionAt(SourceOf[pl], k) >= seen[k]
    BY <2>1 DEF RevisionInv
  <2> QED
    BY <1>5, <2>2 DEF RevisionAt
<1>6. PageShape(g)
  BY <1>2, <1>3, <1>4 DEF PageShape, Stream
<1>7. PageContents(g, pl, t, SourceOf[pl])
  <2>1. (g.last <=> After(pl, t, g.to) = {}) /\ DOMAIN g.rows = Covered(pl, t, g.at, g.to)
    BY <1>2
  <2>2. \A k \in DOMAIN g.rows : g.rows[k] = data[k]
    BY <1>2
  <2>3. g.stream = "items" => \A k \in DOMAIN g.rows : g.rows[k] = row[SourceOf[pl]][k]
    BY <1>2, <2>2
  <2>4. g.stream = "locks" =>
          /\ \A k \in DOMAIN g.rows : g.rows[k] = lock[SourceOf[pl]][k]
          /\ \A k \in Key : (BelongsToTarget(pl, t, k) /\ row[SourceOf[pl]][k] = NoRow) => g.mark >= seen[k]
    BY <1>2, <1>5, <2>2
  <2> QED
    BY <2>1, <2>3, <2>4 DEF PageContents
<1>8. g.stream # "overrides" /\ CutOver(g.plan) /\ g.plan = pl /\ g.target = t
  BY <1>2
<1>9. PageHolds(g)
  BY <1>6, <1>7, <1>8 DEF PageHolds
<1> QED
  BY <1>1, <1>9

(* Every step keeps the pages that were served true.                       *)
LEMMA PageStep ==
  ASSUME TypeInv, FlowInv, PageInv, OwnerInv, RevisionInv, [Next]_vars
  PROVE  PageInv'
<1>1. CASE pages' = pages
  BY <1>1, PageStays DEF PageInv
<1>2. ASSUME NEW t \in Part, ServePage(t)
      PROVE  PageInv'
  <2>1. PICK pl \in Plan : pl = import[t].plan
    BY <1>2, TakesFrom DEF ServePage
  <2>2. Takes(t, pl) /\ t \in TargetsOf[pl] /\ CutOver(pl) /\ mark[SourceOf[pl]] \in Nat
    BY <1>2, <2>1, TakesFrom, Ends DEF ServePage, GivesPages, CutOver, TypeInv, Takes
  <2>3. PICK at \in Nat : at = import[t].at
    BY DEF TypeInv, Import
  <2>4. \/ pages' = pages \cup {OverridesPage(pl, t)}
        \/ \E to \in Key \cup {at} :
             /\ Fits(pl, t, at, to)
             /\ \/ pages' = pages \cup {KeyPage(pl, t, "items", at, to, row[SourceOf[pl]], 0)}
                \/ pages' = pages \cup {KeyPage(pl, t, "locks", at, to, lock[SourceOf[pl]], mark[SourceOf[pl]])}
    BY <1>2, <2>1, <2>3 DEF ServePage
  <2>5. PageHolds(OverridesPage(pl, t))
    <3>1. PICK g : g = OverridesPage(pl, t)
      OBVIOUS
    <3>2. /\ g.plan = pl /\ g.target = t /\ g.stream = "overrides" /\ g.at = 0 /\ g.to = 0 /\ g.mark = 0
          /\ g.last = TRUE /\ g.hashes = Overrides(pl, t)
      BY <3>1 DEF OverridesPage, Overrides
    <3>3. PageShape(g)
      <4>1. g.stream = "overrides" /\ g.last /\ g.last \in BOOLEAN
        BY <3>2, Zenon
      <4>2. g.plan \in Plan /\ g.target \in TargetsOf[g.plan] /\ g.at \in Nat /\ g.to \in Nat /\ g.mark \in Nat
        BY <2>2, <3>2
      <4> QED
        BY <4>1, <4>2 DEF PageShape, Stream
    <3>4. PageHolds(g)
      <4>1. g.stream = "overrides" /\ g.hashes = Overrides(g.plan, g.target) /\ CutOver(g.plan)
        BY <2>2, <3>2
      <4> QED
        BY <3>3, <4>1 DEF PageHolds
    <3> QED
      BY <3>1, <3>4
  <2>6. \A to \in Key \cup {at} : Fits(pl, t, at, to) =>
          /\ PageHolds(KeyPage(pl, t, "items", at, to, row[SourceOf[pl]], 0))
          /\ PageHolds(KeyPage(pl, t, "locks", at, to, lock[SourceOf[pl]], mark[SourceOf[pl]]))
    BY <2>2, NewPage
  <2>7. \E g : PageHolds(g) /\ pages' = pages \cup {g}
    BY <2>4, <2>5, <2>6
  <2>8. PICK g : PageHolds(g) /\ pages' = pages \cup {g}
    BY <2>7
  <2> QED
    BY <2>8, PageStays DEF PageInv
<1>3. \/ pages' = pages
      \/ \E t \in Part : ServePage(t)
  <2>1. UNCHANGED flowVars => pages' = pages
    BY DEF flowVars
  <2>2. ASSUME NEW pl \in Plan, Queue(pl) \/ PlanStep(pl) \/ Cutover(pl) \/ CleanupSourceStep(pl)
        PROVE  pages' = pages
    BY <2>2 DEF Queue, PlanStep, Cutover, CleanupSourceStep
  <2>3. ASSUME NEW pl \in Plan, NEW t \in TargetsOf[pl],
               SendInit(pl, t) \/ InitAsTarget(pl, t) \/ InitAnswer(pl, t) \/ AcceptAck(pl, t)
        PROVE  pages' = pages
    BY <2>3 DEF SendInit, InitAsTarget, InitAnswer, AcceptAck
  <2>4. ASSUME NEW t \in Part, AckAnswer(t)
        PROVE  pages' = pages
    BY <2>4 DEF AckAnswer
  <2>5. ASSUME NEW g \in pages, ApplyPage(g)
        PROVE  pages' = pages
    BY <2>5 DEF ApplyPage
  <2> QED
    BY <2>1, <2>2, <2>3, <2>4, <2>5, FlowSteps
<1> QED
  BY <1>1, <1>2, <1>3
-----------------------------------------------------------------------------
(***************************************************************************)
(* The copies of the targets.                                              *)
(***************************************************************************)
(* Only pages change the data of a partition that serves nothing.          *)
LEMMA CopyFrame ==
  ASSUME TypeInv, FlowInv, PageInv, [Next]_vars, NEW t \in Part, ~Known(t) \/ IsImporting(t),
         ~\E g \in pages : ApplyPage(g) /\ g.target = t
  PROVE  \A k \in Key : row'[t][k] = row[t][k] /\ lock'[t][k] = lock[t][k]
<1>1. CASE Request
  <2>1. PICK p \in Part, K \in SUBSET Key : Touches(p, K)
    BY <1>1, Requests
  <2>2. ~(p = t /\ \E k \in K : TRUE)
    BY <2>1 DEF Touches, Serves
  <2> QED
    BY <2>1, <2>2 DEF Touches
<1>2. CASE UNCHANGED <<row, lock>>
  BY <1>2
<1>3. ASSUME NEW q \in Plan, CleanupSourceStep(q)
      PROVE  \A k \in Key : row'[t][k] = row[t][k] /\ lock'[t][k] = lock[t][k]
  <2>1. /\ state[q] = "completed"
        /\ \A p \in Part, k \in Key : p # SourceOf[q] => row'[p][k] = row[p][k] /\ lock'[p][k] = lock[p][k]
    BY <1>3, CleanupEffect
  <2>2. t # SourceOf[q]
    BY <2>1 DEF FlowInv, SourceInv
  <2> QED
    BY <2>1, <2>2
<1>4. ASSUME NEW g \in pages, ApplyPage(g)
      PROVE  \A k \in Key : row'[t][k] = row[t][k] /\ lock'[t][k] = lock[t][k]
  <2>1. t # g.target
    BY <1>4
  <2>2. LET u == g.target
            s == SourceOf[g.plan]
        IN  \A q \in Part, k \in Key :
              /\ row'[q][k] = IF q = u /\ g.stream = "items" /\ k \in Covered(g.plan, u, g.at, g.to) /\ row[u][k] = NoRow
                              THEN row[s][k] ELSE row[q][k]
              /\ lock'[q][k] = IF q = u /\ g.stream = "locks" /\ k \in Covered(g.plan, u, g.at, g.to) /\ lock[u][k] = NoTx
                               THEN lock[s][k] ELSE lock[q][k]
    BY <1>4, ApplyEffect
  <2> QED
    BY <2>1, <2>2
<1>5. ASSUME NEW q \in Plan, Queue(q) \/ PlanStep(q) \/ Cutover(q)
      PROVE  UNCHANGED <<row, lock>>
  BY <1>5 DEF Queue, PlanStep, Cutover, dataVars
<1>6. ASSUME NEW q \in Plan, NEW u \in TargetsOf[q],
             SendInit(q, u) \/ InitAsTarget(q, u) \/ InitAnswer(q, u) \/ AcceptAck(q, u)
      PROVE  UNCHANGED <<row, lock>>
  BY <1>6 DEF SendInit, InitAsTarget, InitAnswer, AcceptAck, dataVars
<1>7. ASSUME NEW u \in Part, ServePage(u) \/ AckAnswer(u)
      PROVE  UNCHANGED <<row, lock>>
  BY <1>7 DEF ServePage, AckAnswer, dataVars
<1> QED
  BY <1>1, <1>2, <1>3, <1>4, <1>5, <1>6, <1>7, NextCases

(* What a target has copied when it has applied a page.                    *)
LEMMA CopyApplied ==
  ASSUME TypeInv, FlowInv, PageInv, CopyInv, NEW g \in pages, ApplyPage(g),
         NEW t \in Part, g.target = t, NEW pl \in Plan, Takes(t, pl)', NEW k \in Key
  PROVE  /\ row'[t][k] = IF BelongsToTarget(pl, t, k) /\ (import'[t].stream = "locks"
                                                        \/ (import'[t].stream = "items" /\ k <= import'[t].at))
                         THEN row[SourceOf[pl]][k] ELSE NoRow
         /\ lock'[t][k] = IF BelongsToTarget(pl, t, k) /\ import'[t].stream = "locks" /\ k <= import'[t].at
                          THEN lock[SourceOf[pl]][k] ELSE NoTx
<1>1. /\ g.plan \in Plan /\ IsImporting(t) /\ import[t].plan = g.plan /\ import[t].stream = g.stream
      /\ import[t].at = g.at /\ import'[t] = NextImport(g)
      /\ row'[t][k] = IF g.stream = "items" /\ k \in Covered(g.plan, t, g.at, g.to) /\ row[t][k] = NoRow
                      THEN row[SourceOf[g.plan]][k] ELSE row[t][k]
      /\ lock'[t][k] = IF g.stream = "locks" /\ k \in Covered(g.plan, t, g.at, g.to) /\ lock[t][k] = NoTx
                       THEN lock[SourceOf[g.plan]][k] ELSE lock[t][k]
  <2>1. LET u == g.target
        IN  /\ g.plan \in Plan /\ u \in Part /\ IsImporting(u) /\ import[u].plan = g.plan /\ import[u].stream = g.stream
            /\ import[u].at = g.at
            /\ \A q \in Part : import'[q] = IF q = u THEN NextImport(g) ELSE import[q]
            /\ \A q \in Part, j \in Key :
                 /\ row'[q][j] = IF q = u /\ g.stream = "items" /\ j \in Covered(g.plan, u, g.at, g.to) /\ row[u][j] = NoRow
                                 THEN row[SourceOf[g.plan]][j] ELSE row[q][j]
                 /\ lock'[q][j] = IF q = u /\ g.stream = "locks" /\ j \in Covered(g.plan, u, g.at, g.to) /\ lock[u][j] = NoTx
                                  THEN lock[SourceOf[g.plan]][j] ELSE lock[q][j]
    BY ApplyEffect
  <2> QED
    BY <2>1
<1>2. NextImport(g).plan = g.plan
  BY DEF NextImport
<1>3. g.plan = pl /\ IsImporting(t)' /\ Takes(t, pl)
  BY <1>1, <1>2 DEF Takes
<1>4. /\ g.stream \in Stream /\ g.at \in Nat /\ g.to \in Nat /\ (g.stream = "overrides" => g.last)
      /\ g.stream # "overrides" => g.at <= g.to /\ (g.last => After(pl, t, g.to) = {})
  BY <1>1, <1>3 DEF PageInv, PageHolds, PageShape, PageContents
<1>5. /\ row[t][k] = IF ItemCopied(pl, t, k) THEN row[SourceOf[pl]][k] ELSE NoRow
      /\ lock[t][k] = IF LockCopied(pl, t, k) THEN lock[SourceOf[pl]][k] ELSE NoTx
  BY <1>3 DEF CopyInv
<1>6. k \in Nat /\ k > 0
  BY KeyAssumption
<1>7. \A at \in Nat : k \in After(pl, t, at) <=> BelongsToTarget(pl, t, k) /\ k > at
  BY DEF After
<1>8. k \in Covered(pl, t, g.at, g.to) <=> BelongsToTarget(pl, t, k) /\ k > g.at /\ k <= g.to
  BY <1>4, <1>7 DEF Covered
<1>9. CASE g.stream = "overrides"
  <2>1. import'[t].stream = "items" /\ import'[t].at = 0
    BY <1>1, <1>4, <1>9 DEF NextImport, NextStream
  <2> QED
    BY <1>1, <1>3, <1>5, <1>6, <1>9, <2>1 DEF ItemCopied, LockCopied
<1>10. CASE g.stream = "items" /\ ~g.last
  <2>1. import'[t].stream = "items" /\ import'[t].at = g.to
    BY <1>1, <1>10 DEF NextImport
  <2> QED
    BY <1>1, <1>3, <1>4, <1>5, <1>6, <1>8, <1>10, <2>1 DEF ItemCopied, LockCopied
<1>11. CASE g.stream = "items" /\ g.last
  <2>1. import'[t].stream = "locks" /\ import'[t].at = 0
    BY <1>1, <1>11 DEF NextImport, NextStream
  <2>2. BelongsToTarget(pl, t, k) => k <= g.to
    BY <1>4, <1>6, <1>7, <1>11
  <2> QED
    BY <1>1, <1>3, <1>4, <1>5, <1>6, <1>8, <1>11, <2>1, <2>2 DEF ItemCopied, LockCopied
<1>12. CASE g.stream = "locks"
  <2>1. ~g.last
    BY <1>1, <1>3, <1>12 DEF NextImport, IsImporting
  <2>2. import'[t].stream = "locks" /\ import'[t].at = g.to
    BY <1>1, <1>12, <2>1 DEF NextImport
  <2> QED
    BY <1>1, <1>3, <1>4, <1>5, <1>6, <1>8, <1>12, <2>2 DEF ItemCopied, LockCopied
<1> QED
  BY <1>4, <1>9, <1>10, <1>11, <1>12 DEF Stream

(* The copies of the targets stay true. *)
LEMMA CopyStep ==
  ASSUME TypeInv, FlowInv, PageInv, CopyInv, OwnerInv, [Next]_vars
  PROVE  CopyInv'
<1>1. ASSUME NEW t \in Part, ~Known(t)', NEW k \in Key
      PROVE  row'[t][k] = NoRow /\ lock'[t][k] = NoTx
  <2>1. ~Known(t)
    BY <1>1, ImportFrame
  <2>2. ~\E g \in pages : ApplyPage(g) /\ g.target = t
    BY <2>1, ApplyEffect DEF Known, IsImporting
  <2> QED
    BY <2>1, <2>2, CopyFrame DEF CopyInv
<1>2. ASSUME NEW t \in Part, NEW pl \in Plan, Takes(t, pl)', NEW k \in Key
      PROVE  /\ row'[t][k] = IF ItemCopied(pl, t, k)' THEN row'[SourceOf[pl]][k] ELSE NoRow
             /\ lock'[t][k] = IF LockCopied(pl, t, k)' THEN lock'[SourceOf[pl]][k] ELSE NoTx
  <2>1. ASSUME NEW g \in pages, ApplyPage(g), g.target = t
        PROVE  /\ row'[t][k] = IF ItemCopied(pl, t, k)' THEN row'[SourceOf[pl]][k] ELSE NoRow
               /\ lock'[t][k] = IF LockCopied(pl, t, k)' THEN lock'[SourceOf[pl]][k] ELSE NoTx
    <3>1. IsImporting(t) /\ import[t].plan = g.plan /\ import'[t] = NextImport(g)
      BY <2>1, ApplyEffect
    <3>2. g.plan = pl
      BY <1>2, <3>1 DEF Takes, NextImport
    <3>3. Takes(t, pl) /\ CutOver(pl)
      BY <2>1, <3>1, <3>2 DEF Takes, PageInv, PageHolds
    <3>4. BelongsToTarget(pl, t, k)' <=> BelongsToTarget(pl, t, k)
      BY <3>3, TakesFrom, FrozenSlices
    <3>5. BelongsToTarget(pl, t, k) => row'[SourceOf[pl]][k] = row[SourceOf[pl]][k] /\ lock'[SourceOf[pl]][k] = lock[SourceOf[pl]][k]
      BY <3>3, SliceStands
    <3>6. /\ row'[t][k] = IF BelongsToTarget(pl, t, k) /\ (import'[t].stream = "locks"
                                                        \/ (import'[t].stream = "items" /\ k <= import'[t].at))
                         THEN row[SourceOf[pl]][k] ELSE NoRow
          /\ lock'[t][k] = IF BelongsToTarget(pl, t, k) /\ import'[t].stream = "locks" /\ k <= import'[t].at
                          THEN lock[SourceOf[pl]][k] ELSE NoTx
      BY <1>2, <2>1, CopyApplied
    <3> QED
      BY <3>4, <3>5, <3>6 DEF ItemCopied, LockCopied
  <2>2. ASSUME ~\E g \in pages : ApplyPage(g) /\ g.target = t, import'[t] = import[t]
        PROVE  /\ row'[t][k] = IF ItemCopied(pl, t, k)' THEN row'[SourceOf[pl]][k] ELSE NoRow
               /\ lock'[t][k] = IF LockCopied(pl, t, k)' THEN lock'[SourceOf[pl]][k] ELSE NoTx
    <3>1. Takes(t, pl)
      BY <1>2, <2>2 DEF Takes, IsImporting
    <3>2. BelongsToTarget(pl, t, k)' <=> BelongsToTarget(pl, t, k)
      BY <3>1, TakesFrom, FrozenSlices
    <3>3. row'[t][k] = row[t][k] /\ lock'[t][k] = lock[t][k]
      BY <2>2, <3>1, CopyFrame DEF Takes
    <3>4. /\ row[t][k] = IF ItemCopied(pl, t, k) THEN row[SourceOf[pl]][k] ELSE NoRow
          /\ lock[t][k] = IF LockCopied(pl, t, k) THEN lock[SourceOf[pl]][k] ELSE NoTx
      BY <3>1 DEF CopyInv
    <3>5. import[t].stream # "overrides" => CutOver(pl)
      BY <3>1 DEF FlowInv, TargetInv, Takes, IsImporting
    <3>6. BelongsToTarget(pl, t, k) /\ import[t].stream # "overrides" =>
            row'[SourceOf[pl]][k] = row[SourceOf[pl]][k] /\ lock'[SourceOf[pl]][k] = lock[SourceOf[pl]][k]
      BY <3>1, <3>5, SliceStands
    <3> QED
      BY <2>2, <3>2, <3>3, <3>4, <3>6 DEF ItemCopied, LockCopied
  <2>3. ASSUME ~\E g \in pages : ApplyPage(g) /\ g.target = t, ~Known(t), import'[t].stream = "overrides"
        PROVE  /\ row'[t][k] = IF ItemCopied(pl, t, k)' THEN row'[SourceOf[pl]][k] ELSE NoRow
               /\ lock'[t][k] = IF LockCopied(pl, t, k)' THEN lock'[SourceOf[pl]][k] ELSE NoTx
    BY <2>3, CopyFrame DEF CopyInv, ItemCopied, LockCopied
  <2> QED
    BY <1>2, <2>1, <2>2, <2>3, ImportFrame DEF Takes
<1> QED
  BY <1>1, <1>2 DEF CopyInv
-----------------------------------------------------------------------------
(***************************************************************************)
(* Ownership does not change but by a cutover.                             *)
(***************************************************************************)
(* A target that imports by a hash split withholds the keys that its       *)
(* source promoted.                                                        *)
LEMMA TargetWithholds ==
  ASSUME TypeInv, FlowInv, NEW t \in Part, NEW pl \in Plan, Takes(t, pl), NEW k \in Key, k \in Slice[t]
  PROVE  Withheld(t, k) <=> KindOf[pl] = "hash_split" /\ HasTerminalOverride(SourceOf[pl], HashOf[k])
<1>1. HashOf[k] \in HashesOf(Slice[t])
  BY DEF HashesOf
<1>2. adopted[t] \subseteq Overrides(pl, t)
  BY DEF FlowInv, AdoptedInv
<1>3. HashOf[k] \in adopted[t] => KindOf[pl] = "hash_split" /\ HasTerminalOverride(SourceOf[pl], HashOf[k])
  BY <1>2 DEF Overrides
<1>4. Inherits(t, k) <=> KindOf[pl] = "hash_split" /\ HasTerminalOverride(SourceOf[pl], HashOf[k])
  BY DEF Inherits, Takes
<1> QED
  BY <1>3, <1>4 DEF Withheld

(* Only a page ends the import of a target that still imports.             *)
LEMMA EndsImport ==
  ASSUME TypeInv, FlowInv, PageInv, [Next]_vars, NEW p \in Part, NEW pl \in Plan, Takes(p, pl), ~IsImporting(p)'
  PROVE  \E g \in pages : ApplyPage(g) /\ g.target = p
<1>1. ~(import'[p] = import[p])
  BY DEF IsImporting, Takes
<1>2. ASSUME NEW u \in Part, AckAnswer(u)
      PROVE  import'[p] = import[p]
  BY <1>2 DEF AckAnswer, TypeInv, IsImporting, Takes
<1>3. ASSUME NEW q \in Plan, NEW u \in TargetsOf[q], InitAsTarget(q, u)
      PROVE  import'[p] = import[p]
  BY <1>3, Ends DEF InitAsTarget, TypeInv, IsImporting, Takes
<1>4. ASSUME NEW g \in pages, ApplyPage(g), g.target # p
      PROVE  import'[p] = import[p]
  BY <1>4, ApplyEffect
<1>5. UNCHANGED flowVars => UNCHANGED import
  BY DEF flowVars
<1>6. ASSUME NEW q \in Plan, Queue(q) \/ PlanStep(q) \/ Cutover(q) \/ CleanupSourceStep(q)
      PROVE  UNCHANGED import
  BY <1>6 DEF Queue, PlanStep, Cutover, CleanupSourceStep
<1>7. ASSUME NEW q \in Plan, NEW u \in TargetsOf[q], SendInit(q, u) \/ InitAnswer(q, u) \/ AcceptAck(q, u)
      PROVE  UNCHANGED import
  BY <1>7 DEF SendInit, InitAnswer, AcceptAck
<1>8. ASSUME NEW u \in Part, ServePage(u)
      PROVE  UNCHANGED import
  BY <1>8 DEF ServePage
<1> QED
  BY <1>1, <1>2, <1>3, <1>4, <1>5, <1>6, <1>7, <1>8, FlowSteps

(* What a partition withholds never changes, also not when it takes over   *)
(* the overrides or ends its import.                                       *)
LEMMA WithheldStands ==
  ASSUME TypeInv, FlowInv, PageInv, [Next]_vars, NEW p \in Part, Known(p), NEW k \in Key, k \in Slice[p]
  PROVE  Withheld(p, k)' <=> Withheld(p, k)
<1>1. HashOf[k] \in HashesOf(Slice[p]) /\ HashOf[k] \in Hash
  BY KeyAssumption DEF HashesOf
<1>2. ASSUME NEW pl \in Plan, Takes(p, pl)
      PROVE  Withheld(p, k)' <=> Withheld(p, k)
  <2>1. Withheld(p, k) <=> KindOf[pl] = "hash_split" /\ HasTerminalOverride(SourceOf[pl], HashOf[k])
    BY <1>2, TargetWithholds
  <2>2. p \in TargetsOf[pl] /\ state[pl] # "none" /\ IsImporting(p) /\ import[p].plan = pl /\ import'[p].plan = pl
    BY <1>2, TakesFrom, ImportFrame DEF Takes
  <2>3. KindOf[pl] = "hash_split" =>
          (HasTerminalOverride(SourceOf[pl], HashOf[k])' <=> HasTerminalOverride(SourceOf[pl], HashOf[k]))
    BY <1>1, <2>2, Frozen DEF IsSplit
  <2>4. Overrides(pl, p)' = Overrides(pl, p)
    BY <2>2, FrozenSlices
  <2>5. AdoptedInv'
    BY FlowStep DEF FlowInv
  <2>6. CASE IsImporting(p)'
    <3>1. adopted'[p] \subseteq Overrides(pl, p)'
      BY <2>2, <2>5, <2>6 DEF AdoptedInv, Takes
    <3>2. HashOf[k] \in adopted'[p] => KindOf[pl] = "hash_split" /\ HasTerminalOverride(SourceOf[pl], HashOf[k])
      BY <2>4, <3>1 DEF Overrides
    <3>3. Inherits(p, k)' <=> KindOf[pl] = "hash_split" /\ HasTerminalOverride(SourceOf[pl], HashOf[k])'
      BY <2>2, <2>6 DEF Inherits
    <3> QED
      BY <2>1, <2>3, <3>2, <3>3 DEF Withheld
  <2>7. CASE ~IsImporting(p)'
    <3>1. PICK g \in pages : ApplyPage(g) /\ g.target = p
      BY <1>2, <2>7, EndsImport
    <3>2. /\ import'[p] = NextImport(g) /\ import[p].stream = g.stream /\ adopted'[p] = adopted[p] \cup g.hashes
          /\ g.stream # "overrides" => g.hashes = {}
      BY <3>1, ApplyEffect DEF PageInv, PageHolds, PageShape
    <3>3. g.stream = "locks"
      BY <2>7, <3>2 DEF NextImport, IsImporting
    <3>4. adopted'[p] = Overrides(pl, p)
      BY <1>2, <3>2, <3>3 DEF FlowInv, AdoptedInv
    <3>5. HashOf[k] \in adopted'[p] <=> KindOf[pl] = "hash_split" /\ HasTerminalOverride(SourceOf[pl], HashOf[k])
      BY <1>1, <3>4 DEF Overrides
    <3>6. ~Inherits(p, k)'
      BY <2>7 DEF Inherits
    <3> QED
      BY <2>1, <3>5, <3>6 DEF Withheld
  <2> QED
    BY <2>6, <2>7
<1>3. CASE ~IsImporting(p)
  <2>1. ~IsImporting(p)'
    BY <1>3, ImportFrame
  <2>2. adopted'[p] = adopted[p]
    <3>1. ASSUME NEW g \in pages, ApplyPage(g)
          PROVE  adopted'[p] = adopted[p]
      BY <1>3, <3>1, ApplyEffect
    <3> QED
      BY <3>1, AdoptedFrame
  <2> QED
    BY <1>3, <2>1, <2>2 DEF Withheld, Inherits
<1> QED
  BY <1>2, <1>3, TakesFrom

(* Only a cutover takes a plan over.                                       *)
LEMMA CutOverFrame ==
  ASSUME TypeInv, [Next]_vars, ~\E pl \in Plan : Cutover(pl)
  PROVE  \A pl \in Plan : CutOver(pl)' <=> CutOver(pl)
<1>1. ASSUME NEW q \in Plan, Queue(q) \/ PlanStep(q) \/ CleanupSourceStep(q)
      PROVE  \A pl \in Plan : CutOver(pl)' <=> CutOver(pl)
  BY <1>1, CleanupEffect DEF Queue, PlanStep, TypeInv, CutOver
<1>2. ASSUME NEW q \in Plan, NEW t \in TargetsOf[q], AcceptAck(q, t)
      PROVE  \A pl \in Plan : CutOver(pl)' <=> CutOver(pl)
  BY <1>2 DEF AcceptAck, TypeInv, CutOver
<1>3. CASE UNCHANGED state
  BY <1>3 DEF CutOver
<1> QED
  BY <1>1, <1>2, <1>3, StateFrame

(* Without a cutover no key changes its owner.                             *)
LEMMA OwnerStands ==
  ASSUME TypeInv, FlowInv, PageInv, [Next]_vars, ~\E pl \in Plan : Cutover(pl), NEW p \in Part, NEW k \in Key
  PROVE  Owner(p, k)' <=> Owner(p, k)
<1>1. \A pl \in Plan : CutOver(pl)' <=> CutOver(pl)
  BY CutOverFrame
<1>2. GivenAway(p, k)' <=> GivenAway(p, k)
  BY <1>1 DEF GivenAway
<1>3. CASE Known(p)
  <2>1. Known(p)' /\ import'[p].plan = import[p].plan
    BY <1>3, ImportFrame
  <2>2. p = Root \/ import[p].plan \in Plan
    BY <1>3 DEF Known, TypeInv, Import, FlowInv, TargetInv
  <2>3. Entered(p)' <=> Entered(p)
    BY <1>1, <1>3, <2>1, <2>2 DEF Entered
  <2>4. k \in Slice[p] => (Withheld(p, k)' <=> Withheld(p, k))
    BY <1>3, WithheldStands
  <2> QED
    BY <1>2, <2>3, <2>4, OwnedKeys
<1>4. CASE ~Known(p)
  <2>1. ~Entered(p) /\ p # Root
    BY <1>4 DEF Entered, Known
  <2>2. ~Entered(p)'
    <3>1. SUFFICES ASSUME Entered(p)'
                   PROVE  FALSE
      OBVIOUS
    <3>2. TypeInv' /\ TargetInv' /\ CallInv'
      BY TypeStep, FlowStep DEF FlowInv
    <3>3. PICK pl : pl = import'[p].plan
      OBVIOUS
    <3>4. import'[p].state # "none" /\ CutOver(pl)'
      BY <2>1, <3>1, <3>3 DEF Entered, Known, CutOver
    <3>5. pl \in Plan /\ <<pl, p>> \in asked' /\ CutOver(pl)
      <4>1. pl # NoPlan /\ <<pl, p>> \in asked'
        BY <3>2, <3>3, <3>4 DEF TargetInv
      <4>2. pl \in Plan
        BY <3>2, <3>3, <4>1 DEF TypeInv, Import
      <4> QED
        BY <1>1, <3>4, <4>1, <4>2
    <3>6. p \in TargetsOf[pl]
      BY <3>2, <3>5 DEF CallInv
    <3> QED
      BY <1>4, <3>5, <3>6, EnteredTarget
  <2> QED
    BY <2>1, <2>2, OwnedKeys
<1> QED
  BY <1>3, <1>4

(* A source that is about to cut over owns what it moves, except the keys  *)
(* of its promotions.                                                      *)
LEMMA SourceOwns ==
  ASSUME TypeInv, FlowInv, NEW pl \in Plan, state[pl] = "planned", NEW k \in Moving[pl]
  PROVE  Owner(SourceOf[pl], k) <=> ~(KindOf[pl] = "hash_split" /\ HasTerminalOverride(SourceOf[pl], HashOf[k]))
<1> DEFINE s == SourceOf[pl]
<1>1. s \in Part /\ k \in Key /\ k \in Slice[s] /\ HashOf[k] \in Hash
  BY Ends, MovingKeys, KeyAssumption
<1>2. Known(s) /\ ~IsImporting(s)
  BY DEF FlowInv, SourceInv
<1>3. Entered(s) /\ ~Inherits(s, k)
  BY <1>1, <1>2 DEF TypeInv, FlowInv, TargetInv, Import, ImportState, Known, IsImporting, Entered, Inherits
<1>4. HasTerminalOverride(s, HashOf[k]) => ~Owner(s, k)
  BY DEF Owner, OwnsLocally, OwnedByRangeTree, HasTerminalOverride, Promoted
<1>5. ASSUME ~Owner(s, k)
      PROVE  KindOf[pl] = "hash_split" /\ HasTerminalOverride(s, HashOf[k])
  <2>1. GivenAway(s, k) \/ HashOf[k] \in adopted[s]
    BY <1>1, <1>3, <1>5, OwnedKeys DEF Withheld
  <2>2. CASE HashOf[k] \in adopted[s]
    <3>1. s \notin Ranges /\ HasTerminalOverride(s, HashOf[k])
      BY <1>1, <2>2 DEF FlowInv, AdoptedInv, HasTerminalOverride, Promoted
    <3>2. IsSplit(pl)
      <4>1. HashOf[k] \in MovingHashes[pl]
        BY DEF MovingHashes, HashesOf
      <4> QED
        BY <2>2, <4>1 DEF FlowInv, SourceInv
    <3> QED
      BY <3>1, <3>2, SplitKinds
  <2>3. CASE GivenAway(s, k)
    <3>1. PICK q \in Plan : SourceOf[q] = s /\ CutOver(q) /\ k \in Moving[q]
      BY <2>3 DEF GivenAway
    <3>2. q # pl
      BY <3>1 DEF CutOver
    <3>3. IsSplit(pl)
      <4>1. SUFFICES ASSUME ~IsSplit(pl)
                     PROVE  FALSE
        OBVIOUS
      <4>2. CASE IsSplit(q)
        <5>1. state[q] # "none" /\ state[pl] \in Unfinished
          BY <3>1 DEF CutOver, Unfinished
        <5> QED
          BY <3>1, <4>1, <4>2, <5>1 DEF FlowInv, SourceInv
      <4>3. CASE ~IsSplit(q)
        BY <3>1, <3>2, <4>1, <4>3, TopologyAssumption
      <4> QED
        BY <4>2, <4>3
    <3>4. ~IsSplit(q)
      BY <3>1, <3>2, <3>3, TopologyAssumption
    <3>5. state[q] \in {"completed", "cleaned"}
      BY <3>1, <3>3, <3>4 DEF FlowInv, SourceInv, CutOver, Unfinished
    <3>6. HashOf[k] \in MovingHashes[q]
      BY <3>1 DEF MovingHashes, HashesOf
    <3>7. HasTerminalOverride(s, HashOf[k])
      BY <1>1, <3>1, <3>4, <3>5, <3>6 DEF HasTerminalOverride, Promoted, Promotions
    <3>8. s \notin Ranges
      BY <3>1, <3>4, PromotedKeys
    <3> QED
      BY <3>3, <3>7, <3>8, SplitKinds
  <2> QED
    BY <2>1, <2>2, <2>3
<1> QED
  BY <1>4, <1>5

(* What a cutover does: each key that moves goes from the source, when it  *)
(* owned it, to its target; a target owned nothing before.                 *)
LEMMA CutoverEffect ==
  ASSUME TypeInv, FlowInv, PageInv, [Next]_vars, NEW pl \in Plan, Cutover(pl), NEW p \in Part, NEW k \in Key
  PROVE  LET s == SourceOf[pl]
         IN  /\ p \in TargetsOf[pl] => ~Owner(p, k) /\ (Owner(p, k)' <=> k \in Slice[p] /\ Owner(s, k))
             /\ p = s => (Owner(p, k)' <=> Owner(p, k) /\ k \notin Moving[pl])
             /\ (p \notin TargetsOf[pl] /\ p # s) => (Owner(p, k)' <=> Owner(p, k))
<1> DEFINE s == SourceOf[pl]
<1>1. state[pl] = "planned" /\ inited[pl] = TargetsOf[pl] /\ UNCHANGED <<import, adopted>>
  BY DEF Cutover
<1>2. \A q \in Plan : CutOver(q)' <=> CutOver(q) \/ q = pl
  BY DEF Cutover, TypeInv, CutOver
<1>3. GivenAway(p, k)' <=> GivenAway(p, k) \/ (p = s /\ k \in Moving[pl])
  BY <1>2 DEF GivenAway
<1>4. Known(p)' <=> Known(p)
  BY <1>1 DEF Known
<1>5. ASSUME p \in TargetsOf[pl]
      PROVE  ~Owner(p, k) /\ (Owner(p, k)' <=> k \in Slice[p] /\ Owner(s, k))
  <2>1. import[p].plan = pl /\ pl # NoPlan
    BY <1>1, <1>5, Ends DEF FlowInv, CallInv
  <2>2. Takes(p, pl) /\ Known(p) /\ ~CutOver(pl) /\ p # s
    <3>1. import[p].state \in ImportState
      BY DEF TypeInv, Import
    <3>2. ~CutOver(pl)
      BY <1>1 DEF CutOver
    <3>3. import[p].state \notin {"none", "importing", "imported", "active"}
      BY <2>1, <3>2 DEF FlowInv, TargetInv
    <3> QED
      BY <1>5, <2>1, <3>1, <3>2, <3>3, Ends DEF ImportState, Takes, IsImporting, Known
  <2>3. ~Owner(p, k)
    BY <2>2, OwnedByTarget
  <2>4. Entered(p)'
    BY <1>1, <1>2, <1>4, <2>1, <2>2 DEF Entered, CutOver
  <2>5. ~GivenAway(p, k)'
    <3>1. \A q \in Plan : SourceOf[q] = p => state[q] = "none"
      BY <2>2 DEF FlowInv, SourceInv, Takes
    <3> QED
      BY <1>3, <2>2, <3>1 DEF GivenAway, CutOver
  <2>6. k \in Slice[p] => (Withheld(p, k)' <=> KindOf[pl] = "hash_split" /\ HasTerminalOverride(s, HashOf[k]))
    BY <2>2, WithheldStands, TargetWithholds
  <2>7. k \in Slice[p] => (Owner(s, k) <=> ~(KindOf[pl] = "hash_split" /\ HasTerminalOverride(s, HashOf[k])))
    BY <1>1, <1>5, MovingKeys, SourceOwns
  <2> QED
    BY <2>3, <2>4, <2>5, <2>6, <2>7, OwnedKeys
<1>6. ASSUME p \notin TargetsOf[pl]
      PROVE  Owner(p, k)' <=> Owner(p, k) /\ ~(p = s /\ k \in Moving[pl])
  <2>1. CASE Known(p)
    <3>1. p = Root \/ (import[p].plan \in Plan /\ import[p].plan # pl)
      <4>1. p = Root \/ import[p].plan # NoPlan
        BY <2>1 DEF Known, FlowInv, TargetInv
      <4>2. import[p].plan # NoPlan => import[p].plan \in Plan /\ <<import[p].plan, p>> \in asked
        BY DEF TypeInv, Import, FlowInv, TargetInv
      <4>3. <<pl, p>> \notin asked
        BY <1>6 DEF FlowInv, CallInv
      <4> QED
        BY <4>1, <4>2, <4>3
    <3>2. Entered(p)' <=> Entered(p)
      BY <1>1, <1>2, <1>4, <2>1, <3>1 DEF Entered, CutOver
    <3>3. k \in Slice[p] => (Withheld(p, k)' <=> Withheld(p, k))
      BY <2>1, WithheldStands
    <3> QED
      BY <1>3, <3>2, <3>3, OwnedKeys
  <2>2. CASE ~Known(p)
    BY <1>4, <2>2, OwnedKeys DEF Entered, Known
  <2> QED
    BY <2>1, <2>2
<1>7. s \notin TargetsOf[pl]
  BY Ends
<1> QED
  BY <1>5, <1>6, <1>7

(* Each key keeps exactly one owner.                                       *)
LEMMA OwnerStep == TypeInv /\ FlowInv /\ PageInv /\ OwnerInv /\ [Next]_vars => OwnerInv'
<1> SUFFICES ASSUME TypeInv, FlowInv, PageInv, OwnerInv, [Next]_vars
             PROVE  OwnerInv'
  OBVIOUS
<1>1. CASE ~\E pl \in Plan : Cutover(pl)
  <2>1. \A p \in Part, k \in Key : Owner(p, k)' <=> Owner(p, k)
    BY <1>1, OwnerStands
  <2> QED
    BY <2>1 DEF OwnerInv
<1>2. ASSUME NEW pl \in Plan, Cutover(pl)
      PROVE  OwnerInv'
  <2> DEFINE s == SourceOf[pl]
  <2>1. s \in Part /\ s \notin TargetsOf[pl] /\ TargetsOf[pl] \subseteq Part
    BY Ends
  <2>2. \A p \in Part, k \in Key :
          /\ p \in TargetsOf[pl] => ~Owner(p, k) /\ (Owner(p, k)' <=> k \in Slice[p] /\ Owner(s, k))
          /\ p = s => (Owner(p, k)' <=> Owner(p, k) /\ k \notin Moving[pl])
          /\ (p \notin TargetsOf[pl] /\ p # s) => (Owner(p, k)' <=> Owner(p, k))
    BY <1>2, CutoverEffect
  <2>3. ASSUME NEW k \in Key
        PROVE  \E p \in Part : Owner(p, k)'
    <3>1. PICK p \in Part : Owner(p, k)
      BY DEF OwnerInv
    <3>2. CASE p = s /\ k \in Moving[pl]
      <4>1. PICK t \in TargetsOf[pl] : k \in Slice[t]
        BY <3>2, MovingKeys
      <4> QED
        BY <2>1, <2>2, <3>1, <3>2, <4>1
    <3>3. CASE ~(p = s /\ k \in Moving[pl])
      BY <2>2, <3>1, <3>3
    <3> QED
      BY <3>2, <3>3
  <2>4. ASSUME NEW k \in Key, NEW p \in Part, NEW q \in Part, Owner(p, k)', Owner(q, k)'
        PROVE  p = q
    <3>1. \A t \in TargetsOf[pl] : k \in Slice[t] => k \in Moving[pl]
      BY MovingKeys
    <3>2. CASE p \in TargetsOf[pl] /\ q \in TargetsOf[pl]
      BY <2>2, <2>4, <3>2, MovingKeys
    <3>3. CASE p \in TargetsOf[pl] /\ q \notin TargetsOf[pl]
      BY <2>1, <2>2, <2>4, <3>1, <3>3 DEF OwnerInv
    <3>4. CASE p \notin TargetsOf[pl] /\ q \in TargetsOf[pl]
      BY <2>1, <2>2, <2>4, <3>1, <3>4 DEF OwnerInv
    <3>5. CASE p \notin TargetsOf[pl] /\ q \notin TargetsOf[pl]
      BY <2>2, <2>4, <3>5 DEF OwnerInv
    <3> QED
      BY <3>2, <3>3, <3>4, <3>5
  <2> QED
    BY <2>3, <2>4 DEF OwnerInv
<1> QED
  BY <1>1, <1>2
-----------------------------------------------------------------------------
(***************************************************************************)
(* The data follows its owner.                                             *)
(***************************************************************************)
(* The steps of a repartition change nothing that a request leaves behind. *)
LEMMA FlowFrame ==
  ASSUME [Next]_vars, ~Request
  PROVE  UNCHANGED <<clock, seen, txState, read>>
<1>1. ASSUME NEW pl \in Plan, Queue(pl) \/ PlanStep(pl) \/ Cutover(pl) \/ CleanupSourceStep(pl)
      PROVE  UNCHANGED <<clock, seen, txState, read>>
  BY <1>1 DEF Queue, PlanStep, Cutover, CleanupSourceStep, dataVars
<1>2. ASSUME NEW pl \in Plan, NEW t \in TargetsOf[pl],
             SendInit(pl, t) \/ InitAsTarget(pl, t) \/ InitAnswer(pl, t) \/ AcceptAck(pl, t)
      PROVE  UNCHANGED <<clock, seen, txState, read>>
  BY <1>2 DEF SendInit, InitAsTarget, InitAnswer, AcceptAck, dataVars
<1>3. ASSUME NEW t \in Part, ServePage(t) \/ AckAnswer(t)
      PROVE  UNCHANGED <<clock, seen, txState, read>>
  BY <1>3 DEF ServePage, AckAnswer, dataVars
<1>4. ASSUME NEW g \in pages, ApplyPage(g)
      PROVE  UNCHANGED <<clock, seen, txState, read>>
  BY <1>4 DEF ApplyPage
<1> QED
  BY <1>1, <1>2, <1>3, <1>4, NextCases

(* The data of a partition that owns it and does not import stays: no      *)
(* cleanup reclaims it.                                                    *)
LEMMA OwnedStands ==
  ASSUME TypeInv, FlowInv, PageInv, [Next]_vars, ~Request,
         NEW p \in Part, ~IsImporting(p), NEW k \in Key, Owner(p, k)
  PROVE  row'[p][k] = row[p][k] /\ lock'[p][k] = lock[p][k] /\ mark'[p] = mark[p]
<1>1. k \in Slice[p] /\ ~GivenAway(p, k)
  BY OwnedKeys
<1>2. ASSUME NEW q \in Plan, CleanupSourceStep(q)
      PROVE  row'[p][k] = row[p][k] /\ lock'[p][k] = lock[p][k] /\ mark'[p] = mark[p]
  <2>1. /\ state[q] = "completed"
        /\ p # SourceOf[q] \/ k \notin CopiesOf(q) => row'[p][k] = row[p][k] /\ lock'[p][k] = lock[p][k]
    BY <1>2, CleanupEffect
  <2>2. mark' = mark
    BY <1>2 DEF CleanupSourceStep
  <2>3. ASSUME p = SourceOf[q], k \in CopiesOf(q)
        PROVE  FALSE
    <3>1. k \in Moving[q]
      BY <1>1, <2>3, MovingKeys, PromotedKeys DEF CopiesOf
    <3> QED
      BY <1>1, <2>1, <2>3, <3>1 DEF GivenAway, CutOver
  <2> QED
    BY <2>1, <2>2, <2>3
<1>3. ASSUME NEW g \in pages, ApplyPage(g)
      PROVE  row'[p][k] = row[p][k] /\ lock'[p][k] = lock[p][k] /\ mark'[p] = mark[p]
  <2>1. IsImporting(g.target) /\ (p # g.target => row'[p][k] = row[p][k] /\ lock'[p][k] = lock[p][k] /\ mark'[p] = mark[p])
    BY <1>3, ApplyEffect, ZenonT(60)
  <2> QED
    BY <2>1
<1>4. ASSUME NEW pl \in Plan, Queue(pl) \/ PlanStep(pl) \/ Cutover(pl)
      PROVE  UNCHANGED <<row, lock, mark>>
  BY <1>4 DEF Queue, PlanStep, Cutover, dataVars
<1>5. ASSUME NEW pl \in Plan, NEW t \in TargetsOf[pl],
             SendInit(pl, t) \/ InitAsTarget(pl, t) \/ InitAnswer(pl, t) \/ AcceptAck(pl, t)
      PROVE  UNCHANGED <<row, lock, mark>>
  BY <1>5 DEF SendInit, InitAsTarget, InitAnswer, AcceptAck, dataVars
<1>6. ASSUME NEW t \in Part, ServePage(t) \/ AckAnswer(t)
      PROVE  UNCHANGED <<row, lock, mark>>
  BY <1>6 DEF ServePage, AckAnswer, dataVars
<1>7. CASE UNCHANGED <<row, lock, mark>>
  BY <1>7
<1> QED
  BY <1>2, <1>3, <1>4, <1>5, <1>6, <1>7, NextCases

(* A target that ends its import holds what its source holds.              *)
LEMMA ImportedAll ==
  ASSUME TypeInv, FlowInv, PageInv, CopyInv, NEW g \in pages, ApplyPage(g),
         NEW t \in Part, g.target = t, ~IsImporting(t)', NEW k \in Key, BelongsToTarget(g.plan, t, k)
  PROVE  /\ row'[t][k] = row[SourceOf[g.plan]][k] /\ lock'[t][k] = lock[SourceOf[g.plan]][k]
         /\ row[SourceOf[g.plan]][k] = NoRow => mark'[t] >= seen[k]
<1>1. /\ g.plan \in Plan /\ Takes(t, g.plan) /\ import[t].stream = g.stream
      /\ import[t].at = g.at /\ import'[t] = NextImport(g) /\ mark'[t] >= g.mark /\ mark'[t] \in Nat
      /\ row'[t][k] = IF g.stream = "items" /\ k \in Covered(g.plan, t, g.at, g.to) /\ row[t][k] = NoRow
                      THEN row[SourceOf[g.plan]][k] ELSE row[t][k]
      /\ lock'[t][k] = IF g.stream = "locks" /\ k \in Covered(g.plan, t, g.at, g.to) /\ lock[t][k] = NoTx
                       THEN lock[SourceOf[g.plan]][k] ELSE lock[t][k]
  <2>1. LET u == g.target
        IN  /\ g.plan \in Plan /\ u \in Part /\ IsImporting(u) /\ import[u].plan = g.plan /\ import[u].stream = g.stream
            /\ import[u].at = g.at /\ mark' \in [Part -> Nat] /\ mark'[u] >= g.mark
            /\ \A q \in Part : import'[q] = IF q = u THEN NextImport(g) ELSE import[q]
            /\ \A q \in Part, j \in Key :
                 /\ row'[q][j] = IF q = u /\ g.stream = "items" /\ j \in Covered(g.plan, u, g.at, g.to) /\ row[u][j] = NoRow
                                 THEN row[SourceOf[g.plan]][j] ELSE row[q][j]
                 /\ lock'[q][j] = IF q = u /\ g.stream = "locks" /\ j \in Covered(g.plan, u, g.at, g.to) /\ lock[u][j] = NoTx
                                  THEN lock[SourceOf[g.plan]][j] ELSE lock[q][j]
    BY ApplyEffect
  <2> QED
    BY <2>1 DEF Takes
<1>2. g.stream = "locks" /\ g.last
  BY <1>1 DEF NextImport, IsImporting
<1>3. PageShape(g) /\ PageContents(g, g.plan, t, SourceOf[g.plan])
  BY <1>1, <1>2 DEF PageInv, PageHolds, Takes
<1>4. g.at \in Nat /\ g.to \in Nat /\ g.mark \in Nat /\ k \in Nat /\ seen[k] \in Nat
  BY <1>3, KeyAssumption DEF PageShape, TypeInv
<1>5. After(g.plan, t, g.to) = {}
  BY <1>2, <1>3 DEF PageContents
<1>6. k <= g.to
  BY <1>4, <1>5 DEF After
<1>7. k > g.at => k \in Covered(g.plan, t, g.at, g.to)
  BY <1>6 DEF Covered, After
<1>8. row[t][k] = row[SourceOf[g.plan]][k]
  BY <1>1, <1>2 DEF CopyInv, ItemCopied
<1>9. lock[t][k] = IF k <= g.at THEN lock[SourceOf[g.plan]][k] ELSE NoTx
  BY <1>1, <1>2 DEF CopyInv, LockCopied
<1>10. row[SourceOf[g.plan]][k] = NoRow => g.mark >= seen[k]
  BY <1>2, <1>3 DEF PageContents
<1>11. lock'[t][k] = lock[SourceOf[g.plan]][k]
  BY <1>1, <1>2, <1>4, <1>7, <1>9
<1>12. row[SourceOf[g.plan]][k] = NoRow => mark'[t] >= seen[k]
  BY <1>1, <1>4, <1>10
<1> QED
  BY <1>1, <1>2, <1>8, <1>11, <1>12

(* A step of a repartition carries the data of each key along: who owns a  *)
(* key now has the row and the lock that its owner had, and a mark that    *)
(* covers a deleted item.  All keys of one owner come from one owner.      *)
Carries(p, q, d, e) ==
  \A k \in Key : Owner(p, k)' =>
    /\ Owner(q, k)
    /\ row'[d][k] = row[e][k] /\ lock'[d][k] = lock[e][k]
    /\ (row[e][k] = NoRow => mark'[d] >= seen[k])

(* A step of a repartition carries the data of every owner from one owner  *)
(* before it.                                                              *)
LEMMA Carried ==
  ASSUME TypeInv, FlowInv, PageInv, CopyInv, OwnerInv, RevisionInv, [Next]_vars, ~Request, NEW p \in Part
  PROVE  \E q \in Part, d \in Part, e \in Part : d = DataAt(p)' /\ e = DataAt(q) /\ Carries(p, q, d, e)
<1>1. ASSUME NEW k \in Key, NEW q \in Part, Owner(q, k), row[DataAt(q)][k] = NoRow
      PROVE  mark[DataAt(q)] >= seen[k]
  BY <1>1 DEF RevisionInv, RevisionAt
<1>2. CASE ~Known(p)
  <2>1. ~IsImporting(p) /\ \A k \in Key : ~Owner(p, k)
    BY <1>2 DEF Known, IsImporting, Owner, Entered
  <2>2. CASE ~\E k \in Key : Owner(p, k)'
    <3>1. DataAt(p)' \in Part
      <4>1. TypeInv' /\ FlowInv'
        BY TypeStep, FlowStep
      <4>2. PICK pl : pl = import'[p].plan
        OBVIOUS
      <4>3. IsImporting(p)' => pl \in Plan
        BY <4>1, <4>2 DEF TypeInv, Import, FlowInv, TargetInv, IsImporting
      <4> QED
        BY <4>2, <4>3, Ends DEF DataAt
    <3>2. PICK d \in Part : d = DataAt(p)'
      BY <3>1
    <3>3. Carries(p, p, d, p) /\ DataAt(p) = p
      BY <2>1, <2>2 DEF Carries, DataAt
    <3> QED
      BY <3>2, <3>3
  <2>3. CASE \E k \in Key : Owner(p, k)'
    <3>1. PICK k \in Key : Owner(p, k)'
      BY <2>3
    <3>2. PICK pl \in Plan : Cutover(pl)
      BY <2>1, <3>1, OwnerStands
    <3>3. p \in TargetsOf[pl]
      BY <2>1, <3>1, <3>2, CutoverEffect
    <3>4. inited[pl] = TargetsOf[pl]
      BY <3>2 DEF Cutover
    <3>5. import[p].plan = pl
      BY <3>3, <3>4 DEF FlowInv, CallInv
    <3> QED
      BY <1>2, <3>5, Ends DEF FlowInv, TargetInv, Known
  <2> QED
    BY <2>2, <2>3
<1>3. CASE Known(p) /\ \E pl \in Plan : Cutover(pl) /\ p \in TargetsOf[pl]
  <2>1. PICK pl \in Plan : Cutover(pl) /\ p \in TargetsOf[pl]
    BY <1>3
  <2>2. PICK s \in Part : s = SourceOf[pl]
    BY Ends
  <2>3. /\ state[pl] = "planned" /\ inited[pl] = TargetsOf[pl] /\ UNCHANGED <<import, row, lock, mark>>
    BY <2>1 DEF Cutover, dataVars
  <2>4. import[p].plan = pl /\ ~CutOver(pl)
    BY <2>1, <2>3 DEF FlowInv, CallInv, CutOver
  <2>5. IsImporting(p)'
    <3>1. import[p].state \in ImportState
      BY DEF TypeInv, Import
    <3>2. import[p].state \notin {"none", "importing", "imported", "active"}
      BY <2>4, Ends DEF FlowInv, TargetInv
    <3> QED
      BY <2>3, <3>1, <3>2 DEF ImportState, IsImporting
  <2>6. DataAt(p)' = s /\ DataAt(s) = s
    <3>1. ~IsImporting(s)
      BY <2>2, <2>3 DEF FlowInv, SourceInv
    <3> QED
      BY <2>2, <2>3, <2>4, <2>5, <3>1 DEF DataAt
  <2>7. \A k \in Key : Owner(p, k)' => Owner(s, k)
    BY <2>1, <2>2, CutoverEffect
  <2>8. Carries(p, s, s, s)
    BY <1>1, <2>3, <2>6, <2>7 DEF Carries
  <2> QED
    BY <2>6, <2>8
<1>4. CASE Known(p) /\ ~\E pl \in Plan : Cutover(pl) /\ p \in TargetsOf[pl]
  <2>1. \A k \in Key : Owner(p, k)' => Owner(p, k)
    <3>1. ASSUME NEW pl \in Plan, Cutover(pl), NEW k \in Key, Owner(p, k)'
          PROVE  Owner(p, k)
      BY <1>4, <3>1, CutoverEffect
    <3> QED
      BY <3>1, OwnerStands
  <2>2. Known(p)' /\ import'[p].plan = import[p].plan
    BY <1>4, ImportFrame
  <2>3. CASE ~IsImporting(p)
    <3>1. DataAt(p)' = p /\ DataAt(p) = p
      BY <1>4, <2>3, ImportFrame DEF DataAt
    <3>2. \A k \in Key : Owner(p, k) => row'[p][k] = row[p][k] /\ lock'[p][k] = lock[p][k] /\ mark'[p] = mark[p]
      BY <2>3, OwnedStands
    <3>3. Carries(p, p, p, p)
      BY <1>1, <2>1, <3>1, <3>2 DEF Carries
    <3> QED
      BY <3>1, <3>3
  <2>4. CASE IsImporting(p)
    <3>1. PICK pl \in Plan : Takes(p, pl)
      BY <2>4, TakesFrom
    <3>2. PICK s \in Part : s = SourceOf[pl]
      BY Ends
    <3>3. DataAt(p) = s
      BY <2>4, <3>1, <3>2 DEF DataAt, Takes
    <3>4. ASSUME NEW k \in Key, Owner(p, k)
          PROVE  /\ BelongsToTarget(pl, p, k)
                 /\ row'[s][k] = row[s][k] /\ lock'[s][k] = lock[s][k]
                 /\ (row[s][k] = NoRow => mark'[s] >= seen[k])
      <4>1. CutOver(pl) /\ BelongsToTarget(pl, p, k)
        BY <3>1, <3>4, OwnedByTarget
      <4>2. row'[s][k] = row[s][k] /\ lock'[s][k] = lock[s][k] /\ mark'[s] >= mark[s]
        BY <3>1, <3>2, <4>1, SliceStands
      <4>3. mark'[s] \in Nat /\ mark[s] \in Nat /\ seen[k] \in Nat
        BY TypeStep DEF TypeInv
      <4>4. row[s][k] = NoRow => mark[s] >= seen[k]
        BY <1>1, <3>3, <3>4
      <4> QED
        BY <4>1, <4>2, <4>3, <4>4
    <3>5. CASE IsImporting(p)'
      <4>1. DataAt(p)' = s
        BY <2>2, <3>1, <3>2, <3>5 DEF DataAt, Takes
      <4>2. Carries(p, p, s, s)
        BY <2>1, <3>4 DEF Carries
      <4> QED
        BY <3>3, <4>1, <4>2
    <3>6. CASE ~IsImporting(p)'
      <4>1. DataAt(p)' = p
        BY <3>6 DEF DataAt
      <4>2. PICK g \in pages : ApplyPage(g) /\ g.target = p
        BY <3>1, <3>6, EndsImport
      <4>3. g.plan = pl
        BY <3>1, <4>2 DEF ApplyPage, PageFollowsCursor, Takes
      <4>4. \A k \in Key : BelongsToTarget(pl, p, k) =>
              /\ row'[p][k] = row[s][k] /\ lock'[p][k] = lock[s][k]
              /\ row[s][k] = NoRow => mark'[p] >= seen[k]
        BY <3>2, <3>6, <4>2, <4>3, ImportedAll
      <4>5. Carries(p, p, p, s)
        BY <2>1, <3>4, <4>4 DEF Carries
      <4> QED
        BY <3>3, <4>1, <4>5
    <3> QED
      BY <3>5, <3>6
  <2> QED
    BY <2>3, <2>4
<1> QED
  BY <1>2, <1>3, <1>4
-----------------------------------------------------------------------------
(***************************************************************************)
(* Revisions, transactions and values.                                     *)
(***************************************************************************)
(* A request changes no owner, and where data lies.                        *)
LEMMA RequestFrame ==
  ASSUME Request
  PROVE  /\ UNCHANGED flowVars
         /\ \A p \in Part, k \in Key : Owner(p, k)' <=> Owner(p, k)
         /\ \A p \in Part : DataAt(p)' = DataAt(p)
<1>1. UNCHANGED flowVars
  <2>1. ASSUME NEW p \in Part, NEW k \in Key, PutItem(p, k) \/ DeleteItem(p, k)
        PROVE  UNCHANGED flowVars
    BY <2>1 DEF PutItem, DeleteItem
  <2>2. ASSUME NEW t \in Tx, NEW decision \in {"committing", "cancelling"}, Decide(t, decision)
        PROVE  UNCHANGED flowVars
    BY <2>2 DEF Decide
  <2>3. ASSUME NEW t \in Tx, NEW p \in Part, Prepare(t, p) \/ Commit(t, p) \/ Cancel(t, p)
        PROVE  UNCHANGED flowVars
    BY <2>3 DEF Prepare, Commit, Cancel
  <2>4. ASSUME NEW p \in Part, NEW k \in ReadKeys, StartRead(p, k)
        PROVE  UNCHANGED flowVars
    BY <2>4 DEF StartRead
  <2>5. ExecuteLocal => UNCHANGED flowVars
    BY DEF ExecuteLocal
  <2>6. UNCHANGED vars => UNCHANGED flowVars
    BY DEF vars
  <2> QED
    BY <2>1, <2>2, <2>3, <2>4, <2>5, <2>6 DEF Request
<1>2. \A p \in Part : DataAt(p)' = DataAt(p)
  BY <1>1 DEF flowVars, DataAt, IsImporting
<1>3. \A pl \in Plan : CutOver(pl)' <=> CutOver(pl)
  BY <1>1 DEF flowVars, CutOver
<1>4. \A p \in Part : \A h : HasTerminalOverride(p, h)' <=> HasTerminalOverride(p, h)
  BY <1>1 DEF flowVars, HasTerminalOverride, Promoted
<1>5. ASSUME NEW p \in Part, NEW k \in Key
      PROVE  /\ GivenAway(p, k)' <=> GivenAway(p, k)
             /\ Entered(p)' <=> Entered(p)
             /\ Withheld(p, k)' <=> Withheld(p, k)
  <2>1. GivenAway(p, k)' <=> GivenAway(p, k)
    BY <1>3 DEF GivenAway
  <2>2. Entered(p)' <=> Entered(p)
    BY <1>1 DEF flowVars, Entered, Known, CutOver
  <2>3. Withheld(p, k)' <=> Withheld(p, k)
    BY <1>1 DEF flowVars, Withheld, Inherits, IsImporting, HasTerminalOverride, Promoted
  <2> QED
    BY <2>1, <2>2, <2>3
<1>6. \A p \in Part, k \in Key : Owner(p, k)' <=> Owner(p, k)
  BY <1>5, OwnedKeys
<1> QED
  BY <1>1, <1>2, <1>6

(* The data of a key that a request touches is where it executes; the data *)
(* of every other key stays.                                               *)
LEMMA RequestData ==
  ASSUME TypeInv, FlowInv, OwnerInv, NEW p \in Part, NEW K \in SUBSET Key, Touches(p, K),
         NEW q \in Part, NEW k \in Key, Owner(q, k)
  PROVE  /\ k \in K => q = p /\ DataAt(q) = p
         /\ k \notin K => row'[DataAt(q)][k] = row[DataAt(q)][k] /\ lock'[DataAt(q)][k] = lock[DataAt(q)][k]
         /\ DataAt(q) \in Part
<1>1. k \in K => Owner(p, k) /\ ~IsImporting(p)
  BY ServedKeys DEF Touches
<1>2. k \in K => q = p
  BY <1>1 DEF OwnerInv
<1>3. DataAt(q) \in Part
  BY TakesFrom, Ends DEF DataAt
<1> QED
  BY <1>1, <1>2, <1>3 DEF DataAt, Touches

(* The revisions of a key go on.                                           *)
LEMMA RevisionStep ==
  ASSUME TypeInv, FlowInv, PageInv, CopyInv, OwnerInv, RevisionInv, [Next]_vars
  PROVE  RevisionInv'
<1> SUFFICES ASSUME NEW p \in Part, NEW k \in Key, Owner(p, k)'
             PROVE  RevisionAt(DataAt(p), k)' >= seen'[k]
  BY DEF RevisionInv
<1>1. CASE ~Request
  <2>1. PICK q \in Part, d \in Part, e \in Part : d = DataAt(p)' /\ e = DataAt(q) /\ Carries(p, q, d, e)
    BY <1>1, Carried
  <2>2. /\ Owner(q, k) /\ row'[d][k] = row[e][k] /\ (row[e][k] = NoRow => mark'[d] >= seen[k])
        /\ seen' = seen
    BY <1>1, <2>1, FlowFrame DEF Carries
  <2>3. RevisionAt(e, k) >= seen[k]
    BY <2>1, <2>2 DEF RevisionInv
  <2> QED
    BY <2>1, <2>2, <2>3 DEF RevisionAt
<1>2. CASE Request
  <2>1. PICK q \in Part, K \in SUBSET Key : Touches(q, K)
    BY <1>2, Requests
  <2>2. PICK d : d = DataAt(p)
    OBVIOUS
  <2>3. Owner(p, k) /\ DataAt(p)' = d
    BY <1>2, <2>2, RequestFrame
  <2>4. /\ k \in K => d = q
        /\ k \notin K => row'[d][k] = row[d][k]
        /\ d \in Part
    BY <2>1, <2>2, <2>3, RequestData
  <2>5. RevisionAt(d, k) >= seen[k]
    BY <2>2, <2>3 DEF RevisionInv
  <2>6. mark'[d] >= mark[d] /\ mark'[d] \in Nat /\ mark[d] \in Nat /\ seen'[k] \in Nat /\ seen[k] \in Nat
    BY <2>1, <2>4, TypeStep DEF Touches, TypeInv
  <2>7. (IF row'[d][k] = NoRow THEN mark'[d] ELSE row'[d][k].v) >= seen'[k]
    <3>1. CASE row'[d][k] = row[d][k] /\ seen'[k] = seen[k]
      BY <2>5, <2>6, <3>1 DEF RevisionAt
    <3>2. CASE k \in K /\ row'[d][k] = NoRow /\ mark'[d] >= seen'[k]
      BY <3>2
    <3>3. CASE k \in K /\ row'[d][k].val # 0 /\ row'[d][k].v >= seen'[k]
      BY <3>3 DEF NoRow
    <3> QED
      BY <2>1, <2>4, <3>1, <3>2, <3>3 DEF Touches
  <2> QED
    BY <2>3, <2>7 DEF RevisionAt
<1> QED
  BY <1>1, <1>2

(* Every row has a value.                                                  *)
LEMMA ValueStep ==
  ASSUME TypeInv, FlowInv, PageInv, ValueInv, [Next]_vars
  PROVE  ValueInv'
<1>1. CASE Request
  <2>1. PICK q \in Part, K \in SUBSET Key : Touches(q, K)
    BY <1>1, Requests
  <2>2. ASSUME NEW p \in Part, NEW k \in Key
        PROVE  row'[p][k] = row[p][k] \/ row'[p][k] = NoRow \/ row'[p][k].val # 0
    BY <2>1 DEF Touches
  <2> QED
    BY <2>2 DEF ValueInv
<1>2. ASSUME NEW q \in Plan, CleanupSourceStep(q)
      PROVE  ValueInv'
  <2>1. /\ SourceOf[q] \in Part
        /\ \A p \in Part, k \in Key : p # SourceOf[q] => row'[p][k] = row[p][k]
        /\ \A k \in Key : row'[SourceOf[q]][k] \in {row[SourceOf[q]][k], NoRow}
    BY <1>2, CleanupEffect
  <2>2. \A p \in Part, k \in Key : row'[p][k] \in {row[p][k], NoRow}
    BY <2>1
  <2> QED
    BY <2>2 DEF ValueInv
<1>3. ASSUME NEW g \in pages, ApplyPage(g)
      PROVE  ValueInv'
  <2>1. LET u == g.target
        IN  /\ g.plan \in Plan
            /\ \A q \in Part, j \in Key :
                 /\ row'[q][j] = IF q = u /\ g.stream = "items" /\ j \in Covered(g.plan, u, g.at, g.to) /\ row[u][j] = NoRow
                                 THEN row[SourceOf[g.plan]][j] ELSE row[q][j]
                 /\ lock'[q][j] = IF q = u /\ g.stream = "locks" /\ j \in Covered(g.plan, u, g.at, g.to) /\ lock[u][j] = NoTx
                                  THEN lock[SourceOf[g.plan]][j] ELSE lock[q][j]
    BY <1>3, ApplyEffect
  <2>2. PICK s \in Part : s = SourceOf[g.plan]
    BY <2>1, Ends
  <2>3. \A p \in Part, k \in Key : row'[p][k] = row[p][k] \/ row'[p][k] = row[s][k]
    BY <2>1, <2>2
  <2> QED
    BY <2>3 DEF ValueInv
<1>4. CASE UNCHANGED row
  BY <1>4 DEF ValueInv
<1>5. ASSUME NEW pl \in Plan, Queue(pl) \/ PlanStep(pl) \/ Cutover(pl)
      PROVE  UNCHANGED row
  BY <1>5 DEF Queue, PlanStep, Cutover, dataVars
<1>6. ASSUME NEW pl \in Plan, NEW t \in TargetsOf[pl],
             SendInit(pl, t) \/ InitAsTarget(pl, t) \/ InitAnswer(pl, t) \/ AcceptAck(pl, t)
      PROVE  UNCHANGED row
  BY <1>6 DEF SendInit, InitAsTarget, InitAnswer, AcceptAck, dataVars
<1>7. ASSUME NEW t \in Part, ServePage(t) \/ AckAnswer(t)
      PROVE  UNCHANGED row
  BY <1>7 DEF ServePage, AckAnswer, dataVars
<1> QED
  BY <1>1, <1>2, <1>3, <1>4, <1>5, <1>6, <1>7, NextCases

(* What an owner finds at its data is what the table holds.                *)
LEMMA OwnerIs ==
  ASSUME OwnerInv, NEW p \in Part, NEW k \in Key, Owner(p, k)
  PROVE  TheOwner(k) = p /\ ValueOf(k) = row[DataAt(p)][k].val /\ HolderOf(k) = lock[DataAt(p)][k]
<1>1. TheOwner(k) \in Part /\ Owner(TheOwner(k), k)
  BY DEF TheOwner
<1>2. TheOwner(k) = p
  BY <1>1 DEF OwnerInv
<1> QED
  BY <1>2 DEF ValueOf, HolderOf

(* A transaction that commits holds all of its keys with an owner, or none *)
(* of them.                                                                *)
LEMMA WedgeStep ==
  ASSUME TypeInv, FlowInv, PageInv, CopyInv, OwnerInv, RevisionInv, WedgeInv, [Next]_vars
  PROVE  WedgeInv'
<1> SUFFICES ASSUME NEW t \in Tx, NEW p \in Part, txState'[t] = "committing",
                    NEW j \in TxKeys[t], NEW k \in TxKeys[t], Owner(p, j)', Owner(p, k)',
                    NEW d, d = DataAt(p)', lock'[d][j] = t
             PROVE  lock'[d][k] = t
  BY DEF WedgeInv
<1>1. j \in Key /\ k \in Key /\ t # NoTx
  BY TxAssumption
<1>2. CASE ~Request
  <2>1. PICK q \in Part, dd \in Part, e \in Part : dd = DataAt(p)' /\ e = DataAt(q) /\ Carries(p, q, dd, e)
    BY <1>2, Carried
  <2>2. Owner(q, j) /\ Owner(q, k) /\ lock'[d][j] = lock[e][j] /\ lock'[d][k] = lock[e][k] /\ txState' = txState
    BY <1>1, <1>2, <2>1, FlowFrame DEF Carries
  <2> QED
    BY <2>1, <2>2 DEF WedgeInv
<1>3. CASE Request
  <2>1. Owner(p, j) /\ Owner(p, k) /\ DataAt(p) = d
    BY <1>1, <1>3, RequestFrame
  <2>2. d \in Part
    BY <2>1, TakesFrom, Ends DEF DataAt
  <2>3. ASSUME UNCHANGED <<lock, txState>>
        PROVE  lock'[d][k] = t
    BY <2>1, <2>3 DEF WedgeInv
  <2>4. ASSUME NEW u \in Tx, NEW decision \in {"committing", "cancelling"}, Decide(u, decision)
        PROVE  lock'[d][k] = t
    <3>1. lock' = lock /\ txState' = [txState EXCEPT ![u] = decision]
      BY <2>4 DEF Decide, dataVars
    <3>2. CASE t # u
      BY <2>1, <3>1, <3>2 DEF TypeInv, WedgeInv
    <3>3. CASE t = u
      <4>1. decision = "committing"
        BY <3>1, <3>3 DEF TypeInv
      <4>2. HolderOf(k) = t
        BY <2>4, <3>3, <4>1 DEF Decide
      <4> QED
        BY <1>1, <2>1, <3>1, <4>2, OwnerIs
    <3> QED
      BY <3>2, <3>3
  <2>5. ASSUME NEW u \in Tx, NEW q \in Part, Prepare(u, q)
        PROVE  lock'[d][k] = t
    <3>1. Group(u, q) \subseteq Key
      BY TxAssumption DEF Group
    <3>2. /\ txState[u] = "open" /\ txState' = txState
          /\ \A i \in Group(u, q) : lock[q][i] \in {NoTx, u}
          /\ SetLocks(q, Group(u, q), u)
      BY <2>5 DEF Prepare
    <3>3. \A r \in Part, i \in Key : lock'[r][i] = IF r = q /\ i \in Group(u, q) THEN u ELSE lock[r][i]
      BY <3>1, <3>2, SetLocksType
    <3>4. t # u /\ txState[t] = "committing"
      BY <3>2
    <3>5. lock[d][j] = t
      BY <1>1, <2>2, <3>3, <3>4
    <3>6. lock[d][k] = t
      BY <2>1, <3>4, <3>5 DEF WedgeInv
    <3> QED
      BY <1>1, <2>2, <3>2, <3>3, <3>4, <3>6
  <2>6. ASSUME NEW u \in Tx, NEW q \in Part, Commit(u, q)
        PROVE  lock'[d][k] = t
    <3>1. Group(u, q) \subseteq Key /\ Owned(u, q) = Group(u, q) /\ txState' = txState /\ SetLocks(q, Group(u, q), NoTx)
      BY <2>6, TxAssumption DEF Commit, Group
    <3>2. \A r \in Part, i \in Key : lock'[r][i] = IF r = q /\ i \in Group(u, q) THEN NoTx ELSE lock[r][i]
      BY <3>1, SetLocksType
    <3>3. lock[d][j] = t /\ lock[d][k] = t
      <4>1. lock[d][j] = t
        BY <1>1, <2>2, <3>2
      <4> QED
        BY <2>1, <3>1, <4>1 DEF WedgeInv
    <3>4. CASE d = q /\ k \in Group(u, q)
      <4>1. u = t
        BY <3>1, <3>3, <3>4 DEF Owned
      <4>2. Serves(q, k)
        BY <3>4 DEF Group
      <4>3. Owner(q, k) /\ Known(q) /\ ~IsImporting(q)
        BY <1>1, <4>2, ServedKeys
      <4>4. p = q
        BY <1>1, <2>1, <4>3 DEF OwnerInv
      <4>5. Serves(q, j)
        BY <1>1, <2>1, <4>3, <4>4, ServedKeys
      <4>6. j \in Group(u, q)
        BY <4>1, <4>5 DEF Group
      <4> QED
        BY <1>1, <2>2, <3>2, <3>4, <4>6
    <3> QED
      BY <1>1, <2>2, <3>2, <3>3, <3>4
  <2>7. ASSUME NEW u \in Tx, NEW q \in Part, Cancel(u, q)
        PROVE  lock'[d][k] = t
    <3>1. Owned(u, q) \subseteq Key /\ txState[u] = "cancelling" /\ txState' = txState /\ SetLocks(q, Owned(u, q), NoTx)
      BY <2>7, TxAssumption DEF Cancel, Owned, Group
    <3>2. \A r \in Part, i \in Key : lock'[r][i] = IF r = q /\ i \in Owned(u, q) THEN NoTx ELSE lock[r][i]
      BY <3>1, SetLocksType
    <3>3. lock[d][j] = t
      BY <1>1, <2>2, <3>2
    <3>4. lock[d][k] = t /\ t # u
      BY <2>1, <3>1, <3>3 DEF WedgeInv
    <3> QED
      BY <1>1, <2>2, <3>2, <3>4 DEF Owned
  <2>8. ASSUME NEW q \in Part, NEW i \in Key, PutItem(q, i) \/ DeleteItem(q, i)
        PROVE  UNCHANGED <<lock, txState>>
    BY <2>8 DEF PutItem, DeleteItem
  <2>9. ASSUME NEW q \in Part, NEW i \in ReadKeys, StartRead(q, i)
        PROVE  UNCHANGED <<lock, txState>>
    BY <2>9 DEF StartRead, dataVars
  <2>10. ExecuteLocal => UNCHANGED <<lock, txState>>
    BY DEF ExecuteLocal, dataVars
  <2>11. UNCHANGED vars => UNCHANGED <<lock, txState>>
    BY DEF vars, dataVars
  <2> QED
    BY <1>3, <2>3, <2>4, <2>5, <2>6, <2>7, <2>8, <2>9, <2>10, <2>11 DEF Request
<1> QED
  BY <1>2, <1>3
-----------------------------------------------------------------------------
(***************************************************************************)
(* The table, and the read through an importing partition.                 *)
(***************************************************************************)
(* OwnerIs, after a step.                                                  *)
LEMMA OwnerIsNext ==
  ASSUME OwnerInv', NEW p \in Part, NEW k \in Key, Owner(p, k)', NEW d, d = DataAt(p)'
  PROVE  ValueOf(k)' = row'[d][k].val /\ HolderOf(k)' = lock'[d][k]
<1>1. PICK c : c = TheOwner(k)'
  OBVIOUS
<1>2. c \in Part /\ Owner(c, k)'
  BY <1>1 DEF TheOwner
<1>3. c = p
  BY <1>2 DEF OwnerInv
<1> QED
  BY <1>1, <1>3 DEF ValueOf, HolderOf

(* No step of a repartition changes the table.                             *)
LEMMA FlowTable ==
  ASSUME TypeInv, FlowInv, PageInv, CopyInv, OwnerInv, RevisionInv, [Next]_vars, ~Request, NEW k \in Key
  PROVE  ValueOf(k)' = ValueOf(k) /\ HolderOf(k)' = HolderOf(k)
<1>1. OwnerInv'
  BY OwnerStep
<1>2. PICK p \in Part : Owner(p, k)'
  BY <1>1 DEF OwnerInv
<1>3. PICK q \in Part, d \in Part, e \in Part : d = DataAt(p)' /\ e = DataAt(q) /\ Carries(p, q, d, e)
  BY Carried
<1>4. Owner(q, k) /\ row'[d][k] = row[e][k] /\ lock'[d][k] = lock[e][k]
  BY <1>2, <1>3 DEF Carries
<1>5. ValueOf(k)' = row'[d][k].val /\ HolderOf(k)' = lock'[d][k]
  BY <1>1, <1>2, <1>3, OwnerIsNext
<1>6. ValueOf(k) = row[e][k].val /\ HolderOf(k) = lock[e][k]
  BY <1>3, <1>4, OwnerIs
<1> QED
  BY <1>4, <1>5, <1>6

(* A request changes the table at the keys that it touches only.           *)
LEMMA RequestTable ==
  ASSUME TypeInv, FlowInv, PageInv, OwnerInv, [Next]_vars, Request,
         NEW p \in Part, NEW K \in SUBSET Key, Touches(p, K), NEW k \in Key
  PROVE  /\ k \in K => /\ ValueOf(k) = row[p][k].val /\ HolderOf(k) = lock[p][k]
                       /\ ValueOf(k)' = row'[p][k].val /\ HolderOf(k)' = lock'[p][k]
         /\ k \notin K => ValueOf(k)' = ValueOf(k) /\ HolderOf(k)' = HolderOf(k)
<1>1. OwnerInv'
  BY OwnerStep
<1>2. PICK q \in Part : Owner(q, k)
  BY DEF OwnerInv
<1>3. PICK d : d = DataAt(q)
  OBVIOUS
<1>4. Owner(q, k)' /\ d = DataAt(q)'
  BY <1>2, <1>3, RequestFrame
<1>5. /\ k \in K => d = p
      /\ k \notin K => row'[d][k] = row[d][k] /\ lock'[d][k] = lock[d][k]
  BY <1>2, <1>3, RequestData
<1>6. ValueOf(k) = row[d][k].val /\ HolderOf(k) = lock[d][k]
  BY <1>2, <1>3, OwnerIs
<1>7. ValueOf(k)' = row'[d][k].val /\ HolderOf(k)' = lock'[d][k]
  BY <1>1, <1>4, OwnerIsNext
<1> QED
  BY <1>5, <1>6, <1>7

(* The value of a key is a stamp or 0.                                     *)
LEMMA ValueType ==
  ASSUME TypeInv, FlowInv, OwnerInv, NEW k \in Key
  PROVE  ValueOf(k) \in Nat
<1>1. PICK q \in Part : Owner(q, k)
  BY DEF OwnerInv
<1>2. DataAt(q) \in Part
  BY TakesFrom, Ends DEF DataAt
<1>3. row[DataAt(q)][k] \in Row
  BY <1>2 DEF TypeInv
<1> QED
  BY <1>1, <1>3, OwnerIs DEF Row

(* While a repartition goes on, what the source may answer stays true.     *)
LEMMA MayAnswerFlow ==
  ASSUME TypeInv, FlowInv, PageInv, CopyInv, OwnerInv, RevisionInv, [Next]_vars, ~Request,
         NEW at, NEW pl \in Plan, NEW k \in Key, NEW vals, MayAnswer(at, pl, k, vals)
  PROVE  MayAnswer(at, pl, k, vals)'
<1>1. PICK s \in Part : s = SourceOf[pl]
  BY Ends
<1>2. at \in TargetsOf[pl] /\ k \in Slice[at] /\ k \in Moving[pl] /\ k \in Slice[s] /\ HashOf[k] \in Hash
  BY <1>1, MovingKeys, KeyAssumption DEF MayAnswer
<1>3. ValueOf(k)' \in vals
  BY FlowTable DEF MayAnswer
<1>4. ASSUME CallerSliceServed(pl)', ~(KindOf[pl] = "hash_split" /\ HasTerminalOverride(s, HashOf[k])')
      PROVE  row'[s][k].val \in vals
  <2>1. CutOver(pl)'
    BY <1>4 DEF CallerSliceServed, CutOver
  <2>2. CASE CutOver(pl)
    <3>1. state[pl] # "none" /\ ~IsImporting(s)
      BY <1>1, <2>2 DEF CutOver, FlowInv, SourceInv
    <3>2. ~(KindOf[pl] = "hash_split" /\ HasTerminalOverride(s, HashOf[k]))
      BY <1>1, <1>2, <1>4, <3>1, Frozen DEF IsSplit
    <3>3. state'[pl] = "cutover" => state[pl] = "cutover"
      <4>1. ASSUME NEW q \in Plan, Queue(q) \/ PlanStep(q) \/ Cutover(q) \/ CleanupSourceStep(q)
            PROVE  state'[pl] = "cutover" => state[pl] = "cutover"
        BY <2>2, <4>1, CleanupEffect DEF Queue, PlanStep, Cutover, TypeInv, CutOver
      <4>2. ASSUME NEW q \in Plan, NEW t \in TargetsOf[q], AcceptAck(q, t)
            PROVE  state'[pl] = "cutover" => state[pl] = "cutover"
        BY <4>2 DEF AcceptAck, TypeInv
      <4> QED
        BY <4>1, <4>2, StateFrame
    <3>4. CallerSliceServed(pl)
      BY <1>4, <2>2, <3>3 DEF CallerSliceServed
    <3>5. row[s][k].val \in vals
      BY <1>1, <3>2, <3>4 DEF MayAnswer
    <3>6. ASSUME NEW q \in Plan, CleanupSourceStep(q)
          PROVE  row'[s][k] = row[s][k]
      <4>1. /\ state[q] = "completed" /\ (IsSplit(q) => row' = row)
            /\ s # SourceOf[q] \/ k \notin CopiesOf(q) => row'[s][k] = row[s][k]
        BY <3>6, CleanupEffect
      <4>2. ASSUME ~IsSplit(q), s = SourceOf[q], k \in CopiesOf(q)
            PROVE  FALSE
        <5>1. HashOf[k] \in MovingHashes[q]
          BY <4>2 DEF CopiesOf
        <5>2. HasTerminalOverride(s, HashOf[k])
          BY <4>1, <4>2, <5>1 DEF HasTerminalOverride, Promoted, Promotions
        <5>3. ~IsSplit(pl)
          BY <1>1, <3>2, <4>2, <5>2, PromotedKeys, SplitKinds
        <5>4. HashOf[k] \in MovingHashes[pl]
          BY <1>2 DEF MovingHashes, HashesOf
        <5>5. pl = q
          BY <1>1, <1>2, <4>2, <5>1, <5>3, <5>4, PromotedKeys
        <5> QED
          BY <3>4, <4>1, <5>3, <5>5 DEF CallerSliceServed
      <4> QED
        BY <4>1, <4>2
    <3>7. ASSUME NEW g \in pages, ApplyPage(g)
          PROVE  row'[s][k] = row[s][k]
      BY <3>1, <3>7, ApplyFrame
    <3>8. ASSUME NEW q \in Plan, Queue(q) \/ PlanStep(q) \/ Cutover(q)
          PROVE  UNCHANGED row
      BY <3>8 DEF Queue, PlanStep, Cutover, dataVars
    <3>9. ASSUME NEW q \in Plan, NEW t \in TargetsOf[q],
                 SendInit(q, t) \/ InitAsTarget(q, t) \/ InitAnswer(q, t) \/ AcceptAck(q, t)
          PROVE  UNCHANGED row
      BY <3>9 DEF SendInit, InitAsTarget, InitAnswer, AcceptAck, dataVars
    <3>10. ASSUME NEW t \in Part, ServePage(t) \/ AckAnswer(t)
          PROVE  UNCHANGED row
      BY <3>10 DEF ServePage, AckAnswer, dataVars
    <3>11. row'[s][k] = row[s][k]
      BY <3>6, <3>7, <3>8, <3>9, <3>10, NextCases
    <3> QED
      BY <3>5, <3>11
  <2>3. CASE ~CutOver(pl)
    <3>1. PICK q \in Plan : Cutover(q)
      BY <2>1, <2>3, CutOverFrame
    <3>2. state[pl] = "planned" /\ row' = row
      BY <2>1, <2>3, <3>1 DEF Cutover, TypeInv, CutOver, dataVars
    <3>3. ~(KindOf[pl] = "hash_split" /\ HasTerminalOverride(s, HashOf[k]))
      BY <1>1, <1>2, <1>4, <3>2, Frozen DEF IsSplit
    <3>4. Owner(s, k)
      BY <1>1, <1>2, <3>2, <3>3, SourceOwns
    <3>5. DataAt(s) = s
      BY <1>1, <3>2 DEF FlowInv, SourceInv, DataAt
    <3>6. ValueOf(k) = row[s][k].val
      BY <1>2, <3>4, <3>5, MovingKeys, OwnerIs
    <3> QED
      BY <3>2, <3>6 DEF MayAnswer
  <2> QED
    BY <2>2, <2>3
<1> QED
  BY <1>1, <1>2, <1>3, <1>4 DEF MayAnswer

(* A request that the read sees leaves it true as well.                    *)
LEMMA MayAnswerRequest ==
  ASSUME TypeInv, FlowInv, Request,
         NEW at, NEW pl \in Plan, NEW k \in Key, NEW vals, MayAnswer(at, pl, k, vals),
         NEW more, vals \subseteq more, ValueOf(k)' \in more
  PROVE  MayAnswer(at, pl, k, more)'
<1>1. PICK s \in Part : s = SourceOf[pl]
  BY Ends
<1>2. at \in TargetsOf[pl] /\ k \in Slice[at] /\ k \in Moving[pl]
  BY MovingKeys DEF MayAnswer
<1>3. /\ CallerSliceServed(pl)' <=> CallerSliceServed(pl)
      /\ HasTerminalOverride(s, HashOf[k])' <=> HasTerminalOverride(s, HashOf[k])
  BY RequestFrame DEF flowVars, CallerSliceServed, CutOver, HasTerminalOverride, Promoted
<1>4. ASSUME CallerSliceServed(pl)
      PROVE  row'[s][k] = row[s][k]
  <2>1. PICK p \in Part, K \in SUBSET Key : Touches(p, K)
    BY Requests
  <2>2. GivenAway(s, k)
    BY <1>1, <1>2, <1>4 DEF GivenAway, CallerSliceServed, CutOver
  <2>3. ~Serves(s, k)
    BY <2>2, ServedKeys, OwnedKeys
  <2> QED
    BY <2>1, <2>3 DEF Touches
<1> QED
  BY <1>1, <1>2, <1>3, <1>4 DEF MayAnswer

(* The parts of a read that runs.                                          *)
LEMMA OpenParts ==
  ASSUME read \in OpenRead
  PROVE  \E at \in Part, pl \in Plan, k \in Key, vals \in SUBSET Nat :
           at = read.at /\ pl = read.plan /\ k = read.key /\ vals = read.vals
<1>1. read.at \in Part /\ read.plan \in Plan /\ read.key \in Key /\ read.vals \in SUBSET Nat
  BY DEF OpenRead
<1> QED
  BY <1>1, Zenon

(* A request that writes, with a read that is told what it writes.         *)
LEMMA ReadSeesStep ==
  ASSUME TypeInv, FlowInv, PageInv, OwnerInv, ReadInv, ReadThroughIsCurrent, [Next]_vars, Request,
         NEW p \in Part, NEW K \in SUBSET Key, Touches(p, K), NEW val \in Nat, ReadSees(K, val),
         \A k \in K : row'[p][k].val = val
  PROVE  ReadInv' /\ ReadThroughIsCurrent'
<1>1. CASE read.state # "open"
  BY <1>1 DEF ReadSees, ReadInv, ReadThroughIsCurrent
<1>2. CASE read.state = "open"
  <2>1. read \in OpenRead
    BY <1>2 DEF ReadInv, NoRead
  <2>2. PICK at \in Part, pl \in Plan, k \in Key, vals \in SUBSET Nat :
          at = read.at /\ pl = read.plan /\ k = read.key /\ vals = read.vals
    BY <2>1, OpenParts
  <2>3. MayAnswer(at, pl, k, vals)
    BY <1>2, <2>2 DEF ReadInv
  <2>4. PICK more : more = IF k \in K THEN vals \cup {val} ELSE vals
    OBVIOUS
  <2>5. /\ read' \in OpenRead /\ read'.state = "open" /\ read'.at = at /\ read'.plan = pl /\ read'.key = k
        /\ read'.vals = more
    BY <1>2, <2>1, <2>2, <2>4 DEF ReadSees, OpenRead
  <2>6. ValueOf(k)' \in more
    <3>1. /\ k \in K => ValueOf(k)' = row'[p][k].val
          /\ k \notin K => ValueOf(k)' = ValueOf(k)
      BY RequestTable
    <3> QED
      BY <2>3, <2>4, <3>1 DEF MayAnswer
  <2>7. MayAnswer(at, pl, k, more)'
    BY <2>3, <2>4, <2>6, MayAnswerRequest
  <2> QED
    BY <2>5, <2>7 DEF ReadInv, ReadThroughIsCurrent
<1> QED
  BY <1>1, <1>2

(* A request that writes no row.                                           *)
LEMMA ReadStands ==
  ASSUME TypeInv, FlowInv, PageInv, OwnerInv, ReadInv, ReadThroughIsCurrent, [Next]_vars, Request,
         UNCHANGED <<row, read>>
  PROVE  ReadInv' /\ ReadThroughIsCurrent'
<1>1. CASE read.state # "open"
  BY <1>1 DEF ReadInv, ReadThroughIsCurrent
<1>2. CASE read.state = "open"
  <2>1. read \in OpenRead
    BY <1>2 DEF ReadInv, NoRead
  <2>2. PICK at \in Part, pl \in Plan, k \in Key, vals \in SUBSET Nat :
          at = read.at /\ pl = read.plan /\ k = read.key /\ vals = read.vals
    BY <2>1, OpenParts
  <2>3. MayAnswer(at, pl, k, vals)
    BY <1>2, <2>2 DEF ReadInv
  <2>4. PICK p \in Part, K \in SUBSET Key : Touches(p, K)
    BY Requests
  <2>5. ValueOf(k)' = ValueOf(k)
    <3>1. /\ k \in K => ValueOf(k) = row[p][k].val /\ ValueOf(k)' = row'[p][k].val
          /\ k \notin K => ValueOf(k)' = ValueOf(k)
      BY <2>4, RequestTable
    <3> QED
      BY <3>1
  <2>6. MayAnswer(at, pl, k, vals)'
    BY <2>3, <2>5, MayAnswerRequest DEF MayAnswer
  <2> QED
    BY <1>2, <2>2, <2>6 DEF ReadInv, ReadThroughIsCurrent
<1> QED
  BY <1>1, <1>2

(* The read returns a value that the key had while it ran.                 *)
LEMMA ReadStep ==
  ASSUME TypeInv, FlowInv, PageInv, CopyInv, OwnerInv, RevisionInv, ReadInv, ReadThroughIsCurrent, [Next]_vars
  PROVE  ReadInv' /\ ReadThroughIsCurrent'
<1>1. CASE ~Request
  <2>1. read' = read
    BY <1>1, FlowFrame
  <2>2. CASE read.state # "open"
    BY <2>1, <2>2 DEF ReadInv, ReadThroughIsCurrent
  <2>3. CASE read.state = "open"
    <3>1. read \in OpenRead
      BY <2>3 DEF ReadInv, NoRead
    <3>2. PICK at \in Part, pl \in Plan, k \in Key, vals \in SUBSET Nat :
            at = read.at /\ pl = read.plan /\ k = read.key /\ vals = read.vals
      BY <3>1, OpenParts
    <3>3. MayAnswer(at, pl, k, vals)
      BY <2>3, <3>2 DEF ReadInv
    <3>4. MayAnswer(at, pl, k, vals)'
      BY <1>1, <3>3, MayAnswerFlow
    <3> QED
      BY <2>1, <2>3, <3>1, <3>2, <3>4 DEF ReadInv, ReadThroughIsCurrent
  <2> QED
    BY <2>2, <2>3
<1>2. ASSUME NEW p \in Part, NEW k \in Key, PutItem(p, k)
      PROVE  ReadInv' /\ ReadThroughIsCurrent'
  <2>1. Request /\ Touches(p, {k}) /\ {k} \in SUBSET Key
    BY <1>2, Touching DEF Request
  <2>2. Written(p, {k})
    BY <1>2 DEF PutItem
  <2>3. \A j \in {k} : row'[p][j].val = clock + 1
    BY <2>1, <2>2, Writes
  <2>4. ReadSees({k}, clock + 1) /\ clock + 1 \in Nat
    BY <2>2 DEF Written, TypeInv
  <2> QED
    BY <2>1, <2>3, <2>4, ReadSeesStep
<1>3. ASSUME NEW p \in Part, NEW k \in Key, DeleteItem(p, k)
      PROVE  ReadInv' /\ ReadThroughIsCurrent'
  <2>1. Request /\ Touches(p, {k}) /\ {k} \in SUBSET Key
    BY <1>3, Touching DEF Request
  <2>2. ReadSees({k}, 0) /\ row'[p][k] = NoRow
    BY <1>3 DEF DeleteItem, TypeInv
  <2>3. \A j \in {k} : row'[p][j].val = 0
    BY <2>2 DEF NoRow
  <2> QED
    BY <2>1, <2>2, <2>3, ReadSeesStep
<1>4. ASSUME NEW t \in Tx, NEW p \in Part, Commit(t, p)
      PROVE  ReadInv' /\ ReadThroughIsCurrent'
  <2>1. Request /\ Touches(p, Group(t, p)) /\ Group(t, p) \in SUBSET Key
    BY <1>4, Touching DEF Request
  <2>2. Written(p, Group(t, p))
    BY <1>4 DEF Commit
  <2>3. \A j \in Group(t, p) : row'[p][j].val = clock + 1
    BY <2>1, <2>2, Writes
  <2>4. ReadSees(Group(t, p), clock + 1) /\ clock + 1 \in Nat
    BY <2>2 DEF Written, TypeInv
  <2> QED
    BY <2>1, <2>3, <2>4, ReadSeesStep
<1>5. CASE Request /\ UNCHANGED <<row, read>>
  BY <1>5, ReadStands
<1>6. ASSUME NEW t \in Tx, NEW p \in Part, Prepare(t, p) \/ Cancel(t, p)
      PROVE  UNCHANGED <<row, read>>
  BY <1>6 DEF Prepare, Cancel
<1>7. ASSUME NEW t \in Tx, NEW decision \in {"committing", "cancelling"}, Decide(t, decision)
      PROVE  UNCHANGED <<row, read>>
  BY <1>7 DEF Decide, dataVars
<1>8. ASSUME NEW p \in Part, NEW k \in ReadKeys, StartRead(p, k)
      PROVE  ReadInv' /\ ReadThroughIsCurrent'
  <2>1. k \in Key /\ Request
    BY <1>8, PartAssumption DEF StartRead, Request
  <2>2. PICK pl \in Plan : Takes(p, pl)
    BY <1>8, TakesFrom DEF StartRead
  <2>3. p \in TargetsOf[pl] /\ k \in Slice[p]
    BY <1>8, <2>2, TakesFrom DEF StartRead
  <2>4. PICK val \in Nat : val = ValueOf(k)
    BY <2>1, ValueType
  <2>5. read' = [state |-> "open", at |-> p, plan |-> pl, key |-> k, answer |-> 0, vals |-> {val}]
    BY <1>8, <2>2, <2>4 DEF StartRead, Takes
  <2>6. MayAnswer(p, pl, k, {val})
    <3>1. ASSUME CallerSliceServed(pl), ~(KindOf[pl] = "hash_split" /\ HasTerminalOverride(SourceOf[pl], HashOf[k]))
          PROVE  row[SourceOf[pl]][k].val = val
      <4>1. CutOver(pl) /\ BelongsToTarget(pl, p, k)
        BY <2>3, <3>1 DEF CallerSliceServed, CutOver, BelongsToTarget
      <4>2. Owner(p, k)
        BY <2>1, <2>2, <4>1, OwnedByTarget
      <4>3. DataAt(p) = SourceOf[pl]
        BY <2>2 DEF DataAt, Takes
      <4> QED
        BY <2>1, <2>4, <4>2, <4>3, OwnerIs
    <3> QED
      BY <2>3, <2>4, <3>1 DEF MayAnswer
  <2>7. ValueOf(k)' \in {val}
    <3>1. UNCHANGED row
      BY <1>8 DEF StartRead, dataVars
    <3>2. PICK q \in Part, K \in SUBSET Key : Touches(q, K)
      BY <2>1, Requests
    <3>3. /\ k \in K => ValueOf(k) = row[q][k].val /\ ValueOf(k)' = row'[q][k].val
          /\ k \notin K => ValueOf(k)' = ValueOf(k)
      BY <2>1, <3>2, RequestTable
    <3> QED
      BY <2>4, <3>1, <3>3
  <2>8. MayAnswer(p, pl, k, {val})'
    BY <2>1, <2>6, <2>7, MayAnswerRequest
  <2>9. read' \in OpenRead
    BY <2>1, <2>4, <2>5 DEF OpenRead
  <2> QED
    BY <2>5, <2>8, <2>9 DEF ReadInv, ReadThroughIsCurrent
<1>9. CASE ExecuteLocal
  <2>1. read.state = "open" /\ CallerSliceServed(read.plan)
    BY <1>9 DEF ExecuteLocal
  <2>2. read \in OpenRead
    BY <2>1 DEF ReadInv, NoRead
  <2>3. PICK at \in Part, pl \in Plan, k \in Key, vals \in SUBSET Nat :
          at = read.at /\ pl = read.plan /\ k = read.key /\ vals = read.vals
    BY <2>2, OpenParts
  <2>4. MayAnswer(at, pl, k, vals) /\ CallerSliceServed(pl)
    BY <2>1, <2>3 DEF ReadInv
  <2>5. PICK answer : answer = IF KindOf[pl] = "hash_split" /\ HasTerminalOverride(SourceOf[pl], HashOf[k])
                               THEN ValueOf(k) ELSE row[SourceOf[pl]][k].val
    OBVIOUS
  <2>6. answer \in vals
    BY <2>4, <2>5 DEF MayAnswer
  <2>7. read' = [read EXCEPT !.state = "answered", !.answer = answer]
    BY <1>9, <2>3, <2>5 DEF ExecuteLocal
  <2>8. read' \in OpenRead /\ read'.state = "answered" /\ read'.answer = answer /\ read'.vals = vals
    BY <2>2, <2>3, <2>6, <2>7 DEF OpenRead
  <2> QED
    BY <2>6, <2>8 DEF ReadInv, ReadThroughIsCurrent
<1>10. UNCHANGED vars => UNCHANGED <<row, read>>
  BY DEF vars, dataVars
<1> QED
  BY <1>1, <1>2, <1>3, <1>4, <1>5, <1>6, <1>7, <1>8, <1>9, <1>10 DEF Request
-----------------------------------------------------------------------------
(***************************************************************************)
(* The invariant.                                                          *)
(***************************************************************************)
(* At first the root has every key.                                        *)
LEMMA InitInv == Init => IInv
<1> SUFFICES ASSUME Init
             PROVE  IInv
  OBVIOUS
<1>1. TypeInv
  BY TypeInit
<1>2. FlowInv
  <2>1. SourceInv
    BY DEF Init, SourceInv, Unfinished
  <2>2. CallInv
    BY DEF Init, CallInv, CutOver
  <2>3. TargetInv
    BY DEF Init, TargetInv, NoImport
  <2>4. AdoptedInv
    BY DEF Init, AdoptedInv, Takes, IsImporting, NoImport
  <2> QED
    BY <2>1, <2>2, <2>3, <2>4 DEF FlowInv
<1>3. PageInv
  BY DEF Init, PageInv
<1>4. CopyInv
  BY DEF Init, CopyInv, Takes, IsImporting, NoImport
<1>5. \A p \in Part, k \in Key : Owner(p, k) <=> p = Root
  <2>1. \A p \in Part : Entered(p) <=> p = Root
    BY DEF Init, Entered, Known, NoImport
  <2>2. \A p \in Part, k \in Key : ~GivenAway(p, k) /\ ~Withheld(p, k)
    BY DEF Init, GivenAway, CutOver, Withheld, Inherits, IsImporting, NoImport
  <2> QED
    BY <2>1, <2>2, OwnedKeys, PartAssumption
<1>6. OwnerInv
  BY <1>5, PartAssumption DEF OwnerInv
<1>7. RevisionInv
  <2>1. DataAt(Root) = Root
    BY PartAssumption DEF Init, DataAt, IsImporting, NoImport
  <2>2. \A k \in Key : RevisionAt(Root, k) = 0 /\ seen[k] = 0
    BY PartAssumption DEF Init, RevisionAt
  <2> QED
    BY <1>5, <2>1, <2>2 DEF RevisionInv
<1>8. WedgeInv
  BY DEF Init, WedgeInv
<1>9. ValueInv
  BY DEF Init, ValueInv
<1>10. ReadInv /\ ReadThroughIsCurrent
  BY DEF Init, ReadInv, ReadThroughIsCurrent, NoRead
<1> QED
  BY <1>1, <1>2, <1>3, <1>4, <1>6, <1>7, <1>8, <1>9, <1>10 DEF IInv

(* Every step keeps it.                                                    *)
LEMMA InvStep == IInv /\ [Next]_vars => IInv'
  BY TypeStep, FlowStep, PageStep, CopyStep, OwnerStep, RevisionStep, WedgeStep, ValueStep, ReadStep DEF IInv

(* The invariant holds in every reachable state, for every topology that   *)
(* the assumptions describe.                                               *)
THEOREM Invariance == Spec => []IInv
  BY InitInv, InvStep, PTL DEF Spec

(* Every key has exactly one owner, and only it executes requests for the  *)
(* key.                                                                    *)
THEOREM OneOwner == Spec => []EveryKeyHasOneOwner
<1>1. IInv => EveryKeyHasOneOwner
  <2> SUFFICES ASSUME IInv, NEW k \in Key
               PROVE  \E p \in Part : Owner(p, k) /\ \A q \in Part : (Owner(q, k) \/ Serves(q, k)) => q = p
    BY DEF EveryKeyHasOneOwner
  <2>1. PICK p \in Part : Owner(p, k)
    BY DEF IInv, OwnerInv
  <2>2. \A q \in Part : Serves(q, k) => Owner(q, k)
    BY ServedKeys DEF IInv
  <2>3. \A q \in Part : Owner(q, k) => q = p
    BY <2>1 DEF IInv, OwnerInv
  <2> QED
    BY <2>1, <2>2, <2>3
<1> QED
  BY <1>1, Invariance, PTL

(* A commit finds all locks of its keys on their owner, or none.           *)
THEOREM CommitGoesOn == Spec => []CommitNeverWedges
<1>1. IInv => CommitNeverWedges
  <2> SUFFICES ASSUME IInv, NEW t \in Tx, NEW p \in Part, txState[t] = "committing",
                      NEW j \in Owned(t, p)
               PROVE  Owned(t, p) = Group(t, p)
    BY DEF CommitNeverWedges
  <2>1. j \in TxKeys[t] /\ j \in Key /\ Serves(p, j) /\ lock[p][j] = t
    BY TxAssumption DEF Owned, Group
  <2>2. Owner(p, j) /\ DataAt(p) = p
    BY <2>1, ServedKeys DEF IInv, DataAt
  <2>3. ASSUME NEW k \in Group(t, p)
        PROVE  lock[p][k] = t
    <3>1. k \in TxKeys[t] /\ k \in Key /\ Serves(p, k)
      BY TxAssumption DEF Group
    <3>2. Owner(p, k)
      BY <3>1, ServedKeys DEF IInv
    <3> QED
      BY <2>1, <2>2, <3>1, <3>2 DEF IInv, WedgeInv
  <2> QED
    BY <2>3 DEF Owned
<1> QED
  BY <1>1, Invariance, PTL

(* A partition that executes requests for a key goes on with its           *)
(* revisions.                                                              *)
THEOREM RevisionsGoOn == Spec => []RevisionsContinue
<1>1. IInv => RevisionsContinue
  <2> SUFFICES ASSUME IInv, NEW p \in Part, NEW k \in Key, Serves(p, k)
               PROVE  RevisionAt(p, k) >= seen[k]
    BY DEF RevisionsContinue
  <2>1. Owner(p, k) /\ DataAt(p) = p
    BY ServedKeys DEF IInv, DataAt
  <2> QED
    BY <2>1 DEF IInv, RevisionInv
<1> QED
  BY <1>1, Invariance, PTL

(* What a source answers for a target that still imports is current.       *)
THEOREM ReadThrough == Spec => []ReadThroughIsCurrent
<1>1. IInv => ReadThroughIsCurrent
  BY DEF IInv
<1> QED
  BY <1>1, Invariance, PTL
-----------------------------------------------------------------------------
(***************************************************************************)
(* The refinement: the partitions implement one table.                     *)
(***************************************************************************)
Values == [k \in Key |-> ValueOf(k)]
Holders == [k \in Key |-> HolderOf(k)]

(* At first the table is empty.                                            *)
LEMMA TableInit == Init => AbstractTable!TInit
<1> SUFFICES ASSUME Init, NEW k \in Key
             PROVE  clock = 0 /\ ValueOf(k) = 0 /\ HolderOf(k) = NoTx
  BY DEF Init, AbstractTable!TInit
<1>1. IInv
  BY InitInv
<1>2. PICK p \in Part : Owner(p, k)
  BY <1>1 DEF IInv, OwnerInv
<1>3. DataAt(p) = p
  BY DEF Init, DataAt, IsImporting, NoImport
<1>4. row[p][k] = NoRow /\ lock[p][k] = NoTx /\ clock = 0
  BY DEF Init
<1> QED
  BY <1>1, <1>2, <1>3, <1>4, OwnerIs DEF IInv, NoRow

(* A step that leaves the data of every key alone is a stutter.            *)
LEMMA TableStands ==
  ASSUME clock' = clock, \A k \in Key : ValueOf(k)' = ValueOf(k) /\ HolderOf(k)' = HolderOf(k)
  PROVE  UNCHANGED AbstractTable!tvars
<1>1. [k \in Key |-> ValueOf(k)'] = [k \in Key |-> ValueOf(k)]
  OBVIOUS
<1>2. [k \in Key |-> HolderOf(k)'] = [k \in Key |-> HolderOf(k)]
  OBVIOUS
<1> QED
  BY <1>1, <1>2 DEF AbstractTable!tvars

(* What a request does to the table, by what it does to its keys where it  *)
(* executes.                                                               *)
LEMMA TableAfter ==
  ASSUME TypeInv, FlowInv, PageInv, OwnerInv, [Next]_vars, Request,
         NEW p \in Part, NEW K \in SUBSET Key, Touches(p, K)
  PROVE  /\ \A k \in K : Values[k] = row[p][k].val /\ Holders[k] = lock[p][k]
         /\ Values' = [k \in Key |-> IF k \in K THEN row'[p][k].val ELSE Values[k]]
         /\ Holders' = [k \in Key |-> IF k \in K THEN lock'[p][k] ELSE Holders[k]]
<1>1. \A k \in Key :
        /\ k \in K => /\ ValueOf(k) = row[p][k].val /\ HolderOf(k) = lock[p][k]
                      /\ ValueOf(k)' = row'[p][k].val /\ HolderOf(k)' = lock'[p][k]
        /\ k \notin K => ValueOf(k)' = ValueOf(k) /\ HolderOf(k)' = HolderOf(k)
  BY RequestTable
<1>2. \A k \in K : Values[k] = row[p][k].val /\ Holders[k] = lock[p][k]
  BY <1>1 DEF Values, Holders
<1>3. Values' = [k \in Key |-> ValueOf(k)'] /\ Holders' = [k \in Key |-> HolderOf(k)']
  BY DEF Values, Holders
<1>4. \A k \in Key : ValueOf(k)' = IF k \in K THEN row'[p][k].val ELSE Values[k]
  BY <1>1 DEF Values
<1>5. \A k \in Key : HolderOf(k)' = IF k \in K THEN lock'[p][k] ELSE Holders[k]
  BY <1>1 DEF Holders
<1> QED
  BY <1>2, <1>3, <1>4, <1>5

(* Every step is a step of the table or leaves it alone.                   *)
LEMMA TableStep == IInv /\ [Next]_vars => [AbstractTable!TNext]_(AbstractTable!tvars)
<1> SUFFICES ASSUME IInv, [Next]_vars
             PROVE  AbstractTable!TNext \/ UNCHANGED AbstractTable!tvars
  OBVIOUS
<1> USE DEF IInv
<1>1. CASE ~Request
  <2>1. clock' = clock
    BY <1>1, FlowFrame
  <2>2. \A k \in Key : ValueOf(k)' = ValueOf(k) /\ HolderOf(k)' = HolderOf(k)
    BY <1>1, FlowTable
  <2> QED
    BY <2>1, <2>2, TableStands
<1>2. CASE Request /\ UNCHANGED <<row, lock, clock>>
  <2>1. PICK p \in Part, K \in SUBSET Key : Touches(p, K)
    BY <1>2, Requests
  <2>2. \A k \in Key : ValueOf(k)' = ValueOf(k) /\ HolderOf(k)' = HolderOf(k)
    BY <1>2, <2>1, RequestTable
  <2> QED
    BY <1>2, <2>2, TableStands
<1>3. ASSUME NEW p \in Part, NEW k \in Key, PutItem(p, k)
      PROVE  AbstractTable!TNext
  <2>1. Request /\ Touches(p, {k}) /\ {k} \in SUBSET Key
    BY <1>3, Touching DEF Request
  <2>2. lock[p][k] = NoTx /\ lock' = lock /\ clock < MaxClock /\ Written(p, {k})
    BY <1>3 DEF PutItem
  <2>3. row'[p][k].val = clock + 1 /\ clock' = clock + 1
    BY <2>2, Writes DEF Written
  <2>4. /\ Holders[k] = lock[p][k]
        /\ Values' = [j \in Key |-> IF j \in {k} THEN row'[p][j].val ELSE Values[j]]
        /\ Holders' = [j \in Key |-> IF j \in {k} THEN lock'[p][j] ELSE Holders[j]]
    BY <2>1, TableAfter
  <2>5. Values' = [Values EXCEPT ![k] = clock + 1]
    BY <2>3, <2>4 DEF Values
  <2>6. Holders' = Holders /\ Holders[k] = NoTx
    BY <2>2, <2>4 DEF Holders
  <2>7. AbstractTable!TPut(k)
    BY <2>2, <2>3, <2>5, <2>6 DEF AbstractTable!TPut, Values, Holders
  <2> QED
    BY <2>7 DEF AbstractTable!TNext
<1>4. ASSUME NEW p \in Part, NEW k \in Key, DeleteItem(p, k)
      PROVE  AbstractTable!TNext
  <2>1. Request /\ Touches(p, {k}) /\ {k} \in SUBSET Key
    BY <1>4, Touching DEF Request
  <2>2. /\ lock[p][k] = NoTx /\ row[p][k] # NoRow /\ row'[p][k] = NoRow
        /\ UNCHANGED <<lock, clock>>
    BY <1>4 DEF DeleteItem, TypeInv
  <2>3. row[p][k].val # 0 /\ row'[p][k].val = 0
    BY <2>2 DEF ValueInv, NoRow
  <2>4. /\ Values[k] = row[p][k].val /\ Holders[k] = lock[p][k]
        /\ Values' = [j \in Key |-> IF j \in {k} THEN row'[p][j].val ELSE Values[j]]
        /\ Holders' = [j \in Key |-> IF j \in {k} THEN lock'[p][j] ELSE Holders[j]]
    BY <2>1, TableAfter
  <2>5. Values' = [Values EXCEPT ![k] = 0] /\ Values[k] # 0
    BY <2>3, <2>4 DEF Values
  <2>6. Holders' = Holders /\ Holders[k] = NoTx
    BY <2>2, <2>4 DEF Holders
  <2>7. AbstractTable!TDelete(k)
    BY <2>2, <2>5, <2>6 DEF AbstractTable!TDelete, Values, Holders
  <2> QED
    BY <2>7 DEF AbstractTable!TNext
<1>5. ASSUME NEW t \in Tx, NEW p \in Part, NEW K \in SUBSET TxKeys[t], K # {},
             \/ AbstractTable!TLock(t, K) \/ AbstractTable!TCommit(t, K) \/ AbstractTable!TCancel(t, K)
      PROVE  AbstractTable!TNext
  BY <1>5 DEF AbstractTable!TNext
<1>6. ASSUME NEW t \in Tx, NEW p \in Part, Prepare(t, p) \/ Commit(t, p) \/ Cancel(t, p)
      PROVE  AbstractTable!TNext
  <2>1. PICK K \in SUBSET Key : K = Group(t, p)
    BY TxAssumption DEF Group
  <2>2. Request /\ Touches(p, K) /\ K \subseteq TxKeys[t]
    BY <1>6, <2>1, Touching DEF Request, Group
  <2>3. /\ \A k \in K : Values[k] = row[p][k].val /\ Holders[k] = lock[p][k]
        /\ Values' = [k \in Key |-> IF k \in K THEN row'[p][k].val ELSE Values[k]]
        /\ Holders' = [k \in Key |-> IF k \in K THEN lock'[p][k] ELSE Holders[k]]
    BY <2>2, TableAfter
  <2>4. CASE Prepare(t, p)
    <3>1. /\ K # {} /\ \A k \in K : lock[p][k] \in {NoTx, t}
          /\ UNCHANGED <<row, clock>> /\ SetLocks(p, K, t)
      BY <2>1, <2>4 DEF Prepare
    <3>2. \A k \in K : lock'[p][k] = t /\ row'[p][k].val = Values[k]
      BY <2>3, <3>1 DEF SetLocks, TypeInv
    <3>3. Values' = Values /\ Holders' = [k \in Key |-> IF k \in K THEN t ELSE Holders[k]]
      BY <2>3, <3>2 DEF Values
    <3>4. \A k \in K : Holders'[k] = t /\ Holders[k] \in {NoTx, t}
      BY <2>3, <3>1, <3>2
    <3>5. AbstractTable!TLock(t, K)
      BY <3>1, <3>3, <3>4 DEF AbstractTable!TLock, Values, Holders
    <3> QED
      BY <1>5, <2>2, <3>1, <3>5
  <2>5. CASE Commit(t, p)
    <3>1. /\ K # {} /\ \A k \in K : lock[p][k] = t
          /\ Written(p, K) /\ SetLocks(p, K, NoTx)
      BY <2>1, <2>5 DEF Commit, Owned
    <3>2. \A k \in K : lock'[p][k] = NoTx /\ row'[p][k].val = clock + 1
      BY <3>1, Writes DEF SetLocks, TypeInv
    <3>3. /\ Values' = [k \in Key |-> IF k \in K THEN clock + 1 ELSE Values[k]]
          /\ Holders' = [k \in Key |-> IF k \in K THEN NoTx ELSE Holders[k]]
      BY <2>3, <3>2
    <3>4. clock' = clock + 1 /\ \A k \in K : Holders[k] = t
      BY <2>3, <3>1 DEF Written
    <3>5. AbstractTable!TCommit(t, K)
      BY <3>3, <3>4 DEF AbstractTable!TCommit, Values, Holders
    <3> QED
      BY <1>5, <2>2, <3>1, <3>5
  <2>6. CASE Cancel(t, p)
    <3>1. PICK O \in SUBSET K : O = Owned(t, p)
      BY <2>1 DEF Owned
    <3>2. /\ O # {} /\ \A k \in O : lock[p][k] = t
          /\ UNCHANGED <<row, clock>> /\ SetLocks(p, O, NoTx)
      BY <2>6, <3>1 DEF Cancel, Owned
    <3>3. \A k \in K : /\ row'[p][k].val = Values[k]
                       /\ lock'[p][k] = IF k \in O THEN NoTx ELSE Holders[k]
      BY <2>3, <3>2 DEF SetLocks, TypeInv
    <3>4. Values' = Values /\ Holders' = [k \in Key |-> IF k \in O THEN NoTx ELSE Holders[k]]
      BY <2>3, <3>1, <3>3 DEF Values
    <3>5. \A k \in O : Holders[k] = t
      BY <2>3, <3>1, <3>2
    <3>6. AbstractTable!TCancel(t, O)
      BY <3>2, <3>4, <3>5 DEF AbstractTable!TCancel, Values, Holders
    <3> QED
      BY <1>5, <2>2, <3>1, <3>2, <3>6
  <2> QED
    BY <1>6, <2>4, <2>5, <2>6
<1>7. ASSUME NEW t \in Tx, NEW decision \in {"committing", "cancelling"}, Decide(t, decision)
      PROVE  UNCHANGED <<row, lock, clock>>
  BY <1>7 DEF Decide, dataVars
<1>8. ASSUME NEW p \in Part, NEW k \in ReadKeys, StartRead(p, k)
      PROVE  UNCHANGED <<row, lock, clock>>
  BY <1>8 DEF StartRead, dataVars
<1>9. ExecuteLocal => UNCHANGED <<row, lock, clock>>
  BY DEF ExecuteLocal, dataVars
<1>10. UNCHANGED vars => UNCHANGED <<row, lock, clock>>
  BY DEF vars, dataVars
<1> QED
  BY <1>1, <1>2, <1>3, <1>4, <1>6, <1>7, <1>8, <1>9, <1>10 DEF Request

(* Moving changes, loses and brings back nothing: what the owners of the   *)
(* keys hold is at every moment one table, which only requests change.     *)
THEOREM Implementation == Spec => ImplementsTable
<1>1. Init => AbstractTable!TInit
  BY TableInit
<1>2. IInv /\ [Next]_vars => [AbstractTable!TNext]_(AbstractTable!tvars)
  BY TableStep
<1> QED
  BY <1>1, <1>2, Invariance, PTL DEF Spec, ImplementsTable, AbstractTable!TSpec
=============================================================================
