---------------------------- MODULE Participant -----------------------------
(***************************************************************************)
(* The partitions as participants of transactions: item rows, locks        *)
(* (pending_transactions and pending_tx_info), the local steps of prepare, *)
(* commit, cancel and stale recovery (transaction-participant.ts and       *)
(* do-partition.ts), single-shot transactions and plain writes.  A local   *)
(* step is one storage transaction with no await in it, so it is one       *)
(* action.                                                                 *)
(***************************************************************************)
EXTENDS PartitionStore, FiniteSets

CONSTANTS
  Tx,          \* transactions
  NoTx,        \* the holder of an absent lock
  Key,         \* item keys
  Part,        \* partitions
  PartOf,      \* [Key -> Part]
  Timestamp,   \* transaction-order timestamps
  MAX_ITEMS_PER_TX,   \* the operations of a request at most
  MaxWrites    \* bound on the writes outside the coordinator

ASSUME TxAssumption == NoTx \notin Tx
ASSUME PartOfAssumption == PartOf \in [Key -> Part]
ASSUME TimestampAssumption == Timestamp \subseteq Nat \ {0}
ASSUME MaxItemsAssumption == MAX_ITEMS_PER_TX \in Nat \ {0}
ASSUME MaxWritesAssumption == MaxWrites \in Nat

Operation == [key : Key, op : Op, cond : Cond]
Request == {r \in Seq(Operation) : Len(r) <= MAX_ITEMS_PER_TX}

VARIABLES
  item,     \* [Key -> row]
  delTs,    \* [Part -> Nat]: max_delete_tx_order_ts
  delV,     \* [Part -> Nat]: max_deleted_v
  lock,     \* [Key -> lock]: the row of pending_transactions
  guarded,  \* [Part -> SUBSET Tx]: guarded_at of pending_tx_info
  writes,   \* the number of writes outside the coordinator
  applied   \* history: [Tx -> [Key -> Nat]], how often a commit applied the key

partVars == <<item, delTs, delV, lock, guarded, writes, applied>>

NoLock == [tx |-> NoTx, ops |-> << >>, op |-> "none", ts |-> 0, data |-> NoData]

PartInit ==
  /\ item = [k \in Key |-> NoRow]
  /\ delTs = [p \in Part |-> 0]
  /\ delV = [p \in Part |-> 0]
  /\ lock = [k \in Key |-> NoLock]
  /\ guarded = [p \in Part |-> {}]
  /\ writes = 0
  /\ applied = [t \in Tx |-> [k \in Key |-> 0]]

PartsOf(r) == {PartOf[k] : k \in KeysOf(r)}
KeysAt(r, p) == {k \in KeysOf(r) : PartOf[k] = p}
LockedBy(t, p) == {k \in Key : PartOf[k] = p /\ lock[k].tx = t}
-----------------------------------------------------------------------------
(***************************************************************************)
(* Writing.  A storage transaction on partition p starts from its rows and *)
(* its two marks; each entry [key, op, data] is one write at timestamp ts. *)
(***************************************************************************)
(* #write. *)
Write(s, e, ts) ==
  LET row == s.rows[e.key]
  IN  CASE e.op \in Writes ->
             [s EXCEPT !.rows = [@ EXCEPT ![e.key] = UpsertItem(row, e.data, ts, s.ts, s.v)]]
        [] e.op = "delete" /\ Present(row) ->
             [rows |-> [s.rows EXCEPT ![e.key] = NoRow],
              ts |-> MaxOf(s.ts, DeleteStamp(row, ts)), v |-> MaxOf(s.v, DeleteVersion(row))]
        [] e.op = "check" /\ Present(row) ->
             [s EXCEPT !.rows = [@ EXCEPT ![e.key] = BumpItemReadTs(row, ts)]]
        [] OTHER -> [s EXCEPT !.ts = MaxOf(@, ts)]

(* Partition p after each of the entries, in the order of their opIndex. *)
StoreAfter(p, entries, ts) ==
  LET after[n \in Nat] ==
        IF n = 0 THEN [rows |-> item, ts |-> delTs[p], v |-> delV[p]]
        ELSE IF n \in DOMAIN entries THEN Write(after[n - 1], entries[n], ts) ELSE after[n - 1]
  IN  after

(* #apply. *)
ApplyOps(p, entries, ts) ==
  LET end == StoreAfter(p, entries, ts)[MAX_ITEMS_PER_TX]
  IN  /\ item' = end.rows
      /\ delTs' = [delTs EXCEPT ![p] = end.ts]
      /\ delV' = [delV EXCEPT ![p] = end.v]
-----------------------------------------------------------------------------
(***************************************************************************)
(* The tests of a request.  The evaluate step runs the operations of an    *)
(* item as temporary writes, so a condition sees the ones before it; a     *)
(* prepare rolls them back.  It stops an item at its first failure, but    *)
(* one failure refuses the request anyway.  The timestamp check uses the   *)
(* stamps from before the transaction for every operation of the item.     *)
(***************************************************************************)
(* Mutant of DataBefore: no temporary writes. *)
StoredData(r, i, writer) == item[r[i].key].data

(* The data that operation i of r by `writer' finds. *)
DataBefore(r, i, writer) == DataAfter(r, r[i].key, item[r[i].key].data, writer)[i - 1]

ConditionsHold(r, K, writer) ==
  \A i \in DOMAIN r : r[i].key \in K => Holds(r[i].cond, DataBefore(r, i, writer))

(* Mutant of Watermark: a write orders itself only above the writes. *)
WatermarkOfWrites(k, op) == IF Present(item[k]) THEN item[k].w ELSE delTs[PartOf[k]]

(* The timestamp that a prepare of operation op must exceed. *)
Watermark(k, op) ==
  IF ~Present(item[k]) THEN delTs[PartOf[k]]
  ELSE IF op = "check" THEN item[k].w ELSE item[k].r

(* Mutant of PrepareAccepts: the timestamp of the last writer passes. *)
PrepareAcceptsEqual(t, r, p, ts) ==
  LET free == {k \in KeysAt(r, p) : lock[k].tx # t}
  IN  /\ \A k \in free : lock[k] = NoLock /\ \A i \in OpsOf(r, k) : ts >= Watermark(k, r[i].op)
      /\ ConditionsHold(r, free, t)

(* evaluate of a two-phase prepare: an item that t locked before passes. *)
PrepareAccepts(t, r, p, ts) ==
  LET free == {k \in KeysAt(r, p) : lock[k].tx # t}
  IN  /\ \A k \in free : lock[k] = NoLock /\ \A i \in OpsOf(r, k) : ts > Watermark(k, r[i].op)
      /\ ConditionsHold(r, free, t)

Latest(I) == CHOOSE i \in I : \A j \in I : j <= i

(* op_list, and lockOperationOf: its last operation that is no check. *)
OpList(r, k) == [i \in OpsOf(r, k) |-> r[i].op]

Changing(ops) == {i \in DOMAIN ops : ops[i] # "check"}
LockOperation(ops) == IF Changing(ops) = {} THEN "check" ELSE ops[Latest(Changing(ops))]

(* lastWriteData: what the last put or update of the item leaves. *)
WritesOf(r, k) == {i \in OpsOf(r, k) : r[i].op \in Writes}

LastWriteData(t, r, k) ==
  IF WritesOf(r, k) = {} THEN NoData ELSE DataAfter(r, k, item[k].data, t)[Latest(WritesOf(r, k))]

LockRow(t, k, r, ts) ==
  [tx |-> t, ops |-> OpList(r, k), op |-> LockOperation(OpList(r, k)), ts |-> ts,
   data |-> LastWriteData(t, r, k)]

(* Mutant of WriteLocks: the first item only. *)
WriteFirstLock(t, r, p, ts) ==
  lock' = [k \in Key |-> IF k \in KeysAt(r, p) /\ lock[k].tx # t /\ 1 \in OpsOf(r, k)
                         THEN LockRow(t, k, r, ts) ELSE lock[k]]

WriteLocks(t, r, p, ts) ==
  lock' = [k \in Key |-> IF k \in KeysAt(r, p) /\ lock[k].tx # t
                         THEN LockRow(t, k, r, ts) ELSE lock[k]]

(* deletePendingTxKeys: pending_tx_info goes with the last lock row. *)
Release(t, p, K) ==
  /\ lock' = [k \in Key |-> IF k \in K /\ lock[k].tx = t THEN NoLock ELSE lock[k]]
  /\ guarded' = [guarded EXCEPT ![p] = IF LockedBy(t, p) \subseteq K THEN @ \ {t} ELSE @]
-----------------------------------------------------------------------------
(***************************************************************************)
(* Local steps of the two-phase protocol.                                  *)
(***************************************************************************)
(* prepareLocal; `accepts' is the answer. *)
PrepareLocal(t, r, p, ts, accepts) ==
  /\ accepts = PrepareAccepts(t, r, p, ts)
  /\ IF accepts THEN WriteLocks(t, r, p, ts) ELSE UNCHANGED lock
  /\ UNCHANGED <<item, delTs, delV, guarded, writes, applied>>

(* The entries of the operation lists of the lock rows of K.  Each write   *)
(* of an item has the data of its last one.                                *)
LockEntries(K) ==
  [i \in UNION {DOMAIN lock[k].ops : k \in K} |->
     LET k == CHOOSE j \in K : i \in DOMAIN lock[j].ops
     IN  [key |-> k, op |-> lock[k].ops[i], data |-> lock[k].data]]

(* The lock rows of K as one apply. *)
ApplyLocks(t, p, K, ts) ==
  /\ ApplyOps(p, LockEntries(K), ts)
  /\ applied' = [applied EXCEPT ![t] = [k \in Key |-> IF k \in K THEN @[k] + 1 ELSE @[k]]]

(* commitLocal: with no lock row left it is an idempotent success; lock    *)
(* rows that are not the keys of the request are an error and no step.     *)
CommitLocal(t, r, p, ts) ==
  \/ /\ LockedBy(t, p) = {}
     /\ UNCHANGED partVars
  \/ /\ LockedBy(t, p) # {} /\ LockedBy(t, p) = KeysAt(r, p)
     /\ ApplyLocks(t, p, LockedBy(t, p), ts)
     /\ Release(t, p, LockedBy(t, p))
     /\ UNCHANGED writes

(* cancelLocal. *)
CancelLocal(t, r, p) ==
  /\ Release(t, p, KeysAt(r, p))
  /\ UNCHANGED <<item, delTs, delV, writes, applied>>
-----------------------------------------------------------------------------
(***************************************************************************)
(* Stale recovery: what the answer of the coordinator does to the locks of *)
(* t here.                                                                 *)
(***************************************************************************)
ChecksAlreadyStamped(t, p) ==
  \A k \in LockedBy(t, p) :
    /\ \A i \in DOMAIN lock[k].ops : lock[k].ops[i] = "check"
    /\ (IF Present(item[k]) THEN item[k].r ELSE delTs[p]) >= lock[k].ts

GuardPendingTx(t, p) ==
  /\ guarded' = [guarded EXCEPT ![p] = @ \cup {t}]
  /\ UNCHANGED <<item, delTs, delV, lock, writes, applied>>

ReleaseAll(t, p) ==
  /\ Release(t, p, LockedBy(t, p))
  /\ UNCHANGED <<item, delTs, delV, writes, applied>>

ResolveStale(t, p, answer, overAge) ==
  LET K == LockedBy(t, p)
  IN  \/ /\ answer = "COMMITTED"
         /\ \E k \in K : ApplyLocks(t, p, K, lock[k].ts)
         /\ Release(t, p, K)
         /\ UNCHANGED writes
      \/ answer = "CANCELLED" /\ ReleaseAll(t, p)
      \/ answer = "not_found" /\ (~overAge \/ ChecksAlreadyStamped(t, p)) /\ ReleaseAll(t, p)
      \/ answer = "not_found" /\ overAge /\ ~ChecksAlreadyStamped(t, p) /\ GuardPendingTx(t, p)
-----------------------------------------------------------------------------
(***************************************************************************)
(* Writes outside the coordinator.  Their timestamp is the clock of the    *)
(* partition, which can be behind the stamps of the items.                 *)
(***************************************************************************)
(* assertNotLocked. *)
Unlocked(K) == \A k \in K : lock[k] = NoLock

(* The writes of the operations of r: their temporary writes, which stay. *)
WriteEntries(r, writer) ==
  [i \in DOMAIN r |->
     [key |-> r[i].key, op |-> r[i].op, data |-> Written(r[i].op, DataBefore(r, i, writer), writer)]]

(* A request whose keys are all on p, in one storage transaction. *)
WriteLocally(r, p, ts) ==
  /\ writes < MaxWrites
  /\ KeysOf(r) = KeysAt(r, p)
  /\ Unlocked(KeysOf(r))
  /\ ConditionsHold(r, KeysOf(r), writes + 1)
  /\ ApplyOps(p, WriteEntries(r, writes + 1), ts)
  /\ writes' = writes + 1
  /\ UNCHANGED <<lock, guarded, applied>>

ExecuteSingleShot(r, p, ts) == WriteLocally(r, p, ts)

(* conditionalWrite of putItem and of deleteItem; a plain delete of an     *)
(* absent item changes nothing.                                            *)
PutItem(k, cond, ts) == WriteLocally(<<[key |-> k, op |-> "put", cond |-> cond]>>, PartOf[k], ts)

DeleteItem(k, ts) == WriteLocally(<<[key |-> k, op |-> "delete", cond |-> "exists"]>>, PartOf[k], ts)
=============================================================================
