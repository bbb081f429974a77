---------------------------- MODULE Transactions ----------------------------
(***************************************************************************)
(* Coordinator and participants together: the calls of the drives reach    *)
(* the partitions, the answers come back, the stale job of a partition     *)
(* asks the coordinator, and plain writes and single-shot transactions run *)
(* beside them.                                                            *)
(***************************************************************************)
EXTENDS Coordinator

CONSTANTS
  OverAge,      \* subset of BOOLEAN: whether a lock can be older than the idempotency window
  SingleShots   \* the requests of single-shot transactions

ASSUME OverAgeAssumption == OverAge \subseteq BOOLEAN
ASSUME SingleShotsAssumption == SingleShots \subseteq (Request \ {NoRequest})

VARIABLE
  stale    \* [Part -> [Tx -> answer]]: the answer the stale job of the partition holds

vars == <<partVars, coordVars, stale>>

StaleAnswer == {"none", "COMMITTED", "CANCELLED", "not_found"}

Init ==
  /\ PartInit
  /\ CoordInit
  /\ stale = [p \in Part |-> [t \in Tx |-> "none"]]
-----------------------------------------------------------------------------
(***************************************************************************)
(* A call reaches its partition.  Drive d waits for the call and gets the  *)
(* answer; a late delivery answers nobody, and one that would change       *)
(* nothing is left out.                                                    *)
(***************************************************************************)
Waiting(d, t, p, phases) == dTx[d] = t /\ dPhase[d] \in phases /\ dRpc[d][p] = "sent"

Reply(d, p, answer) ==
  /\ dRpc' = [dRpc EXCEPT ![d][p] = answer]
  /\ UNCHANGED <<ledgerVars, dPhase, dTx, sent, faults, stale>>

NoReply == UNCHANGED <<coordVars, stale>>

(* txPrepare. *)
ExecPrepare(t, p, d) ==
  /\ Waiting(d, t, p, {"prepare", "recover"})
  /\ \E accepts \in BOOLEAN :
       /\ PrepareLocal(t, txReq[t], p, txTs[t], accepts)
       /\ Reply(d, p, IF accepts THEN "ack_out" ELSE "nack_out")

LatePrepare(t, p) ==
  /\ <<"prepare", t, p>> \in sent
  /\ LockedBy(t, p) # KeysAt(txReq[t], p)
  /\ PrepareLocal(t, txReq[t], p, txTs[t], TRUE)
  /\ NoReply

(* prepareLocal refuses a timestamp too far ahead of its clock. *)
ClockSkew(t, p, d) ==
  /\ Waiting(d, t, p, {"prepare", "recover"})
  /\ Fault
  /\ dRpc' = [dRpc EXCEPT ![d][p] = "nack_out"]
  /\ UNCHANGED <<partVars, ledgerVars, dPhase, dTx, sent, stale>>

(* txCommit. *)
ExecCommit(t, p, d) ==
  /\ Waiting(d, t, p, {"commit"})
  /\ CommitLocal(t, txReq[t], p, txTs[t])
  /\ Reply(d, p, "ack_out")

LateCommit(t, p) ==
  /\ <<"commit", t, p>> \in sent /\ LockedBy(t, p) # {}
  /\ CommitLocal(t, txReq[t], p, txTs[t])
  /\ NoReply

(* txCancel. *)
ExecCancel(t, p, d) ==
  /\ Waiting(d, t, p, {"cancel"})
  /\ CancelLocal(t, txReq[t], p)
  /\ Reply(d, p, "ack_out")

LateCancel(t, p) ==
  /\ <<"cancel", t, p>> \in sent /\ LockedBy(t, p) # {}
  /\ CancelLocal(t, txReq[t], p)
  /\ NoReply
-----------------------------------------------------------------------------
(***************************************************************************)
(* recoverStaleTransactions: it asks, waits, and applies the answer to the *)
(* locks it finds then.  The answer "driving" leaves everything as it is.  *)
(***************************************************************************)
StaleAsk(t, p) ==
  /\ LockedBy(t, p) # {} /\ t \notin guarded[p] /\ stale[p][t] = "none"
  /\ RecoverTransactionAnswer(t) # "driving"
  /\ stale' = [stale EXCEPT ![p][t] = RecoverTransactionAnswer(t)]
  /\ UNCHANGED <<partVars, coordVars>>

StaleApply(t, p, overAge) ==
  /\ stale[p][t] # "none"
  /\ IF LockedBy(t, p) = {} THEN UNCHANGED partVars ELSE ResolveStale(t, p, stale[p][t], overAge)
  /\ stale' = [stale EXCEPT ![p][t] = "none"]
  /\ UNCHANGED coordVars

LocalWrites ==
  /\ \E ts \in Timestamp :
       \/ \E k \in Key : DeleteItem(k, ts) \/ \E cond \in Cond : PutItem(k, cond, ts)
       \/ \E r \in SingleShots, p \in Part : ExecuteSingleShot(r, p, ts)
  /\ UNCHANGED <<coordVars, stale>>
-----------------------------------------------------------------------------
Participants ==
  \/ \E t \in Tx, p \in Part :
       \/ LatePrepare(t, p) \/ LateCommit(t, p) \/ LateCancel(t, p) \/ StaleAsk(t, p)
       \/ \E overAge \in OverAge : StaleApply(t, p, overAge)
       \/ \E d \in Drive : \/ ExecPrepare(t, p, d) \/ ClockSkew(t, p, d)
                           \/ ExecCommit(t, p, d) \/ ExecCancel(t, p, d)
  \/ LocalWrites

DriveStep(d) ==
  \/ StartPrepare(d) \/ PrepareSettled(d) \/ CommitSettled(d) \/ CancelSettled(d) \/ DriveLost(d)
  \/ \E heldTooLong \in BOOLEAN : RecoverySettled(d, heldTooLong)
  \/ \E p \in Part : \/ PrepareAnswer(d, p) \/ CommitAnswer(d, p) \/ CancelAnswer(d, p)
                     \/ ResolveError(d, p)
                     \/ \E isFatal \in BOOLEAN : PrepareError(d, p, isFatal)

Coordinators ==
  /\ \/ \E d \in Drive : DriveStep(d)
     \/ \E t \in Tx, d \in Drive :
          DriveTransaction(t, d) \/ \E r \in Requests, ts \in Timestamp : InitiateWrite(t, r, ts, d)
     \/ \E t \in Tx : SweepExpired(t)
  /\ UNCHANGED <<partVars, stale>>

Next == Participants \/ Coordinators

Spec == Init /\ [][Next]_vars

(* A drive that runs goes on; the tx_recovery job drives an unfinished     *)
(* transaction again; an outstanding call is executed and answered; a held *)
(* undecided transaction is given up; the stale job asks and applies.      *)
Fairness ==
  /\ \A d \in Drive :
       /\ WF_vars(StartPrepare(d) /\ UNCHANGED <<partVars, stale>>)
       /\ WF_vars((PrepareSettled(d) \/ CommitSettled(d) \/ CancelSettled(d) \/ RecoverySettled(d, TRUE))
                    /\ UNCHANGED <<partVars, stale>>)
       /\ \A p \in Part :
            /\ WF_vars((PrepareAnswer(d, p) \/ CommitAnswer(d, p) \/ CancelAnswer(d, p))
                         /\ UNCHANGED <<partVars, stale>>)
            /\ \A t \in Tx : WF_vars(ExecPrepare(t, p, d) \/ ExecCommit(t, p, d) \/ ExecCancel(t, p, d))
  /\ \A t \in Tx :
       /\ WF_vars((\E d \in Drive : DriveTransaction(t, d)) /\ UNCHANGED <<partVars, stale>>)
       /\ \A p \in Part : WF_vars(StaleAsk(t, p)) /\ WF_vars(\E overAge \in OverAge : StaleApply(t, p, overAge))

FairSpec == Spec /\ Fairness
-----------------------------------------------------------------------------
(***************************************************************************)
(* Properties.                                                             *)
(***************************************************************************)
Writer == Tx \cup Nat
Row == [data : Seq(Writer), v : Nat, r : Nat, w : Nat]
OpLists == UNION {[I -> Op] : I \in SUBSET (1 .. MAX_ITEMS_PER_TX)}
Lock == {NoLock} \cup [tx : Tx, ops : OpLists, op : Op, ts : Nat, data : Seq(Writer)]

PartTypeOK ==
  /\ item \in [Key -> Row]
  /\ delTs \in [Part -> Nat]
  /\ delV \in [Part -> Nat]
  /\ lock \in [Key -> Lock]
  /\ guarded \in [Part -> SUBSET Tx]
  /\ writes \in Nat
  /\ applied \in [Tx -> [Key -> Nat]]

CoordTypeOK ==
  /\ tcState \in [Tx -> TcState]
  /\ txReq \in [Tx -> Request]
  /\ txTs \in [Tx -> Nat]
  /\ tcParts \in [Tx -> SUBSET Part]
  /\ accepted \in [Tx -> SUBSET Part]
  /\ rejected \in [Tx -> SUBSET Part]
  /\ fatal \in [Tx -> SUBSET Part]
  /\ committed \in [Tx -> SUBSET Part]
  /\ cancelled \in [Tx -> SUBSET Part]
  /\ dPhase \in [Drive -> Phase]
  /\ dTx \in [Drive -> Tx \cup {NoTx}]
  /\ dRpc \in [Drive -> [Part -> RpcState]]
  /\ sent \subseteq RpcKind \X Tx \X Part
  /\ faults \in Nat
  /\ \A t \in Tx : accepted[t] \cap rejected[t] = {}

(* Types.  A participant row holds one prepare outcome: the answers of two *)
(* drives, or of a retry, never store both.                                *)
TypeOK ==
  /\ PartTypeOK
  /\ CoordTypeOK
  /\ stale \in [Part -> [Tx -> StaleAnswer]]

Committing(t) == tcState[t] \in {"COMMITTING", "COMMITTED", "swept"}
KeysOfTx(t) == KeysOf(txReq[t])
OnlyChecks(r, k) == \A i \in OpsOf(r, k) : r[i].op = "check"

(* Nothing of a transaction is applied before its commit is decided, and   *)
(* nothing of a cancelled one ever (markCommitting, commitLocal, the stale *)
(* job).                                                                   *)
AppliedOnlyAfterDecision ==
  \A t \in Tx : (\E k \in Key : applied[t][k] > 0) => Committing(t)

(* A commit that is decided can be carried out: each of its keys is        *)
(* applied, or is locked for it with the operations and the timestamp of   *)
(* the request.  No cancel, no answer of the stale job and no late message *)
(* takes a lock away between the decision and the commit call.             *)
DecidedIsDurable ==
  \A t \in Tx : tcState[t] = "COMMITTING" =>
    \A k \in KeysOfTx(t) :
      \/ applied[t][k] > 0
      \/ lock[k].tx = t /\ lock[k].ops = OpList(txReq[t], k) /\ lock[k].ts = txTs[t]

(* When the coordinator stores COMMITTED, which deletes its participant    *)
(* rows, every operation is in the items.                                  *)
CommittedIsApplied ==
  \A t \in Tx : tcState[t] = "COMMITTED" => \A k \in KeysOfTx(t) : applied[t][k] > 0

(* No retry, late message or stale answer applies a write twice.  A check  *)
(* may be applied again: a late prepare can lock its key again.            *)
WritesApplyOnce ==
  \A t \in Tx : \A k \in KeysOfTx(t) : ~OnlyChecks(txReq[t], k) => applied[t][k] <= 1

(* A lock in quarantine (guardPendingTx) hides no part of a transaction    *)
(* that was applied elsewhere: the swept transaction is all or nothing.    *)
GuardHidesNoCommit ==
  \A p \in Part : \A t \in guarded[p] :
    (\E k \in Key : applied[t][k] > 0) => \A k \in LockedBy(t, p) : applied[t][k] > 0

(* A transaction holds the locks of all its keys on a partition, or of     *)
(* none: what prepareLocal "expects" of its repeated calls, and what saves *)
(* commitLocal from commit_keyset_mismatch.                                *)
LocksAreAllOrNone ==
  \A t \in Tx, p \in Part : LockedBy(t, p) \in {{}, KeysAt(txReq[t], p)}

(* The revision of a key, with the mark that stands for it when the item   *)
(* is absent.                                                              *)
RevisionOf(k) == IF Present(item[k]) THEN item[k].v ELSE delV[PartOf[k]]

(* Revisions never fall, and every change of an item raises its revision,  *)
(* over deletes and re-creations: the read transaction compares revisions  *)
(* to see any write between its two phases.                                *)
RevisionsAdvance ==
  [][\A k \in Key :
       /\ RevisionOf(k)' >= RevisionOf(k)
       /\ (item'[k].data # item[k].data \/ Present(item'[k]) # Present(item[k]))
            => RevisionOf(k)' > RevisionOf(k)]_vars

(* A two-phase write lands above every read and write stamp of the row it  *)
(* replaces: transactions take effect in the order of their timestamps.    *)
AppliesInTimestampOrder ==
  [][\A t \in Tx : \A k \in KeysOfTx(t) :
       (applied'[t][k] > applied[t][k] /\ Present(item[k]) /\ ~OnlyChecks(txReq[t], k))
         => txTs[t] > item[k].r]_vars

(* The data of a key as the decisions of the coordinator have it: a        *)
(* decided write that still waits in its lock counts.                      *)
StoreOf(k) ==
  IF lock[k].tx \in Tx /\ lock[k].op # "check" /\ tcState[lock[k].tx] = "COMMITTING"
  THEN IF lock[k].op = "delete" THEN NoData ELSE lock[k].data
  ELSE item[k].data

OutcomeOf(t) ==
  CASE tcState[t] = "none" -> "none"
    [] tcState[t] \in {"CREATED", "PREPARING"} -> "open"
    [] tcState[t] \in {"COMMITTING", "COMMITTED"} -> "committed"
    [] tcState[t] \in {"CANCELLING", "CANCELLED"} -> "cancelled"
    [] tcState[t] = "swept" -> "forgotten"

Abstract == INSTANCE AtomicStore WITH
  store <- [k \in Key |-> StoreOf(k)],
  outcome <- [t \in Tx |-> OutcomeOf(t)],
  request <- txReq,
  count <- writes

(* The system is one atomic store: a transaction takes effect at the       *)
(* storing of its decision, in one step, with its conditions true then.    *)
ImplementsAtomicStore == Abstract!ASpec

(* Every accepted transaction gets a final state, though drives die and    *)
(* answers are lost: the tx_recovery job.                                  *)
EveryTransactionFinishes ==
  \A t \in Tx : tcState[t] # "none" ~> tcState[t] \in {"COMMITTED", "CANCELLED", "swept"}

(* No lock stays for ever unless an operator is told (the guard): commit,  *)
(* cancel or the stale job releases it, late prepares included.            *)
EveryLockIsReleased ==
  \A t \in Tx, k \in Key : lock[k].tx = t ~> lock[k].tx # t \/ t \in guarded[PartOf[k]]
=============================================================================
