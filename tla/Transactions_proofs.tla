------------------------ MODULE Transactions_proofs -------------------------
(***************************************************************************)
(* Proofs about Transactions: the inductive invariant, the safety          *)
(* properties of the two-phase commit, and the refinement of AtomicStore.  *)
(***************************************************************************)
EXTENDS Participant_proofs

-----------------------------------------------------------------------------
(***************************************************************************)
(* The inductive invariant, in parts.                                      *)
(***************************************************************************)
Undecided(t) == tcState[t] \in {"none", "CREATED", "PREPARING"}
HoldsAt(t, p) == \A k \in KeysAt(txReq[t], p) : lock[k].tx = t
AppliedAt(t, p) == \A k \in KeysAt(txReq[t], p) : applied[t][k] > 0
AllApplied(t) == \A k \in KeysOfTx(t) : applied[t][k] > 0

(* The ledger and the calls: a commit call is sent only after the commit   *)
(* decision, a cancel call only after the cancel decision, never both.     *)
LedgerInv ==
  /\ \A t \in Tx : tcState[t] = "none" => txReq[t] = NoRequest /\ accepted[t] = {} /\ committed[t] = {}
  /\ \A t \in Tx : tcState[t] \in {"CREATED", "PREPARING", "COMMITTING", "CANCELLING"}
                     => tcParts[t] = PartsOf(txReq[t])

CallInv ==
  \A t \in Tx, p \in Part :
    /\ <<"prepare", t, p>> \in sent => tcState[t] # "none"
    /\ <<"commit", t, p>> \in sent => tcState[t] \in {"COMMITTING", "COMMITTED", "swept"}
    /\ <<"cancel", t, p>> \in sent => tcState[t] \in {"CANCELLING", "CANCELLED", "swept"}
    /\ \A q \in Part : ~(<<"commit", t, p>> \in sent /\ <<"cancel", t, q>> \in sent)

KindOf(phase) == CASE phase \in {"prepare", "recover"} -> "prepare"
                   [] phase = "commit" -> "commit"
                   [] OTHER -> "cancel"

(* A drive that runs has a stored transaction, and waits only for calls    *)
(* that are sent.                                                          *)
DriveInv ==
  \A d \in Drive :
    /\ dPhase[d] # "idle" => dTx[d] \in Tx /\ tcState[dTx[d]] # "none"
    /\ dPhase[d] \in {"idle", "start"} => \A p \in Part : dRpc[d][p] = "none"
    /\ \A p \in Part : dRpc[d][p] # "none" => <<KindOf(dPhase[d]), dTx[d], p>> \in sent
    /\ dPhase[d] = "commit" => Committing(dTx[d])

(* What the answers say: an accepted partition holds its locks until the   *)
(* decision, and a committed one has applied its part.                     *)
AnswerInv ==
  /\ \A t \in Tx : Undecided(t) => \A p \in accepted[t] : HoldsAt(t, p)
  /\ \A t \in Tx : \A p \in committed[t] : AppliedAt(t, p)
  /\ \A d \in Drive, p \in Part :
       dPhase[d] \in {"prepare", "recover"} /\ dRpc[d][p] = "ack_out" /\ Undecided(dTx[d])
         => HoldsAt(dTx[d], p)
  /\ \A d \in Drive, p \in Part : dPhase[d] = "commit" =>
       /\ dRpc[d][p] \in {"ack_out", "ack"} => AppliedAt(dTx[d], p)
       /\ dRpc[d][p] = "none" /\ tcState[dTx[d]] = "COMMITTING" /\ p \in tcParts[dTx[d]]
            => p \in committed[dTx[d]]

(* What a swept transaction left: everything or nothing. *)
SweptInv ==
  \A t \in Tx : tcState[t] = "swept" =>
    \/ AllApplied(t)
    \/ /\ \A k \in Key : applied[t][k] = 0
       /\ \A p \in Part : <<"commit", t, p>> \notin sent

StaleInv ==
  /\ \A p \in Part, t \in Tx :
       /\ stale[p][t] = "COMMITTED" => tcState[t] \in {"COMMITTED", "swept"} /\ AllApplied(t)
       /\ stale[p][t] = "CANCELLED" => tcState[t] \in {"CANCELLED", "swept"}
       /\ stale[p][t] = "not_found" => tcState[t] = "swept"
  /\ \A p \in Part : \A t \in guarded[p] : tcState[t] = "swept"

(* The stamp of a key is at or above ts, present or deleted. *)
Reached(k, ts) == Stamp(k) >= ts

(* A write that is applied holds no lock any more, and the stamp it left   *)
(* refuses a late prepare.                                                 *)
OnceInv ==
  \A t \in Tx, k \in Key : applied[t][k] > 0 =>
    /\ k \in KeysOfTx(t)
    /\ ~OnlyChecks(txReq[t], k) =>
         applied[t][k] = 1 /\ lock[k].tx # t /\ Reached(k, txTs[t])

IInv ==
  /\ TypeOK /\ LedgerInv /\ CallInv /\ DriveInv /\ RowInv /\ LockInv /\ LocksAreAllOrNone
  /\ AnswerInv /\ AppliedOnlyAfterDecision /\ DecidedIsDurable /\ CommittedIsApplied
  /\ SweptInv /\ StaleInv /\ OnceInv
-----------------------------------------------------------------------------
(***************************************************************************)
(* Types.                                                                  *)
(***************************************************************************)
(* The operations of an item in a request are an operation list.           *)
LEMMA OpListType ==
  ASSUME NEW r \in Request, NEW k
  PROVE  OpList(r, k) \in OpLists
<1>1. OpsOf(r, k) \in SUBSET (1 .. MAX_ITEMS_PER_TX)
  BY RequestFacts, MaxItemsAssumption
<1>2. \A i \in OpsOf(r, k) : r[i].op \in Op
  BY RequestFacts
<1>3. OpList(r, k) \in [OpsOf(r, k) -> Op]
  BY <1>2 DEF OpList
<1>4. QED
  BY <1>1, <1>3 DEF OpLists

(* The lock row a prepare writes is a lock.                                *)
LEMMA LockRowType ==
  ASSUME PartTypeOK, NEW t \in Tx, NEW r \in Request, NEW k \in Key, NEW ts \in Nat
  PROVE  LockRow(t, k, r, ts) \in Lock /\ LockRow(t, k, r, ts).tx = t
<1>1. PICK d, a, op : d = item[k].data /\ a = DataAfter(r, k, d, t) /\ op = LockOperation(OpList(r, k))
  OBVIOUS
<1>2. d \in Seq(Writer) /\ t \in Writer
  BY <1>1 DEF PartTypeOK, Row, Writer
<1>3. op \in Op /\ (WritesOf(r, k) # {} => a[Latest(WritesOf(r, k))] \in Seq(Writer) \ {NoData})
  BY <1>1, <1>2, LockRowFacts
<1>4. LastWriteData(t, r, k) \in Seq(Writer)
  BY <1>1, <1>3, DataFacts DEF LastWriteData
<1>5. QED
  BY <1>1, <1>3, <1>4, OpListType DEF LockRow, Lock

LEMMA LockFacts ==
  ASSUME PartTypeOK, NEW k \in Key
  PROVE  /\ lock[k] = NoLock <=> lock[k].tx = NoTx
         /\ lock[k].tx \in Tx => /\ lock[k] # NoLock /\ lock[k].op \in Op /\ lock[k].ts \in Nat
                                 /\ lock[k].ops \in OpLists /\ lock[k].data \in Seq(Writer)
         /\ lock[k] # NoLock => lock[k].tx \in Tx
<1>1. lock[k] \in Lock
  BY DEF PartTypeOK
<1>2. NoLock.tx = NoTx
  BY DEF NoLock
<1>3. CASE lock[k] = NoLock
  BY <1>2, <1>3, TxAssumption
<1>4. CASE lock[k] \in [tx : Tx, ops : OpLists, op : Op, ts : Nat, data : Seq(Writer)]
  BY <1>2, <1>4, TxAssumption
<1>5. QED
  BY <1>1, <1>3, <1>4 DEF Lock

(* prepareLocal keeps the types of the partition.                          *)
LEMMA PrepareType ==
  ASSUME PartTypeOK, NEW t \in Tx, NEW r \in Request, NEW p, NEW ts \in Nat, NEW accepts,
         PrepareLocal(t, r, p, ts, accepts)
  PROVE  PartTypeOK'
<1>1. ASSUME NEW k \in KeysAt(r, p)
      PROVE  LockRow(t, k, r, ts) \in Lock
  BY RequestFacts, LockRowType DEF KeysAt
<1>2. lock' \in [Key -> Lock]
  <2>1. CASE accepts
    BY <2>1, <1>1 DEF PrepareLocal, WriteLocks, PartTypeOK
  <2>2. CASE ~accepts
    BY <2>2 DEF PrepareLocal, PartTypeOK
  <2>3. QED
    BY <2>1, <2>2
<1>3. UNCHANGED <<item, delTs, delV, guarded, writes, applied>>
  BY DEF PrepareLocal
<1>4. QED
  BY <1>2, <1>3 DEF PartTypeOK

(* deletePendingTxKeys keeps the type of the locks.                        *)
LEMMA ReleaseType ==
  ASSUME PartTypeOK, NEW t \in Tx, NEW p \in Part, NEW K, Release(t, p, K)
  PROVE  lock' \in [Key -> Lock] /\ guarded' \in [Part -> SUBSET Tx]
BY DEF Release, PartTypeOK, Lock

(* A write outside the coordinator is one request on one partition, with   *)
(* no lock on its keys and its conditions true.                            *)
WriteEffect(r, p, ts) == WriteLocally(r, p, ts) /\ UNCHANGED <<coordVars, stale>>

LocalRequest(r) ==
  \/ r \in SingleShots
  \/ \E k \in Key : r = Abstract!Delete(k) \/ \E cond \in Cond : r = Abstract!Put(k, cond)

(* A put or a delete outside a transaction is a request of one operation.  *)
LEMMA PlainRequests ==
  ASSUME NEW k \in Key
  PROVE  Abstract!Delete(k) \in Request /\ \A cond \in Cond : Abstract!Put(k, cond) \in Request
<1>1. ASSUME NEW e \in Operation
      PROVE  <<e>> \in Request
  <2>1. <<e>> \in Seq(Operation) /\ Len(<<e>>) = 1
    OBVIOUS
  <2>2. QED
    BY <2>1, MaxItemsAssumption DEF Request
<1>2. [key |-> k, op |-> "delete", cond |-> "exists"] \in Operation
  BY DEF Operation, Op, Cond
<1>3. \A cond \in Cond : [key |-> k, op |-> "put", cond |-> cond] \in Operation
  BY DEF Operation, Op
<1>4. QED
  BY <1>1, <1>2, <1>3 DEF Abstract!Put, Abstract!Delete

(* Every plain write and every single-shot transaction is a WriteEffect.   *)
LEMMA LocalWriteEffect ==
  ASSUME LocalWrites
  PROVE  \E r \in Request, p \in Part, ts \in Nat : LocalRequest(r) /\ WriteEffect(r, p, ts)
<1>1. PICK ts \in Timestamp :
        \/ \E k \in Key : DeleteItem(k, ts) \/ \E cond \in Cond : PutItem(k, cond, ts)
        \/ \E r \in SingleShots, p \in Part : ExecuteSingleShot(r, p, ts)
  BY DEF LocalWrites
<1>2. ts \in Nat /\ UNCHANGED <<coordVars, stale>>
  BY TimestampAssumption DEF LocalWrites
<1>3. ASSUME NEW k \in Key, DeleteItem(k, ts)
      PROVE  WriteEffect(Abstract!Delete(k), PartOf[k], ts) /\ PartOf[k] \in Part
  BY <1>2, <1>3, PartOfAssumption DEF DeleteItem, WriteEffect, Abstract!Delete
<1>4. ASSUME NEW k \in Key, NEW cond \in Cond, PutItem(k, cond, ts)
      PROVE  WriteEffect(Abstract!Put(k, cond), PartOf[k], ts) /\ PartOf[k] \in Part
  BY <1>2, <1>4, PartOfAssumption DEF PutItem, WriteEffect, Abstract!Put
<1>5. ASSUME NEW r \in SingleShots, NEW p \in Part, ExecuteSingleShot(r, p, ts)
      PROVE  r \in Request /\ WriteEffect(r, p, ts)
  BY <1>2, <1>5, SingleShotsAssumption DEF ExecuteSingleShot, WriteEffect
<1>6. QED
  BY <1>1, <1>2, <1>3, <1>4, <1>5, PlainRequests DEF LocalRequest

(* The pieces of a drive keep the types of the drives and the calls. *)
DriveTypeOK ==
  /\ dPhase \in [Drive -> Phase]
  /\ dTx \in [Drive -> Tx \cup {NoTx}]
  /\ dRpc \in [Drive -> [Part -> RpcState]]
  /\ sent \subseteq RpcKind \X Tx \X Part

(* A fan-out of calls keeps the types of the coordinator.                  *)
LEMMA FanOutType ==
  ASSUME DriveTypeOK, NEW d \in Drive, NEW t \in Tx, NEW kind \in RpcKind, NEW phase \in Phase,
         NEW P \in SUBSET Part, FanOut(d, t, kind, phase, P)
  PROVE  DriveTypeOK'
<1>1. [p \in Part |-> IF p \in P THEN "sent" ELSE "none"] \in [Part -> RpcState]
  BY DEF RpcState
<1>2. {<<kind, t, p>> : p \in P} \subseteq RpcKind \X Tx \X Part
  OBVIOUS
<1>3. QED
  BY <1>1, <1>2 DEF DriveTypeOK, FanOut

(* The end of a drive keeps the types of the coordinator.                  *)
LEMMA EndDriveType ==
  ASSUME DriveTypeOK, NEW d \in Drive, EndDrive(d)
  PROVE  DriveTypeOK'
<1>1. NoCalls \in [Part -> RpcState] /\ "idle" \in Phase
  BY DEF NoCalls, RpcState, Phase
<1>2. QED
  BY <1>1 DEF DriveTypeOK, EndDrive

(* runCommit and runCancel keep the types of the coordinator.              *)
LEMMA RunType ==
  ASSUME DriveTypeOK, CoordTypeOK, NEW d \in Drive, NEW t \in Tx, NEW state,
         RunCommit(d, t, state) \/ RunCancel(d, t, state)
  PROVE  DriveTypeOK'
<1>1. Uncommitted(t) \in SUBSET Part /\ Uncancelled(t) \in SUBSET Part
  BY DEF CoordTypeOK, Uncommitted, Uncancelled
<1>2. {"commit", "cancel"} \subseteq RpcKind /\ {"commit", "cancel"} \subseteq Phase
  BY DEF RpcKind, Phase
<1>3. CASE FanOut(d, t, "commit", "commit", Uncommitted(t))
  BY <1>1, <1>2, <1>3, FanOutType
<1>4. CASE FanOut(d, t, "cancel", "cancel", Uncancelled(t))
  BY <1>1, <1>2, <1>4, FanOutType
<1>5. CASE EndDrive(d)
  BY <1>5, EndDriveType
<1>6. QED
  BY <1>3, <1>4, <1>5 DEF RunCommit, RunCancel

(* The two decisions keep the types of the coordinator.                    *)
LEMMA DecideType ==
  ASSUME CoordTypeOK, NEW d \in Drive, NEW t \in Tx, DecideCommit(d, t) \/ DecideCancel(d, t)
  PROVE  /\ DriveTypeOK' /\ tcState' \in [Tx -> TcState]
         /\ UNCHANGED <<tcParts, accepted, rejected, fatal, committed, cancelled>>
<1>0. DriveTypeOK
  BY DEF DriveTypeOK, CoordTypeOK
<1>1. tcState' \in [Tx -> TcState]
  BY DEF DecideCommit, DecideCancel, AfterMarkCommitting, AfterCancelInStore, CoordTypeOK, TcState
<1>2. DriveTypeOK'
  BY <1>0, RunType DEF DecideCommit, DecideCancel
<1>3. QED
  BY <1>1, <1>2 DEF DecideCommit, DecideCancel

(* completeTransaction keeps the types of the coordinator.                 *)
LEMMA CompleteType ==
  ASSUME CoordTypeOK, NEW t \in Tx, NEW from, NEW to \in TcState, CompleteTransaction(t, from, to)
  PROVE  /\ tcState' \in [Tx -> TcState] /\ tcParts' \in [Tx -> SUBSET Part]
         /\ accepted' \in [Tx -> SUBSET Part] /\ rejected' \in [Tx -> SUBSET Part]
         /\ fatal' \in [Tx -> SUBSET Part] /\ committed' \in [Tx -> SUBSET Part]
         /\ cancelled' \in [Tx -> SUBSET Part]
         /\ \A s \in Tx : accepted'[s] \cap rejected'[s] = {}
<1>1. CASE tcState[t] = from
  <2>1. tcState' = [tcState EXCEPT ![t] = to] /\ tcState' \in [Tx -> TcState]
    BY <1>1 DEF CompleteTransaction, CoordTypeOK
  <2>2. /\ tcParts' = [tcParts EXCEPT ![t] = {}] /\ accepted' = [accepted EXCEPT ![t] = {}]
        /\ rejected' = [rejected EXCEPT ![t] = {}] /\ fatal' = [fatal EXCEPT ![t] = {}]
        /\ committed' = [committed EXCEPT ![t] = {}] /\ cancelled' = [cancelled EXCEPT ![t] = {}]
    BY <1>1 DEF CompleteTransaction
  <2>3. \A s \in Tx : accepted'[s] \cap rejected'[s] = {}
    BY <2>2 DEF CoordTypeOK
  <2>4. QED
    BY <2>1, <2>2, <2>3 DEF CoordTypeOK
<1>2. CASE tcState[t] # from
  BY <1>2 DEF CompleteTransaction, CoordTypeOK
<1>3. QED
  BY <1>1, <1>2

(* Every step of a drive keeps the types of the coordinator.               *)
LEMMA DriveStepType ==
  ASSUME CoordTypeOK, DriveInv, NEW d \in Drive, DriveStep(d)
  PROVE  CoordTypeOK'
<1>0. DriveTypeOK
  BY DEF DriveTypeOK, CoordTypeOK
<1>1. dPhase[d] # "idle" => dTx[d] \in Tx
  BY DEF DriveInv
<1>2. CASE StartPrepare(d)
  <2>1. dTx[d] \in Tx /\ tcParts[dTx[d]] \in SUBSET Part
    BY <1>1, <1>2 DEF StartPrepare, CoordTypeOK
  <2>2. DriveTypeOK'
    <3>1. CASE FanOut(d, dTx[d], "prepare", "prepare", tcParts[dTx[d]])
      BY <3>1, <2>1, <1>0, FanOutType DEF RpcKind, Phase
    <3>2. QED
      BY <3>1, <1>2, <1>0, EndDriveType DEF StartPrepare, DrivePrepare
  <2>3. QED
    BY <1>2, <2>1, <2>2 DEF StartPrepare, DrivePrepare, CoordTypeOK, DriveTypeOK, TcState
<1>3. CASE PrepareSettled(d)
  <2>1. dTx[d] \in Tx
    BY <1>1, <1>3 DEF PrepareSettled
  <2>2. DecideCommit(d, dTx[d]) \/ DecideCancel(d, dTx[d])
    BY <1>3 DEF PrepareSettled
  <2>3. QED
    BY <1>3, <2>1, <2>2, DecideType DEF PrepareSettled, CoordTypeOK, DriveTypeOK
<1>4. CASE CommitSettled(d)
  <2>1. dTx[d] \in Tx
    BY <1>1, <1>4 DEF CommitSettled
  <2>2. DriveTypeOK'
    BY <1>4, <1>0, EndDriveType DEF CommitSettled
  <2>3. UNCHANGED <<txReq, txTs, faults>>
    BY <1>4 DEF CommitSettled
  <2>4. CASE CompleteTransaction(dTx[d], "COMMITTING", "COMMITTED")
    <3>1. "COMMITTED" \in TcState
      BY DEF TcState
    <3>2. QED
      BY <2>1, <2>2, <2>3, <2>4, <3>1, CompleteType DEF CoordTypeOK, DriveTypeOK
  <2>5. CASE /\ committed' = [committed EXCEPT ![dTx[d]] =
                  IF tcState[dTx[d]] = "COMMITTING"
                  THEN committed[dTx[d]] \cup (Confirmed(d) \cap tcParts[dTx[d]]) ELSE committed[dTx[d]]]
             /\ UNCHANGED <<tcState, tcParts, accepted, rejected, fatal, cancelled>>
    BY <2>1, <2>2, <2>3, <2>5 DEF CoordTypeOK, DriveTypeOK, Confirmed
  <2>6. QED
    BY <1>4, <2>4, <2>5 DEF CommitSettled
<1>5. CASE CancelSettled(d)
  <2>1. dTx[d] \in Tx
    BY <1>1, <1>5 DEF CancelSettled
  <2>2. DriveTypeOK'
    BY <1>5, <1>0, EndDriveType DEF CancelSettled
  <2>3. UNCHANGED <<txReq, txTs, faults>>
    BY <1>5 DEF CancelSettled
  <2>4. CASE CompleteTransaction(dTx[d], "CANCELLING", "CANCELLED")
    <3>1. "CANCELLED" \in TcState
      BY DEF TcState
    <3>2. QED
      BY <2>1, <2>2, <2>3, <2>4, <3>1, CompleteType DEF CoordTypeOK, DriveTypeOK
  <2>5. CASE UNCHANGED <<tcState, tcParts, accepted, rejected, fatal, committed, cancelled>>
    BY <2>2, <2>3, <2>5 DEF CoordTypeOK, DriveTypeOK
  <2>6. QED
    BY <1>5, <2>4, <2>5 DEF CancelSettled
<1>6. CASE DriveLost(d)
  <2>1. DriveTypeOK'
    BY <1>6, <1>0, EndDriveType DEF DriveLost
  <2>2. QED
    BY <1>6, <2>1 DEF DriveLost, Fault, ledgerVars, CoordTypeOK, DriveTypeOK
<1>7. ASSUME NEW heldTooLong \in BOOLEAN, RecoverySettled(d, heldTooLong)
      PROVE  CoordTypeOK'
  <2>1. dTx[d] \in Tx
    BY <1>1, <1>7 DEF RecoverySettled
  <2>2. CASE DecideCommit(d, dTx[d]) \/ DecideCancel(d, dTx[d])
    BY <1>7, <2>1, <2>2, DecideType DEF RecoverySettled, CoordTypeOK, DriveTypeOK
  <2>3. CASE EndDrive(d) /\ UNCHANGED <<tcState, tcParts, accepted, rejected, fatal, committed, cancelled>>
    <3>1. DriveTypeOK'
      BY <2>3, <1>0, EndDriveType
    <3>2. QED
      BY <1>7, <2>3, <3>1 DEF RecoverySettled, CoordTypeOK, DriveTypeOK
  <2>4. QED
    BY <1>7, <2>2, <2>3 DEF RecoverySettled
<1>8. ASSUME NEW p \in Part, PrepareAnswer(d, p)
      PROVE  CoordTypeOK'
  <2>1. dTx[d] \in Tx
    BY <1>1, <1>8 DEF PrepareAnswer
  <2>2. PICK answer \in {"ack", "nack"} :
           dRpc' = [dRpc EXCEPT ![d][p] = answer] /\ StorePrepareAnswer(dTx[d], p, answer)
    BY <1>8 DEF PrepareAnswer
  <2>3. dRpc' \in [Drive -> [Part -> RpcState]]
    BY <2>2 DEF CoordTypeOK, RpcState
  <2>4. /\ accepted' \in [Tx -> SUBSET Part] /\ rejected' \in [Tx -> SUBSET Part]
        /\ \A t \in Tx : accepted'[t] \cap rejected'[t] = {}
    BY <2>1, <2>2 DEF CoordTypeOK, StorePrepareAnswer
  <2>5. QED
    BY <1>8, <2>3, <2>4 DEF PrepareAnswer, CoordTypeOK
<1>9. ASSUME NEW p \in Part, CommitAnswer(d, p)
      PROVE  CoordTypeOK'
  BY <1>9 DEF CommitAnswer, CoordTypeOK, RpcState, ledgerVars
<1>10. ASSUME NEW p \in Part, CancelAnswer(d, p)
       PROVE  CoordTypeOK'
  <2>1. dTx[d] \in Tx
    BY <1>1, <1>10 DEF CancelAnswer
  <2>2. dRpc' \in [Drive -> [Part -> RpcState]]
    BY <1>10 DEF CoordTypeOK, RpcState, CancelAnswer
  <2>3. cancelled' \in [Tx -> SUBSET Part]
    BY <1>10, <2>1 DEF CoordTypeOK, CancelAnswer
  <2>4. QED
    BY <1>10, <2>2, <2>3 DEF CancelAnswer, CoordTypeOK
<1>11. ASSUME NEW p \in Part, ResolveError(d, p)
       PROVE  CoordTypeOK'
  BY <1>11 DEF ResolveError, CoordTypeOK, RpcState, ledgerVars, Fault
<1>12. ASSUME NEW p \in Part, NEW isFatal \in BOOLEAN, PrepareError(d, p, isFatal)
       PROVE  CoordTypeOK'
  <2>1. dTx[d] \in Tx
    BY <1>1, <1>12 DEF PrepareError
  <2>2. dRpc' \in [Drive -> [Part -> RpcState]]
    BY <1>12 DEF CoordTypeOK, RpcState, PrepareError
  <2>3. fatal' \in [Tx -> SUBSET Part]
    BY <1>12, <2>1 DEF CoordTypeOK, PrepareError, StorePrepareError
  <2>4. QED
    BY <1>12, <2>2, <2>3 DEF PrepareError, CoordTypeOK, Fault
<1>13. QED
  BY <1>2, <1>3, <1>4, <1>5, <1>6, <1>7, <1>8, <1>9, <1>10, <1>11, <1>12 DEF DriveStep
-----------------------------------------------------------------------------
(***************************************************************************)
(* What a step of the coordinator does, without how: to the state of a     *)
(* transaction, to the stored answers, to a drive and to the calls.        *)
(***************************************************************************)
SameRequest(t) == txReq'[t] = txReq[t] /\ txTs'[t] = txTs[t]

StateStep(t) ==
  \/ SameRequest(t) /\ tcState'[t] = tcState[t] /\ tcParts'[t] = tcParts[t]
  \/ /\ tcState[t] = "none" /\ tcState'[t] = "CREATED"
     /\ txReq'[t] \in Requests /\ tcParts'[t] = PartsOf(txReq'[t])
  \/ /\ SameRequest(t) /\ tcParts'[t] = tcParts[t]
     /\ \/ tcState[t] = "CREATED" /\ tcState'[t] = "PREPARING"
        \/ tcState[t] = "PREPARING" /\ tcState'[t] = "COMMITTING" /\ tcParts[t] = accepted[t]
        \/ tcState[t] = "PREPARING" /\ tcState'[t] = "CANCELLING"
  \/ /\ SameRequest(t) /\ tcState[t] = "COMMITTING" /\ tcState'[t] = "COMMITTED"
     /\ \E d \in Drive : /\ dTx[d] = t /\ dPhase[d] = "commit"
                         /\ AllConfirmed(d) \/ tcParts[t] \subseteq committed[t] \cup Confirmed(d)
  \/ SameRequest(t) /\ tcState[t] = "CANCELLING" /\ tcState'[t] = "CANCELLED"
  \/ /\ SameRequest(t) /\ tcState[t] \in {"COMMITTED", "CANCELLED"} /\ tcState'[t] = "swept"

AnswerStep(t) ==
  /\ \A p \in accepted'[t] : p \in accepted[t] \/
       /\ tcState[t] = "PREPARING"
       /\ \E d \in Drive : dTx[d] = t /\ dPhase[d] \in {"prepare", "recover"} /\ dRpc[d][p] = "ack_out"
  /\ \A p \in committed'[t] : p \in committed[t] \/
       /\ tcState[t] = "COMMITTING"
       /\ \E d \in Drive : dTx[d] = t /\ dPhase[d] = "commit" /\ dRpc[d][p] = "ack"
  /\ tcState'[t] = "COMMITTING" => committed[t] \subseteq committed'[t]

CallStarts(kind, t) ==
  \/ kind = "prepare" /\ tcState'[t] # "none"
  \/ kind = "commit" /\ tcState'[t] = "COMMITTING"
  \/ kind = "cancel" /\ tcState'[t] = "CANCELLING"

(* The call of a drive is answered, or given up. *)
DriveCall(d) ==
  /\ dPhase'[d] = dPhase[d] /\ dTx'[d] = dTx[d] /\ dPhase[d] # "idle"
  /\ \A p \in Part :
       \/ dRpc'[d][p] = dRpc[d][p]
       \/ dRpc[d][p] # "none" /\ dRpc'[d][p] \in {"nack", "error"}
       \/ dRpc[d][p] = "ack_out" /\ dRpc'[d][p] = "ack"

DriveStarts(d) ==
  /\ dTx'[d] \in Tx /\ tcState'[dTx'[d]] # "none"
  /\ \/ dPhase'[d] = "start" /\ \A p \in Part : dRpc'[d][p] = "none"
     \/ /\ dPhase'[d] \in {"prepare", "recover", "commit", "cancel"}
        /\ CallStarts(KindOf(dPhase'[d]), dTx'[d])
        /\ \A p \in Part :
             \/ dRpc'[d][p] = "none"
             \/ dRpc'[d][p] = "sent" /\ <<KindOf(dPhase'[d]), dTx'[d], p>> \in sent'
        /\ dPhase'[d] = "commit" =>
             \A p \in Part : dRpc'[d][p] = "none" /\ p \in tcParts[dTx'[d]] => p \in committed[dTx'[d]]

DriveChange(d) ==
  \/ dPhase'[d] = dPhase[d] /\ dTx'[d] = dTx[d] /\ dRpc'[d] = dRpc[d]
  \/ DriveCall(d)
  \/ dPhase'[d] = "idle" /\ \A p \in Part : dRpc'[d][p] = "none"
  \/ DriveStarts(d)

SentStep ==
  /\ sent \subseteq sent'
  /\ \A kind \in RpcKind, t \in Tx, p \in Part :
       <<kind, t, p>> \in sent' => <<kind, t, p>> \in sent \/ CallStarts(kind, t)

CoordStep ==
  /\ \A t \in Tx : StateStep(t) /\ AnswerStep(t)
  /\ \A d \in Drive : DriveChange(d)
  /\ SentStep

(* A fan-out sends calls of one kind and gives the drive its phase.        *)
LEMMA FanOutStep ==
  ASSUME CoordTypeOK, NEW d \in Drive, NEW t \in Tx, NEW phase \in {"prepare", "recover", "commit", "cancel"},
         NEW P \in SUBSET Part, FanOut(d, t, KindOf(phase), phase, P),
         tcState'[t] # "none", CallStarts(KindOf(phase), t),
         phase = "commit" => tcParts[t] \ committed[t] \subseteq P
  PROVE  (\A e \in Drive : DriveChange(e)) /\ SentStep
<1>0. KindOf(phase) \in RpcKind
  BY DEF KindOf, RpcKind
<1>1. sent' = sent \cup {<<KindOf(phase), t, p>> : p \in P}
  BY DEF FanOut
<1>2. SentStep
  BY <1>1 DEF SentStep
<1>3. \A e \in Drive \ {d} : dPhase'[e] = dPhase[e] /\ dTx'[e] = dTx[e] /\ dRpc'[e] = dRpc[e]
  BY DEF FanOut, CoordTypeOK
<1>4. /\ dPhase'[d] = phase /\ dTx'[d] = t
      /\ \A p \in Part : dRpc'[d][p] = IF p \in P THEN "sent" ELSE "none"
  BY DEF FanOut, CoordTypeOK
<1>5. DriveStarts(d)
  <2>1. \A p \in P : <<KindOf(phase), t, p>> \in sent'
    BY <1>1
  <2>2. QED
    BY <1>4, <2>1 DEF DriveStarts
<1>6. QED
  BY <1>2, <1>3, <1>5 DEF DriveChange

(* A drive that ends holds no call.                                        *)
LEMMA EndDriveStep ==
  ASSUME CoordTypeOK, NEW d \in Drive, EndDrive(d)
  PROVE  (\A e \in Drive : DriveChange(e)) /\ SentStep
<1>1. \A e \in Drive \ {d} : dPhase'[e] = dPhase[e] /\ dTx'[e] = dTx[e] /\ dRpc'[e] = dRpc[e]
  BY DEF EndDrive, CoordTypeOK
<1>2. dPhase'[d] = "idle" /\ \A p \in Part : dRpc'[d][p] = "none"
  BY DEF EndDrive, CoordTypeOK, NoCalls
<1>3. SentStep
  BY DEF EndDrive, SentStep
<1>4. QED
  BY <1>1, <1>2, <1>3 DEF DriveChange

(* An answer that comes in changes one call of one drive.                  *)
LEMMA AnswerCallStep ==
  ASSUME CoordTypeOK, NEW d \in Drive, NEW p \in Part, NEW answer,
         dPhase[d] # "idle", dRpc[d][p] # "none",
         answer \in {"nack", "error"} \/ (answer = "ack" /\ dRpc[d][p] = "ack_out"),
         dRpc' = [dRpc EXCEPT ![d][p] = answer], UNCHANGED <<dPhase, dTx, sent>>
  PROVE  (\A e \in Drive : DriveChange(e)) /\ SentStep
<1>1. \A e \in Drive \ {d} : dPhase'[e] = dPhase[e] /\ dTx'[e] = dTx[e] /\ dRpc'[e] = dRpc[e]
  BY DEF CoordTypeOK
<1>2. dRpc'[d][p] = answer /\ \A q \in Part \ {p} : dRpc'[d][q] = dRpc[d][q]
  BY DEF CoordTypeOK
<1>3. DriveCall(d)
  BY <1>2 DEF DriveCall
<1>4. QED
  BY <1>1, <1>3 DEF DriveChange, SentStep

(* A drive that runs commit or cancel from the stored state. *)
LEMMA RunStep ==
  ASSUME CoordTypeOK, NEW d \in Drive, NEW t \in Tx, NEW state, state = tcState'[t],
         RunCommit(d, t, state) \/ RunCancel(d, t, state)
  PROVE  (\A e \in Drive : DriveChange(e)) /\ SentStep
<1>1. Uncommitted(t) \in SUBSET Part /\ Uncancelled(t) \in SUBSET Part
  BY DEF CoordTypeOK, Uncommitted, Uncancelled
<1>2. KindOf("commit") = "commit" /\ KindOf("cancel") = "cancel"
  BY DEF KindOf
<1>3. CASE state = "COMMITTING" /\ FanOut(d, t, "commit", "commit", Uncommitted(t))
  BY <1>1, <1>2, <1>3, FanOutStep DEF CallStarts, Uncommitted
<1>4. CASE state = "CANCELLING" /\ FanOut(d, t, "cancel", "cancel", Uncancelled(t))
  BY <1>1, <1>2, <1>4, FanOutStep DEF CallStarts
<1>5. CASE EndDrive(d)
  BY <1>5, EndDriveStep
<1>6. QED
  BY <1>3, <1>4, <1>5 DEF RunCommit, RunCancel

(* A decision moves an undecided transaction to COMMITTING or CANCELLING,  *)
(* with the fan-out that follows.                                          *)
LEMMA DecideStep ==
  ASSUME CoordTypeOK, NEW d \in Drive, NEW t \in Tx, DecideCommit(d, t) \/ DecideCancel(d, t),
         UNCHANGED <<txReq, txTs>>
  PROVE  CoordStep
<1>1. UNCHANGED <<tcParts, accepted, rejected, fatal, committed, cancelled>>
  BY DEF DecideCommit, DecideCancel
<1>2. CASE DecideCommit(d, t)
  <2>1. tcState'[t] = AfterMarkCommitting(t) /\ \A s \in Tx \ {t} : tcState'[s] = tcState[s]
    BY <1>2 DEF DecideCommit, CoordTypeOK
  <2>2. \A s \in Tx : StateStep(s) /\ AnswerStep(s)
    BY <1>1, <2>1 DEF StateStep, AnswerStep, SameRequest, AfterMarkCommitting
  <2>3. QED
    BY <1>2, <2>1, <2>2, RunStep DEF DecideCommit, CoordStep
<1>3. CASE DecideCancel(d, t)
  <2>1. tcState'[t] = AfterCancelInStore(t) /\ \A s \in Tx \ {t} : tcState'[s] = tcState[s]
    BY <1>3 DEF DecideCancel, CoordTypeOK
  <2>2. \A s \in Tx : StateStep(s) /\ AnswerStep(s)
    BY <1>1, <2>1 DEF StateStep, AnswerStep, SameRequest, AfterCancelInStore
  <2>3. QED
    BY <1>3, <2>1, <2>2, RunStep DEF DecideCancel, CoordStep
<1>4. QED
  BY <1>2, <1>3

(* A step that leaves the ledger of every transaction alone. *)
LEMMA SameLedgerStep ==
  ASSUME UNCHANGED ledgerVars
  PROVE  \A s \in Tx : StateStep(s) /\ AnswerStep(s)
BY DEF ledgerVars, StateStep, AnswerStep, SameRequest

(* drivePrepare starts, and sends its prepare calls, for a stored          *)
(* transaction.                                                            *)
LEMMA DrivePrepareStep ==
  ASSUME CoordTypeOK, NEW d \in Drive, NEW t \in Tx, DrivePrepare(d, t)
  PROVE  CoordStep
<1>1. UNCHANGED <<txReq, txTs, tcParts, accepted, rejected, fatal, committed, cancelled, faults>>
  BY DEF DrivePrepare
<1>2. CASE tcState[t] \in {"CREATED", "PREPARING"}
  <2>1. /\ tcState'[t] = "PREPARING" /\ \A s \in Tx \ {t} : tcState'[s] = tcState[s]
        /\ FanOut(d, t, "prepare", "prepare", tcParts[t])
    BY <1>2 DEF DrivePrepare, CoordTypeOK
  <2>2. \A s \in Tx : StateStep(s) /\ AnswerStep(s)
    BY <1>1, <1>2, <2>1 DEF StateStep, AnswerStep, SameRequest
  <2>3. KindOf("prepare") = "prepare" /\ CallStarts("prepare", t) /\ tcParts[t] \in SUBSET Part
    BY <2>1 DEF KindOf, CallStarts, CoordTypeOK
  <2>4. (\A e \in Drive : DriveChange(e)) /\ SentStep
    BY <2>1, <2>3, FanOutStep
  <2>5. QED
    BY <2>2, <2>4 DEF CoordStep
<1>3. CASE tcState[t] \notin {"CREATED", "PREPARING"}
  <2>1. UNCHANGED ledgerVars /\ EndDrive(d)
    BY <1>1, <1>3 DEF DrivePrepare, ledgerVars
  <2>2. QED
    BY <2>1, SameLedgerStep, EndDriveStep DEF CoordStep
<1>4. QED
  BY <1>2, <1>3

(* runPrepareRecovery sends prepare calls for the partitions without a     *)
(* stored answer.                                                          *)
LEMMA RecoveryStep ==
  ASSUME CoordTypeOK, NEW d \in Drive, NEW t \in Tx, tcState[t] = "PREPARING", RunPrepareRecovery(d, t)
  PROVE  CoordStep
<1> DEFINE null == tcParts[t] \ (accepted[t] \cup rejected[t])
<1>1. UNCHANGED <<txReq, txTs, faults>>
  BY DEF RunPrepareRecovery
<1>2. CASE DecideCancel(d, t)
  BY <1>1, <1>2, DecideStep
<1>3. CASE /\ FanOut(d, t, "prepare", "recover", null)
           /\ UNCHANGED <<tcState, tcParts, accepted, rejected, fatal, committed, cancelled>>
  <2>1. UNCHANGED ledgerVars
    BY <1>1, <1>3 DEF ledgerVars
  <2>2. tcState'[t] # "none"
    BY <1>3
  <2>3. KindOf("recover") = "prepare" /\ CallStarts("prepare", t) /\ null \in SUBSET Part
    BY <2>2 DEF KindOf, CallStarts, CoordTypeOK
  <2>4. (\A e \in Drive : DriveChange(e)) /\ SentStep
    <3> HIDE DEF null
    <3> QED
      BY <1>3, <2>2, <2>3, FanOutStep
  <2>5. QED
    BY <2>1, <2>4, SameLedgerStep DEF CoordStep
<1>4. QED
  BY <1>2, <1>3 DEF RunPrepareRecovery

(* Every step of a drive is a CoordStep.                                   *)
LEMMA DriveStepIsCoordStep ==
  ASSUME CoordTypeOK, DriveInv, NEW d \in Drive, DriveStep(d)
  PROVE  CoordStep
<1>1. dPhase[d] # "idle" => dTx[d] \in Tx
  BY DEF DriveInv
<1>2. CASE StartPrepare(d)
  <2>1. dTx[d] \in Tx
    BY <1>1, <1>2 DEF StartPrepare
  <2>2. QED
    BY <1>2, <2>1, DrivePrepareStep DEF StartPrepare
<1>3. CASE PrepareSettled(d)
  <2>1. dTx[d] \in Tx
    BY <1>1, <1>3 DEF PrepareSettled
  <2>2. DecideCommit(d, dTx[d]) \/ DecideCancel(d, dTx[d])
    BY <1>3 DEF PrepareSettled
  <2>3. QED
    BY <1>3, <2>1, <2>2, DecideStep DEF PrepareSettled
<1>4. CASE CommitSettled(d)
  <2> DEFINE t == dTx[d]
             stored == IF tcState[t] = "COMMITTING" THEN committed[t] \cup (Confirmed(d) \cap tcParts[t])
                       ELSE committed[t]
  <2>1. t \in Tx /\ dPhase[d] = "commit"
    BY <1>1, <1>4 DEF CommitSettled
  <2>2. UNCHANGED <<txReq, txTs>>
    BY <1>4 DEF CommitSettled
  <2>3. CASE CompleteTransaction(t, "COMMITTING", "COMMITTED") /\ (AllConfirmed(d) \/ tcParts[t] \subseteq stored)
    <3>1. CASE tcState[t] = "COMMITTING"
      <4>1. /\ tcState' = [tcState EXCEPT ![t] = "COMMITTED"] /\ tcParts' = [tcParts EXCEPT ![t] = {}]
            /\ accepted' = [accepted EXCEPT ![t] = {}] /\ committed' = [committed EXCEPT ![t] = {}]
        BY <2>3, <3>1 DEF CompleteTransaction
      <4>2. /\ tcState'[t] = "COMMITTED" /\ accepted'[t] = {} /\ committed'[t] = {}
            /\ \A s \in Tx \ {t} : /\ tcState'[s] = tcState[s] /\ tcParts'[s] = tcParts[s]
                                   /\ accepted'[s] = accepted[s] /\ committed'[s] = committed[s]
        BY <4>1, <2>1 DEF CoordTypeOK
      <4>3. AllConfirmed(d) \/ tcParts[t] \subseteq committed[t] \cup Confirmed(d)
        BY <2>3, <3>1
      <4>4. StateStep(t) /\ AnswerStep(t)
        BY <2>1, <2>2, <3>1, <4>2, <4>3 DEF StateStep, AnswerStep, SameRequest
      <4>5. \A s \in Tx \ {t} : StateStep(s) /\ AnswerStep(s)
        BY <2>2, <4>2 DEF StateStep, AnswerStep, SameRequest
      <4>6. QED
        BY <4>4, <4>5, <1>4, EndDriveStep DEF CommitSettled, CoordStep
    <3>2. CASE tcState[t] # "COMMITTING"
      <4>1. UNCHANGED ledgerVars
        BY <2>2, <2>3, <3>2 DEF CompleteTransaction, ledgerVars
      <4>2. QED
        BY <4>1, <1>4, EndDriveStep, SameLedgerStep DEF CommitSettled, CoordStep
    <3>3. QED
      BY <3>1, <3>2
  <2>4. CASE /\ committed' = [committed EXCEPT ![t] = stored]
             /\ UNCHANGED <<tcState, tcParts, accepted, rejected, fatal, cancelled>>
    <3>1. committed'[t] = stored /\ \A s \in Tx \ {t} : committed'[s] = committed[s]
      BY <2>1, <2>4 DEF CoordTypeOK
    <3>2. \A s \in Tx : StateStep(s)
      BY <2>2, <2>4 DEF StateStep, SameRequest
    <3>3. \A s \in Tx \ {t} : AnswerStep(s)
      BY <2>4, <3>1 DEF AnswerStep
    <3>4. AnswerStep(t)
      BY <2>1, <2>4, <3>1 DEF AnswerStep, Confirmed
    <3>5. QED
      BY <3>2, <3>3, <3>4, <1>4, EndDriveStep DEF CommitSettled, CoordStep
  <2>5. QED
    BY <1>4, <2>3, <2>4 DEF CommitSettled
<1>5. CASE CancelSettled(d)
  <2> DEFINE t == dTx[d]
  <2>1. t \in Tx
    BY <1>1, <1>5 DEF CancelSettled
  <2>2. UNCHANGED <<txReq, txTs>> /\ EndDrive(d)
    BY <1>5 DEF CancelSettled
  <2>3. CASE CompleteTransaction(t, "CANCELLING", "CANCELLED") /\ tcState[t] = "CANCELLING"
    <3>1. /\ tcState' = [tcState EXCEPT ![t] = "CANCELLED"] /\ tcParts' = [tcParts EXCEPT ![t] = {}]
          /\ accepted' = [accepted EXCEPT ![t] = {}] /\ committed' = [committed EXCEPT ![t] = {}]
      BY <2>3 DEF CompleteTransaction
    <3>2. /\ tcState'[t] = "CANCELLED" /\ accepted'[t] = {} /\ committed'[t] = {}
          /\ \A s \in Tx \ {t} : /\ tcState'[s] = tcState[s] /\ tcParts'[s] = tcParts[s]
                                 /\ accepted'[s] = accepted[s] /\ committed'[s] = committed[s]
      BY <3>1, <2>1 DEF CoordTypeOK
    <3>3. \A s \in Tx : StateStep(s) /\ AnswerStep(s)
      BY <2>1, <2>2, <2>3, <3>2 DEF StateStep, AnswerStep, SameRequest
    <3>4. QED
      BY <2>2, <3>3, EndDriveStep DEF CoordStep
  <2>4. CASE UNCHANGED ledgerVars
    BY <2>2, <2>4, EndDriveStep, SameLedgerStep DEF CoordStep
  <2>5. QED
    BY <1>5, <2>2, <2>3, <2>4 DEF CancelSettled, CompleteTransaction, ledgerVars
<1>6. CASE DriveLost(d)
  BY <1>6, EndDriveStep, SameLedgerStep DEF DriveLost, CoordStep
<1>7. ASSUME NEW heldTooLong \in BOOLEAN, RecoverySettled(d, heldTooLong)
      PROVE  CoordStep
  <2>1. dTx[d] \in Tx /\ UNCHANGED <<txReq, txTs, faults>>
    BY <1>1, <1>7 DEF RecoverySettled
  <2>2. CASE DecideCommit(d, dTx[d]) \/ DecideCancel(d, dTx[d])
    BY <2>1, <2>2, DecideStep
  <2>3. CASE EndDrive(d) /\ UNCHANGED <<tcState, tcParts, accepted, rejected, fatal, committed, cancelled>>
    <3>1. UNCHANGED ledgerVars
      BY <2>1, <2>3 DEF ledgerVars
    <3>2. QED
      BY <2>3, <3>1, EndDriveStep, SameLedgerStep DEF CoordStep
  <2>4. QED
    BY <1>7, <2>2, <2>3 DEF RecoverySettled
<1>8. ASSUME NEW p \in Part, PrepareAnswer(d, p)
      PROVE  CoordStep
  <2> DEFINE t == dTx[d]
             answer == IF dRpc[d][p] = "ack_out" THEN "ack" ELSE "nack"
  <2>1. t \in Tx /\ dPhase[d] \in {"prepare", "recover"} /\ dRpc[d][p] \in {"ack_out", "nack_out"}
    BY <1>1, <1>8 DEF PrepareAnswer
  <2>2. /\ dRpc' = [dRpc EXCEPT ![d][p] = answer] /\ StorePrepareAnswer(t, p, answer)
        /\ UNCHANGED <<tcState, txReq, txTs, tcParts, fatal, committed, cancelled, dPhase, dTx, sent, faults>>
    BY <1>8 DEF PrepareAnswer
  <2>3. (\A e \in Drive : DriveChange(e)) /\ SentStep
    BY <2>1, <2>2, AnswerCallStep
  <2>4. \A s \in Tx : StateStep(s)
    BY <2>2 DEF StateStep, SameRequest
  <2>5. \A s \in Tx \ {t} : accepted'[s] = accepted[s]
    BY <2>1, <2>2 DEF StorePrepareAnswer, CoordTypeOK
  <2>6. \/ accepted'[t] = accepted[t]
        \/ answer = "ack" /\ tcState[t] = "PREPARING" /\ accepted'[t] = accepted[t] \cup {p}
    BY <2>1, <2>2 DEF StorePrepareAnswer, CoordTypeOK
  <2>7. \A s \in Tx \ {t} : AnswerStep(s)
    BY <2>2, <2>5 DEF AnswerStep
  <2>8. AnswerStep(t)
    BY <2>1, <2>2, <2>6 DEF AnswerStep
  <2>9. QED
    BY <2>3, <2>4, <2>7, <2>8 DEF CoordStep
<1>9. ASSUME NEW p \in Part, CommitAnswer(d, p)
      PROVE  CoordStep
  <2>1. (\A e \in Drive : DriveChange(e)) /\ SentStep
    BY <1>9, AnswerCallStep DEF CommitAnswer
  <2>2. QED
    BY <1>9, <2>1, SameLedgerStep DEF CommitAnswer, CoordStep
<1>10. ASSUME NEW p \in Part, CancelAnswer(d, p)
       PROVE  CoordStep
  <2>1. (\A e \in Drive : DriveChange(e)) /\ SentStep
    BY <1>10, AnswerCallStep DEF CancelAnswer
  <2>2. \A s \in Tx : StateStep(s) /\ AnswerStep(s)
    BY <1>10 DEF CancelAnswer, StateStep, AnswerStep, SameRequest
  <2>3. QED
    BY <2>1, <2>2 DEF CoordStep
<1>11. ASSUME NEW p \in Part, ResolveError(d, p)
       PROVE  CoordStep
  <2>1. (\A e \in Drive : DriveChange(e)) /\ SentStep
    BY <1>11, AnswerCallStep DEF ResolveError
  <2>2. QED
    BY <1>11, <2>1, SameLedgerStep DEF ResolveError, CoordStep
<1>12. ASSUME NEW p \in Part, NEW isFatal \in BOOLEAN, PrepareError(d, p, isFatal)
       PROVE  CoordStep
  <2>1. (\A e \in Drive : DriveChange(e)) /\ SentStep
    BY <1>12, AnswerCallStep DEF PrepareError
  <2>2. \A s \in Tx : StateStep(s) /\ AnswerStep(s)
    BY <1>12 DEF PrepareError, StateStep, AnswerStep, SameRequest
  <2>3. QED
    BY <2>1, <2>2 DEF CoordStep
<1>13. QED
  BY <1>2, <1>3, <1>4, <1>5, <1>6, <1>7, <1>8, <1>9, <1>10, <1>11, <1>12 DEF DriveStep

(* The recovery of a stored transaction is a CoordStep.                    *)
LEMMA DriveTransactionStep ==
  ASSUME CoordTypeOK, NEW d \in Drive, NEW t \in Tx, DriveTransaction(t, d)
  PROVE  CoordTypeOK' /\ CoordStep
<1>0. DriveTypeOK
  BY DEF DriveTypeOK, CoordTypeOK
<1>1. CASE DrivePrepare(d, t)
  <2>1. tcParts[t] \in SUBSET Part
    BY DEF CoordTypeOK
  <2>2. DriveTypeOK'
    <3>1. CASE FanOut(d, t, "prepare", "prepare", tcParts[t])
      BY <3>1, <2>1, <1>0, FanOutType DEF RpcKind, Phase
    <3>2. QED
      BY <3>1, <1>1, <1>0, EndDriveType DEF DrivePrepare
  <2>3. CoordTypeOK'
    BY <1>1, <2>2 DEF DrivePrepare, CoordTypeOK, DriveTypeOK, TcState
  <2>4. QED
    BY <1>1, <2>3, DrivePrepareStep
<1>2. CASE tcState[t] = "PREPARING" /\ RunPrepareRecovery(d, t)
  <2> DEFINE null == tcParts[t] \ (accepted[t] \cup rejected[t])
  <2>1. UNCHANGED <<txReq, txTs, faults>>
    BY <1>2 DEF RunPrepareRecovery
  <2>2. ASSUME DecideCancel(d, t)
        PROVE  CoordTypeOK'
    BY <2>1, <2>2, DecideType DEF CoordTypeOK, DriveTypeOK
  <2>3. ASSUME /\ FanOut(d, t, "prepare", "recover", null)
               /\ UNCHANGED <<tcState, tcParts, accepted, rejected, fatal, committed, cancelled>>
        PROVE  CoordTypeOK'
    <3>1. null \in SUBSET Part /\ "prepare" \in RpcKind /\ "recover" \in Phase
      BY DEF CoordTypeOK, RpcKind, Phase
    <3>2. DriveTypeOK'
      <4> HIDE DEF null
      <4> QED
        BY <1>0, <2>3, <3>1, FanOutType
    <3>3. QED
      BY <2>1, <2>3, <3>2 DEF CoordTypeOK, DriveTypeOK
  <2>4. CoordTypeOK'
    BY <1>2, <2>2, <2>3 DEF RunPrepareRecovery
  <2>5. QED
    BY <1>2, <2>4, RecoveryStep
<1>3. CASE UNCHANGED <<ledgerVars, faults>> /\ (RunCommit(d, t, tcState[t]) \/ RunCancel(d, t, tcState[t]))
  <2>1. DriveTypeOK'
    BY <1>0, <1>3, RunType
  <2>2. CoordTypeOK'
    BY <1>3, <2>1 DEF CoordTypeOK, DriveTypeOK, ledgerVars
  <2>3. (\A e \in Drive : DriveChange(e)) /\ SentStep
    <3>1. tcState[t] = tcState'[t]
      BY <1>3 DEF ledgerVars
    <3>2. QED
      BY <1>3, <3>1, RunStep
  <2>4. QED
    BY <1>3, <2>2, <2>3, SameLedgerStep DEF CoordStep
<1>4. QED
  BY <1>1, <1>2, <1>3 DEF DriveTransaction

(* initiateWriteLocal stores a new transaction: a CoordStep.               *)
LEMMA InitiateWriteStep ==
  ASSUME CoordTypeOK, DriveInv, NEW t \in Tx, NEW r \in Requests, NEW ts \in Timestamp, NEW d \in Drive,
         InitiateWrite(t, r, ts, d)
  PROVE  CoordTypeOK' /\ CoordStep
<1>1. r \in Request /\ ts \in Nat
  BY RequestsAssumption, TimestampAssumption
<1>2. PartsOf(r) \in SUBSET Part
  BY <1>1, RequestFacts, PartOfAssumption DEF PartsOf
<1>3. CoordTypeOK'
  BY <1>1, <1>2 DEF InitiateWrite, CoordTypeOK, TcState, Phase
<1>4. /\ tcState[t] = "none" /\ tcState'[t] = "CREATED" /\ txReq'[t] = r /\ tcParts'[t] = PartsOf(r)
      /\ \A s \in Tx \ {t} : /\ tcState'[s] = tcState[s] /\ txReq'[s] = txReq[s] /\ txTs'[s] = txTs[s]
                             /\ tcParts'[s] = tcParts[s]
      /\ UNCHANGED <<accepted, rejected, fatal, committed, cancelled, dRpc, sent, faults>>
  BY DEF InitiateWrite, CoordTypeOK
<1>5. \A s \in Tx : StateStep(s) /\ AnswerStep(s)
  BY <1>4 DEF StateStep, AnswerStep, SameRequest
<1>6. /\ dPhase[d] = "idle" /\ dPhase'[d] = "start" /\ dTx'[d] = t
      /\ \A e \in Drive \ {d} : dPhase'[e] = dPhase[e] /\ dTx'[e] = dTx[e]
  BY DEF InitiateWrite, CoordTypeOK
<1>7. \A p \in Part : dRpc'[d][p] = "none"
  BY <1>4, <1>6 DEF DriveInv
<1>8. DriveStarts(d)
  BY <1>4, <1>6, <1>7 DEF DriveStarts
<1>9. \A e \in Drive : DriveChange(e)
  BY <1>4, <1>6, <1>8 DEF DriveChange
<1>10. SentStep
  BY <1>4 DEF SentStep
<1>11. QED
  BY <1>3, <1>5, <1>9, <1>10 DEF CoordStep

(* The sweep of finished transactions is a CoordStep.                      *)
LEMMA SweepStep ==
  ASSUME CoordTypeOK, NEW t \in Tx, SweepExpired(t)
  PROVE  CoordTypeOK' /\ CoordStep
<1>1. CoordTypeOK'
  BY DEF SweepExpired, CoordTypeOK, TcState, driveVars
<1>2. /\ tcState[t] \in {"COMMITTED", "CANCELLED"} /\ tcState'[t] = "swept"
      /\ \A s \in Tx \ {t} : tcState'[s] = tcState[s]
  BY DEF SweepExpired, CoordTypeOK
<1>3. \A s \in Tx : StateStep(s) /\ AnswerStep(s)
  BY <1>2 DEF SweepExpired, StateStep, AnswerStep, SameRequest
<1>4. (\A e \in Drive : DriveChange(e)) /\ SentStep
  BY DEF SweepExpired, driveVars, DriveChange, SentStep
<1>5. QED
  BY <1>1, <1>3, <1>4 DEF CoordStep

(* Every step of the coordinator is a CoordStep, and keeps its types. *)
LEMMA CoordinatorsStep ==
  ASSUME CoordTypeOK, DriveInv, Coordinators
  PROVE  CoordTypeOK' /\ CoordStep /\ UNCHANGED <<partVars, stale>>
<1>1. ASSUME NEW d \in Drive, DriveStep(d)
      PROVE  CoordTypeOK' /\ CoordStep
  BY <1>1, DriveStepType, DriveStepIsCoordStep
<1>2. ASSUME NEW t \in Tx, NEW d \in Drive, DriveTransaction(t, d)
      PROVE  CoordTypeOK' /\ CoordStep
  BY <1>2, DriveTransactionStep
<1>3. ASSUME NEW t \in Tx, NEW r \in Requests, NEW ts \in Timestamp, NEW d \in Drive, InitiateWrite(t, r, ts, d)
      PROVE  CoordTypeOK' /\ CoordStep
  BY <1>3, InitiateWriteStep
<1>4. ASSUME NEW t \in Tx, SweepExpired(t)
      PROVE  CoordTypeOK' /\ CoordStep
  BY <1>4, SweepStep
<1>5. QED
  BY <1>1, <1>2, <1>3, <1>4 DEF Coordinators
-----------------------------------------------------------------------------
(***************************************************************************)
(* What a step of the participants does: to the rows and locks of one      *)
(* transaction on one partition, to a call that is answered, and to the    *)
(* answer of a stale job.                                                  *)
(***************************************************************************)
Locks(t, p) == tcState[t] # "none" /\ PrepareLocal(t, txReq[t], p, txTs[t], TRUE)

Released(t, p) ==
  /\ lock' = [k \in Key |-> IF k \in LockedBy(t, p) THEN NoLock ELSE lock[k]]
  /\ guarded' = [guarded EXCEPT ![p] = @ \ {t}]

Applies(t, p) ==
  /\ <<"commit", t, p>> \in sent \/ stale[p][t] = "COMMITTED"
  /\ ApplyLocks(t, p, LockedBy(t, p), txTs[t]) /\ Released(t, p) /\ UNCHANGED writes

Drops(t, p) ==
  /\ <<"cancel", t, p>> \in sent \/ stale[p][t] \in {"CANCELLED", "not_found"}
  /\ Released(t, p) /\ UNCHANGED <<item, delTs, delV, writes, applied>>

Guards(t, p) == stale[p][t] = "not_found" /\ GuardPendingTx(t, p)

PartStep ==
  \/ UNCHANGED partVars
  \/ \E t \in Tx, p \in Part : Locks(t, p) \/ Applies(t, p) \/ Drops(t, p) \/ Guards(t, p)
  \/ \E r \in Request, p \in Part, ts \in Nat : LocalRequest(r) /\ WriteEffect(r, p, ts)

(* An "ack" to a prepare says the locks are held, an "ack" to a commit     *)
(* that the part is applied.                                               *)
CallStep(d, p) ==
  \/ dRpc'[d][p] = dRpc[d][p]
  \/ /\ dRpc[d][p] = "sent"
     /\ \/ dRpc'[d][p] = "nack_out"
        \/ /\ dRpc'[d][p] = "ack_out"
           /\ dPhase[d] \in {"prepare", "recover"} => HoldsAt(dTx[d], p)'
           /\ dPhase[d] = "commit" => AppliedAt(dTx[d], p)'

StaleStep ==
  \A p \in Part, t \in Tx :
    \/ stale'[p][t] \in {stale[p][t], "none"}
    \/ stale'[p][t] = RecoverTransactionAnswer(t) /\ tcState[t] # "none" /\ UNCHANGED partVars

ParticipantStep ==
  /\ UNCHANGED <<ledgerVars, dPhase, dTx, sent>>
  /\ PartStep
  /\ \A d \in Drive, p \in Part : CallStep(d, p)
  /\ StaleStep

(* The locks that a partition holds of t. *)
LEMMA LockedByFacts ==
  ASSUME NEW t, NEW p
  PROVE  /\ LockedBy(t, p) \subseteq Key
         /\ \A k \in Key : k \in LockedBy(t, p) <=> PartOf[k] = p /\ lock[k].tx = t
BY DEF LockedBy

(* A release of all locks of a transaction on a partition touches no other *)
(* lock and no row.                                                        *)
LEMMA ReleaseAllFacts ==
  ASSUME NEW t, NEW p, NEW K, LockedBy(t, p) \subseteq K, \A k \in K \cap Key : PartOf[k] = p,
         Release(t, p, K)
  PROVE  Released(t, p)
BY DEF Release, Released, LockedBy

(* Prepare locks the keys of the request on the partition that were free,  *)
(* under their conditions and above their watermarks.                      *)
LEMMA LocksFacts ==
  ASSUME TypeOK, NEW t \in Tx, NEW p \in Part, Locks(t, p)
  PROVE  /\ UNCHANGED <<item, delTs, delV, guarded, writes, applied>>
         /\ \A k \in Key :
              \/ lock'[k] = lock[k]
              \/ /\ k \in KeysAt(txReq[t], p) /\ lock[k] = NoLock
                 /\ lock'[k] = LockRow(t, k, txReq[t], txTs[t])
                 /\ \A i \in OpsOf(txReq[t], k) :
                      Holds(txReq[t][i].cond, DataBefore(txReq[t], i, t)) /\ txTs[t] > Watermark(k, txReq[t][i].op)
         /\ \A k \in KeysAt(txReq[t], p) : lock'[k].tx = t
<1>1. KeysAt(txReq[t], p) \subseteq Key
  BY RequestFacts DEF KeysAt, TypeOK, CoordTypeOK
<1>2. \A k \in Key : lock'[k] = IF k \in KeysAt(txReq[t], p) /\ lock[k].tx # t
                                THEN LockRow(t, k, txReq[t], txTs[t]) ELSE lock[k]
  BY DEF Locks, PrepareLocal, WriteLocks
<1>3. \A k \in KeysAt(txReq[t], p) :
        \/ lock[k].tx = t
        \/ /\ lock[k] = NoLock
           /\ \A i \in OpsOf(txReq[t], k) :
                Holds(txReq[t][i].cond, DataBefore(txReq[t], i, t)) /\ txTs[t] > Watermark(k, txReq[t][i].op)
  BY DEF Locks, PrepareLocal, PrepareAccepts, ConditionsHold, OpsOf
<1>4. \A k \in Key : LockRow(t, k, txReq[t], txTs[t]).tx = t
  BY DEF LockRow
<1>5. UNCHANGED <<item, delTs, delV, guarded, writes, applied>>
  BY DEF Locks, PrepareLocal
<1>6. QED
  BY <1>1, <1>2, <1>3, <1>4, <1>5

(* A commit call finds its locks, or their work done. *)
LEMMA CommitFindsItsPart ==
  ASSUME IInv, NEW t \in Tx, NEW p \in Part, <<"commit", t, p>> \in sent, LockedBy(t, p) = {}
  PROVE  AppliedAt(t, p)
<1>1. tcState[t] \in {"COMMITTING", "COMMITTED", "swept"}
  BY DEF IInv, CallInv
<1>2. SUFFICES ASSUME NEW k \in KeysAt(txReq[t], p)
               PROVE  applied[t][k] > 0
  BY DEF AppliedAt
<1>3. k \in KeysOfTx(t) /\ k \in Key /\ lock[k].tx # t
  BY RequestFacts DEF KeysAt, KeysOfTx, LockedBy, IInv, TypeOK, CoordTypeOK
<1>4. CASE tcState[t] = "COMMITTING"
  BY <1>3, <1>4 DEF IInv, DecidedIsDurable
<1>5. CASE tcState[t] = "COMMITTED"
  BY <1>3, <1>5 DEF IInv, CommittedIsApplied
<1>6. CASE tcState[t] = "swept"
  BY <1>3, <1>6 DEF IInv, SweptInv, AllApplied
<1>7. QED
  BY <1>1, <1>4, <1>5, <1>6

(* A reply changes the waiting call alone.                                 *)
LEMMA ReplyFacts ==
  ASSUME CoordTypeOK, NEW d \in Drive, NEW p \in Part, NEW answer \in {"ack_out", "nack_out"},
         dRpc' = [dRpc EXCEPT ![d][p] = answer], UNCHANGED <<dPhase, dTx>>
  PROVE  /\ dRpc'[d][p] = answer
         /\ \A e \in Drive, q \in Part : <<e, q>> # <<d, p>> => dRpc'[e][q] = dRpc[e][q]
         /\ dRpc' \in [Drive -> [Part -> RpcState]]
BY DEF CoordTypeOK, RpcState

(* commitLocal applies the locks of its transaction or, with none left,    *)
(* changes nothing: a PartStep.                                            *)
LEMMA CommitLocalStep ==
  ASSUME IInv, NEW t \in Tx, NEW p \in Part, CommitLocal(t, txReq[t], p, txTs[t]),
         <<"commit", t, p>> \in sent, UNCHANGED txReq
  PROVE  PartStep /\ AppliedAt(t, p)'
<1>1. CASE LockedBy(t, p) = {} /\ UNCHANGED partVars
  <2>1. AppliedAt(t, p)
    BY <1>1, CommitFindsItsPart
  <2>2. QED
    BY <1>1, <2>1 DEF PartStep, AppliedAt, KeysAt, partVars
<1>2. CASE /\ LockedBy(t, p) = KeysAt(txReq[t], p)
           /\ ApplyLocks(t, p, LockedBy(t, p), txTs[t])
           /\ Release(t, p, LockedBy(t, p))
           /\ UNCHANGED writes
  <2>1. Released(t, p)
    BY <1>2, ReleaseAllFacts, LockedByFacts
  <2>2. Applies(t, p)
    BY <1>2, <2>1 DEF Applies
  <2>3. RequestTypes /\ PartTypeOK /\ RowInv /\ LockInv /\ txTs[t] \in Nat
    BY DEF IInv, TypeOK, CoordTypeOK, RequestTypes
  <2>4. \A k \in KeysAt(txReq[t], p) : k \in Key /\ applied'[t][k] = applied[t][k] + 1 /\ applied[t][k] \in Nat
    BY <1>2, <2>3, ApplyLocksFacts, LockedByFacts DEF PartTypeOK
  <2>5. AppliedAt(t, p)'
    BY <2>4 DEF AppliedAt, KeysAt
  <2>6. QED
    BY <2>2, <2>5 DEF PartStep
<1>3. QED
  BY <1>1, <1>2 DEF CommitLocal

(* cancelLocal drops the locks of its transaction: a PartStep.             *)
LEMMA CancelLocalStep ==
  ASSUME IInv, NEW t \in Tx, NEW p \in Part, CancelLocal(t, txReq[t], p), <<"cancel", t, p>> \in sent
  PROVE  PartStep
<1>1. LockedBy(t, p) \subseteq KeysAt(txReq[t], p)
  BY DEF IInv, LocksAreAllOrNone
<1>2. \A k \in KeysAt(txReq[t], p) : PartOf[k] = p
  BY DEF KeysAt
<1>3. Released(t, p)
  BY <1>1, <1>2, ReleaseAllFacts DEF CancelLocal
<1>4. QED
  BY <1>3 DEF PartStep, Drops, CancelLocal

(* The stale job applies, drops or quarantines the locks as its answer     *)
(* says: a PartStep.                                                       *)
LEMMA ResolveStaleStep ==
  ASSUME IInv, NEW t \in Tx, NEW p \in Part, NEW overAge, ResolveStale(t, p, stale[p][t], overAge)
  PROVE  PartStep
<1> DEFINE K == LockedBy(t, p)
<1>1. Release(t, p, K) => Released(t, p)
  BY ReleaseAllFacts, LockedByFacts
<1>2. CASE /\ stale[p][t] = "COMMITTED"
           /\ \E k \in K : ApplyLocks(t, p, K, lock[k].ts)
           /\ Release(t, p, K)
           /\ UNCHANGED writes
  <2>1. PICK k \in K : ApplyLocks(t, p, K, lock[k].ts)
    BY <1>2
  <2>2. k \in Key /\ lock[k].tx = t
    BY LockedByFacts
  <2>3. lock[k] # NoLock
    BY <2>2, LockFacts DEF IInv, TypeOK
  <2>4. lock[k].ts = txTs[t]
    <3>1. lock[k] = LockRow(t, k, txReq[t], txTs[t])
      BY <2>2, <2>3 DEF IInv, LockInv, LockOK
    <3>2. QED
      BY <3>1 DEF LockRow
  <2>5. Applies(t, p)
    BY <1>1, <1>2, <2>1, <2>4 DEF Applies
  <2>6. QED
    BY <2>5 DEF PartStep
<1>3. CASE stale[p][t] \in {"CANCELLED", "not_found"} /\ ReleaseAll(t, p)
  BY <1>1, <1>3 DEF ReleaseAll, PartStep, Drops
<1>4. CASE stale[p][t] = "not_found" /\ GuardPendingTx(t, p)
  BY <1>4 DEF PartStep, Guards
<1>5. QED
  BY <1>2, <1>3, <1>4 DEF ResolveStale

(* The three ways a call is executed for a waiting drive. *)
LEMMA ExecStep ==
  ASSUME IInv, NEW t \in Tx, NEW p \in Part, NEW d \in Drive,
         ExecPrepare(t, p, d) \/ ClockSkew(t, p, d) \/ ExecCommit(t, p, d) \/ ExecCancel(t, p, d)
  PROVE  ParticipantStep
<1>0. CoordTypeOK /\ TypeOK
  BY DEF IInv, TypeOK
<1>1. /\ dTx[d] = t /\ dRpc[d][p] = "sent" /\ dPhase[d] \in {"prepare", "recover", "commit", "cancel"}
      /\ UNCHANGED <<ledgerVars, dPhase, dTx, sent, stale>>
  BY DEF ExecPrepare, ClockSkew, ExecCommit, ExecCancel, Waiting, Reply
<1>2. <<KindOf(dPhase[d]), t, p>> \in sent
  BY <1>1 DEF IInv, DriveInv
<1>3. StaleStep
  BY <1>1 DEF StaleStep
<1>4. UNCHANGED txReq
  BY <1>1 DEF ledgerVars
<1>5. tcState[t] # "none"
  BY <1>1 DEF IInv, DriveInv
<1>6. ASSUME NEW answer \in {"ack_out", "nack_out"}, dRpc' = [dRpc EXCEPT ![d][p] = answer], CallStep(d, p)
      PROVE  \A e \in Drive, q \in Part : CallStep(e, q)
  BY <1>0, <1>1, <1>6, ReplyFacts DEF CallStep
<1>7. CASE ExecPrepare(t, p, d)
  <2>1. PICK accepts \in BOOLEAN :
          /\ PrepareLocal(t, txReq[t], p, txTs[t], accepts)
          /\ Reply(d, p, IF accepts THEN "ack_out" ELSE "nack_out")
    BY <1>7 DEF ExecPrepare
  <2>2. CASE accepts
    <3>1. Locks(t, p) /\ dRpc' = [dRpc EXCEPT ![d][p] = "ack_out"]
      BY <1>5, <2>1, <2>2 DEF Locks, Reply
    <3>2. dRpc'[d][p] = "ack_out"
      BY <1>0, <1>1, <3>1, ReplyFacts
    <3>3. HoldsAt(t, p)'
      BY <1>0, <1>4, <3>1, LocksFacts DEF HoldsAt, KeysAt
    <3>4. CallStep(d, p)
      BY <1>1, <1>7, <3>2, <3>3 DEF CallStep, ExecPrepare, Waiting
    <3>5. QED
      BY <1>1, <1>3, <1>6, <3>1, <3>4 DEF ParticipantStep, PartStep
  <2>3. CASE ~accepts
    <3>1. dRpc' = [dRpc EXCEPT ![d][p] = "nack_out"] /\ UNCHANGED partVars
      BY <2>1, <2>3 DEF Reply, PrepareLocal, partVars
    <3>2. CallStep(d, p)
      BY <1>0, <1>1, <3>1, ReplyFacts DEF CallStep
    <3>3. QED
      BY <1>1, <1>3, <1>6, <3>1, <3>2 DEF ParticipantStep, PartStep
  <2>4. QED
    BY <2>2, <2>3
<1>8. CASE ClockSkew(t, p, d)
  <2>1. dRpc' = [dRpc EXCEPT ![d][p] = "nack_out"] /\ UNCHANGED partVars
    BY <1>8 DEF ClockSkew
  <2>2. CallStep(d, p)
    BY <1>0, <1>1, <2>1, ReplyFacts DEF CallStep
  <2>3. QED
    BY <1>1, <1>3, <1>6, <2>1, <2>2 DEF ParticipantStep, PartStep
<1>9. CASE ExecCommit(t, p, d)
  <2>1. dPhase[d] = "commit" /\ CommitLocal(t, txReq[t], p, txTs[t]) /\ dRpc' = [dRpc EXCEPT ![d][p] = "ack_out"]
    BY <1>9 DEF ExecCommit, Waiting, Reply
  <2>2. <<"commit", t, p>> \in sent
    BY <1>2, <2>1 DEF KindOf
  <2>3. PartStep /\ AppliedAt(t, p)'
    BY <1>4, <2>1, <2>2, CommitLocalStep
  <2>4. CallStep(d, p)
    BY <1>0, <1>1, <2>1, <2>3, ReplyFacts DEF CallStep
  <2>5. QED
    BY <1>1, <1>3, <1>6, <2>1, <2>3, <2>4 DEF ParticipantStep
<1>10. CASE ExecCancel(t, p, d)
  <2>1. dPhase[d] = "cancel" /\ CancelLocal(t, txReq[t], p) /\ dRpc' = [dRpc EXCEPT ![d][p] = "ack_out"]
    BY <1>10 DEF ExecCancel, Waiting, Reply
  <2>2. <<"cancel", t, p>> \in sent
    BY <1>2, <2>1 DEF KindOf
  <2>3. PartStep
    BY <2>1, <2>2, CancelLocalStep
  <2>4. CallStep(d, p)
    BY <1>0, <1>1, <2>1, ReplyFacts DEF CallStep
  <2>5. QED
    BY <1>1, <1>3, <1>6, <2>1, <2>3, <2>4 DEF ParticipantStep
<1>11. QED
  BY <1>7, <1>8, <1>9, <1>10

(* A late prepare, commit or cancel is a ParticipantStep.                  *)
LEMMA LateStep ==
  ASSUME IInv, NEW t \in Tx, NEW p \in Part, LatePrepare(t, p) \/ LateCommit(t, p) \/ LateCancel(t, p)
  PROVE  ParticipantStep
<1>1. UNCHANGED <<ledgerVars, dPhase, dTx, dRpc, sent, stale>>
  BY DEF LatePrepare, LateCommit, LateCancel, NoReply, coordVars, driveVars
<1>2. StaleStep /\ \A d \in Drive, q \in Part : CallStep(d, q)
  BY <1>1 DEF StaleStep, CallStep
<1>3. CASE LatePrepare(t, p)
  <2>1. tcState[t] # "none"
    BY <1>3 DEF LatePrepare, IInv, CallInv
  <2>2. QED
    BY <1>1, <1>2, <1>3, <2>1 DEF LatePrepare, ParticipantStep, PartStep, Locks
<1>4. CASE LateCommit(t, p)
  BY <1>1, <1>2, <1>4, CommitLocalStep DEF LateCommit, ParticipantStep, ledgerVars
<1>5. CASE LateCancel(t, p)
  BY <1>1, <1>2, <1>5, CancelLocalStep DEF LateCancel, ParticipantStep
<1>6. QED
  BY <1>3, <1>4, <1>5

(* Asking and applying in the stale job are ParticipantSteps.              *)
LEMMA StaleJobStep ==
  ASSUME IInv, NEW t \in Tx, NEW p \in Part, NEW overAge, StaleAsk(t, p) \/ StaleApply(t, p, overAge)
  PROVE  ParticipantStep
<1>0. stale \in [Part -> [Tx -> StaleAnswer]]
  BY DEF IInv, TypeOK
<1>1. UNCHANGED <<ledgerVars, dPhase, dTx, dRpc, sent>>
  BY DEF StaleAsk, StaleApply, coordVars, driveVars
<1>2. \A d \in Drive, q \in Part : CallStep(d, q)
  BY <1>1 DEF CallStep
<1>3. CASE StaleAsk(t, p)
  <2>1. UNCHANGED partVars /\ stale' = [stale EXCEPT ![p][t] = RecoverTransactionAnswer(t)]
    BY <1>3 DEF StaleAsk
  <2>2. tcState[t] # "none"
    <3>1. PICK k \in Key : lock[k].tx = t
      BY <1>3 DEF StaleAsk, LockedBy
    <3>2. QED
      BY <3>1, LockFacts DEF IInv, TypeOK, LockInv, LockOK
  <2>3. StaleStep
    BY <1>0, <2>1, <2>2 DEF StaleStep
  <2>4. QED
    BY <1>1, <1>2, <2>1, <2>3 DEF ParticipantStep, PartStep
<1>4. CASE StaleApply(t, p, overAge)
  <2>1. stale' = [stale EXCEPT ![p][t] = "none"]
    BY <1>4 DEF StaleApply
  <2>2. StaleStep
    BY <1>0, <2>1 DEF StaleStep
  <2>3. PartStep
    <3>1. CASE LockedBy(t, p) = {}
      BY <1>4, <3>1 DEF StaleApply, PartStep
    <3>2. CASE LockedBy(t, p) # {}
      BY <1>4, <3>2, ResolveStaleStep DEF StaleApply
    <3>3. QED
      BY <3>1, <3>2
  <2>4. QED
    BY <1>1, <1>2, <2>2, <2>3 DEF ParticipantStep
<1>5. QED
  BY <1>3, <1>4

(* The writes outside the coordinator are ParticipantSteps.                *)
LEMMA LocalWriteStep ==
  ASSUME LocalWrites
  PROVE  ParticipantStep
<1>1. PICK r \in Request, p \in Part, ts \in Nat : LocalRequest(r) /\ WriteEffect(r, p, ts)
  BY LocalWriteEffect
<1>2. UNCHANGED <<coordVars, stale>>
  BY <1>1 DEF WriteEffect
<1>3. UNCHANGED <<ledgerVars, dPhase, dTx, dRpc, sent, stale>>
  BY <1>2 DEF coordVars, driveVars
<1>4. QED
  BY <1>1, <1>3 DEF ParticipantStep, PartStep, CallStep, StaleStep

(* Every step of the participants is a ParticipantStep.                    *)
LEMMA ParticipantsStep ==
  ASSUME IInv, Participants
  PROVE  ParticipantStep
<1>1. ASSUME NEW t \in Tx, NEW p \in Part, NEW d \in Drive,
             ExecPrepare(t, p, d) \/ ClockSkew(t, p, d) \/ ExecCommit(t, p, d) \/ ExecCancel(t, p, d)
      PROVE  ParticipantStep
  BY <1>1, ExecStep
<1>2. ASSUME NEW t \in Tx, NEW p \in Part, NEW overAge \in OverAge, StaleApply(t, p, overAge)
      PROVE  ParticipantStep
  BY <1>2, StaleJobStep
<1>3. ASSUME NEW t \in Tx, NEW p \in Part,
             LatePrepare(t, p) \/ LateCommit(t, p) \/ LateCancel(t, p) \/ StaleAsk(t, p)
      PROVE  ParticipantStep
  BY <1>3, LateStep, StaleJobStep
<1>4. QED
  BY <1>1, <1>2, <1>3, LocalWriteStep DEF Participants
-----------------------------------------------------------------------------
(***************************************************************************)
(* Every step keeps the types and is one of the two kinds.                 *)
(***************************************************************************)
Step == (CoordStep /\ UNCHANGED <<partVars, stale>>) \/ ParticipantStep

(* A PartStep keeps the types of the partitions.                           *)
LEMMA PartStepType ==
  ASSUME IInv, PartStep
  PROVE  PartTypeOK'
<1>0. PartTypeOK /\ CoordTypeOK /\ RowInv /\ LockInv /\ RequestTypes
  BY DEF IInv, TypeOK, CoordTypeOK, RequestTypes
<1>1. CASE UNCHANGED partVars
  BY <1>0, <1>1 DEF partVars, PartTypeOK
<1>2. ASSUME NEW t \in Tx, NEW p \in Part, Released(t, p)
      PROVE  lock' \in [Key -> Lock] /\ guarded' \in [Part -> SUBSET Tx]
  BY <1>0, <1>2 DEF Released, PartTypeOK, Lock
<1>3. ASSUME NEW t \in Tx, NEW p \in Part, Locks(t, p)
      PROVE  PartTypeOK'
  <2>1. txReq[t] \in Request /\ txTs[t] \in Nat
    BY <1>0 DEF CoordTypeOK
  <2>2. QED
    BY <1>0, <1>3, <2>1, PrepareType DEF Locks
<1>4. ASSUME NEW t \in Tx, NEW p \in Part, Applies(t, p)
      PROVE  PartTypeOK'
  <2>1. txTs[t] \in Nat
    BY <1>0 DEF CoordTypeOK
  <2>2. /\ item' \in [Key -> Row] /\ delTs' \in [Part -> Nat] /\ delV' \in [Part -> Nat]
        /\ applied' \in [Tx -> [Key -> Nat]]
    BY <1>0, <1>4, <2>1, ApplyLocksFacts DEF Applies, RowsAdvance
  <2>3. lock' \in [Key -> Lock] /\ guarded' \in [Part -> SUBSET Tx]
    BY <1>2, <1>4 DEF Applies
  <2>4. writes' \in Nat
    BY <1>0, <1>4 DEF Applies, PartTypeOK
  <2>5. QED
    BY <2>2, <2>3, <2>4 DEF PartTypeOK
<1>5. ASSUME NEW t \in Tx, NEW p \in Part, Drops(t, p)
      PROVE  PartTypeOK'
  <2>1. lock' \in [Key -> Lock] /\ guarded' \in [Part -> SUBSET Tx]
    BY <1>2, <1>5 DEF Drops
  <2>2. QED
    BY <1>0, <1>5, <2>1 DEF Drops, PartTypeOK
<1>6. ASSUME NEW t \in Tx, NEW p \in Part, Guards(t, p)
      PROVE  PartTypeOK'
  BY <1>0, <1>6 DEF Guards, GuardPendingTx, PartTypeOK
<1>7. ASSUME NEW r \in Request, NEW p \in Part, NEW ts \in Nat, WriteEffect(r, p, ts)
      PROVE  PartTypeOK'
  <2>1. item' \in [Key -> Row] /\ delTs' \in [Part -> Nat] /\ delV' \in [Part -> Nat]
    BY <1>0, <1>7, WriteLocallyFacts DEF WriteEffect, RowsAdvance
  <2>2. writes' \in Nat /\ UNCHANGED <<lock, guarded, applied>>
    BY <1>0, <1>7 DEF WriteEffect, WriteLocally, PartTypeOK
  <2>3. QED
    BY <1>0, <2>1, <2>2 DEF PartTypeOK
<1>8. QED
  BY <1>1, <1>3, <1>4, <1>5, <1>6, <1>7 DEF PartStep

(* The participants keep the types of the coordinator.                     *)
LEMMA ParticipantsCoordType ==
  ASSUME TypeOK, Participants
  PROVE  CoordTypeOK' /\ stale' \in [Part -> [Tx -> StaleAnswer]]
<1>0. CoordTypeOK /\ stale \in [Part -> [Tx -> StaleAnswer]]
  BY DEF TypeOK
<1>1. ASSUME UNCHANGED coordVars
      PROVE  CoordTypeOK'
  BY <1>0, <1>1 DEF coordVars, ledgerVars, driveVars, CoordTypeOK
<1>2. ASSUME NEW t \in Tx, NEW p \in Part, NEW d \in Drive,
             ExecPrepare(t, p, d) \/ ClockSkew(t, p, d) \/ ExecCommit(t, p, d) \/ ExecCancel(t, p, d)
      PROVE  CoordTypeOK' /\ UNCHANGED stale
  <2>1. PICK answer \in {"ack_out", "nack_out"} : dRpc' = [dRpc EXCEPT ![d][p] = answer]
    BY <1>2 DEF ExecPrepare, ClockSkew, ExecCommit, ExecCancel, Reply
  <2>2. UNCHANGED <<ledgerVars, dPhase, dTx, sent, stale>>
    BY <1>2 DEF ExecPrepare, ClockSkew, ExecCommit, ExecCancel, Reply
  <2>3. faults' \in Nat
    BY <1>0, <1>2 DEF ExecPrepare, ClockSkew, ExecCommit, ExecCancel, Reply, Fault, CoordTypeOK
  <2>4. dRpc' \in [Drive -> [Part -> RpcState]]
    BY <1>0, <2>1, <2>2, ReplyFacts
  <2>5. QED
    BY <1>0, <2>2, <2>3, <2>4 DEF CoordTypeOK, ledgerVars
<1>3. ASSUME NEW t \in Tx, NEW p \in Part, NEW overAge \in OverAge, StaleApply(t, p, overAge)
      PROVE  CoordTypeOK' /\ stale' \in [Part -> [Tx -> StaleAnswer]]
  BY <1>0, <1>1, <1>3 DEF StaleApply, StaleAnswer
<1>4. ASSUME NEW t \in Tx, NEW p \in Part, StaleAsk(t, p)
      PROVE  CoordTypeOK' /\ stale' \in [Part -> [Tx -> StaleAnswer]]
  <2>1. RecoverTransactionAnswer(t) \in StaleAnswer
    BY <1>4 DEF StaleAsk, RecoverTransactionAnswer, StaleAnswer
  <2>2. QED
    BY <1>0, <1>1, <1>4, <2>1 DEF StaleAsk
<1>5. ASSUME NEW t \in Tx, NEW p \in Part, LatePrepare(t, p) \/ LateCommit(t, p) \/ LateCancel(t, p)
      PROVE  CoordTypeOK' /\ UNCHANGED stale
  BY <1>1, <1>5 DEF LatePrepare, LateCommit, LateCancel, NoReply
<1>6. ASSUME LocalWrites
      PROVE  CoordTypeOK' /\ UNCHANGED stale
  BY <1>1, <1>6 DEF LocalWrites
<1>7. QED
  BY <1>0, <1>2, <1>3, <1>4, <1>5, <1>6 DEF Participants

(* Every step of the system is a CoordStep or a ParticipantStep, and keeps *)
(* the types.                                                              *)
LEMMA NextIsStep ==
  ASSUME IInv, [Next]_vars
  PROVE  TypeOK' /\ Step
<1>0. TypeOK /\ CoordTypeOK /\ DriveInv
  BY DEF IInv, TypeOK
<1>1. CASE Participants
  <2>1. ParticipantStep
    BY <1>1, ParticipantsStep
  <2>2. PartTypeOK'
    BY <2>1, PartStepType DEF ParticipantStep
  <2>3. QED
    BY <1>0, <1>1, <2>1, <2>2, ParticipantsCoordType DEF TypeOK, Step
<1>2. CASE Coordinators
  <2>1. CoordTypeOK' /\ CoordStep /\ UNCHANGED <<partVars, stale>>
    BY <1>0, <1>2, CoordinatorsStep
  <2>2. PartTypeOK' /\ stale' \in [Part -> [Tx -> StaleAnswer]]
    BY <1>0, <2>1 DEF TypeOK, PartTypeOK, partVars
  <2>3. QED
    BY <2>1, <2>2 DEF TypeOK, Step
<1>3. CASE UNCHANGED vars
  <2>1. UNCHANGED <<partVars, coordVars, stale>>
    BY <1>3 DEF vars
  <2>2. TypeOK'
    BY <1>0, <2>1 DEF TypeOK, PartTypeOK, CoordTypeOK, partVars, coordVars, ledgerVars, driveVars
  <2>3. CoordStep
    BY <2>1, SameLedgerStep DEF CoordStep, DriveChange, SentStep, coordVars, driveVars
  <2>4. QED
    BY <2>1, <2>2, <2>3 DEF Step
<1>4. QED
  BY <1>1, <1>2, <1>3 DEF Next
-----------------------------------------------------------------------------
(***************************************************************************)
(* The ledger, the calls and the drives.                                   *)
(***************************************************************************)
LEMMA LedgerStep ==
  ASSUME IInv, TypeOK', Step
  PROVE  LedgerInv'
<1>0. LedgerInv
  BY DEF IInv
<1>1. CASE CoordStep
  <2>1. ASSUME NEW t \in Tx
        PROVE  tcState'[t] = "none" => txReq'[t] = NoRequest /\ accepted'[t] = {} /\ committed'[t] = {}
    <3>1. StateStep(t) /\ AnswerStep(t)
      BY <1>1 DEF CoordStep
    <3>2. tcState'[t] = "none" => tcState[t] = "none" /\ txReq'[t] = txReq[t]
      BY <3>1 DEF StateStep, SameRequest
    <3>3. QED
      BY <1>0, <3>1, <3>2 DEF AnswerStep, LedgerInv
  <2>2. ASSUME NEW t \in Tx, tcState'[t] \in {"CREATED", "PREPARING", "COMMITTING", "CANCELLING"}
        PROVE  tcParts'[t] = PartsOf(txReq'[t])
    <3>1. StateStep(t)
      BY <1>1 DEF CoordStep
    <3>2. QED
      BY <1>0, <2>2, <3>1 DEF StateStep, LedgerInv, SameRequest
  <2>3. QED
    BY <2>1, <2>2 DEF LedgerInv, PartsOf
<1>2. CASE ParticipantStep
  BY <1>0, <1>2 DEF ParticipantStep, ledgerVars, LedgerInv, PartsOf
<1>3. QED
  BY <1>1, <1>2 DEF Step

(* A state of the ledger only moves forward. *)
LEMMA StatesMoveForward ==
  ASSUME NEW t \in Tx, StateStep(t)
  PROVE  /\ tcState'[t] = "none" => tcState[t] = "none"
         /\ tcState[t] = "COMMITTING" => tcState'[t] \in {"COMMITTING", "COMMITTED"}
         /\ tcState[t] = "COMMITTED" => tcState'[t] \in {"COMMITTED", "swept"}
         /\ tcState[t] = "CANCELLING" => tcState'[t] \in {"CANCELLING", "CANCELLED"}
         /\ tcState[t] = "CANCELLED" => tcState'[t] \in {"CANCELLED", "swept"}
         /\ tcState[t] = "swept" => tcState'[t] = "swept"
         /\ tcState[t] # "none" => SameRequest(t)
BY DEF StateStep, SameRequest

(* Every step keeps CallInv.                                               *)
LEMMA CallsStep ==
  ASSUME IInv, TypeOK', Step
  PROVE  CallInv'
<1>0. CallInv
  BY DEF IInv
<1>1. CASE CoordStep
  <2> SUFFICES ASSUME NEW t \in Tx, NEW p \in Part
               PROVE  /\ <<"prepare", t, p>> \in sent' => tcState'[t] # "none"
                      /\ <<"commit", t, p>> \in sent' => tcState'[t] \in {"COMMITTING", "COMMITTED", "swept"}
                      /\ <<"cancel", t, p>> \in sent' => tcState'[t] \in {"CANCELLING", "CANCELLED", "swept"}
                      /\ \A q \in Part : ~(<<"commit", t, p>> \in sent' /\ <<"cancel", t, q>> \in sent')
    BY DEF CallInv
  <2>1. \A kind \in RpcKind, q \in Part :
          <<kind, t, q>> \in sent' => <<kind, t, q>> \in sent \/ CallStarts(kind, t)
    BY <1>1 DEF CoordStep, SentStep
  <2>2. StateStep(t)
    BY <1>1 DEF CoordStep
  <2>3. <<"prepare", t, p>> \in sent' => <<"prepare", t, p>> \in sent \/ tcState'[t] # "none"
    BY <2>1 DEF RpcKind, CallStarts
  <2>4. <<"commit", t, p>> \in sent' => <<"commit", t, p>> \in sent \/ tcState'[t] = "COMMITTING"
    BY <2>1 DEF RpcKind, CallStarts
  <2>5. \A q \in Part : <<"cancel", t, q>> \in sent' => <<"cancel", t, q>> \in sent \/ tcState'[t] = "CANCELLING"
    BY <2>1 DEF RpcKind, CallStarts
  <2>6. /\ <<"prepare", t, p>> \in sent => tcState[t] # "none"
        /\ <<"commit", t, p>> \in sent => tcState[t] \in {"COMMITTING", "COMMITTED", "swept"}
        /\ \A q \in Part : <<"cancel", t, q>> \in sent => tcState[t] \in {"CANCELLING", "CANCELLED", "swept"}
        /\ \A q \in Part : ~(<<"commit", t, p>> \in sent /\ <<"cancel", t, q>> \in sent)
    BY <1>0 DEF CallInv
  <2>7. QED
    BY <2>2, <2>3, <2>4, <2>5, <2>6, StatesMoveForward
<1>2. CASE ParticipantStep
  BY <1>0, <1>2 DEF ParticipantStep, ledgerVars, CallInv
<1>3. QED
  BY <1>1, <1>2 DEF Step

(* Every step keeps DriveInv.                                              *)
LEMMA DrivesStep ==
  ASSUME IInv, TypeOK', Step
  PROVE  DriveInv'
<1>0. DriveInv /\ TypeOK
  BY DEF IInv
<1>1. CASE CoordStep
  <2> SUFFICES ASSUME NEW d \in Drive
               PROVE  /\ dPhase'[d] # "idle" => dTx'[d] \in Tx /\ tcState'[dTx'[d]] # "none"
                      /\ dPhase'[d] \in {"idle", "start"} => \A p \in Part : dRpc'[d][p] = "none"
                      /\ \A p \in Part : dRpc'[d][p] # "none" => <<KindOf(dPhase'[d]), dTx'[d], p>> \in sent'
                      /\ dPhase'[d] = "commit" => tcState'[dTx'[d]] \in {"COMMITTING", "COMMITTED", "swept"}
    BY DEF DriveInv, KindOf, Committing
  <2>1. DriveChange(d) /\ sent \subseteq sent' /\ \A t \in Tx : StateStep(t)
    BY <1>1 DEF CoordStep, SentStep
  <2>2. /\ dPhase[d] # "idle" => dTx[d] \in Tx /\ tcState[dTx[d]] # "none"
        /\ dPhase[d] \in {"idle", "start"} => \A p \in Part : dRpc[d][p] = "none"
        /\ \A p \in Part : dRpc[d][p] # "none" => <<KindOf(dPhase[d]), dTx[d], p>> \in sent
        /\ dPhase[d] = "commit" => tcState[dTx[d]] \in {"COMMITTING", "COMMITTED", "swept"}
    BY <1>0 DEF DriveInv, Committing
  <2>3. /\ dPhase[d] # "idle" => tcState'[dTx[d]] # "none"
        /\ dPhase[d] = "commit" => tcState'[dTx[d]] \in {"COMMITTING", "COMMITTED", "swept"}
    BY <2>1, <2>2, StatesMoveForward
  <2>4. CASE dPhase'[d] = dPhase[d] /\ dTx'[d] = dTx[d] /\ dRpc'[d] = dRpc[d]
    BY <2>1, <2>2, <2>3, <2>4
  <2>5. CASE DriveCall(d)
    <3>1. dPhase'[d] = dPhase[d] /\ dTx'[d] = dTx[d] /\ dPhase[d] # "idle"
      BY <2>5 DEF DriveCall
    <3>2. \A p \in Part : dRpc'[d][p] # "none" => dRpc[d][p] # "none"
      BY <2>5 DEF DriveCall
    <3>3. QED
      BY <2>1, <2>2, <2>3, <3>1, <3>2
  <2>6. CASE dPhase'[d] = "idle" /\ \A p \in Part : dRpc'[d][p] = "none"
    BY <2>6
  <2>7. CASE DriveStarts(d)
    BY <2>7 DEF DriveStarts, CallStarts, KindOf
  <2>8. QED
    BY <2>1, <2>4, <2>5, <2>6, <2>7 DEF DriveChange
<1>2. CASE ParticipantStep
  <2>1. UNCHANGED <<tcState, dPhase, dTx, sent>>
    BY <1>2 DEF ParticipantStep, ledgerVars
  <2>2. \A d \in Drive, p \in Part : dRpc[d][p] = "none" <=> dRpc'[d][p] = "none"
    BY <1>2 DEF ParticipantStep, CallStep
  <2>3. QED
    BY <1>0, <2>1, <2>2 DEF DriveInv, KindOf, Committing
<1>3. QED
  BY <1>1, <1>2 DEF Step
-----------------------------------------------------------------------------
(***************************************************************************)
(* The rows and the locks.                                                 *)
(***************************************************************************)
(* The lock rows that a commit applies leave what the request leaves of    *)
(* the item, in the order of the timestamps.                               *)
LEMMA AppliesFacts ==
  ASSUME IInv, NEW t \in Tx, NEW p \in Part, Applies(t, p)
  PROVE  /\ RowsAdvance
         /\ txTs[t] \in Nat
         /\ \A k \in LockedBy(t, p) :
              /\ k \in KeysOfTx(t) /\ k \in Key /\ PartOf[k] = p /\ LockOK(t, k)
              /\ Stamp(k)' >= txTs[t] /\ item'[k].data = Result(t, k)
         /\ \A k \in Key \ LockedBy(t, p) : item'[k] = item[k]
         /\ \A k \in Key : applied'[t][k] = IF k \in LockedBy(t, p) THEN applied[t][k] + 1 ELSE applied[t][k]
         /\ \A s \in Tx \ {t} : applied'[s] = applied[s]
<1>1. PartTypeOK /\ RequestTypes /\ RowInv /\ LockInv /\ txTs[t] \in Nat
  BY DEF IInv, TypeOK, CoordTypeOK, RequestTypes
<1>2. ApplyLocks(t, p, LockedBy(t, p), txTs[t])
  BY DEF Applies
<1>3. \A k \in LockedBy(t, p) : k \in Key /\ PartOf[k] = p /\ lock[k].tx = t /\ lock[k] # NoLock
  BY <1>1, LockedByFacts, LockFacts
<1>4. \A k \in LockedBy(t, p) : LockOK(t, k) /\ k \in KeysOfTx(t)
  BY <1>1, <1>3 DEF LockInv, LockOK
<1>5. QED
  BY <1>1, <1>2, <1>3, <1>4, ApplyLocksFacts

(* What a write outside the coordinator does to the rows.                  *)
LEMMA WriteEffectFacts ==
  ASSUME IInv, NEW r \in Request, NEW p \in Part, NEW ts \in Nat, WriteEffect(r, p, ts)
  PROVE  /\ RowsAdvance
         /\ UNCHANGED <<lock, guarded, applied, coordVars, stale>> /\ writes' = writes + 1
         /\ \A k \in Key \ KeysOf(r) : item'[k] = item[k]
         /\ \A k \in KeysOf(r) : k \in Key /\ lock[k] = NoLock
         /\ \A k \in Key : item'[k].data = DataAfter(r, k, item[k].data, writes + 1)[Len(r)]
<1>1. PartTypeOK /\ RowInv /\ WriteLocally(r, p, ts)
  BY DEF IInv, TypeOK, WriteEffect
<1>2. UNCHANGED <<lock, guarded, applied, coordVars, stale>> /\ writes' = writes + 1
  BY <1>1 DEF WriteLocally, WriteEffect
<1>3. QED
  BY <1>1, <1>2, WriteLocallyFacts, RequestFacts

(* A step leaves the rows and the marks alone, or it is a commit or a      *)
(* write, and moves them forward.                                          *)
LEMMA RowsMove ==
  ASSUME IInv, PartStep
  PROVE  UNCHANGED <<item, delTs, delV>> \/ RowsAdvance
<1>1. ASSUME NEW t \in Tx, NEW p \in Part, Locks(t, p) \/ Drops(t, p) \/ Guards(t, p)
      PROVE  UNCHANGED <<item, delTs, delV>>
  BY <1>1 DEF Locks, PrepareLocal, Drops, Guards, GuardPendingTx
<1>2. QED
  BY <1>1, AppliesFacts, WriteEffectFacts DEF PartStep, partVars

(* Every step keeps RowInv.                                                *)
LEMMA RowsStep ==
  ASSUME IInv, Step
  PROVE  RowInv'
<1>1. RowInv
  BY DEF IInv
<1>2. UNCHANGED item => RowInv'
  BY <1>1 DEF RowInv
<1>3. RowsAdvance => RowInv'
  BY DEF RowsAdvance
<1>4. QED
  BY <1>2, <1>3, RowsMove DEF Step, ParticipantStep, partVars

(* A lock that stays, on a row that stays, of a transaction that is the    *)
(* same, is as good as it was.                                             *)
LEMMA LockKept ==
  ASSUME NEW k \in Key, NEW t, LockOK(t, k), lock'[k] = lock[k], item'[k] = item[k],
         SameRequest(t), tcState'[t] # "none"
  PROVE  LockOK(t, k)'
<1>1. \A i \in OpsOf(txReq[t], k) : txReq[t][i].key = k
  BY DEF OpsOf
<1>2. QED
  BY <1>1 DEF LockOK, SameRequest, KeysOfTx, LockRow, LastWriteData, DataBefore, OnlyChecks, Present

(* Every step keeps LockInv.                                               *)
LEMMA LocksStep ==
  ASSUME IInv, TypeOK', Step
  PROVE  LockInv'
<1>0. TypeOK /\ PartTypeOK /\ CoordTypeOK /\ \A k \in Key : lock[k] # NoLock => LockOK(lock[k].tx, k)
  BY DEF IInv, TypeOK, LockInv
<1>1. SUFFICES ASSUME NEW k \in Key, NEW u, lock'[k] # NoLock, lock'[k].tx = u
               PROVE  LockOK(u, k)'
  BY DEF LockInv, LockOK
<1>2. lock[k] # NoLock => lock[k].tx \in Tx /\ tcState[lock[k].tx] # "none"
  BY <1>0, LockFacts DEF LockOK
<1>3. CASE CoordStep /\ UNCHANGED <<partVars, stale>>
  <2>1. lock'[k] = lock[k] /\ item'[k] = item[k]
    BY <1>3 DEF partVars
  <2>2. PICK t \in Tx : t = lock[k].tx /\ tcState[t] # "none" /\ LockOK(t, k)
    BY <1>0, <1>1, <1>2, <2>1
  <2>3. StateStep(t)
    BY <1>3 DEF CoordStep
  <2>4. SameRequest(t) /\ tcState'[t] # "none"
    BY <2>2, <2>3, StatesMoveForward
  <2>5. LockOK(t, k)'
    BY <2>1, <2>2, <2>4, LockKept
  <2>6. u = t
    BY <1>1, <2>1, <2>2
  <2>7. QED
    BY <2>5, <2>6
<1>4. CASE ParticipantStep
  <2>1. \A t \in Tx : SameRequest(t) /\ tcState'[t] = tcState[t]
    BY <1>4 DEF ParticipantStep, ledgerVars, SameRequest
  <2>2. ASSUME lock'[k] = lock[k], item'[k] = item[k]
        PROVE  LockOK(u, k)'
    <3>1. PICK t \in Tx : t = lock[k].tx /\ tcState[t] # "none" /\ LockOK(t, k)
      BY <1>0, <1>1, <1>2, <2>2
    <3>2. LockOK(t, k)'
      BY <2>1, <2>2, <3>1, LockKept
    <3>3. u = t
      BY <1>1, <2>2, <3>1
    <3>4. QED
      BY <3>2, <3>3
  <2>3. ASSUME NEW t \in Tx, NEW p \in Part, Locks(t, p), lock'[k] # lock[k]
        PROVE  LockOK(u, k)'
    <3>1. /\ k \in KeysAt(txReq[t], p)
          /\ lock'[k] = LockRow(t, k, txReq[t], txTs[t])
          /\ \A i \in OpsOf(txReq[t], k) :
               Holds(txReq[t][i].cond, DataBefore(txReq[t], i, t)) /\ txTs[t] > Watermark(k, txReq[t][i].op)
          /\ UNCHANGED item
      BY <1>0, <2>3, LocksFacts
    <3>2. k \in KeysOfTx(t) /\ tcState[t] # "none"
      BY <2>3, <3>1 DEF KeysAt, KeysOfTx, Locks
    <3>3. Present(item[k]) /\ ~OnlyChecks(txReq[t], k) => txTs[t] > item[k].r
      BY <3>1 DEF Watermark, OnlyChecks
    <3>4. txReq'[t] = txReq[t] /\ txTs'[t] = txTs[t] /\ tcState'[t] = tcState[t]
      BY <2>1 DEF SameRequest
    <3>5. u = t
      BY <1>1, <3>1 DEF LockRow
    <3>6. LockOK(t, k)'
      BY <3>1, <3>2, <3>3, <3>4 DEF LockOK, KeysOfTx, LockRow, LastWriteData, DataBefore, OnlyChecks, Present
    <3>7. QED
      BY <3>5, <3>6
  <2>4. ASSUME NEW t \in Tx, NEW p \in Part, Locks(t, p)
        PROVE  LockOK(u, k)'
    BY <1>0, <2>2, <2>3, <2>4, LocksFacts
  <2>5. ASSUME NEW t \in Tx, NEW p \in Part, Released(t, p)
        PROVE  k \notin LockedBy(t, p) /\ lock'[k] = lock[k]
    BY <1>1, <2>5 DEF Released
  <2>6. ASSUME NEW t \in Tx, NEW p \in Part, Applies(t, p)
        PROVE  LockOK(u, k)'
    <3>1. k \notin LockedBy(t, p) /\ lock'[k] = lock[k]
      BY <2>5, <2>6 DEF Applies
    <3>2. item'[k] = item[k]
      BY <2>6, <3>1, AppliesFacts
    <3>3. QED
      BY <2>2, <3>1, <3>2
  <2>7. ASSUME NEW t \in Tx, NEW p \in Part, Drops(t, p) \/ Guards(t, p)
        PROVE  LockOK(u, k)'
    BY <2>2, <2>5, <2>7 DEF Drops, Guards, GuardPendingTx
  <2>8. ASSUME NEW r \in Request, NEW p \in Part, NEW ts \in Nat, WriteEffect(r, p, ts)
        PROVE  LockOK(u, k)'
    <3>1. lock'[k] = lock[k] /\ item'[k] = item[k]
      BY <1>1, <2>8, WriteEffectFacts
    <3>2. QED
      BY <2>2, <3>1
  <2>9. QED
    BY <1>4, <2>2, <2>4, <2>6, <2>7, <2>8 DEF ParticipantStep, PartStep, partVars
<1>5. QED
  BY <1>3, <1>4 DEF Step

(* Every step keeps LocksAreAllOrNone.                                     *)
LEMMA AllOrNoneStep ==
  ASSUME IInv, TypeOK', Step
  PROVE  LocksAreAllOrNone'
<1>0. TypeOK /\ PartTypeOK /\ LocksAreAllOrNone /\ LockInv
  BY DEF IInv, TypeOK
<1>1. SUFFICES ASSUME NEW s \in Tx, NEW q \in Part
               PROVE  LockedBy(s, q)' \in {{}, KeysAt(txReq'[s], q)}
  BY DEF LocksAreAllOrNone, KeysAt
<1>2. LockedBy(s, q) \in {{}, KeysAt(txReq[s], q)}
  BY <1>0 DEF LocksAreAllOrNone
<1>3. LockedBy(s, q)' = {k \in Key : PartOf[k] = q /\ lock'[k].tx = s}
  BY DEF LockedBy
<1>4. CASE CoordStep /\ UNCHANGED <<partVars, stale>>
  <2>1. LockedBy(s, q)' = LockedBy(s, q)
    BY <1>3, <1>4 DEF LockedBy, partVars
  <2>2. StateStep(s)
    BY <1>4 DEF CoordStep
  <2>3. CASE tcState[s] = "none"
    <3>1. \A k \in Key : lock[k].tx # s
      BY <1>0, <2>3, LockFacts DEF LockInv, LockOK
    <3>2. QED
      BY <2>1, <3>1 DEF LockedBy
  <2>4. CASE tcState[s] # "none"
    BY <1>2, <2>1, <2>2, <2>4, StatesMoveForward DEF SameRequest
  <2>5. QED
    BY <2>3, <2>4
<1>5. CASE ParticipantStep
  <2>0. txReq' = txReq
    BY <1>5 DEF ParticipantStep, ledgerVars
  <2>1. ASSUME LockedBy(s, q)' = LockedBy(s, q) \/ LockedBy(s, q)' = {}
        PROVE  LockedBy(s, q)' \in {{}, KeysAt(txReq'[s], q)}
    BY <1>2, <2>0, <2>1
  <2>2. ASSUME NEW t \in Tx, NEW p \in Part, Locks(t, p)
        PROVE  LockedBy(s, q)' \in {{}, KeysAt(txReq'[s], q)}
    <3>1. \A k \in Key :
            \/ lock'[k] = lock[k]
            \/ k \in KeysAt(txReq[t], p) /\ lock[k].tx # s /\ lock'[k].tx = t /\ PartOf[k] = p
      <4>1. \A k \in Key : LockRow(t, k, txReq[t], txTs[t]).tx = t
        BY DEF LockRow
      <4>2. QED
        BY <1>0, <2>2, <4>1, LocksFacts, LockFacts, TxAssumption DEF KeysAt
    <3>2. CASE s = t /\ q = p
      <4>1. \A k \in KeysAt(txReq[t], p) : lock'[k].tx = t /\ k \in Key /\ PartOf[k] = p
        BY <1>0, <2>2, LocksFacts, RequestFacts DEF KeysAt, TypeOK, CoordTypeOK
      <4>2. \A k \in Key : lock'[k].tx = t /\ PartOf[k] = p => k \in LockedBy(t, p) \/ k \in KeysAt(txReq[t], p)
        BY <3>1 DEF LockedBy
      <4>3. \A k \in Key : lock[k].tx = t /\ PartOf[k] = p => lock'[k].tx = t
        BY <3>1
      <4>4. LockedBy(s, q)' = KeysAt(txReq[t], p)
        BY <1>2, <1>3, <3>2, <4>1, <4>2
      <4>5. QED
        BY <2>0, <3>2, <4>4
    <3>3. CASE ~(s = t /\ q = p)
      <4>1. \A k \in Key : PartOf[k] = q => (lock'[k].tx = s <=> lock[k].tx = s)
        BY <3>1, <3>3
      <4>2. LockedBy(s, q)' = LockedBy(s, q)
        BY <1>3, <4>1 DEF LockedBy
      <4>3. QED
        BY <2>1, <4>2
    <3>4. QED
      BY <3>2, <3>3
  <2>3. ASSUME NEW t \in Tx, NEW p \in Part, Released(t, p)
        PROVE  LockedBy(s, q)' \in {{}, KeysAt(txReq'[s], q)}
    <3>1. NoLock.tx # s
      BY TxAssumption DEF NoLock
    <3>2. \A k \in Key : lock'[k] = IF PartOf[k] = p /\ lock[k].tx = t THEN NoLock ELSE lock[k]
      BY <2>3 DEF Released, LockedBy
    <3>3. CASE s = t /\ q = p
      BY <1>3, <2>1, <3>1, <3>2, <3>3
    <3>4. CASE ~(s = t /\ q = p)
      <4>1. \A k \in Key : PartOf[k] = q => (lock'[k].tx = s <=> lock[k].tx = s)
        BY <3>1, <3>2, <3>4
      <4>2. QED
        BY <1>3, <2>1, <4>1 DEF LockedBy
    <3>5. QED
      BY <3>3, <3>4
  <2>4. ASSUME UNCHANGED lock
        PROVE  LockedBy(s, q)' \in {{}, KeysAt(txReq'[s], q)}
    BY <1>3, <2>1, <2>4 DEF LockedBy
  <2>5. QED
    BY <1>5, <2>2, <2>3, <2>4
       DEF ParticipantStep, PartStep, partVars, Applies, Drops, Guards, GuardPendingTx, WriteEffect, WriteLocally
<1>6. QED
  BY <1>4, <1>5 DEF Step
-----------------------------------------------------------------------------
(***************************************************************************)
(* Decisions.  Two facts carry the rest: a lock leaves only with its       *)
(* operation applied or after a cancel, and what is applied stays applied. *)
(***************************************************************************)
LEMMA AppliesAreDecided ==
  ASSUME IInv, NEW t \in Tx, NEW p \in Part, Applies(t, p)
  PROVE  Committing(t)
BY DEF Applies, IInv, CallInv, StaleInv, Committing

(* Locks are dropped only for a transaction that cannot commit.            *)
LEMMA DropsAreCancelled ==
  ASSUME IInv, NEW t \in Tx, NEW p \in Part, Drops(t, p)
  PROVE  tcState[t] \in {"CANCELLING", "CANCELLED", "swept"}
BY DEF Drops, IInv, CallInv, StaleInv

(* A lock leaves its key only when it is applied or dropped.               *)
LEMMA LocksLeave ==
  ASSUME IInv, PartStep, NEW t \in Tx, NEW k \in Key, lock[k].tx = t
  PROVE  \/ lock'[k] = lock[k]
         \/ \E p \in Part : Applies(t, p) /\ k \in LockedBy(t, p)
         \/ \E p \in Part : Drops(t, p)
<1>0. TypeOK /\ PartTypeOK
  BY DEF IInv, TypeOK
<1>1. lock[k] # NoLock
  BY <1>0, LockFacts
<1>2. ASSUME NEW s \in Tx, NEW p \in Part, Released(s, p)
      PROVE  lock'[k] = lock[k] \/ (s = t /\ k \in LockedBy(t, p))
  <2>1. lock'[k] = IF k \in LockedBy(s, p) THEN NoLock ELSE lock[k]
    BY <1>2 DEF Released
  <2>2. QED
    BY <2>1, LockedByFacts
<1>3. ASSUME NEW s \in Tx, NEW p \in Part, Locks(s, p)
      PROVE  lock'[k] = lock[k]
  BY <1>0, <1>1, <1>3, LocksFacts
<1>4. ASSUME NEW s \in Tx, NEW p \in Part, Applies(s, p)
      PROVE  lock'[k] = lock[k] \/ \E q \in Part : Applies(t, q) /\ k \in LockedBy(t, q)
  BY <1>2, <1>4 DEF Applies
<1>5. ASSUME NEW s \in Tx, NEW p \in Part, Drops(s, p)
      PROVE  lock'[k] = lock[k] \/ \E q \in Part : Drops(t, q)
  BY <1>2, <1>5 DEF Drops
<1>6. QED
  BY <1>3, <1>4, <1>5 DEF PartStep, partVars, Guards, GuardPendingTx, WriteEffect, WriteLocally

(* The count of applied operations never falls to zero, and rises by one   *)
(* only where a lock is applied.                                           *)
LEMMA AppliedGrows ==
  ASSUME IInv, TypeOK', PartStep, NEW t \in Tx, NEW k \in Key
  PROVE  /\ applied[t][k] \in Nat /\ applied'[t][k] \in Nat
         /\ applied[t][k] > 0 => applied'[t][k] > 0
         /\ \/ applied'[t][k] = applied[t][k]
            \/ \E p \in Part : Applies(t, p) /\ k \in LockedBy(t, p) /\ applied'[t][k] = applied[t][k] + 1
<1>0. applied[t][k] \in Nat /\ applied'[t][k] \in Nat
  BY DEF IInv, TypeOK, PartTypeOK
<1>1. ASSUME NEW s \in Tx, NEW p \in Part, Applies(s, p)
      PROVE  \/ applied'[t][k] = applied[t][k]
             \/ s = t /\ k \in LockedBy(t, p) /\ applied'[t][k] = applied[t][k] + 1
  <2>1. /\ \A j \in Key : applied'[s][j] = IF j \in LockedBy(s, p) THEN applied[s][j] + 1 ELSE applied[s][j]
        /\ \A u \in Tx \ {s} : applied'[u] = applied[u]
    BY <1>1, AppliesFacts
  <2>2. QED
    BY <2>1
<1>2. \/ applied'[t][k] = applied[t][k]
      \/ \E p \in Part : Applies(t, p) /\ k \in LockedBy(t, p) /\ applied'[t][k] = applied[t][k] + 1
  BY <1>1 DEF PartStep, partVars, Locks, PrepareLocal, Drops, Guards, GuardPendingTx, WriteEffect, WriteLocally
<1>3. QED
  BY <1>0, <1>2

(* A step of the coordinator leaves the request of a started transaction,  *)
(* and what is held and applied, as they are.                              *)
LEMMA CoordKeeps ==
  ASSUME CoordStep, UNCHANGED partVars, NEW t \in Tx, tcState[t] # "none"
  PROVE  /\ SameRequest(t)
         /\ \A p \in Part : (HoldsAt(t, p) => HoldsAt(t, p)') /\ (AppliedAt(t, p) => AppliedAt(t, p)')
         /\ AllApplied(t) => AllApplied(t)'
<1>1. StateStep(t)
  BY DEF CoordStep
<1>2. SameRequest(t)
  BY <1>1, StatesMoveForward
<1>3. QED
  BY <1>2 DEF SameRequest, HoldsAt, AppliedAt, AllApplied, KeysAt, KeysOfTx, partVars

(* A step of the participants takes no lock of an undecided transaction,   *)
(* and nothing that is applied.                                            *)
LEMMA PartsKeep ==
  ASSUME IInv, TypeOK', ParticipantStep, NEW t \in Tx
  PROVE  /\ SameRequest(t) /\ tcState'[t] = tcState[t]
         /\ Undecided(t) => \A p \in Part : HoldsAt(t, p) => HoldsAt(t, p)'
         /\ \A p \in Part : AppliedAt(t, p) => AppliedAt(t, p)'
         /\ AllApplied(t) => AllApplied(t)'
<1>1. SameRequest(t) /\ tcState'[t] = tcState[t] /\ txReq'[t] = txReq[t]
  BY DEF ParticipantStep, ledgerVars, SameRequest
<1>2. KeysOf(txReq[t]) \subseteq Key
  BY RequestFacts DEF IInv, TypeOK, CoordTypeOK
<1>3. PartStep
  BY DEF ParticipantStep
<1>4. ASSUME Undecided(t), NEW k \in Key, lock[k].tx = t
      PROVE  lock'[k].tx = t
  <2>1. \A p \in Part : ~Applies(t, p) /\ ~Drops(t, p)
    BY <1>4, AppliesAreDecided, DropsAreCancelled DEF Undecided, Committing
  <2>2. QED
    BY <1>3, <1>4, <2>1, LocksLeave
<1>5. \A k \in Key : applied[t][k] > 0 => applied'[t][k] > 0
  BY <1>3, AppliedGrows
<1>6. QED
  BY <1>1, <1>2, <1>4, <1>5 DEF HoldsAt, AppliedAt, AllApplied, KeysAt, KeysOfTx

(* Every step keeps AppliedOnlyAfterDecision.                              *)
LEMMA AppliedAfterDecisionStep ==
  ASSUME IInv, TypeOK', Step
  PROVE  AppliedOnlyAfterDecision'
<1>1. SUFFICES ASSUME NEW t \in Tx, NEW k \in Key, applied'[t][k] > 0
               PROVE  Committing(t)'
  BY DEF AppliedOnlyAfterDecision, Committing
<1>2. CASE CoordStep /\ UNCHANGED <<partVars, stale>>
  <2>1. Committing(t) /\ StateStep(t)
    BY <1>1, <1>2 DEF IInv, AppliedOnlyAfterDecision, partVars, CoordStep
  <2>2. QED
    BY <2>1, StatesMoveForward DEF Committing
<1>3. CASE ParticipantStep
  <2>1. tcState' = tcState /\ PartStep
    BY <1>3 DEF ParticipantStep, ledgerVars
  <2>2. Committing(t)
    BY <1>1, <2>1, AppliedGrows, AppliesAreDecided DEF IInv, AppliedOnlyAfterDecision
  <2>3. QED
    BY <2>1, <2>2 DEF Committing
<1>4. QED
  BY <1>2, <1>3 DEF Step

(* Every step keeps DecidedIsDurable.                                      *)
LEMMA DecidedStep ==
  ASSUME IInv, TypeOK', Step
  PROVE  DecidedIsDurable'
<1>0. TypeOK /\ PartTypeOK /\ CoordTypeOK
  BY DEF IInv, TypeOK
<1>1. SUFFICES ASSUME NEW t \in Tx, tcState'[t] = "COMMITTING", NEW k \in KeysOf(txReq'[t])
               PROVE  \/ applied'[t][k] > 0
                      \/ lock'[k].tx = t /\ lock'[k].ops = OpList(txReq'[t], k) /\ lock'[k].ts = txTs'[t]
  BY DEF DecidedIsDurable, KeysOfTx
<1>2. CASE CoordStep /\ UNCHANGED <<partVars, stale>>
  <2>1. StateStep(t)
    BY <1>2 DEF CoordStep
  <2>2. tcState[t] = "COMMITTING" \/ (tcState[t] = "PREPARING" /\ tcParts[t] = accepted[t])
    BY <1>1, <2>1 DEF StateStep
  <2>3. txReq'[t] = txReq[t] /\ txTs'[t] = txTs[t]
    BY <2>1, <2>2, StatesMoveForward DEF SameRequest
  <2>4. k \in KeysOfTx(t) /\ k \in Key
    BY <1>0, <1>1, <2>3, RequestFacts DEF KeysOfTx, CoordTypeOK
  <2>5. CASE tcState[t] = "COMMITTING"
    BY <1>2, <2>3, <2>4, <2>5 DEF IInv, DecidedIsDurable, partVars
  <2>6. CASE tcState[t] = "PREPARING" /\ tcParts[t] = accepted[t]
    <3>1. PartOf[k] \in accepted[t]
      BY <2>4, <2>6 DEF IInv, LedgerInv, PartsOf, KeysOfTx
    <3>2. HoldsAt(t, PartOf[k])
      BY <2>6, <3>1 DEF IInv, AnswerInv, Undecided
    <3>3. lock[k].tx = t
      BY <2>4, <3>2 DEF HoldsAt, KeysAt, KeysOfTx
    <3>4. lock[k] # NoLock
      BY <1>0, <2>4, <3>3, LockFacts
    <3>5. lock[k] = LockRow(t, k, txReq[t], txTs[t])
      BY <2>4, <3>3, <3>4 DEF IInv, LockInv, LockOK
    <3>6. lock[k].ops = OpList(txReq[t], k) /\ lock[k].ts = txTs[t]
      BY <3>5 DEF LockRow
    <3>7. QED
      BY <1>2, <2>3, <3>3, <3>6 DEF partVars
  <2>7. QED
    BY <2>2, <2>5, <2>6
<1>3. CASE ParticipantStep
  <2>1. /\ tcState[t] = "COMMITTING" /\ txReq'[t] = txReq[t] /\ txTs'[t] = txTs[t] /\ PartStep
    BY <1>1, <1>3 DEF ParticipantStep, ledgerVars
  <2>2. k \in KeysOfTx(t) /\ k \in Key
    BY <1>0, <1>1, <2>1, RequestFacts DEF KeysOfTx, CoordTypeOK
  <2>3. \/ applied[t][k] > 0
        \/ lock[k].tx = t /\ lock[k].ops = OpList(txReq[t], k) /\ lock[k].ts = txTs[t]
    BY <2>1, <2>2 DEF IInv, DecidedIsDurable
  <2>4. applied[t][k] > 0 => applied'[t][k] > 0
    BY <2>1, <2>2, AppliedGrows
  <2>5. ASSUME NEW p \in Part, Applies(t, p), k \in LockedBy(t, p)
        PROVE  applied'[t][k] > 0
    <3>1. applied'[t][k] = applied[t][k] + 1 /\ applied[t][k] \in Nat
      BY <1>0, <2>2, <2>5, AppliesFacts DEF PartTypeOK
    <3>2. QED
      BY <3>1
  <2>6. \A p \in Part : ~Drops(t, p)
    BY <2>1, DropsAreCancelled
  <2>7. lock[k].tx = t => lock'[k] = lock[k] \/ applied'[t][k] > 0
    BY <2>1, <2>2, <2>5, <2>6, LocksLeave
  <2>8. QED
    BY <2>1, <2>3, <2>4, <2>7
<1>4. QED
  BY <1>2, <1>3 DEF Step

(* Every step keeps CommittedIsApplied.                                    *)
LEMMA CommittedStep ==
  ASSUME IInv, TypeOK', Step
  PROVE  CommittedIsApplied'
<1>0. TypeOK /\ PartTypeOK /\ CoordTypeOK /\ AnswerInv
  BY DEF IInv, TypeOK
<1>1. SUFFICES ASSUME NEW t \in Tx, tcState'[t] = "COMMITTED"
               PROVE  AllApplied(t)'
  BY DEF CommittedIsApplied, AllApplied, KeysOfTx
<1>2. tcState[t] = "COMMITTED" => AllApplied(t)
  BY DEF IInv, CommittedIsApplied, AllApplied
<1>3. CASE CoordStep /\ UNCHANGED <<partVars, stale>>
  <2>1. StateStep(t)
    BY <1>3 DEF CoordStep
  <2>2. tcState[t] # "none"
    BY <1>1, <2>1 DEF StateStep
  <2>3. CASE tcState[t] = "COMMITTED"
    BY <1>2, <1>3, <2>2, <2>3, CoordKeeps
  <2>4. CASE tcState[t] = "COMMITTING"
    <3>1. PICK d \in Drive : /\ dTx[d] = t /\ dPhase[d] = "commit"
                             /\ AllConfirmed(d) \/ tcParts[t] \subseteq committed[t] \cup Confirmed(d)
      BY <1>1, <2>1, <2>4 DEF StateStep
    <3>2. ASSUME NEW k \in KeysOfTx(t)
          PROVE  applied[t][k] > 0
      <4>1. k \in Key /\ PartOf[k] \in Part /\ k \in KeysAt(txReq[t], PartOf[k])
        BY <1>0, RequestFacts, PartOfAssumption DEF KeysOfTx, KeysAt, CoordTypeOK
      <4>2. PartOf[k] \in tcParts[t]
        BY <2>4 DEF IInv, LedgerInv, PartsOf, KeysOfTx
      <4>3. PartOf[k] \in committed[t] \/ dRpc[d][PartOf[k]] = "ack"
        BY <1>0, <2>4, <3>1, <4>1, <4>2 DEF AllConfirmed, Confirmed, AnswerInv
      <4>4. AppliedAt(t, PartOf[k])
        BY <1>0, <3>1, <4>1, <4>3 DEF AnswerInv
      <4>5. QED
        BY <4>1, <4>4 DEF AppliedAt
    <3>3. AllApplied(t)
      BY <3>2 DEF AllApplied
    <3>4. QED
      BY <1>3, <2>2, <3>3, CoordKeeps
  <2>5. QED
    BY <1>1, <2>1, <2>3, <2>4 DEF StateStep
<1>4. CASE ParticipantStep
  BY <1>1, <1>2, <1>4, PartsKeep
<1>5. QED
  BY <1>3, <1>4 DEF Step
-----------------------------------------------------------------------------
(***************************************************************************)
(* The answers, the swept transactions, the stale jobs, and applying once. *)
(***************************************************************************)
LEMMA AnswersCoordStep ==
  ASSUME IInv, TypeOK', CoordStep, UNCHANGED partVars, DriveInv'
  PROVE  AnswerInv'
<1>0. TypeOK /\ CoordTypeOK /\ CoordTypeOK' /\ AnswerInv /\ DriveInv /\ LedgerInv
  BY DEF IInv, TypeOK
<1>1. \A t \in Tx : StateStep(t) /\ AnswerStep(t)
  BY DEF CoordStep
<1>2. \A t \in Tx : tcState[t] # "none" =>
        /\ \A p \in Part : (HoldsAt(t, p) => HoldsAt(t, p)') /\ (AppliedAt(t, p) => AppliedAt(t, p)')
  BY CoordKeeps
<1>3. \A t \in Tx : Undecided(t)' => Undecided(t)
  BY <1>1 DEF StateStep, Undecided
<1>4. ASSUME NEW t \in Tx, Undecided(t)', NEW p \in accepted'[t]
      PROVE  HoldsAt(t, p)'
  <2>1. p \in Part
    BY <1>0 DEF CoordTypeOK
  <2>2. p \in accepted[t] \/
          /\ tcState[t] = "PREPARING"
          /\ \E d \in Drive : dTx[d] = t /\ dPhase[d] \in {"prepare", "recover"} /\ dRpc[d][p] = "ack_out"
    BY <1>1, <1>4 DEF AnswerStep
  <2>3. HoldsAt(t, p)
    BY <1>0, <1>3, <1>4, <2>1, <2>2 DEF AnswerInv
  <2>4. tcState[t] # "none"
    BY <1>0, <2>2 DEF LedgerInv
  <2>5. QED
    BY <1>2, <2>1, <2>3, <2>4
<1>5. ASSUME NEW t \in Tx, NEW p \in committed'[t]
      PROVE  AppliedAt(t, p)'
  <2>1. p \in Part
    BY <1>0 DEF CoordTypeOK
  <2>2. p \in committed[t] \/
          /\ tcState[t] = "COMMITTING"
          /\ \E d \in Drive : dTx[d] = t /\ dPhase[d] = "commit" /\ dRpc[d][p] = "ack"
    BY <1>1, <1>5 DEF AnswerStep
  <2>3. AppliedAt(t, p)
    BY <1>0, <2>1, <2>2 DEF AnswerInv
  <2>4. tcState[t] # "none"
    BY <1>0, <2>2 DEF LedgerInv
  <2>5. QED
    BY <1>2, <2>1, <2>3, <2>4
<1>6. ASSUME NEW d \in Drive, NEW p \in Part, dRpc'[d][p] \in {"ack_out", "ack"}
      PROVE  /\ dPhase'[d] = dPhase[d] /\ dTx'[d] = dTx[d] /\ dPhase[d] # "idle"
             /\ dTx[d] \in Tx /\ tcState[dTx[d]] # "none"
             /\ dRpc'[d][p] = dRpc[d][p] \/ (dRpc[d][p] = "ack_out" /\ dRpc'[d][p] = "ack")
  <2>1. DriveChange(d)
    BY DEF CoordStep
  <2>2. ~DriveStarts(d) /\ dRpc'[d][p] # "none"
    BY <1>6 DEF DriveStarts
  <2>3. /\ dPhase'[d] = dPhase[d] /\ dTx'[d] = dTx[d]
        /\ dRpc'[d][p] = dRpc[d][p] \/ (dRpc[d][p] = "ack_out" /\ dRpc'[d][p] = "ack")
    BY <1>6, <2>1, <2>2 DEF DriveChange, DriveCall
  <2>4. dPhase[d] # "idle"
    BY <1>0, <1>6, <2>3 DEF DriveInv
  <2>5. QED
    BY <1>0, <2>3, <2>4 DEF DriveInv
<1>7. ASSUME NEW d \in Drive, NEW p \in Part, dPhase'[d] \in {"prepare", "recover"}, dRpc'[d][p] = "ack_out",
             Undecided(dTx[d])'
      PROVE  HoldsAt(dTx[d], p)' /\ dTx'[d] = dTx[d]
  <2>1. /\ dPhase'[d] = dPhase[d] /\ dTx'[d] = dTx[d] /\ dTx[d] \in Tx /\ tcState[dTx[d]] # "none"
        /\ dRpc[d][p] = "ack_out"
    BY <1>6, <1>7
  <2>2. Undecided(dTx[d])
    BY <1>3, <1>7, <2>1 DEF Undecided
  <2>3. HoldsAt(dTx[d], p)
    BY <1>0, <1>7, <2>1, <2>2 DEF AnswerInv
  <2>4. PICK t \in Tx : t = dTx[d]
    BY <2>1
  <2>5. HoldsAt(t, p)'
    BY <1>2, <2>1, <2>3, <2>4
  <2>6. QED
    BY <2>1, <2>4, <2>5 DEF HoldsAt, KeysAt
<1>8. ASSUME NEW d \in Drive, NEW p \in Part, dPhase'[d] = "commit", dRpc'[d][p] \in {"ack_out", "ack"}
      PROVE  AppliedAt(dTx[d], p)' /\ dTx'[d] = dTx[d]
  <2>1. /\ dPhase'[d] = dPhase[d] /\ dTx'[d] = dTx[d] /\ dTx[d] \in Tx /\ tcState[dTx[d]] # "none"
        /\ dRpc[d][p] \in {"ack_out", "ack"}
    BY <1>6, <1>8
  <2>2. AppliedAt(dTx[d], p)
    BY <1>0, <1>8, <2>1 DEF AnswerInv
  <2>3. PICK t \in Tx : t = dTx[d]
    BY <2>1
  <2>4. AppliedAt(t, p)'
    BY <1>2, <2>1, <2>2, <2>3
  <2>5. QED
    BY <2>1, <2>3, <2>4 DEF AppliedAt, KeysAt
<1>9. ASSUME NEW d \in Drive, NEW p \in Part, dPhase'[d] = "commit", dRpc'[d][p] = "none",
             tcState'[dTx'[d]] = "COMMITTING", p \in tcParts'[dTx'[d]]
      PROVE  p \in committed'[dTx'[d]]
  <2>1. dTx'[d] \in Tx
    BY <1>9 DEF DriveInv
  <2>2. PICK t \in Tx : t = dTx'[d]
    BY <2>1
  <2>3. StateStep(t) /\ AnswerStep(t) /\ tcState'[t] = "COMMITTING" /\ p \in tcParts'[t]
    BY <1>1, <1>9, <2>2
  <2>4. tcParts'[t] = tcParts[t] /\ tcState[t] \in {"PREPARING", "COMMITTING"} /\ committed[t] \subseteq committed'[t]
    BY <2>3 DEF StateStep, AnswerStep
  <2>5. DriveChange(d)
    BY DEF CoordStep
  <2>6. CASE DriveStarts(d)
    BY <1>9, <2>2, <2>3, <2>4, <2>6 DEF DriveStarts
  <2>7. CASE ~DriveStarts(d)
    <3>1. dPhase[d] = "commit" /\ dTx[d] = t /\ dRpc[d][p] = "none"
      BY <1>9, <2>2, <2>5, <2>7 DEF DriveChange, DriveCall
    <3>2. tcState[t] = "COMMITTING"
      BY <1>0, <2>4, <3>1 DEF DriveInv, Committing
    <3>3. p \in committed[t]
      BY <1>0, <2>3, <2>4, <3>1, <3>2 DEF AnswerInv
    <3>4. QED
      BY <2>2, <2>4, <3>3
  <2>8. QED
    BY <2>6, <2>7
<1>10. \A d \in Drive, p \in Part :
         dPhase'[d] \in {"prepare", "recover"} /\ dRpc'[d][p] = "ack_out" /\ Undecided(dTx[d])'
           => HoldsAt(dTx[d], p)'
  BY <1>7
<1>11. \A d \in Drive, p \in Part : dPhase'[d] = "commit" /\ dRpc'[d][p] \in {"ack_out", "ack"}
           => AppliedAt(dTx[d], p)'
  BY <1>8
<1>12. QED
  BY <1>4, <1>5, <1>9, <1>10, <1>11 DEF AnswerInv

(* Every step of the participants keeps AnswerInv.                         *)
LEMMA AnswersPartsStep ==
  ASSUME IInv, TypeOK', ParticipantStep
  PROVE  AnswerInv'
<1>0. TypeOK /\ CoordTypeOK /\ AnswerInv /\ DriveInv
  BY DEF IInv, TypeOK
<1>1. UNCHANGED <<tcState, txReq, tcParts, accepted, committed, dPhase, dTx>>
  BY DEF ParticipantStep, ledgerVars
<1>2. \A t \in Tx : /\ Undecided(t) => \A p \in Part : HoldsAt(t, p) => HoldsAt(t, p)'
                    /\ \A p \in Part : AppliedAt(t, p) => AppliedAt(t, p)'
  BY PartsKeep
<1>3. \A t \in Tx : Undecided(t)' => \A p \in accepted'[t] : HoldsAt(t, p)'
  BY <1>0, <1>1, <1>2 DEF AnswerInv, Undecided, CoordTypeOK
<1>4. \A t \in Tx : \A p \in committed'[t] : AppliedAt(t, p)'
  BY <1>0, <1>1, <1>2 DEF AnswerInv, CoordTypeOK
<1>5. ASSUME NEW d \in Drive, NEW p \in Part, dPhase'[d] \in {"prepare", "recover"}, dRpc'[d][p] = "ack_out",
             Undecided(dTx[d])'
      PROVE  HoldsAt(dTx[d], p)'
  <2>1. CallStep(d, p) /\ dPhase[d] \in {"prepare", "recover"} /\ dTx[d] \in Tx /\ Undecided(dTx[d])
        /\ dTx'[d] = dTx[d]
    BY <1>0, <1>1, <1>5 DEF ParticipantStep, DriveInv, Undecided
  <2>2. CASE dRpc[d][p] = "ack_out"
    <3>1. HoldsAt(dTx[d], p)
      BY <1>0, <2>1, <2>2 DEF AnswerInv
    <3>2. PICK t \in Tx : t = dTx[d]
      BY <2>1
    <3>3. HoldsAt(t, p)'
      BY <1>2, <2>1, <3>1, <3>2
    <3>4. QED
      BY <2>1, <3>2, <3>3 DEF HoldsAt, KeysAt
  <2>3. CASE dRpc[d][p] # "ack_out"
    BY <1>5, <2>1, <2>3 DEF CallStep
  <2>4. QED
    BY <2>2, <2>3
<1>6. ASSUME NEW d \in Drive, NEW p \in Part, dPhase'[d] = "commit", dRpc'[d][p] \in {"ack_out", "ack"}
      PROVE  AppliedAt(dTx[d], p)'
  <2>1. CallStep(d, p) /\ dPhase[d] = "commit" /\ dTx[d] \in Tx /\ dTx'[d] = dTx[d]
    BY <1>0, <1>1, <1>6 DEF ParticipantStep, DriveInv
  <2>2. CASE dRpc[d][p] \in {"ack_out", "ack"}
    <3>1. AppliedAt(dTx[d], p)
      BY <1>0, <2>1, <2>2 DEF AnswerInv
    <3>2. PICK t \in Tx : t = dTx[d]
      BY <2>1
    <3>3. AppliedAt(t, p)'
      BY <1>2, <2>1, <3>1, <3>2
    <3>4. QED
      BY <2>1, <3>2, <3>3 DEF AppliedAt, KeysAt
  <2>3. CASE dRpc[d][p] \notin {"ack_out", "ack"}
    BY <1>6, <2>1, <2>3 DEF CallStep
  <2>4. QED
    BY <2>2, <2>3
<1>7. ASSUME NEW d \in Drive, NEW p \in Part, dPhase'[d] = "commit", dRpc'[d][p] = "none",
             tcState'[dTx'[d]] = "COMMITTING", p \in tcParts'[dTx'[d]]
      PROVE  p \in committed'[dTx'[d]]
  <2>1. dRpc[d][p] = "none"
    BY <1>7 DEF ParticipantStep, CallStep
  <2>2. QED
    BY <1>0, <1>1, <1>7, <2>1 DEF AnswerInv
<1>8. QED
  BY <1>3, <1>4, <1>5, <1>6, <1>7 DEF AnswerInv

(* Every step keeps SweptInv: a swept transaction is applied in full, or   *)
(* not at all and never will be.                                           *)
LEMMA SweptStep ==
  ASSUME IInv, TypeOK', Step
  PROVE  SweptInv'
<1>0. TypeOK /\ PartTypeOK /\ SweptInv
  BY DEF IInv, TypeOK
<1> DEFINE Nothing(t) == /\ \A k \in Key : applied[t][k] = 0
                         /\ \A p \in Part : <<"commit", t, p>> \notin sent
<1>1. SUFFICES ASSUME NEW t \in Tx, tcState'[t] = "swept"
               PROVE  AllApplied(t)' \/ Nothing(t)'
  BY DEF SweptInv
<1>2. CASE CoordStep /\ UNCHANGED <<partVars, stale>>
  <2>1. StateStep(t) /\ SentStep
    BY <1>2 DEF CoordStep
  <2>2. tcState[t] \in {"swept", "COMMITTED", "CANCELLED"}
    BY <1>1, <2>1 DEF StateStep
  <2>3. AllApplied(t) \/ Nothing(t)
    <3>1. CASE tcState[t] = "swept"
      BY <1>0, <3>1 DEF SweptInv
    <3>2. CASE tcState[t] = "COMMITTED"
      BY <3>2 DEF IInv, CommittedIsApplied, AllApplied
    <3>3. CASE tcState[t] = "CANCELLED"
      <4>1. \A k \in Key : applied[t][k] \in Nat /\ ~(applied[t][k] > 0)
        BY <1>0, <3>3 DEF IInv, AppliedOnlyAfterDecision, Committing, PartTypeOK
      <4>2. \A p \in Part : <<"commit", t, p>> \notin sent
        BY <3>3 DEF IInv, CallInv
      <4>3. QED
        BY <4>1, <4>2
    <3>4. QED
      BY <2>2, <3>1, <3>2, <3>3
  <2>4. AllApplied(t) => AllApplied(t)'
    BY <1>2, <2>2, CoordKeeps
  <2>5. \A p \in Part : <<"commit", t, p>> \in sent' => <<"commit", t, p>> \in sent
    BY <1>1, <2>1 DEF SentStep, CallStarts, RpcKind
  <2>6. Nothing(t) => Nothing(t)'
    BY <1>2, <2>5 DEF partVars
  <2>7. QED
    BY <2>3, <2>4, <2>6
<1>3. CASE ParticipantStep
  <2>1. tcState[t] = "swept" /\ PartStep /\ sent' = sent
    BY <1>1, <1>3 DEF ParticipantStep, ledgerVars
  <2>2. AllApplied(t) => AllApplied(t)'
    BY <1>3, PartsKeep
  <2>3. ASSUME ~AllApplied(t), Nothing(t)
        PROVE  Nothing(t)'
    <3>1. \A p \in Part : ~Applies(t, p)
      BY <2>3 DEF Applies, IInv, StaleInv
    <3>2. \A k \in Key : applied'[t][k] = applied[t][k]
      BY <2>1, <3>1, AppliedGrows
    <3>3. QED
      BY <2>1, <2>3, <3>2
  <2>4. QED
    BY <1>0, <2>1, <2>2, <2>3 DEF SweptInv
<1>4. QED
  BY <1>2, <1>3 DEF Step

(* Every step keeps StaleInv: the answer that a stale job holds stays      *)
(* true.                                                                   *)
LEMMA StaleJobsStep ==
  ASSUME IInv, TypeOK', Step
  PROVE  StaleInv'
<1>0. TypeOK /\ StaleInv
  BY DEF IInv
<1>1. ASSUME NEW p \in Part, NEW t \in Tx
      PROVE  /\ stale'[p][t] = "COMMITTED" => tcState'[t] \in {"COMMITTED", "swept"} /\ AllApplied(t)'
             /\ stale'[p][t] = "CANCELLED" => tcState'[t] \in {"CANCELLED", "swept"}
             /\ stale'[p][t] = "not_found" => tcState'[t] = "swept"
  <2>0. /\ stale[p][t] = "COMMITTED" => tcState[t] \in {"COMMITTED", "swept"} /\ AllApplied(t)
        /\ stale[p][t] = "CANCELLED" => tcState[t] \in {"CANCELLED", "swept"}
        /\ stale[p][t] = "not_found" => tcState[t] = "swept"
    BY <1>0 DEF StaleInv
  <2>1. CASE CoordStep /\ UNCHANGED <<partVars, stale>>
    <3>1. StateStep(t) /\ stale'[p][t] = stale[p][t]
      BY <2>1 DEF CoordStep
    <3>2. tcState[t] # "none" /\ AllApplied(t) => AllApplied(t)'
      BY <2>1, CoordKeeps
    <3>3. QED
      BY <2>0, <3>1, <3>2, StatesMoveForward
  <2>2. CASE ParticipantStep
    <3>1. tcState'[t] = tcState[t] /\ (AllApplied(t) => AllApplied(t)')
      BY <2>2, PartsKeep
    <3>2. CASE stale'[p][t] \in {stale[p][t], "none"}
      BY <2>0, <3>1, <3>2
    <3>3. CASE stale'[p][t] = RecoverTransactionAnswer(t) /\ tcState[t] # "none"
      <4>1. tcState[t] = "COMMITTED" => AllApplied(t)
        BY DEF IInv, CommittedIsApplied, AllApplied
      <4>2. tcState[t] \in TcState
        BY <1>0 DEF TypeOK, CoordTypeOK
      <4>3. /\ tcState[t] = "swept" => RecoverTransactionAnswer(t) = "not_found"
            /\ tcState[t] \in {"COMMITTED", "CANCELLED"} => RecoverTransactionAnswer(t) = tcState[t]
            /\ tcState[t] \notin {"none", "swept", "COMMITTED", "CANCELLED"} => RecoverTransactionAnswer(t) = "driving"
        BY DEF RecoverTransactionAnswer
      <4>4. QED
        BY <3>1, <3>3, <4>1, <4>2, <4>3
    <3>4. QED
      BY <2>2, <3>2, <3>3 DEF ParticipantStep, StaleStep
  <2>3. QED
    BY <2>1, <2>2 DEF Step
<1>2. ASSUME NEW p \in Part, NEW t \in Tx, t \in guarded'[p]
      PROVE  tcState'[t] = "swept"
  <2>1. CASE CoordStep /\ UNCHANGED <<partVars, stale>>
    <3>1. StateStep(t) /\ t \in guarded[p]
      BY <1>2, <2>1 DEF CoordStep, partVars
    <3>2. QED
      BY <1>0, <3>1, StatesMoveForward DEF StaleInv
  <2>2. CASE ParticipantStep
    <3>1. tcState' = tcState /\ PartStep
      BY <2>2 DEF ParticipantStep, ledgerVars
    <3>2. guarded \in [Part -> SUBSET Tx]
      BY <1>0 DEF TypeOK, PartTypeOK
    <3>3. ASSUME NEW s \in Tx, NEW q \in Part, Guards(s, q)
          PROVE  t \in guarded[p] \/ stale[p][t] = "not_found"
      <4>1. guarded' = [guarded EXCEPT ![q] = @ \cup {s}] /\ stale[q][s] = "not_found"
        BY <3>3 DEF Guards, GuardPendingTx
      <4>2. QED
        BY <1>2, <3>2, <4>1
    <3>4. ASSUME NEW s \in Tx, NEW q \in Part, Released(s, q)
          PROVE  t \in guarded[p]
      <4>1. guarded' = [guarded EXCEPT ![q] = @ \ {s}]
        BY <3>4 DEF Released
      <4>2. QED
        BY <1>2, <3>2, <4>1
    <3>5. t \in guarded[p] \/ stale[p][t] = "not_found"
      BY <1>2, <3>1, <3>3, <3>4 DEF PartStep, partVars, Locks, PrepareLocal, Applies, Drops, WriteEffect, WriteLocally
    <3>6. QED
      BY <1>0, <3>1, <3>5 DEF StaleInv
  <2>3. QED
    BY <2>1, <2>2 DEF Step
<1>3. \A p \in Part : guarded'[p] \in SUBSET Tx
  BY DEF TypeOK, PartTypeOK
<1>4. QED
  BY <1>1, <1>2, <1>3 DEF StaleInv

(* A stamp that a timestamp reached stays reached.                         *)
LEMMA ReachedStep ==
  ASSUME IInv, TypeOK', PartStep, NEW k \in Key, NEW x \in Nat, Reached(k, x)
  PROVE  Reached(k, x)'
<1>1. PICK a, b : a = Stamp(k) /\ b = Stamp(k)'
  OBVIOUS
<1>2. a \in Nat /\ b \in Nat /\ a >= x
  BY <1>1, PartOfAssumption DEF Stamp, Reached, IInv, TypeOK, PartTypeOK, Row
<1>3. UNCHANGED <<item, delTs, delV>> \/ RowsAdvance
  BY RowsMove
<1>4. b >= a
  <2>1. CASE UNCHANGED <<item, delTs, delV>>
    BY <1>1, <1>2, <2>1 DEF Stamp
  <2>2. CASE RowsAdvance
    BY <1>1, <2>2 DEF RowsAdvance
  <2>3. QED
    BY <1>3, <2>1, <2>2
<1>5. b >= x
  BY <1>2, <1>4
<1>6. QED
  BY <1>1, <1>5 DEF Reached

(* A commit leaves the stamp of each of its keys at or above its timestamp. *)
LEMMA AppliesReach ==
  ASSUME IInv, NEW t \in Tx, NEW p \in Part, Applies(t, p), NEW k \in LockedBy(t, p), txTs'[t] = txTs[t]
  PROVE  Reached(k, txTs[t])'
<1>1. Stamp(k)' >= txTs[t]
  BY AppliesFacts
<1>2. QED
  BY <1>1 DEF Reached

(* Every step keeps WritesApplyOnce.                                       *)
LEMMA OnceStep ==
  ASSUME IInv, TypeOK', Step
  PROVE  OnceInv'
<1>0. TypeOK /\ PartTypeOK /\ PartTypeOK' /\ CoordTypeOK /\ OnceInv
  BY DEF IInv, TypeOK
<1>1. SUFFICES ASSUME NEW t \in Tx, NEW k \in Key, applied'[t][k] > 0
               PROVE  /\ k \in KeysOf(txReq'[t])
                      /\ ~OnlyChecks(txReq'[t], k) =>
                           applied'[t][k] = 1 /\ lock'[k].tx # t /\ Reached(k, txTs[t])'
  BY DEF OnceInv, KeysOfTx, Reached
<1>2. /\ applied[t][k] > 0 =>
           /\ k \in KeysOf(txReq[t])
           /\ ~OnlyChecks(txReq[t], k) => applied[t][k] = 1 /\ lock[k].tx # t /\ Reached(k, txTs[t])
      /\ applied[t][k] \in Nat /\ txTs[t] \in Nat /\ PartOf[k] \in Part
  BY <1>0, PartOfAssumption DEF OnceInv, KeysOfTx, PartTypeOK, CoordTypeOK
<1>3. CASE CoordStep /\ UNCHANGED <<partVars, stale>>
  <2>1. tcState[t] # "none"
    BY <1>1, <1>3 DEF IInv, AppliedOnlyAfterDecision, Committing, partVars
  <2>2. txReq'[t] = txReq[t] /\ txTs'[t] = txTs[t]
    BY <1>3, <2>1, StatesMoveForward DEF CoordStep, SameRequest
  <2>3. QED
    BY <1>1, <1>2, <1>3, <2>2 DEF partVars, Reached, Stamp
<1>4. CASE ParticipantStep
  <2>0. PartStep /\ txReq'[t] = txReq[t] /\ txTs'[t] = txTs[t]
    BY <1>4 DEF ParticipantStep, ledgerVars
  <2>1. ASSUME NEW p \in Part, Applies(t, p), k \in LockedBy(t, p), applied'[t][k] = applied[t][k] + 1
        PROVE  /\ k \in KeysOf(txReq[t])
               /\ ~OnlyChecks(txReq[t], k) => applied'[t][k] = 1 /\ lock'[k].tx # t /\ Reached(k, txTs[t])'
    <3>1. k \in KeysOf(txReq[t]) /\ lock[k].tx = t
      BY <2>1, AppliesFacts, LockedByFacts DEF KeysOfTx
    <3>2. lock'[k].tx # t
      BY <2>1, TxAssumption DEF Applies, Released, NoLock
    <3>3. Reached(k, txTs[t])'
      BY <2>0, <2>1, AppliesReach
    <3>4. ~OnlyChecks(txReq[t], k) => applied'[t][k] = 1
      BY <1>2, <2>1, <3>1
    <3>5. QED
      BY <3>1, <3>2, <3>3, <3>4
  <2>2. ASSUME applied'[t][k] = applied[t][k], ~OnlyChecks(txReq[t], k)
        PROVE  lock'[k].tx # t
    <3>1. lock[k].tx # t /\ Reached(k, txTs[t]) /\ k \in KeysOf(txReq[t])
      BY <1>1, <1>2, <2>2
    <3>2. PICK i \in OpsOf(txReq[t], k) : txReq[t][i].op # "check"
      BY <2>2 DEF OnlyChecks
    <3>3. ASSUME NEW s \in Tx, NEW p \in Part, Locks(s, p)
          PROVE  lock'[k].tx # t
      <4>1. SUFFICES ASSUME lock'[k].tx = t
                     PROVE  FALSE
        OBVIOUS
      <4>2. /\ lock'[k] = LockRow(s, k, txReq[s], txTs[s])
            /\ \A j \in OpsOf(txReq[s], k) : txTs[s] > Watermark(k, txReq[s][j].op)
        BY <1>0, <3>1, <3>3, <4>1, LocksFacts
      <4>3. s = t
        BY <4>1, <4>2 DEF LockRow
      <4>4. txTs[t] > Watermark(k, txReq[t][i].op)
        BY <4>2, <4>3
      <4>5. Watermark(k, txReq[t][i].op) = Stamp(k)
        BY <3>2 DEF Watermark, Stamp
      <4>6. Stamp(k) \in Nat
        BY <1>0, <1>2 DEF PartTypeOK, Row, Stamp
      <4>7. QED
        BY <1>2, <3>1, <4>4, <4>5, <4>6 DEF Reached
    <3>4. ASSUME NEW s \in Tx, NEW p \in Part, Released(s, p)
          PROVE  lock'[k].tx # t
      BY <3>1, <3>4, TxAssumption DEF Released, NoLock
    <3>5. QED
      BY <2>0, <3>1, <3>3, <3>4
         DEF PartStep, partVars, Applies, Drops, Guards, GuardPendingTx, WriteEffect, WriteLocally
  <2>3. CASE applied'[t][k] = applied[t][k]
    <3>1. Reached(k, txTs[t]) => Reached(k, txTs[t])'
      <4>1. PICK x \in Nat : x = txTs[t]
        BY <1>2
      <4>2. Reached(k, x) => Reached(k, x)'
        BY <2>0, ReachedStep
      <4>3. QED
        BY <2>0, <4>1, <4>2 DEF Reached
    <3>2. QED
      BY <1>1, <1>2, <2>0, <2>2, <2>3, <3>1
  <2>4. QED
    BY <1>1, <2>0, <2>1, <2>3, AppliedGrows
<1>5. QED
  BY <1>3, <1>4 DEF Step
-----------------------------------------------------------------------------
(***************************************************************************)
(* The theorems.                                                           *)
(***************************************************************************)
LEMMA InitIsGood ==
  ASSUME Init
  PROVE  IInv
<1>0. PartInit /\ CoordInit /\ stale = [p \in Part |-> [t \in Tx |-> "none"]]
  BY DEF Init
<1>1. PartTypeOK
  BY <1>0, NoRowFacts DEF PartInit, PartTypeOK, Lock
<1>2. CoordTypeOK
  BY <1>0, EmptyRequest DEF CoordInit, CoordTypeOK, TcState, Phase, RpcState, NoCalls
<1>3. TypeOK
  BY <1>0, <1>1, <1>2 DEF TypeOK, StaleAnswer
<1>4. /\ \A k \in Key : item[k] = NoRow /\ lock[k] = NoLock
      /\ \A t \in Tx : tcState[t] = "none" /\ txReq[t] = NoRequest /\ accepted[t] = {} /\ committed[t] = {}
      /\ \A d \in Drive : dPhase[d] = "idle" /\ \A p \in Part : dRpc[d][p] = "none"
      /\ \A t \in Tx, k \in Key : applied[t][k] = 0
      /\ \A p \in Part : guarded[p] = {} /\ \A t \in Tx : stale[p][t] = "none"
      /\ sent = {}
  BY <1>0 DEF PartInit, CoordInit, NoCalls
<1>5. \A t \in Tx, p \in Part : LockedBy(t, p) = {}
  BY <1>4, TxAssumption DEF LockedBy, NoLock
<1>6. LedgerInv /\ CallInv /\ DriveInv /\ RowInv /\ LockInv /\ LocksAreAllOrNone
  BY <1>4, <1>5, NoRowFacts DEF LedgerInv, CallInv, DriveInv, RowInv, LockInv, LocksAreAllOrNone
<1>7. AnswerInv /\ SweptInv /\ StaleInv /\ OnceInv
  BY <1>4 DEF AnswerInv, SweptInv, StaleInv, OnceInv
<1>8. AppliedOnlyAfterDecision /\ DecidedIsDurable /\ CommittedIsApplied
  BY <1>4 DEF AppliedOnlyAfterDecision, DecidedIsDurable, CommittedIsApplied
<1>9. QED
  BY <1>3, <1>6, <1>7, <1>8 DEF IInv

(* The inductive invariant is inductive.                                   *)
LEMMA StepKeepsIInv ==
  ASSUME IInv, [Next]_vars
  PROVE  IInv' /\ Step
<1>1. TypeOK' /\ Step
  BY NextIsStep
<1>2. LedgerInv' /\ CallInv' /\ DriveInv'
  BY <1>1, LedgerStep, CallsStep, DrivesStep
<1>3. RowInv' /\ LockInv' /\ LocksAreAllOrNone'
  BY <1>1, RowsStep, LocksStep, AllOrNoneStep
<1>4. AnswerInv'
  BY <1>1, <1>2, AnswersCoordStep, AnswersPartsStep DEF Step
<1>5. AppliedOnlyAfterDecision' /\ DecidedIsDurable' /\ CommittedIsApplied'
  BY <1>1, AppliedAfterDecisionStep, DecidedStep, CommittedStep
<1>6. SweptInv' /\ StaleInv' /\ OnceInv'
  BY <1>1, SweptStep, StaleJobsStep, OnceStep
<1>7. QED
  BY <1>1, <1>2, <1>3, <1>4, <1>5, <1>6 DEF IInv

(* The inductive invariant holds in every reachable state: the ledger of   *)
(* the coordinator, the calls it sent, the locks and the rows of the       *)
(* partitions and the answers on their way agree.                          *)
THEOREM Invariance == Spec => []IInv
<1>1. Init => IInv
  BY InitIsGood
<1>2. IInv /\ [Next]_vars => IInv'
  BY StepKeepsIInv
<1>3. QED
  BY <1>1, <1>2, PTL DEF Spec

(* Types, and one stored outcome for each participant row, for any set of  *)
(* drives, retries and late messages.                                      *)
THEOREM TypesAreKept == Spec => []TypeOK
<1>1. IInv => TypeOK
  BY DEF IInv
<1>2. QED
  BY <1>1, Invariance, PTL

(* prepareLocal, commitLocal and cancelLocal never leave a part of a       *)
(* transaction's locks on a partition: commit_keyset_mismatch cannot       *)
(* happen.                                                                 *)
THEOREM AllLocksOrNone == Spec => []LocksAreAllOrNone
<1>1. IInv => LocksAreAllOrNone
  BY DEF IInv
<1>2. QED
  BY <1>1, Invariance, PTL

(* Atomicity of the decision: nothing is applied before markCommitting     *)
(* stored it, and nothing of a cancelled transaction.                      *)
THEOREM DecisionComesFirst == Spec => []AppliedOnlyAfterDecision
<1>1. IInv => AppliedOnlyAfterDecision
  BY DEF IInv
<1>2. QED
  BY <1>1, Invariance, PTL

(* A decided commit can always be carried out on every key, whatever       *)
(* drives, late messages and stale jobs do meanwhile.                      *)
THEOREM DecisionIsDurable == Spec => []DecidedIsDurable
<1>1. IInv => DecidedIsDurable
  BY DEF IInv
<1>2. QED
  BY <1>1, Invariance, PTL

(* completeTransaction drops the participant rows only when every          *)
(* operation of the transaction is in the items.                           *)
THEOREM CompletionIsTrue == Spec => []CommittedIsApplied
<1>1. IInv => CommittedIsApplied
  BY DEF IInv
<1>2. QED
  BY <1>1, Invariance, PTL

(* commitLocal and the stale job apply a write of a transaction at most    *)
(* once, however often their calls arrive.                                 *)
THEOREM WritesAreIdempotent == Spec => []WritesApplyOnce
<1>1. ASSUME IInv
      PROVE  WritesApplyOnce
  <2>1. SUFFICES ASSUME NEW t \in Tx, NEW k \in KeysOfTx(t), ~OnlyChecks(txReq[t], k)
                 PROVE  applied[t][k] <= 1
    BY DEF WritesApplyOnce
  <2>2. k \in Key
    BY <1>1, RequestFacts DEF KeysOfTx, IInv, TypeOK, CoordTypeOK
  <2>3. applied[t][k] \in Nat
    BY <1>1, <2>2 DEF IInv, TypeOK, PartTypeOK
  <2>4. applied[t][k] > 0 => applied[t][k] = 1
    BY <1>1, <2>1, <2>2 DEF IInv, OnceInv
  <2>5. QED
    BY <2>3, <2>4
<1>2. QED
  BY <1>1, Invariance, PTL

(* guardPendingTx quarantines only what cannot be a lost part of a commit. *)
THEOREM GuardIsSafe == Spec => []GuardHidesNoCommit
<1>1. ASSUME IInv
      PROVE  GuardHidesNoCommit
  <2>1. SUFFICES ASSUME NEW p \in Part, NEW t \in guarded[p], NEW j \in Key, applied[t][j] > 0,
                        NEW k \in LockedBy(t, p)
                 PROVE  applied[t][k] > 0
    BY DEF GuardHidesNoCommit
  <2>2. t \in Tx /\ tcState[t] = "swept" /\ PartTypeOK
    BY <1>1 DEF IInv, StaleInv, TypeOK, PartTypeOK
  <2>3. AllApplied(t)
    BY <1>1, <2>1, <2>2 DEF IInv, SweptInv
  <2>4. k \in Key /\ lock[k].tx = t /\ lock[k] # NoLock
    BY <2>2, LockedByFacts, LockFacts
  <2>5. k \in KeysOfTx(t)
    BY <1>1, <2>4 DEF IInv, LockInv, LockOK
  <2>6. QED
    BY <2>3, <2>5 DEF AllApplied
<1>2. QED
  BY <1>1, Invariance, PTL
-----------------------------------------------------------------------------
(***************************************************************************)
(* Action properties.                                                      *)
(***************************************************************************)
(* Under the invariant every step lets the revisions advance.              *)
LEMMA RevisionsStep ==
  ASSUME IInv, IInv', Step, NEW k \in Key
  PROVE  /\ RevisionOf(k)' >= RevisionOf(k)
         /\ (item'[k].data # item[k].data \/ Present(item'[k]) # Present(item[k]))
              => RevisionOf(k)' > RevisionOf(k)
<1>1. RevisionOf(k) \in Nat
  BY PartOfAssumption DEF RevisionOf, IInv, TypeOK, PartTypeOK, Row
<1>2. RowGood(item[k]) /\ RowGood(item'[k])
  BY DEF IInv, RowInv
<1>3. /\ Present(item[k]) <=> item[k].data # NoData
      /\ Present(item'[k]) <=> item'[k].data # NoData
  BY <1>2, NoRowFacts DEF RowGood
<1>4. Present(item'[k]) # Present(item[k]) => item'[k].data # item[k].data
  BY <1>3 DEF Present
<1>5. CASE UNCHANGED <<item, delTs, delV>>
  BY <1>1, <1>5 DEF RevisionOf
<1>6. CASE RowsAdvance
  BY <1>4, <1>6 DEF RowsAdvance
<1>7. QED
  BY <1>5, <1>6, RowsMove DEF Step, ParticipantStep, partVars

(* The revision of a key, kept over deletes by the deletion metadata,      *)
(* never falls and rises with every change: what transactGet compares.     *)
THEOREM RevisionsOnlyAdvance == Spec => RevisionsAdvance
<1>1. ASSUME IInv, [Next]_vars
      PROVE  \A k \in Key :
               /\ RevisionOf(k)' >= RevisionOf(k)
               /\ (item'[k].data # item[k].data \/ Present(item'[k]) # Present(item[k]))
                    => RevisionOf(k)' > RevisionOf(k)
  <2>1. IInv' /\ Step
    BY <1>1, StepKeepsIInv
  <2>2. QED
    BY <1>1, <2>1, RevisionsStep
<1>2. QED
  BY <1>1, Invariance, PTL DEF Spec, RevisionsAdvance

(* A two-phase write lands above every stamp of the row it replaces: the   *)
(* timestamp test of prepareLocal still holds when commitLocal or the      *)
(* stale job applies the lock.                                             *)
THEOREM TimestampsOrderWrites == Spec => AppliesInTimestampOrder
<1>1. ASSUME IInv, [Next]_vars
      PROVE  \A t \in Tx : \A k \in KeysOfTx(t) :
               (applied'[t][k] > applied[t][k] /\ Present(item[k]) /\ ~OnlyChecks(txReq[t], k))
                 => txTs[t] > item[k].r
  <2>1. TypeOK' /\ Step
    BY <1>1, NextIsStep
  <2>2. SUFFICES ASSUME NEW t \in Tx, NEW k \in KeysOfTx(t), applied'[t][k] > applied[t][k],
                        Present(item[k]), ~OnlyChecks(txReq[t], k)
                 PROVE  txTs[t] > item[k].r
    OBVIOUS
  <2>3. k \in Key
    BY <1>1, RequestFacts DEF KeysOfTx, IInv, TypeOK, CoordTypeOK
  <2>4. applied[t][k] \in Nat
    BY <1>1, <2>3 DEF IInv, TypeOK, PartTypeOK
  <2>5. PartStep
    BY <2>1, <2>2, <2>4 DEF Step, ParticipantStep, PartStep
  <2>6. PICK p \in Part : Applies(t, p) /\ k \in LockedBy(t, p)
    BY <1>1, <2>1, <2>2, <2>3, <2>4, <2>5, AppliedGrows
  <2>7. QED
    BY <1>1, <2>2, <2>6, AppliesFacts DEF LockOK
<1>2. QED
  BY <1>1, Invariance, PTL DEF Spec, AppliesInTimestampOrder
-----------------------------------------------------------------------------
(***************************************************************************)
(* The refinement: a decision of the coordinator is one step of the atomic *)
(* store, and every other step of the protocol is a stutter of it.         *)
(***************************************************************************)
(* A step of the coordinator is about one transaction. *)
LEMMA OneTransaction ==
  ASSUME TypeOK, DriveInv, Coordinators
  PROVE  \/ UNCHANGED <<tcState, txReq>>
         \/ \E t \in Tx : \/ UNCHANGED txReq /\ \E st : tcState' = [tcState EXCEPT ![t] = st]
                          \/ \E r \in Requests : /\ tcState[t] = "none"
                                                 /\ tcState' = [tcState EXCEPT ![t] = "CREATED"]
                                                 /\ txReq' = [txReq EXCEPT ![t] = r]
<1> DEFINE Good == \/ UNCHANGED <<tcState, txReq>>
                   \/ \E t \in Tx : UNCHANGED txReq /\ \E st : tcState' = [tcState EXCEPT ![t] = st]
<1>1. ASSUME NEW d \in Drive, NEW t \in Tx, DecideCommit(d, t) \/ DecideCancel(d, t), UNCHANGED txReq
      PROVE  Good
  BY <1>1 DEF DecideCommit, DecideCancel
<1>2. ASSUME NEW d \in Drive, NEW t \in Tx, DrivePrepare(d, t)
      PROVE  Good
  BY <1>2 DEF DrivePrepare
<1>3. ASSUME NEW t \in Tx, NEW from, NEW to, CompleteTransaction(t, from, to), UNCHANGED txReq
      PROVE  Good
  BY <1>3 DEF CompleteTransaction
<1>4. ASSUME NEW d \in Drive, DriveStep(d)
      PROVE  Good
  <2>1. dPhase[d] # "idle" => dTx[d] \in Tx
    BY DEF DriveInv
  <2>2. CASE StartPrepare(d)
    BY <1>2, <2>1, <2>2 DEF StartPrepare
  <2>3. CASE PrepareSettled(d)
    BY <1>1, <2>1, <2>3 DEF PrepareSettled
  <2>4. CASE CommitSettled(d)
    BY <1>3, <2>1, <2>4 DEF CommitSettled
  <2>5. CASE CancelSettled(d)
    BY <1>3, <2>1, <2>5 DEF CancelSettled
  <2>6. CASE \E heldTooLong \in BOOLEAN : RecoverySettled(d, heldTooLong)
    BY <1>1, <2>1, <2>6 DEF RecoverySettled
  <2>7. CASE DriveLost(d)
    BY <2>7 DEF DriveLost, ledgerVars
  <2>8. CASE \E p \in Part : \/ PrepareAnswer(d, p) \/ CommitAnswer(d, p) \/ CancelAnswer(d, p)
                             \/ ResolveError(d, p)
                             \/ \E isFatal \in BOOLEAN : PrepareError(d, p, isFatal)
    BY <2>8 DEF PrepareAnswer, CommitAnswer, CancelAnswer, ResolveError, PrepareError, ledgerVars
  <2>9. QED
    BY <1>4, <2>2, <2>3, <2>4, <2>5, <2>6, <2>7, <2>8 DEF DriveStep
<1>5. ASSUME NEW t \in Tx, NEW d \in Drive, DriveTransaction(t, d)
      PROVE  Good
  BY <1>1, <1>2, <1>5 DEF DriveTransaction, RunPrepareRecovery, ledgerVars
<1>6. ASSUME NEW t \in Tx, SweepExpired(t)
      PROVE  Good
  BY <1>6 DEF SweepExpired
<1>7. ASSUME NEW t \in Tx, NEW d \in Drive, NEW r \in Requests, NEW ts \in Timestamp, InitiateWrite(t, r, ts, d)
      PROVE  /\ tcState[t] = "none" /\ tcState' = [tcState EXCEPT ![t] = "CREATED"]
             /\ txReq' = [txReq EXCEPT ![t] = r]
  BY <1>7 DEF InitiateWrite
<1>8. CASE Good
  BY <1>8
<1>9. QED
  <2> HIDE DEF Good
  <2> QED
    BY <1>4, <1>5, <1>6, <1>7, <1>8 DEF Coordinators

(* The operations of the atomic store are the ones of the partitions.      *)
LEMMA SameData ==
  ASSUME NEW r, NEW k, NEW data, NEW x
  PROVE  Abstract!DataAfter(r, k, data, x) = DataAfter(r, k, data, x)
BY DEF Abstract!DataAfter, DataAfter, Abstract!OpsOf, OpsOf, Abstract!Written, Written, Abstract!NoData, NoData

(* A condition is the same on the atomic store and on a row.               *)
LEMMA SameHolds ==
  ASSUME NEW cond, NEW data
  PROVE  Abstract!Holds(cond, data) <=> Holds(cond, data)
BY DEF Abstract!Holds, Holds, Abstract!NoData, NoData

(* A decided lock stands for what its request leaves of the item.          *)
LEMMA LockedValue ==
  ASSUME IInv, NEW k \in Key, NEW t \in Tx, lock[k].tx = t
  PROVE  /\ LockOK(t, k) /\ k \in KeysOfTx(t)
         /\ lock[k].op = "check" <=> OnlyChecks(txReq[t], k)
         /\ lock[k].op = "check" => Result(t, k) = item[k].data
         /\ lock[k].op # "check" =>
              Result(t, k) = IF lock[k].op = "delete" THEN NoData ELSE lock[k].data
         /\ StoreOf(k) = IF tcState[t] = "COMMITTING" THEN Result(t, k) ELSE item[k].data
<1>1. PartTypeOK /\ RequestTypes
  BY DEF IInv, TypeOK, CoordTypeOK, RequestTypes
<1>2. lock[k] # NoLock /\ lock[k].op \in Op
  BY <1>1, LockFacts
<1>3. LockOK(t, k)
  BY <1>2 DEF IInv, LockInv
<1>4. /\ lock[k].op = "check" <=> OnlyChecks(txReq[t], k)
      /\ lock[k].op = "check" => Result(t, k) = item[k].data
      /\ lock[k].op = "delete" => Result(t, k) = NoData
      /\ lock[k].op \in Writes => Result(t, k) = lock[k].data
  BY <1>1, <1>3, LockResult
<1>5. lock[k].op # "check" => Result(t, k) = IF lock[k].op = "delete" THEN NoData ELSE lock[k].data
  BY <1>2, <1>4 DEF Op, Writes
<1>6. StoreOf(k) = IF tcState[t] = "COMMITTING" THEN Result(t, k) ELSE item[k].data
  BY <1>4, <1>5 DEF StoreOf
<1>7. QED
  BY <1>3, <1>4, <1>5, <1>6 DEF LockOK

(* The atomic store maps a key to data.                                    *)
LEMMA StoreOfType ==
  ASSUME IInv, NEW k \in Key
  PROVE  StoreOf(k) \in Seq(Writer)
<1>1. item[k].data \in Seq(Writer) /\ NoData \in Seq(Writer)
  BY DataFacts DEF IInv, TypeOK, PartTypeOK, Row
<1>2. lock[k].tx \in Tx => lock[k].data \in Seq(Writer)
  BY LockFacts DEF IInv, TypeOK
<1>3. QED
  BY <1>1, <1>2 DEF StoreOf

(* Only a commit under way has a write to apply. *)
LEMMA AppliesAreCommitting ==
  ASSUME IInv, NEW t \in Tx, NEW p \in Part, Applies(t, p), NEW k \in LockedBy(t, p),
         ~OnlyChecks(txReq[t], k)
  PROVE  tcState[t] = "COMMITTING"
<1>1. k \in Key /\ lock[k].tx = t /\ k \in KeysOfTx(t)
  BY AppliesFacts, LockedByFacts
<1>2. ~(applied[t][k] > 0)
  BY <1>1 DEF IInv, OnceInv
<1>3. ~AllApplied(t)
  BY <1>1, <1>2 DEF AllApplied
<1>4. tcState[t] # "COMMITTED"
  BY <1>1, <1>2 DEF IInv, CommittedIsApplied
<1>5. tcState[t] # "swept"
  BY <1>3 DEF IInv, SweptInv, StaleInv, Applies
<1>6. QED
  BY <1>4, <1>5, AppliesAreDecided DEF Committing

(* The abstract content of an unlocked key is the data of its row.         *)
LEMMA StoreOfUnlocked ==
  ASSUME NEW k \in Key, lock[k] = NoLock
  PROVE  StoreOf(k) = item[k].data
BY TxAssumption DEF StoreOf, NoLock

(* A step of the participants leaves the store as it is, but for a write   *)
(* outside the coordinator.                                                *)
LEMMA PartsStutter ==
  ASSUME IInv, IInv', ParticipantStep, NEW k \in Key
  PROVE  \/ StoreOf(k)' = StoreOf(k)
         \/ \E r \in Request, p \in Part, ts \in Nat : LocalRequest(r) /\ WriteEffect(r, p, ts)
<1>0. TypeOK /\ PartTypeOK /\ PartTypeOK' /\ RowInv
  BY DEF IInv, TypeOK
<1>1. tcState' = tcState /\ txReq' = txReq
  BY DEF ParticipantStep, ledgerVars
<1>2. ASSUME lock'[k] = lock[k], item'[k] = item[k]
      PROVE  StoreOf(k)' = StoreOf(k)
  BY <1>1, <1>2 DEF StoreOf
<1>3. ASSUME NEW t \in Tx, NEW p \in Part, Locks(t, p), lock'[k] # lock[k]
      PROVE  StoreOf(k)' = StoreOf(k)
  <2>1. /\ k \in KeysAt(txReq[t], p) /\ lock[k] = NoLock
        /\ lock'[k] = LockRow(t, k, txReq[t], txTs[t]) /\ item' = item /\ applied' = applied
    BY <1>0, <1>3, LocksFacts
  <2>2. lock'[k].tx = t /\ k \in KeysOfTx(t) /\ lock[k].tx # t
    BY <2>1, TxAssumption DEF LockRow, KeysAt, KeysOfTx, NoLock
  <2>3. lock'[k].op # "check" => ~OnlyChecks(txReq[t], k)
    <3>1. lock'[k].op = LockOperation(OpList(txReq[t], k))
      BY <2>1 DEF LockRow
    <3>2. OnlyChecks(txReq[t], k) => LockOperation(OpList(txReq[t], k)) = "check"
      BY DEF OnlyChecks, LockOperation, OpList, Changing
    <3>3. QED
      BY <3>1, <3>2
  <2>4. lock'[k].op # "check" => tcState[t] # "COMMITTING"
    <3>1. ~OnlyChecks(txReq[t], k) => ~(applied[t][k] > 0)
      BY <1>1, <2>1, <2>2 DEF IInv, OnceInv
    <3>2. QED
      BY <2>2, <2>3, <3>1 DEF IInv, DecidedIsDurable
  <2>5. StoreOf(k)' = item[k].data
    BY <1>1, <2>1, <2>2, <2>4 DEF StoreOf
  <2>6. QED
    BY <2>1, <2>5, StoreOfUnlocked
<1>4. ASSUME NEW t \in Tx, NEW p \in Part, Locks(t, p)
      PROVE  StoreOf(k)' = StoreOf(k)
  BY <1>0, <1>2, <1>3, <1>4, LocksFacts
<1>5. ASSUME NEW t \in Tx, NEW p \in Part, Released(t, p), k \in LockedBy(t, p)
      PROVE  lock[k].tx = t /\ StoreOf(k)' = item'[k].data
  <2>1. lock'[k] = NoLock /\ lock[k].tx = t
    BY <1>5, LockedByFacts DEF Released
  <2>2. QED
    BY <2>1, TxAssumption DEF StoreOf, NoLock
<1>6. ASSUME NEW t \in Tx, NEW p \in Part, Applies(t, p)
      PROVE  StoreOf(k)' = StoreOf(k)
  <2>1. CASE k \notin LockedBy(t, p)
    <3>1. lock'[k] = lock[k]
      BY <1>6, <2>1 DEF Applies, Released
    <3>2. item'[k] = item[k]
      BY <1>6, <2>1, AppliesFacts
    <3>3. QED
      BY <1>2, <3>1, <3>2
  <2>2. CASE k \in LockedBy(t, p)
    <3>1. lock[k].tx = t /\ StoreOf(k)' = item'[k].data
      BY <1>5, <1>6, <2>2 DEF Applies
    <3>2. item'[k].data = Result(t, k)
      BY <1>6, <2>2, AppliesFacts
    <3>3. OnlyChecks(txReq[t], k) => Result(t, k) = item[k].data
      BY <3>1, LockedValue
    <3>4. ~OnlyChecks(txReq[t], k) => tcState[t] = "COMMITTING"
      BY <1>6, <2>2, AppliesAreCommitting
    <3>5. StoreOf(k) = Result(t, k)
      BY <3>1, <3>3, <3>4, LockedValue
    <3>6. QED
      BY <3>1, <3>2, <3>5
  <2>3. QED
    BY <2>1, <2>2
<1>7. ASSUME NEW t \in Tx, NEW p \in Part, Drops(t, p)
      PROVE  StoreOf(k)' = StoreOf(k)
  <2>1. tcState[t] # "COMMITTING" /\ item' = item
    BY <1>7, DropsAreCancelled DEF Drops
  <2>2. CASE k \notin LockedBy(t, p)
    BY <1>2, <1>7, <2>1, <2>2 DEF Drops, Released
  <2>3. CASE k \in LockedBy(t, p)
    <3>1. lock[k].tx = t /\ StoreOf(k)' = item'[k].data
      BY <1>5, <1>7, <2>3 DEF Drops
    <3>2. QED
      BY <2>1, <3>1 DEF StoreOf
  <2>4. QED
    BY <2>2, <2>3
<1>8. ASSUME NEW t \in Tx, NEW p \in Part, Guards(t, p)
      PROVE  StoreOf(k)' = StoreOf(k)
  BY <1>2, <1>8 DEF Guards, GuardPendingTx
<1>9. CASE UNCHANGED partVars
  BY <1>2, <1>9 DEF partVars
<1>10. QED
  BY <1>4, <1>6, <1>7, <1>8, <1>9 DEF ParticipantStep, PartStep

(* A write outside the coordinator is a Write of the store. *)
LEMMA WritesSimulate ==
  ASSUME IInv, IInv', NEW r \in Request, NEW p \in Part, NEW ts \in Nat, LocalRequest(r), WriteEffect(r, p, ts)
  PROVE  Abstract!ANext
<1> DEFINE store == [k \in Key |-> StoreOf(k)]
<1>1. PICK x, n : x = writes + 1 /\ n = Len(r)
  OBVIOUS
<1>2. /\ writes < MaxWrites /\ writes' = x /\ lock' = lock /\ tcState' = tcState /\ txReq' = txReq
      /\ ConditionsHold(r, KeysOf(r), x)
  BY <1>1 DEF WriteEffect, WriteLocally, coordVars, ledgerVars
<1>3. /\ \A k \in Key \ KeysOf(r) : item'[k] = item[k]
      /\ \A k \in KeysOf(r) : k \in Key /\ lock[k] = NoLock
      /\ \A k \in Key : item'[k].data = DataAfter(r, k, item[k].data, x)[n]
  BY <1>1, WriteEffectFacts
<1>4. x \in Writer
  BY <1>1 DEF IInv, TypeOK, PartTypeOK, Writer
<1>5. ASSUME NEW k \in KeysOf(r)
      PROVE  /\ k \in Key /\ store[k] = item[k].data
             /\ StoreOf(k)' = Abstract!DataAfter(r, k, store[k], x)[n]
  <2>1. k \in Key /\ StoreOf(k) = item[k].data
    BY <1>3, StoreOfUnlocked
  <2>2. StoreOf(k)' = item'[k].data
    BY <1>2, <1>3, TxAssumption DEF StoreOf, NoLock
  <2>3. item'[k].data = DataAfter(r, k, store[k], x)[n]
    BY <1>3, <2>1
  <2>4. QED
    BY <2>1, <2>2, <2>3, SameData
<1>6. ASSUME NEW k \in Key \ KeysOf(r)
      PROVE  StoreOf(k)' = Abstract!DataAfter(r, k, store[k], x)[n]
  <2>1. StoreOf(k)' = StoreOf(k)
    BY <1>2, <1>3 DEF StoreOf
  <2>2. PICK e \in Seq(Writer) : e = StoreOf(k)
    BY StoreOfType
  <2>3. DataAfter(r, k, e, x)[n] = e
    BY <1>1, <1>4, OtherData
  <2>4. store[k] = e
    BY <2>2
  <2>5. QED
    BY <2>1, <2>2, <2>3, <2>4, SameData
<1>7. ASSUME NEW i \in DOMAIN r
      PROVE  Abstract!Holds(r[i].cond, Abstract!DataAfter(r, r[i].key, store[r[i].key], x)[i - 1])
  <2>1. PICK k \in KeysOf(r) : k = r[i].key
    BY DEF KeysOf
  <2>2. Holds(r[i].cond, DataAfter(r, k, item[k].data, x)[i - 1])
    BY <1>2, <2>1 DEF ConditionsHold, DataBefore
  <2>3. store[k] = item[k].data
    BY <1>5
  <2>4. Holds(r[i].cond, Abstract!DataAfter(r, k, store[k], x)[i - 1])
    BY <2>2, <2>3, SameData
  <2>5. QED
    BY <2>1, <2>4, SameHolds
<1>8. store' = [k \in Key |-> Abstract!DataAfter(r, k, store[k], x)[n]]
  BY <1>5, <1>6
<1>9. Abstract!Execute(r, x)
  BY <1>1, <1>7, <1>8 DEF Abstract!Execute
<1>10. [t \in Tx |-> OutcomeOf(t)]' = [t \in Tx |-> OutcomeOf(t)]
  BY <1>2 DEF OutcomeOf
<1>11. Abstract!Write(r)
  <2> HIDE DEF store
  <2> QED
    BY <1>1, <1>2, <1>9, <1>10 DEF Abstract!Write
<1>12. QED
  BY <1>11 DEF LocalRequest, Abstract!ANext, Abstract!Cond, Cond

(* The abstract outcome of a state, and the store under a step of the      *)
(* coordinator that is not a decision to commit.                           *)
LEMMA CoordStore ==
  ASSUME IInv, IInv', CoordStep, UNCHANGED partVars, NEW k \in Key,
         \A t \in Tx : ~(tcState[t] = "PREPARING" /\ tcState'[t] = "COMMITTING")
  PROVE  StoreOf(k)' = StoreOf(k)
<1>0. lock' = lock /\ item' = item /\ applied' = applied
  BY DEF partVars
<1>1. CASE lock[k].tx \notin Tx
  BY <1>0, <1>1 DEF StoreOf
<1>2. CASE lock[k].tx \in Tx /\ lock[k].op = "check"
  BY <1>0, <1>2 DEF StoreOf
<1>3. CASE lock[k].tx \in Tx /\ lock[k].op # "check"
  <2>1. PICK t \in Tx : t = lock[k].tx
    BY <1>3
  <2>2. StateStep(t)
    BY DEF CoordStep
  <2>3. k \in KeysOfTx(t) /\ ~OnlyChecks(txReq[t], k)
    BY <1>3, <2>1, LockedValue
  <2>4. tcState[t] = "COMMITTING" => tcState'[t] = "COMMITTING"
    <3>1. SUFFICES ASSUME tcState[t] = "COMMITTING", tcState'[t] = "COMMITTED"
                   PROVE  FALSE
      BY <2>2, StatesMoveForward
    <3>2. txReq'[t] = txReq[t]
      BY <2>2, <3>1, StatesMoveForward DEF SameRequest
    <3>3. applied[t][k] > 0
      BY <1>0, <2>3, <3>1, <3>2 DEF IInv, CommittedIsApplied, KeysOfTx
    <3>4. QED
      BY <1>3, <2>1, <2>3, <3>3 DEF IInv, OnceInv
  <2>5. tcState'[t] = "COMMITTING" => tcState[t] = "COMMITTING"
    BY <2>2 DEF StateStep
  <2>6. QED
    BY <1>0, <2>1, <2>4, <2>5 DEF StoreOf
<1>4. QED
  BY <1>1, <1>2, <1>3

(* markCommitting: the decision of t is a Commit of the store. *)
LEMMA DecisionSimulates ==
  ASSUME IInv, IInv', UNCHANGED <<partVars, txReq>>, NEW t \in Tx,
         tcState[t] = "PREPARING", tcState' = [tcState EXCEPT ![t] = "COMMITTING"]
  PROVE  Abstract!Commit(t)
<1> DEFINE store == [k \in Key |-> StoreOf(k)]
<1>0. /\ lock' = lock /\ item' = item /\ applied' = applied /\ txReq' = txReq /\ writes' = writes
      /\ tcState \in [Tx -> TcState]
  BY DEF partVars, IInv, TypeOK, CoordTypeOK
<1>1. tcState'[t] = "COMMITTING" /\ \A s \in Tx \ {t} : tcState'[s] = tcState[s]
  BY <1>0
<1>2. KeysOf(txReq[t]) \subseteq Key
  BY RequestFacts DEF IInv, TypeOK, CoordTypeOK
<1>3. ASSUME NEW k \in KeysOf(txReq[t])
      PROVE  /\ k \in Key /\ LockOK(t, k) /\ store[k] = item[k].data
             /\ StoreOf(k)' = Abstract!DataAfter(txReq[t], k, store[k], t)[Len(txReq[t])]
  <2>1. ~(applied[t][k] > 0) /\ k \in Key
    BY <1>2 DEF IInv, AppliedOnlyAfterDecision, Committing
  <2>2. lock[k].tx = t
    BY <1>0, <1>1, <2>1 DEF IInv, DecidedIsDurable, KeysOfTx
  <2>3. /\ LockOK(t, k) /\ StoreOf(k) = item[k].data
        /\ lock[k].op = "check" => Result(t, k) = item[k].data
        /\ lock[k].op # "check" =>
             Result(t, k) = IF lock[k].op = "delete" THEN NoData ELSE lock[k].data
    BY <2>1, <2>2, LockedValue
  <2>4. StoreOf(k)' = Result(t, k)
    BY <1>0, <1>1, <2>2, <2>3 DEF StoreOf
  <2>5. store[k] = item[k].data
    BY <2>1, <2>3
  <2>6. Result(t, k) = DataAfter(txReq[t], k, store[k], t)[Len(txReq[t])]
    BY <2>5 DEF Result
  <2>7. QED
    BY <2>1, <2>3, <2>4, <2>5, <2>6, SameData
<1>4. ASSUME NEW k \in Key \ KeysOf(txReq[t])
      PROVE  StoreOf(k)' = Abstract!DataAfter(txReq[t], k, store[k], t)[Len(txReq[t])]
  <2>1. lock[k].tx # t
    BY LockedValue DEF KeysOfTx
  <2>2. StoreOf(k)' = StoreOf(k)
    BY <1>0, <1>1, <2>1 DEF StoreOf
  <2>3. PICK e \in Seq(Writer), r \in Request : e = StoreOf(k) /\ r = txReq[t]
    BY StoreOfType DEF IInv, TypeOK, CoordTypeOK
  <2>4. t \in Writer /\ k \notin KeysOf(r)
    BY <2>3 DEF Writer
  <2>5. DataAfter(r, k, e, t)[Len(r)] = e
    BY <2>4, OtherData
  <2>6. store[k] = e
    BY <2>3
  <2>7. QED
    BY <2>2, <2>3, <2>5, <2>6, SameData
<1>5. store' = [k \in Key |-> Abstract!DataAfter(txReq[t], k, store[k], t)[Len(txReq[t])]]
  BY <1>3, <1>4
<1>6. ASSUME NEW i \in DOMAIN txReq[t]
      PROVE  Abstract!Holds(txReq[t][i].cond, Abstract!DataAfter(txReq[t], txReq[t][i].key, store[txReq[t][i].key], t)[i - 1])
  <2>1. PICK k \in KeysOf(txReq[t]) : k = txReq[t][i].key
    BY DEF KeysOf
  <2>2. LockOK(t, k) /\ store[k] = item[k].data
    BY <1>3
  <2>3. Holds(txReq[t][i].cond, DataAfter(txReq[t], k, item[k].data, t)[i - 1])
    BY <2>1, <2>2 DEF LockOK, OpsOf, DataBefore
  <2>4. Holds(txReq[t][i].cond, Abstract!DataAfter(txReq[t], k, store[k], t)[i - 1])
    BY <2>2, <2>3, SameData
  <2>5. QED
    BY <2>1, <2>4, SameHolds
<1>7. Abstract!Execute(txReq[t], t)
  BY <1>5, <1>6 DEF Abstract!Execute
<1>8. /\ OutcomeOf(t) = "open" /\ OutcomeOf(t)' = "committed"
      /\ \A s \in Tx \ {t} : OutcomeOf(s)' = OutcomeOf(s)
  BY <1>1 DEF OutcomeOf
<1>9. [s \in Tx |-> OutcomeOf(s)]' = [[s \in Tx |-> OutcomeOf(s)] EXCEPT ![t] = "committed"]
  BY <1>8
<1>10. QED
  BY <1>0, <1>7, <1>8, <1>9 DEF Abstract!Commit

(* Every other change of a stored state. *)
LEMMA StatesSimulate ==
  ASSUME IInv, IInv', CoordStep, UNCHANGED <<partVars, txReq>>, NEW t \in Tx, NEW st,
         tcState' = [tcState EXCEPT ![t] = st]
  PROVE  [Abstract!ANext]_(Abstract!avars)
<1>0. StateStep(t) /\ tcState \in [Tx -> TcState] /\ tcState' \in [Tx -> TcState]
  BY DEF CoordStep, IInv, TypeOK, CoordTypeOK
<1>1. tcState'[t] = st /\ \A s \in Tx \ {t} : tcState'[s] = tcState[s]
  BY <1>0
<1>2. writes' = writes /\ txReq' = txReq
  BY DEF partVars
<1>3. CASE tcState[t] = "PREPARING" /\ st = "COMMITTING"
  BY <1>3, DecisionSimulates DEF Abstract!ANext
<1>4. CASE ~(tcState[t] = "PREPARING" /\ st = "COMMITTING")
  <2>1. \A s \in Tx : ~(tcState[s] = "PREPARING" /\ tcState'[s] = "COMMITTING")
    BY <1>1, <1>4
  <2>2. [k \in Key |-> StoreOf(k)]' = [k \in Key |-> StoreOf(k)]
    BY <2>1, CoordStore
  <2>3. \A s \in Tx \ {t} : OutcomeOf(s)' = OutcomeOf(s)
    BY <1>1 DEF OutcomeOf
  <2>4. CASE OutcomeOf(t)' = OutcomeOf(t)
    <3>1. [s \in Tx |-> OutcomeOf(s)]' = [s \in Tx |-> OutcomeOf(s)]
      BY <2>3, <2>4
    <3>2. QED
      BY <1>2, <2>2, <3>1 DEF Abstract!avars
  <2>5. CASE OutcomeOf(t)' # OutcomeOf(t)
    <3>1. \/ OutcomeOf(t) = "open" /\ OutcomeOf(t)' = "cancelled"
          \/ OutcomeOf(t) \in {"committed", "cancelled"} /\ OutcomeOf(t)' = "forgotten"
      <4>1. tcState[t] # "none" \/ tcState'[t] = "none"
        <5>1. SUFFICES ASSUME tcState[t] = "none", tcState'[t] = "CREATED"
                       PROVE  FALSE
          BY <1>0 DEF StateStep
        <5>2. txReq'[t] \in Requests
          BY <1>0, <5>1 DEF StateStep
        <5>3. QED
          BY <1>2, <5>1, <5>2, RequestsAssumption DEF IInv, LedgerInv
      <4>2. QED
        BY <1>0, <1>1, <1>4, <2>5, <4>1 DEF StateStep, OutcomeOf
    <3>2. [s \in Tx |-> OutcomeOf(s)]' = [[s \in Tx |-> OutcomeOf(s)] EXCEPT ![t] = OutcomeOf(t)']
      BY <2>3
    <3>3. Abstract!Cancel(t) \/ Abstract!Forget(t)
      BY <1>2, <2>2, <3>1, <3>2 DEF Abstract!Cancel, Abstract!Forget
    <3>4. QED
      BY <3>3 DEF Abstract!ANext
  <2>6. QED
    BY <2>4, <2>5
<1>5. QED
  BY <1>3, <1>4

(* Every step of the coordinators is a step of the atomic store, or leaves *)
(* it as it is.                                                            *)
LEMMA CoordinatorsSimulate ==
  ASSUME IInv, IInv', Coordinators
  PROVE  [Abstract!ANext]_(Abstract!avars)
<1>0. TypeOK /\ CoordTypeOK /\ DriveInv
  BY DEF IInv, TypeOK
<1>1. CoordStep /\ UNCHANGED <<partVars, stale>>
  BY <1>0, CoordinatorsStep
<1>2. writes' = writes
  BY <1>1 DEF partVars
<1>3. CASE UNCHANGED <<tcState, txReq>>
  <2>1. [k \in Key |-> StoreOf(k)]' = [k \in Key |-> StoreOf(k)]
    BY <1>1, <1>3 DEF StoreOf, partVars
  <2>2. [t \in Tx |-> OutcomeOf(t)]' = [t \in Tx |-> OutcomeOf(t)]
    BY <1>3 DEF OutcomeOf
  <2>3. QED
    BY <1>2, <1>3, <2>1, <2>2 DEF Abstract!avars
<1>4. ASSUME NEW t \in Tx, NEW st, UNCHANGED txReq, tcState' = [tcState EXCEPT ![t] = st]
      PROVE  [Abstract!ANext]_(Abstract!avars)
  BY <1>1, <1>4, StatesSimulate
<1>5. ASSUME NEW t \in Tx, NEW r \in Requests, tcState[t] = "none",
             tcState' = [tcState EXCEPT ![t] = "CREATED"], txReq' = [txReq EXCEPT ![t] = r]
      PROVE  [Abstract!ANext]_(Abstract!avars)
  <2>1. tcState'[t] = "CREATED" /\ \A s \in Tx \ {t} : tcState'[s] = tcState[s]
    BY <1>0, <1>5 DEF CoordTypeOK
  <2>2. \A s \in Tx : ~(tcState[s] = "PREPARING" /\ tcState'[s] = "COMMITTING")
    BY <2>1
  <2>3. [k \in Key |-> StoreOf(k)]' = [k \in Key |-> StoreOf(k)]
    BY <1>1, <2>2, CoordStore
  <2>4. OutcomeOf(t) = "none" /\ OutcomeOf(t)' = "open" /\ \A s \in Tx \ {t} : OutcomeOf(s)' = OutcomeOf(s)
    BY <1>5, <2>1 DEF OutcomeOf
  <2>5. [s \in Tx |-> OutcomeOf(s)]' = [[s \in Tx |-> OutcomeOf(s)] EXCEPT ![t] = "open"]
    BY <2>4
  <2>6. Abstract!Begin(t, r)
    BY <1>2, <1>5, <2>3, <2>4, <2>5 DEF Abstract!Begin
  <2>7. QED
    BY <2>6 DEF Abstract!ANext
<1>6. QED
  BY <1>0, <1>3, <1>4, <1>5, OneTransaction

(* Every step of the participants is a step of the atomic store, or leaves *)
(* it as it is.                                                            *)
LEMMA ParticipantsSimulate ==
  ASSUME IInv, IInv', ParticipantStep
  PROVE  [Abstract!ANext]_(Abstract!avars)
<1>1. tcState' = tcState /\ txReq' = txReq
  BY DEF ParticipantStep, ledgerVars
<1>2. [t \in Tx |-> OutcomeOf(t)]' = [t \in Tx |-> OutcomeOf(t)]
  BY <1>1 DEF OutcomeOf
<1>3. CASE \E r \in Request, p \in Part, ts \in Nat : LocalRequest(r) /\ WriteEffect(r, p, ts)
  BY <1>3, WritesSimulate
<1>4. CASE ~\E r \in Request, p \in Part, ts \in Nat : LocalRequest(r) /\ WriteEffect(r, p, ts)
  <2>1. [k \in Key |-> StoreOf(k)]' = [k \in Key |-> StoreOf(k)]
    BY <1>4, PartsStutter
  <2>2. writes' = writes
    BY <1>4 DEF ParticipantStep, PartStep, partVars, Locks, PrepareLocal, Applies, Drops, Guards, GuardPendingTx
  <2>3. QED
    BY <1>1, <1>2, <2>1, <2>2 DEF Abstract!avars
<1>5. QED
  BY <1>3, <1>4

(* The transaction protocol implements the atomic store: for any number of *)
(* transactions, partitions, drives, faults and late messages, each        *)
(* transaction takes effect at once, when markCommitting stores its        *)
(* decision and its conditions hold, or not at all.                        *)
THEOREM Refinement == Spec => ImplementsAtomicStore
<1>1. Init => Abstract!AInit
  <2>1. SUFFICES ASSUME Init
                 PROVE  Abstract!AInit
    OBVIOUS
  <2>2. /\ \A k \in Key : item[k] = NoRow /\ lock[k] = NoLock
        /\ \A t \in Tx : tcState[t] = "none" /\ txReq = [s \in Tx |-> NoRequest] /\ writes = 0
    BY <2>1 DEF Init, PartInit, CoordInit
  <2>3. \A k \in Key : StoreOf(k) = NoData
    BY <2>2, StoreOfUnlocked, NoRowFacts
  <2>4. \A t \in Tx : OutcomeOf(t) = "none"
    BY <2>2 DEF OutcomeOf
  <2>5. txReq = [t \in Tx |-> NoRequest] /\ writes = 0
    BY <2>1 DEF Init, PartInit, CoordInit
  <2>6. QED
    BY <2>3, <2>4, <2>5 DEF Abstract!AInit, Abstract!NoData, NoData, Abstract!NoRequest, NoRequest
<1>2. IInv /\ IInv' /\ [Next]_vars => [Abstract!ANext]_(Abstract!avars)
  <2>1. SUFFICES ASSUME IInv, IInv', [Next]_vars
                 PROVE  [Abstract!ANext]_(Abstract!avars)
    OBVIOUS
  <2>2. CASE Participants
    BY <2>1, <2>2, ParticipantsStep, ParticipantsSimulate
  <2>3. CASE Coordinators
    BY <2>1, <2>3, CoordinatorsSimulate
  <2>4. CASE UNCHANGED vars
    <3>1. UNCHANGED <<item, lock, writes, tcState, txReq>>
      BY <2>4 DEF vars, partVars, coordVars, ledgerVars
    <3>2. [k \in Key |-> StoreOf(k)]' = [k \in Key |-> StoreOf(k)]
      BY <3>1 DEF StoreOf
    <3>3. [t \in Tx |-> OutcomeOf(t)]' = [t \in Tx |-> OutcomeOf(t)]
      BY <3>1 DEF OutcomeOf
    <3>4. QED
      BY <3>1, <3>2, <3>3 DEF Abstract!avars
  <2>5. QED
    BY <2>1, <2>2, <2>3, <2>4 DEF Next
<1>3. QED
  BY <1>1, <1>2, Invariance, PTL DEF Spec, ImplementsAtomicStore, Abstract!ASpec
=============================================================================
