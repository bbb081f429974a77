---------------------------- MODULE Coordinator -----------------------------
(***************************************************************************)
(* The transaction coordinator, server/do-transaction-coordinator.ts: the  *)
(* ledger it stores (tc_state, tc_items, tc_participants) and the drives   *)
(* that run a transaction.  Several drives of one transaction can run at   *)
(* once: the request, a retry with the same token, and the tx_recovery     *)
(* job.  A drive lives in memory only; between two awaits it runs alone,   *)
(* so each action is what the code does from one await to the next.        *)
(*                                                                         *)
(* A fan-out sends one RPC to each of a set of participants and waits for  *)
(* all of them.  dRpc[d][p] is the call of drive d to participant p:       *)
(*   "none"    p is not in the fan-out                                     *)
(*   "sent"    the call is out                                             *)
(*   "ack_out", "nack_out"  the participant answered; the answer travels   *)
(*   "ack", "nack", "error" the drive has the answer, or gave the call up  *)
(* A call stays in `sent' forever: a retry of the client, a slow network   *)
(* or a drive that died can deliver it at any later time, more than once.  *)
(***************************************************************************)
EXTENDS Participant

CONSTANTS
  Drive,       \* the drives that can run at the same time
  Requests,    \* the write requests that clients send
  MaxFaults    \* bound on lost answers, fatal errors, dead drives, and clock rejections

ASSUME RequestsAssumption == Requests \subseteq (Request \ {NoRequest})
ASSUME MaxFaultsAssumption == MaxFaults \in Nat

VARIABLES
  tcState,    \* [Tx -> TcState]: tc_state.state
  txReq,      \* [Tx -> Request]: tc_items, and the payload of late prepares
  txTs,       \* [Tx -> Timestamp \cup {0}]: tc_state.transaction_ts
  tcParts,    \* [Tx -> SUBSET Part]: the rows of tc_participants
  accepted,   \* [Tx -> SUBSET Part]: prepare_outcome = 'accepted'
  rejected,   \* [Tx -> SUBSET Part]: prepare_outcome = 'rejected'
  fatal,      \* [Tx -> SUBSET Part]: error_json holds a fatal prepare error
  committed,  \* [Tx -> SUBSET Part]: commit_outcome = 'committed'
  cancelled,  \* [Tx -> SUBSET Part]: cancel_outcome = 'cancelled'
  dPhase,     \* [Drive -> Phase]
  dTx,        \* [Drive -> Tx \cup {NoTx}]
  dRpc,       \* [Drive -> [Part -> RpcState]]
  sent,       \* the calls ever sent: <<kind, t, p>>
  faults      \* the number of faults so far

ledgerVars == <<tcState, txReq, txTs, tcParts, accepted, rejected, fatal, committed, cancelled>>
driveVars == <<dPhase, dTx, dRpc>>
coordVars == <<ledgerVars, driveVars, sent, faults>>

TcState == {"none", "CREATED", "PREPARING", "COMMITTING", "COMMITTED",
            "CANCELLING", "CANCELLED", "swept"}
Phase == {"idle", "start", "prepare", "recover", "commit", "cancel"}
RpcState == {"none", "sent", "ack_out", "nack_out", "ack", "nack", "error"}
RpcKind == {"prepare", "commit", "cancel"}

NoCalls == [p \in Part |-> "none"]

CoordInit ==
  /\ tcState = [t \in Tx |-> "none"]
  /\ txReq = [t \in Tx |-> NoRequest]
  /\ txTs = [t \in Tx |-> 0]
  /\ tcParts = [t \in Tx |-> {}]
  /\ accepted = [t \in Tx |-> {}]
  /\ rejected = [t \in Tx |-> {}]
  /\ fatal = [t \in Tx |-> {}]
  /\ committed = [t \in Tx |-> {}]
  /\ cancelled = [t \in Tx |-> {}]
  /\ dPhase = [d \in Drive |-> "idle"]
  /\ dTx = [d \in Drive |-> NoTx]
  /\ dRpc = [d \in Drive |-> NoCalls]
  /\ sent = {}
  /\ faults = 0

Fault == faults < MaxFaults /\ faults' = faults + 1
-----------------------------------------------------------------------------
(***************************************************************************)
(* Pieces of a drive.                                                      *)
(***************************************************************************)
(* Drive d of t starts a fan-out of `kind' calls to P and waits for it. *)
FanOut(d, t, kind, phase, P) ==
  /\ dPhase' = [dPhase EXCEPT ![d] = phase]
  /\ dTx' = [dTx EXCEPT ![d] = t]
  /\ dRpc' = [dRpc EXCEPT ![d] = [p \in Part |-> IF p \in P THEN "sent" ELSE "none"]]
  /\ sent' = sent \cup {<<kind, t, p>> : p \in P}

(* Drive d returns: its caller gets loadFinalResponse of the stored state. *)
EndDrive(d) ==
  /\ dPhase' = [dPhase EXCEPT ![d] = "idle"]
  /\ dTx' = [dTx EXCEPT ![d] = NoTx]
  /\ dRpc' = [dRpc EXCEPT ![d] = NoCalls]
  /\ UNCHANGED sent

Settled(d) == \A p \in Part : dRpc[d][p] \in {"none", "ack", "nack", "error"}

Uncommitted(t) == tcParts[t] \ committed[t]
Uncancelled(t) == tcParts[t] \ cancelled[t]

(* Mutant of RunCommit: the stored state is not consulted. *)
RunCommitUnchecked(d, t, state) == FanOut(d, t, "commit", "commit", Uncommitted(t))

(* The first part of runCommit and of runCancel, up to their fan-out; `state' *)
(* is the state of t that the drive reads, after its own decision.            *)
RunCommit(d, t, state) ==
  IF state = "COMMITTING" THEN FanOut(d, t, "commit", "commit", Uncommitted(t)) ELSE EndDrive(d)

RunCancel(d, t, state) ==
  IF state = "CANCELLING" THEN FanOut(d, t, "cancel", "cancel", Uncancelled(t)) ELSE EndDrive(d)

(* The two writers of a decision.  markCommitting decides on the stored answers. *)
AfterMarkCommitting(t) ==
  IF tcState[t] = "PREPARING" /\ tcParts[t] = accepted[t] THEN "COMMITTING" ELSE tcState[t]

AfterCancelInStore(t) == IF tcState[t] = "PREPARING" THEN "CANCELLING" ELSE tcState[t]

DecideCommit(d, t) ==
  /\ tcState' = [tcState EXCEPT ![t] = AfterMarkCommitting(t)]
  /\ RunCommit(d, t, AfterMarkCommitting(t))
  /\ UNCHANGED <<tcParts, accepted, rejected, fatal, committed, cancelled>>

DecideCancel(d, t) ==
  /\ tcState' = [tcState EXCEPT ![t] = AfterCancelInStore(t)]
  /\ RunCancel(d, t, AfterCancelInStore(t))
  /\ UNCHANGED <<tcParts, accepted, rejected, fatal, committed, cancelled>>

(* completeTransaction: the terminal state, and the rows of tc_participants go. *)
CompleteTransaction(t, from, to) ==
  IF tcState[t] = from
  THEN /\ tcState' = [tcState EXCEPT ![t] = to]
       /\ tcParts' = [tcParts EXCEPT ![t] = {}]
       /\ accepted' = [accepted EXCEPT ![t] = {}]
       /\ rejected' = [rejected EXCEPT ![t] = {}]
       /\ fatal' = [fatal EXCEPT ![t] = {}]
       /\ committed' = [committed EXCEPT ![t] = {}]
       /\ cancelled' = [cancelled EXCEPT ![t] = {}]
  ELSE UNCHANGED <<tcState, tcParts, accepted, rejected, fatal, committed, cancelled>>
-----------------------------------------------------------------------------
(***************************************************************************)
(* Starting a transaction and starting a drive.                            *)
(***************************************************************************)
(* initiateWriteLocal of a new token, up to the await of scheduleJob. *)
InitiateWrite(t, r, ts, d) ==
  /\ tcState[t] = "none" /\ dPhase[d] = "idle"
  /\ tcState' = [tcState EXCEPT ![t] = "CREATED"]
  /\ txReq' = [txReq EXCEPT ![t] = r]
  /\ txTs' = [txTs EXCEPT ![t] = ts]
  /\ tcParts' = [tcParts EXCEPT ![t] = PartsOf(r)]
  /\ dPhase' = [dPhase EXCEPT ![d] = "start"]
  /\ dTx' = [dTx EXCEPT ![d] = t]
  /\ UNCHANGED <<accepted, rejected, fatal, committed, cancelled, dRpc, sent, faults>>

(* drivePrepare up to its fan-out. *)
DrivePrepare(d, t) ==
  /\ IF tcState[t] \in {"CREATED", "PREPARING"}
     THEN /\ tcState' = [tcState EXCEPT ![t] = "PREPARING"]
          /\ FanOut(d, t, "prepare", "prepare", tcParts[t])
     ELSE /\ UNCHANGED tcState
          /\ EndDrive(d)
  /\ UNCHANGED <<txReq, txTs, tcParts, accepted, rejected, fatal, committed, cancelled, faults>>

StartPrepare(d) == dPhase[d] = "start" /\ DrivePrepare(d, dTx[d])

(* runPrepareRecovery up to its fan-out. *)
RunPrepareRecovery(d, t) ==
  LET null == tcParts[t] \ (accepted[t] \cup rejected[t])
  IN  /\ IF null \cap fatal[t] # {}
         THEN DecideCancel(d, t)
         ELSE /\ FanOut(d, t, "prepare", "recover", null)
              /\ UNCHANGED <<tcState, tcParts, accepted, rejected, fatal, committed, cancelled>>
      /\ UNCHANGED <<txReq, txTs, faults>>

(* Mutant of DriveTransaction: recovery starts at PREPARING. *)
DriveAfterPrepare(t, d) ==
  /\ dPhase[d] = "idle"
  /\ \/ tcState[t] = "PREPARING" /\ RunPrepareRecovery(d, t)
     \/ tcState[t] = "COMMITTING" /\ RunCommit(d, t, tcState[t]) /\ UNCHANGED <<ledgerVars, faults>>
     \/ tcState[t] = "CANCELLING" /\ RunCancel(d, t, tcState[t]) /\ UNCHANGED <<ledgerVars, faults>>

(* driveTransaction of the tx_recovery job and resumeTransaction of a retry: *)
(* both continue from the stored state.                                      *)
DriveTransaction(t, d) ==
  /\ dPhase[d] = "idle"
  /\ \/ tcState[t] = "CREATED" /\ DrivePrepare(d, t)
     \/ tcState[t] = "PREPARING" /\ RunPrepareRecovery(d, t)
     \/ tcState[t] = "COMMITTING" /\ RunCommit(d, t, tcState[t]) /\ UNCHANGED <<ledgerVars, faults>>
     \/ tcState[t] = "CANCELLING" /\ RunCancel(d, t, tcState[t]) /\ UNCHANGED <<ledgerVars, faults>>
-----------------------------------------------------------------------------
(***************************************************************************)
(* Answers of the prepare fan-out, stored one by one as they arrive.       *)
(***************************************************************************)
(* Mutant of StorePrepareAnswer: a later answer is stored too. *)
StoreLastAnswer(t, p, answer) ==
  /\ accepted' = [accepted EXCEPT ![t] = IF answer = "ack" THEN @ \cup {p} ELSE @]
  /\ rejected' = [rejected EXCEPT ![t] = IF answer = "nack" THEN @ \cup {p} ELSE @]

StorePrepareAnswer(t, p, answer) ==
  LET stores == tcState[t] = "PREPARING" /\ p \in tcParts[t]
                /\ p \notin fatal[t] /\ p \notin accepted[t] \cup rejected[t]
  IN  /\ accepted' = [accepted EXCEPT ![t] = IF stores /\ answer = "ack" THEN @ \cup {p} ELSE @]
      /\ rejected' = [rejected EXCEPT ![t] = IF stores /\ answer = "nack" THEN @ \cup {p} ELSE @]

PrepareAnswer(d, p) ==
  /\ dPhase[d] \in {"prepare", "recover"}
  /\ dRpc[d][p] \in {"ack_out", "nack_out"}
  /\ LET answer == IF dRpc[d][p] = "ack_out" THEN "ack" ELSE "nack"
     IN  /\ dRpc' = [dRpc EXCEPT ![d][p] = answer]
         /\ StorePrepareAnswer(dTx[d], p, answer)
  /\ UNCHANGED <<tcState, txReq, txTs, tcParts, fatal, committed, cancelled, dPhase, dTx, sent, faults>>

(* The call ends in an error after its retries; a fatal one is stored. *)
StorePrepareError(t, p, isFatal) ==
  fatal' = [fatal EXCEPT ![t] =
              IF isFatal /\ tcState[t] = "PREPARING" /\ p \in tcParts[t] \ (accepted[t] \cup rejected[t])
              THEN @ \cup {p} ELSE @]

PrepareError(d, p, isFatal) ==
  /\ dPhase[d] \in {"prepare", "recover"}
  /\ dRpc[d][p] \in {"sent", "ack_out", "nack_out"}
  /\ Fault
  /\ dRpc' = [dRpc EXCEPT ![d][p] = "error"]
  /\ StorePrepareError(dTx[d], p, isFatal)
  /\ UNCHANGED <<tcState, txReq, txTs, tcParts, accepted, rejected, committed, cancelled, dPhase, dTx, sent>>

(* The end of drivePrepare's fan-out: the answers in memory choose the decision. *)
PrepareSettled(d) ==
  /\ dPhase[d] = "prepare" /\ Settled(d)
  /\ IF \A p \in Part : dRpc[d][p] \in {"none", "ack"}
     THEN DecideCommit(d, dTx[d])
     ELSE DecideCancel(d, dTx[d])
  /\ UNCHANGED <<txReq, txTs, faults>>

(* The end of runPrepareRecovery's fan-out: the stored answers choose it.  *)
(* heldTooLong is the hold deadline of an undecided transaction.           *)
RecoverySettled(d, heldTooLong) ==
  LET t == dTx[d]
      anyRejected == rejected[t] \cup (fatal[t] \ (accepted[t] \cup rejected[t])) # {}
  IN  /\ dPhase[d] = "recover" /\ Settled(d)
      /\ IF tcParts[t] = accepted[t] THEN DecideCommit(d, t)
         ELSE IF anyRejected \/ heldTooLong THEN DecideCancel(d, t)
         ELSE EndDrive(d) /\ UNCHANGED <<tcState, tcParts, accepted, rejected, fatal, committed, cancelled>>
      /\ UNCHANGED <<txReq, txTs, faults>>
-----------------------------------------------------------------------------
(***************************************************************************)
(* Answers and ends of the commit and the cancel fan-out.                  *)
(***************************************************************************)
CommitAnswer(d, p) ==
  /\ dPhase[d] = "commit" /\ dRpc[d][p] = "ack_out"
  /\ dRpc' = [dRpc EXCEPT ![d][p] = "ack"]
  /\ UNCHANGED <<ledgerVars, dPhase, dTx, sent, faults>>

(* runCancel stores each confirmed cancel at once. *)
CancelAnswer(d, p) ==
  /\ dPhase[d] = "cancel" /\ dRpc[d][p] = "ack_out"
  /\ dRpc' = [dRpc EXCEPT ![d][p] = "ack"]
  /\ cancelled' = [cancelled EXCEPT ![dTx[d]] = IF p \in tcParts[dTx[d]] THEN @ \cup {p} ELSE @]
  /\ UNCHANGED <<tcState, txReq, txTs, tcParts, accepted, rejected, fatal, committed, dPhase, dTx, sent, faults>>

(* The call fails past the budget of the request, or its answer is lost. *)
ResolveError(d, p) ==
  /\ dPhase[d] \in {"commit", "cancel"}
  /\ dRpc[d][p] \in {"sent", "ack_out"}
  /\ Fault
  /\ dRpc' = [dRpc EXCEPT ![d][p] = "error"]
  /\ UNCHANGED <<ledgerVars, dPhase, dTx, sent>>

Confirmed(d) == {p \in Part : dRpc[d][p] = "ack"}
(* Mutant of AllConfirmed: a call that failed counts as confirmed. *)
AllAnswered(d) == \A p \in Part : dRpc[d][p] \in {"none", "ack", "error"}

AllConfirmed(d) == \A p \in Part : dRpc[d][p] \in {"none", "ack"}

(* The end of runCommit.  With every call confirmed it completes at once;  *)
(* else it stores the confirmed ones and completes when no row is missing. *)
CommitSettled(d) ==
  LET t == dTx[d]
      stored == IF tcState[t] = "COMMITTING" THEN committed[t] \cup (Confirmed(d) \cap tcParts[t])
                ELSE committed[t]
  IN  /\ dPhase[d] = "commit" /\ Settled(d)
      /\ IF AllConfirmed(d) \/ tcParts[t] \subseteq stored
         THEN CompleteTransaction(t, "COMMITTING", "COMMITTED")
         ELSE /\ committed' = [committed EXCEPT ![t] = stored]
              /\ UNCHANGED <<tcState, tcParts, accepted, rejected, fatal, cancelled>>
      /\ EndDrive(d)
      /\ UNCHANGED <<txReq, txTs, faults>>

CancelSettled(d) ==
  LET t == dTx[d]
  IN  /\ dPhase[d] = "cancel" /\ Settled(d)
      /\ IF tcParts[t] \subseteq committed[t] \cup cancelled[t]
         THEN CompleteTransaction(t, "CANCELLING", "CANCELLED")
         ELSE UNCHANGED <<tcState, tcParts, accepted, rejected, fatal, committed, cancelled>>
      /\ EndDrive(d)
      /\ UNCHANGED <<txReq, txTs, faults>>
-----------------------------------------------------------------------------
(* The coordinator object restarts or the drive throws: the drive is gone. *)
DriveLost(d) ==
  /\ dPhase[d] # "idle"
  /\ Fault
  /\ EndDrive(d)
  /\ UNCHANGED ledgerVars

(* Mutant of SweepExpired: a decided transaction counts as finished. *)
SweepDecided(t) ==
  /\ tcState[t] \in {"COMMITTING", "COMMITTED", "CANCELLED"}
  /\ tcState' = [tcState EXCEPT ![t] = "swept"]
  /\ UNCHANGED <<txReq, txTs, tcParts, accepted, rejected, fatal, committed, cancelled, driveVars, sent, faults>>

(* sweepExpiredTransactions, after the idempotency window. *)
SweepExpired(t) ==
  /\ tcState[t] \in {"COMMITTED", "CANCELLED"}
  /\ tcState' = [tcState EXCEPT ![t] = "swept"]
  /\ UNCHANGED <<txReq, txTs, tcParts, accepted, rejected, fatal, committed, cancelled, driveVars, sent, faults>>

(* Mutants of RecoverTransactionAnswer: an undecided transaction is unknown; *)
(* a swept one is still driven.                                               *)
OnlyFinishedIsFound(t) == IF tcState[t] \in {"COMMITTED", "CANCELLED"} THEN tcState[t] ELSE "not_found"
SweptIsDriving(t) == IF tcState[t] \in {"COMMITTED", "CANCELLED"} THEN tcState[t] ELSE "driving"

(* recoverTransactionLocal: what the ledger answers a participant. *)
RecoverTransactionAnswer(t) ==
  CASE tcState[t] \in {"none", "swept"} -> "not_found"
    [] tcState[t] \in {"COMMITTED", "CANCELLED"} -> tcState[t]
    [] OTHER -> "driving"
=============================================================================
