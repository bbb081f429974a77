---------------------------- MODULE AtomicStore -----------------------------
(***************************************************************************)
(* What FokosDB promises about writes, with no partition, lock, timestamp  *)
(* or message in it: one map from keys to data, on which a transaction     *)
(* commits in one step, its conditions holding at that very moment, or     *)
(* changes nothing.  Transactions implements this (ImplementsAtomicStore). *)
(***************************************************************************)
EXTENDS PartitionStore

CONSTANTS Tx, Key, Requests, SingleShots, MaxWrites

VARIABLES
  store,    \* [Key -> data]
  outcome,  \* [Tx -> {"none", "open", "committed", "cancelled", "forgotten"}]
  request,  \* [Tx -> request]
  count     \* the number of non-transactional writes

avars == <<store, outcome, request, count>>

(* The operations of r one after the other, when every condition holds at  *)
(* its turn.                                                               *)
Execute(r, writer) ==
  /\ \A i \in DOMAIN r : Holds(r[i].cond, DataAfter(r, r[i].key, store[r[i].key], writer)[i - 1])
  /\ store' = [k \in Key |-> DataAfter(r, k, store[k], writer)[Len(r)]]

AInit ==
  /\ store = [k \in Key |-> NoData]
  /\ outcome = [t \in Tx |-> "none"]
  /\ request = [t \in Tx |-> NoRequest]
  /\ count = 0

Begin(t, r) ==
  /\ outcome[t] = "none"
  /\ outcome' = [outcome EXCEPT ![t] = "open"]
  /\ request' = [request EXCEPT ![t] = r]
  /\ UNCHANGED <<store, count>>

Commit(t) ==
  /\ outcome[t] = "open"
  /\ outcome' = [outcome EXCEPT ![t] = "committed"]
  /\ Execute(request[t], t)
  /\ UNCHANGED <<request, count>>

Cancel(t) ==
  /\ outcome[t] = "open"
  /\ outcome' = [outcome EXCEPT ![t] = "cancelled"]
  /\ UNCHANGED <<store, request, count>>

(* The idempotency window of a finished transaction ends. *)
Forget(t) ==
  /\ outcome[t] \in {"committed", "cancelled"}
  /\ outcome' = [outcome EXCEPT ![t] = "forgotten"]
  /\ UNCHANGED <<store, request, count>>

(* A write outside the coordinator: a put, a delete, a single-shot transaction. *)
Write(r) ==
  /\ count < MaxWrites
  /\ count' = count + 1
  /\ Execute(r, count + 1)
  /\ UNCHANGED <<outcome, request>>

Put(k, cond) == <<[key |-> k, op |-> "put", cond |-> cond]>>
Delete(k) == <<[key |-> k, op |-> "delete", cond |-> "exists"]>>

ANext ==
  \/ \E t \in Tx : Commit(t) \/ Cancel(t) \/ Forget(t) \/ \E r \in Requests : Begin(t, r)
  \/ \E r \in SingleShots : Write(r)
  \/ \E k \in Key : Write(Delete(k)) \/ \E cond \in Cond : Write(Put(k, cond))

ASpec == AInit /\ [][ANext]_avars
=============================================================================
