------------------------------- MODULE Table --------------------------------
(***************************************************************************)
(* What a table promises whatever its partitions do: one value and one     *)
(* lock for each key.  Repartition implements this (ImplementsTable).      *)
(***************************************************************************)
EXTENDS Naturals

CONSTANTS Key, Tx, NoTx, TxKeys, MaxClock

VARIABLES
  value,    \* [Key -> Nat]: the stamp of the last put or commit, 0 for an absent item
  holder,   \* [Key -> Tx \cup {NoTx}]
  stamp     \* the stamp of the last write

tvars == <<value, holder, stamp>>

TInit ==
  /\ value = [k \in Key |-> 0]
  /\ holder = [k \in Key |-> NoTx]
  /\ stamp = 0

TPut(k) ==
  /\ stamp < MaxClock /\ stamp' = stamp + 1
  /\ holder[k] = NoTx
  /\ value' = [value EXCEPT ![k] = stamp + 1]
  /\ UNCHANGED holder

TDelete(k) ==
  /\ holder[k] = NoTx /\ value[k] # 0
  /\ value' = [value EXCEPT ![k] = 0]
  /\ UNCHANGED <<holder, stamp>>

(* A prepare locks some keys of its transaction, none of them held by      *)
(* another one.                                                            *)
TLock(t, K) ==
  /\ \A k \in K : holder'[k] = t /\ holder[k] \in {NoTx, t}
  /\ holder' = [k \in Key |-> IF k \in K THEN t ELSE holder[k]]
  /\ UNCHANGED <<value, stamp>>

(* A commit writes keys that its transaction holds, and releases them. *)
TCommit(t, K) ==
  /\ stamp' = stamp + 1
  /\ \A k \in K : holder[k] = t
  /\ value' = [k \in Key |-> IF k \in K THEN stamp + 1 ELSE value[k]]
  /\ holder' = [k \in Key |-> IF k \in K THEN NoTx ELSE holder[k]]

TCancel(t, K) ==
  /\ \A k \in K : holder[k] = t
  /\ holder' = [k \in Key |-> IF k \in K THEN NoTx ELSE holder[k]]
  /\ UNCHANGED <<value, stamp>>

TNext ==
  \/ \E k \in Key : TPut(k) \/ TDelete(k)
  \/ \E t \in Tx : \E K \in (SUBSET TxKeys[t]) \ {{}} : TLock(t, K) \/ TCommit(t, K) \/ TCancel(t, K)

TSpec == TInit /\ [][TNext]_tvars
=============================================================================
