-------------------------- MODULE ReadTransaction ---------------------------
(***************************************************************************)
(* The read transaction of the client (#transactionGetItems of client/     *)
(* db.ts): two phases that each read every key from its partition, with no *)
(* lock; a pending write or a revision that differs between the phases     *)
(* fails the read.  It runs beside all the writers of Transactions.        *)
(***************************************************************************)
EXTENDS Transactions

CONSTANT ReadKeys   \* the keys of the read

ASSUME ReadKeysAssumption == ReadKeys \subseteq Key /\ ReadKeys # {}

VARIABLES
  rPhase,   \* "first", "second", then "done" or "failed"
  got,      \* [{"first", "second"} -> answers by key]
  snaps     \* history: every content of ReadKeys since the read began

rvars == <<rPhase, got, snaps>>

Contents == [k \in ReadKeys |-> StoreOf(k)]

ReadInit ==
  /\ Init
  /\ rPhase = "first"
  /\ got = [ph \in {"first", "second"} |-> << >>]
  /\ snaps = {Contents}

ReadParts == {PartOf[k] : k \in ReadKeys}
KeysOn(p) == {k \in ReadKeys : PartOf[k] = p}

(* One item of readForTransactionLocal; an absent one carries max_deleted_v. *)
ReadRow(k) ==
  [found |-> Present(item[k]), v |-> RevisionOf(k), data |-> item[k].data]

HasPendingWrite(k) == lock[k] # NoLock /\ lock[k].op # "check"

(* Partition p answers the call of the current phase. *)
ReadForTransaction(p) ==
  /\ rPhase \in {"first", "second"}
  /\ KeysOn(p) \cap DOMAIN got[rPhase] = {}
  /\ IF \E k \in KeysOn(p) : HasPendingWrite(k)
     THEN rPhase' = "failed" /\ UNCHANGED got
     ELSE /\ got' = [got EXCEPT ![rPhase] =
                       [k \in DOMAIN @ \cup KeysOn(p) |-> IF k \in KeysOn(p) THEN ReadRow(k) ELSE @[k]]]
          /\ UNCHANGED rPhase

SecondPhase ==
  /\ rPhase = "first" /\ DOMAIN got["first"] = ReadKeys
  /\ rPhase' = "second"
  /\ UNCHANGED got

(* Mutant of SameCommittedState: the marks of absent items are not         *)
(* compared.                                                               *)
SameFoundRevision(a, b) == a.found = b.found /\ (a.found => a.v = b.v)

SameCommittedState(a, b) == a.found = b.found /\ a.v = b.v

Compare ==
  /\ rPhase = "second" /\ DOMAIN got["second"] = ReadKeys
  /\ rPhase' = IF \A k \in ReadKeys : SameCommittedState(got["first"][k], got["second"][k])
               THEN "done" ELSE "failed"
  /\ UNCHANGED got

ReadNext ==
  \/ /\ (\E p \in ReadParts : ReadForTransaction(p)) \/ SecondPhase \/ Compare
     /\ UNCHANGED <<vars, snaps>>
  \/ /\ rPhase \in {"first", "second"} /\ Next
     /\ snaps' = snaps \cup {Contents'}
     /\ UNCHANGED <<rPhase, got>>

ReadSpec == ReadInit /\ [][ReadNext]_<<vars, rvars>>

(* The answer of a read that does not fail is the content of the store at  *)
(* one moment during the read, though its keys were read one by one beside *)
(* commits in progress, deletes and re-creations.                          *)
ReadsAreSnapshots ==
  rPhase = "done" => [k \in ReadKeys |-> got["first"][k].data] \in snaps
=============================================================================
