----------------------- MODULE ReadTransaction_proofs -----------------------
(***************************************************************************)
(* ReadsAreSnapshots, for any transactions, writers and read keys.         *)
(*                                                                         *)
(* The snapshot is the content at the moment between the two phases.  No   *)
(* key that the read accepts changed between its two answers, so its item  *)
(* had the data of the answers at that moment.  A transaction that was     *)
(* decided then, with its write still in a lock, would have changed the    *)
(* revision before the second answer, or would have its lock there.        *)
(***************************************************************************)
EXTENDS ReadTransaction, Transactions_proofs

\* A write of k is decided and still waits in its lock.
Decided(k) == lock[k].tx \in Tx /\ lock[k].op # "check" /\ tcState[lock[k].tx] = "COMMITTING"

\* Key k is as its first answer says, or has a higher revision.
Since(k) ==
  \/ RevisionOf(k) > got["first"][k].v
  \/ /\ RevisionOf(k) = got["first"][k].v
     /\ Present(item[k]) = got["first"][k].found /\ item[k].data = got["first"][k].data

\* An accepted second answer of k would be, or is, the content of s.
Agrees(s, k) ==
  IF k \in DOMAIN got["second"]
  THEN SameCommittedState(got["first"][k], got["second"][k]) => s[k] = got["first"][k].data
  ELSE \/ RevisionOf(k) > got["first"][k].v
       \/ s[k] = got["first"][k].data
       \/ Decided(k) /\ StoreOf(k) = s[k]

ReadTypeInv ==
  /\ DOMAIN got = {"first", "second"}
  /\ DOMAIN got["first"] \subseteq ReadKeys /\ DOMAIN got["second"] \subseteq ReadKeys
  /\ \A k \in DOMAIN got["first"] : got["first"][k].v \in Nat
  /\ \A s \in snaps : s = [k \in ReadKeys |-> s[k]]
  /\ rPhase = "first" => DOMAIN got["second"] = {}
  /\ rPhase \in {"second", "done"} => DOMAIN got["first"] = ReadKeys

ReadInv ==
  /\ ReadTypeInv
  /\ rPhase \in {"first", "second"} => Contents \in snaps /\ \A k \in DOMAIN got["first"] : Since(k)
  /\ rPhase = "second" => \E s \in snaps : \A k \in ReadKeys : Agrees(s, k)
  /\ ReadsAreSnapshots

-----------------------------------------------------------------------------
(* A decided write stays in its lock until it raises the revision.  Only   *)
(* one that leaves the item as it was, such as a delete of an absent item, *)
(* leaves without a trace.                                                 *)
LEMMA DecidedKept ==
  ASSUME IInv, IInv', Step, NEW k \in Key, Decided(k)
  PROVE  \/ Decided(k)' /\ StoreOf(k)' = StoreOf(k)
         \/ RevisionOf(k)' > RevisionOf(k)
         \/ StoreOf(k) = item[k].data
<1>0. PICK t : t = lock[k].tx
  OBVIOUS
<1>1. t \in Tx /\ tcState[t] = "COMMITTING" /\ lock[k].op # "check" /\ lock[k].tx = t
  BY <1>0 DEF Decided
<1>2. k \in KeysOfTx(t) /\ ~OnlyChecks(txReq[t], k) /\ StoreOf(k) = Result(t, k)
  BY <1>1, LockedValue
<1>3. ASSUME lock'[k] = lock[k], tcState'[t] = "COMMITTING"
      PROVE  Decided(k)' /\ StoreOf(k)' = StoreOf(k)
  <2>1. lock'[k].tx \in Tx /\ lock'[k].op # "check" /\ tcState'[lock'[k].tx] = "COMMITTING"
    BY <1>1, <1>3
  <2>2. StoreOf(k)' = IF lock'[k].op = "delete" THEN NoData ELSE lock'[k].data
    BY <2>1 DEF StoreOf
  <2>3. StoreOf(k) = IF lock[k].op = "delete" THEN NoData ELSE lock[k].data
    BY <1>1 DEF StoreOf
  <2>4. QED
    BY <1>3, <2>1, <2>2, <2>3 DEF Decided
<1>4. CASE CoordStep /\ UNCHANGED <<partVars, stale>>
  <2>1. StateStep(t)
    BY <1>1, <1>4 DEF CoordStep
  <2>2. tcState'[t] \in {"COMMITTING", "COMMITTED"} /\ txReq'[t] = txReq[t]
    BY <1>1, <2>1, StatesMoveForward DEF SameRequest
  <2>3. lock' = lock /\ applied' = applied
    BY <1>4 DEF partVars
  <2>4. tcState'[t] # "COMMITTED"
    <3>1. SUFFICES ASSUME tcState'[t] = "COMMITTED"
                   PROVE  FALSE
      OBVIOUS
    <3>2. applied'[t][k] > 0
      BY <1>1, <1>2, <2>2, <3>1 DEF IInv, CommittedIsApplied, KeysOfTx
    <3>3. applied[t][k] > 0
      BY <2>3, <3>2
    <3>4. QED
      BY <1>1, <1>2, <3>3 DEF IInv, OnceInv
  <2>5. QED
    BY <1>3, <2>2, <2>3, <2>4
<1>5. CASE ParticipantStep
  <2>1. PartStep /\ tcState' = tcState
    BY <1>5 DEF ParticipantStep, ledgerVars
  <2>2. ASSUME NEW p \in Part, Applies(t, p), k \in LockedBy(t, p)
        PROVE  RevisionOf(k)' > RevisionOf(k) \/ StoreOf(k) = item[k].data
    <3>1. item'[k].data = StoreOf(k)
      BY <1>1, <1>2, <2>2, AppliesFacts
    <3>2. QED
      BY <3>1, RevisionsStep
  <2>3. \A p \in Part : ~Drops(t, p)
    BY <1>1, DropsAreCancelled
  <2>4. QED
    BY <1>1, <1>3, <2>1, <2>2, <2>3, LocksLeave
<1>6. QED
  BY <1>4, <1>5 DEF Step

(* A step of the writers keeps what the first answers say. *)
LEMMA SinceKept ==
  ASSUME IInv, IInv', Step, NEW k \in Key, got' = got, got["first"][k].v \in Nat, Since(k)
  PROVE  Since(k)'
<1>1. TypeOK' /\ PartTypeOK /\ PartTypeOK' /\ PartOf[k] \in Part
  BY PartOfAssumption DEF IInv, TypeOK
<1>2. /\ RevisionOf(k)' >= RevisionOf(k)
      /\ (item'[k].data # item[k].data \/ Present(item'[k]) # Present(item[k]))
           => RevisionOf(k)' > RevisionOf(k)
  BY <1>1, RevisionsStep
<1>3. RevisionOf(k) \in Nat /\ RevisionOf(k)' \in Nat
  BY <1>1 DEF RevisionOf, PartTypeOK, Row
<1>4. CASE RevisionOf(k) > got["first"][k].v
  BY <1>2, <1>3, <1>4 DEF Since
<1>5. CASE /\ RevisionOf(k) = got["first"][k].v
           /\ Present(item[k]) = got["first"][k].found /\ item[k].data = got["first"][k].data
  <2>1. CASE RevisionOf(k)' > RevisionOf(k)
    BY <1>5, <2>1 DEF Since
  <2>2. CASE ~(RevisionOf(k)' > RevisionOf(k))
    <3>1. RevisionOf(k)' = RevisionOf(k)
      BY <1>2, <1>3, <2>2
    <3>2. item'[k].data = item[k].data /\ Present(item'[k]) = Present(item[k])
      BY <1>2, <2>2
    <3> QED BY <1>5, <3>1, <3>2 DEF Since
  <2> QED BY <2>1, <2>2
<1> QED
  BY <1>4, <1>5 DEF Since

(* A step of the writers keeps what a content says of the answers. *)
LEMMA AgreesKept ==
  ASSUME IInv, IInv', Step, NEW k \in Key, got' = got, got["first"][k].v \in Nat, Since(k),
         NEW s, Agrees(s, k)
  PROVE  Agrees(s, k)'
<1>1. TypeOK' /\ PartTypeOK /\ PartTypeOK' /\ PartOf[k] \in Part
  BY PartOfAssumption DEF IInv, TypeOK
<1>2. RevisionOf(k)' >= RevisionOf(k)
  BY <1>1, RevisionsStep
<1>3. RevisionOf(k) \in Nat /\ RevisionOf(k)' \in Nat
  BY <1>1 DEF RevisionOf, PartTypeOK, Row
<1>4. CASE k \in DOMAIN got["second"]
  BY <1>4 DEF Agrees
<1>5. CASE k \notin DOMAIN got["second"]
  <2>1. CASE RevisionOf(k) > got["first"][k].v
    BY <1>2, <1>3, <1>5, <2>1 DEF Agrees
  <2>2. CASE s[k] = got["first"][k].data
    BY <1>5, <2>2 DEF Agrees
  <2>3. CASE Decided(k) /\ StoreOf(k) = s[k] /\ ~(RevisionOf(k) > got["first"][k].v)
    <3>1. RevisionOf(k) = got["first"][k].v /\ item[k].data = got["first"][k].data
      BY <2>3 DEF Since
    <3>2. CASE Decided(k)' /\ StoreOf(k)' = StoreOf(k)
      BY <1>5, <2>3, <3>2 DEF Agrees
    <3>3. CASE RevisionOf(k)' > RevisionOf(k)
      BY <1>5, <3>1, <3>3 DEF Agrees
    <3>4. CASE StoreOf(k) = item[k].data
      <4>1. s[k] = got["first"][k].data
        BY <2>3, <3>1, <3>4
      <4> QED BY <1>5, <4>1 DEF Agrees
    <3> QED BY <2>3, <3>2, <3>3, <3>4, DecidedKept
  <2> QED BY <1>5, <2>1, <2>2, <2>3 DEF Agrees
<1> QED
  BY <1>4, <1>5

(* A step of the writers keeps the invariant of the read. *)
LEMMA WriterStep ==
  ASSUME IInv, ReadInv, Next, rPhase \in {"first", "second"}, snaps' = snaps \cup {Contents'},
         UNCHANGED <<rPhase, got>>
  PROVE  ReadInv'
<1>1. IInv' /\ Step
  BY StepKeepsIInv
<1>2. ReadKeys \subseteq Key
  BY ReadKeysAssumption
<1>3. ReadTypeInv'
  <2>1. Contents' = [k \in ReadKeys |-> Contents'[k]]
    BY DEF Contents
  <2> QED BY <2>1 DEF ReadInv, ReadTypeInv
<1>4. ASSUME NEW k \in DOMAIN got["first"]
      PROVE  Since(k)'
  BY <1>1, <1>2, <1>4, SinceKept DEF ReadInv, ReadTypeInv
<1>5. ASSUME rPhase = "second"
      PROVE  \E s \in snaps' : \A k \in ReadKeys : Agrees(s, k)'
  <2>1. PICK s \in snaps : \A k \in ReadKeys : Agrees(s, k)
    BY <1>5 DEF ReadInv
  <2>2. ASSUME NEW k \in ReadKeys
        PROVE  Agrees(s, k)'
    <3>1. k \in DOMAIN got["first"] /\ k \in Key
      BY <1>2, <1>5 DEF ReadInv, ReadTypeInv
    <3>2. got["first"][k].v \in Nat /\ Since(k) /\ Agrees(s, k)
      BY <2>1, <3>1, <1>5 DEF ReadInv, ReadTypeInv
    <3> QED BY <1>1, <3>1, <3>2, AgreesKept
  <2> QED BY <2>1, <2>2
<1>6. ReadsAreSnapshots'
  BY DEF ReadsAreSnapshots
<1> QED
  BY <1>3, <1>4, <1>5, <1>6 DEF ReadInv

(* What an answer says of its key, and that no write of it is decided. *)
LEMMA AnswerFacts ==
  ASSUME IInv, NEW k \in Key
  PROVE  /\ ReadRow(k).v \in Nat /\ ReadRow(k).v = RevisionOf(k)
         /\ ReadRow(k).found = Present(item[k]) /\ ReadRow(k).data = item[k].data
         /\ ~HasPendingWrite(k) => ~Decided(k)
<1>1. PartTypeOK /\ PartOf[k] \in Part
  BY PartOfAssumption DEF IInv, TypeOK
<1>2. RevisionOf(k) \in Nat
  BY <1>1 DEF RevisionOf, PartTypeOK, Row
<1>3. ReadRow(k).v = RevisionOf(k) /\ ReadRow(k).found = Present(item[k]) /\ ReadRow(k).data = item[k].data
  BY DEF ReadRow
<1>4. ~HasPendingWrite(k) => ~Decided(k)
  BY <1>1, LockFacts DEF HasPendingWrite, Decided
<1> QED
  BY <1>2, <1>3, <1>4

(* An answer of a partition keeps the invariant of the read. *)
LEMMA ReadStep ==
  ASSUME IInv, ReadInv, NEW p, ReadForTransaction(p), UNCHANGED <<vars, snaps>>
  PROVE  ReadInv'
<1>1. ReadKeys \subseteq Key
  BY ReadKeysAssumption
<1>2. item' = item /\ delV' = delV /\ lock' = lock /\ tcState' = tcState /\ snaps' = snaps
  BY DEF vars, partVars, coordVars, ledgerVars
<1>3. Contents' = Contents /\ \A k \in Key : RevisionOf(k)' = RevisionOf(k) /\ Decided(k)' = Decided(k) /\ StoreOf(k)' = StoreOf(k)
  BY <1>2 DEF Contents, StoreOf, RevisionOf, Decided
<1>4. rPhase \in {"first", "second"} /\ KeysOn(p) \subseteq ReadKeys
  BY DEF ReadForTransaction, KeysOn
<1>5. CASE rPhase' = "failed" /\ UNCHANGED got
  BY <1>2, <1>5 DEF ReadInv, ReadTypeInv, ReadsAreSnapshots
<1>6. CASE /\ \A k \in KeysOn(p) : ~HasPendingWrite(k)
           /\ got' = [got EXCEPT ![rPhase] = [k \in DOMAIN got[rPhase] \cup KeysOn(p) |->
                        IF k \in KeysOn(p) THEN ReadRow(k) ELSE got[rPhase][k]]]
           /\ rPhase' = rPhase
  <2>1. DOMAIN got = {"first", "second"}
    BY DEF ReadInv, ReadTypeInv
  <2>2. CASE rPhase = "first"
    <3>1. /\ DOMAIN got' = {"first", "second"} /\ got'["second"] = got["second"]
          /\ DOMAIN got'["first"] = DOMAIN got["first"] \cup KeysOn(p)
          /\ \A k \in KeysOn(p) : got'["first"][k] = ReadRow(k)
          /\ \A k \in DOMAIN got["first"] \ KeysOn(p) : got'["first"][k] = got["first"][k]
      BY <1>6, <2>1, <2>2
    <3>2. ReadTypeInv'
      <4>1. \A k \in DOMAIN got'["first"] : got'["first"][k].v \in Nat
        BY <1>1, <1>4, <3>1, AnswerFacts DEF ReadInv, ReadTypeInv
      <4> QED BY <1>2, <1>4, <1>6, <2>2, <3>1, <4>1 DEF ReadInv, ReadTypeInv
    <3>3. ASSUME NEW k \in DOMAIN got'["first"]
          PROVE  Since(k)'
      <4>0. k \in Key
        BY <1>1, <1>4, <3>1 DEF ReadInv, ReadTypeInv
      <4>1. CASE k \in KeysOn(p)
        BY <1>2, <1>3, <3>1, <4>0, <4>1, AnswerFacts DEF Since
      <4>2. CASE k \notin KeysOn(p)
        <5>1. Since(k) /\ got'["first"][k] = got["first"][k]
          BY <1>4, <3>1, <4>2 DEF ReadInv
        <5> QED BY <1>2, <1>3, <4>0, <5>1 DEF Since
      <4> QED BY <4>1, <4>2
    <3> QED BY <1>2, <1>3, <1>6, <2>2, <3>2, <3>3 DEF ReadInv, ReadsAreSnapshots
  <2>3. CASE rPhase = "second"
    <3>1. /\ DOMAIN got' = {"first", "second"} /\ got'["first"] = got["first"]
          /\ DOMAIN got'["second"] = DOMAIN got["second"] \cup KeysOn(p)
          /\ \A k \in KeysOn(p) : got'["second"][k] = ReadRow(k)
          /\ \A k \in DOMAIN got["second"] \ KeysOn(p) : got'["second"][k] = got["second"][k]
      BY <1>6, <2>1, <2>3
    <3>2. ReadTypeInv'
      BY <1>2, <1>4, <1>6, <2>3, <3>1 DEF ReadInv, ReadTypeInv
    <3>3. ASSUME NEW k \in DOMAIN got'["first"]
          PROVE  Since(k)'
      <4>1. k \in Key /\ Since(k)
        BY <1>1, <1>4, <3>1 DEF ReadInv, ReadTypeInv
      <4> QED BY <1>2, <1>3, <3>1, <4>1 DEF Since
    <3>4. PICK s \in snaps : \A k \in ReadKeys : Agrees(s, k)
      BY <2>3 DEF ReadInv
    <3>5. ASSUME NEW k \in ReadKeys
          PROVE  Agrees(s, k)'
      <4>0. k \in Key /\ k \in DOMAIN got["first"] /\ Since(k) /\ Agrees(s, k)
        BY <1>1, <2>3, <3>4 DEF ReadInv, ReadTypeInv
      <4>1. CASE k \in KeysOn(p)
        <5>1. got'["second"][k] = ReadRow(k) /\ k \in DOMAIN got'["second"] /\ k \notin DOMAIN got["second"]
          BY <2>3, <3>1, <4>1 DEF ReadForTransaction
        <5>2. ~Decided(k) /\ ReadRow(k).v = RevisionOf(k) /\ RevisionOf(k) \in Nat
          BY <1>6, <4>0, <4>1, AnswerFacts
        <5>3. got["first"][k].v \in Nat
          BY <4>0 DEF ReadInv, ReadTypeInv
        <5>4. RevisionOf(k) > got["first"][k].v \/ s[k] = got["first"][k].data
          BY <4>0, <5>1, <5>2 DEF Agrees
        <5>5. SameCommittedState(got["first"][k], ReadRow(k)) => s[k] = got["first"][k].data
          BY <5>2, <5>3, <5>4 DEF SameCommittedState
        <5> QED BY <3>1, <5>1, <5>5 DEF Agrees
      <4>2. CASE k \notin KeysOn(p)
        <5>1. /\ k \in DOMAIN got'["second"] <=> k \in DOMAIN got["second"]
              /\ k \in DOMAIN got["second"] => got'["second"][k] = got["second"][k]
          BY <3>1, <4>2
        <5> QED BY <1>2, <1>3, <3>1, <4>0, <5>1 DEF Agrees
      <4> QED BY <4>1, <4>2
    <3> QED BY <1>2, <1>3, <1>6, <2>3, <3>2, <3>3, <3>4, <3>5 DEF ReadInv, ReadsAreSnapshots
  <2> QED BY <1>4, <2>2, <2>3
<1> QED
  BY <1>5, <1>6, <1>4 DEF ReadForTransaction

(* The first answers are complete: the content now is the snapshot. *)
LEMMA SecondPhaseStep ==
  ASSUME IInv, ReadInv, SecondPhase, UNCHANGED <<vars, snaps>>
  PROVE  ReadInv'
<1>1. ReadKeys \subseteq Key
  BY ReadKeysAssumption
<1>2. item' = item /\ delV' = delV /\ lock' = lock /\ tcState' = tcState /\ snaps' = snaps /\ got' = got
  BY DEF vars, partVars, coordVars, ledgerVars, SecondPhase
<1>3. Contents' = Contents /\ \A k \in Key : RevisionOf(k)' = RevisionOf(k) /\ Decided(k)' = Decided(k) /\ StoreOf(k)' = StoreOf(k)
  BY <1>2 DEF Contents, StoreOf, RevisionOf, Decided
<1>4. rPhase = "first" /\ rPhase' = "second" /\ DOMAIN got["first"] = ReadKeys
  BY DEF SecondPhase
<1>5. DOMAIN got["second"] = {}
  BY <1>4 DEF ReadInv, ReadTypeInv
<1>6. ReadTypeInv'
  BY <1>2, <1>4 DEF ReadInv, ReadTypeInv
<1>7. ASSUME NEW k \in ReadKeys
      PROVE  Since(k)' /\ Agrees(Contents, k)'
  <2>1. k \in Key /\ Since(k)
    BY <1>1, <1>4 DEF ReadInv
  <2>2. Contents[k] = IF Decided(k) THEN StoreOf(k) ELSE item[k].data
    BY DEF Contents, StoreOf, Decided
  <2>3. Agrees(Contents, k)
    BY <1>5, <2>1, <2>2 DEF Agrees, Since
  <2>4. Agrees(Contents, k)'
    BY <1>2, <1>3, <1>5, <2>1, <2>3 DEF Agrees
  <2>5. Since(k)'
    BY <1>2, <1>3, <2>1 DEF Since
  <2> QED BY <2>4, <2>5
<1> QED
  BY <1>2, <1>3, <1>4, <1>6, <1>7 DEF ReadInv, ReadsAreSnapshots

(* The comparison accepts only answers that agree with the snapshot. *)
LEMMA CompareStep ==
  ASSUME ReadInv, Compare, UNCHANGED <<vars, snaps>>
  PROVE  ReadInv'
<1>1. rPhase = "second" /\ DOMAIN got["second"] = ReadKeys /\ got' = got /\ snaps' = snaps
  BY DEF Compare
<1>2. PICK s \in snaps : \A k \in ReadKeys : Agrees(s, k)
  BY <1>1 DEF ReadInv
<1>3. ReadTypeInv' /\ rPhase' \in {"done", "failed"}
  BY <1>1 DEF ReadInv, ReadTypeInv, Compare
<1>4. ReadsAreSnapshots'
  <2> SUFFICES ASSUME rPhase' = "done"
               PROVE  [k \in ReadKeys |-> got["first"][k].data] \in snaps
    BY <1>1 DEF ReadsAreSnapshots
  <2>1. \A k \in ReadKeys : SameCommittedState(got["first"][k], got["second"][k])
    BY DEF Compare
  <2>2. \A k \in ReadKeys : s[k] = got["first"][k].data
    BY <1>1, <1>2, <2>1 DEF Agrees
  <2>3. s = [k \in ReadKeys |-> s[k]]
    BY <1>2 DEF ReadInv, ReadTypeInv
  <2>4. s = [k \in ReadKeys |-> got["first"][k].data]
    BY <2>2, <2>3
  <2> QED BY <1>2, <2>4
<1> QED
  BY <1>1, <1>3, <1>4 DEF ReadInv

-----------------------------------------------------------------------------
(* The invariant of the writers and of the read, in every reachable state: *)
(* what #transactionGetItems may rely on between its two phases.           *)
THEOREM ReadInvariance == ReadSpec => [](IInv /\ ReadInv)
<1>1. ReadInit => IInv /\ ReadInv
  <2> SUFFICES ASSUME ReadInit
               PROVE  IInv /\ ReadInv
    OBVIOUS
  <2>1. IInv
    BY InitIsGood DEF ReadInit
  <2>2. DOMAIN << >> = {}
    OBVIOUS
  <2>3. ReadTypeInv
    BY <2>2 DEF ReadInit, ReadTypeInv, Contents
  <2> QED BY <2>1, <2>2, <2>3 DEF ReadInit, ReadInv, ReadsAreSnapshots
<1>2. IInv /\ ReadInv /\ [ReadNext]_<<vars, rvars>> => (IInv /\ ReadInv)'
  <2> SUFFICES ASSUME IInv, ReadInv, [ReadNext]_<<vars, rvars>>
               PROVE  IInv' /\ ReadInv'
    OBVIOUS
  <2>1. [Next]_vars
    BY DEF ReadNext
  <2>2. IInv'
    BY <2>1, StepKeepsIInv
  <2>3. CASE UNCHANGED <<vars, rvars>>
    <3>1. /\ item' = item /\ delV' = delV /\ lock' = lock /\ tcState' = tcState
          /\ rPhase' = rPhase /\ got' = got /\ snaps' = snaps
      BY <2>3 DEF vars, rvars, partVars, coordVars, ledgerVars
    <3>2. Contents' = Contents /\ \A k \in Key : RevisionOf(k)' = RevisionOf(k) /\ Decided(k)' = Decided(k) /\ StoreOf(k)' = StoreOf(k)
      BY <3>1 DEF Contents, StoreOf, RevisionOf, Decided
    <3>3. ReadTypeInv' /\ ReadsAreSnapshots'
      BY <3>1 DEF ReadInv, ReadTypeInv, ReadsAreSnapshots
    <3>4. \A k \in Key : Since(k)' = Since(k)
      BY <3>1, <3>2 DEF Since
    <3>5. \A s \in snaps, k \in Key : Agrees(s, k)' = Agrees(s, k)
      BY <3>1, <3>2 DEF Agrees
    <3>6. ReadKeys \subseteq Key /\ DOMAIN got["first"] \subseteq ReadKeys
      BY ReadKeysAssumption DEF ReadInv, ReadTypeInv
    <3>7. rPhase = "second" => \E s \in snaps : \A k \in ReadKeys : Agrees(s, k)'
      BY <3>5, <3>6 DEF ReadInv
    <3> QED BY <2>2, <3>1, <3>2, <3>3, <3>4, <3>6, <3>7 DEF ReadInv
  <2>4. ASSUME NEW p \in ReadParts, ReadForTransaction(p), UNCHANGED <<vars, snaps>>
        PROVE  ReadInv'
    BY <2>4, ReadStep
  <2>5. CASE SecondPhase /\ UNCHANGED <<vars, snaps>>
    BY <2>5, <2>2, SecondPhaseStep
  <2>6. CASE Compare /\ UNCHANGED <<vars, snaps>>
    BY <2>6, <2>2, CompareStep
  <2>7. CASE rPhase \in {"first", "second"} /\ Next /\ snaps' = snaps \cup {Contents'} /\ UNCHANGED <<rPhase, got>>
    BY <2>7, <2>2, WriterStep
  <2> QED BY <2>2, <2>3, <2>4, <2>5, <2>6, <2>7 DEF ReadNext
<1> QED
  BY <1>1, <1>2, PTL DEF ReadSpec

(* A read that does not fail (#transactionGetItems) returns the content of *)
(* the store at one moment: no decided write is seen in part.              *)
THEOREM ReadsAreAtomic == ReadSpec => []ReadsAreSnapshots
<1>1. ReadInv => ReadsAreSnapshots
  BY DEF ReadInv
<1> QED
  BY <1>1, ReadInvariance, PTL

=============================================================================
