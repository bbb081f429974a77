-------------------- MODULE MaterializationExport_proofs --------------------
(***************************************************************************)
(* NothingComesBack and NoRowMeansMaterialized of MaterializationExport,   *)
(* for every number of keys, partitions, receivers, workers and calls.     *)
(*                                                                         *)
(* The argument: an image of a call is open while it can still apply, that *)
(* is while no receiver took it and the holder of its key has no higher    *)
(* epoch of its sender.  An open image has a row at the base partition of  *)
(* its key, which may not forget it: the call is in flight, or the epoch   *)
(* of the sender rose, or the restart check or the ancestor fences of the  *)
(* copied row wait for the next call (Protected).  So the next call of the *)
(* key closes each open image before it (Covers), and a receiver takes the *)
(* images of a key in the order of their revisions.                        *)
(***************************************************************************)
EXTENDS MaterializationExport, FiniteSetTheorems, TLAPS

Id == DOMAIN calls

\* The partition with the row of a key: the source of its owner while the owner imports.
Base(k) == LET p == owner[k] IN IF importing[p] = NoPart THEN p ELSE importing[p]

\* The highest revision that a key may have had.
Last(k) == IF item[Base(k)][k] = 0 THEN mark[Base(k)] ELSE item[Base(k)][k]

\* The image of key k in call i can still apply.
Open(i, k) == k \in left[i] /\ seen[Holder(k)][calls[i].from] <= calls[i].epoch

\* The next call of p for key k will close the image of call i.
Protected(p, i, k) ==
  IF calls[i].from = p
  THEN \/ calls[i].epoch < epoch[p]
       \/ importing[owner[k]] = NoPart /\ (i \in inFlight[p] \/ (~started[p] /\ callOpen[p]))
  ELSE fences[p][calls[i].from] > calls[i].epoch /\ outbox[p][k].id <= untilId[p]

\* Call j closes the open images of call i that it carries too.
Covers(j, i) ==
  IF calls[j].from = calls[i].from THEN calls[i].epoch < calls[j].epoch
  ELSE calls[j].fences[calls[i].from] > calls[i].epoch

\* An image that is older than a row, or of its revision.
UpTo(im, r) == im.rev <= r.rev /\ (im.rev = r.rev => im.deleted = r.deleted)

Images == [rev : Nat, deleted : BOOLEAN]

Outcomes == {"none", "acknowledged", "unprocessed", "fenced", "rejected", "unknown"}

Call == [from : Parts, epoch : Nat, fences : [Parts -> Nat], images : UNION {[K -> Images] : K \in SUBSET Keys}]
Answer == UNION {[K -> Outcomes] : K \in SUBSET Keys}

IsRow(r) == r.rev \in Nat /\ r.deleted \in BOOLEAN /\ r.localOnly \in BOOLEAN

TypeOK ==
  /\ owner \in [Keys -> Parts] /\ importing \in [Parts -> Parts \cup {NoPart}] /\ router \in [Parts -> BOOLEAN]
  /\ item \in [Parts -> [Keys -> Nat]] /\ mark \in [Parts -> Nat]
  /\ DOMAIN outbox = Parts /\ \A p \in Parts : DOMAIN outbox[p] = Keys
  /\ \A p \in Parts, k \in Keys : IsRow(outbox[p][k])
  /\ epoch \in [Parts -> Nat] /\ callOpen \in [Parts -> BOOLEAN]
  /\ fences \in [Parts -> [Parts -> Nat]] /\ untilId \in [Parts -> Nat]
  /\ started \in [Parts -> BOOLEAN] /\ inFlight \in [Parts -> SUBSET Nat]
  /\ calls \in Seq(Call)
  /\ left \in Seq(SUBSET Keys) /\ answer \in Seq(Answer)
  /\ Len(left) = Len(calls) /\ Len(answer) = Len(calls)
  /\ \A i \in Id : left[i] \subseteq DOMAIN calls[i].images /\ DOMAIN answer[i] = DOMAIN calls[i].images
  /\ matOwner \in [Keys -> Receivers] /\ matImporting \in [Receivers -> Receivers \cup {NoPart}]
  /\ image \in [Receivers -> [Keys -> Images]] /\ seen \in [Receivers -> [Parts -> Nat]]
  /\ top \in [Keys -> Images]

\* The targets of a repartition are new, and import from a partition that does not.
PartsInv ==
  /\ \A k \in Keys : owner[k] \in made /\ matOwner[k] \in made /\ ~router[owner[k]]
  /\ \A p \in Parts : importing[p] # NoPart =>
       /\ importing[p] \in made /\ importing[importing[p]] = NoPart
       /\ \A i \in Id : calls[i].from # p
  /\ \A p \in Parts : importing[p] # NoPart \/ router[p] => p \in made
  /\ \A m \in Receivers : matImporting[m] # NoPart =>
       m \in made /\ matImporting[m] \in made /\ matImporting[matImporting[m]] = NoPart
  /\ \A i \in Id : calls[i].from \in made

\* The calls: the epochs, the order, and what an answer says.
CallsInv ==
  /\ \A i \in Id : calls[i].epoch <= epoch[calls[i].from]
  /\ \A i \in Id : \A k \in DOMAIN calls[i].images :
       /\ calls[i].images[k].rev # 0
       /\ k \in left[i] => answer[i][k] \in {"none", "unknown"}
  /\ \A p \in Parts : \A i \in inFlight[p] : i \in Id /\ calls[i].from = p /\ started[p] /\ callOpen[p]
  /\ \A p \in Parts : \A i \in inFlight[p] : \A k \in DOMAIN calls[i].images : owner[k] = p =>
       /\ \A j \in Id : j > i => k \notin DOMAIN calls[j].images
       /\ answer[i][k] = "acknowledged" => /\ top[k].rev >= calls[i].images[k].rev
                                           /\ \A j \in Id : ~Open(j, k)
  /\ \A i, j \in Id : \A k \in DOMAIN calls[i].images \cap DOMAIN calls[j].images : i < j =>
       /\ UpTo(calls[i].images[k], calls[j].images[k])
       /\ Open(i, k) => Covers(j, i)

\* The rows: what the row of a key says, and that no row means nothing is left to do.
RowInv(k) ==
  LET p == Base(k)
      row == outbox[p][k]
  IN  /\ top[k].rev <= Last(k) /\ row.rev <= Last(k)
      /\ \A i \in Id : k \in DOMAIN calls[i].images => calls[i].images[k].rev <= Last(k)
      /\ row.rev # 0 =>
           /\ IF item[p][k] = 0 THEN row.deleted ELSE ~row.deleted /\ row.rev = item[p][k]
           /\ UpTo(top[k], row)
           /\ row.localOnly => top[k].deleted /\ ~row.deleted
           /\ \A i \in Id : k \in DOMAIN calls[i].images => UpTo(calls[i].images[k], row)
      /\ row.rev = 0 => IF item[p][k] = 0 THEN top[k].deleted ELSE ~top[k].deleted /\ top[k].rev = item[p][k]

RowsInv == \A k \in Keys : RowInv(k)

\* What an open image relies on.
Kept(i, k) ==
  /\ outbox[Base(k)][k].rev # 0 /\ ~outbox[Base(k)][k].localOnly
  /\ Protected(Base(k), i, k)
  /\ UpTo(top[k], calls[i].images[k])

OpenInv == \A i \in Id : \A k \in left[i] : Open(i, k) => Kept(i, k)

IInv == TypeOK /\ PartsInv /\ CallsInv /\ RowsInv /\ OpenInv /\ NothingComesBack

-----------------------------------------------------------------------------
(***************************************************************************)
(* Types.                                                                  *)
(***************************************************************************)
(* The fields of a call. *)
LEMMA CallTypes ==
  ASSUME TypeOK, NEW i \in Id
  PROVE  /\ i \in Nat /\ i \in 1..Len(calls) /\ i \in DOMAIN left /\ i \in DOMAIN answer
         /\ calls[i].from \in Parts /\ calls[i].epoch \in Nat /\ calls[i].fences \in [Parts -> Nat]
         /\ left[i] \subseteq DOMAIN calls[i].images /\ DOMAIN calls[i].images \subseteq Keys
         /\ DOMAIN answer[i] = DOMAIN calls[i].images
         /\ \A k \in DOMAIN calls[i].images : answer[i][k] \in Outcomes
         /\ \A k \in DOMAIN calls[i].images : /\ calls[i].images[k] \in Images
                                              /\ calls[i].images[k].rev \in Nat /\ calls[i].images[k].deleted \in BOOLEAN
<1>1. calls \in Seq(Call) /\ left \in Seq(SUBSET Keys) /\ answer \in Seq(Answer)
      /\ Len(left) = Len(calls) /\ Len(answer) = Len(calls)
  BY DEF TypeOK
<1>2. i \in Nat /\ i \in 1..Len(calls) /\ i \in DOMAIN left /\ i \in DOMAIN answer /\ calls[i] \in Call
      /\ answer[i] \in Answer
  BY <1>1 DEF Id
<1>3. PICK K \in SUBSET Keys : calls[i].images \in [K -> Images]
  BY <1>2 DEF Call
<1>4. \A k \in K : /\ calls[i].images[k] \in Images /\ calls[i].images[k].rev \in Nat
                   /\ calls[i].images[k].deleted \in BOOLEAN
  BY <1>3 DEF Images
<1>5. DOMAIN calls[i].images = K
  BY <1>3
<1>6. calls[i].from \in Parts /\ calls[i].epoch \in Nat /\ calls[i].fences \in [Parts -> Nat]
  BY <1>2 DEF Call
<1>7. left[i] \subseteq DOMAIN calls[i].images /\ DOMAIN answer[i] = DOMAIN calls[i].images
  BY DEF TypeOK
<1>8. \A k \in DOMAIN answer[i] : answer[i][k] \in Outcomes
  BY <1>2 DEF Answer
<1> QED
  BY <1>2, <1>4, <1>5, <1>6, <1>7, <1>8

(* Where the row and the image of a key are. *)
LEMMA Places ==
  ASSUME TypeOK, NEW k \in Keys
  PROVE  Base(k) \in Parts /\ Holder(k) \in Receivers /\ owner[k] \in Parts /\ matOwner[k] \in Receivers
<1>1. owner[k] \in Parts /\ matOwner[k] \in Receivers
  BY DEF TypeOK
<1>2. importing[owner[k]] \in Parts \cup {NoPart} /\ matImporting[matOwner[k]] \in Receivers \cup {NoPart}
  BY <1>1 DEF TypeOK
<1> QED
  BY <1>1, <1>2 DEF Base, Holder

(* The fields of a row that the invariant reads. *)
SameRow(r, s) == r.rev = s.rev /\ r.deleted = s.deleted /\ r.localOnly = s.localOnly /\ r.id = s.id

(* The same fields, the same types. *)
LEMMA SameRows ==
  ASSUME NEW r, NEW s, SameRow(s, r), IsRow(r)
  PROVE  IsRow(s)
BY DEF SameRow, IsRow

(***************************************************************************)
(* The steps that only change a worker, a wait or when a row is due.       *)
(***************************************************************************)
Quiet ==
  /\ UNCHANGED <<table, item, mark, epoch, callOpen, fences, untilId, started, inFlight, wire, receivers>>
  /\ DOMAIN outbox' = Parts /\ \A p \in Parts : DOMAIN outbox'[p] = Keys
  /\ \A p \in Parts, k \in Keys : SameRow(outbox'[p][k], outbox[p][k])

(* They keep the invariant. *)
LEMMA QuietStep ==
  ASSUME IInv, Quiet
  PROVE  IInv'
<1> USE DEF table, wire, receivers
<1>0. /\ owner' = owner /\ importing' = importing /\ router' = router /\ made' = made /\ item' = item /\ mark' = mark
      /\ epoch' = epoch /\ callOpen' = callOpen /\ fences' = fences /\ untilId' = untilId /\ started' = started
      /\ inFlight' = inFlight /\ calls' = calls /\ left' = left /\ answer' = answer /\ matOwner' = matOwner
      /\ matImporting' = matImporting /\ image' = image /\ seen' = seen /\ top' = top
  BY DEF Quiet
<1>1. \A k \in Keys : Base(k) \in Parts /\ Base(k)' = Base(k) /\ Last(k)' = Last(k) /\ Holder(k)' = Holder(k)
  BY <1>0, Places DEF Base, Last, Holder, IInv
<1>2. \A p \in Parts, k \in Keys : SameRow(outbox'[p][k], outbox[p][k])
  BY DEF Quiet
<1>3. \A i, k : Open(i, k)' = Open(i, k)
  BY <1>0 DEF Open, Holder
<1>4. Id' = Id /\ \A i, j \in Id : Covers(j, i)' = Covers(j, i)
  BY <1>0 DEF Id, Covers
<1>5. TypeOK'
  <2>1. \A p \in Parts, k \in Keys : IsRow(outbox'[p][k])
    BY <1>2, SameRows DEF IInv, TypeOK
  <2>2. DOMAIN outbox' = Parts /\ \A p \in Parts : DOMAIN outbox'[p] = Keys
    BY DEF Quiet
  <2> QED BY <2>1, <2>2, <1>0 DEF IInv, TypeOK, Id
<1>6. PartsInv'
  BY <1>0 DEF IInv, PartsInv, Id
<1>7. CallsInv'
  BY <1>0, <1>3, <1>4 DEF IInv, CallsInv, UpTo
<1>8. RowsInv'
  <2> SUFFICES ASSUME NEW k \in Keys
               PROVE  RowInv(k)'
    BY DEF RowsInv
  <2>1. SameRow(outbox'[Base(k)][k], outbox[Base(k)][k]) /\ Base(k)' = Base(k) /\ Last(k)' = Last(k) /\ Base(k) \in Parts
    BY <1>1, <1>2
  <2>2. RowInv(k)
    BY DEF IInv, RowsInv
  <2> QED BY <2>1, <2>2, <1>0, <1>4 DEF RowInv, SameRow, UpTo
<1>9. OpenInv'
  <2> SUFFICES ASSUME NEW i \in Id, NEW k \in left[i], Open(i, k)
               PROVE  Kept(i, k)'
    BY <1>0, <1>3, <1>4 DEF OpenInv
  <2>1. k \in Keys
    BY CallTypes DEF IInv
  <2>2. SameRow(outbox'[Base(k)][k], outbox[Base(k)][k]) /\ Base(k)' = Base(k) /\ Base(k) \in Parts
    BY <1>1, <1>2, <2>1
  <2>3. Kept(i, k)
    BY DEF IInv, OpenInv
  <2>4. Protected(Base(k), i, k) => Protected(Base(k), i, k)'
    BY <2>2, <1>0 DEF Protected, SameRow
  <2> QED BY <2>2, <2>3, <2>4, <1>0 DEF Kept, SameRow, UpTo
<1>10. NothingComesBack'
  BY <1>0 DEF IInv, NothingComesBack, Holder
<1> QED
  BY <1>5, <1>6, <1>7, <1>8, <1>9, <1>10 DEF IInv

(***************************************************************************)
(* A write of the row of key k at p, and of its item.                      *)
(***************************************************************************)
RowStep(p, k) ==
  /\ UNCHANGED <<table, epoch, callOpen, untilId, started, inFlight, wire, receivers>>
  /\ item' \in [Parts -> [Keys -> Nat]] /\ mark' \in [Parts -> Nat] /\ fences' \in [Parts -> [Parts -> Nat]]
  /\ DOMAIN outbox' = Parts /\ \A q \in Parts : DOMAIN outbox'[q] = Keys
  /\ \A q \in Parts, j \in Keys : IsRow(outbox'[q][j])
  /\ \A q \in Parts, j \in Keys : (q # p \/ j # k) => outbox'[q][j] = outbox[q][j] /\ item'[q][j] = item[q][j]
  /\ \A q \in Parts : mark'[q] >= mark[q]
  /\ \A q \in Parts : \/ fences'[q] = fences[q]
                      \/ \A j \in Keys : outbox'[q][j].rev # 0 => ~(outbox'[q][j].id <= untilId[q])

(* The invariant of the other keys stays. *)
LEMMA RowFrame ==
  ASSUME IInv, NEW p \in Parts, NEW k \in Keys, RowStep(p, k),
         Base(k) = p => RowInv(k)',
         Base(k) = p => \A i \in Id : k \in left[i] /\ Open(i, k) => Kept(i, k)'
  PROVE  IInv'
<1> USE DEF table, wire, receivers
<1>0. /\ owner' = owner /\ importing' = importing /\ router' = router /\ made' = made
      /\ epoch' = epoch /\ callOpen' = callOpen /\ untilId' = untilId /\ started' = started
      /\ inFlight' = inFlight /\ calls' = calls /\ left' = left /\ answer' = answer /\ matOwner' = matOwner
      /\ matImporting' = matImporting /\ image' = image /\ seen' = seen /\ top' = top
  BY DEF RowStep
<1>1. \A j \in Keys : Base(j) \in Parts /\ Base(j)' = Base(j) /\ Holder(j)' = Holder(j)
  BY <1>0, Places DEF Base, Holder, IInv
<1>3. \A i, j : Open(i, j)' = Open(i, j)
  BY <1>0 DEF Open, Holder
<1>4. Id' = Id /\ \A i, j \in Id : Covers(j, i)' = Covers(j, i)
  BY <1>0 DEF Id, Covers
<1>5. TypeOK'
  BY <1>0 DEF IInv, TypeOK, Id, RowStep
<1>6. PartsInv'
  BY <1>0 DEF IInv, PartsInv, Id
<1>7. CallsInv'
  BY <1>0, <1>3, <1>4 DEF IInv, CallsInv, UpTo
<1>8. RowsInv'
  <2> SUFFICES ASSUME NEW j \in Keys
               PROVE  RowInv(j)'
    BY DEF RowsInv
  <2> DEFINE b == Base(j)
  <2>1. b \in Parts /\ Base(j)' = b
    BY <1>1
  <2>2. CASE b = p /\ j = k
    BY <2>2
  <2>3. CASE ~(b = p /\ j = k)
    <3>1. outbox'[b][j] = outbox[b][j] /\ item'[b][j] = item[b][j] /\ mark'[b] >= mark[b]
      BY <2>1, <2>3 DEF RowStep
    <3>2. RowInv(j)
      BY DEF IInv, RowsInv
    <3>3. mark[b] \in Nat /\ mark'[b] \in Nat /\ item[b][j] \in Nat /\ top[j].rev \in Nat /\ outbox[b][j].rev \in Nat
      BY <2>1 DEF IInv, TypeOK, RowStep, IsRow, Images
    <3>4. \A i \in Id : j \in DOMAIN calls[i].images => calls[i].images[j].rev \in Nat
      BY CallTypes DEF IInv
    <3>5. Last(j) \in Nat /\ Last(j)' \in Nat /\ Last(j)' >= Last(j)
      BY <2>1, <3>1, <3>3 DEF Last
    <3> HIDE DEF b
    <3>6. /\ top'[j].rev <= Last(j)' /\ outbox'[b][j].rev <= Last(j)'
          /\ \A i \in Id' : j \in DOMAIN calls'[i].images => calls'[i].images[j].rev <= Last(j)'
      BY <3>1, <3>2, <3>3, <3>4, <3>5, <1>0, <1>4 DEF RowInv, b
    <3> QED
      BY <3>1, <3>2, <3>6, <2>1, <1>0, <1>4 DEF RowInv, UpTo, b
  <2> QED BY <2>2, <2>3
<1>9. OpenInv'
  <2> SUFFICES ASSUME NEW i \in Id, NEW j \in left[i], Open(i, j)
               PROVE  Kept(i, j)'
    BY <1>0, <1>3, <1>4 DEF OpenInv
  <2>1. j \in Keys /\ calls[i].from \in Parts
    BY CallTypes DEF IInv
  <2> DEFINE b == Base(j)
  <2>2. b \in Parts /\ Base(j)' = b
    BY <1>1, <2>1
  <2>3. CASE b = p /\ j = k
    BY <2>3
  <2>4. CASE ~(b = p /\ j = k)
    <3>1. outbox'[b][j] = outbox[b][j]
      BY <2>1, <2>2, <2>4 DEF RowStep
    <3>2. Kept(i, j)
      BY DEF IInv, OpenInv
    <3>3. fences'[b] = fences[b] \/ ~(outbox[b][j].id <= untilId[b])
      BY <3>1, <3>2, <2>1, <2>2 DEF Kept, RowStep
    <3>4. Protected(b, i, j) => Protected(b, i, j)'
      BY <3>1, <3>3, <2>2, <1>0 DEF Protected
    <3> QED BY <3>1, <3>2, <3>4, <2>2, <1>0 DEF Kept, UpTo
  <2> QED BY <2>3, <2>4
<1>10. NothingComesBack'
  BY <1>0 DEF IInv, NothingComesBack, Holder
<1> QED
  BY <1>5, <1>6, <1>7, <1>8, <1>9, <1>10 DEF IInv

(* What the invariant says of one key. *)
LEMMA KeyFacts ==
  ASSUME IInv, NEW k \in Keys
  PROVE  /\ RowInv(k) /\ Last(k) \in Nat /\ Base(k) \in Parts /\ top[k].rev \in Nat
         /\ IsRow(outbox[Base(k)][k]) /\ item[Base(k)][k] \in Nat /\ mark[Base(k)] \in Nat
         /\ \A i \in Id : k \in left[i] /\ Open(i, k) => Kept(i, k)
<1>1. Base(k) \in Parts
  BY Places DEF IInv
<1>2. item[Base(k)][k] \in Nat /\ mark[Base(k)] \in Nat /\ IsRow(outbox[Base(k)][k]) /\ top[k].rev \in Nat
  BY <1>1 DEF IInv, TypeOK, Images
<1> QED
  BY <1>1, <1>2 DEF IInv, RowsInv, OpenInv, Last

(* captureWrite. *)
LEMMA WriteStep ==
  ASSUME IInv, NEW p \in Parts, NEW k \in Keys, captureWrite(p, k)
  PROVE  IInv'
<1> DEFINE rev == IF item[p][k] = 0 THEN mark[p] + 1 ELSE item[p][k] + 1
           lo == IF ~HasRow(p, k) THEN item[p][k] = 0 ELSE outbox[p][k].localOnly
<1>1. Base(k) = p /\ owner[k] = p /\ importing[p] = NoPart
  BY DEF captureWrite, canRun, owns, Base
<1>2. /\ RowInv(k) /\ Last(k) \in Nat /\ top[k].rev \in Nat /\ IsRow(outbox[p][k]) /\ item[p][k] \in Nat /\ mark[p] \in Nat
      /\ \A i \in Id : k \in left[i] /\ Open(i, k) => Kept(i, k)
  BY KeyFacts, <1>1
<1>3. rev \in Nat /\ rev > Last(k) /\ rev # 0
  BY <1>1, <1>2 DEF Last
<1>4. /\ item' = [item EXCEPT ![p][k] = rev] /\ UNCHANGED <<table, mark, epoch, callOpen, fences, untilId, started, inFlight, wire, receivers>>
      /\ upsertOutboxRow(p, k, rev, FALSE, item[p][k] = 0)
  BY DEF captureWrite
<1> HIDE DEF rev
<1>5. /\ DOMAIN outbox' = Parts /\ \A q \in Parts : DOMAIN outbox'[q] = Keys
      /\ \A q \in Parts, j \in Keys : (q # p \/ j # k) => outbox'[q][j] = outbox[q][j]
  BY <1>4 DEF upsertOutboxRow, IInv, TypeOK
<1>6. PICK id : outbox'[p][k] = Row(rev, FALSE, lo, id, TRUE) /\ (HasRow(p, k) => id = outbox[p][k].id)
  <2>1. outbox'[p][k] = IF ~HasRow(p, k) THEN Row(rev, FALSE, item[p][k] = 0, NewId(p), TRUE)
                        ELSE Row(rev, FALSE, ~FALSE /\ outbox[p][k].localOnly, outbox[p][k].id, TRUE)
    BY <1>4 DEF upsertOutboxRow, IInv, TypeOK
  <2>2. CASE HasRow(p, k)
    <3>1. (~FALSE /\ outbox[p][k].localOnly) = outbox[p][k].localOnly
      BY <1>2 DEF IsRow
    <3> QED BY <2>1, <2>2, <3>1
  <2>3. CASE ~HasRow(p, k)
    BY <2>1, <2>3
  <2> QED BY <2>2, <2>3
<1>7. /\ outbox'[p][k].rev = rev /\ outbox'[p][k].deleted = FALSE /\ outbox'[p][k].id = id
      /\ outbox'[p][k].localOnly = lo /\ lo \in BOOLEAN
  <2>1. lo \in BOOLEAN
    BY <1>2 DEF IsRow
  <2> HIDE DEF lo
  <2> QED BY <1>6, <2>1 DEF Row
<1> HIDE DEF lo
<1>8. RowStep(p, k)
  <2>1. IsRow(outbox'[p][k])
    BY <1>7, <1>3 DEF IsRow
  <2>2. \A q \in Parts, j \in Keys : IsRow(outbox'[q][j])
    BY <2>1, <1>5 DEF IInv, TypeOK
  <2>3. /\ item' \in [Parts -> [Keys -> Nat]] /\ mark' \in [Parts -> Nat] /\ fences' \in [Parts -> [Parts -> Nat]]
        /\ \A q \in Parts, j \in Keys : (q # p \/ j # k) => item'[q][j] = item[q][j]
        /\ \A q \in Parts : mark'[q] >= mark[q] /\ fences'[q] = fences[q]
    BY <1>3, <1>4, SMTT(30) DEF IInv, TypeOK
  <2> QED BY <2>2, <2>3, <1>4, <1>5 DEF RowStep
<1>9. /\ Base(k)' = p /\ item'[p][k] = rev /\ Last(k)' = rev /\ Id' = Id /\ top' = top /\ calls' = calls
      /\ left' = left
  BY <1>1, <1>3, <1>4 DEF Base, Last, table, wire, receivers, Id, IInv, TypeOK
<1>10. RowInv(k)'
  <2>1. \A i \in Id : k \in DOMAIN calls[i].images => calls[i].images[k].rev <= Last(k) /\ calls[i].images[k].rev \in Nat
    BY <1>2, CallTypes DEF RowInv, IInv
  <2>2. /\ top[k].rev < rev /\ \A i \in Id : k \in DOMAIN calls[i].images => calls[i].images[k].rev < rev
    BY <2>1, <1>2, <1>3 DEF RowInv
  <2>3. lo => top[k].deleted
    BY <1>1, <1>2, Zenon DEF RowInv, lo, HasRow
  <2>4. \A i \in Id : k \in DOMAIN calls[i].images => calls[i].images[k].rev \in Nat
    BY <2>1
  <2> QED BY <2>2, <2>3, <2>4, <1>2, <1>3, <1>7, <1>9 DEF RowInv, UpTo
<1>11. ASSUME NEW i \in Id, k \in left[i], Open(i, k)
       PROVE  Kept(i, k)'
  <2>1. Kept(i, k)
    BY <1>2, <1>11
  <2>2. HasRow(p, k) /\ ~outbox[p][k].localOnly
    BY <2>1, <1>1 DEF Kept, HasRow
  <2>3. ~lo /\ id = outbox[p][k].id
    BY <2>2, <1>6 DEF lo
  <2>4. Protected(p, i, k)'
    BY <2>1, <2>3, <1>1, <1>4, <1>7 DEF Kept, Protected, table, wire
  <2> QED BY <2>1, <2>3, <2>4, <1>1, <1>3, <1>7, <1>9 DEF Kept, UpTo
<1> QED
  BY RowFrame, <1>8, <1>10, <1>11

(* captureDelete. *)
LEMMA DeleteStep ==
  ASSUME IInv, NEW p \in Parts, NEW k \in Keys, captureDelete(p, k)
  PROVE  IInv'
<1> DEFINE rev == item[p][k] + 1
           unseen == HasRow(p, k) /\ outbox[p][k].localOnly
<1>1. Base(k) = p /\ owner[k] = p /\ importing[p] = NoPart /\ item[p][k] # 0
  BY DEF captureDelete, canRun, owns, Base
<1>2. /\ RowInv(k) /\ Last(k) \in Nat /\ top[k].rev \in Nat /\ IsRow(outbox[p][k]) /\ item[p][k] \in Nat /\ mark[p] \in Nat
      /\ \A i \in Id : k \in left[i] /\ Open(i, k) => Kept(i, k)
  BY KeyFacts, <1>1
<1>3. rev \in Nat /\ rev > Last(k) /\ rev # 0
  BY <1>1, <1>2 DEF Last
<1>4. /\ item' = [item EXCEPT ![p][k] = 0] /\ mark' = [mark EXCEPT ![p] = Greater(@, rev)]
      /\ UNCHANGED <<table, epoch, callOpen, untilId, started, inFlight, wire, receivers>>
      /\ \/ unseen /\ outbox' = [outbox EXCEPT ![p][k] = NoRow] /\ dropDoneExportFences(p)
         \/ ~unseen /\ upsertOutboxRow(p, k, rev, TRUE, FALSE) /\ UNCHANGED fences
  BY DEF captureDelete
<1> HIDE DEF rev
<1>5. /\ DOMAIN outbox' = Parts /\ \A q \in Parts : DOMAIN outbox'[q] = Keys
      /\ \A q \in Parts, j \in Keys : (q # p \/ j # k) => outbox'[q][j] = outbox[q][j]
  <2>1. PICK r : outbox' = [outbox EXCEPT ![p][k] = r]
    BY <1>4 DEF upsertOutboxRow
  <2> QED BY <2>1 DEF IInv, TypeOK
<1>8. \/ outbox'[p][k].rev = 0 /\ unseen
      \/ /\ ~unseen /\ outbox'[p][k].rev = rev /\ outbox'[p][k].deleted = TRUE /\ outbox'[p][k].localOnly = FALSE
         /\ HasRow(p, k) => outbox'[p][k].id = outbox[p][k].id
  <2>1. CASE unseen
    <3>1. outbox'[p][k] = NoRow
      BY <1>4, <2>1 DEF IInv, TypeOK
    <3> QED BY <3>1, <2>1 DEF NoRow, Row
  <2>2. CASE ~unseen
    <3>1. PICK id : outbox'[p][k] = Row(rev, TRUE, FALSE, id, TRUE) /\ (HasRow(p, k) => id = outbox[p][k].id)
      <4>1. outbox'[p][k] = IF ~HasRow(p, k) THEN Row(rev, TRUE, FALSE, NewId(p), TRUE)
                            ELSE Row(rev, TRUE, ~TRUE /\ outbox[p][k].localOnly, outbox[p][k].id, TRUE)
        <5>1. upsertOutboxRow(p, k, rev, TRUE, FALSE) /\ k \in DOMAIN outbox[p] /\ p \in DOMAIN outbox
          BY <1>4, <2>2 DEF IInv, TypeOK
        <5> QED BY <5>1 DEF upsertOutboxRow
      <4>2. CASE HasRow(p, k)
        <5>1. (~TRUE /\ outbox[p][k].localOnly) = FALSE
          OBVIOUS
        <5> QED BY <4>1, <4>2, <5>1
      <4>3. CASE ~HasRow(p, k)
        BY <4>1, <4>3
      <4> QED BY <4>2, <4>3
    <3> QED BY <3>1, <2>2 DEF Row
  <2> QED BY <2>1, <2>2
<1>9. IsRow(outbox'[p][k])
  <2>1. CASE unseen
    <3>1. outbox'[p][k] = NoRow
      BY <1>4, <2>1 DEF IInv, TypeOK
    <3> QED BY <3>1 DEF NoRow, Row, IsRow
  <2>2. CASE ~unseen
    BY <2>2, <1>8, <1>3 DEF IsRow
  <2> QED BY <2>1, <2>2
<1>10. RowStep(p, k)
  <2>2. \A q \in Parts, j \in Keys : IsRow(outbox'[q][j])
    BY <1>5, <1>9 DEF IInv, TypeOK
  <2>3. /\ item' \in [Parts -> [Keys -> Nat]] /\ mark' \in [Parts -> Nat]
        /\ \A q \in Parts, j \in Keys : (q # p \/ j # k) => item'[q][j] = item[q][j]
        /\ \A q \in Parts : mark'[q] >= mark[q]
    <3>1. item' = [item EXCEPT ![p][k] = 0] /\ mark' = [mark EXCEPT ![p] = Greater(@, rev)]
      BY <1>4
    <3>2. item \in [Parts -> [Keys -> Nat]] /\ mark \in [Parts -> Nat]
      BY DEF IInv, TypeOK
    <3>3. Greater(mark[p], rev) \in Nat /\ Greater(mark[p], rev) >= mark[p]
      BY <1>2, <1>3 DEF Greater
    <3> QED BY <3>1, <3>2, <3>3
  <2>4. /\ fences' \in [Parts -> [Parts -> Nat]]
        /\ \A q \in Parts : \/ fences'[q] = fences[q]
                            \/ \A j \in Keys : outbox'[q][j].rev # 0 => ~(outbox'[q][j].id <= untilId[q])
    <3>1. CASE fences' = fences
      BY <3>1 DEF IInv, TypeOK
    <3>2. CASE dropDoneExportFences(p)
      BY <3>2 DEF dropDoneExportFences, IInv, TypeOK
    <3> QED BY <3>1, <3>2, <1>4
  <2> QED BY <2>2, <2>3, <2>4, <1>4, <1>5 DEF RowStep
<1>11. /\ Base(k)' = p /\ item'[p][k] = 0 /\ mark'[p] >= rev /\ Last(k)' = mark'[p] /\ Id' = Id /\ top' = top
       /\ calls' = calls /\ left' = left /\ mark'[p] \in Nat
  BY <1>1, <1>2, <1>3, <1>4 DEF Base, Last, table, wire, receivers, Id, IInv, TypeOK, Greater
<1>12. RowInv(k)'
  <2>1. \A i \in Id : k \in DOMAIN calls[i].images => calls[i].images[k].rev <= Last(k) /\ calls[i].images[k].rev \in Nat
    BY <1>2, CallTypes DEF RowInv, IInv
  <2>2. /\ top[k].rev < rev /\ \A i \in Id : k \in DOMAIN calls[i].images => calls[i].images[k].rev < rev
    BY <2>1, <1>2, <1>3 DEF RowInv
  <2>3. unseen => top[k].deleted
    BY <1>1, <1>2, Zenon DEF RowInv, HasRow
  <2>4. \A i \in Id : k \in DOMAIN calls[i].images => calls[i].images[k].rev \in Nat
    BY <2>1
  <2> HIDE DEF unseen
  <2>5. CASE outbox'[p][k].rev = 0 /\ unseen
    BY <2>5, <2>2, <2>3, <2>4, <1>2, <1>3, <1>11 DEF RowInv
  <2>6. CASE outbox'[p][k].rev = rev /\ outbox'[p][k].deleted = TRUE /\ outbox'[p][k].localOnly = FALSE
    BY <2>6, <2>2, <2>4, <1>2, <1>3, <1>11 DEF RowInv, UpTo
  <2> QED BY <2>5, <2>6, <1>8
<1>13. ASSUME NEW i \in Id, k \in left[i], Open(i, k)
       PROVE  Kept(i, k)'
  <2>1. Kept(i, k)
    BY <1>2, <1>13
  <2>2. HasRow(p, k) /\ ~outbox[p][k].localOnly
    BY <2>1, <1>1 DEF Kept, HasRow
  <2>3. /\ outbox'[p][k].rev = rev /\ outbox'[p][k].localOnly = FALSE /\ outbox'[p][k].id = outbox[p][k].id
        /\ fences' = fences
    BY <2>2, <1>8, <1>4
  <2>4. Protected(p, i, k)'
    BY <2>1, <2>3, <1>1, <1>4 DEF Kept, Protected, table, wire
  <2> QED BY <2>1, <2>3, <2>4, <1>1, <1>3, <1>11 DEF Kept, UpTo
<1> QED
  BY RowFrame, <1>10, <1>12, <1>13

(***************************************************************************)
(* The claim.                                                              *)
(***************************************************************************)
(* The rows after a claim of K. *)
LEMMA ClaimedRows ==
  ASSUME TypeOK, NEW p \in Parts, NEW K \in SUBSET Keys, claimRows(p, K)
  PROVE  /\ DOMAIN outbox' = Parts /\ \A q \in Parts : DOMAIN outbox'[q] = Keys
         /\ \A q \in Parts, j \in Keys :
              /\ IsRow(outbox'[q][j]) /\ outbox'[q][j].rev = outbox[q][j].rev
              /\ outbox'[q][j].deleted = outbox[q][j].deleted /\ outbox'[q][j].id = outbox[q][j].id
              /\ outbox'[q][j].localOnly = (outbox[q][j].localOnly /\ ~(q = p /\ j \in K))
<1>1. DOMAIN outbox = Parts /\ \A q \in Parts : DOMAIN outbox[q] = Keys /\ \A j \in Keys : IsRow(outbox[q][j])
  BY DEF TypeOK
<1>2. DOMAIN outbox' = Parts /\ \A q \in Parts : DOMAIN outbox'[q] = Keys
  BY <1>1 DEF claimRows
<1>3. ASSUME NEW q \in Parts, NEW j \in Keys
      PROVE  \/ SameRow(outbox'[q][j], outbox[q][j]) /\ ~(q = p /\ j \in K)
             \/ outbox'[q][j] = Exported(outbox[q][j]) /\ q = p /\ j \in K
  <2>1. CASE q # p
    BY <2>1, <1>1 DEF claimRows, SameRow
  <2>2. CASE q = p
    <3>1. outbox'[p][j] = IF j \in K THEN Exported(outbox[p][j])
                          ELSE IF ~owns(p, j) /\ outbox[p][j].due THEN Attempted(outbox[p][j], FALSE)
                          ELSE outbox[p][j]
      BY <1>1 DEF claimRows
    <3>2. SameRow(Attempted(outbox[p][j], FALSE), outbox[p][j]) /\ SameRow(outbox[p][j], outbox[p][j])
      BY DEF SameRow, Attempted, Row
    <3> QED BY <3>1, <3>2, <2>2
  <2> QED BY <2>1, <2>2
<1>4. ASSUME NEW q \in Parts, NEW j \in Keys
      PROVE  /\ IsRow(outbox'[q][j]) /\ outbox'[q][j].rev = outbox[q][j].rev
             /\ outbox'[q][j].deleted = outbox[q][j].deleted /\ outbox'[q][j].id = outbox[q][j].id
             /\ outbox'[q][j].localOnly = (outbox[q][j].localOnly /\ ~(q = p /\ j \in K))
  <2>0. IsRow(outbox[q][j])
    BY <1>1
  <2>1. CASE SameRow(outbox'[q][j], outbox[q][j]) /\ ~(q = p /\ j \in K)
    BY <2>0, <2>1 DEF SameRow, IsRow
  <2>2. CASE outbox'[q][j] = Exported(outbox[q][j]) /\ q = p /\ j \in K
    <3>1. /\ Exported(outbox[q][j]).rev = outbox[q][j].rev /\ Exported(outbox[q][j]).deleted = outbox[q][j].deleted
          /\ Exported(outbox[q][j]).localOnly = FALSE /\ Exported(outbox[q][j]).id = outbox[q][j].id
      BY DEF Exported, Row
    <3>2. IsRow(Exported(outbox[q][j]))
      BY <2>0, <3>1 DEF IsRow
    <3> QED BY <2>0, <2>2, <3>1, <3>2
  <2> QED BY <1>3, <2>1, <2>2
<1> QED
  BY <1>2, <1>4

(* The epoch of the next call is above the epoch of each call that a restart forgot. *)
LEMMA ClaimEpochs ==
  ASSUME IInv, NEW p \in Parts
  PROVE  /\ claimEpoch(p) \in Nat /\ epoch[p] \in Nat /\ claimEpoch(p) >= epoch[p]
         /\ ~started[p] /\ callOpen[p] => claimEpoch(p) > epoch[p]
BY DEF claimEpoch, IInv, TypeOK

(* A claim of nothing. *)
LEMMA EmptyClaim ==
  ASSUME IInv, NEW p \in Parts, claim(p, {})
  PROVE  IInv'
<1> USE DEF table, wire, receivers
<1>0. /\ owner' = owner /\ importing' = importing /\ router' = router /\ made' = made /\ item' = item /\ mark' = mark
      /\ callOpen' = callOpen /\ fences' = fences /\ untilId' = untilId
      /\ started' = [started EXCEPT ![p] = TRUE] /\ epoch' = [epoch EXCEPT ![p] = claimEpoch(p)]
      /\ inFlight' = inFlight /\ calls' = calls /\ left' = left /\ answer' = answer /\ matOwner' = matOwner
      /\ matImporting' = matImporting /\ image' = image /\ seen' = seen /\ top' = top
  BY DEF claim
<1>1. \A k \in Keys : Base(k) \in Parts /\ Base(k)' = Base(k) /\ Last(k)' = Last(k) /\ Holder(k)' = Holder(k)
  BY <1>0, Places DEF Base, Last, Holder, IInv
<1>2. DOMAIN outbox' = Parts /\ (\A q \in Parts : DOMAIN outbox'[q] = Keys)
      /\ \A q \in Parts, k \in Keys : SameRow(outbox'[q][k], outbox[q][k]) /\ IsRow(outbox'[q][k])
  <2>1. claimRows(p, {}) /\ {} \in SUBSET Keys /\ TypeOK
    BY DEF claim, IInv
  <2>2. /\ DOMAIN outbox' = Parts /\ \A q \in Parts : DOMAIN outbox'[q] = Keys
        /\ \A q \in Parts, j \in Keys :
              /\ IsRow(outbox'[q][j]) /\ outbox'[q][j].rev = outbox[q][j].rev
              /\ outbox'[q][j].deleted = outbox[q][j].deleted /\ outbox'[q][j].id = outbox[q][j].id
              /\ outbox'[q][j].localOnly = (outbox[q][j].localOnly /\ ~(q = p /\ j \in {}))
    BY <2>1, ClaimedRows
  <2>3. \A q \in Parts, j \in Keys : outbox[q][j].localOnly \in BOOLEAN
    BY <2>1 DEF TypeOK, IsRow
  <2> QED BY <2>2, <2>3 DEF SameRow
<1>3. \A i, k : Open(i, k)' = Open(i, k)
  BY <1>0 DEF Open, Holder
<1>4. Id' = Id /\ \A i, j \in Id : Covers(j, i)' = Covers(j, i)
  BY <1>0 DEF Id, Covers
<1>e. /\ \A q \in Parts : epoch'[q] \in Nat /\ epoch[q] \in Nat /\ epoch'[q] >= epoch[q]
      /\ ~started[p] /\ callOpen[p] => epoch'[p] > epoch[p]
      /\ started'[p] = TRUE /\ \A q \in Parts : q # p => epoch'[q] = epoch[q] /\ started'[q] = started[q]
      /\ epoch' \in [Parts -> Nat] /\ started' \in [Parts -> BOOLEAN]
  <2>1. epoch \in [Parts -> Nat] /\ started \in [Parts -> BOOLEAN]
    BY DEF IInv, TypeOK
  <2>2. /\ claimEpoch(p) \in Nat /\ epoch[p] \in Nat /\ claimEpoch(p) >= epoch[p]
        /\ ~started[p] /\ callOpen[p] => claimEpoch(p) > epoch[p]
    BY ClaimEpochs
  <2>3. epoch' = [epoch EXCEPT ![p] = claimEpoch(p)] /\ started' = [started EXCEPT ![p] = TRUE]
    BY <1>0
  <2> QED BY <2>1, <2>2, <2>3
<1>5. TypeOK'
  BY <1>0, <1>2, <1>e DEF IInv, TypeOK, Id
<1>6. PartsInv'
  BY <1>0 DEF IInv, PartsInv, Id
<1>7. CallsInv'
  <2>1. \A i \in Id : calls[i].from \in Parts /\ calls[i].epoch \in Nat
    BY CallTypes DEF IInv
  <2>2. \A i \in Id : calls[i].epoch <= epoch'[calls[i].from]
    BY <2>1, <1>e DEF IInv, CallsInv
  <2>3. \A q \in Parts : started[q] => started'[q]
    BY <1>e
  <2> QED BY <2>2, <2>3, <1>0, <1>3, <1>4 DEF IInv, CallsInv, UpTo
<1>8. RowsInv'
  <2> SUFFICES ASSUME NEW k \in Keys
               PROVE  RowInv(k)'
    BY DEF RowsInv
  <2>1. SameRow(outbox'[Base(k)][k], outbox[Base(k)][k]) /\ Base(k)' = Base(k) /\ Last(k)' = Last(k) /\ Base(k) \in Parts
    BY <1>1, <1>2
  <2>2. RowInv(k)
    BY DEF IInv, RowsInv
  <2> QED BY <2>1, <2>2, <1>0, <1>4 DEF RowInv, SameRow, UpTo
<1>9. OpenInv'
  <2> SUFFICES ASSUME NEW i \in Id, NEW k \in left[i], Open(i, k)
               PROVE  Kept(i, k)'
    BY <1>0, <1>3, <1>4 DEF OpenInv
  <2>1. k \in Keys /\ calls[i].from \in Parts /\ calls[i].epoch \in Nat /\ calls[i].epoch <= epoch[calls[i].from]
    BY CallTypes DEF IInv, CallsInv
  <2>2. SameRow(outbox'[Base(k)][k], outbox[Base(k)][k]) /\ Base(k)' = Base(k) /\ Base(k) \in Parts
    BY <1>1, <1>2, <2>1
  <2>3. Kept(i, k)
    BY DEF IInv, OpenInv
  <2>4. Protected(Base(k), i, k) => Protected(Base(k), i, k)'
    <3>1. CASE Base(k) = p /\ calls[i].from = p
      BY <3>1, <2>1, <2>2, <1>0, <1>e DEF Protected
    <3>2. CASE Base(k) # p /\ calls[i].from = Base(k)
      BY <3>2, <2>1, <2>2, <1>0, <1>e DEF Protected
    <3>3. CASE calls[i].from # Base(k)
      BY <3>3, <2>1, <2>2, <1>0 DEF Protected, SameRow
    <3> QED BY <3>1, <3>2, <3>3
  <2> QED BY <2>2, <2>3, <2>4, <1>0 DEF Kept, SameRow, UpTo
<1>10. NothingComesBack'
  BY <1>0 DEF IInv, NothingComesBack, Holder
<1> QED
  BY <1>5, <1>6, <1>7, <1>8, <1>9, <1>10 DEF IInv

(* A claim of the keys K: the call that it sends closes every open image of these keys. *)
LEMMA CallStep ==
  ASSUME IInv, NEW p \in Parts, NEW K \in SUBSET Keys, K # {}, claim(p, K)
  PROVE  IInv'
<1> USE DEF table, wire, receivers
<1>n. PICK n : n = Len(calls) + 1
  OBVIOUS
<1>c. PICK c : c =
          [from |-> p, epoch |-> claimEpoch(p), fences |-> fences[p],
           images |-> [k \in K |-> [rev |-> outbox[p][k].rev, deleted |-> outbox[p][k].deleted]]]
  OBVIOUS
<1> DEFINE none == [k \in K |-> "none"]
<1>0. /\ owner' = owner /\ importing' = importing /\ router' = router /\ made' = made /\ item' = item /\ mark' = mark
      /\ fences' = fences /\ untilId' = untilId /\ matOwner' = matOwner
      /\ matImporting' = matImporting /\ image' = image /\ seen' = seen /\ top' = top
  BY DEF claim
<1>0a. /\ started' = [started EXCEPT ![p] = TRUE] /\ epoch' = [epoch EXCEPT ![p] = claimEpoch(p)]
       /\ callOpen' = [callOpen EXCEPT ![p] = TRUE] /\ inFlight' = [inFlight EXCEPT ![p] = @ \cup {n}]
       /\ claimRows(p, K)
  BY <1>n DEF claim
<1>0b. calls' = Append(calls, c) /\ left' = Append(left, K) /\ answer' = Append(answer, none)
  BY <1>c DEF claim
<1>0c. importing[p] = NoPart /\ \A k \in K : Claimable(p, k)
  BY DEF claim, canRun
<1>T. TypeOK
  BY DEF IInv
<1>1. \A k \in Keys : Base(k) \in Parts /\ Base(k)' = Base(k) /\ Last(k)' = Last(k) /\ Holder(k)' = Holder(k)
  BY <1>0, <1>T, Places DEF Base, Last, Holder
<1>K. ASSUME NEW k \in K
      PROVE  /\ k \in Keys /\ Base(k) = p /\ owner[k] = p /\ outbox[p][k].rev # 0 /\ IsRow(outbox[p][k])
             /\ \A i \in inFlight[p] : k \notin DOMAIN calls[i].images
  <2>1. k \in Keys /\ Claimable(p, k)
    BY <1>0c
  <2> QED BY <2>1, <1>0c, <1>T DEF Claimable, owns, HasRow, InFlightHas, Base, TypeOK
<1>2. /\ DOMAIN outbox' = Parts /\ \A q \in Parts : DOMAIN outbox'[q] = Keys
      /\ \A q \in Parts, j \in Keys :
            /\ IsRow(outbox'[q][j]) /\ outbox'[q][j].rev = outbox[q][j].rev
            /\ outbox'[q][j].deleted = outbox[q][j].deleted /\ outbox'[q][j].id = outbox[q][j].id
            /\ outbox'[q][j].localOnly = (outbox[q][j].localOnly /\ ~(q = p /\ j \in K))
  BY <1>0a, <1>T, ClaimedRows
<1>e. /\ \A q \in Parts : epoch'[q] \in Nat /\ epoch[q] \in Nat /\ epoch'[q] >= epoch[q]
      /\ ~started[p] /\ callOpen[p] => epoch'[p] > epoch[p]
      /\ epoch'[p] = claimEpoch(p) /\ claimEpoch(p) \in Nat
      /\ started'[p] = TRUE /\ callOpen'[p] = TRUE
      /\ \A q \in Parts : q # p => /\ epoch'[q] = epoch[q] /\ started'[q] = started[q]
                                   /\ callOpen'[q] = callOpen[q] /\ inFlight'[q] = inFlight[q]
      /\ inFlight'[p] = inFlight[p] \cup {n}
      /\ epoch' \in [Parts -> Nat] /\ started' \in [Parts -> BOOLEAN] /\ callOpen' \in [Parts -> BOOLEAN]
  <2>1. /\ epoch \in [Parts -> Nat] /\ started \in [Parts -> BOOLEAN] /\ callOpen \in [Parts -> BOOLEAN]
        /\ inFlight \in [Parts -> SUBSET Nat]
    BY <1>T DEF TypeOK
  <2>2. /\ claimEpoch(p) \in Nat /\ epoch[p] \in Nat /\ claimEpoch(p) >= epoch[p]
        /\ ~started[p] /\ callOpen[p] => claimEpoch(p) > epoch[p]
    BY ClaimEpochs
  <2> QED BY <2>1, <2>2, <1>0a
<1>3. c \in Call /\ none \in Answer
  <2>1. \A k \in K : [rev |-> outbox[p][k].rev, deleted |-> outbox[p][k].deleted] \in Images
    BY <1>K DEF IsRow, Images
  <2>2. c.images \in [K -> Images] /\ fences[p] \in [Parts -> Nat] /\ claimEpoch(p) \in Nat
    BY <2>1, <1>c, <1>e, <1>T DEF TypeOK
  <2>3. c.images \in UNION {[L -> Images] : L \in SUBSET Keys}
    BY <2>2
  <2>4. none \in [K -> Outcomes]
    BY DEF Outcomes
  <2> QED BY <2>2, <2>3, <2>4, <1>c DEF Call, Answer
<1>4. /\ calls' \in Seq(Call) /\ left' \in Seq(SUBSET Keys) /\ answer' \in Seq(Answer)
      /\ Len(left') = Len(calls') /\ Len(answer') = Len(calls')
      /\ Id' = Id \cup {n} /\ n \notin Id /\ n \in Nat
      /\ \A i \in Id : i \in Nat /\ i < n /\ calls'[i] = calls[i] /\ left'[i] = left[i] /\ answer'[i] = answer[i]
      /\ calls'[n] = c /\ left'[n] = K /\ answer'[n] = none
  <2>1. calls \in Seq(Call) /\ left \in Seq(SUBSET Keys) /\ answer \in Seq(Answer)
        /\ Len(left) = Len(calls) /\ Len(answer) = Len(calls)
    BY <1>T DEF TypeOK
  <2> HIDE DEF none
  <2> QED BY <2>1, <1>3, <1>0b, <1>n DEF Id
<1>5. /\ c.from = p /\ c.epoch = claimEpoch(p) /\ c.fences = fences[p] /\ DOMAIN c.images = K
      /\ \A k \in K : c.images[k].rev = outbox[p][k].rev /\ c.images[k].deleted = outbox[p][k].deleted
      /\ DOMAIN none = K /\ \A k \in K : none[k] = "none"
  BY <1>c
<1> HIDE DEF none
<1>6. ASSUME NEW i \in Id
      PROVE  /\ calls[i].from \in Parts /\ calls[i].epoch \in Nat /\ DOMAIN calls[i].images \subseteq Keys
             /\ left[i] \subseteq DOMAIN calls[i].images /\ DOMAIN answer[i] = DOMAIN calls[i].images
             /\ calls[i].epoch <= epoch[calls[i].from]
             /\ \A k \in DOMAIN calls[i].images : calls[i].images[k].rev \in Nat
             /\ \A k : Open(i, k)' = Open(i, k)
  <2>1. calls[i].epoch <= epoch[calls[i].from]
    BY DEF IInv, CallsInv
  <2>2. \A k : Open(i, k)' = Open(i, k)
    BY <1>0, <1>4 DEF Open, Holder
  <2> QED BY <2>1, <2>2, <1>T, CallTypes
<1>7. TypeOK'
  <2>1. inFlight' \in [Parts -> SUBSET Nat]
    BY <1>4, <1>0a, <1>T DEF TypeOK
  <2>2. \A i \in Id' : left'[i] \subseteq DOMAIN calls'[i].images /\ DOMAIN answer'[i] = DOMAIN calls'[i].images
    BY <1>4, <1>5, <1>6
  <2> QED BY <2>1, <2>2, <1>0, <1>2, <1>4, <1>e, <1>T DEF TypeOK
<1>8. PartsInv'
  <2>1. PICK k \in K : TRUE
    OBVIOUS
  <2>2. p \in made
    BY <2>1, <1>K DEF IInv, PartsInv
  <2>3. PartsInv
    BY DEF IInv
  <2>4. \A i \in Id' : calls'[i].from \in made
    BY <2>2, <2>3, <1>4, <1>5 DEF PartsInv
  <2>5. \A q \in Parts : importing[q] # NoPart => \A i \in Id' : calls'[i].from # q
    BY <2>3, <1>0c, <1>4, <1>5 DEF PartsInv
  <2> QED BY <2>3, <2>4, <2>5, <1>0 DEF PartsInv
<1>9. ASSUME NEW i \in Id, NEW k \in K, Open(i, k)
      PROVE  Covers(n, i)'
  <2>1. k \in left[i] /\ k \in DOMAIN calls[i].images /\ k \in Keys
    BY <1>9, <1>6, <1>K DEF Open
  <2>2. Protected(p, i, k)
    BY <2>1, <1>9, <1>K DEF IInv, OpenInv, Kept
  <2>3. i \notin inFlight[p]
    BY <2>1, <1>K
  <2>4. CASE calls[i].from = p
    <3>1. calls[i].epoch < epoch'[p]
      BY <2>2, <2>3, <2>4, <1>6, <1>e DEF Protected
    <3> QED BY <3>1, <2>4, <1>4, <1>5, <1>e DEF Covers
  <2>5. CASE calls[i].from # p
    BY <2>2, <2>5, <1>4, <1>5 DEF Covers, Protected
  <2> QED BY <2>4, <2>5
<1>10. CallsInv'
  <2>0. CallsInv
    BY DEF IInv
  <2>1. \A i \in Id' : calls'[i].epoch <= epoch'[calls'[i].from]
    <3>1. \A i \in Id : calls[i].epoch <= epoch'[calls[i].from]
      BY <1>6, <1>e
    <3>2. calls'[n].epoch <= epoch'[calls'[n].from]
      BY <1>4, <1>5, <1>e
    <3>3. \A i \in Id : calls'[i] = calls[i]
      BY <1>4
    <3>4. Id' = Id \cup {n}
      BY <1>4
    <3> QED BY <3>1, <3>2, <3>3, <3>4
  <2>2. \A i \in Id' : \A k \in DOMAIN calls'[i].images :
            calls'[i].images[k].rev # 0 /\ (k \in left'[i] => answer'[i][k] \in {"none", "unknown"})
    <3>1. \A i \in Id : \A k \in DOMAIN calls[i].images :
            calls[i].images[k].rev # 0 /\ (k \in left[i] => answer[i][k] \in {"none", "unknown"})
      BY <2>0 DEF CallsInv
    <3>2. \A k \in K : c.images[k].rev # 0 /\ none[k] = "none"
      BY <1>5, <1>K
    <3>3. /\ Id' = Id \cup {n} /\ calls'[n] = c /\ left'[n] = K /\ answer'[n] = none /\ DOMAIN c.images = K
          /\ \A i \in Id : calls'[i] = calls[i] /\ left'[i] = left[i] /\ answer'[i] = answer[i]
      BY <1>4, <1>5
    <3> QED BY <3>1, <3>2, <3>3
  <2>3. \A q \in Parts : \A i \in inFlight'[q] : i \in Id' /\ calls'[i].from = q /\ started'[q] /\ callOpen'[q]
    <3>1. \A q \in Parts : \A i \in inFlight[q] : i \in Id /\ calls[i].from = q /\ started[q] /\ callOpen[q]
      BY <2>0 DEF CallsInv
    <3>2. \A i \in Id : calls'[i] = calls[i] /\ i \in Id'
      BY <1>4
    <3>3. calls'[n].from = p /\ n \in Id'
      BY <1>4, <1>5
    <3>4. /\ started'[p] = TRUE /\ callOpen'[p] = TRUE /\ inFlight'[p] = inFlight[p] \cup {n}
          /\ \A q \in Parts : q # p => /\ started'[q] = started[q] /\ callOpen'[q] = callOpen[q]
                                       /\ inFlight'[q] = inFlight[q]
      BY <1>e
    <3> QED BY <3>1, <3>2, <3>3, <3>4
  <2>4. ASSUME NEW q \in Parts, NEW i \in inFlight'[q], NEW k \in DOMAIN calls'[i].images, owner[k] = q
        PROVE  /\ \A j \in Id' : j > i => k \notin DOMAIN calls'[j].images
               /\ answer'[i][k] = "acknowledged" => /\ top[k].rev >= calls'[i].images[k].rev
                                                    /\ \A j \in Id' : ~Open(j, k)'
    <3>1. CASE i = n
      BY <3>1, <1>4, <1>5
    <3>2. CASE i # n
      <4>1. i \in inFlight[q] /\ i \in Id
        BY <3>2, <1>e, <2>0 DEF CallsInv
      <4>2. k \in DOMAIN calls[i].images
        BY <4>1, <1>4
      <4>3. k \notin K
        BY <4>1, <4>2, <1>K, <2>4
      <4>4. \A j \in Id : j > i => k \notin DOMAIN calls[j].images
        BY <4>1, <4>2, <2>0, <2>4 DEF CallsInv
      <4>5. answer[i][k] = "acknowledged" => top[k].rev >= calls[i].images[k].rev /\ \A j \in Id : ~Open(j, k)
        BY <4>1, <4>2, <2>0, <2>4 DEF CallsInv
      <4>6. ~Open(n, k)'
        BY <4>3, <1>4 DEF Open
      <4> QED BY <4>1, <4>3, <4>4, <4>5, <4>6, <1>4, <1>5, <1>6, SMTT(30)
    <3> QED BY <3>1, <3>2
  <2>5. ASSUME NEW i \in Id', NEW j \in Id', NEW k \in DOMAIN calls'[i].images \cap DOMAIN calls'[j].images, i < j
        PROVE  UpTo(calls'[i].images[k], calls'[j].images[k]) /\ (Open(i, k)' => Covers(j, i)')
    <3>1. i \in Id /\ i \in Nat
      BY <1>4, <2>5
    <3>2. CASE j \in Id
      <4>1. UpTo(calls[i].images[k], calls[j].images[k]) /\ (Open(i, k) => Covers(j, i))
        BY <3>1, <3>2, <2>0, <2>5, <1>4 DEF CallsInv
      <4>2. Covers(j, i)' = Covers(j, i)
        BY <3>1, <3>2, <1>4 DEF Covers
      <4> QED BY <4>1, <4>2, <3>1, <3>2, <1>4, <1>6
    <3>3. CASE j = n
      <4>1. k \in K /\ k \in DOMAIN calls[i].images
        BY <3>1, <3>3, <1>4, <1>5
      <4>2. UpTo(calls[i].images[k], outbox[p][k])
        BY <4>1, <3>1, <1>K DEF IInv, RowsInv, RowInv
      <4>3. UpTo(calls'[i].images[k], calls'[j].images[k])
        BY <4>1, <4>2, <3>1, <3>3, <1>4, <1>5 DEF UpTo
      <4> QED BY <4>1, <4>3, <3>1, <3>3, <1>6, <1>9
    <3> QED BY <3>2, <3>3, <1>4
  <2>6. \A q \in Parts : \A i \in inFlight'[q] : \A k \in DOMAIN calls'[i].images : owner'[k] = q =>
          /\ \A j \in Id' : j > i => k \notin DOMAIN calls'[j].images
          /\ answer'[i][k] = "acknowledged" => /\ top'[k].rev >= calls'[i].images[k].rev
                                               /\ \A j \in Id' : ~Open(j, k)'
    BY <2>4, <1>0
  <2> QED BY <2>1, <2>2, <2>3, <2>5, <2>6 DEF CallsInv
<1>11. RowsInv'
  <2> SUFFICES ASSUME NEW k \in Keys
               PROVE  RowInv(k)'
    BY DEF RowsInv
  <2> DEFINE b == Base(k)
  <2>1. Base(k)' = b /\ Last(k)' = Last(k) /\ b \in Parts /\ RowInv(k) /\ Last(k) \in Nat
        /\ outbox[b][k].rev \in Nat
    BY <1>1, KeyFacts DEF IsRow
  <2>2. /\ outbox'[b][k].rev = outbox[b][k].rev /\ outbox'[b][k].deleted = outbox[b][k].deleted
        /\ outbox'[b][k].localOnly => outbox[b][k].localOnly
    BY <2>1, <1>2, Zenon
  <2>3. \A i \in Id' : k \in DOMAIN calls'[i].images =>
          /\ calls'[i].images[k].rev <= Last(k)
          /\ outbox[b][k].rev # 0 => UpTo(calls'[i].images[k], outbox[b][k])
    <3>1. ASSUME NEW i \in Id, k \in DOMAIN calls[i].images
          PROVE  calls[i].images[k].rev <= Last(k) /\ (outbox[b][k].rev # 0 => UpTo(calls[i].images[k], outbox[b][k]))
      BY <2>1, <3>1 DEF RowInv
    <3>2. CASE k \in K
      <4>1. b = p
        BY <3>2, <1>K
      <4>2. outbox[b][k].rev <= Last(k)
        BY <2>1 DEF RowInv
      <4>3. calls'[n].images[k].rev <= Last(k) /\ UpTo(calls'[n].images[k], outbox[b][k])
        BY <4>1, <4>2, <2>1, <3>2, <1>4, <1>5 DEF UpTo
      <4> QED BY <4>3, <3>1, <1>4
    <3>3. CASE k \notin K
      BY <3>1, <3>3, <1>4, <1>5
    <3> QED BY <3>2, <3>3
  <2> HIDE DEF b
  <2>4. RowInv(k)
    BY <2>1
  <2> QED BY <2>1, <2>2, <2>3, <1>0 DEF RowInv, UpTo, b
<1>12. OpenInv'
  <2> SUFFICES ASSUME NEW i \in Id', NEW k \in left'[i], Open(i, k)'
               PROVE  Kept(i, k)'
    BY DEF OpenInv
  <2>1. CASE i = n
    <3>1. k \in K /\ k \in Keys /\ Base(k) = p /\ Base(k)' = p /\ outbox[p][k].rev # 0
      BY <2>1, <1>1, <1>4, <1>K
    <3>2. outbox'[p][k].rev # 0 /\ ~outbox'[p][k].localOnly
      BY <3>1, <1>2, Zenon
    <3>3. Protected(p, n, k)'
      BY <3>1, <1>0, <1>0c, <1>4, <1>5, <1>e, <1>K DEF Protected
    <3>4. UpTo(top[k], outbox[p][k])
      BY <3>1 DEF IInv, RowsInv, RowInv
    <3>5. UpTo(top'[k], calls'[n].images[k])
      BY <3>1, <3>4, <1>0, <1>4, <1>5 DEF UpTo
    <3> QED BY <2>1, <3>1, <3>2, <3>3, <3>5 DEF Kept
  <2>2. CASE i \in Id
    <3>1. k \in left[i] /\ k \in Keys /\ Open(i, k) /\ k \in DOMAIN calls[i].images
      BY <2>2, <1>4, <1>6
    <3>a. PICK b : b = Base(k)
      OBVIOUS
    <3>2. Kept(i, k) /\ Base(k)' = b /\ b \in Parts
      BY <3>1, <3>a, <2>2, <1>1 DEF IInv, OpenInv
    <3>3. outbox'[b][k].rev # 0 /\ ~outbox'[b][k].localOnly /\ outbox'[b][k].id = outbox[b][k].id
      <4>1. outbox[b][k].rev # 0 /\ ~outbox[b][k].localOnly
        BY <3>2, <3>a DEF Kept
      <4> QED BY <4>1, <3>1, <3>2, <1>2, Zenon
    <3>4. Protected(b, i, k)'
      <4>1. Protected(b, i, k)
        BY <3>2, <3>a DEF Kept
      <4>2. CASE calls[i].from = b /\ b = p
        BY <4>1, <4>2, <2>2, <1>0, <1>4, <1>6, <1>e DEF Protected
      <4>3. CASE calls[i].from = b /\ b # p
        BY <4>1, <4>3, <3>2, <2>2, <1>0, <1>4, <1>e DEF Protected
      <4>4. CASE calls[i].from # b
        BY <4>1, <4>4, <3>2, <3>3, <2>2, <1>0, <1>4 DEF Protected
      <4> QED BY <4>2, <4>3, <4>4
    <3>5. UpTo(top'[k], calls'[i].images[k])
      BY <3>2, <2>2, <1>0, <1>4 DEF Kept
    <3> QED BY <3>2, <3>3, <3>4, <3>5 DEF Kept
  <2> QED BY <2>1, <2>2, <1>4
<1>13. NothingComesBack'
  BY <1>0 DEF IInv, NothingComesBack, Holder
<1> QED
  BY <1>7, <1>8, <1>10, <1>11, <1>12, <1>13 DEF IInv

(***************************************************************************)
(* The end of a call at its sender.                                        *)
(***************************************************************************)
\* The row of key k at p goes: the image of call i was acknowledged at its revision.
Gone(p, i, k) ==
  /\ k \in DOMAIN calls[i].images /\ owner[k] = p /\ importing[p] = NoPart
  /\ answer[i][k] = "acknowledged" /\ outbox[p][k].rev = calls[i].images[k].rev
  /\ outbox'[p][k].rev = 0

AnswerStep(p, i) ==
  /\ UNCHANGED <<table, item, mark, untilId, started, wire, receivers>>
  /\ i \in inFlight[p] /\ inFlight' = [inFlight EXCEPT ![p] = @ \ {i}]
  /\ DOMAIN outbox' = Parts /\ \A q \in Parts : DOMAIN outbox'[q] = Keys
  /\ \A q \in Parts, k \in Keys : IsRow(outbox'[q][k])
  /\ \A q \in Parts, k \in Keys : SameRow(outbox'[q][k], outbox[q][k]) \/ (q = p /\ Gone(p, i, k))
  /\ fences' \in [Parts -> [Parts -> Nat]] /\ epoch' \in [Parts -> Nat] /\ callOpen' \in [Parts -> BOOLEAN]
  /\ \A q \in Parts : \/ fences'[q] = fences[q]
                      \/ \A j \in Keys : outbox'[q][j].rev # 0 => ~(outbox'[q][j].id <= untilId[q])
  /\ \A q \in Parts : epoch'[q] >= epoch[q] /\ (q # p => callOpen'[q] = callOpen[q])
  /\ callOpen'[p] = callOpen[p] \/ inFlight'[p] = {}
  /\ \A k \in left[i] : owner[k] = p /\ importing[p] = NoPart => epoch'[p] > calls[i].epoch

(* What complete does. *)
LEMMA CompleteIsAnswer ==
  ASSUME IInv, NEW p \in Parts, NEW i \in Id, NEW known \in BOOLEAN, complete(p, i, known)
  PROVE  AnswerStep(p, i)
<1>0. /\ UNCHANGED <<table, item, mark, untilId, started, wire, receivers>>
      /\ i \in inFlight[p] /\ inFlight' = [inFlight EXCEPT ![p] = @ \ {i}]
  BY DEF complete, store
<1>1. /\ DOMAIN outbox = Parts /\ \A q \in Parts : DOMAIN outbox[q] = Keys
      /\ \A q \in Parts, k \in Keys : IsRow(outbox[q][k])
      /\ fences \in [Parts -> [Parts -> Nat]] /\ epoch \in [Parts -> Nat] /\ callOpen \in [Parts -> BOOLEAN]
      /\ inFlight \in [Parts -> SUBSET Nat]
  BY DEF IInv, TypeOK
<1>2. \A r : SameRow(r, r)
  BY DEF SameRow
<1>3. calls[i].epoch \in Nat /\ calls[i].epoch <= epoch[p] /\ calls[i].from = p
      /\ left[i] \subseteq DOMAIN answer[i]
      /\ \A k \in left[i] : k \in Keys /\ answer[i][k] \in {"none", "unknown"}
  BY <1>0, CallTypes DEF IInv, CallsInv
<1>4. CASE ~canRun(p)
  <2>1. UNCHANGED <<store>>
    BY <1>4 DEF complete
  <2>2. \A k \in left[i] : ~(owner[k] = p /\ importing[p] = NoPart)
    BY <1>3, <1>4 DEF IInv, PartsInv, canRun
  <2> QED BY <2>1, <2>2, <1>0, <1>1, <1>2 DEF AnswerStep, store
<1>5. CASE canRun(p)
  <2>1. callOpen' = [callOpen EXCEPT ![p] = IF inFlight[p] = {i} THEN FALSE ELSE @]
    BY <1>5 DEF complete
  <2>2. /\ callOpen' \in [Parts -> BOOLEAN] /\ \A q \in Parts : q # p => callOpen'[q] = callOpen[q]
        /\ callOpen'[p] = callOpen[p] \/ inFlight'[p] = {}
    BY <2>1, <1>0, <1>1
  <2>3. CASE calls[i].epoch < epoch[p]
    <3>1. outbox' = outbox /\ fences' = fences /\ epoch' = epoch
      BY <1>5, <2>3 DEF complete
    <3> QED BY <3>1, <2>2, <2>3, <1>0, <1>1, <1>2 DEF AnswerStep
  <2>4. CASE ~(calls[i].epoch < epoch[p])
    <3>1. applyAnswer(p, i, known)
      BY <1>5, <2>4 DEF complete
    <3>2. \A q \in Parts : q # p => outbox'[q] = outbox[q]
      BY <3>1, <1>1 DEF applyAnswer
    <3>3. /\ DOMAIN outbox' = Parts /\ DOMAIN outbox'[p] = Keys
          /\ \A k \in Keys : outbox'[p][k] =
               IF k \in DOMAIN calls[i].images /\ owns(p, k)
               THEN applyItemOutcome(i, known, outbox[p][k], k) ELSE outbox[p][k]
      BY <3>1, <1>1 DEF applyAnswer
    <3>4. ASSUME NEW k \in Keys
          PROVE  IsRow(outbox'[p][k]) /\ (SameRow(outbox'[p][k], outbox[p][k]) \/ Gone(p, i, k))
      <4>0. IsRow(outbox[p][k])
        BY <1>1
      <4>1. SameRow(Attempted(outbox[p][k], FALSE), outbox[p][k])
        BY DEF SameRow, Attempted, Row
      <4>2. CASE ~(k \in DOMAIN calls[i].images /\ owns(p, k))
        BY <4>0, <4>2, <3>3, <1>2
      <4>3. CASE k \in DOMAIN calls[i].images /\ owns(p, k)
        <5>1. outbox'[p][k] = applyItemOutcome(i, known, outbox[p][k], k)
          BY <4>3, <3>3
        <5>2. CASE outbox'[p][k] = outbox[p][k] \/ outbox'[p][k] = Attempted(outbox[p][k], FALSE)
          BY <5>2, <4>0, <4>1, <1>2, SameRows
        <5>3. CASE /\ known /\ outbox[p][k].rev = calls[i].images[k].rev /\ answer[i][k] = "acknowledged"
                   /\ outbox'[p][k] = NoRow
          <6>1. outbox'[p][k].rev = 0 /\ IsRow(outbox'[p][k])
            BY <5>3 DEF NoRow, Row, IsRow
          <6> QED BY <6>1, <5>3, <4>3, <1>5 DEF Gone, owns, canRun
        <5> QED BY <5>1, <5>2, <5>3 DEF applyItemOutcome
      <4> QED BY <4>2, <4>3
    <3>5. fences' = fences \/ dropDoneExportFences(p)
      BY <3>1 DEF applyAnswer
    <3>6. /\ fences' \in [Parts -> [Parts -> Nat]]
          /\ \A q \in Parts : \/ fences'[q] = fences[q]
                              \/ \A j \in Keys : outbox'[q][j].rev # 0 => ~(outbox'[q][j].id <= untilId[q])
      <4>1. CASE fences' = fences
        BY <4>1, <1>1
      <4>2. CASE dropDoneExportFences(p)
        BY <4>2, <1>1 DEF dropDoneExportFences
      <4> QED BY <4>1, <4>2, <3>5
    <3>7. epoch' = [epoch EXCEPT ![p] =
            IF ~known \/ \E k \in DOMAIN answer[i] : answer[i][k] \in {"unknown", "fenced"} THEN @ + 1 ELSE @]
      BY <3>1 DEF applyAnswer
    <3>8. epoch' \in [Parts -> Nat] /\ \A q \in Parts : epoch'[q] >= epoch[q]
      BY <3>7, <1>1
    <3>9. ASSUME NEW k \in left[i]
          PROVE  epoch'[p] > calls[i].epoch
      <4>1. ~known \/ \E j \in DOMAIN answer[i] : answer[i][j] \in {"unknown", "fenced"}
        <5>1. known => \A j \in DOMAIN answer[i] : answer[i][j] # "none"
          BY DEF complete
        <5> QED BY <5>1, <1>3, <3>9
      <4>2. epoch'[p] = epoch[p] + 1
        BY <4>1, <3>7, <1>1
      <4> QED BY <4>2, <1>1, <1>3
    <3> QED BY <3>2, <3>3, <3>4, <3>6, <3>8, <3>9, <2>2, <1>0, <1>1, <1>2 DEF AnswerStep
  <2> QED BY <2>3, <2>4
<1> QED
  BY <1>4, <1>5

(* The end of a call keeps the invariant: a row goes when its last change arrived. *)
LEMMA AnswerStepLemma ==
  ASSUME IInv, NEW p \in Parts, NEW i \in Id, AnswerStep(p, i)
  PROVE  IInv'
<1> USE DEF table, wire, receivers
<1>0. /\ owner' = owner /\ importing' = importing /\ router' = router /\ made' = made /\ item' = item /\ mark' = mark
      /\ untilId' = untilId /\ started' = started /\ calls' = calls /\ left' = left /\ answer' = answer
      /\ matOwner' = matOwner /\ matImporting' = matImporting /\ image' = image /\ seen' = seen /\ top' = top
  BY DEF AnswerStep
<1>1. \A k \in Keys : Base(k) \in Parts /\ Base(k)' = Base(k) /\ Last(k)' = Last(k) /\ Holder(k)' = Holder(k)
  BY <1>0, Places DEF Base, Last, Holder, IInv
<1>2. /\ i \in inFlight[p] /\ inFlight' = [inFlight EXCEPT ![p] = @ \ {i}]
      /\ fences' \in [Parts -> [Parts -> Nat]] /\ epoch' \in [Parts -> Nat] /\ callOpen' \in [Parts -> BOOLEAN]
      /\ \A q \in Parts : epoch'[q] >= epoch[q] /\ (q # p => callOpen'[q] = callOpen[q])
      /\ callOpen'[p] = callOpen[p] \/ inFlight'[p] = {}
      /\ \A k \in left[i] : owner[k] = p /\ importing[p] = NoPart => epoch'[p] > calls[i].epoch
  BY DEF AnswerStep
<1>3. inFlight \in [Parts -> SUBSET Nat] /\ epoch \in [Parts -> Nat]
  BY DEF IInv, TypeOK
<1>4. /\ inFlight'[p] = inFlight[p] \ {i} /\ \A q \in Parts : q # p => inFlight'[q] = inFlight[q]
      /\ inFlight' \in [Parts -> SUBSET Nat]
  BY <1>2, <1>3
<1>5. \A j, k : Open(j, k)' = Open(j, k)
  BY <1>0 DEF Open, Holder
<1>6. Id' = Id /\ \A a, b \in Id : Covers(b, a)' = Covers(b, a)
  BY <1>0 DEF Id, Covers
<1>7. TypeOK'
  <2>1. /\ DOMAIN outbox' = Parts /\ \A q \in Parts : DOMAIN outbox'[q] = Keys
        /\ \A q \in Parts, k \in Keys : IsRow(outbox'[q][k])
    BY DEF AnswerStep
  <2> QED BY <2>1, <1>0, <1>2, <1>4 DEF IInv, TypeOK, Id
<1>8. PartsInv'
  BY <1>0 DEF IInv, PartsInv, Id
<1>9. CallsInv'
  <2>0. CallsInv
    BY DEF IInv
  <2>1. \A j \in Id : calls[j].epoch <= epoch'[calls[j].from]
    <3>1. \A j \in Id : calls[j].from \in Parts /\ calls[j].epoch \in Nat /\ calls[j].epoch <= epoch[calls[j].from]
      BY <2>0, CallTypes DEF IInv, CallsInv
    <3> QED BY <3>1, <1>2, <1>3
  <2>2. \A q \in Parts : \A j \in inFlight'[q] : j \in Id /\ calls[j].from = q /\ started[q] /\ callOpen'[q]
    <3>1. \A q \in Parts : \A j \in inFlight[q] : j \in Id /\ calls[j].from = q /\ started[q] /\ callOpen[q]
      BY <2>0 DEF CallsInv
    <3> QED BY <3>1, <1>2, <1>4
  <2>3. \A q \in Parts : inFlight'[q] \subseteq inFlight[q]
    BY <1>4
  <2> QED BY <2>0, <2>1, <2>2, <2>3, <1>0, <1>5, <1>6 DEF CallsInv
<1>10. ASSUME NEW k \in Keys, Base(k) = p, Gone(p, i, k)
       PROVE  /\ outbox'[p][k].rev = 0 /\ \A j \in Id : ~Open(j, k)
              /\ IF item[p][k] = 0 THEN top[k].deleted ELSE ~top[k].deleted /\ top[k].rev = item[p][k]
  <2>1. /\ RowInv(k) /\ top[k].rev \in Nat /\ outbox[p][k].rev \in Nat
    BY <1>10, KeyFacts DEF IsRow
  <2>2. top[k].rev >= calls[i].images[k].rev /\ (\A j \in Id : ~Open(j, k)) /\ calls[i].images[k].rev # 0
    BY <1>2, <1>10 DEF Gone, IInv, CallsInv
  <2>3. outbox[p][k].rev = calls[i].images[k].rev /\ outbox'[p][k].rev = 0
    BY <1>10 DEF Gone
  <2>4. UpTo(top[k], outbox[p][k])
        /\ IF item[p][k] = 0 THEN outbox[p][k].deleted ELSE ~outbox[p][k].deleted /\ outbox[p][k].rev = item[p][k]
    BY <2>1, <2>2, <2>3, <1>10 DEF RowInv
  <2>5. top[k].rev = outbox[p][k].rev /\ top[k].deleted = outbox[p][k].deleted
    BY <2>1, <2>2, <2>3, <2>4 DEF UpTo
  <2> QED BY <2>2, <2>3, <2>4, <2>5
<1>11. RowsInv'
  <2> SUFFICES ASSUME NEW k \in Keys
               PROVE  RowInv(k)'
    BY DEF RowsInv
  <2>1. PICK b : b = Base(k)
    OBVIOUS
  <2>2. Base(k)' = b /\ Last(k)' = Last(k) /\ b \in Parts /\ RowInv(k) /\ Last(k) \in Nat
    BY <2>1, <1>1, KeyFacts
  <2>3. CASE SameRow(outbox'[b][k], outbox[b][k])
    BY <2>1, <2>2, <2>3, <1>0, <1>6 DEF RowInv, SameRow, UpTo
  <2>4. CASE b = p /\ Gone(p, i, k)
    <3>1. /\ outbox'[b][k].rev = 0
          /\ IF item[b][k] = 0 THEN top[k].deleted ELSE ~top[k].deleted /\ top[k].rev = item[b][k]
      BY <2>1, <2>4, <1>10
    <3> QED BY <3>1, <2>1, <2>2, <1>0, <1>6 DEF RowInv
  <2> QED BY <2>2, <2>3, <2>4 DEF AnswerStep
<1>12. OpenInv'
  <2> SUFFICES ASSUME NEW j \in Id, NEW k \in left[j], Open(j, k)
               PROVE  Kept(j, k)'
    BY <1>0, <1>5, <1>6 DEF OpenInv
  <2>1. PICK b : b = Base(k)
    OBVIOUS
  <2>2. k \in Keys /\ calls[j].from \in Parts /\ calls[j].epoch \in Nat
    BY CallTypes DEF IInv
  <2>3. Base(k)' = b /\ b \in Parts /\ outbox[b][k].rev # 0 /\ ~outbox[b][k].localOnly
        /\ Protected(b, j, k) /\ UpTo(top[k], calls[j].images[k])
    BY <2>1, <2>2, <1>1 DEF IInv, OpenInv, Kept
  <2>4. SameRow(outbox'[b][k], outbox[b][k])
    BY <2>1, <2>2, <2>3, <1>10 DEF AnswerStep
  <2>5. Protected(b, j, k)'
    <3>1. CASE calls[j].from = b /\ b # p
      <4>1. epoch'[b] \in Nat /\ epoch[b] \in Nat /\ epoch'[b] >= epoch[b]
        BY <2>3, <1>2, <1>3
      <4> QED BY <4>1, <3>1, <2>2, <2>3, <1>0, <1>2, <1>4 DEF Protected
    <3>2. CASE calls[j].from = b /\ b = p
      <4>1. epoch'[b] \in Nat /\ epoch[b] \in Nat /\ epoch'[b] >= epoch[b]
        BY <2>3, <1>2, <1>3
      <4>2. started[p]
        BY <1>2 DEF IInv, CallsInv
      <4>3. CASE j = i /\ importing[owner[k]] = NoPart
        <5>1. owner[k] = p /\ importing[p] = NoPart
          BY <4>3, <3>2, <2>1 DEF Base
        <5>2. epoch'[p] > calls[j].epoch
          BY <5>1, <4>3, <1>2
        <5> QED BY <5>2, <4>1, <3>2, <2>2, <1>0 DEF Protected
      <4>4. CASE ~(j = i /\ importing[owner[k]] = NoPart)
        BY <4>1, <4>2, <4>4, <3>2, <2>2, <2>3, <1>0, <1>4 DEF Protected
      <4> QED BY <4>3, <4>4
    <3>3. CASE calls[j].from # b
      <4>1. fences[b][calls[j].from] > calls[j].epoch /\ outbox[b][k].id <= untilId[b]
        BY <2>3, <3>3 DEF Protected
      <4>2. outbox'[b][k].id = outbox[b][k].id /\ outbox'[b][k].rev # 0
        BY <2>3, <2>4 DEF SameRow
      <4>3. fences'[b] = fences[b]
        BY <4>1, <4>2, <2>2, <2>3 DEF AnswerStep
      <4> QED BY <4>1, <4>2, <4>3, <3>3, <1>0 DEF Protected
    <3> QED BY <3>1, <3>2, <3>3
  <2>6. outbox'[b][k].rev # 0 /\ ~outbox'[b][k].localOnly
    BY <2>3, <2>4 DEF SameRow
  <2> QED BY <2>3, <2>5, <2>6, <1>0 DEF Kept
<1>13. NothingComesBack'
  BY <1>0 DEF IInv, NothingComesBack, Holder
<1> QED
  BY <1>7, <1>8, <1>9, <1>11, <1>12, <1>13 DEF IInv

(* complete. *)
LEMMA CompleteStep ==
  ASSUME IInv, NEW p \in Parts, NEW i \in Id, NEW known \in BOOLEAN, complete(p, i, known)
  PROVE  IInv'
BY CompleteIsAnswer, AnswerStepLemma

(***************************************************************************)
(* The restart, and the steps of the workers that change nothing durable.  *)
(***************************************************************************)
(* retryIsDue, endBackoff, alarm and stop. *)
LEMMA WorkerSteps ==
  ASSUME IInv, NEW p \in Parts
  PROVE  /\ stop(p) => IInv'
         /\ alarm(p) => IInv'
         /\ endBackoff(p) => IInv'
         /\ \A k \in Keys : retryIsDue(p, k) => IInv'
<1>1. /\ DOMAIN outbox = Parts /\ \A q \in Parts : DOMAIN outbox[q] = Keys
      /\ \A q \in Parts, k \in Keys : SameRow(outbox[q][k], outbox[q][k])
  BY DEF IInv, TypeOK, SameRow
<1>2. stop(p) => Quiet
  BY <1>1 DEF stop, Quiet, store
<1>3. alarm(p) => Quiet
  BY <1>1 DEF alarm, Quiet, store
<1>4. endBackoff(p) => Quiet
  BY <1>1 DEF endBackoff, Quiet, store
<1>5. ASSUME NEW k \in Keys, retryIsDue(p, k)
      PROVE  Quiet
  <2>1. /\ UNCHANGED <<table, item, mark, epoch, callOpen, fences, untilId, started, inFlight, wire, receivers>>
        /\ outbox' = [outbox EXCEPT ![p][k] = Attempted(@, TRUE)]
    BY <1>5 DEF retryIsDue, memory
  <2>2. SameRow(Attempted(outbox[p][k], TRUE), outbox[p][k])
    BY DEF SameRow, Attempted, Row
  <2>3. /\ DOMAIN outbox' = Parts /\ \A q \in Parts : DOMAIN outbox'[q] = Keys
        /\ \A q \in Parts, j \in Keys : SameRow(outbox'[q][j], outbox[q][j])
    BY <2>1, <2>2, <1>1
  <2> QED BY <2>1, <2>3 DEF Quiet
<1> QED
  BY <1>2, <1>3, <1>4, <1>5, QuietStep

(* restart: callOpen remembers the calls that the instance forgets. *)
LEMMA RestartStep ==
  ASSUME IInv, NEW p \in Parts, restart(p)
  PROVE  IInv'
<1> USE DEF table, store, wire, receivers
<1>0. /\ owner' = owner /\ importing' = importing /\ router' = router /\ made' = made /\ item' = item /\ mark' = mark
      /\ outbox' = outbox /\ epoch' = epoch /\ callOpen' = callOpen /\ fences' = fences /\ untilId' = untilId
      /\ calls' = calls /\ left' = left /\ answer' = answer /\ matOwner' = matOwner
      /\ matImporting' = matImporting /\ image' = image /\ seen' = seen /\ top' = top
  BY DEF restart
<1>1. started' = [started EXCEPT ![p] = FALSE] /\ inFlight' = [inFlight EXCEPT ![p] = {}]
  BY DEF restart
<1>2. started \in [Parts -> BOOLEAN] /\ inFlight \in [Parts -> SUBSET Nat]
  BY DEF IInv, TypeOK
<1>3. /\ started' \in [Parts -> BOOLEAN] /\ inFlight' \in [Parts -> SUBSET Nat]
      /\ started'[p] = FALSE /\ inFlight'[p] = {}
      /\ \A q \in Parts : q # p => started'[q] = started[q] /\ inFlight'[q] = inFlight[q]
  BY <1>1, <1>2
<1>4. \A k \in Keys : Base(k) \in Parts /\ Base(k)' = Base(k) /\ Last(k)' = Last(k)
  BY <1>0, Places DEF Base, Last, IInv
<1>5. \A j, k : Open(j, k)' = Open(j, k)
  BY <1>0 DEF Open, Holder
<1>6. Id' = Id /\ \A a, b \in Id : Covers(b, a)' = Covers(b, a)
  BY <1>0 DEF Id, Covers
<1>7. TypeOK'
  BY <1>0, <1>3 DEF IInv, TypeOK, Id
<1>8. PartsInv'
  BY <1>0 DEF IInv, PartsInv, Id
<1>9. CallsInv'
  <2>0. CallsInv
    BY DEF IInv
  <2>1. \A q \in Parts : \A j \in inFlight'[q] : q # p /\ j \in inFlight[q] /\ started'[q] = started[q]
    BY <1>3
  <2> QED BY <2>0, <2>1, <1>0, <1>5, <1>6 DEF CallsInv
<1>10. RowsInv'
  <2> SUFFICES ASSUME NEW k \in Keys
               PROVE  RowInv(k)'
    BY DEF RowsInv
  <2>1. RowInv(k) /\ Base(k)' = Base(k) /\ Last(k)' = Last(k)
    BY <1>4 DEF IInv, RowsInv
  <2> QED BY <2>1, <1>0, <1>6 DEF RowInv
<1>11. OpenInv'
  <2> SUFFICES ASSUME NEW j \in Id, NEW k \in left[j], Open(j, k)
               PROVE  Kept(j, k)'
    BY <1>0, <1>5, <1>6 DEF OpenInv
  <2>1. PICK b : b = Base(k)
    OBVIOUS
  <2>2. k \in Keys
    BY CallTypes DEF IInv
  <2>3. Base(k)' = b /\ b \in Parts /\ outbox[b][k].rev # 0 /\ ~outbox[b][k].localOnly
        /\ Protected(b, j, k) /\ UpTo(top[k], calls[j].images[k])
    BY <2>1, <2>2, <1>4 DEF IInv, OpenInv, Kept
  <2>4. j \in inFlight[p] => callOpen[p]
    BY DEF IInv, CallsInv
  <2>5. Protected(b, j, k)'
    <3>1. CASE b # p
      BY <3>1, <2>3, <1>0, <1>3 DEF Protected
    <3>2. CASE b = p
      BY <3>2, <2>3, <2>4, <1>0, <1>3 DEF Protected
    <3> QED BY <3>1, <3>2
  <2> QED BY <2>3, <2>5, <1>0 DEF Kept
<1>12. NothingComesBack'
  BY <1>0 DEF IInv, NothingComesBack, Holder
<1> QED
  BY <1>7, <1>8, <1>9, <1>10, <1>11, <1>12 DEF IInv

(***************************************************************************)
(* The receiver.                                                           *)
(***************************************************************************)
\* What an acknowledgement that its sender waits for says.
AcksInv ==
  \A p \in Parts : \A i \in inFlight[p] : \A k \in DOMAIN calls[i].images :
    owner[k] = p /\ answer[i][k] = "acknowledged" =>
      top[k].rev >= calls[i].images[k].rev /\ \A j \in Id : ~Open(j, k)

\* Items that run or are lost: fewer are left, and the fences of the receivers rise.
WireStep ==
  /\ UNCHANGED <<table, store, started, inFlight, calls, matOwner, matImporting>>
  /\ left' \in Seq(SUBSET Keys) /\ answer' \in Seq(Answer) /\ Len(left') = Len(calls) /\ Len(answer') = Len(calls)
  /\ \A i \in Id : /\ left'[i] \subseteq left[i] /\ DOMAIN answer'[i] = DOMAIN answer[i]
                   /\ \A k \in left'[i] : answer'[i][k] \in {"none", "unknown"}
  /\ image' \in [Receivers -> [Keys -> Images]] /\ seen' \in [Receivers -> [Parts -> Nat]] /\ top' \in [Keys -> Images]
  /\ \A m \in Receivers, a \in Parts : seen'[m][a] >= seen[m][a]

(* The rows, the parts and the calls stay. *)
LEMMA WireFrame ==
  ASSUME IInv, WireStep, AcksInv', NothingComesBack',
         \A k \in Keys : \/ top'[k] = top[k]
                         \/ /\ RowInv(k)'
                            /\ \A i \in Id : k \in left'[i] /\ Open(i, k)' => UpTo(top'[k], calls[i].images[k])
  PROVE  IInv'
<1> USE DEF table, store
<1>0. /\ owner' = owner /\ importing' = importing /\ router' = router /\ made' = made /\ item' = item /\ mark' = mark
      /\ outbox' = outbox /\ epoch' = epoch /\ callOpen' = callOpen /\ fences' = fences /\ untilId' = untilId
      /\ started' = started /\ inFlight' = inFlight
      /\ calls' = calls /\ matOwner' = matOwner /\ matImporting' = matImporting
  BY DEF WireStep
<1>1. \A k \in Keys : Base(k) \in Parts /\ Base(k)' = Base(k) /\ Last(k)' = Last(k)
  BY <1>0, Places DEF Base, Last, IInv
<1>2. Id' = Id /\ \A a, b \in Id : Covers(b, a)' = Covers(b, a)
  BY <1>0 DEF Id, Covers
<1>3. ASSUME NEW i \in Id, NEW k \in left'[i], Open(i, k)'
      PROVE  Open(i, k) /\ k \in left[i] /\ k \in Keys /\ k \in DOMAIN calls[i].images
  <2>1. k \in left[i]
    BY DEF WireStep
  <2>2. k \in Keys /\ k \in DOMAIN calls[i].images /\ calls[i].from \in Parts /\ calls[i].epoch \in Nat
    BY <2>1, CallTypes DEF IInv
  <2>a. PICK h : h = Holder(k)
    OBVIOUS
  <2>3. h \in Receivers /\ Holder(k)' = h
    BY <2>a, <2>2, <1>0, Places DEF IInv, Holder
  <2>b. PICK a : a = calls[i].from
    OBVIOUS
  <2>c. seen \in [Receivers -> [Parts -> Nat]]
    BY DEF IInv, TypeOK
  <2>d. seen' \in [Receivers -> [Parts -> Nat]] /\ seen'[h][a] >= seen[h][a]
    BY <2>2, <2>3, <2>b DEF WireStep
  <2>4. seen'[h][a] \in Nat /\ seen[h][a] \in Nat
    BY <2>2, <2>3, <2>b, <2>c, <2>d
  <2>5. seen'[h][a] <= calls[i].epoch
    BY <2>3, <2>b, <1>0, <1>3 DEF Open
  <2>6. seen[h][a] <= calls[i].epoch
    BY <2>2, <2>4, <2>5, <2>d
  <2> QED BY <2>1, <2>2, <2>6, <2>a, <2>b DEF Open
<1>4. TypeOK'
  <2>1. \A i \in Id : left'[i] \subseteq DOMAIN calls[i].images /\ DOMAIN answer'[i] = DOMAIN calls[i].images
    <3>1. \A i \in Id : left[i] \subseteq DOMAIN calls[i].images /\ DOMAIN answer[i] = DOMAIN calls[i].images
      BY DEF IInv, TypeOK
    <3>2. \A i \in Id : left'[i] \subseteq left[i] /\ DOMAIN answer'[i] = DOMAIN answer[i]
      BY DEF WireStep
    <3> QED BY <3>1, <3>2
  <2>2. /\ left' \in Seq(SUBSET Keys) /\ answer' \in Seq(Answer) /\ Len(left') = Len(calls) /\ Len(answer') = Len(calls)
        /\ image' \in [Receivers -> [Keys -> Images]] /\ seen' \in [Receivers -> [Parts -> Nat]]
        /\ top' \in [Keys -> Images]
    BY DEF WireStep
  <2> QED BY <2>1, <2>2, <1>0, <1>2 DEF IInv, TypeOK
<1>5. PartsInv'
  BY <1>0 DEF IInv, PartsInv, Id
<1>6. CallsInv'
  <2>0. CallsInv
    BY DEF IInv
  <2>1. \A i \in Id : \A k \in left'[i] : answer'[i][k] \in {"none", "unknown"}
    BY DEF WireStep
  <2>2. \A i \in Id : \A k \in DOMAIN calls[i].images :
          calls[i].images[k].rev # 0 /\ (k \in left'[i] => answer'[i][k] \in {"none", "unknown"})
    BY <2>0, <2>1 DEF CallsInv
  <2>3. ASSUME NEW i \in Id, NEW j \in Id, NEW k \in DOMAIN calls[i].images \cap DOMAIN calls[j].images, i < j
        PROVE  UpTo(calls[i].images[k], calls[j].images[k]) /\ (Open(i, k)' => Covers(j, i)')
    <3>1. UpTo(calls[i].images[k], calls[j].images[k]) /\ (Open(i, k) => Covers(j, i))
      BY <2>0, <2>3 DEF CallsInv
    <3>2. Open(i, k)' => k \in left'[i]
      BY DEF Open
    <3> QED BY <3>1, <3>2, <1>2, <1>3
  <2>4. \A p \in Parts : \A i \in inFlight[p] : \A k \in DOMAIN calls[i].images :
          owner[k] = p /\ answer'[i][k] = "acknowledged" =>
            top'[k].rev >= calls[i].images[k].rev /\ \A j \in Id : ~Open(j, k)'
    BY <1>0, <1>2 DEF AcksInv
  <2> QED BY <2>0, <2>2, <2>3, <2>4, <1>0, <1>2 DEF CallsInv
<1>7. RowsInv'
  <2> SUFFICES ASSUME NEW k \in Keys, top'[k] = top[k]
               PROVE  RowInv(k)'
    BY DEF RowsInv
  <2>1. RowInv(k) /\ Base(k)' = Base(k) /\ Last(k)' = Last(k)
    BY <1>1 DEF IInv, RowsInv
  <2> QED BY <2>1, <1>0, <1>2 DEF RowInv
<1>8. OpenInv'
  <2> SUFFICES ASSUME NEW i \in Id, NEW k \in left'[i], Open(i, k)'
               PROVE  Kept(i, k)'
    BY <1>2 DEF OpenInv
  <2>1. Open(i, k) /\ k \in left[i] /\ k \in Keys
    BY <1>3
  <2>2. Kept(i, k)
    BY <2>1 DEF IInv, OpenInv
  <2>3. UpTo(top'[k], calls[i].images[k])
    BY <2>1, <2>2 DEF Kept
  <2>4. PICK b : b = Base(k)
    OBVIOUS
  <2>5. Base(k)' = b /\ outbox[b][k].rev # 0 /\ ~outbox[b][k].localOnly /\ Protected(b, i, k)
    BY <2>1, <2>2, <2>4, <1>1 DEF Kept
  <2>6. Protected(b, i, k)'
    BY <2>5, <1>0 DEF Protected
  <2> QED BY <2>3, <2>5, <2>6, <1>0 DEF Kept
<1> QED
  BY <1>4, <1>5, <1>6, <1>7, <1>8 DEF IInv

(* An answer of an item. *)
LEMMA Answers ==
  ASSUME TypeOK, NEW i \in Id, NEW k, NEW o \in Outcomes, answers(i, k, o)
  PROVE  /\ answer' \in Seq(Answer) /\ Len(answer') = Len(calls)
         /\ \A j \in Id : DOMAIN answer'[j] = DOMAIN answer[j]
         /\ \A j \in Id : \A l \in DOMAIN answer[j] :
              answer'[j][l] = IF j = i /\ l = k /\ answer[j][l] = "none" THEN o ELSE answer[j][l]
<1>1. answer \in Seq(Answer) /\ Len(answer) = Len(calls) /\ Id = DOMAIN answer
  BY DEF TypeOK, Id
<1>2. PICK a : a = [j \in DOMAIN answer[i] |-> IF j = k /\ answer[i][j] = "none" THEN o ELSE answer[i][j]]
  OBVIOUS
<1>3. answer' = [answer EXCEPT ![i] = a]
  BY <1>2 DEF answers
<1>4. a \in Answer
  <2>1. PICK K \in SUBSET Keys : answer[i] \in [K -> Outcomes]
    BY <1>1 DEF Answer
  <2>2. a \in [K -> Outcomes]
    BY <1>2, <2>1
  <2> QED BY <2>2 DEF Answer
<1>5. answer' \in Seq(Answer) /\ Len(answer') = Len(calls)
  BY <1>1, <1>3, <1>4
<1>6. \A j \in Id : answer'[j] = IF j = i THEN a ELSE answer[j]
  BY <1>1, <1>3
<1>7. \A j \in Id : DOMAIN answer'[j] = DOMAIN answer[j]
  BY <1>2, <1>6
<1>8. ASSUME NEW j \in Id, NEW l \in DOMAIN answer[j]
      PROVE  answer'[j][l] = IF j = i /\ l = k /\ answer[j][l] = "none" THEN o ELSE answer[j][l]
  <2>1. CASE j = i
    <3>1. answer'[j][l] = a[l] /\ l \in DOMAIN answer[i]
      BY <2>1, <1>6, <1>8
    <3> QED BY <3>1, <2>1, <1>2
  <2>2. CASE j # i
    BY <2>2, <1>6
  <2> QED BY <2>1, <2>2
<1> QED
  BY <1>5, <1>7, <1>8

(* An item that ran is not left. *)
LEMMA Leaves ==
  ASSUME TypeOK, NEW i \in Id, NEW k, left' = [left EXCEPT ![i] = @ \ {k}]
  PROVE  /\ left' \in Seq(SUBSET Keys) /\ Len(left') = Len(calls)
         /\ \A j \in Id : left'[j] = IF j = i THEN left[j] \ {k} ELSE left[j]
<1>1. left \in Seq(SUBSET Keys) /\ Len(left) = Len(calls) /\ Id = DOMAIN left
  BY DEF TypeOK, Id
<1>2. PICK l : l = left[i] \ {k}
  OBVIOUS
<1>3. l \in SUBSET Keys /\ left' = [left EXCEPT ![i] = l]
  BY <1>1, <1>2
<1>4. left' \in Seq(SUBSET Keys) /\ Len(left') = Len(calls)
  BY <1>1, <1>3
<1>5. \A j \in Id : left'[j] = IF j = i THEN l ELSE left[j]
  BY <1>1, <1>3
<1> QED
  BY <1>2, <1>4, <1>5

(* refuse and lose: no receiver takes the item. *)
LEMMA LostItemStep ==
  ASSUME IInv, NEW i \in Id, NEW k \in Keys, refuse(i, k) \/ (k \in DOMAIN answer[i] /\ lose(i, k))
  PROVE  IInv'
<1> USE DEF receivers
<1>0. /\ UNCHANGED <<table, store, memory, calls, receivers>>
      /\ \E o \in {"unprocessed", "rejected", "unknown"} :
           /\ answers(i, k, o)
           /\ \/ left' = [left EXCEPT ![i] = @ \ {k}]
              \/ o = "unknown" /\ left' = left
  BY DEF refuse, lose
<1>1. PICK o \in {"unprocessed", "rejected", "unknown"} :
        answers(i, k, o) /\ (left' = [left EXCEPT ![i] = @ \ {k}] \/ (o = "unknown" /\ left' = left))
  BY <1>0
<1>T. TypeOK
  BY DEF IInv
<1>2. /\ answer' \in Seq(Answer) /\ Len(answer') = Len(calls)
      /\ \A j \in Id : DOMAIN answer'[j] = DOMAIN answer[j]
      /\ \A j \in Id : \A l \in DOMAIN answer[j] :
           answer'[j][l] = IF j = i /\ l = k /\ answer[j][l] = "none" THEN o ELSE answer[j][l]
  <2>1. o \in Outcomes
    BY <1>1 DEF Outcomes
  <2> QED BY <2>1, <1>1, <1>T, Answers
<1>3. /\ left' \in Seq(SUBSET Keys) /\ Len(left') = Len(calls)
      /\ \A j \in Id : left'[j] \subseteq left[j]
      /\ o = "unknown" \/ k \notin left'[i]
  <2>1. CASE left' = left
    <3>1. left \in Seq(SUBSET Keys) /\ Len(left) = Len(calls)
      BY <1>T DEF TypeOK
    <3>2. o = "unknown" \/ k \notin left[i]
      <4>1. CASE left' = [left EXCEPT ![i] = @ \ {k}]
        <5>1. \A j \in Id : left'[j] = IF j = i THEN left[j] \ {k} ELSE left[j]
          BY <4>1, <1>T, Leaves
        <5> QED BY <5>1, <2>1
      <4> QED BY <4>1, <1>1
    <3> QED BY <3>1, <3>2, <2>1
  <2>2. CASE left' = [left EXCEPT ![i] = @ \ {k}]
    <3>1. /\ left' \in Seq(SUBSET Keys) /\ Len(left') = Len(calls)
          /\ \A j \in Id : left'[j] = IF j = i THEN left[j] \ {k} ELSE left[j]
      BY <2>2, <1>T, Leaves
    <3> QED BY <3>1
  <2> QED BY <2>1, <2>2, <1>1
<1>4. \A j \in Id : left[j] \subseteq DOMAIN answer[j] /\ left[j] \subseteq DOMAIN calls[j].images
                    /\ DOMAIN answer[j] = DOMAIN calls[j].images
  BY <1>T, CallTypes
<1>5. WireStep
  <2>1. \A j \in Id : \A l \in left'[j] : answer'[j][l] \in {"none", "unknown"}
    <3>1. \A j \in Id : \A l \in left[j] : answer[j][l] \in {"none", "unknown"}
      BY <1>4 DEF IInv, CallsInv
    <3> QED BY <3>1, <1>2, <1>3, <1>4
  <2>2. /\ image' = image /\ seen' = seen /\ top' = top /\ calls' = calls /\ matOwner' = matOwner
        /\ matImporting' = matImporting /\ started' = started /\ inFlight' = inFlight
    BY <1>0 DEF memory
  <2>3. /\ image \in [Receivers -> [Keys -> Images]] /\ seen \in [Receivers -> [Parts -> Nat]] /\ top \in [Keys -> Images]
        /\ \A m \in Receivers, a \in Parts : seen[m][a] \in Nat
    BY <1>T DEF TypeOK
  <2>4. \A m \in Receivers, a \in Parts : seen'[m][a] >= seen[m][a]
    BY <2>2, <2>3
  <2> QED BY <2>1, <2>2, <2>3, <2>4, <1>0, <1>2, <1>3 DEF WireStep
<1>6. \A j, l : Open(j, l)' => Open(j, l) \/ j \notin Id
  <2>1. calls' = calls /\ matOwner' = matOwner /\ matImporting' = matImporting /\ seen' = seen
    BY <1>0
  <2> QED BY <2>1, <1>3 DEF Open, Holder
<1>7. AcksInv'
  <2>1. calls' = calls /\ owner' = owner /\ inFlight' = inFlight /\ top' = top /\ Id' = Id
    BY <1>0 DEF table, memory, Id
  <2> SUFFICES ASSUME NEW p \in Parts, NEW j \in inFlight[p], NEW l \in DOMAIN calls[j].images,
                      owner[l] = p, answer'[j][l] = "acknowledged"
               PROVE  top[l].rev >= calls[j].images[l].rev /\ \A a \in Id : ~Open(a, l)'
    BY <2>1 DEF AcksInv
  <2>2. j \in Id
    BY DEF IInv, CallsInv
  <2>3. answer[j][l] = "acknowledged"
    BY <2>2, <1>1, <1>2, <1>4
  <2>4. top[l].rev >= calls[j].images[l].rev /\ \A a \in Id : ~Open(a, l)
    BY <2>3 DEF IInv, CallsInv
  <2> QED BY <2>4, <1>6
<1>8. NothingComesBack'
  <2>1. image' = image /\ top' = top /\ matOwner' = matOwner /\ matImporting' = matImporting
    BY <1>0
  <2> QED BY <2>1 DEF IInv, NothingComesBack, Holder
<1>9. \A l \in Keys : top'[l] = top[l]
  BY <1>0
<1> QED
  BY <1>5, <1>7, <1>8, <1>9, WireFrame

(* An image that a receiver does not fence is open, and it closes the calls before it. *)
LEMMA ApplyStep ==
  ASSUME IInv, NEW i \in Id, NEW k \in Keys, NEW overSize \in BOOLEAN, applyLatestImage(i, k, overSize)
  PROVE  IInv'
<1>T. TypeOK
  BY DEF IInv
<1>m. PICK m : m = matOwner[k]
  OBVIOUS
<1>n. PICK new : new = calls[i].images[k]
  OBVIOUS
<1>f. PICK f : f = calls[i].from
  OBVIOUS
<1>r. PICK raised : raised = RaisedByFences(m, i)
  OBVIOUS
<1>0. /\ UNCHANGED <<table, store, memory, calls, matOwner, matImporting>>
      /\ k \in left[i] /\ matImporting[m] = NoPart /\ left' = [left EXCEPT ![i] = @ \ {k}]
      /\ overSize => new.rev > image[m][k].rev
  BY <1>m, <1>n DEF applyLatestImage
<1>1. \/ /\ calls[i].epoch < raised[f]
         /\ seen' = [seen EXCEPT ![m] = raised] /\ answers(i, k, "fenced") /\ image' = image /\ top' = top
      \/ /\ ~(calls[i].epoch < raised[f])
         /\ seen' = [seen EXCEPT ![m] = [raised EXCEPT ![f] = calls[i].epoch]]
         /\ image' = IF new.rev > image[m][k].rev /\ ~overSize THEN [image EXCEPT ![m][k] = new] ELSE image
         /\ top' = IF new.rev > image[m][k].rev /\ ~overSize /\ new.rev > top[k].rev THEN [top EXCEPT ![k] = new] ELSE top
         /\ answers(i, k, IF overSize THEN "unprocessed" ELSE "acknowledged")
  BY <1>m, <1>n, <1>f, <1>r DEF applyLatestImage, IsFenced
<1>2. /\ f \in Parts /\ calls[i].epoch \in Nat /\ calls[i].fences \in [Parts -> Nat] /\ new \in Images /\ new.rev \in Nat
      /\ new.deleted \in BOOLEAN /\ k \in DOMAIN calls[i].images
  BY <1>0, <1>T, <1>n, <1>f, CallTypes
<1>3. m \in Receivers /\ Holder(k) = m
  BY <1>0, <1>m, <1>T DEF TypeOK, Holder
<1>4. /\ seen \in [Receivers -> [Parts -> Nat]] /\ image \in [Receivers -> [Keys -> Images]] /\ top \in [Keys -> Images]
      /\ image[m][k] \in Images /\ image[m][k].rev \in Nat /\ top[k] \in Images /\ top[k].rev \in Nat
      /\ top[k].deleted \in BOOLEAN
  BY <1>3, <1>T DEF TypeOK, Images
<1>5. /\ raised \in [Parts -> Nat]
      /\ \A a \in Parts : raised[a] >= seen[m][a] /\ raised[a] >= calls[i].fences[a]
  <2>1. raised = [a \in Parts |-> Greater(seen[m][a], calls[i].fences[a])]
    BY <1>r DEF RaisedByFences
  <2>2. \A a \in Parts : seen[m][a] \in Nat /\ calls[i].fences[a] \in Nat
    BY <1>2, <1>3, <1>4
  <2>3. \A x, y \in Nat : Greater(x, y) \in Nat /\ Greater(x, y) >= x /\ Greater(x, y) >= y
    BY DEF Greater
  <2> QED BY <2>1, <2>2, <2>3
<1>6. PICK next : /\ next = seen'[m] /\ next \in [Parts -> Nat] /\ seen' = [seen EXCEPT ![m] = next]
                  /\ \A a \in Parts : next[a] >= raised[a]
                  /\ calls[i].epoch < raised[f] \/ next[f] = calls[i].epoch
  <2>1. CASE calls[i].epoch < raised[f]
    <3>1. seen' = [seen EXCEPT ![m] = raised]
      BY <2>1, <1>1
    <3>2. seen'[m] = raised
      BY <3>1, <1>3, <1>4
    <3>3. raised = seen'[m] /\ raised \in [Parts -> Nat] /\ \A a \in Parts : raised[a] >= raised[a]
      BY <3>2, <1>5
    <3> QED BY <3>1, <3>3, <2>1, Zenon
  <2>2. CASE ~(calls[i].epoch < raised[f])
    <3>1. PICK nx : nx = [raised EXCEPT ![f] = calls[i].epoch]
      OBVIOUS
    <3>2. seen' = [seen EXCEPT ![m] = nx]
      BY <3>1, <2>2, <1>1
    <3>3. nx \in [Parts -> Nat] /\ nx[f] = calls[i].epoch /\ \A a \in Parts : nx[a] >= raised[a]
      BY <3>1, <2>2, <1>2, <1>5
    <3>4. nx = seen'[m]
      BY <3>2, <1>3, <1>4
    <3> QED BY <3>2, <3>3, <3>4
  <2> QED BY <2>1, <2>2
<1>7. /\ seen' \in [Receivers -> [Parts -> Nat]]
      /\ \A r \in Receivers, a \in Parts : seen'[r][a] \in Nat /\ seen'[r][a] >= seen[r][a]
  <2>1. \A a \in Parts : next[a] \in Nat /\ next[a] >= seen[m][a] /\ seen[m][a] \in Nat
    BY <1>3, <1>4, <1>5, <1>6
  <2> QED BY <2>1, <1>3, <1>4, <1>6
<1>8. PICK o \in {"fenced", "unprocessed", "acknowledged"} :
        /\ answers(i, k, o)
        /\ o = "acknowledged" => ~(calls[i].epoch < raised[f]) /\ ~overSize
        /\ o # "acknowledged" => image' = image /\ top' = top
        /\ o = "acknowledged" =>
             /\ image' = IF new.rev > image[m][k].rev THEN [image EXCEPT ![m][k] = new] ELSE image
             /\ top' = IF new.rev > image[m][k].rev /\ new.rev > top[k].rev THEN [top EXCEPT ![k] = new] ELSE top
  <2>1. CASE calls[i].epoch < raised[f]
    BY <2>1, <1>1
  <2>2. CASE ~(calls[i].epoch < raised[f]) /\ overSize
    BY <2>2, <1>1
  <2>3. CASE ~(calls[i].epoch < raised[f]) /\ ~overSize
    BY <2>3, <1>1
  <2> QED BY <2>1, <2>2, <2>3
<1>9. /\ answer' \in Seq(Answer) /\ Len(answer') = Len(calls)
      /\ \A j \in Id : DOMAIN answer'[j] = DOMAIN answer[j]
      /\ \A j \in Id : \A l \in DOMAIN answer[j] :
           answer'[j][l] = IF j = i /\ l = k /\ answer[j][l] = "none" THEN o ELSE answer[j][l]
  <2>1. o \in Outcomes
    BY DEF Outcomes
  <2> QED BY <2>1, <1>8, <1>T, Answers
<1>10. /\ left' \in Seq(SUBSET Keys) /\ Len(left') = Len(calls)
       /\ \A j \in Id : left'[j] = IF j = i THEN left[j] \ {k} ELSE left[j]
  BY <1>0, <1>T, Leaves
<1>11. \A j \in Id : left[j] \subseteq DOMAIN answer[j] /\ left[j] \subseteq DOMAIN calls[j].images
                     /\ DOMAIN answer[j] = DOMAIN calls[j].images
  BY <1>T, CallTypes
<1>12. \A l : Holder(l)' = Holder(l)
  BY <1>0 DEF Holder
<1>13. ASSUME NEW j \in Id, NEW l, Open(j, l)'
       PROVE  Open(j, l) /\ l \in left[j] /\ seen'[Holder(l)][calls[j].from] <= calls[j].epoch
  <2>1. l \in left[j]
    BY <1>10, <1>13 DEF Open
  <2>2. l \in Keys /\ calls[j].from \in Parts /\ calls[j].epoch \in Nat
    BY <2>1, <1>T, CallTypes
  <2>3. Holder(l) \in Receivers
    BY <2>2, <1>T, Places
  <2>4. PICK h, a : h = Holder(l) /\ a = calls[j].from
    OBVIOUS
  <2>5. seen'[h][a] <= calls[j].epoch
    BY <2>4, <1>0, <1>12, <1>13 DEF Open
  <2>6. seen'[h][a] \in Nat /\ seen[h][a] \in Nat /\ seen'[h][a] >= seen[h][a]
    BY <2>2, <2>3, <2>4, <1>4, <1>7
  <2>7. seen[h][a] <= calls[j].epoch
    BY <2>2, <2>5, <2>6
  <2> QED BY <2>1, <2>4, <2>5, <2>7 DEF Open
<1>14. ASSUME ~(calls[i].epoch < raised[f])
       PROVE  /\ Open(i, k) /\ Kept(i, k)
              /\ \A j \in Id : Open(j, k)' => j > i
  <2>1. seen[m][f] <= calls[i].epoch
    <3>1. seen[m][f] \in Nat /\ raised[f] \in Nat /\ raised[f] >= seen[m][f]
      BY <1>2, <1>3, <1>4, <1>5
    <3> QED BY <3>1, <1>2, <1>14
  <2>2. Open(i, k)
    BY <2>1, <1>0, <1>3, <1>f DEF Open
  <2>3. Kept(i, k)
    BY <2>2, <1>0 DEF IInv, OpenInv
  <2>4. ASSUME NEW j \in Id, Open(j, k)'
        PROVE  j > i
    <3>1. Open(j, k) /\ k \in left[j] /\ seen'[m][calls[j].from] <= calls[j].epoch
      BY <2>4, <1>3, <1>13
    <3>2. j # i
      BY <2>4, <1>10 DEF Open
    <3>3. j \in Nat /\ i \in Nat /\ calls[j].from \in Parts /\ calls[j].epoch \in Nat
      BY <1>T, CallTypes
    <3>4. ASSUME j < i
          PROVE  FALSE
      <4>1. k \in DOMAIN calls[j].images \cap DOMAIN calls[i].images
        BY <3>1, <1>0, <1>11
      <4>2. Covers(i, j)
        BY <3>1, <3>4, <4>1 DEF IInv, CallsInv
      <4>3. next[f] = calls[i].epoch /\ next = seen'[m]
        BY <1>6, <1>14
      <4>4. CASE calls[j].from = f
        BY <4>2, <4>3, <4>4, <3>1, <3>3, <1>2, <1>f DEF Covers
      <4>5. CASE calls[j].from # f
        <5>1. calls[i].fences[calls[j].from] > calls[j].epoch
          BY <4>2, <4>5, <1>f DEF Covers
        <5>2. PICK a : a = calls[j].from
          OBVIOUS
        <5>3. next[a] >= raised[a] /\ raised[a] >= calls[i].fences[a] /\ next[a] \in Nat /\ raised[a] \in Nat
              /\ calls[i].fences[a] \in Nat
          BY <5>2, <3>3, <1>2, <1>5, <1>6
        <5> QED BY <5>1, <5>2, <5>3, <4>3, <3>1, <3>3
      <4> QED BY <4>4, <4>5
    <3> QED BY <3>2, <3>3, <3>4
  <2> QED BY <2>2, <2>3, <2>4
<1>15. ASSUME o = "acknowledged"
       PROVE  /\ top' \in [Keys -> Images] /\ image' \in [Receivers -> [Keys -> Images]]
              /\ top'[k].rev = new.rev /\ top'[k].deleted = new.deleted
              /\ \A l \in Keys : l # k => top'[l] = top[l] /\ \A r \in Receivers : image'[r][l] = image[r][l]
              /\ image'[m][k] = top'[k] \/ (image'[m][k] = NoImage /\ top'[k].deleted)
  <2>1. UpTo(top[k], new) /\ new.rev # 0
    BY <1>2, <1>8, <1>14, <1>15, <1>n DEF Kept, IInv, CallsInv
  <2>r. top[k].rev <= new.rev /\ new.rev # 0
    BY <2>1, Zenon DEF UpTo
  <2>t. new.rev \in Nat /\ top[k].rev \in Nat /\ image[m][k].rev \in Nat
    BY <1>2, <1>4
  <2>2. image[m][k] = top[k] \/ (image[m][k] = NoImage /\ top[k].deleted)
    BY <1>3 DEF IInv, NothingComesBack
  <2>3. image' \in [Receivers -> [Keys -> Images]] /\ top' \in [Keys -> Images]
    <3>1. image' = image \/ image' = [image EXCEPT ![m][k] = new]
      BY <1>8, <1>15
    <3>2. top' = top \/ top' = [top EXCEPT ![k] = new]
      BY <1>8, <1>15
    <3>3. [image EXCEPT ![m][k] = new] \in [Receivers -> [Keys -> Images]]
      BY <1>2, <1>3, <1>4
    <3>4. [top EXCEPT ![k] = new] \in [Keys -> Images]
      BY <1>2, <1>4
    <3> QED BY <3>1, <3>2, <3>3, <3>4, <1>4
  <2>4. \A l \in Keys : l # k => top'[l] = top[l] /\ \A r \in Receivers : image'[r][l] = image[r][l]
    BY <1>3, <1>4, <1>8, <1>15
  <2>5. CASE new.rev > image[m][k].rev
    <3>1. image'[m][k] = new
      BY <2>5, <1>3, <1>4, <1>8, <1>15
    <3>2. CASE new.rev > top[k].rev
      <4>1. top'[k] = new
        BY <2>5, <3>2, <1>4, <1>8, <1>15
      <4> QED BY <4>1, <3>1, <2>3, <2>4
    <3>3. CASE ~(new.rev > top[k].rev)
      <4>1. top'[k] = top[k]
        BY <2>5, <3>3, <1>4, <1>8, <1>15
      <4>2. new.rev = top[k].rev /\ new.deleted = top[k].deleted
        <5>1. new.rev = top[k].rev
          BY <2>r, <2>t, <3>3
        <5> QED BY <5>1, <2>1, Zenon DEF UpTo
      <4>3. new = top[k]
        BY <4>2, <1>2, <1>4 DEF Images
      <4> QED BY <4>1, <4>3, <3>1, <2>3, <2>4
    <3> QED BY <3>2, <3>3
  <2>6. CASE ~(new.rev > image[m][k].rev)
    <3>1. image'[m][k] = image[m][k] /\ top'[k] = top[k]
      BY <2>6, <1>8, <1>15
    <3>2. image[m][k] # NoImage
      <4>1. NoImage.rev = 0
        BY DEF NoImage
      <4> QED BY <4>1, <2>1, <2>6, <1>2
    <3>3. image[m][k] = top[k]
      BY <2>2, <3>2
    <3>4. new.rev = top[k].rev /\ new.deleted = top[k].deleted
      <4>1. new.rev = top[k].rev
        BY <2>r, <2>t, <2>6, <3>3
      <4> QED BY <4>1, <2>1, Zenon DEF UpTo
    <3> QED BY <3>1, <3>3, <3>4, <2>3, <2>4
  <2> QED BY <2>5, <2>6
<1>16. WireStep
  <2>1. \A j \in Id : \A l \in left'[j] : answer'[j][l] \in {"none", "unknown"}
    <3>1. \A j \in Id : \A l \in left[j] : answer[j][l] \in {"none", "unknown"}
      BY <1>11 DEF IInv, CallsInv
    <3>2. \A j \in Id : \A l \in left'[j] : l \in left[j] /\ l \in DOMAIN answer[j] /\ ~(j = i /\ l = k)
      BY <1>10, <1>11
    <3> QED BY <3>1, <3>2, <1>9
  <2>2. image' \in [Receivers -> [Keys -> Images]] /\ top' \in [Keys -> Images]
    BY <1>4, <1>8, <1>15
  <2>3. started' = started /\ inFlight' = inFlight
    BY <1>0 DEF memory
  <2> QED BY <2>1, <2>2, <2>3, <1>0, <1>7, <1>9, <1>10 DEF WireStep
<1>17. AcksInv'
  <2>1. calls' = calls /\ owner' = owner /\ inFlight' = inFlight /\ Id' = Id
    BY <1>0 DEF table, memory, Id
  <2> SUFFICES ASSUME NEW p \in Parts, NEW j \in inFlight[p], NEW l \in DOMAIN calls[j].images,
                      owner[l] = p, answer'[j][l] = "acknowledged"
               PROVE  top'[l].rev >= calls[j].images[l].rev /\ \A a \in Id : ~Open(a, l)'
    BY <2>1 DEF AcksInv
  <2>2. j \in Id /\ l \in Keys /\ calls[j].images[l].rev \in Nat /\ l \in DOMAIN answer[j]
    <3>1. j \in Id
      BY DEF IInv, CallsInv
    <3> QED BY <3>1, <1>T, CallTypes
  <2>3. CASE answer[j][l] = "acknowledged"
    <3>1. top[l].rev >= calls[j].images[l].rev /\ \A a \in Id : ~Open(a, l)
      BY <2>3 DEF IInv, CallsInv
    <3>2. \A a \in Id : ~Open(a, l)'
      BY <3>1, <1>13
    <3>3. ~(l = k /\ ~(calls[i].epoch < raised[f]))
      BY <3>1, <1>14
    <3>4. top'[l] = top[l]
      BY <3>3, <2>2, <1>8, <1>15
    <3> QED BY <3>1, <3>2, <3>4
  <2>4. CASE answer[j][l] # "acknowledged"
    <3>1. j = i /\ l = k /\ o = "acknowledged"
      BY <2>2, <2>4, <1>9
    <3>2. top'[k].rev = new.rev
      BY <3>1, <1>15
    <3>3. \A a \in Id : Open(a, k)' => a > i
      BY <3>1, <1>8, <1>14
    <3>4. \A a \in Id : a > i => k \notin DOMAIN calls[a].images
      BY <3>1 DEF IInv, CallsInv
    <3>5. \A a \in Id : ~Open(a, k)'
      BY <3>3, <3>4, <1>11, <1>13
    <3> QED BY <3>1, <3>2, <3>5, <2>2, <1>2, <1>n
  <2> QED BY <2>3, <2>4
<1>18. NothingComesBack'
  <2> SUFFICES ASSUME NEW l \in Keys
               PROVE  image'[Holder(l)][l] = top'[l] \/ (image'[Holder(l)][l] = NoImage /\ top'[l].deleted)
    BY <1>12 DEF NothingComesBack
  <2>1. image[Holder(l)][l] = top[l] \/ (image[Holder(l)][l] = NoImage /\ top[l].deleted)
    BY DEF IInv, NothingComesBack
  <2>2. Holder(l) \in Receivers
    BY <1>T, Places
  <2>3. CASE o # "acknowledged"
    BY <2>1, <2>3, <1>8
  <2>4. CASE o = "acknowledged" /\ l # k
    BY <2>1, <2>2, <2>4, <1>15
  <2>5. CASE o = "acknowledged" /\ l = k
    BY <2>5, <1>3, <1>15
  <2> QED BY <2>3, <2>4, <2>5
<1>19. ASSUME NEW l \in Keys
       PROVE  \/ top'[l] = top[l]
              \/ /\ RowInv(l)'
                 /\ \A j \in Id : l \in left'[j] /\ Open(j, l)' => UpTo(top'[l], calls[j].images[l])
  <2>1. CASE o # "acknowledged"
    BY <2>1, <1>8
  <2>2. CASE o = "acknowledged" /\ l # k
    BY <2>2, <1>15
  <2>3. CASE o = "acknowledged" /\ l = k
    <3>1. PICK b : b = Base(k)
      OBVIOUS
    <3>2. /\ owner' = owner /\ importing' = importing /\ item' = item /\ mark' = mark /\ outbox' = outbox
          /\ calls' = calls
      BY <1>0 DEF table, store
    <3>3. Base(k)' = b /\ Last(k)' = Last(k) /\ Id' = Id
      BY <3>1, <3>2 DEF Base, Last, Id
    <3>4. RowInv(k) /\ outbox[b][k].rev # 0 /\ ~outbox[b][k].localOnly
      BY <3>1, <2>3, <1>8, <1>14, KeyFacts DEF Kept
    <3>5. top'[k].rev = new.rev /\ top'[k].deleted = new.deleted
      BY <2>3, <1>15
    <3>6. new.rev <= Last(k) /\ UpTo(new, outbox[b][k])
      BY <3>1, <3>4, <1>2, <1>n DEF RowInv
    <3>7. UpTo(top'[k], outbox[b][k])
      BY <3>5, <3>6 DEF UpTo
    <3>8. RowInv(k)'
      BY <3>1, <3>2, <3>3, <3>4, <3>5, <3>6, <3>7 DEF RowInv
    <3>9. ASSUME NEW j \in Id, Open(j, k)'
          PROVE  UpTo(top'[k], calls[j].images[k])
      <4>1. j > i /\ k \in DOMAIN calls[j].images \cap DOMAIN calls[i].images
        BY <3>9, <2>3, <1>2, <1>8, <1>11, <1>13, <1>14
      <4>2. i \in Nat /\ j \in Nat /\ i < j
        BY <4>1, <1>T, CallTypes
      <4>3. UpTo(new, calls[j].images[k])
        BY <4>1, <4>2, <1>n DEF IInv, CallsInv
      <4> QED BY <4>3, <3>5 DEF UpTo
    <3> QED BY <2>3, <3>8, <3>9
  <2> QED BY <2>1, <2>2, <2>3
<1> QED
  BY <1>16, <1>17, <1>18, <1>19, WireFrame

(***************************************************************************)
(* The cleanup and the repartitions of the materialization table.          *)
(***************************************************************************)
\* The images of a key and the fences of its holder go on at its next holder.
ReceiverStep ==
  /\ UNCHANGED <<owner, importing, router, store, started, inFlight, wire, top>>
  /\ matOwner' \in [Keys -> Receivers] /\ matImporting' \in [Receivers -> Receivers \cup {NoPart}]
  /\ image' \in [Receivers -> [Keys -> Images]] /\ seen' \in [Receivers -> [Parts -> Nat]]
  /\ \A k \in Keys : \E g, h \in Receivers : /\ Holder(k) = g /\ Holder(k)' = h
                                             /\ \A a \in Parts : seen'[h][a] >= seen[g][a]

(* They keep the rest of the invariant. *)
LEMMA ReceiverFrame ==
  ASSUME IInv, ReceiverStep, PartsInv', NothingComesBack'
  PROVE  IInv'
<1> USE DEF store, wire
<1>0. /\ owner' = owner /\ importing' = importing /\ router' = router /\ item' = item /\ mark' = mark
      /\ outbox' = outbox /\ epoch' = epoch /\ callOpen' = callOpen /\ fences' = fences /\ untilId' = untilId
      /\ started' = started /\ inFlight' = inFlight
      /\ calls' = calls /\ left' = left /\ answer' = answer /\ top' = top
  BY DEF ReceiverStep
<1>1. \A k \in Keys : Base(k) \in Parts /\ Base(k)' = Base(k) /\ Last(k)' = Last(k)
  BY <1>0, Places DEF Base, Last, IInv
<1>2. Id' = Id /\ \A a, b \in Id : Covers(b, a)' = Covers(b, a)
  BY <1>0 DEF Id, Covers
<1>3. ASSUME NEW i \in Id, NEW k \in left[i], Open(i, k)'
      PROVE  Open(i, k) /\ k \in Keys
  <2>1. k \in Keys /\ calls[i].from \in Parts /\ calls[i].epoch \in Nat
    BY CallTypes DEF IInv
  <2>2. PICK g, h \in Receivers : Holder(k) = g /\ Holder(k)' = h /\ \A a \in Parts : seen'[h][a] >= seen[g][a]
    BY <2>1 DEF ReceiverStep
  <2>3. PICK a : a = calls[i].from
    OBVIOUS
  <2>4. seen \in [Receivers -> [Parts -> Nat]] /\ seen' \in [Receivers -> [Parts -> Nat]]
    BY DEF IInv, TypeOK, ReceiverStep
  <2>5. seen'[h][a] \in Nat /\ seen[g][a] \in Nat /\ seen'[h][a] >= seen[g][a]
    BY <2>1, <2>2, <2>3, <2>4
  <2>6. seen'[h][a] <= calls[i].epoch
    BY <2>2, <2>3, <1>0, <1>3 DEF Open
  <2>7. seen[g][a] <= calls[i].epoch
    BY <2>1, <2>5, <2>6
  <2> QED BY <2>1, <2>2, <2>3, <2>7 DEF Open
<1>4. TypeOK'
  <2>1. /\ matOwner' \in [Keys -> Receivers] /\ matImporting' \in [Receivers -> Receivers \cup {NoPart}]
        /\ image' \in [Receivers -> [Keys -> Images]] /\ seen' \in [Receivers -> [Parts -> Nat]]
    BY DEF ReceiverStep
  <2> QED BY <2>1, <1>0, <1>2 DEF IInv, TypeOK
<1>5. CallsInv'
  <2>0. CallsInv
    BY DEF IInv
  <2>1. ASSUME NEW i \in Id, NEW k, Open(i, k)'
        PROVE  Open(i, k)
    <3>1. k \in left[i]
      BY <2>1, <1>0 DEF Open
    <3> QED BY <3>1, <2>1, <1>3
  <2>2. ASSUME NEW i \in Id, NEW j \in Id, NEW k \in DOMAIN calls[i].images \cap DOMAIN calls[j].images, i < j
        PROVE  UpTo(calls[i].images[k], calls[j].images[k]) /\ (Open(i, k)' => Covers(j, i)')
    BY <2>0, <2>1, <2>2, <1>2 DEF CallsInv
  <2>3. \A p \in Parts : \A i \in inFlight[p] : \A k \in DOMAIN calls[i].images : owner[k] = p =>
          /\ \A j \in Id : j > i => k \notin DOMAIN calls[j].images
          /\ answer[i][k] = "acknowledged" => /\ top[k].rev >= calls[i].images[k].rev
                                              /\ \A j \in Id : ~Open(j, k)'
    BY <2>0, <2>1 DEF CallsInv
  <2> QED BY <2>0, <2>2, <2>3, <1>0, <1>2 DEF CallsInv
<1>6. RowsInv'
  <2> SUFFICES ASSUME NEW k \in Keys
               PROVE  RowInv(k)'
    BY DEF RowsInv
  <2>1. RowInv(k) /\ Base(k)' = Base(k) /\ Last(k)' = Last(k)
    BY <1>1 DEF IInv, RowsInv
  <2> QED BY <2>1, <1>0, <1>2 DEF RowInv
<1>7. OpenInv'
  <2> SUFFICES ASSUME NEW i \in Id, NEW k \in left[i], Open(i, k)'
               PROVE  Kept(i, k)'
    BY <1>0, <1>2 DEF OpenInv
  <2>1. Open(i, k) /\ k \in Keys
    BY <1>3
  <2>2. PICK b : b = Base(k)
    OBVIOUS
  <2>3. Base(k)' = b /\ outbox[b][k].rev # 0 /\ ~outbox[b][k].localOnly /\ Protected(b, i, k)
        /\ UpTo(top[k], calls[i].images[k])
    BY <2>1, <2>2, <1>1 DEF IInv, OpenInv, Kept
  <2>4. Protected(b, i, k)'
    BY <2>3, <1>0 DEF Protected
  <2> QED BY <2>3, <2>4, <1>0 DEF Kept
<1> QED
  BY <1>4, <1>5, <1>6, <1>7 DEF IInv

(* deleteTombstone: the newest image was a delete. *)
LEMMA TombstoneStep ==
  ASSUME IInv, NEW m \in Receivers, NEW k \in Keys, deleteTombstone(m, k)
  PROVE  IInv'
<1> USE DEF table, store, memory, wire
<1>T. TypeOK
  BY DEF IInv
<1>0. /\ UNCHANGED <<table, store, memory, wire, matOwner, matImporting, seen, top>>
      /\ image[m][k].rev # 0 /\ image[m][k].deleted /\ image' = [image EXCEPT ![m][k] = NoImage]
  BY DEF deleteTombstone
<1>1. image \in [Receivers -> [Keys -> Images]] /\ seen \in [Receivers -> [Parts -> Nat]] /\ NoImage \in Images
  BY <1>T DEF TypeOK, Images, NoImage
<1>2. /\ image' \in [Receivers -> [Keys -> Images]] /\ image'[m][k] = NoImage
      /\ \A r \in Receivers, l \in Keys : r # m \/ l # k => image'[r][l] = image[r][l]
  BY <1>0, <1>1
<1>3. \A l \in Keys : Holder(l)' = Holder(l) /\ Holder(l) \in Receivers
  BY <1>0, <1>T, Places DEF Holder
<1>4. ReceiverStep
  <2>1. \A l \in Keys : \E g, h \in Receivers : /\ Holder(l) = g /\ Holder(l)' = h
                                                /\ \A a \in Parts : seen'[h][a] >= seen[g][a]
    <3>1. \A r \in Receivers, a \in Parts : seen'[r][a] >= seen[r][a]
      BY <1>0, <1>1
    <3> QED BY <3>1, <1>3
  <2> QED BY <2>1, <1>0, <1>1, <1>2, <1>T DEF ReceiverStep, TypeOK
<1>5. PartsInv'
  BY <1>0 DEF IInv, PartsInv, Id
<1>6. NothingComesBack'
  <2> SUFFICES ASSUME NEW l \in Keys
               PROVE  image'[Holder(l)][l] = top[l] \/ (image'[Holder(l)][l] = NoImage /\ top[l].deleted)
    BY <1>0, <1>3 DEF NothingComesBack
  <2>1. image[Holder(l)][l] = top[l] \/ (image[Holder(l)][l] = NoImage /\ top[l].deleted)
    BY DEF IInv, NothingComesBack
  <2>2. CASE Holder(l) = m /\ l = k
    <3>1. NoImage.rev = 0
      BY DEF NoImage
    <3> QED BY <3>1, <2>1, <2>2, <1>0, <1>2
  <2>3. CASE ~(Holder(l) = m /\ l = k)
    BY <2>1, <2>3, <1>2, <1>3
  <2> QED BY <2>2, <2>3
<1> QED
  BY <1>4, <1>5, <1>6, ReceiverFrame

(* matCutover: the source stays the holder until the import. *)
LEMMA MatCutoverStep ==
  ASSUME IInv, NEW plan \in MatPlans, matCutover(plan)
  PROVE  IInv'
<1> USE DEF store, memory, wire
<1>T. TypeOK /\ PartsInv
  BY DEF IInv
<1>p. PICK m, c, new : m = plan.from /\ c = plan.child /\ new = Targets(plan)
  OBVIOUS
<1>0. /\ matImporting[m] = NoPart /\ \A k \in DOMAIN c : matOwner[k] = m
      /\ new \cap made = {} /\ made' = made \cup new
      /\ matOwner' = [k \in Keys |-> IF k \in DOMAIN c THEN c[k] ELSE matOwner[k]]
      /\ matImporting' = [n \in Receivers |-> IF n \in new THEN m ELSE matImporting[n]]
      /\ UNCHANGED <<owner, importing, router, store, memory, wire, image, seen, top>>
  BY <1>p DEF matCutover
<1>1. /\ m \in Receivers /\ DOMAIN c \subseteq Keys /\ \A k \in DOMAIN c : c[k] \in Receivers /\ c[k] \in new
      /\ new = {c[k] : k \in DOMAIN c} /\ new \subseteq Receivers
  BY <1>p, PartsAreValid DEF Targets
<1>2. /\ matOwner \in [Keys -> Receivers] /\ matImporting \in [Receivers -> Receivers \cup {NoPart}]
      /\ image \in [Receivers -> [Keys -> Images]] /\ seen \in [Receivers -> [Parts -> Nat]]
      /\ \A k \in Keys : matOwner[k] \in made
      /\ \A n \in Receivers : matImporting[n] # NoPart =>
           n \in made /\ matImporting[n] \in made /\ matImporting[matImporting[n]] = NoPart
  BY <1>T DEF TypeOK, PartsInv
<1>3. /\ matOwner' \in [Keys -> Receivers] /\ matImporting' \in [Receivers -> Receivers \cup {NoPart}]
      /\ \A k \in Keys : matOwner'[k] = IF k \in DOMAIN c THEN c[k] ELSE matOwner[k]
      /\ \A n \in Receivers : matImporting'[n] = IF n \in new THEN m ELSE matImporting[n]
  BY <1>0, <1>1, <1>2
<1>4. \A n \in new : m \in made
  BY <1>0, <1>1, <1>2
<1>5. ASSUME NEW k \in Keys
      PROVE  Holder(k)' = Holder(k) /\ Holder(k) \in Receivers
  <2>0. m # NoPart
    BY <1>1, PartsAreValid
  <2>1. CASE k \in DOMAIN c
    BY <2>0, <2>1, <1>0, <1>1, <1>3 DEF Holder
  <2>2. CASE k \notin DOMAIN c
    <3>1. matOwner[k] \notin new /\ matOwner[k] \in Receivers
      BY <1>0, <1>2
    <3> QED BY <3>1, <2>2, <1>3 DEF Holder
  <2>3. Holder(k) \in Receivers
    BY <1>T, Places
  <2> QED BY <2>1, <2>2, <2>3
<1>6. PartsInv'
  <2>1. \A k \in Keys : matOwner'[k] \in made'
    BY <1>0, <1>1, <1>2, <1>3
  <2>2. ASSUME NEW n \in Receivers, matImporting'[n] # NoPart
        PROVE  n \in made' /\ matImporting'[n] \in made' /\ matImporting'[matImporting'[n]] = NoPart
    <3>1. CASE n \in new
      <4>1. m \in made /\ m \notin new /\ matImporting'[n] = m
        BY <3>1, <1>0, <1>3, <1>4
      <4> QED BY <4>1, <3>1, <1>0, <1>1, <1>3
    <3>2. CASE n \notin new
      <4>1. PICK x : x = matImporting[n]
        OBVIOUS
      <4>2. matImporting'[n] = x /\ x # NoPart /\ x \in made /\ n \in made /\ matImporting[x] = NoPart /\ x \notin new
            /\ x \in Receivers
        BY <4>1, <3>2, <2>2, <1>0, <1>2, <1>3
      <4> QED BY <4>2, <1>0, <1>3
    <3> QED BY <3>1, <3>2
  <2>3. /\ \A k \in Keys : owner[k] \in made' /\ ~router[owner[k]]
        /\ \A p \in Parts : importing[p] # NoPart =>
             importing[p] \in made' /\ importing[importing[p]] = NoPart /\ \A i \in Id : calls[i].from # p
        /\ \A p \in Parts : importing[p] # NoPart \/ router[p] => p \in made'
        /\ \A i \in Id : calls[i].from \in made'
    BY <1>0, <1>T DEF PartsInv
  <2>4. owner' = owner /\ importing' = importing /\ router' = router /\ calls' = calls /\ Id' = Id
    BY <1>0 DEF Id
  <2> QED BY <2>1, <2>2, <2>3, <2>4 DEF PartsInv
<1>7. ReceiverStep
  <2>1. \A k \in Keys : \E g, h \in Receivers : /\ Holder(k) = g /\ Holder(k)' = h
                                                /\ \A a \in Parts : seen'[h][a] >= seen[g][a]
    <3>1. \A r \in Receivers, a \in Parts : seen'[r][a] >= seen[r][a]
      BY <1>0, <1>2
    <3> QED BY <3>1, <1>5
  <2> QED BY <2>1, <1>0, <1>2, <1>3 DEF ReceiverStep
<1>8. NothingComesBack'
  BY <1>0, <1>5 DEF IInv, NothingComesBack
<1> QED
  BY <1>6, <1>7, <1>8, ReceiverFrame

(* matImport: the target has the images and the fences of its source. *)
LEMMA MatImportStep ==
  ASSUME IInv, NEW n \in Receivers, matImport(n)
  PROVE  IInv'
<1> USE DEF table, store, memory, wire
<1>T. TypeOK /\ PartsInv
  BY DEF IInv
<1>p. PICK m : m = matImporting[n]
  OBVIOUS
<1>0. /\ m # NoPart /\ matImporting' = [matImporting EXCEPT ![n] = NoPart]
      /\ image' = [image EXCEPT ![n] = [k \in Keys |-> IF matOwner[k] = n THEN image[m][k] ELSE NoImage]]
      /\ seen' = [seen EXCEPT ![n] = [a \in Parts |-> Greater(@[a], seen[m][a])]]
      /\ UNCHANGED <<table, store, memory, wire, matOwner, top>>
  BY <1>p DEF matImport
<1>1. /\ matOwner \in [Keys -> Receivers] /\ matImporting \in [Receivers -> Receivers \cup {NoPart}]
      /\ image \in [Receivers -> [Keys -> Images]] /\ seen \in [Receivers -> [Parts -> Nat]] /\ NoImage \in Images
  BY <1>T DEF TypeOK, NoImage, Images
<1>2. m \in Receivers /\ matImporting[m] = NoPart /\ m # n
  BY <1>0, <1>1, <1>p, <1>T DEF PartsInv
<1>3. /\ matImporting' \in [Receivers -> Receivers \cup {NoPart}] /\ matImporting'[n] = NoPart
      /\ \A r \in Receivers : r # n => matImporting'[r] = matImporting[r]
  BY <1>0, <1>1
<1>4. /\ image' \in [Receivers -> [Keys -> Images]]
      /\ \A k \in Keys : matOwner[k] = n => image'[n][k] = image[m][k]
      /\ \A r \in Receivers : r # n => image'[r] = image[r]
  <2>1. PICK f : f = [k \in Keys |-> IF matOwner[k] = n THEN image[m][k] ELSE NoImage]
    OBVIOUS
  <2>2. f \in [Keys -> Images] /\ \A k \in Keys : matOwner[k] = n => f[k] = image[m][k]
    BY <2>1, <1>1, <1>2
  <2> QED BY <2>1, <2>2, <1>0, <1>1
<1>5. /\ seen' \in [Receivers -> [Parts -> Nat]]
      /\ \A a \in Parts : seen'[n][a] >= seen[m][a]
      /\ \A r \in Receivers : r # n => seen'[r] = seen[r]
  <2>1. PICK f : f = [a \in Parts |-> Greater(seen[n][a], seen[m][a])]
    OBVIOUS
  <2>2. \A a \in Parts : seen[n][a] \in Nat /\ seen[m][a] \in Nat
    BY <1>1, <1>2
  <2>3. f \in [Parts -> Nat] /\ \A a \in Parts : f[a] >= seen[m][a]
    BY <2>1, <2>2 DEF Greater
  <2>4. seen' = [seen EXCEPT ![n] = f]
    BY <2>1, <1>0
  <2> QED BY <2>3, <2>4, <1>1
<1>6. ASSUME NEW k \in Keys
      PROVE  \/ matOwner[k] = n /\ Holder(k) = m /\ Holder(k)' = n
             \/ Holder(k)' = Holder(k) /\ Holder(k) # n /\ Holder(k) \in Receivers
  <2>1. CASE matOwner[k] = n
    BY <2>1, <1>0, <1>3, <1>p DEF Holder
  <2>2. CASE matOwner[k] # n
    <3>1. matOwner[k] \in Receivers /\ matImporting'[matOwner[k]] = matImporting[matOwner[k]]
      BY <2>2, <1>1, <1>3
    <3>2. Holder(k)' = Holder(k)
      BY <3>1, <1>0 DEF Holder
    <3>3. Holder(k) # n
      BY <3>1, <2>2, <1>0, <1>p, <1>T DEF Holder, PartsInv
    <3>4. Holder(k) \in Receivers
      BY <1>T, Places
    <3> QED BY <3>2, <3>3, <3>4
  <2> QED BY <2>1, <2>2
<1>7. PartsInv'
  <2>1. ASSUME NEW r \in Receivers, matImporting'[r] # NoPart
        PROVE  r \in made /\ matImporting'[r] \in made /\ matImporting'[matImporting'[r]] = NoPart
    <3>1. PICK x : x = matImporting[r]
      OBVIOUS
    <3>2. r # n /\ matImporting'[r] = x /\ x # NoPart
      BY <3>1, <2>1, <1>3
    <3>3. r \in made /\ x \in made /\ matImporting[x] = NoPart /\ x \in Receivers
      BY <3>1, <3>2, <1>1, <1>T DEF PartsInv
    <3> QED BY <3>2, <3>3, <1>3
  <2>2. owner' = owner /\ importing' = importing /\ router' = router /\ calls' = calls /\ Id' = Id /\ made' = made
        /\ matOwner' = matOwner
    BY <1>0 DEF Id
  <2> QED BY <2>1, <2>2, <1>T DEF PartsInv
<1>8. ReceiverStep
  <2>1. ASSUME NEW k \in Keys
        PROVE  \E g, h \in Receivers : Holder(k) = g /\ Holder(k)' = h /\ \A a \in Parts : seen'[h][a] >= seen[g][a]
    <3>1. CASE matOwner[k] = n /\ Holder(k) = m /\ Holder(k)' = n
      BY <3>1, <1>2, <1>5
    <3>2. CASE Holder(k)' = Holder(k) /\ Holder(k) # n /\ Holder(k) \in Receivers
      <4>1. PICK h \in Receivers : h = Holder(k)
        BY <3>2
      <4>2. \A a \in Parts : seen'[h][a] >= seen[h][a]
        BY <4>1, <3>2, <1>1, <1>5
      <4>3. Holder(k) = h /\ Holder(k)' = h
        BY <4>1, <3>2
      <4> QED BY <4>2, <4>3
    <3> QED BY <3>1, <3>2, <1>6
  <2> QED BY <2>1, <1>0, <1>1, <1>3, <1>4, <1>5 DEF ReceiverStep
<1>9. NothingComesBack'
  <2> SUFFICES ASSUME NEW k \in Keys, NEW h, h = Holder(k)'
               PROVE  image'[h][k] = top[k] \/ (image'[h][k] = NoImage /\ top[k].deleted)
    BY <1>0 DEF NothingComesBack
  <2>1. image[Holder(k)][k] = top[k] \/ (image[Holder(k)][k] = NoImage /\ top[k].deleted)
    BY DEF IInv, NothingComesBack
  <2> QED BY <2>1, <1>4, <1>6
<1> QED
  BY <1>7, <1>8, <1>9, ReceiverFrame

(***************************************************************************)
(* The repartitions of the base table.                                     *)
(***************************************************************************)
(* onRepartitionCutover: the source keeps the rows, and its epoch rises. *)
LEMMA CutoverStep ==
  ASSUME IInv, NEW plan \in Plans, onRepartitionCutover(plan)
  PROVE  IInv'
<1> USE DEF memory, wire, receivers
<1>T. TypeOK /\ PartsInv
  BY DEF IInv
<1>p. PICK p, c, new : p = plan.from /\ c = plan.child /\ new = Targets(plan)
  OBVIOUS
<1>0. /\ p \in made /\ importing[p] = NoPart /\ \A k \in DOMAIN c : owner[k] = p
      /\ new \cap made = {} /\ made' = made \cup new
      /\ plan.router => DOMAIN c = {k \in Keys : owner[k] = p}
      /\ owner' = [k \in Keys |-> IF k \in DOMAIN c THEN c[k] ELSE owner[k]]
      /\ importing' = [q \in Parts |-> IF q \in new THEN p ELSE importing[q]]
      /\ router' = [router EXCEPT ![p] = plan.router] /\ epoch' = [epoch EXCEPT ![p] = @ + 1]
  BY <1>p DEF onRepartitionCutover, canRun, owns
<1>U. UNCHANGED <<item, mark, outbox, callOpen, fences, untilId, memory, wire, receivers>>
  BY DEF onRepartitionCutover
<1>1. /\ p \in Parts /\ plan.router \in BOOLEAN /\ DOMAIN c \subseteq Keys
      /\ \A k \in DOMAIN c : c[k] \in Parts /\ c[k] \in new
      /\ new = {c[k] : k \in DOMAIN c} /\ new \subseteq Parts
  BY <1>p, PartsAreValid DEF Targets
<1>2. /\ owner \in [Keys -> Parts] /\ importing \in [Parts -> Parts \cup {NoPart}] /\ router \in [Parts -> BOOLEAN]
      /\ epoch \in [Parts -> Nat] /\ p # NoPart
  BY <1>1, <1>T, PartsAreValid DEF TypeOK
<1>3. /\ owner' \in [Keys -> Parts] /\ importing' \in [Parts -> Parts \cup {NoPart}] /\ router' \in [Parts -> BOOLEAN]
      /\ epoch' \in [Parts -> Nat]
      /\ \A k \in Keys : owner'[k] = IF k \in DOMAIN c THEN c[k] ELSE owner[k]
      /\ \A q \in Parts : importing'[q] = IF q \in new THEN p ELSE importing[q]
      /\ \A q \in Parts : q # p => router'[q] = router[q] /\ epoch'[q] = epoch[q]
      /\ router'[p] = plan.router /\ epoch'[p] = epoch[p] + 1
  <2>1. owner' \in [Keys -> Parts] /\ \A k \in Keys : owner'[k] = IF k \in DOMAIN c THEN c[k] ELSE owner[k]
    BY <1>0, <1>1, <1>2
  <2>2. /\ importing' \in [Parts -> Parts \cup {NoPart}]
        /\ \A q \in Parts : importing'[q] = IF q \in new THEN p ELSE importing[q]
    BY <1>0, <1>1, <1>2
  <2>3. /\ router' \in [Parts -> BOOLEAN] /\ router'[p] = plan.router
        /\ \A q \in Parts : q # p => router'[q] = router[q]
    BY <1>0, <1>1, <1>2
  <2>4. epoch' \in [Parts -> Nat] /\ epoch'[p] = epoch[p] + 1 /\ \A q \in Parts : q # p => epoch'[q] = epoch[q]
    BY <1>0, <1>1, <1>2
  <2> QED BY <2>1, <2>2, <2>3, <2>4
<1>4. ASSUME NEW k \in Keys
      PROVE  /\ Base(k) \in Parts /\ Base(k)' = Base(k)
             /\ Base(k) # p => owner'[k] = owner[k] /\ importing'[owner[k]] = importing[owner[k]]
  <2>1. CASE k \in DOMAIN c
    BY <2>1, <1>0, <1>1, <1>2, <1>3 DEF Base
  <2>2. CASE k \notin DOMAIN c
    <3>1. owner[k] \notin new /\ owner[k] \in Parts
      BY <1>0, <1>2, <1>T DEF PartsInv
    <3> QED BY <3>1, <2>2, <1>3 DEF Base
  <2>3. Base(k) \in Parts
    BY <1>T, Places
  <2> QED BY <2>1, <2>2, <2>3
<1>5. \A k \in Keys : Last(k)' = Last(k)
  BY <1>4, <1>U DEF Last
<1>6. \A i, k : Open(i, k)' = Open(i, k)
  BY <1>U DEF Open, Holder
<1>7. Id' = Id /\ \A i, j \in Id : Covers(j, i)' = Covers(j, i)
  BY <1>U DEF Id, Covers
<1>8. TypeOK'
  BY <1>3, <1>7, <1>U, <1>T DEF TypeOK
<1>9. PartsInv'
  <2>1. ASSUME NEW k \in Keys
        PROVE  owner'[k] \in made' /\ matOwner[k] \in made' /\ ~router'[owner'[k]]
    <3>1. owner[k] \in made /\ matOwner[k] \in made /\ ~router[owner[k]] /\ owner[k] \in Parts
      BY <1>2, <1>T DEF PartsInv
    <3>2. CASE k \in DOMAIN c
      <4>1. owner'[k] = c[k] /\ c[k] \in new /\ c[k] \in Parts /\ c[k] # p /\ c[k] \notin made
        BY <3>2, <1>0, <1>1, <1>3
      <4>2. ~router[c[k]]
        BY <4>1, <1>T DEF PartsInv
      <4> QED BY <4>1, <4>2, <3>1, <1>0, <1>3
    <3>3. CASE k \notin DOMAIN c
      BY <3>1, <3>3, <1>0, <1>3
    <3> QED BY <3>2, <3>3
  <2>2. ASSUME NEW q \in Parts, importing'[q] # NoPart
        PROVE  /\ importing'[q] \in made' /\ importing'[importing'[q]] = NoPart /\ q \in made'
               /\ \A i \in Id : calls[i].from # q
    <3>1. CASE q \in new
      <4>1. importing'[q] = p /\ p \in made /\ p \notin new
        BY <3>1, <1>0, <1>3
      <4>2. \A i \in Id : calls[i].from # q
        BY <3>1, <1>0, <1>T DEF PartsInv
      <4> QED BY <4>1, <4>2, <3>1, <1>0, <1>1, <1>3
    <3>2. CASE q \notin new
      <4>1. PICK x : x = importing[q]
        OBVIOUS
      <4>2. importing'[q] = x /\ x # NoPart
        BY <4>1, <3>2, <2>2, <1>3
      <4>3. x \in Parts /\ x \in made /\ importing[x] = NoPart /\ q \in made /\ \A i \in Id : calls[i].from # q
        BY <4>1, <4>2, <1>2, <1>T DEF PartsInv
      <4> QED BY <4>2, <4>3, <1>0, <1>3
    <3> QED BY <3>1, <3>2
  <2>3. \A q \in Parts : router'[q] => q \in made'
    BY <1>0, <1>3, <1>T DEF PartsInv
  <2>4. /\ \A m \in Receivers : matImporting[m] # NoPart =>
             m \in made' /\ matImporting[m] \in made' /\ matImporting[matImporting[m]] = NoPart
        /\ \A i \in Id : calls[i].from \in made'
    BY <1>0, <1>T DEF PartsInv
  <2>5. matOwner' = matOwner /\ matImporting' = matImporting /\ calls' = calls
    BY <1>U
  <2> QED BY <2>1, <2>2, <2>3, <2>4, <2>5, <1>7 DEF PartsInv
<1>10. CallsInv'
  <2>0. CallsInv
    BY DEF IInv
  <2>1. \A i \in Id : calls[i].epoch <= epoch'[calls[i].from]
    <3>1. \A i \in Id : calls[i].from \in Parts /\ calls[i].epoch \in Nat /\ calls[i].epoch <= epoch[calls[i].from]
      BY <2>0, <1>T, CallTypes DEF CallsInv
    <3>2. \A q \in Parts : epoch'[q] >= epoch[q] /\ epoch[q] \in Nat /\ epoch'[q] \in Nat
      BY <1>2, <1>3
    <3> QED BY <3>1, <3>2
  <2>2. ASSUME NEW q \in Parts, NEW i \in inFlight[q], NEW k \in DOMAIN calls[i].images, owner'[k] = q
        PROVE  owner[k] = q
    <3>1. i \in Id /\ calls[i].from = q
      BY <2>0 DEF CallsInv
    <3>2. k \in Keys /\ q \in made
      BY <3>1, <1>T, CallTypes DEF PartsInv
    <3> QED BY <3>2, <2>2, <1>0, <1>1, <1>3
  <2>3. /\ calls' = calls /\ left' = left /\ answer' = answer /\ inFlight' = inFlight /\ started' = started
        /\ callOpen' = callOpen /\ top' = top
    BY <1>U
  <2> QED BY <2>0, <2>1, <2>2, <2>3, <1>6, <1>7 DEF CallsInv
<1>11. RowsInv'
  <2> SUFFICES ASSUME NEW k \in Keys
               PROVE  RowInv(k)'
    BY DEF RowsInv
  <2>1. RowInv(k) /\ Base(k)' = Base(k) /\ Last(k)' = Last(k)
    BY <1>4, <1>5 DEF IInv, RowsInv
  <2>2. calls' = calls /\ item' = item /\ outbox' = outbox /\ top' = top
    BY <1>U
  <2> QED BY <2>1, <2>2, <1>7 DEF RowInv
<1>12. OpenInv'
  <2>0. /\ calls' = calls /\ left' = left /\ inFlight' = inFlight /\ started' = started /\ callOpen' = callOpen
        /\ outbox' = outbox /\ fences' = fences /\ untilId' = untilId /\ top' = top
    BY <1>U
  <2> SUFFICES ASSUME NEW i \in Id, NEW k \in left[i], Open(i, k)
               PROVE  Kept(i, k)'
    BY <2>0, <1>6, <1>7 DEF OpenInv
  <2>1. k \in Keys /\ calls[i].from \in Parts /\ calls[i].epoch \in Nat /\ calls[i].epoch <= epoch[calls[i].from]
    BY <1>T, CallTypes DEF IInv, CallsInv
  <2>2. PICK b : b = Base(k)
    OBVIOUS
  <2>3. Base(k)' = b /\ outbox[b][k].rev # 0 /\ ~outbox[b][k].localOnly /\ Protected(b, i, k)
        /\ UpTo(top[k], calls[i].images[k]) /\ b \in Parts
    BY <2>1, <2>2, <1>4 DEF IInv, OpenInv, Kept
  <2>4. Protected(b, i, k)'
    <3>1. CASE b = p /\ calls[i].from = p
      <4>1. calls[i].epoch < epoch'[p]
        BY <3>1, <2>1, <1>1, <1>2, <1>3
      <4> QED BY <4>1, <3>1, <2>0 DEF Protected
    <3>2. CASE b # p /\ calls[i].from = b
      <4>1. owner'[k] = owner[k] /\ importing'[owner[k]] = importing[owner[k]] /\ epoch'[b] = epoch[b]
        BY <3>2, <2>1, <2>2, <2>3, <1>3, <1>4
      <4> QED BY <4>1, <3>2, <2>0, <2>3 DEF Protected
    <3>3. CASE calls[i].from # b
      BY <3>3, <2>0, <2>3 DEF Protected
    <3> QED BY <3>1, <3>2, <3>3
  <2> QED BY <2>0, <2>3, <2>4 DEF Kept
<1>13. NothingComesBack'
  BY <1>U DEF IInv, NothingComesBack, Holder
<1> QED
  BY <1>8, <1>9, <1>10, <1>11, <1>12, <1>13 DEF IInv

(* import: the rows, with the fences of the calls that may still apply. *)
LEMMA ImportStep ==
  ASSUME IInv, NEW q \in Parts, import(q)
  PROVE  IInv'
<1> USE DEF memory, wire, receivers
<1>T. TypeOK /\ PartsInv
  BY DEF IInv
<1>p. PICK p, moved, rows : p = importing[q] /\ moved = {k \in Keys : owner[k] = q}
                            /\ rows = {k \in moved : HasRow(p, k)}
  OBVIOUS
<1>0. /\ p # NoPart /\ importing' = [importing EXCEPT ![q] = NoPart]
      /\ item' = [item EXCEPT ![q] = [k \in Keys |-> IF k \in moved THEN item[p][k] ELSE 0]]
      /\ mark' = [mark EXCEPT ![q] = Greater(@, mark[p])]
      /\ insertMigratedOutboxRows(p, q, rows) /\ importExportFences(p, q, rows)
  BY <1>p DEF import
<1>U. UNCHANGED <<owner, router, made, epoch, callOpen, memory, wire, receivers>>
  BY DEF import
<1>1. /\ importing \in [Parts -> Parts \cup {NoPart}] /\ item \in [Parts -> [Keys -> Nat]] /\ mark \in [Parts -> Nat]
      /\ DOMAIN outbox = Parts /\ (\A r \in Parts : DOMAIN outbox[r] = Keys)
      /\ (\A r \in Parts, k \in Keys : IsRow(outbox[r][k]))
      /\ epoch \in [Parts -> Nat] /\ fences \in [Parts -> [Parts -> Nat]] /\ untilId \in [Parts -> Nat]
      /\ owner \in [Keys -> Parts]
  BY <1>T DEF TypeOK
<1>2. p \in Parts /\ p \in made /\ importing[p] = NoPart /\ p # q /\ \A i \in Id : calls[i].from # q
  BY <1>0, <1>1, <1>p, <1>T DEF PartsInv
<1>3. /\ importing' \in [Parts -> Parts \cup {NoPart}] /\ importing'[q] = NoPart
      /\ \A r \in Parts : r # q => importing'[r] = importing[r]
  BY <1>0, <1>1
<1>4. /\ item' \in [Parts -> [Keys -> Nat]] /\ \A k \in moved : item'[q][k] = item[p][k]
      /\ \A r \in Parts : r # q => item'[r] = item[r]
  <2>1. PICK f : f = [k \in Keys |-> IF k \in moved THEN item[p][k] ELSE 0]
    OBVIOUS
  <2>2. f \in [Keys -> Nat] /\ \A k \in moved : f[k] = item[p][k]
    BY <2>1, <1>1, <1>2, <1>p
  <2> QED BY <2>1, <2>2, <1>0, <1>1
<1>5. mark' \in [Parts -> Nat] /\ mark'[q] >= mark[p] /\ \A r \in Parts : r # q => mark'[r] = mark[r]
  <2>1. mark[q] \in Nat /\ mark[p] \in Nat
    BY <1>1, <1>2
  <2>2. Greater(mark[q], mark[p]) \in Nat /\ Greater(mark[q], mark[p]) >= mark[p]
    BY <2>1 DEF Greater
  <2> QED BY <2>2, <1>0, <1>1
<1>6. IsFiniteSet(rows) /\ Cardinality(rows) \in Nat /\ rows \subseteq Keys
  <2>1. rows \subseteq Keys
    BY <1>p
  <2>2. IsFiniteSet(rows)
    BY <2>1, KeysAreFinite, FS_Subset
  <2> QED BY <2>1, <2>2, FS_CardinalityType
<1>7. /\ DOMAIN outbox' = Parts /\ (\A r \in Parts : DOMAIN outbox'[r] = Keys)
      /\ (\A r \in Parts : r # q => outbox'[r] = outbox[r])
      /\ \A k \in rows : /\ outbox'[q][k].rev = outbox[p][k].rev /\ outbox'[q][k].deleted = outbox[p][k].deleted
                         /\ outbox'[q][k].localOnly = FALSE /\ outbox'[q][k].id <= Cardinality(rows)
                         /\ IsRow(outbox'[q][k])
      /\ \A k \in Keys \ rows : outbox'[q][k].rev = 0 /\ IsRow(outbox'[q][k])
  <2>1. PICK place : place = [k \in Keys |-> Cardinality({j \in rows : outbox[p][j].id <= outbox[p][k].id})]
    OBVIOUS
  <2>2. PICK f : f = [k \in Keys |-> IF k \in rows THEN Row(outbox[p][k].rev, outbox[p][k].deleted, FALSE, place[k], TRUE)
                                     ELSE NoRow]
    OBVIOUS
  <2>3. outbox' = [outbox EXCEPT ![q] = f]
    <3>1. f = [k \in Keys |-> IF k \in rows
                   THEN Row(outbox[p][k].rev, outbox[p][k].deleted, FALSE,
                            Cardinality({j \in rows : outbox[p][j].id <= outbox[p][k].id}), TRUE)
                   ELSE NoRow]
      BY <2>1, <2>2
    <3> QED BY <3>1, <1>0 DEF insertMigratedOutboxRows
  <2>4. \A k \in Keys : place[k] \in Nat /\ place[k] <= Cardinality(rows)
    <3> SUFFICES ASSUME NEW k \in Keys
                 PROVE  place[k] \in Nat /\ place[k] <= Cardinality(rows)
      OBVIOUS
    <3>1. PICK S : S = {j \in rows : outbox[p][j].id <= outbox[p][k].id}
      OBVIOUS
    <3>2. S \subseteq rows /\ place[k] = Cardinality(S)
      BY <3>1, <2>1
    <3>3. IsFiniteSet(S) /\ Cardinality(S) <= Cardinality(rows)
      BY <3>2, <1>6, FS_Subset
    <3>4. Cardinality(S) \in Nat
      BY <3>3, FS_CardinalityType
    <3> QED BY <3>2, <3>3, <3>4
  <2>5. DOMAIN f = Keys /\ outbox'[q] = f
    BY <2>2, <2>3, <1>1
  <2>6. ASSUME NEW k \in rows
        PROVE  /\ f[k].rev = outbox[p][k].rev /\ f[k].deleted = outbox[p][k].deleted
               /\ f[k].localOnly = FALSE /\ f[k].id <= Cardinality(rows) /\ IsRow(f[k])
    <3>1. f[k] = Row(outbox[p][k].rev, outbox[p][k].deleted, FALSE, place[k], TRUE)
      BY <2>2, <2>6, <1>6
    <3>2. /\ f[k].rev = outbox[p][k].rev /\ f[k].deleted = outbox[p][k].deleted
          /\ f[k].localOnly = FALSE /\ f[k].id = place[k]
      BY <3>1 DEF Row
    <3>3. IsRow(outbox[p][k])
      BY <1>1, <1>2, <1>6
    <3>4. IsRow(f[k])
      BY <3>2, <3>3 DEF IsRow
    <3>5. f[k].id <= Cardinality(rows)
      BY <3>2, <2>4, <1>6
    <3> QED BY <3>2, <3>4, <3>5
  <2>7. ASSUME NEW k \in Keys \ rows
        PROVE  f[k].rev = 0 /\ IsRow(f[k])
    <3>1. f[k] = NoRow
      BY <2>2, <2>7
    <3> QED BY <3>1 DEF NoRow, Row, IsRow
  <2>8. DOMAIN outbox' = Parts /\ \A r \in Parts : r # q => outbox'[r] = outbox[r]
    BY <2>3, <1>1
  <2> QED BY <2>5, <2>6, <2>7, <2>8, <1>1
<1>8. /\ untilId' \in [Parts -> Nat] /\ untilId'[q] = Cardinality(rows)
      /\ \A r \in Parts : r # q => untilId'[r] = untilId[r]
  BY <1>0, <1>1, <1>6 DEF importExportFences
<1>9. /\ fences' \in [Parts -> [Parts -> Nat]] /\ \A r \in Parts : r # q => fences'[r] = fences[r]
      /\ rows # {} => /\ fences'[q][p] >= epoch[p]
                      /\ \A a \in Parts : a # p => fences'[q][a] = fences[p][a]
  <2>1. PICK g : g = Greater(fences[p][p], epoch[p])
    OBVIOUS
  <2>2. g \in Nat /\ g >= epoch[p]
    <3>1. fences[p][p] \in Nat /\ epoch[p] \in Nat
      BY <1>1, <1>2
    <3> QED BY <3>1, <2>1 DEF Greater
  <2>3. PICK f : f = [a \in Parts |-> IF rows = {} THEN 0 ELSE IF a = p THEN g ELSE fences[p][a]]
    OBVIOUS
  <2>4. f \in [Parts -> Nat]
    BY <2>2, <2>3, <1>1, <1>2
  <2>5. rows # {} => f[p] = g /\ \A a \in Parts : a # p => f[a] = fences[p][a]
    BY <2>3, <1>2
  <2>6. fences' = [fences EXCEPT ![q] = f]
    BY <2>1, <2>3, <1>0 DEF importExportFences
  <2>7. fences' \in [Parts -> [Parts -> Nat]] /\ fences'[q] = f /\ \A r \in Parts : r # q => fences'[r] = fences[r]
    BY <2>4, <2>6, <1>1
  <2> QED BY <2>2, <2>5, <2>7
<1>10. ASSUME NEW k \in Keys
       PROVE  \/ owner[k] = q /\ k \in moved /\ Base(k) = p /\ Base(k)' = q
              \/ k \notin moved /\ Base(k)' = Base(k) /\ Base(k) # q /\ Base(k) \in Parts
                 /\ importing'[owner[k]] = importing[owner[k]]
  <2>1. CASE owner[k] = q
    BY <2>1, <1>0, <1>3, <1>p, <1>U DEF Base
  <2>2. CASE owner[k] # q
    <3>1. owner[k] \in Parts /\ importing'[owner[k]] = importing[owner[k]]
      BY <2>2, <1>1, <1>3
    <3>2. Base(k)' = Base(k)
      BY <3>1, <1>U DEF Base
    <3>3. Base(k) # q
      BY <3>1, <2>2, <1>0, <1>p, <1>T DEF Base, PartsInv
    <3>4. Base(k) \in Parts
      BY <1>T, Places
    <3> QED BY <3>1, <3>2, <3>3, <3>4, <2>2, <1>p
  <2> QED BY <2>1, <2>2
<1>11. \A i, k : Open(i, k)' = Open(i, k)
  BY <1>U DEF Open, Holder
<1>12. Id' = Id /\ \A i, j \in Id : Covers(j, i)' = Covers(j, i)
  BY <1>U DEF Id, Covers
<1>13. TypeOK'
  <2>1. \A r \in Parts, k \in Keys : IsRow(outbox'[r][k])
    BY <1>1, <1>7
  <2> QED BY <2>1, <1>3, <1>4, <1>5, <1>7, <1>8, <1>9, <1>12, <1>U, <1>T DEF TypeOK
<1>14. PartsInv'
  <2>1. ASSUME NEW r \in Parts, importing'[r] # NoPart
        PROVE  /\ importing'[r] \in made /\ importing'[importing'[r]] = NoPart /\ r \in made
               /\ \A i \in Id : calls[i].from # r
    <3>1. PICK x : x = importing[r]
      OBVIOUS
    <3>2. r # q /\ importing'[r] = x /\ x # NoPart
      BY <3>1, <2>1, <1>3
    <3>3. x \in Parts /\ x \in made /\ importing[x] = NoPart /\ r \in made /\ \A i \in Id : calls[i].from # r
      BY <3>1, <3>2, <1>1, <1>T DEF PartsInv
    <3> QED BY <3>2, <3>3, <1>3
  <2> QED BY <2>1, <1>12, <1>U, <1>T DEF PartsInv
<1>15. CallsInv'
  BY <1>11, <1>12, <1>U DEF IInv, CallsInv
<1>16. RowsInv'
  <2> SUFFICES ASSUME NEW k \in Keys
               PROVE  RowInv(k)'
    BY DEF RowsInv
  <2>0. /\ RowInv(k) /\ Last(k) \in Nat /\ top[k].rev \in Nat
        /\ \A i \in Id : k \in DOMAIN calls[i].images => calls[i].images[k].rev \in Nat
    BY <1>T, KeyFacts, CallTypes
  <2>1. CASE owner[k] = q /\ k \in moved /\ Base(k) = p /\ Base(k)' = q
    <3>1. item'[q][k] = item[p][k] /\ mark'[q] >= mark[p] /\ item[p][k] \in Nat /\ mark[p] \in Nat /\ mark'[q] \in Nat
      BY <2>1, <1>1, <1>2, <1>4, <1>5
    <3>2. Last(k)' \in Nat /\ Last(k)' >= Last(k)
      BY <2>1, <3>1 DEF Last
    <3>3. \/ /\ outbox'[q][k].rev = outbox[p][k].rev /\ outbox'[q][k].deleted = outbox[p][k].deleted
             /\ outbox'[q][k].localOnly = FALSE
          \/ outbox'[q][k].rev = 0 /\ outbox[p][k].rev = 0
      <4>1. CASE k \in rows
        BY <4>1, <1>7
      <4>2. CASE k \notin rows
        BY <4>2, <2>1, <1>7, <1>p DEF HasRow
      <4> QED BY <4>1, <4>2
    <3>4. outbox[p][k].rev \in Nat /\ outbox'[q][k].rev = outbox[p][k].rev
      BY <3>3, <1>1, <1>2 DEF IsRow
    <3>5. /\ top[k].rev <= Last(k)' /\ outbox'[q][k].rev <= Last(k)'
          /\ \A i \in Id : k \in DOMAIN calls[i].images => calls[i].images[k].rev <= Last(k)'
      <4>1. top[k].rev <= Last(k) /\ outbox[p][k].rev <= Last(k)
            /\ \A i \in Id : k \in DOMAIN calls[i].images => calls[i].images[k].rev <= Last(k)
        BY <2>0, <2>1 DEF RowInv
      <4> QED BY <4>1, <3>2, <3>4, <2>0
    <3>6. outbox'[q][k].rev # 0 =>
            /\ IF item'[q][k] = 0 THEN outbox'[q][k].deleted ELSE ~outbox'[q][k].deleted /\ outbox'[q][k].rev = item'[q][k]
            /\ UpTo(top[k], outbox'[q][k]) /\ ~outbox'[q][k].localOnly
            /\ \A i \in Id : k \in DOMAIN calls[i].images => UpTo(calls[i].images[k], outbox'[q][k])
      BY <2>0, <2>1, <3>1, <3>3 DEF RowInv, UpTo
    <3>7. outbox'[q][k].rev = 0 => IF item'[q][k] = 0 THEN top[k].deleted ELSE ~top[k].deleted /\ top[k].rev = item'[q][k]
      BY <2>0, <2>1, <3>1, <3>3 DEF RowInv
    <3> QED BY <2>1, <3>5, <3>6, <3>7, <1>12, <1>U DEF RowInv
  <2>2. CASE Base(k)' = Base(k) /\ Base(k) # q /\ Base(k) \in Parts
    <3>1. PICK b : b = Base(k)
      OBVIOUS
    <3>2. Base(k)' = b /\ item'[b] = item[b] /\ mark'[b] = mark[b] /\ outbox'[b] = outbox[b]
      BY <3>1, <2>2, <1>4, <1>5, <1>7
    <3>3. Last(k)' = Last(k)
      BY <3>1, <3>2 DEF Last
    <3> QED BY <3>1, <3>2, <3>3, <2>0, <1>12, <1>U DEF RowInv
  <2> QED BY <2>1, <2>2, <1>10
<1>17. OpenInv'
  <2>0. calls' = calls /\ left' = left /\ inFlight' = inFlight /\ started' = started /\ top' = top /\ epoch' = epoch
        /\ callOpen' = callOpen /\ owner' = owner
    BY <1>U
  <2> SUFFICES ASSUME NEW i \in Id, NEW k \in left[i], Open(i, k)
               PROVE  Kept(i, k)'
    BY <2>0, <1>11, <1>12 DEF OpenInv
  <2>1. k \in Keys /\ calls[i].from \in Parts /\ calls[i].epoch \in Nat
    BY <1>T, CallTypes
  <2>2. Kept(i, k)
    BY DEF IInv, OpenInv
  <2>3. CASE owner[k] = q /\ k \in moved /\ Base(k) = p /\ Base(k)' = q
    <3>1. k \in rows /\ rows # {}
      BY <2>2, <2>3, <1>p DEF Kept, HasRow
    <3>2. outbox'[q][k].rev # 0 /\ outbox'[q][k].localOnly = FALSE /\ outbox'[q][k].id <= untilId'[q]
      <4>1. outbox[p][k].rev # 0
        BY <2>2, <2>3 DEF Kept
      <4> QED BY <4>1, <3>1, <1>7, <1>8
    <3>3. Protected(p, i, k)
      BY <2>2, <2>3 DEF Kept
    <3>4. fences'[q][calls[i].from] > calls[i].epoch
      <4>1. CASE calls[i].from = p
        <5>1. calls[i].epoch < epoch[p]
          BY <3>3, <4>1, <2>3, <1>0, <1>p DEF Protected
        <5>2. fences'[q][p] >= epoch[p] /\ fences'[q][p] \in Nat /\ epoch[p] \in Nat
          BY <3>1, <1>1, <1>2, <1>9
        <5> QED BY <5>1, <5>2, <4>1, <2>1
      <4>2. CASE calls[i].from # p
        BY <4>2, <3>1, <3>3, <2>1, <1>9 DEF Protected
      <4> QED BY <4>1, <4>2
    <3>5. Protected(q, i, k)'
      BY <3>2, <3>4, <2>0, <1>2 DEF Protected
    <3> QED BY <3>2, <3>5, <2>0, <2>2, <2>3 DEF Kept
  <2>4. CASE Base(k)' = Base(k) /\ Base(k) # q /\ Base(k) \in Parts /\ importing'[owner[k]] = importing[owner[k]]
    <3>1. PICK b : b = Base(k)
      OBVIOUS
    <3>2. Base(k)' = b /\ outbox'[b] = outbox[b] /\ fences'[b] = fences[b] /\ untilId'[b] = untilId[b]
      BY <3>1, <2>4, <1>7, <1>8, <1>9
    <3>3. outbox[b][k].rev # 0 /\ ~outbox[b][k].localOnly /\ Protected(b, i, k) /\ UpTo(top[k], calls[i].images[k])
      BY <3>1, <2>2 DEF Kept
    <3>4. Protected(b, i, k)'
      BY <3>2, <3>3, <2>0, <2>4 DEF Protected
    <3> QED BY <3>2, <3>3, <3>4, <2>0 DEF Kept
  <2> QED BY <2>1, <2>3, <2>4, <1>10
<1>18. NothingComesBack'
  BY <1>U DEF IInv, NothingComesBack, Holder
<1> QED
  BY <1>13, <1>14, <1>15, <1>16, <1>17, <1>18 DEF IInv

(* deleteOutboxCopies: the row is not the row of its key any more. *)
LEMMA CopiesStep ==
  ASSUME IInv, NEW p \in Parts, NEW k \in Keys, deleteOutboxCopies(p, k)
  PROVE  IInv'
<1>T. TypeOK
  BY DEF IInv
<1>0. /\ owner[k] # p /\ \A q \in Parts : importing[q] # p
      /\ outbox' = [outbox EXCEPT ![p][k] = NoRow] /\ dropDoneExportFences(p)
      /\ UNCHANGED <<table, item, mark, epoch, callOpen, untilId, memory, wire, receivers>>
  BY DEF deleteOutboxCopies, owns
<1>1. Base(k) # p
  BY <1>0, <1>T, Places DEF Base
<1>2. /\ DOMAIN outbox' = Parts /\ \A q \in Parts : DOMAIN outbox'[q] = Keys
      /\ \A q \in Parts, j \in Keys : (q # p \/ j # k) => outbox'[q][j] = outbox[q][j]
      /\ outbox'[p][k] = NoRow
  BY <1>0, <1>T DEF TypeOK
<1>3. \A q \in Parts, j \in Keys : IsRow(outbox'[q][j])
  <2>1. IsRow(NoRow)
    BY DEF NoRow, Row, IsRow
  <2> QED BY <2>1, <1>2, <1>T DEF TypeOK
<1>4. /\ fences' \in [Parts -> [Parts -> Nat]]
      /\ \A q \in Parts : \/ fences'[q] = fences[q]
                          \/ \A j \in Keys : outbox'[q][j].rev # 0 => ~(outbox'[q][j].id <= untilId[q])
  BY <1>0, <1>T DEF dropDoneExportFences, TypeOK
<1>5. /\ item' \in [Parts -> [Keys -> Nat]] /\ mark' \in [Parts -> Nat]
      /\ \A q \in Parts : mark'[q] >= mark[q]
      /\ \A q \in Parts, j \in Keys : item'[q][j] = item[q][j]
  <2>1. item \in [Parts -> [Keys -> Nat]] /\ mark \in [Parts -> Nat]
    BY <1>T DEF TypeOK
  <2>2. item' = item /\ mark' = mark
    BY <1>0
  <2>3. \A q \in Parts : mark[q] \in Nat
    BY <2>1
  <2>4. \A q \in Parts : mark[q] >= mark[q]
    BY <2>3
  <2> QED BY <2>1, <2>2, <2>4
<1>6. RowStep(p, k)
  BY <1>0, <1>2, <1>3, <1>4, <1>5 DEF RowStep, memory
<1> QED
  BY <1>1, <1>6, RowFrame

-----------------------------------------------------------------------------
(***************************************************************************)
(* The theorems.                                                           *)
(***************************************************************************)
(* The initial states. *)
LEMMA InitInv == Init => IInv
<1> SUFFICES ASSUME Init
             PROVE  IInv
  OBVIOUS
<1> USE DEF Init
<1>1. Id = {} /\ calls = <<>> /\ left = <<>> /\ answer = <<>>
  BY DEF Id
<1>2. NoImage \in Images /\ NoImage.rev = 0 /\ NoImage.deleted = TRUE
  BY DEF NoImage, Images
<1>3. IsRow(NoRow) /\ NoRow.rev = 0
  BY DEF NoRow, Row, IsRow
<1>4. First \in Parts /\ MatFirst \in Receivers
  BY PartsAreValid
<1>5. TypeOK
  <2>1. calls \in Seq(Call) /\ left \in Seq(SUBSET Keys) /\ answer \in Seq(Answer) /\ Len(left) = Len(calls)
        /\ Len(answer) = Len(calls)
    BY <1>1
  <2>2. /\ owner \in [Keys -> Parts] /\ importing \in [Parts -> Parts \cup {NoPart}] /\ router \in [Parts -> BOOLEAN]
        /\ item \in [Parts -> [Keys -> Nat]] /\ mark \in [Parts -> Nat]
        /\ epoch \in [Parts -> Nat] /\ callOpen \in [Parts -> BOOLEAN]
        /\ fences \in [Parts -> [Parts -> Nat]] /\ untilId \in [Parts -> Nat]
        /\ started \in [Parts -> BOOLEAN] /\ inFlight \in [Parts -> SUBSET Nat]
    BY <1>4
  <2>3. /\ DOMAIN outbox = Parts /\ \A p \in Parts : DOMAIN outbox[p] = Keys
        /\ \A p \in Parts, k \in Keys : IsRow(outbox[p][k])
    BY <1>3
  <2>4. /\ matOwner \in [Keys -> Receivers] /\ matImporting \in [Receivers -> Receivers \cup {NoPart}]
        /\ image \in [Receivers -> [Keys -> Images]] /\ seen \in [Receivers -> [Parts -> Nat]]
        /\ top \in [Keys -> Images]
    BY <1>2, <1>4
  <2> QED BY <2>1, <2>2, <2>3, <2>4, <1>1 DEF TypeOK
<1>6. PartsInv
  BY <1>1, <1>4 DEF PartsInv
<1>7. CallsInv
  BY <1>1 DEF CallsInv
<1>8. RowsInv
  <2> SUFFICES ASSUME NEW k \in Keys
               PROVE  RowInv(k)
    BY DEF RowsInv
  <2>1. Base(k) = First
    BY <1>4 DEF Base
  <2>2. outbox[First][k] = NoRow /\ item[First][k] = 0 /\ mark[First] = 0 /\ top[k] = NoImage
    BY <1>4
  <2>3. Last(k) = 0
    BY <2>1, <2>2 DEF Last
  <2> QED BY <2>1, <2>2, <2>3, <1>1, <1>2, <1>3 DEF RowInv
<1>9. OpenInv
  BY <1>1 DEF OpenInv
<1>10. NothingComesBack
  BY <1>4 DEF NothingComesBack, Holder
<1> QED
  BY <1>5, <1>6, <1>7, <1>8, <1>9, <1>10 DEF IInv

(* Each step. *)
LEMMA StepInv == IInv /\ [Next]_vars => IInv'
<1> SUFFICES ASSUME IInv, [Next]_vars
             PROVE  IInv'
  OBVIOUS
<1>1. CASE UNCHANGED vars
  <2>1. Quiet
    <3>1. /\ DOMAIN outbox = Parts /\ \A q \in Parts : DOMAIN outbox[q] = Keys
          /\ \A q \in Parts, k \in Keys : SameRow(outbox[q][k], outbox[q][k])
      BY DEF IInv, TypeOK, SameRow
    <3> QED BY <3>1, <1>1 DEF Quiet, vars, store, memory
  <2> QED BY <2>1, QuietStep
<1>2. ASSUME NEW p \in Parts, write(p)
      PROVE  IInv'
  BY <1>2, WriteStep, DeleteStep DEF write
<1>3. ASSUME NEW p \in Parts, export(p)
      PROVE  IInv'
  <2>1. ASSUME NEW K \in SUBSET Keys, claim(p, K)
        PROVE  IInv'
    <3>1. CASE K = {}
      BY <2>1, <3>1, EmptyClaim
    <3>2. CASE K # {}
      BY <2>1, <3>2, CallStep
    <3> QED BY <3>1, <3>2
  <2> QED BY <1>3, <2>1, WorkerSteps DEF export
<1>4. ASSUME NEW p \in Parts, answered(p) \/ lost(p)
      PROVE  IInv'
  <2>1. PICK i \in Id : complete(p, i, TRUE) \/ complete(p, i, FALSE)
    BY <1>4 DEF answered, lost, Id
  <2> QED BY <2>1, CompleteStep
<1>5. ASSUME NEW p \in Parts, waits(p)
      PROVE  IInv'
  BY <1>5, WorkerSteps DEF waits
<1>6. ASSUME NEW p \in Parts, restart(p)
      PROVE  IInv'
  BY <1>6, RestartStep
<1>7. ASSUME NEW i \in Id, receives(i)
      PROVE  IInv'
  BY <1>7, ApplyStep, LostItemStep DEF receives
<1>8. ASSUME NEW i \in Id, loses(i)
      PROVE  IInv'
  <2>1. PICK k \in DOMAIN answer[i] : lose(i, k)
    BY <1>8 DEF loses
  <2>2. k \in Keys
    BY CallTypes DEF IInv
  <2> QED BY <2>1, <2>2, LostItemStep
<1>9. CASE moves
  BY <1>9, CutoverStep, MatCutoverStep DEF moves
<1>10. CASE imports
  BY <1>10, ImportStep, MatImportStep DEF imports
<1>11. CASE cleans
  BY <1>11, CopiesStep, TombstoneStep DEF cleans
<1> QED
  BY <1>1, <1>2, <1>3, <1>4, <1>5, <1>6, <1>7, <1>8, <1>9, <1>10, <1>11 DEF Next, Id

(* The inductive invariant: what an open image relies on, and what each row says. *)
THEOREM Invariance == Spec => []IInv
<1>1. Init => IInv
  BY InitInv
<1>2. IInv /\ [Next]_vars => IInv'
  BY StepInv
<1> QED
  BY <1>1, <1>2, PTL DEF Spec

(* No late call of an earlier instance or owner brings an older image back at a receiver *)
(* (claimEpoch, the fences, applyLatestImagesLocal). *)
THEOREM ImagesNeverGoBack == Spec => []NothingComesBack
<1>1. IInv => NothingComesBack
  BY DEF IInv
<1> QED
  BY <1>1, Invariance, PTL

(* A key without a row has its item at the receiver (applyItemOutcome, captureDelete, the import). *)
THEOREM ChangesAreKept == Spec => []NoRowMeansMaterialized
<1>1. IInv => NoRowMeansMaterialized
  <2> SUFFICES ASSUME IInv, NEW k \in Keys, importing[owner[k]] = NoPart
               PROVE  LET p == owner[k]
                          row == outbox[p][k]
                          held == image[Holder(k)][k]
                      IN  IF HasRow(p, k) THEN IF item[p][k] = 0 THEN row.deleted ELSE ~row.deleted /\ row.rev = item[p][k]
                          ELSE IF item[p][k] = 0 THEN held.deleted ELSE held = [rev |-> item[p][k], deleted |-> FALSE]
    BY DEF NoRowMeansMaterialized
  <2>1. PICK p, held : p = owner[k] /\ held = image[Holder(k)][k]
    OBVIOUS
  <2>2. Base(k) = p
    BY <2>1 DEF Base
  <2>3. RowInv(k)
    BY DEF IInv, RowsInv
  <2>4. CASE HasRow(p, k)
    BY <2>1, <2>2, <2>3, <2>4 DEF RowInv, HasRow
  <2>5. CASE ~HasRow(p, k)
    <3>1. IF item[p][k] = 0 THEN top[k].deleted ELSE ~top[k].deleted /\ top[k].rev = item[p][k]
      BY <2>2, <2>3, <2>5 DEF RowInv, HasRow
    <3>2. held = top[k] \/ (held = NoImage /\ top[k].deleted)
      BY <2>1 DEF IInv, NothingComesBack
    <3>3. CASE item[p][k] = 0
      <4>1. held.deleted
        BY <3>1, <3>2, <3>3 DEF NoImage
      <4> QED BY <4>1, <3>3, <2>1, <2>5
    <3>4. CASE item[p][k] # 0
      <4>1. ~top[k].deleted /\ top[k].rev = item[p][k] /\ held = top[k]
        BY <3>1, <3>2, <3>4
      <4>2. top[k] \in Images
        BY DEF IInv, TypeOK
      <4>3. top[k] = [rev |-> item[p][k], deleted |-> FALSE]
        BY <4>1, <4>2 DEF Images
      <4> QED BY <4>1, <4>3, <3>4, <2>1, <2>5
    <3> QED BY <3>3, <3>4
  <2> QED BY <2>4, <2>5
<1> QED
  BY <1>1, Invariance, PTL
=============================================================================
