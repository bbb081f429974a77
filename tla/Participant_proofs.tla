-------------------------- MODULE Participant_proofs --------------------------
(***************************************************************************)
(* Proofs about the local steps of a participant: what the operations of a *)
(* request leave of an item, what #apply does to rows and marks, and that  *)
(* a commit and a plain write leave what the request says.                 *)
(***************************************************************************)
EXTENDS Transactions, WellFoundedInduction, TLAPS
-----------------------------------------------------------------------------

(***************************************************************************)
(* Recursion over the operations of a request.  The library's induction    *)
(* takes an operator, so induction is over a set here.                     *)
(***************************************************************************)
LEMMA SmallestNat ==
  ASSUME NEW T \in SUBSET Nat, T # {}
  PROVE  \E n \in T : \A m \in T : n <= m
<1>1. PICK n \in T : \A m \in T : ~(<<m, n>> \in OpToRel(<, Nat))
  BY WFMin, NatLessThanWellFounded, Zenon
<1>2. ASSUME NEW m \in T
      PROVE  n <= m
  <2>1. m \in Nat /\ n \in Nat
    OBVIOUS
  <2>2. ~(m < n)
    BY <1>1, <1>2, <2>1 DEF OpToRel
  <2>3. QED
    BY <2>1, <2>2
<1>3. QED
  BY <1>2

(* A set with 0 and every successor of its numbers has every number.       *)
LEMMA Inductive ==
  ASSUME NEW S, 0 \in S, \A n \in Nat : n \in S => n + 1 \in S
  PROVE  \A n \in Nat : n \in S
<1> DEFINE T == {n \in Nat : n \notin S}
<1>1. SUFFICES ASSUME T # {}
               PROVE  FALSE
  OBVIOUS
<1>2. PICK n \in T : \A m \in T : n <= m
  BY <1>1, SmallestNat
<1>3. n - 1 \in Nat /\ n - 1 \notin T
  BY <1>2
<1>4. QED
  BY <1>2, <1>3

StepFunction(S, F) == F \in [Nat -> [S -> S]]
Iterates(S, s0, F, c) ==
  c \in [Nat -> S] /\ c[0] = s0 /\ \A n \in Nat : c[n + 1] = F[n + 1][c[n]]

(* A step function on S is iterated by a sequence in S.                    *)
LEMMA Iteration ==
  ASSUME NEW S, NEW s0 \in S, NEW F, StepFunction(S, F)
  PROVE  \E c : Iterates(S, s0, F, c)
<1> USE DEF StepFunction
<1> DEFINE Runs(n, h) == /\ h \in [0 .. n -> S] /\ h[0] = s0
                         /\ \A i \in 0 .. n : i < n => h[i + 1] = F[i + 1][h[i]]
           N == {n \in Nat : \E h : Runs(n, h)}
           H(n) == CHOOSE h : Runs(n, h)
<1>1. 0 \in N
  <2>1. Runs(0, [i \in 0 .. 0 |-> s0])
    OBVIOUS
  <2>2. QED
    BY <2>1
<1>2. ASSUME NEW n \in Nat, n \in N
      PROVE  n + 1 \in N
  <2>1. PICK h : Runs(n, h)
    BY <1>2
  <2> DEFINE g == [i \in 0 .. n + 1 |-> IF i = n + 1 THEN F[n + 1][h[n]] ELSE h[i]]
  <2>2. /\ g[n + 1] = F[n + 1][g[n]] /\ g[0] = s0
        /\ \A i \in 0 .. n : i < n => g[i + 1] = F[i + 1][g[i]]
    BY <2>1
  <2>3. g \in [0 .. n + 1 -> S]
    BY <2>1
  <2>4. Runs(n + 1, g)
    <3> HIDE DEF g
    <3>1. \A i \in 0 .. n + 1 : i < n + 1 => i = n \/ (i \in 0 .. n /\ i < n)
      OBVIOUS
    <3>2. QED
      BY <2>2, <2>3, <3>1
  <2> HIDE DEF g
  <2>5. \E x : Runs(n + 1, x)
    BY <2>4
  <2>6. QED
    BY <2>5
<1>3. \A n \in Nat : Runs(n, H(n))
  <2>1. \A n \in Nat : n \in N
    <3> HIDE DEF N
    <3> QED
      BY <1>1, <1>2, Inductive
  <2>2. \A n \in Nat : \E h : Runs(n, h)
    BY <2>1
  <2>3. QED
    <3> HIDE DEF Runs
    <3> QED
      BY <2>2, Zenon
<1> HIDE DEF H
<1>4. ASSUME NEW n \in Nat, NEW m \in Nat, n <= m
      PROVE  H(n)[n] = H(m)[n]
  <2> DEFINE E == {i \in Nat : i <= n => H(n)[i] = H(m)[i]}
  <2>1. 0 \in E
    BY <1>3
  <2>2. ASSUME NEW i \in Nat, i \in E
        PROVE  i + 1 \in E
    <3>1. SUFFICES ASSUME i + 1 <= n
                   PROVE  H(n)[i + 1] = H(m)[i + 1]
      OBVIOUS
    <3>2. H(n)[i] = H(m)[i]
      BY <2>2, <3>1
    <3>3. H(n)[i + 1] = F[i + 1][H(n)[i]] /\ H(m)[i + 1] = F[i + 1][H(m)[i]]
      BY <1>3, <1>4, <3>1
    <3>4. QED
      BY <3>2, <3>3
  <2>3. \A i \in Nat : i \in E
    <3> HIDE DEF E
    <3> QED
      BY <2>1, <2>2, Inductive
  <2>4. QED
    BY <2>3
<1> DEFINE c == [n \in Nat |-> H(n)[n]]
<1>5. c \in [Nat -> S] /\ c[0] = s0
  BY <1>3
<1>6. ASSUME NEW n \in Nat
      PROVE  c[n + 1] = F[n + 1][c[n]]
  <2>1. H(n + 1)[n + 1] = F[n + 1][H(n + 1)[n]]
    BY <1>3
  <2>2. H(n + 1)[n] = H(n)[n]
    BY <1>4
  <2>3. QED
    BY <2>1, <2>2
<1>7. QED
  BY <1>5, <1>6 DEF Iterates
-----------------------------------------------------------------------------
(***************************************************************************)
(* Requests and the data they leave.                                       *)
(***************************************************************************)
LEMMA RequestFacts ==
  ASSUME NEW r \in Request
  PROVE  /\ Len(r) \in Nat /\ Len(r) <= MAX_ITEMS_PER_TX /\ DOMAIN r = 1 .. Len(r)
         /\ \A i \in DOMAIN r : r[i].key \in Key /\ r[i].op \in Op /\ r[i].cond \in Cond
         /\ KeysOf(r) \subseteq Key
         /\ \A k : OpsOf(r, k) \subseteq DOMAIN r
<1>1. r \in Seq(Operation) /\ Len(r) <= MAX_ITEMS_PER_TX
  BY DEF Request
<1>2. Len(r) \in Nat /\ DOMAIN r = 1 .. Len(r) /\ \A i \in DOMAIN r : r[i] \in Operation
  BY <1>1
<1>3. \A i \in DOMAIN r : r[i].key \in Key /\ r[i].op \in Op /\ r[i].cond \in Cond
  BY <1>2 DEF Operation
<1>4. QED
  BY <1>1, <1>2, <1>3 DEF KeysOf, OpsOf

(* The keys of a request are those with an operation.                      *)
LEMMA KeysFacts ==
  ASSUME NEW r, NEW k
  PROVE  k \in KeysOf(r) <=> OpsOf(r, k) # {}
BY DEF KeysOf, OpsOf

(* The empty request is a request without keys.                            *)
LEMMA EmptyRequest == NoRequest \in Request /\ KeysOf(NoRequest) = {}
<1>1. NoRequest \in Seq(Operation) /\ Len(NoRequest) = 0 /\ DOMAIN NoRequest = {}
  BY DEF NoRequest
<1>2. QED
  BY <1>1, MaxItemsAssumption DEF Request, KeysOf

(* Data is a sequence of writers, and what a write stores is never empty.  *)
LEMMA DataFacts ==
  /\ NoData \in Seq(Writer)
  /\ \A x \in Writer : <<x>> \in Seq(Writer) /\ <<x>> # NoData
  /\ \A s \in Seq(Writer), x \in Writer : Append(s, x) \in Seq(Writer) /\ Append(s, x) # NoData
<1>1. NoData \in Seq(Writer) /\ Len(NoData) = 0
  BY DEF NoData
<1>2. ASSUME NEW x \in Writer
      PROVE  <<x>> \in Seq(Writer) /\ Len(<<x>>) = 1
  OBVIOUS
<1>3. ASSUME NEW s \in Seq(Writer), NEW x \in Writer
      PROVE  Append(s, x) \in Seq(Writer) /\ Len(Append(s, x)) = Len(s) + 1 /\ Len(s) \in Nat
  OBVIOUS
<1>4. ASSUME NEW x \in Writer
      PROVE  <<x>> # NoData
  BY <1>1, <1>2
<1>5. ASSUME NEW s \in Seq(Writer), NEW x \in Writer
      PROVE  Append(s, x) # NoData
  <2>1. Len(Append(s, x)) # 0
    BY <1>3
  <2>2. QED
    BY <2>1, <1>1
<1>6. QED
  BY <1>1, <1>2, <1>3, <1>4, <1>5

(* What one operation leaves is data again, and some data after a write.   *)
LEMMA WrittenFacts ==
  ASSUME NEW op \in Op, NEW d \in Seq(Writer), NEW x \in Writer
  PROVE  /\ Written(op, d, x) \in Seq(Writer)
         /\ op \in Writes => Written(op, d, x) # NoData
         /\ op = "delete" => Written(op, d, x) = NoData
         /\ op = "check" => Written(op, d, x) = d
<1>1. CASE op = "put"
  BY <1>1, DataFacts DEF Written
<1>2. CASE op = "update"
  BY <1>2, DataFacts DEF Written
<1>3. CASE op \in {"delete", "check"}
  BY <1>3, DataFacts DEF Written, Writes
<1>4. QED
  BY <1>1, <1>2, <1>3 DEF Op

NextData(r, k, x, d, n) == IF n \in OpsOf(r, k) THEN Written(r[n].op, d, x) ELSE d

DataFrom(r, k, d, x, a) ==
  /\ a \in [Nat -> Seq(Writer)]
  /\ a[0] = d
  /\ \A n \in Nat : a[n + 1] = NextData(r, k, x, a[n], n + 1)

(* DataAfter is the iteration of its operations.                           *)
LEMMA DataAfterFacts ==
  ASSUME NEW r \in Request, NEW k, NEW d \in Seq(Writer), NEW x \in Writer
  PROVE  DataFrom(r, k, d, x, DataAfter(r, k, d, x))
<1> DEFINE S == Seq(Writer)
           After(f) == f = [n \in Nat |-> IF n = 0 THEN d ELSE
                              IF n \in OpsOf(r, k) THEN Written(r[n].op, f[n - 1], x) ELSE f[n - 1]]
           F == [n \in Nat |-> [e \in S |-> NextData(r, k, x, e, n)]]
<1>1. \A n \in Nat, e \in S : NextData(r, k, x, e, n) \in S
  <2>1. ASSUME NEW n \in Nat, NEW e \in S
        PROVE  NextData(r, k, x, e, n) \in S
    <3>1. CASE n \in OpsOf(r, k)
      <4>1. r[n].op \in Op
        BY <3>1, RequestFacts
      <4>2. QED
        BY <3>1, <4>1, WrittenFacts DEF NextData
    <3>2. QED
      BY <3>1 DEF NextData
  <2>2. QED
    BY <2>1
<1>2. StepFunction(S, F)
  <2> HIDE DEF S
  <2> QED
    BY <1>1 DEF StepFunction
<1>3. PICK c : Iterates(S, d, F, c)
  <2> HIDE DEF F
  <2>1. d \in S
    OBVIOUS
  <2> HIDE DEF S
  <2>2. QED
    BY <1>2, <2>1, Iteration
<1>4. ASSUME NEW f, f \in [Nat -> S], f[0] = d, \A n \in Nat : f[n + 1] = F[n + 1][f[n]]
      PROVE  \A n \in Nat : f[n + 1] = NextData(r, k, x, f[n], n + 1)
  <2>1. \A n \in Nat, e \in S : F[n + 1][e] = NextData(r, k, x, e, n + 1)
    OBVIOUS
  <2> HIDE DEF F, S
  <2> QED
    BY <1>4, <2>1
<1>5. \A n \in Nat : c[n + 1] = NextData(r, k, x, c[n], n + 1)
  <2> HIDE DEF F
  <2> QED
    BY <1>3, <1>4 DEF Iterates
<1>6. ASSUME NEW n \in Nat
      PROVE  c[n] = IF n = 0 THEN d ELSE
                    IF n \in OpsOf(r, k) THEN Written(r[n].op, c[n - 1], x) ELSE c[n - 1]
  <2>1. CASE n = 0
    BY <1>3, <2>1 DEF Iterates
  <2>2. CASE n # 0
    <3>1. PICK m \in Nat : n = m + 1 /\ n - 1 = m
      <4>1. n - 1 \in Nat /\ n = (n - 1) + 1
        BY <2>2
      <4>2. QED
        BY <4>1
    <3>2. c[m + 1] = NextData(r, k, x, c[m], m + 1)
      BY <1>5
    <3>3. c[n] = NextData(r, k, x, c[n - 1], n)
      BY <3>1, <3>2
    <3>4. QED
      BY <2>2, <3>3 DEF NextData
  <2>3. QED
    BY <2>1, <2>2
<1>7. After(c)
  BY <1>3, <1>6 DEF Iterates
<1>8. After(DataAfter(r, k, d, x))
  <2>1. DataAfter(r, k, d, x) = CHOOSE f : After(f)
    BY DEF DataAfter
  <2>2. \E f : After(f)
    BY <1>7
  <2> HIDE DEF After
  <2>3. QED
    BY <2>1, <2>2, Zenon
<1>9. PICK a : a = DataAfter(r, k, d, x) /\ After(a)
  BY <1>8
<1>10. /\ a[0] = d
       /\ \A n \in Nat : a[n + 1] = NextData(r, k, x, a[n], n + 1)
  <2>1. a[0] = d
    BY <1>9
  <2>2. ASSUME NEW n \in Nat
        PROVE  a[n + 1] = NextData(r, k, x, a[n], n + 1)
    <3>1. n + 1 \in Nat /\ n + 1 # 0 /\ (n + 1) - 1 = n
      OBVIOUS
    <3>2. QED
      BY <1>9, <3>1 DEF NextData
  <2>3. QED
    BY <2>1, <2>2
<1>11. a \in [Nat -> S]
  <2> DEFINE N == {n \in Nat : a[n] \in S}
  <2>1. 0 \in N
    BY <1>10
  <2>2. ASSUME NEW n \in Nat, n \in N
        PROVE  n + 1 \in N
    <3>1. a[n] \in S /\ a[n + 1] = NextData(r, k, x, a[n], n + 1)
      BY <1>10, <2>2
    <3>2. NextData(r, k, x, a[n], n + 1) \in S
      BY <1>1, <3>1
    <3>3. n + 1 \in Nat /\ a[n + 1] \in S
      BY <3>1, <3>2
    <3> HIDE DEF S
    <3>4. QED
      BY <3>3
  <2>3. \A n \in Nat : n \in N
    <3> HIDE DEF N
    <3> QED
      BY <2>1, <2>2, Inductive
  <2>4. \A n \in Nat : a[n] \in S
    BY <2>3
  <2>5. a = [n \in Nat |-> a[n]]
    BY <1>9
  <2> HIDE DEF After, S
  <2>6. QED
    BY <2>4, <2>5
<1>12. QED
  BY <1>9, <1>10, <1>11 DEF DataFrom
-----------------------------------------------------------------------------
(***************************************************************************)
(* Writing: the rows and the two marks of a partition as one store.        *)
(***************************************************************************)
RowGood(row) == IF Present(row) THEN row.data # NoData ELSE row = NoRow

GoodStores == {s \in [rows : [Key -> Row], ts : Nat, v : Nat] : \A k \in Key : RowGood(s.rows[k])}

(* The stamp and the revision of a key, with the marks that stand for them *)
(* when the item is absent.                                                *)
StampIn(s, k) == IF Present(s.rows[k]) THEN s.rows[k].r ELSE s.ts
RevisionIn(s, k) == IF Present(s.rows[k]) THEN s.rows[k].v ELSE s.v

EntryOK(e) == e.key \in Key /\ e.op \in Op /\ (e.op \in Writes => e.data \in Seq(Writer) /\ e.data # NoData)

(* From s to z the key k only advances. *)
Advances(s, z, k) ==
  /\ StampIn(z, k) >= StampIn(s, k) /\ RevisionIn(z, k) >= RevisionIn(s, k)
  /\ z.rows[k].data # s.rows[k].data => RevisionIn(z, k) > RevisionIn(s, k)

DataWritten(e, data) == CASE e.op \in Writes -> e.data
                          [] e.op = "delete" -> NoData
                          [] e.op = "check" -> data

(* The absent row is a row, is absent and has no data.                     *)
LEMMA NoRowFacts == NoRow \in Row /\ ~Present(NoRow) /\ NoRow.data = NoData /\ RowGood(NoRow)
BY DataFacts DEF NoRow, Row, Present, RowGood

LEMMA MaxFacts == \A a, b \in Nat : MaxOf(a, b) \in Nat /\ MaxOf(a, b) >= a /\ MaxOf(a, b) >= b
BY DEF MaxOf

(* What one write (#write) does to the store of its partition.             *)
WriteMoves(s, z, e, ts) ==
  /\ z \in GoodStores /\ z.ts >= s.ts /\ z.v >= s.v
  /\ \A k \in Key : Advances(s, z, k)
  /\ \A k \in Key : k # e.key => z.rows[k] = s.rows[k]
  /\ StampIn(z, e.key) >= ts
  /\ z.rows[e.key].data = DataWritten(e, s.rows[e.key].data)

(* A write that gives the row of its key, and the marks, is as WriteMoves  *)
(* says when it is so at that key.                                         *)
LEMMA OneRowMoves ==
  ASSUME NEW s \in GoodStores, NEW e, EntryOK(e), NEW ts \in Nat,
         NEW row \in Row, NEW mts \in Nat, NEW mv \in Nat, RowGood(row),
         mts >= s.ts, mv >= s.v, NEW z,
         z = [rows |-> [s.rows EXCEPT ![e.key] = row], ts |-> mts, v |-> mv],
         Advances(s, z, e.key), StampIn(z, e.key) >= ts,
         row.data = DataWritten(e, s.rows[e.key].data)
  PROVE  WriteMoves(s, z, e, ts)
<1>1. /\ s.rows \in [Key -> Row] /\ s.ts \in Nat /\ s.v \in Nat /\ e.key \in Key
      /\ \A k \in Key : RowGood(s.rows[k])
  BY DEF GoodStores, EntryOK
<1>2. /\ z.rows = [s.rows EXCEPT ![e.key] = row] /\ z.ts = mts /\ z.v = mv
      /\ z \in [rows : [Key -> Row], ts : Nat, v : Nat]
  BY <1>1
<1>3. z.rows[e.key] = row /\ \A k \in Key : k # e.key => z.rows[k] = s.rows[k]
  BY <1>1, <1>2
<1>4. z \in GoodStores
  BY <1>1, <1>2, <1>3 DEF GoodStores
<1>5. ASSUME NEW k \in Key, k # e.key
      PROVE  Advances(s, z, k)
  <2>1. z.rows[k] = s.rows[k] /\ s.rows[k].r \in Nat /\ s.rows[k].v \in Nat
    BY <1>1, <1>3, <1>5 DEF Row
  <2>2. QED
    BY <1>1, <1>2, <2>1 DEF Advances, StampIn, RevisionIn
<1>6. QED
  BY <1>2, <1>3, <1>4, <1>5 DEF WriteMoves

(* The four cases of #write. *)
LEMMA WriteCases ==
  ASSUME NEW s \in GoodStores, NEW e, EntryOK(e), NEW ts
  PROVE  /\ e.op \in Writes =>
              Write(s, e, ts) = [rows |-> [s.rows EXCEPT ![e.key] = UpsertItem(s.rows[e.key], e.data, ts, s.ts, s.v)],
                                 ts |-> s.ts, v |-> s.v]
         /\ e.op = "delete" /\ Present(s.rows[e.key]) =>
              Write(s, e, ts) = [rows |-> [s.rows EXCEPT ![e.key] = NoRow],
                                 ts |-> MaxOf(s.ts, DeleteStamp(s.rows[e.key], ts)),
                                 v |-> MaxOf(s.v, DeleteVersion(s.rows[e.key]))]
         /\ e.op = "check" /\ Present(s.rows[e.key]) =>
              Write(s, e, ts) = [rows |-> [s.rows EXCEPT ![e.key] = BumpItemReadTs(s.rows[e.key], ts)],
                                 ts |-> s.ts, v |-> s.v]
         /\ e.op \in {"delete", "check"} /\ ~Present(s.rows[e.key]) =>
              Write(s, e, ts) = [rows |-> s.rows, ts |-> MaxOf(s.ts, ts), v |-> s.v]
<1>1. s \in [rows : [Key -> Row], ts : Nat, v : Nat]
  BY DEF GoodStores
<1>2. /\ \A x : [s EXCEPT !.rows = x] = [rows |-> x, ts |-> s.ts, v |-> s.v]
      /\ \A x : [s EXCEPT !.ts = x] = [rows |-> s.rows, ts |-> x, v |-> s.v]
  BY <1>1
<1>3. CASE e.op \in Writes
  <2>1. e.op # "delete" /\ e.op # "check"
    BY <1>3 DEF Writes
  <2>2. Write(s, e, ts) = [s EXCEPT !.rows = [@ EXCEPT ![e.key] = UpsertItem(s.rows[e.key], e.data, ts, s.ts, s.v)]]
    BY <1>3, <2>1 DEF Write
  <2>3. QED
    BY <1>2, <2>1, <2>2
<1>4. CASE e.op = "delete"
  <2>1. e.op \notin Writes
    BY <1>4 DEF Writes
  <2>2. CASE Present(s.rows[e.key])
    BY <1>4, <2>1, <2>2 DEF Write
  <2>3. CASE ~Present(s.rows[e.key])
    <3>1. Write(s, e, ts) = [s EXCEPT !.ts = MaxOf(@, ts)]
      BY <1>4, <2>1, <2>3 DEF Write
    <3>2. QED
      BY <1>2, <1>4, <2>1, <2>3, <3>1
  <2>4. QED
    BY <2>2, <2>3
<1>5. CASE e.op = "check"
  <2>1. e.op \notin Writes
    BY <1>5 DEF Writes
  <2>2. CASE Present(s.rows[e.key])
    <3>1. Write(s, e, ts) = [s EXCEPT !.rows = [@ EXCEPT ![e.key] = BumpItemReadTs(s.rows[e.key], ts)]]
      BY <1>5, <2>1, <2>2 DEF Write
    <3>2. QED
      BY <1>2, <1>5, <2>1, <2>2, <3>1
  <2>3. CASE ~Present(s.rows[e.key])
    <3>1. Write(s, e, ts) = [s EXCEPT !.ts = MaxOf(@, ts)]
      BY <1>5, <2>1, <2>3 DEF Write
    <3>2. QED
      BY <1>2, <1>5, <2>1, <2>3, <3>1
  <2>4. QED
    BY <2>2, <2>3
<1>6. e.op \in Writes \/ e.op = "delete" \/ e.op = "check"
  BY DEF EntryOK, Op, Writes
<1>7. QED
  BY <1>3, <1>4, <1>5, <1>6

(* #write moves the store of its partition as WriteMoves says. *)
LEMMA WriteFacts ==
  ASSUME NEW s \in GoodStores, NEW e, EntryOK(e), NEW ts \in Nat
  PROVE  WriteMoves(s, Write(s, e, ts), e, ts)
<1>1. PICK old : old = s.rows[e.key]
  OBVIOUS
<1>2. PICK z : z = Write(s, e, ts)
  OBVIOUS
<1>3. /\ s.rows \in [Key -> Row] /\ s.ts \in Nat /\ s.v \in Nat /\ e.key \in Key
      /\ RowGood(old) /\ old \in Row /\ s.v >= s.v /\ s.ts >= s.ts
  BY <1>1 DEF GoodStores, EntryOK
<1>4. /\ old.data \in Seq(Writer) /\ old.v \in Nat /\ old.r \in Nat /\ old.w \in Nat
  BY <1>3 DEF Row
<1>5. ASSUME NEW row, NEW mts, NEW mv, z = [rows |-> [s.rows EXCEPT ![e.key] = row], ts |-> mts, v |-> mv]
      PROVE  z.rows[e.key] = row /\ z.ts = mts /\ z.v = mv
  BY <1>3, <1>5
<1>6. SUFFICES WriteMoves(s, z, e, ts)
  BY <1>2
<1>7. CASE e.op \in Writes
  <2>1. PICK row : row = UpsertItem(old, e.data, ts, s.ts, s.v)
    OBVIOUS
  <2>2. z = [rows |-> [s.rows EXCEPT ![e.key] = row], ts |-> s.ts, v |-> s.v]
    BY <1>1, <1>2, <1>7, <2>1, WriteCases
  <2>3. e.data \in Seq(Writer) /\ e.data # NoData /\ e.op # "delete" /\ e.op # "check"
    BY <1>7 DEF EntryOK, Writes
  <2>4. CASE Present(old)
    <3>1. row = [data |-> e.data, v |-> old.v + 1, r |-> MaxOf(old.r, ts), w |-> MaxOf(old.w, ts)]
      BY <2>1, <2>4 DEF UpsertItem
    <3>2. /\ row \in Row /\ row.data = e.data /\ row.r >= ts /\ row.v > 0
          /\ row.r >= old.r /\ row.v > old.v /\ row.v \in Nat /\ row.r \in Nat
      BY <1>4, <2>3, <3>1 DEF MaxOf, Row
    <3>3. Present(row) /\ RowGood(row)
      BY <2>3, <3>2 DEF Present, RowGood
    <3>4. z.rows[e.key] = row /\ z.ts = s.ts /\ z.v = s.v
      BY <1>5, <2>2
    <3>5. Advances(s, z, e.key) /\ StampIn(z, e.key) >= ts
      BY <1>1, <1>3, <1>4, <2>4, <3>2, <3>3, <3>4 DEF Advances, StampIn, RevisionIn
    <3>6. row.data = DataWritten(e, s.rows[e.key].data)
      BY <1>7, <2>3, <3>2 DEF DataWritten
    <3>7. QED
      BY <1>3, <2>2, <3>2, <3>3, <3>5, <3>6, OneRowMoves
  <2>5. CASE ~Present(old)
    <3>1. row = [data |-> e.data, v |-> s.v + 1, r |-> MaxOf(ts, s.ts), w |-> MaxOf(ts, s.ts)]
      BY <2>1, <2>5 DEF UpsertItem
    <3>2. /\ row \in Row /\ row.data = e.data /\ row.r >= ts /\ row.v > 0
          /\ row.r >= s.ts /\ row.v > s.v /\ row.v \in Nat /\ row.r \in Nat
      BY <1>3, <2>3, <3>1 DEF MaxOf, Row
    <3>3. Present(row) /\ RowGood(row)
      BY <2>3, <3>2 DEF Present, RowGood
    <3>4. z.rows[e.key] = row /\ z.ts = s.ts /\ z.v = s.v
      BY <1>5, <2>2
    <3>5. Advances(s, z, e.key) /\ StampIn(z, e.key) >= ts
      BY <1>1, <1>3, <1>4, <2>5, <3>2, <3>3, <3>4 DEF Advances, StampIn, RevisionIn
    <3>6. row.data = DataWritten(e, s.rows[e.key].data)
      BY <1>7, <2>3, <3>2 DEF DataWritten
    <3>7. QED
      BY <1>3, <2>2, <3>2, <3>3, <3>5, <3>6, OneRowMoves
  <2>6. QED
    BY <2>4, <2>5
<1>8. CASE e.op = "delete" /\ Present(old)
  <2>1. PICK mts, mv : mts = MaxOf(s.ts, DeleteStamp(old, ts)) /\ mv = MaxOf(s.v, DeleteVersion(old))
    OBVIOUS
  <2>2. z = [rows |-> [s.rows EXCEPT ![e.key] = NoRow], ts |-> mts, v |-> mv]
    BY <1>1, <1>2, <1>8, <2>1, WriteCases
  <2>3. /\ mts \in Nat /\ mts >= s.ts /\ mts >= ts /\ mts >= old.r
        /\ mv \in Nat /\ mv >= s.v /\ mv > old.v
    <3>1. PICK del : del = MaxOf(ts, old.r)
      OBVIOUS
    <3>2. del \in Nat /\ del >= ts /\ del >= old.r /\ mts = MaxOf(s.ts, del)
      BY <1>4, <2>1, <3>1, MaxFacts DEF DeleteStamp
    <3>3. mts \in Nat /\ mts >= s.ts /\ mts >= del
      BY <1>3, <3>2, MaxFacts
    <3>4. PICK up \in Nat : up = old.v + 1
      BY <1>4
    <3>5. mv = MaxOf(s.v, up)
      BY <2>1, <3>4 DEF DeleteVersion
    <3>6. mv \in Nat /\ mv >= s.v /\ mv >= up
      BY <1>3, <3>4, <3>5, MaxFacts
    <3>7. \A a, b, c \in Nat : a >= b /\ b >= c => a >= c
      OBVIOUS
    <3>8. old.r \in Nat /\ old.v \in Nat
      BY <1>4
    <3>9. mts >= ts /\ mts >= old.r
      BY <3>2, <3>3, <3>7, <3>8
    <3>10. mv > old.v
      BY <3>4, <3>6, <3>8
    <3>11. QED
      BY <3>3, <3>6, <3>9, <3>10
  <2>4. z.rows[e.key] = NoRow /\ z.ts = mts /\ z.v = mv
    BY <1>5, <2>2
  <2>5. Advances(s, z, e.key) /\ StampIn(z, e.key) >= ts
    BY <1>1, <1>3, <1>4, <1>8, <2>3, <2>4, NoRowFacts DEF Advances, StampIn, RevisionIn
  <2>6. NoRow.data = DataWritten(e, s.rows[e.key].data)
    BY <1>8, NoRowFacts DEF DataWritten, Writes
  <2>7. QED
    BY <1>3, <2>2, <2>3, <2>5, <2>6, NoRowFacts, OneRowMoves
<1>9. CASE e.op = "check" /\ Present(old)
  <2>1. PICK row : row = BumpItemReadTs(old, ts)
    OBVIOUS
  <2>2. z = [rows |-> [s.rows EXCEPT ![e.key] = row], ts |-> s.ts, v |-> s.v]
    BY <1>1, <1>2, <1>9, <2>1, WriteCases
  <2>3. row = [data |-> old.data, v |-> old.v, r |-> MaxOf(old.r, ts), w |-> old.w]
    <3>1. old = [data |-> old.data, v |-> old.v, r |-> old.r, w |-> old.w]
      BY <1>3 DEF Row
    <3>2. QED
      BY <2>1, <3>1 DEF BumpItemReadTs
  <2>4. /\ row \in Row /\ row.data = old.data /\ row.v = old.v /\ row.r >= old.r /\ row.r >= ts
        /\ row.r \in Nat
    BY <1>4, <2>3 DEF MaxOf, Row
  <2>5. Present(row) /\ RowGood(row)
    BY <1>3, <1>9, <2>4 DEF Present, RowGood
  <2>6. z.rows[e.key] = row /\ z.ts = s.ts /\ z.v = s.v
    BY <1>5, <2>2
  <2>7. Advances(s, z, e.key) /\ StampIn(z, e.key) >= ts
    BY <1>1, <1>3, <1>4, <1>9, <2>4, <2>5, <2>6 DEF Advances, StampIn, RevisionIn
  <2>8. row.data = DataWritten(e, s.rows[e.key].data)
    BY <1>1, <1>9, <2>4 DEF DataWritten, Writes
  <2>9. QED
    BY <1>3, <2>2, <2>4, <2>5, <2>7, <2>8, OneRowMoves
<1>10. CASE e.op \in {"delete", "check"} /\ ~Present(old)
  <2>1. PICK mts : mts = MaxOf(s.ts, ts)
    OBVIOUS
  <2>2. old = NoRow
    BY <1>3, <1>10 DEF RowGood
  <2>3. z = [rows |-> [s.rows EXCEPT ![e.key] = NoRow], ts |-> mts, v |-> s.v]
    <3>1. z = [rows |-> s.rows, ts |-> mts, v |-> s.v]
      BY <1>1, <1>2, <1>10, <2>1, WriteCases
    <3>2. s.rows = [s.rows EXCEPT ![e.key] = NoRow]
      BY <1>1, <1>3, <2>2
    <3>3. QED
      BY <3>1, <3>2
  <2>4. mts \in Nat /\ mts >= s.ts /\ mts >= ts
    BY <1>3, <2>1 DEF MaxOf
  <2>5. z.rows[e.key] = NoRow /\ z.ts = mts /\ z.v = s.v
    BY <1>5, <2>3
  <2>6. Advances(s, z, e.key) /\ StampIn(z, e.key) >= ts
    BY <1>1, <1>3, <1>10, <2>2, <2>4, <2>5, NoRowFacts DEF Advances, StampIn, RevisionIn
  <2>7. NoRow.data = DataWritten(e, s.rows[e.key].data)
    BY <1>1, <1>10, <2>2, NoRowFacts DEF DataWritten, Writes
  <2>8. QED
    BY <1>3, <2>3, <2>4, <2>6, <2>7, NoRowFacts, OneRowMoves
<1>11. QED
  <2>1. e.op \in Writes \/ e.op \in {"delete", "check"}
    BY DEF EntryOK, Op, Writes
  <2>2. QED
    BY <1>7, <1>8, <1>9, <1>10, <2>1

-----------------------------------------------------------------------------
(***************************************************************************)
(* #apply: the entries of a storage transaction one after the other.       *)
(***************************************************************************)
RowInv == \A k \in Key : RowGood(item[k])

(* The entries are numbered from 1 and each is one write. *)
EntriesOK(E) == /\ DOMAIN E \subseteq 1 .. MAX_ITEMS_PER_TX
                /\ \A i \in DOMAIN E : EntryOK(E[i])

NextStore(E, ts, s, n) == IF n \in DOMAIN E THEN Write(s, E[n], ts) ELSE s

StoresFrom(p, E, ts, a) ==
  /\ \A n \in Nat : a[n] \in GoodStores
  /\ a[0] = [rows |-> item, ts |-> delTs[p], v |-> delV[p]]
  /\ \A n \in Nat : a[n + 1] = NextStore(E, ts, a[n], n + 1)

(* StoreAfter is the iteration of its writes.                              *)
LEMMA StoreAfterFacts ==
  ASSUME PartTypeOK, RowInv, NEW p \in Part, NEW E, EntriesOK(E), NEW ts \in Nat
  PROVE  StoresFrom(p, E, ts, StoreAfter(p, E, ts))
<1> DEFINE S == GoodStores
           s0 == [rows |-> item, ts |-> delTs[p], v |-> delV[p]]
           After(f) == f = [n \in Nat |-> IF n = 0 THEN s0 ELSE
                              IF n \in DOMAIN E THEN Write(f[n - 1], E[n], ts) ELSE f[n - 1]]
           F == [n \in Nat |-> [s \in S |-> NextStore(E, ts, s, n)]]
<1>1. \A n \in Nat, s \in S : NextStore(E, ts, s, n) \in S
  <2>1. ASSUME NEW n \in Nat, NEW s \in S
        PROVE  NextStore(E, ts, s, n) \in S
    <3>1. CASE n \in DOMAIN E
      <4>1. EntryOK(E[n])
        BY <3>1 DEF EntriesOK
      <4>2. WriteMoves(s, Write(s, E[n], ts), E[n], ts)
        BY <4>1, WriteFacts
      <4>3. QED
        BY <3>1, <4>2 DEF NextStore, WriteMoves
    <3>2. QED
      BY <3>1 DEF NextStore
  <2>2. QED
    BY <2>1
<1>2. StepFunction(S, F)
  <2> HIDE DEF S
  <2> QED
    BY <1>1 DEF StepFunction
<1>3. s0 \in S
  BY DEF PartTypeOK, RowInv, GoodStores
<1> HIDE DEF s0
<1>4. PICK c : Iterates(S, s0, F, c)
  <2> HIDE DEF F, S
  <2>2. QED
    BY <1>2, <1>3, Iteration
<1>5. ASSUME NEW f, f \in [Nat -> S], f[0] = s0, \A n \in Nat : f[n + 1] = F[n + 1][f[n]]
      PROVE  \A n \in Nat : f[n + 1] = NextStore(E, ts, f[n], n + 1)
  <2> HIDE DEF S
  <2>1. \A n \in Nat, e \in S : F[n + 1][e] = NextStore(E, ts, e, n + 1)
    OBVIOUS
  <2> HIDE DEF F
  <2> QED
    BY <1>5, <2>1
<1>6. \A n \in Nat : c[n + 1] = NextStore(E, ts, c[n], n + 1)
  <2> HIDE DEF F
  <2> QED
    BY <1>4, <1>5 DEF Iterates
<1>7. ASSUME NEW n \in Nat
      PROVE  c[n] = IF n = 0 THEN s0 ELSE
                    IF n \in DOMAIN E THEN Write(c[n - 1], E[n], ts) ELSE c[n - 1]
  <2>1. CASE n = 0
    BY <1>4, <2>1 DEF Iterates
  <2>2. CASE n # 0
    <3>1. PICK m \in Nat : n = m + 1 /\ n - 1 = m
      <4>1. n - 1 \in Nat /\ n = (n - 1) + 1
        BY <2>2
      <4>2. QED
        BY <4>1
    <3>2. c[m + 1] = NextStore(E, ts, c[m], m + 1)
      BY <1>6
    <3>3. c[n] = NextStore(E, ts, c[n - 1], n)
      BY <3>1, <3>2
    <3>4. QED
      BY <2>2, <3>3 DEF NextStore
  <2>3. QED
    BY <2>1, <2>2
<1>8. After(c)
  BY <1>4, <1>7 DEF Iterates
<1>9. After(StoreAfter(p, E, ts))
  <2>1. StoreAfter(p, E, ts) = CHOOSE f : After(f)
    BY DEF StoreAfter, s0
  <2>2. \E f : After(f)
    BY <1>8
  <2> HIDE DEF After
  <2>3. QED
    BY <2>1, <2>2, Zenon
<1>10. PICK a : a = StoreAfter(p, E, ts) /\ After(a)
  BY <1>9
<1>11. a[0] = s0 /\ \A n \in Nat : a[n + 1] = NextStore(E, ts, a[n], n + 1)
  <2>1. a[0] = s0
    BY <1>10
  <2>2. ASSUME NEW n \in Nat
        PROVE  a[n + 1] = NextStore(E, ts, a[n], n + 1)
    <3>1. n + 1 \in Nat /\ n + 1 # 0 /\ (n + 1) - 1 = n
      OBVIOUS
    <3>2. QED
      BY <1>10, <3>1 DEF NextStore
  <2>3. QED
    BY <2>1, <2>2
<1>12. \A n \in Nat : a[n] \in S
  <2> DEFINE N == {n \in Nat : a[n] \in S}
  <2> HIDE DEF S, After
  <2>1. 0 \in N
    BY <1>3, <1>11
  <2>2. ASSUME NEW n \in Nat, n \in N
        PROVE  n + 1 \in N
    <3>1. a[n] \in S /\ a[n + 1] = NextStore(E, ts, a[n], n + 1)
      BY <1>11, <2>2
    <3>2. NextStore(E, ts, a[n], n + 1) \in S
      BY <1>1, <3>1
    <3>3. QED
      BY <3>1, <3>2
  <2>3. \A n \in Nat : n \in N
    <3> HIDE DEF N
    <3> QED
      BY <2>1, <2>2, Inductive
  <2>4. QED
    BY <2>3
<1>13. QED
  BY <1>10, <1>11, <1>12 DEF s0, StoresFrom

(* Two advances make one.                                                  *)
LEMMA AdvancesTwice ==
  ASSUME NEW a \in GoodStores, NEW b \in GoodStores, NEW c \in GoodStores, NEW k \in Key,
         Advances(a, b, k), Advances(b, c, k)
  PROVE  Advances(a, c, k)
<1>1. /\ StampIn(a, k) \in Nat /\ StampIn(b, k) \in Nat /\ StampIn(c, k) \in Nat
      /\ RevisionIn(a, k) \in Nat /\ RevisionIn(b, k) \in Nat /\ RevisionIn(c, k) \in Nat
  BY DEF GoodStores, StampIn, RevisionIn, Row
<1>2. /\ StampIn(c, k) >= StampIn(a, k) /\ RevisionIn(c, k) >= RevisionIn(a, k)
      /\ RevisionIn(b, k) > RevisionIn(a, k) \/ RevisionIn(c, k) > RevisionIn(b, k)
           => RevisionIn(c, k) > RevisionIn(a, k)
  BY <1>1 DEF Advances
<1>3. c.rows[k].data # a.rows[k].data => c.rows[k].data # b.rows[k].data \/ b.rows[k].data # a.rows[k].data
  OBVIOUS
<1>4. QED
  BY <1>2, <1>3 DEF Advances

EntryKeys(E) == {E[i].key : i \in DOMAIN E}
Touched(E, k, n) == \E i \in DOMAIN E : i <= n /\ E[i].key = k

(* What the first n entries do to a partition.                             *)
FirstMoves(s, z, E, ts, n) ==
  /\ z.ts >= s.ts /\ z.v >= s.v
  /\ \A k \in Key : /\ Advances(s, z, k)
                    /\ ~Touched(E, k, n) => z.rows[k] = s.rows[k]
                    /\ Touched(E, k, n) => StampIn(z, k) >= ts

LEMMA StoreMoves ==
  ASSUME PartTypeOK, RowInv, NEW p \in Part, NEW E, EntriesOK(E), NEW ts \in Nat
  PROVE  \A n \in Nat : FirstMoves(StoreAfter(p, E, ts)[0], StoreAfter(p, E, ts)[n], E, ts, n)
<1>1. PICK a : a = StoreAfter(p, E, ts)
  OBVIOUS
<1>2. /\ \A n \in Nat : a[n] \in GoodStores
      /\ \A n \in Nat : a[n + 1] = NextStore(E, ts, a[n], n + 1)
  <2>1. StoresFrom(p, E, ts, a)
    BY <1>1, StoreAfterFacts
  <2>2. QED
    BY <2>1 DEF StoresFrom
<1> DEFINE N == {n \in Nat : FirstMoves(a[0], a[n], E, ts, n)}
<1>3. 0 \in N
  <2>1. a[0] \in GoodStores
    BY <1>2
  <2>2. /\ a[0].ts >= a[0].ts /\ a[0].v >= a[0].v
        /\ \A k \in Key : StampIn(a[0], k) >= StampIn(a[0], k) /\ RevisionIn(a[0], k) >= RevisionIn(a[0], k)
    BY <2>1 DEF GoodStores, StampIn, RevisionIn, Row
  <2>3. \A k \in Key : ~Touched(E, k, 0)
    BY DEF Touched, EntriesOK
  <2>4. QED
    BY <2>2, <2>3 DEF FirstMoves, Advances
<1>4. ASSUME NEW n \in Nat, n \in N
      PROVE  n + 1 \in N
  <2>1. PICK s, b, z : s = a[0] /\ b = a[n] /\ z = a[n + 1]
    OBVIOUS
  <2>2. s \in GoodStores /\ b \in GoodStores /\ z \in GoodStores /\ z = NextStore(E, ts, b, n + 1)
    BY <1>2, <2>1
  <2>3. FirstMoves(s, b, E, ts, n)
    BY <1>4, <2>1
  <2>4. \A k : Touched(E, k, n + 1) <=> Touched(E, k, n) \/ (n + 1 \in DOMAIN E /\ E[n + 1].key = k)
    <3>1. \A i \in DOMAIN E : i <= n + 1 <=> i <= n \/ i = n + 1
      BY DEF EntriesOK
    <3>2. QED
      BY <3>1 DEF Touched
  <2>5. CASE n + 1 \notin DOMAIN E
    <3>1. z = b
      BY <2>2, <2>5 DEF NextStore
    <3>2. FirstMoves(s, z, E, ts, n + 1)
      BY <2>3, <2>4, <2>5, <3>1 DEF FirstMoves
    <3>3. QED
      BY <2>1, <3>2
  <2>6. CASE n + 1 \in DOMAIN E
    <3>1. PICK e : e = E[n + 1] /\ EntryOK(e)
      BY <2>6 DEF EntriesOK
    <3>2. WriteMoves(b, z, e, ts)
      BY <2>2, <2>6, <3>1, WriteFacts DEF NextStore
    <3>3. ASSUME NEW k \in Key
          PROVE  /\ Advances(s, z, k)
                 /\ ~Touched(E, k, n + 1) => z.rows[k] = s.rows[k]
                 /\ Touched(E, k, n + 1) => StampIn(z, k) >= ts
      <4>1. Advances(s, b, k) /\ Advances(b, z, k)
        BY <2>3, <3>2 DEF FirstMoves, WriteMoves
      <4>2. Advances(s, z, k)
        BY <2>2, <4>1, AdvancesTwice
      <4>3. ~Touched(E, k, n + 1) => z.rows[k] = s.rows[k]
        BY <2>3, <2>4, <2>6, <3>1, <3>2 DEF FirstMoves, WriteMoves
      <4>4. StampIn(b, k) \in Nat /\ StampIn(z, k) \in Nat
        BY <2>2 DEF GoodStores, StampIn, Row
      <4>5. ASSUME Touched(E, k, n)
            PROVE  StampIn(z, k) >= ts
        <5>1. StampIn(b, k) >= ts /\ StampIn(z, k) >= StampIn(b, k)
          BY <2>3, <4>1, <4>5 DEF FirstMoves, Advances
        <5>2. QED
          BY <4>4, <5>1
      <4>6. ASSUME E[n + 1].key = k
            PROVE  StampIn(z, k) >= ts
        BY <3>1, <3>2, <4>6 DEF WriteMoves
      <4>7. QED
        BY <2>4, <4>2, <4>3, <4>5, <4>6
    <3>4. z.ts >= s.ts /\ z.v >= s.v
      <4>1. z.ts >= b.ts /\ z.v >= b.v /\ b.ts >= s.ts /\ b.v >= s.v
        BY <2>3, <3>2 DEF FirstMoves, WriteMoves
      <4>2. z.ts \in Nat /\ z.v \in Nat /\ b.ts \in Nat /\ b.v \in Nat /\ s.ts \in Nat /\ s.v \in Nat
        BY <2>2 DEF GoodStores
      <4>3. QED
        BY <4>1, <4>2
    <3>5. FirstMoves(s, z, E, ts, n + 1)
      BY <3>3, <3>4 DEF FirstMoves
    <3>6. QED
      BY <2>1, <3>5
  <2>7. QED
    BY <2>5, <2>6
<1>5. \A n \in Nat : n \in N
  <2> HIDE DEF N
  <2> QED
    BY <1>3, <1>4, Inductive
<1>6. QED
  BY <1>1, <1>5

(* The stamp of a key, present or deleted. *)
Stamp(k) == IF Present(item[k]) THEN item[k].r ELSE delTs[PartOf[k]]

(* No row, stamp, revision or mark goes back in a step; data that changes  *)
(* raises the revision.                                                    *)
RowsAdvance ==
  /\ item' \in [Key -> Row] /\ delTs' \in [Part -> Nat] /\ delV' \in [Part -> Nat]
  /\ RowInv'
  /\ \A q \in Part : delTs'[q] >= delTs[q] /\ delV'[q] >= delV[q]
  /\ \A k \in Key : /\ Stamp(k)' >= Stamp(k) /\ RevisionOf(k)' >= RevisionOf(k)
                    /\ item'[k].data # item[k].data => RevisionOf(k)' > RevisionOf(k)

(* What #apply does to the rows and the marks.                             *)
LEMMA ApplyOpsFacts ==
  ASSUME PartTypeOK, RowInv, NEW p \in Part, NEW E, EntriesOK(E), \A k \in EntryKeys(E) : PartOf[k] = p,
         NEW ts \in Nat, ApplyOps(p, E, ts)
  PROVE  /\ RowsAdvance
         /\ \A k \in Key : k \notin EntryKeys(E) => item'[k] = item[k]
         /\ \A k \in EntryKeys(E) : Stamp(k)' >= ts
         /\ item' = StoreAfter(p, E, ts)[MAX_ITEMS_PER_TX].rows
<1>1. MAX_ITEMS_PER_TX \in Nat
  BY MaxItemsAssumption
<1>2. PICK s, z : s = StoreAfter(p, E, ts)[0] /\ z = StoreAfter(p, E, ts)[MAX_ITEMS_PER_TX]
  OBVIOUS
<1>3. /\ s \in GoodStores /\ z \in GoodStores
      /\ s.rows = item /\ s.ts = delTs[p] /\ s.v = delV[p]
  <2>1. PICK a : a = StoreAfter(p, E, ts) /\ StoresFrom(p, E, ts, a)
    BY StoreAfterFacts
  <2>2. QED
    BY <1>1, <1>2, <2>1 DEF StoresFrom
<1>4. FirstMoves(s, z, E, ts, MAX_ITEMS_PER_TX)
  BY <1>1, <1>2, StoreMoves
<1>5. /\ item' = z.rows /\ delTs' = [delTs EXCEPT ![p] = z.ts] /\ delV' = [delV EXCEPT ![p] = z.v]
  BY <1>2 DEF ApplyOps
<1>6. /\ delTs \in [Part -> Nat] /\ delV \in [Part -> Nat] /\ item \in [Key -> Row]
      /\ z.rows \in [Key -> Row] /\ z.ts \in Nat /\ z.v \in Nat
  BY <1>3 DEF PartTypeOK, GoodStores
<1>7. /\ delTs' \in [Part -> Nat] /\ delV' \in [Part -> Nat] /\ item' \in [Key -> Row]
      /\ delTs'[p] = z.ts /\ delV'[p] = z.v
      /\ \A q \in Part : q # p => delTs'[q] = delTs[q] /\ delV'[q] = delV[q]
  BY <1>5, <1>6
<1>8. RowInv'
  BY <1>3, <1>5 DEF RowInv, GoodStores, RowGood, Present
<1>9. \A q \in Part : delTs'[q] >= delTs[q] /\ delV'[q] >= delV[q]
  <2>1. z.ts >= s.ts /\ z.v >= s.v
    BY <1>4 DEF FirstMoves
  <2>2. QED
    BY <1>3, <1>6, <1>7, <2>1
<1>10. \A k : Touched(E, k, MAX_ITEMS_PER_TX) <=> k \in EntryKeys(E)
  BY <1>1 DEF Touched, EntryKeys, EntriesOK
<1>11. ASSUME NEW k \in Key
       PROVE  /\ Stamp(k)' >= Stamp(k) /\ RevisionOf(k)' >= RevisionOf(k)
              /\ item'[k].data # item[k].data => RevisionOf(k)' > RevisionOf(k)
              /\ k \notin EntryKeys(E) => item'[k] = item[k]
              /\ k \in EntryKeys(E) => Stamp(k)' >= ts
  <2>1. /\ Advances(s, z, k)
        /\ k \notin EntryKeys(E) => z.rows[k] = s.rows[k]
        /\ k \in EntryKeys(E) => StampIn(z, k) >= ts
    BY <1>4, <1>10 DEF FirstMoves
  <2>2. CASE PartOf[k] = p
    <3>1. /\ StampIn(s, k) = Stamp(k) /\ StampIn(z, k) = Stamp(k)'
          /\ RevisionIn(s, k) = RevisionOf(k) /\ RevisionIn(z, k) = RevisionOf(k)'
      BY <1>3, <1>5, <1>7, <2>2 DEF StampIn, RevisionIn, Stamp, RevisionOf, Present
    <3>2. QED
      BY <1>3, <1>5, <2>1, <3>1 DEF Advances
  <2>3. CASE PartOf[k] # p
    <3>1. k \notin EntryKeys(E) /\ PartOf[k] \in Part
      BY <2>3, PartOfAssumption
    <3>2. item'[k] = item[k] /\ delTs'[PartOf[k]] = delTs[PartOf[k]] /\ delV'[PartOf[k]] = delV[PartOf[k]]
      BY <1>3, <1>5, <1>7, <2>1, <2>3, <3>1
    <3>3. Stamp(k)' = Stamp(k) /\ RevisionOf(k)' = RevisionOf(k)
      BY <3>2 DEF Stamp, RevisionOf, Present
    <3>4. Stamp(k) \in Nat /\ RevisionOf(k) \in Nat
      BY <1>6, <3>1 DEF Stamp, RevisionOf, Row
    <3>5. QED
      BY <3>1, <3>2, <3>3, <3>4
  <2>4. QED
    BY <2>2, <2>3
<1>12. EntryKeys(E) \subseteq Key
  BY DEF EntryKeys, EntriesOK, EntryOK
<1>13. QED
  BY <1>2, <1>5, <1>7, <1>8, <1>9, <1>11, <1>12 DEF RowsAdvance

-----------------------------------------------------------------------------
(***************************************************************************)
(* The data that a request leaves.                                         *)
(***************************************************************************)
Changes(r, k) == {i \in OpsOf(r, k) : r[i].op # "check"}

NoChange(r, k, m, n) == m <= n /\ \A i \in Changes(r, k) : ~(m < i /\ i <= n)

(* Between two operations that change an item its data stays.              *)
LEMMA DataStays ==
  ASSUME NEW r \in Request, NEW k, NEW d \in Seq(Writer), NEW x \in Writer,
         NEW m \in Nat, NEW n \in Nat, NoChange(r, k, m, n)
  PROVE  DataAfter(r, k, d, x)[n] = DataAfter(r, k, d, x)[m]
<1>1. PICK a : a = DataAfter(r, k, d, x) /\ DataFrom(r, k, d, x, a)
  BY DataAfterFacts
<1> DEFINE N == {j \in Nat : m + j <= n => a[m + j] = a[m]}
<1>0. m <= n /\ \A i \in Changes(r, k) : ~(m < i /\ i <= n)
  BY DEF NoChange
<1>2. 0 \in N
  OBVIOUS
<1>3. ASSUME NEW j \in Nat, j \in N
      PROVE  j + 1 \in N
  <2>1. SUFFICES ASSUME m + (j + 1) <= n
                 PROVE  a[m + (j + 1)] = a[m]
    OBVIOUS
  <2>2. PICK i \in Nat : i = m + j
    OBVIOUS
  <2>3. a[i] = a[m] /\ m + (j + 1) = i + 1 /\ m < i + 1 /\ i + 1 <= n
    BY <1>3, <2>1, <2>2
  <2>4. a[i + 1] = NextData(r, k, x, a[i], i + 1) /\ a[i] \in Seq(Writer)
    BY <1>1 DEF DataFrom
  <2>5. i + 1 \notin Changes(r, k)
    BY <1>0, <2>3
  <2>6. a[i + 1] = a[i]
    <3>1. CASE i + 1 \in OpsOf(r, k)
      <4>1. r[i + 1].op = "check" /\ "check" \in Op
        BY <2>5, <3>1 DEF Changes, Op
      <4>2. Written("check", a[i], x) = a[i]
        BY <2>4, <4>1, WrittenFacts
      <4>3. QED
        BY <2>4, <3>1, <4>1, <4>2 DEF NextData
    <3>2. CASE i + 1 \notin OpsOf(r, k)
      BY <2>4, <3>2 DEF NextData
    <3>3. QED
      BY <3>1, <3>2
  <2>7. QED
    BY <2>3, <2>6
<1>4. \A j \in Nat : j \in N
  <2> HIDE DEF N
  <2> QED
    BY <1>2, <1>3, Inductive
<1>5. n - m \in Nat /\ m + (n - m) = n
  BY <1>0
<1>6. a[m + (n - m)] = a[m]
  BY <1>4, <1>5
<1>7. QED
  BY <1>1, <1>5, <1>6

(* A request leaves the data of the keys it does not name.                 *)
LEMMA OtherData ==
  ASSUME NEW r \in Request, NEW k, k \notin KeysOf(r), NEW d \in Seq(Writer), NEW x \in Writer
  PROVE  DataAfter(r, k, d, x)[Len(r)] = d
<1>1. PICK n \in Nat, m \in Nat : n = Len(r) /\ m = 0
  BY RequestFacts
<1>2. NoChange(r, k, m, n)
  BY <1>1, KeysFacts DEF NoChange, Changes
<1>3. DataAfter(r, k, d, x)[n] = DataAfter(r, k, d, x)[m]
  BY <1>2, DataStays
<1>4. DataFrom(r, k, d, x, DataAfter(r, k, d, x))
  BY DataAfterFacts
<1>5. QED
  BY <1>1, <1>3, <1>4 DEF DataFrom

(* Latest is the last member of a non-empty set of operation indices.      *)
LEMMA LatestFacts ==
  ASSUME NEW n \in Nat, NEW I \in SUBSET (1 .. n), I # {}
  PROVE  Latest(I) \in I /\ \A j \in I : j <= Latest(I)
<1> DEFINE T == {m \in Nat : n - m \in I}
<1>1. T # {}
  <2>1. PICK i \in I : TRUE
    OBVIOUS
  <2>2. i \in Nat /\ n - i \in Nat /\ n - (n - i) = i
    BY <2>1
  <2>3. n - i \in T
    BY <2>1, <2>2
  <2>4. QED
    BY <2>3
<1>2. PICK m \in T : \A j \in T : m <= j
  BY <1>1, SmallestNat
<1>3. ASSUME NEW j \in I
      PROVE  j <= n - m
  <2>1. j \in Nat /\ n - j \in Nat /\ n - (n - j) = j
    OBVIOUS
  <2>2. n - j \in T
    BY <2>1
  <2>3. m <= n - j
    BY <1>2, <2>2
  <2>4. QED
    BY <1>2, <2>1, <2>3
<1>4. n - m \in I /\ \A j \in I : j <= n - m
  BY <1>2, <1>3
<1> DEFINE IsLast(i) == \A j \in I : j <= i
<1>5. \E i \in I : IsLast(i)
  BY <1>4
<1>6. Latest(I) = CHOOSE i \in I : IsLast(i)
  BY DEF Latest
<1>7. Latest(I) \in I /\ IsLast(Latest(I))
  <2> HIDE DEF IsLast
  <2> QED
    BY <1>5, <1>6, Zenon
<1>8. QED
  BY <1>7

(* What a request leaves of an item, as the lock row has it: the operation *)
(* of the lock, and the data of the last write.                            *)
LEMMA LockRowFacts ==
  ASSUME NEW r \in Request, NEW k, NEW d \in Seq(Writer), NEW x \in Writer,
         NEW op, op = LockOperation(OpList(r, k)), NEW a, a = DataAfter(r, k, d, x)
  PROVE  /\ op \in Op
         /\ op = "check" <=> Changes(r, k) = {}
         /\ op = "check" => \A n \in Nat : a[n] = d
         /\ op = "delete" => a[Len(r)] = NoData
         /\ op \in Writes => WritesOf(r, k) # {} /\ a[Len(r)] = a[Latest(WritesOf(r, k))]
         /\ WritesOf(r, k) # {} => a[Latest(WritesOf(r, k))] \in Seq(Writer) \ {NoData}
<1>1. DataFrom(r, k, d, x, a)
  BY DataAfterFacts
<1>2. /\ Len(r) \in Nat /\ Changes(r, k) \subseteq 1 .. Len(r) /\ WritesOf(r, k) \subseteq Changes(r, k)
      /\ \A i \in Changes(r, k) : r[i].op \in Op /\ r[i].op # "check"
      /\ \A i \in Changes(r, k) : i \in WritesOf(r, k) <=> r[i].op \in Writes
  <2>1. Len(r) \in Nat /\ DOMAIN r = 1 .. Len(r) /\ OpsOf(r, k) \subseteq DOMAIN r
    BY RequestFacts
  <2>2. \A i \in DOMAIN r : r[i].op \in Op
    BY RequestFacts
  <2>3. QED
    BY <2>1, <2>2 DEF Changes, WritesOf, Writes
<1>3. /\ Changing(OpList(r, k)) = Changes(r, k)
      /\ \A i \in Changes(r, k) : OpList(r, k)[i] = r[i].op
  BY DEF Changing, OpList, Changes
<1>4. ASSUME NEW i \in Changes(r, k)
      PROVE  /\ a[i] = Written(r[i].op, a[i - 1], x) /\ a[i - 1] \in Seq(Writer)
             /\ a[i] \in Seq(Writer)
  <2>1. i \in Nat /\ i - 1 \in Nat /\ (i - 1) + 1 = i
    BY <1>2
  <2>2. a[(i - 1) + 1] = NextData(r, k, x, a[i - 1], (i - 1) + 1) /\ a[i - 1] \in Seq(Writer) /\ a[i] \in Seq(Writer)
    BY <1>1, <2>1 DEF DataFrom
  <2>3. i \in OpsOf(r, k)
    BY DEF Changes
  <2>4. QED
    BY <2>1, <2>2, <2>3 DEF NextData
<1>5. WritesOf(r, k) # {} => a[Latest(WritesOf(r, k))] \in Seq(Writer) \ {NoData}
  <2>1. SUFFICES ASSUME WritesOf(r, k) # {}
                 PROVE  a[Latest(WritesOf(r, k))] \in Seq(Writer) \ {NoData}
    OBVIOUS
  <2>2. PICK i : i = Latest(WritesOf(r, k))
    OBVIOUS
  <2>3. WritesOf(r, k) \in SUBSET (1 .. Len(r))
    BY <1>2
  <2>4. i \in WritesOf(r, k)
    BY <1>2, <2>1, <2>2, <2>3, LatestFacts
  <2>5. i \in Changes(r, k) /\ r[i].op \in Writes /\ r[i].op \in Op
    BY <1>2, <2>4
  <2>6. a[i] = Written(r[i].op, a[i - 1], x) /\ a[i - 1] \in Seq(Writer) /\ a[i] \in Seq(Writer)
    BY <1>4, <2>5
  <2>7. Written(r[i].op, a[i - 1], x) # NoData
    BY <2>5, <2>6, WrittenFacts
  <2>8. QED
    BY <2>2, <2>6, <2>7
<1>6. CASE Changes(r, k) = {}
  <2>1. op = "check"
    BY <1>3, <1>6 DEF LockOperation
  <2>2. ASSUME NEW n \in Nat
        PROVE  a[n] = d
    <3>1. 0 <= n /\ 0 \in Nat /\ \A i \in Changes(r, k) : ~(0 < i /\ i <= n)
      BY <1>6
    <3>2. a[n] = a[0]
      BY <3>1, DataStays DEF NoChange
    <3>3. QED
      BY <1>1, <3>2 DEF DataFrom
  <2>3. op \in Op /\ op # "delete" /\ op \notin Writes
    BY <2>1 DEF Op, Writes
  <2>4. QED
    BY <1>5, <1>6, <2>1, <2>2, <2>3
<1>7. CASE Changes(r, k) # {}
  <2>1. PICK i : i = Latest(Changes(r, k))
    OBVIOUS
  <2>2. Changes(r, k) \in SUBSET (1 .. Len(r))
    BY <1>2
  <2>3. i \in Changes(r, k) /\ \A j \in Changes(r, k) : j <= i
    BY <1>2, <1>7, <2>1, <2>2, LatestFacts
  <2>4. op = r[i].op /\ op \in Op /\ op # "check"
    BY <1>2, <1>3, <1>7, <2>1, <2>3 DEF LockOperation
  <2>5. a[i] = Written(op, a[i - 1], x) /\ a[i - 1] \in Seq(Writer)
    BY <1>4, <2>3, <2>4
  <2>6. a[Len(r)] = a[i]
    <3>1. i \in Nat /\ i <= Len(r)
      BY <1>2, <2>3
    <3>2. \A j \in Changes(r, k) : ~(i < j /\ j <= Len(r))
      BY <1>2, <2>3, <3>1
    <3>3. QED
      BY <1>2, <3>1, <3>2, DataStays DEF NoChange
  <2>7. op = "delete" => a[Len(r)] = NoData
    BY <2>4, <2>5, <2>6, WrittenFacts
  <2>8. ASSUME op \in Writes
        PROVE  WritesOf(r, k) # {} /\ i = Latest(WritesOf(r, k))
    <3>1. i \in WritesOf(r, k)
      BY <1>2, <2>3, <2>4, <2>8
    <3>2. PICK j : j = Latest(WritesOf(r, k))
      OBVIOUS
    <3>3. WritesOf(r, k) \in SUBSET (1 .. Len(r))
      BY <1>2
    <3>4. j \in WritesOf(r, k) /\ \A m \in WritesOf(r, k) : m <= j
      BY <1>2, <3>1, <3>2, <3>3, LatestFacts
    <3>5. i <= j /\ j <= i /\ i \in Nat /\ j \in Nat
      BY <1>2, <2>3, <3>1, <3>4
    <3>6. QED
      BY <3>1, <3>2, <3>5
  <2>9. QED
    BY <1>5, <1>7, <2>4, <2>6, <2>7, <2>8
<1>8. QED
  BY <1>6, <1>7

(* Between two entries that change an item its data stays.                 *)
LEMMA RowDataStays ==
  ASSUME PartTypeOK, RowInv, NEW p \in Part, NEW E, EntriesOK(E), NEW ts \in Nat, NEW k \in Key,
         NEW m \in Nat, NEW n \in Nat, m <= n, NEW a, a = StoreAfter(p, E, ts),
         \A i \in DOMAIN E : m < i /\ i <= n => E[i].key # k \/ E[i].op = "check"
  PROVE  a[n].rows[k].data = a[m].rows[k].data
<1>1. StoresFrom(p, E, ts, a)
  BY StoreAfterFacts
<1> DEFINE N == {j \in Nat : m + j <= n => a[m + j].rows[k].data = a[m].rows[k].data}
<1>2. 0 \in N
  OBVIOUS
<1>3. ASSUME NEW j \in Nat, j \in N
      PROVE  j + 1 \in N
  <2>1. SUFFICES ASSUME m + (j + 1) <= n
                 PROVE  a[m + (j + 1)].rows[k].data = a[m].rows[k].data
    OBVIOUS
  <2>2. PICK i \in Nat : i = m + j
    OBVIOUS
  <2>3. a[i].rows[k].data = a[m].rows[k].data /\ m + (j + 1) = i + 1 /\ m < i + 1 /\ i + 1 <= n
    BY <1>3, <2>1, <2>2
  <2>4. a[i + 1] = NextStore(E, ts, a[i], i + 1) /\ a[i] \in GoodStores
    BY <1>1 DEF StoresFrom
  <2>5. CASE i + 1 \in DOMAIN E
    <3>1. PICK e : e = E[i + 1] /\ EntryOK(e)
      BY <2>5 DEF EntriesOK
    <3>2. WriteMoves(a[i], a[i + 1], e, ts)
      BY <2>4, <2>5, <3>1, WriteFacts DEF NextStore
    <3>3. e.key # k \/ e.op = "check"
      BY <2>3, <2>5, <3>1
    <3>4. a[i + 1].rows[k].data = a[i].rows[k].data
      <4>1. CASE e.key # k
        BY <3>2, <4>1 DEF WriteMoves
      <4>2. CASE e.key = k /\ e.op = "check"
        BY <3>2, <4>2 DEF WriteMoves, DataWritten, Writes
      <4>3. QED
        BY <3>3, <4>1, <4>2
    <3>5. QED
      BY <2>3, <3>4
  <2>6. CASE i + 1 \notin DOMAIN E
    BY <2>3, <2>4, <2>6 DEF NextStore
  <2>7. QED
    BY <2>5, <2>6
<1>4. \A j \in Nat : j \in N
  <2> HIDE DEF N
  <2> QED
    BY <1>2, <1>3, Inductive
<1>5. n - m \in Nat /\ m + (n - m) = n
  OBVIOUS
<1>6. a[m + (n - m)].rows[k].data = a[m].rows[k].data
  BY <1>4, <1>5
<1>7. QED
  BY <1>5, <1>6

(* The data of an item after all entries is what the last entry that       *)
(* changes it gives.                                                       *)
LEMMA FinalData ==
  ASSUME PartTypeOK, RowInv, NEW p \in Part, NEW E, EntriesOK(E), NEW ts \in Nat, NEW k \in Key,
         NEW i \in DOMAIN E, E[i].key = k, E[i].op # "check",
         \A j \in DOMAIN E : i < j => E[j].key # k \/ E[j].op = "check"
  PROVE  StoreAfter(p, E, ts)[MAX_ITEMS_PER_TX].rows[k].data = DataWritten(E[i], NoData)
<1>1. PICK a : a = StoreAfter(p, E, ts) /\ StoresFrom(p, E, ts, a)
  BY StoreAfterFacts
<1>2. i \in Nat /\ i <= MAX_ITEMS_PER_TX /\ MAX_ITEMS_PER_TX \in Nat /\ EntryOK(E[i]) /\ i - 1 \in Nat /\ (i - 1) + 1 = i
  BY MaxItemsAssumption DEF EntriesOK
<1>3. a[MAX_ITEMS_PER_TX].rows[k].data = a[i].rows[k].data
  BY <1>1, <1>2, RowDataStays
<1>4. a[(i - 1) + 1] = NextStore(E, ts, a[i - 1], (i - 1) + 1) /\ a[i - 1] \in GoodStores
  BY <1>1, <1>2 DEF StoresFrom
<1>5. WriteMoves(a[i - 1], a[i], E[i], ts)
  BY <1>2, <1>4, WriteFacts DEF NextStore
<1>6. a[i].rows[k].data = DataWritten(E[i], a[i - 1].rows[k].data)
  BY <1>5 DEF WriteMoves
<1>7. \A d : DataWritten(E[i], d) = DataWritten(E[i], NoData)
  BY <1>2 DEF DataWritten, EntryOK, Op, Writes
<1>8. QED
  BY <1>1, <1>3, <1>6, <1>7
-----------------------------------------------------------------------------
(***************************************************************************)
(* Locks.  While an item is locked its data does not change, so the        *)
(* conditions, the timestamp order and the data of the prepare stand.      *)
(***************************************************************************)
LockOK(t, k) ==
  /\ t \in Tx /\ tcState[t] # "none" /\ k \in KeysOfTx(t)
  /\ lock[k] = LockRow(t, k, txReq[t], txTs[t])
  /\ \A i \in OpsOf(txReq[t], k) : Holds(txReq[t][i].cond, DataBefore(txReq[t], i, t))
  /\ Present(item[k]) /\ ~OnlyChecks(txReq[t], k) => txTs[t] > item[k].r

LockInv == \A k \in Key : lock[k] # NoLock => LockOK(lock[k].tx, k)

(* What the request of t leaves of an item that is as it is now. *)
Result(t, k) == DataAfter(txReq[t], k, item[k].data, t)[Len(txReq[t])]

RequestTypes == txReq \in [Tx -> Request] /\ txTs \in [Tx -> Nat]

(* A lock row holds the operation and the data that the request leaves.    *)
LEMMA LockResult ==
  ASSUME PartTypeOK, RequestTypes, NEW t \in Tx, NEW k \in Key, LockOK(t, k)
  PROVE  /\ lock[k].tx = t /\ lock[k].ts = txTs[t] /\ lock[k].op \in Op
         /\ lock[k].ops = OpList(txReq[t], k)
         /\ lock[k].op = "check" <=> OnlyChecks(txReq[t], k)
         /\ lock[k].op = "check" => Result(t, k) = item[k].data
         /\ lock[k].op = "delete" => Result(t, k) = NoData
         /\ lock[k].op \in Writes => Result(t, k) = lock[k].data
         /\ WritesOf(txReq[t], k) # {} => lock[k].data \in Seq(Writer) \ {NoData}
<1>1. PICK r, d, a, op : r = txReq[t] /\ d = item[k].data /\ a = DataAfter(r, k, d, t) /\ op = LockOperation(OpList(r, k))
  OBVIOUS
<1>2. r \in Request /\ d \in Seq(Writer) /\ t \in Writer
  BY <1>1 DEF PartTypeOK, RequestTypes, Row, Writer
<1>3. /\ op \in Op
      /\ op = "check" <=> Changes(r, k) = {}
      /\ op = "check" => \A n \in Nat : a[n] = d
      /\ op = "delete" => a[Len(r)] = NoData
      /\ op \in Writes => WritesOf(r, k) # {} /\ a[Len(r)] = a[Latest(WritesOf(r, k))]
      /\ WritesOf(r, k) # {} => a[Latest(WritesOf(r, k))] \in Seq(Writer) \ {NoData}
  BY <1>1, <1>2, LockRowFacts
<1>4. /\ lock[k].tx = t /\ lock[k].ts = txTs[t] /\ lock[k].op = op
      /\ lock[k].ops = OpList(r, k) /\ lock[k].data = LastWriteData(t, r, k)
  BY <1>1 DEF LockOK, LockRow
<1>5. WritesOf(r, k) # {} => lock[k].data = a[Latest(WritesOf(r, k))]
  BY <1>1, <1>4 DEF LastWriteData
<1>6. OnlyChecks(r, k) <=> Changes(r, k) = {}
  BY DEF OnlyChecks, Changes
<1>7. Len(r) \in Nat /\ Result(t, k) = a[Len(r)]
  BY <1>1, <1>2, RequestFacts DEF Result
<1>8. QED
  BY <1>1, <1>3, <1>4, <1>5, <1>6, <1>7

EntriesOf(t, K, E) ==
  /\ DOMAIN E = {i \in DOMAIN txReq[t] : txReq[t][i].key \in K}
  /\ \A i \in DOMAIN E : E[i] = [key |-> txReq[t][i].key, op |-> txReq[t][i].op,
                                 data |-> lock[txReq[t][i].key].data]
  /\ EntriesOK(E) /\ EntryKeys(E) = K

(* The entries of the lock rows of t are the operations of its request.    *)
LEMMA LockEntriesFacts ==
  ASSUME PartTypeOK, RequestTypes, NEW t \in Tx, NEW K \in SUBSET Key, \A k \in K : LockOK(t, k)
  PROVE  EntriesOf(t, K, LockEntries(K))
<1>0. PICK E : E = LockEntries(K)
  OBVIOUS
<1>1. PICK r : r = txReq[t] /\ r \in Request
  BY DEF RequestTypes
<1>2. ASSUME NEW k \in K
      PROVE  DOMAIN lock[k].ops = OpsOf(r, k) /\ \A i \in OpsOf(r, k) : lock[k].ops[i] = r[i].op
  <2>1. lock[k].ops = OpList(r, k)
    BY <1>1, LockResult
  <2>2. QED
    BY <2>1 DEF OpList
<1>3. DOMAIN E = {i \in DOMAIN r : r[i].key \in K}
  <2>1. DOMAIN E = UNION {DOMAIN lock[k].ops : k \in K}
    BY <1>0 DEF LockEntries
  <2>2. QED
    BY <1>2, <2>1 DEF OpsOf
<1>4. ASSUME NEW i \in DOMAIN E
      PROVE  E[i] = [key |-> r[i].key, op |-> r[i].op, data |-> lock[r[i].key].data]
  <2>1. \A j \in K : i \in DOMAIN lock[j].ops <=> j = r[i].key
    BY <1>2, <1>3 DEF OpsOf
  <2>2. r[i].key \in K
    BY <1>3
  <2>3. PICK q : q = CHOOSE j \in K : i \in DOMAIN lock[j].ops
    OBVIOUS
  <2>4. q = r[i].key
    BY <2>1, <2>2, <2>3
  <2>5. E[i] = [key |-> q, op |-> lock[q].ops[i], data |-> lock[q].data]
    BY <1>0, <2>3 DEF LockEntries
  <2>6. lock[q].ops[i] = r[i].op
    BY <1>2, <1>3, <2>2, <2>4 DEF OpsOf
  <2>7. QED
    BY <2>4, <2>5, <2>6
<1>4a. \A i \in DOMAIN E : E[i].key = r[i].key /\ E[i].op = r[i].op /\ E[i].data = lock[r[i].key].data
  BY <1>4
<1>5. EntriesOK(E)
  <2>1. DOMAIN E \subseteq 1 .. MAX_ITEMS_PER_TX
    BY <1>1, <1>3, RequestFacts, MaxItemsAssumption
  <2>2. ASSUME NEW i \in DOMAIN E
        PROVE  EntryOK(E[i])
    <3>1. i \in DOMAIN r /\ r[i].key \in K /\ r[i].op \in Op /\ r[i].key \in Key
      BY <1>1, <1>3, RequestFacts
    <3>2. r[i].op \in Writes => WritesOf(r, r[i].key) # {}
      BY <3>1 DEF WritesOf, OpsOf
    <3>3. r[i].op \in Writes => lock[r[i].key].data \in Seq(Writer) \ {NoData}
      BY <1>1, <3>1, <3>2, LockResult
    <3>4. QED
      BY <1>4a, <3>1, <3>3 DEF EntryOK
  <2>3. QED
    BY <2>1, <2>2 DEF EntriesOK
<1>6. EntryKeys(E) = K
  <2>1. \A k \in K : k \in KeysOf(r)
    BY <1>1 DEF LockOK, KeysOfTx
  <2>2. \A k \in K : \E i \in DOMAIN E : E[i].key = k
    BY <1>3, <1>4a, <2>1 DEF KeysOf
  <2>3. \A i \in DOMAIN E : E[i].key \in K
    BY <1>3, <1>4a
  <2>4. QED
    BY <2>2, <2>3 DEF EntryKeys
<1>7. QED
  BY <1>0, <1>1, <1>3, <1>4, <1>5, <1>6 DEF EntriesOf

(* commitLocal and the stale job apply what the locks of t hold: each item *)
(* has the data that the request leaves.                                   *)
LEMMA ApplyLocksFacts ==
  ASSUME PartTypeOK, RowInv, RequestTypes, LockInv, NEW t \in Tx, NEW p \in Part, NEW ts \in Nat,
         ApplyLocks(t, p, LockedBy(t, p), ts)
  PROVE  /\ RowsAdvance
         /\ \A k \in Key \ LockedBy(t, p) : item'[k] = item[k]
         /\ \A k \in LockedBy(t, p) : Stamp(k)' >= ts /\ item'[k].data = Result(t, k)
         /\ applied' \in [Tx -> [Key -> Nat]]
         /\ \A k \in Key : applied'[t][k] = IF k \in LockedBy(t, p) THEN applied[t][k] + 1 ELSE applied[t][k]
         /\ \A s \in Tx \ {t} : applied'[s] = applied[s]
<1>1. PICK K, E : K = LockedBy(t, p) /\ E = LockEntries(K)
  OBVIOUS
<1>2. K \in SUBSET Key /\ \A k \in K : PartOf[k] = p /\ LockOK(t, k)
  BY <1>1, TxAssumption DEF LockedBy, LockInv, NoLock
<1>3. /\ DOMAIN E = {i \in DOMAIN txReq[t] : txReq[t][i].key \in K}
      /\ \A i \in DOMAIN E : /\ E[i].key = txReq[t][i].key /\ E[i].op = txReq[t][i].op
                             /\ E[i].data = lock[txReq[t][i].key].data
      /\ EntriesOK(E) /\ EntryKeys(E) = K
  <2>1. EntriesOf(t, K, E)
    BY <1>1, <1>2, LockEntriesFacts
  <2>2. ASSUME NEW i \in DOMAIN E
        PROVE  E[i].key = txReq[t][i].key /\ E[i].op = txReq[t][i].op /\ E[i].data = lock[txReq[t][i].key].data
    <3>1. E[i] = [key |-> txReq[t][i].key, op |-> txReq[t][i].op, data |-> lock[txReq[t][i].key].data]
      BY <2>1 DEF EntriesOf
    <3>2. QED
      BY <3>1
  <2>3. QED
    BY <2>1, <2>2 DEF EntriesOf
<1>4. ApplyOps(p, E, ts)
  BY <1>1 DEF ApplyLocks
<1>5. PICK z : z = StoreAfter(p, E, ts)[MAX_ITEMS_PER_TX]
  OBVIOUS
<1>6. /\ RowsAdvance
      /\ \A k \in Key \ K : item'[k] = item[k]
      /\ \A k \in K : Stamp(k)' >= ts
      /\ item' = z.rows
  BY <1>2, <1>3, <1>4, <1>5, ApplyOpsFacts
<1>7. ASSUME NEW k \in K
      PROVE  z.rows[k].data = Result(t, k)
  <2>1. PICK r : r = txReq[t] /\ r \in Request
    BY DEF RequestTypes
  <2>2. k \in Key /\ LockOK(t, k)
    BY <1>2
  <2>3. /\ lock[k].op \in Op /\ lock[k].ops = OpList(r, k)
        /\ lock[k].op = "check" => Result(t, k) = item[k].data
        /\ lock[k].op = "delete" => Result(t, k) = NoData
        /\ lock[k].op \in Writes => Result(t, k) = lock[k].data
        /\ lock[k].op = LockOperation(OpList(r, k))
    <3>1. lock[k].op = LockOperation(OpList(r, k))
      BY <2>1, <2>2 DEF LockOK, LockRow
    <3>2. QED
      BY <2>1, <2>2, <3>1, LockResult
  <2>4. /\ Changing(OpList(r, k)) = Changes(r, k)
        /\ \A i \in Changes(r, k) : OpList(r, k)[i] = r[i].op
    BY DEF Changing, OpList, Changes
  <2>5. /\ \A i \in Changes(r, k) : i \in DOMAIN E /\ E[i].key = k /\ E[i].op = r[i].op /\ r[i].op # "check"
                                    /\ E[i].data = lock[k].data
        /\ \A i \in DOMAIN E : E[i].key = k /\ E[i].op # "check" => i \in Changes(r, k)
    BY <1>3, <2>1 DEF Changes, OpsOf
  <2>6. CASE Changes(r, k) = {}
    <3>1. lock[k].op = "check"
      BY <2>3, <2>4, <2>6 DEF LockOperation
    <3>2. \A i \in DOMAIN E : 0 < i /\ i <= MAX_ITEMS_PER_TX => E[i].key # k \/ E[i].op = "check"
      BY <2>5, <2>6
    <3>3. PICK a : a = StoreAfter(p, E, ts) /\ StoresFrom(p, E, ts, a)
      BY <1>3, StoreAfterFacts
    <3>4. MAX_ITEMS_PER_TX \in Nat /\ 0 \in Nat /\ 0 <= MAX_ITEMS_PER_TX
      BY MaxItemsAssumption
    <3>5. a[MAX_ITEMS_PER_TX].rows[k].data = a[0].rows[k].data
      BY <1>3, <2>2, <3>2, <3>3, <3>4, RowDataStays
    <3>6. QED
      BY <1>5, <2>3, <3>1, <3>3, <3>5 DEF StoresFrom
  <2>7. CASE Changes(r, k) # {}
    <3>1. PICK i : i = Latest(Changes(r, k))
      OBVIOUS
    <3>2. Len(r) \in Nat /\ Changes(r, k) \in SUBSET (1 .. Len(r))
      BY <2>1, RequestFacts DEF Changes
    <3>3. i \in Changes(r, k) /\ \A j \in Changes(r, k) : j <= i
      BY <2>7, <3>1, <3>2, LatestFacts
    <3>4. lock[k].op = r[i].op
      BY <2>3, <2>4, <2>7, <3>1, <3>3 DEF LockOperation
    <3>5. i \in DOMAIN E /\ E[i].key = k /\ E[i].op = lock[k].op /\ E[i].op # "check" /\ E[i].data = lock[k].data
      BY <2>5, <3>3, <3>4
    <3>6. \A j \in DOMAIN E : i < j => E[j].key # k \/ E[j].op = "check"
      <4>1. \A j \in Changes(r, k) : ~(i < j)
        BY <3>2, <3>3
      <4>2. QED
        BY <2>5, <4>1
    <3>7. z.rows[k].data = DataWritten(E[i], NoData)
      BY <1>3, <1>5, <2>2, <3>5, <3>6, FinalData
    <3>8. CASE lock[k].op = "delete"
      BY <2>3, <3>5, <3>7, <3>8 DEF DataWritten, Writes
    <3>9. CASE lock[k].op \in Writes
      BY <2>3, <3>5, <3>7, <3>9 DEF DataWritten
    <3>10. QED
      BY <2>3, <3>5, <3>8, <3>9 DEF Op, Writes
  <2>8. QED
    BY <2>6, <2>7
<1>8. applied' = [applied EXCEPT ![t] = [k \in Key |-> IF k \in K THEN applied[t][k] + 1 ELSE applied[t][k]]]
  BY <1>1 DEF ApplyLocks
<1>9. /\ applied' \in [Tx -> [Key -> Nat]]
      /\ \A k \in Key : applied'[t][k] = IF k \in K THEN applied[t][k] + 1 ELSE applied[t][k]
      /\ \A s \in Tx \ {t} : applied'[s] = applied[s]
  BY <1>8 DEF PartTypeOK
<1>10. QED
  BY <1>1, <1>2, <1>6, <1>7, <1>9
-----------------------------------------------------------------------------
(***************************************************************************)
(* Writes outside the coordinator.                                         *)
(***************************************************************************)
(* The data that an operation finds is a sequence of writers.              *)
LEMMA DataBeforeFacts ==
  ASSUME PartTypeOK, NEW r \in Request, NEW x \in Writer, NEW i \in DOMAIN r
  PROVE  DataBefore(r, i, x) \in Seq(Writer)
<1>1. i \in Nat /\ i - 1 \in Nat /\ r[i].key \in Key
  BY RequestFacts
<1>2. item[r[i].key].data \in Seq(Writer)
  BY <1>1 DEF PartTypeOK, Row
<1>3. DataFrom(r, r[i].key, item[r[i].key].data, x, DataAfter(r, r[i].key, item[r[i].key].data, x))
  BY <1>2, DataAfterFacts
<1>4. QED
  BY <1>1, <1>3 DEF DataFrom, DataBefore

(* The writes of a request are its temporary writes, which stay.           *)
LEMMA WriteEntriesFacts ==
  ASSUME PartTypeOK, NEW r \in Request, NEW x \in Writer, NEW E, E = WriteEntries(r, x)
  PROVE  /\ DOMAIN E = DOMAIN r /\ EntriesOK(E) /\ EntryKeys(E) = KeysOf(r)
         /\ \A i \in DOMAIN r : E[i].key = r[i].key /\ E[i].op = r[i].op
                                /\ E[i].data = Written(r[i].op, DataBefore(r, i, x), x)
<1>1. DOMAIN E = DOMAIN r
  BY DEF WriteEntries
<1>2. ASSUME NEW i \in DOMAIN r
      PROVE  E[i].key = r[i].key /\ E[i].op = r[i].op
             /\ E[i].data = Written(r[i].op, DataBefore(r, i, x), x)
  <2>1. E[i] = [key |-> r[i].key, op |-> r[i].op, data |-> Written(r[i].op, DataBefore(r, i, x), x)]
    BY DEF WriteEntries
  <2>2. QED
    BY <2>1
<1>3. ASSUME NEW i \in DOMAIN r
      PROVE  EntryOK(E[i])
  <2>1. r[i].op \in Op /\ r[i].key \in Key /\ DataBefore(r, i, x) \in Seq(Writer)
    BY RequestFacts, DataBeforeFacts
  <2>2. QED
    BY <1>2, <2>1, WrittenFacts DEF EntryOK
<1>4. EntriesOK(E)
  BY <1>1, <1>3, RequestFacts, MaxItemsAssumption DEF EntriesOK
<1>5. EntryKeys(E) = KeysOf(r)
  BY <1>1, <1>2 DEF EntryKeys, KeysOf
<1>6. QED
  BY <1>1, <1>2, <1>4, <1>5

(* A write outside the coordinator leaves what its request leaves.         *)
LEMMA WriteLocallyFacts ==
  ASSUME PartTypeOK, RowInv, NEW r \in Request, NEW p \in Part, NEW ts \in Nat, WriteLocally(r, p, ts)
  PROVE  /\ RowsAdvance
         /\ \A k \in Key \ KeysOf(r) : item'[k] = item[k]
         /\ \A k \in KeysOf(r) : PartOf[k] = p /\ lock[k] = NoLock
         /\ \A k \in Key : item'[k].data = DataAfter(r, k, item[k].data, writes + 1)[Len(r)]
<1>1. PICK x, E, z : /\ x = writes + 1 /\ E = WriteEntries(r, x)
                     /\ z = StoreAfter(p, E, ts)[MAX_ITEMS_PER_TX]
  OBVIOUS
<1>2. x \in Writer
  BY <1>1 DEF PartTypeOK, Writer
<1>3. /\ DOMAIN E = DOMAIN r /\ EntriesOK(E) /\ EntryKeys(E) = KeysOf(r)
      /\ \A i \in DOMAIN r : E[i].key = r[i].key /\ E[i].op = r[i].op
                             /\ E[i].data = Written(r[i].op, DataBefore(r, i, x), x)
  BY <1>1, <1>2, WriteEntriesFacts
<1>4. \A k \in KeysOf(r) : PartOf[k] = p /\ lock[k] = NoLock
  BY DEF WriteLocally, KeysAt, Unlocked
<1>5. ApplyOps(p, E, ts)
  BY <1>1 DEF WriteLocally
<1>6. /\ RowsAdvance
      /\ \A k \in Key \ KeysOf(r) : item'[k] = item[k]
      /\ item' = z.rows
  BY <1>1, <1>3, <1>4, <1>5, ApplyOpsFacts
<1>7. ASSUME NEW k \in Key
      PROVE  z.rows[k].data = DataAfter(r, k, item[k].data, x)[Len(r)]
  <2>1. PICK d : d = item[k].data /\ d \in Seq(Writer)
    BY DEF PartTypeOK, Row
  <2>2. PICK b : b = DataAfter(r, k, d, x) /\ DataFrom(r, k, d, x, b)
    BY <1>2, <2>1, DataAfterFacts
  <2>3. PICK a : a = StoreAfter(p, E, ts) /\ StoresFrom(p, E, ts, a)
    BY <1>3, StoreAfterFacts
  <2> DEFINE N == {n \in Nat : a[n].rows[k].data = b[n]}
  <2>4. 0 \in N
    <3>1. a[0] = [rows |-> item, ts |-> delTs[p], v |-> delV[p]] /\ b[0] = d
      BY <2>2, <2>3 DEF StoresFrom, DataFrom
    <3>2. a[0].rows = item
      BY <3>1
    <3>3. QED
      BY <2>1, <3>1, <3>2
  <2>5. ASSUME NEW n \in Nat, n \in N
        PROVE  n + 1 \in N
    <3>1. /\ a[n].rows[k].data = b[n] /\ b[n] \in Seq(Writer)
          /\ a[n + 1] = NextStore(E, ts, a[n], n + 1) /\ a[n] \in GoodStores
          /\ b[n + 1] = NextData(r, k, x, b[n], n + 1)
      BY <2>2, <2>3, <2>5 DEF StoresFrom, DataFrom
    <3>2. CASE n + 1 \notin DOMAIN r
      BY <1>3, <3>1, <3>2 DEF NextStore, NextData, OpsOf
    <3>3. CASE n + 1 \in DOMAIN r
      <4>1. PICK e : e = E[n + 1] /\ EntryOK(e)
        BY <1>3, <3>3 DEF EntriesOK
      <4>2. WriteMoves(a[n], a[n + 1], e, ts)
        BY <1>3, <3>1, <3>3, <4>1, WriteFacts DEF NextStore
      <4>3. CASE r[n + 1].key # k
        <5>1. a[n + 1].rows[k] = a[n].rows[k]
          BY <1>3, <3>3, <4>1, <4>2, <4>3 DEF WriteMoves
        <5>2. b[n + 1] = b[n]
          BY <3>1, <4>3 DEF NextData, OpsOf
        <5>3. QED
          BY <3>1, <5>1, <5>2
      <4>4. CASE r[n + 1].key = k
        <5>1. b[n + 1] = Written(r[n + 1].op, b[n], x)
          BY <3>1, <3>3, <4>4 DEF NextData, OpsOf
        <5>2. DataBefore(r, n + 1, x) = b[n]
          <6>1. (n + 1) - 1 = n
            OBVIOUS
          <6>2. QED
            BY <2>1, <2>2, <4>4, <6>1 DEF DataBefore
        <5>3. e.key = k /\ e.op = r[n + 1].op /\ e.data = b[n + 1]
          BY <1>3, <3>3, <4>1, <4>4, <5>1, <5>2
        <5>4. a[n + 1].rows[k].data = DataWritten(e, b[n])
          BY <3>1, <4>2, <5>3 DEF WriteMoves
        <5>5. DataWritten(e, b[n]) = b[n + 1]
          <6>1. e.op \in Op
            BY <4>1 DEF EntryOK
          <6>2. CASE e.op \in Writes
            <7>1. e.op # "delete" /\ e.op # "check"
              BY <6>2 DEF Writes
            <7>2. QED
              BY <5>3, <6>2, <7>1 DEF DataWritten
          <6>3. CASE e.op = "delete"
            <7>1. Written("delete", b[n], x) = NoData
              BY DEF Written
            <7>2. QED
              BY <5>1, <5>3, <6>3, <7>1 DEF DataWritten, Writes
          <6>4. CASE e.op = "check"
            <7>1. Written("check", b[n], x) = b[n]
              BY DEF Written
            <7>2. QED
              BY <5>1, <5>3, <6>4, <7>1 DEF DataWritten, Writes
          <6>5. QED
            BY <6>1, <6>2, <6>3, <6>4 DEF Op, Writes
        <5>6. QED
          BY <5>4, <5>5
      <4>5. QED
        BY <4>3, <4>4
    <3>4. QED
      BY <3>2, <3>3
  <2>6. \A n \in Nat : n \in N
    <3> HIDE DEF N
    <3> QED
      BY <2>4, <2>5, Inductive
  <2>7. MAX_ITEMS_PER_TX \in Nat /\ Len(r) \in Nat /\ Len(r) <= MAX_ITEMS_PER_TX
    BY RequestFacts, MaxItemsAssumption
  <2>8. \A i \in Changes(r, k) : ~(Len(r) < i /\ i <= MAX_ITEMS_PER_TX)
    BY RequestFacts DEF Changes
  <2>9. b[MAX_ITEMS_PER_TX] = b[Len(r)]
    <3>1. PICK m \in Nat, n \in Nat : m = Len(r) /\ n = MAX_ITEMS_PER_TX
      BY <2>7
    <3>2. NoChange(r, k, m, n)
      BY <2>7, <2>8, <3>1 DEF NoChange
    <3>3. d \in Seq(Writer)
      BY <2>1
    <3>4. DataAfter(r, k, d, x)[n] = DataAfter(r, k, d, x)[m]
      BY <1>2, <3>2, <3>3, DataStays
    <3>5. QED
      BY <2>2, <3>1, <3>4
  <2>10. a[MAX_ITEMS_PER_TX].rows[k].data = b[MAX_ITEMS_PER_TX]
    BY <2>6, <2>7
  <2>11. QED
    BY <1>1, <2>1, <2>2, <2>3, <2>9, <2>10
<1>8. QED
  BY <1>1, <1>4, <1>6, <1>7
=============================================================================
