---------------------------- MODULE Routing_proofs ----------------------------
(***************************************************************************)
(* Proofs about Routing: a read that is answered sees every write that the *)
(* client was told of, whatever the partitions have learned and the caches *)
(* hold, every key has one owner, and the calls of a request go down.  The *)
(* parts: where partitions lie (a hash prefix or an interval, apart or     *)
(* nested); the topology that the repartitions make; the owners of a key   *)
(* and the rows they hold; what is learned, of which only the types        *)
(* matter; resolution, which is local only on an owner and else leads      *)
(* down; the steps of a request; the chain of its calls; the theorems.     *)
(***************************************************************************)
EXTENDS Routing, WellFoundedInduction, SequenceTheorems, TLAPS

----------------------------------------------------------------------------
(* The places of partitions. *)

\* y lies below x.
Under(x, y) ==
  /\ x # y /\ x.kind = y.kind
  /\ IF x.kind = "hash" THEN IsPrefix(x.path, y.path) ELSE x.hash = y.hash /\ x.start <= y.start /\ y.end <= x.end

\* Some key could be in both.
Overlap(x, y) ==
  /\ x.kind = y.kind
  /\ IF x.kind = "hash" THEN IsPrefix(x.path, y.path) \/ IsPrefix(y.path, x.path)
     ELSE x.hash = y.hash /\ x.start < y.end /\ y.start < x.end

\* Top is above all keys.
LEMMA TopType == Top \in Nat /\ \A k \in Keys : k < Top
<1> DEFINE last == CHOOSE k \in Keys : \A j \in Keys : j <= k
<1>1. last \in Keys /\ \A j \in Keys : j <= last
  BY KeysAssumption
<1>2. Top = 1 + last
  BY DEF Top
<1> HIDE DEF last
<1> QED BY <1>1, <1>2, KeysAssumption

\* A prefix, element by element.
LEMMA PrefixPointwise ==
  ASSUME NEW s \in Seq(Nat), NEW t \in Seq(Nat)
  PROVE  IsPrefix(s, t) <=> Len(s) <= Len(t) /\ \A i \in 1 .. Len(s) : s[i] = t[i]
<1> SUFFICES ASSUME Len(s) <= Len(t)
            PROVE  SubSeq(s, 1, Len(s)) = SubSeq(t, 1, Len(s)) <=> \A i \in 1 .. Len(s) : s[i] = t[i]
  BY DEF IsPrefix
<1>1. Len(s) \in Nat /\ Len(t) \in Nat /\ (\A i \in 1 .. Len(s) : s[i] \in Nat) /\ (\A i \in 1 .. Len(t) : t[i] \in Nat)
  BY LenProperties, ElementOfSeq
<1>2. \A i \in 1 .. Len(s) : t[i] \in Nat
  BY <1>1
<1>3. /\ SubSeq(s, 1, Len(s)) \in Seq(Nat) /\ Len(SubSeq(s, 1, Len(s))) = Len(s)
      /\ \A i \in 1 .. Len(s) : SubSeq(s, 1, Len(s))[i] = s[i]
  BY <1>1
<1>4. /\ SubSeq(t, 1, Len(s)) \in Seq(Nat) /\ Len(SubSeq(t, 1, Len(s))) = Len(s)
      /\ \A i \in 1 .. Len(s) : SubSeq(t, 1, Len(s))[i] = t[i]
  BY <1>1, <1>2
<1>5. CASE \A i \in 1 .. Len(s) : s[i] = t[i]
  <2>1. SubSeq(s, 1, Len(s)) = SubSeq(t, 1, Len(s))
    BY <1>3, <1>4, <1>5, SeqEqual
  <2> QED BY <2>1, <1>5
<1>6. CASE SubSeq(s, 1, Len(s)) = SubSeq(t, 1, Len(s))
  BY <1>3, <1>4, <1>6
<1> QED BY <1>5, <1>6

\* A prefix of a prefix is one, and of two prefixes of one sequence one is a prefix of the other.
LEMMA PrefixesOfOne ==
  ASSUME NEW r \in Seq(Nat), NEW s \in Seq(Nat), NEW t \in Seq(Nat), IsPrefix(r, s)
  PROVE  /\ IsPrefix(s, t) => IsPrefix(r, t)
         /\ IsPrefix(t, s) => IsPrefix(r, t) \/ IsPrefix(t, r)
<1>1. Len(r) \in Nat /\ Len(s) \in Nat /\ Len(t) \in Nat
  BY LenProperties
<1>2. Len(r) <= Len(s) /\ \A i \in 1 .. Len(r) : r[i] = s[i]
  BY PrefixPointwise
<1>3. ASSUME IsPrefix(s, t) PROVE IsPrefix(r, t)
  <2>1. Len(s) <= Len(t) /\ \A i \in 1 .. Len(s) : s[i] = t[i]
    BY <1>3, PrefixPointwise
  <2>2. Len(r) <= Len(t) /\ \A i \in 1 .. Len(r) : r[i] = t[i]
    BY <1>1, <1>2, <2>1
  <2> QED BY <2>2, PrefixPointwise
<1>4. ASSUME IsPrefix(t, s) PROVE IsPrefix(r, t) \/ IsPrefix(t, r)
  <2>1. Len(t) <= Len(s) /\ \A i \in 1 .. Len(t) : t[i] = s[i]
    BY <1>4, PrefixPointwise
  <2>2. CASE Len(r) <= Len(t)
    <3>1. \A i \in 1 .. Len(r) : r[i] = t[i]
      BY <1>1, <1>2, <2>1, <2>2
    <3> QED BY <2>2, <3>1, PrefixPointwise
  <2>3. CASE Len(t) <= Len(r)
    <3>1. \A i \in 1 .. Len(t) : t[i] = r[i]
      BY <1>1, <1>2, <2>1, <2>3
    <3> QED BY <2>3, <3>1, PrefixPointwise
  <2> QED BY <1>1, <2>2, <2>3
<1> QED BY <1>3, <1>4

\* The path of a hash.
LEMMA PathType ==
  ASSUME NEW h \in Hashes, NEW n \in 1 .. Len(Digits[h])
  PROVE  /\ Digits[h] \in Seq(Nat) /\ PathOf(h, n) \in Seq(Nat) /\ Len(PathOf(h, n)) = n /\ n \in Nat
         /\ \A i \in 1 .. n : PathOf(h, n)[i] = Digits[h][i]
<1>1. Digits[h] \in Seq(Nat) /\ Len(Digits[h]) \in Nat /\ \A i \in 1 .. Len(Digits[h]) : Digits[h][i] \in Nat
  BY HashesAssumption, LenProperties, ElementOfSeq
<1> QED BY <1>1 DEF PathOf

\* What a hash partition is: a prefix of the digits of some hash.
LEMMA HashType ==
  ASSUME NEW p \in HashPartitions
  PROVE  /\ p = Hash(p.path) /\ p.kind = "hash" /\ p.path \in Seq(Nat) /\ Len(p.path) \in Nat \ {0}
         /\ \E h \in Hashes : OwnsHash(p, h) /\ Len(p.path) \in 1 .. Len(Digits[h]) /\ p.path = PathOf(h, Len(p.path))
<1>0. PICK h \in Hashes : \E n \in 1 .. Len(Digits[h]) : p = Hash(PathOf(h, n))
  BY DEF HashPartitions
<1>1. PICK n \in 1 .. Len(Digits[h]) : p = Hash(PathOf(h, n))
  BY <1>0
<1>2. p.path = PathOf(h, n) /\ p.kind = "hash" /\ p = Hash(p.path)
  BY <1>1 DEF Hash
<1>3. Len(p.path) = n /\ p.path \in Seq(Nat) /\ Digits[h] \in Seq(Nat) /\ n \in Nat \ {0} /\ Len(Digits[h]) \in Nat
  BY <1>2, PathType, LenProperties
<1>4. IsPrefix(p.path, Digits[h])
  BY <1>2, <1>3, PathType, PrefixPointwise
<1> QED BY <1>2, <1>3, <1>4 DEF OwnsHash

\* What a range partition is: an interval between two boundaries of a promotable hash.
LEMMA RangeType ==
  ASSUME NEW r \in RangePartitions
  PROVE  /\ r = Slice(r.hash, r.start, r.end) /\ r.kind = "range" /\ r.hash \in Promotable /\ r.hash \in Hashes
         /\ r.start \in BoundsOf[r.hash] \cup {0} /\ r.end \in BoundsOf[r.hash] \cup {Top}
         /\ r.start \in Nat /\ r.end \in Nat /\ r.start < r.end
<1>1. PICK h \in Promotable : r \in {Slice(h, s, e) : s \in BoundsOf[h] \cup {0}, e \in BoundsOf[h] \cup {Top}} /\ r.start < r.end
  BY DEF RangePartitions
<1>2. PICK s \in BoundsOf[h] \cup {0}, e \in BoundsOf[h] \cup {Top} : r = Slice(h, s, e)
  BY <1>1
<1>3. r.kind = "range" /\ r.hash = h /\ r.start = s /\ r.end = e
  BY <1>2 DEF Slice
<1>4. h \in Hashes /\ \A b \in BoundsOf[h] : b \in Nat
  BY HashesAssumption, KeysAssumption
<1>5. s \in Nat /\ e \in Nat
  BY <1>4, TopType
<1> QED BY <1>1, <1>2, <1>3, <1>4, <1>5

\* A partition is a hash partition or a range partition, by its kind.
LEMMA PartitionKinds ==
  ASSUME NEW p \in Partitions
  PROVE  /\ p.kind = "hash" <=> p \in HashPartitions
         /\ p.kind = "range" <=> p \in RangePartitions
         /\ p.kind \in {"hash", "range"}
BY HashType, RangeType DEF Partitions

\* The path of a hash to its level n.
LEMMA PathPartition ==
  ASSUME NEW h \in Hashes, NEW n \in 1 .. Len(Digits[h])
  PROVE  /\ Hash(PathOf(h, n)) \in HashPartitions /\ Hash(PathOf(h, n)).path = PathOf(h, n) /\ Hash(PathOf(h, n)).kind = "hash"
         /\ IsPrefix(PathOf(h, n), Digits[h])
         /\ \A path \in Seq(Nat) : IsPrefix(path, Digits[h]) /\ Len(path) <= n => IsPrefix(path, PathOf(h, n))
<1>1. Hash(PathOf(h, n)) \in HashPartitions
  BY DEF HashPartitions
<1>2. Hash(PathOf(h, n)).path = PathOf(h, n) /\ Hash(PathOf(h, n)).kind = "hash"
  BY DEF Hash
<1>3. /\ Digits[h] \in Seq(Nat) /\ PathOf(h, n) \in Seq(Nat) /\ Len(PathOf(h, n)) = n /\ n \in Nat /\ Len(Digits[h]) \in Nat
      /\ \A i \in 1 .. n : PathOf(h, n)[i] = Digits[h][i]
  BY PathType, LenProperties
<1>4. IsPrefix(PathOf(h, n), Digits[h])
  BY <1>3, PrefixPointwise
<1>5. ASSUME NEW path \in Seq(Nat), IsPrefix(path, Digits[h]), Len(path) <= n PROVE IsPrefix(path, PathOf(h, n))
  <2>1. Len(path) \in Nat /\ \A i \in 1 .. Len(path) : path[i] = Digits[h][i]
    BY <1>3, <1>5, PrefixPointwise, LenProperties
  <2>2. ASSUME NEW i \in 1 .. Len(path) PROVE path[i] = PathOf(h, n)[i]
    <3>1. i \in 1 .. n
      BY <1>3, <1>5, <2>1
    <3>2. PathOf(h, n)[i] = Digits[h][i]
      BY <1>3, <3>1
    <3> QED BY <2>1, <3>2
  <2>3. Len(path) <= Len(PathOf(h, n))
    BY <1>3, <1>5
  <2> QED BY <1>3, <2>2, <2>3, PrefixPointwise
<1> QED BY <1>1, <1>2, <1>4, <1>5

\* A prefix of a partition's path is a partition.
LEMMA PrefixPartition ==
  ASSUME NEW p \in HashPartitions, NEW n \in 1 .. Len(p.path)
  PROVE  /\ Hash(SubSeq(p.path, 1, n)) \in HashPartitions
         /\ SubSeq(p.path, 1, n) \in Seq(Nat) /\ Len(SubSeq(p.path, 1, n)) = n
         /\ \A i \in 1 .. n : SubSeq(p.path, 1, n)[i] = p.path[i]
<1>1. PICK h \in Hashes : Len(p.path) \in 1 .. Len(Digits[h]) /\ p.path = PathOf(h, Len(p.path))
  BY HashType
<1>2. p.path \in Seq(Nat) /\ Len(p.path) \in Nat /\ Len(Digits[h]) \in Nat
  BY HashType, LenProperties, HashesAssumption
<1>3. \A i \in 1 .. Len(p.path) : p.path[i] \in Nat
  BY <1>2, ElementOfSeq
<1>4. /\ SubSeq(p.path, 1, n) \in Seq(Nat) /\ Len(SubSeq(p.path, 1, n)) = n
      /\ \A i \in 1 .. n : SubSeq(p.path, 1, n)[i] = p.path[i]
  BY <1>2, <1>3
<1>5. n \in 1 .. Len(Digits[h])
  BY <1>1, <1>2
<1>6. SubSeq(p.path, 1, n) = PathOf(h, n)
  <2>1. \A i \in 1 .. n : PathOf(h, n)[i] = p.path[i]
    <3>1. \A i \in 1 .. Len(p.path) : PathOf(h, Len(p.path))[i] = Digits[h][i]
      BY <1>1, PathType
    <3>2. \A i \in 1 .. n : PathOf(h, n)[i] = Digits[h][i]
      BY <1>5, PathType
    <3> QED BY <3>1, <3>2, <1>1, <1>2
  <2>2. PathOf(h, n) \in Seq(Nat) /\ Len(PathOf(h, n)) = n
    BY <1>5, PathType
  <2> QED BY <2>1, <2>2, <1>4, SeqEqual
<1>7. Hash(PathOf(h, n)) \in HashPartitions
  BY <1>5 DEF HashPartitions
<1> QED BY <1>4, <1>6, <1>7

----------------------------------------------------------------------------
(* Below and overlapping. *)

\* The path of a hash partition is a nonempty sequence of digits.
LEMMA HashPaths ==
  ASSUME NEW x \in Partitions, x.kind = "hash"
  PROVE  x \in HashPartitions /\ x = Hash(x.path) /\ x.path \in Seq(Nat) /\ Len(x.path) \in Nat \ {0}
BY PartitionKinds, HashType

\* To lie below is transitive and has no cycle.
LEMMA UnderOrder ==
  ASSUME NEW x \in Partitions, NEW y \in Partitions, NEW z \in Partitions
  PROVE  /\ Under(x, y) /\ Under(y, z) => Under(x, z)
         /\ ~(Under(x, y) /\ Under(y, x))
<1>1. x.kind = y.kind /\ y.kind = z.kind => (Under(x, y) /\ Under(y, z) => Under(x, z)) /\ ~(Under(x, y) /\ Under(y, x))
  <2>1. CASE x.kind = "hash" /\ y.kind = "hash" /\ z.kind = "hash"
    <3>0. x.path \in Seq(Nat) /\ y.path \in Seq(Nat) /\ z.path \in Seq(Nat)
      BY <2>1, HashPaths
    <3>1. IsPrefix(x.path, y.path) /\ IsPrefix(y.path, z.path) => IsPrefix(x.path, z.path)
      BY <3>0, PrefixesOfOne
    <3>2. IsPrefix(x.path, y.path) /\ IsPrefix(y.path, x.path) => x.path = y.path
      BY <2>1, HashPaths, PrefixPointwise, SeqEqual
    <3> QED BY <3>1, <3>2, <2>1, HashPaths DEF Under
  <2>2. CASE x.kind = "range" /\ y.kind = "range" /\ z.kind = "range"
    BY <2>2, PartitionKinds, RangeType DEF Under
  <2> QED BY <2>1, <2>2, PartitionKinds
<1>2. ~(Under(x, y) /\ Under(y, x))
  <2>1. CASE x.kind = "hash" /\ y.kind = "hash"
    <3>2. IsPrefix(x.path, y.path) /\ IsPrefix(y.path, x.path) => x.path = y.path
      BY <2>1, HashPaths, PrefixPointwise, SeqEqual
    <3> QED BY <3>2, <2>1, HashPaths DEF Under
  <2>2. CASE x.kind = "range" /\ y.kind = "range"
    BY <2>2, PartitionKinds, RangeType DEF Under
  <2> QED BY <2>1, <2>2, PartitionKinds DEF Under
<1> QED BY <1>1, <1>2 DEF Under

\* What is below has no other hash or key.
LEMMA UnderOwns ==
  ASSUME NEW x \in Partitions, NEW y \in Partitions, Under(x, y)
  PROVE  /\ \A h \in Hashes : OwnsHash(y, h) => OwnsHash(x, h)
         /\ \A k \in Keys : ownsByTopology(y, k) => ownsByTopology(x, k)
<1>1. CASE x.kind = "hash" /\ y.kind = "hash"
  <2>1. \A h \in Hashes : OwnsHash(y, h) => OwnsHash(x, h)
    <3> SUFFICES ASSUME NEW h \in Hashes, IsPrefix(y.path, Digits[h]) PROVE IsPrefix(x.path, Digits[h])
      BY <1>1 DEF OwnsHash
    <3>1. Digits[h] \in Seq(Nat) /\ x.path \in Seq(Nat) /\ y.path \in Seq(Nat) /\ IsPrefix(x.path, y.path)
      BY <1>1, HashesAssumption, HashPaths DEF Under
    <3> QED BY <3>1, PrefixesOfOne
  <2> QED BY <1>1, <2>1, KeysAssumption DEF ownsByTopology
<1>2. CASE x.kind = "range" /\ y.kind = "range"
  BY <1>2, PartitionKinds, RangeType, KeysAssumption DEF Under, OwnsHash, ownsByTopology
<1> QED BY <1>1, <1>2, PartitionKinds DEF Under

\* Two partitions of a kind that own one key overlap.
LEMMA OwnersOverlap ==
  ASSUME NEW x \in Partitions, NEW y \in Partitions, x.kind = y.kind
  PROVE  /\ \A k \in Keys : ownsByTopology(x, k) /\ ownsByTopology(y, k) => Overlap(x, y)
         /\ x.kind = "hash" => \A h \in Hashes : OwnsHash(x, h) /\ OwnsHash(y, h) => Overlap(x, y)
<1>1. CASE x.kind = "hash"
  <2>1. \A h \in Hashes : OwnsHash(x, h) /\ OwnsHash(y, h) => Overlap(x, y)
    <3> SUFFICES ASSUME NEW h \in Hashes, IsPrefix(x.path, Digits[h]), IsPrefix(y.path, Digits[h])
                PROVE  IsPrefix(x.path, y.path) \/ IsPrefix(y.path, x.path)
      BY <1>1 DEF OwnsHash, Overlap
    <3>1. Digits[h] \in Seq(Nat) /\ Len(Digits[h]) \in Nat
      BY HashesAssumption, LenProperties
    <3>2. x.path \in Seq(Nat) /\ y.path \in Seq(Nat) /\ Len(x.path) \in Nat /\ Len(y.path) \in Nat
      BY <1>1, HashPaths
    <3>3. CASE Len(x.path) <= Len(y.path)
      BY <3>1, <3>2, <3>3, PrefixPointwise
    <3>4. CASE Len(y.path) <= Len(x.path)
      BY <3>1, <3>2, <3>4, PrefixPointwise
    <3> QED BY <3>2, <3>3, <3>4
  <2> QED BY <1>1, <2>1, KeysAssumption DEF ownsByTopology
<1>2. CASE x.kind = "range"
  <2> SUFFICES ASSUME NEW k \in Keys, ownsByTopology(x, k), ownsByTopology(y, k) PROVE Overlap(x, y)
    BY <1>2
  <2>1. x.start \in Nat /\ x.end \in Nat /\ y.start \in Nat /\ y.end \in Nat /\ k \in Nat
    BY <1>2, PartitionKinds, RangeType, KeysAssumption
  <2>2. x.hash = HashOf[k] /\ x.start <= k /\ k < x.end
    BY <1>2 DEF ownsByTopology, OwnsHash
  <2>3. y.hash = HashOf[k] /\ y.start <= k /\ k < y.end
    BY <1>2 DEF ownsByTopology, OwnsHash
  <2> QED BY <1>2, <2>1, <2>2, <2>3 DEF Overlap
<1> QED BY <1>1, <1>2, PartitionKinds

\* Two hash partitions that own one hash overlap.
LEMMA HashOverlap ==
  ASSUME NEW x \in Partitions, NEW y \in Partitions, x.kind = "hash", Overlap(x, y)
  PROVE  x = y \/ Under(x, y) \/ Under(y, x)
BY DEF Overlap, Under

\* What lies below a partition overlaps it.
LEMMA UnderOverlap ==
  ASSUME NEW p \in Partitions, NEW c \in Partitions, Under(p, c)
  PROVE  /\ Overlap(p, c) /\ Overlap(c, p)
         /\ \A y \in Partitions : Overlap(c, y) => Overlap(p, y)
<1>1. CASE p.kind = "hash" /\ c.kind = "hash"
  <2>1. \A y \in Partitions : Overlap(c, y) => Overlap(p, y)
    <3> SUFFICES ASSUME NEW y \in Partitions, y.kind = "hash", IsPrefix(c.path, y.path) \/ IsPrefix(y.path, c.path)
                PROVE  IsPrefix(p.path, y.path) \/ IsPrefix(y.path, p.path)
      BY <1>1 DEF Overlap
    <3>1. p.path \in Seq(Nat) /\ c.path \in Seq(Nat) /\ y.path \in Seq(Nat) /\ IsPrefix(p.path, c.path)
      BY <1>1, HashPaths DEF Under
    <3> QED BY <3>1, PrefixesOfOne
  <2> QED BY <1>1, <2>1 DEF Under, Overlap
<1>2. CASE p.kind = "range" /\ c.kind = "range"
  BY <1>2, PartitionKinds, RangeType DEF Under, Overlap
<1> QED BY <1>1, <1>2, PartitionKinds DEF Under

\* The targets of a split lie side by side below p, and nothing lies between.
LEMMA TargetsLie ==
  ASSUME NEW p \in Partitions, NEW kids \in SplitTargets(p)
  PROVE  /\ \A c \in kids : /\ c \in Partitions /\ c.kind = p.kind /\ Under(p, c) /\ ~IsHashRoot(c) /\ ~IsRangeRoot(c)
                            /\ p.kind = "hash" => \A x \in Partitions : Under(x, c) => x = p \/ Under(x, p)
         /\ \A c \in kids, d \in kids : c # d => ~Overlap(c, d)
<1>1. CASE p.kind = "hash"
  <2>0. kids = {c \in HashPartitions : Len(c.path) = Len(p.path) + 1 /\ IsPrefix(p.path, c.path)}
    BY <1>1 DEF SplitTargets
  <2>1. ASSUME NEW c \in kids
        PROVE  /\ c \in Partitions /\ c.kind = p.kind /\ Under(p, c) /\ ~IsHashRoot(c) /\ ~IsRangeRoot(c)
               /\ c.path \in Seq(Nat) /\ c = Hash(c.path) /\ Len(c.path) \in Nat
    <3>1. c \in Partitions /\ c.kind = "hash" /\ c.path \in Seq(Nat) /\ c = Hash(c.path) /\ Len(c.path) \in Nat
      BY <2>0, HashType DEF Partitions
    <3>2. Len(p.path) \in Nat \ {0}
      BY <1>1, HashPaths
    <3>3. Len(c.path) = Len(p.path) + 1 /\ IsPrefix(p.path, c.path)
      BY <2>0
    <3>4. p # c /\ Len(c.path) # 1
      BY <3>1, <3>2, <3>3
    <3> QED BY <1>1, <3>1, <3>3, <3>4 DEF Under, IsHashRoot, IsRangeRoot
  <2>2. ASSUME NEW c \in kids, NEW x \in Partitions, Under(x, c) PROVE x = p \/ Under(x, p)
    <3>1. x.kind = "hash" /\ x.path \in Seq(Nat) /\ x = Hash(x.path) /\ IsPrefix(x.path, c.path) /\ Len(x.path) \in Nat
      BY <1>1, <2>1, <2>2, HashPaths DEF Under
    <3>2. p.path \in Seq(Nat) /\ p = Hash(p.path) /\ Len(p.path) \in Nat /\ IsPrefix(p.path, c.path) /\ Len(c.path) = Len(p.path) + 1
      BY <1>1, <2>0, HashPaths
    <3>3. Len(x.path) # Len(c.path)
      <4> SUFFICES ASSUME Len(x.path) = Len(c.path) PROVE x.path = c.path
        BY <2>1, <2>2, <3>1 DEF Under
      <4> QED BY <2>1, <3>1, PrefixPointwise, SeqEqual
    <3>4. Len(x.path) <= Len(p.path)
      BY <2>1, <3>1, <3>2, <3>3, PrefixPointwise
    <3>5. \A i \in 1 .. Len(x.path) : x.path[i] = p.path[i]
      <4>1. c.path \in Seq(Nat) /\ Len(c.path) \in Nat
        BY <2>1
      <4>2. \A i \in 1 .. Len(x.path) : x.path[i] = c.path[i]
        BY <4>1, <3>1, PrefixPointwise
      <4>3. \A i \in 1 .. Len(p.path) : p.path[i] = c.path[i]
        BY <4>1, <3>2, PrefixPointwise
      <4> QED BY <3>1, <3>2, <3>4, <4>2, <4>3
    <3>6. IsPrefix(x.path, p.path)
      BY <3>1, <3>2, <3>4, <3>5, PrefixPointwise
    <3> QED BY <1>1, <3>1, <3>6 DEF Under
  <2>3. ASSUME NEW c \in kids, NEW d \in kids, c # d PROVE ~Overlap(c, d)
    <3> SUFFICES ASSUME IsPrefix(c.path, d.path) \/ IsPrefix(d.path, c.path) PROVE c.path = d.path
      BY <1>1, <2>1, <2>3 DEF Overlap
    <3>1. Len(c.path) = Len(d.path) /\ c.path \in Seq(Nat) /\ d.path \in Seq(Nat)
      BY <2>0, <2>1
    <3>2. \A i \in 1 .. Len(c.path) : c.path[i] = d.path[i]
      BY <3>1, PrefixPointwise
    <3> QED BY <3>1, <3>2, SeqEqual
  <2> QED BY <1>1, <2>1, <2>2, <2>3
<1>2. CASE p.kind = "range"
  <2>1. PICK b \in RangeBoundaries(p) : kids = {Slice(p.hash, p.start, b), Slice(p.hash, b, p.end)}
    BY <1>2 DEF SplitTargets
  <2>2. /\ p.kind = "range" /\ p.hash \in Promotable /\ p.start \in Nat /\ p.end \in Nat /\ b \in BoundsOf[p.hash]
        /\ p.start \in BoundsOf[p.hash] \cup {0} /\ p.end \in BoundsOf[p.hash] \cup {Top}
    BY <1>2, <2>1, PartitionKinds, RangeType DEF RangeBoundaries
  <2>3. b \in Nat /\ p.start < b /\ b < p.end /\ b < Top
    <3>1. b \in Keys /\ \A x \in Keys : x \in Nat
      BY <2>2, HashesAssumption, KeysAssumption
    <3>2. PICK j \in Keys, k \in Keys : p.start <= j /\ j < b /\ b <= k /\ k < p.end
      BY <2>1 DEF RangeBoundaries
    <3> QED BY <2>2, <3>1, <3>2, TopType
  <2>4. ASSUME NEW c \in kids
        PROVE  /\ c.kind = "range" /\ c.hash = p.hash /\ p.start <= c.start /\ c.end <= p.end
               /\ (c.start = p.start /\ c.end = b) \/ (c.start = b /\ c.end = p.end)
               /\ c = Slice(c.hash, c.start, c.end)
    BY <2>1, <2>2, <2>3 DEF Slice
  <2>5. ASSUME NEW c \in kids PROVE c \in RangePartitions
    <3>1. c.start < c.end /\ c.start \in BoundsOf[p.hash] \cup {0} /\ c.end \in BoundsOf[p.hash] \cup {Top}
      BY <2>2, <2>3, <2>4
    <3> QED BY <2>2, <2>4, <3>1 DEF RangePartitions
  <2>6. ASSUME NEW c \in kids PROVE Under(p, c) /\ ~IsHashRoot(c) /\ ~IsRangeRoot(c)
    <3>1. c # p
      BY <2>2, <2>3, <2>4
    <3>2. c # RangeRoot(c.hash)
      <4>1. RangeRoot(c.hash).start = 0 /\ RangeRoot(c.hash).end = Top
        BY DEF RangeRoot, Slice
      <4> QED BY <4>1, <2>2, <2>3, <2>4
    <3> QED BY <1>2, <3>1, <3>2, <2>4 DEF Under, IsHashRoot, IsRangeRoot
  <2>7. ASSUME NEW c \in kids, NEW d \in kids, c # d PROVE ~Overlap(c, d)
    BY <2>2, <2>3, <2>4, <2>7 DEF Overlap
  <2> QED BY <1>2, <2>4, <2>5, <2>6, <2>7 DEF Partitions
<1> QED BY <1>1, <1>2, PartitionKinds

\* And between them they hold every key.
Tiles(kids, x) == \A k \in Keys : ownsByTopology(x, k) => \E c \in kids : ownsByTopology(c, k)

\* The targets of a split own every key that its source owns.
LEMMA TargetsTile ==
  ASSUME NEW p \in Partitions, NEW kids \in SplitTargets(p)
  PROVE  Tiles(kids, p)
<1> SUFFICES ASSUME NEW k \in Keys, ownsByTopology(p, k) PROVE \E c \in kids : ownsByTopology(c, k)
  BY DEF Tiles
<1> DEFINE h == HashOf[k]
<1>0. h \in Hashes /\ k \in Nat
  BY KeysAssumption
<1>1. CASE p.kind = "hash"
  <2>0. /\ kids = {c \in HashPartitions : Len(c.path) = Len(p.path) + 1 /\ IsPrefix(p.path, c.path)}
        /\ p \in {Hash(s) : s \in Splittable}
    BY <1>1 DEF SplitTargets
  <2>1. p.path \in Splittable /\ p.path \in Seq(Nat) /\ Len(p.path) \in Nat \ {0} /\ IsPrefix(p.path, Digits[h])
    BY <1>1, <2>0, HashPaths DEF Hash, ownsByTopology, OwnsHash
  <2>2. Len(p.path) < Len(Digits[h]) /\ Digits[h] \in Seq(Nat) /\ Len(Digits[h]) \in Nat
    BY <1>0, <2>1, HashesAssumption, LenProperties
  <2> DEFINE n == Len(p.path) + 1
             c == Hash(PathOf(h, n))
  <2>3. n \in 1 .. Len(Digits[h])
    BY <2>1, <2>2
  <2>4. /\ c \in HashPartitions /\ c.path = PathOf(h, n) /\ c.kind = "hash" /\ IsPrefix(c.path, Digits[h])
        /\ IsPrefix(p.path, c.path)
    BY <1>0, <2>1, <2>3, PathPartition
  <2>5. Len(c.path) = n
    BY <1>0, <2>3, <2>4, PathType
  <2> QED BY <2>0, <2>4, <2>5 DEF ownsByTopology, OwnsHash
<1>2. CASE p.kind = "range"
  <2>1. PICK b \in RangeBoundaries(p) : kids = {Slice(p.hash, p.start, b), Slice(p.hash, b, p.end)}
    BY <1>2 DEF SplitTargets
  <2>2. b \in Nat
    BY <1>2, PartitionKinds, RangeType, HashesAssumption, KeysAssumption DEF RangeBoundaries
  <2>3. p.hash = h /\ p.start <= k /\ k < p.end
    BY <1>2 DEF ownsByTopology, OwnsHash
  <2>4. CASE k < b
    <3>1. ownsByTopology(Slice(p.hash, p.start, b), k)
      BY <2>3, <2>4 DEF ownsByTopology, OwnsHash, Slice
    <3> QED BY <3>1, <2>1
  <2>5. CASE b <= k
    <3>1. ownsByTopology(Slice(p.hash, b, p.end), k)
      BY <2>3, <2>5 DEF ownsByTopology, OwnsHash, Slice
    <3> QED BY <3>1, <2>1
  <2> QED BY <1>0, <2>2, <2>4, <2>5
<1> QED BY <1>1, <1>2, PartitionKinds

\* A set of numbers has a first one.
LEMMA FirstExists ==
  ASSUME NEW T, T \subseteq Nat, T # {}
  PROVE  \E n \in T : \A m \in T : n <= m
<1>1. PICK n \in T : \A m \in T : <<m, n>> \notin OpToRel(<, Nat)
  BY WFMin, NatLessThanWellFounded, Zenon
<1>2. ASSUME NEW m \in T PROVE n <= m
  <2>1. m \in Nat /\ n \in Nat
    OBVIOUS
  <2>2. ~(m < n)
    BY <1>1, <2>1, Zenon DEF OpToRel
  <2> QED BY <2>1, <2>2
<1> QED BY <1>2

\* A bounded set of numbers has a last one.
LEMMA LastExists ==
  ASSUME NEW L \in Nat, NEW T, T \subseteq 0 .. L, T # {}
  PROVE  \E n \in T : \A m \in T : m <= n
<1> DEFINE U == {m \in 0 .. L : L - m \in T}
<1>1. PICK t \in T : t \in 0 .. L
  OBVIOUS
<1>2. L - t \in U
  <2>1. L - t \in 0 .. L /\ L - (L - t) = t
    BY <1>1
  <2> QED BY <2>1
<1>3. PICK u \in U : \A v \in U : u <= v
  <2>1. \A m \in U : m \in Nat
    OBVIOUS
  <2> HIDE DEF U
  <2>2. U \subseteq Nat /\ U # {}
    BY <1>2, <2>1
  <2> QED BY <2>2, FirstExists
<1>4. L - u \in T /\ u \in 0 .. L
  BY <1>3
<1>5. ASSUME NEW m \in T PROVE m <= L - u
  <2>1. L - m \in 0 .. L /\ L - (L - m) = m
    OBVIOUS
  <2>2. u <= L - m
    BY <1>3, <2>1
  <2> QED BY <1>4, <2>1, <2>2
<1> QED BY <1>4, <1>5

----------------------------------------------------------------------------
(* The invariant. *)

exists(p) == part[p].phase # "absent"
Phases == {"absent", "awaiting_data", "importing", "active"}
Stages == {"none", "planned", "cut_over", "completed"}

Descriptions ==
  [phase : Phases, source : Partitions \cup {Hash(<<>>)}, split : Stages, kids : SUBSET Partitions,
   promo : [Hashes -> Stages], depth : Nat]
PartType == part \in [Partitions -> Descriptions]

\* Partitions that exist are nested or apart.  What exists below a partition exists in a target of its split.
NestedInv ==
  \A x, y \in Partitions : exists(x) /\ exists(y) /\ Overlap(x, y) => x = y \/ Under(x, y) \/ Under(y, x)
CoveredInv ==
  \A x, y \in Partitions : exists(x) /\ exists(y) /\ Under(x, y) =>
    part[x].split # "none" /\ \E c \in part[x].kids : c = y \/ Under(c, y)

\* A partition that splits is active, its promotions are over, and its targets are its own; they wait until it
\* cuts over, and take over its promotions.
TargetInv(x, c) ==
  /\ exists(c) /\ Under(x, c) /\ ~IsHashRoot(c) /\ ~IsRangeRoot(c) /\ part[c].source = x
  /\ part[x].split = "planned" => part[c].phase = "awaiting_data"
  /\ isImporting(c) => part[c].promo = part[x].promo
SplitInv ==
  \A x \in Partitions : part[x].split # "none" =>
    /\ part[x].phase = "active" /\ \A h \in Hashes : part[x].promo[h] \in {"none", "completed"}
    /\ Tiles(part[x].kids, x) /\ \A c \in part[x].kids : TargetInv(x, c)
SourceInv ==
  \A c \in Partitions : exists(c) /\ ~IsHashRoot(c) /\ ~IsRangeRoot(c) =>
    part[c].source \in Partitions /\ c \in part[part[c].source].kids /\ part[part[c].source].split # "none"
HashRootInv ==
  \A c \in Partitions : IsHashRoot(c) => part[c].phase = "active"

\* Only a promotable hash is promoted.  The partition that promotes it is the source of its range root, waits with
\* the root until it cuts over, and every range partition of the hash lies below the root.
PromoInv ==
  \A p \in Partitions, h \in Hashes : part[p].promo[h] # "none" => p.kind = "hash" /\ h \in Promotable
RangeInv ==
  \A r \in RangePartitions :
    /\ exists(r) => exists(RangeRoot(r.hash)) /\ (r = RangeRoot(r.hash) \/ Under(RangeRoot(r.hash), r))
    /\ part[r].depth + (r.end - r.start) <= Top
RootInv ==
  \A h \in Promotable : exists(RangeRoot(h)) =>
    LET s == part[RangeRoot(h)].source
    IN /\ s \in HashPartitions /\ part[s].phase = "active" /\ OwnsHash(s, h)
       /\ part[s].promo[h] # "none"
       /\ part[s].promo[h] = "planned" => part[RangeRoot(h)].phase = "awaiting_data"
InheritInv ==
  \A x, y \in HashPartitions, h \in Hashes :
    exists(x) /\ exists(y) /\ Under(x, y) /\ part[x].promo[h] = "completed" => part[y].promo[h] = "completed"

TopologyInv ==
  /\ PartType /\ NestedInv /\ CoveredInv /\ SplitInv /\ SourceInv /\ HashRootInv
  /\ PromoInv /\ RangeInv /\ RootInv /\ InheritInv

\* The partition that answers for a key, or whose source does while it imports.
Owner(x, k) ==
  /\ exists(x) /\ ownsByTopology(x, k) /\ ~overrideCutOver(x, HashOf[k]) /\ ~routerRole(x)
  /\ isImporting(x) => CutOverTo(x)
RowsAt(x) == IF isImporting(x) THEN part[x].source ELSE x

\* The writes of a key that ran: those that the client knows, and that of the answer under way.
Ran(k) ==
  writes[k] + IF /\ request # None /\ request.op = "put" /\ k \in request.keys
                 /\ flight.type = "answer" /\ flight.code \in {"ok", "lost"} THEN 1 ELSE 0

RowsInv ==
  /\ rows \in [Partitions -> [Keys -> Nat]] /\ writes \in [Keys -> Nat]
  /\ \A x \in Partitions, k \in Keys : Owner(x, k) => rows[RowsAt(x)][k] = Ran(k)

\* What a partition may have learned, and a cache may hold.
HintType(hint) == hint \in [slices : SUBSET RangePartitions, arena : {hint.arena}, bloom : SUBSET Promotable]
HashViewType(view) ==
  view = NoView \/ view \in [known : {TRUE}, splits : SUBSET Seq(Nat), promoted : SUBSET Promotable, cut : {view.cut}]
RangeViewType(h, view) ==
  \/ view = NoView
  \/ /\ view \in [known : {TRUE}, slices : SUBSET {r \in RangePartitions : r.hash = h}, cut : {view.cut}]
     /\ view.slices # {} => h \in Promotable /\ RangeRoot(h) \in view.slices \ view.cut
SiteType(site) ==
  /\ site = [hash |-> site.hash, range |-> [h \in Hashes |-> site.range[h]]]
  /\ HashViewType(site.hash) /\ \A h \in Hashes : RangeViewType(h, site.range[h])
LearnedInv ==
  /\ hints = [p \in Partitions |-> hints[p]] /\ \A p \in Partitions : HintType(hints[p])
  /\ cache = [s \in Sites |-> cache[s]] /\ \A s \in Sites : SiteType(cache[s])

HashVersions == [known : {TRUE}, splits : SUBSET Seq(Nat), promoted : SUBSET Promotable, cut : {{}}]
RangeVersions == [known : {TRUE}, slices : SUBSET RangePartitions, cut : {{}}]
Versions == HashVersions \cup RangeVersions \cup {NoView}

Entries == [to : Partitions, by : {"root", "slice", "promotion", "leaf"}, bloom : BOOLEAN, version : Versions]
Scopes == [key : Keys, from : Keys, to : Keys]
Nodes == [ref : Partitions, hashDepth : Int]
Codes == {"ok", "lost", "not_initialized", "migrating", "misrouted", "not_applicable", "not_cut_over", "slice_reclaimed"}
Resolutions ==
  [kind : {"local", "out_of_range", "spans_many", "remote"}, to : Partitions \cup {Hash(<<>>)}, via : {"none", "override", "bloom", "hash", "range"},
   learned : BOOLEAN, relDepth : Nat, version : Versions]
Frames ==
  [at : Partitions, how : {"forward", "read_through", "caller_slice"}, res : Resolutions, nodes : SUBSET Nodes, retries : Nat]
Calls == [type : {"call"}, to : Partitions, mode : {"dispatch", "execute"}, from : Partitions, query : {None}]
Answers == [type : {"answer"}, code : Codes, at : Partitions, nodes : SUBSET Nodes, value : Nat, state : Phases]
RequestsUnderWay ==
  [shape : {"point", "single_owner"}, op : {"get", "put"}, keys : (SUBSET Keys) \ {{}},
   scope : Scopes, entry : Entries, fallbacks : Nat, query : {None}]

RequestInv ==
  /\ stack \in Seq(Frames)
  /\ \A i \in 1 .. Len(stack) : stack[i].how = "forward" => part[stack[i].at].phase = "active"
  /\ \/ request = None /\ flight = Idle /\ stack = <<>>
     \/ /\ request \in RequestsUnderWay
        /\ request.shape = "point" => \E k \in Keys : request.keys = {k}
        /\ flight \in Calls \/ flight \in Answers

\* A source p that is asked to read for t still has the rows when it finds that it cut over to t, and that the rows
\* are neither given back nor handed on.
SourceReads(p, t, k) ==
  /\ CutOverTo(t)
  /\ ~(IsRangeRoot(t) /\ part[p].promo[t.hash] = "completed")
  /\ ~(t.kind = "hash" /\ part[p].promo[HashOf[k]] = "completed")
ExecuteInv ==
  flight.type = "call" /\ flight.mode = "execute" =>
    /\ request.op = "get"
    /\ exists(flight.from) /\ part[flight.from].source = flight.to /\ ~IsHashRoot(flight.from)
    /\ \A k \in request.keys :
         ownsByTopology(flight.from, k) /\ (SourceReads(flight.to, flight.from, k) => rows[flight.to][k] = Ran(k))

AnswerInv ==
  flight.type = "answer" /\ flight.code = "ok" /\ request.op = "get" => flight.value = Ran(FirstKey(request.keys))

IInv == TopologyInv /\ RowsInv /\ LearnedInv /\ RequestInv /\ ExecuteInv /\ AnswerInv /\ ReadsSeeEveryWrite

----------------------------------------------------------------------------
(* The topology. *)

\* The range root of a promotable hash is a range partition.
LEMMA RootIsPartition ==
  ASSUME NEW h \in Promotable
  PROVE  /\ RangeRoot(h) \in RangePartitions /\ RangeRoot(h) \in Partitions /\ IsRangeRoot(RangeRoot(h))
         /\ RangeRoot(h).kind = "range" /\ RangeRoot(h).hash = h /\ RangeRoot(h).start = 0 /\ RangeRoot(h).end = Top
<1>1. /\ RangeRoot(h).kind = "range" /\ RangeRoot(h).hash = h /\ RangeRoot(h).start = 0 /\ RangeRoot(h).end = Top
  BY DEF RangeRoot, Slice
<1>2. 0 < Top
  <2>1. PICK k \in Keys : TRUE
    BY KeysAssumption
  <2> QED BY <2>1, TopType, KeysAssumption
<1>3. RangeRoot(h) \in {Slice(h, s, e) : s \in BoundsOf[h] \cup {0}, e \in BoundsOf[h] \cup {Top}}
  BY DEF RangeRoot
<1>4. RangeRoot(h) \in RangePartitions
  BY <1>1, <1>2, <1>3 DEF RangePartitions
<1> QED BY <1>1, <1>4 DEF Partitions, IsRangeRoot

\* A range partition that is a root is the root of its hash.
LEMMA RangeRoots ==
  ASSUME NEW r \in Partitions, IsRangeRoot(r)
  PROVE  r \in RangePartitions /\ r.hash \in Promotable /\ r = RangeRoot(r.hash) /\ ~IsHashRoot(r)
BY PartitionKinds, RangeType DEF IsRangeRoot, IsHashRoot

\* Overlap has no direction.
LEMMA OverlapSwaps ==
  ASSUME NEW x \in Partitions, NEW y \in Partitions
  PROVE  Overlap(x, y) <=> Overlap(y, x)
BY DEF Overlap

\* What the invariant says of one partition that splits.
LEMMA Splitting ==
  ASSUME TopologyInv, NEW x \in Partitions, part[x].split # "none"
  PROVE  /\ part[x].phase = "active" /\ exists(x) /\ ~isImporting(x)
         /\ \A h \in Hashes : part[x].promo[h] \in {"none", "completed"}
         /\ Tiles(part[x].kids, x)
         /\ \A c \in part[x].kids : c \in Partitions /\ TargetInv(x, c)
<1>1. part[x].kids \subseteq Partitions
  BY DEF TopologyInv, PartType, Descriptions
<1>2. /\ part[x].phase = "active" /\ \A h \in Hashes : part[x].promo[h] \in {"none", "completed"}
      /\ Tiles(part[x].kids, x) /\ \A c \in part[x].kids : TargetInv(x, c)
  BY DEF TopologyInv, SplitInv
<1>3. exists(x) /\ ~isImporting(x)
  BY <1>2 DEF exists, isImporting
<1> QED BY <1>1, <1>2, <1>3

\* What a step leaves alone when it creates no partition and begins no repartition.
LEMMA ShapeKept ==
  ASSUME TopologyInv, PartType',
         \A q \in Partitions :
           /\ exists(q)' <=> exists(q)
           /\ part[q].phase = "active" => part'[q].phase = "active"
           /\ part'[q].split # "none" <=> part[q].split # "none"
           /\ part'[q].source = part[q].source /\ part'[q].kids = part[q].kids /\ part'[q].depth = part[q].depth
           /\ \A h \in Hashes : part'[q].promo[h] # "none" <=> part[q].promo[h] # "none"
  PROVE  NestedInv' /\ CoveredInv' /\ SourceInv' /\ HashRootInv' /\ PromoInv' /\ RangeInv'
<1>1. NestedInv'
  BY DEF TopologyInv, NestedInv
<1>2. CoveredInv'
  BY DEF TopologyInv, CoveredInv
<1>3. SourceInv'
  <2> SUFFICES ASSUME NEW c \in Partitions, exists(c), ~IsHashRoot(c), ~IsRangeRoot(c)
              PROVE  /\ part'[c].source \in Partitions /\ c \in part'[part'[c].source].kids
                     /\ part'[part'[c].source].split # "none"
    BY DEF SourceInv, IsHashRoot, IsRangeRoot
  <2> DEFINE s == part[c].source
  <2>1. s \in Partitions /\ c \in part[s].kids /\ part[s].split # "none"
    BY DEF TopologyInv, SourceInv
  <2>2. part'[c].source = s /\ part'[s].kids = part[s].kids /\ part'[s].split # "none"
    BY <2>1
  <2> QED BY <2>1, <2>2
<1>4. HashRootInv'
  BY DEF TopologyInv, HashRootInv, IsHashRoot
<1>5. PromoInv'
  BY DEF TopologyInv, PromoInv
<1>6. RangeInv'
  BY RangeType, RootIsPartition DEF TopologyInv, RangeInv, Partitions
<1> QED BY <1>1, <1>2, <1>3, <1>4, <1>5, <1>6

\* The partition that splits keeps its promotions; a target waits with it until it cuts over, and takes them over.
LEMMA SplitKept ==
  ASSUME TopologyInv,
         \A q \in Partitions :
           /\ exists(q)' <=> exists(q)
           /\ part'[q].split # "none" => part[q].split # "none"
           /\ part'[q].source = part[q].source /\ part'[q].kids = part[q].kids
           /\ part[q].split # "none" => part'[q].phase = part[q].phase /\ part'[q].promo = part[q].promo
           /\ part'[q].split = "planned" => part[q].split = "planned" /\ \A c \in part[q].kids : part'[c].phase = part[c].phase
           /\ isImporting(q)' => isImporting(q) /\ part'[q].promo = part[q].promo
  PROVE  SplitInv'
<1> SUFFICES ASSUME NEW x \in Partitions, part'[x].split # "none"
             PROVE  /\ part'[x].phase = "active" /\ \A h \in Hashes : part'[x].promo[h] \in {"none", "completed"}
                    /\ Tiles(part'[x].kids, x) /\ \A c \in part'[x].kids : TargetInv(x, c)'
  BY DEF SplitInv, Tiles, ownsByTopology, OwnsHash
<1>1. part[x].split # "none"
  OBVIOUS
<1>2. /\ part[x].phase = "active" /\ \A h \in Hashes : part[x].promo[h] \in {"none", "completed"}
      /\ Tiles(part[x].kids, x) /\ \A c \in part[x].kids : c \in Partitions /\ TargetInv(x, c)
  BY <1>1, Splitting
<1>3. part'[x].phase = part[x].phase /\ part'[x].promo = part[x].promo /\ part'[x].kids = part[x].kids
  BY <1>1
<1>4. ASSUME NEW c \in part[x].kids PROVE TargetInv(x, c)'
  <2>1. c \in Partitions
    BY <1>2
  <2>2. /\ exists(c) /\ Under(x, c) /\ ~IsHashRoot(c) /\ ~IsRangeRoot(c) /\ part[c].source = x
        /\ part[x].split = "planned" => part[c].phase = "awaiting_data"
        /\ isImporting(c) => part[c].promo = part[x].promo
    BY <1>2 DEF TargetInv
  <2>3. exists(c)' /\ part'[c].source = x
    BY <2>1, <2>2
  <2>4. part'[x].split = "planned" => part'[c].phase = "awaiting_data"
    BY <2>2
  <2>5. isImporting(c)' => part'[c].promo = part'[x].promo
    BY <1>3, <2>1, <2>2
  <2> QED BY <2>2, <2>3, <2>4, <2>5 DEF TargetInv, Under, IsHashRoot, IsRangeRoot
<1> QED BY <1>2, <1>3, <1>4

\* The source of a range root keeps its promotion, and one that was not planned is never planned again.
LEMMA RootKept ==
  ASSUME TopologyInv,
         \A q \in Partitions :
           /\ exists(q)' <=> exists(q)
           /\ part[q].phase = "active" => part'[q].phase = "active"
           /\ part'[q].source = part[q].source
           /\ \A h \in Hashes : part[q].promo[h] # "none" => part'[q].promo[h] # "none",
         \A h \in Promotable : exists(RangeRoot(h)) /\ part'[part[RangeRoot(h)].source].promo[h] = "planned"
           => part[part[RangeRoot(h)].source].promo[h] = "planned" /\ part'[RangeRoot(h)].phase = part[RangeRoot(h)].phase
  PROVE  RootInv'
<1> SUFFICES ASSUME NEW h \in Promotable, exists(RangeRoot(h))'
             PROVE  LET s == part'[RangeRoot(h)].source
                    IN /\ s \in HashPartitions /\ part'[s].phase = "active" /\ OwnsHash(s, h)
                       /\ part'[s].promo[h] # "none"
                       /\ part'[s].promo[h] = "planned" => part'[RangeRoot(h)].phase = "awaiting_data"
  BY DEF RootInv, RangeRoot, OwnsHash
<1> DEFINE r == RangeRoot(h)
           s == part[r].source
<1>1. r \in Partitions /\ exists(r) /\ h \in Hashes
  BY RootIsPartition, HashesAssumption
<1>2. /\ s \in HashPartitions /\ part[s].phase = "active" /\ OwnsHash(s, h) /\ part[s].promo[h] # "none"
      /\ part[s].promo[h] = "planned" => part[r].phase = "awaiting_data"
  BY <1>1 DEF TopologyInv, RootInv
<1>3. s \in Partitions /\ part'[r].source = s
  BY <1>1, <1>2 DEF Partitions
<1>4. part'[s].phase = "active" /\ part'[s].promo[h] # "none"
  BY <1>1, <1>2, <1>3
<1>5. part'[s].promo[h] = "planned" => part'[r].phase = "awaiting_data"
  BY <1>1, <1>2
<1> QED BY <1>2, <1>3, <1>4, <1>5

\* A split that is planned: the partition had nothing below it, and its targets are new.
PlansSplit(p, kids) ==
  /\ part[p].phase = "active" /\ part[p].split = "none"
  /\ p.kind = "hash" => \A h \in Hashes : part[p].promo[h] \in {"none", "completed"}
  /\ \A y \in Partitions : exists(y) => ~Under(p, y)
  /\ \A c \in kids : c \in Partitions /\ part[c].phase = "absent" /\ c # p /\ Under(p, c) /\ ~IsHashRoot(c) /\ ~IsRangeRoot(c)
  /\ part'[p].phase = "active" /\ part'[p].split = "planned" /\ part'[p].kids = kids
  /\ part'[p].source = part[p].source /\ part'[p].promo = part[p].promo /\ part'[p].depth = part[p].depth
  /\ \A c \in kids : /\ part'[c].phase = "awaiting_data" /\ part'[c].split = "none" /\ part'[c].source = p
                     /\ part'[c].kids = {} /\ part'[c].promo = part[p].promo /\ part'[c].depth = part[p].depth + 1
  /\ \A q \in Partitions : q # p /\ q \notin kids => part'[q] = part[q]

\* What a planned split changes, partition by partition.
LEMMA PlanSplitStep ==
  ASSUME TopologyInv, PlanSplit
  PROVE  \E p \in Partitions : \E kids \in SplitTargets(p) : PlansSplit(p, kids) /\ part' \in [Partitions -> Descriptions]
<1>1. PICK p \in Partitions : canQueueSplit(p) /\ \E kids \in SplitTargets(p) :
        part' = [q \in Partitions |->
          IF q \in kids THEN Awaiting(p, part[p].promo, part[p].depth + 1)
          ELSE IF q = p THEN PlannedSplit(p, kids) ELSE part[q]]
  BY DEF PlanSplit
<1>2. PICK kids \in SplitTargets(p) :
        part' = [q \in Partitions |->
          IF q \in kids THEN Awaiting(p, part[p].promo, part[p].depth + 1)
          ELSE IF q = p THEN PlannedSplit(p, kids) ELSE part[q]]
  BY <1>1
<1>3. /\ part[p].phase = "active" /\ part[p].split = "none" /\ exists(p)
      /\ p.kind = "hash" => \A h \in Hashes : part[p].promo[h] \in {"none", "completed"}
  BY <1>1 DEF canQueueSplit, exists
<1>4. \A y \in Partitions : exists(y) => ~Under(p, y)
  BY <1>3 DEF TopologyInv, CoveredInv
<1>5. \A c \in kids : c \in Partitions /\ Under(p, c) /\ c # p /\ ~IsHashRoot(c) /\ ~IsRangeRoot(c)
  BY TargetsLie DEF Under
<1>6. \A c \in kids : part[c].phase = "absent"
  BY <1>4, <1>5 DEF exists
<1>7. part \in [Partitions -> Descriptions]
  BY DEF TopologyInv, PartType
<1>8. /\ part'[p] = PlannedSplit(p, kids)
      /\ \A c \in kids : part'[c] = Awaiting(p, part[p].promo, part[p].depth + 1)
      /\ \A q \in Partitions : q # p /\ q \notin kids => part'[q] = part[q]
  BY <1>2, <1>5
<1>9. /\ part'[p].phase = "active" /\ part'[p].split = "planned" /\ part'[p].kids = kids
      /\ part'[p].source = part[p].source /\ part'[p].promo = part[p].promo /\ part'[p].depth = part[p].depth
      /\ part'[p] \in Descriptions
  <2>1. part[p] \in Descriptions /\ kids \in SUBSET Partitions
    BY <1>5, <1>7
  <2>2. PlannedSplit(p, kids) \in Descriptions
    BY <2>1 DEF PlannedSplit, Descriptions, Stages
  <2>3. /\ PlannedSplit(p, kids).phase = part[p].phase /\ PlannedSplit(p, kids).split = "planned"
        /\ PlannedSplit(p, kids).kids = kids /\ PlannedSplit(p, kids).source = part[p].source
        /\ PlannedSplit(p, kids).promo = part[p].promo /\ PlannedSplit(p, kids).depth = part[p].depth
    BY <2>1 DEF PlannedSplit, Descriptions
  <2> QED BY <1>3, <1>8, <2>2, <2>3
<1>10. \A c \in kids : /\ part'[c].phase = "awaiting_data" /\ part'[c].split = "none" /\ part'[c].source = p
                       /\ part'[c].kids = {} /\ part'[c].promo = part[p].promo /\ part'[c].depth = part[p].depth + 1
                       /\ part'[c] \in Descriptions
  BY <1>7, <1>8 DEF Awaiting, Descriptions, Stages, Phases
<1>11. part' \in [Partitions -> Descriptions]
  <2>1. \A q \in Partitions : part'[q] \in Descriptions
    BY <1>7, <1>8, <1>9, <1>10
  <2>2. part' = [q \in Partitions |-> part'[q]]
    BY <1>2
  <2> HIDE DEF Descriptions
  <2> QED BY <2>1, <2>2
<1>12. PlansSplit(p, kids)
  BY <1>3, <1>4, <1>5, <1>6, <1>8, <1>9, <1>10 DEF PlansSplit
<1> QED BY <1>11, <1>12

\* A planned split keeps the topology sound.
LEMMA PlanSplitTopology ==
  ASSUME TopologyInv, PlanSplit
  PROVE  TopologyInv'
<1>1. PICK p \in Partitions : \E kids \in SplitTargets(p) : PlansSplit(p, kids) /\ part' \in [Partitions -> Descriptions]
  BY PlanSplitStep
<1>2. PICK kids \in SplitTargets(p) : PlansSplit(p, kids) /\ part' \in [Partitions -> Descriptions]
  BY <1>1
<1>3. /\ exists(p) /\ exists(p)'
      /\ \A c \in kids : exists(c)' /\ ~exists(c) /\ c \in Partitions /\ Under(p, c) /\ c # p
      /\ \A q \in Partitions : q \notin kids => (exists(q)' <=> exists(q))
      /\ \A y \in Partitions : exists(y) => ~Under(p, y)
  BY <1>2 DEF PlansSplit, exists
<1>4. \A c \in kids, y \in Partitions : exists(y) /\ Overlap(c, y) => y = p \/ Under(y, p)
  <2> SUFFICES ASSUME NEW c \in kids, NEW y \in Partitions, exists(y), Overlap(c, y) PROVE y = p \/ Under(y, p)
    OBVIOUS
  <2>1. Overlap(p, y)
    BY <1>3, UnderOverlap
  <2> QED BY <2>1, <1>3 DEF TopologyInv, NestedInv
<1>5. PartType'
  BY <1>2 DEF PartType
<1>6. NestedInv'
  <2> SUFFICES ASSUME NEW x \in Partitions, NEW y \in Partitions, exists(x)', exists(y)', Overlap(x, y)
              PROVE  x = y \/ Under(x, y) \/ Under(y, x)
    BY DEF NestedInv, Overlap, Under
  <2>1. CASE x \in kids /\ y \in kids
    BY <2>1, TargetsLie
  <2>2. CASE x \in kids /\ y \notin kids
    <3>1. exists(y) /\ Under(p, x)
      BY <2>2, <1>3
    <3>2. y = p \/ Under(y, p)
      BY <2>2, <3>1, <1>4
    <3> QED BY <3>1, <3>2, UnderOrder
  <2>3. CASE x \notin kids /\ y \in kids
    <3>1. exists(x) /\ Under(p, y)
      BY <2>3, <1>3
    <3>2. x = p \/ Under(x, p)
      BY <2>3, <3>1, <1>4, OverlapSwaps
    <3> QED BY <3>1, <3>2, UnderOrder
  <2>4. CASE x \notin kids /\ y \notin kids
    BY <2>4, <1>3 DEF TopologyInv, NestedInv
  <2> QED BY <2>1, <2>2, <2>3, <2>4
<1>7. CoveredInv'
  <2> SUFFICES ASSUME NEW x \in Partitions, NEW y \in Partitions, exists(x)', exists(y)', Under(x, y)
              PROVE  part'[x].split # "none" /\ \E c \in part'[x].kids : c = y \/ Under(c, y)
    BY DEF CoveredInv, Under
  <2>1. CASE x \in kids
    <3>1. Overlap(x, y) /\ x # y /\ Under(p, y)
      BY <2>1, <1>3, UnderOverlap, UnderOrder DEF Under
    <3> QED BY <3>1, <1>3, TargetsLie, <2>1
  <2>2. CASE x \notin kids /\ y \notin kids
    <3>1. exists(x) /\ exists(y) /\ x # p
      BY <2>2, <1>3
    <3>2. part'[x] = part[x]
      BY <3>1, <2>2, <1>2 DEF PlansSplit
    <3> QED BY <3>1, <3>2 DEF TopologyInv, CoveredInv
  <2>3. CASE x = p /\ y \in kids
    BY <2>3, <1>2 DEF PlansSplit
  <2>4. CASE x \notin kids /\ x # p /\ y \in kids
    <3>1. exists(x) /\ part'[x] = part[x]
      BY <2>4, <1>2, <1>3 DEF PlansSplit
    <3>2. Under(x, p)
      BY <2>4, <3>1, <1>4, UnderOverlap
    <3>3. PICK c \in part[x].kids : c = p \/ Under(c, p)
      BY <3>1, <3>2, <1>3 DEF TopologyInv, CoveredInv
    <3>4. c \in Partitions /\ part[x].split # "none"
      BY <3>1, <3>2, <1>3 DEF TopologyInv, CoveredInv, PartType, Descriptions
    <3>5. Under(c, y)
      BY <3>3, <3>4, <1>3, <2>4, UnderOrder
    <3> QED BY <3>1, <3>3, <3>4, <3>5
  <2> QED BY <2>1, <2>2, <2>3, <2>4
<1>8. SplitInv'
  <2> SUFFICES ASSUME NEW x \in Partitions, part'[x].split # "none"
              PROVE  /\ part'[x].phase = "active" /\ \A h \in Hashes : part'[x].promo[h] \in {"none", "completed"}
                     /\ Tiles(part'[x].kids, x) /\ \A c \in part'[x].kids : TargetInv(x, c)'
    BY DEF SplitInv, Tiles, ownsByTopology, OwnsHash
  <2>1. CASE x = p
    <3>1. \A h \in Hashes : part[p].promo[h] \in {"none", "completed"}
      <4>1. CASE p.kind = "hash"
        BY <4>1, <1>2 DEF PlansSplit
      <4>2. CASE p.kind # "hash"
        BY <4>2 DEF TopologyInv, PromoInv
      <4> QED BY <4>1, <4>2
    <3>2. ASSUME NEW c \in kids PROVE TargetInv(x, c)'
      <4>1. /\ exists(c)' /\ Under(x, c) /\ ~IsHashRoot(c) /\ ~IsRangeRoot(c) /\ part'[c].source = x
            /\ part'[c].phase = "awaiting_data" /\ part'[c].promo = part'[x].promo
        BY <2>1, <1>2, <1>3 DEF PlansSplit
      <4> QED BY <4>1 DEF TargetInv, Under, IsHashRoot, IsRangeRoot
    <3>3. part'[p].phase = "active" /\ part'[p].promo = part[p].promo /\ part'[p].kids = kids
      BY <1>2 DEF PlansSplit
    <3> QED BY <2>1, <3>1, <3>2, <3>3, TargetsTile
  <2>2. CASE x \in kids
    BY <2>2, <1>2 DEF PlansSplit
  <2>3. CASE x # p /\ x \notin kids
    <3>1. part'[x] = part[x]
      BY <2>3, <1>2 DEF PlansSplit
    <3>2. /\ part[x].phase = "active" /\ \A h \in Hashes : part[x].promo[h] \in {"none", "completed"}
          /\ Tiles(part[x].kids, x) /\ \A c \in part[x].kids : c \in Partitions /\ TargetInv(x, c)
      BY <3>1, Splitting
    <3>3. ASSUME NEW c \in part[x].kids PROVE TargetInv(x, c)'
      <4>1. c \in Partitions
        BY <3>2
      <4>2. /\ exists(c) /\ Under(x, c) /\ ~IsHashRoot(c) /\ ~IsRangeRoot(c) /\ part[c].source = x
            /\ part[x].split = "planned" => part[c].phase = "awaiting_data"
            /\ isImporting(c) => part[c].promo = part[x].promo
        BY <3>2 DEF TargetInv
      <4>3. c \notin kids
        BY <4>2, <1>3
      <4>4. part'[c].phase = part[c].phase /\ part'[c].source = part[c].source /\ part'[c].promo = part[c].promo
        BY <4>1, <4>3, <1>2 DEF PlansSplit
      <4> QED BY <4>2, <4>4, <3>1 DEF TargetInv, Under, IsHashRoot, IsRangeRoot, exists, isImporting
    <3> QED BY <3>1, <3>2, <3>3
  <2> QED BY <2>1, <2>2, <2>3
<1>9. SourceInv'
  <2> SUFFICES ASSUME NEW c \in Partitions, exists(c)', ~IsHashRoot(c), ~IsRangeRoot(c)
              PROVE  /\ part'[c].source \in Partitions /\ c \in part'[part'[c].source].kids
                     /\ part'[part'[c].source].split # "none"
    BY DEF SourceInv, IsHashRoot, IsRangeRoot
  <2>1. CASE c \in kids
    BY <2>1, <1>2 DEF PlansSplit
  <2>2. CASE c \notin kids
    <3>1. exists(c) /\ part'[c].source = part[c].source
      BY <2>2, <1>2, <1>3 DEF PlansSplit
    <3> DEFINE s == part[c].source
    <3>2. s \in Partitions /\ c \in part[s].kids /\ part[s].split # "none"
      BY <3>1 DEF TopologyInv, SourceInv
    <3>3. part[s].phase = "active"
      BY <3>2 DEF TopologyInv, SplitInv
    <3>4. s # p /\ s \notin kids
      BY <3>2, <3>3, <1>2 DEF PlansSplit
    <3>5. part'[s] = part[s]
      BY <3>2, <3>4, <1>2 DEF PlansSplit
    <3> QED BY <3>1, <3>2, <3>5
  <2> QED BY <2>1, <2>2
<1>10. HashRootInv'
  <2> SUFFICES ASSUME NEW c \in Partitions, IsHashRoot(c) PROVE part'[c].phase = "active"
    BY DEF HashRootInv, IsHashRoot
  <2>1. c \notin kids /\ part[c].phase = "active"
    BY <1>2 DEF PlansSplit, TopologyInv, HashRootInv
  <2> QED BY <2>1, <1>2 DEF PlansSplit
<1>11. PromoInv'
  <2> SUFFICES ASSUME NEW q \in Partitions, NEW h \in Hashes, part'[q].promo[h] # "none"
              PROVE  q.kind = "hash" /\ h \in Promotable
    BY DEF PromoInv
  <2>1. CASE q \in kids
    BY <2>1, <1>2, <1>3 DEF PlansSplit, TopologyInv, PromoInv, Under
  <2>2. CASE q \notin kids
    BY <2>2, <1>2 DEF PlansSplit, TopologyInv, PromoInv
  <2> QED BY <2>1, <2>2
<1>12. RangeInv'
  <2> SUFFICES ASSUME NEW r \in RangePartitions
              PROVE  /\ exists(r)' => exists(RangeRoot(r.hash))' /\ (r = RangeRoot(r.hash) \/ Under(RangeRoot(r.hash), r))
                     /\ part'[r].depth + (r.end - r.start) <= Top
    BY DEF RangeInv, RangeRoot, Under
  <2>1. /\ RangeRoot(r.hash) \in Partitions /\ IsRangeRoot(RangeRoot(r.hash)) /\ r \in Partitions /\ r.hash \in Promotable
        /\ RangeRoot(r.hash).kind = "range" /\ RangeRoot(r.hash).hash = r.hash
    BY RangeType, RootIsPartition DEF Partitions
  <2>2. \A q \in Partitions : IsRangeRoot(q) => q \notin kids
    BY <1>2 DEF PlansSplit
  <2>3. CASE r \notin kids
    <3>1. exists(r)' => exists(r)
      BY <2>1, <2>3, <1>3
    <3>2. part'[r].depth = part[r].depth
      BY <2>1, <2>3, <1>2 DEF PlansSplit
    <3>3. exists(RangeRoot(r.hash))' <=> exists(RangeRoot(r.hash))
      BY <2>1, <2>2, <1>3
    <3> QED BY <3>1, <3>2, <3>3 DEF TopologyInv, RangeInv
  <2>4. CASE r \in kids
    <3>1. p \in RangePartitions /\ r.hash = p.hash /\ p.start <= r.start /\ r.end <= p.end /\ r # p /\ Under(p, r)
      BY <2>1, <2>4, <1>3, PartitionKinds, RangeType DEF Under
    <3>2. /\ exists(RangeRoot(p.hash)) /\ (p = RangeRoot(p.hash) \/ Under(RangeRoot(p.hash), p))
          /\ part[p].depth + (p.end - p.start) <= Top
      BY <3>1, <1>3 DEF TopologyInv, RangeInv
    <3>3. exists(RangeRoot(r.hash))' /\ (r = RangeRoot(r.hash) \/ Under(RangeRoot(r.hash), r))
      BY <3>1, <3>2, <2>1, <2>2, <1>3, UnderOrder
    <3>4. part'[r].depth = part[p].depth + 1 /\ part[p].depth \in Nat
      BY <2>4, <1>2 DEF PlansSplit, TopologyInv, PartType, Descriptions
    <3>5. r.end - r.start < p.end - p.start
      BY <3>1, RangeType
    <3>6. r.end \in Nat /\ r.start \in Nat /\ p.end \in Nat /\ p.start \in Nat /\ Top \in Nat
      BY <3>1, RangeType, TopType
    <3>7. part[p].depth + 1 + (r.end - r.start) <= Top
      BY <3>2, <3>4, <3>5, <3>6
    <3> QED BY <3>3, <3>4, <3>7
  <2> QED BY <2>3, <2>4
<1>13. RootInv'
  <2> SUFFICES ASSUME NEW h \in Promotable, exists(RangeRoot(h))'
              PROVE  LET s == part'[RangeRoot(h)].source
                     IN /\ s \in HashPartitions /\ part'[s].phase = "active" /\ OwnsHash(s, h)
                        /\ part'[s].promo[h] # "none"
                        /\ part'[s].promo[h] = "planned" => part'[RangeRoot(h)].phase = "awaiting_data"
    BY DEF RootInv, RangeRoot, OwnsHash
  <2> DEFINE r == RangeRoot(h)
             s == part[r].source
  <2>1. r \in Partitions /\ r \notin kids /\ exists(r)
    BY RootIsPartition, <1>2, <1>3 DEF PlansSplit
  <2>2. part'[r].source = s /\ part'[r].phase = part[r].phase
    BY <2>1, <1>2 DEF PlansSplit
  <2>3. /\ s \in HashPartitions /\ part[s].phase = "active" /\ OwnsHash(s, h) /\ part[s].promo[h] # "none"
        /\ part[s].promo[h] = "planned" => part[r].phase = "awaiting_data"
    BY <2>1 DEF TopologyInv, RootInv
  <2>4. s \in Partitions /\ s \notin kids
    BY <2>3, <1>2 DEF PlansSplit, Partitions
  <2>5. part'[s].phase = "active" /\ part'[s].promo = part[s].promo
    BY <2>3, <2>4, <1>2 DEF PlansSplit
  <2> QED BY <2>2, <2>3, <2>5
<1>14. InheritInv'
  <2> SUFFICES ASSUME NEW x \in HashPartitions, NEW y \in HashPartitions, NEW h \in Hashes,
                      exists(x)', exists(y)', Under(x, y), part'[x].promo[h] = "completed"
              PROVE  part'[y].promo[h] = "completed"
    BY DEF InheritInv, Under
  <2>0. x \in Partitions /\ y \in Partitions
    BY DEF Partitions
  <2>1. x \notin kids
    <3> SUFFICES ASSUME x \in kids PROVE FALSE
      OBVIOUS
    <3>1. Overlap(x, y) /\ x # y /\ Under(p, y)
      BY <2>0, <1>3, UnderOverlap, UnderOrder DEF Under
    <3> QED BY <3>1, <1>3, <2>0, TargetsLie
  <2>2. exists(x) /\ part'[x].promo = part[x].promo
    BY <2>0, <2>1, <1>2, <1>3 DEF PlansSplit
  <2>3. CASE y \notin kids
    <3>1. exists(y) /\ part'[y].promo = part[y].promo
      BY <2>0, <2>3, <1>2, <1>3 DEF PlansSplit
    <3> QED BY <3>1, <2>2 DEF TopologyInv, InheritInv
  <2>4. CASE y \in kids
    <3>1. p \in HashPartitions /\ part'[y].promo = part[p].promo
      BY <2>0, <2>4, <1>2, <1>3, PartitionKinds DEF PlansSplit, Under
    <3>2. x = p \/ Under(x, p)
      BY <2>0, <2>2, <2>4, <1>4, UnderOverlap
    <3>3. part[p].promo[h] = "completed"
      BY <3>1, <3>2, <2>2, <1>3 DEF TopologyInv, InheritInv
    <3> QED BY <3>1, <3>3
  <2> QED BY <2>3, <2>4
<1> QED BY <1>5, <1>6, <1>7, <1>8, <1>9, <1>10, <1>11, <1>12, <1>13, <1>14 DEF TopologyInv

\* A promotion that is planned: no range partition of the hash exists, and its root is new.
PlansPromotion(p, h) ==
  LET r == RangeRoot(h)
  IN /\ part[p].phase = "active" /\ part[p].split = "none" /\ OwnsHash(p, h) /\ part[p].promo[h] = "none"
     /\ r \in Partitions /\ r # p /\ \A y \in RangePartitions : y.hash = h => ~exists(y)
     /\ part'[p].phase = "active" /\ part'[p].split = "none" /\ part'[p].kids = part[p].kids
     /\ part'[p].source = part[p].source /\ part'[p].depth = part[p].depth
     /\ part'[p].promo[h] = "planned" /\ \A g \in Hashes : g # h => part'[p].promo[g] = part[p].promo[g]
     /\ part'[r].phase = "awaiting_data" /\ part'[r].split = "none" /\ part'[r].source = p
     /\ part'[r].kids = {} /\ part'[r].depth = 0 /\ \A g \in Hashes : part'[r].promo[g] = "none"
     /\ \A q \in Partitions : q # p /\ q # r => part'[q] = part[q]

\* What a planned promotion changes, partition by partition.
LEMMA PlanPromotionStep ==
  ASSUME TopologyInv, PlanPromotion
  PROVE  \E p \in HashPartitions, h \in Promotable : PlansPromotion(p, h) /\ part' \in [Partitions -> Descriptions]
<1>1. PICK p \in HashPartitions, h \in Promotable :
        /\ part[p].phase = "active" /\ part[p].split = "none" /\ OwnsHash(p, h) /\ part[p].promo[h] = "none"
        /\ part' = [part EXCEPT ![p].promo[h] = "planned", ![RangeRoot(h)] = Awaiting(p, Absent.promo, 0)]
  BY DEF PlanPromotion
<1> DEFINE r == RangeRoot(h)
<1>2. /\ p \in Partitions /\ p.kind = "hash" /\ h \in Hashes
      /\ r \in Partitions /\ r \in RangePartitions /\ r.kind = "range" /\ r.hash = h /\ IsRangeRoot(r) /\ r # p
  BY RootIsPartition, HashType, HashesAssumption DEF Partitions
<1>3. ~exists(r)
  <2> SUFFICES ASSUME exists(r) PROVE FALSE
    OBVIOUS
  <2> DEFINE s == part[r].source
  <2>1. s \in HashPartitions /\ part[s].phase = "active" /\ OwnsHash(s, h) /\ part[s].promo[h] # "none" /\ s # p
    BY <1>1 DEF TopologyInv, RootInv
  <2>2. s \in Partitions /\ s.kind = "hash" /\ exists(s) /\ exists(p)
    BY <1>1, <2>1, HashType DEF Partitions, exists
  <2> HIDE DEF s
  <2>3. Overlap(s, p)
    BY <1>1, <1>2, <2>1, <2>2, OwnersOverlap
  <2>4. CASE Under(p, s)
    BY <1>1, <1>2, <2>2, <2>4 DEF TopologyInv, CoveredInv
  <2>5. CASE Under(s, p)
    <3>1. part[s].split # "none"
      BY <1>2, <2>2, <2>5 DEF TopologyInv, CoveredInv
    <3>2. part[s].promo[h] = "completed"
      <4>1. \A g \in Hashes : part[s].promo[g] \in {"none", "completed"}
        BY <2>2, <3>1, Splitting
      <4>2. part[s].promo[h] \in {"none", "completed"}
        BY <1>2, <4>1
      <4> QED BY <2>1, <4>2
    <3>3. part[p].promo[h] = "completed"
      BY <1>2, <2>1, <2>2, <2>5, <3>2 DEF TopologyInv, InheritInv
    <3> QED BY <1>1, <3>3
  <2> QED BY <1>2, <2>1, <2>2, <2>3, <2>4, <2>5 DEF TopologyInv, NestedInv
<1>4. \A y \in RangePartitions : y.hash = h => ~exists(y)
  BY <1>3 DEF TopologyInv, RangeInv
<1>5. part \in [Partitions -> Descriptions] /\ part[p] \in Descriptions /\ part[p].promo \in [Hashes -> Stages]
  BY <1>2 DEF TopologyInv, PartType, Descriptions
<1>6. part'[r] = Awaiting(p, Absent.promo, 0) /\ \A q \in Partitions : q # p /\ q # r => part'[q] = part[q]
  BY <1>1, <1>2, <1>5
<1>7. part'[p] = [part[p] EXCEPT !.promo = [part[p].promo EXCEPT ![h] = "planned"]]
  BY <1>1, <1>2, <1>5
<1>8. /\ part'[p].phase = "active" /\ part'[p].split = "none" /\ part'[p].kids = part[p].kids
      /\ part'[p].source = part[p].source /\ part'[p].depth = part[p].depth
      /\ part'[p].promo = [part[p].promo EXCEPT ![h] = "planned"]
  BY <1>1, <1>5, <1>7 DEF Descriptions
<1>9. part'[p].promo[h] = "planned" /\ \A g \in Hashes : g # h => part'[p].promo[g] = part[p].promo[g]
  BY <1>2, <1>5, <1>8
<1>10. /\ part'[r].phase = "awaiting_data" /\ part'[r].split = "none" /\ part'[r].source = p
       /\ part'[r].kids = {} /\ part'[r].depth = 0 /\ \A g \in Hashes : part'[r].promo[g] = "none"
       /\ part'[r] \in Descriptions
  BY <1>2, <1>6 DEF Awaiting, Absent, Descriptions, Stages, Phases
<1>11. part' \in [Partitions -> Descriptions]
  <2>1. [part[p].promo EXCEPT ![h] = "planned"] \in [Hashes -> Stages]
    BY <1>5 DEF Stages
  <2>2. part'[p] \in Descriptions
    BY <1>5, <1>7, <2>1 DEF Descriptions
  <2>3. \A q \in Partitions : part'[q] \in Descriptions
    BY <1>5, <1>6, <1>10, <2>2
  <2>4. part' = [q \in Partitions |-> part'[q]]
    BY <1>1, <1>5
  <2> QED BY <2>3, <2>4
<1>12. PlansPromotion(p, h)
  BY <1>1, <1>2, <1>4, <1>6, <1>8, <1>9, <1>10 DEF PlansPromotion
<1> QED BY <1>11, <1>12

\* A planned promotion keeps the topology sound.
LEMMA PlanPromotionTopology ==
  ASSUME TopologyInv, PlanPromotion
  PROVE  TopologyInv'
<1>1. PICK p \in HashPartitions, h \in Promotable : PlansPromotion(p, h) /\ part' \in [Partitions -> Descriptions]
  BY PlanPromotionStep
<1> DEFINE r == RangeRoot(h)
<1>2. /\ p \in Partitions /\ p.kind = "hash" /\ h \in Hashes
      /\ r \in Partitions /\ r \in RangePartitions /\ r.kind = "range" /\ r.hash = h /\ IsRangeRoot(r) /\ ~IsHashRoot(r) /\ r # p
  BY RootIsPartition, RangeRoots, HashType, HashesAssumption DEF Partitions
<1>3. /\ exists(p) /\ exists(p)' /\ exists(r)' /\ \A q \in Partitions : q # r => (exists(q)' <=> exists(q))
      /\ \A y \in RangePartitions : y.hash = h => ~exists(y)
  BY <1>1 DEF PlansPromotion, exists
<1> HIDE DEF r
<1>4. \A y \in Partitions : exists(y)' /\ y.kind = "range" /\ y.hash = h => y = r
  BY <1>3, PartitionKinds
<1>5. PartType'
  BY <1>1 DEF PartType
<1>6. NestedInv'
  <2> SUFFICES ASSUME NEW x \in Partitions, NEW y \in Partitions, exists(x)', exists(y)', Overlap(x, y)
              PROVE  x = y \/ Under(x, y) \/ Under(y, x)
    BY DEF NestedInv, Overlap, Under
  <2>1. CASE x = r \/ y = r
    BY <2>1, <1>2, <1>4 DEF Overlap
  <2>2. CASE x # r /\ y # r
    BY <2>2, <1>3 DEF TopologyInv, NestedInv
  <2> QED BY <2>1, <2>2
<1>7. CoveredInv'
  <2> SUFFICES ASSUME NEW x \in Partitions, NEW y \in Partitions, exists(x)', exists(y)', Under(x, y)
              PROVE  part'[x].split # "none" /\ \E c \in part'[x].kids : c = y \/ Under(c, y)
    BY DEF CoveredInv, Under
  <2>1. x # r /\ y # r
    BY <1>2, <1>4 DEF Under
  <2>2. part[x].split # "none" /\ \E c \in part[x].kids : c = y \/ Under(c, y)
    BY <2>1, <1>3 DEF TopologyInv, CoveredInv
  <2>3. x # p
    BY <2>2, <1>1 DEF PlansPromotion
  <2>4. part'[x] = part[x]
    BY <2>1, <2>3, <1>1 DEF PlansPromotion, r
  <2> QED BY <2>2, <2>4
<1>8. SplitInv'
  <2> SUFFICES ASSUME NEW x \in Partitions, part'[x].split # "none"
              PROVE  /\ part'[x].phase = "active" /\ \A g \in Hashes : part'[x].promo[g] \in {"none", "completed"}
                     /\ Tiles(part'[x].kids, x) /\ \A c \in part'[x].kids : TargetInv(x, c)'
    BY DEF SplitInv, Tiles, ownsByTopology, OwnsHash
  <2>1. x # p /\ x # r
    BY <1>1 DEF PlansPromotion, r
  <2>2. part'[x] = part[x] /\ part[x].split # "none"
    BY <2>1, <1>1 DEF PlansPromotion, r
  <2>3. /\ part[x].phase = "active" /\ \A g \in Hashes : part[x].promo[g] \in {"none", "completed"}
        /\ Tiles(part[x].kids, x) /\ \A c \in part[x].kids : c \in Partitions /\ TargetInv(x, c)
    BY <2>2, Splitting
  <2>4. ASSUME NEW c \in part[x].kids PROVE TargetInv(x, c)'
    <3>1. /\ c \in Partitions
          /\ exists(c) /\ Under(x, c) /\ ~IsHashRoot(c) /\ ~IsRangeRoot(c) /\ part[c].source = x
          /\ part[x].split = "planned" => part[c].phase = "awaiting_data"
          /\ isImporting(c) => part[c].promo = part[x].promo
      BY <2>3 DEF TargetInv
    <3>2. c # r
      BY <3>1, <1>2
    <3>3. part'[c].phase = part[c].phase /\ part'[c].source = part[c].source
      BY <3>1, <3>2, <1>1 DEF PlansPromotion, r
    <3>4. isImporting(c) => part'[c].promo = part[c].promo
      BY <3>1, <3>2, <1>1 DEF PlansPromotion, r, isImporting
    <3> QED BY <3>1, <3>3, <3>4, <2>2 DEF TargetInv, Under, IsHashRoot, IsRangeRoot, exists, isImporting
  <2> QED BY <2>2, <2>3, <2>4
<1>9. SourceInv'
  <2> SUFFICES ASSUME NEW c \in Partitions, exists(c)', ~IsHashRoot(c), ~IsRangeRoot(c)
              PROVE  /\ part'[c].source \in Partitions /\ c \in part'[part'[c].source].kids
                     /\ part'[part'[c].source].split # "none"
    BY DEF SourceInv, IsHashRoot, IsRangeRoot
  <2> DEFINE s == part[c].source
  <2>1. c # r /\ exists(c)
    BY <1>2, <1>3
  <2>2. part'[c].source = s
    BY <2>1, <1>1 DEF PlansPromotion, r
  <2>3. s \in Partitions /\ c \in part[s].kids /\ part[s].split # "none"
    BY <2>1 DEF TopologyInv, SourceInv
  <2>4. part[s].phase = "active"
    BY <2>3 DEF TopologyInv, SplitInv
  <2>5. s # p /\ s # r
    BY <2>3, <2>4, <1>1, <1>2, <1>3 DEF PlansPromotion, exists
  <2>6. part'[s] = part[s]
    BY <2>3, <2>5, <1>1 DEF PlansPromotion, r
  <2> QED BY <2>2, <2>3, <2>6
<1>10. HashRootInv'
  <2> SUFFICES ASSUME NEW c \in Partitions, IsHashRoot(c) PROVE part'[c].phase = "active"
    BY DEF HashRootInv, IsHashRoot
  <2>1. c # r /\ part[c].phase = "active"
    BY <1>2 DEF TopologyInv, HashRootInv
  <2> QED BY <2>1, <1>1 DEF PlansPromotion, r
<1>11. PromoInv'
  <2> SUFFICES ASSUME NEW q \in Partitions, NEW g \in Hashes, part'[q].promo[g] # "none"
              PROVE  q.kind = "hash" /\ g \in Promotable
    BY DEF PromoInv
  <2> QED BY <1>1, <1>2 DEF PlansPromotion, r, TopologyInv, PromoInv
<1>12. RangeInv'
  <2> SUFFICES ASSUME NEW y \in RangePartitions
              PROVE  /\ exists(y)' => exists(RangeRoot(y.hash))' /\ (y = RangeRoot(y.hash) \/ Under(RangeRoot(y.hash), y))
                     /\ part'[y].depth + (y.end - y.start) <= Top
    BY DEF RangeInv, RangeRoot, Under
  <2>1. /\ RangeRoot(y.hash) \in Partitions /\ y \in Partitions /\ y # p
    BY <1>2, RangeType, RootIsPartition DEF Partitions
  <2>2. CASE y = r
    <3>1. r = RangeRoot(r.hash) /\ r.start = 0 /\ r.end = Top /\ part'[r].depth = 0
      BY <1>1, <1>2, RootIsPartition DEF PlansPromotion, r
    <3> QED BY <2>2, <3>1, <1>3, TopType
  <2>3. CASE y # r
    <3>1. part'[y] = part[y]
      BY <2>1, <2>3, <1>1 DEF PlansPromotion, r
    <3>2. exists(y)' => exists(RangeRoot(y.hash))'
      BY <2>1, <2>3, <1>3 DEF TopologyInv, RangeInv
    <3>3. exists(y)' => y = RangeRoot(y.hash) \/ Under(RangeRoot(y.hash), y)
      BY <2>1, <2>3, <1>3 DEF TopologyInv, RangeInv
    <3> QED BY <3>1, <3>2, <3>3 DEF TopologyInv, RangeInv
  <2> QED BY <2>2, <2>3
<1>13. RootInv'
  <2> SUFFICES ASSUME NEW g \in Promotable, exists(RangeRoot(g))'
              PROVE  LET s == part'[RangeRoot(g)].source
                     IN /\ s \in HashPartitions /\ part'[s].phase = "active" /\ OwnsHash(s, g)
                        /\ part'[s].promo[g] # "none"
                        /\ part'[s].promo[g] = "planned" => part'[RangeRoot(g)].phase = "awaiting_data"
    BY DEF RootInv, RangeRoot, OwnsHash
  <2> DEFINE y == RangeRoot(g)
             s == part[y].source
  <2>1. CASE g = h
    BY <2>1, <1>1 DEF PlansPromotion
  <2>2. CASE g # h
    <3>1. y \in Partitions /\ y # r /\ y # p /\ exists(y) /\ g \in Hashes
      BY <2>2, <1>2, <1>3, RootIsPartition, HashesAssumption
    <3>2. part'[y] = part[y]
      BY <3>1, <1>1 DEF PlansPromotion, r
    <3>3. /\ s \in HashPartitions /\ part[s].phase = "active" /\ OwnsHash(s, g) /\ part[s].promo[g] # "none"
          /\ part[s].promo[g] = "planned" => part[y].phase = "awaiting_data"
      BY <3>1 DEF TopologyInv, RootInv
    <3>4. s \in Partitions /\ s # r
      BY <3>3, <1>2, HashType DEF Partitions
    <3>5. part'[s].phase = "active" /\ part'[s].promo[g] = part[s].promo[g]
      <4>1. CASE s = p
        BY <4>1, <2>2, <3>1, <1>1 DEF PlansPromotion
      <4>2. CASE s # p
        BY <4>2, <3>3, <3>4, <1>1 DEF PlansPromotion, r
      <4> QED BY <4>1, <4>2
    <3> QED BY <3>2, <3>3, <3>5
  <2> QED BY <2>1, <2>2
<1>14. InheritInv'
  <2> SUFFICES ASSUME NEW x \in HashPartitions, NEW y \in HashPartitions, NEW g \in Hashes,
                      exists(x)', exists(y)', Under(x, y), part'[x].promo[g] = "completed"
              PROVE  part'[y].promo[g] = "completed"
    BY DEF InheritInv, Under
  <2>0. x \in Partitions /\ y \in Partitions /\ x # r /\ y # r
    BY <1>2, HashType DEF Partitions
  <2>1. exists(x) /\ exists(y) /\ part[x].promo[g] = "completed"
    BY <2>0, <1>1, <1>3 DEF PlansPromotion, r
  <2>2. part[y].promo[g] = "completed"
    BY <2>1 DEF TopologyInv, InheritInv
  <2> QED BY <2>0, <2>2, <1>1 DEF PlansPromotion, r
<1> QED BY <1>5, <1>6, <1>7, <1>8, <1>9, <1>10, <1>11, <1>12, <1>13, <1>14 DEF TopologyInv

\* A split cuts over.
CutsOverSplit(p) ==
  /\ part[p].split = "planned"
  /\ part'[p].split = "cut_over" /\ part'[p].phase = part[p].phase /\ part'[p].source = part[p].source
  /\ part'[p].kids = part[p].kids /\ part'[p].promo = part[p].promo /\ part'[p].depth = part[p].depth
  /\ \A q \in Partitions : q # p => part'[q] = part[q]
\* A promotion cuts over.
CutsOverPromotion(p, h) ==
  /\ part[p].phase = "active" /\ part[p].split = "none" /\ part[p].promo[h] = "planned"
  /\ part'[p].split = "none" /\ part'[p].phase = "active" /\ part'[p].source = part[p].source
  /\ part'[p].kids = part[p].kids /\ part'[p].depth = part[p].depth
  /\ part'[p].promo[h] = "cut_over" /\ \A g \in Hashes : g # h => part'[p].promo[g] = part[p].promo[g]
  /\ \A q \in Partitions : q # p => part'[q] = part[q]

\* What a cutover changes, partition by partition.
LEMMA CutOverStep ==
  ASSUME TopologyInv, CutOver
  PROVE  /\ part' \in [Partitions -> Descriptions]
         /\ \/ \E p \in Partitions : CutsOverSplit(p)
            \/ \E p \in HashPartitions, h \in Promotable : CutsOverPromotion(p, h)
<1>1. part \in [Partitions -> Descriptions]
  BY DEF TopologyInv, PartType
<1>2. ASSUME NEW p \in Partitions, part[p].split = "planned", part' = [part EXCEPT ![p].split = "cut_over"]
      PROVE  part' \in [Partitions -> Descriptions] /\ CutsOverSplit(p)
  <2>1. part[p] \in Descriptions
    BY <1>1
  <2>2. part' = [part EXCEPT ![p] = [part[p] EXCEPT !.split = "cut_over"]]
    BY <1>1, <1>2
  <2>3. [part[p] EXCEPT !.split = "cut_over"] \in Descriptions
    BY <2>1 DEF Descriptions, Stages
  <2>4. part' \in [Partitions -> Descriptions]
    BY <1>1, <2>2, <2>3
  <2>5. part'[p] = [part[p] EXCEPT !.split = "cut_over"] /\ \A q \in Partitions : q # p => part'[q] = part[q]
    BY <1>1, <2>2
  <2> QED BY <1>2, <2>1, <2>4, <2>5 DEF CutsOverSplit, Descriptions
<1>3. ASSUME NEW p \in HashPartitions, NEW h \in Hashes, part[p].phase = "active", part[p].promo[h] = "planned",
             part' = [part EXCEPT ![p].promo[h] = "cut_over"]
      PROVE  part' \in [Partitions -> Descriptions] /\ h \in Promotable /\ CutsOverPromotion(p, h)
  <2>0. p \in Partitions
    BY DEF Partitions
  <2>1. part[p] \in Descriptions /\ part[p].promo \in [Hashes -> Stages]
    BY <1>1, <2>0 DEF Descriptions
  <2> DEFINE f == [part[p].promo EXCEPT ![h] = "cut_over"]
  <2>2. part' = [part EXCEPT ![p] = [part[p] EXCEPT !.promo = f]]
    BY <1>1, <1>3, <2>0
  <2>3. f \in [Hashes -> Stages] /\ f[h] = "cut_over" /\ \A g \in Hashes : g # h => f[g] = part[p].promo[g]
    BY <2>1 DEF Stages
  <2> HIDE DEF f
  <2>4. [part[p] EXCEPT !.promo = f] \in Descriptions
    BY <2>1, <2>3 DEF Descriptions
  <2>5. part' \in [Partitions -> Descriptions]
    BY <1>1, <2>2, <2>4
  <2>6. part'[p] = [part[p] EXCEPT !.promo = f] /\ \A q \in Partitions : q # p => part'[q] = part[q]
    BY <1>1, <2>0, <2>2
  <2>7. /\ part'[p].split = part[p].split /\ part'[p].phase = part[p].phase /\ part'[p].source = part[p].source
        /\ part'[p].kids = part[p].kids /\ part'[p].depth = part[p].depth /\ part'[p].promo = f
    BY <2>1, <2>6 DEF Descriptions
  <2>8. h \in Promotable
    BY <1>3, <2>0 DEF TopologyInv, PromoInv
  <2>9. part[p].split = "none"
    <3> SUFFICES ASSUME part[p].split # "none" PROVE FALSE
      OBVIOUS
    <3>1. \A g \in Hashes : part[p].promo[g] \in {"none", "completed"}
      BY <2>0, Splitting
    <3> QED BY <3>1, <1>3
  <2> QED BY <1>3, <2>3, <2>5, <2>6, <2>7, <2>8, <2>9 DEF CutsOverPromotion
<1>4. CASE \E p \in Partitions : part[p].split = "planned" /\ part' = [part EXCEPT ![p].split = "cut_over"]
  BY <1>2, <1>4
<1>5. CASE \E p \in HashPartitions, h \in Hashes :
             part[p].phase = "active" /\ part[p].promo[h] = "planned" /\ part' = [part EXCEPT ![p].promo[h] = "cut_over"]
  <2>1. PICK p \in HashPartitions, h \in Hashes :
          part[p].phase = "active" /\ part[p].promo[h] = "planned" /\ part' = [part EXCEPT ![p].promo[h] = "cut_over"]
    BY <1>5
  <2>2. part' \in [Partitions -> Descriptions] /\ h \in Promotable /\ CutsOverPromotion(p, h)
    BY <2>1, <1>3
  <2> QED BY <2>2
<1>6. Promotable \subseteq Hashes
  BY HashesAssumption
<1> QED BY <1>4, <1>5, <1>6 DEF CutOver

\* A cutover keeps the topology sound.
LEMMA CutOverTopology ==
  ASSUME TopologyInv, CutOver
  PROVE  TopologyInv'
<1>0. part' \in [Partitions -> Descriptions] /\ PartType'
  BY CutOverStep DEF PartType
<1>1. ASSUME NEW p \in Partitions, CutsOverSplit(p) PROVE TopologyInv'
  <2>1. \A q \in Partitions :
          /\ part'[q].phase = part[q].phase /\ part'[q].source = part[q].source /\ part'[q].kids = part[q].kids
          /\ part'[q].promo = part[q].promo /\ part'[q].depth = part[q].depth
          /\ part'[q].split # "none" <=> part[q].split # "none"
          /\ part'[q].split = "planned" => part[q].split = "planned"
    BY <1>1 DEF CutsOverSplit
  <2>2. NestedInv' /\ CoveredInv' /\ SourceInv' /\ HashRootInv' /\ PromoInv' /\ RangeInv'
    BY <1>0, <2>1, ShapeKept DEF exists
  <2>3. \A q \in Partitions : \A c \in part[q].kids : c \in Partitions
    BY DEF TopologyInv, PartType, Descriptions
  <2>4. SplitInv'
    BY <2>1, <2>3, SplitKept DEF exists, isImporting
  <2>5. RootInv'
    <3>1. \A h \in Promotable : exists(RangeRoot(h)) => RangeRoot(h) \in Partitions /\ part[RangeRoot(h)].source \in Partitions
      BY RootIsPartition DEF TopologyInv, RootInv, Partitions
    <3> QED BY <2>1, <3>1, RootKept DEF exists
  <2>6. InheritInv'
    <3>1. \A q \in HashPartitions : q \in Partitions
      BY DEF Partitions
    <3> QED BY <2>1, <3>1 DEF TopologyInv, InheritInv, exists
  <2> QED BY <1>0, <2>2, <2>4, <2>5, <2>6 DEF TopologyInv
<1>2. ASSUME NEW p \in HashPartitions, NEW h \in Promotable, CutsOverPromotion(p, h) PROVE TopologyInv'
  <2>0. p \in Partitions /\ h \in Hashes
    BY HashesAssumption DEF Partitions
  <2>1. /\ \A q \in Partitions :
             /\ part'[q].phase = part[q].phase /\ part'[q].source = part[q].source /\ part'[q].kids = part[q].kids
             /\ part'[q].split = part[q].split /\ part'[q].depth = part[q].depth
             /\ \A g \in Hashes : q # p \/ g # h => part'[q].promo[g] = part[q].promo[g]
        /\ part[p].promo[h] = "planned" /\ part'[p].promo[h] = "cut_over"
    BY <1>2 DEF CutsOverPromotion
  <2>2. \A q \in Partitions : \A g \in Hashes :
          (part'[q].promo[g] # "none" <=> part[q].promo[g] # "none") /\ (part'[q].promo[g] = "planned" => part[q].promo[g] = "planned")
    BY <2>1
  <2>3. NestedInv' /\ CoveredInv' /\ SourceInv' /\ HashRootInv' /\ PromoInv' /\ RangeInv'
    BY <1>0, <2>1, <2>2, ShapeKept DEF exists
  <2>4. \A q \in Partitions : \A c \in part[q].kids : c \in Partitions
    BY DEF TopologyInv, PartType, Descriptions
  <2>5. \A q \in Partitions : part[q].split # "none" \/ isImporting(q)' => part'[q].promo = part[q].promo
    BY <1>2 DEF CutsOverPromotion, isImporting
  <2>6. SplitInv'
    BY <2>1, <2>4, <2>5, SplitKept DEF exists, isImporting
  <2>7. RootInv'
    <3>1. \A g \in Promotable : exists(RangeRoot(g)) =>
            RangeRoot(g) \in Partitions /\ part[RangeRoot(g)].source \in Partitions /\ g \in Hashes
      BY RootIsPartition, HashesAssumption DEF TopologyInv, RootInv, Partitions
    <3> QED BY <2>1, <2>2, <3>1, RootKept DEF exists
  <2>8. InheritInv'
    <3> SUFFICES ASSUME NEW x \in HashPartitions, NEW y \in HashPartitions, NEW g \in Hashes,
                        exists(x)', exists(y)', Under(x, y), part'[x].promo[g] = "completed"
                PROVE  part'[y].promo[g] = "completed"
      BY DEF InheritInv, Under
    <3>1. x \in Partitions /\ y \in Partitions /\ exists(x) /\ exists(y)
      BY <2>1 DEF Partitions, exists
    <3>2. part[x].promo[g] = "completed"
      BY <2>1, <3>1
    <3>3. part[y].promo[g] = "completed"
      BY <3>1, <3>2 DEF TopologyInv, InheritInv
    <3> QED BY <2>1, <3>1, <3>3
  <2> QED BY <1>0, <2>3, <2>6, <2>7, <2>8 DEF TopologyInv
<1> QED BY <1>1, <1>2, CutOverStep

\* The first page arrives.
ReceivesPage(p) ==
  /\ part[p].phase = "awaiting_data" /\ CutOverTo(p) /\ part'[p].phase = "importing"
  /\ part'[p].split = part[p].split /\ part'[p].source = part[p].source /\ part'[p].kids = part[p].kids
  /\ part'[p].promo = part[p].promo /\ part'[p].depth = part[p].depth
  /\ \A q \in Partitions : q # p => part'[q] = part[q]

\* What the first page changes, partition by partition.
LEMMA FirstPageStep ==
  ASSUME TopologyInv, FirstPage
  PROVE  part' \in [Partitions -> Descriptions] /\ \E p \in Partitions : ReceivesPage(p)
<1>1. PICK p \in Partitions : /\ part[p].phase = "awaiting_data" /\ CutOverTo(p)
                              /\ part' = [part EXCEPT ![p].phase = "importing"]
  BY DEF FirstPage
<1>2. part \in [Partitions -> Descriptions] /\ part[p] \in Descriptions
  BY DEF TopologyInv, PartType
<1>3. part' = [part EXCEPT ![p] = [part[p] EXCEPT !.phase = "importing"]]
  BY <1>1, <1>2
<1>4. [part[p] EXCEPT !.phase = "importing"] \in Descriptions
  BY <1>2 DEF Descriptions, Phases
<1>5. part' \in [Partitions -> Descriptions]
  BY <1>2, <1>3, <1>4
<1>6. part'[p] = [part[p] EXCEPT !.phase = "importing"] /\ \A q \in Partitions : q # p => part'[q] = part[q]
  BY <1>2, <1>3
<1>7. ReceivesPage(p)
  BY <1>1, <1>2, <1>6 DEF ReceivesPage, Descriptions
<1> QED BY <1>5, <1>7

\* The first page keeps the topology sound.
LEMMA FirstPageTopology ==
  ASSUME TopologyInv, FirstPage
  PROVE  TopologyInv'
<1>1. PICK p \in Partitions : part' \in [Partitions -> Descriptions] /\ ReceivesPage(p)
  BY FirstPageStep
<1>2. PartType'
  BY <1>1 DEF PartType
<1>3. /\ \A q \in Partitions :
           /\ part'[q].split = part[q].split /\ part'[q].source = part[q].source /\ part'[q].kids = part[q].kids
           /\ part'[q].promo = part[q].promo /\ part'[q].depth = part[q].depth
           /\ q # p => part'[q].phase = part[q].phase
      /\ part[p].phase = "awaiting_data" /\ part'[p].phase = "importing" /\ CutOverTo(p)
  BY <1>1 DEF ReceivesPage
<1>4. \A q \in Partitions : /\ exists(q)' <=> exists(q)
                            /\ isImporting(q)' <=> isImporting(q)
                            /\ part[q].phase = "active" => part'[q].phase = "active"
  BY <1>3 DEF exists, isImporting
<1>5. NestedInv' /\ CoveredInv' /\ SourceInv' /\ HashRootInv' /\ PromoInv' /\ RangeInv'
  BY <1>2, <1>3, <1>4, ShapeKept
<1>6. SplitInv'
  <2>1. \A q \in Partitions : part[q].split # "none" => part'[q].phase = part[q].phase
    <3> SUFFICES ASSUME NEW q \in Partitions, part[q].split # "none" PROVE q # p
      BY <1>3
    <3> QED BY <1>3, Splitting
  <2>2. ASSUME NEW q \in Partitions, part[q].split = "planned", NEW c \in part[q].kids
        PROVE  part'[c].phase = part[c].phase
    <3>1. c \in Partitions /\ ~IsRangeRoot(c) /\ part[c].source = q
      BY <2>2, Splitting DEF TargetInv
    <3>2. c # p
      BY <3>1, <2>2, <1>3 DEF CutOverTo, routerRole
    <3> QED BY <3>1, <3>2, <1>3
  <2> QED BY <2>1, <2>2, <1>3, <1>4, SplitKept
<1>7. RootInv'
  <2> SUFFICES ASSUME NEW h \in Promotable, exists(RangeRoot(h)), part'[part[RangeRoot(h)].source].promo[h] = "planned"
              PROVE  /\ part[part[RangeRoot(h)].source].promo[h] = "planned"
                     /\ part'[RangeRoot(h)].phase = part[RangeRoot(h)].phase
    BY <1>3, <1>4, RootKept
  <2>1. RangeRoot(h) \in Partitions /\ IsRangeRoot(RangeRoot(h)) /\ RangeRoot(h).hash = h /\ part[RangeRoot(h)].source \in Partitions
    BY RootIsPartition DEF TopologyInv, RootInv, Partitions
  <2>2. part[part[RangeRoot(h)].source].promo[h] = "planned"
    BY <2>1, <1>3
  <2>3. RangeRoot(h) # p
    BY <2>1, <2>2, <1>3 DEF CutOverTo, overrideCutOver
  <2> QED BY <2>1, <2>2, <2>3, <1>3
<1>8. InheritInv'
  <2> SUFFICES ASSUME NEW x \in HashPartitions, NEW y \in HashPartitions, NEW h \in Hashes,
                      exists(x)', exists(y)', Under(x, y), part'[x].promo[h] = "completed"
              PROVE  part'[y].promo[h] = "completed"
    BY DEF InheritInv, Under
  <2>1. x \in Partitions /\ y \in Partitions
    BY DEF Partitions
  <2>2. exists(x) /\ exists(y) /\ part[x].promo[h] = "completed"
    BY <1>3, <1>4, <2>1
  <2>3. part[y].promo[h] = "completed"
    BY <2>2 DEF TopologyInv, InheritInv
  <2> QED BY <2>1, <2>3, <1>3
<1> QED BY <1>2, <1>5, <1>6, <1>7, <1>8 DEF TopologyInv

\* The import ends, and with the last one the repartition at its source.
RowsType == rows \in [Partitions -> [Keys -> Nat]]
Arrives(p, s) ==
  /\ p # s /\ s = part[p].source /\ part[p].phase = "importing" /\ part[s].phase = "active"
  /\ part'[p].phase = "active" /\ part'[p].split = part[p].split /\ part'[p].source = part[p].source
  /\ part'[p].kids = part[p].kids /\ part'[p].promo = part[p].promo /\ part'[p].depth = part[p].depth
  /\ part'[s].phase = "active" /\ part'[s].source = part[s].source
  /\ part'[s].kids = part[s].kids /\ part'[s].depth = part[s].depth
  /\ \A q \in Partitions : q # p /\ q # s => part'[q] = part[q]
EndsPromotion(p, s) ==
  /\ IsRangeRoot(p) /\ part[s].promo[p.hash] \in {"cut_over", "completed"} /\ part'[s].split = part[s].split
  /\ part'[s].promo[p.hash] = "completed" /\ \A g \in Hashes : g # p.hash => part'[s].promo[g] = part[s].promo[g]
EndsSplit(p, s) ==
  /\ ~IsRangeRoot(p) /\ part'[s].promo = part[s].promo /\ p \in part[s].kids
  /\ part[s].split \in {"cut_over", "completed"} /\ part'[s].split \in {"cut_over", "completed"}
MovesRows(p, s) ==
  /\ \A k \in Keys : rows'[p][k] = IF ownsByTopology(p, k) /\ ~overrideCutOver(p, HashOf[k]) THEN rows[s][k] ELSE 0
  /\ \A k \in Keys : rows'[s][k] = IF IsRangeRoot(p) /\ rows'[p][k] > 0 THEN 0 ELSE rows[s][k]
  /\ \A q \in Partitions : q # p /\ q # s => rows'[q] = rows[q]

\* An import that is under way has a source, which has cut over.
LEMMA ImportHasSource ==
  ASSUME TopologyInv, NEW p \in Partitions, isImporting(p)
  PROVE  /\ part[p].source \in Partitions /\ part[part[p].source].phase = "active" /\ p # part[p].source /\ exists(p)
         /\ ~IsHashRoot(p) /\ part[p].split = "none"
         /\ IsRangeRoot(p) => /\ p.hash \in Promotable /\ p.hash \in Hashes /\ part[p].source \in HashPartitions
                              /\ OwnsHash(part[p].source, p.hash) /\ part[part[p].source].promo[p.hash] # "none"
                              /\ part[p].phase = "importing" => part[part[p].source].promo[p.hash] \in {"cut_over", "completed"}
         /\ ~IsRangeRoot(p) => /\ p \in part[part[p].source].kids /\ part[part[p].source].split # "none" /\ Under(part[p].source, p)
                               /\ part[p].promo = part[part[p].source].promo
                               /\ part[p].phase = "importing" => part[part[p].source].split \in {"cut_over", "completed"}
<1> DEFINE s == part[p].source
<1>1. exists(p) /\ part[p].phase # "active"
  BY DEF exists, isImporting
<1>2. ~IsHashRoot(p)
  BY <1>1 DEF TopologyInv, HashRootInv
<1>3. part[p].split = "none"
  BY <1>1, Splitting
<1>4. CASE IsRangeRoot(p)
  <2>1. p.hash \in Promotable /\ p = RangeRoot(p.hash) /\ p.hash \in Hashes
    BY <1>4, RangeRoots, HashesAssumption
  <2>2. /\ s \in HashPartitions /\ part[s].phase = "active" /\ OwnsHash(s, p.hash) /\ part[s].promo[p.hash] # "none"
        /\ part[s].promo[p.hash] = "planned" => part[p].phase = "awaiting_data"
    BY <1>1, <2>1 DEF TopologyInv, RootInv
  <2>3. s \in Partitions
    BY <2>2 DEF Partitions
  <2>4. part[s].promo[p.hash] \in Stages
    BY <2>1, <2>3 DEF TopologyInv, PartType, Descriptions
  <2>5. p # s
    BY <1>1, <2>2
  <2>6. part[p].phase = "importing" => part[s].promo[p.hash] \in {"cut_over", "completed"}
    BY <2>2, <2>4 DEF Stages
  <2> QED BY <1>1, <1>2, <1>3, <1>4, <2>1, <2>2, <2>3, <2>5, <2>6
<1>5. CASE ~IsRangeRoot(p)
  <2>1. s \in Partitions /\ p \in part[s].kids /\ part[s].split # "none"
    BY <1>1, <1>2, <1>5 DEF TopologyInv, SourceInv
  <2>2. part[s].phase = "active" /\ TargetInv(s, p)
    BY <2>1, Splitting
  <2>3. part[s].split \in Stages
    BY <2>1 DEF TopologyInv, PartType, Descriptions
  <2>4. p # s /\ Under(s, p) /\ part[p].promo = part[s].promo /\ (part[s].split = "planned" => part[p].phase = "awaiting_data")
    BY <1>1, <2>2 DEF TargetInv
  <2>5. part[p].phase = "importing" => part[s].split \in {"cut_over", "completed"}
    BY <2>1, <2>3, <2>4 DEF Stages
  <2> QED BY <1>1, <1>2, <1>3, <1>5, <2>1, <2>2, <2>4, <2>5
<1> QED BY <1>4, <1>5

\* What the end of an import changes, partition by partition.
LEMMA ImportCompletesStep ==
  ASSUME TopologyInv, RowsType, ImportCompletes
  PROVE  /\ part' \in [Partitions -> Descriptions] /\ RowsType'
         /\ \E p \in Partitions, s \in Partitions :
              Arrives(p, s) /\ MovesRows(p, s) /\ (EndsPromotion(p, s) \/ EndsSplit(p, s))
<1> DEFINE arrived(p) == [part EXCEPT ![p].phase = "active"]
           moved(p, s) == [k \in Keys |-> IF ownsByTopology(p, k) /\ ~overrideCutOver(p, HashOf[k]) THEN rows[s][k] ELSE 0]
           reclaimed(p, s) == [k \in Keys |-> IF moved(p, s)[k] > 0 THEN 0 ELSE rows[s][k]]
<1>1. PICK p \in Partitions :
        /\ part[p].phase = "importing"
        /\ part' = IF IsRangeRoot(p) THEN [arrived(p) EXCEPT ![part[p].source].promo[p.hash] = "completed"]
                   ELSE IF \A q \in part[part[p].source].kids : arrived(p)[q].phase = "active"
                        THEN [arrived(p) EXCEPT ![part[p].source].split = "completed"]
                   ELSE arrived(p)
        /\ rows' = [rows EXCEPT ![p] = moved(p, part[p].source),
                      ![part[p].source] = IF IsRangeRoot(p) THEN [k \in Keys |-> IF moved(p, part[p].source)[k] > 0 THEN 0 ELSE @[k]] ELSE @]
  BY DEF ImportCompletes
<1> DEFINE s == part[p].source
<1>2. /\ s \in Partitions /\ part[s].phase = "active" /\ p # s
      /\ IsRangeRoot(p) => p.hash \in Hashes /\ part[s].promo[p.hash] \in {"cut_over", "completed"}
      /\ ~IsRangeRoot(p) => p \in part[s].kids /\ part[s].split \in {"cut_over", "completed"}
  BY <1>1, ImportHasSource DEF isImporting
<1>3. part \in [Partitions -> Descriptions] /\ part[p] \in Descriptions /\ part[s] \in Descriptions
  BY <1>2 DEF TopologyInv, PartType
<1> HIDE DEF s
<1>4. s = part[p].source
  BY DEF s
<1> DEFINE active == [part[p] EXCEPT !.phase = "active"]
<1>5. active \in Descriptions
  BY <1>3 DEF Descriptions, Phases
<1>6. /\ active.phase = "active" /\ active.split = part[p].split /\ active.source = part[p].source
      /\ active.kids = part[p].kids /\ active.promo = part[p].promo /\ active.depth = part[p].depth
  BY <1>3 DEF Descriptions
<1> HIDE DEF active
<1>7. /\ arrived(p) \in [Partitions -> Descriptions] /\ arrived(p)[p] = active
      /\ \A q \in Partitions : q # p => arrived(p)[q] = part[q]
  <2>1. arrived(p) = [part EXCEPT ![p] = active]
    BY <1>3 DEF active
  <2> QED BY <2>1, <1>3, <1>5
<1> HIDE DEF arrived
<1>8. MovesRows(p, s) /\ RowsType'
  <2>1. rows[s] \in [Keys -> Nat] /\ rows[p] \in [Keys -> Nat]
    BY <1>2 DEF RowsType
  <2>2. moved(p, s) \in [Keys -> Nat]
    BY <2>1
  <2>3. rows' = [rows EXCEPT ![p] = moved(p, s), ![s] = IF IsRangeRoot(p) THEN reclaimed(p, s) ELSE rows[s]]
    BY <1>1, <1>2, <1>4 DEF RowsType
  <2>4. reclaimed(p, s) \in [Keys -> Nat]
    BY <2>1, <2>2
  <2>5. \A k \in Keys : moved(p, s)[k] = IF ownsByTopology(p, k) /\ ~overrideCutOver(p, HashOf[k]) THEN rows[s][k] ELSE 0
    OBVIOUS
  <2>6. \A k \in Keys : reclaimed(p, s)[k] = IF moved(p, s)[k] > 0 THEN 0 ELSE rows[s][k]
    OBVIOUS
  <2> HIDE DEF moved, reclaimed
  <2>7. RowsType' /\ rows'[p] = moved(p, s) /\ rows'[s] = (IF IsRangeRoot(p) THEN reclaimed(p, s) ELSE rows[s])
        /\ \A q \in Partitions : q # p /\ q # s => rows'[q] = rows[q]
    BY <2>1, <2>2, <2>3, <2>4, <1>2 DEF RowsType
  <2> QED BY <2>5, <2>6, <2>7 DEF MovesRows
<1> HIDE DEF moved, reclaimed
<1>9. CASE IsRangeRoot(p)
  <2> DEFINE f == [part[s].promo EXCEPT ![p.hash] = "completed"]
  <2>1. part[s].promo \in [Hashes -> Stages]
    BY <1>3 DEF Descriptions
  <2>2. f \in [Hashes -> Stages] /\ f[p.hash] = "completed" /\ \A g \in Hashes : g # p.hash => f[g] = part[s].promo[g]
    BY <1>2, <1>9, <2>1 DEF Stages
  <2>3. part' = [arrived(p) EXCEPT ![s] = [part[s] EXCEPT !.promo = f]]
    <3>1. part' = [arrived(p) EXCEPT ![s].promo[p.hash] = "completed"]
      BY <1>1, <1>4, <1>9
    <3> QED BY <3>1, <1>2, <1>7
  <2> HIDE DEF f
  <2>4. [part[s] EXCEPT !.promo = f] \in Descriptions
    BY <1>3, <2>2 DEF Descriptions
  <2>5. /\ part' \in [Partitions -> Descriptions] /\ part'[p] = active /\ part'[s] = [part[s] EXCEPT !.promo = f]
        /\ \A q \in Partitions : q # p /\ q # s => part'[q] = part[q]
    BY <2>3, <2>4, <1>2, <1>7
  <2>6. /\ part'[s].phase = part[s].phase /\ part'[s].split = part[s].split /\ part'[s].source = part[s].source
        /\ part'[s].kids = part[s].kids /\ part'[s].depth = part[s].depth /\ part'[s].promo = f
    BY <2>5, <1>3 DEF Descriptions
  <2>7. Arrives(p, s)
    BY <1>1, <1>2, <1>4, <1>6, <2>5, <2>6 DEF Arrives
  <2>8. EndsPromotion(p, s)
    BY <1>2, <1>9, <2>2, <2>6 DEF EndsPromotion
  <2> QED BY <1>2, <1>8, <2>5, <2>7, <2>8
<1>10. CASE ~IsRangeRoot(p) /\ \A q \in part[s].kids : arrived(p)[q].phase = "active"
  <2>1. part' = [arrived(p) EXCEPT ![s] = [part[s] EXCEPT !.split = "completed"]]
    <3>1. part' = [arrived(p) EXCEPT ![s].split = "completed"]
      BY <1>1, <1>4, <1>10
    <3> QED BY <3>1, <1>2, <1>7
  <2>2. [part[s] EXCEPT !.split = "completed"] \in Descriptions
    BY <1>3 DEF Descriptions, Stages
  <2>3. /\ part' \in [Partitions -> Descriptions] /\ part'[p] = active /\ part'[s] = [part[s] EXCEPT !.split = "completed"]
        /\ \A q \in Partitions : q # p /\ q # s => part'[q] = part[q]
    BY <2>1, <2>2, <1>2, <1>7
  <2>4. /\ part'[s].phase = part[s].phase /\ part'[s].split = "completed" /\ part'[s].source = part[s].source
        /\ part'[s].kids = part[s].kids /\ part'[s].depth = part[s].depth /\ part'[s].promo = part[s].promo
    BY <2>3, <1>3 DEF Descriptions
  <2>5. Arrives(p, s)
    BY <1>1, <1>2, <1>4, <1>6, <2>3, <2>4 DEF Arrives
  <2>6. EndsSplit(p, s)
    BY <1>2, <1>10, <2>4 DEF EndsSplit
  <2> QED BY <1>2, <1>8, <2>3, <2>5, <2>6
<1>11. CASE ~IsRangeRoot(p) /\ ~\A q \in part[s].kids : arrived(p)[q].phase = "active"
  <2>1. part' = arrived(p)
    BY <1>1, <1>4, <1>11
  <2>2. Arrives(p, s)
    BY <1>1, <1>2, <1>4, <1>6, <1>7, <2>1 DEF Arrives
  <2>3. EndsSplit(p, s)
    BY <1>2, <1>7, <1>11, <2>1 DEF EndsSplit
  <2> QED BY <1>2, <1>7, <1>8, <2>1, <2>2, <2>3
<1> QED BY <1>9, <1>10, <1>11

\* The end of an import keeps the topology sound.
LEMMA ImportCompletesTopology ==
  ASSUME TopologyInv, RowsType, ImportCompletes
  PROVE  TopologyInv'
<1>1. PICK p \in Partitions, s \in Partitions :
        /\ part' \in [Partitions -> Descriptions]
        /\ Arrives(p, s) /\ (EndsPromotion(p, s) \/ EndsSplit(p, s))
  BY ImportCompletesStep
<1>2. PartType'
  BY <1>1 DEF PartType
<1>3. /\ p # s /\ part[p].phase = "importing" /\ part[s].phase = "active" /\ s = part[p].source
      /\ \A q \in Partitions : /\ part'[q].source = part[q].source /\ part'[q].kids = part[q].kids /\ part'[q].depth = part[q].depth
                               /\ q # p => part'[q].phase = part[q].phase
                               /\ q # s => part'[q].promo = part[q].promo /\ part'[q].split = part[q].split
      /\ part'[p].phase = "active"
  BY <1>1 DEF Arrives
<1>4. \A q \in Partitions : /\ exists(q)' <=> exists(q)
                            /\ isImporting(q)' => isImporting(q) /\ q # s
                            /\ part[q].phase = "active" => part'[q].phase = "active"
  BY <1>3 DEF exists, isImporting
<1>5. isImporting(p)
  BY <1>3 DEF isImporting
<1>6. /\ part'[s].split # "none" <=> part[s].split # "none"
      /\ part'[s].split = "planned" => part[s].split = "planned" /\ IsRangeRoot(p)
      /\ \A h \in Hashes : part'[s].promo[h] # "none" <=> part[s].promo[h] # "none"
      /\ part[s].split # "none" => part'[s].promo = part[s].promo
      /\ \A h \in Hashes : part'[s].promo[h] = "planned" => part[s].promo[h] = "planned"
      /\ \A h \in Hashes : part'[s].promo[h] # part[s].promo[h] => IsRangeRoot(p) /\ h = p.hash /\ part[s].promo[h] = "cut_over"
  <2>1. CASE EndsPromotion(p, s)
    <3>1. /\ IsRangeRoot(p) /\ part[s].promo[p.hash] \in {"cut_over", "completed"} /\ part'[s].split = part[s].split
          /\ part'[s].promo[p.hash] = "completed" /\ \A g \in Hashes : g # p.hash => part'[s].promo[g] = part[s].promo[g]
      BY <2>1 DEF EndsPromotion
    <3>2. part[s].promo \in [Hashes -> Stages] /\ part'[s].promo \in [Hashes -> Stages]
      BY <1>1 DEF TopologyInv, PartType, Descriptions
    <3>3. p.hash \in Hashes
      BY <3>1, RangeRoots, HashesAssumption
    <3>4. ASSUME part[s].split # "none" PROVE part'[s].promo = part[s].promo
      <4>1. \A g \in Hashes : part[s].promo[g] \in {"none", "completed"}
        BY <3>4, Splitting
      <4>2. \A g \in Hashes : part'[s].promo[g] = part[s].promo[g]
        BY <3>1, <3>3, <4>1
      <4> QED BY <3>2, <4>2
    <3> QED BY <3>1, <3>4
  <2>2. CASE EndsSplit(p, s)
    BY <2>2 DEF EndsSplit
  <2> QED BY <2>1, <2>2, <1>1
<1>7. \A q \in Partitions : /\ part'[q].split # "none" <=> part[q].split # "none"
                            /\ \A h \in Hashes : part'[q].promo[h] # "none" <=> part[q].promo[h] # "none"
  BY <1>3, <1>6
<1>8. NestedInv' /\ CoveredInv' /\ SourceInv' /\ HashRootInv' /\ PromoInv' /\ RangeInv'
  BY <1>2, <1>3, <1>4, <1>7, ShapeKept
<1>9. SplitInv'
  <2>1. \A q \in Partitions : part[q].split # "none" => part'[q].phase = part[q].phase /\ part'[q].promo = part[q].promo
    <3> SUFFICES ASSUME NEW q \in Partitions, part[q].split # "none"
                PROVE  part'[q].phase = part[q].phase /\ part'[q].promo = part[q].promo
      OBVIOUS
    <3>1. q # p
      BY <1>3, Splitting
    <3> QED BY <3>1, <1>3, <1>6
  <2>2. ASSUME NEW q \in Partitions, part'[q].split = "planned", NEW c \in part[q].kids
        PROVE  part[q].split = "planned" /\ part'[c].phase = part[c].phase
    <3>1. part[q].split = "planned"
      BY <2>2, <1>3, <1>6
    <3>2. c \in Partitions /\ part[c].phase = "awaiting_data"
      <4>1. c \in Partitions /\ TargetInv(q, c)
        BY <3>1, Splitting
      <4> QED BY <3>1, <4>1 DEF TargetInv
    <3>3. c # p
      BY <3>2, <1>3
    <3> QED BY <3>1, <3>2, <3>3, <1>3
  <2>3. \A q \in Partitions : part'[q].split = "planned" => part[q].split = "planned"
    BY <1>3, <1>6
  <2>4. \A q \in Partitions : part'[q].split = "planned" => \A c \in part[q].kids : part'[c].phase = part[c].phase
    BY <2>2
  <2>5. \A q \in Partitions : isImporting(q)' => isImporting(q) /\ part'[q].promo = part[q].promo
    BY <1>3, <1>4
  <2> QED BY <2>1, <2>3, <2>4, <2>5, <1>3, <1>4, <1>7, SplitKept
<1>10. RootInv'
  <2> SUFFICES ASSUME NEW h \in Promotable, exists(RangeRoot(h)), part'[part[RangeRoot(h)].source].promo[h] = "planned"
              PROVE  /\ part[part[RangeRoot(h)].source].promo[h] = "planned"
                     /\ part'[RangeRoot(h)].phase = part[RangeRoot(h)].phase
    BY <1>3, <1>4, <1>7, RootKept
  <2> DEFINE r == RangeRoot(h)
             t == part[r].source
  <2>1. r \in Partitions /\ IsRangeRoot(r) /\ r.hash = h /\ t \in Partitions /\ h \in Hashes
    BY RootIsPartition, HashesAssumption DEF TopologyInv, RootInv, Partitions
  <2>2. part[t].promo[h] = "planned"
    BY <2>1, <1>3, <1>6
  <2>3. part[r].phase = "awaiting_data"
    BY <2>2 DEF TopologyInv, RootInv
  <2>4. r # p
    BY <2>3, <1>3
  <2> QED BY <2>1, <2>2, <2>4, <1>3
<1>11. InheritInv'
  <2> SUFFICES ASSUME NEW x \in HashPartitions, NEW y \in HashPartitions, NEW h \in Hashes,
                      exists(x)', exists(y)', Under(x, y), part'[x].promo[h] = "completed"
              PROVE  part'[y].promo[h] = "completed"
    BY DEF InheritInv, Under
  <2>1. x \in Partitions /\ y \in Partitions
    BY DEF Partitions
  <2>2. exists(x) /\ exists(y)
    BY <1>4, <2>1
  <2>3. part[x].split # "none"
    BY <2>1, <2>2 DEF TopologyInv, CoveredInv
  <2>4. part[x].promo[h] = "completed"
    BY <2>1, <2>3, <1>3, <1>6
  <2>5. part[y].promo[h] = "completed"
    BY <2>2, <2>4 DEF TopologyInv, InheritInv
  <2> QED BY <2>1, <2>5, <1>3, <1>6
<1> QED BY <1>2, <1>8, <1>9, <1>10, <1>11 DEF TopologyInv

----------------------------------------------------------------------------
(* The topology at first. *)

\* A prefix is what is cut off.
LEMMA PrefixCut ==
  ASSUME NEW s \in Seq(Nat), NEW t \in Seq(Nat), IsPrefix(s, t)
  PROVE  /\ \A n \in 1 .. Len(s) : SubSeq(s, 1, n) = SubSeq(t, 1, n)
         /\ SubSeq(t, 1, Len(s)) = s
<1>1. /\ Len(s) \in Nat /\ Len(t) \in Nat /\ (\A i \in 1 .. Len(s) : s[i] \in Nat) /\ (\A i \in 1 .. Len(t) : t[i] \in Nat)
      /\ Len(s) <= Len(t) /\ \A i \in 1 .. Len(s) : s[i] = t[i]
  BY LenProperties, ElementOfSeq, PrefixPointwise
<1>2. ASSUME NEW n \in 1 .. Len(s) PROVE SubSeq(s, 1, n) = SubSeq(t, 1, n)
  <2>1. SubSeq(s, 1, n) \in Seq(Nat) /\ Len(SubSeq(s, 1, n)) = n /\ \A i \in 1 .. n : SubSeq(s, 1, n)[i] = s[i]
    BY <1>1
  <2>2. SubSeq(t, 1, n) \in Seq(Nat) /\ Len(SubSeq(t, 1, n)) = n /\ \A i \in 1 .. n : SubSeq(t, 1, n)[i] = t[i]
    BY <1>1
  <2>3. \A i \in 1 .. n : SubSeq(s, 1, n)[i] = SubSeq(t, 1, n)[i]
    BY <2>1, <2>2, <1>1
  <2> QED BY <2>1, <2>2, <2>3, SeqEqual
<1>3. SubSeq(t, 1, Len(s)) = s
  <2>1. SubSeq(t, 1, Len(s)) \in Seq(Nat) /\ Len(SubSeq(t, 1, Len(s))) = Len(s)
        /\ \A i \in 1 .. Len(s) : SubSeq(t, 1, Len(s))[i] = t[i]
    BY <1>1
  <2>2. \A i \in 1 .. Len(s) : SubSeq(t, 1, Len(s))[i] = s[i]
    BY <2>1, <1>1
  <2> QED BY <2>1, <2>2, SeqEqual
<1> QED BY <1>2, <1>3

\* The parent of a hash partition.
LEMMA ParentIsPrefix ==
  ASSUME NEW x \in HashPartitions, NEW c \in HashPartitions
  PROVE  Len(c.path) > 1 /\ Front(c.path) = x.path <=> Len(c.path) = Len(x.path) + 1 /\ IsPrefix(x.path, c.path)
<1>1. /\ x.path \in Seq(Nat) /\ c.path \in Seq(Nat) /\ Len(x.path) \in Nat \ {0} /\ Len(c.path) \in Nat \ {0}
  BY HashType
<1>2. ASSUME Len(c.path) > 1, Front(c.path) = x.path PROVE Len(c.path) = Len(x.path) + 1 /\ IsPrefix(x.path, c.path)
  <2> DEFINE n == Len(c.path) - 1
  <2>1. n \in 1 .. Len(c.path)
    BY <1>1, <1>2
  <2>2. x.path = SubSeq(c.path, 1, n)
    BY <1>2 DEF Front
  <2>3. Len(x.path) = n /\ \A i \in 1 .. n : x.path[i] = c.path[i]
    BY <2>1, <2>2, PrefixPartition
  <2>4. Len(c.path) = Len(x.path) + 1 /\ Len(x.path) <= Len(c.path)
    BY <1>1, <2>3
  <2>5. \A i \in 1 .. Len(x.path) : x.path[i] = c.path[i]
    BY <2>3
  <2> QED BY <1>1, <2>4, <2>5, PrefixPointwise
<1>3. ASSUME Len(c.path) = Len(x.path) + 1, IsPrefix(x.path, c.path) PROVE Len(c.path) > 1 /\ Front(c.path) = x.path
  <2>1. SubSeq(c.path, 1, Len(x.path)) = x.path
    BY <1>1, <1>3, PrefixCut
  <2>2. Len(c.path) - 1 = Len(x.path)
    BY <1>1, <1>3
  <2> QED BY <1>1, <1>3, <2>1, <2>2 DEF Front
<1> QED BY <1>2, <1>3

\* The level above, and the level below, of a path.
LEMMA Levels ==
  ASSUME NEW m \in Nat \ {0}, NEW n \in Nat \ {0}
  PROVE  /\ n # 1 => n - 1 \in 1 .. n /\ n - 1 \in 1 .. n - 1 /\ n - 1 < n /\ n = (n - 1) + 1 /\ n - 1 \in Nat \ {0}
         /\ m <= n /\ m # n => m + 1 \in 1 .. n /\ m + 1 <= n /\ m \in 1 .. n - 1 /\ m < n
         /\ n = m + 1 => n - 1 = m /\ m <= n
OBVIOUS

\* What InitTopology says of one partition.
StartExists(top, p) ==
  CASE p.kind = "hash" -> \A n \in 1 .. Len(p.path) - 1 : SubSeq(p.path, 1, n) \in top.splits
    [] p.kind = "range" -> IsRangeRoot(p) /\ p.hash \in top.promoted
StartLeaf(top, p) == p.kind = "hash" /\ StartExists(top, p) /\ p.path \notin top.splits
StartPromoter(top, p, h) == StartLeaf(top, p) /\ OwnsHash(p, h) /\ h \in top.promoted
StartSource(top, p) == IF p.kind = "hash" THEN Hash(Front(p.path)) ELSE CHOOSE q \in HashPartitions : StartPromoter(top, q, p.hash)
StartPart(top, p) ==
  /\ part[p].phase = "active" /\ part[p].source = StartSource(top, p) /\ part[p].depth = 0
  /\ part[p].split = IF p.kind = "range" \/ StartLeaf(top, p) THEN "none" ELSE "completed"
  /\ part[p].kids = IF p.kind = "range" \/ StartLeaf(top, p) THEN {} ELSE {c \in HashPartitions : Len(c.path) > 1 /\ Front(c.path) = p.path}
  /\ part[p].promo = [h \in Hashes |-> IF StartPromoter(top, p, h) THEN "completed" ELSE "none"]

\* A hash that is promoted at first has one partition that promoted it, the last of its path.
LEMMA PromoterExists ==
  ASSUME NEW top \in InitialTopologies, NEW h \in top.promoted
  PROVE  \E q \in HashPartitions : StartPromoter(top, q, h)
<1>1. h \in Hashes
  BY TopologiesAssumption, HashesAssumption
<1>2. PICK n \in 1 .. Len(Digits[h]) :
        SubSeq(Digits[h], 1, n) \notin top.splits /\ \A m \in 1 .. n - 1 : SubSeq(Digits[h], 1, m) \in top.splits
  BY TopologiesAssumption
<1> DEFINE q == Hash(PathOf(h, n))
<1>3. /\ q \in HashPartitions /\ q.path = PathOf(h, n) /\ q.kind = "hash" /\ IsPrefix(q.path, Digits[h])
      /\ q.path \in Seq(Nat) /\ Len(q.path) = n /\ Digits[h] \in Seq(Nat) /\ n \in Nat
  BY <1>1, PathPartition, PathType
<1> HIDE DEF q
<1>4. q.path = SubSeq(Digits[h], 1, n)
  BY <1>3 DEF PathOf
<1>5. ASSUME NEW m \in 1 .. Len(q.path) - 1 PROVE SubSeq(q.path, 1, m) \in top.splits
  <2>1. m \in 1 .. Len(q.path) /\ m \in 1 .. n - 1
    BY <1>3
  <2>2. SubSeq(q.path, 1, m) = SubSeq(Digits[h], 1, m)
    BY <1>3, <2>1, PrefixCut
  <2> QED BY <1>2, <2>1, <2>2
<1>6. StartExists(top, q)
  BY <1>3, <1>5 DEF StartExists
<1>7. StartPromoter(top, q, h)
  BY <1>2, <1>3, <1>4, <1>6 DEF StartPromoter, StartLeaf, OwnsHash
<1> QED BY <1>3, <1>7

\* The sources of the initial partitions are partitions, or none for a hash root.
LEMMA StartSourceType ==
  ASSUME NEW top \in InitialTopologies, NEW p \in Partitions, StartExists(top, p)
  PROVE  /\ StartSource(top, p) \in Partitions \cup {Hash(<<>>)}
         /\ p.kind = "range" => StartSource(top, p) \in HashPartitions /\ StartPromoter(top, StartSource(top, p), p.hash)
<1>1. CASE p.kind = "hash"
  <2>1. p \in HashPartitions /\ p.path \in Seq(Nat) /\ Len(p.path) \in Nat \ {0}
    BY <1>1, HashPaths
  <2>2. CASE Len(p.path) = 1
    <3>1. SubSeq(p.path, 1, 0) = <<>>
      BY <2>1
    <3>2. Front(p.path) = <<>>
      BY <2>2, <3>1 DEF Front
    <3> QED BY <1>1, <3>2 DEF StartSource
  <2>3. CASE Len(p.path) # 1
    <3>1. Len(p.path) - 1 \in 1 .. Len(p.path)
      BY <2>1, <2>3, Levels
    <3>2. Hash(SubSeq(p.path, 1, Len(p.path) - 1)) \in HashPartitions
      BY <2>1, <3>1, PrefixPartition
    <3> QED BY <1>1, <3>2 DEF StartSource, Front, Partitions
  <2> QED BY <1>1, <2>2, <2>3
<1>2. CASE p.kind = "range"
  <2>1. p.hash \in top.promoted
    BY <1>2 DEF StartExists
  <2>2. \E q \in HashPartitions : StartPromoter(top, q, p.hash)
    BY <2>1, PromoterExists
  <2>3. StartSource(top, p) = CHOOSE q \in HashPartitions : StartPromoter(top, q, p.hash)
    BY <1>2 DEF StartSource
  <2> QED BY <2>2, <2>3 DEF Partitions
<1> QED BY <1>1, <1>2, PartitionKinds

\* The initial topology, partition by partition.
LEMMA InitTopologyStep ==
  ASSUME InitTopology
  PROVE  \E top \in InitialTopologies :
           /\ PartType /\ \A p \in Partitions : IF StartExists(top, p) THEN StartPart(top, p) ELSE part[p] = Absent
           /\ rows = [p \in Partitions |-> [k \in Keys |->
                IF StartExists(top, p) /\ OwnsHash(p, HashOf[k]) /\ ~StartPromoter(top, p, HashOf[k]) THEN 1 ELSE 0]]
<1>1. PICK top \in InitialTopologies :
        /\ part = [p \in Partitions |->
            IF ~StartExists(top, p) THEN Absent
            ELSE [phase |-> "active", source |-> StartSource(top, p), depth |-> 0,
                  split |-> IF p.kind = "range" \/ StartLeaf(top, p) THEN "none" ELSE "completed",
                  kids |-> IF p.kind = "range" \/ StartLeaf(top, p) THEN {} ELSE {c \in HashPartitions : Len(c.path) > 1 /\ Front(c.path) = p.path},
                  promo |-> [h \in Hashes |-> IF StartPromoter(top, p, h) THEN "completed" ELSE "none"]]]
        /\ rows = [p \in Partitions |-> [k \in Keys |->
            IF StartExists(top, p) /\ OwnsHash(p, HashOf[k]) /\ ~StartPromoter(top, p, HashOf[k]) THEN 1 ELSE 0]]
  BY DEF InitTopology, StartExists, StartLeaf, StartPromoter, StartSource
<1>2. PartType
  <2>1. ASSUME NEW p \in Partitions PROVE part[p] \in Descriptions
    <3>1. CASE ~StartExists(top, p)
      BY <3>1, <1>1 DEF Absent, Descriptions, Phases, Stages
    <3>2. CASE StartExists(top, p)
      <4>1. {c \in HashPartitions : Len(c.path) > 1 /\ Front(c.path) = p.path} \in SUBSET Partitions
        BY DEF Partitions
      <4>2. [h \in Hashes |-> IF StartPromoter(top, p, h) THEN "completed" ELSE "none"] \in [Hashes -> Stages]
        BY DEF Stages
      <4>3. StartSource(top, p) \in Partitions \cup {Hash(<<>>)}
        BY <3>2, StartSourceType
      <4> QED BY <3>2, <4>1, <4>2, <4>3, <1>1 DEF Descriptions, Phases, Stages
    <3> QED BY <3>1, <3>2
  <2> QED BY <2>1, <1>1 DEF PartType
<1>3. ASSUME NEW p \in Partitions PROVE IF StartExists(top, p) THEN StartPart(top, p) ELSE part[p] = Absent
  BY <1>1 DEF StartPart
<1> QED BY <1>1, <1>2, <1>3

\* The initial topology is sound, and an owner has the rows of its keys.
LEMMA InitTopologyInv ==
  ASSUME InitTopology
  PROVE  TopologyInv
<1>1. PICK top \in InitialTopologies :
        /\ PartType /\ \A p \in Partitions : IF StartExists(top, p) THEN StartPart(top, p) ELSE part[p] = Absent
  BY InitTopologyStep
<1> DEFINE E(p) == StartExists(top, p)
           L(p) == StartLeaf(top, p)
           P(p, h) == StartPromoter(top, p, h)
<1>2. /\ top.promoted \subseteq Promotable /\ top.splits \subseteq Splittable
      /\ \A h \in top.promoted : \E n \in 1 .. Len(Digits[h]) :
           SubSeq(Digits[h], 1, n) \notin top.splits /\ \A m \in 1 .. n - 1 : SubSeq(Digits[h], 1, m) \in top.splits
  BY TopologiesAssumption
<1>3. \A p \in Partitions : exists(p) <=> E(p)
  <2> SUFFICES ASSUME NEW p \in Partitions PROVE exists(p) <=> E(p)
    OBVIOUS
  <2>1. CASE E(p)
    BY <2>1, <1>1 DEF exists, StartPart
  <2>2. CASE ~E(p)
    BY <2>2, <1>1 DEF exists, Absent
  <2> QED BY <2>1, <2>2
<1>4. \A p \in Partitions : E(p) => StartPart(top, p)
  BY <1>1
<1>5. \A p \in Partitions : ~E(p) => /\ part[p].split = "none" /\ part[p].phase = "absent" /\ part[p].depth = 0
                                     /\ \A h \in Hashes : part[p].promo[h] = "none"
  BY <1>1 DEF Absent
<1>6. \A p \in Partitions : p.kind = "hash" => (E(p) <=> \A n \in 1 .. Len(p.path) - 1 : SubSeq(p.path, 1, n) \in top.splits)
  BY DEF StartExists
<1>7. \A p \in Partitions : p.kind = "range" => (E(p) <=> IsRangeRoot(p) /\ p.hash \in top.promoted)
  BY DEF StartExists
\* A hash partition that another is below is split.
<1>8. \A x \in Partitions, y \in Partitions : x.kind = "hash" /\ Under(x, y) /\ E(y) => x.path \in top.splits /\ ~L(x)
  <2> SUFFICES ASSUME NEW x \in Partitions, NEW y \in Partitions, x.kind = "hash", Under(x, y), E(y)
              PROVE  x.path \in top.splits
    BY DEF StartLeaf
  <2>1. /\ x.path \in Seq(Nat) /\ y.path \in Seq(Nat) /\ y.kind = "hash" /\ IsPrefix(x.path, y.path) /\ x.path # y.path
        /\ Len(x.path) \in Nat \ {0} /\ Len(y.path) \in Nat \ {0}
    BY HashPaths DEF Under
  <2>2. Len(x.path) < Len(y.path)
    <3>1. Len(x.path) <= Len(y.path)
      BY <2>1, PrefixPointwise
    <3>2. SubSeq(y.path, 1, Len(x.path)) = x.path
      BY <2>1, PrefixCut
    <3>3. SubSeq(y.path, 1, Len(y.path)) = y.path
      <4>1. IsPrefix(y.path, y.path)
        BY <2>1, PrefixPointwise
      <4> QED BY <2>1, <4>1, PrefixCut
    <3>4. Len(x.path) # Len(y.path)
      <4> SUFFICES ASSUME Len(x.path) = Len(y.path) PROVE FALSE
        OBVIOUS
      <4>1. SubSeq(y.path, 1, Len(x.path)) = SubSeq(y.path, 1, Len(y.path))
        OBVIOUS
      <4> QED BY <2>1, <3>2, <3>3, <4>1
    <3> QED BY <2>1, <3>1, <3>4
  <2>3. Len(x.path) \in 1 .. Len(y.path) - 1
    BY <2>1, <2>2
  <2>4. SubSeq(y.path, 1, Len(x.path)) = x.path
    BY <2>1, PrefixCut
  <2> QED BY <2>1, <2>3, <2>4, <1>6
\* The children of one that is split are the targets of its split, and exist.
<1>9. ASSUME NEW x \in Partitions, x.kind = "hash", E(x), ~L(x)
      PROVE  /\ part[x].split = "completed" /\ part[x].kids \in SplitTargets(x)
             /\ \A c \in part[x].kids : E(c) /\ part[c].source = x /\ c \in Partitions
             /\ \A h \in Hashes : part[x].promo[h] = "none"
             /\ \A c \in HashPartitions : Len(c.path) = Len(x.path) + 1 /\ IsPrefix(x.path, c.path) => c \in part[x].kids
  <2>1. x \in HashPartitions /\ x = Hash(x.path) /\ x.path \in Seq(Nat) /\ x.path \in top.splits /\ Len(x.path) \in Nat \ {0}
    BY <1>9, HashPaths DEF StartLeaf
  <2>2. /\ part[x].split = "completed" /\ part[x].kids = {c \in HashPartitions : Len(c.path) > 1 /\ Front(c.path) = x.path}
        /\ \A h \in Hashes : part[x].promo[h] = "none"
    BY <1>4, <1>9 DEF StartPart, StartPromoter
  <2>3. part[x].kids = {c \in HashPartitions : Len(c.path) = Len(x.path) + 1 /\ IsPrefix(x.path, c.path)}
    BY <2>1, <2>2, ParentIsPrefix
  <2>4. part[x].kids \in SplitTargets(x)
    <3>1. x \in {x} \cap {Hash(s) : s \in Splittable}
      BY <2>1, <1>2
    <3> QED BY <3>1, <2>3, <1>9 DEF SplitTargets
  <2>5. ASSUME NEW c \in part[x].kids PROVE E(c) /\ part[c].source = x /\ c \in Partitions
    <3>1. /\ c \in HashPartitions /\ c \in Partitions /\ c.kind = "hash" /\ c.path \in Seq(Nat) /\ Front(c.path) = x.path
          /\ Len(c.path) = Len(x.path) + 1 /\ IsPrefix(x.path, c.path)
      BY <2>2, <2>3, HashType DEF Partitions
    <3>2. ASSUME NEW n \in 1 .. Len(c.path) - 1 PROVE SubSeq(c.path, 1, n) \in top.splits
      <4>1. n \in 1 .. Len(x.path)
        BY <3>1, <2>1
      <4>2. SubSeq(x.path, 1, n) = SubSeq(c.path, 1, n) /\ SubSeq(c.path, 1, Len(x.path)) = x.path
        BY <4>1, <3>1, <2>1, PrefixCut
      <4>3. CASE n = Len(x.path)
        BY <4>2, <4>3, <2>1
      <4>4. CASE n # Len(x.path)
        <5>1. n \in 1 .. Len(x.path) - 1
          BY <4>1, <4>4, <2>1
        <5> QED BY <5>1, <4>2, <1>6, <1>9
      <4> QED BY <4>3, <4>4
    <3>3. E(c)
      BY <3>1, <3>2, <1>6
    <3>4. part[c].source = Hash(Front(c.path))
      BY <3>1, <3>3, <1>4 DEF StartPart, StartSource
    <3> QED BY <3>1, <3>3, <3>4, <2>1
  <2> QED BY <2>2, <2>3, <2>4, <2>5
<1> HIDE DEF E, L, P
<1>10. NestedInv
  <2> SUFFICES ASSUME NEW x \in Partitions, NEW y \in Partitions, E(x), E(y), Overlap(x, y)
              PROVE  x = y \/ Under(x, y) \/ Under(y, x)
    BY <1>3 DEF NestedInv
  <2>1. CASE x.kind = "hash"
    BY <2>1, HashOverlap
  <2>2. CASE x.kind = "range"
    BY <2>2, <1>7 DEF Overlap, IsRangeRoot
  <2> QED BY <2>1, <2>2, PartitionKinds
\* Range partitions at first are roots.
<1>11. \A x \in Partitions, y \in Partitions : Under(x, y) /\ E(x) /\ E(y) => x.kind = "hash"
  BY <1>7, PartitionKinds DEF Under, IsRangeRoot
<1>12. CoveredInv
  <2> SUFFICES ASSUME NEW x \in Partitions, NEW y \in Partitions, E(x), E(y), Under(x, y)
              PROVE  part[x].split # "none" /\ \E c \in part[x].kids : c = y \/ Under(c, y)
    BY <1>3 DEF CoveredInv
  <2>1. x.kind = "hash" /\ x \in HashPartitions /\ x.path \in Seq(Nat) /\ Len(x.path) \in Nat \ {0} /\ x = Hash(x.path)
    BY <1>11, HashPaths
  <2>2. ~L(x)
    BY <2>1, <1>8
  <2>3. y \in HashPartitions /\ y.kind = "hash" /\ y.path \in Seq(Nat) /\ Len(y.path) \in Nat \ {0} /\ y = Hash(y.path)
        /\ IsPrefix(x.path, y.path) /\ x # y
    BY <2>1, HashPaths DEF Under
  <2>4. Len(x.path) <= Len(y.path) /\ \A i \in 1 .. Len(x.path) : x.path[i] = y.path[i]
    BY <2>1, <2>3, PrefixPointwise
  <2>5. Len(x.path) # Len(y.path)
    BY <2>1, <2>3, <2>4, SeqEqual
  <2> DEFINE n == Len(x.path) + 1
             c == Hash(SubSeq(y.path, 1, n))
  <2>6. n \in 1 .. Len(y.path) /\ n <= Len(y.path) /\ Len(x.path) <= n
    BY <2>1, <2>3, <2>4, <2>5, Levels
  <2>7. /\ c \in HashPartitions /\ c.path \in Seq(Nat) /\ Len(c.path) = n /\ c.kind = "hash"
        /\ \A i \in 1 .. n : c.path[i] = y.path[i]
    BY <2>3, <2>6, PrefixPartition DEF Hash
  <2> HIDE DEF c
  <2>8. IsPrefix(c.path, y.path)
    <3>1. Len(c.path) <= Len(y.path)
      BY <2>6, <2>7
    <3>2. \A i \in 1 .. Len(c.path) : c.path[i] = y.path[i]
      BY <2>7
    <3> QED BY <2>3, <2>7, <3>1, <3>2, PrefixPointwise
  <2>9. IsPrefix(x.path, c.path)
    <3>1. Len(x.path) <= Len(c.path)
      BY <2>6, <2>7
    <3>2. \A i \in 1 .. Len(x.path) : i \in 1 .. n
      BY <2>1
    <3>3. \A i \in 1 .. Len(x.path) : x.path[i] = c.path[i]
      BY <3>2, <2>4, <2>7
    <3> QED BY <2>1, <2>7, <3>1, <3>3, PrefixPointwise
  <2>10. part[x].split = "completed" /\ c \in part[x].kids
    BY <2>1, <2>2, <2>7, <2>9, <1>9
  <2> QED BY <2>3, <2>7, <2>8, <2>10 DEF Under
\* What is split at first.
<1>13. ASSUME NEW x \in Partitions, part[x].split # "none"
       PROVE  x.kind = "hash" /\ E(x) /\ ~L(x)
  <2>1. E(x)
    BY <1>13, <1>5
  <2>2. part[x].split = IF x.kind = "range" \/ StartLeaf(top, x) THEN "none" ELSE "completed"
    BY <2>1, <1>4 DEF StartPart
  <2> QED BY <2>1, <2>2, <1>13, PartitionKinds DEF L
<1>14. SplitInv
  <2> SUFFICES ASSUME NEW x \in Partitions, part[x].split # "none"
              PROVE  /\ part[x].phase = "active" /\ \A h \in Hashes : part[x].promo[h] \in {"none", "completed"}
                     /\ Tiles(part[x].kids, x) /\ \A c \in part[x].kids : TargetInv(x, c)
    BY DEF SplitInv
  <2>1. x.kind = "hash" /\ E(x) /\ ~L(x)
    BY <1>13
  <2>2. /\ part[x].split = "completed" /\ part[x].kids \in SplitTargets(x)
        /\ \A c \in part[x].kids : E(c) /\ part[c].source = x /\ c \in Partitions
        /\ \A h \in Hashes : part[x].promo[h] = "none"
    BY <2>1, <1>9
  <2>3. part[x].phase = "active" /\ \A c \in part[x].kids : part[c].phase = "active"
    BY <2>1, <2>2, <1>4 DEF StartPart
  <2>4. \A c \in part[x].kids : Under(x, c) /\ ~IsHashRoot(c) /\ ~IsRangeRoot(c)
    BY <2>2, TargetsLie
  <2>5. \A c \in part[x].kids : TargetInv(x, c)
    BY <2>2, <2>3, <2>4 DEF TargetInv, exists, isImporting
  <2> QED BY <2>2, <2>3, <2>5, TargetsTile
<1>15. SourceInv
  <2> SUFFICES ASSUME NEW c \in Partitions, E(c), ~IsHashRoot(c), ~IsRangeRoot(c)
              PROVE  part[c].source \in Partitions /\ c \in part[part[c].source].kids /\ part[part[c].source].split # "none"
    BY <1>3 DEF SourceInv
  <2>1. c.kind = "hash" /\ c \in HashPartitions /\ c.path \in Seq(Nat) /\ Len(c.path) \in Nat \ {0, 1}
    BY <1>7, PartitionKinds, HashPaths DEF IsHashRoot
  <2>a. Len(c.path) \in Nat \ {0} /\ Len(c.path) # 1
    BY <2>1
  <2> DEFINE n == Len(c.path) - 1
             x == Hash(SubSeq(c.path, 1, n))
  <2>2. /\ n \in 1 .. Len(c.path) /\ n \in 1 .. Len(c.path) - 1 /\ n <= Len(c.path) /\ Len(c.path) = n + 1
        /\ n \in Nat \ {0}
    BY <2>a, Levels
  <2>3. /\ x \in HashPartitions /\ x.path = SubSeq(c.path, 1, n) /\ x.path \in Seq(Nat) /\ Len(x.path) = n /\ x.kind = "hash"
        /\ \A i \in 1 .. n : x.path[i] = c.path[i]
    BY <2>1, <2>2, PrefixPartition DEF Hash
  <2>4. part[c].source = x
    BY <2>1, <1>4 DEF StartPart, StartSource, Front
  <2> HIDE DEF x
  <2>5. IsPrefix(x.path, c.path) /\ Len(c.path) = Len(x.path) + 1 /\ x \in Partitions
    <3>1. Len(x.path) <= Len(c.path) /\ Len(c.path) = Len(x.path) + 1
      BY <2>2, <2>3
    <3>2. \A i \in 1 .. Len(x.path) : x.path[i] = c.path[i]
      BY <2>3
    <3> QED BY <2>1, <2>3, <3>1, <3>2, PrefixPointwise DEF Partitions
  <2>6. Under(x, c)
    BY <2>1, <2>3, <2>5 DEF Under
  <2>7. ~L(x)
    BY <2>3, <2>5, <2>6, <1>8
  <2>8. E(x)
    <3>1. ASSUME NEW m \in 1 .. Len(x.path) - 1 PROVE SubSeq(x.path, 1, m) \in top.splits
      <4>1. m \in 1 .. Len(x.path) /\ m \in 1 .. Len(c.path) - 1
        BY <2>1, <2>3
      <4>2. SubSeq(x.path, 1, m) = SubSeq(c.path, 1, m)
        BY <4>1, <2>1, <2>3, <2>5, PrefixCut
      <4> QED BY <4>1, <4>2, <2>1, <1>6
    <3> QED BY <3>1, <2>3, <2>5, <1>6
  <2> QED BY <2>1, <2>3, <2>4, <2>5, <2>7, <2>8, <1>9
<1>16. HashRootInv
  <2> SUFFICES ASSUME NEW c \in Partitions, c.kind = "hash", Len(c.path) = 1 PROVE part[c].phase = "active"
    BY DEF HashRootInv, IsHashRoot
  <2>1. \A n \in 1 .. Len(c.path) - 1 : FALSE
    <3>1. \A n \in 1 .. 0 : FALSE
      OBVIOUS
    <3>2. Len(c.path) - 1 = 0
      OBVIOUS
    <3> QED BY <3>1, <3>2
  <2>2. E(c)
    BY <2>1, <1>6
  <2> QED BY <2>2, <1>4 DEF StartPart
<1>17. PromoInv
  <2> SUFFICES ASSUME NEW p \in Partitions, NEW h \in Hashes, part[p].promo[h] # "none"
              PROVE  p.kind = "hash" /\ h \in Promotable
    BY DEF PromoInv
  <2>1. E(p)
    BY <1>5
  <2>2. part[p].promo = [g \in Hashes |-> IF StartPromoter(top, p, g) THEN "completed" ELSE "none"]
    BY <2>1, <1>4 DEF StartPart
  <2>3. StartPromoter(top, p, h)
    BY <2>2
  <2> QED BY <2>3, <1>2 DEF StartPromoter, StartLeaf
<1>18. RangeInv
  <2> SUFFICES ASSUME NEW r \in RangePartitions
              PROVE  /\ exists(r) => exists(RangeRoot(r.hash)) /\ r = RangeRoot(r.hash)
                     /\ part[r].depth + (r.end - r.start) <= Top
    BY DEF RangeInv
  <2>1. r \in Partitions /\ r.kind = "range" /\ r.start \in Nat /\ r.end \in Nat /\ r.end \in BoundsOf[r.hash] \cup {Top} /\ r.hash \in Promotable
    BY RangeType DEF Partitions
  <2>2. exists(r) => r = RangeRoot(r.hash)
    BY <2>1, <1>3, <1>7 DEF IsRangeRoot
  <2>3. part[r].depth = 0
    <3>1. CASE E(r)
      BY <3>1, <2>1, <1>4 DEF StartPart
    <3>2. CASE ~E(r)
      BY <3>2, <2>1, <1>5
    <3> QED BY <3>1, <3>2
  <2>4. r.end <= Top
    BY <2>1, HashesAssumption, TopType
  <2>5. 0 + (r.end - r.start) <= Top
    BY <2>1, <2>4, TopType
  <2>6. exists(r) => exists(RangeRoot(r.hash)) /\ r = RangeRoot(r.hash)
    BY <2>2
  <2> QED BY <2>3, <2>5, <2>6
<1>19. RootInv
  <2> SUFFICES ASSUME NEW h \in Promotable, exists(RangeRoot(h))
              PROVE  LET s == part[RangeRoot(h)].source
                     IN /\ s \in HashPartitions /\ part[s].phase = "active" /\ OwnsHash(s, h)
                        /\ part[s].promo[h] = "completed"
    BY DEF RootInv
  <2> DEFINE r == RangeRoot(h)
             s == part[r].source
  <2>1. r \in Partitions /\ r.kind = "range" /\ r.hash = h /\ E(r) /\ h \in Hashes
    BY RootIsPartition, HashesAssumption, <1>3
  <2>2. s = StartSource(top, r)
    BY <2>1, <1>4 DEF StartPart
  <2>3. s \in HashPartitions /\ StartPromoter(top, s, h)
    BY <2>1, <2>2, StartSourceType DEF E
  <2>4. s \in Partitions /\ E(s) /\ OwnsHash(s, h)
    BY <2>3 DEF StartPromoter, StartLeaf, E, Partitions
  <2>5. part[s].phase = "active" /\ part[s].promo[h] = "completed"
    BY <2>1, <2>3, <2>4, <1>4 DEF StartPart
  <2> QED BY <2>3, <2>4, <2>5
<1>20. InheritInv
  <2> SUFFICES ASSUME NEW x \in HashPartitions, NEW y \in HashPartitions, NEW h \in Hashes,
                      exists(x), exists(y), Under(x, y), part[x].promo[h] = "completed"
              PROVE  FALSE
    BY DEF InheritInv
  <2>1. x \in Partitions /\ y \in Partitions /\ x.kind = "hash"
    BY HashType DEF Partitions
  <2>2. E(x) /\ E(y)
    BY <2>1, <1>3
  <2>3. ~L(x)
    BY <2>1, <2>2, <1>8
  <2> QED BY <2>1, <2>2, <2>3, <1>9
<1> QED BY <1>1, <1>10, <1>12, <1>14, <1>15, <1>16, <1>17, <1>18, <1>19, <1>20 DEF TopologyInv

----------------------------------------------------------------------------
(* The rows. *)

\* No owner lies below another: what splits hands its slice over before the targets answer for it.
LEMMA OwnerBelow ==
  ASSUME TopologyInv, NEW x \in Partitions, NEW y \in Partitions, NEW k \in Keys, Owner(x, k), Owner(y, k)
  PROVE  ~Under(x, y)
<1> SUFFICES ASSUME Under(x, y) PROVE FALSE
  OBVIOUS
<1>1. exists(x) /\ exists(y) /\ ~routerRole(x) /\ (isImporting(y) => CutOverTo(y))
  BY DEF Owner
<1>2. part[x].split # "none" /\ \E c \in part[x].kids : c = y \/ Under(c, y)
  BY <1>1 DEF TopologyInv, CoveredInv
<1>3. PICK c \in part[x].kids : c = y \/ Under(c, y)
  BY <1>2
<1>4. part[x].split \in Stages
  BY DEF TopologyInv, PartType, Descriptions
<1>5. part[x].split = "planned"
  BY <1>1, <1>2, <1>4 DEF routerRole, Stages
<1>6. /\ c \in Partitions /\ exists(c) /\ ~IsRangeRoot(c) /\ part[c].source = x /\ part[c].phase = "awaiting_data"
  <2>1. c \in Partitions /\ TargetInv(x, c)
    BY <1>2, Splitting
  <2> QED BY <2>1, <1>5 DEF TargetInv
<1>7. CASE c = y
  BY <1>1, <1>6, <1>7 DEF isImporting, CutOverTo
<1>8. CASE Under(c, y)
  <2>1. part[c].split # "none"
    BY <1>1, <1>6, <1>8 DEF TopologyInv, CoveredInv
  <2> QED BY <2>1, <1>6, Splitting
<1> QED BY <1>3, <1>7, <1>8

\* A range partition that answers has its hash's promotion cut over at the source of its root.
LEMMA RootCutOver ==
  ASSUME TopologyInv, NEW y \in Partitions, y.kind = "range", exists(y), isImporting(y) => CutOverTo(y)
  PROVE  /\ y.hash \in Promotable /\ y.hash \in Hashes /\ exists(RangeRoot(y.hash))
         /\ \E s \in HashPartitions : /\ s = part[RangeRoot(y.hash)].source /\ part[s].phase = "active"
                                      /\ OwnsHash(s, y.hash) /\ overrideCutOver(s, y.hash)
<1> DEFINE h == y.hash
           r == RangeRoot(h)
           s == part[r].source
<1>1. y \in RangePartitions /\ h \in Promotable /\ h \in Hashes
  BY PartitionKinds, RangeType
<1>2. r \in Partitions /\ IsRangeRoot(r) /\ r.hash = h
  BY <1>1, RootIsPartition
<1>3. exists(r) /\ (y = r \/ Under(r, y))
  BY <1>1 DEF TopologyInv, RangeInv
<1>4. /\ s \in HashPartitions /\ part[s].phase = "active" /\ OwnsHash(s, h) /\ part[s].promo[h] # "none"
      /\ part[s].promo[h] = "planned" => part[r].phase = "awaiting_data"
  BY <1>1, <1>3 DEF TopologyInv, RootInv
<1>5. part[s].promo[h] \in Stages
  <2>1. s \in Partitions
    BY <1>4 DEF Partitions
  <2> QED BY <2>1, <1>1 DEF TopologyInv, PartType, Descriptions
<1>6. overrideCutOver(s, h)
  <2>1. CASE part[r].phase # "awaiting_data"
    BY <2>1, <1>4, <1>5 DEF overrideCutOver, Stages
  <2>2. CASE part[r].phase = "awaiting_data" /\ y = r
    BY <2>2, <1>2 DEF isImporting, CutOverTo
  <2>3. CASE part[r].phase = "awaiting_data" /\ Under(r, y)
    <3>1. part[r].split # "none"
      BY <2>3, <1>2, <1>3 DEF TopologyInv, CoveredInv
    <3> QED BY <3>1, <2>3, <1>2, Splitting
  <2> QED BY <2>1, <2>2, <2>3, <1>3
<1> QED BY <1>1, <1>3, <1>4, <1>6

\* A promoted hash has no owner left in the hash tree.
LEMMA OwnerKinds ==
  ASSUME TopologyInv, NEW x \in Partitions, NEW y \in Partitions, NEW k \in Keys, Owner(x, k), Owner(y, k)
  PROVE  ~(x.kind = "hash" /\ y.kind = "range")
<1> SUFFICES ASSUME x.kind = "hash", y.kind = "range" PROVE FALSE
  OBVIOUS
<1> DEFINE h == HashOf[k]
<1>1. /\ exists(x) /\ OwnsHash(x, h) /\ ~overrideCutOver(x, h) /\ ~routerRole(x)
      /\ exists(y) /\ OwnsHash(y, h) /\ (isImporting(y) => CutOverTo(y))
  BY DEF Owner, ownsByTopology
<1>2. y.hash = h /\ h \in Hashes /\ x \in HashPartitions
  BY <1>1, KeysAssumption, PartitionKinds DEF OwnsHash
<1>3. PICK s \in HashPartitions : part[s].phase = "active" /\ OwnsHash(s, h) /\ overrideCutOver(s, h)
  BY <1>1, <1>2, RootCutOver
<1>4. s \in Partitions /\ s.kind = "hash" /\ exists(s)
  BY <1>3, PartitionKinds DEF Partitions, exists
<1>5. x = s \/ Under(x, s) \/ Under(s, x)
  BY <1>1, <1>2, <1>3, <1>4, OwnersOverlap, HashOverlap
<1>6. CASE x = s
  BY <1>1, <1>3, <1>6
<1>7. CASE Under(s, x)
  <2>1. part[s].split # "none"
    BY <1>1, <1>4, <1>7 DEF TopologyInv, CoveredInv
  <2>2. part[s].promo[h] = "completed"
    BY <2>1, <1>2, <1>3, <1>4, Splitting DEF overrideCutOver
  <2>3. part[x].promo[h] = "completed"
    BY <2>2, <1>1, <1>2, <1>3, <1>4, <1>7 DEF TopologyInv, InheritInv
  <2> QED BY <2>3, <1>1 DEF overrideCutOver
<1>8. CASE Under(x, s)
  <2>1. part[x].split # "none" /\ \E c \in part[x].kids : c = s \/ Under(c, s)
    BY <1>1, <1>4, <1>8 DEF TopologyInv, CoveredInv
  <2>2. PICK c \in part[x].kids : c = s \/ Under(c, s)
    BY <2>1
  <2>3. part[x].split \in Stages
    BY DEF TopologyInv, PartType, Descriptions
  <2>4. part[x].split = "planned"
    BY <1>1, <2>1, <2>3 DEF routerRole, Stages
  <2>5. c \in Partitions /\ exists(c) /\ part[c].phase = "awaiting_data"
    <3>1. c \in Partitions /\ TargetInv(x, c)
      BY <2>1, Splitting
    <3> QED BY <3>1, <2>4 DEF TargetInv
  <2>6. CASE Under(c, s)
    <3>1. part[c].split # "none"
      BY <1>4, <2>5, <2>6 DEF TopologyInv, CoveredInv
    <3> QED BY <3>1, <2>5, Splitting
  <2> QED BY <2>2, <2>5, <2>6, <1>3
<1> QED BY <1>5, <1>6, <1>7, <1>8

\* One partition answers for a key.
LEMMA OneOwner ==
  ASSUME TopologyInv, NEW x \in Partitions, NEW y \in Partitions, NEW k \in Keys, Owner(x, k), Owner(y, k)
  PROVE  x = y
<1>1. exists(x) /\ exists(y) /\ ownsByTopology(x, k) /\ ownsByTopology(y, k)
  BY DEF Owner
<1>2. x.kind = y.kind
  BY OwnerKinds, PartitionKinds
<1>3. x = y \/ Under(x, y) \/ Under(y, x)
  BY <1>1, <1>2, OwnersOverlap DEF TopologyInv, NestedInv
<1> QED BY <1>3, OwnerBelow

\* A repartition step hands each owner its rows from an owner, and leaves a source that reads for a target the rows
\* that it may still read.
OwnersKeep ==
  \A x \in Partitions, k \in Keys : Owner(x, k)' =>
    \E y \in Partitions : Owner(y, k) /\ (rows[RowsAt(x)][k])' = rows[RowsAt(y)][k]
ReadersKeep ==
  \A t \in Partitions, k \in Keys : exists(t) /\ ~IsHashRoot(t) /\ ownsByTopology(t, k) =>
    /\ exists(t)' /\ part'[t].source = part[t].source
    /\ SourceReads(part[t].source, t, k)' =>
         /\ rows'[part[t].source][k] = rows[part[t].source][k]
         /\ SourceReads(part[t].source, t, k) \/ (Owner(part[t].source, k) /\ RowsAt(part[t].source) = part[t].source)

\* What the owners of a key depend on: a step that leaves it alone leaves them.
LEMMA OwnerStays ==
  ASSUME NEW x \in Partitions, NEW k \in Keys, Owner(x, k)',
         part'[x].phase = part[x].phase, part'[x].source = part[x].source,
         routerRole(x) => routerRole(x)', overrideCutOver(x, HashOf[k]) => overrideCutOver(x, HashOf[k])',
         isImporting(x) /\ CutOverTo(x)' => CutOverTo(x)
  PROVE  Owner(x, k) /\ (RowsAt(x))' = RowsAt(x)
<1>1. isImporting(x)' <=> isImporting(x)
  BY DEF isImporting
<1>2. exists(x)' <=> exists(x)
  BY DEF exists
<1> QED BY <1>1, <1>2 DEF Owner, RowsAt

\* What exists, but no root of the hash tree, has a source that answers for it, whatever its own state.
LEMMA SourceIsActive ==
  ASSUME TopologyInv, NEW t \in Partitions, exists(t), ~IsHashRoot(t)
  PROVE  /\ part[t].source \in Partitions /\ part[part[t].source].phase = "active" /\ part[t].source # t
         /\ ~isImporting(part[t].source) /\ exists(part[t].source) /\ RowsAt(part[t].source) = part[t].source
         /\ IsRangeRoot(t) => /\ t.hash \in Promotable /\ t.hash \in Hashes /\ part[t].source \in HashPartitions /\ t.kind = "range"
                              /\ OwnsHash(part[t].source, t.hash) /\ part[part[t].source].promo[t.hash] # "none"
         /\ ~IsRangeRoot(t) => /\ part[part[t].source].split # "none" /\ t \in part[part[t].source].kids /\ Under(part[t].source, t)
                               /\ TargetInv(part[t].source, t)
<1> DEFINE s == part[t].source
<1>1. CASE IsRangeRoot(t)
  <2>1. t.hash \in Promotable /\ t = RangeRoot(t.hash) /\ t.hash \in Hashes /\ t.kind = "range"
    BY <1>1, RangeRoots, HashesAssumption DEF IsRangeRoot
  <2>2. s \in HashPartitions /\ part[s].phase = "active" /\ OwnsHash(s, t.hash) /\ part[s].promo[t.hash] # "none"
    BY <2>1 DEF TopologyInv, RootInv
  <2>3. s \in Partitions /\ s # t
    BY <2>1, <2>2, PartitionKinds DEF Partitions
  <2> QED BY <1>1, <2>1, <2>2, <2>3 DEF exists, isImporting, RowsAt
<1>2. CASE ~IsRangeRoot(t)
  <2>1. s \in Partitions /\ t \in part[s].kids /\ part[s].split # "none"
    BY <1>2 DEF TopologyInv, SourceInv
  <2>2. part[s].phase = "active" /\ TargetInv(s, t)
    BY <2>1, Splitting
  <2>3. Under(s, t) /\ s # t
    BY <2>2 DEF TargetInv, Under
  <2> QED BY <1>2, <2>1, <2>2, <2>3 DEF exists, isImporting, RowsAt
<1> QED BY <1>1, <1>2

\* A source that splits, or promotes the hash of the key, answers for it until it cuts over.
LEMMA SourceOwns ==
  ASSUME TopologyInv, NEW t \in Partitions, NEW k \in Keys, exists(t), ~IsHashRoot(t), ownsByTopology(t, k), ~CutOverTo(t),
         ~(t.kind = "hash" /\ part[part[t].source].promo[HashOf[k]] = "completed")
  PROVE  Owner(part[t].source, k)
<1> DEFINE s == part[t].source
           h == HashOf[k]
<1>1. s \in Partitions /\ exists(s) /\ ~isImporting(s) /\ part[s].phase = "active"
  BY SourceIsActive
<1>2. h \in Hashes /\ OwnsHash(t, h)
  BY KeysAssumption DEF ownsByTopology
<1>3. CASE IsRangeRoot(t)
  <2>1. t.hash = h /\ t.kind = "range" /\ s \in HashPartitions /\ OwnsHash(s, h) /\ part[s].promo[h] # "none" /\ s.kind = "hash"
    <3>1. t.kind = "range" /\ s \in HashPartitions /\ OwnsHash(s, t.hash) /\ part[s].promo[t.hash] # "none"
      BY <1>3, SourceIsActive
    <3>2. t.hash = h
      BY <1>2, <3>1 DEF OwnsHash
    <3> QED BY <3>1, <3>2, HashType
  <2>2. ~overrideCutOver(s, h)
    BY <1>3, <2>1 DEF CutOverTo
  <2>3. part[s].promo[h] # "completed"
    BY <2>2 DEF overrideCutOver
  <2>4. part[s].split = "none"
    <3> SUFFICES ASSUME part[s].split # "none" PROVE FALSE
      OBVIOUS
    <3>1. part[s].promo[h] \in {"none", "completed"}
      BY <1>1, <1>2, Splitting
    <3> QED BY <3>1, <2>1, <2>3
  <2> QED BY <1>1, <2>1, <2>2, <2>4 DEF Owner, ownsByTopology, routerRole
<1>4. CASE ~IsRangeRoot(t)
  <2>1. part[s].split # "none" /\ Under(s, t) /\ ~routerRole(s)
    BY <1>4, SourceIsActive DEF CutOverTo
  <2>2. ownsByTopology(s, k)
    BY <1>1, <2>1, UnderOwns
  <2>3. part[s].promo[h] \in {"none", "completed"}
    BY <1>1, <1>2, <2>1, Splitting
  <2>4. ~overrideCutOver(s, h)
    <3>1. CASE t.kind = "hash"
      BY <3>1, <2>3 DEF overrideCutOver
    <3>2. CASE t.kind # "hash"
      <4>1. s.kind # "hash"
        BY <3>2, <2>1 DEF Under
      <4>2. part[s].promo[h] = "none"
        BY <4>1, <1>1, <1>2 DEF TopologyInv, PromoInv
      <4> QED BY <4>2 DEF overrideCutOver
    <3> QED BY <3>1, <3>2
  <2> QED BY <1>1, <2>1, <2>2, <2>4 DEF Owner
<1> QED BY <1>3, <1>4

\* A step that keeps the owners and their sources keeps what a source may read for a target.
LEMMA ReadersKept ==
  ASSUME TopologyInv,
         \A q \in Partitions : exists(q) => exists(q)' /\ part'[q].source = part[q].source,
         \A q \in Partitions, h \in Hashes :
           exists(q) /\ part[q].promo[h] = "completed" => part'[q].promo[h] = "completed",
         \A t \in Partitions, k \in Keys :
           exists(t) /\ ~IsHashRoot(t) /\ ownsByTopology(t, k) /\ SourceReads(part[t].source, t, k)'
             => rows'[part[t].source][k] = rows[part[t].source][k]
  PROVE  ReadersKeep
<1> SUFFICES ASSUME NEW t \in Partitions, NEW k \in Keys, exists(t), ~IsHashRoot(t), ownsByTopology(t, k),
                    part'[t].source = part[t].source, SourceReads(part[t].source, t, k)'
            PROVE  SourceReads(part[t].source, t, k) \/ (Owner(part[t].source, k) /\ RowsAt(part[t].source) = part[t].source)
  BY DEF ReadersKeep
<1> DEFINE s == part[t].source
<1>1. s \in Partitions /\ exists(s) /\ RowsAt(s) = s /\ (IsRangeRoot(t) => t.hash \in Hashes) /\ HashOf[k] \in Hashes
  BY SourceIsActive, KeysAssumption
<1>2. SourceReads(s, t, k)'
         => ~(IsRangeRoot(t) /\ part'[s].promo[t.hash] = "completed") /\ ~(t.kind = "hash" /\ part'[s].promo[HashOf[k]] = "completed")
  BY DEF SourceReads
<1>3. ~(IsRangeRoot(t) /\ part[s].promo[t.hash] = "completed") /\ ~(t.kind = "hash" /\ part[s].promo[HashOf[k]] = "completed")
  BY <1>1, <1>2
<1>4. CASE CutOverTo(t)
  BY <1>3, <1>4 DEF SourceReads
<1>5. CASE ~CutOverTo(t)
  BY <1>1, <1>3, <1>5, SourceOwns
<1> QED BY <1>4, <1>5

\* A planned split moves no owner: its targets wait.
LEMMA PlanSplitRows ==
  ASSUME TopologyInv, PlanSplit
  PROVE  OwnersKeep /\ ReadersKeep
<1>1. PICK p \in Partitions : \E kids \in SplitTargets(p) : PlansSplit(p, kids)
  BY PlanSplitStep
<1>2. PICK kids \in SplitTargets(p) : PlansSplit(p, kids)
  BY <1>1
<1>3. rows' = rows
  BY DEF PlanSplit
<1>4. /\ part[p].phase = "active" /\ part[p].split = "none"
      /\ \A c \in kids : c \in Partitions /\ part[c].phase = "absent" /\ c # p /\ ~IsHashRoot(c) /\ ~IsRangeRoot(c)
      /\ part'[p].phase = "active" /\ part'[p].split = "planned"
      /\ part'[p].source = part[p].source /\ part'[p].promo = part[p].promo
      /\ \A c \in kids : /\ part'[c].phase = "awaiting_data" /\ part'[c].split = "none" /\ part'[c].source = p
      /\ \A q \in Partitions : q # p /\ q \notin kids => part'[q] = part[q]
  BY <1>2 DEF PlansSplit
<1>5. \A q \in Partitions : exists(q) => /\ exists(q)' /\ part'[q].source = part[q].source /\ part'[q].phase = part[q].phase
                                         /\ part'[q].promo = part[q].promo /\ (routerRole(q)' <=> routerRole(q))
                                         /\ (isImporting(q)' <=> isImporting(q))
  BY <1>4 DEF exists, routerRole, isImporting
<1>6. \A q \in Partitions : exists(q) /\ ~IsHashRoot(q) => (CutOverTo(q)' <=> CutOverTo(q))
  <2> SUFFICES ASSUME NEW q \in Partitions, exists(q), ~IsHashRoot(q) PROVE CutOverTo(q)' <=> CutOverTo(q)
    OBVIOUS
  <2>1. part[q].source \in Partitions /\ exists(part[q].source)
    BY SourceIsActive
  <2> QED BY <2>1, <1>5 DEF CutOverTo, overrideCutOver
<1>7. OwnersKeep
  <2> SUFFICES ASSUME NEW x \in Partitions, NEW k \in Keys, Owner(x, k)'
              PROVE  Owner(x, k) /\ (RowsAt(x))' = RowsAt(x)
    BY <1>3 DEF OwnersKeep
  <2>1. x \notin kids
    <3> SUFFICES ASSUME x \in kids PROVE FALSE
      OBVIOUS
    <3>1. isImporting(x)' /\ ~CutOverTo(x)'
      BY <1>4 DEF isImporting, CutOverTo, routerRole
    <3> QED BY <3>1 DEF Owner
  <2>2. exists(x)
    BY <2>1, <1>4 DEF Owner, exists
  <2>3. isImporting(x) => ~IsHashRoot(x)
    BY ImportHasSource
  <2>4. isImporting(x) /\ CutOverTo(x)' => CutOverTo(x)
    BY <2>2, <2>3, <1>6
  <2>5. part'[x].phase = part[x].phase /\ part'[x].source = part[x].source /\ part'[x].promo = part[x].promo /\ (routerRole(x)' <=> routerRole(x))
    BY <2>2, <1>5
  <2>6. overrideCutOver(x, HashOf[k]) => overrideCutOver(x, HashOf[k])'
    BY <2>5 DEF overrideCutOver
  <2> QED BY <2>4, <2>5, <2>6, OwnerStays
<1>8. \A q \in Partitions, h \in Hashes : exists(q) /\ part[q].promo[h] = "completed" => part'[q].promo[h] = "completed"
  BY <1>5
<1>9. \A q \in Partitions : exists(q) => exists(q)' /\ part'[q].source = part[q].source
  BY <1>5
<1> QED BY <1>3, <1>7, <1>8, <1>9, ReadersKept

\* A planned promotion moves no owner: the range root waits.
LEMMA PlanPromotionRows ==
  ASSUME TopologyInv, PlanPromotion
  PROVE  OwnersKeep /\ ReadersKeep
<1>1. PICK p \in HashPartitions, h \in Promotable : PlansPromotion(p, h)
  BY PlanPromotionStep
<1> DEFINE r == RangeRoot(h)
<1>2. /\ rows' = rows /\ p \in Partitions /\ r \in Partitions /\ r \in RangePartitions /\ r.hash = h /\ IsRangeRoot(r)
      /\ h \in Hashes /\ p.kind = "hash"
  BY RootIsPartition, HashesAssumption, HashType DEF PlanPromotion, Partitions
<1> HIDE DEF r
<1>3. /\ part[p].phase = "active" /\ part[p].split = "none" /\ part[p].promo[h] = "none" /\ r # p
      /\ ~exists(r) /\ part'[p].phase = "active" /\ part'[p].split = "none" /\ part'[p].source = part[p].source
      /\ part'[p].promo[h] = "planned" /\ \A g \in Hashes : g # h => part'[p].promo[g] = part[p].promo[g]
      /\ part'[r].phase = "awaiting_data" /\ part'[r].source = p
      /\ \A q \in Partitions : q # p /\ q # r => part'[q] = part[q]
  BY <1>1, <1>2 DEF PlansPromotion, r
<1>4. \A q \in Partitions : exists(q) =>
        /\ exists(q)' /\ part'[q].source = part[q].source /\ part'[q].phase = part[q].phase
        /\ (routerRole(q)' <=> routerRole(q)) /\ (isImporting(q)' <=> isImporting(q))
        /\ \A g \in Hashes : overrideCutOver(q, g)' <=> overrideCutOver(q, g)
        /\ \A g \in Hashes : part[q].promo[g] = "completed" => part'[q].promo[g] = "completed"
  <2> SUFFICES ASSUME NEW q \in Partitions, exists(q)
              PROVE  /\ exists(q)' /\ part'[q].source = part[q].source /\ part'[q].phase = part[q].phase
                     /\ (routerRole(q)' <=> routerRole(q)) /\ (isImporting(q)' <=> isImporting(q))
                     /\ \A g \in Hashes : overrideCutOver(q, g)' <=> overrideCutOver(q, g)
                     /\ \A g \in Hashes : part[q].promo[g] = "completed" => part'[q].promo[g] = "completed"
    OBVIOUS
  <2>1. CASE q = p
    BY <2>1, <1>3 DEF exists, routerRole, isImporting, overrideCutOver
  <2>2. CASE q # p
    <3>1. part'[q] = part[q]
      BY <2>2, <1>3
    <3> QED BY <3>1 DEF exists, routerRole, isImporting, overrideCutOver
  <2> QED BY <2>1, <2>2
<1>5. \A q \in Partitions : exists(q) /\ ~IsHashRoot(q) => (CutOverTo(q)' <=> CutOverTo(q))
  <2> SUFFICES ASSUME NEW q \in Partitions, exists(q), ~IsHashRoot(q) PROVE CutOverTo(q)' <=> CutOverTo(q)
    OBVIOUS
  <2>1. part[q].source \in Partitions /\ exists(part[q].source) /\ (IsRangeRoot(q) => q.hash \in Hashes)
    BY SourceIsActive
  <2>2. part'[q].source = part[q].source /\ (routerRole(part[q].source)' <=> routerRole(part[q].source))
        /\ (IsRangeRoot(q) => (overrideCutOver(part[q].source, q.hash)' <=> overrideCutOver(part[q].source, q.hash)))
    BY <2>1, <1>4
  <2> QED BY <2>2 DEF CutOverTo, routerRole, overrideCutOver
<1>6. OwnersKeep
  <2> SUFFICES ASSUME NEW x \in Partitions, NEW k \in Keys, Owner(x, k)'
              PROVE  Owner(x, k) /\ (RowsAt(x))' = RowsAt(x)
    BY <1>2 DEF OwnersKeep
  <2>1. x # r
    <3> SUFFICES ASSUME x = r PROVE FALSE
      OBVIOUS
    <3>1. ~overrideCutOver(p, r.hash)'
      BY <1>2, <1>3 DEF overrideCutOver
    <3>2. isImporting(r)'
      BY <1>3 DEF isImporting
    <3>3. CutOverTo(r)'
      BY <3>2 DEF Owner
    <3>4. overrideCutOver(p, r.hash)'
      BY <3>3, <1>2, <1>3 DEF CutOverTo, overrideCutOver
    <3> QED BY <3>1, <3>4
  <2>2. exists(x)
    <3>1. CASE x = p
      BY <3>1, <1>3 DEF exists
    <3>2. CASE x # p
      BY <3>2, <2>1, <1>3 DEF Owner, exists
    <3> QED BY <3>1, <3>2
  <2>3. isImporting(x) => ~IsHashRoot(x)
    BY ImportHasSource
  <2>4. isImporting(x) /\ CutOverTo(x)' => CutOverTo(x)
    BY <2>2, <2>3, <1>5
  <2>5. HashOf[k] \in Hashes
    BY KeysAssumption
  <2> QED BY <2>2, <2>4, <2>5, <1>4, OwnerStays
<1>7. \A q \in Partitions : exists(q) => exists(q)' /\ part'[q].source = part[q].source
  BY <1>4
<1>8. \A q \in Partitions, g \in Hashes : exists(q) /\ part[q].promo[g] = "completed" => part'[q].promo[g] = "completed"
  BY <1>4
<1> QED BY <1>2, <1>6, <1>7, <1>8, ReadersKept

\* The owner of a target's slice was the source until it cut over.
LEMMA CutOverRows ==
  ASSUME TopologyInv, CutOver
  PROVE  OwnersKeep /\ ReadersKeep
<1>1. rows' = rows /\ \/ \E p \in Partitions : CutsOverSplit(p)
                      \/ \E p \in HashPartitions, h \in Promotable : CutsOverPromotion(p, h)
  BY CutOverStep DEF CutOver
<1>2. \A q \in Partitions :
        /\ part'[q].phase = part[q].phase /\ part'[q].source = part[q].source
        /\ routerRole(q) => routerRole(q)'
        /\ \A g \in Hashes : /\ overrideCutOver(q, g) => overrideCutOver(q, g)'
                             /\ part[q].promo[g] = "completed" <=> part'[q].promo[g] = "completed"
  <2>1. ASSUME NEW p \in Partitions, CutsOverSplit(p), NEW q \in Partitions
        PROVE  /\ part'[q].phase = part[q].phase /\ part'[q].source = part[q].source
               /\ routerRole(q) => routerRole(q)'
               /\ part'[q].promo = part[q].promo
    <3>1. CASE q = p
      BY <2>1, <3>1 DEF CutsOverSplit, routerRole
    <3>2. CASE q # p
      BY <2>1, <3>2 DEF CutsOverSplit, routerRole
    <3> QED BY <3>1, <3>2
  <2>2. ASSUME NEW p \in HashPartitions, NEW h \in Promotable, CutsOverPromotion(p, h), NEW q \in Partitions
        PROVE  /\ part'[q].phase = part[q].phase /\ part'[q].source = part[q].source
               /\ routerRole(q) => routerRole(q)'
               /\ \A g \in Hashes : /\ overrideCutOver(q, g) => overrideCutOver(q, g)'
                                    /\ part[q].promo[g] = "completed" <=> part'[q].promo[g] = "completed"
    <3>1. CASE q = p
      BY <2>2, <3>1 DEF CutsOverPromotion, routerRole, overrideCutOver
    <3>2. CASE q # p
      <4>1. part'[q] = part[q]
        BY <2>2, <3>2 DEF CutsOverPromotion
      <4> QED BY <4>1 DEF routerRole, overrideCutOver
    <3> QED BY <3>1, <3>2
  <2>3. CASE \E p \in Partitions : CutsOverSplit(p)
    BY <2>1, <2>3 DEF overrideCutOver
  <2>4. CASE \E p \in HashPartitions, h \in Promotable : CutsOverPromotion(p, h)
    BY <2>2, <2>4
  <2> QED BY <1>1, <2>3, <2>4
<1>3. OwnersKeep
  <2> SUFFICES ASSUME NEW x \in Partitions, NEW k \in Keys, Owner(x, k)'
              PROVE  \E y \in Partitions : Owner(y, k) /\ (RowsAt(x))' = RowsAt(y)
    BY <1>1 DEF OwnersKeep
  <2>1. HashOf[k] \in Hashes
    BY KeysAssumption
  <2>2. CASE isImporting(x) => CutOverTo(x)
    <3>1. Owner(x, k) /\ (RowsAt(x))' = RowsAt(x)
      BY <2>1, <2>2, <1>2, OwnerStays
    <3> QED BY <3>1
  <2>3. CASE isImporting(x) /\ ~CutOverTo(x)
    <3> DEFINE s == part[x].source
    <3>1. exists(x) /\ ~IsHashRoot(x) /\ ownsByTopology(x, k) /\ s \in Partitions /\ RowsAt(s) = s
      BY <2>3, ImportHasSource, SourceIsActive DEF Owner
    <3>2. ~(x.kind = "hash" /\ part[s].promo[HashOf[k]] = "completed")
      <4> SUFFICES ASSUME x.kind = "hash", part[s].promo[HashOf[k]] = "completed" PROVE FALSE
        OBVIOUS
      <4>1. part[x].promo = part[s].promo
        BY <2>3, ImportHasSource DEF IsRangeRoot
      <4>2. overrideCutOver(x, HashOf[k])
        BY <4>1 DEF overrideCutOver
      <4>3. overrideCutOver(x, HashOf[k])'
        BY <4>2, <2>1, <1>2
      <4> QED BY <4>3 DEF Owner
    <3>3. Owner(s, k)
      BY <2>3, <3>1, <3>2, SourceOwns
    <3>4. (RowsAt(x))' = s
      BY <2>3, <1>2 DEF RowsAt, isImporting
    <3> QED BY <3>1, <3>3, <3>4
  <2> QED BY <2>2, <2>3
<1>4. \A q \in Partitions : exists(q) => exists(q)' /\ part'[q].source = part[q].source
  BY <1>2 DEF exists
<1>5. \A q \in Partitions, g \in Hashes : exists(q) /\ part[q].promo[g] = "completed" => part'[q].promo[g] = "completed"
  BY <1>2
<1> QED BY <1>1, <1>3, <1>4, <1>5, ReadersKept

\* The first page moves no owner.
LEMMA FirstPageRows ==
  ASSUME TopologyInv, FirstPage
  PROVE  OwnersKeep /\ ReadersKeep
<1>1. PICK p \in Partitions : ReceivesPage(p)
  BY FirstPageStep
<1>2. rows' = rows
  BY DEF FirstPage
<1>3. \A q \in Partitions :
        /\ part'[q].source = part[q].source /\ part'[q].promo = part[q].promo
        /\ (exists(q)' <=> exists(q)) /\ (routerRole(q)' <=> routerRole(q)) /\ (isImporting(q)' <=> isImporting(q))
        /\ \A g \in Hashes : overrideCutOver(q, g)' <=> overrideCutOver(q, g)
  <2> SUFFICES ASSUME NEW q \in Partitions
              PROVE  /\ part'[q].source = part[q].source /\ part'[q].promo = part[q].promo
                     /\ (exists(q)' <=> exists(q)) /\ part'[q].split = part[q].split /\ (isImporting(q)' <=> isImporting(q))
    BY DEF routerRole, overrideCutOver
  <2>1. CASE q = p
    BY <2>1, <1>1 DEF ReceivesPage, exists, isImporting
  <2>2. CASE q # p
    BY <2>2, <1>1 DEF ReceivesPage, exists, isImporting
  <2> QED BY <2>1, <2>2
<1>4. \A q \in Partitions : exists(q) /\ ~IsHashRoot(q) => (CutOverTo(q)' <=> CutOverTo(q))
  <2> SUFFICES ASSUME NEW q \in Partitions, exists(q), ~IsHashRoot(q) PROVE CutOverTo(q)' <=> CutOverTo(q)
    OBVIOUS
  <2>1. part[q].source \in Partitions /\ (IsRangeRoot(q) => q.hash \in Hashes)
    BY SourceIsActive
  <2>2. part'[q].source = part[q].source /\ (routerRole(part[q].source)' <=> routerRole(part[q].source))
        /\ (IsRangeRoot(q) => (overrideCutOver(part[q].source, q.hash)' <=> overrideCutOver(part[q].source, q.hash)))
    BY <2>1, <1>3
  <2> QED BY <2>2 DEF CutOverTo, routerRole, overrideCutOver
<1>5. OwnersKeep
  <2> SUFFICES ASSUME NEW x \in Partitions, NEW k \in Keys, Owner(x, k)'
              PROVE  Owner(x, k) /\ (RowsAt(x))' = RowsAt(x)
    BY <1>2 DEF OwnersKeep
  <2>1. HashOf[k] \in Hashes
    BY KeysAssumption
  <2>2. /\ exists(x)' <=> exists(x)
        /\ routerRole(x)' <=> routerRole(x)
        /\ isImporting(x)' <=> isImporting(x)
        /\ overrideCutOver(x, HashOf[k])' <=> overrideCutOver(x, HashOf[k])
        /\ part'[x].source = part[x].source
    BY <2>1, <1>3
  <2>3. isImporting(x) => ~IsHashRoot(x) /\ exists(x)
    BY ImportHasSource
  <2>4. isImporting(x) /\ CutOverTo(x)' => CutOverTo(x)
    BY <2>3, <1>4
  <2> QED BY <2>2, <2>4 DEF Owner, RowsAt
<1>6. \A q \in Partitions : exists(q) => exists(q)' /\ part'[q].source = part[q].source
  BY <1>3
<1>7. \A q \in Partitions, g \in Hashes : exists(q) /\ part[q].promo[g] = "completed" => part'[q].promo[g] = "completed"
  BY <1>3
<1> QED BY <1>2, <1>5, <1>6, <1>7, ReadersKept

\* The rows of the slice arrive at the target that answered for it, read from the source, all the time.  What a source
\* of a promotion gives back was no other partition's to read.
LEMMA ImportCompletesRows ==
  ASSUME TopologyInv, RowsType, ImportCompletes
  PROVE  OwnersKeep /\ ReadersKeep
<1>1. PICK p \in Partitions, s \in Partitions : Arrives(p, s) /\ MovesRows(p, s) /\ (EndsPromotion(p, s) \/ EndsSplit(p, s))
  BY ImportCompletesStep
<1>2. /\ p # s /\ part[p].phase = "importing" /\ part[s].phase = "active" /\ s = part[p].source
      /\ part'[p].phase = "active" /\ part'[s].phase = "active" /\ part'[p].promo = part[p].promo /\ part'[p].split = part[p].split
      /\ \A q \in Partitions : part'[q].source = part[q].source
      /\ \A q \in Partitions : q # p /\ q # s => part'[q] = part[q]
  BY <1>1 DEF Arrives
<1>3. isImporting(p) /\ exists(p) /\ ~isImporting(s) /\ ~isImporting(p)' /\ ~isImporting(s)'
  BY <1>2 DEF isImporting, exists
<1>4. \A q \in Partitions :
        /\ exists(q)' <=> exists(q)
        /\ routerRole(q)' <=> routerRole(q)
        /\ \A g \in Hashes : /\ overrideCutOver(q, g)' <=> overrideCutOver(q, g)
                             /\ part[q].promo[g] = "completed" => part'[q].promo[g] = "completed"
  <2> SUFFICES ASSUME NEW q \in Partitions
              PROVE  /\ exists(q)' <=> exists(q)
                     /\ routerRole(q)' <=> routerRole(q)
                     /\ \A g \in Hashes : /\ overrideCutOver(q, g)' <=> overrideCutOver(q, g)
                                          /\ part[q].promo[g] = "completed" => part'[q].promo[g] = "completed"
    OBVIOUS
  <2>1. CASE q = p
    BY <2>1, <1>2 DEF exists, routerRole, overrideCutOver
  <2>2. CASE q = s
    <3>1. CASE EndsPromotion(p, s)
      <4>1. /\ part[s].promo[p.hash] \in {"cut_over", "completed"} /\ part'[s].split = part[s].split
            /\ part'[s].promo[p.hash] = "completed" /\ \A g \in Hashes : g # p.hash => part'[s].promo[g] = part[s].promo[g]
        BY <3>1 DEF EndsPromotion
      <4>2. \A g \in Hashes : overrideCutOver(s, g)' <=> overrideCutOver(s, g)
        BY <4>1 DEF overrideCutOver
      <4> QED BY <2>2, <4>1, <4>2, <1>2 DEF exists, routerRole
    <3>2. CASE EndsSplit(p, s)
      BY <2>2, <3>2, <1>2 DEF EndsSplit, exists, routerRole, overrideCutOver
    <3> QED BY <3>1, <3>2, <1>1
  <2>3. CASE q # p /\ q # s
    <3>1. part'[q] = part[q]
      BY <2>3, <1>2
    <3> QED BY <3>1 DEF exists, routerRole, overrideCutOver
  <2> QED BY <2>1, <2>2, <2>3
<1>5. CutOverTo(p)
  BY <1>2, <1>3, ImportHasSource DEF CutOverTo, overrideCutOver, routerRole
<1>6. \A q \in Partitions : exists(q) /\ ~IsHashRoot(q) => (CutOverTo(q)' <=> CutOverTo(q))
  <2> SUFFICES ASSUME NEW q \in Partitions, exists(q), ~IsHashRoot(q) PROVE CutOverTo(q)' <=> CutOverTo(q)
    OBVIOUS
  <2>1. part[q].source \in Partitions /\ (IsRangeRoot(q) => q.hash \in Hashes)
    BY SourceIsActive
  <2>2. /\ part'[q].source = part[q].source /\ (routerRole(part[q].source)' <=> routerRole(part[q].source))
        /\ IsRangeRoot(q) => (overrideCutOver(part[q].source, q.hash)' <=> overrideCutOver(part[q].source, q.hash))
    BY <2>1, <1>2, <1>4
  <2> QED BY <2>2 DEF CutOverTo, routerRole, overrideCutOver
<1>7. \A k \in Keys : rows'[p][k] > 0 => Owner(p, k)
  <2> SUFFICES ASSUME NEW k \in Keys, rows'[p][k] > 0 PROVE Owner(p, k)
    OBVIOUS
  <2>1. ownsByTopology(p, k) /\ ~overrideCutOver(p, HashOf[k])
    BY <1>1 DEF MovesRows
  <2>2. ~routerRole(p)
    BY <1>3, ImportHasSource DEF routerRole
  <2> QED BY <2>1, <2>2, <1>3, <1>5 DEF Owner
<1>8. OwnersKeep
  <2> SUFFICES ASSUME NEW x \in Partitions, NEW k \in Keys, Owner(x, k)'
              PROVE  Owner(x, k) /\ (rows[RowsAt(x)][k])' = rows[RowsAt(x)][k]
    BY DEF OwnersKeep
  <2>1. HashOf[k] \in Hashes
    BY KeysAssumption
  <2>2. CASE x = p
    <3>1. Owner(p, k)
      BY <2>1, <2>2, <1>3, <1>4, <1>5 DEF Owner
    <3>2. ownsByTopology(p, k) /\ ~overrideCutOver(p, HashOf[k])
      BY <3>1 DEF Owner
    <3>3. rows'[p][k] = rows[s][k]
      BY <3>2, <1>1 DEF MovesRows
    <3>4. RowsAt(p) = s /\ (RowsAt(p))' = p
      BY <1>2, <1>3 DEF RowsAt
    <3> QED BY <2>2, <3>1, <3>3, <3>4
  <2>3. CASE x # p
    <3>1. part'[x].source = part[x].source /\ (isImporting(x)' <=> isImporting(x))
      BY <2>3, <1>2, <1>3 DEF isImporting
    <3>2. isImporting(x) => ~IsHashRoot(x) /\ exists(x)
      BY ImportHasSource
    <3>3. isImporting(x) /\ CutOverTo(x)' => CutOverTo(x)
      BY <3>2, <1>6
    <3>4. /\ exists(x)' <=> exists(x)
          /\ routerRole(x)' <=> routerRole(x)
          /\ overrideCutOver(x, HashOf[k])' <=> overrideCutOver(x, HashOf[k])
      BY <2>1, <1>4
    <3>5. Owner(x, k) /\ (RowsAt(x))' = RowsAt(x)
      BY <3>1, <3>3, <3>4 DEF Owner, RowsAt
    <3> DEFINE z == RowsAt(x)
    <3>6. z \in Partitions /\ z # p
      <4>1. CASE isImporting(x)
        <5>1. z = part[x].source /\ part[x].source \in Partitions /\ ~isImporting(part[x].source)
          BY <4>1, <3>2, SourceIsActive DEF RowsAt
        <5> QED BY <5>1, <1>3
      <4>2. CASE ~isImporting(x)
        BY <4>2, <2>3 DEF RowsAt
      <4> QED BY <4>1, <4>2
    <3>7. rows'[z][k] = rows[z][k]
      <4>1. CASE z # s
        BY <4>1, <3>6, <1>1 DEF MovesRows
      <4>2. CASE z = s
        <5>1. ~(rows'[p][k] > 0)
          BY <2>3, <3>5, <1>7, OneOwner
        <5> QED BY <4>2, <5>1, <1>1 DEF MovesRows
      <4> QED BY <4>1, <4>2
    <3> QED BY <3>5, <3>7
  <2> QED BY <2>2, <2>3
<1>9. ASSUME NEW t \in Partitions, NEW k \in Keys, exists(t), ~IsHashRoot(t), ownsByTopology(t, k), SourceReads(part[t].source, t, k)'
      PROVE  rows'[part[t].source][k] = rows[part[t].source][k]
  <2> DEFINE z == part[t].source
  <2>1. z \in Partitions /\ z # p /\ part'[t].source = z
    BY <1>2, <1>3, <1>9, SourceIsActive
  <2>2. CASE z # s
    BY <2>1, <2>2, <1>1 DEF MovesRows
  <2>3. CASE z = s
    <3>1. SUFFICES ASSUME IsRangeRoot(p), rows'[p][k] > 0 PROVE FALSE
      BY <2>3, <1>1 DEF MovesRows
    <3>2. p.hash = HashOf[k] /\ p.kind = "range"
      BY <1>7, <3>1 DEF Owner, ownsByTopology, OwnsHash, IsRangeRoot
    <3>3. part'[s].promo[p.hash] = "completed" /\ s \in HashPartitions
      BY <3>1, <1>1, <1>3, <1>2, ImportHasSource DEF EndsPromotion, EndsSplit
    <3>4. t.kind = "range" => t.hash = HashOf[k]
      BY <1>9 DEF ownsByTopology, OwnsHash
    <3>5. t.kind = "range" => ~IsRangeRoot(t)
      <4> SUFFICES ASSUME t.kind = "range", IsRangeRoot(t) PROVE FALSE
        OBVIOUS
      <4>1. part'[s].promo[t.hash] = "completed"
        BY <3>2, <3>3, <3>4
      <4> QED BY <4>1, <2>1, <2>3, <1>9 DEF SourceReads
    <3>6. t.kind # "hash"
      <4> SUFFICES ASSUME t.kind = "hash" PROVE FALSE
        OBVIOUS
      <4>1. part'[s].promo[HashOf[k]] = "completed"
        BY <3>2, <3>3
      <4> QED BY <4>1, <2>1, <2>3, <1>9 DEF SourceReads
    <3>7. t.kind = "range" /\ ~IsRangeRoot(t)
      BY <3>5, <3>6, PartitionKinds
    <3>8. s.kind = "range"
      BY <2>3, <3>7, <1>9, SourceIsActive DEF Under
    <3> QED BY <3>3, <3>8, HashType
  <2> QED BY <2>2, <2>3
<1>10. \A q \in Partitions : exists(q) => exists(q)' /\ part'[q].source = part[q].source
  BY <1>2, <1>4
<1>11. \A q \in Partitions, g \in Hashes : exists(q) /\ part[q].promo[g] = "completed" => part'[q].promo[g] = "completed"
  BY <1>4
<1> QED BY <1>8, <1>9, <1>10, <1>11, ReadersKept

\* What every repartition step keeps.
LEMMA RepartitionKeeps ==
  ASSUME TopologyInv, RowsType, RepartitionStep
  PROVE  TopologyInv' /\ RowsType' /\ OwnersKeep /\ ReadersKeep
<1>1. CASE PlanSplit
  BY <1>1, PlanSplitTopology, PlanSplitRows DEF PlanSplit, RowsType
<1>2. CASE PlanPromotion
  BY <1>2, PlanPromotionTopology, PlanPromotionRows DEF PlanPromotion, RowsType
<1>3. CASE CutOver
  BY <1>3, CutOverTopology, CutOverRows DEF CutOver, RowsType
<1>4. CASE FirstPage
  BY <1>4, FirstPageTopology, FirstPageRows DEF FirstPage, RowsType
<1>5. CASE ImportCompletes
  BY <1>5, ImportCompletesTopology, ImportCompletesRows, ImportCompletesStep
<1> QED BY <1>1, <1>2, <1>3, <1>4, <1>5 DEF RepartitionStep

\* A partition never leaves the active state.
LEMMA ActiveStays ==
  ASSUME TopologyInv, RowsType, RepartitionStep
  PROVE  \A q \in Partitions : part[q].phase = "active" => part'[q].phase = "active"
<1> SUFFICES ASSUME NEW q \in Partitions, part[q].phase = "active" PROVE part'[q].phase = "active"
  OBVIOUS
<1>1. CASE PlanSplit
  <2>1. PICK p \in Partitions : \E kids \in SplitTargets(p) : PlansSplit(p, kids)
    BY <1>1, PlanSplitStep
  <2>2. PICK kids \in SplitTargets(p) : PlansSplit(p, kids)
    BY <2>1
  <2>3. q \notin kids
    BY <2>2 DEF PlansSplit
  <2>4. part'[p].phase = "active" /\ (q # p => part'[q] = part[q])
    BY <2>2, <2>3 DEF PlansSplit
  <2> QED BY <2>4
<1>2. CASE PlanPromotion
  <2>1. PICK p \in HashPartitions, h \in Promotable : PlansPromotion(p, h)
    BY <1>2, PlanPromotionStep
  <2>2. ~exists(RangeRoot(h)) /\ part'[p].phase = "active" /\ (q # p /\ q # RangeRoot(h) => part'[q] = part[q])
    BY <2>1, RootIsPartition DEF PlansPromotion
  <2> QED BY <2>2 DEF exists
<1>3. CASE CutOver
  <2>1. CASE \E p \in Partitions : CutsOverSplit(p)
    BY <2>1 DEF CutsOverSplit
  <2>2. CASE \E p \in HashPartitions, h \in Promotable : CutsOverPromotion(p, h)
    BY <2>2 DEF CutsOverPromotion
  <2> QED BY <1>3, <2>1, <2>2, CutOverStep
<1>4. CASE FirstPage
  <2>1. PICK p \in Partitions : ReceivesPage(p)
    BY <1>4, FirstPageStep
  <2> QED BY <2>1 DEF ReceivesPage
<1>5. CASE ImportCompletes
  <2>1. PICK p \in Partitions, s \in Partitions : Arrives(p, s)
    BY <1>5, ImportCompletesStep
  <2> QED BY <2>1 DEF Arrives
<1> QED BY <1>1, <1>2, <1>3, <1>4, <1>5 DEF RepartitionStep

\* The request and the call or the answer under way.
LEMMA UnderWay ==
  ASSUME RequestInv, flight.type # "idle"
  PROVE  /\ request \in RequestsUnderWay /\ (request.shape = "point" => \E k \in Keys : request.keys = {k})
         /\ flight.type = "call" => flight \in Calls
         /\ flight.type = "answer" => flight \in Answers
<1>1. flight # Idle
  BY DEF Idle
<1>2. /\ request \in RequestsUnderWay /\ (request.shape = "point" => \E k \in Keys : request.keys = {k})
      /\ flight \in Calls \/ flight \in Answers
  BY <1>1 DEF RequestInv
<1>3. (flight \in Calls => flight.type = "call") /\ (flight \in Answers => flight.type = "answer")
  BY DEF Calls, Answers
<1> QED BY <1>2, <1>3

\* A repartition step between any two steps of the request.
LEMMA RepartitionInv ==
  ASSUME IInv, RepartitionStep
  PROVE  IInv'
<1>1. TopologyInv /\ RowsInv /\ LearnedInv /\ RequestInv /\ ExecuteInv /\ AnswerInv /\ ReadsSeeEveryWrite
  BY DEF IInv
<1>2. RowsType
  BY <1>1 DEF RowsInv, RowsType
<1>3. UNCHANGED <<hints, cache, flight, stack, request, done, writes>>
  BY DEF RepartitionStep, PlanSplit, PlanPromotion, CutOver, FirstPage, ImportCompletes, hintVars, requestVars
<1>4. TopologyInv' /\ RowsType' /\ OwnersKeep /\ ReadersKeep
  BY <1>1, <1>2, RepartitionKeeps
<1>5. \A k \in Keys : (Ran(k))' = Ran(k)
  BY <1>3 DEF Ran
<1>6. RowsInv'
  <2>1. ASSUME NEW x \in Partitions, NEW k \in Keys, Owner(x, k)' PROVE (rows[RowsAt(x)][k] = Ran(k))'
    <3>1. PICK y \in Partitions : Owner(y, k) /\ (rows[RowsAt(x)][k])' = rows[RowsAt(y)][k]
      BY <1>4, <2>1 DEF OwnersKeep
    <3>2. rows[RowsAt(y)][k] = Ran(k)
      BY <1>1, <3>1 DEF RowsInv
    <3> QED BY <3>1, <3>2, <1>5
  <2>2. (rows \in [Partitions -> [Keys -> Nat]] /\ writes \in [Keys -> Nat])'
    BY <1>1, <1>3, <1>4 DEF RowsInv, RowsType
  <2> QED BY <2>1, <2>2 DEF RowsInv
<1>7. LearnedInv'
  BY <1>1, <1>3 DEF LearnedInv
<1>8. RequestInv'
  <2>1. ASSUME NEW i \in 1 .. Len(stack), stack[i].how = "forward" PROVE part'[stack[i].at].phase = "active"
    <3>1. part[stack[i].at].phase = "active" /\ stack[i] \in Frames
      BY <1>1, <2>1 DEF RequestInv
    <3>2. stack[i].at \in Partitions
      BY <3>1 DEF Frames
    <3> QED BY <3>1, <3>2, <1>1, <1>2, ActiveStays
  <2> QED BY <1>1, <1>3, <2>1 DEF RequestInv
<1>9. ExecuteInv'
  <2> SUFFICES ASSUME flight.type = "call", flight.mode = "execute"
              PROVE  ExecuteInv'
    BY <1>3 DEF ExecuteInv
  <2>1. request \in RequestsUnderWay /\ flight \in Calls
    BY <1>1, UnderWay
  <2>2. flight.from \in Partitions /\ request.keys \subseteq Keys /\ request.keys # {}
    BY <2>1 DEF RequestsUnderWay, Calls
  <2>3. PICK t \in Partitions : t = flight.from
    BY <2>2
  <2>4. PICK p \in Partitions : p = flight.to
    BY <2>1 DEF Calls
  <2>5. /\ request.op = "get" /\ exists(t) /\ part[t].source = p /\ ~IsHashRoot(t)
        /\ \A k \in request.keys : ownsByTopology(t, k) /\ (SourceReads(p, t, k) => rows[p][k] = Ran(k))
    BY <1>1, <2>3, <2>4 DEF ExecuteInv
  <2>6. ASSUME NEW k \in request.keys
        PROVE  /\ exists(t)' /\ part'[t].source = p
               /\ SourceReads(p, t, k)' => rows'[p][k] = Ran(k)
    <3>1. k \in Keys /\ ownsByTopology(t, k)
      BY <2>2, <2>5
    <3>2. /\ exists(t)' /\ part'[t].source = p
          /\ SourceReads(part[t].source, t, k)' =>
               /\ rows'[p][k] = rows[p][k]
               /\ SourceReads(p, t, k) \/ (Owner(p, k) /\ RowsAt(p) = p)
      BY <1>4, <2>5, <3>1 DEF ReadersKeep
    <3>3. ASSUME SourceReads(p, t, k)' PROVE rows'[p][k] = Ran(k)
      <4>1. SourceReads(part[t].source, t, k)'
        BY <3>3, <3>2, <2>5 DEF SourceReads
      <4>2. rows'[p][k] = rows[p][k] /\ (SourceReads(p, t, k) \/ (Owner(p, k) /\ RowsAt(p) = p))
        BY <4>1, <3>2
      <4>3. rows[p][k] = Ran(k)
        <5>1. CASE SourceReads(p, t, k)
          BY <5>1, <2>5
        <5>2. CASE Owner(p, k) /\ RowsAt(p) = p
          BY <5>2, <3>1, <1>1 DEF RowsInv
        <5> QED BY <5>1, <5>2, <4>2
      <4> QED BY <4>2, <4>3
    <3> QED BY <3>2, <3>3
  <2>7. exists(t)' /\ part'[t].source = p
    BY <2>2, <2>6
  <2>8. flight'.from = t /\ flight'.to = p /\ request' = request
    BY <1>3, <2>3, <2>4
  <2>9. \A k \in request.keys : (Ran(k))' = Ran(k) /\ ownsByTopology(t, k)
    BY <1>5, <2>2, <2>5
  <2> QED BY <2>5, <2>6, <2>7, <2>8, <2>9 DEF ExecuteInv, exists, SourceReads, CutOverTo, overrideCutOver, routerRole
<1>10. AnswerInv'
  <2> SUFFICES ASSUME flight.type = "answer", flight.code = "ok", request.op = "get" PROVE flight.value = Ran(FirstKey(request.keys))'
    BY <1>3 DEF AnswerInv
  <2>1. flight.value = Ran(FirstKey(request.keys))
    BY <1>1 DEF AnswerInv
  <2> QED BY <2>1, <1>3 DEF Ran
<1>11. ReadsSeeEveryWrite'
  BY <1>1, <1>3 DEF ReadsSeeEveryWrite
<1> QED BY <1>4, <1>6, <1>7, <1>8, <1>9, <1>10, <1>11 DEF IInv

----------------------------------------------------------------------------
(* What is learned. *)

\* A step that moves no partition.
LEMMA PartStays ==
  ASSUME part' = part
  PROVE  /\ TopologyInv => TopologyInv'
         /\ \A x \in Partitions : (exists(x)' <=> exists(x)) /\ (RowsAt(x))' = RowsAt(x) /\ (CutOverTo(x)' <=> CutOverTo(x))
         /\ \A x \in Partitions, k \in Keys : Owner(x, k)' <=> Owner(x, k)
<1>1. \A x \in Partitions : (exists(x)' <=> exists(x)) /\ (isImporting(x)' <=> isImporting(x)) /\ (routerRole(x)' <=> routerRole(x))
                            /\ (RowsAt(x))' = RowsAt(x) /\ (CutOverTo(x)' <=> CutOverTo(x))
  BY DEF exists, isImporting, routerRole, RowsAt, CutOverTo, overrideCutOver
<1>2. \A x \in Partitions, k \in Keys : Owner(x, k)' <=> Owner(x, k)
  BY <1>1 DEF Owner, overrideCutOver
<1>3. ASSUME TopologyInv PROVE TopologyInv'
  <2>1. PartType'
    BY <1>3 DEF TopologyInv, PartType
  <2>2. NestedInv'
    BY <1>3 DEF TopologyInv, NestedInv, exists
  <2>3. CoveredInv'
    BY <1>3 DEF TopologyInv, CoveredInv, exists
  <2>4. SplitInv'
    BY <1>3 DEF TopologyInv, SplitInv, TargetInv, exists, isImporting
  <2>5. SourceInv'
    BY <1>3 DEF TopologyInv, SourceInv, exists
  <2>6. HashRootInv'
    BY <1>3 DEF TopologyInv, HashRootInv
  <2>7. PromoInv'
    BY <1>3 DEF TopologyInv, PromoInv
  <2>8. RangeInv'
    BY <1>3 DEF TopologyInv, RangeInv, exists
  <2>9. RootInv'
    BY <1>3 DEF TopologyInv, RootInv, exists
  <2>10. InheritInv'
    BY <1>3 DEF TopologyInv, InheritInv, exists
  <2> QED BY <2>1, <2>2, <2>3, <2>4, <2>5, <2>6, <2>7, <2>8, <2>9, <2>10 DEF TopologyInv
<1> QED BY <1>1, <1>2, <1>3

\* A step that moves no row either.
LEMMA RowsStay ==
  ASSUME RowsInv, part' = part, rows' = rows, writes' \in [Keys -> Nat], \A k \in Keys : (Ran(k))' = Ran(k)
  PROVE  RowsInv'
<1>1. ASSUME NEW x \in Partitions, NEW k \in Keys, Owner(x, k)' PROVE (rows[RowsAt(x)][k] = Ran(k))'
  <2>1. Owner(x, k) /\ (RowsAt(x))' = RowsAt(x)
    BY <1>1, PartStays
  <2>2. rows[RowsAt(x)][k] = Ran(k)
    BY <2>1 DEF RowsInv
  <2> QED BY <2>1, <2>2
<1>2. (rows \in [Partitions -> [Keys -> Nat]] /\ writes \in [Keys -> Nat])'
  BY DEF RowsInv
<1> QED BY <1>1, <1>2 DEF RowsInv

\* A change of the hash view of one isolate keeps the types of the caches.
LEMMA SiteHash ==
  ASSUME NEW site, SiteType(site), NEW view, HashViewType(view)
  PROVE  SiteType([site EXCEPT !.hash = view])
<1> DEFINE next == [site EXCEPT !.hash = view]
<1>1. site = [hash |-> site.hash, range |-> [h \in Hashes |-> site.range[h]]] /\ \A h \in Hashes : RangeViewType(h, site.range[h])
  BY DEF SiteType
<1>2. next = [hash |-> view, range |-> [h \in Hashes |-> site.range[h]]]
  BY <1>1
<1> HIDE DEF next
<1>3. next.hash = view /\ next.range = [h \in Hashes |-> site.range[h]]
  BY <1>2
<1>4. \A h \in Hashes : next.range[h] = site.range[h]
  BY <1>3
<1>5. next = [hash |-> next.hash, range |-> [h \in Hashes |-> next.range[h]]]
  BY <1>2, <1>3, <1>4
<1>6. SiteType(next)
  BY <1>1, <1>3, <1>4, <1>5 DEF SiteType
<1> QED BY <1>6 DEF next

\* A change of a range view of one isolate keeps the types of the caches.
LEMMA SiteRange ==
  ASSUME NEW site, SiteType(site), NEW h \in Hashes, NEW view, RangeViewType(h, view)
  PROVE  SiteType([site EXCEPT !.range[h] = view])
<1> DEFINE next == [site EXCEPT !.range[h] = view]
<1>1. /\ site = [hash |-> site.hash, range |-> [g \in Hashes |-> site.range[g]]] /\ HashViewType(site.hash)
      /\ \A g \in Hashes : RangeViewType(g, site.range[g])
  BY DEF SiteType
<1>2. next = [hash |-> site.hash, range |-> [[g \in Hashes |-> site.range[g]] EXCEPT ![h] = view]]
  BY <1>1
<1> HIDE DEF next
<1>3. next.hash = site.hash /\ next.range = [g \in Hashes |-> IF g = h THEN view ELSE site.range[g]]
  BY <1>2
<1>4. \A g \in Hashes : next.range[g] = IF g = h THEN view ELSE site.range[g]
  BY <1>3
<1>5. next = [hash |-> next.hash, range |-> [g \in Hashes |-> next.range[g]]]
  BY <1>2, <1>3, <1>4
<1>6. \A g \in Hashes : RangeViewType(g, next.range[g])
  BY <1>1, <1>4
<1>7. SiteType(next)
  BY <1>1, <1>3, <1>5, <1>6 DEF SiteType
<1> QED BY <1>7 DEF next

\* One more entry of the caches, and one of the hints.
LEMMA CacheLearns ==
  ASSUME LearnedInv, hints' = hints, NEW s \in Sites, NEW site, SiteType(site), cache' = [cache EXCEPT ![s] = site]
  PROVE  LearnedInv'
<1>1. cache' = [t \in Sites |-> IF t = s THEN site ELSE cache[t]]
  BY DEF LearnedInv
<1>2. \A t \in Sites : cache'[t] = IF t = s THEN site ELSE cache[t]
  BY <1>1
<1>3. cache' = [t \in Sites |-> cache'[t]]
  BY <1>1, <1>2
<1>4. \A t \in Sites : SiteType(cache'[t])
  BY <1>2 DEF LearnedInv
<1> QED BY <1>3, <1>4 DEF LearnedInv

\* A change of the hints of one partition keeps the types of the hints.
LEMMA HintLearns ==
  ASSUME LearnedInv, NEW p \in Partitions, NEW hint, HintType(hint), hints' = [hints EXCEPT ![p] = hint],
         cache' = [s \in Sites |-> cache'[s]] /\ \A s \in Sites : SiteType(cache'[s])
  PROVE  LearnedInv'
<1>1. hints' = [q \in Partitions |-> IF q = p THEN hint ELSE hints[q]]
  BY DEF LearnedInv
<1>2. \A q \in Partitions : hints'[q] = IF q = p THEN hint ELSE hints[q]
  BY <1>1
<1>3. hints' = [q \in Partitions |-> hints'[q]]
  BY <1>1, <1>2
<1>4. \A q \in Partitions : HintType(hints'[q])
  BY <1>2 DEF LearnedInv
<1> QED BY <1>3, <1>4 DEF LearnedInv

\* The entries that the keeper's bodies give.
LEMMA CurrentViews ==
  ASSUME TopologyInv
  PROVE  HashViewType(CurrentHashView) /\ \A h \in Hashes : RangeViewType(h, CurrentRangeView(h))
<1>1. {h \in Hashes : \E p \in HashPartitions : part[p].promo[h] = "completed"} \subseteq Promotable
  BY DEF TopologyInv, PromoInv, Partitions
<1>2. HashViewType(CurrentHashView)
  <2>1. {p.path : p \in {q \in HashPartitions : part[q].split = "completed"}} \in SUBSET Seq(Nat)
    BY HashPaths DEF Partitions, HashPartitions, Hash
  <2> QED BY <1>1, <2>1 DEF HashViewType, CurrentHashView
<1>3. ASSUME NEW h \in Hashes PROVE RangeViewType(h, CurrentRangeView(h))
  <2>1. CASE \E p \in HashPartitions : part[p].promo[h] = "completed"
    <3>1. h \in Promotable
      BY <2>1 DEF TopologyInv, PromoInv, Partitions
    <3>2. RangeRoot(h) \in {r \in RangePartitions : r.hash = h}
      BY <3>1, RootIsPartition
    <3>3. ASSUME NEW r \in RangePartitions, r.hash = h, part[r].split = "completed", NEW c \in part[r].kids
          PROVE  c \in {q \in RangePartitions : q.hash = h}
      <4>1. r \in Partitions /\ r.kind = "range"
        BY RangeType DEF Partitions
      <4>2. c \in Partitions /\ TargetInv(r, c)
        BY <3>3, <4>1, Splitting
      <4>3. c.kind = "range" /\ c.hash = h
        BY <3>3, <4>1, <4>2 DEF TargetInv, Under
      <4> QED BY <4>2, <4>3, PartitionKinds
    <3> DEFINE slices == {RangeRoot(h)} \cup UNION {part[r].kids : r \in {q \in RangePartitions : q.hash = h /\ part[q].split = "completed"}}
    <3>4. slices \subseteq {r \in RangePartitions : r.hash = h}
      BY <3>2, <3>3
    <3>5. CurrentRangeView(h) = [known |-> TRUE, cut |-> {}, slices |-> slices]
      BY <2>1 DEF CurrentRangeView
    <3>6. RangeRoot(h) \in slices
      OBVIOUS
    <3> HIDE DEF slices
    <3> QED BY <3>1, <3>4, <3>5, <3>6 DEF RangeViewType
  <2>2. CASE ~\E p \in HashPartitions : part[p].promo[h] = "completed"
    BY <2>2 DEF RangeViewType, CurrentRangeView
  <2> QED BY <2>1, <2>2
<1> QED BY <1>2, <1>3

\* What changes only what is learned changes no answer.
LEMMA QuietInv ==
  ASSUME IInv, LearnedInv', UNCHANGED <<part, rows, flight, stack, request, done, writes>>
  PROVE  IInv'
<1>1. TopologyInv /\ RowsInv /\ LearnedInv /\ RequestInv /\ ExecuteInv /\ AnswerInv /\ ReadsSeeEveryWrite
  BY DEF IInv
<1>2. TopologyInv'
  BY <1>1, PartStays
<1>3. \A k \in Keys : (Ran(k))' = Ran(k)
  BY DEF Ran
<1>4. RowsInv'
  <2>1. writes' \in [Keys -> Nat]
    BY <1>1 DEF RowsInv
  <2> QED BY <1>1, <1>3, <2>1, RowsStay
<1>5. RequestInv'
  BY <1>1 DEF RequestInv
<1>6. ExecuteInv'
  BY <1>1 DEF ExecuteInv, exists, SourceReads, CutOverTo, overrideCutOver, routerRole, Ran
<1>7. AnswerInv'
  BY <1>1 DEF AnswerInv, Ran
<1>8. ReadsSeeEveryWrite'
  BY <1>1 DEF ReadsSeeEveryWrite
<1> QED BY <1>2, <1>4, <1>5, <1>6, <1>7, <1>8 DEF IInv

\* A refresh of a cached body keeps the invariant.
LEMMA RefreshCacheInv ==
  ASSUME IInv, RefreshCache
  PROVE  IInv'
<1>1. TopologyInv /\ LearnedInv
  BY DEF IInv
<1>2. PICK site \in Sites :
        \/ cache' = [cache EXCEPT ![site].hash = Refreshed(@, CurrentHashView)]
        \/ \E h \in Hashes : cache' = [cache EXCEPT ![site].range[h] = Refreshed(@, CurrentRangeView(h))]
  BY DEF RefreshCache
<1>3. UNCHANGED <<part, rows, hints, flight, stack, request, done, writes>>
  BY DEF RefreshCache, topologyVars, requestVars
<1>4. SiteType(cache[site]) /\ cache = [s \in Sites |-> cache[s]]
  BY <1>1 DEF LearnedInv
<1>5. CASE cache' = [cache EXCEPT ![site].hash = Refreshed(@, CurrentHashView)]
  <2> DEFINE view == Refreshed(cache[site].hash, CurrentHashView)
  <2>1. HashViewType(view)
    BY <1>1, <1>4, CurrentViews DEF Refreshed, SiteType
  <2>2. cache' = [cache EXCEPT ![site] = [cache[site] EXCEPT !.hash = view]]
    BY <1>5, <1>4
  <2> HIDE DEF view
  <2>3. SiteType([cache[site] EXCEPT !.hash = view])
    BY <1>4, <2>1, SiteHash
  <2>4. LearnedInv'
    BY <1>1, <1>3, <2>2, <2>3, CacheLearns
  <2> QED BY <1>3, <2>4, QuietInv
<1>6. ASSUME NEW h \in Hashes, cache' = [cache EXCEPT ![site].range[h] = Refreshed(@, CurrentRangeView(h))]
      PROVE  IInv'
  <2> DEFINE view == Refreshed(cache[site].range[h], CurrentRangeView(h))
  <2>1. RangeViewType(h, view)
    BY <1>1, <1>4, CurrentViews DEF Refreshed, SiteType
  <2>2. cache' = [cache EXCEPT ![site] = [cache[site] EXCEPT !.range[h] = view]]
    BY <1>6, <1>4
  <2> HIDE DEF view
  <2>3. SiteType([cache[site] EXCEPT !.range[h] = view])
    BY <1>4, <2>1, SiteRange
  <2>4. LearnedInv'
    BY <1>1, <1>3, <2>2, <2>3, CacheLearns
  <2> QED BY <1>3, <2>4, QuietInv
<1> QED BY <1>2, <1>5, <1>6

\* A restart, which loses hints that were not flushed, keeps the invariant.
LEMMA RestartInv ==
  ASSUME IInv, Restart
  PROVE  IInv'
<1>1. PICK p \in HashPartitions : hints' = [hints EXCEPT ![p].bloom = {}]
  BY DEF Restart
<1>2. UNCHANGED <<part, rows, cache, flight, stack, request, done, writes>>
  BY DEF Restart, topologyVars, requestVars
<1>3. p \in Partitions /\ LearnedInv
  BY DEF Partitions, IInv
<1>4. hints = [q \in Partitions |-> hints[q]] /\ HintType(hints[p])
  BY <1>3 DEF LearnedInv
<1> DEFINE hint == [hints[p] EXCEPT !.bloom = {}]
<1>5. HintType(hint)
  BY <1>4 DEF HintType
<1>6. hints' = [hints EXCEPT ![p] = hint]
  BY <1>1, <1>3, <1>4
<1> HIDE DEF hint
<1>7. cache' = [s \in Sites |-> cache'[s]] /\ \A s \in Sites : SiteType(cache'[s])
  BY <1>2, <1>3 DEF LearnedInv
<1>8. LearnedInv'
  BY <1>3, <1>5, <1>6, <1>7, HintLearns
<1> QED BY <1>2, <1>8, QuietInv

----------------------------------------------------------------------------
(* Resolution. *)

\* The path that a view gives a hash ends at one of its levels.
LEMMA CachedLeafType ==
  ASSUME NEW h \in Hashes, NEW view
  PROVE  \E n \in 1 .. Len(Digits[h]) : CachedLeaf(view, h) = PathOf(h, n)
<1> DEFINE L == Len(Digits[h])
           reached(n) == \A m \in 1 .. n - 1 : PathOf(h, m) \in view.splits /\ PathOf(h, m + 1) \notin view.cut
           good(n) == reached(n) /\ ~(n < L /\ reached(n + 1))
           T == {n \in 1 .. L : reached(n)}
<1>1. L \in Nat /\ L # 0
  BY HashesAssumption, LenProperties, EmptySeq
<1> HIDE DEF L
<1>2. reached(1)
  <2>1. \A m \in 1 .. 1 - 1 : FALSE
    OBVIOUS
  <2> QED BY <2>1
<1>3. 1 \in T
  BY <1>1, <1>2
<1>4. T \subseteq 0 .. L
  BY <1>1
<1>5. \E n \in T : \A m \in T : m <= n
  <2> HIDE DEF T
  <2> QED BY <1>1, <1>3, <1>4, LastExists
<1>6. PICK n \in T : \A m \in T : m <= n
  BY <1>5
<1>7. n \in 1 .. L /\ reached(n)
  OBVIOUS
<1>8. ~(n < L /\ reached(n + 1))
  <2> SUFFICES ASSUME n < L, reached(n + 1) PROVE FALSE
    OBVIOUS
  <2>1. n + 1 \in 1 .. L /\ ~(n + 1 <= n)
    BY <1>1, <1>7
  <2>2. n + 1 \in T
    BY <2>1
  <2> QED BY <2>1, <2>2, <1>6
<1> HIDE DEF reached, T
<1>9. good(n)
  BY <1>7, <1>8
<1>10. CachedLeaf(view, h) = PathOf(h, CHOOSE m \in 1 .. L : good(m))
  BY DEF CachedLeaf, reached, L
<1> HIDE DEF good
<1>11. (CHOOSE m \in 1 .. L : good(m)) \in 1 .. L
  BY <1>7, <1>9
<1> QED BY <1>10, <1>11 DEF L

\* The arena of a partition names a level of the path of the hash.
LEMMA FindLeafType ==
  ASSUME NEW p, NEW hint, NEW h \in Hashes, Len(p.path) \in Nat, Len(p.path) <= Len(Digits[h])
  PROVE  findLeaf(p, hint, h) \in 0 .. Len(Digits[h]) - Len(p.path)
<1> DEFINE L == Len(Digits[h]) - Len(p.path)
           known(n) == \A m \in 1 .. n : PathOf(h, Len(p.path) + m) \in hint.arena
           good(n) == known(n) /\ ~(n < L /\ known(n + 1))
           T == {n \in 0 .. L : known(n)}
<1>1. L \in Nat
  BY HashesAssumption, LenProperties
<1> HIDE DEF L
<1>2. known(0)
  <2>1. \A m \in 1 .. 0 : FALSE
    OBVIOUS
  <2> QED BY <2>1
<1>3. 0 \in T
  BY <1>1, <1>2
<1>4. T \subseteq 0 .. L
  OBVIOUS
<1>5. \E n \in T : \A m \in T : m <= n
  <2> HIDE DEF T
  <2> QED BY <1>1, <1>3, <1>4, LastExists
<1>6. PICK n \in T : \A m \in T : m <= n
  BY <1>5
<1>7. n \in 0 .. L /\ known(n)
  OBVIOUS
<1>8. ~(n < L /\ known(n + 1))
  <2> SUFFICES ASSUME n < L, known(n + 1) PROVE FALSE
    OBVIOUS
  <2>1. n + 1 \in 0 .. L /\ ~(n + 1 <= n)
    BY <1>1, <1>7
  <2>2. n + 1 \in T
    BY <2>1
  <2> QED BY <2>1, <2>2, <1>6
<1> HIDE DEF known, T
<1>9. good(n)
  BY <1>7, <1>8
<1>10. findLeaf(p, hint, h) = CHOOSE m \in 0 .. L : good(m)
  BY DEF findLeaf, known, L
<1> HIDE DEF good
<1>11. (CHOOSE m \in 0 .. L : good(m)) \in 0 .. L
  BY <1>7, <1>9
<1> QED BY <1>10, <1>11 DEF L

\* A set of learned slices has a deepest.
LEMMA DeepestType ==
  ASSUME TopologyInv, NEW S, S \subseteq RangePartitions, S # {}
  PROVE  Deepest(S) \in S
<1> DEFINE T == {part[s].depth : s \in S}
<1>1. ASSUME NEW s \in S PROVE part[s].depth \in 0 .. Top
  <2>1. s \in RangePartitions /\ s \in Partitions
    BY DEF Partitions
  <2>2. s.start \in Nat /\ s.end \in Nat /\ s.start < s.end
    BY <2>1, RangeType
  <2>3. part[s].depth \in Nat
    BY <2>1 DEF TopologyInv, PartType, Descriptions
  <2>4. part[s].depth + (s.end - s.start) <= Top
    BY <2>1 DEF TopologyInv, RangeInv
  <2> QED BY <2>2, <2>3, <2>4, TopType
<1>2. T \subseteq 0 .. Top
  BY <1>1
<1>3. T # {}
  OBVIOUS
<1>4. \E n \in T : \A m \in T : m <= n
  <2> HIDE DEF T
  <2> QED BY <1>2, <1>3, TopType, LastExists
<1>5. \E r \in S : \A s \in S : part[s].depth <= part[r].depth
  BY <1>4
<1> QED BY <1>5 DEF Deepest

\* A cached slice is a partition: at least the root holds the interval, and of those that hold it one is the smallest.
LEMMA CachedSliceType ==
  ASSUME NEW h \in Hashes, NEW view, RangeViewType(h, view), view.known, view.slices # {}, NEW from \in Keys, NEW to \in Keys
  PROVE  CachedSlice(view, from, to) \in RangePartitions
<1> DEFINE holding == {r \in view.slices \ view.cut : r.start <= from /\ to < r.end}
           T == {r.end - r.start : r \in holding}
<1>1. view.slices \subseteq {r \in RangePartitions : r.hash = h} /\ h \in Promotable /\ RangeRoot(h) \in view.slices \ view.cut
  <2>1. view # NoView
    <3> SUFFICES ASSUME view = NoView PROVE FALSE
      OBVIOUS
    <3>1. NoView.known = FALSE
      BY DEF NoView
    <3> QED BY <3>1
  <2>2. /\ view \in [known : {TRUE}, slices : SUBSET {r \in RangePartitions : r.hash = h}, cut : {view.cut}]
        /\ h \in Promotable /\ RangeRoot(h) \in view.slices \ view.cut
    BY <2>1 DEF RangeViewType
  <2>3. view.slices \in SUBSET {r \in RangePartitions : r.hash = h}
    BY <2>2
  <2> QED BY <2>2, <2>3
<1>2. RangeRoot(h) \in holding
  BY <1>1, RootIsPartition, TopType, KeysAssumption
<1>3. \A r \in holding : r \in RangePartitions /\ r.hash = h
  BY <1>1
<1>4. \A r \in holding : r.start \in Nat /\ r.end \in Nat /\ r.start < r.end /\ r = Slice(h, r.start, r.end)
  BY <1>3, RangeType
<1>5. CachedSlice(view, from, to) = CHOOSE r \in holding : ~\E s \in holding \ {r} : r.start <= s.start /\ s.end <= r.end
  BY DEF CachedSlice
<1> HIDE DEF holding
<1>6. \A r \in holding : r.end - r.start \in Nat
  BY <1>4
<1>7. T \subseteq Nat /\ T # {}
  BY <1>2, <1>6
<1>8. \E n \in T : \A m \in T : n <= m
  <2> HIDE DEF T
  <2> QED BY <1>7, FirstExists
<1>9. PICK r \in holding : \A s \in holding : r.end - r.start <= s.end - s.start
  BY <1>8
<1>10. ASSUME NEW s \in holding, s # r, r.start <= s.start, s.end <= r.end PROVE FALSE
  <2>1. r.end - r.start <= s.end - s.start
    BY <1>9
  <2>2. r.start = s.start /\ r.end = s.end
    BY <2>1, <1>4, <1>10
  <2> QED BY <2>2, <1>4, <1>10
<1>11. \E q \in holding : ~\E s \in holding \ {q} : q.start <= s.start /\ s.end <= q.end
  BY <1>10
<1> QED BY <1>3, <1>5, <1>11

\* A hash that a cached body takes for promoted is promotable.
LEMMA PromotedHash ==
  ASSUME NEW view, HashViewType(view), view.known, NEW h \in Hashes, isPromotedRoutingHash(view, h) # "no"
  PROVE  h \in Promotable
<1>1. view # NoView
  <2> SUFFICES ASSUME view = NoView PROVE FALSE
    OBVIOUS
  <2>1. NoView.known = FALSE
    BY DEF NoView
  <2> QED BY <2>1
<1>2. view \in [known : {TRUE}, splits : {view.splits}, promoted : SUBSET Promotable, cut : {view.cut}]
  BY <1>1 DEF HashViewType
<1>3. view.promoted \subseteq Promotable
  BY <1>2
<1>4. h \in view.promoted \cup FalsePositives
  BY DEF isPromotedRoutingHash, BloomHas
<1> QED BY <1>3, <1>4, HashesAssumption

\* Where there is no body, none is known.
LEMMA UnknownView == ~NoView.known
BY DEF NoView

\* The version of a cached body has its type.
LEMMA VersionType ==
  /\ \A view : HashViewType(view) /\ view.known => Version(view) \in Versions
  /\ \A view, h : RangeViewType(h, view) /\ view.known => Version(view) \in Versions
<1>1. ~NoView.known
  BY UnknownView
<1>2. ASSUME NEW view, HashViewType(view), view.known PROVE Version(view) \in Versions
  <2>1. view \in [known : {TRUE}, splits : SUBSET Seq(Nat), promoted : SUBSET Promotable, cut : {view.cut}]
    BY <1>1, <1>2 DEF HashViewType
  <2>2. Version(view) \in HashVersions
    BY <2>1 DEF Version, HashVersions
  <2> QED BY <2>2 DEF Versions
<1>3. ASSUME NEW view, NEW h, RangeViewType(h, view), view.known PROVE Version(view) \in Versions
  <2>1. view \in [known : {TRUE}, slices : SUBSET {r \in RangePartitions : r.hash = h}, cut : {view.cut}]
    BY <1>1, <1>3 DEF RangeViewType
  <2>2. Version(view) \in RangeVersions
    BY <2>1 DEF Version, RangeVersions
  <2> QED BY <2>2 DEF Versions
<1> QED BY <1>2, <1>3

\* A cut leaves a hash body a hash body, whichever body gave the hint.
LEMMA CutHashType ==
  ASSUME NEW view, HashViewType(view), NEW version, NEW hint
  PROVE  HashViewType(cutTopologyHint(view, version, hint))
<1>1. CASE ~(view.known /\ Version(view) = version)
  BY <1>1 DEF cutTopologyHint
<1>2. CASE view.known /\ Version(view) = version
  <2> DEFINE new == [view EXCEPT !.cut = @ \cup {hint}]
  <2>1. view \in [known : {TRUE}, splits : SUBSET Seq(Nat), promoted : SUBSET Promotable, cut : {view.cut}]
    BY <1>2, UnknownView DEF HashViewType
  <2>2. new \in [known : {TRUE}, splits : SUBSET Seq(Nat), promoted : SUBSET Promotable, cut : {new.cut}]
    BY <2>1
  <2>3. cutTopologyHint(view, version, hint) = new
    BY <1>2 DEF cutTopologyHint
  <2> HIDE DEF new
  <2> QED BY <2>2, <2>3 DEF HashViewType
<1> QED BY <1>1, <1>2

\* A cut of a slice that is not the root leaves the body of a range tree its root.
LEMMA CutRangeType ==
  ASSUME NEW h, NEW view, RangeViewType(h, view), NEW version, NEW hint, h \in Promotable => hint # RangeRoot(h)
  PROVE  RangeViewType(h, cutTopologyHint(view, version, hint))
<1>1. CASE ~(view.known /\ Version(view) = version)
  BY <1>1 DEF cutTopologyHint
<1>2. CASE view.known /\ Version(view) = version
  <2> DEFINE new == [view EXCEPT !.cut = @ \cup {hint}]
  <2>1. /\ view \in [known : {TRUE}, slices : SUBSET {r \in RangePartitions : r.hash = h}, cut : {view.cut}]
        /\ view.slices # {} => h \in Promotable /\ RangeRoot(h) \in view.slices \ view.cut
    BY <1>2, UnknownView DEF RangeViewType
  <2>2. /\ new.slices = view.slices /\ new.cut = view.cut \cup {hint}
        /\ new \in [known : {TRUE}, slices : SUBSET {r \in RangePartitions : r.hash = h}, cut : {new.cut}]
    BY <2>1
  <2>3. cutTopologyHint(view, version, hint) = new
    BY <1>2 DEF cutTopologyHint
  <2> HIDE DEF new
  <2> QED BY <2>1, <2>2, <2>3 DEF RangeViewType
<1> QED BY <1>1, <1>2

\* An entry is a partition of the hash of the key.
LEMMA RootEntryType ==
  ASSUME NEW k \in Keys
  PROVE  RootEntry(k) \in Entries
<1>1. HashOf[k] \in Hashes
  BY KeysAssumption
<1>2. 1 \in 1 .. Len(Digits[HashOf[k]])
  BY <1>1, HashesAssumption, LenProperties, EmptySeq
<1>3. Hash(PathOf(HashOf[k], 1)) \in Partitions
  BY <1>1, <1>2, PathPartition DEF Partitions
<1> QED BY <1>3 DEF RootEntry, Entry, Entries, Versions

\* The entry of a request is a partition, whatever the cache holds.
LEMMA EntryType ==
  ASSUME NEW views, SiteType(views), NEW scope \in Scopes, NEW bloom \in BOOLEAN
  PROVE  resolveKey(views, scope, bloom) \in Entries
<1> DEFINE k == scope.key
           h == HashOf[k]
           hit == IF bloom THEN isPromotedRoutingHash(views.hash, h) ELSE "no"
           leaf == CachedLeaf(views.hash, h)
           slice == CachedSlice(views.range[h], scope.from, scope.to)
<1>1. k \in Keys /\ scope.from \in Keys /\ scope.to \in Keys /\ h \in Hashes
  BY KeysAssumption DEF Scopes
<1>2. HashViewType(views.hash) /\ RangeViewType(h, views.range[h])
  BY <1>1 DEF SiteType
<1>3. RootEntry(k) \in Entries
  BY <1>1, RootEntryType
<1>4. CASE ~views.hash.known
  BY <1>3, <1>4 DEF resolveKey
<1>5. CASE views.hash.known
  <2>1. hit # "no" => h \in Promotable
    BY <1>1, <1>2, <1>5, PromotedHash
  <2>2. hit # "no" => RangeRoot(h) \in Partitions
    BY <2>1, RootIsPartition
  <2>3. views.range[h].known /\ views.range[h].slices # {} => slice \in Partitions
    BY <1>1, <1>2, CachedSliceType DEF Partitions
  <2>4. Hash(leaf) \in Partitions
    BY <1>1, CachedLeafType, PathPartition DEF Partitions
  <2>5. resolveKey(views, scope, bloom) =
          IF hit # "no" /\ (views.range[h].known /\ views.range[h].slices # {}) THEN Entry(slice, "slice", bloom, Version(views.range[h]))
          ELSE IF hit = "exact" \/ (hit = "maybe" /\ ~views.range[h].known) THEN Entry(RangeRoot(h), "promotion", bloom, NoView)
          ELSE IF Len(leaf) = 1 THEN RootEntry(k)
          ELSE Entry(Hash(leaf), "leaf", bloom, Version(views.hash))
    BY <1>5 DEF resolveKey
  <2> HIDE DEF hit, leaf, slice
  <2>6. \A x \in Partitions, by \in {"root", "slice", "promotion", "leaf"}, version \in Versions :
          Entry(x, by, bloom, version) \in Entries
    BY DEF Entry, Entries
  <2>a. /\ Version(views.hash) \in Versions /\ NoView \in Versions
        /\ views.range[h].known => Version(views.range[h]) \in Versions
    BY <1>2, <1>5, VersionType DEF Versions
  <2>7. CASE hit # "no" /\ (views.range[h].known /\ views.range[h].slices # {})
    BY <2>3, <2>5, <2>6, <2>7, <2>a
  <2>8. CASE ~(hit # "no" /\ (views.range[h].known /\ views.range[h].slices # {}))
             /\ (hit = "exact" \/ (hit = "maybe" /\ ~views.range[h].known))
    BY <2>2, <2>5, <2>6, <2>8, <2>a
  <2>9. CASE ~(hit # "no" /\ (views.range[h].known /\ views.range[h].slices # {}))
             /\ ~(hit = "exact" \/ (hit = "maybe" /\ ~views.range[h].known))
    BY <2>4, <2>5, <2>6, <2>9, <1>3, <2>a
  <2> QED BY <2>7, <2>8, <2>9
<1> QED BY <1>4, <1>5

\* After a miss: the entry of an answer that is not there, or not yet; and its cut is never that of a root of a range tree.
LEMMA FallbackType ==
  ASSUME NEW views, SiteType(views), NEW entry \in Entries, NEW scope \in Scopes, NEW e, NEW next \in MissFallback(views, entry, scope, e)
  PROVE  e.code \in {"not_initialized", "migrating"} /\ SiteType(next.views) /\ next.entry \in Entries
<1> DEFINE h == HashOf[scope.key]
           missing == e.code = "not_initialized" /\ e.at = entry.to
           cutSlice == [views EXCEPT !.range[h] = cutTopologyHint(@, entry.version, entry.to)]
           cutLeaf == [views EXCEPT !.hash = cutTopologyHint(@, entry.version, entry.to.path)]
           again(v, bloom) == {[entry |-> resolveKey(v, scope, bloom), views |-> v]}
<1>1. h \in Hashes /\ entry.bloom \in BOOLEAN
  BY KeysAssumption DEF Scopes, Entries
<1>2. ASSUME NEW v, SiteType(v), NEW bloom \in BOOLEAN, next \in again(v, bloom)
      PROVE  SiteType(next.views) /\ next.entry \in Entries
  BY <1>2, EntryType
<1>3. HashViewType(views.hash) /\ RangeViewType(h, views.range[h])
      /\ views = [hash |-> views.hash, range |-> [g \in Hashes |-> views.range[g]]]
  BY <1>1 DEF SiteType
<1>4. CASE entry.by \in {"slice", "promotion"} /\ IsRangeRoot(entry.to) /\ (missing \/ AwaitingData(e))
  <2>1. next \in again(views, FALSE)
    BY <1>4 DEF MissFallback
  <2> QED BY <1>2, <1>4, <2>1 DEF AwaitingData
<1>5. CASE entry.by = "slice" /\ ~IsRangeRoot(entry.to) /\ missing
  <2>1. next \in again(cutSlice, entry.bloom)
    BY <1>5 DEF MissFallback
  <2> DEFINE new == cutTopologyHint(views.range[h], entry.version, entry.to)
  <2>2. cutSlice = [views EXCEPT !.range[h] = new]
    BY <1>1, <1>3
  <2>3. RangeViewType(h, new)
    <3>1. h \in Promotable => entry.to # RangeRoot(h)
      BY <1>5, RootIsPartition
    <3> QED BY <1>3, <3>1, CutRangeType
  <2> HIDE DEF new
  <2>4. SiteType(cutSlice)
    BY <1>1, <2>2, <2>3, SiteRange
  <2> HIDE DEF cutSlice
  <2> QED BY <1>1, <1>2, <1>5, <2>1, <2>4
<1>6. CASE entry.by = "leaf" /\ missing
  <2>1. next \in again(cutLeaf, entry.bloom)
    BY <1>6 DEF MissFallback
  <2> DEFINE new == cutTopologyHint(views.hash, entry.version, entry.to.path)
  <2>2. cutLeaf = [views EXCEPT !.hash = new]
    BY <1>3
  <2>3. HashViewType(new)
    BY <1>3, CutHashType
  <2> HIDE DEF new
  <2>4. SiteType(cutLeaf)
    BY <2>2, <2>3, SiteHash
  <2> HIDE DEF cutLeaf
  <2> QED BY <1>1, <1>2, <1>6, <2>1, <2>4
<1> HIDE DEF cutSlice, cutLeaf, again
<1>7. CASE /\ ~(entry.by \in {"slice", "promotion"} /\ IsRangeRoot(entry.to) /\ (missing \/ AwaitingData(e)))
           /\ ~(entry.by = "slice" /\ ~IsRangeRoot(entry.to) /\ missing)
           /\ ~(entry.by = "leaf" /\ missing)
  <2>1. next \in {}
    BY <1>7 DEF MissFallback
  <2> QED BY <2>1
<1> QED BY <1>4, <1>5, <1>6, <1>7

----------------------------------------------------------------------------
(* What a partition resolves to. *)

\* A resolution, and where it leads.
Leads(r) == r \in Resolutions /\ (r.kind = "remote" => r.to \in Partitions)

\* From x the way to y leads down: deeper in the same tree, or from the hash tree to the range trees.
Down(x, y) == Under(x, y) \/ (x.kind = "hash" /\ y.kind = "range")

\* A partition that resolves a key to itself holds it; a partition that it resolves to lies down from it.
ResolvesTo(p, k, r) ==
  /\ r.kind = "local" => r = Local /\ ownsByTopology(p, k) /\ ~overrideCutOver(p, HashOf[k]) /\ ~routerRole(p)
  /\ r.kind = "remote" => Down(p, r.to)

\* The resolutions of the code: nowhere, a remote partition, and one that a hint names.
LEMMA NowhereLeads ==
  /\ Leads(Local) /\ Leads(OutOfRange) /\ Leads(SpansMany)
  /\ Local.kind = "local" /\ OutOfRange.kind = "out_of_range" /\ SpansMany.kind = "spans_many"
<1>1. NoView \in Versions /\ 1 \in Nat
  BY DEF Versions
<1>2. \A kind \in {"local", "out_of_range", "spans_many"} : Leads(Nowhere(kind)) /\ Nowhere(kind).kind = kind
  BY <1>1 DEF Nowhere, Leads, Resolutions, Resolution
<1> QED BY <1>2 DEF Local, OutOfRange, SpansMany

\* A forward down the hash tree leads to a partition.
LEMMA HashRemoteLeads ==
  ASSUME NEW x \in Partitions, NEW relDepth \in Nat, NEW version \in Versions
  PROVE  /\ Leads(Resolution("remote", x, "hash", FALSE, relDepth, version))
         /\ Resolution("remote", x, "hash", FALSE, relDepth, version).kind = "remote"
         /\ Resolution("remote", x, "hash", FALSE, relDepth, version).to = x
BY DEF Leads, Resolutions, Resolution

\* A forward to a partition leads to a partition.
LEMMA RemoteLeads ==
  ASSUME NEW x \in Partitions, NEW via \in {"none", "override", "bloom", "hash", "range"}
  PROVE  /\ Leads(Remote(x, via)) /\ Remote(x, via).kind = "remote" /\ Remote(x, via).to = x
         /\ Leads(RemoteLearned(x, via)) /\ RemoteLearned(x, via).kind = "remote" /\ RemoteLearned(x, via).to = x
<1>1. NoView \in Versions /\ 1 \in Nat
  BY DEF Versions
<1>2. Leads(Remote(x, via)) /\ Remote(x, via).kind = "remote" /\ Remote(x, via).to = x
  BY <1>1 DEF Remote, Leads, Resolutions, Resolution
<1>3. Leads(RemoteLearned(x, via)) /\ RemoteLearned(x, via).kind = "remote" /\ RemoteLearned(x, via).to = x
  BY <1>1 DEF RemoteLearned, Leads, Resolutions, Resolution
<1> QED BY <1>2, <1>3

\* The forward of a promoted key leads to a learned slice, or to the range root of its hash.
LEMMA RangeOwnerLeads ==
  ASSUME TopologyInv, NEW hint, HintType(hint), NEW k \in Keys, HashOf[k] \in Promotable,
         NEW via \in {"none", "override", "bloom", "hash", "range"}
  PROVE  Leads(rangeOwner(hint, k, via)) /\ rangeOwner(hint, k, via).kind = "remote" /\ rangeOwner(hint, k, via).to.kind = "range"
<1> DEFINE holding == {r \in hint.slices : Holds(r, k)}
           slice == findDeepestKnownRangeSlice(hint, k)
<1>1. hint.slices \subseteq RangePartitions
  BY DEF HintType
<1>2. CASE holding = {}
  <2>1. rangeOwner(hint, k, via) = Remote(RangeRoot(HashOf[k]), via)
    BY <1>2 DEF rangeOwner, findDeepestKnownRangeSlice
  <2>2. RangeRoot(HashOf[k]) \in Partitions /\ RangeRoot(HashOf[k]).kind = "range"
    BY RootIsPartition
  <2> QED BY <2>1, <2>2, RemoteLeads
<1>3. CASE holding # {}
  <2>1. Deepest(holding) \in RangePartitions
    BY <1>1, <1>3, DeepestType
  <2>2. slice = {Deepest(holding)}
    BY <1>3 DEF findDeepestKnownRangeSlice
  <2> DEFINE x == CHOOSE r \in slice : TRUE
  <2>3. x = Deepest(holding)
    BY <2>2
  <2>4. rangeOwner(hint, k, via) = RemoteLearned(x, via)
    BY <2>2 DEF rangeOwner
  <2>5. x \in Partitions /\ x.kind = "range"
    BY <2>1, <2>3, RangeType DEF Partitions
  <2> HIDE DEF x
  <2> QED BY <2>4, <2>5, RemoteLeads
<1> QED BY <1>2, <1>3

\* A hash partition that splits has a level of the hash below it.
LEMMA RouterHasLevels ==
  ASSUME TopologyInv, NEW p \in Partitions, p.kind = "hash", NEW k \in Keys, ownsByTopology(p, k)
  PROVE  /\ Len(p.path) \in Nat /\ Len(Digits[HashOf[k]]) \in Nat /\ Len(p.path) <= Len(Digits[HashOf[k]])
         /\ routerRole(p) => Len(p.path) < Len(Digits[HashOf[k]])
<1> DEFINE h == HashOf[k]
<1>1. h \in Hashes /\ OwnsHash(p, h)
  BY KeysAssumption DEF ownsByTopology
<1>2. Digits[h] \in Seq(Nat) /\ Len(Digits[h]) \in Nat
  BY <1>1, HashesAssumption, LenProperties
<1>3. p.path \in Seq(Nat) /\ Len(p.path) \in Nat /\ IsPrefix(p.path, Digits[h])
  BY <1>1, HashPaths DEF OwnsHash
<1>4. Len(p.path) <= Len(Digits[h])
  BY <1>2, <1>3, PrefixPointwise
<1>5. ASSUME routerRole(p) PROVE Len(p.path) < Len(Digits[h])
  <2>1. part[p].split # "none"
    BY <1>5 DEF routerRole
  <2>2. Tiles(part[p].kids, p)
    BY <2>1, Splitting
  <2>3. PICK c \in part[p].kids : ownsByTopology(c, k)
    BY <2>2 DEF Tiles
  <2>4. c \in Partitions /\ TargetInv(p, c)
    BY <2>1, Splitting
  <2>5. c.kind = "hash" /\ IsPrefix(p.path, c.path) /\ p # c /\ OwnsHash(c, h)
    BY <2>3, <2>4 DEF TargetInv, Under, ownsByTopology
  <2>6. c.path \in Seq(Nat) /\ c = Hash(c.path) /\ p = Hash(p.path) /\ Len(c.path) \in Nat
    BY <2>4, <2>5, HashPaths
  <2>7. IsPrefix(c.path, Digits[h])
    BY <2>5 DEF OwnsHash
  <2>8. Len(c.path) <= Len(Digits[h])
    BY <1>2, <2>6, <2>7, PrefixPointwise
  <2>9. Len(p.path) <= Len(c.path) /\ \A i \in 1 .. Len(p.path) : p.path[i] = c.path[i]
    BY <1>3, <2>5, <2>6, PrefixPointwise
  <2>10. Len(p.path) # Len(c.path)
    BY <1>3, <2>5, <2>6, <2>9, SeqEqual
  <2>11. Len(p.path) \in Nat /\ Len(c.path) \in Nat /\ Len(Digits[h]) \in Nat /\ Len(p.path) <= Len(c.path)
    BY <1>2, <1>3, <2>6, <2>9
  <2> QED BY <2>8, <2>10, <2>11
<1> QED BY <1>2, <1>3, <1>4, <1>5

\* A path of more levels of a hash lies below a partition that has the hash.
LEMMA DescendantLies ==
  ASSUME NEW p \in Partitions, p.kind = "hash", NEW h \in Hashes, OwnsHash(p, h), NEW n \in 1 .. Len(Digits[h]), Len(p.path) < n
  PROVE  Under(p, Hash(PathOf(h, n)))
<1>1. p.path \in Seq(Nat) /\ Len(p.path) \in Nat /\ IsPrefix(p.path, Digits[h])
  BY HashPaths DEF OwnsHash
<1>2. Digits[h] \in Seq(Nat) /\ Len(Digits[h]) \in Nat
  BY HashesAssumption, LenProperties
<1>3. \A i \in 1 .. Len(p.path) : p.path[i] = Digits[h][i]
  BY <1>1, <1>2, PrefixPointwise
<1>4. PathOf(h, n) \in Seq(Nat) /\ Len(PathOf(h, n)) = n /\ n \in Nat /\ \A i \in 1 .. n : PathOf(h, n)[i] = Digits[h][i]
  BY PathType
<1>5. ASSUME NEW i \in 1 .. Len(p.path) PROVE p.path[i] = PathOf(h, n)[i]
  <2>1. i \in 1 .. n
    BY <1>1, <1>4
  <2> QED BY <1>3, <1>4, <2>1
<1>6. IsPrefix(p.path, PathOf(h, n))
  <2>1. Len(p.path) <= Len(PathOf(h, n))
    BY <1>1, <1>4
  <2> QED BY <1>1, <1>4, <1>5, <2>1, PrefixPointwise
<1>7. Hash(PathOf(h, n)).kind = "hash" /\ Hash(PathOf(h, n)).path = PathOf(h, n)
  BY DEF Hash
<1>8. p # Hash(PathOf(h, n))
  BY <1>1, <1>4, <1>7
<1> QED BY <1>6, <1>7, <1>8 DEF Under

\* Resolution in the hash tree answers local only on an owner, and else leads to a partition below.
LEMMA HashOwnerLeads ==
  ASSUME TopologyInv, NEW p \in Partitions, p.kind = "hash", NEW hint, NEW view, HashViewType(view), NEW k \in Keys, ownsByTopology(p, k)
  PROVE  LET r == hashTopologyOwner(p, hint, view, HashOf[k])
         IN Leads(r) /\ (r.kind = "local" => r = Local /\ ~routerRole(p)) /\ (r.kind = "remote" => Under(p, r.to))
<1> DEFINE h == HashOf[k]
           learnedDepth == IF findLeaf(p, hint, h) > 1 THEN findLeaf(p, hint, h) ELSE 1
           leaf == CachedLeaf(view, h)
           cached == view.known /\ Len(leaf) - Len(p.path) >= learnedDepth
           relDepth == IF cached THEN Len(leaf) - Len(p.path) ELSE learnedDepth
           version == IF cached THEN Version(view) ELSE NoView
<1>1. h \in Hashes /\ OwnsHash(p, h)
  BY KeysAssumption DEF ownsByTopology
<1>2. CASE ~routerRole(p)
  BY <1>2, NowhereLeads DEF hashTopologyOwner
<1>3. CASE routerRole(p)
  <2>1. Len(p.path) \in Nat /\ Len(Digits[h]) \in Nat /\ Len(p.path) < Len(Digits[h])
    BY <1>3, RouterHasLevels
  <2> DEFINE L == Len(Digits[h]) - Len(p.path)
             f == findLeaf(p, hint, h)
  <2>a. Len(p.path) <= Len(Digits[h]) /\ L \in Nat /\ 1 <= L
    BY <2>1
  <2>2. f \in 0 .. L
    BY <1>1, <2>1, <2>a, FindLeafType
  <2>3. learnedDepth \in 1 .. L
    <3> HIDE DEF f, L
    <3>1. (IF f > 1 THEN f ELSE 1) \in 1 .. L
      BY <2>a, <2>2
    <3> QED BY <3>1 DEF f
  <2> HIDE DEF learnedDepth
  <2>4. PICK n \in 1 .. Len(Digits[h]) : leaf = PathOf(h, n)
    BY <1>1, CachedLeafType
  <2>5. leaf \in Seq(Nat) /\ Len(leaf) = n
    BY <1>1, <2>4, PathType
  <2> HIDE DEF leaf
  <2>6. relDepth \in 1 .. L /\ version \in Versions
    <3>1. Len(leaf) <= Len(Digits[h]) /\ Len(leaf) \in Nat
      BY <2>4, <2>5
    <3>2. Len(leaf) - Len(p.path) >= learnedDepth => Len(leaf) - Len(p.path) \in 1 .. L
      BY <2>1, <2>3, <3>1
    <3>3. relDepth \in 1 .. L
      BY <2>3, <3>2
    <3>4. version \in Versions
      BY VersionType DEF Versions
    <3> QED BY <3>3, <3>4
  <2>7. hashTopologyOwner(p, hint, view, h)
          = Resolution("remote", hashDescendant(p, h, relDepth), "hash", FALSE, relDepth, version)
    BY <1>3 DEF hashTopologyOwner, learnedDepth, leaf
  <2> HIDE DEF relDepth, version
  <2>8. Len(p.path) + relDepth \in 1 .. Len(Digits[h]) /\ relDepth \in Nat
    BY <2>1, <2>6
  <2>9. hashDescendant(p, h, relDepth) \in Partitions /\ Under(p, hashDescendant(p, h, relDepth))
    <3>1. hashDescendant(p, h, relDepth) \in Partitions
      BY <1>1, <2>8, PathPartition DEF hashDescendant, Partitions
    <3>2. PICK m \in 1 .. Len(Digits[h]) : m = Len(p.path) + relDepth
      BY <2>8
    <3>3. Len(p.path) < m
      BY <2>1, <2>6, <3>2
    <3>4. Under(p, Hash(PathOf(h, m)))
      BY <1>1, <3>3, DescendantLies
    <3> QED BY <3>1, <3>2, <3>4 DEF hashDescendant
  <2>10. PICK x \in Partitions : x = hashDescendant(p, h, relDepth) /\ Under(p, x)
    BY <2>9
  <2>11. hashTopologyOwner(p, hint, view, h) = Resolution("remote", x, "hash", FALSE, relDepth, version)
    BY <2>7, <2>10
  <2>12. relDepth \in Nat /\ version \in Versions /\ Under(p, x)
    BY <2>6, <2>8, <2>10
  <2> DEFINE to == Resolution("remote", x, "hash", FALSE, relDepth, version)
  <2>13. Leads(to) /\ to.kind = "remote" /\ to.to = x
    BY <2>12, HashRemoteLeads
  <2> HIDE DEF to
  <2>14. hashTopologyOwner(p, hint, view, h) = to
    BY <2>11 DEF to
  <2> QED BY <2>12, <2>13, <2>14
<1> QED BY <1>2, <1>3

\* Resolution in a range router never answers local, and leads to a partition below.
LEMMA RangeRouterLeads ==
  ASSUME TopologyInv, NEW p \in Partitions, p.kind = "range", NEW hint, HintType(hint), NEW k \in Keys, ownsByTopology(p, k),
         routerRole(p)
  PROVE  /\ Leads(rangeRouterOwner(p, hint, k)) /\ rangeRouterOwner(p, hint, k).kind = "remote"
         /\ Under(p, rangeRouterOwner(p, hint, k).to)
<1> DEFINE child == rangeChildFor(p, k)
           jump == {r \in findDeepestKnownRangeSlice(hint, k) : child.start <= r.start /\ r.end <= child.end /\ r # child}
<1>1. part[p].split # "none"
  BY DEF routerRole
<1>2. Tiles(part[p].kids, p) /\ \A c \in part[p].kids : c \in Partitions /\ Under(p, c)
  BY <1>1, Splitting DEF TargetInv
<1>3. \E c \in part[p].kids : ownsByTopology(c, k)
  BY <1>2 DEF Tiles
<1>4. child \in Partitions /\ Under(p, child)
  BY <1>2, <1>3 DEF rangeChildFor
<1>5. \A r \in findDeepestKnownRangeSlice(hint, k) : r \in Partitions /\ r.kind = "range" /\ r.hash = HashOf[k]
  <2> DEFINE holding == {r \in hint.slices : Holds(r, k)}
  <2>1. hint.slices \subseteq RangePartitions
    BY DEF HintType
  <2>2. holding # {} => Deepest(holding) \in holding
    BY <2>1, DeepestType
  <2>3. \A r \in holding : r \in Partitions /\ r.kind = "range" /\ r.hash = HashOf[k]
    BY <2>1, RangeType DEF Partitions, Holds
  <2> QED BY <2>2, <2>3 DEF findDeepestKnownRangeSlice
<1>6. rangeRouterOwner(p, hint, k)
        = IF jump = {} THEN Remote(child, "range") ELSE RemoteLearned(CHOOSE r \in jump : TRUE, "range")
  BY DEF rangeRouterOwner
<1>7. \A r \in jump : r \in Partitions /\ Under(p, r)
  <2> SUFFICES ASSUME NEW r \in jump PROVE r \in Partitions /\ Under(p, r)
    OBVIOUS
  <2>1. /\ r \in Partitions /\ r.kind = "range" /\ r.hash = HashOf[k]
        /\ child.start <= r.start /\ r.end <= child.end /\ r # child
    BY <1>5
  <2>2. child.kind = "range" /\ child.hash = HashOf[k]
    BY <1>4 DEF Under, ownsByTopology, OwnsHash
  <2> HIDE DEF child
  <2>3. Under(child, r)
    BY <2>1, <2>2 DEF Under
  <2> QED BY <1>4, <2>1, <2>3, UnderOrder
<1> HIDE DEF child, jump
<1>8. CASE jump = {}
  BY <1>4, <1>6, <1>8, RemoteLeads
<1>9. CASE jump # {}
  BY <1>6, <1>7, <1>9, RemoteLeads
<1> QED BY <1>8, <1>9

\* One key.
LEMMA ResolveLeads ==
  ASSUME TopologyInv, NEW p \in Partitions, NEW hint, HintType(hint), NEW view, HashViewType(view), NEW k \in Keys, NEW bloom
  PROVE  Leads(resolve(p, hint, view, k, bloom)) /\ ResolvesTo(p, k, resolve(p, hint, view, k, bloom))
<1> DEFINE h == HashOf[k]
           r == resolve(p, hint, view, k, bloom)
<1>1. h \in Hashes
  BY KeysAssumption
<1>2. CASE ~ownsByTopology(p, k)
  <2>1. r = OutOfRange
    BY <1>2 DEF resolve
  <2> QED BY <2>1, NowhereLeads DEF ResolvesTo
<1>3. CASE ownsByTopology(p, k) /\ p.kind = "hash"
  <2>1. r = IF overrideCutOver(p, h) THEN rangeOwner(hint, k, "override")
            ELSE IF bloom /\ maybePromoted(hint, h) THEN rangeOwner(hint, k, "bloom")
            ELSE hashTopologyOwner(p, hint, view, h)
    BY <1>3 DEF resolve
  <2>2. CASE overrideCutOver(p, h)
    <3>1. h \in Promotable
      BY <2>2, <1>1 DEF overrideCutOver, TopologyInv, PromoInv
    <3> QED BY <1>3, <2>1, <2>2, <3>1, RangeOwnerLeads DEF ResolvesTo, Down
  <2>3. CASE ~overrideCutOver(p, h) /\ bloom /\ maybePromoted(hint, h)
    <3>1. h \in Promotable
      BY <2>3, HashesAssumption DEF maybePromoted, BloomHas, HintType
    <3> QED BY <1>3, <2>1, <2>3, <3>1, RangeOwnerLeads DEF ResolvesTo, Down
  <2>4. CASE ~overrideCutOver(p, h) /\ ~(bloom /\ maybePromoted(hint, h))
    <3>1. r = hashTopologyOwner(p, hint, view, h)
      BY <2>1, <2>4
    <3>2. Leads(r) /\ (r.kind = "local" => r = Local /\ ~routerRole(p)) /\ (r.kind = "remote" => Under(p, r.to))
      BY <1>3, <3>1, HashOwnerLeads
    <3> QED BY <1>3, <2>4, <3>2 DEF ResolvesTo, Down
  <2> QED BY <2>2, <2>3, <2>4
<1>4. CASE ownsByTopology(p, k) /\ p.kind = "range"
  <2>1. r = IF routerRole(p) THEN rangeRouterOwner(p, hint, k) ELSE Local
    BY <1>4 DEF resolve
  <2>2. ~overrideCutOver(p, h)
    BY <1>1, <1>4 DEF TopologyInv, PromoInv, overrideCutOver
  <2>3. CASE routerRole(p)
    BY <1>4, <2>1, <2>3, RangeRouterLeads DEF ResolvesTo, Down
  <2>4. CASE ~routerRole(p)
    BY <1>4, <2>1, <2>2, <2>4, NowhereLeads DEF ResolvesTo
  <2> QED BY <2>3, <2>4
<1> QED BY <1>2, <1>3, <1>4, PartitionKinds

\* The keys of a request together.
LEMMA SingleOwnerLeads ==
  ASSUME TopologyInv, NEW p \in Partitions, NEW hint, HintType(hint), NEW view, HashViewType(view),
         NEW keys \in (SUBSET Keys) \ {{}}, NEW bloom
  PROVE  LET r == singleOwnerOnce(p, hint, view, keys, bloom)
         IN Leads(r) /\ \A k \in keys : ResolvesTo(p, k, r)
<1> DEFINE owners == {[key |-> k, res |-> resolve(p, hint, view, k, bloom)] : k \in keys}
           found == {o.res : o \in owners}
           targets == {o.res.to : o \in {x \in owners : x.res.kind = "remote"}}
           first == CHOOSE o \in owners : \A x \in owners : o.key <= x.key
           r == singleOwnerOnce(p, hint, view, keys, bloom)
<1> SUFFICES Leads(r) /\ \A k \in keys : ResolvesTo(p, k, r)
  OBVIOUS
<1>1. r = IF OutOfRange \in found THEN OutOfRange
          ELSE IF found = {Local} THEN Local
          ELSE IF Cardinality(targets) > 1 \/ Local \in found THEN SpansMany
          ELSE first.res
  BY DEF singleOwnerOnce
<1>2. ASSUME NEW k \in keys
      PROVE  /\ Leads(resolve(p, hint, view, k, bloom)) /\ ResolvesTo(p, k, resolve(p, hint, view, k, bloom))
             /\ resolve(p, hint, view, k, bloom) \in found
  <2>1. k \in Keys /\ resolve(p, hint, view, k, bloom) \in found
    <3> DEFINE o == [key |-> k, res |-> resolve(p, hint, view, k, bloom)]
    <3>1. o \in owners
      OBVIOUS
    <3>2. o.res \in found
      <4> HIDE DEF o, owners
      <4> QED BY <3>1
    <3> QED BY <3>2
  <2> HIDE DEF found, owners
  <2> QED BY <2>1, ResolveLeads
<1>3. \E k \in keys : first.res = resolve(p, hint, view, k, bloom)
  <2>1. PICK k \in keys : \A j \in keys : k <= j
    <3>1. keys \subseteq Nat /\ keys # {}
      BY KeysAssumption
    <3> QED BY <3>1, FirstExists
  <2>2. [key |-> k, res |-> resolve(p, hint, view, k, bloom)] \in owners
    OBVIOUS
  <2>3. \E o \in owners : \A x \in owners : o.key <= x.key
    BY <2>1, <2>2
  <2>4. first \in owners
    BY <2>3
  <2> HIDE DEF first
  <2> QED BY <2>4
<1> HIDE DEF found, targets, first, r
<1>4. CASE OutOfRange \in found
  BY <1>1, <1>4, NowhereLeads DEF ResolvesTo
<1>5. CASE OutOfRange \notin found /\ found = {Local}
  <2>1. r = Local
    BY <1>1, <1>5
  <2>2. ASSUME NEW k \in keys PROVE ResolvesTo(p, k, Local)
    BY <1>2, <1>5
  <2> QED BY <2>1, <2>2, NowhereLeads
<1>6. CASE OutOfRange \notin found /\ found # {Local} /\ (Cardinality(targets) > 1 \/ Local \in found)
  BY <1>1, <1>6, NowhereLeads DEF ResolvesTo
<1>7. CASE OutOfRange \notin found /\ found # {Local} /\ ~(Cardinality(targets) > 1 \/ Local \in found)
  <2>1. r = first.res
    BY <1>1, <1>7
  <2>2. PICK k \in keys : r = resolve(p, hint, view, k, bloom)
    BY <1>3, <2>1
  <2>3. Leads(r) /\ r.kind # "local" /\ (r.kind = "remote" => Down(p, r.to))
    BY <1>2, <1>7, <2>2 DEF ResolvesTo
  <2> QED BY <2>3 DEF ResolvesTo
<1> QED BY <1>4, <1>5, <1>6, <1>7

\* The resolution of a request, of either shape, answers local only on an owner of all of its keys.
LEMMA OwnerLeads ==
  ASSUME TopologyInv, NEW p \in Partitions, NEW hint, HintType(hint), NEW view, HashViewType(view), NEW req \in RequestsUnderWay,
         req.shape = "point" => \E k \in Keys : req.keys = {k}, NEW bloom
  PROVE  LET r == OwnerOf(p, hint, view, req, bloom)
         IN Leads(r) /\ (r.kind = "remote" => r.to \in Partitions) /\ \A k \in req.keys : k \in Keys /\ ResolvesTo(p, k, r)
<1> DEFINE r == OwnerOf(p, hint, view, req, bloom)
<1> SUFFICES Leads(r) /\ \A k \in req.keys : k \in Keys /\ ResolvesTo(p, k, r)
  BY DEF Leads
<1>1. req.keys \in (SUBSET Keys) \ {{}} /\ req.shape \in {"point", "single_owner"}
  BY DEF RequestsUnderWay
<1>2. CASE req.shape = "point"
  <2>1. PICK k \in Keys : req.keys = {k}
    BY <1>2
  <2>2. (CHOOSE j \in req.keys : TRUE) = k
    BY <2>1
  <2>3. r = resolve(p, hint, view, k, bloom)
    BY <1>2, <2>2 DEF OwnerOf
  <2> QED BY <2>1, <2>3, ResolveLeads
<1>3. CASE req.shape = "single_owner"
  <2>1. r = singleOwner(p, hint, view, req.keys, bloom)
    BY <1>3 DEF OwnerOf
  <2>2. \E b : r = singleOwnerOnce(p, hint, view, req.keys, b)
    BY <2>1 DEF singleOwner
  <2>3. PICK b : r = singleOwnerOnce(p, hint, view, req.keys, b)
    BY <2>2
  <2> HIDE DEF r
  <2>4. PICK keys \in (SUBSET Keys) \ {{}} : keys = req.keys
    BY <1>1
  <2>5. r = singleOwnerOnce(p, hint, view, keys, b)
    BY <2>3, <2>4
  <2>6. Leads(r) /\ \A k \in keys : ResolvesTo(p, k, r)
    BY <2>5, SingleOwnerLeads
  <2> QED BY <1>1, <2>4, <2>6
<1> QED BY <1>1, <1>2, <1>3

----------------------------------------------------------------------------
(* What an answer teaches. *)

\* A served node is a node.
LEMMA NodeType ==
  ASSUME NEW p \in Partitions
  PROVE  /\ Node(p) \in Nodes
         /\ \A nodes \in SUBSET Nodes : StampRangeNodes(p, nodes) \in SUBSET Nodes
<1>1. p.kind = "hash" => identityDepth(p) \in Int
  BY HashPaths DEF identityDepth
<1>2. Node(p) \in Nodes
  BY <1>1 DEF Node, Nodes
<1>3. ASSUME NEW nodes \in SUBSET Nodes, NEW n \in nodes, p.kind = "hash" PROVE [n EXCEPT !.hashDepth = identityDepth(p)] \in Nodes
  <2>1. n \in [ref : Partitions, hashDepth : Int]
    BY DEF Nodes
  <2>2. [n EXCEPT !.hashDepth = identityDepth(p)] = [ref |-> n.ref, hashDepth |-> identityDepth(p)]
    BY <2>1
  <2> QED BY <1>1, <1>3, <2>1, <2>2 DEF Nodes
<1>4. ASSUME NEW nodes \in SUBSET Nodes PROVE StampRangeNodes(p, nodes) \in SUBSET Nodes
  BY <1>3 DEF StampRangeNodes
<1> QED BY <1>2, <1>4

\* What is learned from served nodes: slices of range partitions, and hashes of ranges in the filter.
LEMMA LearnType ==
  ASSUME LearnedInv, NEW p \in Partitions, NEW nodes \in SUBSET Nodes, NEW keys, NEW hint \in learn(p, nodes, keys)
  PROVE  HintType(hint)
<1> DEFINE old == hints[p]
           minRangeDepth == IF p.kind = "hash" THEN 1 ELSE identityDepth(p) + 2
           ranges == {n \in nodes : n.ref.kind = "range"}
           slices == {r \in UNION {{n.ref} \cup RangeAncestors(n.ref) : n \in ranges} : part[r].depth >= minRangeDepth}
           paths == {<<n.ref.hash, n.hashDepth - identityDepth(p)>> : n \in ranges}
                    \cup {<<HashOf[x[2]], x[1].hashDepth - identityDepth(p)>> :
                            x \in {y \in (nodes \ ranges) \X keys : OwnsHash(y[1].ref, HashOf[y[2]])}}
           arena == IF p.kind = "hash" /\ (routerRole(p) \/ old.arena # {})
                      THEN old.arena \cup UNION {updateFromHint(p, {}, x[1], x[2]) : x \in {y \in paths : y[2] > 0}}
                      ELSE old.arena
           bloom == IF p.kind = "hash" THEN old.bloom \cup {n.ref.hash : n \in ranges} ELSE old.bloom
<1>1. \A n \in ranges : n.ref \in RangePartitions /\ n.ref.hash \in Promotable
  <2> SUFFICES ASSUME NEW n \in ranges PROVE n.ref \in RangePartitions /\ n.ref.hash \in Promotable
    OBVIOUS
  <2>1. n.ref \in Partitions /\ n.ref.kind = "range"
    BY DEF Nodes
  <2>2. n.ref \in RangePartitions
    BY <2>1, PartitionKinds
  <2> QED BY <2>2, RangeType
<1>2. slices \subseteq RangePartitions
  BY <1>1 DEF RangeAncestors
<1>3. HintType(old)
  BY DEF LearnedInv
<1>4. old.slices \subseteq RangePartitions /\ old.bloom \subseteq Promotable
  BY <1>3 DEF HintType
<1>5. bloom \subseteq Promotable
  BY <1>1, <1>4
<1>6. \A kept \in learnRangeBoundary(old.slices, slices) : kept \subseteq RangePartitions
  <2> HIDE DEF slices, old
  <2> QED BY <1>2, <1>4 DEF learnRangeBoundary
<1>7. hint \in {[slices |-> kept, arena |-> arena, bloom |-> bloom] : kept \in learnRangeBoundary(old.slices, slices)}
  BY DEF learn
<1> HIDE DEF old, slices, paths, arena, bloom
<1>8. PICK kept \in learnRangeBoundary(old.slices, slices) : hint = [slices |-> kept, arena |-> arena, bloom |-> bloom]
  BY <1>7
<1> QED BY <1>5, <1>6, <1>8 DEF HintType

\* A missed hint leaves a hint and a body of their types, and only a refusal is a miss.
LEMMA LadderType ==
  ASSUME NEW f \in Frames, NEW hint, HintType(hint), NEW view, HashViewType(view), NEW e \in Answers,
         NEW next \in missLadder(f, hint, view, e)
  PROVE  /\ HintType(next.hint) /\ HashViewType(next.view)
         /\ e.code \in {"not_initialized", "migrating", "not_cut_over"}
<1> DEFINE point == request.shape = "point"
           h == HashOf[FirstKey(request.keys)]
           missing(kind) == e.code = "not_initialized" /\ e.at.kind = kind
           notCutOver == e.code = "not_cut_over" /\ request.op = "get"
           slice == f.res.learned /\ missing("range")
           filter == f.res.via = "bloom" /\ ~slice /\ (missing("range") \/ AwaitingData(e) \/ notCutOver)
           level == f.res.via = "hash" /\ f.res.relDepth > 1 /\ missing("hash")
           cutArena == invalidate(f.at, hint.arena, h, f.res.relDepth)
           cutView == cutTopologyHint(view, f.res.version, f.res.to.path)
<1>1. missLadder(f, hint, view, e) =
        CASE slice -> {[bloom |-> point /\ f.res.via = "bloom", hint |-> deleteLearnedRangeSlice(hint, f.res.to), view |-> view]}
          [] filter -> {[bloom |-> FALSE, hint |-> hint, view |-> view]}
          [] level -> {[bloom |-> point, hint |-> [hint EXCEPT !.arena = cutArena], view |-> cutView]}
          [] OTHER -> {}
  BY DEF missLadder
<1>2. hint \in [slices : SUBSET RangePartitions, arena : {hint.arena}, bloom : SUBSET Promotable]
  BY DEF HintType
<1>3. HintType(deleteLearnedRangeSlice(hint, f.res.to))
  BY <1>2 DEF HintType, deleteLearnedRangeSlice
<1>4. HintType([hint EXCEPT !.arena = cutArena])
  <2> HIDE DEF cutArena
  <2> QED BY <1>2 DEF HintType
<1>5. HashViewType(cutView)
  BY CutHashType
<1>6. slice \/ filter \/ level => e.code \in {"not_initialized", "migrating", "not_cut_over"}
  BY DEF AwaitingData
<1>7. ~(slice /\ filter) /\ ~(slice /\ level) /\ ~(filter /\ level)
  <2>1. ~(slice /\ filter)
    OBVIOUS
  <2>2. ~(filter /\ level)
    OBVIOUS
  <2>3. ~(slice /\ level)
    OBVIOUS
  <2> QED BY <2>1, <2>2, <2>3
<1> HIDE DEF point, h, missing, notCutOver, slice, filter, level, cutArena, cutView
<1>8. CASE slice
  BY <1>1, <1>3, <1>6, <1>7, <1>8
<1>9. CASE filter
  BY <1>1, <1>6, <1>7, <1>9
<1>10. CASE level
  BY <1>1, <1>4, <1>5, <1>6, <1>7, <1>10
<1>11. CASE ~slice /\ ~filter /\ ~level
  BY <1>1, <1>11
<1> QED BY <1>8, <1>9, <1>10, <1>11

----------------------------------------------------------------------------
(* The request under way. *)

\* The callers that wait; one that forwards was active, and an active partition stays so.
StackType(s) ==
  s \in Seq(Frames) /\ \A i \in 1 .. Len(s) : s[i].how = "forward" => part[s[i].at].phase = "active"

\* A caller more, or one less.
LEMMA StackPush ==
  ASSUME NEW s, StackType(s), NEW f \in Frames, f.how = "forward" => part[f.at].phase = "active"
  PROVE  StackType(<<f>> \o s)
<1>1. s \in Seq(Frames) /\ Len(s) \in Nat /\ \A i \in 1 .. Len(s) : s[i].how = "forward" => part[s[i].at].phase = "active"
  BY LenProperties DEF StackType
<1>2. <<f>> \in Seq(Frames) /\ Len(<<f>>) = 1 /\ <<f>>[1] = f
  OBVIOUS
<1> DEFINE t == <<f>> \o s
<1>3. t \in Seq(Frames) /\ Len(t) = 1 + Len(s) /\ \A i \in 1 .. Len(t) : t[i] = IF i <= 1 THEN <<f>>[i] ELSE s[i - 1]
  BY <1>1, <1>2, ConcatProperties
<1> HIDE DEF t
<1>4. ASSUME NEW i \in 1 .. Len(t), t[i].how = "forward" PROVE part[t[i].at].phase = "active"
  <2>1. CASE i = 1
    BY <2>1, <1>2, <1>3, <1>4
  <2>2. CASE i # 1
    <3>1. i - 1 \in 1 .. Len(s) /\ t[i] = s[i - 1]
      BY <2>2, <1>1, <1>3
    <3> QED BY <3>1, <1>1, <1>4
  <2> QED BY <2>1, <2>2
<1> QED BY <1>3, <1>4 DEF StackType, t

\* Without its last frame a stack is a stack.
LEMMA StackPop ==
  ASSUME NEW s, StackType(s), s # <<>>
  PROVE  /\ StackType(Tail(s)) /\ Head(s) \in Frames
         /\ Head(s).how = "forward" => part[Head(s).at].phase = "active"
<1>1. s \in Seq(Frames) /\ \A i \in 1 .. Len(s) : s[i].how = "forward" => part[s[i].at].phase = "active"
  BY DEF StackType
<1>2. Len(s) \in Nat \ {0}
  BY <1>1, EmptySeq, LenProperties
<1>3. Head(s) = s[1] /\ Head(s) \in Frames
  BY <1>1, <1>2, HeadTailProperties
<1>4. /\ Tail(s) \in Seq(Frames) /\ Len(Tail(s)) = Len(s) - 1
      /\ \A i \in 1 .. Len(Tail(s)) : Tail(s)[i] = s[i + 1]
  BY <1>1, <1>2, HeadTailProperties
<1>5. ASSUME NEW i \in 1 .. Len(Tail(s)), Tail(s)[i].how = "forward" PROVE part[Tail(s)[i].at].phase = "active"
  <2>1. i + 1 \in 1 .. Len(s) /\ Tail(s)[i] = s[i + 1]
    BY <1>2, <1>4
  <2> QED BY <2>1, <1>1, <1>5
<1> QED BY <1>1, <1>2, <1>3, <1>4, <1>5 DEF StackType

\* No write has run of which the answer is under way.
Quiet == ~(flight.type = "answer" /\ flight.code \in {"ok", "lost"})

\* A step from one call or refusal to another changes no number of writes that ran.
LEMMA RanStays ==
  ASSUME writes' = writes, request # None, request' # None, request'.op = request.op, request'.keys = request.keys,
         (flight'.type = "answer" /\ flight'.code \in {"ok", "lost"}) <=> ~Quiet
  PROVE  \A k \in Keys : (Ran(k))' = Ran(k)
BY DEF Ran, Quiet

\* A request under way, and its call or answer.
LEMMA UnderWayMeans ==
  ASSUME RequestInv, flight.type \in {"call", "answer"}
  PROVE  /\ request \in RequestsUnderWay /\ request # None /\ StackType(stack)
         /\ request.shape = "point" => \E k \in Keys : request.keys = {k}
         /\ request.keys \subseteq Keys /\ request.keys # {}
         /\ FirstKey(request.keys) \in request.keys
         /\ flight.type = "call" => flight \in Calls
         /\ flight.type = "answer" => flight \in Answers
<1>1. /\ request \in RequestsUnderWay /\ (request.shape = "point" => \E k \in Keys : request.keys = {k})
      /\ flight.type = "call" => flight \in Calls
      /\ flight.type = "answer" => flight \in Answers
  BY UnderWay
<1>2. request.shape \in {"point", "single_owner"} /\ request.keys \subseteq Keys /\ request.keys # {}
  BY <1>1 DEF RequestsUnderWay
<1>3. request # None
  <2> SUFFICES ASSUME request = None PROVE FALSE
    OBVIOUS
  <2>1. None.shape = "none"
    BY DEF None
  <2> QED BY <2>1, <1>2
<1>4. FirstKey(request.keys) \in request.keys
  <2>1. \E k \in request.keys : \A j \in request.keys : k <= j
    <3>1. request.keys \subseteq Nat
      BY <1>2, KeysAssumption
    <3> QED BY <3>1, <1>2, FirstExists
  <2> QED BY <2>1 DEF FirstKey
<1>5. StackType(stack)
  BY DEF RequestInv, StackType
<1> QED BY <1>1, <1>2, <1>3, <1>4, <1>5

\* A step of the request, put together.
LEMMA RequestMoves ==
  ASSUME IInv, part' = part, UNCHANGED <<writes, done>>, LearnedInv', RowsInv', ExecuteInv', AnswerInv',
         request' \in RequestsUnderWay, request'.shape = "point" => \E k \in Keys : request'.keys = {k},
         StackType(stack'), flight' \in Calls \/ flight' \in Answers
  PROVE  IInv'
<1>1. TopologyInv'
  BY PartStays DEF IInv
<1>2. RequestInv'
  BY DEF RequestInv, StackType
<1>3. ReadsSeeEveryWrite'
  BY DEF IInv, ReadsSeeEveryWrite
<1> QED BY <1>1, <1>2, <1>3 DEF IInv

\* A call to dispatch, after a call or a refusal.
LEMMA CallMoves ==
  ASSUME IInv, UNCHANGED <<part, rows, writes, done>>, LearnedInv', flight.type \in {"call", "answer"}, Quiet,
         request' \in RequestsUnderWay, request'.op = request.op, request'.keys = request.keys, request'.shape = request.shape,
         StackType(stack'), NEW to \in Partitions, NEW from \in Partitions, flight' = Call(to, "dispatch", from)
  PROVE  IInv'
<1>1. RowsInv /\ RequestInv
  BY DEF IInv
<1>2. request # None /\ (request.shape = "point" => \E k \in Keys : request.keys = {k})
  BY <1>1, UnderWayMeans
<1>3. flight'.type = "call" /\ flight'.mode = "dispatch" /\ flight' \in Calls
  BY DEF Call, Calls
<1>4. request' # None
  <2> SUFFICES ASSUME request' = None PROVE FALSE
    OBVIOUS
  <2>1. None.shape = "none" /\ request'.shape \in {"point", "single_owner"}
    BY DEF None, RequestsUnderWay
  <2> QED BY <2>1
<1>5. \A k \in Keys : (Ran(k))' = Ran(k)
  BY <1>1, <1>3, <1>4, RanStays, UnderWayMeans DEF Quiet
<1>6. RowsInv'
  <2>1. writes' \in [Keys -> Nat]
    BY <1>1 DEF RowsInv
  <2> QED BY <1>1, <1>5, <2>1, RowsStay
<1>7. ExecuteInv' /\ AnswerInv'
  BY <1>3 DEF ExecuteInv, AnswerInv
<1> QED BY <1>2, <1>3, <1>6, <1>7, RequestMoves

\* A refusal, after a call or a refusal.
LEMMA RefusalMoves ==
  ASSUME IInv, UNCHANGED <<part, writes, done, request>>, LearnedInv', flight.type \in {"call", "answer"}, Quiet,
         StackType(stack'), NEW code \in Codes \ {"ok", "lost"}, NEW p \in Partitions, NEW nodes \in SUBSET Nodes,
         Refuse(code, p, nodes)
  PROVE  IInv'
<1>1. RowsInv /\ RequestInv /\ TopologyInv /\ rows' = rows /\ flight' = Answer(code, p, nodes, 0)
  BY DEF IInv, Refuse
<1>2. request \in RequestsUnderWay /\ request # None /\ (request.shape = "point" => \E k \in Keys : request.keys = {k})
  BY <1>1, UnderWayMeans
<1>3. part[p].phase \in Phases
  BY <1>1 DEF TopologyInv, PartType, Descriptions
<1>4. flight'.type = "answer" /\ flight'.code = code /\ flight' \in Answers
  BY <1>1, <1>3 DEF Answer, Answers
<1>5. \A k \in Keys : (Ran(k))' = Ran(k)
  BY <1>1, <1>2, <1>4, RanStays DEF Quiet
<1>6. RowsInv'
  <2>1. writes' \in [Keys -> Nat]
    BY <1>1 DEF RowsInv
  <2> QED BY <1>1, <1>5, <2>1, RowsStay
<1>7. ExecuteInv' /\ AnswerInv'
  BY <1>4 DEF ExecuteInv, AnswerInv
<1> QED BY <1>1, <1>2, <1>4, <1>6, <1>7, RequestMoves

\* The handler of a read runs where the row has every write.
LEMMA ReadRuns ==
  ASSUME IInv, UNCHANGED <<part, writes, done, request>>, LearnedInv', flight.type \in {"call", "answer"}, Quiet,
         StackType(stack'), NEW p \in Partitions, NEW nodes \in SUBSET Nodes, RunLocal(p, nodes), request.op # "put",
         rows[p][FirstKey(request.keys)] = Ran(FirstKey(request.keys))
  PROVE  IInv'
<1> DEFINE first == FirstKey(request.keys)
<1>1. RowsInv /\ RequestInv /\ TopologyInv
  BY DEF IInv
<1>2. request \in RequestsUnderWay /\ request # None /\ (request.shape = "point" => \E k \in Keys : request.keys = {k})
      /\ first \in Keys
  BY <1>1, UnderWayMeans
<1>3. request.op = "get"
  BY <1>2 DEF RequestsUnderWay
<1>4. rows' = rows /\ flight' = Answer("ok", p, nodes \cup {Node(p)}, rows[p][first])
  BY <1>3 DEF RunLocal
<1>5. part[p].phase \in Phases /\ rows[p][first] \in Nat /\ nodes \cup {Node(p)} \in SUBSET Nodes
  BY <1>1, <1>2, NodeType DEF TopologyInv, PartType, Descriptions, RowsInv
<1>6. flight'.type = "answer" /\ flight'.code = "ok" /\ flight'.value = rows[p][first] /\ flight' \in Answers
  BY <1>4, <1>5 DEF Answer, Answers, Codes
<1>7. \A k \in Keys : (Ran(k))' = Ran(k)
  BY <1>3 DEF Ran
<1>8. RowsInv'
  <2>1. writes' \in [Keys -> Nat]
    BY <1>1 DEF RowsInv
  <2> QED BY <1>1, <1>4, <1>7, <2>1, RowsStay
<1>9. AnswerInv'
  <2>1. flight'.value = Ran(first)
    BY <1>6
  <2>2. (Ran(first))' = Ran(first) /\ request' = request
    BY <1>2, <1>7
  <2> QED BY <2>1, <2>2 DEF AnswerInv, FirstKey
<1>10. ExecuteInv'
  BY <1>6 DEF ExecuteInv
<1> QED BY <1>2, <1>6, <1>8, <1>9, <1>10, RequestMoves

\* The handler of a write runs on the owner of its keys: every other owner holds another key.
LEMMA WriteRuns ==
  ASSUME IInv, UNCHANGED <<part, writes, done, request>>, LearnedInv', flight.type \in {"call", "answer"}, Quiet,
         StackType(stack'), NEW p \in Partitions, NEW nodes \in SUBSET Nodes, RunLocal(p, nodes), request.op = "put",
         part[p].phase = "active", \A k \in request.keys : Owner(p, k)
  PROVE  IInv'
<1>1. RowsInv /\ RequestInv /\ TopologyInv
  BY DEF IInv
<1>2. request \in RequestsUnderWay /\ request # None /\ (request.shape = "point" => \E k \in Keys : request.keys = {k})
      /\ request.keys \subseteq Keys
  BY <1>1, UnderWayMeans
<1>3. rows' = [rows EXCEPT ![p] = [k \in Keys |-> IF k \in request.keys THEN rows[p][k] + 1 ELSE rows[p][k]]]
      /\ flight' = Answer("ok", p, nodes \cup {Node(p)}, 0)
  BY <1>1 DEF RunLocal, RowsInv
<1>4. part[p].phase \in Phases /\ nodes \cup {Node(p)} \in SUBSET Nodes
  BY <1>1, NodeType DEF TopologyInv, PartType, Descriptions
<1>5. flight'.type = "answer" /\ flight'.code = "ok" /\ flight' \in Answers
  BY <1>3, <1>4 DEF Answer, Answers, Codes
<1>6. /\ rows' \in [Partitions -> [Keys -> Nat]]
      /\ \A x \in Partitions, k \in Keys : rows'[x][k] = IF x = p /\ k \in request.keys THEN rows[x][k] + 1 ELSE rows[x][k]
  <2>1. rows \in [Partitions -> [Keys -> Nat]]
    BY <1>1 DEF RowsInv
  <2> DEFINE new == [k \in Keys |-> IF k \in request.keys THEN rows[p][k] + 1 ELSE rows[p][k]]
  <2>2. new \in [Keys -> Nat]
    BY <2>1
  <2>3. \A k \in Keys : new[k] = IF k \in request.keys THEN rows[p][k] + 1 ELSE rows[p][k]
    OBVIOUS
  <2>4. rows' = [rows EXCEPT ![p] = new]
    BY <1>3
  <2> HIDE DEF new
  <2> QED BY <2>1, <2>2, <2>3, <2>4
<1>7. \A k \in Keys : (Ran(k))' = IF k \in request.keys THEN Ran(k) + 1 ELSE Ran(k)
  <2>1. \A k \in Keys : Ran(k) = writes[k] + 0
    BY DEF Ran, Quiet
  <2>2. \A k \in Keys : writes[k] \in Nat
    BY <1>1 DEF RowsInv
  <2>3. \A k \in Keys : (Ran(k))' = writes[k] + IF k \in request.keys THEN 1 ELSE 0
    BY <1>2, <1>5 DEF Ran
  <2> QED BY <2>1, <2>2, <2>3
<1>8. ~isImporting(p) /\ RowsAt(p) = p
  BY DEF isImporting, RowsAt
<1>9. ASSUME NEW x \in Partitions, NEW k \in Keys, Owner(x, k)' PROVE (rows[RowsAt(x)][k] = Ran(k))'
  <2>1. Owner(x, k) /\ (RowsAt(x))' = RowsAt(x)
    BY <1>9, PartStays
  <2>2. rows[RowsAt(x)][k] = Ran(k)
    BY <1>1, <2>1 DEF RowsInv
  <2>3. CASE k \in request.keys
    <3>1. x = p
      BY <1>1, <2>1, <2>3, OneOwner
    <3>2. rows'[p][k] = rows[p][k] + 1 /\ (Ran(k))' = Ran(k) + 1
      BY <1>6, <1>7, <2>3
    <3>3. (RowsAt(x))' = p
      BY <1>8, <2>1, <3>1
    <3> QED BY <1>8, <2>2, <3>1, <3>2, <3>3
  <2>4. CASE k \notin request.keys
    <3>1. RowsAt(x) \in Partitions
      <4>1. CASE isImporting(x)
        <5>1. exists(x) /\ ~IsHashRoot(x)
          BY <1>1, <4>1 DEF exists, isImporting, TopologyInv, HashRootInv
        <5>2. part[x].source \in Partitions
          BY <1>1, <5>1, SourceIsActive
        <5> QED BY <4>1, <5>2 DEF RowsAt
      <4>2. CASE ~isImporting(x)
        BY <4>2 DEF RowsAt
      <4> QED BY <4>1, <4>2
    <3>2. PICK y \in Partitions : y = RowsAt(x)
      BY <3>1
    <3>3. rows'[y][k] = rows[y][k] /\ (Ran(k))' = Ran(k)
      BY <1>6, <1>7, <2>4
    <3>4. (RowsAt(x))' = y
      BY <2>1, <3>2
    <3> QED BY <2>2, <3>2, <3>3, <3>4
  <2> QED BY <2>3, <2>4
<1>10. RowsInv'
  BY <1>1, <1>6, <1>9 DEF RowsInv
<1>11. ExecuteInv' /\ AnswerInv'
  BY <1>5 DEF ExecuteInv, AnswerInv
<1> QED BY <1>2, <1>5, <1>10, <1>11, RequestMoves

\* A partition that resolves the keys of the request to itself is their owner, and runs the handler.
LEMMA OwnerRuns ==
  ASSUME IInv, UNCHANGED <<part, writes, done, request>>, LearnedInv', flight.type \in {"call", "answer"}, Quiet,
         StackType(stack'), NEW p \in Partitions, NEW nodes \in SUBSET Nodes, RunLocal(p, nodes), part[p].phase = "active",
         \A k \in request.keys : k \in Keys /\ ResolvesTo(p, k, Local)
  PROVE  IInv'
<1>1. RowsInv /\ RequestInv /\ Local.kind = "local"
  BY NowhereLeads DEF IInv
<1>2. exists(p) /\ ~isImporting(p) /\ RowsAt(p) = p
  BY DEF exists, isImporting, RowsAt
<1>3. \A k \in request.keys : Owner(p, k)
  BY <1>1, <1>2 DEF Owner, ResolvesTo
<1>4. FirstKey(request.keys) \in request.keys /\ request.keys \subseteq Keys
  BY <1>1, UnderWayMeans
<1>5. rows[p][FirstKey(request.keys)] = Ran(FirstKey(request.keys))
  <2>1. PICK k \in request.keys : k = FirstKey(request.keys)
    BY <1>4
  <2>2. Owner(p, k) /\ k \in Keys
    BY <1>3, <1>4
  <2>3. rows[p][k] = Ran(k)
    BY <1>1, <1>2, <2>2 DEF RowsInv
  <2> QED BY <2>1, <2>3
<1>6. CASE request.op = "put"
  BY <1>3, <1>6, WriteRuns
<1>7. CASE request.op # "put"
  BY <1>5, <1>7, ReadRuns
<1> QED BY <1>6, <1>7

----------------------------------------------------------------------------
(* The steps of the request. *)

\* The refusal of a partition that does not exist keeps the invariant.
LEMMA NoIdentityInv ==
  ASSUME IInv, NoIdentity
  PROVE  IInv'
<1>1. /\ flight.type = "call" /\ part[flight.to].phase = "absent" /\ Refuse("not_initialized", flight.to, {})
      /\ UNCHANGED <<part, hints, cache, stack, request, done, writes>>
  BY DEF NoIdentity, Dispatching, hintVars
<1>2. LearnedInv /\ RequestInv
  BY DEF IInv
<1>3. flight \in Calls /\ StackType(stack)
  BY <1>1, <1>2, UnderWayMeans
<1>4. flight.to \in Partitions /\ {} \in SUBSET Nodes /\ "not_initialized" \in Codes \ {"ok", "lost"}
  BY <1>3 DEF Calls, Codes
<1>5. LearnedInv'
  BY <1>1, <1>2 DEF LearnedInv
<1>6. StackType(stack')
  BY <1>1, <1>3
<1>7. PICK p \in Partitions : p = flight.to
  BY <1>4
<1>8. Refuse("not_initialized", p, {})
  BY <1>1, <1>7
<1> QED BY <1>1, <1>4, <1>5, <1>6, <1>8, RefusalMoves DEF Quiet

\* A call may be refused at any time.
LEMMA CallRefused ==
  ASSUME IInv, flight.type = "call", UNCHANGED <<part, hints, cache, stack, request, done, writes>>,
         NEW code \in Codes \ {"ok", "lost"}, NEW p \in Partitions, NEW nodes \in SUBSET Nodes, Refuse(code, p, nodes)
  PROVE  IInv'
<1>1. LearnedInv /\ RequestInv
  BY DEF IInv
<1>2. LearnedInv'
  BY <1>1 DEF LearnedInv
<1>3. StackType(stack')
  BY <1>1, UnderWayMeans
<1> QED BY <1>2, <1>3, RefusalMoves DEF Quiet

\* A target that waits for its data, or has a page, has a source that still has the rows.
LEMMA WhileImportingInv ==
  ASSUME IInv, WhileImporting
  PROVE  IInv'
<1>1. TopologyInv /\ RowsInv /\ LearnedInv /\ RequestInv
  BY DEF IInv
<1>2. /\ flight.type = "call" /\ isImporting(flight.to)
      /\ UNCHANGED <<part, hints, cache, request, done, writes>>
  BY DEF WhileImporting, Dispatching, hintVars
<1>3. /\ request \in RequestsUnderWay /\ request # None /\ StackType(stack) /\ flight \in Calls /\ request.keys \subseteq Keys
      /\ request.shape = "point" => \E k \in Keys : request.keys = {k}
  BY <1>1, <1>2, UnderWayMeans
<1>4. PICK p \in Partitions : p = flight.to
  BY <1>3 DEF Calls
<1>5. {Node(p)} \in SUBSET Nodes
  BY NodeType
<1>6. LearnedInv'
  BY <1>1, <1>2 DEF LearnedInv
<1>7. \/ Refuse("migrating", p, {Node(p)}) /\ UNCHANGED stack
      \/ Refuse("misrouted", p, {Node(p)}) /\ UNCHANGED stack
      \/ /\ request.op # "put" /\ \A k \in request.keys : ownsByTopology(p, k)
         /\ stack' = <<Frame(p, "read_through", Local, {Node(p)})>> \o stack
         /\ flight' = Call(part[p].source, "execute", p)
         /\ UNCHANGED rows
  BY <1>4 DEF WhileImporting, whileMigrating
<1>8. CASE Refuse("migrating", p, {Node(p)}) /\ UNCHANGED stack
  <2>1. "migrating" \in Codes \ {"ok", "lost"}
    BY DEF Codes
  <2> QED BY <1>2, <1>5, <1>8, <2>1, CallRefused
<1>9. CASE Refuse("misrouted", p, {Node(p)}) /\ UNCHANGED stack
  <2>1. "misrouted" \in Codes \ {"ok", "lost"}
    BY DEF Codes
  <2> QED BY <1>2, <1>5, <1>9, <2>1, CallRefused
<1>10. CASE /\ request.op # "put" /\ \A k \in request.keys : ownsByTopology(p, k)
            /\ stack' = <<Frame(p, "read_through", Local, {Node(p)})>> \o stack
            /\ flight' = Call(part[p].source, "execute", p)
            /\ UNCHANGED rows
  <2>1. request.op = "get"
    BY <1>3, <1>10 DEF RequestsUnderWay
  <2>2. isImporting(p) /\ exists(p) /\ ~IsHashRoot(p)
    <3>1. isImporting(p)
      BY <1>2, <1>4
    <3> QED BY <3>1, <1>1 DEF isImporting, exists, TopologyInv, HashRootInv
  <2>3. PICK s \in Partitions : s = part[p].source
    BY <1>1, <2>2, SourceIsActive
  <2>4. ASSUME NEW k \in request.keys, SourceReads(s, p, k)
        PROVE  rows[s][k] = Ran(k)
    <3>1. k \in Keys /\ ownsByTopology(p, k) /\ HashOf[k] \in Hashes
      BY <1>3, <1>10, KeysAssumption
    <3>2. CutOverTo(p) /\ ~(p.kind = "hash" /\ part[s].promo[HashOf[k]] = "completed")
      BY <2>4 DEF SourceReads
    <3>3. ~routerRole(p)
      <4> SUFFICES ASSUME part[p].split # "none" PROVE FALSE
        BY DEF routerRole
      <4> QED BY <1>1, <2>2, Splitting
    <3>4. ~overrideCutOver(p, HashOf[k])
      <4>1. CASE p.kind = "hash"
        <5>1. ~IsRangeRoot(p)
          BY <4>1 DEF IsRangeRoot
        <5>2. part[s].split # "none" /\ TargetInv(s, p)
          BY <1>1, <2>2, <2>3, <5>1, SourceIsActive
        <5>3. part[p].promo = part[s].promo
          BY <2>2, <5>2 DEF TargetInv
        <5>4. part[s].promo[HashOf[k]] \in {"none", "completed"}
          BY <1>1, <3>1, <5>2, Splitting
        <5> QED BY <3>2, <4>1, <5>3, <5>4 DEF overrideCutOver
      <4>2. CASE p.kind # "hash"
        BY <1>1, <3>1, <4>2 DEF TopologyInv, PromoInv, overrideCutOver
      <4> QED BY <4>1, <4>2
    <3>5. Owner(p, k) /\ RowsAt(p) = s
      BY <2>2, <2>3, <3>1, <3>2, <3>3, <3>4 DEF Owner, RowsAt
    <3> QED BY <1>1, <3>1, <3>5 DEF RowsInv
  <2>5. flight' = Call(s, "execute", p)
    BY <1>10, <2>3
  <2>6. flight'.type = "call" /\ flight'.mode = "execute" /\ flight'.to = s /\ flight'.from = p /\ flight' \in Calls
    BY <2>5 DEF Call, Calls
  <2>7. \A k \in Keys : (Ran(k))' = Ran(k)
    BY <1>2, <1>3, <2>1 DEF Ran
  <2>8. RowsInv'
    <3>1. writes' \in [Keys -> Nat]
      BY <1>1, <1>2 DEF RowsInv
    <3> QED BY <1>1, <1>2, <1>10, <2>7, <3>1, RowsStay
  <2>9. StackType(stack')
    <3>1. Frame(p, "read_through", Local, {Node(p)}) \in Frames /\ Frame(p, "read_through", Local, {Node(p)}).how # "forward"
      BY <1>5, NowhereLeads DEF Frame, Frames, Leads
    <3>2. StackType(<<Frame(p, "read_through", Local, {Node(p)})>> \o stack)
      BY <1>3, <3>1, StackPush
    <3> QED BY <1>10, <3>2
  <2>10. ExecuteInv'
    <3>1. ASSUME NEW k \in request.keys
          PROVE  ownsByTopology(p, k) /\ (SourceReads(s, p, k)' => rows'[s][k] = (Ran(k))')
      <4>1. k \in Keys
        BY <1>3
      <4>2. SourceReads(s, p, k)' <=> SourceReads(s, p, k)
        BY <1>2 DEF SourceReads, CutOverTo, overrideCutOver, routerRole
      <4> QED BY <1>10, <2>4, <2>7, <4>1, <4>2
    <3>2. exists(p)' /\ part'[p].source = s
      BY <1>2, <2>2, <2>3 DEF exists
    <3>3. request' = request
      BY <1>2
    <3> QED BY <2>1, <2>2, <2>6, <3>1, <3>2, <3>3 DEF ExecuteInv, ownsByTopology, OwnsHash, IsHashRoot
  <2>11. AnswerInv'
    BY <2>6 DEF AnswerInv
  <2> QED BY <1>2, <1>3, <1>6, <2>6, <2>8, <2>9, <2>10, <2>11, RequestMoves
<1> QED BY <1>7, <1>8, <1>9, <1>10

\* A partition that dispatches a request, serves it, refuses it or forwards it, and keeps the invariant.
LEMMA DispatchInv ==
  ASSUME IInv, Dispatch
  PROVE  IInv'
<1>1. TopologyInv /\ RowsInv /\ LearnedInv /\ RequestInv
  BY DEF IInv
<1>2. /\ flight.type = "call" /\ part[flight.to].phase = "active"
      /\ UNCHANGED <<part, hints, cache, request, done, writes>>
  BY DEF Dispatch, Dispatching, hintVars
<1>3. /\ request \in RequestsUnderWay /\ StackType(stack) /\ flight \in Calls
      /\ request.shape = "point" => \E k \in Keys : request.keys = {k}
  BY <1>1, <1>2, UnderWayMeans
<1>4. PICK p \in Partitions : p = flight.to
  BY <1>3 DEF Calls
<1>5. {Node(p)} \in SUBSET Nodes /\ {} \in SUBSET Nodes /\ Quiet
  BY <1>2, NodeType DEF Quiet
<1>6. LearnedInv'
  BY <1>1, <1>2 DEF LearnedInv
<1> DEFINE owner == OwnerOf(p, hints[p], cache.partition.hash, request, TRUE)
<1>7. HintType(hints[p]) /\ HashViewType(cache.partition.hash)
  BY <1>1 DEF LearnedInv, Sites, SiteType
<1>8. Leads(owner) /\ (owner.kind = "remote" => owner.to \in Partitions) /\ \A k \in request.keys : k \in Keys /\ ResolvesTo(p, k, owner)
  BY <1>1, <1>3, <1>7, OwnerLeads
<1>9. \/ UNCHANGED stack /\ (Refuse("misrouted", p, {Node(p)}) \/ Refuse("not_applicable", p, {}))
      \/ UNCHANGED stack /\ owner = Local /\ RunLocal(p, {})
      \/ /\ owner.kind = "remote"
         /\ stack' = <<Frame(p, "forward", owner, {})>> \o stack
         /\ flight' = Call(owner.to, "dispatch", p)
         /\ UNCHANGED rows
  BY <1>4 DEF Dispatch
<1> HIDE DEF owner
<1>10. CASE UNCHANGED stack /\ (Refuse("misrouted", p, {Node(p)}) \/ Refuse("not_applicable", p, {}))
  <2>1. "misrouted" \in Codes \ {"ok", "lost"} /\ "not_applicable" \in Codes \ {"ok", "lost"}
    BY DEF Codes
  <2>2. CASE Refuse("misrouted", p, {Node(p)})
    BY <1>2, <1>5, <1>10, <2>1, <2>2, CallRefused
  <2>3. CASE Refuse("not_applicable", p, {})
    BY <1>2, <1>5, <1>10, <2>1, <2>3, CallRefused
  <2> QED BY <1>10, <2>2, <2>3
<1>11. CASE UNCHANGED stack /\ owner = Local /\ RunLocal(p, {})
  <2>1. \A k \in request.keys : k \in Keys /\ ResolvesTo(p, k, Local)
    BY <1>8, <1>11
  <2>2. StackType(stack') /\ part[p].phase = "active"
    BY <1>2, <1>3, <1>4, <1>11
  <2> QED BY <1>2, <1>5, <1>6, <1>11, <2>1, <2>2, OwnerRuns
<1>12. CASE /\ owner.kind = "remote"
            /\ stack' = <<Frame(p, "forward", owner, {})>> \o stack
            /\ flight' = Call(owner.to, "dispatch", p)
            /\ UNCHANGED rows
  <2>1. Frame(p, "forward", owner, {}) \in Frames /\ Frame(p, "forward", owner, {}).at = p /\ part[p].phase = "active"
    BY <1>2, <1>4, <1>5, <1>8 DEF Frame, Frames, Leads
  <2>2. StackType(<<Frame(p, "forward", owner, {})>> \o stack)
    BY <1>3, <2>1, StackPush
  <2>3. StackType(stack')
    BY <1>12, <2>2
  <2>4. PICK to \in Partitions : to = owner.to
    BY <1>8, <1>12
  <2>5. flight' = Call(to, "dispatch", p)
    BY <1>12, <2>4
  <2> QED BY <1>2, <1>3, <1>5, <1>6, <1>12, <2>3, <2>5, CallMoves
<1> QED BY <1>9, <1>10, <1>11, <1>12

\* The nodes of an answer on its way back.
LEMMA PassedNodes ==
  ASSUME NEW f \in Frames, flight \in Answers
  PROVE  /\ PassedOn(f).nodes \in SUBSET Nodes
         /\ PassedOn(f) = [type |-> "answer", code |-> flight.code, at |-> flight.at, nodes |-> PassedOn(f).nodes,
                           value |-> flight.value, state |-> flight.state]
<1> DEFINE stamped == IF f.how = "read_through" \/ f.res.to.kind = "range" THEN StampRangeNodes(f.at, flight.nodes) ELSE flight.nodes
           nodes == f.nodes \cup IF flight.nodes = {} /\ flight.code \notin {"ok", "not_applicable"} THEN {Node(f.at)} ELSE stamped
<1>1. f.at \in Partitions /\ f.nodes \in SUBSET Nodes /\ flight.nodes \in SUBSET Nodes
  BY DEF Frames, Answers
<1>2. StampRangeNodes(f.at, flight.nodes) \in SUBSET Nodes /\ Node(f.at) \in Nodes
  BY <1>1, NodeType
<1>3. nodes \in SUBSET Nodes
  BY <1>1, <1>2
<1>4. PassedOn(f) = [flight EXCEPT !.nodes = nodes]
  BY DEF PassedOn
<1> HIDE DEF nodes
<1>5. [flight EXCEPT !.nodes = nodes] = [type |-> "answer", code |-> flight.code, at |-> flight.at, nodes |-> nodes,
                                         value |-> flight.value, state |-> flight.state]
  BY DEF Answers
<1> QED BY <1>3, <1>4, <1>5

\* A source that reads for a target has the rows, or names the slice that has them.
LEMMA ExecuteLocalInv ==
  ASSUME IInv, ExecuteLocal
  PROVE  IInv'
<1>1. TopologyInv /\ RowsInv /\ LearnedInv /\ RequestInv /\ ExecuteInv
  BY DEF IInv
<1>2. /\ flight.type = "call" /\ flight.mode = "execute"
      /\ UNCHANGED <<part, hints, cache, request, done, writes>>
  BY DEF ExecuteLocal, hintVars
<1>3. /\ request \in RequestsUnderWay /\ StackType(stack) /\ flight \in Calls /\ request.keys \subseteq Keys
      /\ request.shape = "point" => \E k \in Keys : request.keys = {k}
      /\ FirstKey(request.keys) \in request.keys
  BY <1>1, <1>2, UnderWayMeans
<1>4. PICK p \in Partitions : p = flight.to
  BY <1>3 DEF Calls
<1>5. PICK t \in Partitions : t = flight.from
  BY <1>3 DEF Calls
<1>6. PICK k \in request.keys : k = FirstKey(request.keys)
  BY <1>3
<1>7. k \in Keys /\ HashOf[k] \in Hashes
  BY <1>3, KeysAssumption
<1>8. request.op = "get" /\ (SourceReads(p, t, k) => rows[p][k] = Ran(k))
  BY <1>1, <1>2, <1>4, <1>5 DEF ExecuteInv
<1>9. {Node(p)} \in SUBSET Nodes /\ {} \in SUBSET Nodes /\ Quiet
  BY <1>2, NodeType DEF Quiet
<1>10. LearnedInv'
  BY <1>1, <1>2 DEF LearnedInv
<1> DEFINE owner == rangeOwner(hints[p], k, "override")
<1>11. \/ (Refuse("not_cut_over", p, {Node(p)}) \/ Refuse("slice_reclaimed", p, {Node(p)})) /\ UNCHANGED stack
       \/ /\ t.kind = "hash" /\ part[p].promo[HashOf[k]] = "completed"
          /\ stack' = <<Frame(p, "caller_slice", owner, {})>> \o stack
          /\ flight' = Call(owner.to, "dispatch", p)
          /\ UNCHANGED rows
       \/ SourceReads(p, t, k) /\ RunLocal(p, {}) /\ UNCHANGED stack
  BY <1>4, <1>5, <1>6 DEF ExecuteLocal, SourceReads
<1> HIDE DEF owner
<1>12. CASE (Refuse("not_cut_over", p, {Node(p)}) \/ Refuse("slice_reclaimed", p, {Node(p)})) /\ UNCHANGED stack
  <2>1. "not_cut_over" \in Codes \ {"ok", "lost"} /\ "slice_reclaimed" \in Codes \ {"ok", "lost"}
    BY DEF Codes
  <2>2. CASE Refuse("not_cut_over", p, {Node(p)})
    BY <1>2, <1>9, <1>12, <2>1, <2>2, CallRefused
  <2>3. CASE Refuse("slice_reclaimed", p, {Node(p)})
    BY <1>2, <1>9, <1>12, <2>1, <2>3, CallRefused
  <2> QED BY <1>12, <2>2, <2>3
<1>13. CASE /\ t.kind = "hash" /\ part[p].promo[HashOf[k]] = "completed"
            /\ stack' = <<Frame(p, "caller_slice", owner, {})>> \o stack
            /\ flight' = Call(owner.to, "dispatch", p)
            /\ UNCHANGED rows
  <2>1. HashOf[k] \in Promotable
    BY <1>1, <1>7, <1>13 DEF TopologyInv, PromoInv
  <2>2. HintType(hints[p])
    BY <1>1 DEF LearnedInv
  <2>3. Leads(owner) /\ owner.kind = "remote"
    BY <1>1, <1>7, <2>1, <2>2, RangeOwnerLeads DEF owner
  <2>4. PICK to \in Partitions : to = owner.to
    BY <2>3 DEF Leads
  <2>5. Frame(p, "caller_slice", owner, {}) \in Frames /\ Frame(p, "caller_slice", owner, {}).how # "forward"
    BY <1>9, <2>3 DEF Frame, Frames, Leads
  <2>6. StackType(<<Frame(p, "caller_slice", owner, {})>> \o stack)
    BY <1>3, <2>5, StackPush
  <2>7. StackType(stack')
    BY <1>13, <2>6
  <2>8. flight' = Call(to, "dispatch", p)
    BY <1>13, <2>4
  <2> QED BY <1>2, <1>3, <1>9, <1>10, <1>13, <2>7, <2>8, CallMoves
<1>14. CASE SourceReads(p, t, k) /\ RunLocal(p, {}) /\ UNCHANGED stack
  <2>1. rows[p][FirstKey(request.keys)] = Ran(FirstKey(request.keys))
    BY <1>6, <1>8, <1>14
  <2>2. StackType(stack') /\ request.op # "put"
    BY <1>3, <1>8, <1>14
  <2> QED BY <1>2, <1>9, <1>10, <1>14, <2>1, <2>2, ReadRuns
<1> QED BY <1>11, <1>12, <1>13, <1>14

\* What a caller that waits for another partition is.
LEMMA WaitsForType ==
  ASSUME NEW f \in Frames, NEW owner \in Resolutions, NodesButMissed(f) \in SUBSET Nodes
  PROVE  WaitsFor(f, owner) \in Frames /\ WaitsFor(f, owner).at = f.at /\ WaitsFor(f, owner).how = f.how
<1> DEFINE nodes == NodesButMissed(f)
<1>1. WaitsFor(f, owner) = [[[f EXCEPT !.res = owner] EXCEPT !.retries = f.retries + 1] EXCEPT !.nodes = nodes]
  BY DEF WaitsFor, Frames
<1> HIDE DEF nodes
<1>2. [f EXCEPT !.res = owner] = [at |-> f.at, how |-> f.how, res |-> owner, nodes |-> f.nodes, retries |-> f.retries]
  BY DEF Frames
<1>3. [[at |-> f.at, how |-> f.how, res |-> owner, nodes |-> f.nodes, retries |-> f.retries] EXCEPT !.retries = f.retries + 1]
        = [at |-> f.at, how |-> f.how, res |-> owner, nodes |-> f.nodes, retries |-> f.retries + 1]
  OBVIOUS
<1>4. [[at |-> f.at, how |-> f.how, res |-> owner, nodes |-> f.nodes, retries |-> f.retries + 1] EXCEPT !.nodes = nodes]
        = [at |-> f.at, how |-> f.how, res |-> owner, nodes |-> nodes, retries |-> f.retries + 1]
  OBVIOUS
<1>5. WaitsFor(f, owner) = [at |-> f.at, how |-> f.how, res |-> owner, nodes |-> nodes, retries |-> f.retries + 1]
  BY <1>1, <1>2, <1>3, <1>4
<1>6. nodes \in SUBSET Nodes /\ f.at \in Partitions /\ f.how \in {"forward", "read_through", "caller_slice"} /\ f.retries + 1 \in Nat
  BY DEF Frames, nodes
<1> QED BY <1>5, <1>6 DEF Frames

\* A miss resolves the keys again, at a partition that was active when it forwarded.
LEMMA RetryInv ==
  ASSUME IInv, Retry
  PROVE  IInv'
<1>1. TopologyInv /\ RowsInv /\ LearnedInv /\ RequestInv
  BY DEF IInv
<1>2. /\ flight.type = "answer" /\ stack # <<>>
      /\ UNCHANGED <<part, request, done, writes>>
  BY DEF Retry, Answered
<1>3. /\ request \in RequestsUnderWay /\ StackType(stack) /\ flight \in Answers
      /\ request.shape = "point" => \E k \in Keys : request.keys = {k}
  BY <1>1, <1>2, UnderWayMeans
<1>4. PICK f \in Frames : f = Head(stack)
  BY <1>2, <1>3, StackPop
<1>5. StackType(Tail(stack)) /\ f.at \in Partitions /\ (f.how = "forward" => part[f.at].phase = "active")
  BY <1>2, <1>3, <1>4, StackPop DEF Frames
<1>6. PICK p \in Partitions : p = f.at
  BY <1>5
<1>7. PICK hint \in learn(p, flight.nodes, request.keys) :
        \E next \in missLadder(f, hint, cache.partition.hash, flight) :
        \E owner \in {OwnerOf(p, next.hint, next.view, request, next.bloom)} :
          /\ Retries(f) # {}
          /\ hints' = [hints EXCEPT ![p] = next.hint]
          /\ cache' = [cache EXCEPT !.partition.hash = next.view]
          /\ IF owner.kind = "remote"
               THEN /\ stack' = <<WaitsFor(f, owner)>> \o Tail(stack)
                    /\ flight' = Call(owner.to, "dispatch", p)
                    /\ UNCHANGED rows
               ELSE /\ IF owner = Local THEN RunLocal(p, NodesButMissed(f)) ELSE Refuse("not_applicable", p, NodesButMissed(f))
                    /\ stack' = Tail(stack)
  BY <1>4, <1>6 DEF Retry
<1>8. PICK next \in missLadder(f, hint, cache.partition.hash, flight) :
        \E owner \in {OwnerOf(p, next.hint, next.view, request, next.bloom)} :
          /\ Retries(f) # {}
          /\ hints' = [hints EXCEPT ![p] = next.hint]
          /\ cache' = [cache EXCEPT !.partition.hash = next.view]
          /\ IF owner.kind = "remote"
               THEN /\ stack' = <<WaitsFor(f, owner)>> \o Tail(stack)
                    /\ flight' = Call(owner.to, "dispatch", p)
                    /\ UNCHANGED rows
               ELSE /\ IF owner = Local THEN RunLocal(p, NodesButMissed(f)) ELSE Refuse("not_applicable", p, NodesButMissed(f))
                    /\ stack' = Tail(stack)
  BY <1>7
<1> DEFINE owner == OwnerOf(p, next.hint, next.view, request, next.bloom)
           nodes == NodesButMissed(f)
<1>9. /\ Retries(f) # {}
      /\ hints' = [hints EXCEPT ![p] = next.hint]
      /\ cache' = [cache EXCEPT !.partition.hash = next.view]
      /\ IF owner.kind = "remote"
           THEN /\ stack' = <<WaitsFor(f, owner)>> \o Tail(stack)
                /\ flight' = Call(owner.to, "dispatch", p)
                /\ UNCHANGED rows
           ELSE /\ IF owner = Local THEN RunLocal(p, nodes) ELSE Refuse("not_applicable", p, nodes)
                /\ stack' = Tail(stack)
  BY <1>8
<1> HIDE DEF owner, nodes
<1>10. f.how = "forward" /\ part[p].phase = "active"
  BY <1>5, <1>6, <1>9 DEF Retries
<1>11. flight.nodes \in SUBSET Nodes
  BY <1>3 DEF Answers
<1>12. HintType(hint)
  BY <1>1, <1>11, LearnType
<1>13. SiteType(cache.partition) /\ cache = [s \in Sites |-> cache[s]] /\ "partition" \in Sites
  BY <1>1 DEF LearnedInv, Sites
<1>14. HashViewType(cache.partition.hash)
  BY <1>13 DEF SiteType
<1>15. HintType(next.hint) /\ HashViewType(next.view) /\ flight.code \in {"not_initialized", "migrating", "not_cut_over"}
  BY <1>3, <1>12, <1>14, LadderType
<1>16. Quiet
  BY <1>15 DEF Quiet
<1>17. LearnedInv'
  <2> DEFINE site == [cache.partition EXCEPT !.hash = next.view]
  <2>1. SiteType(site)
    BY <1>13, <1>15, SiteHash
  <2>2. cache' = [cache EXCEPT !["partition"] = site]
    BY <1>9, <1>13
  <2> HIDE DEF site
  <2>3. cache' = [s \in Sites |-> IF s = "partition" THEN site ELSE cache[s]]
    BY <1>13, <2>2
  <2>4. \A s \in Sites : cache'[s] = IF s = "partition" THEN site ELSE cache[s]
    BY <2>3
  <2>5. cache' = [s \in Sites |-> cache'[s]]
    BY <2>3, <2>4
  <2>6. \A s \in Sites : SiteType(cache'[s])
    BY <1>1, <2>1, <2>4 DEF LearnedInv
  <2> QED BY <1>1, <1>9, <1>15, <2>5, <2>6, HintLearns
<1>18. Leads(owner) /\ (owner.kind = "remote" => owner.to \in Partitions) /\ \A k \in request.keys : k \in Keys /\ ResolvesTo(p, k, owner)
  BY <1>1, <1>3, <1>15, OwnerLeads DEF owner
<1>19. nodes \in SUBSET Nodes
  BY <1>3, <1>4, PassedNodes DEF nodes, NodesButMissed
<1>20. CASE owner.kind = "remote"
  <2>1. /\ stack' = <<WaitsFor(f, owner)>> \o Tail(stack)
        /\ flight' = Call(owner.to, "dispatch", p)
        /\ UNCHANGED rows
    BY <1>9, <1>20
  <2> DEFINE g == WaitsFor(f, owner)
  <2>2. g \in Frames /\ g.at = p /\ g.how = "forward"
    BY <1>6, <1>10, <1>18, <1>19, WaitsForType DEF Leads, nodes
  <2> HIDE DEF g
  <2>5. StackType(<<g>> \o Tail(stack))
    BY <1>5, <1>10, <2>2, StackPush
  <2>6. StackType(stack')
    BY <2>1, <2>5 DEF g
  <2>7. PICK to \in Partitions : to = owner.to
    BY <1>18, <1>20
  <2>8. flight' = Call(to, "dispatch", p)
    BY <2>1, <2>7
  <2> QED BY <1>2, <1>3, <1>16, <1>17, <2>1, <2>6, <2>8, CallMoves
<1>21. CASE owner.kind # "remote" /\ owner = Local
  <2>1. RunLocal(p, nodes) /\ stack' = Tail(stack)
    BY <1>9, <1>21
  <2>2. \A k \in request.keys : k \in Keys /\ ResolvesTo(p, k, Local)
    BY <1>18, <1>21
  <2>3. StackType(stack')
    BY <1>5, <2>1
  <2> QED BY <1>2, <1>10, <1>16, <1>17, <1>19, <2>1, <2>2, <2>3, OwnerRuns
<1>22. CASE owner.kind # "remote" /\ owner # Local
  <2>1. Refuse("not_applicable", p, nodes) /\ stack' = Tail(stack)
    BY <1>9, <1>22
  <2>2. "not_applicable" \in Codes \ {"ok", "lost"}
    BY DEF Codes
  <2>3. StackType(stack')
    BY <1>5, <2>1
  <2> QED BY <1>2, <1>16, <1>17, <1>19, <2>1, <2>2, <2>3, RefusalMoves
<1> QED BY <1>20, <1>21, <1>22

\* An answer on its way up keeps the invariant.
LEMMA ReturnInv ==
  ASSUME IInv, Return
  PROVE  IInv'
<1>1. TopologyInv /\ RowsInv /\ LearnedInv /\ RequestInv /\ AnswerInv
  BY DEF IInv
<1>2. /\ flight.type = "answer" /\ stack # <<>> /\ stack' = Tail(stack)
      /\ UNCHANGED <<part, rows, cache, request, done, writes>>
  BY DEF Return, Answered, topologyVars
<1>3. /\ request \in RequestsUnderWay /\ request # None /\ StackType(stack) /\ flight \in Answers
      /\ request.shape = "point" => \E k \in Keys : request.keys = {k}
  BY <1>1, <1>2, UnderWayMeans
<1>4. PICK f \in Frames : f = Head(stack)
  BY <1>2, <1>3, StackPop
<1>5. StackType(stack')
  BY <1>2, <1>3, StackPop
<1>6. PICK p \in Partitions : p = f.at
  BY DEF Frames
<1>7. flight' = PassedOn(f) /\ \E hint \in Learned(f) : hints' = [hints EXCEPT ![p] = hint]
  BY <1>4, <1>6 DEF Return
<1>8. PICK hint \in Learned(f) : hints' = [hints EXCEPT ![p] = hint]
  BY <1>7
<1>9. HintType(hint)
  <2>1. HintType(hints[p]) /\ flight.nodes \in SUBSET Nodes
    BY <1>1, <1>3 DEF LearnedInv, Answers
  <2>2. hint = hints[p] \/ hint \in learn(p, flight.nodes, request.keys)
    BY <1>6, <1>8 DEF Learned
  <2> QED BY <1>1, <2>1, <2>2, LearnType
<1>10. LearnedInv'
  <2>1. cache' = [s \in Sites |-> cache'[s]] /\ \A s \in Sites : SiteType(cache'[s])
    BY <1>1, <1>2 DEF LearnedInv
  <2> QED BY <1>1, <1>8, <1>9, <2>1, HintLearns
<1>11. /\ flight'.type = "answer" /\ flight'.code = flight.code /\ flight'.value = flight.value
       /\ flight' \in Answers
  <2>1. PassedOn(f).nodes \in SUBSET Nodes
        /\ PassedOn(f) = [type |-> "answer", code |-> flight.code, at |-> flight.at, nodes |-> PassedOn(f).nodes,
                          value |-> flight.value, state |-> flight.state]
    BY <1>3, PassedNodes
  <2>2. PICK nodes \in SUBSET Nodes : nodes = PassedOn(f).nodes
    BY <2>1
  <2>3. flight' = [type |-> "answer", code |-> flight.code, at |-> flight.at, nodes |-> nodes,
                   value |-> flight.value, state |-> flight.state]
    BY <1>7, <2>1, <2>2
  <2> QED BY <1>3, <2>3 DEF Answers
<1>12. \A k \in Keys : (Ran(k))' = Ran(k)
  BY <1>2, <1>3, <1>11 DEF Ran
<1>13. RowsInv'
  <2>1. writes' \in [Keys -> Nat]
    BY <1>1, <1>2 DEF RowsInv
  <2> QED BY <1>1, <1>2, <1>12, <2>1, RowsStay
<1>14. ExecuteInv'
  BY <1>11 DEF ExecuteInv
<1>15. AnswerInv'
  <2>1. FirstKey(request.keys) \in Keys
    BY <1>1, <1>2, UnderWayMeans
  <2>2. (Ran(FirstKey(request.keys)))' = Ran(FirstKey(request.keys))
    BY <1>2, <1>3, <1>11 DEF Ran
  <2> QED BY <1>1, <1>2, <1>11, <2>2 DEF AnswerInv
<1> QED BY <1>2, <1>3, <1>5, <1>10, <1>11, <1>13, <1>14, <1>15, RequestMoves

\* The answer of a write is lost, not the write.
LEMMA LoseAnswerInv ==
  ASSUME IInv, LoseAnswer
  PROVE  IInv'
<1>1. TopologyInv /\ RowsInv /\ LearnedInv /\ RequestInv
  BY DEF IInv
<1>2. /\ flight.type = "answer" /\ flight.code = "ok" /\ request.op = "put"
      /\ flight' = Answer("lost", flight.at, {}, 0)
      /\ UNCHANGED <<part, rows, hints, cache, stack, request, done, writes>>
  BY DEF LoseAnswer, topologyVars, hintVars
<1>3. /\ request \in RequestsUnderWay /\ request # None /\ StackType(stack) /\ flight \in Answers
      /\ request.shape = "point" => \E k \in Keys : request.keys = {k}
  BY <1>1, <1>2, UnderWayMeans
<1>4. PICK p \in Partitions : p = flight.at
  BY <1>3 DEF Answers
<1>5. part[p].phase \in Phases
  BY <1>1 DEF TopologyInv, PartType, Descriptions
<1>6. flight' = [type |-> "answer", code |-> "lost", at |-> p, nodes |-> {}, value |-> 0,
                 state |-> part[p].phase]
  BY <1>2, <1>4 DEF Answer
<1>7. flight'.type = "answer" /\ flight'.code = "lost" /\ flight' \in Answers
  BY <1>5, <1>6 DEF Answers, Codes
<1>8. \A k \in Keys : (Ran(k))' = Ran(k)
  BY <1>2, <1>3, <1>7 DEF Ran
<1>9. RowsInv'
  <2>1. writes' \in [Keys -> Nat]
    BY <1>1, <1>2 DEF RowsInv
  <2> QED BY <1>1, <1>2, <1>8, <2>1, RowsStay
<1>10. ExecuteInv' /\ AnswerInv'
  BY <1>7 DEF ExecuteInv, AnswerInv
<1>11. LearnedInv' /\ StackType(stack')
  BY <1>1, <1>2, <1>3 DEF LearnedInv
<1> QED BY <1>2, <1>3, <1>7, <1>9, <1>10, <1>11, RequestMoves

\* A miss that the client resolves again keeps the invariant.
LEMMA ClientMissesInv ==
  ASSUME IInv, ClientMisses
  PROVE  IInv'
<1>1. TopologyInv /\ RowsInv /\ LearnedInv /\ RequestInv
  BY DEF IInv
<1>2. /\ flight.type = "answer"
      /\ UNCHANGED <<part, rows, hints, stack, done, writes>>
  BY DEF ClientMisses, Answered, topologyVars
<1>3. /\ request \in RequestsUnderWay /\ StackType(stack) /\ flight \in Answers
  BY <1>1, <1>2, UnderWayMeans
<1>4. PICK next \in MissFallback(cache.client, request.entry, request.scope, flight) :
        \E entry \in {RootEntry(request.scope.key), next.entry} :
          cache' = [cache EXCEPT !.client = next.views] /\ EnterAgain(entry)
  BY DEF ClientMisses
<1>5. /\ request.scope \in Scopes /\ request.entry \in Entries /\ request.query = None /\ request.fallbacks \in Nat
  BY <1>3 DEF RequestsUnderWay
<1>6. SiteType(cache.client) /\ cache = [s \in Sites |-> cache[s]] /\ "client" \in Sites
  BY <1>1 DEF LearnedInv, Sites
<1>7. SiteType(next.views) /\ next.entry \in Entries /\ flight.code \in {"not_initialized", "migrating"}
  <2>0. PICK entry \in Entries, scope \in Scopes : entry = request.entry /\ scope = request.scope
    BY <1>5
  <2>1. PICK views, e : views = cache.client /\ e = flight
    OBVIOUS
  <2>2. next \in MissFallback(views, entry, scope, e) /\ SiteType(views)
    BY <1>4, <1>6, <2>0, <2>1
  <2>3. e.code \in {"not_initialized", "migrating"} /\ SiteType(next.views) /\ next.entry \in Entries
    BY <2>2, FallbackType
  <2> QED BY <2>1, <2>3
<1>8. RootEntry(request.scope.key) \in Entries
  <2>1. PICK k \in Keys : k = request.scope.key
    BY <1>5 DEF Scopes
  <2> QED BY <2>1, RootEntryType
<1>9. PICK entry \in Entries :
        cache' = [cache EXCEPT !.client = next.views] /\ EnterAgain(entry)
  BY <1>4, <1>7, <1>8
<1>10. LearnedInv'
  <2>1. cache' = [cache EXCEPT !["client"] = next.views]
    BY <1>6, <1>9
  <2> QED BY <1>1, <1>2, <1>6, <1>7, <2>1, CacheLearns
<1>11. PICK to \in Partitions : to = entry.to
  BY DEF Entries
<1>12. flight' = Call(to, "dispatch", to)
  <2>1. flight' = [Call(to, "dispatch", to) EXCEPT !.query = None]
    BY <1>5, <1>9, <1>11 DEF EnterAgain
  <2> QED BY <2>1 DEF Call
<1>13. /\ request' \in RequestsUnderWay
       /\ request'.op = request.op /\ request'.keys = request.keys /\ request'.shape = request.shape
  <2> DEFINE next1 == [request EXCEPT !.entry = entry]
  <2>1. /\ next1 \in RequestsUnderWay /\ next1.fallbacks \in Nat
        /\ next1.op = request.op /\ next1.keys = request.keys /\ next1.shape = request.shape
    BY <1>3 DEF RequestsUnderWay
  <2>2. request' = [next1 EXCEPT !.fallbacks = next1.fallbacks + 1]
    BY <1>3, <1>9 DEF RequestsUnderWay, EnterAgain
  <2> HIDE DEF next1
  <2> QED BY <2>1, <2>2 DEF RequestsUnderWay
<1>14. Quiet
  BY <1>7 DEF Quiet
<1>15. StackType(stack')
  BY <1>2, <1>3
<1> QED BY <1>2, <1>10, <1>12, <1>13, <1>14, <1>15, CallMoves

\* The client learns what ran.
LEMMA ClientEndsInv ==
  ASSUME IInv, ClientEnds
  PROVE  IInv'
<1>1. TopologyInv /\ RowsInv /\ LearnedInv /\ RequestInv /\ AnswerInv
  BY DEF IInv
<1>2. /\ flight.type = "answer" /\ stack = <<>>
      /\ done' = [req |-> [shape |-> request.shape, op |-> request.op, keys |-> request.keys],
                  code |-> flight.code, value |-> flight.value]
      /\ writes' = [k \in Keys |->
           IF request.op = "put" /\ k \in request.keys /\ flight.code \in {"ok", "lost"} THEN writes[k] + 1 ELSE writes[k]]
      /\ request' = None /\ flight' = Idle
      /\ UNCHANGED <<part, rows, hints, cache, stack>>
  BY DEF ClientEnds, Answered, topologyVars, hintVars
<1>3. request \in RequestsUnderWay /\ request # None /\ FirstKey(request.keys) \in Keys
  BY <1>1, <1>2, UnderWayMeans
<1>4. writes' \in [Keys -> Nat] /\ \A k \in Keys : writes'[k] = Ran(k)
  BY <1>1, <1>2, <1>3 DEF RowsInv, Ran
<1>5. \A k \in Keys : (Ran(k))' = Ran(k)
  <2>1. \A k \in Keys : (Ran(k))' = writes'[k] + 0
    BY <1>2 DEF Ran
  <2>2. \A k \in Keys : writes'[k] \in Nat
    BY <1>4
  <2> QED BY <1>4, <2>1, <2>2
<1>6. RowsInv'
  BY <1>1, <1>2, <1>4, <1>5, RowsStay
<1>7. TopologyInv'
  BY <1>1, <1>2, PartStays
<1>8. LearnedInv'
  BY <1>1, <1>2 DEF LearnedInv
<1>9. RequestInv'
  BY <1>1, <1>2 DEF RequestInv
<1>10. flight'.type = "idle"
  BY <1>2 DEF Idle
<1>11. ExecuteInv' /\ AnswerInv'
  BY <1>10 DEF ExecuteInv, AnswerInv
<1>12. ReadsSeeEveryWrite'
  <2>1. /\ done'.req.op = request.op /\ done'.req.keys = request.keys /\ done'.code = flight.code /\ done'.value = flight.value
    BY <1>2
  <2>2. SUFFICES ASSUME request.op = "get", flight.code = "ok"
                 PROVE  flight.value = writes'[FirstKey(request.keys)]
    BY <2>1 DEF ReadsSeeEveryWrite, FirstKey
  <2>3. flight.value = Ran(FirstKey(request.keys))
    BY <1>1, <1>2, <2>2 DEF AnswerInv
  <2> QED BY <1>3, <1>4, <2>3
<1> QED BY <1>6, <1>7, <1>8, <1>9, <1>11, <1>12 DEF IInv

\* A request that is sent keeps the invariant.
LEMMA SendInv ==
  ASSUME IInv, Send
  PROVE  IInv'
<1>1. TopologyInv /\ RowsInv /\ LearnedInv /\ RequestInv
  BY DEF IInv
<1>2. PICK req \in Requests :
        \E entry \in {resolveKey(cache.client, PointScope(FirstKey(req.keys)), TRUE)} :
          /\ request' = [shape |-> req.shape, op |-> req.op, keys |-> req.keys, scope |-> PointScope(FirstKey(req.keys)),
                         entry |-> entry, fallbacks |-> 0, query |-> None]
          /\ flight' = Call(entry.to, "dispatch", entry.to)
  BY DEF Send
<1>3. request = None /\ done' = None /\ UNCHANGED <<part, rows, hints, cache, stack, writes>>
  BY DEF Send, topologyVars, hintVars
<1>4. /\ req.shape \in {"point", "single_owner"} /\ req.op \in {"get", "put"} /\ req.keys \in (SUBSET Keys) \ {{}}
      /\ req.shape = "point" => \E k \in Keys : req.keys = {k}
  BY RequestsAssumption
<1>5. PICK first \in Keys : first = FirstKey(req.keys)
  <2>1. req.keys \subseteq Nat /\ req.keys # {} /\ req.keys \subseteq Keys
    BY <1>4, KeysAssumption
  <2>2. \E k \in req.keys : \A j \in req.keys : k <= j
    BY <2>1, FirstExists
  <2> QED BY <2>1, <2>2 DEF FirstKey
<1>6. PICK scope \in Scopes : scope = PointScope(first)
  BY DEF PointScope, Scopes
<1>7. SiteType(cache.client)
  BY <1>1 DEF LearnedInv, Sites
<1>8. \A bloom \in BOOLEAN : resolveKey(cache.client, scope, bloom) \in Entries
  BY <1>7, EntryType
<1>9. PICK entry \in Entries :
          /\ request' = [shape |-> req.shape, op |-> req.op, keys |-> req.keys, scope |-> scope,
                         entry |-> entry, fallbacks |-> 0, query |-> None]
          /\ flight' = Call(entry.to, "dispatch", entry.to)
  BY <1>2, <1>5, <1>6, <1>8
<1>10. PICK to \in Partitions : to = entry.to
  BY DEF Entries
<1>11. request' \in RequestsUnderWay /\ (request'.shape = "point" => \E k \in Keys : request'.keys = {k})
  BY <1>4, <1>9 DEF RequestsUnderWay
<1>12. flight' = Call(to, "dispatch", to)
  BY <1>9, <1>10
<1>13. flight'.type = "call" /\ flight'.mode = "dispatch" /\ flight' \in Calls
  BY <1>12 DEF Call, Calls
<1>14. \A k \in Keys : (Ran(k))' = Ran(k)
  BY <1>3, <1>13 DEF Ran
<1>15. RowsInv'
  <2>1. writes' \in [Keys -> Nat]
    BY <1>1, <1>3 DEF RowsInv
  <2> QED BY <1>1, <1>3, <1>14, <2>1, RowsStay
<1>16. TopologyInv'
  BY <1>1, <1>3, PartStays
<1>17. LearnedInv'
  BY <1>1, <1>3 DEF LearnedInv
<1>18. RequestInv'
  BY <1>1, <1>3, <1>11, <1>13 DEF RequestInv
<1>19. ExecuteInv' /\ AnswerInv'
  BY <1>13 DEF ExecuteInv, AnswerInv
<1>20. ReadsSeeEveryWrite'
  BY <1>3 DEF ReadsSeeEveryWrite
<1> QED BY <1>15, <1>16, <1>17, <1>18, <1>19, <1>20 DEF IInv

----------------------------------------------------------------------------
(* The theorems. *)

\* At first every owner has one write of each of its keys, the one that the client knows.
LEMMA InitInv ==
  ASSUME Init
  PROVE  IInv
<1>1. /\ InitTopology /\ hints = [p \in Partitions |-> NoHints]
      /\ flight = Idle /\ stack = <<>> /\ request = None /\ done = None /\ writes = [k \in Keys |-> 1]
  BY DEF Init
<1>2. TopologyInv
  BY <1>1, InitTopologyInv
<1>3. PICK top \in InitialTopologies :
        /\ PartType /\ \A p \in Partitions : IF StartExists(top, p) THEN StartPart(top, p) ELSE part[p] = Absent
        /\ rows = [p \in Partitions |-> [k \in Keys |->
             IF StartExists(top, p) /\ OwnsHash(p, HashOf[k]) /\ ~StartPromoter(top, p, HashOf[k]) THEN 1 ELSE 0]]
  BY <1>1, InitTopologyStep
<1>4. /\ rows \in [Partitions -> [Keys -> Nat]] /\ writes \in [Keys -> Nat]
      /\ \A k \in Keys : Ran(k) = 1
  <2>1. rows \in [Partitions -> [Keys -> Nat]]
    BY <1>3
  <2>2. writes \in [Keys -> Nat]
    BY <1>1
  <2>3. \A k \in Keys : Ran(k) = writes[k] + 0
    BY <1>1 DEF Ran
  <2> QED BY <1>1, <2>1, <2>2, <2>3
<1>5. ASSUME NEW x \in Partitions, NEW k \in Keys, Owner(x, k) PROVE rows[RowsAt(x)][k] = Ran(k)
  <2>1. exists(x) /\ ownsByTopology(x, k) /\ ~overrideCutOver(x, HashOf[k]) /\ HashOf[k] \in Hashes
    BY <1>5, KeysAssumption DEF Owner
  <2>2. StartExists(top, x)
    BY <1>3, <2>1 DEF exists, Absent
  <2>3. StartPart(top, x)
    BY <1>3, <2>2
  <2>4. ~StartPromoter(top, x, HashOf[k])
    BY <2>1, <2>3 DEF StartPart, overrideCutOver
  <2>5. RowsAt(x) = x
    BY <2>3 DEF StartPart, RowsAt, isImporting
  <2>6. OwnsHash(x, HashOf[k])
    BY <2>1 DEF ownsByTopology
  <2> QED BY <1>3, <1>4, <2>2, <2>4, <2>5, <2>6
<1>6. RowsInv
  BY <1>4, <1>5 DEF RowsInv
<1>7. LearnedInv
  <2>1. PICK view \in InitialViews : cache = [s \in Sites |-> [EmptyCache EXCEPT !.hash = view]]
    BY DEF Init
  <2>2. HashViewType(view)
    BY TopologiesAssumption DEF HashViewType, NoView
  <2>3. SiteType(EmptyCache)
    <3>1. EmptyCache.hash = NoView /\ EmptyCache.range = [h \in Hashes |-> NoView]
      BY DEF EmptyCache
    <3>2. \A h \in Hashes : EmptyCache.range[h] = NoView
      BY <3>1
    <3>3. EmptyCache = [hash |-> EmptyCache.hash, range |-> [h \in Hashes |-> EmptyCache.range[h]]]
      BY <3>1, <3>2 DEF EmptyCache
    <3> QED BY <3>1, <3>2, <3>3 DEF SiteType, HashViewType, RangeViewType
  <2> DEFINE site == [EmptyCache EXCEPT !.hash = view]
  <2>4. SiteType(site)
    BY <2>2, <2>3, SiteHash
  <2>5. cache = [s \in Sites |-> site]
    BY <2>1
  <2> HIDE DEF site
  <2>6. cache = [s \in Sites |-> cache[s]] /\ \A s \in Sites : SiteType(cache[s])
    BY <2>4, <2>5
  <2>7. HintType(NoHints)
    BY DEF HintType, NoHints
  <2>8. hints = [p \in Partitions |-> hints[p]] /\ \A p \in Partitions : HintType(hints[p])
    BY <1>1, <2>7
  <2> QED BY <2>6, <2>8 DEF LearnedInv
<1>8. RequestInv
  <2>1. stack \in Seq(Frames) /\ Len(stack) = 0
    BY <1>1, EmptySeq
  <2> QED BY <1>1, <2>1 DEF RequestInv
<1>9. ExecuteInv /\ AnswerInv
  BY <1>1 DEF ExecuteInv, AnswerInv, Idle
<1>10. ReadsSeeEveryWrite
  BY <1>1 DEF ReadsSeeEveryWrite
<1> QED BY <1>2, <1>6, <1>7, <1>8, <1>9, <1>10 DEF IInv

\* The inductive invariant.
THEOREM Invariance == Spec => []IInv
<1>1. Init => IInv
  BY InitInv
<1>2. IInv /\ [Next]_vars => IInv'
  <2> SUFFICES ASSUME IInv, [Next]_vars PROVE IInv'
    OBVIOUS
  <2>1. CASE RepartitionStep
    BY <2>1, RepartitionInv
  <2>2. CASE RefreshCache
    BY <2>2, RefreshCacheInv
  <2>3. CASE Send
    BY <2>3, SendInv
  <2>4. CASE ClientMisses
    BY <2>4, ClientMissesInv
  <2>5. CASE ClientEnds
    BY <2>5, ClientEndsInv
  <2>6. CASE NoIdentity
    BY <2>6, NoIdentityInv
  <2>7. CASE WhileImporting
    BY <2>7, WhileImportingInv
  <2>8. CASE Dispatch
    BY <2>8, DispatchInv
  <2>9. CASE ExecuteLocal
    BY <2>9, ExecuteLocalInv
  <2>10. CASE Return
    BY <2>10, ReturnInv
  <2>11. CASE Retry
    BY <2>11, RetryInv
  <2>12. CASE LoseAnswer
    BY <2>12, LoseAnswerInv
  <2>13. CASE Restart
    BY <2>13, RestartInv
  <2>14. CASE UNCHANGED vars
    <3>1. UNCHANGED <<part, rows, hints, cache, flight, stack, request, done, writes>>
      BY <2>14 DEF vars
    <3>2. LearnedInv'
      BY <3>1 DEF IInv, LearnedInv
    <3> QED BY <3>1, <3>2, QuietInv
  <2> QED BY <2>1, <2>2, <2>3, <2>4, <2>5, <2>6, <2>7, <2>8, <2>9, <2>10, <2>11, <2>12, <2>13, <2>14 DEF Next, RequestStep
<1> QED BY <1>1, <1>2, PTL DEF Spec

\* A read that is answered sees every write of its key that succeeded or may have, whatever its way to the rows:
\* a stale cache or hint, a source before or after its cutover, a target that reads through (dispatch and
\* executeLocal, runtime.ts).
THEOREM ReadsAreCurrent == Spec => []ReadsSeeEveryWrite
<1>1. IInv => ReadsSeeEveryWrite
  BY DEF IInv
<1> QED BY <1>1, Invariance, PTL

----------------------------------------------------------------------------
(* Every key has an owner. *)

\* Who has a promotion, planned or over, has a range root to promote to; the root takes the hash from the partition
\* that planned it, which cuts over before any copy of its override exists.
PromotedBy(q, h) ==
  /\ exists(RangeRoot(h))
  /\ part[q].promo[h] = "planned" => part[RangeRoot(h)].source = q
  /\ overrideCutOver(q, h) => overrideCutOver(part[RangeRoot(h)].source, h)
PromoterInv == \A q \in Partitions, h \in Promotable : part[q].promo[h] # "none" => PromotedBy(q, h)

\* The same after a step.
LEMMA PromotedNext ==
  ASSUME NEW q, NEW h
  PROVE  PromotedBy(q, h)' <=>
           /\ part'[RangeRoot(h)].phase # "absent"
           /\ part'[q].promo[h] = "planned" => part'[RangeRoot(h)].source = q
           /\ part'[q].promo[h] \in {"cut_over", "completed"}
                => part'[part'[RangeRoot(h)].source].promo[h] \in {"cut_over", "completed"}
BY DEF PromotedBy, exists, overrideCutOver, RangeRoot, Slice, Top

\* A step that plans no promotion and cuts none over.
LEMMA PromoterKept ==
  ASSUME TopologyInv, PromoterInv,
         \A q \in Partitions : exists(q) => exists(q)' /\ part'[q].source = part[q].source,
         \A q \in Partitions, h \in Promotable : exists(q) /\ overrideCutOver(q, h) => overrideCutOver(q, h)',
         \A q \in Partitions, h \in Promotable : part'[q].promo[h] # "none" =>
           \/ part'[q].promo[h] = "planned" /\ part[q].promo[h] = "planned"
           \/ part'[q].promo[h] # "planned" /\ \E p \in Partitions : overrideCutOver(p, h)
  PROVE  PromoterInv'
<1> SUFFICES ASSUME NEW q \in Partitions, NEW h \in Promotable, part'[q].promo[h] # "none"
             PROVE  PromotedBy(q, h)'
  BY DEF PromoterInv
<1> DEFINE r == RangeRoot(h)
<1>1. r \in Partitions
  BY RootIsPartition
<1>2. CASE part'[q].promo[h] = "planned" /\ part[q].promo[h] = "planned"
  <2>1. exists(r) /\ part[r].source = q
    BY <1>2 DEF PromoterInv, PromotedBy
  <2>2. exists(r)' /\ part'[r].source = q
    BY <2>1, <1>1
  <2> QED BY <2>2, <1>2 DEF overrideCutOver, PromotedBy, RangeRoot, Slice, Top
<1>3. CASE part'[q].promo[h] # "planned" /\ \E p \in Partitions : overrideCutOver(p, h)
  <2>1. PICK p \in Partitions : overrideCutOver(p, h)
    BY <1>3
  <2>2. exists(r) /\ overrideCutOver(part[r].source, h)
    BY <2>1 DEF PromoterInv, PromotedBy, overrideCutOver
  <2>3. part[r].source \in Partitions /\ exists(part[r].source)
    BY <1>1, <2>2, RootIsPartition DEF TopologyInv, RootInv, Partitions, exists
  <2>4. exists(r)' /\ part'[r].source = part[r].source
    BY <2>2, <1>1
  <2>5. overrideCutOver(part[r].source, h)'
    <3>1. part'[part[r].source].promo[h] \in {"cut_over", "completed"}
      BY <2>2, <2>3 DEF overrideCutOver
    <3> QED BY <3>1, <2>4 DEF overrideCutOver, RangeRoot, Slice, Top
  <2> QED BY <2>4, <2>5, <1>3 DEF PromotedBy
<1> QED BY <1>2, <1>3

\* The stage of a promotion.
LEMMA PromoStages ==
  ASSUME PartType, NEW q \in Partitions, NEW h \in Hashes
  PROVE  /\ part[q].promo[h] \in Stages
         /\ part[q].promo[h] # "none" => part[q].promo[h] = "planned" \/ overrideCutOver(q, h)
         /\ overrideCutOver(q, h) => part[q].promo[h] # "none" /\ part[q].promo[h] # "planned"
<1>1. part[q].promo[h] \in Stages
  BY DEF PartType, Descriptions
<1> QED BY <1>1 DEF Stages, overrideCutOver

\* A planned split adds copies of completed promotions only.
LEMMA PlanSplitPromoter ==
  ASSUME TopologyInv, PromoterInv, PlanSplit
  PROVE  PromoterInv'
<1>1. PICK p \in Partitions : \E kids \in SplitTargets(p) : PlansSplit(p, kids)
  BY PlanSplitStep
<1>2. PICK kids \in SplitTargets(p) : PlansSplit(p, kids)
  BY <1>1
<1>0. PartType /\ Promotable \subseteq Hashes
  BY HashesAssumption DEF TopologyInv
<1>3. \A q \in Partitions : exists(q) => q \notin kids /\ exists(q)' /\ part'[q].source = part[q].source /\ part'[q].promo = part[q].promo
  BY <1>2 DEF PlansSplit, exists
<1>4. \A q \in Partitions, h \in Promotable : exists(q) /\ overrideCutOver(q, h) => overrideCutOver(q, h)'
  BY <1>3 DEF overrideCutOver
<1>5. ASSUME NEW q \in Partitions, NEW h \in Promotable, part'[q].promo[h] # "none"
      PROVE  \/ part'[q].promo[h] = "planned" /\ part[q].promo[h] = "planned"
             \/ part'[q].promo[h] # "planned" /\ \E x \in Partitions : overrideCutOver(x, h)
  <2>1. h \in Hashes
    BY <1>0
  <2>2. CASE q \in kids
    <3>1. part'[q].promo[h] = part[p].promo[h]
      BY <2>2, <1>2 DEF PlansSplit
    <3>2. p.kind = "hash"
      BY <1>5, <3>1, <2>1 DEF TopologyInv, PromoInv
    <3>3. part[p].promo[h] = "completed"
      BY <1>5, <3>1, <3>2, <2>1, <1>2 DEF PlansSplit
    <3> QED BY <3>1, <3>3 DEF overrideCutOver
  <2>3. CASE q \notin kids
    <3>1. part'[q].promo = part[q].promo
      BY <2>3, <1>2 DEF PlansSplit
    <3> QED BY <3>1, <1>5, <2>1, <1>0, PromoStages
  <2> QED BY <2>2, <2>3
<1> QED BY <1>3, <1>4, <1>5, PromoterKept

\* A promotion is planned where the hash has no range root yet, so nobody has promoted it.
LEMMA PlanPromotionPromoter ==
  ASSUME TopologyInv, PromoterInv, PlanPromotion
  PROVE  PromoterInv'
<1>1. PICK p \in HashPartitions, h \in Promotable : PlansPromotion(p, h)
  BY PlanPromotionStep
<1> DEFINE r == RangeRoot(h)
<1>2. r \in RangePartitions /\ r.hash = h /\ r \in Partitions /\ ~exists(r) /\ r # p /\ p \in Partitions /\ h \in Hashes
  BY <1>1, RootIsPartition, HashesAssumption DEF PlansPromotion, Partitions
<1>3. /\ part'[p].promo[h] = "planned" /\ part'[r].source = p /\ exists(r)' /\ exists(p)' /\ exists(p)
      /\ part'[p].source = part[p].source /\ \A g \in Hashes : g # h => part'[p].promo[g] = part[p].promo[g]
      /\ \A g \in Hashes : part'[r].promo[g] = "none"
      /\ \A q \in Partitions : q # p /\ q # r => part'[q] = part[q]
  BY <1>1, <1>2 DEF PlansPromotion, exists
<1>4. \A q \in Partitions : part[q].promo[h] = "none"
  BY <1>2 DEF PromoterInv, PromotedBy
<1> HIDE DEF r
<1> SUFFICES ASSUME NEW q \in Partitions, NEW g \in Promotable, part'[q].promo[g] # "none"
             PROVE  PromotedBy(q, g)'
  BY DEF PromoterInv
<1>5. g \in Hashes /\ q # r
  BY <1>3, HashesAssumption
<1>6. CASE g = h
  <2>1. q = p
    BY <1>3, <1>4, <1>5, <1>6
  <2> QED BY <2>1, <1>3, <1>6, PromotedNext DEF r, exists
<1>7. CASE g # h
  <2> DEFINE s == part[RangeRoot(g)].source
  <2>1. part'[q].promo[g] = part[q].promo[g]
    BY <1>3, <1>5, <1>7
  <2>2. /\ exists(RangeRoot(g)) /\ (part[q].promo[g] = "planned" => s = q)
        /\ (overrideCutOver(q, g) => overrideCutOver(s, g))
    BY <2>1 DEF PromoterInv, PromotedBy
  <2>3. RangeRoot(g) \in Partitions /\ RangeRoot(g).hash = g /\ RangeRoot(g).kind = "range"
    BY RootIsPartition
  <2>4. RangeRoot(g) # r /\ RangeRoot(g) # p
    BY <2>3, <1>2, <1>7, PartitionKinds
  <2>5. part'[RangeRoot(g)] = part[RangeRoot(g)]
    BY <2>3, <2>4, <1>3
  <2>6. s \in HashPartitions /\ s \in Partitions
    BY <2>2 DEF TopologyInv, RootInv, Partitions
  <2>7. s # r
    BY <2>6, <1>2, PartitionKinds
  <2>8. part'[s].promo[g] = part[s].promo[g]
    BY <2>6, <2>7, <1>3, <1>5, <1>7
  <2> QED BY <2>1, <2>2, <2>5, <2>8, PromotedNext DEF overrideCutOver, exists
<1> QED BY <1>6, <1>7

\* A promotion that cuts over does so at the source of its root.
LEMMA CutOverPromoter ==
  ASSUME TopologyInv, PromoterInv, CutOver
  PROVE  PromoterInv'
<1>0. PartType /\ Promotable \subseteq Hashes
  BY HashesAssumption DEF TopologyInv
<1>1. ASSUME NEW p \in Partitions, CutsOverSplit(p) PROVE PromoterInv'
  <2>1. \A q \in Partitions : /\ part'[q].source = part[q].source /\ part'[q].promo = part[q].promo
                              /\ part'[q].phase = part[q].phase
    BY <1>1 DEF CutsOverSplit
  <2>2. \A q \in Partitions : exists(q) => exists(q)' /\ part'[q].source = part[q].source
    BY <2>1 DEF exists
  <2>3. \A q \in Partitions, h \in Promotable : exists(q) /\ overrideCutOver(q, h) => overrideCutOver(q, h)'
    BY <2>1 DEF overrideCutOver
  <2>4. ASSUME NEW q \in Partitions, NEW h \in Promotable, part'[q].promo[h] # "none"
        PROVE  \/ part'[q].promo[h] = "planned" /\ part[q].promo[h] = "planned"
               \/ part'[q].promo[h] # "planned" /\ \E x \in Partitions : overrideCutOver(x, h)
    <3>1. h \in Hashes /\ part'[q].promo[h] = part[q].promo[h]
      BY <1>0, <2>1
    <3> QED BY <3>1, <2>4, <1>0, PromoStages
  <2> QED BY <2>2, <2>3, <2>4, PromoterKept
<1>2. ASSUME NEW p \in HashPartitions, NEW h \in Promotable, CutsOverPromotion(p, h) PROVE PromoterInv'
  <2>1. p \in Partitions /\ h \in Hashes
    BY <1>0 DEF Partitions
  <2>2. /\ part[p].promo[h] = "planned" /\ part'[p].promo[h] = "cut_over"
        /\ \A g \in Hashes : g # h => part'[p].promo[g] = part[p].promo[g]
        /\ \A q \in Partitions : q # p => part'[q].promo = part[q].promo
        /\ \A q \in Partitions : part'[q].phase = part[q].phase /\ part'[q].source = part[q].source
    BY <1>2 DEF CutsOverPromotion
  <2>3. exists(RangeRoot(h)) /\ part[RangeRoot(h)].source = p
    BY <2>1, <2>2 DEF PromoterInv, PromotedBy
  <2> SUFFICES ASSUME NEW q \in Partitions, NEW g \in Promotable, part'[q].promo[g] # "none"
               PROVE  PromotedBy(q, g)'
    BY DEF PromoterInv
  <2> DEFINE s == part[RangeRoot(g)].source
  <2>4. RangeRoot(g) \in Partitions /\ g \in Hashes
    BY RootIsPartition, <1>0
  <2>5. CASE g = h
    <3>1. part'[RangeRoot(h)].phase # "absent" /\ part'[RangeRoot(h)].source = p
      BY <2>2, <2>3, <2>4, <2>5 DEF exists
    <3>2. q # p => part[q].promo[h] # "none" /\ part'[q].promo[h] = part[q].promo[h]
      BY <2>2, <2>5
    <3>3. part'[q].promo[h] = "planned" => q = p
      BY <2>3, <3>2 DEF PromoterInv, PromotedBy
    <3> QED BY <3>1, <3>3, <2>2, <2>5, PromotedNext
  <2>6. CASE g # h
    <3>1. part'[q].promo[g] = part[q].promo[g]
      BY <2>2, <2>4, <2>6
    <3>2. PromotedBy(q, g)
      BY <3>1 DEF PromoterInv
    <3>3. part'[RangeRoot(g)].phase # "absent" /\ part'[RangeRoot(g)].source = s
      BY <2>2, <2>4, <3>2 DEF PromotedBy, exists
    <3>4. s \in Partitions
      BY <3>2 DEF PromotedBy, TopologyInv, RootInv, Partitions
    <3>5. part'[s].promo[g] = part[s].promo[g]
      BY <2>2, <2>4, <2>6, <3>4
    <3> QED BY <3>1, <3>2, <3>3, <3>5, PromotedNext DEF PromotedBy, overrideCutOver
  <2> QED BY <2>5, <2>6
<1> QED BY <1>1, <1>2, CutOverStep

\* A page changes no promotion.
LEMMA FirstPagePromoter ==
  ASSUME TopologyInv, PromoterInv, FirstPage
  PROVE  PromoterInv'
<1>0. PartType /\ Promotable \subseteq Hashes
  BY HashesAssumption DEF TopologyInv
<1>1. PICK p \in Partitions : ReceivesPage(p)
  BY FirstPageStep
<1>2. \A q \in Partitions : /\ part'[q].source = part[q].source /\ part'[q].promo = part[q].promo
                            /\ exists(q) => exists(q)'
  BY <1>1 DEF ReceivesPage, exists
<1>3. \A q \in Partitions, h \in Promotable : exists(q) /\ overrideCutOver(q, h) => overrideCutOver(q, h)'
  BY <1>2 DEF overrideCutOver
<1>4. ASSUME NEW q \in Partitions, NEW h \in Promotable, part'[q].promo[h] # "none"
      PROVE  \/ part'[q].promo[h] = "planned" /\ part[q].promo[h] = "planned"
             \/ part'[q].promo[h] # "planned" /\ \E x \in Partitions : overrideCutOver(x, h)
  <2>1. h \in Hashes /\ part'[q].promo[h] = part[q].promo[h]
    BY <1>0, <1>2
  <2> QED BY <2>1, <1>4, <1>0, PromoStages
<1> QED BY <1>2, <1>3, <1>4, PromoterKept

\* A promotion that is over was cut over.
LEMMA ImportCompletesPromoter ==
  ASSUME TopologyInv, RowsType, PromoterInv, ImportCompletes
  PROVE  PromoterInv'
<1>0. PartType /\ Promotable \subseteq Hashes
  BY HashesAssumption DEF TopologyInv
<1>1. PICK p \in Partitions, s \in Partitions : Arrives(p, s) /\ (EndsPromotion(p, s) \/ EndsSplit(p, s))
  BY ImportCompletesStep
<1>2. /\ \A q \in Partitions : exists(q) => exists(q)' /\ part'[q].source = part[q].source
      /\ \A q \in Partitions : q # s => part'[q].promo = part[q].promo
  BY <1>1 DEF Arrives, exists
<1>3. ASSUME NEW g \in Hashes
      PROVE  part'[s].promo[g] = part[s].promo[g]
             \/ (overrideCutOver(s, g) /\ part'[s].promo[g] = "completed")
  BY <1>1 DEF EndsPromotion, EndsSplit, overrideCutOver
<1>4. ASSUME NEW q \in Partitions, NEW h \in Promotable, exists(q), overrideCutOver(q, h)
      PROVE  overrideCutOver(q, h)'
  <2>1. h \in Hashes
    BY <1>0
  <2>2. part'[q].promo[h] \in {"cut_over", "completed"}
    BY <2>1, <1>2, <1>3, <1>4 DEF overrideCutOver
  <2> QED BY <2>2 DEF overrideCutOver
<1>5. ASSUME NEW q \in Partitions, NEW h \in Promotable, part'[q].promo[h] # "none"
      PROVE  \/ part'[q].promo[h] = "planned" /\ part[q].promo[h] = "planned"
             \/ part'[q].promo[h] # "planned" /\ \E x \in Partitions : overrideCutOver(x, h)
  <2>1. h \in Hashes
    BY <1>0
  <2>2. CASE part'[q].promo[h] = part[q].promo[h]
    BY <2>1, <2>2, <1>5, <1>0, PromoStages
  <2>3. CASE overrideCutOver(q, h) /\ part'[q].promo[h] = "completed"
    BY <2>3
  <2> QED BY <2>1, <2>2, <2>3, <1>2, <1>3
<1> QED BY <1>2, <1>4, <1>5, PromoterKept

\* A hash that is promoted at first has its range root, with the promoter as its source.
LEMMA InitPromoter ==
  ASSUME InitTopology
  PROVE  PromoterInv
<1>1. PICK top \in InitialTopologies : \A p \in Partitions : IF StartExists(top, p) THEN StartPart(top, p) ELSE part[p] = Absent
  BY InitTopologyStep
<1> SUFFICES ASSUME NEW q \in Partitions, NEW h \in Promotable, part[q].promo[h] # "none" PROVE PromotedBy(q, h)
  BY DEF PromoterInv
<1>2. h \in Hashes
  BY HashesAssumption
<1>3. StartExists(top, q)
  BY <1>1, <1>2 DEF Absent
<1>4. part[q].promo = [g \in Hashes |-> IF StartPromoter(top, q, g) THEN "completed" ELSE "none"]
  BY <1>1, <1>3 DEF StartPart
<1>5. StartPromoter(top, q, h) /\ part[q].promo[h] = "completed"
  BY <1>2, <1>4
<1> DEFINE r == RangeRoot(h)
<1>6. r \in Partitions /\ r.kind = "range" /\ r.hash = h /\ IsRangeRoot(r)
  BY RootIsPartition
<1> HIDE DEF r
<1>7. StartExists(top, r)
  BY <1>5, <1>6 DEF StartExists, StartPromoter
<1>8. part[r].phase = "active" /\ part[r].source = StartSource(top, r)
  BY <1>1, <1>6, <1>7 DEF StartPart
<1> DEFINE s == StartSource(top, r)
<1>9. s \in HashPartitions /\ StartPromoter(top, s, h)
  BY <1>6, <1>7, StartSourceType
<1> HIDE DEF s
<1>10. s \in Partitions /\ StartExists(top, s)
  BY <1>9 DEF Partitions, StartPromoter, StartLeaf
<1>11. part[s].promo = [g \in Hashes |-> IF StartPromoter(top, s, g) THEN "completed" ELSE "none"]
  BY <1>1, <1>10 DEF StartPart
<1>12. part[s].promo[h] = "completed"
  BY <1>2, <1>9, <1>11
<1> QED BY <1>5, <1>8, <1>12 DEF PromotedBy, exists, overrideCutOver, r, s

\* Every step keeps the promoters.
LEMMA PromoterStep ==
  ASSUME IInv, PromoterInv, [Next]_vars
  PROVE  PromoterInv'
<1>1. TopologyInv /\ RowsType
  BY DEF IInv, RowsInv, RowsType
<1>2. CASE RepartitionStep
  BY <1>1, <1>2, PlanSplitPromoter, PlanPromotionPromoter, CutOverPromoter, FirstPagePromoter, ImportCompletesPromoter DEF RepartitionStep
<1>3. CASE ~RepartitionStep
  <2>1. part' = part
    BY <1>3 DEF Next, vars, RequestStep, RefreshCache, Send, ClientMisses, ClientEnds, NoIdentity, WhileImporting,
                Dispatch, ExecuteLocal, Return, Retry, LoseAnswer, Restart, topologyVars
  <2>2. \A q \in Partitions, h \in Promotable : PromotedBy(q, h)' <=> PromotedBy(q, h)
    BY <2>1, PromotedNext DEF PromotedBy, exists, overrideCutOver
  <2> QED BY <2>1, <2>2 DEF PromoterInv
<1> QED BY <1>2, <1>3

\* A partition that a request of the key may be sent to: it exists, and if it imports, its source passes to it.
Reached(x, k) == exists(x) /\ ownsByTopology(x, k) /\ (isImporting(x) => CutOverTo(x))

\* Below a router the target with the key is reached.
LEMMA RoutersPass ==
  ASSUME TopologyInv, NEW x \in Partitions, NEW k \in Keys, Reached(x, k), routerRole(x)
  PROVE  \E c \in Partitions : Reached(c, k) /\ Under(x, c)
<1>1. part[x].split # "none"
  BY DEF routerRole
<1>2. PICK c \in part[x].kids : ownsByTopology(c, k)
  BY <1>1, Splitting DEF Tiles, Reached
<1>3. c \in Partitions /\ exists(c) /\ Under(x, c) /\ ~IsRangeRoot(c) /\ part[c].source = x
  BY <1>1, Splitting DEF TargetInv
<1>4. CutOverTo(c)
  BY <1>3 DEF CutOverTo
<1> QED BY <1>2, <1>3, <1>4 DEF Reached

\* The smallest range partition that is reached is the owner.
LEMMA RangeOwnerExists ==
  ASSUME TopologyInv, NEW y \in Partitions, y.kind = "range", NEW k \in Keys, Reached(y, k)
  PROVE  \E x \in Partitions : Owner(x, k)
<1> DEFINE Widths == {n \in Nat : \E r \in Partitions : r.kind = "range" /\ Reached(r, k) /\ n = r.end - r.start}
<1>1. \A r \in Partitions : r.kind = "range" => r.start \in Nat /\ r.end \in Nat /\ r.end - r.start \in Nat
  BY PartitionKinds, RangeType
<1>2. y.end - y.start \in Widths
  BY <1>1
<1>3. PICK n \in Widths : \A m \in Widths : n <= m
  <2> HIDE DEF Widths
  <2>1. Widths \subseteq Nat
    BY DEF Widths
  <2> QED BY <1>2, <2>1, FirstExists
<1>4. PICK x \in Partitions : x.kind = "range" /\ Reached(x, k) /\ n = x.end - x.start
  BY <1>3
<1>5. ~routerRole(x)
  <2> SUFFICES ASSUME routerRole(x) PROVE FALSE
    OBVIOUS
  <2>1. PICK c \in Partitions : Reached(c, k) /\ Under(x, c)
    BY <1>4, RoutersPass
  <2>2. c.kind = "range" /\ x.start <= c.start /\ c.end <= x.end /\ x.hash = c.hash /\ x # c
    BY <2>1, <1>4 DEF Under
  <2>3. c.end - c.start \in Widths
    BY <1>1, <2>1, <2>2
  <2>4. n <= c.end - c.start
    BY <1>3, <2>3
  <2>5. c.start = x.start /\ c.end = x.end
    BY <1>1, <1>4, <2>2, <2>4
  <2>6. c = x
    BY <1>4, <2>2, <2>5, PartitionKinds, RangeType
  <2> QED BY <2>2, <2>6
<1>6. ~overrideCutOver(x, HashOf[k])
  <2>1. HashOf[k] \in Hashes
    BY KeysAssumption
  <2> QED BY <2>1, <1>4 DEF overrideCutOver, TopologyInv, PromoInv
<1> QED BY <1>4, <1>5, <1>6 DEF Owner, Reached

\* The last hash partition that is reached is the owner, or gave the hash to a range root, which is reached.
LEMMA OwnerExists ==
  ASSUME TopologyInv, PromoterInv, NEW k \in Keys
  PROVE  \E x \in Partitions : Owner(x, k)
<1> DEFINE h == HashOf[k]
           L == Len(Digits[h])
           Depths == {n \in 1 .. L : Reached(Hash(PathOf(h, n)), k)}
<1>1. h \in Hashes /\ L \in Nat \ {0} /\ Digits[h] \in Seq(Nat)
  BY KeysAssumption, HashesAssumption
<1> HIDE DEF h
<1>2. \A n \in 1 .. L : /\ Hash(PathOf(h, n)) \in Partitions /\ Hash(PathOf(h, n)).kind = "hash"
                        /\ Hash(PathOf(h, n)).path = PathOf(h, n) /\ OwnsHash(Hash(PathOf(h, n)), h)
  BY <1>1, PathPartition DEF Partitions, OwnsHash
<1>3. 1 \in Depths
  <2> DEFINE root == Hash(PathOf(h, 1))
  <2>1. 1 \in 1 .. L
    BY <1>1
  <2>2. root \in Partitions /\ root.kind = "hash" /\ root.path = PathOf(h, 1) /\ OwnsHash(root, h)
    BY <2>1, <1>2
  <2>3. Len(PathOf(h, 1)) = 1
    BY <1>1, <2>1, PathType
  <2>4. IsHashRoot(root)
    BY <2>2, <2>3 DEF IsHashRoot
  <2>5. part[root].phase = "active"
    BY <2>2, <2>4 DEF TopologyInv, HashRootInv
  <2>6. Reached(root, k)
    BY <2>2, <2>5 DEF Reached, exists, isImporting, ownsByTopology, h
  <2> QED BY <2>1, <2>6
<1>4. PICK n \in Depths : \A m \in Depths : m <= n
  <2> HIDE DEF Depths
  <2>1. Depths \subseteq 0 .. L
    BY <1>1 DEF Depths
  <2> QED BY <1>1, <1>3, <2>1, LastExists
<1> DEFINE q == Hash(PathOf(h, n))
<1>5. n \in 1 .. L /\ Reached(q, k)
  BY <1>4
<1>6. q \in Partitions /\ q.kind = "hash" /\ q.path = PathOf(h, n) /\ OwnsHash(q, h)
  BY <1>2, <1>5
<1>7. Len(PathOf(h, n)) = n
  BY <1>1, <1>5, PathType
<1> HIDE DEF q
<1>8. ~routerRole(q)
  <2> SUFFICES ASSUME routerRole(q) PROVE FALSE
    OBVIOUS
  <2>1. PICK c \in Partitions : Reached(c, k) /\ Under(q, c)
    BY <1>5, <1>6, RoutersPass
  <2>2. c.kind = "hash" /\ c # q /\ IsPrefix(q.path, c.path)
    BY <2>1, <1>6 DEF Under
  <2>3. c = Hash(c.path) /\ c.path \in Seq(Nat) /\ Len(c.path) \in Nat \ {0} /\ q.path \in Seq(Nat) /\ q = Hash(q.path)
    BY <2>2, <1>6, HashPaths
  <2>4. IsPrefix(c.path, Digits[h])
    BY <2>1, <2>2 DEF Reached, ownsByTopology, OwnsHash, h
  <2>5. Len(c.path) <= L /\ c.path = PathOf(h, Len(c.path))
    BY <2>3, <2>4, <1>1 DEF IsPrefix, PathOf
  <2>6. Len(c.path) \in Depths
    <3>1. Len(c.path) \in 1 .. L
      BY <2>3, <2>5, <1>1
    <3>2. Reached(Hash(PathOf(h, Len(c.path))), k)
      BY <2>1, <2>3, <2>5
    <3> QED BY <3>1, <3>2
  <2>7. Len(c.path) <= n
    BY <2>6, <1>4
  <2>8. Len(q.path) <= Len(c.path) /\ \A i \in 1 .. Len(q.path) : q.path[i] = c.path[i]
    BY <2>2, <2>3, PrefixPointwise
  <2>9. Len(q.path) = Len(c.path)
    BY <2>3, <2>7, <2>8, <1>5, <1>6, <1>7
  <2>10. q.path = c.path
    BY <2>3, <2>8, <2>9, SeqEqual
  <2> QED BY <2>2, <2>3, <2>10
<1>9. CASE ~overrideCutOver(q, h)
  BY <1>5, <1>6, <1>8, <1>9 DEF Owner, Reached, h
<1>10. CASE overrideCutOver(q, h)
  <2> DEFINE r == RangeRoot(h)
  <2>1. part[q].promo[h] # "none"
    BY <1>10 DEF overrideCutOver
  <2>2. h \in Promotable
    BY <2>1, <1>1, <1>6 DEF TopologyInv, PromoInv
  <2>3. exists(r) /\ overrideCutOver(part[r].source, h)
    BY <2>1, <2>2, <1>6, <1>10 DEF PromoterInv, PromotedBy
  <2>4. /\ r \in Partitions /\ IsRangeRoot(r) /\ r.kind = "range" /\ r.hash = h /\ r.start = 0 /\ r.end = Top
    BY <2>2, RootIsPartition
  <2> HIDE DEF r
  <2>5. CutOverTo(r)
    BY <2>3, <2>4 DEF CutOverTo
  <2>6. k \in Nat /\ k < Top
    BY KeysAssumption, TopType
  <2>7. ownsByTopology(r, k)
    BY <2>4, <2>6 DEF ownsByTopology, OwnsHash, h
  <2>8. Reached(r, k)
    BY <2>3, <2>5, <2>7 DEF Reached
  <2> QED BY <2>4, <2>8, RangeOwnerExists
<1> QED BY <1>9, <1>10

\* Every state has its promoters.
THEOREM Promoters == Spec => []PromoterInv
<1>1. Init => PromoterInv
  BY InitPromoter DEF Init
<1>2. IInv /\ PromoterInv /\ [Next]_vars => PromoterInv'
  BY PromoterStep
<1> QED BY <1>1, <1>2, Invariance, PTL DEF Spec

\* One partition, no more and no fewer, answers for a key, itself or through its source, at every point of every
\* repartition (ownsByTopology, overrideCutOver and routerRole, runtime.ts).
OneOwnerPerKey ==
  \A k \in Keys : \E x \in Partitions : Owner(x, k) /\ \A y \in Partitions : Owner(y, k) => y = x

\* Every key has one owner.
THEOREM KeysHaveOneOwner == Spec => []OneOwnerPerKey
<1>1. ASSUME IInv, PromoterInv PROVE OneOwnerPerKey
  <2> SUFFICES ASSUME NEW k \in Keys PROVE \E x \in Partitions : Owner(x, k) /\ \A y \in Partitions : Owner(y, k) => y = x
    BY DEF OneOwnerPerKey
  <2>1. TopologyInv
    BY <1>1 DEF IInv
  <2>2. PICK x \in Partitions : Owner(x, k)
    BY <1>1, <2>1, OwnerExists
  <2>3. \A y \in Partitions : Owner(y, k) => y = x
    BY <2>1, <2>2, OneOwner
  <2> QED BY <2>2, <2>3
<1>2. IInv /\ PromoterInv => OneOwnerPerKey
  BY <1>1
<1> QED BY <1>2, Invariance, Promoters, PTL

\* The rows of the owner of a key, or of its source while it imports, count the writes that ran, no fewer and no more:
\* no page of an import undoes one and none runs on a partition that is no owner (importOnePage, repartition-flow.ts;
\* #whileImporting, runtime.ts).
OwnersHaveEveryWrite == \A x \in Partitions, k \in Keys : Owner(x, k) => rows[RowsAt(x)][k] = Ran(k)

\* The owner of a key has all writes of it.
THEOREM RowsAreComplete == Spec => []OwnersHaveEveryWrite
<1>1. IInv => OwnersHaveEveryWrite
  BY DEF IInv, RowsInv, OwnersHaveEveryWrite
<1> QED BY <1>1, Invariance, PTL

----------------------------------------------------------------------------
(* A request goes down. *)

\* What is called after a caller lies down from it; after a source that hands a promoted key on it is in the range trees.
Follows(f, y) == IF f.how = "caller_slice" THEN y.kind = "range" ELSE Down(f.at, y)
CallFollows(s, y) == \A j \in 1 .. Len(s) : Follows(s[j], y)

\* The callers that wait, the last first.  A source that hands a promoted key on was called back up by its target: the
\* callers before it are in the hash tree, and none of them handed the key on.
HandsOn(f) == f.how = "caller_slice"
ChainOf(s) ==
  /\ \A j \in 1 .. Len(s) : HandsOn(s[j]) => s[j].at.kind = "hash"
  /\ \A i, j \in 1 .. Len(s) : i < j /\ HandsOn(s[i]) => s[j].at.kind = "hash" /\ ~HandsOn(s[j])
  /\ \A i, j \in 1 .. Len(s) : i < j /\ ~HandsOn(s[i]) => Follows(s[j], s[i].at)

\* The call under way goes on down, or is that of a target which reads through its source.
ChainInv ==
  /\ ChainOf(stack)
  /\ flight.type = "call" /\ flight.mode = "dispatch" => CallFollows(stack, flight.to)
  /\ flight.type = "call" /\ flight.mode = "execute" =>
       stack # <<>> /\ stack[1].how = "read_through" /\ stack[1].at = flight.from

\* To go down is transitive and leads to another partition.
LEMMA DownOrder ==
  ASSUME NEW x \in Partitions, NEW y \in Partitions, NEW z \in Partitions
  PROVE  /\ Down(x, y) /\ Down(y, z) => Down(x, z)
         /\ Down(x, y) => x # y
<1>1. Under(x, y) => x.kind = y.kind /\ x # y
  BY DEF Under
<1>2. Under(y, z) => y.kind = z.kind
  BY DEF Under
<1> QED BY <1>1, <1>2, UnderOrder DEF Down

\* What follows a caller is followed by what lies down from it.
LEMMA FollowsOn ==
  ASSUME NEW f \in Frames, NEW x \in Partitions, NEW y \in Partitions, Follows(f, x), Down(x, y)
  PROVE  Follows(f, y)
<1>1. f.at \in Partitions
  BY DEF Frames
<1>2. CASE HandsOn(f)
  <2>1. x.kind = "range"
    BY <1>2 DEF Follows, HandsOn
  <2> QED BY <1>2, <2>1 DEF Follows, HandsOn, Down, Under
<1>3. CASE ~HandsOn(f)
  BY <1>1, <1>3, DownOrder DEF Follows, HandsOn
<1> QED BY <1>2, <1>3

\* A caller more, element by element.
LEMMA Pushed ==
  ASSUME NEW s \in Seq(Frames), NEW f \in Frames
  PROVE  /\ <<f>> \o s \in Seq(Frames) /\ Len(s) \in Nat /\ Len(<<f>> \o s) = 1 + Len(s)
         /\ (<<f>> \o s)[1] = f /\ \A i \in 1 .. Len(<<f>> \o s) : i # 1 => i - 1 \in 1 .. Len(s) /\ (<<f>> \o s)[i] = s[i - 1]
<1>1. <<f>> \in Seq(Frames) /\ Len(<<f>>) = 1 /\ <<f>>[1] = f /\ Len(s) \in Nat
  BY LenProperties
<1> DEFINE t == <<f>> \o s
<1>2. t \in Seq(Frames) /\ Len(t) = 1 + Len(s) /\ \A i \in 1 .. Len(t) : t[i] = IF i <= 1 THEN <<f>>[i] ELSE s[i - 1]
  BY <1>1, ConcatProperties
<1> HIDE DEF t
<1>3. t[1] = f
  BY <1>1, <1>2
<1>4. ASSUME NEW i \in 1 .. Len(t), i # 1 PROVE i - 1 \in 1 .. Len(s) /\ t[i] = s[i - 1]
  BY <1>1, <1>2, <1>4
<1> QED BY <1>1, <1>2, <1>3, <1>4 DEF t

\* A caller that follows the others joins the chain.
LEMMA ChainPush ==
  ASSUME NEW s \in Seq(Frames), NEW f \in Frames, ChainOf(s),
         HandsOn(f) => f.at.kind = "hash" /\ \A j \in 1 .. Len(s) : s[j].at.kind = "hash" /\ ~HandsOn(s[j]),
         ~HandsOn(f) => CallFollows(s, f.at)
  PROVE  ChainOf(<<f>> \o s)
<1> DEFINE t == <<f>> \o s
<1>1. /\ Len(s) \in Nat /\ Len(t) = 1 + Len(s) /\ t[1] = f
      /\ \A i \in 1 .. Len(t) : i # 1 => i - 1 \in 1 .. Len(s) /\ t[i] = s[i - 1]
  BY Pushed
<1> HIDE DEF t
<1>2. ASSUME NEW j \in 1 .. Len(t), HandsOn(t[j]) PROVE t[j].at.kind = "hash"
  <2>1. CASE j = 1
    BY <1>1, <1>2, <2>1
  <2>2. CASE j # 1
    <3>1. j - 1 \in 1 .. Len(s) /\ t[j] = s[j - 1]
      BY <1>1, <2>2
    <3> QED BY <1>2, <3>1 DEF ChainOf
  <2> QED BY <2>1, <2>2
<1>3. ASSUME NEW i \in 1 .. Len(t), NEW j \in 1 .. Len(t), i < j
      PROVE  /\ HandsOn(t[i]) => t[j].at.kind = "hash" /\ ~HandsOn(t[j])
             /\ ~HandsOn(t[i]) => Follows(t[j], t[i].at)
  <2>1. j # 1
    BY <1>1, <1>3
  <2>2. j - 1 \in 1 .. Len(s) /\ t[j] = s[j - 1]
    BY <1>1, <2>1
  <2>3. CASE i = 1
    BY <1>1, <2>2, <2>3 DEF CallFollows
  <2>4. CASE i # 1
    <3>1. i - 1 \in 1 .. Len(s) /\ t[i] = s[i - 1] /\ i - 1 < j - 1
      BY <1>1, <1>3, <2>4
    <3> QED BY <2>2, <3>1 DEF ChainOf
  <2> QED BY <2>3, <2>4
<1> QED BY <1>2, <1>3 DEF ChainOf, t

\* The chain without its last caller, and what the last caller is to the others.
LEMMA ChainPop ==
  ASSUME NEW s \in Seq(Frames), s # <<>>, ChainOf(s)
  PROVE  /\ Tail(s) \in Seq(Frames) /\ ChainOf(Tail(s)) /\ Head(s) \in Frames /\ Head(s) = s[1]
         /\ ~HandsOn(Head(s)) => CallFollows(Tail(s), Head(s).at)
<1>1. Len(s) \in Nat \ {0}
  BY EmptySeq, LenProperties
<1>2. Head(s) = s[1] /\ Head(s) \in Frames
  BY <1>1, HeadTailProperties
<1> DEFINE t == Tail(s)
<1>3. t \in Seq(Frames) /\ Len(t) = Len(s) - 1 /\ \A i \in 1 .. Len(t) : t[i] = s[i + 1]
  BY <1>1, HeadTailProperties
<1> HIDE DEF t
<1>4. ASSUME NEW j \in 1 .. Len(t) PROVE j + 1 \in 1 .. Len(s) /\ t[j] = s[j + 1] /\ 1 \in 1 .. Len(s) /\ 1 < j + 1
  BY <1>1, <1>3
<1>5. ASSUME NEW j \in 1 .. Len(t) PROVE HandsOn(t[j]) => t[j].at.kind = "hash"
  BY <1>4 DEF ChainOf
<1>6. ASSUME NEW i \in 1 .. Len(t), NEW j \in 1 .. Len(t), i < j
      PROVE  /\ HandsOn(t[i]) => t[j].at.kind = "hash" /\ ~HandsOn(t[j])
             /\ ~HandsOn(t[i]) => Follows(t[j], t[i].at)
  <2>1. i + 1 \in 1 .. Len(s) /\ j + 1 \in 1 .. Len(s) /\ i + 1 < j + 1 /\ t[i] = s[i + 1] /\ t[j] = s[j + 1]
    BY <1>1, <1>4, <1>6, <1>3
  <2> QED BY <2>1 DEF ChainOf
<1>7. ASSUME ~HandsOn(Head(s)), NEW j \in 1 .. Len(t) PROVE Follows(t[j], Head(s).at)
  BY <1>2, <1>4, <1>7 DEF ChainOf
<1> QED BY <1>2, <1>3, <1>5, <1>6, <1>7 DEF ChainOf, CallFollows, t

\* A caller joins the chain and calls a partition down from it.
LEMMA ChainForward ==
  ASSUME NEW s \in Seq(Frames), NEW f \in Frames, ~HandsOn(f), ChainOf(s), CallFollows(s, f.at),
         NEW y \in Partitions, Down(f.at, y)
  PROVE  ChainOf(<<f>> \o s) /\ CallFollows(<<f>> \o s, y)
<1>1. ChainOf(<<f>> \o s)
  BY ChainPush
<1> DEFINE t == <<f>> \o s
<1>2. /\ Len(s) \in Nat /\ Len(t) = 1 + Len(s) /\ t[1] = f
      /\ \A i \in 1 .. Len(t) : i # 1 => i - 1 \in 1 .. Len(s) /\ t[i] = s[i - 1]
  BY Pushed
<1> HIDE DEF t
<1>3. ASSUME NEW j \in 1 .. Len(t) PROVE Follows(t[j], y)
  <2>1. CASE j = 1
    BY <1>2, <2>1 DEF Follows, HandsOn
  <2>2. CASE j # 1
    <3>1. j - 1 \in 1 .. Len(s) /\ t[j] = s[j - 1]
      BY <1>2, <2>2
    <3>2. s[j - 1] \in Frames /\ Follows(s[j - 1], f.at) /\ f.at \in Partitions
      BY <3>1, ElementOfSeq DEF CallFollows, Frames
    <3> QED BY <3>1, <3>2, FollowsOn
  <2> QED BY <2>1, <2>2
<1> QED BY <1>1, <1>3 DEF CallFollows, t

\* An answer, or nothing, is under way: the callers alone make the chain.
LEMMA AnswerChain ==
  ASSUME ChainOf(stack'), flight'.type # "call"
  PROVE  ChainInv'
BY DEF ChainInv, ChainOf, CallFollows, Follows, HandsOn

\* A call to dispatch that follows its callers.
LEMMA CallChain ==
  ASSUME ChainOf(stack'), flight'.type = "call", flight'.mode = "dispatch", CallFollows(stack', flight'.to)
  PROVE  ChainInv'
BY DEF ChainInv, ChainOf, CallFollows, Follows, HandsOn

\* A call without callers.
LEMMA EntryChain ==
  ASSUME stack' = <<>>, flight'.type = "call", flight'.mode = "dispatch"
  PROVE  ChainInv'
<1>1. Len(stack') = 0
  BY EmptySeq
<1>2. ChainOf(stack') /\ CallFollows(stack', flight'.to)
  BY <1>1 DEF ChainOf, CallFollows
<1> QED BY <1>2, CallChain

\* Whether a partition runs the handler or refuses, an answer is under way.
LEMMA AnswersEnd ==
  ASSUME NEW p, NEW nodes, NEW code, RunLocal(p, nodes) \/ Refuse(code, p, nodes)
  PROVE  flight'.type = "answer"
BY DEF RunLocal, Refuse, Answer

\* A target that reads through its source, or refuses.
LEMMA WhileImportingChain ==
  ASSUME IInv, ChainInv, WhileImporting
  PROVE  ChainInv'
<1>1. RequestInv /\ flight.type = "call" /\ flight.mode = "dispatch" /\ ChainOf(stack) /\ CallFollows(stack, flight.to)
  BY DEF IInv, ChainInv, WhileImporting, Dispatching
<1>2. stack \in Seq(Frames) /\ flight \in Calls
  BY <1>1, UnderWayMeans DEF StackType
<1>3. PICK p \in Partitions : p = flight.to
  BY <1>2 DEF Calls
<1> DEFINE f == Frame(p, "read_through", Local, {Node(p)})
<1>4. \/ UNCHANGED stack /\ \E code : Refuse(code, p, {Node(p)})
      \/ stack' = <<f>> \o stack /\ flight' = Call(part[p].source, "execute", p)
  BY <1>3 DEF WhileImporting
<1>5. CASE UNCHANGED stack /\ \E code : Refuse(code, p, {Node(p)})
  <2>1. flight'.type = "answer"
    BY <1>5, AnswersEnd
  <2> QED BY <1>1, <1>5, <2>1, AnswerChain
<1>6. CASE stack' = <<f>> \o stack /\ flight' = Call(part[p].source, "execute", p)
  <2>1. f \in Frames /\ f.how = "read_through" /\ f.at = p
    <3>1. {Node(p)} \in SUBSET Nodes
      BY NodeType
    <3> QED BY <3>1, NowhereLeads DEF Frame, Frames, Leads
  <2> HIDE DEF f
  <2>2. ~HandsOn(f) /\ CallFollows(stack, f.at)
    BY <1>1, <1>3, <2>1 DEF HandsOn
  <2>3. ChainOf(stack') /\ stack'[1] = f /\ Len(stack') # 0
    BY <1>1, <1>2, <1>6, <2>1, <2>2, ChainPush, Pushed
  <2>4. stack' # <<>>
    BY <2>3, EmptySeq
  <2>5. flight'.type = "call" /\ flight'.mode = "execute" /\ flight'.from = p
    BY <1>6 DEF Call
  <2> QED BY <2>1, <2>3, <2>4, <2>5 DEF ChainInv, ChainOf, HandsOn, Follows
<1> QED BY <1>4, <1>5, <1>6

\* A partition that dispatches forwards down from itself.
LEMMA DispatchChain ==
  ASSUME IInv, ChainInv, Dispatch
  PROVE  ChainInv'
<1>1. /\ TopologyInv /\ LearnedInv /\ RequestInv
      /\ flight.type = "call" /\ flight.mode = "dispatch" /\ ChainOf(stack) /\ CallFollows(stack, flight.to)
  BY DEF IInv, ChainInv, Dispatch, Dispatching
<1>2. /\ stack \in Seq(Frames) /\ flight \in Calls /\ request \in RequestsUnderWay /\ request.keys # {}
      /\ request.shape = "point" => \E k \in Keys : request.keys = {k}
  BY <1>1, UnderWayMeans DEF StackType
<1>3. PICK p \in Partitions : p = flight.to
  BY <1>2 DEF Calls
<1> DEFINE owner == OwnerOf(p, hints[p], cache.partition.hash, request, TRUE)
           f == Frame(p, "forward", owner, {})
<1>4. HintType(hints[p]) /\ HashViewType(cache.partition.hash)
  BY <1>1 DEF LearnedInv, Sites, SiteType
<1>5. Leads(owner) /\ (owner.kind = "remote" => owner.to \in Partitions) /\ \A k \in request.keys : k \in Keys /\ ResolvesTo(p, k, owner)
  BY <1>1, <1>2, <1>4, OwnerLeads
<1>6. \/ UNCHANGED stack /\ \E code, nodes : RunLocal(p, nodes) \/ Refuse(code, p, nodes)
      \/ owner.kind = "remote" /\ stack' = <<f>> \o stack /\ flight' = Call(owner.to, "dispatch", p)
  BY <1>3 DEF Dispatch
<1>7. CASE UNCHANGED stack /\ \E code, nodes : RunLocal(p, nodes) \/ Refuse(code, p, nodes)
  <2>1. flight'.type = "answer"
    BY <1>7, AnswersEnd
  <2> QED BY <1>1, <1>7, <2>1, AnswerChain
<1>8. CASE owner.kind = "remote" /\ stack' = <<f>> \o stack /\ flight' = Call(owner.to, "dispatch", p)
  <2>1. f \in Frames /\ f.how = "forward" /\ f.at = p
    BY <1>5 DEF Frame, Frames, Leads
  <2>2. owner.to \in Partitions /\ Down(p, owner.to)
    BY <1>2, <1>5, <1>8 DEF ResolvesTo
  <2> HIDE DEF f, owner
  <2>3. PICK to \in Partitions : to = owner.to /\ Down(f.at, to)
    BY <2>1, <2>2
  <2>4. ~HandsOn(f) /\ CallFollows(stack, f.at)
    BY <1>1, <1>3, <2>1 DEF HandsOn
  <2>5. ChainOf(<<f>> \o stack) /\ CallFollows(<<f>> \o stack, to)
    BY <1>1, <1>2, <2>1, <2>3, <2>4, ChainForward
  <2>6. flight'.type = "call" /\ flight'.mode = "dispatch" /\ flight'.to = to
    BY <1>8, <2>3 DEF Call
  <2> QED BY <1>8, <2>5, <2>6, CallChain
<1> QED BY <1>6, <1>7, <1>8

\* A source that reads for a target hands a promoted key on to the range trees: its callers are in the hash tree.
LEMMA ExecuteLocalChain ==
  ASSUME IInv, ChainInv, ExecuteLocal
  PROVE  ChainInv'
<1>1. /\ TopologyInv /\ LearnedInv /\ RequestInv
      /\ flight.type = "call" /\ flight.mode = "execute" /\ ChainOf(stack)
      /\ stack # <<>> /\ stack[1].how = "read_through" /\ stack[1].at = flight.from
  BY DEF IInv, ChainInv, ExecuteLocal
<1>2. /\ stack \in Seq(Frames) /\ flight \in Calls /\ request.keys \subseteq Keys /\ FirstKey(request.keys) \in request.keys
  BY <1>1, UnderWayMeans DEF StackType
<1>3. PICK p \in Partitions : p = flight.to
  BY <1>2 DEF Calls
<1>4. PICK k \in Keys : k = FirstKey(request.keys)
  BY <1>2
<1>5. HashOf[k] \in Hashes /\ HintType(hints[p])
  BY <1>1, KeysAssumption DEF LearnedInv
<1> DEFINE owner == rangeOwner(hints[p], k, "override")
           f == Frame(p, "caller_slice", owner, {})
<1>6. \/ UNCHANGED stack /\ \E code, nodes : RunLocal(p, nodes) \/ Refuse(code, p, nodes)
      \/ /\ flight.from.kind = "hash" /\ part[p].promo[HashOf[k]] = "completed"
         /\ stack' = <<f>> \o stack /\ flight' = Call(owner.to, "dispatch", p)
  BY <1>3, <1>4 DEF ExecuteLocal
<1>7. CASE UNCHANGED stack /\ \E code, nodes : RunLocal(p, nodes) \/ Refuse(code, p, nodes)
  <2>1. flight'.type = "answer"
    BY <1>7, AnswersEnd
  <2> QED BY <1>1, <1>7, <2>1, AnswerChain
<1>8. CASE /\ flight.from.kind = "hash" /\ part[p].promo[HashOf[k]] = "completed"
           /\ stack' = <<f>> \o stack /\ flight' = Call(owner.to, "dispatch", p)
  <2>1. HashOf[k] \in Promotable /\ p.kind = "hash"
    BY <1>1, <1>5, <1>8 DEF TopologyInv, PromoInv
  <2>2. Leads(owner) /\ owner.kind = "remote" /\ owner.to.kind = "range"
    BY <1>1, <1>5, <2>1, RangeOwnerLeads
  <2>3. f \in Frames /\ f.how = "caller_slice" /\ f.at = p
    BY <2>2 DEF Frame, Frames, Leads
  <2> HIDE DEF owner, f
  <2>4. HandsOn(f) /\ f.at.kind = "hash"
    BY <2>1, <2>3 DEF HandsOn
  <2>5. ASSUME NEW j \in 1 .. Len(stack) PROVE stack[j].at.kind = "hash" /\ ~HandsOn(stack[j])
    <3>1. Len(stack) \in Nat \ {0} /\ 1 \in 1 .. Len(stack)
      BY <1>1, <1>2, EmptySeq, LenProperties
    <3>2. ~HandsOn(stack[1]) /\ stack[1].at.kind = "hash"
      BY <1>1, <1>8 DEF HandsOn
    <3>3. CASE j = 1
      BY <3>2, <3>3
    <3>4. CASE j # 1
      <4>1. 1 < j
        BY <3>1, <3>4
      <4>2. Follows(stack[j], stack[1].at)
        BY <1>1, <3>1, <3>2, <4>1 DEF ChainOf
      <4> QED BY <3>2, <4>2 DEF Follows, HandsOn, Down, Under
    <3> QED BY <3>3, <3>4
  <2>6. ChainOf(<<f>> \o stack)
    BY <1>1, <1>2, <2>3, <2>4, <2>5, ChainPush
  <2> DEFINE t == <<f>> \o stack
  <2>7. /\ Len(stack) \in Nat /\ Len(t) = 1 + Len(stack) /\ t[1] = f
        /\ \A i \in 1 .. Len(t) : i # 1 => i - 1 \in 1 .. Len(stack) /\ t[i] = stack[i - 1]
    BY <1>2, <2>3, Pushed
  <2> HIDE DEF t
  <2>8. ASSUME NEW j \in 1 .. Len(t) PROVE Follows(t[j], owner.to)
    <3>1. CASE j = 1
      BY <2>2, <2>3, <2>7, <3>1 DEF Follows
    <3>2. CASE j # 1
      <4>1. j - 1 \in 1 .. Len(stack) /\ t[j] = stack[j - 1]
        BY <2>7, <3>2
      <4>2. t[j].at.kind = "hash" /\ ~HandsOn(t[j])
        BY <2>5, <4>1
      <4> QED BY <2>2, <4>2 DEF Follows, HandsOn, Down
    <3> QED BY <3>1, <3>2
  <2>9. flight'.type = "call" /\ flight'.mode = "dispatch" /\ flight'.to = owner.to
    BY <1>8 DEF Call
  <2>10. ChainOf(stack') /\ CallFollows(stack', flight'.to)
    BY <1>8, <2>6, <2>8, <2>9 DEF CallFollows, t
  <2> QED BY <2>9, <2>10, CallChain
<1> QED BY <1>6, <1>7, <1>8

\* A caller whose hint missed calls another partition down from it, serves the request itself, or refuses.
LEMMA RetryChain ==
  ASSUME IInv, ChainInv, Retry
  PROVE  ChainInv'
<1>1. TopologyInv /\ LearnedInv /\ RequestInv /\ ChainOf(stack) /\ flight.type = "answer" /\ stack # <<>>
  BY DEF IInv, ChainInv, Retry, Answered
<1>2. /\ stack \in Seq(Frames) /\ flight \in Answers /\ request \in RequestsUnderWay /\ request.keys # {}
      /\ request.shape = "point" => \E k \in Keys : request.keys = {k}
  BY <1>1, UnderWayMeans DEF StackType
<1>3. PICK f \in Frames : f = Head(stack)
  BY <1>1, <1>2, ChainPop
<1>4. PICK p \in Partitions : p = f.at
  BY DEF Frames
<1>5. /\ Tail(stack) \in Seq(Frames) /\ ChainOf(Tail(stack))
      /\ ~HandsOn(f) => CallFollows(Tail(stack), p)
  BY <1>1, <1>2, <1>3, <1>4, ChainPop
<1>6. PICK hint \in learn(p, flight.nodes, request.keys) :
        \E next \in missLadder(f, hint, cache.partition.hash, flight) :
        \E owner \in {OwnerOf(p, next.hint, next.view, request, next.bloom)} :
          /\ Retries(f) # {}
          /\ IF owner.kind = "remote"
               THEN stack' = <<WaitsFor(f, owner)>> \o Tail(stack) /\ flight' = Call(owner.to, "dispatch", p)
               ELSE /\ stack' = Tail(stack)
                    /\ RunLocal(p, NodesButMissed(f)) \/ Refuse("not_applicable", p, NodesButMissed(f))
  BY <1>3, <1>4 DEF Retry
<1>7. PICK next \in missLadder(f, hint, cache.partition.hash, flight) :
        \E owner \in {OwnerOf(p, next.hint, next.view, request, next.bloom)} :
          /\ Retries(f) # {}
          /\ IF owner.kind = "remote"
               THEN stack' = <<WaitsFor(f, owner)>> \o Tail(stack) /\ flight' = Call(owner.to, "dispatch", p)
               ELSE /\ stack' = Tail(stack)
                    /\ RunLocal(p, NodesButMissed(f)) \/ Refuse("not_applicable", p, NodesButMissed(f))
  BY <1>6
<1> DEFINE owner == OwnerOf(p, next.hint, next.view, request, next.bloom)
           g == WaitsFor(f, owner)
<1>8. /\ Retries(f) # {}
      /\ IF owner.kind = "remote"
           THEN stack' = <<g>> \o Tail(stack) /\ flight' = Call(owner.to, "dispatch", p)
           ELSE /\ stack' = Tail(stack)
                /\ RunLocal(p, NodesButMissed(f)) \/ Refuse("not_applicable", p, NodesButMissed(f))
  BY <1>7
<1> HIDE DEF owner, g
<1>9. f.how = "forward" /\ ~HandsOn(f)
  BY <1>8 DEF Retries, HandsOn
<1>10. flight.nodes \in SUBSET Nodes
  BY <1>2 DEF Answers
<1>11. HintType(hint)
  BY <1>1, <1>10, LearnType
<1>12. HashViewType(cache.partition.hash)
  BY <1>1 DEF LearnedInv, Sites, SiteType
<1>13. HintType(next.hint) /\ HashViewType(next.view)
  BY <1>2, <1>11, <1>12, LadderType
<1>14. Leads(owner) /\ (owner.kind = "remote" => owner.to \in Partitions) /\ \A k \in request.keys : k \in Keys /\ ResolvesTo(p, k, owner)
  BY <1>1, <1>2, <1>13, OwnerLeads DEF owner
<1>15. CASE owner.kind = "remote"
  <2>1. PICK to \in Partitions : to = owner.to /\ Down(p, to)
    BY <1>2, <1>14, <1>15 DEF ResolvesTo
  <2>2. g \in Frames /\ g.how = "forward" /\ g.at = p
    <3>1. NodesButMissed(f) \in SUBSET Nodes
      BY <1>2, PassedNodes DEF NodesButMissed
    <3> QED BY <1>4, <1>9, <1>14, <3>1, WaitsForType DEF Leads, g
  <2>3. ~HandsOn(g) /\ CallFollows(Tail(stack), g.at) /\ Down(g.at, to)
    BY <1>5, <1>9, <2>1, <2>2 DEF HandsOn
  <2>4. ChainOf(<<g>> \o Tail(stack)) /\ CallFollows(<<g>> \o Tail(stack), to)
    BY <1>5, <2>2, <2>3, ChainForward
  <2>5. flight'.type = "call" /\ flight'.mode = "dispatch" /\ flight'.to = to
    BY <1>8, <1>15, <2>1 DEF Call
  <2> QED BY <1>8, <1>15, <2>4, <2>5, CallChain
<1>16. CASE owner.kind # "remote"
  <2>1. flight'.type = "answer"
    BY <1>8, <1>16, AnswersEnd
  <2> QED BY <1>5, <1>8, <1>16, <2>1, AnswerChain
<1> QED BY <1>15, <1>16

\* A caller returns what it was answered.
LEMMA ReturnChain ==
  ASSUME IInv, ChainInv, Return
  PROVE  ChainInv'
<1>1. RequestInv /\ ChainOf(stack) /\ flight.type = "answer" /\ stack # <<>> /\ stack' = Tail(stack)
  BY DEF IInv, ChainInv, Return, Answered
<1>2. stack \in Seq(Frames) /\ flight \in Answers
  BY <1>1, UnderWayMeans DEF StackType
<1>3. PICK f \in Frames : f = Head(stack)
  BY <1>1, <1>2, ChainPop
<1>4. flight' = PassedOn(f)
  BY <1>3 DEF Return
<1>5. flight'.type = "answer"
  BY <1>2, <1>4, PassedNodes
<1>6. ChainOf(stack')
  BY <1>1, <1>2, ChainPop
<1> QED BY <1>5, <1>6, AnswerChain

\* Every step keeps the chain.
LEMMA ChainStep ==
  ASSUME IInv, ChainInv, [Next]_vars
  PROVE  ChainInv'
<1>1. CASE RepartitionStep \/ RefreshCache \/ Restart \/ UNCHANGED vars
  <2>1. UNCHANGED <<flight, stack>>
    BY <1>1 DEF RepartitionStep, PlanSplit, PlanPromotion, CutOver, FirstPage, ImportCompletes, RefreshCache, Restart, requestVars, vars
  <2> QED BY <2>1 DEF ChainInv, ChainOf, CallFollows, Follows, HandsOn
<1>2. CASE Send
  <2>1. request = None /\ stack' = stack
    BY <1>2 DEF Send
  <2>2. stack = <<>>
    <3>1. request \notin RequestsUnderWay
      BY <2>1 DEF None, RequestsUnderWay
    <3> QED BY <3>1 DEF IInv, RequestInv
  <2>3. flight'.type = "call" /\ flight'.mode = "dispatch"
    BY <1>2 DEF Send, Call
  <2> QED BY <2>1, <2>2, <2>3, EntryChain
<1>3. CASE ClientMisses
  <2>1. stack = <<>> /\ stack' = stack
    BY <1>3 DEF ClientMisses, Answered
  <2>2. \E entry : flight' = [Call(entry.to, "dispatch", entry.to) EXCEPT !.query = request.query]
    BY <1>3 DEF ClientMisses, EnterAgain
  <2>3. flight'.type = "call" /\ flight'.mode = "dispatch"
    BY <2>2 DEF Call
  <2> QED BY <2>1, <2>3, EntryChain
<1>4. CASE ClientEnds \/ NoIdentity \/ LoseAnswer
  <2>1. UNCHANGED stack /\ ChainOf(stack)
    BY <1>4 DEF ClientEnds, NoIdentity, LoseAnswer, ChainInv
  <2>2. flight'.type # "call"
    <3>1. CASE ClientEnds
      BY <3>1 DEF ClientEnds, Idle
    <3>2. CASE NoIdentity
      BY <3>2 DEF NoIdentity, Refuse, Answer
    <3>3. CASE LoseAnswer
      BY <3>3 DEF LoseAnswer, Answer
    <3> QED BY <1>4, <3>1, <3>2, <3>3
  <2> QED BY <2>1, <2>2, AnswerChain
<1> QED BY <1>1, <1>2, <1>3, <1>4, WhileImportingChain, DispatchChain, ExecuteLocalChain, ReturnChain, RetryChain DEF Next, RequestStep

\* The chain is there at any time.
THEOREM Chains == Spec => []ChainInv
<1>1. Init => ChainInv
  <2> SUFFICES ASSUME Init PROVE ChainInv
    OBVIOUS
  <2>1. stack = <<>> /\ flight.type = "idle" /\ Len(stack) = 0
    BY EmptySeq DEF Init, Idle
  <2> QED BY <2>1 DEF ChainInv, ChainOf
<1>2. IInv /\ ChainInv /\ [Next]_vars => ChainInv'
  BY ChainStep
<1> QED BY <1>1, <1>2, Invariance, PTL DEF Spec

\* No request meets a partition twice on its way, so forwards end, whatever was learned and cached before the topology
\* changed: but that a source which reads for its target may hand a promoted key to the range tree (resolve,
\* #hashTopologyOwner and the ladders of runtime.ts).
THEOREM ForwardsDescend == Spec => []ForwardsGoDown
<1>1. ASSUME IInv, ChainInv PROVE ForwardsGoDown
  <2>1. stack \in Seq(Frames) /\ ChainOf(stack)
    BY <1>1 DEF IInv, RequestInv, ChainInv
  <2>2. ASSUME NEW i \in 1 .. Len(stack), NEW j \in 1 .. Len(stack), i < j, stack[i].at = stack[j].at
        PROVE  HandsOn(stack[i]) # HandsOn(stack[j])
    <3>1. stack[i] \in Frames /\ stack[j] \in Frames
      BY <2>1, ElementOfSeq
    <3>2. stack[i].at \in Partitions /\ stack[j].at \in Partitions
      BY <3>1 DEF Frames
    <3>3. CASE HandsOn(stack[i])
      BY <2>1, <2>2, <3>3 DEF ChainOf
    <3>4. CASE ~HandsOn(stack[i])
      <4>1. Follows(stack[j], stack[i].at)
        BY <2>1, <2>2, <3>4 DEF ChainOf
      <4>2. ~Down(stack[j].at, stack[i].at)
        BY <2>2, <3>2, DownOrder
      <4> QED BY <3>4, <4>1, <4>2 DEF Follows, HandsOn
    <3> QED BY <3>3, <3>4
  <2>3. Len(stack) \in Nat /\ DOMAIN stack = 1 .. Len(stack)
    BY <2>1, LenProperties
  <2> SUFFICES ASSUME NEW i \in DOMAIN stack, NEW j \in DOMAIN stack, i # j, stack[i].at = stack[j].at
               PROVE  HandsOn(stack[i]) # HandsOn(stack[j])
    BY DEF ForwardsGoDown, HandsOn
  <2>4. i < j \/ j < i
    BY <2>3
  <2> QED BY <2>2, <2>3, <2>4
<1>2. IInv /\ ChainInv => ForwardsGoDown
  BY <1>1
<1> QED BY <1>2, Invariance, Chains, PTL

=============================================================================
