--------------------------- MODULE Destroy_proofs ---------------------------
(***************************************************************************)
(* The safety properties of Destroy, for every tree of partitions.  The    *)
(* walk's guarantees (WalkInv, QuietInv) hold until a split was planned    *)
(* between its two calls to a partition (`raced'); what survives that      *)
(* split is in the rest of IInv.                                           *)
(***************************************************************************)
EXTENDS Destroy, SequenceTheorems, TLAPS

DfsAts == {"prepare", "wait", "status", "targets", "promotions", "destroy"}
WalkAts == {"walk", "yield", "yielded", "walked", "walkedPromotions"}
Frames == [n : Nodes, at : DfsAts \cup WalkAts, todo : SUBSET Nodes]
ImportStates == {"none", "awaiting", "imported"}

TypeOK ==
  /\ alive \in SUBSET Nodes /\ fenced \in SUBSET Nodes /\ init \in [Nodes -> InitStates]
  /\ work \in SUBSET Nodes /\ targets \in SUBSET Nodes /\ facts \in SUBSET Nodes /\ promoted \in SUBSET Nodes
  /\ rep \in [Nodes -> States] /\ import \in [Nodes -> ImportStates]
  /\ phase \in 0 .. 7 /\ stack \in Seq(Frames) /\ visited \in SUBSET Nodes
  /\ found \in BOOLEAN /\ raced \in BOOLEAN /\ resets \in SUBSET Groups /\ fails \in Nat /\ faults \in Nat

Present == alive \cup fenced
IsRoot(n) == Parent[n] = NoNode
Depths == 1 .. Len(stack)
Current == IF phase = 3 THEN "m" ELSE Order[phase]

\* What the storages of the partitions say of each other.
PartInv ==
  /\ \A n \in Nodes : Busy(n) => n \in alive /\ rep[n] = "planned"
  /\ \A c \in Nodes : IsRoot(c) => init[c] = "pending"
  /\ \A c \in Present : ~IsRoot(c) => Linked(c)
  /\ \A r \in fenced : IsRoot(r) => r \in alive
  /\ work \subseteq alive /\ targets \subseteq alive /\ \A n \in targets : Group[n] = "m"
  /\ \A c \in promoted : ~IsRoot(c) /\ Parent[c] \in alive /\ rep[Parent[c]] = "completed" /\ Kind[Parent[c]] = "promotion"

\* Nobody writes into an index any more once the root of the materialization is gone, but an index that
\* came back after a missed split may still be there.
NoWriters == targets = {} /\ (\A n \in work : Group[n] = "g") /\ (raced \/ \A n \in Present : Group[n] # "g")
RootInv ==
  \A r \in Nodes : IsRoot(r) /\ Group[r] = "m" =>
    \/ r \in alive /\ r \in targets
    \/ NoWriters /\ (phase \in 1 .. 4 => ~found)

\* The frames are a path from the root of the group down.
StackInv ==
  /\ phase \in {0, 6, 7} => stack = <<>>
  /\ stack # <<>> => IsRoot(stack[1].n)
  /\ \A i \in Depths :
       /\ Group[stack[i].n] = Current
       /\ stack[i].at \in (IF phase = 3 THEN WalkAts ELSE DfsAts)
       /\ \A c \in stack[i].todo : Parent[c] = stack[i].n /\ Linked(c)
       /\ \A c \in Nodes : i > 1 /\ c = stack[i].n => Parent[c] = stack[i - 1].n /\ Linked(c)
       /\ i < Len(stack) => stack[i].at \in {"targets", "promotions", "walked", "walkedPromotions"}

\* The children that the client still has to visit are in the frame of their parent.
FrameInv(i) ==
  LET f == stack[i]
  IN  /\ f.at # "prepare" => f.n \in fenced
      /\ f.at \in {"status", "targets", "promotions", "destroy"} => ~Busy(f.n)
      /\ f.at = "promotions" \/ (f.at = "targets" /\ Kind[f.n] = "split") =>
           \A c \in Present : Parent[c] = f.n => c \in f.todo \/ (i < Len(stack) /\ stack[i + 1].n = c)
      /\ f.at = "destroy" => \A c \in Nodes : Parent[c] = f.n => c \notin Present /\ c \notin promoted

OnStack(c) == \E i \in Depths : stack[i].n = c
Past(n) == \E i \in Depths : stack[i].n = n /\ stack[i].at \in {"targets", "promotions", "destroy"}

DfsInv ==
  phase \in {1, 2, 4, 5} /\ ~(raced /\ phase = 4 /\ stack = <<>>) =>
    /\ \A c \in visited : ~IsRoot(c) /\ Group[c] = Current
    /\ \A i \in Depths : i > 1 => stack[i].n \in visited
    /\ \A i, j \in Depths : stack[i].n = stack[j].n => i = j
    /\ \A c \in visited : c \in Present => OnStack(c)
    /\ \A c \in visited : Past(Parent[c]) \/ (Parent[c] \notin Present /\ (IsRoot(Parent[c]) \/ Parent[c] \in visited))
    /\ \A i \in Depths : stack[i].at \in {"prepare", "wait", "status"} => \A c \in visited : Parent[c] # stack[i].n
    /\ stack = <<>> => \A r \in Nodes : IsRoot(r) /\ Group[r] = Current => r \notin Present
    /\ \A i \in Depths : FrameInv(i)

\* The walk: a partition that it visited is closed, and so are its children or they will be visited.
Closed(n) == n \in fenced /\ ~Busy(n)
Pending(n, c) ==
  \E i \in Depths :
    /\ stack[i].n = n /\ stack[i].at # "walk"
    /\ c \in stack[i].todo \/ (Kind[n] = "promotion" /\ stack[i].at \in {"yield", "yielded", "walked"})
WalkInv ==
  phase = 3 =>
    /\ \A n \in visited : Group[n] = "m"
    /\ \A n \in visited : n \in alive => Closed(n) \/ (stack # <<>> /\ Top.n = n /\ Top.at \in {"yield", "yielded"})
    /\ \A c \in visited : ~IsRoot(c) => Closed(Parent[c])
    /\ \A i \in Depths : /\ stack[i].at # "walk" => stack[i].n \in visited /\ stack[i].n \in alive
                         /\ stack[i].at \in {"yielded", "walked", "walkedPromotions"} => stack[i].n \in fenced
                         /\ stack[i].at \in {"walked", "walkedPromotions"} => ~Busy(stack[i].n)
    /\ \A n \in visited, c \in Nodes : n \in alive /\ Parent[c] = n /\ Linked(c) => raced \/ c \in visited \/ OnStack(c) \/ Pending(n, c)
    /\ stack # <<>> /\ stack[1].at = "walk" => visited = {}
    /\ \A r \in Nodes : IsRoot(r) /\ Group[r] = "m" =>
         /\ r \in visited \/ (stack # <<>> /\ stack[1].at = "walk")
         /\ r \in targets => found \/ (stack # <<>> /\ stack[1].at \in {"walk", "yield", "yielded"})

\* No materialization partition works while the client destroys the indexes.
QuietInv == phase \in {4, 5} /\ ~raced => \A n \in alive : Group[n] = "m" => Closed(n)

EmptyInv == \A i \in 1 .. phase - 1 : \A n \in Present : Group[n] # Order[i] \/ (raced /\ Group[n] = "g")

FactInv ==
  /\ phase # 6 => resets = {}
  /\ phase = 4 => found
  /\ phase = 6 => \A n \in facts : Group[n] \in resets \/ (Group[n] = "g" /\ (~found \/ raced))
  /\ phase = 7 => \A n \in facts : Group[n] = "g" /\ (fails > 0 \/ raced)
  /\ fails = 0 => \A r \in Nodes : IsRoot(r) /\ Group[r] = "m" => IF phase <= 3 THEN r \in alive /\ r \in targets ELSE found

IInv == TypeOK /\ PartInv /\ RootInv /\ StackInv /\ DfsInv /\ WalkInv /\ QuietInv /\ EmptyInv /\ FactInv

----------------------------------------------------------------------------
(* The groups and the stack.                                               *)

\* The phases in their order.
LEMMA OrderFacts ==
  /\ Len(Order) = 6 /\ Done = 7
  /\ Order[1] = "tc" /\ Order[2] = "p" /\ Order[3] = "walk" /\ Order[4] = "g" /\ Order[5] = "m" /\ Order[6] = "admins"
  BY DEF Order, Done

\* Every group has one root.
LEMMA RootFacts ==
  /\ \A g \in Groups : Root(g) \in Nodes /\ Group[Root(g)] = g /\ IsRoot(Root(g))
  /\ \A r \in Nodes : IsRoot(r) => Root(Group[r]) = r /\ Group[r] \in Groups
<1>1. ASSUME NEW g \in Groups PROVE \E n \in Nodes : Group[n] = g /\ Parent[n] = NoNode
  <2> DEFINE S == {n \in Nodes : Group[n] = g}
  <2>1. S \in SUBSET Nodes /\ S # {}
    BY DEF Groups
  <2>2. PICK n \in S : Parent[n] \notin S
    BY <2>1, GroupsAreTrees
  <2>3. Parent[n] # NoNode => Parent[n] \in S
    BY TreeIsValid
  <2> QED
    BY <2>2, <2>3
<1>2. ASSUME NEW g \in Groups PROVE Root(g) \in Nodes /\ Group[Root(g)] = g /\ IsRoot(Root(g))
  BY <1>1 DEF Root, IsRoot
<1>3. ASSUME NEW r \in Nodes, IsRoot(r) PROVE Root(Group[r]) = r /\ Group[r] \in Groups
  <2>1. Group[r] \in Groups
    BY DEF Groups
  <2> QED
    BY <2>1, <1>2, <1>3, GroupsAreTrees DEF IsRoot
<1> QED
  BY <1>2, <1>3

\* A set of nodes without a root that holds the parent of each of its nodes is empty.
LEMMA NoOrphans ==
  ASSUME NEW S \in SUBSET Nodes, \A n \in S : Parent[n] \in S
  PROVE  S = {}
  BY GroupsAreTrees

\* The parent of a node is a node of its group.
LEMMA ParentFacts ==
  ASSUME NEW c \in Nodes, ~IsRoot(c)
  PROVE  Parent[c] \in Nodes /\ Group[Parent[c]] = Group[c]
  BY TreeIsValid DEF IsRoot

\* A node without a root is no target of anyone.
LEMMA ChildFacts ==
  ASSUME NEW n \in Nodes, NEW c \in Children(n)
  PROVE  c \in Nodes /\ Parent[c] = n /\ ~IsRoot(c) /\ Group[c] = Group[n]
  BY TreeIsValid DEF IsRoot, Children

\* A stack of several frames.
LEMMA SeveralFrames ==
  ASSUME NEW k \in Nat, k \in 1 .. k, k # 1
  PROVE  k > 1 /\ k - 1 \in 1 .. k /\ k - 1 < k
  OBVIOUS

\* A frame replaced by another one.
LEMMA ReplaceFacts ==
  ASSUME NEW s \in Seq(Frames), NEW i \in 1 .. Len(s), NEW f \in Frames
  PROVE  \A t : t = [s EXCEPT ![i] = f] =>
           t \in Seq(Frames) /\ Len(t) = Len(s) /\ t[i] = f /\ \A j \in 1 .. Len(s) : j # i => t[j] = s[j]
  BY ExceptSeq

\* A frame on top of the others.
LEMMA AppendFacts ==
  ASSUME NEW s \in Seq(Frames), NEW f \in Frames
  PROVE  \A t : t = Append(s, f) =>
           /\ t \in Seq(Frames) /\ Len(t) = Len(s) + 1 /\ t # <<>> /\ t[Len(s) + 1] = f
           /\ \A j \in 1 .. Len(s) : t[j] = s[j]
  OBVIOUS

\* What Step and Visit make of the stack s.
Replaced(s, t, at, todo) == t = [s EXCEPT ![Len(s)] = [@ EXCEPT !.at = at, !.todo = todo]]
Extended(s, t, c, at) == t = Append([s EXCEPT ![Len(s)].todo = @ \ {c}], Frame(c, at))

\* Step replaces the position and the targets of the last frame.
LEMMA StepFacts ==
  ASSUME NEW s \in Seq(Frames), s # <<>>, NEW at \in DfsAts \cup WalkAts, NEW todo \in SUBSET Nodes
  PROVE  \A t : Replaced(s, t, at, todo) =>
         /\ t \in Seq(Frames) /\ Len(t) = Len(s) /\ t # <<>> /\ Len(s) \in 1 .. Len(s)
         /\ \A i \in 1 .. Len(s) : t[i].n = s[i].n /\ (i # Len(s) => t[i] = s[i])
         /\ t[Len(s)].at = at /\ t[Len(s)].todo = todo
<1>1. Len(s) \in 1 .. Len(s) /\ Len(s) \in Nat
  OBVIOUS
<1>2. s[Len(s)] \in Frames
  BY <1>1
<1>0. PICK f : f = [s[Len(s)] EXCEPT !.at = at, !.todo = todo]
  OBVIOUS
<1>3. f \in Frames /\ f.n = s[Len(s)].n /\ f.at = at /\ f.todo = todo
  BY <1>0, <1>2 DEF Frames
<1>4. \A t : Replaced(s, t, at, todo) => t = [s EXCEPT ![Len(s)] = f]
  BY <1>0, Zenon DEF Replaced
<1>5. SUFFICES ASSUME NEW t, t = [s EXCEPT ![Len(s)] = f]
      PROVE  /\ t \in Seq(Frames) /\ Len(t) = Len(s) /\ t # <<>> /\ Len(s) \in 1 .. Len(s)
             /\ \A i \in 1 .. Len(s) : t[i].n = s[i].n /\ (i # Len(s) => t[i] = s[i])
             /\ t[Len(s)].at = at /\ t[Len(s)].todo = todo
  BY <1>4, Zenon
<1>6. t \in Seq(Frames) /\ Len(t) = Len(s) /\ t[Len(s)] = f /\ \A j \in 1 .. Len(s) : j # Len(s) => t[j] = s[j]
  BY <1>1, <1>3, <1>5, ReplaceFacts
<1>7. t # <<>>
  BY <1>1, <1>6
<1>8. \A i \in 1 .. Len(s) : t[i].n = s[i].n
  BY <1>3, <1>6
<1> QED
  BY <1>1, <1>3, <1>6, <1>7, <1>8

\* Pop leaves the frames below.
LEMMA PopFacts ==
  ASSUME NEW s \in Seq(Frames), s # <<>>
  PROVE  \A t : t = SubSeq(s, 1, Len(s) - 1) =>
         /\ t \in Seq(Frames) /\ Len(t) = Len(s) - 1 /\ Len(s) \in 1 .. Len(s)
         /\ \A i \in 1 .. Len(t) : t[i] = s[i] /\ i \in 1 .. Len(s) /\ i # Len(s)
         /\ \A i \in 1 .. Len(s) : i # Len(s) => i \in 1 .. Len(t)
         /\ t = <<>> <=> Len(s) = 1
<1>1. Len(s) \in Nat /\ Len(s) \in 1 .. Len(s)
  OBVIOUS
<1> DEFINE k == Len(s) - 1
<1>2. k \in Nat /\ 1 \in Int /\ k \in Int /\ k + 1 = Len(s) /\ \A i \in 1 .. k : s[i] \in Frames
  BY <1>1
<1> HIDE DEF k
<1>3. SUFFICES ASSUME NEW t, t = SubSeq(s, 1, k)
      PROVE  /\ t \in Seq(Frames) /\ Len(t) = Len(s) - 1 /\ Len(s) \in 1 .. Len(s)
             /\ \A i \in 1 .. Len(t) : t[i] = s[i] /\ i \in 1 .. Len(s) /\ i # Len(s)
             /\ \A i \in 1 .. Len(s) : i # Len(s) => i \in 1 .. Len(t)
             /\ t = <<>> <=> Len(s) = 1
  BY DEF k
<1>4. /\ SubSeq(s, 1, k) \in Seq(Frames) /\ Len(SubSeq(s, 1, k)) = IF 1 <= k THEN k - 1 + 1 ELSE 0
      /\ \A i \in 1 .. k - 1 + 1 : SubSeq(s, 1, k)[i] = s[1 + i - 1]
  BY <1>2, SubSeqProperties
<1>5. t \in Seq(Frames) /\ Len(t) = k
  BY <1>2, <1>3, <1>4
<1>6. \A i \in 1 .. k : t[i] = s[i]
  BY <1>2, <1>3, <1>4
<1>7. t = <<>> <=> k = 0
  BY <1>2, <1>5
<1> QED
  BY <1>1, <1>2, <1>5, <1>6, <1>7

\* A new frame below the last one, whose targets lose one.
LEMMA PushFacts ==
  ASSUME NEW s \in Seq(Frames), s # <<>>, NEW c \in Nodes, NEW at \in DfsAts \cup WalkAts
  PROVE  \A t : Extended(s, t, c, at) =>
         /\ t \in Seq(Frames) /\ Len(t) = Len(s) + 1 /\ t # <<>> /\ Len(s) \in 1 .. Len(s)
         /\ \A i \in 1 .. Len(s) : t[i].n = s[i].n /\ t[i].at = s[i].at /\ (i # Len(s) => t[i] = s[i])
         /\ t[Len(s)].todo = s[Len(s)].todo \ {c}
         /\ t[Len(s) + 1].n = c /\ t[Len(s) + 1].at = at /\ t[Len(s) + 1].todo = {}
<1>1. Len(s) \in 1 .. Len(s) /\ Len(s) \in Nat
  OBVIOUS
<1>2. s[Len(s)] \in Frames
  BY <1>1
<1>0. PICK f, e : f = [s[Len(s)] EXCEPT !.todo = @ \ {c}] /\ e = Frame(c, at)
  OBVIOUS
<1>3. f \in Frames /\ f.n = s[Len(s)].n /\ f.at = s[Len(s)].at /\ f.todo = s[Len(s)].todo \ {c}
  BY <1>0, <1>2 DEF Frames
<1>4. e \in Frames /\ e.n = c /\ e.at = at /\ e.todo = {}
  BY <1>0 DEF Frame, Frames
<1>5. \A t : Extended(s, t, c, at) => t = Append([s EXCEPT ![Len(s)] = f], e)
  BY <1>0, Zenon DEF Extended
<1>6. PICK u : u = [s EXCEPT ![Len(s)] = f]
  OBVIOUS
<1>7. u \in Seq(Frames) /\ Len(u) = Len(s) /\ u[Len(s)] = f /\ \A j \in 1 .. Len(s) : j # Len(s) => u[j] = s[j]
  BY <1>1, <1>3, <1>6, ReplaceFacts
<1>8. \A i \in 1 .. Len(s) : u[i].n = s[i].n /\ u[i].at = s[i].at
  BY <1>1, <1>3, <1>7
<1>9. SUFFICES ASSUME NEW t, t = Append(u, e)
      PROVE  /\ t \in Seq(Frames) /\ Len(t) = Len(s) + 1 /\ t # <<>> /\ Len(s) \in 1 .. Len(s)
             /\ \A i \in 1 .. Len(s) : t[i].n = s[i].n /\ t[i].at = s[i].at /\ (i # Len(s) => t[i] = s[i])
             /\ t[Len(s)].todo = s[Len(s)].todo \ {c}
             /\ t[Len(s) + 1].n = c /\ t[Len(s) + 1].at = at /\ t[Len(s) + 1].todo = {}
  BY <1>5, <1>6, Zenon
<1>10. /\ t \in Seq(Frames) /\ Len(t) = Len(u) + 1 /\ t # <<>> /\ t[Len(u) + 1] = e
       /\ \A j \in 1 .. Len(u) : t[j] = u[j]
  BY <1>4, <1>7, <1>9, AppendFacts
<1>11. /\ t \in Seq(Frames) /\ Len(t) = Len(s) + 1 /\ t # <<>> /\ t[Len(s) + 1] = e
       /\ \A j \in 1 .. Len(s) : t[j] = u[j]
  BY <1>7, <1>10, Zenon
<1> QED
  BY <1>1, <1>3, <1>4, <1>7, <1>8, <1>11, Zenon

----------------------------------------------------------------------------
(* The steps of the partitions: what the invariant needs to know of them.  *)

Started(n) == rep[n] \notin {"none", "queued"}

\* An unfenced partition of the group before d's writes into d.
Written(d) ==
  \E m \in alive : /\ m \notin fenced /\ m \in work
                   /\ \/ Group[m] = "tc" /\ Group[d] = "p"
                      \/ Group[m] = "p" /\ Group[d] = "m"
                      \/ Group[m] = "m" /\ Group[d] = "g"

Background ==
  /\ phase' = phase /\ stack' = stack /\ visited' = visited /\ found' = found /\ resets' = resets
  /\ fenced' = fenced /\ fails' = fails /\ (raced => raced')
  /\ alive \subseteq alive' /\ targets \subseteq targets'
  /\ \A c \in alive' : c \in alive \/ (~IsRoot(c) /\ Busy(Parent[c])) \/ (IsRoot(c) /\ c \notin fenced /\ Written(c))
  /\ \A c \in targets' : c \in targets \/ (~IsRoot(c) /\ Parent[c] \in targets) \/ (Group[c] = "m" /\ Written(c))
  /\ \A c \in work' : c \in work \/ (~IsRoot(c) /\ Parent[c] \in work) \/ Written(c)
  /\ \A n \in Nodes : Busy(n)' => Busy(n) \/ n \notin fenced
  /\ \A n \in Nodes : Started(n) => Started(n)'
  /\ \A n \in Nodes : Started(n)' => Started(n) \/ (n \notin fenced /\ (raced' \/ (Kind[n] = "split" => ~AwaitsFence(n))))
  /\ \A c \in promoted' : c \in promoted \/ Parent[c] \notin fenced
  /\ \A n \in facts' : n \in facts \/ n \in alive

\* A write reaches a partition with an identity, or the root of the group.
LEMMA ReachedFacts ==
  ASSUME TypeOK, NEW n \in Nodes, NEW d \in Nodes, Send(n, d)
  PROVE  /\ n \in alive /\ n \notin fenced /\ n \in work
         /\ \/ Group[n] = "tc" /\ Group[d] = "p"
            \/ Group[n] = "p" /\ Group[d] = "m"
            \/ Group[n] = "m" /\ Group[d] = "g"
         /\ d \in alive \/ (IsRoot(d) /\ d \notin fenced)
<1>1. /\ n \in alive /\ n \notin fenced /\ n \in work
      /\ Group[n] \in {"tc", "p", "m"} /\ NextGroup[Group[n]] \in Groups /\ d \in Reached(NextGroup[Group[n]])
  BY DEF Send, Owns, Works, NextGroup
<1>2. PICK g \in Groups : g = NextGroup[Group[n]]
  BY <1>1
<1>3. (Group[n] = "tc" /\ g = "p") \/ (Group[n] = "p" /\ g = "m") \/ (Group[n] = "m" /\ g = "g")
  BY <1>1, <1>2 DEF NextGroup
<1>4. Group[d] = g /\ (d \in alive \/ (IsRoot(d) /\ d \notin fenced))
  <2>1. CASE Root(g) \notin alive
    <3>1. d = Root(g) /\ d \notin fenced
      BY <1>1, <1>2, <2>1 DEF Reached
    <3> QED
      BY <3>1, RootFacts
  <2>2. CASE Root(g) \in alive
    <3>1. d \in GroupNodes(g) /\ Owns(d)
      BY <1>1, <1>2, <2>2 DEF Reached
    <3> QED
      BY <3>1 DEF GroupNodes, Owns, Works
  <2> QED
    BY <2>1, <2>2
<1> QED
  BY <1>1, <1>3, <1>4

\* A repartition is queued.
LEMMA QueueStep ==
  ASSUME TypeOK, PartInv, NEW n \in Nodes, Queue(n)
  PROVE  TypeOK' /\ PartInv' /\ Background
<1>1. rep[n] = "none" /\ rep' = [rep EXCEPT ![n] = "queued"]
  BY DEF Queue
<1>2. UNCHANGED <<alive, fenced, init, import, work, targets, facts, promoted, clientVars, fails, faults, raced>>
  BY DEF Queue
<1>3. TypeOK'
  BY <1>1, <1>2 DEF TypeOK, States, clientVars
<1>4. \A m \in Nodes : rep'[m] = IF m = n THEN "queued" ELSE rep[m]
  BY <1>1 DEF TypeOK
<1>5. PartInv'
  BY <1>1, <1>2, <1>4, ParentFacts DEF PartInv, TypeOK, Present, Linked, Busy
<1>6. Background
  BY <1>1, <1>2, <1>4 DEF Background, Started, clientVars, Busy
<1> QED
  BY <1>3, <1>5, <1>6

\* A repartition is planned; the history keeps a split planned between the two calls of the walk.
LEMMA PlanStep ==
  ASSUME TypeOK, PartInv, NEW n \in Nodes, Plan(n)
  PROVE  TypeOK' /\ PartInv' /\ Background
<1>1. rep[n] = "queued" /\ rep' = [rep EXCEPT ![n] = "planned"] /\ n \in alive /\ n \notin fenced
      /\ (raced' <=> (raced \/ (Kind[n] = "split" /\ AwaitsFence(n)))) /\ raced' \in BOOLEAN
  BY DEF Plan, Works, TypeOK
<1>2. UNCHANGED <<alive, fenced, init, import, work, targets, facts, promoted, clientVars, fails, faults>>
  BY DEF Plan
<1>3. TypeOK'
  BY <1>1, <1>2 DEF TypeOK, States, clientVars
<1>4. \A m \in Nodes : rep'[m] = IF m = n THEN "planned" ELSE rep[m]
  BY <1>1 DEF TypeOK
<1>5. PartInv'
  <2>1. ~Busy(n)
    BY <1>1 DEF PartInv
  <2> QED
    BY <2>1, <1>1, <1>2, <1>4, ParentFacts DEF PartInv, TypeOK, Present, Linked, Busy
<1>6. Background
  BY <1>1, <1>2, <1>4 DEF Background, Started, clientVars, Busy
<1> QED
  BY <1>3, <1>5, <1>6

\* Children of two partitions are different.
LEMMA BusyFacts ==
  ASSUME NEW n \in Nodes
  PROVE  \A c \in Children(n) : c \in Nodes /\ Parent[c] = n /\ ~IsRoot(c)
  BY ChildFacts

\* A step of the calls of one pass: a call that has none becomes busy only for n.
Calls(n) ==
  /\ init' \in [Nodes -> InitStates]
  /\ \A c \in Nodes : init'[c] # init[c] => c \in Children(n)
  /\ UNCHANGED <<alive, fenced, rep, import, work, targets, facts, promoted, clientVars, fails, raced>>
  /\ faults' \in Nat

\* The pass of a partition that works, or one in flight, sends and records its calls.
LEMMA CallsStep ==
  ASSUME TypeOK, PartInv, NEW n \in Nodes, Calls(n), Busy(n) \/ (n \in alive /\ n \notin fenced /\ rep[n] = "planned")
  PROVE  TypeOK' /\ PartInv' /\ Background
<1>1. /\ UNCHANGED <<alive, fenced, rep, import, work, targets, facts, promoted, clientVars, fails, raced>>
      /\ init' \in [Nodes -> InitStates] /\ faults' \in Nat
  BY DEF Calls
<1>2. TypeOK'
  BY <1>1 DEF TypeOK, clientVars
<1>3. ASSUME NEW m \in Nodes, m # n PROVE Busy(m)' <=> Busy(m)
  <2>1. \A c \in Children(m) : init'[c] = init[c]
    BY <1>3, ChildFacts DEF Calls
  <2> QED
    BY <2>1 DEF Busy
<1>4. n \in alive /\ rep[n] = "planned"
  BY DEF PartInv
<1>5. PartInv'
  <2>1. (\A m \in Nodes : Busy(m)' => m \in alive' /\ rep'[m] = "planned")
    BY <1>1, <1>3, <1>4 DEF PartInv
  <2>2. \A c \in Nodes : IsRoot(c) => init'[c] = "pending"
    BY ChildFacts DEF PartInv, Calls
  <2> QED
    BY <2>1, <2>2, <1>1 DEF PartInv, Present, Linked
<1>6. Background
  <2>1. \A m \in Nodes : Busy(m)' => Busy(m) \/ m \notin fenced
    BY <1>3
  <2> QED
    BY <2>1, <1>1 DEF Background, Started, clientVars
<1> QED
  BY <1>2, <1>5, <1>6

\* The calls of a pass are in flight.
LEMMA SendInitStep ==
  ASSUME TypeOK, PartInv, NEW n \in Nodes, SendInit(n)
  PROVE  TypeOK' /\ PartInv' /\ Background
<1>1. rep[n] = "planned" /\ n \in alive /\ n \notin fenced
  BY DEF SendInit, Works
<1>2. PICK due \in SUBSET Children(n) : init' = [c \in Nodes |-> IF c \in due THEN "sent" ELSE init[c]]
  BY DEF SendInit
<1>3. Calls(n)
  BY <1>2 DEF SendInit, Calls, TypeOK, InitStates
<1> QED
  BY <1>1, <1>3, CallsStep

\* The call that is in flight is one of the pass of the source.
LEMMA InFlight ==
  ASSUME TypeOK, PartInv, NEW c \in Nodes, init[c] \in {"sent", "done", "failed"}
  PROVE  Parent[c] \in Nodes /\ ~IsRoot(c) /\ Busy(Parent[c]) /\ c \in Children(Parent[c])
<1>1. ~IsRoot(c)
  BY DEF PartInv
<1>2. Parent[c] \in Nodes
  BY <1>1, ParentFacts
<1> QED
  BY <1>1, <1>2 DEF Busy, Children

\* A target gets its identity.
LEMMA InitArrivesStep ==
  ASSUME TypeOK, PartInv, NEW c \in Nodes, InitArrives(c)
  PROVE  TypeOK' /\ PartInv' /\ Background
<1>1. /\ init[c] = "sent" /\ init' = [init EXCEPT ![c] = "done"] /\ alive' = alive \cup {c}
      /\ import' = IF c \in alive THEN import ELSE [import EXCEPT ![c] = "awaiting"]
  BY DEF InitArrives
<1>2. UNCHANGED <<fenced, rep, work, targets, facts, promoted, clientVars, fails, faults, raced>>
  BY DEF InitArrives
<1>3. Parent[c] \in Nodes /\ ~IsRoot(c) /\ Busy(Parent[c]) /\ c \in Children(Parent[c])
  BY <1>1, InFlight
<1>4. Parent[c] \in alive /\ rep[Parent[c]] = "planned"
  BY <1>3 DEF PartInv
<1>5. TypeOK'
  <2>1. alive' \in SUBSET Nodes /\ init' \in [Nodes -> InitStates] /\ import' \in [Nodes -> ImportStates]
    BY <1>1 DEF TypeOK, InitStates, ImportStates
  <2> QED
    BY <2>1, <1>2 DEF TypeOK, clientVars
<1>6. ASSUME NEW m \in Nodes PROVE Busy(m)' <=> Busy(m)
  <2>1. \A d \in Children(m) : init'[d] \in {"sent", "done", "failed"} <=> init[d] \in {"sent", "done", "failed"}
    BY <1>1, <1>6, ChildFacts DEF TypeOK
  <2> QED
    BY <2>1 DEF Busy
<1>7. PartInv'
  <2>1. \A m \in Nodes : Busy(m)' => m \in alive' /\ rep'[m] = "planned"
    BY <1>1, <1>2, <1>6 DEF PartInv
  <2>2. \A d \in Nodes : IsRoot(d) => init'[d] = "pending"
    BY <1>1, <1>3 DEF PartInv, TypeOK
  <2>3. \A d \in Present' : ~IsRoot(d) => Linked(d)'
    BY <1>1, <1>2, <1>4 DEF PartInv, Present, Linked
  <2>4. \A r \in fenced' : IsRoot(r) => r \in alive'
    BY <1>1, <1>2 DEF PartInv
  <2>5. work' \subseteq alive' /\ targets' \subseteq alive' /\ \A m \in targets' : Group[m] = "m"
    BY <1>1, <1>2 DEF PartInv
  <2>6. \A d \in promoted' : ~IsRoot(d) /\ Parent[d] \in alive' /\ rep'[Parent[d]] = "completed" /\ Kind[Parent[d]] = "promotion"
    BY <1>1, <1>2 DEF PartInv
  <2> QED
    BY <2>1, <2>2, <2>3, <2>4, <2>5, <2>6 DEF PartInv
<1>8. Background
  <2>1. \A d \in alive' : d \in alive \/ (~IsRoot(d) /\ Busy(Parent[d]))
    BY <1>1, <1>3
  <2> QED
    BY <2>1, <1>1, <1>2, <1>6 DEF Background, Started, clientVars
<1> QED
  BY <1>5, <1>7, <1>8

\* A call or its answer is lost.
LEMMA InitFailsStep ==
  ASSUME TypeOK, PartInv, NEW c \in Nodes, InitFails(c)
  PROVE  TypeOK' /\ PartInv' /\ Background
<1>1. init[c] \in {"sent", "done"} /\ init' = [init EXCEPT ![c] = "failed"] /\ faults' = faults + 1
  BY DEF InitFails
<1>2. PICK n \in Nodes : n = Parent[c] /\ Busy(n) /\ c \in Children(n)
  BY <1>1, InFlight
<1>3. Calls(n)
  BY <1>1, <1>2 DEF InitFails, Calls, TypeOK, InitStates
<1> QED
  BY <1>2, <1>3, CallsStep

\* The pass records the outcomes.
LEMMA InitSettlesStep ==
  ASSUME TypeOK, PartInv, NEW n \in Nodes, InitSettles(n)
  PROVE  TypeOK' /\ PartInv' /\ Background
<1>1. /\ Busy(n)
      /\ init' = [c \in Nodes |-> IF c \in Children(n) /\ init[c] \in DOMAIN SettledInit
                                  THEN SettledInit[init[c]] ELSE init[c]]
  BY DEF InitSettles
<1>2. \A c \in Nodes : init[c] \in DOMAIN SettledInit => SettledInit[init[c]] \in InitStates
  BY DEF SettledInit, InitStates
<1>3. Calls(n)
  BY <1>1, <1>2 DEF InitSettles, Calls, TypeOK
<1> QED
  BY <1>1, <1>3, CallsStep

\* The partition cuts over: every target has its identity, so no call is in flight.
LEMMA CutoverStep ==
  ASSUME TypeOK, PartInv, NEW n \in Nodes, Cutover(n)
  PROVE  TypeOK' /\ PartInv' /\ Background
<1>1. rep[n] = "planned" /\ rep' = [rep EXCEPT ![n] = "cutover"] /\ ~Busy(n)
  BY DEF Cutover, Busy
<1>2. UNCHANGED <<alive, fenced, init, import, work, targets, facts, promoted, clientVars, fails, faults, raced>>
  BY DEF Cutover
<1>3. TypeOK'
  BY <1>1, <1>2 DEF TypeOK, States, clientVars
<1>4. \A m \in Nodes : rep'[m] = IF m = n THEN "cutover" ELSE rep[m]
  BY <1>1 DEF TypeOK
<1>5. PartInv'
  BY <1>1, <1>2, <1>4, ParentFacts DEF PartInv, TypeOK, Present, Linked, Busy
<1>6. Background
  BY <1>1, <1>2, <1>4 DEF Background, Started, clientVars, Busy
<1> QED
  BY <1>3, <1>5, <1>6

\* A target has its rows.
LEMMA ImportStep ==
  ASSUME TypeOK, PartInv, NEW c \in Nodes, Import(c)
  PROVE  TypeOK' /\ PartInv' /\ Background
<1>1. PICK n \in Nodes : n = Parent[c] /\ ~IsRoot(c) /\ Group[c] = Group[n]
  BY ParentFacts DEF Import, IsRoot
<1>2. /\ c \in alive /\ rep[n] = "cutover" /\ n \in alive
      /\ import' = [import EXCEPT ![c] = "imported"]
      /\ work' = (IF n \in work THEN work \cup {c} ELSE work)
      /\ targets' = (IF n \in targets THEN targets \cup {c} ELSE targets)
  BY <1>1 DEF Import, Works
<1>3. UNCHANGED <<alive, fenced, init, facts, promoted, clientVars, fails, faults, raced>>
  BY DEF Import
<1>4. rep' = rep \/ rep' = [rep EXCEPT ![n] = "completed"]
  BY <1>1 DEF Import
<1>5. TypeOK'
  <2>1. rep' \in [Nodes -> States]
    BY <1>4 DEF TypeOK, States
  <2>2. import' \in [Nodes -> ImportStates] /\ work' \in SUBSET Nodes /\ targets' \in SUBSET Nodes
    BY <1>2 DEF TypeOK, ImportStates
  <2> QED
    BY <2>1, <2>2, <1>3 DEF TypeOK, clientVars
<1>6. \A m \in Nodes : rep'[m] = rep[m] \/ (m = n /\ rep'[m] = "completed")
  BY <1>4 DEF TypeOK
<1>7. PartInv'
  <2>1. (\A m \in Nodes : Busy(m)' => m \in alive' /\ rep'[m] = "planned") /\ \A m \in Nodes : IsRoot(m) => init'[m] = "pending"
    BY <1>2, <1>3, <1>6 DEF PartInv, TypeOK, Busy
  <2>2. \A d \in Present' : ~IsRoot(d) => Linked(d)'
    BY <1>3, <1>6, ParentFacts DEF PartInv, TypeOK, Present, Linked, Busy
  <2>3. \A r \in fenced' : IsRoot(r) => r \in alive'
    BY <1>3 DEF PartInv
  <2>4. work' \subseteq alive' /\ targets' \subseteq alive' /\ \A m \in targets' : Group[m] = "m"
    BY <1>1, <1>2, <1>3 DEF PartInv
  <2>5. \A d \in promoted' : ~IsRoot(d) /\ Parent[d] \in alive' /\ rep'[Parent[d]] = "completed" /\ Kind[Parent[d]] = "promotion"
    BY <1>3, <1>6 DEF PartInv, TypeOK
  <2> QED
    BY <2>1, <2>2, <2>3, <2>4, <2>5 DEF PartInv
<1>8. Background
  <2>1. \A m \in Nodes : Started(m)' <=> Started(m)
    BY <1>2, <1>6 DEF Started
  <2>2. \A d \in targets' : d \in targets \/ (~IsRoot(d) /\ Parent[d] \in targets)
    BY <1>1, <1>2
  <2>3. \A d \in work' : d \in work \/ (~IsRoot(d) /\ Parent[d] \in work)
    BY <1>1, <1>2
  <2>4. targets \subseteq targets'
    BY <1>2
  <2> QED
    BY <1>3, <2>1, <2>2, <2>3, <2>4 DEF Background, clientVars, Busy
<1> QED
  BY <1>5, <1>7, <1>8

\* The admin outbox reports.
LEMMA ReportStep ==
  ASSUME TypeOK, PartInv, NEW n \in Nodes, Report(n)
  PROVE  TypeOK' /\ PartInv' /\ Background
<1>1. /\ n \in alive /\ n \notin fenced /\ rep[n] = "completed" /\ facts' = facts \cup {n}
      /\ promoted' = IF Kind[n] = "promotion" THEN promoted \cup Children(n) ELSE promoted
  BY DEF Report, Works
<1>2. UNCHANGED <<alive, fenced, rep, init, import, work, targets, clientVars, fails, faults, raced>>
  BY DEF Report
<1>3. TypeOK'
  BY <1>1, <1>2 DEF TypeOK, clientVars, Children
<1>4. \A c \in promoted' : c \in promoted \/ (Kind[n] = "promotion" /\ Parent[c] = n /\ ~IsRoot(c))
  BY <1>1, ChildFacts
<1>5. PartInv'
  BY <1>1, <1>2, <1>4 DEF PartInv, TypeOK, Present, Linked, Busy
<1>6. Background
  BY <1>1, <1>2, <1>4 DEF Background, Started, clientVars, Busy
<1> QED
  BY <1>3, <1>5, <1>6

\* A write arrives.
LEMMA SendStep ==
  ASSUME TypeOK, PartInv, NEW n \in Nodes, NEW d \in Nodes, Send(n, d)
  PROVE  TypeOK' /\ PartInv' /\ Background
<1>1. /\ alive' = alive \cup {d} /\ work' = work \cup {d}
      /\ targets' = IF Group[d] = "m" THEN targets \cup {d} ELSE targets
  BY DEF Send
<1>2. UNCHANGED <<fenced, rep, init, import, facts, promoted, clientVars, fails, faults, raced>>
  BY DEF Send
<1>3. d \in alive \/ (IsRoot(d) /\ d \notin fenced)
  BY ReachedFacts
<1>4. Written(d)
  BY ReachedFacts DEF Written
<1>5. TypeOK'
  BY <1>1, <1>2 DEF TypeOK, clientVars
<1>6. PartInv'
  BY <1>1, <1>2, <1>3 DEF PartInv, TypeOK, Present, Linked, Busy
<1>7. Background
  BY <1>1, <1>2, <1>3, <1>4 DEF Background, Started, clientVars, Busy
<1> QED
  BY <1>5, <1>6, <1>7

\* A restart ends a pass.
LEMMA RestartStep ==
  ASSUME TypeOK, PartInv, NEW n \in Nodes, Restart(n)
  PROVE  TypeOK' /\ PartInv' /\ Background
<1>1. Busy(n) /\ faults' = faults + 1
      /\ init' = [c \in Nodes |-> IF c \in Children(n) /\ init[c] # "initialized" THEN "pending" ELSE init[c]]
  BY DEF Restart, Forgotten
<1>2. Calls(n)
  BY <1>1 DEF Restart, Calls, TypeOK, InitStates
<1> QED
  BY <1>1, <1>2, CallsStep

----------------------------------------------------------------------------
(* A step of the partitions keeps what the client relies on.               *)

\* A written group is one that the client has not emptied and does not empty.
LEMMA WrittenFacts ==
  ASSUME TypeOK, EmptyInv, QuietInv, NEW d \in Nodes, Written(d)
  PROVE  /\ phase \in {1, 2, 4, 5} => Group[d] # Current \/ (raced /\ phase = 4)
         /\ phase = 3 => Group[d] # "m"
         /\ \A i \in 1 .. phase - 1 : Group[d] # Order[i] \/ (raced /\ Group[d] = "g")
<1>1. PICK m \in alive : /\ m \notin fenced /\ m \in Nodes
                         /\ \/ Group[m] = "tc" /\ Group[d] = "p"
                            \/ Group[m] = "p" /\ Group[d] = "m"
                            \/ Group[m] = "m" /\ Group[d] = "g"
  BY DEF Written, TypeOK
<1>2. phase \in 0 .. 7 /\ m \in Present
  BY <1>1 DEF TypeOK, Present
<1>3. /\ phase \in 2 .. 7 => Group[m] # "tc"
      /\ phase \in 3 .. 7 => Group[m] # "p"
      /\ phase \in 6 .. 7 => Group[m] # "m"
  BY <1>2, OrderFacts DEF EmptyInv
<1>4. phase \in {4, 5} /\ ~raced => Group[m] # "m"
  BY <1>1 DEF QuietInv, Closed
<1>5. Group[d] \in {"p", "m", "g"}
  BY <1>1
<1>6. phase = 3 => Group[d] # "m"
  BY <1>1, <1>3
<1>7. ASSUME phase \in {1, 2, 4, 5} PROVE Group[d] # Current \/ (raced /\ phase = 4)
  BY <1>1, <1>3, <1>4, <1>7, OrderFacts DEF Current
<1>8. ASSUME NEW i \in 1 .. phase - 1 PROVE Group[d] # Order[i] \/ (raced /\ Group[d] = "g")
  <2>1. i \in 1 .. 6 /\ i < phase
    BY <1>2, <1>8
  <2>2. CASE i \in {1, 3, 6}
    BY <2>2, <1>5, OrderFacts
  <2>3. CASE i = 2
    <3>1. Group[m] # "tc"
      BY <1>2, <1>3, <2>1, <2>3
    <3> QED
      BY <3>1, <1>1, <2>3, OrderFacts
  <2>4. CASE i = 4
    <3>1. Group[m] # "m" \/ raced
      BY <1>2, <1>3, <1>4, <2>1, <2>4
    <3> QED
      BY <3>1, <1>1, <2>4, OrderFacts
  <2>5. CASE i = 5
    <3>1. Group[m] # "p"
      BY <1>2, <1>3, <2>1, <2>5
    <3> QED
      BY <3>1, <1>1, <2>5, OrderFacts
  <2> QED
    BY <2>1, <2>2, <2>3, <2>4, <2>5
<1> QED
  BY <1>6, <1>7, <1>8

\* A new identity: the target of a pass in flight, or a root that a write reached.
LEMMA NewFacts ==
  ASSUME TypeOK, Background, NEW c \in Present', c \notin Present
  PROVE  /\ c \in alive' /\ c \notin alive
         /\ (~IsRoot(c) /\ Busy(Parent[c])) \/ (IsRoot(c) /\ Written(c))
  BY DEF Background, Present

\* A new link is none of a fenced partition, nor of one between its status and its fence.
LEMMA LinkFacts ==
  ASSUME TypeOK, Background
  PROVE  \A c \in Nodes : ~IsRoot(c) /\ Linked(c) => Linked(c)'
<1> SUFFICES ASSUME NEW c \in Nodes, ~IsRoot(c), Linked(c) PROVE Linked(c)'
  OBVIOUS
<1>1. Parent[c] \in Nodes
  BY ParentFacts
<1> QED
  BY <1>1 DEF Linked, Background, Started

\* The root of the materialization.
LEMMA BackgroundRoot ==
  ASSUME TypeOK, PartInv, RootInv, Background, TypeOK'
  PROVE  RootInv'
<1> SUFFICES ASSUME NEW r \in Nodes, IsRoot(r), Group[r] = "m"
             PROVE  \/ r \in alive' /\ r \in targets'
                    \/ NoWriters' /\ (phase' \in 1 .. 4 => ~found')
  BY DEF RootInv
<1>1. CASE r \in alive /\ r \in targets
  BY <1>1 DEF Background
<1>2. CASE NoWriters /\ (phase \in 1 .. 4 => ~found)
  <2>1. targets = {} /\ (\A n \in work : Group[n] = "g") /\ (raced \/ \A n \in Present : Group[n] # "g")
    BY <1>2 DEF NoWriters
  <2>2. \A d : ~Written(d)
    BY <2>1 DEF Written
  <2>3. targets' = {}
    BY <2>1, <2>2 DEF Background
  <2>4. ASSUME NEW n \in work' PROVE Group[n] = "g"
    <3>1. n \in work \/ (~IsRoot(n) /\ Parent[n] \in work)
      BY <2>2 DEF Background
    <3>2. n \in Nodes
      BY DEF TypeOK
    <3> QED
      BY <3>1, <3>2, <2>1, ParentFacts
  <2>5. ASSUME ~raced', NEW n \in Present' PROVE Group[n] # "g"
    <3>0. \A m \in Present : Group[m] # "g"
      BY <2>1, <2>5 DEF Background
    <3>1. CASE n \in Present
      BY <3>0, <3>1
    <3>2. CASE n \notin Present
      <4>1. ~IsRoot(n) /\ Busy(Parent[n]) /\ n \in Nodes
        BY <3>2, <2>2, NewFacts DEF TypeOK
      <4>2. Parent[n] \in Present /\ Group[Parent[n]] = Group[n]
        BY <4>1, ParentFacts DEF PartInv, Present
      <4> QED
        BY <3>0, <4>2
    <3> QED
      BY <3>1, <3>2
  <2>6. NoWriters'
    BY <2>3, <2>4, <2>5 DEF NoWriters
  <2> QED
    BY <1>2, <2>6 DEF Background
<1> QED
  BY <1>1, <1>2 DEF RootInv

\* The path of frames.
LEMMA BackgroundStack ==
  ASSUME TypeOK, StackInv, Background
  PROVE  StackInv'
<1>1. phase' = phase /\ stack' = stack /\ Depths' = Depths /\ Current' = Current
  BY DEF Background, Depths, Current
<1>2. \A i \in Depths : stack[i] \in Frames
  BY DEF TypeOK, Depths
<1>3. ASSUME NEW i \in Depths, NEW c \in stack[i].todo
      PROVE  Parent[c] = stack[i].n /\ Linked(c)'
  <2>1. Parent[c] = stack[i].n /\ Linked(c) /\ c \in Nodes /\ ~IsRoot(c)
    BY <1>2, TreeIsValid DEF StackInv, IsRoot, Frames
  <2> QED
    BY <2>1, LinkFacts
<1>4. ASSUME NEW i \in Depths, NEW c \in Nodes, i > 1, c = stack[i].n
      PROVE  Parent[c] = stack[i - 1].n /\ Linked(c)'
  <2>1. i - 1 \in Depths
    BY <1>4 DEF Depths, TypeOK
  <2>2. Parent[c] = stack[i - 1].n /\ Linked(c) /\ stack[i - 1].n \in Nodes
    BY <2>1, <1>2, <1>4 DEF StackInv, Frames
  <2>3. ~IsRoot(c)
    BY <2>2, TreeIsValid DEF IsRoot
  <2> QED
    BY <2>2, <2>3, LinkFacts
<1> QED
  BY <1>1, <1>3, <1>4 DEF StackInv

\* No target of a fenced partition without a pass gets an identity.
LEMMA BackgroundDfs ==
  ASSUME TypeOK, PartInv, StackInv, DfsInv, EmptyInv, QuietInv, Background, TypeOK'
  PROVE  DfsInv'
<1>1. /\ phase' = phase /\ stack' = stack /\ Depths' = Depths /\ Current' = Current /\ visited' = visited
      /\ fenced' = fenced /\ Present \subseteq Present'
  BY DEF Background, Depths, Current, Present
<1> SUFFICES ASSUME phase \in {1, 2, 4, 5}, ~(raced' /\ phase = 4 /\ stack = <<>>) PROVE DfsInv'
  BY <1>1 DEF DfsInv
<1>0. (raced => raced') /\ ~(raced /\ phase = 4 /\ stack = <<>>)
  BY DEF Background
<1>2. /\ \A c \in visited : ~IsRoot(c) /\ Group[c] = Current
      /\ \A i \in Depths : i > 1 => stack[i].n \in visited
      /\ \A i, j \in Depths : stack[i].n = stack[j].n => i = j
      /\ \A c \in visited : c \in Present => OnStack(c)
      /\ \A c \in visited : Past(Parent[c]) \/ (Parent[c] \notin Present /\ (IsRoot(Parent[c]) \/ Parent[c] \in visited))
      /\ \A i \in Depths : stack[i].at \in {"prepare", "wait", "status"} => \A c \in visited : Parent[c] # stack[i].n
      /\ stack = <<>> => \A r \in Nodes : IsRoot(r) /\ Group[r] = Current => r \notin Present
      /\ \A i \in Depths : FrameInv(i)
  BY <1>0 DEF DfsInv
<1>3. \A n : Past(n) => ~Busy(n)
  BY <1>2 DEF Past, FrameInv, Busy
<1>4. \A c \in Nodes : Written(c) => Group[c] # Current \/ (raced /\ phase = 4)
  BY WrittenFacts
<1>5. ASSUME NEW c \in visited, c \notin Present PROVE c \notin Present'
  <2>1. SUFFICES ASSUME c \in Present' PROVE FALSE
    OBVIOUS
  <2>2. c \in Nodes /\ ~IsRoot(c)
    BY <1>2 DEF TypeOK
  <2>3. Busy(Parent[c])
    BY <2>1, <2>2, <1>5, NewFacts
  <2>4. Parent[c] \in Present
    BY <2>2, <2>3, ParentFacts DEF PartInv, Present
  <2> QED
    BY <2>3, <2>4, <1>2, <1>3
<1>6. ASSUME NEW r \in Nodes, IsRoot(r), Group[r] = Current, r \notin Present
      PROVE  r \notin Present' \/ (raced /\ phase = 4)
  BY <1>6, <1>4, NewFacts
<1>10. stack = <<>> => \A r \in Nodes : IsRoot(r) /\ Group[r] = Current => r \notin Present'
  BY <1>0, <1>2, <1>6
<1>7. \A c \in visited : c \in Present' => OnStack(c)
  BY <1>2, <1>5
<1>8. ASSUME NEW c \in visited
      PROVE  Past(Parent[c]) \/ (Parent[c] \notin Present' /\ (IsRoot(Parent[c]) \/ Parent[c] \in visited))
  <2>1. c \in Nodes /\ ~IsRoot(c) /\ Group[c] = Current
    BY <1>2 DEF TypeOK
  <2>2. Parent[c] \in Nodes /\ Group[Parent[c]] = Current
    BY <2>1, ParentFacts
  <2>3. SUFFICES ASSUME Parent[c] \notin Present, Parent[c] \in Present', IsRoot(Parent[c]), raced, phase = 4 PROVE FALSE
    BY <2>2, <1>2, <1>5, <1>6
  <2>4. 1 \in Depths /\ IsRoot(stack[1].n) /\ Group[stack[1].n] = Current /\ stack[1].n \in Nodes
    <3>1. stack \in Seq(Frames) /\ stack # <<>>
      BY <2>3, <1>0 DEF TypeOK
    <3>2. 1 \in Depths /\ stack[1] \in Frames
      BY <3>1 DEF Depths
    <3> QED
      BY <3>1, <3>2 DEF StackInv, Frames
  <2>5. stack[1].n = Parent[c]
    BY <2>2, <2>3, <2>4, GroupsAreTrees DEF IsRoot
  <2>6. stack[1].at = "prepare"
    <3>1. stack[1].n \notin fenced
      BY <2>3, <2>5 DEF Present
    <3> QED
      BY <3>1, <2>4, <1>2 DEF FrameInv
  <2> QED
    BY <2>4, <2>5, <2>6, <1>2
<1>9. ASSUME NEW i \in Depths PROVE FrameInv(i)'
  <2>1. PICK f : f = stack[i]
    OBVIOUS
  <2>2. /\ f.at # "prepare" => f.n \in fenced
        /\ f.at \in {"status", "targets", "promotions", "destroy"} => ~Busy(f.n)
        /\ f.at = "promotions" \/ (f.at = "targets" /\ Kind[f.n] = "split") =>
             \A c \in Present : Parent[c] = f.n => c \in f.todo \/ (i < Len(stack) /\ stack[i + 1].n = c)
        /\ f.at = "destroy" => \A c \in Nodes : Parent[c] = f.n => c \notin Present /\ c \notin promoted
    BY <1>2, <2>1 DEF FrameInv, Busy
  <2>4. f \in Frames
    BY <2>1 DEF Depths, TypeOK
  <2>3. f.at \in {"status", "targets", "promotions", "destroy"} => ~Busy(f.n)'
    BY <2>2, <2>4 DEF Background, Frames
  <2>5. ASSUME f.at \in {"targets", "promotions", "destroy"}, NEW c \in Present', Parent[c] = f.n PROVE c \in Present
    <3>1. c \in Nodes /\ ~IsRoot(c)
      BY <2>4, <2>5, TreeIsValid DEF IsRoot, Frames, Present, TypeOK
    <3>2. ~Busy(f.n)
      BY <2>2, <2>5
    <3> QED
      BY <2>5, <3>1, <3>2, NewFacts
  <2>6. ASSUME f.at = "destroy", NEW c \in Nodes, Parent[c] = f.n PROVE c \notin promoted'
    BY <2>2, <2>6 DEF Background
  <2>7. /\ f.at = "promotions" \/ (f.at = "targets" /\ Kind[f.n] = "split") =>
             \A c \in Present' : Parent[c] = f.n => c \in f.todo \/ (i < Len(stack) /\ stack[i + 1].n = c)
        /\ f.at = "destroy" => \A c \in Nodes : Parent[c] = f.n => c \notin Present' /\ c \notin promoted'
    BY <2>2, <2>5, <2>6
  <2> QED
    BY <2>1, <2>2, <2>3, <2>7, <1>1 DEF FrameInv, Busy
<1> QED
  BY <1>1, <1>2, <1>7, <1>8, <1>9, <1>10 DEF DfsInv, OnStack, Past

\* What the walk closed stays closed, and gets no target that the client does not visit.
LEMMA BackgroundWalk ==
  ASSUME TypeOK, PartInv, WalkInv, EmptyInv, QuietInv, Background, TypeOK'
  PROVE  WalkInv'
<1>1. /\ phase' = phase /\ stack' = stack /\ Depths' = Depths /\ visited' = visited /\ Top' = Top
      /\ fenced' = fenced /\ found' = found /\ alive \subseteq alive'
  BY DEF Background, Depths, Top
<1> SUFFICES ASSUME phase = 3 PROVE WalkInv'
  BY <1>1 DEF WalkInv
<1>2. /\ \A n \in visited : Group[n] = "m"
      /\ \A n \in visited : n \in alive => Closed(n) \/ (stack # <<>> /\ Top.n = n /\ Top.at \in {"yield", "yielded"})
      /\ \A c \in visited : ~IsRoot(c) => Closed(Parent[c])
      /\ \A i \in Depths : /\ stack[i].at # "walk" => stack[i].n \in visited /\ stack[i].n \in alive
                           /\ stack[i].at \in {"yielded", "walked", "walkedPromotions"} => stack[i].n \in fenced
                           /\ stack[i].at \in {"walked", "walkedPromotions"} => ~Busy(stack[i].n)
      /\ \A n \in visited, c \in Nodes : n \in alive /\ Parent[c] = n /\ Linked(c) => raced \/ c \in visited \/ OnStack(c) \/ Pending(n, c)
      /\ stack # <<>> /\ stack[1].at = "walk" => visited = {}
      /\ \A r \in Nodes : IsRoot(r) /\ Group[r] = "m" =>
           /\ r \in visited \/ (stack # <<>> /\ stack[1].at = "walk")
           /\ r \in targets => found \/ (stack # <<>> /\ stack[1].at \in {"walk", "yield", "yielded"})
  BY DEF WalkInv
<1>3. \A n : Closed(n) => Closed(n)'
  BY DEF Closed, Background, TypeOK
<1>4. \A n \in Nodes : Written(n) => Group[n] # "m"
  BY WrittenFacts
<1>5. ASSUME NEW n \in visited, n \in alive' PROVE n \in alive
  <2>1. SUFFICES ASSUME n \notin alive PROVE FALSE
    OBVIOUS
  <2>2. n \in Nodes /\ Group[n] = "m"
    BY <1>2 DEF TypeOK
  <2>3. ~IsRoot(n) /\ Busy(Parent[n])
    BY <2>1, <2>2, <1>4, <1>5 DEF Background
  <2> QED
    BY <2>3, <1>2 DEF Closed, Busy
<1>6. \A n \in visited : n \in alive' => Closed(n)' \/ (stack # <<>> /\ Top.n = n /\ Top.at \in {"yield", "yielded"})
  BY <1>2, <1>3, <1>5
<1>7. \A c \in visited : ~IsRoot(c) => Closed(Parent[c])'
  BY <1>2, <1>3
<1>8. \A i \in Depths : /\ stack[i].at # "walk" => stack[i].n \in visited /\ stack[i].n \in alive'
                        /\ stack[i].at \in {"yielded", "walked", "walkedPromotions"} => stack[i].n \in fenced
                        /\ stack[i].at \in {"walked", "walkedPromotions"} => ~Busy(stack[i].n)'
  <2>1. ASSUME NEW i \in Depths, stack[i].at \in {"walked", "walkedPromotions"} PROVE ~Busy(stack[i].n)'
    <3>0. stack[i] \in Frames
      BY DEF TypeOK, Depths
    <3>1. PICK n \in Nodes : n = stack[i].n
      BY <3>0 DEF Frames
    <3>2. n \in fenced /\ ~Busy(n)
      BY <3>1, <2>1, <1>2
    <3>3. ~Busy(n)'
      BY <3>2 DEF Background
    <3> QED
      BY <3>1, <3>3, <1>1
  <2> QED
    BY <2>1, <1>1, <1>2
<1>9. ASSUME NEW n \in visited, NEW c \in Nodes, n \in alive', Parent[c] = n, Linked(c)'
      PROVE  raced' \/ c \in visited \/ OnStack(c) \/ Pending(n, c)
  <2> SUFFICES ASSUME ~raced' PROVE c \in visited \/ OnStack(c) \/ Pending(n, c)
    OBVIOUS
  <2>1. n \in alive /\ n \in Nodes /\ ~raced
    BY <1>5, <1>9 DEF TypeOK, Background
  <2>2. CASE Linked(c)
    BY <2>1, <2>2, <1>2, <1>9
  <2>3. CASE ~Linked(c)
    <3>1. Started(n)' /\ ~Started(n)
      BY <2>1, <2>3, <1>9 DEF Linked, Started
    <3>2. n \notin fenced /\ (Kind[n] = "split" => ~AwaitsFence(n))
      BY <2>1, <3>1 DEF Background
    <3>3. stack # <<>> /\ Top.n = n /\ Top.at \in {"yield", "yielded"}
      BY <2>1, <3>2, <1>2 DEF Closed, Busy
    <3>4. Len(stack) \in Depths /\ stack[Len(stack)] = Top
      BY <3>3 DEF TypeOK, Depths, Top
    <3>5. Top.at = "yield"
      BY <3>2, <3>3, <3>4, <1>2
    <3>6. Kind[n] = "promotion"
      BY <2>1, <3>2, <3>3, <3>5, TreeIsValid DEF AwaitsFence, At
    <3> QED
      BY <3>3, <3>4, <3>5, <3>6 DEF Pending
  <2> QED
    BY <2>2, <2>3
<1>10. ASSUME NEW r \in Nodes, IsRoot(r), Group[r] = "m", r \in targets' PROVE r \in targets
  BY <1>4, <1>10 DEF Background
<1>11. \A r \in Nodes : IsRoot(r) /\ Group[r] = "m" =>
         /\ r \in visited \/ (stack # <<>> /\ stack[1].at = "walk")
         /\ r \in targets' => found \/ (stack # <<>> /\ stack[1].at \in {"walk", "yield", "yielded"})
  BY <1>2, <1>10
<1> QED
  BY <1>1, <1>2, <1>6, <1>7, <1>8, <1>9, <1>11 DEF WalkInv, OnStack, Pending

\* The materialization stays quiet, the emptied groups stay empty, the facts are known.
LEMMA BackgroundRest ==
  ASSUME TypeOK, PartInv, QuietInv, EmptyInv, FactInv, Background, TypeOK'
  PROVE  QuietInv' /\ EmptyInv' /\ FactInv'
<1>1. phase' = phase /\ found' = found /\ resets' = resets /\ fails' = fails /\ fenced' = fenced /\ (raced => raced')
  BY DEF Background
<1>2. \A n : Closed(n) => Closed(n)'
  BY DEF Closed, Background, TypeOK
<1>3. ASSUME phase \in {4, 5}, ~raced, NEW n \in alive', Group[n] = "m" PROVE Closed(n)'
  <2>1. CASE n \in alive
    BY <2>1, <1>2, <1>3 DEF QuietInv
  <2>2. CASE n \notin alive
    <3>1. n \in Nodes
      BY DEF TypeOK
    <3>2. ~Written(n)
      <4>1. ASSUME NEW m \in alive PROVE Group[m] # "p"
        <5>1. 2 \in 1 .. phase - 1 /\ m \in Present
          BY <1>3 DEF Present
        <5> QED
          BY <5>1, OrderFacts DEF EmptyInv
      <4> QED
        BY <4>1, <1>3 DEF Written
    <3>3. ~IsRoot(n) /\ Busy(Parent[n])
      BY <2>2, <3>2 DEF Background
    <3>4. Parent[n] \in alive /\ Group[Parent[n]] = "m"
      BY <3>1, <3>3, <1>3, ParentFacts DEF PartInv
    <3> QED
      BY <3>3, <3>4, <1>3 DEF QuietInv, Closed, Busy
  <2> QED
    BY <2>1, <2>2
<1>4. ASSUME NEW i \in 1 .. phase - 1, NEW n \in Present' PROVE Group[n] # Order[i] \/ (raced /\ Group[n] = "g")
  <2>1. CASE n \in Present
    BY <2>1 DEF EmptyInv
  <2>2. CASE n \notin Present
    <3>1. n \in Nodes
      BY DEF TypeOK, Present
    <3>2. CASE IsRoot(n)
      BY <2>2, <3>1, <3>2, NewFacts, WrittenFacts
    <3>3. CASE ~IsRoot(n)
      <4>1. Parent[n] \in Present /\ Group[Parent[n]] = Group[n]
        BY <2>2, <3>1, <3>3, NewFacts, ParentFacts DEF PartInv, Present
      <4> QED
        BY <4>1 DEF EmptyInv
    <3> QED
      BY <3>2, <3>3
  <2> QED
    BY <2>1, <2>2
<1>5. ASSUME phase \in {6, 7}, NEW n \in alive PROVE Group[n] = "g" /\ raced
  <2>1. n \in Present /\ 1 \in 1 .. phase - 1 /\ 2 \in 1 .. phase - 1 /\ 4 \in 1 .. phase - 1 /\ 5 \in 1 .. phase - 1
    BY <1>5 DEF Present
  <2>2. /\ Group[n] \notin {"tc", "p", "m"}
        /\ Group[n] # "g" \/ raced
    BY <2>1, OrderFacts DEF EmptyInv
  <2>3. Group[n] \in {"tc", "p", "m", "g"}
    BY TreeIsValid DEF TypeOK
  <2> QED
    BY <2>2, <2>3
<1>6. phase \in {6, 7} => \A n \in facts' : n \in facts \/ (Group[n] = "g" /\ raced)
  BY <1>5 DEF Background
<1>7. alive \subseteq alive' /\ targets \subseteq targets'
  BY DEF Background
<1>8. QuietInv'
  BY <1>1, <1>3 DEF QuietInv
<1>9. EmptyInv'
  BY <1>1, <1>4 DEF EmptyInv
<1>10. FactInv'
  BY <1>1, <1>6, <1>7 DEF FactInv
<1> QED
  BY <1>8, <1>9, <1>10

\* A step of the partitions.
LEMMA PartitionStep ==
  ASSUME IInv, NEW n \in Nodes,
         \/ Queue(n) \/ Plan(n) \/ SendInit(n) \/ InitArrives(n) \/ InitFails(n) \/ InitSettles(n) \/ Cutover(n) \/ Import(n) \/ Report(n) \/ Restart(n)
         \/ \E d \in Nodes : Send(n, d)
  PROVE  IInv'
<1>1. TypeOK /\ PartInv /\ RootInv /\ StackInv /\ DfsInv /\ WalkInv /\ QuietInv /\ EmptyInv /\ FactInv
  BY DEF IInv
<1>2. TypeOK' /\ PartInv' /\ Background
  BY <1>1, QueueStep, PlanStep, SendInitStep, InitArrivesStep, InitFailsStep, InitSettlesStep, CutoverStep, ImportStep, ReportStep, RestartStep, SendStep
<1>3. RootInv' /\ StackInv' /\ DfsInv' /\ WalkInv' /\ QuietInv' /\ EmptyInv' /\ FactInv'
  BY <1>1, <1>2, BackgroundRoot, BackgroundStack, BackgroundDfs, BackgroundWalk, BackgroundRest
<1> QED
  BY <1>2, <1>3 DEF IInv

----------------------------------------------------------------------------
(* The steps of the client: the stack.                                     *)

\* The last frame.
LEMMA TopFacts ==
  ASSUME TypeOK, StackInv, NEW a, At(a)
  PROVE  /\ stack \in Seq(Frames) /\ stack # <<>> /\ Len(stack) \in Depths /\ Len(stack) \in Nat
         /\ Top = stack[Len(stack)] /\ Top \in Frames /\ Top.n \in Nodes /\ Top.at = a
         /\ Group[Top.n] = Current
         /\ a \in DfsAts => phase \in {1, 2, 4, 5}
         /\ a \in WalkAts => phase = 3
         /\ IsRoot(Top.n) <=> Len(stack) = 1
         /\ ~IsRoot(Top.n) => Linked(Top.n)
<1>1. stack \in Seq(Frames) /\ stack # <<>> /\ Len(stack) \in Depths /\ Len(stack) \in Nat /\ Top = stack[Len(stack)]
  BY DEF At, TypeOK, Depths, Top
<1>2. Top \in Frames /\ Top.n \in Nodes /\ Top.at = a
  <2>1. Top \in Frames
    BY <1>1, ElementOfSeq DEF Depths
  <2> QED
    BY <2>1 DEF At, Frames
<1>3. Group[Top.n] = Current /\ Top.at \in (IF phase = 3 THEN WalkAts ELSE DfsAts) /\ phase \notin {0, 6, 7} /\ IsRoot(stack[1].n)
  BY <1>1 DEF StackInv
<1>4. phase \in {1, 2, 3, 4, 5}
  BY <1>3 DEF TypeOK
<1>5. (a \in DfsAts => phase \in {1, 2, 4, 5}) /\ (a \in WalkAts => phase = 3)
  BY <1>2, <1>3, <1>4 DEF DfsAts, WalkAts
<1>6. Len(stack) = 1 => IsRoot(Top.n)
  BY <1>1, <1>3
<1>7. ASSUME Len(stack) # 1 PROVE ~IsRoot(Top.n) /\ Linked(Top.n)
  <2>1. Len(stack) > 1 /\ Len(stack) - 1 \in 1 .. Len(stack)
    BY <1>1, <1>7, SeveralFrames DEF Depths
  <2>2. stack[Len(stack) - 1] \in Frames
    BY <1>1, <2>1, ElementOfSeq
  <2>3. Parent[Top.n] = stack[Len(stack) - 1].n /\ Linked(Top.n)
    BY <1>1, <1>2, <2>1 DEF StackInv
  <2> QED
    BY <1>1, <2>2, <2>3, TreeIsValid DEF IsRoot, Frames
<1> QED
  BY <1>1, <1>2, <1>3, <1>5, <1>6, <1>7

\* A frame is in the nodes, and so are its targets.
LEMMA FrameFacts ==
  ASSUME TypeOK, StackInv, NEW i \in Depths
  PROVE  /\ stack[i] \in Frames /\ stack[i].n \in Nodes /\ i \in Nat
         /\ \A c \in stack[i].todo : c \in Nodes /\ Parent[c] = stack[i].n /\ ~IsRoot(c)
<1>1. stack \in Seq(Frames) /\ i \in 1 .. Len(stack) /\ i \in Nat
  BY DEF TypeOK, Depths
<1>2. stack[i] \in Frames
  BY <1>1, ElementOfSeq
<1>3. stack[i].n \in Nodes /\ stack[i].todo \in SUBSET Nodes
  BY <1>2 DEF Frames
<1> QED
  BY <1>1, <1>2, <1>3, TreeIsValid DEF StackInv, IsRoot

\* The last frame moves on.
LEMMA StepStack ==
  ASSUME TypeOK, StackInv, stack # <<>>, phase' = phase, NEW at \in DfsAts \cup WalkAts, NEW todo \in SUBSET Nodes,
         Step(at, todo), at \in (IF phase = 3 THEN WalkAts ELSE DfsAts),
         \A c \in todo : Parent[c] = Top.n /\ Linked(c)',
         \A c \in Nodes : ~IsRoot(c) /\ Linked(c) => Linked(c)'
  PROVE  /\ StackInv' /\ stack' \in Seq(Frames) /\ stack' # <<>> /\ Len(stack') = Len(stack) /\ Depths' = Depths
         /\ \A i \in Depths : stack'[i].n = stack[i].n /\ (i # Len(stack) => stack'[i] = stack[i])
         /\ stack'[Len(stack)].at = at /\ stack'[Len(stack)].todo = todo
<1>1. stack \in Seq(Frames) /\ Len(stack) \in Nat
  BY DEF TypeOK
<1>2. /\ stack' \in Seq(Frames) /\ Len(stack') = Len(stack) /\ stack' # <<>> /\ Len(stack) \in 1 .. Len(stack)
      /\ \A i \in 1 .. Len(stack) : stack'[i].n = stack[i].n /\ (i # Len(stack) => stack'[i] = stack[i])
      /\ stack'[Len(stack)].at = at /\ stack'[Len(stack)].todo = todo
  <2>1. \A t : Replaced(stack, t, at, todo) =>
         /\ t \in Seq(Frames) /\ Len(t) = Len(stack) /\ t # <<>> /\ Len(stack) \in 1 .. Len(stack)
         /\ \A i \in 1 .. Len(stack) : t[i].n = stack[i].n /\ (i # Len(stack) => t[i] = stack[i])
         /\ t[Len(stack)].at = at /\ t[Len(stack)].todo = todo
    BY <1>1, StepFacts
  <2> QED
    BY <2>1, Zenon DEF Step, Replaced
<1>3. Depths' = Depths /\ Current' = Current
  BY <1>2 DEF Depths, Current
<1>4. /\ phase \notin {0, 6, 7} /\ IsRoot(stack[1].n)
      /\ \A i \in Depths :
           /\ Group[stack[i].n] = Current
           /\ stack[i].at \in (IF phase = 3 THEN WalkAts ELSE DfsAts)
           /\ \A c \in stack[i].todo : Parent[c] = stack[i].n /\ Linked(c)
           /\ \A c \in Nodes : i > 1 /\ c = stack[i].n => Parent[c] = stack[i - 1].n /\ Linked(c)
           /\ i < Len(stack) => stack[i].at \in {"targets", "promotions", "walked", "walkedPromotions"}
  BY DEF StackInv
<1>5. 1 \in Depths /\ Len(stack) \in Depths
  BY <1>1, <1>2 DEF Depths
<1>6. ASSUME NEW i \in Depths
      PROVE  /\ Group[stack'[i].n] = Current
             /\ stack'[i].at \in (IF phase = 3 THEN WalkAts ELSE DfsAts)
             /\ i < Len(stack) => stack'[i].at \in {"targets", "promotions", "walked", "walkedPromotions"}
  BY <1>2, <1>4 DEF Depths
<1>7. ASSUME NEW i \in Depths, NEW c \in stack'[i].todo PROVE Parent[c] = stack'[i].n /\ Linked(c)'
  <2>1. CASE i = Len(stack)
    BY <1>2, <1>5, <1>7, <2>1 DEF Top
  <2>2. CASE i # Len(stack)
    <3>1. stack'[i] = stack[i]
      BY <1>2, <2>2 DEF Depths
    <3>2. c \in Nodes /\ ~IsRoot(c) /\ Parent[c] = stack[i].n /\ Linked(c)
      BY <3>1, <1>7, <1>4, FrameFacts
    <3> QED
      BY <3>1, <3>2
  <2> QED
    BY <2>1, <2>2
<1>8. ASSUME NEW i \in Depths, NEW c \in Nodes, i > 1, c = stack'[i].n PROVE Parent[c] = stack'[i - 1].n /\ Linked(c)'
  <2>1. c = stack[i].n
    BY <1>2, <1>8 DEF Depths
  <2>2. i - 1 \in Depths
    BY <1>1, <1>8 DEF Depths
  <2>3. Parent[c] = stack[i - 1].n /\ Linked(c) /\ stack[i - 1].n \in Nodes
    BY <2>1, <2>2, <1>4, <1>8, FrameFacts
  <2>4. ~IsRoot(c)
    BY <2>3, TreeIsValid DEF IsRoot
  <2>5. stack'[i - 1].n = stack[i - 1].n
    BY <2>2, <1>2 DEF Depths
  <2> QED
    BY <2>3, <2>4, <2>5
<1>9. IsRoot(stack'[1].n)
  BY <1>2, <1>4, <1>5 DEF Depths
<1>10. StackInv'
  BY <1>2, <1>3, <1>4, <1>6, <1>7, <1>8, <1>9 DEF StackInv
<1> QED
  BY <1>2, <1>3, <1>10 DEF Depths

\* The traversal goes back to the frame below.
LEMMA PopStack ==
  ASSUME TypeOK, StackInv, stack # <<>>, phase' = phase, Pop,
         \A i \in Depths, c \in Nodes : i # Len(stack) /\ Parent[c] = stack[i].n /\ Linked(c) => Linked(c)'
  PROVE  /\ StackInv' /\ stack' \in Seq(Frames) /\ Len(stack') = Len(stack) - 1
         /\ \A i \in Depths' : i \in Depths /\ i # Len(stack) /\ i < Len(stack) /\ stack'[i] = stack[i]
         /\ \A i \in Depths : i # Len(stack) => i \in Depths'
         /\ stack' = <<>> <=> Len(stack) = 1
<1>1. stack \in Seq(Frames) /\ Len(stack) \in Nat
  BY DEF TypeOK
<1>2. /\ stack' \in Seq(Frames) /\ Len(stack') = Len(stack) - 1 /\ Len(stack) \in 1 .. Len(stack)
      /\ \A i \in 1 .. Len(stack') : stack'[i] = stack[i] /\ i \in 1 .. Len(stack) /\ i # Len(stack)
      /\ \A i \in 1 .. Len(stack) : i # Len(stack) => i \in 1 .. Len(stack')
      /\ stack' = <<>> <=> Len(stack) = 1
  BY <1>1, PopFacts DEF Pop
<1>3. Depths' = 1 .. Len(stack') /\ Current' = Current
  BY DEF Depths, Current
<1>4. /\ phase \notin {0, 6, 7} /\ IsRoot(stack[1].n)
      /\ \A i \in Depths :
           /\ Group[stack[i].n] = Current
           /\ stack[i].at \in (IF phase = 3 THEN WalkAts ELSE DfsAts)
           /\ \A c \in stack[i].todo : Parent[c] = stack[i].n /\ Linked(c)
           /\ \A c \in Nodes : i > 1 /\ c = stack[i].n => Parent[c] = stack[i - 1].n /\ Linked(c)
           /\ i < Len(stack) => stack[i].at \in {"targets", "promotions", "walked", "walkedPromotions"}
  BY DEF StackInv
<1>5. /\ \A i \in Depths' : i \in Depths /\ i # Len(stack) /\ i < Len(stack) /\ stack'[i] = stack[i]
      /\ \A i \in Depths : i # Len(stack) => i \in Depths'
  BY <1>1, <1>2, <1>3, SMTT(30) DEF Depths
<1>6. ASSUME NEW i \in Depths', NEW c \in stack'[i].todo PROVE Parent[c] = stack'[i].n /\ Linked(c)'
  <2>1. i \in Depths /\ i # Len(stack) /\ stack'[i] = stack[i]
    BY <1>5
  <2>2. c \in Nodes /\ Parent[c] = stack[i].n /\ Linked(c)
    BY <2>1, <1>4, <1>6, FrameFacts
  <2> QED
    BY <2>1, <2>2
<1>7. ASSUME NEW i \in Depths', NEW c \in Nodes, i > 1, c = stack'[i].n PROVE Parent[c] = stack'[i - 1].n /\ Linked(c)'
  <2>1. i \in Depths /\ i < Len(stack) /\ stack'[i] = stack[i]
    BY <1>5
  <2>2. i - 1 \in Depths' /\ i - 1 \in Depths /\ i - 1 # Len(stack) /\ stack'[i - 1] = stack[i - 1]
    BY <1>1, <1>2, <1>3, <1>5, <1>7, SMTT(30)
  <2>3. Parent[c] = stack[i - 1].n /\ Linked(c)
    BY <2>1, <1>4, <1>7
  <2>4. Linked(c)'
    BY <2>2, <2>3
  <2> QED
    BY <2>2, <2>3, <2>4
<1>8. stack' # <<>> => IsRoot(stack'[1].n)
  <2>1. stack' # <<>> => 1 \in Depths'
    BY <1>1, <1>2, <1>3
  <2> QED
    BY <2>1, <1>4, <1>5
<1>9. ASSUME NEW i \in Depths'
      PROVE  /\ Group[stack'[i].n] = Current
             /\ stack'[i].at \in (IF phase = 3 THEN WalkAts ELSE DfsAts)
             /\ i < Len(stack') => stack'[i].at \in {"targets", "promotions", "walked", "walkedPromotions"}
  BY <1>4, <1>5
<1>10. StackInv'
  BY <1>3, <1>4, <1>6, <1>7, <1>8, <1>9 DEF StackInv
<1> QED
  BY <1>2, <1>5, <1>10

\* The traversal goes on to a target of the last frame.
LEMMA PushStack ==
  ASSUME TypeOK, StackInv, stack # <<>>, phase' = phase, UNCHANGED nodeVars, NEW c \in Top.todo, NEW at,
         at \in (IF phase = 3 THEN WalkAts ELSE DfsAts),
         Top.at \in {"targets", "promotions", "walked", "walkedPromotions"},
         Extended(stack, stack', c, at)
  PROVE  /\ StackInv' /\ stack' \in Seq(Frames) /\ stack' # <<>> /\ Len(stack') = Len(stack) + 1
         /\ Depths' = Depths \cup {Len(stack) + 1} /\ Len(stack) + 1 \notin Depths
         /\ \A i \in Depths : stack'[i].n = stack[i].n /\ stack'[i].at = stack[i].at /\ (i # Len(stack) => stack'[i] = stack[i])
         /\ stack'[Len(stack)].todo = Top.todo \ {c}
         /\ stack'[Len(stack) + 1].n = c /\ stack'[Len(stack) + 1].at = at /\ stack'[Len(stack) + 1].todo = {}
<1>1. stack \in Seq(Frames) /\ Len(stack) \in Nat /\ Len(stack) \in Depths /\ Top = stack[Len(stack)]
  BY DEF TypeOK, Depths, Top
<1>2. c \in Nodes /\ Parent[c] = stack[Len(stack)].n /\ at \in DfsAts \cup WalkAts
  BY <1>1, FrameFacts
<1>3. PICK t : t = stack'
  OBVIOUS
<1>4. Extended(stack, t, c, at)
  BY <1>3
<1>5. /\ t \in Seq(Frames) /\ Len(t) = Len(stack) + 1 /\ t # <<>>
      /\ \A i \in 1 .. Len(stack) : t[i].n = stack[i].n /\ t[i].at = stack[i].at /\ (i # Len(stack) => t[i] = stack[i])
      /\ t[Len(stack)].todo = stack[Len(stack)].todo \ {c}
      /\ t[Len(stack) + 1].n = c /\ t[Len(stack) + 1].at = at /\ t[Len(stack) + 1].todo = {}
  BY <1>1, <1>2, <1>4, PushFacts
<1>6. /\ stack' \in Seq(Frames) /\ Len(stack') = Len(stack) + 1 /\ stack' # <<>>
      /\ \A i \in 1 .. Len(stack) : stack'[i].n = stack[i].n /\ stack'[i].at = stack[i].at /\ (i # Len(stack) => stack'[i] = stack[i])
      /\ stack'[Len(stack)].todo = stack[Len(stack)].todo \ {c}
      /\ stack'[Len(stack) + 1].n = c /\ stack'[Len(stack) + 1].at = at /\ stack'[Len(stack) + 1].todo = {}
  BY <1>3, <1>5
<1>7. /\ \A i \in Depths : stack'[i].n = stack[i].n /\ stack'[i].at = stack[i].at /\ (i # Len(stack) => stack'[i] = stack[i])
      /\ stack'[Len(stack)].todo = Top.todo \ {c}
  BY <1>1, <1>6 DEF Depths
<1>8. Depths' = Depths \cup {Len(stack) + 1} /\ Len(stack) + 1 \notin Depths /\ Current' = Current
  BY <1>1, <1>6 DEF Depths, Current
<1>9. /\ phase \notin {0, 6, 7} /\ IsRoot(stack[1].n)
      /\ \A i \in Depths :
           /\ Group[stack[i].n] = Current
           /\ stack[i].at \in (IF phase = 3 THEN WalkAts ELSE DfsAts)
           /\ \A d \in stack[i].todo : Parent[d] = stack[i].n /\ Linked(d)
           /\ \A d \in Nodes : i > 1 /\ d = stack[i].n => Parent[d] = stack[i - 1].n /\ Linked(d)
           /\ i < Len(stack) => stack[i].at \in {"targets", "promotions", "walked", "walkedPromotions"}
  BY DEF StackInv
<1>10. \A d : Linked(d)' <=> Linked(d)
  BY DEF Linked, nodeVars
<1>11. Group[c] = Current /\ Linked(c)
  <2>1. ~IsRoot(c)
    BY <1>1, FrameFacts
  <2> QED
    BY <2>1, <1>1, <1>2, <1>9, ParentFacts
<1>12. ASSUME NEW i \in Depths'
       PROVE  /\ Group[stack'[i].n] = Current
              /\ stack'[i].at \in (IF phase = 3 THEN WalkAts ELSE DfsAts)
              /\ i < Len(stack') => stack'[i].at \in {"targets", "promotions", "walked", "walkedPromotions"}
  <2>1. CASE i \in Depths
    <3>1. i # Len(stack) => i < Len(stack)
      BY <2>1, <1>1 DEF Depths
    <3> QED
      BY <2>1, <3>1, <1>1, <1>7, <1>9
  <2>2. CASE i = Len(stack) + 1
    BY <2>2, <1>1, <1>6, <1>11
  <2> QED
    BY <2>1, <2>2, <1>8
<1>13. ASSUME NEW i \in Depths', NEW d \in stack'[i].todo PROVE Parent[d] = stack'[i].n /\ Linked(d)
  <2>1. CASE i \in Depths
    BY <2>1, <1>1, <1>7, <1>9, <1>13
  <2>2. CASE i = Len(stack) + 1
    BY <2>2, <1>6, <1>13
  <2> QED
    BY <2>1, <2>2, <1>8
<1>14. ASSUME NEW i \in Depths', NEW d \in Nodes, i > 1, d = stack'[i].n PROVE Parent[d] = stack'[i - 1].n /\ Linked(d)
  <2>1. CASE i \in Depths
    <3>1. i - 1 \in Depths
      BY <2>1, <1>14, <1>1 DEF Depths
    <3>2. d = stack[i].n /\ stack'[i - 1].n = stack[i - 1].n
      BY <2>1, <3>1, <1>7, <1>14
    <3> QED
      BY <2>1, <3>2, <1>9, <1>14
  <2>2. CASE i = Len(stack) + 1
    <3>1. i - 1 = Len(stack)
      BY <2>2, <1>1
    <3>2. d = c
      <4>1. stack'[i].n = c
        BY <2>2, <1>6, Zenon
      <4> QED
        BY <4>1, <1>14, Zenon
    <3>3. stack'[i - 1].n = Top.n
      <4>1. stack'[Len(stack)].n = stack[Len(stack)].n
        BY <1>1, <1>7, Zenon
      <4> QED
        BY <4>1, <3>1, <1>1, Zenon
    <3> QED
      BY <3>2, <3>3, <1>1, <1>2, <1>11
  <2> QED
    BY <2>1, <2>2, <1>8
<1>15. IsRoot(stack'[1].n)
  <2>1. 1 \in Depths
    BY <1>1 DEF Depths
  <2> QED
    BY <2>1, <1>7, <1>9
<1>16. StackInv'
  BY <1>8, <1>9, <1>10, <1>12, <1>13, <1>14, <1>15 DEF StackInv
<1> QED
  BY <1>6, <1>7, <1>8, <1>16

----------------------------------------------------------------------------
(* The steps of the client: the traversal of destroy().                    *)

\* A step that moves the frames of the traversal only.
LEMMA SameStorage ==
  ASSUME IInv, UNCHANGED nodeVars, UNCHANGED <<phase, found, resets, fails, raced>>
  PROVE  /\ PartInv' /\ RootInv' /\ QuietInv' /\ EmptyInv' /\ FactInv'
         /\ Present' = Present
         /\ \A c : Linked(c) <=> Linked(c)'
<1>1. PartInv /\ RootInv /\ QuietInv /\ EmptyInv /\ FactInv
  BY DEF IInv
<1>2. PartInv'
  BY <1>1 DEF PartInv, Present, Linked, Busy, nodeVars
<1>3. RootInv'
  BY <1>1 DEF RootInv, NoWriters, Present, nodeVars
<1>4. QuietInv' /\ EmptyInv' /\ FactInv'
  BY <1>1 DEF QuietInv, Closed, EmptyInv, FactInv, Present, nodeVars, Busy
<1> QED
  BY <1>2, <1>3, <1>4 DEF Present, Linked, nodeVars

\* The traversal of the partitions does not concern the walk, and the other way round.
LEMMA OtherTraversal ==
  /\ phase' # 3 => WalkInv'
  /\ phase' \notin {1, 2, 4, 5} => DfsInv'
  BY DEF WalkInv, DfsInv

\* What DfsInv says during a traversal.
LEMMA DfsFacts ==
  ASSUME DfsInv, phase \in {1, 2, 4, 5}, ~(raced /\ phase = 4 /\ stack = <<>>)
  PROVE  /\ \A c \in visited : ~IsRoot(c) /\ Group[c] = Current
         /\ \A i \in Depths : i > 1 => stack[i].n \in visited
         /\ \A i, j \in Depths : stack[i].n = stack[j].n => i = j
         /\ \A c \in visited : c \in Present => OnStack(c)
         /\ \A c \in visited : Past(Parent[c]) \/ (Parent[c] \notin Present /\ (IsRoot(Parent[c]) \/ Parent[c] \in visited))
         /\ \A i \in Depths : stack[i].at \in {"prepare", "wait", "status"} => \A c \in visited : Parent[c] # stack[i].n
         /\ stack = <<>> => \A r \in Nodes : IsRoot(r) /\ Group[r] = Current => r \notin Present
         /\ \A i \in Depths : FrameInv(i)
  BY DEF DfsInv

\* What the frame of a partition says of it.
LEMMA FrameInvFacts ==
  ASSUME NEW i \in Depths, FrameInv(i)
  PROVE  /\ stack[i].at # "prepare" => stack[i].n \in fenced
         /\ stack[i].at \in {"status", "targets", "promotions", "destroy"} => ~Busy(stack[i].n)
         /\ stack[i].at = "promotions" \/ (stack[i].at = "targets" /\ Kind[stack[i].n] = "split") =>
              \A c \in Present : Parent[c] = stack[i].n => c \in stack[i].todo \/ (i < Len(stack) /\ stack[i + 1].n = c)
         /\ stack[i].at = "destroy" => \A c \in Nodes : Parent[c] = stack[i].n => c \notin Present /\ c \notin promoted
  BY DEF FrameInv, Busy

\* The last frame moves on: nothing changes for the others.
LEMMA StepDfs ==
  ASSUME TypeOK, DfsInv, phase \in {1, 2, 4, 5}, phase' = phase, visited' = visited, Present' = Present,
         fenced' = fenced, init' = init, promoted' \subseteq promoted,
         stack # <<>>, stack' # <<>>, Depths' = Depths, Len(stack') = Len(stack), NEW at,
         \A i \in Depths : stack'[i].n = stack[i].n /\ (i # Len(stack) => stack'[i] = stack[i]),
         stack'[Len(stack)].at = at,
         at \in {"prepare", "wait", "status"} => Top.at \in {"prepare", "wait", "status"},
         Top.at \in {"targets", "promotions", "destroy"} => at \in {"targets", "promotions", "destroy"},
         FrameInv(Len(stack))'
  PROVE  DfsInv'
<1>1. /\ \A c \in visited : ~IsRoot(c) /\ Group[c] = Current
      /\ \A i \in Depths : i > 1 => stack[i].n \in visited
      /\ \A i, j \in Depths : stack[i].n = stack[j].n => i = j
      /\ \A c \in visited : c \in Present => OnStack(c)
      /\ \A c \in visited : Past(Parent[c]) \/ (Parent[c] \notin Present /\ (IsRoot(Parent[c]) \/ Parent[c] \in visited))
      /\ \A i \in Depths : stack[i].at \in {"prepare", "wait", "status"} => \A c \in visited : Parent[c] # stack[i].n
      /\ \A i \in Depths : FrameInv(i)
  BY DfsFacts
<1>2. Len(stack) \in Depths /\ Top = stack[Len(stack)] /\ Current' = Current /\ \A i \in Depths : i \in Nat
  BY DEF TypeOK, Depths, Top, Current
<1>3. \A n : OnStack(n) => OnStack(n)'
  BY DEF OnStack
<1>4. \A n : Past(n) => Past(n)'
  BY <1>2 DEF Past
<1>5. \A i \in Depths : stack'[i].at \in {"prepare", "wait", "status"} => \A c \in visited : Parent[c] # stack'[i].n
  BY <1>1, <1>2
<1>6. ASSUME NEW i \in Depths PROVE FrameInv(i)'
  <2>1. CASE i = Len(stack)
    BY <2>1
  <2>2. CASE i # Len(stack)
    <3>1. i < Len(stack) /\ i + 1 \in Depths
      BY <2>2 DEF Depths, TypeOK
    <3>2. stack'[i] = stack[i] /\ stack'[i + 1].n = stack[i + 1].n
      BY <2>2, <3>1
    <3>3. FrameInv(i)
      BY <1>1
    <3> QED
      BY <3>1, <3>2, <3>3, <1>1 DEF FrameInv, Busy
  <2> QED
    BY <2>1, <2>2
<1> QED
  BY <1>1, <1>2, <1>3, <1>4, <1>5, <1>6 DEF DfsInv

\* fokosPrepareDestroy fences a partition of the traversal.
LEMMA PrepareStep ==
  ASSUME IInv, Prepare
  PROVE  IInv'
<1>1. TypeOK /\ PartInv /\ RootInv /\ StackInv /\ DfsInv /\ QuietInv /\ EmptyInv /\ FactInv
  BY DEF IInv
<1>2. At("prepare") /\ Prepared(Top.n) /\ Step("wait", {}) /\ "prepare" \in DfsAts /\ "wait" \in DfsAts
  BY DEF Prepare, DfsAts
<1>3. PICK n \in Nodes : n = Top.n
  BY <1>1, <1>2, TopFacts
<1>4. /\ stack # <<>> /\ Len(stack) \in Depths /\ Len(stack) \in Nat /\ Top = stack[Len(stack)] /\ Top.at = "prepare"
      /\ Group[n] = Current /\ phase \in {1, 2, 4, 5}
      /\ IsRoot(n) <=> Len(stack) = 1
      /\ ~IsRoot(n) => Linked(n)
  BY <1>1, <1>2, <1>3, TopFacts
<1>5. /\ fenced' = fenced \cup {n}
      /\ alive' = IF IsRoot(n) THEN alive \cup {n} ELSE alive
      /\ UNCHANGED <<rep, init, import, work, targets, facts, promoted, visited, found, resets, phase, fails, faults, raced>>
  BY <1>2, <1>3 DEF Prepared, IsRoot
<1>6. \A c : Linked(c) => Linked(c)'
  BY <1>5 DEF Linked
<1>7. Present' = Present \cup {n}
  BY <1>5 DEF Present
<1>8. /\ StackInv' /\ stack' \in Seq(Frames) /\ stack' # <<>> /\ Len(stack') = Len(stack) /\ Depths' = Depths
      /\ \A i \in Depths : stack'[i].n = stack[i].n /\ (i # Len(stack) => stack'[i] = stack[i])
      /\ stack'[Len(stack)].at = "wait"
  BY <1>1, <1>2, <1>4, <1>5, <1>6, StepStack
<1>9. TypeOK'
  BY <1>1, <1>5, <1>8 DEF TypeOK
<1>10. PartInv'
  <2>1. (\A m \in Nodes : Busy(m)' => m \in alive' /\ rep'[m] = "planned") /\ \A m \in Nodes : IsRoot(m) => init'[m] = "pending"
    BY <1>1, <1>5 DEF PartInv, Busy
  <2>2. \A c \in Present' : ~IsRoot(c) => Linked(c)'
    BY <1>1, <1>4, <1>6, <1>7 DEF PartInv
  <2>3. \A r \in fenced' : IsRoot(r) => r \in alive'
    BY <1>1, <1>5 DEF PartInv
  <2>4. work' \subseteq alive' /\ targets' \subseteq alive' /\ \A m \in targets' : Group[m] = "m"
    BY <1>1, <1>5 DEF PartInv
  <2>5. \A c \in promoted' : ~IsRoot(c) /\ Parent[c] \in alive' /\ rep'[Parent[c]] = "completed" /\ Kind[Parent[c]] = "promotion"
    BY <1>1, <1>5 DEF PartInv
  <2> QED
    BY <2>1, <2>2, <2>3, <2>4, <2>5 DEF PartInv
<1>11. RootInv'
  <2> SUFFICES ASSUME NEW r \in Nodes, IsRoot(r), Group[r] = "m"
               PROVE  \/ r \in alive' /\ r \in targets'
                      \/ NoWriters' /\ (phase' \in 1 .. 4 => ~found')
    BY DEF RootInv
  <2>1. CASE r \in alive /\ r \in targets
    BY <2>1, <1>5
  <2>2. CASE NoWriters /\ (phase \in 1 .. 4 => ~found)
    <3>1. phase # 4
      BY <2>2, <1>1 DEF FactInv
    <3>2. Group[n] # "g"
      BY <3>1, <1>4, OrderFacts DEF Current
    <3>3. NoWriters'
      BY <2>2, <3>2, <1>5, <1>7 DEF NoWriters
    <3> QED
      BY <2>2, <3>3, <1>5
  <2> QED
    BY <2>1, <2>2, <1>1 DEF RootInv
<1>12. DfsInv'
  <2>1. /\ \A c \in visited : ~IsRoot(c) /\ Group[c] = Current
        /\ \A i \in Depths : i > 1 => stack[i].n \in visited
        /\ \A i, j \in Depths : stack[i].n = stack[j].n => i = j
        /\ \A c \in visited : c \in Present => OnStack(c)
        /\ \A c \in visited : Past(Parent[c]) \/ (Parent[c] \notin Present /\ (IsRoot(Parent[c]) \/ Parent[c] \in visited))
        /\ \A i \in Depths : stack[i].at \in {"prepare", "wait", "status"} => \A c \in visited : Parent[c] # stack[i].n
        /\ \A i \in Depths : FrameInv(i)
    BY <1>1, <1>4, DfsFacts
  <2>2. \A m : OnStack(m) => OnStack(m)'
    BY <1>8 DEF OnStack
  <2>3. \A m : Past(m) => Past(m)'
    BY <1>4, <1>8 DEF Past
  <2>4. OnStack(n)
    BY <1>3, <1>4 DEF OnStack
  <2>5. \A c \in visited : c \in Present' => OnStack(c)'
    BY <2>1, <2>2, <2>4, <1>7
  <2>6. \A c \in visited : Parent[c] # n
    BY <2>1, <1>3, <1>4
  <2>7. \A c \in visited : Past(Parent[c])' \/ (Parent[c] \notin Present' /\ (IsRoot(Parent[c]) \/ Parent[c] \in visited))
    BY <2>1, <2>3, <2>6, <1>7
  <2>8. \A i \in Depths : stack'[i].at \in {"prepare", "wait", "status"} => \A c \in visited : Parent[c] # stack'[i].n
    BY <2>1, <1>4, <1>8
  <2>9. ASSUME NEW i \in Depths PROVE FrameInv(i)'
    <3>1. FrameInv(i)
      BY <2>1
    <3>2. CASE i = Len(stack)
      BY <3>2, <1>3, <1>4, <1>5, <1>8 DEF FrameInv, Busy
    <3>3. CASE i # Len(stack)
      <4>1. i < Len(stack) /\ i + 1 \in Depths /\ i \in Nat
        BY <3>3, <1>4 DEF Depths
      <4>2. stack'[i] = stack[i] /\ stack'[i + 1].n = stack[i + 1].n
        BY <3>3, <4>1, <1>8
      <4>3. Parent[n] = stack[i].n => stack[i + 1].n = n
        <5>1. SUFFICES ASSUME Parent[n] = stack[i].n PROVE stack[i + 1].n = n
          OBVIOUS
        <5>2. Len(stack) > 1 /\ Len(stack) - 1 \in Depths
          BY <4>1, <1>4 DEF Depths
        <5>3. Parent[n] = stack[Len(stack) - 1].n
          BY <5>2, <1>1, <1>3, <1>4 DEF StackInv
        <5>4. i = Len(stack) - 1
          BY <5>1, <5>2, <5>3, <2>1
        <5>5. i + 1 = Len(stack)
          BY <5>4, <1>4
        <5> QED
          BY <5>5, <1>3, <1>4
      <4>4. stack[i].at # "destroy"
        BY <3>3, <4>1, <1>1 DEF StackInv
      <4> QED
        BY <3>1, <4>1, <4>2, <4>3, <4>4, <1>5, <1>7, <1>8 DEF FrameInv, Busy
    <3> QED
      BY <3>2, <3>3
  <2>10. Current' = Current
    BY <1>5 DEF Current
  <2> QED
    BY <2>1, <2>5, <2>7, <2>8, <2>9, <2>10, <1>5, <1>8 DEF DfsInv
<1>13. QuietInv'
  <2>1. \A m : Closed(m) => Closed(m)'
    BY <1>5 DEF Closed, Busy
  <2>2. Closed(n)' \/ Busy(n)
    BY <1>5 DEF Closed, Busy
  <2>3. ASSUME phase \in {4, 5}, ~raced, NEW m \in alive', Group[m] = "m" PROVE Closed(m)'
    <3>1. m \in alive \/ m = n
      BY <1>5
    <3>2. m \in Nodes /\ (Busy(m) => m \in alive)
      BY <1>1, <1>9 DEF PartInv, TypeOK
    <3> QED
      BY <2>1, <2>2, <2>3, <3>1, <3>2, <1>1 DEF QuietInv
  <2> QED
    BY <2>3, <1>5 DEF QuietInv
<1>14. EmptyInv'
  <2>1. ASSUME NEW i \in 1 .. phase - 1 PROVE Group[n] # Order[i]
    BY <1>4, OrderFacts DEF Current
  <2> QED
    BY <2>1, <1>1, <1>5, <1>7 DEF EmptyInv
<1>15. FactInv'
  BY <1>1, <1>5 DEF FactInv
<1>16. WalkInv'
  BY <1>4, <1>5, OtherTraversal
<1> QED
  BY <1>8, <1>9, <1>10, <1>11, <1>12, <1>13, <1>14, <1>15, <1>16 DEF IInv

\* It answers after the pass in flight.
LEMMA PrepareEndsStep ==
  ASSUME IInv, PrepareEnds
  PROVE  IInv'
<1>1. TypeOK /\ StackInv /\ DfsInv
  BY DEF IInv
<1>2. /\ At("wait") /\ ~Busy(Top.n) /\ Step("status", {}) /\ "wait" \in DfsAts /\ "status" \in DfsAts
      /\ UNCHANGED <<nodeVars, phase, visited, found, resets, fails, faults, raced>>
  BY DEF PrepareEnds, DfsAts
<1>3. /\ stack # <<>> /\ Len(stack) \in Depths /\ Top = stack[Len(stack)] /\ Top.at = "wait" /\ phase \in {1, 2, 4, 5}
  BY <1>1, <1>2, TopFacts
<1>4. /\ PartInv' /\ RootInv' /\ QuietInv' /\ EmptyInv' /\ FactInv' /\ Present' = Present /\ \A c : Linked(c) => Linked(c)'
  BY <1>2, SameStorage
<1>5. /\ StackInv' /\ stack' \in Seq(Frames) /\ stack' # <<>> /\ Len(stack') = Len(stack) /\ Depths' = Depths
      /\ \A i \in Depths : stack'[i].n = stack[i].n /\ (i # Len(stack) => stack'[i] = stack[i])
      /\ stack'[Len(stack)].at = "status"
  BY <1>1, <1>2, <1>3, <1>4, StepStack
<1>6. FrameInv(Len(stack))'
  <2>1. stack[Len(stack)].n \in fenced
    BY <1>1, <1>3, DfsFacts, FrameInvFacts
  <2> QED
    BY <2>1, <1>2, <1>3, <1>5 DEF FrameInv, nodeVars, Busy
<1>7. DfsInv'
  BY <1>1, <1>2, <1>3, <1>4, <1>5, <1>6, StepDfs DEF nodeVars
<1>8. TypeOK'
  BY <1>1, <1>2, <1>5 DEF TypeOK, nodeVars
<1>9. WalkInv'
  BY <1>2, <1>3, OtherTraversal
<1> QED
  BY <1>4, <1>5, <1>7, <1>8, <1>9 DEF IInv

\* fokosStatus: the split targets.
LEMMA ReadStatusStep ==
  ASSUME IInv, ReadStatus
  PROVE  IInv'
<1>1. TypeOK /\ StackInv /\ DfsInv /\ PartInv
  BY DEF IInv
<1>2. /\ At("status") /\ Step("targets", Links(Top.n, "split")) /\ "status" \in DfsAts /\ "targets" \in DfsAts
      /\ UNCHANGED <<nodeVars, phase, visited, found, resets, fails, faults, raced>>
  BY DEF ReadStatus, DfsAts
<1>3. /\ stack # <<>> /\ Len(stack) \in Depths /\ Top = stack[Len(stack)] /\ Top.at = "status" /\ phase \in {1, 2, 4, 5}
      /\ Top.n \in Nodes
  BY <1>1, <1>2, TopFacts
<1>4. /\ PartInv' /\ RootInv' /\ QuietInv' /\ EmptyInv' /\ FactInv' /\ Present' = Present /\ \A c : Linked(c) <=> Linked(c)'
  BY <1>2, SameStorage
<1>5. PICK todo : todo = Links(Top.n, "split")
  OBVIOUS
<1>6. /\ todo \in SUBSET Nodes
      /\ \A c \in todo : Parent[c] = Top.n /\ Linked(c)
      /\ Kind[Top.n] = "split" => \A c \in Nodes : Parent[c] = Top.n /\ Linked(c) => c \in todo
  BY <1>5 DEF Links, Children, Linked
<1>7. /\ StackInv' /\ stack' \in Seq(Frames) /\ stack' # <<>> /\ Len(stack') = Len(stack) /\ Depths' = Depths
      /\ \A i \in Depths : stack'[i].n = stack[i].n /\ (i # Len(stack) => stack'[i] = stack[i])
      /\ stack'[Len(stack)].at = "targets" /\ stack'[Len(stack)].todo = todo
  BY <1>1, <1>2, <1>3, <1>4, <1>5, <1>6, StepStack
<1>8. FrameInv(Len(stack))'
  <2>1. stack[Len(stack)].n \in fenced /\ ~Busy(stack[Len(stack)].n)
    BY <1>1, <1>3, DfsFacts, FrameInvFacts
  <2>2. ASSUME Kind[Top.n] = "split", NEW c \in Present, Parent[c] = Top.n PROVE c \in todo
    <3>1. c \in Nodes /\ ~IsRoot(c)
      BY <2>2, <1>1, <1>3, TreeIsValid DEF IsRoot, Present, TypeOK
    <3> QED
      BY <2>2, <3>1, <1>1, <1>6 DEF PartInv
  <2> QED
    BY <2>1, <2>2, <1>2, <1>3, <1>4, <1>7 DEF FrameInv, nodeVars, Busy
<1>9. DfsInv'
  BY <1>1, <1>2, <1>3, <1>4, <1>7, <1>8, StepDfs DEF nodeVars
<1>10. TypeOK'
  BY <1>1, <1>2, <1>7 DEF TypeOK, nodeVars
<1>11. WalkInv'
  BY <1>2, <1>3, OtherTraversal
<1> QED
  BY <1>4, <1>7, <1>9, <1>10, <1>11 DEF IInv

\* The promotion targets.
LEMMA ReadPromotionsStep ==
  ASSUME IInv, ReadPromotions
  PROVE  IInv'
<1>1. TypeOK /\ StackInv /\ DfsInv /\ PartInv
  BY DEF IInv
<1>2. /\ At("targets") /\ Top.todo = {} /\ Step("promotions", Links(Top.n, "promotion"))
      /\ "targets" \in DfsAts /\ "promotions" \in DfsAts
      /\ UNCHANGED <<nodeVars, phase, visited, found, resets, fails, faults, raced>>
  BY DEF ReadPromotions, DfsAts
<1>3. /\ stack # <<>> /\ Len(stack) \in Depths /\ Top = stack[Len(stack)] /\ Top.at = "targets" /\ phase \in {1, 2, 4, 5}
      /\ Top.n \in Nodes
  BY <1>1, <1>2, TopFacts
<1>4. /\ PartInv' /\ RootInv' /\ QuietInv' /\ EmptyInv' /\ FactInv' /\ Present' = Present /\ \A c : Linked(c) <=> Linked(c)'
  BY <1>2, SameStorage
<1>5. PICK todo : todo = Links(Top.n, "promotion")
  OBVIOUS
<1>6. /\ todo \in SUBSET Nodes
      /\ \A c \in todo : Parent[c] = Top.n /\ Linked(c)
      /\ Kind[Top.n] = "promotion" => \A c \in Nodes : Parent[c] = Top.n /\ Linked(c) => c \in todo
  BY <1>5 DEF Links, Children, Linked
<1>7. /\ StackInv' /\ stack' \in Seq(Frames) /\ stack' # <<>> /\ Len(stack') = Len(stack) /\ Depths' = Depths
      /\ \A i \in Depths : stack'[i].n = stack[i].n /\ (i # Len(stack) => stack'[i] = stack[i])
      /\ stack'[Len(stack)].at = "promotions" /\ stack'[Len(stack)].todo = todo
  BY <1>1, <1>2, <1>3, <1>4, <1>5, <1>6, StepStack
<1>8. FrameInv(Len(stack))'
  <2>1. FrameInv(Len(stack))
    BY <1>1, <1>3, DfsFacts
  <2>2. stack[Len(stack)].n \in fenced /\ ~Busy(stack[Len(stack)].n)
    BY <2>1, <1>3, FrameInvFacts
  <2>3. ~(Len(stack) < Len(stack))
    BY <1>1 DEF TypeOK
  <2>4. Kind[Top.n] = "split" => \A c \in Present : Parent[c] # Top.n
    BY <2>1, <2>3, <1>2, <1>3, FrameInvFacts
  <2>5. Kind[Top.n] \in {"split", "promotion"}
    BY <1>3, TreeIsValid
  <2>6. ASSUME NEW c \in Present, Parent[c] = Top.n PROVE c \in todo
    <3>1. c \in Nodes /\ ~IsRoot(c)
      BY <2>6, <1>1, <1>3, TreeIsValid DEF IsRoot, Present, TypeOK
    <3> QED
      BY <2>4, <2>5, <2>6, <3>1, <1>1, <1>6 DEF PartInv
  <2> QED
    BY <2>2, <2>6, <1>2, <1>3, <1>4, <1>7 DEF FrameInv, nodeVars, Busy
<1>9. DfsInv'
  BY <1>1, <1>2, <1>3, <1>4, <1>7, <1>8, StepDfs DEF nodeVars
<1>10. TypeOK'
  BY <1>1, <1>2, <1>7 DEF TypeOK, nodeVars
<1>11. WalkInv'
  BY <1>2, <1>3, OtherTraversal
<1> QED
  BY <1>4, <1>7, <1>9, <1>10, <1>11 DEF IInv

\* The admins of the promoted routingHashes are reset before the partition is destroyed.
LEMMA ResetPromotedStep ==
  ASSUME IInv, ResetPromoted
  PROVE  IInv'
<1>1. TypeOK /\ StackInv /\ DfsInv /\ PartInv /\ RootInv /\ QuietInv /\ EmptyInv /\ FactInv
  BY DEF IInv
<1>2. /\ At("promotions") /\ Top.todo = {} /\ Step("destroy", {}) /\ "promotions" \in DfsAts /\ "destroy" \in DfsAts
      /\ promoted' = promoted \ Links(Top.n, "promotion")
      /\ UNCHANGED <<alive, fenced, rep, init, import, work, targets, facts, phase, visited, found, resets, fails, faults, raced>>
  BY DEF ResetPromoted, DfsAts
<1>3. /\ stack # <<>> /\ Len(stack) \in Depths /\ Top = stack[Len(stack)] /\ Top.at = "promotions" /\ phase \in {1, 2, 4, 5}
      /\ Top.n \in Nodes
  BY <1>1, <1>2, TopFacts
<1>4. Present' = Present /\ \A c : Linked(c) <=> Linked(c)'
  BY <1>2 DEF Present, Linked
<1>5. PartInv' /\ RootInv' /\ QuietInv' /\ EmptyInv' /\ FactInv'
  <2>1. PartInv'
    BY <1>1, <1>2, <1>4 DEF PartInv, Busy
  <2>2. RootInv'
    BY <1>1, <1>2, <1>4 DEF RootInv, NoWriters
  <2>3. QuietInv' /\ EmptyInv' /\ FactInv'
    BY <1>1, <1>2, <1>4 DEF QuietInv, Closed, EmptyInv, FactInv, Busy
  <2> QED
    BY <2>1, <2>2, <2>3
<1>6. /\ StackInv' /\ stack' \in Seq(Frames) /\ stack' # <<>> /\ Len(stack') = Len(stack) /\ Depths' = Depths
      /\ \A i \in Depths : stack'[i].n = stack[i].n /\ (i # Len(stack) => stack'[i] = stack[i])
      /\ stack'[Len(stack)].at = "destroy"
  BY <1>1, <1>2, <1>3, <1>4, StepStack
<1>7. FrameInv(Len(stack))'
  <2>1. FrameInv(Len(stack))
    BY <1>1, <1>3, DfsFacts
  <2>2. stack[Len(stack)].n \in fenced /\ ~Busy(stack[Len(stack)].n)
    BY <2>1, <1>3, FrameInvFacts
  <2>3. ~(Len(stack) < Len(stack))
    BY <1>1 DEF TypeOK
  <2>4. \A c \in Present : Parent[c] # Top.n
    BY <2>1, <2>3, <1>2, <1>3, FrameInvFacts
  <2>5. ASSUME NEW c \in Nodes, Parent[c] = Top.n PROVE c \notin promoted'
    BY <2>5, <1>1, <1>2 DEF PartInv, Links, Children
  <2> QED
    BY <2>2, <2>4, <2>5, <1>2, <1>3, <1>4, <1>6 DEF FrameInv, Busy
<1>8. DfsInv'
  BY <1>1, <1>2, <1>3, <1>4, <1>6, <1>7, StepDfs
<1>9. TypeOK'
  BY <1>1, <1>2, <1>6 DEF TypeOK
<1>10. WalkInv'
  BY <1>2, <1>3, OtherTraversal
<1> QED
  BY <1>5, <1>6, <1>8, <1>9, <1>10 DEF IInv

\* A target of the last frame is nowhere on the stack.
LEMMA TargetOffStack ==
  ASSUME TypeOK, StackInv, stack # <<>>, NEW c \in Nodes, Parent[c] = Top.n,
         \A i, j \in Depths : stack[i].n = stack[j].n => i = j
  PROVE  ~OnStack(c)
<1> SUFFICES ASSUME NEW i \in Depths, stack[i].n = c PROVE FALSE
  BY DEF OnStack
<1>1. Len(stack) \in Depths /\ Top = stack[Len(stack)] /\ Len(stack) \in Nat /\ 1 \in Depths
  BY DEF TypeOK, Depths, Top
<1>2. ~IsRoot(c)
  BY <1>1, FrameFacts, TreeIsValid DEF IsRoot
<1>3. i > 1 /\ i - 1 \in Depths
  <2>1. i # 1
    BY <1>1, <1>2 DEF StackInv
  <2> QED
    BY <2>1, <1>1 DEF Depths
<1>4. Parent[c] = stack[i - 1].n
  BY <1>3 DEF StackInv
<1>5. i - 1 = Len(stack)
  BY <1>1, <1>3, <1>4
<1> QED
  BY <1>1, <1>5 DEF Depths

\* The traversal goes on to the next target.
LEMMA VisitTargetStep ==
  ASSUME IInv, VisitTarget
  PROVE  IInv'
<1>1. TypeOK /\ StackInv /\ DfsInv /\ PartInv
  BY DEF IInv
<1>2. /\ At("targets") \/ At("promotions")
      /\ "targets" \in DfsAts /\ "promotions" \in DfsAts /\ "prepare" \in DfsAts
      /\ UNCHANGED <<nodeVars, phase, found, resets, fails, faults, raced>>
  BY DEF VisitTarget, DfsAts
<1>3. PICK c \in Top.todo : Visit(c, "prepare")
  BY DEF VisitTarget
<1>4. /\ stack # <<>> /\ Len(stack) \in Depths /\ Len(stack) \in Nat /\ Top = stack[Len(stack)]
      /\ Top.at \in {"targets", "promotions"} /\ phase \in {1, 2, 4, 5}
      /\ Top.n \in Nodes /\ Top \in Frames /\ Group[Top.n] = Current /\ stack \in Seq(Frames)
  BY <1>1, <1>2, TopFacts
<1>5. /\ PartInv' /\ RootInv' /\ QuietInv' /\ EmptyInv' /\ FactInv' /\ Present' = Present /\ \A d : Linked(d) <=> Linked(d)'
  BY <1>2, SameStorage
<1>6. c \in Nodes /\ Parent[c] = Top.n /\ ~IsRoot(c) /\ Group[c] = Current
  BY <1>1, <1>3, <1>4, FrameFacts, ParentFacts
<1>7. /\ \A d \in visited : ~IsRoot(d) /\ Group[d] = Current
      /\ \A i \in Depths : i > 1 => stack[i].n \in visited
      /\ \A i, j \in Depths : stack[i].n = stack[j].n => i = j
      /\ \A d \in visited : d \in Present => OnStack(d)
      /\ \A d \in visited : Past(Parent[d]) \/ (Parent[d] \notin Present /\ (IsRoot(Parent[d]) \/ Parent[d] \in visited))
      /\ \A i \in Depths : stack[i].at \in {"prepare", "wait", "status"} => \A d \in visited : Parent[d] # stack[i].n
      /\ \A i \in Depths : FrameInv(i)
  BY <1>1, <1>4, DfsFacts
<1>8. ~OnStack(c)
  BY <1>1, <1>4, <1>6, <1>7, TargetOffStack
<1>9. WalkInv'
  BY <1>2, <1>4, OtherTraversal
<1>10. CASE c \in visited
  <2>1. visited' = visited
    BY <1>3, <1>10 DEF Visit
  <2>2. Step(Top.at, Top.todo \ {c})
    <3>1. stack' = [stack EXCEPT ![Len(stack)].todo = @ \ {c}]
      BY <1>3, <1>10 DEF Visit
    <3>2. PICK f : f = stack[Len(stack)]
      OBVIOUS
    <3>3. [f EXCEPT !.todo = f.todo \ {c}] = [f EXCEPT !.at = f.at, !.todo = f.todo \ {c}]
      BY <3>2, <1>4 DEF Frames
    <3> QED
      BY <3>1, <3>2, <3>3, <1>4, Zenon DEF Step
  <2>3. PICK todo, at : todo = Top.todo \ {c} /\ at = Top.at
    OBVIOUS
  <2>4. /\ todo \in SUBSET Nodes /\ at \in DfsAts /\ at \in {"targets", "promotions"}
        /\ \A d \in todo : Parent[d] = Top.n /\ Linked(d)
        /\ Step(at, todo)
    BY <2>2, <2>3, <1>1, <1>2, <1>4 DEF StackInv, Frames
  <2>5. /\ StackInv' /\ stack' \in Seq(Frames) /\ stack' # <<>> /\ Len(stack') = Len(stack) /\ Depths' = Depths
        /\ \A i \in Depths : stack'[i].n = stack[i].n /\ (i # Len(stack) => stack'[i] = stack[i])
        /\ stack'[Len(stack)].at = at /\ stack'[Len(stack)].todo = todo
    BY <2>4, <1>1, <1>2, <1>4, <1>5, StepStack
  <2>6. FrameInv(Len(stack))'
    <3>1. FrameInv(Len(stack))
      BY <1>4, <1>7
    <3>2. stack[Len(stack)].n \in fenced /\ ~Busy(stack[Len(stack)].n)
      BY <3>1, <1>4, FrameInvFacts
    <3>3. ~(Len(stack) < Len(stack))
      BY <1>4
    <3>4. c \notin Present
      BY <1>7, <1>8, <1>10
    <3>5. at = "promotions" \/ (at = "targets" /\ Kind[Top.n] = "split") => \A d \in Present : Parent[d] = Top.n => d \in todo
      BY <3>1, <3>3, <3>4, <2>3, <1>4, FrameInvFacts
    <3> QED
      BY <3>2, <3>5, <2>4, <2>5, <1>2, <1>4, <1>5 DEF FrameInv, nodeVars, Busy
  <2>7. DfsInv'
    BY <2>1, <2>4, <2>5, <2>6, <1>1, <1>2, <1>4, <1>5, StepDfs DEF nodeVars
  <2>8. TypeOK'
    BY <2>1, <2>5, <1>1, <1>2 DEF TypeOK, nodeVars
  <2> QED
    BY <2>5, <2>7, <2>8, <1>5, <1>9 DEF IInv
<1>11. CASE c \notin visited
  <2>1. visited' = visited \cup {c} /\ Extended(stack, stack', c, "prepare")
    BY <1>3, <1>11 DEF Visit, Extended
  <2>2. /\ StackInv' /\ stack' \in Seq(Frames) /\ stack' # <<>> /\ Len(stack') = Len(stack) + 1
        /\ Depths' = Depths \cup {Len(stack) + 1} /\ Len(stack) + 1 \notin Depths
        /\ \A i \in Depths : stack'[i].n = stack[i].n /\ stack'[i].at = stack[i].at /\ (i # Len(stack) => stack'[i] = stack[i])
        /\ stack'[Len(stack)].todo = Top.todo \ {c}
        /\ stack'[Len(stack) + 1].n = c /\ stack'[Len(stack) + 1].at = "prepare"
    BY <2>1, <1>1, <1>2, <1>3, <1>4, PushStack
  <2>3. TypeOK'
    BY <2>1, <2>2, <1>1, <1>2, <1>6 DEF TypeOK, nodeVars
  <2>4. PICK k : k = Len(stack) + 1
    OBVIOUS
  <2>5. k \in Depths' /\ stack'[k].n = c /\ stack'[k].at = "prepare"
    BY <2>2, <2>4
  <2>6. \A d : OnStack(d) => OnStack(d)'
    BY <2>2 DEF OnStack
  <2>7. \A d : Past(d) => Past(d)'
    BY <2>2 DEF Past
  <2>8. OnStack(c)' /\ Past(Top.n)
    BY <2>5, <1>4 DEF OnStack, Past
  <2>9. \A d \in visited' : ~IsRoot(d) /\ Group[d] = Current
    BY <2>1, <1>6, <1>7
  <2>10. ASSUME NEW i \in Depths', i > 1 PROVE stack'[i].n \in visited'
    <3>1. CASE i \in Depths
      BY <3>1, <2>1, <2>2, <2>10, <1>7
    <3>2. CASE i = k
      BY <3>2, <2>1, <2>5
    <3> QED
      BY <3>1, <3>2, <2>2, <2>4
  <2>11. ASSUME NEW i \in Depths', NEW j \in Depths', stack'[i].n = stack'[j].n PROVE i = j
    <3>1. \A l \in Depths : stack[l].n # c /\ stack'[l].n = stack[l].n
      BY <2>2, <1>8 DEF OnStack
    <3>2. (i \in Depths \/ i = k) /\ (j \in Depths \/ j = k)
      BY <2>2, <2>4
    <3> QED
      BY <3>1, <3>2, <2>5, <2>11, <1>7
  <2>12. \A d \in visited' : d \in Present' => OnStack(d)'
    BY <2>1, <2>6, <2>8, <1>5, <1>7
  <2>13. \A d \in visited' : Past(Parent[d])' \/ (Parent[d] \notin Present' /\ (IsRoot(Parent[d]) \/ Parent[d] \in visited'))
    <3>1. ASSUME NEW d \in visited PROVE Past(Parent[d])' \/ (Parent[d] \notin Present' /\ (IsRoot(Parent[d]) \/ Parent[d] \in visited'))
      BY <2>1, <2>7, <1>5, <1>7
    <3>2. Past(Parent[c])'
      <4>1. PICK p : p = Parent[c]
        OBVIOUS
      <4>2. Past(p)
        BY <4>1, <2>8, <1>6
      <4>3. Past(p)'
        BY <4>2, <2>7
      <4> QED
        BY <4>1, <4>3
    <3> QED
      BY <3>1, <3>2, <2>1
  <2>14. ASSUME NEW i \in Depths', stack'[i].at \in {"prepare", "wait", "status"}, NEW d \in visited' PROVE Parent[d] # stack'[i].n
    <3>1. CASE i \in Depths
      <4>1. i # Len(stack)
        BY <3>1, <2>2, <2>14, <1>4
      <4>2. d \in visited => Parent[d] # stack'[i].n
        BY <3>1, <2>2, <2>14, <1>7
      <4>3. Parent[c] # stack'[i].n
        BY <3>1, <4>1, <2>2, <1>4, <1>6, <1>7
      <4> QED
        BY <4>2, <4>3, <2>1
    <3>2. CASE i = k
      <4>1. Parent[c] # c
        <5>1. OnStack(Top.n)
          BY <1>4 DEF OnStack
        <5> QED
          BY <5>1, <1>6, <1>8
      <4>2. d \in visited => Parent[d] # c
        <5>1. SUFFICES ASSUME d \in visited, Parent[d] = c PROVE FALSE
          OBVIOUS
        <5>2. Past(c) \/ IsRoot(c) \/ c \in visited
          BY <5>1, <1>7
        <5>3. Past(c) => OnStack(c)
          BY DEF Past, OnStack
        <5> QED
          BY <5>2, <5>3, <1>6, <1>8, <1>11
      <4> QED
        BY <3>2, <4>1, <4>2, <2>1, <2>5
    <3> QED
      BY <3>1, <3>2, <2>2, <2>4
  <2>15. ASSUME NEW i \in Depths' PROVE FrameInv(i)'
    <3>1. CASE i = k
      BY <3>1, <2>5 DEF FrameInv, Busy
    <3>2. CASE i = Len(stack)
      <4>1. FrameInv(i)
        BY <3>2, <1>4, <1>7
      <4>2. stack'[i].n = Top.n /\ stack'[i].at = Top.at /\ stack'[i].todo = Top.todo \ {c} /\ stack[i] = Top
        BY <3>2, <2>2, <1>4
      <4>3. Top.n \in fenced /\ ~Busy(Top.n)
        BY <3>2, <4>1, <1>4, FrameInvFacts
      <4>4. Top.at = "promotions" \/ (Top.at = "targets" /\ Kind[Top.n] = "split") =>
              \A d \in Present : Parent[d] = Top.n => d \in Top.todo
        <5>1. ~(i < Len(stack))
          BY <3>2, <1>4
        <5> QED
          BY <3>2, <4>1, <4>2, <5>1, <1>4, FrameInvFacts
      <4>5. i < Len(stack') /\ i + 1 = k
        BY <3>2, <2>2, <2>4, <1>4
      <4>6. stack'[i + 1].n = c
        BY <4>5, <2>5
      <4> QED
        BY <4>2, <4>3, <4>4, <4>5, <4>6, <1>2, <1>4, <1>5 DEF FrameInv, nodeVars, Busy
    <3>3. CASE i \in Depths /\ i # Len(stack)
      <4>1. FrameInv(i) /\ stack'[i] = stack[i]
        BY <3>3, <2>2, <1>7
      <4>2. i < Len(stack) /\ i + 1 \in Depths /\ i < Len(stack')
        BY <3>3, <2>2, <1>4 DEF Depths
      <4>3. stack'[i + 1].n = stack[i + 1].n
        BY <4>2, <2>2
      <4> QED
        BY <4>1, <4>2, <4>3, <1>2, <1>5 DEF FrameInv, nodeVars, Busy
    <3> QED
      BY <3>1, <3>2, <3>3, <2>2, <2>4
  <2>16. DfsInv'
    <3>1. Current' = Current
      BY <1>2 DEF Current
    <3> QED
      BY <3>1, <2>2, <2>9, <2>10, <2>11, <2>12, <2>13, <2>14, <2>15 DEF DfsInv
  <2> QED
    BY <2>2, <2>3, <2>16, <1>5, <1>9 DEF IInv
<1> QED
  BY <1>10, <1>11

\* A group without a root that is present is empty.
LEMMA EmptyGroup ==
  ASSUME TypeOK, PartInv, NEW g, \A r \in Nodes : IsRoot(r) /\ Group[r] = g => r \notin Present
  PROVE  \A n \in Present : Group[n] # g
<1> DEFINE S == {n \in Present : Group[n] = g}
<1>1. S \in SUBSET Nodes
  BY DEF Present, TypeOK
<1>2. ASSUME NEW n \in S PROVE Parent[n] \in S
  <2>1. n \in Nodes /\ ~IsRoot(n)
    BY <1>1
  <2>2. Parent[n] \in Present /\ Group[Parent[n]] = g
    BY <2>1, ParentFacts DEF PartInv, Linked, Present
  <2> QED
    BY <2>2
<1>3. S = {}
  BY <1>1, <1>2, NoOrphans
<1> QED
  BY <1>3

\* fokosDestroy deletes a partition whose targets are gone.
LEMMA DestroyPartitionStep ==
  ASSUME IInv, DestroyPartition
  PROVE  IInv'
<1>1. TypeOK /\ PartInv /\ RootInv /\ StackInv /\ DfsInv /\ QuietInv /\ EmptyInv /\ FactInv
  BY DEF IInv
<1>2. /\ At("destroy") /\ Wiped(Top.n) /\ Pop /\ "destroy" \in DfsAts
      /\ UNCHANGED <<facts, promoted, phase, visited, found, resets, fails, faults, raced>>
  BY DEF DestroyPartition, DfsAts
<1>3. PICK n \in Nodes : n = Top.n
  BY <1>1, <1>2, TopFacts
<1>4. /\ stack # <<>> /\ Len(stack) \in Depths /\ Len(stack) \in Nat /\ Top = stack[Len(stack)] /\ Top.at = "destroy"
      /\ Group[n] = Current /\ phase \in {1, 2, 4, 5}
      /\ IsRoot(n) <=> Len(stack) = 1
  BY <1>1, <1>2, <1>3, TopFacts
<1>5. /\ alive' = alive \ {n} /\ fenced' = fenced \ {n}
      /\ rep' = [rep EXCEPT ![n] = "none"] /\ import' = [import EXCEPT ![n] = "none"]
      /\ work' = work \ {n} /\ targets' = targets \ {n}
      /\ init' = [c \in Nodes |-> IF c \in Children(n) THEN "pending" ELSE init[c]]
  BY <1>2, <1>3 DEF Wiped
<1>6. \A m \in Nodes : rep'[m] = IF m = n THEN "none" ELSE rep[m]
  BY <1>1, <1>5 DEF TypeOK
<1>20. ASSUME NEW m \in Nodes, Busy(m)' PROVE Busy(m) /\ m # n
  <2>1. PICK c \in Children(m) : init'[c] \in {"sent", "done", "failed"}
    BY <1>20 DEF Busy
  <2>2. c \in Nodes /\ Parent[c] = m
    BY <2>1, ChildFacts
  <2>3. c \notin Children(n) /\ init'[c] = init[c]
    BY <2>1, <2>2, <1>5
  <2> QED
    BY <2>1, <2>2, <2>3 DEF Busy, Children
<1>7. Present' = Present \ {n}
  BY <1>5 DEF Present
<1>8. /\ \A c \in visited : ~IsRoot(c) /\ Group[c] = Current
      /\ \A i \in Depths : i > 1 => stack[i].n \in visited
      /\ \A i, j \in Depths : stack[i].n = stack[j].n => i = j
      /\ \A c \in visited : c \in Present => OnStack(c)
      /\ \A c \in visited : Past(Parent[c]) \/ (Parent[c] \notin Present /\ (IsRoot(Parent[c]) \/ Parent[c] \in visited))
      /\ \A i \in Depths : stack[i].at \in {"prepare", "wait", "status"} => \A c \in visited : Parent[c] # stack[i].n
      /\ \A i \in Depths : FrameInv(i)
  BY <1>1, <1>4, DfsFacts
<1>9. \A c \in Nodes : Parent[c] = n => c \notin Present /\ c \notin promoted
  BY <1>3, <1>4, <1>8, FrameInvFacts
<1>10. \A c \in Nodes : ~IsRoot(c) /\ Linked(c) /\ Parent[c] # n => Linked(c)'
  <2>1. ASSUME NEW c \in Nodes, ~IsRoot(c), Linked(c), Parent[c] # n PROVE Linked(c)'
    <3>1. Parent[c] \in Nodes
      BY <2>1, ParentFacts
    <3> QED
      BY <3>1, <2>1, <1>5, <1>6 DEF Linked
  <2> QED
    BY <2>1
<1>11. /\ StackInv' /\ stack' \in Seq(Frames) /\ Len(stack') = Len(stack) - 1
       /\ \A i \in Depths' : i \in Depths /\ i # Len(stack) /\ i < Len(stack) /\ stack'[i] = stack[i]
       /\ \A i \in Depths : i # Len(stack) => i \in Depths'
       /\ stack' = <<>> <=> Len(stack) = 1
  <2>1. ASSUME NEW i \in Depths, NEW c \in Nodes, i # Len(stack), Parent[c] = stack[i].n, Linked(c) PROVE Linked(c)'
    <3>1. Parent[c] # n
      BY <2>1, <1>3, <1>4, <1>8
    <3>2. ~IsRoot(c)
      BY <2>1, <1>1, FrameFacts, TreeIsValid DEF IsRoot
    <3> QED
      BY <2>1, <3>1, <3>2, <1>10
  <2> QED
    BY <2>1, <1>1, <1>2, <1>4, PopStack
<1>12. TypeOK'
  <2>1. rep' \in [Nodes -> States] /\ import' \in [Nodes -> ImportStates]
    BY <1>1, <1>5 DEF TypeOK, States, ImportStates
  <2>2. /\ alive' \in SUBSET Nodes /\ fenced' \in SUBSET Nodes /\ init' \in [Nodes -> InitStates]
        /\ work' \in SUBSET Nodes /\ targets' \in SUBSET Nodes
    BY <1>1, <1>5 DEF TypeOK, InitStates
  <2> QED
    BY <2>1, <2>2, <1>1, <1>2, <1>11 DEF TypeOK
<1>13. PartInv'
  <2>1. (\A m \in Nodes : Busy(m)' => m \in alive' /\ rep'[m] = "planned") /\ \A m \in Nodes : IsRoot(m) => init'[m] = "pending"
    BY <1>1, <1>5, <1>6, <1>20 DEF PartInv, TypeOK
  <2>2. \A c \in Present' : ~IsRoot(c) => Linked(c)'
    BY <1>1, <1>7, <1>9, <1>10 DEF PartInv, Present, TypeOK
  <2>3. \A r \in fenced' : IsRoot(r) => r \in alive'
    BY <1>1, <1>5 DEF PartInv
  <2>4. work' \subseteq alive' /\ targets' \subseteq alive' /\ \A m \in targets' : Group[m] = "m"
    BY <1>1, <1>5 DEF PartInv
  <2>5. \A c \in promoted' : ~IsRoot(c) /\ Parent[c] \in alive' /\ rep'[Parent[c]] = "completed" /\ Kind[Parent[c]] = "promotion"
    BY <1>1, <1>2, <1>5, <1>6, <1>9 DEF PartInv, TypeOK
  <2> QED
    BY <2>1, <2>2, <2>3, <2>4, <2>5 DEF PartInv
<1>14. EmptyInv'
  BY <1>1, <1>2, <1>7 DEF EmptyInv
<1>15. RootInv'
  <2> SUFFICES ASSUME NEW r \in Nodes, IsRoot(r), Group[r] = "m"
               PROVE  \/ r \in alive' /\ r \in targets'
                      \/ NoWriters' /\ (phase' \in 1 .. 4 => ~found')
    BY DEF RootInv
  <2>1. CASE r \in alive /\ r \in targets /\ r # n
    BY <2>1, <1>5
  <2>2. CASE NoWriters /\ (phase \in 1 .. 4 => ~found)
    BY <2>2, <1>2, <1>5, <1>7 DEF NoWriters
  <2>3. CASE r = n
    <3>1. phase = 5
      BY <2>3, <1>4, OrderFacts DEF Current
    <3>2. \A s \in Nodes : IsRoot(s) /\ Group[s] = "m" => s \notin Present'
      <4>1. \A s \in Nodes : IsRoot(s) /\ Group[s] = "m" => s = r
        BY GroupsAreTrees DEF IsRoot
      <4> QED
        BY <4>1, <2>3, <1>7
    <3>3. \A m \in Present' : Group[m] # "m"
      <4> DEFINE S == {m \in Present' : Group[m] = "m"}
      <4>1. S \in SUBSET Nodes
        BY <1>12 DEF Present, TypeOK
      <4>2. ASSUME NEW m \in S PROVE Parent[m] \in S
        <5>1. m \in Nodes /\ ~IsRoot(m)
          BY <4>1, <3>2
        <5>2. Parent[m] \in Present' /\ Group[Parent[m]] = "m"
          BY <5>1, <1>13, ParentFacts DEF PartInv, Linked, Present
        <5> QED
          BY <5>2
      <4>3. S = {}
        BY <4>1, <4>2, NoOrphans
      <4> QED
        BY <4>3
    <3>4. \A m \in Present' : Group[m] # "tc" /\ Group[m] # "p" /\ (Group[m] # "g" \/ raced')
      <4>1. 1 \in 1 .. phase' - 1 /\ 2 \in 1 .. phase' - 1 /\ 4 \in 1 .. phase' - 1
        BY <3>1, <1>2
      <4> QED
        BY <4>1, <1>14, OrderFacts DEF EmptyInv
    <3>5. \A m \in Present' : Group[m] = "g" /\ raced'
      BY <3>3, <3>4, <1>12, TreeIsValid DEF Present, TypeOK
    <3>6. NoWriters'
      BY <3>5, <1>13 DEF NoWriters, PartInv, Present
    <3> QED
      BY <3>1, <3>6, <1>2
  <2> QED
    BY <2>1, <2>2, <2>3, <1>1 DEF RootInv
<1>16. DfsInv'
  <2>1. Current' = Current
    BY <1>2 DEF Current
  <2>2. ASSUME NEW c \in visited, c \in Present' PROVE OnStack(c)'
    <3>1. PICK i \in Depths : stack[i].n = c
      BY <2>2, <1>7, <1>8 DEF OnStack
    <3>2. i # Len(stack)
      BY <3>1, <2>2, <1>3, <1>4, <1>7
    <3> QED
      BY <3>1, <3>2, <1>11 DEF OnStack
  <2>3. ASSUME NEW c \in visited
        PROVE  Past(Parent[c])' \/ (Parent[c] \notin Present' /\ (IsRoot(Parent[c]) \/ Parent[c] \in visited))
    <3>1. CASE Parent[c] = n
      <4>1. Len(stack) # 1 => n \in visited
        <5>1. Len(stack) # 1 => Len(stack) > 1
          BY <1>4, SeveralFrames DEF Depths
        <5>2. Len(stack) > 1 => stack[Len(stack)].n \in visited
          BY <1>4, <1>8
        <5> QED
          BY <5>1, <5>2, <1>3, <1>4
      <4> QED
        BY <3>1, <4>1, <1>4, <1>7
    <3>2. CASE Parent[c] # n /\ Past(Parent[c])
      <4>1. PICK i \in Depths : stack[i].n = Parent[c] /\ stack[i].at \in {"targets", "promotions", "destroy"}
        BY <3>2 DEF Past
      <4>2. i # Len(stack)
        BY <3>2, <4>1, <1>3, <1>4
      <4> QED
        BY <4>1, <4>2, <1>11 DEF Past
    <3>3. CASE Parent[c] \notin Present /\ (IsRoot(Parent[c]) \/ Parent[c] \in visited)
      BY <3>3, <1>7
    <3> QED
      BY <3>1, <3>2, <3>3, <1>8
  <2>4. stack' = <<>> => \A r \in Nodes : IsRoot(r) /\ Group[r] = Current => r \notin Present'
    <3>1. stack' = <<>> => IsRoot(n)
      BY <1>4, <1>11
    <3>2. \A r \in Nodes : IsRoot(r) /\ IsRoot(n) /\ Group[r] = Current => r = n
      BY <1>4, GroupsAreTrees DEF IsRoot
    <3> QED
      BY <3>1, <3>2, <1>7
  <2>5. ASSUME NEW i \in Depths' PROVE FrameInv(i)'
    <3>1. i \in Depths /\ i < Len(stack) /\ i # Len(stack) /\ stack'[i] = stack[i] /\ FrameInv(i) /\ i \in Nat
      BY <1>8, <1>11 DEF Depths
    <3>2. stack[i].n # n
      BY <3>1, <1>3, <1>4, <1>8
    <3>3. ASSUME NEW c \in Present', stack[i + 1].n = c PROVE i < Len(stack') /\ stack'[i + 1].n = c
      <4>1. i + 1 \in Depths
        BY <3>1, <1>4 DEF Depths
      <4>2. i + 1 # Len(stack)
        BY <3>3, <1>3, <1>4, <1>7
      <4>3. i + 1 \in Depths'
        BY <4>1, <4>2, <1>11
      <4> QED
        BY <4>3, <3>1, <3>3, <1>11 DEF Depths
    <3>4. /\ stack[i].at # "prepare" => stack[i].n \in fenced'
          /\ stack[i].at \in {"status", "targets", "promotions", "destroy"} => ~Busy(stack[i].n)'
      <4>1. PICK m \in Nodes : m = stack[i].n
        BY <3>1, <1>1, FrameFacts
      <4>2. m = stack'[i].n
        BY <4>1, <3>1
      <4> QED
        BY <4>1, <4>2, <3>1, <3>2, <1>5, <1>20, FrameInvFacts
    <3>5. stack[i].at = "promotions" \/ (stack[i].at = "targets" /\ Kind[stack[i].n] = "split") =>
            \A c \in Present' : Parent[c] = stack[i].n => c \in stack[i].todo \/ (i < Len(stack') /\ stack'[i + 1].n = c)
      BY <3>1, <3>3, <1>7, FrameInvFacts
    <3>6. stack[i].at = "destroy" => \A c \in Nodes : Parent[c] = stack[i].n => c \notin Present' /\ c \notin promoted'
      BY <3>1, <1>2, <1>7, FrameInvFacts
    <3> QED
      BY <3>1, <3>4, <3>5, <3>6 DEF FrameInv, Busy
  <2>6. \A i \in Depths' : i > 1 => stack'[i].n \in visited
    BY <1>8, <1>11
  <2>7. \A i, j \in Depths' : stack'[i].n = stack'[j].n => i = j
    BY <1>8, <1>11
  <2>8. \A i \in Depths' : stack'[i].at \in {"prepare", "wait", "status"} => \A c \in visited : Parent[c] # stack'[i].n
    BY <1>8, <1>11
  <2> QED
    BY <2>1, <2>2, <2>3, <2>4, <2>5, <2>6, <2>7, <2>8, <1>2, <1>8 DEF DfsInv
<1>17. QuietInv'
  BY <1>1, <1>2, <1>5, <1>12, <1>20 DEF QuietInv, Closed, TypeOK
<1>18. FactInv'
  <2>1. phase \in 1 .. 3 => Group[n] # "m"
    BY <1>4, OrderFacts DEF Current
  <2>2. fails = 0 => \A r \in Nodes : IsRoot(r) /\ Group[r] = "m" => IF phase <= 3 THEN r \in alive' /\ r \in targets' ELSE found
    <3>1. phase <= 3 => Group[n] # "m"
      BY <2>1, <1>4
    <3> QED
      BY <3>1, <1>1, <1>5 DEF FactInv
  <2> QED
    BY <2>2, <1>1, <1>2 DEF FactInv
<1>19. WalkInv'
  BY <1>2, <1>4, OtherTraversal
<1> QED
  BY <1>11, <1>12, <1>13, <1>14, <1>15, <1>16, <1>17, <1>18, <1>19 DEF IInv

----------------------------------------------------------------------------
(* The steps of the client: the walk that fences the materialization.      *)

\* What WalkInv says during the walk.
LEMMA WalkFacts ==
  ASSUME WalkInv, phase = 3
  PROVE  /\ \A n \in visited : Group[n] = "m"
         /\ \A n \in visited : n \in alive => Closed(n) \/ (stack # <<>> /\ Top.n = n /\ Top.at \in {"yield", "yielded"})
         /\ \A c \in visited : ~IsRoot(c) => Closed(Parent[c])
         /\ \A i \in Depths : /\ stack[i].at # "walk" => stack[i].n \in visited /\ stack[i].n \in alive
                              /\ stack[i].at \in {"yielded", "walked", "walkedPromotions"} => stack[i].n \in fenced
                              /\ stack[i].at \in {"walked", "walkedPromotions"} => ~Busy(stack[i].n)
         /\ \A n \in visited, c \in Nodes : n \in alive /\ Parent[c] = n /\ Linked(c) => raced \/ c \in visited \/ OnStack(c) \/ Pending(n, c)
         /\ stack # <<>> /\ stack[1].at = "walk" => visited = {}
         /\ \A r \in Nodes : IsRoot(r) /\ Group[r] = "m" =>
              /\ r \in visited \/ (stack # <<>> /\ stack[1].at = "walk")
              /\ r \in targets => found \/ (stack # <<>> /\ stack[1].at \in {"walk", "yield", "yielded"})
  BY DEF WalkInv

\* The parent of the partition on top of the walk is closed.
LEMMA WalkParent ==
  ASSUME TypeOK, StackInv, WalkInv, phase = 3, stack # <<>>, ~IsRoot(Top.n)
  PROVE  Closed(Parent[Top.n]) /\ Len(stack) > 1 /\ stack[1].at \notin {"walk", "yield", "yielded"}
<1>1. /\ stack \in Seq(Frames) /\ Len(stack) \in Nat /\ Len(stack) \in Depths /\ 1 \in Depths /\ Top = stack[Len(stack)]
  BY DEF TypeOK, Depths, Top
<1>2. Len(stack) # 1
  BY <1>1 DEF StackInv
<1>3. Len(stack) > 1 /\ Len(stack) - 1 \in Depths /\ Len(stack) - 1 < Len(stack) /\ 1 < Len(stack)
  <2>1. Len(stack) > 1 /\ Len(stack) - 1 \in 1 .. Len(stack) /\ Len(stack) - 1 < Len(stack)
    BY <1>1, <1>2, SeveralFrames DEF Depths
  <2> QED
    BY <2>1, <1>1 DEF Depths
<1>4. Parent[Top.n] = stack[Len(stack) - 1].n
  BY <1>1, <1>3, FrameFacts DEF StackInv
<1>5. stack[Len(stack) - 1].at \in {"walked", "walkedPromotions"} /\ stack[1].at \in {"walked", "walkedPromotions"}
  BY <1>1, <1>3 DEF StackInv, WalkAts
<1>6. stack[Len(stack) - 1].n \in fenced /\ ~Busy(stack[Len(stack) - 1].n)
  BY <1>3, <1>5, WalkFacts
<1> QED
  BY <1>3, <1>4, <1>5, <1>6 DEF Closed, Busy

\* The walk reads the status of a partition: one that it knows or that has no identity is left alone.
LEMMA WalkStatusStep ==
  ASSUME IInv, WalkStatus
  PROVE  IInv'
<1>1. TypeOK /\ PartInv /\ StackInv /\ WalkInv
  BY DEF IInv
<1>2. /\ At("walk") /\ "walk" \in WalkAts /\ "yield" \in WalkAts
      /\ UNCHANGED <<nodeVars, phase, found, resets, fails, faults, raced>>
  BY DEF WalkStatus, WalkAts
<1>3. PICK n \in Nodes : n = Top.n
  BY <1>1, <1>2, TopFacts
<1>4. /\ stack \in Seq(Frames) /\ stack # <<>> /\ Len(stack) \in Depths /\ Len(stack) \in Nat /\ Top = stack[Len(stack)]
      /\ Top.at = "walk" /\ Group[n] = Current /\ phase = 3
      /\ IsRoot(n) <=> Len(stack) = 1
  BY <1>1, <1>2, <1>3, TopFacts
<1>5. Group[n] = "m" /\ Current = "m"
  BY <1>4 DEF Current
<1>6. /\ PartInv' /\ RootInv' /\ QuietInv' /\ EmptyInv' /\ FactInv' /\ Present' = Present /\ \A d : Linked(d) <=> Linked(d)'
  BY <1>2, SameStorage
<1>7. visited' = visited \cup {n}
  BY <1>3 DEF WalkStatus
<1>8. DfsInv'
  BY <1>2, <1>4, OtherTraversal
<1>9. /\ \A m \in visited : Group[m] = "m"
      /\ \A m \in visited : m \in alive => Closed(m)
      /\ \A c \in visited : ~IsRoot(c) => Closed(Parent[c])
      /\ \A i \in Depths : /\ stack[i].at # "walk" => stack[i].n \in visited /\ stack[i].n \in alive
                           /\ stack[i].at \in {"yielded", "walked", "walkedPromotions"} => stack[i].n \in fenced
                           /\ stack[i].at \in {"walked", "walkedPromotions"} => ~Busy(stack[i].n)
      /\ \A m \in visited, c \in Nodes : m \in alive /\ Parent[c] = m /\ Linked(c) => raced \/ c \in visited \/ OnStack(c) \/ Pending(m, c)
      /\ stack[1].at = "walk" => visited = {}
      /\ \A r \in Nodes : IsRoot(r) /\ Group[r] = "m" =>
           /\ r \in visited \/ stack[1].at = "walk"
           /\ r \in targets => found \/ stack[1].at \in {"walk", "yield", "yielded"}
  BY <1>1, <1>4, WalkFacts
<1>10. ~IsRoot(n) => Closed(Parent[n]) /\ stack[1].at \notin {"walk", "yield", "yielded"}
  BY <1>1, <1>3, <1>4, WalkParent
<1>11. \A m : Closed(m)' <=> Closed(m)
  BY <1>2 DEF Closed, nodeVars, Busy
<1>12. \A c \in visited' : Group[c] = "m" /\ (~IsRoot(c) => Closed(Parent[c]))
  BY <1>5, <1>7, <1>9, <1>10
<1>13. \A r \in Nodes : IsRoot(r) /\ IsRoot(n) /\ Group[r] = "m" => r = n
  BY <1>5, GroupsAreTrees DEF IsRoot
<1>14. CASE n \in visited \/ n \notin alive
  <2>1. Pop
    BY <1>3, <1>14 DEF WalkStatus
  <2>2. /\ StackInv' /\ stack' \in Seq(Frames) /\ Len(stack') = Len(stack) - 1
        /\ \A i \in Depths' : i \in Depths /\ i # Len(stack) /\ i < Len(stack) /\ stack'[i] = stack[i]
        /\ \A i \in Depths : i # Len(stack) => i \in Depths'
        /\ stack' = <<>> <=> Len(stack) = 1
    BY <2>1, <1>1, <1>2, <1>4, <1>6, PopStack
  <2>3. TypeOK'
    BY <2>2, <1>1, <1>2, <1>7 DEF TypeOK, nodeVars
  <2>4. \A m \in visited' : m \in alive' => Closed(m)'
    BY <1>2, <1>7, <1>9, <1>11, <1>14 DEF nodeVars
  <2>5. \A i \in Depths' : /\ stack'[i].at # "walk" => stack'[i].n \in visited' /\ stack'[i].n \in alive'
                           /\ stack'[i].at \in {"yielded", "walked", "walkedPromotions"} => stack'[i].n \in fenced'
                           /\ stack'[i].at \in {"walked", "walkedPromotions"} => ~Busy(stack[i].n)'
    <3>1. \A m : Busy(m)' <=> Busy(m)
      BY <1>2 DEF Busy, nodeVars
    <3>2. ASSUME NEW i \in Depths', stack'[i].at \in {"walked", "walkedPromotions"} PROVE ~Busy(stack[i].n)'
      <4>1. PICK m : m = stack'[i].n
        OBVIOUS
      <4>2. ~Busy(m)
        BY <4>1, <3>2, <2>2, <1>9
      <4> QED
        BY <4>1, <4>2, <3>1
    <3> QED
      BY <3>2, <2>2, <1>2, <1>7, <1>9 DEF nodeVars
  <2>6. ASSUME NEW m \in visited', NEW c \in Nodes, m \in alive', Parent[c] = m, Linked(c)'
        PROVE  raced' \/ c \in visited' \/ OnStack(c)' \/ Pending(m, c)'
    <3>1. m \in visited /\ m \in alive /\ Linked(c)
      BY <2>6, <1>2, <1>6, <1>7, <1>14 DEF nodeVars
    <3>2. CASE c \in visited
      BY <3>2, <1>7
    <3>3. CASE OnStack(c)
      <4>1. PICK i \in Depths : stack[i].n = c
        BY <3>3 DEF OnStack
      <4>2. CASE i = Len(stack)
        BY <4>1, <4>2, <1>3, <1>4, <1>7
      <4>3. CASE i # Len(stack)
        BY <4>1, <4>3, <2>2 DEF OnStack
      <4> QED
        BY <4>2, <4>3
    <3>4. CASE Pending(m, c)
      <4>1. PICK i \in Depths :
              /\ stack[i].n = m /\ stack[i].at # "walk"
              /\ c \in stack[i].todo \/ (Kind[m] = "promotion" /\ stack[i].at \in {"yield", "yielded", "walked"})
        BY <3>4 DEF Pending
      <4>2. i \in Depths' /\ stack'[i] = stack[i]
        BY <4>1, <2>2, <1>4
      <4> QED
        BY <4>1, <4>2 DEF Pending
    <3> QED
      BY <3>1, <3>2, <3>3, <3>4, <2>6, <1>2, <1>9
  <2>7. stack' # <<>> => 1 \in Depths' /\ Len(stack) # 1 /\ stack'[1] = stack[1]
    BY <2>2, <1>4 DEF Depths
  <2>8. stack' # <<>> => stack'[1].at \notin {"walk", "yield", "yielded"}
    BY <2>7, <1>4, <1>10
  <2>9. ASSUME NEW r \in Nodes, IsRoot(r), Group[r] = "m" PROVE r \in visited' /\ (r \in targets' => found')
    <3>1. CASE IsRoot(n)
      <4>1. r = n /\ Len(stack) = 1
        BY <3>1, <2>9, <1>4, <1>13
      <4>2. n \notin alive
        BY <4>1, <1>4, <1>9, <1>14
      <4> QED
        BY <4>1, <4>2, <1>1, <1>2, <1>7 DEF PartInv, nodeVars
    <3>2. CASE ~IsRoot(n)
      BY <3>2, <2>9, <1>2, <1>7, <1>9, <1>10 DEF nodeVars
    <3> QED
      BY <3>1, <3>2
  <2>10. WalkInv'
    BY <2>4, <2>5, <2>6, <2>8, <2>9, <1>11, <1>12 DEF WalkInv
  <2> QED
    BY <2>2, <2>3, <2>10, <1>6, <1>8 DEF IInv
<1>15. CASE n \notin visited /\ n \in alive
  <2>1. PICK todo : todo = Links(n, "split")
    OBVIOUS
  <2>2. Step("yield", todo)
    BY <2>1, <1>3, <1>15 DEF WalkStatus
  <2>3. /\ todo \in SUBSET Nodes
        /\ \A c \in todo : Parent[c] = Top.n /\ Linked(c)
        /\ Kind[n] = "split" => \A c \in Nodes : Parent[c] = n /\ Linked(c) => c \in todo
    BY <2>1, <1>3 DEF Links, Children, Linked
  <2>4. /\ StackInv' /\ stack' \in Seq(Frames) /\ stack' # <<>> /\ Len(stack') = Len(stack) /\ Depths' = Depths
        /\ \A i \in Depths : stack'[i].n = stack[i].n /\ (i # Len(stack) => stack'[i] = stack[i])
        /\ stack'[Len(stack)].at = "yield" /\ stack'[Len(stack)].todo = todo
    BY <2>2, <2>3, <1>1, <1>2, <1>4, <1>6, StepStack
  <2>5. TypeOK'
    BY <2>4, <1>1, <1>2, <1>7 DEF TypeOK, nodeVars
  <2>6. Top'.n = n /\ Top'.at = "yield" /\ stack'[Len(stack)].n = n
    BY <2>4, <1>3, <1>4 DEF Top
  <2>7. \A m \in visited' : m \in alive' => Closed(m)' \/ (stack' # <<>> /\ Top'.n = m /\ Top'.at \in {"yield", "yielded"})
    BY <2>4, <2>6, <1>2, <1>7, <1>9, <1>11 DEF nodeVars
  <2>8. ASSUME NEW i \in Depths
        PROVE  /\ stack'[i].at # "walk" => stack'[i].n \in visited' /\ stack'[i].n \in alive'
               /\ stack'[i].at \in {"yielded", "walked", "walkedPromotions"} => stack'[i].n \in fenced'
               /\ stack'[i].at \in {"walked", "walkedPromotions"} => ~Busy(stack[i].n)'
    <3>1. CASE i = Len(stack)
      BY <3>1, <2>4, <2>6, <1>2, <1>7, <1>15 DEF nodeVars
    <3>2. CASE i # Len(stack)
      <4>1. PICK m : m = stack[i].n
        OBVIOUS
      <4>2. m = stack'[i].n /\ stack'[i] = stack[i] /\ (Busy(m)' <=> Busy(m))
        BY <3>2, <4>1, <2>4, <1>2 DEF Busy, nodeVars
      <4> QED
        BY <4>1, <4>2, <1>2, <1>7, <1>9 DEF nodeVars
    <3> QED
      BY <3>1, <3>2
  <2>9. ASSUME NEW m \in visited', NEW c \in Nodes, m \in alive', Parent[c] = m, Linked(c)'
        PROVE  raced' \/ c \in visited' \/ OnStack(c)' \/ Pending(m, c)'
    <3>1. CASE m = n
      <4>1. Kind[n] \in {"split", "promotion"}
        BY TreeIsValid
      <4>2. c \in todo \/ Kind[n] = "promotion"
        BY <3>1, <4>1, <2>3, <2>9, <1>6
      <4> QED
        BY <3>1, <4>2, <2>4, <2>6, <1>4 DEF Pending
    <3>2. CASE m # n
      <4>1. m \in visited /\ m \in alive /\ Linked(c)
        BY <2>9, <3>2, <1>2, <1>6, <1>7 DEF nodeVars
      <4>2. OnStack(c) => OnStack(c)'
        BY <2>4 DEF OnStack
      <4>3. ASSUME Pending(m, c) PROVE Pending(m, c)'
        <5>1. PICK i \in Depths :
                /\ stack[i].n = m /\ stack[i].at # "walk"
                /\ c \in stack[i].todo \/ (Kind[m] = "promotion" /\ stack[i].at \in {"yield", "yielded", "walked"})
          BY <4>3 DEF Pending
        <5>2. i \in Depths' /\ stack'[i] = stack[i]
          BY <5>1, <2>4, <1>4
        <5> QED
          BY <5>1, <5>2 DEF Pending
      <4> QED
        BY <4>1, <4>2, <4>3, <2>9, <1>2, <1>7, <1>9
    <3> QED
      BY <3>1, <3>2
  <2>10. 1 \in Depths /\ (Len(stack) = 1 => stack'[1].at = "yield") /\ (Len(stack) # 1 => stack'[1] = stack[1])
    BY <2>4, <1>4 DEF Depths
  <2>11. stack'[1].at # "walk"
    BY <2>10, <1>4, <1>10
  <2>12. ASSUME NEW r \in Nodes, IsRoot(r), Group[r] = "m"
         PROVE  r \in visited' /\ (r \in targets' => found' \/ (stack' # <<>> /\ stack'[1].at \in {"walk", "yield", "yielded"}))
    <3>1. CASE IsRoot(n)
      BY <3>1, <2>4, <2>10, <2>12, <1>4, <1>7, <1>13
    <3>2. CASE ~IsRoot(n)
      BY <3>2, <2>4, <2>10, <2>12, <1>2, <1>4, <1>7, <1>9, <1>10 DEF nodeVars
    <3> QED
      BY <3>1, <3>2
  <2>13. WalkInv'
    BY <2>4, <2>7, <2>8, <2>9, <2>11, <2>12, <1>11, <1>12 DEF WalkInv
  <2> QED
    BY <2>4, <2>5, <2>13, <1>6, <1>8 DEF IInv
<1> QED
  BY <1>14, <1>15

\* A step of the walk that moves the last frame.
LEMMA StepWalk ==
  ASSUME TypeOK, StackInv, WalkInv, phase = 3, phase' = phase, raced' = raced, visited' = visited, alive' = alive,
         \A c : Linked(c)' => Linked(c), \A m : Closed(m) => Closed(m)', init' = init, fenced \subseteq fenced', targets' = targets,
         stack # <<>>, Top.at # "walk", stack' # <<>>, Depths' = Depths, Len(stack') = Len(stack), NEW at \in {"yielded", "walked", "walkedPromotions"},
         \A i \in Depths : stack'[i].n = stack[i].n /\ (i # Len(stack) => stack'[i] = stack[i]),
         stack'[Len(stack)].at = at, Top.n \in fenced', at \in {"walked", "walkedPromotions"} => ~Busy(Top.n),
         \A c \in Nodes :
           Parent[c] = Top.n /\ Linked(c) /\ (c \in Top.todo \/ (Kind[Top.n] = "promotion" /\ Top.at \in {"yield", "yielded", "walked"})) =>
             c \in stack'[Len(stack)].todo \/ (Kind[Top.n] = "promotion" /\ at \in {"yielded", "walked"}),
         found => found', IsRoot(Top.n) /\ Top.n \in targets => found' \/ at = "yielded"
  PROVE  WalkInv'
<1>1. /\ \A m \in visited : Group[m] = "m"
      /\ \A m \in visited : m \in alive => Closed(m) \/ (stack # <<>> /\ Top.n = m /\ Top.at \in {"yield", "yielded"})
      /\ \A c \in visited : ~IsRoot(c) => Closed(Parent[c])
      /\ \A i \in Depths : /\ stack[i].at # "walk" => stack[i].n \in visited /\ stack[i].n \in alive
                           /\ stack[i].at \in {"yielded", "walked", "walkedPromotions"} => stack[i].n \in fenced
                           /\ stack[i].at \in {"walked", "walkedPromotions"} => ~Busy(stack[i].n)
      /\ \A m \in visited, c \in Nodes : m \in alive /\ Parent[c] = m /\ Linked(c) => raced \/ c \in visited \/ OnStack(c) \/ Pending(m, c)
      /\ stack[1].at = "walk" => visited = {}
      /\ \A r \in Nodes : IsRoot(r) /\ Group[r] = "m" =>
           /\ r \in visited \/ stack[1].at = "walk"
           /\ r \in targets => found \/ stack[1].at \in {"walk", "yield", "yielded"}
  BY WalkFacts
<1>2. /\ stack \in Seq(Frames) /\ Len(stack) \in Nat /\ Len(stack) \in Depths /\ 1 \in Depths /\ Top = stack[Len(stack)]
  BY DEF TypeOK, Depths, Top
<1>3. PICK n \in Nodes : n = Top.n
  BY <1>2, FrameFacts
<1>4. n \in visited /\ n \in alive /\ stack'[Len(stack)].n = n
  BY <1>1, <1>2, <1>3
<1>5. Top'.n = n /\ Top'.at = at
  BY <1>4 DEF Top
<1>6. \A m \in visited : m \in alive' => Closed(m)' \/ (stack' # <<>> /\ Top'.n = m /\ Top'.at \in {"yield", "yielded"})
  <2>1. at = "yielded" \/ Closed(n)'
    BY <1>3 DEF Closed, Busy
  <2> QED
    BY <2>1, <1>1, <1>3, <1>5
<1>7. ASSUME NEW i \in Depths
      PROVE  /\ stack'[i].at # "walk" => stack'[i].n \in visited /\ stack'[i].n \in alive
             /\ stack'[i].at \in {"yielded", "walked", "walkedPromotions"} => stack'[i].n \in fenced'
             /\ stack'[i].at \in {"walked", "walkedPromotions"} => ~Busy(stack'[i].n)
  <2>1. CASE i = Len(stack)
    BY <2>1, <1>3, <1>4
  <2>2. CASE i # Len(stack)
    BY <2>2, <1>1
  <2> QED
    BY <2>1, <2>2
<1>8. ASSUME NEW m \in visited, NEW c \in Nodes, m \in alive, Parent[c] = m, Linked(c)'
      PROVE  raced \/ c \in visited \/ OnStack(c)' \/ Pending(m, c)'
  <2>1. Linked(c)
    BY <1>8
  <2>2. OnStack(c) => OnStack(c)'
    BY DEF OnStack
  <2>3. ASSUME Pending(m, c) PROVE Pending(m, c)'
    <3>1. PICK i \in Depths :
            /\ stack[i].n = m /\ stack[i].at # "walk"
            /\ c \in stack[i].todo \/ (Kind[m] = "promotion" /\ stack[i].at \in {"yield", "yielded", "walked"})
      BY <2>3 DEF Pending
    <3>2. CASE i = Len(stack)
      <4>1. m = n
        BY <3>1, <3>2, <1>2, <1>3
      <4>2. c \in stack'[Len(stack)].todo \/ (Kind[m] = "promotion" /\ at \in {"yielded", "walked"})
        BY <4>1, <2>1, <3>1, <3>2, <1>2, <1>3, <1>8
      <4> QED
        BY <4>1, <4>2, <1>2, <1>4 DEF Pending
    <3>3. CASE i # Len(stack)
      <4>1. i \in Depths' /\ stack'[i] = stack[i]
        BY <3>3
      <4> QED
        BY <3>1, <4>1 DEF Pending
    <3> QED
      BY <3>2, <3>3
  <2> QED
    BY <2>1, <2>2, <2>3, <1>1, <1>8
<1>9. (Len(stack) = 1 => stack'[1].at = at) /\ (Len(stack) # 1 => stack'[1] = stack[1])
  BY <1>2
<1>10. stack'[1].at = "walk" => visited = {}
  BY <1>1, <1>9
<1>11. ASSUME NEW r \in Nodes, IsRoot(r), Group[r] = "m"
       PROVE  /\ r \in visited \/ stack'[1].at = "walk"
              /\ r \in targets => found' \/ stack'[1].at \in {"walk", "yield", "yielded"}
  <2>1. CASE Len(stack) = 1
    <3>1. IsRoot(n) /\ Group[n] = "m"
      BY <2>1, <1>1, <1>2, <1>3, <1>4 DEF StackInv
    <3>2. r = n
      BY <3>1, <1>11, GroupsAreTrees DEF IsRoot
    <3> QED
      BY <2>1, <3>1, <3>2, <1>3, <1>4, <1>9
  <2>2. CASE Len(stack) # 1
    BY <2>2, <1>1, <1>9, <1>11
  <2> QED
    BY <2>1, <2>2
<1>12. \A c \in visited : ~IsRoot(c) => Closed(Parent[c])'
  BY <1>1
<1>13. ASSUME NEW i \in Depths
       PROVE  /\ stack'[i].at # "walk" => stack'[i].n \in visited /\ stack'[i].n \in alive
              /\ stack'[i].at \in {"yielded", "walked", "walkedPromotions"} => stack'[i].n \in fenced'
              /\ stack'[i].at \in {"walked", "walkedPromotions"} => ~Busy(stack[i].n)'
  <2>1. PICK m : m = stack'[i].n
    OBVIOUS
  <2>2. Busy(m)' <=> Busy(m)
    BY DEF Busy
  <2> QED
    BY <2>1, <2>2, <1>7
<1> QED
  BY <1>1, <1>6, <1>8, <1>10, <1>11, <1>12, <1>13 DEF WalkInv

\* #fenceMaterializations fences the partition that the walk yielded.
LEMMA WalkFenceStep ==
  ASSUME IInv, WalkFence
  PROVE  IInv'
<1>1. TypeOK /\ PartInv /\ RootInv /\ StackInv /\ WalkInv /\ QuietInv /\ EmptyInv /\ FactInv
  BY DEF IInv
<1>2. /\ At("yield") /\ Prepared(Top.n) /\ Step("yielded", Top.todo) /\ "yield" \in WalkAts /\ "yielded" \in WalkAts
  BY DEF WalkFence, WalkAts
<1>3. PICK n \in Nodes : n = Top.n
  BY <1>1, <1>2, TopFacts
<1>4. /\ stack # <<>> /\ Len(stack) \in Depths /\ Len(stack) \in Nat /\ Top = stack[Len(stack)] /\ Top.at = "yield"
      /\ phase = 3 /\ Top \in Frames
      /\ ~IsRoot(n) => Linked(n)
  BY <1>1, <1>2, <1>3, TopFacts
<1>5. n \in alive
  BY <1>1, <1>3, <1>4, WalkFacts
<1>6. /\ fenced' = fenced \cup {n} /\ alive' = alive
      /\ UNCHANGED <<rep, init, import, work, targets, facts, promoted, visited, found, resets, phase, fails, faults, raced>>
  BY <1>2, <1>3, <1>5 DEF Prepared
<1>7. Present' = Present /\ (\A c : Linked(c) <=> Linked(c)') /\ \A m : Closed(m) => Closed(m)'
  BY <1>5, <1>6 DEF Present, Linked, Closed, Busy
<1>8. PICK todo : todo = Top.todo
  OBVIOUS
<1>9. todo \in SUBSET Nodes /\ \A c \in todo : Parent[c] = Top.n /\ Linked(c)
  BY <1>1, <1>4, <1>8 DEF StackInv, Frames
<1>10. /\ StackInv' /\ stack' \in Seq(Frames) /\ stack' # <<>> /\ Len(stack') = Len(stack) /\ Depths' = Depths
       /\ \A i \in Depths : stack'[i].n = stack[i].n /\ (i # Len(stack) => stack'[i] = stack[i])
       /\ stack'[Len(stack)].at = "yielded" /\ stack'[Len(stack)].todo = todo
  BY <1>1, <1>2, <1>4, <1>6, <1>7, <1>8, <1>9, StepStack
<1>11. TypeOK'
  BY <1>1, <1>6, <1>10 DEF TypeOK
<1>12. PartInv'
  <2>1. \A r \in fenced' : IsRoot(r) => r \in alive'
    BY <1>1, <1>5, <1>6 DEF PartInv
  <2> QED
    BY <2>1, <1>1, <1>6, <1>7 DEF PartInv, Busy
<1>13. RootInv' /\ QuietInv' /\ EmptyInv' /\ FactInv'
  <2>1. RootInv'
    BY <1>1, <1>6, <1>7 DEF RootInv, NoWriters
  <2>2. QuietInv'
    BY <1>4, <1>6 DEF QuietInv
  <2>3. EmptyInv' /\ FactInv'
    BY <1>1, <1>6, <1>7 DEF EmptyInv, FactInv
  <2> QED
    BY <2>1, <2>2, <2>3
<1>14. WalkInv'
  BY <1>1, <1>3, <1>4, <1>6, <1>7, <1>8, <1>10, StepWalk
<1>15. DfsInv'
  BY <1>4, <1>6, OtherTraversal
<1> QED
  BY <1>10, <1>11, <1>12, <1>13, <1>14, <1>15 DEF IInv

\* It reads the target list after the fence.
LEMMA WalkReadTargetsStep ==
  ASSUME IInv, WalkReadTargets
  PROVE  IInv'
<1>1. TypeOK /\ PartInv /\ RootInv /\ StackInv /\ WalkInv /\ QuietInv /\ EmptyInv /\ FactInv
  BY DEF IInv
<1>2. /\ At("yielded") /\ ~Busy(Top.n) /\ Step("walked", Top.todo) /\ "yielded" \in WalkAts /\ "walked" \in WalkAts
      /\ found' = (found \/ Top.n \in targets)
      /\ UNCHANGED <<nodeVars, phase, visited, resets, fails, faults, raced>>
  BY DEF WalkReadTargets, WalkAts
<1>3. PICK n \in Nodes : n = Top.n
  BY <1>1, <1>2, TopFacts
<1>4. /\ stack # <<>> /\ Len(stack) \in Depths /\ Len(stack) \in Nat /\ Top = stack[Len(stack)] /\ Top.at = "yielded"
      /\ phase = 3 /\ Top \in Frames
  BY <1>1, <1>2, <1>3, TopFacts
<1>5. n \in fenced
  BY <1>1, <1>3, <1>4, WalkFacts
<1>6. Present' = Present /\ (\A c : Linked(c) <=> Linked(c)') /\ \A m : Closed(m) => Closed(m)'
  BY <1>2 DEF Present, Linked, Closed, nodeVars, Busy
<1>7. PICK todo : todo = Top.todo
  OBVIOUS
<1>8. todo \in SUBSET Nodes /\ \A c \in todo : Parent[c] = Top.n /\ Linked(c)
  BY <1>1, <1>4, <1>7 DEF StackInv, Frames
<1>9. /\ StackInv' /\ stack' \in Seq(Frames) /\ stack' # <<>> /\ Len(stack') = Len(stack) /\ Depths' = Depths
      /\ \A i \in Depths : stack'[i].n = stack[i].n /\ (i # Len(stack) => stack'[i] = stack[i])
      /\ stack'[Len(stack)].at = "walked" /\ stack'[Len(stack)].todo = todo
  BY <1>1, <1>2, <1>4, <1>6, <1>7, <1>8, StepStack
<1>10. TypeOK'
  <2>1. found' \in BOOLEAN
    BY <1>1, <1>2 DEF TypeOK
  <2> QED
    BY <2>1, <1>1, <1>2, <1>9 DEF TypeOK, nodeVars
<1>11. PartInv' /\ QuietInv' /\ EmptyInv'
  BY <1>1, <1>2, <1>6 DEF PartInv, QuietInv, Closed, EmptyInv, nodeVars, Busy
<1>12. RootInv'
  <2>1. NoWriters => NoWriters' /\ (found' => found)
    BY <1>2, <1>6 DEF NoWriters, nodeVars
  <2>2. alive' = alive /\ targets' = targets /\ phase' = phase
    BY <1>2 DEF nodeVars
  <2> QED
    BY <2>1, <2>2, <1>1 DEF RootInv
<1>13. FactInv'
  BY <1>1, <1>2, <1>4 DEF FactInv, nodeVars
<1>14. WalkInv'
  <2>1. found => found'
    BY <1>2
  <2>2. Top.n \in targets => found'
    BY <1>2
  <2>3. alive' = alive /\ init' = init /\ fenced' = fenced /\ targets' = targets /\ phase' = phase /\ raced' = raced /\ visited' = visited
    BY <1>2 DEF nodeVars
  <2> QED
    BY <2>1, <2>2, <2>3, <1>1, <1>2, <1>3, <1>4, <1>5, <1>6, <1>7, <1>9, StepWalk
<1>15. DfsInv'
  BY <1>2, <1>4, OtherTraversal
<1> QED
  BY <1>9, <1>10, <1>11, <1>12, <1>13, <1>14, <1>15 DEF IInv

\* The promotion targets, read after the fence.
LEMMA WalkReadPromotionsStep ==
  ASSUME IInv, WalkReadPromotions
  PROVE  IInv'
<1>1. TypeOK /\ PartInv /\ StackInv /\ WalkInv
  BY DEF IInv
<1>2. /\ At("walked") /\ Top.todo = {} /\ Step("walkedPromotions", Links(Top.n, "promotion"))
      /\ "walked" \in WalkAts /\ "walkedPromotions" \in WalkAts
      /\ UNCHANGED <<nodeVars, phase, visited, found, resets, fails, faults, raced>>
  BY DEF WalkReadPromotions, WalkAts
<1>3. PICK n \in Nodes : n = Top.n
  BY <1>1, <1>2, TopFacts
<1>4. /\ stack # <<>> /\ Len(stack) \in Depths /\ Len(stack) \in Nat /\ 1 \in Depths /\ Top = stack[Len(stack)] /\ Top.at = "walked"
      /\ phase = 3
      /\ IsRoot(n) <=> Len(stack) = 1
  <2>1. 1 \in 1 .. Len(stack)
    BY <1>1, <1>2, TopFacts DEF Depths
  <2> QED
    BY <2>1, <1>1, <1>2, <1>3, TopFacts DEF Depths
<1>5. n \in fenced /\ ~Busy(n) /\ n \in alive /\ Group[n] = "m"
  BY <1>1, <1>3, <1>4, WalkFacts
<1>6. /\ PartInv' /\ RootInv' /\ QuietInv' /\ EmptyInv' /\ FactInv' /\ Present' = Present /\ \A c : Linked(c) <=> Linked(c)'
  BY <1>2, SameStorage
<1>7. PICK todo : todo = Links(Top.n, "promotion")
  OBVIOUS
<1>8. /\ todo \in SUBSET Nodes
      /\ \A c \in todo : Parent[c] = Top.n /\ Linked(c)
      /\ Kind[Top.n] = "promotion" => \A c \in Nodes : Parent[c] = Top.n /\ Linked(c) => c \in todo
  BY <1>7 DEF Links, Children, Linked
<1>9. /\ StackInv' /\ stack' \in Seq(Frames) /\ stack' # <<>> /\ Len(stack') = Len(stack) /\ Depths' = Depths
      /\ \A i \in Depths : stack'[i].n = stack[i].n /\ (i # Len(stack) => stack'[i] = stack[i])
      /\ stack'[Len(stack)].at = "walkedPromotions" /\ stack'[Len(stack)].todo = todo
  BY <1>1, <1>2, <1>4, <1>6, <1>7, <1>8, StepStack
<1>10. TypeOK'
  BY <1>1, <1>2, <1>9 DEF TypeOK, nodeVars
<1>11. WalkInv'
  <2>1. \A c \in Nodes : Parent[c] = Top.n /\ Linked(c) /\ (c \in Top.todo \/ Kind[Top.n] = "promotion") => c \in stack'[Len(stack)].todo
    BY <1>2, <1>8, <1>9
  <2>2. \A m : Closed(m) => Closed(m)'
    BY <1>2 DEF Closed, nodeVars, Busy
  <2>3. alive' = alive /\ init' = init /\ fenced' = fenced /\ targets' = targets /\ phase' = phase /\ raced' = raced /\ visited' = visited /\ found' = found
    BY <1>2 DEF nodeVars
  <2>4. IsRoot(Top.n) /\ Top.n \in targets => found
    <3>1. IsRoot(n) => stack[1] = Top
      BY <1>4
    <3> QED
      BY <3>1, <1>1, <1>3, <1>4, <1>5, WalkFacts
  <2> QED
    BY <2>1, <2>2, <2>3, <2>4, <1>1, <1>3, <1>4, <1>5, <1>6, <1>9, StepWalk
<1>12. DfsInv'
  BY <1>2, <1>4, OtherTraversal
<1> QED
  BY <1>6, <1>9, <1>10, <1>11, <1>12 DEF IInv

\* The walk goes on to a target of the partition.
LEMMA WalkTargetStep ==
  ASSUME IInv, WalkTarget
  PROVE  IInv'
<1>1. TypeOK /\ StackInv /\ WalkInv
  BY DEF IInv
<1>2. /\ At("walked") \/ At("walkedPromotions")
      /\ "walked" \in WalkAts /\ "walkedPromotions" \in WalkAts /\ "walk" \in WalkAts
      /\ UNCHANGED <<nodeVars, phase, visited, found, resets, fails, faults, raced>>
  BY DEF WalkTarget, WalkAts
<1>3. PICK c \in Top.todo : Extended(stack, stack', c, "walk")
  BY DEF WalkTarget, Extended
<1>4. /\ stack # <<>> /\ Len(stack) \in Depths /\ Len(stack) \in Nat /\ 1 \in Depths /\ Top = stack[Len(stack)]
      /\ Top.at \in {"walked", "walkedPromotions"} /\ phase = 3
  <2>1. 1 \in 1 .. Len(stack)
    BY <1>1, <1>2, TopFacts DEF Depths
  <2> QED
    BY <2>1, <1>1, <1>2, TopFacts DEF Depths
<1>5. /\ PartInv' /\ RootInv' /\ QuietInv' /\ EmptyInv' /\ FactInv' /\ Present' = Present /\ \A d : Linked(d) <=> Linked(d)'
  BY <1>2, SameStorage
<1>6. c \in Nodes
  BY <1>1, <1>3, <1>4, FrameFacts
<1>7. /\ StackInv' /\ stack' \in Seq(Frames) /\ stack' # <<>> /\ Len(stack') = Len(stack) + 1
      /\ Depths' = Depths \cup {Len(stack) + 1} /\ Len(stack) + 1 \notin Depths
      /\ \A i \in Depths : stack'[i].n = stack[i].n /\ stack'[i].at = stack[i].at /\ (i # Len(stack) => stack'[i] = stack[i])
      /\ stack'[Len(stack)].todo = Top.todo \ {c}
      /\ stack'[Len(stack) + 1].n = c /\ stack'[Len(stack) + 1].at = "walk" /\ stack'[Len(stack) + 1].todo = {}
  BY <1>1, <1>2, <1>3, <1>4, PushStack
<1>8. TypeOK'
  BY <1>1, <1>2, <1>7 DEF TypeOK, nodeVars
<1>9. /\ \A m \in visited : Group[m] = "m"
      /\ \A m \in visited : m \in alive => Closed(m)
      /\ \A d \in visited : ~IsRoot(d) => Closed(Parent[d])
      /\ \A i \in Depths : /\ stack[i].at # "walk" => stack[i].n \in visited /\ stack[i].n \in alive
                           /\ stack[i].at \in {"yielded", "walked", "walkedPromotions"} => stack[i].n \in fenced
                           /\ stack[i].at \in {"walked", "walkedPromotions"} => ~Busy(stack[i].n)
      /\ \A m \in visited, d \in Nodes : m \in alive /\ Parent[d] = m /\ Linked(d) => raced \/ d \in visited \/ OnStack(d) \/ Pending(m, d)
      /\ stack[1].at = "walk" => visited = {}
      /\ \A r \in Nodes : IsRoot(r) /\ Group[r] = "m" =>
           /\ r \in visited \/ stack[1].at = "walk"
           /\ r \in targets => found \/ stack[1].at \in {"walk", "yield", "yielded"}
  BY <1>1, <1>4, WalkFacts
<1>10. \A m : Closed(m)' <=> Closed(m)
  BY <1>2 DEF Closed, nodeVars, Busy
<1>11. ASSUME NEW i \in Depths'
       PROVE  /\ stack'[i].at # "walk" => stack'[i].n \in visited /\ stack'[i].n \in alive
              /\ stack'[i].at \in {"yielded", "walked", "walkedPromotions"} => stack'[i].n \in fenced
              /\ stack'[i].at \in {"walked", "walkedPromotions"} => ~Busy(stack'[i].n)
  <2>1. CASE i \in Depths
    BY <2>1, <1>7, <1>9
  <2>2. CASE i = Len(stack) + 1
    BY <2>2, <1>7
  <2> QED
    BY <2>1, <2>2, <1>7
<1>12. ASSUME NEW m \in visited, NEW d \in Nodes, m \in alive, Parent[d] = m, Linked(d)
       PROVE  raced \/ d \in visited \/ OnStack(d)' \/ Pending(m, d)'
  <2>1. ASSUME OnStack(d) PROVE OnStack(d)'
    <3>1. PICK i \in Depths : stack[i].n = d
      BY <2>1 DEF OnStack
    <3> QED
      BY <3>1, <1>7 DEF OnStack
  <2>2. ASSUME Pending(m, d) PROVE OnStack(d)' \/ Pending(m, d)'
    <3>1. PICK i \in Depths :
            /\ stack[i].n = m /\ stack[i].at # "walk"
            /\ d \in stack[i].todo \/ (Kind[m] = "promotion" /\ stack[i].at \in {"yield", "yielded", "walked"})
      BY <2>2 DEF Pending
    <3>2. i \in Depths' /\ stack'[i].n = m /\ stack'[i].at # "walk" /\ stack'[i].at = stack[i].at
      BY <3>1, <1>7
    <3>3. CASE d = c
      BY <3>3, <1>7 DEF OnStack
    <3>4. CASE d # c
      <4>1. d \in stack[i].todo => d \in stack'[i].todo
        BY <3>4, <1>4, <1>7
      <4> QED
        BY <3>1, <3>2, <4>1 DEF Pending
    <3> QED
      BY <3>3, <3>4
  <2> QED
    BY <2>1, <2>2, <1>9, <1>12
<1>13. stack'[1].at = stack[1].at
  BY <1>4, <1>7
<1>14. WalkInv'
  <2>1. alive' = alive /\ targets' = targets /\ fenced' = fenced /\ init' = init /\ visited' = visited /\ found' = found /\ phase' = phase /\ raced' = raced
    BY <1>2 DEF nodeVars
  <2>2. \A m \in visited', d \in Nodes : m \in alive' /\ Parent[d] = m /\ Linked(d)' => raced' \/ d \in visited' \/ OnStack(d)' \/ Pending(m, d)'
    BY <2>1, <1>5, <1>12
  <2>3. \A i \in Depths' :
          /\ stack'[i].at # "walk" => stack'[i].n \in visited' /\ stack'[i].n \in alive'
          /\ stack'[i].at \in {"yielded", "walked", "walkedPromotions"} => stack'[i].n \in fenced'
          /\ stack'[i].at \in {"walked", "walkedPromotions"} => ~Busy(stack[i].n)'
    <3>1. ASSUME NEW i \in Depths', stack'[i].at \in {"walked", "walkedPromotions"} PROVE ~Busy(stack[i].n)'
      <4>1. PICK m : m = stack'[i].n
        OBVIOUS
      <4>2. ~Busy(m) /\ (Busy(m)' <=> Busy(m))
        BY <4>1, <3>1, <2>1, <1>11 DEF Busy
      <4> QED
        BY <4>1, <4>2
    <3> QED
      BY <3>1, <2>1, <1>11
  <2>4. \A m \in visited' : m \in alive' => Closed(m)'
    BY <2>1, <1>9, <1>10
  <2> QED
    BY <2>1, <2>2, <2>3, <2>4, <1>7, <1>9, <1>10, <1>13 DEF WalkInv
<1>15. DfsInv'
  BY <1>2, <1>4, OtherTraversal
<1> QED
  BY <1>5, <1>7, <1>8, <1>14, <1>15 DEF IInv

\* The walk is through with a partition.
LEMMA WalkEndsStep ==
  ASSUME IInv, WalkEnds
  PROVE  IInv'
<1>1. TypeOK /\ StackInv /\ WalkInv
  BY DEF IInv
<1>2. /\ At("walkedPromotions") /\ Top.todo = {} /\ Pop /\ "walkedPromotions" \in WalkAts
      /\ UNCHANGED <<nodeVars, phase, visited, found, resets, fails, faults, raced>>
  BY DEF WalkEnds, WalkAts
<1>3. /\ stack # <<>> /\ Len(stack) \in Depths /\ Len(stack) \in Nat /\ 1 \in Depths /\ Top = stack[Len(stack)]
      /\ Top.at = "walkedPromotions" /\ phase = 3
  <2>1. 1 \in 1 .. Len(stack)
    BY <1>1, <1>2, TopFacts DEF Depths
  <2> QED
    BY <2>1, <1>1, <1>2, TopFacts DEF Depths
<1>4. /\ PartInv' /\ RootInv' /\ QuietInv' /\ EmptyInv' /\ FactInv' /\ Present' = Present /\ \A d : Linked(d) <=> Linked(d)'
  BY <1>2, SameStorage
<1>5. /\ StackInv' /\ stack' \in Seq(Frames) /\ Len(stack') = Len(stack) - 1
      /\ \A i \in Depths' : i \in Depths /\ i # Len(stack) /\ i < Len(stack) /\ stack'[i] = stack[i]
      /\ \A i \in Depths : i # Len(stack) => i \in Depths'
      /\ stack' = <<>> <=> Len(stack) = 1
  BY <1>1, <1>2, <1>3, <1>4, PopStack
<1>6. TypeOK'
  BY <1>1, <1>2, <1>5 DEF TypeOK, nodeVars
<1>7. /\ \A m \in visited : Group[m] = "m"
      /\ \A m \in visited : m \in alive => Closed(m)
      /\ \A d \in visited : ~IsRoot(d) => Closed(Parent[d])
      /\ \A i \in Depths : /\ stack[i].at # "walk" => stack[i].n \in visited /\ stack[i].n \in alive
                           /\ stack[i].at \in {"yielded", "walked", "walkedPromotions"} => stack[i].n \in fenced
                           /\ stack[i].at \in {"walked", "walkedPromotions"} => ~Busy(stack[i].n)
      /\ \A m \in visited, d \in Nodes : m \in alive /\ Parent[d] = m /\ Linked(d) => raced \/ d \in visited \/ OnStack(d) \/ Pending(m, d)
      /\ stack[1].at = "walk" => visited = {}
      /\ \A r \in Nodes : IsRoot(r) /\ Group[r] = "m" =>
           /\ r \in visited \/ stack[1].at = "walk"
           /\ r \in targets => found \/ stack[1].at \in {"walk", "yield", "yielded"}
  BY <1>1, <1>3, WalkFacts
<1>8. Top.n \in visited
  BY <1>3, <1>7
<1>9. \A m : Closed(m)' <=> Closed(m)
  BY <1>2 DEF Closed, nodeVars, Busy
<1>10. ASSUME NEW m \in visited, NEW d \in Nodes, m \in alive, Parent[d] = m, Linked(d)
       PROVE  raced \/ d \in visited \/ OnStack(d)' \/ Pending(m, d)'
  <2>1. ASSUME OnStack(d) PROVE d \in visited \/ OnStack(d)'
    <3>1. PICK i \in Depths : stack[i].n = d
      BY <2>1 DEF OnStack
    <3>2. CASE i = Len(stack)
      BY <3>1, <3>2, <1>3, <1>8
    <3>3. CASE i # Len(stack)
      BY <3>1, <3>3, <1>5 DEF OnStack
    <3> QED
      BY <3>2, <3>3
  <2>2. ASSUME Pending(m, d) PROVE Pending(m, d)'
    <3>1. PICK i \in Depths :
            /\ stack[i].n = m /\ stack[i].at # "walk"
            /\ d \in stack[i].todo \/ (Kind[m] = "promotion" /\ stack[i].at \in {"yield", "yielded", "walked"})
      BY <2>2 DEF Pending
    <3>2. i \in Depths' /\ stack'[i] = stack[i]
      BY <3>1, <1>2, <1>3, <1>5
    <3> QED
      BY <3>1, <3>2 DEF Pending
  <2> QED
    BY <2>1, <2>2, <1>7, <1>10
<1>11. stack' # <<>> => 1 \in Depths' /\ Len(stack) # 1 /\ stack'[1] = stack[1]
  BY <1>3, <1>5 DEF Depths
<1>12. ASSUME NEW r \in Nodes, IsRoot(r), Group[r] = "m"
       PROVE  /\ r \in visited \/ (stack' # <<>> /\ stack'[1].at = "walk")
              /\ r \in targets => found \/ (stack' # <<>> /\ stack'[1].at \in {"walk", "yield", "yielded"})
  <2>1. CASE Len(stack) = 1
    BY <2>1, <1>3, <1>7, <1>12
  <2>2. CASE Len(stack) # 1
    BY <2>2, <1>5, <1>7, <1>11, <1>12
  <2> QED
    BY <2>1, <2>2
<1>13. WalkInv'
  <2>1. alive' = alive /\ targets' = targets /\ fenced' = fenced /\ init' = init /\ visited' = visited /\ found' = found /\ phase' = phase /\ raced' = raced
    BY <1>2 DEF nodeVars
  <2>2. \A m \in visited', d \in Nodes : m \in alive' /\ Parent[d] = m /\ Linked(d)' => raced' \/ d \in visited' \/ OnStack(d)' \/ Pending(m, d)'
    BY <2>1, <1>4, <1>10
  <2>3. \A i \in Depths' :
          /\ stack'[i].at # "walk" => stack'[i].n \in visited' /\ stack'[i].n \in alive'
          /\ stack'[i].at \in {"yielded", "walked", "walkedPromotions"} => stack'[i].n \in fenced'
          /\ stack'[i].at \in {"walked", "walkedPromotions"} => ~Busy(stack[i].n)'
    <3>1. ASSUME NEW i \in Depths', stack'[i].at \in {"walked", "walkedPromotions"} PROVE ~Busy(stack[i].n)'
      <4>1. PICK m : m = stack'[i].n
        OBVIOUS
      <4>2. ~Busy(m) /\ (Busy(m)' <=> Busy(m))
        BY <4>1, <3>1, <2>1, <1>5, <1>7 DEF Busy
      <4> QED
        BY <4>1, <4>2
    <3> QED
      BY <3>1, <2>1, <1>5, <1>7
  <2>4. \A m \in visited' : m \in alive' => Closed(m)'
    BY <2>1, <1>7, <1>9
  <2>5. stack' # <<>> /\ stack'[1].at = "walk" => visited' = {}
    BY <2>1, <1>7, <1>11
  <2> QED
    BY <2>1, <2>2, <2>3, <2>4, <2>5, <1>7, <1>9, <1>12 DEF WalkInv
<1>14. DfsInv'
  BY <1>2, <1>3, OtherTraversal
<1> QED
  BY <1>4, <1>5, <1>6, <1>13, <1>14 DEF IInv

----------------------------------------------------------------------------
(* The phases of destroy().                                                *)

\* The admin of a group is reset.
LEMMA ResetAdminStep ==
  ASSUME IInv, NEW g \in Groups, ResetAdmin(g)
  PROVE  IInv'
<1>1. TypeOK /\ PartInv /\ RootInv /\ StackInv /\ QuietInv /\ EmptyInv /\ FactInv
  BY DEF IInv
<1>2. /\ g \in resets /\ resets' = resets \ {g} /\ facts' = facts \ GroupNodes(g)
      /\ UNCHANGED <<alive, fenced, rep, init, import, work, targets, promoted, phase, stack, visited, found, fails, faults, raced>>
  BY DEF ResetAdmin
<1>3. phase = 6
  BY <1>1, <1>2 DEF FactInv
<1>4. TypeOK'
  BY <1>1, <1>2 DEF TypeOK
<1>5. PartInv' /\ EmptyInv'
  BY <1>1, <1>2 DEF PartInv, Present, Linked, EmptyInv, Busy
<1>6. RootInv' /\ QuietInv'
  BY <1>1, <1>2, <1>3 DEF RootInv, NoWriters, Present, QuietInv
<1>7. StackInv'
  BY <1>1, <1>2, <1>3 DEF StackInv, Depths, Current, Linked
<1>8. FactInv'
  <2>1. ASSUME NEW n \in facts' PROVE Group[n] \in resets' \/ (Group[n] = "g" /\ (~found \/ raced))
    <3>1. n \in facts /\ Group[n] # g
      BY <2>1, <1>1, <1>2 DEF GroupNodes, TypeOK
    <3> QED
      BY <3>1, <1>1, <1>2, <1>3 DEF FactInv
  <2> QED
    BY <2>1, <1>1, <1>2, <1>3 DEF FactInv
<1>9. DfsInv' /\ WalkInv'
  BY <1>2, <1>3, OtherTraversal
<1> QED
  BY <1>4, <1>5, <1>6, <1>7, <1>8, <1>9 DEF IInv

\* destroy() throws.
LEMMA ClientFailsStep ==
  ASSUME IInv, ClientFails
  PROVE  IInv'
<1>1. TypeOK /\ PartInv /\ RootInv
  BY DEF IInv
<1>2. /\ fails' = fails + 1 /\ phase' = 0 /\ stack' = <<>> /\ visited' = {} /\ resets' = {}
      /\ UNCHANGED <<nodeVars, found, faults, raced>>
  BY DEF ClientFails
<1>3. TypeOK'
  BY <1>1, <1>2 DEF TypeOK, nodeVars
<1>4. PartInv'
  BY <1>1, <1>2 DEF PartInv, Present, Linked, Busy, nodeVars
<1>5. RootInv' /\ QuietInv' /\ EmptyInv'
  BY <1>1, <1>2 DEF RootInv, NoWriters, Present, QuietInv, EmptyInv, nodeVars
<1>6. StackInv'
  BY <1>2 DEF StackInv, Depths
<1>7. FactInv'
  BY <1>1, <1>2 DEF FactInv, TypeOK
<1>8. DfsInv' /\ WalkInv'
  BY <1>2, OtherTraversal
<1> QED
  BY <1>3, <1>4, <1>5, <1>6, <1>7, <1>8 DEF IInv

\* Which phases have nothing to do.
LEMMA SkippedFacts ==
  /\ \A k \in {1, 2, 5} : Skipped(k) <=> Order[k] \notin Groups
  /\ Skipped(3) <=> "m" \notin Groups
  /\ Skipped(4) <=> ~found \/ "g" \notin Groups
  /\ ~Skipped(6)
  BY OrderFacts DEF Skipped

\* The groups of the nodes: an index has a writer.
LEMMA GroupFacts ==
  /\ \A n \in Nodes : Group[n] \in {"tc", "p", "m", "g"} /\ Group[n] \in Groups
  /\ "m" \notin Groups => "g" \notin Groups
<1>1. \A n \in Nodes : Group[n] \in {"tc", "p", "m", "g"} /\ Group[n] \in Groups
  BY TreeIsValid DEF Groups
<1>2. ASSUME "g" \in Groups PROVE "m" \in Groups
  <2>1. \E n \in Nodes : Group[n] = "g"
    BY <1>2 DEF Groups
  <2>2. PICK n \in Nodes : Group[n] = "m"
    BY <2>1, IndexHasWriter
  <2> QED
    BY <2>2 DEF Groups
<1> QED
  BY <1>1, <1>2

\* A phase begins with the root of its group.
LEMMA EnterFacts ==
  ASSUME TypeOK, NEW i \in 1 .. 7, Enter(i), i # 7 => ~Skipped(i)
  PROVE  /\ phase' = i /\ visited' = {} /\ stack' \in Seq(Frames) /\ resets' \in SUBSET Groups
         /\ resets' = IF i = 6 THEN {g \in Groups : g = "g" => found} ELSE {}
         /\ StackInv' /\ DfsInv' /\ WalkInv'
<1>1. phase' = i /\ visited' = {}
  BY DEF Enter
<1>2. resets' = (IF i = 6 THEN {g \in Groups : g = "g" => found} ELSE {}) /\ resets' \in SUBSET Groups
  <2>1. i # Done /\ Order[i] = "admins" <=> i = 6
    BY OrderFacts
  <2> QED
    BY <2>1 DEF Enter
<1>3. CASE i \in {6, 7}
  <2>1. stack' = <<>>
    BY <1>3, OrderFacts DEF Enter
  <2>2. StackInv'
    BY <2>1 DEF StackInv, Depths
  <2>3. DfsInv' /\ WalkInv'
    BY <1>1, <1>3, OtherTraversal
  <2> QED
    BY <2>1, <2>2, <2>3, <1>1, <1>2
<1>4. CASE i \in {1, 2, 3, 4, 5}
  <2>1. PICK g, at : g = (IF i = 3 THEN "m" ELSE Order[i]) /\ at = (IF i = 3 THEN "walk" ELSE "prepare")
    OBVIOUS
  <2>2. g \in Groups
    BY <2>1, <1>4, SkippedFacts, OrderFacts
  <2>3. PICK r \in Nodes : r = Root(g) /\ Group[r] = g /\ IsRoot(r)
    BY <2>2, RootFacts
  <2>4. stack' = <<Frame(r, at)>>
    BY <2>1, <2>3, <1>4, OrderFacts DEF Enter
  <2>5. PICK f : f = Frame(r, at)
    OBVIOUS
  <2>6. f \in Frames /\ f.n = r /\ f.at = at /\ f.todo = {}
    BY <2>1, <2>5 DEF Frame, Frames, DfsAts, WalkAts
  <2>7. stack' = <<f>> /\ stack' \in Seq(Frames) /\ stack' # <<>> /\ Len(stack') = 1 /\ stack'[1] = f
    BY <2>4, <2>5, <2>6
  <2>8. Depths' = {1} /\ Current' = g
    BY <2>1, <2>7, <1>1 DEF Depths, Current
  <2>9. at \in (IF i = 3 THEN WalkAts ELSE DfsAts)
    BY <2>1 DEF WalkAts, DfsAts
  <2>10. StackInv'
    BY <2>3, <2>6, <2>7, <2>8, <2>9, <1>1, <1>4 DEF StackInv
  <2>11. CASE i = 3
    <3>1. WalkInv'
      BY <2>1, <2>6, <2>7, <2>8, <2>11, <1>1 DEF WalkInv
    <3>2. DfsInv'
      BY <2>11, <1>1, OtherTraversal
    <3> QED
      BY <3>1, <3>2, <2>7, <2>10, <1>1, <1>2
  <2>12. CASE i # 3
    <3>1. FrameInv(1)'
      BY <2>1, <2>6, <2>7, <2>12 DEF FrameInv, Busy
    <3>2. DfsInv'
      BY <3>1, <2>7, <2>8, <1>1 DEF DfsInv
    <3>3. WalkInv'
      BY <2>12, <1>1, OtherTraversal
    <3> QED
      BY <3>2, <3>3, <2>7, <2>10, <1>1, <1>2
  <2> QED
    BY <2>11, <2>12
<1> QED
  BY <1>3, <1>4

\* destroy() is called.
LEMMA BeginStep ==
  ASSUME IInv, Begin
  PROVE  IInv'
<1>1. TypeOK /\ PartInv /\ RootInv /\ FactInv
  BY DEF IInv
<1>2. phase = 0 /\ found' = FALSE /\ UNCHANGED <<nodeVars, fails, faults, raced>>
  BY DEF Begin
<1>3. PICK i \in 1 .. Done : IsNext(1, i) /\ Enter(i)
  BY DEF Begin
<1>4. i \in 1 .. 7 /\ (i # 7 => ~Skipped(i)) /\ \A k \in 1 .. i - 1 : Skipped(k)
  BY <1>3, OrderFacts DEF IsNext
<1>5. /\ phase' = i /\ visited' = {} /\ stack' \in Seq(Frames) /\ resets' \in SUBSET Groups
      /\ resets' = IF i = 6 THEN {g \in Groups : g = "g" => found} ELSE {}
      /\ StackInv' /\ DfsInv' /\ WalkInv'
  BY <1>1, <1>3, <1>4, EnterFacts
<1>6. i # 7
  <2>1. i = 7 => 6 \in 1 .. i - 1
    OBVIOUS
  <2> QED
    BY <2>1, <1>4, SkippedFacts
<1>7. i > 3 => "m" \notin Groups /\ "g" \notin Groups
  <2>1. i > 3 => 3 \in 1 .. i - 1
    BY <1>4
  <2> QED
    BY <2>1, <1>4, SkippedFacts, GroupFacts
<1>8. i # 4
  BY <1>4, <1>7, SkippedFacts
<1>9. TypeOK'
  <2>1. phase' \in 0 .. 7 /\ visited' \in SUBSET Nodes
    BY <1>4, <1>5
  <2>2. stack' \in Seq(Frames) /\ resets' \in SUBSET Groups
    BY <1>5
  <2>3. found' \in BOOLEAN /\ raced' \in BOOLEAN
    <3>1. found' \in BOOLEAN
      BY <1>2, Zenon
    <3>2. raced' \in BOOLEAN
      BY <1>1, <1>2 DEF TypeOK
    <3> QED
      BY <3>1, <3>2
  <2>4. /\ alive' \in SUBSET Nodes /\ fenced' \in SUBSET Nodes /\ init' \in [Nodes -> InitStates]
        /\ work' \in SUBSET Nodes /\ targets' \in SUBSET Nodes /\ facts' \in SUBSET Nodes /\ promoted' \in SUBSET Nodes
        /\ rep' \in [Nodes -> States] /\ import' \in [Nodes -> ImportStates] /\ fails' \in Nat /\ faults' \in Nat
    BY <1>1, <1>2 DEF TypeOK, nodeVars
  <2> QED
    BY <2>1, <2>2, <2>3, <2>4 DEF TypeOK
<1>10. PartInv'
  BY <1>1, <1>2 DEF PartInv, Present, Linked, Busy, nodeVars
<1>11. RootInv'
  BY <1>1, <1>2 DEF RootInv, NoWriters, Present, nodeVars
<1>12. \A n \in Present' : n \in Nodes
  BY <1>1, <1>2 DEF Present, TypeOK, nodeVars
<1>13. QuietInv'
  <2>1. i > 3 => \A n \in Nodes : Group[n] # "m"
    BY <1>7, GroupFacts
  <2> QED
    BY <2>1, <1>5, <1>9 DEF QuietInv, TypeOK
<1>14. EmptyInv'
  <2> SUFFICES ASSUME NEW k \in 1 .. i - 1, NEW n \in Nodes PROVE Group[n] # Order[k]
    BY <1>5, <1>12 DEF EmptyInv
  <2>1. Skipped(k) /\ k \in 1 .. 6 /\ k < i
    BY <1>4
  <2>2. CASE k \in {1, 2, 5}
    BY <2>1, <2>2, SkippedFacts, GroupFacts
  <2>3. CASE k = 3
    BY <2>3, GroupFacts, OrderFacts
  <2>4. CASE k = 4
    <3>1. "g" \notin Groups /\ Order[4] = "g"
      BY <2>1, <2>4, <1>7, OrderFacts
    <3> QED
      BY <3>1, <2>4, GroupFacts
  <2>5. CASE k = 6
    BY <2>1, <2>5, SkippedFacts
  <2> QED
    BY <2>1, <2>2, <2>3, <2>4, <2>5
<1>15. FactInv'
  <2>1. \A r \in Nodes : IsRoot(r) /\ Group[r] = "m" => i <= 3
    BY <1>4, <1>7, GroupFacts
  <2>2. i = 6 => Nodes = {}
    <3>1. i = 6 => 1 \in 1 .. i - 1 /\ 2 \in 1 .. i - 1
      OBVIOUS
    <3>2. i = 6 => "tc" \notin Groups /\ "p" \notin Groups /\ "m" \notin Groups /\ "g" \notin Groups
      BY <3>1, <1>4, <1>7, SkippedFacts, OrderFacts
    <3> QED
      BY <3>2, GroupFacts
  <2>3. i = 6 => facts' = {}
    BY <2>2, <1>9 DEF TypeOK
  <2>4. fails' = 0 => \A r \in Nodes : IsRoot(r) /\ Group[r] = "m" => r \in alive' /\ r \in targets'
    BY <1>1, <1>2 DEF FactInv, nodeVars
  <2> QED
    BY <2>1, <2>3, <2>4, <1>5, <1>6, <1>8 DEF FactInv
<1> QED
  BY <1>5, <1>9, <1>10, <1>11, <1>13, <1>14, <1>15 DEF IInv

\* A phase ends, and the next one that has something to do begins.
LEMMA PhaseEndsStep ==
  ASSUME IInv, PhaseEnds
  PROVE  IInv'
<1>1. TypeOK /\ PartInv /\ RootInv /\ DfsInv /\ WalkInv /\ QuietInv /\ EmptyInv /\ FactInv
  BY DEF IInv
<1>2. phase \in 1 .. 6 /\ stack = <<>> /\ resets = {} /\ UNCHANGED <<nodeVars, found, fails, faults, raced>>
  BY OrderFacts DEF PhaseEnds
<1>3. PICK i \in phase + 1 .. Done : IsNext(phase + 1, i) /\ Enter(i)
  BY DEF PhaseEnds
<1>4. i \in 1 .. 7 /\ phase < i /\ (i # 7 => ~Skipped(i)) /\ \A k \in phase + 1 .. i - 1 : Skipped(k)
  BY <1>2, <1>3, OrderFacts DEF IsNext
<1>5. /\ phase' = i /\ visited' = {} /\ stack' \in Seq(Frames) /\ resets' \in SUBSET Groups
      /\ resets' = IF i = 6 THEN {g \in Groups : g = "g" => found} ELSE {}
      /\ StackInv' /\ DfsInv' /\ WalkInv'
  BY <1>1, <1>3, <1>4, EnterFacts
<1>6. i = 7 => phase = 6
  <2>1. i = 7 /\ phase # 6 => 6 \in phase + 1 .. i - 1
    BY <1>2
  <2> QED
    BY <2>1, <1>4, SkippedFacts
<1>7. i > 3 /\ phase < 3 => "m" \notin Groups /\ "g" \notin Groups
  <2>1. i > 3 /\ phase < 3 => 3 \in phase + 1 .. i - 1
    BY <1>2, <1>4
  <2> QED
    BY <2>1, <1>4, SkippedFacts, GroupFacts
<1>8. Present \in SUBSET Nodes /\ Present' = Present
  BY <1>1, <1>2 DEF Present, TypeOK, nodeVars
<1>9. TypeOK'
  <2>1. phase' \in 0 .. 7 /\ visited' \in SUBSET Nodes
    BY <1>4, <1>5
  <2>2. stack' \in Seq(Frames) /\ resets' \in SUBSET Groups
    BY <1>5
  <2> QED
    BY <2>1, <2>2, <1>1, <1>2 DEF TypeOK, nodeVars
<1>10. PartInv'
  BY <1>1, <1>2 DEF PartInv, Present, Linked, Busy, nodeVars
<1>11. RootInv'
  <2>1. phase' \in 1 .. 4 => phase \in 1 .. 4
    BY <1>2, <1>4, <1>5
  <2>2. NoWriters' <=> NoWriters
    BY <1>2 DEF NoWriters, Present, nodeVars
  <2>3. alive' = alive /\ targets' = targets /\ found' = found
    BY <1>2 DEF nodeVars
  <2> QED
    BY <2>1, <2>2, <2>3, <1>1 DEF RootInv
<1>12. phase = 3 => \A r \in Nodes : IsRoot(r) /\ Group[r] = "m" => r \in visited /\ (r \in targets => found)
  BY <1>1, <1>2, WalkFacts
<1>13. ASSUME phase = 3, ~raced, NEW n \in alive, Group[n] = "m" PROVE Closed(n)
  <2> DEFINE S == {m \in alive : Group[m] = "m" /\ m \notin visited}
  <2>1. alive \in SUBSET Nodes
    BY <1>1 DEF TypeOK
  <2>2. \A m \in visited, c \in Nodes : m \in alive /\ Parent[c] = m /\ Linked(c) => c \in visited
    <3>1. Depths = {}
      BY <1>2 DEF Depths
    <3>2. \A m, c : ~OnStack(c) /\ ~Pending(m, c)
      BY <3>1 DEF OnStack, Pending
    <3>3. \A m \in visited, c \in Nodes : m \in alive /\ Parent[c] = m /\ Linked(c) => raced \/ c \in visited \/ OnStack(c) \/ Pending(m, c)
      BY <1>1, <1>13, WalkFacts
    <3> QED
      BY <3>2, <3>3, <1>13
  <2>3. ASSUME NEW m \in S PROVE Parent[m] \in S
    <3>1. m \in Nodes /\ ~IsRoot(m)
      BY <2>1, <1>12, <1>13
    <3>2. Linked(m) /\ Parent[m] \in alive
      BY <3>1, <1>1 DEF PartInv, Present, Linked
    <3>3. Parent[m] \in Nodes /\ Group[Parent[m]] = "m"
      BY <3>1, ParentFacts
    <3> QED
      BY <3>1, <3>2, <3>3, <2>2
  <2>4. S \in SUBSET Nodes
    BY <2>1
  <2>5. S = {}
    <3> HIDE DEF S
    <3> QED
      BY <2>3, <2>4, NoOrphans
  <2>6. n \in visited
    BY <2>5, <1>13
  <2> QED
    BY <2>6, <1>1, <1>2, <1>13, WalkFacts
<1>14. QuietInv'
  <2> SUFFICES ASSUME i \in {4, 5}, ~raced, NEW n \in alive, Group[n] = "m" PROVE Closed(n)
    BY <1>2, <1>5 DEF QuietInv, Closed, nodeVars, Busy
  <2>1. phase < 3 \/ phase = 3 \/ phase = 4
    BY <1>2, <1>4
  <2>2. phase # 4 => phase = 3
    <3>1. n \in Nodes
      BY <1>8 DEF Present
    <3> QED
      BY <2>1, <3>1, <1>7, GroupFacts
  <2> QED
    BY <2>2, <1>1, <1>13 DEF QuietInv
<1>15. \A n \in Present : Group[n] # Order[phase] \/ (raced /\ Group[n] = "g")
  <2>0. CASE phase = 4 /\ raced
    BY <2>0, OrderFacts
  <2>1. CASE phase \in {1, 2, 4, 5} /\ ~(phase = 4 /\ raced)
    <3>1. PICK g : g = Order[phase]
      OBVIOUS
    <3>2. \A r \in Nodes : IsRoot(r) /\ Group[r] = g => r \notin Present
      BY <2>1, <3>1, <1>1, <1>2, DfsFacts DEF Current
    <3> QED
      BY <3>1, <3>2, <1>1, EmptyGroup
  <2>2. CASE phase \in {3, 6}
    BY <2>2, <1>8, OrderFacts, GroupFacts
  <2> QED
    BY <2>0, <2>1, <2>2, <1>2
<1>16. ASSUME NEW k \in phase + 1 .. i - 1, NEW n \in Present PROVE Group[n] # Order[k] \/ (raced /\ Group[n] = "g")
  <2>1. Skipped(k) /\ k \in 1 .. 6 /\ phase < k /\ k < i /\ n \in Nodes
    BY <1>2, <1>4, <1>8
  <2>2. CASE k \in {1, 2, 5}
    BY <2>1, <2>2, SkippedFacts, GroupFacts
  <2>3. CASE k = 3
    BY <2>1, <2>3, GroupFacts, OrderFacts
  <2>4. CASE k = 4
    <3>1. Order[4] = "g"
      BY OrderFacts
    <3>2. CASE "g" \notin Groups
      BY <3>1, <3>2, <2>1, <2>4, GroupFacts
    <3>3. CASE "g" \in Groups
      <4>1. ~found /\ "m" \in Groups
        BY <3>3, <2>1, <2>4, SkippedFacts, GroupFacts
      <4>2. phase = 3
        BY <4>1, <2>1, <2>4, <1>2, <1>7
      <4>3. PICK r \in Nodes : IsRoot(r) /\ Group[r] = "m"
        BY <4>1, RootFacts
      <4>4. r \notin targets
        BY <4>1, <4>2, <4>3, <1>12
      <4>5. NoWriters
        BY <4>3, <4>4, <1>1 DEF RootInv
      <4> QED
        BY <4>5, <3>1, <2>4 DEF NoWriters
    <3> QED
      BY <3>2, <3>3
  <2>5. CASE k = 6
    BY <2>1, <2>5, SkippedFacts
  <2> QED
    BY <2>1, <2>2, <2>3, <2>4, <2>5
<1>17. EmptyInv'
  <2> SUFFICES ASSUME NEW k \in 1 .. i - 1, NEW n \in Present PROVE Group[n] # Order[k] \/ (raced /\ Group[n] = "g")
    BY <1>2, <1>5, <1>8 DEF EmptyInv
  <2>1. k \in 1 .. phase - 1 \/ k = phase \/ k \in phase + 1 .. i - 1
    BY <1>2, <1>4
  <2> QED
    BY <2>1, <1>1, <1>15, <1>16 DEF EmptyInv
<1>18. FactInv'
  <2>1. i = 4 => found
    BY <1>4, SkippedFacts
  <2>2. ASSUME i = 6, NEW n \in facts PROVE Group[n] \in resets' \/ (Group[n] = "g" /\ (~found \/ raced))
    <3>1. n \in Nodes
      BY <1>1 DEF TypeOK
    <3>2. Group[n] \in Groups
      BY <3>1, GroupFacts
    <3> QED
      BY <3>2, <2>2, <1>5
  <2>3. ASSUME fails = 0, NEW r \in Nodes, IsRoot(r), Group[r] = "m"
        PROVE  IF i <= 3 THEN r \in alive /\ r \in targets ELSE found
    <3>1. IF phase <= 3 THEN r \in alive /\ r \in targets ELSE found
      BY <2>3, <1>1 DEF FactInv
    <3>2. phase < 3 => i <= 3
      BY <2>3, <1>4, <1>7, GroupFacts
    <3> QED
      BY <3>1, <3>2, <2>3, <1>2, <1>4, <1>12
  <2>4. ASSUME i = 7, ~raced, NEW n \in facts PROVE Group[n] = "g" /\ fails > 0
    <3>1. phase = 6 /\ n \in Nodes
      BY <2>4, <1>1, <1>6 DEF TypeOK
    <3>2. Group[n] = "g" /\ ~found
      BY <3>1, <2>4, <1>1, <1>2 DEF FactInv
    <3>3. "m" \in Groups
      BY <3>1, <3>2, GroupFacts
    <3>4. PICK r \in Nodes : IsRoot(r) /\ Group[r] = "m"
      BY <3>3, RootFacts
    <3>5. fails = 0 => found
      BY <3>1, <3>4, <1>1 DEF FactInv
    <3> QED
      BY <3>2, <3>5, <1>1 DEF TypeOK
  <2>8. ASSUME i = 7, raced, NEW n \in facts PROVE Group[n] = "g"
    BY <2>8, <1>1, <1>2, <1>6 DEF FactInv
  <2>5. facts' = facts /\ raced' = raced /\ alive' = alive /\ targets' = targets /\ found' = found /\ fails' = fails
    BY <1>2 DEF nodeVars
  <2>6. phase' # 6 => resets' = {}
    BY <1>5
  <2>7. phase' = i
    BY <1>5
  <2> QED
    BY <2>1, <2>2, <2>3, <2>4, <2>5, <2>6, <2>7, <2>8 DEF FactInv
<1> QED
  BY <1>5, <1>9, <1>10, <1>11, <1>14, <1>17, <1>18 DEF IInv

----------------------------------------------------------------------------
(* The theorems.                                                           *)

\* The invariant holds at the start: the roots exist.
LEMMA InitInv ==
  ASSUME Init
  PROVE  IInv
<1>1. /\ alive = Roots /\ fenced = {} /\ rep = [n \in Nodes |-> "none"]
      /\ init = [n \in Nodes |-> "pending"] /\ import = [n \in Nodes |-> "none"]
      /\ work = Roots /\ targets = {n \in Roots : Group[n] = "m"}
      /\ facts = {} /\ promoted = {}
      /\ phase = 0 /\ stack = <<>> /\ visited = {} /\ found = FALSE /\ resets = {}
      /\ fails = 0 /\ faults = 0 /\ raced = FALSE
  BY DEF Init
<1>2. /\ \A r \in Roots : r \in Nodes /\ IsRoot(r)
      /\ \A r \in Nodes : IsRoot(r) => r \in Roots
  BY RootFacts DEF Roots
<1>3. TypeOK
  <2>1. alive \in SUBSET Nodes /\ work \in SUBSET Nodes /\ targets \in SUBSET Nodes
    BY <1>1, <1>2
  <2>2. rep \in [Nodes -> States] /\ init \in [Nodes -> InitStates] /\ import \in [Nodes -> ImportStates]
    BY <1>1 DEF States, InitStates, ImportStates
  <2>3. stack \in Seq(Frames)
    BY <1>1
  <2>4. found \in BOOLEAN /\ raced \in BOOLEAN
    BY <1>1, Zenon
  <2>5. fenced = {} /\ facts = {} /\ promoted = {} /\ phase = 0 /\ visited = {} /\ resets = {} /\ fails = 0 /\ faults = 0
    BY <1>1
  <2> QED
    BY <2>1, <2>2, <2>3, <2>4, <2>5 DEF TypeOK
<1>4. PartInv
  <2>1. \A n \in Nodes : ~Busy(n)
    BY <1>1, ChildFacts DEF Busy
  <2> QED
    BY <2>1, <1>1, <1>2 DEF PartInv, Present
<1>5. RootInv
  BY <1>1, <1>2 DEF RootInv
<1>6. StackInv
  BY <1>1 DEF StackInv, Depths
<1>7. DfsInv /\ WalkInv /\ QuietInv
  BY <1>1 DEF DfsInv, WalkInv, QuietInv
<1>8. EmptyInv
  BY <1>1 DEF EmptyInv
<1>9. FactInv
  BY <1>1, <1>2 DEF FactInv
<1> QED
  BY <1>3, <1>4, <1>5, <1>6, <1>7, <1>8, <1>9 DEF IInv

\* Every step keeps it.
LEMMA Inductive ==
  ASSUME IInv, [Next]_vars
  PROVE  IInv'
<1>1. ASSUME NEW n \in Nodes,
             \/ Queue(n) \/ Plan(n) \/ SendInit(n) \/ InitArrives(n) \/ InitFails(n) \/ InitSettles(n) \/ Cutover(n) \/ Import(n) \/ Report(n) \/ Restart(n)
             \/ \E d \in Nodes : Send(n, d)
      PROVE  IInv'
  BY <1>1, PartitionStep
<1>2. CASE UNCHANGED vars
  <2>1. UNCHANGED <<alive, fenced, rep, init, import, work, targets, facts, promoted>>
    BY <1>2 DEF vars, nodeVars
  <2>2. UNCHANGED <<phase, stack, visited, found, resets, fails, faults, raced>>
    BY <1>2 DEF vars, clientVars
  <2> QED
    BY <2>1, <2>2 DEF IInv, TypeOK, PartInv, RootInv, NoWriters, StackInv, DfsInv, WalkInv, QuietInv, EmptyInv, FactInv, Present,
                      Linked, Depths, Current, FrameInv, OnStack, Past, Closed, Busy, Pending, Top
<1>3. ASSUME ClientStep PROVE IInv'
  <2>1. ASSUME NEW g \in Groups, ResetAdmin(g) PROVE IInv'
    BY <2>1, ResetAdminStep
  <2>2. CASE Begin \/ PhaseEnds
    BY <2>2, BeginStep, PhaseEndsStep
  <2>3. CASE Prepare \/ PrepareEnds \/ ReadStatus \/ VisitTarget \/ ReadPromotions \/ ResetPromoted \/ DestroyPartition
    BY <2>3, PrepareStep, PrepareEndsStep, ReadStatusStep, VisitTargetStep, ReadPromotionsStep, ResetPromotedStep,
       DestroyPartitionStep
  <2>4. CASE WalkStatus \/ WalkFence \/ WalkReadTargets \/ WalkTarget \/ WalkReadPromotions \/ WalkEnds
    BY <2>4, WalkStatusStep, WalkFenceStep, WalkReadTargetsStep, WalkTargetStep, WalkReadPromotionsStep, WalkEndsStep
  <2> QED
    BY <2>1, <2>2, <2>3, <2>4, <1>3 DEF ClientStep
<1>4. ASSUME ClientFails PROVE IInv'
  BY <1>4, ClientFailsStep
<1> QED
  BY <1>1, <1>2, <1>3, <1>4 DEF Next

\* The invariant is one of the specification.
LEMMA Invariance ==
  Spec => []IInv
<1>1. IInv /\ [Next]_vars => IInv'
  BY Inductive
<1> QED
  BY <1>1, InitInv, PTL DEF Spec

\* The state of Destroy has its types; the frames of the traversal are partitions, where the client is with
\* them and targets that it has not visited.
THEOREM DestroyTypes ==
  Spec => []TypeOK
<1>1. IInv => TypeOK
  BY DEF IInv
<1> QED
  BY <1>1, Invariance, PTL

\* A destroy that returns leaves no Durable Object of the table behind, but for those of an index after a
\* split that the walk missed, and one that stops halfway leaves none that the next one cannot find: for
\* every tree of partitions, any number of failures and restarts.
THEOREM DestroyedTableIsGone ==
  Spec => []NothingLeftBehind
<1>1. ASSUME IInv PROVE NothingLeftBehind
  <2>1. TypeOK /\ PartInv /\ EmptyInv
    BY <1>1 DEF IInv
  <2>2. ASSUME phase = Done, NEW n \in Present PROVE Group[n] = "g" /\ raced
    <3>1. phase = 7
      BY <2>2, OrderFacts
    <3>2. \A i \in {1, 2, 4, 5} : Group[n] # Order[i] \/ (raced /\ Group[n] = "g")
      BY <3>1, <2>1 DEF EmptyInv
    <3>3. n \in Nodes
      BY <2>1 DEF TypeOK, Present
    <3> QED
      BY <3>2, <3>3, OrderFacts, GroupFacts
  <2> QED
    BY <2>1, <2>2 DEF NothingLeftBehind, PartInv, Present, IsRoot
<1> QED
  BY <1>1, Invariance, PTL

\* A group whose traversal ended has no partition again: the coordinators go before the partitions they
\* commit into, and these before the materialization.  Only an index comes back, after a missed split.
THEOREM WritersGoFirst ==
  Spec => []OnlyAnIndexComesBack
<1>1. ASSUME IInv PROVE OnlyAnIndexComesBack
  <2>1. EmptyInv
    BY <1>1 DEF IInv
  <2> SUFFICES ASSUME NEW i \in 1 .. phase - 1, NEW n \in alive, Group[n] = Order[i] PROVE Group[n] = "g" /\ raced
    BY DEF OnlyAnIndexComesBack, Finished
  <2> QED
    BY <2>1 DEF EmptyInv, Present
<1> QED
  BY <1>1, Invariance, PTL

\* A destroy that returns has reset the promoted routingHashes and the facts of the groups, except those of
\* an index that a failed destroy left without its writers or that came back after a missed split.
THEOREM TopologyIsForgotten ==
  Spec => []KnownTopologyIsReset
<1>1. ASSUME IInv, phase = Done
      PROVE  /\ \A n \in facts : Group[n] = "g" /\ (fails > 0 \/ raced)
             /\ \A c \in promoted : Group[c] = "g" /\ raced
  <2>1. TypeOK /\ PartInv /\ EmptyInv /\ FactInv
    BY <1>1 DEF IInv
  <2>2. phase = 7
    BY <1>1, OrderFacts
  <2>3. ASSUME NEW n \in alive PROVE Group[n] = "g" /\ raced
    <3>1. \A i \in {1, 2, 4, 5} : Group[n] # Order[i] \/ (raced /\ Group[n] = "g")
      BY <2>1, <2>2 DEF EmptyInv, Present
    <3>2. n \in Nodes
      BY <2>1 DEF TypeOK
    <3> QED
      BY <3>1, <3>2, OrderFacts, GroupFacts
  <2>4. ASSUME NEW c \in promoted PROVE Group[c] = "g" /\ raced
    <3>1. c \in Nodes /\ ~IsRoot(c) /\ Parent[c] \in alive
      BY <2>1 DEF PartInv, TypeOK
    <3> QED
      BY <3>1, <2>3, ParentFacts
  <2> QED
    BY <2>1, <2>2, <2>4 DEF FactInv
<1>2. IInv => KnownTopologyIsReset
  BY <1>1 DEF KnownTopologyIsReset
<1> QED
  BY <1>2, Invariance, PTL
=============================================================================
