------------------------------ MODULE Destroy ------------------------------
(***************************************************************************)
(* db.destroy(): the traversals of sharding/client.ts (destroy and walk)   *)
(* over the shard groups of a table, in the order of client/db.ts, against *)
(* partitions that repartition, report and write to each other meanwhile.  *)
(*                                                                         *)
(* The groups are the coordinators "tc", the base partitions "p", the      *)
(* materialization partitions "m" and the partitions "g" of a GSI.  Each   *)
(* writes into the next one: a coordinator commits into the base           *)
(* partitions, these export, the materialization partitions write the GSI. *)
(* A write reaches the owner through the root of its group; a root that    *)
(* has no identity gets one.  Nobody else uses the table during a destroy, *)
(* and a call ends with its caller: no call is delivered after the abort   *)
(* of the instance that sent it.                                           *)
(*                                                                         *)
(* A node is a partition of a group.  The tree Parent gives the            *)
(* repartition that a node may run: Kind says whether its children are     *)
(* the targets of a split or of key promotions.                            *)
(*                                                                         *)
(* The walk reads the status of a materialization partition before its     *)
(* caller fences it.  A split that the partition plans in between is one   *)
(* that the walk never sees.  The history variable `raced' remembers it,   *)
(* and the properties say what such a split can break and what it cannot.  *)
(***************************************************************************)
EXTENDS Naturals, Sequences, FiniteSets

CONSTANTS
  Nodes, NoNode,
  Group,      \* [Nodes -> {"tc", "p", "m", "g"}]
  Parent,     \* [Nodes -> Nodes \cup {NoNode}]: NoNode for the root of a group
  Kind,       \* [Nodes -> {"split", "promotion"}]
  MaxFails,   \* failures of the client
  MaxFaults   \* restarts of partitions

ASSUME TreeIsValid ==
  /\ Group \in [Nodes -> {"tc", "p", "m", "g"}] /\ Kind \in [Nodes -> {"split", "promotion"}]
  /\ Parent \in [Nodes -> Nodes \cup {NoNode}] /\ NoNode \notin Nodes
  /\ \A n \in Nodes : Parent[n] # NoNode => Group[Parent[n]] = Group[n]

\* The nodes of a group are one tree: nobody is his own ancestor, and there is one root.
ASSUME GroupsAreTrees ==
  /\ \A S \in SUBSET Nodes : S # {} => \E n \in S : Parent[n] \notin S
  /\ \A n, o \in Nodes : Parent[n] = NoNode /\ Parent[o] = NoNode /\ Group[n] = Group[o] => n = o

\* An index is written by a materialization partition only.
ASSUME IndexHasWriter == (\E n \in Nodes : Group[n] = "g") => \E n \in Nodes : Group[n] = "m"

ASSUME BoundsAreValid == MaxFails \in Nat /\ MaxFaults \in Nat

VARIABLES
  alive,    \* the nodes with an identity in their storage
  fenced,   \* the nodes with the destroy fence in their storage
  rep,      \* [Nodes -> the state of the repartition]
  init,     \* [Nodes -> the init call of the source to this target]
  import,   \* [Nodes -> "none", "awaiting" or "imported"]
  work,     \* the nodes that hold data to write into the next group
  targets,  \* the materialization nodes that store the target list of the table
  facts,    \* the nodes whose repartition the admin of their group knows
  promoted, \* the nodes that the admin of their routingHash knows as its range root
  phase,    \* the client: the index of its phase in Order, 0 between two destroys
  stack,    \* the frames of the traversal
  visited, found, resets, fails, faults,
  raced     \* history: a split was planned between the two calls of the walk to its partition

nodeVars == <<alive, fenced, rep, init, import, work, targets, facts, promoted>>
clientVars == <<phase, stack, visited, found, resets>>
vars == <<nodeVars, clientVars, fails, faults, raced>>

Children(n) == {c \in Nodes : Parent[c] = n}
Root(g) == CHOOSE n \in Nodes : Group[n] = g /\ Parent[n] = NoNode
Groups == {Group[n] : n \in Nodes}
GroupNodes(g) == {n \in Nodes : Group[n] = g}
Top == stack[Len(stack)]
At(at) == stack # <<>> /\ Top.at = at
Path[n \in Nodes] == IF Parent[n] = NoNode THEN {n} ELSE {n} \cup Path[Parent[n]]

----------------------------------------------------------------------------
(* The partitions.                                                         *)

States == {"none", "queued", "planned", "cutover", "completed"}
InitStates == {"pending", "sent", "done", "failed", "initialized"}
REPARTITION_RPC_CONCURRENCY == 6
CutOver(n) == rep[n] \in {"cutover", "completed"}
IsRouter(n) == Kind[n] = "split" /\ CutOver(n)

\* A node that may take a background step: the pass reads the fence before each step.
Works(n) == n \in alive /\ n \notin fenced

\* A node that owns keys and serves them.
Owns(n) == Works(n) /\ ~IsRouter(n) /\ import[n] # "awaiting"

\* A repartition is queued.
Queue(n) ==
  /\ Owns(n) /\ Children(n) # {} /\ rep[n] = "none"
  /\ rep' = [rep EXCEPT ![n] = "queued"]
  /\ UNCHANGED <<alive, fenced, init, import, work, targets, facts, promoted, clientVars, fails, faults, raced>>

\* The walk has the status of n and has not fenced it yet.
AwaitsFence(n) == At("yield") /\ Top.n = n

\* The plan writes the target rows, the links of the traversal, before any target exists.
Plan(n) ==
  /\ Works(n) /\ rep[n] = "queued"
  /\ rep' = [rep EXCEPT ![n] = "planned"]
  /\ raced' = (raced \/ (Kind[n] = "split" /\ AwaitsFence(n)))
  /\ UNCHANGED <<alive, fenced, init, import, work, targets, facts, promoted, clientVars, fails, faults>>

\* The init calls of the pass of n are in flight: none has an outcome before all are settled.
Busy(n) == \E c \in Children(n) : init[c] \in {"sent", "done", "failed"}
SettledInit == [sent |-> "pending", done |-> "initialized", failed |-> "pending"]

\* The pass calls some of the targets: those that a retry holds back are not due.
SendInit(n) ==
  /\ Works(n) /\ rep[n] = "planned" /\ ~Busy(n)
  /\ \E due \in SUBSET {c \in Children(n) : init[c] = "pending"} :
       /\ due # {} /\ Cardinality(due) <= REPARTITION_RPC_CONCURRENCY
       /\ init' = [c \in Nodes |-> IF c \in due THEN "sent" ELSE init[c]]
  /\ UNCHANGED <<alive, fenced, rep, import, work, targets, facts, promoted, clientVars, fails, faults, raced>>

\* fokosInit gives the target its identity; a repeated call keeps its import record.
InitArrives(c) ==
  /\ init[c] = "sent" /\ c \notin fenced
  /\ init' = [init EXCEPT ![c] = "done"]
  /\ alive' = alive \cup {c}
  /\ import' = IF c \in alive THEN import ELSE [import EXCEPT ![c] = "awaiting"]
  /\ UNCHANGED <<fenced, rep, work, targets, facts, promoted, clientVars, fails, faults, raced>>

\* The call or its answer is lost.
InitFails(c) ==
  /\ faults < MaxFaults /\ faults' = faults + 1
  /\ init[c] \in {"sent", "done"}
  /\ init' = [init EXCEPT ![c] = "failed"]
  /\ UNCHANGED <<alive, fenced, rep, import, work, targets, facts, promoted, clientVars, fails, raced>>

\* Mutant of InitSettles: a pass that finds the fence set never ends.
InitSettlesUnfenced(n) ==
  /\ Busy(n) /\ \A c \in Children(n) : init[c] # "sent"
  /\ n \notin fenced
  /\ init' = [c \in Nodes |-> IF c \in Children(n) /\ init[c] \in DOMAIN SettledInit
                              THEN SettledInit[init[c]] ELSE init[c]]
  /\ UNCHANGED <<alive, fenced, rep, import, work, targets, facts, promoted, clientVars, fails, faults, raced>>

\* Every call has its outcome, and the pass records them.
InitSettles(n) ==
  /\ Busy(n) /\ \A c \in Children(n) : init[c] # "sent"
  /\ init' = [c \in Nodes |-> IF c \in Children(n) /\ init[c] \in DOMAIN SettledInit
                              THEN SettledInit[init[c]] ELSE init[c]]
  /\ UNCHANGED <<alive, fenced, rep, import, work, targets, facts, promoted, clientVars, fails, faults, raced>>

Cutover(n) ==
  /\ Works(n) /\ rep[n] = "planned" /\ \A c \in Children(n) : init[c] = "initialized"
  /\ rep' = [rep EXCEPT ![n] = "cutover"]
  /\ UNCHANGED <<alive, fenced, init, import, work, targets, facts, promoted, clientVars, fails, faults, raced>>

\* The target pulls the pages of its source; a fenced source serves none.
Import(c) ==
  LET n == Parent[c]
      acked == \A d \in Children(n) \ {c} : import[d] = "imported"
  IN /\ n # NoNode /\ Works(c) /\ import[c] = "awaiting"
     /\ Works(n) /\ rep[n] = "cutover"
     /\ import' = [import EXCEPT ![c] = "imported"]
     /\ work' = IF n \in work THEN work \cup {c} ELSE work
     /\ targets' = IF n \in targets THEN targets \cup {c} ELSE targets
     /\ rep' = IF acked THEN [rep EXCEPT ![n] = "completed"] ELSE rep
     /\ UNCHANGED <<alive, fenced, init, facts, promoted, clientVars, fails, faults, raced>>

\* The admin outbox.
Report(n) ==
  /\ Works(n) /\ rep[n] = "completed" /\ n \notin facts
  /\ facts' = facts \cup {n}
  /\ promoted' = IF Kind[n] = "promotion" THEN promoted \cup Children(n) ELSE promoted
  /\ UNCHANGED <<alive, fenced, rep, init, import, work, targets, clientVars, fails, faults, raced>>

NextGroup == [g \in {"tc", "p", "m"} |-> CASE g = "tc" -> "p" [] g = "p" -> "m" [] g = "m" -> "g"]

\* The partitions that a write into a group can reach.
Reached(g) ==
  IF Root(g) \notin alive
  THEN IF Root(g) \in fenced THEN {} ELSE {Root(g)}
  ELSE {n \in GroupNodes(g) : Owns(n) /\ \A a \in Path[n] \ {n} : Works(a) /\ CutOver(a)}

\* A commit, an export or a write of a GSI entry.
Send(n, d) ==
  /\ Owns(n) /\ n \in work
  /\ Group[n] \in DOMAIN NextGroup /\ NextGroup[Group[n]] \in Groups
  /\ d \in Reached(NextGroup[Group[n]])
  /\ alive' = alive \cup {d}
  /\ work' = work \cup {d}
  /\ targets' = IF Group[d] = "m" THEN targets \cup {d} ELSE targets
  /\ UNCHANGED <<fenced, rep, init, import, facts, promoted, clientVars, fails, faults, raced>>

\* The rows of the targets of n without a recorded answer.
Forgotten(n) == [c \in Nodes |-> IF c \in Children(n) /\ init[c] # "initialized" THEN "pending" ELSE init[c]]

\* A restart ends the pass and its calls, with the answers that it did not record.
Restart(n) ==
  /\ faults < MaxFaults /\ faults' = faults + 1
  /\ Busy(n)
  /\ init' = Forgotten(n)
  /\ UNCHANGED <<alive, fenced, rep, import, work, targets, facts, promoted, clientVars, fails, raced>>

----------------------------------------------------------------------------
(* The traversal.  A frame is one partition: where the client is with it   *)
(* and the targets that it still has to visit.                             *)

\* Mutants of Order: the data before its writers; the topology before the partitions.
OrderPartitionsFirst == <<"p", "tc", "walk", "g", "m", "admins">>
OrderAdminsFirst == <<"tc", "admins", "p", "walk", "g", "m">>

Order == <<"tc", "p", "walk", "g", "m", "admins">>

Frame(n, at) == [n |-> n, at |-> at, todo |-> {}]
Done == Len(Order) + 1
Step(at, todo) == stack' = [stack EXCEPT ![Len(stack)] = [@ EXCEPT !.at = at, !.todo = todo]]
Pop == stack' = SubSeq(stack, 1, Len(stack) - 1)

\* The entries of a status with a target.
Links(n, kind) == IF n \in alive /\ Kind[n] = kind /\ rep[n] \notin {"none", "queued"} THEN Children(n) ELSE {}

\* The next phase that has something to do, with the root of its group.
Skipped(i) ==
  CASE Order[i] = "walk" -> "m" \notin Groups
    [] Order[i] = "g" -> ~found \/ "g" \notin Groups
    [] Order[i] = "admins" -> FALSE
    [] OTHER -> Order[i] \notin Groups

IsNext(i, j) == (j # Done => ~Skipped(j)) /\ \A k \in i .. j - 1 : Skipped(k)

Enter(i) ==
  /\ phase' = i
  /\ visited' = {}
  /\ stack' = IF i = Done \/ Order[i] = "admins" THEN <<>>
              ELSE IF Order[i] = "walk" THEN <<Frame(Root("m"), "walk")>>
              ELSE <<Frame(Root(Order[i]), "prepare")>>
  /\ resets' = IF i # Done /\ Order[i] = "admins"
               THEN {g \in Groups : g = "g" => found} ELSE {}

\* A call of destroy(), the first one or a later one.
Begin ==
  /\ phase = 0
  /\ found' = FALSE
  /\ \E i \in 1 .. Done : IsNext(1, i) /\ Enter(i)
  /\ UNCHANGED <<nodeVars, fails, faults, raced>>

PhaseEnds ==
  /\ phase \in 1 .. Len(Order) /\ stack = <<>> /\ resets = {}
  /\ \E i \in phase + 1 .. Done : IsNext(phase + 1, i) /\ Enter(i)
  /\ UNCHANGED <<nodeVars, found, fails, faults, raced>>

\* A call of the client fails: destroy() throws.
ClientFails ==
  /\ phase \in 1 .. Len(Order) /\ fails < MaxFails
  /\ fails' = fails + 1
  /\ phase' = 0 /\ stack' = <<>> /\ visited' = {} /\ resets' = {}
  /\ UNCHANGED <<nodeVars, found, faults, raced>>

\* fokosPrepareDestroy writes the fence, and an identity into an empty root.
Prepared(n) ==
  /\ fenced' = fenced \cup {n}
  /\ alive' = IF Parent[n] = NoNode THEN alive \cup {n} ELSE alive
  /\ UNCHANGED <<rep, init, import, work, targets, facts, promoted, visited, found, resets, phase, fails, faults, raced>>

Prepare == At("prepare") /\ Prepared(Top.n) /\ Step("wait", {})

\* It answers after the pass in flight.
PrepareEnds ==
  /\ At("wait") /\ ~Busy(Top.n)
  /\ Step("status", {})
  /\ UNCHANGED <<nodeVars, phase, visited, found, resets, fails, faults, raced>>

\* Mutant of ReadStatus: the read of the links misses a repartition that has not cut over.
ReadStatusAfterCutover ==
  /\ At("status")
  /\ Step("targets", IF CutOver(Top.n) THEN Links(Top.n, "split") ELSE {})
  /\ UNCHANGED <<nodeVars, phase, visited, found, resets, fails, faults, raced>>

\* fokosStatus: the split entries.
ReadStatus ==
  /\ At("status")
  /\ Step("targets", Links(Top.n, "split"))
  /\ UNCHANGED <<nodeVars, phase, visited, found, resets, fails, faults, raced>>

\* The frame of the next target, unless the traversal was there.
Visit(c, at) ==
  LET popped == [stack EXCEPT ![Len(stack)].todo = @ \ {c}]
  IN /\ stack' = IF c \in visited THEN popped ELSE Append(popped, Frame(c, at))
     /\ visited' = visited \cup {c}

VisitTarget ==
  /\ At("targets") \/ At("promotions")
  /\ \E c \in Top.todo : Visit(c, "prepare")
  /\ UNCHANGED <<nodeVars, phase, found, resets, fails, faults, raced>>

\* The pages of the promotions are read after the split targets.
ReadPromotions ==
  /\ At("targets") /\ Top.todo = {}
  /\ Step("promotions", Links(Top.n, "promotion"))
  /\ UNCHANGED <<nodeVars, phase, visited, found, resets, fails, faults, raced>>

\* beforeDestroy resets the admins of the promoted routingHashes.
ResetPromoted ==
  /\ At("promotions") /\ Top.todo = {}
  /\ promoted' = promoted \ Links(Top.n, "promotion")
  /\ Step("destroy", {})
  /\ UNCHANGED <<alive, fenced, rep, init, import, work, targets, facts, phase, visited, found, resets, fails, faults, raced>>

\* fokosDestroy deletes the storage.
Wiped(n) ==
  /\ alive' = alive \ {n} /\ fenced' = fenced \ {n}
  /\ rep' = [rep EXCEPT ![n] = "none"] /\ import' = [import EXCEPT ![n] = "none"]
  /\ work' = work \ {n} /\ targets' = targets \ {n}
  /\ init' = [c \in Nodes |-> IF c \in Children(n) THEN "pending" ELSE init[c]]

DestroyPartition ==
  /\ At("destroy")
  /\ Wiped(Top.n)
  /\ Pop
  /\ UNCHANGED <<facts, promoted, phase, visited, found, resets, fails, faults, raced>>

\* #fenceMaterializations: the walk reads the status and then gives the node to its caller, which fences it
\* and reads its target list.
WalkStatus ==
  /\ At("walk")
  /\ IF Top.n \in visited \/ Top.n \notin alive THEN Pop ELSE Step("yield", Links(Top.n, "split"))
  /\ visited' = visited \cup {Top.n}
  /\ UNCHANGED <<nodeVars, phase, found, resets, fails, faults, raced>>

WalkFence ==
  /\ At("yield")
  /\ Prepared(Top.n)
  /\ Step("yielded", Top.todo)

WalkReadTargets ==
  /\ At("yielded") /\ ~Busy(Top.n)
  /\ found' = (found \/ Top.n \in targets)
  /\ Step("walked", Top.todo)
  /\ UNCHANGED <<nodeVars, phase, visited, resets, fails, faults, raced>>

WalkTarget ==
  /\ At("walked") \/ At("walkedPromotions")
  /\ \E c \in Top.todo :
       stack' = Append([stack EXCEPT ![Len(stack)].todo = @ \ {c}], Frame(c, "walk"))
  /\ UNCHANGED <<nodeVars, phase, visited, found, resets, fails, faults, raced>>

\* The promotions are read after the split targets, so after the fence.
WalkReadPromotions ==
  /\ At("walked") /\ Top.todo = {}
  /\ Step("walkedPromotions", Links(Top.n, "promotion"))
  /\ UNCHANGED <<nodeVars, phase, visited, found, resets, fails, faults, raced>>

WalkEnds ==
  /\ At("walkedPromotions") /\ Top.todo = {}
  /\ Pop
  /\ UNCHANGED <<nodeVars, phase, visited, found, resets, fails, faults, raced>>

\* resetShardGroup of one group.
ResetAdmin(g) ==
  /\ g \in resets
  /\ resets' = resets \ {g}
  /\ facts' = facts \ GroupNodes(g)
  /\ UNCHANGED <<alive, fenced, rep, init, import, work, targets, promoted, phase, stack, visited, found, fails, faults, raced>>

----------------------------------------------------------------------------
Roots == {Root(g) : g \in Groups}

Init ==
  /\ alive = Roots /\ fenced = {}
  /\ rep = [n \in Nodes |-> "none"]
  /\ init = [n \in Nodes |-> "pending"] /\ import = [n \in Nodes |-> "none"]
  /\ work = Roots /\ targets = {n \in Roots : Group[n] = "m"}
  /\ facts = {} /\ promoted = {}
  /\ phase = 0 /\ stack = <<>> /\ visited = {} /\ found = FALSE /\ resets = {}
  /\ fails = 0 /\ faults = 0 /\ raced = FALSE

ClientStep ==
  \/ Begin \/ PhaseEnds
  \/ Prepare \/ PrepareEnds \/ ReadStatus \/ VisitTarget \/ ReadPromotions \/ ResetPromoted \/ DestroyPartition
  \/ WalkStatus \/ WalkFence \/ WalkReadTargets \/ WalkTarget \/ WalkReadPromotions \/ WalkEnds
  \/ \E g \in Groups : ResetAdmin(g)

Next ==
  \/ ClientStep \/ ClientFails
  \/ \E n \in Nodes :
       \/ Queue(n) \/ Plan(n) \/ SendInit(n) \/ InitArrives(n) \/ InitFails(n) \/ InitSettles(n) \/ Cutover(n) \/ Import(n) \/ Report(n) \/ Restart(n)
       \/ \E d \in Nodes : Send(n, d)

Spec == Init /\ [][Next]_vars

\* The caller repeats destroy() until it succeeds, a call of a pass is answered, and the pass ends.
FairSpec == Spec /\ WF_vars(ClientStep) /\ \A n \in Nodes : WF_vars(InitArrives(n)) /\ WF_vars(InitSettles(n))

----------------------------------------------------------------------------
(* Properties.                                                             *)

\* The groups whose traversal this destroy has finished.
Finished == {Order[i] : i \in 1 .. phase - 1}

\* A partition below a root is linked by a parent that is still there, so that a later destroy finds it.
Linked(c) == Parent[c] \in alive /\ rep[Parent[c]] \notin {"none", "queued"}

\* A destroy that returns leaves no Durable Object of the table behind, whatever earlier destroys left half
\* done and whatever the partitions did meanwhile, but for those of an index: a split that the walk missed
\* can write into the index after its destroy. One that stops halfway leaves none that the next one cannot
\* find below its root.
NothingLeftBehind ==
  /\ phase = Done => \A n \in alive \cup fenced : Group[n] = "g" /\ raced
  /\ \A c \in alive \cup fenced : Parent[c] # NoNode => Linked(c)

\* A group stays empty once its traversal ended: no coordinator commits into an emptied partition, no
\* partition exports into an emptied materialization, no GSI write follows the destroy of the GSI.
EmptiedGroupsStayEmpty ==
  \A g \in Finished \cap Groups : alive \cap GroupNodes(g) = {}

\* What is true of it: only an index comes back, and only after a split that the walk missed.
OnlyAnIndexComesBack ==
  \A n \in alive : Group[n] \in Finished => Group[n] = "g" /\ raced

\* A destroy that returns has reset every fact of the table in the admin objects, of the groups and of the
\* promoted routingHashes, also when a partition reported a repartition during the destroy or an earlier
\* destroy stopped.
TopologyIsReset == phase = Done => facts = {} /\ promoted = {}

\* What is true of it: the facts of an index stay when an earlier destroy stopped after it deleted the
\* partitions that know the index, and an index that came back after a missed split reports new ones.
KnownTopologyIsReset ==
  phase = Done =>
    /\ \A n \in facts : Group[n] = "g" /\ (fails > 0 \/ raced)
    /\ \A c \in promoted : Group[c] = "g" /\ raced

\* Repeated calls of destroy() come to an end although the partitions go on with their work: no fence
\* waits forever for a pass.
DestroyEnds == <>(phase = Done)
=============================================================================
