-------------------------------- MODULE Batch --------------------------------
(***************************************************************************)
(* batchGetItems and batchWriteItems: the calls of the client (client/db.ts),*)
(* the groups that a partition runs itself or forwards (runtime.ts), the   *)
(* local handlers (do-partition.ts), and the merge of the answers and the  *)
(* failures (batch-merge.ts, batch-failure.ts, batch-response.ts), while   *)
(* partitions split and calls fail.                                        *)
(*                                                                         *)
(* A batch is not atomic: every item gets an outcome of its own.  A caller *)
(* sends the unprocessed items again, and not the unknown ones.            *)
(*                                                                         *)
(* An item is named by its key, a number; the order of the keys is the     *)
(* order of the items in the request.  Which partition a key resolves to   *)
(* is reduced to the path of the partitions that can come to own it: a     *)
(* hint is a target further down that path.  Routing has the rest.  The    *)
(* rows have one copy; Repartition has their move.                         *)
(***************************************************************************)
EXTENDS Naturals, Sequences, FiniteSets, SequencesExt

CONSTANTS
  Keys,          \* 1 .. n
  Parts, Root,
  PathOf,        \* [Keys -> Seq(Parts)]: the partitions from the root down that can own the key
  Deletes,       \* the keys whose operation is a delete
  OnlyIfAbsent,  \* the keys whose operation has a condition that the item does not exist
  Invalid,       \* the keys whose expression is not valid for the stored item
  Present,       \* the keys with an item at the start
  Bytes,         \* [Keys -> Nat]: the size of an item
  MaxBytes,      \* the limit of the items, or of the images, of one answer
  MayLock, MayGrow, MaySplit, \* the keys, and the partitions, that can be locked, over their size, split
  Hints,         \* the keys that partitions may have a hint for
  ClientHints,   \* the keys that the client may have a hint for
  MaxRetries,    \* maxForwardRetries, and MAX_TOPOLOGY_FALLBACKS of the client
  MaxRpcItems,   \* the items of the largest request that one RPC carries
  MaxFaults,     \* bound on failures
  Client, NoPart

ASSUME PathAssumption ==
  /\ Root \in Parts /\ PathOf \in [Keys -> Seq(Parts)]
  /\ \A k \in Keys : PathOf[k] # <<>> /\ PathOf[k][1] = Root

VARIABLES
  write,     \* TRUE: the call is batchWriteItems; FALSE: batchGetItems
  split,     \* the partitions whose split cut over
  importing, \* the targets that still import
  present,   \* the keys that have an item
  locked,    \* the keys that a transaction holds
  over,      \* the partitions above 1.1 times their size cap
  request,   \* the keys of the request that the caller sent last
  calls,     \* the RPCs: path -> [st, slots, answer]; the client is the path <<>>
  told,      \* [Keys -> the outcome that the caller was told last]
  joined,    \* the partitions of the last result
  applied,   \* [Keys -> Nat]: how often the operation was applied
  faults

tableVars == <<write, split, importing, locked, over>>
vars == <<tableVars, present, request, calls, told, joined, applied, faults>>

InOrder(S) == SelectSeq([i \in 1 .. Cardinality(Keys) |-> i], LAMBDA k : k \in S)
Position(p, k) == CHOOSE i \in 1 .. Len(PathOf[k]) : PathOf[k][i] = p
Parent(p) ==
  LET k == CHOOSE x \in Keys : \E i \in 1 .. Len(PathOf[x]) : PathOf[x][i] = p
  IN IF p = Root THEN NoPart ELSE PathOf[k][Position(p, k) - 1]
Exists(p) == p = Root \/ Parent(p) \in split

----------------------------------------------------------------------------
(* Answers.  An entry of an answer is the outcome of one key; "at" is its  *)
(* index in the partitions of the answer, 0 when no partition answered.    *)
(* "by" is the partition that really ran or refused it.                    *)

Entry(k, out, code, at, by) ==
  [key |-> k, out |-> out, code |-> code, at |-> at, by |-> by, image |-> 0]

NoAnswer == [entries |-> {}, partitions |-> <<>>]

\* The outcome of the items that one error stopped.  "miss" and "migrating" come from a partition before
\* any handler ran there, "internal" can come after it; "network" has no routing.
classifyBatchFailure(err, local) ==
  IF err = "too_large" THEN "rejected"
  ELSE IF local \/ ~write \/ err \in {"miss", "migrating"} THEN "unprocessed"
  ELSE "unknown"

withOffset(e, offset) == IF e.at = 0 THEN e ELSE [e EXCEPT !.at = offset + e.at]

\* One part of a merge: an answer, or an error and the partition that raised it.
Part(keys, local, err, by, answer) ==
  [keys |-> keys, local |-> local, err |-> err, by |-> by, answer |-> answer]

\* Mutant of AddPart: a failed part adds nothing.
AddPartSkipsFailed(out, part) ==
  IF part.err # "none" THEN out
  ELSE [entries |-> out.entries \cup {withOffset(e, Len(out.partitions)) : e \in part.answer.entries},
        partitions |-> out.partitions \o part.answer.partitions]

\* The lists of a part, moved by the partitions before it; a failed part gives all its items one failure.
AddPart(out, part) ==
  LET offset == Len(out.partitions)
      entry == IF part.by = NoPart THEN <<>> ELSE <<part.by>>
      failed == classifyBatchFailure(part.err, part.local)
  IN IF part.err = "none"
     THEN [entries |-> out.entries \cup {withOffset(e, offset) : e \in part.answer.entries},
           partitions |-> out.partitions \o part.answer.partitions]
     ELSE [entries |-> out.entries \cup
             {Entry(k, failed, part.err, IF entry = <<>> THEN 0 ELSE offset + 1, part.by) : k \in part.keys},
           partitions |-> out.partitions \o entry]

\* The partition that raised an error: only an error of a partition has a routing.
raiserPartition(err, p) == IF err \in {"network", "too_large"} THEN NoPart ELSE p

FailedCall(keys, err, p) == Part(keys, FALSE, err, raiserPartition(err, p), NoAnswer)

mergeBatchParts(parts) == FoldLeft(AddPart, NoAnswer, parts)

\* Mutant of Kept: the first item of an answer always stays, whatever its place in the request.
KeptFirst(S) ==
  LET Keep(acc, k) ==
        IF acc.kept = {} \/ Bytes[k] + acc.used <= MaxBytes
        THEN [kept |-> acc.kept \cup {k}, used |-> acc.used + Bytes[k]] ELSE acc
  IN FoldLeft(Keep, [kept |-> {}, used |-> 0], InOrder(S)).kept

\* Mutant of Kept: only what fits stays.
KeptFitting(S) ==
  LET Keep(acc, k) ==
        IF Bytes[k] + acc.used <= MaxBytes
        THEN [kept |-> acc.kept \cup {k}, used |-> acc.used + Bytes[k]] ELSE acc
  IN FoldLeft(Keep, [kept |-> {}, used |-> 0], InOrder(S)).kept

\* The found items that stay in an answer: those that fit, in order, and the first item of the request.
Kept(S) ==
  LET Keep(acc, k) ==
        IF (\A j \in request : k <= j) \/ Bytes[k] + acc.used <= MaxBytes
        THEN [kept |-> acc.kept \cup {k}, used |-> acc.used + Bytes[k]] ELSE acc
  IN FoldLeft(Keep, [kept |-> {}, used |-> 0], InOrder(S)).kept

fitBatchResponse(answer) ==
  LET found == {e \in answer.entries : e.out = "found"}
      kept == Kept({e.key : e \in found})
  IN [answer EXCEPT !.entries = (@ \ found) \cup
        {IF e.key \in kept THEN e ELSE [e EXCEPT !.out = "unprocessed", !.code = "response_too_large"] : e \in found}]

\* The old images of failed conditions, in order, until one does not fit; it and every later one is dropped.
applyBatchImageCap(answer) ==
  LET with == {e \in answer.entries : e.image > 0}
      Cap(acc, k) ==
        IF acc.exceeded \/ acc.used + Bytes[k] > MaxBytes THEN [acc EXCEPT !.exceeded = TRUE]
        ELSE [acc EXCEPT !.used = @ + Bytes[k], !.kept = @ \cup {k}]
      kept == FoldLeft(Cap, [used |-> 0, kept |-> {}, exceeded |-> FALSE], InOrder({e.key : e \in with})).kept
  IN [answer EXCEPT !.entries = (@ \ with) \cup {IF e.key \in kept THEN e ELSE [e EXCEPT !.image = 0] : e \in with}]

\* What a node does with a merged answer.
Trimmed(answer) == IF write THEN applyBatchImageCap(answer) ELSE fitBatchResponse(answer)

----------------------------------------------------------------------------
(* The local handlers of a partition, in one synchronous call. *)

\* The entry of one item.  broken: the keys whose block throws and rolls back.
WriteEntry(p, k, broken) ==
  IF k \notin Deletes /\ p \in over THEN Entry(k, "unprocessed", "partition_over_size", 1, p)
  ELSE IF k \in locked THEN Entry(k, "unprocessed", "item_locked", 1, p)
  ELSE IF k \in broken THEN Entry(k, "unprocessed", "internal", 1, p)
  ELSE IF k \in Invalid THEN Entry(k, "rejected", "expression", 1, p)
  ELSE IF k \in OnlyIfAbsent /\ k \in present
       THEN [Entry(k, "rejected", "condition_failed", 1, p) EXCEPT !.image = Bytes[k]]
  ELSE Entry(k, "ok", "none", 1, p)

ReadEntry(p, k, broken) ==
  IF k \in broken THEN Entry(k, "unprocessed", "internal", 1, p)
  ELSE IF k \in Invalid /\ k \in present THEN Entry(k, "rejected", "expression", 1, p)
  ELSE Entry(k, IF k \in present THEN "found" ELSE "not_found", "none", 1, p)

\* The answer of a local handler lists its own partition.
answered(p, entries) == [entries |-> entries, partitions |-> <<p>>]

batchWriteLocal(p, keys, broken) == applyBatchImageCap(answered(p, {WriteEntry(p, k, broken) : k \in keys}))

batchGetLocal(p, keys, broken) == answered(p, {ReadEntry(p, k, broken) : k \in keys})

Local(p, keys, broken) ==
  Part(keys, TRUE, "none", p, IF write THEN batchWriteLocal(p, keys, broken) ELSE batchGetLocal(p, keys, broken))

\* The rows after a local part.
Applies(part) ==
  LET done == {e.key : e \in {x \in part.answer.entries : x.out = "ok"}}
  IN /\ present' = (present \ (done \cap Deletes)) \cup (done \ Deletes)
     /\ applied' = [k \in Keys |-> applied[k] + (IF k \in done THEN 1 ELSE 0)]

----------------------------------------------------------------------------
(* Groups.  A slot is one group of a node: a call that runs, or its part.  *)
(* n tells a call from one before the last fault, which may still run.     *)

Out(to, keys, tries) == [to |-> to, keys |-> keys, tries |-> tries, n |-> faults, part |-> NoPart]
Settled(part) == [to |-> NoPart, keys |-> part.keys, tries |-> 0, n |-> 0, part |-> part]

\* The targets that partition p can resolve a key to.
Targets(p, k, hinted) ==
  LET i == Position(p, k)
      next == IF p \in split THEN i + 1 ELSE i
      last == IF hinted /\ k \in Hints /\ next < Len(PathOf[k]) THEN next + 1 ELSE next
  IN {PathOf[k][j] : j \in next .. last}

\* Every way to resolve the keys of a request at p.
Resolutions(p, keys, hinted) ==
  {f \in [keys -> Parts] : \A k \in keys : f[k] \in Targets(p, k, hinted)}

\* The remote groups of a resolution, in the order of their first keys.
Groups(f, here, tries) ==
  LET heads == {k \in DOMAIN f : f[k] # here /\ \A j \in DOMAIN f : j < k => f[j] # f[k]}
      Group(k) == Out(f[k], {j \in DOMAIN f : f[j] = f[k]}, tries)
  IN LET order == InOrder(heads) IN [i \in 1 .. Len(order) |-> Group(order[i])]

Here(path) == IF path = <<>> THEN Client ELSE Last(path).to
KeysOf(path) == Last(path).keys
Child(path, slot) == Append(path, [to |-> slot.to, keys |-> slot.keys, n |-> slot.n])
Opened(path, slots) ==
  {Child(path, slots[i]) : i \in {j \in 1 .. Len(slots) : slots[j].part = NoPart}}
NewCall == [st |-> "sent", slots |-> <<>>, part |-> NoPart]
WithCalls(paths) == [c \in DOMAIN calls \cup paths |-> IF c \in paths THEN NewCall ELSE calls[c]]
WithoutCall(cs, path) == [c \in DOMAIN cs \ {path} |-> cs[c]]

\* A request that one RPC cannot carry fails at its sender.
Checked(slots) ==
  [i \in 1 .. Len(slots) |->
     IF slots[i].part = NoPart /\ Cardinality(slots[i].keys) > MaxRpcItems
     THEN Settled(FailedCall(slots[i].keys, "too_large", slots[i].to)) ELSE slots[i]]

\* The client sends one call for each entry of its keys.
SendGroups(keys) ==
  \E f \in {g \in [keys -> Parts] : \A k \in keys :
              g[k] \in {PathOf[k][j] : j \in 1 .. (IF k \in ClientHints THEN Len(PathOf[k]) ELSE 1)}} :
    \E slots \in {Checked(Groups(f, Client, 0))} :
      calls' = [WithCalls({<<>>} \cup Opened(<<>>, slots)) EXCEPT ![<<>>] = [NewCall EXCEPT !.st = "run", !.slots = slots]]

SendBatch ==
  /\ <<>> \notin DOMAIN calls /\ request = {}
  /\ request' = Keys
  /\ SendGroups(Keys)
  /\ UNCHANGED <<tableVars, present, told, joined, applied, faults>>

\* The caller sends the unprocessed items again, once the calls that it waits for are over.
SendAgain ==
  LET again == {k \in request : told[k].out = "unprocessed"}
  IN /\ <<>> \notin DOMAIN calls /\ again # {}
     /\ request' = again
     /\ told' = [k \in Keys |-> IF k \in again THEN Entry(k, "none", "none", 0, NoPart) ELSE told[k]]
     /\ joined' = <<>>
     /\ SendGroups(again)
     /\ UNCHANGED <<tableVars, present, applied, faults>>

Ends(path, part) == calls' = [calls EXCEPT ![path] = [st |-> "done", slots |-> <<>>, part |-> part]]

Refuse(path, err) ==
  Ends(path, FailedCall(KeysOf(path), err, Here(path))) /\ UNCHANGED <<present, applied, faults>>

\* A partition that has no data yet refuses the request before any handler runs; one that imports refuses
\* writes, and answers reads with the rows of its source.
Gate(path) ==
  LET p == Here(path)
  IN /\ calls[path].st = "sent"
     /\ \/ ~Exists(p) /\ Refuse(path, "miss")
        \/ p \in importing /\ write /\ Refuse(path, "migrating")
        \/ /\ p \in importing /\ ~write
           /\ Ends(path, Part(KeysOf(path), FALSE, "none", p, fitBatchResponse(batchGetLocal(Parent(p), KeysOf(path), {}))))
           /\ UNCHANGED <<present, applied, faults>>
     /\ UNCHANGED <<tableVars, request, told, joined>>

\* The local part and the start of every remote group, in one synchronous block.
RunGroups(path, f, tries, before, after) ==
  LET p == Here(path)
      own == {k \in DOMAIN f : f[k] = p}
      groups == Groups(f, p, tries)
      Runs(broken, part) ==
        \E slots \in {before \o groups \o (IF own = {} THEN <<>> ELSE <<Settled(part)>>) \o after} :
          /\ calls' = [WithCalls(Opened(path, groups)) EXCEPT ![path] = [NewCall EXCEPT !.st = "run", !.slots = slots]]
          /\ IF part.err = "none" /\ write THEN Applies(part) ELSE UNCHANGED <<present, applied>>
  IN \/ Runs({}, Local(p, own, {})) /\ UNCHANGED faults
     \/ /\ own # {} /\ faults < MaxFaults /\ faults' = faults + 1
        /\ \/ \E k \in own : Runs({k}, Local(p, own, {k}))
           \/ Runs({}, Part(own, TRUE, "internal", p, NoAnswer))

Dispatch(path) ==
  LET p == Here(path)
  IN /\ calls[path].st = "sent" /\ Exists(p) /\ p \notin importing
     /\ \E f \in Resolutions(p, KeysOf(path), TRUE) : RunGroups(path, f, 0, <<>>, <<>>)
     /\ UNCHANGED <<tableVars, request, told, joined>>

\* A call that a hint sent to a partition that is not there, and the sender may resolve again.
MayFallBack(path, slot, part) == part.err = "miss" /\ slot.tries < MaxRetries

OpenSlots(path) ==
  {i \in 1 .. Len(calls[Front(path)].slots) :
     LET s == calls[Front(path)].slots[i] IN s.part = NoPart /\ Child(Front(path), s) = path}
Waiting(path) == path # <<>> /\ Front(path) \in DOMAIN calls /\ OpenSlots(path) # {}
SlotOf(path) == CHOOSE i \in OpenSlots(path) : TRUE

\* A call of a group ends: its part takes the place of the call.  An answer that nobody waits for goes.
GroupSettles(path) ==
  LET parent == Front(path)
      i == SlotOf(path)
      part == calls[path].part
  IN /\ path # <<>> /\ calls[path].st = "done"
     /\ IF ~Waiting(path) THEN calls' = WithoutCall(calls, path)
        ELSE /\ ~MayFallBack(path, calls[parent].slots[i], part)
             /\ calls' = [WithoutCall(calls, path) EXCEPT ![parent].slots[i] = Settled(part)]
     /\ UNCHANGED <<tableVars, present, request, told, joined, applied, faults>>

\* Mutant of FallBack: the whole request is resolved again.
FallBackWhole(path) ==
  LET parent == Front(path)
      i == SlotOf(path)
      slots == calls[parent].slots
  IN /\ path # <<>> /\ calls[path].st = "done" /\ Waiting(path)
     /\ MayFallBack(path, slots[i], calls[path].part)
     /\ IF parent = <<>>
        THEN \E slot \in {Out(Root, slots[i].keys, slots[i].tries + 1)} :
               /\ calls' = [c \in (DOMAIN calls \ {path}) \cup {Child(parent, slot)} |->
                              IF c = <<>> THEN [calls[c] EXCEPT !.slots[i] = slot]
                              ELSE IF c = Child(parent, slot) THEN NewCall ELSE calls[c]]
               /\ UNCHANGED <<present, applied, faults>>
        ELSE \E f \in Resolutions(Here(parent), KeysOf(parent), FALSE) :
               RunGroups(parent, f, slots[i].tries + 1, SubSeq(slots, 1, i - 1), SubSeq(slots, i + 1, Len(slots)))
     /\ UNCHANGED <<tableVars, request, told, joined>>

\* The miss of a hint: the partition resolves the group again, without the hint, and runs it where it
\* resolves now; the client goes to the root.
FallBack(path) ==
  LET parent == Front(path)
      i == SlotOf(path)
      slots == calls[parent].slots
  IN /\ path # <<>> /\ calls[path].st = "done" /\ Waiting(path)
     /\ MayFallBack(path, slots[i], calls[path].part)
     /\ IF parent = <<>>
        THEN \E slot \in {Out(Root, slots[i].keys, slots[i].tries + 1)} :
               /\ calls' = [c \in (DOMAIN calls \ {path}) \cup {Child(parent, slot)} |->
                              IF c = <<>> THEN [calls[c] EXCEPT !.slots[i] = slot]
                              ELSE IF c = Child(parent, slot) THEN NewCall ELSE calls[c]]
               /\ UNCHANGED <<present, applied, faults>>
        ELSE \E f \in Resolutions(Here(parent), slots[i].keys, FALSE) :
               RunGroups(parent, f, slots[i].tries + 1, SubSeq(slots, 1, i - 1), SubSeq(slots, i + 1, Len(slots)))
     /\ UNCHANGED <<tableVars, request, told, joined>>

AllSettled(path) == calls[path].st = "run" /\ \A i \in 1 .. Len(calls[path].slots) : calls[path].slots[i].part # NoPart
PartsOf(path) == [i \in 1 .. Len(calls[path].slots) |-> calls[path].slots[i].part]

\* Every group settled: the partition merges the parts and answers, or fails after its handlers ran.
Answer(path) ==
  /\ path # <<>> /\ AllSettled(path)
  /\ \/ /\ Ends(path, Part(KeysOf(path), FALSE, "none", Here(path), Trimmed(mergeBatchParts(PartsOf(path)))))
        /\ UNCHANGED faults
     \/ /\ faults < MaxFaults /\ faults' = faults + 1
        /\ Ends(path, FailedCall(KeysOf(path), "internal", Here(path)))
  /\ UNCHANGED <<tableVars, present, request, told, joined, applied>>

\* The partitions of a result: each one once.
JoinPartitions(list) ==
  FoldLeft(LAMBDA acc, p : IF \E i \in 1 .. Len(acc) : acc[i] = p THEN acc ELSE Append(acc, p), <<>>, list)

\* The entry of a key, with its index in the partitions of the result.
JoinedEntry(merged, list, k) ==
  LET e == CHOOSE x \in merged.entries : x.key = k
  IN [e EXCEPT !.at = IF @ = 0 THEN 0 ELSE CHOOSE i \in 1 .. Len(list) : list[i] = merged.partitions[@]]

\* What the caller is told of a key; an answer that has no outcome for it is a defect.
ReadResult(merged, list, k) ==
  IF \E e \in merged.entries : e.key = k THEN JoinedEntry(merged, list, k)
  ELSE Entry(k, "unprocessed", "defect", 0, NoPart)

WriteResult(merged, list, k) ==
  IF \E e \in merged.entries : e.key = k THEN JoinedEntry(merged, list, k)
  ELSE Entry(k, "unknown", "defect", 0, NoPart)

\* The result: the parts of all calls joined, and trimmed once more.
Finish ==
  /\ <<>> \in DOMAIN calls /\ AllSettled(<<>>)
  /\ \E merged \in {Trimmed(mergeBatchParts(PartsOf(<<>>)))} : \E list \in {JoinPartitions(merged.partitions)} :
       /\ joined' = list
       /\ told' = [k \in Keys |-> IF k \notin request THEN told[k]
                                  ELSE IF write THEN WriteResult(merged, list, k) ELSE ReadResult(merged, list, k)]
  /\ calls' = WithoutCall(calls, <<>>)
  /\ UNCHANGED <<tableVars, present, request, applied, faults>>

\* The calls without a call and those it made.
WithoutTree(path) == [c \in {c \in DOMAIN calls : ~IsPrefix(path, c)} |-> calls[c]]

\* A call fails for its sender: its request is lost, or its partition stops, or only its answer is lost.
\* The calls of a read that nobody waits for change nothing, and are left out.
NetworkFails(path) ==
  LET parent == Front(path)
  IN /\ faults < MaxFaults /\ faults' = faults + 1
     /\ path # <<>> /\ Waiting(path)
     /\ \E kept \in IF write THEN {calls, WithoutCall(calls, path)} ELSE {WithoutTree(path)} :
          calls' = [kept EXCEPT ![parent].slots[SlotOf(path)] =
                      Settled(FailedCall(KeysOf(path), "network", Here(path)))]
     /\ UNCHANGED <<tableVars, present, request, told, joined, applied>>

----------------------------------------------------------------------------
(* The table. *)

CutOver(p) ==
  /\ p \in MaySplit \ split /\ Exists(p) /\ p \notin importing
  /\ split' = split \cup {p}
  /\ importing' = importing \cup {q \in Parts : q # Root /\ Parent(q) = p}
  /\ UNCHANGED <<write, present, locked, over, request, calls, told, joined, applied, faults>>

ImportDone(p) ==
  /\ p \in importing
  /\ importing' = importing \ {p}
  /\ UNCHANGED <<write, split, present, locked, over, request, calls, told, joined, applied, faults>>

\* The transaction that holds the item ends, and deletes bring the partition back under its cap.
Release(k) ==
  /\ k \in locked
  /\ locked' = locked \ {k}
  /\ UNCHANGED <<write, split, importing, present, over, request, calls, told, joined, applied, faults>>

Init ==
  /\ write \in BOOLEAN
  /\ split = {} /\ importing = {}
  /\ present = Present
  /\ locked \in SUBSET MayLock /\ over \in SUBSET MayGrow
  /\ request = {} /\ calls = << >> /\ joined = <<>>
  /\ told = [k \in Keys |-> Entry(k, "none", "none", 0, NoPart)]
  /\ applied = [k \in Keys |-> 0]
  /\ faults = 0

Next ==
  \/ SendBatch \/ SendAgain \/ Finish
  \/ \E path \in DOMAIN calls : \/ path # <<>> /\ (Gate(path) \/ Dispatch(path))
                                \/ GroupSettles(path) \/ FallBack(path) \/ Answer(path) \/ NetworkFails(path)
  \/ \E p \in Parts : CutOver(p) \/ ImportDone(p)
  \/ \E k \in Keys : Release(k)

Spec == Init /\ [][Next]_vars

Fairness ==
  /\ WF_vars(SendBatch) /\ WF_vars(SendAgain) /\ WF_vars(Finish)
  /\ WF_vars(\E path \in DOMAIN calls : \/ path # <<>> /\ (Gate(path) \/ Dispatch(path))
                                        \/ GroupSettles(path) \/ FallBack(path) \/ Answer(path))

LiveSpec == Spec /\ Fairness

----------------------------------------------------------------------------
(* Properties. *)

\* What the caller is told of a write is what happened to it, and stays so whatever calls still run: an
\* "ok" was applied, a "rejected" or "unprocessed" was not and never will be.  A caller that sends only the
\* unprocessed operations again applies each operation at most once: over forwards, fallbacks, splits,
\* lost answers and calls that still run after their sender gave up.
OutcomesAreTrue ==
  \A k \in Keys : /\ told[k].out = "ok" => applied[k] = 1
                  /\ told[k].out \in {"rejected", "unprocessed"} => applied[k] = 0
                  /\ applied[k] <= 1

\* Every item of a request gets exactly one outcome, in the answer of every partition and in the result;
\* and the partition that the result names for it is the one that ran or refused it, after all the merges
\* that moved its index.
OneOutcomeEach ==
  /\ \A k \in Keys : told[k].code # "defect"
  /\ \A path \in DOMAIN calls \ {<<>>} : calls[path].st = "done" /\ calls[path].part.err = "none" =>
       \A k \in KeysOf(path) : Cardinality({e \in calls[path].part.answer.entries : e.key = k}) = 1
  /\ \A k \in request : told[k].at # 0 /\ <<>> \notin DOMAIN calls => joined[told[k].at] = told[k].by

SumBytes(S) == FoldLeft(LAMBDA acc, k : acc + Bytes[k], 0, InOrder(S))
Carried(entries) == {e.key : e \in {x \in entries : x.out = "found" \/ x.image > 0}}

\* A call that the client still waits for, through every partition between them.
Awaited(path) == \A i \in 1 .. Len(path) : Waiting(SubSeq(path, 1, i))

\* No answer that crosses an RPC to a waiting sender, and no result, carries items or images above the limit, but for the
\* first item of a read request alone.
AnswersFit ==
  LET Fits(S) == SumBytes(S) <= MaxBytes \/ (~write /\ \E k \in request : S = {k} /\ \A j \in request : k <= j)
  IN /\ \A path \in DOMAIN calls \ {<<>>} : calls[path].st = "done" /\ Awaited(path) =>
          Fits(Carried(calls[path].part.answer.entries))
     /\ Fits(Carried({told[k] : k \in request}))

\* A caller that sends the unprocessed keys of a read again reads them all at last.
ReadsEnd == ~write => <>[](\A k \in Keys : told[k].out \in {"found", "not_found", "rejected", "unknown"})

=============================================================================
