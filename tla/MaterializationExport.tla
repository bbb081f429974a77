------------------------ MODULE MaterializationExport ------------------------
(***************************************************************************)
(* The export of the changes of base partitions to the partitions of the   *)
(* materialization table: materialization-export.ts with the               *)
(* materialization_outbox of partition-store.ts on the base partition, and *)
(* applyLatestImages of do-materialization.ts on the receiver, while both  *)
(* tables repartition and the base partitions restart.                     *)
(*                                                                         *)
(* A call is sent once.  Each of its items runs at the receiver in a       *)
(* transaction of its own, at any time: before the answer, after a         *)
(* timeout, after the restart or the split of the base partition that      *)
(* sent it, or never.  The forwarding of an item by the partitions of the  *)
(* materialization table is one step, to the owner of its key.             *)
(*                                                                         *)
(* An image is its revision and whether it is a delete; a row that waits   *)
(* for its next attempt is not due, and becomes due at some time.          *)
(***************************************************************************)
EXTENDS Naturals, Sequences, FiniteSets

CONSTANTS
  Keys,
  Parts, First, NoPart,      \* the base partitions, the first owner of the keys
  Receivers, MatFirst,       \* the materialization partitions, the first owner of the keys
  Plans, MatPlans,           \* repartitions: [from, router, child: moved keys -> targets]
  MaxWorkers, MaxItems,      \* config: the calls in flight, the items of a call
  MaxVersion, MaxCalls, MaxFaults  \* bounds of the writes, the calls and the failures

ASSUME PartsAreValid ==
  /\ First \in Parts /\ MatFirst \in Receivers /\ NoPart \notin Parts \cup Receivers /\ Parts \cap Receivers = {}
  /\ \A plan \in Plans : /\ plan.from \in Parts /\ plan.router \in BOOLEAN
                         /\ DOMAIN plan.child \subseteq Keys
                         /\ \A k \in DOMAIN plan.child : plan.child[k] \in Parts \ {plan.from, First}
  /\ \A plan \in MatPlans : /\ plan.from \in Receivers
                            /\ DOMAIN plan.child \subseteq Keys
                            /\ \A k \in DOMAIN plan.child : plan.child[k] \in Receivers \ {plan.from, MatFirst}

ASSUME KeysAreFinite == IsFiniteSet(Keys)

ASSUME BoundsAreNat == /\ MaxWorkers \in Nat /\ MaxItems \in Nat
                       /\ MaxVersion \in Nat /\ MaxCalls \in Nat /\ MaxFaults \in Nat

VARIABLES
  \* The base table.
  owner,     \* [Keys -> Parts]
  importing, \* [Parts -> Parts \cup {NoPart}]: the source of a target that imports
  router,    \* [Parts -> BOOLEAN]
  made,      \* the partitions of both tables that exist
  item,      \* [Parts -> [Keys -> Nat]]: the revision of the item, 0 when it is absent
  mark,      \* [Parts -> Nat]: deletion_metadata.max_deleted_v
  outbox,    \* [Parts -> [Keys -> a row, or NoRow]]
  epoch, callOpen,   \* materialization_export_state
  fences, untilId,   \* ancestor_fences: [Parts -> [Parts -> Nat]], 0 for no row; [Parts -> Nat]
  \* The memory of the exporters.
  started,   \* the first claim of this instance ran
  idle,      \* the workers before their next claim
  inFlight,  \* the calls that a worker waits for
  backoff,   \* the time is before #backoffUntil
  \* The calls: a sequence of [from, epoch, fences, images].
  calls,
  left,      \* left[i]: the keys of call i that no receiver has taken yet
  answer,    \* answer[i]: the outcome of each key of call i, "none" before it
  \* The materialization table.
  matOwner, matImporting,
  image,     \* [Receivers -> [Keys -> [rev, deleted]]], NoImage for none
  seen,      \* [Receivers -> [Parts -> Nat]]: producer_fences
  top,       \* history: the newest image that a receiver took, for each key
  faults

table == <<owner, importing, router, made>>
store == <<item, mark, outbox, epoch, callOpen, fences, untilId>>
memory == <<started, idle, inFlight, backoff>>
wire == <<calls, left, answer>>
receivers == <<matOwner, matImporting, image, seen, top>>
vars == <<table, store, memory, wire, receivers, faults>>

Row(rev, deleted, localOnly, id, due) ==
  [rev |-> rev, deleted |-> deleted, localOnly |-> localOnly, id |-> id, due |-> due]
NoRow == Row(0, FALSE, FALSE, 0, FALSE)
Exported(row) == Row(row.rev, row.deleted, FALSE, row.id, row.due)
Attempted(row, due) == Row(row.rev, row.deleted, row.localOnly, row.id, due)
NoImage == [rev |-> 0, deleted |-> TRUE]
Greater(a, b) == IF a > b THEN a ELSE b
Targets(plan) == {plan.child[k] : k \in DOMAIN plan.child}

----------------------------------------------------------------------------
(* The base partition.                                                     *)

\* A router and a target that imports make no transition.
canRun(p) == ~router[p] /\ importing[p] = NoPart
owns(p, k) == owner[k] = p
HasRow(p, k) == outbox[p][k].rev # 0
Live(p) == {k \in Keys : HasRow(p, k)}

\* The rowid of a new row: one above the highest.
NewId(p) == IF Live(p) = {} THEN 1
            ELSE 1 + outbox[p][CHOOSE k \in Live(p) : \A j \in Live(p) : outbox[p][j].id <= outbox[p][k].id].id

upsertOutboxRow(p, k, rev, deleted, newRowLocalOnly) ==
  outbox' = [outbox EXCEPT ![p][k] =
    IF ~HasRow(p, k)
    THEN Row(rev, deleted, newRowLocalOnly, NewId(p), TRUE)
    ELSE Row(rev, deleted, ~deleted /\ outbox[p][k].localOnly, outbox[p][k].id, TRUE)]

\* The fences go with the last row of the inherited work.
dropDoneExportFences(p) ==
  fences' = [fences EXCEPT ![p] =
    IF \E k \in Keys : outbox'[p][k].rev # 0 /\ outbox'[p][k].id <= untilId[p]
    THEN @ ELSE [a \in Parts |-> 0]]

\* A new worker, when fewer than maxCalls run.
wake(p) == idle' = IF idle[p] + Cardinality(inFlight[p]) >= MaxWorkers THEN idle
                   ELSE [idle EXCEPT ![p] = @ + 1]

\* upsertItem with #captureWrite, in one transaction.
captureWrite(p, k) ==
  LET rev == IF item[p][k] = 0 THEN mark[p] + 1 ELSE item[p][k] + 1
  IN  /\ canRun(p) /\ owns(p, k) /\ rev <= MaxVersion
      /\ item' = [item EXCEPT ![p][k] = rev]
      /\ upsertOutboxRow(p, k, rev, FALSE, item[p][k] = 0)
      /\ wake(p)
      /\ UNCHANGED <<table, mark, epoch, callOpen, fences, untilId, started, inFlight, backoff, wire, receivers, faults>>

\* deleteItem with #captureDelete: nothing is sent of an item that no receiver can hold.
captureDelete(p, k) ==
  LET rev == item[p][k] + 1
      unseen == HasRow(p, k) /\ outbox[p][k].localOnly
  IN  /\ canRun(p) /\ owns(p, k) /\ item[p][k] # 0 /\ rev <= MaxVersion
      /\ item' = [item EXCEPT ![p][k] = 0]
      /\ mark' = [mark EXCEPT ![p] = Greater(@, rev)]
      /\ \/ /\ unseen
            /\ outbox' = [outbox EXCEPT ![p][k] = NoRow]
            /\ dropDoneExportFences(p)
            /\ UNCHANGED idle
         \/ /\ ~unseen
            /\ upsertOutboxRow(p, k, rev, TRUE, FALSE)
            /\ wake(p)
            /\ UNCHANGED fences
      /\ UNCHANGED <<table, epoch, callOpen, untilId, started, inFlight, backoff, wire, receivers, faults>>

InFlightHas(p, k) == \E i \in inFlight[p] : k \in DOMAIN calls[i].images

\* An owned row whose time came and whose key no call in flight carries.
Claimable(p, k) == owns(p, k) /\ HasRow(p, k) /\ outbox[p][k].due /\ ~InFlightHas(p, k)

\* #claimRows: the copies of moved keys wait; a claimed row is not local only any more.
claimRows(p, K) ==
  outbox' = [outbox EXCEPT ![p] = [k \in Keys |->
    IF k \in K THEN Exported(outbox[p][k])
    ELSE IF ~owns(p, k) /\ outbox[p][k].due THEN Attempted(outbox[p][k], FALSE)
    ELSE outbox[p][k]]]

\* A restart that forgets the call in flight.
claimEpochKeeps(p) == epoch[p]

\* #claimEpoch: a call of the instance before the restart can still apply.
claimEpoch(p) == IF ~started[p] /\ callOpen[p] THEN epoch[p] + 1 ELSE epoch[p]

\* #claim, of the keys K.
claim(p, K) ==
  /\ idle[p] > 0 /\ canRun(p) /\ ~backoff[p]
  /\ K \subseteq {k \in Keys : Claimable(p, k)} /\ Cardinality(K) <= MaxItems
  /\ K = {} => ~ \E k \in Keys : Claimable(p, k)
  /\ K # {} => Len(calls) < MaxCalls
  /\ claimRows(p, K)
  /\ started' = [started EXCEPT ![p] = TRUE]
  /\ idle' = [idle EXCEPT ![p] = @ - 1]
  /\ epoch' = [epoch EXCEPT ![p] = claimEpoch(p)]
  /\ IF K = {}
     THEN UNCHANGED <<callOpen, inFlight, wire>>
     ELSE /\ callOpen' = [callOpen EXCEPT ![p] = TRUE]
          /\ inFlight' = [inFlight EXCEPT ![p] = @ \cup {Len(calls) + 1}]
          /\ calls' = Append(calls, [from |-> p, epoch |-> claimEpoch(p), fences |-> fences[p],
                       images |-> [k \in K |-> [rev |-> outbox[p][k].rev, deleted |-> outbox[p][k].deleted]]])
          /\ left' = Append(left, K)
          /\ answer' = Append(answer, [k \in K |-> "none"])
  /\ UNCHANGED <<table, item, mark, fences, untilId, backoff, receivers, faults>>

\* A worker stops: the partition may not run, or it waits.
stop(p) ==
  /\ idle[p] > 0 /\ (~canRun(p) \/ backoff[p])
  /\ idle' = [idle EXCEPT ![p] = @ - 1]
  /\ UNCHANGED <<table, store, started, inFlight, backoff, wire, receivers, faults>>

\* An outcome that a later call with the same epoch can retry.
Retryable(o) == o = "unprocessed"
FailedAsWhole(i, known) == ~known \/ \A k \in DOMAIN answer[i] : answer[i][k] = "unknown" \/ Retryable(answer[i][k])

\* An acknowledgement that deletes a row of a newer revision.
applyItemOutcomeAnyRevision(i, known, row, k) ==
  IF known /\ answer[i][k] = "acknowledged" THEN NoRow ELSE row

\* #applyItemOutcome for the row of an owned key: acknowledged at its revision, it goes.
applyItemOutcome(i, known, row, k) ==
  IF ~known \/ row.rev # calls[i].images[k].rev THEN row
  ELSE IF answer[i][k] = "acknowledged" THEN NoRow
  ELSE IF answer[i][k] = "rejected" \/ (Retryable(answer[i][k]) /\ ~FailedAsWhole(i, known)) THEN Attempted(row, FALSE)
  ELSE row

\* #applyAnswer for a call with the current epoch.
applyAnswer(p, i, known) ==
  /\ outbox' = [outbox EXCEPT ![p] = [k \in Keys |->
       IF k \in DOMAIN calls[i].images /\ owns(p, k) THEN applyItemOutcome(i, known, outbox[p][k], k) ELSE outbox[p][k]]]
  /\ IF \E k \in Keys : outbox'[p][k].rev = 0 /\ HasRow(p, k) THEN dropDoneExportFences(p) ELSE UNCHANGED fences
  /\ epoch' = [epoch EXCEPT ![p] =
       IF ~known \/ \E k \in DOMAIN answer[i] : answer[i][k] \in {"unknown", "fenced"} THEN @ + 1 ELSE @]
  /\ backoff' = [backoff EXCEPT ![p] = FailedAsWhole(i, known)]

\* #complete: an answer that is not known is a timeout.
complete(p, i, known) ==
  /\ i \in inFlight[p]
  /\ IF known THEN \A k \in DOMAIN answer[i] : answer[i][k] # "none" ELSE faults < MaxFaults
  /\ inFlight' = [inFlight EXCEPT ![p] = @ \ {i}]
  /\ idle' = [idle EXCEPT ![p] = @ + 1]
  /\ faults' = IF known THEN faults ELSE faults + 1
  /\ \/ ~canRun(p) /\ UNCHANGED <<store, backoff>>
     \/ /\ canRun(p)
        /\ callOpen' = [callOpen EXCEPT ![p] = IF inFlight[p] = {i} THEN FALSE ELSE @]
        /\ IF calls[i].epoch < epoch[p] THEN UNCHANGED <<outbox, fences, epoch, backoff>> ELSE applyAnswer(p, i, known)
        /\ UNCHANGED <<item, mark, untilId>>
  /\ UNCHANGED <<table, started, wire, receivers>>

\* The time of the next attempt of a row comes.
retryIsDue(p, k) ==
  /\ HasRow(p, k) /\ ~outbox[p][k].due /\ owns(p, k)
  /\ outbox' = [outbox EXCEPT ![p][k] = Attempted(@, TRUE)]
  /\ UNCHANGED <<table, item, mark, epoch, callOpen, fences, untilId, memory, wire, receivers, faults>>

\* The backoff ends.
endBackoff(p) ==
  /\ backoff[p]
  /\ backoff' = [backoff EXCEPT ![p] = FALSE]
  /\ UNCHANGED <<table, store, started, idle, inFlight, wire, receivers, faults>>

\* No alarm before the first claim of an instance.
alarmAfterClaim(p) ==
  /\ canRun(p) /\ started[p] /\ ~backoff[p] /\ idle[p] = 0 /\ inFlight[p] = {}
  /\ \E k \in Keys : HasRow(p, k) /\ outbox[p][k].due
  /\ wake(p)
  /\ UNCHANGED <<table, store, started, inFlight, backoff, wire, receivers, faults>>

\* The alarm: the deadline of a row came, and no worker runs.
alarm(p) ==
  /\ canRun(p) /\ ~backoff[p] /\ idle[p] = 0 /\ inFlight[p] = {}
  /\ \E k \in Keys : HasRow(p, k) /\ outbox[p][k].due
  /\ wake(p)
  /\ UNCHANGED <<table, store, started, inFlight, backoff, wire, receivers, faults>>

\* The instance restarts: the memory goes, the calls in flight can still apply.
restart(p) ==
  /\ faults < MaxFaults /\ faults' = faults + 1
  /\ started' = [started EXCEPT ![p] = FALSE]
  /\ idle' = [idle EXCEPT ![p] = 0]
  /\ inFlight' = [inFlight EXCEPT ![p] = {}]
  /\ backoff' = [backoff EXCEPT ![p] = FALSE]
  /\ UNCHANGED <<table, store, wire, receivers>>

\* The cutover of a repartition: the routes move, and the source raises its epoch.
onRepartitionCutover(plan) ==
  LET p == plan.from
  IN  /\ p \in made /\ canRun(p) /\ \A q \in Parts : importing[q] # p
      /\ \A k \in DOMAIN plan.child : owns(p, k)
      /\ Targets(plan) \cap made = {} /\ made' = made \cup Targets(plan)
      /\ plan.router => DOMAIN plan.child = {k \in Keys : owns(p, k)}
      /\ owner' = [k \in Keys |-> IF k \in DOMAIN plan.child THEN plan.child[k] ELSE owner[k]]
      /\ importing' = [q \in Parts |-> IF q \in Targets(plan) THEN p ELSE importing[q]]
      /\ router' = [router EXCEPT ![p] = plan.router]
      /\ epoch' = [epoch EXCEPT ![p] = @ + 1]
      /\ UNCHANGED <<item, mark, outbox, callOpen, fences, untilId, memory, wire, receivers, faults>>

\* The copied rows are never local only: a call of the source can carry them.
insertMigratedOutboxRows(p, q, rows) ==
  LET place(k) == Cardinality({j \in rows : outbox[p][j].id <= outbox[p][k].id})
  IN  outbox' = [outbox EXCEPT ![q] = [k \in Keys |->
        IF k \in rows THEN Row(outbox[p][k].rev, outbox[p][k].deleted, FALSE, place(k), TRUE) ELSE NoRow]]

\* The source at its epoch and the fences of the source, for the copied rows.
importExportFences(p, q, rows) ==
  /\ untilId' = [untilId EXCEPT ![q] = Cardinality(rows)]
  /\ fences' = [fences EXCEPT ![q] =
       [a \in Parts |-> IF rows = {} THEN 0 ELSE IF a = p THEN Greater(fences[p][p], epoch[p]) ELSE fences[p][a]]]

\* The pages of the import of q: the items, the deletion metadata, the outbox and its fences.
import(q) ==
  LET p == importing[q]
      moved == {k \in Keys : owner[k] = q}
      rows == {k \in moved : HasRow(p, k)}
  IN  /\ p # NoPart
      /\ importing' = [importing EXCEPT ![q] = NoPart]
      /\ item' = [item EXCEPT ![q] = [k \in Keys |-> IF k \in moved THEN item[p][k] ELSE 0]]
      /\ mark' = [mark EXCEPT ![q] = Greater(@, mark[p])]
      /\ insertMigratedOutboxRows(p, q, rows)
      /\ importExportFences(p, q, rows)
      /\ UNCHANGED <<owner, router, made, epoch, callOpen, memory, wire, receivers, faults>>

\* The cleanup of a source deletes the copies of the rows that it moved.
deleteOutboxCopies(p, k) ==
  /\ ~owns(p, k) /\ HasRow(p, k) /\ \A q \in Parts : importing[q] # p
  /\ outbox' = [outbox EXCEPT ![p][k] = NoRow]
  /\ dropDoneExportFences(p)
  /\ UNCHANGED <<table, item, mark, epoch, callOpen, untilId, memory, wire, receivers, faults>>

----------------------------------------------------------------------------
(* The receiver.                                                           *)

\* An answer of the item, when its call has none yet.
answers(i, k, outcome) ==
  answer' = [answer EXCEPT ![i] = [j \in DOMAIN @ |-> IF j = k /\ @[j] = "none" THEN outcome ELSE @[j]]]

\* The epochs of m after the ancestor fences of call i.
RaisedByFences(m, i) == [a \in Parts |-> Greater(seen[m][a], calls[i].fences[a])]
IsFenced(m, i) == calls[i].epoch < RaisedByFences(m, i)[calls[i].from]

\* applyLatestImagesLocal for one item, in its own transaction.  overSize: the partition is above
\* its size limit.
applyLatestImage(i, k, overSize) ==
  LET m == matOwner[k]
      new == calls[i].images[k]
      newer == new.rev > image[m][k].rev
  IN  /\ k \in left[i] /\ matImporting[m] = NoPart
      /\ overSize => faults < MaxFaults /\ newer /\ ~new.deleted
      /\ faults' = IF overSize THEN faults + 1 ELSE faults
      /\ left' = [left EXCEPT ![i] = @ \ {k}]
      /\ \/ /\ IsFenced(m, i)
            /\ seen' = [seen EXCEPT ![m] = RaisedByFences(m, i)]
            /\ answers(i, k, "fenced")
            /\ UNCHANGED <<image, top>>
         \/ /\ ~IsFenced(m, i)
            /\ seen' = [seen EXCEPT ![m] = [RaisedByFences(m, i) EXCEPT ![calls[i].from] = calls[i].epoch]]
            /\ image' = IF newer /\ ~overSize THEN [image EXCEPT ![m][k] = new] ELSE image
            /\ top' = IF newer /\ ~overSize /\ new.rev > top[k].rev THEN [top EXCEPT ![k] = new] ELSE top
            /\ answers(i, k, IF overSize THEN "unprocessed" ELSE "acknowledged")
      /\ UNCHANGED <<table, store, memory, calls, matOwner, matImporting>>

\* The item fails before its first write: the owner imports, or its transaction rolls back.
refuse(i, k) ==
  /\ k \in left[i]
  /\ left' = [left EXCEPT ![i] = @ \ {k}]
  /\ \/ matImporting[matOwner[k]] # NoPart /\ answers(i, k, "unprocessed") /\ UNCHANGED faults
     \/ faults < MaxFaults /\ faults' = faults + 1 /\ \E o \in {"unprocessed", "rejected"} : answers(i, k, o)
  /\ UNCHANGED <<table, store, memory, calls, receivers>>

\* The answer of an item is lost, and the item may still apply.
lose(i, k) ==
  /\ answer[i][k] = "none" /\ faults < MaxFaults /\ faults' = faults + 1
  /\ answers(i, k, "unknown")
  /\ UNCHANGED <<table, store, memory, calls, left, receivers>>

\* The cleanup of a receiver deletes a tombstone that every target has read.
deleteTombstone(m, k) ==
  /\ image[m][k].rev # 0 /\ image[m][k].deleted
  /\ image' = [image EXCEPT ![m][k] = NoImage]
  /\ UNCHANGED <<table, store, memory, wire, matOwner, matImporting, seen, top, faults>>

\* The cutover of a repartition of the materialization table.
matCutover(plan) ==
  LET m == plan.from
  IN  /\ matImporting[m] = NoPart /\ \A n \in Receivers : matImporting[n] # m
      /\ \A k \in DOMAIN plan.child : matOwner[k] = m
      /\ Targets(plan) \cap made = {} /\ made' = made \cup Targets(plan)
      /\ matOwner' = [k \in Keys |-> IF k \in DOMAIN plan.child THEN plan.child[k] ELSE matOwner[k]]
      /\ matImporting' = [n \in Receivers |-> IF n \in Targets(plan) THEN m ELSE matImporting[n]]
      /\ UNCHANGED <<owner, importing, router, store, memory, wire, image, seen, top, faults>>

\* The pages of the import of n: the images and the producer fences, merged with MAX.
matImport(n) ==
  LET m == matImporting[n]
  IN  /\ m # NoPart
      /\ matImporting' = [matImporting EXCEPT ![n] = NoPart]
      /\ image' = [image EXCEPT ![n] = [k \in Keys |-> IF matOwner[k] = n THEN image[m][k] ELSE NoImage]]
      /\ seen' = [seen EXCEPT ![n] = [a \in Parts |-> Greater(@[a], seen[m][a])]]
      /\ UNCHANGED <<table, store, memory, wire, matOwner, top, faults>>

----------------------------------------------------------------------------

Init ==
  /\ owner = [k \in Keys |-> First]
  /\ importing = [p \in Parts |-> NoPart]
  /\ router = [p \in Parts |-> FALSE]
  /\ item = [p \in Parts |-> [k \in Keys |-> 0]]
  /\ mark = [p \in Parts |-> 0]
  /\ outbox = [p \in Parts |-> [k \in Keys |-> NoRow]]
  /\ epoch = [p \in Parts |-> 1] /\ callOpen = [p \in Parts |-> FALSE]
  /\ fences = [p \in Parts |-> [a \in Parts |-> 0]] /\ untilId = [p \in Parts |-> 0]
  /\ started = [p \in Parts |-> FALSE] /\ idle = [p \in Parts |-> 0]
  /\ inFlight = [p \in Parts |-> {}] /\ backoff = [p \in Parts |-> FALSE]
  /\ calls = <<>> /\ left = <<>> /\ answer = <<>>
  /\ matOwner = [k \in Keys |-> MatFirst] /\ matImporting = [m \in Receivers |-> NoPart]
  /\ image = [m \in Receivers |-> [k \in Keys |-> NoImage]]
  /\ seen = [m \in Receivers |-> [p \in Parts |-> 0]]
  /\ made = {First, MatFirst} /\ top = [k \in Keys |-> NoImage] /\ faults = 0

write(p) == \E k \in Keys : captureWrite(p, k) \/ captureDelete(p, k)
export(p) == (\E K \in SUBSET Keys : claim(p, K)) \/ stop(p) \/ alarm(p)
answered(p) == \E i \in DOMAIN calls : complete(p, i, TRUE)
lost(p) == \E i \in DOMAIN calls : complete(p, i, FALSE)
waits(p) == endBackoff(p) \/ \E k \in Keys : retryIsDue(p, k)
moves == (\E plan \in Plans : onRepartitionCutover(plan)) \/ (\E plan \in MatPlans : matCutover(plan))
imports == (\E q \in Parts : import(q)) \/ (\E n \in Receivers : matImport(n))
cleans == \/ \E p \in Parts, k \in Keys : deleteOutboxCopies(p, k)
          \/ \E m \in Receivers, k \in Keys : deleteTombstone(m, k)
receives(i) == \E k \in Keys : \/ \E overSize \in BOOLEAN : applyLatestImage(i, k, overSize)
                               \/ refuse(i, k)
loses(i) == \E k \in DOMAIN answer[i] : lose(i, k)

Next == \/ \E p \in Parts : write(p) \/ export(p) \/ answered(p) \/ lost(p) \/ waits(p) \/ restart(p)
        \/ \E i \in DOMAIN calls : receives(i) \/ loses(i)
        \/ moves \/ imports \/ cleans

Spec == Init /\ [][Next]_vars

\* The loop of a worker, the alarm and the end of a wait are scheduled; a sent call gets an answer
\* or its timeout; an import goes on until it is done.
Fairness ==
  /\ \A p \in Parts : WF_vars(export(p)) /\ WF_vars(answered(p)) /\ WF_vars(waits(p))
  /\ \A i \in 1..MaxCalls : WF_vars(i \in DOMAIN calls /\ receives(i))
  /\ WF_vars(imports)
FairSpec == Spec /\ Fairness

----------------------------------------------------------------------------
(* Properties.                                                             *)

\* The receiver that holds the image of a key: the source of its owner while the owner imports.
Holder(k) == LET m == matOwner[k] IN IF matImporting[m] = NoPart THEN m ELSE matImporting[m]

\* A receiver never goes back: what it holds of a key is the newest image that it or the partitions
\* before it took, or nothing after that image was a delete.  No late call of an earlier instance, an
\* earlier owner or a timed out worker brings an older image back, also after the cleanup of the
\* tombstone (the epochs and fences of materialization-export.ts and of applyLatestImagesLocal).
NothingComesBack ==
  \A k \in Keys : LET held == image[Holder(k)][k]
                 IN  held = top[k] \/ (held = NoImage /\ top[k].deleted)

\* No change is lost: the row of a key is its last change, and a key with no row has its item at the
\* receiver: the same revision, or a delete or nothing when it is absent (upsertOutboxRow,
\* deleteOutboxRow and #captureDelete, also across the import of the outbox).
NoRowMeansMaterialized ==
  \A k \in Keys :
    LET p == owner[k]
        row == outbox[p][k]
        held == image[Holder(k)][k]
    IN  importing[p] = NoPart =>
          IF HasRow(p, k) THEN IF item[p][k] = 0 THEN row.deleted ELSE ~row.deleted /\ row.rev = item[p][k]
          ELSE IF item[p][k] = 0 THEN held.deleted ELSE held = [rev |-> item[p][k], deleted |-> FALSE]

\* Every change reaches the receiver at last, until the bound of the calls stops the exporters.
ChangesReachTheReceiver == <>[](\/ Len(calls) = MaxCalls
                                \/ \A k \in Keys : importing[owner[k]] = NoPart /\ ~HasRow(owner[k], k))
=============================================================================
