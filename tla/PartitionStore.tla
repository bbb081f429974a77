--------------------------- MODULE PartitionStore ---------------------------
(***************************************************************************)
(* The item rows of one partition and their deletion metadata,             *)
(* shared/partition/partition-store.ts, as operators on one row.  A row    *)
(* has its data, its revision v, and the two transaction-order watermarks  *)
(* r (last_read_ts) and w (last_write_ts).  A deleted row leaves only the  *)
(* two marks of the partition: the highest delete timestamp and the        *)
(* highest delete revision.  Data is the sequence of the writers it is     *)
(* made of, so that a lost or a repeated write shows.                      *)
(***************************************************************************)
EXTENDS Integers, Sequences

NoData == << >>
NoRequest == << >>
NoRow == [data |-> NoData, v |-> 0, r |-> 0, w |-> 0]

Present(row) == row.v > 0

MaxOf(a, b) == IF a >= b THEN a ELSE b

(* Mutant of UpsertItem: a new row starts at revision 1. *)
UpsertFromOne(row, data, ts, markTs, markV) ==
  IF Present(row)
  THEN [data |-> data, v |-> row.v + 1, r |-> MaxOf(row.r, ts), w |-> MaxOf(row.w, ts)]
  ELSE [data |-> data, v |-> 1, r |-> MaxOf(ts, markTs), w |-> MaxOf(ts, markTs)]

(* upsertItem: a new row starts above the marks of the deleted rows. *)
UpsertItem(row, data, ts, markTs, markV) ==
  IF Present(row)
  THEN [data |-> data, v |-> row.v + 1, r |-> MaxOf(row.r, ts), w |-> MaxOf(row.w, ts)]
  ELSE [data |-> data, v |-> markV + 1, r |-> MaxOf(ts, markTs), w |-> MaxOf(ts, markTs)]

(* What deleteItem of a present row records in the deletion metadata. *)
DeleteStamp(row, ts) == MaxOf(ts, row.r)
DeleteVersion(row) == row.v + 1

(* bumpItemReadTs: the "check" operation. *)
BumpItemReadTs(row, ts) == [row EXCEPT !.r = MaxOf(@, ts)]
-----------------------------------------------------------------------------
(***************************************************************************)
(* The operations of a request: a sequence of [key, op, cond] in the order *)
(* of their opIndex.  The mode ordered_per_item lets a request have        *)
(* several operations on one item; each sees what the ones before it left. *)
(***************************************************************************)
Op == {"put", "update", "delete", "check"}
Writes == {"put", "update"}
Cond == {"any", "exists", "absent"}

KeysOf(r) == {r[i].key : i \in DOMAIN r}
OpsOf(r, k) == {i \in DOMAIN r : r[i].key = k}

(* What an operation of `writer' leaves of the data of its item. *)
Written(op, data, writer) ==
  CASE op = "put" -> <<writer>>
    [] op = "update" -> Append(data, writer)
    [] op = "delete" -> NoData
    [] op = "check" -> data

(* The data of k after each operation of r, from `data' at first. *)
DataAfter(r, k, data, writer) ==
  LET after[n \in Nat] ==
        IF n = 0 THEN data
        ELSE IF n \in OpsOf(r, k) THEN Written(r[n].op, after[n - 1], writer) ELSE after[n - 1]
  IN  after

Holds(cond, data) ==
  \/ cond = "any"
  \/ cond = "exists" /\ data # NoData
  \/ cond = "absent" /\ data = NoData
=============================================================================
