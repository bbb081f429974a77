--------------------------- MODULE MCTransactions ---------------------------
(***************************************************************************)
(* Instances of Transactions for TLC.                                      *)
(***************************************************************************)
EXTENDS Transactions, TLC

CONSTANTS t1, p1, p2, d1, d2

MCKey == {1, 2}
MCPartOf == 1 :> p1 @@ 2 :> p2

MCOp(key, op, cond) == [key |-> key, op |-> op, cond |-> cond]

(* A put and an update of one item, and a check on the other partition. *)
MCCheckPut ==
  {<<MCOp(1, "put", "any"), MCOp(2, "check", "absent"), MCOp(1, "update", "exists")>>}
=============================================================================
