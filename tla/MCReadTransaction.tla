------------------------- MODULE MCReadTransaction --------------------------
(***************************************************************************)
(* An instance of ReadTransaction for TLC.                                 *)
(***************************************************************************)
EXTENDS ReadTransaction, TLC

CONSTANTS t1, p1, p2, d1

MCKey == {1, 2, 3}
MCPartOf == 1 :> p1 @@ 2 :> p1 @@ 3 :> p2
MCReadKeys == {2, 3}

MCOp(key, op, cond) == [key |-> key, op |-> op, cond |-> cond]

(* A transaction that deletes an item and creates it again, beside a put   *)
(* on the same partition and an update on the other one.                   *)
MCRequests ==
  {<<MCOp(2, "delete", "any"), MCOp(1, "put", "any"), MCOp(3, "update", "any"), MCOp(2, "put", "absent")>>}

(* A check, and an update after a delete.                                  *)
MCSingleShots ==
  {<<MCOp(2, "check", "exists")>>, <<MCOp(2, "delete", "exists"), MCOp(2, "update", "any")>>}
=============================================================================
