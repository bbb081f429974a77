----------------------------- MODULE MCDestroy -----------------------------
(***************************************************************************)
(* Instances of Destroy for TLC: a coordinator, a base partition,          *)
(* materialization partitions that split and promote, and an index.  The   *)
(* name of a node starts with its group; a promotion target ends in r.     *)
(***************************************************************************)
EXTENDS Destroy

GroupOf(n) ==
  CASE n = "t0" -> "tc" [] n = "p0" -> "p" [] n \in {"m0", "m1", "m2", "m1r"} -> "m" [] n \in {"g0", "g0r"} -> "g"
ParentOf(n) ==
  CASE n \in {"m1", "m2"} -> "m0" [] n = "m1r" -> "m1" [] n = "g0r" -> "g0" [] OTHER -> NoNode

TheGroup == [n \in Nodes |-> GroupOf(n)]
TheParent == [n \in Nodes |-> ParentOf(n)]
TheKind == [n \in Nodes |-> IF n \in {"g0", "m1"} THEN "promotion" ELSE "split"]
=============================================================================
