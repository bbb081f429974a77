---------------------------- MODULE MCRepartition ---------------------------
(***************************************************************************)
(* An instance of Repartition for TLC: the root can promote the            *)
(* routingHash h1 of key 1 and splits into c0 (h1) and c1 (h2); c0 can     *)
(* promote h1 too, to the same range root rr.                              *)
(***************************************************************************)
EXTENDS Repartition, TLC

CONSTANTS root, rr, c0, c1, h1, h2, promo, split, promo2, t1

Keys == {1, 2}
TheHash == 1 :> h1 @@ 2 :> h2
TheSlice == root :> {1, 2} @@ rr :> {1} @@ c0 :> {1} @@ c1 :> {2}
TheKind == promo :> "key_promotion" @@ split :> "hash_split" @@ promo2 :> "key_promotion"
TheSource == promo :> root @@ split :> root @@ promo2 :> c0
TheTargets == promo :> {rr} @@ split :> {c0, c1} @@ promo2 :> {rr}
TheTxKeys == t1 :> {1, 2}

(* The transaction on one side, a put with a read on the other, not both   *)
(* in one behaviour; nothing more happens once they are over.              *)
OneActor ==
  LET locked == \E p \in Part, k \in Key : lock[p][k] # NoTx
  IN  /\ locked \/ txState[t1] # "open" => read.state = "idle" /\ (txState[t1] = "committing" \/ clock = 0)
      /\ txState[t1] # "open" => locked
      /\ read.state # "answered"
=============================================================================
