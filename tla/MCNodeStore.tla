---------------------------- MODULE MCNodeStore ----------------------------
(* Small instances of NodeStore for TLC: two trees that share a leaf, one  *)
(* of them two levels deep.                                                 *)
EXTENDS NodeStore

CONSTANTS y, p, r, s

TreeNodes == {y, p, r, s}
TreeRefs == [n \in TreeNodes |->
  CASE n = y -> {}
    [] n \in {p, s} -> {y}
    [] n = r -> {p}]
TwoTrees == {r, s}

(* Nothing is promised once a sweep's sync has failed. *)
UntilLapse == ~ lapsed
============================================================================
