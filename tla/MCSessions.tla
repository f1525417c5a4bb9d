----------------------------- MODULE MCSessions -----------------------------
(* Two connections of one player and one of another. *)
EXTENDS Sessions

CONSTANTS c1, c2, c3

MCName == [c \in {c1, c2, c3} |-> IF c = c3 THEN "bo" ELSE "al"]

(* At most two connections are in the middle of something, and no two of   *)
(* one player run its process at once, or make its subscription at once.   *)
Bounds ==
  /\ Cardinality({c \in Conns : pc[c] \notin {"closed", "line"}}) <= 2
  /\ OneDriver /\ OneSubscriber

Symmetry == Permutations({c1, c2})
=============================================================================
