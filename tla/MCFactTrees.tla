----------------------------- MODULE MCFactTrees -----------------------------
(***************************************************************************)
(* The Fact tree on small relations, with nodes of at most four: trees of  *)
(* three levels, runs, holes, tuples of other arities and kinds, and       *)
(* copies of blocks.                                                       *)
(***************************************************************************)
EXTENDS FactTrees

Pair(a, b) == <<Ent(a), Ent(b)>>

(* Steps of two columns moving against each other, then scattered pairs, a *)
(* tuple of one column and one that holds no entity in its second.         *)
Regular == [i \in 1 .. 6 |-> Pair(7 + i, 14 - i)]
Scattered == <<Pair(1, 5), Pair(2, 4), Pair(2, 60), Pair(3, 1), Pair(5, 2), <<Ent(6)>>,
               <<Ent(16), Text(1)>>, Pair(18, 3), Pair(19, 40), Pair(21, 20), Pair(22, 3)>>

(* An entity and a number, moving at different speeds: runs of one value.  *)
Numbered == [i \in 1 .. 4 |-> <<Ent(24 + i), Num(2 * i)>>]

Beginnings1 == {Regular \o Scattered \o Numbered, Regular}
Shapes1 == {[layout |-> "ordered", runs |-> FALSE], [layout |-> "ordered", runs |-> TRUE],
            [layout |-> "kd", runs |-> TRUE]}
Tuples1 == {Pair(1, 5), Pair(2, 60), Pair(10, 11), <<Ent(41), Num(1)>>}
Diffs1 == {1, -1}
Holes1 == {Hole(Pair(30, 0), <<0, 1>>, 4), Hole(Pair(18, 0), <<1, 0>>, 3)}
Blocks1 == {[lo |-> 8, hi |-> 14, by |-> 30], [lo |-> 1, hi |-> 6, by |-> 44],
            [lo |-> 24, hi |-> 31, by |-> 20], [lo |-> 8, hi |-> 14, by |-> 56]}
ProbeCells1 == {Ent(2), Ent(9), Ent(12), Ent(18), Ent(41), Text(1)}
=============================================================================
