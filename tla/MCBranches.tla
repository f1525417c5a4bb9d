----------------------------- MODULE MCBranches -----------------------------
(***************************************************************************)
(* A few branches of one small relation.                                   *)
(***************************************************************************)
EXTENDS Branches

(* Row 1 is a token, put there with its neighbour in the same leaf and     *)
(* moved to row 3, in the next leaf; the last leaf is filled by copies.    *)
Place == [pre |-> {}, updates |-> << <<1, 1>>, <<2, 1>> >>]
Move == [pre |-> {1}, updates |-> << <<1, -1>>, <<3, 1>> >>]

Patches1 == {Place, Move}
Blocks1 == {[lo |-> 1, hi |-> 3, by |-> 4], [lo |-> 1, hi |-> 5, by |-> 2]}
Spans1 == {<<1, 2>>, <<4, 6>>}
Bindings1 == {<<"name", 1>>, <<"name", 2>>}

Calls == [commit |-> 0, graft |-> 0, register |-> 0, fork |-> 0, merge |-> 0,
          consolidate |-> 0, ask |-> 0, index |-> 0]

(* Histories that part and meet, twice, or over a longer run; copies and   *)
(* what is kept of them; the index; interests; catalogs.                   *)
Budgets1 ==
  {[Calls EXCEPT !.commit = 2, !.fork = 2, !.merge = 2],
   [Calls EXCEPT !.commit = 3, !.fork = 1, !.merge = 1],
   [Calls EXCEPT !.commit = 2, !.graft = 1, !.fork = 1, !.merge = 1, !.consolidate = 1],
   [Calls EXCEPT !.commit = 1, !.graft = 2, !.fork = 1, !.merge = 1],
   [Calls EXCEPT !.commit = 2, !.graft = 1, !.fork = 1, !.consolidate = 1, !.ask = 2],
   [Calls EXCEPT !.commit = 2, !.graft = 1, !.fork = 2, !.consolidate = 1, !.index = 1],
   [Calls EXCEPT !.commit = 1, !.register = 2, !.fork = 1, !.merge = 1]}

(* Two commits replayed into a merge, a fork of it between the two, and    *)
(* the fork merged back: now two branches hold a copy of the first commit. *)
Patches2 == {Place}
Budgets2 == {[Calls EXCEPT !.commit = 2, !.fork = 2, !.merge = 3]}
=============================================================================
