----------------------------- MODULE MCReactive -----------------------------
(***************************************************************************)
(* Plans of every operator and shape over a binary relation e and a scope  *)
(* relation s, one watch, one materialized view and a recursive view.      *)
(***************************************************************************)
EXTENDS Reactive

MCTransform(f, t) == <<t[1] + t[2]>>          \* not injective
MCAccepts(f, t) == t[1] # t[2]

Op(op, in) == [op |-> op, in |-> in]
E == [op |-> "rel", in |-> << >>, rel |-> "e"]
Span(lo, hi) == [op |-> "range", in |-> << >>, rel |-> "e", lo |-> lo, hi |-> hi]
Column(c, lo, hi) == [op |-> "rangeOn", in |-> << >>, rel |-> "e", col |-> c, lo |-> lo, hi |-> hi]
Mapping(q) == [op |-> "map", in |-> <<q>>, f |-> "sum"]
Filtered(q) == [op |-> "filter", in |-> <<q>>, f |-> "differ"]
Project(q, cols) == [op |-> "project", in |-> <<q>>, cols |-> cols]
JoinOn(l, lk, r, rk) == [op |-> "join", in |-> <<l, r>>, lk |-> lk, rk |-> rk]
Reduce(q, key, fn, col) == [op |-> "reduce", in |-> <<q>>, key |-> key, agg |-> [fn |-> fn, col |-> col]]
Inherit(q) == [op |-> "inherit", in |-> <<q>>, col |-> 2, key |-> 7, ctx |-> "s"]
Distinct(q) == Op("distinct", <<q>>)
Shared(q) == Op("shared", <<q>>)
Copy(q, prefix, reduce) ==
  [op |-> "materialized", in |-> <<q>>, into |-> "copy", cursors |-> "views", key |-> 5,
   prefix |-> prefix, reduce |-> reduce]

Twice == JoinOn(E, <<2>>, E, <<1>>)
TwoSteps == Project(Twice, <<1, 4>>)
Closure == Op("iterate", <<E, Project(JoinOn(E, <<2>>, Op("recur", << >>), <<1>>), <<1, 4>>)>>)

WholeCopy == Copy(Distinct(TwoSteps), << >>, << >>)
CopyFrom1 ==
  Copy(Distinct(Project(JoinOn(Span(<<1>>, <<2>>), <<2>>, E, <<1>>), <<4>>)), <<1>>, << >>)
CountCopy ==
  Copy(Reduce(Distinct(TwoSteps), <<1>>, "count", 1), << >>,
       <<(<<1>>), [fn |-> "count", col |-> 1]>>)

MCPlans ==
  {Span(<<1, 2>>, <<2, 2>>), Column(2, 1, 2), Mapping(E), JoinOn(Filtered(E), <<1>>, Shared(E), <<2>>),
   Op("union", <<TwoSteps, Op("negate", <<E>>)>>), Distinct(Shared(Column(2, 2, 3))), Distinct(Mapping(E)),
   Reduce(Distinct(Shared(E)), <<1>>, "max", 2), Reduce(Project(Filtered(E), <<2, 1>>), <<1>>, "count", 1),
   Reduce(E, << >>, "sum", 2), Reduce(TwoSteps, <<2>>, "min", 1),
   Closure, Inherit(E), WholeCopy, CopyFrom1, CountCopy}

MCCopies == {WholeCopy, CopyFrom1, CountCopy}
MCMaintained == [c \in MCCopies |-> TwoSteps]
MCView == [w \in Watches |-> WholeCopy]
MCPumped == [th \in Pumps |-> 1]
MCRefreshed == [th \in Maintainers |-> WholeCopy]

Insert(a, b) == <<"e", <<a, b>>, 1>>
Delete(a, b) == <<"e", <<a, b>>, -1>>
Scope(f, l, v) == <<"s", <<f, l, 7, v>>, 1>>
MCBootstrap == {<<"e", <<1, 2>>>>, <<"e", <<2, 2>>>>, <<"s", <<1, 2, 7, 8>>>>}
MCWrites ==
  {{Insert(1, 2), Insert(2, 1)}, {Delete(1, 2)}, {Delete(2, 2), Insert(1, 1)},
   {Scope(2, 2, 9), Insert(2, 1), Delete(1, 2)}}

Symmetry == Permutations(Pumps) \cup Permutations(Maintainers)

(* At most two threads are in the middle of something; a watch is there by *)
(* edition 3, so that two more commits can follow it, or not at all; and   *)
(* the fixpoint is advanced only in worlds nothing else follows, as all it *)
(* shares with the rest is the history both read.                          *)
Bounds ==
  LET busy == {th \in Threads : pc[th] # "idle"}
      installed == {w \in Watches : since[w] # NotInstalled}
  IN
  /\ Cardinality(busy) <= 2
  /\ Current > 3 => \A w \in installed : \E t \in DOMAIN At(hist, 3, "watches") : t[1] = w
  /\ fix.advances > 0 => /\ watermark = 0 /\ busy = {}
                         /\ installed = {}

(* Two steps along e, extended along s: the first rule joins e with itself. *)
MCDeletion == {{Delete(1, 2)}}
S == [op |-> "rel", in |-> << >>, rel |-> "s"]
SelfJoin ==
  Op("iterate", <<TwoSteps, Project(JoinOn(Op("recur", << >>), <<2>>, S, <<1>>), <<1, 4>>)>>)
============================================================================
