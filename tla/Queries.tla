------------------------------ MODULE Queries ------------------------------
(***************************************************************************)
(* Query plans, what they mean at an edition, how they change between two  *)
(* editions without being evaluated again, and the maintained fixpoint     *)
(* (crates/grmpl-diff/src/query.rs, recursive.rs).                         *)
(*                                                                         *)
(* A plan is a record: "op", "in" (its inputs, in order) and the operator's *)
(* own fields.  A history h is a sequence of editions, each with db (the   *)
(* multiset of every relation) and touched (the rows its commit wrote,     *)
(* cancelled or not, by relation); edition e is h[e + 1].                  *)
(***************************************************************************)
EXTENDS Multisets

CONSTANTS
  Transform(_, _),   (* what a Map's closure makes of a tuple            *)
  Accepts(_, _),     (* whether a Filter's closure keeps a tuple         *)
  ProbeLimit         (* PROBE_LIMIT: keys a delta looks up one at a time *)

At(h, e, rel) == h[e + 1].db[rel]

(* The operators: a relation, whole or restricted to a key span or to a    *)
(* span of one column's values; the linear ones; the set boundary, the     *)
(* aggregate, recursion and its variable; sharing; scopes; stored copies.  *)
BaseOps == {"rel", "range", "rangeOn"}
Ops == BaseOps \cup {"map", "filter", "project", "join", "union", "negate", "distinct",
                     "reduce", "iterate", "recur", "shared", "inherit", "materialized"}

(* The relations a plan names itself. *)
Named(q) == CASE q.op \in BaseOps -> {q.rel}
              [] q.op = "inherit" -> {q.ctx}
              [] OTHER -> {}

RECURSIVE BaseRelations(_)
BaseRelations(q) ==
  Named(q) \cup UNION {BaseRelations(q.in[i]) : i \in DOMAIN q.in}

(* Aggregates are refused inside a recursion. *)
RECURSIVE ContainsReduce(_)
ContainsReduce(q) ==
  q.op = "reduce" \/ \E i \in DOMAIN q.in : ContainsReduce(q.in[i])

RECURSIVE Legal(_)
Legal(q) == /\ q.op \in Ops
            /\ q.op = "iterate" => \A i \in DOMAIN q.in : ~ ContainsReduce(q.in[i])
            /\ \A i \in DOMAIN q.in : Legal(q.in[i])

(* The one key span a plan reads, as a set of none or one. *)
RECURSIVE KeySpan(_)
KeySpan(q) ==
  CASE q.op = "range" -> {[rel |-> q.rel, lo |-> q.lo, hi |-> q.hi]}
    [] q.op \in {"map", "filter", "project", "distinct", "reduce", "shared",
                 "materialized"} -> KeySpan(q.in[1])
    [] OTHER -> {}

(* Whether a commit in (from, to] wrote one of the relations, or a row of  *)
(* the span.                                                               *)
Touched(h, from, to, rels) ==
  \E e \in from + 1 .. to : \E rel \in rels : h[e + 1].touched[rel] # {}

TouchedSpan(h, from, to, s) ==
  \E e \in from + 1 .. to : \E t \in h[e + 1].touched[s.rel] : InSpan(t, s.lo, s.hi)

Quiet(q, h, from, to) == ~ Touched(h, from, to, BaseRelations(q))

(* The routing question of the pump and of refresh. *)
Unmoved(q, h, from, to) ==
  IF KeySpan(q) # {} THEN \A s \in KeySpan(q) : ~ TouchedSpan(h, from, to, s)
  ELSE Quiet(q, h, from, to)

-----------------------------------------------------------------------------
(* Operators on multisets. *)

Joined(l, lk, r, rk) ==
  LET pairs == {p \in (DOMAIN l) \X (DOMAIN r) : Cells(p[1], lk) = Cells(p[2], rk)}
  IN Stripped({p[1] \o p[2] : p \in pairs},
       LAMBDA u : MapThenSumSet(LAMBDA p : l[p[1]] * r[p[2]],
                                {p \in pairs : p[1] \o p[2] = u}))

Folded(members, agg) ==
  LET column == {t[agg.col] : t \in members} IN
  CASE agg.fn = "count" -> Cardinality(members)
    [] agg.fn = "sum" -> MapThenSumSet(LAMBDA t : t[agg.col], members)
    [] agg.fn = "min" -> Min(column)
    [] agg.fn = "max" -> Max(column)

Reduced(m, key, agg) ==
  LET members == {t \in DOMAIN m : m[t] > 0}
      group(k) == {t \in members : Cells(t, key) = k}
  IN [u \in {Append(k, Folded(group(k), agg)) : k \in {Cells(t, key) : t \in members}} |-> 1]

(* A scope <<first, last, key, value>> binds its key for entities within;  *)
(* the latest start, then the earliest end, then the least value wins.     *)
Overrides(s, o) ==
  \/ s[1] > o[1]
  \/ s[1] = o[1] /\ s[2] < o[2]
  \/ s[1] = o[1] /\ s[2] = o[2] /\ s[4] <= o[4]

Inherited(m, col, key, ctx) ==
  LET scopes(e) == {s \in DOMAIN ctx : ctx[s] > 0 /\ s[3] = key /\ s[1] <= e /\ e <= s[2]}
      best(e) == CHOOSE s \in scopes(e) : \A o \in scopes(e) : Overrides(s, o)
  IN Mapped(Restricted(m, LAMBDA t : scopes(t[col]) # {}),
            LAMBDA t : Append(t, best(t[col])[4]))

(* What a base relation's restriction keeps. *)
Admits(q, t) ==
  CASE q.op = "rel" -> TRUE
    [] q.op = "range" -> InSpan(t, q.lo, q.hi)
    [] q.op = "rangeOn" -> q.lo <= t[q.col] /\ t[q.col] < q.hi

-----------------------------------------------------------------------------
(* Materialized views.  The copy is a relation of rows led by the view's   *)
(* arguments; its cursor row <<key, edition>> is in the relation "cursors". *)

Cursor(q, h, at) ==
  {t[2] : t \in {u \in DOMAIN At(h, at, q.cursors) :
                   At(h, at, q.cursors)[u] > 0 /\ u[1] = q.key}}

BugCopyCurrent(q, h, at) == Cursor(q, h, at) # {}

(* The copy is provably the view at an edition. *)
CopyCurrent(q, h, at) ==
  \E c \in Cursor(q, h, at) :
     c >= at \/ ~ Touched(h, c, at, BaseRelations(q.in[1]))

Suffix(q, t) == SubSeq(t, Len(q.prefix) + 1, Len(t))

StoredView(q, h, at) ==
  Mapped(Restricted(At(h, at, q.into), LAMBDA t : StartsWith(t, q.prefix)),
         LAMBDA t : Suffix(q, t))

-----------------------------------------------------------------------------
(* The answer at an edition.  recur is <<>> or <<the recursion variable's  *)
(* value>>; over overrides relations with contents held in memory.         *)

Read(h, at, over, rel) == IF rel \in DOMAIN over THEN over[rel] ELSE At(h, at, rel)

RECURSIVE Eval(_, _, _, _, _), Fixpoint(_, _, _, _, _, _)

(* Least fixpoint of distinct(init \cup step(R)), from R = distinct(init). *)
Fixpoint(q, h, at, over, init, r) ==
  LET next == Present(Merge(init, Eval(q.in[2], h, at, <<r>>, over)))
  IN IF next = r THEN r ELSE Fixpoint(q, h, at, over, init, next)

Eval(q, h, at, recur, over) ==
  LET sub(i) == Eval(q.in[i], h, at, recur, over) IN
  CASE q.op \in BaseOps -> Restricted(Read(h, at, over, q.rel), LAMBDA t : Admits(q, t))
    [] q.op = "map" -> Mapped(sub(1), LAMBDA t : Transform(q.f, t))
    [] q.op = "filter" -> Restricted(sub(1), LAMBDA t : Accepts(q.f, t))
    [] q.op = "project" -> Mapped(sub(1), LAMBDA t : Cells(t, q.cols))
    [] q.op = "join" -> Joined(sub(1), q.lk, sub(2), q.rk)
    [] q.op = "union" -> Merge(sub(1), sub(2))
    [] q.op = "negate" -> Negated(sub(1))
    [] q.op = "distinct" -> Present(sub(1))
    [] q.op = "reduce" -> Reduced(sub(1), q.key, q.agg)
    [] q.op = "recur" -> IF recur = << >> THEN None ELSE recur[1]
    [] q.op = "iterate" ->
         LET init == Eval(q.in[1], h, at, << >>, over)
         IN Fixpoint(q, h, at, over, init, Present(init))
    [] q.op = "inherit" -> Inherited(sub(1), q.col, q.key, Read(h, at, over, q.ctx))
    [] q.op = "shared" -> sub(1)
    [] q.op = "materialized" ->
         IF recur = << >> /\ DOMAIN over = {} /\ CopyCurrent(q, h, at)
         THEN LET set == Present(StoredView(q, h, at))
              IN IF q.reduce = << >> THEN set
                 ELSE Reduced(set, q.reduce[1], q.reduce[2])
         ELSE sub(1)

EvalSnapshot(q, h, at) == Eval(q, h, at, << >>, None)

-----------------------------------------------------------------------------
(* Shapes a delta is quicker for. *)

RECURSIVE BaseOf(_)
BaseOf(q) == IF q.op = "shared" THEN BaseOf(q.in[1]) ELSE q

IsBase(q) == BaseOf(q).op \in BaseOps

(* A base relation seen through filters and projections: what the plan     *)
(* makes of one base row, as a set of none or one, and the base column one *)
(* of its columns carries.                                                 *)
RECURSIVE IsRowwise(_)
IsRowwise(q) ==
  q.op \in BaseOps \/ (q.op \in {"filter", "project", "shared"} /\ IsRowwise(q.in[1]))

RECURSIVE RowBase(_)
RowBase(q) == IF q.op \in BaseOps THEN q ELSE RowBase(q.in[1])

RECURSIVE Image(_, _)
Image(q, t) ==
  CASE q.op \in BaseOps -> IF Admits(q, t) THEN {t} ELSE {}
    [] q.op = "filter" -> {u \in Image(q.in[1], t) : Accepts(q.f, u)}
    [] q.op = "project" -> {Cells(u, q.cols) : u \in Image(q.in[1], t)}
    [] q.op = "shared" -> Image(q.in[1], t)

RECURSIVE Source(_, _)
Source(q, col) ==
  CASE q.op \in BaseOps -> col
    [] q.op = "project" -> Source(q.in[1], q.cols[col])
    [] OTHER -> Source(q.in[1], col)

RECURSIVE Unwrapped(_)
Unwrapped(q) == IF q.op \in {"distinct", "shared"} THEN Unwrapped(q.in[1]) ELSE q

(* Version compare: the tuples whose weight differs between two editions,  *)
(* and what their presence changes by.                                     *)
Compared(h, rel, from, to) ==
  {t \in DOMAIN At(h, from, rel) \cup DOMAIN At(h, to, rel) :
     Weight(At(h, from, rel), t) # Weight(At(h, to, rel), t)}

Crossing(h, rel, from, to, t) ==
  (IF Weight(At(h, to, rel), t) > 0 THEN 1 ELSE 0)
    - (IF Weight(At(h, from, rel), t) > 0 THEN 1 ELSE 0)

Crossed(h, rel, from, to) ==
  Stripped(Compared(h, rel, from, to), LAMBDA t : Crossing(h, rel, from, to, t))

(* The part of one side of a join that can meet the other side's change. *)
Matching(side, key, delta, dkey, h, to) ==
  LET keys == {t[dkey[1]] : t \in DOMAIN delta} IN
  IF IsBase(side) /\ Len(key) > 0 /\ Len(dkey) > 0 /\ Cardinality(keys) <= ProbeLimit
  THEN Restricted(At(h, to, BaseOf(side).rel),
                  LAMBDA t : t[key[1]] \in keys /\ Admits(BaseOf(side), t))
  ELSE EvalSnapshot(side, h, to)

(* The per-key delta of a reduce: the groups that changed are folded again *)
(* at both ends, the past end being the present one with the changed rows  *)
(* put back.                                                               *)
Imaged(q, m) ==
  Mapped(Restricted(m, LAMBDA t : Image(q, t) # {}),
         LAMBDA t : CHOOSE u \in Image(q, t) : TRUE)

ChangedGroups(q, in, h, from, to) ==
  {Cells(u, q.key) : u \in UNION {Image(in, t) : t \in Compared(h, RowBase(in).rel, from, to)}}

ByKey(q, h, from, to) ==
  LET in == Unwrapped(q.in[1]) IN
  /\ IsRowwise(in) /\ Len(q.key) > 0
  /\ Cardinality({g[1] : g \in ChangedGroups(q, in, h, from, to)}) <= ProbeLimit

ReducedByKey(q, h, from, to) ==
  LET in == Unwrapped(q.in[1])
      rel == RowBase(in).rel
      groups == ChangedGroups(q, in, h, from, to)
      probed == Restricted(At(h, to, rel),
                  LAMBDA t : t[Source(in, q.key[1])] \in {g[1] : g \in groups})
      present == Restricted(Imaged(in, probed), LAMBDA u : Cells(u, q.key) \in groups)
      back == Imaged(in, Difference(At(h, from, rel), At(h, to, rel)))
  IN Difference(Reduced(present, q.key, q.agg), Reduced(Merge(present, back), q.key, q.agg))

(* The change of a copy without an aggregate: rows that enter or leave. *)
StoredDelta(q, h, from, to) ==
  Mapped(Restricted(Crossed(h, q.into, from, to), LAMBDA t : StartsWith(t, q.prefix)),
         LAMBDA t : Suffix(q, t))

-----------------------------------------------------------------------------
(* The change over (from, to]. *)

Recomputed(q, h, from, to) == Difference(EvalSnapshot(q, h, to), EvalSnapshot(q, h, from))

BugJoinedDelta(q, da, db, h, to) ==
  Merge(Joined(da, q.lk, EvalSnapshot(q.in[2], h, to), q.rk),
        Joined(EvalSnapshot(q.in[1], h, to), q.lk, db, q.rk))

JoinedDelta(q, da, db, h, to) ==
  LET b == Matching(q.in[2], q.rk, da, q.lk, h, to)
      a == Matching(q.in[1], q.lk, db, q.rk, h, to)
      left == IF da = None THEN None ELSE Joined(da, q.lk, b, q.rk)
      right == IF db = None THEN None ELSE Joined(a, q.lk, db, q.rk)
  IN Difference(Merge(left, right), Joined(da, q.lk, db, q.rk))

RECURSIVE Delta(_, _, _, _)
Delta(q, h, from, to) ==
  LET d(i) == Delta(q.in[i], h, from, to) IN
  CASE q.op \in BaseOps ->
         Restricted(Difference(At(h, to, q.rel), At(h, from, q.rel)), LAMBDA t : Admits(q, t))
    [] q.op = "map" -> Mapped(d(1), LAMBDA t : Transform(q.f, t))
    [] q.op = "filter" -> Restricted(d(1), LAMBDA t : Accepts(q.f, t))
    [] q.op = "project" -> Mapped(d(1), LAMBDA t : Cells(t, q.cols))
    [] q.op = "join" -> JoinedDelta(q, d(1), d(2), h, to)
    [] q.op = "union" -> Merge(d(1), d(2))
    [] q.op = "negate" -> Negated(d(1))
    [] q.op = "distinct" ->
         IF IsBase(q.in[1])
         THEN LET base == BaseOf(q.in[1])
              IN Restricted(Crossed(h, base.rel, from, to), LAMBDA t : Admits(base, t))
         ELSE IF Quiet(q, h, from, to) THEN None ELSE Recomputed(q, h, from, to)
    [] q.op = "reduce" ->
         IF Quiet(q, h, from, to) THEN None
         ELSE IF ByKey(q, h, from, to) THEN ReducedByKey(q, h, from, to)
         ELSE Recomputed(q, h, from, to)
    [] q.op = "iterate" ->
         IF Quiet(q, h, from, to) THEN None ELSE Recomputed(q, h, from, to)
    [] q.op = "recur" -> None
    [] q.op = "shared" -> d(1)
    [] q.op = "inherit" ->
         IF Touched(h, from, to, {q.ctx}) THEN Recomputed(q, h, from, to)
         ELSE Inherited(d(1), q.col, q.key, At(h, to, q.ctx))
    [] q.op = "materialized" ->
         IF q.reduce = << >> /\ CopyCurrent(q, h, from) /\ CopyCurrent(q, h, to)
         THEN StoredDelta(q, h, from, to)
         ELSE d(1)

-----------------------------------------------------------------------------
(* The maintained fixpoint of an iterate: r is its value at edition from,  *)
(* and it is brought to edition to without starting over.                  *)

Vanished(h, rel, from, to) ==
  {t \in DOMAIN At(h, from, rel) :
     At(h, from, rel)[t] > 0 /\ Weight(At(h, to, rel), t) <= 0}

BugIsMonotone(q, h, from, to) == TRUE

IsMonotone(q, h, from, to) ==
  \A rel \in BaseRelations(q) : Vanished(h, rel, from, to) = {}

(* Everything step derives, over and over, from a frontier of facts; with  *)
(* within = <<all>>, only what is in all.                                  *)
RECURSIVE Spread(_, _, _, _, _, _)
Spread(q, h, at, within, done, frontier) ==
  LET derived == DOMAIN Present(Eval(q.in[2], h, at, <<[t \in frontier |-> 1]>>, None))
      kept == IF within = << >> THEN derived ELSE derived \cap within[1]
      seen == done \cup frontier
  IN IF frontier = {} THEN done ELSE Spread(q, h, at, within, seen, kept \ seen)

(* The facts with a derivation that used a deleted tuple, judged by        *)
(* evaluating with one relation at a time holding only what it lost.       *)
Overdeleted(q, h, r, from, to) ==
  LET lost(rel) == rel :> [t \in Vanished(h, rel, from, to) |-> 1]
      broken(rel) ==
        DOMAIN Present(Eval(q.in[1], h, from, << >>, lost(rel)))
          \cup DOMAIN Present(Eval(q.in[2], h, from, <<r>>, lost(rel)))
      seed == UNION {broken(rel) : rel \in {b \in BaseRelations(q) : Vanished(h, b, from, to) # {}}}
  IN Spread(q, h, from, <<DOMAIN r>>, {}, seed \cap DOMAIN r)

Survivors(q, h, r, from, to) ==
  IF IsMonotone(q, h, from, to) THEN DOMAIN r
  ELSE DOMAIN r \ Overdeleted(q, h, r, from, to)

Grown(q, h, to, start) ==
  LET from == [t \in start |-> 1]
      new == (DOMAIN Present(EvalSnapshot(q.in[1], h, to))
               \cup DOMAIN Present(Eval(q.in[2], h, to, <<from>>, None))) \ start
  IN [t \in Spread(q, h, to, << >>, start, new) |-> 1]

Advanced(q, h, r, from, to) == Grown(q, h, to, Survivors(q, h, r, from, to))
============================================================================
