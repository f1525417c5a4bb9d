------------------------------- MODULE Spans -------------------------------
(***************************************************************************)
(* Keys, the displacement of entity ids, the items a leaf is made of (a    *)
(* row, a run of rows in equal steps, a hole of reserved keys), and the    *)
(* extent that bounds a subtree's entities (crates/grmpl-ent/src/dsp.rs,   *)
(* measure.rs and tree/leaf.rs).  A key is a tuple of Values; a            *)
(* displacement is an integer below the number of entity ids; an absent    *)
(* option is {} and a present one a singleton.                             *)
(***************************************************************************)
EXTENDS Values, Multisets, SequencesExt

EntIds == EntMax + 1

(* The members of a set, in the order given.                               *)
Ascending(S, Less(_, _)) ==
  LET rank == [x \in S |-> Cardinality({y \in S : Less(y, x)})]
  IN [i \in 1 .. Cardinality(S) |-> CHOOSE x \in S : rank[x] = i - 1]

SortedRows(rows) == SortSeq(rows, LAMBDA a, b : Before(a[1], b[1]))
SortedItems(items) == SortSeq(items, LAMBDA a, b : Before(a.first, b.first))

IsEnt(v) == v \in 0 .. EntMax

(* Wrapping addition: an entity id is unsigned, an integer signed.         *)
Shifted(cell, by) ==
  IF IsEnt(cell) THEN (cell + by) % EntIds
  ELSE Num(((IntOf(cell) + by + IntMax + 1) % (2 * IntMax + 2)) - IntMax - 1)

(* Displace for Tuple: every entity cell moves, no other.                  *)
Displaced(k, by) ==
  [c \in DOMAIN k |-> IF IsEnt(k[c]) THEN (k[c] + by) % EntIds ELSE k[c]]

Step(k, stride, i) ==
  [c \in 1 .. Min({Len(k), Len(stride)}) |->
     IF stride[c] = 0 \/ KindOf(k[c]) \notin {"Ent", "Int"} THEN k[c]
     ELSE Shifted(k[c], stride[c] * i)]

(* The stride from a to b, if one step of it reaches b from below.         *)
Steps(x, y) ==
  x = y \/ (KindOf(x) = KindOf(y) /\ KindOf(x) \in {"Ent", "Int"} /\ IsInt(y - x))

StrideTo(a, b) ==
  IF Len(a) = Len(b) /\ Before(a, b) /\ \A c \in DOMAIN a : Steps(a[c], b[c])
  THEN {[c \in DOMAIN a |-> b[c] - a[c]]} ELSE {}

(* cmp_column: a key without the column lies below every pivot.            *)
BelowPivot(k, col, pivot) == Len(k) < col \/ k[col] < pivot[1]

(* --------------------------------- items ------------------------------- *)
One(k, v) == [tag |-> "one", first |-> k, stride |-> << >>, n |-> 1, val |-> v]
Run(k, stride, n, v) == [tag |-> "run", first |-> k, stride |-> stride, n |-> n, val |-> v]
Hole(k, stride, n) == [tag |-> "hole", first |-> k, stride |-> stride, n |-> n, val |-> 0]

Row(it, i) == IF i = 0 THEN it.first ELSE Step(it.first, it.stride, i)
LastRow(it) == Row(it, it.n - 1)
Slice(it, a, b) == [it EXCEPT !.first = Row(it, a), !.n = b - a]
Moved(it, by) == [it EXCEPT !.first = Displaced(@, by)]

RowCount(it) == IF it.tag = "hole" THEN 0 ELSE it.n
ReservedCount(it) == IF it.tag = "hole" THEN it.n ELSE 0
KeysOf(it) == {Row(it, i) : i \in 0 .. it.n - 1}

(* The rows of an item in order, each with its value; a hole has none.     *)
EachRow(it) == [i \in 1 .. RowCount(it) |-> <<Row(it, i - 1), it.val>>]

(* How many indices below n, from 0, come before the first to fail P, by   *)
(* bisection.                                                              *)
Bisect(n, P(_)) ==
  LET from[a \in 0 .. n, b \in 0 .. n] ==
        IF a >= b THEN a
        ELSE LET mid == a + (b - a) \div 2 IN IF P(mid) THEN from[mid + 1, b] ELSE from[a, mid]
  IN from[0, n]

Below(it, key) == Bisect(it.n, LAMBDA i : Before(Row(it, i), key))

Find(it, key) == {i \in {Below(it, key)} : i < it.n /\ Row(it, i) = key}

AtOrBelow(it, key) == Below(it, key) + Cardinality(Find(it, key))

(* The part of an item in [lo, hi).                                        *)
Clip(it, lo, hi) == Slice(it, Below(it, lo), Max({Below(it, lo), Below(it, hi)}))

(* --------------------------------- extent ------------------------------ *)
(* Per column the least and greatest entity, and how many keys hold one;   *)
(* and the keys there are.  Holes count, so that what an extent proves     *)
(* holds for them too.                                                     *)
NoExtent == [bounds |-> << >>, ents |-> << >>, rows |-> 0]

CellBound(x, y) == IF IsEnt(x) THEN {<<Min({x, y}), Max({x, y})>>} ELSE {}

ExtentOf(it) ==
  IF it.n = 0 THEN NoExtent
  ELSE [bounds |-> [c \in DOMAIN it.first |-> CellBound(it.first[c], LastRow(it)[c])],
        ents |-> [c \in DOMAIN it.first |-> IF IsEnt(it.first[c]) THEN it.n ELSE 0], rows |-> it.n]

Bound(x, c) == IF c <= Len(x.bounds) THEN x.bounds[c] ELSE {}
Ents(x, c) == IF c <= Len(x.ents) THEN x.ents[c] ELSE 0

Hull(bs) ==
  IF bs = {} THEN {} ELSE {<<Min({b[1] : b \in bs}), Max({b[2] : b \in bs})>>}

Combined(x, y) ==
  LET cols == 1 .. Max({Len(x.bounds), Len(y.bounds)})
  IN [bounds |-> [c \in cols |-> Hull(Bound(x, c) \cup Bound(y, c))],
      ents |-> [c \in cols |-> Ents(x, c) + Ents(y, c)], rows |-> x.rows + y.rows]

ExtentMoved(x, by) ==
  [x EXCEPT !.bounds = [c \in DOMAIN @ |->
     {[i \in 1 .. 2 |-> (b[i] + by) % EntIds] : b \in @[c]}]]

(* Which side of a pivot every key summarized lies on, if the extent can   *)
(* tell: only where every key holds an entity in the column.               *)
SideOf(x, col, pivot) ==
  {s \in {"below", "above"} :
     /\ KindOf(pivot[1]) = "Ent" /\ x.rows > 0 /\ Ents(x, col) = x.rows
     /\ \E b \in Bound(x, col) :
          IF b[2] < pivot[1] THEN s = "below" ELSE b[1] >= pivot[1] /\ s = "above"}

Meets(x, col, lo, hi) == \E b \in Bound(x, col) : b[1] < hi /\ lo <= b[2]

Within(x, lo, hi) ==
  \A c \in DOMAIN x.bounds : \A b \in x.bounds[c] : lo <= b[1] /\ b[2] < hi
=============================================================================
