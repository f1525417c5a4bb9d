------------------------------- MODULE Leaves -------------------------------
(***************************************************************************)
(* A leaf: items in key order, none inside another's range                 *)
(* (crates/grmpl-ent/src/tree/leaf.rs).  Where rows fold into runs, a      *)
(* write joins what it can around it and splits a run it falls into.       *)
(***************************************************************************)
EXTENDS Spans

MinRun == 3

(* --------------------------------- reads ------------------------------- *)
(* The last item whose least key is at or below the key; 0 if none is.     *)
Holder(items, key) == Cardinality({i \in DOMAIN items : ~ Before(key, items[i].first)})

(* Where the key is, a row's or a hole's: its item and index in it.        *)
HitIn(items, i, key) == IF i = 0 THEN {} ELSE {<<i, j>> : j \in Find(items[i], key)}
Hits(items, key) == HitIn(items, Holder(items, key), key)

FindRow(items, key) == {h \in Hits(items, key) : items[h[1]].tag # "hole"}

LeafGet(items, key) == {items[h[1]].val : h \in FindRow(items, key)}

LeafLastLe(items, key) ==
  LET below == {i \in 1 .. Holder(items, key) : RowCount(items[i]) > 0 /\ AtOrBelow(items[i], key) > 0}
  IN {<<Row(items[i], AtOrBelow(items[i], key) - 1), items[i].val>> :
        i \in {j \in below : \A k \in below : k <= j}}

Clipped(items, lo, hi) == [i \in DOMAIN items |-> Clip(items[i], lo, hi)]

RowsOfItems(items) == FlattenSeq([i \in DOMAIN items |-> EachRow(items[i])])

(* --------------------------------- writes ------------------------------ *)
(* A span as items: a run if long enough, else rows.                       *)
SpanItems(it) ==
  IF it.n = 0 THEN << >>
  ELSE IF it.tag = "hole" \/ it.n >= MinRun THEN <<it>>
  ELSE [i \in 1 .. it.n |-> One(Row(it, i - 1), it.val)]

(* What is left of an item without its rows j up to k.                     *)
CutOut(it, j, k) == <<SpanItems(Slice(it, 0, j)), SpanItems(Slice(it, k, it.n))>>

CutAt(it, j) == CutOut(it, j, j)
SplitItem(it, key) == CutAt(it, Below(it, key))

(* Two items as one, if the second continues the first.                    *)
Continues(a, b) == b.first = Row(a, a.n)

Joined(a, b) ==
  IF a.val # b.val THEN {}
  ELSE IF a.tag = "one" /\ b.tag = "run"
  THEN {r \in {[b EXCEPT !.first = a.first, !.n = @ + 1]} : Row(b, -1) = a.first}
  ELSE IF (a.tag = "run" /\ b.tag = "one") \/ (a.tag = b.tag /\ a.tag # "one" /\ a.stride = b.stride)
  THEN {r \in {[a EXCEPT !.n = @ + b.n]} : Continues(a, b)}
  ELSE {}

Triple(a, b, c) ==
  IF {a.tag, b.tag, c.tag} = {"one"} /\ a.val = b.val /\ b.val = c.val
  THEN {Run(a.first, s, 3, a.val) :
          s \in {t \in StrideTo(a.first, b.first) : Step(b.first, t, 1) = c.first}}
  ELSE {}

(* What the items from i on fold into, and how many of them.               *)
TripleAt(items, i, runs) ==
  IF runs /\ i + 2 <= Len(items) THEN Triple(items[i], items[i + 1], items[i + 2]) ELSE {}

PairAt(items, i, runs) ==
  IF i < Len(items) THEN {r \in Joined(items[i], items[i + 1]) : runs \/ r.tag = "hole"} ELSE {}

FoldTo(i, threes, twos) ==
  IF threes # {} THEN {<<i, r, 3>> : r \in threes} ELSE {<<i, r, 2>> : r \in twos}

FoldAt(items, i, runs) == FoldTo(i, TripleAt(items, i, runs), PairAt(items, i, runs))

Replaced(items, i, n, with) ==
  SubSeq(items, 1, i - 1) \o with \o SubSeq(items, i + n, Len(items))

FoldsNear(items, at, runs) ==
  UNION {FoldAt(items, i, runs) : i \in Max({1, at - 2}) .. Min({at + 2, Len(items)})}

FirstFold(folds) == CHOOSE f \in folds : \A g \in folds : f[1] <= g[1]

RECURSIVE JoinAround(_, _, _), JoinFolds(_, _, _), JoinFold(_, _, _)
JoinFold(items, f, runs) == JoinAround(Replaced(items, f[1], f[3], <<f[2]>>), f[1], runs)
JoinFolds(items, folds, runs) ==
  IF folds = {} THEN items ELSE JoinFold(items, FirstFold(folds), runs)
JoinAround(items, at, runs) == JoinFolds(items, FoldsNear(items, at, runs), runs)

RECURSIVE CompressFrom(_, _, _)
CompressFrom(items, i, runs) ==
  IF i > Len(items) THEN items ELSE CompressFrom(JoinAround(items, i, runs), i + 1, runs)

Compress(items, runs) == CompressFrom(items, 1, runs)

(* A write: the item that could hold the key gives way to what is left of  *)
(* it below, the new row, and what is left of it above.                    *)
Halves(it, key) == CutOut(it, Below(it, key), AtOrBelow(it, key))

(* The first i items, whose last gives way, and those after them.          *)
Opening(items, i, key) ==
  IF i = 0 THEN <<<< >>, items>>
  ELSE LET halves == Halves(items[i], key)
       IN <<SubSeq(items, 1, i - 1) \o halves[1], halves[2] \o SubSeq(items, i + 1, Len(items))>>

Written(sides, row, runs) ==
  JoinAround(sides[1] \o <<row>> \o sides[2], Len(sides[1]) + 1, runs)

Unwritten(items, i, key, val) ==
  i > 0 /\ items[i].tag = "run" /\ items[i].val = val /\ Find(items[i], key) # {}

InsertAtHolder(items, i, key, val, runs) ==
  IF Unwritten(items, i, key, val) THEN items
  ELSE Written(Opening(items, i, key), One(key, val), runs)

LeafInsert(items, key, val, runs) == InsertAtHolder(items, Holder(items, key), key, val, runs)

(* find_row's hit h cut out; nothing is joined after.                      *)
LeafRemoveAt(items, h) ==
  Replaced(items, h[1], 1, FlattenSeq(CutOut(items[h[1]], h[2], h[2] + 1)))

(* A leaf's items below a key and those at or above it.                    *)
LeafSplitAt(items, key) ==
  LET p == Cardinality({i \in DOMAIN items : Before(items[i].first, key)})
      cut == IF p = 0 THEN <<<< >>, << >>>> ELSE SplitItem(items[p], key)
  IN <<SubSeq(items, 1, p - 1) \o cut[1], cut[2] \o SubSeq(items, p + 1, Len(items))>>

(* Any item another falls inside is cut there, until none is.              *)
RECURSIVE Separated(_)
Separated(items) ==
  LET over == {i \in 1 .. Len(items) - 1 : ~ Before(LastRow(items[i]), items[i + 1].first)}
      i == Min(over)
      cut == SplitItem(items[i], items[i + 1].first)
  IN IF over = {} THEN items
     ELSE Separated(SortedItems(Replaced(items, i, 1, cut[1] \o cut[2])))

Disjoint(items) == Separated(SortedItems(items))

LeafMerge(a, b, runs) ==
  Compress(FoldLeft(LAMBDA out, it :
                      LET cut == LeafSplitAt(out, it.first) IN cut[1] \o <<it>> \o cut[2],
                    a, b), runs)

(* The items whose keys lie below a pivot on a column and the rest: a run  *)
(* moves linearly in every column, so its keys below are a prefix or a     *)
(* suffix of it.                                                           *)
Ahead(it, below, col, pivot) ==
  IF BelowPivot(LastRow(it), col, pivot) = below THEN it.n
  ELSE Bisect(it.n, LAMBDA i : BelowPivot(Row(it, i), col, pivot) = below)

Sided(cut, below) == IF below THEN cut ELSE <<cut[2], cut[1]>>
SidedOn(it, below, col, pivot) == Sided(CutAt(it, Ahead(it, below, col, pivot)), below)
HalvesOn(it, col, pivot) == SidedOn(it, BelowPivot(it.first, col, pivot), col, pivot)

SplitOn(items, col, pivot) ==
  [s \in 1 .. 2 |-> FlattenSeq([i \in DOMAIN items |-> HalvesOn(items[i], col, pivot)[s]])]

(* check_items: runs long enough and ascending, items in order, none       *)
(* inside another's range.                                                 *)
ItemsInOrder(items) ==
  /\ \A i \in DOMAIN items :
       items[i].tag = "run" => items[i].n >= MinRun /\ Before(items[i].first, Row(items[i], 1))
  /\ \A i \in 1 .. Len(items) - 1 : Before(LastRow(items[i]), items[i + 1].first)
=============================================================================
