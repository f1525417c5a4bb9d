------------------------------ MODULE KdTrees ------------------------------
(***************************************************************************)
(* The k-d layout of a relation's facts (crates/grmpl-ent/src/tree/kd.rs): *)
(* binary splits on any column over wide leaves, rebuilt where an insert   *)
(* finds a path too deep, rotated only past splits on one column.  Columns *)
(* are numbered from 1: the lead column is 1.                              *)
(***************************************************************************)
EXTENDS Trees

TooDeep(levels, size) ==
  \E j \in 1 .. levels - 1 : 4 ^ j > 3 ^ j * Max({1, (2 * size) \div B})

Like(a, b) == 7 * (a + 1) >= 2 * (a + b + 2) /\ 7 * (b + 1) >= 2 * (a + b + 2)

(* ------------------------------- building ------------------------------ *)
Ends(items) == UNION {{it.first, LastRow(it)} : it \in ToSet(items)}
CellsIn(keys, col) == {k[col] : k \in {l \in keys : col <= Len(l)}}
HasColumn(keys, col) == \A k \in keys : col <= Len(k)

(* The spread of a column every end holds a number of one kind in.         *)
NumericSpread(cells) ==
  IF {KindOf(v) : v \in cells} \in {{"Ent"}, {"Int"}} THEN Max(cells) - Min(cells) ELSE 0

NumericRange(keys, col) == IF HasColumn(keys, col) THEN NumericSpread(CellsIn(keys, col)) ELSE 0

DistinctCells(keys, col) ==
  Cardinality(CellsIn(keys, col)) + (IF HasColumn(keys, col) THEN 0 ELSE 1)

(* The widest numeric column, or the one of most distinct cells; the lower *)
(* of two alike.                                                           *)
Foremost(f) == Min({c \in DOMAIN f : \A d \in DOMAIN f : f[d] <= f[c]})
WidestBy(spreads, counts) ==
  IF \A c \in DOMAIN spreads : spreads[c] = 0 THEN Foremost(counts) ELSE Foremost(spreads)

WidestOf(keys, cols) ==
  WidestBy([c \in cols |-> NumericRange(keys, c)], [c \in cols |-> DistinctCells(keys, c)])
Widest(items) == WidestOf(Ends(items), 1 .. Max({Len(k) : k \in Ends(items)}))

KeyCount(it) == RowCount(it) + ReservedCount(it)
WeightOf(items) == SumSeq([i \in DOMAIN items |-> KeyCount(items[i])])

WeightBelow(items, col, pivot) == WeightOf(SplitOn(items, col, pivot)[1])

(* The least cell above the least with half the weight below it, or the    *)
(* one before if that cuts nearer the middle: below is the weight there is *)
(* below each cell, total all of it.                                       *)
Gap(a, b) == IF a > b THEN a - b ELSE b - a

Nearer(below, a, least, total) ==
  IF a > least /\ below[a - 1] > 0 /\ Gap(total, 2 * below[a - 1]) < Gap(total, 2 * below[a])
  THEN a - 1 ELSE a

HalfOf(below, least, greatest, total) ==
  least + Bisect(greatest - least, LAMBDA i : 2 * below[least + i] < total)

NumericMedian(below, least, greatest, total) ==
  Nearer(below, HalfOf(below, least, greatest, total), least, total)

CellMedianOf(below, total) ==
  LET half == {c \in DOMAIN below : 2 * below[c] >= total}
      some == {c \in DOMAIN below : below[c] > 0}
  IN IF half \cap some # {} THEN Min(half \cap some) ELSE Max(some)

WeightsBelow(items, cells, col) == [c \in cells |-> WeightBelow(items, col, <<c>>)]

MedianOf(items, col, ends, numeric) ==
  LET cells == IF numeric THEN Min(ends) .. Max(ends) ELSE CellsIn({it.first : it \in ToSet(items)}, col)
      below == WeightsBelow(items, cells, col)
  IN IF numeric THEN NumericMedian(below, Min(ends) + 1, Max(ends), WeightOf(items))
     ELSE CellMedianOf(below, WeightOf(items))

Median(items, col) ==
  MedianOf(items, col, CellsIn(Ends(items), col), NumericRange(Ends(items), col) > 0)

SplitInto(col, pivot, sides) == SplitNode(col, pivot, sides[1], sides[2])

RECURSIVE Build(_), BuildApart(_), BuildOn(_, _), BuildSplit(_, _, _)
BuildSplit(items, col, pivot) ==
  SplitInto(col, pivot, [s \in 1 .. 2 |-> Build(SplitOn(items, col, pivot)[s])])
BuildOn(items, col) == BuildSplit(items, col, <<Median(items, col)>>)
BuildApart(items) == IF Len(items) <= B THEN LeafOrEmpty(items) ELSE BuildOn(items, Widest(items))
Build(items) == BuildApart(Disjoint(items))

ItemsOf(t) == SortedItems(ItemsUnder(Opened(t)))

(* Two leaves small enough for one, whose keys do not interleave, are one. *)
Lower(a, b) == Before(LastRow(Last(a)), b[1].first)
Smaller(a, b) == Len(a) + Len(b) <= MIN /\ (Lower(a, b) \/ Lower(b, a))

FoldsBack(lo, hi) ==
  lo.node.kind = "leaf" /\ hi.node.kind = "leaf" /\ Smaller(Opened(lo).items, Opened(hi).items)

Make(col, pivot, lo, hi) ==
  IF IsEmpty(lo) THEN hi
  ELSE IF IsEmpty(hi) THEN lo
  ELSE IF FoldsBack(lo, hi) THEN LeafOf(SortedItems(ItemsOf(lo) \o ItemsOf(hi)))
  ELSE SplitNode(col, pivot, lo, hi)

RECURSIVE SplitLevels(_)
SplitLevels(t) ==
  IF IsKd(t) THEN 1 + Max({SplitLevels(c) : c \in ToSet(t.node.ch)}) ELSE 0

(* ---------------------------- insert, remove --------------------------- *)
(* With a tree, the split levels down to the leaf written.                 *)
Levelled(t) == [t |-> t, levels |-> SplitLevels(t)]
Scapegoat(t, levels) ==
  IF TooDeep(levels, Size(t)) THEN Levelled(Build(ItemsOf(t))) ELSE [t |-> t, levels |-> levels]

KdLeaf(items) == IF Len(items) <= B THEN [t |-> LeafOf(items), levels |-> 0] ELSE Levelled(Build(items))

KdWritten(n, side, r) ==
  Scapegoat(SplitInto(n.col, n.keys[1], [n.ch EXCEPT ![side] = r.t]), r.levels + 1)

RECURSIVE KdIns(_, _, _, _)
KdIns(n, key, val, runs) ==
  IF n.kind = "leaf"
  THEN LET items == LeafInsert(n.items, key, val, runs)
       IN KdLeaf(IF Len(items) > B THEN Compress(items, runs) ELSE items)
  ELSE LET side == ChildFor(n, key) IN KdWritten(n, side, KdIns(Opened(n.ch[side]), key, val, runs))

KdInsertWith(t, key, val, runs) ==
  IF IsEmpty(t) THEN LeafOf(<<One(key, val)>>) ELSE KdIns(Opened(t), key, val, runs).t

KdRemoved(n, side, c) ==
  LET ch == [n.ch EXCEPT ![side] = c] IN Make(n.col, n.keys[1], ch[1], ch[2])

RECURSIVE KdRem(_, _, _)
KdRem(t, key, off) ==
  LET seen == OpenedAt(t, off)
      side == ChildFor(seen, key)
  IN IF t.node.kind = "none" THEN {}
     ELSE IF t.node.kind = "leaf"
     THEN {LeafOrEmpty(LeafRemoveAt(Opened(t).items, h)) : h \in FindRow(seen.items, key)}
     ELSE {KdRemoved(Opened(t), side, Relocate(c, t.dsp)) :
             c \in KdRem(t.node.ch[side], key, (off + t.dsp) % EntIds)}

KdRemoveKey(t, key) == IF KdRem(t, key, 0) = {} THEN t ELSE CHOOSE u \in KdRem(t, key, 0) : TRUE

(* A hole routed down the splits, cut at any pivot inside it.              *)
RECURSIVE KdPut(_, _)
KdPut(t, items) ==
  IF items = << >> THEN t
  ELSE IF IsEmpty(t) THEN Build(items)
  ELSE LET n == Opened(t)
       IN IF n.kind = "leaf" THEN Build(LeafMerge(n.items, items, FALSE))
          ELSE SplitInto(n.col, n.keys[1],
                         [s \in 1 .. 2 |-> KdPut(n.ch[s], SplitOn(items, n.col, n.keys[1])[s])])

KdReserve(t, hole) == IF Free(t, hole) THEN {KdPut(t, <<hole>>)} ELSE {}

(* ------------------------- join and cut on a column -------------------- *)
(* A root split on a column, opened.                                       *)
Expose(col, t) == {n \in {Opened(t)} : n.kind = "split" /\ n.col = col}

(* A split of what lies near a spine's top and what lies towards its end;  *)
(* on a left spine the two are mirrored.                                   *)
MakeOn(col, pivot, near, far, left) ==
  Make(col, pivot, IF left THEN far ELSE near, IF left THEN near ELSE far)

(* A tree still to be made: itself, or a split of two such.                *)
Whole(t) == [tree |-> TRUE, t |-> t]
Halve(k, near, far) == [tree |-> FALSE, k |-> k, near |-> near, far |-> far]

RECURSIVE Made(_, _, _)
Made(col, plan, left) ==
  IF plan.tree THEN plan.t
  ELSE MakeOn(col, plan.k, Made(col, plan.near, left), Made(col, plan.far, left), left)

(* The spine's end e, opened: its near child, its pivot, its far child.    *)
Near(e, left) == e.ch[IF left THEN 2 ELSE 1]
Far(e, left) == e.ch[IF left THEN 1 ELSE 2]

DoubleRotation(near, k, e, ms, left) ==
  IF ms = {}
  THEN Halve(k, near, Halve(e.keys[1], Whole(Near(e, left)), Whole(Far(e, left))))
  ELSE LET m == CHOOSE x \in ms : TRUE
       IN Halve(m.keys[1], Halve(k, near, Whole(Near(m, left))),
                 Halve(e.keys[1], Whole(Far(m, left)), Whole(Far(e, left))))

Rotation(col, n, k, e, left) ==
  IF Like(Size(n), Size(Near(e, left))) /\ Like(Size(n) + Size(Near(e, left)), Size(Far(e, left)))
  THEN Halve(e.keys[1], Halve(k, Whole(n), Whole(Near(e, left))), Whole(Far(e, left)))
  ELSE DoubleRotation(Whole(n), k, e, Expose(col, Near(e, left)), left)

Balance(col, n, k, t, es, left) ==
  IF Like(Size(n), Size(t)) \/ es = {} THEN Halve(k, Whole(n), Whole(t))
  ELSE Rotation(col, n, k, CHOOSE e \in es : TRUE, left)

(* join_on: every key of l lies below the pivot on the column, none of r   *)
(* does; the lighter side joins the end of the heavier one's spine.        *)
RECURSIVE JoinOn(_, _, _, _), JoinSpine(_, _, _, _, _), JoinHeavy(_, _, _, _, _)
JoinSpine(col, n, pivot, t, left) ==
  LET end == IF left THEN JoinOn(col, t, pivot, Far(n, left)) ELSE JoinOn(col, Far(n, left), pivot, t)
  IN Made(col, Balance(col, Near(n, left), n.keys[1], end, Expose(col, end), left), left)
JoinHeavy(col, heavy, pivot, t, left) ==
  IF Expose(col, heavy) = {} THEN MakeOn(col, pivot, heavy, t, left)
  ELSE JoinSpine(col, Opened(heavy), pivot, t, left)
JoinOn(col, l, pivot, r) ==
  IF IsEmpty(l) THEN r
  ELSE IF IsEmpty(r) THEN l
  ELSE IF Like(Size(l), Size(r)) THEN Make(col, pivot, l, r)
  ELSE IF Size(l) > Size(r) THEN JoinHeavy(col, l, pivot, r, FALSE)
  ELSE JoinHeavy(col, r, pivot, l, TRUE)

(* A side left whole is the tree it was.                                   *)
Shared(t, cut) ==
  IF IsEmpty(cut[1]) THEN <<Empty, t>> ELSE IF IsEmpty(cut[2]) THEN <<t, Empty>> ELSE cut

PlacedBy(t, key) == IF Len(key) = 1 THEN SideOf(Measure(t), 1, key) ELSE {}

(* Of a split on the lead column cut in one child, the child's halves and  *)
(* what lies beyond them.                                                  *)
Beyond(side, c, rest) == IF side = 1 THEN <<c[1], rest>> ELSE <<rest, c[2]>>

LeadCut(t, n, side, c) ==
  IF IsEmpty(c[side]) THEN (IF side = 1 THEN <<Empty, t>> ELSE <<t, Empty>>)
  ELSE Beyond(side, c, JoinOn(1, IF side = 1 THEN c[2] ELSE n.ch[1], n.keys[1],
                              IF side = 1 THEN n.ch[2] ELSE c[1]))

BothCut(n, cuts) == [s \in 1 .. 2 |-> Make(n.col, n.keys[1], cuts[1][s], cuts[2][s])]

(* A split on the lead column is cut on one side, any other on both.       *)
RECURSIVE KdSplit(_, _), KdSplitNode(_, _, _), KdSplitLead(_, _, _, _)
KdSplitLead(t, n, side, key) == LeadCut(t, n, side, KdSplit(n.ch[side], key))
KdSplitNode(t, n, key) ==
  IF n.kind = "leaf" THEN Shared(t, LeafSides(LeafSplitAt(n.items, key)))
  ELSE IF n.col = 1 THEN KdSplitLead(t, n, IF Before(n.keys[1], key) THEN 2 ELSE 1, key)
  ELSE Shared(t, BothCut(n, [i \in 1 .. 2 |-> KdSplit(n.ch[i], key)]))
KdSplit(t, key) ==
  IF IsEmpty(t) THEN <<Empty, Empty>>
  ELSE IF PlacedBy(t, key) # {} THEN (IF PlacedBy(t, key) = {"below"} THEN <<t, Empty>> ELSE <<Empty, t>>)
  ELSE KdSplitNode(t, Opened(t), key)

(* ------------------------------- grafting ------------------------------ *)
SplitBy(kd, t, key) == IF kd THEN KdSplit(t, key) ELSE Split(t, key)
JoinBy(kd, l, at, r) == IF kd THEN JoinOn(1, l, at, r) ELSE Join(l, r)

Cuts(kd, t, keys) == FoldLeft(LAMBDA ts, k : Front(ts) \o SplitBy(kd, Last(ts), k), <<t>>, keys)
Around(kd, below, lo, copy, hi, above) ==
  FoldLeft(LAMBDA l, p : JoinBy(kd, l, p[1], p[2]), below, <<<<lo, copy>>, <<hi, above>>>>)

(* graft and kd_graft: the keys of [lo, hi) copied to the same keys        *)
(* displaced, the copy sharing the original's nodes; {} if the target is   *)
(* taken, or the displacement does not carry the block cleanly into it.    *)
CopyInto(kd, t, copy, tlo, thi) ==
  IF ~ Before(tlo, thi) \/ AnyIn(t, tlo, thi) \/ ~ Carried(copy, tlo, thi) THEN {}
  ELSE {Around(kd, cut[1], tlo, copy, thi, cut[2]) : cut \in {Cuts(kd, t, <<tlo>>)}}

GraftBlock(kd, t, block, lo, hi, by) ==
  IF IsEmpty(block) THEN {t}
  ELSE CopyInto(kd, t, Relocate(block, by), Displaced(lo, by), Displaced(hi, by))

Graft(kd, t, lo, hi, by) ==
  IF Before(lo, hi) THEN GraftBlock(kd, t, Cuts(kd, t, <<lo, hi>>)[2], lo, hi, by) ELSE {t}

(* ---------------------------- range on a column ------------------------ *)
OutOfRange(x, col, lo, hi) == SideOf(x, col, lo) = {"below"} \/ SideOf(x, col, hi) = {"above"}

EnteredOn(n, col, lo, hi) ==
  {i \in DOMAIN n.ch : n.kind = "split" /\ n.col = col =>
     IF i = 1 THEN lo[1] < n.keys[1][1] ELSE n.keys[1][1] < hi[1]}

RECURSIVE RangeOnInto(_, _, _, _)
RangeOnInto(n, col, lo, hi) ==
  IF n.kind = "none" \/ OutOfRange(n.ext, col, lo, hi) THEN {}
  ELSE IF n.kind = "leaf"
  THEN {r \in ToSet(RowsOfItems(SelectSeq(n.items, LAMBDA it :
                      it.n < 2 \/ ~ OutOfRange(ExtentOf(it), col, lo, hi)))) :
          col <= Len(r[1]) /\ lo[1] <= r[1][col] /\ r[1][col] < hi[1]}
  ELSE UNION {RangeOnInto(Opened(n.ch[i]), col, lo, hi) : i \in EnteredOn(n, col, lo, hi)}

(* range_on: the rows whose cell in a column lies in [lo, hi).             *)
KdRangeOn(t, col, lo, hi) ==
  IF lo < hi THEN Ascending(RangeOnInto(Opened(t), col, <<lo>>, <<hi>>), LAMBDA a, b : Before(a[1], b[1]))
  ELSE << >>

(* ------------------------------- compare ------------------------------- *)
(* Each side is a set of pieces covering one region: subtrees with what    *)
(* the splits above say of them, and single rows.                          *)
NodePiece(t, region) == [node |-> TRUE, t |-> t, region |-> region, row |-> <<<< >>, 0>>]
RowPiece(row) == [node |-> FALSE, t |-> Empty, region |-> {}, row |-> row]

(* A region is what is known: a column's cells below a pivot, or not.      *)
Fact(col, side, pivot) == [col |-> col, side |-> side, pivot |-> pivot]

RegionSide(region, col, pivot) ==
  IF \E f \in region : f.col = col /\ f.side = "below" /\ f.pivot[1] <= pivot[1] THEN {"below"}
  ELSE IF \E f \in region : f.col = col /\ f.side = "above" /\ f.pivot[1] >= pivot[1] THEN {"above"}
  ELSE {}

Placed(p, col, pivot) ==
  IF RegionSide(p.region, col, pivot) # {} THEN RegionSide(p.region, col, pivot)
  ELSE SideOf(Measure(p.t), col, pivot)

SideOfRow(row, col, pivot) == IF BelowPivot(row[1], col, pivot) THEN "below" ELSE "above"
OnSide(p, side) == [side |-> side, piece |-> p]

(* A leaf whose items' ends all fall on one side is on it whole.           *)
LeafSide(items, col, pivot) ==
  {s \in {"below", "above"} : \A it \in ToSet(items) :
     SideOfRow(<<it.first>>, col, pivot) = s /\ SideOfRow(<<LastRow(it)>>, col, pivot) = s}

ChildPieces(n, region) ==
  {NodePiece(n.ch[i], region \cup
     (IF n.kind = "split" THEN {Fact(n.col, IF i = 1 THEN "below" ELSE "above", n.keys[1])} ELSE {})) :
     i \in DOMAIN n.ch}

RECURSIVE PartitionPiece(_, _, _)
PartitionPiece(p, col, pivot) ==
  LET n == Opened(p.t)
      placed == Placed(p, col, pivot)
      side == LeafSide(n.items, col, pivot)
  IN CASE ~ p.node -> {OnSide(p, SideOfRow(p.row, col, pivot))}
       [] p.node /\ placed # {} -> {OnSide(p, s) : s \in placed}
       [] p.node /\ placed = {} /\ n.kind = "leaf" ->
            IF side # {}
            THEN {OnSide(NodePiece(p.t, p.region \cup {Fact(col, s, pivot)}), s) : s \in side}
            ELSE {OnSide(RowPiece(r), SideOfRow(r, col, pivot)) : r \in ToSet(RowsOfItems(n.items))}
       [] p.node /\ placed = {} /\ n.kind \notin {"leaf", "none"} ->
            UNION {PartitionPiece(q, col, pivot) : q \in ChildPieces(n, p.region)}
       [] p.node /\ placed = {} /\ n.kind = "none" -> {}

Partition(ps, col, pivot, side) ==
  {d.piece : d \in {e \in UNION {PartitionPiece(p, col, pivot) : p \in ps} : e.side = side}}

(* Pieces that are one node at one absolute position cancel.               *)
Uncancelled(xs, ys) == {x \in xs : ~ (x.node /\ \E y \in ys : y.node /\ SameAt(x.t, y.t))}

RowsIn(ps) == UNION {IF p.node THEN ToSet(Rows(p.t)) ELSE {p.row} : p \in ps}

RowDiffs(xs, ys) ==
  LET value(rows, k) == {r[2] : r \in {q \in rows : q[1] = k}}
      keys == {r[1] : r \in xs \cup ys}
  IN {d \in {<<k, value(xs, k), value(ys, k)>> : k \in keys} : d[2] # d[3]}

(* The largest split on either side divides both.                          *)
Splitters(ps) == {p \in ps : p.node /\ IsKd(p.t)}

RECURSIVE DiffPieces(_, _)
DiffPieces(ps, qs) ==
  LET xs == Uncancelled(ps, qs)
      ys == Uncancelled(qs, ps)
      splitters == Splitters(xs \cup ys)
      n == Opened((CHOOSE p \in splitters : \A q \in splitters : Size(q.t) <= Size(p.t)).t)
      half(zs, side) == Partition(zs, n.col, n.keys[1], side)
  IN IF splitters = {} THEN RowDiffs(RowsIn(xs), RowsIn(ys))
     ELSE UNION {DiffPieces(half(xs, s), half(ys, s)) : s \in {"below", "above"}}

PiecesOf(t) == IF IsEmpty(t) THEN {} ELSE {NodePiece(t, {})}

(* diff, for trees of either layout.                                       *)
Diff(a, b) ==
  IF IsKd(a) \/ IsKd(b)
  THEN Ascending(DiffPieces(PiecesOf(a), PiecesOf(b)), LAMBDA x, y : Before(x[1], y[1]))
  ELSE DiffOrdered(a, b)

(* ------------------------------- soundness ----------------------------- *)
(* kd_check_node: every key on the side of each pivot above it.            *)
RECURSIVE SoundKdNode(_, _)
SoundKdNode(n, region) ==
  /\ Rebuilt(n).node.size = n.size /\ Rebuilt(n).node.reserved = n.reserved
  /\ Rebuilt(n).node.ext = n.ext
  /\ \/ /\ n.kind = "leaf" /\ Len(n.items) \in 1 .. B /\ ItemsInOrder(n.items)
        /\ \A it \in ToSet(n.items) : \A k \in KeysOf(it) : \A f \in region :
             SideOfRow(<<k>>, f.col, f.pivot) = f.side
     \/ /\ n.kind = "split"
        /\ \A p \in ChildPieces(n, region) : SoundKdNode(Opened(p.t), p.region)

Sound(t) == IF IsKd(t) THEN SoundKdNode(Opened(t), {}) ELSE SoundOrdered(t)
=============================================================================
