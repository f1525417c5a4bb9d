------------------------------- MODULE Trees -------------------------------
(***************************************************************************)
(* The persistent B+ tree of a relation's facts (crates/grmpl-ent/src/     *)
(* tree.rs): a handle is a node and the displacement of the node's keys    *)
(* from the frame the handle lives in; a node caches its size, its         *)
(* reserved keys and its extent in its own frame.  Sharing is equality:    *)
(* one node is one value.  Paging a node in changes nothing read here.     *)
(***************************************************************************)
EXTENDS Leaves

CONSTANTS
  B,    (* the most items in a leaf and the most children of a node        *)
  MIN   (* the fewest, below the root                                      *)

ASSUME TreesAssumption == MIN = B \div 2 /\ MIN > 1

(* The rewritten form of a node: one tree, or two and what separates them. *)
Done(t) == [ts |-> <<t>>, seps |-> << >>]

NoNode == [kind |-> "none", col |-> 0, keys |-> << >>, ch |-> << >>, items |-> << >>,
           size |-> 0, reserved |-> 0, ext |-> NoExtent]

Empty == [dsp |-> 0, node |-> NoNode]
IsEmpty(t) == t.node.kind = "none"
IsKd(t) == t.node.kind = "split"

Size(t) == t.node.size
Reserved(t) == t.node.reserved
Measure(t) == ExtentMoved(t.node.ext, t.dsp)

SumSeq(s) == FoldLeft(LAMBDA a, x : a + x, 0, s)
HullSeq(s) == FoldLeft(Combined, NoExtent, s)

LeafOf(items) ==
  [dsp |-> 0, node |->
    [kind |-> "leaf", col |-> 0, keys |-> << >>, ch |-> << >>, items |-> items,
     size |-> SumSeq([i \in DOMAIN items |-> RowCount(items[i])]),
     reserved |-> SumSeq([i \in DOMAIN items |-> ReservedCount(items[i])]),
     ext |-> HullSeq([i \in DOMAIN items |-> ExtentOf(items[i])])]]

LeafOrEmpty(items) == IF items = << >> THEN Empty ELSE LeafOf(items)

Branch(kind, col, keys, ch) ==
  [dsp |-> 0, node |->
    [kind |-> kind, col |-> col, keys |-> keys, ch |-> ch, items |-> << >>,
     size |-> SumSeq([i \in DOMAIN ch |-> Size(ch[i])]),
     reserved |-> SumSeq([i \in DOMAIN ch |-> Reserved(ch[i])]),
     ext |-> HullSeq([i \in DOMAIN ch |-> Measure(ch[i])])]]

Internal(keys, ch) == Branch("internal", 0, keys, ch)
SplitNode(col, pivot, lo, hi) == Branch("split", col, <<pivot>>, <<lo, hi>>)

FromParts(keys, ch) ==
  IF ch = << >> THEN Empty ELSE IF Len(ch) = 1 THEN ch[1] ELSE Internal(keys, ch)

RootOf(res) == FromParts(res.seps, res.ts)

Relocate(t, by) == IF IsEmpty(t) THEN t ELSE [t EXCEPT !.dsp = (@ + by) % EntIds]

(* A node in the frame its handle lives in: its keys displaced and its     *)
(* children relocated.  A walk that opens as it goes reads absolute keys.  *)
Opened(t) ==
  IF t.dsp = 0 THEN t.node
  ELSE [t.node EXCEPT
    !.items = [i \in DOMAIN @ |-> Moved(@[i], t.dsp)],
    !.keys = [i \in DOMAIN @ |-> Displaced(@[i], t.dsp)],
    !.ch = [i \in DOMAIN @ |-> Relocate(@[i], t.dsp)],
    !.ext = ExtentMoved(@, t.dsp)]

OpenedAt(t, off) == Opened([t EXCEPT !.dsp = (@ + off) % EntIds])

Rebuilt(n) ==
  IF n.kind = "leaf" THEN LeafOf(n.items) ELSE Branch(n.kind, n.col, n.keys, n.ch)

Normalized(t) == IF t.dsp = 0 THEN t ELSE Rebuilt(Opened(t))

(* A split on the lead column divides keys as a separator does; on any     *)
(* other the children's keys interleave.                                   *)
Separates(n) == n.kind = "internal" \/ (n.kind = "split" /\ n.col = 1)

ChildIndex(keys, key) == 1 + Cardinality({i \in DOMAIN keys : ~ Before(key, keys[i])})

ChildFor(n, key) ==
  IF n.kind = "internal" THEN ChildIndex(n.keys, key)
  ELSE IF BelowPivot(key, n.col, n.keys[1]) THEN 1 ELSE 2

(* --------------------------------- reads ------------------------------- *)
(* Walks are over opened nodes, keys absolute.                             *)
RECURSIVE LeafFor(_, _)
LeafFor(n, key) ==
  IF n.kind \in {"leaf", "none"} THEN n.items ELSE LeafFor(Opened(n.ch[ChildFor(n, key)]), key)

Get(t, key) == LeafGet(LeafFor(Opened(t), key), key)
HoldsKey(t, key) == Hits(LeafFor(Opened(t), key), key) # {}

RECURSIVE ItemsUnder(_)
ItemsUnder(n) ==
  IF n.kind \in {"leaf", "none"} THEN n.items
  ELSE FlattenSeq([i \in DOMAIN n.ch |-> ItemsUnder(Opened(n.ch[i]))])

(* The iterator: in key order, a subtree whose children interleave sorted. *)
RECURSIVE Entries(_)
Entries(n) ==
  IF n.kind \in {"leaf", "none"} THEN RowsOfItems(n.items)
  ELSE IF Separates(n) THEN FlattenSeq([i \in DOMAIN n.ch |-> Entries(Opened(n.ch[i]))])
  ELSE SortedRows(RowsOfItems(ItemsUnder(n)))

Rows(t) == Entries(Opened(t))

(* The children whose spans can overlap [lo, hi).                          *)
Visited(n, lo, hi) ==
  IF Separates(n)
  THEN LET first == ChildIndex(n.keys, lo)
           last == Min({1 + Cardinality({i \in DOMAIN n.keys : Before(n.keys[i], hi)}), Len(n.ch)})
       IN first .. Max({first, last})
  ELSE DOMAIN n.ch

VisitedSeq(n, lo, hi) == Ascending(Visited(n, lo, hi), LAMBDA a, b : a < b)

(* What the separators above say of a child's keys: a lower and an upper   *)
(* bound, each an option.                                                  *)
BoundsOf(n, i, nlo, nhi) ==
  IF Separates(n) THEN <<IF i = 1 THEN nlo ELSE {n.keys[i - 1]}, IF i = Len(n.ch) THEN nhi ELSE {n.keys[i]}>>
  ELSE <<nlo, nhi>>

Apart(nlo, nhi, lo, hi) ==
  (\E k \in nlo : ~ Before(k, hi)) \/ (\E k \in nhi : ~ Before(lo, k))

Contained(nlo, nhi, lo, hi) ==
  (\E k \in nlo : ~ Before(k, lo)) /\ (\E k \in nhi : ~ Before(hi, k))

(* What [lo, hi) is made of: whole subtrees, known by what they cache, and *)
(* the parts of items at its two edges.                                    *)
WholePart(n) == <<[size |-> n.size, reserved |-> n.reserved, ext |-> n.ext]>>

ItemPart(it) ==
  [size |-> RowCount(it), reserved |-> ReservedCount(it),
   ext |-> IF it.tag = "hole" THEN NoExtent ELSE ExtentOf(it)]

RECURSIVE Parts(_, _, _, _, _)
Parts(n, lo, hi, nlo, nhi) ==
  IF n.kind = "none" \/ Apart(nlo, nhi, lo, hi) THEN << >>
  ELSE IF Contained(nlo, nhi, lo, hi) THEN WholePart(n)
  ELSE IF n.kind = "leaf" THEN [i \in DOMAIN n.items |-> ItemPart(Clip(n.items[i], lo, hi))]
  ELSE LET visited == VisitedSeq(n, lo, hi)
       IN FlattenSeq([j \in DOMAIN visited |->
            Parts(Opened(n.ch[visited[j]]), lo, hi, BoundsOf(n, visited[j], nlo, nhi)[1],
                  BoundsOf(n, visited[j], nlo, nhi)[2])])

PartsOf(t, lo, hi) == IF Before(lo, hi) THEN Parts(Opened(t), lo, hi, {}, {}) ELSE << >>

CountRange(t, lo, hi) ==
  LET ps == PartsOf(t, lo, hi) IN SumSeq([i \in DOMAIN ps |-> ps[i].size])

MeasureRange(t, lo, hi) ==
  LET ps == PartsOf(t, lo, hi) IN HullSeq([i \in DOMAIN ps |-> ps[i].ext])

AnyIn(t, lo, hi) == {p \in ToSet(PartsOf(t, lo, hi)) : p.size + p.reserved > 0} # {}

RECURSIVE RangeInto(_, _, _)
RangeInto(n, lo, hi) ==
  IF n.kind \in {"leaf", "none"} THEN RowsOfItems(Clipped(n.items, lo, hi))
  ELSE LET visited == VisitedSeq(n, lo, hi)
       IN FlattenSeq([j \in DOMAIN visited |-> RangeInto(Opened(n.ch[visited[j]]), lo, hi)])

RangeCollect(t, lo, hi) ==
  IF Before(lo, hi) THEN SortedRows(RangeInto(Opened(t), lo, hi)) ELSE << >>

(* The greatest row at or below a key: where keys are divided in order,    *)
(* of the last child to have one.                                          *)
RECURSIVE LastLe(_, _)
LastLe(n, key) ==
  IF n.kind \in {"leaf", "none"} THEN LeafLastLe(n.items, key)
  ELSE LET asked == IF Separates(n) THEN 1 .. ChildIndex(n.keys, key) ELSE DOMAIN n.ch
           found == [i \in asked |-> LastLe(Opened(n.ch[i]), key)]
           some == {i \in asked : found[i] # {}}
           all == UNION {found[i] : i \in some}
       IN IF Separates(n) THEN UNION {found[i] : i \in {j \in some : \A k \in some : k <= j}}
          ELSE {r \in all : \A q \in all : ~ Before(r[1], q[1])}

(* The facts whose entity in a column falls in [lo, hi), entering only     *)
(* subtrees and runs whose extent meets the span (search, search_box).     *)
RECURSIVE SearchInto(_, _, _, _)
SearchInto(n, col, lo, hi) ==
  IF n.kind = "none" \/ ~ Meets(n.ext, col, lo, hi) THEN << >>
  ELSE IF n.kind = "leaf"
  THEN SelectSeq(RowsOfItems(SelectSeq(n.items, LAMBDA it : Meets(ExtentOf(it), col, lo, hi))),
                 LAMBDA r : col <= Len(r[1]) /\ r[1][col] \in lo .. hi - 1)
  ELSE FlattenSeq([i \in DOMAIN n.ch |-> SearchInto(Opened(n.ch[i]), col, lo, hi)])

SearchBox(t, col, lo, hi) == SortedRows(SearchInto(Opened(t), col, lo, hi))

Extremes(n, greatest) ==
  IF Separates(n) THEN {IF greatest THEN Len(n.ch) ELSE 1} ELSE DOMAIN n.ch

RECURSIVE ExtremeKeys(_, _)
ExtremeKeys(n, greatest) ==
  IF n.kind = "leaf" THEN {IF greatest THEN LastRow(Last(n.items)) ELSE n.items[1].first}
  ELSE UNION {ExtremeKeys(Opened(n.ch[i]), greatest) : i \in Extremes(n, greatest)}

Least(ks) == CHOOSE k \in ks : \A l \in ks : ~ Before(l, k)
Greatest(ks) == CHOOSE k \in ks : \A l \in ks : ~ Before(k, l)
MinKey(t) == Least(ExtremeKeys(Opened(t), FALSE))
MaxKey(t) == Greatest(ExtremeKeys(Opened(t), TRUE))

RECURSIVE HeightOf(_)
HeightOf(n) ==
  IF n.kind = "none" THEN 0 ELSE IF n.kind = "leaf" THEN 1 ELSE 1 + HeightOf(n.ch[1].node)

Height(t) == HeightOf(t.node)

(* --------------------------------- writes ------------------------------ *)
(* A rewritten leaf: folded, and halved if it overflows all the same.      *)
Halved(s) == <<SubSeq(s, 1, Len(s) \div 2), SubSeq(s, Len(s) \div 2 + 1, Len(s))>>

LeafForm(parts) ==
  [ts |-> [h \in DOMAIN parts |-> LeafOrEmpty(parts[h])],
   seps |-> [h \in 1 .. Len(parts) - 1 |-> parts[h + 1][1].first]]

FinishFolded(items) == LeafForm(IF Len(items) <= B THEN <<items>> ELSE Halved(items))

FinishLeaf(items, runs) == FinishFolded(IF Len(items) > B THEN Compress(items, runs) ELSE items)

(* A run of children and the separators between them.                      *)
Form(parts, seps) ==
  [ts |-> [h \in DOMAIN parts |-> Internal(parts[h].ks, parts[h].ch)], seps |-> seps]

PartsHalved(p, mid) ==
  <<[ks |-> SubSeq(p.ks, 1, mid - 1), ch |-> SubSeq(p.ch, 1, mid)],
    [ks |-> SubSeq(p.ks, mid + 1, Len(p.ks)), ch |-> SubSeq(p.ch, mid + 1, Len(p.ch))]>>

Finish(p) ==
  LET mid == Len(p.ch) \div 2
  IN Form(IF Len(p.ch) <= B THEN <<p>> ELSE PartsHalved(p, mid),
          IF Len(p.ch) <= B THEN << >> ELSE <<p.ks[mid]>>)

(* Child i, or n children from i on, given way to a rewritten form.        *)
Spliced(p, i, n, res) ==
  [ks |-> SubSeq(p.ks, 1, i - 1) \o res.seps \o SubSeq(p.ks, i + n - 1, Len(p.ks)),
   ch |-> Replaced(p.ch, i, n, res.ts)]

Parted(n) == [ks |-> n.keys, ch |-> n.ch]

Underflows(t) ==
  CASE t.node.kind = "none" -> TRUE
    [] t.node.kind = "leaf" -> Len(t.node.items) < MIN
    [] t.node.kind = "internal" -> Len(t.node.ch) < MIN

(* Two siblings as one node, halved again if it overflows.                 *)
BugFused(a, sep, b) ==
  CASE a.kind = "leaf" /\ b.kind = "leaf" -> FinishFolded(a.items \o b.items)
    [] a.kind = "internal" /\ b.kind = "internal" ->
         Finish([ks |-> a.keys \o <<b.keys[1]>> \o b.keys, ch |-> a.ch \o b.ch])

Fused(a, sep, b) ==
  CASE a.kind = "leaf" /\ b.kind = "leaf" -> FinishFolded(a.items \o b.items)
    [] a.kind = "internal" /\ b.kind = "internal" ->
         Finish([ks |-> a.keys \o <<sep>> \o b.keys, ch |-> a.ch \o b.ch])

Fuse(p, j) == Spliced(p, j, 2, Fused(Opened(p.ch[j]), p.ks[j], Opened(p.ch[j + 1])))

Fix(p, i) ==
  IF ~ Underflows(p.ch[i]) \/ Len(p.ch) = 1 THEN p
  ELSE Fuse(p, IF i > 1 THEN i - 1 ELSE i)

(* ins, for one child rewritten: joining runs can leave a leaf fewer items *)
(* than before.                                                            *)
Repaired(p, i, res) == IF Len(res.ts) = 2 THEN p ELSE Fix(p, i)

PartsDone(p) == IF Len(p.ch) = 1 THEN Done(p.ch[1]) ELSE Finish(p)
InsDone(p, i, res) == PartsDone(Repaired(Spliced(p, i, 1, res), i, res))

RECURSIVE Ins(_, _, _, _)
Ins(n, key, val, runs) ==
  IF n.kind = "leaf" THEN FinishLeaf(LeafInsert(n.items, key, val, runs), runs)
  ELSE LET i == ChildIndex(n.keys, key)
       IN InsDone(Parted(n), i, Ins(Opened(n.ch[i]), key, val, runs))

InsertWith(t, key, val, runs) ==
  IF IsEmpty(t) THEN LeafOf(<<One(key, val)>>) ELSE RootOf(Ins(Opened(t), key, val, runs))

(* rem: {} if the key is absent, so that the version stays shared.  The    *)
(* key stays in the frame it was asked in, and what comes back from a      *)
(* child is moved up by the displacement of the handle above it.           *)
RelocatedForm(res, by) ==
  [ts |-> [i \in DOMAIN res.ts |-> Relocate(res.ts[i], by)],
   seps |-> [i \in DOMAIN res.seps |-> Displaced(res.seps[i], by)]]

RemDone(p, i, res) == Finish(Repaired(Spliced(p, i, 1, res), i, res))

RECURSIVE Rem(_, _, _)
Rem(t, key, off) ==
  LET seen == OpenedAt(t, off)
      i == ChildIndex(seen.keys, key)
  IN IF t.node.kind = "none" THEN {}
     ELSE IF t.node.kind = "leaf"
     THEN {FinishLeaf(LeafRemoveAt(Opened(t).items, h), FALSE) : h \in FindRow(seen.items, key)}
     ELSE {RemDone(Parted(Opened(t)), i, RelocatedForm(res, t.dsp)) :
             res \in Rem(t.node.ch[i], key, (off + t.dsp) % EntIds)}

ShrinkRoot(t) ==
  IF t.node.kind = "internal" /\ Len(t.node.ch) = 1 THEN Relocate(t.node.ch[1], t.dsp) ELSE t

RemovedRoot(res) == IF Len(res.ts) = 1 THEN ShrinkRoot(res.ts[1]) ELSE RootOf(res)

RemoveKey(t, key) ==
  IF Rem(t, key, 0) = {} THEN t ELSE RemovedRoot(CHOOSE res \in Rem(t, key, 0) : TRUE)

(* ------------------------- split, join and graft ------------------------ *)
JoinSame(l, r) ==
  LET p == Fuse([ks |-> <<MinKey(r)>>, ch |-> <<l, r>>], 1) IN [ts |-> p.ch, seps |-> p.ks]

(* The lower tree hung off the spine of the taller, at its own height, to  *)
(* its left or its right.                                                  *)
Beside(p, t, left) ==
  IF left THEN [ks |-> <<MinKey(p.ch[1])>> \o p.ks, ch |-> <<t>> \o p.ch]
  ELSE [ks |-> Append(p.ks, MinKey(t)), ch |-> Append(p.ch, t)]

Hung(p, t, left) == Fix(Beside(p, t, left), IF left THEN 1 ELSE Len(p.ch) + 1)

RECURSIVE JoinOnto(_, _, _, _), JoinUnder(_, _, _, _, _)
JoinUnder(p, edge, t, above, left) ==
  Spliced(p, edge, 1, JoinOnto(Opened(p.ch[edge]), t, above, left))
JoinOnto(n, t, above, left) ==
  Finish(IF above = 1 THEN Hung(Parted(n), t, left)
         ELSE JoinUnder(Parted(n), IF left THEN 1 ELSE Len(n.ch), t, above - 1, left))

JoinTall(l, r, hl, hr) ==
  IF hl = hr THEN JoinSame(l, r)
  ELSE IF hl > hr THEN JoinOnto(Opened(l), r, hl - hr, FALSE) ELSE JoinOnto(Opened(r), l, hr - hl, TRUE)

Join(l, r) ==
  IF IsEmpty(l) THEN r ELSE IF IsEmpty(r) THEN l ELSE RootOf(JoinTall(l, r, Height(l), Height(r)))

(* The cut goes through one child; what lies either side of it is joined   *)
(* to that child's halves.                                                 *)
SplitParts(p, i, halves) ==
  LET left == FromParts(SubSeq(p.ks, 1, i - 2), SubSeq(p.ch, 1, i - 1))
      right == FromParts(SubSeq(p.ks, i + 1, Len(p.ks)), SubSeq(p.ch, i + 1, Len(p.ch)))
      pairs == <<<<left, halves[1]>>, <<halves[2], right>>>>
  IN [s \in 1 .. 2 |-> Join(pairs[s][1], pairs[s][2])]

LeafSides(sides) == <<LeafOrEmpty(sides[1]), LeafOrEmpty(sides[2])>>

RECURSIVE SplitAt(_, _), SplitChild(_, _, _)
SplitChild(p, i, key) == SplitParts(p, i, SplitAt(Opened(p.ch[i]), key))
SplitAt(n, key) ==
  IF n.kind \in {"leaf", "none"} THEN LeafSides(LeafSplitAt(n.items, key))
  ELSE SplitChild(Parted(n), ChildIndex(n.keys, key), key)

Split(t, key) ==
  IF IsEmpty(t) \/ Before(MaxKey(t), key) THEN <<t, Empty>>
  ELSE IF ~ Before(MinKey(t), key) THEN <<Empty, t>>
  ELSE SplitAt(Opened(t), key)

Free(t, span) ==
  ~ AnyIn(t, span.first, LastRow(span)) /\ ~ HoldsKey(t, LastRow(span))

(* A tree cut at each key of an ascending list, and trees joined in order. *)
SplitAll(t, keys) == FoldLeft(LAMBDA ts, k : Front(ts) \o Split(Last(ts), k), <<t>>, keys)
JoinAll(ts) == FoldLeft(Join, Empty, ts)

(* A hole put in by a cut and a join; {} if its keys are not all free.     *)
Reserve(t, hole) ==
  IF Free(t, hole)
  THEN {JoinAll([SplitAll(t, <<hole.first, LastRow(hole)>>) EXCEPT ![2] = LeafOf(<<hole>>)])} ELSE {}

(* Where a copy displaced comes out whole in the span it is bound for.     *)
Carried(copy, tlo, thi) == ~ Before(MinKey(copy), tlo) /\ Before(MaxKey(copy), thi)

(* ------------------------------ compare -------------------------------- *)
(* Each side is a frontier, in key order: rows, runs from some row on, and *)
(* subtrees not yet opened, each with the separator that bounds it below.  *)
NodeHead(t, lo) == [node |-> TRUE, t |-> t, lo |-> lo, item |-> One(<< >>, 0), i |-> 0]
RowHead(it) == [node |-> FALSE, t |-> Empty, lo |-> {}, item |-> it, i |-> 0]

HeadRow(h) == Row(h.item, h.i)

Advanced(hs, by) ==
  IF hs[1].i + by < hs[1].item.n THEN <<[hs[1] EXCEPT !.i = @ + by]>> \o Tail(hs) ELSE Tail(hs)

OpenedHead(h) ==
  LET n == Opened(h.t)
      rows == SelectSeq(n.items, LAMBDA it : it.tag # "hole")
  IN IF n.kind = "leaf" THEN [i \in DOMAIN rows |-> RowHead(rows[i])]
     ELSE [i \in DOMAIN n.ch |-> NodeHead(n.ch[i], IF i = 1 THEN h.lo ELSE {n.keys[i - 1]})]

OpenOnto(hs) == OpenedHead(hs[1]) \o Tail(hs)

(* One node at one absolute position is skipped unread.                    *)
BugSameAt(x, y) == x.node = y.node
SameAt(x, y) == x.dsp = y.dsp /\ x.node = y.node

LiesAbove(h, key) == \E k \in h.lo : Before(key, k)

DiffStep(x, y) ==
  CASE x.node /\ y.node -> IF SameAt(x.t, y.t) THEN "skip" ELSE "openBoth"
    [] ~ x.node /\ y.node -> IF LiesAbove(y, HeadRow(x)) THEN "left" ELSE "openRight"
    [] x.node /\ ~ y.node -> IF LiesAbove(x, HeadRow(y)) THEN "right" ELSE "openLeft"
    [] OTHER -> IF HeadRow(x) = HeadRow(y) THEN "pair"
                ELSE IF Before(HeadRow(x), HeadRow(y)) THEN "left" ELSE "right"

(* Differences are <<key, the left value, the right value>>.               *)
OneSided(rows, left) ==
  [i \in DOMAIN rows |-> <<rows[i][1], IF left THEN {rows[i][2]} ELSE {}, IF left THEN {} ELSE {rows[i][2]}>>]

HeadRows(h) == IF h.node THEN Rows(h.t) ELSE <<<<HeadRow(h), h.item.val>>>>
Consumed(hs) == IF hs[1].node THEN Tail(hs) ELSE Advanced(hs, 1)

(* Two runs at one key with one stride are compared for as long as both    *)
(* last.                                                                   *)
Stretch(x, y) ==
  IF x.item.tag = "run" /\ y.item.tag = "run" /\ x.item.stride = y.item.stride
  THEN Min({x.item.n - x.i, y.item.n - y.i}) ELSE 1

PairDiffs(x, y) ==
  IF x.item.val = y.item.val THEN << >>
  ELSE [i \in 1 .. Stretch(x, y) |-> <<Row(x.item, x.i + i - 1), {x.item.val}, {y.item.val}>>]

RECURSIVE DiffInto(_, _)
DiffInto(xs, ys) ==
  LET step == IF xs = << >> THEN IF ys = << >> THEN "done" ELSE "right"
              ELSE IF ys = << >> THEN "left" ELSE DiffStep(xs[1], ys[1])
  IN CASE step = "done" -> << >>
       [] step = "skip" -> DiffInto(Tail(xs), Tail(ys))
       [] step = "left" -> OneSided(HeadRows(xs[1]), TRUE) \o DiffInto(Consumed(xs), ys)
       [] step = "right" -> OneSided(HeadRows(ys[1]), FALSE) \o DiffInto(xs, Consumed(ys))
       [] step = "pair" -> PairDiffs(xs[1], ys[1])
                           \o DiffInto(Advanced(xs, Stretch(xs[1], ys[1])), Advanced(ys, Stretch(xs[1], ys[1])))
       [] step = "openBoth" -> DiffInto(OpenOnto(xs), OpenOnto(ys))
       [] step = "openLeft" -> DiffInto(OpenOnto(xs), ys)
       [] step = "openRight" -> DiffInto(xs, OpenOnto(ys))

Frontier(t) == IF IsEmpty(t) THEN << >> ELSE <<NodeHead(t, {})>>
DiffOrdered(a, b) == DiffInto(Frontier(a), Frontier(b))

(* ------------------------------- soundness ----------------------------- *)
(* check_node: items in order and inside the separators' span, occupancy   *)
(* and depth, cached counts, and the extent a node would compute anew.     *)
InBounds(k, nlo, nhi) == (\A l \in nlo : ~ Before(k, l)) /\ (\A h \in nhi : Before(k, h))

RECURSIVE SoundNode(_, _, _, _)
SoundNode(n, nlo, nhi, root) ==
  /\ Rebuilt(n).node.size = n.size /\ Rebuilt(n).node.reserved = n.reserved
  /\ Rebuilt(n).node.ext = n.ext
  /\ \/ /\ n.kind = "leaf"
        /\ Len(n.items) \in (IF root THEN 1 ELSE MIN) .. B
        /\ ItemsInOrder(n.items)
        /\ \A it \in ToSet(n.items) : InBounds(it.first, nlo, nhi) /\ InBounds(LastRow(it), nlo, nhi)
     \/ /\ n.kind = "internal"
        /\ Len(n.ch) \in (IF root THEN 2 ELSE MIN) .. B
        /\ Len(n.keys) = Len(n.ch) - 1
        /\ \A i \in 1 .. Len(n.keys) - 1 : Before(n.keys[i], n.keys[i + 1])
        /\ \A k \in ToSet(n.keys) : InBounds(k, nlo, nhi)
        /\ Cardinality({Height(c) : c \in ToSet(n.ch)}) = 1
        /\ \A i \in DOMAIN n.ch :
             SoundNode(Opened(n.ch[i]), BoundsOf(n, i, nlo, nhi)[1], BoundsOf(n, i, nlo, nhi)[2], FALSE)

SoundOrdered(t) == IsEmpty(t) \/ SoundNode(Opened(t), {}, {}, TRUE)
=============================================================================
