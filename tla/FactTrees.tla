------------------------------ MODULE FactTrees ------------------------------
(***************************************************************************)
(* One relation's facts in the store: the tree of its current edition in   *)
(* its layout, the version of an earlier edition, the grafts made since,   *)
(* and the Arrangement that orders the current facts by another column     *)
(* (crates/grmpl-ent/src/store.rs).  Reads by key, span and column are the *)
(* store's own.                                                            *)
(***************************************************************************)
EXTENDS KdTrees

CONSTANTS
  Tuples, Diffs, Holes, Blocks,   (* as in Dictionary                      *)
  Beginnings,   (* lists of tuples a relation is first written with        *)
  Shapes,       (* [layout, runs] a relation may take                      *)
  ProbeCells,   (* the cells reads are asked for                           *)
  OrderColumn,  (* the column an Arrangement may be asked for              *)
  MaxEdits      (* how many changes follow the earlier edition             *)

VARIABLES
  shape,   (* the relation's layout, and whether rows fold into runs       *)
  base,    (* the Fact tree of the earlier edition                         *)
  facts,   (* the Fact tree of the current edition                         *)
  grafts,  (* the grafts between, each with the tree it copied from        *)
  order,   (* the Arrangement of OrderColumn, if one was built             *)
  edits    (* how many changes were made                                   *)

vars == <<shape, base, facts, grafts, order, edits>>

(* ------------------------------- writes -------------------------------- *)
NetWeight(t, key) == SumSet(Get(t, key))

Netted(t, key, net, sh) ==
  CASE sh.layout = "ordered" /\ net = 0 -> RemoveKey(t, key)
    [] sh.layout = "ordered" /\ net # 0 -> InsertWith(t, key, net, sh.runs)
    [] sh.layout = "kd" /\ net = 0 -> KdRemoveKey(t, key)
    [] sh.layout = "kd" /\ net # 0 -> KdInsertWith(t, key, net, sh.runs)

(* fold_fact: the tuple's weight netted into the current version.          *)
Folded(t, key, diff, sh) == Netted(t, key, NetWeight(t, key) + diff, sh)

(* The tree of a relation written a tuple at a time, as a singleton.       *)
FirstWritten(tuples, sh) ==
  FoldLeft(LAMBDA ts, k : {Folded(t, k, 1, sh) : t \in ts}, {Empty}, tuples)

(* A tuple with one column leading; {} if it has no such column.           *)
Rotate(k, col) ==
  IF col <= Len(k)
  THEN {[c \in DOMAIN k |-> IF c = 1 THEN k[col] ELSE IF c <= col THEN k[c - 1] ELSE k[c]]}
  ELSE {}

Unrotate(k, col) ==
  [c \in DOMAIN k |-> IF c < col THEN k[c + 1] ELSE IF c = col THEN k[1] ELSE k[c]]

Plain == [layout |-> "ordered", runs |-> FALSE]

Rearranged(a, key, net) ==
  IF Rotate(key, OrderColumn) = {} THEN a
  ELSE Netted(a, CHOOSE k \in Rotate(key, OrderColumn) : TRUE, net, Plain)

Arranged(t) ==
  FoldLeft(LAMBDA as, r : {Rearranged(a, r[1], r[2]) : a \in as}, {Empty}, Rows(t))

(* Every existing Arrangement is kept in step with the primary order.      *)
BugKept(key, net) == {Rearranged(a, key, 1) : a \in order}
Kept(key, net) == {Rearranged(a, key, net) : a \in order}

Init ==
  /\ shape \in Shapes
  /\ base \in UNION {FirstWritten(b, shape) : b \in Beginnings}
  /\ facts = base
  /\ grafts = << >>
  /\ order = {}
  /\ edits = 0

Editing == edits < MaxEdits /\ edits' = edits + 1 /\ UNCHANGED <<shape, base>>

FoldFact(key, diff) ==
  /\ Editing
  /\ facts' = Folded(facts, key, diff, shape)
  /\ order' = Kept(key, NetWeight(facts, key) + diff)
  /\ UNCHANGED grafts

ReserveIn(t, hole) == IF shape.layout = "kd" THEN KdReserve(t, hole) ELSE Reserve(t, hole)

ReserveKeys(hole) ==
  /\ Editing
  /\ facts' \in ReserveIn(facts, hole)
  /\ UNCHANGED <<grafts, order>>

(* instance_template for this relation: refused if a fact of the block     *)
(* names an entity outside it, if the target is taken, or if the shift     *)
(* wraps; nothing to do if the block holds no key.  The Arrangement is     *)
(* dropped, since a copy is not one span of it.                            *)
GraftIn(t, b) == Graft(shape.layout = "kd", t, <<b.lo>>, <<b.hi>>, b.by)

BugGraftable(t, b) == AnyIn(t, <<b.lo>>, <<b.hi>>)

Graftable(t, b) ==
  AnyIn(t, <<b.lo>>, <<b.hi>>) /\ Within(MeasureRange(t, <<b.lo>>, <<b.hi>>), b.lo, b.hi)

InstanceTemplate(b) ==
  /\ Editing
  /\ Graftable(facts, b)
  /\ facts' \in GraftIn(facts, b)
  /\ grafts' = Append(grafts, [block |-> b, from |-> facts])
  /\ order' = {}

(* ensure_order: a read of the current facts by a trailing column builds   *)
(* the Arrangement on first use; k-d splits need none.                     *)
EnsureOrder ==
  /\ order = {} /\ shape.layout = "ordered"
  /\ order' = Arranged(facts)
  /\ UNCHANGED <<shape, base, facts, grafts, edits>>

(* -------------------------------- reads -------------------------------- *)
(* At the current edition, or an earlier one.                              *)
Filtered(t, Keep(_)) == SelectSeq(Rows(t), Keep)

Arrangement == CHOOSE a \in (IF order = {} THEN Arranged(facts) ELSE order) : TRUE

Unrotated(rows) == [i \in DOMAIN rows |-> <<Unrotate(rows[i][1], OrderColumn), rows[i][2]>>]

(* read_range_on a column: a key range of the lead column, a walk of the   *)
(* k-d splits, a range of the Arrangement, or a search on the extents.     *)
ReadRangeOn(t, current, col, lo, hi) ==
  CASE col = 1 -> RangeCollect(t, <<lo>>, <<hi>>)
    [] col > 1 /\ shape.layout = "kd" -> KdRangeOn(t, col, lo, hi)
    [] col > 1 /\ shape.layout # "kd" /\ current ->
         Unrotated(RangeCollect(Arrangement, <<lo>>, <<hi>>))
    [] col > 1 /\ shape.layout # "kd" /\ ~ current /\ {KindOf(lo), KindOf(hi)} = {"Ent"} ->
         SearchBox(t, col, lo, hi)
    [] OTHER -> Filtered(t, LAMBDA r : col <= Len(r[1]) /\ lo <= r[1][col] /\ r[1][col] < hi)

(* lookup: each key that has a next value is such a range; entities below  *)
(* the current edition are one search, anything else a filter.             *)
Holding(t, col, keys) == Filtered(t, LAMBDA r : col <= Len(r[1]) /\ r[1][col] \in keys)

Probed(t, current, col, keys) ==
  FlattenSeq([i \in 1 .. Cardinality(keys) |->
    LET v == Ascending(keys, LAMBDA a, b : a < b)[i]
    IN FlattenSeq([s \in 1 .. Cardinality(Successor(v)) |->
         ReadRangeOn(t, current, col, v, CHOOSE n \in Successor(v) : TRUE)])])

(* The search descends where some key lies inside the box.                 *)
RECURSIVE SearchKeys(_, _, _)
SearchKeys(n, col, ids) ==
  IF \A b \in Bound(n.ext, col) : ids \cap (b[1] .. b[2]) = {} THEN << >>
  ELSE IF n.kind = "leaf"
  THEN SelectSeq(RowsOfItems(SelectSeq(n.items, LAMBDA it :
                   \E b \in Bound(ExtentOf(it), col) : ids \cap (b[1] .. b[2]) # {})),
                 LAMBDA r : col <= Len(r[1]) /\ r[1][col] \in ids)
  ELSE FlattenSeq([i \in DOMAIN n.ch |-> SearchKeys(Opened(n.ch[i]), col, ids)])

Indexed(current, col) == col = 1 \/ shape.layout = "kd" \/ current

Lookup(t, current, col, keys) ==
  IF Indexed(current, col) /\ \A v \in keys : Successor(v) # {} THEN Probed(t, current, col, keys)
  ELSE IF \A v \in keys : KindOf(v) = "Ent" THEN SortedRows(SearchKeys(Opened(t), col, keys))
  ELSE Holding(t, col, keys)

(* read_containing: the facts whose inclusive span of two columns holds a  *)
(* point; of entities, entering only subtrees that might.                  *)
Stabbed(lo, hi, points) == \E p \in points : lo <= p /\ p <= hi

RECURSIVE StabInto(_, _, _, _)
StabInto(n, first, last, points) ==
  IF ~ \E a \in Bound(n.ext, first), b \in Bound(n.ext, last) : Stabbed(a[1], b[2], points) THEN << >>
  ELSE IF n.kind = "leaf"
  THEN SelectSeq(RowsOfItems(SelectSeq(n.items, LAMBDA it :
                   it.n = 1 \/ \E a \in Bound(ExtentOf(it), first), b \in Bound(ExtentOf(it), last) :
                                 Stabbed(a[1], b[2], points))),
                 LAMBDA r : Max({first, last}) <= Len(r[1]) /\ Stabbed(r[1][first], r[1][last], points))
  ELSE FlattenSeq([i \in DOMAIN n.ch |-> StabInto(Opened(n.ch[i]), first, last, points)])

ReadContaining(t, first, last, points) ==
  IF \A p \in points : KindOf(p) = "Ent" THEN SortedRows(StabInto(Opened(t), first, last, points))
  ELSE Filtered(t, LAMBDA r : Max({first, last}) <= Len(r[1]) /\ Stabbed(r[1][first], r[1][last], points))

(* compare_spans: each graft since the earlier edition spliced into its    *)
(* version from the tree the graft copied, and what differs after that.    *)
WithCopy(kd, t, from, lo, hi, by) ==
  {Around(kd, cut[1], Displaced(lo, by), Relocate(Cuts(kd, from, <<lo, hi>>)[2], by),
          Displaced(hi, by), cut[3]) : cut \in {Cuts(kd, t, <<Displaced(lo, by), Displaced(hi, by)>>)}}

BaseWithCopies ==
  CHOOSE t \in FoldLeft(LAMBDA ts, g :
                          UNION {WithCopy(shape.layout = "kd", u, g.from, <<g.block.lo>>, <<g.block.hi>>, g.block.by)
                                 : u \in ts}, {base}, grafts) : TRUE

CompareSpans == Diff(BaseWithCopies, facts)

Next ==
  \/ \E t \in Tuples, d \in Diffs : FoldFact(t, d)
  \/ \E h \in Holes : ReserveKeys(h)
  \/ \E b \in Blocks : InstanceTemplate(b)
  \/ EnsureOrder

Spec == Init /\ [][Next]_vars

(* ------------------------------ properties ----------------------------- *)
(* What a tree holds, its items taken wherever they are.                   *)
RECURSIVE ItemsIn(_)
ItemsIn(t) ==
  UNION {ToSet(n.items) \cup UNION {ItemsIn(c) : c \in ToSet(n.ch)} : n \in {Opened(t)}}

RowPairs(t) == UNION {ToSet(EachRow(it)) : it \in ItemsIn(t)}

RowsOf(t) ==
  CHOOSE m \in {[k \in {r[1] : r \in rs} |-> (CHOOSE r \in rs : r[1] = k)[2]] : rs \in {RowPairs(t)}} : TRUE

HeldIn(t) == UNION {KeysOf(it) : it \in {i \in ItemsIn(t) : i.tag = "hole"}}

(* However its nodes split, fuse, fold into runs, rotate or are rebuilt,   *)
(* the Fact tree only nets updates, reserves free keys and copies blocks   *)
(* whose entities all lie in them into free space: it is a Dictionary.     *)
D == INSTANCE Dictionary WITH rows <- RowsOf(facts), held <- HeldIn(facts)
ActsAsDictionary == D!Spec

(* Every node is within its arity, in order and inside the bounds above    *)
(* it, at one depth or on its side of each pivot, and caches what its      *)
(* contents add up to: the trees' own check, kd_check and check_items.     *)
TreesSound ==
  /\ Sound(facts) /\ Sound(base) /\ Sound(BaseWithCopies)
  /\ \A a \in order : SoundOrdered(a)

(* A read that skips subtrees by separators, cached counts and measures    *)
(* finds what reading every row would: by key, in a span, the last at or   *)
(* below a key, and how many, where and whether there are any.             *)
Probes == Tuples \cup {<<v>> : v \in ProbeCells}

KeyReadsExact ==
  LET rows == Rows(facts)
      all == RowsOf(facts)
      keys == DOMAIN all \cup HeldIn(facts)
      inside(lo, hi) == {k \in DOMAIN all : InSpan(k, lo, hi)}
  IN /\ ToSet(rows) = RowPairs(facts) /\ Len(rows) = Size(facts)
     /\ \A i \in 2 .. Len(rows) : Before(rows[i - 1][1], rows[i][1])
     /\ \A p \in Probes :
       /\ Get(facts, p) = {all[k] : k \in {p} \cap DOMAIN all}
       /\ HoldsKey(facts, p) = (p \in keys)
       /\ \A r \in LastLe(Opened(facts), p) :
            r[1] \in DOMAIN all /\ ~ Before(p, r[1]) /\ inside(r[1], p) \subseteq {r[1]}
       /\ LastLe(Opened(facts), p) = {} => \A k \in DOMAIN all : Before(p, k)
       /\ \A q \in Probes : Before(p, q) =>
            /\ ToSet(RangeCollect(facts, p, q)) = {<<k, all[k]>> : k \in inside(p, q)}
            /\ CountRange(facts, p, q) = Cardinality(inside(p, q))
            /\ AnyIn(facts, p, q) = (\E k \in keys : InSpan(k, p, q))

(* A scope: a fact with entities in both columns of its span.              *)
IsScope(k) == OrderColumn <= Len(k) /\ KindOf(k[1]) = "Ent" /\ KindOf(k[OrderColumn]) = "Ent"

Exact(read, t, Keep(_)) ==
  LET want == {r \in RowPairs(t) : Keep(r[1])}
  IN ToSet(read) = want /\ Len(read) = Cardinality(want)

(* A read by another column (the k-d splits, an Arrangement kept in step,  *)
(* a search on the extents) finds what filtering every row would, at the   *)
(* current edition and once it is an earlier one, in either layout.        *)
ColumnReadsExact ==
  \A lo, hi \in ProbeCells :
    /\ \A current \in BOOLEAN, col \in {1, OrderColumn} :
         /\ Exact(ReadRangeOn(facts, current, col, lo, hi), facts,
                  LAMBDA k : col <= Len(k) /\ lo <= k[col] /\ k[col] < hi)
         /\ Exact(Lookup(facts, current, col, {lo, hi}), facts,
                  LAMBDA k : col <= Len(k) /\ k[col] \in {lo, hi})
    /\ Exact(SelectSeq(ReadContaining(facts, 1, OrderColumn, {lo, hi}), LAMBDA r : IsScope(r[1])), facts,
             LAMBDA k : IsScope(k) /\ Stabbed(k[1], k[OrderColumn], {lo, hi}))

(* Every read that prunes is exact, by key, by another column and by span. *)
ReadsExact == KeyReadsExact /\ ColumnReadsExact

(* Comparing two versions, skipping what they share, reports exactly the   *)
(* tuples whose weight differs; and with the grafts between them named,    *)
(* the rows that are left are exactly what the copies do not explain.      *)
Differences(a, b) ==
  {<<k, {a[j] : j \in {k} \cap DOMAIN a}, {b[j] : j \in {k} \cap DOMAIN b}>> :
     k \in {j \in DOMAIN a \cup DOMAIN b : Weight(a, j) # Weight(b, j)}}

BaseRowsWithCopies ==
  FoldLeft(LAMBDA m, g :
             LET b == g.block
                 copies == {k \in DOMAIN RowsOf(g.from) : InSpan(k, <<b.lo>>, <<b.hi>>)}
                 kept == {k \in DOMAIN m : ~ InSpan(k, <<b.lo + b.by>>, <<b.hi + b.by>>)}
             IN [k \in kept |-> m[k]] @@
                [k \in {Displaced(j, b.by) : j \in copies} |->
                   RowsOf(g.from)[CHOOSE j \in copies : Displaced(j, b.by) = k]],
           RowsOf(base), grafts)

ComparesExact ==
  /\ ToSet(Diff(base, facts)) = Differences(RowsOf(base), RowsOf(facts))
  /\ Len(Diff(base, facts)) = Cardinality(ToSet(Diff(base, facts)))
  /\ ToSet(CompareSpans) = Differences(BaseRowsWithCopies, RowsOf(facts))
=============================================================================
