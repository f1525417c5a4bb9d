------------------------------ MODULE History -------------------------------
(***************************************************************************)
(* The history index: which nodes hold which, whose roots they are, and on *)
(* which branches and since when (crates/grmpl-ent/src/history.rs), over   *)
(* Fact trees of a root and the leaves it holds at displacements.  A node  *)
(* is its content, as a content key stands for it.                         *)
(***************************************************************************)
EXTENDS Lineages, TLC

CONSTANT Width   (* how many consecutive ids one leaf holds                *)

(* A Fact tree: each leaf by its place, with its rows in its own frame and *)
(* how far that frame is displaced.                                        *)
EmptyTree == << >>

LeafOf(id) == (id - 1) \div Width

Displaced(rows, by) == [k \in {i + by : i \in DOMAIN rows} |-> rows[k - by]]

LeafRows(leaf) == Displaced(leaf.rows, leaf.dsp)

TreeRows(t) ==
  LET at(id) == LeafRows(t[LeafOf(id)])
  IN [id \in UNION {DOMAIN LeafRows(t[i]) : i \in DOMAIN t} |-> at(id)[id]]

Weight(t, id) == IF id \in DOMAIN TreeRows(t) THEN TreeRows(t)[id] ELSE 0

(* The keys of the leaves with their displacements in the root's frame: a  *)
(* lone leaf is the root, and is normalized.                               *)
LeafKey(rows) == <<"leaf", rows>>

Leaves(t) ==
  IF Cardinality(DOMAIN t) = 1
  THEN {<<LeafKey(LeafRows(t[i])), 0>> : i \in DOMAIN t}
  ELSE {<<LeafKey(t[i].rows), t[i].dsp>> : i \in DOMAIN t}

RootKey(t) ==
  IF Cardinality(DOMAIN t) = 1 THEN (CHOOSE l \in Leaves(t) : TRUE)[1] ELSE <<"node", Leaves(t)>>

(* Holders: [root, branch, edition]; edges: <<child, parent, displacement>>*)
(* born: <<node, branch>> to an edition; cursor: branch to an edition.     *)
NoHistory == [holders |-> {}, edges |-> {}, born |-> << >>, cursor |-> << >>]

Visible(h, node, line) ==
  \E b \in DOMAIN line : <<node, b>> \in DOMAIN h.born /\ h.born[<<node, b>>] <= line[b]

(* index_version: nothing below a node already born on the lineage.        *)
Visited(h, t, line, b, e) ==
  LET root == RootKey(t)
      children == IF root[1] = "node" THEN Leaves(t) ELSE {}
      unborn == {c \in {l[1] : l \in children} : ~ Visible(h, c, line)}
  IN IF Visible(h, root, line) THEN h
     ELSE [h EXCEPT !.edges = @ \cup {<<l[1], root, l[2]>> : l \in children},
                    !.born = [n \in {<<c, b>> : c \in unborn \cup {root}} |-> e] @@ @]

IndexVersion(h, dag, b, e, t) ==
  IF t = EmptyTree THEN h
  ELSE Visited([h EXCEPT !.holders = @ \cup {[root |-> RootKey(t), branch |-> b, edition |-> e]}],
               t, Lineage(dag, b, e), b, e)

(* The versions not indexed yet: after the cursor, or else after the fork  *)
(* point, in branch and edition order.                                     *)
IndexedTo(h, dag, b) == IF b \in DOMAIN h.cursor THEN h.cursor[b] ELSE StartOf(dag, b)

Earlier(v, w) == v[1] < w[1] \/ (v[1] = w[1] /\ v[2] < w[2])

InOrder(points) ==
  [i \in 1 .. Cardinality(points) |->
     CHOOSE p \in points : Cardinality({q \in points : Earlier(q, p)}) = i - 1]

Backlog(h, dag, state) ==
  InOrder(UNION {{<<b, e>> : e \in {v \in DOMAIN state[b].versions : v > IndexedTo(h, dag, b)}}
                 : b \in DOMAIN dag})

(* catch_up: at most so many versions; a branch left in the middle keeps   *)
(* the edition it came to, and those after it are not looked at.           *)
CatchUp(h, dag, state, most) ==
  LET todo == Backlog(h, dag, state)
      done == SubSeq(todo, 1, Min({most, Len(todo)}))
      stopped == IF Len(done) < Len(todo) THEN todo[Len(done) + 1][1] ELSE NextId(dag)
      came(b) == Max({IndexedTo(h, dag, b)} \cup {v[2] : v \in {w \in ToSet(done) : w[1] = b}})
      through == [b \in {c \in DOMAIN dag : state[c].current > IndexedTo(h, dag, c) /\ c <= stopped}
                    |-> IF b < stopped THEN state[b].current ELSE came(b)]
      indexed == FoldLeft(LAMBDA x, v : IndexVersion(x, dag, v[1], v[2], state[v[1]].versions[v[2]]), h, done)
  IN [indexed EXCEPT !.cursor = through @@ @]

(* reach: the versions above a node, and where each holds it.              *)
Reach(h, node) ==
  {<<v, 0>> : v \in {w \in h.holders : w.root = node}}
  \cup UNION {{<<v, edge[3]>> : v \in {w \in h.holders : w.root = edge[2]}}
              : edge \in {x \in h.edges : x[1] = node}}

(* versions_of: a holder's own version or the checkpoint it was folded     *)
(* into, on its branch and on every branch forked after it.                *)
VersionsOf(dag, state, holder) ==
  UNION {{<<c, e>> : e \in {v \in DOMAIN state[c].versions :
                              \/ v = holder.edition
                              \/ /\ holder.edition \notin DOMAIN state[c].versions
                                 /\ holder.edition < state[c].watermark
                                 /\ v = state[c].watermark
                                 /\ state[c].versions[v] # EmptyTree
                                 /\ RootKey(state[c].versions[v]) = holder.root}}
         : c \in Inherits(dag, holder.branch, holder.edition)}

(* backfollow: the versions that hold a leaf of a tree, and how far it     *)
(* moved there.                                                            *)
Backfollow(h, dag, state, t) ==
  UNION {UNION {{<<l[1], v, r[2] - l[2]>> : v \in VersionsOf(dag, state, r[1])} : r \in Reach(h, l[1])}
         : l \in Leaves(t)}

(* shared_region: by climbing from the leaves of one tree through nodes    *)
(* born on the other's lineage to its root; and by descent into both.      *)
SharedRegion(h, a, b, line) ==
  LET seen == {l \in Leaves(a) : Visible(h, l[1], line)}
  IN {0 - l[2] : l \in {k \in seen : k[1] = RootKey(b)}}
     \cup UNION {{x[3] - l[2] : x \in {y \in h.edges : y[1] = l[1] /\ y[2] = RootKey(b) /\ Visible(h, y[2], line)}}
                 : l \in seen}

SharedByDescent(a, b) == {p[2][2] - p[1][2] : p \in {q \in Leaves(a) \X Leaves(b) : q[1][1] = q[2][1]}}
=============================================================================
