------------------------------ MODULE Branches ------------------------------
(***************************************************************************)
(* The branches of one world: what each keeps of its editions, and how     *)
(* forks, merges by replay, grafts, consolidation, interests and the       *)
(* history index use it (crates/grmpl-ent/src/store.rs, spanfilade.rs,     *)
(* canopy.rs).  A call holds its branch's edition lock, and the root lock  *)
(* where it stages, so each is one step; their durability is GroupCommit.  *)
(***************************************************************************)
EXTENDS History

CONSTANTS
  MaxId,              (* a row is an entity, 1 .. MaxId                    *)
  Patches,            (* the commits made: [pre, updates], updates a       *)
                      (* sequence of <<row, diff>>                         *)
  Blocks,             (* the grafts asked for: [lo, hi, by]                *)
  Spans,              (* the spans [lo, hi) somebody watches               *)
  Bindings,           (* the catalog bindings made: <<name, id>>           *)
  Budgets,            (* how many calls of each kind a behaviour makes     *)
  ForkInherited,      (* whether a fork may be taken below its parent's    *)
                      (* own fork point                                    *)
  ConsolidateMerges,  (* whether a merge's own patches may be consolidated *)
  IndexFirst          (* whether consolidation waits for the history index *)

VARIABLES
  dag,       (* EntRoot.dag                                                *)
  state,     (* EntRoot.branches: a branch's Inner                         *)
  history,   (* EntRoot.history                                            *)
  told,      (* history: every edition of a branch, as [original, rows]    *)
  budget     (* how many calls of each kind are left                       *)

vars == <<dag, state, history, told, budget>>

(* A block holds whole leaves, and so does its place.                      *)
ASSUME BranchesAssumption ==
  /\ MaxId \in Nat /\ Width \in Nat \ {0}
  /\ \A p \in Patches : p.pre \subseteq 1 .. MaxId /\ p.updates \in Seq((1 .. MaxId) \X Int)
  /\ \A b \in Blocks :
       /\ {b.lo, b.hi, b.by} \subseteq Int
       /\ {b.lo, b.hi - 1, b.lo + b.by, b.hi - 1 + b.by} \subseteq 1 .. MaxId
       /\ (b.lo - 1) % Width = 0 /\ (b.hi - 1) % Width = 0 /\ b.by % Width = 0
  /\ \A span \in Spans : span[1] \in Int /\ span[2] \in Int

Inner0 ==
  [current |-> 0, watermark |-> 0, versions |-> << >>, log |-> << >>, patches |-> << >>,
   grafts |-> {}, ctx |-> << >>, registered |-> << >>, fired |-> {}]

Init ==
  /\ dag = NewDag
  /\ state = [b \in {Root} |-> Inner0]
  /\ history = NoHistory
  /\ told = [b \in {Root} |-> << >>]
  /\ budget \in Budgets

Spend(kind) == budget[kind] > 0 /\ budget' = [budget EXCEPT ![kind] = @ - 1]

UpTo(f, e) == [k \in {i \in DOMAIN f : i <= e} |-> f[k]]
Above(f, e) == [k \in {i \in DOMAIN f : i > e} |-> f[k]]

(* fact_at: the last version at or before an edition.                      *)
VersionAt(s, e) ==
  LET keys == {v \in DOMAIN s.versions : v <= e}
  IN IF keys = {} THEN EmptyTree ELSE s.versions[Max(keys)]

Now(s) == VersionAt(s, s.current)

HoldsNow(s, id) == Weight(Now(s), id) > 0

(* ---------------------------- one edition ------------------------------ *)
(* fold_fact: a write rebuilds its leaf in the tree's own frame.           *)
FoldFact(t, update) ==
  LET net == Weight(t, update[1]) + update[2]
      i == LeafOf(update[1])
      old == IF i \in DOMAIN t THEN LeafRows(t[i]) ELSE << >>
      rows == [k \in (DOMAIN old \cup {update[1]}) \ (IF net = 0 THEN {update[1]} ELSE {})
                 |-> IF k = update[1] THEN net ELSE old[k]]
  IN [j \in (DOMAIN t \cup {i}) \ (IF rows = << >> THEN {i} ELSE {})
        |-> IF j = i THEN [rows |-> rows, dsp |-> 0] ELSE t[j]]

(* route: the interests an update stabs, or a graft's span overlaps.       *)
Stabbed(s, updates) ==
  {span \in DOMAIN s.registered : \E i \in DOMAIN updates : span[1] <= updates[i][1] /\ updates[i][1] < span[2]}

Overlapped(s, lo, hi) == {span \in DOMAIN s.registered : lo < hi /\ span[1] < hi /\ lo < span[2]}

Folded(t, updates) ==
  LET trees[i \in 0 .. Len(updates)] == IF i = 0 THEN t ELSE FoldFact(trees[i - 1], updates[i])
  IN trees[Len(updates)]

(* apply: log, version, patch record and routing of the next edition.      *)
Apply(s, pre, updates, origin) ==
  LET e == s.current + 1
  IN [s EXCEPT !.current = e,
               !.patches = Put(@, e, [kind |-> "commit", pre |-> pre, origin |-> origin]),
               !.log = Put(@, e, [i \in DOMAIN updates |-> <<"update", updates[i][1], updates[i][2]>>]),
               !.versions = IF updates = << >> THEN @ ELSE Put(@, e, Folded(Now(s), updates)),
               !.fired = @ \cup {<<span, e>> : span \in Stabbed(s, updates)}]

(* The copy of a block, leaf by leaf, at its new place: blocks hold whole  *)
(* leaves.                                                                 *)
InBlock(id, lo, hi) == lo <= id /\ id < hi

Copies(t, b) == DOMAIN t \cap LeafOf(b.lo) .. LeafOf(b.hi - 1)

Spliced(t, b) ==
  LET moved == b.by \div Width
  IN [i \in DOMAIN t \cup {j + moved : j \in Copies(t, b)}
        |-> IF i \in DOMAIN t THEN t[i] ELSE [t[i - moved] EXCEPT !.dsp = @ + b.by]]

(* graft: refused if its target holds facts; an edition even if the block  *)
(* is empty, but then no copy and nothing in the spanfilade.               *)
GraftRefused(s, b) ==
  /\ Copies(Now(s), b) # {}
  /\ \E id \in DOMAIN TreeRows(Now(s)) : InBlock(id, b.lo + b.by, b.hi + b.by)

Span(b, e) ==
  [source |-> <<b.lo, b.hi>>, target |-> <<b.lo + b.by, b.hi + b.by>>, edition |-> e]

Graft(s, b, origin) ==
  LET e == s.current + 1
      copied == Copies(Now(s), b) # {}
  IN [s EXCEPT !.current = e,
               !.patches = Put(@, e, [kind |-> "graft", block |-> b, origin |-> origin]),
               !.log = IF copied THEN Put(@, e, << <<"graft", b.lo + b.by, b.hi + b.by>> >>) ELSE @,
               !.versions = IF copied THEN Put(@, e, Spliced(Now(s), b)) ELSE @,
               !.grafts = IF copied THEN @ \cup {Span(b, e)} ELSE @,
               !.fired = IF copied THEN @ \cup {<<span, e>> : span \in Overlapped(s, b.lo + b.by, b.hi + b.by)} ELSE @]

Tell(b, s, original) ==
  told' = [told EXCEPT ![b] = Append(@, [original |-> original, rows |-> TreeRows(Now(s))])]

Commit(b, p) ==
  /\ Spend("commit")
  /\ \A id \in p.pre : HoldsNow(state[b], id)
  /\ \E s \in {Apply(state[b], p.pre, p.updates, None)} :
       state' = [state EXCEPT ![b] = s] /\ Tell(b, s, <<b, s.current>>)
  /\ UNCHANGED <<dag, history>>

InstanceTemplate(b, block) ==
  /\ Spend("graft")
  /\ ~ GraftRefused(state[b], block)
  /\ \E s \in {Graft(state[b], block, None)} :
       state' = [state EXCEPT ![b] = s] /\ Tell(b, s, <<b, s.current>>)
  /\ UNCHANGED <<dag, history>>

(* Catalog::register: append-only.                                         *)
Register(b, binding) ==
  /\ Spend("register")
  /\ binding[1] \notin DOMAIN state[b].ctx
  /\ state' = [state EXCEPT ![b].ctx = Put(@, binding[1], binding[2])]
  /\ UNCHANGED <<dag, history, told>>

(* ------------------------------- forks --------------------------------- *)
(* as_of: the grafts made by then.                                         *)
BugAsOf(grafts, at) == {g \in grafts : g.edition < at}

AsOf(grafts, at) == {g \in grafts : g.edition <= at}

Fresh(s) == [s EXCEPT !.registered = << >>, !.fired = {}]

ForkOf(s, at) ==
  [Fresh(s) EXCEPT !.current = at, !.versions = UpTo(@, at), !.log = UpTo(@, at),
                   !.grafts = AsOf(@, at), !.patches = << >>]

ForkAt(b, at) ==
  /\ Spend("fork")
  /\ state[b].watermark <= at
  /\ ForkInherited \/ StartOf(dag, b) <= at
  /\ dag' = Forked(dag, b, at)
  /\ state' = Put(state, NextId(dag), ForkOf(state[b], at))
  /\ told' = Put(told, NextId(dag), SubSeq(told[b], 1, at))
  /\ UNCHANGED history

(* ------------------------------- merges -------------------------------- *)
(* The originals of the copies that merges behind a point have made.       *)
BugCopied(have) == {}

Copied(have) ==
  (UNION {{state[m].patches[e].origin : e \in {i \in DOMAIN state[m].patches : StartOf(dag, m) < i /\ i <= have[m]}}
          : m \in {br \in DOMAIN dag : have[br] # Absent /\ dag[br].merged # None}}) \ {None}

Original(point, patch) == IF patch.origin = None THEN point ELSE patch.origin

(* What of a branch's own editions is still to be replayed.                *)
From(have, br) == Max({have[br], StartOf(dag, br), 0})

ToReplay(have, theirs) ==
  {point \in UNION {{<<br, e>> : e \in {i \in DOMAIN state[br].patches : From(have, br) < i /\ i <= theirs[br]}}
                    : br \in DOMAIN dag} :
     LET patch == state[point[1]].patches[point[2]]
         original == Original(point, patch)
     IN ~ \/ Reaches(have, original) \/ original \in Copied(have)
          \/ patch.origin # None /\ Reaches(theirs, original)}

Gone(have, theirs) ==
  \E br \in DOMAIN dag : From(have, br) < theirs[br] /\ From(have, br) < state[br].watermark

(* patch_updates: a commit's updates, from the log of its branch.          *)
PatchUpdates(point) ==
  [i \in DOMAIN state[point[1]].log[point[2]] |->
     <<state[point[1]].log[point[2]][i][2], state[point[1]].log[point[2]][i][3]>>]

(* One replayed patch, checked against the merging state; {} if it fails.  *)
Replayed(s, point) ==
  LET patch == state[point[1]].patches[point[2]]
      origin == Original(point, patch)
  IN IF patch.kind = "commit"
     THEN IF \A id \in patch.pre : HoldsNow(s, id) THEN {Apply(s, patch.pre, PatchUpdates(point), origin)} ELSE {}
     ELSE IF GraftRefused(s, patch.block) THEN {} ELSE {Graft(s, patch.block, origin)}

Agree(f, g) == \A k \in DOMAIN f \cap DOMAIN g : f[k] = g[k]

(* The merging state and what was told of it, patch after patch.           *)
Replay(runs, point) ==
  UNION {{<<s, Append(run[2], [original |-> s.patches[s.current].origin, rows |-> TreeRows(Now(s))])>>
          : s \in Replayed(run[1], point)} : run \in runs}

AllReplayed(start, points) ==
  LET runs[i \in 0 .. Len(points)] == IF i = 0 THEN {start} ELSE Replay(runs[i - 1], points[i])
  IN runs[Len(points)]

Merge(b, other) ==
  LET have == Lineage(dag, b, state[b].current)
      theirs == Lineage(dag, other, state[other].current)
      start == [Fresh(state[b]) EXCEPT !.ctx = @ @@ state[other].ctx]
  IN /\ Spend("merge")
     /\ ~ Gone(have, theirs)
     /\ Agree(state[b].ctx, state[other].ctx)
     /\ \E run \in AllReplayed(<<start, told[b]>>, InOrder(ToReplay(have, theirs))) :
          /\ dag' = Joined(dag, b, state[b].current, other, state[other].current, run[1].current)
          /\ state' = Put(state, NextId(dag), run[1])
          /\ told' = Put(told, NextId(dag), run[2])
     /\ UNCHANGED history

(* ---------------------------- consolidation ---------------------------- *)
(* The version at the new watermark is kept there as a checkpoint.         *)
BugCheckpointed(s, e) == Above(s.versions, e)

Checkpointed(s, e) ==
  IF \E v \in DOMAIN s.versions : v <= e THEN Put(Above(s.versions, e), e, VersionAt(s, e))
  ELSE Above(s.versions, e)

Consolidate(b, e) ==
  /\ Spend("consolidate")
  /\ state[b].watermark < e /\ e <= state[b].current
  /\ dag[b].merged # None => ConsolidateMerges \/ e <= StartOf(dag, b)
  /\ IndexFirst => Backlog(history, dag, state) = << >>
  /\ state' = [state EXCEPT ![b].versions = Checkpointed(state[b], e),
                            ![b].log = Above(@, e),
                            ![b].patches = Above(@, e),
                            ![b].watermark = e]
  /\ UNCHANGED <<dag, history, told>>

(* ------------------------------ grafts --------------------------------- *)
(* sources_of: the grafts by then that filled a span; origin: the entity a *)
(* row started as, by the latest older graft.                              *)
Meets(span, lo, hi) == span[1] < hi /\ lo < span[2]

SourcesOf(grafts, lo, hi, at) == {g \in AsOf(grafts, at) : Meets(g.target, lo, hi)}

Origin(grafts, id, at) ==
  LET from[e \in 0 .. at] ==
        [x \in 1 .. MaxId |->
           LET hits == SourcesOf(grafts, x, x + 1, e)
               last == CHOOSE g \in hits : \A o \in hits : o.edition <= g.edition
           IN IF hits = {} THEN x ELSE from[last.edition - 1][x + last.source[1] - last.target[1]]]
  IN from[at][id]

(* scan_updates: an edition's updates to a row; a graft's are the rows of  *)
(* its copy, read back from the edition's own version.                     *)
Logged(s, e) == IF e \in DOMAIN s.log THEN s.log[e] ELSE << >>

DiffsOf(s, e, id) ==
  [i \in DOMAIN Logged(s, e) |->
     LET entry == Logged(s, e)[i]
     IN CASE entry[1] = "update" /\ entry[2] = id -> entry[3]
          [] entry[1] = "graft" /\ InBlock(id, entry[2], entry[3]) -> Weight(s.versions[e], id)
          [] OTHER -> 0]

(* The terms after one place up to another, together.                      *)
Total(f, from, to) ==
  LET sum[i \in from .. to] == IF i = from THEN 0 ELSE sum[i - 1] + f[i] IN sum[to]

Scanned(s, from, to, id) ==
  Total([e \in from + 1 .. to |-> Total(DiffsOf(s, e, id), 0, Len(Logged(s, e)))], from, to)

(* ------------------------------ interests ------------------------------ *)
(* touched_since: whether anything was logged in the interval.             *)
TouchedSince(s, from, to) == from < s.watermark \/ \E e \in DOMAIN s.log : from < e /\ e <= to /\ s.log[e] # << >>

(* touched_range_since: what was routed to the span, once registered, and  *)
(* the relation's answer for an interval from before.                      *)
BugKnownSince(s, span, from) == span \in DOMAIN s.registered

KnownSince(s, span, from) == span \in DOMAIN s.registered /\ s.registered[span] <= from

TouchedRangeSince(s, span, from, to) ==
  \/ from < s.watermark
  \/ /\ from < to
     /\ IF KnownSince(s, span, from) THEN \E e \in from + 1 .. to : <<span, e>> \in s.fired
        ELSE TouchedSince(s, from, to)

(* The first ask of a span above the watermark registers it.               *)
Ask(b, span) ==
  /\ Spend("ask")
  /\ span \notin DOMAIN state[b].registered
  /\ state' = [state EXCEPT ![b].registered = Put(@, span, state[b].current)]
  /\ UNCHANGED <<dag, history, told>>

(* step_history, and the catching up that a query begins with.             *)
StepHistory(most) ==
  /\ Spend("index")
  /\ Backlog(history, dag, state) # << >>
  /\ history' = CatchUp(history, dag, state, most)
  /\ UNCHANGED <<dag, state, told>>

(* Forks are asked for at an edition there is, as every caller does.        *)
Next ==
  \/ \E b \in DOMAIN dag, p \in Patches : Commit(b, p)
  \/ \E b \in DOMAIN dag, block \in Blocks : InstanceTemplate(b, block)
  \/ \E b \in DOMAIN dag, binding \in Bindings : Register(b, binding)
  \/ \E b \in DOMAIN dag : \E at \in 0 .. state[b].current : ForkAt(b, at)
  \/ \E b, other \in DOMAIN dag : Merge(b, other)
  \/ \E b \in DOMAIN dag : \E e \in 1 .. state[b].current : Consolidate(b, e)
  \/ \E b \in DOMAIN dag, span \in Spans : Ask(b, span)
  \/ \E most \in {1, MaxId} : StepHistory(most)

Spec == Init /\ [][Next]_vars

(* ------------------------------ properties ----------------------------- *)
Points == UNION {{<<b, e>> : e \in 1 .. state[b].current} : b \in DOMAIN dag}

(* A later merge skips a copy whose original it reaches, so that nothing   *)
(* is replayed twice (Origin's comment, merge): no edition of a branch,    *)
(* its own or inherited, repeats what another did, however copies were     *)
(* forked away midway and merged again; and each patch stands where its    *)
(* preconditions hold, as if it had raced the others on that branch.       *)
ReplayedOnce ==
  \A b \in DOMAIN dag :
    /\ \A d, e \in 1 .. state[b].current : told[b][d].original = told[b][e].original => d = e
    /\ \A e \in DOMAIN state[b].patches :
         state[b].patches[e].kind = "commit" /\ e > 1 =>
           \A id \in state[b].patches[e].pre :
             id \in DOMAIN told[b][e - 1].rows /\ told[b][e - 1].rows[id] > 0

(* Everything behind a point is in it (is_ancestor, and merge's "so        *)
(* everything behind either store is behind it"): the patch of an ancestor *)
(* is one of the point's own editions or was replayed as one.  A point is  *)
(* asked of the branch it was made on, as descends_from asks.              *)
AncestorsBehind ==
  \A p \in {q \in Points : q[2] >= StartOf(dag, q[1])} :
    \E line \in {Lineage(dag, p[1], p[2])} :
      \A q \in Points : Reaches(line, q) =>
        \E e \in 1 .. p[2] : told[p[1]][e].original = told[q[1]][q[2]].original

(* Any edition from the watermark on reads as it was committed, and the    *)
(* log between two of them adds up to their difference, after forks into   *)
(* the past, merges, grafts and consolidation (read_at, scan_updates).     *)
RowsTold(b, e) == IF e = 0 THEN << >> ELSE told[b][e].rows

WeightTold(b, e, id) == IF id \in DOMAIN RowsTold(b, e) THEN RowsTold(b, e)[id] ELSE 0

ReadsStand ==
  \A b \in DOMAIN dag : \A e \in state[b].watermark .. state[b].current :
    /\ TreeRows(VersionAt(state[b], e)) = RowsTold(b, e)
    /\ \A from \in state[b].watermark .. e, id \in 1 .. MaxId :
         Scanned(state[b], from, e, id) = WeightTold(b, e, id) - WeightTold(b, from, id)

(* Every graft a branch's log names can be named by compare_spans, and its *)
(* rows go back to what the source's went back to: no fork, merge or       *)
(* consolidation leaves a copy without its span, or gives it another's.    *)
GraftsTraced ==
  \A b \in DOMAIN dag : \A e \in DOMAIN state[b].log : \A i \in DOMAIN state[b].log[e] :
    LET entry == state[b].log[e][i] IN
    entry[1] = "graft" =>
      \E g \in SourcesOf(state[b].grafts, entry[2], entry[2] + 1, e) :
        /\ g.edition = e /\ g.target = <<entry[2], entry[3]>>
        /\ \A id \in entry[2] .. entry[3] - 1 :
             LET source == id + g.source[1] - g.target[1] IN
             /\ WeightTold(b, e, id) = WeightTold(b, e - 1, source)
             /\ Origin(state[b].grafts, id, e) = Origin(state[b].grafts, source, e - 1)

(* A watcher that is told "nothing of yours" has missed nothing: whatever  *)
(* was written in its span since, by commits, copies or before it first    *)
(* asked (canopy.rs: routing may widen, and never misses).                 *)
WrittenIn(s, span, from, to) ==
  \E e \in from + 1 .. to, id \in span[1] .. span[2] - 1 :
    e \in DOMAIN s.log /\ \E i \in DOMAIN DiffsOf(s, e, id) : DiffsOf(s, e, id)[i] # 0

InterestsNotMissed ==
  \A b \in DOMAIN dag : \A to \in 1 .. state[b].current, span \in Spans :
    \A from \in state[b].watermark .. to - 1 :
      WrittenIn(state[b], span, from, to) => TouchedRangeSince(state[b], span, from, to)

(* A query of the caught-up index finds exactly the versions, on every     *)
(* branch, whose trees hold a node, and what two versions share wherever   *)
(* it sits (backfollow, shared_region: "brings the index up to date first, *)
(* so the answer is exact").                                               *)
Retained == UNION {{<<b, e>> : e \in DOMAIN state[b].versions} : b \in DOMAIN dag}

TreeOf(v) == state[v[1]].versions[v[2]]

HeldBy(t) ==
  UNION {{<<l[1], v, m[2] - l[2]>> : m \in {k \in Leaves(TreeOf(v)) : k[1] = l[1]}}
         : l \in Leaves(t), v \in Retained}

IndexExact ==
  LET h == CatchUp(history, dag, state, Cardinality(Retained))
  IN \A v \in Retained :
       /\ Backfollow(h, dag, state, TreeOf(v)) = HeldBy(TreeOf(v))
       /\ \A w \in Retained :
            SharedRegion(h, TreeOf(v), TreeOf(w), Lineage(dag, w[1], w[2])) = SharedByDescent(TreeOf(v), TreeOf(w))
=============================================================================
