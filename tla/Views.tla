------------------------------- MODULE Views --------------------------------
(***************************************************************************)
(* From a view to the plan that answers it: the planning of a conjunctive  *)
(* body (crates/grmpl-lang/src/compile.rs), the reified plan and its       *)
(* lowering to a query (ir.rs), and the typing of plans                    *)
(* (crates/grmpl-type/src/lib.rs).                                         *)
(*                                                                         *)
(* A view has params, atoms, yields and agg (none or one fold, with the    *)
(* variable folded).  An atom has rel, inherit and args, each              *)
(* <<"var", name>> or <<"lit", value>>.  A reified plan is a query whose   *)
(* filters and maps hold data.                                             *)
(***************************************************************************)
EXTENDS Queries, Values, SequencesExt

CONSTANTS
  Columns,      (* the column types of each declared relation             *)
  Contexts,     (* the scope relations                                    *)
  EntityOf,     (* the package's entity constants                         *)
  Views,        (* the declared views, by name                            *)
  Backing,      (* the backing relation of each materialized view         *)
  CursorRel     (* the relation of the views' cursors                     *)

-----------------------------------------------------------------------------
(* Row expressions and predicates: RowExpr, PredExpr, MapExpr. *)

Col(i) == <<"col", i>>
Lit(v) == <<"lit", v>>

RowValue(e, t) == IF e[1] = "col" THEN t[e[2]] ELSE e[2]

Eq(l, r) == [is |-> "eq", l |-> l, r |-> r]
And(ps) == [is |-> "and", of |-> ps]

RECURSIVE Test(_, _)
Test(p, t) ==
  IF p.is = "eq" THEN RowValue(p.l, t) = RowValue(p.r, t)
  ELSE \A i \in DOMAIN p.of : Test(p.of[i], t)

Apply(out, t) == [i \in DOMAIN out |-> RowValue(out[i], t)]

-----------------------------------------------------------------------------
(* lower: an equality of a base relation's column with a literal becomes a *)
(* span of that column, the lead column preferred; the other conjuncts     *)
(* stay a filter.                                                          *)

Conjuncts(p) == IF p.is = "and" THEN p.of ELSE <<p>>

(* The column a conjunct pins to a literal with a successor, and the       *)
(* literal: none or one.                                                   *)
Pinned(p) ==
  IF p.is # "eq" THEN {}
  ELSE {<<c[2], v[2]>> : <<c, v>> \in
          {<<a, b>> \in {<<p.l, p.r>>, <<p.r, p.l>>} :
             a[1] = "col" /\ b[1] = "lit" /\ Successor(b[2]) # {}}}

PinnedAt(p, Wanted(_)) ==
  {k \in DOMAIN Conjuncts(p) : \E cv \in Pinned(Conjuncts(p)[k]) : Wanted(cv[1])}

WithoutConjunct(p, k) == SubSeq(Conjuncts(p), 1, k - 1) \o SubSeq(Conjuncts(p), k + 1, Len(Conjuncts(p)))

Residual(base, rest) ==
  CASE Len(rest) = 0 -> base
    [] Len(rest) = 1 -> [op |-> "filter", in |-> <<base>>, f |-> rest[1]]
    [] OTHER -> [op |-> "filter", in |-> <<base>>, f |-> And(rest)]

Pushed(rel, p, k) ==
  LET cv == CHOOSE x \in Pinned(Conjuncts(p)[k]) : TRUE
      hi == CHOOSE s \in Successor(cv[2]) : TRUE
      base == IF cv[1] = 1
              THEN [op |-> "range", in |-> << >>, rel |-> rel, lo |-> <<cv[2]>>, hi |-> <<hi>>]
              ELSE [op |-> "rangeOn", in |-> << >>, rel |-> rel, col |-> cv[1], lo |-> cv[2], hi |-> hi]
  IN Residual(base, WithoutConjunct(p, k))

LowerFilter(in, p) ==
  LET lead == PinnedAt(p, LAMBDA c : c = 1)
      trail == PinnedAt(p, LAMBDA c : c # 1)
  IN CASE in.op = "rel" /\ lead # {} -> Pushed(in.rel, p, Min(lead))
       [] in.op = "rel" /\ lead = {} /\ trail # {} -> Pushed(in.rel, p, Min(trail))
       [] OTHER -> [op |-> "filter", in |-> <<in>>, f |-> p]

RECURSIVE Lower(_)
Lower(q) ==
  IF q.op = "filter" THEN LowerFilter(Lower(q.in[1]), q.f)
  ELSE [q EXCEPT !.in = [i \in DOMAIN q.in |-> Lower(q.in[i])]]

-----------------------------------------------------------------------------
(* plan_view: the atoms from left to right, each joined to the plan so far *)
(* on the variables they share.  A plan under construction is its query    *)
(* (none before the first atom), the column of each variable bound, and    *)
(* its width; a refused one is no plan at all.                             *)

IsVar(arg) == arg[1] = "var" /\ arg[2] \notin DOMAIN EntityOf
FirstCol(atom, x) == Min({i \in DOMAIN atom.args : atom.args[i] = <<"var", x>>})
LocalVars(atom) == {atom.args[i][2] : i \in {j \in DOMAIN atom.args : IsVar(atom.args[j])}}

(* What an atom's argument demands of its column alone. *)
Demands(atom, params, i) ==
  LET arg == atom.args[i] IN
  IF arg[1] = "lit" THEN <<Eq(Col(i), Lit(arg[2]))>>
  ELSE IF ~ IsVar(arg) THEN <<Eq(Col(i), Lit(EntityOf[arg[2]]))>>
  ELSE (IF arg[2] \in DOMAIN params THEN <<Eq(Col(i), Lit(params[arg[2]]))>> ELSE << >>)
         \o (IF FirstCol(atom, arg[2]) < i THEN <<Eq(Col(FirstCol(atom, arg[2])), Col(i))>>
             ELSE << >>)

AtomPlan(atom, params) ==
  LET rel == [op |-> "rel", in |-> << >>, rel |-> atom.rel]
      demands == FlattenSeq([i \in DOMAIN atom.args |-> Demands(atom, params, i)])
  IN IF demands = << >> THEN rel ELSE [op |-> "filter", in |-> <<rel>>, f |-> And(demands)]

JoinKeys(acc, atom) ==
  SetToSortSeq({FirstCol(atom, x) : x \in LocalVars(atom) \cap DOMAIN acc.col}, <)

PlanAtom(acc, atom, params) ==
  LET q == AtomPlan(atom, params)
      rk == JoinKeys(acc, atom)
      lk == [k \in DOMAIN rk |-> acc.col[atom.args[rk[k]][2]]]
      first == acc.q = << >>
  IN [q |-> IF first THEN <<q>>
            ELSE <<[op |-> "join", in |-> <<acc.q[1], q>>, lk |-> lk, rk |-> rk]>>,
      col |-> [x \in DOMAIN acc.col \cup LocalVars(atom) |->
                 IF x \in DOMAIN acc.col THEN acc.col[x] ELSE acc.width + FirstCol(atom, x)],
      width |-> acc.width + Len(Columns[atom.rel])]

(* plan_inherit: the value inherited becomes a column of its own, bound to *)
(* a new variable or compared with what is known.                          *)
PlanInherit(acc, atom, params) ==
  LET entity == atom.args[1]  value == atom.args[3]  at == acc.width + 1
      q == [op |-> "inherit", in |-> acc.q, col |-> acc.col[entity[2]],
            key |-> atom.args[2][2], ctx |-> atom.rel]
      kept(e) == [op |-> "filter", in |-> <<q>>, f |-> Eq(Col(at), e)]
      bound == CASE value[1] = "lit" -> <<Lit(value[2])>>
                 [] ~ IsVar(value) -> <<Lit(EntityOf[value[2]])>>
                 [] value[2] \in DOMAIN params -> <<Lit(params[value[2]])>>
                 [] value[2] \in DOMAIN acc.col -> <<Col(acc.col[value[2]])>>
                 [] OTHER -> << >>
  IN [q |-> IF bound = << >> THEN <<q>> ELSE <<kept(bound[1])>>,
      col |-> IF bound = << >> THEN acc.col @@ (value[2] :> at) ELSE acc.col,
      width |-> at]

(* An inherit needs an earlier atom to bind its entity, a scope relation   *)
(* and a literal key.                                                      *)
InheritAllowed(acc, atom) ==
  /\ acc.q # << >> /\ atom.rel \in Contexts /\ Len(atom.args) = 3
  /\ atom.args[1][1] = "var" /\ atom.args[1][2] \in DOMAIN acc.col
  /\ atom.args[2][1] = "lit"

Planned(accs, atom, params) ==
  UNION {IF atom.inherit
         THEN IF InheritAllowed(acc, atom) THEN {PlanInherit(acc, atom, params)} ELSE {}
         ELSE IF Len(atom.args) = Len(Columns[atom.rel]) THEN {PlanAtom(acc, atom, params)} ELSE {}
         : acc \in accs}

(* An aggregate view folds the column after its n grouping ones. *)
ViewReduce(v, n) ==
  [i \in DOMAIN v.agg |-> <<[k \in 1 .. n |-> k], [fn |-> v.agg[i].fn, col |-> n + 1]>>]

Folds(v) == [i \in DOMAIN v.agg |-> v.agg[i].var]
FoldedVars(v) == SelectSeq(Folds(v), LAMBDA x : x # "")

(* With finish, the view; without, the projection alone, each row weighted *)
(* by its derivations.  Set of none or one.                                *)
PlanView(v, params, yields, finish) ==
  LET bodies == FoldLeft(LAMBDA accs, atom : Planned(accs, atom, params),
                         {[q |-> << >>, col |-> << >>, width |-> 0]}, v.atoms)
      wanted == yields \o FoldedVars(v)
      linear(acc) == [op |-> "project", in |-> acc.q,
                      cols |-> [i \in DOMAIN wanted |-> acc.col[wanted[i]]]]
      distinct(acc) == [op |-> "distinct", in |-> <<linear(acc)>>]
      fold == ViewReduce(v, Len(yields))
      whole(acc) == IF fold = << >> THEN distinct(acc)
                    ELSE [op |-> "reduce", in |-> <<distinct(acc)>>, key |-> fold[1][1], agg |-> fold[1][2]]
  IN {IF finish THEN whole(acc) ELSE linear(acc)
      : acc \in {a \in bodies : a.q # << >> /\ \A i \in DOMAIN wanted : wanted[i] \in DOMAIN a.col}}

(* view_ir, view_ir_unbound, open_view_ir. *)
Bound(v, args) == [x \in Range(v.params) |-> args[CHOOSE i \in DOMAIN v.params : v.params[i] = x]]

ViewIr(name, args) ==
  LET v == Views[name] IN
  {IF name \in DOMAIN Backing
   THEN [op |-> "materialized", in |-> <<plan>>, into |-> Backing[name], prefix |-> args,
         cursors |-> CursorRel, key |-> name, reduce |-> FlattenSeq(ViewReduce(v, Len(v.yields)))]
   ELSE plan : plan \in PlanView(v, Bound(v, args), v.yields, TRUE)}

UnboundIr(name) == PlanView(Views[name], << >>, Views[name].yields, TRUE)

OpenIr(name) == PlanView(Views[name], << >>, Views[name].params \o Views[name].yields, FALSE)

-----------------------------------------------------------------------------
(* check_query: the type of a plan's rows, a set of none or one. *)

Compatible(a, b) == a = b \/ "Any" \in {a, b}
Lub(a, b) == IF a = b THEN a ELSE "Any"

ExprType(e, ty) == IF e[1] = "col" THEN ty[e[2]] ELSE KindOf(e[2])
ExprOk(e, ty) == e[1] = "col" => e[2] \in DOMAIN ty

RECURSIVE PredOk(_, _)
PredOk(p, ty) ==
  IF p.is = "eq" THEN /\ ExprOk(p.l, ty) /\ ExprOk(p.r, ty)
                      /\ Compatible(ExprType(p.l, ty), ExprType(p.r, ty))
  ELSE \A i \in DOMAIN p.of : PredOk(p.of[i], ty)

AggTypes(agg, ty) ==
  CASE agg.fn = "count" -> {"Int"}
    [] agg.fn = "sum" -> IF agg.col \in DOMAIN ty /\ ty[agg.col] \in {"Int", "Any"} THEN {"Int"} ELSE {}
    [] OTHER -> IF agg.col \in DOMAIN ty THEN {ty[agg.col]} ELSE {}

Widened(a, b) == IF Len(a) = Len(b) THEN {[i \in DOMAIN a |-> Lub(a[i], b[i])]} ELSE {}

Chosen(ty, cols) == IF Range(cols) \subseteq DOMAIN ty THEN {Cells(ty, cols)} ELSE {}

JoinOk(q, l, r) ==
  /\ Len(q.lk) = Len(q.rk)
  /\ \A k \in DOMAIN q.lk : /\ q.lk[k] \in DOMAIN l /\ q.rk[k] \in DOMAIN r
                            /\ Compatible(l[q.lk[k]], r[q.rk[k]])

(* Defect: the type of a recursion after one round. *)
BugSettledType(step, init, ty) == {ty}

RECURSIVE RowTypes(_, _), SettledType(_, _, _)

(* The least type of a recursion: widened by its step until it settles. *)
SettledType(step, init, ty) ==
  UNION {UNION {IF next = ty THEN {ty} ELSE SettledType(step, init, next)
                : next \in Widened(init, s)} : s \in RowTypes(step, <<ty>>)}

RowTypes(q, recur) ==
  LET sub(i) == RowTypes(q.in[i], recur) IN
  CASE q.op \in BaseOps -> IF q.rel \in DOMAIN Columns THEN {Columns[q.rel]} ELSE {}
    [] q.op = "map" -> {[i \in DOMAIN q.f |-> ExprType(q.f[i], ty)] :
                          ty \in {u \in sub(1) : \A i \in DOMAIN q.f : ExprOk(q.f[i], u)}}
    [] q.op = "filter" -> {ty \in sub(1) : PredOk(q.f, ty)}
    [] q.op = "project" -> UNION {Chosen(ty, q.cols) : ty \in sub(1)}
    [] q.op = "join" -> {p[1] \o p[2] : p \in {u \in sub(1) \X sub(2) : JoinOk(q, u[1], u[2])}}
    [] q.op = "union" -> UNION {Widened(p[1], p[2]) : p \in sub(1) \X sub(2)}
    [] q.op \in {"negate", "distinct", "materialized"} -> sub(1)
    [] q.op = "reduce" -> UNION {{Append(k, a) : k \in Chosen(ty, q.key), a \in AggTypes(q.agg, ty)}
                                 : ty \in sub(1)}
    [] q.op = "recur" -> Range(recur)
    [] q.op = "iterate" -> UNION {SettledType(q.in[2], ty, ty) : ty \in sub(1)}
    [] q.op = "inherit" -> {Append(ty, "Any") : ty \in sub(1)}

(* The recursive view of the behaviours an entity implements               *)
(* (behavior.rs): its own, and those of its prototypes.                    *)
ImplementsIr(direct, prototype) ==
  [op |-> "iterate",
   in |-> <<[op |-> "rel", in |-> << >>, rel |-> direct],
            [op |-> "project", cols |-> <<1, 4>>,
             in |-> <<[op |-> "join", lk |-> <<2>>, rk |-> <<1>>,
                       in |-> <<[op |-> "rel", in |-> << >>, rel |-> prototype],
                                [op |-> "recur", in |-> << >>]>>]>>]>>]
=============================================================================
