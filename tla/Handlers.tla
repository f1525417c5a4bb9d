------------------------------ MODULE Handlers ------------------------------
(***************************************************************************)
(* Handlers: the two notations an arm is written in, statements and stack  *)
(* words, their type-checked lowering to one executable plan               *)
(* (crates/grmpl-lang/src/compile.rs, concat.rs), the effects inferred     *)
(* from the plan (crates/grmpl-type/src/effect.rs) and its execution over  *)
(* a snapshot into a patch (behavior_ir.rs, behavior.rs).                  *)
(*                                                                         *)
(* An expression is <<"var", x>>, <<"lit", v>>, <<"neg", e>>, <<"not", e>> *)
(* or <<op, l, r>>; in a plan a variable is <<"local", x>>.  A lowering is *)
(* a set of none (refused) or one.                                         *)
(***************************************************************************)
EXTENDS Views, Patterns

CONSTANTS
  Forms,          (* the rules of each form                               *)
  Ons,            (* for each inbox its form, arms and word arms          *)
  ActorInbox,     (* the inbox of each declared actor, by its text        *)
  Capabilities,   (* the kind and state relation of each capability       *)
  HasWord(_, _),  (* whether a text contains another as a word            *)
  Temps,          (* the generated locals, in order                       *)
  Shift(_),       (* xorshift64star: the next state, never zero, and the  *)
  Scramble(_)     (*   output it gives                                    *)

-----------------------------------------------------------------------------
(* Typed expressions. *)

Arithmetic == {"add", "sub", "mul", "div", "rem", "min", "max"}
Ordering == {"lt", "le", "gt", "ge"}
Comparisons == {"eq", "ne"} \cup Ordering

Typed(ir, ty) == [ir |-> ir, ty |-> ty]
Literal(v) == Typed(<<"lit", v>>, KindOf(v))

(* A comparison or connective is not a scalar operand. *)
IsScalar(t) == t.ir[1] \notin Comparisons \cup {"not", "and", "or"}

Assignable(expected, t) == expected \in {"Any", t.ty}

LowerNeg(t) == IF t.ty = "Int" /\ IsScalar(t) THEN {Typed(<<"neg", t.ir>>, "Int")} ELSE {}
LowerNot(t) == IF t.ty = "Bool" THEN {Typed(<<"not", t.ir>>, "Bool")} ELSE {}

LowerBinary(op, l, r) ==
  LET typed == \/ op \in {"and", "or"} /\ l.ty = "Bool" /\ r.ty = "Bool"
               \/ op \in Arithmetic \cup Ordering /\ l.ty = "Int" /\ r.ty = "Int"
               \/ op \in {"eq", "ne"} /\ l.ty = r.ty /\ l.ty # "Any"
  IN IF typed /\ (op \notin {"and", "or"} => IsScalar(l) /\ IsScalar(r))
     THEN {Typed(<<op, l.ir, r.ir>>, IF op \in Arithmetic THEN "Int" ELSE "Bool")}
     ELSE {}

RECURSIVE LowerExpr(_, _)
LowerExpr(e, locals) ==
  LET sub(i) == LowerExpr(e[i], locals) IN
  CASE e[1] = "lit" -> {Literal(e[2])}
    [] e[1] = "var" -> IF e[2] \in DOMAIN EntityOf THEN {Literal(EntityOf[e[2]])}
                       ELSE {Typed(<<"local", x>>, locals[x]) : x \in {e[2]} \cap DOMAIN locals}
    [] e[1] = "neg" -> UNION {LowerNeg(t) : t \in sub(2)}
    [] e[1] = "not" -> UNION {LowerNot(t) : t \in sub(2)}
    [] OTHER -> UNION {LowerBinary(e[1], p[1], p[2]) : p \in sub(2) \X sub(3)}

(* All of a sequence, or none. *)
LowerAll(es, locals) ==
  FoldLeft(LAMBDA accs, e : {Append(p[1], p[2]) : p \in accs \X LowerExpr(e, locals)},
           {<< >>}, es)

Plans(ts) == [i \in DOMAIN ts |-> ts[i].ir]

(* bind_type: a local is bound once in a scope and shadows no entity.      *)
BindType(locals, x, ty) ==
  IF x \in DOMAIN EntityOf \cup DOMAIN locals THEN {} ELSE {locals @@ (x :> ty)}

BindTypes(locals, xs, tys) ==
  FoldLeft(LAMBDA accs, i : UNION {BindType(acc, xs[i], tys[i]) : acc \in accs},
           {locals}, [i \in 1 .. Min({Len(xs), Len(tys)}) |-> i])

(* view_output_types: the column of a variable's first occurrence, nothing *)
(* being known of an inherited value.                                      *)
FirstTypes(v) ==
  FoldLeft(LAMBDA acc, atom :
             acc @@ (IF atom.inherit
                     THEN IF IsVar(atom.args[3]) THEN atom.args[3][2] :> "Any" ELSE << >>
                     ELSE [x \in LocalVars(atom) |-> Columns[atom.rel][FirstCol(atom, x)]]),
           << >>, v.atoms)

OutputTypes(v) == [i \in DOMAIN v.yields |-> FirstTypes(v)[v.yields[i]]]

-----------------------------------------------------------------------------
(* Statements: each adds its operation and its locals to what is lowered   *)
(* so far.                                                                 *)

Lowered(acc, op, locals) == [ops |-> Append(acc.ops, op), locals |-> locals]

(* A find binds a name not bound before and matches anything else.         *)
FindArgs(rel, args, locals) ==
  FoldLeft(LAMBDA accs, i :
             UNION {IF args[i][1] = "var" /\ args[i][2] \notin DOMAIN acc.locals \cup DOMAIN EntityOf
                    THEN {Lowered(acc, <<"bind", args[i][2]>>, acc.locals @@ (args[i][2] :> Columns[rel][i]))}
                    ELSE {Lowered(acc, <<"match", t.ir>>, acc.locals)
                          : t \in {u \in LowerExpr(args[i], acc.locals) : Assignable(Columns[rel][i], u)}}
                    : acc \in accs},
           {[ops |-> << >>, locals |-> locals]}, [i \in DOMAIN args |-> i])

RelationArgs(rel, args, locals) ==
  IF rel \notin DOMAIN Columns \/ Len(args) # Len(Columns[rel]) THEN {}
  ELSE {Plans(ts) : ts \in {us \in LowerAll(args, locals) :
                              \A i \in DOMAIN us : Assignable(Columns[rel][i], us[i])}}

(* The message a schedule sends: the tokens its target's form parses.      *)
ActorMessage(s, locals) ==
  LET text(ts) == \A i \in DOMAIN ts : Assignable("Text", ts[i]) IN
  IF s.target \notin DOMAIN ActorInbox \/ ActorInbox[s.target] \notin DOMAIN Ons THEN {}
  ELSE UNION {Rendered(Forms[Ons[ActorInbox[s.target]].form], s.tag, Plans(ts), LAMBDA v : <<"lit", v>>)
              : ts \in {us \in LowerAll(s.args, locals) : text(us)}}

EffectOps == {"expect", "assert", "retract", "emit"}

Invoke(cap, args, dests) == [op |-> "invoke", cap |-> cap, args |-> args, dests |-> dests]

(* A capability is invoked for what it is declared as.                     *)
Invoked(acc, cap, kind, argss, dests, tys) ==
  IF cap \in DOMAIN Capabilities /\ Capabilities[cap].kind = kind
  THEN {Lowered(acc, Invoke(cap, p[1], dests), p[2])
        : p \in argss \X BindTypes(acc.locals, dests, tys)}
  ELSE {}

RECURSIVE LowerStmts(_, _)

(* Defect: a branch's locals outlive it. *)
BugLowerIf(s, acc) ==
  {Lowered(acc, [op |-> "if", cond |-> p[1].ir, then |-> p[2].ops, else |-> p[3].ops], p[2].locals)
   : p \in {t \in LowerExpr(s.cond, acc.locals) : t.ty = "Bool"}
             \X LowerStmts(s.then, acc.locals) \X LowerStmts(s.else, acc.locals)}

LowerIf(s, acc) ==
  {Lowered(acc, [op |-> "if", cond |-> p[1].ir, then |-> p[2].ops, else |-> p[3].ops], acc.locals)
   : p \in {t \in LowerExpr(s.cond, acc.locals) : t.ty = "Bool"}
             \X LowerStmts(s.then, acc.locals) \X LowerStmts(s.else, acc.locals)}

(* A resolve's arguments and column are left to the run to check.          *)
LowerResolve(s, acc) ==
  {Lowered(acc, [op |-> "resolve", view |-> s.view, args |-> Plans(p[1]), col |-> s.col,
                 match |-> s.match, rhs |-> p[2].ir, dests |-> Views[s.view].yields], p[3])
   : p \in LowerAll(s.args, acc.locals) \X LowerExpr(s.rhs, acc.locals)
             \X BindTypes(acc.locals, Views[s.view].yields, OutputTypes(Views[s.view]))}

LowerStmt(s, acc) ==
  LET exprs(e) == LowerExpr(e, acc.locals)
      ints(e) == {t \in exprs(e) : Assignable("Int", t)}
  IN CASE s.is = "let" ->
            {Lowered(acc, [op |-> "let", local |-> s.name, value |-> t.ir], locals)
             : <<t, locals>> \in UNION {{t} \X BindType(acc.locals, s.name, t.ty) : t \in exprs(s.value)}}
       [] s.is = "if" -> LowerIf(s, acc)
       [] s.is = "fresh" -> Invoked(acc, s.cap, "allocate", {<< >>}, <<s.local>>, <<"Ent">>)
       [] s.is = "random" ->
            Invoked(acc, s.cap, "random", {<<t.ir>> : t \in ints(s.bound)}, <<s.local>>, <<"Int">>)
       [] s.is = "schedule" ->
            Invoked(acc, s.cap, "schedule",
                    {<<<<"lit", s.target>>, p[1].ir>> \o p[2] : p \in ints(s.due) \X ActorMessage(s, acc.locals)},
                    << >>, << >>)
       [] s.is = "resolve" -> IF s.view \in DOMAIN Views THEN LowerResolve(s, acc) ELSE {}
       [] s.is = "find" ->
            IF s.rel \in DOMAIN Columns /\ Len(s.args) = Len(Columns[s.rel])
            THEN {Lowered(acc, [op |-> "find", rel |-> s.rel, args |-> f.ops], f.locals)
                  : f \in FindArgs(s.rel, s.args, acc.locals)}
            ELSE {}
       [] s.is \in EffectOps ->
            {Lowered(acc, [op |-> s.is, rel |-> s.rel, args |-> args], acc.locals)
             : args \in RelationArgs(s.rel, s.args, acc.locals)}

LowerStmts(stmts, locals) ==
  FoldLeft(LAMBDA accs, s : UNION {LowerStmt(s, acc) : acc \in accs},
           {[ops |-> << >>, locals |-> locals]}, stmts)

(* lower_stmt_arm: the constructor's variables are texts.                  *)
SelfOnly == "self" :> "Ent"
Texts(xs) == [i \in DOMAIN xs |-> "Text"]

LowerStmtArm(arm) ==
  UNION {{done.ops : done \in LowerStmts(arm.stmts, locals)}
         : locals \in BindTypes(SelfOnly, arm.vars, Texts(arm.vars))}

-----------------------------------------------------------------------------
(* Words: a stack of typed expressions stands for the run's stack.         *)

(* The shufflers: how many cells each takes, and which of them it leaves.  *)
Shuffles ==
  [dup |-> <<1, <<1, 1>>>>, drop |-> <<1, << >>>>, swap |-> <<2, <<2, 1>>>>,
   over |-> <<2, <<1, 2, 1>>>>, rot |-> <<3, <<2, 3, 1>>>>, nip |-> <<2, <<2>>>>,
   tuck |-> <<2, <<2, 1, 2>>>>, twodup |-> <<2, <<1, 2, 1, 2>>>>, twodrop |-> <<2, << >>>>]

Popped(stack, n) == SubSeq(stack, 1, Len(stack) - n)

(* Defect: the cells are taken in the order they are popped.               *)
BugTop(stack, n) == Reverse(SubSeq(stack, Len(stack) - n + 1, Len(stack)))

Top(stack, n) == SubSeq(stack, Len(stack) - n + 1, Len(stack))

(* The cells a word takes and leaves, a set of none or one. *)
WordEffect(w) ==
  CASE w[1] \in {"self", "lit"} -> {<<0, 1>>}
    [] w[1] \in DOMAIN Shuffles -> {<<Shuffles[w[1]][1], Len(Shuffles[w[1]][2])>>}
    [] w[1] \in {"neg", "not"} -> {<<1, 1>>}
    [] w[1] \in Arithmetic \cup Comparisons \cup {"and", "or"} -> {<<2, 1>>}
    [] w[1] = "resolve" -> {<<Len(Views[v].params) + 1, Len(Views[v].yields) + Len(Views[v].agg)>>
                            : v \in {w[2]} \cap DOMAIN Views}
    [] w[1] = "find" -> {<<w[3], Len(Columns[r])>> : r \in {w[2]} \cap DOMAIN Columns}
    [] w[1] \in EffectOps -> {<<Len(Columns[r]), 0>> : r \in {w[2]} \cap DOMAIN Columns}

(* ConcatArm::check: no word underflows and nothing is left.               *)
IsBalanced(arm) ==
  {0} = FoldLeft(LAMBDA depths, w : {d - e[1] + e[2] : <<d, e>> \in {p \in depths \X WordEffect(w) : p[1] >= p[2][1]}},
                 {Len(arm.vars)}, arm.words)

Pushed1(acc, n, ts) == [acc EXCEPT !.stack = Popped(acc.stack, n) \o ts]

(* A word that leaves a row: a generated local for each of its columns.    *)
WithRow(acc, n, tys, Op(_)) ==
  LET names == SubSeq(Temps, acc.next + 1, acc.next + Len(tys)) IN
  {[ops |-> Append(acc.ops, Op(names)), locals |-> locals, next |-> acc.next + Len(tys),
    stack |-> Popped(acc.stack, n) \o [i \in DOMAIN tys |-> Typed(<<"local", names[i]>>, tys[i])]]
   : locals \in BindTypes(acc.locals, names, tys)}

WordResolve(w, acc) ==
  LET v == Views[w[2]]
      n == Len(v.params)
      taken == Top(acc.stack, n + 1)
      key == taken[n + 1]
      at == CHOOSE i \in DOMAIN v.yields : v.yields[i] = w[3]
  IN IF /\ w[3] \in Range(v.yields) /\ Assignable(OutputTypes(v)[at], key)
        /\ w[4] = "word" => key.ty = "Text"
     THEN WithRow(acc, n + 1, OutputTypes(v), LAMBDA names :
            [op |-> "resolve", view |-> w[2], args |-> Plans(SubSeq(taken, 1, n)), col |-> w[3],
             match |-> w[4], rhs |-> key.ir, dests |-> names])
     ELSE {}

WordFind(w, acc) ==
  LET keys == Top(acc.stack, w[3])  columns == Columns[w[2]] IN
  IF w[3] <= Len(columns) /\ \A i \in DOMAIN keys : Assignable(columns[i], keys[i])
  THEN WithRow(acc, w[3], columns, LAMBDA names :
         [op |-> "find", rel |-> w[2],
          args |-> [i \in DOMAIN columns |-> IF i <= w[3] THEN <<"matchbind", keys[i].ir, names[i]>>
                                             ELSE <<"bind", names[i]>>]])
  ELSE {}

WordEffectOp(w, acc) ==
  LET columns == Columns[w[2]]  taken == Top(acc.stack, Len(columns)) IN
  IF \A i \in DOMAIN taken : Assignable(columns[i], taken[i])
  THEN {[Pushed1(acc, Len(columns), << >>) EXCEPT
           !.ops = Append(acc.ops, [op |-> w[1], rel |-> w[2], args |-> Plans(taken)])]}
  ELSE {}

LowerWord(w, acc) ==
  LET top(n) == Top(acc.stack, n) IN
  IF \A e \in WordEffect(w) : Len(acc.stack) < e[1] THEN {}
  ELSE CASE w[1] = "self" -> {Pushed1(acc, 0, <<Typed(<<"local", "self">>, "Ent")>>)}
         [] w[1] = "lit" -> {Pushed1(acc, 0, <<Literal(w[2])>>)}
         [] w[1] \in DOMAIN Shuffles ->
              LET sh == Shuffles[w[1]]
              IN {Pushed1(acc, sh[1], [i \in DOMAIN sh[2] |-> top(sh[1])[sh[2][i]]])}
         [] w[1] = "neg" -> {Pushed1(acc, 1, <<t>>) : t \in LowerNeg(top(1)[1])}
         [] w[1] = "not" -> {Pushed1(acc, 1, <<t>>) : t \in LowerNot(top(1)[1])}
         [] w[1] = "resolve" -> WordResolve(w, acc)
         [] w[1] = "find" -> WordFind(w, acc)
         [] w[1] \in EffectOps -> WordEffectOp(w, acc)
         [] OTHER -> {Pushed1(acc, 2, <<t>>) : t \in LowerBinary(w[1], top(2)[1], top(2)[2])}

(* lower_words, from the values on the stack at the start.                 *)
LowerWords(words, names, tys) ==
  LET start == {[ops |-> << >>, locals |-> locals, next |-> 0,
                 stack |-> [i \in DOMAIN names |-> Typed(<<"local", names[i]>>, tys[i])]]
                : locals \in BindTypes(SelfOnly, names, tys)}
      ended == FoldLeft(LAMBDA accs, w : UNION {LowerWord(w, acc) : acc \in accs}, start, words)
  IN {acc.ops : acc \in {a \in ended : a.stack = << >>}}

LowerWordArm(arm) == IF IsBalanced(arm) THEN LowerWords(arm.words, arm.vars, Texts(arm.vars)) ELSE {}

(* behavior_internal and handler_irs: every arm of a handler, statement    *)
(* arms first; a set of none or one.                                       *)
Compiled(on) ==
  LET arm(a, opss) == {[tag |-> a.tag, vars |-> a.vars, ops |-> ops] : ops \in opss}
      all == FoldLeft(LAMBDA accs, a : {Append(p[1], p[2]) : p \in accs \X a}, {<< >>},
                      [i \in DOMAIN on.arms |-> arm(on.arms[i], LowerStmtArm(on.arms[i]))]
                        \o [i \in DOMAIN on.words |-> arm(on.words[i], LowerWordArm(on.words[i]))])
  IN all
=============================================================================
