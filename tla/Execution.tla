----------------------------- MODULE Execution -----------------------------
(***************************************************************************)
(* Running a plan: its execution over a snapshot with the capabilities     *)
(* granted (crates/grmpl-lang/src/behavior_ir.rs), the choice of arm or of *)
(* stored behaviour (compile.rs run_behavior, behavior.rs), the effects    *)
(* inferred from it (crates/grmpl-type/src/effect.rs) and the checks of    *)
(* the commit boundary (crates/grmpl-proc/src/commit.rs).                  *)
(***************************************************************************)
EXTENDS Handlers

CONSTANTS
  RngWords,   (* 2^64: the states of a random stream                       *)
  Stored      (* what each decodable code value decodes to                 *)

ASSUME WordsAssumption == RngWords = 2 * (IntMax + 1)

-----------------------------------------------------------------------------
(* Expressions.  A fault is no value: arithmetic out of range, or an       *)
(* operation that cannot be carried out at all.                            *)

Overflow == 0 - 1
Stuck == 0 - 2
IsFault(v) == v < 0

Fault(v) == IF v = Overflow THEN "arithmetic" ELSE "stuck"

(* Division truncates towards zero. *)
Abs(n) == IF n < 0 THEN 0 - n ELSE n
Quotient(a, b) == LET q == Abs(a) \div Abs(b) IN IF (a < 0) = (b < 0) THEN q ELSE 0 - q

(* The result, before its range is checked; none of a division by zero, or *)
(* of the least integer by -1.                                             *)
Computed(op, a, b) ==
  CASE op = "add" -> {a + b}
    [] op = "sub" -> {a - b}
    [] op = "mul" -> {a * b}
    [] op = "div" -> IF b = 0 THEN {} ELSE {Quotient(a, b)}
    [] op = "rem" -> IF b = 0 \/ ~ IsInt(Quotient(a, b)) THEN {} ELSE {a - b * Quotient(a, b)}
    [] op = "min" -> {Min({a, b})}
    [] op = "max" -> {Max({a, b})}

Intrinsic(op, l, r) ==
  IF KindOf(l) # "Int" \/ KindOf(r) # "Int" THEN Stuck
  ELSE IF \E n \in Computed(op, IntOf(l), IntOf(r)) : IsInt(n)
       THEN Num(CHOOSE n \in Computed(op, IntOf(l), IntOf(r)) : TRUE)
       ELSE Overflow

Compared2(op, l, r) ==
  IF KindOf(l) # KindOf(r) \/ (op \in Ordering /\ KindOf(l) # "Int") THEN Stuck
  ELSE Bool(CASE op = "eq" -> l = r [] op = "ne" -> l # r [] op = "lt" -> l < r
              [] op = "le" -> l <= r [] op = "gt" -> l > r [] op = "ge" -> l >= r)

AsTruth(v) == IF IsFault(v) THEN v ELSE IF KindOf(v) = "Bool" THEN v ELSE Stuck

RECURSIVE ValueOf(_, _)
ValueOf(ir, locals) ==
  LET v(i) == ValueOf(ir[i], locals) IN
  CASE ir[1] = "lit" -> ir[2]
    [] ir[1] = "local" -> IF ir[2] \in DOMAIN locals THEN locals[ir[2]] ELSE Stuck
    [] ir[1] = "neg" -> IF IsFault(v(2)) THEN v(2) ELSE Intrinsic("sub", Num(0), v(2))
    [] ir[1] = "not" -> IF IsFault(AsTruth(v(2))) THEN AsTruth(v(2)) ELSE Bool(~ IsTrue(v(2)))
    [] ir[1] = "and" -> IF AsTruth(v(2)) # Bool(TRUE) THEN AsTruth(v(2)) ELSE AsTruth(v(3))
    [] ir[1] = "or" -> IF AsTruth(v(2)) # Bool(FALSE) THEN AsTruth(v(2)) ELSE AsTruth(v(3))
    [] IsFault(v(2)) -> v(2)
    [] IsFault(v(3)) -> v(3)
    [] ir[1] \in Arithmetic -> Intrinsic(ir[1], v(2), v(3))
    [] ir[1] \in Comparisons -> Compared2(ir[1], v(2), v(3))

Values(irs, locals) == [i \in DOMAIN irs |-> ValueOf(irs[i], locals)]
Faults(vs) == {i \in DOMAIN vs : IsFault(vs[i])}

-----------------------------------------------------------------------------
(* A run: how it goes on (or ended), its locals, its patch so far, and the *)
(* allocators, random streams and timers of its capability frame.          *)

EmptyPatch == [expect |-> << >>, assert |-> << >>, retract |-> << >>, emit |-> << >>, scheduled |-> << >>]
EmptyFrame == [alloc |-> << >>, rng |-> << >>, scheduled |-> << >>]

Stopped(run, why) == [run EXCEPT !.flow = why]

(* bind_local: a local bound twice is a fault. *)
BindLocals(run, xs, vs) ==
  LET n == Min({Len(xs), Len(vs)})
      new == {xs[i] : i \in 1 .. n}
  IN IF new \cap DOMAIN run.locals # {} \/ Cardinality(new) # n THEN Stopped(run, "stuck")
     ELSE [run EXCEPT !.locals = @ @@ [x \in new |-> vs[CHOOSE i \in 1 .. n : xs[i] = x]]]

Now(h) == Len(h) - 1
Least(ts) == CHOOSE t \in ts : \A u \in ts \ {t} : Before(t, u)

(* column_match. *)
Fits(match, have, want) ==
  have = want \/ (match = "word" /\ KindOf(have) = "Text" /\ KindOf(want) = "Text" /\ HasWord(have, want))

RunResolve(o, run, h) ==
  LET args == Values(o.args, run.locals)
      want == ValueOf(o.rhs, run.locals)
      v == Views[o.view]
      plans == IF Len(args) = Len(v.params) THEN ViewIr(o.view, args) ELSE {}
      at == CHOOSE i \in DOMAIN v.yields : v.yields[i] = o.col
      rows == {t \in UNION {DOMAIN EvalSnapshot(Lower(q), h, Now(h)) : q \in plans} : Fits(o.match, t[at], want)}
  IN IF Faults(args) # {} THEN Stopped(run, Fault(args[Min(Faults(args))]))
     ELSE IF plans = {} \/ o.col \notin Range(v.yields) THEN Stopped(run, "stuck")
     ELSE IF IsFault(want) THEN Stopped(run, Fault(want))
     ELSE IF rows = {} THEN Stopped(run, "abort")
     ELSE BindLocals(run, o.dests, Least(rows))

(* All the columns to match are evaluated before any is bound.  A row too  *)
(* short for a column to bind ends the run.                                *)
RunFind(o, run, h) ==
  LET matched == {i \in DOMAIN o.args : o.args[i][1] # "bind"}
      bound == SelectSeq([i \in DOMAIN o.args |-> i], LAMBDA i : o.args[i][1] # "match")
      local(i) == o.args[i][Len(o.args[i])]
      want == [i \in matched |-> ValueOf(o.args[i][2], run.locals)]
      rows == {t \in DOMAIN At(h, Now(h), o.rel) : \A i \in matched : i <= Len(t) /\ t[i] = want[i]}
      row == Least(rows)
  IN IF Faults(want) # {} THEN Stopped(run, Fault(want[Min(Faults(want))]))
     ELSE IF rows = {} THEN Stopped(run, "abort")
     ELSE IF \E i \in Range(bound) : i > Len(row) THEN Stopped(run, "stuck")
     ELSE BindLocals(run, [k \in DOMAIN bound |-> local(bound[k])], [k \in DOMAIN bound |-> row[bound[k]]])

(* Each effect appends to its part of the patch. *)
RunEffect(o, run) ==
  LET args == Values(o.args, run.locals) IN
  IF Faults(args) # {} THEN Stopped(run, Fault(args[Min(Faults(args))]))
  ELSE [run EXCEPT !.patch[o.op] = Append(@, <<o.rel, args>>)]

-----------------------------------------------------------------------------
(* Capabilities.  A grant is of a kind, over a state relation.             *)

(* The single weight-1 row a capability's state is, a set of none or one.  *)
StateRow(h, rel, Mine(_)) ==
  LET rows == {t \in DOMAIN At(h, Now(h), rel) : Mine(t)} IN
  IF Cardinality(rows) = 1 /\ \A t \in rows : At(h, Now(h), rel)[t] = 1 THEN rows ELSE {}

Every(t) == TRUE

(* validate_counter: the counter row, within the range or just past it.    *)
Counter(g, h) ==
  {IntOf(t[1]) : t \in {u \in StateRow(h, g.rel, Every) :
                          /\ Len(u) = 1 /\ KindOf(u[1]) = "Int"
                          /\ g.first <= IntOf(u[1]) /\ IntOf(u[1]) <= g.last + 1}}

Allocate(cap, g, run, h) ==
  LET open == IF cap \in DOMAIN run.frame.alloc THEN {run.frame.alloc[cap]}
              ELSE {[rel |-> g.rel, start |-> n, n |-> 0] : n \in Counter(g, h)}
      a == CHOOSE x \in open : TRUE
  IN IF open = {} \/ a.start + a.n > g.last THEN [run |-> Stopped(run, "refused"), values |-> << >>]
     ELSE [run |-> [run EXCEPT !.frame.alloc = (cap :> [a EXCEPT !.n = @ + 1]) @@ @],
           values |-> <<Ent(a.start + a.n)>>]

(* An integer's bits as an unsigned word, and back. *)
Word(n) == n % RngWords
Signed(w) == IF w > IntMax THEN w - RngWords ELSE w

(* read_rng_state. *)
RngState(g, h) ==
  {IntOf(t[2]) : t \in {u \in StateRow(h, g.rel, LAMBDA u : Len(u) > 0 /\ u[1] = g.owner) :
                          Len(u) = 2 /\ KindOf(u[2]) = "Int" /\ u[2] # Num(0)}}

(* Outputs below the threshold are drawn again: the state drawn, and the   *)
(* output.                                                                 *)
RECURSIVE Drawn(_, _)
Drawn(state, bound) ==
  LET next == Shift(state) IN
  IF Scramble(next) >= ((RngWords - bound) % RngWords) % bound THEN <<next, Scramble(next) % bound>>
  ELSE Drawn(next, bound)

Random(cap, g, args, run, h) ==
  LET open == IF cap \in DOMAIN run.frame.rng THEN {run.frame.rng[cap]}
              ELSE {[rel |-> g.rel, owner |-> g.owner, original |-> n, state |-> Word(n)] : n \in RngState(g, h)}
      s == CHOOSE x \in open : TRUE
      out == Drawn(s.state, IntOf(args[1]))
  IN IF Len(args) # 1 \/ KindOf(args[1]) # "Int" THEN [run |-> Stopped(run, "stuck"), values |-> << >>]
     ELSE IF IntOf(args[1]) <= 0 \/ open = {} THEN [run |-> Stopped(run, "refused"), values |-> << >>]
     ELSE [run |-> [run EXCEPT !.frame.rng = (cap :> [s EXCEPT !.state = out[1]]) @@ @],
           values |-> <<Num(out[2])>>]

Schedule(g, args, run) ==
  IF Len(args) < 2 \/ KindOf(args[2]) # "Int" \/ \E i \in DOMAIN args \ {2} : KindOf(args[i]) # "Text"
  THEN [run |-> Stopped(run, "stuck"), values |-> << >>]
  ELSE IF args[1] \notin DOMAIN g.targets THEN [run |-> Stopped(run, "refused"), values |-> << >>]
  ELSE [run |-> [run EXCEPT !.frame.scheduled =
                   Append(@, [rel |-> g.rel, due |-> args[2], inbox |-> g.targets[args[1]].inbox,
                              target |-> g.targets[args[1]].entity, body |-> SubSeq(args, 3, Len(args))])],
        values |-> << >>]

RunInvoke(o, run, h, grants) ==
  LET args == Values(o.args, run.locals)
      g == grants[o.cap]
      done == CASE g.kind = "allocate" -> Allocate(o.cap, g, run, h)
                [] g.kind = "random" -> Random(o.cap, g, args, run, h)
                [] g.kind = "schedule" -> Schedule(g, args, run)
  IN IF Faults(args) # {} THEN Stopped(run, Fault(args[Min(Faults(args))]))
     ELSE IF o.cap \notin DOMAIN grants THEN Stopped(run, "refused")
     ELSE IF done.run.flow # "on" THEN done.run
     ELSE IF Len(done.values) # Len(o.dests) THEN Stopped(run, "stuck")
     ELSE BindLocals(done.run, o.dests, done.values)

(* seal: each counter and each stream used is expected, retracted and      *)
(* asserted anew; timers follow.                                           *)
Moves(frame) ==
  [i \in 1 .. Cardinality(DOMAIN frame.alloc) |->
     LET a == frame.alloc[SetToSeq(DOMAIN frame.alloc)[i]]
     IN <<a.rel, <<Num(a.start)>>, <<Num(a.start + a.n)>>>>]
  \o [i \in 1 .. Cardinality(DOMAIN frame.rng) |->
       LET s == frame.rng[SetToSeq(DOMAIN frame.rng)[i]]
       IN <<s.rel, <<s.owner, Num(s.original)>>, <<s.owner, Num(Signed(s.state))>>>>]

Olds(moves) == [i \in DOMAIN moves |-> <<moves[i][1], moves[i][2]>>]
News(moves) == [i \in DOMAIN moves |-> <<moves[i][1], moves[i][3]>>]

(* Defect: the state a counter or stream was opened at is not expected.    *)
BugSeal(run) ==
  LET moves == Moves(run.frame)
  IN [run.patch EXCEPT !.retract = @ \o Olds(moves), !.assert = @ \o News(moves),
                       !.scheduled = run.frame.scheduled]

Seal(run) ==
  LET moves == Moves(run.frame)
  IN [run.patch EXCEPT !.expect = @ \o Olds(moves), !.retract = @ \o Olds(moves),
                       !.assert = @ \o News(moves), !.scheduled = run.frame.scheduled]

-----------------------------------------------------------------------------
(* execute_ops, and a whole run: its flow and, when it went on, its patch. *)

RECURSIVE RunOps(_, _, _, _)

RunOp(o, run, h, grants) ==
  CASE o.op = "resolve" -> RunResolve(o, run, h)
    [] o.op = "find" -> RunFind(o, run, h)
    [] o.op = "let" -> LET v == ValueOf(o.value, run.locals)
                       IN IF IsFault(v) THEN Stopped(run, Fault(v)) ELSE BindLocals(run, <<o.local>>, <<v>>)
    [] o.op = "if" -> LET c == AsTruth(ValueOf(o.cond, run.locals))
                          branch == RunOps(IF IsTrue(c) THEN o.then ELSE o.else, run, h, grants)
                      IN IF IsFault(c) THEN Stopped(run, Fault(c)) ELSE [branch EXCEPT !.locals = run.locals]
    [] o.op \in EffectOps -> RunEffect(o, run)
    [] o.op = "invoke" -> RunInvoke(o, run, h, grants)

RunOps(ops, run, h, grants) ==
  FoldLeft(LAMBDA r, o : IF r.flow = "on" THEN RunOp(o, r, h, grants) ELSE r, run, ops)

Sealed(run) == [flow |-> run.flow, patch |-> IF run.flow = "on" THEN Seal(run) ELSE EmptyPatch]

Execute(ops, initial, self, h, grants) ==
  Sealed(RunOps(ops, [flow |-> "on", patch |-> EmptyPatch, frame |-> EmptyFrame,
                      locals |-> initial @@ ("self" :> self)], h, grants))

NoEffect == [flow |-> "on", patch |-> EmptyPatch]

(* run_behavior: the first arm for the message's first parse, run.         *)
RunParse(arms, parts, self, h, grants) ==
  LET arm == arms[Min({i \in DOMAIN arms : arms[i].tag = parts[1] /\ Len(arms[i].vars) + 1 = Len(parts)})]
  IN Execute(arm.ops, [x \in Range(arm.vars) |-> parts[1 + CHOOSE i \in DOMAIN arm.vars : arm.vars[i] = x]],
             self, h, grants)

RunParses(arms, parses, self, h, grants) ==
  IF parses = << >> \/ \A i \in DOMAIN arms : arms[i].tag # parses[1][1] \/ Len(arms[i].vars) + 1 # Len(parses[1])
  THEN NoEffect ELSE RunParse(arms, parses[1], self, h, grants)

RunHandler(on, arms, self, h, body, grants) == RunParses(arms, ParseAll(Forms[on.form], body), self, h, grants)

(* Stored behaviours: those an entity implements, least code first; one    *)
(* that does not decode fails the dispatch.                                *)
Implemented(direct, prototype, e, h) ==
  {t[2] : t \in {u \in DOMAIN EvalSnapshot(Lower(ImplementsIr(direct, prototype)), h, Now(h)) :
                   u[1] = e /\ KindOf(u[2]) = "Code"}}

RECURSIVE MaxCols(_)
MaxCols(p) == IF p.is = "eq" THEN {e[2] : e \in {x \in {p.l, p.r} : x[1] = "col"}}
              ELSE UNION {MaxCols(p.of[i]) : i \in DOMAIN p.of}

Matches(b, message) == (\A c \in MaxCols(b.guard) : c <= Len(message)) /\ Test(b.guard, message)

Fitting(codes, message) == {c \in codes : Matches(Stored[c], message)}

RunStored(b, e, h, message) ==
  IF Len(message) # Len(b.params) THEN [flow |-> "arity", patch |-> EmptyPatch]
  ELSE Execute(b.ops, [x \in Range(b.params) |-> message[CHOOSE i \in DOMAIN b.params : b.params[i] = x]],
               e, h, << >>)

DispatchAmong(codes, e, h, message) ==
  IF ~ codes \subseteq DOMAIN Stored THEN [flow |-> "undecodable", patch |-> EmptyPatch]
  ELSE IF Fitting(codes, message) = {} THEN NoEffect
  ELSE RunStored(Stored[Min(Fitting(codes, message))], e, h, message)

Dispatch(direct, prototype, e, h, message) ==
  DispatchAmong(Implemented(direct, prototype, e, h), e, h, message)

-----------------------------------------------------------------------------
(* Effects and authority. *)

RECURSIVE Writes(_), BugWrites(_), Uses(_)

(* Defect: what only an else branch writes is missed. *)
BugWrites(ops) ==
  UNION {CASE ops[i].op \in {"assert", "retract"} -> {ops[i].rel}
           [] ops[i].op = "if" -> BugWrites(ops[i].then)
           [] ops[i].op = "invoke" -> {Capabilities[ops[i].cap].rel}
           [] OTHER -> {} : i \in DOMAIN ops}

Writes(ops) ==
  UNION {CASE ops[i].op \in {"assert", "retract"} -> {ops[i].rel}
           [] ops[i].op = "if" -> Writes(ops[i].then) \cup Writes(ops[i].else)
           [] ops[i].op = "invoke" -> {Capabilities[ops[i].cap].rel}
           [] OTHER -> {} : i \in DOMAIN ops}

(* The invocations anywhere in a plan. *)
Uses(ops) ==
  UNION {CASE ops[i].op = "if" -> Uses(ops[i].then) \cup Uses(ops[i].else)
           [] ops[i].op = "invoke" -> {ops[i]}
           [] OTHER -> {} : i \in DOMAIN ops}

(* An authority owns scopes: a relation, whole or a range of a column.     *)
OwnsRelation(authority, rel) == \E s \in authority : s.rel = rel

NumberOf(v) == IF KindOf(v) = "Ent" THEN v ELSE IntOf(v)

InRange(s, t) ==
  \A r \in s.range : /\ r.col <= Len(t) /\ KindOf(t[r.col]) \in {"Ent", "Int"}
                     /\ r.lo <= NumberOf(t[r.col]) /\ NumberOf(t[r.col]) <= r.hi

Permits(authority, f) == \E s \in authority : s.rel = f[1] /\ InRange(s, f[2])

CheckAuthority(ops, authority) == \A rel \in Writes(ops) : OwnsRelation(authority, rel)

(* EffectChecker on a code value: it decodes, writes within the authority, *)
(* and its capabilities are granted, for the targets it names.             *)
CodeAllowed(c, authority, grants) ==
  /\ c \in DOMAIN Stored
  /\ CheckAuthority(Stored[c].ops, authority)
  /\ \A o \in Uses(Stored[c].ops) :
       /\ o.cap \in DOMAIN grants
       /\ grants[o.cap].kind = "schedule" =>
            o.args # << >> /\ o.args[1][1] = "lit" /\ o.args[1][2] \in DOMAIN grants[o.cap].targets

-----------------------------------------------------------------------------
(* check_patch, and the updates of an allowed patch. *)

Timer(s) == <<s.rel, <<s.due, s.inbox, s.target>>>>
Timers(p) == [i \in DOMAIN p.scheduled |-> Timer(p.scheduled[i])]
WorldWrites(p) == Range(p.assert) \cup Range(p.retract) \cup Range(Timers(p))

PatchAllowed(p, authority, grants) ==
  /\ \A f \in WorldWrites(p) : Permits(authority, f) /\ Conforms(Columns[f[1]], f[2])
  /\ \A f \in Range(p.assert) : \A i \in DOMAIN f[2] :
       KindOf(f[2][i]) = "Code" => CodeAllowed(f[2][i], authority, grants)

Holds(db, f) == Weight(db[f[1]], f[2]) > 0
Expected(p, db) == \A f \in Range(p.expect) : Holds(db, f)

(* The sum of the updates, relation by relation. *)
Count(fs, f) == Cardinality({i \in DOMAIN fs : fs[i] = f})

Updated(p, db) ==
  LET plus == p.assert \o p.emit \o Timers(p) IN
  [rel \in DOMAIN db |->
     Stripped(DOMAIN db[rel] \cup {f[2] : f \in {g \in Range(plus) \cup Range(p.retract) : g[1] = rel}},
              LAMBDA t : Weight(db[rel], t) + Count(plus, <<rel, t>>) - Count(p.retract, <<rel, t>>))]
=============================================================================
