------------------------------ MODULE Language ------------------------------
(***************************************************************************)
(* The language at work.  Workers run compiled handlers and stored         *)
(* behaviours over a snapshot of one world and commit the patches later,   *)
(* when others may have committed in between; a host installs and removes  *)
(* stored behaviours.  Apart from that, a part of the language (a view, a  *)
(* plan, a word arm, a form or a term of the codec) is put to one input.   *)
(***************************************************************************)
EXTENDS Execution, Codec

CONSTANTS
  Workers,
  Host,           (* the host's authority                                 *)
  Owner,          (* for each inbox its process entity and its authority  *)
  Grants,         (* the resolved grants                                  *)
  Bodies,         (* the messages each inbox receives                     *)
  Direct, Proto,  (* the relations of behaviours and prototypes           *)
  Installs,       (* the behaviour rows the host asserts and retracts     *)
  Receivers,      (* the entities dispatched to, each with its messages   *)
  Bootstrap,      (* the world at the start                               *)
  Authorities,    (* authorities a handler may be checked against         *)
  Subjects,       (* what is put to the test, and on which inputs         *)
  Inputs(_),
  Births,         (* the relation that records the entities made          *)
  MaxCommits

VARIABLES
  db,       (* the world                                                  *)
  jobs,     (* the run of each worker not yet committed, none or one      *)
  commits,  (* how many patches were committed                            *)
  case      (* the subject and the input of a test, each none or one      *)

vars == <<db, jobs, commits, case>>

World(d) == <<[db |-> d]>>

(* Every handler that compiles, lowered. *)
Handlers == [i \in {j \in DOMAIN Ons : Compiled(Ons[j]) # {}} |-> CHOOSE arms \in Compiled(Ons[i]) : TRUE]

Init == db = Bootstrap /\ jobs = [w \in Workers |-> << >>] /\ commits = 0 /\ case = <<<< >>, << >>>>

-----------------------------------------------------------------------------
(* The live world. *)

Running == case[1] = << >> /\ commits < MaxCommits

Job(ops, self, run, authority, grants) ==
  [writes |-> Writes(ops), self |-> self, run |-> run, authority |-> authority, grants |-> grants]

OpsOf(arms) == FlattenSeq([k \in DOMAIN arms |-> arms[k].ops])

(* A process runs its handler on a message. *)
Begin(w) ==
  /\ Running /\ jobs[w] = << >>
  /\ \E i \in DOMAIN Handlers : \E body \in Bodies[i] :
       jobs' = [jobs EXCEPT ![w] =
                  <<Job(OpsOf(Handlers[i]), Owner[i].self,
                        RunHandler(Ons[i], Handlers[i], Owner[i].self, World(db), body, Grants),
                        Owner[i].authority, Grants)>>]
  /\ UNCHANGED <<db, commits, case>>

(* An entity is dispatched a message. *)
BeginDispatch(w) ==
  /\ Running /\ jobs[w] = << >>
  /\ \E e \in DOMAIN Receivers : \E message \in Receivers[e] :
       LET fit == Fitting(Implemented(Direct, Proto, e, World(db)) \cap DOMAIN Stored, message)
       IN jobs' = [jobs EXCEPT ![w] =
                     <<Job(IF fit = {} THEN << >> ELSE Stored[Min(fit)].ops, e,
                           Dispatch(Direct, Proto, e, World(db), message), Host, << >>)>>]
  /\ UNCHANGED <<db, commits, case>>

Committable(j) == j.run.flow = "on" /\ PatchAllowed(j.run.patch, j.authority, j.grants) /\ Expected(j.run.patch, db)

Commit(w) ==
  /\ Running /\ jobs[w] # << >> /\ Committable(jobs[w][1])
  /\ db' = Updated(jobs[w][1].run.patch, db)
  /\ commits' = commits + 1
  /\ jobs' = [jobs EXCEPT ![w] = << >>]
  /\ UNCHANGED case

(* A fault, a refusal or a precondition lost leaves no effect. *)
GiveUp(w) ==
  /\ Running /\ jobs[w] # << >> /\ ~ Committable(jobs[w][1])
  /\ jobs' = [jobs EXCEPT ![w] = << >>]
  /\ UNCHANGED <<db, commits, case>>

(* The host installs a behaviour, or removes one. *)
HostCommits(p) ==
  /\ Running /\ PatchAllowed(p, Host, Grants) /\ Expected(p, db)
  /\ db' = Updated(p, db) /\ commits' = commits + 1
  /\ UNCHANGED <<jobs, case>>

Install ==
  \E row \in Installs : ~ Holds(db, <<Direct, row>>) /\ HostCommits([EmptyPatch EXCEPT !.assert = <<<<Direct, row>>>>])

Uninstall ==
  \E row \in Installs : HostCommits([EmptyPatch EXCEPT !.expect = <<<<Direct, row>>>>, !.retract = <<<<Direct, row>>>>])

-----------------------------------------------------------------------------
(* A part of the language put to an input. *)

Idle == commits = 0 /\ \A w \in Workers : jobs[w] = << >>

ChooseSubject == Idle /\ case[1] = << >> /\ case' \in {<<<<s>>, << >>>> : s \in Subjects} /\ UNCHANGED <<db, jobs, commits>>

PutToTest ==
  /\ case[1] # << >> /\ case[2] = << >>
  /\ \E x \in Inputs(case[1][1]) : case' = <<case[1], <<x>>>>
  /\ UNCHANGED <<db, jobs, commits>>

Next ==
  \/ \E w \in Workers : Begin(w) \/ BeginDispatch(w) \/ Commit(w) \/ GiveUp(w)
  \/ Install \/ Uninstall \/ ChooseSubject \/ PutToTest

Spec == Init /\ [][Next]_vars

Tested(kind) == case[2] # << >> /\ case[1][1].kind = kind
Subject == case[1][1].of
Input == case[2][1]

-----------------------------------------------------------------------------
(* What a view's body says of a world: its solutions, variable by variable.*)

CellsOf(d) == UNION {UNION {Range(t) : t \in DOMAIN d[rel]} : rel \in DOMAIN Columns}

Says(arg, s) == IF arg[1] = "lit" THEN arg[2] ELSE IF IsVar(arg) THEN s[arg[2]] ELSE EntityOf[arg[2]]

(* The innermost scope that binds the key over an entity.                  *)
Innermost(s, o) == s[1] > o[1] \/ (s[1] = o[1] /\ (s[2] < o[2] \/ (s[2] = o[2] /\ s[4] <= o[4])))

AtomHolds(atom, s, d) ==
  IF atom.inherit
  THEN LET over == {r \in DOMAIN d[atom.rel] : r[1] <= Says(atom.args[1], s) /\ Says(atom.args[1], s) <= r[2]
                                               /\ r[3] = atom.args[2][2]}
       IN \E r \in over : r[4] = Says(atom.args[3], s) /\ \A o \in over : Innermost(r, o)
  ELSE [i \in DOMAIN atom.args |-> Says(atom.args[i], s)] \in DOMAIN d[atom.rel]

Solutions(v, args, d) ==
  LET xs == UNION {LocalVars(v.atoms[i]) : i \in DOMAIN v.atoms}
      known == Bound(v, args)
  IN {s \in [xs -> CellsOf(d) \cup Range(args)] :
        (\A x \in xs \cap DOMAIN known : s[x] = known[x]) /\ \A i \in DOMAIN v.atoms : AtomHolds(v.atoms[i], s, d)}

Meaning(v, args, d) ==
  LET out == v.yields \o FoldedVars(v)
      rows == {[i \in DOMAIN out |-> s[out[i]]] : s \in Solutions(v, args, d)}
      key(t) == SubSeq(t, 1, Len(v.yields))
      group(k) == {t \in rows : key(t) = k}
  IN IF v.agg = << >> THEN rows
     ELSE {Append(k, Folded(group(k), [fn |-> v.agg[1].fn, col |-> Len(v.yields) + 1])) : k \in {key(t) : t \in rows}}

Rows(q, h) == DOMAIN EvalSnapshot(Lower(q), h, Now(h))

(* The plan of a view, its equalities turned into spans, returns what its  *)
(* body says and nothing else (compile.rs plan_view, ir.rs lower_filter).  *)
PlanMeansBody ==
  Tested("view") =>
    \A q \in PlanView(Views[Subject[1]], Bound(Views[Subject[1]], Subject[2]), Views[Subject[1]].yields, TRUE) :
      Rows(q, World(Input)) = Meaning(Views[Subject[1]], Subject[2], Input)

(* Reading the stored copy of a view for some arguments returns what the   *)
(* view's body says for them, when the copy is what its open form          *)
(* evaluates to (compile.rs open_view_ir, view_ir).                        *)
StoredFormAnswers ==
  Tested("view") /\ Subject[1] \in DOMAIN Backing =>
    \A open \in OpenIr(Subject[1]), q \in ViewIr(Subject[1], Subject[2]) :
      LET copy == EvalSnapshot(Lower(open), World(Input), 0)
          stored == [Input EXCEPT ![Backing[Subject[1]]] = copy, ![CursorRel] = (<<Subject[1], 0>> :> 1)]
      IN Rows(q, World(stored)) = Meaning(Views[Subject[1]], Subject[2], Input)

(* A view answers what its body says, planned or read from a stored copy.  *)
ViewsMeanBody == PlanMeansBody /\ StoredFormAnswers

(* Every row of a plan that type-checks has the types found for it, those  *)
(* of a recursion included (type/src/lib.rs synth).                        *)
RowsAsTyped ==
  Tested("plan") =>
    \A ty \in RowTypes(Subject, << >>) : \A t \in Rows(Subject, World(Input)) : Conforms(ty, t)

-----------------------------------------------------------------------------
(* What words do, on a stack of values.                                    *)

FromTop(stack, i) == stack[Len(stack) - i + 1]   \* the i-th from the top
Without(stack, n) == SubSeq(stack, 1, Len(stack) - n)

StackRow(st, n, rows) ==
  IF rows = {} THEN [st EXCEPT !.flow = "abort"] ELSE [st EXCEPT !.stack = Without(@, n) \o Least(rows)]

StackWord(w, st, d) ==
  LET s == st.stack
      v == Views[w[2]]
      n == Len(v.params)
      column == CHOOSE i \in DOMAIN v.yields : v.yields[i] = w[3]
      result == ValueOf(IF w[1] \in {"neg", "not"} THEN <<w[1], <<"lit", FromTop(s, 1)>>>>
                        ELSE <<w[1], <<"lit", FromTop(s, 2)>>, <<"lit", FromTop(s, 1)>>>>, << >>)
      arity == IF w[1] \in {"neg", "not"} THEN 1 ELSE 2
  IN CASE st.flow # "on" -> st
       [] w[1] = "self" -> [st EXCEPT !.stack = Append(@, st.self)]
       [] w[1] = "lit" -> [st EXCEPT !.stack = Append(@, w[2])]
       [] w[1] = "dup" -> [st EXCEPT !.stack = Append(@, FromTop(s, 1))]
       [] w[1] = "drop" -> [st EXCEPT !.stack = Without(@, 1)]
       [] w[1] = "swap" -> [st EXCEPT !.stack = Without(@, 2) \o <<FromTop(s, 1), FromTop(s, 2)>>]
       [] w[1] = "rot" -> [st EXCEPT !.stack = Without(@, 3) \o <<FromTop(s, 2), FromTop(s, 1), FromTop(s, 3)>>]
       [] w[1] = "over" -> [st EXCEPT !.stack = Append(@, FromTop(s, 2))]
       [] w[1] = "nip" -> [st EXCEPT !.stack = Append(Without(@, 2), FromTop(s, 1))]
       [] w[1] = "tuck" -> [st EXCEPT !.stack = Without(@, 2) \o <<FromTop(s, 1), FromTop(s, 2), FromTop(s, 1)>>]
       [] w[1] = "twodup" -> [st EXCEPT !.stack = @ \o <<FromTop(s, 2), FromTop(s, 1)>>]
       [] w[1] = "twodrop" -> [st EXCEPT !.stack = Without(@, 2)]
       [] w[1] = "resolve" ->
            StackRow(st, n + 1, {t \in Meaning(v, SubSeq(s, Len(s) - n, Len(s) - 1), d) : Fits(w[4], t[column], FromTop(s, 1))})
       [] w[1] = "find" ->
            StackRow(st, w[3], {t \in DOMAIN d[w[2]] : SubSeq(t, 1, w[3]) = SubSeq(s, Len(s) - w[3] + 1, Len(s))})
       [] w[1] \in EffectOps ->
            [st EXCEPT !.stack = Without(@, Len(Columns[w[2]])),
                       !.patch[w[1]] = Append(@, <<w[2], SubSeq(s, Len(s) - Len(Columns[w[2]]) + 1, Len(s))>>)]
       [] OTHER -> IF IsFault(result) THEN [st EXCEPT !.flow = "fault"]
                   ELSE [st EXCEPT !.stack = Append(Without(@, arity), result)]

StackRun(arm, args, self, d) ==
  FoldLeft(LAMBDA st, w : StackWord(w, st, d),
           [flow |-> "on", stack |-> args, self |-> self, patch |-> EmptyPatch], arm.words)

(* The plan a word arm is lowered to does what its words do to a stack of  *)
(* values, whenever none of them faults (compile.rs lower_words).          *)
WordsMeanStack ==
  Tested("words") =>
    \A ops \in LowerWordArm(Subject.arm) :
      LET args == Subject.args
          initial == [x \in Range(Subject.arm.vars) |-> args[CHOOSE i \in DOMAIN args : Subject.arm.vars[i] = x]]
          run == Execute(ops, initial, Ent(1), World(Input), << >>)
          stack == StackRun(Subject.arm, args, Ent(1), Input)
      IN stack.flow # "fault" =>
           run = [flow |-> stack.flow, patch |-> IF stack.flow = "on" THEN stack.patch ELSE EmptyPatch]

-----------------------------------------------------------------------------
(* A message scheduled with a constructor is parsed to that constructor's  *)
(* value by the target's form, and an invertible constructor prints back   *)
(* the bindings it was built from (compile.rs render_actor_message, ir.rs  *)
(* CtorSpec).                                                              *)
FormsRoundTrip ==
  Tested("form") =>
    /\ \A tokens \in Rendered(Subject.form, Subject.tag, Input, LAMBDA v : v) :
         <<Subject.tag>> \o Input \in Range(ParseAll(Subject.form, tokens))
    /\ \A i \in DOMAIN Subject.form : LET r == Subject.form[i] IN
         \A k \in DOMAIN Run(<<"seq", r.seq>>, Input, 1) :
           LET b == Run(<<"seq", r.seq>>, Input, 1)[k].b
           IN IsInvertible(r) => PrintedBack(r, Build(r, b)) = {[x \in Range(r.args) |-> b[x]]}

(* How deep a term of a sort nests what counts. *)
RECURSIVE Deepest(_, _, _)
Deepest(sort, x, cells) ==
  IF sort = "raw" THEN 0
  ELSE LET layout == Layouts[sort][x[1]]
           under(i) == CASE layout[i][1] = "raw" -> {}
                         [] layout[i][1] = "one" -> {Deepest(layout[i][2], x[i + 1], cells)}
                         [] layout[i][1] = "many" -> {Deepest(layout[i][2], x[i + 1][k], cells) : k \in DOMAIN x[i + 1]}
           self == IF (sort = "cell") = cells /\ CountsDepth(sort, x[1]) THEN 1 ELSE 0
       IN self + Max({0} \cup UNION {under(i) : i \in DOMAIN layout})

DeepestIn(frame, xs, cells) ==
  Max({0} \cup UNION {CASE Frames[frame][i][1] = "one" -> {Deepest(Frames[frame][i][2], xs[i], cells)}
                        [] Frames[frame][i][1] = "many" -> {Deepest(Frames[frame][i][2], xs[i][k], cells) : k \in DOMAIN xs[i]}
                        [] OTHER -> {} : i \in DOMAIN Frames[frame]})

(* What was encoded decodes to itself exactly when it nests no deeper than *)
(* the format allows, and nothing that is cut short or goes on decodes     *)
(* (behavior.rs MAX_IR_DEPTH, wire.rs MAX_DEPTH).                          *)
CodeRoundTrips ==
  Tested("code") =>
    LET toks == Framed(Subject, Input)
        fits == DeepestIn(Subject, Input, TRUE) <= MaxDepth /\ DeepestIn(Subject, Input, FALSE) <= MaxIrDepth
    IN /\ Unframed(Subject, toks) = IF fits THEN {Input} ELSE {}
       /\ \A n \in 0 .. Len(toks) - 1 : Unframed(Subject, SubSeq(toks, 1, n)) = {}
       /\ Unframed(Subject, Append(toks, 0)) = {}

(* What is rendered or encoded comes back.                                 *)
RoundTrips == FormsRoundTrip /\ CodeRoundTrips

-----------------------------------------------------------------------------
(* A handler that compiles never fails for want of a local, of a type or   *)
(* of a name, whatever the world, and what it writes conforms to the       *)
(* schemas (compile.rs lower_stmts, behavior_ir.rs execute_ops).           *)
WellTypedRuns ==
  /\ \A w \in Workers : \A k \in DOMAIN jobs[w] :
       /\ jobs[w][k].run.flow # "stuck"
       /\ \A f \in WorldWrites(jobs[w][k].run.patch) : Conforms(Columns[f[1]], f[2])
  /\ \A rel \in DOMAIN Columns : \A t \in DOMAIN db[rel] : Conforms(Columns[rel], t)

(* A handler, or stored behaviour, checked against an authority never      *)
(* writes a relation it owns nothing of, by whichever arm, branch or       *)
(* capability (type/src/effect.rs check_handler_authority).                *)
EffectsBound ==
  \A w \in Workers : \A k \in DOMAIN jobs[w] : \A a \in Authorities :
    (\A rel \in jobs[w][k].writes : OwnsRelation(a, rel)) =>
      \A f \in WorldWrites(jobs[w][k].run.patch) : OwnsRelation(a, f[1])

(* Workers that race for one counter or stream leave it its single row,    *)
(* within its range, and no entity is made twice (behavior_ir.rs           *)
(* CapabilityFrame, proc/src/alloc.rs seal).                               *)
CapabilitiesStand ==
  /\ \A c \in DOMAIN Grants :
       CASE Grants[c].kind = "allocate" -> Counter(Grants[c], World(db)) # {}
         [] Grants[c].kind = "random" -> RngState(Grants[c], World(db)) # {}
         [] OTHER -> TRUE
  /\ \A t \in DOMAIN db[Births] :
       db[Births][t] = 1 /\ \A u \in DOMAIN db[Births] : u[1] = t[1] => u = t
=============================================================================
