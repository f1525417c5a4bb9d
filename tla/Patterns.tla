------------------------------ MODULE Patterns ------------------------------
(***************************************************************************)
(* Patterns over sequences of values (crates/grmpl-pattern/src/lib.rs) and *)
(* the grammars made of them (forms in crates/grmpl-lang/src/compile.rs,   *)
(* constructors in ir.rs).                                                 *)
(*                                                                         *)
(* A pattern is <<"lit", v>>, <<"bind", x>>, <<"seq", ps>>,                *)
(* <<"choice", ps>>, <<"repeat", p>> or <<"guard", p, g>>.  A parse is the *)
(* variables bound and the position reached; the order and number of equal *)
(* parses are kept, the first of them being the one a handler takes.       *)
(***************************************************************************)
EXTENDS Integers, Sequences, FiniteSets, SequencesExt

CONSTANT Guard(_, _)  (* whether a guard accepts bindings *)

Parse(b, at) == [b |-> b, at |-> at]
Extended(b, c) == c @@ b

(* The parses of every pattern of a sequence continue those before it.     *)
Continued(parses, Run(_)) ==
  FlattenSeq([i \in DOMAIN parses |->
    [j \in DOMAIN Run(parses[i].at) |->
       Parse(Extended(parses[i].b, Run(parses[i].at)[j].b), Run(parses[i].at)[j].at)]])

(* A repetition's iterations must each consume something. *)
Progress(parses, at) == SelectSeq(parses, LAMBDA p : p.at > at)

RECURSIVE Run(_, _, _), Repeated(_, _, _)

(* All parses of a pattern, as a sequence, from a position of the input.   *)
Run(p, input, at) ==
  CASE p[1] = "lit" -> IF at <= Len(input) /\ input[at] = p[2] THEN <<Parse(<< >>, at + 1)>> ELSE << >>
    [] p[1] = "bind" -> IF at <= Len(input) THEN <<Parse(p[2] :> input[at], at + 1)>> ELSE << >>
    [] p[1] = "seq" -> FoldLeft(LAMBDA parses, q : Continued(parses, LAMBDA i : Run(q, input, i)),
                                <<Parse(<< >>, at)>>, p[2])
    [] p[1] = "choice" -> FlattenSeq([i \in DOMAIN p[2] |-> Run(p[2][i], input, at)])
    [] p[1] = "repeat" -> Repeated(p[2], input, <<Parse(<< >>, at)>>)
    [] p[1] = "guard" -> SelectSeq(Run(p[2], input, at), LAMBDA r : Guard(p[3], r.b))

(* Every number of iterations: those that stop here, then those that go on.*)
Repeated(p, input, frontier) ==
  IF frontier = << >> THEN << >>
  ELSE frontier \o Repeated(p, input,
         Continued(frontier, LAMBDA i : Progress(Run(p, input, i), i)))

-----------------------------------------------------------------------------
(* Constructors: a tag and the variable filling each slot. *)

Build(ctor, b) ==
  <<ctor.tag>> \o [i \in DOMAIN ctor.args |->
                     IF ctor.args[i] \in DOMAIN b THEN b[ctor.args[i]] ELSE ""]

IsInvertible(ctor) == IsInjective(ctor.args)

(* print: the bindings a value was built from, a set of none or one; of    *)
(* two slots one variable fills, the later is read.                        *)
SlotOf(ctor, x) ==
  CHOOSE i \in DOMAIN ctor.args :
    ctor.args[i] = x /\ \A j \in DOMAIN ctor.args : ctor.args[j] = x => j <= i

PrintedBack(ctor, v) ==
  IF Len(v) = Len(ctor.args) + 1 /\ v[1] = ctor.tag
  THEN {[x \in Range(ctor.args) |-> v[SlotOf(ctor, x) + 1]]}
  ELSE {}

-----------------------------------------------------------------------------
(* Forms: a sequence of rules, each the atoms <<"lit", v>> and             *)
(* <<"bind", x>> of its pattern and the constructor it builds.             *)

(* form_ir: a constructor may use only what its pattern binds.             *)
FormAllowed(form) ==
  \A i \in DOMAIN form : \A j \in DOMAIN form[i].args : <<"bind", form[i].args[j]>> \in Range(form[i].seq)

(* parse_in and parse_all_in, over all rules in order.                     *)
ParseIn(form, input) ==
  FlattenSeq([i \in DOMAIN form |->
    LET parses == Run(<<"seq", form[i].seq>>, input, 1)
    IN [j \in DOMAIN parses |-> [value |-> Build(form[i], parses[j].b), at |-> parses[j].at]]])

ParseAll(form, input) ==
  LET whole == SelectSeq(ParseIn(form, input), LAMBDA p : p.at > Len(input))
  IN [i \in DOMAIN whole |-> whole[i].value]

(* render_actor_message: the tokens from which the only constructor of a   *)
(* tag with these arguments is parsed, a set of none or one.               *)
Rendered(form, tag, args, Lifted(_)) ==
  LET fits(r) == /\ r.tag = tag /\ Len(r.args) = Len(args) /\ IsInvertible(r)
                 /\ \A a \in Range(r.seq) : a[1] = "bind" => a[2] \in Range(r.args)
      rules == SelectSeq(form, fits)
      cell(a) == IF a[1] = "lit" THEN Lifted(a[2])
                 ELSE args[CHOOSE k \in DOMAIN args : rules[1].args[k] = a[2]]
  IN IF Len(rules) = 1 THEN {[i \in DOMAIN rules[1].seq |-> cell(rules[1].seq[i])]} ELSE {}

(* reify_delta: an update as the value a pattern matches: its sign, its    *)
(* tuple and its edition.                                                  *)
Reified(u) == <<IF u.diff > 0 THEN 1 ELSE IF u.diff < 0 THEN 0 - 1 ELSE 0, u.tuple, u.edition>>
=============================================================================
