----------------------------- MODULE MCLanguage -----------------------------
(***************************************************************************)
(* A small package: things in places, with names, scores and moods; views  *)
(* of every shape; actors with handlers in both notations; behaviours      *)
(* stored in the world.                                                    *)
(***************************************************************************)
EXTENDS Language

Mood == Text(5)
MCHasWord(have, want) == have = Text(3) /\ want = Text(1)   \* three: "one fish"
MCTemps == <<"t1", "t2", "t3", "t4", "t5", "t6", "t7", "t8">>
MCShift(s) == <<2, 4, 6, 3, 1, 7, 5>>[s]
MCScramble(s) == (s * 5) % RngWords
MCGuard(g, b) == TRUE

MCColumns ==
  [loc |-> <<"Ent", "Ent">>, name |-> <<"Ent", "Text">>, score |-> <<"Ent", "Int">>,
   flag |-> <<"Ent", "Bool">>, scope |-> <<"Ent", "Ent", "Text", "Any">>,
   made |-> <<"Ent", "Ent">>, seq |-> <<"Int">>, rng |-> <<"Ent", "Int">>,
   timers |-> <<"Int", "Int", "Ent">>, direct |-> <<"Ent", "Code">>, proto |-> <<"Ent", "Ent">>,
   said |-> <<"Ent", "Text">>, nearCopy |-> <<"Ent", "Ent", "Text">>,
   bestCopy |-> <<"Text", "Ent", "Int">>, cursors |-> <<"Text", "Int">>]

WorldOf(facts) ==
  [rel \in DOMAIN MCColumns |-> [t \in {f[2] : f \in {g \in facts : g[1] = rel}} |-> 1]]

-----------------------------------------------------------------------------
(* Views. *)

X(x) == <<"var", x>>
L(v) == <<"lit", v>>
Atom(rel, args) == [rel |-> rel, inherit |-> FALSE, args |-> args]
InheritMood(e, value) == [rel |-> "scope", inherit |-> TRUE, args |-> <<e, L(Mood), value>>]
View(params, atoms, yields) == [params |-> params, atoms |-> atoms, yields |-> yields, agg |-> << >>]

MCEntityOf == [limbo |-> Ent(EntMax)]
MCContexts == {"scope"}

MCViews ==
  [near |-> View(<<"me">>, <<Atom("loc", <<X("me"), X("r")>>), Atom("loc", <<X("e"), X("r")>>),
                             Atom("name", <<X("e"), X("n")>>)>>, <<"e", "n">>),
   loops |-> View(<< >>, <<Atom("loc", <<X("e"), X("e")>>)>>, <<"e">>),
   peak |-> View(<< >>, <<Atom("score", <<X("e"), L(Num(IntMax))>>)>>, <<"e">>),
   middle |-> View(<< >>, <<Atom("score", <<X("e"), L(Num(0))>>), Atom("loc", <<X("e"), X("r")>>)>>, <<"r">>),
   lost |-> View(<< >>, <<Atom("loc", <<X("e"), X("limbo")>>)>>, <<"e">>),
   best |-> [View(<<"t">>, <<Atom("name", <<X("e"), X("t")>>), Atom("loc", <<X("e"), X("r")>>),
                             Atom("score", <<X("e"), X("s")>>)>>, <<"r">>)
               EXCEPT !.agg = <<[fn |-> "max", var |-> "s"]>>],
   crowd |-> [View(<< >>, <<Atom("loc", <<X("e"), X("r")>>)>>, <<"r">>)
                EXCEPT !.agg = <<[fn |-> "count", var |-> ""]>>],
   mood |-> View(<< >>, <<Atom("name", <<X("e"), X("n")>>), InheritMood(X("e"), X("m"))>>, <<"e", "m">>),
   mooded |-> View(<<"m">>, <<Atom("name", <<X("e"), X("n")>>), InheritMood(X("e"), X("m"))>>, <<"e">>),
   home |-> View(<< >>, <<Atom("loc", <<X("e"), X("r")>>), InheritMood(X("e"), X("r"))>>, <<"e">>),
   calm |-> View(<< >>, <<Atom("name", <<X("e"), X("n")>>), InheritMood(X("e"), L(Text(1)))>>, <<"n">>)]

MCBacking == [near |-> "nearCopy", best |-> "bestCopy"]

MCTest(p, t) == Test(p, t)

(* Every tuple a test world may hold. *)
Facts ==
  {<<"loc", <<0, 3>>>>, <<"loc", <<1, 3>>>>, <<"loc", <<1, 1>>>>, <<"loc", <<2, 2>>>>,
   <<"name", <<0, Text(1)>>>>, <<"name", <<1, Text(1)>>>>, <<"name", <<2, Text(3)>>>>,
   <<"score", <<1, Num(0)>>>>, <<"score", <<1, Num(IntMax)>>>>, <<"score", <<0, Num(0 - IntMax - 1)>>>>,
   <<"scope", <<0, 2, Mood, Text(1)>>>>, <<"scope", <<1, 2, Mood, Text(2)>>>>, <<"scope", <<1, 1, Mood, 3>>>>,
   <<"direct", <<1, Code(1)>>>>, <<"proto", <<0, 1>>>>, <<"proto", <<1, 0>>>>, <<"proto", <<2, 0>>>>}

WorldsOver(rels) == {WorldOf(facts) : facts \in SUBSET {f \in Facts : f[1] \in rels}}

ArgsOf(name) == CASE name = "near" -> {<<0>>, <<1>>}
                  [] name = "best" -> {<<Text(1)>>}
                  [] name = "mooded" -> {<<Text(2)>>, <<3>>}
                  [] OTHER -> {<< >>}

(* Plans to type: a recursion that swaps columns of different types, the   *)
(* stored behaviours' recursion, a union, a fold, literals, a scope.       *)
RelQ(rel) == [op |-> "rel", in |-> << >>, rel |-> rel]
Swapped(q) == [op |-> "map", in |-> <<q>>, f |-> <<Col(2), Col(1)>>]
TypedPlans ==
  {[op |-> "iterate", in |-> <<RelQ("name"), Swapped([op |-> "recur", in |-> << >>])>>],
   ImplementsIr("direct", "proto"),
   [op |-> "union", in |-> <<RelQ("loc"), Swapped(RelQ("name"))>>],
   [op |-> "reduce", in |-> <<RelQ("score")>>, key |-> <<1>>, agg |-> [fn |-> "min", col |-> 2]],
   [op |-> "map", in |-> <<RelQ("loc")>>, f |-> <<Col(2), Lit(Text(1))>>],
   [op |-> "inherit", in |-> <<RelQ("name")>>, col |-> 1, key |-> Mood, ctx |-> "scope"]}

-----------------------------------------------------------------------------
(* Word arms. *)

WordArm(xs, words) == [tag |-> "word", vars |-> xs, words |-> words]
Self == <<"self">>

WordArms ==
  {WordArm(<<"x">>, <<Self, <<"find", "loc", 1>>, <<"rot">>, <<"nip">>, <<"assert", "name">>>>),
   WordArm(<<"x", "y">>, <<Self, <<"tuck">>, <<"swap">>, <<"assert", "name">>, <<"swap">>, <<"retract", "name">>>>),
   WordArm(<<"x">>, <<Self, <<"swap">>, <<"resolve", "near", "n", "word">>, <<"over">>, <<"drop">>, <<"twodup">>,
                      <<"emit", "said">>, <<"twodrop">>>>),
   WordArm(<<"x">>, <<<<"drop">>, Self, <<"find", "score", 1>>, <<"dup">>, L(Num(2)), <<"sub">>, <<"neg">>, <<"lt">>,
                      <<"not">>, <<"assert", "flag">>>>),
   WordArm(<< >>, <<Self, <<"find", "loc", 1>>, <<"retract", "loc">>>>),
   WordArm(<< >>, <<Self, Self, <<"find", "loc", 2>>, <<"expect", "loc">>>>),
   WordArm(<< >>, <<Self, <<"find", "score", 1>>, L(Num(1)), <<"swap">>, <<"rem">>, <<"assert", "score">>>>)}

-----------------------------------------------------------------------------
(* Forms. *)

Rule(tag, seq, args) == [tag |-> tag, seq |-> seq, args |-> args]
MCForms ==
  [verbs |-> <<Rule("take", <<L(Text(1)), <<"bind", "w">>>>, <<"w">>),
               Rule("spawn", <<L(Text(2)), <<"bind", "w">>>>, <<"w">>),
               Rule("roll", <<L(Text(4))>>, << >>),
               Rule("remind", <<L(Text(6)), <<"bind", "w">>>>, <<"w">>)>>,
   gifts |-> <<Rule("give", <<<<"bind", "a">>, L(Text(1)), <<"bind", "b">>>>, <<"b", "a">>),
               Rule("twice", <<<<"bind", "a">>, <<"bind", "a">>>>, <<"a", "a">>),
               Rule("once", <<L(Text(2)), <<"bind", "a">>>>, <<"a">>)>>]

Inputs12 == [1 .. 1 -> {Text(1), Text(2)}] \cup [1 .. 2 -> {Text(1), Text(2)}] \cup [1 .. 3 -> {Text(1), Text(2)}]

-----------------------------------------------------------------------------
(* Handlers. *)

Let(x, e) == [is |-> "let", name |-> x, value |-> e]
If(c, then, else) == [is |-> "if", cond |-> c, then |-> then, else |-> else]
Effect(is, rel, args) == [is |-> is, rel |-> rel, args |-> args]
FindIn(rel, args) == [is |-> "find", rel |-> rel, args |-> args]
Arm(tag, xs, stmts) == [tag |-> tag, vars |-> xs, stmts |-> stmts]
On(form, arms, words) == [form |-> form, arms |-> arms, words |-> words]

Take ==
  Arm("take", <<"w">>,
      <<[is |-> "resolve", view |-> "near", args |-> <<X("self")>>, col |-> "n", match |-> "word", rhs |-> X("w")],
        FindIn("loc", <<X("e"), X("r")>>), Effect("expect", "loc", <<X("e"), X("r")>>),
        Effect("retract", "loc", <<X("e"), X("r")>>), Effect("assert", "loc", <<X("e"), X("self")>>)>>)

Spawn ==
  Arm("spawn", <<"w">>,
      <<[is |-> "fresh", cap |-> "ids", local |-> "k"], Effect("assert", "made", <<X("k"), X("self")>>),
        If(<<"eq", X("w"), L(Text(1))>>,
           <<[is |-> "fresh", cap |-> "ids", local |-> "z"], Effect("assert", "made", <<X("z"), X("k")>>)>>,
           <<Effect("assert", "name", <<X("k"), X("w")>>)>>)>>)

Roll ==
  Arm("roll", << >>,
      <<[is |-> "random", cap |-> "dice", bound |-> L(Num(3)), local |-> "d"],
        FindIn("score", <<X("self"), X("s")>>), Let("sum", <<"add", X("s"), X("d")>>),
        If(<<"and", <<"gt", X("d"), L(Num(0))>>, <<"not", <<"eq", X("s"), X("sum")>>>>>>,
           <<[is |-> "random", cap |-> "dice", bound |-> X("d"), local |-> "f"],
             Effect("expect", "score", <<X("self"), X("s")>>), Effect("retract", "score", <<X("self"), X("s")>>),
             Effect("assert", "score", <<X("self"), X("sum")>>)>>,
           <<Effect("emit", "said", <<X("self"), L(Text(2))>>)>>)>>)

Remind ==
  Arm("remind", <<"w">>,
      <<[is |-> "schedule", cap |-> "clock", target |-> Text(9), due |-> L(Num(2)), tag |-> "take", args |-> <<X("w")>>]>>)

(* Refused: a branch's local outside it, a wrong type, a name bound twice. *)
Leaking ==
  Arm("take", <<"w">>,
      <<If(<<"eq", X("w"), L(Text(1))>>, <<Let("y", X("w"))>>, << >>), Effect("assert", "name", <<X("self"), X("y")>>)>>)
Untyped == Arm("take", <<"w">>, <<Effect("assert", "score", <<X("self"), X("w")>>)>>)
Rebinding == Arm("take", <<"w">>, <<Let("w", X("w"))>>)

GiveWords == [tag |-> "give", vars |-> <<"b", "a">>,
              words |-> <<<<"drop">>, Self, <<"swap">>, <<"over">>, <<"over">>, <<"assert", "name">>, <<"emit", "said">>>>]

Scope(rel) == [rel |-> rel, range |-> {}]
Everything == {Scope(rel) : rel \in DOMAIN MCColumns}

MCOns ==
  <<On("verbs", <<Take, Spawn, Roll, Remind>>, << >>), On("gifts", << >>, <<GiveWords>>),
    On("verbs", <<Leaking>>, << >>), On("verbs", <<Untyped>>, << >>), On("verbs", <<Rebinding>>, << >>)>>

MCOwner ==
  [i \in DOMAIN MCOns |->
     [self |-> IF i = 2 THEN Ent(3) ELSE Ent(0),
      authority |-> IF i = 2 THEN {[rel |-> "name", range |-> {[col |-> 1, lo |-> 0, hi |-> 2]}]} ELSE Everything]]

MCBodies ==
  [i \in DOMAIN MCOns |->
     IF i = 2 THEN {<<Text(2), Text(1), Text(3)>>, <<Text(1), Text(2)>>}
     ELSE {<<Text(1), Text(1)>>, <<Text(1), Text(2)>>, <<Text(2), Text(1)>>, <<Text(2), Text(2)>>, <<Text(4)>>,
           <<Text(6), Text(1)>>}]

MCActorInbox == Text(9) :> 1
MCCapabilities ==
  [ids |-> [kind |-> "allocate", rel |-> "seq"], dice |-> [kind |-> "random", rel |-> "rng"],
   clock |-> [kind |-> "schedule", rel |-> "timers"]]
MCGrants ==
  [ids |-> [kind |-> "allocate", rel |-> "seq", first |-> 1, last |-> 2],
   dice |-> [kind |-> "random", rel |-> "rng", owner |-> Ent(0)],
   clock |-> [kind |-> "schedule", rel |-> "timers", targets |-> (Text(9) :> [inbox |-> Num(1), entity |-> Ent(0)])]]

(* Behaviours made from words, as from_words makes them. *)
Behaviour(guard, params, words) ==
  [guard |-> guard, params |-> params,
   ops |-> CHOOSE ops \in LowerWords(words, params, [i \in DOMAIN params |-> "Text"]) : TRUE]

MCStored ==
  (Code(1) :> Behaviour(Eq(Col(1), Lit(Text(1))), <<"m">>, <<Self, <<"swap">>, <<"assert", "name">>>>))
    @@ (Code(2) :> Behaviour(And(<< >>), <<"m">>, <<Self, <<"swap">>, <<"emit", "said">>>>))

MCInstalls == {<<Ent(3), Code(2)>>, <<Ent(0), Code(2)>>, <<Ent(0), Code(3)>>}
MCReceivers == (Ent(0) :> {<<Text(1)>>, <<Text(2)>>, <<Text(1), Text(1)>>}) @@ (Ent(2) :> {<<Text(1)>>})

MCBootstrap ==
  WorldOf({<<"loc", <<0, 3>>>>, <<"loc", <<3, 3>>>>, <<"name", <<3, Text(3)>>>>, <<"score", <<0, Num(1)>>>>,
           <<"seq", <<Num(1)>>>>, <<"rng", <<0, Num(1)>>>>, <<"direct", <<3, Code(1)>>>>,
           <<"proto", <<0, 3>>>>, <<"direct", <<2, Code(4)>>>>})

MCAuthorities == {{Scope(rel) : rel \in rels} : rels \in SUBSET {"made", "name", "loc", "seq", "rng", "score", "timers"}}

-----------------------------------------------------------------------------
(* Terms of the codec, nested below, at and beyond the limits. *)

RECURSIVE Tuples(_), Nots(_)
Tuples(n) == IF n = 0 THEN <<2, 7>> ELSE <<5, <<<<1, 7>>, Tuples(n - 1)>>>>
Nots(n) == IF n = 0 THEN <<1, <<1, 7>>>> ELSE <<3, Nots(n - 1)>>

MCBehaviours ==
  {<<<<2, << >>>>, <<3>>, <<op>>>> :
     op \in {<<3, 1, <<2, Nots(n)>>>> : n \in 0 .. MaxIrDepth}
              \cup {<<3, 1, <<1, <<2, Tuples(n)>>>>>> : n \in 0 .. MaxDepth + 1}
              \cup {<<4, Nots(0), <<<<5, 1, << >>>>>>, << >>>>, <<2, 1, <<<<2, 4>>, <<3, <<1, <<1, 7>>>>, 4>>>>>>,
                    <<1, 6, << >>, 2, <<1>>, <<1, <<1, 5>>>>, <<3, 4>>>>}}
    \cup {<<<<1, <<1, 1>>, <<2, <<1, 2>>>>>>, << >>, << >>>>}

CodecInputs(frame) ==
  CASE frame = "behavior" -> MCBehaviours
    [] frame = "schema" -> {<<<<>>>>, <<<<<<2, 8>>>>>>}
    [] frame = "message" -> {<<9, <<Tuples(n)>>>> : n \in 0 .. MaxDepth + 1}

-----------------------------------------------------------------------------
(* The subjects and their inputs. *)

Case(kind, of) == [kind |-> kind, of |-> of]

MCSubjects ==
  UNION {{Case("view", <<name, args>>) : args \in ArgsOf(name)} : name \in DOMAIN MCViews}
    \cup {Case("plan", q) : q \in TypedPlans}
    \cup {Case("words", [arm |-> arm, args |-> args]) : <<arm, args>> \in
            {p \in WordArms \X (Inputs12 \cup {<< >>}) : Len(p[1].vars) = Len(p[2])}}
    \cup {Case("form", [form |-> MCForms.gifts, tag |-> tag]) : tag \in {"give", "twice", "once"}}
    \cup {Case("code", frame) : frame \in DOMAIN Frames}

MCInputs(s) ==
  CASE s.kind = "view" -> WorldsOver({MCViews[s.of[1]].atoms[i].rel : i \in DOMAIN MCViews[s.of[1]].atoms})
    [] s.kind = "plan" -> WorldsOver(BaseRelations(s.of))
    [] s.kind = "words" -> WorldsOver({"loc", "name", "score"})
    [] s.kind = "form" -> Inputs12
    [] s.kind = "code" -> CodecInputs(s.of)

Symmetry == Permutations(Workers)
=============================================================================
