------------------------------- MODULE Codec -------------------------------
(***************************************************************************)
(* The two encodings: of values, schemas and messages                      *)
(* (crates/grmpl-core/src/wire.rs) and of stored behaviours, which embed   *)
(* values (crates/grmpl-lang/src/behavior.rs), as sequences of tokens: a   *)
(* tag, a count, or a scalar's bytes.                                      *)
(*                                                                         *)
(* A term of a sort is its tag followed by its fields.  A field is of a    *)
(* sort, or a counted list of one, or raw (one token).                     *)
(***************************************************************************)
EXTENDS Integers, Sequences, SequencesExt

CONSTANTS
  MaxDepth,     (* the deepest a value nests tuples: 64                   *)
  MaxIrDepth,   (* the deepest a stored behaviour nests: 256              *)
  Version       (* FORMAT_VERSION                                         *)

Raw == <<"raw">>
One(sort) == <<"one", sort>>
Many(sort) == <<"many", sort>>

RelationOp == <<Raw, Many("expr")>>

(* The fields of every tag of every sort, in order. *)
Layouts ==
  [cell |-> 1 :> <<Raw>> @@ 2 :> <<Raw>> @@ 3 :> <<Raw>> @@ 4 :> <<Raw>> @@ 5 :> <<Many("cell")>>
              @@ 6 :> <<Raw>> @@ 7 :> <<Raw>> @@ 8 :> <<Raw>>,
   column |-> [ty \in 1 .. 9 |-> <<Raw>>],
   row |-> <<<<Raw>>, <<One("cell")>>>>,
   pred |-> <<<<One("row"), One("row")>>, <<Many("pred")>>>>,
   expr |-> <<<<One("scalar")>>, <<One("truth")>>>>,
   scalar |-> <<<<Raw>>, <<One("cell")>>, <<Raw, Many("scalar")>>>>,
   truth |-> <<<<One("scalar")>>, <<One("compare"), One("scalar"), One("scalar")>>, <<One("truth")>>,
               <<One("truth"), One("truth")>>, <<One("truth"), One("truth")>>>>,
   compare |-> [op \in 0 .. 5 |-> << >>],
   match |-> [op \in 0 .. 1 |-> << >>],
   find |-> <<<<One("expr")>>, <<Raw>>, <<One("expr"), Raw>>>>,
   op |-> <<<<Raw, Many("expr"), Raw, One("match"), One("expr"), Many("raw")>>,
            <<Raw, Many("find")>>, <<Raw, One("expr")>>,
            <<One("truth"), Many("op"), Many("op")>>,
            RelationOp, RelationOp, RelationOp, RelationOp, <<Raw, Many("expr"), Many("raw")>>>>]

(* The fields of a framing, after the version. *)
Frames ==
  [behavior |-> <<One("pred"), Many("raw"), Many("op")>>,
   schema |-> <<Many("column")>>,
   message |-> <<Raw, Many("cell")>>]

-----------------------------------------------------------------------------
(* Encoding. *)

RECURSIVE Put(_, _), PutField(_, _)

PutFields(layout, xs) == FlattenSeq([i \in DOMAIN layout |-> PutField(layout[i], xs[i])])

Put(sort, x) == IF sort = "raw" THEN <<x>> ELSE <<x[1]>> \o PutFields(Layouts[sort][x[1]], Tail(x))

PutField(field, x) ==
  CASE field[1] = "raw" -> <<x>>
    [] field[1] = "one" -> Put(field[2], x)
    [] field[1] = "many" -> <<Len(x)>> \o FlattenSeq([i \in DOMAIN x |-> Put(field[2], x[i])])

Framed(frame, xs) == <<Version>> \o PutFields(Frames[frame], xs)

-----------------------------------------------------------------------------
(* Decoding, from a position and a depth: a set of none or one <<what was  *)
(* read, the position after it>>.                                          *)

(* Predicates, operations and expressions are counted together; tuples in  *)
(* values apart, from nothing in every literal.                            *)
CountsDepth(sort, tag) == sort \in {"pred", "expr", "scalar", "truth", "op"} \/ (sort = "cell" /\ tag = 5)

(* Defect: one level more than the limit. *)
BugTooDeep(sort, tag, depth) ==
  CountsDepth(sort, tag) /\ depth > (IF sort = "cell" THEN MaxDepth ELSE MaxIrDepth)

TooDeep(sort, tag, depth) ==
  CountsDepth(sort, tag) /\ depth >= (IF sort = "cell" THEN MaxDepth ELSE MaxIrDepth)

Inside(sort, tag, depth) == IF CountsDepth(sort, tag) THEN depth + 1 ELSE depth

RECURSIVE Get(_, _, _, _), GetField(_, _, _, _)

Token(toks, at) == IF at <= Len(toks) THEN {<<toks[at], at + 1>>} ELSE {}

GetMany(sort, n, toks, at, depth) ==
  FoldLeft(LAMBDA accs, i : UNION {{<<Append(acc[1], r[1]), r[2]>> : r \in Get(sort, toks, acc[2], depth)}
                                   : acc \in accs},
           {<<<< >>, at>>}, [i \in 1 .. n |-> i])

GetFields(layout, toks, at, depth) ==
  FoldLeft(LAMBDA accs, field : UNION {{<<Append(acc[1], r[1]), r[2]>> : r \in GetField(field, toks, acc[2], depth)}
                                       : acc \in accs},
           {<<<< >>, at>>}, layout)

Get(sort, toks, at, depth) ==
  IF sort = "raw" THEN Token(toks, at)
  ELSE UNION {IF t[1] \notin DOMAIN Layouts[sort] \/ TooDeep(sort, t[1], depth) THEN {}
              ELSE {<<<<t[1]>> \o r[1], r[2]>>
                    : r \in GetFields(Layouts[sort][t[1]], toks, t[2], Inside(sort, t[1], depth))}
              : t \in Token(toks, at)}

GetField(field, toks, at, depth) ==
  CASE field[1] = "raw" -> Token(toks, at)
    [] field = One("cell") -> Get("cell", toks, at, 0)
    [] field[1] = "one" /\ field[2] # "cell" -> Get(field[2], toks, at, depth)
    [] field[1] = "many" -> UNION {GetMany(field[2], n[1], toks, n[2], depth) : n \in Token(toks, at)}

(* The version first, and nothing after. *)
Unframed(frame, toks) ==
  IF toks = << >> \/ toks[1] # Version THEN {}
  ELSE {r[1] : r \in {x \in GetFields(Frames[frame], toks, 2, 0) : x[2] = Len(toks) + 1}}
=============================================================================
