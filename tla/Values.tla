------------------------------- MODULE Values -------------------------------
(***************************************************************************)
(* Cell values, their kinds and their order (crates/grmpl-core/src/        *)
(* value.rs), as integers in one band per kind: the order is first by kind *)
(* and then within it, as the derived order of Value is.  Floats, nested   *)
(* tuples and byte strings are left out.                                   *)
(***************************************************************************)
EXTENDS Integers, Sequences

CONSTANTS
  EntMax,  (* the greatest entity: 2^64 - 1                               *)
  IntMax   (* the greatest integer: 2^63 - 1; the least is - IntMax - 1   *)

ASSUME ValuesAssumption == EntMax \in 1 .. 99 /\ IntMax \in 1 .. 49

Ent(n) == n
Num(n) == 150 + n
Text(n) == 200 + n
Bool(b) == IF b THEN 301 ELSE 300
Code(n) == 400 + n

KindOf(v) == CASE v < 100 -> "Ent" [] v \in 100 .. 199 -> "Int" [] v \in 200 .. 299 -> "Text"
               [] v \in 300 .. 399 -> "Bool" [] v >= 400 -> "Code"

IntOf(v) == v - 150
IsInt(n) == - IntMax - 1 <= n /\ n <= IntMax
IsTrue(v) == v = 301

(* Ty::admits: Any is every kind. *)
AdmitsValue(ty, v) == ty \in {"Any", KindOf(v)}

(* The least value above every tuple led by v, where a kind has one: the   *)
(* greatest of a kind, a text and a truth value have none.                 *)
BugSuccessor(v) == CASE v = Ent(EntMax) -> {Ent(0)}
                     [] v = Num(IntMax) -> {Num(0 - IntMax - 1)}
                     [] KindOf(v) \in {"Ent", "Int"} -> {v + 1}
                     [] OTHER -> {}

Successor(v) ==
  IF KindOf(v) \in {"Ent", "Int"} /\ v \notin {Ent(EntMax), Num(IntMax)} THEN {v + 1} ELSE {}

(* Schema::check and is_additive_over: a schema is the sequence of its     *)
(* columns' types.                                                         *)
Conforms(schema, t) ==
  Len(t) = Len(schema) /\ \A i \in DOMAIN t : AdmitsValue(schema[i], t[i])
=============================================================================
