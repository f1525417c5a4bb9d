----------------------------- MODULE Dictionary -----------------------------
(***************************************************************************)
(* What a relation's Fact tree promises, whatever its shape: a net weight  *)
(* for each tuple present, and keys reserved that hold no tuple            *)
(* (crates/grmpl-ent/src/lib.rs and store.rs, fold_fact and graft).        *)
(***************************************************************************)
EXTENDS Spans

CONSTANTS
  Tuples,   (* what may be written                                         *)
  Diffs,    (* the weights of an update                                    *)
  Holes,    (* the holes that may be reserved                              *)
  Blocks    (* the copies that may be asked for: [lo, hi, by]              *)

VARIABLES
  rows,     (* the tuples present, with their weights: a Multiset          *)
  held      (* the keys reserved                                           *)

dict == <<rows, held>>

Init == held = {}

(* An update: weights net, a tuple at zero is gone, and a tuple written at *)
(* a reserved key takes it.                                                *)
Update(t, d) ==
  \E net \in {Merge(rows, t :> d)} : rows' = net /\ held' = held \ DOMAIN net

(* Keys are reserved only if nothing lies from the first to the last.      *)
Clear(first, last) ==
  \A k \in DOMAIN rows \cup held : Before(k, first) \/ Before(last, k)

ReserveFree(hole) ==
  /\ Clear(hole.first, LastRow(hole))
  /\ held' = held \cup KeysOf(hole)
  /\ UNCHANGED rows

(* A block of the lead column is copied: every entity in a copied key      *)
(* moves, so none may lie outside the block, and the target is free.       *)
InBlock(keys, b) == {k \in keys : InSpan(k, <<b.lo>>, <<b.hi>>)}

Local(k, b) == \A c \in DOMAIN k : KindOf(k[c]) = "Ent" => k[c] \in b.lo .. b.hi - 1

Copied(b) ==
  LET copies == {k \in InBlock(DOMAIN rows, b) : TRUE}
      moved == [k \in {Displaced(j, b.by) : j \in copies} |->
                  rows[CHOOSE j \in copies : Displaced(j, b.by) = k]]
  IN /\ \A k \in copies : Local(k, b)
     /\ InBlock(DOMAIN rows \cup held, [lo |-> b.lo + b.by, hi |-> b.hi + b.by]) = {}
     /\ rows' = moved @@ rows
     /\ held' = held \cup {Displaced(k, b.by) : k \in InBlock(held, b)}

Next ==
  \/ \E t \in Tuples, d \in Diffs : Update(t, d)
  \/ \E h \in Holes : ReserveFree(h)
  \/ \E b \in Blocks : Copied(b)

Spec == Init /\ [][Next]_dict
=============================================================================
