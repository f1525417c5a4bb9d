------------------------------- MODULE World -------------------------------
(***************************************************************************)
(* The vocabulary of one grmpl world as the Ent store keeps it             *)
(* (crates/grmpl-ent/src/store.rs): branches, each a line of editions      *)
(* with the net weight of every fact, and the root record that names all   *)
(* of them.  Constant operators only; the modules about the store's        *)
(* behaviour instantiate the constants they share with this one.           *)
(*                                                                         *)
(* A root record (EntRoot) is every branch's whole state.  Each stage      *)
(* replaces one branch's entry in the branch enfilade, so a root record is *)
(* represented by the sequence of stages that built it: the newest stage   *)
(* of a branch is that branch's state.  One record is "older" than another *)
(* exactly when it is a prefix of it.                                      *)
(***************************************************************************)
EXTENDS Integers, SequencesExt

CONSTANTS
  MaxBranch,   (* bound on the branch ids the dag hands out              *)
  Facts,       (* (relation, tuple) pairs a commit may name              *)
  Patches,     (* the patches callers submit                             *)
  Shapes,      (* the default shapes a branch may have                   *)
  FreshShape   (* Shape::default()                                       *)

(* Branch ids: Dag::ROOT is 0 and fork() counts up from 1. *)
Root == 0
Branches == 0..MaxBranch

Weights == [Facts -> Int]

(* What one edition holds: the preconditions it was committed under (the   *)
(* patch log) and the net weight of every fact as of it (the Fact trees).  *)
Version == [pre : SUBSET Facts, facts : Weights]

(* A branch's state: the point it was forked from (the dag's record of     *)
(* it), its default shape, and its editions 1 .. current.                  *)
BranchState == [from : Branches \X Nat, shape : Shapes, log : Seq(Version)]
StageRecord == [branch : Branches, state : BranchState]

ASSUME WorldAssumption ==
  /\ MaxBranch \in Nat
  /\ Patches \subseteq [pre : SUBSET Facts, upd : Weights]
  /\ FreshShape \in Shapes

----------------------------------------------------------------------------
(* Reading a branch state.                                                 *)

Current(s) == Len(s.log)

FactsAt(s, e) == IF e = 0 THEN [f \in Facts |-> 0] ELSE s.log[e].facts

(* Inner::holds_now: a fact holds while its net weight is positive. *)
HoldsNow(s, f) == FactsAt(s, Current(s))[f] > 0

(* Inner::apply: the next edition nets the updates into the weights and    *)
(* records the preconditions in the patch log.                             *)
Applied(s, p) ==
  [s EXCEPT !.log =
     Append(@, [pre   |-> p.pre,
                facts |-> [f \in Facts |-> FactsAt(s, Current(s))[f] + p.upd[f]]])]

(* The state a fork of branch b at edition `at` starts from: the versions  *)
(* at or below it, every root shared.                                      *)
ForkedFrom(s, b, at) ==
  [s EXCEPT !.from = <<b, at>>, !.log = SubSeq(@, 1, at)]

----------------------------------------------------------------------------
(* Reading a root record.                                                  *)

StagesOf(w, b) == {i \in 1..Len(w) : w[i].branch = b}

(* The dag knows the root branch from the start, the others once forked.   *)
Known(w, b) == b = Root \/ StagesOf(w, b) # {}

EmptyState == [from |-> <<Root, 0>>, shape |-> FreshShape, log |-> << >>]

(* EntRoot::state: the branch as last staged, or a fresh one. *)
StateOf(w, b) ==
  IF StagesOf(w, b) = {} THEN EmptyState
  ELSE w[Max(StagesOf(w, b))].state

(* Dag::fork hands out one past the highest id on record. *)
NextBranch(w) == 1 + Max({b \in Branches : Known(w, b)})
============================================================================
