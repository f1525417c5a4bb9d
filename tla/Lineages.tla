------------------------------ MODULE Lineages ------------------------------
(***************************************************************************)
(* The DagWood: every branch remembers the point it was forked from and,   *)
(* if it is a merge, the branch whose history was replayed into it and the *)
(* edition the replay ended at (crates/grmpl-ent/src/dag.rs).  A branch's  *)
(* id is above its parents'.                                               *)
(***************************************************************************)
EXTENDS Integers, FiniteSets, Sequences, SequencesExt, FiniteSetsExt

Root == 0
None == << >>

(* What a map holds once a key is bound in it.                             *)
Put(f, k, v) == [x \in DOMAIN f \cup {k} |-> IF x = k THEN v ELSE f[x]]

(* parent: <<branch, edition>> or None; merged: <<branch, at, since>> or   *)
(* None.                                                                   *)
NewDag == [b \in {Root} |-> [parent |-> None, merged |-> None]]

(* Ids are numbered from the root's, 0.                                    *)
NextId(dag) == Cardinality(DOMAIN dag)

Forked(dag, parent, at) ==
  Put(dag, NextId(dag), [parent |-> <<parent, at>>, merged |-> None])

Joined(dag, parent, at, other, otherAt, since) ==
  Put(dag, NextId(dag), [parent |-> <<parent, at>>, merged |-> <<other, otherAt, since>>])

StartOf(dag, b) == IF dag[b].parent = None THEN 0 ELSE dag[b].parent[2]

Absent == -1

(* lineage: for every branch, the highest edition of it that flows into    *)
(* the point, through first parents, and through a second parent from the  *)
(* edition its replay ended at.                                            *)
BugFlows(record, from, ed) ==
  (IF record.parent # None /\ record.parent[1] = from THEN {record.parent[2]} ELSE {})
  \cup (IF record.merged # None /\ record.merged[1] = from THEN {record.merged[2]} ELSE {})

Flows(record, from, ed) ==
  (IF record.parent # None /\ record.parent[1] = from THEN {record.parent[2]} ELSE {})
  \cup (IF record.merged # None /\ record.merged[1] = from /\ ed >= record.merged[3]
        THEN {record.merged[2]} ELSE {})

Lineage(dag, b, at) ==
  LET highest[br \in 0 .. b] ==
        IF br = b THEN at
        ELSE Max({Absent} \cup UNION {IF highest[c] = Absent THEN {} ELSE Flows(dag[c], br, highest[c])
                                        : c \in br + 1 .. b})
  IN [br \in DOMAIN dag |-> IF br <= b THEN highest[br] ELSE Absent]

(* is_ancestor: whether a lineage comes past a point.                      *)
Reaches(line, point) == line[point[1]] >= point[2]

(* Whether a branch holds what was written on another at an edition: it is *)
(* that branch, or was forked from one that holds it, late enough.         *)
BugInherits(dag, from, edition) ==
  LET holds[c \in DOMAIN dag] ==
        \/ c = from
        \/ /\ dag[c].parent # None
           /\ dag[c].parent[2] > edition
           /\ holds[dag[c].parent[1]]
  IN {c \in DOMAIN dag : holds[c]}

Inherits(dag, from, edition) ==
  LET holds[c \in DOMAIN dag] ==
        \/ c = from
        \/ /\ dag[c].parent # None
           /\ dag[c].parent[2] >= edition
           /\ holds[dag[c].parent[1]]
  IN {c \in DOMAIN dag : holds[c]}
=============================================================================
