---------------------------- MODULE DurableWorld ---------------------------
(***************************************************************************)
(* What the Ent store promises its callers, with no queue, no leader and   *)
(* no locks: one history of root records, each the previous one with one   *)
(* lawful stage added; a part of it that survives a crash, which only      *)
(* grows; and answers given only for stages in that part.                  *)
(***************************************************************************)
EXTENDS World

VARIABLES
  history,   (* every stage, in order                     *)
  hardened,  (* how many of them a crash is sure to leave *)
  answered   (* stages whose call returned Ok             *)

hvars == <<history, hardened, answered>>

Init == history = << >> /\ hardened = 0 /\ answered = {}

(* The patch-edition law: an edition is one whole patch, its preconditions *)
(* holding in the edition before it.                                       *)
LawfulCommit(w, b, s) ==
  \E p \in Patches : /\ \A f \in p.pre : HoldsNow(StateOf(w, b), f)
                     /\ s = Applied(StateOf(w, b), p)

(* A branch may change shape only while nothing is written in it. *)
LawfulReshape(w, b, s) ==
  \E shape \in Shapes : /\ Current(StateOf(w, b)) = 0
                        /\ s = [StateOf(w, b) EXCEPT !.shape = shape]

(* A new branch starts from some known branch's past. *)
LawfulFork(w, b, s) ==
  \E parent \in Branches : \E at \in 0..Current(StateOf(w, parent)) :
    Known(w, parent) /\ s = ForkedFrom(StateOf(w, parent), parent, at)

(* One stage is added: the next of a known branch, or the first of the     *)
(* next one.                                                               *)
Lawful(w, b, s) ==
  \/ Known(w, b) /\ (LawfulCommit(w, b, s) \/ LawfulReshape(w, b, s))
  \/ b = NextBranch(w) /\ LawfulFork(w, b, s)

Allocate ==
  /\ Len(history') = Len(history) + 1 /\ IsPrefix(history, history')
  /\ Lawful(history, Last(history').branch, Last(history').state)
  /\ UNCHANGED <<hardened, answered>>

Harden ==
  /\ hardened' \in hardened..Len(history)
  /\ UNCHANGED <<history, answered>>

Answer ==
  /\ \E i \in 1..hardened : answered' = answered \cup {history[i]}
  /\ UNCHANGED <<history, hardened>>

Crash ==
  \E n \in hardened..Len(history) :
    /\ history' = SubSeq(history, 1, n)
    /\ hardened' = n
    /\ UNCHANGED answered

Next == Allocate \/ Harden \/ Answer \/ Crash
Spec == Init /\ [][Next]_hvars
============================================================================
