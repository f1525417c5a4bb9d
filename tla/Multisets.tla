----------------------------- MODULE Multisets -----------------------------
(***************************************************************************)
(* Weighted tuples, the value of a relation or of a query at one edition   *)
(* (crates/grmpl-diff/src/multiset.rs): a function from the tuples present *)
(* to weights that are never zero.  Tuples are sequences of integers,      *)
(* ordered lexicographically; columns are numbered from 1.                 *)
(***************************************************************************)
EXTENDS Integers, Sequences, FiniteSets, FiniteSetsExt, TLC

None == [t \in {} |-> 0]

Weight(m, t) == IF t \in DOMAIN m THEN m[t] ELSE 0

(* A multiset without its zero entries. *)
Stripped(ts, W(_)) == [t \in {u \in ts : W(u) # 0} |-> W(t)]

Merge(a, b) ==
  Stripped(DOMAIN a \cup DOMAIN b, LAMBDA t : Weight(a, t) + Weight(b, t))

Negated(m) == [t \in DOMAIN m |-> 0 - m[t]]

Difference(a, b) == Merge(a, Negated(b))

Restricted(m, Keep(_)) == [t \in {u \in DOMAIN m : Keep(u)} |-> m[t]]

(* The image of a multiset under a transform: equal images are summed. *)
Mapped(m, F(_)) ==
  Stripped({F(t) : t \in DOMAIN m},
           LAMBDA u : MapThenSumSet(LAMBDA t : m[t], {t \in DOMAIN m : F(t) = u}))

(* The set boundary: weight 1 for what has positive weight. *)
Present(m) == [t \in {u \in DOMAIN m : m[u] > 0} |-> 1]

(* The cells of a tuple in the columns given: a key, or a projection. *)
Cells(t, cols) == [i \in 1 .. Len(cols) |-> t[cols[i]]]

StartsWith(t, prefix) ==
  Len(t) >= Len(prefix) /\ SubSeq(t, 1, Len(prefix)) = prefix

(* The lexicographic order of tuples. *)
Before(s, t) ==
  \E n \in 0 .. Len(s) :
     /\ n < Len(t) /\ SubSeq(s, 1, n) = SubSeq(t, 1, n)
     /\ n = Len(s) \/ s[n + 1] < t[n + 1]

InSpan(t, lo, hi) == ~ Before(t, lo) /\ Before(t, hi)
============================================================================
