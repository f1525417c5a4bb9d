--------------------------- MODULE BranchesProofs ---------------------------
(***************************************************************************)
(* Proofs about branches: that what a branch keeps reads as it was         *)
(* committed, that its copies can be traced and its watchers miss nothing, *)
(* and that what a lineage comes past is in the point it leads to.         *)
(*                                                                         *)
(* BInv is one statement per branch, Good: what it keeps has its shape,    *)
(* its trees are those told and its log adds up to their differences, each *)
(* copy has its span and its source, each write above a registration was   *)
(* routed.  Commits, grafts, forks and consolidations preserve Good, and a *)
(* replay does because each patch of it is a commit or a graft (Grown).    *)
(*                                                                         *)
(* AInv adds what branches are to each other: Rooted, who was forked and   *)
(* merged from where; Shares and Absorbs, what came along; OnRecord and    *)
(* FromAPoint, where each edition was first made.  A lineage is then       *)
(* followed down from a point, branch by branch.                           *)
(***************************************************************************)
EXTENDS Branches, FiniteSetTheorems, WellFoundedInduction, TLAPS

NatLess == {ss \in Nat \X Nat : ss[1] < ss[2]}

(* Numbers are well ordered: a set of them has a least one. *)
LEMMA LeastExists ==
  ASSUME NEW T \in SUBSET Nat, T # {}
  PROVE  \E x \in T : \A y \in T : x <= y
<1>1. IsWellFoundedOn(NatLess, Nat)
  BY NatLessThanWellFounded DEF OpToRel, NatLess
<1>2. \E t \in T : \A u \in T : ~ (<<u, t>> \in NatLess)
  <2> HIDE DEF NatLess
  <2> QED BY <1>1, WFMin, Zenon
<1>3. PICK t \in T : \A u \in T : ~ (<<u, t>> \in NatLess)
  BY <1>2, Zenon
<1>4. ASSUME NEW u \in T PROVE t <= u
  <2>1. t \in Nat /\ u \in Nat /\ <<u, t>> \in Nat \X Nat
    OBVIOUS
  <2>2. ~ (u < t)
    BY <1>3, <2>1 DEF NatLess
  <2> QED BY <2>1, <2>2
<1> QED
  BY <1>4

(* Numbers that stay below a bound have a greatest one. *)
LEMMA GreatestExists ==
  ASSUME NEW T \in SUBSET Int, T # {}, NEW n \in Int, \A x \in T : x <= n
  PROVE  Max(T) \in T /\ \A y \in T : y <= Max(T)
<1> DEFINE S == {n - x : x \in T}
<1>1. S \in SUBSET Nat /\ S # {}
  <2>1. \A x \in T : n - x \in Nat
    OBVIOUS
  <2> QED BY <2>1
<1>2. PICK m \in S : \A k \in S : m <= k
  <2> HIDE DEF S
  <2> QED BY <1>1, LeastExists
<1>3. PICK x \in T : m = n - x
  OBVIOUS
<1>4. \A y \in T : x >= y
  <2>1. ASSUME NEW y \in T PROVE x >= y
    <3>1. n - y \in S
      OBVIOUS
    <3>2. m <= n - y
      BY <1>2, <3>1
    <3> QED BY <1>3, <3>2
  <2> QED BY <2>1
<1> QED
  BY <1>4 DEF Max

(* What is said of the first of some numbers, and of each one after        *)
(* another, is said of them all.                                           *)
LEMMA EachAfterAnother ==
  ASSUME NEW n \in Nat, NEW T, 0 \in T, \A i \in 1 .. n : i - 1 \in T => i \in T
  PROVE  0 .. n \subseteq T
<1> DEFINE S == (0 .. n) \ T
<1>1. ASSUME S # {} PROVE FALSE
  <2>1. PICK i \in S : \A j \in S : i <= j
    <3>1. S \in SUBSET Nat
      OBVIOUS
    <3> HIDE DEF S
    <3> QED BY <1>1, <3>1, LeastExists
  <2>2. i # 0 /\ i \in 1 .. n /\ i - 1 \in 0 .. n
    BY <2>1
  <2>3. i - 1 \notin S
    BY <2>1, <2>2
  <2> QED BY <2>1, <2>2, <2>3
<1> QED
  BY <1>1

-----------------------------------------------------------------------------
(* Sums.                                                                   *)
IsTotal(sum, f, from, to) ==
  sum = [i \in from .. to |-> IF i = from THEN 0 ELSE sum[i - 1] + f[i]]

(* A sum is kept step by step: it exists. *)
LEMMA TotalExists ==
  ASSUME NEW f, NEW from \in Nat, NEW n \in Nat
  PROVE  \E sum : IsTotal(sum, f, from, from + n)
<1> DEFINE T == {m \in 0 .. n : \E sum : IsTotal(sum, f, from, from + m)}
<1>1. 0 \in T
  <2> DEFINE sum == [i \in from .. from |-> 0]
  <2>1. sum = [i \in from .. from |-> IF i = from THEN 0 ELSE sum[i - 1] + f[i]]
    OBVIOUS
  <2>2. IsTotal(sum, f, from, from + 0)
    BY <2>1 DEF IsTotal
  <2> QED BY <2>2
<1>2. ASSUME NEW m \in 1 .. n, m - 1 \in T PROVE m \in T
  <2>1. PICK g : IsTotal(g, f, from, from + (m - 1))
    BY <1>2
  <2>2. PICK to \in Nat : to = from + m
    OBVIOUS
  <2>3. from + (m - 1) = to - 1 /\ from <= to - 1
    BY <2>2
  <2>4. \A i \in from .. to - 1 : g[i] = IF i = from THEN 0 ELSE g[i - 1] + f[i]
    BY <2>1, <2>3 DEF IsTotal
  <2> DEFINE h == [i \in from .. to |-> IF i = to THEN g[to - 1] + f[to] ELSE g[i]]
  <2>5. ASSUME NEW i \in from .. to PROVE h[i] = IF i = from THEN 0 ELSE h[i - 1] + f[i]
    <3>1. CASE i = to
      <4>1. h[i] = g[to - 1] + f[to] /\ i # from /\ h[i - 1] = g[to - 1]
        BY <2>3, <3>1
      <4> HIDE DEF h
      <4> QED BY <3>1, <4>1
    <3>2. CASE i # to
      <4>1. i \in from .. to - 1 /\ h[i] = g[i] /\ (i # from => h[i - 1] = g[i - 1])
        BY <3>2
      <4> HIDE DEF h
      <4> QED BY <2>4, <4>1
    <3> QED BY <3>1, <3>2
  <2>6. h = [i \in from .. to |-> h[i]]
    OBVIOUS
  <2>7. IsTotal(h, f, from, to)
    <3> HIDE DEF h
    <3> QED BY <2>5, <2>6 DEF IsTotal
  <2> QED BY <2>2, <2>7
<1>3. 0 .. n \subseteq T
  <2> HIDE DEF T
  <2> QED BY <1>1, <1>2, EachAfterAnother
<1> QED
  BY <1>3

(* The sum of nothing is nothing; one term more adds that term. *)
LEMMA TotalStep ==
  ASSUME NEW f, NEW from \in Nat, NEW to \in Nat, from <= to
  PROVE  /\ Total(f, from, from) = 0
         /\ Total(f, from, to + 1) = Total(f, from, to) + f[to + 1]
<1>1. ASSUME NEW n \in Nat, from <= n PROVE IsTotal(CHOOSE sum : IsTotal(sum, f, from, n), f, from, n)
  <2>1. n - from \in Nat /\ from + (n - from) = n
    BY <1>1
  <2> QED BY <2>1, TotalExists
<1>2. ASSUME NEW n \in Nat, from <= n
      PROVE  Total(f, from, n) = (CHOOSE sum : IsTotal(sum, f, from, n))[n]
  BY DEF Total, IsTotal
<1>3. Total(f, from, from) = 0
  <2>1. PICK g : IsTotal(g, f, from, from) /\ g[from] = Total(f, from, from)
    BY <1>1, <1>2
  <2> QED BY <2>1 DEF IsTotal
<1>4. PICK g : IsTotal(g, f, from, to) /\ g[to] = Total(f, from, to)
  BY <1>1, <1>2
<1>5. PICK h : IsTotal(h, f, from, to + 1) /\ h[to + 1] = Total(f, from, to + 1)
  <2>1. to + 1 \in Nat /\ from <= to + 1
    OBVIOUS
  <2> QED BY <1>1, <1>2, <2>1
<1>6. \A i \in from .. to : g[i] = IF i = from THEN 0 ELSE g[i - 1] + f[i]
  BY <1>4 DEF IsTotal
<1>7. \A i \in from .. to + 1 : h[i] = IF i = from THEN 0 ELSE h[i - 1] + f[i]
  BY <1>5 DEF IsTotal
<1> DEFINE T == {m \in 0 .. to - from : g[from + m] = h[from + m]}
<1>8. 0 \in T
  BY <1>6, <1>7
<1>9. ASSUME NEW m \in 1 .. to - from, m - 1 \in T PROVE m \in T
  <2>1. PICK i \in from .. to : i = from + m /\ i # from /\ i - 1 = from + (m - 1)
    OBVIOUS
  <2>2. g[i - 1] = h[i - 1]
    BY <1>9, <2>1
  <2>3. g[i] = h[i]
    BY <1>6, <1>7, <2>1, <2>2
  <2> QED BY <2>1, <2>3
<1>10. to - from \in T
  <2>1. to - from \in Nat
    OBVIOUS
  <2> HIDE DEF T
  <2>2. 0 .. to - from \subseteq T
    BY <1>8, <1>9, <2>1, EachAfterAnother
  <2> QED BY <2>1, <2>2
<1>11. h[to] = g[to]
  BY <1>10
<1>12. h[to + 1] = h[to] + f[to + 1]
  BY <1>7
<1> QED
  BY <1>3, <1>4, <1>5, <1>11, <1>12

(* The terms of a sum are all it depends on, and whole numbers add up to   *)
(* a whole number.                                                         *)
LEMMA TotalOf ==
  ASSUME NEW f, NEW g, NEW n \in Nat, \A i \in 1 .. n : f[i] \in Int /\ f[i] = g[i]
  PROVE  Total(f, 0, n) \in Int /\ Total(f, 0, n) = Total(g, 0, n)
<1> DEFINE T == {m \in 0 .. n : Total(f, 0, m) \in Int /\ Total(f, 0, m) = Total(g, 0, m)}
<1>1. 0 \in T
  BY TotalStep
<1>2. ASSUME NEW m \in 1 .. n, m - 1 \in T PROVE m \in T
  <2>1. PICK p \in Nat : p = m - 1 /\ 0 <= p /\ p + 1 = m
    OBVIOUS
  <2>2. Total(f, 0, p + 1) = Total(f, 0, p) + f[p + 1] /\ Total(g, 0, p + 1) = Total(g, 0, p) + g[p + 1]
    BY <2>1, TotalStep
  <2>3. Total(f, 0, p) \in Int /\ Total(f, 0, p) = Total(g, 0, p) /\ f[m] \in Int /\ f[m] = g[m]
    BY <1>2, <2>1
  <2>4. Total(f, 0, m) = Total(f, 0, p) + f[m] /\ Total(g, 0, m) = Total(g, 0, p) + g[m]
    BY <2>1, <2>2
  <2> QED BY <2>3, <2>4
<1>3. 0 .. n \subseteq T
  <2> HIDE DEF T
  <2> QED BY <1>1, <1>2, EachAfterAnother
<1> QED
  BY <1>3

-----------------------------------------------------------------------------
(* Fact trees.                                                             *)

(* Every row of a leaf is in its place, in the leaf's own frame.           *)
LeafOK(l, i) ==
  /\ l = [rows |-> l.rows, dsp |-> l.dsp]
  /\ l.dsp \in Int /\ DOMAIN l.rows \in SUBSET Int /\ DOMAIN l.rows # {}
  /\ \A k \in DOMAIN l.rows : l.rows[k] \in Int /\ LeafOf(k + l.dsp) = i

TreeOK(t) ==
  /\ DOMAIN t \in SUBSET Int /\ t = [i \in DOMAIN t |-> t[i]]
  /\ \A i \in DOMAIN t : LeafOK(t[i], i)

Holds(t, id) == LeafOf(id) \in DOMAIN t /\ id - t[LeafOf(id)].dsp \in DOMAIN t[LeafOf(id)].rows

WeightHeld(t, id) == IF Holds(t, id) THEN t[LeafOf(id)].rows[id - t[LeafOf(id)].dsp] ELSE 0

(* The map of nothing is the empty sequence. *)
LEMMA NothingMapped ==
  ASSUME NEW f, f = [x \in DOMAIN f |-> f[x]], DOMAIN f = {}
  PROVE  f = << >>
  OBVIOUS

(* Leaves follow one another. *)
LEMMA LeafIsWhole ==
  ASSUME NEW id \in Int
  PROVE  LeafOf(id) \in Int
  BY BranchesAssumption DEF LeafOf

(* What a tree holds of a row is what the row's own leaf holds. *)
LEMMA WeightIs ==
  ASSUME NEW t, TreeOK(t), NEW id \in Int
  PROVE  /\ DOMAIN TreeRows(t) \in SUBSET Int
         /\ id \in DOMAIN TreeRows(t) <=> Holds(t, id)
         /\ Weight(t, id) = WeightHeld(t, id)
         /\ Weight(t, id) \in Int
<1> DEFINE D == UNION {DOMAIN LeafRows(t[i]) : i \in DOMAIN t}
<1>1. DOMAIN TreeRows(t) = D /\ \A x \in D : TreeRows(t)[x] = LeafRows(t[LeafOf(x)])[x]
  BY DEF TreeRows
<1>2. ASSUME NEW i \in DOMAIN t
      PROVE  /\ DOMAIN LeafRows(t[i]) = {k + t[i].dsp : k \in DOMAIN t[i].rows}
             /\ \A x \in DOMAIN LeafRows(t[i]) : LeafRows(t[i])[x] = t[i].rows[x - t[i].dsp]
  BY DEF LeafRows, Displaced
<1>3. ASSUME NEW x \in D
      PROVE  /\ x \in Int /\ Holds(t, x)
             /\ TreeRows(t)[x] = t[LeafOf(x)].rows[x - t[LeafOf(x)].dsp]
  <2>1. PICK i \in DOMAIN t : x \in DOMAIN LeafRows(t[i])
    OBVIOUS
  <2>2. PICK k \in DOMAIN t[i].rows : x = k + t[i].dsp
    BY <1>2, <2>1
  <2>3. k \in Int /\ t[i].dsp \in Int /\ LeafOf(x) = i
    BY <2>1, <2>2 DEF TreeOK, LeafOK
  <2>4. x \in Int /\ x - t[i].dsp = k
    BY <2>2, <2>3
  <2>5. Holds(t, x)
    BY <2>1, <2>2, <2>3, <2>4 DEF Holds
  <2> HIDE DEF D
  <2> QED BY <1>1, <1>2, <2>1, <2>3, <2>4, <2>5
<1>4. ASSUME Holds(t, id) PROVE id \in D
  <2>1. PICK i \in DOMAIN t : i = LeafOf(id) /\ id - t[i].dsp \in DOMAIN t[i].rows
    BY <1>4 DEF Holds
  <2>2. t[i].dsp \in Int /\ id = (id - t[i].dsp) + t[i].dsp
    BY <2>1 DEF TreeOK, LeafOK
  <2>3. PICK k \in DOMAIN t[i].rows : id = k + t[i].dsp
    BY <2>1, <2>2
  <2>4. id \in DOMAIN LeafRows(t[i])
    BY <1>2, <2>3
  <2> QED BY <2>1, <2>4
<1>5. WeightHeld(t, id) \in Int
  <2>1. CASE Holds(t, id)
    BY <2>1 DEF Holds, WeightHeld, TreeOK, LeafOK
  <2>2. CASE ~ Holds(t, id)
    BY <2>2 DEF WeightHeld
  <2> QED BY <2>1, <2>2
<1> HIDE DEF D
<1>6. D \in SUBSET Int
  BY <1>3
<1>7. Weight(t, id) = WeightHeld(t, id)
  BY <1>1, <1>3, <1>4 DEF Weight, WeightHeld
<1> QED
  BY <1>1, <1>3, <1>4, <1>5, <1>6, <1>7

(* A write rebuilds its leaf: the row's weight changes by the write's, and *)
(* no other row's does.                                                    *)
LEMMA FoldFactAdds ==
  ASSUME NEW t, TreeOK(t), NEW row \in Int, NEW d \in Int
  PROVE  /\ TreeOK(FoldFact(t, <<row, d>>))
         /\ \A id \in Int : Weight(FoldFact(t, <<row, d>>), id) = Weight(t, id) + (IF id = row THEN d ELSE 0)
<1>1. PICK net : net = Weight(t, row) + d
  OBVIOUS
<1>2. PICK i : i = LeafOf(row)
  OBVIOUS
<1>3. net \in Int /\ i \in Int
  BY <1>1, <1>2, WeightIs, LeafIsWhole
<1>4. PICK old : old = IF i \in DOMAIN t THEN LeafRows(t[i]) ELSE << >>
  OBVIOUS
<1>5. PICK rows : rows = [k \in (DOMAIN old \cup {row}) \ (IF net = 0 THEN {row} ELSE {})
                            |-> IF k = row THEN net ELSE old[k]]
  OBVIOUS
<1>6. PICK new : new = FoldFact(t, <<row, d>>)
  OBVIOUS
<1>7. new = [j \in (DOMAIN t \cup {i}) \ (IF rows = << >> THEN {i} ELSE {})
               |-> IF j = i THEN [rows |-> rows, dsp |-> 0] ELSE t[j]]
  BY <1>1, <1>2, <1>4, <1>5, <1>6 DEF FoldFact
<1>8. /\ DOMAIN old \in SUBSET Int
      /\ \A k \in Int : k \in DOMAIN old <=> LeafOf(k) = i /\ Holds(t, k)
      /\ \A k \in DOMAIN old : old[k] \in Int /\ old[k] = WeightHeld(t, k)
  <2>1. CASE i \in DOMAIN t
    <3>1. LeafOK(t[i], i)
      BY <2>1 DEF TreeOK
    <3>2. /\ DOMAIN old = {k + t[i].dsp : k \in DOMAIN t[i].rows}
          /\ \A x \in DOMAIN old : old[x] = t[i].rows[x - t[i].dsp]
      BY <1>4, <2>1 DEF LeafRows, Displaced
    <3>3. ASSUME NEW x \in DOMAIN old
          PROVE  x \in Int /\ LeafOf(x) = i /\ Holds(t, x) /\ old[x] \in Int /\ old[x] = WeightHeld(t, x)
      <4>1. PICK k \in DOMAIN t[i].rows : x = k + t[i].dsp
        BY <3>2
      <4>2. k \in Int /\ t[i].dsp \in Int /\ LeafOf(x) = i /\ t[i].rows[k] \in Int
        BY <3>1, <4>1 DEF LeafOK
      <4>3. x \in Int /\ x - t[i].dsp = k
        BY <4>1, <4>2
      <4>4. Holds(t, x)
        BY <2>1, <4>1, <4>2, <4>3 DEF Holds
      <4> QED BY <3>2, <4>2, <4>3, <4>4 DEF WeightHeld
    <3>4. ASSUME NEW x \in Int, LeafOf(x) = i, Holds(t, x) PROVE x \in DOMAIN old
      <4>1. x - t[i].dsp \in DOMAIN t[i].rows
        BY <3>4 DEF Holds
      <4>2. t[i].dsp \in Int /\ x = (x - t[i].dsp) + t[i].dsp
        BY <3>1 DEF LeafOK
      <4> QED BY <3>2, <4>1, <4>2
    <3> QED BY <3>3, <3>4
  <2>2. CASE i \notin DOMAIN t
    <3>1. DOMAIN old = {}
      BY <1>4, <2>2
    <3> QED BY <2>2, <3>1 DEF Holds
  <2> QED BY <2>1, <2>2
<1>9. /\ DOMAIN rows \in SUBSET Int /\ rows = [k \in DOMAIN rows |-> rows[k]]
      /\ \A k \in DOMAIN rows : rows[k] \in Int /\ LeafOf(k) = i
      /\ \A k \in Int : k \in DOMAIN rows <=> IF k = row THEN net # 0 ELSE k \in DOMAIN old
      /\ \A k \in DOMAIN rows : rows[k] = IF k = row THEN net ELSE old[k]
  BY <1>2, <1>3, <1>5, <1>8
<1>10. rows = << >> <=> DOMAIN rows = {}
  BY <1>9, NothingMapped
<1>11. TreeOK(new)
  <2>1. DOMAIN new \in SUBSET Int /\ new = [j \in DOMAIN new |-> new[j]]
    BY <1>3, <1>7 DEF TreeOK
  <2>2. ASSUME NEW j \in DOMAIN new, j = i PROVE LeafOK(new[j], j)
    <3>1. rows # << >> /\ new[j] = [rows |-> rows, dsp |-> 0]
      BY <1>7, <2>2
    <3>2. \A k \in DOMAIN rows : k + 0 = k
      BY <1>9
    <3> QED BY <1>9, <1>10, <2>2, <3>1, <3>2 DEF LeafOK
  <2>3. ASSUME NEW j \in DOMAIN new, j # i PROVE LeafOK(new[j], j)
    BY <1>7, <2>3 DEF TreeOK
  <2> QED BY <2>1, <2>2, <2>3 DEF TreeOK
<1>12. ASSUME NEW id \in Int PROVE Weight(new, id) = Weight(t, id) + (IF id = row THEN d ELSE 0)
  <2>1. Weight(new, id) = WeightHeld(new, id) /\ Weight(t, id) = WeightHeld(t, id) /\ Weight(t, id) \in Int
    BY <1>11, WeightIs
  <2>2. CASE LeafOf(id) # i
    <3>1. id # row
      BY <1>2, <2>2
    <3>2. WeightHeld(new, id) = WeightHeld(t, id)
      BY <1>7, <2>2 DEF WeightHeld, Holds
    <3> QED BY <2>1, <3>1, <3>2
  <2>3. CASE LeafOf(id) = i /\ id \in DOMAIN rows
    <3>1. rows # << >> /\ i \in DOMAIN new /\ new[i] = [rows |-> rows, dsp |-> 0]
      BY <1>7, <1>10, <2>3
    <3>2. id - 0 = id
      OBVIOUS
    <3>3. WeightHeld(new, id) = rows[id]
      BY <2>3, <3>1, <3>2 DEF WeightHeld, Holds
    <3>4. CASE id = row
      BY <1>1, <1>9, <2>1, <2>3, <3>3, <3>4
    <3>5. CASE id # row
      BY <1>8, <1>9, <2>1, <2>3, <3>3, <3>5
    <3> QED BY <3>4, <3>5
  <2>4. CASE LeafOf(id) = i /\ id \notin DOMAIN rows
    <3>1. ~ Holds(new, id)
      <4>1. CASE rows = << >>
        BY <1>7, <2>4, <4>1 DEF Holds
      <4>2. CASE rows # << >>
        <5>1. i \in DOMAIN new /\ new[i] = [rows |-> rows, dsp |-> 0]
          BY <1>7, <4>2
        <5>2. id - 0 = id
          OBVIOUS
        <5> QED BY <2>4, <5>1, <5>2 DEF Holds
      <4> QED BY <4>1, <4>2
    <3>2. WeightHeld(new, id) = 0
      BY <3>1 DEF WeightHeld
    <3>3. CASE id = row
      <4>1. net = 0
        BY <1>9, <2>4, <3>3
      <4> QED BY <1>1, <2>1, <3>2, <3>3, <4>1
    <3>4. CASE id # row
      <4>1. ~ Holds(t, id)
        BY <1>8, <1>9, <2>4, <3>4
      <4>2. WeightHeld(t, id) = 0
        BY <4>1 DEF WeightHeld
      <4> QED BY <2>1, <3>2, <3>4, <4>2
    <3> QED BY <3>3, <3>4
  <2> QED BY <2>2, <2>3, <2>4
<1> QED
  BY <1>6, <1>11, <1>12

(* What a commit's writes make of a tree, write after write. *)
IsFolded(f, t, updates, n) ==
  f = [i \in 0 .. n |-> IF i = 0 THEN t ELSE FoldFact(f[i - 1], updates[i])]

(* Writes are folded one after another: the trees in between exist. *)
LEMMA FoldedExists ==
  ASSUME NEW t, NEW updates, NEW n \in Nat
  PROVE  \E f : IsFolded(f, t, updates, n)
<1> DEFINE T == {m \in 0 .. n : \E f : IsFolded(f, t, updates, m)}
<1>1. 0 \in T
  <2> DEFINE f == [i \in 0 .. 0 |-> t]
  <2>1. f = [i \in 0 .. 0 |-> IF i = 0 THEN t ELSE FoldFact(f[i - 1], updates[i])]
    OBVIOUS
  <2>2. IsFolded(f, t, updates, 0)
    BY <2>1 DEF IsFolded
  <2> QED BY <2>2
<1>2. ASSUME NEW m \in 1 .. n, m - 1 \in T PROVE m \in T
  <2>1. PICK g : IsFolded(g, t, updates, m - 1)
    BY <1>2
  <2>2. \A i \in 0 .. m - 1 : g[i] = IF i = 0 THEN t ELSE FoldFact(g[i - 1], updates[i])
    BY <2>1 DEF IsFolded
  <2> DEFINE h == [i \in 0 .. m |-> IF i = m THEN FoldFact(g[m - 1], updates[m]) ELSE g[i]]
  <2>3. ASSUME NEW i \in 0 .. m PROVE h[i] = IF i = 0 THEN t ELSE FoldFact(h[i - 1], updates[i])
    <3>1. CASE i = m
      <4>1. h[i] = FoldFact(g[m - 1], updates[m]) /\ i # 0 /\ h[i - 1] = g[m - 1]
        BY <3>1
      <4> HIDE DEF h
      <4> QED BY <3>1, <4>1
    <3>2. CASE i # m
      <4>1. i \in 0 .. m - 1 /\ h[i] = g[i] /\ (i # 0 => h[i - 1] = g[i - 1])
        BY <3>2
      <4> HIDE DEF h
      <4> QED BY <2>2, <4>1
    <3> QED BY <3>1, <3>2
  <2>4. h = [i \in 0 .. m |-> h[i]]
    OBVIOUS
  <2>5. IsFolded(h, t, updates, m)
    <3> HIDE DEF h
    <3> QED BY <2>3, <2>4 DEF IsFolded
  <2> QED BY <2>5
<1>3. 0 .. n \subseteq T
  <2> HIDE DEF T
  <2> QED BY <1>1, <1>2, EachAfterAnother
<1> QED
  BY <1>3

AddedTo(updates, id) == [i \in DOMAIN updates |-> IF updates[i][1] = id THEN updates[i][2] ELSE 0]

(* A commit's writes add up, row by row. *)
LEMMA FoldedAdds ==
  ASSUME NEW t, TreeOK(t), NEW updates \in Seq(Int \X Int)
  PROVE  /\ TreeOK(Folded(t, updates))
         /\ \A id \in Int :
              /\ Total(AddedTo(updates, id), 0, Len(updates)) \in Int
              /\ Weight(Folded(t, updates), id) = Weight(t, id) + Total(AddedTo(updates, id), 0, Len(updates))
<1>1. PICK n \in Nat : n = Len(updates) /\ DOMAIN updates = 1 .. n
  OBVIOUS
<1>2. PICK f : IsFolded(f, t, updates, n) /\ f[n] = Folded(t, updates)
  <2>1. IsFolded(CHOOSE f : IsFolded(f, t, updates, n), t, updates, n)
    BY FoldedExists
  <2>2. Folded(t, updates) = (CHOOSE f : IsFolded(f, t, updates, n))[n]
    BY <1>1 DEF Folded, IsFolded
  <2> QED BY <2>1, <2>2
<1>3. \A i \in 0 .. n : f[i] = IF i = 0 THEN t ELSE FoldFact(f[i - 1], updates[i])
  BY <1>2 DEF IsFolded
<1> DEFINE Adds(i) ==
             /\ TreeOK(f[i])
             /\ \A id \in Int : /\ Total(AddedTo(updates, id), 0, i) \in Int
                                /\ Weight(f[i], id) = Weight(t, id) + Total(AddedTo(updates, id), 0, i)
           T == {i \in 0 .. n : Adds(i)}
<1>4. 0 \in T
  <2>1. f[0] = t
    BY <1>3
  <2>2. \A id \in Int : Total(AddedTo(updates, id), 0, 0) = 0
    BY TotalStep
  <2>3. \A id \in Int : Weight(t, id) \in Int
    BY WeightIs
  <2>4. Adds(0)
    BY <2>1, <2>2, <2>3
  <2> HIDE DEF Adds
  <2> QED BY <2>4
<1>5. ASSUME NEW i \in 1 .. n, i - 1 \in T PROVE i \in T
  <2>1. Adds(i - 1)
    BY <1>5
  <2>2. PICK row \in Int, d \in Int : updates[i] = <<row, d>>
    BY <1>1
  <2>3. PICK prev, next : prev = f[i - 1] /\ next = f[i]
    OBVIOUS
  <2>4. next = FoldFact(prev, updates[i])
    BY <1>3, <2>3
  <2>5. TreeOK(prev)
    BY <2>1, <2>3
  <2>6. /\ TreeOK(next)
        /\ \A id \in Int : Weight(next, id) = Weight(prev, id) + (IF id = row THEN d ELSE 0)
    <3>1. next = FoldFact(prev, <<row, d>>)
      BY <2>2, <2>4
    <3>2. /\ TreeOK(FoldFact(prev, <<row, d>>))
          /\ \A id \in Int : Weight(FoldFact(prev, <<row, d>>), id) = Weight(prev, id) + (IF id = row THEN d ELSE 0)
      BY <2>5, FoldFactAdds
    <3> QED BY <3>1, <3>2
  <2>7. ASSUME NEW id \in Int
        PROVE  /\ Total(AddedTo(updates, id), 0, i) \in Int
               /\ Weight(f[i], id) = Weight(t, id) + Total(AddedTo(updates, id), 0, i)
    <3>1. i - 1 \in Nat /\ 0 <= i - 1 /\ (i - 1) + 1 = i
      OBVIOUS
    <3>2. Total(AddedTo(updates, id), 0, i) = Total(AddedTo(updates, id), 0, i - 1) + AddedTo(updates, id)[i]
      BY <3>1, TotalStep
    <3>3. AddedTo(updates, id)[i] = IF id = row THEN d ELSE 0
      BY <1>1, <2>2 DEF AddedTo
    <3>4. Weight(t, id) \in Int
      BY WeightIs
    <3>5. /\ Total(AddedTo(updates, id), 0, i - 1) \in Int
          /\ Weight(f[i - 1], id) = Weight(t, id) + Total(AddedTo(updates, id), 0, i - 1)
      BY <2>1
    <3> QED BY <2>3, <2>6, <3>2, <3>3, <3>4, <3>5
  <2>8. Adds(i)
    BY <2>3, <2>6, <2>7
  <2> HIDE DEF Adds
  <2> QED BY <2>8
<1>6. n \in T
  <2> HIDE DEF T
  <2>1. 0 .. n \subseteq T
    BY <1>4, <1>5, EachAfterAnother
  <2> QED BY <2>1
<1> QED
  BY <1>1, <1>2, <1>6

(* A displacement by whole leaves moves a row's leaf by as many. *)
LEMMA LeafMoves ==
  ASSUME NEW id \in Int, NEW by \in Int, by % Width = 0
  PROVE  LeafOf(id + by) = LeafOf(id) + by \div Width /\ by \div Width \in Int
<1>1. by = Width * (by \div Width) /\ by \div Width \in Int
  BY BranchesAssumption, SMTT(30)
<1>2. PICK k \in Int : k = by \div Width /\ by = k * Width
  BY <1>1, BranchesAssumption
<1>3. LeafOf(id + k * Width) = LeafOf(id) + k
  BY BranchesAssumption, SMTT(30) DEF LeafOf
<1> QED
  BY <1>2, <1>3

(* A block of whole leaves holds a row if it holds the row's leaf. *)
LEMMA BlockIsLeaves ==
  ASSUME NEW lo \in Int, NEW hi \in Int, (lo - 1) % Width = 0, (hi - 1) % Width = 0, NEW id \in Int
  PROVE  InBlock(id, lo, hi) <=> LeafOf(id) \in LeafOf(lo) .. LeafOf(hi - 1)
<1>1. PICK W \in Nat \ {0} : W = Width
  BY BranchesAssumption
<1>2. PICK p \in Int : lo - 1 = W * p /\ LeafOf(lo) = p
  <2>1. lo - 1 = W * ((lo - 1) \div W) /\ (lo - 1) \div W \in Int
    BY <1>1, SMTT(30)
  <2> QED BY <1>1, <2>1 DEF LeafOf
<1>3. PICK q \in Int : hi - 1 = W * q /\ LeafOf(hi - 1) = q - 1
  <2>1. hi - 1 = W * ((hi - 1) \div W) /\ (hi - 1) \div W \in Int
    BY <1>1, SMTT(30)
  <2>2. PICK q \in Int : q = (hi - 1) \div W
    BY <2>1
  <2>3. ((hi - 1) - 1) \div W = q - 1
    <3>1. (hi - 1) - 1 = W * (q - 1) + (W - 1)
      BY <1>1, <2>1, <2>2, SMTT(30)
    <3>2. \A r \in Int : (W * r + (W - 1)) \div W = r
      BY <1>1, SMTT(30)
    <3> QED BY <2>2, <3>1, <3>2
  <2> QED BY <1>1, <2>1, <2>2, <2>3 DEF LeafOf
<1>4. PICK x \in Int : x = LeafOf(id) /\ W * x <= id - 1 /\ id - 1 < W * x + W
  <2>1. (id - 1) \div W \in Int /\ W * ((id - 1) \div W) <= id - 1 /\ id - 1 < W * ((id - 1) \div W) + W
    BY <1>1, SMTT(30)
  <2> QED BY <1>1, <2>1 DEF LeafOf
<1>5. lo <= id <=> p <= x
  BY <1>1, <1>2, <1>4, SMTT(30)
<1>6. id < hi <=> x <= q - 1
  <2>1. id < hi <=> id - 1 < W * q
    BY <1>1, <1>3
  <2>2. x <= q - 1 => W * (x + 1) <= W * q
    BY <1>1, SMTT(30)
  <2>3. x >= q => W * x >= W * q
    BY <1>1, SMTT(30)
  <2>4. W * (x + 1) = W * x + W
    BY <1>1, SMTT(30)
  <2>5. W * x \in Int /\ W * q \in Int
    BY <1>1
  <2> QED BY <1>1, <1>4, <2>1, <2>2, <2>3, <2>4, <2>5
<1> QED
  BY <1>2, <1>3, <1>4, <1>5, <1>6 DEF InBlock

BlockOK(b) ==
  /\ {b.lo, b.hi, b.by} \subseteq Int
  /\ {b.lo, b.hi - 1, b.lo + b.by, b.hi - 1 + b.by} \subseteq 1 .. MaxId
  /\ (b.lo - 1) % Width = 0 /\ (b.hi - 1) % Width = 0 /\ b.by % Width = 0

(* A copy of a block takes what its source holds to a place that held      *)
(* nothing, and leaves everything else as it was.                          *)
LEMMA SplicedMoves ==
  ASSUME NEW t, TreeOK(t), NEW b, BlockOK(b),
         \A id \in DOMAIN TreeRows(t) : ~ InBlock(id, b.lo + b.by, b.hi + b.by)
  PROVE  /\ TreeOK(Spliced(t, b))
         /\ \A id \in Int : IF InBlock(id, b.lo + b.by, b.hi + b.by)
                            THEN Weight(t, id) = 0 /\ Weight(Spliced(t, b), id) = Weight(t, id - b.by)
                            ELSE Weight(Spliced(t, b), id) = Weight(t, id)
<1>1. PICK lo \in Int, hi \in Int, by \in Int : lo = b.lo /\ hi = b.hi /\ by = b.by
  BY DEF BlockOK
<1>2. (lo - 1) % Width = 0 /\ (hi - 1) % Width = 0 /\ by % Width = 0
  BY <1>1 DEF BlockOK
<1>3. PICK moved \in Int : moved = by \div Width
  BY <1>2, LeafMoves
<1>4. PICK C : C = Copies(t, b)
  OBVIOUS
<1>5. C = DOMAIN t \cap LeafOf(lo) .. LeafOf(hi - 1)
  BY <1>1, <1>4 DEF Copies
<1>6. PICK new : new = Spliced(t, b)
  OBVIOUS
<1>7. new = [i \in DOMAIN t \cup {j + moved : j \in C}
               |-> IF i \in DOMAIN t THEN t[i] ELSE [t[i - moved] EXCEPT !.dsp = @ + by]]
  BY <1>1, <1>3, <1>4, <1>6 DEF Spliced
<1>8. C \in SUBSET Int /\ DOMAIN t \in SUBSET Int
  BY <1>5 DEF TreeOK
<1>9. \A id \in Int : LeafOf(id) \in Int /\ LeafOf(id + by) = LeafOf(id) + moved
  BY <1>2, <1>3, LeafIsWhole, LeafMoves
<1>10. \A id \in Int : InBlock(id, lo, hi) <=> LeafOf(id) \in LeafOf(lo) .. LeafOf(hi - 1)
  BY <1>2, BlockIsLeaves
<1>11. \A id \in Int : InBlock(id, lo + by, hi + by) <=> id - by \in Int /\ InBlock(id - by, lo, hi)
  BY DEF InBlock
<1>12. ASSUME NEW id \in Int, InBlock(id, lo + by, hi + by) PROVE ~ Holds(t, id) /\ Weight(t, id) = 0
  <2>1. id \notin DOMAIN TreeRows(t)
    BY <1>1, <1>12
  <2>2. ~ Holds(t, id) /\ Weight(t, id) = WeightHeld(t, id)
    BY <2>1, WeightIs
  <2> QED BY <2>2 DEF WeightHeld
<1>13. ASSUME NEW j \in C PROVE j + moved \notin DOMAIN t
  <2>1. ASSUME j + moved \in DOMAIN t PROVE FALSE
    <3>1. LeafOK(t[j + moved], j + moved)
      BY <2>1 DEF TreeOK
    <3>2. PICK k : k \in DOMAIN t[j + moved].rows
      BY <3>1 DEF LeafOK
    <3>3. PICK d \in Int : d = t[j + moved].dsp
      BY <3>1 DEF LeafOK
    <3>4. k \in Int /\ LeafOf(k + d) = j + moved
      BY <3>1, <3>2, <3>3 DEF LeafOK
    <3>5. PICK id \in Int : id = k + d
      BY <3>4
    <3>6. id - d = k
      BY <3>4, <3>5
    <3>7. Holds(t, id)
      BY <2>1, <3>2, <3>3, <3>4, <3>5, <3>6 DEF Holds
    <3>8. id - by \in Int /\ (id - by) + by = id
      OBVIOUS
    <3>9. LeafOf(id) = LeafOf(id - by) + moved
      BY <1>9, <3>8
    <3>10. LeafOf(id - by) = j
      <4>1. j \in Int /\ LeafOf(id - by) \in Int /\ LeafOf(id) = j + moved
        BY <1>8, <1>9, <3>4, <3>5, <3>8
      <4> QED BY <3>9, <4>1
    <3>11. InBlock(id - by, lo, hi)
      BY <1>5, <1>10, <3>8, <3>10
    <3> QED BY <1>11, <1>12, <3>7, <3>8, <3>11
  <2> QED BY <2>1
<1>14. ASSUME NEW j \in C
       PROVE  /\ j \in DOMAIN t /\ j \in Int /\ j + moved \in DOMAIN new
              /\ new[j + moved] = [rows |-> t[j].rows, dsp |-> t[j].dsp + by]
  <2>1. j \in Int /\ j \in DOMAIN t /\ (j + moved) - moved = j
    BY <1>5, <1>8
  <2>2. new[j + moved] = [t[j] EXCEPT !.dsp = @ + by]
    BY <1>7, <1>13, <2>1
  <2>3. t[j] = [rows |-> t[j].rows, dsp |-> t[j].dsp]
    BY <2>1 DEF TreeOK, LeafOK
  <2>4. j + moved \in DOMAIN new
    BY <1>7
  <2> QED BY <2>1, <2>2, <2>3, <2>4
<1>15. \A i \in DOMAIN t : i \in DOMAIN new /\ new[i] = t[i]
  BY <1>7
<1>16. \A i \in DOMAIN new : i \in DOMAIN t \/ \E j \in C : i = j + moved
  BY <1>7
<1>17. TreeOK(new)
  <2>1. DOMAIN new \in SUBSET Int /\ new = [i \in DOMAIN new |-> new[i]]
    BY <1>7, <1>8
  <2>2. ASSUME NEW i \in DOMAIN t PROVE LeafOK(new[i], i)
    BY <1>15 DEF TreeOK
  <2>3. ASSUME NEW j \in C PROVE LeafOK(new[j + moved], j + moved)
    <3>1. LeafOK(t[j], j)
      BY <1>14 DEF TreeOK
    <3>2. PICK d \in Int : d = t[j].dsp
      BY <3>1 DEF LeafOK
    <3> DEFINE rows == t[j].rows
    <3>3. new[j + moved] = [rows |-> rows, dsp |-> d + by]
      BY <1>14, <3>2
    <3>4. ASSUME NEW k \in DOMAIN rows
          PROVE  k \in Int /\ rows[k] \in Int /\ LeafOf(k + (d + by)) = j + moved
      <4>1. k \in Int /\ rows[k] \in Int /\ LeafOf(k + d) = j
        BY <3>1, <3>2 DEF LeafOK
      <4>2. k + d \in Int /\ k + (d + by) = (k + d) + by
        BY <4>1
      <4> QED BY <1>9, <4>1, <4>2
    <3>5. DOMAIN rows # {}
      BY <3>1, <3>2 DEF LeafOK
    <3>6. d + by \in Int
      OBVIOUS
    <3> QED BY <3>3, <3>4, <3>5, <3>6 DEF LeafOK
  <2>4. \A i \in DOMAIN new : LeafOK(new[i], i)
    BY <1>16, <2>2, <2>3
  <2> QED BY <2>1, <2>4 DEF TreeOK
<1>18. ASSUME NEW id \in Int, ~ InBlock(id, lo + by, hi + by) PROVE Weight(new, id) = Weight(t, id)
  <2>1. Weight(new, id) = WeightHeld(new, id) /\ Weight(t, id) = WeightHeld(t, id)
    BY <1>17, WeightIs
  <2>2. CASE LeafOf(id) \in DOMAIN t
    BY <1>15, <2>1, <2>2 DEF WeightHeld, Holds
  <2>3. CASE LeafOf(id) \notin DOMAIN t
    <3>1. LeafOf(id) \notin DOMAIN new
      <4>1. ASSUME LeafOf(id) \in DOMAIN new PROVE FALSE
        <5>1. PICK j \in C : LeafOf(id) = j + moved
          BY <1>16, <2>3, <4>1
        <5>2. id - by \in Int /\ (id - by) + by = id
          OBVIOUS
        <5>3. LeafOf(id - by) = j
          <6>1. j \in Int /\ LeafOf(id - by) \in Int /\ LeafOf(id) = LeafOf(id - by) + moved
            BY <1>8, <1>9, <5>2
          <6> QED BY <5>1, <6>1
        <5>4. InBlock(id - by, lo, hi)
          BY <1>5, <1>10, <5>2, <5>3
        <5> QED BY <1>11, <1>18, <5>2, <5>4
      <4> QED BY <4>1
    <3> QED BY <2>1, <2>3, <3>1 DEF WeightHeld, Holds
  <2> QED BY <2>2, <2>3
<1>19. ASSUME NEW id \in Int, InBlock(id, lo + by, hi + by) PROVE Weight(new, id) = Weight(t, id - by)
  <2>1. PICK x \in Int : x = id - by /\ x + by = id
    OBVIOUS
  <2>2. InBlock(x, lo, hi) /\ LeafOf(id) = LeafOf(x) + moved /\ LeafOf(x) \in Int
    BY <1>9, <1>11, <1>19, <2>1
  <2>3. LeafOf(x) \in LeafOf(lo) .. LeafOf(hi - 1)
    BY <1>10, <2>2
  <2>4. Weight(new, id) = WeightHeld(new, id) /\ Weight(t, x) = WeightHeld(t, x)
    BY <1>17, WeightIs
  <2>5. CASE LeafOf(x) \in DOMAIN t
    <3>1. PICK j \in C : j = LeafOf(x)
      BY <1>5, <2>3, <2>5
    <3>2. PICK d \in Int : d = t[j].dsp
      BY <1>14 DEF TreeOK, LeafOK
    <3> DEFINE rows == t[j].rows
    <3>3. LeafOf(id) \in DOMAIN new /\ new[LeafOf(id)] = [rows |-> rows, dsp |-> d + by]
      BY <1>14, <2>2, <3>1, <3>2
    <3>4. id - (d + by) = x - d
      BY <2>1
    <3>5. Holds(new, id) <=> Holds(t, x)
      BY <2>5, <3>1, <3>2, <3>3, <3>4 DEF Holds
    <3>6. WeightHeld(new, id) = WeightHeld(t, x)
      BY <3>1, <3>2, <3>3, <3>4, <3>5 DEF WeightHeld
    <3> QED BY <2>1, <2>4, <3>6
  <2>6. CASE LeafOf(x) \notin DOMAIN t
    <3>1. LeafOf(id) \notin DOMAIN new
      <4>1. ASSUME LeafOf(id) \in DOMAIN new PROVE FALSE
        <5>1. CASE LeafOf(id) \in DOMAIN t
          <6>1. LeafOK(t[LeafOf(id)], LeafOf(id))
            BY <5>1 DEF TreeOK
          <6>2. PICK k : k \in DOMAIN t[LeafOf(id)].rows
            BY <6>1 DEF LeafOK
          <6>3. PICK d \in Int : d = t[LeafOf(id)].dsp
            BY <6>1 DEF LeafOK
          <6>4. k \in Int /\ LeafOf(k + d) = LeafOf(id)
            BY <6>1, <6>2, <6>3 DEF LeafOK
          <6>5. PICK y \in Int : y = k + d
            BY <6>4
          <6>6. y - d = k
            BY <6>4, <6>5
          <6>7. Holds(t, y)
            BY <5>1, <6>2, <6>3, <6>4, <6>5, <6>6 DEF Holds
          <6>8. y - by \in Int /\ (y - by) + by = y
            OBVIOUS
          <6>9. LeafOf(y - by) = LeafOf(x)
            BY <1>9, <2>2, <6>4, <6>5, <6>8
          <6>10. InBlock(y - by, lo, hi)
            BY <1>10, <2>3, <6>8, <6>9
          <6> QED BY <1>11, <1>12, <6>7, <6>8, <6>10
        <5>2. CASE LeafOf(id) \notin DOMAIN t
          <6>1. PICK j \in C : LeafOf(id) = j + moved
            BY <1>16, <4>1, <5>2
          <6>2. j = LeafOf(x)
            BY <1>8, <2>2, <6>1
          <6> QED BY <1>14, <2>6, <6>2
        <5> QED BY <5>1, <5>2
      <4> QED BY <4>1
    <3> QED BY <2>1, <2>4, <2>6, <3>1 DEF WeightHeld, Holds
  <2> QED BY <2>5, <2>6
<1> QED
  BY <1>1, <1>6, <1>12, <1>17, <1>18, <1>19

-----------------------------------------------------------------------------
(* What is kept of a branch.                                               *)
IsMap(f) == f = [x \in DOMAIN f |-> f[x]]

IsSeq(s) == s \in Seq(Range(s))

VersionsOK(versions, current) ==
  IsMap(versions) /\ DOMAIN versions \subseteq 1 .. current /\ \A v \in DOMAIN versions : TreeOK(versions[v])

(* An update names a row and adds to it; a graft names a place.            *)
Entries == {"update", "graft"} \X Int \X Int

LogOK(log, watermark, current) ==
  IsMap(log) /\ DOMAIN log \subseteq watermark + 1 .. current /\ \A e \in DOMAIN log : log[e] \in Seq(Entries)

PatchOK(patch, log, e) ==
  \/ /\ patch.kind = "commit"
     /\ e \in DOMAIN log /\ \A i \in DOMAIN log[e] : log[e][i][1] = "update" /\ log[e][i][2] \in 1 .. MaxId
  \/ patch.kind = "graft" /\ patch.block \in Blocks

PatchesOK(patches, log, watermark, current) ==
  /\ IsMap(patches) /\ DOMAIN patches \subseteq watermark + 1 .. current
  /\ \A e \in DOMAIN patches : PatchOK(patches[e], log, e)

(* One graft at most is made of an edition, and of one of the blocks.      *)
GraftsOK(grafts, current) ==
  /\ \A g \in grafts : g.edition \in 1 .. current /\ \E b \in Blocks : BlockOK(b) /\ b.lo < b.hi /\ g = Span(b, g.edition)
  /\ \A g, h \in grafts : g.edition = h.edition => g = h

InnerOK(s) ==
  /\ s = [current |-> s.current, watermark |-> s.watermark, versions |-> s.versions, log |-> s.log,
          patches |-> s.patches, grafts |-> s.grafts, ctx |-> s.ctx, registered |-> s.registered,
          fired |-> s.fired]
  /\ s.current \in Nat /\ s.watermark \in 0 .. s.current
  /\ VersionsOK(s.versions, s.current)
  /\ LogOK(s.log, s.watermark, s.current)
  /\ PatchesOK(s.patches, s.log, s.watermark, s.current)
  /\ GraftsOK(s.grafts, s.current)

Summed(s, e, id) == Total(DiffsOf(s, e, id), 0, Len(Logged(s, e)))

(* What is kept is what was told, and an edition's log is what it changed. *)
RowsIn(told_b, e) == IF e = 0 THEN << >> ELSE told_b[e].rows

Faithful(s, told_b) ==
  /\ IsSeq(told_b) /\ Len(told_b) = s.current
  /\ \A e \in s.watermark .. s.current : TreeRows(VersionAt(s, e)) = RowsIn(told_b, e)
  /\ \A e \in s.watermark + 1 .. s.current, id \in 1 .. MaxId :
       Summed(s, e, id) = Weight(VersionAt(s, e), id) - Weight(VersionAt(s, e - 1), id)

CopyTraced(x, e, versions, grafts, now, before) ==
  /\ e \in DOMAIN versions /\ x[2] < x[3]
  /\ \E g \in grafts :
       /\ g.edition = e /\ g.target = <<x[2], x[3]>>
       /\ \A id \in x[2] .. x[3] - 1 : Weight(now, id) = Weight(before, id + g.source[1] - g.target[1])

Traced(s) ==
  \A e \in DOMAIN s.log : \A i \in DOMAIN s.log[e] :
    s.log[e][i][1] = "graft" =>
      CopyTraced(s.log[e][i], e, s.versions, s.grafts, VersionAt(s, e), VersionAt(s, e - 1))

Covers(span, x) ==
  \/ x[1] = "update" /\ span[1] <= x[2] /\ x[2] < span[2]
  \/ x[1] = "graft" /\ x[2] < x[3] /\ span[1] < x[3] /\ x[2] < span[2]

Routed(s) ==
  \A span \in DOMAIN s.registered :
    /\ span \in Spans /\ s.registered[span] \in 0 .. s.current
    /\ \A e \in DOMAIN s.log : \A i \in DOMAIN s.log[e] :
         s.registered[span] < e /\ Covers(span, s.log[e][i]) => <<span, e>> \in s.fired

Good(s, told_b) == InnerOK(s) /\ Faithful(s, told_b) /\ Traced(s) /\ Routed(s)

-----------------------------------------------------------------------------
(* The tree of an edition.                                                 *)

(* The tree of an edition that made one is that one. *)
LEMMA VersionMade ==
  ASSUME NEW s, DOMAIN s.versions \in SUBSET Int, NEW e \in DOMAIN s.versions
  PROVE  VersionAt(s, e) = s.versions[e]
<1> DEFINE keys == {v \in DOMAIN s.versions : v <= e}
<1>1. keys \in SUBSET Int /\ keys # {} /\ (\A v \in keys : v <= e) /\ e \in Int /\ e \in keys
  OBVIOUS
<1>2. VersionAt(s, e) = IF keys = {} THEN EmptyTree ELSE s.versions[Max(keys)]
  BY DEF VersionAt
<1> HIDE DEF keys
<1>3. Max(keys) \in keys /\ \A v \in keys : v <= Max(keys)
  BY <1>1, GreatestExists
<1>4. Max(keys) = e
  BY <1>1, <1>3
<1> QED
  BY <1>1, <1>2, <1>4

(* Maps that agree up to an edition have the same tree there. *)
LEMMA VersionAgrees ==
  ASSUME NEW s, DOMAIN s.versions \in SUBSET Int, NEW t, NEW d \in Int, NEW e \in Int,
         {v \in DOMAIN s.versions : v <= d} = {v \in DOMAIN t.versions : v <= e},
         \A v \in DOMAIN s.versions : v <= d => s.versions[v] = t.versions[v]
  PROVE  VersionAt(s, d) = VersionAt(t, e)
<1> DEFINE keys == {v \in DOMAIN s.versions : v <= d}
<1>1. VersionAt(s, d) = IF keys = {} THEN EmptyTree ELSE s.versions[Max(keys)]
  BY DEF VersionAt
<1>2. VersionAt(t, e) = IF keys = {} THEN EmptyTree ELSE t.versions[Max(keys)]
  BY DEF VersionAt
<1>3. keys \in SUBSET Int /\ (\A v \in keys : v <= d)
  OBVIOUS
<1>4. \A v \in keys : s.versions[v] = t.versions[v]
  OBVIOUS
<1> HIDE DEF keys
<1>5. keys # {} => Max(keys) \in keys
  BY <1>3, GreatestExists
<1> QED
  BY <1>1, <1>2, <1>4, <1>5

(* Every edition has a tree in order, the first edition's being empty. *)
LEMMA VersionIsTree ==
  ASSUME NEW s, NEW n \in Nat, VersionsOK(s.versions, n), NEW e \in Int
  PROVE  /\ TreeOK(VersionAt(s, e))
         /\ e <= 0 => VersionAt(s, e) = EmptyTree
<1> DEFINE keys == {v \in DOMAIN s.versions : v <= e}
<1>1. VersionAt(s, e) = IF keys = {} THEN EmptyTree ELSE s.versions[Max(keys)]
  BY DEF VersionAt
<1>2. keys \in SUBSET Int /\ (\A v \in keys : v <= e) /\ keys \in SUBSET DOMAIN s.versions
  BY DEF VersionsOK
<1>3. e <= 0 => keys = {}
  BY DEF VersionsOK
<1> HIDE DEF keys
<1>4. keys # {} => Max(keys) \in keys
  BY <1>2, GreatestExists
<1>5. TreeOK(EmptyTree)
  BY DEF TreeOK, EmptyTree
<1> QED
  BY <1>1, <1>2, <1>3, <1>4, <1>5 DEF VersionsOK

(* An empty tree has no rows. *)
LEMMA NoRows == TreeRows(EmptyTree) = << >>
<1>1. DOMAIN TreeRows(EmptyTree) = {}
  BY DEF TreeRows, EmptyTree
<1>2. TreeRows(EmptyTree) = [x \in DOMAIN TreeRows(EmptyTree) |-> TreeRows(EmptyTree)[x]]
  BY DEF TreeRows
<1> QED
  BY <1>1, <1>2, NothingMapped

(* Consolidation keeps the tree of every edition from the new watermark on.*)
LEMMA VersionKept ==
  ASSUME NEW s, DOMAIN s.versions \in SUBSET Int, NEW t, NEW w \in Int, t.versions = Checkpointed(s, w),
         NEW e \in Int, w <= e
  PROVE  VersionAt(t, e) = VersionAt(s, e)
<1> DEFINE before == {v \in DOMAIN s.versions : v <= w}
           keys == {v \in DOMAIN s.versions : v <= e}
           kept == {v \in DOMAIN t.versions : v <= e}
<1>1. CASE before = {}
  <2>1. t.versions = Above(s.versions, w)
    BY <1>1 DEF Checkpointed
  <2>2. \A v \in DOMAIN s.versions : v > w
    BY <1>1
  <2>3. DOMAIN t.versions = DOMAIN s.versions /\ \A v \in DOMAIN s.versions : t.versions[v] = s.versions[v]
    BY <2>1, <2>2 DEF Above
  <2> QED BY <2>3, VersionAgrees
<1>2. CASE before # {}
  <2>1. t.versions = Put(Above(s.versions, w), w, VersionAt(s, w))
    BY <1>2 DEF Checkpointed
  <2>2. /\ DOMAIN t.versions = {v \in DOMAIN s.versions : v > w} \cup {w}
        /\ t.versions[w] = VersionAt(s, w)
        /\ \A v \in DOMAIN s.versions : v > w => t.versions[v] = s.versions[v]
    BY <2>1 DEF Put, Above
  <2>3. VersionAt(t, e) = t.versions[Max(kept)]
    <3>1. w \in kept
      BY <2>2
    <3> QED BY <3>1 DEF VersionAt
  <2>4. VersionAt(s, e) = s.versions[Max(keys)]
    <3>1. keys # {}
      BY <1>2
    <3> QED BY <3>1 DEF VersionAt
  <2>5. keys \in SUBSET Int /\ keys # {} /\ (\A v \in keys : v <= e)
    BY <1>2
  <2>6. kept \in SUBSET Int /\ kept # {} /\ (\A v \in kept : v <= e)
    BY <2>2
  <2>7. /\ \A v \in kept : v = w \/ (v \in keys /\ v > w)
        /\ \A v \in keys : v > w => v \in kept
        /\ w \in kept /\ \A v \in kept : v >= w
    BY <2>2
  <2>8. \A v \in keys : v > w => t.versions[v] = s.versions[v]
    BY <2>2
  <2>9. keys \in SUBSET DOMAIN s.versions
    OBVIOUS
  <2>10. (\A v \in keys : v <= w) => keys = before
    OBVIOUS
  <2> HIDE DEF keys, kept
  <2>11. PICK m \in keys : m = Max(keys) /\ \A v \in keys : v <= m
    BY <2>5, GreatestExists
  <2>12. PICK n \in kept : n = Max(kept) /\ \A v \in kept : v <= n
    BY <2>6, GreatestExists
  <2>13. m \in Int /\ n \in Int
    BY <2>5, <2>6
  <2>14. CASE m > w
    <3>1. m \in kept /\ n \in keys
      BY <2>7, <2>12, <2>13, <2>14
    <3>2. m = n
      BY <2>11, <2>12, <2>13, <3>1
    <3> QED BY <2>3, <2>4, <2>8, <2>11, <2>12, <2>14, <3>2
  <2>15. CASE ~ m > w
    <3>1. \A v \in keys : v <= w
      BY <2>5, <2>11, <2>13, <2>15
    <3>2. n = w
      BY <2>5, <2>7, <2>12, <2>13, <3>1
    <3>3. VersionAt(s, w) = s.versions[Max(before)]
      <4>1. VersionAt(s, w) = IF before = {} THEN EmptyTree ELSE s.versions[Max(before)]
        BY DEF VersionAt
      <4> QED BY <1>2, <4>1
    <3> QED BY <2>2, <2>3, <2>4, <2>10, <2>12, <3>1, <3>2, <3>3
  <2> QED BY <2>14, <2>15
<1> QED
  BY <1>1, <1>2

-----------------------------------------------------------------------------
(* One more edition.                                                       *)

(* A list is still one when something is put at its end. *)
LEMMA OneMore ==
  ASSUME NEW s, IsSeq(s), NEW x
  PROVE  /\ IsSeq(Append(s, x)) /\ Len(Append(s, x)) = Len(s) + 1 /\ Len(s) \in Nat
         /\ \A i \in 1 .. Len(s) : Append(s, x)[i] = s[i]
         /\ Append(s, x)[Len(s) + 1] = x
<1>1. PICK S : S = Range(s) \cup {x}
  OBVIOUS
<1>2. s \in Seq(S) /\ x \in S
  BY <1>1 DEF IsSeq
<1>3. PICK r \in Seq(S) : r = Append(s, x)
  <2>1. Append(s, x) \in Seq(S)
    BY <1>2
  <2> QED BY <2>1, Zenon
<1>4. Len(r) = Len(s) + 1 /\ Len(s) \in Nat /\ (\A i \in 1 .. Len(s) : r[i] = s[i]) /\ r[Len(s) + 1] = x
  BY <1>2, <1>3
<1>5. r \in Seq(Range(r))
  BY DEF Range
<1> QED
  BY <1>3, <1>4, <1>5 DEF IsSeq

(* The beginning of a list is a list. *)
LEMMA OnlySoMany ==
  ASSUME NEW s, IsSeq(s), NEW n \in 0 .. Len(s)
  PROVE  /\ IsSeq(SubSeq(s, 1, n)) /\ Len(SubSeq(s, 1, n)) = n
         /\ \A i \in 1 .. n : SubSeq(s, 1, n)[i] = s[i]
<1>1. PICK S : S = Range(s)
  OBVIOUS
<1>2. s \in Seq(S) /\ Len(s) \in Nat
  BY <1>1 DEF IsSeq
<1>3. PICK r : r = SubSeq(s, 1, n)
  OBVIOUS
<1>4. r \in Seq(S) /\ Len(r) = n /\ \A i \in 1 .. n : r[i] = s[i]
  BY <1>2, <1>3
<1>5. r \in Seq(Range(r))
  BY <1>4 DEF Range
<1> QED
  BY <1>3, <1>4, <1>5 DEF IsSeq

(* An edition's diffs are its log's and, of its copies, its tree's. *)
EntryDiff(x, v, id) ==
  CASE x[1] = "update" /\ x[2] = id -> x[3]
    [] x[1] = "graft" /\ InBlock(id, x[2], x[3]) -> Weight(v, id)
    [] OTHER -> 0

EntriesDiff(entries, v, id) == [i \in DOMAIN entries |-> EntryDiff(entries[i], v, id)]

(* What an edition adds up to depends on its own log and its own tree. *)
LEMMA SummedIs ==
  ASSUME NEW s, NEW e, NEW id, NEW v,
         \A i \in DOMAIN Logged(s, e) : Logged(s, e)[i][1] = "graft" => s.versions[e] = v
  PROVE  Summed(s, e, id) = Total(EntriesDiff(Logged(s, e), v, id), 0, Len(Logged(s, e)))
<1> DEFINE L == Logged(s, e)
<1>1. ASSUME NEW i \in DOMAIN L PROVE DiffsOf(s, e, id)[i] = EntryDiff(L[i], v, id)
  BY <1>1 DEF DiffsOf, EntryDiff
<1>2. DiffsOf(s, e, id) = [i \in DOMAIN L |-> DiffsOf(s, e, id)[i]]
  BY DEF DiffsOf
<1>3. DiffsOf(s, e, id) = EntriesDiff(L, v, id)
  <2> HIDE DEF L
  <2> QED BY <1>1, <1>2 DEF EntriesDiff
<1> QED
  BY <1>3 DEF Summed

(* A state that has one edition more: its patch, its log, its tree.        *)
Extends(t, s, e, patch, entries, v) ==
  /\ e = s.current + 1 /\ t.current = e /\ t.watermark = s.watermark
  /\ t = [current |-> t.current, watermark |-> t.watermark, versions |-> t.versions, log |-> t.log,
          patches |-> t.patches, grafts |-> t.grafts, ctx |-> t.ctx, registered |-> t.registered,
          fired |-> t.fired]
  /\ t.registered = s.registered /\ s.fired \subseteq t.fired
  /\ s.grafts \subseteq t.grafts /\ GraftsOK(t.grafts, e)
  /\ t.patches = Put(s.patches, e, patch) /\ PatchOK(patch, t.log, e)
  /\ entries \in Seq(Entries)
  /\ t.log = Put(s.log, e, entries) \/ (t.log = s.log /\ entries = << >>)
  /\ TreeOK(v)
  /\ t.versions = Put(s.versions, e, v) \/ (t.versions = s.versions /\ v = Now(s) /\ entries = << >>)

(* One edition more leaves the trees and the logs of the others alone. *)
LEMMA ExtendedKeeps ==
  ASSUME NEW s, InnerOK(s), NEW t, NEW e, NEW patch, NEW entries, NEW v, Extends(t, s, e, patch, entries, v)
  PROVE  /\ \A d \in Int : d <= s.current => VersionAt(t, d) = VersionAt(s, d)
         /\ VersionAt(t, e) = v
         /\ \A d \in Int : d <= s.current => Logged(t, d) = Logged(s, d)
         /\ Logged(t, e) = entries
         /\ \A d \in DOMAIN s.versions : d \in DOMAIN t.versions /\ t.versions[d] = s.versions[d]
         /\ \A d \in DOMAIN t.log : d = e \/ (d \in DOMAIN s.log /\ t.log[d] = s.log[d])
         /\ e \in DOMAIN t.log => t.log[e] = entries
<1>1. s.current \in Nat /\ e \in Nat /\ e = s.current + 1 /\ e > s.current
  BY DEF InnerOK, Extends
<1>2. DOMAIN s.versions \in SUBSET Int /\ (\A d \in DOMAIN s.versions : d <= s.current)
      /\ DOMAIN s.log \in SUBSET Int /\ (\A d \in DOMAIN s.log : d <= s.current)
  BY DEF InnerOK, VersionsOK, LogOK
<1>3. e \notin DOMAIN s.versions /\ e \notin DOMAIN s.log
  BY <1>1, <1>2
<1>4. ASSUME t.versions = Put(s.versions, e, v)
      PROVE  /\ \A d \in Int : d <= s.current => VersionAt(t, d) = VersionAt(s, d)
             /\ VersionAt(t, e) = v
             /\ \A d \in DOMAIN s.versions : d \in DOMAIN t.versions /\ t.versions[d] = s.versions[d]
  <2>1. /\ DOMAIN t.versions = DOMAIN s.versions \cup {e} /\ t.versions[e] = v
        /\ \A d \in DOMAIN s.versions : t.versions[d] = s.versions[d]
    BY <1>3, <1>4 DEF Put
  <2>2. DOMAIN t.versions \in SUBSET Int /\ e \in DOMAIN t.versions
    BY <1>1, <1>2, <2>1
  <2>3. VersionAt(t, e) = v
    BY <2>1, <2>2, VersionMade
  <2>4. ASSUME NEW d \in Int, d <= s.current PROVE VersionAt(s, d) = VersionAt(t, d)
    <3>1. {w \in DOMAIN s.versions : w <= d} = {w \in DOMAIN t.versions : w <= d}
      BY <1>1, <2>1, <2>4
    <3> QED BY <1>2, <2>1, <3>1, VersionAgrees
  <2> QED BY <2>1, <2>3, <2>4
<1>5. ASSUME t.versions = s.versions, v = Now(s)
      PROVE  /\ \A d \in Int : d <= s.current => VersionAt(t, d) = VersionAt(s, d)
             /\ VersionAt(t, e) = v
             /\ \A d \in DOMAIN s.versions : d \in DOMAIN t.versions /\ t.versions[d] = s.versions[d]
  <2>1. ASSUME NEW d \in Int PROVE VersionAt(s, d) = VersionAt(t, d)
    BY <1>2, <1>5, VersionAgrees
  <2>2. VersionAt(s, s.current) = VersionAt(s, e)
    <3>1. {w \in DOMAIN s.versions : w <= s.current} = {w \in DOMAIN s.versions : w <= e}
      BY <1>1, <1>2
    <3> QED BY <1>1, <1>2, <3>1, VersionAgrees
  <2> QED BY <1>1, <1>5, <2>1, <2>2 DEF Now
<1>6. /\ \A d \in Int : d <= s.current => VersionAt(t, d) = VersionAt(s, d)
      /\ VersionAt(t, e) = v
      /\ \A d \in DOMAIN s.versions : d \in DOMAIN t.versions /\ t.versions[d] = s.versions[d]
  <2>1. t.versions = Put(s.versions, e, v) \/ (t.versions = s.versions /\ v = Now(s) /\ entries = << >>)
    BY DEF Extends
  <2> QED BY <1>4, <1>5, <2>1
<1>7. CASE t.log = Put(s.log, e, entries)
  <2>1. /\ DOMAIN t.log = DOMAIN s.log \cup {e} /\ t.log[e] = entries
        /\ \A d \in DOMAIN s.log : t.log[d] = s.log[d]
    BY <1>3, <1>7 DEF Put
  <2>2. ASSUME NEW d \in Int, d <= s.current PROVE Logged(t, d) = Logged(s, d)
    <3>1. d # e
      BY <1>1, <2>2
    <3> QED BY <2>1, <3>1 DEF Logged
  <2>3. Logged(t, e) = entries
    BY <2>1 DEF Logged
  <2> QED BY <1>6, <2>1, <2>2, <2>3
<1>8. CASE t.log = s.log /\ entries = << >>
  BY <1>3, <1>6, <1>8 DEF Logged
<1> QED
  BY <1>7, <1>8 DEF Extends

(* One edition more is in order, if what it made is. *)
LEMMA ExtendedInOrder ==
  ASSUME NEW s, InnerOK(s), NEW t, NEW e, NEW patch, NEW entries, NEW v, Extends(t, s, e, patch, entries, v)
  PROVE  InnerOK(t)
<1>1. s.current \in Nat /\ e \in Nat /\ e = s.current + 1 /\ s.watermark \in 0 .. s.current
      /\ t.current = e /\ t.watermark = s.watermark
  BY DEF InnerOK, Extends
<1>2. t.current \in Nat /\ t.watermark \in 0 .. t.current
  BY <1>1
<1>3. VersionsOK(t.versions, e)
  <2>1. VersionsOK(s.versions, s.current)
    BY DEF InnerOK
  <2>2. CASE t.versions = Put(s.versions, e, v)
    <3>1. /\ DOMAIN t.versions = DOMAIN s.versions \cup {e} /\ t.versions[e] = v
          /\ IsMap(t.versions)
          /\ \A d \in DOMAIN s.versions : d # e => t.versions[d] = s.versions[d]
      BY <2>2 DEF Put, IsMap
    <3>2. \A d \in DOMAIN t.versions : TreeOK(t.versions[d])
      BY <2>1, <3>1 DEF VersionsOK, Extends
    <3>3. DOMAIN t.versions \subseteq 1 .. e
      BY <1>1, <2>1, <3>1 DEF VersionsOK
    <3> QED BY <3>1, <3>2, <3>3 DEF VersionsOK
  <2>3. CASE t.versions = s.versions
    <3>1. DOMAIN t.versions \subseteq 1 .. e
      BY <1>1, <2>1, <2>3 DEF VersionsOK
    <3> QED BY <2>1, <2>3, <3>1 DEF VersionsOK
  <2> QED BY <2>2, <2>3 DEF Extends
<1>4. LogOK(t.log, t.watermark, e)
  <2>1. LogOK(s.log, s.watermark, s.current)
    BY DEF InnerOK
  <2>2. CASE t.log = Put(s.log, e, entries)
    <3>1. /\ DOMAIN t.log = DOMAIN s.log \cup {e} /\ t.log[e] = entries
          /\ IsMap(t.log)
          /\ \A d \in DOMAIN s.log : d # e => t.log[d] = s.log[d]
      BY <2>2 DEF Put, IsMap
    <3>2. \A d \in DOMAIN t.log : t.log[d] \in Seq(Entries)
      BY <2>1, <3>1 DEF LogOK, Extends
    <3>3. DOMAIN t.log \subseteq t.watermark + 1 .. e
      BY <1>1, <2>1, <3>1 DEF LogOK
    <3> QED BY <3>1, <3>2, <3>3 DEF LogOK
  <2>3. CASE t.log = s.log
    <3>1. DOMAIN t.log \subseteq t.watermark + 1 .. e
      BY <1>1, <2>1, <2>3 DEF LogOK
    <3> QED BY <2>1, <2>3, <3>1 DEF LogOK
  <2> QED BY <2>2, <2>3 DEF Extends
<1>5. PatchesOK(t.patches, t.log, t.watermark, e)
  <2>1. PatchesOK(s.patches, s.log, s.watermark, s.current)
    BY DEF InnerOK
  <2>2. /\ DOMAIN t.patches = DOMAIN s.patches \cup {e} /\ t.patches[e] = patch
        /\ IsMap(t.patches)
        /\ \A d \in DOMAIN s.patches : d # e => t.patches[d] = s.patches[d]
    BY DEF Extends, Put, IsMap
  <2>3. \A d \in DOMAIN s.log : d # e => d \in DOMAIN t.log /\ t.log[d] = s.log[d]
    BY DEF Extends, Put
  <2>4. ASSUME NEW d \in DOMAIN t.patches, d # e PROVE PatchOK(t.patches[d], t.log, d)
    <3>1. d \in DOMAIN s.patches /\ t.patches[d] = s.patches[d] /\ PatchOK(s.patches[d], s.log, d)
      BY <2>1, <2>2, <2>4 DEF PatchesOK
    <3> QED BY <2>3, <2>4, <3>1 DEF PatchOK
  <2>5. PatchOK(t.patches[e], t.log, e)
    BY <2>2 DEF Extends
  <2>6. DOMAIN t.patches \subseteq t.watermark + 1 .. e
    BY <1>1, <2>1, <2>2 DEF PatchesOK
  <2> QED BY <2>2, <2>4, <2>5, <2>6 DEF PatchesOK
<1> QED
  BY <1>1, <1>2, <1>3, <1>4, <1>5 DEF InnerOK, Extends

(* One more edition keeps everything that is said of a branch, if its log  *)
(* adds up, its copies are on record and its watchers are told.            *)
LEMMA ExtendedGood ==
  ASSUME NEW s, NEW told_b, Good(s, told_b),
         NEW t, NEW e, NEW patch, NEW entries, NEW v, Extends(t, s, e, patch, entries, v),
         \A id \in 1 .. MaxId : Total(EntriesDiff(entries, v, id), 0, Len(entries)) = Weight(v, id) - Weight(Now(s), id),
         \A i \in DOMAIN entries :
           entries[i][1] = "graft" => CopyTraced(entries[i], e, t.versions, t.grafts, v, Now(s)),
         \A span \in DOMAIN s.registered : \A i \in DOMAIN entries :
           Covers(span, entries[i]) => <<span, e>> \in t.fired,
         NEW original
  PROVE  Good(t, Append(told_b, [original |-> original, rows |-> TreeRows(Now(t))]))
<1>1. s.current \in Nat /\ e \in Nat /\ e = s.current + 1 /\ s.watermark \in 0 .. s.current
      /\ t.current = e /\ t.watermark = s.watermark /\ InnerOK(s)
  BY DEF Good, InnerOK, Extends
<1>2. InnerOK(t)
  BY <1>1, ExtendedInOrder
<1>3. /\ \A d \in Int : d <= s.current => VersionAt(t, d) = VersionAt(s, d)
      /\ VersionAt(t, e) = v
      /\ \A d \in Int : d <= s.current => Logged(t, d) = Logged(s, d)
      /\ Logged(t, e) = entries
      /\ \A d \in DOMAIN s.versions : d \in DOMAIN t.versions /\ t.versions[d] = s.versions[d]
      /\ \A d \in DOMAIN t.log : d = e \/ (d \in DOMAIN s.log /\ t.log[d] = s.log[d])
      /\ e \in DOMAIN t.log => t.log[e] = entries
  BY <1>1, ExtendedKeeps
<1>4. VersionAt(t, e - 1) = Now(s) /\ Now(t) = v
  BY <1>1, <1>3 DEF Now
<1>5. DOMAIN s.log \subseteq s.watermark + 1 .. s.current
  BY <1>1 DEF InnerOK, LogOK
<1> DEFINE x == [original |-> original, rows |-> TreeRows(Now(t))]
           told_t == Append(told_b, x)
<1>6. Faithful(t, told_t)
  <2>1. Faithful(s, told_b)
    BY DEF Good
  <2>2. /\ IsSeq(told_t) /\ Len(told_t) = e
        /\ \A d \in 1 .. s.current : told_t[d] = told_b[d]
        /\ told_t[e] = x
    <3>1. IsSeq(told_b) /\ Len(told_b) = s.current
      BY <2>1 DEF Faithful
    <3> HIDE DEF x
    <3> QED BY <1>1, <3>1, OneMore
  <2>3. told_t[e].rows = TreeRows(VersionAt(t, e))
    BY <1>3, <1>4, <2>2
  <2> HIDE DEF told_t, x
  <2>4. ASSUME NEW d \in t.watermark .. t.current PROVE TreeRows(VersionAt(t, d)) = RowsIn(told_t, d)
    <3>1. CASE d = e
      BY <1>1, <2>3, <3>1 DEF RowsIn
    <3>2. CASE d # e
      <4>1. d \in s.watermark .. s.current /\ d \in Int /\ d <= s.current
        BY <1>1, <3>2
      <4>2. TreeRows(VersionAt(s, d)) = RowsIn(told_b, d)
        BY <2>1, <4>1 DEF Faithful
      <4>3. RowsIn(told_b, d) = RowsIn(told_t, d)
        BY <1>1, <2>2, <4>1 DEF RowsIn
      <4> QED BY <1>3, <4>1, <4>2, <4>3
    <3> QED BY <3>1, <3>2
  <2>5. ASSUME NEW d \in t.watermark + 1 .. t.current, NEW id \in 1 .. MaxId
        PROVE  Summed(t, d, id) = Weight(VersionAt(t, d), id) - Weight(VersionAt(t, d - 1), id)
    <3>1. CASE d = e
      <4>1. ASSUME NEW i \in DOMAIN Logged(t, e), Logged(t, e)[i][1] = "graft" PROVE t.versions[e] = v
        <5>1. e \in DOMAIN t.versions
          BY <1>3, <4>1 DEF CopyTraced
        <5>2. DOMAIN t.versions \in SUBSET Int
          BY <1>2 DEF InnerOK, VersionsOK
        <5> QED BY <1>3, <5>1, <5>2, VersionMade
      <4>2. Summed(t, e, id) = Total(EntriesDiff(entries, v, id), 0, Len(entries))
        BY <1>3, <4>1, SummedIs
      <4> QED BY <1>3, <1>4, <3>1, <4>2
    <3>2. CASE d # e
      <4>1. d \in s.watermark + 1 .. s.current /\ d \in Int /\ d <= s.current /\ d - 1 \in Int /\ d - 1 <= s.current
        BY <1>1, <3>2
      <4>2. Logged(t, d) = Logged(s, d) /\ VersionAt(t, d) = VersionAt(s, d) /\ VersionAt(t, d - 1) = VersionAt(s, d - 1)
        BY <1>3, <4>1
      <4>3. ASSUME NEW i \in DOMAIN Logged(s, d), Logged(s, d)[i][1] = "graft"
            PROVE  t.versions[d] = s.versions[d]
        <5>1. d \in DOMAIN s.log /\ Logged(s, d) = s.log[d]
          BY <4>3 DEF Logged
        <5>2. d \in DOMAIN s.versions
          BY <4>3, <5>1 DEF Good, Traced, CopyTraced
        <5> QED BY <1>3, <5>2
      <4>4. Summed(t, d, id) = Total(EntriesDiff(Logged(s, d), s.versions[d], id), 0, Len(Logged(s, d)))
        BY <4>2, <4>3, SummedIs
      <4>5. Summed(s, d, id) = Total(EntriesDiff(Logged(s, d), s.versions[d], id), 0, Len(Logged(s, d)))
        BY SummedIs
      <4>6. Summed(s, d, id) = Weight(VersionAt(s, d), id) - Weight(VersionAt(s, d - 1), id)
        BY <2>1, <4>1 DEF Faithful
      <4> QED BY <4>2, <4>4, <4>5, <4>6
    <3> QED BY <3>1, <3>2
  <2> QED BY <1>1, <2>2, <2>4, <2>5 DEF Faithful
<1>7. Traced(t)
  <2>1. ASSUME NEW d \in DOMAIN t.log, NEW i \in DOMAIN t.log[d], t.log[d][i][1] = "graft"
        PROVE  CopyTraced(t.log[d][i], d, t.versions, t.grafts, VersionAt(t, d), VersionAt(t, d - 1))
    <3>1. CASE d = e
      BY <1>3, <1>4, <2>1, <3>1
    <3>2. CASE d # e
      <4>1. d \in DOMAIN s.log /\ t.log[d] = s.log[d]
        BY <1>3, <3>2
      <4>2. d \in Int /\ d <= s.current /\ d - 1 \in Int /\ d - 1 <= s.current
        BY <1>1, <1>5, <4>1
      <4>3. CopyTraced(s.log[d][i], d, s.versions, s.grafts, VersionAt(s, d), VersionAt(s, d - 1))
        BY <2>1, <4>1 DEF Good, Traced
      <4>4. s.grafts \subseteq t.grafts
        BY DEF Extends
      <4>5. VersionAt(t, d) = VersionAt(s, d) /\ VersionAt(t, d - 1) = VersionAt(s, d - 1)
        BY <1>3, <4>2
      <4> QED BY <1>3, <4>1, <4>3, <4>4, <4>5 DEF CopyTraced
    <3> QED BY <3>1, <3>2
  <2> QED BY <2>1 DEF Traced
<1>8. Routed(t)
  <2>1. t.registered = s.registered /\ s.fired \subseteq t.fired /\ Routed(s)
    BY DEF Extends, Good
  <2>2. ASSUME NEW span \in DOMAIN t.registered
        PROVE  /\ span \in Spans /\ t.registered[span] \in 0 .. t.current
               /\ \A d \in DOMAIN t.log : \A i \in DOMAIN t.log[d] :
                    t.registered[span] < d /\ Covers(span, t.log[d][i]) => <<span, d>> \in t.fired
    <3>1. span \in DOMAIN s.registered /\ span \in Spans /\ s.registered[span] \in 0 .. s.current
      BY <2>1 DEF Routed
    <3>2. t.registered[span] \in 0 .. t.current
      BY <1>1, <2>1, <3>1
    <3>3. ASSUME NEW d \in DOMAIN t.log, NEW i \in DOMAIN t.log[d],
                 t.registered[span] < d, Covers(span, t.log[d][i])
          PROVE  <<span, d>> \in t.fired
      <4>1. CASE d = e
        BY <1>3, <3>1, <3>3, <4>1
      <4>2. CASE d # e
        <5>1. d \in DOMAIN s.log /\ t.log[d] = s.log[d]
          BY <1>3, <4>2
        <5> QED BY <2>1, <3>1, <3>3, <5>1 DEF Routed
      <4> QED BY <4>1, <4>2
    <3> QED BY <3>1, <3>2, <3>3
  <2> QED BY <2>2 DEF Routed
<1> QED
  BY <1>2, <1>6, <1>7, <1>8 DEF Good

(* A commit keeps what is said of a branch (apply). *)
LEMMA ApplyGood ==
  ASSUME NEW s, NEW told_b, Good(s, told_b), NEW pre, NEW updates \in Seq((1 .. MaxId) \X Int), NEW origin, NEW original
  PROVE  Good(Apply(s, pre, updates, origin),
              Append(told_b, [original |-> original, rows |-> TreeRows(Now(Apply(s, pre, updates, origin)))]))
<1>1. PICK t : t = Apply(s, pre, updates, origin)
  OBVIOUS
<1>2. PICK e : e = s.current + 1
  OBVIOUS
<1>3. s.current \in Nat /\ InnerOK(s) /\ e \in Nat
  BY <1>2 DEF Good, InnerOK
<1> DEFINE entries == [i \in DOMAIN updates |-> <<"update", updates[i][1], updates[i][2]>>]
           v == IF updates = << >> THEN Now(s) ELSE Folded(Now(s), updates)
           patch == [kind |-> "commit", pre |-> pre, origin |-> origin]
<1>4. /\ t.current = e /\ t.watermark = s.watermark /\ t.registered = s.registered /\ t.grafts = s.grafts
      /\ t.patches = Put(s.patches, e, patch) /\ t.log = Put(s.log, e, entries)
      /\ t.versions = IF updates = << >> THEN s.versions ELSE Put(s.versions, e, Folded(Now(s), updates))
      /\ t.fired = s.fired \cup {<<span, e>> : span \in Stabbed(s, updates)}
      /\ t = [current |-> t.current, watermark |-> t.watermark, versions |-> t.versions, log |-> t.log,
              patches |-> t.patches, grafts |-> t.grafts, ctx |-> t.ctx, registered |-> t.registered,
              fired |-> t.fired]
  <2>1. s = [current |-> s.current, watermark |-> s.watermark, versions |-> s.versions, log |-> s.log,
             patches |-> s.patches, grafts |-> s.grafts, ctx |-> s.ctx, registered |-> s.registered,
             fired |-> s.fired]
    BY <1>3 DEF InnerOK
  <2> QED BY <1>1, <1>2, <2>1 DEF Apply
<1>5. DOMAIN updates = 1 .. Len(updates) /\ Len(updates) \in Nat
      /\ \A i \in DOMAIN updates : updates[i][1] \in 1 .. MaxId /\ updates[i][1] \in Int /\ updates[i][2] \in Int
  <2>1. ASSUME NEW i \in DOMAIN updates PROVE updates[i] \in (1 .. MaxId) \X Int
    OBVIOUS
  <2> QED BY <2>1
<1>6. updates \in Seq(Int \X Int)
  <2>1. \A i \in DOMAIN updates : updates[i] \in Int \X Int
    <3>1. ASSUME NEW i \in DOMAIN updates PROVE updates[i] \in Int \X Int
      <4>1. updates[i] \in (1 .. MaxId) \X Int
        OBVIOUS
      <4> QED BY <4>1
    <3> QED BY <3>1
  <2> QED BY <2>1
<1>7. TreeOK(Now(s))
  <2>1. s.current \in Nat /\ s.current \in Int /\ VersionsOK(s.versions, s.current)
    BY <1>3 DEF InnerOK
  <2>2. TreeOK(VersionAt(s, s.current))
    BY <2>1, VersionIsTree, Zenon
  <2> QED BY <2>2 DEF Now
<1>8. /\ TreeOK(v)
      /\ \A id \in Int : /\ Total(AddedTo(updates, id), 0, Len(updates)) \in Int
                         /\ Weight(v, id) = Weight(Now(s), id) + Total(AddedTo(updates, id), 0, Len(updates))
  <2>1. CASE updates = << >>
    <3>1. \A id \in Int : Total(AddedTo(updates, id), 0, Len(updates)) = 0 /\ Weight(Now(s), id) \in Int
      <4>1. Len(updates) = 0
        BY <2>1
      <4> QED BY <1>7, <4>1, TotalStep, WeightIs
    <3> QED BY <1>7, <2>1, <3>1
  <2>2. CASE updates # << >>
    BY <1>6, <1>7, <2>2, FoldedAdds
  <2> QED BY <2>1, <2>2
<1>9. /\ DOMAIN entries = DOMAIN updates /\ Len(entries) = Len(updates) /\ entries \in Seq(Entries)
      /\ \A i \in DOMAIN entries : entries[i] = <<"update", updates[i][1], updates[i][2]>>
  <2>1. \A i \in 1 .. Len(updates) : <<"update", updates[i][1], updates[i][2]>> \in Entries
    BY <1>5 DEF Entries
  <2>2. entries \in [1 .. Len(updates) -> Entries]
    BY <1>5, <2>1
  <2>3. entries \in Seq(Entries) /\ Len(entries) = Len(updates)
    <3> HIDE DEF entries
    <3>1. PICK n \in Nat : n = Len(updates)
      BY <1>5
    <3>2. entries \in [1 .. n -> Entries]
      BY <2>2, <3>1
    <3> HIDE DEF Entries
    <3>3. entries \in Seq(Entries)
      BY <3>2
    <3>4. DOMAIN entries = 1 .. n
      BY <3>2
    <3> QED BY <3>1, <3>3, <3>4
  <2> QED BY <2>3
<1>10. updates = << >> => entries = << >>
  BY <1>9
<1> HIDE DEF entries, v
<1>11. PatchOK(patch, t.log, e)
  <2>1. e \in DOMAIN t.log /\ t.log[e] = entries
    BY <1>4 DEF Put
  <2>2. \A i \in DOMAIN entries : entries[i][1] = "update" /\ entries[i][2] \in 1 .. MaxId
    BY <1>5, <1>9
  <2> QED BY <2>1, <2>2 DEF PatchOK
<1>12. GraftsOK(t.grafts, e)
  BY <1>2, <1>3, <1>4 DEF InnerOK, GraftsOK
<1>13. t.versions = Put(s.versions, e, v) \/ (t.versions = s.versions /\ v = Now(s) /\ entries = << >>)
  BY <1>4, <1>10 DEF v
<1>14. Extends(t, s, e, patch, entries, v)
  <2> HIDE DEF patch
  <2> QED BY <1>2, <1>4, <1>8, <1>9, <1>11, <1>12, <1>13 DEF Extends
<1>15. ASSUME NEW id \in 1 .. MaxId
       PROVE  Total(EntriesDiff(entries, v, id), 0, Len(entries)) = Weight(v, id) - Weight(Now(s), id)
  <2>1. ASSUME NEW i \in DOMAIN updates PROVE EntryDiff(entries[i], v, id) = IF updates[i][1] = id THEN updates[i][2] ELSE 0
    BY <1>9 DEF EntryDiff
  <2>2. EntriesDiff(entries, v, id) = AddedTo(updates, id)
    BY <1>9, <2>1 DEF EntriesDiff, AddedTo
  <2>3. id \in Int
    OBVIOUS
  <2>4. Weight(Now(s), id) \in Int
    BY <1>7, <2>3, WeightIs
  <2> QED BY <1>8, <1>9, <2>2, <2>3, <2>4
<1>16. ASSUME NEW span \in DOMAIN s.registered, NEW i \in DOMAIN entries, Covers(span, entries[i])
       PROVE  <<span, e>> \in t.fired
  <2>1. span[1] <= updates[i][1] /\ updates[i][1] < span[2] /\ i \in DOMAIN updates
    BY <1>9, <1>16 DEF Covers
  <2>2. span \in Stabbed(s, updates)
    BY <2>1 DEF Stabbed
  <2> QED BY <1>4, <2>2
<1>17. \A i \in DOMAIN entries : entries[i][1] # "graft"
  BY <1>9
<1> HIDE DEF patch
<1> QED
  BY <1>1, <1>14, <1>15, <1>16, <1>17, ExtendedGood

(* A graft that is not refused keeps what is said of a branch: its copy is *)
(* an edition, a log entry, a span and a call of whoever watches its place.*)
LEMMA GraftGood ==
  ASSUME NEW s, NEW told_b, Good(s, told_b), NEW b \in Blocks, ~ GraftRefused(s, b), NEW origin, NEW original
  PROVE  Good(Graft(s, b, origin),
              Append(told_b, [original |-> original, rows |-> TreeRows(Now(Graft(s, b, origin)))]))
<1>1. PICK t : t = Graft(s, b, origin)
  OBVIOUS
<1>2. PICK e : e = s.current + 1
  OBVIOUS
<1>3. s.current \in Nat /\ InnerOK(s) /\ e \in Nat /\ e = s.current + 1
  BY <1>2 DEF Good, InnerOK
<1>4. BlockOK(b)
  BY BranchesAssumption DEF BlockOK
<1>5. PICK lo \in Int, hi \in Int, by \in Int : lo = b.lo /\ hi = b.hi /\ by = b.by
  BY <1>4 DEF BlockOK
<1> DEFINE copied == Copies(Now(s), b) # {}
           x == <<"graft", b.lo + b.by, b.hi + b.by>>
           patch == [kind |-> "graft", block |-> b, origin |-> origin]
<1>6. /\ t.current = e /\ t.watermark = s.watermark /\ t.registered = s.registered
      /\ t.grafts = (IF copied THEN s.grafts \cup {Span(b, e)} ELSE s.grafts)
      /\ t.patches = Put(s.patches, e, patch)
      /\ t.log = (IF copied THEN Put(s.log, e, <<x>>) ELSE s.log)
      /\ t.versions = (IF copied THEN Put(s.versions, e, Spliced(Now(s), b)) ELSE s.versions)
      /\ t.fired = (IF copied THEN s.fired \cup {<<span, e>> : span \in Overlapped(s, b.lo + b.by, b.hi + b.by)}
                    ELSE s.fired)
      /\ t = [current |-> t.current, watermark |-> t.watermark, versions |-> t.versions, log |-> t.log,
              patches |-> t.patches, grafts |-> t.grafts, ctx |-> t.ctx, registered |-> t.registered,
              fired |-> t.fired]
  <2>1. s = [current |-> s.current, watermark |-> s.watermark, versions |-> s.versions, log |-> s.log,
             patches |-> s.patches, grafts |-> s.grafts, ctx |-> s.ctx, registered |-> s.registered,
             fired |-> s.fired]
    BY <1>3 DEF InnerOK
  <2> QED BY <1>1, <1>2, <2>1 DEF Graft
<1>7. TreeOK(Now(s))
  BY <1>3, VersionIsTree DEF InnerOK, Now
<1>8. PatchOK(patch, t.log, e)
  BY DEF PatchOK
<1> HIDE DEF patch
<1>9. CASE ~ copied
  <2>1. GraftsOK(t.grafts, e)
    BY <1>3, <1>6, <1>9 DEF InnerOK, GraftsOK
  <2>2. Extends(t, s, e, patch, << >>, Now(s))
    BY <1>2, <1>6, <1>7, <1>8, <1>9, <2>1 DEF Extends
  <2>3. ASSUME NEW id \in 1 .. MaxId
        PROVE  Total(EntriesDiff(<< >>, Now(s), id), 0, Len(<< >>)) = Weight(Now(s), id) - Weight(Now(s), id)
    <3>1. Weight(Now(s), id) \in Int
      BY <1>7, WeightIs
    <3> QED BY <3>1, TotalStep
  <2>4. DOMAIN << >> = {}
    OBVIOUS
  <2> QED BY <1>1, <2>2, <2>3, <2>4, ExtendedGood
<1>10. CASE copied
  <2>1. \A id \in DOMAIN TreeRows(Now(s)) : ~ InBlock(id, b.lo + b.by, b.hi + b.by)
    BY <1>10 DEF GraftRefused
  <2>2. PICK v : v = Spliced(Now(s), b)
    OBVIOUS
  <2>3. /\ TreeOK(v)
        /\ \A id \in Int : IF InBlock(id, b.lo + b.by, b.hi + b.by)
                           THEN Weight(Now(s), id) = 0 /\ Weight(v, id) = Weight(Now(s), id - b.by)
                           ELSE Weight(v, id) = Weight(Now(s), id)
    BY <1>4, <1>7, <2>1, <2>2, SplicedMoves
  <2>4. lo < hi
    <3>1. LeafOf(lo) \in LeafOf(lo) .. LeafOf(hi - 1)
      <4>1. LeafOf(lo) \in Int /\ LeafOf(hi - 1) \in Int
        BY LeafIsWhole
      <4>2. LeafOf(lo) .. LeafOf(hi - 1) # {}
        BY <1>5, <1>10 DEF Copies
      <4> QED BY <4>1, <4>2
    <3>2. InBlock(lo, lo, hi)
      BY <1>4, <1>5, <3>1, BlockIsLeaves DEF BlockOK
    <3> QED BY <3>2 DEF InBlock
  <2>5. x = <<"graft", lo + by, hi + by>> /\ x \in Entries /\ <<x>> \in Seq(Entries)
        /\ DOMAIN <<x>> = {1} /\ <<x>>[1] = x /\ Len(<<x>>) = 1
    <3>1. x = <<"graft", lo + by, hi + by>> /\ x \in Entries
      BY <1>5 DEF Entries
    <3> HIDE DEF x
    <3> QED BY <3>1
  <2>6. x[1] = "graft" /\ x[2] = lo + by /\ x[3] = hi + by
    BY <1>5
  <2> HIDE DEF x
  <2>7. GraftsOK(t.grafts, e)
    <3>1. t.grafts = s.grafts \cup {Span(b, e)} /\ Span(b, e).edition = e
      BY <1>6, <1>10 DEF Span
    <3>2. GraftsOK(s.grafts, s.current)
      BY <1>3 DEF InnerOK
    <3>3. ASSUME NEW g \in s.grafts PROVE g.edition \in 1 .. e /\ g.edition # e
      BY <1>3, <3>2 DEF GraftsOK
    <3>4. ASSUME NEW g \in t.grafts
          PROVE  g.edition \in 1 .. e /\ \E c \in Blocks : BlockOK(c) /\ c.lo < c.hi /\ g = Span(c, g.edition)
      <4>1. CASE g \in s.grafts
        BY <3>2, <3>3, <4>1 DEF GraftsOK
      <4>2. CASE g = Span(b, e)
        BY <1>3, <1>4, <1>5, <2>4, <3>1, <4>2
      <4> QED BY <3>1, <4>1, <4>2
    <3>5. ASSUME NEW g \in t.grafts, NEW h \in t.grafts, g.edition = h.edition PROVE g = h
      BY <3>1, <3>2, <3>3, <3>5 DEF GraftsOK
    <3> QED BY <3>4, <3>5 DEF GraftsOK
  <2>8. Extends(t, s, e, patch, <<x>>, v)
    <3>1. t.log = Put(s.log, e, <<x>>) /\ t.versions = Put(s.versions, e, v) /\ s.grafts \subseteq t.grafts
          /\ s.fired \subseteq t.fired
      BY <1>6, <1>10, <2>2
    <3> HIDE DEF copied
    <3> QED BY <1>2, <1>6, <1>8, <2>3, <2>5, <2>7, <3>1 DEF Extends
  <2>9. ASSUME NEW id \in 1 .. MaxId
        PROVE  Total(EntriesDiff(<<x>>, v, id), 0, Len(<<x>>)) = Weight(v, id) - Weight(Now(s), id)
    <3>1. Total(EntriesDiff(<<x>>, v, id), 0, 0 + 1) = 0 + EntriesDiff(<<x>>, v, id)[0 + 1]
      <4>1. PICK f : f = EntriesDiff(<<x>>, v, id)
        OBVIOUS
      <4>2. 0 \in Nat /\ 0 <= 0
        OBVIOUS
      <4>3. Total(f, 0, 0) = 0 /\ Total(f, 0, 0 + 1) = Total(f, 0, 0) + f[0 + 1]
        BY <4>2, TotalStep, Zenon
      <4> QED BY <4>1, <4>3
    <3>2. EntriesDiff(<<x>>, v, id)[1] = EntryDiff(x, v, id)
      BY <2>5 DEF EntriesDiff
    <3>3. EntryDiff(x, v, id) = IF InBlock(id, b.lo + b.by, b.hi + b.by) THEN Weight(v, id) ELSE 0
      BY <1>5, <2>6 DEF EntryDiff
    <3>4. Weight(v, id) \in Int /\ Weight(Now(s), id) \in Int /\ id \in Int
      BY <1>7, <2>3, WeightIs
    <3>5. Weight(v, id) - Weight(Now(s), id) = IF InBlock(id, b.lo + b.by, b.hi + b.by) THEN Weight(v, id) ELSE 0
      BY <2>3, <3>4
    <3>6. Total(EntriesDiff(<<x>>, v, id), 0, 1) = EntryDiff(x, v, id)
      BY <3>1, <3>2, <3>3, <3>4
    <3> QED BY <2>5, <3>3, <3>5, <3>6
  <2>10. CopyTraced(x, e, t.versions, t.grafts, v, Now(s))
    <3>1. e \in DOMAIN t.versions
      BY <1>6, <1>10 DEF Put
    <3>2. PICK g : g = Span(b, e)
      OBVIOUS
    <3>3. g \in t.grafts /\ g.edition = e /\ g.target = <<x[2], x[3]>> /\ g.source[1] = lo /\ g.target[1] = lo + by
      BY <1>5, <1>6, <1>10, <2>6, <3>2 DEF Span
    <3>4. ASSUME NEW id \in x[2] .. x[3] - 1 PROVE Weight(v, id) = Weight(Now(s), id + g.source[1] - g.target[1])
      <4>1. id \in Int /\ InBlock(id, b.lo + b.by, b.hi + b.by) /\ id + g.source[1] - g.target[1] = id - by
        BY <1>5, <2>6, <3>3 DEF InBlock
      <4> QED BY <1>5, <2>3, <4>1
    <3>5. x[2] < x[3]
      BY <2>4, <2>6
    <3> QED BY <3>1, <3>3, <3>4, <3>5 DEF CopyTraced
  <2>11. ASSUME NEW span \in DOMAIN s.registered, Covers(span, x) PROVE <<span, e>> \in t.fired
    <3>1. span \in Overlapped(s, b.lo + b.by, b.hi + b.by)
      BY <1>5, <2>6, <2>11 DEF Covers, Overlapped
    <3> QED BY <1>6, <1>10, <3>1
  <2>12. \A i \in DOMAIN <<x>> : <<x>>[i] = x
    BY <2>5
  <2> QED BY <1>1, <2>8, <2>9, <2>10, <2>11, <2>12, ExtendedGood
<1> QED
  BY <1>9, <1>10

-----------------------------------------------------------------------------
(* Fewer editions, or none more.                                           *)

Shaped(s) ==
  s = [current |-> s.current, watermark |-> s.watermark, versions |-> s.versions, log |-> s.log,
       patches |-> s.patches, grafts |-> s.grafts, ctx |-> s.ctx, registered |-> s.registered,
       fired |-> s.fired]

(* A state that has the trees, logs and copies of another, of the editions *)
(* it has, is as faithful and its copies are as traceable.                 *)
LEMMA SameThere ==
  ASSUME NEW s, NEW told_b, Good(s, told_b), NEW t, NEW told_t, InnerOK(t),
         s.watermark <= t.watermark, t.current <= s.current,
         IsSeq(told_t), Len(told_t) = t.current, \A d \in 1 .. t.current : told_t[d] = told_b[d],
         \A d \in t.watermark .. t.current : VersionAt(t, d) = VersionAt(s, d),
         \A d \in DOMAIN t.log : d \in DOMAIN s.log /\ t.log[d] = s.log[d],
         \A d \in DOMAIN s.log : d \in t.watermark + 1 .. t.current => d \in DOMAIN t.log,
         \A d \in DOMAIN s.versions :
           d \in t.watermark + 1 .. t.current => d \in DOMAIN t.versions /\ t.versions[d] = s.versions[d],
         \A g \in s.grafts : g.edition <= t.current => g \in t.grafts
  PROVE  Faithful(t, told_t) /\ Traced(t)
<1>1. /\ s.current \in Nat /\ s.watermark \in 0 .. s.current
      /\ t.current \in Nat /\ t.watermark \in 0 .. t.current
      /\ DOMAIN t.log \subseteq t.watermark + 1 .. t.current
  BY DEF Good, InnerOK, LogOK
<1>2. ASSUME NEW d \in DOMAIN t.log, NEW i \in DOMAIN t.log[d], t.log[d][i][1] = "graft"
      PROVE  /\ CopyTraced(t.log[d][i], d, t.versions, t.grafts, VersionAt(t, d), VersionAt(t, d - 1))
             /\ d \in DOMAIN s.versions /\ t.versions[d] = s.versions[d]
  <2>1. d \in t.watermark + 1 .. t.current /\ d \in t.watermark .. t.current /\ d - 1 \in t.watermark .. t.current
        /\ d <= t.current
    BY <1>1
  <2>2. CopyTraced(s.log[d][i], d, s.versions, s.grafts, VersionAt(s, d), VersionAt(s, d - 1))
    BY <1>2 DEF Good, Traced
  <2>3. d \in DOMAIN s.versions /\ s.log[d][i] = t.log[d][i]
    BY <2>2 DEF CopyTraced
  <2>4. VersionAt(t, d) = VersionAt(s, d) /\ VersionAt(t, d - 1) = VersionAt(s, d - 1)
    BY <2>1
  <2>5. d \in DOMAIN t.versions /\ t.versions[d] = s.versions[d]
    BY <2>1, <2>3
  <2>6. \A g \in s.grafts : g.edition = d => g \in t.grafts
    BY <2>1
  <2> QED BY <2>2, <2>3, <2>4, <2>5, <2>6 DEF CopyTraced
<1>3. Traced(t)
  BY <1>2 DEF Traced
<1>4. ASSUME NEW d \in t.watermark .. t.current PROVE TreeRows(VersionAt(t, d)) = RowsIn(told_t, d)
  <2>1. d \in s.watermark .. s.current
    BY <1>1
  <2>2. TreeRows(VersionAt(s, d)) = RowsIn(told_b, d)
    BY <2>1 DEF Good, Faithful
  <2>3. RowsIn(told_b, d) = RowsIn(told_t, d)
    BY <1>1 DEF RowsIn
  <2> QED BY <2>2, <2>3
<1>5. ASSUME NEW d \in t.watermark + 1 .. t.current, NEW id \in 1 .. MaxId
      PROVE  Summed(t, d, id) = Weight(VersionAt(t, d), id) - Weight(VersionAt(t, d - 1), id)
  <2>1. d \in s.watermark + 1 .. s.current /\ d \in t.watermark .. t.current /\ d - 1 \in t.watermark .. t.current
    BY <1>1
  <2>2. Logged(t, d) = Logged(s, d)
    <3>1. d \in DOMAIN t.log <=> d \in DOMAIN s.log
      OBVIOUS
    <3> QED BY <3>1 DEF Logged
  <2>3. ASSUME NEW i \in DOMAIN Logged(t, d), Logged(t, d)[i][1] = "graft" PROVE t.versions[d] = s.versions[d]
    <3>1. d \in DOMAIN t.log /\ Logged(t, d) = t.log[d]
      BY <2>3 DEF Logged
    <3> QED BY <1>2, <2>3, <3>1
  <2>4. Summed(t, d, id) = Total(EntriesDiff(Logged(t, d), s.versions[d], id), 0, Len(Logged(t, d)))
    BY <2>3, SummedIs
  <2>5. Summed(s, d, id) = Total(EntriesDiff(Logged(s, d), s.versions[d], id), 0, Len(Logged(s, d)))
    BY SummedIs
  <2>6. Summed(s, d, id) = Weight(VersionAt(s, d), id) - Weight(VersionAt(s, d - 1), id)
    BY <2>1 DEF Good, Faithful
  <2> QED BY <2>1, <2>2, <2>4, <2>5, <2>6
<1> QED
  BY <1>3, <1>4, <1>5 DEF Faithful

(* A fork has its parent's past, and neither its own patches nor watchers. *)
LEMMA ForkGood ==
  ASSUME NEW s, NEW told_b, Good(s, told_b), NEW at \in s.watermark .. s.current
  PROVE  Good(ForkOf(s, at), SubSeq(told_b, 1, at))
<1>1. PICK t : t = ForkOf(s, at)
  OBVIOUS
<1>2. s.current \in Nat /\ s.watermark \in 0 .. s.current /\ at \in Nat /\ at \in 0 .. s.current /\ InnerOK(s)
  BY DEF Good, InnerOK
<1>3. /\ Shaped(t) /\ t.current = at /\ t.watermark = s.watermark /\ t.versions = UpTo(s.versions, at)
      /\ t.log = UpTo(s.log, at) /\ t.grafts = AsOf(s.grafts, at) /\ t.patches = << >>
      /\ t.registered = << >> /\ t.fired = {}
  <2>1. Shaped(s)
    BY <1>2 DEF InnerOK, Shaped
  <2> QED BY <1>1, <2>1 DEF Shaped, ForkOf, Fresh
<1>4. /\ DOMAIN t.versions = {v \in DOMAIN s.versions : v <= at} /\ IsMap(t.versions)
      /\ \A v \in DOMAIN t.versions : t.versions[v] = s.versions[v]
      /\ DOMAIN t.log = {v \in DOMAIN s.log : v <= at} /\ IsMap(t.log)
      /\ \A v \in DOMAIN t.log : t.log[v] = s.log[v]
  BY <1>3 DEF UpTo, IsMap
<1>5. DOMAIN s.versions \subseteq 1 .. s.current /\ DOMAIN s.log \subseteq s.watermark + 1 .. s.current
  BY <1>2 DEF InnerOK, VersionsOK, LogOK
<1>6. VersionsOK(t.versions, at)
  <2>1. DOMAIN t.versions \subseteq 1 .. at
    BY <1>2, <1>4, <1>5
  <2> QED BY <1>2, <1>4, <2>1 DEF InnerOK, VersionsOK
<1>7. LogOK(t.log, t.watermark, at)
  <2>1. DOMAIN t.log \subseteq t.watermark + 1 .. at
    BY <1>2, <1>3, <1>4, <1>5
  <2> QED BY <1>2, <1>4, <2>1 DEF InnerOK, LogOK
<1>8. PatchesOK(t.patches, t.log, t.watermark, at)
  BY <1>3 DEF PatchesOK, IsMap
<1>9. GraftsOK(t.grafts, at)
  <2>1. GraftsOK(s.grafts, s.current)
    BY <1>2 DEF InnerOK
  <2>2. \A g \in t.grafts : g \in s.grafts /\ g.edition <= at
    BY <1>3 DEF AsOf
  <2>3. \A g \in t.grafts : g.edition \in 1 .. at
    BY <1>2, <2>1, <2>2 DEF GraftsOK
  <2> QED BY <2>1, <2>2, <2>3 DEF GraftsOK
<1>10. InnerOK(t)
  BY <1>2, <1>3, <1>6, <1>7, <1>8, <1>9 DEF InnerOK, Shaped
<1>11. PICK told_t : told_t = SubSeq(told_b, 1, at)
  OBVIOUS
<1>12. IsSeq(told_t) /\ Len(told_t) = t.current /\ \A d \in 1 .. t.current : told_t[d] = told_b[d]
  <2>1. IsSeq(told_b) /\ Len(told_b) = s.current
    BY DEF Good, Faithful
  <2>2. at \in 0 .. Len(told_b)
    BY <1>2, <2>1
  <2>3. /\ IsSeq(SubSeq(told_b, 1, at)) /\ Len(SubSeq(told_b, 1, at)) = at
        /\ \A d \in 1 .. at : SubSeq(told_b, 1, at)[d] = told_b[d]
    BY <2>1, <2>2, OnlySoMany
  <2> QED BY <1>3, <1>11, <2>3, Zenon
<1>13. ASSUME NEW d \in t.watermark .. t.current PROVE VersionAt(t, d) = VersionAt(s, d)
  <2>1. d \in Int /\ d <= at
    BY <1>2, <1>3
  <2>2. {v \in DOMAIN t.versions : v <= d} = {v \in DOMAIN s.versions : v <= d}
    BY <1>2, <1>4, <1>5, <2>1
  <2>3. DOMAIN t.versions \in SUBSET Int
    BY <1>4, <1>5
  <2> QED BY <1>4, <2>1, <2>2, <2>3, VersionAgrees
<1>14. \A d \in DOMAIN s.versions :
         d \in t.watermark + 1 .. t.current => d \in DOMAIN t.versions /\ t.versions[d] = s.versions[d]
  BY <1>3, <1>4
<1>15. \A d \in DOMAIN s.log : d \in t.watermark + 1 .. t.current => d \in DOMAIN t.log
  BY <1>3, <1>4
<1>16. \A g \in s.grafts : g.edition <= t.current => g \in t.grafts
  BY <1>3 DEF AsOf
<1>17. \A d \in DOMAIN t.log : d \in DOMAIN s.log /\ t.log[d] = s.log[d]
  BY <1>4
<1>18. s.watermark <= t.watermark /\ t.current <= s.current
  BY <1>2, <1>3
<1>19. Faithful(t, told_t) /\ Traced(t)
  BY <1>10, <1>12, <1>13, <1>14, <1>15, <1>16, <1>17, <1>18, SameThere
<1>20. Routed(t)
  BY <1>3 DEF Routed
<1> QED
  BY <1>1, <1>10, <1>11, <1>19, <1>20 DEF Good

(* What only changes the catalog, or drops the watchers, changes no tree,  *)
(* log, patch or copy.                                                     *)
LEMMA OnlyBeside ==
  ASSUME NEW s, NEW told_b, Good(s, told_b), NEW t, Shaped(t),
         t.current = s.current, t.watermark = s.watermark, t.versions = s.versions, t.log = s.log,
         t.patches = s.patches, t.grafts = s.grafts, Routed(t)
  PROVE  Good(t, told_b)
<1>1. InnerOK(s) /\ Faithful(s, told_b)
  BY DEF Good
<1>2. InnerOK(t)
  BY <1>1 DEF InnerOK, Shaped
<1>3. \A d : VersionAt(t, d) = VersionAt(s, d)
  BY DEF VersionAt
<1>4. IsSeq(told_b) /\ Len(told_b) = t.current
  BY <1>1 DEF Faithful
<1>5. s.watermark <= t.watermark /\ t.current <= s.current
  BY <1>1 DEF InnerOK
<1>6. Faithful(t, told_b) /\ Traced(t)
  BY <1>2, <1>3, <1>4, <1>5, SameThere
<1> QED
  BY <1>2, <1>6 DEF Good

(* Consolidation keeps what is said of the editions from its watermark on. *)
LEMMA ConsolidateGood ==
  ASSUME NEW s, NEW told_b, Good(s, told_b), NEW w \in s.watermark .. s.current, NEW t,
         t = [s EXCEPT !.versions = Checkpointed(s, w), !.log = Above(@, w), !.patches = Above(@, w), !.watermark = w],
         w > 0
  PROVE  Good(t, told_b)
<1>1. s.current \in Nat /\ s.watermark \in 0 .. s.current /\ w \in Nat /\ w \in 1 .. s.current /\ InnerOK(s)
  BY DEF Good, InnerOK
<1>2. /\ Shaped(t) /\ t.current = s.current /\ t.watermark = w /\ t.versions = Checkpointed(s, w)
      /\ t.log = Above(s.log, w) /\ t.patches = Above(s.patches, w) /\ t.grafts = s.grafts
      /\ t.registered = s.registered /\ t.fired = s.fired
  <2>1. Shaped(s)
    BY <1>1 DEF InnerOK, Shaped
  <2> QED BY <2>1 DEF Shaped
<1>3. VersionsOK(s.versions, s.current) /\ LogOK(s.log, s.watermark, s.current)
      /\ PatchesOK(s.patches, s.log, s.watermark, s.current)
  BY <1>1 DEF InnerOK
<1>4. /\ DOMAIN t.log = {d \in DOMAIN s.log : d > w} /\ IsMap(t.log)
      /\ \A d \in DOMAIN t.log : t.log[d] = s.log[d]
      /\ DOMAIN t.patches = {d \in DOMAIN s.patches : d > w} /\ IsMap(t.patches)
      /\ \A d \in DOMAIN t.patches : t.patches[d] = s.patches[d]
  BY <1>2 DEF Above, IsMap
<1>5. /\ IsMap(t.versions)
      /\ \A d \in DOMAIN t.versions :
           (d \in DOMAIN s.versions /\ t.versions[d] = s.versions[d]) \/ (d = w /\ t.versions[d] = VersionAt(s, w))
      /\ \A d \in DOMAIN s.versions : d > w => d \in DOMAIN t.versions /\ t.versions[d] = s.versions[d]
  <2>1. PICK above : above = Above(s.versions, w)
    OBVIOUS
  <2>2. /\ DOMAIN above = {d \in DOMAIN s.versions : d > w} /\ IsMap(above)
        /\ \A d \in DOMAIN above : above[d] = s.versions[d]
    BY <2>1 DEF Above, IsMap
  <2>3. \A d \in DOMAIN s.versions : d > w => d # w
    BY <1>1, <1>3 DEF VersionsOK
  <2>4. CASE \E v \in DOMAIN s.versions : v <= w
    <3>1. PICK kept : kept = VersionAt(s, w)
      OBVIOUS
    <3>2. t.versions = Put(above, w, kept)
      BY <1>2, <2>1, <2>4, <3>1 DEF Checkpointed
    <3>3. /\ DOMAIN t.versions = DOMAIN above \cup {w} /\ IsMap(t.versions)
          /\ \A d \in DOMAIN t.versions : t.versions[d] = IF d = w THEN kept ELSE above[d]
      BY <3>2 DEF Put, IsMap
    <3> QED BY <2>2, <2>3, <3>1, <3>3
  <2>5. CASE ~ \E v \in DOMAIN s.versions : v <= w
    <3>1. t.versions = above
      BY <1>2, <2>1, <2>5 DEF Checkpointed
    <3> QED BY <2>2, <3>1
  <2> QED BY <2>4, <2>5
<1>6. VersionsOK(t.versions, t.current)
  <2>1. DOMAIN t.versions \subseteq 1 .. t.current
    BY <1>1, <1>2, <1>3, <1>5 DEF VersionsOK
  <2>2. TreeOK(VersionAt(s, w))
    BY <1>1, <1>3, VersionIsTree
  <2> QED BY <1>3, <1>5, <2>1, <2>2 DEF VersionsOK
<1>7. LogOK(t.log, t.watermark, t.current)
  <2>1. DOMAIN t.log \subseteq t.watermark + 1 .. t.current
    BY <1>1, <1>2, <1>3, <1>4 DEF LogOK
  <2> QED BY <1>3, <1>4, <2>1 DEF LogOK
<1>8. PatchesOK(t.patches, t.log, t.watermark, t.current)
  <2>1. DOMAIN t.patches \subseteq t.watermark + 1 .. t.current
    BY <1>1, <1>2, <1>3, <1>4 DEF PatchesOK
  <2>2. ASSUME NEW d \in DOMAIN t.patches PROVE PatchOK(t.patches[d], t.log, d)
    <3>1. d \in DOMAIN s.patches /\ d > w /\ PatchOK(s.patches[d], s.log, d)
      BY <1>3, <1>4 DEF PatchesOK
    <3> QED BY <1>4, <3>1 DEF PatchOK
  <2> QED BY <1>4, <2>1, <2>2 DEF PatchesOK
<1>9. InnerOK(t)
  <2>1. t.current \in Nat /\ t.watermark \in 0 .. t.current /\ GraftsOK(t.grafts, t.current)
    BY <1>1, <1>2 DEF InnerOK
  <2> QED BY <1>2, <1>6, <1>7, <1>8, <2>1 DEF InnerOK, Shaped
<1>10. ASSUME NEW d \in t.watermark .. t.current PROVE VersionAt(t, d) = VersionAt(s, d)
  <2>1. d \in Int /\ w <= d /\ w \in Int /\ DOMAIN s.versions \in SUBSET Int
    BY <1>1, <1>2, <1>3 DEF VersionsOK
  <2>2. PICK x \in Int, y \in Int : x = w /\ y = d
    BY <2>1
  <2>3. PICK u : u = t
    OBVIOUS
  <2>4. u.versions = Checkpointed(s, x) /\ x <= y /\ DOMAIN s.versions \in SUBSET Int
    BY <1>2, <2>1, <2>2, <2>3
  <2>5. VersionAt(u, y) = VersionAt(s, y)
    BY <2>4, VersionKept
  <2> QED BY <2>2, <2>3, <2>5
<1>11. IsSeq(told_b) /\ Len(told_b) = t.current
  BY <1>2 DEF Good, Faithful
<1>12. \A d \in DOMAIN s.versions :
         d \in t.watermark + 1 .. t.current => d \in DOMAIN t.versions /\ t.versions[d] = s.versions[d]
  BY <1>1, <1>2, <1>5
<1>13. \A d \in DOMAIN s.log : d \in t.watermark + 1 .. t.current => d \in DOMAIN t.log
  BY <1>1, <1>2, <1>4
<1>14. \A d \in DOMAIN t.log : d \in DOMAIN s.log /\ t.log[d] = s.log[d]
  BY <1>4
<1>15. s.watermark <= t.watermark /\ t.current <= s.current
  BY <1>1, <1>2
<1>16. Faithful(t, told_b) /\ Traced(t)
  <2>1. \A g \in s.grafts : g.edition <= t.current => g \in t.grafts
    BY <1>2
  <2>2. \A d \in 1 .. t.current : told_b[d] = told_b[d]
    OBVIOUS
  <2>3. \A d \in t.watermark .. t.current : VersionAt(t, d) = VersionAt(s, d)
    BY <1>10
  <2> QED BY <1>9, <1>11, <1>12, <1>13, <1>14, <1>15, <2>1, <2>2, <2>3, SameThere, Zenon
<1>17. Routed(t)
  <2>1. Routed(s)
    BY DEF Good
  <2> QED BY <1>2, <1>14, <2>1 DEF Routed
<1> QED
  BY <1>9, <1>16, <1>17 DEF Good

(* A span is watched from the edition it was first asked at. *)
LEMMA AskGood ==
  ASSUME NEW s, NEW told_b, Good(s, told_b), NEW span \in Spans
  PROVE  Good([s EXCEPT !.registered = Put(@, span, s.current)], told_b)
<1>1. PICK t : t = [s EXCEPT !.registered = Put(@, span, s.current)]
  OBVIOUS
<1>2. s.current \in Nat /\ InnerOK(s) /\ Routed(s) /\ DOMAIN s.log \subseteq s.watermark + 1 .. s.current
      /\ s.watermark \in 0 .. s.current
  BY DEF Good, InnerOK, LogOK
<1>3. /\ Shaped(t) /\ t.current = s.current /\ t.watermark = s.watermark /\ t.versions = s.versions
      /\ t.log = s.log /\ t.patches = s.patches /\ t.grafts = s.grafts /\ t.fired = s.fired
      /\ t.registered = Put(s.registered, span, s.current)
  <2>1. Shaped(s)
    BY <1>2 DEF InnerOK, Shaped
  <2> QED BY <1>1, <2>1 DEF Shaped
<1>4. Routed(t)
  <2>1. ASSUME NEW p \in DOMAIN t.registered
        PROVE  /\ p \in Spans /\ t.registered[p] \in 0 .. t.current
               /\ \A e \in DOMAIN t.log : \A i \in DOMAIN t.log[e] :
                    t.registered[p] < e /\ Covers(p, t.log[e][i]) => <<p, e>> \in t.fired
    <3>1. CASE p = span
      <4>1. t.registered[p] = s.current
        BY <1>3, <3>1 DEF Put
      <4>2. \A e \in DOMAIN t.log : ~ s.current < e
        BY <1>2, <1>3
      <4> QED BY <1>2, <1>3, <3>1, <4>1, <4>2
    <3>2. CASE p # span
      <4>1. p \in DOMAIN s.registered /\ t.registered[p] = s.registered[p]
        BY <1>3, <3>2 DEF Put
      <4> QED BY <1>2, <1>3, <4>1 DEF Routed
    <3> QED BY <3>1, <3>2
  <2> QED BY <2>1 DEF Routed
<1> QED
  BY <1>1, <1>3, <1>4, OnlyBeside

(* A binding in the catalog is beside everything else. *)
LEMMA BindGood ==
  ASSUME NEW s, NEW told_b, Good(s, told_b), NEW ctx
  PROVE  Good([s EXCEPT !.ctx = ctx], told_b) /\ Good([Fresh(s) EXCEPT !.ctx = ctx], told_b)
<1>1. PICK t : t = [s EXCEPT !.ctx = ctx]
  OBVIOUS
<1>2. PICK u : u = [Fresh(s) EXCEPT !.ctx = ctx]
  OBVIOUS
<1>3. Shaped(s) /\ Routed(s)
  BY DEF Good, InnerOK, Shaped
<1>4. /\ Shaped(t) /\ t.current = s.current /\ t.watermark = s.watermark /\ t.versions = s.versions
      /\ t.log = s.log /\ t.patches = s.patches /\ t.grafts = s.grafts /\ t.fired = s.fired
      /\ t.registered = s.registered
  BY <1>1, <1>3 DEF Shaped
<1>5. /\ Shaped(u) /\ u.current = s.current /\ u.watermark = s.watermark /\ u.versions = s.versions
      /\ u.log = s.log /\ u.patches = s.patches /\ u.grafts = s.grafts /\ u.fired = {}
      /\ u.registered = << >>
  BY <1>2, <1>3 DEF Shaped, Fresh
<1>6. Routed(t) /\ Routed(u)
  BY <1>3, <1>4, <1>5 DEF Routed
<1>7. Good(t, told_b)
  BY <1>4, <1>6, OnlyBeside
<1>8. Good(u, told_b)
  BY <1>5, <1>6, OnlyBeside
<1> QED
  BY <1>1, <1>2, <1>7, <1>8

-----------------------------------------------------------------------------
(* What is replayed, in order.                                             *)

Before(P, p) == {q \in P : Earlier(q, p)}

(* Editions are put in order one by one, each of them once. *)
LEMMA InOrderIs ==
  ASSUME NEW P \in SUBSET (Nat \X Nat), IsFiniteSet(P)
  PROVE  /\ Cardinality(P) \in Nat /\ DOMAIN InOrder(P) = 1 .. Cardinality(P) /\ Len(InOrder(P)) = Cardinality(P)
         /\ \A i \in 1 .. Cardinality(P) : InOrder(P)[i] \in P
         /\ \A p \in P : \E i \in 1 .. Cardinality(P) : InOrder(P)[i] = p
<1>1. PICK n \in Nat : n = Cardinality(P)
  BY FS_CardinalityType
<1>2. ASSUME NEW p \in P PROVE IsFiniteSet(Before(P, p)) /\ Cardinality(Before(P, p)) \in 0 .. n - 1
  <2>1. PICK B : B = Before(P, p)
    OBVIOUS
  <2>2. p[1] \in Nat /\ p[2] \in Nat
    OBVIOUS
  <2>3. ~ Earlier(p, p)
    BY <2>2 DEF Earlier
  <2>4. B \in SUBSET P /\ p \notin B
    BY <2>1, <2>3 DEF Before
  <2>5. IsFiniteSet(B) /\ Cardinality(B) <= Cardinality(P) /\ (Cardinality(P) = Cardinality(B) => P = B)
    BY <2>4, FS_Subset
  <2>6. Cardinality(B) \in Nat
    BY <2>5, FS_CardinalityType
  <2> QED BY <1>1, <2>1, <2>4, <2>5, <2>6
<1>3. ASSUME NEW p \in P, NEW q \in P, Earlier(p, q) PROVE Cardinality(Before(P, p)) < Cardinality(Before(P, q))
  <2>1. PICK B, C : B = Before(P, p) /\ C = Before(P, q)
    OBVIOUS
  <2>2. p[1] \in Nat /\ p[2] \in Nat /\ q[1] \in Nat /\ q[2] \in Nat
    OBVIOUS
  <2>3. ASSUME NEW r \in P, Earlier(r, p) PROVE Earlier(r, q)
    <3>1. r[1] \in Nat /\ r[2] \in Nat
      OBVIOUS
    <3> QED BY <1>3, <2>2, <2>3, <3>1 DEF Earlier
  <2>4. ~ Earlier(p, p)
    BY <2>2 DEF Earlier
  <2>5. B \in SUBSET C /\ p \in C /\ p \notin B
    BY <1>3, <2>1, <2>3, <2>4 DEF Before
  <2>6. IsFiniteSet(C)
    BY <1>2, <2>1
  <2>7. Cardinality(B) <= Cardinality(C) /\ (Cardinality(C) = Cardinality(B) => C = B)
    BY <2>5, <2>6, FS_Subset
  <2>8. Cardinality(B) \in Nat /\ Cardinality(C) \in Nat
    BY <1>2, <2>1
  <2> QED BY <2>1, <2>5, <2>7, <2>8
<1> DEFINE rank == [p \in P |-> Cardinality(Before(P, p))]
<1>4. rank \in Injection(P, 0 .. n - 1)
  <2>1. rank \in [P -> 0 .. n - 1]
    BY <1>2
  <2>2. ASSUME NEW p \in P, NEW q \in P, rank[p] = rank[q] PROVE p = q
    <3>1. p = <<p[1], p[2]>> /\ q = <<q[1], q[2]>> /\ p[1] \in Nat /\ p[2] \in Nat /\ q[1] \in Nat /\ q[2] \in Nat
      OBVIOUS
    <3>2. Cardinality(Before(P, p)) \in Nat /\ Cardinality(Before(P, q)) \in Nat
      BY <1>1, <1>2
    <3>3. ~ Earlier(p, q) /\ ~ Earlier(q, p)
      BY <1>3, <2>2, <3>2
    <3> QED BY <3>1, <3>3 DEF Earlier
  <2> HIDE DEF rank
  <2> QED BY <2>1, <2>2 DEF Injection, IsInjective
<1>5. rank \in Surjection(P, 0 .. n - 1)
  <2>1. IsFiniteSet(0 .. n - 1) /\ Cardinality(0 .. n - 1) = n
    BY FS_Interval, 0 \in Int, n - 1 \in Int
  <2> HIDE DEF rank
  <2> QED BY <1>1, <1>4, <2>1, FS_Injection
<1>6. ASSUME NEW i \in 1 .. n PROVE \E p \in P : Cardinality(Before(P, p)) = i - 1
  <2>1. i - 1 \in 0 .. n - 1
    OBVIOUS
  <2>2. \E p \in P : rank[p] = i - 1
    <3> HIDE DEF rank
    <3> QED BY <1>5, <2>1 DEF Surjection
  <2> QED BY <2>2
<1>7. InOrder(P) = [i \in 1 .. n |-> CHOOSE p \in P : Cardinality(Before(P, p)) = i - 1]
  BY <1>1 DEF InOrder, Before
<1>8. DOMAIN InOrder(P) = 1 .. n
  BY <1>7
<1>9. ASSUME NEW i \in 1 .. n
      PROVE  InOrder(P)[i] \in P /\ Cardinality(Before(P, InOrder(P)[i])) = i - 1
  <2>1. InOrder(P)[i] = CHOOSE p \in P : Cardinality(Before(P, p)) = i - 1
    BY <1>7
  <2> QED BY <1>6, <2>1
<1>10. Len(InOrder(P)) = n
  <2>1. \A i \in 1 .. n : InOrder(P)[i] \in P
    BY <1>9
  <2>2. InOrder(P) = [i \in 1 .. n |-> InOrder(P)[i]]
    BY <1>7
  <2>3. PICK r : r = InOrder(P)
    OBVIOUS
  <2>4. r \in [1 .. n -> P]
    BY <2>1, <2>2, <2>3
  <2>5. r \in Seq(P)
    BY <2>4
  <2>6. DOMAIN r = 1 .. Len(r) /\ Len(r) \in Nat
    BY <2>5
  <2> QED BY <1>8, <2>3, <2>6
<1>11. ASSUME NEW p \in P PROVE \E i \in 1 .. n : InOrder(P)[i] = p
  <2>1. PICK k \in 0 .. n - 1 : k = Cardinality(Before(P, p))
    BY <1>1, <1>2
  <2>2. k + 1 \in 1 .. n /\ (k + 1) - 1 = k
    OBVIOUS
  <2>3. PICK q : q = InOrder(P)[k + 1]
    OBVIOUS
  <2>4. q \in P /\ Cardinality(Before(P, q)) = k
    BY <1>9, <2>2, <2>3
  <2>5. p = q
    <3>1. rank[p] = rank[q]
      BY <2>1, <2>4
    <3> HIDE DEF rank
    <3> QED BY <1>4, <2>4, <3>1 DEF Injection, IsInjective
  <2> QED BY <2>2, <2>3, <2>5
<1> QED
  BY <1>1, <1>8, <1>9, <1>10, <1>11

IsReplay(f, start, points, n) ==
  f = [i \in 0 .. n |-> IF i = 0 THEN {start} ELSE Replay(f[i - 1], points[i])]

(* Patches are replayed one after another: the runs in between exist. *)
LEMMA ReplayExists ==
  ASSUME NEW start, NEW points, NEW n \in Nat
  PROVE  \E f : IsReplay(f, start, points, n)
<1> DEFINE T == {m \in 0 .. n : \E f : IsReplay(f, start, points, m)}
<1>1. 0 \in T
  <2> DEFINE f == [i \in 0 .. 0 |-> {start}]
  <2>1. f = [i \in 0 .. 0 |-> IF i = 0 THEN {start} ELSE Replay(f[i - 1], points[i])]
    OBVIOUS
  <2>2. IsReplay(f, start, points, 0)
    BY <2>1 DEF IsReplay
  <2> QED BY <2>2
<1>2. ASSUME NEW m \in 1 .. n, m - 1 \in T PROVE m \in T
  <2>1. PICK g : IsReplay(g, start, points, m - 1)
    BY <1>2
  <2>2. \A i \in 0 .. m - 1 : g[i] = IF i = 0 THEN {start} ELSE Replay(g[i - 1], points[i])
    BY <2>1 DEF IsReplay
  <2> DEFINE h == [i \in 0 .. m |-> IF i = m THEN Replay(g[m - 1], points[m]) ELSE g[i]]
  <2>3. ASSUME NEW i \in 0 .. m PROVE h[i] = IF i = 0 THEN {start} ELSE Replay(h[i - 1], points[i])
    <3>1. CASE i = m
      <4>1. h[i] = Replay(g[m - 1], points[m]) /\ i # 0 /\ h[i - 1] = g[m - 1]
        BY <3>1
      <4> HIDE DEF h
      <4> QED BY <3>1, <4>1
    <3>2. CASE i # m
      <4>1. i \in 0 .. m - 1 /\ h[i] = g[i] /\ (i # 0 => h[i - 1] = g[i - 1])
        BY <3>2
      <4> HIDE DEF h
      <4> QED BY <2>2, <4>1
    <3> QED BY <3>1, <3>2
  <2>4. h = [i \in 0 .. m |-> h[i]]
    OBVIOUS
  <2>5. IsReplay(h, start, points, m)
    <3> HIDE DEF h
    <3> QED BY <2>3, <2>4 DEF IsReplay
  <2> QED BY <2>5
<1>3. 0 .. n \subseteq T
  <2> HIDE DEF T
  <2> QED BY <1>1, <1>2, EachAfterAnother
<1> QED
  BY <1>3

PatchOf(point) == state[point[1]].patches[point[2]]

CanBeReplayed(point) ==
  /\ InnerOK(state[point[1]])
  /\ point[2] \in DOMAIN state[point[1]].patches

(* What a replay has come to after so many patches: each is an edition     *)
(* more, on record as a copy of what it copies.                            *)
Grown(run, start, points, i) ==
  LET s == start[1]
      t == run[1]
  IN /\ Good(t, run[2])
     /\ t.current = s.current + i /\ t.watermark = s.watermark
     /\ DOMAIN t.patches = DOMAIN s.patches \cup s.current + 1 .. s.current + i
     /\ \A e \in DOMAIN s.patches : t.patches[e] = s.patches[e]
     /\ \A e \in 1 .. s.current : run[2][e] = start[2][e]
     /\ \A k \in 1 .. i :
          /\ t.patches[s.current + k].origin = Original(points[k], PatchOf(points[k]))
          /\ run[2][s.current + k].original = Original(points[k], PatchOf(points[k]))

(* One patch more. *)
LEMMA ReplayedGood ==
  ASSUME NEW s, NEW told_b, Good(s, told_b), NEW point, CanBeReplayed(point), NEW t \in Replayed(s, point)
  PROVE  /\ \A original : Good(t, Append(told_b, [original |-> original, rows |-> TreeRows(Now(t))]))
         /\ t.current = s.current + 1 /\ t.watermark = s.watermark
         /\ \E patch : /\ t.patches = Put(s.patches, s.current + 1, patch)
                       /\ patch.origin = Original(point, PatchOf(point))
<1>1. PICK patch : patch = PatchOf(point)
  OBVIOUS
<1>2. PICK origin : origin = Original(point, patch)
  OBVIOUS
<1>3. PICK updates : updates = PatchUpdates(point)
  OBVIOUS
<1>4. \/ /\ patch.kind = "commit" /\ t = Apply(s, patch.pre, updates, origin)
      \/ /\ patch.kind # "commit" /\ ~ GraftRefused(s, patch.block) /\ t = Graft(s, patch.block, origin)
  BY <1>1, <1>2, <1>3 DEF Replayed, PatchOf
<1>5. PICK q : q = state[point[1]]
  OBVIOUS
<1>6. /\ PatchOK(patch, q.log, point[2])
      /\ \A e \in DOMAIN q.log : q.log[e] \in Seq(Entries)
  BY <1>1, <1>5 DEF CanBeReplayed, PatchOf, InnerOK, PatchesOK, LogOK
<1>7. s.current \in Nat /\ Shaped(s)
  BY DEF Good, InnerOK, Shaped
<1>8. CASE patch.kind = "commit"
  <2>1. t = Apply(s, patch.pre, updates, origin)
    BY <1>4, <1>8
  <2>2. point[2] \in DOMAIN q.log
        /\ \A i \in DOMAIN q.log[point[2]] : q.log[point[2]][i][1] = "update" /\ q.log[point[2]][i][2] \in 1 .. MaxId
    BY <1>6, <1>8 DEF PatchOK
  <2>3. PICK l \in Seq(Entries) : l = q.log[point[2]]
    BY <1>6, <2>2
  <2>4. DOMAIN l = 1 .. Len(l) /\ Len(l) \in Nat /\ \A i \in DOMAIN l : l[i] \in Entries
    OBVIOUS
  <2>5. \A i \in DOMAIN l : l[i][2] \in 1 .. MaxId /\ l[i][3] \in Int
    BY <2>2, <2>3, <2>4 DEF Entries
  <2>6. updates = [i \in 1 .. Len(l) |-> <<l[i][2], l[i][3]>>]
    BY <1>3, <1>5, <2>3, <2>4 DEF PatchUpdates
  <2>7. updates \in [1 .. Len(l) -> (1 .. MaxId) \X Int]
    BY <2>4, <2>5, <2>6
  <2>8. updates \in Seq((1 .. MaxId) \X Int)
    BY <2>4, <2>7
  <2>9. \A original : Good(t, Append(told_b, [original |-> original, rows |-> TreeRows(Now(t))]))
    BY <2>1, <2>8, ApplyGood
  <2>10. PICK made : made = [kind |-> "commit", pre |-> patch.pre, origin |-> origin]
    OBVIOUS
  <2>11. t.current = s.current + 1 /\ t.watermark = s.watermark /\ t.patches = Put(s.patches, s.current + 1, made)
         /\ made.origin = origin
    BY <1>7, <2>1, <2>10 DEF Apply, Shaped
  <2> QED BY <1>1, <1>2, <2>9, <2>11
<1>9. CASE patch.kind # "commit"
  <2>1. t = Graft(s, patch.block, origin) /\ ~ GraftRefused(s, patch.block)
    BY <1>4, <1>9
  <2>2. patch.block \in Blocks
    BY <1>6, <1>9 DEF PatchOK
  <2>3. \A original : Good(t, Append(told_b, [original |-> original, rows |-> TreeRows(Now(t))]))
    BY <2>1, <2>2, GraftGood
  <2>4. PICK made : made = [kind |-> "graft", block |-> patch.block, origin |-> origin]
    OBVIOUS
  <2>5. t.current = s.current + 1 /\ t.watermark = s.watermark /\ t.patches = Put(s.patches, s.current + 1, made)
        /\ made.origin = origin
    BY <1>7, <2>1, <2>4 DEF Graft, Shaped
  <2> QED BY <1>1, <1>2, <2>3, <2>5
<1> QED
  BY <1>8, <1>9

(* A replay that went through is as long as what was replayed. *)
LEMMA ReplayGrown ==
  ASSUME NEW start, Good(start[1], start[2]), NEW points, NEW n \in Nat, Len(points) = n,
         \A i \in 1 .. n : CanBeReplayed(points[i]),
         NEW run \in AllReplayed(start, points)
  PROVE  Grown(run, start, points, n)
<1>1. PICK f : IsReplay(f, start, points, n) /\ f[n] = AllReplayed(start, points)
  <2>1. IsReplay(CHOOSE f : IsReplay(f, start, points, n), start, points, n)
    BY ReplayExists
  <2>2. AllReplayed(start, points) = (CHOOSE f : IsReplay(f, start, points, n))[n]
    BY DEF AllReplayed, IsReplay
  <2> QED BY <2>1, <2>2
<1>2. \A i \in 0 .. n : f[i] = IF i = 0 THEN {start} ELSE Replay(f[i - 1], points[i])
  BY <1>1 DEF IsReplay
<1>3. PICK s, c : s = start[1] /\ c = s.current
  OBVIOUS
<1>4. c \in Nat /\ InnerOK(s) /\ IsSeq(start[2]) /\ Len(start[2]) = c /\ DOMAIN s.patches \subseteq 1 .. c
      /\ s.watermark \in Nat
  <2>1. InnerOK(s) /\ IsSeq(start[2]) /\ Len(start[2]) = c
    BY <1>3 DEF Good, Faithful
  <2>2. c \in Nat /\ s.watermark \in 0 .. c /\ DOMAIN s.patches \subseteq s.watermark + 1 .. c
    BY <1>3, <2>1 DEF InnerOK, PatchesOK
  <2> QED BY <2>1, <2>2
<1> DEFINE T == {m \in 0 .. n : \A r \in f[m] : Grown(r, start, points, m)}
<1>5. 0 \in T
  <2>1. f[0] = {start}
    BY <1>2
  <2>2. Grown(start, start, points, 0)
    BY <1>3, <1>4 DEF Grown
  <2> QED BY <2>1, <2>2
<1>6. ASSUME NEW m \in 1 .. n, m - 1 \in T PROVE m \in T
  <2>1. PICK k \in 0 .. n : k = m - 1 /\ m = k + 1 /\ k \in Nat
    OBVIOUS
  <2>2. PICK g : g = f[k] /\ \A r \in g : Grown(r, start, points, k)
    BY <1>6, <2>1
  <2>3. PICK p : p = points[m]
    OBVIOUS
  <2>4. f[m] = Replay(g, p)
    BY <1>2, <2>1, <2>2, <2>3
  <2>5. CanBeReplayed(p)
    BY <2>3
  <2>6. ASSUME NEW q \in f[m] PROVE Grown(q, start, points, m)
    <3>1. PICK r \in g : \E t \in Replayed(r[1], p) :
            q = <<t, Append(r[2], [original |-> t.patches[t.current].origin, rows |-> TreeRows(Now(t))])>>
      BY <2>4, <2>6 DEF Replay
    <3>2. PICK t \in Replayed(r[1], p) :
            q = <<t, Append(r[2], [original |-> t.patches[t.current].origin, rows |-> TreeRows(Now(t))])>>
      BY <3>1
    <3>3. PICK u, told_r : u = r[1] /\ told_r = r[2]
      OBVIOUS
    <3>4. Grown(r, start, points, k)
      BY <2>2
    <3>5. /\ Good(u, told_r)
          /\ u.current = c + k /\ u.watermark = s.watermark
          /\ DOMAIN u.patches = DOMAIN s.patches \cup c + 1 .. c + k
          /\ \A e \in DOMAIN s.patches : u.patches[e] = s.patches[e]
          /\ \A e \in 1 .. c : told_r[e] = start[2][e]
          /\ \A i \in 1 .. k :
               /\ u.patches[c + i].origin = Original(points[i], PatchOf(points[i]))
               /\ told_r[c + i].original = Original(points[i], PatchOf(points[i]))
      BY <1>3, <3>3, <3>4 DEF Grown
    <3>6. /\ \A original : Good(t, Append(told_r, [original |-> original, rows |-> TreeRows(Now(t))]))
          /\ t.current = u.current + 1 /\ t.watermark = u.watermark
          /\ \E patch : /\ t.patches = Put(u.patches, u.current + 1, patch)
                        /\ patch.origin = Original(p, PatchOf(p))
      BY <2>5, <3>2, <3>3, <3>5, ReplayedGood
    <3>7. PICK patch : t.patches = Put(u.patches, u.current + 1, patch) /\ patch.origin = Original(p, PatchOf(p))
      BY <3>6
    <3>8. PICK x : x = [original |-> t.patches[t.current].origin, rows |-> TreeRows(Now(t))]
      OBVIOUS
    <3>9. q[1] = t /\ q[2] = Append(told_r, x)
      BY <3>2, <3>3, <3>8
    <3>10. Good(t, q[2])
      BY <3>6, <3>8, <3>9
    <3>11. t.current = c + m /\ u.current + 1 = c + m /\ t.watermark = s.watermark
      BY <1>4, <2>1, <3>5, <3>6
    <3>12. DOMAIN t.patches = DOMAIN s.patches \cup c + 1 .. c + m
      <4>1. DOMAIN t.patches = DOMAIN u.patches \cup {c + m}
        BY <3>7, <3>11 DEF Put
      <4>2. (c + 1 .. c + k) \cup {c + m} = c + 1 .. c + m
        BY <1>4, <2>1
      <4> QED BY <3>5, <4>1, <4>2, Zenon
    <3>13. \A e \in 1 .. c + k : e # c + m
      BY <1>4, <2>1
    <3>14. t.patches[c + m] = patch /\ \A e \in DOMAIN u.patches : e # c + m => t.patches[e] = u.patches[e]
      BY <3>7, <3>11 DEF Put
    <3>15. \A e \in DOMAIN s.patches : t.patches[e] = s.patches[e]
      BY <1>4, <2>1, <3>5, <3>13, <3>14
    <3>16. IsSeq(told_r) /\ Len(told_r) = c + k
      BY <3>5 DEF Good, Faithful
    <3>17. (\A e \in 1 .. c + k : q[2][e] = told_r[e]) /\ q[2][c + m] = x
      BY <2>1, <1>4, <3>9, <3>16, OneMore
    <3>18. \A e \in 1 .. c : q[2][e] = start[2][e]
      <4>1. \A e \in 1 .. c : e \in 1 .. c + k
        BY <1>4, <2>1
      <4> QED BY <3>5, <3>17, <4>1, Zenon
    <3>19. x.original = Original(p, PatchOf(p))
      BY <3>7, <3>8, <3>11, <3>14
    <3>20. ASSUME NEW i \in 1 .. m
           PROVE  /\ t.patches[c + i].origin = Original(points[i], PatchOf(points[i]))
                  /\ q[2][c + i].original = Original(points[i], PatchOf(points[i]))
      <4>1. CASE i = m
        BY <2>3, <3>7, <3>14, <3>17, <3>19, <4>1
      <4>2. CASE i # m
        <5>1. i \in 1 .. k /\ c + i \in 1 .. c + k /\ c + i \in c + 1 .. c + k /\ c + i # c + m
          BY <1>4, <2>1, <4>2
        <5> QED BY <3>5, <3>14, <3>17, <5>1
      <4> QED BY <4>1, <4>2
    <3> QED BY <1>3, <3>9, <3>10, <3>11, <3>12, <3>15, <3>18, <3>20 DEF Grown
  <2> QED BY <2>6
<1>7. 0 .. n \subseteq T
  <2> HIDE DEF T
  <2> QED BY <1>5, <1>6, EachAfterAnother
<1>8. n \in T
  BY <1>7
<1> QED
  BY <1>1, <1>8

-----------------------------------------------------------------------------
(* All branches.                                                           *)

Numbered(d) == IsFiniteSet(DOMAIN d) /\ NextId(d) \in Nat /\ DOMAIN d = 0 .. NextId(d) - 1

BInv ==
  /\ Numbered(dag) /\ DOMAIN state = DOMAIN dag /\ DOMAIN told = DOMAIN dag
  /\ \A b \in DOMAIN dag : Good(state[b], told[b])

(* A branch that is made is numbered after the others. *)
LEMMA NumberedPut ==
  ASSUME NEW d, Numbered(d), NEW record
  PROVE  /\ Numbered(Put(d, NextId(d), record)) /\ NextId(Put(d, NextId(d), record)) = NextId(d) + 1
         /\ DOMAIN Put(d, NextId(d), record) = DOMAIN d \cup {NextId(d)} /\ NextId(d) \notin DOMAIN d
<1>1. PICK n \in Nat : n = NextId(d)
  BY DEF Numbered
<1>2. PICK D : D = DOMAIN d
  OBVIOUS
<1>3. D = 0 .. n - 1 /\ IsFiniteSet(D) /\ n = Cardinality(D)
  BY <1>1, <1>2 DEF Numbered, NextId
<1>4. n \notin D /\ D \cup {n} = 0 .. n /\ (n + 1) - 1 = n /\ n + 1 \in Nat
  BY <1>3
<1>5. IsFiniteSet(D \cup {n}) /\ Cardinality(D \cup {n}) = n + 1
  BY <1>3, <1>4, FS_AddElement
<1>6. PICK c : c = Put(d, n, record)
  OBVIOUS
<1>7. DOMAIN c = D \cup {n}
  BY <1>2, <1>6 DEF Put
<1>8. NextId(c) = n + 1 /\ IsFiniteSet(DOMAIN c) /\ DOMAIN c = 0 .. n
  BY <1>4, <1>5, <1>7 DEF NextId
<1>9. Numbered(c)
  BY <1>4, <1>8 DEF Numbered
<1> QED
  BY <1>1, <1>2, <1>4, <1>6, <1>7, <1>8, <1>9

(* No branch has more than so many editions. *)
LEMMA CurrentsBounded ==
  ASSUME BInv
  PROVE  \E m \in Nat : \A b \in DOMAIN dag : state[b].current <= m
<1>1. PICK n \in Nat : n = NextId(dag) /\ DOMAIN dag = 0 .. n - 1
  BY DEF BInv, Numbered
<1>2. \A b \in DOMAIN dag : state[b].current \in Nat
  BY DEF BInv, Good, InnerOK
<1> DEFINE T == {k \in 0 .. n : \E m \in Nat : \A b \in 0 .. k - 1 : state[b].current <= m}
<1>3. 0 \in T
  OBVIOUS
<1>4. ASSUME NEW k \in 1 .. n, k - 1 \in T PROVE k \in T
  <2>1. PICK m \in Nat : \A b \in 0 .. (k - 1) - 1 : state[b].current <= m
    BY <1>4
  <2>2. PICK c \in Nat : c = state[k - 1].current
    BY <1>1, <1>2
  <2>3. ASSUME NEW b \in 0 .. k - 1 PROVE state[b].current <= m + c
    <3>1. CASE b = k - 1
      BY <2>2, <3>1
    <3>2. CASE b # k - 1
      <4>1. b \in 0 .. (k - 1) - 1 /\ b \in DOMAIN dag
        BY <1>1, <3>2
      <4> QED BY <1>2, <2>1, <4>1
    <3> QED BY <3>1, <3>2
  <2>4. m + c \in Nat /\ k \in 0 .. n
    OBVIOUS
  <2>5. \A b \in 0 .. k - 1 : state[b].current <= m + c
    BY <2>3
  <2> QED BY <2>4, <2>5
<1>5. 0 .. n \subseteq T
  <2> HIDE DEF T
  <2> QED BY <1>3, <1>4, EachAfterAnother
<1>6. n \in T
  <2> HIDE DEF T
  <2> QED BY <1>5
<1> QED
  BY <1>1, <1>6

(* What is to be replayed are patches on record, finitely many. *)
LEMMA ToReplayIs ==
  ASSUME BInv, NEW have, NEW theirs
  PROVE  /\ ToReplay(have, theirs) \in SUBSET (Nat \X Nat) /\ IsFiniteSet(ToReplay(have, theirs))
         /\ \A p \in ToReplay(have, theirs) : p[1] \in DOMAIN dag /\ CanBeReplayed(p)
<1>1. PICK n \in Nat : n = NextId(dag) /\ DOMAIN dag = 0 .. n - 1
  BY DEF BInv, Numbered
<1>2. PICK m \in Nat : \A b \in DOMAIN dag : state[b].current <= m
  BY CurrentsBounded
<1>3. PICK P : P = ToReplay(have, theirs)
  OBVIOUS
<1>4. ASSUME NEW p \in P
      PROVE  p[1] \in DOMAIN dag /\ CanBeReplayed(p) /\ p \in (0 .. n - 1) \X (0 .. m) /\ p \in Nat \X Nat
  <2>0. PICK br \in DOMAIN dag : \E e \in DOMAIN state[br].patches : p = <<br, e>>
    BY <1>3, <1>4 DEF ToReplay
  <2>1. PICK e \in DOMAIN state[br].patches : p = <<br, e>>
    BY <2>0
  <2>2. InnerOK(state[br])
    BY DEF BInv, Good
  <2>3. state[br].current \in Nat /\ DOMAIN state[br].patches \subseteq 1 .. state[br].current
    BY <2>2 DEF InnerOK, PatchesOK
  <2>4. e \in 0 .. m
    BY <1>2, <2>3
  <2> QED BY <1>1, <2>1, <2>2, <2>4 DEF CanBeReplayed
<1>5. IsFiniteSet((0 .. n - 1) \X (0 .. m))
  <2>1. 0 \in Int /\ n - 1 \in Int /\ m \in Int
    OBVIOUS
  <2>2. IsFiniteSet(0 .. n - 1) /\ IsFiniteSet(0 .. m)
    BY <2>1, FS_Interval
  <2> QED BY <2>2, FS_Product
<1>6. P \in SUBSET ((0 .. n - 1) \X (0 .. m))
  BY <1>4
<1>7. IsFiniteSet(P)
  BY <1>5, <1>6, FS_Subset
<1> QED
  BY <1>3, <1>4, <1>7

(* The world starts with one empty branch. *)
LEMMA InitBInv == Init => BInv
<1> SUFFICES ASSUME Init PROVE BInv
  OBVIOUS
<1>1. DOMAIN dag = {0} /\ DOMAIN state = {0} /\ DOMAIN told = {0} /\ state[0] = Inner0 /\ told[0] = << >>
  BY DEF Init, NewDag, Root
<1>2. Numbered(dag)
  <2>1. IsFiniteSet({}) /\ Cardinality({}) = 0
    BY FS_EmptySet
  <2>2. IsFiniteSet({} \cup {0}) /\ Cardinality({} \cup {0}) = 1
    BY <2>1, FS_AddElement
  <2>3. {} \cup {0} = {0} /\ {0} = 0 .. 1 - 1
    OBVIOUS
  <2> QED BY <1>1, <2>2, <2>3 DEF Numbered, NextId
<1>3. PICK s : s = Inner0
  OBVIOUS
<1>4. /\ s = [current |-> s.current, watermark |-> s.watermark, versions |-> s.versions, log |-> s.log,
              patches |-> s.patches, grafts |-> s.grafts, ctx |-> s.ctx, registered |-> s.registered,
              fired |-> s.fired]
      /\ s.current = 0 /\ s.watermark = 0 /\ s.versions = << >> /\ s.log = << >> /\ s.patches = << >>
      /\ s.grafts = {} /\ s.registered = << >>
  BY <1>3 DEF Inner0
<1>5. DOMAIN s.versions = {} /\ DOMAIN s.log = {} /\ DOMAIN s.patches = {} /\ DOMAIN s.registered = {}
      /\ IsMap(s.versions) /\ IsMap(s.log) /\ IsMap(s.patches)
  BY <1>4 DEF IsMap
<1>6. InnerOK(s)
  BY <1>4, <1>5 DEF InnerOK, VersionsOK, LogOK, PatchesOK, GraftsOK
<1>7. VersionAt(s, 0) = EmptyTree
  BY <1>5 DEF VersionAt
<1>8. IsSeq(<< >>) /\ Len(<< >>) = 0
  BY DEF IsSeq
<1>9. Faithful(s, << >>)
  BY <1>4, <1>7, <1>8, NoRows DEF Faithful, RowsIn
<1>10. Traced(s) /\ Routed(s)
  BY <1>5 DEF Traced, Routed
<1> QED
  BY <1>1, <1>2, <1>3, <1>6, <1>9, <1>10 DEF BInv, Good

(* A call that changes one branch, and keeps what is said of it, keeps the *)
(* world in order.                                                         *)
LEMMA OneBranch ==
  ASSUME BInv, NEW b \in DOMAIN dag, NEW s, NEW told_b, Good(s, told_b), dag' = dag,
         DOMAIN state' = DOMAIN state, DOMAIN told' = DOMAIN told, state'[b] = s, told'[b] = told_b,
         \A c \in DOMAIN dag : c # b => state'[c] = state[c] /\ told'[c] = told[c]
  PROVE  BInv'
<1>1. \A c \in DOMAIN dag : Good(state'[c], told'[c])
  <2>1. ASSUME NEW c \in DOMAIN dag PROVE Good(state'[c], told'[c])
    <3>1. CASE c = b
      BY <3>1, Zenon
    <3>2. CASE c # b
      <4>1. Good(state[c], told[c])
        BY DEF BInv
      <4>2. state'[c] = state[c] /\ told'[c] = told[c]
        BY <3>2
      <4> QED BY <4>1, <4>2, Zenon
    <3> QED BY <3>1, <3>2
  <2> QED BY <2>1
<1>2. Numbered(dag) /\ DOMAIN state = DOMAIN dag /\ DOMAIN told = DOMAIN dag
  BY DEF BInv
<1>3. Numbered(dag')
  BY <1>2
<1> QED
  BY <1>1, <1>2, <1>3 DEF BInv

(* And so does one that makes a branch. *)
LEMMA OneBranchMore ==
  ASSUME BInv, NEW s, NEW told_b, Good(s, told_b), NEW record,
         dag' = Put(dag, NextId(dag), record), state' = Put(state, NextId(dag), s),
         told' = Put(told, NextId(dag), told_b)
  PROVE  BInv'
<1>1. Numbered(dag) /\ DOMAIN state = DOMAIN dag /\ DOMAIN told = DOMAIN dag
      /\ \A c \in DOMAIN dag : Good(state[c], told[c])
  BY DEF BInv
<1>2. PICK n : n = NextId(dag)
  OBVIOUS
<1>3. Numbered(dag') /\ DOMAIN dag' = DOMAIN dag \cup {n} /\ n \notin DOMAIN dag
  BY <1>1, <1>2, NumberedPut
<1>4. DOMAIN state' = DOMAIN dag' /\ DOMAIN told' = DOMAIN dag'
  BY <1>1, <1>2, <1>3 DEF Put
<1>5. ASSUME NEW c \in DOMAIN dag' PROVE Good(state'[c], told'[c])
  <2>1. CASE c = n
    <3>1. state'[c] = s /\ told'[c] = told_b
      BY <1>2, <2>1 DEF Put
    <3> QED BY <3>1, Zenon
  <2>2. CASE c # n
    <3>1. c \in DOMAIN dag
      BY <1>3, <2>2
    <3>2. state'[c] = state[c] /\ told'[c] = told[c]
      BY <1>1, <1>2, <2>2, <3>1 DEF Put
    <3> QED BY <1>1, <3>1, <3>2, Zenon
  <2> QED BY <2>1, <2>2
<1> QED
  BY <1>3, <1>4, <1>5 DEF BInv

(* A commit. *)
LEMMA CommitInv ==
  ASSUME BInv, NEW b \in DOMAIN dag, NEW p \in Patches, Commit(b, p)
  PROVE  BInv'
<1>1. Good(state[b], told[b]) /\ DOMAIN state = DOMAIN dag /\ DOMAIN told = DOMAIN dag
  BY DEF BInv
<1>2. p.updates \in Seq((1 .. MaxId) \X Int)
  BY BranchesAssumption
<1>3. PICK s : s = Apply(state[b], p.pre, p.updates, None)
  OBVIOUS
<1>4. PICK original : original = <<b, s.current>>
  OBVIOUS
<1>5. PICK told_b : told_b = Append(told[b], [original |-> original, rows |-> TreeRows(Now(s))])
  OBVIOUS
<1>6. Good(s, told_b)
  BY <1>1, <1>2, <1>3, <1>5, ApplyGood
<1>7. state' = [state EXCEPT ![b] = s] /\ told' = [told EXCEPT ![b] = told_b] /\ dag' = dag
  BY <1>3, <1>4, <1>5 DEF Commit, Tell
<1> QED
  BY <1>1, <1>6, <1>7, OneBranch

(* A graft. *)
LEMMA InstanceTemplateInv ==
  ASSUME BInv, NEW b \in DOMAIN dag, NEW block \in Blocks, InstanceTemplate(b, block)
  PROVE  BInv'
<1>1. Good(state[b], told[b]) /\ DOMAIN state = DOMAIN dag /\ DOMAIN told = DOMAIN dag
  BY DEF BInv
<1>2. PICK s : s = Graft(state[b], block, None)
  OBVIOUS
<1>3. PICK original : original = <<b, s.current>>
  OBVIOUS
<1>4. PICK told_b : told_b = Append(told[b], [original |-> original, rows |-> TreeRows(Now(s))])
  OBVIOUS
<1>5. ~ GraftRefused(state[b], block)
  BY DEF InstanceTemplate
<1>6. Good(s, told_b)
  BY <1>1, <1>2, <1>4, <1>5, GraftGood
<1>7. state' = [state EXCEPT ![b] = s] /\ told' = [told EXCEPT ![b] = told_b] /\ dag' = dag
  BY <1>2, <1>3, <1>4 DEF InstanceTemplate, Tell
<1> QED
  BY <1>1, <1>6, <1>7, OneBranch

(* A binding. *)
LEMMA RegisterInv ==
  ASSUME BInv, NEW b \in DOMAIN dag, NEW binding, Register(b, binding)
  PROVE  BInv'
<1>1. Good(state[b], told[b]) /\ DOMAIN state = DOMAIN dag /\ DOMAIN told = DOMAIN dag
  BY DEF BInv
<1>2. PICK ctx : ctx = Put(state[b].ctx, binding[1], binding[2])
  OBVIOUS
<1>3. PICK s : s = [state[b] EXCEPT !.ctx = ctx]
  OBVIOUS
<1>4. Good(s, told[b])
  BY <1>1, <1>3, BindGood
<1>5. state' = [state EXCEPT ![b] = s] /\ told' = told /\ dag' = dag
  <2>1. state' = [state EXCEPT ![b].ctx = Put(@, binding[1], binding[2])] /\ told' = told /\ dag' = dag
    BY DEF Register
  <2> QED BY <1>1, <1>2, <1>3, <2>1
<1> QED
  BY <1>1, <1>4, <1>5, OneBranch

(* A fork. *)
LEMMA ForkAtInv ==
  ASSUME BInv, NEW b \in DOMAIN dag, NEW at \in 0 .. state[b].current, ForkAt(b, at)
  PROVE  BInv'
<1>1. Good(state[b], told[b]) /\ DOMAIN state = DOMAIN dag /\ DOMAIN told = DOMAIN dag
      /\ state[b].current \in Nat /\ state[b].watermark \in Nat
  BY DEF BInv, Good, InnerOK
<1>2. at \in state[b].watermark .. state[b].current
  BY <1>1 DEF ForkAt
<1>3. PICK s, told_b : s = ForkOf(state[b], at) /\ told_b = SubSeq(told[b], 1, at)
  OBVIOUS
<1>4. Good(s, told_b)
  BY <1>1, <1>2, <1>3, ForkGood
<1>5. PICK record : record = [parent |-> <<b, at>>, merged |-> None]
  OBVIOUS
<1>6. dag' = Put(dag, NextId(dag), record) /\ state' = Put(state, NextId(dag), s)
      /\ told' = Put(told, NextId(dag), told_b)
  BY <1>3, <1>5 DEF ForkAt, Forked
<1> QED
  BY <1>4, <1>6, OneBranchMore

(* What a merge makes: the merging branch with what was to be replayed. *)
LEMMA MergeIs ==
  ASSUME BInv, NEW b \in DOMAIN dag, NEW other \in DOMAIN dag, Merge(b, other)
  PROVE  \E run, start, points :
           /\ points = InOrder(ToReplay(Lineage(dag, b, state[b].current), Lineage(dag, other, state[other].current)))
           /\ start[1].current = state[b].current /\ start[1].watermark = state[b].watermark
           /\ start[1].patches = state[b].patches /\ start[2] = told[b]
           /\ Grown(run, start, points, Len(points))
           /\ dag' = Joined(dag, b, state[b].current, other, state[other].current, run[1].current)
           /\ state' = Put(state, NextId(dag), run[1])
           /\ told' = Put(told, NextId(dag), run[2])
<1>1. Good(state[b], told[b]) /\ InnerOK(state[b])
  BY DEF BInv, Good
<1>2. PICK have, theirs : /\ have = Lineage(dag, b, state[b].current)
                          /\ theirs = Lineage(dag, other, state[other].current)
  OBVIOUS
<1>3. PICK P : P = ToReplay(have, theirs)
  OBVIOUS
<1>4. P \in SUBSET (Nat \X Nat) /\ IsFiniteSet(P) /\ \A p \in P : CanBeReplayed(p)
  BY <1>3, ToReplayIs
<1>5. PICK points : points = InOrder(P)
  OBVIOUS
<1>6. Cardinality(P) \in Nat /\ Len(points) = Cardinality(P)
      /\ \A i \in 1 .. Cardinality(P) : points[i] \in P
  BY <1>4, <1>5, InOrderIs
<1>7. PICK n \in Nat : Len(points) = n /\ \A i \in 1 .. n : CanBeReplayed(points[i])
  BY <1>4, <1>6
<1>8. PICK ctx : ctx = state[b].ctx @@ state[other].ctx
  OBVIOUS
<1>9. PICK s : s = [Fresh(state[b]) EXCEPT !.ctx = ctx]
  OBVIOUS
<1>10. s = [Fresh(state[b]) EXCEPT !.ctx = @ @@ state[other].ctx]
  <2>1. Shaped(state[b])
    BY <1>1 DEF InnerOK, Shaped
  <2>2. PICK u : u = Fresh(state[b])
    OBVIOUS
  <2>3. u.ctx = state[b].ctx
    BY <2>1, <2>2 DEF Fresh, Shaped
  <2> QED BY <1>8, <1>9, <2>2, <2>3
<1>11. Good(s, told[b])
  BY <1>1, <1>9, BindGood
<1>12. s.current = state[b].current /\ s.watermark = state[b].watermark /\ s.patches = state[b].patches
  BY <1>1, <1>9 DEF InnerOK, Fresh
<1>13. PICK start : start = <<s, told[b]>>
  OBVIOUS
<1>14. PICK run \in AllReplayed(start, points) :
         /\ dag' = Joined(dag, b, state[b].current, other, state[other].current, run[1].current)
         /\ state' = Put(state, NextId(dag), run[1])
         /\ told' = Put(told, NextId(dag), run[2])
  BY <1>2, <1>3, <1>5, <1>10, <1>13 DEF Merge
<1>15. start[1] = s /\ start[2] = told[b]
  BY <1>13
<1>16. Good(start[1], start[2])
  BY <1>11, <1>15, Zenon
<1>17. Grown(run, start, points, n)
  BY <1>7, <1>16, ReplayGrown
<1> QED
  BY <1>2, <1>3, <1>5, <1>7, <1>12, <1>14, <1>15, <1>17

(* A merge. *)
LEMMA MergeInv ==
  ASSUME BInv, NEW b \in DOMAIN dag, NEW other \in DOMAIN dag, Merge(b, other)
  PROVE  BInv'
<1>1. PICK run, start, points :
           /\ Grown(run, start, points, Len(points))
           /\ dag' = Joined(dag, b, state[b].current, other, state[other].current, run[1].current)
           /\ state' = Put(state, NextId(dag), run[1])
           /\ told' = Put(told, NextId(dag), run[2])
  BY MergeIs
<1>2. Good(run[1], run[2])
  BY <1>1 DEF Grown
<1>3. PICK record : record = [parent |-> <<b, state[b].current>>, merged |-> <<other, state[other].current, run[1].current>>]
  OBVIOUS
<1>4. dag' = Put(dag, NextId(dag), record)
  BY <1>1, <1>3 DEF Joined
<1> QED
  BY <1>1, <1>2, <1>4, OneBranchMore

(* A consolidation. *)
LEMMA ConsolidateInv ==
  ASSUME BInv, NEW b \in DOMAIN dag, NEW e \in 1 .. state[b].current, Consolidate(b, e)
  PROVE  BInv'
<1>1. Good(state[b], told[b]) /\ DOMAIN state = DOMAIN dag /\ DOMAIN told = DOMAIN dag
      /\ state[b].current \in Nat /\ state[b].watermark \in Nat /\ Shaped(state[b])
  BY DEF BInv, Good, InnerOK, Shaped
<1>2. e \in state[b].watermark .. state[b].current /\ e > 0
  BY <1>1 DEF Consolidate
<1>3. PICK s : s = [state[b] EXCEPT !.versions = Checkpointed(state[b], e), !.log = Above(@, e),
                                    !.patches = Above(@, e), !.watermark = e]
  OBVIOUS
<1>4. Good(s, told[b])
  BY <1>1, <1>2, <1>3, ConsolidateGood
<1>5. state' = [state EXCEPT ![b] = s] /\ told' = told /\ dag' = dag
  <2>1. /\ state' = [state EXCEPT ![b].versions = Checkpointed(state[b], e), ![b].log = Above(@, e),
                                  ![b].patches = Above(@, e), ![b].watermark = e]
        /\ told' = told /\ dag' = dag
    BY DEF Consolidate
  <2> QED BY <1>1, <1>3, <2>1 DEF Shaped
<1> QED
  BY <1>1, <1>4, <1>5, OneBranch

(* A first ask. *)
LEMMA AskInv ==
  ASSUME BInv, NEW b \in DOMAIN dag, NEW span \in Spans, Ask(b, span)
  PROVE  BInv'
<1>1. Good(state[b], told[b]) /\ DOMAIN state = DOMAIN dag /\ DOMAIN told = DOMAIN dag
  BY DEF BInv
<1>2. PICK s : s = [state[b] EXCEPT !.registered = Put(@, span, state[b].current)]
  OBVIOUS
<1>3. Good(s, told[b])
  BY <1>1, <1>2, AskGood
<1>4. state' = [state EXCEPT ![b] = s] /\ told' = told /\ dag' = dag
  <2>1. state' = [state EXCEPT ![b].registered = Put(@, span, state[b].current)] /\ told' = told /\ dag' = dag
    BY DEF Ask
  <2> QED BY <1>1, <1>2, <2>1
<1> QED
  BY <1>1, <1>3, <1>4, OneBranch

(* Every call keeps the world in order. *)
LEMMA NextBInv == BInv /\ [Next]_vars => BInv'
<1> SUFFICES ASSUME BInv, [Next]_vars PROVE BInv'
  OBVIOUS
<1>1. ASSUME UNCHANGED <<dag, state, told>> PROVE BInv'
  BY <1>1 DEF BInv, Numbered, NextId
<1>2. ASSUME NEW b \in DOMAIN dag, NEW p \in Patches, Commit(b, p) PROVE BInv'
  BY <1>2, CommitInv
<1>3. ASSUME NEW b \in DOMAIN dag, NEW block \in Blocks, InstanceTemplate(b, block) PROVE BInv'
  BY <1>3, InstanceTemplateInv
<1>4. ASSUME NEW b \in DOMAIN dag, NEW binding \in Bindings, Register(b, binding) PROVE BInv'
  BY <1>4, RegisterInv
<1>5. ASSUME NEW b \in DOMAIN dag, NEW at \in 0 .. state[b].current, ForkAt(b, at) PROVE BInv'
  BY <1>5, ForkAtInv
<1>6. ASSUME NEW b \in DOMAIN dag, NEW other \in DOMAIN dag, Merge(b, other) PROVE BInv'
  BY <1>6, MergeInv
<1>7. ASSUME NEW b \in DOMAIN dag, NEW e \in 1 .. state[b].current, Consolidate(b, e) PROVE BInv'
  BY <1>7, ConsolidateInv
<1>8. ASSUME NEW b \in DOMAIN dag, NEW span \in Spans, Ask(b, span) PROVE BInv'
  BY <1>8, AskInv
<1>9. ASSUME NEW most, StepHistory(most) PROVE BInv'
  BY <1>1, <1>9 DEF StepHistory
<1>10. ASSUME UNCHANGED vars PROVE BInv'
  BY <1>1, <1>10 DEF vars
<1> QED
  BY <1>2, <1>3, <1>4, <1>5, <1>6, <1>7, <1>8, <1>9, <1>10 DEF Next

(* So the world is in order whatever is called. *)
LEMMA InOrderAlways == Spec => []BInv
<1>1. Init => BInv
  BY InitBInv
<1>2. BInv /\ [Next]_vars => BInv'
  BY NextBInv
<1> QED
  BY <1>1, <1>2, PTL DEF Spec

-----------------------------------------------------------------------------
(* What the branches promise of interests and reads.                       *)

(* Whatever was written in a span since is known to have touched it. *)
LEMMA InterestsOf ==
  ASSUME NEW s, NEW told_b, Good(s, told_b), NEW span \in Spans, NEW to \in 1 .. s.current,
         NEW from \in s.watermark .. to - 1, WrittenIn(s, span, from, to)
  PROVE  TouchedRangeSince(s, span, from, to)
<1>1. s.current \in Nat /\ s.watermark \in Nat /\ LogOK(s.log, s.watermark, s.current) /\ Routed(s)
  BY DEF Good, InnerOK
<1>2. from \in Nat /\ to \in Nat /\ from < to /\ s.watermark <= from
  BY <1>1
<1>3. span[1] \in Int /\ span[2] \in Int
  BY BranchesAssumption
<1>4. PICK e \in from + 1 .. to, id \in span[1] .. span[2] - 1 :
        e \in DOMAIN s.log /\ \E i \in DOMAIN DiffsOf(s, e, id) : DiffsOf(s, e, id)[i] # 0
  BY DEF WrittenIn
<1>5. PICK i \in DOMAIN DiffsOf(s, e, id) : DiffsOf(s, e, id)[i] # 0
  BY <1>4
<1>6. PICK l \in Seq(Entries) : l = s.log[e] /\ l = Logged(s, e)
  BY <1>1, <1>4 DEF LogOK, Logged
<1>7. i \in DOMAIN l
  BY <1>6 DEF DiffsOf
<1>8. PICK x \in Entries : x = l[i]
  BY <1>7
<1>9. x[2] \in Int /\ x[3] \in Int
  BY <1>8 DEF Entries
<1>10. DiffsOf(s, e, id)[i] = EntryDiff(x, s.versions[e], id)
  BY <1>6, <1>7, <1>8 DEF DiffsOf, EntryDiff
<1>11. (x[1] = "update" /\ x[2] = id) \/ (x[1] = "graft" /\ InBlock(id, x[2], x[3]))
  BY <1>5, <1>10 DEF EntryDiff
<1>12. id \in Int /\ span[1] <= id /\ id < span[2] /\ e \in Nat /\ from < e /\ e <= to
  BY <1>2, <1>3, <1>4
<1>13. Covers(span, x)
  <2>1. CASE x[1] = "update" /\ x[2] = id
    BY <1>12, <2>1 DEF Covers
  <2>2. CASE x[1] = "graft" /\ InBlock(id, x[2], x[3])
    <3>1. x[2] <= id /\ id < x[3]
      BY <2>2 DEF InBlock
    <3>2. x[2] < x[3] /\ span[1] < x[3] /\ x[2] < span[2]
      BY <1>3, <1>9, <1>12, <3>1
    <3> QED BY <2>2, <3>2 DEF Covers
  <2> QED BY <1>11, <2>1, <2>2
<1>14. ASSUME KnownSince(s, span, from) PROVE <<span, e>> \in s.fired
  <2>1. span \in DOMAIN s.registered /\ s.registered[span] <= from /\ s.registered[span] \in Int
    BY <1>1, <1>14 DEF KnownSince, Routed
  <2>2. s.registered[span] < e
    BY <1>2, <1>12, <2>1
  <2> QED BY <1>1, <1>4, <1>6, <1>7, <1>8, <1>13, <2>1, <2>2 DEF Routed
<1>15. TouchedSince(s, from, to)
  <2>1. l # << >>
    BY <1>7
  <2> QED BY <1>4, <1>6, <1>12, <2>1 DEF TouchedSince
<1> QED
  BY <1>2, <1>12, <1>14, <1>15 DEF TouchedRangeSince

(* What a row weighs is a whole number. *)
LEMMA WeightIsWhole ==
  ASSUME NEW t, TreeOK(t), NEW id \in Int
  PROVE  Weight(t, id) \in Int
<1>1. Weight(t, id) = WeightHeld(t, id)
  BY WeightIs
<1>2. ASSUME Holds(t, id) PROVE WeightHeld(t, id) \in Int
  <2>1. LeafOK(t[LeafOf(id)], LeafOf(id))
    BY <1>2 DEF TreeOK, Holds
  <2> QED BY <1>2, <2>1 DEF LeafOK, Holds, WeightHeld
<1> QED
  BY <1>1, <1>2 DEF WeightHeld

WeightIn(told_b, e, id) == IF id \in DOMAIN RowsIn(told_b, e) THEN RowsIn(told_b, e)[id] ELSE 0

(* What was told of a row is what the edition's tree holds of it. *)
LEMMA ToldIsHeld ==
  ASSUME NEW s, NEW told_b, Good(s, told_b), NEW e \in s.watermark .. s.current, NEW id \in Int
  PROVE  /\ TreeRows(VersionAt(s, e)) = RowsIn(told_b, e)
         /\ WeightIn(told_b, e, id) = Weight(VersionAt(s, e), id)
         /\ Weight(VersionAt(s, e), id) \in Int
<1>1. TreeRows(VersionAt(s, e)) = RowsIn(told_b, e)
  BY DEF Good, Faithful
<1>2. s.current \in Nat /\ s.watermark \in Nat /\ VersionsOK(s.versions, s.current) /\ e \in Int
  BY DEF Good, InnerOK
<1>3. TreeOK(VersionAt(s, e))
  BY <1>2, VersionIsTree
<1>4. Weight(VersionAt(s, e), id) \in Int
  BY <1>3, WeightIsWhole
<1> QED
  BY <1>1, <1>4 DEF WeightIn, Weight

(* The log between two editions adds up to their difference. *)
LEMMA LogAddsUp ==
  ASSUME NEW s, NEW told_b, Good(s, told_b), NEW to \in s.watermark .. s.current,
         NEW from \in s.watermark .. to, NEW id \in 1 .. MaxId
  PROVE  Scanned(s, from, to, id) = WeightIn(told_b, to, id) - WeightIn(told_b, from, id)
<1>1. s.current \in Nat /\ s.watermark \in Nat /\ from \in Nat /\ to \in Nat /\ from <= to
      /\ s.watermark <= from /\ to <= s.current /\ id \in Int
  BY BranchesAssumption DEF Good, InnerOK
<1>2. PICK f : f = [e \in from + 1 .. to |-> Summed(s, e, id)]
  OBVIOUS
<1>3. Scanned(s, from, to, id) = Total(f, from, to)
  BY <1>2 DEF Scanned, Summed
<1>4. PICK w : w = [e \in s.watermark .. s.current |-> Weight(VersionAt(s, e), id)]
  OBVIOUS
<1>5. \A e \in s.watermark .. s.current : w[e] \in Int /\ w[e] = WeightIn(told_b, e, id)
  <2>1. ASSUME NEW e \in s.watermark .. s.current PROVE w[e] \in Int /\ w[e] = WeightIn(told_b, e, id)
    BY <1>1, <1>4, ToldIsHeld
  <2> QED BY <2>1
<1>6. ASSUME NEW e \in from + 1 .. to PROVE f[e] = w[e] - w[e - 1]
  <2>1. e \in s.watermark + 1 .. s.current /\ e \in s.watermark .. s.current /\ e - 1 \in s.watermark .. s.current
    BY <1>1
  <2>2. Summed(s, e, id) = Weight(VersionAt(s, e), id) - Weight(VersionAt(s, e - 1), id)
    BY <2>1 DEF Good, Faithful
  <2> QED BY <1>2, <1>4, <2>1, <2>2
<1>7. PICK n \in Nat : n = to - from
  BY <1>1
<1> DEFINE T == {m \in 0 .. n : Total(f, from, from + m) = w[from + m] - w[from]}
<1>8. 0 \in T
  <2>1. from + 0 = from /\ from \in s.watermark .. s.current
    BY <1>1
  <2>2. Total(f, from, from) = 0
    BY <1>1, TotalStep
  <2>3. w[from] - w[from] = 0
    BY <1>5, <2>1
  <2> QED BY <1>7, <2>1, <2>2, <2>3
<1>9. ASSUME NEW m \in 1 .. n, m - 1 \in T PROVE m \in T
  <2>1. PICK k \in Nat : k = from + (m - 1) /\ k + 1 = from + m /\ from <= k /\ k + 1 \in from + 1 .. to
                         /\ k \in s.watermark .. s.current /\ k + 1 \in s.watermark .. s.current
    BY <1>1, <1>7
  <2>2. Total(f, from, k) = w[k] - w[from]
    BY <1>9, <2>1
  <2>3. Total(f, from, k + 1) = Total(f, from, k) + f[k + 1]
    BY <1>1, <2>1, TotalStep
  <2>4. f[k + 1] = w[k + 1] - w[k]
    <3>1. (k + 1) - 1 = k
      OBVIOUS
    <3> QED BY <1>6, <2>1, <3>1
  <2>5. w[k] \in Int /\ w[k + 1] \in Int /\ w[from] \in Int
    BY <1>1, <1>5, <2>1
  <2>6. Total(f, from, k + 1) = w[k + 1] - w[from]
    BY <2>2, <2>3, <2>4, <2>5
  <2>7. m \in 0 .. n
    OBVIOUS
  <2> QED BY <2>1, <2>6, <2>7
<1>10. 0 .. n \subseteq T
  <2> HIDE DEF T
  <2> QED BY <1>8, <1>9, EachAfterAnother
<1>11. Total(f, from, from + n) = w[from + n] - w[from] /\ from + n = to
  <2>1. n \in T
    <3> HIDE DEF T
    <3> QED BY <1>10
  <2> QED BY <1>1, <1>7, <2>1
<1>12. from \in s.watermark .. s.current /\ to \in s.watermark .. s.current
  BY <1>1
<1> QED
  BY <1>3, <1>5, <1>11, <1>12

-----------------------------------------------------------------------------
(* Where a row goes back to.                                               *)

(* The latest graft that filled a place, up to an edition. *)
LatestOf(grafts, x, e) ==
  CHOOSE g \in SourcesOf(grafts, x, x + 1, e) : \A o \in SourcesOf(grafts, x, x + 1, e) : o.edition <= g.edition

Back(f, grafts, e, x) ==
  IF SourcesOf(grafts, x, x + 1, e) = {} THEN x
  ELSE f[LatestOf(grafts, x, e).edition - 1][x + LatestOf(grafts, x, e).source[1] - LatestOf(grafts, x, e).target[1]]

AllBack(f, grafts, e) == [x \in 1 .. MaxId |-> Back(f, grafts, e, x)]

IsBack(f, grafts, n) == f = [e \in 0 .. n |-> AllBack(f, grafts, e)]

(* Of the grafts that filled a place one is the latest. *)
LEMMA LatestIs ==
  ASSUME NEW grafts, NEW n \in Nat, GraftsOK(grafts, n), NEW x, NEW e \in Nat, SourcesOf(grafts, x, x + 1, e) # {}
  PROVE  /\ LatestOf(grafts, x, e) \in SourcesOf(grafts, x, x + 1, e)
         /\ \A o \in SourcesOf(grafts, x, x + 1, e) : o.edition <= LatestOf(grafts, x, e).edition
         /\ LatestOf(grafts, x, e).edition \in 1 .. e
<1>1. PICK H : H = SourcesOf(grafts, x, x + 1, e)
  OBVIOUS
<1>2. H # {} /\ \A g \in H : g.edition \in 1 .. e
  BY <1>1 DEF SourcesOf, AsOf, GraftsOK
<1> DEFINE E == {g.edition : g \in H}
<1>3. E \in SUBSET Int /\ E # {} /\ (\A d \in E : d <= e) /\ e \in Int
  BY <1>2
<1>4. Max(E) \in E /\ \A d \in E : d <= Max(E)
  <2> HIDE DEF E
  <2> QED BY <1>3, GreatestExists
<1>5. PICK g \in H : \A o \in H : o.edition <= g.edition
  BY <1>4
<1>6. LatestOf(grafts, x, e) = CHOOSE h \in H : \A o \in H : o.edition <= h.edition
  BY <1>1 DEF LatestOf
<1>7. LatestOf(grafts, x, e) \in H /\ \A o \in H : o.edition <= LatestOf(grafts, x, e).edition
  BY <1>5, <1>6
<1> QED
  BY <1>1, <1>2, <1>7

(* Where rows go back to depends on the editions before. *)
LEMMA BackDepends ==
  ASSUME NEW grafts, NEW n \in Nat, GraftsOK(grafts, n), NEW e \in Nat, NEW f, NEW g,
         \A d \in 0 .. e - 1 : f[d] = g[d]
  PROVE  AllBack(f, grafts, e) = AllBack(g, grafts, e)
<1>1. ASSUME NEW x PROVE Back(f, grafts, e, x) = Back(g, grafts, e, x)
  <2>1. CASE SourcesOf(grafts, x, x + 1, e) = {}
    BY <2>1 DEF Back
  <2>2. CASE SourcesOf(grafts, x, x + 1, e) # {}
    <3>1. PICK l : l = LatestOf(grafts, x, e)
      OBVIOUS
    <3>2. l.edition \in 1 .. e
      BY <2>2, <3>1, LatestIs
    <3>3. f[l.edition - 1] = g[l.edition - 1]
      BY <3>2
    <3> QED BY <2>2, <3>1, <3>3 DEF Back
  <2> QED BY <2>1, <2>2
<1> QED
  BY <1>1 DEF AllBack

(* Rows are followed back edition by edition. *)
LEMMA BackExists ==
  ASSUME NEW grafts, NEW c \in Nat, GraftsOK(grafts, c), NEW n \in Nat
  PROVE  \E f : IsBack(f, grafts, n)
<1> DEFINE T == {m \in 0 .. n : \E f : IsBack(f, grafts, m)}
<1>1. 0 \in T
  <2>1. PICK z : z = << >>
    OBVIOUS
  <2>2. PICK f : f = [e \in 0 .. 0 |-> AllBack(z, grafts, 0)]
    OBVIOUS
  <2>3. (\A d \in 0 .. 0 - 1 : f[d] = z[d]) /\ 0 \in Nat
    OBVIOUS
  <2>4. AllBack(f, grafts, 0) = AllBack(z, grafts, 0)
    BY <2>3, BackDepends
  <2>5. f = [e \in 0 .. 0 |-> AllBack(f, grafts, 0)]
    BY <2>2, <2>4
  <2>6. \A e \in 0 .. 0 : e = 0
    OBVIOUS
  <2>7. f = [e \in 0 .. 0 |-> AllBack(f, grafts, e)]
    BY <2>5, <2>6
  <2>8. IsBack(f, grafts, 0)
    BY <2>7 DEF IsBack
  <2> QED BY <2>8
<1>2. ASSUME NEW m \in 1 .. n, m - 1 \in T PROVE m \in T
  <2>1. PICK g : IsBack(g, grafts, m - 1)
    BY <1>2
  <2>2. \A e \in 0 .. m - 1 : g[e] = AllBack(g, grafts, e)
    BY <2>1 DEF IsBack
  <2>3. PICK h : h = [e \in 0 .. m |-> IF e = m THEN AllBack(g, grafts, m) ELSE g[e]]
    OBVIOUS
  <2>4. h[m] = AllBack(g, grafts, m) /\ \A e \in 0 .. m - 1 : h[e] = g[e]
    BY <2>3
  <2>5. ASSUME NEW e \in 0 .. m PROVE h[e] = AllBack(h, grafts, e)
    <3>1. e \in Nat /\ \A d \in 0 .. e - 1 : d \in 0 .. m - 1
      OBVIOUS
    <3>2. \A d \in 0 .. e - 1 : h[d] = g[d]
      BY <2>4, <3>1
    <3>3. AllBack(h, grafts, e) = AllBack(g, grafts, e)
      BY <3>1, <3>2, BackDepends
    <3>4. h[e] = AllBack(g, grafts, e)
      <4>1. CASE e = m
        BY <2>4, <4>1
      <4>2. CASE e # m
        <5>1. e \in 0 .. m - 1
          BY <4>2
        <5> QED BY <2>2, <2>4, <5>1
      <4> QED BY <4>1, <4>2
    <3> QED BY <3>3, <3>4
  <2>6. h = [e \in 0 .. m |-> h[e]]
    BY <2>3
  <2>7. IsBack(h, grafts, m)
    BY <2>5, <2>6 DEF IsBack
  <2> QED BY <2>7
<1>3. 0 .. n \subseteq T
  <2> HIDE DEF T
  <2> QED BY <1>1, <1>2, EachAfterAnother
<1>4. n \in T
  <2> HIDE DEF T
  <2> QED BY <1>3
<1> QED
  BY <1>4

(* And in one way only. *)
LEMMA BackIsOne ==
  ASSUME NEW grafts, NEW c \in Nat, GraftsOK(grafts, c), NEW m \in Nat, NEW n \in Nat, m <= n,
         NEW f, IsBack(f, grafts, m), NEW g, IsBack(g, grafts, n)
  PROVE  \A e \in 0 .. m : f[e] = g[e]
<1>1. \A e \in 0 .. m : e \in 0 .. n
  OBVIOUS
<1>2. \A e \in 0 .. m : f[e] = AllBack(f, grafts, e)
  BY DEF IsBack
<1>3. \A e \in 0 .. n : g[e] = AllBack(g, grafts, e)
  BY DEF IsBack
<1> DEFINE T == {k \in 0 .. m : \A e \in 0 .. k : f[e] = g[e]}
<1>4. ASSUME NEW k \in 0 .. m, \A d \in 0 .. k - 1 : f[d] = g[d] PROVE f[k] = g[k]
  <2>1. AllBack(f, grafts, k) = AllBack(g, grafts, k)
    BY <1>4, BackDepends
  <2> QED BY <1>1, <1>2, <1>3, <2>1
<1>5. 0 \in T
  <2>1. f[0] = g[0]
    <3>1. 0 \in 0 .. m /\ \A d \in 0 .. 0 - 1 : f[d] = g[d]
      OBVIOUS
    <3> QED BY <1>4, <3>1
  <2> QED BY <2>1
<1>6. ASSUME NEW k \in 1 .. m, k - 1 \in T PROVE k \in T
  <2>1. \A d \in 0 .. k - 1 : f[d] = g[d]
    BY <1>6
  <2>2. f[k] = g[k] /\ k \in 0 .. m
    BY <1>4, <2>1
  <2>3. \A e \in 0 .. k : f[e] = g[e]
    <3>1. \A e \in 0 .. k : e = k \/ e \in 0 .. k - 1
      OBVIOUS
    <3> QED BY <2>1, <2>2, <3>1
  <2> QED BY <2>2, <2>3
<1>7. 0 .. m \subseteq T
  <2> HIDE DEF T
  <2> QED BY <1>5, <1>6, EachAfterAnother
<1>8. m \in T
  <2> HIDE DEF T
  <2> QED BY <1>7
<1> QED
  BY <1>8

(* A row goes back to itself, or to where the row went back to that the    *)
(* latest graft copied it from.                                            *)
LEMMA OriginIs ==
  ASSUME NEW grafts, NEW c \in Nat, GraftsOK(grafts, c), NEW at \in Nat
  PROVE  \E f : IsBack(f, grafts, at) /\ \A id : Origin(grafts, id, at) = f[at][id]
<1>1. IsBack(CHOOSE f : IsBack(f, grafts, at), grafts, at)
  BY BackExists
<1>2. PICK f : f = CHOOSE g : IsBack(g, grafts, at)
  OBVIOUS
<1>3. \A id : Origin(grafts, id, at) = f[at][id]
  BY <1>2 DEF Origin, IsBack, AllBack, Back, LatestOf
<1> QED
  BY <1>1, <1>2, <1>3

(* What a graft copied goes back to what it copied it from. *)
LEMMA OriginOfCopy ==
  ASSUME NEW grafts, NEW c \in Nat, GraftsOK(grafts, c), NEW g \in grafts,
         NEW id \in g.target[1] .. g.target[2] - 1
  PROVE  /\ Origin(grafts, id, g.edition) = Origin(grafts, id + g.source[1] - g.target[1], g.edition - 1)
         /\ id \in 1 .. MaxId /\ id + g.source[1] - g.target[1] \in 1 .. MaxId
<1>1. PICK e \in 1 .. c : e = g.edition
  BY DEF GraftsOK
<1>2. PICK b \in Blocks : BlockOK(b) /\ b.lo < b.hi /\ g = Span(b, e)
  BY <1>1 DEF GraftsOK
<1>3. PICK lo \in Int, hi \in Int, by \in Int : lo = b.lo /\ hi = b.hi /\ by = b.by
  BY <1>2 DEF BlockOK
<1>4. lo \in 1 .. MaxId /\ hi - 1 \in 1 .. MaxId /\ lo + by \in 1 .. MaxId /\ hi - 1 + by \in 1 .. MaxId /\ MaxId \in Nat
  BY <1>2, <1>3, BranchesAssumption DEF BlockOK
<1>5. g.source[1] = lo /\ g.target[1] = lo + by /\ g.target[2] = hi + by /\ g.edition = e
  BY <1>2, <1>3 DEF Span
<1>6. id \in Int /\ lo + by <= id /\ id < hi + by
  BY <1>3, <1>5
<1>7. PICK source : source = id + g.source[1] - g.target[1]
  OBVIOUS
<1>8. id \in 1 .. MaxId /\ source \in 1 .. MaxId
  BY <1>3, <1>4, <1>5, <1>6, <1>7
<1>9. g \in SourcesOf(grafts, id, id + 1, e)
  BY <1>1, <1>3, <1>5, <1>6 DEF SourcesOf, AsOf, Meets
<1>10. PICK l : l = LatestOf(grafts, id, e)
  OBVIOUS
<1>11. l \in grafts /\ l.edition \in 1 .. e /\ e <= l.edition
  BY <1>1, <1>9, <1>10, LatestIs DEF SourcesOf, AsOf
<1>12. l = g
  BY <1>1, <1>11 DEF GraftsOK
<1>13. e \in Nat /\ e - 1 \in Nat /\ e - 1 <= e /\ e - 1 \in 0 .. e - 1 /\ e \in 0 .. e
  BY <1>1
<1>14. PICK f : IsBack(f, grafts, e) /\ \A x : Origin(grafts, x, e) = f[e][x]
  BY <1>13, OriginIs
<1>15. PICK h : IsBack(h, grafts, e - 1) /\ \A x : Origin(grafts, x, e - 1) = h[e - 1][x]
  <2>1. PICK d \in Nat : d = e - 1
    BY <1>13
  <2> QED BY <2>1, OriginIs
<1>16. h[e - 1] = f[e - 1]
  BY <1>13, <1>14, <1>15, BackIsOne
<1>17. f[e][id] = Back(f, grafts, e, id)
  <2>1. f[e] = AllBack(f, grafts, e)
    BY <1>13, <1>14 DEF IsBack
  <2> QED BY <1>8, <2>1 DEF AllBack
<1>18. Back(f, grafts, e, id) = f[e - 1][source]
  BY <1>1, <1>7, <1>9, <1>10, <1>12 DEF Back
<1> QED
  BY <1>1, <1>7, <1>8, <1>14, <1>15, <1>16, <1>17, <1>18

-----------------------------------------------------------------------------
(* A watcher that is told "nothing of yours" has missed nothing: the       *)
(* routing of commits and grafts, and the answer for an interval from      *)
(* before the first ask (touched_range_since, canopy.rs).                  *)
THEOREM NothingMissed == Spec => []InterestsNotMissed
<1>1. ASSUME BInv PROVE InterestsNotMissed
  <2>1. ASSUME NEW b \in DOMAIN dag, NEW to \in 1 .. state[b].current, NEW span \in Spans,
               NEW from \in state[b].watermark .. to - 1, WrittenIn(state[b], span, from, to)
        PROVE  TouchedRangeSince(state[b], span, from, to)
    <3>1. PICK s, told_b : s = state[b] /\ told_b = told[b]
      OBVIOUS
    <3>2. Good(s, told_b)
      BY <1>1, <3>1 DEF BInv
    <3> QED BY <2>1, <3>1, <3>2, InterestsOf
  <2> QED BY <2>1 DEF InterestsNotMissed
<1> QED
  BY <1>1, InOrderAlways, PTL

(* What was committed is what is read, edition by edition, and the log     *)
(* between two editions is their difference: after forks, merges, grafts   *)
(* and consolidation (read_at, scan_updates).                              *)
THEOREM ReadsAlwaysStand == Spec => []ReadsStand
<1>1. ASSUME BInv PROVE ReadsStand
  <2>1. ASSUME NEW b \in DOMAIN dag, NEW e \in state[b].watermark .. state[b].current
        PROVE  /\ TreeRows(VersionAt(state[b], e)) = RowsTold(b, e)
               /\ \A from \in state[b].watermark .. e, id \in 1 .. MaxId :
                    Scanned(state[b], from, e, id) = WeightTold(b, e, id) - WeightTold(b, from, id)
    <3>1. PICK s, told_b : s = state[b] /\ told_b = told[b]
      OBVIOUS
    <3>2. Good(s, told_b)
      BY <1>1, <3>1 DEF BInv
    <3>3. \A d : RowsTold(b, d) = RowsIn(told_b, d)
      BY <3>1 DEF RowsTold, RowsIn
    <3>4. \A d, id : WeightTold(b, d, id) = WeightIn(told_b, d, id)
      BY <3>3 DEF WeightTold, WeightIn
    <3>5. TreeRows(VersionAt(s, e)) = RowsIn(told_b, e)
      BY <3>1, <3>2 DEF Good, Faithful
    <3>6. ASSUME NEW from \in s.watermark .. e, NEW id \in 1 .. MaxId
          PROVE  Scanned(s, from, e, id) = WeightIn(told_b, e, id) - WeightIn(told_b, from, id)
      BY <3>1, <3>2, LogAddsUp
    <3> QED BY <3>1, <3>3, <3>4, <3>5, <3>6
  <2> QED BY <2>1 DEF ReadsStand
<1> QED
  BY <1>1, InOrderAlways, PTL

(* Every copy a branch's log names is on record with its source, and goes  *)
(* back to what its source went back to (sources_of, origin).              *)
THEOREM GraftsAlwaysTraced == Spec => []GraftsTraced
<1>1. ASSUME BInv PROVE GraftsTraced
  <2>1. ASSUME NEW b \in DOMAIN dag, NEW e \in DOMAIN state[b].log, NEW i \in DOMAIN state[b].log[e],
               state[b].log[e][i][1] = "graft"
        PROVE  \E g \in SourcesOf(state[b].grafts, state[b].log[e][i][2], state[b].log[e][i][2] + 1, e) :
                 /\ g.edition = e /\ g.target = <<state[b].log[e][i][2], state[b].log[e][i][3]>>
                 /\ \A id \in state[b].log[e][i][2] .. state[b].log[e][i][3] - 1 :
                      LET source == id + g.source[1] - g.target[1] IN
                      /\ WeightTold(b, e, id) = WeightTold(b, e - 1, source)
                      /\ Origin(state[b].grafts, id, e) = Origin(state[b].grafts, source, e - 1)
    <3>1. PICK s, told_b : s = state[b] /\ told_b = told[b]
      OBVIOUS
    <3>2. Good(s, told_b)
      BY <1>1, <3>1 DEF BInv
    <3>3. PICK x : x = s.log[e][i]
      OBVIOUS
    <3>4. s.current \in Nat /\ s.watermark \in Nat /\ LogOK(s.log, s.watermark, s.current) /\ GraftsOK(s.grafts, s.current)
      BY <3>2 DEF Good, InnerOK
    <3>5. x \in Entries /\ e \in s.watermark + 1 .. s.current
      <4>1. PICK l \in Seq(Entries) : l = s.log[e]
        BY <3>1, <3>4 DEF LogOK
      <4> QED BY <3>1, <3>3, <3>4, <4>1 DEF LogOK
    <3>6. x[2] \in Int /\ x[3] \in Int
      BY <3>5 DEF Entries
    <3>7. CopyTraced(x, e, s.versions, s.grafts, VersionAt(s, e), VersionAt(s, e - 1))
      BY <2>1, <3>1, <3>2, <3>3 DEF Good, Traced
    <3>8. PICK g \in s.grafts :
            /\ g.edition = e /\ g.target = <<x[2], x[3]>> /\ x[2] < x[3]
            /\ \A id \in x[2] .. x[3] - 1 :
                 Weight(VersionAt(s, e), id) = Weight(VersionAt(s, e - 1), id + g.source[1] - g.target[1])
      BY <3>7 DEF CopyTraced
    <3>9. g.target[1] = x[2] /\ g.target[2] = x[3]
      BY <3>8
    <3>10. e \in Nat /\ e \in s.watermark .. s.current /\ e - 1 \in s.watermark .. s.current
      BY <3>4, <3>5
    <3>11. g \in SourcesOf(s.grafts, x[2], x[2] + 1, e)
      BY <3>6, <3>8, <3>9, <3>10 DEF SourcesOf, AsOf, Meets
    <3>12. \A d, id : WeightTold(b, d, id) = WeightIn(told_b, d, id)
      BY <3>1 DEF WeightTold, WeightIn, RowsTold, RowsIn
    <3>13. ASSUME NEW id \in x[2] .. x[3] - 1
           PROVE  /\ WeightTold(b, e, id) = WeightTold(b, e - 1, id + g.source[1] - g.target[1])
                  /\ Origin(s.grafts, id, e) = Origin(s.grafts, id + g.source[1] - g.target[1], e - 1)
      <4>1. PICK source : source = id + g.source[1] - g.target[1]
        OBVIOUS
      <4>2. Origin(s.grafts, id, e) = Origin(s.grafts, source, e - 1) /\ id \in 1 .. MaxId /\ source \in 1 .. MaxId
        BY <3>4, <3>8, <3>9, <4>1, OriginOfCopy
      <4>3. id \in Int /\ source \in Int
        BY <4>2, BranchesAssumption
      <4>4. WeightIn(told_b, e, id) = Weight(VersionAt(s, e), id)
        BY <3>2, <3>10, <4>3, ToldIsHeld
      <4>5. PICK d : d = e - 1
        OBVIOUS
      <4>6. WeightIn(told_b, d, source) = Weight(VersionAt(s, d), source)
        BY <3>2, <3>10, <4>3, <4>5, ToldIsHeld
      <4>7. Weight(VersionAt(s, e), id) = Weight(VersionAt(s, d), source)
        BY <3>8, <4>1, <4>5
      <4> QED BY <3>12, <4>1, <4>2, <4>4, <4>5, <4>6, <4>7
    <3> QED BY <3>1, <3>3, <3>8, <3>11, <3>13
  <2> QED BY <2>1 DEF GraftsTraced
<1> QED
  BY <1>1, InOrderAlways, PTL

-----------------------------------------------------------------------------
(* What is behind a point.                                                 *)

(* Forks and merges are of points that were there, at or above their own   *)
(* branch's fork point.                                                    *)
Rooted(d, st, c) ==
  /\ StartOf(d, c) \in 0 .. st[c].current
  /\ d[c].parent # None =>
       /\ d[c].parent[1] \in 0 .. c - 1
       /\ d[c].parent[2] \in StartOf(d, d[c].parent[1]) .. st[d[c].parent[1]].current
  /\ d[c].merged # None =>
       /\ d[c].merged[1] \in 0 .. c - 1
       /\ d[c].merged[2] \in StartOf(d, d[c].merged[1]) .. st[d[c].merged[1]].current
       /\ d[c].merged[3] \in StartOf(d, c) .. st[c].current

Family(d, st) ==
  /\ Numbered(d)
  /\ \A c \in DOMAIN d : st[c].current \in Nat /\ Rooted(d, st, c)
  /\ \E m \in Nat : \A c \in DOMAIN d : st[c].current <= m

Incoming(h, d, b, br) == UNION {IF h[c] = Absent THEN {} ELSE Flows(d[c], br, h[c]) : c \in br + 1 .. b}

HighestAt(h, d, b, at, br) == IF br = b THEN at ELSE Max({Absent} \cup Incoming(h, d, b, br))

IsHighest(h, d, b, at, lowest) == h = [br \in lowest .. b |-> HighestAt(h, d, b, at, br)]

(* What flows in comes from a branch above. *)
LEMMA IncomingIs ==
  ASSUME NEW h, NEW d, NEW b, NEW br, NEW x
  PROVE  x \in Incoming(h, d, b, br) <=> \E c \in br + 1 .. b : h[c] # Absent /\ x \in Flows(d[c], br, h[c])
BY DEF Incoming

(* So it depends on the branches above. *)
LEMMA HighestDepends ==
  ASSUME NEW h, NEW g, NEW d, NEW b \in Nat, NEW at, NEW br \in 0 .. b, \A c \in br + 1 .. b : h[c] = g[c]
  PROVE  HighestAt(h, d, b, at, br) = HighestAt(g, d, b, at, br)
<1>1. \A x : x \in Incoming(h, d, b, br) <=> x \in Incoming(g, d, b, br)
  BY IncomingIs
<1>2. Incoming(h, d, b, br) = Incoming(g, d, b, br)
  BY <1>1
<1> QED
  BY <1>2 DEF HighestAt

(* Branch after branch, down from a point's own. *)
LEMMA HighestExists ==
  ASSUME NEW d, NEW b \in Nat, NEW at
  PROVE  \E h : IsHighest(h, d, b, at, 0)
<1> DEFINE T == {j \in 0 .. b : \E h : IsHighest(h, d, b, at, b - j)}
<1>1. 0 \in T
  <2>1. PICK h : h = [br \in b .. b |-> at]
    OBVIOUS
  <2>2. \A br \in b .. b : HighestAt(h, d, b, at, br) = at
    BY DEF HighestAt
  <2>3. h = [br \in b .. b |-> HighestAt(h, d, b, at, br)]
    BY <2>1, <2>2
  <2>4. b - 0 = b /\ 0 \in 0 .. b
    OBVIOUS
  <2> QED BY <2>3, <2>4 DEF IsHighest
<1>2. ASSUME NEW j \in 1 .. b, j - 1 \in T PROVE j \in T
  <2>1. PICK lo \in 0 .. b : lo = b - j /\ b - (j - 1) = lo + 1 /\ j \in 0 .. b
    OBVIOUS
  <2>2. PICK g : IsHighest(g, d, b, at, lo + 1)
    BY <1>2, <2>1
  <2>3. \A br \in lo + 1 .. b : g[br] = HighestAt(g, d, b, at, br)
    BY <2>2 DEF IsHighest
  <2>4. PICK h : h = [br \in lo .. b |-> IF br = lo THEN HighestAt(g, d, b, at, lo) ELSE g[br]]
    OBVIOUS
  <2>5. h[lo] = HighestAt(g, d, b, at, lo) /\ \A br \in lo + 1 .. b : h[br] = g[br]
    BY <2>1, <2>4
  <2>6. ASSUME NEW br \in lo .. b PROVE h[br] = HighestAt(h, d, b, at, br)
    <3>1. br \in 0 .. b /\ \A c \in br + 1 .. b : c \in lo + 1 .. b
      BY <2>1
    <3>2. \A c \in br + 1 .. b : h[c] = g[c]
      BY <2>5, <3>1
    <3>3. HighestAt(h, d, b, at, br) = HighestAt(g, d, b, at, br)
      BY <3>1, <3>2, HighestDepends
    <3>4. h[br] = HighestAt(g, d, b, at, br)
      <4>1. CASE br = lo
        BY <2>5, <4>1
      <4>2. CASE br # lo
        <5>1. br \in lo + 1 .. b
          BY <2>1, <4>2
        <5> QED BY <2>3, <2>5, <5>1
      <4> QED BY <4>1, <4>2
    <3> QED BY <3>3, <3>4
  <2>7. h = [br \in lo .. b |-> h[br]]
    BY <2>4
  <2>8. IsHighest(h, d, b, at, lo)
    BY <2>6, <2>7 DEF IsHighest
  <2> QED BY <2>1, <2>8
<1>3. 0 .. b \subseteq T
  <2> HIDE DEF T
  <2> QED BY <1>1, <1>2, EachAfterAnother
<1>4. b \in T
  <2> HIDE DEF T
  <2> QED BY <1>3
<1>5. b - b = 0
  OBVIOUS
<1> QED
  BY <1>4, <1>5

(* A lineage, branch by branch. *)
LEMMA LineageIs ==
  ASSUME NEW d, NEW b \in Nat, NEW at
  PROVE  \E h : /\ \A br \in 0 .. b : h[br] = HighestAt(h, d, b, at, br)
                /\ Lineage(d, b, at) = [br \in DOMAIN d |-> IF br <= b THEN h[br] ELSE Absent]
<1>1. IsHighest(CHOOSE h : IsHighest(h, d, b, at, 0), d, b, at, 0)
  BY HighestExists
<1>2. PICK h : h = CHOOSE g : IsHighest(g, d, b, at, 0)
  OBVIOUS
<1>3. Lineage(d, b, at) = [br \in DOMAIN d |-> IF br <= b THEN h[br] ELSE Absent]
  BY <1>2 DEF Lineage, IsHighest, HighestAt, Incoming
<1>4. \A br \in 0 .. b : h[br] = HighestAt(h, d, b, at, br)
  BY <1>1, <1>2 DEF IsHighest
<1> QED
  BY <1>3, <1>4

(* What flows from a branch is one of its points. *)
LEMMA FlowsIs ==
  ASSUME NEW d, NEW st, Family(d, st), NEW c \in DOMAIN d, NEW br, NEW ed, NEW x \in Flows(d[c], br, ed)
  PROVE  /\ br \in 0 .. c - 1 /\ x \in StartOf(d, br) .. st[br].current /\ x \in Nat /\ br \in DOMAIN d
         /\ \/ d[c].parent # None /\ d[c].parent[1] = br /\ x = d[c].parent[2]
            \/ d[c].merged # None /\ d[c].merged[1] = br /\ x = d[c].merged[2] /\ ed >= d[c].merged[3]
<1>1. \/ d[c].parent # None /\ d[c].parent[1] = br /\ x = d[c].parent[2]
      \/ d[c].merged # None /\ d[c].merged[1] = br /\ x = d[c].merged[2] /\ ed >= d[c].merged[3]
  BY DEF Flows
<1>2. Rooted(d, st, c) /\ c \in Nat /\ Numbered(d)
  BY DEF Family, Numbered
<1>3. br \in 0 .. c - 1 /\ x \in StartOf(d, br) .. st[br].current
  BY <1>1, <1>2 DEF Rooted
<1>4. br \in DOMAIN d
  BY <1>2, <1>3 DEF Numbered
<1>5. StartOf(d, br) \in 0 .. st[br].current /\ st[br].current \in Nat
  BY <1>4 DEF Family, Rooted
<1> QED
  BY <1>1, <1>3, <1>4, <1>5

(* A lineage comes past points of the branches it reaches; past what was   *)
(* forked and merged, and where it comes past a branch it comes past what  *)
(* the branch was forked from.                                             *)
LEMMA LineageFlows ==
  ASSUME NEW d, NEW st, Family(d, st), NEW b \in DOMAIN d, NEW at \in StartOf(d, b) .. st[b].current,
         NEW line, line = Lineage(d, b, at)
  PROVE  /\ line[b] = at
         /\ \A br \in DOMAIN d : line[br] # Absent =>
              /\ line[br] \in StartOf(d, br) .. st[br].current /\ line[br] \in Nat /\ br <= b
              /\ br # b => \E c \in br + 1 .. b : c \in DOMAIN d /\ line[c] # Absent /\ line[br] \in Flows(d[c], br, line[c])
              /\ d[br].parent # None => line[d[br].parent[1]] >= d[br].parent[2] /\ line[d[br].parent[1]] # Absent
         /\ \A br \in DOMAIN d : line[br] \in Int
<1>1. PICK n \in Nat : n = NextId(d) /\ DOMAIN d = 0 .. n - 1
  BY DEF Family, Numbered
<1>2. b \in Nat /\ b \in 0 .. n - 1
  BY <1>1
<1>3. PICK h : /\ \A br \in 0 .. b : h[br] = HighestAt(h, d, b, at, br)
               /\ line = [br \in DOMAIN d |-> IF br <= b THEN h[br] ELSE Absent]
  BY <1>2, LineageIs
<1>4. PICK m \in Nat : \A c \in DOMAIN d : st[c].current <= m
  BY DEF Family
<1>5. \A br \in 0 .. b : br \in DOMAIN d /\ line[br] = h[br]
  BY <1>1, <1>2, <1>3
<1>6. StartOf(d, b) \in 0 .. st[b].current /\ st[b].current \in Nat
  BY DEF Family, Rooted
<1>7. h[b] = at /\ at \in Nat /\ at \in StartOf(d, b) .. st[b].current
  <2>1. b \in 0 .. b
    BY <1>2
  <2>2. h[b] = HighestAt(h, d, b, at, b)
    BY <1>3, <2>1
  <2>3. at \in Nat
    BY <1>6
  <2> QED BY <2>2, <2>3 DEF HighestAt
<1>8. ASSUME NEW br \in 0 .. b, br # b
      PROVE  /\ h[br] = Absent \/ h[br] \in Incoming(h, d, b, br)
             /\ \A x \in Incoming(h, d, b, br) : x <= h[br] /\ x \in StartOf(d, br) .. st[br].current /\ x \in Nat
  <2>1. PICK I : I = Incoming(h, d, b, br)
    OBVIOUS
  <2>2. ASSUME NEW x \in I PROVE x \in StartOf(d, br) .. st[br].current /\ x \in Nat /\ x <= m
    <3>1. PICK c \in br + 1 .. b : h[c] # Absent /\ x \in Flows(d[c], br, h[c])
      BY <2>1, IncomingIs
    <3>2. c \in DOMAIN d
      BY <1>1, <1>2, <3>1
    <3>3. x \in StartOf(d, br) .. st[br].current /\ x \in Nat /\ br \in DOMAIN d
      BY <3>1, <3>2, FlowsIs
    <3>4. st[br].current \in Nat /\ StartOf(d, br) \in 0 .. st[br].current /\ st[br].current <= m
      BY <1>4, <3>3 DEF Family, Rooted
    <3> QED BY <3>3, <3>4
  <2>3. PICK S : S = {Absent} \cup I
    OBVIOUS
  <2>4. S \in SUBSET Int /\ S # {} /\ (\A x \in S : x <= m) /\ m \in Int
    BY <2>2, <2>3 DEF Absent
  <2>5. Max(S) \in S /\ \A x \in S : x <= Max(S)
    BY <2>4, GreatestExists
  <2>6. h[br] = Max(S)
    BY <1>3, <1>8, <2>1, <2>3 DEF HighestAt
  <2> QED BY <2>1, <2>2, <2>3, <2>5, <2>6
<1>9. ASSUME NEW br \in DOMAIN d, line[br] # Absent
      PROVE  /\ line[br] \in StartOf(d, br) .. st[br].current /\ line[br] \in Nat /\ br <= b
             /\ br # b => \E c \in br + 1 .. b : c \in DOMAIN d /\ line[c] # Absent /\ line[br] \in Flows(d[c], br, line[c])
             /\ d[br].parent # None => line[d[br].parent[1]] >= d[br].parent[2] /\ line[d[br].parent[1]] # Absent
  <2>1. br \in 0 .. b /\ line[br] = h[br] /\ br \in Nat /\ br <= b
    BY <1>1, <1>2, <1>3, <1>9
  <2>2. line[br] \in StartOf(d, br) .. st[br].current /\ line[br] \in Nat
    BY <1>7, <1>8, <1>9, <2>1
  <2>3. ASSUME br # b
        PROVE  \E c \in br + 1 .. b : c \in DOMAIN d /\ line[c] # Absent /\ line[br] \in Flows(d[c], br, line[c])
    <3>1. h[br] \in Incoming(h, d, b, br)
      BY <1>8, <1>9, <2>1, <2>3
    <3>2. PICK c \in br + 1 .. b : h[c] # Absent /\ h[br] \in Flows(d[c], br, h[c])
      BY <3>1, IncomingIs
    <3>3. c \in 0 .. b
      BY <2>1, <3>2
    <3> QED BY <1>5, <2>1, <3>2, <3>3
  <2>4. ASSUME d[br].parent # None
        PROVE  line[d[br].parent[1]] >= d[br].parent[2] /\ line[d[br].parent[1]] # Absent
    <3>1. PICK p, x : p = d[br].parent[1] /\ x = d[br].parent[2]
      OBVIOUS
    <3>2. x \in Flows(d[br], p, h[br])
      BY <2>4, <3>1 DEF Flows
    <3>3. p \in 0 .. br - 1 /\ x \in Nat
      BY <3>2, FlowsIs
    <3>4. p \in 0 .. b /\ p # b /\ br \in p + 1 .. b
      BY <1>2, <2>1, <3>3
    <3>5. x \in Incoming(h, d, b, p)
      BY <1>9, <2>1, <3>2, <3>4, IncomingIs
    <3>6. x <= h[p] /\ (h[p] = Absent \/ h[p] \in Nat)
      BY <1>8, <3>4, <3>5
    <3>7. line[p] = h[p]
      BY <1>5, <3>4
    <3> QED BY <3>1, <3>3, <3>6, <3>7 DEF Absent
  <2> QED BY <2>1, <2>2, <2>3, <2>4
<1>10. line[b] = at
  BY <1>2, <1>5, <1>7
<1>11. ASSUME NEW br \in DOMAIN d PROVE line[br] \in Int
  BY <1>9, <1>11 DEF Absent
<1> QED
  BY <1>9, <1>10, <1>11

(* A branch has its parent's past.                                         *)
Shares(d, tl, c) ==
  d[c].parent # None => \A e \in 1 .. d[c].parent[2] : tl[c][e].original = tl[d[c].parent[1]][e].original

(* What a branch made itself since it was last consolidated is on record,  *)
(* and a copy is of something made on a branch before it.                  *)
RecordedAt(st, tl, c, e) ==
  /\ e > st[c].watermark => e \in DOMAIN st[c].patches
  /\ e \in DOMAIN st[c].patches =>
       /\ Original(<<c, e>>, st[c].patches[e]) = tl[c][e].original
       /\ st[c].patches[e].origin # None => tl[c][e].original[1] < c

OnRecord(d, st, tl, c) == \A e \in StartOf(d, c) + 1 .. st[c].current : RecordedAt(st, tl, c, e)

(* An original is a point, and its own original.                           *)
AtPoint(st, tl, c, o) ==
  /\ o \in (0 .. c) \X Nat /\ o[2] \in 1 .. st[o[1]].current
  /\ tl[o[1]][o[2]].original = o

FromAPoint(st, tl, c) == \A e \in 1 .. st[c].current : AtPoint(st, tl, c, tl[c][e].original)

(* A merge has, once its replay ended, all that the other branch had.      *)
Absorbs(d, tl, c) ==
  d[c].merged # None =>
    \A e \in 1 .. d[c].merged[2] : \E k \in 1 .. d[c].merged[3] :
      tl[c][k].original = tl[d[c].merged[1]][e].original

Ancestry(d, st, tl) ==
  \A c \in DOMAIN d :
    /\ Rooted(d, st, c) /\ Shares(d, tl, c) /\ OnRecord(d, st, tl, c)
    /\ FromAPoint(st, tl, c) /\ Absorbs(d, tl, c)

(* The originals of all that a lineage comes past are there. *)
LEMMA BehindIsWithin ==
  ASSUME NEW d, NEW st, Family(d, st), NEW tl, \A c \in DOMAIN d : Shares(d, tl, c) /\ Absorbs(d, tl, c),
         NEW b \in DOMAIN d, NEW at \in StartOf(d, b) .. st[b].current, NEW line, line = Lineage(d, b, at)
  PROVE  \A br \in DOMAIN d : \A e \in 1 .. line[br] : \E k \in 1 .. at : tl[b][k].original = tl[br][e].original
<1>1. PICK n \in Nat : n = NextId(d) /\ DOMAIN d = 0 .. n - 1
  BY DEF Family, Numbered
<1>2. b \in Nat /\ b \in 0 .. n - 1 /\ \A br \in 0 .. b : br \in DOMAIN d
  BY <1>1
<1>3. /\ line[b] = at
      /\ \A br \in DOMAIN d : line[br] # Absent =>
           /\ line[br] \in StartOf(d, br) .. st[br].current /\ line[br] \in Nat /\ br <= b
           /\ br # b => \E c \in br + 1 .. b : c \in DOMAIN d /\ line[c] # Absent /\ line[br] \in Flows(d[c], br, line[c])
  BY LineageFlows
<1> DEFINE Within(br) == \A e \in 1 .. line[br] : \E k \in 1 .. at : tl[b][k].original = tl[br][e].original
           T == {j \in 0 .. b : \A br \in b - j .. b : Within(br)}
<1>4. 0 \in T
  <2>1. Within(b)
    BY <1>3
  <2>2. \A br \in b - 0 .. b : br = b
    BY <1>2
  <2> HIDE DEF Within
  <2> QED BY <1>2, <2>1, <2>2
<1>5. \A br \in DOMAIN d : line[br] = Absent => Within(br)
  BY DEF Absent
<1>6. ASSUME NEW j \in 1 .. b, j - 1 \in T PROVE j \in T
  <2>1. PICK br \in 0 .. b : br = b - j /\ b - (j - 1) = br + 1 /\ j \in 0 .. b /\ br # b
    BY <1>2
  <2>2. \A c \in br + 1 .. b : Within(c)
    <3> HIDE DEF Within
    <3> QED BY <1>6, <2>1
  <2>3. ASSUME line[br] # Absent PROVE Within(br)
    <3>1. br \in DOMAIN d
      BY <1>2
    <3>2. PICK c \in br + 1 .. b : c \in DOMAIN d /\ line[c] # Absent /\ line[br] \in Flows(d[c], br, line[c])
      BY <1>3, <2>1, <2>3, <3>1
    <3>3. PICK x : x = line[br]
      OBVIOUS
    <3>4. \/ d[c].parent # None /\ d[c].parent[1] = br /\ x = d[c].parent[2]
          \/ d[c].merged # None /\ d[c].merged[1] = br /\ x = d[c].merged[2] /\ line[c] >= d[c].merged[3]
      BY <3>2, <3>3, FlowsIs
    <3>5. line[c] \in StartOf(d, c) .. st[c].current /\ line[c] \in Nat /\ x \in Nat /\ Rooted(d, st, c)
          /\ st[c].current \in Nat
      BY <1>3, <2>3, <3>1, <3>2, <3>3 DEF Family
    <3>6. ASSUME NEW e \in 1 .. x PROVE \E i \in 1 .. line[c] : tl[c][i].original = tl[br][e].original
      <4>1. CASE d[c].parent # None /\ d[c].parent[1] = br /\ x = d[c].parent[2]
        <5>1. StartOf(d, c) = x
          BY <4>1 DEF StartOf
        <5>2. x <= line[c]
          BY <3>5, <5>1 DEF Rooted
        <5>3. e \in 1 .. line[c]
          BY <3>5, <5>2
        <5>4. tl[c][e].original = tl[br][e].original
          BY <3>2, <4>1 DEF Shares
        <5> QED BY <5>3, <5>4
      <4>2. CASE d[c].merged # None /\ d[c].merged[1] = br /\ x = d[c].merged[2] /\ line[c] >= d[c].merged[3]
        <5>1. PICK y : y = d[c].merged[3]
          OBVIOUS
        <5>2. PICK i \in 1 .. y : tl[c][i].original = tl[br][e].original
          BY <3>2, <4>2, <5>1 DEF Absorbs
        <5>3. y \in StartOf(d, c) .. st[c].current /\ StartOf(d, c) \in 0 .. st[c].current
          BY <3>5, <4>2, <5>1 DEF Rooted
        <5>4. i \in 1 .. line[c]
          BY <3>5, <4>2, <5>1, <5>3
        <5> QED BY <5>2, <5>4
      <4> QED BY <3>4, <4>1, <4>2
    <3>7. ASSUME NEW e \in 1 .. line[br] PROVE \E k \in 1 .. at : tl[b][k].original = tl[br][e].original
      <4>1. PICK i \in 1 .. line[c] : tl[c][i].original = tl[br][e].original
        BY <3>3, <3>6
      <4>2. PICK k \in 1 .. at : tl[b][k].original = tl[c][i].original
        BY <2>2
      <4> QED BY <4>1, <4>2
    <3> QED BY <3>7
  <2>4. Within(br)
    <3>1. br \in DOMAIN d
      BY <1>2
    <3> HIDE DEF Within
    <3> QED BY <1>5, <2>3, <3>1
  <2>5. \A c \in b - j .. b : c = br \/ c \in br + 1 .. b
    BY <2>1
  <2> HIDE DEF Within
  <2> QED BY <2>1, <2>2, <2>4, <2>5
<1>7. 0 .. b \subseteq T
  <2> HIDE DEF T
  <2> QED BY <1>2, <1>4, <1>6, EachAfterAnother
<1>8. ASSUME NEW br \in 0 .. b PROVE Within(br)
  <2>1. b \in T
    <3> HIDE DEF T
    <3> QED BY <1>2, <1>7
  <2>2. br \in b - b .. b
    BY <1>2
  <2> HIDE DEF Within
  <2> QED BY <2>1, <2>2
<1>9. ASSUME NEW br \in DOMAIN d PROVE Within(br)
  <2>1. CASE line[br] = Absent
    <3> HIDE DEF Within
    <3> QED BY <1>5, <2>1
  <2>2. CASE line[br] # Absent
    <3>1. br \in 0 .. b
      BY <1>1, <1>3, <2>2
    <3> HIDE DEF Within
    <3> QED BY <1>8, <3>1
  <2> QED BY <2>1, <2>2
<1> QED
  BY <1>9

(* What a world keeps of who descends from whom, besides its order.        *)
AInv == BInv /\ Ancestry(dag, state, told)

(* Such a world is a family. *)
LEMMA FamilyIs ==
  ASSUME AInv
  PROVE  Family(dag, state)
<1>1. Numbered(dag) /\ \A c \in DOMAIN dag : state[c].current \in Nat /\ Rooted(dag, state, c)
  BY DEF AInv, BInv, Good, InnerOK, Ancestry
<1>2. \E m \in Nat : \A c \in DOMAIN dag : state[c].current <= m
  BY CurrentsBounded DEF AInv
<1> QED
  BY <1>1, <1>2 DEF Family

(* The greater of what a branch has of another and where the other starts. *)
LEMMA FromIs ==
  ASSUME NEW have, NEW br, have[br] \in Int, StartOf(dag, br) \in Nat
  PROVE  /\ From(have, br) \in Int /\ From(have, br) >= StartOf(dag, br)
         /\ \A e \in Nat : have[br] < e /\ StartOf(dag, br) < e => From(have, br) < e
<1>1. PICK h \in Int, s \in Nat : h = have[br] /\ s = StartOf(dag, br)
  OBVIOUS
<1>2. PICK S : S = {h, s, 0}
  OBVIOUS
<1>3. PICK m \in Int : m >= h /\ m >= s /\ m >= 0
  <2>1. CASE h > s
    BY <2>1
  <2>2. CASE ~ h > s
    BY <2>2
  <2> QED BY <2>1, <2>2
<1>4. S \in SUBSET Int /\ S # {} /\ \A x \in S : x <= m
  BY <1>1, <1>2, <1>3
<1>5. Max(S) \in S /\ \A x \in S : x <= Max(S)
  BY <1>4, GreatestExists
<1>6. From(have, br) = Max(S)
  BY <1>1, <1>2 DEF From
<1>7. PICK x \in Int : x = Max(S) /\ (x = h \/ x = s \/ x = 0) /\ s <= x
  BY <1>2, <1>4, <1>5
<1> QED
  BY <1>1, <1>6, <1>7

(* Whether a branch has what goes back to an original.                     *)
Known(b, o) == \E k \in 1 .. state[b].current : told[b][k].original = o

(* What the other branch of a merge has, the merging branch has, or is to  *)
(* replay: what it leaves out it holds already, or replays the original of.*)
LEMMA MergeAbsorbs ==
  ASSUME AInv, NEW b \in DOMAIN dag, NEW other \in DOMAIN dag,
         NEW have, have = Lineage(dag, b, state[b].current),
         NEW theirs, theirs = Lineage(dag, other, state[other].current), ~ Gone(have, theirs),
         NEW P, P = ToReplay(have, theirs)
  PROVE  \A br \in DOMAIN dag : \A e \in 1 .. theirs[br] :
           Known(b, told[br][e].original) \/ \E p \in P : Original(p, PatchOf(p)) = told[br][e].original
<1>1. Family(dag, state) /\ \A c \in DOMAIN dag : /\ Rooted(dag, state, c) /\ Shares(dag, told, c)
                                                  /\ OnRecord(dag, state, told, c) /\ FromAPoint(state, told, c)
                                                  /\ Absorbs(dag, told, c)
  BY FamilyIs DEF AInv, Ancestry
<1>2. PICK n \in Nat : DOMAIN dag = 0 .. n - 1
  BY DEF AInv, BInv, Numbered
<1>3. \A c \in DOMAIN dag : /\ state[c].current \in Nat /\ StartOf(dag, c) \in 0 .. state[c].current
                            /\ StartOf(dag, c) \in Nat /\ state[c].watermark \in Nat
  BY <1>1 DEF Rooted, Family, AInv, BInv, Good, InnerOK
<1>4. PICK at, oat : at = state[b].current /\ oat = state[other].current
  OBVIOUS
<1>5. at \in StartOf(dag, b) .. state[b].current /\ oat \in StartOf(dag, other) .. state[other].current
  BY <1>3, <1>4
<1>6. /\ \A br \in DOMAIN dag : have[br] \in Int
      /\ \A br \in DOMAIN dag : have[br] # Absent => have[br] \in StartOf(dag, br) .. state[br].current
  BY <1>1, <1>4, <1>5, LineageFlows
<1>7. /\ \A br \in DOMAIN dag : theirs[br] \in Int
      /\ \A br \in DOMAIN dag : theirs[br] # Absent =>
           /\ theirs[br] \in StartOf(dag, br) .. state[br].current
           /\ dag[br].parent # None => theirs[dag[br].parent[1]] >= dag[br].parent[2]
  BY <1>1, <1>4, <1>5, LineageFlows
<1>8. ASSUME NEW br \in DOMAIN dag, NEW e \in 1 .. have[br] PROVE Known(b, told[br][e].original)
  <2>1. \E k \in 1 .. at : told[b][k].original = told[br][e].original
    BY <1>1, <1>4, <1>5, BehindIsWithin
  <2> QED BY <1>4, <2>1 DEF Known
<1> DEFINE Kept(br) == \A e \in 1 .. theirs[br] :
              Known(b, told[br][e].original) \/ \E p \in P : Original(p, PatchOf(p)) = told[br][e].original
           T == {i \in 0 .. n : \A br \in 0 .. i - 1 : Kept(br)}
<1>9. ASSUME NEW br \in DOMAIN dag, \A c \in 0 .. br - 1 : Kept(c), NEW e \in 1 .. theirs[br]
      PROVE  Known(b, told[br][e].original) \/ \E p \in P : Original(p, PatchOf(p)) = told[br][e].original
  <2>1. e \in Nat /\ 1 <= e /\ e <= theirs[br] /\ theirs[br] # Absent
    BY <1>7 DEF Absent
  <2>2. e <= state[br].current /\ theirs[br] <= state[br].current
    BY <1>3, <1>7, <2>1
  <2>3. CASE e <= StartOf(dag, br)
    <3>1. dag[br].parent # None /\ StartOf(dag, br) = dag[br].parent[2]
      BY <2>1, <2>3 DEF StartOf
    <3>2. PICK p, x : p = dag[br].parent[1] /\ x = dag[br].parent[2]
      OBVIOUS
    <3>3. p \in 0 .. br - 1 /\ x \in Nat
      BY <1>1, <1>3, <3>1, <3>2 DEF Rooted
    <3>4. p \in DOMAIN dag /\ theirs[p] >= x
      BY <1>2, <1>7, <2>1, <3>1, <3>2, <3>3
    <3>5. e \in 1 .. x /\ e \in 1 .. theirs[p]
      BY <1>7, <2>1, <2>3, <3>1, <3>2, <3>3, <3>4
    <3>6. told[br][e].original = told[p][e].original
      BY <1>1, <3>1, <3>2, <3>5 DEF Shares
    <3>7. Known(b, told[p][e].original) \/ \E q \in P : Original(q, PatchOf(q)) = told[p][e].original
      BY <1>9, <3>3, <3>5
    <3> QED BY <3>6, <3>7
  <2>4. CASE have[br] >= e
    <3>1. e \in 1 .. have[br]
      BY <1>6, <2>1, <2>4
    <3> QED BY <1>8, <3>1
  <2>5. CASE ~ e <= StartOf(dag, br) /\ ~ have[br] >= e
    <3>1. From(have, br) \in Int /\ From(have, br) < e
      BY <1>3, <1>6, <2>1, <2>5, FromIs
    <3>2. From(have, br) < theirs[br]
      BY <1>7, <2>1, <3>1
    <3>3. ~ From(have, br) < state[br].watermark
      BY <3>2 DEF Gone
    <3>4. e > state[br].watermark
      BY <1>3, <2>1, <3>1, <3>3
    <3>5. e \in StartOf(dag, br) + 1 .. state[br].current
      BY <1>3, <2>1, <2>2, <2>5
    <3>6. PICK point, patch, original :
            point = <<br, e>> /\ patch = state[br].patches[e] /\ original = told[br][e].original
      OBVIOUS
    <3>7. /\ e \in DOMAIN state[br].patches /\ Original(point, patch) = original
          /\ patch.origin # None => original[1] < br
      BY <1>1, <3>4, <3>5, <3>6 DEF OnRecord, RecordedAt
    <3>8. point[1] = br /\ point[2] = e /\ PatchOf(point) = patch
      BY <3>6 DEF PatchOf
    <3>9. PICK Q : Q = UNION {{<<c, i>> : i \in {k \in DOMAIN state[c].patches : From(have, c) < k /\ k <= theirs[c]}}
                              : c \in DOMAIN dag}
      OBVIOUS
    <3>10. point \in Q
      BY <2>1, <3>1, <3>6, <3>7, <3>9
    <3>11. P = {q \in Q : ~ (\/ Reaches(have, Original(q, PatchOf(q)))
                            \/ Original(q, PatchOf(q)) \in Copied(have)
                            \/ (PatchOf(q).origin # None /\ Reaches(theirs, Original(q, PatchOf(q)))))}
      BY <3>9 DEF ToReplay, PatchOf
    <3>12. e \in 1 .. state[br].current
      BY <1>3, <2>1, <2>2
    <3>13. /\ original \in (0 .. br) \X Nat
           /\ original[2] \in 1 .. state[original[1]].current
           /\ told[original[1]][original[2]].original = original
      BY <1>1, <3>6, <3>12 DEF FromAPoint, AtPoint
    <3>14. PICK o \in 0 .. br, x \in Nat : original = <<o, x>>
      BY <3>13
    <3>15. original[1] = o /\ original[2] = x /\ o \in DOMAIN dag /\ 1 <= x /\ told[o][x].original = original
      BY <1>2, <3>13, <3>14
    <3>16. ASSUME Reaches(have, original) PROVE Known(b, original)
      <4>1. x \in 1 .. have[o]
        BY <1>6, <3>14, <3>15, <3>16 DEF Reaches
      <4> QED BY <1>8, <3>15, <4>1
    <3>17. ASSUME original \in Copied(have) PROVE Known(b, original)
      <4>1. original # None
        BY <3>17 DEF Copied
      <4>2. PICK m \in DOMAIN dag : /\ have[m] # Absent
                                    /\ \E i \in DOMAIN state[m].patches :
                                         StartOf(dag, m) < i /\ i <= have[m] /\ state[m].patches[i].origin = original
        BY <3>17 DEF Copied
      <4>3. PICK i \in DOMAIN state[m].patches :
              StartOf(dag, m) < i /\ i <= have[m] /\ state[m].patches[i].origin = original
        BY <4>2
      <4>4. i \in Int
        BY DEF AInv, BInv, Good, InnerOK, PatchesOK
      <4>5. i \in StartOf(dag, m) + 1 .. state[m].current /\ i \in 1 .. have[m]
        BY <1>3, <1>6, <4>2, <4>3, <4>4
      <4>6. Original(<<m, i>>, state[m].patches[i]) = told[m][i].original
        BY <1>1, <4>5 DEF OnRecord, RecordedAt
      <4>7. told[m][i].original = original
        BY <4>1, <4>3, <4>6 DEF Original
      <4> QED BY <1>8, <4>5, <4>7
    <3>18. ASSUME patch.origin # None, Reaches(theirs, original)
           PROVE  Known(b, original) \/ \E p \in P : Original(p, PatchOf(p)) = original
      <4>1. o < br
        BY <3>7, <3>15, <3>18
      <4>2. o \in 0 .. br - 1
        BY <1>2, <4>1
      <4>3. x \in 1 .. theirs[o]
        BY <1>7, <3>14, <3>15, <3>18 DEF Reaches
      <4> QED BY <1>9, <3>15, <4>2, <4>3
    <3>19. \/ point \in P
           \/ Reaches(have, original)
           \/ original \in Copied(have)
           \/ patch.origin # None /\ Reaches(theirs, original)
      BY <3>7, <3>8, <3>10, <3>11
    <3> QED BY <3>6, <3>7, <3>8, <3>16, <3>17, <3>18, <3>19
  <2> QED BY <2>3, <2>4, <2>5
<1>10. ASSUME NEW br \in DOMAIN dag, \A c \in 0 .. br - 1 : Kept(c) PROVE Kept(br)
  BY <1>9, <1>10
<1>11. 0 \in T
  OBVIOUS
<1>12. ASSUME NEW i \in 1 .. n, i - 1 \in T PROVE i \in T
  <2>1. i - 1 \in DOMAIN dag /\ i \in 0 .. n /\ \A c \in 0 .. i - 1 : c = i - 1 \/ c \in 0 .. (i - 1) - 1
    BY <1>2
  <2>2. \A c \in 0 .. (i - 1) - 1 : Kept(c)
    BY <1>12
  <2> HIDE DEF Kept
  <2>3. Kept(i - 1)
    BY <1>10, <2>1, <2>2
  <2> QED BY <2>1, <2>2, <2>3
<1>13. 0 .. n \subseteq T
  <2> HIDE DEF T
  <2> QED BY <1>11, <1>12, EachAfterAnother
<1>14. \A br \in DOMAIN dag : Kept(br)
  <2>1. n \in T
    <3> HIDE DEF T
    <3> QED BY <1>13
  <2> HIDE DEF Kept
  <2> QED BY <1>2, <2>1
<1> QED
  BY <1>14

(* What is replayed was made on its branch, and goes back to an original. *)
LEMMA ReplayedPoint ==
  ASSUME AInv, NEW b \in DOMAIN dag, NEW have, have = Lineage(dag, b, state[b].current),
         NEW theirs, NEW p \in ToReplay(have, theirs)
  PROVE  p[1] \in DOMAIN dag /\ AtPoint(state, told, p[1], Original(p, PatchOf(p)))
<1>0. PICK br \in DOMAIN dag : \E e \in DOMAIN state[br].patches : p = <<br, e>> /\ From(have, br) < e
  BY DEF ToReplay
<1>1. PICK e \in DOMAIN state[br].patches : p = <<br, e>> /\ From(have, br) < e
  BY <1>0
<1>2. p[1] = br /\ p[2] = e /\ PatchOf(p) = state[br].patches[e]
  BY <1>1 DEF PatchOf
<1>3. InnerOK(state[br]) /\ state[b].current \in Nat
  BY DEF AInv, BInv, Good, InnerOK
<1>4. state[br].current \in Nat /\ e \in 1 .. state[br].current
  BY <1>3 DEF InnerOK, PatchesOK
<1>5. /\ Rooted(dag, state, b) /\ Rooted(dag, state, br) /\ OnRecord(dag, state, told, br)
      /\ FromAPoint(state, told, br) /\ Family(dag, state)
  BY FamilyIs DEF AInv, Ancestry
<1>6. PICK at : at = state[b].current /\ at \in StartOf(dag, b) .. state[b].current
  BY <1>3, <1>5 DEF Rooted
<1>7. have[br] \in Int
  BY <1>5, <1>6, LineageFlows
<1>8. StartOf(dag, br) \in Nat
  BY <1>4, <1>5 DEF Rooted
<1>9. From(have, br) \in Int /\ From(have, br) >= StartOf(dag, br)
  BY <1>7, <1>8, FromIs
<1>10. e \in StartOf(dag, br) + 1 .. state[br].current
  BY <1>1, <1>4, <1>8, <1>9
<1>11. Original(p, PatchOf(p)) = told[br][e].original
  BY <1>1, <1>2, <1>5, <1>10 DEF OnRecord, RecordedAt
<1> QED
  BY <1>2, <1>4, <1>5, <1>11 DEF FromAPoint

-----------------------------------------------------------------------------
(* Who descends from whom is kept.                                         *)

(* Nothing a world's branches were is undone in a later one.               *)
Later(d, st, tl, d2, st2, tl2) ==
  \A c \in DOMAIN d :
    /\ c \in DOMAIN d2 /\ d2[c] = d[c]
    /\ st[c].current \in Nat /\ st2[c].current \in Nat /\ st[c].current <= st2[c].current
    /\ \A e \in 1 .. st[c].current : tl2[c][e].original = tl[c][e].original

(* What a branch was is not undone by what comes later. *)
LEMMA Carried ==
  ASSUME NEW d, Numbered(d), NEW st, NEW tl, Ancestry(d, st, tl),
         NEW d2, NEW st2, NEW tl2, Later(d, st, tl, d2, st2, tl2), NEW c \in DOMAIN d
  PROVE  /\ Rooted(d2, st2, c) /\ Shares(d2, tl2, c) /\ Absorbs(d2, tl2, c) /\ StartOf(d2, c) = StartOf(d, c)
         /\ \A o : AtPoint(st, tl, c, o) => AtPoint(st2, tl2, c, o)
<1>1. PICK n \in Nat : DOMAIN d = 0 .. n - 1
  BY DEF Numbered
<1>2. c \in Nat /\ \A x \in 0 .. c : x \in DOMAIN d
  BY <1>1
<1>3. \A x \in DOMAIN d : StartOf(d2, x) = StartOf(d, x)
  BY DEF StartOf, Later
<1>4. Rooted(d, st, c) /\ Shares(d, tl, c) /\ Absorbs(d, tl, c) /\ d2[c] = d[c]
      /\ st[c].current \in Nat /\ st2[c].current \in Nat /\ st[c].current <= st2[c].current
      /\ StartOf(d2, c) = StartOf(d, c)
  BY <1>3 DEF Ancestry, Later
<1>5. StartOf(d2, c) \in 0 .. st2[c].current
  BY <1>4 DEF Rooted
<1>6. ASSUME d2[c].parent # None
      PROVE  /\ d2[c].parent[1] \in 0 .. c - 1
             /\ d2[c].parent[2] \in StartOf(d2, d2[c].parent[1]) .. st2[d2[c].parent[1]].current
             /\ \A e \in 1 .. d2[c].parent[2] : tl2[c][e].original = tl2[d2[c].parent[1]][e].original
  <2>1. PICK p, x : p = d[c].parent[1] /\ x = d[c].parent[2]
    OBVIOUS
  <2>2. p \in 0 .. c - 1 /\ x \in StartOf(d, p) .. st[p].current
    BY <1>4, <1>6, <2>1 DEF Rooted
  <2>3. p \in DOMAIN d
    BY <1>2, <2>2
  <2>4. /\ st[p].current \in Nat /\ st2[p].current \in Nat /\ st[p].current <= st2[p].current
        /\ StartOf(d2, p) = StartOf(d, p) /\ StartOf(d, p) \in 0 .. st[p].current
    BY <1>3, <2>3 DEF Later, Ancestry, Rooted
  <2>5. x \in StartOf(d2, p) .. st2[p].current /\ x \in Nat /\ x <= st[p].current
    BY <2>2, <2>4
  <2>6. x = StartOf(d, c)
    BY <1>4, <1>6, <2>1 DEF StartOf
  <2>7. x <= st[c].current
    BY <1>4, <2>5, <2>6 DEF Rooted
  <2>8. ASSUME NEW e \in 1 .. x PROVE tl2[c][e].original = tl2[p][e].original
    <3>1. e \in 1 .. st[c].current /\ e \in 1 .. st[p].current
      BY <1>4, <2>4, <2>5, <2>7
    <3>2. tl[c][e].original = tl[p][e].original
      BY <1>4, <1>6, <2>1 DEF Shares
    <3>3. tl2[c][e].original = tl[c][e].original
      BY <3>1 DEF Later
    <3>4. tl2[p][e].original = tl[p][e].original
      BY <2>3, <3>1 DEF Later
    <3> QED BY <3>2, <3>3, <3>4
  <2> QED BY <1>4, <2>1, <2>2, <2>5, <2>8
<1>7. ASSUME d2[c].merged # None
      PROVE  /\ d2[c].merged[1] \in 0 .. c - 1
             /\ d2[c].merged[2] \in StartOf(d2, d2[c].merged[1]) .. st2[d2[c].merged[1]].current
             /\ d2[c].merged[3] \in StartOf(d2, c) .. st2[c].current
             /\ \A e \in 1 .. d2[c].merged[2] : \E k \in 1 .. d2[c].merged[3] :
                  tl2[c][k].original = tl2[d2[c].merged[1]][e].original
  <2>1. PICK p, x, y : p = d[c].merged[1] /\ x = d[c].merged[2] /\ y = d[c].merged[3]
    OBVIOUS
  <2>2. p \in 0 .. c - 1 /\ x \in StartOf(d, p) .. st[p].current /\ y \in StartOf(d, c) .. st[c].current
    BY <1>4, <1>7, <2>1 DEF Rooted
  <2>3. p \in DOMAIN d
    BY <1>2, <2>2
  <2>4. /\ st[p].current \in Nat /\ st2[p].current \in Nat /\ st[p].current <= st2[p].current
        /\ StartOf(d2, p) = StartOf(d, p) /\ StartOf(d, p) \in 0 .. st[p].current
        /\ StartOf(d, c) \in 0 .. st[c].current
    BY <1>3, <1>4, <2>3 DEF Later, Ancestry, Rooted
  <2>5. x \in StartOf(d2, p) .. st2[p].current /\ x \in Nat /\ x <= st[p].current
        /\ y \in StartOf(d2, c) .. st2[c].current /\ y \in Nat /\ y <= st[c].current
    BY <1>4, <2>2, <2>4
  <2>6. ASSUME NEW e \in 1 .. x PROVE \E k \in 1 .. y : tl2[c][k].original = tl2[p][e].original
    <3>1. PICK k \in 1 .. y : tl[c][k].original = tl[p][e].original
      BY <1>4, <1>7, <2>1 DEF Absorbs
    <3>2. k \in 1 .. st[c].current /\ e \in 1 .. st[p].current
      BY <1>4, <2>4, <2>5
    <3>3. tl2[c][k].original = tl[c][k].original
      BY <3>2 DEF Later
    <3>4. tl2[p][e].original = tl[p][e].original
      BY <2>3, <3>2 DEF Later
    <3> QED BY <3>1, <3>3, <3>4
  <2> QED BY <1>4, <2>1, <2>2, <2>5, <2>6
<1>8. ASSUME NEW o, AtPoint(st, tl, c, o) PROVE AtPoint(st2, tl2, c, o)
  <2>1. PICK p, x : p = o[1] /\ x = o[2]
    OBVIOUS
  <2>2. p \in 0 .. c /\ x \in 1 .. st[p].current /\ tl[p][x].original = o /\ o \in (0 .. c) \X Nat
    BY <1>8, <2>1 DEF AtPoint
  <2>3. p \in DOMAIN d
    BY <1>2, <2>2
  <2>4. x \in 1 .. st2[p].current /\ tl2[p][x].original = o
    BY <2>2, <2>3 DEF Later
  <2> QED BY <2>1, <2>2, <2>4 DEF AtPoint
<1>9. Rooted(d2, st2, c)
  BY <1>5, <1>6, <1>7 DEF Rooted
<1>10. Shares(d2, tl2, c)
  BY <1>6 DEF Shares
<1>11. Absorbs(d2, tl2, c)
  BY <1>7 DEF Absorbs
<1> QED
  BY <1>4, <1>8, <1>9, <1>10, <1>11

(* A branch with one edition more, made there. *)
LEMMA OneEditionMore ==
  ASSUME AInv, NEW b \in DOMAIN dag, NEW s, NEW told_b, NEW e, NEW patch, NEW x,
         e = state[b].current + 1, s.current = e, s.watermark = state[b].watermark,
         s.patches = Put(state[b].patches, e, patch), patch.origin = None,
         told_b = Append(told[b], x), x.original = <<b, e>>,
         dag' = dag, state' = [state EXCEPT ![b] = s], told' = [told EXCEPT ![b] = told_b]
  PROVE  Ancestry(dag', state', told')
<1>1. DOMAIN state = DOMAIN dag /\ DOMAIN told = DOMAIN dag /\ Numbered(dag) /\ Ancestry(dag, state, told)
      /\ \A c \in DOMAIN dag : state[c].current \in Nat /\ IsSeq(told[c]) /\ Len(told[c]) = state[c].current
  BY DEF AInv, BInv, Good, InnerOK, Faithful
<1>2. PICK st, tl : st = state' /\ tl = told'
  OBVIOUS
<1>3. st[b] = s /\ tl[b] = told_b /\ \A c \in DOMAIN dag : c # b => st[c] = state[c] /\ tl[c] = told[c]
  BY <1>1, <1>2
<1>4. (\A i \in 1 .. state[b].current : told_b[i] = told[b][i]) /\ told_b[e] = x
  BY <1>1, OneMore
<1>5. PICK m \in Nat : m = state[b].current /\ e = m + 1 /\ e \in Nat /\ b \in Nat
  BY <1>1 DEF Numbered
<1>6. Later(dag, state, told, dag, st, tl)
  <2>1. ASSUME NEW c \in DOMAIN dag
        PROVE  /\ state[c].current \in Nat /\ st[c].current \in Nat /\ state[c].current <= st[c].current
               /\ \A i \in 1 .. state[c].current : tl[c][i].original = told[c][i].original
    <3>1. CASE c = b
      <4>1. st[c].current = e /\ tl[c] = told_b /\ told[c] = told[b]
        BY <1>3, <3>1
      <4>2. state[c].current = state[b].current
        BY <3>1
      <4>3. state[c].current \in Nat /\ st[c].current \in Nat /\ state[c].current <= st[c].current
        BY <1>5, <4>1, <4>2
      <4>4. \A i \in 1 .. state[c].current : tl[c][i].original = told[c][i].original
        BY <1>4, <4>1, <4>2
      <4> QED BY <4>3, <4>4
    <3>2. CASE c # b
      BY <1>1, <1>3, <3>2
    <3> QED BY <3>1, <3>2
  <2> QED BY <2>1 DEF Later
<1>7. ASSUME NEW c \in DOMAIN dag
      PROVE  /\ Rooted(dag, st, c) /\ Shares(dag, tl, c) /\ OnRecord(dag, st, tl, c)
             /\ FromAPoint(st, tl, c) /\ Absorbs(dag, tl, c)
  <2>1. /\ Rooted(dag, st, c) /\ Shares(dag, tl, c) /\ Absorbs(dag, tl, c)
        /\ \A o : AtPoint(state, told, c, o) => AtPoint(st, tl, c, o)
    BY <1>1, <1>6, Carried
  <2>2. FromAPoint(state, told, c) /\ OnRecord(dag, state, told, c)
    BY <1>1 DEF Ancestry
  <2>3. CASE c # b
    <3>1. st[c] = state[c] /\ tl[c] = told[c]
      BY <1>3, <2>3
    <3>2. FromAPoint(st, tl, c)
      BY <2>1, <2>2, <3>1 DEF FromAPoint
    <3>3. OnRecord(dag, st, tl, c)
      BY <2>2, <3>1 DEF OnRecord, RecordedAt
    <3> QED BY <2>1, <3>2, <3>3
  <2>4. CASE c = b
    <3>1. ASSUME NEW i \in 1 .. e PROVE AtPoint(st, tl, b, told_b[i].original)
      <4>1. CASE i = e
        <5>1. told_b[i].original = <<b, e>>
          BY <1>4, <4>1
        <5>6. PICK o : o = <<b, e>>
          OBVIOUS
        <5>2. o = <<b, e>> /\ o[1] = b /\ o[2] = e
          BY <5>6
        <5>3. o \in (0 .. b) \X Nat
          <6>1. b \in 0 .. b
            BY <1>5
          <6> QED BY <1>5, <5>2, <6>1
        <5>4. o[2] \in 1 .. st[o[1]].current /\ tl[o[1]][o[2]].original = o
          BY <1>3, <1>5, <4>1, <5>1, <5>2
        <5> QED BY <5>1, <5>2, <5>3, <5>4 DEF AtPoint
      <4>2. CASE i # e
        <5>1. i \in 1 .. state[b].current
          BY <1>5, <4>2
        <5>2. AtPoint(state, told, b, told[b][i].original)
          BY <2>2, <2>4, <5>1 DEF FromAPoint
        <5> QED BY <1>4, <2>1, <2>4, <5>1, <5>2
      <4> QED BY <4>1, <4>2
    <3>2. FromAPoint(st, tl, b)
      BY <1>3, <3>1 DEF FromAPoint
    <3>3. StartOf(dag, b) \in Nat
      BY <1>1 DEF Ancestry, Rooted
    <3>4. ASSUME NEW i \in StartOf(dag, b) + 1 .. e PROVE RecordedAt(st, tl, b, i)
      <4>1. CASE i = e
        <5>1. e \in DOMAIN s.patches /\ s.patches[e] = patch
          BY DEF Put
        <5>2. Original(<<b, e>>, patch) = <<b, e>>
          BY DEF Original
        <5> QED BY <1>3, <1>4, <4>1, <5>1, <5>2 DEF RecordedAt
      <4>2. CASE i # e
        <5>1. i \in StartOf(dag, b) + 1 .. state[b].current /\ i \in 1 .. state[b].current
          <6>1. PICK a \in Nat : a = StartOf(dag, b)
            BY <3>3
          <6>2. PICK c_b \in Nat : c_b = state[b].current /\ e = c_b + 1
            BY <1>5
          <6>3. i \in Int /\ a + 1 <= i /\ i <= c_b + 1 /\ i # c_b + 1
            BY <4>2, <6>1, <6>2
          <6>4. i \in a + 1 .. c_b /\ i \in 1 .. c_b
            BY <6>3
          <6> QED BY <6>1, <6>2, <6>4
        <5>2. RecordedAt(state, told, b, i)
          BY <2>2, <2>4, <5>1 DEF OnRecord
        <5>3. (i \in DOMAIN s.patches <=> i \in DOMAIN state[b].patches)
              /\ (i \in DOMAIN state[b].patches => s.patches[i] = state[b].patches[i])
          BY <4>2 DEF Put
        <5>4. told_b[i] = told[b][i]
          BY <1>4, <5>1
        <5> QED BY <1>3, <5>2, <5>3, <5>4 DEF RecordedAt
      <4> QED BY <4>1, <4>2
    <3>5. OnRecord(dag, st, tl, b)
      BY <1>3, <3>4 DEF OnRecord
    <3> QED BY <2>1, <2>4, <3>2, <3>5
  <2> QED BY <2>3, <2>4
<1> QED
  BY <1>2, <1>7 DEF Ancestry

(* A branch with none more, and fewer on record. *)
LEMMA NoEditionMore ==
  ASSUME AInv, NEW b \in DOMAIN dag, NEW s, s.current = state[b].current,
         state[b].watermark <= s.watermark, s.watermark \in Nat,
         \A e \in DOMAIN s.patches : e \in DOMAIN state[b].patches /\ s.patches[e] = state[b].patches[e],
         \A e \in DOMAIN state[b].patches : e > s.watermark => e \in DOMAIN s.patches,
         dag' = dag, state' = [state EXCEPT ![b] = s], told' = told
  PROVE  Ancestry(dag', state', told')
<1>1. DOMAIN state = DOMAIN dag /\ Numbered(dag) /\ Ancestry(dag, state, told)
      /\ \A c \in DOMAIN dag : state[c].current \in Nat /\ state[c].watermark \in Nat
  BY DEF AInv, BInv, Good, InnerOK, Faithful
<1>2. PICK st : st = state'
  OBVIOUS
<1>3. st[b] = s /\ \A c \in DOMAIN dag : c # b => st[c] = state[c]
  BY <1>1, <1>2
<1>4. \A c \in DOMAIN dag : st[c].current = state[c].current
  BY <1>3
<1>5. Later(dag, state, told, dag, st, told)
  BY <1>1, <1>4 DEF Later
<1>6. ASSUME NEW c \in DOMAIN dag
      PROVE  /\ Rooted(dag, st, c) /\ Shares(dag, told, c) /\ OnRecord(dag, st, told, c)
             /\ FromAPoint(st, told, c) /\ Absorbs(dag, told, c)
  <2>1. /\ Rooted(dag, st, c) /\ Shares(dag, told, c) /\ Absorbs(dag, told, c)
        /\ \A o : AtPoint(state, told, c, o) => AtPoint(st, told, c, o)
    BY <1>1, <1>5, Carried
  <2>2. FromAPoint(state, told, c) /\ OnRecord(dag, state, told, c) /\ Rooted(dag, state, c)
    BY <1>1 DEF Ancestry
  <2>3. FromAPoint(st, told, c)
    BY <1>4, <2>1, <2>2 DEF FromAPoint
  <2>4. CASE c # b
    <3>1. OnRecord(dag, st, told, c)
      BY <1>3, <2>2, <2>4 DEF OnRecord, RecordedAt
    <3> QED BY <2>1, <2>3, <3>1
  <2>5. CASE c = b
    <3>1. ASSUME NEW e \in StartOf(dag, b) + 1 .. s.current PROVE RecordedAt(st, told, b, e)
      <4>1. RecordedAt(state, told, b, e) /\ e \in Nat
        BY <1>1, <2>2, <2>5, <3>1 DEF OnRecord, Rooted
      <4>2. e > s.watermark => e > state[b].watermark
        BY <1>1, <4>1
      <4> QED BY <1>3, <4>1, <4>2 DEF RecordedAt
    <3>2. OnRecord(dag, st, told, b)
      BY <1>3, <3>1 DEF OnRecord
    <3> QED BY <2>1, <2>3, <2>5, <3>2
  <2> QED BY <2>4, <2>5
<1> QED
  BY <1>2, <1>6 DEF Ancestry

(* A branch more. *)
LEMMA OneMoreDescends ==
  ASSUME AInv, NEW n, n = NextId(dag), NEW record, NEW s, NEW told_n, s.current \in Nat,
         dag' = Put(dag, n, record), state' = Put(state, n, s), told' = Put(told, n, told_n),
         NEW d, d = dag', NEW st, st = state', NEW tl, tl = told',
         Rooted(d, st, n) /\ Shares(d, tl, n) /\ OnRecord(d, st, tl, n) /\ FromAPoint(st, tl, n) /\ Absorbs(d, tl, n)
  PROVE  Ancestry(dag', state', told')
<1>1. DOMAIN state = DOMAIN dag /\ DOMAIN told = DOMAIN dag /\ Numbered(dag) /\ Ancestry(dag, state, told)
      /\ \A c \in DOMAIN dag : state[c].current \in Nat
  BY DEF AInv, BInv, Good, InnerOK, Faithful
<1>2. DOMAIN d = DOMAIN dag \cup {n} /\ n \notin DOMAIN dag
  BY <1>1, NumberedPut
<1>3. \A c \in DOMAIN dag : d[c] = dag[c] /\ st[c] = state[c] /\ tl[c] = told[c]
  BY <1>1, <1>2 DEF Put
<1>4. Later(dag, state, told, d, st, tl)
  BY <1>1, <1>2, <1>3 DEF Later
<1>5. ASSUME NEW c \in DOMAIN dag
      PROVE  /\ Rooted(d, st, c) /\ Shares(d, tl, c) /\ OnRecord(d, st, tl, c)
             /\ FromAPoint(st, tl, c) /\ Absorbs(d, tl, c)
  <2>1. /\ Rooted(d, st, c) /\ Shares(d, tl, c) /\ Absorbs(d, tl, c) /\ StartOf(d, c) = StartOf(dag, c)
        /\ \A o : AtPoint(state, told, c, o) => AtPoint(st, tl, c, o)
    BY <1>1, <1>4, Carried
  <2>2. FromAPoint(state, told, c) /\ OnRecord(dag, state, told, c)
    BY <1>1 DEF Ancestry
  <2>3. FromAPoint(st, tl, c)
    BY <1>3, <2>1, <2>2 DEF FromAPoint
  <2>4. OnRecord(d, st, tl, c)
    BY <1>3, <2>1, <2>2 DEF OnRecord, RecordedAt
  <2> QED BY <2>1, <2>3, <2>4
<1> QED
  BY <1>2, <1>5 DEF Ancestry

(* A world as it begins has no one descending from anyone. *)
LEMMA InitAInv == Init => AInv
<1> SUFFICES ASSUME Init PROVE AInv
  OBVIOUS
<1>1. DOMAIN dag = {0} /\ dag[0].parent = None /\ dag[0].merged = None /\ state[0] = Inner0 /\ told[0] = << >>
  BY DEF Init, NewDag, Root
<1>2. state[0].current = 0 /\ StartOf(dag, 0) = 0
  BY <1>1 DEF Inner0, StartOf
<1>3. Rooted(dag, state, 0) /\ Shares(dag, told, 0) /\ Absorbs(dag, told, 0)
  BY <1>1, <1>2 DEF Rooted, Shares, Absorbs
<1>4. OnRecord(dag, state, told, 0) /\ FromAPoint(state, told, 0)
  BY <1>2 DEF OnRecord, FromAPoint
<1> QED
  BY <1>1, <1>3, <1>4, InitBInv DEF AInv, Ancestry

(* A commit is an edition more. *)
LEMMA CommitDescends ==
  ASSUME AInv, NEW b \in DOMAIN dag, NEW p \in Patches, Commit(b, p)
  PROVE  Ancestry(dag', state', told')
<1>1. InnerOK(state[b])
  BY DEF AInv, BInv, Good
<1>2. PICK e, patch : e = state[b].current + 1 /\ patch = [kind |-> "commit", pre |-> p.pre, origin |-> None]
  OBVIOUS
<1>3. PICK s : s = Apply(state[b], p.pre, p.updates, None)
  OBVIOUS
<1>4. s.current = e /\ s.watermark = state[b].watermark /\ s.patches = Put(state[b].patches, e, patch)
  BY <1>1, <1>2, <1>3 DEF InnerOK, Apply
<1>5. PICK x : x = [original |-> <<b, s.current>>, rows |-> TreeRows(Now(s))]
  OBVIOUS
<1>6. x.original = <<b, e>> /\ patch.origin = None
  BY <1>2, <1>4, <1>5
<1>7. PICK told_b : told_b = Append(told[b], x)
  OBVIOUS
<1>8. state' = [state EXCEPT ![b] = s] /\ told' = [told EXCEPT ![b] = told_b] /\ dag' = dag
  BY <1>3, <1>5, <1>7 DEF Commit, Tell
<1> QED
  BY <1>2, <1>4, <1>6, <1>7, <1>8, OneEditionMore

(* And so is a graft. *)
LEMMA InstanceTemplateDescends ==
  ASSUME AInv, NEW b \in DOMAIN dag, NEW block \in Blocks, InstanceTemplate(b, block)
  PROVE  Ancestry(dag', state', told')
<1>1. InnerOK(state[b])
  BY DEF AInv, BInv, Good
<1>2. PICK e, patch : e = state[b].current + 1 /\ patch = [kind |-> "graft", block |-> block, origin |-> None]
  OBVIOUS
<1>3. PICK s : s = Graft(state[b], block, None)
  OBVIOUS
<1>4. s.current = e /\ s.watermark = state[b].watermark /\ s.patches = Put(state[b].patches, e, patch)
  BY <1>1, <1>2, <1>3 DEF InnerOK, Graft
<1>5. PICK x : x = [original |-> <<b, s.current>>, rows |-> TreeRows(Now(s))]
  OBVIOUS
<1>6. x.original = <<b, e>> /\ patch.origin = None
  BY <1>2, <1>4, <1>5
<1>7. PICK told_b : told_b = Append(told[b], x)
  OBVIOUS
<1>8. state' = [state EXCEPT ![b] = s] /\ told' = [told EXCEPT ![b] = told_b] /\ dag' = dag
  BY <1>3, <1>5, <1>7 DEF InstanceTemplate, Tell
<1> QED
  BY <1>2, <1>4, <1>6, <1>7, <1>8, OneEditionMore

(* A binding and a first ask leave the editions alone. *)
LEMMA BesideDescends ==
  ASSUME AInv, NEW b \in DOMAIN dag, NEW s, s.current = state[b].current, s.watermark = state[b].watermark,
         s.patches = state[b].patches, dag' = dag, state' = [state EXCEPT ![b] = s], told' = told
  PROVE  Ancestry(dag', state', told')
<1>1. state[b].watermark \in Nat /\ DOMAIN state[b].patches \subseteq Int
  BY DEF AInv, BInv, Good, InnerOK, PatchesOK
<1>2. state[b].watermark <= s.watermark /\ s.watermark \in Nat
  BY <1>1
<1>3. \A e \in DOMAIN state[b].patches : e > s.watermark => e \in DOMAIN s.patches
  OBVIOUS
<1> QED
  BY <1>2, <1>3, NoEditionMore

(* A binding does. *)
LEMMA RegisterDescends ==
  ASSUME AInv, NEW b \in DOMAIN dag, NEW binding, Register(b, binding)
  PROVE  Ancestry(dag', state', told')
<1>1. InnerOK(state[b]) /\ DOMAIN state = DOMAIN dag
  BY DEF AInv, BInv, Good
<1>2. PICK ctx : ctx = Put(state[b].ctx, binding[1], binding[2])
  OBVIOUS
<1>3. PICK s : s = [state[b] EXCEPT !.ctx = ctx]
  OBVIOUS
<1>4. s.current = state[b].current /\ s.watermark = state[b].watermark /\ s.patches = state[b].patches
  BY <1>1, <1>3 DEF InnerOK
<1>5. state' = [state EXCEPT ![b] = s] /\ told' = told /\ dag' = dag
  <2>1. state' = [state EXCEPT ![b].ctx = Put(@, binding[1], binding[2])] /\ told' = told /\ dag' = dag
    BY DEF Register
  <2> QED BY <1>1, <1>2, <1>3, <2>1
<1> QED
  BY <1>4, <1>5, BesideDescends

(* And so does a first ask. *)
LEMMA AskDescends ==
  ASSUME AInv, NEW b \in DOMAIN dag, NEW span \in Spans, Ask(b, span)
  PROVE  Ancestry(dag', state', told')
<1>1. InnerOK(state[b]) /\ DOMAIN state = DOMAIN dag
  BY DEF AInv, BInv, Good
<1>2. PICK s : s = [state[b] EXCEPT !.registered = Put(@, span, state[b].current)]
  OBVIOUS
<1>3. s.current = state[b].current /\ s.watermark = state[b].watermark /\ s.patches = state[b].patches
  BY <1>1, <1>2 DEF InnerOK
<1>4. state' = [state EXCEPT ![b] = s] /\ told' = told /\ dag' = dag
  <2>1. state' = [state EXCEPT ![b].registered = Put(@, span, state[b].current)] /\ told' = told /\ dag' = dag
    BY DEF Ask
  <2> QED BY <1>1, <1>2, <2>1
<1> QED
  BY <1>3, <1>4, BesideDescends

(* A consolidation only forgets what is below the new watermark. *)
LEMMA ConsolidateDescends ==
  ASSUME AInv, NEW b \in DOMAIN dag, NEW e \in 1 .. state[b].current, Consolidate(b, e)
  PROVE  Ancestry(dag', state', told')
<1>1. /\ DOMAIN state = DOMAIN dag /\ state[b].current \in Nat /\ state[b].watermark \in Nat /\ Shaped(state[b])
      /\ DOMAIN state[b].patches \subseteq Int
  BY DEF AInv, BInv, Good, InnerOK, PatchesOK, Shaped
<1>2. state[b].watermark < e
  BY DEF Consolidate
<1>3. PICK s : s = [state[b] EXCEPT !.versions = Checkpointed(state[b], e), !.log = Above(@, e),
                                    !.patches = Above(@, e), !.watermark = e]
  OBVIOUS
<1>4. s.current = state[b].current /\ s.watermark = e /\ s.patches = Above(state[b].patches, e)
  BY <1>1, <1>3 DEF Shaped
<1>5. /\ \A i \in DOMAIN s.patches : i \in DOMAIN state[b].patches /\ s.patches[i] = state[b].patches[i]
      /\ \A i \in DOMAIN state[b].patches : i > e => i \in DOMAIN s.patches
  BY <1>4 DEF Above
<1>6. state' = [state EXCEPT ![b] = s] /\ told' = told /\ dag' = dag
  <2>1. /\ state' = [state EXCEPT ![b].versions = Checkpointed(state[b], e), ![b].log = Above(@, e),
                                  ![b].patches = Above(@, e), ![b].watermark = e]
        /\ told' = told /\ dag' = dag
    BY DEF Consolidate
  <2> QED BY <1>1, <1>3, <2>1 DEF Shaped
<1>7. state[b].watermark <= s.watermark /\ s.watermark \in Nat
  BY <1>1, <1>2, <1>4
<1> QED
  BY <1>4, <1>5, <1>6, <1>7, NoEditionMore

(* A fork has its parent's past and nothing of its own. *)
LEMMA ForkAtDescends ==
  ASSUME ~ ForkInherited, AInv, NEW b \in DOMAIN dag, NEW at \in 0 .. state[b].current, ForkAt(b, at)
  PROVE  Ancestry(dag', state', told')
<1>1. /\ Numbered(dag) /\ Shaped(state[b]) /\ state[b].current \in Nat /\ IsSeq(told[b]) /\ Len(told[b]) = state[b].current
      /\ DOMAIN state = DOMAIN dag /\ DOMAIN told = DOMAIN dag
      /\ Rooted(dag, state, b) /\ FromAPoint(state, told, b)
  BY DEF AInv, BInv, Good, InnerOK, Faithful, Ancestry, Shaped
<1>2. StartOf(dag, b) <= at
  BY DEF ForkAt
<1>3. PICK s, told_n : s = ForkOf(state[b], at) /\ told_n = SubSeq(told[b], 1, at)
  OBVIOUS
<1>4. s.current = at
  <2>1. PICK r : r = Fresh(state[b])
    OBVIOUS
  <2>2. Shaped(r)
    BY <1>1, <2>1 DEF Fresh, Shaped
  <2> QED BY <1>3, <2>1, <2>2 DEF ForkOf, Shaped
<1>5. PICK n, record : n = NextId(dag) /\ record = [parent |-> <<b, at>>, merged |-> None]
  OBVIOUS
<1>6. dag' = Put(dag, n, record) /\ state' = Put(state, n, s) /\ told' = Put(told, n, told_n)
  BY <1>3, <1>5 DEF ForkAt, Forked
<1>7. PICK d, st, tl : d = dag' /\ st = state' /\ tl = told'
  OBVIOUS
<1>8. n \in Nat /\ b \in 0 .. n - 1 /\ n \notin DOMAIN dag /\ DOMAIN dag = 0 .. n - 1
  BY <1>1, <1>5 DEF Numbered
<1>9. d[n] = record /\ st[n] = s /\ tl[n] = told_n
      /\ \A c \in DOMAIN dag : d[c] = dag[c] /\ st[c] = state[c] /\ tl[c] = told[c]
  BY <1>1, <1>6, <1>7, <1>8 DEF Put
<1>10. record.parent # None /\ record.parent[1] = b /\ record.parent[2] = at /\ record.merged = None
  BY <1>5 DEF None
<1>11. StartOf(d, n) = at /\ StartOf(d, b) = StartOf(dag, b) /\ StartOf(dag, b) \in 0 .. state[b].current
  BY <1>1, <1>9, <1>10 DEF StartOf, Rooted
<1>12. at \in Nat /\ at \in StartOf(d, b) .. st[b].current /\ at \in 0 .. at /\ at <= state[b].current
  BY <1>1, <1>2, <1>9, <1>11
<1>13. \A e \in 1 .. at : told_n[e] = told[b][e]
  BY <1>1, <1>3, OnlySoMany
<1>14. Rooted(d, st, n)
  BY <1>4, <1>8, <1>9, <1>10, <1>11, <1>12 DEF Rooted
<1>15. Shares(d, tl, n)
  BY <1>9, <1>10, <1>13 DEF Shares
<1>16. OnRecord(d, st, tl, n)
  <2>1. ASSUME NEW e \in at + 1 .. at PROVE FALSE
    BY <1>12
  <2> QED BY <1>4, <1>9, <1>11, <2>1 DEF OnRecord
<1>17. Absorbs(d, tl, n)
  BY <1>9, <1>10 DEF Absorbs
<1>18. FromAPoint(st, tl, n)
  <2>1. ASSUME NEW e \in 1 .. at PROVE AtPoint(st, tl, n, told_n[e].original)
    <3>1. PICK o : o = told[b][e].original /\ o = told_n[e].original
      BY <1>13
    <3>7. e \in 1 .. state[b].current
      BY <1>1, <1>12
    <3>2. AtPoint(state, told, b, o)
      BY <1>1, <3>1, <3>7 DEF FromAPoint
    <3>3. o \in (0 .. b) \X Nat /\ o[1] \in 0 .. b /\ o[2] \in Nat
      BY <3>2 DEF AtPoint
    <3>4. o[1] \in DOMAIN dag /\ o[1] \in 0 .. n
      BY <1>8, <3>3
    <3>5. o \in (0 .. n) \X Nat
      BY <3>3, <3>4
    <3>6. o[2] \in 1 .. st[o[1]].current /\ tl[o[1]][o[2]].original = o
      BY <1>9, <3>2, <3>4 DEF AtPoint
    <3> QED BY <3>1, <3>5, <3>6 DEF AtPoint
  <2> QED BY <1>4, <1>9, <2>1 DEF FromAPoint
<1>19. s.current \in Nat
  BY <1>4, <1>12
<1> QED
  BY <1>5, <1>6, <1>7, <1>14, <1>15, <1>16, <1>17, <1>18, <1>19, OneMoreDescends

(* A merge has both pasts: what it had, and what it replays. *)
LEMMA MergeDescends ==
  ASSUME AInv, NEW b \in DOMAIN dag, NEW other \in DOMAIN dag, Merge(b, other)
  PROVE  Ancestry(dag', state', told')
<1>1. /\ Numbered(dag) /\ Family(dag, state) /\ BInv /\ DOMAIN state = DOMAIN dag /\ DOMAIN told = DOMAIN dag
      /\ \A c \in DOMAIN dag : state[c].current \in Nat /\ Rooted(dag, state, c) /\ FromAPoint(state, told, c)
      /\ state[b].watermark \in 0 .. state[b].current /\ DOMAIN state[b].patches \subseteq Int
  BY FamilyIs DEF AInv, BInv, Good, InnerOK, PatchesOK, Ancestry
<1>2. PICK n : n = NextId(dag)
  OBVIOUS
<1>3. n \in Nat /\ n \notin DOMAIN dag /\ DOMAIN dag = 0 .. n - 1 /\ b \in 0 .. n - 1 /\ other \in 0 .. n - 1
  BY <1>1, <1>2 DEF Numbered
<1>4. PICK c, oc : c = state[b].current /\ oc = state[other].current
  OBVIOUS
<1>5. PICK have, theirs : have = Lineage(dag, b, c) /\ theirs = Lineage(dag, other, oc)
  OBVIOUS
<1>6. PICK run, start, points :
        /\ points = InOrder(ToReplay(have, theirs))
        /\ start[1].current = c /\ start[1].watermark = state[b].watermark
        /\ start[1].patches = state[b].patches /\ start[2] = told[b]
        /\ Grown(run, start, points, Len(points))
        /\ dag' = Joined(dag, b, c, other, oc, run[1].current)
        /\ state' = Put(state, n, run[1])
        /\ told' = Put(told, n, run[2])
  BY <1>1, <1>2, <1>4, <1>5, MergeIs
<1>7. PICK P : P = ToReplay(have, theirs)
  OBVIOUS
<1>8. P \in SUBSET (Nat \X Nat) /\ IsFiniteSet(P)
  BY <1>1, <1>7, ToReplayIs
<1>9. PICK m \in Nat : m = Cardinality(P) /\ Len(points) = m
                       /\ (\A i \in 1 .. m : points[i] \in P) /\ \A p \in P : \E i \in 1 .. m : points[i] = p
  BY <1>6, <1>7, <1>8, InOrderIs
<1>10. ~ Gone(have, theirs)
  BY <1>4, <1>5 DEF Merge
<1>11. /\ run[1].current = c + m /\ run[1].watermark = state[b].watermark
       /\ DOMAIN run[1].patches = DOMAIN state[b].patches \cup c + 1 .. c + m
       /\ \A e \in 1 .. c : run[2][e] = told[b][e]
       /\ \A k \in 1 .. m : /\ run[1].patches[c + k].origin = Original(points[k], PatchOf(points[k]))
                            /\ run[2][c + k].original = Original(points[k], PatchOf(points[k]))
  BY <1>6, <1>9 DEF Grown
<1>12. PICK k \in Nat : k = run[1].current /\ k = c + m /\ c \in Nat /\ oc \in Nat /\ c <= k
  BY <1>1, <1>4, <1>9, <1>11
<1>13. PICK record : record = [parent |-> <<b, c>>, merged |-> <<other, oc, k>>]
  OBVIOUS
<1>14. dag' = Put(dag, n, record)
  BY <1>2, <1>6, <1>12, <1>13 DEF Joined
<1>15. PICK d, st, tl : d = dag' /\ st = state' /\ tl = told'
  OBVIOUS
<1>16. d[n] = record /\ st[n] = run[1] /\ tl[n] = run[2]
       /\ \A x \in DOMAIN dag : d[x] = dag[x] /\ st[x] = state[x] /\ tl[x] = told[x]
  BY <1>1, <1>3, <1>6, <1>14, <1>15 DEF Put
<1>17. record.parent # None /\ record.parent[1] = b /\ record.parent[2] = c
       /\ record.merged # None /\ record.merged[1] = other /\ record.merged[2] = oc /\ record.merged[3] = k
  BY <1>13 DEF None
<1>18. StartOf(d, n) = c /\ \A x \in DOMAIN dag : StartOf(d, x) = StartOf(dag, x) /\ StartOf(dag, x) \in 0 .. state[x].current
  BY <1>1, <1>16, <1>17 DEF StartOf, Rooted
<1>19. Rooted(d, st, n)
  <2>1. c \in StartOf(d, b) .. st[b].current /\ oc \in StartOf(d, other) .. st[other].current
    BY <1>4, <1>12, <1>16, <1>18
  <2>2. c \in 0 .. k /\ k \in c .. k
    BY <1>12
  <2> QED BY <1>3, <1>12, <1>16, <1>17, <1>18, <2>1, <2>2 DEF Rooted
<1>20. Shares(d, tl, n)
  BY <1>11, <1>16, <1>17 DEF Shares
<1>21. ASSUME NEW x \in DOMAIN dag, NEW o, AtPoint(state, told, x, o)
       PROVE  AtPoint(st, tl, n, o) /\ o[1] \in 0 .. n - 1 /\ o # None
  <2>1. o \in (0 .. x) \X Nat /\ o[1] \in 0 .. x /\ o[2] \in Nat
    BY <1>21 DEF AtPoint
  <2>2. o[1] \in DOMAIN dag /\ o[1] \in 0 .. n /\ o[1] \in 0 .. n - 1
    BY <1>3, <2>1
  <2>3. o \in (0 .. n) \X Nat /\ o # None
    <3>1. PICK p, q : p = o[1] /\ q = o[2] /\ o = <<p, q>>
      BY <2>1
    <3>2. <<p, q>> # << >>
      OBVIOUS
    <3>3. o \in (0 .. n) \X Nat
      BY <2>1, <2>2
    <3> QED BY <3>1, <3>2, <3>3 DEF None
  <2>4. o[2] \in 1 .. st[o[1]].current /\ tl[o[1]][o[2]].original = o
    BY <1>16, <1>21, <2>2 DEF AtPoint
  <2> QED BY <2>2, <2>3, <2>4 DEF AtPoint
<1>22. ASSUME NEW i \in 1 .. m
       PROVE  /\ AtPoint(st, tl, n, run[2][c + i].original) /\ run[2][c + i].original[1] < n
              /\ run[1].patches[c + i].origin # None /\ run[1].patches[c + i].origin = run[2][c + i].original
  <2>1. PICK p \in P : p = points[i]
    BY <1>9
  <2>2. PICK o : o = Original(p, PatchOf(p))
    OBVIOUS
  <2>3. p[1] \in DOMAIN dag /\ AtPoint(state, told, p[1], o)
    BY <1>4, <1>5, <1>7, <2>2, ReplayedPoint
  <2>4. AtPoint(st, tl, n, o) /\ o[1] \in 0 .. n - 1 /\ o # None
    BY <1>21, <2>3
  <2>5. o[1] < n
    BY <1>3, <2>4
  <2>6. run[2][c + i].original = o /\ run[1].patches[c + i].origin = o
    BY <1>11, <2>1, <2>2
  <2> QED BY <2>4, <2>5, <2>6
<1>23. \A e \in c + 1 .. k : \E i \in 1 .. m : e = c + i
  <2>1. ASSUME NEW e \in c + 1 .. k PROVE e - c \in 1 .. m /\ e = c + (e - c)
    BY <1>12
  <2> QED BY <2>1
<1>24. OnRecord(d, st, tl, n)
  <2>1. ASSUME NEW e \in c + 1 .. k PROVE RecordedAt(st, tl, n, e)
    <3>1. PICK i \in 1 .. m : e = c + i
      BY <1>23
    <3>2. e \in DOMAIN run[1].patches
      BY <1>11, <1>12
    <3>3. run[1].patches[e].origin # None /\ run[1].patches[e].origin = run[2][e].original /\ run[2][e].original[1] < n
      BY <1>22, <3>1
    <3>4. Original(<<n, e>>, run[1].patches[e]) = run[2][e].original
      BY <3>3 DEF Original
    <3> QED BY <1>16, <3>2, <3>3, <3>4 DEF RecordedAt
  <2> QED BY <1>12, <1>16, <1>18, <2>1 DEF OnRecord
<1>25. FromAPoint(st, tl, n)
  <2>1. ASSUME NEW e \in 1 .. k PROVE AtPoint(st, tl, n, run[2][e].original)
    <3>1. CASE e <= c
      <4>1. e \in 1 .. c
        BY <1>12, <3>1
      <4>2. AtPoint(state, told, b, told[b][e].original) /\ run[2][e] = told[b][e]
        BY <1>1, <1>4, <1>11, <4>1 DEF FromAPoint
      <4> QED BY <1>21, <4>2
    <3>2. CASE ~ e <= c
      <4>1. e \in c + 1 .. k
        BY <1>12, <3>2
      <4> QED BY <1>22, <1>23, <4>1
    <3> QED BY <3>1, <3>2
  <2> QED BY <1>12, <1>16, <2>1 DEF FromAPoint
<1>26. Absorbs(d, tl, n)
  <2>1. theirs[other] = oc
    <3>1. oc \in StartOf(dag, other) .. state[other].current
      BY <1>4, <1>12, <1>18
    <3> QED BY <1>1, <1>5, <3>1, LineageFlows
  <2>2. ASSUME NEW e \in 1 .. oc PROVE \E j \in 1 .. k : run[2][j].original = told[other][e].original
    <3>1. PICK o : o = told[other][e].original
      OBVIOUS
    <3>2. Known(b, o) \/ \E p \in P : Original(p, PatchOf(p)) = o
      BY <1>4, <1>5, <1>7, <1>10, <2>1, <3>1, MergeAbsorbs
    <3>3. CASE Known(b, o)
      <4>1. PICK j \in 1 .. c : told[b][j].original = o
        BY <1>4, <3>3 DEF Known
      <4>2. j \in 1 .. k
        BY <1>12
      <4> QED BY <1>11, <3>1, <4>1, <4>2
    <3>4. CASE \E p \in P : Original(p, PatchOf(p)) = o
      <4>1. PICK i \in 1 .. m : Original(points[i], PatchOf(points[i])) = o
        BY <1>9, <3>4
      <4>2. c + i \in 1 .. k
        BY <1>12
      <4> QED BY <1>11, <3>1, <4>1, <4>2
    <3> QED BY <3>2, <3>3, <3>4
  <2>3. tl[other] = told[other]
    BY <1>16
  <2> QED BY <1>16, <1>17, <2>2, <2>3 DEF Absorbs
<1>27. run[1].current \in Nat
  BY <1>12
<1> QED
  BY <1>2, <1>6, <1>14, <1>15, <1>19, <1>20, <1>24, <1>25, <1>26, <1>27, OneMoreDescends

(* Every call keeps who descends from whom. *)
LEMMA NextAInv == ~ ForkInherited /\ AInv /\ [Next]_vars => AInv'
<1> SUFFICES ASSUME ~ ForkInherited, AInv, [Next]_vars PROVE AInv'
  OBVIOUS
<1>1. BInv'
  BY NextBInv DEF AInv
<1>2. Ancestry(dag', state', told')
  <2>1. ASSUME UNCHANGED <<dag, state, told>> PROVE Ancestry(dag', state', told')
    BY <2>1, Zenon DEF AInv
  <2>2. ASSUME NEW b \in DOMAIN dag, NEW p \in Patches, Commit(b, p) PROVE Ancestry(dag', state', told')
    BY <2>2, CommitDescends
  <2>3. ASSUME NEW b \in DOMAIN dag, NEW block \in Blocks, InstanceTemplate(b, block) PROVE Ancestry(dag', state', told')
    BY <2>3, InstanceTemplateDescends
  <2>4. ASSUME NEW b \in DOMAIN dag, NEW binding \in Bindings, Register(b, binding) PROVE Ancestry(dag', state', told')
    BY <2>4, RegisterDescends
  <2>5. ASSUME NEW b \in DOMAIN dag, NEW at \in 0 .. state[b].current, ForkAt(b, at) PROVE Ancestry(dag', state', told')
    BY <2>5, ForkAtDescends
  <2>6. ASSUME NEW b \in DOMAIN dag, NEW other \in DOMAIN dag, Merge(b, other) PROVE Ancestry(dag', state', told')
    BY <2>6, MergeDescends
  <2>7. ASSUME NEW b \in DOMAIN dag, NEW e \in 1 .. state[b].current, Consolidate(b, e) PROVE Ancestry(dag', state', told')
    BY <2>7, ConsolidateDescends
  <2>8. ASSUME NEW b \in DOMAIN dag, NEW span \in Spans, Ask(b, span) PROVE Ancestry(dag', state', told')
    BY <2>8, AskDescends
  <2>9. ASSUME NEW most, StepHistory(most) PROVE Ancestry(dag', state', told')
    BY <2>1, <2>9 DEF StepHistory
  <2>10. ASSUME UNCHANGED vars PROVE Ancestry(dag', state', told')
    BY <2>1, <2>10 DEF vars
  <2> QED BY <2>2, <2>3, <2>4, <2>5, <2>6, <2>7, <2>8, <2>9, <2>10 DEF Next
<1> QED
  BY <1>1, <1>2 DEF AInv

(* Where no fork is taken below its parent's own fork point, what a        *)
(* lineage comes past is in the point it is the lineage of: is_ancestor    *)
(* promises nothing a branch does not hold, and merge's "everything behind *)
(* either store is behind it" is so, whatever copies were forked away      *)
(* midway, consolidated, and merged again.                                 *)
THEOREM AncestorsAlwaysBehind ==
  ASSUME ~ ForkInherited
  PROVE  Spec => []AncestorsBehind
<1>1. AInv => AncestorsBehind
  <2> SUFFICES ASSUME AInv PROVE AncestorsBehind
    OBVIOUS
  <2>1. Family(dag, state) /\ \A c \in DOMAIN dag : Shares(dag, told, c) /\ Absorbs(dag, told, c)
    BY FamilyIs DEF AInv, Ancestry
  <2>2. ASSUME NEW p \in Points, p[2] >= StartOf(dag, p[1])
        PROVE  \A line : line = Lineage(dag, p[1], p[2]) => \A q \in Points : Reaches(line, q) =>
                 \E e \in 1 .. p[2] : told[p[1]][e].original = told[q[1]][q[2]].original
    <3>1. PICK b \in DOMAIN dag : \E at \in 1 .. state[b].current : p = <<b, at>>
      BY DEF Points
    <3>2. PICK at \in 1 .. state[b].current : p = <<b, at>>
      BY <3>1
    <3>3. p[1] = b /\ p[2] = at
      BY <3>2
    <3>4. state[b].current \in Nat /\ StartOf(dag, b) \in Nat
      BY <2>1 DEF Family, Rooted
    <3>5. at \in StartOf(dag, b) .. state[b].current
      BY <2>2, <3>2, <3>3, <3>4
    <3>6. ASSUME NEW line, line = Lineage(dag, b, at), NEW q \in Points, Reaches(line, q)
          PROVE  \E e \in 1 .. at : told[b][e].original = told[q[1]][q[2]].original
      <4>1. PICK br \in DOMAIN dag : \E e \in 1 .. state[br].current : q = <<br, e>>
        BY DEF Points
      <4>2. PICK e \in 1 .. state[br].current : q = <<br, e>>
        BY <4>1
      <4>3. q[1] = br /\ q[2] = e /\ e \in Int /\ e >= 1
        BY <4>2
      <4>4. line[br] \in Int
        BY <2>1, <3>5, <3>6, LineageFlows
      <4>5. e \in 1 .. line[br]
        BY <3>6, <4>3, <4>4 DEF Reaches
      <4>6. \A x \in DOMAIN dag : \A i \in 1 .. line[x] : \E k \in 1 .. at : told[b][k].original = told[x][i].original
        BY <2>1, <3>5, <3>6, BehindIsWithin
      <4> QED BY <4>3, <4>5, <4>6
    <3> QED BY <3>3, <3>6
  <2> QED BY <2>2 DEF AncestorsBehind
<1>2. Init => AInv
  BY InitAInv
<1>3. AInv /\ [Next]_vars => AInv'
  BY NextAInv
<1> QED
  BY <1>1, <1>2, <1>3, PTL DEF Spec
=============================================================================
