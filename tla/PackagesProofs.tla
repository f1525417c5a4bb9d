--------------------------- MODULE PackagesProofs ---------------------------
(***************************************************************************)
(* Proof that names and schemas outlive refused loads, crashes and other   *)
(* packages.  What is inductive is said of each part of the state: the ids *)
(* are apart; a schema's versions are a chain; each row conforms to the    *)
(* version in effect when it came; the load under way has bound what its   *)
(* stage says and put the schemas that are no longer due; and each open    *)
(* runtime's relations have the catalog's ids, with schemas that begin as  *)
(* its program's do.  Every part is an operator of the values it is about, *)
(* so that the lemmas hold of the next state as of this one.               *)
(***************************************************************************)
EXTENDS Packages, FiniteSetTheorems, WellFoundedInduction, TLAPS

NatLess == {ss \in Nat \X Nat : ss[1] < ss[2]}

(* Numbers are well ordered: a set of them has a least one. *)
LEMMA LeastExists ==
  ASSUME NEW T \in SUBSET Nat, T # {}
  PROVE  \E x \in T : \A y \in T : x <= y
<1>1. IsWellFoundedOn(NatLess, Nat)
  BY NatLessThanWellFounded DEF OpToRel, NatLess
<1>2. \E t \in T : \A u \in T : ~ (<<u, t>> \in NatLess)
  <2> HIDE DEF NatLess
  <2> QED BY <1>1, WFMin, Zenon
<1>3. PICK t \in T : \A u \in T : ~ (<<u, t>> \in NatLess)
  BY <1>2, Zenon
<1>4. ASSUME NEW u \in T PROVE t <= u
  <2>1. t \in Nat /\ u \in Nat /\ <<u, t>> \in Nat \X Nat
    OBVIOUS
  <2>2. ~ (u < t)
    BY <1>3, <2>1 DEF NatLess
  <2> QED BY <2>1, <2>2
<1> QED
  BY <1>4

(* A finite set of numbers has a greatest one. *)
LEMMA GreatestExists ==
  ASSUME NEW T \in SUBSET Nat, T # {}, IsFiniteSet(T)
  PROVE  Max(T) \in T /\ \A y \in T : y <= Max(T)
<1> DEFINE above(x) == {y \in T : y > x}
           size(x) == Cardinality(above(x))
           S == {size(x) : x \in T}
<1>1. ASSUME NEW x \in T PROVE size(x) \in Nat /\ IsFiniteSet(above(x))
  <2>1. above(x) \in SUBSET T
    OBVIOUS
  <2> HIDE DEF above
  <2>2. IsFiniteSet(above(x))
    BY <2>1, FS_Subset
  <2> QED BY <2>2, FS_CardinalityType
<1>2. PICK n \in S : \A k \in S : n <= k
  <2>1. S \in SUBSET Nat /\ S # {}
    BY <1>1
  <2> HIDE DEF S
  <2> QED BY <2>1, LeastExists
<1>3. PICK x \in T : n = size(x)
  OBVIOUS
<1>4. ASSUME NEW y \in T, y > x PROVE FALSE
  <2>1. above(y) \in SUBSET above(x)
    <3>1. x \in Nat /\ y \in Nat
      OBVIOUS
    <3>2. ASSUME NEW z \in above(y) PROVE z \in above(x)
      <4>1. z \in T /\ z \in Nat /\ z > y
        OBVIOUS
      <4>2. z > x
        BY <1>4, <3>1, <4>1
      <4> QED BY <4>1, <4>2
    <3> HIDE DEF above
    <3> QED BY <3>2
  <2>2. y \in above(x) /\ y \notin above(y)
    BY <1>4
  <2>3. size(y) <= size(x) /\ size(y) # size(x)
    <3> HIDE DEF above
    <3>1. size(y) <= size(x) /\ (size(x) = size(y) => above(x) = above(y))
      BY <1>1, <2>1, FS_Subset
    <3> QED BY <2>2, <3>1
  <2>4. size(x) <= size(y)
    BY <1>2, <1>3
  <2>5. size(x) \in Nat /\ size(y) \in Nat
    BY <1>1
  <2> HIDE DEF size
  <2> QED BY <2>3, <2>4, <2>5
<1>5. \A y \in T : x >= y
  BY <1>4
<1> QED
  BY <1>5 DEF Max

IsSeq(s) == \E S : s \in Seq(S)

(* What is left of a list is what its head was taken from. *)
LEMMA TailIs ==
  ASSUME NEW s, IsSeq(s), s # << >>
  PROVE  IsSeq(Tail(s)) /\ Head(s) \in Range(s) /\ Range(s) = {Head(s)} \cup Range(Tail(s))
<1>1. PICK S : s \in Seq(S)
  BY DEF IsSeq
<1>2. /\ Len(s) \in Nat \ {0} /\ DOMAIN s = 1 .. Len(s) /\ Head(s) = s[1]
      /\ Tail(s) \in Seq(S) /\ DOMAIN Tail(s) = 1 .. Len(s) - 1
      /\ \A i \in 1 .. Len(s) - 1 : Tail(s)[i] = s[i + 1]
  BY <1>1
<1>3. ASSUME NEW x \in Range(s) PROVE x = Head(s) \/ x \in Range(Tail(s))
  <2>1. PICK i \in 1 .. Len(s) : x = s[i]
    BY <1>2 DEF Range
  <2>2. CASE i # 1
    <3>1. i - 1 \in 1 .. Len(s) - 1 /\ Tail(s)[i - 1] = s[i]
      BY <1>2, <2>2
    <3> QED BY <1>2, <2>1, <3>1 DEF Range
  <2> QED BY <1>2, <2>1, <2>2
<1>4. ASSUME NEW x \in Range(Tail(s)) PROVE x \in Range(s)
  <2>1. PICK i \in 1 .. Len(s) - 1 : x = Tail(s)[i]
    BY <1>2 DEF Range
  <2>2. i + 1 \in DOMAIN s /\ x = s[i + 1]
    BY <1>2, <2>1
  <2> QED BY <2>2 DEF Range
<1> QED
  BY <1>2, <1>3, <1>4 DEF IsSeq, Range

(* What is in two lists one after the other. *)
LEMMA RangeOfBoth ==
  ASSUME NEW s, NEW t, IsSeq(s), IsSeq(t)
  PROVE  IsSeq(s \o t) /\ Range(s \o t) = Range(s) \cup Range(t)
<1>1. PICK S : s \in Seq(S)
  BY DEF IsSeq
<1>2. PICK T : t \in Seq(T)
  BY DEF IsSeq
<1>3. s \in Seq(S \cup T) /\ t \in Seq(S \cup T)
  BY <1>1, <1>2
<1> DEFINE v == s \o t
<1>4. /\ v \in Seq(S \cup T) /\ Len(v) = Len(s) + Len(t)
      /\ \A i \in 1 .. Len(s) : v[i] = s[i]
      /\ \A i \in Len(s) + 1 .. Len(v) : v[i] = t[i - Len(s)]
  BY <1>3
<1>5. /\ Len(s) \in Nat /\ Len(t) \in Nat /\ DOMAIN s = 1 .. Len(s) /\ DOMAIN t = 1 .. Len(t)
      /\ DOMAIN v = 1 .. Len(v)
  <2> HIDE DEF v
  <2> QED BY <1>3, <1>4
<1> HIDE DEF v
<1>6. ASSUME NEW i \in DOMAIN v PROVE v[i] \in Range(s) \cup Range(t)
  <2>1. CASE i <= Len(s)
    <3>1. i \in DOMAIN s /\ v[i] = s[i]
      BY <1>4, <1>5, <2>1
    <3> QED BY <3>1 DEF Range
  <2>2. CASE i > Len(s)
    <3>1. i - Len(s) \in DOMAIN t /\ v[i] = t[i - Len(s)]
      BY <1>4, <1>5, <2>2
    <3> QED BY <3>1 DEF Range
  <2> QED BY <1>5, <2>1, <2>2
<1>7. ASSUME NEW i \in DOMAIN s PROVE s[i] \in Range(v)
  <2>1. i \in DOMAIN v /\ v[i] = s[i]
    BY <1>4, <1>5
  <2> QED BY <2>1 DEF Range
<1>8. ASSUME NEW i \in DOMAIN t PROVE t[i] \in Range(v)
  <2>1. Len(s) + i \in Len(s) + 1 .. Len(v) /\ (Len(s) + i) - Len(s) = i
    BY <1>4, <1>5
  <2>2. Len(s) + i \in DOMAIN v /\ v[Len(s) + i] = t[i]
    BY <1>4, <1>5, <2>1
  <2> QED BY <2>2 DEF Range
<1>9. Range(v) = Range(s) \cup Range(t)
  BY <1>6, <1>7, <1>8 DEF Range
<1> QED
  BY <1>4, <1>9 DEF IsSeq, v

(* A schema begins with itself, and with what its beginnings begin with. *)
LEMMA PrefixOfItself ==
  ASSUME NEW S, NEW s \in Seq(S)
  PROVE  IsPrefix(s, s)
  BY DEF IsPrefix

(* A schema's beginning is a beginning of what the schema begins. *)
LEMMA PrefixOfPrefix ==
  ASSUME NEW S, NEW s \in Seq(S), NEW t \in Seq(S), NEW u \in Seq(S),
         IsPrefix(s, t), IsPrefix(t, u)
  PROVE  IsPrefix(s, u)
  BY DEF IsPrefix

-----------------------------------------------------------------------------
(* The names a program is compiled with, and their columns.                *)

(* The views that are stored are among the views, in their order. *)
IsAmong(f, s, n) ==
  f = [i \in 0 .. n |->
         IF i = 0 THEN << >>
         ELSE f[i - 1] \o (IF s[i].materialized THEN <<s[i]>> ELSE << >>)]

(* Materialized takes the stored views one by one: such a list exists,     *)
(* and there is one only.                                                  *)
LEMMA AmongExists ==
  ASSUME NEW S, NEW s, NEW N \in Nat, s \in [1 .. N -> S]
  PROVE  \E f : IsAmong(f, s, N) /\ f[N] \in Seq(S)
<1> DEFINE T == {n \in 0 .. N : ~ \E f : IsAmong(f, s, n) /\ f[n] \in Seq(S)}
<1>1. CASE T = {}
  BY <1>1
<1>2. CASE T # {}
  <2>1. PICK t \in T : \A u \in T : t <= u
    <3>1. T \in SUBSET Nat
      OBVIOUS
    <3> HIDE DEF T
    <3> QED BY <1>2, <3>1, LeastExists
  <2>2. CASE t = 0
    <3> DEFINE f == [i \in 0 .. 0 |-> << >>]
    <3>1. f[0] = << >> /\ f = [i \in 0 .. 0 |-> f[0]]
      OBVIOUS
    <3>2. IsAmong(f, s, 0)
      BY DEF IsAmong
    <3>3. f[0] \in Seq(S)
      OBVIOUS
    <3> QED BY <2>2, <3>2, <3>3
  <2>3. CASE t # 0
    <3>1. t - 1 \in 0 .. N /\ t - 1 \notin T /\ t \in 1 .. N
      BY <2>1, <2>3
    <3>2. PICK g : IsAmong(g, s, t - 1) /\ g[t - 1] \in Seq(S)
      BY <3>1
    <3>3. PICK more : more = IF s[t].materialized THEN <<s[t]>> ELSE << >>
      OBVIOUS
    <3>4. more \in Seq(S)
      BY <3>1, <3>3
    <3> DEFINE f == [i \in 0 .. t |-> IF i = t THEN g[t - 1] \o more ELSE g[i]]
    <3>5. \A i \in 0 .. t - 1 :
            g[i] = IF i = 0 THEN << >>
                   ELSE g[i - 1] \o (IF s[i].materialized THEN <<s[i]>> ELSE << >>)
      BY <3>2 DEF IsAmong
    <3>6. ASSUME NEW i \in 0 .. t
          PROVE  f[i] = IF i = 0 THEN << >>
                        ELSE f[i - 1] \o (IF s[i].materialized THEN <<s[i]>> ELSE << >>)
      <4>1. CASE i = t
        <5>1. f[i] = g[t - 1] \o more /\ f[i - 1] = g[t - 1]
          BY <3>1, <4>1
        <5> HIDE DEF f
        <5> QED BY <2>3, <3>3, <4>1, <5>1
      <4>2. CASE i # t
        <5>1. i \in 0 .. t - 1 /\ f[i] = g[i]
          BY <4>2
        <5>2. i # 0 => f[i - 1] = g[i - 1]
          BY <4>2
        <5> HIDE DEF f
        <5> QED BY <3>5, <5>1, <5>2
      <4> QED BY <4>1, <4>2
    <3>7. f = [i \in 0 .. t |-> f[i]] /\ f[t] = g[t - 1] \o more
      BY <3>1
    <3>8. IsAmong(f, s, t)
      <4> HIDE DEF f
      <4> QED BY <3>6, <3>7 DEF IsAmong
    <3>9. f[t] \in Seq(S)
      <4>1. PICK u \in Seq(S) : u = g[t - 1]
        BY <3>2
      <4>2. u \o more \in Seq(S)
        BY <3>4
      <4>3. f[t] = u \o more
        BY <3>7, <4>1
      <4> HIDE DEF f
      <4> QED BY <4>2, <4>3
    <3> QED BY <2>1, <3>8, <3>9
  <2> QED BY <2>2, <2>3
<1> QED
  BY <1>1, <1>2

(* Two lists of the stored views up to the same view are the same. *)
LEMMA AmongOne ==
  ASSUME NEW s, NEW N \in Nat, NEW f, NEW g, IsAmong(f, s, N), IsAmong(g, s, N)
  PROVE  f = g
<1> DEFINE T == {n \in 0 .. N : f[n] # g[n]}
<1>1. /\ \A i \in 0 .. N :
           f[i] = IF i = 0 THEN << >>
                  ELSE f[i - 1] \o (IF s[i].materialized THEN <<s[i]>> ELSE << >>)
      /\ f = [i \in 0 .. N |-> f[i]]
  BY DEF IsAmong
<1>2. /\ \A i \in 0 .. N :
           g[i] = IF i = 0 THEN << >>
                  ELSE g[i - 1] \o (IF s[i].materialized THEN <<s[i]>> ELSE << >>)
      /\ g = [i \in 0 .. N |-> g[i]]
  BY DEF IsAmong
<1>3. ASSUME T # {} PROVE FALSE
  <2>1. PICK t \in T : \A u \in T : t <= u
    <3>1. T \in SUBSET Nat
      OBVIOUS
    <3> HIDE DEF T
    <3> QED BY <1>3, <3>1, LeastExists
  <2>2. t # 0
    BY <1>1, <1>2, <2>1
  <2>3. t - 1 \in 0 .. N /\ t - 1 \notin T
    BY <2>1, <2>2
  <2>4. f[t - 1] = g[t - 1]
    BY <2>3
  <2> QED BY <1>1, <1>2, <2>1, <2>2, <2>4
<1>4. \A i \in 0 .. N : f[i] = g[i]
  BY <1>3
<1> QED
  BY <1>1, <1>2, <1>4

(* Materialized: the stored views are a list of the program's own views. *)
LEMMA StoredViews ==
  ASSUME NEW p, Parsed(p)
  PROVE  /\ IsSeq(Materialized(p))
         /\ \A v \in Range(Materialized(p)) : v \in Range(p.views) /\ v.columns \in Seq(ColumnTypes)
<1> DEFINE N == Len(p.views)
           S == Range(p.views)
           g == CHOOSE f : IsAmong(f, p.views, N)
<1>1. N \in Nat /\ p.views = [i \in 1 .. N |-> p.views[i]] /\ DOMAIN p.views = 1 .. N
  BY DEF Parsed, Listed
<1>2. p.views \in [1 .. N -> S]
  <2>1. \A i \in 1 .. N : p.views[i] \in S
    BY <1>1 DEF Range
  <2> HIDE DEF N, S
  <2> QED BY <1>1, <2>1
<1>3. Materialized(p) = g[N]
  BY DEF Materialized, IsAmong
<1>4. PICK f : IsAmong(f, p.views, N) /\ f[N] \in Seq(S)
  <2> HIDE DEF N, S
  <2> QED BY <1>1, <1>2, AmongExists
<1>5. IsAmong(g, p.views, N)
  <2> HIDE DEF N
  <2> QED BY <1>4
<1>6. g = f
  <2> HIDE DEF N, g
  <2> QED BY <1>1, <1>4, <1>5, AmongOne
<1>7. Materialized(p) \in Seq(S)
  BY <1>3, <1>4, <1>6
<1>8. \A v \in S : v.columns \in Seq(ColumnTypes)
  BY DEF Parsed, Range
<1>9. \A v \in Range(Materialized(p)) : v \in S
  <2> HIDE DEF S
  <2> QED BY <1>7 DEF Range
<1> QED
  BY <1>7, <1>8, <1>9 DEF IsSeq

(* The names of a program are those of its relations, of its stored views  *)
(* with the cursors', and the marker's if it is a package's.               *)
Copies(p) == {v.copy : v \in Range(Materialized(p))}
MarkerNames(l) == IF IsPackage(l) THEN {Marker} ELSE {}

(* What the parser lists is a sequence. *)
LEMMA ListedIsSeq ==
  ASSUME NEW s, Listed(s)
  PROVE  IsSeq(s) /\ DOMAIN s = 1 .. Len(s) /\ Len(s) \in Nat
<1>1. Len(s) \in Nat /\ s = [i \in 1 .. Len(s) |-> s[i]]
  BY DEF Listed
<1>2. DOMAIN s = 1 .. Len(s)
  BY <1>1
<1>3. PICK N \in Nat : N = Len(s)
  BY <1>1
<1> DEFINE S == {s[i] : i \in 1 .. N}
<1>4. s \in [1 .. N -> S]
  <2>1. \A i \in 1 .. N : s[i] \in S
    OBVIOUS
  <2> HIDE DEF S
  <2> QED BY <1>1, <1>3, <2>1
<1>5. \A n \in Nat : [1 .. n -> S] \subseteq Seq(S)
  OBVIOUS
<1>6. s \in Seq(S)
  <2> HIDE DEF S
  <2> QED BY <1>4, <1>5
<1> QED
  BY <1>1, <1>2, <1>6 DEF IsSeq

(* A function of the numbers up to one is a sequence. *)
LEMMA MappedIsSeq ==
  ASSUME NEW n \in Nat, NEW s, s = [i \in 1 .. n |-> s[i]]
  PROVE  IsSeq(s)
<1> DEFINE S == {s[i] : i \in 1 .. n}
<1>1. s \in [1 .. n -> S]
  <2>1. \A i \in 1 .. n : s[i] \in S
    OBVIOUS
  <2> HIDE DEF S
  <2> QED BY <2>1
<1>2. \A m \in Nat : [1 .. m -> S] \subseteq Seq(S)
  OBVIOUS
<1>3. s \in Seq(S)
  <2> HIDE DEF S
  <2> QED BY <1>1, <1>2
<1> QED
  BY <1>3 DEF IsSeq

(* The relations of the stored views, as a list (bind_materialized_views). *)
LEMMA CopiesListed ==
  ASSUME NEW p, Parsed(p)
  PROVE  LET copies == [i \in DOMAIN Materialized(p) |-> Materialized(p)[i].copy]
         IN IsSeq(copies) /\ Range(copies) = Copies(p)
<1>1. PICK m : m = Materialized(p)
  OBVIOUS
<1>2. PICK S : m \in Seq(S)
  BY <1>1, StoredViews DEF IsSeq
<1>3. Len(m) \in Nat /\ DOMAIN m = 1 .. Len(m)
  BY <1>2
<1> DEFINE copies == [i \in DOMAIN m |-> m[i].copy]
<1>4. IsSeq(copies)
  <2>1. copies = [i \in 1 .. Len(m) |-> copies[i]]
    BY <1>3
  <2> HIDE DEF copies
  <2> QED BY <1>3, <2>1, MappedIsSeq
<1>5. Range(copies) = Copies(p)
  BY <1>1 DEF Range, Copies
<1> QED
  BY <1>1, <1>4, <1>5

(* The names bound for stored views are their copies' and, where there is  *)
(* one, the cursors'.                                                      *)
LEMMA CopyNamesAre ==
  ASSUME NEW p, Parsed(p)
  PROVE  /\ IsSeq(CopyNames(p))
         /\ Copies(p) \subseteq Range(CopyNames(p))
         /\ Range(Materialized(p)) # {} => Cursor \in Range(CopyNames(p))
<1>1. PICK m : m = Materialized(p)
  OBVIOUS
<1>2. PICK copies : copies = [i \in DOMAIN m |-> m[i].copy]
  OBVIOUS
<1>3. IsSeq(copies) /\ Range(copies) = Copies(p)
  BY <1>1, <1>2, CopiesListed
<1>4. IsSeq(<<Cursor>>) /\ Range(<<Cursor>>) = {Cursor}
  <2>1. <<Cursor>> \in Seq({Cursor}) /\ DOMAIN <<Cursor>> = {1} /\ <<Cursor>>[1] = Cursor
    OBVIOUS
  <2> QED BY <2>1 DEF IsSeq, Range
<1>5. IsSeq(<<Cursor>> \o copies) /\ Range(<<Cursor>> \o copies) = {Cursor} \cup Copies(p)
  BY <1>3, <1>4, RangeOfBoth
<1>6. IsSeq(<< >>)
  <2>1. << >> \in Seq({})
    OBVIOUS
  <2> QED BY <2>1 DEF IsSeq
<1>7. m = << >> => Range(m) = {} /\ Copies(p) = {}
  BY <1>1 DEF Range, Copies
<1>8. CopyNames(p) = IF m = << >> THEN << >> ELSE <<Cursor>> \o copies
  BY <1>1, <1>2 DEF CopyNames
<1> QED
  BY <1>1, <1>5, <1>6, <1>7, <1>8

(* The names of the declared relations, none of them reserved. *)
LEMMA NamesAre ==
  ASSUME NEW p, Parsed(p)
  PROVE  /\ IsSeq(Names(p.rels)) /\ Marker \notin Range(Names(p.rels)) /\ Cursor \notin Range(Names(p.rels))
         /\ \A name : Declares(p, name) <=> name \in Range(Names(p.rels))
<1>1. DOMAIN p.rels = 1 .. Len(p.rels) /\ Len(p.rels) \in Nat
  BY ListedIsSeq DEF Parsed
<1>2. PICK s : s = Names(p.rels)
  OBVIOUS
<1>3. s = [i \in 1 .. Len(p.rels) |-> p.rels[i][1]]
  BY <1>1, <1>2 DEF Names, Name
<1>4. s = [i \in 1 .. Len(p.rels) |-> s[i]]
  BY <1>3
<1>5. IsSeq(s)
  BY <1>1, <1>4, MappedIsSeq
<1>6. \A i \in DOMAIN s : i \in DOMAIN p.rels /\ s[i] = p.rels[i][1]
  BY <1>1, <1>3
<1>7. Marker \notin Range(s) /\ Cursor \notin Range(s)
  BY <1>6 DEF Parsed, Range
<1>8. ASSUME NEW name PROVE Declares(p, name) <=> name \in Range(s)
  BY <1>1, <1>3 DEF Declares, Found, Name, Range
<1> QED
  BY <1>2, <1>5, <1>7, <1>8

(* What a load binds is its relations, its copies and the marker           *)
(* (insert_reserved_relation).                                             *)
LEMMA AllNamesAre ==
  ASSUME NEW l, Parsed(Source(l))
  PROVE  Range(AllNames(l)) = Range(Names(Source(l).rels)) \cup Range(CopyNames(Source(l))) \cup MarkerNames(l)
<1>1. PICK a : a = Names(Source(l).rels)
  OBVIOUS
<1>2. PICK b : b = CopyNames(Source(l))
  OBVIOUS
<1>3. PICK m : m = IF IsPackage(l) THEN <<Marker>> ELSE << >>
  OBVIOUS
<1>4. IsSeq(a) /\ IsSeq(b)
  BY <1>1, <1>2, NamesAre, CopyNamesAre
<1>5. IsSeq(m) /\ Range(m) = MarkerNames(l)
  <2>1. <<Marker>> \in Seq({Marker}) /\ << >> \in Seq({})
    OBVIOUS
  <2>2. Range(<<Marker>>) = {Marker} /\ Range(<< >>) = {}
    BY DEF Range
  <2> QED BY <1>3, <2>1, <2>2 DEF IsSeq, MarkerNames
<1>6. IsSeq(a \o b) /\ Range(a \o b) = Range(a) \cup Range(b)
  BY <1>4, RangeOfBoth
<1>7. Range((a \o b) \o m) = Range(a \o b) \cup Range(m)
  BY <1>5, <1>6, RangeOfBoth
<1> QED
  BY <1>1, <1>2, <1>3, <1>5, <1>6, <1>7 DEF AllNames

(* Each name's columns are types, and a declared name's are as declared.   *)
LEMMA ColumnsAre ==
  ASSUME NEW p, Parsed(p), NEW name
  PROVE  /\ Columns(p, name) \in Seq(ColumnTypes)
         /\ Declares(p, name) => Columns(p, name) = ValueAt(p.rels, name)
<1>1. MarkerColumns \in Seq(ColumnTypes) /\ PositionColumns \in Seq(ColumnTypes)
  BY DEF MarkerColumns, PositionColumns, ColumnTypes
<1>2. ASSUME Declares(p, name) PROVE name # Marker /\ ValueAt(p.rels, name) \in Seq(ColumnTypes)
  <2>1. \E i \in DOMAIN p.rels : p.rels[i][1] = name
    BY <1>2 DEF Declares, Found, Name
  <2> QED BY <2>1 DEF Parsed, ValueAt, Name
<1>3. ASSUME CopiesNamed(p, name) # {}
      PROVE  (CHOOSE v \in CopiesNamed(p, name) : TRUE).columns \in Seq(ColumnTypes)
  <2>1. \A v \in CopiesNamed(p, name) : v.columns \in Seq(ColumnTypes)
    BY StoredViews DEF CopiesNamed
  <2> QED BY <1>3, <2>1
<1>4. CASE name = Marker
  BY <1>1, <1>2, <1>4 DEF Columns
<1>5. CASE name # Marker /\ Declares(p, name)
  BY <1>2, <1>5 DEF Columns
<1>6. CASE name # Marker /\ ~ Declares(p, name) /\ CopiesNamed(p, name) # {}
  BY <1>3, <1>6 DEF Columns
<1>7. CASE name # Marker /\ ~ Declares(p, name) /\ CopiesNamed(p, name) = {}
  <2>1. Columns(p, name) = PositionColumns
    BY <1>7 DEF Columns
  <2> QED BY <1>1, <1>7, <2>1
<1> QED
  BY <1>4, <1>5, <1>6, <1>7

-----------------------------------------------------------------------------
(* The inductive invariant, part by part.                                  *)

(* A schema's versions take effect one after the other, each with the      *)
(* columns of those before it.                                             *)
Version == [at : Nat, columns : Seq(ColumnTypes)]
Chain(s) ==
  /\ s \in Seq(Version) /\ s # << >>
  /\ \A i, j \in DOMAIN s : i < j => s[i].at < s[j].at /\ IsPrefix(s[i].columns, s[j].columns)

SchemasOk(s, e) == \A id \in DOMAIN s : Chain(s[id]) /\ Last(s[id]).at <= e + 1
Filed(s, id, columns) == id \in DOMAIN s /\ Last(s[id]).columns = columns
Begins(s, id, columns) == id \in DOMAIN s /\ IsPrefix(columns, Last(s[id]).columns)

IdsOk(c) ==
  /\ IsFiniteSet(DOMAIN c) /\ \A n \in DOMAIN c : c[n] \in 0 .. EntMax
  /\ \A m, n \in DOMAIN c : c[m] = c[n] => m = n

(* A row conforms to the version that was in effect when it came. *)
FactOk(f, s, e) ==
  /\ f.at \in Nat /\ f.at <= e /\ f.rel \in DOMAIN s
  /\ \E i \in DOMAIN s[f.rel] :
       /\ s[f.rel][i].at <= f.at /\ Conforms(s[f.rel][i].columns, f.row)
       /\ \A j \in DOMAIN s[f.rel] : i < j => s[f.rel][j].at > f.at

(* The names that a load has still to bind, and the schemas it has put. *)
Owed(l) ==
  CASE l.stage = "parsed" -> Range(AllNames(l))
    [] l.stage = "relations" -> Range(l.rest) \cup Range(CopyNames(Source(l))) \cup MarkerNames(l)
    [] l.stage = "copies" -> Range(l.rest) \cup MarkerNames(l)
    [] l.stage = "marker" -> Range(l.rest)
    [] OTHER -> {}

Stages == {"parsed", "relations", "copies", "marker", "schemas", "install", "views", "installed"}
Late(l) == l.stage \in {"schemas", "install", "views", "installed"}

Shaped(l) ==
  l = [source |-> l.source, how |-> l.how, host |-> l.host, base |-> l.base, stage |-> l.stage,
       rest |-> l.rest, due |-> l.due, at |-> l.at]

LoadOk(l, c, s, e) ==
  /\ Shaped(l) /\ l.source \in DOMAIN Sources /\ l.base \in Nat
  /\ l.stage \in Stages /\ IsSeq(l.rest)
  /\ Range(AllNames(l)) \subseteq DOMAIN c \cup Owed(l)
  /\ IsPackage(l) /\ l.stage # "parsed" => HeaderOk(Source(l))
  /\ Late(l) => /\ l.due \subseteq Range(AllNames(l))
                /\ \A n \in Range(AllNames(l)) \ l.due : Filed(s, c[n], Columns(Source(l), n))
                /\ IsPackage(l) => ShapesOk(Source(l)) /\ BootstrapOk(Source(l)) /\ ActorsOk(Source(l))
  /\ l.stage = "schemas" => l.at = e + 1
  /\ Late(l) /\ l.stage # "schemas" => l.due = {}
  /\ l.stage = "install" => IsPackage(l)
  /\ l.stage = "views" => Range(l.rest) \subseteq Copies(Source(l))

OpenOk(r, c, s) ==
  /\ r.source \in DOMAIN Sources /\ DOMAIN r.ids = Range(AllNames(r))
  /\ \A n \in DOMAIN r.ids :
       n \in DOMAIN c /\ c[n] = r.ids[n] /\ Begins(s, r.ids[n], Columns(Program(r), n))
  /\ IsPackage(r) => ShapesOk(Program(r)) /\ ActorsOk(Program(r))

IInv ==
  /\ edition \in Nat /\ IdsOk(catalog) /\ SchemasOk(schemas, edition)
  /\ \A f \in facts : FactOk(f, schemas, edition)
  /\ load = << >> \/ \E l : load = <<l>> /\ LoadOk(l, catalog, schemas, edition)
  /\ \A r \in open : OpenOk(r, catalog, schemas)

-----------------------------------------------------------------------------
(* What a new version, a new name and a commit leave as it was.            *)

Lengthened(v, new, w) ==
  /\ Chain(w) /\ Last(w) = new
  /\ Len(v) \in Nat /\ DOMAIN v = 1 .. Len(v) /\ DOMAIN w = 1 .. Len(v) + 1
  /\ \A i \in DOMAIN v : w[i] = v[i]

(* put_schema: a version that appends columns and takes effect later keeps *)
(* the chain.                                                              *)
LEMMA LongerChain ==
  ASSUME NEW v, v = << >> \/ Chain(v), NEW new \in Version,
         v # << >> => IsPrefix(Last(v).columns, new.columns) /\ Last(v).at < new.at,
         NEW w, w = Append(v, new)
  PROVE  Lengthened(v, new, w)
<1>1. PICK at \in Nat, columns \in Seq(ColumnTypes) : at = new.at /\ columns = new.columns
  BY DEF Version
<1>2. new \in Version /\ new.at = at /\ new.columns = columns
  BY <1>1
<1>3. v \in Seq(Version)
  <2>1. << >> \in Seq(Version)
    OBVIOUS
  <2>2. Chain(v) => v \in Seq(Version)
    BY DEF Chain
  <2> QED BY <2>1, <2>2
<1>4. /\ w \in Seq(Version) /\ Len(v) \in Nat /\ DOMAIN v = 1 .. Len(v) /\ Len(w) = Len(v) + 1
      /\ DOMAIN w = 1 .. Len(v) + 1 /\ w[Len(v) + 1] = new /\ \A i \in DOMAIN v : w[i] = v[i]
  BY <1>1, <1>2, <1>3
<1>5. w # << >> /\ Last(w) = new
  BY <1>4 DEF Last
<1>6. ASSUME NEW i \in DOMAIN w, NEW j \in DOMAIN w, i < j
      PROVE  w[i].at < w[j].at /\ IsPrefix(w[i].columns, w[j].columns)
  <2>1. CASE j # Len(v) + 1
    <3>1. i \in DOMAIN v /\ j \in DOMAIN v /\ w[i] = v[i] /\ w[j] = v[j] /\ v # << >>
      BY <1>4, <1>6, <2>1
    <3> QED BY <1>6, <3>1 DEF Chain
  <2>2. CASE j = Len(v) + 1
    <3>1. i \in DOMAIN v /\ w[i] = v[i] /\ w[j] = new /\ v # << >> /\ Len(v) \in DOMAIN v
      BY <1>4, <1>6, <2>2
    <3>2. Chain(v) /\ Last(v) = v[Len(v)]
      BY <3>1 DEF Last
    <3>3. v[i] \in Version /\ v[Len(v)] \in Version
      BY <1>3, <3>1
    <3>4. /\ v[i].at \in Nat /\ v[i].columns \in Seq(ColumnTypes)
          /\ v[Len(v)].at \in Nat /\ v[Len(v)].columns \in Seq(ColumnTypes)
      BY <3>3 DEF Version
    <3>5. v[i].at <= v[Len(v)].at /\ IsPrefix(v[i].columns, v[Len(v)].columns)
      <4>1. CASE i = Len(v)
        BY <3>4, <4>1, PrefixOfItself
      <4>2. CASE i # Len(v)
        <5>1. i < Len(v)
          BY <1>4, <3>1, <4>2
        <5> QED BY <3>1, <3>2, <3>4, <5>1 DEF Chain
      <4> QED BY <4>1, <4>2
    <3>6. IsPrefix(v[Len(v)].columns, columns) /\ v[Len(v)].at < at
      BY <1>1, <3>1, <3>2
    <3>7. IsPrefix(v[i].columns, columns)
      BY <3>4, <3>5, <3>6, PrefixOfPrefix
    <3> QED BY <1>2, <3>1, <3>4, <3>5, <3>6, <3>7
  <2> QED BY <2>1, <2>2
<1>7. Chain(w)
  BY <1>4, <1>5, <1>6 DEF Chain
<1> QED
  BY <1>1, <1>4, <1>5, <1>7 DEF Lengthened

(* A schema that is there has a last version. *)
LEMMA LastVersion ==
  ASSUME NEW v, Chain(v)
  PROVE  /\ Len(v) \in Nat /\ DOMAIN v = 1 .. Len(v) /\ Len(v) \in DOMAIN v /\ Last(v) = v[Len(v)] /\ v # << >>
         /\ \A i \in DOMAIN v : v[i].at \in Nat /\ v[i].columns \in Seq(ColumnTypes)
         /\ Last(v).at \in Nat /\ Last(v).columns \in Seq(ColumnTypes)
<1>1. v \in Seq(Version) /\ v # << >>
  BY DEF Chain
<1>2. Len(v) \in Nat /\ DOMAIN v = 1 .. Len(v) /\ Len(v) \in DOMAIN v
  BY <1>1
<1>3. Last(v) = v[Len(v)]
  BY DEF Last
<1>4. \A i \in DOMAIN v : v[i] \in Version
  BY <1>1
<1>5. \A i \in DOMAIN v : v[i].at \in Nat /\ v[i].columns \in Seq(ColumnTypes)
  BY <1>4 DEF Version
<1> QED
  BY <1>1, <1>2, <1>3, <1>5

(* put_schema leaves every other schema, every beginning and every row's   *)
(* version as it was.                                                      *)
LEMMA NewVersion ==
  ASSUME NEW s, NEW e \in Nat, SchemasOk(s, e), NEW id, NEW columns \in Seq(ColumnTypes), NEW v,
         v = IF id \in DOMAIN s THEN s[id] ELSE << >>,
         v # << >> => \/ Last(v).columns = columns
                      \/ IsPrefix(Last(v).columns, columns) /\ Last(v).at < e + 1,
         NEW t,
         t = IF v # << >> /\ Last(v).columns = columns THEN s
             ELSE Put(s, id, Append(v, [at |-> e + 1, columns |-> columns]))
  PROVE  /\ SchemasOk(t, e) /\ Filed(t, id, columns)
         /\ \A k \in DOMAIN s : k \in DOMAIN t /\ (k # id => t[k] = s[k])
         /\ \A k : \A names \in Seq(ColumnTypes) : Begins(s, k, names) => Begins(t, k, names)
         /\ \A f : FactOk(f, s, e) => FactOk(f, t, e)
<1>1. CASE v # << >> /\ Last(v).columns = columns
  BY <1>1 DEF Filed
<1>2. CASE ~ (v # << >> /\ Last(v).columns = columns)
  <2>1. PICK w : w = Append(v, [at |-> e + 1, columns |-> columns])
    OBVIOUS
  <2>2. t = Put(s, id, w)
    BY <1>2, <2>1
  <2>3. DOMAIN t = DOMAIN s \cup {id} /\ t[id] = w /\ \A k \in DOMAIN s : k # id => t[k] = s[k]
    BY <2>2 DEF Put
  <2>4. (v = << >> \/ Chain(v)) /\ (id \in DOMAIN s => v = s[id] /\ v # << >>)
    <3>1. CASE id \in DOMAIN s
      BY <3>1, LastVersion DEF SchemasOk
    <3>2. CASE id \notin DOMAIN s
      BY <3>2
    <3> QED BY <3>1, <3>2
  <2>5. v # << >> => IsPrefix(Last(v).columns, columns) /\ Last(v).at < e + 1
    BY <1>2
  <2>6. /\ Chain(w) /\ Last(w) = [at |-> e + 1, columns |-> columns]
        /\ Len(v) \in Nat /\ DOMAIN v = 1 .. Len(v) /\ DOMAIN w = 1 .. Len(v) + 1
        /\ \A i \in DOMAIN v : w[i] = v[i]
    <3>1. PICK new \in Version : new = [at |-> e + 1, columns |-> columns]
      BY DEF Version
    <3>2. new.at = e + 1 /\ new.columns = columns
      BY <3>1
    <3>3. v # << >> => IsPrefix(Last(v).columns, new.columns) /\ Last(v).at < new.at
      BY <2>5, <3>2
    <3>4. w = Append(v, new)
      BY <2>1, <3>1
    <3> HIDE <2>1
    <3>5. Lengthened(v, new, w)
      BY <2>4, <3>3, <3>4, LongerChain
    <3> QED BY <3>1, <3>5 DEF Lengthened
  <2>7. Last(w).at = e + 1 /\ Last(w).columns = columns
    BY <2>6
  <2>8. SchemasOk(t, e)
    <3>1. ASSUME NEW k \in DOMAIN t PROVE Chain(t[k]) /\ Last(t[k]).at <= e + 1
      <4>1. CASE k = id
        BY <2>3, <2>4, <2>6, <2>7, <4>1
      <4>2. CASE k # id
        BY <2>3, <4>2 DEF SchemasOk
      <4> QED BY <4>1, <4>2
    <3> QED BY <3>1 DEF SchemasOk
  <2>9. Filed(t, id, columns)
    BY <2>3, <2>7 DEF Filed
  <2>10. ASSUME NEW k, NEW names \in Seq(ColumnTypes), Begins(s, k, names) PROVE Begins(t, k, names)
    <3>1. CASE k # id
      BY <2>3, <2>10, <3>1 DEF Begins
    <3>2. CASE k = id
      <4>1. k \in DOMAIN s /\ v = s[k] /\ v # << >> /\ IsPrefix(names, Last(v).columns)
        BY <2>4, <2>10, <3>2 DEF Begins
      <4>2. Last(v).columns \in Seq(ColumnTypes)
        BY <2>4, <4>1, LastVersion
      <4>3. IsPrefix(names, columns)
        BY <2>5, <4>1, <4>2, PrefixOfPrefix
      <4> QED BY <2>3, <2>7, <3>2, <4>3 DEF Begins
    <3> QED BY <3>1, <3>2
  <2>11. ASSUME NEW f, FactOk(f, s, e) PROVE FactOk(f, t, e)
    <3>1. CASE f.rel # id
      BY <2>3, <2>11, <3>1 DEF FactOk
    <3>2. CASE f.rel = id
      <4>1. f.at \in Nat /\ f.at <= e /\ s[f.rel] = v /\ t[f.rel] = w
        BY <2>3, <2>4, <2>11, <3>2 DEF FactOk
      <4>2. PICK i \in DOMAIN v : /\ v[i].at <= f.at /\ Conforms(v[i].columns, f.row)
                                  /\ \A j \in DOMAIN v : i < j => v[j].at > f.at
        BY <2>11, <4>1 DEF FactOk
      <4>3. i \in DOMAIN w /\ w[i] = v[i]
        BY <2>6, <4>2
      <4>4. ASSUME NEW j \in DOMAIN w, i < j PROVE w[j].at > f.at
        <5>1. CASE j \in DOMAIN v
          BY <2>6, <4>2, <4>4, <5>1
        <5>2. CASE j \notin DOMAIN v
          <6>1. j = Len(v) + 1
            BY <2>6, <5>2
          <6>2. Len(w) \in Nat /\ DOMAIN w = 1 .. Len(w) /\ Last(w) = w[Len(w)]
            BY <2>6, LastVersion
          <6>3. Len(w) = Len(v) + 1
            BY <2>6, <6>2
          <6>4. w[j].at = e + 1
            BY <2>7, <6>1, <6>2, <6>3
          <6> QED BY <4>1, <6>4
        <5> QED BY <5>1, <5>2
      <4> QED BY <2>3, <3>2, <4>1, <4>2, <4>3, <4>4 DEF FactOk
    <3> QED BY <3>1, <3>2
  <2> QED BY <2>3, <2>8, <2>9, <2>10, <2>11
<1> QED
  BY <1>1, <1>2

(* An id is above all that are taken. *)
Above(c, base) == Max({base} \cup {c[n] + 1 : n \in DOMAIN c})

(* CatalogAlloc: a fresh id is above every id in the catalog. *)
LEMMA FreshIsAbove ==
  ASSUME NEW c, IdsOk(c), NEW base \in Nat, NEW id, id = Above(c, base)
  PROVE  id \in Nat /\ \A n \in DOMAIN c : c[n] < id
<1> DEFINE I == {c[n] + 1 : n \in DOMAIN c}
           f == [n \in DOMAIN c |-> c[n] + 1]
<1>1. \A n \in DOMAIN c : c[n] \in Nat
  BY DEF IdsOk
<1>2. f \in Surjection(DOMAIN c, I)
  BY DEF Surjection
<1>3. IsFiniteSet(I)
  <2> HIDE DEF f, I
  <2> QED BY <1>2, FS_Surjection DEF IdsOk
<1>4. IsFiniteSet({base} \cup I)
  <2>1. IsFiniteSet({base})
    BY FS_Singleton
  <2> HIDE DEF I
  <2> QED BY <1>3, <2>1, FS_Union
<1>5. {base} \cup I \in SUBSET Nat
  BY <1>1
<1>6. id \in {base} \cup I /\ \A y \in {base} \cup I : y <= id
  <2> DEFINE T == {base} \cup I
  <2>1. T \in SUBSET Nat /\ T # {} /\ IsFiniteSet(T) /\ id = Max(T)
    BY <1>4, <1>5 DEF Above
  <2>2. id \in T /\ \A y \in T : y <= id
    <3> HIDE DEF T
    <3> QED BY <2>1, GreatestExists
  <2> QED BY <2>2
<1>7. ASSUME NEW n \in DOMAIN c PROVE c[n] < id
  <2>1. c[n] + 1 \in I /\ c[n] \in Nat /\ id \in Nat
    BY <1>1, <1>5, <1>6
  <2>2. c[n] + 1 <= id
    BY <1>6, <2>1
  <2> QED BY <2>1, <2>2
<1> QED
  BY <1>5, <1>6, <1>7

Named(c, name, d) ==
  IdsOk(d) /\ DOMAIN d = DOMAIN c \cup {name} /\ \A n \in DOMAIN c : d[n] = c[n]

(* Catalog::register: a bound name keeps its id, a new one has an id of its *)
(* own, and every other name has the id it had.                            *)
LEMMA NewId ==
  ASSUME NEW c, IdsOk(c), NEW base \in Nat, NEW name, NEW id,
         name \in DOMAIN c => id = c[name], name \notin DOMAIN c => id = Above(c, base),
         id <= EntMax, NEW d, d = Put(c, name, id)
  PROVE  Named(c, name, d)
<1>1. DOMAIN d = DOMAIN c \cup {name} /\ d[name] = id /\ \A n \in DOMAIN c : n # name => d[n] = c[n]
  BY DEF Put
<1>2. \A n \in DOMAIN c : d[n] = c[n]
  BY <1>1
<1>3. IsFiniteSet(DOMAIN d)
  BY <1>1, FS_AddElement DEF IdsOk
<1>4. EntMax \in Nat /\ id \in 0 .. EntMax
  BY FreshIsAbove, ValuesAssumption DEF IdsOk
<1>5. \A n \in DOMAIN d : d[n] \in 0 .. EntMax
  BY <1>1, <1>2, <1>4 DEF IdsOk
<1>6. \A n \in DOMAIN c : name \notin DOMAIN c => d[n] # id
  BY <1>2, FreshIsAbove DEF IdsOk
<1>7. ASSUME NEW m \in DOMAIN d, NEW n \in DOMAIN d, d[m] = d[n] PROVE m = n
  <2>1. CASE name \in DOMAIN c
    <3>1. m \in DOMAIN c /\ n \in DOMAIN c
      BY <1>1, <2>1
    <3>2. c[m] = c[n]
      BY <1>2, <1>7, <3>1
    <3> QED BY <3>1, <3>2 DEF IdsOk
  <2>2. CASE name \notin DOMAIN c
    <3>1. CASE m \in DOMAIN c /\ n \in DOMAIN c
      <4>1. c[m] = c[n]
        BY <1>2, <1>7, <3>1
      <4> QED BY <3>1, <4>1 DEF IdsOk
    <3>2. CASE m \notin DOMAIN c
      <4>1. m = name /\ d[n] = id
        BY <1>1, <1>7, <3>2
      <4> QED BY <1>1, <1>6, <2>2, <4>1
    <3>3. CASE n \notin DOMAIN c
      <4>1. n = name /\ d[m] = id
        BY <1>1, <1>7, <3>3
      <4> QED BY <1>1, <1>6, <2>2, <4>1
    <3> QED BY <3>1, <3>2, <3>3
  <2> QED BY <2>1, <2>2
<1> QED
  BY <1>1, <1>2, <1>3, <1>5, <1>7 DEF IdsOk, Named

(* A commit leaves the rows before it and brings rows of its edition. *)
LEMMA NextEdition ==
  ASSUME NEW s, NEW e \in Nat, SchemasOk(s, e)
  PROVE  /\ e + 1 \in Nat /\ SchemasOk(s, e + 1)
         /\ \A f : FactOk(f, s, e) => FactOk(f, s, e + 1)
         /\ \A id \in DOMAIN s : \A row : Conforms(Last(s[id]).columns, row) =>
              FactOk([rel |-> id, row |-> row, at |-> e + 1], s, e + 1)
<1>1. ASSUME NEW id \in DOMAIN s
      PROVE  Last(s[id]).at \in Nat /\ Last(s[id]).at <= e + 1 /\ Len(s[id]) \in DOMAIN s[id]
               /\ DOMAIN s[id] = 1 .. Len(s[id]) /\ Len(s[id]) \in Nat
  <2>1. Chain(s[id]) /\ Last(s[id]).at <= e + 1
    BY DEF SchemasOk
  <2> QED BY <2>1, LastVersion
<1>2. SchemasOk(s, e + 1)
  <2>1. ASSUME NEW id \in DOMAIN s PROVE Chain(s[id]) /\ Last(s[id]).at <= (e + 1) + 1
    BY <1>1 DEF SchemasOk
  <2> QED BY <2>1 DEF SchemasOk
<1>3. ASSUME NEW f, FactOk(f, s, e) PROVE FactOk(f, s, e + 1)
  BY <1>3 DEF FactOk
<1>4. ASSUME NEW id \in DOMAIN s, NEW row, Conforms(Last(s[id]).columns, row)
      PROVE  FactOk([rel |-> id, row |-> row, at |-> e + 1], s, e + 1)
  <2>1. PICK f : f = [rel |-> id, row |-> row, at |-> e + 1]
    OBVIOUS
  <2>2. f.rel = id /\ f.row = row /\ f.at = e + 1
    BY <2>1
  <2>3. PICK i : i = Len(s[id])
    OBVIOUS
  <2>4. i \in DOMAIN s[id] /\ s[id][i].at <= e + 1 /\ Conforms(s[id][i].columns, row)
    BY <1>1, <1>4, <2>3 DEF Last
  <2>5. \A j \in DOMAIN s[id] : ~ (i < j)
    BY <1>1, <2>3
  <2>6. FactOk(f, s, e + 1)
    BY <2>2, <2>4, <2>5 DEF FactOk
  <2> QED BY <2>1, <2>6
<1> QED
  BY <1>2, <1>3, <1>4

-----------------------------------------------------------------------------
(* The loads and the steps.                                                *)

(* Two loads of the same source. *)
Alike(l, k) ==
  Shaped(k) /\ k.source = l.source /\ k.how = l.how /\ k.host = l.host /\ k.base = l.base

(* Loads of the same source bind the same names. *)
LEMMA AlikeNames ==
  ASSUME NEW l, NEW k, Alike(l, k)
  PROVE  /\ Source(k) = Source(l) /\ (IsPackage(k) <=> IsPackage(l)) /\ MarkerNames(k) = MarkerNames(l)
         /\ AllNames(k) = AllNames(l)
  BY DEF Alike, Source, IsPackage, MarkerNames, AllNames

(* What the invariant says of rows, schemas and runtimes. *)
LEMMA InvariantIsEnough ==
  ASSUME IInv
  PROVE  NamesAndSchemasStand
<1>1. ASSUME NEW m \in DOMAIN catalog, NEW n \in DOMAIN catalog, catalog[m] = catalog[n] PROVE m = n
  BY <1>1 DEF IInv, IdsOk
<1>2. ASSUME NEW r \in open, NEW n \in DOMAIN r.ids
      PROVE  /\ n \in DOMAIN catalog /\ catalog[n] = r.ids[n] /\ Versions(r.ids[n]) # << >>
             /\ IsPrefix(Columns(Program(r), n), Last(Versions(r.ids[n])).columns)
  <2>1. n \in DOMAIN catalog /\ catalog[n] = r.ids[n] /\ Begins(schemas, r.ids[n], Columns(Program(r), n))
    BY DEF IInv, OpenOk
  <2>2. r.ids[n] \in DOMAIN schemas /\ Versions(r.ids[n]) = schemas[r.ids[n]]
    BY <2>1 DEF Begins, Versions
  <2>3. schemas[r.ids[n]] # << >>
    BY <2>2, LastVersion DEF IInv, SchemasOk
  <2> QED BY <2>1, <2>2, <2>3 DEF Begins
<1>3. ASSUME NEW f \in facts
      PROVE  \E then \in InEffect(f.rel, f.at) :
               Conforms(then.columns, f.row) /\ IsPrefix(then.columns, Last(Versions(f.rel)).columns)
  <2>1. PICK v : v = schemas[f.rel]
    OBVIOUS
  <2>2. FactOk(f, schemas, edition) /\ SchemasOk(schemas, edition)
    BY DEF IInv
  <2>3. f.at \in Nat /\ f.rel \in DOMAIN schemas /\ Versions(f.rel) = v
    BY <2>1, <2>2 DEF FactOk, Versions
  <2>4. Chain(v)
    BY <2>1, <2>2, <2>3 DEF SchemasOk
  <2>5. PICK i \in DOMAIN v : /\ v[i].at <= f.at /\ Conforms(v[i].columns, f.row)
                              /\ \A j \in DOMAIN v : i < j => v[j].at > f.at
    BY <2>1, <2>2 DEF FactOk
  <2>6. /\ Len(v) \in Nat /\ DOMAIN v = 1 .. Len(v) /\ Last(v) = v[Len(v)] /\ Len(v) \in DOMAIN v
        /\ \A j \in DOMAIN v : v[j].at \in Nat /\ v[j].columns \in Seq(ColumnTypes)
    BY <2>4, LastVersion
  <2>7. \A j, k \in DOMAIN v : j < k => v[j].at < v[k].at /\ IsPrefix(v[j].columns, v[k].columns)
    BY <2>4 DEF Chain
  <2>8. ASSUME NEW k \in DOMAIN v, v[k].at <= f.at PROVE v[k].at <= v[i].at
    <3>1. ~ (i < k)
      BY <2>3, <2>5, <2>6, <2>8
    <3>2. k < i \/ k = i
      BY <2>6, <3>1
    <3>3. k < i => v[k].at < v[i].at
      BY <2>7
    <3> QED BY <2>6, <3>2, <3>3
  <2>9. v[i] \in InEffect(f.rel, f.at)
    BY <2>3, <2>5, <2>8 DEF InEffect, Range
  <2>10. IsPrefix(v[i].columns, Last(v).columns)
    <3>1. CASE i = Len(v)
      BY <2>6, <3>1, PrefixOfItself
    <3>2. CASE i # Len(v)
      <4>1. i < Len(v)
        BY <2>6, <3>2
      <4> QED BY <2>6, <2>7, <4>1
    <3> QED BY <3>1, <3>2
  <2> QED BY <2>3, <2>5, <2>9, <2>10
<1> QED
  BY <1>1, <1>2, <1>3 DEF NamesAndSchemasStand

(* A new store has no name, no schema and no row. *)
LEMMA InitIsSound ==
  ASSUME Init
  PROVE  IInv
<1>1. catalog = << >> /\ schemas = << >> /\ facts = {} /\ edition = 0 /\ load = << >> /\ open = {}
  BY DEF Init
<1>2. DOMAIN catalog = {} /\ DOMAIN schemas = {}
  BY <1>1
<1>3. IdsOk(catalog)
  BY <1>2, FS_EmptySet DEF IdsOk
<1>4. SchemasOk(schemas, edition)
  BY <1>2 DEF SchemasOk
<1> QED
  BY <1>1, <1>3, <1>4 DEF IInv

(* The empty list. *)
LEMMA EmptyList == IsSeq(<< >>) /\ Range(<< >>) = {}
<1>1. << >> \in Seq({}) /\ DOMAIN << >> = {}
  OBVIOUS
<1> QED
  BY <1>1 DEF IsSeq, Range

(* A refused load leaves what it has bound and put. *)
LEMMA RefusalIsSound ==
  ASSUME IInv, Refuse
  PROVE  IInv'
<1>1. load' = << >> /\ UNCHANGED <<catalog, schemas, facts, edition, open>>
  BY DEF Refuse, store
<1> QED
  BY <1>1 DEF IInv

(* A crash leaves the store, and no load or runtime. *)
LEMMA CrashIsSound ==
  ASSUME IInv, Crash
  PROVE  IInv'
<1>1. load' = << >> /\ open' = {} /\ UNCHANGED <<catalog, schemas, facts, edition>>
  BY DEF Crash, store
<1> QED
  BY <1>1 DEF IInv

(* A load begins with every name still to bind. *)
LEMMA StartIsSound ==
  ASSUME IInv, Start
  PROVE  IInv'
<1>1. PICK s \in DOMAIN Sources, how \in {"plain", "package", "driven"}, h \in DOMAIN Hosts, base \in Bases :
        load' = <<[source |-> s, how |-> how, host |-> Hosts[h], base |-> base, stage |-> "parsed",
                   rest |-> << >>, due |-> {}, at |-> 0]>>
  BY DEF Start
<1>2. UNCHANGED <<catalog, schemas, facts, edition, open>>
  BY DEF Start, store
<1>3. PICK l : l = [source |-> s, how |-> how, host |-> Hosts[h], base |-> base, stage |-> "parsed",
                    rest |-> << >>, due |-> {}, at |-> 0]
  OBVIOUS
<1>4. l.source = s /\ l.how = how /\ l.host = Hosts[h] /\ l.base = base /\ l.stage = "parsed"
        /\ l.rest = << >> /\ l.due = {} /\ l.at = 0
  BY <1>3
<1>5. Shaped(l)
  BY <1>3, <1>4 DEF Shaped
<1>6. base \in Nat
  BY PackagesAssumption
<1>7. LoadOk(l, catalog, schemas, edition)
  <2>1. ~ Late(l) /\ l.stage \in Stages /\ Owed(l) = Range(AllNames(l))
    BY <1>4 DEF Late, Stages, Owed
  <2> QED BY <1>4, <1>5, <1>6, <2>1, EmptyList DEF LoadOk
<1> QED
  BY <1>1, <1>2, <1>3, <1>7 DEF IInv

(* The stages that come before the names are all bound, and those after.   *)
LEMMA AdvanceIsSound ==
  ASSUME IInv, Advance
  PROVE  IInv'
<1>1. PICK l : load = <<l>> /\ LoadOk(l, catalog, schemas, edition)
  BY DEF IInv, Advance
<1>2. load[1] = l
  BY <1>1
<1>3. PICK k : k = Next1(l)
  OBVIOUS
<1>4. /\ l.rest = << >> /\ l.due = {} /\ l.stage \notin {"install", "installed"} /\ Passes(l)
      /\ load' = <<k>> /\ UNCHANGED <<catalog, schemas, facts, edition, open>>
  BY <1>2, <1>3 DEF Advance, Through, store
<1>5. /\ Shaped(l) /\ l.source \in DOMAIN Sources /\ l.base \in Nat /\ l.stage \in Stages
      /\ Range(AllNames(l)) \subseteq DOMAIN catalog \cup Owed(l)
      /\ IsPackage(l) /\ l.stage # "parsed" => HeaderOk(Source(l))
  BY <1>1 DEF LoadOk
<1>6. Parsed(Source(l))
  BY <1>5, PackagesAssumption DEF Source
<1>7. Range(AllNames(l)) = Range(Names(Source(l).rels)) \cup Range(CopyNames(Source(l))) \cup MarkerNames(l)
  BY <1>6, AllNamesAre
<1>8. IsSeq(Names(Source(l).rels)) /\ IsSeq(CopyNames(Source(l)))
  BY <1>6, NamesAre, CopyNamesAre
<1>9. Range(l.rest) = {}
  BY <1>4, EmptyList
<1>10. ASSUME Alike(l, k)
       PROVE  /\ Shaped(k) /\ k.source \in DOMAIN Sources /\ k.base \in Nat /\ Source(k) = Source(l)
              /\ (IsPackage(k) <=> IsPackage(l)) /\ MarkerNames(k) = MarkerNames(l) /\ AllNames(k) = AllNames(l)
  BY <1>5, <1>10, AlikeNames DEF Alike
<1>11. CASE l.stage = "parsed"
  <2>1. k = [l EXCEPT !.stage = "relations", !.rest = Names(Source(l).rels)]
    BY <1>3, <1>11 DEF Next1
  <2>2. Alike(l, k) /\ k.stage = "relations" /\ k.rest = Names(Source(l).rels)
    BY <1>5, <2>1 DEF Alike, Shaped
  <2>3. Owed(k) = Range(Names(Source(l).rels)) \cup Range(CopyNames(Source(l))) \cup MarkerNames(l)
    BY <1>10, <2>2 DEF Owed
  <2>4. k.stage \in Stages /\ ~ Late(k)
    BY <2>2 DEF Stages, Late
  <2>5. IsPackage(l) => HeaderOk(Source(l))
    BY <1>4, <1>11 DEF Passes
  <2>6. LoadOk(k, catalog, schemas, edition)
    BY <1>7, <1>8, <1>10, <2>2, <2>3, <2>4, <2>5 DEF LoadOk
  <2> QED BY <1>4, <2>6 DEF IInv
<1>12. CASE l.stage = "relations"
  <2>1. k = [l EXCEPT !.stage = "copies", !.rest = CopyNames(Source(l))]
    BY <1>3, <1>12 DEF Next1
  <2>2. Alike(l, k) /\ k.stage = "copies" /\ k.rest = CopyNames(Source(l))
    BY <1>5, <2>1 DEF Alike, Shaped
  <2>3. Owed(k) = Range(CopyNames(Source(l))) \cup MarkerNames(l)
    BY <1>10, <2>2 DEF Owed
  <2>4. k.stage \in Stages /\ ~ Late(k)
    BY <2>2 DEF Stages, Late
  <2>5. Owed(l) = Range(CopyNames(Source(l))) \cup MarkerNames(l)
    BY <1>9, <1>12 DEF Owed
  <2>6. LoadOk(k, catalog, schemas, edition)
    BY <1>5, <1>8, <1>10, <1>12, <2>2, <2>3, <2>4, <2>5 DEF LoadOk
  <2> QED BY <1>4, <2>6 DEF IInv
<1>13. CASE l.stage = "copies"
  <2>1. PICK m : m = IF IsPackage(l) THEN <<Marker>> ELSE << >>
    OBVIOUS
  <2>2. k = [l EXCEPT !.stage = "marker", !.rest = m]
    BY <1>3, <1>13, <2>1 DEF Next1
  <2>3. Alike(l, k) /\ k.stage = "marker" /\ k.rest = m
    BY <1>5, <2>2 DEF Alike, Shaped
  <2>4. IsSeq(m) /\ Range(m) = MarkerNames(l)
    <3>1. <<Marker>> \in Seq({Marker}) /\ Range(<<Marker>>) = {Marker}
      BY DEF Range
    <3> QED BY <2>1, <3>1, EmptyList DEF IsSeq, MarkerNames
  <2>5. Owed(k) = MarkerNames(l)
    BY <2>3, <2>4 DEF Owed
  <2>6. k.stage \in Stages /\ ~ Late(k)
    BY <2>3 DEF Stages, Late
  <2>7. Owed(l) = MarkerNames(l)
    BY <1>9, <1>13 DEF Owed
  <2>8. LoadOk(k, catalog, schemas, edition)
    BY <1>5, <1>10, <1>13, <2>3, <2>4, <2>5, <2>6, <2>7 DEF LoadOk
  <2> QED BY <1>4, <2>8 DEF IInv
<1>14. CASE l.stage = "marker"
  <2>1. PICK d : d = Range(AllNames(l))
    OBVIOUS
  <2>2. k = [l EXCEPT !.stage = "schemas", !.due = d, !.at = edition + 1]
    BY <1>3, <1>14, <2>1 DEF Next1
  <2>3. Alike(l, k) /\ k.stage = "schemas" /\ k.rest = << >> /\ k.due = d /\ k.at = edition + 1
    BY <1>4, <1>5, <2>2 DEF Alike, Shaped
  <2>4. Owed(k) = {} /\ Owed(l) = {} /\ k.stage \in Stages
    BY <1>9, <1>14, <2>3 DEF Owed, Stages
  <2>5. IsPackage(l) => ShapesOk(Source(l)) /\ BootstrapOk(Source(l)) /\ ActorsOk(Source(l))
    BY <1>4, <1>14 DEF Passes, PackageOk
  <2>6. LoadOk(k, catalog, schemas, edition)
    BY <1>5, <1>10, <1>14, <2>1, <2>3, <2>4, <2>5, EmptyList DEF LoadOk
  <2> QED BY <1>4, <2>6 DEF IInv
<1>15. ASSUME l.stage \in {"schemas", "views"}
       PROVE  /\ Owed(l) = {} /\ \A n \in Range(AllNames(l)) : Filed(schemas, catalog[n], Columns(Source(l), n))
              /\ IsPackage(l) => ShapesOk(Source(l)) /\ BootstrapOk(Source(l)) /\ ActorsOk(Source(l))
  <2>1. Late(l) /\ Owed(l) = {}
    BY <1>15 DEF Late, Owed
  <2>2. /\ \A n \in Range(AllNames(l)) \ l.due : Filed(schemas, catalog[n], Columns(Source(l), n))
        /\ IsPackage(l) => ShapesOk(Source(l)) /\ BootstrapOk(Source(l)) /\ ActorsOk(Source(l))
    BY <1>1, <2>1 DEF LoadOk
  <2> QED BY <1>4, <2>1, <2>2
<1>16. CASE l.stage = "schemas" /\ IsPackage(l)
  <2>1. k = [l EXCEPT !.stage = "install"]
    BY <1>3, <1>16 DEF Next1
  <2>2. Alike(l, k) /\ k.stage = "install" /\ k.rest = << >> /\ k.due = {}
    BY <1>4, <1>5, <2>1 DEF Alike, Shaped
  <2>3. Owed(k) = {} /\ k.stage \in Stages
    BY <2>2 DEF Owed, Stages
  <2>4. LoadOk(k, catalog, schemas, edition)
    BY <1>5, <1>10, <1>15, <1>16, <2>2, <2>3, EmptyList DEF LoadOk
  <2> QED BY <1>4, <2>4 DEF IInv
<1>17. CASE l.stage = "schemas" /\ ~ IsPackage(l)
  <2>1. PICK v : v = [i \in DOMAIN Materialized(Source(l)) |-> Materialized(Source(l))[i].copy]
    OBVIOUS
  <2>2. k = [l EXCEPT !.stage = "views", !.rest = v]
    BY <1>3, <1>17, <2>1 DEF Next1
  <2>3. Alike(l, k) /\ k.stage = "views" /\ k.rest = v /\ k.due = {}
    BY <1>4, <1>5, <2>2 DEF Alike, Shaped
  <2>4. Owed(k) = {} /\ k.stage \in Stages
    BY <2>3 DEF Owed, Stages
  <2>5. IsSeq(v) /\ Range(v) = Copies(Source(l))
    BY <1>6, <2>1, CopiesListed
  <2>6. LoadOk(k, catalog, schemas, edition)
    BY <1>5, <1>10, <1>15, <1>17, <2>3, <2>4, <2>5 DEF LoadOk
  <2> QED BY <1>4, <2>6 DEF IInv
<1>18. CASE l.stage = "views"
  <2>1. k = [l EXCEPT !.stage = "installed"]
    BY <1>3, <1>18 DEF Next1
  <2>2. Alike(l, k) /\ k.stage = "installed" /\ k.rest = << >> /\ k.due = {}
    BY <1>4, <1>5, <2>1 DEF Alike, Shaped
  <2>3. Owed(k) = {} /\ k.stage \in Stages
    BY <2>2 DEF Owed, Stages
  <2>4. LoadOk(k, catalog, schemas, edition)
    BY <1>5, <1>10, <1>15, <1>18, <2>2, <2>3, EmptyList DEF LoadOk
  <2> QED BY <1>4, <2>4 DEF IInv
<1> QED
  BY <1>4, <1>5, <1>11, <1>12, <1>13, <1>14, <1>16, <1>17, <1>18 DEF Stages

(* Binding a name changes no other name's id, so no open runtime's either. *)
LEMMA BindIsSound ==
  ASSUME IInv, Bind
  PROVE  IInv'
<1>1. PICK l : load = <<l>> /\ LoadOk(l, catalog, schemas, edition)
  BY DEF IInv, Bind, Binding
<1>2. load[1] = l
  BY <1>1
<1>3. PICK name : name = Head(l.rest)
  OBVIOUS
<1>4. PICK id : id = IdOf(name, l.base)
  OBVIOUS
<1>5. PICK k : k = [l EXCEPT !.rest = Tail(@)]
  OBVIOUS
<1>6. /\ l.stage \in {"relations", "copies", "marker"} /\ l.rest # << >>
      /\ id <= EntMax /\ catalog' = Put(catalog, name, id) /\ load' = <<k>>
      /\ UNCHANGED <<schemas, facts, edition, open>>
  BY <1>2, <1>3, <1>4, <1>5 DEF Bind, Binding
<1>7. Shaped(l) /\ IsSeq(l.rest) /\ l.base \in Nat
  BY <1>1 DEF LoadOk
<1>8. Alike(l, k) /\ k.stage = l.stage /\ k.rest = Tail(l.rest)
  BY <1>5, <1>7 DEF Alike, Shaped
<1>9. id = IF name \in DOMAIN catalog THEN catalog[name] ELSE Above(catalog, l.base)
  BY <1>4 DEF IdOf, FreshId, Above
<1>10. IdsOk(catalog') /\ DOMAIN catalog' = DOMAIN catalog \cup {name}
         /\ \A n \in DOMAIN catalog : catalog'[n] = catalog[n]
  <2>1. PICK c : c = catalog
    OBVIOUS
  <2>2. PICK d : d = Put(c, name, id)
    OBVIOUS
  <2>3. IdsOk(c)
    BY <2>1 DEF IInv
  <2>4. PICK base \in Nat : base = l.base
    BY <1>7
  <2>5. Named(c, name, d)
    <3>1. (name \in DOMAIN c => id = c[name]) /\ (name \notin DOMAIN c => id = Above(c, base)) /\ id <= EntMax
      BY <1>6, <1>9, <2>1, <2>4
    <3> QED BY <2>2, <2>3, <3>1, NewId
  <2>6. catalog' = d
    BY <1>6, <2>1, <2>2
  <2> QED BY <2>1, <2>5, <2>6 DEF Named
<1>11. IsSeq(k.rest) /\ Range(l.rest) = {name} \cup Range(k.rest)
  BY <1>3, <1>6, <1>7, <1>8, TailIs
<1>12. Owed(l) \subseteq {name} \cup Owed(k)
  <2>1. CASE l.stage = "relations"
    BY <1>8, <1>11, <2>1, AlikeNames DEF Owed
  <2>2. CASE l.stage = "copies"
    BY <1>8, <1>11, <2>2, AlikeNames DEF Owed
  <2>3. CASE l.stage = "marker"
    BY <1>8, <1>11, <2>3, AlikeNames DEF Owed
  <2> QED BY <1>6, <2>1, <2>2, <2>3
<1>13. LoadOk(k, catalog', schemas, edition)
  <2>1. /\ Shaped(k) /\ k.source = l.source /\ k.base = l.base /\ Source(k) = Source(l)
        /\ (IsPackage(k) <=> IsPackage(l)) /\ AllNames(k) = AllNames(l)
    BY <1>8, AlikeNames DEF Alike
  <2>2. ~ Late(k) /\ k.stage \in Stages
    BY <1>6, <1>8 DEF Late, Stages
  <2>3. Range(AllNames(k)) \subseteq DOMAIN catalog' \cup Owed(k)
    BY <1>1, <1>10, <1>12, <2>1 DEF LoadOk
  <2> QED BY <1>1, <1>6, <1>8, <1>11, <2>1, <2>2, <2>3 DEF LoadOk
<1>14. \A r \in open : OpenOk(r, catalog', schemas)
  BY <1>10 DEF IInv, OpenOk
<1> QED
  BY <1>6, <1>10, <1>13, <1>14 DEF IInv

(* Putting a schema leaves the rows conforming and open runtimes' relations *)
(* beginning as they did.                                                  *)
LEMMA PutSchemaIsSound ==
  ASSUME IInv, PutSchema
  PROVE  IInv'
<1>1. PICK l : load = <<l>> /\ LoadOk(l, catalog, schemas, edition)
  BY DEF IInv, PutSchema, Registering
<1>2. load[1] = l
  BY <1>1
<1>3. PICK name \in l.due :
        /\ Takes(name)
        /\ schemas' = WithSchema(catalog[name], Columns(Source(l), name), l.at)
        /\ load' = <<[l EXCEPT !.due = @ \ {name}]>>
  BY <1>2 DEF PutSchema, NextNames
<1>4. PICK k : k = [l EXCEPT !.due = @ \ {name}]
  OBVIOUS
<1>5. l.stage = "schemas" /\ load' = <<k>> /\ UNCHANGED <<catalog, facts, edition, open>>
  BY <1>2, <1>3, <1>4 DEF PutSchema, Registering
<1>6. PICK columns : columns = Columns(Source(l), name)
  OBVIOUS
<1>7. PICK id : id = catalog[name]
  OBVIOUS
<1>8. /\ Shaped(l) /\ l.source \in DOMAIN Sources /\ Late(l) /\ l.at = edition + 1 /\ Owed(l) = {}
      /\ l.due \subseteq Range(AllNames(l))
      /\ \A n \in Range(AllNames(l)) \ l.due : Filed(schemas, catalog[n], Columns(Source(l), n))
      /\ IsPackage(l) => ShapesOk(Source(l)) /\ BootstrapOk(Source(l)) /\ ActorsOk(Source(l))
  BY <1>1, <1>5 DEF LoadOk, Late, Owed
<1>9. Range(AllNames(l)) \subseteq DOMAIN catalog
  BY <1>1, <1>8 DEF LoadOk
<1>10. columns \in Seq(ColumnTypes)
  <2>1. Parsed(Source(l))
    BY <1>8, PackagesAssumption DEF Source
  <2> QED BY <1>6, <2>1, ColumnsAre
<1>11. PICK s : s = schemas
  OBVIOUS
<1>12. PICK e \in Nat : e = edition
  BY DEF IInv
<1>13. PICK v : v = IF id \in DOMAIN s THEN s[id] ELSE << >>
  OBVIOUS
<1>14. v = Versions(id)
  BY <1>11, <1>13 DEF Versions
<1>15. v # << >> => \/ Last(v).columns = columns
                    \/ IsPrefix(Last(v).columns, columns) /\ Last(v).at < e + 1
  BY <1>2, <1>3, <1>6, <1>7, <1>8, <1>12, <1>14 DEF Takes, Puttable, Evolves
<1>16. PICK t : t = IF v # << >> /\ Last(v).columns = columns THEN s
                    ELSE Put(s, id, Append(v, [at |-> e + 1, columns |-> columns]))
  OBVIOUS
<1>17. schemas' = t
  BY <1>3, <1>6, <1>7, <1>8, <1>11, <1>12, <1>14, <1>16 DEF WithSchema
<1>18. SchemasOk(s, e)
  BY <1>11, <1>12 DEF IInv
<1>19. /\ SchemasOk(t, e) /\ Filed(t, id, columns)
       /\ \A n \in DOMAIN s : n \in DOMAIN t /\ (n # id => t[n] = s[n])
       /\ \A n : \A names \in Seq(ColumnTypes) : Begins(s, n, names) => Begins(t, n, names)
       /\ \A f : FactOk(f, s, e) => FactOk(f, t, e)
  BY <1>10, <1>13, <1>15, <1>16, <1>18, NewVersion
<1>20. Alike(l, k) /\ k.stage = l.stage /\ k.rest = l.rest /\ k.due = l.due \ {name} /\ k.at = l.at
  BY <1>4, <1>8 DEF Alike, Shaped
<1>21. LoadOk(k, catalog, t, e)
  <2>1. /\ Shaped(k) /\ k.source = l.source /\ k.base = l.base /\ Source(k) = Source(l)
        /\ (IsPackage(k) <=> IsPackage(l)) /\ AllNames(k) = AllNames(l) /\ Owed(k) = {} /\ Late(k)
    BY <1>5, <1>20, AlikeNames DEF Alike, Late, Owed
  <2>2. ASSUME NEW n \in Range(AllNames(k)) \ k.due PROVE Filed(t, catalog[n], Columns(Source(k), n))
    <3>1. CASE n = name
      BY <1>6, <1>7, <1>19, <2>1, <3>1
    <3>2. CASE n # name
      <4>1. n \in Range(AllNames(l)) \ l.due /\ n \in DOMAIN catalog /\ name \in DOMAIN catalog
        BY <1>8, <1>9, <1>20, <2>1, <3>2
      <4>2. catalog[n] # id
        BY <1>7, <3>2, <4>1 DEF IInv, IdsOk
      <4>3. Filed(s, catalog[n], Columns(Source(l), n))
        BY <1>8, <1>11, <4>1
      <4> QED BY <1>19, <2>1, <4>2, <4>3 DEF Filed
    <3> QED BY <3>1, <3>2
  <2> QED BY <1>1, <1>5, <1>8, <1>9, <1>12, <1>20, <2>1, <2>2 DEF LoadOk
<1>22. \A f \in facts : FactOk(f, t, e)
  BY <1>11, <1>12, <1>19 DEF IInv
<1>23. ASSUME NEW r \in open PROVE OpenOk(r, catalog, t)
  <2>1. OpenOk(r, catalog, s)
    BY <1>11 DEF IInv
  <2>2. ASSUME NEW n \in DOMAIN r.ids PROVE Begins(t, r.ids[n], Columns(Program(r), n))
    <3>1. Columns(Program(r), n) \in Seq(ColumnTypes)
      BY <2>1, PackagesAssumption, ColumnsAre DEF OpenOk, Program
    <3> QED BY <1>19, <2>1, <3>1 DEF OpenOk
  <2> QED BY <2>1, <2>2 DEF OpenOk
<1> QED
  BY <1>5, <1>12, <1>17, <1>19, <1>21, <1>22, <1>23 DEF IInv

(* What a commit of conforming rows leaves true. *)
LEMMA CommitIsSound ==
  ASSUME IInv, NEW gone, NEW rows, facts' = (facts \ gone) \cup rows, edition' = edition + 1,
         \A f \in rows : FactOk(f, schemas, edition + 1),
         UNCHANGED <<catalog, schemas, open>>,
         load' = << >> \/ \E l : load' = <<l>> /\ LoadOk(l, catalog, schemas, edition + 1)
  PROVE  IInv'
<1>1. PICK s : s = schemas
  OBVIOUS
<1>2. PICK e \in Nat : e = edition
  BY DEF IInv
<1>3. SchemasOk(s, e)
  BY <1>1, <1>2 DEF IInv
<1>4. e + 1 \in Nat /\ SchemasOk(s, e + 1) /\ \A f : FactOk(f, s, e) => FactOk(f, s, e + 1)
  BY <1>3, NextEdition
<1>5. ASSUME NEW f \in facts' PROVE FactOk(f, s, e + 1)
  <2>1. f \in facts \/ f \in rows
    OBVIOUS
  <2>2. CASE f \in facts
    BY <1>1, <1>2, <1>4, <2>2 DEF IInv
  <2>3. CASE f \in rows
    BY <1>1, <1>2, <2>3
  <2> QED BY <2>1, <2>2, <2>3
<1>6. edition' = e + 1 /\ schemas' = s
  BY <1>1, <1>2
<1>7. load' = << >> \/ \E l : load' = <<l>> /\ LoadOk(l, catalog, s, e + 1)
  BY <1>1, <1>2
<1>8. \A r \in open : OpenOk(r, catalog, s)
  BY <1>1 DEF IInv
<1> QED
  BY <1>4, <1>5, <1>6, <1>7, <1>8 DEF IInv

(* A row that conforms to its relation's schema. *)
LEMMA RowIsSound ==
  ASSUME IInv, NEW id, id \in DOMAIN schemas, NEW row, Conforms(Last(schemas[id]).columns, row),
         NEW f, f = Fact(id, row)
  PROVE  FactOk(f, schemas, edition + 1)
<1>1. PICK s : s = schemas
  OBVIOUS
<1>2. PICK e \in Nat : e = edition
  BY DEF IInv
<1>3. SchemasOk(s, e) /\ id \in DOMAIN s /\ Conforms(Last(s[id]).columns, row)
  BY <1>1, <1>2 DEF IInv
<1>4. FactOk([rel |-> id, row |-> row, at |-> e + 1], s, e + 1)
  BY <1>3, NextEdition
<1>5. f = [rel |-> id, row |-> row, at |-> e + 1]
  BY <1>2 DEF Fact
<1> QED
  BY <1>1, <1>2, <1>4, <1>5

(* What a runtime commits has been checked against the latest schema       *)
(* (check_schema).                                                         *)
LEMMA PlayedRowIsSound ==
  ASSUME IInv, NEW id, id \in DOMAIN schemas, NEW row, NEW f, f = Fact(id, row),
         NEW rows, f \in rows, Conforming(rows)
  PROVE  FactOk(f, schemas, edition + 1)
<1>1. f.rel = id /\ f.row = row
  BY DEF Fact
<1>2. Versions(id) = schemas[id]
  BY DEF Versions
<1>3. schemas[id] # << >>
  BY LastVersion DEF IInv, SchemasOk
<1>4. Conforms(Last(schemas[id]).columns, row)
  BY <1>1, <1>2, <1>3 DEF Conforming
<1> QED
  BY <1>4, RowIsSound

(* No stored view has taken the name of the cursors' relation. *)
CopiesApart == \A s \in DOMAIN Sources : Cursor \notin Copies(Sources[s])

(* A stored view's cursor conforms to the cursors' columns (Materialized:: *)
(* install).                                                               *)
LEMMA CursorConforms ==
  ASSUME NEW p, Parsed(p), Cursor \notin Copies(p), NEW id \in 0 .. EntMax
  PROVE  Conforms(Columns(p, Cursor), <<Ent(id), Num(0)>>)
<1>1. Cursor # Marker
  BY PackagesAssumption
<1>2. ~ Declares(p, Cursor)
  BY NamesAre
<1>3. CopiesNamed(p, Cursor) = {}
  BY DEF CopiesNamed, Copies
<1>4. Columns(p, Cursor) = PositionColumns
  BY <1>1, <1>2, <1>3 DEF Columns
<1>5. id \in Int /\ id < 100
  BY ValuesAssumption
<1>6. AdmitsValue("Ent", Ent(id)) /\ AdmitsValue("Int", Num(0))
  <2>1. KindOf(Ent(id)) = "Ent"
    BY <1>5 DEF KindOf, Ent
  <2>2. Num(0) = 150
    BY DEF Num
  <2>3. KindOf(150) = "Int"
    BY DEF KindOf
  <2> QED BY <2>1, <2>2, <2>3 DEF AdmitsValue
<1> QED
  BY <1>4, <1>6 DEF Conforms, PositionColumns

(* A load that has put its schemas. *)
LEMMA FiledLoad ==
  ASSUME IInv, NEW l, LoadOk(l, catalog, schemas, edition), l.stage \in {"install", "views", "installed"}
  PROVE  /\ Shaped(l) /\ l.source \in DOMAIN Sources /\ l.base \in Nat /\ l.due = {} /\ IsSeq(l.rest)
         /\ Parsed(Source(l))
         /\ Range(AllNames(l)) \subseteq DOMAIN catalog
         /\ \A n \in Range(AllNames(l)) : Filed(schemas, catalog[n], Columns(Source(l), n))
         /\ IsPackage(l) => /\ HeaderOk(Source(l)) /\ ShapesOk(Source(l))
                            /\ BootstrapOk(Source(l)) /\ ActorsOk(Source(l))
<1>1. Late(l) /\ l.stage # "schemas" /\ l.stage # "parsed" /\ Owed(l) = {}
  BY DEF Late, Owed
<1>2. l.due = {} /\ \A n \in Range(AllNames(l)) \ l.due : Filed(schemas, catalog[n], Columns(Source(l), n))
  BY <1>1 DEF LoadOk
<1>3. \A n \in Range(AllNames(l)) : Filed(schemas, catalog[n], Columns(Source(l), n))
  BY <1>2
<1>4. Parsed(Source(l))
  BY PackagesAssumption DEF LoadOk, Source
<1> QED
  BY <1>1, <1>2, <1>3, <1>4 DEF LoadOk

(* A stored view's cursor conforms to the schema its load has put. *)
LEMMA CursorRowIsSound ==
  ASSUME CopiesApart, IInv, NEW l, LoadOk(l, catalog, schemas, edition),
         l.stage \in {"install", "views", "installed"},
         NEW v, v.copy \in Copies(Source(l)), NEW f, f = CursorRow(v)
  PROVE  FactOk(f, schemas, edition + 1)
<1>1. PICK p : p = Source(l)
  OBVIOUS
<1>2. /\ Parsed(p) /\ l.source \in DOMAIN Sources /\ Range(AllNames(l)) \subseteq DOMAIN catalog
      /\ \A n \in Range(AllNames(l)) : Filed(schemas, catalog[n], Columns(p, n))
  BY <1>1, FiledLoad
<1>3. Cursor \notin Copies(p)
  BY <1>1, <1>2 DEF CopiesApart, Source
<1>4. Cursor \in Range(AllNames(l)) /\ v.copy \in Range(AllNames(l))
  <2>1. Range(Materialized(p)) # {}
    BY <1>1 DEF Copies
  <2>2. Copies(p) \subseteq Range(CopyNames(p)) /\ Cursor \in Range(CopyNames(p))
    BY <1>2, <2>1, CopyNamesAre
  <2>3. Range(CopyNames(p)) \subseteq Range(AllNames(l))
    BY <1>1, <1>2, AllNamesAre
  <2> QED BY <1>1, <2>2, <2>3
<1>5. PICK id : id = catalog[v.copy]
  OBVIOUS
<1>6. id \in 0 .. EntMax
  BY <1>2, <1>4, <1>5 DEF IInv, IdsOk
<1>7. PICK row : row = <<Ent(id), Num(0)>>
  OBVIOUS
<1>8. Conforms(Columns(p, Cursor), row)
  BY <1>2, <1>3, <1>6, <1>7, CursorConforms
<1>9. PICK rel : rel = catalog[Cursor]
  OBVIOUS
<1>10. rel \in DOMAIN schemas /\ Last(schemas[rel]).columns = Columns(p, Cursor)
  BY <1>2, <1>4, <1>9 DEF Filed
<1>11. f = Fact(rel, row)
  BY <1>5, <1>7, <1>9 DEF CursorRow
<1>12. Conforms(Last(schemas[rel]).columns, row)
  BY <1>8, <1>10
<1> QED
  BY <1>10, <1>11, <1>12, RowIsSound

(* compile_bootstrap: a seeded row conforms to the schema its load has put. *)
LEMMA SeedIsSound ==
  ASSUME IInv, NEW l, LoadOk(l, catalog, schemas, edition), l.stage = "install",
         NEW x \in Seeds(Source(l)), NEW f, f = Fact(catalog[x[1]], x[2])
  PROVE  FactOk(f, schemas, edition + 1)
<1>1. PICK p : p = Source(l)
  OBVIOUS
<1>2. /\ Parsed(p) /\ \A n \in Range(AllNames(l)) : Filed(schemas, catalog[n], Columns(p, n))
      /\ BootstrapOk(p)
  BY <1>1, FiledLoad DEF LoadOk
<1>3. PICK seed \in Range(p.bootstrap[1]) : x = <<seed[1], Row(p, seed)>>
  BY <1>1 DEF Seeds
<1>4. PICK name : name = seed[1]
  OBVIOUS
<1>5. PICK row : row = Row(p, seed)
  OBVIOUS
<1>6. x[1] = name /\ x[2] = row
  BY <1>3, <1>4, <1>5
<1>7. Declares(p, name) /\ Conforms(ValueAt(p.rels, name), row)
  BY <1>2, <1>4, <1>5 DEF BootstrapOk
<1>8. name \in Range(AllNames(l)) /\ Columns(p, name) = ValueAt(p.rels, name)
  BY <1>1, <1>2, <1>7, NamesAre, AllNamesAre, ColumnsAre
<1>9. PICK id : id = catalog[name]
  OBVIOUS
<1>10. id \in DOMAIN schemas /\ Last(schemas[id]).columns = Columns(p, name)
  BY <1>2, <1>8, <1>9 DEF Filed
<1>11. f = Fact(id, row)
  BY <1>6, <1>9
<1>12. Conforms(Last(schemas[id]).columns, row)
  BY <1>7, <1>8, <1>10
<1> QED
  BY <1>10, <1>11, <1>12, RowIsSound

(* marker_tuple: the marker conforms to its relation's columns. *)
LEMMA MarkerRowIsSound ==
  ASSUME IInv, NEW l, LoadOk(l, catalog, schemas, edition), l.stage = "install",
         NEW f, f = Fact(catalog[Marker], MarkerRow(Source(l)))
  PROVE  FactOk(f, schemas, edition + 1)
<1>1. PICK p : p = Source(l)
  OBVIOUS
<1>2. /\ Parsed(p) /\ \A n \in Range(AllNames(l)) : Filed(schemas, catalog[n], Columns(p, n))
      /\ IsPackage(l) /\ HeaderOk(p)
  BY <1>1, FiledLoad DEF LoadOk
<1>3. PICK a, b, c : a = p.package[1].id /\ b = Num(p.package[1].version) /\ c = Digest(p)
  OBVIOUS
<1>4. PICK row : row = <<a, b, c>>
  OBVIOUS
<1>5. row = MarkerRow(p)
  BY <1>3, <1>4 DEF MarkerRow
<1>6. AdmitsValue("Text", a) /\ AdmitsValue("Int", b)
  <2>1. DOMAIN p.package = 1 .. Len(p.package)
    BY <1>2, ListedIsSeq DEF Parsed
  <2>2. 1 \in DOMAIN p.package
    BY <1>2, <2>1 DEF HeaderOk
  <2> QED BY <1>2, <1>3, <2>2 DEF Parsed
<1>7. AdmitsValue("Any", c)
  BY DEF AdmitsValue
<1>8. Conforms(MarkerColumns, row)
  <2>1. Len(row) = 3 /\ DOMAIN row = 1 .. 3 /\ row[1] = a /\ row[2] = b /\ row[3] = c
    BY <1>4
  <2>2. Len(MarkerColumns) = 3 /\ MarkerColumns[1] = "Text" /\ MarkerColumns[2] = "Int" /\ MarkerColumns[3] = "Any"
    BY DEF MarkerColumns
  <2> QED BY <1>6, <1>7, <2>1, <2>2 DEF Conforms
<1>9. Columns(p, Marker) = MarkerColumns
  BY DEF Columns
<1>10. Marker \in Range(AllNames(l))
  BY <1>1, <1>2, AllNamesAre DEF MarkerNames
<1>11. PICK id : id = catalog[Marker]
  OBVIOUS
<1>12. id \in DOMAIN schemas /\ Conforms(Last(schemas[id]).columns, row)
  BY <1>2, <1>8, <1>9, <1>10, <1>11 DEF Filed
<1>13. f = Fact(id, row)
  BY <1>1, <1>5, <1>11
<1> QED
  BY <1>12, <1>13, RowIsSound

(* A package that is installed. *)
LEMMA InstalledLoad ==
  ASSUME NEW l, NEW c, NEW s, NEW e, LoadOk(l, c, s, e), l.stage = "install",
         NEW k, k = [l EXCEPT !.stage = "installed"], NEW d
  PROVE  LoadOk(k, c, s, d)
<1>1. Shaped(l) /\ Late(l) /\ Owed(l) = {} /\ l.stage # "schemas" /\ l.stage # "parsed"
  BY DEF LoadOk, Late, Owed
<1>2. Alike(l, k) /\ k.stage = "installed" /\ k.rest = l.rest /\ k.due = l.due
  BY <1>1 DEF Alike, Shaped
<1>3. /\ Shaped(k) /\ k.source = l.source /\ k.base = l.base /\ Source(k) = Source(l)
      /\ (IsPackage(k) <=> IsPackage(l)) /\ AllNames(k) = AllNames(l) /\ Owed(k) = {} /\ Late(k)
      /\ k.stage \in Stages
  BY <1>2, AlikeNames DEF Alike, Late, Owed, Stages
<1> QED
  BY <1>1, <1>2, <1>3 DEF LoadOk

(* The bootstrap, the marker and the cursors are rows of schemas put before. *)
LEMMA InstallIsSound ==
  ASSUME CopiesApart, IInv, Install
  PROVE  IInv'
<1>1. PICK l : load = <<l>> /\ LoadOk(l, catalog, schemas, edition)
  BY DEF IInv, Install, Installing
<1>2. load[1] = l
  BY <1>1
<1>3. PICK p : p = Source(l)
  OBVIOUS
<1>4. PICK rows : rows = Installation(p)
  OBVIOUS
<1>5. PICK k : k = Next1(l)
  OBVIOUS
<1>6. /\ l.stage = "install" /\ facts' = (facts \ {}) \cup rows /\ edition' = edition + 1
      /\ load' = <<k>> /\ UNCHANGED <<catalog, schemas, open>>
  BY <1>2, <1>3, <1>4, <1>5 DEF Install, Installing, Commit
<1>7. ASSUME NEW f \in rows PROVE FactOk(f, schemas, edition + 1)
  <2>1. \/ \E x \in Seeds(p) : f = Fact(catalog[x[1]], x[2])
        \/ f = Fact(catalog[Marker], MarkerRow(p))
        \/ \E v \in Range(Materialized(p)) : f = CursorRow(v)
    BY <1>4 DEF Installation
  <2>2. CASE \E x \in Seeds(p) : f = Fact(catalog[x[1]], x[2])
    BY <1>1, <1>3, <1>6, <2>2, SeedIsSound
  <2>3. CASE f = Fact(catalog[Marker], MarkerRow(p))
    BY <1>1, <1>3, <1>6, <2>3, MarkerRowIsSound
  <2>4. CASE \E v \in Range(Materialized(p)) : f = CursorRow(v)
    <3>1. PICK v \in Range(Materialized(p)) : f = CursorRow(v)
      BY <2>4
    <3>2. v.copy \in Copies(p)
      BY DEF Copies
    <3> QED BY <1>1, <1>3, <1>6, <3>1, <3>2, CursorRowIsSound
  <2> QED BY <2>1, <2>2, <2>3, <2>4
<1>8. LoadOk(k, catalog, schemas, edition + 1)
  <2>1. k = [l EXCEPT !.stage = "installed"]
    BY <1>5, <1>6 DEF Next1
  <2>2. PICK s, c, e : s = schemas /\ c = catalog /\ e = edition
    OBVIOUS
  <2>3. LoadOk(l, c, s, e)
    BY <1>1, <2>2
  <2>4. LoadOk(k, c, s, e + 1)
    BY <1>6, <2>1, <2>3, InstalledLoad
  <2> QED BY <2>2, <2>4
<1> QED
  BY <1>6, <1>7, <1>8, CommitIsSound

(* Opening a package again commits nothing. *)
LEMMA ReopenIsSound ==
  ASSUME IInv, Reopen
  PROVE  IInv'
<1>1. PICK l : load = <<l>> /\ LoadOk(l, catalog, schemas, edition)
  BY DEF IInv, Reopen, Installing
<1>2. load[1] = l
  BY <1>1
<1>3. PICK k : k = Next1(l)
  OBVIOUS
<1>4. l.stage = "install" /\ load' = <<k>> /\ UNCHANGED <<catalog, schemas, facts, edition, open>>
  BY <1>2, <1>3 DEF Reopen, Installing, store
<1>5. LoadOk(k, catalog, schemas, edition)
  <2>1. k = [l EXCEPT !.stage = "installed"]
    BY <1>3, <1>4 DEF Next1
  <2>2. PICK s, c, e : s = schemas /\ c = catalog /\ e = edition
    OBVIOUS
  <2>3. LoadOk(l, c, s, e)
    BY <1>1, <2>2
  <2>4. LoadOk(k, c, s, e)
    BY <1>4, <2>1, <2>3, InstalledLoad
  <2> QED BY <2>2, <2>4
<1> QED
  BY <1>4, <1>5 DEF IInv

(* Without a package a stored view's cursor comes alone, or is there. *)
LEMMA InstallViewIsSound ==
  ASSUME CopiesApart, IInv, InstallView
  PROVE  IInv'
<1>1. PICK l : load = <<l>> /\ LoadOk(l, catalog, schemas, edition)
  BY DEF IInv, InstallView
<1>2. load[1] = l
  BY <1>1
<1>3. PICK p : p = Source(l)
  OBVIOUS
<1>4. PICK v : v = CHOOSE w \in Range(p.views) : w.copy = Head(l.rest)
  OBVIOUS
<1>5. PICK k : k = [l EXCEPT !.rest = Tail(@)]
  OBVIOUS
<1>6. /\ l.stage = "views" /\ l.rest # << >> /\ load' = <<k>> /\ UNCHANGED <<catalog, schemas, open>>
      /\ UNCHANGED <<facts, edition>> \/ Commit({}, {CursorRow(v)})
  BY <1>2, <1>3, <1>4, <1>5 DEF InstallView
<1>7. /\ Parsed(p) /\ Shaped(l) /\ IsSeq(l.rest) /\ Range(l.rest) \subseteq Copies(p)
      /\ Late(l) /\ Owed(l) = {}
  BY <1>1, <1>3, <1>6, FiledLoad DEF LoadOk, Late, Owed
<1>8. IsSeq(Tail(l.rest)) /\ Head(l.rest) \in Copies(p) /\ Range(Tail(l.rest)) \subseteq Copies(p)
  BY <1>6, <1>7, TailIs
<1>9. v.copy = Head(l.rest)
  <2>1. PICK w \in Range(Materialized(p)) : w.copy = Head(l.rest)
    BY <1>8 DEF Copies
  <2>2. w \in Range(p.views)
    BY <1>7, StoredViews
  <2> QED BY <1>4, <2>1, <2>2
<1>10. Alike(l, k) /\ k.stage = "views" /\ k.rest = Tail(l.rest) /\ k.due = l.due
  BY <1>5, <1>6, <1>7 DEF Alike, Shaped
<1>11. ASSUME NEW e PROVE LoadOk(k, catalog, schemas, e)
  <2>1. /\ Shaped(k) /\ k.source = l.source /\ k.base = l.base /\ Source(k) = Source(l)
        /\ (IsPackage(k) <=> IsPackage(l)) /\ AllNames(k) = AllNames(l) /\ Owed(k) = {} /\ Late(k)
    BY <1>10, AlikeNames DEF Alike, Late, Owed
  <2> QED BY <1>1, <1>3, <1>6, <1>7, <1>8, <1>10, <2>1 DEF LoadOk
<1>12. CASE UNCHANGED <<facts, edition>>
  <2>1. LoadOk(k, catalog, schemas, edition)
    BY <1>11
  <2> QED BY <1>6, <1>12, <2>1 DEF IInv
<1>13. CASE Commit({}, {CursorRow(v)})
  <2>1. PICK rows : rows = {CursorRow(v)}
    OBVIOUS
  <2>2. facts' = (facts \ {}) \cup rows /\ edition' = edition + 1
    BY <1>13, <2>1 DEF Commit
  <2>3. ASSUME NEW f \in rows PROVE FactOk(f, schemas, edition + 1)
    <3>1. f = CursorRow(v) /\ v.copy \in Copies(Source(l))
      BY <1>3, <1>8, <1>9, <2>1
    <3> QED BY <1>1, <1>6, <3>1, CursorRowIsSound
  <2>4. LoadOk(k, catalog, schemas, edition + 1)
    BY <1>11
  <2> QED BY <1>6, <2>2, <2>3, <2>4, CommitIsSound
<1> QED
  BY <1>6, <1>12, <1>13

(* A runtime that opens has the ids and the schemas its load has put. *)
LEMMA OpenedIsSound ==
  ASSUME IInv, Opened
  PROVE  IInv'
<1>1. PICK l : load = <<l>> /\ LoadOk(l, catalog, schemas, edition)
  BY DEF IInv, Opened
<1>2. load[1] = l
  BY <1>1
<1>3. PICK ids : ids = [n \in Range(AllNames(l)) |-> catalog[n]]
  OBVIOUS
<1>4. PICK new : new = [source |-> l.source, how |-> l.how, ids |-> ids]
  OBVIOUS
<1>5. /\ l.stage = "installed" /\ open' = open \cup {new} /\ load' = << >>
      /\ UNCHANGED <<catalog, schemas, facts, edition>>
  BY <1>2, <1>3, <1>4 DEF Opened, store
<1>6. /\ l.source \in DOMAIN Sources /\ Parsed(Source(l)) /\ Range(AllNames(l)) \subseteq DOMAIN catalog
      /\ \A n \in Range(AllNames(l)) : Filed(schemas, catalog[n], Columns(Source(l), n))
      /\ IsPackage(l) => ShapesOk(Source(l)) /\ ActorsOk(Source(l))
  BY <1>1, <1>5, FiledLoad
<1>7. new.source = l.source /\ new.how = l.how /\ new.ids = ids
  BY <1>4
<1>8. /\ Program(new) = Source(l) /\ (IsPackage(new) <=> IsPackage(l)) /\ AllNames(new) = AllNames(l)
  BY <1>7 DEF Program, Source, IsPackage, AllNames
<1>9. ASSUME NEW n \in DOMAIN new.ids
      PROVE  n \in DOMAIN catalog /\ catalog[n] = new.ids[n] /\ Begins(schemas, new.ids[n], Columns(Program(new), n))
  <2>1. n \in Range(AllNames(l)) /\ n \in DOMAIN catalog /\ new.ids[n] = catalog[n]
    BY <1>3, <1>6, <1>7
  <2>2. Columns(Source(l), n) \in Seq(ColumnTypes)
    BY <1>6, ColumnsAre
  <2>3. Filed(schemas, catalog[n], Columns(Source(l), n))
    BY <1>6, <2>1
  <2> QED BY <1>8, <2>1, <2>2, <2>3, PrefixOfItself DEF Filed, Begins
<1>10. OpenOk(new, catalog, schemas)
  BY <1>3, <1>6, <1>7, <1>8, <1>9 DEF OpenOk
<1> QED
  BY <1>5, <1>10 DEF IInv

(* A play commits rows of relations that have a schema. *)
LEMMA PlayIsSound ==
  ASSUME IInv, NEW gone, NEW rows, Plays(gone, rows),
         \A f \in rows : \E id, row : id \in DOMAIN schemas /\ f = Fact(id, row)
  PROVE  IInv'
<1>1. /\ load' = << >> /\ facts' = (facts \ gone) \cup rows /\ edition' = edition + 1
      /\ UNCHANGED <<catalog, schemas, open>> /\ Conforming(gone \cup rows)
  BY DEF Plays, Commit
<1>2. ASSUME NEW f \in rows PROVE FactOk(f, schemas, edition + 1)
  <2>1. PICK id, row : id \in DOMAIN schemas /\ f = Fact(id, row)
    OBVIOUS
  <2>2. Conforming(rows)
    BY <1>1 DEF Conforming
  <2> QED BY <2>1, <2>2, PlayedRowIsSound
<1> QED
  BY <1>1, <1>2, CommitIsSound

(* An open runtime's relations have schemas. *)
LEMMA OpenIds ==
  ASSUME IInv, NEW r \in open
  PROVE  /\ \A n \in DOMAIN r.ids : r.ids[n] \in DOMAIN schemas
         /\ \A n : Declares(Program(r), n) => r.ids[n] \in DOMAIN schemas
<1>1. OpenOk(r, catalog, schemas)
  BY DEF IInv
<1>2. \A n \in DOMAIN r.ids : r.ids[n] \in DOMAIN schemas
  BY <1>1 DEF OpenOk, Begins
<1>3. Parsed(Source(r)) /\ Source(r) = Program(r) /\ DOMAIN r.ids = Range(AllNames(r))
  BY <1>1, PackagesAssumption DEF OpenOk, Source, Program
<1>4. \A n : Declares(Program(r), n) => n \in DOMAIN r.ids
  BY <1>3, NamesAre, AllNamesAre
<1> QED
  BY <1>2, <1>4

(* A capability's counter is a declared relation (validate_requirements). *)
LEMMA AllocateIsSound ==
  ASSUME IInv, NEW r \in open, Allocate(r)
  PROVE  IInv'
<1>1. PICK i \in Required(Program(r), "allocate") :
        \E c \in RowsAt(r.ids[Program(r).requires[i].counter]) :
          Plays({c}, {Fact(r.ids[Program(r).requires[i].counter], <<Num(IntOf(c.row[1]) + 1)>>)})
  BY DEF Allocate
<1>2. PICK q : q = Program(r).requires[i]
  OBVIOUS
<1>3. PICK id : id = r.ids[q.counter]
  OBVIOUS
<1>4. PICK c : Plays({c}, {Fact(id, <<Num(IntOf(c.row[1]) + 1)>>)})
  BY <1>1, <1>2, <1>3
<1>5. id \in DOMAIN schemas
  <2>1. IsPackage(r) /\ ShapesOk(Program(r))
    BY DEF Allocate, IInv, OpenOk
  <2>2. i \in DOMAIN Program(r).requires /\ q.kind = "allocate"
    BY <1>2 DEF Required
  <2>3. ShapeOk(Program(r), q)
    BY <1>2, <2>1, <2>2 DEF ShapesOk
  <2>4. HasColumns(Program(r), q.counter, <<"Int">>)
    BY <2>2, <2>3 DEF ShapeOk
  <2>5. Declares(Program(r), q.counter)
    BY <2>4 DEF HasColumns
  <2> QED BY <1>3, <2>5, OpenIds
<1>6. PICK row : row = <<Num(IntOf(c.row[1]) + 1)>>
  OBVIOUS
<1>7. PICK gone, rows : gone = {c} /\ rows = {Fact(id, row)}
  OBVIOUS
<1>8. Plays(gone, rows)
  BY <1>4, <1>6, <1>7 DEF Plays, Commit
<1>9. \A f \in rows : \E k, t : k \in DOMAIN schemas /\ f = Fact(k, t)
  BY <1>5, <1>7
<1> QED
  BY <1>8, <1>9, PlayIsSound

(* An actor's inbox and cursor are declared relations (compile_actors). *)
LEMMA ActorRelations ==
  ASSUME IInv, NEW r \in open, IsPackage(r), NEW a \in Range(Program(r).actors)
  PROVE  r.ids[a.inbox] \in DOMAIN schemas /\ r.ids[a.cursor] \in DOMAIN schemas
<1>1. ActorsOk(Program(r))
  BY DEF IInv, OpenOk
<1>2. ActorOk(Program(r), a)
  BY <1>1 DEF ActorsOk, Range
<1>3. HasColumns(Program(r), a.inbox, InboxColumns) /\ HasColumns(Program(r), a.cursor, PositionColumns)
  BY <1>2 DEF ActorOk
<1>4. Declares(Program(r), a.inbox) /\ Declares(Program(r), a.cursor)
  BY <1>3 DEF HasColumns
<1> QED
  BY <1>4, OpenIds

(* A delivery writes the counter it took and the actor's inbox. *)
LEMMA DeliverIsSound ==
  ASSUME IInv, NEW r \in open, Deliver(r)
  PROVE  IInv'
<1>1. PICK a \in Range(Program(r).actors), sequences \in SequenceRelations(Program(r)) :
        \E c \in RowsFor(r.ids[sequences], EntityOf(r, a)) :
          Plays({c}, {Fact(c.rel, <<Ent(EntityOf(r, a)), Num(NumberAt(c) + 1)>>),
                      Fact(r.ids[a.inbox], <<Ent(EntityOf(r, a)), Num(NumberAt(c)), Text(1)>>)})
  BY DEF Deliver
<1>2. PICK c \in RowsFor(r.ids[sequences], EntityOf(r, a)) :
        Plays({c}, {Fact(c.rel, <<Ent(EntityOf(r, a)), Num(NumberAt(c) + 1)>>),
                    Fact(r.ids[a.inbox], <<Ent(EntityOf(r, a)), Num(NumberAt(c)), Text(1)>>)})
  BY <1>1
<1>3. PICK row, mail : /\ row = <<Ent(EntityOf(r, a)), Num(NumberAt(c) + 1)>>
                       /\ mail = <<Ent(EntityOf(r, a)), Num(NumberAt(c)), Text(1)>>
  OBVIOUS
<1>4. PICK gone, rows : gone = {c} /\ rows = {Fact(c.rel, row), Fact(r.ids[a.inbox], mail)}
  OBVIOUS
<1>5. Plays(gone, rows)
  BY <1>2, <1>3, <1>4 DEF Plays, Commit
<1>6. c.rel \in DOMAIN schemas
  BY <1>2 DEF RowsFor, RowsAt, IInv, FactOk
<1>7. r.ids[a.inbox] \in DOMAIN schemas
  BY ActorRelations DEF Deliver, IsPackage
<1>8. \A f \in rows : \E k, t : k \in DOMAIN schemas /\ f = Fact(k, t)
  BY <1>4, <1>6, <1>7
<1> QED
  BY <1>5, <1>8, PlayIsSound

(* Attending a message writes the actor's cursor. *)
LEMMA AttendIsSound ==
  ASSUME IInv, NEW r \in open, Attend(r)
  PROVE  IInv'
<1>1. PICK a \in Range(Program(r).actors) :
        Plays(RowsFor(r.ids[a.cursor], EntityOf(r, a)),
              {Fact(r.ids[a.cursor], <<Ent(EntityOf(r, a)), Num(Position(r, a, EntityOf(r, a)) + 1)>>)})
  BY DEF Attend
<1>2. PICK row : row = <<Ent(EntityOf(r, a)), Num(Position(r, a, EntityOf(r, a)) + 1)>>
  OBVIOUS
<1>3. PICK gone, rows : gone = RowsFor(r.ids[a.cursor], EntityOf(r, a)) /\ rows = {Fact(r.ids[a.cursor], row)}
  OBVIOUS
<1>4. Plays(gone, rows)
  BY <1>1, <1>2, <1>3 DEF Plays, Commit
<1>5. r.ids[a.cursor] \in DOMAIN schemas
  BY ActorRelations DEF Attend, IsPackage
<1>6. \A f \in rows : \E k, t : k \in DOMAIN schemas /\ f = Fact(k, t)
  BY <1>3, <1>5
<1> QED
  BY <1>4, <1>6, PlayIsSound

(* Any other write is to a relation the program was compiled with. *)
LEMMA WriteIsSound ==
  ASSUME IInv, NEW r \in open, Write(r)
  PROVE  IInv'
<1>1. PICK w \in Program(r).writes : w[1] \in DOMAIN r.ids /\ Plays({}, {Fact(r.ids[w[1]], w[2])})
  BY DEF Write
<1>2. PICK gone, rows : gone = {} /\ rows = {Fact(r.ids[w[1]], w[2])}
  OBVIOUS
<1>3. Plays(gone, rows)
  BY <1>1, <1>2 DEF Plays, Commit
<1>4. r.ids[w[1]] \in DOMAIN schemas
  BY <1>1, OpenIds
<1>5. \A f \in rows : \E k, t : k \in DOMAIN schemas /\ f = Fact(k, t)
  BY <1>2, <1>4
<1> QED
  BY <1>3, <1>5, PlayIsSound

(* Every step keeps the invariant. *)
LEMMA StepIsSound ==
  ASSUME CopiesApart, IInv, [Next]_vars
  PROVE  IInv'
<1>1. CASE UNCHANGED vars
  BY <1>1 DEF vars, IInv
<1>2. CASE Start
  BY <1>2, StartIsSound
<1>3. CASE Advance
  BY <1>3, AdvanceIsSound
<1>4. CASE CheckFails \/ DeclaredTwice \/ SchemaRefused \/ InstallRefused
  <2>1. Refuse
    BY <1>4 DEF CheckFails, DeclaredTwice, SchemaRefused, InstallRefused
  <2> QED BY <2>1, RefusalIsSound
<1>5. CASE Bind
  BY <1>5, BindIsSound
<1>6. CASE PutSchema
  BY <1>6, PutSchemaIsSound
<1>7. CASE Install
  BY <1>7, InstallIsSound
<1>8. CASE Reopen
  BY <1>8, ReopenIsSound
<1>9. CASE InstallView
  BY <1>9, InstallViewIsSound
<1>10. CASE Opened
  BY <1>10, OpenedIsSound
<1>11. CASE Crash
  BY <1>11, CrashIsSound
<1>12. CASE \E r \in open : Allocate(r) \/ Deliver(r) \/ Attend(r) \/ Write(r)
  BY <1>12, AllocateIsSound, DeliverIsSound, AttendIsSound, WriteIsSound
<1> QED
  BY <1>1, <1>2, <1>3, <1>4, <1>5, <1>6, <1>7, <1>8, <1>9, <1>10, <1>11, <1>12 DEF Next

(* Names and schemas stand through every load, refusal, crash and commit, if *)
(* no source has a stored view whose copy is called as the cursors'        *)
(* relation is (compile_with_catalog; SchemaCatalog; view_rel_name).       *)
THEOREM NamesAndSchemasAlwaysStand ==
  CopiesApart => (Spec => []NamesAndSchemasStand)
<1> SUFFICES ASSUME CopiesApart PROVE Spec => []NamesAndSchemasStand
  OBVIOUS
<1>1. Init => IInv
  BY InitIsSound
<1>2. IInv /\ [Next]_vars => IInv'
  BY StepIsSound
<1>3. IInv => NamesAndSchemasStand
  BY InvariantIsEnough
<1> QED
  BY <1>1, <1>2, <1>3, PTL DEF Spec
=============================================================================
