-------------------------- MODULE MultisetsProofs --------------------------
(* What merging multisets does to the weight of a tuple. *)
EXTENDS Multisets, TLAPS

(* A multiset has no zero weights. *)
Proper(m) == \A t \in DOMAIN m : m[t] \in Int \ {0}

(* What a set of rows asserted once contributes to a row's weight. *)
One(b) == IF b THEN 1 ELSE 0

(* A tuple is in a multiset exactly when its weight is not zero. *)
LEMMA WeightIn ==
  ASSUME NEW m, Proper(m), NEW t
  PROVE  /\ Weight(m, t) \in Int
         /\ t \in DOMAIN m <=> Weight(m, t) # 0
         /\ t \in DOMAIN m => m[t] = Weight(m, t)
  BY DEF Weight, Proper

(* Merging adds the weights and leaves no zero behind. *)
LEMMA MergeWeight ==
  ASSUME NEW a, Proper(a), NEW b, Proper(b)
  PROVE  /\ Proper(Merge(a, b))
         /\ \A t : Weight(Merge(a, b), t) = Weight(a, t) + Weight(b, t)
<1> DEFINE S == {u \in DOMAIN a \cup DOMAIN b : Weight(a, u) + Weight(b, u) # 0}
<1>1. Merge(a, b) = [t \in S |-> Weight(a, t) + Weight(b, t)]
  BY DEF Merge, Stripped
<1>2. ASSUME NEW t PROVE Weight(a, t) \in Int /\ Weight(b, t) \in Int
  BY WeightIn
<1>3. Proper(Merge(a, b))
  BY <1>1, <1>2 DEF Proper
<1>4. ASSUME NEW t PROVE Weight(Merge(a, b), t) = Weight(a, t) + Weight(b, t)
  <2>1. CASE t \in S
    BY <1>1, <2>1 DEF Weight
  <2>2. CASE t \notin S
    <3>1. Weight(Merge(a, b), t) = 0
      <4> HIDE DEF S
      <4> QED BY <1>1, <2>2 DEF Weight
    <3>2. Weight(a, t) + Weight(b, t) = 0
      <4>1. CASE t \in DOMAIN a \cup DOMAIN b
        BY <2>2, <4>1
      <4>2. CASE t \notin DOMAIN a \cup DOMAIN b
        BY <4>2 DEF Weight
      <4> QED BY <4>1, <4>2
    <3> QED BY <3>1, <3>2
  <2> QED BY <2>1, <2>2
<1> QED
  BY <1>3, <1>4
============================================================================
