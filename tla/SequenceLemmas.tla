--------------------------- MODULE SequenceLemmas ---------------------------
(***************************************************************************)
(* Lemmas about sequences and natural numbers that the proofs of several   *)
(* parts need.  The induction theorems of the library take an operator; a  *)
(* set of naturals without a least element does instead.                   *)
(***************************************************************************)
EXTENDS Filter, FiniteSetTheorems, TLAPS

\* A set of natural numbers that is not empty has a least element.
LEMMA LeastNatural ==
  ASSUME NEW T \in SUBSET Nat, T # {}
  PROVE  \E x \in T : \A y \in T : x <= y
  <1>1. \E x \in T : \A y \in T : ~(<<y, x>> \in OpToRel(<, Nat))
    BY WFMin, NatLessThanWellFounded
  <1>2. \A x \in T, y \in T : <<y, x>> \in OpToRel(<, Nat) <=> y < x
    BY DEF OpToRel
  <1>3. \E x \in T : \A y \in T : ~(y < x)
    BY <1>1, <1>2, Zenon
  <1> QED
    BY <1>3

\* Induction on the natural numbers, for the members of a set.
LEMMA SetInduction ==
  ASSUME NEW G, 0 \in G, \A n \in Nat : n \in G => n + 1 \in G
  PROVE  Nat \subseteq G
  <1> SUFFICES ASSUME Nat \ G # {} PROVE FALSE
    OBVIOUS
  <1>1. PICK x \in Nat \ G : \A y \in Nat \ G : x <= y
    BY LeastNatural
  <1>2. x - 1 \in Nat /\ x - 1 \notin Nat \ G
    BY <1>1
  <1> QED
    BY <1>1, <1>2

\* A function on 1 .. n is a sequence of length n.
LEMMA FunctionIsSequence ==
  ASSUME NEW S, NEW n \in Nat, NEW f \in [1 .. n -> S]
  PROVE  f \in Seq(S) /\ Len(f) = n /\ DOMAIN f = 1 .. n
  OBVIOUS

-----------------------------------------------------------------------------
\* Ranks number the positions that stay, in their order.
LEMMA RankProperties ==
  ASSUME NEW n \in Nat, NEW K \in SUBSET (1 .. n)
  PROVE  /\ IsFiniteSet(K) /\ Cardinality(K) \in Nat /\ Cardinality(K) <= n
         /\ \A i \in K : Rank(i, K) \in 1 .. Cardinality(K)
         /\ \A i, k \in K : i < k => Rank(i, K) < Rank(k, K)
         /\ \A r \in 1 .. Cardinality(K) : \E i \in K : Rank(i, K) = r
  <1> DEFINE Below(i) == {j \in K : j <= i}
             rank == [i \in K |-> Rank(i, K)]
  <1>1. IsFiniteSet(1 .. n) /\ Cardinality(1 .. n) = n
    BY FS_Interval
  <1>2. IsFiniteSet(K) /\ Cardinality(K) <= n
    BY <1>1, FS_Subset
  <1>3. Cardinality(K) \in Nat
    BY <1>2, FS_CardinalityType
  <1>4. \A i \in K : IsFiniteSet(Below(i)) /\ Cardinality(Below(i)) <= Cardinality(K)
    BY <1>2, FS_Subset
  <1>5. \A i \in K : Cardinality(Below(i)) \in Nat /\ Cardinality(Below(i)) # 0
    <2> TAKE i \in K
    <2>1. i \in Below(i)
      OBVIOUS
    <2> QED
      BY <2>1, <1>4, FS_CardinalityType, FS_EmptySet
  <1>6. \A i \in K : rank[i] \in 1 .. Cardinality(K)
    BY <1>3, <1>4, <1>5 DEF Rank
  <1>7. \A i, k \in K : i < k => rank[i] < rank[k]
    <2> SUFFICES ASSUME NEW i \in K, NEW k \in K, i < k PROVE rank[i] < rank[k]
      OBVIOUS
    <2>1. Below(i) \in SUBSET Below(k)
      <3>1. \A j \in K : j \in Nat
        OBVIOUS
      <3>2. \A j \in Nat : j <= i => j <= k
        BY <3>1
      <3> QED
        BY <3>1, <3>2
    <2>2. k \in Below(k) /\ k \notin Below(i)
      OBVIOUS
    <2>3. Cardinality(Below(i)) <= Cardinality(Below(k))
      BY <2>1, <1>4, FS_Subset
    <2>4. Cardinality(Below(k)) # Cardinality(Below(i))
      <3> HIDE DEF Below
      <3>1. Below(k) # Below(i)
        BY <2>2
      <3> QED
        BY <2>1, <3>1, <1>4, FS_Subset
    <2> QED
      BY <2>3, <2>4, <1>5 DEF Rank
  <1>8. rank \in Injection(K, 1 .. Cardinality(K))
    <2>1. rank \in [K -> 1 .. Cardinality(K)]
      BY <1>6
    <2>2. \A i, k \in K : rank[i] = rank[k] => i = k
      <3> SUFFICES ASSUME NEW i \in K, NEW k \in K, i # k PROVE rank[i] # rank[k]
        OBVIOUS
      <3>1. i < k \/ k < i
        OBVIOUS
      <3> HIDE DEF rank
      <3> QED
        BY <3>1, <1>6, <1>7, <1>3
    <2> HIDE DEF rank
    <2> QED
      BY <2>1, <2>2 DEF Injection, IsInjective
  <1>9. IsFiniteSet(1 .. Cardinality(K)) /\ Cardinality(1 .. Cardinality(K)) = Cardinality(K)
    BY <1>3, FS_Interval
  <1>10. \A r \in 1 .. Cardinality(K) : \E i \in K : rank[i] = r
    <2> HIDE DEF rank
    <2>1. rank \in Surjection(K, 1 .. Cardinality(K))
      BY <1>8, <1>9, FS_Injection
    <2> QED
      BY <2>1 DEF Surjection
  <1> QED
    BY <1>2, <1>3, <1>6, <1>7, <1>10

\* What a filter keeps: each element that stays has one place in the result, and the order
\* of two of them is the one they had.
LEMMA FilteredProperties ==
  ASSUME NEW S, NEW s \in Seq(S), NEW K \in SUBSET DOMAIN s
  PROVE  /\ Filtered(s, K) \in Seq(S)
         /\ Len(Filtered(s, K)) = Cardinality(K) /\ Cardinality(K) \in 0 .. Len(s)
         /\ \A i \in K : /\ Rank(i, K) \in DOMAIN Filtered(s, K)
                         /\ Filtered(s, K)[Rank(i, K)] = s[i]
         /\ \A k \in DOMAIN Filtered(s, K) : \E i \in K : Rank(i, K) = k
         /\ \A i, j \in K : i < j => Rank(i, K) < Rank(j, K)
  <1> DEFINE f == Filtered(s, K)
             At(k) == CHOOSE i \in K : Rank(i, K) = k
  <1>1. K \in SUBSET (1 .. Len(s)) /\ Len(s) \in Nat
    OBVIOUS
  <1>2. /\ Cardinality(K) \in Nat /\ Cardinality(K) <= Len(s)
        /\ \A i \in K : Rank(i, K) \in 1 .. Cardinality(K)
        /\ \A i, k \in K : i < k => Rank(i, K) < Rank(k, K)
        /\ \A r \in 1 .. Cardinality(K) : \E i \in K : Rank(i, K) = r
    BY <1>1, RankProperties
  <1>3. \A k \in 1 .. Cardinality(K) : At(k) \in K /\ Rank(At(k), K) = k
    BY <1>2
  <1>4. \A i \in K : At(Rank(i, K)) = i
    <2> TAKE i \in K
    <2> DEFINE a == At(Rank(i, K))
    <2>1. a \in K /\ Rank(a, K) = Rank(i, K)
      BY <1>2, <1>3
    <2>2. a \in Nat /\ i \in Nat
      BY <2>1, <1>1
    <2> HIDE DEF a
    <2>3. a = i
      BY <2>1, <2>2, <1>2
    <2> QED
      BY <2>3 DEF a
  <1>5. f = [k \in 1 .. Cardinality(K) |-> s[At(k)]]
    BY DEF Filtered
  <1> HIDE DEF f, At
  <1>6. \A k \in 1 .. Cardinality(K) : s[At(k)] \in S
    BY <1>1, <1>3
  <1>7. f \in Seq(S) /\ Len(f) = Cardinality(K) /\ DOMAIN f = 1 .. Cardinality(K)
    BY <1>2, <1>5, <1>6
  <1>8. \A i \in K : f[Rank(i, K)] = s[i]
    BY <1>2, <1>4, <1>5
  <1> QED
    BY <1>2, <1>7, <1>8 DEF f
=============================================================================
