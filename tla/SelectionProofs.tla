--------------------------- MODULE SelectionProofs ---------------------------
(***************************************************************************)
(* What Retain leaves, for any sequence and any positions.                 *)
(***************************************************************************)
EXTENDS Selection, FiniteSetTheorems, TLAPS

(* A non-empty set of naturals has a least member, the principle behind    *)
(* every induction over data here.                                         *)
LEMMA LeastNumber ==
    ASSUME NEW T \in SUBSET Nat, T # {}
    PROVE  \E m \in T : \A k \in T : m <= k
<1>1. PICK m \in T : \A k \in T : ~(<<k, m>> \in OpToRel(<, Nat))
  BY NatLessThanWellFounded, WFMin
<1>2. \A k \in T : ~(k < m)
  BY <1>1 DEF OpToRel
<1> QED
  BY <1>2

Rank(A, i) == Cardinality({j \in A : j <= i})

(* Of n positions, every number up to n is the rank of exactly one.        *)
LEMMA Ranks ==
    ASSUME NEW A, IsFiniteSet(A), A \subseteq Int
    PROVE  /\ \A i \in A : Rank(A, i) \in 1..Cardinality(A)
           /\ \A i, j \in A : i < j => Rank(A, i) < Rank(A, j)
           /\ \A n \in 1..Cardinality(A) : \E i \in A : Rank(A, i) = n
<1> DEFINE Below(i) == {j \in A : j <= i}
           rank == [i \in A |-> Rank(A, i)]
<1>0. Cardinality(A) \in Nat
  BY FS_CardinalityType
<1>1. \A i \in A : IsFiniteSet(Below(i)) /\ Cardinality(Below(i)) \in Nat
                   /\ Cardinality(Below(i)) <= Cardinality(A)
  <2> SUFFICES ASSUME NEW i \in A
               PROVE  IsFiniteSet(Below(i)) /\ Cardinality(Below(i)) \in Nat
                      /\ Cardinality(Below(i)) <= Cardinality(A)
    OBVIOUS
  <2>1. Below(i) \in SUBSET A
    OBVIOUS
  <2> QED
    BY <2>1, FS_Subset, FS_CardinalityType
<1>2. \A i \in A : Cardinality(Below(i)) # 0
  BY <1>1, FS_EmptySet
<1>3. \A i \in A : Rank(A, i) \in 1..Cardinality(A)
  BY <1>0, <1>1, <1>2 DEF Rank
<1>4. ASSUME NEW i \in A, NEW j \in A, i < j PROVE Rank(A, i) < Rank(A, j)
  <2>0. i \in Int /\ j \in Int /\ \A k \in A : k \in Int
    OBVIOUS
  <2>1. /\ \A k \in A : k <= i => k <= j
        /\ j <= j /\ ~(j <= i)
    BY <1>4, <2>0
  <2>2. Below(i) \in SUBSET Below(j) /\ j \in Below(j) /\ j \notin Below(i)
    BY <2>1, Zenon
  <2>3. /\ Cardinality(Below(i)) <= Cardinality(Below(j))
        /\ Cardinality(Below(i)) # Cardinality(Below(j))
    <3> HIDE DEF Below
    <3> QED
      BY <2>2, <1>1, FS_Subset
  <2> QED
    BY <2>3, <1>1 DEF Rank
<1>5. rank \in Injection(A, 1..Cardinality(A))
  <2>1. rank \in [A -> 1..Cardinality(A)]
    BY <1>3
  <2>2. ASSUME NEW i \in A, NEW j \in A, rank[i] = rank[j] PROVE i = j
    <3>1. i \in Int /\ j \in Int /\ Rank(A, i) = Rank(A, j) /\ Rank(A, i) \in Int
      BY <2>2, <1>3
    <3> QED
      BY <3>1, <1>4
  <2> QED
    BY <2>1, <2>2 DEF Injection, IsInjective
<1>6. IsFiniteSet(1..Cardinality(A)) /\ Cardinality(1..Cardinality(A)) = Cardinality(A)
  BY <1>0, FS_Interval
<1>7. rank \in Surjection(A, 1..Cardinality(A))
  <2> HIDE DEF rank
  <2> QED
    BY <1>5, <1>6, FS_Injection
<1>8. \A n \in 1..Cardinality(A) : \E i \in A : Rank(A, i) = n
  BY <1>7 DEF Surjection
<1> QED
  BY <1>3, <1>4, <1>8

(* Retain is read off an enumeration of the positions in their order.      *)
LEMMA RetainEnumerates ==
    ASSUME NEW S, NEW s \in Seq(S), NEW I
    PROVE  \E p \in Bijection(1..Cardinality(I \cap DOMAIN s), I \cap DOMAIN s) :
              /\ Retain(s, I) = [n \in 1..Cardinality(I \cap DOMAIN s) |-> s[p[n]]]
              /\ \A m, n \in 1..Cardinality(I \cap DOMAIN s) : m < n => p[m] < p[n]
<1> DEFINE A == I \cap DOMAIN s
           p == [n \in 1..Cardinality(A) |-> CHOOSE i \in A : Rank(A, i) = n]
<1>1. DOMAIN s = 1..Len(s) /\ Len(s) \in Nat
  OBVIOUS
<1>2. IsFiniteSet(A) /\ A \subseteq Int
  <2>1. IsFiniteSet(1..Len(s))
    BY <1>1, FS_Interval
  <2>2. A \in SUBSET (1..Len(s))
    BY <1>1
  <2>3. A \subseteq Int
    BY <2>2
  <2> HIDE DEF A
  <2> QED
    BY <2>1, <2>2, <2>3, FS_Subset
<1>3. \A n \in 1..Cardinality(A) : p[n] \in A /\ Rank(A, p[n]) = n
  BY <1>2, Ranks
<1>4. Retain(s, I) = [n \in 1..Cardinality(A) |-> s[p[n]]]
  BY DEF Retain, Rank
<1> HIDE DEF p
<1>5. ASSUME NEW m \in 1..Cardinality(A), NEW n \in 1..Cardinality(A), m < n
      PROVE  p[m] < p[n]
  <2>1. /\ p[m] \in A /\ p[n] \in A /\ p[m] \in Int /\ p[n] \in Int
        /\ Rank(A, p[m]) = m /\ Rank(A, p[n]) = n
    BY <1>3, <1>2
  <2>2. ~(p[n] < p[m]) /\ p[n] # p[m]
    BY <2>1, <1>2, <1>5, Ranks
  <2> QED
    BY <2>1, <2>2
<1>6. p \in Bijection(1..Cardinality(A), A)
  <2>1. p \in [1..Cardinality(A) -> A]
    BY <1>3 DEF p
  <2>2. \A m, n \in 1..Cardinality(A) : p[m] = p[n] => m = n
    BY <1>3
  <2>3. \A i \in A : \E n \in 1..Cardinality(A) : p[n] = i
    <3> SUFFICES ASSUME NEW i \in A PROVE \E n \in 1..Cardinality(A) : p[n] = i
      OBVIOUS
    <3>1. Rank(A, i) \in 1..Cardinality(A)
      BY <1>2, Ranks
    <3>2. p[Rank(A, i)] \in A /\ Rank(A, p[Rank(A, i)]) = Rank(A, i)
      BY <1>3, <3>1
    <3>3. p[Rank(A, i)] \in Int /\ i \in Int /\ Rank(A, i) \in Int
      BY <3>2, <1>2, <3>1
    <3>4. ~(p[Rank(A, i)] < i) /\ ~(i < p[Rank(A, i)])
      BY <3>2, <3>3, <1>2, Ranks
    <3> QED
      BY <3>1, <3>3, <3>4
  <2> QED
    BY <2>1, <2>2, <2>3 DEF Bijection, Injection, Surjection, IsInjective
<1> QED
  BY <1>4, <1>5, <1>6

(* What is left is a sequence of exactly the elements at the positions.    *)
LEMMA RetainKeeps ==
    ASSUME NEW S, NEW s \in Seq(S), NEW I
    PROVE  /\ Retain(s, I) \in Seq(S)
           /\ Len(Retain(s, I)) = Cardinality(I \cap DOMAIN s)
           /\ Len(Retain(s, I)) <= Len(s)
<1> DEFINE A == I \cap DOMAIN s
<1>1. PICK p \in Bijection(1..Cardinality(A), A) :
          /\ Retain(s, I) = [n \in 1..Cardinality(A) |-> s[p[n]]]
          /\ \A m, n \in 1..Cardinality(A) : m < n => p[m] < p[n]
  BY RetainEnumerates, Zenon
<1>2. DOMAIN s = 1..Len(s) /\ Len(s) \in Nat
  OBVIOUS
<1>3. IsFiniteSet(DOMAIN s) /\ Cardinality(DOMAIN s) = Len(s)
  BY <1>2, FS_Interval
<1>4. Cardinality(A) <= Len(s) /\ Cardinality(A) \in Nat
  BY <1>3, FS_Intersection, FS_CardinalityType
<1>5. \A i \in A : i \in DOMAIN s /\ s[i] \in S
  OBVIOUS
<1> HIDE DEF A
<1>6. p \in [1..Cardinality(A) -> A]
  BY <1>1 DEF Bijection, Injection, Surjection
<1>7. \A n \in 1..Cardinality(A) : s[p[n]] \in S
  BY <1>5, <1>6
<1>8. Retain(s, I) \in Seq(S) /\ Len(Retain(s, I)) = Cardinality(A)
  <2> DEFINE r == [n \in 1..Cardinality(A) |-> s[p[n]]]
  <2>1. r \in [1..Cardinality(A) -> S]
    BY <1>7
  <2> QED
    BY <1>1, <1>4, <2>1
<1> QED
  BY <1>4, <1>8 DEF A

(* Its elements are those at the positions, each of them.                  *)
LEMMA RetainFinds ==
    ASSUME NEW S, NEW s \in Seq(S), NEW I \in SUBSET DOMAIN s, NEW r, r = Retain(s, I)
    PROVE  /\ r \in Seq(S)
           /\ \A n \in DOMAIN r : \E i \in I : r[n] = s[i]
           /\ \A i \in I : \E n \in DOMAIN r : r[n] = s[i]
<1> DEFINE A == I \cap DOMAIN s
<1>1. PICK p \in Bijection(1..Cardinality(A), A) :
          /\ Retain(s, I) = [n \in 1..Cardinality(A) |-> s[p[n]]]
          /\ \A m, n \in 1..Cardinality(A) : m < n => p[m] < p[n]
  BY RetainEnumerates, Zenon
<1>2. A = I /\ r \in Seq(S)
  BY RetainKeeps
<1> HIDE DEF A
<1>3. /\ p \in [1..Cardinality(A) -> A]
      /\ \A i \in A : \E n \in 1..Cardinality(A) : p[n] = i
  BY <1>1 DEF Bijection, Injection, Surjection
<1>4. /\ DOMAIN r = 1..Cardinality(A)
      /\ \A n \in 1..Cardinality(A) : r[n] = s[p[n]]
  BY <1>1
<1> QED
  BY <1>2, <1>3, <1>4
==============================================================================
