----------------------------- MODULE ListProofs -----------------------------
(***************************************************************************)
(* What a list holds after some of its positions were kept, for any list:  *)
(* the lemmas on which the proofs about lists of job ids rest.             *)
(***************************************************************************)
EXTENDS Lists, FiniteSetTheorems, SequenceTheorems, TLAPS

In(s, j) == \E i \in DOMAIN s : s[i] = j

AtMostOnce(s, j) == \A i, k \in DOMAIN s : s[i] = j /\ s[k] = j => i = k

Rank(S, i) == Cardinality({k \in S : k <= i})

\* The positions of a finite set of numbers are numbered from 1 on.
LEMMA RankFacts ==
    ASSUME NEW m \in Nat, NEW S \in SUBSET (1..m)
    PROVE  /\ IsFiniteSet(S) /\ Cardinality(S) \in Nat
           /\ \A i \in S : Rank(S, i) \in 1..Cardinality(S)
           /\ \A i, k \in S : Rank(S, i) = Rank(S, k) => i = k
           /\ \A n \in 1..Cardinality(S) : \E i \in S : Rank(S, i) = n
<1>1. IsFiniteSet(S) /\ Cardinality(S) \in Nat
  <2>1. IsFiniteSet(1..m)
    BY FS_Interval
  <2> QED  BY <2>1, FS_Subset, FS_CardinalityType
<1>0. \A i \in S : i \in Nat
  OBVIOUS
<1> DEFINE Upto(i) == {k \in S : k <= i}
<1>2. \A i : /\ IsFiniteSet(Upto(i)) /\ Cardinality(Upto(i)) \in Nat
             /\ Cardinality(Upto(i)) <= Cardinality(S)
  <2> SUFFICES ASSUME NEW i
               PROVE  /\ IsFiniteSet(Upto(i)) /\ Cardinality(Upto(i)) \in Nat
                      /\ Cardinality(Upto(i)) <= Cardinality(S)
    OBVIOUS
  <2>1. Upto(i) \in SUBSET S
    OBVIOUS
  <2> HIDE DEF Upto
  <2> QED  BY <1>1, <2>1, FS_Subset, FS_CardinalityType
<1>3. \A i \in S : Cardinality(Upto(i)) # 0
  <2> SUFFICES ASSUME NEW i \in S PROVE Cardinality(Upto(i)) # 0
    OBVIOUS
  <2>1. i \in Upto(i)
    BY <1>0
  <2> HIDE DEF Upto
  <2> QED  BY <1>2, <2>1, FS_EmptySet
<1>4. \A i, k \in S : i < k => Cardinality(Upto(i)) # Cardinality(Upto(k))
  <2> SUFFICES ASSUME NEW i \in S, NEW k \in S, i < k
               PROVE  Cardinality(Upto(i)) # Cardinality(Upto(k))
    OBVIOUS
  <2>1. Upto(i) \in SUBSET Upto(k)
    <3>1. ASSUME NEW x \in S, x <= i PROVE x <= k
      BY <1>0, <3>1
    <3> QED  BY <3>1
  <2>2. k \in Upto(k) /\ k \notin Upto(i)
    BY <1>0
  <2> HIDE DEF Upto
  <2> QED  BY <1>2, <2>1, <2>2, FS_Subset
<1>5. \A i \in S : Cardinality(Upto(i)) \in 1..Cardinality(S)
  <2> HIDE DEF Upto
  <2> QED  BY <1>1, <1>2, <1>3
<1>6. \A i, k \in S : Cardinality(Upto(i)) = Cardinality(Upto(k)) => i = k
  <2> SUFFICES ASSUME NEW i \in S, NEW k \in S, i # k
               PROVE  Cardinality(Upto(i)) # Cardinality(Upto(k))
    OBVIOUS
  <2>1. i < k \/ k < i
    BY <1>0
  <2> HIDE DEF Upto
  <2> QED  BY <1>4, <2>1
<1>7. \A n \in 1..Cardinality(S) : \E i \in S : Cardinality(Upto(i)) = n
  <2> DEFINE T == 1..Cardinality(S)
             f == [i \in S |-> Cardinality(Upto(i))]
  <2>1. f \in Injection(S, T)
    BY <1>5, <1>6 DEF Injection, IsInjective
  <2>2. IsFiniteSet(T) /\ Cardinality(T) = Cardinality(S)
    BY <1>1, FS_Interval
  <2>3. f \in Surjection(S, T)
    <3> HIDE DEF f, T
    <3> QED  BY <2>1, <2>2, FS_Injection
  <2> QED  BY <2>3 DEF Surjection
<1> QED  BY <1>1, <1>5, <1>6, <1>7 DEF Rank

\* Nth is the inverse of Rank.
LEMMA NthFacts ==
    ASSUME NEW m \in Nat, NEW S \in SUBSET (1..m)
    PROVE  /\ Cardinality(S) \in Nat
           /\ \A n \in 1..Cardinality(S) : Nth(S, n) \in S /\ Rank(S, Nth(S, n)) = n
           /\ \A i \in S : Rank(S, i) \in 1..Cardinality(S) /\ Nth(S, Rank(S, i)) = i
<1>0. /\ Cardinality(S) \in Nat
      /\ \A i \in S : Rank(S, i) \in 1..Cardinality(S)
      /\ \A i, k \in S : Rank(S, i) = Rank(S, k) => i = k
      /\ \A n \in 1..Cardinality(S) : \E i \in S : Rank(S, i) = n
  BY RankFacts
<1>1. ASSUME NEW n \in 1..Cardinality(S) PROVE Nth(S, n) \in S /\ Rank(S, Nth(S, n)) = n
  <2>1. Nth(S, n) = CHOOSE i \in S : Rank(S, i) = n
    BY DEF Nth, Rank
  <2>2. \E i \in S : Rank(S, i) = n
    BY <1>0
  <2> QED  BY <2>1, <2>2
<1> QED  BY <1>0, <1>1

\* Only keeps what is at the positions I, each as often as it is there.
LEMMA OnlyFacts ==
    ASSUME NEW S, NEW s \in Seq(S), NEW I \in SUBSET (DOMAIN s)
    PROVE  /\ Only(s, I) \in Seq(S)
           /\ \A j : In(Only(s, I), j) <=> \E i \in I : s[i] = j
           /\ \A j : (\A i, k \in I : s[i] = j /\ s[k] = j => i = k) => AtMostOnce(Only(s, I), j)
<1> DEFINE t == Only(s, I)
           n == Cardinality(I)
<1>1. Len(s) \in Nat /\ DOMAIN s = 1..Len(s) /\ I \in SUBSET (1..Len(s))
  OBVIOUS
<1>2. /\ n \in Nat
      /\ \A p \in 1..n : Nth(I, p) \in I /\ Rank(I, Nth(I, p)) = p
      /\ \A i \in I : Rank(I, i) \in 1..n /\ Nth(I, Rank(I, i)) = i
  BY <1>1, NthFacts
<1>3. t = [p \in 1..n |-> s[Nth(I, p)]]
  BY DEF Only
<1>4. \A i \in I : s[i] \in S
  OBVIOUS
<1> HIDE DEF t, n
<1>5. DOMAIN t = 1..n /\ \A p \in 1..n : t[p] = s[Nth(I, p)] /\ Nth(I, p) \in I
  BY <1>2, <1>3
<1>6. t \in Seq(S)
  BY <1>2, <1>3, <1>4, <1>5
<1>7. \A j : In(t, j) <=> \E i \in I : s[i] = j
  BY <1>2, <1>5 DEF In
<1>8. ASSUME NEW j, \A i, k \in I : s[i] = j /\ s[k] = j => i = k PROVE AtMostOnce(t, j)
  BY <1>2, <1>5, <1>8 DEF AtMostOnce
<1> QED  BY <1>6, <1>7, <1>8 DEF t

\* A list goes on with another.
LEMMA ConcatFacts ==
    ASSUME NEW S, NEW s \in Seq(S), NEW t \in Seq(S)
    PROVE  /\ s \o t \in Seq(S)
           /\ Len(s \o t) = Len(s) + Len(t)
           /\ \A j : In(s \o t, j) <=> In(s, j) \/ In(t, j)
           /\ \A j : AtMostOnce(s, j) /\ AtMostOnce(t, j) /\ ~(In(s, j) /\ In(t, j))
                        => AtMostOnce(s \o t, j)
<1> DEFINE u == s \o t
           m == Len(s)
           n == Len(t)
<1>1. /\ u \in Seq(S) /\ Len(u) = m + n
      /\ \A i \in 1..(m + n) : u[i] = IF i <= m THEN s[i] ELSE t[i - m]
  BY ConcatProperties
<1>2. m \in Nat /\ n \in Nat /\ DOMAIN s = 1..m /\ DOMAIN t = 1..n /\ DOMAIN u = 1..(m + n)
  BY <1>1
<1> HIDE DEF u, m, n
<1>3. \A i \in DOMAIN s : i \in DOMAIN u /\ u[i] = s[i]
  BY <1>1, <1>2
<1>4. \A i \in DOMAIN t : i + m \in DOMAIN u /\ u[i + m] = t[i]
  <2> SUFFICES ASSUME NEW i \in DOMAIN t PROVE i + m \in DOMAIN u /\ u[i + m] = t[i]
    OBVIOUS
  <2>1. i \in 1..n /\ i + m \in 1..(m + n) /\ ~(i + m <= m) /\ (i + m) - m = i
    BY <1>2
  <2> QED  BY <1>1, <1>2, <2>1
<1>5. \A i \in DOMAIN u : \/ i \in DOMAIN s /\ u[i] = s[i]
                          \/ i - m \in DOMAIN t /\ u[i] = t[i - m] /\ i = (i - m) + m
  BY <1>1, <1>2
<1>6. \A j : In(u, j) <=> In(s, j) \/ In(t, j)
  BY <1>3, <1>4, <1>5 DEF In
<1>7. ASSUME NEW j, AtMostOnce(s, j), AtMostOnce(t, j), ~(In(s, j) /\ In(t, j))
      PROVE  AtMostOnce(u, j)
  BY <1>5, <1>7 DEF In, AtMostOnce
<1> QED  BY <1>1, <1>6, <1>7 DEF u, m, n

\* A stretch of a list.
LEMMA SubSeqFacts ==
    ASSUME NEW S, NEW s \in Seq(S), NEW a \in 1..(Len(s) + 1), NEW b \in 0..Len(s)
    PROVE  /\ SubSeq(s, a, b) \in Seq(S)
           /\ Len(SubSeq(s, a, b)) = IF a <= b THEN (b - a) + 1 ELSE 0
           /\ \A j : In(SubSeq(s, a, b), j) <=> \E i \in a..b : s[i] = j
           /\ \A j : AtMostOnce(s, j) => AtMostOnce(SubSeq(s, a, b), j)
<1> DEFINE t == SubSeq(s, a, b)
           m == Len(s)
<1>1. m \in Nat /\ a \in Int /\ b \in Int /\ 1 <= a /\ b <= m /\ DOMAIN s = 1..m
  OBVIOUS
<1>2. \A i \in a..b : i \in 1..m /\ s[i] \in S
  BY <1>1
<1>3. /\ t \in Seq(S)
      /\ Len(t) = IF a <= b THEN (b - a) + 1 ELSE 0
      /\ \A i \in 1..((b - a) + 1) : t[i] = s[a + i - 1]
  BY <1>1, <1>2, SubSeqProperties
<1> HIDE DEF t, m
<1>4. DOMAIN t = 1..Len(t)
  BY <1>3
<1>5. \A i \in DOMAIN t : i \in Int /\ a + i - 1 \in a..b /\ t[i] = s[a + i - 1]
  BY <1>1, <1>3, <1>4
<1>6. \A i \in a..b : (i - a) + 1 \in DOMAIN t /\ t[(i - a) + 1] = s[i]
  <2> SUFFICES ASSUME NEW i \in a..b PROVE (i - a) + 1 \in DOMAIN t /\ t[(i - a) + 1] = s[i]
    OBVIOUS
  <2>1. (i - a) + 1 \in 1..((b - a) + 1) /\ a <= b /\ a + ((i - a) + 1) - 1 = i
    BY <1>1
  <2> QED  BY <1>3, <1>4, <2>1
<1>7. \A j : In(t, j) <=> \E i \in a..b : s[i] = j
  BY <1>5, <1>6 DEF In
<1>8. ASSUME NEW j, AtMostOnce(s, j) PROVE AtMostOnce(t, j)
  <2> SUFFICES ASSUME NEW i \in DOMAIN t, NEW k \in DOMAIN t, t[i] = j, t[k] = j PROVE i = k
    BY DEF AtMostOnce
  <2>1. a + i - 1 \in DOMAIN s /\ a + k - 1 \in DOMAIN s
    BY <1>1, <1>2, <1>5
  <2>2. a + i - 1 = a + k - 1
    BY <1>5, <1>8, <2>1 DEF AtMostOnce
  <2> QED  BY <1>1, <1>5, <2>2
<1> QED  BY <1>3, <1>7, <1>8 DEF t, m

\* A set of positions that is not empty has a first one.
LEMMA LeastFacts ==
    ASSUME NEW m \in Nat, NEW I \in SUBSET (1..m), I # {}
    PROVE  \E i \in I : \A k \in 1..(i - 1) : k \notin I
<1> DEFINE Upto(i) == {k \in I : k <= i}
<1>1. /\ IsFiniteSet(I) /\ Cardinality(I) \in Nat
      /\ \A n \in 1..Cardinality(I) : \E i \in I : Rank(I, i) = n
  BY RankFacts
<1>2. 1 \in 1..Cardinality(I)
  BY <1>1, FS_EmptySet
<1>3. PICK i \in I : Rank(I, i) = 1
  BY <1>1, <1>2
<1>4. Upto(i) \in SUBSET I /\ Cardinality(Upto(i)) = 1 /\ i \in Upto(i)
  BY <1>3 DEF Rank
<1>5. \A k \in Upto(i) : k = i
  <2> HIDE DEF Upto
  <2>1. IsFiniteSet(Upto(i))
    BY <1>1, <1>4, FS_Subset
  <2>2. PICK x : Upto(i) = {x}
    BY <1>4, <2>1, FS_Singleton
  <2> QED  BY <1>4, <2>2
<1>6. ASSUME NEW k \in 1..(i - 1), k \in I PROVE FALSE
  <2>1. i \in 1..m /\ k \in 1..m /\ k <= i /\ k # i
    BY <1>6
  <2>2. k \in Upto(i)
    BY <1>6, <2>1
  <2> QED  BY <1>5, <2>1, <2>2
<1> QED  BY <1>6

\* What is in a list is at some first position.
LEMMA FirstFacts ==
    ASSUME NEW S, NEW s \in Seq(S), NEW j, In(s, j)
    PROVE  \E i \in DOMAIN s : s[i] = j /\ \A k \in 1..(i - 1) : s[k] # j
<1> DEFINE I == {k \in DOMAIN s : s[k] = j}
<1>1. Len(s) \in Nat /\ DOMAIN s = 1..Len(s) /\ I \in SUBSET (1..Len(s)) /\ I # {}
  BY DEF In
<1>2. PICK i \in I : \A k \in 1..(i - 1) : k \notin I
  <2> HIDE DEF I
  <2> QED  BY <1>1, LeastFacts
<1>3. \A k \in 1..(i - 1) : k \in DOMAIN s
  BY <1>1
<1> QED  BY <1>2, <1>3

=============================================================================
