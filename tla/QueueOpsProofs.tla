--------------------------- MODULE QueueOpsProofs ---------------------------
(***************************************************************************)
(* What the list surgery of module QueueOps keeps, for every sequence.     *)
(***************************************************************************)
EXTENDS QueueOps, FiniteSetTheorems, SequenceTheorems, TLAPS

(* A set of indices of a sequence is finite and has a natural cardinality. *)
LEMMA IndexSetFinite ==
    ASSUME NEW n \in Nat, NEW K \in SUBSET (1..n)
    PROVE  IsFiniteSet(K) /\ Cardinality(K) \in Nat
<1>1. IsFiniteSet(1..n)
  BY FS_Interval
<1>2. IsFiniteSet(K)
  BY <1>1, FS_Subset
<1>. QED
  BY <1>2, FS_CardinalityType

(* The rank of an element of K is a number from 1 to the size of K.        *)
LEMMA RankBounded ==
    ASSUME NEW n \in Nat, NEW K \in SUBSET (1..n), NEW k \in K
    PROVE  Cardinality({m \in K : m <= k}) \in 1..Cardinality(K)
<1>. DEFINE B == {m \in K : m <= k}
<1>1. IsFiniteSet(K) /\ Cardinality(K) \in Nat
  BY IndexSetFinite
<1>2. B \in SUBSET K /\ k \in B
  OBVIOUS
<1>. HIDE DEF B
<1>3. IsFiniteSet(B) /\ Cardinality(B) <= Cardinality(K)
  BY <1>1, <1>2, FS_Subset
<1>4. Cardinality(B) \in Nat /\ Cardinality(B) # 0
  BY <1>2, <1>3, FS_EmptySet, FS_CardinalityType
<1>5. Cardinality(B) \in 1..Cardinality(K)
  BY <1>1, <1>3, <1>4
<1>. QED
  BY <1>5 DEF B

(* Ranks grow with the elements.                                           *)
LEMMA RankMonotonic ==
    ASSUME NEW n \in Nat, NEW K \in SUBSET (1..n), NEW k \in K, NEW l \in K, k < l
    PROVE  Cardinality({m \in K : m <= k}) < Cardinality({m \in K : m <= l})
<1>. DEFINE B == {m \in K : m <= k}
            C == {m \in K : m <= l}
<1>0. IsFiniteSet(K)
  BY IndexSetFinite
<1>1. \A m \in K : m <= k => m <= l
  OBVIOUS
<1>2. B \in SUBSET C /\ C \in SUBSET K
  BY <1>1
<1>3. l \in C /\ l \notin B
  OBVIOUS
<1>. HIDE DEF B, C
<1>4. IsFiniteSet(C)
  BY <1>0, <1>2, FS_Subset
<1>5. IsFiniteSet(B) /\ Cardinality(B) <= Cardinality(C)
  BY <1>2, <1>4, FS_Subset
<1>6. Cardinality(B) # Cardinality(C)
  BY <1>2, <1>3, <1>4, FS_Subset
<1>7. Cardinality(B) \in Nat /\ Cardinality(C) \in Nat
  BY <1>4, <1>5, FS_CardinalityType
<1>8. Cardinality(B) < Cardinality(C)
  BY <1>5, <1>6, <1>7
<1>. QED
  BY <1>8 DEF B, C

(* So no two elements have the same rank.                                  *)
LEMMA RankInjective ==
    ASSUME NEW n \in Nat, NEW K \in SUBSET (1..n), NEW k \in K, NEW l \in K,
           Cardinality({m \in K : m <= k}) = Cardinality({m \in K : m <= l})
    PROVE  k = l
<1>1. Cardinality({m \in K : m <= k}) \in 1..Cardinality(K)
  BY RankBounded
<1>2. k < l \/ l < k \/ k = l
  OBVIOUS
<1>3. Cardinality(K) \in Nat
  BY IndexSetFinite
<1>4. ~(k < l)
  <2>. SUFFICES ASSUME k < l PROVE FALSE
    OBVIOUS
  <2>1. Cardinality({m \in K : m <= k}) < Cardinality({m \in K : m <= l})
    BY RankMonotonic
  <2>. QED
    BY <1>1, <1>3, <2>1
<1>5. ~(l < k)
  <2>. SUFFICES ASSUME l < k PROVE FALSE
    OBVIOUS
  <2>1. Cardinality({m \in K : m <= l}) < Cardinality({m \in K : m <= k})
    BY RankMonotonic
  <2>. QED
    BY <1>1, <1>3, <2>1
<1>. QED
  BY <1>2, <1>4, <1>5

(* Every rank is taken: Nth(K, j) is an element of K, and of rank j.       *)
LEMMA NthExists ==
    ASSUME NEW n \in Nat, NEW K \in SUBSET (1..n), NEW j \in 1..Cardinality(K)
    PROVE  /\ Nth(K, j) \in K
           /\ Cardinality({m \in K : m <= Nth(K, j)}) = j
<1>. DEFINE rank == [k \in K |-> Cardinality({m \in K : m <= k})]
<1>1. Cardinality(K) \in Nat
  BY IndexSetFinite
<1>2. rank \in [K -> 1..Cardinality(K)]
  BY RankBounded
<1>3. \A k, l \in K : rank[k] = rank[l] => k = l
  <2>1. ASSUME NEW k \in K, NEW l \in K,
               Cardinality({m \in K : m <= k}) = Cardinality({m \in K : m <= l})
        PROVE  k = l
    BY <2>1, RankInjective
  <2>. QED
    BY <2>1
<1>4. rank \in Injection(K, 1..Cardinality(K))
  BY <1>2, <1>3 DEF Injection, IsInjective
<1>5. IsFiniteSet(1..Cardinality(K)) /\ Cardinality(1..Cardinality(K)) = Cardinality(K)
  BY <1>1, FS_Interval
<1>. HIDE DEF rank
<1>6. rank \in Surjection(K, 1..Cardinality(K))
  BY <1>4, <1>5, FS_Injection
<1>7. \E k \in K : rank[k] = j
  BY <1>6 DEF Surjection
<1>8. \E k \in K : Cardinality({m \in K : m <= k}) = j
  BY <1>7 DEF rank
<1>. QED
  BY <1>8 DEF Nth

(* The element of rank r is the only one of that rank.                     *)
LEMMA NthOfRank ==
    ASSUME NEW n \in Nat, NEW K \in SUBSET (1..n), NEW k \in K
    PROVE  LET r == Cardinality({m \in K : m <= k})
           IN  r \in 1..Cardinality(K) /\ Nth(K, r) = k
<1>. DEFINE r == Cardinality({m \in K : m <= k})
<1>1. r \in 1..Cardinality(K)
  BY RankBounded
<1>2. Nth(K, r) \in K /\ Cardinality({m \in K : m <= Nth(K, r)}) = r
  BY <1>1, NthExists
<1>3. Nth(K, r) = k
  BY <1>2, RankInjective
<1>. QED
  BY <1>1, <1>3

(* Kept keeps a sequence a sequence of the same kind.                      *)
LEMMA KeptType ==
    ASSUME NEW S, NEW s \in Seq(S), NEW K \in SUBSET (1..Len(s))
    PROVE  /\ Kept(s, K) \in Seq(S)
           /\ Len(Kept(s, K)) = Cardinality(K)
           /\ \A j \in 1..Cardinality(K) : Kept(s, K)[j] = s[Nth(K, j)]
<1>1. Len(s) \in Nat /\ \A i \in 1..Len(s) : s[i] \in S
  BY LenProperties, ElementOfSeq
<1>2. Cardinality(K) \in Nat
  BY <1>1, IndexSetFinite
<1>3. \A j \in 1..Cardinality(K) : Nth(K, j) \in K
  BY <1>1, NthExists
<1>4. \A j \in 1..Cardinality(K) : s[Nth(K, j)] \in S
  BY <1>1, <1>3
<1>. QED
  BY <1>2, <1>4 DEF Kept

(* The elements of Kept are the elements of s at the indices K.            *)
LEMMA KeptRange ==
    ASSUME NEW S, NEW s \in Seq(S), NEW K \in SUBSET (1..Len(s))
    PROVE  ToSet(Kept(s, K)) = {s[k] : k \in K}
<1>1. Len(s) \in Nat
  BY LenProperties
<1>2. IsFiniteSet(K) /\ Cardinality(K) \in Nat
  BY <1>1, IndexSetFinite
<1>3. DOMAIN Kept(s, K) = 1..Cardinality(K)
  BY DEF Kept
<1>4. \A j \in 1..Cardinality(K) : Kept(s, K)[j] = s[Nth(K, j)]
  BY DEF Kept
<1>5. \A j \in 1..Cardinality(K) : Nth(K, j) \in K
  BY <1>1, NthExists
<1>6. \A k \in K : \E j \in 1..Cardinality(K) : Nth(K, j) = k
  BY <1>1, NthOfRank
<1>7. ToSet(Kept(s, K)) = {Kept(s, K)[j] : j \in 1..Cardinality(K)}
  BY <1>3 DEF ToSet
<1>8. ASSUME NEW x \in ToSet(Kept(s, K)) PROVE x \in {s[k] : k \in K}
  BY <1>4, <1>5, <1>7
<1>9. ASSUME NEW k \in K PROVE s[k] \in ToSet(Kept(s, K))
  <2>1. PICK j \in 1..Cardinality(K) : Nth(K, j) = k
    BY <1>6
  <2>2. Kept(s, K)[j] = s[k]
    BY <1>4, <2>1
  <2>. QED
    BY <1>7, <2>2
<1>. QED
  BY <1>8, <1>9

(* A kept front stays the front.                                           *)
LEMMA KeptFront ==
    ASSUME NEW S, NEW s \in Seq(S), NEW K \in SUBSET (1..Len(s)), 1 \in K
    PROVE  Kept(s, K) # <<>> /\ Kept(s, K)[1] = s[1]
<1>1. Len(s) \in Nat
  BY LenProperties
<1>2. IsFiniteSet(K) /\ Cardinality(K) \in Nat
  BY <1>1, IndexSetFinite
<1>3. {m \in K : m <= 1} = {1}
  <2>1. 1 <= 1 /\ \A m \in K : m <= 1 => m = 1
    BY <1>1
  <2>. QED
    BY <2>1
<1>4. Cardinality({m \in K : m <= 1}) = 1
  BY <1>3, FS_Singleton
<1>5. Cardinality(K) # 0
  BY <1>2, FS_EmptySet
<1>6. 1 \in 1..Cardinality(K)
  BY <1>2, <1>5
<1>7. Nth(K, 1) = 1
  BY <1>1, <1>4, NthOfRank
<1>. QED
  BY <1>6, <1>7, KeptType, EmptySeq

-----------------------------------------------------------------------------
(* Retain keeps exactly the elements in T, in a sequence that is no longer. *)
LEMMA RetainType ==
    ASSUME NEW S, NEW s \in Seq(S), NEW T
    PROVE  /\ Retain(s, T) \in Seq(S)
           /\ Len(Retain(s, T)) <= Len(s)
           /\ ToSet(Retain(s, T)) = ToSet(s) \cap T
<1>. DEFINE K == {i \in 1..Len(s) : s[i] \in T}
<1>1. Len(s) \in Nat /\ DOMAIN s = 1..Len(s)
  BY LenProperties
<1>2. K \in SUBSET (1..Len(s))
  OBVIOUS
<1>3. ToSet(s) \cap T = {s[k] : k \in K}
  BY <1>1 DEF ToSet
<1>. HIDE DEF K
<1>4. Kept(s, K) \in Seq(S) /\ Len(Kept(s, K)) = Cardinality(K)
  BY <1>2, KeptType
<1>5. Cardinality(K) <= Len(s)
  <2>1. IsFiniteSet(1..Len(s)) /\ Cardinality(1..Len(s)) = Len(s)
    BY <1>1, FS_Interval
  <2>. QED
    BY <1>2, <2>1, FS_Subset
<1>6. ToSet(Kept(s, K)) = ToSet(s) \cap T
  BY <1>2, <1>3, KeptRange
<1>7. Retain(s, T) = Kept(s, K)
  BY DEF Retain, K
<1>. QED
  BY <1>4, <1>5, <1>6, <1>7

(* A retained sequence is a sequence of what was to be retained.           *)
LEMMA RetainNarrows ==
    ASSUME NEW S, NEW s \in Seq(S), NEW T
    PROVE  Retain(s, T) \in Seq(S \cap T)
<1>1. Retain(s, T) \in Seq(S) /\ ToSet(Retain(s, T)) \subseteq T
  BY RetainType
<1>2. \A i \in 1..Len(Retain(s, T)) : Retain(s, T)[i] \in S \cap T
  BY <1>1 DEF ToSet
<1>. QED
  BY <1>1, <1>2

(* A front that is to be retained stays the front.                         *)
LEMMA RetainFront ==
    ASSUME NEW S, NEW s \in Seq(S), NEW T, s # <<>>, s[1] \in T
    PROVE  Retain(s, T) # <<>> /\ Retain(s, T)[1] = s[1]
<1>. DEFINE K == {i \in 1..Len(s) : s[i] \in T}
<1>1. Len(s) \in Nat /\ Len(s) # 0
  BY EmptySeq
<1>2. K \in SUBSET (1..Len(s)) /\ 1 \in K
  BY <1>1
<1>3. Retain(s, T) = Kept(s, K)
  BY DEF Retain
<1>. HIDE DEF K
<1>. QED
  BY <1>2, <1>3, KeptFront

(* A run that starts at index i ends within the sequence.                  *)
LEMMA RunLengthBound ==
    ASSUME NEW S, NEW s \in Seq(S), NEW T, NEW i \in 1..(Len(s) + 1)
    PROVE  RunLength(s, i, T) \in 0..(Len(s) + 1 - i)
<1>. DEFINE R == {j \in i..Len(s) : \A k \in i..j : s[k] \in T}
<1>1. Len(s) \in Nat
  BY LenProperties
<1>2. IsFiniteSet(i..Len(s)) /\ Cardinality(i..Len(s)) = Len(s) + 1 - i
  <2>1. i \in Int /\ Len(s) \in Int /\ i <= Len(s) + 1
    BY <1>1
  <2>2. /\ IsFiniteSet(i..Len(s))
        /\ Cardinality(i..Len(s)) = IF i > Len(s) THEN 0 ELSE Len(s) - i + 1
    BY <2>1, FS_Interval
  <2>. QED
    BY <2>1, <2>2
<1>3. R \in SUBSET (i..Len(s))
  OBVIOUS
<1>4. RunLength(s, i, T) = Cardinality(R)
  BY DEF RunLength
<1>. HIDE DEF R
<1>5. IsFiniteSet(R) /\ Cardinality(R) <= Len(s) + 1 - i
  BY <1>2, <1>3, FS_Subset
<1>6. Cardinality(R) \in Nat
  BY <1>5, FS_CardinalityType
<1>. QED
  BY <1>1, <1>4, <1>5, <1>6

(* Insertion at an index of the sequence or right behind it; from the      *)
(* second index on it leaves the front alone.                              *)
LEMMA InsertAtType ==
    ASSUME NEW S, NEW s \in Seq(S), NEW i \in 1..(Len(s) + 1), NEW e \in S
    PROVE  /\ InsertAt(s, i, e) \in Seq(S)
           /\ InsertAt(s, i, e) # <<>>
           /\ i > 1 => InsertAt(s, i, e)[1] = s[1]
<1>1. Len(s) \in Nat /\ \A k \in 1..Len(s) : s[k] \in S
  BY LenProperties, ElementOfSeq
<1>. DEFINE a == SubSeq(s, 1, i - 1)
            b == SubSeq(s, i, Len(s))
<1>2. a \in Seq(S) /\ Len(a) = i - 1 /\ (i > 1 => a[1] = s[1])
  <2>1. \A k \in 1..(i - 1) : s[k] \in S
    BY <1>1
  <2>. QED
    BY <1>1, <2>1, SubSeqProperties
<1>3. b \in Seq(S)
  <2>1. \A k \in i..Len(s) : s[k] \in S
    BY <1>1
  <2>. QED
    BY <1>1, <2>1, SubSeqProperties
<1>4. InsertAt(s, i, e) = (a \o <<e>>) \o b
  BY DEF InsertAt
<1>. HIDE DEF a, b
<1>5. <<e>> \in Seq(S) /\ Len(<<e>>) = 1
  OBVIOUS
<1>6. /\ a \o <<e>> \in Seq(S)
      /\ Len(a \o <<e>>) = i
      /\ i > 1 => (a \o <<e>>)[1] = s[1]
  BY <1>2, <1>5, ConcatProperties
<1>7. Len(b) \in Nat
  BY <1>3, LenProperties
<1>8. /\ (a \o <<e>>) \o b \in Seq(S)
      /\ Len((a \o <<e>>) \o b) = i + Len(b)
      /\ ((a \o <<e>>) \o b)[1] = (a \o <<e>>)[1]
  <2>. DEFINE c == a \o <<e>>
  <2>1. c \in Seq(S) /\ Len(c) = i
    BY <1>6
  <2>. HIDE DEF c
  <2>2. /\ c \o b \in Seq(S)
        /\ Len(c \o b) = Len(c) + Len(b)
        /\ \A k \in 1..(Len(c) + Len(b)) :
               (c \o b)[k] = IF k <= Len(c) THEN c[k] ELSE b[k - Len(c)]
    BY <1>3, <2>1, ConcatProperties
  <2>3. (c \o b)[1] = c[1]
    BY <1>7, <2>1, <2>2
  <2>. QED
    BY <2>1, <2>2, <2>3 DEF c
<1>. QED
  BY <1>4, <1>6, <1>7, <1>8, EmptySeq

(* What is left when the first n elements are dropped.                     *)
LEMMA DropFirstType ==
    ASSUME NEW S, NEW s \in Seq(S), NEW n \in Nat
    PROVE  /\ DropFirst(s, n) \in Seq(S)
           /\ Len(DropFirst(s, n)) = IF n < Len(s) THEN Len(s) - n ELSE 0
<1>1. Len(s) \in Nat /\ \A k \in 1..Len(s) : s[k] \in S
  BY LenProperties, ElementOfSeq
<1>2. \A k \in (n + 1)..Len(s) : s[k] \in S
  BY <1>1
<1>3. /\ SubSeq(s, n + 1, Len(s)) \in Seq(S)
      /\ Len(SubSeq(s, n + 1, Len(s))) =
             IF n + 1 <= Len(s) THEN Len(s) - (n + 1) + 1 ELSE 0
  BY <1>1, <1>2, SubSeqProperties
<1>. QED
  BY <1>1, <1>3 DEF DropFirst

(* A capped push never exceeds the cap.                                    *)
LEMMA PushCappedType ==
    ASSUME NEW S, NEW s \in Seq(S), NEW t \in Seq(S), NEW cap \in Nat
    PROVE  PushCapped(s, t, cap) \in Seq(S) /\ Len(PushCapped(s, t, cap)) <= cap
<1>. DEFINE all == s \o t
<1>1. all \in Seq(S) /\ Len(all) \in Nat
  BY ConcatProperties, LenProperties
<1>2. PushCapped(s, t, cap) =
          IF Len(all) > cap THEN DropFirst(all, Len(all) - cap) ELSE all
  BY DEF PushCapped
<1>. HIDE DEF all
<1>3. CASE Len(all) > cap
  <2>1. Len(all) - cap \in Nat
    BY <1>1, <1>3
  <2>2. /\ DropFirst(all, Len(all) - cap) \in Seq(S)
        /\ Len(DropFirst(all, Len(all) - cap)) =
               IF Len(all) - cap < Len(all) THEN Len(all) - (Len(all) - cap) ELSE 0
    BY <1>1, <2>1, DropFirstType
  <2>. QED
    BY <1>1, <1>2, <1>3, <2>2
<1>4. CASE ~(Len(all) > cap)
  BY <1>1, <1>2, <1>4
<1>. QED
  BY <1>3, <1>4

-----------------------------------------------------------------------------
(***************************************************************************)
(* Sequences without repetition.                                           *)
(***************************************************************************)
(* The elements of a sequence, by index.                                   *)
LEMMA ToSetByIndex ==
    ASSUME NEW S, NEW s \in Seq(S)
    PROVE  /\ DOMAIN s = 1..Len(s) /\ Len(s) \in Nat
           /\ \A x : x \in ToSet(s) <=> \E k \in 1..Len(s) : s[k] = x
           /\ ToSet(s) \subseteq S
           /\ IsInjective(s) <=> \A k, l \in 1..Len(s) : s[k] = s[l] => k = l
<1>1. DOMAIN s = 1..Len(s) /\ Len(s) \in Nat
  BY LenProperties
<1>2. \A k \in 1..Len(s) : s[k] \in S
  BY ElementOfSeq
<1>3. \A x : x \in ToSet(s) <=> \E k \in 1..Len(s) : s[k] = x
  BY <1>1 DEF ToSet
<1>4. IsInjective(s) <=> \A k, l \in 1..Len(s) : s[k] = s[l] => k = l
  BY <1>1 DEF IsInjective
<1>. QED
  BY <1>1, <1>2, <1>3, <1>4

(* A concatenation has the elements of both parts, and repeats none when   *)
(* neither part does and they share none.                                  *)
LEMMA ConcatDistinct ==
    ASSUME NEW S, NEW s \in Seq(S), NEW t \in Seq(S)
    PROVE  /\ s \o t \in Seq(S)
           /\ ToSet(s \o t) = ToSet(s) \cup ToSet(t)
           /\ IsInjective(s \o t) <=> /\ IsInjective(s) /\ IsInjective(t)
                                      /\ ToSet(s) \cap ToSet(t) = {}
<1>. DEFINE c == s \o t
            m == Len(s)
            n == Len(t)
<1>1. m \in Nat /\ n \in Nat
  BY LenProperties
<1>2. /\ c \in Seq(S) /\ Len(c) = m + n
      /\ \A k \in 1..(m + n) : c[k] = IF k <= m THEN s[k] ELSE t[k - m]
  BY ConcatProperties
<1>3. /\ \A x : x \in ToSet(s) <=> \E k \in 1..m : s[k] = x
      /\ IsInjective(s) <=> \A k, l \in 1..m : s[k] = s[l] => k = l
  BY ToSetByIndex
<1>4. /\ \A x : x \in ToSet(t) <=> \E k \in 1..n : t[k] = x
      /\ IsInjective(t) <=> \A k, l \in 1..n : t[k] = t[l] => k = l
  BY ToSetByIndex
<1>. HIDE DEF c
<1>5. /\ \A x : x \in ToSet(c) <=> \E k \in 1..(m + n) : c[k] = x
      /\ IsInjective(c) <=> \A k, l \in 1..(m + n) : c[k] = c[l] => k = l
  <2>1. /\ \A x : x \in ToSet(c) <=> \E k \in 1..Len(c) : c[k] = x
        /\ IsInjective(c) <=> \A k, l \in 1..Len(c) : c[k] = c[l] => k = l
    BY <1>2, ToSetByIndex
  <2>. HIDE DEF m, n
  <2>. QED
    BY <1>2, <2>1
<1>. HIDE DEF m, n
<1>6. \A k \in 1..m : k \in 1..(m + n) /\ c[k] = s[k]
  BY <1>1, <1>2
<1>7. \A k \in 1..n : m + k \in 1..(m + n) /\ c[m + k] = t[k]
  <2>. TAKE k \in 1..n
  <2>1. m + k \in 1..(m + n) /\ ~(m + k <= m) /\ (m + k) - m = k
    BY <1>1
  <2>. QED
    BY <1>2, <2>1
<1>8. \A k \in 1..(m + n) : k \in 1..m \/ \E l \in 1..n : k = m + l
  <2>. TAKE k \in 1..(m + n)
  <2>1. CASE k <= m
    BY <1>1, <2>1
  <2>2. CASE ~(k <= m)
    <3>1. k - m \in 1..n /\ k = m + (k - m)
      BY <1>1, <2>2
    <3>. QED
      BY <3>1
  <2>. QED
    BY <2>1, <2>2
<1>9. ToSet(c) = ToSet(s) \cup ToSet(t)
  <2>1. ASSUME NEW x \in ToSet(c) PROVE x \in ToSet(s) \cup ToSet(t)
    <3>1. PICK k \in 1..(m + n) : c[k] = x
      BY <1>5
    <3>2. CASE k \in 1..m
      BY <1>3, <1>6, <3>1, <3>2
    <3>3. CASE \E l \in 1..n : k = m + l
      BY <1>4, <1>7, <3>1, <3>3
    <3>. QED
      BY <1>8, <3>2, <3>3
  <2>2. ASSUME NEW x \in ToSet(s) PROVE x \in ToSet(c)
    BY <1>3, <1>5, <1>6
  <2>3. ASSUME NEW x \in ToSet(t) PROVE x \in ToSet(c)
    BY <1>4, <1>5, <1>7
  <2>. QED
    BY <2>1, <2>2, <2>3
<1>10. ASSUME IsInjective(c)
       PROVE  IsInjective(s) /\ IsInjective(t) /\ ToSet(s) \cap ToSet(t) = {}
  <2>1. \A k, l \in 1..m : s[k] = s[l] => k = l
    BY <1>5, <1>6, <1>10
  <2>2. \A k, l \in 1..n : t[k] = t[l] => k = l
    <3>. SUFFICES ASSUME NEW k \in 1..n, NEW l \in 1..n, t[k] = t[l] PROVE k = l
      OBVIOUS
    <3>1. m + k = m + l
      BY <1>5, <1>7, <1>10
    <3>. QED
      BY <1>1, <3>1
  <2>3. ASSUME NEW x \in ToSet(s), x \in ToSet(t) PROVE FALSE
    <3>1. PICK k \in 1..m : s[k] = x
      BY <1>3
    <3>2. PICK l \in 1..n : t[l] = x
      BY <1>4, <2>3
    <3>3. k = m + l
      BY <1>5, <1>6, <1>7, <1>10, <3>1, <3>2
    <3>. QED
      BY <1>1, <3>3
  <2>. QED
    BY <1>3, <1>4, <2>1, <2>2, <2>3
<1>11. ASSUME IsInjective(s), IsInjective(t), ToSet(s) \cap ToSet(t) = {}
       PROVE  IsInjective(c)
  <2>. SUFFICES ASSUME NEW k \in 1..(m + n), NEW l \in 1..(m + n), c[k] = c[l]
                PROVE  k = l
    BY <1>5
  <2>1. CASE k \in 1..m /\ l \in 1..m
    BY <1>3, <1>6, <1>11, <2>1
  <2>2. ASSUME NEW a \in 1..n, NEW b \in 1..n, k = m + a, l = m + b PROVE k = l
    BY <1>4, <1>7, <1>11, <2>2
  <2>3. ASSUME k \in 1..m, NEW b \in 1..n, l = m + b PROVE FALSE
    <3>1. s[k] = t[b]
      BY <1>6, <1>7, <2>3
    <3>. QED
      BY <1>3, <1>4, <1>11, <2>3, <3>1
  <2>4. ASSUME l \in 1..m, NEW b \in 1..n, k = m + b PROVE FALSE
    <3>1. s[l] = t[b]
      BY <1>6, <1>7, <2>4
    <3>. QED
      BY <1>3, <1>4, <1>11, <2>4, <3>1
  <2>. QED
    BY <1>8, <2>1, <2>2, <2>3, <2>4
<1>. QED
  BY <1>2, <1>9, <1>10, <1>11 DEF c

(* The sequence of one element.                                            *)
LEMMA SingleDistinct ==
    ASSUME NEW S, NEW e \in S
    PROVE  <<e>> \in Seq(S) /\ ToSet(<<e>>) = {e} /\ IsInjective(<<e>>)
<1>1. <<e>> \in Seq(S) /\ Len(<<e>>) = 1 /\ <<e>>[1] = e
  OBVIOUS
<1>2. 1..1 = {1}
  OBVIOUS
<1>. DEFINE s == <<e>>
<1>. HIDE DEF s
<1>3. s \in Seq(S) /\ Len(s) = 1 /\ s[1] = e
  BY <1>1 DEF s
<1>4. \A x : x \in ToSet(s) <=> \E k \in 1..1 : s[k] = x
  BY <1>3, ToSetByIndex
<1>5. IsInjective(s) <=> \A k, l \in 1..1 : s[k] = s[l] => k = l
  BY <1>3, ToSetByIndex
<1>6. ToSet(s) = {e} /\ IsInjective(s)
  BY <1>2, <1>3, <1>4, <1>5
<1>. QED
  BY <1>3, <1>6 DEF s

(* The sequence of none.                                                   *)
LEMMA EmptyDistinct ==
    /\ ToSet(<<>>) = {} /\ IsInjective(<<>>)
    /\ \A S : \A s \in Seq(S) : ToSet(s) = {} => s = <<>>
<1>1. DOMAIN <<>> = {}
  OBVIOUS
<1>2. ToSet(<<>>) = {}
  BY <1>1 DEF ToSet
<1>3. IsInjective(<<>>)
  BY <1>1 DEF IsInjective
<1>4. ASSUME NEW S, NEW s \in Seq(S), ToSet(s) = {} PROVE s = <<>>
  <2>1. Len(s) \in Nat /\ \A k \in 1..Len(s) : s[k] \in ToSet(s)
    BY ToSetByIndex
  <2>2. Len(s) = 0
    BY <1>4, <2>1
  <2>. QED
    BY <2>2, EmptySeq
<1>. QED
  BY <1>2, <1>3, <1>4

(* A new element at the end.                                               *)
LEMMA AppendDistinct ==
    ASSUME NEW S, NEW s \in Seq(S), NEW e \in S
    PROVE  /\ ToSet(Append(s, e)) = ToSet(s) \cup {e}
           /\ IsInjective(s) /\ e \notin ToSet(s) => IsInjective(Append(s, e))
<1>. DEFINE t == <<e>>
<1>1. Append(s, e) = s \o t
  BY AppendIsConcat
<1>2. t \in Seq(S) /\ ToSet(t) = {e} /\ IsInjective(t)
  BY SingleDistinct
<1>. HIDE DEF t
<1>3. /\ ToSet(s \o t) = ToSet(s) \cup ToSet(t)
      /\ IsInjective(s \o t) <=> /\ IsInjective(s) /\ IsInjective(t)
                                 /\ ToSet(s) \cap ToSet(t) = {}
  BY <1>2, ConcatDistinct
<1>. QED
  BY <1>1, <1>2, <1>3

(* A sequence is its two parts.                                            *)
LEMMA SplitDistinct ==
    ASSUME NEW S, NEW s \in Seq(S), NEW i \in 1..(Len(s) + 1)
    PROVE  LET a == SubSeq(s, 1, i - 1)
               b == SubSeq(s, i, Len(s))
           IN  /\ a \in Seq(S) /\ b \in Seq(S)
               /\ ToSet(s) = ToSet(a) \cup ToSet(b)
               /\ IsInjective(s) => /\ IsInjective(a) /\ IsInjective(b)
                                    /\ ToSet(a) \cap ToSet(b) = {}
<1>. DEFINE a == SubSeq(s, 1, i - 1)
            b == SubSeq(s, i, Len(s))
<1>1. Len(s) \in Nat /\ \A k \in 1..Len(s) : s[k] \in S
  BY LenProperties, ElementOfSeq
<1>2. /\ a \in Seq(S) /\ Len(a) = i - 1 /\ \A k \in 1..(i - 1) : a[k] = s[k]
  <2>1. \A k \in 1..(i - 1) : s[k] \in S
    BY <1>1
  <2>. QED
    BY <1>1, <2>1, SubSeqProperties
<1>3. /\ b \in Seq(S) /\ Len(b) = Len(s) - i + 1
      /\ \A k \in 1..(Len(s) - i + 1) : b[k] = s[i + k - 1]
  <2>1. \A k \in i..Len(s) : s[k] \in S
    BY <1>1
  <2>2. CASE i <= Len(s)
    BY <1>1, <2>1, <2>2, SubSeqProperties
  <2>3. CASE i = Len(s) + 1
    BY <1>1, <2>1, <2>3, SubSeqProperties
  <2>. QED
    BY <1>1, <2>2, <2>3
<1>. HIDE DEF a, b
<1>4. /\ a \o b \in Seq(S) /\ Len(a \o b) = Len(a) + Len(b)
      /\ \A k \in 1..(Len(a) + Len(b)) :
             (a \o b)[k] = IF k <= Len(a) THEN a[k] ELSE b[k - Len(a)]
  BY <1>2, <1>3, ConcatProperties
<1>5. Len(a \o b) = Len(s)
  BY <1>1, <1>2, <1>3, <1>4
<1>6. ASSUME NEW k \in 1..Len(s) PROVE (a \o b)[k] = s[k]
  <2>0. k \in 1..(Len(a) + Len(b))
    BY <1>1, <1>2, <1>3
  <2>1. CASE k <= i - 1
    BY <1>1, <1>2, <1>4, <2>0, <2>1
  <2>2. CASE ~(k <= i - 1)
    <3>1. k - (i - 1) \in 1..(Len(s) - i + 1) /\ i + (k - (i - 1)) - 1 = k
      BY <1>1, <2>2
    <3>2. b[k - (i - 1)] = s[k]
      BY <1>3, <3>1
    <3>. QED
      BY <1>1, <1>2, <1>4, <2>0, <2>2, <3>2
  <2>. QED
    BY <2>1, <2>2
<1>7. a \o b = s
  BY <1>4, <1>5, <1>6, SeqEqual
<1>8. /\ ToSet(a \o b) = ToSet(a) \cup ToSet(b)
      /\ IsInjective(a \o b) <=> /\ IsInjective(a) /\ IsInjective(b)
                                 /\ ToSet(a) \cap ToSet(b) = {}
  BY <1>2, <1>3, ConcatDistinct
<1>. QED
  BY <1>2, <1>3, <1>7, <1>8 DEF a, b

(* A new element anywhere.                                                 *)
LEMMA InsertAtDistinct ==
    ASSUME NEW S, NEW s \in Seq(S), NEW i \in 1..(Len(s) + 1), NEW e \in S
    PROVE  /\ ToSet(InsertAt(s, i, e)) = ToSet(s) \cup {e}
           /\ IsInjective(s) /\ e \notin ToSet(s) => IsInjective(InsertAt(s, i, e))
<1>. DEFINE a == SubSeq(s, 1, i - 1)
            b == SubSeq(s, i, Len(s))
            t == <<e>>
            c == a \o t
<1>1. /\ a \in Seq(S) /\ b \in Seq(S)
      /\ ToSet(s) = ToSet(a) \cup ToSet(b)
      /\ IsInjective(s) => /\ IsInjective(a) /\ IsInjective(b)
                           /\ ToSet(a) \cap ToSet(b) = {}
  BY SplitDistinct
<1>2. InsertAt(s, i, e) = c \o b
  BY DEF InsertAt
<1>. HIDE DEF a, b
<1>3. t \in Seq(S) /\ ToSet(t) = {e} /\ IsInjective(t)
  BY SingleDistinct
<1>. HIDE DEF t
<1>4. /\ c \in Seq(S)
      /\ ToSet(c) = ToSet(a) \cup ToSet(t)
      /\ IsInjective(c) <=> /\ IsInjective(a) /\ IsInjective(t)
                            /\ ToSet(a) \cap ToSet(t) = {}
  BY <1>1, <1>3, ConcatDistinct
<1>. HIDE DEF c
<1>5. /\ ToSet(c \o b) = ToSet(c) \cup ToSet(b)
      /\ IsInjective(c \o b) <=> /\ IsInjective(c) /\ IsInjective(b)
                                 /\ ToSet(c) \cap ToSet(b) = {}
  BY <1>1, <1>4, ConcatDistinct
<1>6. ToSet(InsertAt(s, i, e)) = ToSet(s) \cup {e}
  BY <1>1, <1>2, <1>3, <1>4, <1>5
<1>7. ASSUME IsInjective(s), e \notin ToSet(s) PROVE IsInjective(InsertAt(s, i, e))
  <2>1. ToSet(a) \cap ToSet(t) = {} /\ ToSet(c) \cap ToSet(b) = {}
    BY <1>1, <1>3, <1>4, <1>7
  <2>. QED
    BY <1>1, <1>2, <1>3, <1>4, <1>5, <1>7, <2>1
<1>. QED
  BY <1>6, <1>7

(* A selection of a sequence that repeats nothing repeats nothing.         *)
LEMMA RetainDistinct ==
    ASSUME NEW S, NEW s \in Seq(S), NEW T, IsInjective(s)
    PROVE  IsInjective(Retain(s, T))
<1>. DEFINE K == {i \in 1..Len(s) : s[i] \in T}
<1>1. K \in SUBSET (1..Len(s)) /\ Len(s) \in Nat
  BY LenProperties
<1>2. Retain(s, T) = Kept(s, K)
  BY DEF Retain
<1>3. \A k, l \in 1..Len(s) : s[k] = s[l] => k = l
  BY ToSetByIndex
<1>. HIDE DEF K
<1>4. /\ Kept(s, K) \in Seq(S)
      /\ Len(Kept(s, K)) = Cardinality(K)
      /\ \A j \in 1..Cardinality(K) : Kept(s, K)[j] = s[Nth(K, j)]
  BY <1>1, KeptType
<1>5. \A j \in 1..Cardinality(K) :
          Nth(K, j) \in K /\ Cardinality({m \in K : m <= Nth(K, j)}) = j
  BY <1>1, NthExists
<1>6. ASSUME NEW i \in 1..Cardinality(K), NEW j \in 1..Cardinality(K),
             Kept(s, K)[i] = Kept(s, K)[j]
      PROVE  i = j
  <2>1. Nth(K, i) = Nth(K, j)
    BY <1>1, <1>3, <1>4, <1>5, <1>6
  <2>. QED
    BY <1>5, <2>1
<1>7. IsInjective(Kept(s, K))
  BY <1>4, <1>6, ToSetByIndex
<1>. QED
  BY <1>2, <1>7

(* The first n elements of a sequence that repeats nothing are not among   *)
(* the others.                                                             *)
LEMMA DropFirstDistinct ==
    ASSUME NEW S, NEW s \in Seq(S), NEW n \in Nat, IsInjective(s)
    PROVE  /\ ToSet(DropFirst(s, n)) \subseteq ToSet(s)
           /\ IsInjective(DropFirst(s, n))
           /\ \A k \in 1..Len(s) : k <= n => s[k] \notin ToSet(DropFirst(s, n))
<1>1. Len(s) \in Nat /\ DropFirst(s, n) \in Seq(S)
  BY LenProperties, DropFirstType
<1>2. CASE n > Len(s)
  <2>1. Len(DropFirst(s, n)) = 0
    BY <1>1, <1>2, DropFirstType
  <2>2. DropFirst(s, n) = <<>>
    BY <1>1, <2>1, EmptySeq
  <2>. QED
    BY <2>2, EmptyDistinct
<1>3. CASE ~(n > Len(s))
  <2>. DEFINE i == n + 1
              a == SubSeq(s, 1, i - 1)
              b == SubSeq(s, i, Len(s))
  <2>1. i \in 1..(Len(s) + 1) /\ DropFirst(s, n) = b /\ i - 1 = n
    BY <1>1, <1>3 DEF DropFirst
  <2>2. /\ ToSet(s) = ToSet(a) \cup ToSet(b)
        /\ IsInjective(a) /\ IsInjective(b)
        /\ ToSet(a) \cap ToSet(b) = {}
    BY <2>1, SplitDistinct
  <2>3. ASSUME NEW k \in 1..Len(s), k <= n PROVE s[k] \in ToSet(a)
    <3>1. \A j \in 1..n : s[j] \in S
      BY <1>1, <1>3, ElementOfSeq
    <3>2. a \in Seq(S) /\ Len(a) = n /\ \A j \in 1..n : a[j] = s[j]
      BY <1>1, <1>3, <2>1, <3>1, SubSeqProperties
    <3>3. k \in 1..n
      BY <2>3
    <3>. HIDE DEF a
    <3>. QED
      BY <3>2, <3>3, ToSetByIndex
  <2>. HIDE DEF a, b
  <2>. QED
    BY <2>1, <2>2, <2>3
<1>. QED
  BY <1>2, <1>3

(* The same for the first one alone: the queue behind its front.           *)
LEMMA TailDistinct ==
    ASSUME NEW S, NEW s \in Seq(S), s # <<>>, IsInjective(s)
    PROVE  /\ Tail(s) \in Seq(S)
           /\ IsInjective(Tail(s))
           /\ s[1] \in ToSet(s) /\ s[1] \notin ToSet(Tail(s))
           /\ ToSet(s) = {s[1]} \cup ToSet(Tail(s))
           /\ \A k \in 2..Len(s) : s[k] \in ToSet(Tail(s))
<1>1. Len(s) \in Nat /\ Len(s) # 0 /\ \A k \in 1..Len(s) : s[k] \in S
  BY EmptySeq, LenProperties, ElementOfSeq
<1>. DEFINE e == <<s[1]>>
            t == Tail(s)
<1>2. s[1] \in S /\ t \in Seq(S)
  BY <1>1
<1>3. s = e \o t
  BY <1>1
<1>4. e \in Seq(S) /\ ToSet(e) = {s[1]}
  BY <1>2, SingleDistinct
<1>. HIDE DEF e, t
<1>5. /\ ToSet(s) = {s[1]} \cup ToSet(t)
      /\ IsInjective(t) /\ {s[1]} \cap ToSet(t) = {}
  <2>1. /\ ToSet(e \o t) = ToSet(e) \cup ToSet(t)
        /\ IsInjective(e \o t) <=> /\ IsInjective(e) /\ IsInjective(t)
                                   /\ ToSet(e) \cap ToSet(t) = {}
    BY <1>2, <1>4, ConcatDistinct
  <2>. QED
    BY <1>3, <1>4, <2>1
<1>6. \A k \in 2..Len(s) : s[k] \in ToSet(s) /\ s[k] # s[1]
  BY <1>1, ToSetByIndex
<1>. QED
  BY <1>2, <1>5, <1>6 DEF t

(* A capped push brings nothing else. *)
LEMMA PushCappedRange ==
    ASSUME NEW S, NEW s \in Seq(S), NEW t \in Seq(S), NEW cap \in Nat
    PROVE  ToSet(PushCapped(s, t, cap)) \subseteq ToSet(s) \cup ToSet(t)
<1>. DEFINE all == s \o t
<1>1. all \in Seq(S) /\ Len(all) \in Nat /\ ToSet(all) = ToSet(s) \cup ToSet(t)
  BY ConcatDistinct, LenProperties
<1>2. PushCapped(s, t, cap) =
          IF Len(all) > cap THEN DropFirst(all, Len(all) - cap) ELSE all
  BY DEF PushCapped
<1>. HIDE DEF all
<1>3. CASE Len(all) > cap
  <2>. DEFINE n == Len(all) - cap
              d == DropFirst(all, n)
  <2>1. n \in Nat /\ n <= Len(all)
    BY <1>1, <1>3
  <2>. HIDE DEF n
  <2>2. d \in Seq(S) /\ Len(d) = (IF n < Len(all) THEN Len(all) - n ELSE 0)
    BY <1>1, <2>1, DropFirstType
  <2>3. \A k \in 1..Len(d) : d[k] = all[n + k] /\ n + k \in 1..Len(all)
    BY <1>1, <2>1, <2>2 DEF DropFirst
  <2>. HIDE DEF d
  <2>4. \A x : x \in ToSet(d) => \E k \in 1..Len(d) : d[k] = x
    BY <2>2, ToSetByIndex
  <2>5. \A x : (\E k \in 1..Len(all) : all[k] = x) => x \in ToSet(all)
    BY <1>1, ToSetByIndex
  <2>6. ToSet(d) \subseteq ToSet(all)
    BY <2>3, <2>4, <2>5
  <2>. QED
    BY <1>1, <1>2, <1>3, <2>6 DEF n, d
<1>4. CASE ~(Len(all) > cap)
  BY <1>1, <1>2, <1>4
<1>. QED
  BY <1>3, <1>4

(* A queue of which nothing is left without its first run was that run.    *)
LEMMA RunIsAll ==
    ASSUME NEW S, NEW s \in Seq(S), NEW T, DropFirst(s, RunLength(s, 1, T)) = <<>>
    PROVE  ToSet(s) \subseteq T
<1>. DEFINE R == {j \in 1..Len(s) : \A k \in 1..j : s[k] \in T}
            r == RunLength(s, 1, T)
<1>1. Len(s) \in Nat
  BY LenProperties
<1>2. r \in 0..Len(s) /\ r = Cardinality(R)
  <2>1. 1 \in 1..(Len(s) + 1)
    BY <1>1
  <2>2. RunLength(s, 1, T) \in 0..(Len(s) + 1 - 1)
    BY <2>1, RunLengthBound
  <2>3. RunLength(s, 1, T) = Cardinality(R)
    BY DEF RunLength
  <2>. HIDE DEF R
  <2>. QED
    BY <1>1, <2>2, <2>3
<1>. HIDE DEF r
<1>3. r = Len(s)
  <2>1. Len(DropFirst(s, r)) = IF r < Len(s) THEN Len(s) - r ELSE 0
    <3>1. r \in Nat
      BY <1>1, <1>2
    <3>. QED
      BY <3>1, DropFirstType
  <2>2. Len(DropFirst(s, r)) = 0
    BY DEF r
  <2>. QED
    BY <1>1, <1>2, <2>1, <2>2
<1>4. R = 1..Len(s)
  <2>1. IsFiniteSet(1..Len(s)) /\ Cardinality(1..Len(s)) = Len(s)
    BY <1>1, FS_Interval
  <2>2. R \in SUBSET (1..Len(s))
    OBVIOUS
  <2>. HIDE DEF R
  <2>3. Cardinality(R) = Cardinality(1..Len(s)) => R = 1..Len(s)
    BY <2>1, <2>2, FS_Subset
  <2>. QED
    BY <1>2, <1>3, <2>1, <2>3
<1>5. \A k \in 1..Len(s) : s[k] \in T
  <2>. SUFFICES ASSUME NEW k \in 1..Len(s) PROVE s[k] \in T
    OBVIOUS
  <2>1. k \in R /\ k \in 1..k
    BY <1>1, <1>4
  <2>. QED
    BY <2>1
<1>. QED
  BY <1>5, ToSetByIndex
=============================================================================
