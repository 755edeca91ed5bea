-------------------------- MODULE SubsequencesProofs --------------------------
(***************************************************************************)
(* What the operators of Subsequences return, for every sequence.  They    *)
(* hold lemmas that the proofs about other modules rest on.                *)
(***************************************************************************)
EXTENDS Subsequences, Integers, TLAPS, FiniteSetTheorems, SequenceTheorems, FunctionTheorems

\* A non-empty set of natural numbers has a least element.  (What is said of all
\* numbers is proved from it, by the least number of which it is false.)
LEMMA LeastNatural ==
    ASSUME NEW I, I \subseteq Nat, I # {}
    PROVE  \E x \in I : \A y \in I : x <= y
<1>1. PICK R : IsWellFoundedOn(R, Nat) /\ \A x, y \in Nat : x < y => << x, y >> \in R
  BY NatLessThanWellFounded DEF OpToRel
<1>2. \E x \in I : \A y \in I : ~ (<< y, x >> \in R)
  <2>1. IsWellFoundedOn(R, Nat)
    BY <1>1
  <2> HIDE <1>1
  <2>2. QED
    BY <2>1, WFMin, Zenon
<1>3. PICK x \in I : \A y \in I : ~ (<< y, x >> \in R)
  BY <1>2
<1>4. ASSUME NEW y \in I PROVE x <= y
  <2>1. ~ (<< y, x >> \in R)
    BY <1>3
  <2>2. x \in Nat /\ y \in Nat
    OBVIOUS
  <2>3. ~ (y < x)
    BY <1>1, <2>1, <2>2
  <2>4. QED
    BY <2>2, <2>3
<1>5. QED
  BY <1>4

\* The numbers of I up to k.
FirstOf(I, k) == {j \in I : j <= k}

\* A set of K or fewer numbers up to K has an n-th, up to its size.
LEMMA NthOfInterval ==
    ASSUME NEW K \in Nat, NEW I, I \subseteq 1 .. K, NEW n \in 1 .. Cardinality(I)
    PROVE  Nth(I, n) \in I /\ Cardinality(FirstOf(I, Nth(I, n))) = n
<1> DEFINE Upto(k) == {j \in I : j <= k}
           Reach == {k \in 0 .. K : Cardinality(Upto(k)) >= n}
<1>1. IsFiniteSet(I) /\ Cardinality(I) \in Nat
  <2>1. IsFiniteSet(1 .. K)
    BY FS_Interval
  <2>2. QED
    BY <2>1, FS_Subset, FS_CardinalityType
<1>2. \A k \in 0 .. K : IsFiniteSet(Upto(k)) /\ Cardinality(Upto(k)) \in Nat
  <2>1. TAKE k \in 0 .. K
  <2>2. Upto(k) \subseteq I
    OBVIOUS
  <2>3. QED
    BY <1>1, <2>2, FS_Subset, FS_CardinalityType
<1>0. \A j \in I : j \in Int /\ 1 <= j /\ j <= K
  OBVIOUS
<1>3. Upto(K) = I /\ Upto(0) = {}
  <2>1. \A j \in I : j <= K /\ ~ (j <= 0)
    BY <1>0
  <2>2. QED
    BY <2>1
<1>4. K \in Reach
  <2>1. Cardinality(Upto(K)) = Cardinality(I)
    BY <1>3
  <2>2. K \in 0 .. K
    OBVIOUS
  <2> HIDE DEF Upto
  <2>3. QED
    BY <1>1, <2>1, <2>2
<1>5. PICK k \in Reach : \A y \in Reach : k <= y
  <2>1. Reach \subseteq Nat
    OBVIOUS
  <2> HIDE DEF Reach
  <2>2. QED
    BY <1>4, <2>1, LeastNatural
<1>6. k \in 0 .. K /\ Cardinality(Upto(k)) >= n
  <2> HIDE DEF Upto
  <2>1. QED
    BY <1>5
<1>7. k > 0
  <2>1. Cardinality(Upto(0)) = 0
    BY <1>3, FS_EmptySet
  <2> HIDE DEF Upto
  <2>2. QED
    BY <1>6, <2>1
<1>8. Cardinality(Upto(k - 1)) < n /\ Cardinality(Upto(k - 1)) \in Nat /\ IsFiniteSet(Upto(k - 1))
  <2>1. k - 1 \in 0 .. K /\ ~ (k <= k - 1)
    BY <1>6, <1>7
  <2>2. k - 1 \notin Reach
    BY <1>5, <2>1
  <2> HIDE DEF Upto
  <2>3. QED
    BY <1>2, <2>1, <2>2
<1>9. k \in I
  <2>1. SUFFICES ASSUME k \notin I PROVE FALSE
    OBVIOUS
  <2>2. Upto(k) = Upto(k - 1)
    <3>1. \A j \in I : j <= k <=> j <= k - 1
      BY <1>0, <1>6, <1>7, <2>1
    <3>2. QED
      BY <3>1
  <2>3. Cardinality(Upto(k)) = Cardinality(Upto(k - 1))
    BY <2>2
  <2> HIDE DEF Upto
  <2>4. QED
    BY <1>6, <1>8, <2>3
<1>10. Cardinality(Upto(k)) = n
  <2>1. Upto(k) = Upto(k - 1) \cup {k} /\ k \notin Upto(k - 1)
    <3>1. \A j \in I : j <= k <=> j <= k - 1 \/ j = k
      BY <1>0, <1>6, <1>7
    <3>2. k \in Int /\ k <= k /\ ~ (k <= k - 1)
      BY <1>6, <1>7
    <3>3. QED
      BY <1>9, <3>1, <3>2
  <2>2. Cardinality(Upto(k - 1) \cup {k}) = Cardinality(Upto(k - 1)) + 1
    BY <1>8, <2>1, FS_AddElement
  <2>3. Cardinality(Upto(k)) = Cardinality(Upto(k - 1)) + 1
    BY <2>1, <2>2
  <2> HIDE DEF Upto
  <2>4. QED
    BY <1>6, <1>8, <2>3
<1>11. QED
  BY <1>9, <1>10 DEF Nth, FirstOf

\* Different n have different n-th elements.
LEMMA NthDiffer ==
    ASSUME NEW K \in Nat, NEW I, I \subseteq 1 .. K,
           NEW n \in 1 .. Cardinality(I), NEW m \in 1 .. Cardinality(I), Nth(I, n) = Nth(I, m)
    PROVE  n = m
<1>1. Cardinality(FirstOf(I, Nth(I, n))) = n /\ Cardinality(FirstOf(I, Nth(I, m))) = m
  BY NthOfInterval
<1>2. QED
  BY <1>1

\* What is taken at places of a sequence is elements of it, as many as places.
LEMMA ElementsAtPlaces ==
    ASSUME NEW S, NEW s \in Seq(S), NEW I, I \subseteq DOMAIN s, NEW part, part = AtPlaces(s, I)
    PROVE  /\ part \in Seq(S) /\ Len(part) = Cardinality(I) /\ Cardinality(I) \in Nat
           /\ \A n \in DOMAIN part : Nth(I, n) \in I /\ part[n] = s[Nth(I, n)]
           /\ \A n, m \in DOMAIN part : Nth(I, n) = Nth(I, m) => n = m
<1>1. Len(s) \in Nat /\ DOMAIN s = 1 .. Len(s) /\ I \subseteq 1 .. Len(s)
  OBVIOUS
<1>2. Cardinality(I) \in Nat
  <2>1. IsFiniteSet(1 .. Len(s))
    BY <1>1, FS_Interval
  <2>2. QED
    BY <1>1, <2>1, FS_Subset, FS_CardinalityType
<1>3. \A n \in 1 .. Cardinality(I) : Nth(I, n) \in I
  BY <1>1, NthOfInterval
<1>4. \A n, m \in 1 .. Cardinality(I) : Nth(I, n) = Nth(I, m) => n = m
  BY <1>1, NthDiffer
<1>5. part \in [1 .. Cardinality(I) -> S] /\ \A n \in 1 .. Cardinality(I) : part[n] = s[Nth(I, n)]
  BY <1>1, <1>3 DEF AtPlaces
<1>6. part \in Seq(S) /\ Len(part) = Cardinality(I) /\ DOMAIN part = 1 .. Cardinality(I)
  BY <1>2, <1>5
<1>7. QED
  BY <1>2, <1>3, <1>4, <1>5, <1>6

\* There are n numbers from 1 to n.
LEMMA NumbersUpTo ==
    ASSUME NEW n \in Nat
    PROVE  IsFiniteSet(1 .. n) /\ Cardinality(1 .. n) = n
BY FS_Interval

\* A non-empty set of numbers up to K has a greatest element.
LEMMA GreatestNatural ==
    ASSUME NEW K \in Nat, NEW I, I \subseteq 1 .. K, I # {}
    PROVE  \E x \in I : \A y \in I : y <= x
<1> DEFINE Bounds == {k \in Nat : \A y \in I : y <= k}
<1>1. \A y \in I : y \in Nat /\ y >= 1 /\ y <= K
  OBVIOUS
<1>2. K \in Bounds /\ Bounds \subseteq Nat
  BY <1>1
<1>3. PICK b \in Bounds : \A k \in Bounds : b <= k
  <2> HIDE DEF Bounds
  <2>1. QED
    BY <1>2, LeastNatural
<1>4. b \in Nat /\ \A y \in I : y <= b
  OBVIOUS
<1>5. b \in I
  <2>1. SUFFICES ASSUME b \notin I PROVE FALSE
    OBVIOUS
  <2>2. \A y \in I : y <= b - 1
    BY <1>1, <1>4, <2>1
  <2>3. PICK y \in I : TRUE
    OBVIOUS
  <2>4. b - 1 \in Nat
    BY <1>1, <1>4, <2>2, <2>3
  <2>5. b - 1 \in Bounds
    BY <2>2, <2>4
  <2>6. b <= b - 1
    BY <1>3, <2>5
  <2>7. QED
    BY <1>4, <2>6
<1>6. QED
  BY <1>4, <1>5

\* Every number of the set is the n-th for some n.
LEMMA NthCovers ==
    ASSUME NEW K \in Nat, NEW I, I \subseteq 1 .. K, NEW i \in I
    PROVE  \E n \in 1 .. Cardinality(I) : Nth(I, n) = i
<1>1. IsFiniteSet(1 .. K)
  BY NumbersUpTo
<1>2. IsFiniteSet(I) /\ Cardinality(I) \in Nat
  BY <1>1, FS_Subset, FS_CardinalityType
<1>3. PICK N \in Nat : N = Cardinality(I)
  BY <1>2
<1>4. PICK f : f = [n \in 1 .. N |-> Nth(I, n)]
  OBVIOUS
<1>5. \A n \in 1 .. N : f[n] \in I
  BY <1>3, <1>4, NthOfInterval
<1>6. \A n, m \in 1 .. N : f[n] = f[m] => n = m
  <2>1. TAKE n, m \in 1 .. N
  <2>2. HAVE f[n] = f[m]
  <2>3. n \in 1 .. Cardinality(I) /\ m \in 1 .. Cardinality(I) /\ Nth(I, n) = Nth(I, m)
    BY <1>3, <1>4, <2>2
  <2>4. QED
    BY <2>3, NthDiffer
<1>7. f \in [1 .. N -> I]
  BY <1>4, <1>5
<1>8. f \in Injection(1 .. N, I)
  BY <1>6, <1>7, Fun_IsInj
<1>9. IsFiniteSet(1 .. N) /\ Cardinality(1 .. N) = Cardinality(I)
  BY <1>3, NumbersUpTo
<1>10. f \in Surjection(1 .. N, I)
  BY <1>2, <1>8, <1>9, FS_Injection
<1>11. PICK n \in 1 .. N : f[n] = i
  BY <1>10 DEF Surjection
<1>12. QED
  BY <1>3, <1>4, <1>11

\* What is at one of the places is taken.
LEMMA AtPlacesCovers ==
    ASSUME NEW S, NEW s \in Seq(S), NEW I, I \subseteq DOMAIN s, NEW part, part = AtPlaces(s, I), NEW i \in I
    PROVE  \E n \in DOMAIN part : part[n] = s[i]
<1>1. Len(s) \in Nat /\ DOMAIN s = 1 .. Len(s) /\ I \subseteq 1 .. Len(s)
  OBVIOUS
<1>2. PICK n \in 1 .. Cardinality(I) : Nth(I, n) = i
  BY <1>1, NthCovers
<1>3. DOMAIN part = 1 .. Cardinality(I) /\ part[n] = s[Nth(I, n)]
  BY DEF AtPlaces
<1>4. QED
  BY <1>2, <1>3
===============================================================================
