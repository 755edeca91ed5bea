------------------------------ MODULE SeatsProofs ------------------------------
(***************************************************************************)
(* Proofs about the seats of a committee: for every committee, stake, fee  *)
(* and funds.  Module Seats has no specification of its own; the theorems  *)
(* that use these lemmas are in GovernanceProofs.                          *)
(***************************************************************************)
EXTENDS Seats, SubsequencesProofs

(* The strengthening that makes the properties inductive. *)

\* Who has taken a position on the motion under way.
Taking(position) == {a \in Accounts : motion.positions[a] = position}

\* The counters of a motion count its positions, which are those of members, and
\* neither side has reached the majority, or the motion would have been closed.
MotionCounted ==
    /\ motion.yays = Cardinality(Taking("yes")) /\ motion.nays = Cardinality(Taking("no"))
    /\ \A a \in Accounts : motion.positions[a] # "none" => a \in Seated
    /\ motion.yays < Majority /\ motion.nays < Majority

\* Whoever is to lose a seat, by the votes or by giving it up, has one or lost it
\* otherwise.
NextToGo ==
    /\ relinquishing # None => relinquishing \in Seated \cup lapsed.ghosts
    /\ confidence.last # None => confidence.last \in Seated \cup lapsed.ghosts

SeatsInv == SeatsTypeOK /\ MotionCounted /\ StakesHeld /\ NextToGo

----------------------------------------------------------------------------
(* Facts about the operators. *)

\* A non-empty set of natural numbers has a least element, and Min is it.
LEMMA MinOfNaturals ==
    ASSUME NEW I, I \subseteq Nat, I # {}
    PROVE  Min(I) \in I /\ \A j \in I : Min(I) <= j
<1>1. PICK x \in I : \A y \in I : x <= y
  BY LeastNatural
<1>2. QED
  BY <1>1 DEF Min

\* The sequence without its place k.
LEMMA RemovedAt ==
    ASSUME NEW S, NEW s \in Seq(S), NEW k \in 1 .. Len(s)
    PROVE  /\ RemoveAt(s, k) \in Seq(S) /\ Len(RemoveAt(s, k)) = Len(s) - 1
           /\ \A i \in 1 .. Len(s) - 1 : RemoveAt(s, k)[i] = IF i < k THEN s[i] ELSE s[i + 1]
<1>1. Len(s) \in Int /\ k - 1 \in Int /\ k + 1 \in Int /\ k \in Int
  OBVIOUS
<1>2. /\ \A i \in 1 .. k - 1 : s[i] \in S
      /\ \A i \in k + 1 .. Len(s) : s[i] \in S
  BY <1>1, ElementOfSeq
<1>3. /\ SubSeq(s, 1, k - 1) \in Seq(S) /\ Len(SubSeq(s, 1, k - 1)) = k - 1
      /\ \A i \in 1 .. k - 1 : SubSeq(s, 1, k - 1)[i] = s[i]
  BY <1>1, <1>2, SubSeqProperties
<1>4. /\ SubSeq(s, k + 1, Len(s)) \in Seq(S)
      /\ Len(SubSeq(s, k + 1, Len(s))) = Len(s) - k
      /\ \A i \in 1 .. Len(s) - (k + 1) + 1 : SubSeq(s, k + 1, Len(s))[i] = s[(k + 1) + i - 1]
  BY <1>1, <1>2, SubSeqProperties
<1>5. \A i \in 1 .. Len(s) - k :
         i \in 1 .. Len(s) - (k + 1) + 1 /\ (k + 1) + i - 1 = i + k
  BY <1>1
<1>6. \A i \in 1 .. Len(s) - k : SubSeq(s, k + 1, Len(s))[i] = s[i + k]
  BY <1>4, <1>5
<1> DEFINE p == SubSeq(s, 1, k - 1)
           q == SubSeq(s, k + 1, Len(s))
<1>7. p \in Seq(S) /\ Len(p) = k - 1 /\ \A i \in 1 .. k - 1 : p[i] = s[i]
  BY <1>3
<1>8. q \in Seq(S) /\ Len(q) = Len(s) - k /\ \A i \in 1 .. Len(s) - k : q[i] = s[i + k]
  BY <1>4, <1>6
<1>9. RemoveAt(s, k) = p \o q
  BY DEF RemoveAt
<1> HIDE DEF p, q
<1>10. /\ p \o q \in Seq(S) /\ Len(p \o q) = Len(p) + Len(q)
       /\ \A i \in 1 .. Len(p) + Len(q) : (p \o q)[i] = IF i <= Len(p) THEN p[i] ELSE q[i - Len(p)]
  BY <1>7, <1>8, ConcatProperties
<1>11. Len(p) + Len(q) = Len(s) - 1
  BY <1>1, <1>7, <1>8
<1>12. ASSUME NEW i \in 1 .. Len(s) - 1 PROVE (p \o q)[i] = IF i < k THEN s[i] ELSE s[i + 1]
  <2>1. CASE i < k
    BY <1>1, <1>7, <1>10, <1>11, <2>1
  <2>2. CASE ~ (i < k)
    <3>1. i - Len(p) \in 1 .. Len(s) - k /\ (i - Len(p)) + k = i + 1
      BY <1>1, <1>7, <2>2
    <3>2. q[i - Len(p)] = s[i + 1]
      BY <1>8, <3>1
    <3>3. QED
      BY <1>1, <1>7, <1>10, <1>11, <2>2, <3>2
  <2>3. QED
    BY <2>1, <2>2
<1>13. QED
  BY <1>9, <1>10, <1>11, <1>12

\* RemoveFirst removes a place where e is.
LEMMA RemovedFirstAt ==
    ASSUME NEW S, NEW s \in Seq(S), NEW e \in ToSet(s)
    PROVE  \E k \in 1 .. Len(s) : s[k] = e /\ RemoveFirst(s, e) = RemoveAt(s, k)
<1> DEFINE I == {i \in 1 .. Len(s) : s[i] = e}
<1>1. Len(s) \in Nat /\ DOMAIN s = 1 .. Len(s)
  OBVIOUS
<1>2. I # {} /\ I \subseteq Nat
  BY <1>1 DEF ToSet
<1>3. Min(I) \in I
  BY <1>2, MinOfNaturals
<1>4. RemoveFirst(s, e) = RemoveAt(s, Min(I))
  BY <1>2 DEF RemoveFirst, SelectInSeq
<1>5. QED
  BY <1>3, <1>4

\* The number of places of s where e is.
Occurrences(s, e) == Cardinality({i \in DOMAIN s : s[i] = e})

\* Removing the first occurrence of e takes one place away from e, none from others.
LEMMA RemovedFirst ==
    ASSUME NEW S, NEW s \in Seq(S), NEW e \in ToSet(s), NEW r, r = RemoveFirst(s, e)
    PROVE  /\ r \in Seq(S)
           /\ ToSet(s) \ {e} \subseteq ToSet(r)
           /\ Occurrences(r, e) < Occurrences(s, e)
<1> DEFINE I == {i \in 1 .. Len(s) : s[i] = e}
           J == {i \in DOMAIN r : r[i] = e}
<1>1. Len(s) \in Nat /\ DOMAIN s = 1 .. Len(s)
  OBVIOUS
<1>2. PICK k \in 1 .. Len(s) : s[k] = e /\ r = RemoveAt(s, k)
  BY RemovedFirstAt
<1>3. /\ r \in Seq(S) /\ DOMAIN r = 1 .. Len(s) - 1
      /\ \A i \in 1 .. Len(s) - 1 : r[i] = IF i < k THEN s[i] ELSE s[i + 1]
  <2>1. /\ r \in Seq(S) /\ Len(r) = Len(s) - 1
        /\ \A i \in 1 .. Len(s) - 1 : r[i] = IF i < k THEN s[i] ELSE s[i + 1]
    BY <1>2, RemovedAt
  <2>2. DOMAIN r = 1 .. Len(r)
    BY <2>1
  <2>3. QED
    BY <2>1, <2>2
<1>4. ASSUME NEW x \in ToSet(s) \ {e} PROVE x \in ToSet(r)
  <2>1. PICK i \in 1 .. Len(s) : s[i] = x
    BY <1>1 DEF ToSet
  <2>2. CASE i < k
    BY <1>1, <1>3, <2>1, <2>2, SMTT(30) DEF ToSet
  <2>3. CASE i > k
    <3>1. i - 1 \in DOMAIN r /\ r[i - 1] = s[i]
      BY <1>1, <1>3, <2>1, <2>3
    <3>2. QED
      BY <2>1, <3>1 DEF ToSet
  <2>4. QED
    BY <1>1, <1>2, <2>1, <2>2, <2>3
<1>5. Cardinality(J) < Cardinality(I)
  <2> DEFINE f == [j \in J |-> IF j < k THEN j ELSE j + 1]
  <2>1. IsFiniteSet(I)
    <3>1. IsFiniteSet(1 .. Len(s)) /\ I \in SUBSET (1 .. Len(s))
      BY <1>1, FS_Interval
    <3>2. QED
      BY <3>1, FS_Subset
  <2>2. IsFiniteSet(I \ {k}) /\ Cardinality(I \ {k}) = Cardinality(I) - 1
    BY <1>2, <2>1, FS_RemoveElement
  <2>3. f \in [J -> I \ {k}]
    BY <1>1, <1>2, <1>3
  <2>4. \A i, j \in J : f[i] = f[j] => i = j
    BY <1>1, <1>2, <1>3
  <2>5. f \in Injection(J, I \ {k})
    BY <2>3, <2>4 DEF Injection, IsInjective
  <2> HIDE DEF f
  <2>6. Cardinality(J) <= Cardinality(I \ {k}) /\ IsFiniteSet(J)
    BY <2>2, <2>5, FS_Injection
  <2>7. QED
    BY <2>1, <2>2, <2>6, FS_CardinalityType
<1>6. Occurrences(r, e) = Cardinality(J) /\ Occurrences(s, e) = Cardinality(I)
  BY <1>1 DEF Occurrences
<1>7. QED
  BY <1>3, <1>4, <1>5, <1>6

----------------------------------------------------------------------------
(* Sums over finite sets.  A sum is a fold, and a fold is a function on the *)
(* subsets, which has to be shown to exist.  What is said of all subsets is *)
(* proved from the least size of one of which it is false.                  *)

\* What b has at the elements of S, added up.
SumOver(b, S) == MapThenSumSet(LAMBDA x : b[x], S)

\* The element that the fold takes next.
Picked(s) == CHOOSE x \in s : TRUE

\* g is the fold's function on the subsets of s.
AddsUp(g, b, s) == \A t \in SUBSET s : g[t] = IF t = {} THEN 0 ELSE b[Picked(t)] + g[t \ {Picked(t)}]

LEMMA PickedIn == \A s : s # {} => Picked(s) \in s
BY DEF Picked

\* What holds of a set whenever it holds of the set without any one element,
\* holds of all subsets of a finite set.
LEMMA SubsetInduction ==
    ASSUME NEW S, IsFiniteSet(S), NEW T,
           \A s \in SUBSET S : (\A x \in s : s \ {x} \in T) => s \in T
    PROVE  \A s \in SUBSET S : s \in T
<1> SUFFICES ASSUME NEW u \in SUBSET S, u \notin T PROVE FALSE
  OBVIOUS
<1> DEFINE Sizes == {n \in Nat : \E s \in SUBSET S : s \notin T /\ Cardinality(s) = n}
<1>1. \A s \in SUBSET S : IsFiniteSet(s) /\ Cardinality(s) \in Nat
  BY FS_Subset, FS_CardinalityType
<1>2. Sizes # {} /\ Sizes \subseteq Nat
  BY <1>1
<1> HIDE DEF Sizes
<1>3. PICK n \in Sizes : \A m \in Sizes : n <= m
  BY <1>2, LeastNatural
<1>4. PICK s \in SUBSET S : s \notin T /\ Cardinality(s) = n
  BY <1>3 DEF Sizes
<1>5. PICK x \in s : s \ {x} \notin T
  BY <1>4
<1>6. s \ {x} \in SUBSET S /\ Cardinality(s \ {x}) = n - 1 /\ n \in Nat
  BY <1>1, <1>4, FS_RemoveElement
<1>7. n - 1 \in Sizes
  BY <1>1, <1>5, <1>6 DEF Sizes
<1>8. QED
  BY <1>3, <1>6, <1>7

\* Two such functions agree wherever both are defined.
LEMMA FoldUnique ==
    ASSUME NEW S, IsFiniteSet(S), NEW b, NEW g, NEW h,
           NEW s \in SUBSET S, AddsUp(g, b, s), NEW t \in SUBSET S, AddsUp(h, b, t)
    PROVE  \A u \in SUBSET S : u \subseteq s /\ u \subseteq t => g[u] = h[u]
<1> DEFINE T == {u \in SUBSET S : u \subseteq s /\ u \subseteq t => g[u] = h[u]}
<1>1. ASSUME NEW u \in SUBSET S, \A x \in u : u \ {x} \in T PROVE u \in T
  <2> SUFFICES ASSUME u \subseteq s, u \subseteq t PROVE g[u] = h[u]
    OBVIOUS
  <2>1. CASE u = {}
    BY <2>1 DEF AddsUp
  <2>2. CASE u # {}
    <3>1. Picked(u) \in u
      BY <2>2, PickedIn
    <3>2. g[u \ {Picked(u)}] = h[u \ {Picked(u)}]
      BY <1>1, <3>1
    <3>3. QED
      BY <2>2, <3>2 DEF AddsUp
  <2>3. QED
    BY <2>1, <2>2
<1> HIDE DEF T
<1>2. \A u \in SUBSET S : u \in T
  BY <1>1, SubsetInduction
<1>3. QED
  BY <1>2 DEF T

\* There is such a function, on the subsets of any finite set.
LEMMA FoldExists ==
    ASSUME NEW S, IsFiniteSet(S), NEW b, \A x \in S : b[x] \in Int
    PROVE  \E g \in [SUBSET S -> Int] : AddsUp(g, b, S)
<1> DEFINE Has(r) == \E g \in [SUBSET r -> Int] : AddsUp(g, b, r)
           T == {s \in SUBSET S : \A r \in SUBSET s : Has(r)}
<1>1. ASSUME NEW s \in SUBSET S, \A x \in s : s \ {x} \in T PROVE s \in T
  <2> DEFINE Of(t) == CHOOSE g \in [SUBSET t -> Int] : AddsUp(g, b, t)
             g == [t \in SUBSET s |-> IF t = {} THEN 0
                       ELSE b[Picked(t)] + Of(t \ {Picked(t)})[t \ {Picked(t)}]]
  <2>1. ASSUME NEW r \in SUBSET s, r # s
        PROVE  Has(r) /\ Of(r) \in [SUBSET r -> Int] /\ AddsUp(Of(r), b, r)
    <3>1. PICK x \in s : x \notin r
      BY <2>1
    <3>2. r \in SUBSET (s \ {x}) /\ s \ {x} \in T
      BY <1>1, <3>1
    <3>3. Has(r)
      BY <3>2
    <3>4. QED
      BY <3>3
  <2> HIDE DEF Of, T
  <2>2. ASSUME NEW t \in SUBSET s, t # {}
        PROVE  /\ Picked(t) \in t /\ b[Picked(t)] \in Int
               /\ t \ {Picked(t)} \in SUBSET s /\ t \ {Picked(t)} # s
               /\ Of(t \ {Picked(t)})[t \ {Picked(t)}] \in Int
    <3>1. Picked(t) \in t
      BY <2>2, PickedIn
    <3>2. b[Picked(t)] \in Int /\ t \ {Picked(t)} \in SUBSET s /\ t \ {Picked(t)} # s
      BY <3>1
    <3>3. QED
      BY <2>1, <3>1, <3>2
  <2>3. g \in [SUBSET s -> Int]
    BY <2>2
  <2>4. ASSUME NEW t \in SUBSET s, t # {}
        PROVE  g[t] = b[Picked(t)] + g[t \ {Picked(t)}]
    <3> DEFINE u == t \ {Picked(t)}
               v == u \ {Picked(u)}
    <3>1. u \in SUBSET s /\ u # s /\ g[t] = b[Picked(t)] + Of(u)[u]
      BY <2>2, <2>4
    <3>2. AddsUp(Of(u), b, u)
      BY <2>1, <3>1
    <3>3. CASE u = {}
      BY <3>1, <3>2, <3>3 DEF AddsUp
    <3>4. CASE u # {}
      <4>1. v \in SUBSET s /\ v # s /\ v \in SUBSET u
        BY <2>2, <3>1, <3>4
      <4>2. AddsUp(Of(v), b, v)
        BY <2>1, <4>1
      <4>3. Of(u)[v] = Of(v)[v]
        BY <3>1, <3>2, <4>1, <4>2, FoldUnique
      <4>4. Of(u)[u] = b[Picked(u)] + Of(u)[v]
        BY <3>2, <3>4 DEF AddsUp
      <4>5. g[u] = b[Picked(u)] + Of(v)[v]
        BY <3>1, <3>4
      <4>6. QED
        BY <3>1, <4>3, <4>4, <4>5
    <3>5. QED
      BY <3>3, <3>4
  <2>5. g[{}] = 0
    OBVIOUS
  <2> HIDE DEF g
  <2>6. AddsUp(g, b, s)
    BY <2>4, <2>5 DEF AddsUp
  <2>7. Has(s)
    BY <2>3, <2>6
  <2>8. \A r \in SUBSET s : Has(r)
    BY <2>1, <2>7
  <2>9. QED
    BY <2>8 DEF T
<1> HIDE DEF T
<1>2. \A s \in SUBSET S : s \in T
  BY <1>1, SubsetInduction
<1>3. QED
  BY <1>2 DEF T

\* The sum is what such a function has for the whole set.
LEMMA SumFolds ==
    ASSUME NEW S, IsFiniteSet(S), NEW b, NEW s \in SUBSET S, NEW g, AddsUp(g, b, S)
    PROVE  SumOver(b, s) = g[s]
<1> DEFINE Is(h) == h = [t \in SUBSET s |-> IF t = {} THEN 0 ELSE b[Picked(t)] + h[t \ {Picked(t)}]]
           k == [t \in SUBSET s |-> g[t]]
           iter == CHOOSE h : Is(h)
<1>1. SumOver(b, s) = iter[s]
  BY DEF SumOver, MapThenSumSet, MapThenFoldSet, Picked
<1>2. ASSUME NEW t \in SUBSET s
      PROVE  k[t] = IF t = {} THEN 0 ELSE b[Picked(t)] + k[t \ {Picked(t)}]
  BY DEF AddsUp
<1>3. Is(k)
  <2>1. k = [t \in SUBSET s |-> k[t]]
    OBVIOUS
  <2> HIDE DEF k
  <2>2. QED
    BY <1>2, <2>1
<1> HIDE DEF k
<1>4. Is(iter)
  BY <1>3
<1> HIDE DEF iter
<1>5. AddsUp(iter, b, s)
  BY <1>4 DEF AddsUp
<1>6. iter[s] = g[s]
  BY <1>5, FoldUnique
<1>7. QED
  BY <1>1, <1>6

\* The sum of no elements is 0, and each element of a set adds its own.
LEMMA SumProperties ==
    ASSUME NEW S, IsFiniteSet(S), NEW b, \A x \in S : b[x] \in Int
    PROVE  /\ SumOver(b, {}) = 0
           /\ \A s \in SUBSET S :
                /\ SumOver(b, s) \in Int
                /\ \A x \in s : SumOver(b, s) = b[x] + SumOver(b, s \ {x})
<1>1. PICK g \in [SUBSET S -> Int] : AddsUp(g, b, S)
  BY FoldExists
<1>2. \A s \in SUBSET S : SumOver(b, s) = g[s]
  BY <1>1, SumFolds
<1>3. SumOver(b, {}) = 0 /\ \A s \in SUBSET S : SumOver(b, s) \in Int
  BY <1>1, <1>2 DEF AddsUp
<1>4. ASSUME NEW s \in SUBSET S, s # {}
      PROVE  Picked(s) \in s /\ SumOver(b, s) = b[Picked(s)] + SumOver(b, s \ {Picked(s)})
  <2>1. Picked(s) \in s /\ s \ {Picked(s)} \in SUBSET S
    BY <1>4, PickedIn
  <2>2. QED
    BY <1>1, <1>2, <1>4, <2>1 DEF AddsUp
<1> DEFINE T == {s \in SUBSET S : \A x \in s : SumOver(b, s) = b[x] + SumOver(b, s \ {x})}
<1>5. ASSUME NEW s \in SUBSET S, \A x \in s : s \ {x} \in T PROVE s \in T
  <2> SUFFICES ASSUME NEW x \in s PROVE SumOver(b, s) = b[x] + SumOver(b, s \ {x})
    OBVIOUS
  <2> DEFINE p == Picked(s)
  <2>1. p \in s /\ SumOver(b, s) = b[p] + SumOver(b, s \ {p})
    BY <1>4
  <2>2. CASE x = p
    BY <2>1, <2>2
  <2>3. CASE x # p
    <3>1. SumOver(b, s \ {p}) = b[x] + SumOver(b, (s \ {p}) \ {x})
      BY <1>5, <2>1, <2>3
    <3>2. SumOver(b, s \ {x}) = b[p] + SumOver(b, (s \ {x}) \ {p})
      BY <1>5, <2>1, <2>3
    <3>3. (s \ {p}) \ {x} = (s \ {x}) \ {p} /\ (s \ {x}) \ {p} \in SUBSET S
      OBVIOUS
    <3>4. b[x] \in Int /\ b[p] \in Int /\ SumOver(b, (s \ {x}) \ {p}) \in Int
      BY <1>3, <2>1, <3>3
    <3> DEFINE r == SumOver(b, (s \ {x}) \ {p})
    <3>5. SumOver(b, s) = b[p] + (b[x] + r) /\ SumOver(b, s \ {x}) = b[p] + r /\ r \in Int
      BY <2>1, <3>1, <3>2, <3>3, <3>4
    <3> HIDE DEF p, r
    <3>6. QED
      BY <3>4, <3>5
  <2>4. QED
    BY <2>2, <2>3
<1> HIDE DEF T
<1>6. \A s \in SUBSET S : s \in T
  BY <1>5, SubsetInduction
<1>7. QED
  BY <1>3, <1>6 DEF T

\* A sum depends on nothing but what is added.
LEMMA SumSame ==
    ASSUME NEW S, IsFiniteSet(S), NEW b, NEW c, \A x \in S : b[x] \in Int /\ c[x] = b[x]
    PROVE  SumOver(c, S) = SumOver(b, S)
<1>1. PICK g \in [SUBSET S -> Int] : AddsUp(g, b, S)
  BY FoldExists
<1>2. AddsUp(g, c, S)
  <2>1. ASSUME NEW t \in SUBSET S
        PROVE  g[t] = IF t = {} THEN 0 ELSE c[Picked(t)] + g[t \ {Picked(t)}]
    <3>1. t # {} => Picked(t) \in t
      BY PickedIn
    <3>2. QED
      BY <1>1, <3>1 DEF AddsUp
  <2>2. QED
    BY <2>1 DEF AddsUp
<1>3. QED
  BY <1>1, <1>2, SumFolds

\* What one element has more, and another less, does not change the sum.
LEMMA SumMoved ==
    ASSUME NEW S, IsFiniteSet(S), NEW b, \A x \in S : b[x] \in Int,
           NEW c, NEW from \in S, NEW to \in S, from # to, NEW amount \in Int,
           c[from] = b[from] - amount, c[to] = b[to] + amount,
           \A x \in S \ {from, to} : c[x] = b[x]
    PROVE  SumOver(c, S) = SumOver(b, S)
<1> DEFINE R == (S \ {from}) \ {to}
<1>1. R \in SUBSET S /\ IsFiniteSet(R) /\ S \ {from} \in SUBSET S /\ to \in S \ {from} /\ \A x \in S : c[x] \in Int
  <2>1. R \in SUBSET S
    OBVIOUS
  <2>2. IsFiniteSet(R)
    BY <2>1, FS_Subset
  <2>3. \A x \in S : c[x] \in Int
    OBVIOUS
  <2>4. QED
    BY <2>1, <2>2, <2>3
<1>2. SumOver(b, S) = b[from] + SumOver(b, S \ {from}) /\ SumOver(b, S \ {from}) = b[to] + SumOver(b, R)
  BY <1>1, SumProperties
<1>3. SumOver(c, S) = c[from] + SumOver(c, S \ {from}) /\ SumOver(c, S \ {from}) = c[to] + SumOver(c, R)
  BY <1>1, SumProperties
<1>4. SumOver(c, R) = SumOver(b, R)
  BY <1>1, SumSame
<1>5. SumOver(b, R) \in Int /\ b[from] \in Int /\ b[to] \in Int
  BY <1>1, SumProperties
<1>6. QED
  BY <1>2, <1>3, <1>4, <1>5

----------------------------------------------------------------------------
(* Coins and candidacies. *)

CoinsType == [balance : [Accounts \cup {Treasury, Blackhole} -> Nat], approved : [Accounts -> Nat]]

LEMMA TransferFromEffect ==
    ASSUME SeatsTypeOK, NEW amount \in Nat, NEW to \in {Treasury, Blackhole}, NEW owner \in Accounts,
           TransferFrom(amount, to, owner)
    PROVE  /\ coins' \in CoinsType
           /\ coins'.balance[Treasury] = coins.balance[Treasury] + IF to = Treasury THEN amount ELSE 0
<1> DEFINE approved == [coins.approved EXCEPT ![owner] = @ - amount]
           balance == [coins.balance EXCEPT ![owner] = @ - amount, ![to] = @ + amount]
<1>1. coins \in CoinsType /\ coins.approved[owner] >= amount /\ coins.balance[owner] >= amount
  BY DEF SeatsTypeOK, CoinsType, TransferFrom
<1>2. coins' = [balance |-> balance, approved |-> approved]
  BY <1>1 DEF TransferFrom, CoinsType
<1>3. /\ coins.balance \in [Accounts \cup {Treasury, Blackhole} -> Nat]
      /\ coins.approved \in [Accounts -> Nat]
  BY <1>1 DEF CoinsType
<1>4. owner # to /\ owner # Treasury /\ Treasury # Blackhole
  BY SeatsAssumption DEF SeatsAssumption
<1>5. approved \in [Accounts -> Nat]
  BY <1>1, <1>3
<1>6. balance \in [Accounts \cup {Treasury, Blackhole} -> Nat]
  BY <1>1, <1>3, <1>4
<1>7. balance[Treasury] = coins.balance[Treasury] + IF to = Treasury THEN amount ELSE 0
  BY <1>3, <1>4
<1> HIDE DEF approved, balance
<1>8. QED
  BY <1>2, <1>5, <1>6, <1>7 DEF CoinsType

LEMMA TransferEffect ==
    ASSUME SeatsTypeOK, NEW amount \in Nat, NEW to \in Accounts, Transfer(amount, to)
    PROVE  /\ coins' \in CoinsType
           /\ coins.balance[Treasury] >= amount
           /\ coins'.balance[Treasury] = coins.balance[Treasury] - amount
<1> DEFINE balance == [coins.balance EXCEPT ![Treasury] = @ - amount, ![to] = @ + amount]
<1>1. coins \in CoinsType /\ coins.balance[Treasury] >= amount
  BY DEF SeatsTypeOK, CoinsType, Transfer
<1>2. coins' = [balance |-> balance, approved |-> coins.approved]
  BY <1>1 DEF Transfer, CoinsType
<1>3. /\ coins.balance \in [Accounts \cup {Treasury, Blackhole} -> Nat]
      /\ coins.approved \in [Accounts -> Nat]
  BY <1>1 DEF CoinsType
<1>4. to # Treasury
  BY SeatsAssumption DEF SeatsAssumption
<1>5. balance \in [Accounts \cup {Treasury, Blackhole} -> Nat]
  BY <1>1, <1>3, <1>4
<1>6. balance[Treasury] = coins.balance[Treasury] - amount
  BY <1>3, <1>4
<1> HIDE DEF balance
<1>7. QED
  BY <1>1, <1>2, <1>3, <1>5, <1>6 DEF CoinsType

\* Coins go from one account to another.
Moved(amount, from, to) ==
    /\ from # to
    /\ coins'.balance[from] = coins.balance[from] - amount
    /\ coins'.balance[to] = coins.balance[to] + amount
    /\ \A a \in (Accounts \cup {Treasury, Blackhole}) \ {from, to} : coins'.balance[a] = coins.balance[a]

LEMMA TransferFromMoves ==
    ASSUME SeatsTypeOK, NEW amount \in Nat, NEW to \in {Treasury, Blackhole}, NEW owner \in Accounts,
           TransferFrom(amount, to, owner)
    PROVE  Moved(amount, owner, to)
<1>1. coins'.balance = [coins.balance EXCEPT ![owner] = @ - amount, ![to] = @ + amount]
  BY DEF TransferFrom, SeatsTypeOK
<1>2. coins.balance \in [Accounts \cup {Treasury, Blackhole} -> Nat]
  BY DEF SeatsTypeOK
<1>3. owner # to
  BY SeatsAssumption DEF SeatsAssumption
<1>4. QED
  BY <1>1, <1>2, <1>3 DEF Moved

LEMMA TransferMoves ==
    ASSUME SeatsTypeOK, NEW amount \in Nat, NEW to \in Accounts, Transfer(amount, to)
    PROVE  Moved(amount, Treasury, to)
<1>1. coins'.balance = [coins.balance EXCEPT ![Treasury] = @ - amount, ![to] = @ + amount]
  BY DEF Transfer, SeatsTypeOK
<1>2. coins.balance \in [Accounts \cup {Treasury, Blackhole} -> Nat]
  BY DEF SeatsTypeOK
<1>3. to # Treasury
  BY SeatsAssumption DEF SeatsAssumption
<1>4. QED
  BY <1>1, <1>2, <1>3 DEF Moved

\* All coins there are are those there were at first: the sum by its lemmas.
CoinsSum == SumOver(coins.balance, Accounts \cup {Treasury, Blackhole}) = SumOver(Funds, Accounts)

LEMMA CoinsSummed ==
    ASSUME SeatsTypeOK
    PROVE  CoinsConserved <=> CoinsSum
<1>1. DOMAIN coins.balance = Accounts \cup {Treasury, Blackhole}
  BY DEF SeatsTypeOK
<1>2. QED
  BY <1>1 DEF CoinsConserved, CoinsSum, SumOver

\* A candidacy or a vote moves coins; nothing else of the contracts touches them.
LEMMA CoinsMove ==
    ASSUME SeatsTypeOK, Motions(Kinds) \/ Candidacies
    PROVE  \/ coins' = coins
           \/ \E amount \in Nat, from, to \in Accounts \cup {Treasury, Blackhole} : Moved(amount, from, to)
<1> DEFINE All == Accounts \cup {Treasury, Blackhole}
<1>0. MemberCost \in Nat /\ VoteCost \in Nat /\ Treasury \in All /\ Blackhole \in All /\ \A a \in Accounts : a \in All
  BY SeatsAssumption DEF SeatsAssumption
<1>1. CASE Motions(Kinds)
  <2>1. PICK a \in Accounts :
            \/ \E kind \in Kinds, who \in Accounts \cup {None} : IntroduceMotion(a, kind, who)
            \/ \E position \in {"yes", "no"} : VoteOnMotion(a, position)
    BY <1>1 DEF Motions
  <2>2. CASE \E kind \in Kinds, who \in Accounts \cup {None} : IntroduceMotion(a, kind, who)
    <3>1. coins' = coins
      BY <2>2 DEF IntroduceMotion
    <3>2. QED
      BY <3>1
  <2>3. CASE \E position \in {"yes", "no"} : VoteOnMotion(a, position)
    <3>1. coins' = coins
      BY <2>3 DEF VoteOnMotion
    <3>2. QED
      BY <3>1
  <2>4. QED
    BY <2>1, <2>2, <2>3
<1>2. CASE Candidacies
  <2>1. PICK a \in Accounts :
            \/ Register(a) \/ Unregister(a) \/ Relinquish(a)
            \/ \E address \in Accounts : VoteCandidate(a, address) \/ VoteNoConfidence(a, address)
    BY <1>2 DEF Candidacies
  <2>2. CASE Register(a)
    <3>1. Moved(MemberCost, a, Treasury)
      BY <1>0, <2>2, TransferFromMoves DEF Register
    <3>2. QED
      BY <1>0, <3>1
  <2>3. CASE Unregister(a)
    <3>1. Moved(MemberCost, Treasury, a)
      BY <1>0, <2>3, TransferMoves DEF Unregister
    <3>2. QED
      BY <1>0, <3>1
  <2>4. CASE Relinquish(a)
    BY <2>4 DEF Relinquish
  <2>5. CASE \E address \in Accounts : VoteCandidate(a, address) \/ VoteNoConfidence(a, address)
    <3>1. TransferFrom(VoteCost, Blackhole, a)
      BY <2>5 DEF VoteCandidate, VoteNoConfidence
    <3>2. Moved(VoteCost, a, Blackhole)
      BY <1>0, <3>1, TransferFromMoves
    <3>3. QED
      BY <1>0, <3>2
  <2>6. QED
    BY <2>1, <2>2, <2>3, <2>4, <2>5
<1>3. QED
  BY <1>1, <1>2

\* Moving coins keeps their sum.
LEMMA CoinsKept ==
    ASSUME SeatsTypeOK, CoinsSum, Motions(Kinds) \/ Candidacies \/ coins' = coins
    PROVE  CoinsSum'
<1> DEFINE All == Accounts \cup {Treasury, Blackhole}
<1>1. IsFiniteSet(All)
  <2>1. IsFiniteSet(Accounts)
    BY SeatsAssumption DEF SeatsAssumption
  <2>2. IsFiniteSet(Accounts \cup {Treasury})
    BY <2>1, FS_AddElement
  <2>3. IsFiniteSet((Accounts \cup {Treasury}) \cup {Blackhole})
    BY <2>2, FS_AddElement
  <2>4. (Accounts \cup {Treasury}) \cup {Blackhole} = All
    OBVIOUS
  <2>5. QED
    BY <2>3, <2>4
<1>2. \A a \in All : coins.balance[a] \in Int
  BY DEF SeatsTypeOK
<1>3. SumOver(coins'.balance, All) = SumOver(coins.balance, All)
  <2>1. CASE coins' = coins
    BY <2>1
  <2>2. CASE \E amount \in Nat, from, to \in All : Moved(amount, from, to)
    <3>1. PICK amount \in Nat : \E from, to \in All : Moved(amount, from, to)
      BY <2>2
    <3>2. PICK from \in All, to \in All : Moved(amount, from, to)
      BY <3>1
    <3>3. /\ from # to /\ amount \in Int
          /\ coins'.balance[from] = coins.balance[from] - amount
          /\ coins'.balance[to] = coins.balance[to] + amount
          /\ \A x \in All \ {from, to} : coins'.balance[x] = coins.balance[x]
      BY <3>1, <3>2 DEF Moved
    <3> HIDE DEF All
    <3>4. QED
      BY <1>1, <1>2, <3>3, SumMoved
  <2>3. QED
    BY <2>1, <2>2, CoinsMove
<1>4. QED
  BY <1>3 DEF CoinsSum

\* At first the accounts have their funds, the contract and the fees nothing.
LEMMA CoinsAtFirst ==
    ASSUME SeatsInit PROVE CoinsSum
<1> DEFINE b == coins.balance
           A == Accounts \cup {Treasury}
           All == Accounts \cup {Treasury, Blackhole}
<1>1. /\ Treasury # Blackhole /\ Treasury \notin Accounts /\ Blackhole \notin Accounts
      /\ IsFiniteSet(Accounts) /\ \A a \in Accounts : Funds[a] \in Int
  BY SeatsAssumption DEF SeatsAssumption
<1>2. /\ \A a \in Accounts : b[a] = Funds[a]
      /\ b[Treasury] = 0 /\ b[Blackhole] = 0
  BY <1>1 DEF SeatsInit
<1>3. IsFiniteSet(A)
  BY <1>1, FS_AddElement
<1>4. IsFiniteSet(All) /\ All \ {Blackhole} = A /\ A \ {Treasury} = Accounts
  <2>1. All = A \cup {Blackhole}
    OBVIOUS
  <2>2. IsFiniteSet(All)
    BY <1>3, <2>1, FS_AddElement
  <2>3. QED
    BY <1>1, <2>2
<1>5. \A a \in All : b[a] \in Int
  BY <1>1, <1>2
<1> HIDE DEF b
<1>6. SumOver(b, All) = b[Blackhole] + SumOver(b, A) /\ SumOver(b, A) = b[Treasury] + SumOver(b, Accounts)
  <2>1. All \in SUBSET All /\ A \in SUBSET All /\ Blackhole \in All /\ Treasury \in A
    OBVIOUS
  <2> HIDE DEF All, A
  <2>2. QED
    BY <1>4, <1>5, <2>1, SumProperties
<1>7. SumOver(b, Accounts) \in Int /\ SumOver(b, Accounts) = SumOver(Funds, Accounts)
  <2>1. SumOver(b, Accounts) = SumOver(Funds, Accounts)
    BY <1>1, <1>2, SumSame
  <2>2. SumOver(Funds, Accounts) \in Int
    BY <1>1, SumProperties
  <2>3. QED
    BY <2>1, <2>2
<1>8. SumOver(b, All) = SumOver(Funds, Accounts)
  BY <1>2, <1>6, <1>7
<1>9. QED
  BY <1>8 DEF b, CoinsSum

\* What is staked, one stake more or less.
LEMMA StakeArithmetic ==
    ASSUME NEW c \in Nat, NEW n \in Nat
    PROVE  c * (n + 1) = c * n + c
BY SMT

\* Motions are not affected by what leaves the motion and the members alone.
LEMMA MotionUntouched ==
    ASSUME MotionCounted, motion' = motion, members' = members
    PROVE  MotionCounted'
BY DEF MotionCounted, Taking, Majority, Seated

\* Registering and unregistering move exactly one stake.
LEMMA RegistrationStep ==
    ASSUME SeatsInv, NEW a \in Accounts, Register(a) \/ Unregister(a)
    PROVE  SeatsInv'
<1>0. SeatsTypeOK /\ MotionCounted /\ StakesHeld /\ NextToGo
  BY DEF SeatsInv
<1>1. UNCHANGED << now, members, motion, confidence, relinquishing, lapsed >>
  BY DEF Register, Unregister
<1>2. /\ candidate.registered \subseteq Accounts /\ IsFiniteSet(candidate.registered)
      /\ Cardinality(candidate.registered) \in Nat /\ lapsed.stakes \in Nat
  <2>1. candidate.registered \subseteq Accounts /\ lapsed.stakes \in Nat
    BY <1>0 DEF SeatsTypeOK
  <2>2. QED
    BY <2>1, SeatsAssumption, FS_Subset, FS_CardinalityType DEF SeatsAssumption
<1>3. MemberCost \in Nat
  BY SeatsAssumption DEF SeatsAssumption
<1>4. CASE Register(a)
  <2>1. coins' \in CoinsType /\ coins'.balance[Treasury] = coins.balance[Treasury] + MemberCost
    BY <1>0, <1>3, <1>4, TransferFromEffect DEF Register
  <2>2. /\ a \notin candidate.registered /\ candidate'.registered = candidate.registered \cup {a}
        /\ candidate' \in [registered : SUBSET Accounts, votes : [Accounts -> Nat \cup {None}],
                           lastVoted : [Accounts -> Nat \cup {None}], top : Accounts \cup {None}]
    BY <1>0, <1>4 DEF Register, SeatsTypeOK
  <2>3. Cardinality(candidate'.registered) = Cardinality(candidate.registered) + 1
    BY <1>2, <2>2, FS_AddElement
  <2>4. StakesHeld'
    <3> DEFINE n == Cardinality(candidate.registered) + lapsed.stakes
    <3>1. n \in Nat /\ Cardinality(candidate'.registered) + lapsed'.stakes = n + 1
      BY <1>1, <1>2, <2>3
    <3>2. coins.balance[Treasury] = MemberCost * n
      BY <1>0 DEF StakesHeld
    <3> HIDE DEF n
    <3>3. QED
      BY <1>3, <2>1, <3>1, <3>2, StakeArithmetic DEF StakesHeld
  <2>5. QED
    BY <1>0, <1>1, <2>1, <2>2, <2>4, MotionUntouched DEF SeatsInv, SeatsTypeOK, NextToGo, Seated, CoinsType
<1>5. CASE Unregister(a)
  <2>1. /\ coins' \in CoinsType
        /\ coins.balance[Treasury] >= MemberCost
        /\ coins'.balance[Treasury] = coins.balance[Treasury] - MemberCost
    BY <1>0, <1>3, <1>5, TransferEffect DEF Unregister
  <2>2. /\ a \in candidate.registered /\ candidate'.registered = candidate.registered \ {a}
        /\ candidate' \in [registered : SUBSET Accounts, votes : [Accounts -> Nat \cup {None}],
                           lastVoted : [Accounts -> Nat \cup {None}], top : Accounts \cup {None}]
    BY <1>0, <1>5 DEF Unregister, MayUnregister, WithoutRegistration, SeatsTypeOK
  <2>3. /\ Cardinality(candidate'.registered) = Cardinality(candidate.registered) - 1
        /\ Cardinality(candidate'.registered) \in Nat
    <3>1. IsFiniteSet(candidate'.registered)
      BY <1>2, <2>2, FS_RemoveElement
    <3>2. QED
      BY <1>2, <2>2, <3>1, FS_RemoveElement, FS_CardinalityType
  <2>4. StakesHeld'
    <3> DEFINE n == Cardinality(candidate'.registered) + lapsed.stakes
    <3>1. n \in Nat /\ Cardinality(candidate.registered) + lapsed.stakes = n + 1 /\ lapsed' = lapsed
      BY <1>1, <1>2, <2>3
    <3>2. coins.balance[Treasury] = MemberCost * (n + 1)
      BY <1>0, <3>1 DEF StakesHeld
    <3>3. StakesHeld' <=> coins'.balance[Treasury] = MemberCost * n
      BY <3>1 DEF StakesHeld
    <3> HIDE DEF n
    <3>4. MemberCost * n \in Int
      BY <1>3, <3>1
    <3>5. QED
      BY <1>3, <2>1, <3>1, <3>2, <3>3, <3>4, StakeArithmetic
  <2>5. QED
    BY <1>0, <1>1, <2>1, <2>2, <2>4, MotionUntouched DEF SeatsInv, SeatsTypeOK, NextToGo, Seated, CoinsType
<1>6. QED
  BY <1>4, <1>5

\* Votes cost a fee, which goes elsewhere; who leads the votes of no confidence
\* had a seat when voted against.
LEMMA ElectionVoteStep ==
    ASSUME SeatsInv, NEW a \in Accounts, NEW address \in Accounts,
           VoteCandidate(a, address) \/ VoteNoConfidence(a, address)
    PROVE  SeatsInv'
<1>0. SeatsTypeOK /\ MotionCounted /\ StakesHeld /\ NextToGo
  BY DEF SeatsInv
<1>1. UNCHANGED << now, members, motion, relinquishing, lapsed >>
  BY DEF VoteCandidate, VoteNoConfidence
<1>2. coins' \in CoinsType /\ coins'.balance[Treasury] = coins.balance[Treasury]
  <2>1. TransferFrom(VoteCost, Blackhole, a)
    BY DEF VoteCandidate, VoteNoConfidence
  <2>2. VoteCost \in Nat /\ Treasury # Blackhole
    BY SeatsAssumption DEF SeatsAssumption
  <2>3. coins.balance[Treasury] \in Nat
    BY <1>0 DEF SeatsTypeOK
  <2>4. QED
    BY <1>0, <2>1, <2>2, <2>3, TransferFromEffect
<1>3. /\ candidate'.registered = candidate.registered
      /\ candidate' \in [registered : SUBSET Accounts, votes : [Accounts -> Nat \cup {None}],
                         lastVoted : [Accounts -> Nat \cup {None}], top : Accounts \cup {None}]
      /\ confidence' \in [votes : [Accounts -> Nat \cup {None}],
                          lastVoted : [Accounts -> Nat \cup {None}], last : Accounts \cup {None}]
      /\ confidence'.last = confidence.last \/ confidence'.last \in Seated
  <2>1. CASE VoteCandidate(a, address)
    <3> DEFINE votes == [candidate.votes EXCEPT ![address] = OneMore(@)]
    <3>1. /\ candidate \in [registered : SUBSET Accounts, votes : [Accounts -> Nat \cup {None}],
                            lastVoted : [Accounts -> Nat \cup {None}], top : Accounts \cup {None}]
          /\ now \in Nat
      BY <1>0 DEF SeatsTypeOK
    <3>2. votes \in [Accounts -> Nat \cup {None}]
      BY <3>1 DEF OneMore
    <3> DEFINE led == IF candidate.top # None /\ votes[address] > votes[candidate.top] THEN address ELSE candidate.top
    <3>3. PICK top \in Accounts \cup {None} :
            candidate' = [candidate EXCEPT !.votes = votes, !.lastVoted[a] = now, !.top = top]
      <4>1. candidate' = [candidate EXCEPT !.votes = votes, !.lastVoted[a] = now, !.top = led]
        BY <2>1, Zenon DEF VoteCandidate
      <4>2. led \in Accounts \cup {None}
        BY <3>1
      <4> HIDE DEF led, votes
      <4>3. QED
        BY <4>1, <4>2, Zenon
    <3> HIDE DEF votes
    <3>4. confidence' = confidence
      BY <2>1 DEF VoteCandidate
    <3>5. QED
      BY <1>0, <3>1, <3>2, <3>3, <3>4 DEF SeatsTypeOK
  <2>2. CASE VoteNoConfidence(a, address)
    <3> DEFINE votes == [confidence.votes EXCEPT ![address] = OneMore(@)]
    <3>1. /\ confidence \in [votes : [Accounts -> Nat \cup {None}],
                             lastVoted : [Accounts -> Nat \cup {None}], last : Accounts \cup {None}]
          /\ now \in Nat /\ address \in Seated
      BY <1>0, <2>2 DEF SeatsTypeOK, VoteNoConfidence
    <3>2. votes \in [Accounts -> Nat \cup {None}]
      BY <3>1 DEF OneMore
    <3>3. PICK last \in {address, confidence.last} :
            confidence' = [confidence EXCEPT !.votes = votes, !.lastVoted[a] = now, !.last = last]
      BY <2>2, <3>1 DEF VoteNoConfidence
    <3> HIDE DEF votes
    <3>4. candidate' = candidate
      BY <2>2 DEF VoteNoConfidence
    <3>5. QED
      BY <1>0, <3>1, <3>2, <3>3, <3>4 DEF SeatsTypeOK
  <2>3. QED
    BY <2>1, <2>2
<1>4. StakesHeld'
  BY <1>0, <1>1, <1>2, <1>3 DEF StakesHeld
<1>5. NextToGo'
  BY <1>0, <1>1, <1>3 DEF NextToGo, Seated
<1>6. QED
  BY <1>0, <1>1, <1>2, <1>3, <1>4, <1>5, MotionUntouched DEF SeatsInv, SeatsTypeOK, CoinsType

\* Who gives up a seat has one.
LEMMA RelinquishStep ==
    ASSUME SeatsInv, NEW a \in Accounts, Relinquish(a)
    PROVE  SeatsInv'
<1>1. NextToGo'
  BY DEF SeatsInv, NextToGo, Relinquish, Seated
<1>2. QED
  BY <1>1, MotionUntouched DEF SeatsInv, SeatsTypeOK, StakesHeld, Relinquish

----------------------------------------------------------------------------
(* Motions. *)

\* No positions are taken on a motion that has been reset.
LEMMA ResetCounted ==
    ASSUME motion' = Reset, members' \in Seq(Accounts)
    PROVE  MotionCounted'
<1>1. motion'.yays = 0 /\ motion'.nays = 0 /\ \A a \in Accounts : motion'.positions[a] = "none"
  BY DEF Reset, NoMotion
<1>2. Taking("yes")' = {} /\ Taking("no")' = {}
  BY <1>1 DEF Taking
<1>3. Majority' \in Nat /\ Majority' > 0
  BY DEF Majority
<1>4. Cardinality(Taking("yes")') = 0 /\ Cardinality(Taking("no")') = 0
  BY <1>2, FS_EmptySet
<1>5. QED
  BY <1>1, <1>3, <1>4 DEF MotionCounted

\* A motion is introduced with the positions clear.
LEMMA IntroduceStep ==
    ASSUME SeatsInv, NEW a \in Accounts, NEW kind \in Kinds, NEW who \in Accounts \cup {None},
           IntroduceMotion(a, kind, who)
    PROVE  SeatsInv'
<1>0. SeatsTypeOK /\ MotionCounted /\ StakesHeld /\ NextToGo
  BY DEF SeatsInv
<1>1. /\ UNCHANGED << now, members, candidate, confidence, relinquishing, coins, lapsed >>
      /\ motion' = [motion EXCEPT !.kind = kind, !.who = who, !.opened = now]
  BY DEF IntroduceMotion
<1>2. /\ motion'.yays = motion.yays /\ motion'.nays = motion.nays /\ motion'.positions = motion.positions
      /\ motion' \in [kind : Kinds, who : Accounts \cup {None}, opened : Nat, yays : Nat, nays : Nat,
                      positions : [Accounts -> {"none", "yes", "no"}]]
  BY <1>0, <1>1 DEF SeatsTypeOK
<1>3. MotionCounted'
  BY <1>0, <1>1, <1>2 DEF MotionCounted, Taking, Majority, Seated
<1>4. QED
  BY <1>0, <1>1, <1>2, <1>3 DEF SeatsInv, SeatsTypeOK, StakesHeld, NextToGo, Seated

\* One more position counts once.
LEMMA PositionCounted ==
    ASSUME SeatsInv, NEW a \in Accounts, NEW position \in {"yes", "no"},
           motion.positions[a] = "none", a \in Seated, members' = members,
           motion' = [motion EXCEPT !.yays = motion.yays + IF position = "yes" THEN 1 ELSE 0,
                                    !.nays = motion.nays + IF position = "no" THEN 1 ELSE 0,
                                    !.positions[a] = position],
           motion'.yays < Majority, motion'.nays < Majority
    PROVE  /\ MotionCounted'
           /\ motion' \in [kind : Kinds, who : Accounts \cup {None}, opened : Nat, yays : Nat, nays : Nat,
                           positions : [Accounts -> {"none", "yes", "no"}]]
<1>0. SeatsTypeOK /\ MotionCounted
  BY DEF SeatsInv
<1>1. motion \in [kind : Kinds, who : Accounts \cup {None}, opened : Nat, yays : Nat, nays : Nat,
                  positions : [Accounts -> {"none", "yes", "no"}]]
  BY <1>0 DEF SeatsTypeOK
<1>2. /\ motion' \in [kind : Kinds, who : Accounts \cup {None}, opened : Nat, yays : Nat, nays : Nat,
                      positions : [Accounts -> {"none", "yes", "no"}]]
      /\ motion'.yays = motion.yays + IF position = "yes" THEN 1 ELSE 0
      /\ motion'.nays = motion.nays + IF position = "no" THEN 1 ELSE 0
      /\ motion'.positions = [motion.positions EXCEPT ![a] = position]
  <2>1. /\ motion'.yays = motion.yays + IF position = "yes" THEN 1 ELSE 0
        /\ motion'.nays = motion.nays + IF position = "no" THEN 1 ELSE 0
        /\ motion'.positions = [motion.positions EXCEPT ![a] = position]
        /\ motion'.kind = motion.kind /\ motion'.who = motion.who /\ motion'.opened = motion.opened
    BY <1>1
  <2>2. motion'.yays \in Nat /\ motion'.nays \in Nat
    BY <1>1, <2>1
  <2>3. motion'.positions \in [Accounts -> {"none", "yes", "no"}]
    BY <1>1, <2>1
  <2>4. motion' = [kind |-> motion'.kind, who |-> motion'.who, opened |-> motion'.opened,
                   yays |-> motion'.yays, nays |-> motion'.nays, positions |-> motion'.positions]
    BY <1>1
  <2>5. QED
    BY <1>1, <2>1, <2>2, <2>3, <2>4
<1>3. /\ Taking(position)' = Taking(position) \cup {a} /\ a \notin Taking(position)
      /\ \A other \in {"yes", "no"} : other # position => Taking(other)' = Taking(other)
  BY <1>1, <1>2 DEF Taking
<1>4. IsFiniteSet(Taking(position))
  <2>1. Taking(position) \subseteq Accounts
    BY DEF Taking
  <2>2. QED
    BY <2>1, SeatsAssumption, FS_Subset DEF SeatsAssumption
<1>5. Cardinality(Taking(position)') = Cardinality(Taking(position)) + 1
  BY <1>3, <1>4, FS_AddElement
<1>6. motion'.yays = Cardinality(Taking("yes")') /\ motion'.nays = Cardinality(Taking("no")')
  BY <1>0, <1>1, <1>2, <1>3, <1>5 DEF MotionCounted
<1>7. \A b \in Accounts : motion'.positions[b] # "none" => b \in Seated'
  BY <1>0, <1>1, <1>2 DEF MotionCounted, Seated
<1>8. Majority' = Majority
  BY DEF Majority
<1>9. QED
  BY <1>2, <1>6, <1>7, <1>8 DEF MotionCounted

\* Who is removed from the list loses one of their seats, and nobody else does.
LEMMA RemovalEffect ==
    ASSUME SeatsTypeOK, NEW who, Removed(who)
    PROVE  /\ members' \in Seq(Accounts) /\ who \in Accounts
           /\ Seated \ {who} \subseteq Seated'
           /\ SeatsOf(who)' < SeatsOf(who)
<1>1. members \in Seq(Accounts) /\ who \in ToSet(members) /\ members' = RemoveFirst(members, who)
  BY DEF SeatsTypeOK, Removed, Seated
<1>2. \A i \in DOMAIN members : members[i] \in Accounts
  BY <1>1
<1>3. who \in Accounts
  BY <1>1, <1>2 DEF ToSet
<1>4. /\ members' \in Seq(Accounts)
      /\ ToSet(members) \ {who} \subseteq ToSet(members')
      /\ Occurrences(members', who) < Occurrences(members, who)
  <2>1. PICK long, short : long = members /\ short = members'
    OBVIOUS
  <2>2. long \in Seq(Accounts) /\ who \in ToSet(long) /\ short = RemoveFirst(long, who)
    BY <1>1, <2>1
  <2>3. /\ short \in Seq(Accounts)
        /\ ToSet(long) \ {who} \subseteq ToSet(short)
        /\ Occurrences(short, who) < Occurrences(long, who)
    BY <2>2, RemovedFirst
  <2>4. QED
    BY <2>1, <2>3
<1>5. QED
  BY <1>3, <1>4 DEF Seated, SeatsOf, Occurrences

\* A registration and its stake that go together leave the sum of both the same.
LEMMA StakeLapses ==
    ASSUME NEW R, NEW who, IsFiniteSet(R), NEW stakes \in Nat
    PROVE  Cardinality(R \ {who}) + (stakes + IF who \in R THEN 1 ELSE 0) = Cardinality(R) + stakes
<1>1. Cardinality(R) \in Nat
  BY FS_CardinalityType
<1>2. Cardinality(R \ {who}) = IF who \in R THEN Cardinality(R) - 1 ELSE Cardinality(R)
  BY FS_RemoveElement
<1>3. QED
  BY <1>1, <1>2

\* A motion passes: the seats, stakes and candidacies it changes stay in step.
LEMMA PassStep ==
    ASSUME SeatsInv, motion.kind # "none", PassCurrentMotion, motion' = Reset,
           UNCHANGED << now, coins >>
    PROVE  SeatsInv'
<1>0. SeatsTypeOK /\ MotionCounted /\ StakesHeld /\ NextToGo
  BY DEF SeatsInv
<1>1. motion' \in [kind : Kinds, who : Accounts \cup {None}, opened : Nat, yays : Nat, nays : Nat,
                   positions : [Accounts -> {"none", "yes", "no"}]]
  <2>1. motion.opened \in Nat
    BY <1>0 DEF SeatsTypeOK
  <2>2. [a \in Accounts |-> "none"] \in [Accounts -> {"none", "yes", "no"}] /\ "none" \in Kinds
    BY DEF Kinds
  <2>3. QED
    BY <2>1, <2>2 DEF Reset, NoMotion
<1>2. motion.kind \in {"remove_member", "add_seat", "remove_seat"}
  BY <1>0 DEF SeatsTypeOK, Kinds
<1>3. SUFFICES /\ members' \in Seq(Accounts)
               /\ candidate' \in [registered : SUBSET Accounts, votes : [Accounts -> Nat \cup {None}],
                                  lastVoted : [Accounts -> Nat \cup {None}], top : Accounts \cup {None}]
               /\ confidence' \in [votes : [Accounts -> Nat \cup {None}],
                                   lastVoted : [Accounts -> Nat \cup {None}], last : Accounts \cup {None}]
               /\ relinquishing' \in Accounts \cup {None}
               /\ lapsed' \in [stakes : Nat, ghosts : SUBSET Accounts]
               /\ StakesHeld' /\ NextToGo'
  BY <1>0, <1>1, ResetCounted DEF SeatsInv, SeatsTypeOK
<1> USE <1>0
<1>4. CASE motion.kind = "remove_member"
  <2>1. /\ Removed(motion.who)
        /\ lapsed' = [lapsed EXCEPT !.ghosts = @ \cup {motion.who}]
        /\ UNCHANGED << candidate, confidence, relinquishing >>
    BY <1>4 DEF PassCurrentMotion, RemoveMember
  <2>2. /\ members' \in Seq(Accounts) /\ motion.who \in Accounts
        /\ Seated \ {motion.who} \subseteq Seated'
    BY <2>1, RemovalEffect
  <2>3. /\ lapsed' \in [stakes : Nat, ghosts : SUBSET Accounts]
        /\ lapsed'.stakes = lapsed.stakes /\ lapsed'.ghosts = lapsed.ghosts \cup {motion.who}
    BY <2>1, <2>2 DEF SeatsTypeOK
  <2>4. QED
    BY <2>1, <2>2, <2>3 DEF SeatsTypeOK, StakesHeld, NextToGo
<1>5. CASE motion.kind = "add_seat"
  <2>1. AddSeat
    BY <1>5 DEF PassCurrentMotion
  <2>2. CASE candidate.top = None
    BY <2>1, <2>2 DEF AddSeat, SeatsTypeOK, StakesHeld, NextToGo, Seated
  <2>3. CASE candidate.top # None
    <3>1. /\ members' = Append(members, candidate.top)
          /\ candidate' = [candidate EXCEPT !.votes = [a \in Accounts |-> None], !.top = None]
          /\ UNCHANGED << confidence, relinquishing, lapsed >>
      BY <2>1, <2>3 DEF AddSeat, PopTop
    <3>2. members \in Seq(Accounts) /\ candidate.top \in Accounts
      BY <2>3 DEF SeatsTypeOK
    <3>3. members' \in Seq(Accounts) /\ Seated \subseteq Seated'
      <4>1. members' \in Seq(Accounts) /\ \A i \in DOMAIN members : i \in DOMAIN members' /\ members'[i] = members[i]
        BY <3>1, <3>2
      <4>2. QED
        BY <4>1 DEF Seated, ToSet
    <3>4. candidate'.registered = candidate.registered
      BY <3>1 DEF SeatsTypeOK
    <3>5. candidate' \in [registered : SUBSET Accounts, votes : [Accounts -> Nat \cup {None}],
                          lastVoted : [Accounts -> Nat \cup {None}], top : Accounts \cup {None}]
      BY <3>1 DEF SeatsTypeOK
    <3>6. QED
      BY <3>1, <3>3, <3>4, <3>5 DEF SeatsTypeOK, StakesHeld, NextToGo
  <2>4. QED
    BY <2>2, <2>3
<1>6. CASE motion.kind = "remove_seat"
  <2>1. RemoveSeat
    BY <1>6 DEF PassCurrentMotion
  <2>2. CASE LastMember = None
    BY <2>1, <2>2 DEF RemoveSeat, SeatsTypeOK, StakesHeld, NextToGo, Seated
  <2>3. CASE LastMember # None
    <3> PICK who : who = LastMember
      OBVIOUS
    <3>1. Removed(who) /\ PopLast
      BY <2>1, <2>3 DEF RemoveSeat
    <3>2. members' \in Seq(Accounts) /\ who \in Accounts /\ Seated \ {who} \subseteq Seated'
      BY <3>1, RemovalEffect
    <3>3. CASE relinquishing # None
      <4>1. /\ who = relinquishing
            /\ confidence' = [confidence EXCEPT !.votes[who] = 0]
            /\ relinquishing' = None
            /\ lapsed' = [lapsed EXCEPT !.ghosts = @ \cup {who}]
            /\ candidate' = candidate
        BY <3>1, <3>3 DEF PopLast, LastMember
      <4>2. /\ confidence' \in [votes : [Accounts -> Nat \cup {None}],
                                lastVoted : [Accounts -> Nat \cup {None}], last : Accounts \cup {None}]
            /\ confidence'.last = confidence.last
        BY <4>1 DEF SeatsTypeOK
      <4>3. /\ lapsed' \in [stakes : Nat, ghosts : SUBSET Accounts]
            /\ lapsed'.stakes = lapsed.stakes /\ lapsed'.ghosts = lapsed.ghosts \cup {who}
        BY <3>2, <4>1 DEF SeatsTypeOK
      <4>4. QED
        BY <3>2, <4>1, <4>2, <4>3 DEF SeatsTypeOK, StakesHeld, NextToGo
    <3>4. CASE relinquishing = None
      <4>1. /\ who = confidence.last
            /\ confidence' = [confidence EXCEPT !.votes = [a \in Accounts |-> None], !.last = None]
            /\ candidate' = [candidate EXCEPT !.registered = @ \ {who}]
            /\ lapsed' = [lapsed EXCEPT !.stakes = @ + IF who \in candidate.registered THEN 1 ELSE 0]
            /\ relinquishing' = relinquishing
        BY <3>1, <3>4 DEF PopLast, LastMember, LastAfterPop
      <4>2. /\ confidence' \in [votes : [Accounts -> Nat \cup {None}],
                                lastVoted : [Accounts -> Nat \cup {None}], last : Accounts \cup {None}]
            /\ confidence'.last = None
        BY <4>1 DEF SeatsTypeOK
      <4>3. /\ candidate' \in [registered : SUBSET Accounts, votes : [Accounts -> Nat \cup {None}],
                               lastVoted : [Accounts -> Nat \cup {None}], top : Accounts \cup {None}]
            /\ candidate'.registered = candidate.registered \ {who}
        BY <4>1 DEF SeatsTypeOK
      <4>4. /\ lapsed' \in [stakes : Nat, ghosts : SUBSET Accounts]
            /\ lapsed'.stakes = lapsed.stakes + IF who \in candidate.registered THEN 1 ELSE 0
            /\ lapsed.stakes \in Nat
        <5>1. lapsed \in [stakes : Nat, ghosts : SUBSET Accounts]
          BY DEF SeatsTypeOK
        <5>2. lapsed.stakes + (IF who \in candidate.registered THEN 1 ELSE 0) \in Nat
          BY <5>1
        <5>3. QED
          BY <4>1, <5>1, <5>2
      <4>5. StakesHeld'
        <5>1. IsFiniteSet(candidate.registered)
          <6>1. candidate.registered \subseteq Accounts
            BY DEF SeatsTypeOK
          <6>2. QED
            BY <6>1, SeatsAssumption, FS_Subset DEF SeatsAssumption
        <5>2. Cardinality(candidate'.registered) + lapsed'.stakes = Cardinality(candidate.registered) + lapsed.stakes
          BY <4>3, <4>4, <5>1, StakeLapses
        <5>3. QED
          BY <5>2 DEF StakesHeld
      <4>6. NextToGo'
        BY <3>4, <4>1, <4>2 DEF NextToGo
      <4>7. QED
        BY <3>2, <4>1, <4>2, <4>3, <4>4, <4>5, <4>6 DEF SeatsTypeOK
    <3>5. QED
      BY <3>3, <3>4
  <2>4. QED
    BY <2>2, <2>3
<1>7. QED
  BY <1>2, <1>4, <1>5, <1>6

LEMMA VoteOnMotionStep ==
    ASSUME SeatsInv, NEW a \in Accounts, NEW position \in {"yes", "no"}, VoteOnMotion(a, position)
    PROVE  SeatsInv'
<1> DEFINE yays == motion.yays + IF position = "yes" THEN 1 ELSE 0
           nays == motion.nays + IF position = "no" THEN 1 ELSE 0
<1>0. SeatsTypeOK /\ MotionCounted /\ StakesHeld /\ NextToGo
  BY DEF SeatsInv
<1>1. /\ a \in Seated /\ motion.kind # "none" /\ motion.positions[a] = "none"
      /\ UNCHANGED << now, coins >>
  BY DEF VoteOnMotion
<1>2. yays \in Nat /\ nays \in Nat /\ Majority \in Nat
  <2>1. /\ motion \in [kind : Kinds, who : Accounts \cup {None}, opened : Nat, yays : Nat, nays : Nat,
                       positions : [Accounts -> {"none", "yes", "no"}]]
        /\ members \in Seq(Accounts)
    BY <1>0 DEF SeatsTypeOK
  <2>2. yays \in Nat /\ nays \in Nat
    BY <2>1
  <2>3. Len(members) \in Nat
    BY <2>1
  <2>4. QED
    BY <2>2, <2>3 DEF Majority
<1>3. CASE yays >= Majority
  <2>1. PassCurrentMotion /\ motion' = Reset
    BY <1>3 DEF VoteOnMotion
  <2>2. QED
    BY <1>1, <2>1, PassStep
<1>4. CASE ~ (yays >= Majority)
  <2>1. /\ UNCHANGED << members, candidate, confidence, relinquishing, lapsed >>
        /\ motion' = IF nays >= Majority \/ now - motion.opened >= 1 THEN Reset
                     ELSE [motion EXCEPT !.yays = yays, !.nays = nays, !.positions[a] = position]
    BY <1>4 DEF VoteOnMotion
  <2>2. StakesHeld' /\ NextToGo'
    BY <1>0, <1>1, <2>1 DEF StakesHeld, NextToGo, Seated
  <2>3. SUFFICES /\ MotionCounted'
                 /\ motion' \in [kind : Kinds, who : Accounts \cup {None}, opened : Nat, yays : Nat, nays : Nat,
                                 positions : [Accounts -> {"none", "yes", "no"}]]
    BY <1>0, <1>1, <2>1, <2>2 DEF SeatsInv, SeatsTypeOK
  <2>4. CASE nays >= Majority \/ now - motion.opened >= 1
    <3>1. motion' = Reset /\ members' \in Seq(Accounts)
      BY <1>0, <2>1, <2>4 DEF SeatsTypeOK
    <3>2. motion.opened \in Nat /\ "none" \in Kinds
      BY <1>0 DEF SeatsTypeOK, Kinds
    <3>3. [b \in Accounts |-> "none"] \in [Accounts -> {"none", "yes", "no"}]
      OBVIOUS
    <3>4. QED
      BY <3>1, <3>2, <3>3, ResetCounted DEF Reset, NoMotion
  <2>5. CASE ~ (nays >= Majority \/ now - motion.opened >= 1)
    <3>1. motion' = [motion EXCEPT !.yays = yays, !.nays = nays, !.positions[a] = position]
      BY <2>1, <2>5
    <3>2. motion'.yays = yays /\ motion'.nays = nays
      BY <1>0, <3>1 DEF SeatsTypeOK
    <3>3. motion'.yays < Majority /\ motion'.nays < Majority
      BY <1>2, <1>4, <2>5, <3>2
    <3>4. members' = members
      BY <2>1
    <3> HIDE DEF MotionCounted
    <3>5. QED
      BY <1>1, <3>1, <3>3, <3>4, PositionCounted, Zenon
  <2>6. QED
    BY <2>4, <2>5
<1>5. QED
  BY <1>3, <1>4

\* A step of the contracts keeps the invariant.
LEMMA SeatsStepInv ==
    ASSUME SeatsInv, Motions(Kinds) \/ Candidacies
    PROVE  SeatsInv'
<1>1. CASE Motions(Kinds)
  BY <1>1, IntroduceStep, VoteOnMotionStep DEF Motions
<1>2. CASE Candidacies
  BY <1>2, RegistrationStep, ElectionVoteStep, RelinquishStep DEF Candidacies
<1>3. QED
  BY <1>1, <1>2
================================================================================
