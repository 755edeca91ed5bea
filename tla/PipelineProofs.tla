---------------------------- MODULE PipelineProofs ----------------------------
(***************************************************************************)
(* What holds of an account's transactions on their way to a block, for    *)
(* any number of masternodes and delegates, any sizes of batches and       *)
(* queues, and any timing.                                                 *)
(*                                                                         *)
(* The base invariant says where transactions come from: whatever a queue, *)
(* a batch, the work or a block holds is as some masternode admitted it.   *)
(* On it rest five arguments of their own: that a nonce once admitted      *)
(* stays behind the account's nonces or is made available by a reset, that *)
(* a transaction is in one place of a delegate only, that a pending nonce  *)
(* has a transaction under way, that a round has a batch of every          *)
(* masternode in order, and that what a delegate works on is not behind    *)
(* its nonces.                                                             *)
(***************************************************************************)
EXTENDS Pipeline, SubsequencesProofs

----------------------------------------------------------------------------
(* filter_work. *)

\* What a batch carries; the clock is left aside.
Batches == [sender : Masters, stamp : Nat, txs : Seq(Tx)]

LEMMA BatchFields ==
    ASSUME NEW batches \in Seq(Batches), NEW i \in DOMAIN batches
    PROVE  /\ i \in Nat /\ batches[i] \in Batches
           /\ batches[i].sender \in Masters /\ batches[i].stamp \in Nat /\ batches[i].txs \in Seq(Tx)
<1>1. i \in Nat /\ i \in 1 .. Len(batches)
  BY LenProperties
<1>2. batches[i] \in Batches
  BY <1>1, ElementOfSeq
<1>3. QED
  BY <1>1, <1>2 DEF Batches

\* An earlier stamp, or the same stamp and an earlier place.
Earlier(batches, j, i) ==
    batches[j].stamp < batches[i].stamp \/ (batches[j].stamp = batches[i].stamp /\ j < i)

LEMMA BeforeFinite ==
    ASSUME NEW batches \in Seq(Batches), NEW i \in DOMAIN batches
    PROVE  /\ IsFiniteSet(Before(batches, i)) /\ Cardinality(Before(batches, i)) \in 0 .. Len(batches) - 1
           /\ \A j : j \in Before(batches, i) <=> j \in DOMAIN batches /\ Earlier(batches, j, i)
<1>1. PICK N \in Nat : N = Len(batches)
  OBVIOUS
<1>2. DOMAIN batches = 1 .. N /\ i \in 1 .. N
  BY <1>1
<1>3. \A j : j \in Before(batches, i) <=> j \in DOMAIN batches /\ Earlier(batches, j, i)
  BY DEF Before, Earlier
<1>4. batches[i].stamp \in Nat
  BY BatchFields
<1>5. ~ Earlier(batches, i, i)
  BY <1>2, <1>4 DEF Earlier
<1>6. Before(batches, i) \subseteq (1 .. N) \ {i}
  BY <1>2, <1>3, <1>5
<1>7. IsFiniteSet(1 .. N) /\ Cardinality(1 .. N) = N
  BY NumbersUpTo
<1>8. IsFiniteSet((1 .. N) \ {i}) /\ Cardinality((1 .. N) \ {i}) = N - 1
  BY <1>2, <1>7, FS_RemoveElement
<1>9. /\ IsFiniteSet(Before(batches, i)) /\ Cardinality(Before(batches, i)) \in Nat
      /\ Cardinality(Before(batches, i)) <= N - 1
  <2>1. Before(batches, i) \in SUBSET ((1 .. N) \ {i})
    BY <1>6
  <2>2. /\ IsFiniteSet(Before(batches, i))
        /\ Cardinality(Before(batches, i)) <= Cardinality((1 .. N) \ {i})
    BY <1>8, <2>1, FS_Subset
  <2>3. QED
    BY <1>8, <2>2, FS_CardinalityType
<1>10. QED
  BY <1>1, <1>3, <1>9

\* An earlier batch has fewer before it.
LEMMA FewerBefore ==
    ASSUME NEW batches \in Seq(Batches), NEW i \in DOMAIN batches, NEW j \in DOMAIN batches, Earlier(batches, j, i)
    PROVE  Cardinality(Before(batches, j)) < Cardinality(Before(batches, i))
<1>1. /\ IsFiniteSet(Before(batches, i)) /\ IsFiniteSet(Before(batches, j))
      /\ Cardinality(Before(batches, i)) \in Nat /\ Cardinality(Before(batches, j)) \in Nat
      /\ \A k : k \in Before(batches, i) <=> k \in DOMAIN batches /\ Earlier(batches, k, i)
      /\ \A k : k \in Before(batches, j) <=> k \in DOMAIN batches /\ Earlier(batches, k, j)
  BY BeforeFinite
<1>2. \A k \in DOMAIN batches : k \in Nat /\ batches[k].stamp \in Nat
  BY BatchFields
<1>3. \A k \in DOMAIN batches : Earlier(batches, k, j) => Earlier(batches, k, i)
  BY <1>2 DEF Earlier
<1>4. Before(batches, j) \subseteq Before(batches, i)
  BY <1>1, <1>3
<1>5. j \in Before(batches, i) /\ j \notin Before(batches, j)
  BY <1>1, <1>2 DEF Earlier
<1>6. /\ Cardinality(Before(batches, j)) <= Cardinality(Before(batches, i))
      /\ Cardinality(Before(batches, j)) # Cardinality(Before(batches, i))
  <2>1. Before(batches, j) \in SUBSET Before(batches, i)
    BY <1>4
  <2>2. Before(batches, j) # Before(batches, i)
    BY <1>5
  <2>3. QED
    BY <1>1, <2>1, <2>2, FS_Subset
<1>7. QED
  BY <1>1, <1>6

LEMMA EarlierTotal ==
    ASSUME NEW batches \in Seq(Batches), NEW i \in DOMAIN batches, NEW j \in DOMAIN batches, i # j
    PROVE  Earlier(batches, i, j) \/ Earlier(batches, j, i)
<1>1. i \in Nat /\ j \in Nat /\ batches[i].stamp \in Nat /\ batches[j].stamp \in Nat
  BY BatchFields
<1>2. QED
  BY <1>1 DEF Earlier

\* Every place is the right one for one batch.
LEMMA SortedPlace ==
    ASSUME NEW batches \in Seq(Batches), NEW n \in DOMAIN batches
    PROVE  \E i \in DOMAIN batches : Cardinality(Before(batches, i)) = n - 1
<1>1. PICK N \in Nat : N = Len(batches)
  OBVIOUS
<1>2. DOMAIN batches = 1 .. N
  BY <1>1
<1>3. PICK rank : rank = [i \in 1 .. N |-> Cardinality(Before(batches, i)) + 1]
  OBVIOUS
<1>4. \A i \in 1 .. N : /\ Cardinality(Before(batches, i)) \in 0 .. N - 1
                        /\ rank[i] = Cardinality(Before(batches, i)) + 1
  BY <1>1, <1>2, <1>3, BeforeFinite
<1>5. rank \in [1 .. N -> 1 .. N]
  BY <1>3, <1>4
<1>6. \A i, j \in 1 .. N : rank[i] = rank[j] => i = j
  <2>1. SUFFICES ASSUME NEW i \in 1 .. N, NEW j \in 1 .. N, i # j PROVE rank[i] # rank[j]
    OBVIOUS
  <2>2. \/ Cardinality(Before(batches, i)) < Cardinality(Before(batches, j))
        \/ Cardinality(Before(batches, j)) < Cardinality(Before(batches, i))
    BY <1>2, <2>1, EarlierTotal, FewerBefore
  <2>3. QED
    BY <1>4, <2>2
<1>7. rank \in Injection(1 .. N, 1 .. N)
  BY <1>5, <1>6, Fun_IsInj
<1>8. IsFiniteSet(1 .. N)
  BY NumbersUpTo
<1>9. rank \in Surjection(1 .. N, 1 .. N)
  BY <1>7, <1>8, FS_Injection
<1>10. PICK i \in 1 .. N : rank[i] = n
  BY <1>2, <1>9 DEF Surjection
<1>11. Cardinality(Before(batches, i)) = n - 1
  BY <1>4, <1>10
<1>12. QED
  BY <1>2, <1>11

\* filter_work gives the same batches back, by their stamps (work.py:39-41).
LEMMA SortedFacts ==
    ASSUME NEW batches \in Seq(Batches), NEW sorted, sorted = FilterWork(batches)
    PROVE  /\ sorted \in Seq(Batches) /\ Len(sorted) = Len(batches)
           /\ \A n \in DOMAIN sorted : \E i \in DOMAIN batches :
                sorted[n] = batches[i] /\ Cardinality(Before(batches, i)) = n - 1
           /\ \A i \in DOMAIN batches : \E n \in DOMAIN sorted : sorted[n] = batches[i]
           /\ \A n, m \in DOMAIN sorted : n < m => sorted[n].stamp <= sorted[m].stamp
<1>1. PICK N \in Nat : N = Len(batches)
  OBVIOUS
<1>2. DOMAIN batches = 1 .. N
  BY <1>1
<1>3. PICK order : order = [n \in 1 .. N |-> CHOOSE i \in DOMAIN batches : Cardinality(Before(batches, i)) = n - 1]
  OBVIOUS
<1>4. \A n \in 1 .. N : order[n] \in DOMAIN batches /\ Cardinality(Before(batches, order[n])) = n - 1
  BY <1>2, <1>3, SortedPlace
<1>5. sorted = [n \in 1 .. N |-> batches[order[n]]]
  BY <1>2, <1>3 DEF FilterWork
<1>6. sorted \in [1 .. N -> Batches] /\ DOMAIN sorted = 1 .. N
  BY <1>4, <1>5
<1>7. sorted \in Seq(Batches) /\ Len(sorted) = N
  BY <1>6
<1>8. \A n \in 1 .. N : sorted[n] = batches[order[n]]
  BY <1>5
<1>9. \A n \in DOMAIN sorted : \E i \in DOMAIN batches :
        sorted[n] = batches[i] /\ Cardinality(Before(batches, i)) = n - 1
  BY <1>4, <1>6, <1>8
<1>10. ASSUME NEW i \in DOMAIN batches PROVE \E n \in DOMAIN sorted : sorted[n] = batches[i]
  <2>1. PICK n \in 1 .. N : n = Cardinality(Before(batches, i)) + 1
    BY <1>1, BeforeFinite
  <2>2. order[n] = i
    <3>1. SUFFICES ASSUME order[n] # i PROVE FALSE
      OBVIOUS
    <3>2. Cardinality(Before(batches, order[n])) = n - 1 /\ order[n] \in DOMAIN batches
      BY <1>4
    <3>3. \/ Cardinality(Before(batches, i)) < Cardinality(Before(batches, order[n]))
          \/ Cardinality(Before(batches, order[n])) < Cardinality(Before(batches, i))
      BY <3>1, <3>2, EarlierTotal, FewerBefore
    <3>4. Cardinality(Before(batches, i)) \in Nat
      BY BeforeFinite
    <3>5. QED
      BY <2>1, <3>2, <3>3, <3>4
  <2>3. QED
    BY <1>6, <1>8, <2>2
<1>11. ASSUME NEW n \in 1 .. N, NEW m \in 1 .. N, n < m PROVE sorted[n].stamp <= sorted[m].stamp
  <2>1. /\ order[n] \in DOMAIN batches /\ Cardinality(Before(batches, order[n])) = n - 1
        /\ order[m] \in DOMAIN batches /\ Cardinality(Before(batches, order[m])) = m - 1
    BY <1>4
  <2>2. ~ Earlier(batches, order[m], order[n])
    <3>1. SUFFICES ASSUME Earlier(batches, order[m], order[n]) PROVE FALSE
      OBVIOUS
    <3>2. m - 1 < n - 1
      BY <2>1, <3>1, FewerBefore
    <3>3. QED
      BY <1>11, <3>2
  <2>3. batches[order[n]].stamp \in Nat /\ batches[order[m]].stamp \in Nat
    BY <2>1, BatchFields
  <2>4. QED
    BY <1>8, <2>2, <2>3, SMTT(30) DEF Earlier
<1>12. QED
  BY <1>1, <1>6, <1>7, <1>9, <1>10, <1>11

LEMMA SortedSet ==
    ASSUME NEW batches \in Seq(Batches), NEW sorted, sorted = FilterWork(batches)
    PROVE  \A b : b \in ToSet(sorted) <=> b \in ToSet(batches)
<1>1. /\ \A n \in DOMAIN sorted : \E i \in DOMAIN batches : sorted[n] = batches[i]
      /\ \A i \in DOMAIN batches : \E n \in DOMAIN sorted : sorted[n] = batches[i]
  BY SortedFacts
<1>2. QED
  BY <1>1 DEF ToSet

----------------------------------------------------------------------------
(* Sets and sequences. *)

LEMMA ToSetFinite ==
    ASSUME NEW S, NEW s \in Seq(S)
    PROVE  IsFiniteSet(ToSet(s)) /\ ToSet(s) \subseteq S
<1>1. PICK n \in Nat : n = Len(s)
  OBVIOUS
<1>2. s \in [1 .. n -> S] /\ DOMAIN s = 1 .. n
  BY <1>1
<1>3. \A x \in ToSet(s) : \E i \in 1 .. n : s[i] = x
  BY <1>2 DEF ToSet
<1>4. \A i \in 1 .. n : s[i] \in ToSet(s)
  BY <1>2 DEF ToSet
<1>5. s \in [1 .. n -> ToSet(s)]
  BY <1>2, <1>4
<1>6. s \in Surjection(1 .. n, ToSet(s))
  BY <1>3, <1>5, Fun_IsSurj
<1>7. IsFiniteSet(1 .. n)
  BY NumbersUpTo
<1>8. IsFiniteSet(ToSet(s))
  BY <1>6, <1>7, FS_Surjection
<1>9. QED
  BY <1>2, <1>8 DEF ToSet

LEMMA ConcatSet ==
    ASSUME NEW S, NEW s \in Seq(S), NEW u \in Seq(S)
    PROVE  \A x : x \in ToSet(s \o u) <=> x \in ToSet(s) \/ x \in ToSet(u)
<1>1. /\ Len(s) \in Nat /\ Len(u) \in Nat /\ DOMAIN s = 1 .. Len(s) /\ DOMAIN u = 1 .. Len(u)
      /\ DOMAIN (s \o u) = 1 .. Len(s) + Len(u)
      /\ \A i \in 1 .. Len(s) + Len(u) : (s \o u)[i] = IF i <= Len(s) THEN s[i] ELSE u[i - Len(s)]
  OBVIOUS
<1>2. ASSUME NEW x \in ToSet(s \o u) PROVE x \in ToSet(s) \/ x \in ToSet(u)
  <2>1. PICK i \in 1 .. Len(s) + Len(u) : (s \o u)[i] = x
    BY <1>1 DEF ToSet
  <2>2. CASE i <= Len(s)
    BY <1>1, <2>1, <2>2 DEF ToSet
  <2>3. CASE i > Len(s)
    <3>1. i - Len(s) \in 1 .. Len(u) /\ u[i - Len(s)] = x
      BY <1>1, <2>1, <2>3
    <3>2. QED
      BY <1>1, <3>1 DEF ToSet
  <2>4. QED
    BY <1>1, <2>2, <2>3
<1>3. ASSUME NEW x \in ToSet(s) PROVE x \in ToSet(s \o u)
  <2>1. PICK i \in 1 .. Len(s) : s[i] = x
    BY <1>1 DEF ToSet
  <2>2. i \in 1 .. Len(s) + Len(u) /\ (s \o u)[i] = x
    BY <1>1, <2>1
  <2>3. QED
    BY <1>1, <2>2 DEF ToSet
<1>4. ASSUME NEW x \in ToSet(u) PROVE x \in ToSet(s \o u)
  <2>1. PICK i \in 1 .. Len(u) : u[i] = x
    BY <1>1 DEF ToSet
  <2>2. PICK j \in 1 .. Len(s) + Len(u) : j = i + Len(s)
    BY <1>1
  <2>3. ~ (j <= Len(s)) /\ j - Len(s) = i
    BY <1>1, <2>2
  <2>4. (s \o u)[j] = x
    BY <1>1, <2>1, <2>3
  <2>5. QED
    BY <1>1, <2>4 DEF ToSet
<1>5. QED
  BY <1>2, <1>3, <1>4

\* A sequence of a set is a permutation of it.
LEMMA SeqOfSet ==
    ASSUME NEW S, IsFiniteSet(S), NEW s \in SetToSeqs(S)
    PROVE  s \in Seq(S) /\ Len(s) = Cardinality(S) /\ IsInjective(s) /\ ToSet(s) = S
<1>1. PICK n \in Nat : n = Cardinality(S)
  BY FS_CardinalityType
<1>2. s \in [1 .. n -> S] /\ \A i, j \in 1 .. n : i # j => s[i] # s[j]
  BY <1>1 DEF SetToSeqs
<1>3. s \in Injection(1 .. n, S)
  BY <1>2, Fun_IsInj
<1>4. IsFiniteSet(1 .. n) /\ Cardinality(1 .. n) = Cardinality(S)
  BY <1>1, NumbersUpTo
<1>5. s \in Surjection(1 .. n, S)
  BY <1>3, <1>4, FS_Injection
<1>6. \A x \in S : \E i \in 1 .. n : s[i] = x
  BY <1>5 DEF Surjection
<1>7. s \in Seq(S) /\ Len(s) = n /\ DOMAIN s = 1 .. n
  BY <1>2
<1>8. ToSet(s) = S
  BY <1>2, <1>6, <1>7 DEF ToSet
<1>9. IsInjective(s)
  BY <1>2, <1>7 DEF IsInjective
<1>10. QED
  BY <1>1, <1>7, <1>8, <1>9

LEMMA TxsOfFacts ==
    ASSUME NEW batches \in Seq(Batches)
    PROVE  /\ IsFiniteSet(TxsOf(batches)) /\ TxsOf(batches) \subseteq Tx
           /\ \A t : t \in TxsOf(batches) <=> \E i \in DOMAIN batches : t \in ToSet(batches[i].txs)
<1>1. PICK n \in Nat : n = Len(batches)
  OBVIOUS
<1>2. DOMAIN batches = 1 .. n
  BY <1>1
<1>3. PICK sets : sets = {ToSet(batches[i].txs) : i \in 1 .. n}
  OBVIOUS
<1>4. PICK f : f = [i \in 1 .. n |-> ToSet(batches[i].txs)]
  OBVIOUS
<1>5. \A i \in 1 .. n : f[i] \in sets /\ f[i] = ToSet(batches[i].txs)
  BY <1>3, <1>4
<1>6. \A x \in sets : \E i \in 1 .. n : f[i] = x
  BY <1>3, <1>5
<1>7. f \in [1 .. n -> sets]
  BY <1>4, <1>5
<1>8. f \in Surjection(1 .. n, sets)
  BY <1>6, <1>7, Fun_IsSurj
<1>9. IsFiniteSet(1 .. n)
  BY NumbersUpTo
<1>10. IsFiniteSet(sets)
  BY <1>8, <1>9, FS_Surjection
<1>11. \A i \in 1 .. n : IsFiniteSet(ToSet(batches[i].txs)) /\ ToSet(batches[i].txs) \subseteq Tx
  BY <1>2, BatchFields, ToSetFinite
<1>12. \A x \in sets : IsFiniteSet(x)
  BY <1>5, <1>6, <1>11
<1>13. IsFiniteSet(UNION sets)
  BY <1>10, <1>12, FS_UNION
<1>14. TxsOf(batches) = UNION sets
  BY <1>2, <1>3 DEF TxsOf
<1>15. \A t : t \in TxsOf(batches) <=> \E i \in DOMAIN batches : t \in ToSet(batches[i].txs)
  BY <1>2, <1>3, <1>14
<1>16. TxsOf(batches) \subseteq Tx
  BY <1>2, <1>11, <1>15
<1>17. QED
  BY <1>13, <1>14, <1>15, <1>16

----------------------------------------------------------------------------
(* Blocks, and the nonces they leave. *)

\* What the sub-blocks hold is of the rounds whose results were taken for them.
LEMMA ContentsFacts ==
    ASSUME round \in [Delegates -> Seq(Batches)], NEW votes \in Votes
    PROVE  /\ IsFiniteSet(Contents(votes))
           /\ \A k \in DOMAIN votes : votes[k] \in Delegates /\ k \in DOMAIN round[votes[k]]
           /\ \A c \in Contents(votes) : c[2] \in Tx /\ \E k \in DOMAIN votes :
                c[2] \in ToSet(round[votes[k]][k].txs) /\ c[2] \in TxsOf(round[votes[k]])
<1>1. PICK N \in Nat : N = Cardinality(Masters)
  BY WorkInboxAssumption, FS_CardinalityType
<1>2. PICK ks \in SUBSET (1 .. N) : votes \in [ks -> Delegates] /\ \A k \in ks : k \in DOMAIN round[votes[k]]
  BY <1>1 DEF Votes
<1>3. DOMAIN votes = ks
  BY <1>2
<1>4. IsFiniteSet(ks)
  <2>1. IsFiniteSet(1 .. N)
    BY NumbersUpTo
  <2>2. QED
    BY <1>2, <2>1, FS_Subset
<1>5. \A k \in ks : votes[k] \in Delegates /\ k \in DOMAIN round[votes[k]]
  BY <1>2
<1>6. ASSUME NEW k \in ks
      PROVE  /\ IsFiniteSet(ToSet(round[votes[k]][k].txs)) /\ ToSet(round[votes[k]][k].txs) \subseteq Tx
             /\ ToSet(round[votes[k]][k].txs) \subseteq TxsOf(round[votes[k]])
  <2>1. PICK batches \in Seq(Batches) : batches = round[votes[k]]
    BY <1>5
  <2>2. k \in DOMAIN batches
    BY <1>5, <2>1
  <2>3. batches[k].txs \in Seq(Tx)
    BY <2>2, BatchFields
  <2>4. IsFiniteSet(ToSet(batches[k].txs)) /\ ToSet(batches[k].txs) \subseteq Tx
    BY <2>3, ToSetFinite
  <2>5. ToSet(batches[k].txs) \subseteq TxsOf(batches)
    BY <2>2, TxsOfFacts
  <2>6. QED
    BY <2>1, <2>4, <2>5
<1>7. PICK part : part = [k \in ks |-> {<< k, tx >> : tx \in ToSet(round[votes[k]][k].txs)}]
  OBVIOUS
<1>8. PICK parts : parts = {part[k] : k \in ks}
  OBVIOUS
<1>9. ASSUME NEW k \in ks PROVE IsFiniteSet(part[k])
  <2>1. part[k] = {<< k, tx >> : tx \in ToSet(round[votes[k]][k].txs)}
    BY <1>7
  <2>2. PICK txs : txs = ToSet(round[votes[k]][k].txs)
    OBVIOUS
  <2>3. PICK f : f = [tx \in txs |-> << k, tx >>]
    OBVIOUS
  <2>4. f \in [txs -> part[k]] /\ \A x \in part[k] : \E tx \in txs : f[tx] = x
    BY <2>1, <2>2, <2>3
  <2>5. f \in Surjection(txs, part[k])
    BY <2>4, Fun_IsSurj
  <2>6. QED
    BY <1>6, <2>2, <2>5, FS_Surjection
<1>10. IsFiniteSet(parts)
  <2>1. part \in [ks -> parts] /\ \A x \in parts : \E k \in ks : part[k] = x
    BY <1>7, <1>8
  <2>2. part \in Surjection(ks, parts)
    BY <2>1, Fun_IsSurj
  <2>3. QED
    BY <1>4, <2>2, FS_Surjection
<1>11. IsFiniteSet(UNION parts)
  <2>1. \A x \in parts : IsFiniteSet(x)
    BY <1>8, <1>9
  <2>2. QED
    BY <1>10, <2>1, FS_UNION
<1>12. Contents(votes) = UNION parts
  BY <1>3, <1>7, <1>8 DEF Contents
<1>13. ASSUME NEW c \in Contents(votes)
       PROVE  c[2] \in Tx /\ \E k \in DOMAIN votes :
                c[2] \in ToSet(round[votes[k]][k].txs) /\ c[2] \in TxsOf(round[votes[k]])
  <2>1. PICK k \in ks : \E tx \in ToSet(round[votes[k]][k].txs) : c = << k, tx >>
    BY <1>3 DEF Contents
  <2>2. c[2] \in ToSet(round[votes[k]][k].txs)
    BY <2>1
  <2>3. QED
    BY <1>3, <1>6, <2>2
<1>14. QED
  BY <1>3, <1>5, <1>11, <1>12, <1>13

\* A block has transactions of the sub-blocks, each with or without state changes.
LEMMA BlockFacts ==
    ASSUME NEW contents, IsFiniteSet(contents), \A c \in contents : c[2] \in Tx, NEW block \in Blocks(contents)
    PROVE  /\ block \in Seq(Tx)
           /\ \A t \in ToSet(block) : \E c \in contents : SameTx(t, c[2]) /\ t.nonce = c[2].nonce
<1>1. PICK s \in Orders(contents) :
        block \in {[i \in DOMAIN s |-> [s[i][2] EXCEPT !.changes = c[i]]] : c \in [DOMAIN s -> BOOLEAN]}
  BY DEF Blocks
<1>2. PICK c \in [DOMAIN s -> BOOLEAN] : block = [i \in DOMAIN s |-> [s[i][2] EXCEPT !.changes = c[i]]]
  BY <1>1
<1>3. s \in SetToSeqs(contents)
  BY DEF Orders
<1>4. s \in Seq(contents)
  BY <1>3, SeqOfSet
<1>5. PICK n \in Nat : n = Len(s)
  BY <1>4
<1>6. DOMAIN s = 1 .. n /\ \A i \in 1 .. n : s[i] \in contents /\ s[i][2] \in Tx
  BY <1>4, <1>5
<1>7. ASSUME NEW i \in 1 .. n
      PROVE  block[i] \in Tx /\ SameTx(block[i], s[i][2]) /\ block[i].nonce = s[i][2].nonce
  <2>1. PICK tx \in Tx : tx = s[i][2]
    BY <1>6
  <2>2. block[i] = [tx EXCEPT !.changes = c[i]] /\ c[i] \in BOOLEAN
    BY <1>2, <1>6, <2>1
  <2>3. QED
    BY <2>1, <2>2 DEF Tx, SameTx
<1>8. DOMAIN block = 1 .. n
  BY <1>2, <1>6
<1>9. block \in [1 .. n -> Tx]
  BY <1>2, <1>6, <1>7
<1>10. block \in Seq(Tx)
  BY <1>9
<1>11. \A t \in ToSet(block) : \E i \in 1 .. n : t = block[i]
  BY <1>8 DEF ToSet
<1>12. QED
  BY <1>6, <1>7, <1>10, <1>11

\* The last transaction with state changes counts, if there is one.
LEMMA CommittedFacts ==
    ASSUME NEW txs \in Seq(Tx), NEW nonce
    PROVE  /\ (\A i \in DOMAIN txs : ~ txs[i].changes) => CommittedNonce(txs, nonce) = nonce
           /\ (\E i \in DOMAIN txs : txs[i].changes) =>
                \E i \in DOMAIN txs : CommittedNonce(txs, nonce) = txs[i].nonce + 1
<1>1. PICK touching : touching = {i \in DOMAIN txs : txs[i].changes}
  OBVIOUS
<1>2. CASE touching = {}
  <2>1. \A i \in DOMAIN txs : ~ txs[i].changes
    BY <1>1, <1>2, Zenon
  <2>2. CommittedNonce(txs, nonce) = nonce
    BY <1>1, <1>2, Zenon DEF CommittedNonce
  <2>3. QED
    BY <2>1, <2>2, Zenon
<1>3. CASE touching # {}
  <2>1. touching \subseteq 1 .. Len(txs) /\ Len(txs) \in Nat
    <3>1. DOMAIN txs = 1 .. Len(txs) /\ Len(txs) \in Nat
      OBVIOUS
    <3>2. QED
      BY <1>1, <3>1, Zenon
  <2>2. \E x \in touching : \A y \in touching : y <= x
    BY <1>3, <2>1, GreatestNatural
  <2>3. PICK last : last = CHOOSE i \in touching : \A j \in touching : j <= i
    OBVIOUS
  <2>4. last \in touching
    BY <2>2, <2>3, Zenon
  <2>5. CommittedNonce(txs, nonce) = txs[last].nonce + 1
    BY <1>1, <1>3, <2>3, Zenon DEF CommittedNonce
  <2>6. last \in DOMAIN txs /\ txs[last].changes
    BY <1>1, <2>4, Zenon
  <2>7. QED
    BY <2>5, <2>6, Zenon
<1>4. QED
  BY <1>2, <1>3

LEMMA AtProcessorFacts ==
    ASSUME NEW block \in Seq(Tx), NEW m, NEW mine, mine = AtProcessor(m, block)
    PROVE  /\ mine \in Seq(Tx)
           /\ \A i \in DOMAIN mine : mine[i] \in ToSet(block) /\ mine[i].processor = m
           /\ \A t \in ToSet(block) : t.processor = m => \E i \in DOMAIN mine : mine[i] = t
<1>1. PICK places : places = {i \in DOMAIN block : block[i].processor = m}
  OBVIOUS
<1>2. mine = AtPlaces(block, places) /\ places \subseteq DOMAIN block
  BY <1>1 DEF AtProcessor
<1>3. /\ mine \in Seq(Tx)
      /\ \A i \in DOMAIN mine : Nth(places, i) \in places /\ mine[i] = block[Nth(places, i)]
  BY <1>2, ElementsAtPlaces
<1>4. \A i \in DOMAIN mine : mine[i] \in ToSet(block) /\ mine[i].processor = m
  BY <1>1, <1>3 DEF ToSet
<1>5. ASSUME NEW t \in ToSet(block), t.processor = m PROVE \E i \in DOMAIN mine : mine[i] = t
  <2>1. PICK i \in DOMAIN block : block[i] = t
    BY DEF ToSet
  <2>2. i \in places
    BY <1>1, <1>5, <2>1
  <2>3. QED
    BY <1>2, <2>1, <2>2, AtPlacesCovers
<1>6. QED
  BY <1>3, <1>4, <1>5

\* A transaction of the block at processor m changed the state.
Changing(block, m) == \E t \in ToSet(block) : t.processor = m /\ t.changes

\* What a block does to the nonce at processor m (storage.py:105-119).
LEMMA NonceEffect ==
    ASSUME NEW block \in Seq(Tx), NEW m, NEW nonce
    PROVE  /\ ~ Changing(block, m) => CommittedNonce(AtProcessor(m, block), nonce) = nonce
           /\ Changing(block, m) => \E t \in ToSet(block) :
                t.processor = m /\ CommittedNonce(AtProcessor(m, block), nonce) = t.nonce + 1
<1>1. PICK mine : mine = AtProcessor(m, block)
  OBVIOUS
<1>2. /\ mine \in Seq(Tx)
      /\ \A i \in DOMAIN mine : mine[i] \in ToSet(block) /\ mine[i].processor = m
      /\ \A t \in ToSet(block) : t.processor = m => \E i \in DOMAIN mine : mine[i] = t
  BY <1>1, AtProcessorFacts
<1>3. Changing(block, m) <=> \E i \in DOMAIN mine : mine[i].changes
  BY <1>2, Zenon DEF Changing
<1>4. /\ (\A i \in DOMAIN mine : ~ mine[i].changes) => CommittedNonce(mine, nonce) = nonce
      /\ (\E i \in DOMAIN mine : mine[i].changes) =>
            \E i \in DOMAIN mine : CommittedNonce(mine, nonce) = mine[i].nonce + 1
  BY <1>2, CommittedFacts
<1>5. CASE ~ Changing(block, m)
  BY <1>1, <1>3, <1>4, <1>5, Zenon
<1>6. CASE Changing(block, m)
  <2>1. PICK i \in DOMAIN mine : CommittedNonce(mine, nonce) = mine[i].nonce + 1
    BY <1>3, <1>4, <1>6, Zenon
  <2>2. mine[i] \in ToSet(block) /\ mine[i].processor = m
    BY <1>2
  <2>3. QED
    BY <1>1, <1>6, <2>1, <2>2, Zenon
<1>7. QED
  BY <1>5, <1>6

\* ... and to the pending nonce there (storage.py:119-122).
LEMMA PendingEffect ==
    ASSUME NEW block \in Seq(Tx), NEW m, NEW pend
    PROVE  /\ ~ Changing(block, m) => CommittedPending(AtProcessor(m, block), pend) = pend
           /\ Changing(block, m) => CommittedPending(AtProcessor(m, block), pend) = 0
<1>1. PICK mine : mine = AtProcessor(m, block)
  OBVIOUS
<1>2. /\ \A i \in DOMAIN mine : mine[i] \in ToSet(block) /\ mine[i].processor = m
      /\ \A t \in ToSet(block) : t.processor = m => \E i \in DOMAIN mine : mine[i] = t
  BY <1>1, AtProcessorFacts
<1>3. Changing(block, m) <=> \E i \in DOMAIN mine : mine[i].changes
  BY <1>2, Zenon DEF Changing
<1>4. CommittedPending(mine, pend) = IF Changing(block, m) THEN 0 ELSE pend
  BY <1>3, Zenon DEF CommittedPending
<1>5. QED
  BY <1>1, <1>4, Zenon

----------------------------------------------------------------------------
(* Gathering and taking up work. *)

\* verify_work leaves `work` as it is or adds the batch, if there is none of its sender.
LEMMA AddedFacts ==
    ASSUME NEW batches, NEW batch, NEW at, NEW funded, NEW more, more = Added(batches, batch, at, funded)
    PROVE  \/ more = batches
           \/ /\ more = Append(batches, batch) /\ Verified(batch, at, funded)
              /\ \A i \in DOMAIN batches : batches[i].sender # batch.sender
BY DEF Added

\* The to-do work that is taken up: verified, of each sender the first.
FirstGood(batches, at, funded, i) ==
    /\ Verified(batches[i], at, funded)
    /\ \A j \in DOMAIN batches : Verified(batches[j], at, funded) /\ j < i => batches[j].sender # batches[i].sender

LEMMA TodoFacts ==
    ASSUME NEW batches \in Seq(Batches), NEW at, NEW funded, NEW taken, taken = TodoWork(batches, at, funded)
    PROVE  /\ taken \in Seq(Batches)
           /\ \A n \in DOMAIN taken : \E i \in DOMAIN batches : taken[n] = batches[i] /\ Verified(batches[i], at, funded)
           /\ \A n, k \in DOMAIN taken : n # k => taken[n].sender # taken[k].sender
           /\ \A i \in DOMAIN batches : FirstGood(batches, at, funded, i) => \E n \in DOMAIN taken : taken[n] = batches[i]
<1>1. PICK good : good = {i \in DOMAIN batches : Verified(batches[i], at, funded)}
  OBVIOUS
<1>2. PICK first : first = {i \in good : \A j \in good : j < i => batches[j].sender # batches[i].sender}
  OBVIOUS
<1>3. taken = AtPlaces(batches, first)
  BY <1>1, <1>2 DEF TodoWork
<1>4. first \subseteq DOMAIN batches
  BY <1>1, <1>2
<1>5. \A i \in DOMAIN batches : i \in first <=> FirstGood(batches, at, funded, i)
  BY <1>1, <1>2 DEF FirstGood
<1>6. /\ taken \in Seq(Batches)
      /\ \A n \in DOMAIN taken : Nth(first, n) \in first /\ taken[n] = batches[Nth(first, n)]
      /\ \A n, k \in DOMAIN taken : Nth(first, n) = Nth(first, k) => n = k
  BY <1>3, <1>4, ElementsAtPlaces
<1>7. ASSUME NEW n \in DOMAIN taken
      PROVE  \E i \in DOMAIN batches : taken[n] = batches[i] /\ Verified(batches[i], at, funded)
  <2>1. PICK i \in first : i = Nth(first, n)
    BY <1>6
  <2>2. i \in DOMAIN batches /\ FirstGood(batches, at, funded, i)
    BY <1>4, <1>5
  <2>3. QED
    BY <1>6, <2>1, <2>2 DEF FirstGood
<1>8. ASSUME NEW n \in DOMAIN taken, NEW k \in DOMAIN taken, n # k
      PROVE  taken[n].sender # taken[k].sender
  <2>1. PICK i \in first : i = Nth(first, n)
    BY <1>6
  <2>2. PICK j \in first : j = Nth(first, k)
    BY <1>6
  <2>3. i # j /\ taken[n] = batches[i] /\ taken[k] = batches[j]
    BY <1>6, <1>8, <2>1, <2>2
  <2>4. i \in DOMAIN batches /\ j \in DOMAIN batches /\ FirstGood(batches, at, funded, i) /\ FirstGood(batches, at, funded, j)
    BY <1>4, <1>5
  <2>5. i \in Nat /\ j \in Nat
    BY <2>4, BatchFields
  <2>6. i < j \/ j < i
    BY <2>3, <2>5
  <2>7. QED
    BY <2>3, <2>4, <2>6 DEF FirstGood
<1>9. \A i \in DOMAIN batches : FirstGood(batches, at, funded, i) => \E n \in DOMAIN taken : taken[n] = batches[i]
  BY <1>3, <1>4, <1>5, AtPlacesCovers
<1>10. QED
  BY <1>6, <1>7, <1>8, <1>9

\* pad_work: one empty batch for each masternode of which there is none.
LEMMA ShimFacts ==
    ASSUME NEW batches \in Seq(Batches), now \in Nat, NEW shims \in SetToSeqs({Shim(m) : m \in Missing(batches)})
    PROVE  /\ shims \in Seq(Batches) /\ Len(shims) = Cardinality(Missing(batches))
           /\ \A i \in DOMAIN shims : \E m \in Missing(batches) : shims[i] = Shim(m)
           /\ \A m \in Missing(batches) : \E i \in DOMAIN shims : shims[i] = Shim(m)
<1>1. PICK missing : missing = Missing(batches)
  OBVIOUS
<1>2. IsFiniteSet(missing) /\ missing \subseteq Masters
  <2>1. missing \in SUBSET Masters
    BY <1>1 DEF Missing
  <2>2. QED
    BY <2>1, WorkInboxAssumption, FS_Subset
<1>3. PICK set : set = {Shim(m) : m \in missing}
  OBVIOUS
<1>4. PICK f : f = [m \in missing |-> Shim(m)]
  OBVIOUS
<1>5. \A m \in missing : Shim(m) \in Batches /\ Shim(m).sender = m /\ f[m] = Shim(m) /\ f[m] \in set
  <2>1. TAKE m \in missing
  <2>2. m \in Masters
    BY <1>2
  <2>3. << >> \in Seq(Tx)
    BY EmptySeq
  <2>4. Shim(m) = [sender |-> m, stamp |-> now, txs |-> << >>]
    BY DEF Shim
  <2>5. QED
    BY <1>3, <1>4, <2>2, <2>3, <2>4 DEF Batches
<1>6. \A x \in set : \E m \in missing : f[m] = x
  BY <1>3, <1>5
<1>7. \A m, k \in missing : f[m] = f[k] => m = k
  BY <1>5
<1>8. f \in [missing -> set]
  BY <1>4, <1>5
<1>9. f \in Surjection(missing, set)
  BY <1>6, <1>8, Fun_IsSurj
<1>10. f \in Injection(missing, set)
  BY <1>7, <1>8, Fun_IsInj
<1>11. IsFiniteSet(set) /\ Cardinality(set) = Cardinality(missing)
  BY <1>2, <1>9, <1>10, FS_Surjection
<1>12. shims \in SetToSeqs(set)
  BY <1>1, <1>3
<1>13. shims \in Seq(set) /\ Len(shims) = Cardinality(missing) /\ ToSet(shims) = set
  BY <1>11, <1>12, SeqOfSet
<1>14. \A x \in set : x \in Batches
  BY <1>5, <1>6
<1>15. shims \in Seq(Batches)
  BY <1>13, <1>14, SeqMonotonic
<1>16. \A i \in DOMAIN shims : \E m \in missing : shims[i] = Shim(m)
  <2>1. TAKE i \in DOMAIN shims
  <2>2. shims[i] \in set
    BY <1>13 DEF ToSet
  <2>3. QED
    BY <1>3, <2>2
<1>17. \A m \in missing : \E i \in DOMAIN shims : shims[i] = Shim(m)
  <2>1. TAKE m \in missing
  <2>2. Shim(m) \in ToSet(shims)
    BY <1>3, <1>13
  <2>3. QED
    BY <2>2 DEF ToSet
<1>18. QED
  BY <1>1, <1>13, <1>15, <1>16, <1>17

\* The round is the work gathered and the shims, by their stamps.
LEMMA GatherFacts ==
    ASSUME work \in [Delegates -> Seq(Batches)], round \in [Delegates -> Seq(Batches)], now \in Nat,
           NEW d \in Delegates, Gather(d)
    PROVE  \E shims \in Seq(Batches), padded \in Seq(Batches), sorted \in Seq(Batches) :
             /\ Len(shims) = Cardinality(Missing(work[d]))
             /\ \A i \in DOMAIN shims : \E m \in Missing(work[d]) : shims[i] = Shim(m)
             /\ \A m \in Missing(work[d]) : \E i \in DOMAIN shims : shims[i] = Shim(m)
             /\ padded = work[d] \o shims /\ sorted = FilterWork(padded)
             /\ round' = [round EXCEPT ![d] = sorted]
             /\ \A b : b \in ToSet(sorted) <=> b \in ToSet(work[d]) \/ b \in ToSet(shims)
<1>1. PICK batches \in Seq(Batches) : batches = work[d]
  OBVIOUS
<1>2. PICK shims \in SetToSeqs({Shim(m) : m \in Missing(batches)}) :
        round' = [round EXCEPT ![d] = FilterWork(batches \o shims)]
  BY <1>1 DEF Gather
<1>3. /\ shims \in Seq(Batches) /\ Len(shims) = Cardinality(Missing(batches))
      /\ \A i \in DOMAIN shims : \E m \in Missing(batches) : shims[i] = Shim(m)
      /\ \A m \in Missing(batches) : \E i \in DOMAIN shims : shims[i] = Shim(m)
  BY ShimFacts
<1>4. PICK padded \in Seq(Batches) : padded = batches \o shims
  BY <1>3, ConcatProperties
<1>5. PICK sorted : sorted = FilterWork(padded)
  OBVIOUS
<1>6. sorted \in Seq(Batches) /\ \A b : b \in ToSet(sorted) <=> b \in ToSet(padded)
  BY <1>5, SortedFacts, SortedSet
<1>7. \A b : b \in ToSet(padded) <=> b \in ToSet(batches) \/ b \in ToSet(shims)
  BY <1>3, <1>4, ConcatSet
<1>8. round' = [round EXCEPT ![d] = sorted]
  BY <1>2, <1>4, <1>5
<1>9. \A b : b \in ToSet(sorted) <=> b \in ToSet(batches) \/ b \in ToSet(shims)
  BY <1>6, <1>7
<1>10. /\ Len(shims) = Cardinality(Missing(work[d]))
       /\ \A i \in DOMAIN shims : \E m \in Missing(work[d]) : shims[i] = Shim(m)
       /\ \A m \in Missing(work[d]) : \E i \in DOMAIN shims : shims[i] = Shim(m)
       /\ padded = work[d] \o shims /\ sorted = FilterWork(padded)
       /\ \A b : b \in ToSet(sorted) <=> b \in ToSet(work[d]) \/ b \in ToSet(shims)
  BY <1>1, <1>3, <1>4, <1>5, <1>9, Zenon
<1>11. QED
  BY <1>3, <1>4, <1>6, <1>8, <1>10, Zenon

----------------------------------------------------------------------------
(* The base invariant. *)

\* The transaction that m admitted as its id-th has this nonce.
AsAdmitted(t) ==
    /\ t \in Tx
    /\ t.id \in DOMAIN admitted[t.processor]
    /\ t.nonce = admitted[t.processor][t.id]

\* How many transactions of m have left its queue.
Left(m) == Len(admitted[m]) - Len(queue[m])

\* A batch as it was packed: of transactions of its sender that have left the queue.
AsPacked(b) ==
    /\ b \in Batches /\ b.stamp <= now
    /\ \A t \in ToSet(b.txs) : AsAdmitted(t) /\ t.processor = b.sender /\ t.id <= Left(t.processor)

Types ==
    /\ now \in 0 .. MaxNow /\ phase \in [Delegates -> {"accept", "confirm"}]
    /\ waiting \in [Processors -> BOOLEAN] /\ pending \in [Processors -> Nat]
    /\ nonces \in [Nodes -> [Processors -> Nat]]
    /\ queue \in [Processors -> Seq(Tx)] /\ admitted \in [Processors -> Seq(Nat)]
    /\ reusable \in [Processors -> SUBSET Nat]
    /\ work \in [Delegates -> Seq(Batches)] /\ todo \in [Delegates -> Seq(Batches)]
    /\ round \in [Delegates -> Seq(Batches)] /\ net \in [Delegates -> SUBSET Batches]
    /\ executed \in [Delegates -> SUBSET Tx] /\ current \subseteq Delegates /\ outdated \subseteq Nodes
    /\ twice \in BOOLEAN /\ hitch \in BOOLEAN
    /\ news \in [Nodes -> Seq(Tx) \cup {NoBlock}]

\* The queue of a masternode holds the transactions it admitted last.
QueuesAsAdmitted ==
    \A m \in Processors :
        /\ Len(queue[m]) <= Len(admitted[m])
        /\ \A i \in DOMAIN queue[m] :
             AsAdmitted(queue[m][i]) /\ queue[m][i].processor = m /\ queue[m][i].id = Left(m) + i

\* The batches that d holds, or that are on their way to it.
Held(d) == net[d] \cup ToSet(work[d]) \cup ToSet(todo[d]) \cup ToSet(round[d])

BatchesAsPacked ==
    /\ \A d \in Delegates : \A b \in Held(d) : AsPacked(b)
    /\ \A d \in Delegates : \A t \in executed[d] : AsAdmitted(t) /\ t.id <= Left(t.processor)
    /\ \A n \in Nodes : news[n] # NoBlock => \A t \in ToSet(news[n]) : AsAdmitted(t)

\* Work is accepted or kept for later, and a masternode's only once.
WorkOrTodo ==
    \A d \in Delegates :
        /\ phase[d] = "accept" => todo[d] = << >>
        /\ phase[d] = "confirm" => work[d] = << >>
        /\ \A i, j \in DOMAIN work[d] : i # j => work[d][i].sender # work[d][j].sender

\* A node's nonces are those of admitted transactions.
NoncesAdmitted ==
    \A m \in Processors, n \in Nodes : nonces[n][m] > 0 => nonces[n][m] - 1 \in ToSet(admitted[m])

Base == Types /\ QueuesAsAdmitted /\ BatchesAsPacked /\ WorkOrTodo /\ NoncesAdmitted

\* What is as admitted, or as packed, stays so as more is admitted and packed.
LEMMA StaysAsAdmitted ==
    ASSUME Types, Types', NEW t,
           \A m \in Processors : Len(admitted[m]) <= Len(admitted'[m]),
           \A m \in Processors : \A i \in DOMAIN admitted[m] : admitted'[m][i] = admitted[m][i],
           AsAdmitted(t)
    PROVE  AsAdmitted(t)'
<1>1. t \in Tx /\ t.processor \in Processors /\ t.id \in DOMAIN admitted[t.processor]
      /\ t.nonce = admitted[t.processor][t.id]
  BY DEF AsAdmitted, Tx
<1>2. admitted[t.processor] \in Seq(Nat) /\ admitted'[t.processor] \in Seq(Nat)
  BY <1>1 DEF Types
<1>3. /\ DOMAIN admitted[t.processor] = 1 .. Len(admitted[t.processor])
      /\ DOMAIN admitted'[t.processor] = 1 .. Len(admitted'[t.processor])
      /\ Len(admitted[t.processor]) \in Nat /\ Len(admitted'[t.processor]) \in Nat
  BY <1>2
<1>4. Len(admitted[t.processor]) <= Len(admitted'[t.processor])
  BY <1>1
<1>5. t.id \in DOMAIN admitted'[t.processor]
  BY <1>1, <1>3, <1>4
<1>6. admitted'[t.processor][t.id] = t.nonce
  BY <1>1
<1>7. QED
  BY <1>1, <1>5, <1>6 DEF AsAdmitted

LEMMA LeftTyped ==
    ASSUME Types, NEW m \in Processors
    PROVE  Left(m) \in Int /\ Len(admitted[m]) \in Nat /\ Len(queue[m]) \in Nat
<1>1. admitted[m] \in Seq(Nat) /\ queue[m] \in Seq(Tx)
  BY DEF Types
<1>2. QED
  BY <1>1 DEF Left

\* The same for all that is mentioned anywhere.
LEMMA StayAsPacked ==
    ASSUME Types, Types',
           \A m \in Processors : Len(admitted[m]) <= Len(admitted'[m]),
           \A m \in Processors : \A i \in DOMAIN admitted[m] : admitted'[m][i] = admitted[m][i],
           \A m \in Processors : Left(m) <= Left(m)',
           now <= now'
    PROVE  /\ \A t : AsAdmitted(t) => AsAdmitted(t)'
           /\ \A t : AsAdmitted(t) /\ t.id <= Left(t.processor) => t.id <= Left(t.processor)'
           /\ \A b : AsPacked(b) => AsPacked(b)'
<1>1. \A t : AsAdmitted(t) => AsAdmitted(t)'
  BY StaysAsAdmitted
<1>2. ASSUME NEW t, AsAdmitted(t), t.id <= Left(t.processor) PROVE t.id <= Left(t.processor)'
  <2>1. t.processor \in Processors /\ t.id \in Nat
    BY <1>2 DEF AsAdmitted, Tx
  <2>2. Left(t.processor) \in Int /\ Left(t.processor)' \in Int
    <3>1. PICK m \in Processors : m = t.processor
      BY <2>1
    <3>2. Left(m) \in Int
      BY LeftTyped
    <3>3. admitted'[m] \in Seq(Nat) /\ queue'[m] \in Seq(Tx)
      BY DEF Types
    <3>4. Left(m)' \in Int
      BY <3>3 DEF Left
    <3>5. QED
      BY <3>1, <3>2, <3>4
  <2>3. Left(t.processor) <= Left(t.processor)'
    BY <2>1
  <2>4. QED
    BY <1>2, <2>1, <2>2, <2>3
<1>3. ASSUME NEW b, AsPacked(b) PROVE AsPacked(b)'
  <2>1. b \in Batches /\ b.stamp <= now /\ b.stamp \in Nat
    BY <1>3 DEF AsPacked, Batches
  <2>2. b.stamp <= now'
    <3>1. now \in Nat /\ now' \in Nat
      BY DEF Types
    <3>2. QED
      BY <2>1, <3>1
  <2>3. \A t \in ToSet(b.txs) : AsAdmitted(t)' /\ t.processor = b.sender /\ t.id <= Left(t.processor)'
    BY <1>1, <1>2, <1>3 DEF AsPacked
  <2>4. QED
    BY <2>1, <2>2, <2>3 DEF AsPacked
<1>4. QED
  BY <1>1, <1>2, <1>3

LEMMA SamePacked ==
    ASSUME UNCHANGED << now, queue, admitted >>
    PROVE  /\ \A t : AsAdmitted(t)' <=> AsAdmitted(t)
           /\ \A m : Left(m)' = Left(m)
           /\ \A b : AsPacked(b)' <=> AsPacked(b)
<1>1. \A t : AsAdmitted(t)' <=> AsAdmitted(t)
  BY DEF AsAdmitted
<1>2. \A m : Left(m)' = Left(m)
  BY DEF Left
<1>3. \A b : AsPacked(b)' <=> AsPacked(b)
  BY <1>1, <1>2 DEF AsPacked
<1>4. QED
  BY <1>1, <1>2, <1>3

LEMMA SameQueues ==
    ASSUME Base, UNCHANGED << queue, admitted >>
    PROVE  QueuesAsAdmitted'
BY Zenon DEF Base, QueuesAsAdmitted, AsAdmitted, Left

\* The nonces that a block leaves are those after admitted transactions.
LEMMA CommittedTyped ==
    ASSUME Base, NEW n \in Nodes, news[n] # NoBlock
    PROVE  /\ Committed(n, news[n]) \in [Processors -> Nat]
           /\ \A m \in Processors : Committed(n, news[n])[m] > 0 => Committed(n, news[n])[m] - 1 \in ToSet(admitted[m])
<1>1. news[n] \in Seq(Tx) /\ \A t \in ToSet(news[n]) : AsAdmitted(t)
  BY DEF Base, Types, BatchesAsPacked
<1>2. \A m \in Processors : nonces[n][m] \in Nat /\ (nonces[n][m] > 0 => nonces[n][m] - 1 \in ToSet(admitted[m]))
  BY DEF Base, Types, NoncesAdmitted
<1>3. ASSUME NEW m \in Processors, NEW c, c = CommittedNonce(AtProcessor(m, news[n]), nonces[n][m])
      PROVE  c \in Nat /\ (c > 0 => c - 1 \in ToSet(admitted[m]))
  <2>1. \/ c = nonces[n][m]
        \/ \E t \in ToSet(news[n]) : t.processor = m /\ c = t.nonce + 1
    <3>1. PICK block \in Seq(Tx) : block = news[n]
      BY <1>1
    <3>2. PICK nonce : nonce = nonces[n][m]
      OBVIOUS
    <3>3. \/ CommittedNonce(AtProcessor(m, block), nonce) = nonce
          \/ \E t \in ToSet(block) : t.processor = m /\ CommittedNonce(AtProcessor(m, block), nonce) = t.nonce + 1
      BY NonceEffect
    <3>4. QED
      BY <1>3, <3>1, <3>2, <3>3
  <2>2. CASE c = nonces[n][m]
    BY <1>2, <2>2
  <2>3. ASSUME NEW t \in ToSet(news[n]), t.processor = m, c = t.nonce + 1
        PROVE  c \in Nat /\ c - 1 \in ToSet(admitted[m])
    <3>1. AsAdmitted(t)
      BY <1>1
    <3>2. t.nonce \in Nat /\ t.id \in DOMAIN admitted[m] /\ t.nonce = admitted[m][t.id]
      BY <2>3, <3>1 DEF AsAdmitted, Tx
    <3>3. c \in Nat /\ c - 1 = t.nonce
      BY <2>3, <3>2
    <3>4. QED
      BY <3>2, <3>3 DEF ToSet
  <2>4. QED
    BY <2>1, <2>2, <2>3
<1>4. Committed(n, news[n]) = [m \in Processors |-> CommittedNonce(AtProcessor(m, news[n]), nonces[n][m])]
  BY DEF Committed
<1>5. QED
  BY <1>3, <1>4

LEMMA InitBase == ASSUME Init PROVE Base
<1>1. Types
  <2>1. 0 \in 0 .. MaxNow
    BY PipelineAssumption
  <2>2. << >> \in Seq(Batches) /\ << >> \in Seq(Tx) /\ << >> \in Seq(Nat)
    BY EmptySeq
  <2>3. QED
    BY <2>1, <2>2 DEF Init, InboxInit, Types
<1>2. QueuesAsAdmitted
  BY DEF Init, QueuesAsAdmitted
<1>3. BatchesAsPacked
  BY DEF Init, InboxInit, BatchesAsPacked, Held, ToSet
<1>4. WorkOrTodo
  BY DEF Init, InboxInit, WorkOrTodo
<1>5. NoncesAdmitted
  BY DEF Init, NoncesAdmitted
<1>6. QED
  BY <1>1, <1>2, <1>3, <1>4, <1>5 DEF Base

LEMMA TickBase ==
    ASSUME Base, now < MaxNow, Tick, UNCHANGED << masterVars, history >>
    PROVE  Base'
<1>1. /\ now' = now + 1
      /\ UNCHANGED << phase, work, todo, round, queue, pending, nonces, waiting, net, news,
                      admitted, reusable, current, outdated, executed, twice, hitch >>
  BY DEF Tick, inboxVars, masterVars, history
<1>2. now \in Nat /\ now' \in 0 .. MaxNow /\ now <= now'
  BY <1>1, PipelineAssumption DEF Base, Types
<1>3. Types'
  BY <1>1, <1>2 DEF Base, Types
<1>4. \A m \in Processors : Left(m) = Left(m)' /\ Left(m) \in Int /\ Len(admitted[m]) \in Nat
  BY <1>1, LeftTyped DEF Left, Base
<1>5. /\ \A t : AsAdmitted(t) => AsAdmitted(t)'
      /\ \A t : AsAdmitted(t) /\ t.id <= Left(t.processor) => t.id <= Left(t.processor)'
      /\ \A b : AsPacked(b) => AsPacked(b)'
  <2>1. /\ \A m \in Processors : Len(admitted[m]) <= Len(admitted'[m])
        /\ \A m \in Processors : \A i \in DOMAIN admitted[m] : admitted'[m][i] = admitted[m][i]
        /\ \A m \in Processors : Left(m) <= Left(m)'
    BY <1>1, <1>4
  <2>2. Types
    BY DEF Base
  <2>3. QED
    BY <1>2, <1>3, <2>1, <2>2, StayAsPacked
<1>6. QueuesAsAdmitted'
  BY <1>1, <1>5 DEF Base, QueuesAsAdmitted, Left
<1>7. BatchesAsPacked'
  BY <1>1, <1>5 DEF Base, BatchesAsPacked, Held
<1>8. WorkOrTodo' /\ NoncesAdmitted'
  BY <1>1 DEF Base, WorkOrTodo, NoncesAdmitted
<1>9. QED
  BY <1>3, <1>6, <1>7, <1>8 DEF Base

LEMMA SubmitBase == ASSUME Base, NEW m \in Processors, Submit(m) PROVE Base'
<1>1. Types
  BY DEF Base
<1>2. PICK n \in 0 .. Larger(nonces[m][m], pending[m]) + 1 :
        /\ pending' = [pending EXCEPT ![m] = n + 1]
        /\ admitted' = [admitted EXCEPT ![m] = Append(@, n)]
        /\ queue' = [queue EXCEPT ![m] =
             Append(@, [processor |-> m, id |-> Len(admitted[m]) + 1, nonce |-> n, changes |-> FALSE])]
  BY DEF Submit
<1>3. UNCHANGED << now, phase, work, todo, round, nonces, waiting, net, news, reusable, current, outdated, executed, twice, hitch >>
  BY DEF Submit, inboxVars
<1>4. n \in Nat
  <2>1. nonces[m][m] \in Nat /\ pending[m] \in Nat
    BY <1>1 DEF Types, Nodes
  <2>2. QED
    BY <2>1 DEF Larger
<1>5. PICK mine \in Seq(Nat) : mine = admitted[m]
  BY <1>1 DEF Types
<1>6. PICK had \in Seq(Tx) : had = queue[m]
  BY <1>1 DEF Types
<1>7. PICK new : new = [processor |-> m, id |-> Len(mine) + 1, nonce |-> n, changes |-> FALSE]
  OBVIOUS
<1>8. Len(mine) \in Nat /\ Len(had) \in Nat /\ Len(had) <= Len(mine)
  BY <1>5, <1>6 DEF Base, QueuesAsAdmitted
<1>9. new \in Tx
  BY <1>4, <1>7, <1>8 DEF Tx
<1>10. PICK more \in Seq(Nat) : more = Append(mine, n)
  BY <1>4, <1>5, AppendProperties
<1>11. PICK longer \in Seq(Tx) : longer = Append(had, new)
  BY <1>6, <1>9, AppendProperties
<1>12. /\ Len(more) = Len(mine) + 1 /\ DOMAIN more = 1 .. Len(mine) + 1
       /\ \A i \in 1 .. Len(mine) : more[i] = mine[i]
       /\ more[Len(mine) + 1] = n
  BY <1>4, <1>5, <1>10
<1>13. /\ Len(longer) = Len(had) + 1 /\ DOMAIN longer = 1 .. Len(had) + 1
       /\ \A i \in 1 .. Len(had) : longer[i] = had[i]
       /\ longer[Len(had) + 1] = new
  BY <1>6, <1>9, <1>11
<1>14. admitted' = [admitted EXCEPT ![m] = more] /\ queue' = [queue EXCEPT ![m] = longer]
  BY <1>2, <1>5, <1>6, <1>7, <1>10, <1>11
<1>15. /\ admitted'[m] = more /\ queue'[m] = longer
       /\ \A k \in Processors : k # m => admitted'[k] = admitted[k] /\ queue'[k] = queue[k]
  BY <1>1, <1>14 DEF Types
<1>16. Types'
  <2>1. pending' \in [Processors -> Nat]
    BY <1>1, <1>2, <1>4 DEF Types
  <2>2. queue' \in [Processors -> Seq(Tx)] /\ admitted' \in [Processors -> Seq(Nat)]
    BY <1>1, <1>14 DEF Types
  <2>3. QED
    BY <1>1, <1>3, <2>1, <2>2 DEF Types
<1>17. \A k \in Processors : /\ Len(admitted[k]) <= Len(admitted'[k])
                             /\ \A i \in DOMAIN admitted[k] : admitted'[k][i] = admitted[k][i]
                             /\ Left(k)' = Left(k)
  <2>1. \A k \in Processors :
          /\ Len(admitted[k]) <= Len(admitted'[k])
          /\ \A i \in DOMAIN admitted[k] : admitted'[k][i] = admitted[k][i]
          /\ Len(admitted'[k]) - Len(queue'[k]) = Len(admitted[k]) - Len(queue[k])
    <3>1. TAKE k \in Processors
    <3>2. CASE k = m
      <4>1. DOMAIN mine = 1 .. Len(mine)
        BY <1>5
      <4>2. admitted'[k] = more /\ queue'[k] = longer /\ admitted[k] = mine /\ queue[k] = had
        BY <1>5, <1>6, <1>15, <3>2
      <4>3. Len(more) - Len(longer) = Len(mine) - Len(had)
        BY <1>8, <1>12, <1>13
      <4>4. Len(mine) <= Len(more) /\ \A i \in DOMAIN mine : more[i] = mine[i]
        BY <1>8, <1>12, <4>1
      <4>5. QED
        BY <4>2, <4>3, <4>4
    <3>3. CASE k # m
      <4>1. Len(admitted[k]) \in Nat
        BY <1>1, LeftTyped
      <4>2. admitted'[k] = admitted[k] /\ queue'[k] = queue[k]
        BY <1>15, <3>3
      <4>3. Len(admitted[k]) <= Len(admitted'[k])
        BY <4>1, <4>2
      <4>4. QED
        BY <4>2, <4>3
    <3>4. QED
      BY <3>2, <3>3
  <2>2. QED
    BY <2>1 DEF Left
<1>18. /\ \A t : AsAdmitted(t) => AsAdmitted(t)'
       /\ \A t : AsAdmitted(t) /\ t.id <= Left(t.processor) => t.id <= Left(t.processor)'
       /\ \A b : AsPacked(b) => AsPacked(b)'
  <2>1. /\ \A k \in Processors : Len(admitted[k]) <= Len(admitted'[k])
        /\ \A k \in Processors : \A i \in DOMAIN admitted[k] : admitted'[k][i] = admitted[k][i]
    BY <1>17
  <2>2. \A k \in Processors : Left(k) <= Left(k)'
    BY <1>1, <1>17, LeftTyped
  <2>3. now <= now'
    BY <1>1, <1>3 DEF Types
  <2>4. QED
    BY <1>1, <1>16, <2>1, <2>2, <2>3, StayAsPacked
<1>19. QueuesAsAdmitted'
  <2>1. ASSUME NEW k \in Processors, NEW held, held = queue'[k]
        PROVE  /\ Len(held) <= Len(admitted'[k])
               /\ \A i \in DOMAIN held :
                    AsAdmitted(held[i])' /\ held[i].processor = k /\ held[i].id = Left(k)' + i
    <3>1. /\ Len(queue[k]) <= Len(admitted[k])
          /\ \A i \in DOMAIN queue[k] :
               AsAdmitted(queue[k][i]) /\ queue[k][i].processor = k /\ queue[k][i].id = Left(k) + i
      BY DEF Base, QueuesAsAdmitted
    <3>2. CASE k # m
      <4>1. held = queue[k] /\ admitted'[k] = admitted[k] /\ Left(k)' = Left(k)
        BY <1>15, <1>17, <2>1, <3>2
      <4>2. \A i \in DOMAIN held : AsAdmitted(held[i]) /\ held[i].processor = k /\ held[i].id = Left(k) + i
        BY <3>1, <4>1
      <4>3. QED
        BY <1>18, <3>1, <4>1, <4>2
    <3>3. CASE k = m
      <4>1. DOMAIN had = 1 .. Len(had) /\ held = longer /\ had = queue[m]
        BY <1>6, <1>15, <2>1, <3>3
      <4>2. ASSUME NEW i \in 1 .. Len(had)
            PROVE  AsAdmitted(longer[i])' /\ longer[i].processor = m /\ longer[i].id = Left(m)' + i
        <5>1. longer[i] = had[i] /\ i \in DOMAIN had
          BY <1>13, <4>1
        <5>2. AsAdmitted(had[i]) /\ had[i].processor = m /\ had[i].id = Left(m) + i
          BY <3>1, <3>3, <4>1, <5>1
        <5>3. Left(m)' = Left(m)
          BY <1>17
        <5>4. QED
          BY <1>18, <5>1, <5>2, <5>3
      <4>3. AsAdmitted(new)'
        <5>1. new.processor = m /\ new.id = Len(mine) + 1 /\ new.nonce = n
          BY <1>7
        <5>2. new.id \in DOMAIN admitted'[m] /\ new.nonce = admitted'[m][new.id]
          BY <1>8, <1>12, <1>15, <5>1
        <5>3. QED
          BY <1>9, <5>1, <5>2 DEF AsAdmitted
      <4>4. new.processor = m /\ new.id = Left(m)' + (Len(had) + 1)
        <5>1. Left(m)' = Left(m) /\ Left(m) = Len(mine) - Len(had)
          BY <1>5, <1>6, <1>17 DEF Left
        <5>2. new.processor = m /\ new.id = Len(mine) + 1
          BY <1>7
        <5>3. QED
          BY <1>8, <5>1, <5>2
      <4>5. \A i \in DOMAIN longer : i \in 1 .. Len(had) \/ i = Len(had) + 1
        BY <1>8, <1>13
      <4>6. \A i \in DOMAIN longer : AsAdmitted(longer[i])' /\ longer[i].processor = m /\ longer[i].id = Left(m)' + i
        BY <1>13, <4>2, <4>3, <4>4, <4>5
      <4>7. Len(longer) <= Len(admitted'[m])
        BY <1>8, <1>12, <1>13, <1>15
      <4>8. QED
        BY <3>3, <4>1, <4>6, <4>7
    <3>4. QED
      BY <3>2, <3>3
  <2>2. SUFFICES ASSUME NEW k \in Processors
                 PROVE  (/\ Len(queue[k]) <= Len(admitted[k])
                         /\ \A i \in DOMAIN queue[k] :
                              AsAdmitted(queue[k][i]) /\ queue[k][i].processor = k /\ queue[k][i].id = Left(k) + i)'
    BY DEF QueuesAsAdmitted
  <2>3. PICK held : held = queue'[k]
    OBVIOUS
  <2>4. /\ Len(held) <= Len(admitted'[k])
        /\ \A i \in DOMAIN held :
             AsAdmitted(held[i])' /\ held[i].processor = k /\ held[i].id = Left(k)' + i
    BY <2>1, <2>3
  <2>5. QED
    BY <2>3, <2>4 DEF AsAdmitted, Left
<1>20. BatchesAsPacked'
  BY <1>3, <1>18 DEF Base, BatchesAsPacked, Held
<1>21. WorkOrTodo'
  BY <1>3 DEF Base, WorkOrTodo
<1>22. NoncesAdmitted'
  <2>1. \A k \in Processors : \A x \in ToSet(admitted[k]) : x \in ToSet(admitted'[k])
    <3>1. \A k \in Processors : DOMAIN admitted[k] \subseteq DOMAIN admitted'[k]
      <4>1. TAKE k \in Processors
      <4>2. CASE k = m
        BY <1>5, <1>8, <1>12, <1>15, <4>2
      <4>3. CASE k # m
        BY <1>15, <4>3
      <4>4. QED
        BY <4>2, <4>3
    <3>2. QED
      BY <1>17, <3>1 DEF ToSet
  <2>2. QED
    BY <1>3, <2>1 DEF Base, NoncesAdmitted
<1>23. QED
  BY <1>16, <1>19, <1>20, <1>21, <1>22 DEF Base

\* pack_current_queue takes the first transactions of the queue, and leaves the others.
LEMMA PackedFacts ==
    ASSUME Base, NEW m \in Processors
    PROVE  \E batch \in Batches, k \in Nat, rest \in Seq(Tx) :
             /\ batch = Packed(m) /\ batch.sender = m /\ batch.stamp = now
             /\ k = Len(batch.txs) /\ k <= Len(queue[m])
             /\ \A i \in 1 .. k : batch.txs[i] = queue[m][i]
             /\ rest = SubSeq(queue[m], k + 1, Len(queue[m]))
             /\ Len(rest) = Len(queue[m]) - k
             /\ \A i \in 1 .. Len(rest) : rest[i] = queue[m][i + k]
<1>1. PICK had \in Seq(Tx) : had = queue[m]
  BY DEF Base, Types
<1>2. PICK n \in Nat : n = Len(had)
  BY <1>1
<1>3. PICK k \in Nat : k = (IF n < BatchSize THEN n ELSE BatchSize) /\ k <= n
  BY <1>2, PipelineAssumption
<1>4. PICK txs : txs = SubSeq(had, 1, k)
  OBVIOUS
<1>5. PICK rest : rest = SubSeq(had, k + 1, n)
  OBVIOUS
<1>6. \A i \in 1 .. n : had[i] \in Tx
  BY <1>1, <1>2
<1>7. txs \in Seq(Tx) /\ Len(txs) = k /\ \A i \in 1 .. k : txs[i] = had[i]
  <2>1. \A i \in 1 .. k : had[i] \in Tx
    BY <1>3, <1>6
  <2>2. /\ txs \in Seq(Tx) /\ Len(txs) = IF 1 <= k THEN k - 1 + 1 ELSE 0
        /\ \A i \in 1 .. k - 1 + 1 : txs[i] = had[1 + i - 1]
    BY <1>4, <2>1, SubSeqProperties
  <2>3. QED
    BY <1>3, <2>2
<1>8. rest \in Seq(Tx) /\ Len(rest) = n - k /\ \A i \in 1 .. n - k : rest[i] = had[i + k]
  <2>1. \A i \in k + 1 .. n : had[i] \in Tx
    BY <1>3, <1>6
  <2>2. /\ rest \in Seq(Tx) /\ Len(rest) = IF k + 1 <= n THEN n - (k + 1) + 1 ELSE 0
        /\ \A i \in 1 .. n - (k + 1) + 1 : rest[i] = had[(k + 1) + i - 1]
    <3>1. PICK from \in Int : from = k + 1
      BY <1>3
    <3>2. \A i \in from .. n : had[i] \in Tx
      BY <2>1, <3>1
    <3>3. /\ SubSeq(had, from, n) \in Seq(Tx)
          /\ Len(SubSeq(had, from, n)) = IF from <= n THEN n - from + 1 ELSE 0
          /\ \A i \in 1 .. n - from + 1 : SubSeq(had, from, n)[i] = had[from + i - 1]
      BY <3>2, SubSeqProperties
    <3>4. QED
      BY <1>5, <3>1, <3>3
  <2>3. Len(rest) = n - k
    BY <1>3, <2>2
  <2>4. ASSUME NEW i \in 1 .. n - k PROVE rest[i] = had[i + k]
    <3>1. i \in 1 .. n - (k + 1) + 1 /\ (k + 1) + i - 1 = i + k
      BY <1>2, <1>3
    <3>2. rest[i] = had[(k + 1) + i - 1]
      BY <2>2, <3>1
    <3>3. QED
      BY <3>1, <3>2
  <2>5. QED
    BY <2>2, <2>3, <2>4
<1>9. PICK batch : batch = Packed(m)
  OBVIOUS
<1>10. batch = [sender |-> m, stamp |-> now, txs |-> txs]
  BY <1>1, <1>2, <1>3, <1>4, <1>9 DEF Packed
<1>11. batch.sender = m /\ batch.stamp = now /\ batch.txs = txs
  BY <1>10
<1>12. batch \in Batches
  BY <1>7, <1>10, PipelineAssumption DEF Batches, Base, Types
<1>13. /\ batch.sender = m /\ batch.stamp = now
       /\ k = Len(batch.txs) /\ k <= Len(had)
       /\ \A i \in 1 .. k : batch.txs[i] = had[i]
       /\ rest = SubSeq(had, k + 1, Len(had))
       /\ Len(rest) = Len(had) - k
       /\ \A i \in 1 .. Len(rest) : rest[i] = had[i + k]
  BY <1>2, <1>3, <1>5, <1>7, <1>8, <1>11
<1>14. rest \in Seq(Tx)
  BY <1>8
<1>15. /\ batch = Packed(m) /\ batch.sender = m /\ batch.stamp = now
       /\ k = Len(batch.txs) /\ k <= Len(queue[m])
       /\ \A i \in 1 .. k : batch.txs[i] = queue[m][i]
       /\ rest = SubSeq(queue[m], k + 1, Len(queue[m]))
       /\ Len(rest) = Len(queue[m]) - k
       /\ \A i \in 1 .. Len(rest) : rest[i] = queue[m][i + k]
  BY <1>1, <1>9, <1>13, Zenon
<1>16. QED
  BY <1>12, <1>14, <1>15, ZenonT(30)

LEMMA SendWorkBase == ASSUME Base, NEW m \in Processors, SendWork(m) PROVE Base'
<1>1. Types
  BY DEF Base
<1>2. PICK batch \in Batches, k \in Nat, rest \in Seq(Tx) :
        /\ batch = Packed(m) /\ batch.sender = m /\ batch.stamp = now
        /\ k = Len(batch.txs) /\ k <= Len(queue[m])
        /\ \A i \in 1 .. k : batch.txs[i] = queue[m][i]
        /\ rest = SubSeq(queue[m], k + 1, Len(queue[m]))
        /\ Len(rest) = Len(queue[m]) - k
        /\ \A i \in 1 .. Len(rest) : rest[i] = queue[m][i + k]
  BY PackedFacts
<1>3. /\ queue' = [queue EXCEPT ![m] = rest]
      /\ net' \in [Delegates -> SUBSET Batches] /\ hitch' \in BOOLEAN
      /\ \A d \in Delegates : net'[d] \subseteq net[d] \cup {batch}
      /\ waiting' = [waiting EXCEPT ![m] = TRUE]
  <2>1. PICK reached \in SUBSET Delegates :
          net' = [d \in Delegates |-> IF d \in reached THEN net[d] \cup {batch} ELSE net[d]]
    BY <1>2 DEF SendWork
  <2>2. net' \in [Delegates -> SUBSET Batches] /\ \A d \in Delegates : net'[d] \subseteq net[d] \cup {batch}
    BY <1>1, <1>2, <2>1 DEF Types
  <2>3. queue' = [queue EXCEPT ![m] = rest] /\ waiting' = [waiting EXCEPT ![m] = TRUE]
    BY <1>2 DEF SendWork
  <2>4. hitch' \in BOOLEAN
    BY Zenon DEF SendWork
  <2>5. QED
    BY <2>2, <2>3, <2>4
<1>4. UNCHANGED << now, phase, work, todo, round, pending, nonces, news, admitted, reusable, current, outdated, executed, twice >>
  BY DEF SendWork, inboxVars
<1>5. queue'[m] = rest /\ \A p \in Processors : p # m => queue'[p] = queue[p]
  BY <1>1, <1>3 DEF Types
<1>6. Types'
  <2>1. queue' \in [Processors -> Seq(Tx)] /\ waiting' \in [Processors -> BOOLEAN]
    BY <1>1, <1>2, <1>3 DEF Types
  <2>2. QED
    BY <1>1, <1>3, <1>4, <2>1 DEF Types
<1>7. Left(m) \in Int /\ Len(admitted[m]) \in Nat /\ Len(queue[m]) \in Nat /\ Len(queue[m]) <= Len(admitted[m])
  BY <1>1, LeftTyped DEF Base, QueuesAsAdmitted
<1>8. Left(m)' = Left(m) + k
  <2>1. Left(m) = Len(admitted[m]) - Len(queue[m]) /\ Left(m)' = Len(admitted[m]) - Len(rest)
    BY <1>4, <1>5 DEF Left
  <2>2. QED
    BY <1>2, <1>7, <2>1
<1>9. \A p \in Processors : p # m => Left(p)' = Left(p)
  BY <1>4, <1>5 DEF Left
<1>10. /\ \A t : AsAdmitted(t) => AsAdmitted(t)'
       /\ \A t : AsAdmitted(t) /\ t.id <= Left(t.processor) => t.id <= Left(t.processor)'
       /\ \A b : AsPacked(b) => AsPacked(b)'
  <2>1. /\ \A p \in Processors : Len(admitted[p]) <= Len(admitted'[p])
        /\ \A p \in Processors : \A i \in DOMAIN admitted[p] : admitted'[p][i] = admitted[p][i]
    BY <1>1, <1>4, LeftTyped
  <2>2. \A p \in Processors : Left(p) <= Left(p)'
    <3>1. Left(m) <= Left(m)'
      BY <1>2, <1>7, <1>8
    <3>2. \A p \in Processors : p # m => Left(p) <= Left(p)'
      BY <1>1, <1>9, LeftTyped
    <3>3. QED
      BY <3>1, <3>2
  <2>3. now <= now'
    BY <1>1, <1>4 DEF Types
  <2>4. QED
    BY <1>1, <1>6, <2>1, <2>2, <2>3, StayAsPacked
<1>11. \A p \in Processors : \A i \in DOMAIN queue[p] :
         AsAdmitted(queue[p][i]) /\ queue[p][i].processor = p /\ queue[p][i].id = Left(p) + i
  BY DEF Base, QueuesAsAdmitted
<1>12. DOMAIN queue[m] = 1 .. Len(queue[m]) /\ DOMAIN rest = 1 .. Len(rest) /\ DOMAIN batch.txs = 1 .. k
  <2>1. queue[m] \in Seq(Tx) /\ batch.txs \in Seq(Tx) /\ rest \in Seq(Tx)
    BY <1>1, <1>2 DEF Types, Batches
  <2>2. DOMAIN queue[m] = 1 .. Len(queue[m]) /\ DOMAIN rest = 1 .. Len(rest)
    BY <2>1
  <2>3. DOMAIN batch.txs = 1 .. k
    BY <1>2, <2>1
  <2>4. QED
    BY <2>2, <2>3
<1>13. QueuesAsAdmitted'
  <2>1. ASSUME NEW p \in Processors, NEW held, held = queue'[p]
        PROVE  /\ Len(held) <= Len(admitted'[p])
               /\ \A i \in DOMAIN held :
                    AsAdmitted(held[i])' /\ held[i].processor = p /\ held[i].id = Left(p)' + i
    <3>1. CASE p # m
      <4>1. held = queue[p] /\ admitted'[p] = admitted[p] /\ Left(p)' = Left(p)
        BY <1>4, <1>5, <1>9, <2>1, <3>1
      <4>2. Len(queue[p]) <= Len(admitted[p])
        BY DEF Base, QueuesAsAdmitted
      <4>3. \A i \in DOMAIN held : AsAdmitted(held[i]) /\ held[i].processor = p /\ held[i].id = Left(p) + i
        BY <1>11, <4>1
      <4>4. QED
        BY <1>10, <4>1, <4>2, <4>3
    <3>2. CASE p = m
      <4>1. held = rest /\ admitted'[p] = admitted[m]
        BY <1>4, <1>5, <2>1, <3>2
      <4>2. Len(rest) <= Len(admitted[m]) /\ Len(rest) \in Nat
        <5>1. Len(rest) \in Nat
          BY <1>2
        <5>2. Len(rest) = Len(queue[m]) - k /\ k \in Nat /\ Len(queue[m]) \in Nat
          BY <1>2, <1>7, Zenon
        <5>3. Len(queue[m]) <= Len(admitted[m]) /\ Len(admitted[m]) \in Nat
          BY <1>7
        <5>4. Len(rest) <= Len(queue[m])
          BY <5>2
        <5>5. QED
          BY <5>1, <5>2, <5>3, <5>4
      <4>3. ASSUME NEW i \in 1 .. Len(rest)
            PROVE  AsAdmitted(rest[i])' /\ rest[i].processor = m /\ rest[i].id = Left(m)' + i
        <5>1. i + k \in DOMAIN queue[m] /\ rest[i] = queue[m][i + k]
          BY <1>2, <1>7, <1>12, <4>2
        <5>2. AsAdmitted(rest[i]) /\ rest[i].processor = m /\ rest[i].id = Left(m) + (i + k)
          BY <1>11, <5>1
        <5>3. AsAdmitted(rest[i])'
          BY <1>10, <5>2
        <5>4. rest[i].id = Left(m)' + i
          BY <1>2, <1>7, <1>8, <5>2
        <5>5. QED
          BY <5>2, <5>3, <5>4
      <4>4. QED
        BY <1>12, <3>2, <4>1, <4>2, <4>3
    <3>3. QED
      BY <3>1, <3>2
  <2>2. SUFFICES ASSUME NEW p \in Processors
                 PROVE  (/\ Len(queue[p]) <= Len(admitted[p])
                         /\ \A i \in DOMAIN queue[p] :
                              AsAdmitted(queue[p][i]) /\ queue[p][i].processor = p /\ queue[p][i].id = Left(p) + i)'
    BY DEF QueuesAsAdmitted
  <2>3. PICK held : held = queue'[p]
    OBVIOUS
  <2>4. /\ Len(held) <= Len(admitted'[p])
        /\ \A i \in DOMAIN held :
             AsAdmitted(held[i])' /\ held[i].processor = p /\ held[i].id = Left(p)' + i
    BY <2>1, <2>3
  <2>5. QED
    BY <2>3, <2>4 DEF AsAdmitted, Left
<1>14. AsPacked(batch)'
  <2>1. ASSUME NEW t \in ToSet(batch.txs) PROVE AsAdmitted(t)' /\ t.processor = batch.sender /\ t.id <= Left(t.processor)'
    <3>1. PICK i \in 1 .. k : t = batch.txs[i]
      BY <1>12 DEF ToSet
    <3>2. i \in DOMAIN queue[m] /\ t = queue[m][i]
      BY <1>2, <1>7, <1>12, <3>1
    <3>3. AsAdmitted(t) /\ t.processor = m /\ t.id = Left(m) + i
      BY <1>11, <3>2
    <3>4. t.id <= Left(m)'
      BY <1>2, <1>7, <1>8, <3>3
    <3>5. Left(t.processor)' = Left(m)'
      BY <3>3
    <3>6. QED
      BY <1>2, <1>10, <3>3, <3>4, <3>5
  <2>2. batch.stamp <= now'
    BY <1>1, <1>2, <1>4 DEF Types
  <2>3. QED
    BY <1>2, <2>1, <2>2 DEF AsPacked
<1>15. BatchesAsPacked'
  <2>1. \A d \in Delegates : \A b \in Held(d)' : AsPacked(b)'
    BY <1>3, <1>4, <1>10, <1>14 DEF Base, BatchesAsPacked, Held
  <2>2. QED
    BY <1>4, <1>10, <2>1 DEF Base, BatchesAsPacked, Held
<1>16. WorkOrTodo' /\ NoncesAdmitted'
  BY <1>4 DEF Base, WorkOrTodo, NoncesAdmitted
<1>17. QED
  BY <1>6, <1>13, <1>15, <1>16 DEF Base

LEMMA AppendSet ==
    ASSUME NEW s \in Seq(Batches), NEW x \in Batches
    PROVE  Append(s, x) \in Seq(Batches) /\ \A y : y \in ToSet(Append(s, x)) <=> y \in ToSet(s) \/ y = x
<1>0. PICK longer : longer = Append(s, x)
  OBVIOUS
<1>1. PICK n \in Nat : n = Len(s)
  OBVIOUS
<1>2. /\ longer \in Seq(Batches) /\ DOMAIN longer = 1 .. n + 1 /\ DOMAIN s = 1 .. n
      /\ longer[n + 1] = x /\ \A i \in 1 .. n : longer[i] = s[i]
  BY <1>0, <1>1
<1>3. \A i \in 1 .. n + 1 : i \in 1 .. n \/ i = n + 1
  BY <1>1
<1>4. \A i \in 1 .. n : i \in 1 .. n + 1
  BY <1>1
<1>5. n + 1 \in 1 .. n + 1
  BY <1>1
<1>6. QED
  BY <1>0, <1>2, <1>3, <1>4, <1>5, Zenon DEF ToSet

\* A batch that has come to the inbox is in the work, in the to-do list, or dropped.
LEMMA ReceivedFacts ==
    ASSUME Types, NEW d \in Delegates, NEW batch \in Batches, NEW at, NEW funded, ReceiveWork(d, batch, at, funded)
    PROVE  /\ work' \in [Delegates -> Seq(Batches)] /\ todo' \in [Delegates -> Seq(Batches)]
           /\ UNCHANGED << now, phase, round >>
           /\ \A e \in Delegates : e # d => work'[e] = work[e] /\ todo'[e] = todo[e]
           /\ phase[d] = "accept" => UNCHANGED todo
           /\ phase[d] # "accept" => UNCHANGED work /\ todo'[d] = Append(todo[d], batch)
           /\ \/ UNCHANGED work
              \/ /\ work'[d] = Append(work[d], batch) /\ Verified(batch, at, funded) /\ phase[d] = "accept"
                 /\ \A i \in DOMAIN work[d] : work[d][i].sender # batch.sender
           /\ \A e \in Delegates : \A b : b \in ToSet(work'[e]) => b \in ToSet(work[e]) \/ (e = d /\ b = batch)
           /\ \A e \in Delegates : \A b : b \in ToSet(todo'[e]) => b \in ToSet(todo[e]) \/ (e = d /\ b = batch)
<1>1. UNCHANGED << now, phase, round >>
  BY DEF ReceiveWork
<1>2. /\ work \in [Delegates -> Seq(Batches)] /\ todo \in [Delegates -> Seq(Batches)]
      /\ work[d] \in Seq(Batches) /\ todo[d] \in Seq(Batches)
  BY DEF Types
<1>3. PICK worked \in Seq(Batches) :
        /\ worked = Append(work[d], batch)
        /\ \A b : b \in ToSet(worked) <=> b \in ToSet(work[d]) \/ b = batch
  BY <1>2, AppendSet
<1>4. PICK kept \in Seq(Batches) :
        /\ kept = Append(todo[d], batch)
        /\ \A b : b \in ToSet(kept) <=> b \in ToSet(todo[d]) \/ b = batch
  BY <1>2, AppendSet
<1>5. CASE phase[d] = "accept"
  <2>1. work' = [work EXCEPT ![d] = Added(@, batch, at, funded)] /\ todo' = todo
    BY <1>5 DEF ReceiveWork
  <2>2. \/ work' = work
        \/ /\ work' = [work EXCEPT ![d] = worked] /\ Verified(batch, at, funded)
           /\ \A i \in DOMAIN work[d] : work[d][i].sender # batch.sender
    BY <1>2, <1>3, <2>1 DEF Added
  <2>3. CASE work' = work
    BY <1>1, <1>2, <1>5, <2>1, <2>3
  <2>4. ASSUME work' = [work EXCEPT ![d] = worked], Verified(batch, at, funded),
               \A i \in DOMAIN work[d] : work[d][i].sender # batch.sender
        PROVE  /\ work' \in [Delegates -> Seq(Batches)]
               /\ \A e \in Delegates : e # d => work'[e] = work[e]
               /\ work'[d] = worked
               /\ \A e \in Delegates : \A b : b \in ToSet(work'[e]) => b \in ToSet(work[e]) \/ (e = d /\ b = batch)
    <3>1. work' \in [Delegates -> Seq(Batches)] /\ work'[d] = worked
          /\ \A e \in Delegates : e # d => work'[e] = work[e]
      BY <1>2, <2>4
    <3>2. QED
      BY <1>3, <3>1, Zenon
  <2>5. QED
    BY <1>1, <1>2, <1>3, <1>5, <2>1, <2>2, <2>3, <2>4
<1>6. CASE phase[d] # "accept"
  <2>1. work' = work /\ todo' = [todo EXCEPT ![d] = kept]
    BY <1>4, <1>6 DEF ReceiveWork
  <2>2. todo' \in [Delegates -> Seq(Batches)] /\ todo'[d] = kept
        /\ \A e \in Delegates : e # d => todo'[e] = todo[e]
    BY <1>2, <2>1
  <2>3. \A e \in Delegates : \A b : b \in ToSet(todo'[e]) => b \in ToSet(todo[e]) \/ (e = d /\ b = batch)
    BY <1>4, <2>2, Zenon
  <2>4. QED
    BY <1>1, <1>2, <1>4, <1>6, <2>1, <2>2, <2>3
<1>7. QED
  BY <1>5, <1>6

\* ... and that is all that changes, but for the batches on their way.
LEMMA ReceivedBase ==
    ASSUME Base, NEW d \in Delegates, NEW batch \in Batches, NEW at, NEW funded, ReceiveWork(d, batch, at, funded),
           AsPacked(batch), net' \in [Delegates -> SUBSET Batches], \A e \in Delegates : net'[e] \subseteq net[e],
           UNCHANGED << queue, pending, nonces, waiting, news, admitted, reusable, current, outdated, executed, twice >>,
           hitch' \in BOOLEAN
    PROVE  Base'
<1>1. Types
  BY DEF Base
<1>2. /\ work' \in [Delegates -> Seq(Batches)] /\ todo' \in [Delegates -> Seq(Batches)]
      /\ UNCHANGED << now, phase, round >>
      /\ \A e \in Delegates : e # d => work'[e] = work[e] /\ todo'[e] = todo[e]
      /\ phase[d] = "accept" => UNCHANGED todo
      /\ phase[d] # "accept" => UNCHANGED work
      /\ \/ UNCHANGED work
         \/ /\ work'[d] = Append(work[d], batch) /\ phase[d] = "accept"
            /\ \A i \in DOMAIN work[d] : work[d][i].sender # batch.sender
      /\ \A e \in Delegates : \A b : b \in ToSet(work'[e]) => b \in ToSet(work[e]) \/ (e = d /\ b = batch)
      /\ \A e \in Delegates : \A b : b \in ToSet(todo'[e]) => b \in ToSet(todo[e]) \/ (e = d /\ b = batch)
  BY <1>1, ReceivedFacts
<1>3. Types'
  BY <1>1, <1>2 DEF Types
<1>4. /\ \A t : AsAdmitted(t)' <=> AsAdmitted(t)
      /\ \A p : Left(p)' = Left(p)
      /\ \A b : AsPacked(b)' <=> AsPacked(b)
  BY <1>2, SamePacked
<1>5. BatchesAsPacked'
  <2>1. \A e \in Delegates : \A b \in Held(e)' : AsPacked(b)
    BY <1>2 DEF Base, BatchesAsPacked, Held
  <2>2. QED
    BY <1>4, <2>1 DEF Base, BatchesAsPacked
<1>6. WorkOrTodo'
  <2>1. \A i, j \in DOMAIN work[d] : i # j => work[d][i].sender # work[d][j].sender
    BY DEF Base, WorkOrTodo
  <2>2. ASSUME NEW longer, longer = Append(work[d], batch), \A i \in DOMAIN work[d] : work[d][i].sender # batch.sender
        PROVE  \A i, j \in DOMAIN longer : i # j => longer[i].sender # longer[j].sender
    <3>1. PICK s \in Seq(Batches) : s = work[d]
      BY <1>1 DEF Types
    <3>2. PICK n \in Nat : n = Len(s)
      BY <3>1
    <3>3. /\ DOMAIN s = 1 .. n /\ DOMAIN longer = 1 .. n + 1
          /\ longer[n + 1] = batch /\ \A i \in 1 .. n : longer[i] = s[i]
      BY <2>2, <3>1, <3>2
    <3>4. \A i \in 1 .. n + 1 : i \in 1 .. n \/ i = n + 1
      BY <3>2
    <3>5. QED
      BY <2>1, <2>2, <3>1, <3>3, <3>4
  <2>3. \A i, j \in DOMAIN work'[d] : i # j => work'[d][i].sender # work'[d][j].sender
    <3>1. PICK batches : batches = work'[d]
      OBVIOUS
    <3>2. batches = work[d] \/ (batches = Append(work[d], batch) /\ \A i \in DOMAIN work[d] : work[d][i].sender # batch.sender)
      BY <1>2, <3>1, Zenon
    <3>3. QED
      BY <2>1, <2>2, <3>1, <3>2
  <2>4. SUFFICES ASSUME NEW e \in Delegates
                 PROVE  /\ phase'[e] = "accept" => todo'[e] = << >>
                        /\ phase'[e] = "confirm" => work'[e] = << >>
                        /\ \A i, j \in DOMAIN work'[e] : i # j => work'[e][i].sender # work'[e][j].sender
    BY DEF WorkOrTodo
  <2>5. CASE e = d
    <3>1. phase[d] \in {"accept", "confirm"}
      BY <1>1 DEF Types
    <3>2. /\ phase'[d] = "accept" => todo'[d] = << >>
          /\ phase'[d] = "confirm" => work'[d] = << >>
      BY <1>2, <3>1 DEF Base, WorkOrTodo
    <3>3. QED
      BY <2>3, <2>5, <3>2
  <2>6. CASE e # d
    BY <1>2, <2>6 DEF Base, WorkOrTodo
  <2>7. QED
    BY <2>5, <2>6
<1>7. QueuesAsAdmitted'
  BY SameQueues
<1>8. NoncesAdmitted'
  BY DEF Base, NoncesAdmitted
<1>9. QED
  BY <1>3, <1>5, <1>6, <1>7, <1>8 DEF Base

LEMMA ReceiveOtherBase ==
    ASSUME Base, NEW m \in Masters, NEW d \in Delegates, ReceiveOther(m, d)
    PROVE  Base'
<1>1. PICK stamp \in 0 .. now : ReceiveWork(d, [sender |-> m, stamp |-> stamp, txs |-> << >>], nonces[d], TRUE)
  BY DEF ReceiveOther
<1>2. PICK batch : batch = [sender |-> m, stamp |-> stamp, txs |-> << >>]
  OBVIOUS
<1>3. now \in Nat /\ stamp \in Nat /\ stamp <= now
  BY DEF Base, Types
<1>4. batch \in Batches /\ batch.stamp = stamp /\ batch.txs = << >>
  <2>1. << >> \in Seq(Tx)
    BY EmptySeq
  <2>2. QED
    BY <1>2, <1>3, <2>1 DEF Batches
<1>5. AsPacked(batch)
  <2>1. ToSet(batch.txs) = {}
    BY <1>4 DEF ToSet
  <2>2. QED
    BY <1>3, <1>4, <2>1 DEF AsPacked
<1>6. /\ UNCHANGED << queue, pending, nonces, waiting, net, news, admitted, reusable, current, outdated, executed, twice >>
      /\ hitch' \in BOOLEAN /\ net' \in [Delegates -> SUBSET Batches]
  BY DEF ReceiveOther, masterVars, history, Base, Types
<1>7. ReceiveWork(d, batch, nonces[d], TRUE)
  BY <1>1, <1>2
<1>8. QED
  BY <1>4, <1>5, <1>6, <1>7, ReceivedBase

LEMMA DeliverBase ==
    ASSUME Base, NEW d \in Delegates, NEW batch \in net[d], Deliver(d, batch)
    PROVE  Base'
<1>1. net \in [Delegates -> SUBSET Batches] /\ batch \in Batches
  BY DEF Base, Types
<1>2. PICK funded \in BOOLEAN : ReceiveWork(d, batch, nonces[d], funded)
  BY DEF Deliver
<1>3. /\ net' = [net EXCEPT ![d] = @ \ {batch}]
      /\ UNCHANGED << queue, pending, nonces, waiting, news, admitted, reusable, current, outdated, executed, twice >>
  BY DEF Deliver
<1>4. hitch' \in BOOLEAN
  BY Zenon DEF Deliver
<1>5. net' \in [Delegates -> SUBSET Batches] /\ \A e \in Delegates : net'[e] \subseteq net[e]
  BY <1>1, <1>3
<1>6. AsPacked(batch)
  BY DEF Base, BatchesAsPacked, Held
<1>7. QED
  BY <1>1, <1>2, <1>3, <1>4, <1>5, <1>6, ReceivedBase

\* A block holds transactions of the rounds taken, as they were admitted.
LEMMA BlockAsAdmitted ==
    ASSUME Base, NEW votes \in Votes, NEW block \in Blocks(Contents(votes))
    PROVE  /\ block \in Seq(Tx)
           /\ \A t \in ToSet(block) : AsAdmitted(t) /\ \E k \in DOMAIN votes :
                /\ votes[k] \in Delegates /\ round[votes[k]][k].txs # << >>
                /\ \E u \in TxsOf(round[votes[k]]) : SameTx(t, u) /\ t.nonce = u.nonce
<1>1. round \in [Delegates -> Seq(Batches)]
  BY DEF Base, Types
<1>2. /\ IsFiniteSet(Contents(votes))
      /\ \A k \in DOMAIN votes : votes[k] \in Delegates /\ k \in DOMAIN round[votes[k]]
      /\ \A c \in Contents(votes) : c[2] \in Tx /\ \E k \in DOMAIN votes :
           c[2] \in ToSet(round[votes[k]][k].txs) /\ c[2] \in TxsOf(round[votes[k]])
  BY <1>1, ContentsFacts
<1>3. /\ block \in Seq(Tx)
      /\ \A t \in ToSet(block) : \E c \in Contents(votes) : SameTx(t, c[2]) /\ t.nonce = c[2].nonce
  BY <1>2, BlockFacts
<1>4. ASSUME NEW t \in ToSet(block)
      PROVE  AsAdmitted(t) /\ \E k \in DOMAIN votes :
               /\ votes[k] \in Delegates /\ round[votes[k]][k].txs # << >>
               /\ \E u \in TxsOf(round[votes[k]]) : SameTx(t, u) /\ t.nonce = u.nonce
  <2>1. PICK c \in Contents(votes) : SameTx(t, c[2]) /\ t.nonce = c[2].nonce
    BY <1>3
  <2>2. PICK u : u = c[2]
    OBVIOUS
  <2>3. PICK k \in DOMAIN votes : u \in ToSet(round[votes[k]][k].txs) /\ u \in TxsOf(round[votes[k]])
    BY <1>2, <2>2
  <2>4. votes[k] \in Delegates /\ k \in DOMAIN round[votes[k]]
    BY <1>2
  <2>5. PICK batches \in Seq(Batches) : batches = round[votes[k]]
    BY <1>1, <2>4
  <2>6. batches[k] \in ToSet(batches)
    BY <2>4, <2>5 DEF ToSet
  <2>7. AsPacked(batches[k])
    BY <2>4, <2>5, <2>6 DEF Base, BatchesAsPacked, Held
  <2>8. AsAdmitted(u)
    BY <2>3, <2>5, <2>7 DEF AsPacked
  <2>9. t \in Tx
    BY <1>3, ToSetFinite
  <2>10. AsAdmitted(t)
    BY <2>1, <2>2, <2>8, <2>9 DEF AsAdmitted, SameTx
  <2>11. round[votes[k]][k].txs # << >>
    BY <2>3 DEF ToSet
  <2>12. QED
    BY <2>1, <2>2, <2>3, <2>4, <2>10, <2>11
<1>5. QED
  BY <1>3, <1>4

\* What Build does: the news of every node get longer by the block, and no round is new.
LEMMA BuildFacts ==
    ASSUME Base, Build
    PROVE  \E block \in Seq(Tx), votes \in Votes :
             /\ \A t \in ToSet(block) : AsAdmitted(t) /\ \E k \in DOMAIN votes :
                  /\ votes[k] \in Delegates /\ round[votes[k]][k].txs # << >>
                  /\ \E u \in TxsOf(round[votes[k]]) : SameTx(t, u) /\ t.nonce = u.nonce
             /\ news' = [n \in Nodes |-> IF news[n] = NoBlock THEN block ELSE news[n] \o block]
             /\ current' = IF block = << >> THEN current ELSE {}
             /\ outdated' = IF \E k \in DOMAIN votes : votes[k] \notin current /\ round[votes[k]][k].txs # << >>
                            THEN Nodes ELSE outdated
             /\ round' \in [Delegates -> Seq(Batches)]
             /\ \A d \in Delegates : round'[d] = << >> \/ round'[d] = round[d]
             /\ hitch' = (hitch \/ Loses(block))
<1>0. PICK votes \in Votes : \E block \in Blocks(Contents(votes)) :
        /\ news' = [n \in Nodes |-> IF news[n] = NoBlock THEN block ELSE news[n] \o block]
        /\ current' = IF block = << >> THEN current ELSE {}
        /\ outdated' = IF \E k \in DOMAIN votes : votes[k] \notin current /\ round[votes[k]][k].txs # << >>
                       THEN Nodes ELSE outdated
        /\ \E kept : round' = [d \in Delegates |-> IF d \in kept THEN round[d] ELSE << >>]
        /\ hitch' = (hitch \/ Loses(block))
  BY Zenon DEF Build
<1>1. PICK block \in Blocks(Contents(votes)) :
        /\ news' = [n \in Nodes |-> IF news[n] = NoBlock THEN block ELSE news[n] \o block]
        /\ current' = IF block = << >> THEN current ELSE {}
        /\ outdated' = IF \E k \in DOMAIN votes : votes[k] \notin current /\ round[votes[k]][k].txs # << >>
                       THEN Nodes ELSE outdated
        /\ \E kept : round' = [d \in Delegates |-> IF d \in kept THEN round[d] ELSE << >>]
        /\ hitch' = (hitch \/ Loses(block))
  BY <1>0
<1>2. /\ block \in Seq(Tx)
      /\ \A t \in ToSet(block) : AsAdmitted(t) /\ \E k \in DOMAIN votes :
           /\ votes[k] \in Delegates /\ round[votes[k]][k].txs # << >>
           /\ \E u \in TxsOf(round[votes[k]]) : SameTx(t, u) /\ t.nonce = u.nonce
  BY BlockAsAdmitted
<1>3. /\ round' \in [Delegates -> Seq(Batches)]
      /\ \A d \in Delegates : round'[d] = << >> \/ round'[d] = round[d]
  <2>1. round \in [Delegates -> Seq(Batches)] /\ << >> \in Seq(Batches)
    BY EmptySeq DEF Base, Types
  <2>2. PICK kept : round' = [d \in Delegates |-> IF d \in kept THEN round[d] ELSE << >>]
    BY <1>1
  <2>3. QED
    BY <2>1, <2>2
<1>4. QED
  BY <1>1, <1>2, <1>3, Zenon

LEMMA BuildBase == ASSUME Base, Build PROVE Base'
<1>1. Types
  BY DEF Base
<1>2. PICK block \in Seq(Tx), votes \in Votes :
        /\ \A t \in ToSet(block) : AsAdmitted(t)
        /\ news' = [n \in Nodes |-> IF news[n] = NoBlock THEN block ELSE news[n] \o block]
        /\ current' = IF block = << >> THEN current ELSE {}
        /\ outdated' = IF \E k \in DOMAIN votes : votes[k] \notin current /\ round[votes[k]][k].txs # << >>
                       THEN Nodes ELSE outdated
        /\ round' \in [Delegates -> Seq(Batches)]
        /\ \A d \in Delegates : round'[d] = << >> \/ round'[d] = round[d]
  BY BuildFacts
<1>3. /\ hitch' \in BOOLEAN
      /\ UNCHANGED << now, phase, work, todo, queue, pending, nonces, waiting, net, admitted, reusable, executed, twice >>
  BY Zenon DEF Build
<1>4. ASSUME NEW n \in Nodes
      PROVE  news'[n] \in Seq(Tx) /\ \A t \in ToSet(news'[n]) : AsAdmitted(t)
  <2>1. CASE news[n] = NoBlock
    BY <1>2, <2>1
  <2>2. CASE news[n] # NoBlock
    <3>1. news[n] \in Seq(Tx) /\ \A t \in ToSet(news[n]) : AsAdmitted(t)
      BY <1>1, <2>2 DEF Types, Base, BatchesAsPacked
    <3>2. news'[n] = news[n] \o block
      BY <1>2, <2>2
    <3>3. \A t : t \in ToSet(news[n] \o block) <=> t \in ToSet(news[n]) \/ t \in ToSet(block)
      BY <3>1, ConcatSet
    <3>4. QED
      BY <1>2, <3>1, <3>2, <3>3, ConcatProperties
  <2>3. QED
    BY <2>1, <2>2
<1>5. Types'
  <2>1. news' \in [Nodes -> Seq(Tx) \cup {NoBlock}]
    BY <1>2, <1>4
  <2>2. current' \subseteq Delegates /\ outdated' \subseteq Nodes
    BY <1>1, <1>2 DEF Types
  <2>3. QED
    BY <1>1, <1>2, <1>3, <2>1, <2>2 DEF Types
<1>6. /\ \A t : AsAdmitted(t)' <=> AsAdmitted(t)
      /\ \A p : Left(p)' = Left(p)
      /\ \A b : AsPacked(b)' <=> AsPacked(b)
  BY <1>3, SamePacked
<1>7. BatchesAsPacked'
  <2>1. \A d \in Delegates : \A b \in ToSet(round'[d]) : b \in ToSet(round[d])
    BY <1>2 DEF ToSet
  <2>2. \A d \in Delegates : \A b \in Held(d)' : AsPacked(b)
    BY <1>3, <2>1 DEF Base, BatchesAsPacked, Held
  <2>3. \A d \in Delegates : \A t \in executed'[d] : AsAdmitted(t) /\ t.id <= Left(t.processor)
    BY <1>3 DEF Base, BatchesAsPacked
  <2>4. QED
    BY <1>4, <1>6, <2>2, <2>3 DEF BatchesAsPacked
<1>8. QueuesAsAdmitted'
  BY <1>3, SameQueues
<1>9. WorkOrTodo' /\ NoncesAdmitted'
  BY <1>3 DEF Base, WorkOrTodo, NoncesAdmitted
<1>10. QED
  BY <1>5, <1>7, <1>8, <1>9 DEF Base

LEMMA CommitBase == ASSUME Base, NEW m \in Processors, Commit(m) PROVE Base'
<1>1. Types /\ m \in Nodes /\ news[m] # NoBlock
  BY DEF Base, Commit, Nodes
<1>2. PICK nonce : nonce = Committed(m, news[m])
  OBVIOUS
<1>3. /\ nonces' = [nonces EXCEPT ![m] = nonce]
      /\ waiting' = [waiting EXCEPT ![m] = FALSE] /\ news' = [news EXCEPT ![m] = NoBlock]
      /\ outdated' = outdated \ {m}
      /\ UNCHANGED << now, phase, work, todo, round, queue, net, admitted, current, executed, twice, hitch >>
  BY <1>2 DEF Commit, inboxVars
<1>4. pending' = [pending EXCEPT ![m] = CommittedPending(AtProcessor(m, news[m]), @)]
  BY DEF Commit
<1>5. /\ nonce \in [Processors -> Nat]
      /\ \A p \in Processors : nonce[p] > 0 => nonce[p] - 1 \in ToSet(admitted[p])
  BY <1>1, <1>2, CommittedTyped
<1>6. Types'
  <2>1. pending' \in [Processors -> Nat]
    <3>1. PICK pend : pend = CommittedPending(AtProcessor(m, news[m]), pending[m])
      OBVIOUS
    <3>2. pend = 0 \/ pend = pending[m]
      BY <3>1 DEF CommittedPending
    <3>3. pending' = [pending EXCEPT ![m] = pend]
      BY <1>4, <3>1
    <3>4. QED
      BY <1>1, <3>2, <3>3 DEF Types
  <2>2. nonces' \in [Nodes -> [Processors -> Nat]]
    BY <1>1, <1>3, <1>5 DEF Types
  <2>3. reusable' \in [Processors -> SUBSET Nat]
    <3>1. PICK new : new = (IF pending'[m] = 0 THEN reusable[m] \cup {n \in ToSet(admitted[m]) : n >= nonces'[m][m]}
                            ELSE reusable[m])
      OBVIOUS
    <3>2. reusable' = [reusable EXCEPT ![m] = new]
      BY <3>1 DEF Commit
    <3>3. admitted[m] \in Seq(Nat)
      BY <1>1 DEF Types
    <3>4. ToSet(admitted[m]) \subseteq Nat
      BY <3>3, ToSetFinite
    <3>5. new \subseteq Nat
      BY <1>1, <3>1, <3>4 DEF Types
    <3>6. QED
      BY <1>1, <3>2, <3>5 DEF Types
  <2>4. waiting' \in [Processors -> BOOLEAN] /\ news' \in [Nodes -> Seq(Tx) \cup {NoBlock}]
    BY <1>1, <1>3 DEF Types
  <2>5. QED
    BY <1>1, <1>3, <2>1, <2>2, <2>3, <2>4 DEF Types
<1>7. /\ \A t : AsAdmitted(t)' <=> AsAdmitted(t)
      /\ \A p : Left(p)' = Left(p)
      /\ \A b : AsPacked(b)' <=> AsPacked(b)
  BY <1>3, SamePacked
<1>8. BatchesAsPacked'
  <2>1. \A n \in Nodes : news'[n] # NoBlock => news'[n] = news[n]
    BY <1>1, <1>3 DEF Types
  <2>2. \A d \in Delegates : \A b \in Held(d)' : AsPacked(b)'
    BY <1>3, <1>7 DEF Base, BatchesAsPacked, Held
  <2>3. QED
    BY <1>3, <1>7, <2>1, <2>2 DEF Base, BatchesAsPacked, Held
<1>9. QueuesAsAdmitted'
  BY <1>3, SameQueues
<1>10. WorkOrTodo'
  BY <1>3 DEF Base, WorkOrTodo
<1>11. NoncesAdmitted'
  <2>1. \A n \in Nodes : nonces'[n] = nonce \/ nonces'[n] = nonces[n]
    BY <1>1, <1>3 DEF Types
  <2>2. QED
    BY <1>3, <1>5, <2>1 DEF Base, NoncesAdmitted
<1>12. QED
  BY <1>6, <1>8, <1>9, <1>10, <1>11 DEF Base

\* Delegate d processes the block that has come, if one has.
LEMMA CatchUpFacts ==
    ASSUME Base, NEW d \in Delegates, CatchUp(d)
    PROVE  /\ nonces' \in [Nodes -> [Processors -> Nat]] /\ news' \in [Nodes -> Seq(Tx) \cup {NoBlock}]
           /\ outdated' = outdated \ {d} /\ outdated' \subseteq Nodes
           /\ d \in Nodes /\ news'[d] = NoBlock
           /\ \A n \in Nodes : n # d => news'[n] = news[n] /\ nonces'[n] = nonces[n]
           /\ nonces'[d] = IF news[d] = NoBlock THEN nonces[d] ELSE Committed(d, news[d])
           /\ \A m \in Processors, n \in Nodes : nonces'[n][m] > 0 => nonces'[n][m] - 1 \in ToSet(admitted[m])
<1>1. d \in Nodes
  BY DEF Nodes
<1>2. /\ nonces \in [Nodes -> [Processors -> Nat]] /\ news \in [Nodes -> Seq(Tx) \cup {NoBlock}]
      /\ outdated \subseteq Nodes
  BY DEF Base, Types
<1>3. \A m \in Processors, n \in Nodes : nonces[n][m] > 0 => nonces[n][m] - 1 \in ToSet(admitted[m])
  BY DEF Base, NoncesAdmitted
<1>4. news' = [news EXCEPT ![d] = NoBlock] /\ outdated' = outdated \ {d}
  BY DEF CatchUp
<1>5. CASE news[d] = NoBlock
  <2>1. nonces' = nonces
    BY <1>5 DEF CatchUp
  <2>2. QED
    BY <1>1, <1>2, <1>3, <1>4, <1>5, <2>1
<1>6. CASE news[d] # NoBlock
  <2>1. PICK nonce : nonce = Committed(d, news[d])
    OBVIOUS
  <2>2. nonces' = [nonces EXCEPT ![d] = nonce]
    BY <1>6, <2>1 DEF CatchUp
  <2>3. /\ nonce \in [Processors -> Nat]
        /\ \A p \in Processors : nonce[p] > 0 => nonce[p] - 1 \in ToSet(admitted[p])
    BY <1>1, <1>6, <2>1, CommittedTyped
  <2>4. nonces' \in [Nodes -> [Processors -> Nat]]
    BY <1>2, <2>2, <2>3
  <2>5. nonces'[d] = nonce /\ \A n \in Nodes : n # d => nonces'[n] = nonces[n]
    BY <1>1, <1>2, <2>2
  <2>6. \A m \in Processors, n \in Nodes : nonces'[n][m] > 0 => nonces'[n][m] - 1 \in ToSet(admitted[m])
    BY <1>3, <2>3, <2>5
  <2>7. QED
    BY <1>1, <1>2, <1>4, <1>6, <2>1, <2>4, <2>5, <2>6
<1>7. QED
  BY <1>5, <1>6

\* The transactions of the work are as they were packed.
LEMMA WorkAsPacked ==
    ASSUME Base, NEW d \in Delegates
    PROVE  \A t \in TxsOf(work[d]) : t \in Tx /\ AsAdmitted(t) /\ t.id <= Left(t.processor)
<1>1. SUFFICES ASSUME NEW t \in TxsOf(work[d])
               PROVE  AsAdmitted(t) /\ t.id <= Left(t.processor)
  BY DEF AsAdmitted
<1>2. PICK batches \in Seq(Batches) : batches = work[d]
  BY DEF Base, Types
<1>3. PICK i \in DOMAIN batches : t \in ToSet(batches[i].txs)
  BY <1>2, TxsOfFacts
<1>4. batches[i] \in ToSet(work[d])
  BY <1>2 DEF ToSet
<1>5. AsPacked(batches[i])
  BY <1>4 DEF Base, BatchesAsPacked, Held
<1>6. QED
  BY <1>3, <1>5 DEF AsPacked

LEMMA DelegateWorkBase == ASSUME Base, NEW d \in Delegates, DelegateWork(d) PROVE Base'
<1>1. /\ Types /\ work \in [Delegates -> Seq(Batches)] /\ round \in [Delegates -> Seq(Batches)]
      /\ executed \in [Delegates -> SUBSET Tx] /\ now \in Nat
  BY DEF Base, Types
<1>2. Gather(d) /\ CatchUp(d)
  BY DEF DelegateWork
<1>3. /\ nonces' \in [Nodes -> [Processors -> Nat]] /\ news' \in [Nodes -> Seq(Tx) \cup {NoBlock}]
      /\ news'[d] = NoBlock /\ outdated' \subseteq Nodes
      /\ \A n \in Nodes : n # d => news'[n] = news[n]
      /\ \A m \in Processors, n \in Nodes : nonces'[n][m] > 0 => nonces'[n][m] - 1 \in ToSet(admitted[m])
  BY <1>2, CatchUpFacts
<1>4. PICK shims \in Seq(Batches), sorted \in Seq(Batches) :
        /\ \A i \in DOMAIN shims : \E m \in Missing(work[d]) : shims[i] = Shim(m)
        /\ round' = [round EXCEPT ![d] = sorted]
        /\ \A b : b \in ToSet(sorted) <=> b \in ToSet(work[d]) \/ b \in ToSet(shims)
  BY <1>1, <1>2, GatherFacts
<1>5. /\ executed' = [executed EXCEPT ![d] = @ \cup TxsOf(work[d])]
      /\ work' = [work EXCEPT ![d] = << >>] /\ phase' = [phase EXCEPT ![d] = "confirm"]
      /\ current' \in {current \cup {d}, current \ {d}}
      /\ UNCHANGED << now, todo, queue, pending, waiting, net, admitted, reusable >>
  BY DEF DelegateWork, Gather
<1>6. twice' \in BOOLEAN /\ hitch' \in BOOLEAN
  BY Zenon DEF DelegateWork
<1>7. \A t \in TxsOf(work[d]) : t \in Tx /\ AsAdmitted(t) /\ t.id <= Left(t.processor)
  BY WorkAsPacked
<1>8. /\ work'[d] = << >> /\ round'[d] = sorted /\ phase'[d] = "confirm"
      /\ executed'[d] = executed[d] \cup TxsOf(work[d])
      /\ \A e \in Delegates : e # d => work'[e] = work[e] /\ round'[e] = round[e] /\ phase'[e] = phase[e]
                                       /\ executed'[e] = executed[e]
  BY <1>1, <1>4, <1>5 DEF Types
<1>9. Types'
  <2>1. << >> \in Seq(Batches)
    BY EmptySeq
  <2>2. work' \in [Delegates -> Seq(Batches)] /\ round' \in [Delegates -> Seq(Batches)]
    BY <1>1, <1>4, <1>5, <2>1
  <2>3. phase' \in [Delegates -> {"accept", "confirm"}] /\ current' \subseteq Delegates
    BY <1>1, <1>5 DEF Types
  <2>4. executed' \in [Delegates -> SUBSET Tx]
    BY <1>1, <1>5, <1>7
  <2>5. QED
    BY <1>1, <1>3, <1>5, <1>6, <2>2, <2>3, <2>4 DEF Types
<1>10. /\ \A t : AsAdmitted(t)' <=> AsAdmitted(t)
       /\ \A p : Left(p)' = Left(p)
       /\ \A b : AsPacked(b)' <=> AsPacked(b)
  BY <1>5, SamePacked
<1>11. \A b \in ToSet(shims) : AsPacked(b)
  <2>1. SUFFICES ASSUME NEW i \in DOMAIN shims PROVE AsPacked(shims[i])
    BY DEF ToSet
  <2>2. PICK m \in Missing(work[d]) : shims[i] = Shim(m)
    BY <1>4
  <2>3. shims[i].stamp = now /\ shims[i].txs = << >>
    BY <2>2 DEF Shim
  <2>4. shims[i] \in Batches
    BY BatchFields
  <2>5. ToSet(shims[i].txs) = {}
    BY <2>3 DEF ToSet
  <2>6. shims[i].stamp <= now
    BY <1>1, <2>3
  <2>7. QED
    BY <2>4, <2>5, <2>6 DEF AsPacked
<1>12. BatchesAsPacked'
  <2>1. ToSet(work'[d]) = {}
    BY <1>8 DEF ToSet
  <2>2. \A e \in Delegates : \A b \in Held(e)' : AsPacked(b)
    <3>1. TAKE e \in Delegates
    <3>2. CASE e = d
      BY <1>4, <1>5, <1>8, <1>11, <2>1, <3>2 DEF Base, BatchesAsPacked, Held
    <3>3. CASE e # d
      BY <1>5, <1>8, <3>3 DEF Base, BatchesAsPacked, Held
    <3>4. QED
      BY <3>2, <3>3
  <2>3. \A e \in Delegates : \A t \in executed'[e] : AsAdmitted(t) /\ t.id <= Left(t.processor)
    BY <1>7, <1>8 DEF Base, BatchesAsPacked
  <2>4. \A n \in Nodes : news'[n] # NoBlock => \A t \in ToSet(news'[n]) : AsAdmitted(t)
    BY <1>3 DEF Base, BatchesAsPacked
  <2>5. QED
    BY <1>10, <2>2, <2>3, <2>4 DEF BatchesAsPacked
<1>13. QueuesAsAdmitted'
  BY <1>5, SameQueues
<1>14. WorkOrTodo'
  BY <1>5, <1>8 DEF Base, WorkOrTodo
<1>15. NoncesAdmitted'
  BY <1>3, <1>5 DEF NoncesAdmitted
<1>16. QED
  BY <1>9, <1>12, <1>13, <1>14, <1>15 DEF Base

\* The to-do work is taken up with the next round of the loop.
LEMMA AcceptFacts ==
    ASSUME Types, NEW d \in Delegates, NEW at, NEW funded, Accept(d, at, funded)
    PROVE  \E taken \in Seq(Batches) :
             /\ \A n \in DOMAIN taken : \E i \in DOMAIN todo[d] : taken[n] = todo[d][i] /\ Verified(todo[d][i], at, funded)
             /\ \A n, k \in DOMAIN taken : n # k => taken[n].sender # taken[k].sender
             /\ \A i \in DOMAIN todo[d] : FirstGood(todo[d], at, funded, i) => \E n \in DOMAIN taken : taken[n] = todo[d][i]
             /\ work' = [work EXCEPT ![d] = taken] /\ todo' = [todo EXCEPT ![d] = << >>]
             /\ phase' = [phase EXCEPT ![d] = "accept"]
             /\ phase[d] = "confirm" /\ UNCHANGED << now, round >>
<1>1. PICK batches \in Seq(Batches) : batches = todo[d]
  BY DEF Types
<1>2. PICK taken : taken = TodoWork(batches, at, funded)
  OBVIOUS
<1>3. /\ taken \in Seq(Batches)
      /\ \A n \in DOMAIN taken : \E i \in DOMAIN batches : taken[n] = batches[i] /\ Verified(batches[i], at, funded)
      /\ \A n, k \in DOMAIN taken : n # k => taken[n].sender # taken[k].sender
      /\ \A i \in DOMAIN batches : FirstGood(batches, at, funded, i) => \E n \in DOMAIN taken : taken[n] = batches[i]
  BY <1>2, TodoFacts
<1>4. /\ work' = [work EXCEPT ![d] = taken] /\ todo' = [todo EXCEPT ![d] = << >>]
      /\ phase' = [phase EXCEPT ![d] = "accept"]
      /\ phase[d] = "confirm" /\ UNCHANGED << now, round >>
  BY <1>1, <1>2 DEF Accept, TodoCleared
<1>5. QED
  BY <1>1, <1>3, <1>4, Zenon

LEMMA DelegateConfirmBase == ASSUME Base, NEW d \in Delegates, DelegateConfirm(d) PROVE Base'
<1>1. /\ Types /\ work \in [Delegates -> Seq(Batches)] /\ todo \in [Delegates -> Seq(Batches)]
  BY DEF Base, Types
<1>2. PICK funded \in BOOLEAN : Accept(d, nonces'[d], funded)
  BY DEF DelegateConfirm
<1>3. /\ nonces' \in [Nodes -> [Processors -> Nat]] /\ news' \in [Nodes -> Seq(Tx) \cup {NoBlock}]
      /\ news'[d] = NoBlock /\ outdated' \subseteq Nodes
      /\ \A n \in Nodes : n # d => news'[n] = news[n]
      /\ \A m \in Processors, n \in Nodes : nonces'[n][m] > 0 => nonces'[n][m] - 1 \in ToSet(admitted[m])
  BY CatchUpFacts DEF DelegateConfirm
<1>4. PICK at : at = nonces'[d]
  OBVIOUS
<1>5. PICK taken \in Seq(Batches) :
        /\ \A n \in DOMAIN taken : \E i \in DOMAIN todo[d] : taken[n] = todo[d][i]
        /\ \A n, k \in DOMAIN taken : n # k => taken[n].sender # taken[k].sender
        /\ work' = [work EXCEPT ![d] = taken] /\ todo' = [todo EXCEPT ![d] = << >>]
        /\ phase' = [phase EXCEPT ![d] = "accept"]
        /\ UNCHANGED << now, round >>
  BY <1>1, <1>2, <1>4, AcceptFacts
<1>6. UNCHANGED << queue, pending, waiting, net, admitted, reusable, current, executed, twice >>
  BY Zenon DEF DelegateConfirm
<1>7. hitch' \in BOOLEAN
  BY Zenon DEF DelegateConfirm
<1>8. /\ work'[d] = taken /\ todo'[d] = << >> /\ phase'[d] = "accept"
      /\ \A e \in Delegates : e # d => work'[e] = work[e] /\ todo'[e] = todo[e] /\ phase'[e] = phase[e]
  BY <1>1, <1>5 DEF Types
<1>9. Types'
  <2>1. << >> \in Seq(Batches)
    BY EmptySeq
  <2>2. work' \in [Delegates -> Seq(Batches)] /\ todo' \in [Delegates -> Seq(Batches)]
    BY <1>1, <1>5, <2>1
  <2>3. phase' \in [Delegates -> {"accept", "confirm"}]
    BY <1>1, <1>5 DEF Types
  <2>4. QED
    BY <1>1, <1>3, <1>5, <1>6, <1>7, <2>2, <2>3 DEF Types
<1>10. /\ \A t : AsAdmitted(t)' <=> AsAdmitted(t)
       /\ \A p : Left(p)' = Left(p)
       /\ \A b : AsPacked(b)' <=> AsPacked(b)
  BY <1>5, <1>6, SamePacked
<1>11. BatchesAsPacked'
  <2>1. \A b \in ToSet(work'[d]) : b \in ToSet(todo[d])
    BY <1>5, <1>8 DEF ToSet
  <2>2. ToSet(todo'[d]) = {}
    BY <1>8 DEF ToSet
  <2>3. \A e \in Delegates : \A b \in Held(e)' : AsPacked(b)
    <3>1. TAKE e \in Delegates
    <3>2. CASE e = d
      BY <1>5, <1>6, <2>1, <2>2, <3>2 DEF Base, BatchesAsPacked, Held
    <3>3. CASE e # d
      BY <1>5, <1>6, <1>8, <3>3 DEF Base, BatchesAsPacked, Held
    <3>4. QED
      BY <3>2, <3>3
  <2>4. \A e \in Delegates : \A t \in executed'[e] : AsAdmitted(t) /\ t.id <= Left(t.processor)
    BY <1>6 DEF Base, BatchesAsPacked
  <2>5. \A n \in Nodes : news'[n] # NoBlock => \A t \in ToSet(news'[n]) : AsAdmitted(t)
    BY <1>3 DEF Base, BatchesAsPacked
  <2>6. QED
    BY <1>10, <2>3, <2>4, <2>5 DEF BatchesAsPacked
<1>12. QueuesAsAdmitted'
  BY <1>6, SameQueues
<1>13. WorkOrTodo'
  <2>1. SUFFICES ASSUME NEW e \in Delegates
                 PROVE  /\ phase'[e] = "accept" => todo'[e] = << >>
                        /\ phase'[e] = "confirm" => work'[e] = << >>
                        /\ \A i, j \in DOMAIN work'[e] : i # j => work'[e][i].sender # work'[e][j].sender
    BY DEF WorkOrTodo
  <2>2. CASE e = d
    BY <1>5, <1>8, <2>2
  <2>3. CASE e # d
    BY <1>8, <2>3 DEF Base, WorkOrTodo
  <2>4. QED
    BY <2>2, <2>3
<1>14. NoncesAdmitted'
  BY <1>3, <1>6 DEF NoncesAdmitted
<1>15. QED
  BY <1>9, <1>11, <1>12, <1>13, <1>14 DEF Base

LEMMA StutterBase == ASSUME Base, UNCHANGED vars PROVE Base'
<1>1. /\ UNCHANGED << now, phase, work, todo, round, queue, pending, nonces, waiting, net, news >>
      /\ UNCHANGED << admitted, reusable, current, outdated, executed, twice, hitch >>
  BY DEF vars, inboxVars, masterVars, history
<1>2. Types' /\ WorkOrTodo' /\ NoncesAdmitted'
  BY <1>1 DEF Base, Types, WorkOrTodo, NoncesAdmitted
<1>3. QueuesAsAdmitted'
  BY <1>1, SameQueues
<1>4. BatchesAsPacked'
  <2>1. /\ \A t : AsAdmitted(t)' <=> AsAdmitted(t)
        /\ \A p : Left(p)' = Left(p)
        /\ \A b : AsPacked(b)' <=> AsPacked(b)
    BY <1>1, SamePacked
  <2>2. QED
    BY <1>1, <2>1 DEF Base, BatchesAsPacked, Held
<1>5. QED
  BY <1>2, <1>3, <1>4 DEF Base

\* The way of the transactions is as told by Base: for any masternodes, delegates, sizes and timing.
THEOREM BaseInvariant == Spec => []Base
<1>1. Init => Base
  BY InitBase
<1>2. Base /\ [Next]_vars => Base'
  <2>1. SUFFICES ASSUME Base, [Next]_vars PROVE Base'
    OBVIOUS
  <2>2. CASE now < MaxNow /\ Tick /\ UNCHANGED << masterVars, history >>
    BY <2>1, <2>2, TickBase
  <2>3. ASSUME NEW m \in Processors, Submit(m) PROVE Base'
    BY <2>1, <2>3, SubmitBase
  <2>4. ASSUME NEW m \in Processors, SendWork(m) PROVE Base'
    BY <2>1, <2>4, SendWorkBase
  <2>5. ASSUME NEW m \in Processors, Commit(m) PROVE Base'
    BY <2>1, <2>5, CommitBase
  <2>6. ASSUME NEW m \in Masters \ Processors, NEW d \in Delegates, ReceiveOther(m, d) PROVE Base'
    BY <2>1, <2>6, ReceiveOtherBase
  <2>7. ASSUME NEW d \in Delegates, NEW batch \in net[d], Deliver(d, batch) PROVE Base'
    BY <2>1, <2>7, DeliverBase
  <2>8. CASE Build
    BY <2>1, <2>8, BuildBase
  <2>9. ASSUME NEW d \in Delegates, DelegateWork(d) PROVE Base'
    BY <2>1, <2>9, DelegateWorkBase
  <2>10. ASSUME NEW d \in Delegates, DelegateConfirm(d) PROVE Base'
    BY <2>1, <2>10, DelegateConfirmBase
  <2>11. CASE UNCHANGED vars
    BY <2>1, <2>11, StutterBase
  <2>12. QED
    BY <2>1, <2>2, <2>3, <2>4, <2>5, <2>6, <2>7, <2>8, <2>9, <2>10, <2>11, Zenon DEF Next
<1>3. QED
  BY <1>1, <1>2, PTL DEF Spec

\* Every variable holds values of its type, the inbox has one batch of a masternode, and
\* a nonce is 0 or follows an admitted one (work.py, delegate.py, storage.py:105-119).
THEOREM TypeCorrect == Spec => []TypeOK
<1>1. Base => TypeOK
  <2>1. SUFFICES ASSUME Base PROVE TypeOK
    OBVIOUS
  <2>2. \A d \in Delegates : net[d] \cup ToSet(work[d]) \cup ToSet(todo[d]) \cup ToSet(round[d])
          \subseteq [sender : Masters, stamp : 0 .. now, txs : Seq(Tx)]
    <3>1. SUFFICES ASSUME NEW d \in Delegates,
                          NEW b \in net[d] \cup ToSet(work[d]) \cup ToSet(todo[d]) \cup ToSet(round[d])
                   PROVE  b \in [sender : Masters, stamp : 0 .. now, txs : Seq(Tx)]
      OBVIOUS
    <3>2. b \in Batches /\ b.stamp <= now
      BY <2>1 DEF Base, BatchesAsPacked, AsPacked, Held
    <3>3. now \in Nat
      BY <2>1 DEF Base, Types
    <3>4. b.stamp \in 0 .. now
      BY <3>2, <3>3 DEF Batches
    <3>5. QED
      BY <3>2, <3>4 DEF Batches
  <2>3. \A n \in Nodes : news[n] = NoBlock \/ news[n] \in Seq(Tx)
    BY <2>1 DEF Base, Types
  <2>4. QED
    BY <2>1, <2>2, <2>3 DEF TypeOK, Base, Types, WorkOrTodo, NoncesAdmitted
<1>2. QED
  BY <1>1, BaseInvariant, PTL

----------------------------------------------------------------------------
(* A transaction is in one place only. *)

\* No transaction is in two batches on their way to a delegate, nor in one and in its
\* inbox, nor in either and executed by it.
ApartAt(d) ==
    /\ \A b, c \in net[d] : b # c => \A t \in ToSet(b.txs) : t \notin ToSet(c.txs)
    /\ \A b \in net[d], c \in ToSet(work[d]) \cup ToSet(todo[d]) : \A t \in ToSet(b.txs) : t \notin ToSet(c.txs)
    /\ \A b \in net[d] \cup ToSet(work[d]) \cup ToSet(todo[d]) : \A t \in ToSet(b.txs) : t \notin executed[d]

Apart == (\A d \in Delegates : ApartAt(d)) /\ ~ twice

LEMMA TxsOfSet ==
    ASSUME NEW batches
    PROVE  \A t : t \in TxsOf(batches) <=> \E b \in ToSet(batches) : t \in ToSet(b.txs)
BY DEF TxsOf, ToSet

\* What is packed has not left the queue before, as everything under way has.
LEMMA PackedIsNew ==
    ASSUME Base, NEW m \in Processors, NEW t \in ToSet(Packed(m).txs), NEW d \in Delegates
    PROVE  t \notin executed[d] /\ \A b \in Held(d) : t \notin ToSet(b.txs)
<1>1. PICK batch \in Batches, k \in Nat :
        /\ batch = Packed(m) /\ k = Len(batch.txs) /\ k <= Len(queue[m])
        /\ \A i \in 1 .. k : batch.txs[i] = queue[m][i]
  BY PackedFacts
<1>2. batch.txs \in Seq(Tx) /\ queue[m] \in Seq(Tx)
  BY <1>1 DEF Batches, Base, Types
<1>3. DOMAIN batch.txs = 1 .. k /\ DOMAIN queue[m] = 1 .. Len(queue[m]) /\ Len(queue[m]) \in Nat
  BY <1>1, <1>2
<1>4. PICK i \in 1 .. k : t = batch.txs[i]
  BY <1>1, <1>3 DEF ToSet
<1>5. i \in DOMAIN queue[m] /\ t = queue[m][i]
  BY <1>1, <1>3, <1>4
<1>6. t.processor = m /\ t.id = Left(m) + i
  BY <1>5 DEF Base, QueuesAsAdmitted
<1>7. Left(m) \in Int
  BY LeftTyped DEF Base
<1>8. ~ (t.id <= Left(t.processor))
  BY <1>6, <1>7
<1>9. t \notin executed[d]
  BY <1>8 DEF Base, BatchesAsPacked
<1>10. \A b \in Held(d) : t \notin ToSet(b.txs)
  BY <1>8 DEF Base, BatchesAsPacked, AsPacked
<1>11. QED
  BY <1>9, <1>10

LEMMA SendWorkApart == ASSUME Base, Apart, NEW m \in Processors, SendWork(m) PROVE Apart'
<1>1. PICK batch : batch = Packed(m)
  OBVIOUS
<1>2. UNCHANGED << work, todo, executed, twice >>
  BY DEF SendWork, inboxVars
<1>3. \A d \in Delegates : net'[d] = net[d] \/ net'[d] = net[d] \cup {batch}
  BY <1>1 DEF SendWork
<1>4. ASSUME NEW d \in Delegates PROVE ApartAt(d)'
  <2>1. \A t \in ToSet(batch.txs) : t \notin executed[d] /\ \A b \in Held(d) : t \notin ToSet(b.txs)
    BY <1>1, PackedIsNew
  <2>2. \A t \in ToSet(batch.txs) :
          t \notin executed[d] /\ \A b \in net[d] \cup ToSet(work[d]) \cup ToSet(todo[d]) : t \notin ToSet(b.txs)
    BY <2>1 DEF Held
  <2>3. ApartAt(d)
    BY DEF Apart
  <2>4. CASE net'[d] = net[d]
    BY <1>2, <2>3, <2>4 DEF ApartAt
  <2>5. CASE net'[d] = net[d] \cup {batch}
    <3>1. \A b, c \in net'[d] : b # c => \A t \in ToSet(b.txs) : t \notin ToSet(c.txs)
      BY <2>2, <2>3, <2>5, Zenon DEF ApartAt
    <3>2. \A b \in net'[d], c \in ToSet(work[d]) \cup ToSet(todo[d]) : \A t \in ToSet(b.txs) : t \notin ToSet(c.txs)
      BY <2>2, <2>3, <2>5 DEF ApartAt
    <3>3. \A b \in net'[d] \cup ToSet(work[d]) \cup ToSet(todo[d]) : \A t \in ToSet(b.txs) : t \notin executed[d]
      BY <2>2, <2>3, <2>5 DEF ApartAt
    <3>4. QED
      BY <1>2, <3>1, <3>2, <3>3 DEF ApartAt
  <2>6. QED
    BY <1>3, <2>4, <2>5
<1>5. QED
  BY <1>2, <1>4 DEF Apart

LEMMA ReceiveOtherApart ==
    ASSUME Base, Apart, NEW m \in Masters, NEW d \in Delegates, ReceiveOther(m, d)
    PROVE  Apart'
<1>1. PICK stamp \in 0 .. now : ReceiveWork(d, [sender |-> m, stamp |-> stamp, txs |-> << >>], nonces[d], TRUE)
  BY DEF ReceiveOther
<1>2. PICK batch : batch = [sender |-> m, stamp |-> stamp, txs |-> << >>]
  OBVIOUS
<1>3. << >> \in Seq(Tx) /\ stamp \in Nat
  BY EmptySeq DEF Base, Types
<1>4. batch \in Batches /\ batch.txs = << >>
  BY <1>2, <1>3 DEF Batches
<1>5. ToSet(batch.txs) = {}
  BY <1>4 DEF ToSet
<1>6. /\ \A e \in Delegates : \A b : b \in ToSet(work'[e]) => b \in ToSet(work[e]) \/ (e = d /\ b = batch)
      /\ \A e \in Delegates : \A b : b \in ToSet(todo'[e]) => b \in ToSet(todo[e]) \/ (e = d /\ b = batch)
  <2>1. ReceiveWork(d, batch, nonces[d], TRUE)
    BY <1>1, <1>2
  <2>2. Types
    BY DEF Base
  <2>3. QED
    BY <1>4, <2>1, <2>2, ReceivedFacts
<1>7. UNCHANGED << net, executed, twice >>
  BY DEF ReceiveOther, masterVars, history
<1>8. ASSUME NEW e \in Delegates PROVE ApartAt(e)'
  BY <1>5, <1>6, <1>7, Zenon DEF Apart, ApartAt
<1>9. QED
  BY <1>7, <1>8 DEF Apart

LEMMA DeliverApart ==
    ASSUME Base, Apart, NEW d \in Delegates, NEW batch \in net[d], Deliver(d, batch)
    PROVE  Apart'
<1>1. net \in [Delegates -> SUBSET Batches] /\ batch \in Batches /\ Types
  BY DEF Base, Types
<1>2. PICK funded \in BOOLEAN : ReceiveWork(d, batch, nonces[d], funded)
  BY DEF Deliver
<1>3. /\ \A e \in Delegates : \A b : b \in ToSet(work'[e]) => b \in ToSet(work[e]) \/ (e = d /\ b = batch)
      /\ \A e \in Delegates : \A b : b \in ToSet(todo'[e]) => b \in ToSet(todo[e]) \/ (e = d /\ b = batch)
  BY <1>1, <1>2, ReceivedFacts
<1>4. net' = [net EXCEPT ![d] = @ \ {batch}] /\ UNCHANGED << executed, twice >>
  BY DEF Deliver
<1>5. net'[d] = net[d] \ {batch} /\ \A e \in Delegates : e # d => net'[e] = net[e]
  BY <1>1, <1>4
<1>6. ApartAt(d)'
  <2>1. ApartAt(d)
    BY DEF Apart
  <2>2. \A b \in net'[d] : b \in net[d] /\ b # batch
    BY <1>5
  <2>3. \A c \in ToSet(work'[d]) \cup ToSet(todo'[d]) : c \in ToSet(work[d]) \cup ToSet(todo[d]) \/ c = batch
    BY <1>3
  <2>4. \A b \in net'[d], c \in ToSet(work'[d]) \cup ToSet(todo'[d]) : \A t \in ToSet(b.txs) : t \notin ToSet(c.txs)
    BY <2>1, <2>2, <2>3 DEF ApartAt
  <2>5. \A b \in net'[d] \cup ToSet(work'[d]) \cup ToSet(todo'[d]) : \A t \in ToSet(b.txs) : t \notin executed[d]
    BY <2>1, <2>2, <2>3 DEF ApartAt
  <2>6. QED
    BY <1>4, <2>1, <2>2, <2>4, <2>5 DEF ApartAt
<1>7. ASSUME NEW e \in Delegates, e # d PROVE ApartAt(e)'
  BY <1>3, <1>4, <1>5, <1>7, Zenon DEF Apart, ApartAt
<1>8. QED
  BY <1>4, <1>6, <1>7, Zenon DEF Apart

LEMMA DelegateWorkApart == ASSUME Base, Apart, NEW d \in Delegates, DelegateWork(d) PROVE Apart'
<1>1. /\ executed' = [executed EXCEPT ![d] = @ \cup TxsOf(work[d])]
      /\ twice' = (twice \/ executed[d] \cap TxsOf(work[d]) # {})
      /\ work' = [work EXCEPT ![d] = << >>] /\ phase[d] = "accept" /\ UNCHANGED << todo, net >>
  BY DEF DelegateWork, Gather
<1>2. /\ executed'[d] = executed[d] \cup TxsOf(work[d]) /\ work'[d] = << >>
      /\ \A e \in Delegates : e # d => executed'[e] = executed[e] /\ work'[e] = work[e]
  BY <1>1 DEF Base, Types
<1>3. \A t : t \in TxsOf(work[d]) <=> \E b \in ToSet(work[d]) : t \in ToSet(b.txs)
  BY TxsOfSet
<1>4. ToSet(work'[d]) = {} /\ ToSet(todo'[d]) = {}
  <2>1. todo[d] = << >>
    BY <1>1 DEF Base, WorkOrTodo
  <2>2. QED
    BY <1>1, <1>2, <2>1 DEF ToSet
<1>5. ApartAt(d)
  BY DEF Apart
<1>6. ~ twice'
  <2>1. executed[d] \cap TxsOf(work[d]) = {}
    BY <1>3, <1>5 DEF ApartAt
  <2>2. QED
    BY <1>1, <2>1, Zenon DEF Apart
<1>7. \A b \in net'[d] : \A t \in ToSet(b.txs) : t \notin executed'[d]
  BY <1>1, <1>2, <1>3, <1>5 DEF ApartAt
<1>8. ApartAt(d)'
  BY <1>1, <1>4, <1>5, <1>7, Zenon DEF ApartAt
<1>9. ASSUME NEW e \in Delegates, e # d PROVE ApartAt(e)'
  BY <1>1, <1>2, <1>9, Zenon DEF Apart, ApartAt
<1>10. QED
  BY <1>6, <1>8, <1>9, Zenon DEF Apart

LEMMA DelegateConfirmApart == ASSUME Base, Apart, NEW d \in Delegates, DelegateConfirm(d) PROVE Apart'
<1>1. work \in [Delegates -> Seq(Batches)] /\ todo \in [Delegates -> Seq(Batches)] /\ Types
  BY DEF Base, Types
<1>2. PICK at, funded : at = nonces'[d] /\ Accept(d, at, funded)
  BY DEF DelegateConfirm
<1>3. PICK taken \in Seq(Batches) :
        /\ \A n \in DOMAIN taken : \E i \in DOMAIN todo[d] : taken[n] = todo[d][i]
        /\ work' = [work EXCEPT ![d] = taken] /\ todo' = [todo EXCEPT ![d] = << >>]
  BY <1>1, <1>2, AcceptFacts
<1>4. /\ work'[d] = taken /\ todo'[d] = << >>
      /\ \A e \in Delegates : e # d => work'[e] = work[e] /\ todo'[e] = todo[e]
  BY <1>1, <1>3
<1>5. UNCHANGED << net, executed, twice >>
  BY Zenon DEF DelegateConfirm
<1>6. ToSet(todo'[d]) = {} /\ \A b \in ToSet(work'[d]) : b \in ToSet(todo[d])
  BY <1>3, <1>4 DEF ToSet
<1>7. ApartAt(d)'
  BY <1>5, <1>6, Zenon DEF Apart, ApartAt
<1>8. ASSUME NEW e \in Delegates, e # d PROVE ApartAt(e)'
  BY <1>4, <1>5, <1>8, Zenon DEF Apart, ApartAt
<1>9. QED
  BY <1>5, <1>7, <1>8, Zenon DEF Apart

\* No delegate executes a transaction in two rounds, late or kept batches notwithstanding
\* (delegate.py, WorkProcessor and process_new_work).
THEOREM NeverTwice == Spec => []ExecutedOnce
<1>1. Init => Apart
  BY DEF Init, InboxInit, Apart, ApartAt, ToSet
<1>2. Base /\ Apart /\ [Next]_vars => Apart'
  <2>1. SUFFICES ASSUME Base, Apart, [Next]_vars PROVE Apart'
    OBVIOUS
  <2>2. CASE UNCHANGED << work, todo, net, executed, twice >>
    BY <2>1, <2>2, Zenon DEF Apart, ApartAt
  <2>3. ASSUME NEW m \in Processors, SendWork(m) PROVE Apart'
    BY <2>1, <2>3, SendWorkApart
  <2>4. ASSUME NEW m \in Masters \ Processors, NEW d \in Delegates, ReceiveOther(m, d) PROVE Apart'
    BY <2>1, <2>4, ReceiveOtherApart
  <2>5. ASSUME NEW d \in Delegates, NEW batch \in net[d], Deliver(d, batch) PROVE Apart'
    BY <2>1, <2>5, DeliverApart
  <2>6. ASSUME NEW d \in Delegates, DelegateWork(d) PROVE Apart'
    BY <2>1, <2>6, DelegateWorkApart
  <2>7. ASSUME NEW d \in Delegates, DelegateConfirm(d) PROVE Apart'
    BY <2>1, <2>7, DelegateConfirmApart
  <2>8. CASE Tick /\ UNCHANGED << masterVars, history >>
    BY <2>2, <2>8 DEF Tick, inboxVars, masterVars, history
  <2>9. ASSUME NEW m \in Processors, Submit(m) \/ Commit(m) PROVE Apart'
    BY <2>2, <2>9 DEF Submit, Commit, inboxVars
  <2>10. CASE Build
    BY <2>2, <2>10 DEF Build
  <2>11. CASE UNCHANGED vars
    BY <2>2, <2>11 DEF vars, inboxVars, masterVars, history
  <2>12. QED
    BY <2>1, <2>3, <2>4, <2>5, <2>6, <2>7, <2>8, <2>9, <2>10, <2>11, Zenon DEF Next
<1>3. Apart => ExecutedOnce
  BY DEF Apart, ExecutedOnce
<1>4. QED
  BY <1>1, <1>2, <1>3, BaseInvariant, PTL DEF Spec

----------------------------------------------------------------------------
(* A nonce is admitted again only after a reset. *)

\* A nonce once admitted is behind the account's nonces, or was made available again.
PastOrReusable ==
    \A m \in Processors : \A a \in ToSet(admitted[m]) :
        a < Larger(nonces[m][m], pending[m]) \/ a \in reusable[m]

LEMMA SubmitDoubles ==
    ASSUME Base, PastOrReusable, DoublesOnlyAfterReset, NEW m \in Processors, Submit(m)
    PROVE  PastOrReusable' /\ DoublesOnlyAfterReset'
<1>1. PICK n \in 0 .. Larger(nonces[m][m], pending[m]) + 1 :
        /\ Admits(n, nonces[m][m], pending[m])
        /\ pending' = [pending EXCEPT ![m] = n + 1]
        /\ admitted' = [admitted EXCEPT ![m] = Append(@, n)]
  BY DEF Submit
<1>2. UNCHANGED << nonces, reusable >>
  BY DEF Submit
<1>3. /\ pending \in [Processors -> Nat] /\ admitted \in [Processors -> Seq(Nat)]
      /\ nonces[m][m] \in Nat /\ pending[m] \in Nat
  BY DEF Base, Types, Nodes
<1>4. n \in Nat /\ n = Larger(nonces[m][m], pending[m])
  BY <1>1, <1>3 DEF Admits, Larger
<1>5. PICK mine \in Seq(Nat) : mine = admitted[m]
  BY <1>3
<1>6. PICK more : more = Append(mine, n)
  OBVIOUS
<1>7. PICK had \in Nat : had = Len(mine)
  BY <1>5
<1>8. /\ DOMAIN mine = 1 .. had /\ DOMAIN more = 1 .. had + 1
      /\ more[had + 1] = n /\ \A i \in 1 .. had : more[i] = mine[i]
  BY <1>4, <1>5, <1>6, <1>7
<1>9. \A i \in 1 .. had + 1 : i \in 1 .. had \/ i = had + 1
  BY <1>7
<1>10. /\ admitted'[m] = more /\ pending'[m] = n + 1
       /\ \A k \in Processors : k # m => admitted'[k] = admitted[k] /\ pending'[k] = pending[k]
  BY <1>1, <1>3, <1>5, <1>6
<1>11. \A i \in 1 .. had : mine[i] \in Nat /\ mine[i] \in ToSet(admitted[m])
  <2>1. \A i \in 1 .. had : mine[i] \in Nat
    BY <1>5, <1>7
  <2>2. \A i \in 1 .. had : mine[i] \in ToSet(mine)
    BY <1>8, Zenon DEF ToSet
  <2>3. QED
    BY <1>5, <2>1, <2>2, Zenon
<1>12. \A i \in 1 .. had : mine[i] < n \/ mine[i] \in reusable[m]
  BY <1>4, <1>11 DEF PastOrReusable
<1>13. PastOrReusable'
  <2>1. ASSUME NEW k \in Processors, NEW a \in ToSet(admitted'[k])
        PROVE  a < Larger(nonces[k][k], pending'[k]) \/ a \in reusable[k]
    <3>1. CASE k # m
      BY <1>10, <3>1 DEF PastOrReusable
    <3>2. CASE k = m
      <4>1. PICK i \in 1 .. had + 1 : a = more[i]
        BY <1>8, <1>10, <3>2 DEF ToSet
      <4>2. (a \in Nat /\ a < n + 1) \/ a \in reusable[m]
        <5>1. CASE i = had + 1
          BY <1>4, <1>8, <4>1, <5>1
        <5>2. CASE i \in 1 .. had
          BY <1>4, <1>8, <1>11, <1>12, <4>1, <5>2
        <5>3. QED
          BY <1>9, <5>1, <5>2
      <4>3. n + 1 <= Larger(nonces[m][m], n + 1)
        BY <1>3, <1>4 DEF Larger
      <4>4. Larger(nonces[m][m], n + 1) \in Nat
        BY <1>3, <1>4 DEF Larger
      <4>5. a < Larger(nonces[m][m], n + 1) \/ a \in reusable[m]
        BY <1>4, <4>2, <4>3, <4>4
      <4>6. QED
        BY <1>10, <3>2, <4>5
    <3>3. QED
      BY <3>1, <3>2
  <2>2. QED
    BY <1>2, <2>1 DEF PastOrReusable
<1>14. DoublesOnlyAfterReset'
  <2>1. ASSUME NEW k \in Processors, NEW i \in DOMAIN admitted'[k], NEW j \in DOMAIN admitted'[k],
               i < j, admitted'[k][i] = admitted'[k][j]
        PROVE  admitted'[k][i] \in reusable[k]
    <3>1. CASE k # m
      BY <1>10, <2>1, <3>1 DEF DoublesOnlyAfterReset
    <3>2. CASE k = m
      <4>1. i \in 1 .. had + 1 /\ j \in 1 .. had + 1 /\ more[i] = more[j]
        BY <1>8, <1>10, <2>1, <3>2
      <4>2. i \in 1 .. had
        BY <1>7, <2>1, <4>1
      <4>3. CASE j = had + 1
        <5>1. mine[i] = n /\ more[i] = mine[i]
          BY <1>8, <4>1, <4>2, <4>3
        <5>2. mine[i] \in reusable[m]
          BY <1>4, <1>12, <4>2, <5>1
        <5>3. QED
          BY <1>10, <3>2, <5>1, <5>2
      <4>4. CASE j \in 1 .. had
        <5>1. mine[i] = mine[j] /\ more[i] = mine[i]
          BY <1>8, <4>1, <4>2, <4>4
        <5>2. mine[i] \in reusable[m]
          BY <1>5, <1>8, <2>1, <4>2, <4>4, <5>1 DEF DoublesOnlyAfterReset
        <5>3. QED
          BY <1>10, <3>2, <5>1, <5>2
      <4>5. QED
        BY <1>9, <4>1, <4>3, <4>4
    <3>3. QED
      BY <3>1, <3>2
  <2>2. QED
    BY <1>2, <2>1 DEF DoublesOnlyAfterReset
<1>15. QED
  BY <1>13, <1>14

LEMMA CommitDoubles ==
    ASSUME Base, PastOrReusable, DoublesOnlyAfterReset, NEW m \in Processors, Commit(m)
    PROVE  PastOrReusable' /\ DoublesOnlyAfterReset'
<1>1. m \in Nodes /\ news[m] # NoBlock
  BY DEF Commit, Nodes
<1>2. PICK block \in Seq(Tx) : block = news[m]
  BY <1>1 DEF Base, Types
<1>3. PICK nonce : nonce = Committed(m, block)
  OBVIOUS
<1>4. nonce \in [Processors -> Nat]
  BY <1>1, <1>2, <1>3, CommittedTyped
<1>5. PICK pend : pend = CommittedPending(AtProcessor(m, block), pending[m])
  OBVIOUS
<1>6. /\ nonces \in [Nodes -> [Processors -> Nat]] /\ pending \in [Processors -> Nat]
      /\ reusable \in [Processors -> SUBSET Nat] /\ admitted \in [Processors -> Seq(Nat)]
  BY DEF Base, Types
<1>7. nonces' = [nonces EXCEPT ![m] = nonce] /\ pending' = [pending EXCEPT ![m] = pend] /\ admitted' = admitted
  BY <1>2, <1>3, <1>5 DEF Commit
<1>8. PICK again : again = (IF pend = 0 THEN reusable[m] \cup {n \in ToSet(admitted[m]) : n >= nonce[m]}
                            ELSE reusable[m])
  OBVIOUS
<1>9. nonces'[m] = nonce /\ pending'[m] = pend
  BY <1>1, <1>6, <1>7
<1>10. reusable' = [reusable EXCEPT ![m] = again]
  <2>1. reusable' = [reusable EXCEPT ![m] =
             IF pending'[m] = 0 THEN @ \cup {n \in ToSet(admitted[m]) : n >= nonces'[m][m]} ELSE @]
    BY DEF Commit
  <2>2. QED
    BY <1>8, <1>9, <2>1
<1>11. /\ reusable'[m] = again
       /\ \A k \in Processors : k # m => reusable'[k] = reusable[k] /\ pending'[k] = pending[k] /\ nonces'[k] = nonces[k]
  BY <1>1, <1>6, <1>7, <1>10 DEF Nodes
<1>12. reusable[m] \subseteq again
  BY <1>8
<1>13. \A k \in Processors : reusable[k] \subseteq reusable'[k]
  BY <1>11, <1>12
<1>14. DoublesOnlyAfterReset'
  BY <1>7, <1>13, Zenon DEF DoublesOnlyAfterReset
<1>15. ASSUME NEW a \in ToSet(admitted[m]) PROVE a < Larger(nonce[m], pend) \/ a \in again
  <2>1. admitted[m] \in Seq(Nat)
    BY <1>6
  <2>2. a \in Nat
    BY <2>1, ToSetFinite
  <2>3. a < Larger(nonces[m][m], pending[m]) \/ a \in reusable[m]
    BY DEF PastOrReusable
  <2>4. CASE Changing(block, m)
    <3>1. pend = 0
      BY <1>2, <1>5, <2>4, PendingEffect
    <3>2. a >= nonce[m] => a \in again
      BY <1>8, <3>1
    <3>3. nonce[m] \in Nat
      BY <1>4
    <3>4. QED
      BY <2>2, <3>1, <3>2, <3>3 DEF Larger
  <2>5. CASE ~ Changing(block, m)
    <3>1. pend = pending[m]
      BY <1>2, <1>5, <2>5, PendingEffect
    <3>2. nonce[m] = nonces[m][m]
      <4>1. nonce[m] = CommittedNonce(AtProcessor(m, block), nonces[m][m])
        BY <1>3 DEF Committed
      <4>2. QED
        BY <1>2, <2>5, <4>1, NonceEffect
    <3>3. QED
      BY <1>12, <2>3, <3>1, <3>2
  <2>6. QED
    BY <2>4, <2>5
<1>16. ASSUME NEW k \in Processors, NEW a \in ToSet(admitted[k])
       PROVE  a < Larger(nonces'[k][k], pending'[k]) \/ a \in reusable'[k]
  <2>1. CASE k = m
    <3>1. nonces'[k][k] = nonce[m] /\ pending'[k] = pend /\ reusable'[k] = again
      BY <1>9, <1>11, <2>1
    <3>2. QED
      BY <1>15, <2>1, <3>1
  <2>2. CASE k # m
    BY <1>11, <2>2 DEF PastOrReusable
  <2>3. QED
    BY <2>1, <2>2
<1>17. PastOrReusable'
  BY <1>7, <1>16 DEF PastOrReusable
<1>18. QED
  BY <1>14, <1>17

\* Only a reset by a block that leaves later transactions out makes a masternode admit
\* a nonce a second time (transaction.py:161-176, storage.py:119-122).
THEOREM DoublesByReset == Spec => []DoublesOnlyAfterReset
<1> DEFINE Inv == PastOrReusable /\ DoublesOnlyAfterReset
<1>1. Init => Inv
  BY DEF Init, PastOrReusable, DoublesOnlyAfterReset, ToSet
<1>2. Base /\ Inv /\ [Next]_vars => Inv'
  <2>1. SUFFICES ASSUME Base, PastOrReusable, DoublesOnlyAfterReset, [Next]_vars
                 PROVE  PastOrReusable' /\ DoublesOnlyAfterReset'
    BY DEF Inv
  <2>2. CASE \A m \in Processors : nonces'[m] = nonces[m] /\ UNCHANGED << pending, admitted, reusable >>
    BY <2>1, <2>2, Zenon DEF PastOrReusable, DoublesOnlyAfterReset
  <2>3. ASSUME NEW m \in Processors, Submit(m) PROVE PastOrReusable' /\ DoublesOnlyAfterReset'
    BY <2>1, <2>3, SubmitDoubles
  <2>4. ASSUME NEW m \in Processors, Commit(m) PROVE PastOrReusable' /\ DoublesOnlyAfterReset'
    BY <2>1, <2>4, CommitDoubles
  <2>5. ASSUME NEW d \in Delegates, DelegateWork(d) \/ DelegateConfirm(d)
        PROVE  PastOrReusable' /\ DoublesOnlyAfterReset'
    <3>1. CatchUp(d) /\ UNCHANGED << pending, admitted, reusable >>
      BY <2>5 DEF DelegateWork, DelegateConfirm
    <3>2. \A n \in Nodes : n # d => nonces'[n] = nonces[n]
      BY <2>1, <3>1, CatchUpFacts
    <3>3. \A m \in Processors : m \in Nodes /\ m # d
      BY PipelineAssumption DEF Nodes
    <3>4. QED
      BY <2>2, <3>1, <3>2, <3>3
  <2>6. ASSUME UNCHANGED << nonces, pending, admitted, reusable >>
        PROVE  PastOrReusable' /\ DoublesOnlyAfterReset'
    BY <2>2, <2>6
  <2>7. CASE Tick /\ UNCHANGED << masterVars, history >>
    BY <2>6, <2>7 DEF masterVars, history
  <2>8. ASSUME NEW m \in Processors, SendWork(m) PROVE PastOrReusable' /\ DoublesOnlyAfterReset'
    BY <2>6, <2>8 DEF SendWork
  <2>9. ASSUME NEW m \in Masters \ Processors, NEW d \in Delegates, ReceiveOther(m, d)
        PROVE  PastOrReusable' /\ DoublesOnlyAfterReset'
    BY <2>6, <2>9 DEF ReceiveOther, masterVars, history
  <2>10. ASSUME NEW d \in Delegates, NEW batch \in net[d], Deliver(d, batch)
         PROVE  PastOrReusable' /\ DoublesOnlyAfterReset'
    BY <2>6, <2>10 DEF Deliver
  <2>11. CASE Build
    BY <2>6, <2>11 DEF Build
  <2>12. CASE UNCHANGED vars
    BY <2>6, <2>12 DEF vars, masterVars, history
  <2>13. QED
    BY <2>1, <2>3, <2>4, <2>5, <2>7, <2>8, <2>9, <2>10, <2>11, <2>12, Zenon DEF Next
<1>3. Inv => DoublesOnlyAfterReset
  BY DEF Inv
<1>4. QED
  BY <1>1, <1>2, <1>3, BaseInvariant, PTL DEF Spec

----------------------------------------------------------------------------
(* A pending nonce has a transaction under way. *)

\* A transaction of m is under way that its masternode has not committed.
MayReset(m) == \E t \in UnderWay : t.processor = m /\ t.nonce >= nonces[m][m]

\* A pending nonce is that of a transaction under way that can still reset it, or of one
\* in the block that has come, which will.
PendingUnderWay ==
    \A m \in Processors : pending[m] > 0 /\ ~ hitch =>
        MayReset(m) \/ (news[m] # NoBlock /\ Changing(news[m], m))

LEMMA UnderWayIs ==
    \A t : t \in UnderWay <=> \/ \E m \in Processors : t \in ToSet(queue[m])
                              \/ \E d \in Delegates : \E b \in Held(d) : t \in ToSet(b.txs)
<1>1. TAKE t
<1>2. t \in UnderWay <=>
        \/ \E m \in Processors : t \in ToSet(queue[m])
        \/ \E d \in Delegates : \/ \E b \in net[d] : t \in ToSet(b.txs)
                                \/ t \in TxsOf(work[d]) \/ t \in TxsOf(todo[d]) \/ t \in TxsOf(round[d])
  BY DEF UnderWay
<1>3. ASSUME NEW d \in Delegates
      PROVE  (\E b \in Held(d) : t \in ToSet(b.txs)) <=>
               \/ \E b \in net[d] : t \in ToSet(b.txs)
               \/ t \in TxsOf(work[d]) \/ t \in TxsOf(todo[d]) \/ t \in TxsOf(round[d])
  <2>1. /\ t \in TxsOf(work[d]) <=> \E b \in ToSet(work[d]) : t \in ToSet(b.txs)
        /\ t \in TxsOf(todo[d]) <=> \E b \in ToSet(todo[d]) : t \in ToSet(b.txs)
        /\ t \in TxsOf(round[d]) <=> \E b \in ToSet(round[d]) : t \in ToSet(b.txs)
    BY TxsOfSet
  <2>2. QED
    BY <2>1 DEF Held
<1>4. QED
  BY <1>2, <1>3, Zenon

\* A step that takes no transaction off its way leaves those under way.
LEMMA UnderWayStays ==
    ASSUME \A m \in Processors : \A t \in ToSet(queue[m]) : t \in UnderWay',
           \A d \in Delegates : \A b \in Held(d) : \A t \in ToSet(b.txs) :
               \E e \in Delegates : \E c \in Held(e)' : t \in ToSet(c.txs)
    PROVE  UnderWay \subseteq UnderWay'
<1>1. \A t : t \in UnderWay' <=> \/ \E m \in Processors : t \in ToSet(queue'[m])
                                 \/ \E d \in Delegates : \E b \in Held(d)' : t \in ToSet(b.txs)
  <2>1. /\ UnderWay' = (UNION {ToSet(queue'[m]) : m \in Processors})
             \cup UNION {(UNION {ToSet(b.txs) : b \in net'[d]})
                            \cup TxsOf(work'[d]) \cup TxsOf(todo'[d]) \cup TxsOf(round'[d]) : d \in Delegates}
    BY DEF UnderWay, TxsOf
  <2>2. ASSUME NEW t, NEW d \in Delegates
        PROVE  (\E b \in Held(d)' : t \in ToSet(b.txs)) <=>
                 \/ \E b \in net'[d] : t \in ToSet(b.txs)
                 \/ t \in TxsOf(work'[d]) \/ t \in TxsOf(todo'[d]) \/ t \in TxsOf(round'[d])
    <3>1. /\ t \in TxsOf(work'[d]) <=> \E b \in ToSet(work'[d]) : t \in ToSet(b.txs)
          /\ t \in TxsOf(todo'[d]) <=> \E b \in ToSet(todo'[d]) : t \in ToSet(b.txs)
          /\ t \in TxsOf(round'[d]) <=> \E b \in ToSet(round'[d]) : t \in ToSet(b.txs)
      BY TxsOfSet
    <3>2. QED
      BY <3>1 DEF Held
  <2>3. TAKE t
  <2>4. t \in UnderWay' <=>
          \/ \E m \in Processors : t \in ToSet(queue'[m])
          \/ \E d \in Delegates : \/ \E b \in net'[d] : t \in ToSet(b.txs)
                                  \/ t \in TxsOf(work'[d]) \/ t \in TxsOf(todo'[d]) \/ t \in TxsOf(round'[d])
    BY <2>1
  <2>5. QED
    BY <2>2, <2>4, Zenon
<1>2. QED
  BY <1>1, UnderWayIs, Zenon

\* Nothing is lost, or what is lost has changed the state in the block.
LEMMA StillMayReset ==
    ASSUME NEW m \in Processors, nonces'[m][m] = nonces[m][m], NEW block,
           ~ Loses(block), MayReset(m)
    PROVE  MayReset(m)' \/ Changing(block, m)
<1>1. PICK t \in UnderWay : t.processor = m /\ t.nonce >= nonces[m][m]
  BY DEF MayReset
<1>2. CASE t \in UnderWay'
  BY <1>1, <1>2 DEF MayReset
<1>3. CASE t \notin UnderWay'
  <2>1. PICK i \in DOMAIN block : SameTx(block[i], t) /\ block[i].changes
    BY <1>1, <1>3, Zenon DEF Loses
  <2>2. block[i] \in ToSet(block)
    BY DEF ToSet
  <2>3. QED
    BY <1>1, <2>1, <2>2 DEF SameTx, Changing
<1>4. QED
  BY <1>2, <1>3

\* A step that loses nothing, and that only the delegates see.
LEMMA KeepsPending ==
    ASSUME Base, PendingUnderWay, ~ hitch' => ~ hitch /\ (UnderWay \subseteq UnderWay' \/ ~ Loses(<< >>)),
           \A m \in Processors : pending'[m] = pending[m] /\ nonces'[m] = nonces[m] /\ news'[m] = news[m]
    PROVE  PendingUnderWay'
<1>1. SUFFICES ASSUME ~ hitch', NEW m \in Processors, pending'[m] > 0
               PROVE  MayReset(m)' \/ (news'[m] # NoBlock /\ Changing(news'[m], m))
  BY Zenon DEF PendingUnderWay, Changing
<1>2. MayReset(m) \/ (news[m] # NoBlock /\ Changing(news[m], m))
  BY <1>1 DEF PendingUnderWay
<1>3. CASE MayReset(m)
  <2>1. nonces'[m][m] = nonces[m][m]
    OBVIOUS
  <2>2. CASE UnderWay \subseteq UnderWay'
    BY <1>3, <2>1, <2>2 DEF MayReset
  <2>3. CASE ~ Loses(<< >>)
    <3>1. ~ Changing(<< >>, m)
      BY DEF Changing, ToSet
    <3>2. QED
      BY <1>3, <2>1, <2>3, <3>1, StillMayReset
  <2>4. QED
    BY <1>1, <2>2, <2>3
<1>4. QED
  BY <1>2, <1>3

LEMMA SubmitPending == ASSUME Base, PendingUnderWay, NEW m \in Processors, Submit(m) PROVE PendingUnderWay'
<1>1. PICK n \in Nat, tx \in Tx : /\ tx.processor = m /\ tx.nonce = n /\ n >= nonces[m][m]
                                 /\ queue' = [queue EXCEPT ![m] = Append(@, tx)]
  <2>1. nonces[m][m] \in Nat /\ pending[m] \in Nat
    BY DEF Base, Types, Nodes
  <2>2. Larger(nonces[m][m], pending[m]) \in Nat /\ Larger(nonces[m][m], pending[m]) >= nonces[m][m]
    BY <2>1 DEF Larger
  <2>3. PICK n \in 0 .. Larger(nonces[m][m], pending[m]) + 1 :
          /\ Admits(n, nonces[m][m], pending[m])
          /\ queue' = [queue EXCEPT ![m] =
               Append(@, [processor |-> m, id |-> Len(admitted[m]) + 1, nonce |-> n, changes |-> FALSE])]
    BY DEF Submit
  <2>4. n \in Nat /\ n >= nonces[m][m]
    BY <2>2, <2>3 DEF Admits
  <2>5. Len(admitted[m]) \in Nat
    BY LeftTyped DEF Base
  <2>6. PICK tx : tx = [processor |-> m, id |-> Len(admitted[m]) + 1, nonce |-> n, changes |-> FALSE]
    OBVIOUS
  <2>7. tx \in Tx /\ tx.processor = m /\ tx.nonce = n
    BY <2>4, <2>5, <2>6 DEF Tx
  <2>8. QED
    BY <2>3, <2>4, <2>6, <2>7
<1>2. /\ UNCHANGED << work, todo, round, net, news, nonces, hitch >>
      /\ \E n2 : pending' = [pending EXCEPT ![m] = n2]
  BY DEF Submit, inboxVars
<1>3. queue \in [Processors -> Seq(Tx)] /\ pending \in [Processors -> Nat]
  BY DEF Base, Types
<1>4. PICK had \in Seq(Tx) : had = queue[m]
  BY <1>3
<1>5. PICK longer : longer = Append(had, tx)
  OBVIOUS
<1>6. /\ longer[Len(had) + 1] = tx /\ Len(had) + 1 \in DOMAIN longer
      /\ \A i \in DOMAIN had : longer[i] = had[i] /\ i \in DOMAIN longer
  BY <1>1, <1>4, <1>5
<1>7. queue'[m] = longer /\ \A k \in Processors : k # m => queue'[k] = queue[k]
  BY <1>1, <1>3, <1>4, <1>5
<1>8. tx \in ToSet(queue'[m]) /\ \A k \in Processors : ToSet(queue[k]) \subseteq ToSet(queue'[k])
  BY <1>4, <1>6, <1>7 DEF ToSet
<1>9. \A k \in Processors : \A t \in ToSet(queue'[k]) : t \in UnderWay'
  BY DEF UnderWay
<1>10. UnderWay \subseteq UnderWay'
  <2>1. \A k \in Processors : \A t \in ToSet(queue[k]) : t \in UnderWay'
    BY <1>8, <1>9
  <2>2. \A d \in Delegates : Held(d)' = Held(d)
    BY <1>2 DEF Held
  <2>3. QED
    BY <2>1, <2>2, UnderWayStays
<1>11. MayReset(m)'
  BY <1>1, <1>2, <1>8, <1>9 DEF MayReset
<1>12. \A k \in Processors : MayReset(k) => MayReset(k)'
  BY <1>2, <1>10 DEF MayReset
<1>13. \A k \in Processors : k # m => pending'[k] = pending[k]
  BY <1>2, <1>3
<1>14. QED
  BY <1>2, <1>11, <1>12, <1>13, Zenon DEF PendingUnderWay, Changing

LEMMA SendWorkPending == ASSUME Base, PendingUnderWay, NEW m \in Processors, SendWork(m) PROVE PendingUnderWay'
<1>1. PICK batch \in Batches, k \in Nat, rest \in Seq(Tx) :
        /\ batch = Packed(m) /\ batch.sender = m /\ batch.stamp = now
        /\ k = Len(batch.txs) /\ k <= Len(queue[m])
        /\ \A i \in 1 .. k : batch.txs[i] = queue[m][i]
        /\ rest = SubSeq(queue[m], k + 1, Len(queue[m]))
        /\ Len(rest) = Len(queue[m]) - k
        /\ \A i \in 1 .. Len(rest) : rest[i] = queue[m][i + k]
  BY PackedFacts
<1>2. PICK reached \in SUBSET Delegates :
        /\ net' = [d \in Delegates |-> IF d \in reached THEN net[d] \cup {batch} ELSE net[d]]
        /\ hitch' = (hitch \/ (reached = {} /\ batch.txs # << >>))
  BY <1>1 DEF SendWork
<1>3. queue' = [queue EXCEPT ![m] = rest] /\ UNCHANGED << work, todo, round, pending, nonces, news >>
  BY <1>1 DEF SendWork, inboxVars
<1>4. queue \in [Processors -> Seq(Tx)]
  BY DEF Base, Types
<1>5. queue'[m] = rest /\ \A p \in Processors : p # m => queue'[p] = queue[p]
  BY <1>3, <1>4
<1>6. /\ \A d \in Delegates : \A b \in Held(d) : b \in Held(d)'
      /\ \A d \in reached : batch \in Held(d)'
  BY <1>2, <1>3 DEF Held
<1>7. \A t : (\/ \E p \in Processors : t \in ToSet(queue'[p])
              \/ \E d \in reached : t \in ToSet(batch.txs)) => t \in UnderWay'
  <2>1. \A p \in Processors : \A t \in ToSet(queue'[p]) : t \in UnderWay'
    BY DEF UnderWay
  <2>2. \A d \in reached : \A t \in ToSet(batch.txs) : t \in UnderWay'
    BY <1>2 DEF UnderWay
  <2>3. QED
    BY <2>1, <2>2
<1>8. ASSUME reached # {} \/ batch.txs = << >> PROVE UnderWay \subseteq UnderWay'
  <2>1. ASSUME NEW t \in ToSet(queue[m]) PROVE t \in UnderWay'
    <3>1. PICK had \in Seq(Tx) : had = queue[m]
      BY <1>4
    <3>2. PICK n \in Nat : n = Len(had)
      BY <3>1
    <3>3. DOMAIN had = 1 .. n
      BY <3>1, <3>2
    <3>4. PICK i \in 1 .. n : t = had[i]
      BY <2>1, <3>1, <3>3 DEF ToSet
    <3>5. CASE i <= k
      <4>1. batch.txs \in Seq(Tx)
        BY <1>1 DEF Batches
      <4>2. i \in 1 .. k /\ DOMAIN batch.txs = 1 .. k
        BY <1>1, <3>5, <4>1
      <4>3. t = batch.txs[i]
        BY <1>1, <3>1, <3>4, <4>2
      <4>4. t \in ToSet(batch.txs)
        BY <4>2, <4>3 DEF ToSet
      <4>5. batch.txs # << >>
        BY <4>2
      <4>6. QED
        BY <1>7, <1>8, <4>4, <4>5
    <3>6. CASE ~ (i <= k)
      <4>1. Len(rest) = n - k /\ DOMAIN rest = 1 .. Len(rest)
        <5>1. Len(rest) = n - k
          BY <1>1, <3>1, <3>2, Zenon
        <5>2. DOMAIN rest = 1 .. Len(rest)
          BY LenProperties
        <5>3. QED
          BY <5>1, <5>2
      <4>2. PICK j \in 1 .. n - k : j + k = i
        <5>1. i - k \in 1 .. n - k /\ (i - k) + k = i
          BY <3>6
        <5>2. QED
          BY <5>1
      <4>3. rest[j] = t
        BY <1>1, <3>1, <3>4, <4>1, <4>2
      <4>4. t \in ToSet(queue'[m])
        BY <1>5, <4>1, <4>2, <4>3 DEF ToSet
      <4>5. QED
        BY <1>7, <4>4
    <3>7. QED
      BY <3>5, <3>6
  <2>2. \A p \in Processors : \A t \in ToSet(queue[p]) : t \in UnderWay'
    BY <1>5, <1>7, <2>1
  <2>3. QED
    BY <1>6, <2>2, UnderWayStays
<1>9. ~ hitch' => ~ hitch /\ UnderWay \subseteq UnderWay'
  BY <1>2, <1>8, Zenon
<1>10. QED
  BY <1>3, <1>9, KeepsPending

\* A batch that is dropped only while work is accepted.
LEMMA ReceivedKept ==
    ASSUME Base, NEW d \in Delegates, NEW batch \in Batches, NEW at, NEW funded, ReceiveWork(d, batch, at, funded),
           UNCHANGED queue, \A e \in Delegates : \A b \in net[e] : b \in net'[e] \/ (e = d /\ b = batch),
           phase[d] # "accept" \/ UNCHANGED net
    PROVE  UnderWay \subseteq UnderWay'
<1>1. /\ Types /\ work[d] \in Seq(Batches) /\ todo[d] \in Seq(Batches)
      /\ work \in [Delegates -> Seq(Batches)] /\ todo \in [Delegates -> Seq(Batches)]
  BY DEF Base, Types
<1>2. /\ UNCHANGED round
      /\ \A e \in Delegates : e # d => work'[e] = work[e] /\ todo'[e] = todo[e]
      /\ phase[d] = "accept" => UNCHANGED todo
      /\ phase[d] # "accept" => UNCHANGED work /\ todo'[d] = Append(todo[d], batch)
      /\ \/ UNCHANGED work
         \/ work'[d] = Append(work[d], batch)
  BY <1>1, ReceivedFacts
<1>3. \A b \in ToSet(work[d]) : b \in ToSet(work'[d])
  BY <1>1, <1>2, AppendSet
<1>4. /\ \A b \in ToSet(todo[d]) : b \in ToSet(todo'[d])
      /\ phase[d] # "accept" => batch \in ToSet(todo'[d])
  BY <1>1, <1>2, AppendSet
<1>5. \A e \in Delegates : \A b \in Held(e) : b \in Held(e)'
  <2>1. TAKE e \in Delegates
  <2>2. CASE e = d
    BY <1>2, <1>3, <1>4, <2>2 DEF Held
  <2>3. CASE e # d
    BY <1>2, <2>3 DEF Held
  <2>4. QED
    BY <2>2, <2>3
<1>6. \A m \in Processors : \A t \in ToSet(queue[m]) : t \in UnderWay'
  BY DEF UnderWay
<1>7. QED
  BY <1>5, <1>6, UnderWayStays

LEMMA DeliverPending ==
    ASSUME Base, PendingUnderWay, NEW d \in Delegates, NEW batch \in net[d], Deliver(d, batch)
    PROVE  PendingUnderWay'
<1>1. net \in [Delegates -> SUBSET Batches] /\ batch \in Batches
  BY DEF Base, Types
<1>2. PICK funded \in BOOLEAN : ReceiveWork(d, batch, nonces[d], funded)
  BY DEF Deliver
<1>3. /\ net' = [net EXCEPT ![d] = @ \ {batch}]
      /\ UNCHANGED << queue, pending, nonces, news >>
  BY DEF Deliver
<1>4. hitch' = (hitch \/ (phase[d] = "accept" /\ Loses(<< >>)))
  BY DEF Deliver
<1>5. \A e \in Delegates : \A b \in net[e] : b \in net'[e] \/ (e = d /\ b = batch)
  BY <1>1, <1>3
<1>6. phase[d] # "accept" => UnderWay \subseteq UnderWay'
  BY <1>1, <1>2, <1>3, <1>5, ReceivedKept
<1>7. ~ hitch' => ~ hitch /\ (UnderWay \subseteq UnderWay' \/ ~ Loses(<< >>))
  BY <1>4, <1>6, Zenon
<1>8. QED
  BY <1>3, <1>7, KeepsPending

LEMMA ReceiveOtherPending ==
    ASSUME Base, PendingUnderWay, NEW m \in Masters, NEW d \in Delegates, ReceiveOther(m, d)
    PROVE  PendingUnderWay'
<1>1. PICK stamp \in 0 .. now : ReceiveWork(d, [sender |-> m, stamp |-> stamp, txs |-> << >>], nonces[d], TRUE)
  BY DEF ReceiveOther
<1>2. PICK batch : batch = [sender |-> m, stamp |-> stamp, txs |-> << >>]
  OBVIOUS
<1>3. << >> \in Seq(Tx) /\ stamp \in Nat
  BY EmptySeq DEF Base, Types
<1>4. batch \in Batches /\ ReceiveWork(d, batch, nonces[d], TRUE)
  BY <1>1, <1>2, <1>3 DEF Batches
<1>5. UNCHANGED << queue, pending, nonces, news, net, hitch >>
  BY DEF ReceiveOther, masterVars, history
<1>6. UnderWay \subseteq UnderWay'
  BY <1>4, <1>5, ReceivedKept
<1>7. ~ hitch' => ~ hitch /\ (UnderWay \subseteq UnderWay' \/ ~ Loses(<< >>))
  BY <1>5, <1>6
<1>8. QED
  BY <1>5, <1>7, KeepsPending

LEMMA BuildPending == ASSUME Base, PendingUnderWay, Build PROVE PendingUnderWay'
<1>1. SUFFICES ASSUME ~ hitch', NEW m \in Processors, pending'[m] > 0
               PROVE  MayReset(m)' \/ (news'[m] # NoBlock /\ Changing(news'[m], m))
  BY Zenon DEF PendingUnderWay, Changing
<1>2. PICK block \in Seq(Tx) :
        /\ news' = [n \in Nodes |-> IF news[n] = NoBlock THEN block ELSE news[n] \o block]
        /\ hitch' = (hitch \/ Loses(block))
  BY BuildFacts
<1>3. news[m] = NoBlock /\ UNCHANGED << pending, nonces >>
  BY Zenon DEF Build
<1>4. ~ hitch /\ ~ Loses(block)
  BY <1>1, <1>2, Zenon
<1>5. news'[m] = block /\ block # NoBlock
  BY <1>2, <1>3, PipelineAssumption DEF Nodes
<1>6. MayReset(m)
  BY <1>1, <1>3, <1>4 DEF PendingUnderWay
<1>7. nonces'[m][m] = nonces[m][m]
  BY <1>3
<1>8. MayReset(m)' \/ Changing(block, m)
  BY <1>4, <1>6, <1>7, StillMayReset
<1>9. QED
  BY <1>5, <1>8

LEMMA CommitPending == ASSUME Base, PendingUnderWay, NEW m \in Processors, Commit(m) PROVE PendingUnderWay'
<1>1. m \in Nodes /\ news[m] # NoBlock
  BY DEF Commit, Nodes
<1>2. PICK block \in Seq(Tx) : block = news[m]
  BY <1>1 DEF Base, Types
<1>3. PICK pend : pend = CommittedPending(AtProcessor(m, block), pending[m])
  OBVIOUS
<1>4. PICK nonce : nonce = Committed(m, block)
  OBVIOUS
<1>5. /\ pending' = [pending EXCEPT ![m] = pend] /\ news' = [news EXCEPT ![m] = NoBlock]
      /\ nonces' = [nonces EXCEPT ![m] = nonce]
      /\ UNCHANGED << work, todo, round, queue, net, hitch >>
  BY <1>2, <1>3, <1>4 DEF Commit, inboxVars
<1>6. /\ pending \in [Processors -> Nat] /\ nonces \in [Nodes -> [Processors -> Nat]]
      /\ news \in [Nodes -> Seq(Tx) \cup {NoBlock}]
  BY DEF Base, Types
<1>7. /\ pending'[m] = pend /\ nonces'[m] = nonce
      /\ \A k \in Processors : k # m => pending'[k] = pending[k] /\ news'[k] = news[k] /\ nonces'[k] = nonces[k]
  BY <1>1, <1>5, <1>6 DEF Nodes
<1>8. UnderWay' = UnderWay
  BY <1>5 DEF UnderWay
<1>9. nonce[m] = CommittedNonce(AtProcessor(m, block), nonces[m][m])
  BY <1>4 DEF Committed
<1>10. pend > 0 => ~ Changing(block, m) /\ pend = pending[m] /\ nonce[m] = nonces[m][m]
  BY <1>2, <1>3, <1>9, PendingEffect, NonceEffect
<1>11. pend > 0 /\ ~ hitch => MayReset(m)
  BY <1>2, <1>10 DEF PendingUnderWay
<1>12. pend > 0 /\ ~ hitch => MayReset(m)'
  BY <1>7, <1>8, <1>10, <1>11 DEF MayReset
<1>13. \A k \in Processors : k # m /\ MayReset(k) => MayReset(k)'
  BY <1>7, <1>8 DEF MayReset
<1>14. ASSUME NEW k \in Processors, pending'[k] > 0, ~ hitch
       PROVE  MayReset(k)' \/ (news'[k] # NoBlock /\ Changing(news'[k], k))
  <2>1. CASE k = m
    BY <1>7, <1>12, <1>14, <2>1
  <2>2. CASE k # m
    BY <1>7, <1>13, <1>14, <2>2 DEF PendingUnderWay
  <2>3. QED
    BY <2>1, <2>2
<1>15. QED
  BY <1>5, <1>14, Zenon DEF PendingUnderWay, Changing

LEMMA DelegateWorkPending ==
    ASSUME Base, PendingUnderWay, NEW d \in Delegates, DelegateWork(d)
    PROVE  PendingUnderWay'
<1>1. Gather(d) /\ CatchUp(d) /\ UNCHANGED << queue, pending, net, todo >>
  BY DEF DelegateWork, Gather
<1>2. hitch' = (hitch \/ (TxsOf(round[d]) # {} /\ Loses(<< >>)))
  BY DEF DelegateWork
<1>3. work \in [Delegates -> Seq(Batches)] /\ round \in [Delegates -> Seq(Batches)] /\ now \in Nat
  BY DEF Base, Types
<1>4. ASSUME TxsOf(round[d]) = {} PROVE UnderWay \subseteq UnderWay'
  <2>1. PICK sorted \in Seq(Batches) :
          /\ round' = [round EXCEPT ![d] = sorted]
          /\ \A b \in ToSet(work[d]) : b \in ToSet(sorted)
    BY <1>1, <1>3, GatherFacts
  <2>2. work' = [work EXCEPT ![d] = << >>]
    BY <1>1 DEF Gather
  <2>3. /\ round'[d] = sorted
        /\ \A e \in Delegates : e # d => round'[e] = round[e] /\ work'[e] = work[e]
    BY <1>3, <2>1, <2>2
  <2>4. \A b \in ToSet(round[d]) : \A t \in ToSet(b.txs) : FALSE
    BY <1>4, TxsOfSet
  <2>5. \A e \in Delegates : \A b \in Held(e) : \A t \in ToSet(b.txs) : \E c \in Held(e)' : t \in ToSet(c.txs)
    <3>1. TAKE e \in Delegates
    <3>2. CASE e = d
      <4>1. \A b \in net[d] \cup ToSet(work[d]) \cup ToSet(todo[d]) : b \in Held(d)'
        BY <1>1, <2>1, <2>3 DEF Held
      <4>2. QED
        BY <2>4, <3>2, <4>1 DEF Held
    <3>3. CASE e # d
      BY <1>1, <2>3, <3>3 DEF Held
    <3>4. QED
      BY <3>2, <3>3
  <2>6. \A m \in Processors : \A t \in ToSet(queue[m]) : t \in UnderWay'
    BY <1>1 DEF UnderWay
  <2>7. QED
    BY <2>5, <2>6, UnderWayStays
<1>5. ~ hitch' => ~ hitch /\ (UnderWay \subseteq UnderWay' \/ ~ Loses(<< >>))
  BY <1>2, <1>4, Zenon
<1>6. \A m \in Processors : news'[m] = news[m] /\ nonces'[m] = nonces[m]
  BY <1>1, CatchUpFacts, PipelineAssumption DEF Nodes
<1>7. QED
  BY <1>1, <1>5, <1>6, KeepsPending

LEMMA DelegateConfirmPending ==
    ASSUME Base, PendingUnderWay, NEW d \in Delegates, DelegateConfirm(d)
    PROVE  PendingUnderWay'
<1>1. CatchUp(d) /\ UNCHANGED << queue, pending, net >>
  BY DEF DelegateConfirm
<1>2. PICK at : at = nonces'[d]
  OBVIOUS
<1>3. PICK funded \in BOOLEAN :
        /\ Accept(d, at, funded)
        /\ hitch' = (hitch \/ (TurnsDown(d, at, funded) /\ Loses(<< >>)))
  BY <1>2, Zenon DEF DelegateConfirm
<1>4. /\ Types /\ work \in [Delegates -> Seq(Batches)] /\ todo \in [Delegates -> Seq(Batches)]
  BY DEF Base, Types
<1>5. PICK taken \in Seq(Batches) :
        /\ \A i \in DOMAIN todo[d] : FirstGood(todo[d], at, funded, i) => \E n \in DOMAIN taken : taken[n] = todo[d][i]
        /\ work' = [work EXCEPT ![d] = taken] /\ todo' = [todo EXCEPT ![d] = << >>]
        /\ phase[d] = "confirm" /\ UNCHANGED round
  BY <1>3, <1>4, AcceptFacts
<1>6. /\ work'[d] = taken
      /\ \A e \in Delegates : e # d => work'[e] = work[e] /\ todo'[e] = todo[e]
  BY <1>4, <1>5
<1>7. ASSUME ~ TurnsDown(d, at, funded) PROVE UnderWay \subseteq UnderWay'
  <2>1. \A i \in DOMAIN todo[d] : FirstGood(todo[d], at, funded, i)
    BY <1>7, Zenon DEF TurnsDown, FirstGood
  <2>2. \A b \in ToSet(todo[d]) : b \in ToSet(work'[d])
    BY <1>5, <1>6, <2>1 DEF ToSet
  <2>3. ToSet(work[d]) = {}
    BY <1>5 DEF Base, WorkOrTodo, ToSet
  <2>4. \A e \in Delegates : \A b \in Held(e) : b \in Held(e)'
    <3>1. TAKE e \in Delegates
    <3>2. CASE e = d
      BY <1>1, <1>5, <2>2, <2>3, <3>2 DEF Held
    <3>3. CASE e # d
      BY <1>1, <1>5, <1>6, <3>3 DEF Held
    <3>4. QED
      BY <3>2, <3>3
  <2>5. \A m \in Processors : \A t \in ToSet(queue[m]) : t \in UnderWay'
    BY <1>1 DEF UnderWay
  <2>6. QED
    BY <2>4, <2>5, UnderWayStays
<1>8. ~ hitch' => ~ hitch /\ (UnderWay \subseteq UnderWay' \/ ~ Loses(<< >>))
  BY <1>3, <1>7, Zenon
<1>9. \A m \in Processors : news'[m] = news[m] /\ nonces'[m] = nonces[m]
  BY <1>1, CatchUpFacts, PipelineAssumption DEF Nodes
<1>10. QED
  BY <1>1, <1>8, <1>9, KeepsPending

\* An account locked out by its pending nonce has a transaction under way that can unlock
\* it, unless one was lost, left out of its block, or changed nothing (storage.py:108-122).
THEOREM LocksCanOpen == Spec => []LockedIsUnderWay
<1>1. Init => PendingUnderWay
  BY DEF Init, PendingUnderWay
<1>2. Base /\ PendingUnderWay /\ [Next]_vars => PendingUnderWay'
  <2>1. SUFFICES ASSUME Base, PendingUnderWay, [Next]_vars PROVE PendingUnderWay'
    OBVIOUS
  <2>2. ASSUME UNCHANGED << work, todo, round, queue, pending, nonces, net, news, hitch >> PROVE PendingUnderWay'
    <3>1. UnderWay' = UnderWay
      BY <2>2 DEF UnderWay, TxsOf
    <3>2. \A m \in Processors : MayReset(m)' <=> MayReset(m)
      BY <2>2, <3>1 DEF MayReset
    <3>3. QED
      BY <2>1, <2>2, <3>2 DEF PendingUnderWay, Changing
  <2>3. ASSUME NEW m \in Processors, Submit(m) PROVE PendingUnderWay'
    BY <2>1, <2>3, SubmitPending
  <2>4. ASSUME NEW m \in Processors, SendWork(m) PROVE PendingUnderWay'
    BY <2>1, <2>4, SendWorkPending
  <2>5. ASSUME NEW m \in Processors, Commit(m) PROVE PendingUnderWay'
    BY <2>1, <2>5, CommitPending
  <2>6. ASSUME NEW m \in Masters \ Processors, NEW d \in Delegates, ReceiveOther(m, d) PROVE PendingUnderWay'
    BY <2>1, <2>6, ReceiveOtherPending
  <2>7. ASSUME NEW d \in Delegates, NEW batch \in net[d], Deliver(d, batch) PROVE PendingUnderWay'
    BY <2>1, <2>7, DeliverPending
  <2>8. CASE Build
    BY <2>1, <2>8, BuildPending
  <2>9. ASSUME NEW d \in Delegates, DelegateWork(d) PROVE PendingUnderWay'
    BY <2>1, <2>9, DelegateWorkPending
  <2>10. ASSUME NEW d \in Delegates, DelegateConfirm(d) PROVE PendingUnderWay'
    BY <2>1, <2>10, DelegateConfirmPending
  <2>11. CASE Tick /\ UNCHANGED << masterVars, history >>
    BY <2>2, <2>11 DEF Tick, inboxVars, masterVars, history
  <2>12. CASE UNCHANGED vars
    BY <2>2, <2>12 DEF vars, inboxVars, masterVars, history
  <2>13. QED
    BY <2>1, <2>3, <2>4, <2>5, <2>6, <2>7, <2>8, <2>9, <2>10, <2>11, <2>12, Zenon DEF Next
<1>3. Base /\ PendingUnderWay => LockedIsUnderWay
  <2>1. SUFFICES ASSUME Base, PendingUnderWay, NEW m \in Processors, Locked(m), ~ hitch
                 PROVE  \/ \E tx \in UnderWay : tx.processor = m /\ tx.nonce >= nonces[m][m]
                        \/ news[m] # NoBlock /\ \E tx \in ToSet(news[m]) : tx.processor = m /\ tx.changes
    BY Zenon DEF LockedIsUnderWay
  <2>2. pending[m] > 0
    <3>1. pending[m] \in Nat /\ nonces[m][m] \in Nat
      BY <2>1 DEF Base, Types, Nodes
    <3>2. QED
      BY <2>1, <3>1, NoncesAssumption DEF Locked
  <2>3. QED
    BY <2>1, <2>2, Zenon DEF PendingUnderWay, MayReset, Changing
<1>4. QED
  BY <1>1, <1>2, <1>3, BaseInvariant, PTL DEF Spec

----------------------------------------------------------------------------
(* A round is the same on every delegate that has its batches. *)

\* A round has one batch of each masternode, by their stamps.
Complete(batches) ==
    /\ Len(batches) = Cardinality(Masters)
    /\ {batches[i].sender : i \in DOMAIN batches} = Masters
    /\ \A i, j \in DOMAIN batches : i < j => batches[i].stamp <= batches[j].stamp

RoundsComplete == \A d \in Delegates : round[d] # << >> => Complete(round[d])

\* The batches that are not later than b.
NotLater(s, b) == {c \in ToSet(s) : c.stamp <= b.stamp}

\* In a sequence with rising stamps, a batch's place is the number of those not later.
LEMMA PlaceByStamp ==
    ASSUME NEW s \in Seq(Batches), NEW n \in DOMAIN s,
           \A i, j \in DOMAIN s : i < j => s[i].stamp < s[j].stamp
    PROVE  Cardinality(NotLater(s, s[n])) = n
<1>1. PICK N \in Nat : N = Len(s)
  OBVIOUS
<1>2. DOMAIN s = 1 .. N /\ n \in 1 .. N
  BY <1>1
<1>3. \A i \in 1 .. N : s[i].stamp \in Nat
  BY <1>2, BatchFields
<1>4. \A i \in 1 .. N : s[i].stamp <= s[n].stamp <=> i <= n
  <2>1. TAKE i \in 1 .. N
  <2>2. s[i].stamp \in Nat /\ s[n].stamp \in Nat /\ i \in Nat /\ n \in Nat
    BY <1>2, <1>3
  <2>3. /\ i < n => s[i].stamp < s[n].stamp
        /\ n < i => s[n].stamp < s[i].stamp
    BY <1>2
  <2>4. i = n => s[i].stamp = s[n].stamp
    OBVIOUS
  <2>5. QED
    BY <2>2, <2>3, <2>4
<1>5. PICK part : part = NotLater(s, s[n])
  OBVIOUS
<1>6. \A c : c \in part <=> \E i \in 1 .. n : c = s[i]
  <2>1. \A c : c \in ToSet(s) <=> \E i \in 1 .. N : c = s[i]
    BY <1>2 DEF ToSet
  <2>2. \A c : c \in part <=> \E i \in 1 .. N : c = s[i] /\ s[i].stamp <= s[n].stamp
    BY <1>5, <2>1, Zenon DEF NotLater
  <2>3. \A i : i \in 1 .. n <=> i \in 1 .. N /\ i <= n
    BY <1>2
  <2>4. QED
    BY <1>4, <2>2, <2>3
<1>7. PICK f : f = [i \in 1 .. n |-> s[i]]
  OBVIOUS
<1>8. f \in [1 .. n -> part] /\ \A i \in 1 .. n : f[i] = s[i]
  BY <1>6, <1>7
<1>9. \A c \in part : \E i \in 1 .. n : f[i] = c
  BY <1>6, <1>8
<1>10. \A i, j \in 1 .. n : f[i] = f[j] => i = j
  <2>1. SUFFICES ASSUME NEW i \in 1 .. n, NEW j \in 1 .. n, i < j PROVE s[i] # s[j]
    BY <1>8
  <2>2. i \in 1 .. N /\ j \in 1 .. N
    BY <1>2
  <2>3. s[i].stamp < s[j].stamp /\ s[i].stamp \in Nat
    BY <1>2, <1>3, <2>1, <2>2
  <2>4. s[i].stamp # s[j].stamp
    <3>1. s[j].stamp \in Nat
      BY <1>3, <2>2
    <3>2. QED
      BY <2>3, <3>1
  <2>5. QED
    BY <2>4
<1>11. f \in Injection(1 .. n, part) /\ f \in Surjection(1 .. n, part)
  BY <1>8, <1>9, <1>10, Fun_IsInj, Fun_IsSurj
<1>12. PICK k \in Nat : k = n
  BY <1>2
<1>13. IsFiniteSet(1 .. k) /\ Cardinality(1 .. k) = k
  BY NumbersUpTo
<1>14. Cardinality(part) = n
  BY <1>11, <1>12, <1>13, FS_Surjection
<1>15. QED
  BY <1>5, <1>14

\* So two such sequences of the same batches are the same.
LEMMA RisingUnique ==
    ASSUME NEW s \in Seq(Batches), NEW u \in Seq(Batches), ToSet(s) = ToSet(u), Len(s) = Len(u),
           \A i, j \in DOMAIN s : i < j => s[i].stamp < s[j].stamp,
           \A i, j \in DOMAIN u : i < j => u[i].stamp < u[j].stamp
    PROVE  s = u
<1>1. PICK N \in Nat : N = Len(s)
  OBVIOUS
<1>2. DOMAIN s = 1 .. N /\ DOMAIN u = 1 .. N
  BY <1>1
<1>3. ASSUME NEW n \in 1 .. N PROVE s[n] = u[n]
  <2>1. s[n] \in ToSet(u)
    BY <1>2 DEF ToSet
  <2>2. PICK k \in 1 .. N : s[n] = u[k]
    BY <1>2, <2>1 DEF ToSet
  <2>3. Cardinality(NotLater(s, s[n])) = n
    BY <1>2, PlaceByStamp
  <2>4. Cardinality(NotLater(u, u[k])) = k
    BY <1>2, PlaceByStamp
  <2>5. NotLater(s, s[n]) = NotLater(u, u[k])
    BY <2>2 DEF NotLater
  <2>6. QED
    BY <2>2, <2>3, <2>4, <2>5
<1>4. s = [i \in 1 .. N |-> s[i]] /\ u = [i \in 1 .. N |-> u[i]]
  BY <1>2
<1>5. QED
  BY <1>3, <1>4

\* The order of the batches when all stamps differ does not depend on how they came.
LEMMA SameSorted ==
    ASSUME NEW r \in Seq(Batches), NEW other \in SetToSeqs(ToSet(r)),
           \A i, j \in DOMAIN r : i < j => r[i].stamp <= r[j].stamp,
           \A i, j \in DOMAIN r : i # j => r[i].stamp # r[j].stamp
    PROVE  FilterWork(other) = r
<1>1. PICK N \in Nat : N = Len(r)
  OBVIOUS
<1>2. DOMAIN r = 1 .. N
  BY <1>1
<1>3. \A i \in 1 .. N : r[i].stamp \in Nat
  BY <1>2, BatchFields
<1>4. \A i, j \in DOMAIN r : i < j => r[i].stamp < r[j].stamp
  <2>1. TAKE i, j \in DOMAIN r
  <2>2. HAVE i < j
  <2>3. r[i].stamp <= r[j].stamp /\ r[i].stamp # r[j].stamp
    BY <1>2, <2>2
  <2>4. r[i].stamp \in Nat /\ r[j].stamp \in Nat
    BY <1>2, <1>3
  <2>5. QED
    BY <2>3, <2>4
<1>5. IsFiniteSet(ToSet(r)) /\ ToSet(r) \subseteq Batches
  BY ToSetFinite
<1>6. other \in Seq(ToSet(r)) /\ Len(other) = Cardinality(ToSet(r)) /\ ToSet(other) = ToSet(r) /\ IsInjective(other)
  BY <1>5, SeqOfSet
<1>7. other \in Seq(Batches)
  BY <1>5, <1>6, SeqMonotonic
<1>8. Cardinality(ToSet(r)) = N
  <2>1. r \in [1 .. N -> ToSet(r)] /\ \A x \in ToSet(r) : \E i \in 1 .. N : r[i] = x
    <3>1. \A x : x \in ToSet(r) <=> \E i \in 1 .. N : x = r[i]
      BY <1>2 DEF ToSet
    <3>2. r = [i \in 1 .. N |-> r[i]]
      BY <1>2
    <3>3. QED
      BY <3>1, <3>2
  <2>2. \A i, j \in 1 .. N : r[i] = r[j] => i = j
    BY <1>2
  <2>3. r \in Injection(1 .. N, ToSet(r)) /\ r \in Surjection(1 .. N, ToSet(r))
    BY <2>1, <2>2, Fun_IsInj, Fun_IsSurj
  <2>4. IsFiniteSet(1 .. N) /\ Cardinality(1 .. N) = N
    BY NumbersUpTo
  <2>5. QED
    BY <2>3, <2>4, FS_Surjection
<1>9. PICK sorted : sorted = FilterWork(other)
  OBVIOUS
<1>10. /\ sorted \in Seq(Batches) /\ Len(sorted) = Len(other)
       /\ \A n, m \in DOMAIN sorted : n < m => sorted[n].stamp <= sorted[m].stamp
  BY <1>7, <1>9, SortedFacts
<1>11. \A n \in DOMAIN sorted : \E i \in DOMAIN other :
         sorted[n] = other[i] /\ Cardinality(Before(other, i)) = n - 1
  BY <1>7, <1>9, SortedFacts
<1>12. \A b : b \in ToSet(sorted) <=> b \in ToSet(other)
  BY <1>7, <1>9, SortedSet
<1>13. ToSet(sorted) = ToSet(r) /\ Len(sorted) = Len(r)
  BY <1>1, <1>6, <1>8, <1>10, <1>12
<1>14. DOMAIN sorted = 1 .. N
  BY <1>1, <1>10, <1>13
<1>15. ASSUME NEW n \in DOMAIN sorted, NEW m \in DOMAIN sorted, n < m PROVE sorted[n].stamp < sorted[m].stamp
  <2>1. PICK i \in DOMAIN other : sorted[n] = other[i] /\ Cardinality(Before(other, i)) = n - 1
    BY <1>11
  <2>2. PICK j \in DOMAIN other : sorted[m] = other[j] /\ Cardinality(Before(other, j)) = m - 1
    BY <1>11
  <2>3. n \in Nat /\ m \in Nat
    BY <1>14
  <2>4. i # j
    BY <1>15, <2>1, <2>2, <2>3
  <2>5. other[i] # other[j]
    BY <1>6, <2>4 DEF IsInjective
  <2>6. other[i] \in ToSet(r) /\ other[j] \in ToSet(r)
    BY <1>6 DEF ToSet
  <2>7. PICK a \in 1 .. N : other[i] = r[a]
    BY <1>2, <2>6 DEF ToSet
  <2>8. PICK b \in 1 .. N : other[j] = r[b]
    BY <1>2, <2>6 DEF ToSet
  <2>9. r[a].stamp # r[b].stamp /\ r[a].stamp \in Nat /\ r[b].stamp \in Nat
    BY <1>2, <1>3, <2>5, <2>7, <2>8
  <2>10. sorted[n].stamp <= sorted[m].stamp
    BY <1>10, <1>15
  <2>11. QED
    BY <2>1, <2>2, <2>7, <2>8, <2>9, <2>10
<1>16. sorted = r
  BY <1>4, <1>10, <1>13, <1>15, RisingUnique
<1>17. QED
  BY <1>9, <1>16

\* Work has a batch of as many masternodes as it has batches; pad_work adds the others'.
LEMMA PaddedLength ==
    ASSUME NEW batches \in Seq(Batches),
           \A i, j \in DOMAIN batches : i # j => batches[i].sender # batches[j].sender
    PROVE  Len(batches) + Cardinality(Missing(batches)) = Cardinality(Masters)
<1>1. PICK n \in Nat : n = Len(batches)
  OBVIOUS
<1>2. DOMAIN batches = 1 .. n
  BY <1>1
<1>3. PICK senders : senders = {batches[i].sender : i \in 1 .. n}
  OBVIOUS
<1>4. senders \in SUBSET Masters
  BY <1>2, <1>3, BatchFields
<1>5. PICK f : f = [i \in 1 .. n |-> batches[i].sender]
  OBVIOUS
<1>6. /\ f \in [1 .. n -> senders] /\ \A x \in senders : \E i \in 1 .. n : f[i] = x
      /\ \A i, j \in 1 .. n : f[i] = f[j] => i = j
  BY <1>2, <1>3, <1>5
<1>7. f \in Injection(1 .. n, senders) /\ f \in Surjection(1 .. n, senders)
  BY <1>6, Fun_IsInj, Fun_IsSurj
<1>8. IsFiniteSet(1 .. n) /\ Cardinality(1 .. n) = n
  BY NumbersUpTo
<1>9. Cardinality(senders) = n
  BY <1>7, <1>8, FS_Surjection
<1>10. Missing(batches) = Masters \ senders
  BY <1>2, <1>3 DEF Missing
<1>11. IsFiniteSet(Masters)
  BY WorkInboxAssumption
<1>12. Cardinality(Masters \ senders) = Cardinality(Masters) - Cardinality(Masters \cap senders)
  BY <1>11, FS_Difference
<1>13. Masters \cap senders = senders
  BY <1>4
<1>14. Cardinality(Masters) \in Nat
  BY <1>11, FS_CardinalityType
<1>15. Cardinality(Missing(batches)) = Cardinality(Masters) - n
  BY <1>9, <1>10, <1>12, <1>13
<1>16. QED
  BY <1>1, <1>14, <1>15

LEMMA DelegateWorkRound ==
    ASSUME Base, RoundsComplete, NEW d \in Delegates, DelegateWork(d)
    PROVE  RoundsComplete'
<1>1. /\ work \in [Delegates -> Seq(Batches)] /\ round \in [Delegates -> Seq(Batches)]
      /\ now \in Nat /\ Gather(d)
  BY DEF Base, Types, DelegateWork
<1>2. PICK batches \in Seq(Batches) : batches = work[d]
  BY <1>1
<1>3. PICK shims \in Seq(Batches), padded \in Seq(Batches), sorted \in Seq(Batches) :
        /\ Len(shims) = Cardinality(Missing(batches))
        /\ \A m \in Missing(batches) : \E i \in DOMAIN shims : shims[i] = Shim(m)
        /\ padded = batches \o shims /\ sorted = FilterWork(padded)
        /\ round' = [round EXCEPT ![d] = sorted]
        /\ \A b : b \in ToSet(sorted) <=> b \in ToSet(batches) \/ b \in ToSet(shims)
  BY <1>1, <1>2, GatherFacts
<1>4. /\ Len(sorted) = Len(padded)
      /\ \A n, m \in DOMAIN sorted : n < m => sorted[n].stamp <= sorted[m].stamp
  <2>1. sorted = FilterWork(padded)
    BY <1>3
  <2>2. QED
    BY <2>1, SortedFacts
<1>5. Len(padded) = Len(batches) + Len(shims)
  <2>1. padded = batches \o shims
    BY <1>3
  <2>2. QED
    BY <2>1, ConcatProperties
<1>6. Len(batches) + Cardinality(Missing(batches)) = Cardinality(Masters)
  <2>1. \A i, j \in DOMAIN batches : i # j => batches[i].sender # batches[j].sender
    BY <1>2 DEF Base, WorkOrTodo
  <2>2. QED
    BY <2>1, PaddedLength
<1>7. Len(sorted) = Cardinality(Masters)
  BY <1>3, <1>4, <1>5, <1>6
<1>8. \A i \in DOMAIN sorted : sorted[i].sender \in Masters
  BY BatchFields
<1>9. ASSUME NEW m \in Masters PROVE \E i \in DOMAIN sorted : sorted[i].sender = m
  <2>1. \E b \in ToSet(sorted) : b.sender = m
    <3>1. CASE m \in Missing(batches)
      <4>1. PICK i \in DOMAIN shims : shims[i] = Shim(m)
        BY <1>3, <3>1
      <4>2. shims[i].sender = m
        BY <4>1 DEF Shim
      <4>3. shims[i] \in ToSet(shims)
        BY DEF ToSet
      <4>4. QED
        BY <1>3, <4>2, <4>3
    <3>2. CASE m \notin Missing(batches)
      <4>1. PICK i \in DOMAIN batches : batches[i].sender = m
        BY <3>2 DEF Missing
      <4>2. batches[i] \in ToSet(batches)
        BY DEF ToSet
      <4>3. QED
        BY <1>3, <4>1, <4>2
    <3>3. QED
      BY <3>1, <3>2
  <2>2. QED
    BY <2>1 DEF ToSet
<1>10. {sorted[i].sender : i \in DOMAIN sorted} = Masters
  BY <1>8, <1>9
<1>11. Complete(sorted)
  BY <1>4, <1>7, <1>10 DEF Complete
<1>12. \A e \in Delegates : round'[e] = sorted \/ round'[e] = round[e]
  BY <1>1, <1>3
<1>13. QED
  BY <1>11, <1>12 DEF RoundsComplete

\* A round has one batch of each masternode, and when their stamps differ a delegate that
\* has the same batches numbers the sub-blocks alike (work.py:23-41).
THEOREM RoundsAlike == Spec => []SameRoundElsewhere
<1>1. Init => RoundsComplete
  BY DEF Init, InboxInit, RoundsComplete
<1>2. Base /\ RoundsComplete /\ [Next]_vars => RoundsComplete'
  <2>1. SUFFICES ASSUME Base, RoundsComplete, [Next]_vars PROVE RoundsComplete'
    OBVIOUS
  <2>2. ASSUME UNCHANGED round PROVE RoundsComplete'
    BY <2>1, <2>2 DEF RoundsComplete
  <2>3. ASSUME NEW d \in Delegates, DelegateWork(d) PROVE RoundsComplete'
    BY <2>1, <2>3, DelegateWorkRound
  <2>4. CASE Build
    <3>1. \A d \in Delegates : round'[d] = << >> \/ round'[d] = round[d]
      BY <2>1, <2>4, BuildFacts
    <3>2. QED
      BY <2>1, <3>1 DEF RoundsComplete
  <2>5. ASSUME NEW d \in Delegates, DelegateConfirm(d) PROVE RoundsComplete'
    BY <2>2, <2>5 DEF DelegateConfirm, Accept
  <2>6. ASSUME NEW d \in Delegates, NEW batch \in net[d], Deliver(d, batch) PROVE RoundsComplete'
    BY <2>2, <2>6 DEF Deliver, ReceiveWork
  <2>7. CASE Tick
    BY <2>2, <2>7 DEF Tick, inboxVars
  <2>8. ASSUME NEW m \in Processors, Submit(m) \/ SendWork(m) \/ Commit(m) PROVE RoundsComplete'
    BY <2>2, <2>8 DEF Submit, SendWork, Commit, inboxVars
  <2>9. ASSUME NEW m \in Masters \ Processors, NEW d \in Delegates, ReceiveOther(m, d) PROVE RoundsComplete'
    BY <2>2, <2>9 DEF ReceiveOther, ReceiveWork
  <2>10. CASE UNCHANGED vars
    BY <2>2, <2>10 DEF vars, inboxVars
  <2>11. QED
    BY <2>1, <2>3, <2>4, <2>5, <2>6, <2>7, <2>8, <2>9, <2>10, Zenon DEF Next
<1>3. Base /\ RoundsComplete => SameRoundElsewhere
  <2>1. SUFFICES ASSUME Base, RoundsComplete, NEW d \in Delegates, round[d] # << >>
                 PROVE  /\ Len(round[d]) = Cardinality(Masters)
                        /\ {round[d][i].sender : i \in DOMAIN round[d]} = Masters
                        /\ (\A i, j \in DOMAIN round[d] : i # j => round[d][i].stamp # round[d][j].stamp) =>
                             \A other \in SetToSeqs(ToSet(round[d])) : FilterWork(other) = round[d]
    BY Zenon DEF SameRoundElsewhere
  <2>2. PICK r \in Seq(Batches) : r = round[d]
    BY <2>1 DEF Base, Types
  <2>3. /\ Len(r) = Cardinality(Masters) /\ {r[i].sender : i \in DOMAIN r} = Masters
        /\ \A i, j \in DOMAIN r : i < j => r[i].stamp <= r[j].stamp
    BY <2>1, <2>2 DEF RoundsComplete, Complete
  <2>4. ASSUME \A i, j \in DOMAIN r : i # j => r[i].stamp # r[j].stamp, NEW other \in SetToSeqs(ToSet(r))
        PROVE  FilterWork(other) = r
    BY <2>3, <2>4, SameSorted
  <2>5. QED
    BY <2>2, <2>3, <2>4, Zenon
<1>4. QED
  BY <1>1, <1>2, <1>3, BaseInvariant, PTL DEF Spec

----------------------------------------------------------------------------
(* A nonce goes back only with results of a round that does not know of every block. *)

\* What is taken at places comes in their order.
LEMMA NthRises ==
    ASSUME NEW K \in Nat, NEW I, I \subseteq 1 .. K,
           NEW n \in 1 .. Cardinality(I), NEW m \in 1 .. Cardinality(I), n < m
    PROVE  Nth(I, n) < Nth(I, m)
<1>1. PICK a \in I, b \in I : a = Nth(I, n) /\ b = Nth(I, m)
  BY NthOfInterval
<1>2. Cardinality(FirstOf(I, a)) = n /\ Cardinality(FirstOf(I, b)) = m
  BY <1>1, NthOfInterval
<1>3. a \in Nat /\ b \in Nat /\ \A j \in I : j \in Nat
  BY <1>1
<1>4. IsFiniteSet(I) /\ Cardinality(I) \in Nat
  BY NumbersUpTo, FS_Subset, FS_CardinalityType
<1>5. n \in Nat /\ m \in Nat
  BY <1>4
<1>6. ASSUME b <= a PROVE FALSE
  <2>0. ASSUME NEW x \in I, x <= b PROVE x <= a
    BY <1>3, <1>6, <2>0
  <2>1. FirstOf(I, b) \subseteq FirstOf(I, a) /\ FirstOf(I, a) \subseteq I
    BY <2>0, Zenon DEF FirstOf
  <2>2. m <= n
    BY <1>2, <1>4, <2>1, FS_Subset
  <2>3. QED
    BY <1>5, <2>2
<1>7. QED
  BY <1>1, <1>3, <1>6

\* The last transaction at processor m that changed the state.
IsLast(block, m, last) ==
    /\ last \in DOMAIN block /\ block[last].processor = m /\ block[last].changes
    /\ \A j \in DOMAIN block : block[j].processor = m /\ block[j].changes => j <= last

\* It gives the nonce.
LEMMA LastGives ==
    ASSUME NEW block \in Seq(Tx), NEW m, NEW nonce, NEW last, IsLast(block, m, last)
    PROVE  CommittedNonce(AtProcessor(m, block), nonce) = block[last].nonce + 1
<1>0. /\ last \in DOMAIN block /\ block[last].processor = m /\ block[last].changes
      /\ \A j \in DOMAIN block : block[j].processor = m /\ block[j].changes => j <= last
  BY DEF IsLast
<1>1. PICK places : places = {i \in DOMAIN block : block[i].processor = m}
  OBVIOUS
<1>2. PICK K \in Nat : K = Len(block)
  OBVIOUS
<1>3. DOMAIN block = 1 .. K /\ places \subseteq 1 .. K /\ places \subseteq DOMAIN block
  BY <1>1, <1>2
<1>4. PICK mine : mine = AtProcessor(m, block)
  OBVIOUS
<1>5. mine = AtPlaces(block, places)
  BY <1>1, <1>4 DEF AtProcessor
<1>6. /\ mine \in Seq(Tx) /\ Len(mine) = Cardinality(places) /\ Cardinality(places) \in Nat
      /\ \A n \in DOMAIN mine : Nth(places, n) \in places /\ mine[n] = block[Nth(places, n)]
  <2>1. places \subseteq DOMAIN block
    BY <1>3
  <2>2. QED
    BY <1>5, <2>1, ElementsAtPlaces
<1>7. DOMAIN mine = 1 .. Cardinality(places)
  BY <1>6
<1>8. last \in places
  BY <1>0, <1>1
<1>9. PICK at \in 1 .. Cardinality(places) : Nth(places, at) = last
  BY <1>3, <1>8, NthCovers
<1>10. mine[at] = block[last] /\ at \in DOMAIN mine
  BY <1>6, <1>7, <1>9
<1>11. ASSUME NEW n \in DOMAIN mine, mine[n].changes PROVE n <= at
  <2>1. Nth(places, n) \in places /\ mine[n] = block[Nth(places, n)]
    BY <1>6
  <2>2. Nth(places, n) <= last
    BY <1>0, <1>1, <1>11, <2>1
  <2>3. ~ at < n
    <3>1. SUFFICES ASSUME at < n PROVE FALSE
      OBVIOUS
    <3>2. last < Nth(places, n)
      BY <1>3, <1>7, <1>9, <3>1, NthRises
    <3>3. last \in Nat /\ Nth(places, n) \in Nat
      <4>1. \A p \in places : p \in Nat
        BY <1>3
      <4>2. QED
        BY <1>8, <2>1, <4>1
    <3>4. QED
      BY <2>2, <3>2, <3>3
  <2>4. n \in Nat /\ at \in Nat
    BY <1>6, <1>7
  <2>5. QED
    BY <2>3, <2>4
<1>12. PICK touching : touching = {i \in DOMAIN mine : mine[i].changes}
  OBVIOUS
<1>13. at \in touching /\ \A j \in touching : j <= at
  BY <1>0, <1>10, <1>11, <1>12
<1>14. PICK end : end = CHOOSE i \in touching : \A j \in touching : j <= i
  OBVIOUS
<1>15. end \in touching /\ \A j \in touching : j <= end
  BY <1>13, <1>14, Zenon
<1>16. end = at
  <2>1. end <= at /\ at <= end
    BY <1>13, <1>15
  <2>2. end \in Nat /\ at \in Nat
    BY <1>6, <1>7, <1>12, <1>15
  <2>3. QED
    BY <2>1, <2>2
<1>17. touching # {}
  BY <1>13
<1>18. CommittedNonce(mine, nonce) = mine[end].nonce + 1
  BY <1>12, <1>14, <1>17, Zenon DEF CommittedNonce
<1>19. QED
  BY <1>4, <1>10, <1>16, <1>18

\* If there is one that changed the state, there is a last one.
LEMMA LastChange ==
    ASSUME NEW block \in Seq(Tx), NEW m, Changing(block, m)
    PROVE  \E last \in DOMAIN block : IsLast(block, m, last)
<1>1. PICK changed : changed = {i \in DOMAIN block : block[i].processor = m /\ block[i].changes}
  OBVIOUS
<1>2. PICK K \in Nat : K = Len(block)
  OBVIOUS
<1>3. changed \subseteq 1 .. K
  BY <1>1, <1>2
<1>4. changed # {}
  BY <1>1 DEF Changing, ToSet
<1>5. PICK last \in changed : \A j \in changed : j <= last
  BY <1>3, <1>4, GreatestNatural
<1>6. QED
  BY <1>1, <1>5 DEF IsLast

\* The nonces of a node that has processed the block.
After(nonce, block) == [m \in Processors |-> CommittedNonce(AtProcessor(m, block), nonce[m])]

\* Two blocks processed as one are as one after the other.
LEMMA AfterBoth ==
    ASSUME NEW a \in Seq(Tx), NEW b \in Seq(Tx), NEW nonce
    PROVE  After(nonce, a \o b) = After(After(nonce, a), b)
<1>1. PICK both \in Seq(Tx) : both = a \o b
  BY ConcatProperties
<1>2. PICK K \in Nat, L \in Nat : K = Len(a) /\ L = Len(b)
  OBVIOUS
<1>3. /\ DOMAIN a = 1 .. K /\ DOMAIN b = 1 .. L /\ DOMAIN both = 1 .. K + L
      /\ \A i \in 1 .. K : both[i] = a[i]
      /\ \A i \in 1 .. L : both[K + i] = b[i]
  BY <1>1, <1>2
<1>4. \A i \in 1 .. K + L : i \in 1 .. K \/ \E j \in 1 .. L : i = K + j
  <2>1. TAKE i \in 1 .. K + L
  <2>2. CASE i <= K
    BY <2>2
  <2>3. CASE i > K
    <3>1. i - K \in 1 .. L /\ i = K + (i - K)
      BY <2>3
    <3>2. QED
      BY <3>1
  <2>4. QED
    BY <2>2, <2>3
<1>5. ASSUME NEW m \in Processors
      PROVE  CommittedNonce(AtProcessor(m, both), nonce[m])
               = CommittedNonce(AtProcessor(m, b), CommittedNonce(AtProcessor(m, a), nonce[m]))
  <2>1. PICK first : first = CommittedNonce(AtProcessor(m, a), nonce[m])
    OBVIOUS
  <2>2. CASE Changing(b, m)
    <3>1. PICK last \in DOMAIN b : IsLast(b, m, last)
      BY <2>2, LastChange
    <3>2. CommittedNonce(AtProcessor(m, b), first) = b[last].nonce + 1
      BY <3>1, LastGives
    <3>3. PICK place \in 1 .. K + L : place = K + last /\ both[place] = b[last] /\ last \in 1 .. L
      <4>1. last \in 1 .. L
        BY <1>3
      <4>2. K + last \in 1 .. K + L
        BY <1>2, <4>1
      <4>3. QED
        BY <1>3, <4>1, <4>2
    <3>4. ASSUME NEW j \in 1 .. K + L, both[j].processor = m, both[j].changes PROVE j <= place
      <4>1. CASE j \in 1 .. K
        BY <1>2, <3>3, <4>1
      <4>2. ASSUME NEW i \in 1 .. L, j = K + i PROVE j <= place
        <5>1. i <= last
          BY <1>3, <3>1, <3>4, <4>2 DEF IsLast
        <5>2. last \in 1 .. L /\ place = K + last
          BY <3>3
        <5>3. last \in Nat /\ i \in Nat
          BY <1>2, <4>2, <5>2
        <5>4. QED
          BY <1>2, <4>2, <5>1, <5>2, <5>3
      <4>3. QED
        BY <1>4, <4>1, <4>2
    <3>5. IsLast(both, m, place)
      BY <1>3, <3>1, <3>3, <3>4 DEF IsLast
    <3>6. CommittedNonce(AtProcessor(m, both), nonce[m]) = both[place].nonce + 1
      BY <3>5, LastGives
    <3>7. QED
      BY <2>1, <3>2, <3>3, <3>6
  <2>3. CASE ~ Changing(b, m) /\ Changing(a, m)
    <3>1. PICK last \in DOMAIN a : IsLast(a, m, last)
      BY <2>3, LastChange
    <3>2. first = a[last].nonce + 1
      BY <2>1, <3>1, LastGives
    <3>3. CommittedNonce(AtProcessor(m, b), first) = first
      BY <2>3, NonceEffect
    <3>4. last \in 1 .. K + L /\ both[last] = a[last]
      BY <1>3
    <3>5. ASSUME NEW j \in 1 .. K + L, both[j].processor = m, both[j].changes PROVE j <= last
      <4>1. CASE j \in 1 .. K
        BY <1>3, <3>1, <3>5, <4>1 DEF IsLast
      <4>2. ASSUME NEW i \in 1 .. L, j = K + i PROVE FALSE
        BY <1>3, <2>3, <3>5, <4>2 DEF Changing, ToSet
      <4>3. QED
        BY <1>4, <4>1, <4>2
    <3>6. IsLast(both, m, last)
      BY <1>3, <3>1, <3>4, <3>5 DEF IsLast
    <3>7. CommittedNonce(AtProcessor(m, both), nonce[m]) = both[last].nonce + 1
      BY <3>6, LastGives
    <3>8. QED
      BY <2>1, <3>2, <3>3, <3>4, <3>7
  <2>4. CASE ~ Changing(b, m) /\ ~ Changing(a, m)
    <3>1. ~ Changing(both, m)
      <4>1. SUFFICES ASSUME NEW i \in 1 .. K + L, both[i].processor = m, both[i].changes PROVE FALSE
        BY <1>3 DEF Changing, ToSet
      <4>2. CASE i \in 1 .. K
        BY <1>3, <2>4, <4>1, <4>2 DEF Changing, ToSet
      <4>3. ASSUME NEW j \in 1 .. L, i = K + j PROVE FALSE
        BY <1>3, <2>4, <4>1, <4>3 DEF Changing, ToSet
      <4>4. QED
        BY <1>4, <4>2, <4>3
    <3>2. first = nonce[m] /\ CommittedNonce(AtProcessor(m, b), first) = first
      BY <2>1, <2>4, NonceEffect
    <3>3. QED
      BY <2>1, <3>1, <3>2, NonceEffect
  <2>5. QED
    BY <2>2, <2>3, <2>4
<1>6. \A m \in Processors : After(nonce, a)[m] = CommittedNonce(AtProcessor(m, a), nonce[m])
  BY DEF After
<1>7. QED
  BY <1>1, <1>5, <1>6 DEF After

\* The nonces a node will have when it has processed the block that has come.
Ahead(n) == IF news[n] = NoBlock THEN nonces[n] ELSE After(nonces[n], news[n])

\* What the transactions have as nonces is not behind.
NotBehind(txs, nonce) == \A t \in txs : t.nonce >= nonce[t.processor]

\* The blocks that have come, or will, leave all nodes with the same nonces.
SameAhead == \A n, k \in Nodes : Ahead(n) = Ahead(k)

\* Work is not behind the delegate's nonces.
WorkNotBehind == \A d \in Delegates : NotBehind(TxsOf(work[d]), nonces[d])

\* Rounds that know of every block are not behind.
RoundsNotBehind == \A d \in current, n \in Nodes : NotBehind(TxsOf(round[d]), Ahead(n))

\* A block that is not outdated moves no nonce back.
AheadForward == \A n \in Nodes \ outdated, m \in Processors : Ahead(n)[m] >= nonces[n][m]

NothingBehind == SameAhead /\ WorkNotBehind /\ RoundsNotBehind /\ AheadForward

\* No node's nonces go back, but for those whose news is outdated.
Forward == \A n \in Nodes, m \in Processors : nonces'[n][m] < nonces[n][m] => n \in outdated

\* A block whose transactions are not behind moves no nonce back.
LEMMA AfterForward ==
    ASSUME NEW block \in Seq(Tx), NEW nonce \in [Processors -> Nat], NotBehind(ToSet(block), nonce)
    PROVE  \A m \in Processors : After(nonce, block)[m] >= nonce[m]
<1>1. TAKE m \in Processors
<1>2. PICK c : c = CommittedNonce(AtProcessor(m, block), nonce[m])
  OBVIOUS
<1>3. After(nonce, block)[m] = c
  BY <1>2 DEF After
<1>4. nonce[m] \in Nat
  OBVIOUS
<1>5. c = nonce[m] \/ \E t \in ToSet(block) : t.processor = m /\ c = t.nonce + 1
  BY <1>2, NonceEffect
<1>6. ASSUME NEW t \in ToSet(block), t.processor = m, c = t.nonce + 1 PROVE c >= nonce[m]
  <2>1. t \in Tx
    BY ToSetFinite
  <2>2. t.nonce \in Nat /\ t.nonce >= nonce[m]
    BY <1>6, <2>1 DEF Tx, NotBehind
  <2>3. QED
    BY <1>4, <1>6, <2>2
<1>7. QED
  BY <1>3, <1>4, <1>5, <1>6

LEMMA AfterTyped ==
    ASSUME NEW block \in Seq(Tx), NEW nonce \in [Processors -> Nat]
    PROVE  After(nonce, block) \in [Processors -> Nat]
<1>1. ASSUME NEW m \in Processors PROVE CommittedNonce(AtProcessor(m, block), nonce[m]) \in Nat
  <2>1. PICK c : c = CommittedNonce(AtProcessor(m, block), nonce[m])
    OBVIOUS
  <2>2. c = nonce[m] \/ \E t \in ToSet(block) : c = t.nonce + 1
    BY <2>1, NonceEffect
  <2>3. \A t \in ToSet(block) : t.nonce \in Nat
    <3>1. ToSet(block) \subseteq Tx
      BY ToSetFinite
    <3>2. QED
      BY <3>1 DEF Tx
  <2>4. QED
    BY <2>1, <2>2, <2>3
<1>2. QED
  BY <1>1 DEF After

\* An empty block moves none.
LEMMA AfterNone ==
    ASSUME NEW nonce \in [Processors -> Nat]
    PROVE  After(nonce, << >>) = nonce
<1>1. << >> \in Seq(Tx)
  BY EmptySeq
<1>2. \A m \in Processors : ~ Changing(<< >>, m)
  BY DEF Changing, ToSet
<1>3. \A m \in Processors : CommittedNonce(AtProcessor(m, << >>), nonce[m]) = nonce[m]
  BY <1>1, <1>2, NonceEffect
<1>4. QED
  BY <1>3 DEF After

LEMMA AheadTyped ==
    ASSUME Base, NEW n \in Nodes
    PROVE  Ahead(n) \in [Processors -> Nat]
<1>1. nonces[n] \in [Processors -> Nat] /\ (news[n] # NoBlock => news[n] \in Seq(Tx))
  BY DEF Base, Types
<1>2. QED
  BY <1>1, AfterTyped DEF Ahead

\* A node that processes the block that has come goes where it was to go.
LEMMA ProcessedAhead ==
    ASSUME Base, AheadForward, NEW n \in Nodes,
           nonces' \in [Nodes -> [Processors -> Nat]],
           nonces'[n] = Ahead(n), news'[n] = NoBlock, outdated' = outdated \ {n},
           \A k \in Nodes : k # n => nonces'[k] = nonces[k] /\ news'[k] = news[k]
    PROVE  Forward /\ AheadForward' /\ \A k \in Nodes : Ahead(k)' = Ahead(k)
<1>1. \A k \in Nodes : Ahead(k)' = Ahead(k)
  <2>1. TAKE k \in Nodes
  <2>2. CASE k = n
    BY <2>2 DEF Ahead
  <2>3. CASE k # n
    BY <2>3 DEF Ahead
  <2>4. QED
    BY <2>2, <2>3
<1>2. \A k \in Nodes, m \in Processors : nonces[k][m] \in Nat /\ nonces'[k][m] \in Nat
  BY DEF Base, Types
<1>3. Forward
  <2>1. SUFFICES ASSUME NEW k \in Nodes, NEW m \in Processors, k \notin outdated
                 PROVE  ~ (nonces'[k][m] < nonces[k][m])
    BY DEF Forward
  <2>2. CASE k = n
    <3>1. nonces'[k][m] >= nonces[k][m]
      BY <2>1, <2>2 DEF AheadForward
    <3>2. QED
      BY <1>2, <3>1
  <2>3. CASE k # n
    <3>1. nonces'[k][m] = nonces[k][m]
      BY <2>3
    <3>2. QED
      BY <1>2, <3>1
  <2>4. QED
    BY <2>2, <2>3
<1>4. AheadForward'
  <2>1. SUFFICES ASSUME NEW k \in Nodes, k \notin outdated', NEW m \in Processors
                 PROVE  Ahead(k)'[m] >= nonces'[k][m]
    BY DEF AheadForward
  <2>2. CASE k = n
    <3>1. Ahead(k)'[m] = nonces'[k][m]
      BY <1>1, <2>2
    <3>2. QED
      BY <1>2, <3>1
  <2>3. CASE k # n
    <3>1. k \notin outdated /\ nonces'[k][m] = nonces[k][m]
      BY <2>1, <2>3
    <3>2. QED
      BY <1>1, <3>1 DEF AheadForward
  <2>4. QED
    BY <2>2, <2>3
<1>5. QED
  BY <1>1, <1>3, <1>4

LEMMA SameForward == ASSUME Base, UNCHANGED nonces PROVE Forward
<1>1. \A n \in Nodes, m \in Processors : nonces[n][m] \in Nat
  BY DEF Base, Types
<1>2. QED
  BY <1>1 DEF Forward

\* A step that only changes work and the like, and takes on no work that is behind.
LEMMA OnlyWork ==
    ASSUME Base, NothingBehind, UNCHANGED << round, nonces, news, current, outdated >>, WorkNotBehind'
    PROVE  NothingBehind' /\ Forward
<1>1. \A n \in Nodes : Ahead(n)' = Ahead(n)
  BY DEF Ahead
<1>2. SameAhead' /\ AheadForward'
  BY <1>1 DEF NothingBehind, SameAhead, AheadForward
<1>3. RoundsNotBehind'
  BY <1>1 DEF NothingBehind, RoundsNotBehind, NotBehind
<1>4. QED
  BY <1>2, <1>3, SameForward DEF NothingBehind

\* The verified transactions are not behind the nonces they were verified with.
LEMMA VerifiedNotBehind ==
    ASSUME Base, NEW b, AsPacked(b), NEW at, at \in [Processors -> Nat], NEW funded, Verified(b, at, funded)
    PROVE  NotBehind(ToSet(b.txs), at)
<1>1. SUFFICES ASSUME NEW t \in ToSet(b.txs) PROVE t.nonce >= at[t.processor]
  BY DEF NotBehind
<1>2. t \in Tx /\ t.processor = b.sender
  BY DEF AsPacked, AsAdmitted
<1>3. PICK i \in DOMAIN b.txs : t = b.txs[i]
  BY DEF ToSet
<1>4. Passes(b.txs[i].nonce, at[b.sender], 0)
  BY DEF Verified
<1>5. t.nonce >= Larger(at[t.processor], 0) /\ at[t.processor] \in Nat /\ t.nonce \in Nat
  BY <1>2, <1>3, <1>4 DEF Passes, Tx
<1>6. QED
  BY <1>5 DEF Larger

LEMMA ReceivedBehind ==
    ASSUME Base, NothingBehind, NEW d \in Delegates, NEW batch \in Batches, AsPacked(batch), NEW funded,
           ReceiveWork(d, batch, nonces[d], funded), UNCHANGED << nonces, news, current, outdated >>
    PROVE  NothingBehind' /\ Forward
<1>1. PICK at \in [Processors -> Nat] : at = nonces[d]
  BY DEF Base, Types, Nodes
<1>2. /\ UNCHANGED round
      /\ \A e \in Delegates : e # d => work'[e] = work[e]
      /\ UNCHANGED work \/ Verified(batch, at, funded)
      /\ \A e \in Delegates : \A b : b \in ToSet(work'[e]) => b \in ToSet(work[e]) \/ (e = d /\ b = batch)
  <2>1. Types /\ ReceiveWork(d, batch, at, funded)
    BY <1>1 DEF Base
  <2>2. QED
    BY <2>1, ReceivedFacts
<1>3. ASSUME NEW e \in Delegates PROVE NotBehind(TxsOf(work'[e]), nonces[e])
  <2>1. NotBehind(TxsOf(work[e]), nonces[e])
    BY DEF NothingBehind, WorkNotBehind
  <2>2. CASE UNCHANGED work
    BY <2>1, <2>2
  <2>3. CASE Verified(batch, at, funded) /\ e = d
    <3>1. NotBehind(ToSet(batch.txs), nonces[e])
      BY <1>1, <2>3, VerifiedNotBehind
    <3>2. \A t : t \in TxsOf(work'[e]) <=> \E b \in ToSet(work'[e]) : t \in ToSet(b.txs)
      BY TxsOfSet
    <3>3. \A t : t \in TxsOf(work[e]) <=> \E b \in ToSet(work[e]) : t \in ToSet(b.txs)
      BY TxsOfSet
    <3>4. \A t \in TxsOf(work'[e]) : t \in TxsOf(work[e]) \/ t \in ToSet(batch.txs)
      BY <1>2, <3>2, <3>3, Zenon
    <3>5. QED
      BY <2>1, <3>1, <3>4, Zenon DEF NotBehind
  <2>4. CASE e # d
    BY <1>2, <2>1, <2>4
  <2>5. QED
    BY <1>2, <2>2, <2>3, <2>4
<1>4. WorkNotBehind'
  BY <1>3 DEF WorkNotBehind, NotBehind
<1>5. QED
  BY <1>2, <1>4, OnlyWork

LEMMA BuildBehind == ASSUME Base, NothingBehind, Build PROVE NothingBehind' /\ Forward
<1>1. PICK block \in Seq(Tx), votes \in Votes :
        /\ \A t \in ToSet(block) : \E k \in DOMAIN votes :
             /\ votes[k] \in Delegates /\ round[votes[k]][k].txs # << >>
             /\ \E u \in TxsOf(round[votes[k]]) : SameTx(t, u) /\ t.nonce = u.nonce
        /\ news' = [n \in Nodes |-> IF news[n] = NoBlock THEN block ELSE news[n] \o block]
        /\ current' = IF block = << >> THEN current ELSE {}
        /\ outdated' = IF \E k \in DOMAIN votes : votes[k] \notin current /\ round[votes[k]][k].txs # << >>
                       THEN Nodes ELSE outdated
        /\ \A d \in Delegates : round'[d] = << >> \/ round'[d] = round[d]
  BY BuildFacts
<1>2. UNCHANGED << nonces, work >>
  BY Zenon DEF Build
<1>3. Forward
  BY <1>2, SameForward
<1>4. /\ nonces \in [Nodes -> [Processors -> Nat]]
      /\ \A n \in Nodes : news[n] # NoBlock => news[n] \in Seq(Tx)
      /\ current \subseteq Delegates /\ outdated \subseteq Nodes
  BY DEF Base, Types
<1>5. \A n \in Nodes : Ahead(n)' = After(Ahead(n), block)
  <2>1. TAKE n \in Nodes
  <2>2. CASE news[n] = NoBlock
    <3>1. news'[n] = block /\ block # NoBlock
      BY <1>1, <2>2, PipelineAssumption
    <3>2. QED
      BY <1>2, <2>2, <3>1 DEF Ahead
  <2>3. CASE news[n] # NoBlock
    <3>1. PICK had \in Seq(Tx) : had = news[n]
      BY <1>4, <2>3
    <3>2. news'[n] = had \o block
      BY <1>1, <2>3, <3>1
    <3>3. had \o block # NoBlock
      <4>1. had \o block \in Seq(Tx)
        BY ConcatProperties
      <4>2. QED
        BY <4>1, PipelineAssumption
    <3>4. Ahead(n)' = After(nonces[n], had \o block)
      BY <1>2, <3>2, <3>3 DEF Ahead
    <3>5. Ahead(n) = After(nonces[n], had)
      BY <2>3, <3>1 DEF Ahead
    <3>6. QED
      BY <3>4, <3>5, AfterBoth
  <2>4. QED
    BY <2>2, <2>3
<1>6. SameAhead'
  BY <1>5 DEF NothingBehind, SameAhead
<1>7. WorkNotBehind'
  BY <1>2 DEF NothingBehind, WorkNotBehind, NotBehind, TxsOf
<1>8. RoundsNotBehind'
  <2>1. CASE block # << >>
    BY <1>1, <2>1 DEF RoundsNotBehind
  <2>2. CASE block = << >>
    <3>1. \A n \in Nodes : Ahead(n)' = Ahead(n)
      BY <1>5, <2>2, AheadTyped, AfterNone
    <3>2. \A d \in Delegates : \A t \in TxsOf(round'[d]) : t \in TxsOf(round[d])
      <4>1. TxsOf(<< >>) = {}
        BY DEF TxsOf
      <4>2. QED
        BY <1>1, <4>1
    <3>3. current' = current
      BY <1>1, <2>2
    <3>4. \A d \in current, n \in Nodes : \A t \in TxsOf(round[d]) : t.nonce >= Ahead(n)[t.processor]
      BY DEF NothingBehind, RoundsNotBehind, NotBehind
    <3>5. \A d \in current', n \in Nodes : \A t \in TxsOf(round'[d]) : t.nonce >= Ahead(n)'[t.processor]
      BY <1>4, <3>1, <3>2, <3>3, <3>4
    <3>6. QED
      BY <3>5 DEF RoundsNotBehind, NotBehind
  <2>3. QED
    BY <2>1, <2>2
<1>9. AheadForward'
  <2>1. SUFFICES ASSUME NEW n \in Nodes, n \notin outdated', NEW m \in Processors
                 PROVE  Ahead(n)'[m] >= nonces'[n][m]
    BY DEF AheadForward
  <2>2. outdated' = outdated /\ \A k \in DOMAIN votes : votes[k] \in current \/ round[votes[k]][k].txs = << >>
    BY <1>1, <2>1
  <2>3. PICK nonce \in [Processors -> Nat] : nonce = Ahead(n)
    BY AheadTyped
  <2>4. NotBehind(ToSet(block), nonce)
    <3>1. SUFFICES ASSUME NEW t \in ToSet(block) PROVE t.nonce >= nonce[t.processor]
      BY DEF NotBehind
    <3>2. PICK k \in DOMAIN votes :
            /\ votes[k] \in Delegates /\ round[votes[k]][k].txs # << >>
            /\ \E u \in TxsOf(round[votes[k]]) : SameTx(t, u) /\ t.nonce = u.nonce
      BY <1>1
    <3>3. PICK u \in TxsOf(round[votes[k]]) : SameTx(t, u) /\ t.nonce = u.nonce
      BY <3>2
    <3>4. votes[k] \in current
      BY <2>2, <3>2
    <3>5. u.nonce >= nonce[u.processor]
      BY <2>3, <3>3, <3>4 DEF NothingBehind, RoundsNotBehind, NotBehind
    <3>6. QED
      BY <3>3, <3>5 DEF SameTx
  <2>5. After(nonce, block)[m] >= nonce[m]
    BY <2>4, AfterForward
  <2>6. nonce[m] >= nonces[n][m]
    BY <2>1, <2>2, <2>3 DEF NothingBehind, AheadForward
  <2>7. Ahead(n)'[m] = After(nonce, block)[m] /\ nonces'[n][m] = nonces[n][m]
    BY <1>2, <1>5, <2>3
  <2>8. nonce[m] \in Nat /\ nonces[n][m] \in Nat /\ After(nonce, block)[m] \in Nat
    BY <1>4, AfterTyped
  <2>9. QED
    BY <2>5, <2>6, <2>7, <2>8
<1>10. QED
  BY <1>3, <1>6, <1>7, <1>8, <1>9 DEF NothingBehind

LEMMA CommitBehind ==
    ASSUME Base, NothingBehind, NEW m \in Processors, Commit(m)
    PROVE  NothingBehind' /\ Forward
<1>1. UNCHANGED << work, round, current >>
  BY DEF Commit, inboxVars
<1>2. m \in Nodes /\ news[m] # NoBlock
  BY DEF Commit, Nodes
<1>3. nonces \in [Nodes -> [Processors -> Nat]] /\ news \in [Nodes -> Seq(Tx) \cup {NoBlock}]
  BY DEF Base, Types
<1>4. PICK nonce : nonce = Ahead(m)
  OBVIOUS
<1>5. nonce \in [Processors -> Nat]
  BY <1>2, <1>4, AheadTyped
<1>6. nonce = Committed(m, news[m])
  BY <1>2, <1>4 DEF Ahead, Committed, After
<1>7. nonces' = [nonces EXCEPT ![m] = nonce] /\ news' = [news EXCEPT ![m] = NoBlock] /\ outdated' = outdated \ {m}
  BY <1>6 DEF Commit
<1>8. /\ nonces' \in [Nodes -> [Processors -> Nat]] /\ nonces'[m] = nonce /\ news'[m] = NoBlock
      /\ \A n \in Nodes : n # m => nonces'[n] = nonces[n] /\ news'[n] = news[n]
  BY <1>2, <1>3, <1>5, <1>7
<1>9. Forward /\ AheadForward' /\ \A n \in Nodes : Ahead(n)' = Ahead(n)
  BY <1>2, <1>4, <1>7, <1>8, ProcessedAhead DEF NothingBehind
<1>10. SameAhead'
  BY <1>9 DEF NothingBehind, SameAhead
<1>11. WorkNotBehind'
  <2>1. \A d \in Delegates : nonces'[d] = nonces[d]
    BY <1>8, PipelineAssumption DEF Nodes
  <2>2. QED
    BY <1>1, <2>1 DEF NothingBehind, WorkNotBehind, NotBehind, TxsOf
<1>12. RoundsNotBehind'
  BY <1>1, <1>9 DEF NothingBehind, RoundsNotBehind, NotBehind, TxsOf
<1>13. QED
  BY <1>9, <1>10, <1>11, <1>12 DEF NothingBehind

\* The delegate that catches up goes where it was to go.
LEMMA CatchUpBehind ==
    ASSUME Base, NothingBehind, NEW d \in Delegates, CatchUp(d)
    PROVE  /\ Forward /\ AheadForward' /\ SameAhead' /\ \A n \in Nodes : Ahead(n)' = Ahead(n)
           /\ nonces'[d] = Ahead(d) /\ nonces'[d] \in [Processors -> Nat]
           /\ \A n \in Nodes : n # d => nonces'[n] = nonces[n]
<1>1. /\ d \in Nodes /\ news'[d] = NoBlock /\ outdated' = outdated \ {d}
      /\ nonces' \in [Nodes -> [Processors -> Nat]]
      /\ \A n \in Nodes : n # d => news'[n] = news[n] /\ nonces'[n] = nonces[n]
      /\ nonces'[d] = IF news[d] = NoBlock THEN nonces[d] ELSE Committed(d, news[d])
  BY CatchUpFacts
<1>2. nonces'[d] = Ahead(d)
  BY <1>1 DEF Ahead, Committed, After
<1>3. Forward /\ AheadForward' /\ \A n \in Nodes : Ahead(n)' = Ahead(n)
  BY <1>1, <1>2, ProcessedAhead DEF NothingBehind
<1>4. SameAhead'
  BY <1>3 DEF NothingBehind, SameAhead
<1>5. QED
  BY <1>1, <1>2, <1>3, <1>4

\* The transactions of a round are those of the work gathered.
LEMMA GatheredTxs ==
    ASSUME Base, NEW d \in Delegates, Gather(d)
    PROVE  /\ \A t \in TxsOf(round'[d]) : t \in TxsOf(work[d])
           /\ work'[d] = << >>
           /\ \A e \in Delegates : e # d => round'[e] = round[e] /\ work'[e] = work[e]
<1>1. /\ work \in [Delegates -> Seq(Batches)] /\ round \in [Delegates -> Seq(Batches)] /\ now \in Nat
  BY DEF Base, Types
<1>2. PICK shims \in Seq(Batches), sorted \in Seq(Batches) :
        /\ \A i \in DOMAIN shims : \E m \in Missing(work[d]) : shims[i] = Shim(m)
        /\ round' = [round EXCEPT ![d] = sorted]
        /\ \A b : b \in ToSet(sorted) <=> b \in ToSet(work[d]) \/ b \in ToSet(shims)
  BY <1>1, GatherFacts
<1>3. work' = [work EXCEPT ![d] = << >>]
  BY DEF Gather
<1>4. /\ round'[d] = sorted /\ work'[d] = << >>
      /\ \A e \in Delegates : e # d => round'[e] = round[e] /\ work'[e] = work[e]
  BY <1>1, <1>2, <1>3
<1>5. ASSUME NEW b \in ToSet(shims), NEW t \in ToSet(b.txs) PROVE FALSE
  <2>1. PICK i \in DOMAIN shims : b = shims[i]
    BY DEF ToSet
  <2>2. b.txs = << >>
    BY <1>2, <2>1 DEF Shim
  <2>3. QED
    BY <1>5, <2>2 DEF ToSet
<1>6. \A t : t \in TxsOf(sorted) <=> \E b \in ToSet(sorted) : t \in ToSet(b.txs)
  BY TxsOfSet
<1>7. \A t : t \in TxsOf(work[d]) <=> \E b \in ToSet(work[d]) : t \in ToSet(b.txs)
  BY TxsOfSet
<1>8. \A t \in TxsOf(sorted) : t \in TxsOf(work[d])
  BY <1>2, <1>5, <1>6, <1>7, Zenon
<1>9. QED
  BY <1>4, <1>8

LEMMA DelegateWorkBehind ==
    ASSUME Base, NothingBehind, NEW d \in Delegates, DelegateWork(d)
    PROVE  NothingBehind' /\ Forward
<1>1. Gather(d) /\ CatchUp(d) /\ current' = IF news[d] \in {NoBlock, << >>} THEN current \cup {d} ELSE current \ {d}
  BY DEF DelegateWork
<1>2. /\ Forward /\ AheadForward' /\ SameAhead' /\ \A n \in Nodes : Ahead(n)' = Ahead(n)
      /\ \A n \in Nodes : n # d => nonces'[n] = nonces[n]
  BY <1>1, CatchUpBehind
<1>3. /\ \A t \in TxsOf(round'[d]) : t \in TxsOf(work[d])
      /\ work'[d] = << >>
      /\ \A e \in Delegates : e # d => round'[e] = round[e] /\ work'[e] = work[e]
  BY <1>1, GatheredTxs
<1>4. Delegates \subseteq Nodes /\ current \subseteq Delegates
  BY DEF Base, Types, Nodes
<1>5. WorkNotBehind'
  <2>1. SUFFICES ASSUME NEW e \in Delegates PROVE NotBehind(TxsOf(work'[e]), nonces'[e])
    BY DEF WorkNotBehind, NotBehind, TxsOf
  <2>2. CASE e = d
    <3>1. TxsOf(<< >>) = {}
      BY DEF TxsOf
    <3>2. QED
      BY <1>3, <2>2, <3>1 DEF NotBehind
  <2>3. CASE e # d
    BY <1>2, <1>3, <1>4, <2>3 DEF NothingBehind, WorkNotBehind
  <2>4. QED
    BY <2>2, <2>3
<1>6. RoundsNotBehind'
  <2>1. SUFFICES ASSUME NEW e \in current', NEW n \in Nodes PROVE NotBehind(TxsOf(round'[e]), Ahead(n))
    BY <1>2 DEF RoundsNotBehind, NotBehind, TxsOf
  <2>2. CASE e = d
    <3>1. news[d] \in {NoBlock, << >>}
      BY <1>1, <2>1, <2>2
    <3>2. Ahead(d) = nonces[d]
      <4>1. nonces[d] \in [Processors -> Nat]
        BY <1>4 DEF Base, Types
      <4>2. After(nonces[d], << >>) = nonces[d]
        BY <4>1, AfterNone
      <4>3. QED
        BY <3>1, <4>2 DEF Ahead
    <3>3. Ahead(n) = nonces[d]
      BY <1>4, <3>2 DEF NothingBehind, SameAhead
    <3>4. QED
      BY <1>3, <2>2, <3>3 DEF NothingBehind, WorkNotBehind, NotBehind
  <2>3. CASE e # d
    <3>1. e \in current /\ round'[e] = round[e]
      BY <1>1, <1>3, <1>4, <2>1, <2>3
    <3>2. QED
      BY <3>1 DEF NothingBehind, RoundsNotBehind
  <2>4. QED
    BY <2>2, <2>3
<1>7. QED
  BY <1>2, <1>5, <1>6 DEF NothingBehind

LEMMA DelegateConfirmBehind ==
    ASSUME Base, NothingBehind, NEW d \in Delegates, DelegateConfirm(d)
    PROVE  NothingBehind' /\ Forward
<1>1. CatchUp(d) /\ UNCHANGED current
  BY DEF DelegateConfirm
<1>2. /\ Forward /\ AheadForward' /\ SameAhead' /\ \A n \in Nodes : Ahead(n)' = Ahead(n)
      /\ nonces'[d] \in [Processors -> Nat]
      /\ \A n \in Nodes : n # d => nonces'[n] = nonces[n]
  BY <1>1, CatchUpBehind
<1>3. PICK at : at = nonces'[d]
  OBVIOUS
<1>4. PICK funded \in BOOLEAN : Accept(d, at, funded)
  BY <1>3 DEF DelegateConfirm
<1>5. Types
  BY DEF Base
<1>6. PICK taken \in Seq(Batches) :
        /\ \A n \in DOMAIN taken : \E i \in DOMAIN todo[d] : taken[n] = todo[d][i] /\ Verified(todo[d][i], at, funded)
        /\ \A n, k \in DOMAIN taken : n # k => taken[n].sender # taken[k].sender
        /\ \A i \in DOMAIN todo[d] : FirstGood(todo[d], at, funded, i) => \E n \in DOMAIN taken : taken[n] = todo[d][i]
        /\ work' = [work EXCEPT ![d] = taken] /\ todo' = [todo EXCEPT ![d] = << >>]
        /\ phase' = [phase EXCEPT ![d] = "accept"]
        /\ phase[d] = "confirm" /\ UNCHANGED << now, round >>
  BY <1>4, <1>5, AcceptFacts, Zenon
<1>7. NotBehind(TxsOf(taken), at)
  <2>1. ASSUME NEW b \in ToSet(taken) PROVE NotBehind(ToSet(b.txs), at)
    <3>1. PICK i \in DOMAIN todo[d] : b = todo[d][i] /\ Verified(todo[d][i], at, funded)
      BY <1>6 DEF ToSet
    <3>2. b \in Held(d)
      BY <3>1 DEF Held, ToSet
    <3>3. AsPacked(b)
      BY <3>2 DEF Base, BatchesAsPacked
    <3>4. QED
      BY <1>2, <1>3, <3>1, <3>3, VerifiedNotBehind
  <2>2. \A t : t \in TxsOf(taken) <=> \E b \in ToSet(taken) : t \in ToSet(b.txs)
    BY TxsOfSet
  <2>3. QED
    BY <2>1, <2>2, Zenon DEF NotBehind
<1>8. WorkNotBehind'
  <2>1. SUFFICES ASSUME NEW e \in Delegates PROVE NotBehind(TxsOf(work'[e]), nonces'[e])
    BY DEF WorkNotBehind, NotBehind, TxsOf
  <2>2. work \in [Delegates -> Seq(Batches)]
    BY <1>5 DEF Types
  <2>3. CASE e = d
    BY <1>3, <1>6, <1>7, <2>2, <2>3
  <2>4. CASE e # d
    <3>1. work'[e] = work[e] /\ nonces'[e] = nonces[e]
      BY <1>2, <1>6, <2>2, <2>4 DEF Nodes
    <3>2. QED
      BY <3>1 DEF NothingBehind, WorkNotBehind
  <2>5. QED
    BY <2>3, <2>4
<1>9. RoundsNotBehind'
  <2>1. UNCHANGED round
    BY <1>6
  <2>2. QED
    BY <1>1, <1>2, <2>1 DEF NothingBehind, RoundsNotBehind, NotBehind, TxsOf
<1>10. QED
  BY <1>2, <1>8, <1>9 DEF NothingBehind

LEMMA BehindStep ==
    ASSUME Base, NothingBehind, [Next]_vars
    PROVE  NothingBehind' /\ Forward
<1>1. ASSUME UNCHANGED << work, round, nonces, news, current, outdated >> PROVE NothingBehind' /\ Forward
  <2>1. WorkNotBehind'
    BY <1>1 DEF NothingBehind, WorkNotBehind, NotBehind, TxsOf
  <2>2. QED
    BY <1>1, <2>1, OnlyWork
<1>2. CASE Tick /\ UNCHANGED << masterVars, history >>
  BY <1>1, <1>2 DEF Tick, inboxVars, masterVars, history
<1>3. ASSUME NEW m \in Processors, Submit(m) \/ SendWork(m) PROVE NothingBehind' /\ Forward
  BY <1>1, <1>3 DEF Submit, SendWork, inboxVars
<1>4. ASSUME NEW m \in Processors, Commit(m) PROVE NothingBehind' /\ Forward
  BY <1>4, CommitBehind
<1>5. ASSUME NEW m \in Masters \ Processors, NEW d \in Delegates, ReceiveOther(m, d) PROVE NothingBehind' /\ Forward
  <2>1. PICK stamp \in 0 .. now : ReceiveWork(d, [sender |-> m, stamp |-> stamp, txs |-> << >>], nonces[d], TRUE)
    BY <1>5 DEF ReceiveOther
  <2>2. PICK batch : batch = [sender |-> m, stamp |-> stamp, txs |-> << >>]
    OBVIOUS
  <2>3. batch \in Batches /\ AsPacked(batch)
    <3>1. now \in Nat /\ stamp \in Nat /\ stamp <= now /\ << >> \in Seq(Tx)
      BY EmptySeq DEF Base, Types
    <3>2. ToSet(<< >>) = {}
      BY DEF ToSet
    <3>3. QED
      BY <2>2, <3>1, <3>2 DEF Batches, AsPacked
  <2>4. UNCHANGED << nonces, news, current, outdated >>
    BY <1>5 DEF ReceiveOther, masterVars, history
  <2>5. QED
    BY <2>1, <2>2, <2>3, <2>4, ReceivedBehind
<1>6. ASSUME NEW d \in Delegates, NEW batch \in net[d], Deliver(d, batch) PROVE NothingBehind' /\ Forward
  <2>1. batch \in Batches /\ AsPacked(batch)
    BY DEF Base, BatchesAsPacked, Held, AsPacked
  <2>2. UNCHANGED << nonces, news, current, outdated >>
    BY <1>6 DEF Deliver
  <2>3. QED
    BY <1>6, <2>1, <2>2, ReceivedBehind DEF Deliver
<1>7. CASE Build
  BY <1>7, BuildBehind
<1>8. ASSUME NEW d \in Delegates, DelegateWork(d) PROVE NothingBehind' /\ Forward
  BY <1>8, DelegateWorkBehind
<1>9. ASSUME NEW d \in Delegates, DelegateConfirm(d) PROVE NothingBehind' /\ Forward
  BY <1>9, DelegateConfirmBehind
<1>10. CASE UNCHANGED vars
  BY <1>1, <1>10 DEF vars, inboxVars, masterVars, history
<1>11. QED
  BY <1>2, <1>3, <1>4, <1>5, <1>6, <1>7, <1>8, <1>9, <1>10, Zenon DEF Next

\* A node's nonce of the account goes back only with a block that has results of a round
\* that does not know of every block before, although set_nonce takes no maximum
\* (storage.py:116) and nobody looks at what the results are based on (contender.py:206).
THEOREM NoncesForward == Spec => NonceBackOnlyIfOutdated
<1>1. Init => NothingBehind
  <2>1. SUFFICES ASSUME Init PROVE NothingBehind
    OBVIOUS
  <2>2. /\ \A d \in Delegates : TxsOf(work[d]) = {}
        /\ \A n \in Nodes : news[n] = NoBlock /\ nonces[n] = [m \in Processors |-> 0]
        /\ current = {}
    BY <2>1 DEF Init, InboxInit, TxsOf
  <2>3. \A n \in Nodes : Ahead(n) = [m \in Processors |-> 0] /\ Ahead(n) = nonces[n]
    BY <2>2 DEF Ahead
  <2>4. \A n \in Nodes, m \in Processors : Ahead(n)[m] >= nonces[n][m]
    BY <2>2, <2>3
  <2>5. QED
    BY <2>2, <2>3, <2>4 DEF NothingBehind, SameAhead, WorkNotBehind, RoundsNotBehind, AheadForward, NotBehind
<1>2. Base /\ NothingBehind /\ [Next]_vars => NothingBehind'
  BY BehindStep
<1>3. Base /\ NothingBehind /\ [Next]_vars =>
        [\A n \in Nodes, m \in Processors : nonces'[n][m] < nonces[n][m] => n \in outdated]_vars
  BY BehindStep DEF Forward
<1>4. QED
  BY <1>1, <1>2, <1>3, BaseInvariant, PTL DEF Spec, NonceBackOnlyIfOutdated

================================================================================
