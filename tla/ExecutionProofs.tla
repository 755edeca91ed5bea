--------------------------- MODULE ExecutionProofs ---------------------------
(***************************************************************************)
(* What a delegate's execution of a round guarantees whatever the number   *)
(* of workers, the work, and what the transactions read and write.         *)
(*                                                                         *)
(* The inductive invariant follows the results of the batch under way: as  *)
(* long as nothing was disturbed, each of its transactions is at one place *)
(* only, in the queues of the worker it was submitted to or among the      *)
(* results collected.  When as many results are collected as transactions  *)
(* were submitted, then by the pigeonhole principle they are the results   *)
(* of all of them, and the queues are empty for the next batch.            *)
(***************************************************************************)
EXTENDS Execution, SubsequencesProofs

----------------------------------------------------------------------------
(* Sequences, their elements and whether they repeat any. *)

\* The first of a sequence without repetitions is not in the rest.
LEMMA InjectiveTail ==
    ASSUME NEW S, NEW s \in Seq(S), s # << >>, IsInjective(s)
    PROVE  /\ IsInjective(Tail(s))
           /\ Head(s) \in ToSet(s)
           /\ ToSet(Tail(s)) = ToSet(s) \ {Head(s)}
<1>1. /\ Tail(s) \in Seq(S) /\ Len(s) \in Nat /\ Len(s) >= 1 /\ Len(Tail(s)) = Len(s) - 1
      /\ DOMAIN s = 1 .. Len(s) /\ DOMAIN Tail(s) = 1 .. Len(s) - 1
      /\ \A i \in 1 .. Len(s) - 1 : Tail(s)[i] = s[i + 1]
      /\ Head(s) = s[1]
  OBVIOUS
<1>2. \A i, j \in 1 .. Len(s) : s[i] = s[j] => i = j
  BY <1>1 DEF IsInjective
<1>3. IsInjective(Tail(s))
  <2>1. SUFFICES ASSUME NEW i \in 1 .. Len(s) - 1, NEW j \in 1 .. Len(s) - 1, Tail(s)[i] = Tail(s)[j]
                 PROVE  i = j
    BY <1>1 DEF IsInjective
  <2>2. i + 1 \in 1 .. Len(s) /\ j + 1 \in 1 .. Len(s) /\ s[i + 1] = s[j + 1]
    BY <1>1, <2>1
  <2>3. QED
    BY <1>2, <2>2
<1>4. Head(s) \in ToSet(s)
  BY <1>1 DEF ToSet
<1>5. ASSUME NEW x \in ToSet(Tail(s)) PROVE x \in ToSet(s) /\ x # Head(s)
  <2>1. PICK i \in 1 .. Len(s) - 1 : x = Tail(s)[i]
    BY <1>1 DEF ToSet
  <2>2. i + 1 \in 1 .. Len(s) /\ 1 \in 1 .. Len(s) /\ i + 1 # 1 /\ x = s[i + 1]
    BY <1>1, <2>1
  <2>3. QED
    BY <1>1, <1>2, <2>2 DEF ToSet
<1>6. ASSUME NEW x \in ToSet(s), x # Head(s) PROVE x \in ToSet(Tail(s))
  <2>1. PICK i \in 1 .. Len(s) : x = s[i]
    BY <1>1 DEF ToSet
  <2>2. i - 1 \in 1 .. Len(s) - 1 /\ Tail(s)[i - 1] = s[i - 1 + 1] /\ i - 1 + 1 = i
    BY <1>1, <1>6, <2>1
  <2>3. QED
    BY <1>1, <2>1, <2>2 DEF ToSet
<1>7. QED
  BY <1>3, <1>4, <1>5, <1>6

\* Appending adds an element, and no repetition if it is a new one.
LEMMA InjectiveAppend ==
    ASSUME NEW S, NEW s \in Seq(S), NEW e \in S
    PROVE  /\ ToSet(Append(s, e)) = ToSet(s) \cup {e}
           /\ IsInjective(s) /\ e \notin ToSet(s) => IsInjective(Append(s, e))
<1>1. /\ Append(s, e) \in Seq(S) /\ Len(s) \in Nat
      /\ DOMAIN s = 1 .. Len(s) /\ DOMAIN Append(s, e) = 1 .. Len(s) + 1
      /\ \A i \in 1 .. Len(s) : Append(s, e)[i] = s[i]
      /\ Append(s, e)[Len(s) + 1] = e
  OBVIOUS
<1>2. \A i \in 1 .. Len(s) + 1 : i \in 1 .. Len(s) \/ i = Len(s) + 1
  BY <1>1
<1>3. 1 .. Len(s) \subseteq 1 .. Len(s) + 1 /\ Len(s) + 1 \in 1 .. Len(s) + 1
  BY <1>1
<1>4. ToSet(Append(s, e)) = ToSet(s) \cup {e}
  BY <1>1, <1>2, <1>3 DEF ToSet
<1>5. ASSUME IsInjective(s), e \notin ToSet(s) PROVE IsInjective(Append(s, e))
  <2>1. SUFFICES ASSUME NEW i \in 1 .. Len(s) + 1, NEW j \in 1 .. Len(s) + 1,
                        Append(s, e)[i] = Append(s, e)[j]
                 PROVE  i = j
    BY <1>1 DEF IsInjective
  <2>2. \A k \in 1 .. Len(s) : s[k] # e
    BY <1>1, <1>5 DEF ToSet
  <2>3. QED
    BY <1>1, <1>2, <1>5, <2>1, <2>2 DEF IsInjective
<1>6. QED
  BY <1>4, <1>5

\* What moves from the front of one queue to the end of the one before it
\* keeps its place in the two together.
LEMMA MoveHead ==
    ASSUME NEW S, NEW s \in Seq(S), NEW t \in Seq(S), t # << >>
    PROVE  Append(s, Head(t)) \o Tail(t) = s \o t
<1>1. Head(t) \in S /\ Tail(t) \in Seq(S) /\ << Head(t) >> \in Seq(S)
  BY HeadTailProperties
<1>2. Append(s, Head(t)) = s \o << Head(t) >>
  BY <1>1, AppendIsConcat
<1>3. (s \o << Head(t) >>) \o Tail(t) = s \o (<< Head(t) >> \o Tail(t))
  BY <1>1, ConcatAssociative
<1>4. << Head(t) >> \o Tail(t) = t
  OBVIOUS
<1>5. QED
  BY <1>2, <1>3, <1>4

\* The first of the two queues together is the first of the former.
LEMMA TailOfConcat ==
    ASSUME NEW S, NEW s \in Seq(S), NEW t \in Seq(S), s # << >>
    PROVE  s \o t # << >> /\ Head(s \o t) = Head(s) /\ Tail(s \o t) = Tail(s) \o t
OBVIOUS

----------------------------------------------------------------------------
(* Arithmetic of the polls. *)

LEMMA Remainders ==
    ASSUME NEW i \in Nat, NEW n \in Nat, n > 0
    PROVE  i % n \in 0 .. n - 1
OBVIOUS

\* A number of full passes leaves no remainder.
LEMMA FullPasses ==
    ASSUME NEW n \in Nat, n > 0, NEW k \in Nat
    PROVE  (n * k) % n = 0 /\ n * k \in Nat
OBVIOUS

----------------------------------------------------------------------------
(* Submitting a batch. *)

\* With no worker busy, get_pool finds workers, each once (execution.py:154-174).
LEMMA PoolFacts ==
    ASSUME busyPool = {}, NEW needed \in Nat, needed > 0, NEW pool, pool = GetPool(needed)
    PROVE  pool \in Seq(Workers) /\ IsInjective(pool) /\ pool # << >>
<1>1. NWorker \in Nat /\ PerDelegate \in Nat /\ PerDelegate >= 1 /\ NWorker >= 1
  BY ExecutionAssumption
<1>2. Workers \ busyPool = 1 .. NWorker
  BY DEF Workers
<1>3. Cardinality(1 .. NWorker) = NWorker
  BY <1>1, FS_Interval
<1>4. PICK size \in Nat : size = IF needed < PerDelegate THEN needed ELSE PerDelegate
  BY <1>1
<1>5. PICK len \in Nat : len = IF size < NWorker THEN size ELSE NWorker
  BY <1>1, <1>4
<1>6. len >= 1 /\ len <= NWorker
  BY <1>1, <1>4, <1>5
<1>7. pool = [k \in 1 .. len |-> Nth(1 .. NWorker, k)]
  BY <1>2, <1>3, <1>4, <1>5 DEF GetPool
<1>8. \A k \in 1 .. len : k \in 1 .. Cardinality(1 .. NWorker)
  BY <1>1, <1>3, <1>6
<1>9. \A k \in 1 .. len : Nth(1 .. NWorker, k) \in 1 .. NWorker
  BY <1>1, <1>8, NthOfInterval
<1>10. \A k, l \in 1 .. len : Nth(1 .. NWorker, k) = Nth(1 .. NWorker, l) => k = l
  BY <1>1, <1>8, NthDiffer
<1>11. pool \in [1 .. len -> Workers] /\ DOMAIN pool = 1 .. len
  BY <1>7, <1>9 DEF Workers
<1>12. pool \in Seq(Workers) /\ Len(pool) = len
  BY <1>11
<1>13. IsInjective(pool)
  BY <1>7, <1>10, <1>11 DEF IsInjective
<1>14. QED
  BY <1>6, <1>12, <1>13

\* x is the result of a transaction of batch b of round r.
ResultOf(x, batch, r, b) ==
    /\ x.number + 1 \in DOMAIN batch
    /\ x = [tx |-> batch[x.number + 1], round |-> r, batch |-> b, number |-> x.number]

\* Every place of a batch has one result.
LEMMA ResultOfPlace ==
    ASSUME NEW batch \in Seq(Txs), NEW r \in Nat, NEW b \in Nat, NEW n \in DOMAIN batch,
           NEW x, x = [tx |-> batch[n], round |-> r, batch |-> b, number |-> n - 1]
    PROVE  ResultOf(x, batch, r, b) /\ x.number = n - 1 /\ x \in Result
<1>1. n \in Nat /\ n >= 1 /\ n - 1 \in Nat /\ n - 1 + 1 = n /\ batch[n] \in Txs
  OBVIOUS
<1>2. x.number = n - 1
  OBVIOUS
<1>3. QED
  BY <1>1, <1>2 DEF ResultOf, Result

\* A worker gets transactions of the batch that are its own, each once.
LEMMA ShareFacts ==
    ASSUME NEW batch \in Seq(Txs), NEW r \in Nat, NEW b \in Nat, NEW pool, NEW w,
           NEW share, share = Share(w, batch, pool, r, b)
    PROVE  /\ share \in Seq(Result) /\ IsInjective(share)
           /\ \A x \in ToSet(share) : ResultOf(x, batch, r, b) /\ WorkerOf(x.number, pool) = w
<1>1. PICK items : items = [n \in DOMAIN batch |-> [tx |-> batch[n], round |-> r, batch |-> b, number |-> n - 1]]
  OBVIOUS
<1>2. PICK own : own = {n \in DOMAIN batch : WorkerOf(n - 1, pool) = w}
  OBVIOUS
<1>3. share = AtPlaces(items, own)
  BY <1>1, <1>2 DEF Share
<1>4. DOMAIN items = DOMAIN batch /\ own \subseteq DOMAIN items
  BY <1>1, <1>2
<1>5. \A n \in DOMAIN batch : ResultOf(items[n], batch, r, b) /\ items[n].number = n - 1 /\ items[n] \in Result
  BY <1>1, ResultOfPlace
<1>6. items \in Seq(Result)
  <2>1. DOMAIN batch = 1 .. Len(batch) /\ Len(batch) \in Nat
    OBVIOUS
  <2>2. items \in [1 .. Len(batch) -> Result]
    BY <1>1, <1>5, <2>1
  <2>3. QED
    BY <2>1, <2>2
<1>7. /\ share \in Seq(Result)
      /\ \A n \in DOMAIN share : Nth(own, n) \in own /\ share[n] = items[Nth(own, n)]
      /\ \A n, m \in DOMAIN share : Nth(own, n) = Nth(own, m) => n = m
  BY <1>3, <1>4, <1>6, ElementsAtPlaces
<1>8. IsInjective(share)
  <2>1. SUFFICES ASSUME NEW n \in DOMAIN share, NEW m \in DOMAIN share, share[n] = share[m]
                 PROVE  n = m
    BY DEF IsInjective
  <2>2. PICK i \in DOMAIN batch : i = Nth(own, n)
    BY <1>4, <1>7
  <2>3. PICK j \in DOMAIN batch : j = Nth(own, m)
    BY <1>4, <1>7
  <2>4. items[i].number = i - 1 /\ items[j].number = j - 1 /\ items[i] = items[j]
    BY <1>5, <1>7, <2>1, <2>2, <2>3
  <2>5. i = j
    BY <2>4
  <2>6. QED
    BY <1>7, <2>2, <2>3, <2>5
<1>9. ASSUME NEW x \in ToSet(share) PROVE ResultOf(x, batch, r, b) /\ WorkerOf(x.number, pool) = w
  <2>1. PICK n \in DOMAIN share : x = share[n]
    BY DEF ToSet
  <2>2. PICK i \in own : i = Nth(own, n)
    BY <1>7
  <2>3. i \in DOMAIN batch /\ WorkerOf(i - 1, pool) = w
    BY <1>2
  <2>4. x = items[i]
    BY <1>7, <2>1, <2>2
  <2>5. x.number = i - 1 /\ ResultOf(x, batch, r, b)
    BY <1>5, <2>3, <2>4
  <2>6. QED
    BY <2>3, <2>5
<1>10. QED
  BY <1>7, <1>8, <1>9

----------------------------------------------------------------------------
(* Collecting results. *)

\* The results are of the batch, and none is there twice.
Collected(results, batch, r, b) ==
    /\ IsInjective(results)
    /\ \A x \in ToSet(results) : ResultOf(x, batch, r, b)

\* The line of a worker, what it has done followed by what it has to do, is of
\* transactions of the batch that went to it, each once, and not collected yet.
Pending(line, w, results, batch, r, b, pool) ==
    /\ IsInjective(line)
    /\ \A x \in ToSet(line) :
         /\ ResultOf(x, batch, r, b)
         /\ WorkerOf(x.number, pool) = w
         /\ x \notin ToSet(results)

\* A poll takes the first of a worker's line.
LEMMA PollTakes ==
    ASSUME NEW batch, NEW r, NEW b, NEW pool, NEW w, NEW line \in Seq(Result), NEW results \in Seq(Result),
           line # << >>, Collected(results, batch, r, b), Pending(line, w, results, batch, r, b, pool)
    PROVE  /\ Collected(Append(results, Head(line)), batch, r, b)
           /\ Pending(Tail(line), w, Append(results, Head(line)), batch, r, b, pool)
<1>1. IsInjective(Tail(line)) /\ Head(line) \in ToSet(line) /\ ToSet(Tail(line)) = ToSet(line) \ {Head(line)}
  BY InjectiveTail DEF Pending
<1>2. Head(line) \in Result
  BY HeadTailProperties
<1>3. /\ ToSet(Append(results, Head(line))) = ToSet(results) \cup {Head(line)}
      /\ IsInjective(results) /\ Head(line) \notin ToSet(results) => IsInjective(Append(results, Head(line)))
  BY <1>2, InjectiveAppend
<1>4. QED
  BY <1>1, <1>3 DEF Pending, Collected

\* It is nothing that another worker has in its line.
LEMMA PollOfAnother ==
    ASSUME NEW batch, NEW r, NEW b, NEW pool, NEW w, NEW line \in Seq(Result), NEW results \in Seq(Result),
           line # << >>, Pending(line, w, results, batch, r, b, pool),
           NEW v, v # w, NEW other, Pending(other, v, results, batch, r, b, pool)
    PROVE  Pending(other, v, Append(results, Head(line)), batch, r, b, pool)
<1>1. Head(line) \in ToSet(line)
  BY InjectiveTail DEF Pending
<1>2. Head(line) \in Result
  BY HeadTailProperties
<1>3. ToSet(Append(results, Head(line))) = ToSet(results) \cup {Head(line)}
  BY <1>2, InjectiveAppend
<1>4. WorkerOf(Head(line).number, pool) = w
  BY <1>1 DEF Pending
<1>5. \A x \in ToSet(other) : x # Head(line)
  BY <1>4 DEF Pending
<1>6. QED
  BY <1>3, <1>5 DEF Pending

\* As many results as transactions are the results of all of them: the pigeonhole principle.
LEMMA AllCollected ==
    ASSUME NEW batch \in Seq(Txs), NEW r, NEW b, NEW results \in Seq(Result),
           Collected(results, batch, r, b), Len(results) >= Len(batch)
    PROVE  /\ Len(results) = Len(batch)
           /\ \A x \in Result : ResultOf(x, batch, r, b) => x \in ToSet(results)
<1>1. PICK places : places = [i \in 1 .. Len(results) |-> results[i].number + 1]
  OBVIOUS
<1>2. Len(results) \in Nat /\ Len(batch) \in Nat /\ DOMAIN results = 1 .. Len(results) /\ DOMAIN batch = 1 .. Len(batch)
  OBVIOUS
<1>3. \A i \in 1 .. Len(results) : ResultOf(results[i], batch, r, b) /\ results[i].number \in Nat
  <2>1. \A i \in 1 .. Len(results) : results[i] \in ToSet(results) /\ results[i] \in Result
    BY <1>2 DEF ToSet
  <2>2. QED
    BY <2>1 DEF Collected, Result
<1>4. \A i \in 1 .. Len(results) : places[i] = results[i].number + 1 /\ places[i] \in 1 .. Len(batch)
  BY <1>1, <1>2, <1>3 DEF ResultOf
<1>5. \A i, j \in 1 .. Len(results) : places[i] = places[j] => i = j
  <2>1. TAKE i, j \in 1 .. Len(results)
  <2>2. HAVE places[i] = places[j]
  <2>3. results[i].number = results[j].number
    BY <1>3, <1>4, <2>2
  <2>4. results[i] = results[j]
    BY <1>3, <2>3 DEF ResultOf
  <2>5. QED
    BY <1>2, <2>4 DEF Collected, IsInjective
<1>6. places \in [1 .. Len(results) -> 1 .. Len(batch)]
  BY <1>1, <1>4
<1>7. places \in Injection(1 .. Len(results), 1 .. Len(batch))
  BY <1>5, <1>6, Fun_IsInj
<1>8. IsFiniteSet(1 .. Len(batch)) /\ Cardinality(1 .. Len(batch)) = Len(batch)
  BY <1>2, NumbersUpTo
<1>9. Cardinality(1 .. Len(results)) = Len(results)
  BY <1>2, NumbersUpTo
<1>10. /\ Cardinality(1 .. Len(results)) <= Cardinality(1 .. Len(batch))
       /\ Cardinality(1 .. Len(results)) = Cardinality(1 .. Len(batch)) <=> places \in Surjection(1 .. Len(results), 1 .. Len(batch))
  BY <1>7, <1>8, FS_Injection
<1>11. Len(results) = Len(batch)
  <2>1. Len(results) <= Len(batch)
    BY <1>8, <1>9, <1>10
  <2>2. Len(results) \in Nat /\ Len(batch) \in Nat
    BY <1>2
  <2>3. Len(results) >= Len(batch)
    OBVIOUS
  <2>4. QED
    BY <2>1, <2>2, <2>3
<1>12. places \in Surjection(1 .. Len(results), 1 .. Len(batch))
  BY <1>8, <1>9, <1>10, <1>11
<1>13. ASSUME NEW x \in Result, ResultOf(x, batch, r, b) PROVE x \in ToSet(results)
  <2>1. x.number + 1 \in 1 .. Len(batch)
    BY <1>2, <1>13 DEF ResultOf
  <2>2. PICK i \in 1 .. Len(results) : places[i] = x.number + 1
    BY <1>12, <2>1 DEF Surjection
  <2>3. results[i].number = x.number
    <3>1. x.number \in Nat /\ results[i].number \in Nat /\ results[i].number + 1 = x.number + 1
      BY <1>3, <1>4, <2>2 DEF Result
    <3>2. QED
      BY <3>1
  <2>4. results[i] = x
    BY <1>3, <1>13, <2>3 DEF ResultOf
  <2>5. QED
    BY <1>2, <2>4 DEF ToSet
<1>14. QED
  BY <1>11, <1>13

\* Then no worker has any left.
LEMMA NothingPending ==
    ASSUME NEW batch \in Seq(Txs), NEW r, NEW b, NEW results \in Seq(Result),
           Collected(results, batch, r, b), Len(results) >= Len(batch),
           NEW line \in Seq(Result), NEW w, NEW pool, Pending(line, w, results, batch, r, b, pool)
    PROVE  line = << >>
<1>1. SUFFICES ASSUME line # << >> PROVE FALSE
  OBVIOUS
<1>2. Head(line) \in ToSet(line) /\ Head(line) \in Result
  BY <1>1, InjectiveTail, HeadTailProperties DEF Pending
<1>3. QED
  BY <1>2, AllCollected DEF Pending

----------------------------------------------------------------------------
(* The inductive invariant. *)

\* What a worker has done and nobody collected, then what it has to do.
Line(w) == qOut[w] \o qIn[w]

WithinWork == Len(rezBatch) <= Len(work)

\* A batch is under way and the polls are not used up, or no worker is busy.
BatchUnderWay ==
    /\ Current <= Len(work) /\ Batch # << >>
    /\ workPool # << >>
    /\ kStep <= Len(Batch) * Tries

Busy == IF phase = "wait" THEN BatchUnderWay ELSE busyPool = {}

\* Every transaction under way is at one place, and nothing else is anywhere.
EachAtOnePlace ==
    /\ Collected(rez, Batch, round, Current)
    /\ \A w \in Workers : Pending(Line(w), w, rez, Batch, round, Current, workPool)

QueuesEmpty == \A w \in Workers : Line(w) = << >>

Undisturbed == ~ disturbed => IF phase = "wait" THEN EachAtOnePlace ELSE QueuesEmpty

\* The results of a batch are of transactions of its own only.
OnlyOwnResults ==
    ~ disturbed => \A b \in DOMAIN rezBatch : \A x \in ToSet(rezBatch[b]) : ResultOf(x, work[b], round, b)

\* An answer is of all batches, and their results do not conflict.
Answer == phase = "idle" /\ round > 0 =>
    Len(rezBatch) = Len(work) /\ sent = Sbcs(rezBatch) /\ ~ Conflicts(rezBatch)

IInv ==
    /\ TypeOK
    /\ WithinWork
    /\ Busy
    /\ Undisturbed
    /\ ResultsOfOwnBatch
    /\ OnlyOwnResults
    /\ Answer
    /\ OnlyConflictsRaise

LEMMA WorkTyped ==
    ASSUME TypeOK
    PROVE  /\ work \in Seq(Seq(Txs)) /\ Len(work) \in Nat /\ round \in Nat
           /\ Len(rezBatch) \in Nat /\ Current \in Nat /\ Current >= 1
           /\ Current <= Len(work) => Current \in DOMAIN work /\ Batch \in Seq(Txs)
<1>1. work \in Seq(Seq(Txs))
  <2>1. work \in Works \/ work = << >>
    BY DEF TypeOK
  <2>2. \A some \in Works : some \in Seq(Seq(Txs))
    BY ExecutionAssumption
  <2>3. << >> \in Seq(Seq(Txs))
    BY EmptySeq
  <2>4. QED
    BY <2>1, <2>2, <2>3
<1>2. round \in Nat
  BY ExecutionAssumption DEF TypeOK
<1>3. rezBatch \in Seq(Seq(Result))
  BY DEF TypeOK
<1>4. Len(rezBatch) \in Nat /\ Current \in Nat /\ Current >= 1
  BY <1>3 DEF Current
<1>5. Len(work) \in Nat /\ DOMAIN work = 1 .. Len(work)
  BY <1>1
<1>6. Current <= Len(work) => Current \in DOMAIN work
  BY <1>4, <1>5
<1>7. Current <= Len(work) => Batch \in Seq(Txs)
  BY <1>1, <1>6 DEF Batch
<1>8. QED
  BY <1>1, <1>2, <1>4, <1>5, <1>6, <1>7

LEMMA LinesTyped ==
    ASSUME TypeOK, NEW w \in Workers
    PROVE  qIn[w] \in Seq(Result) /\ qOut[w] \in Seq(Result) /\ Line(w) \in Seq(Result)
<1>1. qIn[w] \in Seq(Result) /\ qOut[w] \in Seq(Result)
  BY DEF TypeOK
<1>2. QED
  BY <1>1 DEF Line

LEMMA InitInvariant == ASSUME Init PROVE IInv
<1>1. TypeOK
  <2>1. 0 \in 0 .. MaxRounds
    BY ExecutionAssumption
  <2>2. qIn \in [Workers -> Seq(Result)] /\ qOut \in [Workers -> Seq(Result)]
    BY EmptySeq DEF Init
  <2>3. workPool \in Seq(Workers) /\ IsInjective(workPool)
    BY EmptySeq DEF Init, IsInjective
  <2>4. rezBatch \in Seq(Seq(Result)) /\ rez \in Seq(Result)
    BY EmptySeq DEF Init
  <2>5. QED
    BY <2>1, <2>2, <2>3, <2>4 DEF Init, TypeOK
<1>2. WithinWork
  BY DEF Init, WithinWork
<1>3. Busy
  BY DEF Init, Busy
<1>4. Undisturbed
  BY DEF Init, Undisturbed, QueuesEmpty, Line
<1>5. ResultsOfOwnBatch /\ OnlyOwnResults /\ Answer /\ OnlyConflictsRaise
  BY DEF Init, ResultsOfOwnBatch, OnlyOwnResults, Answer, OnlyConflictsRaise
<1>6. QED
  BY <1>1, <1>2, <1>3, <1>4, <1>5 DEF IInv

LEMMA StartWorkInvariant == ASSUME IInv, StartWork PROVE IInv'
<1>1. TypeOK /\ busyPool = {} /\ (~ disturbed => QueuesEmpty)
  BY DEF IInv, StartWork, Busy, Undisturbed
<1>2. work' \in Seq(Seq(Txs)) /\ Len(work') \in Nat
  BY ExecutionAssumption DEF StartWork
<1>3. TypeOK'
  <2>1. round' \in 0 .. MaxRounds
    BY <1>1, ExecutionAssumption DEF TypeOK, StartWork
  <2>2. QED
    BY <1>1, <2>1 DEF TypeOK, StartWork, queueVars
<1>4. WithinWork'
  BY <1>2 DEF StartWork, WithinWork
<1>5. Busy'
  BY <1>1 DEF StartWork, Busy
<1>6. Undisturbed'
  BY <1>1 DEF StartWork, Undisturbed, QueuesEmpty, Line, queueVars
<1>7. ResultsOfOwnBatch' /\ OnlyOwnResults'
  BY DEF StartWork, ResultsOfOwnBatch, OnlyOwnResults
<1>8. Answer' /\ OnlyConflictsRaise'
  BY DEF StartWork, Answer, OnlyConflictsRaise
<1>9. QED
  BY <1>3, <1>4, <1>5, <1>6, <1>7, <1>8 DEF IInv

LEMMA SubmitInvariant == ASSUME IInv, Submit PROVE IInv'
<1>1. TypeOK /\ busyPool = {} /\ (~ disturbed => QueuesEmpty) /\ Current <= Len(work) /\ Batch # << >>
  BY DEF IInv, Submit, Busy, Undisturbed
<1>2. Batch \in Seq(Txs) /\ Current \in Nat /\ round \in Nat
  BY <1>1, WorkTyped
<1>3. Len(Batch) \in Nat /\ Len(Batch) > 0
  BY <1>1, <1>2
<1>4. PICK pool : pool = GetPool(Len(Batch))
  OBVIOUS
<1>5. pool \in Seq(Workers) /\ IsInjective(pool) /\ pool # << >>
  BY <1>1, <1>3, <1>4, PoolFacts
<1>6. /\ phase' = "wait" /\ workPool' = pool /\ busyPool' = busyPool \cup ToSet(pool)
      /\ qIn' = [w \in Workers |-> qIn[w] \o Share(w, Batch, pool, round, Current)]
      /\ kStep' = 0 /\ rez' = << >>
      /\ UNCHANGED << round, work, rezBatch, qOut, alive, sent, disturbed >>
  BY <1>4, <1>5 DEF Submit
<1>7. Batch' = Batch /\ Current' = Current
  BY <1>6 DEF Batch, Current
<1>8. \A w \in Workers :
        LET share == Share(w, Batch, pool, round, Current)
        IN  /\ share \in Seq(Result) /\ IsInjective(share)
            /\ \A x \in ToSet(share) : ResultOf(x, Batch, round, Current) /\ WorkerOf(x.number, pool) = w
  BY <1>2, ShareFacts
<1>9. TypeOK'
  <2>1. \A w \in Workers : qIn[w] \in Seq(Result) /\ Share(w, Batch, pool, round, Current) \in Seq(Result)
    BY <1>1, <1>8, LinesTyped
  <2>2. qIn' \in [Workers -> Seq(Result)]
    BY <1>6, <2>1
  <2>3. ToSet(pool) \subseteq Workers
    BY <1>5 DEF ToSet
  <2>4. busyPool' = ToSet(workPool')
    BY <1>1, <1>6
  <2>5. QED
    BY <1>1, <1>5, <1>6, <2>2, <2>3, <2>4, SMTT(30) DEF TypeOK
<1>10. WithinWork'
  BY <1>6 DEF IInv, WithinWork
<1>11. Busy'
  <2>1. 0 <= Len(Batch) * Tries
    BY <1>3, ExecutionAssumption
  <2>2. BatchUnderWay'
    BY <1>1, <1>5, <1>6, <1>7, <2>1 DEF BatchUnderWay
  <2>3. QED
    BY <1>6, <2>2 DEF Busy
<1>12. Undisturbed'
  <2>1. SUFFICES ASSUME ~ disturbed' PROVE EachAtOnePlace'
    BY <1>6 DEF Undisturbed
  <2>2. QueuesEmpty
    BY <1>1, <1>6, <2>1
  <2>3. ASSUME NEW w \in Workers
        PROVE  Pending(qOut'[w] \o qIn'[w], w, << >>, Batch, round, Current, pool)
    <3>1. PICK share : share = Share(w, Batch, pool, round, Current)
      OBVIOUS
    <3>2. /\ share \in Seq(Result) /\ IsInjective(share)
          /\ \A x \in ToSet(share) : ResultOf(x, Batch, round, Current) /\ WorkerOf(x.number, pool) = w
      BY <1>8, <3>1
    <3>3. qOut[w] = << >> /\ qIn[w] = << >>
      BY <1>1, <2>2, LinesTyped, ConcatEqualIffEmpty DEF QueuesEmpty, Line
    <3>4. qOut'[w] = << >> /\ qIn'[w] = << >> \o share
      BY <1>6, <3>1, <3>3
    <3>5. qOut'[w] \o qIn'[w] = share
      BY <3>2, <3>4, ConcatEmptySeq
    <3>6. ToSet(<< >>) = {}
      BY DEF ToSet
    <3>7. QED
      BY <3>2, <3>5, <3>6 DEF Pending
  <2>4. Collected(<< >>, Batch, round, Current)
    BY DEF Collected, ToSet, IsInjective
  <2>5. QED
    BY <1>6, <1>7, <2>3, <2>4 DEF EachAtOnePlace, Line, Collected, Pending, ResultOf, WorkerOf
<1>13. ResultsOfOwnBatch' /\ OnlyOwnResults'
  BY <1>6 DEF IInv, ResultsOfOwnBatch, OnlyOwnResults, ResultOf
<1>14. Answer' /\ OnlyConflictsRaise'
  BY <1>6 DEF Answer, OnlyConflictsRaise
<1>15. QED
  BY <1>9, <1>10, <1>11, <1>12, <1>13, <1>14 DEF IInv

\* The results of one more batch come last.
LEMMA OneMoreBatch ==
    ASSUME NEW done \in Seq(Seq(Result)), NEW results \in Seq(Result)
    PROVE  /\ Append(done, results) \in Seq(Seq(Result)) /\ Len(Append(done, results)) = Len(done) + 1
           /\ \A b \in DOMAIN Append(done, results) :
                \/ b \in DOMAIN done /\ Append(done, results)[b] = done[b]
                \/ b = Len(done) + 1 /\ Append(done, results)[b] = results
OBVIOUS

LEMMA SkipEmptyInvariant == ASSUME IInv, SkipEmpty PROVE IInv'
<1>1. TypeOK /\ busyPool = {} /\ (~ disturbed => QueuesEmpty) /\ Current <= Len(work) /\ Batch = << >>
  BY DEF IInv, SkipEmpty, Busy, Undisturbed
<1>2. /\ rezBatch' = Append(rezBatch, << >>)
      /\ UNCHANGED << phase, round, work, workPool, kStep, rez, qIn, qOut, alive, busyPool, sent, disturbed >>
      /\ phase = "submit"
  BY DEF SkipEmpty, queueVars
<1>3. << >> \in Seq(Result) /\ rezBatch \in Seq(Seq(Result))
  BY <1>1, EmptySeq DEF TypeOK
<1>4. /\ rezBatch' \in Seq(Seq(Result)) /\ Len(rezBatch') = Current
      /\ \A b \in DOMAIN rezBatch' :
           \/ b \in DOMAIN rezBatch /\ rezBatch'[b] = rezBatch[b]
           \/ b = Current /\ rezBatch'[b] = << >>
  BY <1>2, <1>3, OneMoreBatch DEF Current
<1>5. TypeOK'
  BY <1>1, <1>2, <1>4 DEF TypeOK
<1>6. WithinWork' /\ Busy'
  BY <1>1, <1>2, <1>4 DEF WithinWork, Busy
<1>7. Undisturbed'
  BY <1>1, <1>2 DEF Undisturbed, QueuesEmpty, Line
<1>8. ResultsOfOwnBatch'
  <2>1. SUFFICES ASSUME ~ disturbed', NEW b \in DOMAIN rezBatch'
                 PROVE  /\ Len(rezBatch'[b]) = Len(work'[b])
                        /\ \A n \in DOMAIN work'[b] :
                             [tx |-> work'[b][n], round |-> round', batch |-> b, number |-> n - 1] \in ToSet(rezBatch'[b])
    BY DEF ResultsOfOwnBatch
  <2>2. CASE b = Current /\ rezBatch'[b] = << >>
    BY <1>1, <1>2, <2>2 DEF Batch
  <2>3. CASE b \in DOMAIN rezBatch /\ rezBatch'[b] = rezBatch[b]
    BY <1>2, <2>1, <2>3 DEF IInv, ResultsOfOwnBatch
  <2>4. QED
    BY <1>4, <2>2, <2>3
<1>9. OnlyOwnResults'
  <2>1. SUFFICES ASSUME ~ disturbed', NEW b \in DOMAIN rezBatch', NEW x \in ToSet(rezBatch'[b])
                 PROVE  ResultOf(x, work[b], round, b)
    BY <1>2 DEF OnlyOwnResults, ResultOf
  <2>2. rezBatch'[b] # << >>
    BY <2>1 DEF ToSet
  <2>3. QED
    BY <1>2, <1>4, <2>1, <2>2 DEF IInv, OnlyOwnResults
<1>10. Answer' /\ OnlyConflictsRaise'
  BY <1>2 DEF Answer, OnlyConflictsRaise
<1>11. QED
  BY <1>5, <1>6, <1>7, <1>8, <1>9, <1>10 DEF IInv

\* A step, a worker's or none, that leaves every line as it is, or disturbs.
LEMMA WorkerStep ==
    ASSUME IInv,
           UNCHANGED << phase, round, work, rezBatch, workPool, kStep, rez, busyPool, sent >>,
           qIn' \in [Workers -> Seq(Result)], qOut' \in [Workers -> Seq(Result)],
           alive' \subseteq Workers, disturbed' \in BOOLEAN,
           disturbed => disturbed',
           ~ disturbed' => \A w \in Workers : qOut'[w] \o qIn'[w] = Line(w)
    PROVE  IInv'
<1>1. TypeOK'
  BY DEF IInv, TypeOK
<1>2. WithinWork'
  BY DEF IInv, WithinWork
<1>3. Busy'
  BY DEF IInv, Busy, BatchUnderWay, Current, Batch
<1>4. Undisturbed'
  <2>1. SUFFICES ASSUME ~ disturbed' PROVE IF phase = "wait" THEN EachAtOnePlace' ELSE QueuesEmpty'
    BY DEF Undisturbed
  <2>2. ~ disturbed /\ \A w \in Workers : qOut'[w] \o qIn'[w] = Line(w)
    BY <2>1
  <2>3. Current' = Current /\ Batch' = Batch
    BY DEF Current, Batch
  <2>4. CASE phase = "wait"
    <3>1. EachAtOnePlace
      BY <2>2, <2>4 DEF IInv, Undisturbed
    <3>2. QED
      BY <2>2, <2>3, <2>4, <3>1 DEF EachAtOnePlace, Line, Collected, Pending, ResultOf, WorkerOf
  <2>5. CASE phase # "wait"
    BY <2>2, <2>5 DEF IInv, Undisturbed, QueuesEmpty, Line
  <2>6. QED
    BY <2>4, <2>5
<1>5. ResultsOfOwnBatch' /\ OnlyOwnResults'
  BY DEF IInv, ResultsOfOwnBatch, OnlyOwnResults, ResultOf
<1>6. Answer'
  BY DEF IInv, Answer, Sbcs, Conflicts, Clash
<1>7. OnlyConflictsRaise'
  BY DEF IInv, OnlyConflictsRaise, Conflicts, Clash
<1>8. QED
  BY <1>1, <1>2, <1>3, <1>4, <1>5, <1>6, <1>7 DEF IInv

LEMMA RunInvariant == ASSUME IInv, NEW w \in Workers, Run(w) PROVE IInv'
<1>1. TypeOK
  BY DEF IInv
<1>2. qIn[w] \in Seq(Result) /\ qOut[w] \in Seq(Result) /\ qIn[w] # << >>
  BY <1>1, LinesTyped DEF Run
<1>3. Head(qIn[w]) \in Result /\ Tail(qIn[w]) \in Seq(Result)
  BY <1>2, HeadTailProperties
<1>4. Append(qOut[w], Head(qIn[w])) \in Seq(Result)
  BY <1>2, <1>3, AppendProperties
<1>5. qIn' \in [Workers -> Seq(Result)] /\ qOut' \in [Workers -> Seq(Result)]
  BY <1>1, <1>3, <1>4 DEF Run, TypeOK
<1>6. ASSUME NEW v \in Workers PROVE qOut'[v] \o qIn'[v] = Line(v)
  <2>1. CASE v = w
    <3>1. qOut'[w] = Append(qOut[w], Head(qIn[w])) /\ qIn'[w] = Tail(qIn[w])
      BY <1>1 DEF Run, TypeOK
    <3>2. Append(qOut[w], Head(qIn[w])) \o Tail(qIn[w]) = qOut[w] \o qIn[w]
      BY <1>2, MoveHead
    <3>3. QED
      BY <2>1, <3>1, <3>2 DEF Line
  <2>2. CASE v # w
    BY <1>1, <2>2 DEF Run, TypeOK, Line
  <2>3. QED
    BY <2>1, <2>2
<1>7. alive' \subseteq Workers /\ disturbed' \in BOOLEAN /\ disturbed' = disturbed
  BY <1>1 DEF Run, TypeOK
<1>8. UNCHANGED << phase, round, work, rezBatch, workPool, kStep, rez, busyPool, sent >>
  BY DEF Run
<1>9. QED
  BY <1>5, <1>6, <1>7, <1>8, WorkerStep

LEMMA StopInvariant == ASSUME IInv, NEW w \in Workers, Stop(w) PROVE IInv'
<1>1. TypeOK
  BY DEF IInv
<1>2. qIn[w] \in Seq(Result) /\ qIn[w] # << >>
  BY <1>1, LinesTyped DEF Stop
<1>3. Tail(qIn[w]) \in Seq(Result)
  BY <1>2, HeadTailProperties
<1>4. qIn' \in [Workers -> Seq(Result)] /\ qOut' \in [Workers -> Seq(Result)]
  BY <1>1, <1>3 DEF Stop, TypeOK
<1>5. alive' \subseteq Workers /\ disturbed' = TRUE
  BY <1>1 DEF Stop, TypeOK
<1>6. UNCHANGED << phase, round, work, rezBatch, workPool, kStep, rez, busyPool, sent >>
  BY DEF Stop
<1>7. QED
  BY <1>4, <1>5, <1>6, WorkerStep

\* The polls of a batch are bounded: a pass that is not the last one goes on.
LEMMA PollsBounded ==
    ASSUME NEW n \in Nat, n > 0, kStep \in Nat, kStep <= n * Tries, kStep = 0 \/ ~ WaitIsOver(n)
    PROVE  kStep + 1 <= n * Tries
<1>1. Tries \in Nat /\ Tries > 0
  BY ExecutionAssumption
<1>2. PICK all \in Nat : all = n * Tries /\ all % n = 0
  BY <1>1, FullPasses
<1>3. all > 0
  <2>1. n >= 1 /\ Tries >= 1
    BY <1>1
  <2>2. n * Tries >= 1
    BY <1>1, <2>1
  <2>3. QED
    BY <1>2, <2>2
<1>4. kStep # all
  BY <1>2, <1>3 DEF WaitIsOver
<1>5. QED
  BY <1>2, <1>4

LEMMA PollInvariant == ASSUME IInv, Poll PROVE IInv'
<1>1. TypeOK /\ phase = "wait" /\ BatchUnderWay /\ (~ disturbed => EachAtOnePlace)
  BY DEF IInv, Poll, Busy, Undisturbed
<1>2. Batch \in Seq(Txs) /\ Len(Batch) \in Nat /\ Len(Batch) > 0
  <2>1. Batch \in Seq(Txs) /\ Batch # << >>
    BY <1>1, WorkTyped DEF BatchUnderWay
  <2>2. QED
    BY <2>1
<1>3. PICK w : w = Polled(kStep % Len(Batch))
  OBVIOUS
<1>4. w \in Workers
  <2>1. workPool \in Seq(Workers) /\ workPool # << >> /\ kStep \in Nat
    BY <1>1 DEF TypeOK, BatchUnderWay
  <2>2. Len(workPool) \in Nat /\ Len(workPool) > 0 /\ DOMAIN workPool = 1 .. Len(workPool)
    BY <2>1
  <2>3. kStep % Len(Batch) \in Nat
    BY <1>2, <2>1, Remainders
  <2>4. (kStep % Len(Batch)) % Len(workPool) \in 0 .. Len(workPool) - 1
    BY <2>2, <2>3, Remainders
  <2>5. ((kStep % Len(Batch)) % Len(workPool)) + 1 \in 1 .. Len(workPool)
    BY <2>2, <2>4
  <2>6. QED
    BY <1>3, <2>1, <2>5, ElementOfSeq DEF Polled
<1>5. UNCHANGED << phase, round, work, rezBatch, workPool, qIn, alive, busyPool, sent, disturbed >>
  BY DEF Poll
<1>6. Batch' = Batch /\ Current' = Current
  BY <1>5 DEF Batch, Current
<1>7. \/ /\ qOut[w] # << >>
         /\ rez' = Append(rez, Head(qOut[w]))
         /\ qOut' = [qOut EXCEPT ![w] = Tail(@)]
      \/ UNCHANGED << rez, qOut >>
  BY <1>3 DEF Poll
<1>8. qOut[w] \in Seq(Result) /\ qIn[w] \in Seq(Result) /\ rez \in Seq(Result) /\ Line(w) \in Seq(Result)
  BY <1>1, <1>4, LinesTyped DEF TypeOK
<1>9. kStep' = kStep + 1 /\ kStep' \in Nat
  BY <1>1 DEF Poll, Counted, TypeOK
<1>10. TypeOK'
  <2>1. rez' \in Seq(Result) /\ qOut' \in [Workers -> Seq(Result)]
    <3>1. CASE qOut[w] # << >> /\ rez' = Append(rez, Head(qOut[w])) /\ qOut' = [qOut EXCEPT ![w] = Tail(@)]
      <4>1. Head(qOut[w]) \in Result /\ Tail(qOut[w]) \in Seq(Result)
        BY <1>8, <3>1, HeadTailProperties
      <4>2. rez' \in Seq(Result)
        BY <1>8, <3>1, <4>1, AppendProperties
      <4>3. QED
        BY <1>1, <3>1, <4>1, <4>2 DEF TypeOK
    <3>2. CASE UNCHANGED << rez, qOut >>
      BY <1>1, <3>2 DEF TypeOK
    <3>3. QED
      BY <1>7, <3>1, <3>2
  <2>2. QED
    BY <1>1, <1>5, <1>9, <2>1 DEF TypeOK
<1>11. WithinWork'
  BY <1>5 DEF IInv, WithinWork
<1>12. Busy'
  <2>1. kStep + 1 <= Len(Batch) * Tries
    BY <1>1, <1>2, PollsBounded DEF BatchUnderWay, TypeOK, Poll
  <2>2. BatchUnderWay'
    BY <1>1, <1>5, <1>6, <1>9, <2>1 DEF BatchUnderWay
  <2>3. QED
    BY <1>1, <1>5, <2>2 DEF Busy
<1>13. Undisturbed'
  <2>1. SUFFICES ASSUME ~ disturbed' PROVE EachAtOnePlace'
    BY <1>1, <1>5 DEF Undisturbed
  <2>2. EachAtOnePlace
    BY <1>1, <1>5, <2>1
  <2>3. CASE qOut[w] # << >> /\ rez' = Append(rez, Head(qOut[w])) /\ qOut' = [qOut EXCEPT ![w] = Tail(@)]
    <3>1. Line(w) # << >> /\ Head(Line(w)) = Head(qOut[w]) /\ Tail(Line(w)) = Tail(qOut[w]) \o qIn[w]
      BY <1>8, <2>3, TailOfConcat DEF Line
    <3>2. rez' = Append(rez, Head(Line(w)))
      BY <2>3, <3>1
    <3>3. Collected(rez, Batch, round, Current) /\ Pending(Line(w), w, rez, Batch, round, Current, workPool)
      BY <1>4, <2>2 DEF EachAtOnePlace
    <3>4. Collected(rez', Batch, round, Current) /\ Pending(Tail(Line(w)), w, rez', Batch, round, Current, workPool)
      BY <1>8, <3>1, <3>2, <3>3, PollTakes
    <3>5. ASSUME NEW v \in Workers PROVE Pending(qOut'[v] \o qIn'[v], v, rez', Batch, round, Current, workPool)
      <4>1. CASE v = w
        <5>1. qOut'[w] \o qIn'[w] = Tail(Line(w))
          BY <1>1, <1>4, <1>5, <2>3, <3>1 DEF TypeOK
        <5>2. QED
          BY <3>4, <4>1, <5>1
      <4>2. CASE v # w
        <5>1. qOut'[v] \o qIn'[v] = Line(v)
          BY <1>1, <1>5, <2>3, <4>2 DEF TypeOK, Line
        <5>2. Pending(Line(v), v, rez, Batch, round, Current, workPool)
          BY <2>2 DEF EachAtOnePlace
        <5>3. Pending(Line(v), v, rez', Batch, round, Current, workPool)
          BY <1>8, <3>1, <3>2, <3>3, <4>2, <5>2, PollOfAnother
        <5>4. QED
          BY <5>1, <5>3
      <4>3. QED
        BY <4>1, <4>2
    <3>6. QED
      BY <1>5, <1>6, <3>4, <3>5 DEF EachAtOnePlace, Line, Collected, Pending, ResultOf, WorkerOf
  <2>4. CASE UNCHANGED << rez, qOut >>
    BY <1>5, <1>6, <2>2, <2>4 DEF EachAtOnePlace, Line, Collected, Pending, ResultOf, WorkerOf
  <2>5. QED
    BY <1>7, <2>3, <2>4
<1>14. ResultsOfOwnBatch' /\ OnlyOwnResults'
  BY <1>5 DEF IInv, ResultsOfOwnBatch, OnlyOwnResults, ResultOf
<1>15. Answer' /\ OnlyConflictsRaise'
  BY <1>1, <1>5 DEF Answer, OnlyConflictsRaise
<1>16. QED
  BY <1>10, <1>11, <1>12, <1>13, <1>14, <1>15 DEF IInv

LEMMA CollectInvariant == ASSUME IInv, Collect PROVE IInv'
<1>1. TypeOK /\ phase = "wait" /\ BatchUnderWay /\ (~ disturbed => EachAtOnePlace) /\ Current <= Len(work)
  BY DEF IInv, Collect, Busy, Undisturbed, BatchUnderWay
<1>2. /\ Batch \in Seq(Txs) /\ Len(Batch) \in Nat /\ Len(Batch) > 0
      /\ Current \in Nat /\ Current \in DOMAIN work /\ round \in Nat
  <2>1. Batch \in Seq(Txs) /\ Batch # << >>
    BY <1>1, WorkTyped DEF BatchUnderWay
  <2>2. Len(Batch) \in Nat /\ Len(Batch) > 0
    BY <2>1
  <2>3. QED
    BY <1>1, <2>1, <2>2, WorkTyped
<1>3. /\ rezBatch' = Append(rezBatch, rez)
      /\ busyPool' = busyPool \ ToSet(workPool)
      /\ disturbed' = (disturbed \/ (kStep = Len(Batch) * Tries /\ Len(rez) < Len(Batch)))
      /\ phase' = "submit"
      /\ UNCHANGED << round, work, workPool, kStep, rez, qIn, qOut, alive, sent >>
      /\ WaitIsOver(Len(Batch))
  BY DEF Collect, FreePool, queueVars
<1>4. rezBatch \in Seq(Seq(Result)) /\ rez \in Seq(Result) /\ kStep \in Nat
  BY <1>1 DEF TypeOK
<1>5. /\ rezBatch' \in Seq(Seq(Result)) /\ Len(rezBatch') = Current
      /\ \A b \in DOMAIN rezBatch' :
           \/ b \in DOMAIN rezBatch /\ rezBatch'[b] = rezBatch[b]
           \/ b = Current /\ rezBatch'[b] = rez
  BY <1>3, <1>4, OneMoreBatch DEF Current
<1>6. busyPool' = {}
  BY <1>1, <1>3 DEF TypeOK
<1>7. TypeOK'
  <2>1. disturbed' \in BOOLEAN
    BY <1>3
  <2>2. QED
    BY <1>1, <1>3, <1>5, <1>6, <2>1 DEF TypeOK
<1>8. WithinWork' /\ Busy'
  BY <1>1, <1>3, <1>5, <1>6 DEF WithinWork, Busy
<1>9. ASSUME ~ disturbed'
      PROVE  ~ disturbed /\ Len(rez) >= Len(Batch) /\ Collected(rez, Batch, round, Current)
  <2>1. ~ disturbed /\ ~ (kStep = Len(Batch) * Tries /\ Len(rez) < Len(Batch))
    BY <1>3, <1>9
  <2>2. Len(rez) >= Len(Batch)
    <3>1. PICK all \in Nat : all = Len(Batch) * Tries
      BY <1>2, ExecutionAssumption, FullPasses
    <3>2. kStep <= all
      BY <1>1, <3>1 DEF BatchUnderWay
    <3>3. Len(rez) >= Len(Batch) \/ kStep >= all
      BY <1>3, <3>1 DEF WaitIsOver
    <3>4. Len(rez) \in Nat
      BY <1>4
    <3>5. QED
      BY <1>2, <1>4, <2>1, <3>1, <3>2, <3>3, <3>4
  <2>3. QED
    BY <1>1, <2>1, <2>2 DEF EachAtOnePlace
<1>10. Undisturbed'
  <2>1. SUFFICES ASSUME ~ disturbed' PROVE QueuesEmpty'
    BY <1>3 DEF Undisturbed
  <2>2. ~ disturbed /\ Len(rez) >= Len(Batch) /\ Collected(rez, Batch, round, Current)
    BY <1>9, <2>1
  <2>3. ASSUME NEW w \in Workers PROVE Line(w) = << >>
    <3>1. Line(w) \in Seq(Result)
      BY <1>1, LinesTyped
    <3>2. Pending(Line(w), w, rez, Batch, round, Current, workPool)
      BY <1>1, <2>2 DEF EachAtOnePlace
    <3>3. QED
      BY <1>2, <1>4, <2>2, <3>1, <3>2, NothingPending
  <2>4. QED
    BY <1>3, <2>3 DEF QueuesEmpty, Line
<1>11. ResultsOfOwnBatch'
  <2>1. SUFFICES ASSUME ~ disturbed', NEW b \in DOMAIN rezBatch'
                 PROVE  /\ Len(rezBatch'[b]) = Len(work'[b])
                        /\ \A n \in DOMAIN work'[b] :
                             [tx |-> work'[b][n], round |-> round', batch |-> b, number |-> n - 1] \in ToSet(rezBatch'[b])
    BY DEF ResultsOfOwnBatch
  <2>2. ~ disturbed /\ Len(rez) >= Len(Batch) /\ Collected(rez, Batch, round, Current)
    BY <1>9, <2>1
  <2>3. CASE b = Current /\ rezBatch'[b] = rez
    <3>1. work'[b] = Batch /\ round' = round
      BY <1>3, <2>3 DEF Batch
    <3>2. /\ Len(rez) = Len(Batch)
          /\ \A x \in Result : ResultOf(x, Batch, round, Current) => x \in ToSet(rez)
      BY <1>2, <1>4, <2>2, AllCollected
    <3>3. ASSUME NEW n \in DOMAIN Batch
          PROVE  [tx |-> Batch[n], round |-> round, batch |-> Current, number |-> n - 1] \in ToSet(rez)
      <4>1. PICK x : x = [tx |-> Batch[n], round |-> round, batch |-> Current, number |-> n - 1]
        OBVIOUS
      <4>2. ResultOf(x, Batch, round, Current) /\ x \in Result
        BY <1>2, <4>1, ResultOfPlace
      <4>3. QED
        BY <3>2, <4>1, <4>2
    <3>4. QED
      BY <2>3, <3>1, <3>2, <3>3
  <2>4. CASE b \in DOMAIN rezBatch /\ rezBatch'[b] = rezBatch[b]
    BY <1>3, <2>2, <2>4 DEF IInv, ResultsOfOwnBatch
  <2>5. QED
    BY <1>5, <2>3, <2>4
<1>12. OnlyOwnResults'
  <2>1. SUFFICES ASSUME ~ disturbed', NEW b \in DOMAIN rezBatch', NEW x \in ToSet(rezBatch'[b])
                 PROVE  ResultOf(x, work[b], round, b)
    BY <1>3 DEF OnlyOwnResults, ResultOf
  <2>2. ~ disturbed /\ Collected(rez, Batch, round, Current)
    BY <1>9, <2>1
  <2>3. CASE b = Current /\ rezBatch'[b] = rez
    BY <2>1, <2>2, <2>3 DEF Collected, Batch
  <2>4. CASE b \in DOMAIN rezBatch /\ rezBatch'[b] = rezBatch[b]
    BY <2>1, <2>2, <2>4 DEF IInv, OnlyOwnResults
  <2>5. QED
    BY <1>5, <2>3, <2>4
<1>13. Answer' /\ OnlyConflictsRaise'
  BY <1>3 DEF Answer, OnlyConflictsRaise
<1>14. QED
  BY <1>7, <1>8, <1>10, <1>11, <1>12, <1>13 DEF IInv

LEMMA FinishInvariant == ASSUME IInv, Finish PROVE IInv'
<1>1. TypeOK /\ phase = "submit" /\ busyPool = {} /\ (~ disturbed => QueuesEmpty)
  BY DEF IInv, Finish, Busy, Undisturbed
<1>2. GetPool(1) # << >>
  <2>1. PICK pool : pool = GetPool(1)
    OBVIOUS
  <2>2. QED
    BY <1>1, <2>1, PoolFacts
<1>3. /\ UNCHANGED << round, work, rezBatch, workPool, kStep, rez, qIn, qOut, alive, busyPool, disturbed >>
      /\ \/ Conflicts(rezBatch) /\ phase' = "raised" /\ sent' = sent
         \/ ~ Conflicts(rezBatch) /\ phase' = "idle" /\ sent' = Sbcs(rezBatch)
  BY <1>2 DEF Finish, queueVars
<1>4. TypeOK'
  BY <1>1, <1>3 DEF TypeOK
<1>5. WithinWork' /\ Busy'
  BY <1>1, <1>3 DEF IInv, WithinWork, Busy
<1>6. Undisturbed'
  BY <1>1, <1>3 DEF Undisturbed, QueuesEmpty, Line
<1>7. ResultsOfOwnBatch' /\ OnlyOwnResults'
  BY <1>3 DEF IInv, ResultsOfOwnBatch, OnlyOwnResults, ResultOf
<1>8. Answer'
  <2>1. SUFFICES ASSUME phase' = "idle"
                 PROVE  Len(rezBatch) = Len(work) /\ sent' = Sbcs(rezBatch) /\ ~ Conflicts(rezBatch)
    BY <1>3 DEF Answer, Sbcs, Conflicts, Clash
  <2>2. sent' = Sbcs(rezBatch) /\ ~ Conflicts(rezBatch)
    BY <1>3, <2>1
  <2>3. Len(rezBatch) + 1 > Len(work) /\ Len(rezBatch) <= Len(work)
    BY DEF Finish, Current, IInv, WithinWork
  <2>4. Len(rezBatch) \in Nat /\ Len(work) \in Nat
    BY <1>1, WorkTyped
  <2>5. QED
    BY <2>2, <2>3, <2>4
<1>9. OnlyConflictsRaise'
  BY <1>3 DEF OnlyConflictsRaise, Conflicts, Clash
<1>10. QED
  BY <1>4, <1>5, <1>6, <1>7, <1>8, <1>9 DEF IInv

----------------------------------------------------------------------------
(* The theorems. *)

\* Every state of an execution satisfies the inductive invariant.
THEOREM Invariant == Spec => []IInv
<1>1. Init => IInv
  BY InitInvariant
<1>2. IInv /\ [Next]_vars => IInv'
  <2>1. SUFFICES ASSUME IInv, [Next]_vars PROVE IInv'
    OBVIOUS
  <2>2. CASE StartWork
    BY <2>1, <2>2, StartWorkInvariant
  <2>3. CASE Submit
    BY <2>1, <2>3, SubmitInvariant
  <2>4. CASE SkipEmpty
    BY <2>1, <2>4, SkipEmptyInvariant
  <2>5. CASE Poll
    BY <2>1, <2>5, PollInvariant
  <2>6. CASE Collect
    BY <2>1, <2>6, CollectInvariant
  <2>7. CASE Finish
    BY <2>1, <2>7, FinishInvariant
  <2>8. ASSUME NEW w \in Workers, Run(w) PROVE IInv'
    BY <2>1, <2>8, RunInvariant
  <2>9. ASSUME NEW w \in Workers, Stop(w) PROVE IInv'
    BY <2>1, <2>9, StopInvariant
  <2>10. CASE UNCHANGED vars
    <3>1. /\ UNCHANGED << phase, round, work, rezBatch, workPool, kStep, rez, busyPool, sent >>
          /\ UNCHANGED << qIn, qOut, alive, disturbed >>
      BY <2>10 DEF vars
    <3>2. /\ qIn' \in [Workers -> Seq(Result)] /\ qOut' \in [Workers -> Seq(Result)]
          /\ alive' \subseteq Workers /\ disturbed' \in BOOLEAN
      BY <2>1, <3>1 DEF IInv, TypeOK
    <3>3. \A w \in Workers : qOut'[w] \o qIn'[w] = Line(w)
      BY <3>1 DEF Line
    <3>4. QED
      BY <2>1, <3>1, <3>2, <3>3, WorkerStep
  <2>11. QED
    BY <2>1, <2>2, <2>3, <2>4, <2>5, <2>6, <2>7, <2>8, <2>9, <2>10 DEF Next, Delegate
<1>3. QED
  BY <1>1, <1>2, PTL DEF Spec

\* The queues, pools and results always have their types, and the busy workers
\* are those of the pool under way (execution.py:30-60, 154-178).
THEOREM TypeCorrect == Spec => []TypeOK
<1>1. IInv => TypeOK
  BY DEF IInv
<1>2. QED
  BY <1>1, Invariant, PTL

\* Whatever the numbers of workers, transactions and batches, the results of an
\* undisturbed batch are those of its transactions, each once (execution.py:191-210).
THEOREM ResultsOwn == Spec => []ResultsOfOwnBatch
<1>1. IInv => ResultsOfOwnBatch
  BY DEF IInv
<1>2. QED
  BY <1>1, Invariant, PTL

\* The results of undisturbed batches conflict only if their transactions do.
LEMMA ClashOfResults ==
    ASSUME IInv, ~ disturbed, Conflicts(rezBatch)
    PROVE  ClashIn(work)
<1>1. PICK b, c \in DOMAIN rezBatch : \E r \in ToSet(rezBatch[b]), s \in ToSet(rezBatch[c]) : Clash(r, s)
  BY DEF Conflicts
<1>2. PICK r \in ToSet(rezBatch[b]), s \in ToSet(rezBatch[c]) : Clash(r, s)
  BY <1>1
<1>3. ResultOf(r, work[b], round, b) /\ ResultOf(s, work[c], round, c)
  BY DEF IInv, OnlyOwnResults
<1>4. r.tx \in ToSet(work[b]) /\ s.tx \in ToSet(work[c])
  BY <1>3 DEF ResultOf, ToSet
<1>5. b \in DOMAIN work /\ c \in DOMAIN work
  <2>1. work \in Seq(Seq(Txs)) /\ rezBatch \in Seq(Seq(Result)) /\ Len(rezBatch) <= Len(work)
    BY WorkTyped DEF IInv, TypeOK, WithinWork
  <2>2. QED
    BY <2>1
<1>6. Clash([tx |-> r.tx], [tx |-> s.tx])
  BY <1>2 DEF Clash
<1>7. QED
  BY <1>4, <1>5, <1>6 DEF ClashIn

\* All transactions of undisturbed batches have results.
LEMMA ResultOfEach ==
    ASSUME IInv, ~ disturbed, NEW b \in DOMAIN rezBatch, NEW t \in ToSet(work[b])
    PROVE  \E r \in ToSet(rezBatch[b]) : r.tx = t
<1>1. PICK n \in DOMAIN work[b] : t = work[b][n]
  BY DEF ToSet
<1>2. PICK r : r = [tx |-> work[b][n], round |-> round, batch |-> b, number |-> n - 1]
  OBVIOUS
<1>3. r \in ToSet(rezBatch[b])
  BY <1>2 DEF IInv, ResultsOfOwnBatch
<1>4. QED
  BY <1>1, <1>2, <1>3

\* They conflict if their transactions do, once all batches are executed.
LEMMA ResultsOfClash ==
    ASSUME IInv, ~ disturbed, Len(rezBatch) = Len(work), ClashIn(work)
    PROVE  Conflicts(rezBatch)
<1>1. PICK b, c \in DOMAIN work : \E t \in ToSet(work[b]), u \in ToSet(work[c]) : Clash([tx |-> t], [tx |-> u])
  BY DEF ClashIn
<1>2. PICK t \in ToSet(work[b]), u \in ToSet(work[c]) : Clash([tx |-> t], [tx |-> u])
  BY <1>1
<1>3. b \in DOMAIN rezBatch /\ c \in DOMAIN rezBatch
  <2>1. work \in Seq(Seq(Txs)) /\ rezBatch \in Seq(Seq(Result))
    BY WorkTyped DEF IInv, TypeOK
  <2>2. QED
    BY <2>1
<1>4. PICK r \in ToSet(rezBatch[b]) : r.tx = t
  BY <1>3, ResultOfEach
<1>5. PICK s \in ToSet(rezBatch[c]) : s.tx = u
  BY <1>3, ResultOfEach
<1>6. Clash(r, s)
  BY <1>2, <1>4, <1>5 DEF Clash
<1>7. QED
  BY <1>3, <1>6 DEF Conflicts

\* Whatever the numbers of workers, transactions and batches and whatever they
\* read and write, an undisturbed round is answered by results of all its
\* transactions just if no two of these conflict (execution.py:235-276, 370-403).
THEOREM AnsweredOrClash == Spec => []AnsweredUnlessClash
<1>1. IInv => AnsweredUnlessClash
  <2>1. SUFFICES ASSUME IInv, ~ disturbed
                 PROVE  /\ phase = "raised" => ClashIn(work)
                        /\ phase = "idle" /\ round > 0 =>
                             /\ ~ ClashIn(work) /\ Len(sent) = Len(work)
                             /\ \A b \in DOMAIN work : \A t \in ToSet(work[b]) :
                                  \E r \in ToSet(sent[b].results) : r.tx = t
    BY DEF AnsweredUnlessClash
  <2>2. ASSUME phase = "raised" PROVE ClashIn(work)
    BY <2>1, <2>2, ClashOfResults DEF IInv, OnlyConflictsRaise
  <2>3. ASSUME phase = "idle", round > 0
        PROVE  /\ ~ ClashIn(work) /\ Len(sent) = Len(work)
               /\ \A b \in DOMAIN work : \A t \in ToSet(work[b]) : \E r \in ToSet(sent[b].results) : r.tx = t
    <3>1. Len(rezBatch) = Len(work) /\ sent = Sbcs(rezBatch) /\ ~ Conflicts(rezBatch)
      BY <2>1, <2>3 DEF IInv, Answer
    <3>2. work \in Seq(Seq(Txs)) /\ rezBatch \in Seq(Seq(Result)) /\ Len(rezBatch) \in Nat
      BY <2>1, WorkTyped DEF IInv, TypeOK
    <3>3. /\ DOMAIN sent = DOMAIN rezBatch /\ DOMAIN work = DOMAIN rezBatch
          /\ DOMAIN rezBatch = 1 .. Len(rezBatch)
          /\ \A b \in DOMAIN rezBatch : sent[b].results = rezBatch[b]
      BY <3>1, <3>2 DEF Sbcs
    <3>4. Len(sent) = Len(work)
      BY <3>1, <3>2, <3>3
    <3>5. ~ ClashIn(work)
      BY <2>1, <3>1, ResultsOfClash
    <3>6. \A b \in DOMAIN work : \A t \in ToSet(work[b]) : \E r \in ToSet(sent[b].results) : r.tx = t
      BY <2>1, <3>3, ResultOfEach
    <3>7. QED
      BY <3>4, <3>5, <3>6
  <2>4. QED
    BY <2>2, <2>3
<1>2. QED
  BY <1>1, Invariant, PTL

\* A pool of one worker or more never runs out: only conflicts end the delegate
\* (execution.py:154-178, 246-255).
THEOREM OnlyConflicts == Spec => []OnlyConflictsRaise
<1>1. IInv => OnlyConflictsRaise
  BY DEF IInv
<1>2. QED
  BY <1>1, Invariant, PTL
----------------------------------------------------------------------------
(* execute_work comes to an end. *)

Working == phase \in {"submit", "wait"}

\* What is left to do: batches, and for the next one its polls and its submission.
BatchesLeft == Len(work) - Len(rezBatch)
PollsLeft ==
    IF phase = "wait" THEN Len(Batch) * Tries - kStep
    ELSE IF Current <= Len(work) THEN Len(Batch) * Tries + 1 ELSE 0

\* Less is left than a batches, or a batches and b polls.
LessLeft(a, b) == BatchesLeft < a \/ (BatchesLeft = a /\ PollsLeft < b)

LEMMA LeftTyped ==
    ASSUME IInv, Working
    PROVE  /\ BatchesLeft \in Nat /\ PollsLeft \in Nat
           /\ Current <= Len(work) => Len(Batch) \in Nat /\ Len(Batch) * Tries \in Nat
<1>1. /\ TypeOK /\ Len(work) \in Nat /\ Len(rezBatch) \in Nat
      /\ Len(rezBatch) <= Len(work) /\ kStep \in Nat
  BY WorkTyped DEF IInv, WithinWork, TypeOK
<1>2. BatchesLeft \in Nat
  BY <1>1 DEF BatchesLeft
<1>3. ASSUME Current <= Len(work) PROVE Len(Batch) \in Nat /\ Len(Batch) * Tries \in Nat
  <2>1. Batch \in Seq(Txs)
    BY <1>1, <1>3, WorkTyped
  <2>2. Len(Batch) \in Nat /\ Tries \in Nat
    BY <2>1, ExecutionAssumption
  <2>3. QED
    BY <2>2
<1>4. PollsLeft \in Nat
  <2>1. CASE phase = "wait"
    <3>1. Current <= Len(work) /\ kStep <= Len(Batch) * Tries
      BY <2>1 DEF IInv, Busy, BatchUnderWay
    <3>2. PICK polls \in Nat : polls = Len(Batch) * Tries
      BY <1>3, <3>1
    <3>3. polls - kStep \in Nat
      BY <1>1, <3>1, <3>2
    <3>4. QED
      BY <2>1, <3>2, <3>3 DEF PollsLeft
  <2>2. CASE phase # "wait"
    BY <1>3, <2>2 DEF PollsLeft
  <2>3. QED
    BY <2>1, <2>2
<1>5. QED
  BY <1>2, <1>3, <1>4

LEMMA LeftTypedNext == IInv' /\ Working' => (BatchesLeft \in Nat /\ PollsLeft \in Nat)'
<1>1. IInv /\ Working => BatchesLeft \in Nat /\ PollsLeft \in Nat
  BY LeftTyped
<1>2. QED
  BY <1>1, PTL

\* A step of the delegate ends execute_work or leaves less to do.
LEMMA DelegateAdvances ==
    ASSUME IInv, Working, Delegate, NEW a, NEW b, a = BatchesLeft, b = PollsLeft
    PROVE  ~ Working' \/ LessLeft(a, b)'
<1>1. /\ TypeOK /\ Len(work) \in Nat /\ rezBatch \in Seq(Seq(Result)) /\ rez \in Seq(Result)
      /\ Len(rezBatch) \in Nat /\ kStep \in Nat /\ a \in Nat /\ b \in Nat
  BY WorkTyped, LeftTyped DEF IInv, TypeOK
<1>2. CASE StartWork \/ Finish
  BY <1>2 DEF StartWork, Finish, Working
<1>3. CASE SkipEmpty
  <2>1. rezBatch' = Append(rezBatch, << >>) /\ work' = work
    BY <1>3 DEF SkipEmpty
  <2>2. Len(rezBatch') = Len(rezBatch) + 1
    BY <1>1, <2>1
  <2>3. BatchesLeft' < a
    BY <1>1, <2>1, <2>2 DEF BatchesLeft
  <2>4. QED
    BY <2>3 DEF LessLeft
<1>4. CASE Collect
  <2>1. rezBatch' = Append(rezBatch, rez) /\ work' = work
    BY <1>4 DEF Collect
  <2>2. Len(rezBatch') = Len(rezBatch) + 1
    BY <1>1, <2>1
  <2>3. BatchesLeft' < a
    BY <1>1, <2>1, <2>2 DEF BatchesLeft
  <2>4. QED
    BY <2>3 DEF LessLeft
<1>5. CASE Submit
  <2>1. /\ phase = "submit" /\ Current <= Len(work) /\ kStep' = 0
        /\ work' = work /\ rezBatch' = rezBatch /\ phase' \in {"wait", "raised"}
    BY <1>5 DEF Submit
  <2>2. PICK polls \in Nat : polls = Len(Batch) * Tries
    BY <2>1, LeftTyped
  <2>3. b = polls + 1
    BY <2>1, <2>2 DEF PollsLeft
  <2>4. Batch' = Batch /\ BatchesLeft' = a
    BY <2>1 DEF Batch, Current, BatchesLeft
  <2>5. CASE phase' = "wait"
    <3>1. PollsLeft' = polls - 0
      BY <2>1, <2>2, <2>4, <2>5 DEF PollsLeft
    <3>2. PollsLeft' < b
      BY <2>2, <2>3, <3>1
    <3>3. QED
      BY <2>4, <3>2 DEF LessLeft
  <2>6. QED
    BY <2>1, <2>5 DEF Working
<1>6. CASE Poll
  <2>1. /\ phase = "wait" /\ phase' = phase /\ work' = work /\ rezBatch' = rezBatch
        /\ kStep' = kStep + 1
    BY <1>6 DEF Poll, Counted
  <2>2. Current <= Len(work)
    BY <2>1 DEF IInv, Busy, BatchUnderWay
  <2>3. PICK polls \in Nat : polls = Len(Batch) * Tries
    BY <2>2, LeftTyped
  <2>4. b = polls - kStep
    BY <2>1, <2>3 DEF PollsLeft
  <2>5. Batch' = Batch /\ BatchesLeft' = a
    BY <2>1 DEF Batch, Current, BatchesLeft
  <2>6. PollsLeft' = polls - (kStep + 1)
    BY <2>1, <2>3, <2>5 DEF PollsLeft
  <2>7. PollsLeft' < b
    BY <1>1, <2>3, <2>4, <2>6
  <2>8. QED
    BY <2>5, <2>7 DEF LessLeft
<1>7. QED
  BY <1>2, <1>3, <1>4, <1>5, <1>6 DEF Delegate

\* Workers change nothing of it.
LEMMA WorkersWait ==
    ASSUME [Next]_vars, ~ Delegate
    PROVE  UNCHANGED << phase, work, rezBatch, kStep >>
BY DEF Next, Run, Stop, vars

\* execute_work never lacks a step (an assumption here, for ENABLED is beyond
\* the provers).
Runnable == Working => ENABLED << Delegate >>_vars

\* Whatever the workers do, hang or stop, execute_work ends or gets closer to its
\* end: fewer batches are left, or fewer polls of the batch under way
\* (execution.py:195-209).  Both are natural numbers, so that it ends, which is
\* ExecutionEnds; that last induction is beyond the provers.
THEOREM ExecutionAdvances ==
    ASSUME NEW a \in Nat, NEW b \in Nat
    PROVE  Spec /\ []Runnable
           => (Working /\ BatchesLeft = a /\ PollsLeft = b
                 ~> \/ ~ Working
                    \/ LessLeft(a, b) /\ BatchesLeft \in Nat /\ PollsLeft \in Nat)
<1>1. IInv /\ IInv' /\ Working /\ BatchesLeft = a /\ PollsLeft = b /\ [Next]_vars
        => \/ (Working /\ BatchesLeft = a /\ PollsLeft = b)'
           \/ (~ Working)'
           \/ (LessLeft(a, b) /\ BatchesLeft \in Nat /\ PollsLeft \in Nat)'
  <2> SUFFICES ASSUME IInv, IInv', Working, BatchesLeft = a, PollsLeft = b, [Next]_vars, Working'
               PROVE  \/ (BatchesLeft = a /\ PollsLeft = b)'
                      \/ (LessLeft(a, b) /\ BatchesLeft \in Nat /\ PollsLeft \in Nat)'
    OBVIOUS
  <2>1. (BatchesLeft \in Nat /\ PollsLeft \in Nat)'
    BY LeftTypedNext
  <2>2. CASE Delegate
    BY <2>1, <2>2, DelegateAdvances
  <2>3. CASE ~ Delegate
    <3>1. UNCHANGED << phase, work, rezBatch, kStep >>
      BY <2>3, WorkersWait
    <3>2. QED
      BY <3>1 DEF BatchesLeft, PollsLeft, Batch, Current
  <2>4. QED
    BY <2>2, <2>3
<1>2. IInv /\ IInv' /\ Working /\ BatchesLeft = a /\ PollsLeft = b /\ << Delegate >>_vars
        => \/ (~ Working)'
           \/ (LessLeft(a, b) /\ BatchesLeft \in Nat /\ PollsLeft \in Nat)'
  <2> SUFFICES ASSUME IInv, IInv', Working, BatchesLeft = a, PollsLeft = b, Delegate, Working'
               PROVE  (LessLeft(a, b) /\ BatchesLeft \in Nat /\ PollsLeft \in Nat)'
    OBVIOUS
  <2>1. (BatchesLeft \in Nat /\ PollsLeft \in Nat)'
    BY LeftTypedNext
  <2>2. QED
    BY <2>1, DelegateAdvances
<1>3. Runnable /\ Working => ENABLED << Delegate >>_vars
  BY DEF Runnable
<1>4. QED
  BY <1>1, <1>2, <1>3, Invariant, PTL DEF Spec, Fairness
=============================================================================
