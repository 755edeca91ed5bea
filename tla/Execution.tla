------------------------------ MODULE Execution ------------------------------
(***************************************************************************)
(* How a delegate executes the work of a round (execution.py): a pool of   *)
(* worker processes, one input and one output queue per worker, a wait for *)
(* results that is bounded by a number of polls, and the check for         *)
(* conflicting results before the SBCs are made.                           *)
(*                                                                         *)
(*   "idle"     between two calls of execute_work                          *)
(*   "submit"   in execute_work, before the next batch                     *)
(*   "wait"     inside wait_tx_result                                      *)
(*   "raised"   an exception ended execute_work, and with it Delegate.run  *)
(*                                                                         *)
(* execute_work never awaits, so nothing else of the delegate runs during  *)
(* it: only the workers do.  The contract interpreter is external: what a  *)
(* transaction reads and writes is a constant.                             *)
(***************************************************************************)
EXTENDS SequencesExt, Subsequences

CONSTANTS
    NWorker,        \* __N_WORKER__, the number of worker processes
    PerDelegate,    \* __N_WORKER_PER_DELEGATES__
    Tries,          \* N_TRY_PER_TX
    Parallelism,    \* execute_work's parallelism
    Txs,            \* transactions, told apart by their hashes
    Keys,           \* state keys
    Reads,          \* Reads[t]: keys that t reads
    Writes,         \* Writes[t]: keys that t writes a value other than None to
    Works,          \* the work a round may bring: sequences of batches of transactions
    MaxRounds       \* bound: rounds of the delegate's loop

ASSUME ExecutionAssumption ==
    /\ NWorker \in Nat /\ PerDelegate \in 1 .. NWorker
    /\ Tries \in Nat /\ Tries > 0
    /\ Parallelism \in Nat /\ Parallelism > 0
    /\ Reads \in [Txs -> SUBSET Keys] /\ Writes \in [Txs -> SUBSET Keys]
    /\ \A work \in Works : work \in Seq(Seq(Txs))
    /\ MaxRounds \in Nat

VARIABLES
    phase,      \* where the delegate is, see above
    round,      \* rounds begun
    work,       \* the batches of the round
    rezBatch,   \* rez_batch: the results of the batches executed so far
    workPool,   \* work_pool of the batch under way: some workers, in order
    kStep,      \* k_step: polls done for this batch
    rez,        \* rez: results collected for this batch
    qIn,        \* qIn[w]: transactions submitted to worker w
    qOut,       \* qOut[w]: results of worker w not yet collected
    alive,      \* workers that have not met an exception
    busyPool,   \* workers whose busy_pool entry is 1
    sent,       \* the SBCs of the last round executed
    disturbed   \* history: some wait ran out of polls, or some worker stopped

vars == << phase, round, work, rezBatch, workPool, kStep, rez, qIn, qOut, alive, busyPool, sent, disturbed >>
queueVars == << qIn, qOut, alive >>

\* A submitted transaction, and the result of it: the round and batch it was
\* submitted in, and its tx_number there.
Result == [tx : Txs, round : Nat, batch : Nat, number : Nat]

Workers == 1 .. NWorker

Current == Len(rezBatch) + 1    \* the batch under way
Batch == work[Current]

----------------------------------------------------------------------------
\* The worker that transaction i (from 0) of a batch goes to.
WorkerOf(i, pool) == pool[(i % Len(pool)) + 1]

\* The transactions of a batch that go to worker w, in order.
Share(w, batch, pool, r, b) ==
    LET items == [n \in DOMAIN batch |-> [tx |-> batch[n], round |-> r, batch |-> b, number |-> n - 1]]
    IN  AtPlaces(items, {n \in DOMAIN batch : WorkerOf(n - 1, pool) = w})

\* get_pool: the first free workers, as many as needed but no more than
\* PerDelegate.  With none free it raises: `time` is the function, not the module.
GetPool(needed) ==
    LET free == Workers \ busyPool
        wanted == IF needed < PerDelegate THEN needed ELSE PerDelegate
    IN  [k \in 1 .. (IF wanted < Cardinality(free) THEN wanted ELSE Cardinality(free)) |-> Nth(free, k)]

\* A bug to catch: the workers of a batch stay marked busy.
FreePoolNever(busy) == busy

\* free_pool
FreePool(busy) == busy \ ToSet(workPool)

\* A bug to catch: the last result is not waited for.
WaitIsOverEarly(n) == kStep % n = 0 /\ (Len(rez) + 1 >= n \/ kStep >= n * Tries)

\* The loops of wait_tx_result end, n transactions having been submitted: a
\* pass of n polls is over, and all results are in or the polls are used up.
WaitIsOver(n) == kStep % n = 0 /\ (Len(rez) >= n \/ kStep >= n * Tries)

\* One of two results wrote a key that the other read or wrote.
Clash(r, s) == r.tx # s.tx /\ Writes[s.tx] \cap (Reads[r.tx] \cup Writes[r.tx]) # {}

\* A bug to catch: only results of the same batch are compared.
ConflictsPerBatch(rezs) ==
    \E b \in DOMAIN rezs : \E r, s \in ToSet(rezs[b]) : Clash(r, s)

\* check_conflict2 finds a conflict, within a batch or between two.
Conflicts(rezs) ==
    \E b, c \in DOMAIN rezs : \E r \in ToSet(rezs[b]), s \in ToSet(rezs[c]) : Clash(r, s)

----------------------------------------------------------------------------
Init ==
    /\ phase = "idle" /\ round = 0
    /\ work = << >> /\ rezBatch = << >> /\ workPool = << >> /\ kStep = 0 /\ rez = << >>
    /\ qIn = [w \in Workers |-> << >>] /\ qOut = [w \in Workers |-> << >>]
    /\ alive = Workers /\ busyPool = {}
    /\ sent = << >>
    /\ disturbed = FALSE

\* process_new_work calls execute_work with the batches of the round.
StartWork ==
    /\ phase = "idle" /\ round < MaxRounds
    /\ work' \in Works
    /\ round' = round + 1
    /\ rezBatch' = << >>
    /\ phase' = "submit"
    /\ UNCHANGED << workPool, kStep, rez, queueVars, busyPool, sent, disturbed >>

\* execute_tx_batch with transactions, up to wait_tx_result.
Submit ==
    /\ phase = "submit" /\ Current <= Len(work) /\ Batch # << >>
    /\ LET pool == GetPool(Len(Batch)) IN
        IF pool = << >>
        THEN phase' = "raised" /\ UNCHANGED << workPool, busyPool, qIn >>
        ELSE /\ phase' = "wait"
             /\ workPool' = pool
             /\ busyPool' = busyPool \cup ToSet(pool)
             /\ qIn' = [w \in Workers |-> qIn[w] \o Share(w, Batch, pool, round, Current)]
    /\ kStep' = 0 /\ rez' = << >>
    /\ UNCHANGED << round, work, rezBatch, qOut, alive, sent, disturbed >>

\* execute_tx_batch without transactions: an empty pool, and no polls.
SkipEmpty ==
    /\ phase = "submit" /\ Current <= Len(work) /\ Batch = << >>
    /\ rezBatch' = Append(rezBatch, << >>)
    /\ UNCHANGED << phase, round, work, workPool, kStep, rez, queueVars, busyPool, sent, disturbed >>

\* A worker executes the next transaction of its queue (ProcessThread.run).
Run(w) ==
    /\ w \in alive /\ qIn[w] # << >>
    /\ qOut' = [qOut EXCEPT ![w] = Append(@, Head(qIn[w]))]
    /\ qIn' = [qIn EXCEPT ![w] = Tail(@)]
    /\ UNCHANGED << phase, round, work, rezBatch, workPool, kStep, rez, alive, busyPool, sent, disturbed >>

\* execute_tx raises in a worker: the worker ends, its queue stays.
Stop(w) ==
    /\ w \in alive /\ qIn[w] # << >>
    /\ qIn' = [qIn EXCEPT ![w] = Tail(@)]
    /\ alive' = alive \ {w}
    /\ disturbed' = TRUE
    /\ UNCHANGED << phase, round, work, rezBatch, workPool, kStep, rez, qOut, busyPool, sent >>

\* A bug to catch: only a poll that got a result is counted.
CountedResults(got) == IF got THEN kStep + 1 ELSE kStep

\* Every poll is counted, before it is known whether it gets a result.
Counted(got) == kStep + 1

\* The worker that poll i of a pass asks.
Polled(i) == workPool[(i % Len(workPool)) + 1]

\* One poll of wait_tx_result: it takes a result or finds the queue empty.
Poll ==
    /\ phase = "wait"
    /\ kStep = 0 \/ ~ WaitIsOver(Len(Batch))
    /\ LET w == Polled(kStep % Len(Batch)) IN
        IF qOut[w] # << >>
        THEN /\ rez' = Append(rez, Head(qOut[w]))
             /\ qOut' = [qOut EXCEPT ![w] = Tail(@)]
        ELSE UNCHANGED << rez, qOut >>
    /\ kStep' = Counted(rez' # rez)
    /\ UNCHANGED << phase, round, work, rezBatch, workPool, qIn, alive, busyPool, sent, disturbed >>

\* wait_tx_result returns; execute_tx_batch frees the pool and returns.
Collect ==
    /\ phase = "wait"
    /\ kStep > 0 /\ WaitIsOver(Len(Batch))
    /\ rezBatch' = Append(rezBatch, rez)
    /\ busyPool' = FreePool(busyPool)
    /\ disturbed' = (disturbed \/ (kStep = Len(Batch) * Tries /\ Len(rez) < Len(Batch)))
    /\ phase' = "submit"
    /\ UNCHANGED << round, work, workPool, kStep, rez, queueVars, sent >>

\* The SBCs of a round, which are numbered modulo Parallelism.
Sbcs(rezs) == [b \in DOMAIN rezs |-> [subblock |-> (b - 1) % Parallelism, results |-> rezs[b]]]

\* All batches are executed.  check_conflict2 raises when there is a conflict
\* (tx_bad0 is a set, which has no append), so rerun_txs only ever gets an
\* empty batch: it takes one free worker and puts it back.
Finish ==
    /\ phase = "submit" /\ Current > Len(work)
    /\ IF Conflicts(rezBatch) \/ GetPool(1) = << >>
       THEN phase' = "raised" /\ UNCHANGED sent
       ELSE phase' = "idle" /\ sent' = Sbcs(rezBatch)
    /\ UNCHANGED << round, work, rezBatch, workPool, kStep, rez, queueVars, busyPool, disturbed >>

Delegate == StartWork \/ Submit \/ SkipEmpty \/ Poll \/ Collect \/ Finish

Next ==
    \/ Delegate
    \/ \E w \in Workers : Run(w) \/ Stop(w)

\* execute_work keeps running; nothing is assumed of the workers.
Fairness == WF_vars(Delegate)

Spec == Init /\ [][Next]_vars /\ Fairness

----------------------------------------------------------------------------
(* Properties. *)

\* Every variable holds values of its type; the busy workers are those of the
\* pool under way, which has none twice, and none are busy between rounds.
TypeOK ==
    /\ phase \in {"idle", "submit", "wait", "raised"}
    /\ round \in 0 .. MaxRounds
    /\ work \in Works \cup {<< >>}
    /\ rezBatch \in Seq(Seq(Result)) /\ rez \in Seq(Result) /\ kStep \in Nat
    /\ qIn \in [Workers -> Seq(Result)] /\ qOut \in [Workers -> Seq(Result)]
    /\ workPool \in Seq(Workers) /\ IsInjective(workPool)
    /\ alive \subseteq Workers /\ busyPool \subseteq Workers
    /\ phase = "wait" => busyPool = ToSet(workPool)
    /\ phase = "idle" => busyPool = {}
    /\ disturbed \in BOOLEAN

\* The transactions whose results `results` are.
TxsOf(results) == [i \in DOMAIN results |-> results[i].tx]

\* As long as no wait has run out of polls and no worker has stopped, the
\* results of a batch are those of its own transactions, each once: the polls
\* meet the modulo distribution of the submits, and nothing of another batch or
\* round is in the queues (execution.py:191-210, 294-302).  Afterwards late
\* results of one batch are taken for those of the next, for ever.
ResultsOfOwnBatch ==
    ~ disturbed => \A b \in DOMAIN rezBatch :
        /\ Len(rezBatch[b]) = Len(work[b])
        /\ \A n \in DOMAIN work[b] :
             [tx |-> work[b][n], round |-> round, batch |-> b, number |-> n - 1] \in ToSet(rezBatch[b])

\* Of two transactions of the round one writes what the other reads or writes,
\* in whatever batches they are.
ClashIn(batches) ==
    \E b, c \in DOMAIN batches : \E t \in ToSet(batches[b]), u \in ToSet(batches[c]) :
        Clash([tx |-> t], [tx |-> u])

\* A round in which nothing was disturbed is answered, and by results of all its
\* transactions, just if no two of these conflict: all are executed on the same
\* state.  What the queues, the polls and check_conflict2 make of the results has
\* nothing slip through and raises for nothing else (execution.py:235-276, 370-403).
AnsweredUnlessClash ==
    ~ disturbed =>
        /\ phase = "raised" => ClashIn(work)
        /\ phase = "idle" /\ round > 0 =>
             /\ ~ ClashIn(work) /\ Len(sent) = Len(work)
             /\ \A b \in DOMAIN work : \A t \in ToSet(work[b]) : \E r \in ToSet(sent[b].results) : r.tx = t

\* Nothing but a conflict ends the delegate: get_pool always finds a free
\* worker, dead workers and abandoned batches notwithstanding (execution.py:154-178).
OnlyConflictsRaise == phase = "raised" => Conflicts(rezBatch)

\* execute_work comes to an end although workers may be slow, hang or have
\* stopped (execution.py:195-209).
ExecutionEnds == phase \in {"submit", "wait"} ~> phase \in {"idle", "raised"}

\* Two batches with transactions that set one variable come back in the SBCs of
\* the round (test_delegate.py:306-341), conflicting ones being rerun on "One core"
\* (execution.py:336): they do not end execute_work.  They do.
ConflictsDoNotRaise ==
    (\E b, c \in DOMAIN work : \E t \in ToSet(work[b]), u \in ToSet(work[c]) :
        b # c /\ t # u /\ Writes[t] \cap Writes[u] # {}) => phase # "raised"
=============================================================================
