------------------------------- MODULE WorkInbox -------------------------------
(***************************************************************************)
(* A delegate's work inbox: WorkProcessor and Delegate.acquire_work        *)
(* (delegate.py), gather_transaction_batches, pad_work and filter_work     *)
(* (work.py).                                                              *)
(*                                                                         *)
(*   "accept"   accept_work is gathering batches                           *)
(*   "confirm"  the work of the round has been executed; the delegate      *)
(*              waits for the block                                        *)
(*                                                                         *)
(* Between the end of the gather and the multicast of the results the      *)
(* delegate never awaits, so both, with execution in between, are one step *)
(* of this module (module Execution looks inside).                         *)
(***************************************************************************)
EXTENDS Nonces, SequencesExt, Subsequences

CONSTANTS
    Masters,        \* the masternodes, as the delegates' state has them
    Delegates,      \* the delegates
    ExpiredBatch    \* expired_batch: the age, in seconds, a batch may have

ASSUME WorkInboxAssumption == IsFiniteSet(Masters) /\ ExpiredBatch \in Nat

VARIABLES
    now,        \* the clock, in whole seconds
    phase,      \* phase[d]: see above
    work,       \* work[d]: the dict `work`, as the sequence of its values
    todo,       \* todo[d]: batches that came while no work was accepted
    round       \* round[d]: the batches of d's last round, padded and ordered

inboxVars == << phase, work, todo, round >>

\* verify_work accepts a batch from a masternode, not expired, whose
\* transactions all pass (nonces[m] is the delegate's nonce of processor m; it
\* has no pending nonces).  `funded` stands for the stamps check: balances are
\* not modelled.
Verified(batch, nonces, funded) ==
    /\ batch.sender \in Masters
    /\ now - batch.stamp <= ExpiredBatch
    /\ \A i \in DOMAIN batch.txs : funded /\ Passes(batch.txs[i].nonce, nonces[batch.sender], 0)

\* A bug to catch: a second batch of a masternode is added.
AddedAgain(batches, batch, nonces, funded) ==
    IF Verified(batch, nonces, funded) THEN Append(batches, batch) ELSE batches

\* ... and adds it unless there is one of the sender already.
Added(batches, batch, nonces, funded) ==
    IF /\ Verified(batch, nonces, funded)
       /\ \A i \in DOMAIN batches : batches[i].sender # batch.sender
    THEN Append(batches, batch) ELSE batches

\* pad_work: an empty batch, stamped now, for each masternode that sent none.
\* (Python's set gives them in an arbitrary order.)
Shim(m) == [sender |-> m, stamp |-> now, txs |-> << >>]
Missing(batches) == Masters \ {batches[i].sender : i \in DOMAIN batches}

\* A bug to catch: the batches stay in the order they came in.
FilterWorkUnsorted(batches) == batches

\* Places of batches that a stable sort by timestamp puts before place i.
Before(batches, i) ==
    {j \in DOMAIN batches :
        batches[j].stamp < batches[i].stamp \/ (batches[j].stamp = batches[i].stamp /\ j < i)}

\* filter_work: sorted by timestamp, those with equal stamps as they were.
FilterWork(batches) ==
    [n \in DOMAIN batches |->
        batches[CHOOSE i \in DOMAIN batches : Cardinality(Before(batches, i)) = n - 1]]

----------------------------------------------------------------------------
InboxInit ==
    /\ now = 0
    /\ phase = [d \in Delegates |-> "accept"]
    /\ work = [d \in Delegates |-> << >>] /\ todo = [d \in Delegates |-> << >>]
    /\ round = [d \in Delegates |-> << >>]

Tick == now' = now + 1 /\ UNCHANGED inboxVars

\* WorkProcessor.process_message
ReceiveWork(d, batch, nonces, funded) ==
    /\ IF phase[d] = "accept"
       THEN work' = [work EXCEPT ![d] = Added(@, batch, nonces, funded)] /\ UNCHANGED todo
       ELSE todo' = [todo EXCEPT ![d] = Append(@, batch)] /\ UNCHANGED work
    /\ UNCHANGED << now, phase, round >>

\* gather_transaction_batches stops waiting when all masternodes have sent
\* work, or, once there is a batch, at any time: by its timeout.
GatherOver(d) == work[d] # << >>

\* The gather ends: work is taken, padded and ordered, executed and multicast.
Gather(d) ==
    /\ phase[d] = "accept" /\ GatherOver(d)
    /\ \E shims \in SetToSeqs({Shim(m) : m \in Missing(work[d])}) :
         round' = [round EXCEPT ![d] = FilterWork(work[d] \o shims)]
    /\ work' = [work EXCEPT ![d] = << >>]
    /\ phase' = [phase EXCEPT ![d] = "confirm"]
    /\ UNCHANGED << now, todo >>

\* A bug to catch: todo is cleared before it is processed.
TodoWorkForgotten(batches, nonces, funded) == << >>

\* process_todo_work: the to-do batches that are verified, of each masternode
\* the first of them (verify_work adds them to an empty `work`, one by one).
TodoWork(batches, nonces, funded) ==
    LET good == {i \in DOMAIN batches : Verified(batches[i], nonces, funded)}
    IN  AtPlaces(batches, {i \in good : \A j \in good : j < i => batches[j].sender # batches[i].sender})

\* A bug to catch: todo.clear() is forgotten.
TodoKept(batches) == batches

\* todo after process_todo_work.
TodoCleared(batches) == << >>

\* The block has come: accept_work starts the next gather with the to-do work.
Accept(d, nonces, funded) ==
    /\ phase[d] = "confirm"
    /\ work' = [work EXCEPT ![d] = TodoWork(todo[d], nonces, funded)]
    /\ todo' = [todo EXCEPT ![d] = TodoCleared(@)]
    /\ phase' = [phase EXCEPT ![d] = "accept"]
    /\ UNCHANGED << now, round >>
================================================================================
