------------------------------- MODULE Pipeline -------------------------------
(***************************************************************************)
(* The way of an account's transactions from the masternode that admits    *)
(* them to the block that commits them: WebServer.submit_transaction,      *)
(* TransactionBatcher and send_work at the masternodes, the work inboxes   *)
(* of the delegates (module WorkInbox), and the nonces that a block writes *)
(* on every node.                                                          *)
(*                                                                         *)
(* One account submits to some masternodes; its nonces at different        *)
(* processors are independent, and of the other masternodes only the       *)
(* batches matter, which hold nothing of this account.  There is one chain *)
(* of blocks the nodes agree on (modules Aggregator and NodeChain are      *)
(* about votes and forks), but the delegates are not in step: each has its *)
(* own batches, and a block may take the results of any of them, of one    *)
(* that is a block behind too.  A node gets every block, and a masternode  *)
(* and a delegate that waits for a block get one before the next is built. *)
(***************************************************************************)
EXTENDS WorkInbox

CONSTANTS
    Processors,     \* the masternodes that the account submits to
    NoBlock,        \* stands for no block to process
    BatchSize,      \* pack_current_queue's tx_number
    MaxQueue,       \* max_queue_len
    MaxTxs,         \* MaxTxs[m], bound: transactions submitted to masternode m
    MaxFlight,      \* MaxFlight[m], bound: batches of masternode m on their way
    MaxNow          \* bound: the clock

VARIABLES
    queue,      \* queue[m]: transactions admitted and not yet packed
    pending,    \* pending[m]: the account's pending nonce in m's database
    nonces,     \* nonces[n][m]: its nonce at processor m in n's database
    waiting,    \* waiting[m]: m has sent its work and waits for the block
    net,        \* net[d]: batches on their way to delegate d
    news,       \* news[n]: the block n has yet to process
    admitted,   \* history: nonces of the transactions m admitted, in order
    reusable,   \* history: nonces of m that a reset has made available again
    current,    \* history: delegates whose round knows of every block
    outdated,   \* history: nodes whose news has results of a round that does not
    executed,   \* history: executed[d]: transactions d executed and multicast
    twice,      \* history: some delegate executed one in two rounds
    hitch       \* history: a transaction was lost, left out or changed nothing

history == << admitted, reusable, current, outdated, executed, twice, hitch >>
masterVars == << queue, pending, nonces, waiting, net, news >>
vars == << now, inboxVars, masterVars, history >>

Nodes == Processors \cup Delegates

\* A transaction is named by its processor and its place in admitted[processor];
\* whether it changes the state is known once it has been executed.
Tx == [processor : Processors, id : Nat, nonce : Nat, changes : BOOLEAN]

ASSUME PipelineAssumption ==
    /\ Processors \subseteq Masters /\ Processors \cap Delegates = {}
    /\ NoBlock \notin Seq(Tx)
    /\ BatchSize \in Nat /\ BatchSize > 0
    /\ MaxQueue \in Nat /\ MaxFlight \in [Masters -> Nat] /\ MaxNow \in Nat
    /\ MaxTxs \in [Processors -> Nat]

SameTx(t, u) == t.processor = u.processor /\ t.id = u.id

TxsOf(batches) == UNION {ToSet(batches[i].txs) : i \in DOMAIN batches}

\* The transactions that are in no block, as far as their masternode knows.
UnderWay ==
    (UNION {ToSet(queue[m]) : m \in Processors})
    \cup UNION {(UNION {ToSet(b.txs) : b \in net[d]})
                   \cup TxsOf(work[d]) \cup TxsOf(todo[d]) \cup TxsOf(round[d]) : d \in Delegates}

\* A step takes a transaction off its way that its processor has not committed
\* and that has not changed the state in `block`.
Loses(block) ==
    \E tx \in UnderWay :
        /\ tx \notin UnderWay'
        /\ tx.nonce >= nonces[tx.processor][tx.processor]
        /\ ~ \E i \in DOMAIN block : SameTx(block[i], tx) /\ block[i].changes

----------------------------------------------------------------------------
Init ==
    /\ InboxInit
    /\ queue = [m \in Processors |-> << >>]
    /\ pending = [m \in Processors |-> 0]
    /\ nonces = [n \in Nodes |-> [m \in Processors |-> 0]]
    /\ waiting = [m \in Processors |-> FALSE]
    /\ net = [d \in Delegates |-> {}]
    /\ news = [n \in Nodes |-> NoBlock]
    /\ admitted = [m \in Processors |-> << >>]
    /\ reusable = [m \in Processors |-> {}]
    /\ current = {} /\ outdated = {}
    /\ executed = [d \in Delegates |-> {}] /\ twice = FALSE /\ hitch = FALSE

\* submit_transaction with a nonce that is admitted; with any other one it
\* answers with an error and changes nothing.
Submit(m) ==
    /\ Len(admitted[m]) < MaxTxs[m]
    /\ Len(queue[m]) < MaxQueue
    /\ \E n \in 0 .. Larger(nonces[m][m], pending[m]) + 1 :
        /\ Admits(n, nonces[m][m], pending[m])
        /\ pending' = [pending EXCEPT ![m] = n + 1]
        /\ admitted' = [admitted EXCEPT ![m] = Append(@, n)]
        /\ queue' = [queue EXCEPT ![m] =
             Append(@, [processor |-> m, id |-> Len(admitted[m]) + 1, nonce |-> n, changes |-> FALSE])]
    /\ UNCHANGED << now, inboxVars, nonces, waiting, net, news, reusable, current, outdated, executed, twice, hitch >>

\* pack_current_queue: the first transactions of the queue, in a batch.
Packed(m) ==
    [sender |-> m, stamp |-> now,
     txs |-> SubSeq(queue[m], 1, IF Len(queue[m]) < BatchSize THEN Len(queue[m]) ELSE BatchSize)]

FromMaster(m) == {b \in UNION {net[d] : d \in Delegates} : b.sender = m}

\* send_work: the queue is packed first.  The batch goes to the delegates that
\* are online, and may be lost on its way to any of them.
SendWork(m) ==
    /\ ~ waiting[m]
    /\ Cardinality(FromMaster(m)) < MaxFlight[m]
    /\ queue' = [queue EXCEPT ![m] = SubSeq(@, Len(Packed(m).txs) + 1, Len(@))]
    /\ \E reached \in SUBSET Delegates :
        /\ net' = [d \in Delegates |-> IF d \in reached THEN net[d] \cup {Packed(m)} ELSE net[d]]
        /\ hitch' = (hitch \/ (reached = {} /\ Packed(m).txs # << >>))
    /\ waiting' = [waiting EXCEPT ![m] = TRUE]
    /\ UNCHANGED << now, inboxVars, pending, nonces, news, admitted, reusable, current, outdated, executed, twice >>

\* A batch of another masternode, with nothing of the account, has come to d.
ReceiveOther(m, d) ==
    /\ Cardinality({i \in DOMAIN todo[d] : todo[d][i].sender = m}) < MaxFlight[m]
    /\ \E stamp \in 0 .. now : ReceiveWork(d, [sender |-> m, stamp |-> stamp, txs |-> << >>], nonces[d], TRUE)
    /\ UNCHANGED << masterVars, history >>

\* The delegate's router hands a batch to the inbox.
Deliver(d, batch) ==
    /\ net' = [net EXCEPT ![d] = @ \ {batch}]
    /\ \E funded \in BOOLEAN : ReceiveWork(d, batch, nonces[d], funded)
    /\ UNCHANGED << queue, pending, nonces, waiting, news, admitted, reusable, current, outdated, executed, twice >>
    /\ hitch' = (hitch \/ (phase[d] = "accept" /\ Loses(<< >>)))

\* Which results are taken for which sub-block: of any delegate's last round,
\* or none.
Votes ==
    UNION {{v \in [ks -> Delegates] : \A k \in ks : k \in DOMAIN round[v[k]]} :
        ks \in SUBSET (1 .. Cardinality(Masters))}

\* The transactions of the sub-blocks, each with the number of its sub-block.
Contents(votes) ==
    UNION {{<< k, tx >> : tx \in ToSet(round[votes[k]][k].txs)} : k \in DOMAIN votes}

\* Sub-block by sub-block, the results of one in the order they were collected
\* from the workers.
Orders(contents) ==
    {s \in SetToSeqs(contents) : \A i, j \in DOMAIN s : i < j => s[i][1] <= s[j][1]}

\* The blocks that may be built of them: each transaction has changed the state
\* or has not.
Blocks(contents) ==
    UNION {{[i \in DOMAIN s |-> [s[i][2] EXCEPT !.changes = c[i]]] : c \in [DOMAIN s -> BOOLEAN]} :
        s \in Orders(contents)}

\* The masternodes build a block of SBCs of the delegates.  SBCs that are not
\* taken, because they arrive late or others have more votes, may still be
\* counted for the next block, or be cleared from the inbox.  All nodes are
\* told.  A delegate gets its NBNs one by one while it waits for one, and
\* drains what has come when it has gathered work.
Build ==
    /\ \E m \in Processors : waiting[m]
    /\ \A m \in Processors : news[m] = NoBlock
    /\ \A d \in Delegates : phase[d] = "confirm" => news[d] = NoBlock
    /\ \E votes \in Votes : \E block \in Blocks(Contents(votes)) :
        /\ news' = [n \in Nodes |-> IF news[n] = NoBlock THEN block ELSE news[n] \o block]
        /\ current' = IF block = << >> THEN current ELSE {}
        /\ outdated' = IF \E k \in DOMAIN votes : votes[k] \notin current /\ round[votes[k]][k].txs # << >>
                       THEN Nodes ELSE outdated
        /\ \E kept \in SUBSET {d \in Delegates \ {votes[k] : k \in DOMAIN votes} : TxsOf(round[d]) # {}} :
             round' = [d \in Delegates |-> IF d \in kept THEN round[d] ELSE << >>]
        /\ UNCHANGED << now, phase, work, todo, queue, pending, nonces, waiting, net,
                        admitted, reusable, executed, twice >>
        /\ hitch' = (hitch \/ Loses(block))

\* The transactions of a block at processor m.
AtProcessor(m, block) == AtPlaces(block, {i \in DOMAIN block : block[i].processor = m})

\* update_state_with_block on node n: the nonces it leaves in n's database.
Committed(n, block) ==
    [m \in Processors |-> CommittedNonce(AtProcessor(m, block), nonces[n][m])]

\* Masternode m processes the block, and its loop goes on.
Commit(m) ==
    /\ news[m] # NoBlock
    /\ LET mine == AtProcessor(m, news[m]) IN
        /\ nonces' = [nonces EXCEPT ![m] = Committed(m, news[m])]
        /\ pending' = [pending EXCEPT ![m] = CommittedPending(mine, @)]
        /\ reusable' = [reusable EXCEPT ![m] =
             IF pending'[m] = 0 THEN @ \cup {n \in ToSet(admitted[m]) : n >= nonces'[m][m]} ELSE @]
    /\ waiting' = [waiting EXCEPT ![m] = FALSE]
    /\ news' = [news EXCEPT ![m] = NoBlock]
    /\ outdated' = outdated \ {m}
    /\ UNCHANGED << now, inboxVars, queue, net, admitted, current, executed, twice, hitch >>

\* The delegate processes a block that has come meanwhile (process_new_work's
\* mini catch-up, between the gather and the execution).
CatchUp(d) ==
    /\ news' = [news EXCEPT ![d] = NoBlock]
    /\ nonces' = IF news[d] = NoBlock THEN nonces
                 ELSE [nonces EXCEPT ![d] = Committed(d, news[d])]
    /\ outdated' = outdated \ {d}

\* process_new_work, from the end of the gather to the multicast.  Results of
\* the round before that are in no block by now are counted no more.  The work
\* has been verified before the mini catch-up.
DelegateWork(d) ==
    /\ Gather(d)
    /\ CatchUp(d)
    /\ current' = IF news[d] \in {NoBlock, << >>} THEN current \cup {d} ELSE current \ {d}
    /\ executed' = [executed EXCEPT ![d] = @ \cup TxsOf(work[d])]
    /\ twice' = (twice \/ executed[d] \cap TxsOf(work[d]) # {})
    /\ UNCHANGED << queue, pending, waiting, net, admitted, reusable >>
    /\ hitch' = (hitch \/ (TxsOf(round[d]) # {} /\ Loses(<< >>)))

\* A batch on the to-do list is not verified, or another of its masternode is.
TurnsDown(d, known, funded) ==
    \E i \in DOMAIN todo[d] :
        \/ ~ Verified(todo[d][i], known, funded)
        \/ \E j \in DOMAIN todo[d] : j < i /\ todo[d][j].sender = todo[d][i].sender

\* wait_for_new_block_confirmation, and the loop into the next accept_work.
DelegateConfirm(d) ==
    /\ news[d] # NoBlock
    /\ CatchUp(d)
    /\ \E funded \in BOOLEAN :
        /\ Accept(d, nonces'[d], funded)
        /\ UNCHANGED << queue, pending, waiting, net, admitted, reusable, current, executed, twice >>
        /\ hitch' = (hitch \/ (TurnsDown(d, nonces'[d], funded) /\ Loses(<< >>)))

Next ==
    \/ now < MaxNow /\ Tick /\ UNCHANGED << masterVars, history >>
    \/ \E m \in Processors : Submit(m) \/ SendWork(m) \/ Commit(m)
    \/ \E m \in Masters \ Processors, d \in Delegates : ReceiveOther(m, d)
    \/ \E d \in Delegates : \E batch \in net[d] : Deliver(d, batch)
    \/ Build
    \/ \E d \in Delegates : DelegateWork(d) \/ DelegateConfirm(d)

Spec == Init /\ [][Next]_vars

----------------------------------------------------------------------------
(* Properties. *)

\* Every variable holds values of its type; an inbox never holds two batches
\* of one masternode, and the account's nonces never pass what was admitted.
TypeOK ==
    /\ now \in 0 .. MaxNow /\ phase \in [Delegates -> {"accept", "confirm"}]
    /\ \A d \in Delegates :
        /\ net[d] \cup ToSet(work[d]) \cup ToSet(todo[d]) \cup ToSet(round[d])
             \subseteq [sender : Masters, stamp : 0 .. now, txs : Seq(Tx)]
        /\ \A i, j \in DOMAIN work[d] : i # j => work[d][i].sender # work[d][j].sender
    /\ queue \in [Processors -> Seq(Tx)] /\ waiting \in [Processors -> BOOLEAN]
    /\ pending \in [Processors -> Nat] /\ nonces \in [Nodes -> [Processors -> Nat]]
    /\ current \subseteq Delegates /\ outdated \subseteq Nodes
    /\ \A n \in Nodes : news[n] = NoBlock \/ news[n] \in Seq(Tx)
    /\ \A m \in Processors, n \in Nodes :
         nonces[n][m] > 0 => nonces[n][m] - 1 \in ToSet(admitted[m])

\* A masternode admits a nonce a second time only after a block reset the
\* account's pending nonce while transactions with this or a later nonce were
\* not in it (storage.py:121): there is no other way to a double.
DoublesOnlyAfterReset ==
    \A m \in Processors : \A i, j \in DOMAIN admitted[m] :
        i < j /\ admitted[m][i] = admitted[m][j] => admitted[m][i] \in reusable[m]

\* No delegate executes a transaction in two rounds, whether its batch was late, kept
\* in the to-do list, or executed in vain.
ExecutedOnce == ~ twice

\* A round has one batch of each masternode, and with stamps all different, a
\* delegate that has the same batches in another order has the same round: both
\* give the sub-blocks the same numbers (work.py:23-41).
SameRoundElsewhere == \A d \in Delegates : round[d] # << >> =>
    /\ Len(round[d]) = Cardinality(Masters)
    /\ {round[d][i].sender : i \in DOMAIN round[d]} = Masters
    /\ (\A i, j \in DOMAIN round[d] : i # j => round[d][i].stamp # round[d][j].stamp) =>
         \A other \in SetToSeqs(ToSet(round[d])) : FilterWork(other) = round[d]

\* A node's nonce of the account goes back only with a block that has results of
\* a round that does not know of every block before (storage.py:116 writes the
\* nonce of any transaction that comes): SBCs that came late, or those of a
\* delegate that verified its batches before the mini catch-up (delegate.py:177)
\* and won when the time was up (contender.py:180, and nobody looks at `previous`,
\* 206).  Batches that overtake one another, come late or are executed in vain, and
\* transactions out of order in a block, do not move it back.
NonceBackOnlyIfOutdated ==
    [][\A n \in Nodes, m \in Processors : nonces'[n][m] < nonces[n][m] => n \in outdated]_vars

\* Too many pending transactions of the account: m admits none.
Locked(m) == pending[m] - nonces[m][m] >= TxPerBlock

\* A locked account has a transaction under way that its masternode has not
\* committed, or one in the block that has come there that unlocks it, unless one
\* was lost, left out of a block, or changed nothing (storage.py:108): then it may
\* stay locked for ever.
LockedIsUnderWay ==
    \A m \in Processors : Locked(m) /\ ~ hitch =>
        \/ \E tx \in UnderWay : tx.processor = m /\ tx.nonce >= nonces[m][m]
        \/ news[m] # NoBlock /\ \E tx \in ToSet(news[m]) : tx.processor = m /\ tx.changes
================================================================================
