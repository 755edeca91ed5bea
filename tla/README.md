# Verification of the Cilantro node

TLA+ specifications of the Lamden blockchain node in `src/cilantro`, with TLC
model checking on small instances and TLAPS proofs for all values of the
constants.

## The system

A network has *masternodes*, which take transactions, build blocks and store
them, and *delegates*, which execute transactions. Every node is one asyncio
process with a database that survives restarts. In a round

1. each masternode packs its queued transactions into a batch and multicasts it
   to the delegates (`masternode.py: send_work`),
2. each delegate waits for the batches of all masternodes, pads missing ones,
   sorts them by time, executes them in a pool of workers and multicasts one
   message to the masternodes with a sub-block contender (SBC) per batch
   (`delegate.py: process_new_work`, `work.py`, `execution.py`),
3. each masternode counts the delegates' SBCs until every sub-block has 66 % of
   the votes, everyone has answered or 6 seconds have passed, and builds a block
   from the best results (`contender.py`),
4. the masternode takes the block into its database and announces it (NBN) to
   the delegates and, once there is work again, to the masternodes
   (`masternode.py: loop`),
5. every node that hears the announcement checks number, previous hash and hash
   and takes the block into its database (`base.py: process_new_block`).

A node that starts asks a seed masternode for the latest height and fetches the
blocks it lacks (`base.py: catchup`).

### Inventory

| component | state | operations | what is hard | what makes it correct |
|---|---|---|---|---|
| vote counting, `contender.py` | signature lists, best solution, received signers, response counter per sub-block | `add_sbcs`, `add_potential_solution`, consensus tests | order of votes, duplicates, ties | one vote each; best is an argmax; decided is final |
| SBC inbox and aggregator, `contender.py`, `masternode.py` | message queue, expected sub-blocks, clock | `process_message`, `gather_subblocks` | late, lost, left-over messages; membership changing between queueing and counting; timeout | counted for one block only; ends; two masternodes that decide agree |
| block intake, `base.py`, `storage.py` | committed hash and height, cached ones, block store, pending driver writes | `should_process`, `update_state`, `process_new_block` | crashes between database writes; blocks of other branches | height and chain agree; paid once; complete; only built blocks |
| start and catch-up, `base.py` | loop variable, NBN queue | `catchup`, `start` | request timeouts, blocks announced meanwhile, seed on another branch | ends; never applies a block twice |
| masternode loop, `masternode.py` | transaction queue, position in the loop | boot, join, work, hang, announce | wake-up by genesis signal or NBN | see block intake and aggregator |
| delegate loop, `delegate.py` | NBN queue, work inbox, to-do list | acquire, drain, execute, confirm | dropped NBNs, late batches | stays on the chain |
| work, `work.py`, `delegate.py: WorkProcessor` | batches by sender | verify, accept, pad, sort | timeouts, equal stamps, stale to-do list | one batch per master, same order everywhere |
| execution, `execution.py` | worker pool, queues | distribute, wait, detect conflicts, rerun | late results, incomplete results | result belongs to the transaction |
| nonces, `storage.py`, `transaction.py`, `webserver.py` | nonce, pending nonce | admit, commit | pending reset while others pend, out-of-order commit | no nonce used twice, none goes back |
| rewards, `rewards.py` | balances | split, issue | rounding, division by member count | never more than the stamps paid |
| governance contracts, `contracts/genesis` | members, motions, candidates, stakes; elections of stamp price, split, upgrade | motion, vote, register, unregister, relinquish | two contracts kept consistent, ties, thresholds, membership that changes during a vote | stakes backed, seats change by majority, every vote counted once, motions close |
| peers, `network.py` | peer table | join, gossip, peers | check-then-act over an await; nodes waiting for one another | tables converge; nodes come up |
| router, `router.py` | services, sockets | send, request, multicast | loss, timeout | - |
| authentication, `authentication.py` | key files | refresh | membership read at a moment | - |
| upgrade manager, `upgrade.py` | none of its own | refresh, version check | votes of an abandoned vote | an upgrade has its quorum |
| canonical forms, `canonical.py`, `formatting/` | none | hashing, field checks | order independence | equal content, equal hash |

Components interact through router messages (SBCs, NBNs, work, catch-up
requests), and inside a node through the driver's database, the NBN queue and
the SBC inbox, which router callbacks fill while the node's loop awaits.

`PROJECT.json` lists under `hazards` what in this code is hard to test, each at
its line, with the properties that watch it or the reason why none does.

## Modules

| module | what it is |
|---|---|
| `SubBlocks` | the vote counting of one gather, as operators on contenders |
| `Aggregator` | several masternodes' inboxes and gathers, fed by delegates over a lossy, reordering network |
| `Ledger` | abstract: a tree of built blocks, and per node a chain in it that only grows |
| `NodeChain` | block intake, catch-up, announcements, crashes and restarts of all nodes |
| `Execution` | a delegate's execution of a round on its pool of workers |
| `Nonces` | the nonce rules of one account at one masternode, as operators |
| `WorkInbox` | a delegate's work inbox: verification, to-do list, padding, ordering |
| `Pipeline` | an account's transactions from the web server to the block and back to the nonces; composes `Nonces` and `WorkInbox` with the masternode's queue and the blocks |
| `Seats` | seats, motions, candidacies and stakes: three contracts that call one another |
| `Governance` | elections of stamp price, reward split and upgrades over changing seats, and what the nodes make of the results; extends `Seats` |
| `PeerGossip` | how nodes find one another, come up, move, and tell others |
| `Subsequences` | the parts of a sequence at given places, used by `Execution`, `WorkInbox` and `Pipeline` |
| `AggregatorProofs`, `NodeChainProofs`, `ExecutionProofs`, `PipelineProofs`, `SeatsProofs`, `GovernanceProofs`, `PeerGossipProofs` | theorems about the module each is named after, and their proofs |
| `SubsequencesProofs` | lemmas about `Subsequences` and finite sets of numbers that several of them cite |
| `MCAggregator`, `MCNodeChain`, `MCExecution`, `MCPipeline`, `MCGovernance`, `MCPeerGossip` | the instances for TLC |

Operators that a comment calls "a bug to catch" belong to no behaviour: each is
a plausible mistake in the definition that follows it, and `PROJECT.json`
(`mutants`) says which property tells it from the real one.

Some variables record history for the properties and drive nothing: `taken`,
`takenBefore` (`Aggregator`), `disturbed` (`Execution`), `admitted`, `reusable`,
`current`, `outdated`, `executed`, `twice`, `hitch` (`Pipeline`), `lapsed` (`Seats`),
`upgrade.voted` (`Governance`), `missed` (`PeerGossip`). Where a property has an
exception, the exception is one of these, set by the very step of the code that
makes it necessary, so that the property also says that there is no other way.

### SubBlocks and Aggregator

State: `inbox[m]` is `sbc_inbox.q`, `expected[m]` its `expected_subblocks`,
`contacts[m]` and `contenders[m]` are the `BlockContender` of the gather,
`expired[m]` says whether `seconds_to_timeout` have passed. A contender has the
signature list of each result (`potential_solutions`), `best_solution`,
`total_responses` and the signers received.

An SBC is reduced to the result it claims and whether it passes `sbc_is_valid`.
Everything between two awaits is one action; popping a message and counting it
is one, because `receive_sbc` does not suspend when the queue is not empty.
`Execute` stands for a delegate's round: any results in any combination, because
batch order and worker timing do make delegates differ.

The lower-level choices of the code are kept: the append inside the validation
loop, the length comparison at the time of queueing, sub-block numbers modulo
`parallelism`, integer-percent comparison instead of floating-point ratios (equal for
the vote counts a network can have), the maximum over sub-blocks in
`responses`. A contact count of 0 ends the polling at once as in the code.

### NodeChain and Ledger

State: `db[n]` is what survives a crash: latest hash and height, the block
collection in insertion order, and the blocks whose rewards have been
committed. `node[n]` is what does not: where the process is (`pc`), the caller
`process_new_block` returns to (`ret`), cached hash and height, the NBN queue,
the driver's pending writes and the catch-up loop. `net` holds NBNs in flight.

`process_new_block` has no await, so nothing is received inside it, but the
process may die inside it; it is split at its database writes:
`SetHash`, `SetHeight`, `Refresh` (rewards, cache, queue), `Store`, `Commit`.
`Restart` rereads the cache as `Node.__init__` does. A hash is modelled by the
chain of block bodies it commits to, which is what a collision-free hash of
previous hash and body amounts to; a gather's outcome is any body.

`Ledger` promises that a chain only grows, by one block that was built on
exactly that chain. `NodeChain` implements it with
`ledger[n] <- db[n].hash`: `SetHash` is `Extend`, `Build` is `Build`, all other
steps stutter.

### Execution

State: `phase` is where `execute_work` is; `qIn`, `qOut` are the workers' queues,
`busyPool`, `workPool`, `kStep`, `rez`, `rezBatch` the variables of
`execution.py` of these names. `Submit` is `execute_tx_batch` up to the wait
(with `get_pool`), `Poll` one turn of the loop in `wait_tx_result`, `Collect` its
return with `free_pool`, `Finish` the end of `execute_work`. `Run` and `Stop` are
a worker's turn: it executes the transaction or meets an exception, after which
the process is gone but not its place in the pool. A result carries the round,
batch and number it was submitted with, which the code does not look at: that is
how the model sees results of an abandoned wait come back later.

What a transaction reads and writes is a constant. `check_conflict2` raises when
there is a conflict (see below), so `rerun_txs` runs only with nothing to rerun.

### Nonces, WorkInbox and Pipeline

`Nonces` translates `get_new_pending_nonce` (strict at the web server, not strict
at a delegate) and the two writes of `update_state_with_transaction`.

`WorkInbox`, of every delegate: `work`, `todo` are those of `WorkProcessor`,
`round` what `filter_work` returned. A delegate does not await between the end of
the gather and the multicast of its results, so `Gather` is one step.

`Pipeline` has one account that submits to some masternodes (`Processors`); the
others only matter for the batches they owe the round. `Submit` is
`submit_transaction`, `SendWork` `send_work` (packing first, then sending to the
delegates that it reaches, possibly to none), `Deliver` and `ReceiveOther` the
arrival of a batch at a delegate, `DelegateWork` and `DelegateConfirm` the halves
of the delegate's loop with the mini catch-up in the first, `Commit` a
masternode's processing of the block. A funded account or one that cannot pay is
a free choice at each verification. All transactions are well-formed: one that is
not would pass `verify_work`, because `transaction_is_valid` returns the error
instead of raising it (`transaction.py:174`).

The delegates are not in step. Each has its own inbox, batches on their way, last
round, nonces and blocks that it has yet to process (`news`), so that one may
verify a batch against old nonces, take the block which has that batch in the mini
catch-up, and execute the batch again. `Build` stands for votes and blocks, which
`Aggregator` and `NodeChain` are about: for each sub-block it takes the results of
any delegate's last round (`Votes`), whatever block that round was executed on,
since nothing compares an SBC's `previous` (`contender.py:206`) and a timeout
makes any number of votes enough (`contender.py:180`), or none; in an order in
which the workers may have yielded them (`Orders`). SBCs that were not taken may
be counted for the next block. `current` has the delegates whose round knows of
every block, `outdated` the nodes with a block to process that has results of one
that does not. All nodes agree on the blocks, and every node gets each of them.

### Seats and Governance

A contract call is one step, since the interpreter undoes a failed call; one that
fails an assertion or raises is no step. `members`, `motion` are `members.s.py`'s
`S`, `candidate`, `confidence`, `relinquishing` the hashes and variables of
`elect_members.s.py`, `coins` the balances and approvals of `currency.s.py` that
the two touch. `Majority` counts the list of seats, duplicates included, as the
code does; `PassCurrentMotion` makes the calls into the other contract
(`PopTop`, `PopLast`) part of the deciding vote.

`stamp` and `split` are `stamp_cost.s.py`'s and `rewards.s.py`'s `S`, which share
the shape of an `election`; `upgrade` is `upgrade_state` with `has_voted`. The
three contracts have nothing in common but the seats they count against, so a
behaviour contains a *session* of one of them while motions go on.
`IssueRewards` is `rewards.py`, in units of dust, with the rounding of each
participant's share; `VersionCheck` is what `upgrade.py` writes back.

The parts of a split are counted in fractions of a percent (`Unit` of them make
one). `validate_vote` tests `int(o) >= 0`, which rounds towards zero, so that the
splits a vote may bring (`Splits`) have parts above -1 percent and a sum of 100;
a share that is negative is rounded towards zero too (`Truncated`).

### PeerGossip

State: `peers[n]` is `network.peers`, `keys[n]` the key files of
`authentication.py` (which survive a restart), `waiting` and `got` the `gather` of
join requests in `Network.start`, `joins` messages on their way, `pending`
handlers suspended in `secure_multicast`. `Forward` and `Forwarded` are the two
sides of that await in `JoinProcessor.process_message`: the peer table is looked
at in the first and written in the second. `EndRound` merges the answers and
either asks again or finishes the start (`base.py: start`). What it looks for
is `Sought`: a node of the constitution has the members in its constitution file;
one that joins later has the current members, from the `/constitution` response of
its masternode (`cli/start.py:169`, `webserver.py:324`). All that join are elected
before they start, so that they wait for one another too. `Move` is a node that
comes back with another address; `UpdateSockets` the delegate's refresh from its
first masternode after a block.

## Runs

| run | instance | shows |
|---|---|---|
| `aggregator_rounds` | 1 masternode, 2 delegates, 2 passes, 2 gathers, masternode counts 1 and 3, sub-block numbers wrapping at 2 | `TypeOK`, `CountedOnce`, `HeardAlike`, `GatherEnds` |
| `aggregator_quorum` | 2 masternodes, 3 delegates, 2 results, 2 sub-blocks, symmetric | `TallyExact`, `BestIsMaximal`, `Vouched`, `Agreement`, `DecisionStable` |
| `aggregator_inbox` | 1 masternode, SBCs valid or not | violation of `InboxHoldsOnlyValid` |
| `node_restart` | 1 masternode (queue 1), 1 delegate (queue 2), height 2, 3 starts, crashes of both | `TypeOK`, `HeightLagsByTears`, `PaidOnce`, `CompleteOrInterrupted`, `DelegatesFollow`, `CatchupEnds` |
| `node_forks` | 2 masternodes, 2 bodies (symmetric), height 2, 3 starts, only `m2` crashes and hears NBNs | `ImplementsLedger` |
| `execution_rounds` | 3 workers, 2 per batch, 3 polls per transaction, 4 transactions on 2 keys, 2 rounds | `TypeOK`, `ResultsOfOwnBatch`, `AnsweredUnlessClash`, `OnlyConflictsRaise`, `ExecutionEnds` |
| `execution_conflicts` | the same | violation of `ConflictsDoNotRaise`, with one key written in two batches of a round |
| `pipeline` | 1 processor, 1 other masternode, 1 delegate, 3 submissions, batches and queue of 2, 2 seconds | `TypeOK`, `DoublesOnlyAfterReset`, `ExecutedOnce`, `SameRoundElsewhere` |
| `pipeline_delegates` | 1 processor, 2 delegates (symmetric), 2 submissions, batches and queue of 2, 1 second | `LockedIsUnderWay`, `NonceBackOnlyIfOutdated` |
| `governance` | 3 accounts, 2 of them founders, 3 members of the other committee, coins for at most one stake each, splits in halves of a percent, one of them with a part of -0.5 | `TypeOK`, `StakesBacked`, `LastMemberSeated`, `OpenOnlyIfTied`, `SplitTallied`, `PaidOutOfStamps`, `UpgradeByQuorum`, `StakeFollowsSeat`, `SeatsChangeByMajority`, `PriceMovesByTwo` |
| `governance_stamps` | the same | violation of `StampVotesOnce` |
| `peers` | 1 constitution masternode, 2 nodes that are elected and join, one of which moves once and asks for tables | `TypeOK`, `KnownUnlessMissed`, `NodesComeUp` |

### Bounds

These are bounds of the models, not of the code: `MaxPasses`, `MaxGathers`
(Aggregator); `MaxQueue`, `MaxHeight`, `MaxStarts`, `Crashing` (NodeChain);
`MaxRounds` (Execution); `MaxTxs`, `MaxFlight`, `MaxNow` (Pipeline); `MaxNow`
(Governance); `MaxMoves` (PeerGossip). The other constants are parameters the
code has too, given small values.

* Two passes and two gathers let a message of one round reach the next; three
  delegates are the least for which one vote is below half and two of three meet
  66 %, so that masternodes can decide on different pairs.
* Three starts let a node crash, come back and be asked by a node that starts
  later; height 2 lets chains differ after a common block and catch-up refetch a
  block it has. `MCNodeChain` gives the seed and the other nodes an NBN queue
  each (`MaxSeedQueue`, `MaxOtherQueue`); a queue of length 0 loses every NBN,
  which a lossy network may do to any node, and NBNs beyond a longer one wait in
  flight. In `node_forks` the node that crashes is the one that is not the seed:
  it comes back with a chain of its own and is handed, by catch-up and by NBNs,
  blocks of its height plus one on the seed's chain, which `should_process` has
  to refuse.
* The works of `Execution` have batches of more transactions than the pool has
  workers, of as many, of fewer and of none, and conflicts within a batch,
  across two, and across two rounds. Two rounds suffice for results of one
  to be read in the other; three polls per transaction let a wait be given up
  with a result in the queue or without.
* Three submissions with `TxPerBlock = 2` reach the lock of an account and go
  past it; two batches in flight may overtake one another; a clock of two seconds
  with `ExpiredBatch = 0` has equal stamps, different ones and expired batches.
  One delegate is enough where the question is about one delegate's rounds.
* In `pipeline_delegates` a second delegate lags behind the first or wins against
  it; two submissions are as many as lock the account and as many as let a nonce
  go back. The clock stands still there, so that nothing expires while a delegate
  lags; with one masternode, which waits for each block, there is one batch in
  flight.
* Two founders are the least with a tie, and a third account with a stake makes a
  majority of two out of three; `Minimum = 1` lets a member be removed. The
  candidacies happen on one day (votes within a day of one another are refused, so
  each account votes once of a kind); elections may run to the next day and
  expire; an upgrade vote may outlive its window of a day and be started afresh
  on the second. One account can pay a stake and a vote, one either of the two, and
  one nothing.
* Splits are 20, 30, 0, 50 and 50, 50, -0.5, 0.5 percent; a smallest unit of tau
  of a thousandth is fine enough for the second to show more paid than the stamps
  cost (3.505 for 3.5), in spite of the rounding.
* Two nodes that join at once through one masternode have each to learn of the
  other, who is not in the table it gets first. One move of a node makes addresses
  out of date everywhere, and makes a second join of the same key race with
  forwards of the first.

Deadlock is not checked, because the bounds stop the models (and lost messages
may leave a delegate waiting, a motion may be tied).

### Fairness

* `GatherEnds` assumes that the event loop runs a gather that can go on and that
  time passes (weak fairness of `Poll`, `Expire`, `Finish`): the polling loop
  yields with `sleep(0)` and compares with the clock.
* `CatchupEnds` assumes that a started `process_new_block` runs on and that a
  request is answered or times out (weak fairness of a node's processing and
  catch-up steps): `secure_request` polls with a timeout. No message is assumed
  to arrive, nothing restarts of itself, and the masternode's and delegate's
  loops, which wait for others, have no fairness.
* `ExecutionEnds` assumes only that `execute_work`, which never awaits, keeps
  running (weak fairness of `Delegate`). Nothing is assumed of the workers: that
  they may hang for ever is the point.
* `NodesComeUp` assumes that a node once started up to its prerequisites does
  start and that `gather` returns (weak fairness of `Start`, `EndRound`,
  `Timeout`: every request has a timeout), and that a request which is made again
  and again is at some time taken up, and answered before its timeout (strong
  fairness of `TakesUp`, `AnswersTo`). The second is an assumption on the network
  that no code can discharge; without it nodes may ask for ever. That all members
  are started is assumed too, and needed: an elected node that never starts keeps
  everyone who joins after its election from coming up (`network.py:153`).

### What the violated properties say

* `InboxHoldsOnlyValid`: `contender.py:31` appends inside the loop that checks
  the SBCs. A message whose second SBC is invalid is queued once before the
  check fails, and a valid message is queued once per SBC. `TallyExact` shows
  that the signer test in `add_sbcs` keeps the count right nevertheless, and
  `CountedOnce` that clearing the inbox keeps the copies out of the next block.
* `ConflictsDoNotRaise`: `check_conflict2` collects the transactions in conflict
  in a set and appends to it (`execution.py:258`). The exception ends
  `Delegate.run`. The run shows it with two batches that have a transaction each
  which writes one key, where the test expects both back
  (`test_delegate.py:306`). `AnsweredUnlessClash` says when it happens: of rounds
  in which all workers answer in time, in all those with a conflict among their
  transactions and in no others.
* `StampVotesOnce`: `stamp_cost.s.py:83` looks a voter up in `S['votes', vk]`,
  which nothing writes; `tally_vote` writes `S['has_voted', vk]`.
  `PriceMovesByTwo` shows what is left: a single voter can fill an election, and
  still moves the price by no more than a factor of two.

### What the exceptions in the properties say

The models also show, without a property to contradict:

* A timeout yields a block with any number of signatures, the adequate-consensus
  test being commented out (`contender.py:180`). `Agreement` therefore speaks
  only of sub-blocks that reached *required* consensus, and `node_forks` lets
  masternodes build different blocks at one height.
* `process_new_block` stores also the block that `should_process` refused
  (`base.py:277`), although the messages with which it is refused say 'Not
  storing.' and 'Do not store.' (`base.py:210`, `222`, `237`). The chains do not
  suffer from it: `ImplementsLedger` holds with these blocks in the stores that
  catch-up is served from.
* After a block with any transaction of an account, its pending nonce is
  forgotten, and nonces still under way are admitted again (`storage.py:121`;
  `DoublesOnlyAfterReset`).
* A nonce may go back with a block that has results of a round which did not know
  of every block before (`storage.py:116`; `NonceBackOnlyIfOutdated`): SBCs that
  came late for their round's block, or those of a delegate that verified a batch,
  took the block which has it in the mini catch-up (`delegate.py:177`), executed
  the batch again and won when the time was up. Nothing else moves it back: a
  block may have an account's transactions out of order, as they were collected
  from the workers, but none of them is behind the nonce the block finds. That no
  transaction is executed twice holds of each delegate (`ExecutedOnce`), not of
  all of them together.
* A block pays more than its stamps cost when an election ends with a split that
  has a part below zero (`rewards.s.py:107`, where the message says 'No
  non-negative numbers!' and `int` has rounded the part to zero).
  `PaidOutOfStamps` says that it is never more than what such parts add to the
  others.
* An account may stay locked after its transactions were lost or changed nothing
  (`LockedIsUnderWay` allows it after a `hitch`). Expired transactions are not
  refused: the result of the check is thrown away (`transaction.py:177`).
* A tied motion with all votes in cannot be closed (`OpenOnlyIfTied`). A member who
  was removed, or gave up a seat, may remain the one that REMOVE_SEAT would take,
  and the motion then always raises (`LastMemberSeated`). REMOVE_SEAT does not
  look at `minimum_nodes`. The same account may hold two seats. A candidate
  who has unregistered remains `top_candidate`; after `pop_top` votes make no new
  one until somebody registers.
* A node that comes back with another address while its first join or that of
  another is half done at a third may leave the other with the old address
  (`KnownUnlessMissed` names this, lost forwards, missing keys, stale addresses,
  and nothing else but the next, where only nodes that joined later move). Two
  that join for the first time have no such excuse: each waits for the other. A
  delegate that has learned an address from its masternode's table takes the join
  message that brings it for no news, and does not forward it. A
  masternode that others join through forgets its table when it restarts: with
  the constitution `{m1, d1}`, the joining node `j1` and `m1` among the movers,
  `j1` keeps the old address of `m1` after its own join has been missed at `d1`,
  because `d1` cannot tell a node that it does not know.

## Proofs

Every safety property that a passing run checks is also a theorem, for any values
of the constants that satisfy the assumptions of the modules, with one hypothesis
(`PeersKnown` is about networks in which only nodes that joined later come back
with another address; for others it is false, see above). Each proof module
states an inductive invariant, proves that the initial states have it and that
every action keeps it, and derives the properties from it. Of the liveness
properties the proofs have the part that is about the code's steps (see
*Liveness*, below).

### Assumptions

Types and finiteness of the constants, and beyond that

* `NodeChain`: masternodes and delegates are disjoint, the seed is a masternode,
  the genesis body is not a block's body;
* `Nonces`: `TxPerBlock` is positive (it is 15 in `transaction.py`); without that
  an account with no pending transaction would be locked;
* `Pipeline`: the stand-in for "no block" is not a sequence of transactions; the
  processors are masternodes, and no delegates;
* `Governance`: initial rate and all rates that are voted for are positive; every
  split adds up to 100 percent and each part is above -1 percent, which is what
  `validate_vote` sees to, and no more; the initial split has no negative part;
  the two committees are disjoint;
* `PeerGossip`: nobody is its own bootnode, bootnodes are of the constitution, and
  a node that joins later has exactly one (`join_network` takes one `mn_seed`); the
  masternode that delegates ask is of the constitution and no delegate.

The bounds of the models (`MaxHeight`, `MaxTxs`, `MaxNow` and so on) may have any
value, so that nothing rests on them.

### Vote counting (`AggregatorProofs`)

`IInv` says of each masternode that its contenders are good: one vote per signer
and per sub-block (`OneVoteEach`), the best has the most (`BestLeads`) and at
least one, and every counted vote is what its signer sent in the pass recorded
with it (`VouchedAt`). `HeldOnce` separates what is in flight, in the inbox, popped
for this block and popped for earlier ones, including the copies that the append
inside the validation loop makes; `Delivered` says that only executed passes are
about. From it follow `TypeOK`, `TallyExact`, `BestIsMaximal`, `Vouched`,
`CountedOnce` and `HeardAlike`. `Agreement` is quorum intersection: two sets of
more than half of the contacts share a delegate, which claimed one result in that
pass. `DecisionStable`: once a result has the required votes, what the others can
have, counting each contact once, is less.

### The chain (`NodeChainProofs`)

`IInv` is `TypeOK`, `BlocksGenuine` (every block anywhere was built by a masternode
or is the genesis signal), `BlocksCommitted`, and for each node: where `process_new_block` may return
to (`RoleKept`); how cached and committed hash and height relate at each pc
(`CacheCurrent`); which rewards are pending (`RewardsPending`); and the safety
properties themselves, `CompleteOrInterrupted` strengthened by what is still to be
done for the block underway (`Complete`). The strengthening is needed because
`should_process` compares with the *cached* hash and height: that the chain is
extended properly rests on the cache being current whenever it is called.

The argument goes node by node: `OtherNodes` shows that a step of one node leaves
the others' state alone; of the node's own steps, those outside
`process_new_block` keep chain and cache (`QuietStep`), entering it is one lemma
whatever the block (`EnteringStep`), and each database write has a lemma of its
own. `HeightLags`, `RewardsPaidOnce` and `BlocksComplete` are the three safety
properties; `ChainsImplementLedger` is `Spec => ImplementsLedger`, by step
simulation under `IInv`.

`DelegatesBehind` (`DelegatesFollow`) rests on the order in which
`get_work_processed` and `loop` do things: a block is in its masternode's database
before it is multicast. `BlocksCommitted` says that a block anywhere, in flight,
in a queue, in a store or being processed, is on the committed chain of some
masternode, with one exception: a masternode that has built it and has not
written its hash (`Writing`). A crash at that moment takes the block with it.
`BlocksGenuine` and `BlocksCommitted` are the same formula for two sets of hashes
(`BlocksKnown`), and that a set which grows keeps it is one lemma (`KnownStep`).
With a single masternode the delegates' chains are parts of one chain, so that
there are no forks at all (`SingleMasterNoForks`).

### Execution (`ExecutionProofs`)

The pool is free between batches, and during one the polls are not used up
(`BatchUnderWay`): hence `OnlyConflictsRaise`. As long as nothing was disturbed,
every transaction of the batch is at one place only, in its worker's queues or
among the results (`EachAtOnePlace`), and between batches the queues are empty
(`QueuesEmpty`). A wait ends when as many results are collected as transactions
were submitted; by the pigeonhole principle these are then all of them, which is
`ResultsOfOwnBatch` and empties the queues for the next batch. A count alone would
not be inductive: it is the place of each transaction that a step preserves.

`AnsweredUnlessClash` is about the transactions of the round and not about the
results that came in. It needs, in one direction, that every result in an
undisturbed round is of one of its transactions (`OnlyOwnResults`), so that a
conflict among results is one among transactions (`ClashOfResults`); in the other,
that every transaction has a result among those that are compared
(`ResultOfEach`, from `ResultsOfOwnBatch`), so that none slips through
(`ResultsOfClash`).

### Transactions (`PipelineProofs`)

`Base` has the types, and that transactions everywhere are as their masternode
admitted them (`AsAdmitted`), those still in the queue being the last ones, in
order, and batches as they were packed (`AsPacked`). On it rest, each with a
strengthening of its own:

* `TypeOK`; that nonces are those of admitted transactions needs `AsAdmitted` for
  every block that has yet to come;
* `ExecutedOnce`, with `Apart`: a transaction is in one batch under way, or
  executed, and never both;
* `DoublesOnlyAfterReset`, with `PastOrReusable`: an admitted nonce is behind the
  account's nonces, or a reset has made it available again;
* `LockedIsUnderWay`, with `PendingUnderWay`: while nothing was lost, a pending
  nonce has a transaction in the queue, in a batch under way or in a block to
  come, whose commit resets it;
* `SameRoundElsewhere`, with `RoundComplete`: with stamps all different the place
  of a batch is the number of batches not later, so that two sorted arrangements
  of the same batches are the same;
* `NonceBackOnlyIfOutdated`, with `NothingBehind`: all nodes are, or with the block
  they have yet to process will be, at the same nonces (`SameAhead`); the work of a
  delegate is not behind its own nonces, and a round that knows of every block is
  behind nobody's; so that a block made of such rounds moves nothing back, in
  whatever order it has the transactions, since a delegate verifies every one of
  them against the same nonce.

### Seats and policies (`SeatsProofs`, `GovernanceProofs`)

* `MotionCounted`: yays and nays are the numbers of members who took that position,
  and neither has reached the majority. `SeatsChangeByMajority` and
  `OpenOnlyIfTied` follow: with all positions taken and neither side ahead of half,
  the sides are equal.
* `StakesBacked` has two parts. `StakesHeld`, about the treasury, is an invariant
  of its own. `CoinsConserved`, about all balances, needs what a sum over a set
  is: `MapThenSumSet` picks the elements one by one, and `SumProperties` shows,
  for every finite set, that whatever is picked, the sum of the rest and one
  element is the sum of all. The argument is by a least counterexample (a set of
  the least cardinality that has none of it), where an induction theorem would
  be out of reach. `SumMoved` is then a coin that goes from one account to
  another, which is all that `TransferFrom` and the payments of the contracts do.
* `NextToGo` says that who was picked to lose a seat has one, or lost it
  in a way that `lapsed` records, from which `LastMemberSeated`.
* `StakeFollowsSeat` (an action property) counts the occurrences of an account in
  the list of seats, because an account may sit twice.
* `StampBounded`: the rates of an election under way add up to at least `Half`, the
  price's half rounded up, and at most twice the price for each vote counted;
  dividing by the count gives `PriceMovesByTwo`.
* `SplitSound` and `UpgradeCounted` keep tallies and voters in step
  (`SplitTallied`, `UpgradeByQuorum`).
* `PaidOutOfStamps`: each committee's share, rounded towards zero per participant,
  times the participants is no more than the share, or than nothing if the share
  is negative (`ShareBound`); the shares add up to the whole, and those that are
  not negative to the whole and what the others fall below zero (`SharesBound`).
  The parts of a split need not add up to 100 there, since `update_value` turns a
  0 into a 1, and the proof takes the sum as it is.

### Peers (`PeerGossipProofs`)

`KnownUnlessMissed` speaks of the moment when nothing is under way, and the proof
is about what is under way before. `Out(v)` collects the signs that the bootnode
of a joining node `v` has taken up its request; `OutBy` shows that nothing else
brings the first sign about. `OutToAll`: from then on every node of the
constitution has the current address of `v`, or is `Due` it: a message is under
way that the receiver will take for news or has already. The bootnode is up by
then, so that it knows the whole constitution and forwards to all of it, and
`DueStays` says that a message is not given up without `v` being missed.

Of a joining node that has not moved, the others need no message: they go on
asking until they have an address of it, and there is only one (`Stages`,
`Genuine`). Of one that has moved they hear from their own bootnode, and this
needs most of the strengthening (`BootnodeTells`): what the bootnode of `n` has
dealt with, `n` has in its table, is due, or has in the answer it will merge. It
rests on `LearnsByMessage` (a bootnode gets an address only by a message it takes
up, and forwards to those who are out), on `PendingTells` (what it has taken up
and not yet written reaches those who are out), and on `FirstTheConstitution`
(nodes that have not come up know no joiner, so that joiners learn of the
constitution by answers, and with it of all others). `Genuine` and
`Stages` say that no address is from the future and what a node knows when it is
up. Stating the invariant for joiners with different bootnodes showed that a
delegate's table refresh may overtake a join message; the history variable
`missed` records it since.

### Liveness

`ENABLED`, which fairness is defined with, and inductions over a temporal formula
are out of the prover's reach. What can be proved is that the steps of the code
lead where they should. Each theorem has a hypothesis `Runnable`, which says that
a node or a round which is under way has a step to take: a fact about `ENABLED`,
and an assumption here. (No configuration of the project lists it. TLC found no
violation when it was added as an `INVARIANT` to the run named, with its
constants.) Beside it the theorems assume only the weak fairness that the liveness
property assumes.

* `GathersEnd` is `GatherEnds` for one masternode (`aggregator_rounds`): a gather
  ends, by `Expire` and `Finish` alone.
* `ExecutionAdvances` (`execution_rounds`): a round under way ends, or comes to
  have fewer batches left or as many and fewer polls, whatever the workers do.
* `CatchupComesCloser` (`node_restart`): a node that catches up comes up, fails to
  start, or comes to have fewer loops of `catchup` left, or fewer blocks for the
  loop it is in, or fewer steps of `process_new_block`. Blocks announced
  meanwhile do not put it back, since they are queued behind the loop that fetches
  and nothing is received in the one that drains; nor does what the seed does.

The measures of the last two are natural numbers, in lexicographic order; that
they cannot decrease for ever is the one step to `ExecutionEnds` and `CatchupEnds`
that is not proved.

### What is only model-checked

* The last step above, and that the steps named in `Runnable` are enabled as far as
  the liveness properties of the runs depend on it, hence `GatherEnds`, `CatchupEnds` and `ExecutionEnds` as they stand; `NodesComeUp`,
  for which nothing is proved: it rests on strong fairness of the network.

`SelectSeq` and the sorts of the community modules are recursive; where a theorem
depends on what is selected or sorted, the models say it in closed form instead
(`Subsequences`, `FilterWork`).

## Plan

Modelled: vote counting and gathers, the chain of every node, execution, the
pipeline of transactions, governance, peers. Still worth doing, in order:

1. `Aggregator` and `Execution` composed, so that the delegates' results are those
   of their workers.
2. The choice among equal stamps carried to the votes.

## Not modelled

* Message formatting rules (`formatting/`): stateless predicates on one message.
  Merkle trees and hashing (`canonical.py`): pure computation; a hash is modelled
  as the content it commits to.
* Genesis contract submission (`contracts/sync.py`): runs once on an empty
  database; what it sets up is the `Init` of `Seats` and `Governance`.
* The web server's handlers other than `submit_transaction`, which change
  nothing; command line, configuration, logging, wallet; sockets and certificates;
  git and pip calls of the upgrade manager: I/O without protocol state of its own.
* Code that nothing calls: `check_conflict`, `has_adequate_consensus`,
  `force_removal`; and `IdentityProcessor`, which answers requests the code no
  longer makes.
* `currency.approve` (everything is approved at the start) and changing the
  foundation's owner; a second committee that changes while the first votes.
* Stateless checks of a transaction (format, signature, contract name), and the
  balance behind the stamps check, which is a free choice.
* Contract execution and the database drivers: external libraries, modelled from
  how the code uses them.

The components table in `PROJECT.json` gives the status of each part.
