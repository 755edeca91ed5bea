------------------------------ MODULE NodeChain ------------------------------
(***************************************************************************)
(* How nodes take blocks into their databases (nodes/base.py, storage.py,  *)
(* and the parts of masternode.py and delegate.py that call them): start   *)
(* and catch-up, block announcements (NBNs), process_new_block, crashes    *)
(* between its database writes, and restarts.                              *)
(*                                                                         *)
(* A node is one asyncio process.  Between two awaits nothing else of the  *)
(* node runs, but the process may die there: process_new_block, which has  *)
(* no await, is split at its database writes so that a crash can fall      *)
(* between them, and nothing is received meanwhile.                        *)
(*                                                                         *)
(* Hashing is collision free, so a block's hash is modelled as the chain   *)
(* up to and including it, the sequence of bodies; the genesis hash is     *)
(* << >>.  The state deltas of a block's transactions are overwrites that  *)
(* precede the write of its hash and leave nothing else to tell apart.     *)
(***************************************************************************)
EXTENDS Integers, Sequences, FiniteSets

CONSTANTS
    Masters, Delegates,     \* the nodes; only masternodes store blocks
    Seed,                   \* constitution['masternodes'][0], asked for missed blocks
    Bodies,                 \* what a block may contain (the sub-blocks)
    NoBody,                 \* the empty body of the genesis block
    MaxQueue,               \* bound: NBNs waiting at each node (more stay in flight)
    MaxHeight,              \* bound: no masternode builds beyond this height
    MaxStarts,              \* bound: starts and restarts of all nodes together
    Crashing                \* bound: the nodes that may crash

Nodes == Masters \cup Delegates

ASSUME NodeChainAssumption ==
    /\ Masters \cap Delegates = {}
    /\ Seed \in Masters
    /\ NoBody \notin Bodies
    /\ MaxQueue \in [Nodes -> Nat]
    /\ MaxHeight \in Nat
    /\ MaxStarts \in Nat
    /\ Crashing \subseteq Nodes

VARIABLES
    db,         \* what survives a crash: latest hash and height, stored blocks, paid rewards
    node,       \* what does not: where the node is, cached hash and height, NBN queue ...
    net,        \* NBNs in flight
    starts,     \* starts and restarts so far (bound)
    tears,      \* history: crashes of a node between the writes of hash and height
    interrupted,\* history: chains whose last block a crash hit before it was complete
    built       \* history: chains whose last block some masternode built

vars == << db, node, net, starts, tears, interrupted, built >>

Chain == Seq(Bodies)
Block == [number : Nat, previous : Chain, body : Bodies \cup {NoBody}, hash : Chain]

DbState == [hash : Chain, height : Nat, store : Seq(Block), paid : Seq(Chain)]

\* The pcs at which the node awaits something, its router being served.
Awaiting ==
    {"askHeight", "fetch", "boot", "join", "build", "announce", "hang", "work", "sent", "confirm"}
\* The pcs inside process_new_block, named for what comes next.
Processing == {"setHash", "setHeight", "refresh", "store", "commit"}
PCs == Awaiting \cup Processing \cup {"down", "drain", "drainWork"}

NodeState ==
    [pc : PCs, ret : PCs,               \* where it is; where process_new_block returns to
     block : Block, accepted : BOOLEAN, \* what is being processed, should_process of it
     hash : Chain, height : Nat,        \* current_hash, current_height
     q : Seq(Block),                    \* new_block_processor.q
     unpaid : Seq(Chain),               \* the driver's pending writes: blocks' rewards
     next : Nat, latest : Nat]          \* the loop of catchup

\* block_from_subblocks: the hash covers the previous hash and the body.
BlockFrom(body, previous, number) ==
    [number |-> number, previous |-> previous, body |-> body, hash |-> Append(previous, body)]

\* get_genesis_block: the signal that wakes up the network.
GenesisBlock == [number |-> 0, previous |-> << >>, body |-> NoBody, hash |-> << >>]

FreshDb == [hash |-> << >>, height |-> 0, store |-> << >>, paid |-> << >>]

\* A node that is down; its memory is lost.
Down == [pc |-> "down", ret |-> "down", block |-> GenesisBlock, accepted |-> FALSE,
         hash |-> << >>, height |-> 0, q |-> << >>, unpaid |-> << >>, next |-> 0, latest |-> 0]

Init ==
    /\ db = [n \in Nodes |-> FreshDb]
    /\ node = [n \in Nodes |-> Down]
    /\ net = {}
    /\ starts = 0
    /\ tears = [n \in Nodes |-> 0]
    /\ interrupted = [n \in Nodes |-> {}]
    /\ built = {}

history == << tears, interrupted, built >>

Packets(targets, block) == [to : targets, block : {block}]

----------------------------------------------------------------------------
(* process_new_block *)

\* A bug to catch: a block on another branch is accepted.
ShouldProcessAnyBranch(n, b) == b.number = node[n].height + 1

\* should_process: the next number, on the current hash, and hashed like it.
\* (No code builds a block with the failed hash ff..f it also looks for.)
ShouldProcess(n, b) ==
    /\ b.number = node[n].height + 1
    /\ b.previous = node[n].hash
    /\ b = BlockFrom(b.body, node[n].hash, node[n].height + 1)

\* The state of a node that enters process_new_block with block b, given its
\* queue; it will go on at pc ret.  Pending driver writes are dropped first.
Entering(n, b, ret, q) ==
    [node[n] EXCEPT !.pc = IF ShouldProcess(n, b) THEN "setHash" ELSE "refresh",
                    !.ret = ret, !.block = b, !.accepted = ShouldProcess(n, b),
                    !.q = q, !.unpaid = << >>]

\* set_latest_block_hash
SetHash(n) ==
    /\ node[n].pc = "setHash"
    /\ db' = [db EXCEPT ![n].hash = node[n].block.hash]
    /\ node' = [node EXCEPT ![n].pc = "setHeight"]
    /\ UNCHANGED << net, starts, history >>

\* A bug to catch: the height is counted up once too often.
NumberOffByOne(b) == b.number + 1
NumberOf(b) == b.number

\* set_latest_block_height
SetHeight(n) ==
    /\ node[n].pc = "setHeight"
    /\ db' = [db EXCEPT ![n].height = NumberOf(node[n].block)]
    /\ node' = [node EXCEPT ![n].pc = "refresh"]
    /\ UNCHANGED << net, starts, history >>

\* NewBlock.clean: what it leaves of queue q, as a set of one sequence: that of
\* the increasing enumeration of the positions it keeps.
Cleaned(q, height) ==
    LET kept  == {k \in DOMAIN q : q[k].number > height}
        order == {f \in [1 .. Cardinality(kept) -> kept] :
                    \A i, j \in DOMAIN f : i < j => f[i] < f[j]}
    IN  {[i \in 1 .. Cardinality(kept) |-> q[f[i]]] : f \in order}

\* A bug to catch: rewards are issued for a block that was not accepted, too.
IssuedAlways(n) == << node[n].block.hash >>

\* issue_rewards leaves the rewards of an accepted block as pending writes.
Issued(n) == IF node[n].accepted THEN << node[n].block.hash >> ELSE << >>

\* The rest of update_state: issue the rewards, reread hash and height, clean
\* the queue.  Then the sockets are refreshed; masternodes go on to the store.
Refresh(n) ==
    /\ node[n].pc = "refresh"
    /\ \E q \in Cleaned(node[n].q, db[n].height) :
         node' = [node EXCEPT ![n].unpaid = Issued(n),
                              ![n].hash = db[n].hash,
                              ![n].height = db[n].height,
                              ![n].q = q,
                              ![n].pc = IF n \in Masters THEN "store" ELSE "commit"]
    /\ UNCHANGED << db, net, starts, history >>

\* BlockStorage.store_block: it inserts whatever block was processed.
Store(n) ==
    /\ node[n].pc = "store"
    /\ db' = [db EXCEPT ![n].store = Append(@, node[n].block)]
    /\ node' = [node EXCEPT ![n].pc = "commit"]
    /\ UNCHANGED << net, starts, history >>

\* A bug to catch: the pending writes are cleared before they are committed.
PaidNothing(n) == db[n].paid

\* A bug to catch: the pending writes are appended as one value.
PaidNested(n) == Append(db[n].paid, node[n].unpaid)

\* driver.commit(): the pending rewards reach the database.
Paid(n) == db[n].paid \o node[n].unpaid

\* Back in the caller, with the locals of process_new_block gone; only the
\* masternode's loop still holds the block it built, to announce it.
Returned(n) ==
    [node[n] EXCEPT !.pc = node[n].ret, !.ret = "down", !.unpaid = << >>, !.accepted = FALSE,
                    !.block = IF node[n].ret = "announce" THEN @ ELSE GenesisBlock]

Commit(n) ==
    /\ node[n].pc = "commit"
    /\ db' = [db EXCEPT ![n].paid = Paid(n)]
    /\ node' = [node EXCEPT ![n] = Returned(n)]
    /\ UNCHANGED << net, starts, history >>

----------------------------------------------------------------------------
(* Start and catch-up *)

\* Node.__init__ reads hash and height from the database; catch-up begins.
Restart(n) ==
    /\ node[n].pc = "down"
    /\ starts < MaxStarts
    /\ starts' = starts + 1
    /\ node' = [node EXCEPT ![n] = [Down EXCEPT !.pc = "askHeight",
                                                !.hash = db[n].hash, !.height = db[n].height]]
    /\ UNCHANGED << db, net, history >>

\* Where a node goes after catch-up: a masternode with an empty chain boots a
\* new blockchain, another one joins the quorum, a delegate waits for work.
AfterCatchup(n) ==
    IF n \in Delegates THEN "work"
    ELSE IF node[n].height = 0 THEN "boot" ELSE "join"

Answering(n) == node[n].pc \in Awaiting

\* get_latest_block_height: the seed answers, or no answer comes in time.
\* Without one, or if the seed has no block, catch-up is skipped.
AskHeight(n) ==
    /\ node[n].pc = "askHeight"
    /\ \E latest \in {0} \cup (IF Answering(Seed) THEN {db[Seed].height} ELSE {}) :
         node' = [node EXCEPT ![n] =
                    IF latest = 0
                    THEN [@ EXCEPT !.pc = AfterCatchup(n)]
                    ELSE [@ EXCEPT !.pc = "fetch", !.latest = latest,
                                   !.next = IF node[n].height = 0 THEN 1 ELSE node[n].height]]
    /\ UNCHANGED << db, net, starts, history >>

\* find_one({'number': i}): the first block with this number to be inserted.
Served(i) ==
    {db[Seed].store[k] : k \in {k \in DOMAIN db[Seed].store :
        /\ db[Seed].store[k].number = i
        /\ \A j \in 1 .. k - 1 : db[Seed].store[j].number # i}}

NextOf(i) == i + 1

\* The next block of the catch-up loop arrives.
Fetch(n) ==
    /\ node[n].pc = "fetch"
    /\ node[n].next <= node[n].latest
    /\ Answering(Seed)
    /\ \E b \in Served(node[n].next) :
         node' = [node EXCEPT ![n] = [Entering(n, b, "fetch", node[n].q)
                                        EXCEPT !.next = NextOf(@)]]
    /\ UNCHANGED << db, net, starts, history >>

\* A bug to catch: the request for a block has no timeout.
FetchWaits(n) == FALSE

\* No answer, or the seed has no such block: process_new_block raises on what
\* comes instead, start() with it, and the node does not come up.
FetchFails(n) ==
    /\ node[n].pc = "fetch"
    /\ node[n].next <= node[n].latest
    /\ node' = [node EXCEPT ![n] = Down]
    /\ UNCHANGED << db, net, starts, history >>

FetchDone(n) ==
    /\ node[n].pc = "fetch"
    /\ node[n].next > node[n].latest
    /\ node' = [node EXCEPT ![n].pc = "drain", ![n].next = 0, ![n].latest = 0]
    /\ UNCHANGED << db, net, starts, history >>

\* `while len(q) > 0: process_new_block(q.pop(0))`, at the end of catchup and
\* in a delegate's process_new_work; go on at `then` when the queue is empty.
DrainTo(n, pc, then) ==
    /\ node[n].pc = pc
    /\ node' = [node EXCEPT ![n] =
                  IF node[n].q = << >>
                  THEN [node[n] EXCEPT !.pc = then]
                  ELSE Entering(n, Head(node[n].q), pc, Tail(node[n].q))]
    /\ UNCHANGED << db, net, starts, history >>

Drain(n) == DrainTo(n, "drain", AfterCatchup(n))

----------------------------------------------------------------------------
(* Block announcements *)

\* NewBlock.process_message, called by the router while the node awaits.
ReceiveNbn(n) ==
    /\ node[n].pc \in Awaiting
    /\ Len(node[n].q) < MaxQueue[n]
    /\ \E packet \in net :
        /\ packet.to = n
        /\ net' = net \ {packet}
        /\ node' = [node EXCEPT ![n].q = Append(@, packet.block)]
    /\ UNCHANGED << db, starts, history >>

----------------------------------------------------------------------------
(* The masternode's loop *)

\* new_blockchain_boot: hang until a transaction or an NBN comes; if it was a
\* transaction, wake everyone up with the genesis block.
Boot(n) ==
    /\ node[n].pc = "boot"
    /\ \/ net' = net \cup Packets(Nodes, GenesisBlock)
       \/ node[n].q # << >> /\ net' = net
    /\ node' = [node EXCEPT ![n].pc = "build"]
    /\ UNCHANGED << db, starts, history >>

\* join_quorum: with other masternodes around, process one NBN first.
Join(n) ==
    /\ node[n].pc = "join"
    /\ IF Cardinality(Masters) > 1
       THEN /\ node[n].q # << >>
            /\ node' = [node EXCEPT ![n] = Entering(n, Head(node[n].q), "build", Tail(node[n].q))]
       ELSE node' = [node EXCEPT ![n].pc = "build"]
    /\ UNCHANGED << db, net, starts, history >>

\* A bug to catch: the delegates hear of the block before it is processed.
BuildAnnounced(n) ==
    /\ node[n].pc = "build"
    /\ node[n].height < MaxHeight
    /\ \E body \in Bodies :
        LET b == BlockFrom(body, node[n].hash, node[n].height + 1)
        IN  /\ node' = [node EXCEPT ![n] = Entering(n, b, "announce", node[n].q)]
            /\ built' = built \cup {b.hash}
            /\ net' = net \cup Packets(Delegates, b)
    /\ UNCHANGED << db, starts, tears, interrupted >>

\* get_work_processed: the gather ends with some body, the block is processed.
Build(n) ==
    /\ node[n].pc = "build"
    /\ node[n].height < MaxHeight
    /\ \E body \in Bodies :
        LET b == BlockFrom(body, node[n].hash, node[n].height + 1)
        IN  /\ node' = [node EXCEPT ![n] = Entering(n, b, "announce", node[n].q)]
            /\ built' = built \cup {b.hash}
    /\ UNCHANGED << db, net, starts, tears, interrupted >>

\* The NBN goes to the delegates at once ...
Announce(n) ==
    /\ node[n].pc = "announce"
    /\ net' = net \cup Packets(Delegates, node[n].block)
    /\ node' = [node EXCEPT ![n].pc = "hang"]
    /\ UNCHANGED << db, starts, history >>

\* ... and to the masternodes, the sender included, when hang() has seen a
\* transaction (one may come at any time) or an NBN.
Hang(n) ==
    /\ node[n].pc = "hang"
    /\ net' = net \cup Packets(Masters, node[n].block)
    /\ node' = [node EXCEPT ![n].pc = "build", ![n].block = GenesisBlock]
    /\ UNCHANGED << db, starts, history >>

----------------------------------------------------------------------------
(* The delegate's loop *)

\* Work has come in: process what is queued before executing it.
AcquireWork(n) ==
    /\ node[n].pc = "work"
    /\ node' = [node EXCEPT ![n].pc = "drainWork"]
    /\ UNCHANGED << db, net, starts, history >>

DrainWork(n) == DrainTo(n, "drainWork", "sent")

\* The SBCs have been multicast; old NBNs are cleaned.
Sent(n) ==
    /\ node[n].pc = "sent"
    /\ \E q \in Cleaned(node[n].q, node[n].height) :
         node' = [node EXCEPT ![n].q = q, ![n].pc = "confirm"]
    /\ UNCHANGED << db, net, starts, history >>

\* wait_for_next_nbn takes the first NBN and forgets the others.
Confirm(n) ==
    /\ node[n].pc = "confirm"
    /\ node[n].q # << >>
    /\ node' = [node EXCEPT ![n] = Entering(n, Head(node[n].q), "work", << >>)]
    /\ UNCHANGED << db, net, starts, history >>

----------------------------------------------------------------------------
\* An accepted block whose hash is in the database has not been completed.
Underway(n) == node[n].accepted /\ node[n].pc \in {"setHeight", "refresh", "store", "commit"}

\* The process dies, at any point; whatever is underway is left undone.
Crash(n) ==
    /\ n \in Crashing
    /\ node[n].pc # "down"
    /\ node' = [node EXCEPT ![n] = Down]
    /\ tears' = IF node[n].pc = "setHeight" THEN [tears EXCEPT ![n] = @ + 1] ELSE tears
    /\ interrupted' =
         IF Underway(n)
         THEN [interrupted EXCEPT ![n] = @ \cup {node[n].block.hash}]
         ELSE interrupted
    /\ UNCHANGED << db, net, starts, built >>

ProcessStep(n) == SetHash(n) \/ SetHeight(n) \/ Refresh(n) \/ Store(n) \/ Commit(n)

CatchupStep(n) == AskHeight(n) \/ Fetch(n) \/ FetchFails(n) \/ FetchDone(n) \/ Drain(n)

Next ==
    \E n \in Nodes :
        \/ SetHash(n) \/ SetHeight(n) \/ Refresh(n) \/ Store(n) \/ Commit(n)
        \/ Restart(n) \/ AskHeight(n) \/ Fetch(n) \/ FetchFails(n) \/ FetchDone(n) \/ Drain(n)
        \/ ReceiveNbn(n)
        \/ Boot(n) \/ Join(n) \/ Build(n) \/ Announce(n) \/ Hang(n)
        \/ AcquireWork(n) \/ DrainWork(n) \/ Sent(n) \/ Confirm(n)
        \/ Crash(n)

\* A started coroutine runs on, and a request is answered or times out.
Fairness == \A n \in Nodes : WF_vars(ProcessStep(n)) /\ WF_vars(CatchupStep(n))

Spec == Init /\ [][Next]_vars /\ Fairness

----------------------------------------------------------------------------
(* Properties. *)

\* Every variable holds values of its type.
TypeOK ==
    /\ db \in [Nodes -> DbState]
    /\ node \in [Nodes -> NodeState]
    /\ net \subseteq [to : Nodes, block : Block]
    /\ starts \in Nat
    /\ tears \in [Nodes -> Nat]
    /\ interrupted \in [Nodes -> SUBSET Chain]
    /\ built \subseteq Chain

\* The non-empty prefixes of a chain: the hashes of its blocks.
Hashes(chain) == {SubSeq(chain, 1, k) : k \in 1 .. Len(chain)}

\* The two writes of update_state_with_block (hash, then height) are the only
\* place where height and chain can part: the committed height is short of the
\* chain's length by exactly the crashes that fell between them, for good.
HeightLagsAt(n) ==
    Len(db[n].hash) = db[n].height + tears[n] + (IF node[n].pc = "setHeight" THEN 1 ELSE 0)

HeightLagsByTears == \A n \in Nodes : HeightLagsAt(n)

\* Rewards are never paid twice for a block, although catch-up fetches the
\* latest committed block again and others announce blocks again; and never
\* for a block that is not on the node's chain.
PaidOnceAt(n) ==
    /\ \A j, k \in DOMAIN db[n].paid : db[n].paid[j] = db[n].paid[k] => j = k
    /\ \A k \in DOMAIN db[n].paid : db[n].paid[k] \in Hashes(db[n].hash)

PaidOnce == \A n \in Nodes : PaidOnceAt(n)

IsStored(n, hash) == \E k \in DOMAIN db[n].store : db[n].store[k].hash = hash

IsPaid(n, hash) == \E k \in DOMAIN db[n].paid : db[n].paid[k] = hash

\* All parts of taking in a block are done together, or a crash fell between
\* them: outside process_new_block every block on the chain has had its
\* rewards paid and, at a masternode, has been stored, except interrupted ones.
CompleteOrInterrupted ==
    \A n \in Nodes : node[n].pc \notin Processing =>
        \A hash \in Hashes(db[n].hash) \ interrupted[n] :
            IsPaid(n, hash) /\ (n \in Masters => IsStored(n, hash))

\* The hashes of the blocks that masternodes have committed.
Committed == UNION {Hashes(db[m].hash) : m \in Masters}

\* A masternode takes a block into its database before it announces it: whoever
\* crashes when, and whatever announcements and answers are still about, a
\* delegate's chain is a part of a masternode's.
DelegatesFollow == \A d \in Delegates : db[d].hash \in {<< >>} \cup Committed

\* The committed chains implement the ledgers of the abstract specification:
\* every step extends one chain by a built block, builds a block on top of the
\* builder's committed chain, or leaves both alone.
Abstract == INSTANCE Ledger WITH ledger <- [n \in Nodes |-> db[n].hash], Builders <- Masters
ImplementsLedger == Abstract!Spec

\* Catch-up ends: the node comes up or start() has failed.
CatchupEnds ==
    \A n \in Nodes : node[n].pc = "askHeight" ~> node[n].pc \in {"boot", "join", "work", "down"}

----------------------------------------------------------------------------
(* The inductive invariant behind the theorems of NodeChainProofs. *)

\* Blocks in flight, in queues and in stores are the genesis signal or have their
\* hash in `known`, and so are those held by the nodes that are not excepted.
Known(b, known) == b = GenesisBlock \/ b.hash \in known

BlocksKnown(known, excepted) ==
    /\ \A packet \in net : Known(packet.block, known)
    /\ \A n \in Nodes :
         /\ n \in excepted \/ Known(node[n].block, known)
         /\ \A k \in DOMAIN node[n].q : Known(node[n].q[k], known)
         /\ \A k \in DOMAIN db[n].store : Known(db[n].store[k], known)

\* Every block anywhere was built by a masternode, or is the genesis signal ...
BlocksGenuine == BlocksKnown(built, {})

\* ... and is on a masternode's chain, unless it is about to get there.
Writing == {n \in Masters : node[n].pc = "setHash"}
BlocksCommitted == BlocksKnown(Committed, Writing) /\ DelegatesFollow

\* process_new_block returns to where it was called; only masternodes run, or
\* will return to, the masternode's loop.
MasterPCs == {"boot", "join", "build", "announce", "hang"}
RoleKept(n) ==
    /\ node[n].ret \notin Processing
    /\ node[n].pc \in MasterPCs \/ node[n].ret \in MasterPCs => n \in Masters

\* How cached hash and height relate to the committed ones at each pc.
CacheCurrent(n) ==
    LET s == node[n] IN
    /\ s.pc \notin {"down", "setHeight", "refresh"} => s.hash = db[n].hash /\ s.height = db[n].height
    /\ s.pc = "setHash" => s.accepted /\ ShouldProcess(n, s.block)
    /\ s.pc = "setHeight" =>
         /\ s.accepted /\ s.block.number = s.height + 1
         /\ s.height = db[n].height /\ s.block.hash = db[n].hash
    /\ s.pc \in {"refresh", "store", "commit"} /\ s.accepted => s.block.hash = db[n].hash
    /\ s.pc = "refresh" /\ ~ s.accepted => s.hash = db[n].hash /\ s.height = db[n].height

\* Pending rewards are those of the accepted block, not paid before.
RewardsPending(n) ==
    /\ node[n].unpaid = IF node[n].pc \in {"store", "commit"} THEN Issued(n) ELSE << >>
    /\ Underway(n) => db[n].hash # << >> /\ ~ IsPaid(n, db[n].hash)

\* CompleteOrInterrupted, with what is still to be done for the block underway.
Complete(n) ==
    \A hash \in Hashes(db[n].hash) \ interrupted[n] :
        /\ IsPaid(n, hash) \/ (Underway(n) /\ hash = db[n].hash)
        /\ n \in Masters =>
             \/ IsStored(n, hash)
             \/ Underway(n) /\ hash = db[n].hash /\ node[n].pc # "commit"

NodeInv(n) ==
    /\ RoleKept(n) /\ CacheCurrent(n) /\ HeightLagsAt(n)
    /\ PaidOnceAt(n) /\ RewardsPending(n) /\ Complete(n)

IInv == TypeOK /\ BlocksGenuine /\ BlocksCommitted /\ \A n \in Nodes : NodeInv(n)
=============================================================================
