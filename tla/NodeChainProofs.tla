--------------------------- MODULE NodeChainProofs ---------------------------
(***************************************************************************)
(* Proofs about NodeChain: type correctness first, then the invariants of  *)
(* the chain a node commits, for every set of nodes, bodies and bounds.    *)
(***************************************************************************)
EXTENDS NodeChain, TLAPS, FiniteSetTheorems, SequenceTheorems

\* Cleaning a queue of blocks yields a queue of blocks, each of which was in it.
LEMMA CleanedType ==
    ASSUME NEW q \in Seq(Block), NEW height \in Nat, NEW s \in Cleaned(q, height)
    PROVE  /\ s \in Seq(Block)
           /\ \A i \in DOMAIN s : \E k \in DOMAIN q : s[i] = q[k]
<1> DEFINE kept == {k \in DOMAIN q : q[k].number > height}
<1>1. IsFiniteSet(kept) /\ Cardinality(kept) \in Nat
  <2>1. DOMAIN q = 1 .. Len(q) /\ Len(q) \in Nat
    OBVIOUS
  <2>2. IsFiniteSet(DOMAIN q)
    BY <2>1, FS_Interval
  <2>3. kept \subseteq DOMAIN q
    OBVIOUS
  <2>4. QED
    BY <2>2, <2>3, FS_Subset, FS_CardinalityType
<1>2. PICK f \in [1 .. Cardinality(kept) -> kept] :
        s = [i \in 1 .. Cardinality(kept) |-> q[f[i]]]
  BY DEF Cleaned
<1>3. \A i \in 1 .. Cardinality(kept) : f[i] \in DOMAIN q /\ q[f[i]] \in Block
  BY <1>2
<1>4. s \in [1 .. Cardinality(kept) -> Block]
  BY <1>2, <1>3
<1>5. s \in Seq(Block)
  <2> HIDE DEF kept
  <2> DEFINE m == Cardinality(kept)
  <2>1. m \in Nat /\ s \in [1 .. m -> Block]
    BY <1>1, <1>4
  <2> HIDE DEF m
  <2>2. QED
    BY <2>1
<1>6. QED
  BY <1>2, <1>3, <1>5

\* process_new_block is entered in a well-typed state.
LEMMA EnteringType ==
    ASSUME NEW n \in Nodes, node[n] \in NodeState,
           NEW b \in Block, NEW ret \in PCs, NEW q \in Seq(Block)
    PROVE  Entering(n, b, ret, q) \in NodeState
<1>1. "setHash" \in PCs /\ "refresh" \in PCs
  BY DEF PCs, Processing
<1>2. ShouldProcess(n, b) \in BOOLEAN
  BY DEF ShouldProcess
<1>3. << >> \in Seq(Chain)
  OBVIOUS
<1>4. QED
  BY <1>1, <1>2, <1>3 DEF Entering, NodeState

\* The genesis signal and every block a masternode builds are blocks.
LEMMA BlockType ==
    /\ GenesisBlock \in Block
    /\ \A body \in Bodies, previous \in Chain, number \in Nat :
          BlockFrom(body, previous, number) \in Block
BY DEF GenesisBlock, Block, BlockFrom, Chain

LEMMA DownType == Down \in NodeState
<1>1. "down" \in PCs
  BY DEF PCs
<1>2. << >> \in Chain /\ << >> \in Seq(Block) /\ << >> \in Seq(Chain)
  BY DEF Chain
<1>3. QED
  BY <1>1, <1>2, BlockType DEF Down, NodeState

LEMMA ServedType ==
    ASSUME TypeOK, NodeChainAssumption, NEW i, NEW b \in Served(i)
    PROVE  b \in Block /\ \E k \in DOMAIN db[Seed].store : b = db[Seed].store[k]
<1>1. db[Seed].store \in Seq(Block)
  BY DEF TypeOK, DbState, Nodes, NodeChainAssumption
<1>2. PICK k \in DOMAIN db[Seed].store : b = db[Seed].store[k]
  BY DEF Served
<1>3. QED
  BY <1>1, <1>2

----------------------------------------------------------------------------
(* Type correctness. *)

LEMMA PCsType ==
    /\ Awaiting \subseteq PCs /\ Processing \subseteq PCs
    /\ "down" \in PCs /\ "drain" \in PCs /\ "drainWork" \in PCs
BY DEF PCs

\* The steps of process_new_block keep the types.
LEMMA ProcessType ==
    ASSUME TypeOK, NEW n \in Nodes, ProcessStep(n)
    PROVE  TypeOK'
<1>1. node[n] \in NodeState /\ db[n] \in DbState
  BY DEF TypeOK
<1> USE <1>1, PCsType
<1>2. CASE SetHash(n)
  BY <1>2 DEF SetHash, TypeOK, NodeState, DbState, Processing, Block, history
<1>3. CASE SetHeight(n)
  BY <1>3 DEF SetHeight, NumberOf, TypeOK, NodeState, DbState, Processing, Block, history
<1>4. CASE Refresh(n)
  <2>1. PICK q \in Cleaned(node[n].q, db[n].height) :
          node' = [node EXCEPT ![n].unpaid = Issued(n),
                               ![n].hash = db[n].hash,
                               ![n].height = db[n].height,
                               ![n].q = q,
                               ![n].pc = IF n \in Masters THEN "store" ELSE "commit"]
    BY <1>4 DEF Refresh
  <2>2. q \in Seq(Block)
    BY CleanedType DEF NodeState, DbState
  <2>3. Issued(n) \in Seq(Chain)
    BY DEF Issued, NodeState, Block
  <2>4. "store" \in PCs /\ "commit" \in PCs
    BY DEF Processing
  <2>5. QED
    BY <1>4, <2>1, <2>2, <2>3, <2>4 DEF Refresh, TypeOK, NodeState, DbState, history
<1>5. CASE Store(n)
  <2>1. Append(db[n].store, node[n].block) \in Seq(Block)
    BY DEF NodeState, DbState
  <2>2. [db[n] EXCEPT !.store = Append(@, node[n].block)] \in DbState
    BY <2>1 DEF DbState
  <2>3. [node[n] EXCEPT !.pc = "commit"] \in NodeState
    BY DEF NodeState, Processing
  <2>4. QED
    BY <1>5, <2>2, <2>3 DEF Store, TypeOK, history
<1>6. CASE Commit(n)
  <2>1. Paid(n) \in Seq(Chain)
    BY DEF Paid, NodeState, DbState
  <2>2. Returned(n) \in NodeState
    <3>1. << >> \in Seq(Chain)
      OBVIOUS
    <3>2. (IF node[n].ret = "announce" THEN node[n].block ELSE GenesisBlock) \in Block
      BY BlockType DEF NodeState
    <3>3. QED
      BY <3>1, <3>2 DEF Returned, NodeState
  <2>3. QED
    BY <1>6, <2>1, <2>2 DEF Commit, TypeOK, DbState, history
<1>7. QED
  BY <1>2, <1>3, <1>4, <1>5, <1>6 DEF ProcessStep

\* Starting, catching up and draining the queue keep the types.
LEMMA CatchupType ==
    ASSUME TypeOK, NodeChainAssumption, NEW n \in Nodes,
           Restart(n) \/ CatchupStep(n) \/ DrainWork(n)
    PROVE  TypeOK'
<1>1. node[n] \in NodeState /\ db[n] \in DbState
  BY DEF TypeOK
<1>2. Seed \in Nodes
  BY DEF NodeChainAssumption, Nodes
<1>3. AfterCatchup(n) \in PCs
  BY DEF AfterCatchup, PCs, Awaiting
<1> USE <1>1, PCsType
<1>4. ASSUME NEW pc \in PCs, NEW then \in PCs, DrainTo(n, pc, then)
      PROVE  TypeOK'
  <2>1. CASE node[n].q = << >>
    BY <1>4, <2>1 DEF DrainTo, TypeOK, NodeState, history
  <2>2. CASE node[n].q # << >>
    <3>1. Head(node[n].q) \in Block /\ Tail(node[n].q) \in Seq(Block)
      BY <2>2 DEF NodeState
    <3>2. Entering(n, Head(node[n].q), pc, Tail(node[n].q)) \in NodeState
      BY <1>4, <3>1, EnteringType
    <3>3. QED
      BY <1>4, <2>2, <3>2 DEF DrainTo, TypeOK, history
  <2>3. QED
    BY <2>1, <2>2
<1>5. CASE Restart(n)
  <2>1. [Down EXCEPT !.pc = "askHeight", !.hash = db[n].hash, !.height = db[n].height] \in NodeState
    <3>1. "askHeight" \in PCs
      BY DEF Awaiting
    <3>2. QED
      BY <3>1, DownType DEF NodeState, DbState
  <2>2. QED
    BY <1>5, <2>1 DEF Restart, TypeOK, history
<1>6. CASE AskHeight(n)
  <2>1. PICK latest \in {0} \cup (IF Answering(Seed) THEN {db[Seed].height} ELSE {}) :
         node' = [node EXCEPT ![n] =
                    IF latest = 0
                    THEN [@ EXCEPT !.pc = AfterCatchup(n)]
                    ELSE [@ EXCEPT !.pc = "fetch", !.latest = latest,
                                   !.next = IF node[n].height = 0 THEN 1 ELSE node[n].height]]
    BY <1>6 DEF AskHeight
  <2>2. latest \in Nat
    BY <1>2 DEF TypeOK, DbState
  <2>3. "fetch" \in PCs
    BY DEF Awaiting
  <2>4. QED
    BY <1>3, <1>6, <2>1, <2>2, <2>3 DEF AskHeight, TypeOK, NodeState, history
<1>7. CASE Fetch(n)
  <2>1. PICK b \in Served(node[n].next) :
          node' = [node EXCEPT ![n] = [Entering(n, b, "fetch", node[n].q)
                                         EXCEPT !.next = NextOf(@)]]
    BY <1>7 DEF Fetch
  <2>2. Entering(n, b, "fetch", node[n].q) \in NodeState
    BY <2>1, ServedType, EnteringType DEF NodeState, Awaiting
  <2>3. [Entering(n, b, "fetch", node[n].q) EXCEPT !.next = NextOf(@)] \in NodeState
    <3>1. \A e \in NodeState, x \in Nat : [e EXCEPT !.next = x] \in NodeState
      BY DEF NodeState
    <3>2. \A e \in NodeState : e.next + 1 \in Nat
      BY DEF NodeState
    <3>3. QED
      BY <2>2, <3>1, <3>2 DEF NextOf
  <2>4. QED
    BY <1>7, <2>1, <2>3 DEF Fetch, TypeOK, history
<1>8. CASE FetchFails(n)
  BY <1>8, DownType DEF FetchFails, TypeOK, history
<1>9. CASE FetchDone(n)
  BY <1>9 DEF FetchDone, TypeOK, NodeState, history
<1>10. CASE Drain(n)
  BY <1>3, <1>4, <1>10 DEF Drain
<1>11. CASE DrainWork(n)
  BY <1>4, <1>11 DEF DrainWork, Awaiting
<1>12. QED
  BY <1>5, <1>6, <1>7, <1>8, <1>9, <1>10, <1>11 DEF CatchupStep

\* The loops of masternodes and delegates, NBNs and crashes keep the types.
LEMMA LoopType ==
    ASSUME TypeOK, NEW n \in Nodes,
           \/ ReceiveNbn(n) \/ Boot(n) \/ Join(n) \/ Build(n) \/ Announce(n) \/ Hang(n)
           \/ AcquireWork(n) \/ Sent(n) \/ Confirm(n) \/ Crash(n)
    PROVE  TypeOK'
<1>1. node[n] \in NodeState /\ db[n] \in DbState
  BY DEF TypeOK
<1> USE <1>1, PCsType
<1>2. CASE ReceiveNbn(n)
  <2>1. PICK packet \in net : node' = [node EXCEPT ![n].q = Append(@, packet.block)]
    BY <1>2 DEF ReceiveNbn
  <2>2. Append(node[n].q, packet.block) \in Seq(Block)
    BY DEF TypeOK, NodeState
  <2>3. [node[n] EXCEPT !.q = Append(@, packet.block)] \in NodeState
    BY <2>2 DEF NodeState
  <2>4. net' \subseteq net
    BY <1>2 DEF ReceiveNbn
  <2>5. QED
    BY <1>2, <2>1, <2>3, <2>4 DEF ReceiveNbn, TypeOK, history
<1>3. CASE Boot(n)
  BY <1>3, BlockType DEF Boot, Packets, TypeOK, NodeState, Awaiting, history
<1>4. CASE Join(n)
  <2>1. CASE Cardinality(Masters) > 1
    <3>1. Entering(n, Head(node[n].q), "build", Tail(node[n].q)) \in NodeState
      <4>1. Head(node[n].q) \in Block /\ Tail(node[n].q) \in Seq(Block)
        BY <1>4, <2>1 DEF Join, NodeState
      <4>2. "build" \in PCs
        BY DEF Awaiting
      <4>3. QED
        BY <4>1, <4>2, EnteringType
    <3>2. QED
      BY <1>4, <2>1, <3>1 DEF Join, TypeOK, history
  <2>2. CASE ~ (Cardinality(Masters) > 1)
    <3>1. [node[n] EXCEPT !.pc = "build"] \in NodeState
      BY DEF NodeState, Awaiting
    <3>2. node' = [node EXCEPT ![n].pc = "build"]
      BY <1>4, <2>2 DEF Join
    <3>3. QED
      BY <1>4, <3>1, <3>2 DEF Join, TypeOK, history
  <2>3. QED
    BY <2>1, <2>2
<1>5. CASE Build(n)
  <2>1. PICK body \in Bodies :
          LET b == BlockFrom(body, node[n].hash, node[n].height + 1)
          IN  /\ node' = [node EXCEPT ![n] = Entering(n, b, "announce", node[n].q)]
              /\ built' = built \cup {b.hash}
    BY <1>5 DEF Build
  <2> DEFINE b == BlockFrom(body, node[n].hash, node[n].height + 1)
  <2>2. b \in Block
    BY BlockType DEF NodeState
  <2>3. Entering(n, b, "announce", node[n].q) \in NodeState
    <3>1. "announce" \in PCs /\ node[n].q \in Seq(Block)
      BY DEF Awaiting, NodeState
    <3>2. QED
      BY <2>2, <3>1, EnteringType
  <2>4. b.hash \in Chain
    BY <2>2 DEF Block
  <2>5. QED
    BY <1>5, <2>1, <2>3, <2>4 DEF Build, TypeOK, history
<1>6. CASE Announce(n)
  BY <1>6 DEF Announce, Packets, TypeOK, NodeState, Awaiting, Nodes, history
<1>7. CASE Hang(n)
  BY <1>7, BlockType DEF Hang, Packets, TypeOK, NodeState, Awaiting, Nodes, history
<1>8. CASE AcquireWork(n)
  BY <1>8 DEF AcquireWork, TypeOK, NodeState, history
<1>9. CASE Sent(n)
  <2>1. PICK q \in Cleaned(node[n].q, node[n].height) :
          node' = [node EXCEPT ![n].q = q, ![n].pc = "confirm"]
    BY <1>9 DEF Sent
  <2>2. q \in Seq(Block)
    BY CleanedType DEF NodeState
  <2>3. QED
    BY <1>9, <2>1, <2>2 DEF Sent, TypeOK, NodeState, Awaiting, history
<1>10. CASE Confirm(n)
  <2>1. Entering(n, Head(node[n].q), "work", << >>) \in NodeState
    <3>1. Head(node[n].q) \in Block /\ << >> \in Seq(Block)
      BY <1>10 DEF Confirm, NodeState
    <3>2. "work" \in PCs
      BY DEF Awaiting
    <3>3. QED
      BY <3>1, <3>2, EnteringType
  <2>2. QED
    BY <1>10, <2>1 DEF Confirm, TypeOK, history
<1>11. CASE Crash(n)
  <2>1. node[n].block.hash \in Chain
    BY DEF NodeState, Block
  <2>2. tears' \in [Nodes -> Nat]
    BY <1>11 DEF Crash, TypeOK
  <2>3. interrupted' \in [Nodes -> SUBSET Chain]
    BY <1>11, <2>1 DEF Crash, TypeOK, Underway
  <2>4. QED
    BY <1>11, <2>2, <2>3, DownType DEF Crash, TypeOK
<1>12. QED
  BY <1>2, <1>3, <1>4, <1>5, <1>6, <1>7, <1>8, <1>9, <1>10, <1>11

LEMMA TypeStep == TypeOK /\ [Next]_vars => TypeOK'
<1> SUFFICES ASSUME TypeOK, [Next]_vars PROVE TypeOK'
  OBVIOUS
<1>1. CASE UNCHANGED vars
  BY <1>1 DEF vars, TypeOK
<1>2. CASE Next
  BY <1>2, ProcessType, CatchupType, LoopType, NodeChainAssumption
  DEF Next, ProcessStep, CatchupStep
<1>3. QED
  BY <1>1, <1>2

\* Type correctness, for all sets of nodes and bodies and all bounds.
THEOREM TypeCorrect == Spec => []TypeOK
<1>1. Init => TypeOK
  <2> SUFFICES ASSUME Init PROVE TypeOK
    OBVIOUS
  <2>1. FreshDb \in DbState
    BY DEF FreshDb, DbState, Chain
  <2>2. QED
    BY <2>1, DownType DEF Init, TypeOK
<1>2. QED
  BY <1>1, TypeStep, PTL DEF Spec

----------------------------------------------------------------------------
(* Chains and the hashes of their blocks. *)

\* The blocks of a chain extended by one are the old ones and the new one.
LEMMA HashesAppend ==
    ASSUME NEW chain \in Chain, NEW body \in Bodies
    PROVE  Hashes(Append(chain, body)) = Hashes(chain) \cup {Append(chain, body)}
<1> DEFINE longer == Append(chain, body)
<1>1. longer \in Chain /\ Len(longer) = Len(chain) + 1 /\ Len(chain) \in Nat
  BY DEF Chain
<1>2. \A k \in 1 .. Len(chain) : SubSeq(longer, 1, k) = SubSeq(chain, 1, k)
  <2> SUFFICES ASSUME NEW k \in 1 .. Len(chain)
               PROVE  SubSeq(longer, 1, k) = SubSeq(chain, 1, k)
    OBVIOUS
  <2>1. chain \in Seq(Bodies) /\ <<body>> \in Seq(Bodies) /\ longer = chain \o <<body>>
    BY AppendIsConcat DEF Chain
  <2>2. 1 \in 1 .. Len(chain)
    BY <1>1
  <2>3. \A S : \A s, t \in Seq(S) : \A m, j \in 1 .. Len(s) :
          SubSeq(s \o t, m, j) = SubSeq(s, m, j)
    BY SubSeqOfConcat1
  <2> HIDE DEF longer
  <2>4. SubSeq(chain \o <<body>>, 1, k) = SubSeq(chain, 1, k)
    BY <2>1, <2>2, <2>3
  <2>5. QED
    BY <2>1, <2>4
<1>3. SubSeq(longer, 1, Len(chain) + 1) = longer
  <2>1. \A S : \A s \in Seq(S) : SubSeq(s, 1, Len(s)) = s
    BY SubSeqFull
  <2> HIDE DEF longer
  <2>2. QED
    BY <1>1, <2>1 DEF Chain
<1>4. 1 .. Len(longer) = (1 .. Len(chain)) \cup {Len(chain) + 1}
  BY <1>1
<1> HIDE DEF longer
<1>5. Hashes(longer) = Hashes(chain) \cup {longer}
  BY <1>2, <1>3, <1>4 DEF Hashes
<1>6. QED
  BY <1>5 DEF longer

\* No block of a chain has a hash longer than the chain itself.
LEMMA HashesLength ==
    ASSUME NEW chain \in Chain, NEW hash \in Hashes(chain)
    PROVE  hash \in Chain /\ Len(hash) \in 1 .. Len(chain)
<1>1. PICK k \in 1 .. Len(chain) : hash = SubSeq(chain, 1, k)
  BY DEF Hashes
<1>2. QED
  BY <1>1 DEF Chain

\* A new block's hash is not among those of the chain it extends.
LEMMA NewHash ==
    ASSUME NEW chain \in Chain, NEW body \in Bodies
    PROVE  Append(chain, body) \notin Hashes(chain) /\ Append(chain, body) # << >>
<1>1. Len(Append(chain, body)) = Len(chain) + 1 /\ Len(chain) \in Nat
  BY DEF Chain
<1>2. \A hash \in Hashes(chain) : Len(hash) <= Len(chain)
  BY HashesLength
<1>3. Append(chain, body) # << >>
  <2>1. Len(<< >>) = 0
    OBVIOUS
  <2>2. QED
    BY <1>1, <2>1
<1> DEFINE longer == Append(chain, body)
<1>4. longer \notin Hashes(chain)
  <2>1. Len(longer) = Len(chain) + 1
    BY <1>1
  <2> HIDE DEF longer
  <2>2. SUFFICES ASSUME longer \in Hashes(chain) PROVE FALSE
    OBVIOUS
  <2>3. Len(longer) <= Len(chain)
    BY <1>2, <2>2
  <2>4. QED
    BY <1>1, <2>1, <2>3
<1>5. QED
  BY <1>3, <1>4

\* A chain with a block on it is the hash of its last block.
LEMMA WholeChain ==
    ASSUME NEW chain \in Chain, chain # << >>
    PROVE  chain \in Hashes(chain)
<1>1. Len(chain) \in 1 .. Len(chain)
  BY DEF Chain
<1>2. \A S : \A s \in Seq(S) : SubSeq(s, 1, Len(s)) = s
  BY SubSeqFull
<1>3. QED
  BY <1>1, <1>2 DEF Hashes, Chain

\* A block that should_process accepts extends the node's chain by its body.
LEMMA AcceptedBlock ==
    ASSUME NEW n \in Nodes, node[n] \in NodeState, NEW b \in Block, ShouldProcess(n, b)
    PROVE  /\ b.body \in Bodies
           /\ b.hash = Append(node[n].hash, b.body)
           /\ b.number = node[n].height + 1
           /\ b # GenesisBlock
<1>1. b.hash = Append(node[n].hash, b.body) /\ b.number = node[n].height + 1
  BY DEF ShouldProcess, BlockFrom
<1>2. b.hash \in Chain /\ node[n].hash \in Chain /\ node[n].height \in Nat
  BY DEF Block, NodeState
<1>3. Append(node[n].hash, b.body) \in Seq(Bodies) /\ node[n].hash \in Seq(Bodies)
  BY <1>1, <1>2 DEF Chain
<1>4. b.body \in Bodies
  <2>1. Append(node[n].hash, b.body)[Len(node[n].hash) + 1] = b.body
    BY <1>3
  <2>2. Len(Append(node[n].hash, b.body)) = Len(node[n].hash) + 1
    BY <1>3
  <2>3. QED
    BY <1>3, <2>1, <2>2, ElementOfSeq
<1>5. b.number # 0
  BY <1>1, <1>2
<1>6. QED
  BY <1>1, <1>4, <1>5 DEF GenesisBlock
----------------------------------------------------------------------------
(* What one node's steps do to its own part of the invariant. *)

\* The pcs outside process_new_block, of a node that is up.
Quiet == PCs \ (Processing \cup {"down"})

\* A node that is not touched keeps its part of the invariant.
LEMMA Untouched ==
    ASSUME NEW m, NodeInv(m), db'[m] = db[m], node'[m] = node[m],
           tears'[m] = tears[m], interrupted'[m] = interrupted[m]
    PROVE  NodeInv(m)'
BY DEF NodeInv, RoleKept, CacheCurrent, ShouldProcess, HeightLagsAt, PaidOnceAt,
       RewardsPending, Complete, Underway, IsPaid, IsStored, Issued

\* What a step leaves alone of node n when it does not process a block.
CoreUnchanged(n) ==
    /\ node'[n].ret = node[n].ret /\ node'[n].unpaid = node[n].unpaid
    /\ node'[n].hash = node[n].hash /\ node'[n].height = node[n].height
    /\ db'[n] = db[n] /\ tears'[n] = tears[n] /\ interrupted'[n] = interrupted[n]

\* A step outside process_new_block that leaves chain, cache and history alone.
LEMMA QuietStep ==
    ASSUME NEW n \in Nodes, NodeInv(n), node[n].pc \in Quiet, node'[n].pc \in Quiet,
           node'[n].pc \in MasterPCs => n \in Masters, CoreUnchanged(n)
    PROVE  NodeInv(n)'
<1> USE DEF Quiet, Processing, CoreUnchanged
<1>1. RoleKept(n)' /\ HeightLagsAt(n)' /\ PaidOnceAt(n)'
  BY DEF NodeInv, RoleKept, HeightLagsAt, PaidOnceAt
<1>2. CacheCurrent(n)'
  BY DEF NodeInv, CacheCurrent
<1>3. ~ Underway(n) /\ ~ Underway(n)'
  BY DEF Underway
<1>4. RewardsPending(n)'
  BY <1>3 DEF NodeInv, RewardsPending
<1>5. Complete(n)'
  BY <1>3 DEF NodeInv, Complete, IsPaid, IsStored
<1>6. QED
  BY <1>1, <1>2, <1>4, <1>5 DEF NodeInv

\* process_new_block is entered with the cache current, whatever the block.
LEMMA EnteringStep ==
    ASSUME NEW n \in Nodes, NodeInv(n), node[n] \in NodeState, node[n].pc \in Quiet,
           NEW b, NEW ret \in Quiet, NEW q, NEW next,
           ret \in MasterPCs => n \in Masters,
           \/ node'[n] = Entering(n, b, ret, q)
           \/ node'[n] = [Entering(n, b, ret, q) EXCEPT !.next = next],
           db'[n] = db[n], tears'[n] = tears[n], interrupted'[n] = interrupted[n]
    PROVE  NodeInv(n)'
<1>1. /\ node'[n].pc = IF ShouldProcess(n, b) THEN "setHash" ELSE "refresh"
      /\ node'[n].ret = ret /\ node'[n].block = b /\ node'[n].accepted = ShouldProcess(n, b)
      /\ node'[n].unpaid = << >>
      /\ node'[n].hash = node[n].hash /\ node'[n].height = node[n].height
  BY DEF Entering, NodeState
<1>2. node[n].hash = db[n].hash /\ node[n].height = db[n].height
  BY DEF NodeInv, CacheCurrent, Quiet, Processing
<1>3. RoleKept(n)' /\ HeightLagsAt(n)' /\ PaidOnceAt(n)'
  BY <1>1 DEF NodeInv, RoleKept, HeightLagsAt, PaidOnceAt, Quiet, Processing, MasterPCs
<1>4. CacheCurrent(n)'
  <2>1. ShouldProcess(n, b)' = ShouldProcess(n, b)
    BY <1>1 DEF ShouldProcess
  <2>2. QED
    BY <1>1, <1>2, <2>1 DEF CacheCurrent
<1>5. ~ Underway(n) /\ ~ Underway(n)'
  BY <1>1 DEF Underway, Quiet, Processing
<1>6. RewardsPending(n)'
  BY <1>1, <1>5 DEF RewardsPending
<1>7. Complete(n)'
  BY <1>5 DEF NodeInv, Complete, IsPaid, IsStored
<1>8. QED
  BY <1>3, <1>4, <1>6, <1>7 DEF NodeInv

\* A node that starts rereads its cache from the database.
LEMMA RestartStep ==
    ASSUME TypeOK, NEW n \in Nodes, NodeInv(n), Restart(n)
    PROVE  NodeInv(n)'
<1>1. /\ node'[n].pc = "askHeight" /\ node'[n].ret = "down" /\ node'[n].unpaid = << >>
      /\ node'[n].hash = db[n].hash /\ node'[n].height = db[n].height
      /\ node[n].pc = "down"
      /\ db' = db /\ tears' = tears /\ interrupted' = interrupted
  BY DEF Restart, Down, TypeOK, history
<1>2. RoleKept(n)' /\ HeightLagsAt(n)' /\ PaidOnceAt(n)'
  BY <1>1 DEF NodeInv, RoleKept, HeightLagsAt, PaidOnceAt, Processing, MasterPCs
<1>3. CacheCurrent(n)'
  BY <1>1 DEF CacheCurrent
<1>4. ~ Underway(n) /\ ~ Underway(n)'
  BY <1>1 DEF Underway
<1>5. RewardsPending(n)'
  BY <1>1, <1>4 DEF RewardsPending
<1>6. Complete(n)'
  BY <1>1, <1>4 DEF NodeInv, Complete, IsPaid, IsStored
<1>7. QED
  BY <1>2, <1>3, <1>5, <1>6 DEF NodeInv

\* Whatever a node was doing, what it leaves behind is accounted for: a torn
\* height by tears, an incomplete block by interrupted.
LEMMA DownStep ==
    ASSUME TypeOK, NEW n \in Nodes, NodeInv(n), FetchFails(n) \/ Crash(n)
    PROVE  NodeInv(n)'
<1>1. /\ node'[n].pc = "down" /\ node'[n].ret = "down" /\ node'[n].unpaid = << >>
      /\ ~ node'[n].accepted /\ db' = db
  BY DEF FetchFails, Crash, Down, TypeOK, history
<1>2. tears'[n] = IF node[n].pc = "setHeight" THEN tears[n] + 1 ELSE tears[n]
  BY DEF FetchFails, Crash, TypeOK, history
<1>3. interrupted'[n] = IF Underway(n) THEN interrupted[n] \cup {db[n].hash} ELSE interrupted[n]
  <2>1. Underway(n) => node[n].block.hash = db[n].hash
    BY DEF NodeInv, CacheCurrent, Underway
  <2>2. CASE FetchFails(n)
    BY <2>2 DEF FetchFails, Underway, history
  <2>3. CASE Crash(n)
    BY <2>1, <2>3 DEF Crash, TypeOK
  <2>4. QED
    BY <2>2, <2>3
<1>4. RoleKept(n)' /\ PaidOnceAt(n)'
  BY <1>1 DEF NodeInv, RoleKept, PaidOnceAt, Processing, MasterPCs
<1>5. HeightLagsAt(n)'
  BY <1>1, <1>2 DEF NodeInv, HeightLagsAt, TypeOK, DbState
<1>6. CacheCurrent(n)'
  BY <1>1 DEF CacheCurrent
<1>7. ~ Underway(n)'
  BY <1>1 DEF Underway
<1>8. RewardsPending(n)'
  BY <1>1, <1>7 DEF RewardsPending
<1>9. Complete(n)'
  BY <1>1, <1>3 DEF NodeInv, Complete, IsPaid, IsStored
<1>10. QED
  BY <1>4, <1>5, <1>6, <1>8, <1>9 DEF NodeInv

\* The first write: the chain grows by the accepted block, not yet paid for.
LEMMA SetHashStep ==
    ASSUME TypeOK, NEW n \in Nodes, NodeInv(n), SetHash(n)
    PROVE  NodeInv(n)'
<1>1. node[n] \in NodeState /\ db[n] \in DbState /\ node[n].block \in Block
  BY DEF TypeOK, NodeState
<1>2. /\ node[n].pc = "setHash" /\ node'[n] = [node[n] EXCEPT !.pc = "setHeight"]
      /\ db'[n] = [db[n] EXCEPT !.hash = node[n].block.hash]
      /\ tears' = tears /\ interrupted' = interrupted
  BY DEF SetHash, TypeOK, history
<1>3. /\ node'[n].pc = "setHeight" /\ node'[n].ret = node[n].ret
      /\ node'[n].block = node[n].block /\ node'[n].accepted = node[n].accepted
      /\ node'[n].height = node[n].height /\ node'[n].unpaid = node[n].unpaid
      /\ db'[n].hash = node[n].block.hash /\ db'[n].height = db[n].height
      /\ db'[n].paid = db[n].paid /\ db'[n].store = db[n].store
  BY <1>1, <1>2 DEF NodeState, DbState
<1>4. /\ node[n].accepted /\ ShouldProcess(n, node[n].block)
      /\ node[n].hash = db[n].hash /\ node[n].height = db[n].height
  BY <1>2 DEF NodeInv, CacheCurrent
<1>5. PICK body \in Bodies : db'[n].hash = Append(db[n].hash, body)
  BY <1>1, <1>3, <1>4, AcceptedBlock
<1>6. node[n].block.number = node[n].height + 1
  BY <1>1, <1>4, AcceptedBlock
<1>7. db[n].hash \in Chain
  BY <1>1 DEF DbState
<1>8. /\ Hashes(db'[n].hash) = Hashes(db[n].hash) \cup {db'[n].hash}
      /\ db'[n].hash \notin Hashes(db[n].hash) /\ db'[n].hash # << >>
  BY <1>5, <1>7, HashesAppend, NewHash
<1>9. Len(db'[n].hash) = Len(db[n].hash) + 1 /\ Len(db[n].hash) \in Nat
  BY <1>5, <1>7 DEF Chain
<1>10. RoleKept(n)'
  BY <1>2, <1>3 DEF NodeInv, RoleKept, Processing, MasterPCs
<1>11. HeightLagsAt(n)'
  BY <1>1, <1>2, <1>3, <1>9 DEF NodeInv, HeightLagsAt, TypeOK, DbState
<1>12. PaidOnceAt(n)'
  BY <1>3, <1>8 DEF NodeInv, PaidOnceAt
<1>13. CacheCurrent(n)'
  BY <1>3, <1>4, <1>6 DEF CacheCurrent
<1>14. ~ IsPaid(n, db[n].hash)' /\ db'[n].hash # << >>
  BY <1>3, <1>8 DEF IsPaid, NodeInv, PaidOnceAt
<1>15. RewardsPending(n)'
  BY <1>2, <1>3, <1>14 DEF NodeInv, RewardsPending
<1>16. Complete(n)'
  <2>1. ~ Underway(n) /\ Underway(n)'
    BY <1>2, <1>3, <1>4 DEF Underway
  <2>2. \A hash : IsPaid(n, hash)' = IsPaid(n, hash) /\ IsStored(n, hash)' = IsStored(n, hash)
    BY <1>3 DEF IsPaid, IsStored
  <2>3. QED
    BY <1>2, <1>3, <1>8, <2>1, <2>2 DEF NodeInv, Complete
<1>17. QED
  BY <1>10, <1>11, <1>12, <1>13, <1>15, <1>16 DEF NodeInv

\* The second write brings the height to the length of the chain again.
LEMMA SetHeightStep ==
    ASSUME TypeOK, NEW n \in Nodes, NodeInv(n), SetHeight(n)
    PROVE  NodeInv(n)'
<1>1. node[n] \in NodeState /\ db[n] \in DbState
  BY DEF TypeOK
<1>2. /\ node[n].pc = "setHeight" /\ node'[n] = [node[n] EXCEPT !.pc = "refresh"]
      /\ db'[n] = [db[n] EXCEPT !.height = node[n].block.number]
      /\ tears' = tears /\ interrupted' = interrupted
  BY DEF SetHeight, NumberOf, TypeOK, history
<1>3. /\ node'[n].pc = "refresh" /\ node'[n].ret = node[n].ret
      /\ node'[n].block = node[n].block /\ node'[n].accepted = node[n].accepted
      /\ node'[n].unpaid = node[n].unpaid
      /\ db'[n].hash = db[n].hash /\ db'[n].height = node[n].block.number
      /\ db'[n].paid = db[n].paid /\ db'[n].store = db[n].store
  BY <1>1, <1>2 DEF NodeState, DbState
<1>4. /\ node[n].accepted /\ node[n].block.number = db[n].height + 1
      /\ node[n].block.hash = db[n].hash
  BY <1>2 DEF NodeInv, CacheCurrent
<1>5. RoleKept(n)' /\ PaidOnceAt(n)'
  BY <1>2, <1>3 DEF NodeInv, RoleKept, PaidOnceAt, Processing, MasterPCs
<1>6. HeightLagsAt(n)'
  BY <1>1, <1>2, <1>3, <1>4 DEF NodeInv, HeightLagsAt, TypeOK, DbState
<1>7. CacheCurrent(n)'
  BY <1>3, <1>4 DEF CacheCurrent
<1>8. Underway(n) /\ Underway(n)'
  BY <1>2, <1>3, <1>4 DEF Underway
<1>9. \A hash : IsPaid(n, hash)' = IsPaid(n, hash) /\ IsStored(n, hash)' = IsStored(n, hash)
  BY <1>3 DEF IsPaid, IsStored
<1>10. RewardsPending(n)'
  BY <1>2, <1>3, <1>8, <1>9 DEF NodeInv, RewardsPending
<1>11. Complete(n)'
  BY <1>2, <1>3, <1>8, <1>9 DEF NodeInv, Complete
<1>12. QED
  BY <1>5, <1>6, <1>7, <1>10, <1>11 DEF NodeInv

\* Rewards are issued for an accepted block only; the cache is current again.
LEMMA RefreshStep ==
    ASSUME TypeOK, NEW n \in Nodes, NodeInv(n), Refresh(n)
    PROVE  NodeInv(n)'
<1>1. node[n] \in NodeState /\ db[n] \in DbState
  BY DEF TypeOK
<1>2. /\ node[n].pc = "refresh" /\ db' = db
      /\ tears' = tears /\ interrupted' = interrupted
  BY DEF Refresh, history
<1>3. /\ node'[n].pc = (IF n \in Masters THEN "store" ELSE "commit")
      /\ node'[n].ret = node[n].ret
      /\ node'[n].block = node[n].block /\ node'[n].accepted = node[n].accepted
      /\ node'[n].unpaid = Issued(n)
      /\ node'[n].hash = db[n].hash /\ node'[n].height = db[n].height
  BY <1>1 DEF Refresh, TypeOK, NodeState
<1>4. RoleKept(n)' /\ PaidOnceAt(n)' /\ HeightLagsAt(n)'
  BY <1>2, <1>3 DEF NodeInv, RoleKept, PaidOnceAt, HeightLagsAt, Processing, MasterPCs
<1>5. CacheCurrent(n)'
  BY <1>2, <1>3 DEF NodeInv, CacheCurrent
<1>6. Underway(n)' = Underway(n)
  BY <1>2, <1>3 DEF Underway
<1>7. RewardsPending(n)'
  BY <1>2, <1>3, <1>6 DEF NodeInv, RewardsPending, Issued, IsPaid
<1>8. Complete(n)'
  BY <1>2, <1>3, <1>6 DEF NodeInv, Complete, IsPaid, IsStored
<1>9. QED
  BY <1>4, <1>5, <1>7, <1>8 DEF NodeInv

\* Appending keeps the elements where they are and adds one behind them.
LEMMA AppendElements ==
    ASSUME NEW S, NEW s \in Seq(S), NEW x \in S
    PROVE  /\ \A k \in DOMAIN s : k \in DOMAIN Append(s, x) /\ Append(s, x)[k] = s[k]
           /\ \E k \in DOMAIN Append(s, x) : Append(s, x)[k] = x /\ k \notin DOMAIN s
           /\ \A k \in DOMAIN Append(s, x) : k \notin DOMAIN s => Append(s, x)[k] = x
           /\ \A j, k \in DOMAIN Append(s, x) : j \notin DOMAIN s /\ k \notin DOMAIN s => j = k
<1>1. /\ DOMAIN s = 1 .. Len(s) /\ Len(s) \in Nat
      /\ DOMAIN Append(s, x) = 1 .. Len(s) + 1
      /\ \A k \in 1 .. Len(s) : Append(s, x)[k] = s[k]
      /\ Append(s, x)[Len(s) + 1] = x
  OBVIOUS
<1> DEFINE longer == Append(s, x)
<1> HIDE DEF longer
<1>2. /\ DOMAIN longer = 1 .. Len(s) + 1
      /\ \A k \in 1 .. Len(s) : longer[k] = s[k]
      /\ longer[Len(s) + 1] = x
  BY <1>1 DEF longer
<1>3. /\ \A k \in DOMAIN s : k \in DOMAIN longer /\ longer[k] = s[k]
      /\ Len(s) + 1 \in DOMAIN longer /\ Len(s) + 1 \notin DOMAIN s
      /\ \A k \in DOMAIN longer : k \notin DOMAIN s => k = Len(s) + 1
  BY <1>1, <1>2
<1>4. QED
  BY <1>2, <1>3 DEF longer

\* A masternode stores the block underway, or one it has not accepted.
LEMMA StoreStep ==
    ASSUME TypeOK, NEW n \in Nodes, NodeInv(n), Store(n)
    PROVE  NodeInv(n)'
<1>1. node[n] \in NodeState /\ db[n] \in DbState
  BY DEF TypeOK
<1>2. /\ node[n].pc = "store" /\ node'[n] = [node[n] EXCEPT !.pc = "commit"]
      /\ db'[n] = [db[n] EXCEPT !.store = Append(@, node[n].block)]
      /\ tears' = tears /\ interrupted' = interrupted
  BY DEF Store, TypeOK, history
<1>3. /\ node'[n].pc = "commit" /\ node'[n].ret = node[n].ret
      /\ node'[n].block = node[n].block /\ node'[n].accepted = node[n].accepted
      /\ node'[n].unpaid = node[n].unpaid
      /\ node'[n].hash = node[n].hash /\ node'[n].height = node[n].height
      /\ db'[n].hash = db[n].hash /\ db'[n].height = db[n].height
      /\ db'[n].paid = db[n].paid /\ db'[n].store = Append(db[n].store, node[n].block)
  BY <1>1, <1>2 DEF NodeState, DbState
<1>4. RoleKept(n)' /\ PaidOnceAt(n)' /\ HeightLagsAt(n)'
  BY <1>2, <1>3 DEF NodeInv, RoleKept, PaidOnceAt, HeightLagsAt, Processing, MasterPCs
<1>5. CacheCurrent(n)'
  BY <1>2, <1>3 DEF NodeInv, CacheCurrent
<1>6. Underway(n)' = Underway(n)
  BY <1>2, <1>3 DEF Underway
<1>7. \A hash : IsPaid(n, hash)' = IsPaid(n, hash)
  BY <1>3 DEF IsPaid
<1>8. RewardsPending(n)'
  BY <1>2, <1>3, <1>6, <1>7 DEF NodeInv, RewardsPending, Issued
<1>9. /\ \A hash : IsStored(n, hash) => IsStored(n, hash)'
      /\ IsStored(n, node[n].block.hash)'
  <2>1. db[n].store \in Seq(Block) /\ node[n].block \in Block
    BY <1>1 DEF DbState, NodeState
  <2>2. \E k \in DOMAIN db'[n].store : db'[n].store[k] = node[n].block
    BY <1>3, <2>1, AppendElements
  <2>3. \A k \in DOMAIN db[n].store : k \in DOMAIN db'[n].store /\ db'[n].store[k] = db[n].store[k]
    BY <1>3, <2>1, AppendElements
  <2>4. QED
    BY <1>3, <2>2, <2>3 DEF IsStored
<1>10. Underway(n) => node[n].block.hash = db[n].hash
  BY <1>2 DEF NodeInv, CacheCurrent, Underway
<1>11. Complete(n)'
  BY <1>2, <1>3, <1>6, <1>7, <1>9, <1>10 DEF NodeInv, Complete
<1>12. QED
  BY <1>4, <1>5, <1>8, <1>11 DEF NodeInv

\* The rewards reach the database, for the first time; the block is complete.
LEMMA CommitStep ==
    ASSUME TypeOK, NEW n \in Nodes, NodeInv(n), Commit(n)
    PROVE  NodeInv(n)'
<1>1. node[n] \in NodeState /\ db[n] \in DbState
  BY DEF TypeOK
<1>2. /\ node[n].pc = "commit" /\ node'[n] = Returned(n)
      /\ db'[n] = [db[n] EXCEPT !.paid = db[n].paid \o node[n].unpaid]
      /\ tears' = tears /\ interrupted' = interrupted
  BY DEF Commit, Paid, TypeOK, history
<1>3. /\ node'[n].pc = node[n].ret /\ node'[n].ret = "down"
      /\ ~ node'[n].accepted /\ node'[n].unpaid = << >>
      /\ node'[n].hash = node[n].hash /\ node'[n].height = node[n].height
      /\ db'[n].hash = db[n].hash /\ db'[n].height = db[n].height
      /\ db'[n].paid = db[n].paid \o node[n].unpaid /\ db'[n].store = db[n].store
  BY <1>1, <1>2 DEF Returned, NodeState, DbState
<1>4. node[n].ret \notin Processing
  BY DEF NodeInv, RoleKept
<1>5. RoleKept(n)'
  BY <1>3, <1>4 DEF NodeInv, RoleKept, Processing, MasterPCs
<1>6. HeightLagsAt(n)'
  BY <1>2, <1>3, <1>4 DEF NodeInv, HeightLagsAt, Processing
<1>7. CacheCurrent(n)'
  BY <1>2, <1>3, <1>4 DEF NodeInv, CacheCurrent, Processing
<1>8. ~ Underway(n)'
  BY <1>3 DEF Underway
<1>9. RewardsPending(n)'
  BY <1>3, <1>4, <1>8 DEF RewardsPending, Processing
<1>10. node[n].unpaid = Issued(n)
  BY <1>2 DEF NodeInv, RewardsPending
<1>11. CASE node[n].accepted
  <2>1. node[n].block.hash = db[n].hash /\ Underway(n)
    BY <1>2, <1>11 DEF NodeInv, CacheCurrent, Underway
  <2>2. db[n].hash # << >> /\ ~ IsPaid(n, db[n].hash)
    BY <2>1 DEF NodeInv, RewardsPending
  <2>3. db[n].paid \in Seq(Chain) /\ db[n].hash \in Chain
    BY <1>1 DEF DbState
  <2>4. db'[n].paid = Append(db[n].paid, db[n].hash)
    BY <1>3, <1>10, <1>11, <2>1, <2>3, AppendIsConcat DEF Issued
  <2>5. db[n].hash \in Hashes(db[n].hash)
    BY <2>2, <2>3, WholeChain
  <2>6. /\ \A k \in DOMAIN db[n].paid : k \in DOMAIN db'[n].paid /\ db'[n].paid[k] = db[n].paid[k]
        /\ \E k \in DOMAIN db'[n].paid : db'[n].paid[k] = db[n].hash
        /\ \A k \in DOMAIN db'[n].paid : k \notin DOMAIN db[n].paid => db'[n].paid[k] = db[n].hash
        /\ \A j, k \in DOMAIN db'[n].paid :
              j \notin DOMAIN db[n].paid /\ k \notin DOMAIN db[n].paid => j = k
    BY <2>3, <2>4, AppendElements
  <2>7. \A k \in DOMAIN db[n].paid : db[n].paid[k] # db[n].hash
    BY <2>2 DEF IsPaid
  <2>8. PaidOnceAt(n)'
    BY <1>3, <2>5, <2>6, <2>7, ZenonT(60) DEF NodeInv, PaidOnceAt
  <2>9. IsPaid(n, db[n].hash)' /\ \A hash : IsPaid(n, hash) => IsPaid(n, hash)'
    BY <1>3, <2>6 DEF IsPaid
  <2>10. Complete(n)'
    BY <1>2, <1>3, <2>9 DEF NodeInv, Complete, IsStored
  <2>11. QED
    BY <1>5, <1>6, <1>7, <1>9, <2>8, <2>10 DEF NodeInv
<1>12. CASE ~ node[n].accepted
  <2>1. db[n].paid \in Seq(Chain) /\ node[n].unpaid = << >>
    BY <1>1, <1>10, <1>12 DEF DbState, Issued
  <2>2. db'[n].paid = db[n].paid
    BY <1>3, <2>1, ConcatEmptySeq
  <2>3. PaidOnceAt(n)'
    BY <1>3, <2>2 DEF NodeInv, PaidOnceAt
  <2>4. ~ Underway(n)
    BY <1>12 DEF Underway
  <2>5. Complete(n)'
    BY <1>2, <1>3, <1>8, <2>2, <2>4 DEF NodeInv, Complete, IsPaid, IsStored
  <2>6. QED
    BY <1>5, <1>6, <1>7, <1>9, <2>3, <2>5 DEF NodeInv
<1>13. QED
  BY <1>11, <1>12

\* Every step of a node keeps that node's part of the invariant.
LEMMA OwnStep ==
    ASSUME TypeOK, NEW n \in Nodes, NodeInv(n),
           \/ ProcessStep(n) \/ Restart(n) \/ CatchupStep(n) \/ ReceiveNbn(n)
           \/ Boot(n) \/ Join(n) \/ Build(n) \/ Announce(n) \/ Hang(n)
           \/ AcquireWork(n) \/ DrainWork(n) \/ Sent(n) \/ Confirm(n) \/ Crash(n)
    PROVE  NodeInv(n)'
<1>1. node[n] \in NodeState /\ RoleKept(n)
  BY DEF TypeOK, NodeInv
<1>2. AfterCatchup(n) \in Quiet /\ (AfterCatchup(n) \in MasterPCs => n \in Masters)
  BY DEF AfterCatchup, Quiet, PCs, Awaiting, Processing, MasterPCs, Nodes
<1>3. ASSUME NEW pc \in Quiet, NEW then \in Quiet, DrainTo(n, pc, then),
             pc \notin MasterPCs, then \in MasterPCs => n \in Masters
      PROVE  NodeInv(n)'
  <2>1. CASE node[n].q = << >>
    <3>1. /\ node[n].pc \in Quiet /\ node'[n] = [node[n] EXCEPT !.pc = then]
          /\ db' = db /\ tears' = tears /\ interrupted' = interrupted
      BY <1>3, <2>1 DEF DrainTo, TypeOK, history
    <3>2. node'[n].pc = then /\ CoreUnchanged(n)
      BY <1>1, <3>1 DEF NodeState, CoreUnchanged
    <3>3. QED
      BY <1>3, <3>1, <3>2, QuietStep
  <2>2. CASE node[n].q # << >>
    <3>1. /\ node[n].pc \in Quiet
          /\ node'[n] = Entering(n, Head(node[n].q), pc, Tail(node[n].q))
          /\ db' = db /\ tears' = tears /\ interrupted' = interrupted
      BY <1>3, <2>2 DEF DrainTo, TypeOK, history
    <3>2. QED
      BY <1>1, <1>3, <3>1, EnteringStep
  <2>3. QED
    BY <2>1, <2>2
<1>4. CASE ProcessStep(n)
  BY <1>4, SetHashStep, SetHeightStep, RefreshStep, StoreStep, CommitStep DEF ProcessStep
<1>5. CASE Restart(n) \/ FetchFails(n) \/ Crash(n)
  BY <1>5, RestartStep, DownStep
<1>6. CASE AskHeight(n)
  <2>1. /\ node[n].pc \in Quiet /\ node'[n].pc \in {"fetch", AfterCatchup(n)}
        /\ CoreUnchanged(n)
    BY <1>1, <1>6 DEF AskHeight, TypeOK, NodeState, history, CoreUnchanged,
                      Quiet, PCs, Awaiting, Processing
  <2>2. "fetch" \in Quiet /\ "fetch" \notin MasterPCs
    BY DEF Quiet, PCs, Awaiting, Processing, MasterPCs
  <2>3. QED
    BY <1>2, <2>1, <2>2, QuietStep
<1>7. CASE Fetch(n)
  <2>1. PICK b \in Served(node[n].next) :
          node' = [node EXCEPT ![n] = [Entering(n, b, "fetch", node[n].q)
                                         EXCEPT !.next = NextOf(@)]]
    BY <1>7 DEF Fetch
  <2>2. PICK next : node'[n] = [Entering(n, b, "fetch", node[n].q) EXCEPT !.next = next]
    BY <2>1 DEF TypeOK
  <2>3. /\ node[n].pc \in Quiet /\ "fetch" \in Quiet /\ "fetch" \notin MasterPCs
        /\ db' = db /\ tears' = tears /\ interrupted' = interrupted
    BY <1>7 DEF Fetch, history, Quiet, PCs, Awaiting, Processing, MasterPCs
  <2>4. QED
    BY <1>1, <2>2, <2>3, EnteringStep
<1>8. ASSUME NEW pc \in {"drain", "hang", "build", "drainWork", "confirm"},
             node[n].pc \in Quiet, node'[n].pc = pc, CoreUnchanged(n),
             pc \in MasterPCs => node[n].pc \in MasterPCs
      PROVE  NodeInv(n)'
  <2>1. pc \in Quiet /\ (pc \in MasterPCs => n \in Masters)
    BY <1>1, <1>8 DEF Quiet, PCs, Awaiting, Processing, RoleKept
  <2>2. QED
    BY <1>8, <2>1, QuietStep
<1>9. CASE FetchDone(n)
  <2>1. node[n].pc = "fetch" /\ node'[n].pc = "drain" /\ CoreUnchanged(n)
    BY <1>1, <1>9 DEF FetchDone, TypeOK, NodeState, history, CoreUnchanged
  <2>2. QED
    BY <1>8, <2>1 DEF Quiet, PCs, Awaiting, Processing, MasterPCs
<1>10. CASE Announce(n)
  <2>1. node[n].pc = "announce" /\ node'[n].pc = "hang" /\ CoreUnchanged(n)
    BY <1>1, <1>10 DEF Announce, TypeOK, NodeState, history, CoreUnchanged
  <2>2. QED
    BY <1>8, <2>1 DEF Quiet, PCs, Awaiting, Processing, MasterPCs
<1>11. CASE Hang(n)
  <2>1. node[n].pc = "hang" /\ node'[n].pc = "build" /\ CoreUnchanged(n)
    BY <1>1, <1>11 DEF Hang, TypeOK, NodeState, history, CoreUnchanged
  <2>2. QED
    BY <1>8, <2>1 DEF Quiet, PCs, Awaiting, Processing, MasterPCs
<1>12. CASE AcquireWork(n)
  <2>1. node[n].pc = "work" /\ node'[n].pc = "drainWork" /\ CoreUnchanged(n)
    BY <1>1, <1>12 DEF AcquireWork, TypeOK, NodeState, history, CoreUnchanged
  <2>2. QED
    BY <1>8, <2>1 DEF Quiet, PCs, Awaiting, Processing, MasterPCs
<1>13. CASE Boot(n)
  <2>1. node[n].pc = "boot" /\ node'[n].pc = "build" /\ CoreUnchanged(n)
    BY <1>1, <1>13 DEF Boot, TypeOK, NodeState, history, CoreUnchanged
  <2>2. QED
    BY <1>8, <2>1 DEF Quiet, PCs, Awaiting, Processing, MasterPCs
<1>14. CASE Sent(n)
  <2>1. PICK q : node'[n] = [node[n] EXCEPT !.q = q, !.pc = "confirm"]
    BY <1>14 DEF Sent, TypeOK
  <2>2. node[n].pc = "sent" /\ node'[n].pc = "confirm" /\ CoreUnchanged(n)
    BY <1>1, <1>14, <2>1 DEF Sent, NodeState, history, CoreUnchanged
  <2>3. QED
    BY <1>8, <2>2 DEF Quiet, PCs, Awaiting, Processing, MasterPCs
<1>15. CASE Drain(n)
  BY <1>2, <1>3, <1>15 DEF Drain, Quiet, PCs, Processing, MasterPCs
<1>16. CASE DrainWork(n)
  BY <1>3, <1>16 DEF DrainWork, Quiet, PCs, Awaiting, Processing, MasterPCs
<1>17. CASE ReceiveNbn(n)
  <2>1. node[n].pc \in Quiet /\ node'[n].pc = node[n].pc /\ CoreUnchanged(n)
    BY <1>1, <1>17, SMTT(30) DEF ReceiveNbn, TypeOK, NodeState, history, CoreUnchanged,
                       Quiet, PCs, Awaiting, Processing
  <2>2. QED
    BY <1>1, <2>1, QuietStep DEF RoleKept
<1>18. CASE Join(n)
  <2>1. /\ node[n].pc \in Quiet /\ "build" \in Quiet /\ n \in Masters
        /\ db' = db /\ tears' = tears /\ interrupted' = interrupted
    BY <1>1, <1>18
    DEF Join, history, Quiet, PCs, Awaiting, Processing, MasterPCs, RoleKept
  <2>2. CASE Cardinality(Masters) > 1
    <3>1. node'[n] = Entering(n, Head(node[n].q), "build", Tail(node[n].q))
      BY <1>18, <2>2 DEF Join, TypeOK
    <3>2. QED
      BY <1>1, <2>1, <3>1, EnteringStep
  <2>3. CASE ~ (Cardinality(Masters) > 1)
    <3>1. node'[n] = [node[n] EXCEPT !.pc = "build"]
      BY <1>18, <2>3 DEF Join, TypeOK
    <3>2. node'[n].pc = "build" /\ CoreUnchanged(n)
      BY <1>1, <2>1, <3>1 DEF NodeState, CoreUnchanged
    <3>3. QED
      BY <2>1, <3>2, QuietStep
  <2>4. QED
    BY <2>2, <2>3
<1>19. CASE Build(n)
  <2>1. PICK b : node'[n] = Entering(n, b, "announce", node[n].q)
    BY <1>19 DEF Build, TypeOK
  <2>2. /\ node[n].pc \in Quiet /\ "announce" \in Quiet /\ n \in Masters
        /\ db' = db /\ tears' = tears /\ interrupted' = interrupted
    BY <1>1, <1>19 DEF Build, Quiet, PCs, Awaiting, Processing, MasterPCs, RoleKept
  <2>3. QED
    BY <1>1, <2>1, <2>2, EnteringStep
<1>20. CASE Confirm(n)
  <2>1. node'[n] = Entering(n, Head(node[n].q), "work", << >>)
    BY <1>20 DEF Confirm, TypeOK
  <2>2. /\ node[n].pc \in Quiet /\ "work" \in Quiet /\ "work" \notin MasterPCs
        /\ db' = db /\ tears' = tears /\ interrupted' = interrupted
    BY <1>20 DEF Confirm, history, Quiet, PCs, Awaiting, Processing, MasterPCs
  <2>3. QED
    BY <1>1, <2>1, <2>2, EnteringStep
<1>21. QED
  BY <1>4, <1>5, <1>6, <1>7, <1>9, <1>10, <1>11, <1>12, <1>13, <1>14, <1>15, <1>16, <1>17, <1>18,
     <1>19, <1>20 DEF CatchupStep

\* A step of one node leaves the other nodes' states alone.
LEMMA OtherNodes ==
    ASSUME TypeOK, NEW n \in Nodes, NEW m \in Nodes \ {n},
           \/ ProcessStep(n) \/ Restart(n) \/ CatchupStep(n) \/ ReceiveNbn(n)
           \/ Boot(n) \/ Join(n) \/ Build(n) \/ Announce(n) \/ Hang(n)
           \/ AcquireWork(n) \/ DrainWork(n) \/ Sent(n) \/ Confirm(n) \/ Crash(n)
    PROVE  /\ db'[m] = db[m] /\ node'[m] = node[m]
           /\ tears'[m] = tears[m] /\ interrupted'[m] = interrupted[m]
<1> USE DEF TypeOK, history
<1>1. CASE ProcessStep(n)
  BY <1>1 DEF ProcessStep, SetHash, SetHeight, Refresh, Store, Commit
<1>2. CASE Restart(n) \/ CatchupStep(n) \/ DrainWork(n)
  BY <1>2 DEF Restart, CatchupStep, AskHeight, Fetch, FetchFails, FetchDone, Drain, DrainWork, DrainTo
<1>3. CASE ReceiveNbn(n) \/ Boot(n) \/ Join(n) \/ Build(n) \/ Announce(n) \/ Hang(n)
  BY <1>3 DEF ReceiveNbn, Boot, Join, Build, Announce, Hang
<1>4. CASE AcquireWork(n) \/ Sent(n) \/ Confirm(n) \/ Crash(n)
  BY <1>4 DEF AcquireWork, Sent, Confirm, Crash
<1>5. QED
  BY <1>1, <1>2, <1>3, <1>4

LEMMA NodesStep ==
    ASSUME TypeOK, \A n \in Nodes : NodeInv(n), [Next]_vars
    PROVE  \A n \in Nodes : NodeInv(n)'
<1>1. CASE UNCHANGED vars
  BY <1>1, Untouched DEF vars
<1>2. CASE Next
  <2>1. PICK n \in Nodes :
          \/ ProcessStep(n) \/ Restart(n) \/ CatchupStep(n) \/ ReceiveNbn(n)
          \/ Boot(n) \/ Join(n) \/ Build(n) \/ Announce(n) \/ Hang(n)
          \/ AcquireWork(n) \/ DrainWork(n) \/ Sent(n) \/ Confirm(n) \/ Crash(n)
    BY <1>2 DEF Next, ProcessStep, CatchupStep
  <2>2. NodeInv(n)'
    BY <2>1, OwnStep
  <2>3. ASSUME NEW m \in Nodes \ {n} PROVE NodeInv(m)'
    BY <2>1, <2>3, OtherNodes, Untouched
  <2>4. QED
    BY <2>2, <2>3
<1>3. QED
  BY <1>1, <1>2

----------------------------------------------------------------------------
(* Where blocks come from. *)

\* BlocksKnown after the step, of hashes and nodes named before it.
KnownNext(later, exceptedLater) ==
    /\ \A packet \in net' : Known(packet.block, later)
    /\ \A m \in Nodes :
         /\ m \in exceptedLater \/ Known(node'[m].block, later)
         /\ \A k \in DOMAIN node'[m].q : Known(node'[m].q[k], later)
         /\ \A k \in DOMAIN db'[m].store : Known(db'[m].store[k], later)

\* A step keeps all blocks known if every block it puts somewhere is known.
LEMMA KnownFrame ==
    ASSUME NEW known, NEW excepted, NEW later, NEW exceptedLater,
           known \subseteq later, BlocksKnown(known, excepted),
           NEW n \in Nodes, excepted \ {n} \subseteq exceptedLater,
           \A m \in Nodes \ {n} : db'[m] = db[m] /\ node'[m] = node[m],
           \A packet \in net' : packet \in net \/ Known(packet.block, later),
           n \in exceptedLater \/ Known(node'[n].block, later),
           \A k \in DOMAIN node'[n].q : Known(node'[n].q[k], later),
           \A k \in DOMAIN db'[n].store : Known(db'[n].store[k], later)
    PROVE  KnownNext(later, exceptedLater)
<1>1. \A b : Known(b, known) => Known(b, later)
  BY DEF Known
<1>2. \A packet \in net' : Known(packet.block, later)
  BY <1>1 DEF BlocksKnown
<1>3. ASSUME NEW m \in Nodes \ {n}
      PROVE  /\ m \in exceptedLater \/ Known(node'[m].block, later)
             /\ \A k \in DOMAIN node'[m].q : Known(node'[m].q[k], later)
             /\ \A k \in DOMAIN db'[m].store : Known(db'[m].store[k], later)
  <2>1. db'[m] = db[m] /\ node'[m] = node[m]
    BY <1>3
  <2>2. /\ m \in excepted \/ Known(node[m].block, known)
        /\ \A k \in DOMAIN node[m].q : Known(node[m].q[k], known)
        /\ \A k \in DOMAIN db[m].store : Known(db[m].store[k], known)
    BY <1>3 DEF BlocksKnown
  <2>3. QED
    BY <1>1, <2>1, <2>2
<1>4. QED
  BY <1>2, <1>3 DEF KnownNext

\* Every block of queue s is in queue q.
FromQueue(s, q) == \A k \in DOMAIN s : \E j \in DOMAIN q : s[k] = q[j]

LEMMA TailFromQueue ==
    ASSUME NEW q \in Seq(Block), q # << >>
    PROVE  FromQueue(Tail(q), q) /\ \E j \in DOMAIN q : Head(q) = q[j]
<1>1. /\ DOMAIN Tail(q) = 1 .. Len(q) - 1 /\ DOMAIN q = 1 .. Len(q) /\ Len(q) \in Nat \ {0}
      /\ \A k \in 1 .. Len(q) - 1 : Tail(q)[k] = q[k + 1]
      /\ Head(q) = q[1]
  OBVIOUS
<1>2. \A k \in 1 .. Len(q) - 1 : k + 1 \in 1 .. Len(q)
  BY <1>1
<1>3. 1 \in 1 .. Len(q)
  BY <1>1
<1>4. QED
  BY <1>1, <1>2, <1>3 DEF FromQueue

\* Blocks are passed on: only Build makes new ones, and only SetHash makes an
\* excepted node's block one that must be known.
LEMMA KnownStep ==
    ASSUME TypeOK, NodeChainAssumption, NEW known, NEW excepted, NEW later, NEW exceptedLater,
           known \subseteq later, BlocksKnown(known, excepted), NEW n \in Nodes,
           \/ ProcessStep(n) \/ Restart(n) \/ CatchupStep(n) \/ ReceiveNbn(n)
           \/ Boot(n) \/ Join(n) \/ Build(n) \/ Announce(n) \/ Hang(n)
           \/ AcquireWork(n) \/ DrainWork(n) \/ Sent(n) \/ Confirm(n) \/ Crash(n),
           excepted \ {n} \subseteq exceptedLater, n \in excepted => node[n].pc = "setHash",
           SetHash(n) \/ Build(n) => n \in exceptedLater \/ Known(node'[n].block, later)
    PROVE  KnownNext(later, exceptedLater)
<1>1. node[n] \in NodeState /\ db[n] \in DbState
  BY DEF TypeOK
<1>2. \A m \in Nodes \ {n} : db'[m] = db[m] /\ node'[m] = node[m]
  BY OtherNodes
<1>3. /\ \A packet \in net : Known(packet.block, later)
      /\ node[n].pc # "setHash" => Known(node[n].block, later)
      /\ Known(GenesisBlock, later)
      /\ \A k \in DOMAIN node[n].q : Known(node[n].q[k], later)
      /\ \A k \in DOMAIN db[n].store : Known(db[n].store[k], later)
      /\ \A k \in DOMAIN db[Seed].store : Known(db[Seed].store[k], later)
  BY DEF BlocksKnown, Known, NodeChainAssumption, Nodes
<1>4. ASSUME \A packet \in net' : packet \in net \/ Known(packet.block, later),
             n \in exceptedLater \/ Known(node'[n].block, later),
             \A k \in DOMAIN node'[n].q : Known(node'[n].q[k], later),
             \A k \in DOMAIN db'[n].store : Known(db'[n].store[k], later)
      PROVE  KnownNext(later, exceptedLater)
  BY <1>2, <1>4, KnownFrame
<1>5. ASSUME \A packet \in net' : packet \in net \/ Known(packet.block, later),
             db'[n].store = db[n].store, FromQueue(node'[n].q, node[n].q),
             \/ n \in exceptedLater
             \/ Known(node'[n].block, later)
             \/ node[n].pc # "setHash" /\ node'[n].block = node[n].block
             \/ node'[n].block = GenesisBlock
      PROVE  KnownNext(later, exceptedLater)
  <2>1. /\ \A k \in DOMAIN node'[n].q : Known(node'[n].q[k], later)
        /\ \A k \in DOMAIN db'[n].store : Known(db'[n].store[k], later)
    BY <1>3, <1>5 DEF FromQueue
  <2>2. n \in exceptedLater \/ Known(node'[n].block, later)
    BY <1>3, <1>5
  <2>3. QED
    BY <1>4, <1>5, <2>1, <2>2
<1>6. ASSUME net' = net, db' = db, NEW b, Known(b, later),
             NEW q, FromQueue(q, node[n].q), NEW ret,
             \/ node'[n] = Entering(n, b, ret, q)
             \/ \E next : node'[n] = [Entering(n, b, ret, q) EXCEPT !.next = next]
      PROVE  KnownNext(later, exceptedLater)
  <2>1. node'[n].block = b /\ node'[n].q = q
    BY <1>1, <1>6 DEF Entering, NodeState
  <2>2. Known(node'[n].block, later)
    BY <1>6, <2>1
  <2>3. QED
    BY <1>5, <1>6, <2>1, <2>2
<1>7. FromQueue(node[n].q, node[n].q) /\ FromQueue(<< >>, node[n].q)
  BY DEF FromQueue
<1>8. ASSUME node[n].q # << >>
      PROVE  Known(Head(node[n].q), later) /\ FromQueue(Tail(node[n].q), node[n].q)
  BY <1>1, <1>3, <1>8, TailFromQueue DEF NodeState
<1>9. \A height \in Nat : \A q \in Cleaned(node[n].q, height) : FromQueue(q, node[n].q)
  BY <1>1, CleanedType DEF FromQueue, NodeState
<1>10. ASSUME NEW pc, NEW then, DrainTo(n, pc, then), pc # "setHash"
       PROVE  KnownNext(later, exceptedLater)
  <2>1. net' = net /\ db' = db /\ node[n].pc # "setHash"
    BY <1>10 DEF DrainTo, history
  <2>2. CASE node[n].q = << >>
    <3>1. node'[n].block = node[n].block /\ node'[n].q = node[n].q
      BY <1>1, <1>10, <2>2 DEF DrainTo, TypeOK, NodeState
    <3>2. QED
      BY <1>5, <1>7, <2>1, <3>1
  <2>3. CASE node[n].q # << >>
    <3>1. node'[n] = Entering(n, Head(node[n].q), pc, Tail(node[n].q))
      BY <1>10, <2>3 DEF DrainTo, TypeOK
    <3>2. QED
      BY <1>6, <1>8, <2>1, <2>3, <3>1
  <2>4. QED
    BY <2>2, <2>3
<1>11. CASE SetHash(n)
  <2>1. /\ net' = net /\ db'[n].store = db[n].store /\ node'[n].q = node[n].q
    BY <1>1, <1>11 DEF SetHash, TypeOK, NodeState, DbState
  <2>2. QED
    BY <1>5, <1>7, <1>11, <2>1
<1>12. CASE SetHeight(n)
  <2>1. /\ net' = net /\ db'[n].store = db[n].store /\ node[n].pc # "setHash"
        /\ node'[n].block = node[n].block /\ node'[n].q = node[n].q
    BY <1>1, <1>12 DEF SetHeight, TypeOK, NodeState, DbState
  <2>2. QED
    BY <1>5, <1>7, <2>1
<1>13. CASE Refresh(n)
  <2>1. /\ net' = net /\ db' = db /\ node[n].pc # "setHash"
        /\ node'[n].block = node[n].block
        /\ node'[n].q \in Cleaned(node[n].q, db[n].height)
    BY <1>1, <1>13 DEF Refresh, TypeOK, NodeState
  <2>2. QED
    BY <1>1, <1>5, <1>9, <2>1 DEF DbState
<1>14. CASE Store(n)
  <2>1. /\ net' = net /\ node[n].pc # "setHash"
        /\ node'[n].block = node[n].block /\ node'[n].q = node[n].q
        /\ db'[n].store = Append(db[n].store, node[n].block)
    BY <1>1, <1>14 DEF Store, TypeOK, NodeState, DbState
  <2>2. db[n].store \in Seq(Block) /\ node[n].block \in Block
    BY <1>1 DEF DbState, NodeState
  <2>3. \A k \in DOMAIN db'[n].store :
          db'[n].store[k] = node[n].block \/ \E j \in DOMAIN db[n].store : db'[n].store[k] = db[n].store[j]
    BY <2>1, <2>2, AppendElements
  <2>4. /\ \A k \in DOMAIN db'[n].store : Known(db'[n].store[k], later)
        /\ Known(node'[n].block, later)
        /\ \A k \in DOMAIN node'[n].q : Known(node'[n].q[k], later)
    BY <1>3, <2>1, <2>3
  <2>5. QED
    BY <1>4, <2>1, <2>4
<1>15. CASE Commit(n)
  <2>1. node'[n] = Returned(n) /\ db'[n].store = db[n].store /\ net' = net /\ node[n].pc # "setHash"
    BY <1>1, <1>15 DEF Commit, TypeOK, DbState
  <2>2. node'[n].block \in {node[n].block, GenesisBlock} /\ node'[n].q = node[n].q
    BY <1>1, <2>1 DEF Returned, NodeState
  <2>3. QED
    BY <1>5, <1>7, <2>1, <2>2
<1>16. CASE Restart(n) \/ FetchFails(n) \/ Crash(n)
  <2>1. net' = net /\ db' = db
    BY <1>16 DEF Restart, FetchFails, Crash
  <2>2. node'[n].block = GenesisBlock /\ node'[n].q = << >>
    <3>1. CASE Restart(n)
      BY <3>1 DEF Restart, Down, TypeOK
    <3>2. CASE FetchFails(n) \/ Crash(n)
      BY <3>2 DEF FetchFails, Crash, Down, TypeOK
    <3>3. QED
      BY <1>16, <3>1, <3>2
  <2>3. QED
    BY <1>5, <1>7, <2>1, <2>2
<1>17. CASE AskHeight(n) \/ FetchDone(n) \/ AcquireWork(n)
  <2>1. net' = net /\ db' = db /\ node[n].pc # "setHash"
    BY <1>17 DEF AskHeight, FetchDone, AcquireWork
  <2>2. node'[n].block = node[n].block /\ node'[n].q = node[n].q
    <3>1. CASE AskHeight(n)
      BY <1>1, <3>1 DEF AskHeight, TypeOK, NodeState
    <3>2. CASE FetchDone(n) \/ AcquireWork(n)
      BY <1>1, <3>2 DEF FetchDone, AcquireWork, TypeOK, NodeState
    <3>3. QED
      BY <1>17, <3>1, <3>2
  <2>3. QED
    BY <1>5, <1>7, <2>1, <2>2
<1>18. CASE Fetch(n)
  <2>1. PICK b \in Served(node[n].next) :
          node' = [node EXCEPT ![n] = [Entering(n, b, "fetch", node[n].q)
                                         EXCEPT !.next = NextOf(@)]]
    BY <1>18 DEF Fetch
  <2>2. \E next : node'[n] = [Entering(n, b, "fetch", node[n].q) EXCEPT !.next = next]
    BY <2>1 DEF TypeOK
  <2>3. net' = net /\ db' = db
    BY <1>18 DEF Fetch
  <2>4. Known(b, later)
    BY <1>3, ServedType
  <2>5. QED
    BY <1>6, <1>7, <2>2, <2>3, <2>4
<1>19. CASE Drain(n) \/ DrainWork(n)
  BY <1>10, <1>19 DEF Drain, DrainWork
<1>20. CASE ReceiveNbn(n)
  <2>1. PICK packet \in net : node' = [node EXCEPT ![n].q = Append(@, packet.block)]
    BY <1>20 DEF ReceiveNbn
  <2>2. /\ net' \subseteq net /\ db' = db /\ node[n].pc # "setHash"
        /\ node'[n].block = node[n].block
        /\ node'[n].q = Append(node[n].q, packet.block)
    BY <1>1, <1>20, <2>1 DEF ReceiveNbn, Awaiting, TypeOK, NodeState
  <2>3. node[n].q \in Seq(Block) /\ packet.block \in Block
    BY <1>1 DEF NodeState, TypeOK
  <2>4. \A k \in DOMAIN node'[n].q :
          node'[n].q[k] = packet.block \/ \E j \in DOMAIN node[n].q : node'[n].q[k] = node[n].q[j]
    BY <2>2, <2>3, AppendElements
  <2>5. /\ \A k \in DOMAIN node'[n].q : Known(node'[n].q[k], later)
        /\ Known(node'[n].block, later)
        /\ \A k \in DOMAIN db'[n].store : Known(db'[n].store[k], later)
    BY <1>3, <2>2, <2>4
  <2>6. QED
    BY <1>4, <2>2, <2>5
<1>21. CASE Boot(n) \/ Announce(n) \/ Hang(n)
  <2>1. /\ db' = db /\ node[n].pc # "setHash"
        /\ node'[n].block \in {node[n].block, GenesisBlock} /\ node'[n].q = node[n].q
    BY <1>1, <1>21 DEF Boot, Announce, Hang, TypeOK, NodeState
  <2>2. \A packet \in net' : packet \in net \/ packet.block \in {node[n].block, GenesisBlock}
    BY <1>21 DEF Boot, Announce, Hang, Packets
  <2>3. \A packet \in net' : packet \in net \/ Known(packet.block, later)
    BY <1>3, <2>1, <2>2
  <2>4. QED
    BY <1>5, <1>7, <2>1, <2>3
<1>22. CASE Join(n)
  <2>1. net' = net /\ db' = db /\ node[n].pc # "setHash"
    BY <1>22 DEF Join
  <2>2. CASE Cardinality(Masters) > 1
    <3>1. node[n].q # << >> /\ node'[n] = Entering(n, Head(node[n].q), "build", Tail(node[n].q))
      BY <1>22, <2>2 DEF Join, TypeOK
    <3>2. QED
      BY <1>6, <1>8, <2>1, <3>1
  <2>3. CASE ~ (Cardinality(Masters) > 1)
    <3>1. node'[n].block = node[n].block /\ node'[n].q = node[n].q
      BY <1>1, <1>22, <2>3 DEF Join, TypeOK, NodeState
    <3>2. QED
      BY <1>5, <1>7, <2>1, <3>1
  <2>4. QED
    BY <2>2, <2>3
<1>23. CASE Build(n)
  <2>1. PICK b : node' = [node EXCEPT ![n] = Entering(n, b, "announce", node[n].q)]
    BY <1>23 DEF Build
  <2>2. node'[n].q = node[n].q /\ net' = net /\ db' = db
    BY <1>1, <1>23, <2>1 DEF Build, Entering, TypeOK, NodeState
  <2>3. QED
    BY <1>5, <1>7, <1>23, <2>2
<1>24. CASE Sent(n)
  <2>1. PICK q \in Cleaned(node[n].q, node[n].height) :
          node' = [node EXCEPT ![n].q = q, ![n].pc = "confirm"]
    BY <1>24 DEF Sent
  <2>2. node'[n].block = node[n].block /\ node'[n].q = q /\ FromQueue(q, node[n].q)
    BY <1>1, <1>9, <2>1 DEF TypeOK, NodeState
  <2>3. net' = net /\ db' = db /\ node[n].pc # "setHash"
    BY <1>24 DEF Sent
  <2>4. QED
    BY <1>5, <2>2, <2>3
<1>25. CASE Confirm(n)
  <2>1. node[n].q # << >> /\ node'[n] = Entering(n, Head(node[n].q), "work", << >>)
    BY <1>25 DEF Confirm, TypeOK
  <2>2. net' = net /\ db' = db
    BY <1>25 DEF Confirm
  <2>3. QED
    BY <1>6, <1>7, <1>8, <2>1, <2>2
<1>26. QED
  BY <1>11, <1>12, <1>13, <1>14, <1>15, <1>16, <1>17, <1>18, <1>19, <1>20, <1>21, <1>22, <1>23,
     <1>24, <1>25 DEF ProcessStep, CatchupStep

\* Every step keeps every block genuine: only Build makes new ones, into `built`.
LEMMA GenuineStep ==
    ASSUME TypeOK, BlocksGenuine, NodeChainAssumption, NEW n \in Nodes,
           \/ ProcessStep(n) \/ Restart(n) \/ CatchupStep(n) \/ ReceiveNbn(n)
           \/ Boot(n) \/ Join(n) \/ Build(n) \/ Announce(n) \/ Hang(n)
           \/ AcquireWork(n) \/ DrainWork(n) \/ Sent(n) \/ Confirm(n) \/ Crash(n)
    PROVE  BlocksGenuine'
<1>1. PICK known, later : known = built /\ later = built'
  OBVIOUS
<1>2. known \subseteq later
  BY <1>1 DEF ProcessStep, SetHash, SetHeight, Refresh, Store, Commit, Restart, CatchupStep,
     AskHeight, Fetch, FetchFails, FetchDone, Drain, DrainTo, ReceiveNbn, Boot, Join, Build,
     Announce, Hang, AcquireWork, DrainWork, Sent, Confirm, Crash, history
<1>3. BlocksKnown(known, {})
  BY <1>1 DEF BlocksGenuine
<1>4. node[n] \in NodeState
  BY DEF TypeOK
<1>5. SetHash(n) => Known(node'[n].block, later)
  <2> SUFFICES ASSUME SetHash(n) PROVE Known(node'[n].block, later)
    OBVIOUS
  <2>1. node'[n].block = node[n].block
    BY <1>4 DEF SetHash, TypeOK, NodeState
  <2>2. QED
    BY <1>2, <1>3, <2>1 DEF BlocksKnown, Known
<1>6. Build(n) => Known(node'[n].block, later)
  <2> SUFFICES ASSUME Build(n) PROVE Known(node'[n].block, later)
    OBVIOUS
  <2>1. PICK b : /\ built' = built \cup {b.hash}
                 /\ node' = [node EXCEPT ![n] = Entering(n, b, "announce", node[n].q)]
    BY DEF Build
  <2>2. node'[n].block = b
    BY <1>4, <2>1 DEF TypeOK, Entering, NodeState
  <2>3. QED
    BY <1>1, <2>1, <2>2 DEF Known
<1>7. KnownNext(later, {})
  BY <1>2, <1>3, <1>5, <1>6, KnownStep
<1>8. QED
  BY <1>1, <1>7 DEF BlocksGenuine, BlocksKnown, Known, KnownNext

----------------------------------------------------------------------------
(* Blocks are committed by a masternode before anybody else hears of them. *)

\* The chain of a node changes only by the first write of an accepted block,
\* which extends it.
LEMMA ChainsGrow ==
    ASSUME TypeOK, NEW n \in Nodes, NodeInv(n),
           \/ ProcessStep(n) \/ Restart(n) \/ CatchupStep(n) \/ ReceiveNbn(n)
           \/ Boot(n) \/ Join(n) \/ Build(n) \/ Announce(n) \/ Hang(n)
           \/ AcquireWork(n) \/ DrainWork(n) \/ Sent(n) \/ Confirm(n) \/ Crash(n)
    PROVE  /\ SetHash(n) => /\ db'[n].hash = node[n].block.hash
                            /\ db'[n].hash \in Hashes(db'[n].hash)
                            /\ Hashes(db[n].hash) \subseteq Hashes(db'[n].hash)
                            /\ node[n].block # GenesisBlock
           /\ ~ SetHash(n) => db'[n].hash = db[n].hash
<1>1. node[n] \in NodeState /\ db[n] \in DbState
  BY DEF TypeOK
<1>2. CASE SetHash(n)
  <2>1. /\ db'[n].hash = node[n].block.hash
        /\ ShouldProcess(n, node[n].block) /\ node[n].hash = db[n].hash
    BY <1>1, <1>2 DEF SetHash, TypeOK, DbState, NodeInv, CacheCurrent
  <2>2. node[n].block \in Block
    BY <1>1 DEF NodeState
  <2>3. PICK body \in Bodies : db'[n].hash = Append(db[n].hash, body)
    BY <1>1, <2>1, <2>2, AcceptedBlock
  <2>4. node[n].block # GenesisBlock
    BY <1>1, <2>1, <2>2, AcceptedBlock
  <2>5. db[n].hash \in Chain
    BY <1>1 DEF DbState
  <2>6. Hashes(db'[n].hash) = Hashes(db[n].hash) \cup {db'[n].hash}
    BY <2>3, <2>5, HashesAppend
  <2>7. QED
    BY <1>2, <2>1, <2>4, <2>6
<1>3. ASSUME ~ SetHash(n) PROVE db'[n].hash = db[n].hash
  <2>1. CASE SetHeight(n) \/ Store(n) \/ Commit(n)
    BY <1>1, <2>1 DEF SetHeight, Store, Commit, TypeOK, DbState
  <2>2. CASE Refresh(n) \/ Restart(n) \/ CatchupStep(n) \/ ReceiveNbn(n)
    BY <2>2 DEF Refresh, Restart, CatchupStep, AskHeight, Fetch, FetchFails, FetchDone, Drain,
       DrainTo, ReceiveNbn
  <2>3. CASE Boot(n) \/ Join(n) \/ Build(n) \/ Announce(n) \/ Hang(n)
    BY <2>3 DEF Boot, Join, Build, Announce, Hang
  <2>4. CASE AcquireWork(n) \/ DrainWork(n) \/ Sent(n) \/ Confirm(n) \/ Crash(n)
    BY <2>4 DEF AcquireWork, DrainWork, DrainTo, Sent, Confirm, Crash
  <2>5. QED
    BY <1>3, <2>1, <2>2, <2>3, <2>4 DEF ProcessStep
<1>4. QED
  BY <1>2, <1>3

\* A block that was built is accepted, and its masternode writes it next.
LEMMA BuildWrites ==
    ASSUME TypeOK, NEW n \in Nodes, NodeInv(n), Build(n)
    PROVE  node'[n].pc = "setHash" /\ n \in Masters
<1>1. node[n] \in NodeState
  BY DEF TypeOK
<1>2. n \in Masters
  BY DEF Build, NodeInv, RoleKept, MasterPCs
<1>3. PICK body \in Bodies :
        node' = [node EXCEPT ![n] = Entering(n, BlockFrom(body, node[n].hash, node[n].height + 1),
                                             "announce", node[n].q)]
  BY DEF Build
<1>4. ShouldProcess(n, BlockFrom(body, node[n].hash, node[n].height + 1))
  BY DEF ShouldProcess, BlockFrom
<1>5. QED
  BY <1>1, <1>2, <1>3, <1>4 DEF TypeOK, Entering, NodeState

\* Every step keeps it so.
LEMMA CommittedStep ==
    ASSUME TypeOK, BlocksCommitted, NodeChainAssumption, \A m \in Nodes : NodeInv(m),
           NEW n \in Nodes,
           \/ ProcessStep(n) \/ Restart(n) \/ CatchupStep(n) \/ ReceiveNbn(n)
           \/ Boot(n) \/ Join(n) \/ Build(n) \/ Announce(n) \/ Hang(n)
           \/ AcquireWork(n) \/ DrainWork(n) \/ Sent(n) \/ Confirm(n) \/ Crash(n)
    PROVE  BlocksCommitted'
<1>1. PICK known, later, excepted, exceptedLater :
        /\ known = Committed /\ later = Committed'
        /\ excepted = Writing /\ exceptedLater = Writing'
  OBVIOUS
<1>2. \A m \in Nodes \ {n} : db'[m] = db[m] /\ node'[m] = node[m]
  BY OtherNodes
<1>3. NodeInv(n) /\ node[n] \in NodeState
  BY DEF TypeOK
<1>4. \A m \in Nodes : Hashes(db[m].hash) \subseteq Hashes(db'[m].hash)
  <2>1. Hashes(db[n].hash) \subseteq Hashes(db'[n].hash)
    BY <1>3, ChainsGrow
  <2>2. QED
    BY <1>2, <2>1
<1>5. known \subseteq later
  <2>1. \A h : h \in known <=> \E m \in Masters : h \in Hashes(db[m].hash)
    BY <1>1 DEF Committed
  <2>2. \A h : h \in later <=> \E m \in Masters : h \in Hashes(db'[m].hash)
    BY <1>1 DEF Committed, Hashes
  <2>3. QED
    BY <1>4, <2>1, <2>2 DEF Nodes
<1>6. SetHash(n) /\ n \in Masters => db'[n].hash \in later
  <2>1. SetHash(n) => db'[n].hash \in Hashes(db'[n].hash)
    BY <1>3, ChainsGrow
  <2>2. \A m \in Masters : Hashes(db'[m].hash) \subseteq later
    BY <1>1 DEF Committed, Hashes
  <2>3. QED
    BY <2>1, <2>2
<1>7. BlocksKnown(known, excepted)
  BY <1>1 DEF BlocksCommitted
<1>8. /\ excepted \ {n} \subseteq exceptedLater
      /\ n \in excepted => node[n].pc = "setHash"
  BY <1>1, <1>2 DEF Writing, Nodes
<1>9. SetHash(n) => Known(node'[n].block, later) /\ Known(node[n].block, later)
  <2> SUFFICES ASSUME SetHash(n) PROVE Known(node'[n].block, later) /\ Known(node[n].block, later)
    OBVIOUS
  <2>1. node'[n].block = node[n].block
    BY <1>3 DEF SetHash, TypeOK, NodeState
  <2>2. CASE n \in Masters
    <3>1. node[n].block.hash = db'[n].hash
      BY <1>3, ChainsGrow
    <3>2. QED
      BY <1>6, <2>1, <2>2, <3>1 DEF Known
  <2>3. CASE n \notin Masters
    <3>1. Known(node[n].block, known)
      BY <1>1, <1>7, <2>3 DEF BlocksKnown, Writing
    <3>2. QED
      BY <1>5, <2>1, <3>1 DEF Known
  <2>4. QED
    BY <2>2, <2>3
<1>10. Build(n) => n \in exceptedLater
  BY <1>1, <1>3, BuildWrites DEF Writing
<1>11. KnownNext(later, exceptedLater)
  <2>1. SetHash(n) \/ Build(n) => n \in exceptedLater \/ Known(node'[n].block, later)
    BY <1>9, <1>10
  <2>2. QED
    BY <1>5, <1>7, <1>8, <2>1, KnownStep
<1>12. BlocksKnown(Committed, Writing)'
  BY <1>1, <1>11 DEF BlocksKnown, Known, KnownNext
<1>13. \A d \in Delegates : db'[d].hash \in {<< >>} \cup later
  <2> SUFFICES ASSUME NEW d \in Delegates PROVE db'[d].hash \in {<< >>} \cup later
    OBVIOUS
  <2>1. db[d].hash \in {<< >>} \cup later /\ d \in Nodes
    BY <1>1, <1>5 DEF BlocksCommitted, DelegatesFollow, Nodes
  <2>2. CASE db'[d].hash = db[d].hash
    BY <2>1, <2>2
  <2>3. CASE db'[d].hash # db[d].hash
    <3>1. d = n /\ SetHash(n)
      BY <1>2, <1>3, <2>1, <2>3, ChainsGrow
    <3>2. db'[n].hash = node[n].block.hash /\ node[n].block # GenesisBlock
      BY <1>3, <3>1, ChainsGrow
    <3>3. QED
      BY <1>9, <3>1, <3>2 DEF Known
  <2>4. QED
    BY <2>2, <2>3
<1>14. DelegatesFollow'
  BY <1>1, <1>13 DEF DelegatesFollow
<1>15. QED
  BY <1>12, <1>14 DEF BlocksCommitted

----------------------------------------------------------------------------
(* The invariant, and the safety properties that follow from it. *)

LEMMA InvInit == Init => IInv
<1> SUFFICES ASSUME Init PROVE IInv
  OBVIOUS
<1>1. TypeOK
  <2>1. FreshDb \in DbState
    BY DEF FreshDb, DbState, Chain
  <2>2. QED
    BY <2>1, DownType DEF Init, TypeOK
<1>2. BlocksGenuine
  BY DEF Init, BlocksGenuine, BlocksKnown, Known, Down, FreshDb
<1>3. ASSUME NEW n \in Nodes PROVE NodeInv(n)
  <2>1. db[n] = FreshDb /\ node[n] = Down /\ tears[n] = 0 /\ interrupted[n] = {}
    BY DEF Init
  <2>2. Hashes(db[n].hash) = {}
    BY <2>1 DEF Hashes, FreshDb
  <2>3. RoleKept(n) /\ CacheCurrent(n) /\ HeightLagsAt(n)
    BY <2>1 DEF RoleKept, CacheCurrent, HeightLagsAt, Down, FreshDb, Processing, MasterPCs
  <2>4. PaidOnceAt(n) /\ RewardsPending(n) /\ Complete(n)
    BY <2>1, <2>2 DEF PaidOnceAt, RewardsPending, Complete, Underway, Down, FreshDb
  <2>5. QED
    BY <2>3, <2>4 DEF NodeInv
<1>4. BlocksCommitted
  BY DEF Init, BlocksCommitted, BlocksKnown, Known, DelegatesFollow, Down, FreshDb, Nodes
<1>5. QED
  BY <1>1, <1>2, <1>3, <1>4 DEF IInv

LEMMA InvStep == IInv /\ [Next]_vars => IInv'
<1> SUFFICES ASSUME IInv, [Next]_vars PROVE IInv'
  OBVIOUS
<1>1. TypeOK /\ TypeOK'
  BY TypeStep DEF IInv
<1>2. \A n \in Nodes : NodeInv(n)'
  BY NodesStep DEF IInv
<1>3. BlocksGenuine' /\ BlocksCommitted'
  <2>1. CASE UNCHANGED vars
    <3>1. BlocksGenuine'
      BY <2>1 DEF IInv, BlocksGenuine, BlocksKnown, Known, vars
    <3>2. Committed' = Committed /\ Writing' = Writing
      BY <2>1 DEF Committed, Hashes, Writing, vars
    <3>3. BlocksCommitted'
      BY <2>1, <3>2 DEF IInv, BlocksCommitted, BlocksKnown, Known, DelegatesFollow, vars
    <3>4. QED
      BY <3>1, <3>3
  <2>2. CASE Next
    <3>1. PICK n \in Nodes :
            \/ ProcessStep(n) \/ Restart(n) \/ CatchupStep(n) \/ ReceiveNbn(n)
            \/ Boot(n) \/ Join(n) \/ Build(n) \/ Announce(n) \/ Hang(n)
            \/ AcquireWork(n) \/ DrainWork(n) \/ Sent(n) \/ Confirm(n) \/ Crash(n)
      BY <2>2 DEF Next, ProcessStep, CatchupStep
    <3>2. QED
      BY <3>1, GenuineStep, CommittedStep, NodeChainAssumption DEF IInv
  <2>3. QED
    BY <2>1, <2>2
<1>4. QED
  BY <1>1, <1>2, <1>3 DEF IInv

\* The invariant holds in every reachable state.
THEOREM Invariant == Spec => []IInv
BY InvInit, InvStep, PTL DEF Spec

\* A node's committed height falls short of its committed chain by exactly the
\* crashes between the two writes of update_state_with_block, and nothing
\* else ever parts or repairs them.
THEOREM HeightLags == Spec => []HeightLagsByTears
<1>1. IInv => HeightLagsByTears
  BY DEF IInv, NodeInv, HeightLagsByTears
<1>2. QED
  BY <1>1, Invariant, PTL

\* Through catch-up, announcements in any order and crashes, issue_rewards and
\* the commit pay the rewards of a block at most once, of blocks on the chain.
THEOREM RewardsPaidOnce == Spec => []PaidOnce
<1>1. IInv => PaidOnce
  BY DEF IInv, NodeInv, PaidOnce
<1>2. QED
  BY <1>1, Invariant, PTL

\* get_work_processed processes a block before the loop announces it: whatever
\* crashes and whoever serves whom, a delegate's chain is on a masternode's.
THEOREM DelegatesBehind == Spec => []DelegatesFollow
<1>1. IInv => DelegatesFollow
  BY DEF IInv, BlocksCommitted
<1>2. QED
  BY <1>1, Invariant, PTL

\* One of two nodes has the other's chain, and maybe more.
InLine(n, o) == \/ db[n].hash \in {<< >>} \cup Hashes(db[o].hash)
                \/ db[o].hash \in {<< >>} \cup Hashes(db[n].hash)

LEMMA PartsOfOne ==
    ASSUME NEW chain \in Chain, NEW one \in Hashes(chain), NEW other \in Hashes(chain)
    PROVE  one \in Hashes(other) \/ other \in Hashes(one)
<1>1. ASSUME NEW j \in 1 .. Len(chain), NEW k \in 1 .. Len(chain), j <= k
      PROVE  SubSeq(chain, 1, j) \in Hashes(SubSeq(chain, 1, k))
  <2>1. Len(chain) \in Nat /\ Len(SubSeq(chain, 1, k)) = k
    BY DEF Chain
  <2>2. SubSeq(SubSeq(chain, 1, k), 1, j) = SubSeq(chain, 1, j)
    BY <1>1, <2>1, SubSeqOfSubSeq DEF Chain
  <2>3. QED
    BY <1>1, <2>1, <2>2 DEF Hashes
<1>2. PICK j \in 1 .. Len(chain), k \in 1 .. Len(chain) :
        one = SubSeq(chain, 1, j) /\ other = SubSeq(chain, 1, k)
  BY DEF Hashes
<1>3. j <= k \/ k <= j
  BY DEF Chain
<1>4. QED
  BY <1>1, <1>2, <1>3

\* The blocks of one masternode are one chain: with no second one there are no
\* forks, at any two nodes and after any crashes.
THEOREM SingleMasterNoForks ==
    ASSUME NEW m, Masters = {m}
    PROVE  Spec => [](\A n, o \in Nodes : InLine(n, o))
<1>1. IInv => \A n, o \in Nodes : InLine(n, o)
  <2> SUFFICES ASSUME IInv, NEW n \in Nodes, NEW o \in Nodes
               PROVE  InLine(n, o)
    OBVIOUS
  <2>0. \A d \in Nodes : db[d].hash \in Chain
    BY DEF IInv, TypeOK, DbState
  <2>1. /\ \A d \in Delegates : db[d].hash \in {<< >>} \cup Hashes(db[m].hash)
        /\ m \in Nodes /\ \A d \in Nodes : d = m \/ d \in Delegates
    BY DEF IInv, BlocksCommitted, DelegatesFollow, Committed, Nodes
  <2>2. CASE n = m \/ o = m
    BY <2>0, <2>1, <2>2, WholeChain DEF InLine
  <2>3. CASE n \in Delegates /\ o \in Delegates /\ db[n].hash # << >> /\ db[o].hash # << >>
    BY <2>0, <2>1, <2>3, PartsOfOne DEF InLine
  <2>4. QED
    BY <2>1, <2>2, <2>3 DEF InLine
<1>2. QED
  BY <1>1, Invariant, PTL

\* Outside process_new_block a block on the chain has had its rewards paid and,
\* at a masternode, is stored, unless a crash hit the node in between.
THEOREM BlocksComplete == Spec => []CompleteOrInterrupted
<1>1. IInv => CompleteOrInterrupted
  <2> SUFFICES ASSUME IInv, NEW n \in Nodes, node[n].pc \notin Processing
               PROVE  \A hash \in Hashes(db[n].hash) \ interrupted[n] :
                         IsPaid(n, hash) /\ (n \in Masters => IsStored(n, hash))
    BY DEF CompleteOrInterrupted
  <2>1. ~ Underway(n)
    BY DEF Underway, Processing
  <2>2. QED
    BY <2>1 DEF IInv, NodeInv, Complete
<1>2. QED
  BY <1>1, Invariant, PTL

----------------------------------------------------------------------------
(* The committed chains implement the ledgers of the abstract specification. *)

LEMMA LedgerInit == Init => Abstract!Init
BY DEF Init, Abstract!Init, FreshDb

\* Only SetHash writes a committed hash, and only Build builds.
LEMMA ChainsKept ==
    ASSUME TypeOK, NEW n \in Nodes,
           \/ SetHeight(n) \/ Refresh(n) \/ Store(n) \/ Commit(n)
           \/ Restart(n) \/ CatchupStep(n) \/ ReceiveNbn(n)
           \/ Boot(n) \/ Join(n) \/ Announce(n) \/ Hang(n)
           \/ AcquireWork(n) \/ DrainWork(n) \/ Sent(n) \/ Confirm(n) \/ Crash(n)
    PROVE  built' = built /\ \A m \in Nodes : db'[m].hash = db[m].hash
<1> USE DEF history
<1>1. db[n] \in DbState
  BY DEF TypeOK
<1>2. CASE SetHeight(n)
  BY <1>1, <1>2 DEF SetHeight, TypeOK, DbState
<1>3. CASE Store(n)
  BY <1>1, <1>3 DEF Store, TypeOK, DbState
<1>4. CASE Commit(n)
  BY <1>1, <1>4 DEF Commit, TypeOK, DbState
<1>5. CASE Refresh(n) \/ Restart(n) \/ CatchupStep(n) \/ ReceiveNbn(n) \/ DrainWork(n)
  BY <1>5 DEF Refresh, Restart, CatchupStep, AskHeight, Fetch, FetchFails, FetchDone, Drain,
              DrainWork, DrainTo, ReceiveNbn
<1>6. CASE \/ Boot(n) \/ Join(n) \/ Announce(n) \/ Hang(n)
           \/ AcquireWork(n) \/ Sent(n) \/ Confirm(n) \/ Crash(n)
  BY <1>6 DEF Boot, Join, Announce, Hang, AcquireWork, Sent, Confirm, Crash
<1>7. QED
  BY <1>2, <1>3, <1>4, <1>5, <1>6

\* The write of a hash extends one ledger by a block somebody built.
LEMMA SetHashExtends ==
    ASSUME IInv, NEW n \in Nodes, SetHash(n)
    PROVE  Abstract!Extend(n)
<1>1. node[n] \in NodeState /\ node[n].block \in Block /\ db[n] \in DbState /\ db \in [Nodes -> DbState]
  BY DEF IInv, TypeOK, NodeState
<1>2. db' = [db EXCEPT ![n].hash = node[n].block.hash] /\ built' = built
  BY DEF SetHash, history
<1>3. ShouldProcess(n, node[n].block) /\ node[n].hash = db[n].hash
  BY DEF SetHash, IInv, NodeInv, CacheCurrent
<1>4. /\ node[n].block.body \in Bodies /\ node[n].block # GenesisBlock
      /\ node[n].block.hash = Append(db[n].hash, node[n].block.body)
  BY <1>1, <1>3, AcceptedBlock
<1>5. node[n].block.hash \in built
  BY <1>4 DEF IInv, BlocksGenuine, BlocksKnown, Known
<1>6. \A m \in Nodes : db'[m].hash = IF m = n THEN node[n].block.hash ELSE db[m].hash
  BY <1>1, <1>2 DEF DbState
<1> DEFINE ledger == [m \in Nodes |-> db[m].hash]
<1>7. [m \in Nodes |-> db'[m].hash] = [ledger EXCEPT ![n] = Append(@, node[n].block.body)]
  BY <1>4, <1>6
<1>8. QED
  BY <1>2, <1>4, <1>5, <1>7 DEF Abstract!Extend

\* A masternode builds on the chain it has committed.
LEMMA BuildBuilds ==
    ASSUME IInv, NEW n \in Nodes, Build(n)
    PROVE  n \in Masters /\ Abstract!Build(n)
<1>1. n \in Masters /\ node[n].hash = db[n].hash
  BY DEF Build, IInv, NodeInv, RoleKept, MasterPCs, CacheCurrent
<1>2. PICK body \in Bodies : built' = built \cup {Append(node[n].hash, body)}
  BY DEF Build, BlockFrom
<1>3. db' = db
  BY DEF Build
<1>4. QED
  BY <1>1, <1>2, <1>3 DEF Abstract!Build

LEMMA LedgerStep == IInv /\ [Next]_vars => [Abstract!Next]_(Abstract!vars)
<1> SUFFICES ASSUME IInv, [Next]_vars PROVE [Abstract!Next]_(Abstract!vars)
  OBVIOUS
<1>1. CASE UNCHANGED vars
  BY <1>1 DEF vars, Abstract!vars
<1>2. CASE Next
  <2>1. PICK n \in Nodes :
          \/ ProcessStep(n) \/ Restart(n) \/ CatchupStep(n) \/ ReceiveNbn(n)
          \/ Boot(n) \/ Join(n) \/ Build(n) \/ Announce(n) \/ Hang(n)
          \/ AcquireWork(n) \/ DrainWork(n) \/ Sent(n) \/ Confirm(n) \/ Crash(n)
    BY <1>2 DEF Next, ProcessStep, CatchupStep
  <2>2. CASE SetHash(n)
    BY <2>2, SetHashExtends DEF Abstract!Next
  <2>3. CASE Build(n)
    BY <2>3, BuildBuilds DEF Abstract!Next
  <2>4. CASE ~ SetHash(n) /\ ~ Build(n)
    <3>1. built' = built /\ \A m \in Nodes : db'[m].hash = db[m].hash
      BY <2>1, <2>4, ChainsKept DEF IInv, ProcessStep
    <3>2. QED
      BY <3>1 DEF Abstract!vars
  <2>5. QED
    BY <2>2, <2>3, <2>4
<1>3. QED
  BY <1>1, <1>2

\* Nodes commit only chains that masternodes built, one block at a time, on
\* whatever network, catch-up and crashes: they implement Ledger.
THEOREM ChainsImplementLedger == Spec => ImplementsLedger
<1>1. Init => Abstract!Init
  BY LedgerInit
<1>2. IInv /\ [Next]_vars => [Abstract!Next]_(Abstract!vars)
  BY LedgerStep
<1>3. QED
  BY <1>1, <1>2, Invariant, PTL DEF Spec, ImplementsLedger, Abstract!Spec
----------------------------------------------------------------------------
(* Catch-up comes to an end. *)

\* Where a node is, taking process_new_block for a part of its caller.
CallerPc(n) == IF node[n].pc \in Processing THEN node[n].ret ELSE node[n].pc

CatchingUp(n) == CallerPc(n) \in {"askHeight", "fetch", "drain"}
Settled(n) == node[n].pc \in {"boot", "join", "work", "down"}

\* What is left to do: loops of catchup, blocks for the loop under way, and steps
\* of process_new_block for the block under way.
LoopsLeft(n) ==
    IF CallerPc(n) = "askHeight" THEN 2 ELSE IF CallerPc(n) = "fetch" THEN 1 ELSE 0
BlocksLeft(n) ==
    IF CallerPc(n) = "askHeight" THEN 0
    ELSE IF CallerPc(n) # "fetch" THEN Len(node[n].q)
    ELSE IF node[n].next <= node[n].latest THEN node[n].latest + 1 - node[n].next ELSE 0
StepsOf == [setHash |-> 5, setHeight |-> 4, refresh |-> 3, store |-> 2, commit |-> 1]
StepsLeft(n) == IF node[n].pc \in Processing THEN StepsOf[node[n].pc] ELSE 0

AsMuchLeft(n, a, b, c) == LoopsLeft(n) = a /\ BlocksLeft(n) = b /\ StepsLeft(n) = c
LessLeft(n, a, b, c) ==
    /\ LoopsLeft(n) \in Nat /\ BlocksLeft(n) \in Nat /\ StepsLeft(n) \in Nat
    /\ \/ LoopsLeft(n) < a
       \/ LoopsLeft(n) = a /\ BlocksLeft(n) < b
       \/ LoopsLeft(n) = a /\ BlocksLeft(n) = b /\ StepsLeft(n) < c

\* NewBlock.clean never makes the queue longer.
LEMMA CleanedShorter ==
    ASSUME NEW q \in Seq(Block), NEW height \in Nat, NEW s \in Cleaned(q, height)
    PROVE  Len(s) \in Nat /\ Len(s) <= Len(q)
<1> DEFINE kept == {k \in DOMAIN q : q[k].number > height}
<1>1. IsFiniteSet(1 .. Len(q)) /\ Cardinality(1 .. Len(q)) = Len(q) /\ Len(q) \in Nat
  BY FS_Interval
<1>2. kept \subseteq 1 .. Len(q)
  OBVIOUS
<1>3. Cardinality(kept) \in Nat /\ Cardinality(kept) <= Len(q)
  <2> HIDE DEF kept
  <2>1. QED
    BY <1>1, <1>2, FS_Subset, FS_CardinalityType
<1>4. PICK f \in [1 .. Cardinality(kept) -> kept] :
        s = [i \in 1 .. Cardinality(kept) |-> q[f[i]]]
  BY DEF Cleaned
<1>5. Len(s) = Cardinality(kept)
  <2> HIDE DEF kept
  <2>1. QED
    BY <1>3, <1>4
<1>6. QED
  BY <1>3, <1>5

LEMMA LeftTyped ==
    ASSUME TypeOK, NEW n \in Nodes
    PROVE  LoopsLeft(n) \in Nat /\ BlocksLeft(n) \in Nat /\ StepsLeft(n) \in Nat
<1>1. node[n] \in NodeState
  BY DEF TypeOK
<1>2. node[n].next \in Nat /\ node[n].latest \in Nat /\ Len(node[n].q) \in Nat
  BY <1>1 DEF NodeState
<1>3. node[n].next <= node[n].latest => node[n].latest + 1 - node[n].next \in Nat
  BY <1>2
<1>4. StepsLeft(n) \in Nat
  BY DEF StepsLeft, StepsOf, Processing
<1>5. QED
  BY <1>2, <1>3, <1>4 DEF LoopsLeft, BlocksLeft

LEMMA LeftTypedNext ==
    ASSUME NEW n \in Nodes
    PROVE  TypeOK' => (LoopsLeft(n) \in Nat /\ BlocksLeft(n) \in Nat /\ StepsLeft(n) \in Nat)'
<1>1. TypeOK => LoopsLeft(n) \in Nat /\ BlocksLeft(n) \in Nat /\ StepsLeft(n) \in Nat
  BY LeftTyped
<1>2. QED
  BY <1>1, PTL

\* A step of process_new_block is one step less, and no more to do otherwise.
LEMMA ProcessAdvances ==
    ASSUME TypeOK, TypeOK', NEW n \in Nodes, RoleKept(n), CatchingUp(n), ProcessStep(n),
           NEW a, NEW b, NEW c, AsMuchLeft(n, a, b, c)
    PROVE  CatchingUp(n)' /\ LessLeft(n, a, b, c)'
<1>1. node[n] \in NodeState /\ db[n] \in DbState
  BY DEF TypeOK
<1>2. /\ a \in Nat /\ b \in Nat /\ c \in Nat
      /\ (LoopsLeft(n) \in Nat /\ BlocksLeft(n) \in Nat /\ StepsLeft(n) \in Nat)'
  BY LeftTyped, LeftTypedNext DEF AsMuchLeft
<1>3. node[n].ret \notin Processing
  BY DEF RoleKept
<1>4. /\ node'[n].ret = node[n].ret \/ node'[n].pc = node[n].ret
      /\ node'[n].next = node[n].next /\ node'[n].latest = node[n].latest
      /\ node[n].pc \in Processing
      /\ node'[n].pc \in Processing => node'[n].ret = node[n].ret
      /\ node'[n].pc \notin Processing => node'[n].pc = node[n].ret
      /\ StepsLeft(n)' < StepsLeft(n)
  <2>1. CASE SetHash(n)
    BY <1>1, <2>1 DEF SetHash, TypeOK, NodeState, Processing, StepsLeft, StepsOf
  <2>2. CASE SetHeight(n)
    BY <1>1, <2>2 DEF SetHeight, TypeOK, NodeState, Processing, StepsLeft, StepsOf
  <2>3. CASE Refresh(n)
    <3>1. PICK q : node' = [node EXCEPT ![n].unpaid = Issued(n),
                              ![n].hash = db[n].hash,
                              ![n].height = db[n].height,
                              ![n].q = q,
                              ![n].pc = IF n \in Masters THEN "store" ELSE "commit"]
      BY <2>3 DEF Refresh
    <3>2. /\ node'[n].pc \in {"store", "commit"} /\ node'[n].ret = node[n].ret
          /\ node'[n].next = node[n].next /\ node'[n].latest = node[n].latest
      BY <1>1, <3>1 DEF TypeOK, NodeState
    <3>3. QED
      BY <2>3, <3>2 DEF Refresh, Processing, StepsLeft, StepsOf
  <2>4. CASE Store(n)
    BY <1>1, <2>4 DEF Store, TypeOK, NodeState, Processing, StepsLeft, StepsOf
  <2>5. CASE Commit(n)
    <3>1. node'[n] = Returned(n) /\ node[n].pc = "commit"
      BY <2>5 DEF Commit, TypeOK
    <3>2. /\ node'[n].pc = node[n].ret /\ node'[n].next = node[n].next
          /\ node'[n].latest = node[n].latest
      BY <1>1, <3>1 DEF Returned, NodeState
    <3>3. QED
      BY <1>3, <3>1, <3>2 DEF Processing, StepsLeft, StepsOf
  <2>6. QED
    BY <2>1, <2>2, <2>3, <2>4, <2>5 DEF ProcessStep
<1>5. CallerPc(n)' = CallerPc(n)
  BY <1>3, <1>4 DEF CallerPc
<1>6. Len(node'[n].q) <= Len(node[n].q)
  <2>1. CASE Refresh(n)
    <3>1. PICK q \in Cleaned(node[n].q, db[n].height) :
            node' = [node EXCEPT ![n].unpaid = Issued(n),
                              ![n].hash = db[n].hash,
                              ![n].height = db[n].height,
                              ![n].q = q,
                              ![n].pc = IF n \in Masters THEN "store" ELSE "commit"]
      BY <2>1 DEF Refresh
    <3>2. node'[n].q = q
      BY <1>1, <3>1 DEF TypeOK, NodeState
    <3>3. QED
      BY <1>1, <3>2, CleanedShorter DEF NodeState, DbState
  <2>2. CASE ~ Refresh(n)
    <3>1. node'[n].q = node[n].q
      <4>1. CASE SetHash(n) \/ SetHeight(n) \/ Store(n)
        BY <1>1, <4>1 DEF SetHash, SetHeight, Store, TypeOK, NodeState
      <4>2. CASE Commit(n)
        BY <1>1, <4>2 DEF Commit, Returned, TypeOK, NodeState
      <4>3. QED
        BY <2>2, <4>1, <4>2 DEF ProcessStep
    <3>2. QED
      BY <1>1, <3>1 DEF NodeState
  <2>3. QED
    BY <2>1, <2>2
<1>7. LoopsLeft(n)' = a
  BY <1>5 DEF LoopsLeft, AsMuchLeft
<1>8. BlocksLeft(n)' = b \/ BlocksLeft(n)' < b
  <2>1. CASE CallerPc(n) \in {"askHeight", "fetch"}
    BY <1>4, <1>5, <2>1 DEF BlocksLeft, AsMuchLeft
  <2>2. CASE CallerPc(n) \notin {"askHeight", "fetch"}
    <3>1. BlocksLeft(n)' = Len(node'[n].q) /\ b = Len(node[n].q)
      BY <1>5, <2>2 DEF BlocksLeft, AsMuchLeft
    <3>2. QED
      BY <1>2, <1>6, <3>1
  <2>3. QED
    BY <2>1, <2>2
<1>9. LessLeft(n, a, b, c)'
  BY <1>2, <1>4, <1>7, <1>8 DEF LessLeft, AsMuchLeft
<1>10. QED
  BY <1>5, <1>9 DEF CatchingUp

\* A step of catchup ends it, or leaves fewer loops or blocks to do.
LEMMA CatchupAdvances ==
    ASSUME TypeOK, TypeOK', NodeChainAssumption, NEW n \in Nodes, CatchupStep(n),
           NEW a, NEW b, NEW c, AsMuchLeft(n, a, b, c)
    PROVE  Settled(n)' \/ (CatchingUp(n)' /\ LessLeft(n, a, b, c)')
<1>1. node[n] \in NodeState
  BY DEF TypeOK
<1>2. /\ a \in Nat /\ b \in Nat /\ c \in Nat
      /\ (LoopsLeft(n) \in Nat /\ BlocksLeft(n) \in Nat /\ StepsLeft(n) \in Nat)'
      /\ node[n].next \in Nat /\ node[n].latest \in Nat /\ node[n].q \in Seq(Block)
  BY <1>1, LeftTyped, LeftTypedNext DEF AsMuchLeft, NodeState
<1> USE DEF Processing
<1>3. CASE AskHeight(n)
  <2>1. PICK latest \in {0} \cup (IF Answering(Seed) THEN {db[Seed].height} ELSE {}) :
         node' = [node EXCEPT ![n] =
                    IF latest = 0
                    THEN [@ EXCEPT !.pc = AfterCatchup(n)]
                    ELSE [@ EXCEPT !.pc = "fetch", !.latest = latest,
                                   !.next = IF node[n].height = 0 THEN 1 ELSE node[n].height]]
    BY <1>3 DEF AskHeight
  <2>2. node'[n].pc \in {"fetch", AfterCatchup(n)}
    BY <1>1, <2>1 DEF TypeOK, NodeState
  <2>3. CASE node'[n].pc = "fetch"
    <3>1. LoopsLeft(n)' = 1 /\ a = 2 /\ CatchingUp(n)'
      BY <1>3, <2>3 DEF AskHeight, LoopsLeft, CallerPc, CatchingUp, AsMuchLeft
    <3>2. QED
      BY <1>2, <3>1 DEF LessLeft
  <2>4. CASE node'[n].pc = AfterCatchup(n)
    BY <2>4 DEF AfterCatchup, Settled
  <2>5. QED
    BY <2>2, <2>3, <2>4
<1>4. CASE Fetch(n)
  <2>1. PICK b0 \in Served(node[n].next) :
          node' = [node EXCEPT ![n] = [Entering(n, b0, "fetch", node[n].q)
                                         EXCEPT !.next = NextOf(@)]]
    BY <1>4 DEF Fetch
  <2>2. /\ node'[n].pc \in {"setHash", "refresh"} /\ node'[n].ret = "fetch"
        /\ node'[n].next = node[n].next + 1 /\ node'[n].latest = node[n].latest
    BY <1>1, <2>1 DEF TypeOK, NodeState, Entering, NextOf
  <2>3. node[n].pc = "fetch" /\ node[n].next <= node[n].latest
    BY <1>4 DEF Fetch
  <2>4. CallerPc(n) = "fetch" /\ CallerPc(n)' = "fetch"
    BY <2>2, <2>3 DEF CallerPc
  <2>5. LoopsLeft(n)' = a /\ CatchingUp(n)'
    BY <2>4 DEF LoopsLeft, CatchingUp, AsMuchLeft
  <2>6. b = node[n].latest + 1 - node[n].next
    BY <2>3, <2>4 DEF BlocksLeft, AsMuchLeft
  <2>7. BlocksLeft(n)' = (IF node[n].next + 1 <= node[n].latest
                          THEN node[n].latest + 1 - (node[n].next + 1) ELSE 0)
    BY <2>2, <2>4 DEF BlocksLeft
  <2>8. ASSUME NEW x \in Nat, NEW y \in Nat, x <= y
        PROVE  (IF x + 1 <= y THEN y + 1 - (x + 1) ELSE 0) < y + 1 - x
    BY <2>8
  <2>9. BlocksLeft(n)' < b
    BY <1>2, <2>3, <2>6, <2>7, <2>8
  <2>10. QED
    BY <1>2, <2>5, <2>9 DEF LessLeft
<1>5. CASE FetchFails(n)
  BY <1>1, <1>5 DEF FetchFails, Down, TypeOK, Settled
<1>6. CASE FetchDone(n)
  <2>1. node'[n].pc = "drain" /\ node[n].pc = "fetch"
    BY <1>1, <1>6 DEF FetchDone, TypeOK, NodeState
  <2>2. LoopsLeft(n)' = 0 /\ a = 1 /\ CatchingUp(n)'
    BY <2>1 DEF LoopsLeft, CallerPc, CatchingUp, AsMuchLeft
  <2>3. QED
    BY <1>2, <2>2 DEF LessLeft
<1>7. CASE Drain(n)
  <2>1. CASE node[n].q = << >>
    <3>1. node'[n].pc = AfterCatchup(n)
      BY <1>1, <1>7, <2>1 DEF Drain, DrainTo, TypeOK, NodeState
    <3>2. QED
      BY <3>1 DEF AfterCatchup, Settled
  <2>2. CASE node[n].q # << >>
    <3>1. node[n].pc = "drain" /\ node'[n] = Entering(n, Head(node[n].q), "drain", Tail(node[n].q))
      BY <1>7, <2>2 DEF Drain, DrainTo, TypeOK
    <3>2. /\ node'[n].pc \in {"setHash", "refresh"} /\ node'[n].ret = "drain"
          /\ node'[n].q = Tail(node[n].q)
      BY <1>1, <3>1 DEF NodeState, Entering
    <3>3. CallerPc(n) = "drain" /\ CallerPc(n)' = "drain"
      BY <3>1, <3>2 DEF CallerPc
    <3>4. LoopsLeft(n)' = a /\ CatchingUp(n)'
      BY <3>3 DEF LoopsLeft, CatchingUp, AsMuchLeft
    <3>5. BlocksLeft(n)' = Len(Tail(node[n].q)) /\ b = Len(node[n].q)
      BY <3>2, <3>3 DEF BlocksLeft, AsMuchLeft
    <3>6. BlocksLeft(n)' < b
      BY <1>2, <2>2, <3>5
    <3>7. QED
      BY <1>2, <3>4, <3>6 DEF LessLeft
  <2>3. QED
    BY <2>1, <2>2
<1>8. QED
  BY <1>3, <1>4, <1>5, <1>6, <1>7 DEF CatchupStep

\* What others do, and what is announced meanwhile, gives a node that catches up
\* nothing more to do.
LEMMA OthersWait ==
    ASSUME TypeOK, NEW n \in Nodes, CatchingUp(n), [Next]_vars,
           ~ ProcessStep(n), ~ CatchupStep(n), NEW a, NEW b, NEW c, AsMuchLeft(n, a, b, c)
    PROVE  Settled(n)' \/ (CatchingUp(n)' /\ AsMuchLeft(n, a, b, c)')
<1>1. node[n] \in NodeState
  BY DEF TypeOK
<1>2. ASSUME node'[n] = node[n]
      PROVE  CatchingUp(n)' /\ AsMuchLeft(n, a, b, c)'
  <2>1. CallerPc(n)' = CallerPc(n)
    BY <1>2 DEF CallerPc
  <2>2. QED
    BY <1>2, <2>1 DEF CatchingUp, AsMuchLeft, LoopsLeft, BlocksLeft, StepsLeft
<1>3. CASE UNCHANGED vars
  BY <1>2, <1>3 DEF vars
<1>4. CASE Next
  <2>1. PICK m \in Nodes :
          \/ ProcessStep(m) \/ Restart(m) \/ CatchupStep(m) \/ ReceiveNbn(m)
          \/ Boot(m) \/ Join(m) \/ Build(m) \/ Announce(m) \/ Hang(m)
          \/ AcquireWork(m) \/ DrainWork(m) \/ Sent(m) \/ Confirm(m) \/ Crash(m)
    BY <1>4 DEF Next, ProcessStep, CatchupStep
  <2>2. CASE m # n
    BY <1>2, <2>1, <2>2, OtherNodes
  <2>3. CASE m = n /\ Crash(n)
    BY <2>3 DEF Crash, Down, TypeOK, Settled
  <2>4. CASE m = n /\ ReceiveNbn(n)
    <3>1. /\ node'[n].pc = node[n].pc /\ node'[n].ret = node[n].ret
          /\ node'[n].next = node[n].next /\ node'[n].latest = node[n].latest
          /\ node[n].pc \in Awaiting
      BY <1>1, <2>4 DEF ReceiveNbn, TypeOK, NodeState
    <3>2. CallerPc(n)' = CallerPc(n) /\ CallerPc(n) \in {"askHeight", "fetch"}
      BY <3>1 DEF CallerPc, CatchingUp, Awaiting, Processing
    <3>3. QED
      BY <3>1, <3>2 DEF CatchingUp, AsMuchLeft, LoopsLeft, BlocksLeft, StepsLeft
  <2>5. CASE m = n /\ ~ Crash(n) /\ ~ ReceiveNbn(n)
    <3>1. node[n].pc \in {"down", "boot", "join", "build", "announce", "hang", "work",
                          "drainWork", "sent", "confirm"}
      BY <2>1, <2>5 DEF Restart, Boot, Join, Build, Announce, Hang, AcquireWork, DrainWork,
         DrainTo, Sent, Confirm
    <3>2. QED
      BY <3>1 DEF CatchingUp, CallerPc, Processing
  <2>6. QED
    BY <2>1, <2>2, <2>3, <2>4, <2>5
<1>5. QED
  BY <1>3, <1>4

\* A node that catches up never lacks a step (an assumption of the theorem below:
\* ENABLED is beyond the provers).
Runnable(n) ==
    CatchingUp(n) => IF StepsLeft(n) = 0 THEN ENABLED << CatchupStep(n) >>_vars
                                         ELSE ENABLED << ProcessStep(n) >>_vars

\* Whatever is announced meanwhile, and whether the seed answers, dies, restarts
\* or catches up itself: a node that catches up comes up, start() fails, or it
\* has less to do: fewer loops of catchup, fewer blocks, or fewer steps of
\* process_new_block.  These are natural numbers, so that it comes to an end,
\* which is CatchupEnds; that last induction is beyond the provers.
THEOREM CatchupComesCloser ==
    ASSUME NEW n \in Nodes, NEW a \in Nat, NEW b \in Nat, NEW c \in Nat
    PROVE  /\ Init /\ [][Next]_vars
           /\ WF_vars(ProcessStep(n)) /\ WF_vars(CatchupStep(n)) /\ []Runnable(n)
           => (CatchingUp(n) /\ AsMuchLeft(n, a, b, c)
                 ~> Settled(n) \/ (CatchingUp(n) /\ LessLeft(n, a, b, c)))
<1> DEFINE Goal == Settled(n) \/ (CatchingUp(n) /\ LessLeft(n, a, b, c))
<1>1. Init /\ [][Next]_vars => []IInv
  BY InvInit, InvStep, PTL
<1>2. IInv /\ IInv' /\ CatchingUp(n) /\ AsMuchLeft(n, a, b, c) /\ ProcessStep(n) => Goal'
  BY ProcessAdvances DEF IInv, NodeInv
<1>3. IInv /\ IInv' /\ CatchingUp(n) /\ AsMuchLeft(n, a, b, c) /\ CatchupStep(n) => Goal'
  BY CatchupAdvances, NodeChainAssumption DEF IInv
<1>4. IInv /\ IInv' /\ CatchingUp(n) /\ AsMuchLeft(n, a, b, c) /\ [Next]_vars
        => (CatchingUp(n) /\ AsMuchLeft(n, a, b, c))' \/ Goal'
  <2> SUFFICES ASSUME IInv, IInv', CatchingUp(n), AsMuchLeft(n, a, b, c), [Next]_vars
               PROVE  (CatchingUp(n) /\ AsMuchLeft(n, a, b, c))' \/ Goal'
    OBVIOUS
  <2>1. CASE ProcessStep(n) \/ CatchupStep(n)
    BY <1>2, <1>3, <2>1
  <2>2. CASE ~ ProcessStep(n) /\ ~ CatchupStep(n)
    BY <2>2, OthersWait DEF IInv
  <2>3. QED
    BY <2>1, <2>2
<1>5. Runnable(n) /\ CatchingUp(n) /\ AsMuchLeft(n, a, b, c)
        => IF c = 0 THEN ENABLED << CatchupStep(n) >>_vars ELSE ENABLED << ProcessStep(n) >>_vars
  BY DEF Runnable, AsMuchLeft
<1> DEFINE Idle == CatchingUp(n) /\ AsMuchLeft(n, a, b, c) /\ c = 0
           Busy == CatchingUp(n) /\ AsMuchLeft(n, a, b, c) /\ c # 0
<1>6. /\ IInv /\ IInv' /\ Idle /\ [Next]_vars => Idle' \/ Goal'
      /\ IInv /\ IInv' /\ Idle /\ CatchupStep(n) => Goal'
      /\ Runnable(n) /\ Idle => ENABLED << CatchupStep(n) >>_vars
  BY <1>3, <1>4, <1>5
<1>7. /\ IInv /\ IInv' /\ Busy /\ [Next]_vars => Busy' \/ Goal'
      /\ IInv /\ IInv' /\ Busy /\ ProcessStep(n) => Goal'
      /\ Runnable(n) /\ Busy => ENABLED << ProcessStep(n) >>_vars
  BY <1>2, <1>4, <1>5
<1>8. CatchingUp(n) /\ AsMuchLeft(n, a, b, c) => Idle \/ Busy
  OBVIOUS
<1>9. QED
  BY <1>1, <1>6, <1>7, <1>8, PTL
=============================================================================
