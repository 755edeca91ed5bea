------------------------------ MODULE SubBlocks ------------------------------
(***************************************************************************)
(* The vote counting a masternode does while it builds one block           *)
(* (nodes/masternode/contender.py: SubBlockContender, BlockContender).     *)
(*                                                                         *)
(* A delegate answers one round of work with a message: the sequence of    *)
(* its sub-block contenders (SBCs), one per master's batch, all signed by  *)
(* that delegate.  Of an SBC the counting only tells apart the result it   *)
(* claims (the Merkle root, `merkle_tree.leaves[0]`) and whether its       *)
(* signature and Merkle tree check out.                                    *)
(***************************************************************************)
EXTENDS Integers, Sequences, FiniteSets

CONSTANTS
    Delegates,      \* the verifying keys of the delegates
    Results,        \* the possible results (Merkle roots) of one batch
    NoResult,       \* `best_solution is None`
    Soundness,      \* what checking an SBC's signature and tree may yield
    Parallelism     \* execute_work's parallelism: sub-block numbers wrap here

ASSUME SubBlocksAssumption ==
    /\ IsFiniteSet(Delegates)
    /\ NoResult \notin Results
    /\ Soundness \subseteq BOOLEAN
    /\ Parallelism \in Nat \ {0}

\* A bug to catch: the ratio of a minority.
MinorityPercent == 33

\* The ratio of contender.py, in percent: votes / contacts < 0.66 fails.
RequiredPercent == 66

Sbc == [result : Results, sound : Soundness]

\* A signature kept with a solution: who signed, and in which pass of its own
\* loop.  The second part is a history variable: nothing in the code reads it.
Signature == [signer : Delegates, pass : Nat]

\* The number a delegate writes into the SBC at (1-based) position p.
Subblock(p) == (p - 1) % Parallelism

\* Indices of sub-blocks are 0-based, as in the code.
Indices(n) == 0 .. n - 1

----------------------------------------------------------------------------
(* One sub-block's contender. *)

Contender ==
    [signatures : [Results -> Seq(Signature)],
     best       : Results \cup {NoResult},
     responses  : Nat,
     received   : SUBSET Delegates]

\* A bug to catch: a counter that starts below zero.
ContenderFromMinusOne ==
    [signatures |-> [r \in Results |-> << >>],
     best       |-> NoResult,
     responses  |-> -1,
     received   |-> {}]

\* `None` in subblock_contenders: nothing received yet for this index.
EmptyContender ==
    [signatures |-> [r \in Results |-> << >>],
     best       |-> NoResult,
     responses  |-> 0,
     received   |-> {}]

Votes(c, r) == Len(c.signatures[r])

\* With one more vote, does r now lead?
Beats(c, r) == c.best = NoResult \/ Votes(c, r) + 1 > Votes(c, c.best)

\* A bug to catch: the newest result always becomes the best.
AddPotentialSolutionNewest(c, sig, r) ==
    [signatures |-> [c.signatures EXCEPT ![r] = Append(@, sig)],
     best       |-> r,
     responses  |-> c.responses + 1,
     received   |-> c.received \cup {sig.signer}]

AddPotentialSolution(c, sig, r) ==
    [signatures |-> [c.signatures EXCEPT ![r] = Append(@, sig)],
     best       |-> IF Beats(c, r) THEN r ELSE c.best,
     responses  |-> c.responses + 1,
     received   |-> c.received \cup {sig.signer}]

HasRequiredConsensus(c, contacts) ==
    /\ c.best # NoResult
    /\ 100 * Votes(c, c.best) >= RequiredPercent * contacts

----------------------------------------------------------------------------
(* The block's contenders, a function of the sub-block indices. *)

\* A bug to catch: the same signer is counted again.
AlreadyCountedNever(c, d) == FALSE

\* `sbc['signer'] in self.received[sbc['subblock']]`
AlreadyCounted(c, d) == d \in c.received

\* A bug to catch: the last sub-block is taken to be out of range.
AnswersShort(sbcs, i) == i < Parallelism /\ i + 1 < Len(sbcs)

\* Does the message carry an SBC for index i?  Sub-block numbers count up from
\* 0 and wrap at Parallelism, so the first one numbered i stands at i + 1; a
\* later one that wraps onto i meets a signer already received and is skipped.
Answers(sbcs, i) == i < Parallelism /\ i + 1 <= Len(sbcs)

\* A bug to catch: the first SBC of the message is taken for every sub-block.
AddSbcsFirst(cs, d, pass, sbcs) ==
    [i \in DOMAIN cs |->
        IF Answers(sbcs, i) /\ ~ AlreadyCounted(cs[i], d)
        THEN AddPotentialSolution(cs[i], [signer |-> d, pass |-> pass], sbcs[1].result)
        ELSE cs[i]]

\* The whole of add_sbcs for one message of delegate d.  SBCs beyond
\* total_subblocks are skipped, because only cs's indices are updated.
AddSbcs(cs, d, pass, sbcs) ==
    [i \in DOMAIN cs |->
        IF Answers(sbcs, i) /\ ~ AlreadyCounted(cs[i], d)
        THEN AddPotentialSolution(cs[i], [signer |-> d, pass |-> pass], sbcs[i + 1].result)
        ELSE cs[i]]

BlockHasConsensus(cs, contacts) ==
    \A i \in DOMAIN cs : HasRequiredConsensus(cs[i], contacts)

\* `responses < total_contacts` fails: some sub-block has heard from everyone.
AllResponded(cs, contacts) ==
    contacts = 0 \/ \E i \in DOMAIN cs : cs[i].responses >= contacts

\* get_current_best_block: what is best so far, however few signed it.
CurrentBestBlock(cs) == [i \in DOMAIN cs |-> cs[i].best]

----------------------------------------------------------------------------
(* What a contender should be, whatever came in and in which order. *)

\* The delegates that signed result r.
Voters(c, r) == {c.signatures[r][k].signer : k \in DOMAIN c.signatures[r]}

\* Each delegate received is in exactly one signature list, once, and the
\* response counter counts the delegates received.
OneVoteEach(c) ==
    /\ \A r, s \in Results : \A j \in DOMAIN c.signatures[r], k \in DOMAIN c.signatures[s] :
          c.signatures[r][j].signer = c.signatures[s][k].signer => r = s /\ j = k
    /\ c.received = UNION {Voters(c, r) : r \in Results}
    /\ c.responses = Cardinality(c.received)

\* best_solution, kept up to date vote by vote, is an argmax of the votes.
BestLeads(c) ==
    /\ c.best = NoResult => \A r \in Results : Votes(c, r) = 0
    /\ c.best # NoResult => \A r \in Results : Votes(c, r) <= Votes(c, c.best)
=============================================================================
