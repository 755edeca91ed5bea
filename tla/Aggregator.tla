----------------------------- MODULE Aggregator -----------------------------
(***************************************************************************)
(* The masternodes' block builders: each masternode's Aggregator           *)
(* (nodes/masternode/contender.py) with its SBC inbox, inside the part of  *)
(* Masternode.loop that drives it (nodes/masternode/masternode.py).        *)
(*                                                                         *)
(*   "send"    before gather_subblocks: work is being packed and sent      *)
(*   "gather"  inside gather_subblocks' polling loop                       *)
(*   "hang"    the block is built; the loop hangs and multicasts it, and   *)
(*             then clears the inbox                                       *)
(*                                                                         *)
(* The delegates are the environment: in each pass of its loop a delegate  *)
(* executes work and multicasts one message of SBCs.  Messages to          *)
(* different masternodes travel independently, in any order, and may never *)
(* arrive (zmq gives no more); a copy that stays in flight is a lost one.  *)
(* Everything a masternode does between two awaits is one action.          *)
(***************************************************************************)
EXTENDS SubBlocks

CONSTANTS
    Masters,        \* the masternodes
    MasterCounts,   \* the sizes the masternode membership may have
    ContactCounts,  \* the numbers of delegates a masternode may have an IP of
    MaxPasses,      \* bound: passes of each delegate's loop
    MaxGathers      \* bound: gathers of each masternode

ASSUME AggregatorAssumption ==
    /\ MasterCounts \subseteq Nat
    /\ ContactCounts \subseteq Nat
    /\ MaxPasses \in Nat
    /\ MaxGathers \in Nat

VARIABLES
    sent,       \* sent[d]: what delegate d multicast, one entry per pass
    net,        \* messages in flight to a masternode's contender service
    inbox,      \* inbox[m]: sbc_inbox.q
    expected,   \* expected[m]: sbc_inbox.expected_subblocks
    phase,      \* phase[m]: where Masternode.loop is
    contacts,   \* contacts[m]: total_contacts of the gather under way
    contenders, \* contenders[m]: the BlockContender's contenders, by index
    expired,    \* expired[m]: seconds_to_timeout have passed in this gather
    gathers,    \* gathers[m]: gathers begun
    taken,      \* history: messages popped from inbox[m] in this gather
    takenBefore \* history: messages popped in earlier gathers

vars == << sent, net, inbox, expected, phase, contacts, contenders, expired,
           gathers, taken, takenBefore >>
masterVars == << expected, phase, contacts, contenders, expired, gathers, taken, takenBefore >>

\* A message is named by its sender and the pass it was sent in; what it
\* carries is sent[signer][pass].
Message == [signer : Delegates, pass : Nat]

Content(msg) == sent[msg.signer][msg.pass]

----------------------------------------------------------------------------
(* sbc_is_valid for position p: the number is in order, the proof is sound. *)
SbcIsValid(sbcs, p) == Subblock(p) = p - 1 /\ sbcs[p].sound

\* How many SBCs process_message accepts before it meets an invalid one.
ValidPrefix(sbcs) ==
    Cardinality({n \in DOMAIN sbcs : \A p \in 1 .. n : SbcIsValid(sbcs, p)})

\* What process_message appends: the append stands inside the loop over the
\* SBCs, so the message enters once per valid SBC before the first invalid one.
Queued(m, msg) ==
    IF Len(Content(msg)) # expected[m]
    THEN << >>
    ELSE [k \in 1 .. ValidPrefix(Content(msg)) |-> msg]

----------------------------------------------------------------------------
Init ==
    /\ sent = [d \in Delegates |-> << >>]
    /\ net = {}
    /\ inbox = [m \in Masters |-> << >>]
    /\ expected = [m \in Masters |-> 4]
    /\ phase = [m \in Masters |-> "send"]
    /\ contacts = [m \in Masters |-> 0]
    /\ contenders = [m \in Masters |-> [i \in {} |-> EmptyContender]]
    /\ expired = [m \in Masters |-> FALSE]
    /\ gathers = [m \in Masters |-> 0]
    /\ taken = [m \in Masters |-> {}]
    /\ takenBefore = [m \in Masters |-> {}]

\* A delegate executes the batches of n masternodes and multicasts its SBCs.
\* Results may differ between delegates: the order of batches with equal
\* timestamps, shims for missing batches and tardy workers make them differ.
Execute(d) ==
    /\ Len(sent[d]) < MaxPasses
    /\ \E n \in MasterCounts : \E sbcs \in [1 .. n -> Sbc] :
         sent' = [sent EXCEPT ![d] = Append(@, sbcs)]
    /\ net' = net \cup {[to |-> m, msg |-> [signer |-> d, pass |-> Len(sent[d]) + 1]] : m \in Masters}
    /\ UNCHANGED << inbox, masterVars >>

\* SBCInbox.process_message, called by the router between two awaits.
ReceiveSbcs(m) ==
    \E packet \in net :
        /\ packet.to = m
        /\ net' = net \ {packet}
        /\ inbox' = [inbox EXCEPT ![m] = @ \o Queued(m, packet.msg)]
        /\ UNCHANGED << sent, masterVars >>

\* get_work_processed enters gather_subblocks with the masternode count of
\* its state and the number of delegates whose IP it knows.
StartGather(m) ==
    /\ phase[m] = "send"
    /\ gathers[m] < MaxGathers
    /\ \E n \in MasterCounts, k \in ContactCounts :
         /\ expected' = [expected EXCEPT ![m] = n]
         /\ contacts' = [contacts EXCEPT ![m] = k]
         /\ contenders' = [contenders EXCEPT ![m] = [i \in Indices(n) |-> EmptyContender]]
    /\ expired' = [expired EXCEPT ![m] = FALSE]
    /\ phase' = [phase EXCEPT ![m] = "gather"]
    /\ gathers' = [gathers EXCEPT ![m] = @ + 1]
    /\ taken' = [taken EXCEPT ![m] = {}]
    /\ takenBefore' = [takenBefore EXCEPT ![m] = @ \cup taken[m]]
    /\ UNCHANGED << sent, net, inbox >>

\* A bug to catch: the clock is not part of the loop's condition.
PollingUntilFull(m) ==
    /\ ~ BlockHasConsensus(contenders[m], contacts[m])
    /\ ~ AllResponded(contenders[m], contacts[m])

\* The condition of the polling loop.
Polling(m) ==
    /\ ~ BlockHasConsensus(contenders[m], contacts[m])
    /\ ~ AllResponded(contenders[m], contacts[m])
    /\ ~ expired[m]

\* One turn of the polling loop with something in the inbox: receive_sbc does
\* not suspend then, so popping and add_sbcs are one step.
Poll(m) ==
    /\ phase[m] = "gather"
    /\ Polling(m)
    /\ inbox[m] # << >>
    /\ LET msg == Head(inbox[m]) IN
        /\ contenders' = [contenders EXCEPT ![m] = AddSbcs(@, msg.signer, msg.pass, Content(msg))]
        /\ taken' = [taken EXCEPT ![m] = @ \cup {msg}]
    /\ inbox' = [inbox EXCEPT ![m] = Tail(@)]
    /\ UNCHANGED << sent, net, expected, phase, contacts, expired, gathers, takenBefore >>

\* The clock passes started + seconds_to_timeout.
Expire(m) ==
    /\ phase[m] = "gather"
    /\ ~ expired[m]
    /\ expired' = [expired EXCEPT ![m] = TRUE]
    /\ UNCHANGED << sent, net, inbox, expected, phase, contacts, contenders, gathers, taken, takenBefore >>

\* The loop condition fails: the block is built from the best solutions.
Finish(m) ==
    /\ phase[m] = "gather"
    /\ ~ Polling(m)
    /\ phase' = [phase EXCEPT ![m] = "hang"]
    /\ UNCHANGED << sent, net, inbox, expected, contacts, contenders, expired, gathers, taken, takenBefore >>

\* A bug to catch: sbc_inbox.q.clear() is forgotten.
NotCleared(q) == q

\* `self.aggregator.sbc_inbox.q.clear()`, the last statement of the loop.
Cleared(q) == << >>

\* hang() and the multicast end: the loop starts over.
Resume(m) ==
    /\ phase[m] = "hang"
    /\ inbox' = [inbox EXCEPT ![m] = Cleared(@)]
    /\ phase' = [phase EXCEPT ![m] = "send"]
    /\ UNCHANGED << sent, net, expected, contacts, contenders, expired, gathers, taken, takenBefore >>

\* The block masternode m built in the gather it has just ended.
Block(m) == CurrentBestBlock(contenders[m])

Next ==
    \/ \E d \in Delegates : Execute(d)
    \/ \E m \in Masters :
        \/ ReceiveSbcs(m)
        \/ StartGather(m)
        \/ Poll(m)
        \/ Expire(m)
        \/ Finish(m)
        \/ Resume(m)

\* The event loop keeps running a gather that can go on, and time passes.
Fairness ==
    \A m \in Masters : WF_vars(Poll(m)) /\ WF_vars(Expire(m)) /\ WF_vars(Finish(m))

Spec == Init /\ [][Next]_vars /\ Fairness

----------------------------------------------------------------------------
(* Properties. *)

\* Every variable holds values of its type; sub-block indices are naturals and
\* every contender is well formed, whatever the membership counts were.
TypeOK ==
    /\ sent \in [Delegates -> Seq(Seq(Sbc))]
    /\ net \subseteq [to : Masters, msg : Message]
    /\ inbox \in [Masters -> Seq(Message)]
    /\ expected \in [Masters -> Nat]
    /\ phase \in [Masters -> {"send", "gather", "hang"}]
    /\ contacts \in [Masters -> Nat]
    /\ DOMAIN contenders = Masters
    /\ \A m \in Masters :
         /\ contenders[m] \in [DOMAIN contenders[m] -> Contender]
         /\ DOMAIN contenders[m] \subseteq Nat
    /\ expired \in [Masters -> BOOLEAN]
    /\ gathers \in [Masters -> Nat]
    /\ taken \in [Masters -> SUBSET Message]
    /\ takenBefore \in [Masters -> SUBSET Message]

\* However often a message was queued (contender.py:31 queues it once per SBC)
\* and in whatever order messages come, each delegate's vote is in exactly one
\* signature list of a sub-block, once, and total_responses counts the voters.
TallyExact ==
    \A m \in Masters : \A i \in DOMAIN contenders[m] : OneVoteEach(contenders[m][i])

\* The incremental update of best_solution really computes an argmax: no
\* result of a sub-block has more votes than the one that would enter the block.
BestIsMaximal ==
    \A m \in Masters : \A i \in DOMAIN contenders[m] : BestLeads(contenders[m][i])

\* A vote counted for result r of sub-block i is that of a delegate which, in
\* the pass recorded with it, claimed r for sub-block i and nothing else.
Vouched ==
    \A m \in Masters : \A i \in DOMAIN contenders[m] : \A r \in Results :
        \A k \in DOMAIN contenders[m][i].signatures[r] :
            LET sig == contenders[m][i].signatures[r][k]
            IN  /\ sig.pass \in 1 .. Len(sent[sig.signer])
                /\ i + 1 \in 1 .. Len(sent[sig.signer][sig.pass])
                /\ sent[sig.signer][sig.pass][i + 1].result = r

\* Sub-block i of m has required consensus among all the delegates.
Decided(m, i) ==
    /\ contacts[m] >= Cardinality(Delegates)
    /\ HasRequiredConsensus(contenders[m][i], contacts[m])

\* The winning signatures of sub-block i of m all come from passes numbered p.
SignedInPass(m, i, p) ==
    LET c == contenders[m][i]
    IN  \A k \in DOMAIN c.signatures[c.best] : c.signatures[c.best][k].pass = p

\* Quorum intersection: two masternodes that reach required consensus of all
\* delegates on a sub-block, on votes of the same pass, agree on its result.
\* Votes left over from another pass are what can break it (nothing checks the
\* `previous` of an SBC), hence the condition on the pass.
Agreement ==
    \A a, b \in Masters : \A i \in DOMAIN contenders[a] \cap DOMAIN contenders[b] :
        \A p \in 1 .. MaxPasses :
            (Decided(a, i) /\ Decided(b, i) /\ SignedInPass(a, i, p) /\ SignedInPass(b, i, p))
                => contenders[a][i].best = contenders[b][i].best

\* A popped message has been popped for this block only: copies that are still
\* queued when a block is done never reach the count of a later block.
CountedOnce == \A m \in Masters : taken[m] \cap takenBefore[m] = {}

\* The sub-blocks of a block hear the same delegates, so that `responses`, the
\* maximum over the sub-blocks, may stand for each of them.  It needs that no
\* popped message is shorter than the block (the length is compared when the
\* message is queued, against the previous block's expected_subblocks), and
\* no more sub-blocks than the numbers an SBC can carry.
HeardAlike ==
    \A m \in Masters :
        (\A msg \in taken[m] : Len(Content(msg)) >= Cardinality(DOMAIN contenders[m]))
            => \A i \in DOMAIN contenders[m] :
                 i < Parallelism => contenders[m][i].received = {msg.signer : msg \in taken[m]}

\* "Make sure all the contenders are valid" (contender.py:23): no message waits
\* in the inbox that has an invalid SBC.  The code does not ensure it.
InboxHoldsOnlyValid ==
    \A m \in Masters : \A k \in DOMAIN inbox[m] :
        LET sbcs == Content(inbox[m][k]) IN \A p \in DOMAIN sbcs : SbcIsValid(sbcs, p)

\* Once required consensus of all delegates is reached on a sub-block, votes
\* that still come in while the others are being decided never change it.
DecisionStable ==
    [][\A m \in Masters : \A i \in DOMAIN contenders[m] :
         Decided(m, i) /\ gathers'[m] = gathers[m]
            => contenders'[m][i].best = contenders[m][i].best]_vars

\* The timeout ends every gather, however few delegates answer.
GatherEnds == \A m \in Masters : phase[m] = "gather" ~> phase[m] = "hang"
=============================================================================
