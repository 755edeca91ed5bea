------------------------------- MODULE Governance -------------------------------
(***************************************************************************)
(* What a committee votes about besides its seats: the price of stamps     *)
(* (stamp_cost.s.py), the split of rewards (rewards.s.py) and upgrades     *)
(* (upgrade.s.py), while motions change the seats the votes are counted    *)
(* against; and what nodes make of the results: the rewards of a block     *)
(* (rewards.py) and the end of an upgrade (upgrade.py).                    *)
(*                                                                         *)
(* The three contracts share nothing but the seats, so a behaviour holds a *)
(* session of one of them, or of the candidacies.  Where there are no      *)
(* candidates, only motions to remove a member change anything.            *)
(***************************************************************************)
EXTENDS Seats

CONSTANTS
    Others,         \* the members of the other committee, which stays as it is
    FirstRate,      \* initial_rate of stamps
    Rates,          \* rates that are voted for
    Unit,           \* a part of a split is a number of 1 / Unit percent
    FirstSplit,     \* initial_split
    Splits,         \* splits that are voted for
    ElectionLength, \* election_max_length, in days
    ElectionWindow, \* the same for upgrades
    Stamps,         \* numbers of stamps a block may use
    Dust,           \* the smallest unit of tau is 1 / Dust (DUST_EXPONENT)
    MaxNow          \* bound: the day on which the model ends, for each session

\* The sum of the parts of a split; there are always four.
SumOfParts(parts) == parts[1] + parts[2] + parts[3] + parts[4]

ASSUME GovernanceAssumption ==
    /\ IsFiniteSet(Others) /\ Others \cap Accounts = {}
    /\ FirstRate \in Nat \ {0} /\ Rates \subseteq Nat \ {0}
    /\ Unit \in Nat \ {0}
    /\ FirstSplit \in [1 .. 4 -> Nat] /\ SumOfParts(FirstSplit) = 100 * Unit
    \* validate_vote: int(o) >= 0, which rounds towards zero, so that a part may be
    \* below zero by less than one percent.
    /\ \A split \in Splits :
         /\ split \in [1 .. 4 -> Int] /\ \A i \in 1 .. 4 : split[i] > -Unit
         /\ SumOfParts(split) = 100 * Unit
    /\ {ElectionLength, ElectionWindow, Dust} \cup Stamps \subseteq Nat

VARIABLES
    session,    \* what this behaviour is about
    stamp,      \* stamp_cost's S
    split,      \* rewards' S
    upgrade,    \* upgrade_state and has_voted
    reward      \* the rewards of the last block, in dust, and what they were made of

vars == << now, seatsVars, session, stamp, split, upgrade, reward >>

Voters == Accounts \cup Others
Sessions == {"candidacies", "stamp_cost", "rewards", "upgrade"}
ElectionNumbers == [count : Nat, minimum : Nat, start : Nat \cup {None}, hasVoted : SUBSET Voters]

\* Types, and the shape of values that elections compute.
TypeOK ==
    /\ SeatsTypeOK
    /\ session \in Sessions
    /\ stamp \in [value : Nat \ {0}, total : Nat, votes : SUBSET Voters, election : ElectionNumbers]
    /\ split \in [value : [1 .. 4 -> Int], votes : [1 .. 4 -> Int], election : ElectionNumbers]
    /\ upgrade \in [locked : BOOLEAN, consensus : BOOLEAN, votes : Nat, voters : Nat,
                    started : Nat \cup {None}, hasVoted : SUBSET Voters, voted : SUBSET Voters]
    /\ reward \in [stamps : Nat, rate : Nat \ {0}, split : [1 .. 4 -> Int], paid : Int]

NoElection(count) == [count |-> count, minimum |-> 0, start |-> None, hasVoted |-> {}]

Init ==
    /\ SeatsInit
    /\ session \in Sessions
    /\ stamp = [value |-> FirstRate, total |-> FirstRate, votes |-> {}, election |-> NoElection(1)]
    /\ split = [value |-> FirstSplit, votes |-> << 0, 0, 0, 0 >>, election |-> NoElection(0)]
    /\ upgrade = [locked |-> FALSE, consensus |-> FALSE, votes |-> 0, voters |-> 0,
                  started |-> None, hasVoted |-> {}, voted |-> {}]
    /\ reward = [stamps |-> 0, rate |-> FirstRate, split |-> FirstSplit, paid |-> 0]

----------------------------------------------------------------------------
(* The election that stamp_cost and rewards have in common *)

IsVoter(vk) == vk \in Seated \cup Others
TotalNodes == Len(members) + Cardinality(Others)

\* A new election, as the first vote of it opens it; `count` is what it starts from.
Opened(count) ==
    [count |-> count, minimum |-> ((TotalNodes * 2) \div 3) + 1, start |-> now, hasVoted |-> {}]

\* tally_vote's part in it.
Tallied(election, vk) == [election EXCEPT !.count = @ + 1, !.hasVoted = @ \cup {vk}]

ElectionIsOver(election) ==
    election.count >= election.minimum \/ now - election.start >= ElectionLength

Closed(election) == [election EXCEPT !.start = None]

----------------------------------------------------------------------------
(* stamp_cost *)

\* A bug to catch: the count starts at 0, as in rewards.
CountFromZero == 0
FirstCount == 1

\* The vote of a voter for a rate, on the election and the total so far.  Who
\* has voted is looked up in 'votes', which nothing writes.
VoteStampCost(vk, rate) ==
    LET opens == stamp.election.start = None
        election == Tallied(IF opens THEN Opened(FirstCount) ELSE stamp.election, vk)
        total == rate + IF opens THEN stamp.value ELSE stamp.total
        over == ~opens /\ ElectionIsOver(election)
        mean == total \div election.count
    IN  /\ IsVoter(vk)
        /\ stamp.value <= 2 * rate /\ rate <= 2 * stamp.value
        /\ vk \notin stamp.votes
        /\ stamp' = [stamp EXCEPT !.total = total,
                        !.election = IF over THEN Closed(election) ELSE election,
                        !.value = IF ~over THEN @ ELSE IF mean = 0 THEN 1 ELSE mean]
        /\ UNCHANGED << now, seatsVars, session, split, upgrade, reward >>

----------------------------------------------------------------------------
(* rewards *)

\* A bug to catch: the votes of the last election stay in the count.
VotesStay == split.votes
VotesReset == << 0, 0, 0, 0 >>

VoteRewards(vk, shares) ==
    LET opens == split.election.start = None
        before == IF opens THEN Opened(0) ELSE split.election
        election == Tallied(before, vk)
        votes == [i \in 1 .. 4 |-> shares[i] + (IF opens THEN VotesReset ELSE split.votes)[i]]
        over == ~opens /\ ElectionIsOver(election)
    IN  /\ IsVoter(vk)
        /\ vk \notin before.hasVoted
        /\ split' = [split EXCEPT !.votes = votes,
                        !.election = IF over THEN Closed(election) ELSE election,
                        !.value = IF over THEN [i \in 1 .. 4 |-> IF votes[i] = 0 THEN Unit ELSE votes[i]] ELSE @]
        /\ UNCHANGED << now, seatsVars, session, stamp, upgrade, reward >>

(* rewards.py.  A ratio is a part of split.value over the sum of its parts. *)

\* ROUND_DOWN: the quotient, towards zero.
Truncated(n, m) == IF n < 0 THEN -((-n) \div m) ELSE n \div m

\* A bug to catch: rounding up to the next unit of dust.
ParticipantRewardUp(share, participants, stamps) ==
    Truncated(share * stamps * Dust, SumOfParts(split.value) * participants * stamp.value) + 1

\* calculate_participant_reward, in whole dust.
ParticipantReward(share, participants, stamps) ==
    Truncated(share * stamps * Dust, SumOfParts(split.value) * participants * stamp.value)

\* issue_rewards: to the members of both committees, once for every entry in the
\* lists, and to the foundation.  An empty committee makes it divide by zero.
IssueRewards(stamps) ==
    /\ members # << >> /\ Others # {}
    /\ reward' = [stamps |-> stamps, rate |-> stamp.value, split |-> split.value,
                  paid |-> Len(members) * ParticipantReward(split.value[1], Len(members), stamps)
                           + Cardinality(Others) * ParticipantReward(split.value[2], Cardinality(Others), stamps)
                           + ParticipantReward(split.value[4], 1, stamps)]
    /\ UNCHANGED << now, seatsVars, session, stamp, split, upgrade >>

----------------------------------------------------------------------------
(* upgrade *)

\* The window of the vote under way is over: all is cleared.
Elapsed == upgrade.started # None /\ now - upgrade.started > ElectionWindow

Cleared ==
    [upgrade EXCEPT !.locked = FALSE, !.votes = 0, !.voters = 0, !.started = None, !.hasVoted = {}, !.voted = {}]

\* A bug to catch: the votes of an earlier vote stay.
StartedOnOldVotes(state) ==
    [state EXCEPT !.locked = TRUE, !.voters = TotalNodes, !.started = now, !.voted = {}]

\* start_vote.
Started(state) ==
    [state EXCEPT !.locked = TRUE, !.votes = 0, !.voters = TotalNodes, !.started = now, !.voted = {}]

Enough(state) == state.votes + 1 >= (state.voters * 2) \div 3

\* `voted` is history: who has voted in the vote under way, the deciding vote included.
VoteUpgrade(vk) ==
    LET state == IF Elapsed THEN Cleared ELSE upgrade
        counted == LET s == IF state.locked THEN state ELSE Started(state)
                   IN  [s EXCEPT !.votes = @ + 1, !.hasVoted = @ \cup {vk}, !.voted = @ \cup {vk}]
    IN  /\ vk \notin upgrade.hasVoted /\ IsVoter(vk) /\ ~upgrade.consensus
        /\ upgrade' = IF state.locked /\ Enough(state)
                      THEN [state EXCEPT !.consensus = TRUE, !.hasVoted = {}, !.voted = @ \cup {vk}]
                      ELSE counted
        /\ UNCHANGED << now, seatsVars, session, stamp, split, reward >>

\* version_check, at the next turn of the node's loop: whatever comes of the
\* upgrade, the vote is unlocked.
VersionCheck ==
    /\ upgrade.consensus
    /\ upgrade' = [upgrade EXCEPT !.consensus = FALSE, !.locked = FALSE]
    /\ UNCHANGED << now, seatsVars, session, stamp, split, reward >>

----------------------------------------------------------------------------
Tick == now < MaxNow[session] /\ now' = now + 1 /\ UNCHANGED << seatsVars, session, stamp, split, upgrade, reward >>

SeatsStep ==
    /\ \/ session = "candidacies" /\ (Motions(Kinds) \/ Candidacies)
       \/ session # "candidacies" /\ Motions({"remove_member"})
    /\ UNCHANGED << session, stamp, split, upgrade, reward >>

PolicyStep ==
    \/ session = "stamp_cost" /\ \E vk \in Voters, rate \in Rates : VoteStampCost(vk, rate)
    \/ session = "rewards" /\ \E vk \in Voters, shares \in Splits : VoteRewards(vk, shares)
    \/ session = "rewards" /\ \E stamps \in Stamps : IssueRewards(stamps)
    \/ session = "upgrade" /\ \E vk \in Voters : VoteUpgrade(vk)
    \/ session = "upgrade" /\ VersionCheck

Next == Tick \/ SeatsStep \/ PolicyStep

Spec == Init /\ [][Next]_vars

----------------------------------------------------------------------------
\* However the votes fall, and whatever happens to the seats meanwhile, one
\* election neither more than doubles the price of stamps nor more than halves it.
PriceMovesByTwo == [][stamp'.value <= 2 * stamp.value /\ stamp.value <= 2 * stamp'.value]_vars

\* The assertion 'Already voted!': every vote of an election under way is that of
\* another voter.
StampVotesOnce ==
    stamp.election.start # None => stamp.election.count = FirstCount + Cardinality(stamp.election.hasVoted)

\* The votes for a split add up to 100 for every voter of the election, each of
\* whom voted once.
SplitTallied ==
    split.election.start # None => SumOfParts(split.votes) = 100 * Unit * Cardinality(split.election.hasVoted)

\* How far each part of a split is below zero.
Below(parts) == [i \in 1 .. 4 |-> IF parts[i] < 0 THEN -parts[i] ELSE 0]

\* Whoever sits and however the split was voted, a block pays no more than the tau
\* its stamps cost - and what parts below zero add to the other shares: all four
\* make up 100 percent, so that with -0.5 percent to burn, which int(o) >= 0 lets
\* pass (rewards.s.py:107), more is paid than the stamps cost.
PaidOutOfStamps ==
    LET whole == SumOfParts(reward.split)
    IN  (reward.paid * reward.rate) * whole <= (reward.stamps * Dust) * (whole + SumOfParts(Below(reward.split)))

\* Nodes upgrade only when two thirds (rounded down) of the nodes there were when
\* the vote began have voted for it, each once, within the window.
UpgradeByQuorum ==
    upgrade.consensus => Cardinality(upgrade.voted) >= (upgrade.voters * 2) \div 3
================================================================================
