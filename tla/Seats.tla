--------------------------------- MODULE Seats ---------------------------------
(***************************************************************************)
(* The contracts that decide who sits in one committee: members.s.py (the  *)
(* seats and the motions to change them), elect_members.s.py (candidates,  *)
(* votes of no confidence, seats given up) and currency.s.py (stakes and   *)
(* fees), which reach one another through election_house.s.py.             *)
(*                                                                         *)
(* A call is one step.  One that fails an assertion, or raises, changes    *)
(* nothing: it is no step.                                                 *)
(***************************************************************************)
EXTENDS Integers, SequencesExt, FiniteSetsExt

CONSTANTS
    Accounts,       \* the accounts that call
    Founders,       \* initial_members, a sequence of accounts
    Minimum,        \* minimum_nodes
    MemberCost,     \* member_cost: the stake of a candidate
    VoteCost,       \* the fee of a vote, STAMP_COST / stamp cost
    Funds,          \* what each account has, and has approved, at first
    Treasury,       \* the elect_members contract's own account
    Blackhole,      \* the account fees are sent to
    None            \* Python's None

ASSUME SeatsAssumption ==
    /\ IsFiniteSet(Accounts)
    /\ Founders \in Seq(Accounts)
    /\ Minimum \in Nat /\ Funds \in [Accounts -> Nat]
    /\ {MemberCost, VoteCost} \subseteq Nat \ {0}
    /\ Treasury # Blackhole /\ {Treasury, Blackhole, None} \cap Accounts = {}

VARIABLES
    now,            \* the block's time, in days
    members,        \* S['members'], a list
    motion,         \* the current motion and the positions on it
    candidate,      \* candidate_state and top_candidate
    confidence,     \* no_confidence_state and last_candidate
    relinquishing,  \* to_be_relinquished
    coins,          \* currency.balances: what accounts have, and have approved to Treasury
    lapsed          \* history: how many stakes were lost, and who lost a seat but not the candidacy for losing it

seatsVars == << members, motion, candidate, confidence, relinquishing, coins, lapsed >>

Kinds == {"none", "remove_member", "add_seat", "remove_seat"}
NoMotion(opened) ==
    [kind |-> "none", who |-> None, opened |-> opened, yays |-> 0, nays |-> 0,
     positions |-> [a \in Accounts |-> "none"]]

SeatsTypeOK ==
    /\ now \in Nat
    /\ members \in Seq(Accounts)
    /\ motion \in [kind : Kinds, who : Accounts \cup {None}, opened : Nat, yays : Nat, nays : Nat,
                   positions : [Accounts -> {"none", "yes", "no"}]]
    /\ candidate \in [registered : SUBSET Accounts, votes : [Accounts -> Nat \cup {None}],
                      lastVoted : [Accounts -> Nat \cup {None}], top : Accounts \cup {None}]
    /\ confidence \in [votes : [Accounts -> Nat \cup {None}],
                       lastVoted : [Accounts -> Nat \cup {None}], last : Accounts \cup {None}]
    /\ relinquishing \in Accounts \cup {None}
    /\ coins \in [balance : [Accounts \cup {Treasury, Blackhole} -> Nat], approved : [Accounts -> Nat]]
    /\ lapsed \in [stakes : Nat, ghosts : SUBSET Accounts]

SeatsInit ==
    /\ now = 0
    /\ members = Founders
    /\ motion = NoMotion(0)
    /\ LET nobody == [a \in Accounts |-> None]
       IN  /\ candidate = [registered |-> {}, votes |-> nobody, lastVoted |-> nobody, top |-> None]
           /\ confidence = [votes |-> nobody, lastVoted |-> nobody, last |-> None]
    /\ relinquishing = None
    /\ coins = [balance |-> [a \in Accounts \cup {Treasury, Blackhole} |-> IF a \in Accounts THEN Funds[a] ELSE 0],
                approved |-> Funds]
    /\ lapsed = [stakes |-> 0, ghosts |-> {}]

Seated == ToSet(members)

----------------------------------------------------------------------------
(* currency, as elect_members calls it *)

\* A bug to catch: nobody looks at what the owner has approved and has.
TransferFromUnchecked(amount, to, owner) ==
    coins' = [coins EXCEPT !.approved[owner] = @ - amount,
                           !.balance[owner] = @ - amount, !.balance[to] = @ + amount]

\* transfer_from(amount, to, owner), spent by Treasury.
TransferFrom(amount, to, owner) ==
    /\ coins.approved[owner] >= amount /\ coins.balance[owner] >= amount
    /\ coins' = [coins EXCEPT !.approved[owner] = @ - amount,
                              !.balance[owner] = @ - amount, !.balance[to] = @ + amount]

\* transfer(amount, to), sent by Treasury.
Transfer(amount, to) ==
    /\ coins.balance[Treasury] >= amount
    /\ coins' = [coins EXCEPT !.balance[Treasury] = @ - amount, !.balance[to] = @ + amount]

----------------------------------------------------------------------------
(* elect_members *)

Register(a) ==
    /\ a \notin candidate.registered
    /\ TransferFrom(MemberCost, Treasury, a)
    /\ candidate' = [candidate EXCEPT !.registered = @ \cup {a}, !.votes[a] = 0,
                                      !.top = IF @ = None THEN a ELSE @]
    /\ UNCHANGED << now, members, motion, confidence, relinquishing, lapsed >>

\* A bug to catch: members may take their stake out.
MayUnregisterAnyone(a) == a \in candidate.registered

\* unregister's assertions.
MayUnregister(a) == a \in candidate.registered /\ a \notin Seated

\* A bug to catch: the stake is paid back, the registration stays.
StillRegistered(a) == candidate.registered

WithoutRegistration(a) == candidate.registered \ {a}

Unregister(a) ==
    /\ MayUnregister(a)
    /\ Transfer(MemberCost, a)
    /\ candidate' = [candidate EXCEPT !.registered = WithoutRegistration(a), !.votes[a] = 0]
    /\ UNCHANGED << now, members, motion, confidence, relinquishing, lapsed >>

\* "Voting again too soon."
MayVote(lastVoted, a) == lastVoted[a] # None => now - lastVoted[a] > 1

OneMore(votes) == IF votes = None THEN 1 ELSE votes + 1

\* Comparing with None raises, so the call would fail.
VoteCandidate(a, address) ==
    /\ address \in candidate.registered
    /\ MayVote(candidate.lastVoted, a)
    /\ TransferFrom(VoteCost, Blackhole, a)
    /\ LET votes == [candidate.votes EXCEPT ![address] = OneMore(@)]
           top == candidate.top
       IN  /\ top # None => votes[top] # None
           /\ candidate' = [candidate EXCEPT !.votes = votes, !.lastVoted[a] = now,
                                !.top = IF top # None /\ votes[address] > votes[top] THEN address ELSE top]
    /\ UNCHANGED << now, members, motion, confidence, relinquishing, lapsed >>

VoteNoConfidence(a, address) ==
    /\ address \in Seated
    /\ MayVote(confidence.lastVoted, a)
    /\ TransferFrom(VoteCost, Blackhole, a)
    /\ LET votes == [confidence.votes EXCEPT ![address] = OneMore(@)]
           last == confidence.last
       IN  /\ last # None => votes[last] # None
           /\ confidence' = [confidence EXCEPT !.votes = votes, !.lastVoted[a] = now,
                                !.last = IF last = None \/ votes[address] > votes[last] THEN address ELSE last]
    /\ UNCHANGED << now, members, motion, candidate, relinquishing, lapsed >>

Relinquish(a) ==
    /\ a \in Seated /\ relinquishing = None
    /\ relinquishing' = a
    /\ UNCHANGED << now, members, motion, candidate, confidence, coins, lapsed >>

LastMember == IF relinquishing # None THEN relinquishing ELSE confidence.last

\* pop_top: all candidates' votes are cleared.
PopTop ==
    candidate' = [candidate EXCEPT !.votes = [a \in Accounts |-> None], !.top = None]

\* A bug to catch: last_candidate stays what it was.
LastStays == confidence.last
LastAfterPop == None

\* pop_last: who gives up a seat keeps the candidacy and the registration; who
\* is voted out loses the registration, and with it the stake.
PopLast ==
    IF relinquishing # None
    THEN /\ confidence' = [confidence EXCEPT !.votes[relinquishing] = 0]
         /\ relinquishing' = None
         /\ lapsed' = [lapsed EXCEPT !.ghosts = @ \cup {relinquishing}]
         /\ UNCHANGED candidate
    ELSE /\ confidence' = [confidence EXCEPT !.votes = [a \in Accounts |-> None], !.last = LastAfterPop]
         /\ candidate' = [candidate EXCEPT !.registered = @ \ {confidence.last}]
         /\ lapsed' = [lapsed EXCEPT !.stakes = @ + IF confidence.last \in candidate.registered THEN 1 ELSE 0]
         /\ UNCHANGED relinquishing

----------------------------------------------------------------------------
(* members *)

\* A bug to catch: the two thirds of quorum_max are asked for, on either side.
MajorityTwoThirds == (2 * Len(members)) \div 3 + 1
Majority == Len(members) \div 2 + 1

IntroduceMotion(a, kind, who) ==
    /\ a \in Seated /\ motion.kind = "none" /\ kind # "none"
    /\ IF kind = "remove_member" THEN who \in Seated /\ Len(members) > Minimum ELSE who = None
    /\ motion' = [motion EXCEPT !.kind = kind, !.who = who, !.opened = now]
    /\ UNCHANGED << now, members, candidate, confidence, relinquishing, coins, lapsed >>

\* A bug to catch: reset leaves the yays.
ResetKeepsYays == [NoMotion(motion.opened) EXCEPT !.yays = motion.yays]
Reset == NoMotion(motion.opened)

\* list.remove raises when the member is not there.
Removed(who) == who \in Seated /\ members' = RemoveFirst(members, who)

RemoveMember ==
    /\ Removed(motion.who)
    /\ lapsed' = [lapsed EXCEPT !.ghosts = @ \cup {motion.who}]
    /\ UNCHANGED << candidate, confidence, relinquishing >>

AddSeat ==
    IF candidate.top = None THEN UNCHANGED << members, candidate, confidence, relinquishing, lapsed >>
    ELSE members' = Append(members, candidate.top) /\ PopTop /\ UNCHANGED << confidence, relinquishing, lapsed >>

RemoveSeat ==
    IF LastMember = None THEN UNCHANGED << members, candidate, confidence, relinquishing, lapsed >>
    ELSE Removed(LastMember) /\ PopLast

PassCurrentMotion ==
    CASE motion.kind = "remove_member" -> RemoveMember
      [] motion.kind = "add_seat" -> AddSeat
      [] motion.kind = "remove_seat" -> RemoveSeat

VoteOnMotion(a, position) ==
    /\ a \in Seated /\ motion.kind # "none" /\ motion.positions[a] = "none"
    /\ LET yays == motion.yays + IF position = "yes" THEN 1 ELSE 0
           nays == motion.nays + IF position = "no" THEN 1 ELSE 0
       IN  IF yays >= Majority
           THEN PassCurrentMotion /\ motion' = Reset
           ELSE /\ motion' = IF nays >= Majority \/ now - motion.opened >= 1 THEN Reset
                             ELSE [motion EXCEPT !.yays = yays, !.nays = nays, !.positions[a] = position]
                /\ UNCHANGED << members, candidate, confidence, relinquishing, lapsed >>
    /\ UNCHANGED << now, coins >>

Motions(kinds) ==
    \E a \in Accounts :
        \/ \E kind \in kinds, who \in Accounts \cup {None} : IntroduceMotion(a, kind, who)
        \/ \E position \in {"yes", "no"} : VoteOnMotion(a, position)

Candidacies ==
    \E a \in Accounts :
        \/ Register(a) \/ Unregister(a) \/ Relinquish(a)
        \/ \E address \in Accounts : VoteCandidate(a, address) \/ VoteNoConfidence(a, address)

----------------------------------------------------------------------------
\* Fees and stakes neither create nor destroy coins.
CoinsConserved ==
    MapThenSumSet(LAMBDA a : coins.balance[a], DOMAIN coins.balance) = MapThenSumSet(LAMBDA a : Funds[a], Accounts)

\* The contract holds the stakes of those registered and of those who lost theirs.
StakesHeld == coins.balance[Treasury] = MemberCost * (Cardinality(candidate.registered) + lapsed.stakes)

\* Every stake can be paid back, however often seats and candidacies changed, and
\* out of coins that were there at first.
StakesBacked == StakesHeld /\ CoinsConserved

\* "Can't unstake if in governance": who sits by election loses the
\* registration only together with a seat.
SeatsOf(a) == Cardinality({i \in DOMAIN members : members[i] = a})
StakeFollowsSeat ==
    [][\A a \in Accounts :
          a \in Seated /\ a \in candidate.registered \ candidate'.registered => SeatsOf(a)' < SeatsOf(a)]_<< now, seatsVars >>

\* Who is next to lose a seat has one, unless it went by a motion to remove that
\* very member, or by giving it up: only then does REMOVE_SEAT raise at
\* members.remove, and stays impossible to pass.
LastMemberSeated == LastMember # None => LastMember \in Seated \/ LastMember \in lapsed.ghosts

\* Seats change only by the yes votes, on this motion, of more than half of the
\* seats, each by another member, the deciding one included.
SeatsChangeByMajority ==
    [][members' # members =>
          2 * (Cardinality({a \in Seated : motion.positions[a] = "yes"}) + 1) > Len(members)]_<< now, seatsVars >>

\* A motion on which every member has taken a position is closed, unless it is
\* tied, or a member sits twice: then nobody is left who could close it, not even
\* after the voting period.
OpenOnlyIfTied ==
    motion.kind # "none" /\ (\A a \in Seated : motion.positions[a] # "none") =>
        \/ motion.yays = motion.nays
        \/ Cardinality(Seated) < Len(members)
================================================================================
