---------------------------- MODULE GovernanceProofs ----------------------------
(***************************************************************************)
(* Proofs about the contracts of the committees: for every committee, every *)
(* funds, every rate and split that is voted for, and however long the     *)
(* chain runs (MaxNow, a bound of the model, is not looked at).            *)
(***************************************************************************)
EXTENDS Governance, SeatsProofs

(* The strengthening that makes the properties inductive. *)

\* Half of the price, rounded up: the least rate that is accepted.
Half == (stamp.value + 1) \div 2

\* The rates of an election under way add up to no less than if all had been the
\* least that is accepted, and to no more than if all had been the largest.
StampBounded ==
    stamp.election.start # None =>
        /\ stamp.election.count \in Nat \ {0}
        /\ Half * stamp.election.count <= stamp.total
        /\ stamp.total <= (2 * stamp.value) * stamp.election.count

\* There is always something to divide by.
SplitSound == SplitTallied /\ SumOfParts(split.value) \in Nat \ {0}

\* The votes of an upgrade under way are those of different voters, all of whom are
\* kept from voting again.
UpgradeCounted ==
    upgrade.locked /\ ~upgrade.consensus =>
        upgrade.votes = Cardinality(upgrade.voted) /\ upgrade.voted \subseteq upgrade.hasVoted

IInv ==
    /\ TypeOK /\ SeatsInv
    /\ StampBounded /\ SplitSound /\ PaidOutOfStamps
    /\ UpgradeCounted /\ UpgradeByQuorum

----------------------------------------------------------------------------
(* Arithmetic. *)

LEMMA DivBounds ==
    ASSUME NEW n \in Nat, NEW m \in Nat \ {0}
    PROVE  n \div m \in Nat /\ (n \div m) * m <= n /\ n < (n \div m) * m + m
OBVIOUS

\* Cancelling a factor.
LEMMA CancelFactor ==
    ASSUME NEW m \in Nat \ {0}, NEW x \in Nat, NEW y \in Nat, m * x <= m * y
    PROVE  x <= y
<1>1. SUFFICES ASSUME x > y PROVE FALSE
  OBVIOUS
<1>2. PICK d \in Nat : x = y + d /\ d >= 1
  <2>1. x - y \in Nat /\ x = y + (x - y)
    BY <1>1
  <2>2. QED
    BY <1>1, <2>1
<1>3. m * x = m * y + m * d
  BY <1>2
<1>4. m * d >= 1
  BY <1>2
<1>5. QED
  BY <1>3, <1>4

LEMMA OneMoreTime ==
    ASSUME NEW x \in Nat, NEW c \in Nat
    PROVE  x * (c + 1) = x * c + x
OBVIOUS

\* A mean lies between the bounds of what it is the mean of.
LEMMA MeanBounds ==
    ASSUME NEW count \in Nat \ {0}, NEW total \in Nat, NEW low \in Nat, NEW high \in Nat,
           low * count <= total, total <= high * count
    PROVE  total \div count \in Nat /\ low <= total \div count /\ total \div count <= high
<1> PICK mean : mean = total \div count
  OBVIOUS
<1>1. mean \in Nat /\ mean * count <= total /\ total < mean * count + count
  BY DivBounds
<1>2. mean <= high
  <2>1. count * mean <= count * high
    BY <1>1
  <2>2. QED
    BY <1>1, <2>1, CancelFactor
<1>3. low <= mean
  <2>1. SUFFICES ASSUME low >= mean + 1 PROVE FALSE
    BY <1>1
  <2>2. PICK d \in Nat : low = mean + 1 + d
    <3>1. low - mean - 1 \in Nat /\ low = mean + 1 + (low - mean - 1)
      BY <1>1, <2>1
    <3>2. QED
      BY <3>1
  <2>3. low * count = mean * count + count + d * count
    BY <1>1, <2>2
  <2>4. d * count >= 0
    BY <2>2
  <2>5. QED
    BY <1>1, <2>3, <2>4
<1>4. QED
  BY <1>1, <1>2, <1>3

\* The least rate accepted is at most the price, and the price at most twice that.
LEMMA HalfBounds ==
    ASSUME NEW value \in Nat \ {0}, NEW half, half = (value + 1) \div 2
    PROVE  /\ half \in Nat \ {0} /\ half <= value /\ value <= 2 * half
           /\ \A rate \in Nat : value <= 2 * rate => half <= rate
<1>1. (value + 1) \div 2 \in Nat /\ ((value + 1) \div 2) * 2 <= value + 1 /\ value + 1 < ((value + 1) \div 2) * 2 + 2
  BY DivBounds
<1>2. QED
  BY <1>1

\* What is divided among participants is divided towards zero: a share below zero pays
\* nothing, and another no more than the share.
LEMMA ShareBound ==
    ASSUME NEW n \in Nat \ {0}, NEW sum \in Nat \ {0}, NEW rate \in Nat \ {0}, NEW tau \in Nat,
           NEW share \in Int, NEW stamps \in Nat, NEW dust \in Nat, tau = stamps * dust,
           NEW above, above = (IF share < 0 THEN 0 ELSE share),
           NEW each, each = Truncated(share * stamps * dust, sum * n * rate)
    PROVE  each \in Int /\ (sum * rate) * (n * each) <= above * tau
<1>1. sum * n * rate \in Nat \ {0}
  <2>1. sum * n \in Nat \ {0}
    OBVIOUS
  <2>2. QED
    BY <2>1
<1>2. \A e \in Int : e * (sum * n * rate) = (sum * rate) * (n * e)
  <2>1. PICK whole \in Nat : whole = sum * rate
    OBVIOUS
  <2>2. sum * n * rate = whole * n
    BY <2>1
  <2>3. \A e \in Int : e * (whole * n) = whole * (n * e)
    BY <2>1
  <2>4. QED
    BY <2>1, <2>2, <2>3
<1>3. share * stamps * dust = share * tau
  OBVIOUS
<1>4. CASE share >= 0
  <2>1. share \in Nat /\ above = share /\ share * tau \in Nat
    BY <1>4
  <2>2. each = (share * tau) \div (sum * n * rate)
    BY <1>3, <2>1 DEF Truncated
  <2>3. each \in Nat /\ each * (sum * n * rate) <= share * tau
    BY <1>1, <2>1, <2>2, DivBounds
  <2>4. QED
    BY <1>2, <2>1, <2>3
<1>5. CASE share < 0
  <2>1. PICK lack \in Nat : lack = -(share * tau)
    <3>1. PICK s \in Nat : share = -s
      BY <1>5
    <3>2. s * tau \in Nat /\ -(share * tau) = s * tau
      BY <3>1
    <3>3. QED
      BY <3>2
  <2>2. PICK e \in Nat : e = lack \div (sum * n * rate)
    BY <1>1, DivBounds
  <2>3. each = -e
    <3>1. share * tau = -lack
      BY <2>1
    <3>2. CASE lack = 0
      <4>1. e = 0
        BY <1>1, <2>2, <3>2, DivBounds
      <4>2. each = 0 \div (sum * n * rate)
        BY <1>3, <3>1, <3>2 DEF Truncated
      <4>3. QED
        BY <2>2, <3>2, <4>1, <4>2
    <3>3. CASE lack # 0
      <4>1. -lack < 0 /\ -(-lack) = lack
        BY <3>3
      <4>2. QED
        BY <1>3, <2>2, <3>1, <4>1 DEF Truncated
    <3>4. QED
      BY <3>2, <3>3
  <2>4. each * (sum * n * rate) <= 0 /\ each \in Int
    <3>1. PICK whole \in Nat : whole = sum * n * rate
      BY <1>1
    <3>2. (-e) * whole = -(e * whole) /\ e * whole \in Nat
      BY <3>1
    <3>3. QED
      BY <2>3, <3>1, <3>2
  <2>5. above * tau = 0
    BY <1>5
  <2>6. QED
    BY <1>2, <2>4, <2>5
<1>6. QED
  BY <1>4, <1>5

\* What several shares pay together is no more than what they are shares of, and what
\* the parts below zero add to the others.
LEMMA SharesBound ==
    ASSUME NEW sum \in Nat \ {0}, NEW rate \in Nat \ {0}, NEW tau \in Nat, NEW below \in Nat,
           NEW s1 \in Nat, NEW s2 \in Nat, NEW s4 \in Nat, s1 + s2 + s4 <= sum + below,
           NEW p1 \in Int, NEW p2 \in Int, NEW p4 \in Int,
           (sum * rate) * p1 <= s1 * tau, (sum * rate) * p2 <= s2 * tau, (sum * rate) * p4 <= s4 * tau
    PROVE  ((p1 + p2 + p4) * rate) * sum <= tau * (sum + below)
<1> DEFINE p == p1 + p2 + p4
<1>1. (sum * rate) * p <= (s1 + s2 + s4) * tau
  <2>1. (sum * rate) * p = (sum * rate) * p1 + (sum * rate) * p2 + (sum * rate) * p4
    OBVIOUS
  <2>2. (s1 + s2 + s4) * tau = s1 * tau + s2 * tau + s4 * tau
    OBVIOUS
  <2>3. QED
    BY <2>1, <2>2
<1>2. (s1 + s2 + s4) * tau <= (sum + below) * tau
  <2>1. PICK d \in Nat : sum + below = s1 + s2 + s4 + d
    <3>1. sum + below - (s1 + s2 + s4) \in Nat /\ sum + below = s1 + s2 + s4 + (sum + below - (s1 + s2 + s4))
      OBVIOUS
    <3>2. QED
      BY <3>1
  <2>2. (sum + below) * tau = (s1 + s2 + s4) * tau + d * tau /\ d * tau \in Nat
    BY <2>1
  <2>3. QED
    BY <2>2
<1>3. (sum * rate) * p = (p * rate) * sum
  <2>1. PICK x \in Int : x = p
    OBVIOUS
  <2>2. (sum * rate) * x = (x * rate) * sum
    OBVIOUS
  <2>3. QED
    BY <2>1, <2>2
<1>4. QED
  BY <1>1, <1>2, <1>3

----------------------------------------------------------------------------
(* Init, and the steps. *)

LEMMA SeatsInitInv ==
    ASSUME SeatsAssumption, SeatsInit PROVE SeatsInv
<1>1. SeatsTypeOK
  BY DEF SeatsAssumption, SeatsInit, SeatsTypeOK, NoMotion, Kinds
<1>2. MotionCounted
  <2>1. motion.yays = 0 /\ motion.nays = 0 /\ \A a \in Accounts : motion.positions[a] = "none"
    BY DEF SeatsInit, NoMotion
  <2>2. Taking("yes") = {} /\ Taking("no") = {}
    BY <2>1 DEF Taking
  <2>3. Len(members) \in Nat
    BY <1>1 DEF SeatsTypeOK
  <2>4. 0 < Majority
    BY <2>3 DEF Majority
  <2>5. Cardinality({}) = 0
    BY FS_EmptySet
  <2>6. QED
    BY <2>1, <2>2, <2>4, <2>5 DEF MotionCounted
<1>3. StakesHeld
  <2>1. coins.balance[Treasury] = 0 /\ candidate.registered = {} /\ lapsed.stakes = 0 /\ MemberCost \in Nat
    BY DEF SeatsInit, SeatsAssumption
  <2>2. Cardinality({}) = 0
    BY FS_EmptySet
  <2>3. QED
    BY <2>1, <2>2 DEF StakesHeld
<1>4. NextToGo
  BY DEF SeatsInit, NextToGo
<1>5. QED
  BY <1>1, <1>2, <1>3, <1>4 DEF SeatsInv

\* A part is below zero by a natural number, if at all.
LEMMA BelowIsNat ==
    ASSUME NEW parts \in [1 .. 4 -> Int] PROVE SumOfParts(Below(parts)) \in Nat
<1>1. PICK l1, l2, l3, l4 \in Nat :
          /\ l1 = (IF parts[1] < 0 THEN -parts[1] ELSE 0) /\ l2 = (IF parts[2] < 0 THEN -parts[2] ELSE 0)
          /\ l3 = (IF parts[3] < 0 THEN -parts[3] ELSE 0) /\ l4 = (IF parts[4] < 0 THEN -parts[4] ELSE 0)
  OBVIOUS
<1>2. SumOfParts(Below(parts)) = l1 + l2 + l3 + l4
  BY <1>1 DEF SumOfParts, Below
<1>3. QED
  BY <1>2

LEMMA InitInv == Init => IInv
<1> SUFFICES ASSUME Init PROVE IInv
  OBVIOUS
<1> USE SeatsAssumption, GovernanceAssumption DEF GovernanceAssumption
<1>1. SeatsInv
  BY SeatsInitInv DEF Init
<1>2. FirstSplit \in [1 .. 4 -> Int] /\ SumOfParts(FirstSplit) \in Nat \ {0}
  <2>1. SumOfParts(FirstSplit) = 100 * Unit /\ 100 * Unit \in Nat \ {0}
    OBVIOUS
  <2>2. QED
    BY <2>1
<1>3. << 0, 0, 0, 0 >> \in [1 .. 4 -> Int]
  OBVIOUS
<1>4. NoElection(0) \in ElectionNumbers /\ NoElection(1) \in ElectionNumbers
  BY DEF NoElection, ElectionNumbers
<1>5. TypeOK
  BY <1>1, <1>2, <1>3, <1>4 DEF Init, TypeOK, SeatsInv, Sessions
<1>6. StampBounded
  BY DEF Init, StampBounded, NoElection
<1>7. SplitSound
  BY <1>2 DEF Init, SplitSound, SplitTallied, NoElection
<1>8. PaidOutOfStamps
  <2>1. /\ reward.paid = 0 /\ reward.stamps = 0 /\ reward.rate \in Nat /\ reward.split = FirstSplit /\ Dust \in Nat
    BY DEF Init
  <2>2. PICK whole, below : whole = SumOfParts(FirstSplit) /\ below = SumOfParts(Below(FirstSplit))
    OBVIOUS
  <2>3. whole \in Nat /\ below \in Nat
    BY <1>2, <2>2, BelowIsNat
  <2>4. (0 * reward.rate) * whole <= (0 * Dust) * (whole + below)
    BY <2>1, <2>3
  <2>5. QED
    BY <2>1, <2>2, <2>4 DEF PaidOutOfStamps
<1>9. UpgradeCounted /\ UpgradeByQuorum
  BY DEF Init, UpgradeCounted, UpgradeByQuorum
<1>10. QED
  BY <1>1, <1>5, <1>6, <1>7, <1>8, <1>9 DEF IInv

\* An election that is opened has the numbers of one.
LEMMA OpenedType ==
    ASSUME SeatsTypeOK, NEW count \in Nat PROVE Opened(count) \in ElectionNumbers
<1>1. now \in Nat /\ Len(members) \in Nat
  <2>1. now \in Nat /\ members \in Seq(Accounts)
    BY DEF SeatsTypeOK
  <2>2. QED
    BY <2>1
<1>2. Cardinality(Others) \in Nat
  BY GovernanceAssumption, FS_CardinalityType DEF GovernanceAssumption
<1>3. TotalNodes \in Nat
  BY <1>1, <1>2 DEF TotalNodes
<1>4. ((TotalNodes * 2) \div 3) + 1 \in Nat
  BY <1>3
<1>5. QED
  BY <1>1, <1>4 DEF Opened, ElectionNumbers

\* A vote is one more, of one more.
LEMMA TalliedEffect ==
    ASSUME NEW before \in ElectionNumbers, NEW vk \in Voters,
           NEW election, election = Tallied(before, vk)
    PROVE  /\ election.count = before.count + 1 /\ election.start = before.start
           /\ election.hasVoted = before.hasVoted \cup {vk}
           /\ election \in ElectionNumbers
<1>1. /\ election.count = before.count + 1 /\ election.start = before.start
      /\ election.hasVoted = before.hasVoted \cup {vk} /\ election.minimum = before.minimum
  BY DEF Tallied, ElectionNumbers
<1>2. election = [count |-> election.count, minimum |-> election.minimum, start |-> election.start,
                  hasVoted |-> election.hasVoted]
  BY DEF Tallied, ElectionNumbers
<1>3. election.count \in Nat /\ election.minimum \in Nat /\ election.start \in Nat \cup {None} /\ election.hasVoted \in SUBSET Voters
  BY <1>1 DEF ElectionNumbers
<1>4. QED
  BY <1>1, <1>2, <1>3 DEF ElectionNumbers

\* The first vote opens the election with the price itself and the rate; every
\* other adds its rate.
LEMMA VoteStampCostStep ==
    ASSUME TypeOK, StampBounded, NEW vk \in Voters, NEW rate \in Nat \ {0}, VoteStampCost(vk, rate)
    PROVE  /\ stamp' \in [value : Nat \ {0}, total : Nat, votes : SUBSET Voters, election : ElectionNumbers]
           /\ StampBounded'
           /\ stamp'.value <= 2 * stamp.value /\ stamp.value <= 2 * stamp'.value
<1> DEFINE opens == stamp.election.start = None
           before == IF opens THEN Opened(FirstCount) ELSE stamp.election
           election == Tallied(before, vk)
           total == rate + IF opens THEN stamp.value ELSE stamp.total
           over == ~opens /\ ElectionIsOver(election)
           mean == total \div election.count
<1>1. /\ stamp \in [value : Nat \ {0}, total : Nat, votes : SUBSET Voters, election : ElectionNumbers]
      /\ now \in Nat
  BY DEF TypeOK, SeatsTypeOK
<1>2. before \in ElectionNumbers
  <2>1. Opened(FirstCount) \in ElectionNumbers
    BY OpenedType DEF TypeOK, FirstCount
  <2>2. QED
    BY <1>1, <2>1
<1>3. /\ election.count = before.count + 1 /\ election.start = before.start
      /\ election \in ElectionNumbers
  BY <1>2, TalliedEffect
<1>4. total \in Nat
  BY <1>1
<1>5. /\ stamp.value <= 2 * rate /\ rate <= 2 * stamp.value
      /\ stamp' = [stamp EXCEPT !.total = total,
                      !.election = IF over THEN Closed(election) ELSE election,
                      !.value = IF ~over THEN @ ELSE IF mean = 0 THEN 1 ELSE mean]
  BY DEF VoteStampCost
<1>6. PICK value, half, count :
        /\ value \in Nat \ {0} /\ value = stamp.value
        /\ half = (value + 1) \div 2 /\ count = election.count
  BY <1>1
<1>7. /\ half \in Nat \ {0} /\ half <= value /\ value <= 2 * half
      /\ half <= rate
  BY <1>5, <1>6, HalfBounds
<1>8. count \in Nat \ {0} /\ half * count <= total /\ total <= (2 * value) * count
  <2>1. CASE opens
    <3>1. before.count = 1
      BY <2>1 DEF Opened, FirstCount
    <3>2. count = 2 /\ total = rate + value
      BY <1>3, <1>6, <2>1, <3>1
    <3>3. QED
      BY <1>5, <1>6, <1>7, <3>2
  <2>2. CASE ~ opens
    <3>1. PICK c, sum : c = stamp.election.count /\ sum = stamp.total
      OBVIOUS
    <3>2. c \in Nat \ {0} /\ half * c <= sum /\ sum <= (2 * value) * c /\ sum \in Nat
      BY <1>1, <1>6, <2>2, <3>1 DEF StampBounded, Half
    <3>3. count = c + 1 /\ total = rate + sum
      BY <1>3, <1>6, <2>2, <3>1
    <3>4. half * (c + 1) = half * c + half /\ (2 * value) * (c + 1) = (2 * value) * c + 2 * value
      <4>1. half \in Nat /\ c \in Nat
        BY <1>7, <3>2
      <4>2. PICK top \in Nat : top = 2 * value
        BY <1>6
      <4>3. half * (c + 1) = half * c + half /\ top * (c + 1) = top * c + top
        BY <4>1, <4>2, OneMoreTime
      <4>4. QED
        BY <4>2, <4>3
    <3>5. QED
      BY <1>5, <1>6, <1>7, <3>2, <3>3, <3>4
  <2>3. QED
    BY <2>1, <2>2
<1> HIDE DEF total, election
<1>9. CASE over
  <2>1. mean \in Nat /\ half <= mean /\ mean <= 2 * value
    <3>1. PICK sum \in Nat : sum = total
      BY <1>4
    <3>2. 2 * value \in Nat /\ half \in Nat /\ half * count <= sum /\ sum <= (2 * value) * count
      BY <1>6, <1>7, <1>8, <3>1
    <3>3. /\ sum \div count \in Nat /\ half <= sum \div count /\ sum \div count <= 2 * value
      BY <1>8, <3>2, MeanBounds
    <3>4. QED
      BY <1>6, <3>1, <3>3
  <2>2. stamp'.value = mean /\ stamp'.election = Closed(election)
    BY <1>1, <1>5, <1>7, <1>9, <2>1
  <2>3. Closed(election) \in ElectionNumbers /\ Closed(election).start = None
    BY <1>3 DEF Closed, ElectionNumbers
  <2>4. stamp'.value <= 2 * stamp.value /\ stamp.value <= 2 * stamp'.value /\ stamp'.value \in Nat \ {0}
    BY <1>6, <1>7, <2>1, <2>2
  <2>5. stamp' = [value |-> stamp'.value, total |-> total, votes |-> stamp.votes, election |-> Closed(election)]
    BY <1>1, <1>5, <1>9, <2>2
  <2>6. QED
    BY <1>1, <1>4, <2>2, <2>3, <2>4, <2>5 DEF StampBounded
<1>10. CASE ~ over
  <2>1. /\ stamp' = [value |-> stamp.value, total |-> total, votes |-> stamp.votes, election |-> election]
    BY <1>1, <1>5, <1>10
  <2>2. StampBounded'
    BY <1>6, <1>8, <2>1 DEF StampBounded, Half
  <2>3. QED
    BY <1>1, <1>3, <1>4, <2>1, <2>2
<1>11. QED
  BY <1>9, <1>10

\* The votes of an election count 100 for every voter.
LEMMA VoteRewardsStep ==
    ASSUME TypeOK, SplitSound, NEW vk \in Voters, NEW shares \in [1 .. 4 -> Int], SumOfParts(shares) = 100 * Unit,
           VoteRewards(vk, shares)
    PROVE  /\ split' \in [value : [1 .. 4 -> Int], votes : [1 .. 4 -> Int], election : ElectionNumbers]
           /\ SplitSound'
<1> DEFINE opens == split.election.start = None
           before == IF opens THEN Opened(0) ELSE split.election
           election == Tallied(before, vk)
           counted == IF opens THEN VotesReset ELSE split.votes
           votes == [i \in 1 .. 4 |-> shares[i] + counted[i]]
           over == ~opens /\ ElectionIsOver(election)
           elected == [i \in 1 .. 4 |-> IF votes[i] = 0 THEN Unit ELSE votes[i]]
<1>0. Unit \in Nat \ {0} /\ \A k \in Nat : 100 * Unit * (k + 1) = 100 * Unit * k + 100 * Unit
  BY GovernanceAssumption DEF GovernanceAssumption
<1>1. split \in [value : [1 .. 4 -> Int], votes : [1 .. 4 -> Int], election : ElectionNumbers]
  BY DEF TypeOK
<1>2. before \in ElectionNumbers
  <2>1. Opened(0) \in ElectionNumbers
    BY OpenedType DEF TypeOK
  <2>2. QED
    BY <1>1, <2>1
<1>3. /\ election.start = before.start /\ election.hasVoted = before.hasVoted \cup {vk}
      /\ election \in ElectionNumbers
  BY <1>2, TalliedEffect
<1>4. counted \in [1 .. 4 -> Int]
  BY <1>1 DEF VotesReset
<1>5. votes \in [1 .. 4 -> Int] /\ elected \in [1 .. 4 -> Int]
  BY <1>0, <1>4
<1>6. SumOfParts(elected) \in Int /\ SumOfParts(elected) >= SumOfParts(votes)
  <2>1. \A i \in {1, 2, 3, 4} : elected[i] \in Int /\ votes[i] \in Int /\ elected[i] >= votes[i]
    BY <1>0, <1>5
  <2>2. /\ elected[1] \in Int /\ elected[2] \in Int /\ elected[3] \in Int /\ elected[4] \in Int
        /\ votes[1] \in Int /\ votes[2] \in Int /\ votes[3] \in Int /\ votes[4] \in Int
        /\ elected[1] >= votes[1] /\ elected[2] >= votes[2] /\ elected[3] >= votes[3] /\ elected[4] >= votes[4]
    BY <2>1
  <2> HIDE DEF votes, elected
  <2>3. QED
    BY <2>2 DEF SumOfParts
<1>7. SumOfParts(votes) = SumOfParts(counted) + 100 * Unit /\ SumOfParts(counted) \in Int
  <2>1. /\ votes[1] = shares[1] + counted[1] /\ votes[2] = shares[2] + counted[2]
        /\ votes[3] = shares[3] + counted[3] /\ votes[4] = shares[4] + counted[4]
    OBVIOUS
  <2>2. /\ \A i \in {1, 2, 3, 4} : shares[i] \in Int /\ counted[i] \in Int
    BY <1>4
  <2>3. /\ shares[1] \in Int /\ shares[2] \in Int /\ shares[3] \in Int /\ shares[4] \in Int
        /\ counted[1] \in Int /\ counted[2] \in Int /\ counted[3] \in Int /\ counted[4] \in Int
    BY <2>2
  <2>4. shares[1] + shares[2] + shares[3] + shares[4] = 100 * Unit
    BY DEF SumOfParts
  <2>5. SumOfParts(votes) = votes[1] + votes[2] + votes[3] + votes[4]
    BY DEF SumOfParts
  <2>6. SumOfParts(counted) = counted[1] + counted[2] + counted[3] + counted[4]
    BY DEF SumOfParts
  <2>7. 100 * Unit \in Int
    BY <1>0
  <2> HIDE DEF votes, counted
  <2>8. QED
    BY <2>1, <2>3, <2>4, <2>5, <2>6, <2>7
<1>8. /\ vk \notin before.hasVoted
      /\ split' = [split EXCEPT !.votes = votes,
                      !.election = IF over THEN Closed(election) ELSE election,
                      !.value = IF over THEN elected ELSE @]
  BY DEF VoteRewards
<1>9. IsFiniteSet(before.hasVoted)
  <2>1. before.hasVoted \subseteq Voters
    BY <1>2 DEF ElectionNumbers
  <2>2. IsFiniteSet(Voters)
    BY SeatsAssumption, GovernanceAssumption, FS_Union DEF SeatsAssumption, GovernanceAssumption, Voters
  <2>3. QED
    BY <2>1, <2>2, FS_Subset
<1>10. Cardinality(election.hasVoted) = Cardinality(before.hasVoted) + 1 /\ Cardinality(before.hasVoted) \in Nat
  BY <1>3, <1>8, <1>9, FS_AddElement, FS_CardinalityType
<1>11. SumOfParts(counted) = 100 * Unit * Cardinality(before.hasVoted)
  <2>1. CASE opens
    <3>1. before.hasVoted = {}
      BY <2>1 DEF Opened
    <3>2. SumOfParts(counted) = 0
      BY <2>1 DEF VotesReset, SumOfParts
    <3>3. Cardinality(before.hasVoted) = 0
      BY <3>1, FS_EmptySet
    <3> HIDE DEF counted, before
    <3>4. QED
      BY <1>0, <3>2, <3>3
  <2>2. CASE ~ opens
    BY <2>2 DEF SplitSound, SplitTallied
  <2>3. QED
    BY <2>1, <2>2
<1>12. SumOfParts(votes) = 100 * Unit * Cardinality(election.hasVoted) /\ SumOfParts(elected) \in Nat \ {0}
  <2>1. PICK k \in Nat : k = Cardinality(before.hasVoted)
    BY <1>10
  <2>2. SumOfParts(counted) = 100 * Unit * k /\ Cardinality(election.hasVoted) = k + 1
    BY <1>10, <1>11, <2>1
  <2>3. 100 * Unit * k \in Nat /\ 100 * Unit \in Nat \ {0}
    BY <1>0, <2>1
  <2>4. SumOfParts(votes) = 100 * Unit * (k + 1) /\ SumOfParts(votes) \in Nat \ {0}
    <3>1. PICK c, v, h : c = 100 * Unit * k /\ v = SumOfParts(votes) /\ h = 100 * Unit
      OBVIOUS
    <3>2. v = c + h /\ c \in Nat /\ h \in Nat \ {0}
      BY <1>7, <2>2, <2>3, <3>1
    <3>3. 100 * Unit * (k + 1) = c + h
      BY <1>0, <2>1, <3>1
    <3>4. QED
      BY <3>1, <3>2, <3>3
  <2>5. QED
    BY <1>6, <2>2, <2>4
<1> HIDE DEF votes, elected, election
<1>13. CASE over
  <2>1. split' = [value |-> elected, votes |-> votes, election |-> Closed(election)]
    BY <1>1, <1>8, <1>13
  <2>2. Closed(election) \in ElectionNumbers /\ Closed(election).start = None
    BY <1>3 DEF Closed, ElectionNumbers
  <2>3. QED
    BY <1>5, <1>12, <2>1, <2>2 DEF SplitSound, SplitTallied
<1>14. CASE ~ over
  <2>1. split' = [value |-> split.value, votes |-> votes, election |-> election]
    BY <1>1, <1>8, <1>14
  <2>2. QED
    BY <1>1, <1>3, <1>5, <1>12, <2>1 DEF SplitSound, SplitTallied
<1>15. QED
  BY <1>13, <1>14

\* The participants of each committee and the foundation, each by their share.
LEMMA IssueRewardsStep ==
    ASSUME TypeOK, SplitSound, NEW stamps \in Nat, IssueRewards(stamps)
    PROVE  reward' \in [stamps : Nat, rate : Nat \ {0}, split : [1 .. 4 -> Int], paid : Int] /\ PaidOutOfStamps'
<1>1. PICK sum, rate, tau, s1, s2, s3, s4, n1, n2 :
          /\ sum = SumOfParts(split.value) /\ rate = stamp.value /\ tau = stamps * Dust
          /\ s1 = split.value[1] /\ s2 = split.value[2] /\ s3 = split.value[3] /\ s4 = split.value[4]
          /\ n1 = Len(members) /\ n2 = Cardinality(Others)
  OBVIOUS
<1>2. PICK p1, p2, p4 :
          /\ p1 = ParticipantReward(s1, n1, stamps) /\ p2 = ParticipantReward(s2, n2, stamps)
          /\ p4 = ParticipantReward(s4, 1, stamps)
  OBVIOUS
<1>3. sum \in Nat \ {0} /\ rate \in Nat \ {0} /\ tau \in Nat /\ Dust \in Nat
  <2>1. sum \in Nat \ {0}
    BY <1>1 DEF SplitSound
  <2>2. rate \in Nat \ {0}
    BY <1>1 DEF TypeOK
  <2>3. Dust \in Nat
    BY GovernanceAssumption DEF GovernanceAssumption
  <2>4. QED
    BY <1>1, <2>1, <2>2, <2>3
<1>4. PICK a1, a2, a4, below \in Nat :
          /\ a1 = (IF s1 < 0 THEN 0 ELSE s1) /\ a2 = (IF s2 < 0 THEN 0 ELSE s2) /\ a4 = (IF s4 < 0 THEN 0 ELSE s4)
          /\ below = SumOfParts(Below(split.value)) /\ a1 + a2 + a4 <= sum + below
          /\ s1 \in Int /\ s2 \in Int /\ s4 \in Int
  <2>1. split.value \in [1 .. 4 -> Int]
    BY DEF TypeOK
  <2>2. s1 \in Int /\ s2 \in Int /\ s3 \in Int /\ s4 \in Int
    BY <1>1, <2>1
  <2>3. PICK l1, l2, l3, l4 \in Nat :
            /\ l1 = (IF s1 < 0 THEN -s1 ELSE 0) /\ l2 = (IF s2 < 0 THEN -s2 ELSE 0)
            /\ l3 = (IF s3 < 0 THEN -s3 ELSE 0) /\ l4 = (IF s4 < 0 THEN -s4 ELSE 0)
    BY <2>2
  <2>4. SumOfParts(Below(split.value)) = l1 + l2 + l3 + l4
    BY <1>1, <2>3 DEF SumOfParts, Below
  <2>5. PICK a1, a2, a4 \in Nat :
            /\ a1 = (IF s1 < 0 THEN 0 ELSE s1) /\ a2 = (IF s2 < 0 THEN 0 ELSE s2) /\ a4 = (IF s4 < 0 THEN 0 ELSE s4)
    BY <2>2
  <2>6. sum = s1 + s2 + s3 + s4
    BY <1>1 DEF SumOfParts
  <2>7. a1 + a2 + a4 <= sum + (l1 + l2 + l3 + l4)
    BY <2>2, <2>3, <2>5, <2>6
  <2>8. l1 + l2 + l3 + l4 \in Nat
    OBVIOUS
  <2>9. QED
    BY <2>2, <2>4, <2>5, <2>7, <2>8
<1>5. n1 \in Nat \ {0} /\ n2 \in Nat \ {0}
  <2>1. members \in Seq(Accounts) /\ members # << >> /\ Others # {} /\ IsFiniteSet(Others)
    BY GovernanceAssumption DEF IssueRewards, TypeOK, SeatsTypeOK, GovernanceAssumption
  <2>2. Len(members) \in Nat \ {0}
    BY <2>1
  <2>3. Cardinality(Others) \in Nat \ {0}
    BY <2>1, FS_CardinalityType, FS_EmptySet
  <2>4. QED
    BY <1>1, <2>2, <2>3
<1>6. /\ p1 = Truncated(s1 * stamps * Dust, sum * n1 * rate) /\ p2 = Truncated(s2 * stamps * Dust, sum * n2 * rate)
      /\ p4 = Truncated(s4 * stamps * Dust, sum * 1 * rate)
  BY <1>1, <1>2, Zenon DEF ParticipantReward
<1>7. /\ p1 \in Int /\ (sum * rate) * (n1 * p1) <= a1 * tau
      /\ p2 \in Int /\ (sum * rate) * (n2 * p2) <= a2 * tau
      /\ p4 \in Int /\ (sum * rate) * (1 * p4) <= a4 * tau
  <2>1. tau = stamps * Dust
    BY <1>1
  <2>2. p1 \in Int /\ (sum * rate) * (n1 * p1) <= a1 * tau
    BY <1>3, <1>4, <1>5, <1>6, <2>1, ShareBound
  <2>3. p2 \in Int /\ (sum * rate) * (n2 * p2) <= a2 * tau
    BY <1>3, <1>4, <1>5, <1>6, <2>1, ShareBound
  <2>4. 1 \in Nat \ {0}
    OBVIOUS
  <2>5. p4 \in Int /\ (sum * rate) * (1 * p4) <= a4 * tau
    BY <1>3, <1>4, <1>6, <2>1, <2>4, ShareBound
  <2>6. QED
    BY <2>2, <2>3, <2>5
<1>8. n1 * p1 \in Int /\ n2 * p2 \in Int /\ 1 * p4 = p4
  BY <1>5, <1>7
<1>9. ((n1 * p1 + n2 * p2 + p4) * rate) * sum <= tau * (sum + below)
  BY <1>3, <1>4, <1>7, <1>8, SharesBound
<1>10. reward' = [stamps |-> stamps, rate |-> rate, split |-> split.value, paid |-> n1 * p1 + n2 * p2 + p4]
  BY <1>1, <1>2 DEF IssueRewards
<1>11. n1 * p1 + n2 * p2 + p4 \in Int
  BY <1>7, <1>8
<1>12. QED
  <2>1. PICK paid \in Int : paid = n1 * p1 + n2 * p2 + p4 /\ (paid * rate) * sum <= (stamps * Dust) * (sum + below)
    BY <1>1, <1>9, <1>11
  <2>2. reward' = [stamps |-> stamps, rate |-> rate, split |-> split.value, paid |-> paid]
    BY <1>10, <2>1
  <2>3. /\ reward'.paid = paid /\ reward'.rate = rate /\ reward'.stamps = stamps /\ reward'.split = split.value
    BY <2>2
  <2>4. PaidOutOfStamps'
    BY <1>1, <1>4, <2>1, <2>3, Zenon DEF PaidOutOfStamps
  <2>5. split.value \in [1 .. 4 -> Int]
    BY DEF TypeOK
  <2>6. QED
    BY <1>3, <2>1, <2>2, <2>4, <2>5

UpgradeType ==
    upgrade \in [locked : BOOLEAN, consensus : BOOLEAN, votes : Nat, voters : Nat,
                 started : Nat \cup {None}, hasVoted : SUBSET Voters, voted : SUBSET Voters]

\* A voter's vote, on the vote under way or on a new one.
LEMMA VoteUpgradeStep ==
    ASSUME TypeOK, UpgradeCounted, UpgradeByQuorum, NEW vk \in Voters, VoteUpgrade(vk)
    PROVE  UpgradeType' /\ UpgradeCounted' /\ UpgradeByQuorum'
<1> DEFINE state == IF Elapsed THEN Cleared ELSE upgrade
           begun == IF state.locked THEN state ELSE Started(state)
           counted == [begun EXCEPT !.votes = @ + 1, !.hasVoted = @ \cup {vk}, !.voted = @ \cup {vk}]
           States == [locked : BOOLEAN, consensus : BOOLEAN, votes : Nat, voters : Nat,
                      started : Nat \cup {None}, hasVoted : SUBSET Voters, voted : SUBSET Voters]
<1>1. /\ vk \notin upgrade.hasVoted /\ ~ upgrade.consensus
      /\ upgrade' = IF state.locked /\ Enough(state)
                    THEN [state EXCEPT !.consensus = TRUE, !.hasVoted = {}, !.voted = @ \cup {vk}]
                    ELSE counted
  BY DEF VoteUpgrade
<1>2. upgrade \in States /\ now \in Nat /\ TotalNodes \in Nat
  <2>1. members \in Seq(Accounts) /\ now \in Nat /\ upgrade \in States
    BY DEF TypeOK, SeatsTypeOK
  <2>2. Len(members) \in Nat
    BY <2>1
  <2>3. Cardinality(Others) \in Nat
    BY GovernanceAssumption, FS_CardinalityType DEF GovernanceAssumption
  <2>4. QED
    BY <2>1, <2>2, <2>3 DEF TotalNodes
<1>3. state \in States /\ ~ state.consensus
  BY <1>1, <1>2 DEF Cleared
<1>4. state.locked => state.votes = Cardinality(state.voted) /\ vk \notin state.voted
  <2>1. CASE Elapsed
    BY <1>2, <2>1 DEF Cleared
  <2>2. CASE ~ Elapsed
    BY <1>1, <2>2 DEF UpgradeCounted
  <2>3. QED
    BY <2>1, <2>2
<1>5. state.locked => state.voted \subseteq state.hasVoted
  <2>1. CASE Elapsed
    BY <1>2, <2>1 DEF Cleared
  <2>2. CASE ~ Elapsed
    BY <1>1, <2>2 DEF UpgradeCounted
  <2>3. QED
    BY <2>1, <2>2
<1> HIDE DEF state
<1>6. /\ begun \in States /\ ~ begun.consensus /\ begun.locked
      /\ begun.votes = Cardinality(begun.voted) /\ vk \notin begun.voted
      /\ begun.voted \subseteq begun.hasVoted
  <2>1. CASE state.locked
    BY <1>3, <1>4, <1>5, <2>1
  <2>2. CASE ~ state.locked
    <3>1. PICK start : start = Started(state) /\ start = begun
      BY <2>2
    <3>2. /\ start.locked = TRUE /\ start.consensus = state.consensus /\ start.votes = 0 /\ start.voted = {}
          /\ start.voters = TotalNodes /\ start.started = now /\ start.hasVoted = state.hasVoted
      BY <1>3, <3>1 DEF Started
    <3>3. start = [locked |-> start.locked, consensus |-> start.consensus, votes |-> start.votes,
                   voters |-> start.voters, started |-> start.started, hasVoted |-> start.hasVoted,
                   voted |-> start.voted]
      BY <1>3, <3>1 DEF Started
    <3>4. start \in States
      <4>1. start.locked \in BOOLEAN /\ start.consensus \in BOOLEAN
        BY <1>3, <3>2
      <4>2. /\ start.votes \in Nat /\ start.voters \in Nat /\ start.started \in Nat \cup {None}
            /\ start.hasVoted \in SUBSET Voters /\ start.voted \in SUBSET Voters
        BY <1>2, <1>3, <3>2
      <4>3. QED
        BY <3>3, <4>1, <4>2
    <3>5. Cardinality({}) = 0
      BY FS_EmptySet
    <3>6. QED
      BY <1>3, <3>1, <3>2, <3>4, <3>5
  <2>3. QED
    BY <2>1, <2>2
<1>7. \A voted \in SUBSET Voters : vk \notin voted =>
          Cardinality(voted \cup {vk}) = Cardinality(voted) + 1 /\ Cardinality(voted) \in Nat
  <2>1. IsFiniteSet(Voters)
    BY SeatsAssumption, GovernanceAssumption, FS_Union DEF SeatsAssumption, GovernanceAssumption, Voters
  <2>2. TAKE voted \in SUBSET Voters
  <2>3. IsFiniteSet(voted)
    BY <2>1, FS_Subset
  <2>4. QED
    BY <2>3, FS_AddElement, FS_CardinalityType
<1> HIDE DEF begun
<1>8. CASE state.locked /\ Enough(state)
  <2>1. upgrade' = [locked |-> state.locked, consensus |-> TRUE, votes |-> state.votes, voters |-> state.voters,
                    started |-> state.started, hasVoted |-> {}, voted |-> state.voted \cup {vk}]
    BY <1>1, <1>3, <1>8
  <2>2. Cardinality(state.voted \cup {vk}) = state.votes + 1
    BY <1>3, <1>4, <1>7, <1>8
  <2>3. state.votes + 1 >= (state.voters * 2) \div 3
    BY <1>8 DEF Enough
  <2>4. UpgradeByQuorum'
    BY <2>1, <2>2, <2>3 DEF UpgradeByQuorum
  <2>5. QED
    BY <1>3, <2>1, <2>4 DEF UpgradeType, UpgradeCounted
<1>9. CASE ~ (state.locked /\ Enough(state))
  <2>1. upgrade' = [locked |-> begun.locked, consensus |-> begun.consensus, votes |-> begun.votes + 1,
                    voters |-> begun.voters, started |-> begun.started,
                    hasVoted |-> begun.hasVoted \cup {vk}, voted |-> begun.voted \cup {vk}]
    BY <1>1, <1>6, <1>9
  <2>2. Cardinality(begun.voted \cup {vk}) = begun.votes + 1
    BY <1>6, <1>7
  <2>3. UpgradeType'
    BY <1>6, <2>1 DEF UpgradeType
  <2>4. UpgradeCounted' /\ UpgradeByQuorum'
    BY <1>6, <2>1, <2>2 DEF UpgradeCounted, UpgradeByQuorum
  <2>5. QED
    BY <2>3, <2>4
<1>10. QED
  BY <1>8, <1>9

LEMMA VersionCheckStep ==
    ASSUME TypeOK, VersionCheck
    PROVE  UpgradeType' /\ UpgradeCounted' /\ UpgradeByQuorum'
<1>1. upgrade \in [locked : BOOLEAN, consensus : BOOLEAN, votes : Nat, voters : Nat,
                   started : Nat \cup {None}, hasVoted : SUBSET Voters, voted : SUBSET Voters]
  BY DEF TypeOK
<1>2. upgrade' = [upgrade EXCEPT !.consensus = FALSE, !.locked = FALSE]
  BY DEF VersionCheck
<1>3. upgrade'.consensus = FALSE /\ upgrade'.locked = FALSE
  BY <1>1, <1>2
<1>4. UpgradeType'
  BY <1>1, <1>2 DEF UpgradeType
<1>5. QED
  BY <1>3, <1>4 DEF UpgradeCounted, UpgradeByQuorum

----------------------------------------------------------------------------
(* Every step keeps the invariant, by what it leaves alone. *)

\* What each of the parts of the invariant is about.
Policies == << session, stamp, split, upgrade, reward >>

LEMMA TypesTogether ==
    TypeOK <=> /\ SeatsTypeOK /\ session \in Sessions
               /\ stamp \in [value : Nat \ {0}, total : Nat, votes : SUBSET Voters, election : ElectionNumbers]
               /\ split \in [value : [1 .. 4 -> Int], votes : [1 .. 4 -> Int], election : ElectionNumbers]
               /\ UpgradeType /\ reward \in [stamps : Nat, rate : Nat \ {0}, split : [1 .. 4 -> Int], paid : Int]
BY DEF TypeOK, UpgradeType

\* A step of the contracts that decide about seats leaves the policies alone.
LEMMA SeatsOnly ==
    ASSUME IInv, SeatsInv', UNCHANGED << session, stamp, split, upgrade, reward >>
    PROVE  IInv'
<1>1. TypeOK'
  BY DEF IInv, SeatsInv, TypeOK, Voters, ElectionNumbers
<1>2. StampBounded' /\ SplitSound' /\ PaidOutOfStamps' /\ UpgradeCounted' /\ UpgradeByQuorum'
  BY DEF IInv, StampBounded, Half, SplitSound, SplitTallied, PaidOutOfStamps, UpgradeCounted, UpgradeByQuorum
<1>3. QED
  BY <1>1, <1>2 DEF IInv

\* A policy step leaves the seats alone.
LEMMA SeatsUntouched ==
    ASSUME SeatsInv, UNCHANGED << now, seatsVars >>
    PROVE  SeatsInv'
<1>1. SeatsTypeOK'
  BY DEF SeatsInv, SeatsTypeOK, seatsVars
<1>2. MotionCounted' /\ NextToGo'
  BY DEF SeatsInv, MotionCounted, Taking, Seated, Majority, NextToGo, seatsVars
<1>3. StakesHeld'
  BY DEF SeatsInv, StakesHeld, seatsVars
<1>4. QED
  BY <1>1, <1>2, <1>3 DEF SeatsInv

LEMMA PolicyStepInv ==
    ASSUME IInv, PolicyStep
    PROVE  IInv'
<1>0. /\ TypeOK /\ SeatsInv /\ StampBounded /\ SplitSound /\ PaidOutOfStamps
      /\ UpgradeCounted /\ UpgradeByQuorum
  BY DEF IInv
<1>1. CASE \E vk \in Voters, rate \in Rates : VoteStampCost(vk, rate)
  <2>1. PICK vk \in Voters, rate \in Rates : VoteStampCost(vk, rate)
    BY <1>1
  <2>2. rate \in Nat \ {0}
    BY GovernanceAssumption DEF GovernanceAssumption
  <2>3. UNCHANGED << now, seatsVars, session, split, upgrade, reward >>
    BY <2>1 DEF VoteStampCost
  <2>4. /\ stamp' \in [value : Nat \ {0}, total : Nat, votes : SUBSET Voters, election : ElectionNumbers]
        /\ StampBounded'
    BY <1>0, <2>1, <2>2, VoteStampCostStep
  <2>5. SeatsInv'
    BY <1>0, <2>3, SeatsUntouched
  <2>6. TypeOK'
    BY <1>0, <2>3, <2>4, <2>5 DEF TypeOK, SeatsInv, Voters, ElectionNumbers
  <2>7. SplitSound' /\ PaidOutOfStamps' /\ UpgradeCounted' /\ UpgradeByQuorum'
    BY <1>0, <2>3 DEF SplitSound, SplitTallied, PaidOutOfStamps, UpgradeCounted, UpgradeByQuorum
  <2>8. QED
    BY <2>4, <2>5, <2>6, <2>7 DEF IInv
<1>2. CASE \E vk \in Voters, shares \in Splits : VoteRewards(vk, shares)
  <2>1. PICK vk \in Voters, shares \in Splits : VoteRewards(vk, shares)
    BY <1>2
  <2>2. shares \in [1 .. 4 -> Int] /\ SumOfParts(shares) = 100 * Unit
    BY GovernanceAssumption DEF GovernanceAssumption
  <2>3. UNCHANGED << now, seatsVars, session, stamp, upgrade, reward >>
    BY <2>1 DEF VoteRewards
  <2>4. /\ split' \in [value : [1 .. 4 -> Int], votes : [1 .. 4 -> Int], election : ElectionNumbers]
        /\ SplitSound'
    BY <1>0, <2>1, <2>2, VoteRewardsStep
  <2>5. SeatsInv'
    BY <1>0, <2>3, SeatsUntouched
  <2>6. TypeOK'
    BY <1>0, <2>3, <2>4, <2>5 DEF TypeOK, SeatsInv, Voters, ElectionNumbers
  <2>7. StampBounded' /\ PaidOutOfStamps' /\ UpgradeCounted' /\ UpgradeByQuorum'
    BY <1>0, <2>3 DEF StampBounded, Half, PaidOutOfStamps, UpgradeCounted, UpgradeByQuorum
  <2>8. QED
    BY <2>4, <2>5, <2>6, <2>7 DEF IInv
<1>3. CASE \E stamps \in Stamps : IssueRewards(stamps)
  <2>1. PICK stamps \in Stamps : IssueRewards(stamps)
    BY <1>3
  <2>2. stamps \in Nat
    BY GovernanceAssumption DEF GovernanceAssumption
  <2>3. UNCHANGED << now, seatsVars, session, stamp, split, upgrade >>
    BY <2>1 DEF IssueRewards
  <2>4. reward' \in [stamps : Nat, rate : Nat \ {0}, split : [1 .. 4 -> Int], paid : Int] /\ PaidOutOfStamps'
    BY <1>0, <2>1, <2>2, IssueRewardsStep
  <2>5. SeatsInv'
    BY <1>0, <2>3, SeatsUntouched
  <2>6. TypeOK'
    BY <1>0, <2>3, <2>4, <2>5 DEF TypeOK, SeatsInv, Voters, ElectionNumbers
  <2>7. StampBounded' /\ SplitSound' /\ UpgradeCounted' /\ UpgradeByQuorum'
    BY <1>0, <2>3 DEF StampBounded, Half, SplitSound, SplitTallied, UpgradeCounted, UpgradeByQuorum
  <2>8. QED
    BY <2>4, <2>5, <2>6, <2>7 DEF IInv
<1>4. CASE VersionCheck \/ \E vk \in Voters : VoteUpgrade(vk)
  <2>1. UNCHANGED << now, seatsVars, session, stamp, split, reward >>
    BY <1>4 DEF VersionCheck, VoteUpgrade
  <2>2. UpgradeType' /\ UpgradeCounted' /\ UpgradeByQuorum'
    BY <1>0, <1>4, VersionCheckStep, VoteUpgradeStep
  <2>3. SeatsInv'
    BY <1>0, <2>1, SeatsUntouched
  <2>4. TypeOK'
    BY <1>0, <2>1, <2>2, <2>3 DEF TypeOK, UpgradeType, SeatsInv, Voters, ElectionNumbers
  <2>5. StampBounded' /\ SplitSound' /\ PaidOutOfStamps'
    BY <1>0, <2>1 DEF StampBounded, Half, SplitSound, SplitTallied, PaidOutOfStamps
  <2>6. QED
    BY <2>2, <2>3, <2>4, <2>5 DEF IInv
<1>5. QED
  BY <1>1, <1>2, <1>3, <1>4 DEF PolicyStep

\* The hours pass, and motions on which nobody votes any more stay.
LEMMA TickStep ==
    ASSUME IInv, Tick
    PROVE  IInv'
<1>1. now \in Nat /\ now' = now + 1 /\ UNCHANGED << seatsVars, session, stamp, split, upgrade, reward >>
  BY DEF Tick, IInv, SeatsInv, SeatsTypeOK
<1>2. SeatsTypeOK'
  BY <1>1, SMTT(30) DEF IInv, SeatsInv, SeatsTypeOK, seatsVars
<1>3. MotionCounted' /\ NextToGo' /\ StakesHeld'
  BY <1>1 DEF IInv, SeatsInv, MotionCounted, Taking, Seated, Majority, NextToGo, StakesHeld, seatsVars
<1>4. QED
  BY <1>1, <1>2, <1>3, SeatsOnly DEF SeatsInv

LEMMA SeatsMove ==
    ASSUME SeatsStep PROVE Motions(Kinds) \/ Candidacies
BY DEF SeatsStep, Motions, Kinds

LEMMA StepInv == IInv /\ [Next]_vars => IInv'
<1> SUFFICES ASSUME IInv, [Next]_vars PROVE IInv'
  OBVIOUS
<1>1. CASE Tick
  BY <1>1, TickStep
<1>2. CASE SeatsStep
  <2>1. UNCHANGED << session, stamp, split, upgrade, reward >>
    BY <1>2 DEF SeatsStep
  <2>2. SeatsInv'
    BY <1>2, SeatsMove, SeatsStepInv DEF IInv
  <2>3. QED
    BY <2>1, <2>2, SeatsOnly
<1>3. CASE PolicyStep
  BY <1>3, PolicyStepInv
<1>4. CASE UNCHANGED vars
  <2>1. UNCHANGED << now, seatsVars, session, stamp, split, upgrade, reward >>
    BY <1>4 DEF vars
  <2>2. QED
    BY <2>1, SeatsUntouched, SeatsOnly DEF IInv
<1>5. QED
  BY <1>1, <1>2, <1>3, <1>4 DEF Next

----------------------------------------------------------------------------
(* The theorems. *)

\* The inductive invariant: the counters of the motion and of the elections are
\* those of different voters, stakes are held, and rates stay between their bounds.
THEOREM Invariant == Spec => []IInv
<1>1. QED
  BY InitInv, StepInv, PTL DEF Spec

\* The state of the contracts keeps its types: no count or balance goes negative.
THEOREM TypeCorrect == Spec => []TypeOK
<1>1. IInv => TypeOK
  BY DEF IInv
<1>2. QED
  BY <1>1, Invariant, PTL

\* elect_members holds a stake for every registration, and those that were lost,
\* however seats and candidacies changed: it can always pay back what it owes.
THEOREM StakesAlwaysHeld == Spec => []StakesHeld
<1>1. IInv => StakesHeld
  BY DEF IInv, SeatsInv
<1>2. QED
  BY <1>1, Invariant, PTL

\* It does so out of coins that were there at first: stakes and fees move coins
\* between accounts, of which there may be any number, and make none.
THEOREM StakesAlwaysBacked == Spec => []StakesBacked
<1>1. Init => CoinsSum
  BY CoinsAtFirst DEF Init
<1>2. IInv /\ CoinsSum /\ [Next]_vars => CoinsSum'
  <2> SUFFICES ASSUME IInv, CoinsSum, [Next]_vars PROVE CoinsSum'
    OBVIOUS
  <2>1. SeatsTypeOK
    BY DEF IInv, SeatsInv
  <2>2. Motions(Kinds) \/ Candidacies \/ coins' = coins
    <3>1. CASE SeatsStep
      BY <3>1, SeatsMove
    <3>2. CASE PolicyStep
      <4>1. CASE \E vk \in Voters, rate \in Rates : VoteStampCost(vk, rate)
        BY <4>1 DEF VoteStampCost, seatsVars
      <4>2. CASE \E vk \in Voters, shares \in Splits : VoteRewards(vk, shares)
        BY <4>2 DEF VoteRewards, seatsVars
      <4>3. CASE \E stamps \in Stamps : IssueRewards(stamps)
        BY <4>3 DEF IssueRewards, seatsVars
      <4>4. CASE VersionCheck \/ \E vk \in Voters : VoteUpgrade(vk)
        <5>1. CASE VersionCheck
          BY <5>1 DEF VersionCheck, seatsVars
        <5>2. CASE \E vk \in Voters : VoteUpgrade(vk)
          <6>1. PICK vk \in Voters : VoteUpgrade(vk)
            BY <5>2
          <6>2. UNCHANGED << now, seatsVars, session, stamp, split, reward >>
            BY <6>1, Zenon DEF VoteUpgrade
          <6>3. QED
            BY <6>2 DEF seatsVars
        <5>3. QED
          BY <4>4, <5>1, <5>2
      <4>5. QED
        BY <3>2, <4>1, <4>2, <4>3, <4>4 DEF PolicyStep
    <3>3. CASE Tick
      BY <3>3 DEF Tick, seatsVars
    <3>4. CASE UNCHANGED vars
      BY <3>4 DEF vars, seatsVars
    <3>5. QED
      BY <3>1, <3>2, <3>3, <3>4 DEF Next
  <2>3. QED
    BY <2>1, <2>2, CoinsKept
<1>3. IInv /\ CoinsSum => StakesBacked
  BY CoinsSummed DEF IInv, SeatsInv, StakesBacked
<1>4. QED
  BY <1>1, <1>2, <1>3, Invariant, PTL DEF Spec

\* Who is to lose the next seat has one, or lost it by a motion against that
\* member or gave it up.
THEOREM LastIsSeated == Spec => []LastMemberSeated
<1>1. IInv => LastMemberSeated
  BY DEF IInv, SeatsInv, NextToGo, LastMemberSeated, LastMember
<1>2. QED
  BY <1>1, Invariant, PTL

\* Every vote of a rewards election adds 100, however the election was opened.
THEOREM SplitsTallied == Spec => []SplitTallied
<1>1. IInv => SplitTallied
  BY DEF IInv, SplitSound
<1>2. QED
  BY <1>1, Invariant, PTL

\* The rewards of a block are paid out of its stamps and what parts below zero add,
\* for every split that validate_vote lets pass, price, number of stamps and committee.
THEOREM RewardsCovered == Spec => []PaidOutOfStamps
<1>1. IInv => PaidOutOfStamps
  BY DEF IInv
<1>2. QED
  BY <1>1, Invariant, PTL

\* Consensus on an upgrade is that of different voters, two thirds of the nodes.
THEOREM UpgradesByQuorum == Spec => []UpgradeByQuorum
<1>1. IInv => UpgradeByQuorum
  BY DEF IInv
<1>2. QED
  BY <1>1, Invariant, PTL

\* Seats, counted with repetition, are at least the members who sit.
LEMMA SeatsCount ==
    ASSUME NEW s \in Seq(Accounts)
    PROVE  IsFiniteSet(ToSet(s)) /\ Cardinality(ToSet(s)) \in Nat /\ Cardinality(ToSet(s)) <= Len(s)
<1>1. Len(s) \in Nat /\ DOMAIN s = 1 .. Len(s)
  OBVIOUS
<1>2. IsFiniteSet(1 .. Len(s)) /\ Cardinality(1 .. Len(s)) = Len(s)
  BY <1>1, FS_Interval, SMTT(30)
<1>3. ToSet(s) = {s[i] : i \in 1 .. Len(s)}
  BY <1>1 DEF ToSet
<1>4. s \in Surjection(1 .. Len(s), ToSet(s))
  BY <1>1, <1>3 DEF Surjection
<1>5. QED
  BY <1>1, <1>2, <1>4, FS_Surjection, FS_CardinalityType

\* A motion on which all have taken a position is tied, or somebody sits twice:
\* otherwise one of the sides has more than half of the seats, and it is closed.
THEOREM ClosedUnlessTied == Spec => []OpenOnlyIfTied
<1>1. IInv => OpenOnlyIfTied
  <2> SUFFICES ASSUME IInv, \A a \in Seated : motion.positions[a] # "none",
                      motion.yays # motion.nays, ~ (Cardinality(Seated) < Len(members))
               PROVE  FALSE
    BY DEF OpenOnlyIfTied
  <2>1. SeatsTypeOK /\ MotionCounted
    BY DEF IInv, SeatsInv
  <2>2. members \in Seq(Accounts) /\ \A a \in Accounts : motion.positions[a] \in {"none", "yes", "no"}
    BY <2>1 DEF SeatsTypeOK
  <2>3. IsFiniteSet(Seated) /\ Cardinality(Seated) = Len(members) /\ Len(members) \in Nat
    <3>1. Len(members) \in Nat
      BY <2>2
    <3>2. IsFiniteSet(Seated) /\ Cardinality(Seated) \in Nat /\ Cardinality(Seated) <= Len(members)
      BY <2>2, SeatsCount DEF Seated
    <3>3. QED
      BY <3>1, <3>2
  <2>4. Seated = Taking("yes") \cup Taking("no") /\ Taking("yes") \cap Taking("no") = {}
    <3>1. Seated \subseteq Accounts
      BY <2>2 DEF Seated, ToSet
    <3>2. QED
      BY <2>1, <2>2, <3>1 DEF MotionCounted, Taking
  <2>5. PICK Y, N, seats : Y = Taking("yes") /\ N = Taking("no") /\ seats = Len(members)
    OBVIOUS
  <2>6. IsFiniteSet(Y) /\ IsFiniteSet(N)
    <3>1. Y \subseteq Seated /\ N \subseteq Seated
      BY <2>4, <2>5
    <3>2. QED
      BY <2>3, <3>1, FS_Subset
  <2>7. Cardinality(Y \cup N) = Cardinality(Y) + Cardinality(N)
    <3>1. Cardinality(Y \cap N) = 0
      BY <2>4, <2>5, FS_EmptySet
    <3>2. Cardinality(Y) \in Nat /\ Cardinality(N) \in Nat
      BY <2>6, FS_CardinalityType
    <3>3. Cardinality(Y \cup N) = Cardinality(Y) + Cardinality(N) - Cardinality(Y \cap N)
      BY <2>6, FS_Union
    <3>4. QED
      BY <3>1, <3>2, <3>3
  <2>8. Cardinality(Y) \in Nat /\ Cardinality(N) \in Nat /\ seats = Cardinality(Y) + Cardinality(N)
    BY <2>3, <2>4, <2>5, <2>6, <2>7, FS_CardinalityType
  <2>9. Cardinality(Y) < seats \div 2 + 1 /\ Cardinality(N) < seats \div 2 + 1 /\ Cardinality(Y) # Cardinality(N)
    BY <2>1, <2>5 DEF MotionCounted, Majority
  <2>10. seats \div 2 \in Nat /\ (seats \div 2) * 2 <= seats
    BY <2>3, <2>5
  <2>11. QED
    BY <2>8, <2>9, <2>10
<1>2. QED
  BY <1>1, Invariant, PTL

\* One election, whatever is voted, neither more than doubles nor more than
\* halves the price of stamps.
THEOREM PricesMoveByTwo == Spec => PriceMovesByTwo
<1>1. ASSUME IInv, [Next]_vars
      PROVE  stamp'.value <= 2 * stamp.value /\ stamp.value <= 2 * stamp'.value
  <2>1. CASE \E vk \in Voters, rate \in Rates : VoteStampCost(vk, rate)
    <3>1. PICK vk \in Voters, rate \in Rates : VoteStampCost(vk, rate)
      BY <2>1
    <3>2. rate \in Nat \ {0} /\ TypeOK /\ StampBounded
      BY <1>1, GovernanceAssumption DEF GovernanceAssumption, IInv
    <3>3. QED
      BY <3>1, <3>2, VoteStampCostStep
  <2>2. CASE stamp' = stamp
    <3>1. stamp.value \in Nat
      BY <1>1 DEF IInv, TypeOK
    <3>2. QED
      BY <2>2, <3>1
  <2>3. (\E vk \in Voters, rate \in Rates : VoteStampCost(vk, rate)) \/ stamp' = stamp
    BY <1>1 DEF Next, Tick, SeatsStep, PolicyStep, VoteRewards, IssueRewards, VoteUpgrade, VersionCheck, vars
  <2>4. QED
    BY <2>1, <2>2, <2>3
<1>2. IInv /\ [Next]_vars => [stamp'.value <= 2 * stamp.value /\ stamp.value <= 2 * stamp'.value]_vars
  BY <1>1
<1>3. QED
  BY <1>2, Invariant, PTL DEF Spec, PriceMovesByTwo

\* Nothing but a motion that passes changes the seats, or takes the registration of
\* somebody who sits.
LEMMA OnlyMotionsPassing ==
    ASSUME SeatsTypeOK, [Next]_vars,
           \/ members' # members
           \/ \E x \in Seated : x \in candidate.registered \ candidate'.registered
    PROVE  \E a \in Accounts, position \in {"yes", "no"} :
              /\ VoteOnMotion(a, position) /\ PassCurrentMotion
              /\ motion.yays + (IF position = "yes" THEN 1 ELSE 0) >= Majority
<1> DEFINE Goal == \E a \in Accounts, position \in {"yes", "no"} :
                      /\ VoteOnMotion(a, position) /\ PassCurrentMotion
                      /\ motion.yays + (IF position = "yes" THEN 1 ELSE 0) >= Majority
           Touched == \/ members' # members
                      \/ \E x \in Seated : x \in candidate.registered \ candidate'.registered
<1>0. candidate \in [registered : SUBSET Accounts, votes : [Accounts -> Nat \cup {None}],
                     lastVoted : [Accounts -> Nat \cup {None}], top : Accounts \cup {None}]
  BY DEF SeatsTypeOK
<1>1. CASE Motions(Kinds)
  <2>1. CASE \E a \in Accounts, kind \in Kinds, who \in Accounts \cup {None} : IntroduceMotion(a, kind, who)
    BY <2>1 DEF IntroduceMotion
  <2>2. CASE \E a \in Accounts, position \in {"yes", "no"} : VoteOnMotion(a, position)
    <3>1. PICK a \in Accounts, position \in {"yes", "no"} : VoteOnMotion(a, position)
      BY <2>2
    <3>2. CASE motion.yays + (IF position = "yes" THEN 1 ELSE 0) >= Majority
      BY <3>1, <3>2 DEF VoteOnMotion
    <3>3. CASE ~ (motion.yays + (IF position = "yes" THEN 1 ELSE 0) >= Majority)
      <4>1. UNCHANGED << members, candidate >>
        BY <3>1, <3>3 DEF VoteOnMotion
      <4>2. QED
        BY <4>1
    <3>4. QED
      BY <3>2, <3>3
  <2>3. QED
    BY <1>1, <2>1, <2>2 DEF Motions
<1>2. CASE Candidacies
  <2>1. PICK a \in Accounts :
            \/ Register(a) \/ Unregister(a) \/ Relinquish(a)
            \/ \E address \in Accounts : VoteCandidate(a, address) \/ VoteNoConfidence(a, address)
    BY <1>2 DEF Candidacies
  <2>2. members' = members
    BY <2>1 DEF Register, Unregister, Relinquish, VoteCandidate, VoteNoConfidence
  <2>3. CASE Register(a)
    BY <1>0, <2>2, <2>3 DEF Register
  <2>4. CASE Unregister(a)
    BY <1>0, <2>2, <2>4 DEF Unregister, MayUnregister, WithoutRegistration
  <2>5. CASE Relinquish(a) \/ \E address \in Accounts : VoteCandidate(a, address) \/ VoteNoConfidence(a, address)
    <3>1. candidate'.registered = candidate.registered
      BY <1>0, <2>5 DEF Relinquish, VoteCandidate, VoteNoConfidence
    <3>2. QED
      BY <2>2, <3>1
  <2>6. QED
    BY <2>1, <2>3, <2>4, <2>5
<1>3. CASE UNCHANGED << members, candidate >>
  BY <1>3
<1>4. Motions(Kinds) \/ Candidacies \/ UNCHANGED << members, candidate >>
  <2>1. CASE SeatsStep
    BY <2>1, SeatsMove
  <2>2. CASE Tick \/ UNCHANGED vars
    BY <2>2 DEF Tick, vars, seatsVars
  <2>3. CASE PolicyStep
    BY <2>3 DEF PolicyStep, VoteStampCost, VoteRewards, IssueRewards, VoteUpgrade, VersionCheck, seatsVars
  <2>4. QED
    BY <2>1, <2>2, <2>3 DEF Next
<1>5. QED
  BY <1>1, <1>2, <1>3, <1>4

\* Seats change only when more than half of the seats, each a member, are for it.
THEOREM MajorityChangesSeats == Spec => SeatsChangeByMajority
<1>1. ASSUME IInv, [Next]_vars, members' # members
      PROVE  2 * (Cardinality({a \in Seated : motion.positions[a] = "yes"}) + 1) > Len(members)
  <2>0. SeatsTypeOK /\ MotionCounted
    BY <1>1 DEF IInv, SeatsInv
  <2>1. PICK position \in {"yes", "no"} : motion.yays + (IF position = "yes" THEN 1 ELSE 0) >= Majority
    BY <1>1, <2>0, OnlyMotionsPassing
  <2>2. {a \in Seated : motion.positions[a] = "yes"} = Taking("yes")
    <3>1. Seated \subseteq Accounts
      <4>1. members \in Seq(Accounts)
        BY <2>0 DEF SeatsTypeOK
      <4>2. QED
        BY <4>1 DEF Seated, ToSet
    <3>2. QED
      BY <2>0, <3>1 DEF MotionCounted, Taking
  <2>3. PICK yes, seats : yes = Cardinality(Taking("yes")) /\ seats = Len(members)
    OBVIOUS
  <2>4. yes \in Nat /\ yes = motion.yays /\ seats \in Nat
    <3>1. members \in Seq(Accounts) /\ motion.yays \in Nat
      BY <2>0 DEF SeatsTypeOK
    <3>2. QED
      BY <2>0, <2>3, <3>1 DEF MotionCounted
  <2>5. yes + 1 >= seats \div 2 + 1
    BY <2>1, <2>3, <2>4 DEF Majority
  <2>6. 2 * (yes + 1) > seats
    BY <2>4, <2>5
  <2>7. QED
    BY <2>2, <2>3, <2>6
<1>2. IInv /\ [Next]_vars
        => [members' # members =>
              2 * (Cardinality({a \in Seated : motion.positions[a] = "yes"}) + 1) > Len(members)]_<< now, seatsVars >>
  BY <1>1
<1>3. QED
  BY <1>2, Invariant, PTL DEF Spec, SeatsChangeByMajority

\* Who sits loses the registration, and with it the stake, only with a seat.
THEOREM StakesFollowSeats == Spec => StakeFollowsSeat
<1>1. ASSUME IInv, [Next]_vars, NEW x \in Accounts,
             x \in Seated, x \in candidate.registered \ candidate'.registered
      PROVE  SeatsOf(x)' < SeatsOf(x)
  <2>0. SeatsTypeOK
    BY <1>1 DEF IInv, SeatsInv
  <2>1. PassCurrentMotion /\ motion.kind # "none"
    <3>1. PICK a \in Accounts, position \in {"yes", "no"} : VoteOnMotion(a, position) /\ PassCurrentMotion
      BY <1>1, <2>0, OnlyMotionsPassing
    <3>2. QED
      BY <3>1 DEF VoteOnMotion
  <2>2. /\ motion.kind \in {"remove_member", "add_seat", "remove_seat"}
        /\ candidate \in [registered : SUBSET Accounts, votes : [Accounts -> Nat \cup {None}],
                          lastVoted : [Accounts -> Nat \cup {None}], top : Accounts \cup {None}]
    BY <2>0, <2>1 DEF SeatsTypeOK, Kinds
  <2>3. motion.kind = "remove_seat"
    <3>1. CASE motion.kind = "remove_member"
      <4>1. candidate' = candidate
        BY <2>1, <3>1 DEF PassCurrentMotion, RemoveMember
      <4>2. QED
        BY <1>1, <4>1
    <3>2. CASE motion.kind = "add_seat"
      <4>1. AddSeat
        BY <2>1, <3>2 DEF PassCurrentMotion
      <4>2. candidate'.registered = candidate.registered
        BY <2>2, <4>1 DEF AddSeat, PopTop
      <4>3. QED
        BY <1>1, <4>2
    <3>3. QED
      BY <2>2, <3>1, <3>2
  <2>4. RemoveSeat
    BY <2>1, <2>3 DEF PassCurrentMotion
  <2>5. LastMember # None /\ Removed(LastMember) /\ PopLast
    BY <1>1, <2>4 DEF RemoveSeat
  <2>6. relinquishing = None /\ candidate'.registered = candidate.registered \ {confidence.last}
    BY <1>1, <2>2, <2>5 DEF PopLast
  <2>7. x = LastMember
    BY <1>1, <2>6 DEF LastMember
  <2>8. Removed(x)
    BY <2>5, <2>7
  <2>9. QED
    BY <2>0, <2>8, RemovalEffect
<1>2. IInv /\ [Next]_vars
        => [\A a \in Accounts :
              a \in Seated /\ a \in candidate.registered \ candidate'.registered
                => SeatsOf(a)' < SeatsOf(a)]_<< now, seatsVars >>
  BY <1>1
<1>3. QED
  BY <1>2, Invariant, PTL DEF Spec, StakeFollowsSeat
================================================================================
