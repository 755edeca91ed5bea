SPECIFICATION Spec
CONSTANTS
    a = a
    b = b
    c = c
    None = None
    Accounts = {a, b, c}
    Founders <- MCFounders
    Minimum = 1
    MemberCost = 2
    VoteCost = 1
    Funds <- MCFunds
    Treasury = Treasury
    Blackhole = Blackhole
    Others = {d1, d2, d3}
    FirstRate = 2
    Rates = {1, 2, 4}
    Unit = 2
    FirstSplit <- MCFirstSplit
    Splits <- MCSplits
    ElectionLength = 1
    ElectionWindow = 1
    Stamps = {7}
    Dust = 1000
    MaxNow <- MCMaxNow
INVARIANTS TypeOK StakesBacked LastMemberSeated OpenOnlyIfTied SplitTallied PaidOutOfStamps UpgradeByQuorum
PROPERTIES StakeFollowsSeat SeatsChangeByMajority PriceMovesByTwo
CHECK_DEADLOCK FALSE
