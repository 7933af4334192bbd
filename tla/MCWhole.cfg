\* Everything from the creation of the contract on, for a single account
SPECIFICATION VotingSpec
CONSTANTS
    r1 = r1
    p1 = p1
    p2 = p2
    k1 = k1
    k2 = k2
    v1 = v1
    v2 = v2
    Account = {p1}
    PublicKey = {k1}
    ZeroAddress = ZeroAddress
    MinimumStake = 1
    InitialSettings <- MCSmallSettings
    Settings <- MCNewSubscription
    InitialToken <- MCTwo
    InitialAlgo <- MCTwo
    StakeAmount = {1}
    DepositAmount = {1, 2}
    MaxRound = 5
    Requester = {p1}
    Key = {"x"}
    Answer = {"yes"}
    VotingApp = {v1}
    BoxCost = 1
    MinFee = 1
    MaxRequests = 1
    Voter = {p1}
    VoteCount = {1}
    RejectingKey = {}
INVARIANTS TypeOK 
CHECK_DEADLOCK FALSE
