\* The deposit of a completed request is credited twice
SPECIFICATION RequestsSpec
CONSTANTS
    r1 = r1
    p1 = p1
    p2 = p2
    k1 = k1
    k2 = k2
    v1 = v1
    v2 = v2
    Account = {r1, p1, p2}
    PublicKey = {p1, p2}
    ZeroAddress = ZeroAddress
    MinimumStake = 1000
    InitialSettings <- MCSettings
    Settings = {}
    InitialToken <- MCNothing
    InitialAlgo <- MCNothing
    StakeAmount = {}
    DepositAmount = {}
    MaxRound = 8
    Requester = {r1}
    Key = {"x", "y"}
    Answer = {"yes", "no"}
    VotingApp = {v1}
    BoxCost = 3
    MinFee = 1
    MaxRequests = 2
    Voter = {p1, p2}
    VoteCount = {1, 3}
    RejectingKey = {}
INVARIANTS BoxDepositReturnedOnce
SYMMETRY VoterSymmetry
CHECK_DEADLOCK FALSE
