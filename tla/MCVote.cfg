\* Two contracts and two requests, open at once or one after the other; the
\* destination of key z rejects the answer; the requester votes too
SPECIFICATION RequestsSpec
SYMMETRY NameSymmetry
CONSTANTS
    r1 = p1
    p1 = p1
    p2 = p2
    k1 = k1
    k2 = k2
    v1 = v1
    v2 = v2
    Account = {p1, p2}
    PublicKey = {p1, p2}
    ZeroAddress = ZeroAddress
    MinimumStake = 1000
    InitialSettings <- MCSettings
    Settings = {}
    InitialToken <- MCNothing
    InitialAlgo <- MCNothing
    StakeAmount = {}
    DepositAmount = {}
    MaxRound = 7
    Requester = {p1}
    Key = {"x", "z"}
    Answer = {yes, no}
    VotingApp = {v1, v2}
    BoxCost = 3
    MinFee = 1
    MaxRequests = 2
    Voter = {p1, p2}
    VoteCount = {1, 3}
    RejectingKey = {"z"}
INVARIANTS VotingTypeOK   SinksCoverRefunds OneContractPerRequest
PROPERTIES TallyWithinStake 
CHECK_DEADLOCK FALSE
