\* One request while voters change keys and stakes; its destination rejects the
\* answer
SPECIFICATION ParticipationSpec
CONSTANTS
    r1 = r1
    p1 = p1
    p2 = p2
    k1 = k1
    k2 = k2
    v1 = v1
    v2 = v2
    Account = {r1, p1, p2}
    PublicKey = {k1, k2}
    ZeroAddress = ZeroAddress
    MinimumStake = 1000
    InitialSettings <- MCSettings
    Settings = {}
    InitialToken <- MCSpareStake
    InitialAlgo <- MCNothing
    StakeAmount = {0, 2000}
    DepositAmount = {}
    MaxRound = 7
    Requester = {r1}
    Key = {"x"}
    Answer = {"yes"}
    VotingApp = {v1}
    BoxCost = 3
    MinFee = 1
    MaxRequests = 1
    Voter = {p1, p2}
    VoteCount = {1, 3}
    RejectingKey = {"x"}
PROPERTIES TallyWithinStake RequestsSettle
CHECK_DEADLOCK FALSE
