CONSTANTS
    m1 = m1
    m2 = m2
    Member <- MCMember
    Leaver <- MCLeaver
    Manager <- MCManager
    FirstManager = m1
    FirstShare = 500
    ManagerShare = {0}
    Timeout = 0
    MinimumStake = 2
    TimeLock = 1
    Timestamp = 100
    MaxUint = 1000
    InitialToken <- MCWallet
    Amount = {1, 2}
    Reward = {2}
    MaxRound = 4
    MaxEarned = 2
    MaxPending = 1
    Caller = {}
    MaxUnbacked = 0
SPECIFICATION Spec
INVARIANT SharesWithinRewards
CHECK_DEADLOCK FALSE
