CONSTANTS
    m1 = m1
    m2 = m2
    Member <- MCMember
    Leaver <- MCLeaver
    Manager <- MCManager
    FirstManager = m1
    FirstShare = 500
    ManagerShare = {0, 2000}
    Timeout = 0
    MinimumStake = 2
    TimeLock = 1
    Timestamp = 100
    MaxUint = 5000
    InitialToken <- MCWallet
    Amount = {2}
    Reward = {2}
    MaxRound = 3
    MaxEarned = 2
    MaxPending = 2
    Caller = {0}
    MaxUnbacked = 2
SPECIFICATION FairSpec
INVARIANTS TypeOK PoolMirrorsMain StakeBelongsToMembers PrincipalConserved StakeTimeCovered
PROPERTIES DepositsWait PendingSettles
CHECK_DEADLOCK FALSE
