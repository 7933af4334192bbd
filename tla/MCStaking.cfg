\* Stakes of two accounts over five rounds, with opt-in and clear-state
SPECIFICATION StakingSpec
CONSTANTS
    a1 = a1
    a2 = a2
    k1 = k1
    Account = {a1, a2}
    PublicKey = {}
    ZeroAddress = ZeroAddress
    MinimumStake = 2
    InitialSettings <- MCShortLock
    Settings = {}
    InitialToken <- MCTokens
    InitialAlgo <- MCNothing
    StakeAmount = {0, 1, 2, 3}
    DepositAmount = {}
    MaxRound = 5
INVARIANTS SnapshotsWithinTotal StakeHeldForTimeLock
PROPERTIES SnapshotFrozen
CHECK_DEADLOCK FALSE
