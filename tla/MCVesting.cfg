CONSTANTS
    u1 = u1
    u2 = u2
    h1 = h1
    h2 = h2
    app = app
    App = app
    Vestee <- MCVestee
    Hash = {h1, h2}
    Delegator = {app}
    VestAmount = {2}
    TimeToVest = {2}
    MaxTime = 3
    MaxVested = 4
    Member <- MCMember
    Leaver <- MCNobody
    Manager = {u2}
    FirstManager = u2
    FirstShare = 0
    ManagerShare = {}
    Timeout = 0
    MinimumStake = 2
    TimeLock = 1
    Timestamp = 100
    MaxUint = 1000
    InitialToken <- MCEmpty
    Amount = {2}
    Reward = {}
    MaxRound = 3
    MaxEarned = 0
    MaxPending = 2
    MaxUnbacked = 0
    Caller = {0, 7}
    VestingApp = 7
SPECIFICATION Spec
SYMMETRY HashSymmetry
INVARIANTS VestingTypeOK ClaimedWithinSchedule VaultCoversBoxes LentOnRecord
CHECK_DEADLOCK FALSE
