\* Every quantile and table index, for means on both sides of a jump of the root
\* and one whose deviation makes a count that is two off
SPECIFICATION Spec
CONSTANTS
    Half = 150
    Size = 50
    Table <- MCTable
    MaxZ = 7
    Short = {29, 35, 41}
    Stake = {0, 999, 1000, 5000, 49000, 50000, 120500, 400000, 12200000}
    MaxMean = 12200
    Root <- MCRoot
INVARIANTS SortitionTypeOK EveryDrawCounts BetterDrawCountsNoLess VoterNearlyAgrees
CHECK_DEADLOCK FALSE
