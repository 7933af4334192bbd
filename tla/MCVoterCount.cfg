\* The count of approxCDF against the contract, with the real table size
SPECIFICATION Spec
CONSTANTS
    Half = 150
    Size = 50
    Table <- MCTable
    MaxZ = 7
    Short = {29, 35, 41}
    Stake = {0, 999, 1000, 5000, 49000, 50000, 120500, 400000}
    MaxMean = 400
    Root <- MCRoot
INVARIANTS VoterAgrees
CHECK_DEADLOCK FALSE
