SPECIFICATION Spec
CONSTANTS
    Depth = 3
    SubTreeHeight = 2
    GenesisLeaves = {0}
    Depositor <- MCDepositor
    MaxBlocks = 2
    MaxDeposits = 6
    MaxTransfers = 0
    MaxTokens = 0
    MaxPubkeys = 0
    EmptyLeaves <- MCEmptyLeaves
    MaxCrashes = 1
    MaxRestarts = 2
    MaxFaults = 1
INVARIANTS
    TypeOK
    LeavesOfFinalisedPath
    NoDepositLost
PROPERTIES
    NoLeafOverwritten
CHECK_DEADLOCK FALSE
