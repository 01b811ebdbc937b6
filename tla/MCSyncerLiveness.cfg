SPECIFICATION FairSpec
CONSTANTS
    Depth = 2
    SubTreeHeight = 1
    GenesisLeaves = {0, 1}
    Depositor <- MCDepositor
    MaxBlocks = 2
    MaxDeposits = 2
    MaxTransfers = 1
    MaxTokens = 0
    MaxPubkeys = 0
    EmptyLeaves <- MCEmptyLeaves
    MaxCrashes = 1
    MaxRestarts = 2
    MaxFaults = 1
PROPERTIES
    SyncReachesHeadOrBatch
CHECK_DEADLOCK FALSE
