SPECIFICATION Spec
CONSTANTS
    Depth = 2
    SubTreeHeight = 1
    GenesisLeaves = {0, 1}
    Depositor <- MCDepositor
    MaxBlocks = 3
    MaxDeposits = 0
    MaxTransfers = 2
    MaxTokens = 1
    MaxPubkeys = 1
    EmptyLeaves <- MCEmptyLeaves
    MaxCrashes = 1
    MaxRestarts = 2
    MaxFaults = 1
INVARIANTS
    NoLogSkipped
    BatchStoredOnce
PROPERTIES
    RecordedBlockAdvances
    FollowsTheChain
CHECK_DEADLOCK FALSE
