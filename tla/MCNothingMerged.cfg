SPECIFICATION Spec
CONSTANTS
    Depth = 2
    SubTreeHeight = 1
    GenesisLeaves = {0, 1}
    Depositor <- MCDepositor
    MaxBlocks = 3
    MaxDeposits = 2
    MaxTransfers = 0
    MaxTokens = 0
    MaxPubkeys = 0
    EmptyLeaves <- MCFourWords
    MaxCrashes = 0
    MaxRestarts = 0
    MaxFaults = 0
INVARIANT
    FinalisedSubtreeHoldsItsDeposits
CHECK_DEADLOCK FALSE
