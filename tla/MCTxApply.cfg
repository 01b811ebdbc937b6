SPECIFICATION Spec
CONSTANTS
    Txs <- MCTxs
    Details <- MCDetails
    InitStates <- MCInitStates
    MaxCalls = 5
    MaxFaults = 1
    MaxCrashes = 1
CHECK_DEADLOCK FALSE
INVARIANTS
    Conserved
    AppliedAtMostOnce
    StatusFollowsRows
    RowsHashTheirData
