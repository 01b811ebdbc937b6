SPECIFICATION Spec
CONSTANTS
    Depth = 2
    k0 = k0
    k1 = k1
    none = none
    NoKey = none
    Keys <- MCKeys
    InitHash <- MCInitHash
INVARIANTS
    InnerRowsFollow
    RootHoldsLatestKeys
PROPERTIES
    RedeliveryChangesNothing
