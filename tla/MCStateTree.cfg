SPECIFICATION Spec
CONSTANTS
    Depth = 2
    zero = zero
    blank = blank
    account = account
    Data <- MCData
    Zero = zero
    Genesis <- MCGenesis
INVARIANTS
    TypeOK
    OnlyInterruptedNodesAreStale
    RootIsMerkleRoot
    DepositNodeIsVacant
PROPERTY
    WritesStayOnThePath
