SPECIFICATION FairSpec
CONSTANTS
    t1 = t1
    t2 = t2
    t3 = t3
    w1 = w1
    w2 = w2
    Txs <- MCTxs
    Unreadable <- MCUnreadable
    Workers <- MCWorkers
    TxsPerBatch = 2
    MaxClock = 1
    MaxFaults = 1
    MaxCrashes = 1
INVARIANTS
    TypeOK
    MarkedIsTaken
    HandedOutAtMostOnce
    AnswersAreTrue
PROPERTIES
    PendingIsPicked
