SPECIFICATION FairSpec
INVARIANTS
    TypeOK
    CalledAtMostOnce
    RunningHasDatabase
PROPERTY
    InterruptEnds
CHECK_DEADLOCK FALSE
