SPECIFICATION FairSpec
CONSTANTS
    Registered <- MCRegistered
    TablesOf <- MCTablesOf
    Irreversible = {2}
    Procs = {p1, p2}
    MaxCommands = 3
    MaxFaults = 1
INVARIANTS
    TypeOK
    RecordedHasTables
    RecordedIsPrefix
PROPERTIES
    RollbackKeepsTheEarlier
    UpCompletes
CHECK_DEADLOCK FALSE
