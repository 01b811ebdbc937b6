------------------------------- MODULE Genesis -------------------------------
(***************************************************************************)
(* The start of a node.  StartCmd reads the configuration (NodeConfig),    *)
(* several times over, takes a node without a sync status for a new one    *)
(* and has loadGenesisData fill the tables, statement by statement and     *)
(* without a database transaction.  InitStateTree and InitAccountTree are  *)
(* the same algorithm on two tables.  `init` may be run at any time.       *)
(*                                                                         *)
(* A table is kept level by level, each level in the order of insertion,   *)
(* in which a query without ORDER BY returns its rows.  A node of a level   *)
(* is a number, its path read as a binary number.  A hash is the term it   *)
(* was computed from.                                                      *)
(***************************************************************************)
EXTENDS NodeConfig, Sequences

CONSTANTS
    Depth,          \* MaxTreeDepth of the genesis file
    Accounts,       \* number of accounts in the genesis file once it is right
    ChunkSize,      \* rows per INSERT of gormbulk
    MaxCrashes,
    MaxFaults,      \* errors that loadGenesisData ignores
    MaxStarts       \* bound on the number of times the process is started

ASSUME GenesisAssumption ==
    /\ Depth \in Nat \ {0} /\ ChunkSize \in Nat \ {0}
    /\ Accounts \in 1 .. 2 ^ Depth
    /\ MaxCrashes \in Nat /\ MaxFaults \in Nat /\ MaxStarts \in Nat

Tables == {"states", "accounts"}
Params == <<"stakeAmount", "maxDepth", "maxDepositSubTreeHeight", "finalisationTime">>

VARIABLES
    \* The database.
    rows,           \* of each table, by level
    params,         \* the parameters that have been stored
    syncStatus,     \* there is a row in sync_statuses
    \* The process.
    up, pc,
    table,          \* the tree under construction
    level,          \* the level being inserted
    batch,          \* the rows of that level that BulkInsert has not sent yet
    param,          \* the next parameter to store
    \* History.
    crashes, faults, starts,
    overwritten,    \* `init` has touched config.toml since the start
    torn            \* a crash has left a level of a tree with a part of its rows

database == <<rows, params, syncStatus>>
process == <<up, pc, table, level, batch, param>>
history == <<crashes, faults, starts, overwritten, torn>>
vars == <<database, process, history, files, globals>>

-----------------------------------------------------------------------------

ZeroLeaf == <<"zero">>

\* An empty state is given the encoded state of the first account.
StateHash(n) == <<"state", IF n < Accounts THEN n ELSE 0>>

\* PopulateHash: the hash of the public key, or of the zero leaf without one.
AccountHash(n) == IF n < Accounts THEN <<"pubkey", n>> ELSE ZeroLeaf

\* The n-th leaf that loadGenesisData builds.
LeafHash(t, n) == IF t = "states" THEN StateHash(n) ELSE AccountHash(n)

\* The path 0...0.
GenCoordinatorPath == 0

\* The path read as a number, plus one, padded to its length: among the
\* leaves that are built this never grows the path.
GetAdjacentNodePath(n) == n + 1

Row(n, hash) == [node |-> n, hash |-> hash]

GetParent(left, right) == <<left, right>>

\* Mutant: a node is paired with itself.
PairWithItself(accs) ==
    [k \in 1 .. Len(accs) \div 2 |->
        LET left == accs[2 * k - 1] IN
        Row(left.node \div 2, GetParent(left.hash, left.hash))]

\* Mutant: the path of a child is kept.
PathNotCut(accs) ==
    [k \in 1 .. Len(accs) \div 2 |->
        LET left == accs[2 * k - 1]
            right == accs[2 * k] IN
        Row(left.node, GetParent(left.hash, right.hash))]

\* The next level, two rows at a time; the path is that of the left one.
NextLevelAccounts(accs) ==
    [k \in 1 .. Len(accs) \div 2 |->
        LET left == accs[2 * k - 1]
            right == accs[2 * k] IN
        Row(left.node \div 2, GetParent(left.hash, right.hash))]

Init ==
    /\ rows = [t \in Tables |-> [l \in 0 .. Depth |-> <<>>]]
    /\ params = {}
    /\ syncStatus = FALSE
    /\ up = FALSE /\ pc = "start" /\ table = "states" /\ level = Depth
    /\ batch = <<>> /\ param = 1
    /\ crashes = 0 /\ faults = 0 /\ starts = 0 /\ overwritten = FALSE /\ torn = FALSE
    /\ ConfigInit

GoDown ==
    /\ up' = FALSE /\ pc' = "start" /\ table' = "states" /\ level' = Depth
    /\ batch' = <<>> /\ param' = 1
    /\ UNCHANGED database

StartCmd ==
    /\ ~up /\ starts < MaxStarts
    /\ up' = TRUE /\ pc' = "config"
    /\ starts' = starts + 1
    /\ overwritten' = (initPc = "config")
    /\ UNCHANGED <<database, table, level, batch, param, crashes, faults, torn, files, globals>>

\* The calls that read the configuration, in their order.
InitConfigAndGlobals == <<"config", "db", "bazooka">>
NewAggregator == <<"aggregatorBazooka", "aggregatorDB">>
NewSyncer == <<"syncerBazooka", "syncerDB">>

Loads == InitConfigAndGlobals \o NewAggregator \o NewSyncer

CallsOfNewDB == {"db", "aggregatorDB", "syncerDB"}

Load(call) ==
    CASE call = "config" -> ReadAndInitGlobalConfig
      [] call \in CallsOfNewDB -> NewDB
      [] OTHER -> NewPreLoadedBazooka

LoadConfig(k) ==
    /\ pc = Loads[k]
    /\ Load(pc)
    /\ pc' = IF k < Len(Loads) THEN Loads[k + 1] ELSE "status"
    /\ UNCHANGED <<database, up, table, level, batch, param, history, files>>

\* The file is missing or names no database, or there is none: panic.
LoadConfigFails(k) ==
    /\ pc = Loads[k]
    /\ \/ pc = "config" /\ ~configFile.exists
       \/ pc \in CallsOfNewDB /\ ~(FormattedDBURL /\ schema # "none")
    /\ GoDown
    /\ UNCHANGED <<history, files, globals>>

\* Mutant: the parameters, which are stored earlier, tell a new node.
StartWithoutParams ==
    /\ pc = "status"
    /\ pc' = IF params # {} THEN "running" ELSE "genesis"
    /\ UNCHANGED <<database, up, table, level, batch, param, history, files, globals>>

\* Mutant: the sync status is not looked at.
StartAsNew ==
    /\ pc = "status"
    /\ pc' = "genesis"
    /\ UNCHANGED <<database, up, table, level, batch, param, history, files, globals>>

\* No row is a new node; the error of a missing table is a panic.
GetSyncStatus ==
    /\ pc = "status"
    /\ IF schema # "migrated" THEN GoDown
       ELSE /\ pc' = IF syncStatus THEN "running" ELSE "genesis"
            /\ UNCHANGED <<database, up, table, level, batch, param>>
    /\ UNCHANGED <<history, files, globals>>

\* What matters of a genesis file: the number of its accounts, whether the first
\* one is the coordinator's, with zeros only, and whether the public keys are
\* hexadecimal strings, which the "0" of the default ones is not.
Contents(accounts, coordinator, keys) ==
    [accounts |-> accounts, coordinator |-> coordinator, keys |-> keys]

GenesisOf(file) ==
    CASE file = "edited" -> Contents(Accounts, TRUE, TRUE)
      [] file = "noAccounts" -> Contents(0, FALSE, TRUE)
      [] file = "tooMany" -> Contents(2 ^ Depth + 1, TRUE, TRUE)
      [] file = "noCoordinator" -> Contents(Accounts, FALSE, TRUE)
      [] file = DefaultGenesis -> Contents(2, TRUE, FALSE)

Validate(genesis) ==
    /\ genesis.accounts <= 2 ^ Depth
    /\ genesis.accounts >= 1
    /\ genesis.coordinator

\* The file is read, without an error of os.Open or json.Unmarshal, and
\* loadGenesisData checks it and makes states and accounts of it; NewAccount
\* decodes the public keys.
Loadable(file) ==
    /\ file \notin {"missing", "empty"}
    /\ Validate(GenesisOf(file))
    /\ GenesisOf(file).keys

\* ReadGenesisFile and the first loops of loadGenesisData, which panic before
\* anything is stored.
ReadGenesisFile ==
    /\ pc = "genesis"
    /\ IF Loadable(genesisFile)
       THEN /\ pc' = "coordinator"
            /\ UNCHANGED <<database, up, table, level, batch, param>>
       ELSE GoDown
    /\ UNCHANGED <<history, files, globals>>

-----------------------------------------------------------------------------
(* InitStateTree, InitAccountTree                                           *)

\* The leaf of the coordinator is inserted alone.
InsertCoordinator ==
    /\ pc = "coordinator"
    /\ rows' = [rows EXCEPT ![table][Depth] =
                    Append(@, Row(GenCoordinatorPath, LeafHash(table, 0)))]
    /\ batch' = [n \in 1 .. 2 ^ Depth - 1 |->
                    Row(GetAdjacentNodePath(n - 1), LeafHash(table, n))]
    /\ level' = Depth
    /\ pc' = "insert"
    /\ UNCHANGED <<params, syncStatus, up, table, param, history, files, globals>>

\* One INSERT of BulkInsert.
BulkInsert ==
    LET n == IF Len(batch) < ChunkSize THEN Len(batch) ELSE ChunkSize IN
    /\ pc = "insert" /\ batch # <<>>
    /\ rows' = [rows EXCEPT ![table][level] = @ \o SubSeq(batch, 1, n)]
    /\ batch' = SubSeq(batch, n + 1, Len(batch))
    /\ UNCHANGED <<params, syncStatus, up, pc, table, level, param, history, files, globals>>

\* All the rows of the level, those an earlier attempt left included.
GetAccountByDepth(l) == rows[table][l]

Merkelise ==
    /\ pc = "insert" /\ batch = <<>> /\ level > 0
    /\ Len(GetAccountByDepth(level)) % 2 = 0
    /\ batch' = NextLevelAccounts(GetAccountByDepth(level))
    /\ level' = level - 1
    /\ UNCHANGED <<database, up, pc, table, param, history, files, globals>>

\* accs[i+1] with an odd number of rows.
IndexOutOfRange ==
    /\ pc = "insert" /\ batch = <<>> /\ level > 0
    /\ Len(GetAccountByDepth(level)) % 2 = 1
    /\ GoDown
    /\ UNCHANGED <<history, files, globals>>

TreeDone ==
    /\ pc = "insert" /\ batch = <<>> /\ level = 0
    /\ IF table = "states"
       THEN table' = "accounts" /\ pc' = "coordinator"
       ELSE pc' = "params" /\ UNCHANGED table
    /\ UNCHANGED <<database, up, level, batch, param, history, files, globals>>

-----------------------------------------------------------------------------

\* UpdateStakeAmount and the like: the row is created or updated.
UpdateParam ==
    /\ pc = "params" /\ param <= Len(Params)
    /\ params' = params \cup {Params[param]}
    /\ param' = param + 1
    /\ UNCHANGED <<rows, syncStatus, up, pc, table, level, batch, history, files, globals>>

\* Their errors are ignored.
UpdateParamFails ==
    /\ pc = "params" /\ param <= Len(Params)
    /\ faults < MaxFaults
    /\ faults' = faults + 1
    /\ param' = param + 1
    /\ UNCHANGED <<database, up, pc, table, level, batch, crashes, starts, overwritten, torn,
                   files, globals>>

InitSyncStatus ==
    /\ pc = "params" /\ param > Len(Params)
    /\ syncStatus' = TRUE
    /\ pc' = "running"
    /\ UNCHANGED <<rows, params, up, table, level, batch, param, history, files, globals>>

\* The process dies, or a statement whose error is not ignored fails: panic.
Crash ==
    /\ up /\ crashes < MaxCrashes
    /\ crashes' = crashes + 1
    /\ torn' = (torn \/ Len(rows[table][level]) % 2 ^ level # 0)
    /\ GoDown
    /\ UNCHANGED <<faults, starts, overwritten, files, globals>>

\* The other command, at any time.
RunInit ==
    /\ ConfigStep
    /\ overwritten' = (overwritten \/ configFile' # configFile)
    /\ UNCHANGED <<database, process, crashes, faults, starts, torn, globals>>

Next ==
    \/ RunInit
    \/ StartCmd
    \/ \E k \in 1 .. Len(Loads) : LoadConfig(k) \/ LoadConfigFails(k)
    \/ GetSyncStatus
    \/ ReadGenesisFile
    \/ InsertCoordinator
    \/ BulkInsert
    \/ Merkelise
    \/ IndexOutOfRange
    \/ TreeDone
    \/ UpdateParam
    \/ UpdateParamFails
    \/ InitSyncStatus
    \/ Crash

Spec == Init /\ [][Next]_vars

-----------------------------------------------------------------------------
(* Properties                                                               *)

Nodes(l) == 0 .. 2 ^ l - 1

\* The rows of a level name nodes of that level only; hashes are terms.
RowsOfLevel(accs, l) == \A k \in DOMAIN accs : accs[k].node \in Nodes(l)

TypeOK ==
    /\ \A t \in Tables, l \in 0 .. Depth : RowsOfLevel(rows[t][l], l)
    /\ params \subseteq {Params[k] : k \in DOMAIN Params}
    /\ syncStatus \in BOOLEAN /\ up \in BOOLEAN
    /\ pc \in {"start", "status", "genesis", "coordinator", "insert", "params", "running"}
             \cup {Loads[k] : k \in DOMAIN Loads}
    /\ table \in Tables /\ level \in 0 .. Depth
    /\ RowsOfLevel(batch, level)
    /\ param \in 1 .. Len(Params) + 1
    /\ configFile \in Configs /\ globalCfg \in Configs
    /\ operatorKey \in 0 .. MaxInits /\ inits \in 0 .. MaxInits
    /\ genesisFile \in GenesisFiles
    /\ initPc \in {"none", "config", "genesis", "write"}
    /\ schema \in {"none", "empty", "migrated"}
    /\ short \in BOOLEAN /\ overwritten \in BOOLEAN /\ torn \in BOOLEAN

\* The Merkle tree over the genesis leaves: the hash of every node.
MerkleTree(t) ==
    LET H[l \in 0 .. Depth] ==
            [n \in Nodes(l) |-> IF l = Depth THEN LeafHash(t, n)
                                ELSE GetParent(H[l + 1][2 * n], H[l + 1][2 * n + 1])]
    IN  H

\* In a node that runs every row of both trees carries the Merkle hash of its
\* node, however often the bootstrap crashed and started again, unless it crashed
\* between the INSERTs of one level: the rows that earlier attempts of
\* InitStateTree or InitAccountTree left behind are read and paired together with
\* those of the next attempt.
RunningTreesAreMerkle ==
    pc = "running" /\ ~torn => \A t \in Tables, l \in 0 .. Depth :
        LET accs == rows[t][l] IN
        \A k \in DOMAIN accs : accs[k].hash = MerkleTree(t)[l][accs[k].node]

\* A node that runs has a row for every node of both trees, a sync status and,
\* unless an error of their statements was ignored, all parameters: the sync
\* status, by which StartCmd knows a node that was loaded, is written last.
RunningIsLoaded ==
    pc = "running" =>
        /\ syncStatus
        /\ \A t \in Tables, l \in 0 .. Depth : \A n \in Nodes(l) :
              \E k \in DOMAIN rows[t][l] : rows[t][l][k].node = n
        /\ faults = 0 => params = {Params[k] : k \in DOMAIN Params}

\* Once the sync status is there no restart loads the genesis again.
LoadedOnce == [][syncStatus => UNCHANGED database]_vars

\* A node that runs has the operator key of its configuration, and not that of no
\* bytes, although `init` empties the file before it writes it and an empty file
\* is read without an error: NewDB fails on it, and is called once more after
\* SetOperatorKeys.  An `init` during the start leaves the older key in use with
\* the newer configuration.  Only a file cut short after the settings of the
\* database is taken without a key.
RunningKeyIsConfigured ==
    pc = "running" /\ ~short =>
        /\ 0 < operatorKey /\ operatorKey <= globalCfg.key
        /\ ~overwritten => operatorKey = configFile.key /\ globalCfg = configFile

=============================================================================
