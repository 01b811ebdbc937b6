------------------------------ MODULE NodeConfig ------------------------------
(***************************************************************************)
(* The files config.toml and genesis.json, the command `init` that writes  *)
(* them (cmd/init.go), and what a starting node reads of the first one:    *)
(* config.GlobalCfg and config.OperatorKey (config/config.go), NewDB       *)
(* (core/db.go) and NewPreLoadedBazooka (core/bazooka.go).                 *)
(*                                                                         *)
(* Of the configuration two things matter: whether the settings of the     *)
(* database are there, and the operator's key.  Keys are numbers, in the   *)
(* order in which they were generated; 0 is the key made of no bytes,      *)
(* which ToECDSAUnsafe accepts.                                            *)
(***************************************************************************)
EXTENDS Integers

CONSTANT MaxInits   \* bound: times `init` is run

ASSUME InitsAssumption == MaxInits \in Nat

VARIABLES
    configFile,     \* config.toml
    genesisFile,    \* genesis.json
    initPc,         \* what a running `init` does next
    inits,          \* keys generated so far
    globalCfg,      \* the node's GlobalCfg
    operatorKey,    \* its OperatorKey, from which its address follows
    schema,         \* the database the configuration names: none, empty or migrated
    short           \* history: a write was cut short

files == <<configFile, genesisFile, initPc, inits, schema, short>>
globals == <<globalCfg, operatorKey>>

Config(exists, db, key) == [exists |-> exists, db |-> db, key |-> key]
Configs == [exists : BOOLEAN, db : BOOLEAN, key : 0 .. MaxInits]
Missing == Config(FALSE, FALSE, 0)
EmptyConfig == Config(TRUE, FALSE, 0)

ConfigInit ==
    /\ configFile = Missing /\ genesisFile = "missing"
    /\ initPc = "none" /\ inits = 0 /\ schema = "none" /\ short = FALSE
    /\ globalCfg = EmptyConfig /\ operatorKey = 0

-----------------------------------------------------------------------------
(* `init`: nothing asks whether the files exist                             *)

\* A new key every time; the address that is stored beside it follows from it.
GenOperatorKey == inits + 1

\* The configuration of a new node, with the key `init` puts into it.
GetDefaultConfig(key) == Config(TRUE, TRUE, key)

\* Two accounts with the public key "0".
DefaultGenesis == "default"

\* What the operator may make of it.
EditedFiles == {"edited", "noAccounts", "tooMany", "noCoordinator"}

GenesisFiles == {"missing", "empty", DefaultGenesis} \cup EditedFiles

\* The key is generated, and ioutil.WriteFile truncates the file first.
InitCmd ==
    /\ initPc = "none" /\ inits < MaxInits
    /\ inits' = GenOperatorKey
    /\ configFile' = EmptyConfig
    /\ initPc' = "config"
    /\ UNCHANGED <<genesisFile, schema, short>>

\* MustWriteFile exits when the disk is full; the template has the settings of
\* the database before the key.
WriteConfigFile ==
    /\ initPc = "config"
    /\ \/ /\ configFile' = GetDefaultConfig(inits)
          /\ initPc' = "genesis" /\ UNCHANGED short
       \/ /\ configFile' = GetDefaultConfig(0)
          /\ initPc' = "none" /\ short' = TRUE
    /\ UNCHANGED <<genesisFile, inits, schema>>

\* WriteGenesisFile: truncated, then written.
TruncateGenesisFile ==
    /\ initPc = "genesis"
    /\ genesisFile' = "empty" /\ initPc' = "write"
    /\ UNCHANGED <<configFile, inits, schema, short>>

WriteGenesisFile ==
    /\ initPc = "write"
    /\ genesisFile' = DefaultGenesis /\ initPc' = "none"
    /\ UNCHANGED <<configFile, inits, schema, short>>

\* `init` is killed.
KillInit ==
    /\ initPc # "none"
    /\ initPc' = "none"
    /\ UNCHANGED <<configFile, genesisFile, inits, schema, short>>

\* The operator puts accounts into the genesis file, and corrects it.
EditGenesisFile ==
    /\ initPc = "none" /\ genesisFile \notin {"missing", "empty", "edited"}
    /\ genesisFile' \in EditedFiles \ {genesisFile}
    /\ UNCHANGED <<configFile, initPc, inits, schema, short>>

\* The URL of the database, without which neither command connects.
FormattedDBURL == configFile.exists /\ configFile.db

\* `create-database`: IF NOT EXISTS, under the one name the program knows.
CreateDatabase ==
    /\ FormattedDBURL /\ schema = "none"
    /\ schema' = "empty"
    /\ UNCHANGED <<configFile, genesisFile, initPc, inits, short>>

\* `migration up`, which is module Migrations.
UpMigrateCmd ==
    /\ FormattedDBURL /\ schema = "empty"
    /\ schema' = "migrated"
    /\ UNCHANGED <<configFile, genesisFile, initPc, inits, short>>

ConfigStep ==
    \/ InitCmd
    \/ WriteConfigFile
    \/ TruncateGenesisFile
    \/ WriteGenesisFile
    \/ KillInit
    \/ EditGenesisFile
    \/ CreateDatabase
    \/ UpMigrateCmd

-----------------------------------------------------------------------------
(* The node.  Each operator says when the call succeeds; otherwise the node  *)
(* panics.                                                                   *)

ParseAndInitGlobalConfig == configFile.exists /\ globalCfg' = configFile

SetOperatorKeys(cfg) == operatorKey' = cfg.key

ReadAndInitGlobalConfig == ParseAndInitGlobalConfig /\ SetOperatorKeys(configFile)

\* Mutant: the database that was opened first is used.
NewDBCached == UNCHANGED globals

\* NewDB parses the file again; without a driver name, or without the database,
\* gorm.Open fails.
NewDB ==
    /\ FormattedDBURL /\ schema # "none"
    /\ ParseAndInitGlobalConfig
    /\ UNCHANGED operatorKey

\* Dialing and binding the contracts contacts nobody.
NewPreLoadedBazooka == SetOperatorKeys(globalCfg) /\ UNCHANGED globalCfg
==============================================================================
