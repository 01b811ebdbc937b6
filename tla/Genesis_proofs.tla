---------------------------- MODULE Genesis_proofs ----------------------------
(***************************************************************************)
(* What the start of a node guarantees for every size of the trees and of  *)
(* the INSERTs and after any number of starts, crashes, ignored errors and *)
(* runs of `init`.                                                         *)
(***************************************************************************)
EXTENDS Genesis, FiniteSetTheorems, WellFoundedInduction, TLAPS

-----------------------------------------------------------------------------
(* The calls that read the configuration                                    *)

LoadPcs == {"config", "db", "bazooka", "aggregatorBazooka", "aggregatorDB", "syncerBazooka",
            "syncerDB"}

\* After the calls that read the configuration.
Configured == {"status", "genesis", "coordinator", "insert", "params", "running"}

LEMMA LoadsInOrder ==
    /\ Len(Loads) = 7 /\ DOMAIN Loads = 1 .. 7
    /\ Loads[1] = "config" /\ Loads[2] = "db" /\ Loads[3] = "bazooka"
    /\ Loads[4] = "aggregatorBazooka" /\ Loads[5] = "aggregatorDB"
    /\ Loads[6] = "syncerBazooka" /\ Loads[7] = "syncerDB"
BY DEF Loads, InitConfigAndGlobals, NewAggregator, NewSyncer

LEMMA LoadsByName ==
    /\ Len(Loads) = 7
    /\ \A k \in 1 .. Len(Loads) : Loads[k] \in LoadPcs
    /\ {Loads[k] : k \in DOMAIN Loads} = LoadPcs
<1>1. /\ Len(Loads) = 7 /\ DOMAIN Loads = 1 .. 7
      /\ Loads[1] = "config" /\ Loads[2] = "db" /\ Loads[3] = "bazooka"
      /\ Loads[4] = "aggregatorBazooka" /\ Loads[5] = "aggregatorDB"
      /\ Loads[6] = "syncerBazooka" /\ Loads[7] = "syncerDB"
  BY LoadsInOrder
<1>2. \A k \in 1 .. 7 : k = 1 \/ k = 2 \/ k = 3 \/ k = 4 \/ k = 5 \/ k = 6 \/ k = 7
  OBVIOUS
<1> QED
  BY <1>1, <1>2 DEF LoadPcs

\* What one of these calls does: `from` is the value of pc before it.
Reads(from, to) ==
    /\ pc = from /\ pc' = to
    /\ UNCHANGED <<database, up, table, level, batch, param, history, files>>

ReadsFile == globalCfg' = configFile /\ configFile.exists

LEMMA LoadSteps ==
    ASSUME NEW k \in 1 .. Len(Loads), LoadConfig(k)
    PROVE  \/ Reads("config", "db") /\ ReadsFile /\ operatorKey' = configFile.key
           \/ Reads("db", "bazooka") /\ NewDB
           \/ Reads("bazooka", "aggregatorBazooka") /\ NewPreLoadedBazooka
           \/ Reads("aggregatorBazooka", "aggregatorDB") /\ NewPreLoadedBazooka
           \/ Reads("aggregatorDB", "syncerBazooka") /\ NewDB
           \/ Reads("syncerBazooka", "syncerDB") /\ NewPreLoadedBazooka
           \/ Reads("syncerDB", "status") /\ NewDB
<1>1. /\ Len(Loads) = 7
      /\ Loads[1] = "config" /\ Loads[2] = "db" /\ Loads[3] = "bazooka"
      /\ Loads[4] = "aggregatorBazooka" /\ Loads[5] = "aggregatorDB"
      /\ Loads[6] = "syncerBazooka" /\ Loads[7] = "syncerDB"
  BY LoadsInOrder
<1>2. /\ pc = Loads[k] /\ Load(pc)
      /\ pc' = IF k < 7 THEN Loads[k + 1] ELSE "status"
      /\ UNCHANGED <<database, up, table, level, batch, param, history, files>>
  BY <1>1 DEF LoadConfig
<1>3. k = 1 \/ k = 2 \/ k = 3 \/ k = 4 \/ k = 5 \/ k = 6 \/ k = 7
  BY <1>1
<1>4. CASE k = 1
  <2>1. pc = "config" /\ pc' = "db"
    BY <1>1, <1>2, <1>4
  <2>2. ReadAndInitGlobalConfig
    BY <1>2, <2>1 DEF Load, CallsOfNewDB
  <2> QED
    BY <1>2, <2>1, <2>2
       DEF Reads, ReadsFile, ReadAndInitGlobalConfig, ParseAndInitGlobalConfig, SetOperatorKeys
<1>5. CASE k = 2
  <2>1. pc = "db" /\ pc' = "bazooka"
    BY <1>1, <1>2, <1>5
  <2> QED
    BY <1>2, <2>1 DEF Reads, Load, CallsOfNewDB
<1>6. CASE k = 3
  <2>1. pc = "bazooka" /\ pc' = "aggregatorBazooka"
    BY <1>1, <1>2, <1>6
  <2> QED
    BY <1>2, <2>1 DEF Reads, Load, CallsOfNewDB
<1>7. CASE k = 4
  <2>1. pc = "aggregatorBazooka" /\ pc' = "aggregatorDB"
    BY <1>1, <1>2, <1>7
  <2> QED
    BY <1>2, <2>1 DEF Reads, Load, CallsOfNewDB
<1>8. CASE k = 5
  <2>1. pc = "aggregatorDB" /\ pc' = "syncerBazooka"
    BY <1>1, <1>2, <1>8
  <2> QED
    BY <1>2, <2>1 DEF Reads, Load, CallsOfNewDB
<1>9. CASE k = 6
  <2>1. pc = "syncerBazooka" /\ pc' = "syncerDB"
    BY <1>1, <1>2, <1>9
  <2> QED
    BY <1>2, <2>1 DEF Reads, Load, CallsOfNewDB
<1>10. CASE k = 7
  <2>1. pc = "syncerDB" /\ pc' = "status"
    BY <1>1, <1>2, <1>10
  <2> QED
    BY <1>2, <2>1 DEF Reads, Load, CallsOfNewDB
<1> QED
  BY <1>3, <1>4, <1>5, <1>6, <1>7, <1>8, <1>9, <1>10

-----------------------------------------------------------------------------
(* The configuration and the operator's key                                 *)

ConfigTypes ==
    /\ configFile \in Configs /\ globalCfg \in Configs
    /\ operatorKey \in 0 .. MaxInits /\ inits \in 0 .. MaxInits
    /\ genesisFile \in GenesisFiles
    /\ initPc \in {"none", "config", "genesis", "write"}
    /\ schema \in {"none", "empty", "migrated"}
    /\ short \in BOOLEAN /\ overwritten \in BOOLEAN

\* A file that names the database has the newest key, unless it was cut short;
\* the node reads the file twice more before it takes the key it keeps, and
\* each time finds the settings of the database in it or panics.
KeyInv ==
    /\ inits \in Nat /\ globalCfg.key \in 0 .. inits /\ operatorKey \in 0 .. inits
    /\ configFile.key \in 0 .. inits
    /\ initPc # "none" => 0 < inits
    /\ ~short /\ configFile.db =>
          /\ 0 < configFile.key
          /\ globalCfg.key <= configFile.key /\ operatorKey <= configFile.key
    /\ ~short /\ globalCfg.db => 0 < globalCfg.key
    /\ pc = "syncerBazooka" => globalCfg.db
    /\ pc = "syncerDB" => globalCfg.db /\ operatorKey = globalCfg.key
    /\ ~short /\ pc \in Configured => 0 < operatorKey /\ operatorKey <= globalCfg.key
    /\ ~overwritten /\ pc \notin {"start", "config"} =>
          globalCfg = configFile /\ operatorKey = configFile.key

ConfigInv == ConfigTypes /\ KeyInv

\* The node's steps after the calls that read the configuration.
LaterStep ==
    \/ GetSyncStatus \/ ReadGenesisFile \/ InsertCoordinator \/ BulkInsert \/ Merkelise
    \/ IndexOutOfRange \/ TreeDone \/ UpdateParam \/ UpdateParamFails \/ InitSyncStatus \/ Crash

LEMMA LaterStepFacts ==
    ASSUME LaterStep
    PROVE  /\ UNCHANGED <<files, globals, overwritten>>
           /\ pc' = "start" \/ (pc \in Configured /\ pc' \in Configured)
BY DEF LaterStep, GetSyncStatus, ReadGenesisFile, InsertCoordinator, BulkInsert, Merkelise,
       IndexOutOfRange, TreeDone, UpdateParam, UpdateParamFails, InitSyncStatus, Crash, GoDown,
       history, Configured

\* The steps of `init` and of the commands that prepare the database.
LEMMA InitSteps ==
    ASSUME ConfigInv, ConfigStep
    PROVE  /\ configFile' \in Configs /\ inits' \in 0 .. MaxInits /\ inits <= inits'
           /\ genesisFile' \in GenesisFiles
           /\ initPc' \in {"none", "config", "genesis", "write"}
           /\ schema' \in {"none", "empty", "migrated"}
           /\ short' \in BOOLEAN /\ (short => short')
           /\ configFile'.key \in 0 .. inits' /\ (initPc' # "none" => 0 < inits')
           /\ \/ configFile' = configFile
              \/ ~configFile'.db
              \/ configFile'.key = inits /\ 0 < inits
              \/ short'
<1>0. inits \in Nat /\ MaxInits \in Nat
  BY InitsAssumption DEF ConfigInv, KeyInv
<1>1. CASE InitCmd
  <2>1. configFile' = [exists |-> TRUE, db |-> FALSE, key |-> 0]
    BY <1>1 DEF InitCmd, EmptyConfig, Config
  <2>2. configFile' \in Configs /\ ~configFile'.db /\ configFile'.key = 0
    BY <1>0, <2>1 DEF Configs
  <2>3. /\ inits' = inits + 1 /\ inits < MaxInits /\ initPc' = "config"
        /\ UNCHANGED <<genesisFile, schema, short>>
    BY <1>1 DEF InitCmd, GenOperatorKey
  <2> QED
    BY <1>0, <2>2, <2>3 DEF ConfigInv, ConfigTypes
<1>2. CASE WriteConfigFile
  <2>1. /\ initPc = "config" /\ 0 < inits /\ inits \in 0 .. MaxInits
        /\ UNCHANGED <<genesisFile, inits, schema>>
    BY <1>2 DEF WriteConfigFile, ConfigInv, ConfigTypes, KeyInv
  <2>2. CASE configFile' = GetDefaultConfig(inits) /\ initPc' = "genesis" /\ UNCHANGED short
    <3>1. configFile' = [exists |-> TRUE, db |-> TRUE, key |-> inits]
      BY <2>2 DEF GetDefaultConfig, Config
    <3>2. configFile' \in Configs /\ configFile'.key = inits
      BY <2>1, <3>1 DEF Configs
    <3> QED
      BY <1>0, <2>1, <2>2, <3>2 DEF ConfigInv, ConfigTypes
  <2>3. CASE configFile' = GetDefaultConfig(0) /\ initPc' = "none" /\ short' = TRUE
    <3>1. configFile' = [exists |-> TRUE, db |-> TRUE, key |-> 0]
      BY <2>3 DEF GetDefaultConfig, Config
    <3>2. configFile' \in Configs /\ configFile'.key = 0
      BY <1>0, <3>1 DEF Configs
    <3> QED
      BY <1>0, <2>1, <2>3, <3>2 DEF ConfigInv, ConfigTypes
  <2> QED
    BY <1>2, <2>2, <2>3 DEF WriteConfigFile
<1>3. CASE \/ TruncateGenesisFile \/ WriteGenesisFile \/ KillInit \/ EditGenesisFile
           \/ CreateDatabase \/ UpMigrateCmd
  <2>1. UNCHANGED <<configFile, inits, short>>
    BY <1>3 DEF TruncateGenesisFile, WriteGenesisFile, KillInit, EditGenesisFile,
                CreateDatabase, UpMigrateCmd
  <2>2. /\ genesisFile' \in GenesisFiles
        /\ initPc' \in {"none", "config", "genesis", "write"}
        /\ schema' \in {"none", "empty", "migrated"}
        /\ initPc' # "none" => initPc # "none"
    BY <1>3 DEF TruncateGenesisFile, WriteGenesisFile, KillInit, EditGenesisFile,
                CreateDatabase, UpMigrateCmd, DefaultGenesis, EditedFiles, GenesisFiles, ConfigInv,
                ConfigTypes
  <2> QED
    BY <1>0, <2>1, <2>2 DEF ConfigInv, ConfigTypes, KeyInv
<1> QED
  BY <1>1, <1>2, <1>3 DEF ConfigStep

LEMMA InitConfigInv == Init => ConfigInv
<1> SUFFICES ASSUME Init PROVE ConfigInv
  OBVIOUS
<1>1. /\ configFile = [exists |-> FALSE, db |-> FALSE, key |-> 0]
      /\ globalCfg = [exists |-> TRUE, db |-> FALSE, key |-> 0]
      /\ operatorKey = 0 /\ inits = 0 /\ MaxInits \in Nat
  BY InitsAssumption DEF Init, ConfigInit, Missing, EmptyConfig, Config
<1>2. configFile \in Configs /\ globalCfg \in Configs
  BY <1>1 DEF Configs
<1>3. ~configFile.db /\ ~globalCfg.db /\ configFile.key = 0 /\ globalCfg.key = 0
  BY <1>1
<1>4. ConfigTypes
  <2>1. operatorKey \in 0 .. MaxInits /\ inits \in 0 .. MaxInits
    BY <1>1
  <2>2. /\ genesisFile = "missing" /\ initPc = "none" /\ schema = "none"
        /\ short \in BOOLEAN /\ overwritten \in BOOLEAN
    BY DEF Init, ConfigInit
  <2> QED
    BY <1>2, <2>1, <2>2 DEF ConfigTypes, GenesisFiles
<1>5. KeyInv
  BY <1>1, <1>3 DEF Init, ConfigInit, KeyInv, Configured
<1> QED
  BY <1>4, <1>5 DEF ConfigInv

LEMMA RunInitConfigInv ==
    ASSUME ConfigInv, RunInit
    PROVE  ConfigInv'
<1>1. ConfigStep /\ UNCHANGED <<pc, globalCfg, operatorKey>>
  BY DEF RunInit, process, globals
<1>2. overwritten' \in BOOLEAN /\ (configFile' # configFile \/ overwritten => overwritten')
  BY DEF RunInit, ConfigInv, ConfigTypes
<1>3. ConfigTypes'
  BY <1>1, <1>2, InitSteps DEF ConfigInv, ConfigTypes
<1>4. inits' \in Nat /\ inits \in Nat /\ inits <= inits' /\ MaxInits \in Nat
  BY <1>1, <1>3, InitSteps, InitsAssumption DEF ConfigTypes, ConfigInv, KeyInv
<1>5. /\ globalCfg'.key \in 0 .. inits' /\ operatorKey' \in 0 .. inits'
      /\ configFile'.key \in 0 .. inits' /\ (initPc' # "none" => 0 < inits')
  BY <1>1, <1>4, InitSteps DEF ConfigInv, KeyInv
<1>6. ASSUME ~short', configFile'.db
      PROVE  /\ 0 < configFile'.key
             /\ globalCfg.key <= configFile'.key /\ operatorKey <= configFile'.key
  <2>1. ~short
    BY <1>1, <1>6, InitSteps
  <2>2. CASE configFile' = configFile
    BY <1>6, <2>1, <2>2 DEF ConfigInv, KeyInv
  <2>3. CASE configFile'.key = inits /\ 0 < inits
    BY <1>4, <2>3 DEF ConfigInv, KeyInv
  <2> QED
    BY <1>1, <1>6, <2>2, <2>3, InitSteps
<1>7. short => short'
  BY <1>1, InitSteps
<1>8. ~overwritten' /\ pc' \notin {"start", "config"} =>
         globalCfg' = configFile' /\ operatorKey' = configFile'.key
  BY <1>1, <1>2 DEF ConfigInv, KeyInv
<1>9. KeyInv'
  BY <1>1, <1>4, <1>5, <1>6, <1>7, <1>8 DEF ConfigInv, KeyInv
<1> QED
  BY <1>3, <1>9 DEF ConfigInv

LEMMA LoadConfigInv ==
    ASSUME ConfigInv, NEW k \in 1 .. Len(Loads), LoadConfig(k)
    PROVE  ConfigInv'
<1>1. UNCHANGED <<configFile, genesisFile, initPc, inits, schema, short, overwritten>>
  BY DEF LoadConfig, files, history
<1>2. ASSUME NEW from, NEW to, Reads(from, to), NewDB
      PROVE  /\ pc = from /\ pc' = to /\ globalCfg' = configFile /\ operatorKey' = operatorKey
             /\ configFile.db
  BY <1>2 DEF Reads, NewDB, FormattedDBURL, ParseAndInitGlobalConfig
<1>3. ASSUME NEW from, NEW to, Reads(from, to), NewPreLoadedBazooka
      PROVE  /\ pc = from /\ pc' = to /\ globalCfg' = globalCfg
             /\ operatorKey' = globalCfg.key
  BY <1>3 DEF Reads, NewPreLoadedBazooka, SetOperatorKeys
<1>4. CASE Reads("config", "db") /\ ReadsFile /\ operatorKey' = configFile.key
  <2>1. pc' = "db" /\ globalCfg' = configFile /\ operatorKey' = configFile.key
    BY <1>4 DEF Reads, ReadsFile
  <2> QED
    BY <1>1, <2>1 DEF ConfigInv, ConfigTypes, Configs, KeyInv, Configured
<1>5. CASE \/ Reads("db", "bazooka") /\ NewDB
           \/ Reads("aggregatorDB", "syncerBazooka") /\ NewDB
  <2>1. /\ pc \in {"db", "aggregatorDB"} /\ pc' \in {"bazooka", "syncerBazooka"}
        /\ globalCfg' = configFile /\ operatorKey' = operatorKey /\ configFile.db
    BY <1>2, <1>5
  <2> QED
    BY <1>1, <2>1 DEF ConfigInv, ConfigTypes, KeyInv, Configured
<1>6. CASE \/ Reads("bazooka", "aggregatorBazooka") /\ NewPreLoadedBazooka
           \/ Reads("aggregatorBazooka", "aggregatorDB") /\ NewPreLoadedBazooka
  <2>1. /\ pc \in {"bazooka", "aggregatorBazooka"}
        /\ pc' \in {"aggregatorBazooka", "aggregatorDB"}
        /\ globalCfg' = globalCfg /\ operatorKey' = globalCfg.key
    BY <1>3, <1>6
  <2> QED
    BY <1>1, <2>1 DEF ConfigInv, ConfigTypes, Configs, KeyInv, Configured
<1>7. CASE Reads("syncerBazooka", "syncerDB") /\ NewPreLoadedBazooka
  <2>1. /\ pc = "syncerBazooka" /\ pc' = "syncerDB"
        /\ globalCfg' = globalCfg /\ operatorKey' = globalCfg.key
    BY <1>3, <1>7
  <2> QED
    BY <1>1, <2>1 DEF ConfigInv, ConfigTypes, Configs, KeyInv, Configured
<1>8. CASE Reads("syncerDB", "status") /\ NewDB
  <2>1. /\ pc = "syncerDB" /\ pc' = "status"
        /\ globalCfg' = configFile /\ operatorKey' = operatorKey /\ configFile.db
    BY <1>2, <1>8
  <2>2. ~short => 0 < operatorKey /\ operatorKey <= configFile.key
    BY <2>1 DEF ConfigInv, KeyInv
  <2> QED
    BY <1>1, <2>1, <2>2 DEF ConfigInv, ConfigTypes, KeyInv, Configured
<1> QED
  BY <1>4, <1>5, <1>6, <1>7, <1>8, LoadSteps

LEMMA NextConfigInv == ConfigInv /\ [Next]_vars => ConfigInv'
<1> SUFFICES ASSUME ConfigInv, [Next]_vars PROVE ConfigInv'
  OBVIOUS
<1>1. CASE RunInit
  BY <1>1, RunInitConfigInv
<1>2. CASE \E k \in 1 .. Len(Loads) : LoadConfig(k)
  BY <1>2, LoadConfigInv
<1>3. ASSUME UNCHANGED <<files, globals>>, overwritten' = overwritten,
             pc' \in {"start", pc} \/ (pc \in Configured /\ pc' \in Configured)
      PROVE  ConfigInv'
  BY <1>3 DEF ConfigInv, ConfigTypes, KeyInv, Configured, files, globals
<1>4. CASE LaterStep
  BY <1>3, <1>4, LaterStepFacts
<1>5. CASE \E k \in 1 .. Len(Loads) : LoadConfigFails(k)
  BY <1>3, <1>5 DEF LoadConfigFails, GoDown, history
<1>6. CASE StartCmd
  BY <1>6 DEF StartCmd, files, globals, ConfigInv, ConfigTypes, KeyInv, Configured
<1>7. CASE UNCHANGED vars
  BY <1>3, <1>7 DEF vars, history, process
<1> QED
  BY <1>1, <1>2, <1>4, <1>5, <1>6, <1>7 DEF Next, LaterStep

\* A node that runs uses the operator key of its configuration, and never the
\* key of no bytes, however often `init` runs, is killed or starts in the
\* middle of the node's start, unless a file was cut short.
THEOREM KeyIsConfigured == Spec => []RunningKeyIsConfigured
<1>1. ConfigInv => RunningKeyIsConfigured
  BY DEF ConfigInv, KeyInv, RunningKeyIsConfigured, Configured
<1> QED
  BY <1>1, InitConfigInv, NextConfigInv, PTL DEF Spec

-----------------------------------------------------------------------------
(* Sequences                                                                *)

\* Rows carry hashes, which are terms of any shape.
IsSeq(s) == \E R : s \in Seq(R)

LEMMA SeqOfFunction ==
    ASSUME NEW m \in Nat, NEW s, s = [k \in 1 .. m |-> s[k]]
    PROVE  IsSeq(s) /\ Len(s) = m /\ DOMAIN s = 1 .. m
<1> DEFINE R == {s[k] : k \in 1 .. m}
<1>1. s \in [1 .. m -> R]
  <2>1. \A k \in 1 .. m : s[k] \in R
    OBVIOUS
  <2> HIDE DEF R
  <2> QED
    BY <2>1
<1> HIDE DEF R
<1>2. s \in Seq(R) /\ Len(s) = m
  BY <1>1
<1> QED
  BY <1>1, <1>2 DEF IsSeq

LEMMA SeqFacts ==
    ASSUME NEW s, IsSeq(s)
    PROVE  /\ Len(s) \in Nat /\ DOMAIN s = 1 .. Len(s) /\ s = [k \in 1 .. Len(s) |-> s[k]]
           /\ s = <<>> <=> Len(s) = 0
BY DEF IsSeq

LEMMA ConcatFacts ==
    ASSUME NEW s, IsSeq(s), NEW u, IsSeq(u)
    PROVE  /\ IsSeq(s \o u)
           /\ Len(s \o u) = Len(s) + Len(u) /\ DOMAIN (s \o u) = 1 .. Len(s) + Len(u)
           /\ \A k \in 1 .. Len(s) : (s \o u)[k] = s[k]
           /\ \A k \in 1 .. Len(u) : (s \o u)[Len(s) + k] = u[k]
<1>1. PICK R : s \in Seq(R)
  BY DEF IsSeq
<1>2. PICK Q : u \in Seq(Q)
  BY DEF IsSeq
<1> DEFINE T == R \cup Q
<1>3. s \in Seq(T) /\ u \in Seq(T)
  BY <1>1, <1>2
<1> HIDE DEF T
<1>4. s \o u \in Seq(T)
  BY <1>3
<1> QED
  BY <1>3, <1>4 DEF IsSeq

LEMMA AppendFacts ==
    ASSUME NEW s, IsSeq(s), NEW e
    PROVE  /\ IsSeq(Append(s, e))
           /\ Len(Append(s, e)) = Len(s) + 1 /\ DOMAIN Append(s, e) = 1 .. Len(s) + 1
           /\ \A k \in 1 .. Len(s) : Append(s, e)[k] = s[k]
           /\ Append(s, e)[Len(s) + 1] = e
<1>1. PICK R : s \in Seq(R)
  BY DEF IsSeq
<1> DEFINE T == R \cup {e}
<1>2. s \in Seq(T) /\ e \in T
  BY <1>1
<1> HIDE DEF T
<1>3. Append(s, e) \in Seq(T)
  BY <1>2
<1> QED
  BY <1>2, <1>3 DEF IsSeq

LEMMA SubSeqFacts ==
    ASSUME NEW s, IsSeq(s), NEW a \in Nat \ {0}, NEW b \in Nat, a <= b + 1, b <= Len(s)
    PROVE  /\ IsSeq(SubSeq(s, a, b)) /\ Len(SubSeq(s, a, b)) = b - a + 1
           /\ DOMAIN SubSeq(s, a, b) = 1 .. b - a + 1
           /\ \A k \in 1 .. b - a + 1 : SubSeq(s, a, b)[k] = s[a + k - 1]
<1>1. PICK R : s \in Seq(R)
  BY DEF IsSeq
<1>2. SubSeq(s, a, b) \in Seq(R)
  BY <1>1
<1> QED
  BY <1>1, <1>2 DEF IsSeq

-----------------------------------------------------------------------------
(* Sizes                                                                    *)

\* What the provers do not know of powers of two: 2^n counts the subsets of
\* 1..n, and half of the subsets of 1..n+1 contain n+1.
LEMMA PowerOfTwo ==
    ASSUME NEW n \in Nat
    PROVE  2 ^ n \in Nat \ {0} /\ 2 ^ (n + 1) = 2 * 2 ^ n
<1> DEFINE A == SUBSET (1 .. n)
           B == {s \cup {n + 1} : s \in A}
           F == [s \in A |-> s \cup {n + 1}]
<1>1. /\ IsFiniteSet(1 .. n) /\ Cardinality(1 .. n) = n
      /\ IsFiniteSet(1 .. n + 1) /\ Cardinality(1 .. n + 1) = n + 1
  BY FS_Interval
<1>2. /\ IsFiniteSet(A) /\ Cardinality(A) = 2 ^ n
      /\ Cardinality(SUBSET (1 .. n + 1)) = 2 ^ (n + 1)
  BY <1>1, FS_SUBSET
<1>3. ExistsBijection(A, B)
  <2>1. F \in [A -> B]
    OBVIOUS
  <2>2. \A s, t \in A : F[s] = F[t] => s = t
    <3>1. \A s \in A : n + 1 \notin s
      OBVIOUS
    <3> QED
      BY <3>1
  <2>3. \A y \in B : \E s \in A : F[s] = y
    OBVIOUS
  <2>4. F \in Bijection(A, B)
    <3> HIDE DEF A, B, F
    <3> QED
      BY <2>1, <2>2, <2>3 DEF Bijection, Injection, IsInjective, Surjection
  <2> QED
    BY <2>4 DEF ExistsBijection
<1>4. IsFiniteSet(B) /\ Cardinality(B) = 2 ^ n
  BY <1>2, <1>3, FS_Bijection
<1>5. SUBSET (1 .. n + 1) = A \cup B
  <2>1. ASSUME NEW s \in SUBSET (1 .. n + 1)
        PROVE  s \in A \cup B
    <3>1. CASE n + 1 \in s
      <4>1. s \ {n + 1} \in A /\ s = (s \ {n + 1}) \cup {n + 1}
        BY <3>1
      <4> QED
        BY <4>1
    <3>2. CASE n + 1 \notin s
      BY <3>2
    <3> QED
      BY <3>1, <3>2
  <2>2. ASSUME NEW s \in A \cup B
        PROVE  s \in SUBSET (1 .. n + 1)
    <3>1. 1 .. n \subseteq 1 .. n + 1 /\ n + 1 \in 1 .. n + 1
      OBVIOUS
    <3> QED
      BY <3>1
  <2> QED
    BY <2>1, <2>2
<1>6. A \cap B = {}
  OBVIOUS
<1>7. Cardinality(A \cap B) = 0
  BY <1>6, FS_EmptySet
<1>8. 2 ^ n \in Nat
  BY <1>2, FS_CardinalityType
<1>9. 2 ^ n # 0
  <2>1. A # {}
    OBVIOUS
  <2> QED
    BY <1>2, <2>1, FS_EmptySet
<1> HIDE DEF A, B
<1>10. Cardinality(A \cup B) = 2 ^ n + 2 ^ n - 0
  BY ONLY <1>2, <1>4, <1>7, FS_Union, ZenonT(30)
<1>11. 2 ^ (n + 1) = 2 ^ n + 2 ^ n - 0
  BY <1>2, <1>5, <1>10
<1> QED
  BY ONLY <1>8, <1>9, <1>11

LEMMA LevelSizes ==
    ASSUME NEW l \in 0 .. Depth
    PROVE  /\ l \in Nat /\ 2 ^ l \in Nat \ {0}
           /\ l > 0 => l - 1 \in 0 .. Depth /\ 2 ^ l = 2 * 2 ^ (l - 1)
<1>1. l \in Nat /\ Depth \in Nat
  BY GenesisAssumption
<1>2. 2 ^ l \in Nat \ {0}
  BY <1>1, PowerOfTwo
<1>3. ASSUME l > 0
      PROVE  l - 1 \in 0 .. Depth /\ 2 ^ l = 2 * 2 ^ (l - 1)
  <2>1. l - 1 \in Nat /\ l - 1 + 1 = l /\ l - 1 <= Depth
    BY <1>1, <1>3
  <2>2. 2 ^ (l - 1 + 1) = 2 * 2 ^ (l - 1)
    BY <2>1, PowerOfTwo
  <2> QED
    BY <2>1, <2>2
<1> QED
  BY <1>1, <1>2, <1>3

-----------------------------------------------------------------------------
(* The tables                                                               *)

\* The last rows of a level are a complete level, from the left to the right:
\* those of the attempt under way, whatever earlier ones left before them.
Ends(accs, l) ==
    /\ 2 ^ l <= Len(accs)
    /\ \A n \in Nodes(l) : accs[Len(accs) - 2 ^ l + 1 + n].node = n

Whole(t) == \A l \in 0 .. Depth : Ends(rows[t][l], l)

TablesInv ==
    /\ rows = [t \in Tables |-> [l \in 0 .. Depth |-> rows[t][l]]]
    /\ \A t \in Tables, l \in 0 .. Depth : IsSeq(rows[t][l]) /\ RowsOfLevel(rows[t][l], l)

BatchInv ==
    /\ table \in Tables /\ level \in 0 .. Depth
    /\ IsSeq(batch) /\ RowsOfLevel(batch, level)

\* A level is complete once its batch is; the tables are filled one after the
\* other, and the sync status comes last.
WholeInv ==
    /\ pc = "insert" => /\ \A l \in level + 1 .. Depth : Ends(rows[table][l], l)
                        /\ Ends(rows[table][level] \o batch, level)
    /\ table = "accounts" \/ pc = "params" \/ syncStatus => Whole("states")
    /\ pc = "params" \/ syncStatus => Whole("accounts")

Loading == {"genesis", "coordinator", "insert", "params"}

StatusInv ==
    /\ pc \in {"start"} \cup LoadPcs \cup Configured
    /\ syncStatus => pc \notin Loading
    /\ pc = "running" => syncStatus

UpInv == up \in BOOLEAN /\ (~up => pc = "start")

AllParams == {Params[k] : k \in DOMAIN Params}

ParamsInv ==
    /\ faults \in Nat /\ param \in 1 .. 5 /\ params \subseteq AllParams
    /\ pc \notin {"params", "running"} => param = 1
    /\ faults = 0 /\ pc = "params" => \A k \in 1 .. param - 1 : Params[k] \in params
    /\ faults = 0 /\ syncStatus => params = AllParams

TreeInv == TablesInv /\ BatchInv /\ WholeInv /\ StatusInv

\* A statement that writes rows of one level of one table.
Writes(t, l, x) == rows' = [rows EXCEPT ![t][l] = x]

LEMMA OneLevelChanges ==
    ASSUME TablesInv, NEW t \in Tables, NEW l \in 0 .. Depth, NEW x, Writes(t, l, x)
    PROVE  /\ rows' = [u \in Tables |-> [m \in 0 .. Depth |-> rows'[u][m]]]
           /\ rows'[t][l] = x
           /\ \A u \in Tables, m \in 0 .. Depth : u # t \/ m # l => rows'[u][m] = rows[u][m]
<1>1. rows = [u \in Tables |-> [m \in 0 .. Depth |-> rows[u][m]]]
  BY DEF TablesInv
<1>2. rows' = [u \in Tables |-> [m \in 0 .. Depth |->
                  IF u = t /\ m = l THEN x ELSE rows[u][m]]]
  BY <1>1 DEF Writes
<1>3. \A u \in Tables, m \in 0 .. Depth :
         rows'[u][m] = IF u = t /\ m = l THEN x ELSE rows[u][m]
  <2>1. \A u \in Tables : rows'[u] = [m \in 0 .. Depth |->
                                         IF u = t /\ m = l THEN x ELSE rows[u][m]]
    BY <1>2
  <2> QED
    BY ONLY <2>1, ZenonT(30)
<1>4. rows' = [u \in Tables |-> [m \in 0 .. Depth |-> rows'[u][m]]]
  BY <1>2, <1>3
<1> QED
  BY <1>3, <1>4

\* A prefix of the batch b moves to the level s of the table: together they stay
\* what they were.
ChunkMoves(s, b, n) ==
    /\ IsSeq(SubSeq(b, 1, n)) /\ IsSeq(SubSeq(b, n + 1, Len(b)))
    /\ IsSeq(s \o SubSeq(b, 1, n))
    /\ \A k \in DOMAIN SubSeq(b, 1, n) : k \in DOMAIN b /\ SubSeq(b, 1, n)[k] = b[k]
    /\ \A k \in DOMAIN SubSeq(b, n + 1, Len(b)) :
          n + k \in DOMAIN b /\ SubSeq(b, n + 1, Len(b))[k] = b[n + k]
    /\ (s \o SubSeq(b, 1, n)) \o SubSeq(b, n + 1, Len(b)) = s \o b

LEMMA MoveChunk ==
    ASSUME NEW s, IsSeq(s), NEW b, IsSeq(b), NEW n \in 0 .. Len(b)
    PROVE  ChunkMoves(s, b, n)
<1> DEFINE c == SubSeq(b, 1, n)
           d == SubSeq(b, n + 1, Len(b))
<1>0. Len(s) \in Nat /\ Len(b) \in Nat /\ n \in Nat /\ n <= Len(b) /\ DOMAIN b = 1 .. Len(b)
  BY SeqFacts
<1>1. /\ IsSeq(c) /\ Len(c) = n /\ DOMAIN c = 1 .. n
      /\ \A k \in 1 .. n : c[k] = b[k]
  <2>1. /\ IsSeq(c) /\ Len(c) = n - 1 + 1 /\ DOMAIN c = 1 .. n - 1 + 1
        /\ \A k \in 1 .. n - 1 + 1 : c[k] = b[1 + k - 1]
    BY <1>0, SubSeqFacts
  <2> HIDE DEF c
  <2> QED
    BY <1>0, <2>1
<1>2. /\ IsSeq(d) /\ Len(d) = Len(b) - n /\ DOMAIN d = 1 .. Len(b) - n
      /\ \A k \in 1 .. Len(b) - n : d[k] = b[n + k]
  <2>1. /\ IsSeq(d) /\ Len(d) = Len(b) - (n + 1) + 1 /\ DOMAIN d = 1 .. Len(b) - (n + 1) + 1
        /\ \A k \in 1 .. Len(b) - (n + 1) + 1 : d[k] = b[n + 1 + k - 1]
    <3>1. PICK a \in Nat \ {0} : a = n + 1
      BY <1>0
    <3>2. a <= Len(b) + 1 /\ Len(b) <= Len(b)
      BY <1>0, <3>1
    <3>3. /\ IsSeq(SubSeq(b, a, Len(b))) /\ Len(SubSeq(b, a, Len(b))) = Len(b) - a + 1
          /\ DOMAIN SubSeq(b, a, Len(b)) = 1 .. Len(b) - a + 1
          /\ \A k \in 1 .. Len(b) - a + 1 : SubSeq(b, a, Len(b))[k] = b[a + k - 1]
      BY <1>0, <3>2, SubSeqFacts
    <3> QED
      BY ONLY <3>1, <3>3
  <2> HIDE DEF d
  <2> QED
    BY <1>0, <2>1
<1> HIDE DEF c, d
<1>3. /\ IsSeq(s \o c) /\ Len(s \o c) = Len(s) + n
      /\ \A k \in 1 .. Len(s) : (s \o c)[k] = s[k]
      /\ \A k \in 1 .. n : (s \o c)[Len(s) + k] = c[k]
  <2>1. IsSeq(s) /\ IsSeq(c) /\ Len(c) = n
    BY <1>1
  <2>2. /\ IsSeq(s \o c) /\ Len(s \o c) = Len(s) + Len(c)
        /\ \A k \in 1 .. Len(s) : (s \o c)[k] = s[k]
        /\ \A k \in 1 .. Len(c) : (s \o c)[Len(s) + k] = c[k]
    <3>1. IsSeq(s) /\ IsSeq(c)
      BY <2>1
    <3> QED
      BY ONLY <3>1, ConcatFacts
  <2> QED
    BY ONLY <2>1, <2>2
<1>4. /\ IsSeq(s \o b) /\ Len(s \o b) = Len(s) + Len(b)
      /\ \A k \in 1 .. Len(s) : (s \o b)[k] = s[k]
      /\ \A k \in 1 .. Len(b) : (s \o b)[Len(s) + k] = b[k]
  BY ConcatFacts
<1>5. /\ IsSeq((s \o c) \o d) /\ Len((s \o c) \o d) = Len(s) + n + (Len(b) - n)
      /\ \A k \in 1 .. Len(s) + n : ((s \o c) \o d)[k] = (s \o c)[k]
      /\ \A k \in 1 .. Len(b) - n : ((s \o c) \o d)[Len(s) + n + k] = d[k]
  <2> DEFINE q == s \o c
  <2>1. IsSeq(q) /\ Len(q) = Len(s) + n
    BY <1>3
  <2> HIDE DEF q
  <2>2. /\ IsSeq(q \o d) /\ Len(q \o d) = Len(q) + Len(d)
        /\ \A k \in 1 .. Len(q) : (q \o d)[k] = q[k]
        /\ \A k \in 1 .. Len(d) : (q \o d)[Len(q) + k] = d[k]
    <3>1. IsSeq(q) /\ IsSeq(d)
      BY <1>2, <2>1
    <3> QED
      BY ONLY <3>1, ConcatFacts
  <2> QED
    BY <1>2, <2>1, <2>2 DEF q
<1> DEFINE e == (s \o c) \o d
           f == s \o b
<1>6. ASSUME NEW k \in 1 .. Len(s) + Len(b)
      PROVE  e[k] = f[k]
  <2>1. CASE k <= Len(s)
    <3>1. k \in 1 .. Len(s) /\ k \in 1 .. Len(s) + n
      BY <1>0, <2>1
    <3> QED
      BY <1>3, <1>4, <1>5, <3>1
  <2>2. CASE k > Len(s) /\ k <= Len(s) + n
    <3>1. PICK j \in 1 .. n : k = Len(s) + j
      <4>1. k - Len(s) \in 1 .. n /\ k = Len(s) + (k - Len(s))
        BY <1>0, <2>2
      <4> QED
        BY <4>1
    <3>2. j \in 1 .. Len(b) /\ k \in 1 .. Len(s) + n
      BY <1>0, <2>2, <3>1
    <3>3. e[k] = b[j]
      BY <1>1, <1>3, <1>5, <3>1, <3>2
    <3> QED
      BY <1>4, <3>1, <3>2, <3>3
  <2>3. CASE k > Len(s) + n
    <3>1. PICK j \in 1 .. Len(b) - n : k = Len(s) + n + j
      <4>1. k - Len(s) - n \in 1 .. Len(b) - n /\ k = Len(s) + n + (k - Len(s) - n)
        BY <1>0, <2>3
      <4> QED
        BY <4>1
    <3>2. n + j \in 1 .. Len(b) /\ k = Len(s) + (n + j)
      BY <1>0, <3>1
    <3>3. e[k] = b[n + j]
      BY <1>2, <1>5, <3>1
    <3> QED
      BY <1>4, <3>2, <3>3
  <2> HIDE DEF e, f
  <2> QED
    BY <1>0, <2>1, <2>2, <2>3
<1>7. /\ e = [k \in 1 .. Len(s) + Len(b) |-> e[k]]
      /\ f = [k \in 1 .. Len(s) + Len(b) |-> f[k]]
  <2>1. Len(e) = Len(s) + Len(b) /\ Len(f) = Len(s) + Len(b) /\ IsSeq(e) /\ IsSeq(f)
    BY <1>0, <1>4, <1>5
  <2> HIDE DEF e, f
  <2> QED
    BY <2>1, SeqFacts
<1>8. e = f
  <2> HIDE DEF e, f
  <2> QED
    BY <1>6, <1>7
<1>9. /\ \A k \in DOMAIN c : k \in DOMAIN b
      /\ \A k \in DOMAIN d : n + k \in DOMAIN b
  BY <1>0, <1>1, <1>2
<1>10. /\ IsSeq(c) /\ IsSeq(d) /\ IsSeq(s \o c)
       /\ \A k \in DOMAIN c : k \in DOMAIN b /\ c[k] = b[k]
       /\ \A k \in DOMAIN d : n + k \in DOMAIN b /\ d[k] = b[n + k]
       /\ (s \o c) \o d = s \o b
  BY <1>1, <1>2, <1>3, <1>8, <1>9
<1> QED
  BY <1>10 DEF ChunkMoves, c, d

-----------------------------------------------------------------------------
(* The steps                                                                *)

LEMMA EmptyRows ==
    IsSeq(<<>>) /\ Len(<<>>) = 0 /\ \A l : RowsOfLevel(<<>>, l)
<1>1. <<>> \in Seq({}) /\ Len(<<>>) = 0 /\ DOMAIN <<>> = {}
  OBVIOUS
<1> QED
  BY <1>1 DEF IsSeq, RowsOfLevel

LEMMA InitTreeInv == Init => TreeInv
<1> SUFFICES ASSUME Init PROVE TreeInv
  OBVIOUS
<1>1. /\ rows = [t \in Tables |-> [l \in 0 .. Depth |-> <<>>]]
      /\ table = "states" /\ level = Depth /\ batch = <<>> /\ pc = "start" /\ ~syncStatus
  BY DEF Init
<1>2. \A t \in Tables, l \in 0 .. Depth : rows[t][l] = <<>>
  BY <1>1
<1>3. TablesInv
  BY <1>1, <1>2, EmptyRows DEF TablesInv
<1>4. BatchInv
  BY <1>1, EmptyRows, GenesisAssumption DEF BatchInv, Tables
<1> QED
  BY <1>1, <1>3, <1>4 DEF TreeInv, WholeInv, StatusInv, Loading

\* A step that writes no row and does not go on to the next part.
LEMMA KeepTrees ==
    ASSUME TreeInv, UNCHANGED <<rows, table, level, batch, syncStatus>>,
           pc' = "insert" => pc = "insert",
           pc' = "params" => pc = "params",
           StatusInv'
    PROVE  TreeInv'
<1>1. TablesInv' /\ BatchInv'
  BY DEF TreeInv, TablesInv, BatchInv
<1>2. WholeInv'
  BY DEF TreeInv, WholeInv, Whole
<1> QED
  BY <1>1, <1>2 DEF TreeInv

LEMMA GoDownTrees ==
    ASSUME TreeInv, GoDown
    PROVE  TreeInv'
<1>1. /\ UNCHANGED <<rows, syncStatus>> /\ pc' = "start" /\ table' = "states"
      /\ level' = Depth /\ batch' = <<>>
  BY DEF GoDown, database
<1>2. TablesInv'
  BY <1>1 DEF TreeInv, TablesInv
<1>3. BatchInv'
  BY <1>1, EmptyRows, GenesisAssumption DEF BatchInv, Tables
<1>4. WholeInv'
  BY <1>1 DEF TreeInv, WholeInv, Whole
<1> QED
  BY <1>1, <1>2, <1>3, <1>4 DEF TreeInv, StatusInv, Loading

\* The coordinator's leaf and the leaves after it are a complete level.
LEMMA InsertCoordinatorTrees ==
    ASSUME TreeInv, InsertCoordinator
    PROVE  TreeInv'
<1> DEFINE size == 2 ^ Depth
           old == rows[table][Depth]
           row == Row(GenCoordinatorPath, LeafHash(table, 0))
           new == Append(old, row)
<1>1. /\ rows' = [rows EXCEPT ![table][Depth] = new]
      /\ batch' = [n \in 1 .. size - 1 |-> Row(GetAdjacentNodePath(n - 1), LeafHash(table, n))]
      /\ level' = Depth /\ pc = "coordinator" /\ pc' = "insert"
      /\ UNCHANGED <<syncStatus, table>>
  BY DEF InsertCoordinator
<1>2. /\ Depth \in 0 .. Depth /\ Depth \in Nat /\ size \in Nat \ {0} /\ table \in Tables
      /\ TablesInv /\ ~syncStatus /\ IsSeq(old) /\ RowsOfLevel(old, Depth)
  <2>1. Depth \in 0 .. Depth /\ Depth \in Nat
    BY GenesisAssumption
  <2>2. size \in Nat \ {0}
    BY <2>1, PowerOfTwo
  <2> QED
    BY <1>1, <2>1, <2>2 DEF TreeInv, BatchInv, TablesInv, StatusInv, Loading
<1>3. /\ rows' = [t \in Tables |-> [l \in 0 .. Depth |-> rows'[t][l]]]
      /\ rows'[table][Depth] = new
      /\ \A t \in Tables, l \in 0 .. Depth : t # table \/ l # Depth => rows'[t][l] = rows[t][l]
  <2>1. Writes(table, Depth, new)
    BY <1>1 DEF Writes
  <2> HIDE DEF old, new
  <2> QED
    BY <1>2, <2>1, OneLevelChanges
<1>4. /\ IsSeq(new) /\ Len(new) = Len(old) + 1 /\ DOMAIN new = 1 .. Len(old) + 1
      /\ \A k \in 1 .. Len(old) : new[k] = old[k]
      /\ new[Len(old) + 1] = row /\ Len(old) \in Nat /\ DOMAIN old = 1 .. Len(old)
  BY <1>2, AppendFacts, SeqFacts
<1>5. row.node = 0
  BY DEF Row, GenCoordinatorPath
<1>6. 0 \in Nodes(Depth) /\ Nodes(Depth) = 0 .. size - 1
  BY <1>2 DEF Nodes
<1>7. IsSeq(batch') /\ Len(batch') = size - 1 /\ DOMAIN batch' = 1 .. size - 1
  <2>1. size - 1 \in Nat /\ batch' = [k \in 1 .. size - 1 |-> batch'[k]]
    BY <1>1, <1>2
  <2> HIDE DEF size
  <2> QED
    BY <2>1, SeqOfFunction
<1>8. \A n \in 1 .. size - 1 : batch'[n].node = n
  <2>1. \A m, h : Row(m, h).node = m
    BY DEF Row
  <2>2. \A n \in 1 .. size - 1 : batch'[n] = Row(GetAdjacentNodePath(n - 1), LeafHash(table, n))
    BY <1>1
  <2>3. \A n \in 1 .. size - 1 : batch'[n].node = GetAdjacentNodePath(n - 1)
    BY ONLY <2>1, <2>2
  <2>4. size \in Nat
    BY <1>2
  <2> HIDE DEF size
  <2> QED
    BY ONLY <2>3, <2>4 DEF GetAdjacentNodePath
<1> HIDE DEF size, old, row, new
<1>9. RowsOfLevel(new, Depth)
  BY <1>2, <1>4, <1>5, <1>6 DEF RowsOfLevel
<1>10. TablesInv'
  BY <1>2, <1>3, <1>4, <1>9 DEF TablesInv
<1>11. BatchInv'
  <2>1. RowsOfLevel(batch', Depth)
    BY <1>2, <1>6, <1>7, <1>8 DEF RowsOfLevel
  <2> QED
    BY <1>1, <1>2, <1>7, <2>1 DEF BatchInv
<1>12. Ends(new \o batch', Depth)
  <2> DEFINE b == batch'
             all == new \o b
  <2>1. /\ IsSeq(all) /\ Len(all) = Len(new) + Len(b)
        /\ \A k \in 1 .. Len(new) : all[k] = new[k]
        /\ \A k \in 1 .. Len(b) : all[Len(new) + k] = b[k]
    <3>1. IsSeq(new) /\ IsSeq(b)
      BY <1>4, <1>7
    <3> HIDE DEF b
    <3> QED
      BY ONLY <3>1, ConcatFacts
  <2>2. Len(all) = Len(old) + size
    BY <1>2, <1>4, <1>7, <2>1
  <2>3. ASSUME NEW n \in 0 .. size - 1
        PROVE  all[Len(old) + 1 + n].node = n
    <3>1. CASE n = 0
      <4>1. Len(old) + 1 \in 1 .. Len(new) /\ Len(old) + 1 + n = Len(old) + 1
        BY <1>2, <1>4, <3>1
      <4>2. all[Len(old) + 1] = row
        BY <1>4, <2>1, <4>1
      <4> QED
        BY <1>5, <3>1, <4>1, <4>2
    <3>2. CASE n > 0
      <4>1. n \in 1 .. size - 1 /\ n \in 1 .. Len(b) /\ Len(old) + 1 + n = Len(new) + n
        BY <1>2, <1>4, <1>7, <3>2
      <4>2. all[Len(new) + n] = b[n]
        BY <2>1, <4>1
      <4> QED
        BY <1>8, <4>1, <4>2
    <3> HIDE DEF all, b
    <3> QED
      BY <1>2, <3>1, <3>2
  <2> HIDE DEF all
  <2>4. \A n \in 0 .. size - 1 : Len(all) - size + 1 + n = Len(old) + 1 + n
    BY <1>2, <1>4, <2>2
  <2>5. size <= Len(all)
    BY <1>2, <1>4, <2>2
  <2> QED
    BY <1>6, <2>3, <2>4, <2>5 DEF Ends, size, all
<1>13. WholeInv'
  <2>1. table = "accounts" => Whole("states")'
    <3>1. ASSUME table = "accounts", NEW l \in 0 .. Depth
          PROVE  Ends(rows'["states"][l], l)
      BY <1>3, <3>1 DEF TreeInv, WholeInv, Whole, Tables
    <3> QED
      BY <3>1 DEF Whole
  <2>2. \A l \in Depth + 1 .. Depth : FALSE
    BY <1>2
  <2> QED
    BY <1>1, <1>2, <1>3, <1>12, <2>1, <2>2 DEF WholeInv
<1> QED
  BY <1>1, <1>2, <1>10, <1>11, <1>13 DEF TreeInv, StatusInv, Configured, Loading

LEMMA BulkInsertTrees ==
    ASSUME TreeInv, BulkInsert
    PROVE  TreeInv'
<1> DEFINE old == rows[table][level]
<1>1. PICK n \in 0 .. Len(batch) :
          /\ rows' = [rows EXCEPT ![table][level] = old \o SubSeq(batch, 1, n)]
          /\ batch' = SubSeq(batch, n + 1, Len(batch))
  <2> DEFINE n == IF Len(batch) < ChunkSize THEN Len(batch) ELSE ChunkSize
  <2>1. n \in 0 .. Len(batch)
    BY GenesisAssumption, SeqFacts DEF TreeInv, BatchInv
  <2>2. /\ rows' = [rows EXCEPT ![table][level] = old \o SubSeq(batch, 1, n)]
        /\ batch' = SubSeq(batch, n + 1, Len(batch))
    BY DEF BulkInsert
  <2> HIDE DEF n
  <2> QED
    BY <2>1, <2>2
<1>2. pc = "insert" /\ UNCHANGED <<syncStatus, table, level, pc>>
  BY DEF BulkInsert
<1>3. /\ level \in 0 .. Depth /\ table \in Tables /\ TablesInv /\ ~syncStatus
      /\ IsSeq(old) /\ RowsOfLevel(old, level) /\ IsSeq(batch) /\ RowsOfLevel(batch, level)
      /\ Ends(old \o batch, level)
      /\ \A l \in level + 1 .. Depth : Ends(rows[table][l], l)
  BY <1>2 DEF TreeInv, BatchInv, TablesInv, WholeInv, StatusInv, Loading
<1> DEFINE chunk == SubSeq(batch, 1, n)
           new == old \o chunk
<1>4. /\ rows' = [t \in Tables |-> [l \in 0 .. Depth |-> rows'[t][l]]]
      /\ rows'[table][level] = new
      /\ \A t \in Tables, l \in 0 .. Depth : t # table \/ l # level => rows'[t][l] = rows[t][l]
  <2>1. Writes(table, level, new)
    BY <1>1 DEF Writes
  <2> HIDE DEF old, new
  <2> QED
    BY <1>3, <2>1, OneLevelChanges
<1>5. /\ IsSeq(chunk) /\ IsSeq(batch') /\ IsSeq(new)
      /\ \A k \in DOMAIN chunk : k \in DOMAIN batch /\ chunk[k] = batch[k]
      /\ \A k \in DOMAIN batch' : n + k \in DOMAIN batch /\ batch'[k] = batch[n + k]
      /\ new \o batch' = old \o batch
  <2> DEFINE rest == SubSeq(batch, n + 1, Len(batch))
  <2> HIDE DEF old
  <2>1. /\ IsSeq(chunk) /\ IsSeq(rest) /\ IsSeq(new)
        /\ \A k \in DOMAIN chunk : k \in DOMAIN batch /\ chunk[k] = batch[k]
        /\ \A k \in DOMAIN rest : n + k \in DOMAIN batch /\ rest[k] = batch[n + k]
        /\ new \o rest = old \o batch
    <3>1. IsSeq(old) /\ IsSeq(batch)
      BY <1>3
    <3>2. ChunkMoves(old, batch, n)
      BY <3>1, MoveChunk
    <3> QED
      BY ONLY <3>2 DEF ChunkMoves
  <2>2. batch' = rest
    BY <1>1
  <2> HIDE DEF rest, new, chunk
  <2> QED
    BY ONLY <2>1, <2>2
<1> HIDE DEF old, chunk
<1>6. RowsOfLevel(batch', level)
  BY <1>3, <1>5 DEF RowsOfLevel
<1>7. RowsOfLevel(new, level)
  <2>1. /\ Len(old) \in Nat /\ DOMAIN old = 1 .. Len(old)
        /\ Len(chunk) \in Nat /\ DOMAIN chunk = 1 .. Len(chunk)
    BY <1>3, <1>5, SeqFacts
  <2>2. /\ DOMAIN new = 1 .. Len(old) + Len(chunk)
        /\ \A k \in 1 .. Len(old) : new[k] = old[k]
        /\ \A k \in 1 .. Len(chunk) : new[Len(old) + k] = chunk[k]
    BY <1>3, <1>5, ConcatFacts
  <2>3. ASSUME NEW k \in DOMAIN new
        PROVE  new[k].node \in Nodes(level)
    <3>1. CASE k <= Len(old)
      <4>1. k \in 1 .. Len(old)
        BY <2>1, <2>2, <3>1
      <4> QED
        BY <1>3, <2>1, <2>2, <4>1 DEF RowsOfLevel
    <3>2. CASE k > Len(old)
      <4>1. k - Len(old) \in 1 .. Len(chunk) /\ Len(old) + (k - Len(old)) = k
        BY <2>1, <2>2, <3>2
      <4>2. new[k] = chunk[k - Len(old)]
        BY <2>2, <4>1
      <4>3. chunk[k - Len(old)] = batch[k - Len(old)] /\ k - Len(old) \in DOMAIN batch
        BY <1>5, <2>1, <4>1
      <4> QED
        BY <1>3, <4>2, <4>3 DEF RowsOfLevel
    <3> QED
      BY <2>1, <2>2, <3>1, <3>2
  <2> QED
    BY <2>3 DEF RowsOfLevel
<1> HIDE DEF new
<1>8. TablesInv'
  BY <1>3, <1>4, <1>5, <1>7 DEF TablesInv
<1>9. BatchInv'
  BY <1>2, <1>3, <1>5, <1>6 DEF BatchInv
<1>10. WholeInv'
  <2>1. ASSUME NEW l \in level + 1 .. Depth
        PROVE  Ends(rows'[table][l], l)
    <3>1. l # level /\ l \in 0 .. Depth
      BY <1>3, GenesisAssumption
    <3> QED
      BY <1>3, <1>4, <3>1
  <2>2. Ends(rows'[table][level] \o batch', level)
    BY <1>3, <1>4, <1>5
  <2>3. table = "accounts" => Whole("states")'
    <3>1. ASSUME table = "accounts", NEW l \in 0 .. Depth
          PROVE  Ends(rows'["states"][l], l)
      BY <1>4, <3>1 DEF TreeInv, WholeInv, Whole, Tables
    <3> QED
      BY <3>1 DEF Whole
  <2> QED
    BY <1>2, <1>3, <2>1, <2>2, <2>3 DEF WholeInv
<1> QED
  BY <1>2, <1>8, <1>9, <1>10 DEF TreeInv, StatusInv

\* The parents of a complete level, two rows at a time, are a complete level:
\* the number of rows being even, the pairs of the rows at the end are those of
\* the tree, whatever the pairs before them.
LEMMA ParentsOfLevel ==
    ASSUME NEW l \in 1 .. Depth, NEW accs, IsSeq(accs), RowsOfLevel(accs, l), Ends(accs, l),
           Len(accs) % 2 = 0, NEW next, next = NextLevelAccounts(accs),
           NEW s, IsSeq(s)
    PROVE  IsSeq(next) /\ RowsOfLevel(next, l - 1) /\ Ends(s \o next, l - 1)
<1> DEFINE half == 2 ^ (l - 1)
<1>1. /\ l \in 0 .. Depth /\ l > 0 /\ half \in Nat \ {0} /\ 2 ^ l = 2 * half
  <2>1. l \in 0 .. Depth /\ l > 0 /\ l - 1 \in 0 .. Depth
    BY GenesisAssumption
  <2> QED
    BY <2>1, LevelSizes
<1>2. Len(accs) \in Nat /\ DOMAIN accs = 1 .. Len(accs)
  BY SeqFacts
<1>3. PICK m \in Nat : Len(accs) = 2 * m /\ Len(accs) \div 2 = m
  <2>1. \A n \in Nat : n % 2 = 0 => n \div 2 \in Nat /\ n = 2 * (n \div 2)
    OBVIOUS
  <2>2. Len(accs) \div 2 \in Nat /\ Len(accs) = 2 * (Len(accs) \div 2)
    BY ONLY Len(accs) % 2 = 0, <1>2, <2>1
  <2> QED
    BY <2>2
<1>4. next = [k \in 1 .. m |-> Row(accs[2 * k - 1].node \div 2,
                                   GetParent(accs[2 * k - 1].hash, accs[2 * k].hash))]
  BY <1>3 DEF NextLevelAccounts
<1>5. IsSeq(next) /\ Len(next) = m /\ DOMAIN next = 1 .. m
  <2>1. next = [k \in 1 .. m |-> next[k]]
    BY <1>4
  <2> QED
    BY ONLY m \in Nat, <2>1, SeqOfFunction
<1>6. \A k \in 1 .. m : next[k].node = accs[2 * k - 1].node \div 2
  <2>1. \A n, h : Row(n, h).node = n
    BY DEF Row
  <2>2. \A k \in 1 .. m : next[k] = Row(accs[2 * k - 1].node \div 2,
                                        GetParent(accs[2 * k - 1].hash, accs[2 * k].hash))
    BY <1>4
  <2> QED
    BY ONLY <2>1, <2>2
<1> HIDE DEF half
<1>7. \A k \in 1 .. Len(accs) : accs[k].node \in 0 .. 2 * half - 1
  BY <1>1, <1>2 DEF RowsOfLevel, Nodes
<1>8. RowsOfLevel(next, l - 1)
  <2>1. ASSUME NEW k \in 1 .. m
        PROVE  next[k].node \in 0 .. half - 1
    <3>1. 2 * k - 1 \in 1 .. Len(accs)
      BY <1>3
    <3>2. accs[2 * k - 1].node \in 0 .. 2 * half - 1
      BY <1>7, <3>1
    <3>3. accs[2 * k - 1].node \div 2 \in 0 .. half - 1
      BY <1>1, <3>2
    <3> QED
      BY <1>6, <3>3
  <2> QED
    BY <1>5, <2>1 DEF RowsOfLevel, Nodes, half
<1> DEFINE all == s \o next
<1>9. /\ IsSeq(all) /\ Len(all) = Len(s) + Len(next) /\ Len(s) \in Nat
      /\ \A k \in 1 .. Len(next) : all[Len(s) + k] = next[k]
  <2>1. IsSeq(next)
    BY <1>5
  <2>2. Len(s) \in Nat
    BY ONLY IsSeq(s), SeqFacts
  <2>3. /\ IsSeq(all) /\ Len(all) = Len(s) + Len(next)
        /\ \A k \in 1 .. Len(next) : all[Len(s) + k] = next[k]
    BY ONLY IsSeq(s), <2>1, ConcatFacts
  <2> QED
    BY <2>2, <2>3
<1> HIDE DEF all
<1>10. 2 * half <= 2 * m /\ half <= m
  BY <1>1, <1>3 DEF Ends
<1>11. ASSUME NEW n \in 0 .. half - 1
       PROVE  all[Len(all) - half + 1 + n].node = n
  <2>1. PICK k \in 1 .. m : k = m - half + 1 + n
    <3>1. m - half + 1 + n \in 1 .. m
      BY <1>1, <1>10
    <3> QED
      BY <3>1
  <2>2. Len(all) - half + 1 + n = Len(s) + k /\ k \in 1 .. Len(next)
    BY <1>1, <1>5, <1>9, <2>1
  <2>3. all[Len(s) + k] = next[k]
    BY <1>9, <2>2
  <2>4. 2 * n \in Nodes(l) /\ 2 * k - 1 = Len(accs) - 2 ^ l + 1 + 2 * n
    BY <1>1, <1>3, <2>1 DEF Nodes
  <2>5. accs[2 * k - 1].node = 2 * n
    BY <2>4 DEF Ends
  <2>6. next[k].node = (2 * n) \div 2
    BY <1>6, <2>5
  <2>7. (2 * n) \div 2 = n
    BY <1>1
  <2> QED
    BY <2>2, <2>3, <2>6, <2>7
<1>12. half <= Len(all)
  BY <1>1, <1>5, <1>9, <1>10
<1> QED
  BY <1>5, <1>8, <1>11, <1>12 DEF Ends, Nodes, half, all

\* With an empty batch the rows of the level are all there are.
LEMMA LevelComplete ==
    ASSUME TreeInv, pc = "insert", batch = <<>>
    PROVE  \A l \in level .. Depth : Ends(rows[table][l], l)
<1>1. /\ level \in 0 .. Depth /\ table \in Tables /\ IsSeq(rows[table][level])
      /\ Ends(rows[table][level] \o <<>>, level)
      /\ \A l \in level + 1 .. Depth : Ends(rows[table][l], l)
  BY DEF TreeInv, BatchInv, TablesInv, WholeInv
<1>2. rows[table][level] \o <<>> = rows[table][level]
  BY <1>1 DEF IsSeq
<1>3. Ends(rows[table][level], level)
  BY <1>1, <1>2
<1>4. \A l \in level .. Depth : l = level \/ l \in level + 1 .. Depth
  BY <1>1
<1> QED
  BY <1>1, <1>3, <1>4

LEMMA MerkeliseTrees ==
    ASSUME TreeInv, Merkelise
    PROVE  TreeInv'
<1> DEFINE accs == rows[table][level]
           s == rows[table][level - 1]
<1>1. /\ pc = "insert" /\ batch = <<>> /\ level > 0 /\ Len(accs) % 2 = 0
      /\ batch' = NextLevelAccounts(accs) /\ level' = level - 1
      /\ UNCHANGED <<rows, syncStatus, pc, table>>
  BY DEF Merkelise, GetAccountByDepth, database
<1>2. /\ level \in 1 .. Depth /\ level - 1 \in 0 .. Depth /\ level \in 0 .. Depth
      /\ table \in Tables
  BY <1>1, GenesisAssumption DEF TreeInv, BatchInv
<1>3. IsSeq(accs) /\ RowsOfLevel(accs, level) /\ IsSeq(s) /\ TablesInv /\ ~syncStatus
  BY <1>1, <1>2 DEF TreeInv, TablesInv, StatusInv, Loading
<1>4. \A l \in level .. Depth : Ends(rows[table][l], l)
  BY <1>1, LevelComplete
<1>5. Ends(accs, level)
  BY <1>2, <1>4
<1>6. IsSeq(batch') /\ RowsOfLevel(batch', level - 1) /\ Ends(s \o batch', level - 1)
  <2> HIDE DEF accs, s
  <2> QED
    BY <1>1, <1>2, <1>3, <1>5, ParentsOfLevel
<1>7. TablesInv'
  BY <1>1, <1>3 DEF TablesInv
<1>8. BatchInv'
  BY <1>1, <1>2, <1>6 DEF BatchInv
<1>9. WholeInv'
  <2>1. level' + 1 .. Depth = level .. Depth
    BY <1>1, <1>2
  <2>2. \A l \in level' + 1 .. Depth : Ends(rows'[table'][l], l)
    BY <1>1, <1>4, <2>1
  <2>3. Ends(rows'[table'][level'] \o batch', level')
    BY <1>1, <1>6
  <2>4. table = "accounts" => Whole("states")'
    BY <1>1 DEF TreeInv, WholeInv, Whole
  <2> QED
    BY <1>1, <1>3, <2>2, <2>3, <2>4 DEF WholeInv
<1> QED
  BY <1>1, <1>7, <1>8, <1>9 DEF TreeInv, StatusInv

LEMMA TreeDoneTrees ==
    ASSUME TreeInv, TreeDone
    PROVE  TreeInv'
<1>1. /\ pc = "insert" /\ batch = <<>> /\ level = 0
      /\ UNCHANGED <<rows, syncStatus, level, batch>>
      /\ IF table = "states" THEN table' = "accounts" /\ pc' = "coordinator"
         ELSE pc' = "params" /\ table' = table
  BY DEF TreeDone, database
<1>2. TablesInv /\ table \in Tables /\ ~syncStatus
  BY <1>1 DEF TreeInv, BatchInv, StatusInv, Loading
<1>3. Whole(table)
  BY <1>1, LevelComplete DEF Whole
<1>4. TablesInv'
  BY <1>1, <1>2 DEF TablesInv
<1>5. BatchInv'
  BY <1>1 DEF TreeInv, BatchInv, Tables
<1>6. CASE table = "states"
  <2>1. Whole("states")'
    BY <1>1, <1>3, <1>6 DEF Whole
  <2> QED
    BY <1>1, <1>2, <1>4, <1>5, <1>6, <2>1
       DEF TreeInv, WholeInv, StatusInv, Configured, Loading
<1>7. CASE table = "accounts"
  <2>1. Whole("accounts")'
    BY <1>1, <1>3, <1>7 DEF Whole
  <2>2. Whole("states")'
    BY <1>1, <1>7 DEF TreeInv, WholeInv, Whole
  <2> QED
    BY <1>1, <1>2, <1>4, <1>5, <1>7, <2>1, <2>2
       DEF TreeInv, WholeInv, StatusInv, Configured, Loading
<1> QED
  BY <1>2, <1>6, <1>7 DEF Tables

LEMMA NextTreeInv == TreeInv /\ [Next]_vars => TreeInv'
<1> SUFFICES ASSUME TreeInv, [Next]_vars PROVE TreeInv'
  OBVIOUS
<1>1. CASE RunInit \/ UNCHANGED vars
  <2>1. UNCHANGED <<rows, table, level, batch, syncStatus, pc>>
    BY <1>1 DEF RunInit, vars, database, process
  <2> QED
    BY <2>1, KeepTrees DEF TreeInv, StatusInv
<1>2. CASE StartCmd
  <2>1. UNCHANGED <<rows, table, level, batch, syncStatus>> /\ pc' = "config"
    BY <1>2 DEF StartCmd, database
  <2>2. StatusInv'
    BY <2>1 DEF StatusInv, LoadPcs, Loading
  <2> QED
    BY <2>1, <2>2, KeepTrees
<1>3. ASSUME NEW k \in 1 .. Len(Loads), LoadConfig(k)
      PROVE  TreeInv'
  <2>1. UNCHANGED <<rows, table, level, batch, syncStatus>>
        /\ pc' \in LoadPcs \cup {"status"}
    BY <1>3, LoadSteps DEF LoadConfig, Reads, database, LoadPcs
  <2>2. StatusInv'
    BY <2>1 DEF StatusInv, LoadPcs, Configured, Loading
  <2> QED
    BY <2>1, <2>2, KeepTrees DEF LoadPcs
<1>4. CASE GoDown
  BY <1>4, GoDownTrees
<1>5. ASSUME NEW k \in 1 .. Len(Loads), LoadConfigFails(k)
      PROVE  GoDown
  BY <1>5 DEF LoadConfigFails
<1>6. CASE GetSyncStatus /\ ~GoDown
  <2>1. /\ UNCHANGED <<rows, table, level, batch, syncStatus>>
        /\ pc' = IF syncStatus THEN "running" ELSE "genesis"
    BY <1>6 DEF GetSyncStatus, database
  <2>2. StatusInv'
    BY <2>1 DEF StatusInv, Configured, Loading
  <2> QED
    BY <2>1, <2>2, KeepTrees
<1>7. CASE ReadGenesisFile /\ ~GoDown
  <2>1. /\ UNCHANGED <<rows, table, level, batch, syncStatus>>
        /\ pc = "genesis" /\ pc' = "coordinator"
    BY <1>7 DEF ReadGenesisFile, database
  <2>2. StatusInv'
    BY <2>1 DEF TreeInv, StatusInv, Configured, Loading
  <2> QED
    BY <2>1, <2>2, KeepTrees
<1>8. CASE UpdateParam \/ UpdateParamFails
  <2>1. UNCHANGED <<rows, table, level, batch, syncStatus, pc>>
    BY <1>8 DEF UpdateParam, UpdateParamFails, database
  <2> QED
    BY <2>1, KeepTrees DEF TreeInv, StatusInv
<1>9. CASE InitSyncStatus
  <2>1. /\ UNCHANGED <<rows, table, level, batch>> /\ syncStatus'
        /\ pc = "params" /\ pc' = "running"
    BY <1>9 DEF InitSyncStatus
  <2>2. TablesInv' /\ BatchInv'
    BY <2>1 DEF TreeInv, TablesInv, BatchInv
  <2>3. WholeInv'
    BY <2>1 DEF TreeInv, WholeInv, Whole
  <2> QED
    BY <2>1, <2>2, <2>3 DEF TreeInv, StatusInv, Configured, Loading
<1>10. CASE InsertCoordinator
  BY <1>10, InsertCoordinatorTrees
<1>11. CASE BulkInsert
  BY <1>11, BulkInsertTrees
<1>12. CASE Merkelise
  BY <1>12, MerkeliseTrees
<1>13. CASE TreeDone
  BY <1>13, TreeDoneTrees
<1>14. IndexOutOfRange \/ Crash => GoDown
  BY DEF IndexOutOfRange, Crash
<1> QED
  BY <1>1, <1>2, <1>3, <1>4, <1>5, <1>6, <1>7, <1>8, <1>9, <1>10, <1>11, <1>12, <1>13, <1>14
     DEF Next

-----------------------------------------------------------------------------
(* The parameters                                                           *)

LEMMA ParamNames ==
    /\ Len(Params) = 4 /\ DOMAIN Params = 1 .. 4
    /\ AllParams = {Params[k] : k \in 1 .. 4}
BY DEF Params, AllParams

LEMMA NextUpInv == UpInv /\ [Next]_vars => UpInv'
<1> SUFFICES ASSUME UpInv, [Next]_vars PROVE UpInv'
  OBVIOUS
<1>1. CASE RunInit \/ UNCHANGED vars
  BY <1>1 DEF RunInit, vars, process, UpInv
<1>2. CASE StartCmd
  BY <1>2 DEF StartCmd, UpInv
<1>3. ASSUME NEW k \in 1 .. Len(Loads), LoadConfig(k)
      PROVE  UpInv'
  <2>1. pc \in LoadPcs /\ up' = up
    BY <1>3, LoadsByName DEF LoadConfig
  <2> QED
    BY <2>1 DEF UpInv, LoadPcs
<1>4. CASE GoDown
  BY <1>4 DEF GoDown, UpInv
<1>5. ASSUME NEW k \in 1 .. Len(Loads), LoadConfigFails(k)
      PROVE  GoDown
  BY <1>5 DEF LoadConfigFails
<1>6. IndexOutOfRange \/ Crash => GoDown
  BY DEF IndexOutOfRange, Crash
<1>7. CASE GetSyncStatus \/ ReadGenesisFile
  BY <1>4, <1>7 DEF GetSyncStatus, ReadGenesisFile, UpInv
<1>8. CASE \/ InsertCoordinator \/ BulkInsert \/ Merkelise \/ TreeDone \/ UpdateParam
           \/ UpdateParamFails \/ InitSyncStatus
  BY <1>8 DEF InsertCoordinator, BulkInsert, Merkelise, TreeDone, UpdateParam,
              UpdateParamFails, InitSyncStatus, UpInv
<1> QED
  BY <1>1, <1>2, <1>3, <1>4, <1>5, <1>6, <1>7, <1>8 DEF Next

LEMMA NextParamsInv == UpInv /\ TreeInv /\ ParamsInv /\ [Next]_vars => ParamsInv'
<1> SUFFICES ASSUME UpInv, TreeInv, ParamsInv, [Next]_vars PROVE ParamsInv'
  OBVIOUS
<1>1. CASE UpdateParam
  <2>1. /\ pc = "params" /\ param <= 4 /\ params' = params \cup {Params[param]}
        /\ param' = param + 1 /\ UNCHANGED <<syncStatus, pc, faults>>
    BY <1>1, ParamNames DEF UpdateParam, history
  <2>2. param \in 1 .. 4 /\ param' \in 1 .. 5 /\ Params[param] \in AllParams
    BY <2>1, ParamNames DEF ParamsInv
  <2>3. params' \subseteq AllParams
    BY <2>1, <2>2 DEF ParamsInv
  <2>4. ~syncStatus
    BY <2>1 DEF TreeInv, StatusInv, Loading
  <2>5. ASSUME faults = 0, NEW k \in 1 .. param' - 1
        PROVE  Params[k] \in params'
    <3>1. k = param \/ k \in 1 .. param - 1
      BY <2>1, <2>2
    <3> QED
      BY <2>1, <2>5, <3>1 DEF ParamsInv
  <2> QED
    BY <2>1, <2>2, <2>3, <2>4, <2>5 DEF ParamsInv
<1>2. CASE UpdateParamFails
  <2>1. /\ param <= 4 /\ faults' = faults + 1 /\ param' = param + 1
        /\ UNCHANGED <<params, syncStatus, pc>>
    BY <1>2, ParamNames DEF UpdateParamFails, database
  <2>2. pc = "params" /\ faults' # 0 /\ faults' \in Nat /\ param' \in 1 .. 5
    BY <1>2, <2>1 DEF UpdateParamFails, ParamsInv
  <2> QED
    BY <2>1, <2>2 DEF ParamsInv
<1>3. CASE InitSyncStatus
  <2>1. /\ pc = "params" /\ param > 4 /\ pc' = "running"
        /\ UNCHANGED <<params, param, faults>>
    BY <1>3, ParamNames DEF InitSyncStatus, history
  <2>2. param = 5
    BY <2>1 DEF ParamsInv
  <2>3. faults = 0 => AllParams \subseteq params
    BY <2>1, <2>2, ParamNames DEF ParamsInv
  <2>4. faults = 0 => params = AllParams
    BY <2>3 DEF ParamsInv
  <2> QED
    BY <2>1, <2>4 DEF ParamsInv
<1>4. ASSUME UNCHANGED <<params, syncStatus, faults>>,
             \/ param' = 1
             \/ param' = param /\ (pc' = pc \/ pc \notin {"params", "running"})
      PROVE  ParamsInv'
  <2>1. CASE param' = 1
    BY <1>4, <2>1 DEF ParamsInv
  <2>2. CASE param' = param /\ pc' = pc
    BY <1>4, <2>2 DEF ParamsInv
  <2>3. CASE param' = param /\ pc \notin {"params", "running"}
    <3>1. param' = 1
      BY <2>3 DEF ParamsInv
    <3> QED
      BY <2>1, <3>1
  <2> QED
    BY <1>4, <2>1, <2>2, <2>3
<1>5. CASE GoDown /\ UNCHANGED faults
  BY <1>4, <1>5 DEF GoDown, database
<1>6. CASE RunInit \/ UNCHANGED vars
  BY <1>4, <1>6 DEF RunInit, vars, database, process, history
<1>7. CASE StartCmd
  <2>1. pc = "start" /\ UNCHANGED <<params, syncStatus, faults, param>>
    BY <1>7 DEF StartCmd, database, UpInv
  <2> QED
    BY <1>4, <2>1
<1>8. ASSUME NEW k \in 1 .. Len(Loads), LoadConfig(k)
      PROVE  ParamsInv'
  <2>1. UNCHANGED <<params, syncStatus, faults, param>> /\ pc \in LoadPcs
    BY <1>8, LoadSteps DEF LoadConfig, Reads, database, history, LoadPcs
  <2> QED
    BY <1>4, <2>1 DEF LoadPcs
<1>9. CASE \/ \E k \in 1 .. Len(Loads) : LoadConfigFails(k)
           \/ IndexOutOfRange \/ Crash
  BY <1>5, <1>9 DEF LoadConfigFails, IndexOutOfRange, Crash, history
<1>10. CASE GetSyncStatus \/ ReadGenesisFile
  BY <1>4, <1>5, <1>10 DEF GetSyncStatus, ReadGenesisFile, database, history
<1>11. CASE InsertCoordinator \/ BulkInsert \/ Merkelise
  BY <1>4, <1>11 DEF InsertCoordinator, BulkInsert, Merkelise, database, history
<1>12. CASE TreeDone
  <2>1. UNCHANGED <<params, syncStatus, faults, param>>
    BY <1>12 DEF TreeDone, database, history
  <2> QED
    BY <1>4, <1>12, <2>1 DEF TreeDone
<1> QED
  BY <1>1, <1>2, <1>3, <1>6, <1>7, <1>8, <1>9, <1>10, <1>11, <1>12 DEF Next

-----------------------------------------------------------------------------
(* Theorems                                                                 *)

NodeInv == ConfigInv /\ UpInv /\ TreeInv /\ ParamsInv

LEMMA InitNodeInv == Init => NodeInv
<1> SUFFICES ASSUME Init PROVE NodeInv
  OBVIOUS
<1>1. UpInv
  BY DEF Init, UpInv
<1>2. ParamsInv
  <2>1. /\ faults = 0 /\ param = 1 /\ params = {} /\ pc = "start" /\ ~syncStatus
    BY DEF Init
  <2> QED
    BY <2>1 DEF ParamsInv
<1> QED
  BY <1>1, <1>2, InitConfigInv, InitTreeInv DEF NodeInv

LEMMA NextNodeInv == NodeInv /\ [Next]_vars => NodeInv'
BY NextConfigInv, NextUpInv, NextTreeInv, NextParamsInv DEF NodeInv

SyncTypes == syncStatus \in BOOLEAN /\ torn \in BOOLEAN

LEMMA NextSyncTypes == SyncTypes /\ [Next]_vars => SyncTypes'
<1> SUFFICES ASSUME SyncTypes, [Next]_vars PROVE SyncTypes'
  OBVIOUS
<1>1. syncStatus' = syncStatus \/ syncStatus' = TRUE
  BY DEF Next, vars, RunInit, StartCmd, LoadConfig, LoadConfigFails, GoDown, GetSyncStatus,
         ReadGenesisFile, InsertCoordinator, BulkInsert, Merkelise, IndexOutOfRange, TreeDone,
         UpdateParam, UpdateParamFails, InitSyncStatus, Crash, database
<1>2. torn' = torn \/ torn' = (torn \/ Len(rows[table][level]) % 2 ^ level # 0)
  BY DEF Next, vars, history, RunInit, StartCmd, LoadConfig, LoadConfigFails, GetSyncStatus,
         ReadGenesisFile, InsertCoordinator, BulkInsert, Merkelise, IndexOutOfRange, TreeDone,
         UpdateParam, UpdateParamFails, InitSyncStatus, Crash
<1>3. torn' \in BOOLEAN
  BY <1>2 DEF SyncTypes
<1> QED
  BY <1>1, <1>3 DEF SyncTypes

\* The variables of the start have their types: whatever an interrupted
\* bootstrap left behind, a row names a node of its level.
THEOREM GenesisTypes == Spec => []TypeOK
<1>1. Init => NodeInv /\ SyncTypes
  BY InitNodeInv DEF Init, SyncTypes
<1>2. NodeInv /\ SyncTypes /\ [Next]_vars => (NodeInv /\ SyncTypes)'
  BY NextNodeInv, NextSyncTypes
<1>3. NodeInv /\ SyncTypes => TypeOK
  <2> SUFFICES ASSUME NodeInv, SyncTypes PROVE TypeOK
    OBVIOUS
  <2>1. \A t \in Tables, l \in 0 .. Depth : RowsOfLevel(rows[t][l], l)
    BY DEF NodeInv, TreeInv, TablesInv
  <2>2. params \subseteq {Params[k] : k \in DOMAIN Params} /\ param \in 1 .. Len(Params) + 1
    BY ParamNames DEF NodeInv, ParamsInv, AllParams
  <2>3. syncStatus \in BOOLEAN /\ up \in BOOLEAN /\ torn \in BOOLEAN
    BY DEF NodeInv, UpInv, SyncTypes
  <2>4. pc \in {"start", "status", "genesis", "coordinator", "insert", "params", "running"}
                  \cup {Loads[k] : k \in DOMAIN Loads}
    BY LoadsByName DEF NodeInv, TreeInv, StatusInv, Configured
  <2>5. table \in Tables /\ level \in 0 .. Depth /\ RowsOfLevel(batch, level)
    BY DEF NodeInv, TreeInv, BatchInv
  <2>6. ConfigTypes
    BY DEF NodeInv, ConfigInv
  <2> QED
    BY <2>1, <2>2, <2>3, <2>4, <2>5, <2>6 DEF TypeOK, ConfigTypes
<1> QED
  BY <1>1, <1>2, <1>3, PTL DEF Spec

\* A node that runs has a row for every node of both trees, its sync status and
\* all the parameters whose statements did not fail, after any number of
\* bootstraps that were interrupted at any statement.
THEOREM RunningNodeIsLoaded == Spec => []RunningIsLoaded
<1>1. NodeInv => RunningIsLoaded
  <2> SUFFICES ASSUME NodeInv, pc = "running" PROVE RunningIsLoaded
    BY DEF RunningIsLoaded
  <2>1. syncStatus
    BY DEF NodeInv, TreeInv, StatusInv
  <2>2. ASSUME NEW t \in Tables, NEW l \in 0 .. Depth, NEW n \in Nodes(l)
        PROVE  \E k \in DOMAIN rows[t][l] : rows[t][l][k].node = n
    <3> DEFINE accs == rows[t][l]
               size == 2 ^ l
    <3>1. Ends(accs, l) /\ IsSeq(accs)
      <4>1. Whole(t)
        BY <2>1 DEF NodeInv, TreeInv, WholeInv, Tables
      <4> QED
        BY <4>1 DEF NodeInv, TreeInv, TablesInv, Whole
    <3>2. size \in Nat \ {0} /\ n \in 0 .. size - 1
      BY <2>2, LevelSizes DEF Nodes
    <3> HIDE DEF accs
    <3>3. Len(accs) \in Nat /\ DOMAIN accs = 1 .. Len(accs)
      BY <3>1, SeqFacts
    <3>4. size <= Len(accs) /\ accs[Len(accs) - size + 1 + n].node = n
      BY <2>2, <3>1 DEF Ends
    <3> HIDE DEF size
    <3>5. Len(accs) - size + 1 + n \in DOMAIN accs
      BY <3>2, <3>3, <3>4
    <3>6. \E k \in DOMAIN accs : accs[k].node = n
      BY <3>4, <3>5
    <3> QED
      BY <3>6 DEF accs
  <2>3. faults = 0 => params = {Params[k] : k \in DOMAIN Params}
    BY <2>1 DEF NodeInv, ParamsInv, AllParams
  <2> QED
    BY <2>1, <2>2, <2>3 DEF RunningIsLoaded
<1> QED
  BY <1>1, InitNodeInv, NextNodeInv, PTL DEF Spec

\* Once the sync status is written no start, crash or error writes the genesis
\* again.
THEOREM GenesisLoadedOnce == Spec => LoadedOnce
<1>1. NodeInv /\ [Next]_vars => [syncStatus => UNCHANGED database]_vars
  <2> SUFFICES ASSUME NodeInv, [Next]_vars, syncStatus PROVE UNCHANGED database
    OBVIOUS
  <2>1. pc \notin {"genesis", "coordinator", "insert", "params"}
    BY DEF NodeInv, TreeInv, StatusInv, Loading
  <2> QED
    BY <2>1 DEF Next, vars, RunInit, StartCmd, LoadConfig, LoadConfigFails, GoDown,
                GetSyncStatus, ReadGenesisFile, InsertCoordinator, BulkInsert, Merkelise,
                IndexOutOfRange, TreeDone, UpdateParam, UpdateParamFails, InitSyncStatus, Crash
<1> QED
  BY <1>1, InitNodeInv, NextNodeInv, PTL DEF Spec, LoadedOnce

-----------------------------------------------------------------------------
(* Arithmetic and induction                                                 *)

\* Division with remainder.
Divides(P, q, r, x) == x = P * q + r

LEMMA DivMod ==
    ASSUME NEW x \in Nat, NEW P \in Nat \ {0}
    PROVE  x % P \in 0 .. P - 1 /\ x \div P \in Nat /\ Divides(P, x \div P, x % P, x)
<1>1. x % P \in 0 .. P - 1
  OBVIOUS
<1>2. x \div P \in Int
  OBVIOUS
<1>3. x = P * (x \div P) + (x % P)
  OBVIOUS
<1>4. x \div P >= 0
  <2>1. PICK d \in Int, r \in 0 .. P - 1 : x \div P = d /\ x = P * d + r
    BY <1>1, <1>2, <1>3
  <2>2. d < 0 => P * d <= -P
    OBVIOUS
  <2> QED
    BY <2>1, <2>2
<1> QED
  BY <1>1, <1>2, <1>3, <1>4 DEF Divides

LEMMA ModUnique ==
    ASSUME NEW P \in Nat \ {0}, NEW q \in Nat, NEW r \in 0 .. P - 1, NEW x \in Nat,
           Divides(P, q, r, x)
    PROVE  x % P = r
<1> DEFINE d == x \div P
           s == x % P
<1>0. x = P * q + r
  BY DEF Divides
<1>1. s \in 0 .. P - 1 /\ d \in Nat /\ x = P * d + s
  BY DivMod DEF Divides
<1> HIDE DEF d, s
<1>2. \A c \in Nat : c >= 1 => P * c >= P
  OBVIOUS
<1>3. P * q \in Nat /\ P * d \in Nat
  BY <1>1
<1>4. CASE q > d
  <2>1. q - d \in Nat /\ q - d >= 1 /\ P * q = P * d + P * (q - d)
    BY <1>1, <1>4
  <2>2. P * (q - d) >= P
    BY <1>2, <2>1
  <2> QED
    BY ONLY <1>1, <1>3, <2>1, <2>2, <1>0, r \in 0 .. P - 1, P \in Nat \ {0}, P * (q - d) \in Int
<1>5. CASE q < d
  <2>1. d - q \in Nat /\ d - q >= 1 /\ P * d = P * q + P * (d - q)
    BY <1>1, <1>5
  <2>2. P * (d - q) >= P
    BY <1>2, <2>1
  <2> QED
    BY ONLY <1>1, <1>3, <2>1, <2>2, <1>0, r \in 0 .. P - 1, P \in Nat \ {0}, P * (d - q) \in Int
<1>6. CASE q = d
  BY <1>0, <1>1, <1>6 DEF s
<1> QED
  BY <1>1, <1>4, <1>5, <1>6 DEF s

LEMMA ModAdd ==
    ASSUME NEW P \in Nat \ {0}, NEW a \in Nat, NEW b \in Nat, a % P = 0
    PROVE  (a + b) % P = b % P
<1>1. PICK q \in Nat : a = P * q
  <2>1. PICK q \in Nat : Divides(P, q, 0, a)
    BY DivMod
  <2>2. P * q \in Nat
    BY <2>1
  <2> QED
    BY <2>1, <2>2 DEF Divides
<1>2. PICK d \in Nat, r \in 0 .. P - 1 : b = P * d + r /\ b % P = r
  BY DivMod DEF Divides
<1>3. Divides(P, q + d, r, a + b) /\ q + d \in Nat /\ a + b \in Nat
  BY <1>1, <1>2 DEF Divides
<1> QED
  BY <1>2, <1>3, ModUnique

LEMMA ModDouble ==
    ASSUME NEW P \in Nat \ {0}, NEW k \in Nat
    PROVE  (2 * k) % (2 * P) = 2 * (k % P) /\ (2 * k + 1) % (2 * P) = 2 * (k % P) + 1
<1>1. PICK d \in Nat, r \in 0 .. P - 1 : k = P * d + r /\ k % P = r
  BY DivMod DEF Divides
<1>2. PICK Q \in Nat \ {0} : Q = 2 * P
  OBVIOUS
<1>3. 2 * r \in 0 .. Q - 1 /\ 2 * r + 1 \in 0 .. Q - 1 /\ 2 * k \in Nat /\ 2 * k + 1 \in Nat
  BY <1>1, <1>2
<1>4. Divides(Q, d, 2 * r, 2 * k) /\ Divides(Q, d, 2 * r + 1, 2 * k + 1)
  BY <1>1, <1>2 DEF Divides
<1>5. (2 * k) % Q = 2 * r /\ (2 * k + 1) % Q = 2 * r + 1
  BY <1>3, <1>4, ModUnique
<1> QED
  BY <1>1, <1>2, <1>5

\* Every set of natural numbers has a least element.
LEMMA LeastNumber ==
    ASSUME NEW T \in SUBSET Nat, T # {}
    PROVE  \E x \in T : \A y \in T : x <= y
<1> DEFINE R == OpToRel(<, Nat)
<1>1. \A x, y \in Nat : <<y, x>> \in R <=> y < x
  BY DEF OpToRel
<1>2. IsWellFoundedOn(R, Nat)
  BY NatLessThanWellFounded
<1> HIDE DEF R
<1>3. PICK x \in T : \A y \in T : ~(<<y, x>> \in R)
  BY <1>2, WFMin
<1>4. \A y \in T : ~(y < x)
  BY <1>1, <1>3
<1>5. \A y \in T : x <= y
  BY <1>4
<1> QED
  BY <1>5

\* Induction, for a set of numbers instead of a predicate.
LEMMA Induction ==
    ASSUME NEW S, 0 \in S, \A m \in Nat : m \in S => m + 1 \in S
    PROVE  Nat \subseteq S
<1> DEFINE T == Nat \ S
<1>1. SUFFICES ASSUME T # {}
               PROVE  FALSE
  OBVIOUS
<1>2. PICK x \in T : \A y \in T : x <= y
  BY <1>1, LeastNumber
<1>3. x - 1 \in Nat /\ x - 1 \notin T
  BY <1>2
<1>4. x - 1 + 1 \in S
  BY <1>3
<1> QED
  BY <1>4

-----------------------------------------------------------------------------
(* The hashes                                                               *)

\* The recursive definition of the Merkle tree, from the leaves up, has a solution.
MerkleLevel(t, H, l) ==
    [n \in Nodes(l) |-> IF l = Depth THEN LeafHash(t, n)
                        ELSE GetParent(H[l + 1][2 * n], H[l + 1][2 * n + 1])]

LEMMA MerkleTreeDef ==
    ASSUME NEW t
    PROVE  MerkleTree(t) = [l \in 0 .. Depth |-> MerkleLevel(t, MerkleTree(t), l)]
<1> DEFINE Body(g, l) == MerkleLevel(t, g, l)
           Rec(g, m) == g = [l \in Depth - m .. Depth |-> Body(g, l)]
           S == {m \in Nat : \E g : Rec(g, m)}
<1>0. Depth \in Nat
  BY GenesisAssumption
<1>1. ASSUME NEW g, NEW h, NEW l, l # Depth => g[l + 1] = h[l + 1]
      PROVE  Body(g, l) = Body(h, l)
  BY <1>1 DEF MerkleLevel
<1> HIDE DEF Body
<1>2. 0 \in S
  <2> DEFINE g == [l \in Depth - 0 .. Depth |-> Body(<<>>, l)]
  <2>1. \A l \in Depth - 0 .. Depth : l = Depth
    BY <1>0
  <2>2. \A l \in Depth - 0 .. Depth : Body(<<>>, l) = Body(g, l)
    BY <1>1, <2>1
  <2>3. g = [l \in Depth - 0 .. Depth |-> Body(g, l)]
    BY <2>2
  <2> QED
    BY <2>3
<1>3. ASSUME NEW m \in Nat, m \in S
      PROVE  m + 1 \in S
  <2>1. PICK g : Rec(g, m)
    BY <1>3
  <2> DEFINE low == Depth - (m + 1)
             h == [l \in low .. Depth |-> IF l = low THEN Body(g, low) ELSE g[l]]
  <2>2. low \in Int /\ \A l \in low .. Depth : l = low \/ l \in Depth - m .. Depth
    BY <1>0
  <2>3. \A l \in Depth - m .. Depth : l # low /\ l \in low .. Depth
    BY <1>0
  <2>4. \A l \in Depth - m .. Depth : h[l] = g[l]
    BY <2>3
  <2>5. \A l \in Depth - m .. Depth : g[l] = Body(g, l)
    BY <2>1
  <2>6. \A l \in low .. Depth : h[l] = Body(g, l)
    BY <2>2, <2>4, <2>5
  <2>7. ASSUME NEW l \in low .. Depth
        PROVE  Body(g, l) = Body(h, l)
    <3>1. l # Depth => l + 1 \in Depth - m .. Depth
      BY <1>0
    <3>2. l # Depth => g[l + 1] = h[l + 1]
      BY <2>4, <3>1
    <3> HIDE DEF h
    <3> QED
      BY <1>1, <3>2
  <2>8. h = [l \in low .. Depth |-> Body(h, l)]
    BY <2>6, <2>7
  <2> HIDE DEF h
  <2>9. Rec(h, m + 1)
    BY <2>8
  <2> QED
    BY <2>9
<1>4. Depth \in S
  <2> HIDE DEF S
  <2> QED
    BY <1>0, <1>2, <1>3, Induction
<1>5. PICK g : Rec(g, Depth)
  BY <1>4
<1>6. Depth - Depth = 0
  BY <1>0
<1>7. MerkleTree(t) = CHOOSE h : Rec(h, Depth)
  BY <1>6 DEF MerkleTree, Body, MerkleLevel
<1>8. Rec(MerkleTree(t), Depth)
  <2> HIDE DEF Rec
  <2> QED
    BY <1>5, <1>7
<1> QED
  BY <1>6, <1>8 DEF Body

\* The k-th row of a level that was stored in complete passes.
MerkleRow(t, l, k) == Row((k - 1) % 2 ^ l, MerkleTree(t)[l][(k - 1) % 2 ^ l])

\* Complete passes over the level, one after the other.
Passes(t, l, s) ==
    /\ Len(s) % 2 ^ l = 0
    /\ \A k \in 1 .. Len(s) : s[k] = MerkleRow(t, l, k)

\* Unless a crash tore a level, every level consists of complete passes, the one
\* under way together with the rows that are still to be sent.
MerkleInv ==
    ~torn =>
        /\ \A t \in Tables, l \in 0 .. Depth :
              (pc = "insert" /\ t = table /\ l = level) \/ Passes(t, l, rows[t][l])
        /\ pc = "insert" => Passes(table, level, rows[table][level] \o batch)

LEMMA InitMerkleInv == Init => MerkleInv
<1> SUFFICES ASSUME Init PROVE MerkleInv
  OBVIOUS
<1>1. rows = [t \in Tables |-> [l \in 0 .. Depth |-> <<>>]] /\ pc = "start"
  BY DEF Init
<1>2. \A t \in Tables, l \in 0 .. Depth : rows[t][l] = <<>>
  BY <1>1
<1>3. ASSUME NEW t \in Tables, NEW l \in 0 .. Depth
      PROVE  Passes(t, l, <<>>)
  <2>1. 2 ^ l \in Nat \ {0}
    BY LevelSizes
  <2>2. \A P \in Nat \ {0} : 0 % P = 0
    OBVIOUS
  <2>3. Len(<<>>) = 0
    OBVIOUS
  <2>4. \A k \in 1 .. Len(<<>>) : FALSE
    BY <2>3
  <2> QED
    BY <2>1, <2>2, <2>3, <2>4 DEF Passes
<1> QED
  BY <1>1, <1>2, <1>3 DEF MerkleInv

\* A step that writes no row, and neither begins nor ends a pass.
LEMMA KeepMerkle ==
    ASSUME MerkleInv, UNCHANGED <<rows, torn>>,
           (pc # "insert" /\ pc' # "insert") \/ UNCHANGED <<pc, table, level, batch>>
    PROVE  MerkleInv'
BY DEF MerkleInv, Passes

\* The end of a pass, with every row sent.
LEMMA PassEnds ==
    ASSUME TreeInv, MerkleInv, pc = "insert", batch = <<>>, ~torn
    PROVE  \A t \in Tables, l \in 0 .. Depth : Passes(t, l, rows[t][l])
<1>1. IsSeq(rows[table][level])
  BY DEF TreeInv, TablesInv, BatchInv
<1>2. rows[table][level] \o <<>> = rows[table][level]
  BY <1>1 DEF IsSeq
<1>3. Passes(table, level, rows[table][level])
  BY <1>2 DEF MerkleInv
<1> QED
  BY <1>3 DEF MerkleInv

LEMMA EndMerkle ==
    ASSUME TreeInv, MerkleInv, pc = "insert", batch = <<>>, pc' # "insert", UNCHANGED <<rows, torn>>
    PROVE  MerkleInv'
<1>1. ~torn => \A t \in Tables, l \in 0 .. Depth : Passes(t, l, rows[t][l])
  BY PassEnds
<1> QED
  BY <1>1 DEF MerkleInv, Passes

\* A crash that tears no level leaves complete passes of the level under way.
LEMMA CrashMerkle ==
    ASSUME TreeInv, MerkleInv, Crash
    PROVE  MerkleInv'
<1>1. UNCHANGED rows /\ pc' = "start"
  BY DEF Crash, GoDown, database
<1> SUFFICES ASSUME ~torn'
             PROVE  \A t \in Tables, l \in 0 .. Depth : Passes(t, l, rows[t][l])
  BY <1>1 DEF MerkleInv, Passes
<1>2. ~torn /\ Len(rows[table][level]) % 2 ^ level = 0
  BY DEF Crash
<1>3. CASE pc # "insert"
  BY <1>2, <1>3 DEF MerkleInv
<1>4. CASE pc = "insert"
  <2> DEFINE s == rows[table][level]
             P == 2 ^ level
             all == s \o batch
  <2>1. IsSeq(s) /\ IsSeq(batch) /\ Len(s) % P = 0
    BY <1>2 DEF TreeInv, TablesInv, BatchInv
  <2>2. \A k \in 1 .. Len(all) : all[k] = MerkleRow(table, level, k)
    BY <1>2, <1>4 DEF MerkleInv, Passes
  <2> HIDE DEF s, P
  <2>3. /\ Len(all) = Len(s) + Len(batch) /\ Len(s) \in Nat /\ Len(batch) \in Nat
        /\ \A k \in 1 .. Len(s) : all[k] = s[k]
    BY <2>1, ConcatFacts, SeqFacts
  <2> HIDE DEF all
  <2>4. \A k \in 1 .. Len(s) : k \in 1 .. Len(all)
    BY <2>3
  <2>5. \A k \in 1 .. Len(s) : s[k] = MerkleRow(table, level, k)
    BY <2>2, <2>3, <2>4
  <2>6. Passes(table, level, s)
    BY <2>1, <2>5 DEF Passes, P
  <2> QED
    BY <1>2, <2>6 DEF MerkleInv, s
<1> QED
  BY <1>3, <1>4

\* Complete passes may be put after complete passes.
LEMMA JoinPasses ==
    ASSUME NEW t \in Tables, NEW l \in 0 .. Depth, NEW s, NEW b, IsSeq(s), IsSeq(b),
           Passes(t, l, s), Passes(t, l, b)
    PROVE  Passes(t, l, s \o b)
<1> DEFINE P == 2 ^ l
           all == s \o b
<1>1. P \in Nat \ {0}
  BY LevelSizes
<1>2. /\ Len(s) \in Nat /\ Len(b) \in Nat /\ Len(s) % P = 0 /\ Len(b) % P = 0
      /\ \A k \in 1 .. Len(s) : s[k] = MerkleRow(t, l, k)
      /\ \A k \in 1 .. Len(b) : b[k] = MerkleRow(t, l, k)
  BY SeqFacts DEF Passes
<1>3. /\ Len(all) = Len(s) + Len(b)
      /\ \A k \in 1 .. Len(s) : all[k] = s[k]
      /\ \A k \in 1 .. Len(b) : all[Len(s) + k] = b[k]
  BY ConcatFacts
<1> HIDE DEF P, all
<1>4. Len(all) % P = 0
  BY <1>1, <1>2, <1>3, ModAdd
<1>5. ASSUME NEW k \in 1 .. Len(b)
      PROVE  MerkleRow(t, l, Len(s) + k) = MerkleRow(t, l, k)
  <2>1. k - 1 \in Nat /\ Len(s) + k - 1 = Len(s) + (k - 1)
    BY <1>2
  <2>2. (Len(s) + (k - 1)) % P = (k - 1) % P
    BY <1>1, <1>2, <2>1, ModAdd
  <2>3. (Len(s) + k - 1) % 2 ^ l = (k - 1) % 2 ^ l
    BY <2>1, <2>2 DEF P
  <2> QED
    BY <2>3 DEF MerkleRow
<1>6. ASSUME NEW k \in 1 .. Len(all)
      PROVE  all[k] = MerkleRow(t, l, k)
  <2>1. CASE k <= Len(s)
    <3>1. k \in 1 .. Len(s)
      BY <1>2, <2>1
    <3> QED
      BY <1>2, <1>3, <3>1
  <2>2. CASE k > Len(s)
    <3>1. PICK j \in 1 .. Len(b) : k = Len(s) + j
      <4>1. k - Len(s) \in 1 .. Len(b) /\ k = Len(s) + (k - Len(s))
        BY <1>2, <1>3, <2>2
      <4> QED
        BY <4>1
    <3> QED
      BY <1>2, <1>3, <1>5, <3>1
  <2> QED
    BY <1>2, <1>3, <2>1, <2>2
<1> QED
  BY <1>4, <1>6 DEF Passes, P, all

\* The rows that are not written stay, and with them their passes.
LEMMA OtherLevels ==
    ASSUME MerkleInv, TablesInv, NEW u \in Tables, NEW m \in 0 .. Depth, NEW x,
           Writes(u, m, x), UNCHANGED torn, pc' = "insert", table' = u, level' = m,
           pc = "insert" => u = table /\ m = level,
           ~torn => Passes(u, m, x \o batch')
    PROVE  MerkleInv'
<1>1. /\ rows'[u][m] = x
      /\ \A t \in Tables, l \in 0 .. Depth : t # u \/ l # m => rows'[t][l] = rows[t][l]
  BY OneLevelChanges
<1> SUFFICES ASSUME ~torn
             PROVE  /\ \A t \in Tables, l \in 0 .. Depth :
                          (t = u /\ l = m) \/ Passes(t, l, rows'[t][l])
                    /\ Passes(u, m, rows'[u][m] \o batch')
  BY DEF MerkleInv, Passes
<1>2. ASSUME NEW t \in Tables, NEW l \in 0 .. Depth, t # u \/ l # m
      PROVE  Passes(t, l, rows'[t][l])
  <2>1. Passes(t, l, rows[t][l])
    BY <1>2 DEF MerkleInv
  <2> QED
    BY <1>1, <1>2, <2>1
<1>3. Passes(u, m, rows'[u][m] \o batch')
  BY <1>1
<1> QED
  BY <1>2, <1>3

\* The hashes of the leaves.
LEMMA LeafHashes ==
    ASSUME NEW t \in Tables, NEW n \in Nodes(Depth)
    PROVE  MerkleTree(t)[Depth][n] = LeafHash(t, n)
<1>1. Depth \in 0 .. Depth
  BY GenesisAssumption
<1>2. MerkleTree(t)[Depth] = MerkleLevel(t, MerkleTree(t), Depth)
  BY <1>1, MerkleTreeDef
<1> QED
  BY <1>2 DEF MerkleLevel

LEMMA SmallMod ==
    ASSUME NEW P \in Nat \ {0}, NEW n \in 0 .. P - 1
    PROVE  n % P = n
<1>1. Divides(P, 0, n, n)
  BY DEF Divides
<1>2. n \in Nat /\ 0 \in Nat
  OBVIOUS
<1> QED
  BY <1>1, <1>2, ModUnique

LEMMA InsertCoordinatorMerkle ==
    ASSUME TreeInv, MerkleInv, InsertCoordinator
    PROVE  MerkleInv'
<1> DEFINE size == 2 ^ Depth
           old == rows[table][Depth]
           row == Row(0, LeafHash(table, 0))
           new == Append(old, row)
<1>1. /\ rows' = [rows EXCEPT ![table][Depth] = new]
      /\ batch' = [n \in 1 .. size - 1 |-> Row(n - 1 + 1, LeafHash(table, n))]
      /\ level' = Depth /\ pc = "coordinator" /\ pc' = "insert"
      /\ UNCHANGED <<table, torn>>
  BY DEF InsertCoordinator, history, GenCoordinatorPath, GetAdjacentNodePath
<1>2. /\ Depth \in 0 .. Depth /\ Depth \in Nat /\ size \in Nat \ {0} /\ table \in Tables
      /\ TablesInv /\ IsSeq(old)
  <2>1. Depth \in 0 .. Depth /\ Depth \in Nat
    BY GenesisAssumption
  <2>2. size \in Nat \ {0}
    BY <2>1, PowerOfTwo
  <2> QED
    BY <2>1, <2>2 DEF TreeInv, BatchInv, TablesInv
<1>3. Writes(table, Depth, new)
  BY <1>1 DEF Writes
<1>4. /\ IsSeq(new) /\ Len(new) = Len(old) + 1
      /\ \A k \in 1 .. Len(old) : new[k] = old[k]
      /\ new[Len(old) + 1] = row /\ Len(old) \in Nat
  BY <1>2, AppendFacts, SeqFacts
<1>5. /\ IsSeq(batch') /\ Len(batch') = size - 1
      /\ \A n \in 1 .. size - 1 : batch'[n] = Row(n, LeafHash(table, n))
  <2>1. size - 1 \in Nat /\ batch' = [k \in 1 .. size - 1 |-> batch'[k]]
    BY <1>1, <1>2
  <2>2. \A n \in 1 .. size - 1 : batch'[n] = Row(n - 1 + 1, LeafHash(table, n))
    BY <1>1
  <2> HIDE DEF size
  <2>3. \A n \in 1 .. size - 1 : n - 1 + 1 = n
    BY <2>1
  <2>4. \A n \in 1 .. size - 1 : batch'[n] = Row(n, LeafHash(table, n))
    BY ONLY <2>2, <2>3
  <2> QED
    BY <2>1, <2>4, SeqOfFunction
<1>6. Nodes(Depth) = 0 .. size - 1
  BY DEF Nodes
<1> HIDE DEF size, row, new
<1>7. ASSUME ~torn
      PROVE  Passes(table, Depth, new \o batch')
  <2>1. /\ Len(old) % size = 0
        /\ \A k \in 1 .. Len(old) : old[k] = MerkleRow(table, Depth, k)
    <3>1. Passes(table, Depth, old)
      BY <1>1, <1>2, <1>7 DEF MerkleInv
    <3> QED
      BY <3>1 DEF Passes, size
  <2> HIDE DEF old
  <2> DEFINE b == batch'
             all == new \o b
  <2>2. /\ Len(all) = Len(new) + Len(b)
        /\ \A k \in 1 .. Len(new) : all[k] = new[k]
        /\ \A k \in 1 .. Len(b) : all[Len(new) + k] = b[k]
    <3>1. IsSeq(new) /\ IsSeq(b)
      BY <1>4, <1>5
    <3> HIDE DEF b
    <3> QED
      BY ONLY <3>1, ConcatFacts
  <2>3. Len(all) = Len(old) + size
    BY <1>2, <1>4, <1>5, <2>2
  <2>4. ASSUME NEW n \in 0 .. size - 1
        PROVE  all[Len(old) + 1 + n] = Row(n, LeafHash(table, n))
    <3>1. CASE n = 0
      <4>1. Len(old) + 1 \in 1 .. Len(new) /\ Len(old) + 1 + n = Len(old) + 1
        BY <1>2, <1>4, <3>1
      <4>2. all[Len(old) + 1] = row
        BY <1>4, <2>2, <4>1
      <4> QED
        BY <3>1, <4>1, <4>2 DEF row
    <3>2. CASE n > 0
      <4>1. n \in 1 .. size - 1 /\ n \in 1 .. Len(b) /\ Len(old) + 1 + n = Len(new) + n
        BY <1>2, <1>4, <1>5, <3>2
      <4>2. all[Len(new) + n] = b[n]
        BY <2>2, <4>1
      <4> QED
        BY <1>5, <4>1, <4>2
    <3> HIDE DEF all, b
    <3> QED
      BY <1>2, <3>1, <3>2
  <2>5. ASSUME NEW n \in 0 .. size - 1
        PROVE  MerkleRow(table, Depth, Len(old) + 1 + n) = Row(n, LeafHash(table, n))
    <3>1. n \in Nat /\ Len(old) + 1 + n - 1 = Len(old) + n
      BY <1>2, <1>4
    <3>2. (Len(old) + n) % size = n % size /\ n % size = n
      BY <1>2, <1>4, <2>1, <3>1, ModAdd, SmallMod
    <3>3. (Len(old) + 1 + n - 1) % 2 ^ Depth = n
      BY <3>1, <3>2 DEF size
    <3>4. MerkleTree(table)[Depth][n] = LeafHash(table, n)
      BY <1>2, <1>6, LeafHashes
    <3> QED
      BY <3>3, <3>4 DEF MerkleRow
  <2> HIDE DEF all
  <2>6. ASSUME NEW k \in 1 .. Len(all)
        PROVE  all[k] = MerkleRow(table, Depth, k)
    <3>1. CASE k <= Len(old)
      <4>1. k \in 1 .. Len(old) /\ k \in 1 .. Len(new)
        BY <1>4, <3>1
      <4> QED
        BY <1>4, <2>1, <2>2, <4>1
    <3>2. CASE k > Len(old)
      <4>1. PICK n \in 0 .. size - 1 : k = Len(old) + 1 + n
        <5>1. k - Len(old) - 1 \in 0 .. size - 1 /\ k = Len(old) + 1 + (k - Len(old) - 1)
          BY <1>2, <1>4, <2>3, <3>2
        <5> QED
          BY <5>1
      <4> QED
        BY <2>4, <2>5, <4>1
    <3> QED
      BY <1>4, <2>3, <3>1, <3>2
  <2>7. Len(all) % size = 0
    <3>1. (Len(old) + size) % size = size % size
      BY <1>2, <1>4, <2>1, ModAdd
    <3>2. size % size = 0
      <4>1. Divides(size, 1, 0, size) /\ 1 \in Nat /\ 0 \in 0 .. size - 1
        BY <1>2 DEF Divides
      <4> QED
        BY <1>2, <4>1, ModUnique
    <3> QED
      BY <2>3, <3>1, <3>2
  <2> QED
    BY <2>6, <2>7 DEF Passes, size, all
<1> QED
  BY <1>1, <1>2, <1>3, <1>7, OtherLevels

LEMMA BulkInsertMerkle ==
    ASSUME TreeInv, MerkleInv, BulkInsert
    PROVE  MerkleInv'
<1> DEFINE old == rows[table][level]
<1>1. PICK n \in 0 .. Len(batch) :
          /\ rows' = [rows EXCEPT ![table][level] = old \o SubSeq(batch, 1, n)]
          /\ batch' = SubSeq(batch, n + 1, Len(batch))
  <2> DEFINE n == IF Len(batch) < ChunkSize THEN Len(batch) ELSE ChunkSize
  <2>1. n \in 0 .. Len(batch)
    BY GenesisAssumption, SeqFacts DEF TreeInv, BatchInv
  <2>2. /\ rows' = [rows EXCEPT ![table][level] = old \o SubSeq(batch, 1, n)]
        /\ batch' = SubSeq(batch, n + 1, Len(batch))
    BY DEF BulkInsert
  <2> HIDE DEF n
  <2> QED
    BY <2>1, <2>2
<1>2. pc = "insert" /\ UNCHANGED <<table, level, pc, torn>>
  BY DEF BulkInsert, history
<1>3. /\ level \in 0 .. Depth /\ table \in Tables /\ TablesInv /\ IsSeq(old) /\ IsSeq(batch)
  BY <1>2 DEF TreeInv, BatchInv, TablesInv
<1> DEFINE new == old \o SubSeq(batch, 1, n)
<1>4. Writes(table, level, new)
  BY <1>1 DEF Writes
<1>5. new \o batch' = old \o batch
  <2> HIDE DEF old
  <2>1. ChunkMoves(old, batch, n)
    BY <1>3, MoveChunk
  <2> QED
    BY ONLY <1>1, <2>1 DEF ChunkMoves
<1>6. ~torn => Passes(table, level, old \o batch)
  BY <1>2 DEF MerkleInv
<1>7. ~torn => Passes(table, level, new \o batch')
  <2> HIDE DEF old, new
  <2> QED
    BY <1>5, <1>6
<1> HIDE DEF old, new
<1> QED
  BY <1>2, <1>3, <1>4, <1>7, OtherLevels

\* The hash of an inner node is that of its children.
LEMMA InnerHashes ==
    ASSUME NEW t \in Tables, NEW l \in 1 .. Depth, NEW n \in Nodes(l - 1)
    PROVE  MerkleTree(t)[l - 1][n] =
              GetParent(MerkleTree(t)[l][2 * n], MerkleTree(t)[l][2 * n + 1])
<1>1. l - 1 \in 0 .. Depth /\ l - 1 # Depth /\ l - 1 + 1 = l
  BY GenesisAssumption
<1>2. MerkleTree(t)[l - 1] = MerkleLevel(t, MerkleTree(t), l - 1)
  BY <1>1, MerkleTreeDef
<1>3. MerkleTree(t)[l - 1][n] =
         GetParent(MerkleTree(t)[l - 1 + 1][2 * n], MerkleTree(t)[l - 1 + 1][2 * n + 1])
  BY <1>1, <1>2 DEF MerkleLevel
<1> QED
  BY <1>1, <1>3

\* The parents of complete passes over a level are complete passes over the next.
LEMMA ParentPasses ==
    ASSUME NEW t \in Tables, NEW l \in 1 .. Depth, NEW accs, IsSeq(accs), Passes(t, l, accs),
           Len(accs) % 2 = 0, NEW next, next = NextLevelAccounts(accs), IsSeq(next)
    PROVE  Passes(t, l - 1, next)
<1> DEFINE P == 2 ^ (l - 1)
<1>1. P \in Nat \ {0} /\ 2 ^ l = 2 * P
  <2>1. l \in 0 .. Depth /\ l > 0 /\ l - 1 \in 0 .. Depth
    BY GenesisAssumption
  <2> QED
    BY <2>1, LevelSizes
<1>2. Len(accs) \in Nat
  BY SeqFacts
<1>3. PICK m \in Nat : Len(accs) = 2 * m /\ Len(accs) \div 2 = m
  <2>1. \A n \in Nat : n % 2 = 0 => n \div 2 \in Nat /\ n = 2 * (n \div 2)
    OBVIOUS
  <2>2. Len(accs) \div 2 \in Nat /\ Len(accs) = 2 * (Len(accs) \div 2)
    BY ONLY Len(accs) % 2 = 0, <1>2, <2>1
  <2> QED
    BY <2>2
<1>4. next = [k \in 1 .. m |-> Row(accs[2 * k - 1].node \div 2,
                                   GetParent(accs[2 * k - 1].hash, accs[2 * k].hash))]
  BY <1>3 DEF NextLevelAccounts
<1>5. Len(next) = m
  <2>1. next = [k \in 1 .. m |-> next[k]]
    BY <1>4
  <2> QED
    BY ONLY m \in Nat, <2>1, SeqOfFunction
<1>6. \A k \in 1 .. m : next[k] = Row(accs[2 * k - 1].node \div 2,
                                      GetParent(accs[2 * k - 1].hash, accs[2 * k].hash))
  BY <1>4
<1> HIDE DEF P
<1>7. m % P = 0
  <2>1. (2 * m) % (2 * P) = 2 * (m % P)
    BY <1>1, ModDouble
  <2>2. (2 * m) % (2 * P) = 0
    BY <1>1, <1>3 DEF Passes
  <2>3. m % P \in 0 .. P - 1
    BY <1>1, DivMod
  <2> QED
    BY ONLY <1>1, <2>1, <2>2, <2>3
<1>8. ASSUME NEW k \in 1 .. m
      PROVE  next[k] = MerkleRow(t, l - 1, k)
  <2>1. PICK j \in Nat : k = j + 1
    <3>1. k - 1 \in Nat /\ k = k - 1 + 1
      OBVIOUS
    <3> QED
      BY <3>1
  <2>2. PICK n : n = j % P
    OBVIOUS
  <2>3. n \in 0 .. P - 1
    BY <1>1, <2>1, <2>2, DivMod
  <2>4. (2 * j) % 2 ^ l = 2 * n /\ (2 * j + 1) % 2 ^ l = 2 * n + 1
    <3>1. (2 * j) % (2 * P) = 2 * (j % P) /\ (2 * j + 1) % (2 * P) = 2 * (j % P) + 1
      BY <1>1, ModDouble
    <3> QED
      BY <1>1, <2>2, <3>1
  <2>5. /\ 2 * k - 1 \in 1 .. Len(accs) /\ 2 * k \in 1 .. Len(accs)
        /\ 2 * k - 1 - 1 = 2 * j /\ 2 * k - 1 = 2 * j + 1 /\ k - 1 = j
    BY <1>3, <2>1
  <2>6. /\ accs[2 * k - 1] = MerkleRow(t, l, 2 * k - 1)
        /\ accs[2 * k] = MerkleRow(t, l, 2 * k)
    BY <2>5 DEF Passes
  <2>7. /\ MerkleRow(t, l, 2 * k - 1) = Row(2 * n, MerkleTree(t)[l][2 * n])
        /\ MerkleRow(t, l, 2 * k) = Row(2 * n + 1, MerkleTree(t)[l][2 * n + 1])
    <3>1. (2 * k - 1 - 1) % 2 ^ l = 2 * n /\ (2 * k - 1) % 2 ^ l = 2 * n + 1
      BY <2>4, <2>5
    <3> QED
      BY ONLY <3>1 DEF MerkleRow
  <2>8. \A i, h : Row(i, h).node = i /\ Row(i, h).hash = h
    BY DEF Row
  <2>9. /\ accs[2 * k - 1].node = 2 * n
        /\ accs[2 * k - 1].hash = MerkleTree(t)[l][2 * n]
        /\ accs[2 * k].hash = MerkleTree(t)[l][2 * n + 1]
    BY ONLY <2>6, <2>7, <2>8
  <2>10. (2 * n) \div 2 = n
    BY <1>1, <2>3
  <2>11. next[k] = Row(n, GetParent(MerkleTree(t)[l][2 * n], MerkleTree(t)[l][2 * n + 1]))
    <3>1. next[k] = Row(accs[2 * k - 1].node \div 2,
                        GetParent(accs[2 * k - 1].hash, accs[2 * k].hash))
      BY <1>6
    <3> QED
      BY ONLY <2>9, <2>10, <3>1
  <2>12. MerkleTree(t)[l - 1][n] =
            GetParent(MerkleTree(t)[l][2 * n], MerkleTree(t)[l][2 * n + 1])
    <3>1. n \in Nodes(l - 1)
      BY <2>3 DEF Nodes, P
    <3> QED
      BY <3>1, InnerHashes
  <2>13. (k - 1) % 2 ^ (l - 1) = n
    BY <2>2, <2>5 DEF P
  <2>14. MerkleRow(t, l - 1, k) = Row(n, MerkleTree(t)[l - 1][n])
    BY ONLY <2>13 DEF MerkleRow
  <2> QED
    BY ONLY <2>11, <2>12, <2>14
<1> QED
  BY <1>5, <1>7, <1>8 DEF Passes, P

LEMMA MerkeliseMerkle ==
    ASSUME TreeInv, MerkleInv, Merkelise
    PROVE  MerkleInv'
<1> DEFINE accs == rows[table][level]
           s == rows[table][level - 1]
<1>1. /\ pc = "insert" /\ batch = <<>> /\ level > 0 /\ Len(accs) % 2 = 0
      /\ batch' = NextLevelAccounts(accs) /\ level' = level - 1
      /\ UNCHANGED <<rows, pc, table, torn>>
  BY DEF Merkelise, GetAccountByDepth, database, history
<1>2. /\ level \in 1 .. Depth /\ level - 1 \in 0 .. Depth /\ level \in 0 .. Depth
      /\ table \in Tables
  BY <1>1, GenesisAssumption DEF TreeInv, BatchInv
<1>3. IsSeq(accs) /\ IsSeq(s)
  BY <1>1, <1>2 DEF TreeInv, TablesInv
<1>4. IsSeq(batch')
  BY MerkeliseTrees DEF TreeInv, BatchInv
<1> SUFFICES ASSUME ~torn
             PROVE  /\ \A t \in Tables, l \in 0 .. Depth : Passes(t, l, rows[t][l])
                    /\ Passes(table, level - 1, s \o batch')
  BY <1>1 DEF MerkleInv, Passes
<1>5. \A t \in Tables, l \in 0 .. Depth : Passes(t, l, rows[t][l])
  BY <1>1, PassEnds
<1>6. Passes(table, level, accs) /\ Passes(table, level - 1, s)
  BY <1>2, <1>5
<1> HIDE DEF accs, s
<1>7. Passes(table, level - 1, batch')
  BY <1>1, <1>2, <1>3, <1>4, <1>6, ParentPasses
<1>8. Passes(table, level - 1, s \o batch')
  BY <1>2, <1>3, <1>4, <1>6, <1>7, JoinPasses
<1> QED
  BY <1>5, <1>8

LEMMA NextMerkleInv == TreeInv /\ UpInv /\ MerkleInv /\ [Next]_vars => MerkleInv'
<1> SUFFICES ASSUME TreeInv, UpInv, MerkleInv, [Next]_vars PROVE MerkleInv'
  OBVIOUS
<1>1. CASE RunInit \/ UNCHANGED vars
  <2>1. UNCHANGED <<rows, torn, table, level, batch, pc>>
    BY <1>1 DEF RunInit, vars, database, process, history
  <2> QED
    BY <2>1, KeepMerkle
<1>2. CASE StartCmd
  <2>1. UNCHANGED <<rows, torn>> /\ pc = "start" /\ pc' = "config"
    BY <1>2 DEF StartCmd, database, UpInv
  <2> QED
    BY <2>1, KeepMerkle
<1>3. ASSUME NEW k \in 1 .. Len(Loads), LoadConfig(k)
      PROVE  MerkleInv'
  <2>1. UNCHANGED <<rows, torn>> /\ pc \in LoadPcs /\ pc' \in LoadPcs \cup {"status"}
    BY <1>3, LoadSteps DEF LoadConfig, Reads, database, history, LoadPcs
  <2> QED
    BY <2>1, KeepMerkle DEF LoadPcs
<1>4. ASSUME NEW k \in 1 .. Len(Loads), LoadConfigFails(k)
      PROVE  MerkleInv'
  <2>1. UNCHANGED <<rows, torn>> /\ pc = Loads[k] /\ pc' = "start"
    BY <1>4 DEF LoadConfigFails, GoDown, database, history
  <2>2. pc # "insert"
    BY <2>1, LoadsByName DEF LoadPcs
  <2> QED
    BY <2>1, <2>2, KeepMerkle
<1>5. CASE GetSyncStatus \/ ReadGenesisFile
  <2>1. UNCHANGED <<rows, torn>> /\ pc # "insert" /\ pc' # "insert"
    BY <1>5 DEF GetSyncStatus, ReadGenesisFile, GoDown, database, history
  <2> QED
    BY <2>1, KeepMerkle
<1>6. CASE UpdateParam \/ UpdateParamFails \/ InitSyncStatus
  <2>1. UNCHANGED <<rows, torn>> /\ pc = "params" /\ pc' # "insert"
    BY <1>6 DEF UpdateParam, UpdateParamFails, InitSyncStatus, database, history
  <2> QED
    BY <2>1, KeepMerkle
<1>7. CASE InsertCoordinator
  BY <1>7, InsertCoordinatorMerkle
<1>8. CASE BulkInsert
  BY <1>8, BulkInsertMerkle
<1>9. CASE Merkelise
  BY <1>9, MerkeliseMerkle
<1>10. CASE IndexOutOfRange \/ TreeDone
  <2>1. UNCHANGED <<rows, torn>> /\ pc = "insert" /\ batch = <<>> /\ pc' # "insert"
    BY <1>10 DEF IndexOutOfRange, TreeDone, GoDown, database, history
  <2> QED
    BY <2>1, EndMerkle
<1>11. CASE Crash
  BY <1>11, CrashMerkle
<1> QED
  BY <1>1, <1>2, <1>3, <1>4, <1>5, <1>6, <1>7, <1>8, <1>9, <1>10, <1>11 DEF Next

\* In a node that runs every row of both trees carries the Merkle hash of its node,
\* for every depth, every number of accounts, every size of the chunks of
\* BulkInsert and any number of crashes, unless one of them tore a level.
THEOREM RunningTreesCarryMerkleHashes == Spec => []RunningTreesAreMerkle
<1>1. ASSUME NodeInv, MerkleInv, pc = "running", ~torn, NEW t \in Tables,
             NEW l \in 0 .. Depth, NEW k \in DOMAIN rows[t][l]
      PROVE  rows[t][l][k].hash = MerkleTree(t)[l][rows[t][l][k].node]
  <2>1. k \in 1 .. Len(rows[t][l])
    BY <1>1, SeqFacts DEF NodeInv, TreeInv, TablesInv
  <2>2. Passes(t, l, rows[t][l])
    BY <1>1 DEF MerkleInv
  <2>3. PICK n : rows[t][l][k] = Row(n, MerkleTree(t)[l][n])
    BY <2>1, <2>2 DEF Passes, MerkleRow
  <2>4. \A i, h : Row(i, h).node = i /\ Row(i, h).hash = h
    BY DEF Row
  <2> QED
    BY ONLY <2>3, <2>4
<1>2. NodeInv /\ MerkleInv => RunningTreesAreMerkle
  BY <1>1 DEF RunningTreesAreMerkle
<1>3. NodeInv => TreeInv /\ UpInv
  BY DEF NodeInv
<1> QED
  BY <1>2, <1>3, InitNodeInv, NextNodeInv, InitMerkleInv, NextMerkleInv, PTL DEF Spec
=============================================================================
