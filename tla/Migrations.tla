------------------------------ MODULE Migrations ------------------------------
(***************************************************************************)
(* The schema of the database: the migrations registered in package        *)
(* migrations, the runner migrations/gormmigrate.go and the commands       *)
(* `migration up` and `migration down` of cmd/migration.go.                *)
(*                                                                         *)
(* DefaultOptions has UseTransaction = false, so that begin, commit and    *)
(* rollback do nothing: every statement stands for itself.  A command may  *)
(* be killed between two statements, commands may run at the same time,    *)
(* and Up and Down ignore the errors of CREATE TABLE and DROP TABLE.       *)
(***************************************************************************)
EXTENDS Integers, Sequences, Functions, TLC

CONSTANTS
    Registered,     \* ids, in the order in which the init functions run
    TablesOf,       \* TablesOf[m]: the tables of migration m, in the order of Up
    Irreversible,   \* the migrations without a Down function
    Procs,          \* processes that may run commands
    MaxCommands,    \* bound: commands given
    MaxFaults       \* bound: failing statements

\* addMigration sorts after every registration.
GetMigrations == SortSeq(Registered, <)

N == Len(GetMigrations)
Ids == {GetMigrations[k] : k \in 1 .. N}

CheckDuplicatedID == \A k, l \in 1 .. N : GetMigrations[k] = GetMigrations[l] => k = l

ASSUME MigrationsAssumption ==
    /\ Registered \in Seq(Nat)
    /\ TablesOf \in [Ids -> Seq(STRING)]
    /\ \A m, n \in Ids : m # n => Range(TablesOf[m]) \cap Range(TablesOf[n]) = {}
    /\ Irreversible \subseteq Ids
    /\ MaxCommands \in Nat /\ MaxFaults \in Nat

\* What sort.Slice of the standard library promises.
ASSUME SortAssumption ==
    /\ GetMigrations \in Seq(Nat)
    /\ \A x, y \in 1 .. N : x < y => GetMigrations[x] <= GetMigrations[y]

VARIABLES
    \* The database.
    table,      \* the table migrations exists
    recorded,   \* its rows
    tables,     \* the other tables
    \* Each process.
    op,         \* the command, "none" when it has ended
    goal,       \* its migrationID
    pc,
    k,          \* the position of its loop in the list of migrations
    j,          \* the position of Up or Down in the list of tables
    \* History.
    broken,     \* migrations with a rollback that began and was not completed
    failed,     \* tables whose creation failed without notice
    cut,        \* a `down` stopped early, or a rollback passed over a migration that ran
    overlap,    \* the kinds of commands that ran while another one did
    commands, faults

database == <<table, recorded, tables>>
process == <<op, goal, pc, k, j>>
history == <<broken, failed, cut, overlap, commands, faults>>
vars == <<database, process, history>>

Init ==
    /\ table = FALSE /\ recorded = {} /\ tables = {}
    /\ op = [p \in Procs |-> "none"]
    /\ goal = [p \in Procs |-> 0]
    /\ pc = [p \in Procs |-> "end"]
    /\ k = [p \in Procs |-> 1]
    /\ j = [p \in Procs |-> 1]
    /\ broken = {} /\ failed = {} /\ cut = FALSE /\ overlap = {}
    /\ commands = 0 /\ faults = 0

-----------------------------------------------------------------------------
(* Commands                                                                 *)

Rollbacks == {"rollbackTo", "rollbackLast", "down"}
Commands == {"migrate", "initSchema"} \cup Rollbacks

Current(p) == GetMigrations[k[p]]

\* A process begins a command at position first of the list.
Begin(p, command, id, first) ==
    /\ op[p] = "none"
    /\ commands < MaxCommands /\ commands' = commands + 1
    /\ op' = [op EXCEPT ![p] = command]
    /\ goal' = [goal EXCEPT ![p] = id]
    /\ k' = [k EXCEPT ![p] = first]
    /\ pc' = [pc EXCEPT ![p] = IF command \in Rollbacks THEN "loop" ELSE "init"]
    /\ overlap' = overlap \cup UNION {{op[q], command} : q \in {r \in Procs : op[r] # "none"}}
    /\ UNCHANGED <<database, j, broken, failed, cut, faults>>

\* MigrateTo; without any migration, with two of the same id or with an unknown
\* id the call returns an error and changes nothing.
MigrateTo(p, id) ==
    /\ N > 0 /\ CheckDuplicatedID /\ id \in Ids
    /\ Begin(p, "migrate", id, 1)

\* To the last one.
Migrate(p) == MigrateTo(p, GetMigrations[N])

\* `migration up`
UpMigrateCmd(p) == Migrate(p)

\* Migrate with a function set by InitSchema.
InitSchema(p) ==
    /\ N > 0 /\ CheckDuplicatedID
    /\ Begin(p, "initSchema", GetMigrations[N], 1)

\* Mutant: the loop begins with the first migration.
RollbackFromFirst(p, id) == N > 0 /\ id \in Ids /\ Begin(p, "rollbackTo", id, 1)

RollbackTo(p, id) == N > 0 /\ id \in Ids /\ Begin(p, "rollbackTo", id, N)

RollbackLast(p) == N > 0 /\ Begin(p, "rollbackLast", 0, N)

\* `migration down`: GetBool returns an error only for a flag that was never
\* declared, so that the first branch is always taken, whatever --all and --to
\* say: every migration is rolled back, from the first to the last.
DownMigrateCmd(p) == N > 0 /\ Begin(p, "down", 0, 1)

\* The command ends.
End(p) ==
    /\ op' = [op EXCEPT ![p] = "none"]
    /\ pc' = [pc EXCEPT ![p] = "end"]
    /\ UNCHANGED <<goal, k, j>>

\* A `migration down` that ends now has not seen all the migrations.
CutDown(p) == cut' = (cut \/ op[p] = "down")

-----------------------------------------------------------------------------
(* The loop over the migrations                                             *)

Fault == faults < MaxFaults /\ faults' = faults + 1

\* Of two processes that both find no table, the CREATE of the second one fails.
CreateMigrationTableIfNotExists(p) ==
    /\ pc[p] = "init"
    /\ \/ /\ table' = TRUE
          /\ pc' = [pc EXCEPT ![p] = IF op[p] = "migrate" THEN "loop" ELSE "first"]
          /\ UNCHANGED <<op, goal, k, j, faults>>
       \/ /\ (~table /\ Fault) \/ (table /\ overlap # {} /\ UNCHANGED faults)
          /\ End(p) /\ UNCHANGED table
    /\ UNCHANGED <<recorded, tables, broken, failed, cut, overlap, commands>>

\* isFirstRun: again a COUNT that fails leaves zero.
IsFirstRun(answer) ==
    \/ answer = (recorded = {}) /\ UNCHANGED faults
    \/ answer /\ recorded # {} /\ Fault

\* The function of InitSchema for the first run, the loop for a later one.
InitSchemaOrMigrate(p) ==
    /\ pc[p] = "first"
    /\ \/ /\ IsFirstRun(TRUE)
          /\ pc' = [pc EXCEPT ![p] = "schema"]
          /\ UNCHANGED op
       \/ /\ IsFirstRun(FALSE)
          /\ pc' = [pc EXCEPT ![p] = "loop"]
          /\ op' = [op EXCEPT ![p] = "migrate"]
    /\ UNCHANGED <<database, goal, k, j, broken, failed, cut, overlap, commands>>

\* migrationDidRun: the COUNT.  A COUNT that fails leaves zero, like that of a
\* migration that did not run; without the table it always fails.
MigrationDidRun(m, answer) ==
    \/ answer = (table /\ m \in recorded) /\ UNCHANGED faults
    \/ ~answer /\ table /\ m \in recorded /\ Fault

\* Mutant: the loop of `down` has no end.
AdvancePastTheEnd(p) ==
    /\ k' = [k EXCEPT ![p] = IF op[p] = "rollbackTo" THEN @ - 1 ELSE @ + 1]
    /\ pc' = [pc EXCEPT ![p] = "loop"]
    /\ UNCHANGED <<op, goal, j>>

\* The loop has treated the migration at k[p] and goes on, or is at its end.
Advance(p) ==
    LET last == CASE op[p] = "migrate" -> Current(p) = goal[p] \/ k[p] = N
                  [] op[p] = "rollbackTo" -> k[p] = 1
                  [] op[p] = "rollbackLast" -> TRUE
                  [] op[p] = "down" -> k[p] = N
        step == IF op[p] = "rollbackTo" THEN -1 ELSE 1
    IN  IF last THEN End(p)
        ELSE /\ k' = [k EXCEPT ![p] = @ + step]
             /\ pc' = [pc EXCEPT ![p] = "loop"]
             /\ UNCHANGED <<op, goal, j>>

\* Mutant: every migration is run again.
RunMigrationAnyway(p) ==
    /\ pc[p] = "loop" /\ op[p] = "migrate"
    /\ pc' = [pc EXCEPT ![p] = "up"]
    /\ j' = [j EXCEPT ![p] = 1]
    /\ UNCHANGED <<database, op, goal, k, history>>

\* runMigration: a migration that is recorded is skipped.  (Ids are numbers, so
\* that none is empty: ErrMissingID does not occur.)
RunMigration(p) ==
    /\ pc[p] = "loop" /\ op[p] = "migrate"
    /\ \/ MigrationDidRun(Current(p), TRUE) /\ Advance(p)
       \/ /\ MigrationDidRun(Current(p), FALSE)
          /\ pc' = [pc EXCEPT ![p] = "up"]
          /\ j' = [j EXCEPT ![p] = 1]
          /\ UNCHANGED <<op, goal, k>>
    /\ UNCHANGED <<database, broken, failed, cut, overlap, commands>>

\* rollbackMigration begins, or ends with ErrRollbackImpossible.
RollbackMigration(p) ==
    IF Current(p) \in Irreversible
    THEN End(p) /\ CutDown(p)
    ELSE /\ pc' = [pc EXCEPT ![p] = "drop"]
         /\ j' = [j EXCEPT ![p] = 1]
         /\ UNCHANGED <<op, goal, k, cut>>

\* A rollback looks at a migration that did not run, or seems not to have run.
PassOver(p) ==
    /\ MigrationDidRun(Current(p), FALSE)
    /\ cut' = (cut \/ Current(p) \in recorded)

\* Mutant: the migration asked for is rolled back too.
RollbackPastTarget(p) ==
    /\ pc[p] = "loop" /\ op[p] = "rollbackTo"
    /\ \/ MigrationDidRun(Current(p), TRUE) /\ RollbackMigration(p)
       \/ PassOver(p) /\ Advance(p)
    /\ UNCHANGED <<database, broken, failed, overlap, commands>>

\* The loop of RollbackTo: the migration with the id is kept.
RollbackToLoop(p) ==
    /\ pc[p] = "loop" /\ op[p] = "rollbackTo"
    /\ \/ Current(p) = goal[p] /\ End(p) /\ UNCHANGED <<cut, faults>>
       \/ /\ Current(p) # goal[p]
          /\ \/ MigrationDidRun(Current(p), TRUE) /\ RollbackMigration(p)
             \/ PassOver(p) /\ Advance(p)
    /\ UNCHANGED <<database, broken, failed, overlap, commands>>

\* getLastRunnedMigration: the last one that is recorded, if any.
GetLastRunnedMigration(p) ==
    /\ pc[p] = "loop" /\ op[p] = "rollbackLast"
    /\ \/ MigrationDidRun(Current(p), TRUE) /\ RollbackMigration(p)
       \/ PassOver(p) /\ IF k[p] = 1 THEN End(p)
                         ELSE k' = [k EXCEPT ![p] = @ - 1] /\ UNCHANGED <<op, goal, pc, j>>
    /\ UNCHANGED <<database, broken, failed, overlap, commands>>

\* The loop of the command asks nobody whether the migration ever ran.
DownLoop(p) ==
    /\ pc[p] = "loop" /\ op[p] = "down"
    /\ RollbackMigration(p)
    /\ UNCHANGED <<database, broken, failed, overlap, commands, faults>>

-----------------------------------------------------------------------------
(* Up and Down                                                              *)

Table(p) == TablesOf[Current(p)][j[p]]

\* HasTable and CreateTable of the next table.  A process that creates or drops
\* the table in between leaves what some order of the two whole steps leaves.
CreateTable(p) ==
    /\ pc[p] = "up" /\ j[p] <= Len(TablesOf[Current(p)])
    /\ \/ /\ tables' = tables \cup {Table(p)}
          /\ failed' = failed \ {Table(p)}
          /\ UNCHANGED faults
       \/ /\ Fault /\ Table(p) \notin tables
          /\ failed' = failed \cup {Table(p)}
          /\ UNCHANGED tables
    /\ j' = [j EXCEPT ![p] = @ + 1]
    /\ UNCHANGED <<table, recorded, op, goal, pc, k, broken, cut, overlap, commands>>

\* Mutant: the migration is recorded before its tables are created.
InsertBeforeUp(p) ==
    /\ pc[p] = "up" /\ Current(p) \notin recorded
    /\ recorded' = recorded \cup {Current(p)}
    /\ broken' = broken \ {Current(p)}
    /\ Advance(p)
    /\ UNCHANGED <<table, tables, failed, cut, overlap, commands, faults>>

\* The INSERT fails on a migration that is recorded already: by another process
\* meanwhile, or before a COUNT that failed.
InsertMigration(p) ==
    /\ pc[p] = "up" /\ j[p] > Len(TablesOf[Current(p)])
    /\ \/ /\ Current(p) \notin recorded
          /\ recorded' = recorded \cup {Current(p)}
          /\ broken' = broken \ {Current(p)}
          /\ Advance(p)
          /\ UNCHANGED faults
       \/ /\ \/ Current(p) \in recorded /\ UNCHANGED faults
             \/ Current(p) \notin recorded /\ Fault
          /\ End(p)
          /\ UNCHANGED <<recorded, broken>>
    /\ UNCHANGED <<table, tables, failed, cut, overlap, commands>>

AllTables == UNION {Range(TablesOf[m]) : m \in Ids}

\* The function creates all the tables, or returns an error after some of them.
RunInitSchema(p) ==
    /\ pc[p] = "schema"
    /\ \/ /\ tables' = AllTables
          /\ pc' = [pc EXCEPT ![p] = "record"]
          /\ UNCHANGED <<op, goal, k, j, faults>>
       \/ /\ \E S \in SUBSET AllTables : tables' = tables \cup S
          /\ End(p) /\ Fault
    /\ failed' = failed \ tables'
    /\ UNCHANGED <<table, recorded, broken, cut, overlap, commands>>

\* ... and every migration is recorded without its Up being run.
RecordInitSchema(p) ==
    /\ pc[p] = "record"
    /\ \/ /\ Current(p) \notin recorded
          /\ recorded' = recorded \cup {Current(p)}
          /\ broken' = broken \ {Current(p)}
          /\ IF k[p] = N THEN End(p)
             ELSE k' = [k EXCEPT ![p] = @ + 1] /\ UNCHANGED <<op, goal, pc, j>>
          /\ UNCHANGED faults
       \/ /\ \/ Current(p) \in recorded /\ UNCHANGED faults
             \/ Current(p) \notin recorded /\ Fault
          /\ End(p)
          /\ UNCHANGED <<recorded, broken>>
    /\ UNCHANGED <<table, tables, failed, cut, overlap, commands>>

\* DropTableIfExists of the next table.
DropTable(p) ==
    /\ pc[p] = "drop" /\ j[p] <= Len(TablesOf[Current(p)])
    /\ \/ tables' = tables \ {Table(p)} /\ UNCHANGED faults
       \/ Fault /\ UNCHANGED tables
    /\ broken' = broken \cup {Current(p)}
    /\ j' = [j EXCEPT ![p] = @ + 1]
    /\ UNCHANGED <<table, recorded, op, goal, pc, k, failed, cut, overlap, commands>>

\* DELETE; without the table migrations the statement fails.
DeleteMigration(p) ==
    /\ pc[p] = "drop" /\ j[p] > Len(TablesOf[Current(p)])
    /\ \/ /\ table
          /\ recorded' = recorded \ {Current(p)}
          /\ broken' = broken \ {Current(p)}
          /\ Advance(p)
          /\ UNCHANGED <<cut, faults>>
       \/ /\ (~table /\ UNCHANGED faults) \/ (table /\ Fault)
          /\ End(p) /\ CutDown(p)
          /\ UNCHANGED <<recorded, broken>>
    /\ UNCHANGED <<table, tables, failed, overlap, commands>>

\* The process is killed, or loses its connection, between two statements.
Crash(p) ==
    /\ op[p] # "none" /\ Fault
    /\ End(p) /\ CutDown(p)
    /\ UNCHANGED <<database, broken, failed, overlap, commands>>

Step(p) ==
    \/ CreateMigrationTableIfNotExists(p)
    \/ InitSchemaOrMigrate(p)
    \/ RunInitSchema(p)
    \/ RecordInitSchema(p)
    \/ RunMigration(p)
    \/ RollbackToLoop(p)
    \/ GetLastRunnedMigration(p)
    \/ DownLoop(p)
    \/ CreateTable(p)
    \/ InsertMigration(p)
    \/ DropTable(p)
    \/ DeleteMigration(p)

Next ==
    \E p \in Procs :
        \/ UpMigrateCmd(p)
        \/ InitSchema(p)
        \/ \E id \in Ids : MigrateTo(p, id) \/ RollbackTo(p, id)
        \/ RollbackLast(p)
        \/ DownMigrateCmd(p)
        \/ Step(p)
        \/ Crash(p)

Spec == Init /\ [][Next]_vars

FairSpec == Spec /\ \A p \in Procs : WF_vars(Step(p))

-----------------------------------------------------------------------------
(* Properties                                                               *)

TypeOK ==
    /\ table \in BOOLEAN /\ recorded \subseteq Ids
    /\ tables \subseteq AllTables /\ failed \subseteq AllTables
    /\ op \in [Procs -> Commands \cup {"none"}]
    /\ goal \in [Procs -> Ids \cup {0}]
    /\ pc \in [Procs -> {"init", "first", "schema", "record", "loop", "up", "drop", "end"}]
    /\ k \in [Procs -> Int] /\ \A p \in Procs : op[p] # "none" => k[p] \in 1 .. N
    /\ j \in [Procs -> Nat \ {0}]
    /\ broken \subseteq Ids
    /\ cut \in BOOLEAN /\ overlap \subseteq Commands
    /\ commands \in 0 .. MaxCommands /\ faults \in 0 .. MaxFaults

\* `up` never looks again at a migration that is recorded (runMigration), so the
\* record has to be true: whatever was killed and however many `up` ran at once,
\* a recorded migration has its tables, save those with a creation that failed
\* unnoticed and the migrations with a rollback that was cut short after its
\* first DROP TABLE.
RecordedHasTables ==
    overlap \cap Rollbacks = {} =>
        \A m \in recorded \ broken : Range(TablesOf[m]) \subseteq tables \cup failed

\* Migrations build on the earlier ones (addMigration keeps them in order): the
\* recorded ones are a prefix of the list, except during or after an early end of
\* `migration down`, which begins with the first one.
RecordedIsPrefix ==
    (/\ overlap \cap Rollbacks = {} /\ ~cut
     /\ \A p \in Procs : op[p] # "down") =>
        \A m \in recorded, n \in Ids : n < m => n \in recorded

\* RollbackTo keeps the migration it is given and all the earlier ones, and
\* RollbackLast removes the last one only.
RollbackKeepsTheEarlier ==
    [][\A p \in Procs, m \in recorded \ recorded' :
        overlap = {} /\ op[p] # "none" =>
            /\ op[p] = "rollbackTo" => m > goal[p]
            /\ op[p] = "rollbackLast" => cut \/ \A n \in recorded : n <= m]_vars

\* A lone `up`, with InitSchema or without, during which nothing fails ends with
\* its migration recorded, whatever an earlier command left behind when it failed
\* or was killed.
UpCompletes ==
    \A p \in Procs, f \in 0 .. MaxFaults :
        pc[p] = "init" /\ faults = f ~>
            op[p] = "none" /\ (goal[p] \in recorded \/ overlap # {} \/ faults > f)
==============================================================================
