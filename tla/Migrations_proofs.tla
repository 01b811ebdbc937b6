-------------------------- MODULE Migrations_proofs --------------------------
(***************************************************************************)
(* What the table migrations says of the schema, for every list of         *)
(* migrations and any number of processes, commands, failing statements    *)
(* and kills.                                                              *)
(***************************************************************************)
EXTENDS Migrations, TLAPS

\* No rollback has run while another command did.
RollbacksAlone == overlap \cap Rollbacks = {}

\* The command of a process and what it does next.
ControlInv ==
    \A p \in Procs :
        /\ op[p] = "none" <=> pc[p] = "end"
        /\ pc[p] = "init" => op[p] \in {"migrate", "initSchema"}
        /\ pc[p] \in {"first", "schema", "record"} => op[p] = "initSchema"
        /\ pc[p] = "loop" => op[p] # "initSchema"
        /\ pc[p] = "up" => op[p] = "migrate"
        /\ pc[p] = "drop" => op[p] \in Rollbacks

\* Two commands that run at the same time are in overlap, the rollbacks among
\* them by name.
OverlapInv ==
    \A p, q \in Procs :
        p # q /\ op[p] # "none" /\ op[q] # "none" =>
            overlap # {} /\ (op[p] \in Rollbacks => op[p] \in overlap)

RunInv == TypeOK /\ ControlInv /\ OverlapInv

\* What Up has created so far stays, as long as nobody rolls back meanwhile.
UpInv ==
    RollbacksAlone =>
        \A p \in Procs :
            /\ pc[p] = "up" =>
                  \A x \in 1 .. Len(TablesOf[Current(p)]) :
                      x < j[p] => TablesOf[Current(p)][x] \in tables \cup failed
            /\ pc[p] = "record" => AllTables \subseteq tables \cup failed

TablesInv == UpInv /\ RecordedHasTables

\* The loop of `up` leaves recorded migrations behind it, that of `down` none,
\* and the loops that go backwards none either.
LoopInv ==
    \A p \in Procs :
        /\ RollbacksAlone /\ op[p] \in {"migrate", "initSchema"} =>
              \A x \in 1 .. N : x < k[p] => GetMigrations[x] \in recorded
        /\ RollbacksAlone /\ ~cut /\ op[p] = "down" =>
              \A x \in 1 .. N : x < k[p] => GetMigrations[x] \notin recorded
        /\ RollbacksAlone /\ ~cut /\ op[p] \in {"rollbackTo", "rollbackLast"} =>
              \A x \in 1 .. N : x > k[p] => GetMigrations[x] \notin recorded

\* RollbackTo has not reached the migration it is to keep.
GoalInv ==
    \A p \in Procs : op[p] = "rollbackTo" =>
        /\ \E x \in 1 .. k[p] : GetMigrations[x] = goal[p]
        /\ pc[p] = "drop" => Current(p) # goal[p]

OrderInv == LoopInv /\ RecordedIsPrefix

-----------------------------------------------------------------------------
(* The list of migrations                                                   *)

\* Positions and ids of the list that addMigration keeps sorted.
LEMMA ListFacts ==
    /\ N \in Nat
    /\ \A x \in 1 .. N : GetMigrations[x] \in Ids
    /\ \A n \in Ids : n \in Nat /\ \E x \in 1 .. N : GetMigrations[x] = n
    /\ \A x, y \in 1 .. N : GetMigrations[x] < GetMigrations[y] => x < y
    /\ \A x, y \in 1 .. N : x < y => GetMigrations[x] <= GetMigrations[y]
<1> DEFINE M == GetMigrations
<1> HIDE DEF M
<1>1. M \in Seq(Nat) /\ \A x, y \in 1 .. Len(M) : x < y => M[x] <= M[y]
  BY SortAssumption DEF N, M
<1>2. Len(M) \in Nat /\ \A x \in 1 .. Len(M) : M[x] \in Nat
  BY <1>1
<1>3. \A x, y \in 1 .. Len(M) : M[x] < M[y] => x < y
  <2>1. SUFFICES ASSUME NEW x \in 1 .. Len(M), NEW y \in 1 .. Len(M), M[x] < M[y], ~(x < y)
                 PROVE  FALSE
    OBVIOUS
  <2>2. CASE x = y
    BY <2>1, <2>2, <1>2
  <2>3. CASE y < x
    <3>1. M[y] <= M[x]
      BY <2>3, <1>1
    <3> QED
      BY <3>1, <2>1, <1>2
  <2> QED
    BY <2>1, <2>2, <2>3, <1>2
<1> QED
  BY <1>1, <1>2, <1>3 DEF N, Ids, M

LEMMA NIsNat == N \in Nat
BY ListFacts

\* The position of a running command is one of the list.
LEMMA CurrentIsId ==
    ASSUME TypeOK, NEW p \in Procs, op[p] # "none"
    PROVE  k[p] \in 1 .. N /\ Current(p) \in Ids
BY ListFacts DEF TypeOK, Current

\* Up and Down name tables of the schema.
LEMMA TableIsKnown ==
    ASSUME NEW m \in Ids
    PROVE  /\ TablesOf[m] \in Seq(STRING)
           /\ Len(TablesOf[m]) \in Nat
           /\ Range(TablesOf[m]) = {TablesOf[m][x] : x \in 1 .. Len(TablesOf[m])}
           /\ Range(TablesOf[m]) \subseteq AllTables
<1>1. TablesOf[m] \in Seq(STRING)
  BY MigrationsAssumption
<1>2. Len(TablesOf[m]) \in Nat /\ DOMAIN TablesOf[m] = 1 .. Len(TablesOf[m])
  BY <1>1
<1> QED
  BY <1>1, <1>2 DEF Range, AllTables
-----------------------------------------------------------------------------
(* Types, control and overlap                                               *)

\* The part of the invariant about the processes, and the types of the rest.
ProcInv ==
    /\ op \in [Procs -> Commands \cup {"none"}]
    /\ goal \in [Procs -> Ids \cup {0}]
    /\ pc \in [Procs -> {"init", "first", "schema", "record", "loop", "up", "drop", "end"}]
    /\ k \in [Procs -> Int] /\ \A p \in Procs : op[p] # "none" => k[p] \in 1 .. N
    /\ j \in [Procs -> Nat \ {0}]
    /\ ControlInv
    /\ OverlapInv

DataTypes ==
    /\ table \in BOOLEAN /\ recorded \subseteq Ids
    /\ tables \subseteq AllTables /\ failed \subseteq AllTables
    /\ broken \subseteq Ids
    /\ cut \in BOOLEAN /\ overlap \subseteq Commands
    /\ commands \in 0 .. MaxCommands /\ faults \in 0 .. MaxFaults

LEMMA BoundsAreNat == MaxCommands \in Nat /\ MaxFaults \in Nat
BY MigrationsAssumption

LEMMA InitRunInv == Init => RunInv
<1> SUFFICES ASSUME Init
             PROVE  RunInv
  OBVIOUS
<1>1. ProcInv
  BY DEF Init, ProcInv, ControlInv, OverlapInv, Commands
<1>2. DataTypes
  <2>1. commands \in 0 .. MaxCommands /\ faults \in 0 .. MaxFaults
    BY BoundsAreNat DEF Init
  <2> QED
    BY <2>1, Zenon DEF Init, DataTypes
<1> QED
  BY <1>1, <1>2 DEF RunInv, TypeOK, ProcInv, DataTypes

\* A command begins.
LEMMA BeginRun ==
    ASSUME RunInv, NEW p \in Procs, NEW c \in Commands, NEW id \in Ids \cup {0},
           NEW first \in 1 .. N, Begin(p, c, id, first)
    PROVE  RunInv'
<1>1. ControlInv'
  BY DEF RunInv, TypeOK, ControlInv, Begin, Rollbacks, Commands
<1>2. OverlapInv'
  BY DEF RunInv, TypeOK, OverlapInv, Begin, Commands
<1>3. ProcInv'
  BY <1>1, <1>2, NIsNat DEF RunInv, TypeOK, ProcInv, Begin
<1>4. DataTypes'
  <2>1. overlap' \subseteq Commands
    <3>1. \A q \in Procs : op[q] # "none" => op[q] \in Commands
      BY DEF RunInv, TypeOK
    <3> QED
      BY <3>1 DEF RunInv, TypeOK, Begin
  <2>2. commands' \in 0 .. MaxCommands
    BY BoundsAreNat DEF RunInv, TypeOK, Begin
  <2> QED
    BY <2>1, <2>2 DEF RunInv, TypeOK, DataTypes, Begin, database
<1> QED
  BY <1>3, <1>4 DEF RunInv, TypeOK, ProcInv, DataTypes

\* A command ends, whatever happens to the database.
LEMMA EndRun ==
    ASSUME RunInv, NEW p \in Procs, End(p), UNCHANGED overlap
    PROVE  ProcInv'
<1>1. ControlInv'
  BY DEF RunInv, TypeOK, ControlInv, End
<1>2. OverlapInv'
  BY DEF RunInv, TypeOK, OverlapInv, End
<1> QED
  BY <1>1, <1>2 DEF RunInv, TypeOK, End, ProcInv

\* The loop goes on, one position further.
Further(p) ==
    /\ op[p] # "rollbackLast"
    /\ op[p] = "rollbackTo" => k[p] > 1 /\ k' = [k EXCEPT ![p] = @ - 1]
    /\ op[p] # "rollbackTo" => k[p] < N /\ k' = [k EXCEPT ![p] = @ + 1]
    /\ op[p] = "migrate" => Current(p) # goal[p]
    /\ pc' = [pc EXCEPT ![p] = "loop"]
    /\ UNCHANGED <<op, goal, j>>

LEMMA AdvanceCases ==
    ASSUME RunInv, NEW p \in Procs, pc[p] \in {"loop", "up", "drop"}, Advance(p)
    PROVE  \/ End(p) /\ (op[p] = "down" => k[p] = N) /\ (op[p] = "rollbackTo" => k[p] = 1)
           \/ Further(p)
<1>0. op[p] \in {"migrate", "rollbackTo", "rollbackLast", "down"} /\ k[p] \in 1 .. N
  BY CurrentIsId DEF RunInv, TypeOK, ControlInv, Commands, Rollbacks
<1>1. CASE op[p] = "migrate"
  BY <1>0, <1>1, NIsNat DEF Advance, Further
<1>2. CASE op[p] = "rollbackTo"
  BY <1>0, <1>2, NIsNat DEF Advance, Further, RunInv, TypeOK
<1>3. CASE op[p] = "rollbackLast"
  BY <1>0, <1>3, NIsNat DEF Advance, Further
<1>4. CASE op[p] = "down"
  BY <1>0, <1>4, NIsNat DEF Advance, Further
<1> QED
  BY <1>0, <1>1, <1>2, <1>3, <1>4

\* The loop goes on, or ends.
LEMMA AdvanceRun ==
    ASSUME RunInv, NEW p \in Procs, pc[p] \in {"loop", "up", "drop"}, Advance(p), UNCHANGED overlap
    PROVE  ProcInv'
<1>1. CASE End(p)
  BY <1>1, EndRun
<1>2. CASE Further(p)
  <2>0. op[p] \in {"migrate", "rollbackTo", "rollbackLast", "down"} /\ k[p] \in 1 .. N
    BY CurrentIsId DEF RunInv, TypeOK, ControlInv, Commands, Rollbacks
  <2>1. k' \in [Procs -> Int] /\ \A q \in Procs : op'[q] # "none" => k'[q] \in 1 .. N
    BY <1>2, <2>0, NIsNat DEF RunInv, TypeOK, Further
  <2>2. ControlInv'
    BY <1>2, <2>0 DEF RunInv, TypeOK, ControlInv, Further
  <2>3. OverlapInv'
    BY <1>2 DEF RunInv, OverlapInv, Further
  <2> QED
    BY <1>2, <2>1, <2>2, <2>3 DEF RunInv, TypeOK, ProcInv, Further
<1> QED
  BY <1>1, <1>2, AdvanceCases

\* What every step but Begin leaves alone or keeps within its type.
LEMMA FaultRun ==
    ASSUME RunInv, Fault
    PROVE  faults' \in 0 .. MaxFaults
BY BoundsAreNat DEF RunInv, TypeOK, Fault

LEMMA AnswerRun ==
    ASSUME RunInv, NEW m, NEW a, MigrationDidRun(m, a)
    PROVE  faults' \in 0 .. MaxFaults
BY FaultRun DEF RunInv, TypeOK, MigrationDidRun

LEMMA FirstRunRun ==
    ASSUME RunInv, NEW a, IsFirstRun(a)
    PROVE  faults' \in 0 .. MaxFaults
BY FaultRun DEF RunInv, TypeOK, IsFirstRun

LEMMA CutRun ==
    ASSUME RunInv, NEW p \in Procs, CutDown(p)
    PROVE  cut' \in BOOLEAN
BY DEF RunInv, TypeOK, CutDown

LEMMA RollbackRun ==
    ASSUME RunInv, NEW p \in Procs, pc[p] = "loop", op[p] \in Rollbacks,
           RollbackMigration(p), UNCHANGED overlap
    PROVE  ProcInv' /\ cut' \in BOOLEAN
<1>1. CASE End(p) /\ CutDown(p)
  BY <1>1, EndRun, CutRun
<1>2. CASE /\ pc' = [pc EXCEPT ![p] = "drop"]
           /\ j' = [j EXCEPT ![p] = 1]
           /\ UNCHANGED <<op, goal, k, cut>>
  <2>1. ControlInv'
    BY <1>2 DEF RunInv, TypeOK, ControlInv
  <2>2. OverlapInv'
    BY <1>2 DEF RunInv, OverlapInv
  <2> QED
    BY <1>2, <2>1, <2>2 DEF RunInv, TypeOK, ProcInv
<1> QED
  BY <1>1, <1>2 DEF RollbackMigration

LEMMA PassOverRun ==
    ASSUME RunInv, NEW p \in Procs, PassOver(p)
    PROVE  cut' \in BOOLEAN /\ faults' \in 0 .. MaxFaults
BY AnswerRun DEF RunInv, TypeOK, PassOver

LEMMA CreateMigrationTableRun ==
    ASSUME RunInv, NEW p \in Procs, CreateMigrationTableIfNotExists(p)
    PROVE  RunInv'
<1> USE DEF CreateMigrationTableIfNotExists
<1>1. CASE /\ table' = TRUE
           /\ pc' = [pc EXCEPT ![p] = IF op[p] = "migrate" THEN "loop" ELSE "first"]
           /\ UNCHANGED <<op, goal, k, j, faults>>
  <2>1. ControlInv'
    BY <1>1 DEF RunInv, TypeOK, ControlInv
  <2>2. OverlapInv'
    BY <1>1 DEF RunInv, OverlapInv
  <2> QED
    BY <1>1, <2>1, <2>2 DEF RunInv, TypeOK
<1>2. CASE End(p) /\ faults' \in 0 .. MaxFaults /\ UNCHANGED table
  <2>1. ProcInv'
    BY <1>2, EndRun
  <2> QED
    BY <1>2, <2>1 DEF RunInv, TypeOK, ProcInv
<1> QED
  BY <1>1, <1>2, FaultRun DEF RunInv, TypeOK

LEMMA InitSchemaOrMigrateRun ==
    ASSUME RunInv, NEW p \in Procs, InitSchemaOrMigrate(p)
    PROVE  RunInv'
<1> USE DEF InitSchemaOrMigrate
<1>1. faults' \in 0 .. MaxFaults
  BY FirstRunRun
<1>2. ControlInv'
  BY DEF RunInv, TypeOK, ControlInv
<1>3. OverlapInv'
  BY DEF RunInv, TypeOK, ControlInv, OverlapInv, Rollbacks
<1>4. ProcInv'
  <2>1. /\ op' = op \/ op' = [op EXCEPT ![p] = "migrate"]
        /\ pc' = [pc EXCEPT ![p] = "schema"] \/ pc' = [pc EXCEPT ![p] = "loop"]
        /\ UNCHANGED <<goal, k, j>>
    OBVIOUS
  <2>2. op' \in [Procs -> Commands \cup {"none"}]
    BY <2>1 DEF RunInv, TypeOK, Commands
  <2>3. pc' \in [Procs -> {"init", "first", "schema", "record", "loop", "up", "drop", "end"}]
    BY <2>1 DEF RunInv, TypeOK
  <2>4. op[p] # "none"
    BY DEF RunInv, ControlInv
  <2>5. \A q \in Procs : op'[q] # "none" => k'[q] \in 1 .. N
    BY <2>1, <2>4 DEF RunInv, TypeOK
  <2> QED
    BY <1>2, <1>3, <2>1, <2>2, <2>3, <2>5 DEF RunInv, TypeOK, ProcInv
<1> QED
  BY <1>1, <1>4 DEF RunInv, TypeOK, ProcInv, database

LEMMA RunInitSchemaRun ==
    ASSUME RunInv, NEW p \in Procs, RunInitSchema(p)
    PROVE  RunInv'
<1> USE DEF RunInitSchema
<1>1. tables' \subseteq AllTables /\ failed' \subseteq AllTables
  BY DEF RunInv, TypeOK
<1>2. CASE pc' = [pc EXCEPT ![p] = "record"] /\ UNCHANGED <<op, goal, k, j, faults>>
  <2>1. ControlInv'
    BY <1>2 DEF RunInv, TypeOK, ControlInv
  <2>2. OverlapInv'
    BY <1>2 DEF RunInv, OverlapInv
  <2> QED
    BY <1>1, <1>2, <2>1, <2>2 DEF RunInv, TypeOK
<1>3. CASE End(p) /\ Fault
  <2>1. ProcInv' /\ faults' \in 0 .. MaxFaults
    BY <1>3, EndRun, FaultRun
  <2> QED
    BY <1>1, <2>1 DEF RunInv, TypeOK, ProcInv
<1> QED
  BY <1>2, <1>3

LEMMA RecordInitSchemaRun ==
    ASSUME RunInv, NEW p \in Procs, RecordInitSchema(p)
    PROVE  RunInv'
<1> USE DEF RecordInitSchema
<1>0. op[p] # "none" /\ k[p] \in 1 .. N /\ Current(p) \in Ids
  BY CurrentIsId DEF RunInv, ControlInv
<1>1. recorded' \subseteq Ids /\ broken' \subseteq Ids /\ faults' \in 0 .. MaxFaults
  BY <1>0, FaultRun DEF RunInv, TypeOK
<1>2. CASE End(p)
  <2>1. ProcInv'
    BY <1>2, EndRun
  <2> QED
    BY <1>1, <2>1 DEF RunInv, TypeOK, ProcInv
<1>3. CASE k[p] # N /\ k' = [k EXCEPT ![p] = @ + 1] /\ UNCHANGED <<op, goal, pc, j>>
  <2>1. k' \in [Procs -> Int] /\ \A q \in Procs : op'[q] # "none" => k'[q] \in 1 .. N
    BY <1>0, <1>3, NIsNat DEF RunInv, TypeOK
  <2>2. ControlInv' /\ OverlapInv'
    BY <1>3 DEF RunInv, ControlInv, OverlapInv
  <2> QED
    BY <1>1, <1>3, <2>1, <2>2 DEF RunInv, TypeOK
<1> QED
  BY <1>2, <1>3

LEMMA RunMigrationRun ==
    ASSUME RunInv, NEW p \in Procs, RunMigration(p)
    PROVE  RunInv'
<1> USE DEF RunMigration
<1>1. faults' \in 0 .. MaxFaults
  BY AnswerRun
<1>2. ProcInv'
  <2>1. CASE Advance(p)
    BY <2>1, AdvanceRun
  <2>2. CASE pc' = [pc EXCEPT ![p] = "up"] /\ j' = [j EXCEPT ![p] = 1] /\ UNCHANGED <<op, goal, k>>
    <3>1. ControlInv'
      BY <2>2 DEF RunInv, TypeOK, ControlInv
    <3>2. OverlapInv'
      BY <2>2 DEF RunInv, OverlapInv
    <3> QED
      BY <2>2, <3>1, <3>2 DEF RunInv, TypeOK, ProcInv
  <2> QED
    BY <2>1, <2>2
<1> QED
  BY <1>1, <1>2 DEF RunInv, TypeOK, ProcInv, database

LEMMA RollbackToLoopRun ==
    ASSUME RunInv, NEW p \in Procs, RollbackToLoop(p)
    PROVE  RunInv'
<1> USE DEF RollbackToLoop
<1>1. ProcInv' /\ cut' \in BOOLEAN /\ faults' \in 0 .. MaxFaults
  <2>1. CASE End(p) /\ UNCHANGED <<cut, faults>>
    BY <2>1, EndRun DEF RunInv, TypeOK
  <2>2. CASE MigrationDidRun(Current(p), TRUE) /\ RollbackMigration(p)
    BY <2>2, RollbackRun, AnswerRun DEF Rollbacks
  <2>3. CASE PassOver(p) /\ Advance(p)
    BY <2>3, AdvanceRun, PassOverRun
  <2> QED
    BY <2>1, <2>2, <2>3
<1> QED
  BY <1>1 DEF RunInv, TypeOK, ProcInv, database

LEMMA GetLastRunnedMigrationRun ==
    ASSUME RunInv, NEW p \in Procs, GetLastRunnedMigration(p)
    PROVE  RunInv'
<1> USE DEF GetLastRunnedMigration
<1>1. ProcInv' /\ cut' \in BOOLEAN /\ faults' \in 0 .. MaxFaults
  <2>1. CASE MigrationDidRun(Current(p), TRUE) /\ RollbackMigration(p)
    BY <2>1, RollbackRun, AnswerRun DEF Rollbacks
  <2>2. CASE PassOver(p) /\ End(p)
    BY <2>2, EndRun, PassOverRun
  <2>3. CASE /\ PassOver(p) /\ k[p] # 1
            /\ k' = [k EXCEPT ![p] = @ - 1] /\ UNCHANGED <<op, goal, pc, j>>
    <3>1. k[p] \in 1 .. N
      BY CurrentIsId DEF RunInv
    <3>2. k' \in [Procs -> Int] /\ \A q \in Procs : op'[q] # "none" => k'[q] \in 1 .. N
      BY <2>3, <3>1, NIsNat DEF RunInv, TypeOK
    <3>3. ControlInv' /\ OverlapInv'
      BY <2>3 DEF RunInv, ControlInv, OverlapInv
    <3> QED
      BY <2>3, <3>2, <3>3, PassOverRun DEF RunInv, TypeOK, ProcInv
  <2> QED
    BY <2>1, <2>2, <2>3
<1> QED
  BY <1>1 DEF RunInv, TypeOK, ProcInv, database

LEMMA DownLoopRun ==
    ASSUME RunInv, NEW p \in Procs, DownLoop(p)
    PROVE  RunInv'
<1>1. ProcInv' /\ cut' \in BOOLEAN
  BY RollbackRun DEF DownLoop, Rollbacks
<1> QED
  BY <1>1 DEF RunInv, TypeOK, ProcInv, database, DownLoop

\* The table that Up or Down comes to.
LEMMA TableRun ==
    ASSUME RunInv, NEW p \in Procs, pc[p] \in {"up", "drop"}, j[p] <= Len(TablesOf[Current(p)])
    PROVE  /\ Current(p) \in Ids
           /\ j[p] \in 1 .. Len(TablesOf[Current(p)])
           /\ Table(p) \in Range(TablesOf[Current(p)])
           /\ Table(p) \in AllTables
<1>1. Current(p) \in Ids
  BY CurrentIsId DEF RunInv, ControlInv
<1>2. j[p] \in 1 .. Len(TablesOf[Current(p)])
  BY <1>1, TableIsKnown DEF RunInv, TypeOK
<1> QED
  BY <1>1, <1>2, TableIsKnown DEF Table

LEMMA CreateTableRun ==
    ASSUME RunInv, NEW p \in Procs, CreateTable(p)
    PROVE  RunInv'
<1> USE DEF CreateTable
<1>1. tables' \subseteq AllTables /\ failed' \subseteq AllTables /\ faults' \in 0 .. MaxFaults
  BY TableRun, FaultRun DEF RunInv, TypeOK
<1>2. j' \in [Procs -> Nat \ {0}]
  BY DEF RunInv, TypeOK
<1>3. ControlInv' /\ OverlapInv'
  BY DEF RunInv, ControlInv, OverlapInv
<1> QED
  BY <1>1, <1>2, <1>3 DEF RunInv, TypeOK

LEMMA InsertMigrationRun ==
    ASSUME RunInv, NEW p \in Procs, InsertMigration(p)
    PROVE  RunInv'
<1> USE DEF InsertMigration
<1>0. Current(p) \in Ids
  BY CurrentIsId DEF RunInv, ControlInv
<1>1. recorded' \subseteq Ids /\ broken' \subseteq Ids /\ faults' \in 0 .. MaxFaults
  BY <1>0, FaultRun DEF RunInv, TypeOK
<1>2. ProcInv'
  BY EndRun, AdvanceRun
<1> QED
  BY <1>1, <1>2 DEF RunInv, TypeOK, ProcInv

LEMMA DropTableRun ==
    ASSUME RunInv, NEW p \in Procs, DropTable(p)
    PROVE  RunInv'
<1> USE DEF DropTable
<1>1. tables' \subseteq AllTables /\ broken' \subseteq Ids /\ faults' \in 0 .. MaxFaults
  BY TableRun, FaultRun DEF RunInv, TypeOK
<1>2. j' \in [Procs -> Nat \ {0}]
  BY DEF RunInv, TypeOK
<1>3. ControlInv' /\ OverlapInv'
  BY DEF RunInv, ControlInv, OverlapInv
<1> QED
  BY <1>1, <1>2, <1>3 DEF RunInv, TypeOK

LEMMA DeleteMigrationRun ==
    ASSUME RunInv, NEW p \in Procs, DeleteMigration(p)
    PROVE  RunInv'
<1> USE DEF DeleteMigration
<1>1. recorded' \subseteq Ids /\ broken' \subseteq Ids /\ faults' \in 0 .. MaxFaults
  BY FaultRun DEF RunInv, TypeOK
<1>2. cut' \in BOOLEAN
  BY CutRun DEF RunInv, TypeOK
<1>3. ProcInv'
  BY EndRun, AdvanceRun
<1> QED
  BY <1>1, <1>2, <1>3 DEF RunInv, TypeOK, ProcInv

LEMMA CrashRun ==
    ASSUME RunInv, NEW p \in Procs, Crash(p)
    PROVE  RunInv'
<1>1. ProcInv' /\ cut' \in BOOLEAN /\ faults' \in 0 .. MaxFaults
  BY EndRun, CutRun, FaultRun DEF Crash
<1> QED
  BY <1>1 DEF RunInv, TypeOK, ProcInv, database, Crash

-----------------------------------------------------------------------------
(* Steps that leave the record alone                                        *)

\* The commands, with the end of the list where their loop begins.
BeginCommand(p) ==
    \/ \E c \in {"migrate", "initSchema"}, id \in Ids : Begin(p, c, id, 1)
    \/ \E id \in Ids : Begin(p, "rollbackTo", id, N)
    \/ Begin(p, "rollbackLast", 0, N)
    \/ Begin(p, "down", 0, 1)

LEMMA NextCases ==
    ASSUME Next
    PROVE  \E p \in Procs : (N > 0 /\ BeginCommand(p)) \/ Step(p) \/ Crash(p)
<1>1. N > 0 => GetMigrations[N] \in Ids
  BY ListFacts
<1> QED
  BY <1>1 DEF Next, BeginCommand, UpMigrateCmd, Migrate, MigrateTo, InitSchema, RollbackTo,
              RollbackLast, DownMigrateCmd

\* A step of p leaves the other processes where they are.
OthersStay(p) ==
    \A q \in Procs \ {p} :
        op'[q] = op[q] /\ pc'[q] = pc[q] /\ k'[q] = k[q] /\ j'[q] = j[q] /\ goal'[q] = goal[q]

\* A step of p that leaves tables and record alone, and at most begins with Up.
Quiet(p) ==
    /\ UNCHANGED <<recorded, tables, failed, broken>>
    /\ overlap \subseteq overlap'
    /\ OthersStay(p)
    /\ pc'[p] # "record"
    /\ pc'[p] = "up" => j'[p] = 1

\* A step of p that leaves the record alone, with what the loop has seen when it
\* goes on.
Calm(p) ==
    /\ UNCHANGED recorded
    /\ cut => cut'
    /\ overlap \subseteq overlap'
    /\ OthersStay(p)
    /\ \/ op'[p] = "none" /\ (op[p] = "down" => cut')
       \/ op[p] = "none" /\ (op'[p] \in {"migrate", "initSchema", "down"} => k'[p] = 1)
                        /\ (op'[p] \in {"rollbackTo", "rollbackLast"} => k'[p] = N)
       \/ k'[p] = k[p] /\ (op'[p] = op[p] \/ (op[p] = "initSchema" /\ op'[p] = "migrate"))
       \/ op'[p] = op[p] /\ op[p] = "migrate" /\ Current(p) \in recorded /\ k'[p] = k[p] + 1
       \/ /\ op'[p] = op[p] /\ op[p] \in {"rollbackTo", "rollbackLast"}
          /\ Current(p) \notin recorded \/ cut'
          /\ k'[p] = k[p] - 1

LEMMA QuietTables ==
    ASSUME RunInv, TablesInv, NEW p \in Procs, Quiet(p)
    PROVE  TablesInv'
<1>1. RollbacksAlone' => RollbacksAlone
  BY DEF Quiet, RollbacksAlone
<1>2. RecordedHasTables'
  BY <1>1 DEF Quiet, TablesInv, RecordedHasTables, RollbacksAlone
<1>3. UpInv'
  <2>1. SUFFICES ASSUME RollbacksAlone, NEW q \in Procs
                 PROVE  /\ pc'[q] = "up" =>
                              \A x \in 1 .. Len(TablesOf[Current(q)']) :
                                  x < j'[q] => TablesOf[Current(q)'][x] \in tables' \cup failed'
                        /\ pc'[q] = "record" => AllTables \subseteq tables' \cup failed'
    BY <1>1 DEF UpInv
  <2>2. CASE q = p
    BY <2>2 DEF Quiet
  <2>3. CASE q # p
    BY <2>1, <2>3 DEF Quiet, OthersStay, TablesInv, UpInv, Current
  <2> QED
    BY <2>2, <2>3
<1> QED
  BY <1>2, <1>3 DEF TablesInv

\* No step adds a guard to the order: the guard of RecordedIsPrefix is set again
\* only by the end of a `down`.
LEMMA CalmOrder ==
    ASSUME RunInv, OrderInv, NEW p \in Procs, Calm(p)
    PROVE  OrderInv'
<1>1. (RollbacksAlone' => RollbacksAlone) /\ (cut => cut') /\ recorded' = recorded
  BY DEF Calm, RollbacksAlone
<1>2. \A q \in Procs \ {p} : op'[q] = op[q] /\ k'[q] = k[q]
  BY DEF Calm, OthersStay
<1>3. RecordedIsPrefix'
  <2>1. op[p] = "down" /\ op'[p] # "down" => cut'
    BY DEF Calm
  <2>2. (RollbacksAlone' /\ ~cut' /\ \A q \in Procs : op'[q] # "down")
            => \A q \in Procs : op[q] # "down"
    BY <1>2, <2>1
  <2> QED
    BY <1>1, <2>2 DEF OrderInv, RecordedIsPrefix, RollbacksAlone
<1>4. LoopInv'
  <2>1. SUFFICES ASSUME NEW q \in Procs, RollbacksAlone
                 PROVE  /\ op'[q] \in {"migrate", "initSchema"} =>
                              \A x \in 1 .. N : x < k'[q] => GetMigrations[x] \in recorded
                        /\ ~cut' /\ op'[q] = "down" =>
                              \A x \in 1 .. N : x < k'[q] => GetMigrations[x] \notin recorded
                        /\ ~cut' /\ op'[q] \in {"rollbackTo", "rollbackLast"} =>
                              \A x \in 1 .. N : x > k'[q] => GetMigrations[x] \notin recorded
    BY <1>1 DEF LoopInv
  <2>2. CASE q # p
    BY <1>1, <1>2, <2>1, <2>2 DEF OrderInv, LoopInv
  <2>3. CASE q = p
    <3>1. op[p] # "none" => k[p] \in 1 .. N
      BY DEF RunInv, TypeOK
    <3>2. CASE op'[p] = "none"
      BY <2>3, <3>2
    <3>3. CASE op[p] = "none" /\ (op'[p] \in {"migrate", "initSchema", "down"} => k'[p] = 1)
                             /\ (op'[p] \in {"rollbackTo", "rollbackLast"} => k'[p] = N)
      BY <2>3, <3>3, ListFacts
    <3>4. CASE k'[p] = k[p] /\ (op'[p] = op[p] \/ (op[p] = "initSchema" /\ op'[p] = "migrate"))
      BY <1>1, <2>1, <2>3, <3>4 DEF OrderInv, LoopInv
    <3>5. CASE op'[p] = op[p] /\ op[p] = "migrate" /\ Current(p) \in recorded /\ k'[p] = k[p] + 1
      BY <2>1, <2>3, <3>1, <3>5, ListFacts DEF OrderInv, LoopInv, Current
    <3>6. CASE /\ op'[p] = op[p] /\ op[p] \in {"rollbackTo", "rollbackLast"}
               /\ Current(p) \notin recorded \/ cut'
               /\ k'[p] = k[p] - 1
      BY <1>1, <2>1, <2>3, <3>1, <3>6, ListFacts DEF OrderInv, LoopInv, Current
    <3> QED
      BY <3>2, <3>3, <3>4, <3>5, <3>6 DEF Calm
  <2> QED
    BY <2>2, <2>3
<1> QED
  BY <1>3, <1>4 DEF OrderInv

\* A command begins.
LEMMA BeginQuiet ==
    ASSUME RunInv, NEW p \in Procs, BeginCommand(p)
    PROVE  Quiet(p) /\ Calm(p)
<1>1. PICK c \in Commands, id \in Ids \cup {0}, first \in {1, N} :
          /\ Begin(p, c, id, first)
          /\ c \in {"migrate", "initSchema", "down"} => first = 1
          /\ c \in {"rollbackTo", "rollbackLast"} => first = N
  BY DEF BeginCommand, Commands, Rollbacks
<1>2. OthersStay(p)
  BY <1>1 DEF Begin, RunInv, TypeOK, OthersStay
<1>3. op[p] = "none" /\ op'[p] = c /\ k'[p] = first /\ pc'[p] \in {"loop", "init"}
  BY <1>1 DEF Begin, RunInv, TypeOK
<1>4. Quiet(p)
  BY <1>1, <1>2, <1>3 DEF Begin, Quiet, database
<1>5. Calm(p)
  BY <1>1, <1>2, <1>3 DEF Begin, Calm, database
<1> QED
  BY <1>4, <1>5

\* A command ends before the end of its loop.
LEMMA EndStays ==
    ASSUME RunInv, NEW p \in Procs, End(p)
    PROVE  OthersStay(p) /\ op'[p] = "none" /\ pc'[p] = "end"
BY DEF End, RunInv, TypeOK, OthersStay

LEMMA EndQuiet ==
    ASSUME RunInv, NEW p \in Procs, End(p), UNCHANGED <<recorded, tables, failed, broken, overlap>>,
           cut => cut', op[p] = "down" => cut'
    PROVE  Quiet(p) /\ Calm(p)
BY EndStays DEF Quiet, Calm

\* A command stays where it is.
LEMMA StayQuiet ==
    ASSUME RunInv, NEW p \in Procs, UNCHANGED <<recorded, tables, failed, broken, cut, overlap, k>>,
           OthersStay(p), op'[p] = op[p] \/ (op[p] = "initSchema" /\ op'[p] = "migrate"),
           pc'[p] # "record", pc'[p] = "up" => j'[p] = 1
    PROVE  Quiet(p) /\ Calm(p)
BY DEF Quiet, Calm

\* The loop goes on.
LEMMA FurtherStays ==
    ASSUME RunInv, NEW p \in Procs, Further(p)
    PROVE  /\ OthersStay(p) /\ op'[p] = op[p] /\ pc'[p] = "loop" /\ op[p] # "rollbackLast"
           /\ op[p] = "rollbackTo" => k'[p] = k[p] - 1
           /\ op[p] # "rollbackTo" => k'[p] = k[p] + 1
BY DEF Further, RunInv, TypeOK, OthersStay

LEMMA RollbackQuiet ==
    ASSUME RunInv, NEW p \in Procs, pc[p] = "loop", op[p] \in Rollbacks, RollbackMigration(p),
           UNCHANGED <<recorded, tables, failed, broken, overlap>>
    PROVE  Quiet(p) /\ Calm(p)
<1>1. CASE End(p) /\ CutDown(p)
  <2>1. (cut => cut') /\ (op[p] = "down" => cut')
    BY <1>1 DEF CutDown
  <2> QED
    BY <1>1, <2>1, EndQuiet
<1>2. CASE /\ pc' = [pc EXCEPT ![p] = "drop"]
           /\ j' = [j EXCEPT ![p] = 1]
           /\ UNCHANGED <<op, goal, k, cut>>
  <2>1. OthersStay(p) /\ pc'[p] = "drop"
    BY <1>2 DEF RunInv, TypeOK, OthersStay
  <2> QED
    BY <1>2, <2>1, StayQuiet
<1> QED
  BY <1>1, <1>2 DEF RollbackMigration

LEMMA CreateMigrationTableQuiet ==
    ASSUME RunInv, NEW p \in Procs, CreateMigrationTableIfNotExists(p)
    PROVE  Quiet(p) /\ Calm(p)
<1> USE DEF CreateMigrationTableIfNotExists
<1>1. CASE End(p)
  <2>1. op[p] # "down"
    BY DEF RunInv, ControlInv
  <2> QED
    BY <1>1, <2>1, EndQuiet
<1>2. CASE /\ pc' = [pc EXCEPT ![p] = IF op[p] = "migrate" THEN "loop" ELSE "first"]
           /\ UNCHANGED <<op, goal, k, j>>
  <2>1. OthersStay(p) /\ pc'[p] \in {"loop", "first"}
    BY <1>2 DEF RunInv, TypeOK, OthersStay
  <2> QED
    BY <1>2, <2>1, StayQuiet
<1> QED
  BY <1>1, <1>2

LEMMA InitSchemaOrMigrateQuiet ==
    ASSUME RunInv, NEW p \in Procs, InitSchemaOrMigrate(p)
    PROVE  Quiet(p) /\ Calm(p)
<1> USE DEF InitSchemaOrMigrate
<1>1. /\ op' = op \/ op' = [op EXCEPT ![p] = "migrate"]
      /\ pc' = [pc EXCEPT ![p] = "schema"] \/ pc' = [pc EXCEPT ![p] = "loop"]
      /\ UNCHANGED <<recorded, tables, failed, broken, cut, overlap, goal, k, j>>
  BY DEF database
<1>2. op[p] = "initSchema"
  BY DEF RunInv, ControlInv
<1>3. OthersStay(p) /\ pc'[p] \in {"schema", "loop"} /\ op'[p] \in {op[p], "migrate"}
  BY ONLY <1>1, RunInv, p \in Procs DEF RunInv, TypeOK, OthersStay
<1> QED
  BY <1>1, <1>2, <1>3, StayQuiet

LEMMA RunMigrationQuiet ==
    ASSUME RunInv, NEW p \in Procs, RunMigration(p)
    PROVE  Quiet(p) /\ Calm(p)
<1> USE DEF RunMigration
<1>0. UNCHANGED <<recorded, tables, failed, broken, cut, overlap>>
  BY DEF database
<1>1. CASE MigrationDidRun(Current(p), TRUE) /\ Advance(p)
  <2>1. Current(p) \in recorded
    BY <1>1 DEF MigrationDidRun
  <2>2. CASE End(p)
    BY <1>0, <2>2, EndQuiet
  <2>3. CASE Further(p)
    BY <1>0, <2>1, <2>3, FurtherStays DEF Quiet, Calm
  <2> QED
    BY <1>1, <2>2, <2>3, AdvanceCases
<1>2. CASE pc' = [pc EXCEPT ![p] = "up"] /\ j' = [j EXCEPT ![p] = 1] /\ UNCHANGED <<op, goal, k>>
  <2>1. OthersStay(p) /\ j'[p] = 1 /\ pc'[p] = "up"
    BY <1>2 DEF RunInv, TypeOK, OthersStay
  <2> QED
    BY <1>0, <1>2, <2>1, StayQuiet
<1> QED
  BY <1>1, <1>2

\* A rollback passes over a migration only when that is not recorded, or sets cut.
LEMMA PassOverSeen ==
    ASSUME NEW p \in Procs, PassOver(p)
    PROVE  (cut => cut') /\ (Current(p) \notin recorded \/ cut')
BY DEF PassOver

LEMMA RollbackToLoopQuiet ==
    ASSUME RunInv, NEW p \in Procs, RollbackToLoop(p)
    PROVE  Quiet(p) /\ Calm(p)
<1> USE DEF RollbackToLoop
<1>0. UNCHANGED <<recorded, tables, failed, broken, overlap>>
  BY DEF database
<1>1. CASE End(p) /\ UNCHANGED <<cut, faults>>
  BY <1>0, <1>1, EndQuiet
<1>2. CASE RollbackMigration(p)
  BY <1>0, <1>2, RollbackQuiet DEF Rollbacks
<1>3. CASE PassOver(p) /\ Advance(p)
  <2>1. (cut => cut') /\ (Current(p) \notin recorded \/ cut')
    BY <1>3, PassOverSeen
  <2>2. CASE End(p)
    BY <1>0, <2>1, <2>2, EndQuiet
  <2>3. CASE Further(p)
    BY <1>0, <2>1, <2>3, FurtherStays DEF Quiet, Calm
  <2> QED
    BY <1>3, <2>2, <2>3, AdvanceCases
<1> QED
  BY <1>1, <1>2, <1>3

LEMMA GetLastRunnedMigrationQuiet ==
    ASSUME RunInv, NEW p \in Procs, GetLastRunnedMigration(p)
    PROVE  Quiet(p) /\ Calm(p)
<1> USE DEF GetLastRunnedMigration
<1>0. UNCHANGED <<recorded, tables, failed, broken, overlap>>
  BY DEF database
<1>1. CASE RollbackMigration(p)
  BY <1>0, <1>1, RollbackQuiet DEF Rollbacks
<1>2. CASE PassOver(p) /\ End(p)
  <2>1. cut => cut'
    BY <1>2, PassOverSeen
  <2> QED
    BY <1>0, <1>2, <2>1, EndQuiet
<1>3. CASE PassOver(p) /\ k' = [k EXCEPT ![p] = @ - 1] /\ UNCHANGED <<op, goal, pc, j>>
  <2>1. (cut => cut') /\ (Current(p) \notin recorded \/ cut')
    BY <1>3, PassOverSeen
  <2>2. OthersStay(p) /\ k'[p] = k[p] - 1 /\ op'[p] = op[p] /\ pc'[p] = "loop"
    BY <1>3 DEF RunInv, TypeOK, OthersStay
  <2> QED
    BY <1>0, <2>1, <2>2 DEF Quiet, Calm
<1> QED
  BY <1>1, <1>2, <1>3

LEMMA DownLoopQuiet ==
    ASSUME RunInv, NEW p \in Procs, DownLoop(p)
    PROVE  Quiet(p) /\ Calm(p)
BY RollbackQuiet DEF DownLoop, Rollbacks, database

LEMMA CrashQuiet ==
    ASSUME RunInv, NEW p \in Procs, Crash(p)
    PROVE  Quiet(p) /\ Calm(p)
<1>1. (cut => cut') /\ (op[p] = "down" => cut')
  BY DEF Crash, CutDown
<1> QED
  BY <1>1, EndQuiet DEF Crash, database

-----------------------------------------------------------------------------
(* Steps that change tables or record                                       *)

\* No table is lost and the step leaves p outside Up and the recording, or with
\* the tables it has to answer for.
LEMMA UpInvKept ==
    ASSUME RunInv, UpInv, NEW p \in Procs, OthersStay(p), UNCHANGED overlap,
           RollbacksAlone => tables \cup failed \subseteq tables' \cup failed',
           RollbacksAlone /\ pc'[p] = "up" =>
               \A x \in 1 .. Len(TablesOf[Current(p)']) :
                   x < j'[p] => TablesOf[Current(p)'][x] \in tables' \cup failed',
           RollbacksAlone /\ pc'[p] = "record" => AllTables \subseteq tables' \cup failed'
    PROVE  UpInv'
<1>1. SUFFICES ASSUME RollbacksAlone, NEW q \in Procs \ {p}
               PROVE  /\ pc'[q] = "up" =>
                            \A x \in 1 .. Len(TablesOf[Current(q)']) :
                                x < j'[q] => TablesOf[Current(q)'][x] \in tables' \cup failed'
                      /\ pc'[q] = "record" => AllTables \subseteq tables' \cup failed'
  BY DEF UpInv, RollbacksAlone
<1>2. /\ pc[q] = "up" =>
            \A x \in 1 .. Len(TablesOf[Current(q)]) :
                x < j[q] => TablesOf[Current(q)][x] \in tables \cup failed
      /\ pc[q] = "record" => AllTables \subseteq tables \cup failed
  BY <1>1 DEF UpInv
<1>3. Current(q)' = Current(q) /\ pc'[q] = pc[q] /\ j'[q] = j[q]
  BY DEF OthersStay, Current
<1> QED
  BY <1>1, <1>2, <1>3

\* A command that rolls back runs alone, or overlap names it.
LEMMA RollbackIsAlone ==
    ASSUME RunInv, RollbacksAlone, NEW p \in Procs, op[p] \in Rollbacks, NEW q \in Procs \ {p}
    PROVE  op[q] = "none" /\ pc[q] = "end"
<1>1. op[p] # "none"
  BY DEF Rollbacks
<1> QED
  BY <1>1 DEF RunInv, OverlapInv, ControlInv, RollbacksAlone

LEMMA CreateTableTables ==
    ASSUME RunInv, TablesInv, NEW p \in Procs, CreateTable(p)
    PROVE  TablesInv'
<1> USE DEF CreateTable
<1>1. tables' \cup failed' = tables \cup failed \cup {Table(p)}
  OBVIOUS
<1>2. OthersStay(p) /\ j'[p] = j[p] + 1 /\ Current(p)' = Current(p)
  BY DEF RunInv, TypeOK, OthersStay, Current
<1>3. RollbacksAlone =>
          \A x \in 1 .. Len(TablesOf[Current(p)]) :
              x < j'[p] => TablesOf[Current(p)][x] \in tables' \cup failed'
  <2>1. j[p] \in 1 .. Len(TablesOf[Current(p)]) /\ Len(TablesOf[Current(p)]) \in Nat
    BY TableRun, TableIsKnown
  <2>2. \A x \in 1 .. Len(TablesOf[Current(p)]) : x < j'[p] => x < j[p] \/ x = j[p]
    BY <1>2, <2>1
  <2> QED
    BY <1>1, <2>2 DEF TablesInv, UpInv, Table
<1>4. UpInv'
  BY <1>1, <1>2, <1>3, UpInvKept DEF TablesInv, RunInv, ControlInv
<1>5. RecordedHasTables'
  BY <1>1 DEF TablesInv, RecordedHasTables
<1> QED
  BY <1>4, <1>5 DEF TablesInv

LEMMA RunInitSchemaTables ==
    ASSUME RunInv, TablesInv, NEW p \in Procs, RunInitSchema(p)
    PROVE  TablesInv'
<1> USE DEF RunInitSchema
<1>1. tables \cup failed \subseteq tables' \cup failed'
  BY DEF RunInv, TypeOK
<1>2. OthersStay(p) /\ pc'[p] # "up" /\ (pc'[p] = "record" => AllTables \subseteq tables')
  <2>1. CASE End(p)
    BY <2>1, EndStays
  <2>2. CASE /\ tables' = AllTables
            /\ pc' = [pc EXCEPT ![p] = "record"] /\ UNCHANGED <<op, goal, k, j>>
    BY <2>2 DEF RunInv, TypeOK, OthersStay
  <2> QED
    BY <2>1, <2>2
<1>3. UpInv'
  BY <1>1, <1>2, UpInvKept DEF TablesInv
<1>4. RecordedHasTables'
  BY <1>1 DEF TablesInv, RecordedHasTables
<1> QED
  BY <1>3, <1>4 DEF TablesInv

\* A migration is recorded with its tables created.
LEMMA RecordingTables ==
    ASSUME RunInv, TablesInv, NEW p \in Procs, OthersStay(p),
           UNCHANGED <<tables, failed, overlap>>,
           pc'[p] # "up", pc'[p] = "record" => pc[p] = "record",
           recorded' = recorded \cup {Current(p)}, broken' = broken \ {Current(p)},
           RollbacksAlone => Range(TablesOf[Current(p)]) \subseteq tables \cup failed
    PROVE  TablesInv'
<1>1. UpInv'
  <2>1. RollbacksAlone /\ pc'[p] = "record" => AllTables \subseteq tables' \cup failed'
    BY DEF TablesInv, UpInv
  <2> QED
    BY <2>1, UpInvKept DEF TablesInv
<1>2. RecordedHasTables'
  BY DEF TablesInv, RecordedHasTables, RollbacksAlone
<1> QED
  BY <1>1, <1>2 DEF TablesInv

LEMMA InsertStays ==
    ASSUME RunInv, NEW p \in Procs, InsertMigration(p)
    PROVE  /\ OthersStay(p) /\ pc'[p] \in {"loop", "end"} /\ op[p] = "migrate"
           /\ op'[p] = "none" \/ (op'[p] = op[p] /\ k'[p] = k[p] + 1)
<1>1. op[p] = "migrate"
  BY DEF RunInv, ControlInv, InsertMigration
<1>2. CASE End(p)
  BY <1>1, <1>2, EndStays
<1>3. CASE Advance(p)
  <2>1. End(p) \/ Further(p)
    BY <1>3, AdvanceCases DEF InsertMigration
  <2> QED
    BY <1>1, <1>2, <2>1, FurtherStays
<1> QED
  BY <1>2, <1>3 DEF InsertMigration

LEMMA InsertMigrationTables ==
    ASSUME RunInv, TablesInv, NEW p \in Procs, InsertMigration(p)
    PROVE  TablesInv'
<1> USE DEF InsertMigration
<1>1. CASE recorded' = recorded \cup {Current(p)} /\ broken' = broken \ {Current(p)}
  <2>1. Current(p) \in Ids /\ j[p] \in Nat
    BY CurrentIsId DEF RunInv, TypeOK, ControlInv
  <2>2. /\ Len(TablesOf[Current(p)]) \in Nat
        /\ Range(TablesOf[Current(p)])
              = {TablesOf[Current(p)][x] : x \in 1 .. Len(TablesOf[Current(p)])}
    BY <2>1, TableIsKnown
  <2>3. \A x \in 1 .. Len(TablesOf[Current(p)]) : x < j[p]
    BY <2>1, <2>2
  <2>4. RollbacksAlone =>
            \A x \in 1 .. Len(TablesOf[Current(p)]) :
                TablesOf[Current(p)][x] \in tables \cup failed
    BY <2>3 DEF TablesInv, UpInv
  <2>5. RollbacksAlone => Range(TablesOf[Current(p)]) \subseteq tables \cup failed
    BY <2>2, <2>4
  <2> QED
    BY <1>1, <2>5, InsertStays, RecordingTables
<1>2. CASE End(p) /\ UNCHANGED <<recorded, broken>>
  BY <1>2, EndQuiet, QuietTables, InsertStays
<1> QED
  BY <1>1, <1>2

LEMMA RecordStays ==
    ASSUME RunInv, NEW p \in Procs, RecordInitSchema(p)
    PROVE  /\ OthersStay(p) /\ pc'[p] \in {"record", "end"} /\ op[p] = "initSchema"
           /\ op'[p] = "none" \/ (op'[p] = op[p] /\ k'[p] = k[p] + 1)
<1>1. op[p] = "initSchema"
  BY DEF RunInv, ControlInv, RecordInitSchema
<1>2. CASE End(p)
  BY <1>1, <1>2, EndStays
<1>3. CASE k' = [k EXCEPT ![p] = @ + 1] /\ UNCHANGED <<op, goal, pc, j>>
  BY <1>1, <1>3 DEF RunInv, TypeOK, OthersStay, RecordInitSchema
<1> QED
  BY <1>2, <1>3 DEF RecordInitSchema

LEMMA RecordInitSchemaTables ==
    ASSUME RunInv, TablesInv, NEW p \in Procs, RecordInitSchema(p)
    PROVE  TablesInv'
<1> USE DEF RecordInitSchema
<1>1. CASE recorded' = recorded \cup {Current(p)} /\ broken' = broken \ {Current(p)}
  <2>1. Current(p) \in Ids
    BY CurrentIsId DEF RunInv, ControlInv
  <2>2. RollbacksAlone => Range(TablesOf[Current(p)]) \subseteq tables \cup failed
    BY <2>1, TableIsKnown DEF TablesInv, UpInv
  <2> QED
    BY <1>1, <2>2, RecordStays, RecordingTables
<1>2. CASE End(p) /\ UNCHANGED <<recorded, broken>>
  BY <1>2, EndQuiet, QuietTables, RecordStays
<1> QED
  BY <1>1, <1>2

LEMMA DropTableTables ==
    ASSUME RunInv, TablesInv, NEW p \in Procs, DropTable(p)
    PROVE  TablesInv'
<1> USE DEF DropTable
<1>0. op[p] \in Rollbacks /\ Current(p) \in Ids /\ Table(p) \in Range(TablesOf[Current(p)])
  BY TableRun DEF RunInv, ControlInv
<1>1. UpInv'
  BY <1>0, RollbackIsAlone DEF UpInv, RollbacksAlone
<1>2. RecordedHasTables'
  <2>1. SUFFICES ASSUME RollbacksAlone, NEW m \in recorded \ broken, m # Current(p)
                 PROVE  Range(TablesOf[m]) \subseteq tables' \cup failed
    BY DEF RecordedHasTables, RollbacksAlone
  <2>2. Range(TablesOf[m]) \subseteq tables \cup failed
    BY <2>1 DEF TablesInv, RecordedHasTables, RollbacksAlone
  <2>3. m \in Ids
    BY DEF RunInv, TypeOK
  <2>4. Table(p) \notin Range(TablesOf[m])
    BY <1>0, <2>1, <2>3, MigrationsAssumption
  <2> QED
    BY <2>2, <2>4
<1> QED
  BY <1>1, <1>2 DEF TablesInv

LEMMA DeleteStays ==
    ASSUME RunInv, NEW p \in Procs, DeleteMigration(p)
    PROVE  /\ OthersStay(p) /\ pc'[p] \in {"loop", "end"} /\ op[p] \in Rollbacks
           /\ UNCHANGED <<tables, failed, overlap>>
           /\ \/ /\ End(p) /\ CutDown(p) /\ UNCHANGED <<recorded, broken>>
              \/ /\ recorded' = recorded \ {Current(p)} /\ broken' = broken \ {Current(p)}
                 /\ UNCHANGED cut
                 /\ \/ op'[p] = "none" /\ (op[p] = "down" => k[p] = N)
                    \/ op'[p] = op[p] /\ op[p] = "rollbackTo" /\ k'[p] = k[p] - 1
                    \/ op'[p] = op[p] /\ op[p] = "down" /\ k'[p] = k[p] + 1
<1> USE DEF DeleteMigration
<1>0. op[p] \in Rollbacks
  BY DEF RunInv, ControlInv
<1>1. CASE End(p) /\ CutDown(p) /\ UNCHANGED <<recorded, broken>>
  BY <1>0, <1>1, EndStays
<1>2. CASE /\ recorded' = recorded \ {Current(p)} /\ broken' = broken \ {Current(p)}
           /\ Advance(p) /\ UNCHANGED <<cut, faults>>
  <2>1. CASE End(p) /\ (op[p] = "down" => k[p] = N)
    BY <1>0, <1>2, <2>1, EndStays
  <2>2. CASE Further(p)
    BY <1>0, <1>2, <2>2, FurtherStays DEF Rollbacks
  <2> QED
    BY <1>2, <2>1, <2>2, AdvanceCases
<1> QED
  BY <1>1, <1>2

LEMMA DeleteMigrationTables ==
    ASSUME RunInv, TablesInv, NEW p \in Procs, DeleteMigration(p)
    PROVE  TablesInv'
<1>1. UpInv'
  BY DeleteStays, UpInvKept DEF TablesInv
<1>2. RecordedHasTables'
  BY DeleteStays DEF TablesInv, RecordedHasTables
<1> QED
  BY <1>1, <1>2 DEF TablesInv

-----------------------------------------------------------------------------
(* The order of the record                                                  *)

LEMMA CreateTableCalm ==
    ASSUME RunInv, NEW p \in Procs, CreateTable(p) \/ DropTable(p)
    PROVE  Calm(p)
<1>1. OthersStay(p)
  BY DEF CreateTable, DropTable, RunInv, TypeOK, OthersStay
<1> QED
  BY <1>1 DEF CreateTable, DropTable, Calm

LEMMA RunInitSchemaCalm ==
    ASSUME RunInv, NEW p \in Procs, RunInitSchema(p)
    PROVE  Calm(p)
<1> USE DEF RunInitSchema
<1>0. op[p] = "initSchema"
  BY DEF RunInv, ControlInv
<1>1. CASE End(p)
  BY <1>0, <1>1, EndStays DEF Calm
<1>2. CASE pc' = [pc EXCEPT ![p] = "record"] /\ UNCHANGED <<op, goal, k, j>>
  <2>1. OthersStay(p)
    BY <1>2 DEF RunInv, TypeOK, OthersStay
  <2> QED
    BY <1>2, <2>1 DEF Calm
<1> QED
  BY <1>1, <1>2

\* A migration is recorded when all those before it are.
LEMMA RecordingOrder ==
    ASSUME RunInv, OrderInv, NEW p \in Procs, OthersStay(p), UNCHANGED <<cut, overlap>>,
           op[p] \in {"migrate", "initSchema"}, recorded' = recorded \cup {Current(p)},
           op'[p] = "none" \/ (op'[p] = op[p] /\ k'[p] = k[p] + 1)
    PROVE  OrderInv'
<1>0. k[p] \in 1 .. N /\ Current(p) \in Ids
  BY CurrentIsId DEF RunInv
<1>1. \A q \in Procs \ {p} : op'[q] = op[q] /\ k'[q] = k[q]
  BY DEF OthersStay
<1>2. RollbacksAlone' <=> RollbacksAlone
  BY DEF RollbacksAlone
<1>3. RollbacksAlone => \A q \in Procs : op[q] \notin Rollbacks
  <2>1. SUFFICES ASSUME RollbacksAlone, NEW q \in Procs, op[q] \in Rollbacks
                 PROVE  FALSE
    OBVIOUS
  <2>2. p # q /\ op[p] # "none"
    BY <2>1 DEF Rollbacks
  <2> QED
    BY <2>1, <2>2, RollbackIsAlone
<1>4. LoopInv'
  <2>1. SUFFICES ASSUME RollbacksAlone, NEW q \in Procs, op'[q] # "none"
                 PROVE  /\ op'[q] \in {"migrate", "initSchema"} =>
                              \A x \in 1 .. N : x < k'[q] => GetMigrations[x] \in recorded'
                        /\ op'[q] \notin Rollbacks
    BY <1>2 DEF LoopInv, Rollbacks
  <2>2. op'[q] = op[q]
    BY <1>1, <2>1
  <2>3. op'[q] \in {"migrate", "initSchema"} =>
            \A x \in 1 .. N : x < k[q] => GetMigrations[x] \in recorded
    BY <2>1, <2>2 DEF OrderInv, LoopInv
  <2>4. CASE q # p
    BY <1>1, <1>3, <2>1, <2>2, <2>3, <2>4
  <2>5. CASE q = p
    <3>1. \A x \in 1 .. N : x < k'[p] => x < k[p] \/ x = k[p]
      BY <1>0, <2>1, <2>5, NIsNat
    <3> QED
      BY <1>3, <2>1, <2>2, <2>3, <2>5, <3>1 DEF Current
  <2> QED
    BY <2>4, <2>5
<1>5. RecordedIsPrefix'
  <2>1. SUFFICES ASSUME RollbacksAlone, ~cut, \A q \in Procs : op'[q] # "down",
                        NEW m \in recorded', NEW n \in Ids, n < m
                 PROVE  n \in recorded'
    BY <1>2 DEF RecordedIsPrefix, RollbacksAlone
  <2>2. CASE m \in recorded
    <3>1. \A q \in Procs : op[q] # "down"
      BY <1>3, <2>1 DEF Rollbacks
    <3> QED
      BY <2>1, <2>2, <3>1 DEF OrderInv, RecordedIsPrefix, RollbacksAlone
  <2>3. CASE m = Current(p)
    <3>1. PICK x \in 1 .. N : GetMigrations[x] = n
      BY ListFacts
    <3>2. x < k[p]
      BY <1>0, <2>1, <2>3, <3>1, ListFacts DEF Current
    <3> QED
      BY <2>1, <3>1, <3>2 DEF OrderInv, LoopInv
  <2> QED
    BY <2>2, <2>3
<1> QED
  BY <1>4, <1>5 DEF OrderInv

LEMMA InsertMigrationOrder ==
    ASSUME RunInv, OrderInv, NEW p \in Procs, InsertMigration(p)
    PROVE  OrderInv'
<1> USE DEF InsertMigration
<1>1. CASE recorded' = recorded \cup {Current(p)}
  BY <1>1, InsertStays, RecordingOrder
<1>2. CASE End(p) /\ UNCHANGED <<recorded, broken>>
  BY <1>2, EndQuiet, CalmOrder, InsertStays
<1> QED
  BY <1>1, <1>2

LEMMA RecordInitSchemaOrder ==
    ASSUME RunInv, OrderInv, NEW p \in Procs, RecordInitSchema(p)
    PROVE  OrderInv'
<1> USE DEF RecordInitSchema
<1>1. CASE recorded' = recorded \cup {Current(p)}
  BY <1>1, RecordStays, RecordingOrder
<1>2. CASE End(p) /\ UNCHANGED <<recorded, broken>>
  BY <1>2, EndQuiet, CalmOrder, RecordStays
<1> QED
  BY <1>1, <1>2

\* A rollback that was not cut short takes the last of the record, and `down`
\* has taken all of it when it ends.
LEMMA DeletingOrder ==
    ASSUME RunInv, OrderInv, NEW p \in Procs, OthersStay(p), UNCHANGED <<cut, overlap>>,
           op[p] \in Rollbacks, recorded' = recorded \ {Current(p)},
           \/ op'[p] = "none" /\ (op[p] = "down" => k[p] = N)
           \/ op'[p] = op[p] /\ op[p] = "rollbackTo" /\ k'[p] = k[p] - 1
           \/ op'[p] = op[p] /\ op[p] = "down" /\ k'[p] = k[p] + 1
    PROVE  OrderInv'
<1>0. k[p] \in 1 .. N /\ Current(p) \in Ids
  BY CurrentIsId DEF RunInv, Rollbacks
<1>1. RollbacksAlone' <=> RollbacksAlone
  BY DEF RollbacksAlone
<1>2. RollbacksAlone => \A q \in Procs \ {p} : op[q] = "none" /\ op'[q] = "none"
  BY RollbackIsAlone DEF OthersStay
<1>3. RollbacksAlone /\ ~cut /\ op[p] = "down" =>
          \A x \in 1 .. N : x < k[p] => GetMigrations[x] \notin recorded
  BY DEF OrderInv, LoopInv
<1>4. RollbacksAlone /\ ~cut /\ op[p] # "down" =>
          \A x \in 1 .. N : x > k[p] => GetMigrations[x] \notin recorded
  BY DEF OrderInv, LoopInv, Rollbacks
<1>5. LoopInv'
  <2>1. SUFFICES ASSUME RollbacksAlone, op'[p] # "none"
                 PROVE  /\ op'[p] \notin {"migrate", "initSchema"}
                        /\ ~cut /\ op'[p] = "down" =>
                              \A x \in 1 .. N : x < k'[p] => GetMigrations[x] \notin recorded'
                        /\ ~cut /\ op'[p] \in {"rollbackTo", "rollbackLast"} =>
                              \A x \in 1 .. N : x > k'[p] => GetMigrations[x] \notin recorded'
    BY <1>1, <1>2 DEF LoopInv
  <2>2. op'[p] = op[p] /\ op[p] \in {"rollbackTo", "down"}
    BY <2>1
  <2>3. CASE op[p] = "down"
    <3>1. \A x \in 1 .. N : x < k'[p] => x < k[p] \/ x = k[p]
      BY <1>0, <2>1, <2>3, NIsNat
    <3> QED
      BY <1>3, <2>1, <2>2, <2>3, <3>1 DEF Current
  <2>4. CASE op[p] = "rollbackTo"
    <3>1. \A x \in 1 .. N : x > k'[p] => x > k[p] \/ x = k[p]
      BY <1>0, <2>1, <2>4, NIsNat
    <3> QED
      BY <1>4, <2>1, <2>2, <2>4, <3>1 DEF Current
  <2> QED
    BY <2>2, <2>3, <2>4
<1>6. RecordedIsPrefix'
  <2>1. SUFFICES ASSUME RollbacksAlone, ~cut, op'[p] # "down",
                        NEW m \in recorded \ {Current(p)}, NEW n \in Ids, n < m
                 PROVE  n \in recorded /\ n # Current(p)
    BY <1>1 DEF RecordedIsPrefix, RollbacksAlone
  <2>2. PICK y \in 1 .. N : GetMigrations[y] = m
    BY ListFacts DEF RunInv, TypeOK
  <2>3. CASE op[p] = "down"
    <3>1. y < k[p] \/ y = k[p]
      BY <1>0, <2>1, <2>3, NIsNat
    <3> QED
      BY <1>3, <2>1, <2>2, <2>3, <3>1 DEF Current
  <2>4. CASE op[p] # "down"
    <3>1. \A q \in Procs : op[q] # "down"
      BY <1>2, <2>1, <2>4
    <3>2. n \in recorded
      BY <2>1, <3>1 DEF OrderInv, RecordedIsPrefix, RollbacksAlone
    <3>3. ASSUME n = Current(p)
          PROVE  FALSE
      <4>1. k[p] < y
        BY <1>0, <2>1, <2>2, <3>3, ListFacts DEF Current
      <4> QED
        BY <1>4, <2>1, <2>2, <2>4, <4>1
    <3> QED
      BY <3>2, <3>3
  <2> QED
    BY <2>3, <2>4
<1> QED
  BY <1>5, <1>6 DEF OrderInv

LEMMA DeleteMigrationOrder ==
    ASSUME RunInv, OrderInv, NEW p \in Procs, DeleteMigration(p)
    PROVE  OrderInv'
<1>1. CASE End(p) /\ CutDown(p) /\ UNCHANGED <<recorded, broken>>
  <2>1. (cut => cut') /\ (op[p] = "down" => cut')
    BY <1>1 DEF CutDown
  <2> QED
    BY <1>1, <2>1, DeleteStays, EndQuiet, CalmOrder
<1>2. CASE ~(End(p) /\ CutDown(p) /\ UNCHANGED <<recorded, broken>>)
  BY <1>2, DeleteStays, DeletingOrder
<1> QED
  BY <1>1, <1>2

-----------------------------------------------------------------------------
(* The migration that RollbackTo keeps                                      *)

\* A step of p, as far as a RollbackTo is concerned.
GoalStep(p) ==
    /\ OthersStay(p)
    /\ op'[p] = "rollbackTo" =>
          \/ k'[p] = N /\ goal'[p] \in Ids /\ pc'[p] = "loop"
          \/ /\ op[p] = "rollbackTo" /\ k'[p] = k[p] /\ goal'[p] = goal[p]
             /\ pc'[p] = "drop" => pc[p] = "drop" \/ Current(p) # goal[p]
          \/ /\ op[p] = "rollbackTo" /\ k'[p] = k[p] - 1 /\ goal'[p] = goal[p]
             /\ pc'[p] = "loop" /\ Current(p) # goal[p]

LEMMA GoalKept ==
    ASSUME RunInv, GoalInv, NEW p \in Procs, GoalStep(p)
    PROVE  GoalInv'
<1>1. SUFFICES ASSUME NEW q \in Procs, op'[q] = "rollbackTo"
               PROVE  /\ \E x \in 1 .. k'[q] : GetMigrations[x] = goal'[q]
                      /\ pc'[q] = "drop" => Current(q)' # goal'[q]
  BY DEF GoalInv
<1>2. CASE q # p
  BY <1>1, <1>2 DEF GoalStep, OthersStay, GoalInv, Current
<1>3. CASE q = p
  <2>1. CASE k'[p] = N /\ goal'[p] \in Ids /\ pc'[p] = "loop"
    BY <1>3, <2>1, ListFacts
  <2>2. CASE /\ op[p] = "rollbackTo" /\ k'[p] = k[p] /\ goal'[p] = goal[p]
             /\ pc'[p] = "drop" => pc[p] = "drop" \/ Current(p) # goal[p]
    BY <1>3, <2>2 DEF GoalInv, Current
  <2>3. CASE /\ op[p] = "rollbackTo" /\ k'[p] = k[p] - 1 /\ goal'[p] = goal[p]
             /\ pc'[p] = "loop" /\ Current(p) # goal[p]
    <3>1. PICK x \in 1 .. k[p] : GetMigrations[x] = goal[p]
      BY <2>3 DEF GoalInv
    <3>2. k[p] \in 1 .. N /\ x # k[p]
      BY <2>3, <3>1, CurrentIsId DEF RunInv, Current
    <3>3. x \in 1 .. k'[p]
      BY <2>3, <3>1, <3>2, NIsNat
    <3> QED
      BY <1>3, <2>3, <3>1, <3>3
  <2> QED
    BY <1>1, <1>3, <2>1, <2>2, <2>3 DEF GoalStep
<1> QED
  BY <1>2, <1>3

LEMMA BeginGoal ==
    ASSUME RunInv, NEW p \in Procs, BeginCommand(p)
    PROVE  GoalStep(p)
<1>1. OthersStay(p)
  BY BeginQuiet DEF Quiet
<1>2. ASSUME op'[p] = "rollbackTo"
      PROVE  k'[p] = N /\ goal'[p] \in Ids /\ pc'[p] = "loop"
  <2>1. PICK c \in Commands, id \in Ids \cup {0}, first \in {1, N} :
            /\ Begin(p, c, id, first)
            /\ c = "rollbackTo" => first = N /\ id \in Ids
    BY DEF BeginCommand, Commands, Rollbacks
  <2> QED
    BY <1>2, <2>1 DEF Begin, RunInv, TypeOK, Rollbacks
<1> QED
  BY <1>1, <1>2 DEF GoalStep

LEMMA EndGoal ==
    ASSUME RunInv, NEW p \in Procs, End(p)
    PROVE  GoalStep(p)
BY EndStays DEF GoalStep

\* RollbackTo goes on only past migrations other than its goal.
LEMMA FurtherGoal ==
    ASSUME RunInv, NEW p \in Procs, pc[p] \in {"loop", "up", "drop"}, Advance(p),
           op[p] = "rollbackTo" => Current(p) # goal[p]
    PROVE  GoalStep(p)
<1>1. CASE End(p)
  BY <1>1, EndGoal
<1>2. CASE Further(p)
  BY <1>2, FurtherStays DEF GoalStep, Further
<1> QED
  BY <1>1, <1>2, AdvanceCases

LEMMA RollbackGoal ==
    ASSUME RunInv, NEW p \in Procs, RollbackMigration(p),
           op[p] = "rollbackTo" => Current(p) # goal[p]
    PROVE  GoalStep(p)
<1>1. CASE End(p)
  BY <1>1, EndGoal
<1>2. CASE /\ pc' = [pc EXCEPT ![p] = "drop"]
           /\ j' = [j EXCEPT ![p] = 1]
           /\ UNCHANGED <<op, goal, k, cut>>
  BY <1>2 DEF RunInv, TypeOK, OthersStay, GoalStep
<1> QED
  BY <1>1, <1>2 DEF RollbackMigration

\* The commands other than RollbackTo do not become one.
LEMMA OtherGoal ==
    ASSUME RunInv, NEW p \in Procs, OthersStay(p), op[p] # "rollbackTo",
           op'[p] \in {op[p], "none", "migrate"}
    PROVE  GoalStep(p)
BY DEF GoalStep

LEMMA StepGoal ==
    ASSUME RunInv, GoalInv, NEW p \in Procs, Step(p)
    PROVE  GoalStep(p)
<1>1. CASE CreateMigrationTableIfNotExists(p)
  <2>1. OthersStay(p) /\ op[p] \in {"migrate", "initSchema"}
    BY <1>1, CreateMigrationTableQuiet
       DEF Quiet, CreateMigrationTableIfNotExists, RunInv, ControlInv
  <2>2. op' = op \/ End(p)
    BY <1>1 DEF CreateMigrationTableIfNotExists
  <2> QED
    BY <2>1, <2>2, EndGoal, OtherGoal
<1>2. CASE InitSchemaOrMigrate(p)
  <2>1. OthersStay(p) /\ op[p] = "initSchema"
    BY <1>2, InitSchemaOrMigrateQuiet DEF Quiet, InitSchemaOrMigrate, RunInv, ControlInv
  <2>2. op' = op \/ op' = [op EXCEPT ![p] = "migrate"]
    BY <1>2 DEF InitSchemaOrMigrate
  <2>3. op'[p] \in {op[p], "migrate"}
    BY ONLY <2>2, RunInv, p \in Procs DEF RunInv, TypeOK
  <2> QED
    BY <2>1, <2>3, OtherGoal
<1>3. CASE RunInitSchema(p)
  <2>1. OthersStay(p) /\ op[p] = "initSchema"
    BY <1>3, RunInitSchemaCalm DEF Calm, RunInitSchema, RunInv, ControlInv
  <2>2. op' = op \/ End(p)
    BY <1>3 DEF RunInitSchema
  <2> QED
    BY <2>1, <2>2, EndGoal, OtherGoal
<1>4. CASE RecordInitSchema(p)
  BY <1>4, RecordStays, OtherGoal
<1>5. CASE RunMigration(p)
  <2>1. CASE Advance(p)
    BY <1>5, <2>1, FurtherGoal DEF RunMigration
  <2>2. CASE UNCHANGED op
    BY <1>5, <2>2, RunMigrationQuiet, OtherGoal DEF Quiet, RunMigration
  <2> QED
    BY <1>5, <2>1, <2>2 DEF RunMigration
<1>6. CASE RollbackToLoop(p)
  BY <1>6, EndGoal, RollbackGoal, FurtherGoal DEF RollbackToLoop
<1>7. CASE GetLastRunnedMigration(p)
  <2>1. OthersStay(p)
    BY <1>7, GetLastRunnedMigrationQuiet DEF Quiet
  <2>2. op' = op \/ End(p)
    BY <1>7 DEF GetLastRunnedMigration, RollbackMigration
  <2> QED
    BY <1>7, <2>1, <2>2, EndGoal, OtherGoal DEF GetLastRunnedMigration
<1>8. CASE DownLoop(p)
  BY <1>8, RollbackGoal DEF DownLoop
<1>9. CASE CreateTable(p) \/ DropTable(p)
  BY <1>9, CreateTableCalm DEF Calm, GoalStep, CreateTable, DropTable
<1>10. CASE InsertMigration(p)
  BY <1>10, InsertStays, OtherGoal
<1>11. CASE DeleteMigration(p)
  BY <1>11, EndGoal, FurtherGoal DEF DeleteMigration, GoalInv
<1> QED
  BY <1>1, <1>2, <1>3, <1>4, <1>5, <1>6, <1>7, <1>8, <1>9, <1>10, <1>11 DEF Step

-----------------------------------------------------------------------------
(* The theorems                                                             *)

LEMMA BeginCommandRun ==
    ASSUME RunInv, N > 0, NEW p \in Procs, BeginCommand(p)
    PROVE  RunInv'
<1>1. PICK c \in Commands, id \in Ids \cup {0}, first \in {1, N} : Begin(p, c, id, first)
  BY DEF BeginCommand, Commands, Rollbacks
<1>2. first \in 1 .. N
  BY NIsNat
<1> QED
  BY <1>1, <1>2, BeginRun

LEMMA NextRunInv ==
    ASSUME RunInv, [Next]_vars
    PROVE  RunInv'
<1>1. CASE UNCHANGED vars
  BY <1>1 DEF vars, database, process, history, RunInv, TypeOK, ControlInv, OverlapInv
<1>2. CASE Next
  <2>1. PICK p \in Procs : (N > 0 /\ BeginCommand(p)) \/ Step(p) \/ Crash(p)
    BY <1>2, NextCases
  <2> QED
    BY <2>1, BeginCommandRun, CrashRun, CreateMigrationTableRun, InitSchemaOrMigrateRun,
       RunInitSchemaRun, RecordInitSchemaRun, RunMigrationRun, RollbackToLoopRun,
       GetLastRunnedMigrationRun, DownLoopRun, CreateTableRun, InsertMigrationRun,
       DropTableRun, DeleteMigrationRun DEF Step
<1> QED
  BY <1>1, <1>2

LEMMA NextTablesInv ==
    ASSUME RunInv, TablesInv, [Next]_vars
    PROVE  TablesInv'
<1>1. CASE UNCHANGED vars
  BY <1>1 DEF vars, database, process, history, TablesInv, UpInv, RecordedHasTables,
              RollbacksAlone, Current
<1>2. CASE Next
  <2>1. PICK p \in Procs : (N > 0 /\ BeginCommand(p)) \/ Step(p) \/ Crash(p)
    BY <1>2, NextCases
  <2> QED
    BY <2>1, QuietTables, BeginQuiet, CrashQuiet, CreateMigrationTableQuiet,
       InitSchemaOrMigrateQuiet, RunMigrationQuiet, RollbackToLoopQuiet,
       GetLastRunnedMigrationQuiet, DownLoopQuiet, RunInitSchemaTables, RecordInitSchemaTables,
       CreateTableTables, InsertMigrationTables, DropTableTables, DeleteMigrationTables DEF Step
<1> QED
  BY <1>1, <1>2

LEMMA NextOrderInv ==
    ASSUME RunInv, OrderInv, [Next]_vars
    PROVE  OrderInv'
<1>1. CASE UNCHANGED vars
  BY <1>1 DEF vars, database, process, history, OrderInv, LoopInv, RecordedIsPrefix,
              RollbacksAlone
<1>2. CASE Next
  <2>1. PICK p \in Procs : (N > 0 /\ BeginCommand(p)) \/ Step(p) \/ Crash(p)
    BY <1>2, NextCases
  <2> QED
    BY <2>1, CalmOrder, BeginQuiet, CrashQuiet, CreateMigrationTableQuiet,
       InitSchemaOrMigrateQuiet, RunMigrationQuiet, RollbackToLoopQuiet,
       GetLastRunnedMigrationQuiet, DownLoopQuiet, RunInitSchemaCalm, CreateTableCalm,
       RecordInitSchemaOrder, InsertMigrationOrder, DeleteMigrationOrder DEF Step
<1> QED
  BY <1>1, <1>2

LEMMA NextGoalInv ==
    ASSUME RunInv, GoalInv, [Next]_vars
    PROVE  GoalInv'
<1>1. CASE UNCHANGED vars
  BY <1>1 DEF vars, database, process, history, GoalInv, Current
<1>2. CASE Next
  <2>1. PICK p \in Procs : (N > 0 /\ BeginCommand(p)) \/ Step(p) \/ Crash(p)
    BY <1>2, NextCases
  <2> QED
    BY <2>1, GoalKept, BeginGoal, EndGoal, StepGoal DEF Crash
<1> QED
  BY <1>1, <1>2

\* Variables keep their types, and the loop of every command its place in the
\* list of migrations (gormmigrate.go, cmd/migration.go).
THEOREM MigrationTypes == Spec => []TypeOK
<1>1. RunInv => TypeOK
  BY DEF RunInv
<1> QED
  BY <1>1, InitRunInv, NextRunInv, PTL DEF Spec

\* A recorded migration has its tables, whatever was killed, whatever statement
\* failed and however many `up` ran at once (runMigration and rollbackMigration
\* of gormmigrate.go without transactions): Up creates every table before the
\* INSERT, and a rollback that runs alone leaves the tables of the others.
THEOREM RecordIsTrue == Spec => []RecordedHasTables
<1>1. Init => TablesInv
  BY DEF Init, TablesInv, UpInv, RecordedHasTables
<1>2. TablesInv => RecordedHasTables
  BY DEF TablesInv
<1> QED
  BY <1>1, <1>2, InitRunInv, NextRunInv, NextTablesInv, PTL DEF Spec

\* The recorded migrations are a prefix of the sorted list (addMigration, the
\* loops of MigrateTo, RollbackTo, RollbackLast and of `migration down`), for the
\* overlaps and early ends that RecordedIsPrefix excepts.
THEOREM RecordIsPrefix == Spec => []RecordedIsPrefix
<1>1. Init => OrderInv
  BY DEF Init, OrderInv, LoopInv, RecordedIsPrefix
<1>2. OrderInv => RecordedIsPrefix
  BY DEF OrderInv
<1> QED
  BY <1>1, <1>2, InitRunInv, NextRunInv, NextOrderInv, PTL DEF Spec

\* The step behind RollbackKeepsTheEarlier.
LEMMA OnlyDeleteShrinks ==
    ASSUME RunInv, [Next]_vars, ~(recorded \subseteq recorded')
    PROVE  \E p \in Procs : DeleteMigration(p) /\ recorded' = recorded \ {Current(p)}
<1>1. Next
  BY DEF vars, database
<1>2. PICK p \in Procs : (N > 0 /\ BeginCommand(p)) \/ Step(p) \/ Crash(p)
  BY <1>1, NextCases
<1>3. ~Calm(p)
  BY DEF Calm
<1>4. DeleteMigration(p)
  <2>1. ~RecordInitSchema(p) /\ ~InsertMigration(p)
    BY DEF RecordInitSchema, InsertMigration
  <2> QED
    BY <1>2, <1>3, <2>1, BeginQuiet, CrashQuiet, CreateMigrationTableQuiet,
       InitSchemaOrMigrateQuiet, RunMigrationQuiet, RollbackToLoopQuiet,
       GetLastRunnedMigrationQuiet, DownLoopQuiet, RunInitSchemaCalm, CreateTableCalm DEF Step
<1> QED
  BY <1>4 DEF DeleteMigration

LEMMA DeletesTheLatest ==
    ASSUME RunInv, OrderInv, GoalInv, [Next]_vars
    PROVE  \A p \in Procs, m \in recorded \ recorded' :
               overlap = {} /\ op[p] # "none" =>
                   /\ op[p] = "rollbackTo" => m > goal[p]
                   /\ op[p] = "rollbackLast" => cut \/ \A n \in recorded : n <= m
<1>1. SUFFICES ASSUME NEW p \in Procs, NEW m \in recorded \ recorded', overlap = {}, op[p] # "none"
               PROVE  /\ op[p] = "rollbackTo" => m > goal[p]
                      /\ op[p] = "rollbackLast" => cut \/ \A n \in recorded : n <= m
  OBVIOUS
<1>2. PICK q \in Procs : DeleteMigration(q) /\ recorded' = recorded \ {Current(q)}
  BY <1>1, OnlyDeleteShrinks
<1>3. m = Current(q) /\ m \in Ids /\ pc[q] = "drop" /\ op[q] # "none"
  BY <1>1, <1>2 DEF DeleteMigration, RunInv, TypeOK, ControlInv
<1>4. p = q
  BY <1>1, <1>3 DEF RunInv, OverlapInv
<1>5. k[p] \in 1 .. N /\ m = GetMigrations[k[p]] /\ m \in Nat
  BY <1>1, <1>3, <1>4, CurrentIsId, ListFacts DEF RunInv, Current
<1>6. ASSUME op[p] = "rollbackTo"
      PROVE  m > goal[p]
  <2>1. m # goal[p]
    BY <1>3, <1>4, <1>6 DEF GoalInv
  <2>2. PICK x \in 1 .. k[p] : GetMigrations[x] = goal[p]
    BY <1>6 DEF GoalInv
  <2>3. x \in 1 .. N /\ x < k[p]
    BY <1>5, <2>1, <2>2, NIsNat
  <2>4. GetMigrations[x] <= GetMigrations[k[p]] /\ GetMigrations[x] \in Nat
    BY <1>5, <2>3, ListFacts
  <2> QED
    BY <1>5, <2>1, <2>2, <2>4
<1>7. ASSUME op[p] = "rollbackLast", ~cut, NEW n \in recorded
      PROVE  n <= m
  <2>1. n \in Ids
    BY DEF RunInv, TypeOK
  <2>2. PICK y \in 1 .. N : GetMigrations[y] = n
    BY <2>1, ListFacts
  <2>3. ~(y > k[p])
    BY <1>1, <1>7, <2>2 DEF OrderInv, LoopInv, RollbacksAlone
  <2>4. y = k[p] \/ y < k[p]
    BY <1>5, <2>3, NIsNat
  <2> QED
    BY <1>5, <2>1, <2>2, <2>4, ListFacts
<1> QED
  BY <1>6, <1>7

\* RollbackTo keeps the migration it is given and the earlier ones, and
\* RollbackLast removes the last one only, when they run alone.
THEOREM RollbackKeeps == Spec => RollbackKeepsTheEarlier
<1>1. Init => OrderInv /\ GoalInv
  BY DEF Init, OrderInv, LoopInv, RecordedIsPrefix, GoalInv
<1>2. RunInv /\ OrderInv /\ GoalInv /\ [Next]_vars =>
          [\A p \in Procs, m \in recorded \ recorded' :
              overlap = {} /\ op[p] # "none" =>
                  /\ op[p] = "rollbackTo" => m > goal[p]
                  /\ op[p] = "rollbackLast" => cut \/ \A n \in recorded : n <= m]_vars
  BY DeletesTheLatest
<1> QED
  BY <1>1, <1>2, InitRunInv, NextRunInv, NextOrderInv, NextGoalInv, PTL
     DEF Spec, RollbackKeepsTheEarlier
==============================================================================
