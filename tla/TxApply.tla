------------------------------ MODULE TxApply -------------------------------
(***************************************************************************)
(* The application of one transaction to the balance tree: the contract    *)
(* computes the two new states (Bazooka.ApplyTx, core/bazooka.go) and      *)
(* Tx.Apply (core/tx.go) writes them in one database transaction.          *)
(*                                                                         *)
(* At this commit the callers (Syncer.ApplyTxsFromBatch and                *)
(* Aggregator.ProcessTx) are commented out; the model is of the exported   *)
(* operations, called by one goroutine that may take any transaction again *)
(* whatever became of the previous call.  The tree above the leaves is     *)
(* module StateTree; inside a database transaction an UpdateState is one   *)
(* step.                                                                   *)
(***************************************************************************)
EXTENDS Integers, FiniteSets, Functions

CONSTANTS
    Txs,         \* the rows of the table txes
    Details,     \* their columns from, to and type; amount, fee and nonce in data
    InitStates,  \* the leaves: <<>> when empty, else <<balance, nonce>>
    MaxCalls,    \* bound: transactions taken
    MaxFaults,   \* bound: failing calls, statements and panics
    MaxCrashes   \* bound: crashes of the process

Index == DOMAIN InitStates

ASSUME TxApplyAssumption ==
    /\ IsFiniteSet(Txs) /\ Txs # {} /\ IsFiniteSet(Index)
    /\ \A t \in Txs : /\ Details[t].amount \in Nat /\ Details[t].fee \in Nat
                       /\ Details[t].nonce \in Nat
    /\ \A k \in Index : InitStates[k] = <<>> \/ InitStates[k] \in Nat \X Nat
    /\ MaxCalls \in Nat /\ MaxFaults \in Nat /\ MaxCrashes \in Nat

VARIABLES
    rows,       \* columns data and hash of the leaves
    open,       \* the same rows as the open transaction sees them
    status,     \* column status of txes
    pc,         \* what the caller does next
    cur,        \* the transaction it has taken
    read,       \* the states it read for ApplyTx
    updated,    \* updatedFrom and updatedTo, and whether the contract accepted
    written,    \* history: how often Tx.Apply committed for the transaction
    applied,    \* history: how often it committed an accepted one
    blanked,    \* history: leaves whose hash a mass migration overwrote
    calls, faults, crashes

caller == <<pc, cur, read, updated>>
history == <<written, applied, blanked>>
vars == <<rows, open, status, caller, history, calls, faults, crashes>>

\* Mutant: CreateAccountHash is not called.
KeepHash(row, d) == IF d = <<>> THEN row ELSE [row EXCEPT !.data = d]

\* UpdateState on a leaf: the hash is that of the new data; gorm skips the
\* data column when the data is empty.
UpdateState(row, d) ==
    [data |-> IF d = <<>> THEN row.data ELSE d, hash |-> <<d>>]

Init ==
    /\ rows = [k \in Index |-> [data |-> InitStates[k], hash |-> <<InitStates[k]>>]]
    /\ open = rows
    /\ status = [t \in Txs |-> "processing"]
    /\ pc = "idle"
    /\ cur = CHOOSE t \in Txs : TRUE
    /\ read = [sender |-> <<>>, receiver |-> <<>>]
    /\ updated = [sender |-> <<>>, receiver |-> <<>>, ok |-> FALSE]
    /\ written = [t \in Txs |-> 0]
    /\ applied = [t \in Txs |-> 0]
    /\ blanked = {}
    /\ calls = 0 /\ faults = 0 /\ crashes = 0

Fault == faults < MaxFaults /\ faults' = faults + 1

NoFault == UNCHANGED faults

-----------------------------------------------------------------------------
(* The contract: what the frontend returns for a sender, a receiver and a   *)
(* transaction.                                                             *)

\* The sender pays the fee of a transaction too, and the receiver does not get
\* it: in the rollup it goes to the receiver a batch names for its fees, which
\* no operation of this repository credits.
Cost(tx) == tx.amount + tx.fee

Valid(sender, tx) == sender[1] >= Cost(tx) /\ sender[2] = tx.nonce

Debit(sender, tx) == <<sender[1] - Cost(tx), sender[2] + 1>>

ValidateAndApplyTransfer(sender, receiver, tx) ==
    [newSender |-> Debit(sender, tx),
     newReceiver |-> <<receiver[1] + tx.amount, receiver[2]>>,
     result |-> IF Valid(sender, tx) THEN 0 ELSE 1]

ValidateAndApplyCreate2Transfer(sender, tx) ==
    [newSender |-> Debit(sender, tx),
     newReceiver |-> <<tx.amount, 0>>,
     result |-> IF Valid(sender, tx) THEN 0 ELSE 1]

ValidateAndApplyMassMigration(sender, tx) ==
    [newSender |-> Debit(sender, tx),
     result |-> IF Valid(sender, tx) THEN 0 ELSE 1]

\* The contract reverts when it cannot decode a state it was given.
Reverts(sender, receiver, tx) ==
    sender = <<>> \/ (tx.type = "transfer" /\ receiver = <<>>)

-----------------------------------------------------------------------------
(* Bazooka.ApplyTx                                                          *)

Unchanged(sender, receiver) == [sender |-> sender, receiver |-> receiver, ok |-> FALSE]

\* A result other than zero is no error: the states come back as they were.
applyTransferTx(sender, receiver, tx) ==
    LET u == ValidateAndApplyTransfer(sender, receiver, tx) IN
    IF u.result # 0 THEN Unchanged(sender, receiver)
    ELSE [sender |-> u.newSender, receiver |-> u.newReceiver, ok |-> TRUE]

applyCreate2TransferTx(sender, receiver, tx) ==
    LET u == ValidateAndApplyCreate2Transfer(sender, tx) IN
    IF u.result # 0 THEN Unchanged(sender, receiver)
    ELSE [sender |-> u.newSender, receiver |-> u.newReceiver, ok |-> TRUE]

\* updatedReceiver is never assigned on success.
applyMassMigrationTx(sender, receiver, tx) ==
    LET u == ValidateAndApplyMassMigration(sender, tx) IN
    IF u.result # 0 THEN Unchanged(sender, receiver)
    ELSE [sender |-> u.newSender, receiver |-> <<>>, ok |-> TRUE]

ApplyByType(sender, receiver, tx) ==
    CASE tx.type = "transfer" -> applyTransferTx(sender, receiver, tx)
      [] tx.type = "create2transfer" -> applyCreate2TransferTx(sender, receiver, tx)
      [] tx.type = "massmigration" -> applyMassMigrationTx(sender, receiver, tx)

KnownType(tx) == tx.type \in {"transfer", "create2transfer", "massmigration"}

-----------------------------------------------------------------------------
(* The caller takes a transaction and reads the states it names.            *)

\* The data of a leaf; without a row, GetStateByIndex returns an error and an
\* empty state.
GetStateByIndex(k) == IF k \in Index THEN rows[k].data ELSE <<>>

\* That the receiver of a create2transfer is an empty leaf is up to the caller.
ReadStates(t) ==
    LET tx == Details[t] IN
    /\ pc = "idle"
    /\ calls < MaxCalls /\ calls' = calls + 1
    /\ cur' = t
    /\ read' = [sender |-> GetStateByIndex(tx.from), receiver |-> GetStateByIndex(tx.to)]
    /\ tx.type = "create2transfer" => read'.receiver = <<>>
    /\ pc' = "call"
    /\ UNCHANGED <<rows, open, status, updated, history, faults, crashes>>

ApplyTx ==
    LET tx == Details[cur] IN
    /\ pc = "call"
    /\ KnownType(tx) /\ ~Reverts(read.sender, read.receiver, tx)
    /\ updated' = ApplyByType(read.sender, read.receiver, tx)
    /\ pc' = "from"
    /\ UNCHANGED <<rows, open, status, cur, read, history, calls, faults, crashes>>

\* An unknown type, a revert or a call that fails: Tx.Apply is not called.
ApplyTxFails ==
    LET tx == Details[cur] IN
    /\ pc = "call"
    /\ \/ (~KnownType(tx) \/ Reverts(read.sender, read.receiver, tx)) /\ NoFault
       \/ Fault
    /\ pc' = "idle"
    /\ UNCHANGED <<rows, open, status, cur, read, updated, history, calls, crashes>>

-----------------------------------------------------------------------------
(* Tx.Apply                                                                 *)

\* Mutant: the status is set before the states are written.
StatusFirst ==
    /\ pc = "from"
    /\ open' = [rows EXCEPT ![Details[cur].from] = UpdateState(@, updated.sender)]
    /\ status' = [status EXCEPT ![cur] = "processed"]
    /\ pc' = "to"
    /\ UNCHANGED <<rows, cur, read, updated, history, calls, faults, crashes>>

\* Mutant: the state of the sender is written back as it was read.
KeepSender ==
    /\ pc = "from"
    /\ open' = [rows EXCEPT ![Details[cur].from] = UpdateState(@, @.data)]
    /\ pc' = "to"
    /\ UNCHANGED <<rows, status, cur, read, updated, history, calls, faults, crashes>>

\* BEGIN, the state of the sender read and updated in the transaction.
UpdateFrom ==
    /\ pc = "from"
    /\ open' = [rows EXCEPT ![Details[cur].from] = UpdateState(@, updated.sender)]
    /\ pc' = "to"
    /\ UNCHANGED <<rows, status, cur, read, updated, history, calls, faults, crashes>>

\* Mutant: the receiver is updated through DBInstance, outside the transaction.
UpdateToOutside ==
    LET to == Details[cur].to
        row == UpdateState(open[to], updated.receiver) IN
    /\ pc = "to"
    /\ to \in Index
    /\ rows' = [rows EXCEPT ![to] = row]
    /\ open' = [open EXCEPT ![to] = row]
    /\ pc' = "status"
    /\ UNCHANGED <<status, cur, read, updated, history, calls, faults, crashes>>

\* The row of the receiver is read outside the transaction, for its path only.
\* In a transaction to oneself this write replaces the one before it.
UpdateTo ==
    LET to == Details[cur].to IN
    /\ pc = "to"
    /\ to \in Index
    /\ open' = [open EXCEPT ![to] = UpdateState(@, updated.receiver)]
    /\ pc' = "status"
    /\ UNCHANGED <<rows, status, cur, read, updated, history, calls, faults, crashes>>

\* An error of a statement, a receiver without a row, or a panic, which the
\* deferred function recovers: ROLLBACK.  (Apply then returns the error, or
\* nil after a panic, its result being unnamed.)
Rollback ==
    /\ pc \in {"from", "to"}
    /\ \/ pc = "to" /\ Details[cur].to \notin Index /\ NoFault
       \/ Fault
    /\ pc' = "idle"
    /\ open' = rows
    /\ UNCHANGED <<rows, status, cur, read, updated, history, calls, crashes>>

\* Through DBInstance, outside the transaction; its error is ignored.
UpdateStatus ==
    /\ pc = "status"
    /\ \/ status' = [status EXCEPT ![cur] = "processed"] /\ NoFault
       \/ UNCHANGED status /\ Fault
    /\ pc' = "commit"
    /\ UNCHANGED <<rows, open, cur, read, updated, history, calls, crashes>>

Inc(f, t) == [f EXCEPT ![t] = @ + 1]

\* The leaf whose hash the empty state of a migration's receiver replaced.
Blanked(tx) == IF tx.type = "massmigration" /\ updated.ok THEN {tx.to} ELSE {}

Committed ==
    LET tx == Details[cur] IN
    /\ rows' = open
    /\ written' = Inc(written, cur)
    /\ applied' = IF updated.ok THEN Inc(applied, cur) ELSE applied
    /\ blanked' = (blanked \ {tx.from, tx.to}) \cup Blanked(tx)

\* The error of COMMIT is ignored; it may have been executed or not.
Commit ==
    /\ pc = "commit"
    /\ \/ Committed /\ NoFault /\ UNCHANGED open
       \/ Committed /\ Fault /\ UNCHANGED open
       \/ Fault /\ open' = rows /\ UNCHANGED <<rows, history>>
    /\ pc' = "idle"
    /\ UNCHANGED <<status, cur, read, updated, calls, crashes>>

\* The process dies and starts again; MySQL rolls its transaction back.
Crash ==
    /\ pc # "idle"
    /\ crashes < MaxCrashes /\ crashes' = crashes + 1
    /\ pc' = "idle"
    /\ open' = rows
    /\ UNCHANGED <<rows, status, cur, read, updated, history, calls, faults>>

Next ==
    \/ \E t \in Txs : ReadStates(t)
    \/ ApplyTx \/ ApplyTxFails
    \/ UpdateFrom \/ UpdateTo \/ Rollback \/ UpdateStatus \/ Commit
    \/ Crash

Spec == Init /\ [][Next]_vars

-----------------------------------------------------------------------------
(* Properties                                                               *)

Balance(d) == IF d = <<>> THEN 0 ELSE d[1]

Supply(data) == SumFunction([k \in Index |-> Balance(data[k])])

ToSelf(t) == Details[t].from = Details[t].to

\* What one application of a transaction adds to the supply.
Change(t) ==
    CASE Details[t].type = "massmigration" -> -Cost(Details[t])
      [] Details[t].type # "massmigration" /\ ToSelf(t) -> Details[t].amount
      [] OTHER -> -Details[t].fee

Effect(t) == applied[t] * Change(t)

\* The balances in the table add up to those of the genesis, less the fees and
\* what mass migrations took away, whatever statement of Tx.Apply failed and
\* wherever the process died: a debit and its credit are visible together or
\* not at all.  A transfer to oneself costs nothing and adds its amount,
\* because Apply writes the two states the contract computed from the same
\* leaf one over the other.
Conserved ==
    Supply([k \in Index |-> rows[k].data]) =
        Supply(InitStates) + SumFunction([t \in Txs |-> Effect(t)])

\* A transaction takes effect at most once, although the caller may take it
\* again after an error, a lost COMMIT or a crash: the nonce of the sender is
\* written together with its balance.  (A transfer to oneself keeps the nonce.)
AppliedAtMostOnce == \A t \in Txs : applied[t] <= 1 \/ ToSelf(t)

\* The status, set outside the transaction and before its COMMIT, says what
\* the tables say once Apply has returned, as long as nothing failed: also
\* after the early returns of ApplyTx and of Apply.
StatusFollowsRows ==
    (faults = 0 /\ crashes = 0 /\ pc # "commit") =>
        \A t \in Txs : status[t] = "processed" <=> written[t] > 0

\* The leaf rows carry the hash of their data, so that the root that is
\* computed from the hashes is the root of the balances, except the receiver
\* of a mass migration until it is next written: applyMassMigrationTx returns
\* no state for it, and gorm then writes the hash and skips the data.
RowsHashTheirData ==
    \A k \in Index \ blanked : rows[k].hash = <<rows[k].data>>
=============================================================================
