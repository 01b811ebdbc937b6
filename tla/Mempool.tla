------------------------------- MODULE Mempool -------------------------------
(***************************************************************************)
(* The transaction pool: the table txes (core/tx.go), filled by the REST   *)
(* handler (rest/api.go) and emptied by the aggregator, whose pickBatch    *)
(* goroutines (aggregator/aggregator.go) pop the oldest pending            *)
(* transactions and mark them as processing.                               *)
(*                                                                         *)
(* PopTxs does its work in a database transaction, but ignores the error   *)
(* of the UPDATE, returns the popped transactions together with the error  *)
(* of the COMMIT, and on an error of FetchTxType returns without ending    *)
(* the transaction, which keeps the locks of the rows it updated.          *)
(***************************************************************************)
EXTENDS Integers, FiniteSets

CONSTANTS
    Txs,            \* the transactions users may send
    Unreadable,     \* those whose request body is not the JSON of a TxReceiver
    Workers,        \* the pickBatch goroutines the aggregator may start
    TxsPerBatch,    \* config: how many transactions PopTxs takes
    MaxClock,       \* bound: seconds, the precision of created_at
    MaxFaults,      \* bound: failing statements
    MaxCrashes      \* bound: crashes of the process

ASSUME MempoolAssumption ==
    /\ IsFiniteSet(Txs) /\ Unreadable \subseteq Txs
    /\ TxsPerBatch \in Nat \ {0}
    /\ MaxClock \in Nat /\ MaxFaults \in Nat /\ MaxCrashes \in Nat

VARIABLES
    clock,
    created,    \* column created_at
    status,     \* column status; "none" and "receiving" before the INSERT
    answer,     \* the last response to the request: 200 or 400
    leaked,     \* rows locked by transactions PopTxs never ended
    pc,         \* what each pickBatch goroutine does next
    txType,     \* FALSE: FetchTxType failed in this call of PopTxs
    popped,     \* pendingTxs
    updated,    \* the rows the UPDATE of the open transaction changed
    handed,     \* history: how often ProcessAndSubmitBatch got the transaction
    faults, crashes

table == <<created, status, answer, leaked>>
workers == <<pc, txType, popped, updated>>
vars == <<clock, table, workers, handed, faults, crashes>>

Init ==
    /\ clock = 0
    /\ created = [t \in Txs |-> 0]
    /\ status = [t \in Txs |-> "none"]
    /\ answer = [t \in Txs |-> "none"]
    /\ leaked = {}
    /\ pc = [w \in Workers |-> "done"]
    /\ txType = [w \in Workers |-> TRUE]
    /\ popped = [w \in Workers |-> {}]
    /\ updated = [w \in Workers |-> {}]
    /\ handed = [t \in Txs |-> 0]
    /\ faults = 0
    /\ crashes = 0

Fault == faults < MaxFaults /\ faults' = faults + 1

NoFault == UNCHANGED faults

Tick ==
    /\ clock < MaxClock
    /\ clock' = clock + 1
    /\ UNCHANGED <<table, workers, handed, faults, crashes>>

-----------------------------------------------------------------------------
(* TxReceiverHandler                                                        *)

ReadRESTReq(t) == t \notin Unreadable

\* The header of the first response counts: an error already written stays.
WriteErrorResponse(t) == [answer EXCEPT ![t] = "error"]

\* The row of the transaction: its fields are those of the request, or empty
\* when it could not be read, its status is TX_STATUS_PENDING.
NewPendingTx(t) == [status EXCEPT ![t] = "pending"]

\* After the error response to an unreadable request the handler goes on.
\* gorm takes the time before the INSERT is executed, so that transactions
\* may become visible in another order than that of created_at.
TxReceiverHandler(t) ==
    /\ status[t] = "none"
    /\ answer' = IF ReadRESTReq(t) THEN answer ELSE WriteErrorResponse(t)
    /\ status' = [status EXCEPT ![t] = "receiving"]
    /\ created' = [created EXCEPT ![t] = clock]
    /\ UNCHANGED <<clock, leaked, workers, handed, faults, crashes>>

\* Mutant: the error of the INSERT is not looked at.
InsertTxUnchecked(t) ==
    /\ status[t] = "receiving"
    /\ \/ status' = NewPendingTx(t) /\ NoFault
       \/ status' = [status EXCEPT ![t] = "none"] /\ Fault
    /\ answer' = IF ReadRESTReq(t) THEN [answer EXCEPT ![t] = "ok"] ELSE answer
    /\ UNCHANGED <<clock, created, leaked, workers, handed, crashes>>

\* The INSERT and the response.  An INSERT that fails may have been executed.
InsertTx(t) ==
    /\ status[t] = "receiving"
    /\ \/ /\ status' = NewPendingTx(t)
          /\ answer' = IF ReadRESTReq(t) THEN [answer EXCEPT ![t] = "ok"] ELSE answer
          /\ NoFault
       \/ /\ status' \in {[status EXCEPT ![t] = "none"], NewPendingTx(t)}
          /\ answer' = WriteErrorResponse(t)
          /\ Fault
    /\ UNCHANGED <<clock, created, leaked, workers, handed, crashes>>

-----------------------------------------------------------------------------
(* startAggregating and PopTxs                                              *)

\* Mutant: wg.Wait is forgotten.
PickBatchAtOnce(w) ==
    /\ pc[w] = "done"
    /\ pc' = [pc EXCEPT ![w] = "type"]
    /\ UNCHANGED <<clock, table, txType, popped, updated, handed, faults, crashes>>

\* wg.Wait: the goroutine of the previous tick has finished.
PickBatch(w) ==
    /\ \A v \in Workers : pc[v] = "done"
    /\ pc' = [pc EXCEPT ![w] = "type"]
    /\ UNCHANGED <<clock, table, txType, popped, updated, handed, faults, crashes>>

\* The outcome matters only by its error, which is kept and not looked at: all
\* the transactions in the pool have the type of a transfer.
FetchTxType(w) ==
    /\ pc[w] = "type"
    /\ pc' = [pc EXCEPT ![w] = "select"]
    /\ \/ txType' = [txType EXCEPT ![w] = TRUE] /\ NoFault
       \/ txType' = [txType EXCEPT ![w] = FALSE] /\ Fault
    /\ UNCHANGED <<clock, table, popped, updated, handed, crashes>>

Pending == {t \in Txs : status[t] = "pending"}

\* LIMIT TxsPerBatch ORDER BY created_at; rows of the same second come in any
\* order.
Oldest(S) ==
    /\ S \subseteq Pending
    /\ \/ Cardinality(S) = TxsPerBatch
       \/ Cardinality(S) < TxsPerBatch /\ S = Pending
    /\ \A t \in S, u \in Pending \ S : created[t] <= created[u]

SelectTxs(w) ==
    /\ pc[w] = "select"
    /\ \E S \in SUBSET Pending :
          Oldest(S) /\ popped' = [popped EXCEPT ![w] = S]
    /\ pc' = [pc EXCEPT ![w] = "update"]
    /\ UNCHANGED <<clock, table, txType, updated, handed, faults, crashes>>

\* BEGIN or SELECT fails: PopTxs returns no transactions.
SelectFails(w) ==
    /\ pc[w] = "select"
    /\ Fault
    /\ popped' = [popped EXCEPT ![w] = {}]
    /\ pc' = [pc EXCEPT ![w] = "process"]
    /\ UNCHANGED <<clock, table, txType, updated, handed, crashes>>

\* Rows another transaction has updated and not yet ended.
LockedFor(w) == leaked \cup UNION {updated[v] : v \in Workers \ {w}}

\* The UPDATE waits for rows locked by a transaction in progress; it times out
\* on rows whose transaction nobody will end.  An error changes nothing.
UpdateTxs(w) ==
    /\ pc[w] = "update"
    /\ popped[w] \cap LockedFor(w) \subseteq leaked
    /\ \/ /\ popped[w] \cap leaked = {}
          /\ updated' = [updated EXCEPT ![w] = popped[w]]
          /\ NoFault
       \/ /\ popped[w] \cap leaked # {}
          /\ NoFault /\ UNCHANGED updated
       \/ Fault /\ UNCHANGED updated
    /\ pc' = [pc EXCEPT ![w] = IF txType[w] THEN "commit" ELSE "leak"]
    /\ UNCHANGED <<clock, table, txType, popped, handed, crashes>>

\* The error tested after the UPDATE is the one of FetchTxType: PopTxs returns
\* no transactions, with neither COMMIT nor ROLLBACK.
ReturnUncommitted(w) ==
    /\ pc[w] = "leak"
    /\ leaked' = leaked \cup updated[w]
    /\ updated' = [updated EXCEPT ![w] = {}]
    /\ popped' = [popped EXCEPT ![w] = {}]
    /\ pc' = [pc EXCEPT ![w] = "process"]
    /\ UNCHANGED <<clock, created, status, answer, txType, handed, faults, crashes>>

\* Mutant: a status of another table.
MarkActive(S) == [t \in Txs |-> IF t \in S THEN "active" ELSE status[t]]

MarkProcessing(S) == [t \in Txs |-> IF t \in S THEN "processing" ELSE status[t]]

\* Mutant: an error of COMMIT makes PopTxs return nothing.
CommitOrNothing(w) ==
    /\ pc[w] = "commit"
    /\ \/ status' = MarkProcessing(updated[w]) /\ NoFault /\ UNCHANGED popped
       \/ /\ status' \in {status, MarkProcessing(updated[w])}
          /\ Fault
          /\ popped' = [popped EXCEPT ![w] = {}]
    /\ updated' = [updated EXCEPT ![w] = {}]
    /\ pc' = [pc EXCEPT ![w] = "process"]
    /\ UNCHANGED <<clock, created, answer, leaked, txType, handed, crashes>>

\* A COMMIT that fails may have been executed or not; either way the popped
\* transactions are returned with the error and pickBatch goes on with them.
Commit(w) ==
    /\ pc[w] = "commit"
    /\ \/ status' = MarkProcessing(updated[w]) /\ NoFault
       \/ status' \in {status, MarkProcessing(updated[w])} /\ Fault
    /\ updated' = [updated EXCEPT ![w] = {}]
    /\ pc' = [pc EXCEPT ![w] = "process"]
    /\ UNCHANGED <<clock, created, answer, leaked, txType, popped, handed, crashes>>

\* Mutant: wg.Done is forgotten.
ProcessWithoutDone(w) ==
    /\ pc[w] = "process"
    /\ handed' = [t \in Txs |-> IF t \in popped[w] /\ handed[t] < 2
                                THEN handed[t] + 1 ELSE handed[t]]
    /\ popped' = [popped EXCEPT ![w] = {}]
    /\ UNCHANGED <<clock, table, pc, txType, updated, faults, crashes>>

\* ProcessTx returns no commitments and SubmitBatch sends none at this commit:
\* nothing is written for the transactions of the batch.
ProcessAndSubmitBatch(w) ==
    /\ pc[w] = "process"
    /\ handed' = [t \in Txs |-> IF t \in popped[w] /\ handed[t] < 2
                                THEN handed[t] + 1 ELSE handed[t]]
    /\ popped' = [popped EXCEPT ![w] = {}]
    /\ pc' = [pc EXCEPT ![w] = "done"]
    /\ UNCHANGED <<clock, table, txType, updated, faults, crashes>>

\* The process dies and is started again: its open transactions are rolled
\* back and the requests it was serving are gone.
Crash ==
    /\ crashes < MaxCrashes
    /\ crashes' = crashes + 1
    /\ status' = [t \in Txs |-> IF status[t] = "receiving" THEN "none" ELSE status[t]]
    /\ leaked' = {}
    /\ pc' = [w \in Workers |-> "done"]
    /\ popped' = [w \in Workers |-> {}]
    /\ updated' = [w \in Workers |-> {}]
    /\ UNCHANGED <<clock, created, answer, txType, handed, faults>>

Step(w) ==
    \/ FetchTxType(w)
    \/ SelectTxs(w)
    \/ SelectFails(w)
    \/ UpdateTxs(w)
    \/ ReturnUncommitted(w)
    \/ Commit(w)
    \/ ProcessAndSubmitBatch(w)

Next ==
    \/ Tick
    \/ \E t \in Txs : TxReceiverHandler(t) \/ InsertTx(t)
    \/ \E w \in Workers : PickBatch(w) \/ Step(w)
    \/ Crash

Spec == Init /\ [][Next]_vars

(***************************************************************************)
(* Fairness: the ticker of startAggregating never stops and the goroutine  *)
(* it starts keeps running; nothing is assumed of the users.               *)
(***************************************************************************)
FairSpec ==
    /\ Spec
    /\ WF_vars(\E w \in Workers : PickBatch(w))
    /\ \A w \in Workers : WF_vars(Step(w))

-----------------------------------------------------------------------------
(* Properties                                                               *)

TypeOK ==
    /\ clock \in Nat
    /\ created \in [Txs -> Nat]
    /\ status \in [Txs -> {"none", "receiving", "pending", "processing"}]
    /\ answer \in [Txs -> {"none", "ok", "error"}]
    /\ leaked \subseteq Txs
    /\ pc \in [Workers -> {"done", "type", "select", "update", "leak", "commit", "process"}]
    /\ txType \in [Workers -> BOOLEAN]
    /\ popped \in [Workers -> SUBSET Txs]
    /\ updated \in [Workers -> SUBSET Txs]
    /\ handed \in [Txs -> 0 .. 2]
    /\ faults \in Nat /\ crashes \in Nat

\* As long as no statement fails, a transaction reaches ProcessAndSubmitBatch
\* at most once, although PopTxs reads the pool before it marks what it read,
\* ticks overlap and the process may crash between any two statements.
\* core/tx.go:186 says of the pop: "update the transactions from pending to
\* processing".
HandedOutAtMostOnce == faults = 0 => \A t \in Txs : handed[t] <= 1

\* A transaction marked as processing has been given to ProcessAndSubmitBatch
\* or is about to be, unless the process died in between: no error path of
\* PopTxs marks a transaction and then forgets it.
MarkedIsTaken ==
    crashes = 0 => \A t \in Txs : status[t] = "processing" =>
        handed[t] > 0 \/ \E w \in Workers : t \in popped[w] /\ pc[w] = "process"

\* A transaction answered with 200 is in the pool as it was sent and stays
\* there, whatever fails or crashes later; one that was answered with an error
\* is in the pool only if its request could not be read, in which case it is
\* there without its fields, or if a statement failed after being executed.
AnswersAreTrue ==
    \A t \in Txs :
        LET inPool == status[t] \in {"pending", "processing"} IN
        /\ answer[t] = "ok" => inPool /\ t \notin Unreadable
        /\ answer[t] = "error" /\ inPool => t \in Unreadable \/ faults > 0

\* Every transaction in the pool is picked up, also when it was inserted in the
\* middle of a pop, after failing statements or when the process was started
\* again: aggregator/aggregator.go:23, task 1, "Pick txs from the mempool".
\* A transaction PopTxs left open must have been ended, by the death of the
\* process: as long as it holds the locks of the oldest rows, every pop reads
\* these rows again, fails to mark them, and younger ones are never reached.
PendingIsPicked ==
    <>[](leaked = {}) =>
        \A t \in Txs : status[t] = "pending" ~> (handed[t] > 0 \/ status[t] = "processing")

=============================================================================
