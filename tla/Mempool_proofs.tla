--------------------------- MODULE Mempool_proofs ---------------------------
(***************************************************************************)
(* What the transaction pool guarantees for every number of transactions,  *)
(* of goroutines, of failing statements and of crashes.                    *)
(***************************************************************************)
EXTENDS Mempool, TLAPS

InPool(t) == status[t] \in {"pending", "processing"}

\* What a goroutine of pickBatch has popped is in the pool, and what its open
\* transaction has updated is among that.
PoppedInv ==
    \A w \in Workers :
        /\ \A t \in popped[w] : InPool(t)
        /\ updated[w] \subseteq popped[w]
        /\ pc[w] \notin {"commit", "leak"} => updated[w] = {}

PoolInv == TypeOK /\ PoppedInv /\ MarkedIsTaken /\ AnswersAreTrue

LEMMA InitPoolInv == Init => PoolInv
BY DEF Init, PoolInv, TypeOK, PoppedInv, MarkedIsTaken, AnswersAreTrue, InPool

-----------------------------------------------------------------------------
(* The handler of requests                                                  *)

LEMMA TxReceiverHandlerPoolInv ==
    ASSUME PoolInv, NEW t \in Txs, TxReceiverHandler(t)
    PROVE  PoolInv'
<1> USE DEF PoolInv
<1>1. TypeOK'
  BY DEF TypeOK, TxReceiverHandler, WriteErrorResponse, workers
<1>2. /\ status[t] = "none" /\ status' = [status EXCEPT ![t] = "receiving"]
      /\ UNCHANGED <<pc, popped, updated, handed, faults, crashes>>
      /\ answer' \in {answer, [answer EXCEPT ![t] = "error"]}
  BY DEF TxReceiverHandler, WriteErrorResponse, workers
<1>3. /\ status'[t] = "receiving"
      /\ \A u \in Txs : u # t => status'[u] = status[u] /\ answer'[u] = answer[u]
  BY <1>2 DEF TypeOK
<1>4. PoppedInv'
  BY <1>2, <1>3 DEF TypeOK, PoppedInv, InPool
<1>5. MarkedIsTaken'
  BY <1>2, <1>3 DEF MarkedIsTaken
<1>6. answer[t] # "ok" /\ answer'[t] # "ok"
  BY <1>2 DEF TypeOK, AnswersAreTrue
<1>7. AnswersAreTrue'
  BY <1>2, <1>3, <1>6 DEF AnswersAreTrue
<1> QED
  BY <1>1, <1>4, <1>5, <1>7

LEMMA InsertTxPoolInv ==
    ASSUME PoolInv, NEW t \in Txs, InsertTx(t)
    PROVE  PoolInv'
<1> USE DEF PoolInv
<1>1. TypeOK'
  BY MempoolAssumption
     DEF TypeOK, InsertTx, NewPendingTx, WriteErrorResponse, Fault, NoFault, workers
<1>2. /\ status[t] = "receiving"
      /\ UNCHANGED <<pc, popped, updated, handed, crashes>>
      /\ \A u \in Txs : u # t => status'[u] = status[u] /\ answer'[u] = answer[u]
      /\ status'[t] \in {"none", "pending"}
      /\ faults' = faults \/ (faults' = faults + 1 /\ answer'[t] = "error")
  BY DEF TypeOK, InsertTx, NewPendingTx, WriteErrorResponse, Fault, NoFault, workers
<1>3. faults \in Nat /\ faults' \in Nat /\ (faults' = 0 => faults = 0)
  BY <1>1, <1>2 DEF TypeOK
<1>4. PoppedInv'
  BY <1>2 DEF TypeOK, PoppedInv, InPool
<1>5. MarkedIsTaken'
  BY <1>2 DEF MarkedIsTaken
<1>6. /\ answer'[t] = "ok" => status'[t] = "pending" /\ t \notin Unreadable
      /\ answer'[t] = "error" /\ status'[t] = "pending" => t \in Unreadable \/ faults' > 0
  <2>1. CASE NoFault
    BY <1>2, <2>1 DEF TypeOK, InsertTx, NewPendingTx, WriteErrorResponse, ReadRESTReq,
                      Fault, NoFault, AnswersAreTrue
  <2>2. CASE ~NoFault
    BY <1>2, <1>3, <2>2 DEF NoFault
  <2> QED
    BY <2>1, <2>2
<1>7. AnswersAreTrue'
  BY <1>2, <1>3, <1>6 DEF AnswersAreTrue
<1> QED
  BY <1>1, <1>4, <1>5, <1>7

-----------------------------------------------------------------------------
(* The goroutines                                                           *)

\* The answers depend only on the table and on whether a statement failed.
LEMMA AnswersKept ==
    ASSUME PoolInv, UNCHANGED answer, faults' \in Nat, faults <= faults',
           \A t \in Txs : InPool(t) <=> InPool(t)'
    PROVE  AnswersAreTrue'
BY DEF PoolInv, TypeOK, AnswersAreTrue, InPool

\* The steps of a goroutine before its COMMIT.
LEMMA BeforeCommitPoolInv ==
    ASSUME PoolInv, NEW w \in Workers,
           \/ PickBatch(w) \/ FetchTxType(w) \/ SelectTxs(w) \/ SelectFails(w)
           \/ UpdateTxs(w) \/ ReturnUncommitted(w)
    PROVE  PoolInv'
<1> USE DEF PoolInv
<1>1. TypeOK'
  <2>1. faults' \in Nat
    BY DEF TypeOK, PickBatch, FetchTxType, SelectTxs, SelectFails, UpdateTxs,
           ReturnUncommitted, Fault, NoFault
  <2>2. txType' \in [Workers -> BOOLEAN]
    BY Zenon DEF TypeOK, PickBatch, FetchTxType, SelectTxs, SelectFails, UpdateTxs,
           ReturnUncommitted
  <2>3. pc' \in [Workers -> {"done", "type", "select", "update", "leak", "commit", "process"}]
    BY DEF TypeOK, PickBatch, FetchTxType, SelectTxs, SelectFails, UpdateTxs,
           ReturnUncommitted
  <2>4. popped' \in [Workers -> SUBSET Txs] /\ updated' \in [Workers -> SUBSET Txs]
    BY DEF TypeOK, PickBatch, FetchTxType, SelectTxs, SelectFails, UpdateTxs,
           ReturnUncommitted, Pending
  <2>5. leaked' \subseteq Txs
    BY DEF TypeOK, PickBatch, FetchTxType, SelectTxs, SelectFails, UpdateTxs,
           ReturnUncommitted, table
  <2>6. UNCHANGED <<clock, created, status, answer, handed, crashes>>
    BY DEF PickBatch, FetchTxType, SelectTxs, SelectFails, UpdateTxs,
           ReturnUncommitted, table
  <2> QED
    BY <2>1, <2>2, <2>3, <2>4, <2>5, <2>6 DEF TypeOK
<1>2. /\ UNCHANGED <<status, answer, handed, crashes>>
      /\ faults' = faults \/ faults' = faults + 1
      /\ \A v \in Workers : v # w => /\ pc'[v] = pc[v]
                                     /\ popped'[v] = popped[v]
                                     /\ updated'[v] = updated[v]
  BY DEF TypeOK, PickBatch, FetchTxType, SelectTxs, SelectFails, UpdateTxs,
         ReturnUncommitted, table, Fault, NoFault
<1>3. /\ pc[w] # "process"
      /\ \A t \in popped'[w] : InPool(t)
      /\ updated'[w] \subseteq popped'[w]
      /\ pc'[w] \notin {"commit", "leak"} => updated'[w] = {}
  <2>1. CASE PickBatch(w) \/ FetchTxType(w)
    BY <2>1 DEF TypeOK, PoppedInv, PickBatch, FetchTxType
  <2>2. CASE SelectTxs(w)
    BY <2>2 DEF TypeOK, PoppedInv, SelectTxs, Pending, InPool
  <2>3. CASE SelectFails(w) \/ ReturnUncommitted(w)
    BY <2>3 DEF TypeOK, PoppedInv, SelectFails, ReturnUncommitted
  <2>4. CASE UpdateTxs(w)
    BY <2>4 DEF TypeOK, PoppedInv, UpdateTxs
  <2> QED
    BY <2>1, <2>2, <2>3, <2>4
<1>4. PoppedInv'
  BY <1>2, <1>3 DEF PoppedInv, InPool
<1>5. MarkedIsTaken'
  BY <1>2, <1>3 DEF MarkedIsTaken
<1>6. AnswersAreTrue'
  BY <1>1, <1>2, AnswersKept DEF TypeOK, InPool
<1> QED
  BY <1>1, <1>4, <1>5, <1>6

LEMMA CommitPoolInv ==
    ASSUME PoolInv, NEW w \in Workers, Commit(w)
    PROVE  PoolInv'
<1> USE DEF PoolInv
<1>1. TypeOK'
  BY DEF TypeOK, Commit, MarkProcessing, Fault, NoFault
<1>2. /\ UNCHANGED <<answer, handed, crashes, popped>>
      /\ faults' = faults \/ faults' = faults + 1
      /\ pc[w] = "commit" /\ pc' = [pc EXCEPT ![w] = "process"]
      /\ updated' = [updated EXCEPT ![w] = {}]
      /\ \A t \in Txs : \/ status'[t] = status[t]
                        \/ t \in updated[w] /\ status'[t] = "processing"
  BY DEF Commit, MarkProcessing, Fault, NoFault, TypeOK
<1>3. \A t \in updated[w] : t \in Txs /\ t \in popped[w] /\ InPool(t)
  BY DEF PoppedInv, TypeOK
<1>4. \A t \in Txs : InPool(t) <=> InPool(t)'
  BY <1>2, <1>3 DEF InPool
<1>5. PoppedInv'
  BY <1>2, <1>4 DEF PoppedInv, TypeOK
<1>6. MarkedIsTaken'
  BY <1>2, <1>3 DEF MarkedIsTaken, TypeOK
<1>7. AnswersAreTrue'
  BY <1>1, <1>2, <1>4, AnswersKept DEF TypeOK
<1> QED
  BY <1>1, <1>5, <1>6, <1>7

LEMMA ProcessPoolInv ==
    ASSUME PoolInv, NEW w \in Workers, ProcessAndSubmitBatch(w)
    PROVE  PoolInv'
<1> USE DEF PoolInv
<1>1. TypeOK'
  BY DEF TypeOK, ProcessAndSubmitBatch, table
<1>2. /\ UNCHANGED <<status, answer, updated, faults, crashes>>
      /\ pc[w] = "process" /\ pc' = [pc EXCEPT ![w] = "done"]
      /\ popped' = [popped EXCEPT ![w] = {}]
      /\ \A t \in Txs : handed[t] <= handed'[t] /\ (t \in popped[w] => handed'[t] > 0)
  BY DEF TypeOK, ProcessAndSubmitBatch, table
<1>3. PoppedInv'
  BY <1>2 DEF PoppedInv, TypeOK, InPool
<1>4. MarkedIsTaken'
  <2> SUFFICES ASSUME crashes = 0, NEW t \in Txs, status[t] = "processing"
               PROVE  handed'[t] > 0 \/ \E v \in Workers : t \in popped'[v] /\ pc'[v] = "process"
    BY <1>2 DEF MarkedIsTaken
  <2>1. CASE handed[t] > 0
    BY <1>1, <1>2, <2>1 DEF TypeOK
  <2>2. ASSUME NEW v \in Workers, t \in popped[v], pc[v] = "process"
        PROVE  handed'[t] > 0 \/ (t \in popped'[v] /\ pc'[v] = "process")
    BY <1>2, <2>2 DEF TypeOK
  <2> QED
    BY <2>1, <2>2 DEF MarkedIsTaken
<1>5. AnswersAreTrue'
  BY <1>2 DEF AnswersAreTrue
<1> QED
  BY <1>1, <1>3, <1>4, <1>5

LEMMA CrashPoolInv ==
    ASSUME PoolInv, Crash
    PROVE  PoolInv'
<1> USE DEF PoolInv
<1>1. TypeOK'
  BY DEF TypeOK, Crash
<1>2. \A t \in Txs : InPool(t) <=> InPool(t)'
  BY DEF TypeOK, Crash, InPool
<1>3. PoppedInv'
  BY DEF PoppedInv, Crash
<1>4. MarkedIsTaken'
  BY DEF TypeOK, MarkedIsTaken, Crash
<1>5. AnswersAreTrue'
  BY <1>1, <1>2, AnswersKept DEF TypeOK, Crash
<1> QED
  BY <1>1, <1>3, <1>4, <1>5

LEMMA NextPoolInv == PoolInv /\ [Next]_vars => PoolInv'
<1> SUFFICES ASSUME PoolInv, [Next]_vars PROVE PoolInv'
  OBVIOUS
<1>1. CASE Tick
  BY <1>1 DEF Tick, table, workers, PoolInv, TypeOK, PoppedInv, InPool, MarkedIsTaken,
              AnswersAreTrue
<1>2. CASE UNCHANGED vars
  BY <1>2 DEF vars, table, workers, PoolInv, TypeOK, PoppedInv, InPool, MarkedIsTaken,
              AnswersAreTrue
<1>3. CASE \E t \in Txs : TxReceiverHandler(t) \/ InsertTx(t)
  BY <1>3, TxReceiverHandlerPoolInv, InsertTxPoolInv
<1>4. CASE \E w \in Workers : PickBatch(w) \/ Step(w)
  BY <1>4, BeforeCommitPoolInv, CommitPoolInv, ProcessPoolInv DEF Step
<1>5. CASE Crash
  BY <1>5, CrashPoolInv
<1> QED
  BY <1>1, <1>2, <1>3, <1>4, <1>5 DEF Next

\* The table and the goroutines stay in their types: core/tx.go writes no
\* status but the three it reads.
THEOREM PoolTypes == Spec => []TypeOK
<1>1. PoolInv => TypeOK
  BY DEF PoolInv
<1> QED
  BY <1>1, InitPoolInv, NextPoolInv, PTL DEF Spec

\* No error path of PopTxs marks a transaction as processing and then forgets
\* it; only the death of the process does.
THEOREM MarkedTransactionsAreTaken == Spec => []MarkedIsTaken
<1>1. PoolInv => MarkedIsTaken
  BY DEF PoolInv
<1> QED
  BY <1>1, InitPoolInv, NextPoolInv, PTL DEF Spec

\* What TxReceiverHandler answered stays true of the pool for ever.
THEOREM ResponsesAreTrue == Spec => []AnswersAreTrue
<1>1. PoolInv => AnswersAreTrue
  BY DEF PoolInv
<1> QED
  BY <1>1, InitPoolInv, NextPoolInv, PTL DEF Spec

-----------------------------------------------------------------------------
(* At most once                                                             *)

\* wg.Wait lets one goroutine run at a time.
OneAtATime == \A v, w \in Workers : pc[v] # "done" /\ pc[w] # "done" => v = w

\* Without a failing statement: what the goroutine popped stays pending until
\* its COMMIT marks it, is then processing and not yet handed on, and what was
\* handed on is processing for ever.
OnceInv ==
    /\ leaked = {}
    /\ \A w \in Workers :
          /\ pc[w] # "leak" /\ txType[w] = TRUE
          /\ pc[w] \in {"done", "type", "select"} => popped[w] = {}
          /\ pc[w] \in {"update", "commit"} => \A t \in popped[w] : status[t] = "pending"
          /\ pc[w] = "commit" => updated[w] = popped[w]
          /\ pc[w] = "process" => \A t \in popped[w] : status[t] = "processing" /\ handed[t] = 0
    /\ \A t \in Txs : handed[t] > 0 => status[t] = "processing" /\ handed[t] = 1

HandInv == PoolInv /\ OneAtATime /\ (faults = 0 => OnceInv)

LEMMA InitHandInv == Init => HandInv
BY InitPoolInv DEF Init, HandInv, OneAtATime, OnceInv

LEMMA NextOneAtATime ==
    ASSUME PoolInv, OneAtATime, [Next]_vars
    PROVE  OneAtATime'
<1>1. pc \in [Workers -> {"done", "type", "select", "update", "leak", "commit", "process"}]
  BY DEF PoolInv, TypeOK
<1>2. CASE Tick \/ UNCHANGED vars \/ \E t \in Txs : TxReceiverHandler(t) \/ InsertTx(t)
  BY <1>2 DEF Tick, vars, workers, TxReceiverHandler, InsertTx, OneAtATime
<1>3. ASSUME NEW w \in Workers, PickBatch(w) PROVE OneAtATime'
  BY <1>1, <1>3 DEF PickBatch, OneAtATime
<1>4. ASSUME NEW w \in Workers, Step(w) PROVE OneAtATime'
  <2>1. pc[w] # "done" /\ \A v \in Workers : v # w => pc'[v] = pc[v]
    BY <1>1, <1>4 DEF Step, FetchTxType, SelectTxs, SelectFails, UpdateTxs,
                      ReturnUncommitted, Commit, ProcessAndSubmitBatch
  <2> QED
    BY <2>1 DEF OneAtATime
<1>5. CASE Crash
  BY <1>5 DEF Crash, OneAtATime
<1> QED
  BY <1>2, <1>3, <1>4, <1>5 DEF Next

LEMMA RequestOnceInv ==
    ASSUME PoolInv, OnceInv, NEW t \in Txs, TxReceiverHandler(t) \/ InsertTx(t)
    PROVE  OnceInv'
<1>1. /\ status[t] \in {"none", "receiving"}
      /\ \A u \in Txs : u # t => status'[u] = status[u]
      /\ UNCHANGED <<leaked, pc, txType, popped, updated, handed>>
  BY DEF PoolInv, TypeOK, TxReceiverHandler, InsertTx, NewPendingTx, workers
<1>2. /\ \A w \in Workers : \A u \in popped[w] : u \in Txs
      /\ handed[t] = 0
  BY <1>1 DEF PoolInv, TypeOK, OnceInv
<1> QED
  BY <1>1, <1>2 DEF OnceInv

LEMMA WorkerOnceInv ==
    ASSUME PoolInv, OneAtATime, OnceInv, NEW w \in Workers, PickBatch(w) \/ Step(w),
           faults' = faults
    PROVE  OnceInv'
<1>0. /\ pc \in [Workers -> {"done", "type", "select", "update", "leak", "commit", "process"}]
      /\ txType \in [Workers -> BOOLEAN] /\ faults \in Nat
      /\ popped \in [Workers -> SUBSET Txs] /\ updated \in [Workers -> SUBSET Txs]
      /\ status \in [Txs -> {"none", "receiving", "pending", "processing"}]
      /\ handed \in [Txs -> 0 .. 2]
  BY DEF PoolInv, TypeOK
<1>1. CASE PickBatch(w)
  <2>1. pc[w] = "done"
    BY <1>1 DEF PickBatch
  <2> QED
    BY <1>0, <1>1, <2>1 DEF PickBatch, OnceInv, table
<1>2. CASE FetchTxType(w)
  <2>1. txType' = [txType EXCEPT ![w] = TRUE]
    BY <1>0, <1>2 DEF FetchTxType, Fault
  <2> QED
    BY <1>0, <1>2, <2>1 DEF FetchTxType, OnceInv, table
<1>3. CASE SelectTxs(w)
  BY <1>0, <1>3 DEF SelectTxs, OnceInv, table, Pending
<1>4. CASE SelectFails(w)
  BY <1>0, <1>4 DEF SelectFails, Fault
<1>5. CASE UpdateTxs(w)
  <2>1. updated' = [updated EXCEPT ![w] = popped[w]]
    BY <1>0, <1>5 DEF UpdateTxs, Fault, OnceInv
  <2>2. txType[w] = TRUE
    BY DEF OnceInv
  <2>3. pc' = [pc EXCEPT ![w] = "commit"]
    BY <1>5, <2>2, Zenon DEF UpdateTxs
  <2> QED
    BY <1>0, <1>5, <2>1, <2>3 DEF UpdateTxs, OnceInv, table
<1>6. CASE ReturnUncommitted(w)
  BY <1>6 DEF ReturnUncommitted, OnceInv
<1>7. CASE Commit(w)
  <2>1. /\ pc[w] = "commit" /\ pc' = [pc EXCEPT ![w] = "process"]
        /\ status' = [t \in Txs |-> IF t \in popped[w] THEN "processing" ELSE status[t]]
        /\ UNCHANGED <<leaked, txType, popped, handed>>
        /\ \A t \in popped[w] : status[t] = "pending"
    BY <1>0, <1>7 DEF Commit, Fault, MarkProcessing, OnceInv
  <2>2. \A t \in popped[w] : t \in Txs /\ status'[t] = "processing" /\ handed[t] = 0
    BY <1>0, <2>1 DEF OnceInv
  <2>3. \A v \in Workers : v # w => pc[v] = "done" /\ pc'[v] = "done" /\ popped[v] = {}
    BY <1>0, <2>1 DEF OneAtATime, OnceInv
  <2> QED
    BY <1>0, <2>1, <2>2, <2>3 DEF OnceInv
<1>8. CASE ProcessAndSubmitBatch(w)
  <2>1. /\ pc[w] = "process" /\ pc' = [pc EXCEPT ![w] = "done"]
        /\ popped' = [popped EXCEPT ![w] = {}]
        /\ UNCHANGED <<leaked, status, txType, updated>>
        /\ \A t \in Txs : handed'[t] = IF t \in popped[w] THEN 1 ELSE handed[t]
    BY <1>0, <1>8 DEF ProcessAndSubmitBatch, table, OnceInv
  <2>2. \A v \in Workers : v # w => pc[v] = "done" /\ pc'[v] = "done" /\ popped[v] = {}
    BY <1>0, <2>1 DEF OneAtATime, OnceInv
  <2>3. \A t \in popped[w] : status[t] = "processing"
    BY <2>1 DEF OnceInv
  <2> QED
    BY <1>0, <2>1, <2>2, <2>3 DEF OnceInv
<1> QED
  BY <1>1, <1>2, <1>3, <1>4, <1>5, <1>6, <1>7, <1>8 DEF Step

LEMMA NextHandInv == HandInv /\ [Next]_vars => HandInv'
<1> SUFFICES ASSUME HandInv, [Next]_vars PROVE HandInv'
  OBVIOUS
<1>1. PoolInv /\ OneAtATime /\ PoolInv' /\ OneAtATime'
  BY NextPoolInv, NextOneAtATime DEF HandInv
<1>2. ASSUME faults' = 0 PROVE OnceInv'
  <2>1. faults \in Nat /\ faults' \in {faults, faults + 1}
    BY <1>1 DEF PoolInv, TypeOK, Next, vars, Tick, TxReceiverHandler, InsertTx, PickBatch,
           Step, FetchTxType, SelectTxs, SelectFails, UpdateTxs, ReturnUncommitted,
           Commit, ProcessAndSubmitBatch, Crash, Fault, NoFault
  <2>2. faults = 0 /\ OnceInv
    BY <1>2, <2>1 DEF HandInv
  <2>3. CASE Tick \/ UNCHANGED vars
    BY <2>2, <2>3 DEF Tick, vars, table, workers, OnceInv
  <2>4. CASE \E t \in Txs : TxReceiverHandler(t) \/ InsertTx(t)
    BY <1>1, <2>2, <2>4, RequestOnceInv
  <2>5. CASE \E w \in Workers : PickBatch(w) \/ Step(w)
    BY <1>1, <1>2, <2>2, <2>5, WorkerOnceInv
  <2>6. CASE Crash
    BY <1>1, <2>2, <2>6 DEF Crash, OnceInv, PoolInv, TypeOK
  <2> QED
    BY <2>3, <2>4, <2>5, <2>6 DEF Next
<1> QED
  BY <1>1, <1>2 DEF HandInv

\* Crashes and overlapping ticks included, no transaction is given to
\* ProcessAndSubmitBatch twice unless a statement of PopTxs fails.
THEOREM HandedOutOnce == Spec => []HandedOutAtMostOnce
<1>1. HandInv => HandedOutAtMostOnce
  BY DEF HandInv, PoolInv, TypeOK, OnceInv, HandedOutAtMostOnce
<1> QED
  BY <1>1, InitHandInv, NextHandInv, PTL DEF Spec

=============================================================================
