------------------------------- MODULE Syncer -------------------------------
(***************************************************************************)
(* The listener service (listener/syncer.go, listener/processors.go) and   *)
(* the tables it keeps: it follows the heads of the Ethereum chain, fetches*)
(* the logs since the last block it recorded and applies each of them to   *)
(* the database, then records the block.                                   *)
(*                                                                         *)
(* Nothing spans two statements: there is no database transaction, so a    *)
(* crash (or a panic, which the handlers use for most errors and which     *)
(* takes the process down) leaves the statements before it applied, and    *)
(* the logs are fetched and applied again after the restart.               *)
(***************************************************************************)
EXTENDS RollupChain, FiniteSets

CONSTANTS
    EmptyLeaves,    \* what the genesis may store in a leaf without an account
    MaxCrashes,     \* bound: times the process has died when a crash is possible
    MaxRestarts,    \* bound: times it has died when it is restarted for the last time
    MaxFaults       \* bound: errors that a handler logs and then ignores

\* The content of a leaf: a deposit (its number) or one of these.  Zero is the
\* content whose hash is ZERO_VALUE_LEAF, 32 zero bytes; Blank is any other
\* encoding of an all-zero state.  The genesis stores what the contract's
\* Encode returns for such a state: Blank when it returns the four words of
\* the state.
Zero == 0
Blank == -1
GenesisState == -2

ASSUME SyncerAssumption ==
    /\ EmptyLeaves \subseteq {Zero, Blank}
    /\ MaxCrashes \in Nat /\ MaxRestarts \in Nat /\ MaxFaults \in Nat

VARIABLES
    lastEth,    \* sync_statuses.last_eth_block_recorded
    lastBatch,  \* sync_statuses.last_batch_recorded
    batches,    \* table batches: the batch ids, in the order inserted
    tokens,     \* table tokens
    pending,    \* the rows of user_states with status STATUS_PENDING
    leaves,     \* the rows of user_states that are leaves of the tree
    up,         \* the process runs
    held,       \* header taken from HeaderChannel, waiting in wg.Wait (0: none)
    pc,         \* what the processEvents goroutine does next
    hdr,        \* the header it works for
    todo,       \* the logs it has still to process, by position in log
    fin,        \* locals of FinaliseDeposits
    handled,    \* history: logs whose handler ran to its end
    dropped,    \* history: logs whose handler gave up on an error and returned
    crashes,    \* times the process died
    faults      \* errors that were logged and ignored

tables == <<lastEth, lastBatch, batches, tokens, pending, leaves>>
process == <<up, held, pc, hdr, todo, fin>>
history == <<handled, dropped, crashes, faults>>
vars == <<chainVars, tables, process, history>>

NoFin == [accounts |-> <<>>, terminalNodes |-> <<>>, k |-> 0]

Init ==
    /\ ChainInit
    /\ lastEth = 0
    /\ lastBatch = 0
    /\ batches = <<>>
    /\ tokens = <<>>
    /\ pending = <<>>
    \* the coordinator, account 0, has the all-zero state of an empty leaf
    /\ \E empty \in EmptyLeaves :
           leaves = [l \in Leaf |-> IF l \in GenesisLeaves \ {0} THEN GenesisState ELSE empty]
    /\ up = TRUE
    /\ held = 0
    /\ pc = "wait"
    /\ hdr = 0
    /\ todo = {}
    /\ fin = NoFin
    /\ handled = {}
    /\ dropped = {}
    /\ crashes = 0
    /\ faults = 0

-----------------------------------------------------------------------------
(* Headers                                                                  *)

\* startHeaderProcess takes a header from the channel; the poller sends the
\* head it saw at its last tick, the subscription each new head.
ReceiveHeader(h) ==
    /\ up /\ held = 0
    /\ held' = h
    /\ UNCHANGED <<chainVars, tables, up, pc, hdr, todo, fin, history>>

\* The logs FilterLogs returns, the last block recorded included.
FilterLogs(from, to) == {n \in DOMAIN log : log[n].blk \in from .. to}

\* wg.Wait has returned: no processEvents is running.
Waited == up /\ held # 0 /\ pc = "wait"

NoNeedToSync ==
    /\ Waited /\ held <= lastEth
    /\ held' = 0
    /\ UNCHANGED <<chainVars, tables, up, pc, hdr, todo, fin, history>>

\* Mutant: a header that is behind the last block recorded is not dropped.
ProcessAnyHeader ==
    /\ Waited
    /\ held' = 0
    /\ pc' = "events"
    /\ hdr' = held
    /\ todo' = FilterLogs(lastEth, held)
    /\ UNCHANGED <<chainVars, tables, up, fin, history>>

\* Mutant: the block is recorded when its logs are fetched.
RecordThenProcess ==
    /\ Waited /\ held > lastEth
    /\ held' = 0
    /\ pc' = "events"
    /\ hdr' = held
    /\ lastEth' = held
    /\ todo' = FilterLogs(lastEth, held)
    /\ UNCHANGED <<chainVars, lastBatch, batches, tokens, pending, leaves, up, fin, history>>

ProcessHeader ==
    /\ Waited /\ held > lastEth
    /\ held' = 0
    /\ pc' = "events"
    /\ hdr' = held
    /\ todo' = FilterLogs(lastEth, held)
    /\ UNCHANGED <<chainVars, tables, up, fin, history>>

\* GetSyncStatus or FilterLogs fails: the header is forgotten.
ProcessHeaderFails ==
    /\ Waited /\ faults < MaxFaults
    /\ held' = 0
    /\ faults' = faults + 1
    /\ UNCHANGED <<chainVars, tables, up, pc, hdr, todo, fin, handled, dropped, crashes>>

\* Mutant: wg.Done is forgotten.
RecordWithoutDone ==
    /\ pc = "events" /\ todo = {}
    /\ lastEth' = hdr
    /\ UNCHANGED <<chainVars, lastBatch, batches, tokens, pending, leaves,
                   process, history>>

\* All the logs are processed: the header becomes the last block recorded.
RecordBlock ==
    /\ pc = "events" /\ todo = {}
    /\ lastEth' = hdr
    /\ pc' = "wait"
    /\ hdr' = 0
    /\ UNCHANGED <<chainVars, lastBatch, batches, tokens, pending, leaves,
                   up, held, todo, fin, history>>

\* UpdateSyncStatusWithBlockNumber fails and the error is only logged.
RecordBlockFails ==
    /\ pc = "events" /\ todo = {} /\ faults < MaxFaults
    /\ faults' = faults + 1
    /\ pc' = "wait"
    /\ hdr' = 0
    /\ UNCHANGED <<chainVars, tables, up, held, todo, fin, handled, dropped, crashes>>

-----------------------------------------------------------------------------
(* Handlers                                                                 *)

\* Mutant: the logs are taken in any order.
AnyLog(n, type) ==
    /\ pc = "events"
    /\ n \in todo
    /\ log[n].ev.type = type

\* n is the next log of the loop in processEvents, and of the given type.
NextLog(n, type) ==
    /\ pc = "events"
    /\ n \in todo
    /\ \A m \in todo : n <= m
    /\ log[n].ev.type = type

\* The handler of log n has returned.
Handled(n) ==
    /\ todo' = todo \ {n}
    /\ handled' = handled \cup {n}
    /\ UNCHANGED <<up, held, hdr, dropped, crashes, faults>>

\* The process dies; what it held in memory is gone.
GoDown ==
    /\ up' = FALSE
    /\ held' = 0
    /\ pc' = "wait"
    /\ hdr' = 0
    /\ todo' = {}
    /\ fin' = NoFin
    /\ crashes' = crashes + 1
    /\ UNCHANGED <<chainVars, tables, handled, dropped, faults>>

\* No key: a token whose log is delivered again has another row.
AddToken(t) == Append(tokens, t)

ProcessRegisteredToken(n) ==
    /\ NextLog(n, "RegisteredToken")
    /\ tokens' = AddToken(log[n].ev.token)
    /\ Handled(n)
    /\ UNCHANGED <<chainVars, lastEth, lastBatch, batches, pending, leaves, pc, fin>>

\* The account tree is not part of this module's state.
ProcessNewPubkeyAddition(n) ==
    /\ NextLog(n, "NewPubkeyAdded")
    /\ Handled(n)
    /\ UNCHANGED <<chainVars, tables, pc, fin>>

NewPendingUserState(acct, deposit) == [acct |-> acct, deposit |-> deposit, root |-> 0]

\* AddNewPendingAccount inserts a row, whether or not the deposit has one.
ProcessDepositQueued(n) ==
    LET event == log[n].ev IN
    /\ NextLog(n, "DepositQueued")
    /\ pending' = Append(pending, NewPendingUserState(event.acct, event.deposit))
    /\ Handled(n)
    /\ UNCHANGED <<chainVars, lastEth, lastBatch, batches, tokens, leaves, pc, fin>>

\* The root is set on every pending row.
AttachDepositInfo(root) ==
    [k \in DOMAIN pending |-> [pending[k] EXCEPT !.root = root]]

\* SendDepositFinalisationTx only reads: FireDepositFinalisation sends nothing
\* at this commit.
ProcessDepositSubtreeCreated(n) ==
    /\ NextLog(n, "DepositSubTreeReady")
    /\ pending' = AttachDepositInfo(log[n].ev.root)
    /\ Handled(n)
    /\ UNCHANGED <<chainVars, lastEth, lastBatch, batches, tokens, leaves, pc, fin>>

\* FetchBatchInputData succeeds: it is not called for the genesis batch.  For
\* any other batch it panics, the rollup ABI having no method submitBatch: there
\* is no "_txs" in what is unpacked.
BatchInputOK(index) == index = 0

\* Mutant: the sync status is consulted instead of the table.
BatchIsRecorded(index) == index < lastBatch

BatchIsStored(index) == \E k \in DOMAIN batches : batches[k] = index

AddNewBatch(n) ==
    LET index == log[n].ev.index IN
    /\ NextLog(n, "NewBatch")
    /\ BatchInputOK(index)
    /\ ~BatchIsStored(index)
    /\ batches' = Append(batches, index)
    /\ Handled(n)
    /\ UNCHANGED <<chainVars, lastEth, lastBatch, tokens, pending, leaves, pc, fin>>

\* Mutant: the index of the batch before is recorded.
RecordBatchBefore(n) ==
    LET index == log[n].ev.index IN
    /\ NextLog(n, "NewBatch")
    /\ BatchInputOK(index)
    /\ BatchIsStored(index)
    /\ lastBatch' = index - 1
    /\ Handled(n)
    /\ UNCHANGED <<chainVars, lastEth, batches, tokens, pending, leaves, pc, fin>>

\* gorm skips the zero value of a field, so that index 0 changes nothing.
UpdateSyncStatusWithBatchNumber(index) == IF index = 0 THEN lastBatch ELSE index

\* A batch that is stored already: only now is its index recorded.
RecordBatch(n) ==
    LET index == log[n].ev.index IN
    /\ NextLog(n, "NewBatch")
    /\ BatchInputOK(index)
    /\ BatchIsStored(index)
    /\ lastBatch' = UpdateSyncStatusWithBatchNumber(index)
    /\ Handled(n)
    /\ UNCHANGED <<chainVars, lastEth, batches, tokens, pending, leaves, pc, fin>>

\* FetchBatchInputData cannot find the transactions in the call data.
BatchInputPanics(n) ==
    /\ NextLog(n, "NewBatch")
    /\ ~BatchInputOK(log[n].ev.index)
    /\ GoDown

\* GetParams (or the query for the batch, or any statement of
\* FinaliseDeposits before its loop) fails: the handler returns and the loop
\* goes on with the next log.  An error of UpdateSyncStatusWithBatchNumber,
\* which is ignored, leaves the tables in the same state.
DropLog(n) ==
    /\ \E type \in {"NewBatch", "NewPubkeyAdded", "DepositsFinalised"} : NextLog(n, type)
    /\ faults < MaxFaults
    /\ faults' = faults + 1
    /\ todo' = todo \ {n}
    /\ dropped' = dropped \cup {n}
    /\ UNCHANGED <<chainVars, tables, up, held, pc, hdr, fin, handled, crashes>>

-----------------------------------------------------------------------------
(* FinaliseDeposits                                                         *)

\* Mutant: off by one leaf.
TerminalNodesBefore(s) == <<2 * s - 1, 2 * s>>

\* The subtree is looked up at height MaxDepth - 1, whatever the height of the
\* deposit subtree: its terminal nodes are always two sibling leaves.
GetAllTerminalNodes(s) == <<2 * s, 2 * s + 1>>

\* Mutant: the leaves are not looked at.
NotChecked(nodes) == TRUE

AllZero(nodes) == \A k \in DOMAIN nodes : leaves[nodes[k]] = Zero

\* The rows of a table at the positions K, in their order: what a WHERE selects.
RowsAt(table, K) ==
    LET S[k \in 0 .. Len(table)] ==
            IF k = 0 THEN <<>>
            ELSE IF k \in K THEN Append(S[k - 1], table[k]) ELSE S[k - 1]
    IN  S[Len(table)]

GetPendingAccByDepositRoot(r) ==
    RowsAt(pending, {k \in DOMAIN pending : pending[k].root = r})

BeginFinaliseDeposits(n) ==
    LET event == log[n].ev
        nodes == GetAllTerminalNodes(event.subtree)
        accounts == GetPendingAccByDepositRoot(event.root) IN
    /\ NextLog(n, "DepositsFinalised")
    /\ AllZero(nodes) /\ accounts # <<>>
    /\ fin' = [accounts |-> accounts, terminalNodes |-> nodes, k |-> 1]
    /\ pc' = "update"
    /\ UNCHANGED <<chainVars, tables, up, held, hdr, todo, history>>

\* A leaf is not empty, so that the operation is aborted, or no pending row
\* carries the root, so that the loop runs zero times: nothing is written and
\* the handler returns as usual.
NothingToFinalise(n) ==
    LET event == log[n].ev IN
    /\ NextLog(n, "DepositsFinalised")
    /\ \/ ~AllZero(GetAllTerminalNodes(event.subtree))
       \/ GetPendingAccByDepositRoot(event.root) = <<>>
    /\ Handled(n)
    /\ UNCHANGED <<chainVars, tables, pc, fin>>

\* UpdateState of the next account; its leaf is written by one statement.
FinaliseUpdate ==
    /\ pc = "update"
    /\ fin.k <= Len(fin.terminalNodes)
    /\ leaves' = [leaves EXCEPT ![fin.terminalNodes[fin.k]] = fin.accounts[fin.k].deposit]
    /\ pc' = "delete"
    /\ UNCHANGED <<chainVars, lastEth, lastBatch, batches, tokens, pending,
                   up, held, hdr, todo, fin, history>>

\* terminalNodes[i] with more accounts than terminal nodes.
IndexOutOfRange ==
    /\ pc = "update"
    /\ fin.k > Len(fin.terminalNodes)
    /\ GoDown

\* Mutant: the DELETE has lost its condition on the account.
DeleteAllPending(acct) == <<>>

\* DeletePendingAccount removes every pending row of the account id.
DeletePendingAccount(acct) ==
    RowsAt(pending, {k \in DOMAIN pending : pending[k].acct # acct})

FinaliseDelete(n) ==
    /\ pc = "delete"
    /\ n \in todo /\ \A m \in todo : n <= m
    /\ pending' = DeletePendingAccount(fin.accounts[fin.k].acct)
    /\ IF fin.k < Len(fin.accounts)
       THEN /\ pc' = "update"
            /\ fin' = [fin EXCEPT !.k = @ + 1]
            /\ UNCHANGED <<up, held, hdr, todo, history>>
       ELSE /\ pc' = "events"
            /\ fin' = NoFin
            /\ Handled(n)
    /\ UNCHANGED <<chainVars, lastEth, lastBatch, batches, tokens, leaves>>

\* A statement of UpdateState or of DeletePendingAccount fails; the error is
\* printed and the loop of processEvents goes on.
FinaliseFails(n) ==
    /\ pc \in {"update", "delete"}
    /\ n \in todo /\ \A m \in todo : n <= m
    /\ faults < MaxFaults
    /\ faults' = faults + 1
    /\ pc' = "events"
    /\ fin' = NoFin
    /\ todo' = todo \ {n}
    /\ dropped' = dropped \cup {n}
    /\ UNCHANGED <<chainVars, tables, up, held, hdr, handled, crashes>>

-----------------------------------------------------------------------------

\* The process dies between two statements, or a handler panics on an error.
Crash ==
    /\ up /\ crashes < MaxCrashes
    /\ GoDown

\* Without the bound a panic that repeats for ever would add rows for ever.
Restart ==
    /\ ~up /\ crashes <= MaxRestarts
    /\ up' = TRUE
    /\ UNCHANGED <<chainVars, tables, held, pc, hdr, todo, fin, history>>

ProcessLog(n) ==
    \/ ProcessRegisteredToken(n)
    \/ ProcessNewPubkeyAddition(n)
    \/ ProcessDepositQueued(n)
    \/ ProcessDepositSubtreeCreated(n)
    \/ AddNewBatch(n)
    \/ RecordBatch(n)
    \/ BatchInputPanics(n)
    \/ BeginFinaliseDeposits(n)
    \/ NothingToFinalise(n)
    \/ FinaliseDelete(n)

\* The goroutine of processEvents, when no statement fails.
ProcessEvents ==
    \/ \E n \in todo : ProcessLog(n)
    \/ FinaliseUpdate
    \/ IndexOutOfRange
    \/ RecordBlock

Faulty ==
    \/ ProcessHeaderFails
    \/ RecordBlockFails
    \/ \E n \in todo : DropLog(n) \/ FinaliseFails(n)
    \/ Crash

ChainStep == ChainNext /\ UNCHANGED <<tables, process, history>>

Next ==
    \/ ChainStep
    \/ \E h \in 1 .. head : ReceiveHeader(h)
    \/ NoNeedToSync
    \/ ProcessHeader
    \/ ProcessEvents
    \/ Faulty
    \/ Restart

Spec == Init /\ [][Next]_vars

(***************************************************************************)
(* Fairness: the Go scheduler runs every goroutine that can run; the       *)
(* poller ticks forever and asks for the latest head each time, so that    *)
(* the latest head is received again and again; an operator (or a service  *)
(* manager, there is none in the code) restarts a process that died.       *)
(* Nothing is assumed of the chain, of crashes or of faults.               *)
(***************************************************************************)
ReceiveLatest == head > 0 /\ ReceiveHeader(head)

FairSpec ==
    /\ Spec
    /\ SF_vars(ReceiveLatest)
    /\ WF_vars(NoNeedToSync)
    /\ WF_vars(ProcessHeader)
    /\ WF_vars(ProcessEvents)
    /\ WF_vars(Restart)

-----------------------------------------------------------------------------
(* Properties                                                               *)

Row == [acct : Nat, deposit : Nat \ {0}, root : Nat]

TypeOK ==
    /\ ChainTypeOK
    /\ lastEth \in Nat /\ lastBatch \in Nat
    /\ batches \in Seq(Nat) /\ tokens \in Seq(Nat) /\ pending \in Seq(Row)
    /\ leaves \in [Leaf -> Int]
    /\ up \in BOOLEAN
    /\ held \in Nat /\ hdr \in Nat
    /\ pc \in {"wait", "events", "update", "delete"}
    /\ todo \subseteq DOMAIN log
    /\ fin \in [accounts : Seq(Row), terminalNodes : Seq(Int), k : Nat]
    /\ handled \subseteq DOMAIN log /\ dropped \subseteq DOMAIN log

\* No log is skipped: whatever crashed, panicked or failed on the way, every
\* log up to the last block recorded went through its handler, or its handler
\* met an error that it only logged.  The block is recorded after the loop of
\* processEvents and the next range starts from what is recorded.
NoLogSkipped ==
    \A n \in DOMAIN log : log[n].blk <= lastEth => n \in handled \cup dropped

\* However often its log is delivered again, a batch has exactly one row once
\* processNewBatch has run for it.
BatchStoredOnce ==
    \A n \in handled : log[n].ev.type = "NewBatch" =>
        Cardinality({k \in DOMAIN batches : batches[k] = log[n].ev.index}) = 1

\* FinaliseDeposits never overwrites a leaf that holds a state, although the
\* emptiness of the leaves is checked before the loop that fills them and the
\* same event may be processed again after a crash in that loop.
NoLeafOverwritten ==
    [][\A l \in Leaf : leaves[l] # Zero => leaves'[l] = leaves[l]]_vars

\* A deposit appears in the tree only after a mined DepositsFinalised, and only
\* in the pair of leaves that node PathToSubTree of the last level but one has:
\* through crashes, redeliveries, rows with the root of another subtree and
\* panics in the middle of the loop.  The pair is part of the subtree that was
\* finalised when deposit subtrees have the height 1; for a greater height it
\* is not, unless the path is 0.
LeavesOfFinalisedPath ==
    \A l \in Leaf : leaves[l] > 0 =>
        \E n \in DOMAIN log : LET s == log[n].ev.subtree IN
            /\ log[n].ev.type = "DepositsFinalised"
            /\ log[n].blk <= head
            /\ l \div 2 = s
            /\ SubTreeHeight = 1 => l \in LeavesUnder(s)

\* A leaf holds a deposit of the account.
Merged(acct) ==
    \E l \in Leaf : leaves[l] \in DOMAIN Depositor /\ Depositor[leaves[l]] = acct

\* A deposit that was once stored stays pending until the tree holds it, or
\* holds another deposit of the same account: DeletePendingAccount takes all
\* the rows of the account with the one that was merged.  Crashes between the
\* update of the tree and the deletion of the pending row, duplicates, panics
\* and aborted finalisations lose nothing more.
NoDepositLost ==
    \A n \in handled : log[n].ev.type = "DepositQueued" =>
        \/ \E k \in DOMAIN pending : pending[k].deposit = log[n].ev.deposit
        \/ Merged(log[n].ev.acct)

\* The last recorded block is never in the future and never moves back, so
\* that a restart neither jumps over blocks nor starts again from the genesis.
RecordedBlockAdvances ==
    [][lastEth <= lastEth' /\ lastEth' <= head]_vars

\* The next range of logs has a batch whose input panics, and every log before
\* that batch is accounted for.
StopsAtBatch ==
    \E n \in FilterLogs(lastEth, head) :
        /\ log[n].ev.type = "NewBatch" /\ ~BatchInputOK(log[n].ev.index)
        /\ \A m \in 1 .. n - 1 : m \in handled \cup dropped

\* When the chain, the crashes and the faults come to an end, the syncer is at
\* the head for good, or has come up to a batch other than the genesis batch,
\* where FetchBatchInputData panics after every restart.  Nothing else stops
\* it: no other panic repeats for ever, no goroutine waits for another.
SyncReachesHeadOrBatch == <>[](lastEth = head \/ StopsAtBatch)

\* The syncer implements a follower of the chain: crashes, panics, errors and
\* redeliveries included, logs are accounted for in the order of the chain,
\* and the block recorded is a mined one up to which none is outstanding.
Follower == INSTANCE LogFollower
                WITH accounted <- handled \cup dropped, recorded <- lastEth

FollowsTheChain == Follower!Spec

-----------------------------------------------------------------------------
(* What comments in the code say and the code does not do.                 *)

\* core/DepositTree.go:37: "update the empty leaves with new accounts": when
\* the handler of DepositsFinalised has run to its end, the leaves of the
\* subtree hold the deposits of that subtree.
FinalisedSubtreeHoldsItsDeposits ==
    \A n \in handled : log[n].ev.type = "DepositsFinalised" =>
        {leaves[l] : l \in LeavesUnder(log[n].ev.subtree)} = DepositsOf(log[n].ev.root)

=============================================================================
