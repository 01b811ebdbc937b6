# A verification of the coordinator node (BOPR / reddit-commander)

The node of this repository is the off-chain coordinator of an optimistic
rollup. It follows the logs of the rollup contracts on Ethereum, keeps copies of
the balance tree and of the tree of public keys in MySQL, takes transactions
from users over REST and hands them in batches to an aggregator. This directory
holds TLA+ models of its stateful parts, the TLC configurations that check
them, and proofs checked by TLAPS. `PROJECT.json` lists the runs, the theorems,
the source lines behind every definition, the hazards the properties are aimed
at, and the findings.

## Inventory

| Part | State it keeps | Operations | What is hard about it |
|---|---|---|---|
| Balance tree (`core/state.go`, `core/utils.go`) | table `user_states`: one row per node, with data, hash and path | `UpdateState`, `StoreLeaf`, `StoreNode`, `GetSiblings`, `GetDepositNodeAndSiblings` | an update is 2 * depth + 1 statements without a database transaction; siblings are read before the first write |
| Account tree (`core/account.go`) | table `accounts` | `UpdateAccount`, `storeAccountLeaf`, `storeAccountNode` | both children are written back at every level; gorm adds the primary key of the struct to its UPDATE |
| Syncer (`listener/`) | table `sync_statuses`, the header in hand, the logs still to apply | `startHeaderProcess`, `processHeader`, `processEvents`, six handlers | logs are delivered at least twice (the last recorded block is fetched again), again after crashes and panics; some errors panic, others are only logged |
| Deposit finalisation (`core/DepositTree.go`) | pending rows of `user_states`, leaves of the tree | `FinaliseDeposits`, `AttachDepositInfo`, `DeletePendingAccount` | check before the loop, writes in the loop, pairing by position, repetition of the event |
| Batches and tokens (`core/batch.go`, `core/tokenRegistry.go`, `core/params.go`) | tables `batches`, `tokens`, `params` | `AddNewBatch`, `UpdateSyncStatusWith...`, `AddToken` | repetition |
| Transaction pool (`core/tx.go`, `rest/api.go`) | table `txes` | `TxReceiverHandler`, `InsertTx`, `PopTxs`, `FetchTxType` | read, then mark, in a database transaction whose errors are mixed up; row locks |
| Aggregator (`aggregator/`) | one goroutine per tick | `startAggregating`, `pickBatch` | ticks against running pops, crash after the commit |
| Transaction application (`core/tx.go`, `core/bazooka.go`) | leaves of `user_states`, column status of `txes` | `ApplyTx`, `Tx.Apply` | two leaves in one database transaction, the status outside it; errors, rejections and panics that look like success |
| Services (`core/service.go`, `cmd/start.go`) | flags `started`, `stopped`, cancel functions, database handles | `Start`, `Stop`, interrupt handler, subscription error | Start and Stop from three goroutines; the syncer exists as an object and its copy |
| Genesis (`cmd/start.go`, `config/genesis.go`) | all tables | `loadGenesisData`, `InitStateTree`, `InitAccountTree` | a crash in the middle of the bootstrap |
| Configuration (`config/`, `cmd/init.go`, `core/db.go`) | `config.toml`, `genesis.json`, the global configuration and operator key | `init`, `create-database`, every reading of the files | files are truncated before they are written, and read several times during one start |
| Migrations (`migrations/`, `cmd/migration.go`) | table `migrations`, the schema | migrate, roll back, initial schema | no database transaction, ignored errors, two processes |
| Contracts (`contracts/`) | on chain | deposits, batches, registrations | not in the repository; generated bindings only |

Interaction: the contracts emit logs; the syncer reads them and writes the
tables; the handler of `DepositsFinalised` runs `FinaliseDeposits`, which calls
`UpdateState` of the balance tree once per deposit; the handler of
`NewPubkeyAdded` runs `UpdateAccount` of the account tree; REST inserts into the
pool; the aggregator pops from it. The syncer and the aggregator are services
that `cmd/start.go` starts, after it has read the configuration and, on a new
node, loaded the genesis, and that the interrupt handler stops.

## Modules

* `TreePaths`: the paths of the nodes of a binary tree and the helpers of
  `core/utils.go` on them (parent, sibling, bit from the right, path of an index),
  shared by both trees. A path is a tuple of bits.
* `StateTree`: the balance tree. A hash is the term it was computed from, so that
  hashes collide only when their arguments are equal. One action per SQL
  statement of `UpdateState`; `Abort` is a crash or a failed statement anywhere.
  `Genesis` is the set of trees it may start from: whether a leaf without an account
  is `Zero` (its hash is `ZERO_VALUE_LEAF`) depends on what the contract's `Encode` returns
  for an all-zero state. `GetDepositSubTreeRoot` is the set of rows the function may
  return without an error, `EmptyRow` included, which is what is left of a query
  that failed.
  `stale` is a history variable: the nodes an interrupted update never brought up
  to date. The reference definition of the Merkle root, a function over the
  levels, is next to the property that uses it.
* `AccountTree`: the registration of a public key, one action per statement of
  `storeAccountLeaf`. `RowID` is the primary key a row received when the genesis
  inserted it; `UpdateSingleAccount` writes only the row that matches both the
  path and the id, as gorm does. `latest` (the leaf each pair holds) is history.
* `RollupChain` (external): the log of the contracts, as far as the listener
  uses it. Leaves and deposits are numbers; the root of a deposit subtree is the
  number of the subtree. A deposit subtree is finalised into any vacant subtree.
  Blocks are mined at any time and never reorganised.
* `LogFollower`: what any follower of a chain promises, in four actions: the log
  grows, blocks are mined, an entry is accounted for when all the earlier ones are
  and its block is mined, and the checkpoint moves to a block below which
  everything is accounted for.
* `Syncer` extends `RollupChain`: the goroutines of the listener and the tables
  they write. A handler is one action when it consists of one statement that
  writes; `FinaliseDeposits` is one action per leaf written and one per pending
  row deleted, because a crash in between matters. `lastEth`, `lastBatch`,
  `batches`, `tokens`, `pending` and `leaves` are the tables, which survive a crash;
  `held`, `pc`, `hdr`, `todo` and `fin` are the memory of the process, which does
  not. An error that panics is a crash (`Crash`, `BatchInputPanics`,
  `IndexOutOfRange`); an error that is only logged is `DropLog`, `FinaliseFails`,
  `RecordBlockFails` or `ProcessHeaderFails`. `EmptyLeaves` is what the genesis may have
  stored in the leaves without an account; `BatchInputOK` says that the input of the
  genesis batch alone can be processed.
* `Mempool`: the pool, the REST handler and the pickBatch goroutines, one action
  per statement of `PopTxs`. `updated` are the uncommitted writes of an open
  database transaction, `leaked` the rows locked by transactions that `PopTxs`
  never ended, `answer` the response a user got.
* `TxApply`: one transaction taken through `Bazooka.ApplyTx` and `Tx.Apply`. The
  contract is the external function from two states to two states; a state is a
  balance and a nonce, and the sender pays an amount and a fee (`Cost`). The fee goes
  to a receiver that a batch names, whom no operation of the repository credits. `open` is what the database transaction sees. At this
  commit the callers are commented out, so that the caller in the model is the
  most general sequential one: it may take any transaction at any time again.
* `Lifecycle`: `Start` and `Stop` of both services, one action per atomic access to
  a flag and per call in `OnStart` and `OnStop`. The syncer has two sets of flags:
  `NewSyncer` returns a copy of the object that runs its goroutines.
* `NodeConfig`: the two files, the commands `init`, `create-database` and
  `migration up`, the operator who edits the genesis file, rightly or not, and the functions of `config` and `core/db.go` that read the files.
* `Genesis` extends `NodeConfig`: the start of a node and the bootstrap, one action
  per statement of `loadGenesisData` and of `InitStateTree` and `InitAccountTree`,
  which are one algorithm on two tables. A table is kept level by level in the
  order of insertion. The configuration is read by three lists of calls, those of
  `initConfigAndGlobals`, `NewAggregator` and `NewSyncer`. A genesis file that is missing,
  does not parse, has no account, too many, no coordinator at the front or a key
  that is not hexadecimal (`Loadable`, `Validate`) panics before anything is stored;
  the file that `init` writes is one of these. `Crash` is also any error that ends in `PanicIfError`,
  `UpdateParamFails` one that is ignored. `init` may run at any time next to it.
  `torn` is history: a crash left a level with a part of its rows.
* `Migrations`: the commands of `cmd/migration.go` and the exported operations of
  `gormmigrate.go`, one action per statement, run by several processes. `broken`,
  `failed`, `cut` and `overlap` are history: what went wrong before, in terms the
  properties can except. Ids are numbers, so that `ErrMissingID` cannot happen.
* `StateTree_proofs`, `AccountTree_proofs`, `Syncer_proofs`, `Mempool_proofs`,
  `TxApply_proofs`, `Lifecycle_proofs`, `Genesis_proofs`, `Migrations_proofs`: the
  theorems about the module of the same name.
* `MCStateTree`, `MCAccountTree`, `MCSyncer`, `MCMempool`, `MCTxApply`,
  `MCMigrations`: values of the constants for TLC.

Definitions whose comment begins with "Mutant" are not part of the models. Each
is a plausible wrong version of the definition that follows it; replacing that
definition by it must violate the property `PROJECT.json` names, which shows that
the property depends on the code being right there.

## Runs

| Run | Instance | Shows |
|---|---|---|
| `state_tree` | depth 2, three data values, genesis leaves that are `Zero` or not | after any sequence of complete and interrupted updates only the parents of the last rows written are stale; with none left, the root row is the Merkle root; a row read for a deposit subtree has zero leaves only, with siblings that prove it; writes stay on one path |
| `account_tree` | depth 2, two keys | inner rows follow from what their children hold, the root stands for the key registered last in every pair of leaves, a log delivered twice changes nothing |
| `sync_batches` | 3 blocks, the genesis batch, 2 transfer batches, a key, a token, 1 crash, 2 restarts, 1 error | no log is skipped, not even by a handler that panics every time; a batch has one row; the recorded block only advances; the syncer implements `LogFollower` |
| `sync_deposits` | depth 3, subtrees of height 2, 6 deposits of which every second is of one account, 2 blocks, genesis leaves that are `Zero` or not, 1 crash, 2 restarts, 1 error | a stored deposit stays pending until the tree holds it or another one of its account; deposits appear only in the two leaves of a finalised path; no leaf is overwritten |
| `sync_liveness` | depth 2, 2 deposits, a transfer batch, 2 blocks, 1 crash, 2 restarts, 1 error | the syncer reaches the head, or comes up to a batch that panics for ever; the panics that duplicated deposits cause do not stop it |
| `pool` | 3 transactions, one of them unreadable, 2 goroutines, batches of 2, 1 failing statement, 1 crash | responses tell the truth; no transaction is marked and then forgotten, none handed out twice unless a statement failed; every pending one is picked up unless rows stay locked |
| `tx_apply` | 3 leaves, 7 transactions of four types, with fees, 5 calls, 1 failure, 1 crash | balances change by fees and mass migrations only, no transaction takes effect twice, statuses and hashes say what the rows say |
| `genesis` | depth 2, 2 accounts, chunks of 2 rows, right and wrong genesis files, 2 `init`, 5 starts, 2 crashes, 1 ignored error | a node that runs has a row for every node of both trees, every row with its Merkle hash unless a crash tore a level, its parameters unless an error was ignored, and the operator key of its configuration; once it has its sync status it is not loaded again |
| `migrations` | 3 migrations, the second without a Down, 2 processes, 3 commands, 1 failing statement or kill | a recorded migration has its tables, the recorded ones are a prefix of the list, a rollback keeps what it must keep, a lone `up` completes |
| `lifecycle` | the whole state space | `OnStop` runs at most once, a running service has its database, an interrupt ends the process |

Two runs are expected to be violated; each states what a comment of the
repository says and is listed with the quotation under "findings":

* `nothing_merged`: when the contract encodes an all-zero state as its four words, the
  genesis leaves are not `ZERO_VALUE_LEAF`, `FinaliseDeposits` refuses every subtree, and the
  handler of a finalised subtree ends with no deposit in its leaves;
* `account_row`: `UpdateAccount` of an account other than 0 finishes without an
  error and leaves the row of its leaf as it was. The property is about the last
  statement of a registration, so that interrupted ones do not count. The handler sets the primary
  key to the account id, the row has the id of its insertion, and an UPDATE that
  matches no row is no error. The parents do get the new hash, which is why
  `InnerRowsFollow` and `RootHoldsLatestKeys` speak of what the children *hold*:
  of two keys registered in one pair of leaves the earlier one is forgotten.

### What the properties except, and why

Several properties hold with an exception that is a behaviour of this commit,
written into the property where a reader meets it:

* Syncer. The ABI that `FetchBatchInputData` unpacks with has no method `submitBatch`, so
  that every batch but the genesis one panics, is delivered again, and keeps the
  syncer at its block: `SyncReachesHeadOrBatch` names this end (`StopsAtBatch`) and excludes
  any other. `FinaliseDeposits` looks for its leaves at the level `MaxDepth - 1`, which is
  right for deposit subtrees of height 1; for a greater height, that of the default
  genesis included, the two leaves it fills are not those of the subtree, unless
  the path is 0. `LeavesOfFinalisedPath` says for every height which leaves are
  written, and that they lie under the subtree if the height is 1.
  `DeletePendingAccount` deletes all the rows of an account, so that of two pending
  deposits of one account one is lost when the other is merged: `NoDepositLost` names
  this loss (`Merged`) and excludes any other. With genesis leaves that are `ZERO_VALUE_LEAF`,
  a deposit whose log was delivered twice has two pending rows and may fill both
  leaves of its pair.
* Deposit nodes. A query that fails with anything but "not found" makes
  `GetDepositNodeAndSiblings` offer a row that was not read, of which `DepositNodeIsVacant`
  says nothing; with genesis leaves that are not `ZERO_VALUE_LEAF` no row is found.
* Pool. `PopTxs` tests the wrong error after its UPDATE, hands out rows that
  stayed pending, and may return with its database transaction open. Its locks
  starve the pool: every pop reads the same oldest rows first and fails to mark
  them. `HandedOutAtMostOnce` and `PendingIsPicked` therefore exclude a failed
  statement and rows that stay locked for ever. An unreadable request is answered with an
  error and inserted all the same, as a transaction without its fields
  (`rest/api.go:35-37`), which `AnswersAreTrue` names.
* Application. In a transfer to oneself the state of the receiver, computed from
  the same leaf, overwrites that of the sender: the amount is created and the
  nonce stays, and no fee is paid (`Effect`, `ToSelf`). `applyMassMigrationTx` returns no state for the
  receiver; its hash is then that of nothing, and gorm keeps its data (`blanked`).
* Migrations. `migration down` always rolls back every migration, from the first to
  the last, whatever `--all` and `--to` say (`cmd/migration.go:89-103` against the help
  text at `:34-35`): `GetBool` returns an error only for a flag that was not
  declared. Killed in between, it leaves later migrations without earlier ones (`cut`). A
  rollback killed between its DROP and its DELETE leaves a recorded migration
  without tables, which no `up` repairs (`broken`), and so does a CREATE TABLE whose
  error Up ignores (`failed`). Two commands at once of which one is a rollback
  may end anywhere (`overlap`).
* Services. The goroutine that is to stop the syncer when its subscription fails
  ("stop service", `listener/syncer.go:163-168`) calls Stop on the object
  whose copy was started; it returns an error and the syncer goes on without new
  headers. An interrupt between the compare-and-swap of `Start` and the
  assignments of `OnStart` makes `OnStop` call a nil function; `InterruptEnds` holds in
  that case because the process panics.
* Genesis. `RunningTreesAreMerkle` excepts a bootstrap in which a crash left a level
  with a part of its rows (`torn`), because every attempt pairs the rows of the
  earlier ones with its own, by position. A crash right after the coordinator's
  leaf leaves an odd number of leaves, on which every later attempt panics; a
  second crash at that place makes the number even again, and the rows of the
  levels above are then paired out of step. A crash between two chunks of one
  `BulkInsert` has the same effect. Even then a node that runs has a row for every
  node (`RunningIsLoaded`). `RunningKeyIsConfigured` excludes a configuration that a full disk cut short
  after the settings of the database, which is read without an error and
  without a key.

### Bounds

Two transfer batches and two subtrees are enough for an event to be applied
while an older one is repeated and a newer one waits; one crash and one error
give every pair of a failure at any statement followed by a complete
repetition. Further crashes repeat the same repetition from states already
reached, and the theorems below hold for any number of them. A panic on a batch
repeats for ever and every repetition adds rows for the logs before it;
`MaxRestarts` ends this after the process has died three times, which is why the
runs of the syncer do not check for deadlock: the process may stay down. A tree of depth 2
has all kinds of nodes (leaf, inner node with and without inner children, root)
and both directions at each level; two keys, one of them that of an empty leaf,
let a registration change a leaf and change it back. Two goroutines and three
transactions let a pop overlap a pop and leave a transaction behind; the
aggregator's wait group never allows more than one at a time. Five calls apply
a transaction, spend what it brought, and take both again after a failure.
Three migrations have a first, a last and one in between that cannot be rolled
back; three commands let a command find what a killed one left while another
process runs. Two `init` give a configuration and its replacement. Two crashes of
the bootstrap and leaves inserted in two chunks tear a level once, and let a
second cut make the number of its rows even again.

### Fairness

`FairSpec` of `Syncer` assumes weak fairness of the goroutines, which the Go
scheduler gives, strong fairness of the reception of the latest head (the
poller asks for it at every tick, for ever), and that a process that died is
started again, which is up to the operator. Of the chain, of crashes and of
errors nothing is assumed: `SyncReachesHeadOrBatch` holds because their number is bounded
in the instance. `FairSpec` of `Mempool` assumes that the ticker ticks and its
goroutine runs; `FairSpec` of `Lifecycle` that goroutines run; `FairSpec` of
`Migrations` that the process of a command keeps running. Of users, operators
and kills nothing is assumed.

## Refinement

`Syncer` implements `LogFollower` (`FollowsTheChain`), with `accounted` mapped to the
logs that were handled or dropped by a logged error, and `recorded` to the
recorded block. A log that is delivered again, a header that is too old, a
crash and a panic are stuttering steps. TLC checks the refinement in `sync_batches`
and the theorem `SyncerFollowsTheChain` proves it for every chain and any number of
failures. It says more than `NoLogSkipped`: logs are accounted for in the order of
the chain, although every range starts with logs that were applied before.

## Theorems

All for arbitrary constants, from the assumptions named in the modules, which
TLC evaluates on every instance: `DepthAssumption` (`TreePaths`); `GenesisAssumption`
(the tables a `StateTree` starts from, and the sizes in `Genesis`);
`AccountAssumption`; `ChainAssumption` and `SyncerAssumption`; `MempoolAssumption`;
`TxApplyAssumption`; `InitsAssumption`; `MigrationsAssumption`, and `SortAssumption`,
which is what `sort.Slice` promises of the list of migrations. No theorem has a
further hypothesis.

Every safety property that a passing run checks is stated by a theorem.

### Balance tree (`StateTree_proofs`)

* `TypeCorrect`, `TreeConsistency`, `UpdateStaysOnThePath`. The
  inductive invariant `IInv` adds to the consistency of the rows what
  `StoreLeaf` knows in the middle of its loop (`StoreLeafInv`): the computed node is the
  prefix of the path at height i, its row has or is about to get the computed
  hash, and the siblings above i are still the rows they were read from. The
  last part is why it matters that writes stay on the path: a sibling is never
  on it. Without `StoreLeafInv` the invariant is not inductive, since nothing
  would tie the hash written into the parent to the rows of the children.
* `RootRowIsMerkleRoot`. With no stale node every row is the hash of its children;
  from the leaves up, row and Merkle hash agree level by level.
* `DepositNodeVacant`. The rows of a node that was read and of those below it
  carry default hashes, from the node down to the leaves, because hashes are
  injective; and the siblings that are read lead from the node up to the root row.

### Account tree (`AccountTree_proofs`)

* `InnerRowsFollowTheChildren`, `RedeliveryIsIdempotent`. `AccountInv` has the parts of
  `StoreLeafInv`, and two that the account tree needs because the UPDATE of a
  leaf may match no row: the leaf that a pair holds (`latest`) is in the table
  whenever its UPDATE matches (`LatestInv`), and while a key that the tree holds
  is registered again no inner row is out of date, not even the one that is
  written next (`AgainInv`). Without `LatestInv` the second registration would be
  compared with a row about which nothing is known.
* `RootHoldsTheLatestKeys`. As for the balance tree, over what the pairs hold.

### Syncer (`Syncer_proofs`)

* `NoLogIsSkipped`, `RecordedBlockOnlyAdvances`. `SyncInv`: the
  header being processed lies beyond the recorded block and not beyond the head,
  and every log up to it was handled, dropped by a logged error, or is still on
  the list (`RangeInv`). The range a header fetches starts at the recorded block,
  below which everything is accounted for already, and logs that are mined
  later lie above the head.
* `SyncerFollowsTheChain`. `FollowInv` adds that the log is in the
  order of the blocks and that no log on the list lies beyond its header, so that
  a log before the first one on the list is accounted for. `Delivers` is what
  most steps do to the abstract state: nothing, or they account for the
  first log on the list.
* `LeavesAreNotOverwritten`. `FinInv`: while `FinaliseDeposits` runs
  its terminal nodes are two different leaves, and those the loop has not
  reached are still empty. The check is made before the loop and holds until
  the leaf is written because a single goroutine writes leaves.
* `SyncerTypes`. `TypeInv` adds that `FinaliseDeposits` works for the first log on the
  list and that its index is that of one of its accounts (`LoopInv`).
* `BatchesAreStoredOnce`. `BatchInv`: no two rows are of one batch, and a handled
  batch has a row. A crash between the INSERT and the update of the sync status
  leaves a row whose log is not handled, which the lookup of the next delivery finds.
* `DepositsAtFinalisedPaths`: while `FinaliseDeposits` runs, its terminal nodes are those of
  the log it works for (`LoopInv`), which is mined (`FollowInv`), for every height of the
  subtrees.
* `DepositsAreKept`. `KeptInv`: a pending row carries the account that made its deposit,
  and before the rows of an account are deleted a leaf holds a deposit of it. As
  leaves are not overwritten, it stays there.

### Pool (`Mempool_proofs`)

* `PoolTypes`, `MarkedTransactionsAreTaken`, `ResponsesAreTrue`.
  `PoolInv` adds what a goroutine holds: what it popped is in the pool, and what
  its open transaction updated is among that, so that only what is about to be
  handed on can become marked.
* `HandedOutOnce`. `HandInv`: one goroutine at a time
  (`OneAtATime`), and as long as nothing failed, what it popped stays pending until
  its COMMIT and is then marked and not yet handed on (`OnceInv`). Without the
  first part the second is not inductive: PopTxs itself locks nothing
  between its SELECT and its UPDATE.

### Application (`TxApply_proofs`)

* `TransactionsApplyOnce`, `HashesFollowData`, `StatusIsTrue`.
  `TableInv`: the states that were read are still those of the table, the new
  states are what `ApplyTx` makes of them, and what the open transaction sees
  follows from both (`CallInv`). `NonceInv`: an applied transaction has a nonce below
  that of its sender, which is committed with the balance. `StatusInv`: between
  the update of the status and the COMMIT the status is ahead of the table.
* `SupplyIsConserved`. Lemmas on sums over a finite set of leaves say what a sum
  becomes when one or two summands change; `CallInv` says which two change at the
  COMMIT, and by how much: by `Change` of the transaction, its fee included.

### Services (`Lifecycle_proofs`)

* `LifecycleTypes`, `EnteredAtMostOnce`, `RunningServicesHaveDatabases`. `LifeInv`: the
  subscription goroutine stops the object that nobody starts and never gets beyond
  the check of its flag (`PcInv`); OnStart is not entered before its place in
  `StartCmd` (`StartInv`); only the interrupt handler enters OnStop, of each service at
  its place (`StopInv`); and the flag that Stop takes back is the one it set
  (`FlagInv`), without which a second Stop could pass the compare-and-swap.

### Genesis (`Genesis_proofs`)

* `KeyIsConfigured`. `KeyInv`: what each reading of the configuration leaves in the
  globals until the next one, whatever `init` does to the file in between.
* `GenesisTypes`, `RunningNodeIsLoaded`, `GenesisLoadedOnce`. `TreeInv`: the *last* rows of a
  level, together with the batch that is still to be sent, are a complete level
  from the left to the right (`Ends`), whatever earlier attempts left before them;
  the levels and tables that are done are whole, and the sync status is written
  after both. As the number of rows is even when a level is paired, the pairs at the
  end are those of the tree.
* `RunningTreesCarryMerkleHashes`. `MerkleInv`: while no level is torn, a level consists
  of complete passes, one after the other (`Passes`: the k-th row is that of the node
  (k - 1) modulo the size of the level, with its Merkle hash), the pass under way
  together with its batch. `TreeInv` says nothing about the rows before the last
  pass, which is why the second invariant is needed.

### Migrations (`Migrations_proofs`)

* `MigrationTypes`. `RunInv`: where the loop of each command is, and that commands that
  run at the same time are in `overlap`.
* `RecordIsTrue`. `TablesInv` adds what Up has created so far and that it stays as long
  as nobody rolls back (`UpInv`).
* `RecordIsPrefix`. `OrderInv` adds what the loops leave behind them: `up` recorded
  migrations, `down` and the rollbacks none (`LoopInv`).
* `RollbackKeeps`. `GoalInv`: RollbackTo has not reached the migration it is to keep.

### Facts the proofs share

The provers know nothing of powers, of recursive functions or of induction over a
predicate. `PowerOfTwo` follows from the number of subsets of a finite set;
`LeastNumber` from the well-foundedness of the order on the naturals, and from it
induction for a set of numbers (`Induction`). A recursive function (the Merkle
hashes, the rows a WHERE selects) is unfolded after its equation has been shown to
have a solution, by that induction (`MerkleTreeDef` and the like).

### Only model-checked

`SyncReachesHeadOrBatch`, `PendingIsPicked`, `InterruptEnds` and `UpCompletes` depend on fairness,
which is out of the prover's reach. The two runs that are expected to be violated
are counterexamples and have nothing to prove.

## Not modelled, and the plan

The plan of modules and of theorems about their safety properties is carried
out. What could follow: the conditions on states of `LogFollower` as consequences of
its specification alone, and a refinement of the account tree and the balance
tree to a map from leaves to values with a root.

Left out:

* reorganisations and rollbacks of batches: the code has no handler for them, and
  `ConfirmationBlocks` is never read;
* `SubmitBatch`, `FireDepositFinalisation`, `ProcessTx`, `ApplySingleTx`, the proofs and
  compressed transactions made for the contract: commented out, or without
  callers at this commit;
* the wallet, `filePV`, and the commands that sign, print or create users: keys
  and output without a state of their own;
* the encoding of a single transfer: `EncodeTransferTx` fills the fields amount, fee
  and nonce with the token, the nonce and the amount (`core/bazooka.go:292`), and
  nothing that is sent depends on it;
* `SolidityPathToNodePath` beyond the depth of the tree, where its unsigned
  subtraction wraps around: the contracts assign no such index;
* event decoding (`common/unpack.go`) and the generated contract bindings, except
  the event types and the calls that the models name.
