----------------------------- MODULE RollupChain -----------------------------
(***************************************************************************)
(* The rollup contracts as the coordinator sees them: the logs of the      *)
(* logger contract (contracts/logger/logger.abi) in the order FilterLogs   *)
(* returns them, each with the number of its block.  The contracts are not *)
(* part of the repository; this module says what the listener relies on:   *)
(*   - deposits are numbered in the order they are queued, and the one     *)
(*     that fills a subtree also announces the root of the subtree;        *)
(*   - subtrees are finalised in the order they became ready, each into a  *)
(*     vacant subtree of the balance tree, by a batch of its own;          *)
(*   - batches are numbered without gaps, the genesis batch being 0.       *)
(* Blocks are never reorganised.  A deposit is represented by its number,  *)
(* the root of a deposit subtree by the number of the subtree.             *)
(***************************************************************************)
EXTENDS Integers, Sequences

CONSTANTS
    Depth,          \* depth of the balance tree
    SubTreeHeight,  \* height of a deposit subtree, set on the contract
    GenesisLeaves,  \* the leaves that held an account from the start
    Depositor,      \* Depositor[n]: the account id of the n-th deposit
    MaxBlocks, MaxDeposits, MaxTransfers, MaxTokens, MaxPubkeys   \* bounds

VARIABLES
    log,        \* the logs mined so far and those of the block being built
    head,       \* the number of the latest block
    queued,     \* deposits made
    submitted,  \* deposit subtrees finalised
    vacant,     \* subtrees of the balance tree without accounts
    nbatches, ntokens, npubkeys

chainVars == <<log, head, queued, submitted, vacant, nbatches, ntokens, npubkeys>>

ASSUME ChainAssumption ==
    /\ Depth \in Nat \ {0}
    /\ SubTreeHeight \in 1 .. Depth
    /\ \A n \in {MaxBlocks, MaxDeposits, MaxTransfers, MaxTokens, MaxPubkeys} : n \in Nat
    /\ Depositor \in [1 .. MaxDeposits -> Nat]

\* Leaves by number, read from left to right.
Leaf == 0 .. 2 ^ Depth - 1

SubTreeSize == 2 ^ SubTreeHeight

\* The leaves of a deposit subtree inserted at node s of its level.
LeavesUnder(s) == {l \in Leaf : l \div SubTreeSize = s}

\* The deposits of the r-th subtree.
DepositsOf(r) == (r - 1) * SubTreeSize + 1 .. r * SubTreeSize

NewBatch(n) == [type |-> "NewBatch", index |-> n]
DepositQueued(n) == [type |-> "DepositQueued", acct |-> Depositor[n], deposit |-> n]
DepositSubTreeReady(r) == [type |-> "DepositSubTreeReady", root |-> r]
DepositsFinalised(r, s) == [type |-> "DepositsFinalised", root |-> r, subtree |-> s]
RegisteredToken(n) == [type |-> "RegisteredToken", token |-> n]
NewPubkeyAdded(n) == [type |-> "NewPubkeyAdded", acct |-> n]

Event ==
    [type : {"NewBatch"}, index : Nat]
        \cup [type : {"DepositQueued"}, acct : Nat, deposit : Nat \ {0}]
        \cup [type : {"DepositSubTreeReady"}, root : Nat]
        \cup [type : {"DepositsFinalised"}, root : Nat, subtree : Leaf]
        \cup [type : {"RegisteredToken"}, token : Nat]
        \cup [type : {"NewPubkeyAdded"}, acct : Nat]

Entry == [blk : Nat, ev : Event]

Emit(events) ==
    log' = log \o [k \in 1 .. Len(events) |-> [blk |-> head + 1, ev |-> events[k]]]

ChainInit ==
    /\ log = <<[blk |-> 1, ev |-> NewBatch(0)]>>
    /\ head = 0
    /\ queued = 0
    /\ submitted = 0
    /\ vacant = {s \in Leaf : /\ LeavesUnder(s) # {}
                              /\ LeavesUnder(s) \cap GenesisLeaves = {}}
    /\ nbatches = 1
    /\ ntokens = 0
    /\ npubkeys = 0

Deposit ==
    /\ queued < MaxDeposits
    /\ queued' = queued + 1
    /\ Emit(IF queued' % SubTreeSize = 0
            THEN <<DepositQueued(queued'), DepositSubTreeReady(queued' \div SubTreeSize)>>
            ELSE <<DepositQueued(queued')>>)
    /\ UNCHANGED <<head, submitted, vacant, nbatches, ntokens, npubkeys>>

SubmitDeposits(s) ==
    /\ submitted < queued \div SubTreeSize
    /\ submitted' = submitted + 1
    /\ vacant' = vacant \ {s}
    /\ nbatches' = nbatches + 1
    /\ Emit(<<DepositsFinalised(submitted', s), NewBatch(nbatches)>>)
    /\ UNCHANGED <<head, queued, ntokens, npubkeys>>

SubmitTransfer ==
    /\ nbatches < 1 + submitted + MaxTransfers
    /\ nbatches' = nbatches + 1
    /\ Emit(<<NewBatch(nbatches)>>)
    /\ UNCHANGED <<head, queued, submitted, vacant, ntokens, npubkeys>>

RegisterToken ==
    /\ ntokens < MaxTokens
    /\ ntokens' = ntokens + 1
    /\ Emit(<<RegisteredToken(ntokens')>>)
    /\ UNCHANGED <<head, queued, submitted, vacant, nbatches, npubkeys>>

RegisterPubkey ==
    /\ npubkeys < MaxPubkeys
    /\ npubkeys' = npubkeys + 1
    /\ Emit(<<NewPubkeyAdded(npubkeys')>>)
    /\ UNCHANGED <<head, queued, submitted, vacant, nbatches, ntokens>>

\* The block being built becomes the latest block.
MineBlock ==
    /\ head < MaxBlocks
    /\ head' = head + 1
    /\ UNCHANGED <<log, queued, submitted, vacant, nbatches, ntokens, npubkeys>>

ChainNext ==
    \/ Deposit
    \/ \E s \in vacant : SubmitDeposits(s)
    \/ SubmitTransfer
    \/ RegisterToken
    \/ RegisterPubkey
    \/ MineBlock

-----------------------------------------------------------------------------

ChainTypeOK ==
    /\ log \in Seq(Entry)
    /\ head \in Nat
    /\ queued \in 0 .. MaxDeposits
    /\ submitted \in Nat
    /\ vacant \subseteq Leaf
    /\ nbatches \in Nat /\ ntokens \in Nat /\ npubkeys \in Nat

=============================================================================
