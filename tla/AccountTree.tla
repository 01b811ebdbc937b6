----------------------------- MODULE AccountTree -----------------------------
(***************************************************************************)
(* The tree of public keys kept in the MySQL table accounts                *)
(* (core/account.go) and processNewPubkeyAddition, the handler of the      *)
(* syncer that registers a key in it.  The algorithm is that of the        *)
(* balance tree (StateTree) with three differences: both children are      *)
(* written back at every level, the siblings with the rows read at the     *)
(* beginning; the primary key of this table is called id, so that gorm     *)
(* adds `id = ?` to the UPDATE of every account whose ID is not zero; and  *)
(* NewAccount puts the index of the account there, while the rows have the *)
(* ids MySQL gave them in the order of their insertion.                    *)
(*                                                                         *)
(* The genesis has the coordinator's account only, and its bootstrap was   *)
(* not interrupted (Genesis has the other cases).                          *)
(***************************************************************************)
EXTENDS TreePaths

CONSTANTS
    Keys,       \* the public keys, NoKey being the empty one
    NoKey,
    InitHash    \* column hash as InitAccountTree left it

ZeroLeaf == <<"zero">>

PopulateHash(key) == IF key = NoKey THEN ZeroLeaf ELSE <<"key", key>>

NewAccount(id, key, path) == [id |-> id, path |-> path, hash |-> PopulateHash(key)]

ASSUME AccountAssumption ==
    /\ InitHash = [n \in Node |-> InitHash[n]]
    /\ \A n \in Inner : Matches(InitHash, n)

AccountIDs == 0 .. 2 ^ Depth - 1

\* Column id: the leaves are inserted from the left to the right and get the
\* numbers from 1 on, the nodes of the level above follow, and so on.
RowID(n) ==
    LET level == Len(n)
        index == CHOOSE x \in 0 .. 2 ^ level - 1 : SolidityPathToNodePath(x, level) = n
    IN  2 ^ (Depth + 1) - 2 ^ (level + 1) + index + 1

VARIABLES
    hash,       \* column hash
    pc,         \* what storeAccountLeaf does next
    i,          \* its loop counter
    leaf,       \* pdaLeaf: the account given to UpdateAccount
    computed,   \* computedNode: ID, path and hash
    siblings,   \* the rows GetAccountSiblings read
    \* History.
    latest,     \* of each pair of leaves: the one that gave the parent its hash
    again,      \* the key being registered is what the tree holds already
    stale       \* the nodes whose parent an update never got to

local == <<pc, i, leaf, computed, siblings>>
history == <<latest, again, stale>>
vars == <<hash, local, history>>

GetAccountLeafByPath(n) == [id |-> RowID(n), path |-> n, hash |-> hash[n]]

Nobody == [id |-> 0, path |-> <<>>, hash |-> ZeroLeaf]
Pairs == [1 .. Depth - 1 -> Bit]

Init ==
    /\ hash = InitHash
    /\ pc = "idle" /\ i = 0
    /\ computed = [id |-> RowID(<<>>), path |-> <<>>, hash |-> InitHash[<<>>]]
    /\ leaf = GetAccountLeafByPath([k \in 1 .. Depth |-> 0])
    /\ siblings = [k \in 0 .. Depth - 1 |-> computed]
    /\ latest = [n \in Pairs |-> Nobody]
    /\ again = FALSE /\ stale = {}

\* GetAccountSiblings: all of them are read before anything is written.
GetAccountSiblings(path) ==
    [k \in 0 .. Depth - 1 |-> GetAccountLeafByPath(GetOtherChild(SubSeq(path, 1, Depth - k)))]

\* Whether the tree holds the account already, in the root as well.
Held(account) ==
    /\ latest[GetParentPath(account.path)] = account
    /\ stale = {}

\* The handler up to the first statement of UpdateAccount.  When GetParams
\* fails, it returns without an effect.
ProcessNewPubkeyAddition(accountID, key) ==
    /\ pc = "idle"
    /\ leaf' = NewAccount(accountID, key, SolidityPathToNodePath(accountID, Depth))
    /\ computed' = leaf'
    /\ siblings' = GetAccountSiblings(leaf'.path)
    /\ i' = 0 /\ pc' = "left"
    /\ again' = Held(leaf')
    /\ UNCHANGED <<hash, latest, stale>>

-----------------------------------------------------------------------------
(* storeAccountLeaf and storeAccountNode                                    *)

\* UPDATE ... WHERE path = ?, and id = ? unless the ID is zero.  A statement
\* that matches no row succeeds.
MatchesRow(node) == node.id \in {0, RowID(node.path)}

UpdateSingleAccount(node) ==
    IF MatchesRow(node) THEN [hash EXCEPT ![node.path] = node.hash] ELSE hash

IsLeft == GetNthBitFromRight(leaf.path, i) = 0
Left == IF IsLeft THEN computed ELSE siblings[i]
Right == IF IsLeft THEN siblings[i] ELSE computed

StoreLeft ==
    /\ pc = "left"
    /\ hash' = UpdateSingleAccount(Left)
    /\ pc' = "right"
    /\ UNCHANGED <<i, leaf, computed, siblings, history>>

StoreRight ==
    /\ pc = "right"
    /\ hash' = UpdateSingleAccount(Right)
    /\ pc' = "parent"
    /\ UNCHANGED <<i, leaf, computed, siblings, history>>

\* Mutant: the computed node is always taken for the left child.
ParentHashUnordered == GetParent(computed.hash, siblings[i].hash)

ParentHash == GetParent(Left.hash, Right.hash)

\* updateParentAccountWithHash, and the parent read back.
UpdateParentAccountWithHash ==
    LET parent == GetParentPath(computed.path) IN
    /\ pc = "parent"
    /\ hash' = UpdateSingleAccount([id |-> 0, path |-> parent, hash |-> ParentHash])
    /\ computed' = [id |-> RowID(parent), path |-> parent, hash |-> hash'[parent]]
    /\ i' = i + 1
    /\ pc' = IF i + 1 = Depth THEN "root" ELSE "left"
    /\ latest' = IF i = 0 THEN [latest EXCEPT ![parent] = leaf] ELSE latest
    /\ stale' = stale \ {parent}
    /\ UNCHANGED <<leaf, siblings, again>>

UpdateAccountRootNodes ==
    /\ pc = "root"
    /\ hash' = UpdateSingleAccount([id |-> 0, path |-> <<>>, hash |-> computed.hash])
    /\ pc' = "idle"
    /\ UNCHANGED <<i, leaf, computed, siblings, latest, again, stale>>

\* A row may have been written whose parent has not.
Unpropagated == pc \in {"left", "right", "parent"} /\ (i > 0 \/ MatchesRow(leaf))
InFlight == IF Unpropagated THEN {GetParentPath(computed.path)} ELSE {}

\* The process dies, or a statement fails and the handler panics.
Abort ==
    /\ pc # "idle"
    /\ pc' = "idle"
    /\ stale' = stale \cup InFlight
    /\ UNCHANGED <<hash, i, leaf, computed, siblings, latest, again>>

Next ==
    \/ \E id \in AccountIDs, key \in Keys : ProcessNewPubkeyAddition(id, key)
    \/ StoreLeft
    \/ StoreRight
    \/ UpdateParentAccountWithHash
    \/ UpdateAccountRootNodes
    \/ Abort

Spec == Init /\ [][Next]_vars

-----------------------------------------------------------------------------
(* Properties                                                               *)

\* What the tree holds for a child of a pair: the key registered last in the
\* pair, the row for the other leaf.
Holds(n) ==
    IF n \in Leaf /\ latest[GetParentPath(n)].path = n
    THEN latest[GetParentPath(n)].hash ELSE hash[n]

\* The Merkle tree over the leaves, computed from scratch: the hashes of the
\* nodes of height k.
MerkleHashes(leaves) ==
    LET H[k \in 0 .. Depth] ==
            [n \in [1 .. Depth - k -> Bit] |->
                IF k = 0 THEN leaves[n]
                ELSE GetParent(H[k - 1][Append(n, 0)], H[k - 1][Append(n, 1)])]
    IN  H

\* Whatever mixture of finished and interrupted registrations came before, an
\* inner row is the hash of what its children hold, save the parent of the last
\* row that an interrupted UpdateAccount wrote; the siblings written back with
\* rows read before the first write disturb nothing.  Of two keys registered in one
\* pair of leaves the earlier one is forgotten (unless it is account 0): its row
\* was never written, and the other registration reads the row.
InnerRowsFollow ==
    \A n \in Inner \ (stale \cup InFlight) :
        hash[n] = GetParent(Holds(Append(n, 0)), Holds(Append(n, 1)))

\* When no registration is running and none was interrupted without a later one
\* passing through the node it left behind, the root is the Merkle root of the
\* keys the tree holds: of each pair, the one registered last and the row of the
\* other.
RootHoldsLatestKeys ==
    pc = "idle" /\ stale = {} =>
        hash[<<>>] = MerkleHashes([p \in Leaf |-> Holds(p)])[Depth][<<>>]

\* The logs of the last recorded block are delivered again with every range: the
\* second registration of a key changes no row, when no other key of the pair
\* was registered in between.
RedeliveryChangesNothing == [][again => hash' = hash]_vars

\* core/account.go:319, "updateSingleAccount will simply replace all the changed
\* fields": when the registration of a key finishes, without an error on the way,
\* the key is in the row of its leaf.
RegisteredIsStored == [][UpdateAccountRootNodes => hash'[leaf.path] = leaf.hash]_vars
==============================================================================
