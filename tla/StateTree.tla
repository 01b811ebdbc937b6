------------------------------ MODULE StateTree ------------------------------
(***************************************************************************)
(* The balance tree kept in the MySQL table user_states (core/state.go):   *)
(* one row per node of a complete binary tree, the row of an inner node    *)
(* caching the hash of its two children.  DB.UpdateState replaces a leaf   *)
(* and then rewrites the hashes on the way to the root, one UPDATE         *)
(* statement after another and outside any database transaction, so a      *)
(* crash or a failed statement leaves the update half done.                *)
(*                                                                         *)
(* One update is in flight at a time: the only caller at this commit is    *)
(* FinaliseDeposits, run by the single goroutine of the syncer.            *)
(***************************************************************************)
EXTENDS TreePaths

CONSTANTS
    Data,       \* the contents of the data column of a leaf
    Zero,       \* the content whose hash is ZERO_VALUE_LEAF: 32 zero bytes
    Genesis     \* the columns data and hash the genesis may have created

CreateAccountHash(d) == <<d>>

\* What InitStateTree leaves behind: every hash is that of the children.  The
\* leaves without an account hold what the contract's Encode returned for the
\* first account, which is Zero only if that is one word.
ASSUME GenesisAssumption ==
    \A g \in Genesis :
        /\ g.data \in [Leaf -> Data]
        /\ g.hash = [n \in Node |-> g.hash[n]]
        /\ \A p \in Leaf : g.hash[p] = CreateAccountHash(g.data[p])
        /\ \A n \in Inner : Matches(g.hash, n)

-----------------------------------------------------------------------------

VARIABLES
    data,       \* column data of the leaves
    hash,       \* column hash of all the nodes
    pc,         \* what StoreLeaf does next
    i,          \* its loop counter: the height of computedNode
    path,       \* the path of the leaf being updated
    computed,   \* computedNode: its path, its hash and, for a leaf, its data
    siblings,   \* the hashes GetSiblings read before the first write
    stale       \* history: the nodes whose parent an update never got to

rows == <<data, hash>>
local == <<pc, i, path, computed, siblings>>
vars == <<data, hash, pc, i, path, computed, siblings, stale>>

Init ==
    /\ \E g \in Genesis : data = g.data /\ hash = g.hash
    /\ pc = "idle"
    /\ i = 0
    /\ path = [k \in 1 .. Depth |-> 0]
    /\ computed = [path |-> path, hash |-> hash[path], data |-> data[path]]
    /\ siblings = [k \in 0 .. Depth - 1 |-> hash[<<>>]]
    /\ stale = {}

\* All the siblings on the way up are read before anything is written.
GetSiblings(p) ==
    [k \in 0 .. Len(p) - 1 |-> hash[GetOtherChild(SubSeq(p, 1, Len(p) - k))]]

\* The hash of a subtree of height h all of whose leaves are ZERO_VALUE_LEAF.
GenDefaultHashes[h \in 0 .. Depth] ==
    IF h = 0 THEN CreateAccountHash(Zero)
    ELSE GetParent(GenDefaultHashes[h - 1], GenDefaultHashes[h - 1])

\* A row as a query returns it: nothing is in it when none was read.
Found(n) == [path |-> n, read |-> TRUE]
EmptyRow == [path |-> <<>>, read |-> FALSE]

\* Mutant: the hash is not compared.
SubTreeRootAtLevel(expected, level) ==
    {Found(n) : n \in {m \in Node : Len(m) = level}} \cup {EmptyRow}

\* What the function may return with a nil error: First takes one of the rows
\* with the hash, and an error other than RecordNotFound is not passed on, so
\* that the row is empty and its path that of the root.
GetDepositSubTreeRoot(expected, level) ==
    {Found(n) : n \in {m \in Node : Len(m) = level /\ hash[m] = expected}} \cup {EmptyRow}

\* The node for a deposit subtree of height h, and the siblings that prove its
\* place in the tree: what SendDepositFinalisationTx asks for.
GetDepositNodeAndSiblings(h) ==
    {[node |-> row, siblings |-> GetSiblings(row.path)] :
        row \in GetDepositSubTreeRoot(GenDefaultHashes[h], Depth - h)}

UpdateState(p, d) ==
    /\ pc = "idle"
    /\ path' = p
    /\ computed' = [path |-> p, hash |-> CreateAccountHash(d), data |-> d]
    /\ siblings' = GetSiblings(p)
    /\ i' = 0
    /\ pc' = "node"
    /\ UNCHANGED <<data, hash, stale>>

\* Mutant: the hash is written into the data column too.
StoreHashAsData ==
    /\ pc = "node"
    /\ hash' = [hash EXCEPT ![computed.path] = computed.hash]
    /\ data' = IF i = 0 THEN [data EXCEPT ![path] = computed.hash] ELSE data
    /\ pc' = "parent"
    /\ UNCHANGED <<i, path, computed, siblings, stale>>

\* StoreNode, first statement: the row of the computed node itself.
\* updateAccount sets the data column of a leaf only, the data of an inner
\* node being blank.
StoreNode ==
    /\ pc = "node"
    /\ hash' = [hash EXCEPT ![computed.path] = computed.hash]
    /\ data' = IF i = 0 THEN [data EXCEPT ![path] = computed.data] ELSE data
    /\ pc' = "parent"
    /\ UNCHANGED <<i, path, computed, siblings, stale>>

\* Mutant: the computed node is always taken for the left child.
ParentHashUnordered == GetParent(computed.hash, siblings[i])

ParentHash ==
    IF GetNthBitFromRight(path, i) = 0
    THEN GetParent(computed.hash, siblings[i])
    ELSE GetParent(siblings[i], computed.hash)

\* StoreNode, second statement: the hash of the parent, whose row StoreLeaf
\* reads back as the next computed node.
UpdateParentWithHash ==
    LET parent == GetParentPath(computed.path) IN
    /\ pc = "parent"
    /\ hash' = [hash EXCEPT ![parent] = ParentHash]
    /\ computed' = [path |-> parent, hash |-> hash'[parent], data |-> computed.data]
    /\ i' = i + 1
    /\ pc' = IF i + 1 = Depth THEN "root" ELSE "node"
    /\ stale' = stale \ {parent}
    /\ UNCHANGED <<data, path, siblings>>

UpdateRootNodeHashes ==
    /\ pc = "root"
    /\ hash' = [hash EXCEPT ![<<>>] = computed.hash]
    /\ pc' = "idle"
    /\ UNCHANGED <<data, i, path, computed, siblings, stale>>

\* A node has been written whose parent has not.
Unpropagated == pc = "parent" \/ (pc = "node" /\ i > 0)

\* The process dies, or a statement fails and UpdateState returns its error:
\* the statements before it stay applied.
Abort ==
    /\ pc # "idle"
    /\ pc' = "idle"
    /\ stale' = IF Unpropagated
                THEN stale \cup {GetParentPath(computed.path)} ELSE stale
    /\ UNCHANGED <<data, hash, i, path, computed, siblings>>

Next ==
    \/ \E p \in Leaf, d \in Data \ {Zero} : UpdateState(p, d)
    \/ StoreNode
    \/ UpdateParentWithHash
    \/ UpdateRootNodeHashes
    \/ Abort

Spec == Init /\ [][Next]_vars

-----------------------------------------------------------------------------
(* Reference definitions: what the contract computes                        *)

\* The Merkle tree over the leaves, computed from scratch: the hashes of the
\* nodes of height k.
MerkleHashes(leaves) ==
    LET H[k \in 0 .. Depth] ==
            [n \in [1 .. Depth - k -> Bit] |->
                IF k = 0 THEN CreateAccountHash(leaves[n])
                ELSE GetParent(H[k - 1][Append(n, 0)], H[k - 1][Append(n, 1)])]
    IN  H

MerkleRoot(leaves) == MerkleHashes(leaves)[Depth][<<>>]

\* The root that follows from the hash of node n and the siblings on the way up.
RootFrom(n, own, proof) ==
    LET C[k \in 0 .. Len(n)] ==
            IF k = 0 THEN own
            ELSE IF n[Len(n) - k + 1] = 0
            THEN GetParent(C[k - 1], proof[k - 1])
            ELSE GetParent(proof[k - 1], C[k - 1])
    IN  C[Len(n)]

-----------------------------------------------------------------------------
(* Properties                                                               *)

TypeOK ==
    /\ data \in [Leaf -> Data]
    /\ hash = [n \in Node |-> hash[n]]
    /\ pc \in {"idle", "node", "parent", "root"}
    /\ i \in 0 .. Depth
    /\ path \in Leaf
    /\ computed = [path |-> computed.path, hash |-> computed.hash, data |-> computed.data]
    /\ computed.path \in Node
    /\ computed.data \in Data
    /\ siblings = [k \in 0 .. Depth - 1 |-> siblings[k]]
    /\ stale \subseteq Inner

\* The one node an update in flight is about to bring up to date.
InFlight == IF Unpropagated THEN {GetParentPath(computed.path)} ELSE {}

\* Whatever mixture of completed and interrupted updates came before, every
\* inner row agrees with its children except the parent of the last row an
\* update wrote: one node for the update in flight, one for each interrupted
\* update (until a later update passes through it).
OnlyInterruptedNodesAreStale ==
    \A n \in Inner : Matches(hash, n) \/ n \in stale \cup InFlight

\* The row of a leaf carries the hash of its data at every moment: the two
\* columns are set by one statement.
LeafHashMatchesData ==
    \A p \in Leaf : hash[p] = CreateAccountHash(data[p])

\* When no update is running and none was interrupted without a later update
\* repairing the node it left behind, the root row is the Merkle root of the
\* leaves: what GetRoot reports is what the contract would compute.
RootIsMerkleRoot ==
    pc = "idle" /\ stale = {} => hash[<<>>] = MerkleRoot(data)

Below(n) == {m \in Node : Len(m) >= Len(n) /\ SubSeq(m, 1, Len(n)) = n}

\* The row GetDepositNodeAndSiblings offers for a deposit subtree, if it read
\* one, has only leaves that are ZERO_VALUE_LEAF below it, unless an update was
\* interrupted right there, and with the root row the siblings prove that to
\* the contract, unless an update was interrupted anywhere.  Nothing can be
\* said of the empty row it offers after an error of the query.
DepositNodeIsVacant ==
    pc = "idle" => \A h \in 0 .. Depth : \A answer \in GetDepositNodeAndSiblings(h) :
        LET n == answer.node.path IN
        answer.node.read =>
            /\ Below(n) \cap stale = {} => \A p \in Leaf \cap Below(n) : data[p] = Zero
            /\ stale = {} => RootFrom(n, GenDefaultHashes[h], answer.siblings) = MerkleRoot(data)

\* A step rewrites rows of one root-to-leaf path only, and never an inner
\* row that an earlier update left right and this one has not yet reached.
WritesStayOnThePath ==
    [][\A n \in Node : hash'[n] # hash[n] =>
            /\ Len(n) <= Depth
            /\ SubSeq(path, 1, Len(n)) = n
            /\ Len(n) \in {Depth - i, Depth - i - 1}]_vars

=============================================================================
