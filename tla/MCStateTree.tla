----------------------------- MODULE MCStateTree -----------------------------
(***************************************************************************)
(* Small instances of the balance tree.                                    *)
(***************************************************************************)
EXTENDS StateTree

CONSTANTS zero, blank, account

MCData == {zero, blank, account}

\* A tree without accounts, whose leaves are ZERO_VALUE_LEAF or are not.
MCTree(d) ==
    LET leaves == [p \in Leaf |-> d] IN
    [data |-> leaves, hash |-> [n \in Node |-> MerkleHashes(leaves)[Depth - Len(n)][n]]]

MCGenesis == {MCTree(zero), MCTree(blank)}
=============================================================================
