---------------------------- MODULE MCAccountTree ----------------------------
(* Small instances of the account tree.                                       *)
EXTENDS AccountTree

CONSTANTS k0, k1, none

MCKeys == {k1, none}

\* The coordinator's key and the empty leaves.
MCLeafHash(p) == PopulateHash(IF p = SolidityPathToNodePath(0, Depth) THEN k0 ELSE none)

MCInitHash == [n \in Node |-> MerkleHashes([p \in Leaf |-> MCLeafHash(p)])[Depth - Len(n)][n]]
==============================================================================
