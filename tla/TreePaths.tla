------------------------------ MODULE TreePaths ------------------------------
(***************************************************************************)
(* Paths and hashes (core/utils.go), shared by the two trees the node      *)
(* keeps: the balance tree (StateTree) and the tree of public keys         *)
(* (AccountTree).                                                          *)
(***************************************************************************)
EXTENDS Integers, Sequences

CONSTANT Depth  \* params.MaxDepth: the length of the path of a leaf

Bit == {0, 1}

\* A path is a string of bits, the empty one being the root's.
Node  == UNION {[1 .. n -> Bit] : n \in 0 .. Depth}
Leaf  == [1 .. Depth -> Bit]
Inner == UNION {[1 .. n -> Bit] : n \in 0 .. Depth - 1}

\* Mutant: the first bit is cut off instead of the last.
CutFirstBit(path) == SubSeq(path, 2, Len(path))

GetParentPath(path) == SubSeq(path, 1, Len(path) - 1)

\* Mutant: the last bit is not flipped.
SameChild(path) == path

GetOtherChild(path) == [path EXCEPT ![Len(path)] = 1 - @]

\* Mutant: the bits are counted from the left.
NthBitFromLeft(path, index) == path[index + 1]

GetNthBitFromRight(path, index) == path[Len(path) - index]

\* keccak256 has no collision here: a hash is the term it was computed from.
GetParent(left, right) == <<left, right>>

\* Numbers to paths: the binary digits, padded with zeros to the depth.
SolidityPathToNodePath(number, depth) ==
    [k \in 1 .. depth |-> (number \div 2 ^ (depth - k)) % 2]

\* The hash of the inner node n follows from the rows of its children.
Matches(h, n) == h[n] = GetParent(h[Append(n, 0)], h[Append(n, 1)])

ASSUME DepthAssumption == Depth \in Nat \ {0}
=============================================================================
