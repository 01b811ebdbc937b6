-------------------------- MODULE StateTree_proofs --------------------------
(***************************************************************************)
(* The consistency of the balance tree and its Merkle root, for every      *)
(* depth.                                                                  *)
(***************************************************************************)
EXTENDS StateTree, WellFoundedInduction, TLAPS

-----------------------------------------------------------------------------
(* Paths *)

\* The first m bits of a leaf's path: the path of its ancestor at level m.
Prefix(p, m) == SubSeq(p, 1, m)

\* A sequence is a function on the indices up to its length.
LEMMA SeqIsFunction ==
    ASSUME NEW S, NEW s \in Seq(S), NEW m \in Nat, Len(s) = m
    PROVE  s \in [1 .. m -> S]
OBVIOUS

\* A node is a sequence of bits no longer than the depth.
LEMMA NodeIsSeq ==
    ASSUME NEW n \in Node
    PROVE  /\ n \in Seq(Bit)
           /\ Len(n) \in 0 .. Depth
           /\ n \in [1 .. Len(n) -> Bit]
<1>1. PICK m \in 0 .. Depth : n \in [1 .. m -> Bit]
  BY DEF Node
<1>2. m \in Nat
  BY DepthAssumption
<1>3. n \in Seq(Bit) /\ Len(n) = m
  BY <1>1, <1>2
<1> QED
  BY <1>1, <1>2, <1>3

\* An ancestor of a leaf is a node, the list of the leaf's first bits.
LEMMA PrefixIsNode ==
    ASSUME NEW p \in Leaf, NEW m \in 0 .. Depth
    PROVE  /\ Prefix(p, m) \in [1 .. m -> Bit]
           /\ Prefix(p, m) \in Node
           /\ Prefix(p, m) \in Seq(Bit)
           /\ Len(Prefix(p, m)) = m
           /\ \A x \in 1 .. m : Prefix(p, m)[x] = p[x]
<1>1. p \in Seq(Bit) /\ Len(p) = Depth
  BY DepthAssumption DEF Leaf
<1>2. m \in Nat
  BY DepthAssumption
<1>3. /\ Prefix(p, m) \in Seq(Bit)
      /\ Len(Prefix(p, m)) = m
      /\ \A x \in 1 .. m : Prefix(p, m)[x] = p[x]
  BY <1>1, <1>2, DepthAssumption DEF Prefix
<1>4. Prefix(p, m) \in [1 .. m -> Bit]
  BY <1>2, <1>3
<1> QED
  BY <1>3, <1>4 DEF Node

LEMMA PrefixParent ==
    ASSUME NEW p \in Leaf, NEW m \in 1 .. Depth
    PROVE  GetParentPath(Prefix(p, m)) = Prefix(p, m - 1)
<1>1. p \in Seq(Bit) /\ Len(p) = Depth
  BY DepthAssumption DEF Leaf
<1>2. m \in 0 .. Depth /\ m - 1 \in 0 .. Depth
  BY DepthAssumption
<1> QED
  BY <1>1, <1>2, PrefixIsNode, DepthAssumption DEF GetParentPath, Prefix

\* The other child of an ancestor's parent is a node that is not itself an
\* ancestor of the leaf: no update of the leaf ever writes it.
LEMMA OtherChild ==
    ASSUME NEW p \in Leaf, NEW m \in 1 .. Depth
    PROVE  /\ GetOtherChild(Prefix(p, m)) \in Node
           /\ \A k \in 0 .. Depth : GetOtherChild(Prefix(p, m)) # Prefix(p, k)
<1> DEFINE a == Prefix(p, m)
           o == GetOtherChild(a)
<1>1. /\ m \in Nat /\ m \in 0 .. Depth /\ m \in 1 .. m
      /\ a \in [1 .. m -> Bit] /\ Len(a) = m
  BY PrefixIsNode, DepthAssumption
<1>2. 1 - a[m] \in Bit /\ 1 - a[m] # a[m]
  BY <1>1 DEF Bit
<1>3. o = [a EXCEPT ![m] = 1 - a[m]]
  BY <1>1 DEF GetOtherChild
<1>4. o \in [1 .. m -> Bit] /\ o[m] # a[m]
  BY <1>1, <1>2, <1>3
<1>5. o \in Node
  BY <1>1, <1>4 DEF Node
<1>6. ASSUME NEW k \in 0 .. Depth, o = Prefix(p, k) PROVE FALSE
  <2>1. Len(o) = m
    BY <1>1, <1>4
  <2>2. k = m
    BY <2>1, <1>6, PrefixIsNode
  <2> QED
    BY <2>2, <1>6, <1>4
<1> QED
  BY <1>5, <1>6

\* The children of an inner node are nodes, one level down.
LEMMA Children ==
    ASSUME NEW n \in Inner, NEW b \in Bit
    PROVE  /\ n \in Node
           /\ Append(n, b) \in Node
           /\ Len(Append(n, b)) = Len(n) + 1
           /\ Len(n) \in 0 .. Depth - 1
<1>1. PICK m \in 0 .. Depth - 1 : n \in [1 .. m -> Bit]
  BY DEF Inner
<1>2. m \in Nat /\ m \in 0 .. Depth /\ m + 1 \in 0 .. Depth
  BY DepthAssumption
<1>3. n \in Seq(Bit) /\ Len(n) = m
  BY <1>1, <1>2
<1>4. Append(n, b) \in Seq(Bit) /\ Len(Append(n, b)) = m + 1
  BY <1>3
<1>5. Append(n, b) \in [1 .. m + 1 -> Bit]
  BY <1>4, <1>2, SeqIsFunction, m + 1 \in Nat
<1> QED
  BY <1>1, <1>2, <1>3, <1>4, <1>5 DEF Node

\* A child of n is an ancestor of the leaf only if n is, one level above.
LEMMA ChildOnPath ==
    ASSUME NEW p \in Leaf, NEW m \in 0 .. Depth,
           NEW n \in Inner, NEW b \in Bit, Append(n, b) = Prefix(p, m)
    PROVE  m \in 1 .. Depth /\ n = Prefix(p, m - 1)
<1>1. Len(n) + 1 = m /\ n \in Seq(Bit) /\ Len(n) \in Nat
  BY Children, PrefixIsNode, NodeIsSeq, DepthAssumption
<1>2. m \in 1 .. Depth
  BY <1>1, DepthAssumption
<1>3. GetParentPath(Append(n, b)) = n
  BY <1>1 DEF GetParentPath
<1> QED
  BY <1>2, <1>3, PrefixParent

\* The two children of an ancestor's parent: the ancestor and its sibling.
LEMMA ChildrenOnPath ==
    ASSUME NEW p \in Leaf, NEW m \in 1 .. Depth
    PROVE  /\ Prefix(p, m - 1) \in Inner
           /\ p[m] = 0 => /\ Append(Prefix(p, m - 1), 0) = Prefix(p, m)
                         /\ Append(Prefix(p, m - 1), 1) = GetOtherChild(Prefix(p, m))
           /\ p[m] # 0 => /\ Append(Prefix(p, m - 1), 0) = GetOtherChild(Prefix(p, m))
                         /\ Append(Prefix(p, m - 1), 1) = Prefix(p, m)
<1> DEFINE a == Prefix(p, m)
           u == Prefix(p, m - 1)
<1>1. /\ m \in Nat /\ m \in 0 .. Depth /\ m - 1 \in 0 .. Depth /\ m - 1 \in Nat
      /\ m - 1 \in 0 .. Depth - 1 /\ m \in 1 .. m
  BY DepthAssumption
<1>2. /\ a \in [1 .. m -> Bit] /\ Len(a) = m /\ a \in Seq(Bit)
      /\ \A x \in 1 .. m : a[x] = p[x]
  BY <1>1, PrefixIsNode
<1>3. /\ u \in [1 .. m - 1 -> Bit] /\ Len(u) = m - 1 /\ u \in Seq(Bit)
      /\ \A x \in 1 .. m - 1 : u[x] = p[x]
  BY <1>1, PrefixIsNode
<1>4. u \in Inner
  BY <1>1, <1>3 DEF Inner
<1>5. a[m] = p[m] /\ p[m] \in Bit
  BY <1>1, <1>2
<1>6. GetOtherChild(a) = [a EXCEPT ![m] = 1 - p[m]]
  BY <1>2, <1>5 DEF GetOtherChild
<1>7. ASSUME NEW b \in Bit
      PROVE  /\ Append(u, b) \in [1 .. m -> Bit]
             /\ \A x \in 1 .. m - 1 : Append(u, b)[x] = p[x]
             /\ Append(u, b)[m] = b
  <2>1. Append(u, b) \in Seq(Bit) /\ Len(Append(u, b)) = m
    BY <1>1, <1>3
  <2>2. \A x \in 1 .. m - 1 : Append(u, b)[x] = p[x]
    BY <1>1, <1>3
  <2>3. Append(u, b)[m] = b
    BY <1>1, <1>3
  <2>4. Append(u, b) \in [1 .. m -> Bit]
    BY <1>1, <2>1, SeqIsFunction
  <2> QED
    BY <2>2, <2>3, <2>4
<1>8. ASSUME NEW b \in Bit, b = p[m] PROVE Append(u, b) = a
  BY <1>1, <1>2, <1>7, <1>8
<1>9. ASSUME NEW b \in Bit, b = 1 - p[m] PROVE Append(u, b) = GetOtherChild(a)
  <2>1. GetOtherChild(a) \in [1 .. m -> Bit]
    BY <1>1, <1>2, <1>6, <1>9
  <2>2. GetOtherChild(a)[m] = b
    BY <1>1, <1>2, <1>6, <1>9
  <2>3. \A x \in 1 .. m - 1 : GetOtherChild(a)[x] = p[x]
    BY <1>1, <1>2, <1>6
  <2>4. \A x \in 1 .. m : Append(u, b)[x] = GetOtherChild(a)[x]
    BY <1>1, <1>7, <2>2, <2>3
  <2> QED
    BY <1>1, <1>7, <2>1, <2>4
<1> QED
  BY <1>4, <1>5, <1>8, <1>9 DEF Bit

\* The root and the leaf are the shortest and the longest prefix.
LEMMA PrefixEnds ==
    ASSUME NEW p \in Leaf
    PROVE  Prefix(p, 0) = <<>> /\ Prefix(p, Depth) = p
<1>1. p \in Seq(Bit) /\ Len(p) = Depth
  BY DepthAssumption DEF Leaf
<1> QED
  BY <1>1, DepthAssumption DEF Prefix

\* A leaf is a node and is never an inner one.
LEMMA LeafIsNode ==
    ASSUME NEW p \in Leaf
    PROVE  /\ p \in Node
           /\ Len(p) = Depth
           /\ \A n \in Inner : n # p
<1>1. p \in Node /\ Len(p) = Depth
  BY PrefixIsNode, PrefixEnds, DepthAssumption
<1>2. \A n \in Inner : Len(n) # Depth
  BY Children, DepthAssumption DEF Bit
<1> QED
  BY <1>1, <1>2

-----------------------------------------------------------------------------
(* The inductive invariant *)

\* The row of the computed node holds the computed hash already.
Written == pc \in {"parent", "root"} \/ (pc = "node" /\ i > 0)

\* What holds of the local state of StoreLeaf: where it is on the path, that
\* the siblings it still needs are as they were read, and that the computed
\* node is as it is in the table, from the first write on.
StoreLeafInv ==
    pc # "idle" =>
        /\ computed.path = Prefix(path, Depth - i)
        /\ pc \in {"node", "parent"} => i \in 0 .. Depth - 1
        /\ pc = "root" => i = Depth
        /\ \A k \in 0 .. Depth - 1 :
              k >= i => siblings[k] = hash[GetOtherChild(Prefix(path, Depth - k))]
        /\ Written => hash[computed.path] = computed.hash
        /\ ~Written => computed.hash = CreateAccountHash(computed.data)

IInv ==
    /\ TypeOK
    /\ StoreLeafInv
    /\ OnlyInterruptedNodesAreStale
    /\ LeafHashMatchesData

LEMMA InitIInv == Init => IInv
<1> SUFFICES ASSUME Init PROVE IInv
  OBVIOUS
<1>1. path \in Leaf
  BY DEF Init, Leaf, Bit
<1>0. PICK g \in Genesis : data = g.data /\ hash = g.hash
  BY DEF Init
<1>2. /\ path \in Node /\ data \in [Leaf -> Data] /\ data[path] \in Data
      /\ hash = [n \in Node |-> hash[n]]
  BY <1>0, <1>1, LeafIsNode, GenesisAssumption
<1>3. TypeOK
  BY <1>1, <1>2, DepthAssumption DEF Init, TypeOK
<1>4. OnlyInterruptedNodesAreStale
  BY <1>0, GenesisAssumption DEF OnlyInterruptedNodesAreStale
<1>5. LeafHashMatchesData
  BY <1>0, GenesisAssumption DEF LeafHashMatchesData
<1> QED
  BY <1>3, <1>4, <1>5 DEF IInv, StoreLeafInv, Init

LEMMA UpdateStateIInv ==
    ASSUME IInv, NEW p \in Leaf, NEW d \in Data, UpdateState(p, d)
    PROVE  IInv'
<1>1. p \in Node /\ p = Prefix(p, Depth - 0)
  BY LeafIsNode, PrefixEnds, DepthAssumption
<1>0. Len(p) = Depth
  BY DepthAssumption DEF Leaf
<1>2. TypeOK'
  BY <1>0, <1>1, DepthAssumption DEF IInv, TypeOK, UpdateState, GetSiblings
<1>3. \A k \in 0 .. Depth - 1 :
         siblings'[k] = hash[GetOtherChild(Prefix(p, Depth - k))]
  BY <1>0 DEF UpdateState, GetSiblings, Prefix
<1>4. StoreLeafInv'
  BY <1>1, <1>3, DepthAssumption DEF UpdateState, StoreLeafInv, Written
<1>5. OnlyInterruptedNodesAreStale'
  <2>1. InFlight = {}
    BY DEF UpdateState, InFlight, Unpropagated
  <2> QED
    BY <2>1 DEF IInv, OnlyInterruptedNodesAreStale, UpdateState, Matches
<1>6. LeafHashMatchesData'
  BY DEF IInv, LeafHashMatchesData, UpdateState
<1> QED
  BY <1>2, <1>4, <1>5, <1>6 DEF IInv

\* Where the update in flight stands: a = computed.path is the ancestor at
\* level m, u its parent.
LEMMA Position ==
    ASSUME IInv, pc \in {"node", "parent"}
    PROVE  /\ path \in Leaf
           /\ i \in 0 .. Depth - 1
           /\ Depth - i \in 1 .. Depth
           /\ computed.path = Prefix(path, Depth - i)
           /\ Prefix(path, Depth - i) \in Node
           /\ GetParentPath(computed.path) = Prefix(path, Depth - i - 1)
           /\ Prefix(path, Depth - i - 1) \in Inner
           /\ Prefix(path, Depth - i - 1) \in Node
<1>1. path \in Leaf /\ i \in 0 .. Depth - 1 /\ computed.path = Prefix(path, Depth - i)
  BY DEF IInv, TypeOK, StoreLeafInv
<1>2. Depth - i \in 1 .. Depth
  BY <1>1, DepthAssumption
<1>3. GetParentPath(computed.path) = Prefix(path, Depth - i - 1)
  BY <1>1, <1>2, PrefixParent
<1>4. Prefix(path, Depth - i - 1) \in Inner
  BY <1>1, <1>2, ChildrenOnPath
<1>5. Prefix(path, Depth - i) \in Node
  BY <1>1 DEF IInv, TypeOK
<1> QED
  BY <1>1, <1>2, <1>3, <1>4, <1>5, Children DEF Bit

LEMMA StoreNodeIInv ==
    ASSUME IInv, StoreNode
    PROVE  IInv'
<1> DEFINE m == Depth - i
           a == Prefix(path, m)
           u == Prefix(path, m - 1)
<1>1. /\ m \in 1 .. Depth /\ m \in 0 .. Depth
      /\ computed.path = a /\ a \in Node
      /\ GetParentPath(computed.path) = u /\ u \in Inner
      /\ path \in Leaf /\ i \in 0 .. Depth - 1
      /\ pc = "node" /\ pc' = "parent"
  BY Position, DepthAssumption DEF StoreNode
<1>2. /\ hash' = [hash EXCEPT ![a] = computed.hash]
      /\ hash = [n \in Node |-> hash[n]]
  BY <1>1 DEF StoreNode, IInv, TypeOK
<1>3. TypeOK'
  BY <1>1, <1>2 DEF IInv, TypeOK, StoreNode
<1>4. /\ hash'[a] = computed.hash
      /\ \A n \in Node : n # a => hash'[n] = hash[n]
  BY <1>1, <1>2
<1>5. StoreLeafInv'
  <2>1. \A k \in 0 .. Depth - 1 :
           k >= i => siblings[k] = hash'[GetOtherChild(Prefix(path, Depth - k))]
    <3> SUFFICES ASSUME NEW k \in 0 .. Depth - 1, k >= i
                 PROVE  siblings[k] = hash'[GetOtherChild(Prefix(path, Depth - k))]
      OBVIOUS
    <3>1. Depth - k \in 1 .. Depth
      BY DepthAssumption
    <3>2. /\ GetOtherChild(Prefix(path, Depth - k)) \in Node
          /\ GetOtherChild(Prefix(path, Depth - k)) # a
      BY <1>1, <3>1, OtherChild
    <3>3. siblings[k] = hash[GetOtherChild(Prefix(path, Depth - k))]
      BY <1>1 DEF IInv, StoreLeafInv
    <3> QED
      BY <1>4, <3>2, <3>3
  <2> QED
    BY <2>1, <1>1, <1>4 DEF StoreNode, StoreLeafInv, Written
<1>6. OnlyInterruptedNodesAreStale'
  <2> SUFFICES ASSUME NEW n \in Inner, n # u
               PROVE  Matches(hash', n) \/ n \in stale
    BY <1>1 DEF OnlyInterruptedNodesAreStale, InFlight, Unpropagated, StoreNode,
                Matches
  <2>1. Matches(hash, n) \/ n \in stale
    BY <1>1 DEF IInv, OnlyInterruptedNodesAreStale, InFlight, Unpropagated
  <2>2. n \in Node /\ Append(n, 0) \in Node /\ Append(n, 1) \in Node
    BY Children DEF Bit
  <2>3. Append(n, 0) # a /\ Append(n, 1) # a
    BY <1>1, ChildOnPath DEF Bit
  <2>4. hash'[n] = hash[n]
    <3>1. CASE i > 0
      BY <3>1, <1>1, <1>4, <2>2 DEF IInv, StoreLeafInv, Written
    <3>2. CASE i = 0
      BY <3>2, <1>1, <1>4, <2>2, PrefixEnds, LeafIsNode, DepthAssumption
    <3> QED
      BY <3>1, <3>2, <1>1, DepthAssumption
  <2> QED
    BY <2>1, <2>2, <2>3, <2>4, <1>4 DEF Matches
<1>7. LeafHashMatchesData'
  <2> SUFFICES ASSUME NEW q \in Leaf
               PROVE  hash'[q] = CreateAccountHash(data'[q])
    BY DEF LeafHashMatchesData
  <2>1. q \in Node /\ hash[q] = CreateAccountHash(data[q])
    BY LeafIsNode DEF IInv, LeafHashMatchesData
  <2>2. CASE i = 0
    <3>1. a = path /\ computed.hash = CreateAccountHash(computed.data)
      BY <2>2, <1>1, PrefixEnds, DepthAssumption DEF IInv, StoreLeafInv, Written
    <3>2. /\ data'[path] = computed.data
          /\ q # path => data'[q] = data[q]
      BY <2>2, <1>1 DEF StoreNode, IInv, TypeOK
    <3> QED
      BY <3>1, <3>2, <2>1, <1>4
  <2>3. CASE i > 0
    <3>1. hash[a] = computed.hash
      BY <2>3, <1>1 DEF IInv, StoreLeafInv, Written
    <3>2. hash'[q] = hash[q]
      BY <3>1, <1>4, <2>1
    <3> QED
      BY <3>2, <2>1, <2>3 DEF StoreNode
  <2> QED
    BY <2>2, <2>3, <1>1, DepthAssumption
<1> QED
  BY <1>3, <1>5, <1>6, <1>7 DEF IInv

LEMMA UpdateParentIInv ==
    ASSUME IInv, UpdateParentWithHash
    PROVE  IInv'
<1> DEFINE m == Depth - i
           a == Prefix(path, m)
           u == Prefix(path, m - 1)
           o == GetOtherChild(a)
<1>1. /\ m \in 1 .. Depth
      /\ computed.path = a /\ a \in Node
      /\ GetParentPath(computed.path) = u /\ u \in Inner /\ u \in Node
      /\ path \in Leaf /\ i \in 0 .. Depth - 1
      /\ pc = "parent"
  BY Position DEF UpdateParentWithHash
<1>2. /\ m \in 0 .. Depth /\ m - 1 \in 0 .. Depth /\ m - 1 = Depth - (i + 1)
      /\ i + 1 \in 0 .. Depth
  BY <1>1, DepthAssumption
<1>3. /\ hash' = [hash EXCEPT ![u] = ParentHash]
      /\ hash = [n \in Node |-> hash[n]]
      /\ stale' = stale \ {u}
      /\ computed' = [path |-> u, hash |-> hash'[u], data |-> computed.data]
      /\ i' = i + 1 /\ path' = path /\ siblings' = siblings /\ data' = data
      /\ pc' = IF i + 1 = Depth THEN "root" ELSE "node"
  BY <1>1 DEF UpdateParentWithHash, IInv, TypeOK
<1>4. /\ hash'[u] = ParentHash
      /\ \A n \in Node : n # u => hash'[n] = hash[n]
  BY <1>1, <1>3
<1>5. TypeOK'
  BY <1>1, <1>2, <1>3 DEF IInv, TypeOK
<1>6. StoreLeafInv'
  <2>1. \A k \in 0 .. Depth - 1 : k >= i + 1 =>
           siblings[k] = hash'[GetOtherChild(Prefix(path, Depth - k))]
    <3> SUFFICES ASSUME NEW k \in 0 .. Depth - 1, k >= i + 1
                 PROVE  siblings[k] = hash'[GetOtherChild(Prefix(path, Depth - k))]
      OBVIOUS
    <3>1. Depth - k \in 1 .. Depth /\ k >= i
      BY <1>1, DepthAssumption
    <3>2. /\ GetOtherChild(Prefix(path, Depth - k)) \in Node
          /\ GetOtherChild(Prefix(path, Depth - k)) # u
      BY <1>1, <1>2, <3>1, OtherChild
    <3>3. siblings[k] = hash[GetOtherChild(Prefix(path, Depth - k))]
      BY <1>1, <3>1 DEF IInv, StoreLeafInv
    <3> QED
      BY <1>4, <3>2, <3>3
  <2>2. Written' /\ pc' \in {"node", "root"}
    BY <1>1, <1>3, DepthAssumption DEF Written
  <2>3. i' \in 0 .. Depth - 1 \/ (i' = Depth /\ pc' = "root")
    BY <1>1, <1>3, DepthAssumption
  <2>4. pc' = "node" => i' \in 0 .. Depth - 1
    BY <2>3, <1>1, <1>3, DepthAssumption
  <2> QED
    BY <2>1, <2>2, <2>3, <2>4, <1>2, <1>3 DEF StoreLeafInv
<1>7. Matches(hash', u)
  <2>1. /\ hash[a] = computed.hash
        /\ siblings[i] = hash[o]
    BY <1>1, DepthAssumption DEF IInv, StoreLeafInv, Written
  <2>2. a # u /\ o # u /\ o \in Node
    BY <1>1, <1>2, OtherChild, PrefixIsNode
  <2>3. hash'[a] = computed.hash /\ hash'[o] = siblings[i]
    BY <1>1, <1>4, <2>1, <2>2
  <2>4. GetNthBitFromRight(path, i) = path[m]
    BY <1>1, LeafIsNode DEF GetNthBitFromRight
  <2>5. CASE path[m] = 0
    <3>1. Append(u, 0) = a /\ Append(u, 1) = o
      BY <2>5, <1>1, ChildrenOnPath
    <3> QED
      BY <3>1, <2>3, <2>4, <2>5, <1>4 DEF Matches, ParentHash
  <2>6. CASE path[m] # 0
    <3>1. Append(u, 0) = o /\ Append(u, 1) = a
      BY <2>6, <1>1, ChildrenOnPath
    <3> QED
      BY <3>1, <2>3, <2>4, <2>6, <1>4 DEF Matches, ParentHash
  <2> QED
    BY <2>5, <2>6
<1>8. ASSUME NEW n \in Inner, n # u, n \notin InFlight'
      PROVE  Matches(hash', n) \/ n \in stale'
  <2>1. Matches(hash, n) \/ n \in stale
    BY <1>1, <1>8 DEF IInv, OnlyInterruptedNodesAreStale, InFlight, Unpropagated
  <2>2. n \in Node /\ Append(n, 0) \in Node /\ Append(n, 1) \in Node
    BY Children DEF Bit
  <2>3. ASSUME NEW b \in Bit, Append(n, b) = u
        PROVE  FALSE
    <3>1. m - 1 \in 1 .. Depth /\ n = Prefix(path, m - 1 - 1)
      BY <2>3, <1>1, <1>2, ChildOnPath
    <3>2. n = GetParentPath(u)
      BY <3>1, <1>1, PrefixParent
    <3>3. pc' = "node" /\ i' > 0
      BY <3>1, <1>1, <1>3, DepthAssumption
    <3>4. computed'.path = u
      BY <1>3
    <3> QED
      BY <1>8, <3>2, <3>3, <3>4 DEF InFlight, Unpropagated
  <2>4. Append(n, 0) # u /\ Append(n, 1) # u
    BY <2>3 DEF Bit
  <2> QED
    BY <2>1, <2>2, <2>4, <1>3, <1>4, <1>8 DEF Matches
<1>9. OnlyInterruptedNodesAreStale'
  BY <1>7, <1>8 DEF OnlyInterruptedNodesAreStale, Matches
<1>10. LeafHashMatchesData'
  BY <1>1, <1>3, <1>4, LeafIsNode DEF IInv, LeafHashMatchesData
<1> QED
  BY <1>5, <1>6, <1>9, <1>10 DEF IInv

LEMMA UpdateRootIInv ==
    ASSUME IInv, UpdateRootNodeHashes
    PROVE  IInv'
<1>1. /\ pc = "root" /\ pc' = "idle" /\ i = Depth /\ path \in Leaf
      /\ computed.path = Prefix(path, Depth - i)
      /\ hash[computed.path] = computed.hash
      /\ hash = [n \in Node |-> hash[n]]
  BY DEF IInv, TypeOK, StoreLeafInv, Written, UpdateRootNodeHashes
<1>2. computed.path = <<>>
  BY <1>1, PrefixEnds, DepthAssumption
<1>3. hash' = hash
  BY <1>1, <1>2 DEF UpdateRootNodeHashes
<1>4. InFlight = {}
  BY <1>1 DEF InFlight, Unpropagated
<1> QED
  BY <1>1, <1>3, <1>4
     DEF IInv, TypeOK, StoreLeafInv, OnlyInterruptedNodesAreStale, Matches,
         LeafHashMatchesData, UpdateRootNodeHashes

LEMMA AbortIInv ==
    ASSUME IInv, Abort
    PROVE  IInv'
<1>1. stale' = stale \cup InFlight
  BY DEF Abort, InFlight
<1>2. InFlight \subseteq Inner
  <2>1. CASE Unpropagated
    BY <2>1, Position DEF InFlight, Unpropagated
  <2>2. CASE ~Unpropagated
    BY <2>2 DEF InFlight
  <2> QED
    BY <2>1, <2>2
<1>3. TypeOK'
  BY <1>1, <1>2 DEF IInv, TypeOK, Abort
<1>4. OnlyInterruptedNodesAreStale'
  BY <1>1 DEF IInv, OnlyInterruptedNodesAreStale, Matches, Abort
<1> QED
  BY <1>3, <1>4 DEF IInv, StoreLeafInv, LeafHashMatchesData, Abort

LEMMA NextIInv == IInv /\ [Next]_vars => IInv'
<1> SUFFICES ASSUME IInv, [Next]_vars PROVE IInv'
  OBVIOUS
<1>1. CASE \E p \in Leaf, d \in Data \ {Zero} : UpdateState(p, d)
  BY <1>1, UpdateStateIInv
<1>2. CASE StoreNode
  BY <1>2, StoreNodeIInv
<1>3. CASE UpdateParentWithHash
  BY <1>3, UpdateParentIInv
<1>4. CASE UpdateRootNodeHashes
  BY <1>4, UpdateRootIInv
<1>5. CASE Abort
  BY <1>5, AbortIInv
<1>6. CASE UNCHANGED vars
  BY <1>6 DEF vars, IInv, TypeOK, StoreLeafInv, Written,
              OnlyInterruptedNodesAreStale, InFlight, Unpropagated, Matches,
              LeafHashMatchesData
<1> QED
  BY <1>1, <1>2, <1>3, <1>4, <1>5, <1>6 DEF Next

-----------------------------------------------------------------------------

\* UpdateState keeps every variable of the model in its type.
THEOREM TypeCorrect == Spec => []TypeOK
<1>1. IInv => TypeOK
  BY DEF IInv
<1> QED
  BY <1>1, InitIInv, NextIInv, PTL DEF Spec

\* At every depth and after any sequence of completed and interrupted updates,
\* only the nodes an interruption left behind disagree with their children.
THEOREM TreeConsistency == Spec => []OnlyInterruptedNodesAreStale
<1>1. IInv => OnlyInterruptedNodesAreStale
  BY DEF IInv
<1> QED
  BY <1>1, InitIInv, NextIInv, PTL DEF Spec

\* No step of an update writes a row off the path of its leaf, or at another
\* level than the one StoreLeaf has reached: the siblings are never touched.
THEOREM UpdateStaysOnThePath == Spec => WritesStayOnThePath
<1> DEFINE A == \A n \in Node : hash'[n] # hash[n] =>
                    /\ Len(n) <= Depth
                    /\ SubSeq(path, 1, Len(n)) = n
                    /\ Len(n) \in {Depth - i, Depth - i - 1}
<1>1. ASSUME IInv, [Next]_vars PROVE A \/ UNCHANGED vars
  <2>1. ASSUME NEW m \in 0 .. Depth, m \in {Depth - i, Depth - i - 1}, path \in Leaf,
               \A n \in Node : n # Prefix(path, m) => hash'[n] = hash[n]
        PROVE  A
    <3>1. Len(Prefix(path, m)) = m
      BY <2>1, PrefixIsNode
    <3> QED
      BY <2>1, <3>1, DepthAssumption DEF Prefix
  <2>2. CASE \E p \in Leaf, d \in Data : UpdateState(p, d)
    BY <2>2 DEF UpdateState
  <2>3. CASE StoreNode
    <3>1. /\ path \in Leaf /\ Depth - i \in 0 .. Depth
          /\ computed.path = Prefix(path, Depth - i)
      BY <2>3, <1>1, Position, DepthAssumption DEF StoreNode
    <3>2. hash = [n \in Node |-> hash[n]]
      BY <1>1 DEF IInv, TypeOK
    <3>3. \A n \in Node : n # computed.path => hash'[n] = hash[n]
      BY <2>3, <3>2 DEF StoreNode
    <3> QED
      BY <3>1, <3>3, <2>1
  <2>4. CASE UpdateParentWithHash
    <3>1. /\ path \in Leaf /\ Depth - i - 1 \in 0 .. Depth
          /\ GetParentPath(computed.path) = Prefix(path, Depth - i - 1)
      BY <2>4, <1>1, Position, DepthAssumption DEF UpdateParentWithHash
    <3>2. hash = [n \in Node |-> hash[n]]
      BY <1>1 DEF IInv, TypeOK
    <3>3. \A n \in Node : n # GetParentPath(computed.path) => hash'[n] = hash[n]
      BY <2>4, <3>2 DEF UpdateParentWithHash
    <3> QED
      BY <3>1, <3>3, <2>1
  <2>5. CASE UpdateRootNodeHashes
    <3>1. /\ path \in Leaf /\ Depth - i \in 0 .. Depth
          /\ Prefix(path, Depth - i) = <<>>
      BY <2>5, <1>1, PrefixEnds, DepthAssumption
         DEF UpdateRootNodeHashes, IInv, TypeOK, StoreLeafInv
    <3>2. hash = [n \in Node |-> hash[n]]
      BY <1>1 DEF IInv, TypeOK
    <3>3. \A n \in Node : n # <<>> => hash'[n] = hash[n]
      BY <2>5, <3>2 DEF UpdateRootNodeHashes
    <3> QED
      BY <3>1, <3>3, <2>1
  <2>6. CASE Abort
    BY <2>6 DEF Abort
  <2>7. CASE UNCHANGED vars
    BY <2>7
  <2> QED
    BY <1>1, <2>2, <2>3, <2>4, <2>5, <2>6, <2>7 DEF Next
<1>2. IInv /\ [Next]_vars => [A]_vars
  BY <1>1
<1> QED
  BY <1>2, InitIInv, NextIInv, PTL DEF Spec, WritesStayOnThePath

-----------------------------------------------------------------------------
(* Induction                                                                *)

\* Every set of natural numbers has a least element.
LEMMA LeastNumber ==
    ASSUME NEW T \in SUBSET Nat, T # {}
    PROVE  \E x \in T : \A y \in T : x <= y
<1> DEFINE R == OpToRel(<, Nat)
<1>1. \A x, y \in Nat : <<y, x>> \in R <=> y < x
  BY DEF OpToRel
<1>2. IsWellFoundedOn(R, Nat)
  BY NatLessThanWellFounded
<1> HIDE DEF R
<1>3. PICK x \in T : \A y \in T : ~(<<y, x>> \in R)
  BY <1>2, WFMin
<1>4. \A y \in T : ~(y < x)
  BY <1>1, <1>3
<1>5. \A y \in T : x <= y
  BY <1>4
<1> QED
  BY <1>5

\* Induction, for a set of numbers instead of a predicate.
LEMMA Induction ==
    ASSUME NEW S, 0 \in S, \A m \in Nat : m \in S => m + 1 \in S
    PROVE  Nat \subseteq S
<1> DEFINE T == Nat \ S
<1>1. SUFFICES ASSUME T # {}
               PROVE  FALSE
  OBVIOUS
<1>2. PICK x \in T : \A y \in T : x <= y
  BY <1>1, LeastNumber
<1>3. x - 1 \in Nat /\ x - 1 \notin T
  BY <1>2
<1>4. x - 1 + 1 \in S
  BY <1>3
<1> QED
  BY <1>4

-----------------------------------------------------------------------------
(* The Merkle root                                                          *)

\* The recursive definition of the Merkle tree has a solution, so that it is one.
MerkleLevel(leaves, H, k) ==
    [n \in [1 .. Depth - k -> Bit] |->
        IF k = 0 THEN CreateAccountHash(leaves[n])
        ELSE GetParent(H[k - 1][Append(n, 0)], H[k - 1][Append(n, 1)])]

LEMMA MerkleHashesDef ==
    ASSUME NEW leaves
    PROVE  MerkleHashes(leaves)
               = [k \in 0 .. Depth |-> MerkleLevel(leaves, MerkleHashes(leaves), k)]
<1> DEFINE Body(g, k) == MerkleLevel(leaves, g, k)
           Rec(g, m) == g = [k \in 0 .. m |-> Body(g, k)]
           S == {m \in Nat : \E g : Rec(g, m)}
<1>1. ASSUME NEW g, NEW h, NEW k \in Nat, k # 0 => g[k - 1] = h[k - 1]
      PROVE  Body(g, k) = Body(h, k)
  BY <1>1 DEF MerkleLevel
<1> HIDE DEF Body
<1>2. 0 \in S
  <2> DEFINE g == [k \in 0 .. 0 |-> Body(<<>>, k)]
  <2>1. \A k \in 0 .. 0 : Body(<<>>, k) = Body(g, k)
    BY <1>1
  <2>2. g = [k \in 0 .. 0 |-> Body(g, k)]
    BY <2>1
  <2> QED
    BY <2>2
<1>3. ASSUME NEW m \in Nat, m \in S
      PROVE  m + 1 \in S
  <2>1. PICK g : Rec(g, m)
    BY <1>3
  <2> DEFINE h == [k \in 0 .. m + 1 |-> IF k = m + 1 THEN Body(g, m + 1) ELSE g[k]]
  <2>2. \A k \in 0 .. m : h[k] = g[k]
    OBVIOUS
  <2>3. \A k \in 0 .. m : g[k] = Body(g, k)
    BY <2>1
  <2>4. \A k \in 0 .. m + 1 : h[k] = Body(g, k)
    BY <2>3
  <2>5. ASSUME NEW k \in 0 .. m + 1
        PROVE  Body(g, k) = Body(h, k)
    <3>1. k \in Nat /\ (k # 0 => g[k - 1] = h[k - 1])
      BY <2>2
    <3> HIDE DEF h
    <3> QED
      BY <1>1, <3>1
  <2>6. h = [k \in 0 .. m + 1 |-> Body(h, k)]
    BY <2>4, <2>5
  <2> HIDE DEF h
  <2>7. Rec(h, m + 1)
    BY <2>6
  <2> QED
    BY <2>7
<1>4. Depth \in S
  BY <1>2, <1>3, Induction, DepthAssumption
<1>5. PICK g : Rec(g, Depth)
  BY <1>4
<1>6. MerkleHashes(leaves) = CHOOSE h : Rec(h, Depth)
  BY DEF MerkleHashes, Body, MerkleLevel
<1>7. Rec(MerkleHashes(leaves), Depth)
  <2> HIDE DEF Rec
  <2> QED
    BY <1>5, <1>6
<1> QED
  BY <1>7 DEF Body

\* A table in which every row agrees with its children and every leaf with its
\* data is the Merkle tree.
LEMMA MatchingIsMerkle ==
    ASSUME LeafHashMatchesData, \A n \in Inner : Matches(hash, n)
    PROVE  hash[<<>>] = MerkleRoot(data)
<1> DEFINE H == MerkleHashes(data)
           S == {k \in Nat : k <= Depth => \A n \in [1 .. Depth - k -> Bit] : hash[n] = H[k][n]}
<1> HIDE DEF H
<1>0. \A k \in 0 .. Depth : H[k] = MerkleLevel(data, H, k)
  BY MerkleHashesDef DEF H
<1>1. 0 \in S
  <2>1. H[0] = MerkleLevel(data, H, 0) /\ Depth - 0 = Depth
    BY <1>0, DepthAssumption
  <2> QED
    BY <2>1 DEF MerkleLevel, LeafHashMatchesData, Leaf
<1>2. ASSUME NEW k \in Nat, k \in S, k + 1 <= Depth, NEW n \in [1 .. Depth - (k + 1) -> Bit]
      PROVE  hash[n] = H[k + 1][n]
  <2>1. Depth - (k + 1) \in 0 .. Depth - 1 /\ Depth - (k + 1) \in Nat /\ k + 1 \in 0 .. Depth
    BY <1>2, DepthAssumption
  <2>2. n \in Inner /\ Len(n) = Depth - (k + 1)
    BY <2>1 DEF Inner
  <2>3. ASSUME NEW b \in Bit
        PROVE  Append(n, b) \in [1 .. Depth - k -> Bit]
    <3>1. /\ Append(n, b) \in Node
          /\ Len(Append(n, b)) = Depth - (k + 1) + 1
      BY <2>2, Children
    <3>2. Len(Append(n, b)) = Depth - k
      BY <3>1, DepthAssumption
    <3>3. Append(n, b) \in [1 .. Len(Append(n, b)) -> Bit]
      BY <3>1, NodeIsSeq
    <3> QED
      BY <3>2, <3>3
  <2>4. \A b \in Bit : hash[Append(n, b)] = H[k][Append(n, b)]
    <3>1. k <= Depth
      BY <1>2, DepthAssumption
    <3>2. \A m \in [1 .. Depth - k -> Bit] : hash[m] = H[k][m]
      BY <1>2, <3>1
    <3> QED
      BY <2>3, <3>2
  <2>5. H[k + 1][n] = GetParent(H[k][Append(n, 0)], H[k][Append(n, 1)])
    <3>1. k + 1 # 0 /\ k + 1 - 1 = k
      OBVIOUS
    <3>2. H[k + 1] = MerkleLevel(data, H, k + 1)
      BY <1>0, <2>1
    <3> QED
      BY <1>2, <3>1, <3>2 DEF MerkleLevel
  <2>6. Matches(hash, n)
    BY <2>2
  <2> QED
    BY <2>4, <2>5, <2>6 DEF Matches, Bit
<1>3. Depth \in S
  <2>1. \A k \in Nat : k \in S => k + 1 \in S
    BY <1>2
  <2> HIDE DEF S
  <2> QED
    BY <1>1, <2>1, Induction, DepthAssumption
<1>4. <<>> \in [1 .. Depth - Depth -> Bit]
  BY DepthAssumption
<1>5. Depth <= Depth
  BY DepthAssumption
<1>6. hash[<<>>] = H[Depth][<<>>]
  BY <1>3, <1>4, <1>5
<1> QED
  BY <1>6 DEF MerkleRoot, H

\* Whenever no update runs and none was left half done, the root row holds the
\* Merkle root of the leaves (UpdateState, StoreLeaf, GetRoot): at every depth and
\* after any number of updates and interruptions that later updates repaired.
THEOREM RootRowIsMerkleRoot == Spec => []RootIsMerkleRoot
<1>1. IInv => RootIsMerkleRoot
  <2>1. SUFFICES ASSUME IInv, pc = "idle", stale = {}
                 PROVE  hash[<<>>] = MerkleRoot(data)
    BY DEF RootIsMerkleRoot
  <2>2. \A n \in Inner : Matches(hash, n)
    BY <2>1 DEF IInv, OnlyInterruptedNodesAreStale, InFlight, Unpropagated
  <2> QED
    BY <2>1, <2>2, MatchingIsMerkle DEF IInv
<1> QED
  BY <1>1, InitIInv, NextIInv, PTL DEF Spec

-----------------------------------------------------------------------------
(* The vacant node for a deposit subtree                                    *)

\* The recursive definition of the default hashes has a solution.
DefaultHash(g, h) ==
    IF h = 0 THEN CreateAccountHash(Zero) ELSE GetParent(g[h - 1], g[h - 1])

LEMMA GenDefaultHashesDef ==
    GenDefaultHashes = [h \in 0 .. Depth |-> DefaultHash(GenDefaultHashes, h)]
<1> DEFINE Rec(g, m) == g = [h \in 0 .. m |-> DefaultHash(g, h)]
           S == {m \in Nat : \E g : Rec(g, m)}
<1>1. ASSUME NEW f, NEW g, NEW h \in Nat, h # 0 => f[h - 1] = g[h - 1]
      PROVE  DefaultHash(f, h) = DefaultHash(g, h)
  BY <1>1 DEF DefaultHash
<1>2. 0 \in S
  <2> DEFINE g == [h \in 0 .. 0 |-> DefaultHash(<<>>, h)]
  <2>1. \A h \in 0 .. 0 : DefaultHash(<<>>, h) = DefaultHash(g, h)
    BY <1>1
  <2>2. g = [h \in 0 .. 0 |-> DefaultHash(g, h)]
    BY <2>1
  <2> QED
    BY <2>2
<1>3. ASSUME NEW m \in Nat, m \in S
      PROVE  m + 1 \in S
  <2>1. PICK f : Rec(f, m)
    BY <1>3
  <2> DEFINE g == [h \in 0 .. m + 1 |-> IF h = m + 1 THEN DefaultHash(f, m + 1) ELSE f[h]]
  <2>2. \A h \in 0 .. m : g[h] = f[h]
    OBVIOUS
  <2>3. \A h \in 0 .. m : f[h] = DefaultHash(f, h)
    BY <2>1
  <2>4. \A h \in 0 .. m + 1 : g[h] = DefaultHash(f, h)
    BY <2>3
  <2>5. ASSUME NEW h \in 0 .. m + 1
        PROVE  DefaultHash(f, h) = DefaultHash(g, h)
    <3>1. h \in Nat /\ (h # 0 => f[h - 1] = g[h - 1])
      BY <2>2
    <3> HIDE DEF g
    <3> QED
      BY <1>1, <3>1
  <2>6. g = [h \in 0 .. m + 1 |-> DefaultHash(g, h)]
    BY <2>4, <2>5
  <2> HIDE DEF g
  <2>7. Rec(g, m + 1)
    BY <2>6
  <2> QED
    BY <2>7
<1>4. Depth \in S
  BY <1>2, <1>3, Induction, DepthAssumption
<1>5. PICK g : Rec(g, Depth)
  BY <1>4
<1>6. GenDefaultHashes = CHOOSE f : Rec(f, Depth)
  BY DEF GenDefaultHashes, DefaultHash
<1> HIDE DEF Rec
<1>7. Rec(GenDefaultHashes, Depth)
  BY <1>5, <1>6
<1> QED
  BY <1>7 DEF Rec

\* A leaf lies below its ancestors, and what lies below one of them lies below
\* the next one up.
LEMMA BelowPrefix ==
    ASSUME NEW p \in Leaf, NEW m \in 0 .. Depth
    PROVE  /\ p \in Below(Prefix(p, m))
           /\ Prefix(p, m) \in Below(Prefix(p, m))
           /\ m # 0 => Below(Prefix(p, m)) \subseteq Below(Prefix(p, m - 1))
<1>1. /\ m \in Nat /\ Len(Prefix(p, m)) = m
      /\ Prefix(p, m) \in Node /\ Prefix(p, m) \in Seq(Bit)
  BY PrefixIsNode, DepthAssumption
<1>2. p \in Below(Prefix(p, m))
  BY <1>1, LeafIsNode, DepthAssumption DEF Below, Prefix
<1>3. Prefix(p, m) \in Below(Prefix(p, m))
  BY <1>1 DEF Below
<1>4. ASSUME m # 0, NEW x \in Below(Prefix(p, m))
      PROVE  x \in Below(Prefix(p, m - 1))
  <2>1. /\ x \in Node /\ x \in Seq(Bit) /\ Len(x) \in Nat
        /\ Len(x) >= m
        /\ SubSeq(x, 1, m) = Prefix(p, m)
    BY <1>1, <1>4, NodeIsSeq, DepthAssumption DEF Below
  <2>2. m - 1 \in 0 .. Depth /\ m - 1 \in Nat
    BY <1>1, <1>4, DepthAssumption
  <2>3. Len(Prefix(p, m - 1)) = m - 1 /\ Prefix(p, m - 1) \in Seq(Bit)
    BY <2>2, PrefixIsNode
  <2>4. p \in Seq(Bit) /\ Len(p) = Depth
    BY DepthAssumption DEF Leaf
  <2>5. \A y \in 1 .. m : x[y] = p[y]
    <3>1. \A y \in 1 .. m : SubSeq(x, 1, m)[y] = x[y]
      BY <1>1, <2>1
    <3>2. \A y \in 1 .. m : Prefix(p, m)[y] = p[y]
      BY PrefixIsNode
    <3> QED
      BY <2>1, <3>1, <3>2
  <2>6. SubSeq(x, 1, m - 1) = Prefix(p, m - 1)
    <3>1. \A y \in 1 .. m - 1 : SubSeq(x, 1, m - 1)[y] = x[y]
      BY <2>1, <2>2
    <3>2. \A y \in 1 .. m - 1 : Prefix(p, m - 1)[y] = p[y]
      BY <2>2, PrefixIsNode
    <3>3. SubSeq(x, 1, m - 1) \in Seq(Bit) /\ Len(SubSeq(x, 1, m - 1)) = m - 1
      BY <2>1, <2>2
    <3>4. \A y \in 1 .. m - 1 : SubSeq(x, 1, m - 1)[y] = Prefix(p, m - 1)[y]
      <4>1. \A y \in 1 .. m - 1 : y \in 1 .. m
        BY <1>1
      <4> QED
        BY <2>5, <3>1, <3>2, <4>1
    <3>5. \A a, b \in Seq(Bit) :
             Len(a) = Len(b) /\ (\A y \in 1 .. Len(a) : a[y] = b[y]) => a = b
      OBVIOUS
    <3> QED
      BY ONLY <2>3, <3>3, <3>4, <3>5
  <2> QED
    BY <2>1, <2>2, <2>3, <2>6 DEF Below
<1> QED
  BY <1>2, <1>3, <1>4

\* Every node is an ancestor of a leaf, for one the leaf its zeros lead to.
LEMMA NodeHasLeaf ==
    ASSUME NEW n \in Node
    PROVE  \E p \in Leaf : n = Prefix(p, Len(n))
<1> DEFINE p == [x \in 1 .. Depth |-> IF x \in 1 .. Len(n) THEN n[x] ELSE 0]
<1>1. /\ n \in [1 .. Len(n) -> Bit] /\ n \in Seq(Bit)
      /\ Len(n) \in 0 .. Depth /\ Len(n) \in Nat
  BY NodeIsSeq, DepthAssumption
<1>2. p \in Leaf
  BY <1>1 DEF Leaf, Bit
<1>3. \A x \in 1 .. Len(n) : p[x] = n[x]
  BY <1>1, DepthAssumption
<1> HIDE DEF p
<1>4. Prefix(p, Len(n)) \in [1 .. Len(n) -> Bit]
  BY <1>1, <1>2, PrefixIsNode
<1>5. \A x \in 1 .. Len(n) : Prefix(p, Len(n))[x] = n[x]
  BY <1>1, <1>2, <1>3, PrefixIsNode
<1>6. n = Prefix(p, Len(n))
  BY <1>1, <1>4, <1>5
<1> QED
  BY <1>2, <1>6

\* A node below which every row agrees with its children has the hash of an
\* empty subtree only if there is no account below it.
LEMMA DefaultHashIsVacant ==
    ASSUME LeafHashMatchesData,
           \A n \in Inner : Matches(hash, n) \/ n \in stale,
           NEW h \in 0 .. Depth,
           NEW n \in Node, Len(n) = Depth - h,
           hash[n] = GenDefaultHashes[h],
           Below(n) \cap stale = {},
           NEW p \in Leaf \cap Below(n)
    PROVE  data[p] = Zero
<1> DEFINE P(k) == \A q \in Leaf :
                      /\ hash[Prefix(q, Depth - k)] = GenDefaultHashes[k]
                      /\ Below(Prefix(q, Depth - k)) \cap stale = {}
                      => data[q] = Zero
           S == {k \in Nat : k <= Depth => P(k)}
<1>0. \A k \in 0 .. Depth : GenDefaultHashes[k] = DefaultHash(GenDefaultHashes, k)
  BY GenDefaultHashesDef
<1>1. 0 \in S
  <2>1. ASSUME NEW q \in Leaf, hash[Prefix(q, Depth - 0)] = GenDefaultHashes[0]
        PROVE  data[q] = Zero
    <3>1. Depth - 0 = Depth /\ 0 \in 0 .. Depth
      BY DepthAssumption
    <3>2. Prefix(q, Depth - 0) = q
      BY <3>1, PrefixEnds
    <3>3. GenDefaultHashes[0] = CreateAccountHash(Zero)
      BY <1>0, <3>1 DEF DefaultHash
    <3>4. hash[q] = CreateAccountHash(data[q])
      BY DEF LeafHashMatchesData
    <3> QED
      BY <2>1, <3>2, <3>3, <3>4 DEF CreateAccountHash
  <2> QED
    BY <2>1
<1>2. ASSUME NEW k \in Nat, k \in S, k + 1 <= Depth, NEW q \in Leaf,
             hash[Prefix(q, Depth - (k + 1))] = GenDefaultHashes[k + 1],
             Below(Prefix(q, Depth - (k + 1))) \cap stale = {}
      PROVE  data[q] = Zero
  <2> DEFINE m == Depth - k
             u == Prefix(q, m - 1)
  <2>1. /\ m \in 1 .. Depth /\ m \in 0 .. Depth /\ m # 0 /\ m - 1 \in 0 .. Depth
        /\ Depth - (k + 1) = m - 1 /\ k <= Depth /\ k + 1 \in 0 .. Depth
    BY <1>2, DepthAssumption
  <2> HIDE DEF m
  <2>2. u \in Inner /\ u \notin stale
    BY <1>2, <2>1, BelowPrefix, ChildrenOnPath
  <2>3. hash[u] = GetParent(hash[Append(u, 0)], hash[Append(u, 1)])
    BY <2>2 DEF Matches
  <2>4. hash[u] = GetParent(GenDefaultHashes[k], GenDefaultHashes[k])
    <3>1. k + 1 # 0 /\ k + 1 - 1 = k
      OBVIOUS
    <3> QED
      BY <1>0, <1>2, <2>1, <3>1 DEF DefaultHash
  <2>5. hash[Append(u, 0)] = GenDefaultHashes[k] /\ hash[Append(u, 1)] = GenDefaultHashes[k]
    BY <2>3, <2>4 DEF GetParent
  <2>6. hash[Prefix(q, m)] = GenDefaultHashes[k]
    BY <2>1, <2>5, ChildrenOnPath
  <2>7. Below(Prefix(q, m)) \cap stale = {}
    BY <1>2, <2>1, BelowPrefix
  <2> QED
    BY <1>2, <2>1, <2>6, <2>7 DEF m
<1>3. h \in S
  <2>1. \A k \in Nat : k \in S => k + 1 \in S
    BY <1>2
  <2> HIDE DEF S
  <2> QED
    BY <1>1, <2>1, Induction, DepthAssumption
<1>4. n = Prefix(p, Depth - h)
  BY DEF Below, Prefix
<1>5. h <= Depth
  BY DepthAssumption
<1> QED
  BY <1>3, <1>4, <1>5

\* The recursive definition of the climb to the root has a solution.
Climb(n, own, proof, C, k) ==
    IF k = 0 THEN own
    ELSE IF n[Len(n) - k + 1] = 0
    THEN GetParent(C[k - 1], proof[k - 1])
    ELSE GetParent(proof[k - 1], C[k - 1])

LEMMA RootFromDef ==
    ASSUME NEW n \in Node, NEW own, NEW proof
    PROVE  \E C : /\ C = [k \in 0 .. Len(n) |-> Climb(n, own, proof, C, k)]
                  /\ RootFrom(n, own, proof) = C[Len(n)]
<1> DEFINE Body(g, k) == Climb(n, own, proof, g, k)
           Rec(g, m) == g = [k \in 0 .. m |-> Body(g, k)]
           S == {m \in Nat : \E g : Rec(g, m)}
<1>1. ASSUME NEW f, NEW g, NEW k \in Nat, k # 0 => f[k - 1] = g[k - 1]
      PROVE  Body(f, k) = Body(g, k)
  BY <1>1 DEF Climb
<1> HIDE DEF Body
<1>2. 0 \in S
  <2> DEFINE g == [k \in 0 .. 0 |-> Body(<<>>, k)]
  <2>1. \A k \in 0 .. 0 : Body(<<>>, k) = Body(g, k)
    BY <1>1
  <2>2. g = [k \in 0 .. 0 |-> Body(g, k)]
    BY <2>1
  <2> QED
    BY <2>2
<1>3. ASSUME NEW m \in Nat, m \in S
      PROVE  m + 1 \in S
  <2>1. PICK f : Rec(f, m)
    BY <1>3
  <2> DEFINE g == [k \in 0 .. m + 1 |-> IF k = m + 1 THEN Body(f, m + 1) ELSE f[k]]
  <2>2. \A k \in 0 .. m : g[k] = f[k]
    OBVIOUS
  <2>3. \A k \in 0 .. m : f[k] = Body(f, k)
    BY <2>1
  <2>4. \A k \in 0 .. m + 1 : g[k] = Body(f, k)
    BY <2>3
  <2>5. ASSUME NEW k \in 0 .. m + 1
        PROVE  Body(f, k) = Body(g, k)
    <3>1. k \in Nat /\ (k # 0 => f[k - 1] = g[k - 1])
      BY <2>2
    <3> HIDE DEF g
    <3> QED
      BY <1>1, <3>1
  <2>6. g = [k \in 0 .. m + 1 |-> Body(g, k)]
    BY <2>4, <2>5
  <2> HIDE DEF g
  <2>7. Rec(g, m + 1)
    BY <2>6
  <2> QED
    BY <2>7
<1>4. Len(n) \in S
  <2>1. Len(n) \in Nat
    BY NodeIsSeq, DepthAssumption
  <2> HIDE DEF S
  <2>2. Nat \subseteq S
    BY <1>2, <1>3, Induction
  <2> QED
    BY <2>1, <2>2
<1>5. PICK g : Rec(g, Len(n))
  BY <1>4
<1> DEFINE C == CHOOSE f : Rec(f, Len(n))
<1>6. RootFrom(n, own, proof) = C[Len(n)]
  BY DEF RootFrom, Body, Climb
<1> HIDE DEF Rec
<1>7. Rec(C, Len(n))
  BY <1>5
<1> HIDE DEF C
<1>8. C = [k \in 0 .. Len(n) |-> Climb(n, own, proof, C, k)]
  BY <1>7 DEF Rec, Body
<1> QED
  BY <1>6, <1>8

\* The first bits of an ancestor's path are those of the leaf's.
LEMMA PrefixOfPrefix ==
    ASSUME NEW p \in Leaf, NEW l \in 0 .. Depth, NEW m \in 0 .. l
    PROVE  SubSeq(Prefix(p, l), 1, m) = Prefix(p, m)
<1>1. l \in Nat /\ m \in Nat /\ m \in 0 .. Depth /\ m <= l
  BY DepthAssumption
<1>2. /\ Prefix(p, l) \in Seq(Bit) /\ Len(Prefix(p, l)) = l
      /\ \A x \in 1 .. l : Prefix(p, l)[x] = p[x]
  BY PrefixIsNode
<1>3. /\ Prefix(p, m) \in Seq(Bit) /\ Len(Prefix(p, m)) = m
      /\ \A x \in 1 .. m : Prefix(p, m)[x] = p[x]
  BY <1>1, PrefixIsNode
<1>4. /\ SubSeq(Prefix(p, l), 1, m) \in Seq(Bit)
      /\ Len(SubSeq(Prefix(p, l), 1, m)) = m
      /\ \A x \in 1 .. m : SubSeq(Prefix(p, l), 1, m)[x] = p[x]
  BY <1>1, <1>2
<1> QED
  BY <1>1, <1>3, <1>4

\* The siblings of a node lead from its row to the root row, where every row on
\* the way agrees with its children.
LEMMA SiblingsProveTheRow ==
    ASSUME \A n \in Inner : Matches(hash, n), NEW n \in Node
    PROVE  RootFrom(n, hash[n], GetSiblings(n)) = hash[<<>>]
<1>1. PICK p \in Leaf : n = Prefix(p, Len(n))
  BY NodeHasLeaf
<1>2. PICK C : /\ C = [k \in 0 .. Len(n) |-> Climb(n, hash[n], GetSiblings(n), C, k)]
               /\ RootFrom(n, hash[n], GetSiblings(n)) = C[Len(n)]
  BY RootFromDef, SMTT(30)
<1> DEFINE L == Len(n)
           S == {k \in Nat : k <= L => C[k] = hash[Prefix(p, L - k)]}
<1>3. L \in Nat /\ L \in 0 .. Depth
  BY NodeIsSeq, DepthAssumption
<1>4. \A k \in 0 .. L : C[k] = Climb(n, hash[n], GetSiblings(n), C, k)
  BY <1>2
<1> HIDE DEF L
<1>5. 0 \in S
  <2>1. C[0] = hash[n] /\ L - 0 = L
    BY <1>3, <1>4 DEF Climb
  <2> QED
    BY <1>1, <2>1 DEF L
<1>6. ASSUME NEW k \in Nat, k \in S, k + 1 <= L
      PROVE  C[k + 1] = hash[Prefix(p, L - (k + 1))]
  <2> DEFINE m == L - k
  <2>1. /\ m \in 1 .. Depth /\ m \in 0 .. Depth /\ L - (k + 1) = m - 1 /\ k <= L
        /\ k \in 0 .. L - 1 /\ k + 1 \in 0 .. L /\ L - (k + 1) + 1 = m
        /\ m \in 1 .. L
        /\ k + 1 # 0 /\ k + 1 - 1 = k
    BY <1>3, <1>6, DepthAssumption
  <2>2. C[k] = hash[Prefix(p, m)]
    BY <1>6, <2>1
  <2> HIDE DEF m
  <2>3. n[m] = p[m]
    BY <1>1, <1>3, <2>1, PrefixIsNode DEF L
  <2>4. GetSiblings(n)[k] = hash[GetOtherChild(Prefix(p, m))]
    <3>1. GetSiblings(n)[k] = hash[GetOtherChild(SubSeq(n, 1, m))]
      BY <2>1 DEF GetSiblings, L, m
    <3>2. SubSeq(n, 1, m) = Prefix(p, m)
      <4>1. m \in 0 .. L
        BY <1>3, <2>1
      <4>2. SubSeq(Prefix(p, L), 1, m) = Prefix(p, m)
        BY <1>3, <4>1, PrefixOfPrefix
      <4> QED
        BY <1>1, <4>2 DEF L
    <3> QED
      BY <3>1, <3>2
  <2>5. C[k + 1] = IF p[m] = 0 THEN GetParent(C[k], GetSiblings(n)[k])
                   ELSE GetParent(GetSiblings(n)[k], C[k])
    BY <1>4, <2>1, <2>3 DEF Climb, L
  <2>6. Matches(hash, Prefix(p, m - 1))
    BY <2>1, ChildrenOnPath
  <2>7. CASE p[m] = 0
    BY <2>1, <2>2, <2>4, <2>5, <2>6, <2>7, ChildrenOnPath DEF Matches
  <2>8. CASE p[m] # 0
    BY <2>1, <2>2, <2>4, <2>5, <2>6, <2>8, ChildrenOnPath DEF Matches
  <2> QED
    BY <2>7, <2>8
<1>7. L \in S
  <2>1. \A k \in Nat : k \in S => k + 1 \in S
    BY <1>6
  <2> HIDE DEF S
  <2> QED
    BY <1>3, <1>5, <2>1, Induction
<1>8. C[L] = hash[Prefix(p, 0)]
  <2>1. L <= L /\ L - L = 0
    BY <1>3
  <2> QED
    BY <1>7, <2>1
<1> QED
  BY <1>2, <1>8, PrefixEnds DEF L

\* A node that GetDepositSubTreeRoot read for SendDepositFinalisationTx has only
\* leaves that are ZERO_VALUE_LEAF below it unless an update was interrupted right
\* there, and the siblings prove that it is empty to whoever knows the root, unless an
\* update was interrupted anywhere.  (The empty row that stands for a failed query is
\* excepted.)
THEOREM DepositNodeVacant == Spec => []DepositNodeIsVacant
<1>1. IInv => DepositNodeIsVacant
  <2>1. SUFFICES ASSUME IInv, pc = "idle", NEW h \in 0 .. Depth,
                        NEW answer \in GetDepositNodeAndSiblings(h), answer.node.read
                 PROVE  /\ Below(answer.node.path) \cap stale = {} =>
                              \A p \in Leaf \cap Below(answer.node.path) : data[p] = Zero
                        /\ stale = {} =>
                              RootFrom(answer.node.path, GenDefaultHashes[h], answer.siblings)
                                = MerkleRoot(data)
    BY DEF DepositNodeIsVacant
  <2>2. PICK row \in GetDepositSubTreeRoot(GenDefaultHashes[h], Depth - h) :
                answer = [node |-> row, siblings |-> GetSiblings(row.path)]
    BY <2>1 DEF GetDepositNodeAndSiblings
  <2>3. answer.node = row /\ answer.siblings = GetSiblings(row.path)
    BY <2>2
  <2>4. PICK n \in Node : row = Found(n) /\ Len(n) = Depth - h /\ hash[n] = GenDefaultHashes[h]
    <3>1. row # EmptyRow
      BY <2>1, <2>3 DEF EmptyRow
    <3> QED
      BY <2>2, <3>1 DEF GetDepositSubTreeRoot
  <2>5. answer.node.path = n /\ answer.siblings = GetSiblings(n)
    BY <2>3, <2>4 DEF Found
  <2>6. \A m \in Inner : Matches(hash, m) \/ m \in stale
    BY <2>1 DEF IInv, OnlyInterruptedNodesAreStale, InFlight, Unpropagated
  <2>7. LeafHashMatchesData
    BY <2>1 DEF IInv
  <2>8. Below(n) \cap stale = {} => \A p \in Leaf \cap Below(n) : data[p] = Zero
    BY <2>4, <2>6, <2>7, DefaultHashIsVacant
  <2>9. ASSUME stale = {}
        PROVE  RootFrom(n, GenDefaultHashes[h], GetSiblings(n)) = MerkleRoot(data)
    <3>1. \A m \in Inner : Matches(hash, m)
      BY <2>6, <2>9
    <3> QED
      BY <2>4, <2>7, <3>1, MatchingIsMerkle, SiblingsProveTheRow
  <2> QED
    BY <2>5, <2>8, <2>9
<1> QED
  BY <1>1, InitIInv, NextIInv, PTL DEF Spec
=============================================================================
