-------------------------- MODULE AccountTree_proofs --------------------------
(***************************************************************************)
(* What the account tree guarantees for every depth, every set of keys and *)
(* any sequence of finished, repeated and interrupted registrations.       *)
(***************************************************************************)
EXTENDS AccountTree, FiniteSetTheorems, WellFoundedInduction, TLAPS

-----------------------------------------------------------------------------
(* Paths *)

\* The first m bits of a leaf's path: the path of its ancestor at level m.
Prefix(p, m) == SubSeq(p, 1, m)

\* A sequence is a function on the indices up to its length.
LEMMA SeqIsFunction ==
    ASSUME NEW S, NEW s \in Seq(S), NEW m \in Nat, Len(s) = m
    PROVE  s \in [1 .. m -> S]
OBVIOUS

\* A node is a sequence of bits no longer than the depth.
LEMMA NodeIsSeq ==
    ASSUME NEW n \in Node
    PROVE  /\ n \in Seq(Bit)
           /\ Len(n) \in 0 .. Depth
           /\ n \in [1 .. Len(n) -> Bit]
<1>1. PICK m \in 0 .. Depth : n \in [1 .. m -> Bit]
  BY DEF Node
<1>2. m \in Nat
  BY DepthAssumption
<1>3. n \in Seq(Bit) /\ Len(n) = m
  BY <1>1, <1>2
<1> QED
  BY <1>1, <1>2, <1>3

\* An ancestor of a leaf is a node, the list of the leaf's first bits.
LEMMA PrefixIsNode ==
    ASSUME NEW p \in Leaf, NEW m \in 0 .. Depth
    PROVE  /\ Prefix(p, m) \in [1 .. m -> Bit]
           /\ Prefix(p, m) \in Node
           /\ Prefix(p, m) \in Seq(Bit)
           /\ Len(Prefix(p, m)) = m
           /\ \A x \in 1 .. m : Prefix(p, m)[x] = p[x]
<1>1. p \in Seq(Bit) /\ Len(p) = Depth
  BY DepthAssumption DEF Leaf
<1>2. m \in Nat
  BY DepthAssumption
<1>3. /\ Prefix(p, m) \in Seq(Bit)
      /\ Len(Prefix(p, m)) = m
      /\ \A x \in 1 .. m : Prefix(p, m)[x] = p[x]
  BY <1>1, <1>2, DepthAssumption DEF Prefix
<1>4. Prefix(p, m) \in [1 .. m -> Bit]
  BY <1>2, <1>3
<1> QED
  BY <1>3, <1>4 DEF Node

LEMMA PrefixParent ==
    ASSUME NEW p \in Leaf, NEW m \in 1 .. Depth
    PROVE  GetParentPath(Prefix(p, m)) = Prefix(p, m - 1)
<1>1. p \in Seq(Bit) /\ Len(p) = Depth
  BY DepthAssumption DEF Leaf
<1>2. m \in 0 .. Depth /\ m - 1 \in 0 .. Depth
  BY DepthAssumption
<1> QED
  BY <1>1, <1>2, PrefixIsNode, DepthAssumption DEF GetParentPath, Prefix

\* The other child of an ancestor's parent is a node that is not itself an
\* ancestor of the leaf: no registration of the leaf changes it.
LEMMA OtherChild ==
    ASSUME NEW p \in Leaf, NEW m \in 1 .. Depth
    PROVE  /\ GetOtherChild(Prefix(p, m)) \in Node
           /\ \A k \in 0 .. Depth : GetOtherChild(Prefix(p, m)) # Prefix(p, k)
<1> DEFINE a == Prefix(p, m)
           o == GetOtherChild(a)
<1>1. /\ m \in Nat /\ m \in 0 .. Depth /\ m \in 1 .. m
      /\ a \in [1 .. m -> Bit] /\ Len(a) = m
  BY PrefixIsNode, DepthAssumption
<1>2. 1 - a[m] \in Bit /\ 1 - a[m] # a[m]
  BY <1>1 DEF Bit
<1>3. o = [a EXCEPT ![m] = 1 - a[m]]
  BY <1>1 DEF GetOtherChild
<1>4. o \in [1 .. m -> Bit] /\ o[m] # a[m]
  BY <1>1, <1>2, <1>3
<1>5. o \in Node
  BY <1>1, <1>4 DEF Node
<1>6. ASSUME NEW k \in 0 .. Depth, o = Prefix(p, k) PROVE FALSE
  <2>1. Len(o) = m
    BY <1>1, <1>4
  <2>2. k = m
    BY <2>1, <1>6, PrefixIsNode
  <2> QED
    BY <2>2, <1>6, <1>4
<1> QED
  BY <1>5, <1>6

\* The children of an inner node are nodes, one level down.
LEMMA Children ==
    ASSUME NEW n \in Inner, NEW b \in Bit
    PROVE  /\ n \in Node
           /\ Append(n, b) \in Node
           /\ Len(Append(n, b)) = Len(n) + 1
           /\ Len(n) \in 0 .. Depth - 1
<1>1. PICK m \in 0 .. Depth - 1 : n \in [1 .. m -> Bit]
  BY DEF Inner
<1>2. m \in Nat /\ m \in 0 .. Depth /\ m + 1 \in 0 .. Depth
  BY DepthAssumption
<1>3. n \in Seq(Bit) /\ Len(n) = m
  BY <1>1, <1>2
<1>4. Append(n, b) \in Seq(Bit) /\ Len(Append(n, b)) = m + 1
  BY <1>3
<1>5. Append(n, b) \in [1 .. m + 1 -> Bit]
  BY <1>4, <1>2, SeqIsFunction, m + 1 \in Nat
<1> QED
  BY <1>1, <1>2, <1>3, <1>4, <1>5 DEF Node

\* A child of n is an ancestor of the leaf only if n is, one level above.
LEMMA ChildOnPath ==
    ASSUME NEW p \in Leaf, NEW m \in 0 .. Depth,
           NEW n \in Inner, NEW b \in Bit, Append(n, b) = Prefix(p, m)
    PROVE  m \in 1 .. Depth /\ n = Prefix(p, m - 1)
<1>1. Len(n) + 1 = m /\ n \in Seq(Bit) /\ Len(n) \in Nat
  BY Children, PrefixIsNode, NodeIsSeq, DepthAssumption
<1>2. m \in 1 .. Depth
  BY <1>1, DepthAssumption
<1>3. GetParentPath(Append(n, b)) = n
  BY <1>1 DEF GetParentPath
<1> QED
  BY <1>2, <1>3, PrefixParent

\* The two children of an ancestor's parent: the ancestor and its sibling.
LEMMA ChildrenOnPath ==
    ASSUME NEW p \in Leaf, NEW m \in 1 .. Depth
    PROVE  /\ Prefix(p, m - 1) \in Inner
           /\ p[m] = 0 => /\ Append(Prefix(p, m - 1), 0) = Prefix(p, m)
                         /\ Append(Prefix(p, m - 1), 1) = GetOtherChild(Prefix(p, m))
           /\ p[m] # 0 => /\ Append(Prefix(p, m - 1), 0) = GetOtherChild(Prefix(p, m))
                         /\ Append(Prefix(p, m - 1), 1) = Prefix(p, m)
<1> DEFINE a == Prefix(p, m)
           u == Prefix(p, m - 1)
<1>1. /\ m \in Nat /\ m \in 0 .. Depth /\ m - 1 \in 0 .. Depth /\ m - 1 \in Nat
      /\ m - 1 \in 0 .. Depth - 1 /\ m \in 1 .. m
  BY DepthAssumption
<1>2. /\ a \in [1 .. m -> Bit] /\ Len(a) = m /\ a \in Seq(Bit)
      /\ \A x \in 1 .. m : a[x] = p[x]
  BY <1>1, PrefixIsNode
<1>3. /\ u \in [1 .. m - 1 -> Bit] /\ Len(u) = m - 1 /\ u \in Seq(Bit)
      /\ \A x \in 1 .. m - 1 : u[x] = p[x]
  BY <1>1, PrefixIsNode
<1>4. u \in Inner
  BY <1>1, <1>3 DEF Inner
<1>5. a[m] = p[m] /\ p[m] \in Bit
  BY <1>1, <1>2
<1>6. GetOtherChild(a) = [a EXCEPT ![m] = 1 - p[m]]
  BY <1>2, <1>5 DEF GetOtherChild
<1>7. ASSUME NEW b \in Bit
      PROVE  /\ Append(u, b) \in [1 .. m -> Bit]
             /\ \A x \in 1 .. m - 1 : Append(u, b)[x] = p[x]
             /\ Append(u, b)[m] = b
  <2>1. Append(u, b) \in Seq(Bit) /\ Len(Append(u, b)) = m
    BY <1>1, <1>3
  <2>2. \A x \in 1 .. m - 1 : Append(u, b)[x] = p[x]
    BY <1>1, <1>3
  <2>3. Append(u, b)[m] = b
    BY <1>1, <1>3
  <2>4. Append(u, b) \in [1 .. m -> Bit]
    BY <1>1, <2>1, SeqIsFunction
  <2> QED
    BY <2>2, <2>3, <2>4
<1>8. ASSUME NEW b \in Bit, b = p[m] PROVE Append(u, b) = a
  BY <1>1, <1>2, <1>7, <1>8
<1>9. ASSUME NEW b \in Bit, b = 1 - p[m] PROVE Append(u, b) = GetOtherChild(a)
  <2>1. GetOtherChild(a) \in [1 .. m -> Bit]
    BY <1>1, <1>2, <1>6, <1>9
  <2>2. GetOtherChild(a)[m] = b
    BY <1>1, <1>2, <1>6, <1>9
  <2>3. \A x \in 1 .. m - 1 : GetOtherChild(a)[x] = p[x]
    BY <1>1, <1>2, <1>6
  <2>4. \A x \in 1 .. m : Append(u, b)[x] = GetOtherChild(a)[x]
    BY <1>1, <1>7, <2>2, <2>3
  <2> QED
    BY <1>1, <1>7, <2>1, <2>4
<1> QED
  BY <1>4, <1>5, <1>8, <1>9 DEF Bit

\* The root and the leaf are the shortest and the longest prefix.
LEMMA PrefixEnds ==
    ASSUME NEW p \in Leaf
    PROVE  Prefix(p, 0) = <<>> /\ Prefix(p, Depth) = p
<1>1. p \in Seq(Bit) /\ Len(p) = Depth
  BY DepthAssumption DEF Leaf
<1> QED
  BY <1>1, DepthAssumption DEF Prefix

\* A leaf is a node and is never an inner one.
LEMMA LeafIsNode ==
    ASSUME NEW p \in Leaf
    PROVE  /\ p \in Node
           /\ Len(p) = Depth
           /\ \A n \in Inner : n # p
<1>1. p \in Node /\ Len(p) = Depth
  BY PrefixIsNode, PrefixEnds, DepthAssumption
<1>2. \A n \in Inner : Len(n) # Depth
  BY Children, DepthAssumption DEF Bit
<1> QED
  BY <1>1, <1>2

\* The parent of the leaves n0 and n1 is n.
LEMMA ParentOfChild ==
    ASSUME NEW n \in Inner, NEW b \in Bit
    PROVE  /\ GetParentPath(Append(n, b)) = n
           /\ Append(n, b) \in Leaf => n \in Pairs
<1>1. /\ n \in Seq(Bit) /\ Len(n) \in Nat /\ n \in [1 .. Len(n) -> Bit]
      /\ Len(Append(n, b)) = Len(n) + 1
  BY Children, NodeIsSeq
<1>2. GetParentPath(Append(n, b)) = n
  BY <1>1 DEF GetParentPath
<1>3. ASSUME Append(n, b) \in Leaf
      PROVE  n \in Pairs
  <2>1. Len(Append(n, b)) = Depth
    BY <1>3, LeafIsNode
  <2>2. Len(n) = Depth - 1
    BY <1>1, <2>1
  <2> QED
    BY <1>1, <2>2 DEF Pairs
<1> QED
  BY <1>2, <1>3

\* A power of two is positive: it counts the subsets of 1..n.
LEMMA PowerIsPositive ==
    ASSUME NEW n \in Nat
    PROVE  2 ^ n \in Nat \ {0}
<1>1. IsFiniteSet(1 .. n) /\ Cardinality(1 .. n) = n
  BY FS_Interval
<1>2. IsFiniteSet(SUBSET (1 .. n)) /\ Cardinality(SUBSET (1 .. n)) = 2 ^ n
  BY <1>1, FS_SUBSET
<1>3. Cardinality(SUBSET (1 .. n)) \in Nat
  BY <1>2, FS_CardinalityType
<1>4. SUBSET (1 .. n) # {}
  OBVIOUS
<1>5. Cardinality(SUBSET (1 .. n)) # 0
  BY <1>2, <1>4, FS_EmptySet
<1> QED
  BY <1>2, <1>3, <1>5

\* Every account ID is the number of a leaf.
LEMMA AccountPath ==
    ASSUME NEW x \in AccountIDs
    PROVE  SolidityPathToNodePath(x, Depth) \in Leaf
<1>1. x \in Nat
  <2>1. 2 ^ Depth \in Nat
    BY PowerIsPositive, DepthAssumption
  <2> QED
    BY <2>1 DEF AccountIDs
<1>2. ASSUME NEW k \in 1 .. Depth
      PROVE  (x \div 2 ^ (Depth - k)) % 2 \in Bit
  <2>1. 2 ^ (Depth - k) \in Nat \ {0}
    BY PowerIsPositive, DepthAssumption
  <2>2. \A d \in Nat \ {0} : x \div d \in Int
    BY <1>1
  <2>3. \A y \in Int : y % 2 \in Bit
    BY DEF Bit
  <2> QED
    BY <2>1, <2>2, <2>3
<1> QED
  BY <1>2 DEF SolidityPathToNodePath, Leaf

-----------------------------------------------------------------------------
(* The inductive invariant                                                  *)

Types ==
    /\ hash = [n \in Node |-> hash[n]]
    /\ pc \in {"idle", "left", "right", "parent", "root"}
    /\ i \in 0 .. Depth
    /\ leaf.path \in Leaf
    /\ latest = [q \in Pairs |-> latest[q]]

\* The key a pair holds belongs to one of its two leaves.
PairInv ==
    \A q \in Pairs :
        latest[q].path = <<>>
        \/ (latest[q].path \in Leaf /\ GetParentPath(latest[q].path) = q)

\* Where storeAccountLeaf is on the path, and that the computed node is, above the
\* leaf, as it is in the table.
PathInv ==
    pc # "idle" =>
        /\ computed.path = Prefix(leaf.path, Depth - i)
        /\ IF pc = "root" THEN i = Depth ELSE i \in 0 .. Depth - 1
        /\ i = 0 => computed = leaf
        /\ i > 0 => computed.id = RowID(computed.path) /\ hash[computed.path] = computed.hash

\* The siblings that are still needed are as they were read.
SiblingsInv ==
    pc # "idle" => \A k \in 0 .. Depth - 1 : k >= i =>
        siblings[k] = GetAccountLeafByPath(GetOtherChild(Prefix(leaf.path, Depth - k)))

\* A leaf whose UPDATE matches a row is in it before its parent is written.
LeafInv ==
    (pc = "parent" \/ (pc = "right" /\ IsLeft)) /\ i = 0 /\ MatchesRow(leaf)
        => hash[leaf.path] = leaf.hash

\* So is the key a pair holds, unless a later one has overwritten it.
LatestInv ==
    \A q \in Pairs \ (stale \cup InFlight) :
        latest[q].path # <<>> /\ MatchesRow(latest[q]) => hash[latest[q].path] = latest[q].hash

Follows(n) == hash[n] = GetParent(Holds(Append(n, 0)), Holds(Append(n, 1)))

\* While a key that the tree holds is registered again, the tree keeps holding it
\* and no inner row is out of date, not even the one that is written next.
AgainInv ==
    again /\ pc # "idle" =>
        /\ stale = {}
        /\ \A n \in Inner : Follows(n)
        /\ latest[GetParentPath(leaf.path)] = leaf
        /\ MatchesRow(leaf) => hash[leaf.path] = leaf.hash

AccountInv ==
    /\ Types /\ PairInv /\ PathInv /\ SiblingsInv /\ LeafInv /\ LatestInv
    /\ InnerRowsFollow /\ AgainInv


LEMMA InitAccountInv == Init => AccountInv
<1> SUFFICES ASSUME Init PROVE AccountInv
  OBVIOUS
<1>1. leaf.path \in Leaf
  BY DEF Init, GetAccountLeafByPath, Leaf, Bit
<1>2. hash = InitHash /\ hash = [n \in Node |-> hash[n]] /\ pc = "idle" /\ ~again /\ stale = {}
  BY AccountAssumption DEF Init
<1>3. latest = [q \in Pairs |-> Nobody]
  BY DEF Init
<1>4. \A q \in Pairs : latest[q] = Nobody /\ latest[q].path = <<>>
  BY <1>3 DEF Nobody
<1>5. Types
  BY <1>1, <1>2, <1>3, DepthAssumption DEF Types, Init
<1>6. PairInv /\ LatestInv
  BY <1>4 DEF PairInv, LatestInv
<1>7. InnerRowsFollow
  <2>1. ASSUME NEW n \in Inner, NEW b \in Bit
        PROVE  Holds(Append(n, b)) = hash[Append(n, b)]
    <3>1. CASE Append(n, b) \in Leaf
      <4>1. latest[GetParentPath(Append(n, b))].path = <<>>
        BY <3>1, <1>4, ParentOfChild
      <4>2. Append(n, b) # <<>>
        BY Children, DepthAssumption
      <4> QED
        BY <4>1, <4>2 DEF Holds
    <3>2. CASE Append(n, b) \notin Leaf
      BY <3>2 DEF Holds
    <3> QED
      BY <3>1, <3>2
  <2> QED
    BY <1>2, <2>1, AccountAssumption DEF InnerRowsFollow, Matches, Bit
<1> QED
  BY <1>2, <1>5, <1>6, <1>7 DEF AccountInv, PathInv, SiblingsInv, LeafInv, AgainInv

\* The handler writes nothing; whether the tree holds the key is decided here.
LEMMA ProcessInv ==
    ASSUME AccountInv, NEW x \in AccountIDs, NEW key \in Keys, ProcessNewPubkeyAddition(x, key)
    PROVE  AccountInv'
<1>1. /\ pc = "idle" /\ pc' = "left" /\ i' = 0 /\ computed' = leaf'
      /\ hash' = hash /\ latest' = latest /\ stale' = stale
      /\ siblings' = GetAccountSiblings(leaf'.path) /\ again' = Held(leaf')
  BY DEF ProcessNewPubkeyAddition
<1>2. leaf'.path \in Leaf
  BY AccountPath DEF ProcessNewPubkeyAddition, NewAccount
<1>3. InFlight = {}
  BY <1>1 DEF InFlight, Unpropagated
<1>4. Types'
  BY <1>1, <1>2, DepthAssumption DEF AccountInv, Types
<1>5. PairInv'
  BY <1>1 DEF AccountInv, PairInv
<1>6. PathInv'
  <2>1. leaf'.path = Prefix(leaf'.path, Depth - 0)
    BY <1>2, PrefixEnds, DepthAssumption
  <2> QED
    BY <1>1, <2>1, DepthAssumption DEF PathInv
<1>7. SiblingsInv'
  BY <1>1 DEF SiblingsInv, GetAccountSiblings, GetAccountLeafByPath, Prefix
<1>8. LeafInv'
  BY <1>1 DEF LeafInv
<1>9. LatestInv'
  BY <1>1, <1>3 DEF AccountInv, LatestInv, MatchesRow
<1>10. InnerRowsFollow'
  BY <1>1, <1>3 DEF AccountInv, InnerRowsFollow, Holds
<1>11. AgainInv'
  <2> SUFFICES ASSUME Held(leaf')
               PROVE  /\ stale = {}
                      /\ \A n \in Inner : Follows(n)
                      /\ latest[GetParentPath(leaf'.path)] = leaf'
                      /\ MatchesRow(leaf') => hash[leaf'.path] = leaf'.hash
    BY <1>1 DEF AgainInv, Follows, Holds, MatchesRow
  <2> DEFINE q == GetParentPath(leaf'.path)
  <2>1. stale = {} /\ latest[q] = leaf'
    BY DEF Held
  <2>2. \A n \in Inner : Follows(n)
    BY <1>3, <2>1 DEF AccountInv, InnerRowsFollow, Follows
  <2>3. q \in Pairs
    <3>1. Depth \in 1 .. Depth /\ Depth - 1 \in 0 .. Depth
      BY DepthAssumption
    <3>2. q = Prefix(leaf'.path, Depth - 1)
      BY <1>2, <3>1, PrefixEnds, PrefixParent
    <3> QED
      BY <1>2, <3>1, <3>2, PrefixIsNode DEF Pairs
  <2>4. leaf'.path # <<>>
    BY <1>2, LeafIsNode, DepthAssumption
  <2>5. MatchesRow(leaf') => hash[leaf'.path] = leaf'.hash
    BY <1>3, <2>1, <2>3, <2>4 DEF AccountInv, LatestInv
  <2> QED
    BY <2>1, <2>2, <2>5
<1> QED
  BY <1>4, <1>5, <1>6, <1>7, <1>8, <1>9, <1>10, <1>11 DEF AccountInv

\* Where storeAccountLeaf stands: a is the computed node, u its parent and o the
\* other child of u.
LEMMA Position ==
    ASSUME AccountInv, pc \in {"left", "right", "parent"}
    PROVE  /\ leaf.path \in Leaf /\ leaf.path \in Node
           /\ i \in 0 .. Depth - 1 /\ i \in Nat
           /\ Depth - i \in 1 .. Depth /\ Depth - i \in 0 .. Depth
           /\ computed.path = Prefix(leaf.path, Depth - i) /\ computed.path \in Node
           /\ GetParentPath(computed.path) = Prefix(leaf.path, Depth - i - 1)
           /\ Prefix(leaf.path, Depth - i - 1) \in Inner
           /\ Prefix(leaf.path, Depth - i - 1) \in Node
           /\ i = 0 => computed = leaf /\ Prefix(leaf.path, Depth - i - 1) \in Pairs
           /\ siblings[i] = GetAccountLeafByPath(GetOtherChild(computed.path))
           /\ GetOtherChild(computed.path) \in Node
<1>1. /\ leaf.path \in Leaf /\ i \in 0 .. Depth - 1
      /\ computed.path = Prefix(leaf.path, Depth - i)
      /\ i = 0 => computed = leaf
  BY DEF AccountInv, Types, PathInv
<1>2. /\ Depth - i \in 1 .. Depth /\ Depth - i \in 0 .. Depth /\ i \in Nat
      /\ Depth - i - 1 \in 0 .. Depth
  BY <1>1, DepthAssumption
<1>3. GetParentPath(computed.path) = Prefix(leaf.path, Depth - i - 1)
  BY <1>1, <1>2, PrefixParent
<1>4. Prefix(leaf.path, Depth - i - 1) \in Inner
  BY <1>1, <1>2, ChildrenOnPath
<1>5. computed.path \in Node /\ Prefix(leaf.path, Depth - i - 1) \in Node
  BY <1>1, <1>2, PrefixIsNode
<1>6. i = 0 => Prefix(leaf.path, Depth - i - 1) \in Pairs
  <2>1. Prefix(leaf.path, Depth - i - 1) \in [1 .. Depth - i - 1 -> Bit]
    BY <1>1, <1>2, PrefixIsNode
  <2>2. i = 0 => Depth - i - 1 = Depth - 1
    BY DepthAssumption
  <2> QED
    BY <2>1, <2>2 DEF Pairs
<1>7. siblings[i] = GetAccountLeafByPath(GetOtherChild(computed.path))
  <2>1. siblings[i] = GetAccountLeafByPath(GetOtherChild(Prefix(leaf.path, Depth - i)))
    <3>1. \A k \in 0 .. Depth - 1 : k >= i =>
             siblings[k] = GetAccountLeafByPath(GetOtherChild(Prefix(leaf.path, Depth - k)))
      BY DEF AccountInv, SiblingsInv
    <3>2. i >= i
      BY <1>2
    <3> QED
      BY <1>1, <3>1, <3>2
  <2> QED
    BY <1>1, <2>1
<1>8. GetOtherChild(computed.path) \in Node
  BY <1>1, <1>2, OtherChild
<1> QED
  BY <1>1, <1>2, <1>3, <1>4, <1>5, <1>6, <1>7, <1>8, LeafIsNode


-----------------------------------------------------------------------------
(* The two children                                                         *)

\* The sibling is written back with the row it was read from.
LEMMA SiblingWrite ==
    ASSUME AccountInv, pc \in {"left", "right", "parent"}
    PROVE  UpdateSingleAccount(siblings[i]) = hash
<1> DEFINE o == GetOtherChild(computed.path)
<1>1. /\ siblings[i] = [id |-> RowID(o), path |-> o, hash |-> hash[o]]
      /\ o \in Node /\ hash = [n \in Node |-> hash[n]]
  BY Position DEF GetAccountLeafByPath, AccountInv, Types
<1>2. siblings[i].path = o /\ siblings[i].hash = hash[o]
  BY <1>1
<1>3. [hash EXCEPT ![o] = hash[o]] = hash
  BY <1>1
<1> QED
  BY <1>2, <1>3 DEF UpdateSingleAccount

\* The computed node changes a row only if it is the leaf, and its UPDATE matches.
LEMMA ComputedWrite ==
    ASSUME AccountInv, pc \in {"left", "right", "parent"}
    PROVE  IF i = 0 /\ MatchesRow(leaf)
           THEN UpdateSingleAccount(computed) = [hash EXCEPT ![leaf.path] = leaf.hash]
           ELSE UpdateSingleAccount(computed) = hash
<1>1. hash = [n \in Node |-> hash[n]]
  BY DEF AccountInv, Types
<1>2. CASE i = 0
  <2>1. computed = leaf
    BY <1>2, Position
  <2> QED
    BY <1>2, <2>1 DEF UpdateSingleAccount
<1>3. CASE i # 0
  <2>1. i > 0 /\ computed.path \in Node
    BY <1>3, Position
  <2>2. computed.id = RowID(computed.path) /\ hash[computed.path] = computed.hash
    BY <2>1 DEF AccountInv, PathInv
  <2>3. [hash EXCEPT ![computed.path] = computed.hash] = hash
    BY <1>1, <2>1, <2>2
  <2> QED
    BY <1>3, <2>3 DEF UpdateSingleAccount
<1> QED
  BY <1>2, <1>3

\* The leaf is written while the parent counts as in flight; nothing else changes.
WritesLeaf == i = 0 /\ MatchesRow(leaf) /\ hash' = [hash EXCEPT ![leaf.path] = leaf.hash]

LEMMA WriteInv ==
    ASSUME AccountInv, pc \in {"left", "right"}, pc' \in {"right", "parent"},
           UNCHANGED <<i, leaf, computed, siblings, history>>,
           hash' = hash \/ WritesLeaf, LeafInv'
    PROVE  AccountInv' /\ (again => hash' = hash)
<1> DEFINE p == leaf.path
           u == Prefix(leaf.path, Depth - i - 1)
<1>1. /\ i' = i /\ leaf' = leaf /\ computed' = computed /\ siblings' = siblings
      /\ latest' = latest /\ again' = again /\ stale' = stale
  BY DEF history
<1>2. /\ p \in Leaf /\ p \in Node /\ i \in 0 .. Depth - 1 /\ i \in Nat
      /\ Depth - i \in 0 .. Depth
      /\ GetParentPath(computed.path) = u /\ u \in Inner
      /\ computed.path = Prefix(p, Depth - i)
      /\ i = 0 => computed = leaf
  BY Position
<1>3. hash = [n \in Node |-> hash[n]] /\ hash' = [n \in Node |-> hash'[n]]
  BY <1>2 DEF AccountInv, Types, WritesLeaf
<1>4. \A n \in Node : n # p => hash'[n] = hash[n]
  BY <1>2, <1>3 DEF WritesLeaf
<1>5. \A n \in Inner : n \in Node /\ n # p /\ hash'[n] = hash[n]
  BY <1>2, <1>4, Children, LeafIsNode DEF Bit
<1>6. /\ InFlight' = InFlight
      /\ WritesLeaf => InFlight = {GetParentPath(p)}
  <2>1. Unpropagated' = Unpropagated
    BY <1>1 DEF Unpropagated, MatchesRow
  <2>2. InFlight' = InFlight
    BY <1>1, <2>1 DEF InFlight
  <2>3. WritesLeaf => Unpropagated /\ computed.path = p
    BY <1>2 DEF Unpropagated, WritesLeaf
  <2> QED
    BY <2>2, <2>3 DEF InFlight
<1>7. again => hash' = hash
  <2> SUFFICES ASSUME again, WritesLeaf
               PROVE  hash' = hash
    OBVIOUS
  <2>1. hash[p] = leaf.hash
    BY DEF AccountInv, AgainInv, WritesLeaf
  <2> QED
    BY <1>2, <1>3, <2>1 DEF WritesLeaf
<1>8. Types'
  BY <1>1, <1>3 DEF AccountInv, Types
<1>9. PairInv'
  BY <1>1 DEF AccountInv, PairInv
<1>10. PathInv'
  <2>1. i > 0 => computed.path # p
    BY <1>2, PrefixIsNode, LeafIsNode, DepthAssumption
  <2>2. i > 0 => hash'[computed.path] = hash[computed.path]
    BY <1>2, <1>4, <2>1, PrefixIsNode
  <2> QED
    BY <1>1, <1>2, <2>2 DEF AccountInv, PathInv
<1>11. SiblingsInv'
  <2> SUFFICES ASSUME NEW k \in 0 .. Depth - 1, k >= i
               PROVE  siblings[k] = GetAccountLeafByPath(GetOtherChild(Prefix(p, Depth - k)))'
    BY <1>1 DEF SiblingsInv
  <2> DEFINE o == GetOtherChild(Prefix(p, Depth - k))
  <2>1. Depth - k \in 1 .. Depth /\ Depth \in 0 .. Depth
    BY DepthAssumption
  <2>2. o \in Node /\ o # p
    BY <1>2, <2>1, OtherChild, PrefixEnds
  <2>3. siblings[k] = GetAccountLeafByPath(o)
    BY DEF AccountInv, SiblingsInv
  <2>4. hash'[o] = hash[o]
    BY <1>4, <2>2
  <2> QED
    BY <1>1, <2>3, <2>4 DEF GetAccountLeafByPath
<1>12. LatestInv'
  <2> SUFFICES ASSUME NEW q \in Pairs, q \notin stale \cup InFlight,
                      latest[q].path # <<>>, MatchesRow(latest[q])
               PROVE  hash'[latest[q].path] = latest[q].hash
    BY <1>1, <1>6 DEF LatestInv, MatchesRow
  <2>1. hash[latest[q].path] = latest[q].hash
    BY DEF AccountInv, LatestInv
  <2>2. latest[q].path \in Leaf /\ GetParentPath(latest[q].path) = q
    BY DEF AccountInv, PairInv
  <2>3. WritesLeaf => latest[q].path # p
    BY <1>6, <2>2
  <2> QED
    BY <1>4, <2>1, <2>2, <2>3, LeafIsNode
<1>13. InnerRowsFollow'
  <2> SUFFICES ASSUME NEW n \in Inner, n \notin stale \cup InFlight
               PROVE  Follows(n)'
    BY <1>1, <1>6 DEF InnerRowsFollow, Follows
  <2>1. Follows(n)
    BY DEF AccountInv, InnerRowsFollow, Follows
  <2>2. ASSUME NEW b \in Bit
        PROVE  hash'[Append(n, b)] = hash[Append(n, b)]
    <3>1. WritesLeaf => Append(n, b) # p
      BY <1>6, ParentOfChild
    <3> QED
      BY <1>4, <3>1, Children
  <2> QED
    BY <1>1, <1>5, <2>1, <2>2 DEF Follows, Holds, Bit
<1>14. AgainInv'
  <2> SUFFICES ASSUME again, pc # "idle"
               PROVE  AgainInv'
    BY <1>1 DEF AgainInv
  <2>1. hash' = hash
    BY <1>7
  <2> QED
    BY <1>1, <2>1 DEF AccountInv, AgainInv, Follows, Holds, MatchesRow
<1> QED
  BY <1>7, <1>8, <1>9, <1>10, <1>11, <1>12, <1>13, <1>14 DEF AccountInv

LEMMA StoreLeftInv ==
    ASSUME AccountInv, StoreLeft
    PROVE  AccountInv' /\ (again => hash' = hash)
<1>1. /\ pc = "left" /\ pc' = "right" /\ hash' = UpdateSingleAccount(Left)
      /\ UNCHANGED <<i, leaf, computed, siblings, history>>
  BY DEF StoreLeft
<1>2. hash' = hash \/ WritesLeaf
  BY <1>1, SiblingWrite, ComputedWrite DEF Left, WritesLeaf
<1>3. LeafInv'
  <2> SUFFICES ASSUME IsLeft, i = 0, MatchesRow(leaf)
               PROVE  hash'[leaf.path] = leaf.hash
    BY <1>1 DEF LeafInv, IsLeft, MatchesRow
  <2>1. hash' = [hash EXCEPT ![leaf.path] = leaf.hash]
    BY <1>1, ComputedWrite DEF Left
  <2>2. leaf.path \in Node /\ hash = [n \in Node |-> hash[n]]
    BY <1>1, Position DEF AccountInv, Types
  <2> QED
    BY <2>1, <2>2
<1> QED
  BY <1>1, <1>2, <1>3, WriteInv

LEMMA StoreRightInv ==
    ASSUME AccountInv, StoreRight
    PROVE  AccountInv' /\ (again => hash' = hash)
<1>1. /\ pc = "right" /\ pc' = "parent" /\ hash' = UpdateSingleAccount(Right)
      /\ UNCHANGED <<i, leaf, computed, siblings, history>>
  BY DEF StoreRight
<1>2. hash' = hash \/ WritesLeaf
  BY <1>1, SiblingWrite, ComputedWrite DEF Right, WritesLeaf
<1>3. LeafInv'
  <2> SUFFICES ASSUME i = 0, MatchesRow(leaf)
               PROVE  hash'[leaf.path] = leaf.hash
    BY <1>1 DEF LeafInv, MatchesRow
  <2>1. CASE IsLeft
    <3>1. hash' = hash
      BY <1>1, <2>1, SiblingWrite DEF Right
    <3> QED
      BY <1>1, <2>1, <3>1 DEF AccountInv, LeafInv
  <2>2. CASE ~IsLeft
    <3>1. hash' = [hash EXCEPT ![leaf.path] = leaf.hash]
      BY <1>1, <2>2, ComputedWrite DEF Right
    <3>2. leaf.path \in Node /\ hash = [n \in Node |-> hash[n]]
      BY <1>1, Position DEF AccountInv, Types
    <3> QED
      BY <3>1, <3>2
  <2> QED
    BY <2>1, <2>2
<1> QED
  BY <1>1, <1>2, <1>3, WriteInv


-----------------------------------------------------------------------------
(* The parent                                                               *)

\* The new hash of the parent is that of its two children, in their order.
LEMMA ParentHashOf ==
    ASSUME AccountInv, pc = "parent", NEW F,
           F[computed.path] = computed.hash,
           F[GetOtherChild(computed.path)] = hash[GetOtherChild(computed.path)]
    PROVE  LET u == GetParentPath(computed.path) IN
           ParentHash = GetParent(F[Append(u, 0)], F[Append(u, 1)])
<1> DEFINE p == leaf.path
           m == Depth - i
           a == Prefix(p, m)
           o == GetOtherChild(a)
           u == Prefix(p, m - 1)
<1>1. /\ p \in Leaf /\ m \in 1 .. Depth /\ i \in 0 .. Depth - 1
      /\ computed.path = a /\ GetParentPath(computed.path) = u
      /\ siblings[i] = GetAccountLeafByPath(o)
  BY Position
<1>2. siblings[i].hash = hash[o]
  BY <1>1 DEF GetAccountLeafByPath
<1>3. IsLeft <=> p[m] = 0
  BY <1>1, LeafIsNode DEF IsLeft, GetNthBitFromRight
<1>4. CASE p[m] = 0
  <2>1. Append(u, 0) = a /\ Append(u, 1) = o
    BY <1>1, <1>4, ChildrenOnPath
  <2> QED
    BY <1>1, <1>2, <1>3, <1>4, <2>1 DEF ParentHash, Left, Right
<1>5. CASE p[m] # 0
  <2>1. Append(u, 0) = o /\ Append(u, 1) = a
    BY <1>1, <1>5, ChildrenOnPath
  <2> QED
    BY <1>1, <1>2, <1>3, <1>5, <2>1 DEF ParentHash, Left, Right
<1> QED
  BY <1>4, <1>5

LEMMA UpdateParentInv ==
    ASSUME AccountInv, UpdateParentAccountWithHash
    PROVE  AccountInv' /\ (again => hash' = hash)
<1>0. PICK p, m, a, o, u :
          /\ p = leaf.path /\ m = Depth - i
          /\ a = Prefix(p, m) /\ o = GetOtherChild(a) /\ u = Prefix(p, m - 1)
  OBVIOUS
<1> USE <1>0
<1>1. /\ pc = "parent" /\ p \in Leaf /\ p \in Node /\ i \in 0 .. Depth - 1 /\ i \in Nat
      /\ m \in 1 .. Depth /\ m \in 0 .. Depth
      /\ computed.path = a /\ a \in Node /\ GetParentPath(computed.path) = u
      /\ u \in Inner /\ u \in Node
      /\ i = 0 => computed = leaf /\ u \in Pairs
      /\ o \in Node
  BY Position DEF UpdateParentAccountWithHash
<1>2. /\ m - 1 \in 0 .. Depth /\ m - 1 = Depth - (i + 1) /\ i + 1 \in 0 .. Depth
      /\ i + 1 # Depth => i + 1 \in 0 .. Depth - 1
      /\ i + 1 > 0
  BY <1>1, DepthAssumption
<1>3. hash' = [hash EXCEPT ![u] = ParentHash]
  BY <1>1 DEF UpdateParentAccountWithHash, UpdateSingleAccount, MatchesRow
<1>4. /\ computed' = [id |-> RowID(u), path |-> u, hash |-> hash'[u]]
      /\ i' = i + 1 /\ leaf' = leaf /\ siblings' = siblings /\ again' = again
      /\ pc' = (IF i + 1 = Depth THEN "root" ELSE "left")
      /\ latest' = (IF i = 0 THEN [latest EXCEPT ![u] = leaf] ELSE latest)
      /\ stale' = stale \ {u}
  BY <1>1 DEF UpdateParentAccountWithHash
<1>5. /\ hash = [n \in Node |-> hash[n]] /\ latest = [q \in Pairs |-> latest[q]]
  BY DEF AccountInv, Types
<1>6. /\ hash'[u] = ParentHash /\ hash' = [n \in Node |-> hash'[n]]
      /\ \A n \in Node : n # u => hash'[n] = hash[n]
  BY <1>1, <1>3, <1>5
<1>7. /\ latest' = [q \in Pairs |-> latest'[q]]
      /\ \A q \in Pairs : latest'[q] = IF i = 0 /\ q = u THEN leaf ELSE latest[q]
  BY <1>1, <1>4, <1>5
<1>8. a # u /\ o # u /\ o # a /\ Len(a) = m /\ Len(u) = m - 1
  <2>1. Len(a) = m /\ Len(u) = m - 1
    BY <1>1, <1>2, PrefixIsNode
  <2>2. o # a /\ o # u
    BY <1>1, <1>2, OtherChild
  <2> QED
    BY <1>1, <2>1, <2>2
<1>9. pc' \in {"left", "root"} /\ pc' # "idle"
  BY <1>4
<1>10. Types'
  BY <1>1, <1>2, <1>4, <1>6, <1>7, <1>9 DEF AccountInv, Types
<1>11. PairInv'
  <2> SUFFICES ASSUME NEW q \in Pairs
               PROVE  \/ latest'[q].path = <<>>
                      \/ latest'[q].path \in Leaf /\ GetParentPath(latest'[q].path) = q
    BY DEF PairInv
  <2>1. CASE i = 0 /\ q = u
    BY <1>1, <1>7, <2>1
  <2>2. CASE ~(i = 0 /\ q = u)
    BY <1>7, <2>2 DEF AccountInv, PairInv
  <2> QED
    BY <2>1, <2>2
<1>12. PathInv'
  <2>1. computed'.path = u /\ computed'.id = RowID(u) /\ computed'.hash = hash'[u]
    BY <1>4
  <2>2. IF pc' = "root" THEN i' = Depth ELSE i' \in 0 .. Depth - 1
    BY <1>2, <1>4
  <2> QED
    BY <1>2, <1>4, <2>1, <2>2 DEF PathInv
<1>13. SiblingsInv'
  <2> SUFFICES ASSUME NEW k \in 0 .. Depth - 1, k >= i + 1
               PROVE  siblings[k] = GetAccountLeafByPath(GetOtherChild(Prefix(p, Depth - k)))'
    BY <1>4 DEF SiblingsInv
  <2> DEFINE s == GetOtherChild(Prefix(p, Depth - k))
  <2>1. Depth - k \in 1 .. Depth /\ k >= i
    BY <1>1, DepthAssumption
  <2>2. s \in Node /\ s # u
    BY <1>1, <1>2, <2>1, OtherChild
  <2>3. siblings[k] = GetAccountLeafByPath(s)
    BY <1>1, <2>1 DEF AccountInv, SiblingsInv
  <2>4. hash'[s] = hash[s]
    BY <1>6, <2>2
  <2> QED
    BY <1>4, <2>3, <2>4 DEF GetAccountLeafByPath
<1>14. LeafInv'
  BY <1>9 DEF LeafInv
<1>15. LatestInv'
  <2> SUFFICES ASSUME NEW q \in Pairs, q \notin stale' \cup InFlight',
                      latest'[q].path # <<>>, MatchesRow(latest'[q])
               PROVE  hash'[latest'[q].path] = latest'[q].hash
    BY DEF LatestInv, MatchesRow
  <2>1. latest'[q].path \in Leaf
    BY <1>11 DEF PairInv
  <2>2. latest'[q].path \in Node /\ latest'[q].path # u
    BY <1>1, <2>1, LeafIsNode
  <2>3. hash'[latest'[q].path] = hash[latest'[q].path]
    BY <1>6, <2>2
  <2>4. CASE i = 0 /\ q = u
    <3>1. latest'[q] = leaf
      BY <1>7, <2>4
    <3>2. MatchesRow(leaf)
      BY <3>1
    <3>3. hash[p] = leaf.hash
      BY <1>1, <2>4, <3>2 DEF AccountInv, LeafInv
    <3> QED
      BY <2>3, <3>1, <3>3
  <2>5. CASE i # 0 /\ q = u
    <3>1. Len(u) # Depth - 1
      BY <1>1, <1>8, <2>5, DepthAssumption
    <3>2. Len(q) = Depth - 1
      BY DepthAssumption DEF Pairs
    <3> QED
      BY <2>5, <3>1, <3>2
  <2>6. CASE q # u
    <3>1. latest'[q] = latest[q]
      BY <1>7, <2>6
    <3>2. q \notin stale \cup InFlight
      BY <1>1, <1>4, <2>6 DEF InFlight
    <3>3. MatchesRow(latest[q]) /\ latest[q].path # <<>>
      BY <3>1
    <3>4. hash[latest[q].path] = latest[q].hash
      BY <3>2, <3>3 DEF AccountInv, LatestInv
    <3> QED
      BY <2>3, <3>1, <3>4
  <2> QED
    BY <2>4, <2>5, <2>6
<1>16. Follows(u)'
  <2> DEFINE F == [n \in Node |-> Holds(n)']
  <2>1. Append(u, 0) \in Node /\ Append(u, 1) \in Node
    BY <1>1, Children DEF Bit
  <2>2. F[a] = computed.hash
    <3>1. F[a] = Holds(a)' /\ hash'[a] = hash[a]
      BY <1>1, <1>6, <1>8
    <3>2. CASE i = 0
      <4>1. a = p /\ GetParentPath(a) = u /\ computed = leaf /\ u \in Pairs
        BY <1>1, <3>2
      <4>2. latest'[u] = leaf
        BY <1>7, <3>2, <4>1
      <4> QED
        BY <1>1, <3>1, <4>1, <4>2 DEF Holds
    <3>3. CASE i # 0
      <4>1. a \notin Leaf
        BY <1>1, <1>8, <3>3, LeafIsNode, DepthAssumption
      <4>2. hash[a] = computed.hash
        BY <1>1, <3>3 DEF AccountInv, PathInv
      <4> QED
        BY <3>1, <4>1, <4>2 DEF Holds
    <3> QED
      BY <3>2, <3>3
  <2>3. F[o] = hash[o]
    <3>1. F[o] = Holds(o)' /\ hash'[o] = hash[o]
      BY <1>1, <1>6, <1>8
    <3>2. \/ Append(u, 0) = o
          \/ Append(u, 1) = o
      BY <1>1, ChildrenOnPath
    <3>3. GetParentPath(o) = u /\ (o \in Leaf => u \in Pairs)
      BY <1>1, <3>2, ParentOfChild DEF Bit
    <3>4. CASE o \in Leaf
      <4>1. i = 0
        <5>1. Len(u) = Depth - 1
          BY <3>3, <3>4, DepthAssumption DEF Pairs
        <5> QED
          BY <1>1, <1>8, <5>1, DepthAssumption
      <4>2. latest'[u] = leaf /\ a = p
        BY <1>1, <1>7, <4>1
      <4> QED
        BY <1>8, <3>1, <3>3, <4>2 DEF Holds
    <3>5. CASE o \notin Leaf
      BY <3>1, <3>5 DEF Holds
    <3> QED
      BY <3>4, <3>5
  <2>4. F[Append(u, 0)] = Holds(Append(u, 0))' /\ F[Append(u, 1)] = Holds(Append(u, 1))'
    BY <2>1
  <2> HIDE DEF F
  <2>5. ParentHash = GetParent(F[Append(u, 0)], F[Append(u, 1)])
    BY <1>1, <2>2, <2>3, ParentHashOf
  <2> QED
    BY <1>6, <2>4, <2>5 DEF Follows
<1>17. ASSUME NEW n \in Inner, n # u, n \notin InFlight', Follows(n)
       PROVE  Follows(n)'
  <2>1. n \in Node
    BY Children DEF Bit
  <2>2. ASSUME NEW b \in Bit
        PROVE  Holds(Append(n, b))' = Holds(Append(n, b))
    <3>1. Append(n, b) \in Node /\ GetParentPath(Append(n, b)) = n
      BY Children, ParentOfChild
    <3>2. Append(n, b) # u
      <4> SUFFICES ASSUME Append(n, b) = u
                   PROVE  FALSE
        OBVIOUS
      <4>1. m - 1 \in 1 .. Depth
        BY <1>1, <1>2, ChildOnPath
      <4>2. pc' = "left" /\ i' > 0 /\ computed'.path = u
        BY <1>1, <1>4, <4>1, DepthAssumption
      <4> QED
        BY <1>17, <3>1, <4>2 DEF InFlight, Unpropagated
    <3>3. hash'[Append(n, b)] = hash[Append(n, b)]
      BY <1>6, <3>1, <3>2
    <3>4. Append(n, b) \in Leaf => latest'[n] = latest[n]
      BY <1>7, <1>17, ParentOfChild
    <3> QED
      BY <3>1, <3>3, <3>4 DEF Holds
  <2> QED
    BY <1>6, <1>17, <2>1, <2>2 DEF Follows, Bit
<1>18. InnerRowsFollow'
  <2> SUFFICES ASSUME NEW n \in Inner, n \notin stale' \cup InFlight'
               PROVE  Follows(n)'
    BY DEF InnerRowsFollow, Follows
  <2>1. CASE n = u
    BY <1>16, <2>1
  <2>2. CASE n # u
    <3>1. n \notin stale \cup InFlight
      BY <1>1, <1>4, <2>2 DEF InFlight
    <3>2. Follows(n)
      BY <3>1 DEF AccountInv, InnerRowsFollow, Follows
    <3> QED
      BY <1>17, <2>2, <3>2
  <2> QED
    BY <2>1, <2>2

<1>19. ASSUME again
       PROVE  hash' = hash /\ latest' = latest /\ stale' = stale
  <2> DEFINE F == [n \in Node |-> Holds(n)]
  <2>1. /\ stale = {} /\ Follows(u)
        /\ latest[GetParentPath(p)] = leaf
    BY <1>1, <1>19 DEF AccountInv, AgainInv
  <2>2. i = 0 => a = p /\ latest[u] = leaf
    BY <1>1, <2>1
  <2>3. F[a] = computed.hash
    <3>1. F[a] = Holds(a)
      BY <1>1
    <3>2. CASE i = 0
      BY <1>1, <2>2, <3>1, <3>2 DEF Holds
    <3>3. CASE i # 0
      <4>1. a \notin Leaf
        BY <1>1, <1>8, <3>3, LeafIsNode, DepthAssumption
      <4>2. hash[a] = computed.hash
        BY <1>1, <3>3 DEF AccountInv, PathInv
      <4> QED
        BY <3>1, <4>1, <4>2 DEF Holds
    <3> QED
      BY <3>2, <3>3
  <2>4. F[o] = hash[o]
    <3>1. F[o] = Holds(o)
      BY <1>1
    <3>2. Append(u, 0) = o \/ Append(u, 1) = o
      BY <1>1, ChildrenOnPath
    <3>3. GetParentPath(o) = u /\ (o \in Leaf => u \in Pairs)
      BY <1>1, <3>2, ParentOfChild DEF Bit
    <3>4. CASE o \in Leaf
      <4>1. i = 0
        <5>1. Len(u) = Depth - 1
          BY <3>3, <3>4, DepthAssumption DEF Pairs
        <5> QED
          BY <1>1, <1>8, <5>1, DepthAssumption
      <4> QED
        BY <1>8, <2>2, <3>1, <3>3, <4>1 DEF Holds
    <3>5. CASE o \notin Leaf
      BY <3>1, <3>5 DEF Holds
    <3> QED
      BY <3>4, <3>5
  <2>5. F[Append(u, 0)] = Holds(Append(u, 0)) /\ F[Append(u, 1)] = Holds(Append(u, 1))
    BY <1>1, Children DEF Bit
  <2> HIDE DEF F
  <2>6. ParentHash = hash[u]
    <3>1. ParentHash = GetParent(F[Append(u, 0)], F[Append(u, 1)])
      BY <1>1, <2>3, <2>4, ParentHashOf
    <3> QED
      BY <2>1, <2>5, <3>1 DEF Follows
  <2>7. hash' = hash
    BY <1>1, <1>3, <1>5, <2>6
  <2>8. latest' = latest
    BY <1>1, <1>4, <1>5, <2>2
  <2> QED
    BY <1>4, <2>1, <2>7, <2>8
<1>20. AgainInv'
  <2> SUFFICES ASSUME again
               PROVE  AgainInv'
    BY <1>4 DEF AgainInv
  <2>1. hash' = hash /\ latest' = latest /\ stale' = stale
    BY <1>19
  <2> QED
    BY <1>1, <1>4, <2>1 DEF AccountInv, AgainInv, Follows, Holds, MatchesRow
<1> QED
  BY <1>10, <1>11, <1>12, <1>13, <1>14, <1>15, <1>18, <1>19, <1>20 DEF AccountInv

-----------------------------------------------------------------------------
(* The root, and an interruption                                            *)

LEMMA UpdateRootInv ==
    ASSUME AccountInv, UpdateAccountRootNodes
    PROVE  AccountInv' /\ hash' = hash
<1>1. /\ pc = "root" /\ pc' = "idle" /\ i = Depth /\ i > 0 /\ leaf.path \in Leaf
      /\ computed.path = Prefix(leaf.path, Depth - i)
      /\ hash = [n \in Node |-> hash[n]]
  BY DepthAssumption DEF AccountInv, Types, PathInv, UpdateAccountRootNodes
<1>2. hash[computed.path] = computed.hash
  BY <1>1 DEF AccountInv, PathInv
<1>3. computed.path = <<>>
  BY <1>1, PrefixEnds, DepthAssumption
<1>4. hash' = [hash EXCEPT ![<<>>] = computed.hash]
  BY DEF UpdateAccountRootNodes, UpdateSingleAccount, MatchesRow
<1>5. hash' = hash
  BY <1>1, <1>2, <1>3, <1>4
<1>6. /\ i' = i /\ leaf' = leaf /\ computed' = computed /\ siblings' = siblings
      /\ latest' = latest /\ stale' = stale
  BY DEF UpdateAccountRootNodes
<1>7. InFlight = {}
  BY <1>1 DEF InFlight, Unpropagated
<1>8. Types' /\ PairInv'
  BY <1>1, <1>5, <1>6 DEF AccountInv, Types, PairInv
<1>9. LatestInv'
  BY <1>5, <1>6, <1>7 DEF AccountInv, LatestInv, MatchesRow
<1>10. InnerRowsFollow'
  BY <1>5, <1>6, <1>7 DEF AccountInv, InnerRowsFollow, Holds
<1> QED
  BY <1>1, <1>5, <1>8, <1>9, <1>10 DEF AccountInv, PathInv, SiblingsInv, LeafInv, AgainInv

LEMMA AbortInv ==
    ASSUME AccountInv, Abort
    PROVE  AccountInv' /\ hash' = hash
<1>1. /\ stale' = stale \cup InFlight /\ pc' = "idle"
      /\ hash' = hash /\ i' = i /\ leaf' = leaf /\ latest' = latest
  BY DEF Abort
<1>2. Types' /\ PairInv'
  BY <1>1 DEF AccountInv, Types, PairInv
<1>3. LatestInv'
  BY <1>1 DEF AccountInv, LatestInv, MatchesRow
<1>4. InnerRowsFollow'
  BY <1>1 DEF AccountInv, InnerRowsFollow, Holds
<1> QED
  BY <1>1, <1>2, <1>3, <1>4 DEF AccountInv, PathInv, SiblingsInv, LeafInv, AgainInv

LEMMA NextAccountInv ==
    ASSUME AccountInv, [Next]_vars
    PROVE  AccountInv' /\ (again => hash' = hash)
<1>1. CASE \E x \in AccountIDs, key \in Keys : ProcessNewPubkeyAddition(x, key)
  <2>1. PICK x \in AccountIDs, key \in Keys : ProcessNewPubkeyAddition(x, key)
    BY <1>1
  <2>2. AccountInv'
    BY <2>1, ProcessInv
  <2>3. hash' = hash
    BY <2>1 DEF ProcessNewPubkeyAddition
  <2> QED
    BY <2>2, <2>3
<1>2. CASE StoreLeft
  BY <1>2, StoreLeftInv
<1>3. CASE StoreRight
  BY <1>3, StoreRightInv
<1>4. CASE UpdateParentAccountWithHash
  BY <1>4, UpdateParentInv
<1>5. CASE UpdateAccountRootNodes
  BY <1>5, UpdateRootInv
<1>6. CASE Abort
  BY <1>6, AbortInv
<1>7. CASE UNCHANGED vars
  <2>1. /\ hash' = hash /\ pc' = pc /\ i' = i /\ leaf' = leaf /\ computed' = computed
        /\ siblings' = siblings /\ latest' = latest /\ again' = again /\ stale' = stale
    BY <1>7 DEF vars, local, history
  <2>2. Types' /\ PairInv' /\ PathInv' /\ SiblingsInv' /\ LeafInv'
    BY <2>1 DEF AccountInv, Types, PairInv, PathInv, SiblingsInv, LeafInv, IsLeft, MatchesRow,
                GetAccountLeafByPath
  <2>3. InFlight' = InFlight
    BY <2>1 DEF InFlight, Unpropagated, MatchesRow
  <2>4. LatestInv' /\ InnerRowsFollow' /\ AgainInv'
    BY <2>1, <2>3 DEF AccountInv, LatestInv, InnerRowsFollow, AgainInv, Follows, Holds, MatchesRow
  <2> QED
    BY <2>1, <2>2, <2>4 DEF AccountInv
<1> QED
  BY <1>1, <1>2, <1>3, <1>4, <1>5, <1>6, <1>7 DEF Next

LEMMA AccountInvAlways == Spec => []AccountInv
<1>1. AccountInv /\ [Next]_vars => AccountInv'
  BY NextAccountInv
<1> QED
  BY <1>1, InitAccountInv, PTL DEF Spec

\* After any sequence of finished and interrupted registrations, at every depth,
\* an inner row of the accounts is the hash of what its children hold, save the
\* parents an interrupted UpdateAccount did not get to (storeAccountLeaf).
THEOREM InnerRowsFollowTheChildren == Spec => []InnerRowsFollow
<1>1. AccountInv => InnerRowsFollow
  BY DEF AccountInv
<1> QED
  BY <1>1, AccountInvAlways, PTL

\* A log that is delivered again (processNewPubkeyAddition) changes no row while
\* its key is registered the second time.
THEOREM RedeliveryIsIdempotent == Spec => RedeliveryChangesNothing
<1>1. AccountInv /\ [Next]_vars => [again => hash' = hash]_vars
  BY NextAccountInv
<1> QED
  BY <1>1, AccountInvAlways, PTL DEF Spec, RedeliveryChangesNothing


-----------------------------------------------------------------------------
(* Induction                                                                *)

\* Every set of natural numbers has a least element.
LEMMA LeastNumber ==
    ASSUME NEW T \in SUBSET Nat, T # {}
    PROVE  \E x \in T : \A y \in T : x <= y
<1> DEFINE R == OpToRel(<, Nat)
<1>1. \A x, y \in Nat : <<y, x>> \in R <=> y < x
  BY DEF OpToRel
<1>2. IsWellFoundedOn(R, Nat)
  BY NatLessThanWellFounded
<1> HIDE DEF R
<1>3. PICK x \in T : \A y \in T : ~(<<y, x>> \in R)
  BY <1>2, WFMin
<1>4. \A y \in T : ~(y < x)
  BY <1>1, <1>3
<1>5. \A y \in T : x <= y
  BY <1>4
<1> QED
  BY <1>5

\* Induction, for a set of numbers instead of a predicate.
LEMMA Induction ==
    ASSUME NEW S, 0 \in S, \A m \in Nat : m \in S => m + 1 \in S
    PROVE  Nat \subseteq S
<1> DEFINE T == Nat \ S
<1>1. SUFFICES ASSUME T # {}
               PROVE  FALSE
  OBVIOUS
<1>2. PICK x \in T : \A y \in T : x <= y
  BY <1>1, LeastNumber
<1>3. x - 1 \in Nat /\ x - 1 \notin T
  BY <1>2
<1>4. x - 1 + 1 \in S
  BY <1>3
<1> QED
  BY <1>4

-----------------------------------------------------------------------------
(* The Merkle root                                                          *)

\* The recursive definition of the Merkle tree has a solution, so that it is one.
MerkleLevel(leaves, H, k) ==
    [n \in [1 .. Depth - k -> Bit] |->
        IF k = 0 THEN leaves[n]
        ELSE GetParent(H[k - 1][Append(n, 0)], H[k - 1][Append(n, 1)])]

LEMMA MerkleHashesDef ==
    ASSUME NEW leaves
    PROVE  MerkleHashes(leaves)
               = [k \in 0 .. Depth |-> MerkleLevel(leaves, MerkleHashes(leaves), k)]
<1> DEFINE Body(g, k) == MerkleLevel(leaves, g, k)
           Rec(g, m) == g = [k \in 0 .. m |-> Body(g, k)]
           S == {m \in Nat : \E g : Rec(g, m)}
<1>1. ASSUME NEW g, NEW h, NEW k \in Nat, k # 0 => g[k - 1] = h[k - 1]
      PROVE  Body(g, k) = Body(h, k)
  BY <1>1 DEF MerkleLevel
<1> HIDE DEF Body
<1>2. 0 \in S
  <2> DEFINE g == [k \in 0 .. 0 |-> Body(<<>>, k)]
  <2>1. \A k \in 0 .. 0 : Body(<<>>, k) = Body(g, k)
    BY <1>1
  <2>2. g = [k \in 0 .. 0 |-> Body(g, k)]
    BY <2>1
  <2> QED
    BY <2>2
<1>3. ASSUME NEW m \in Nat, m \in S
      PROVE  m + 1 \in S
  <2>1. PICK g : Rec(g, m)
    BY <1>3
  <2> DEFINE h == [k \in 0 .. m + 1 |-> IF k = m + 1 THEN Body(g, m + 1) ELSE g[k]]
  <2>2. \A k \in 0 .. m : h[k] = g[k]
    OBVIOUS
  <2>3. \A k \in 0 .. m : g[k] = Body(g, k)
    BY <2>1
  <2>4. \A k \in 0 .. m + 1 : h[k] = Body(g, k)
    BY <2>3
  <2>5. ASSUME NEW k \in 0 .. m + 1
        PROVE  Body(g, k) = Body(h, k)
    <3>1. k \in Nat /\ (k # 0 => g[k - 1] = h[k - 1])
      BY <2>2
    <3> HIDE DEF h
    <3> QED
      BY <1>1, <3>1
  <2>6. h = [k \in 0 .. m + 1 |-> Body(h, k)]
    BY <2>4, <2>5
  <2> HIDE DEF h
  <2>7. Rec(h, m + 1)
    BY <2>6
  <2> QED
    BY <2>7
<1>4. Depth \in S
  BY <1>2, <1>3, Induction, DepthAssumption
<1>5. PICK g : Rec(g, Depth)
  BY <1>4
<1>6. MerkleHashes(leaves) = CHOOSE h : Rec(h, Depth)
  BY DEF MerkleHashes, Body, MerkleLevel
<1>7. Rec(MerkleHashes(leaves), Depth)
  <2> HIDE DEF Rec
  <2> QED
    BY <1>5, <1>6
<1> QED
  BY <1>7 DEF Body

\* Values that agree with their children, on the leaves given, are the Merkle tree.
LEMMA MatchingIsMerkle ==
    ASSUME NEW V, NEW leaves, \A p \in Leaf : V[p] = leaves[p], \A n \in Inner : Matches(V, n)
    PROVE  V[<<>>] = MerkleHashes(leaves)[Depth][<<>>]
<1> DEFINE H == MerkleHashes(leaves)
           S == {k \in Nat : k <= Depth => \A n \in [1 .. Depth - k -> Bit] : V[n] = H[k][n]}
<1> HIDE DEF H
<1>0. \A k \in 0 .. Depth : H[k] = MerkleLevel(leaves, H, k)
  BY MerkleHashesDef DEF H
<1>1. 0 \in S
  <2>1. H[0] = MerkleLevel(leaves, H, 0) /\ Depth - 0 = Depth
    BY <1>0, DepthAssumption
  <2> QED
    BY <2>1 DEF MerkleLevel, Leaf
<1>2. ASSUME NEW k \in Nat, k \in S, k + 1 <= Depth, NEW n \in [1 .. Depth - (k + 1) -> Bit]
      PROVE  V[n] = H[k + 1][n]
  <2>1. Depth - (k + 1) \in 0 .. Depth - 1 /\ Depth - (k + 1) \in Nat /\ k + 1 \in 0 .. Depth
    BY <1>2, DepthAssumption
  <2>2. n \in Inner /\ Len(n) = Depth - (k + 1)
    BY <2>1 DEF Inner
  <2>3. ASSUME NEW b \in Bit
        PROVE  Append(n, b) \in [1 .. Depth - k -> Bit]
    <3>1. /\ Append(n, b) \in Node
          /\ Len(Append(n, b)) = Depth - (k + 1) + 1
      BY <2>2, Children
    <3>2. Len(Append(n, b)) = Depth - k
      BY <3>1, DepthAssumption
    <3>3. Append(n, b) \in [1 .. Len(Append(n, b)) -> Bit]
      BY <3>1, NodeIsSeq
    <3> QED
      BY <3>2, <3>3
  <2>4. \A b \in Bit : V[Append(n, b)] = H[k][Append(n, b)]
    <3>1. k <= Depth
      BY <1>2, DepthAssumption
    <3>2. \A m \in [1 .. Depth - k -> Bit] : V[m] = H[k][m]
      BY <1>2, <3>1
    <3> QED
      BY <2>3, <3>2
  <2>5. H[k + 1][n] = GetParent(H[k][Append(n, 0)], H[k][Append(n, 1)])
    <3>1. k + 1 # 0 /\ k + 1 - 1 = k
      OBVIOUS
    <3>2. H[k + 1] = MerkleLevel(leaves, H, k + 1)
      BY <1>0, <2>1
    <3> QED
      BY <1>2, <3>1, <3>2 DEF MerkleLevel
  <2>6. Matches(V, n)
    BY <2>2
  <2> QED
    BY <2>4, <2>5, <2>6 DEF Matches, Bit
<1>3. Depth \in S
  <2>1. \A k \in Nat : k \in S => k + 1 \in S
    BY <1>2
  <2> HIDE DEF S
  <2> QED
    BY <1>1, <2>1, Induction, DepthAssumption
<1>4. <<>> \in [1 .. Depth - Depth -> Bit]
  BY DepthAssumption
<1>5. Depth <= Depth
  BY DepthAssumption
<1>6. V[<<>>] = H[Depth][<<>>]
  BY <1>3, <1>4, <1>5
<1> QED
  BY <1>6 DEF H

\* Whenever no registration runs and none was left half done, the root of the
\* accounts is the Merkle root of the keys the tree holds, at every depth and for
\* every history (UpdateAccount, storeAccountLeaf, updateAccountRootNodes).
THEOREM RootHoldsTheLatestKeys == Spec => []RootHoldsLatestKeys
<1>1. AccountInv => RootHoldsLatestKeys
  <2>1. SUFFICES ASSUME AccountInv, pc = "idle", stale = {}
                 PROVE  hash[<<>>] = MerkleHashes([p \in Leaf |-> Holds(p)])[Depth][<<>>]
    BY DEF RootHoldsLatestKeys
  <2> DEFINE V == [n \in Node |-> Holds(n)]
             leaves == [p \in Leaf |-> Holds(p)]
  <2>2. \A p \in Leaf : V[p] = leaves[p]
    BY LeafIsNode
  <2>3. ASSUME NEW n \in Inner
        PROVE  V[n] = hash[n]
    BY Children, LeafIsNode DEF Holds, Bit
  <2>4. ASSUME NEW n \in Inner
        PROVE  Matches(V, n)
    <3>1. n \notin stale \cup InFlight
      BY <2>1 DEF InFlight, Unpropagated
    <3>2. hash[n] = GetParent(Holds(Append(n, 0)), Holds(Append(n, 1)))
      BY <2>1, <3>1 DEF AccountInv, InnerRowsFollow
    <3>3. V[Append(n, 0)] = Holds(Append(n, 0)) /\ V[Append(n, 1)] = Holds(Append(n, 1))
      BY Children DEF Bit
    <3> QED
      BY <2>3, <3>2, <3>3 DEF Matches
  <2>5. <<>> \in Inner
    BY DepthAssumption DEF Inner
  <2>6. V[<<>>] = hash[<<>>]
    BY <2>3, <2>5
  <2> HIDE DEF V, leaves
  <2>7. V[<<>>] = MerkleHashes(leaves)[Depth][<<>>]
    BY <2>2, <2>4, MatchingIsMerkle
  <2> QED
    BY <2>6, <2>7 DEF leaves
<1> QED
  BY <1>1, AccountInvAlways, PTL
===============================================================================
