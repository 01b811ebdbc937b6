--------------------------- MODULE TxApply_proofs ---------------------------
(***************************************************************************)
(* What the application of transactions guarantees for every table, every  *)
(* set of transactions and any number of repeated calls, failing           *)
(* statements and crashes.  That money is conserved is a statement about   *)
(* sums over the table: the first section derives what a sum is when one   *)
(* of its terms changes, by induction on the number of terms.              *)
(***************************************************************************)
EXTENDS TxApply, Sequences, FiniteSetTheorems, WellFoundedInduction, TLAPS

-----------------------------------------------------------------------------
(* Sums                                                                     *)

\* Every set of natural numbers has a least element.
LEMMA LeastNumber ==
    ASSUME NEW T \in SUBSET Nat, T # {}
    PROVE  \E x \in T : \A y \in T : x <= y
<1> DEFINE R == OpToRel(<, Nat)
<1>1. \A x, y \in Nat : <<y, x>> \in R <=> y < x
  BY DEF OpToRel
<1>2. IsWellFoundedOn(R, Nat)
  BY NatLessThanWellFounded
<1> HIDE DEF R
<1>3. PICK x \in T : \A y \in T : ~(<<y, x>> \in R)
  BY <1>2, WFMin
<1>4. \A y \in T : ~(y < x)
  BY <1>1, <1>3
<1>5. \A y \in T : x <= y
  BY <1>4
<1> QED
  BY <1>5

\* Induction, for a set of numbers instead of a predicate.
LEMMA Induction ==
    ASSUME NEW S, 0 \in S, \A m \in Nat : m \in S => m + 1 \in S
    PROVE  Nat \subseteq S
<1> DEFINE T == Nat \ S
<1>1. SUFFICES ASSUME T # {}
               PROVE  FALSE
  OBVIOUS
<1>2. PICK x \in T : \A y \in T : x <= y
  BY <1>1, LeastNumber
<1>3. x - 1 \in Nat /\ x - 1 \notin T
  BY <1>2
<1>4. x - 1 + 1 \in S
  BY <1>3
<1> QED
  BY <1>4

\* The element SumFunction takes next, and what it makes of it.
Pick(s) == CHOOSE x \in s : TRUE

Total(f, g, s) == IF s = {} THEN 0 ELSE f[Pick(s)] + g[s \ {Pick(s)}]

\* Removing the element picked makes a finite set smaller by one.
LEMMA Smaller ==
    ASSUME NEW s, IsFiniteSet(s), s # {}
    PROVE  /\ Pick(s) \in s
           /\ IsFiniteSet(s \ {Pick(s)})
           /\ Cardinality(s) \in Nat
           /\ Cardinality(s \ {Pick(s)}) = Cardinality(s) - 1
<1>1. Pick(s) \in s
  BY DEF Pick
<1> QED
  BY <1>1, FS_RemoveElement, FS_CardinalityType

\* The recursive definition of a sum has a solution.
LEMMA SumDef ==
    ASSUME NEW f, IsFiniteSet(DOMAIN f)
    PROVE  \E g : /\ g = [s \in SUBSET DOMAIN f |-> Total(f, g, s)]
                  /\ SumFunction(f) = g[DOMAIN f]
<1> DEFINE D == DOMAIN f
           Upto(m) == {s \in SUBSET D : Cardinality(s) <= m}
           Rec(g, U) == g = [s \in U |-> Total(f, g, s)]
           S == {m \in Nat : \E g : Rec(g, Upto(m))}
<1>0. \A s \in SUBSET D : IsFiniteSet(s) /\ Cardinality(s) \in Nat
                          /\ Cardinality(s) <= Cardinality(D)
  BY FS_Subset, FS_CardinalityType
<1>1. ASSUME NEW g, NEW h, NEW s, s # {} => g[s \ {Pick(s)}] = h[s \ {Pick(s)}]
      PROVE  Total(f, g, s) = Total(f, h, s)
  BY <1>1 DEF Total
<1>2. 0 \in S
  <2>1. \A s \in Upto(0) : s = {}
    BY <1>0, FS_EmptySet
  <2> DEFINE g == [s \in Upto(0) |-> Total(f, <<>>, s)]
  <2>2. \A s \in Upto(0) : Total(f, <<>>, s) = Total(f, g, s)
    BY <1>1, <2>1
  <2>3. g = [s \in Upto(0) |-> Total(f, g, s)]
    BY <2>2
  <2> HIDE DEF g
  <2>4. Rec(g, Upto(0))
    BY <2>3
  <2> QED
    BY <2>4
<1>3. ASSUME NEW m \in Nat, m \in S
      PROVE  m + 1 \in S
  <2>1. PICK h : Rec(h, Upto(m))
    BY <1>3
  <2> DEFINE g == [s \in Upto(m + 1) |-> Total(f, h, s)]
  <2>2. \A s \in Upto(m) : s \in Upto(m + 1)
    BY <1>0
  <2>3. \A s \in Upto(m) : h[s] = Total(f, h, s)
    BY <2>1
  <2>4. \A s \in Upto(m) : g[s] = h[s]
    BY <2>2, <2>3
  <2>5. ASSUME NEW s \in Upto(m + 1), s # {}
        PROVE  s \ {Pick(s)} \in Upto(m)
    <3>1. IsFiniteSet(s) /\ s \in SUBSET D /\ Cardinality(s) <= m + 1
      BY <1>0
    <3>2. Cardinality(s) \in Nat /\ Cardinality(s \ {Pick(s)}) = Cardinality(s) - 1
      BY <2>5, <3>1, Smaller
    <3>3. Cardinality(s \ {Pick(s)}) <= m
      BY <3>1, <3>2
    <3> QED
      BY <3>1, <3>3
  <2> HIDE DEF Upto
  <2>6. ASSUME NEW s \in Upto(m + 1)
        PROVE  Total(f, h, s) = Total(f, g, s)
    <3>1. s # {} => h[s \ {Pick(s)}] = g[s \ {Pick(s)}]
      BY <2>4, <2>5
    <3> HIDE DEF g
    <3> QED
      BY <1>1, <3>1
  <2>7. g = [s \in Upto(m + 1) |-> Total(f, g, s)]
    BY <2>6
  <2> HIDE DEF g
  <2>8. Rec(g, Upto(m + 1))
    BY <2>7
  <2> QED
    BY <2>8
<1>4. Cardinality(D) \in S
  <2>1. Cardinality(D) \in Nat
    BY FS_CardinalityType
  <2> HIDE DEF S
  <2>2. Nat \subseteq S
    BY <1>2, <1>3, Induction
  <2> QED
    BY <2>1, <2>2
<1>5. Upto(Cardinality(D)) = SUBSET D
  BY <1>0
<1>6. PICK h : Rec(h, SUBSET D)
  <2> HIDE DEF Upto, Rec
  <2> QED
    BY <1>4, <1>5
<1> DEFINE C == CHOOSE g : Rec(g, SUBSET D)
<1>7. SumFunction(f) = C[D]
  BY DEF SumFunction, SumFunctionOnSet, FoldFunctionOnSet, MapThenFoldSet, Total, Pick
<1> HIDE DEF Rec
<1>8. Rec(C, SUBSET D)
  BY <1>6
<1> HIDE DEF C
<1>9. C = [s \in SUBSET D |-> Total(f, C, s)]
  BY <1>8 DEF Rec
<1> QED
  BY <1>7, <1>9

\* When one term changes, so does the sum, by as much.
LEMMA SumChange ==
    ASSUME NEW D, IsFiniteSet(D), NEW f \in [D -> Int], NEW g \in [D -> Int], NEW k \in D,
           \A x \in D : x # k => f[x] = g[x]
    PROVE  /\ SumFunction(f) \in Int /\ SumFunction(g) \in Int
           /\ SumFunction(g) = SumFunction(f) + g[k] - f[k]
<1>1. PICK F : /\ F = [s \in SUBSET D |-> Total(f, F, s)]
               /\ SumFunction(f) = F[D]
  <2>1. DOMAIN f = D
    OBVIOUS
  <2> QED
    BY <2>1, SumDef
<1>2. PICK G : /\ G = [s \in SUBSET D |-> Total(g, G, s)]
               /\ SumFunction(g) = G[D]
  <2>1. DOMAIN g = D
    OBVIOUS
  <2> QED
    BY <2>1, SumDef
<1>3. \A s \in SUBSET D : F[s] = Total(f, F, s) /\ G[s] = Total(g, G, s)
  BY <1>1, <1>2
<1> DEFINE P(s) == /\ F[s] \in Int /\ G[s] \in Int
                   /\ k \in s => G[s] = F[s] + g[k] - f[k]
                   /\ k \notin s => G[s] = F[s]
           S == {m \in Nat : \A s \in SUBSET D : Cardinality(s) = m => P(s)}
<1>4. \A s \in SUBSET D : IsFiniteSet(s) /\ Cardinality(s) \in Nat
  BY FS_Subset, FS_CardinalityType
<1>5. 0 \in S
  <2>1. ASSUME NEW s \in SUBSET D, Cardinality(s) = 0
        PROVE  P(s)
    <3>1. s = {}
      BY <1>4, <2>1, FS_EmptySet
    <3>2. F[s] = 0 /\ G[s] = 0
      BY <1>3, <3>1 DEF Total
    <3> QED
      BY <3>1, <3>2
  <2> QED
    BY <2>1
<1>6. ASSUME NEW m \in Nat, m \in S, NEW s \in SUBSET D, Cardinality(s) = m + 1
      PROVE  P(s)
  <2> DEFINE x == Pick(s)
             r == s \ {x}
  <2>1. s # {}
    <3>1. Cardinality({}) = 0
      BY FS_EmptySet
    <3>2. m \in Nat /\ Cardinality(s) = m + 1
      BY <1>6
    <3> QED
      BY ONLY <3>1, <3>2
  <2>2. x \in s /\ Cardinality(r) = m + 1 - 1
    BY <1>4, <1>6, <2>1, Smaller
  <2>3. P(r)
    BY <1>6, <2>2
  <2>4. F[s] = f[x] + F[r] /\ G[s] = g[x] + G[r]
    BY <1>3, <2>1 DEF Total
  <2>5. x \in D /\ f[x] \in Int /\ g[x] \in Int /\ f[k] \in Int /\ g[k] \in Int
    BY <2>2
  <2>6. (k \in s <=> k = x \/ k \in r) /\ x \notin r
    BY <2>2
  <2> HIDE DEF x, r
  <2>7. CASE k = x
    <3>1. F[r] \in Int /\ G[r] = F[r]
      BY <2>3, <2>6, <2>7
    <3> QED
      BY <2>4, <2>5, <2>6, <2>7, <3>1
  <2>8. CASE k # x
    <3>1. f[x] = g[x]
      BY <2>5, <2>8
    <3>2. k \in s <=> k \in r
      BY <2>6, <2>8
    <3> QED
      BY <2>3, <2>4, <2>5, <3>1, <3>2
  <2> QED
    BY <2>7, <2>8
<1>7. Cardinality(D) \in S
  <2>1. \A m \in Nat : m \in S => m + 1 \in S
    BY <1>6
  <2>2. Cardinality(D) \in Nat
    BY FS_CardinalityType
  <2> HIDE DEF S
  <2>3. Nat \subseteq S
    BY <1>5, <2>1, Induction
  <2> QED
    BY <2>2, <2>3
<1>8. P(D)
  BY <1>7
<1> QED
  BY <1>1, <1>2, <1>8

\* A sum of zeros is zero.
LEMMA SumZero ==
    ASSUME NEW D, IsFiniteSet(D), NEW f \in [D -> {0}]
    PROVE  SumFunction(f) = 0
<1>1. PICK F : /\ F = [s \in SUBSET D |-> Total(f, F, s)]
               /\ SumFunction(f) = F[D]
  <2>1. DOMAIN f = D
    OBVIOUS
  <2> QED
    BY <2>1, SumDef
<1>2. \A s \in SUBSET D : F[s] = Total(f, F, s)
  BY <1>1
<1> DEFINE S == {m \in Nat : \A s \in SUBSET D : Cardinality(s) = m => F[s] = 0}
<1>3. \A s \in SUBSET D : IsFiniteSet(s) /\ Cardinality(s) \in Nat
  BY FS_Subset, FS_CardinalityType
<1>4. 0 \in S
  <2>1. \A s \in SUBSET D : Cardinality(s) = 0 => s = {}
    BY <1>3, FS_EmptySet
  <2> QED
    BY <1>2, <2>1 DEF Total
<1>5. ASSUME NEW m \in Nat, m \in S, NEW s \in SUBSET D, Cardinality(s) = m + 1
      PROVE  F[s] = 0
  <2> DEFINE x == Pick(s)
             r == s \ {x}
  <2>1. s # {}
    BY <1>5, FS_EmptySet
  <2>2. x \in s /\ Cardinality(r) = m + 1 - 1
    BY <1>3, <1>5, <2>1, Smaller
  <2>3. F[r] = 0
    BY <1>5, <2>2
  <2>4. F[s] = f[x] + F[r]
    BY <1>2, <2>1 DEF Total
  <2>5. f[x] = 0
    BY <2>2
  <2> QED
    BY <2>3, <2>4, <2>5
<1>6. Cardinality(D) \in S
  <2>1. \A m \in Nat : m \in S => m + 1 \in S
    BY <1>5
  <2>2. Cardinality(D) \in Nat
    BY FS_CardinalityType
  <2> HIDE DEF S
  <2>3. Nat \subseteq S
    BY <1>4, <2>1, Induction
  <2> QED
    BY <2>2, <2>3
<1> QED
  BY <1>1, <1>6

\* A sum of integers is an integer.
LEMMA SumIsInt ==
    ASSUME NEW D, IsFiniteSet(D), NEW f \in [D -> Int]
    PROVE  SumFunction(f) \in Int
<1>1. CASE D = {}
  <2>1. f \in [D -> {0}]
    BY <1>1
  <2> QED
    BY <2>1, SumZero
<1>2. CASE D # {}
  <2>1. PICK k \in D : TRUE
    BY <1>2
  <2> QED
    BY <2>1, SumChange
<1> QED
  BY <1>1, <1>2

-----------------------------------------------------------------------------
(* States                                                                   *)

\* What a leaf may hold.
IsState(d) == d = <<>> \/ d \in Nat \X Nat

tx == Details[cur]

LEMMA PairIsNotEmpty ==
    ASSUME NEW d \in Nat \X Nat
    PROVE  d # <<>>
<1>1. PICK a \in Nat, b \in Nat : d = <<a, b>>
  OBVIOUS
<1>2. Len(<<a, b>>) = 2 /\ Len(<<>>) = 0
  OBVIOUS
<1> QED
  BY <1>1, <1>2

-----------------------------------------------------------------------------
(* What ApplyTx returns                                                     *)

\* The new sender and receiver of an application, relative to the old ones.
LEMMA ApplyByTypeResult ==
    ASSUME NEW t \in Txs, KnownType(Details[t]),
           NEW sender \in Nat \X Nat, NEW receiver, IsState(receiver),
           ~Reverts(sender, receiver, Details[t]),
           Details[t].type = "create2transfer" => receiver = <<>>,
           NEW u, u = ApplyByType(sender, receiver, Details[t])
    PROVE  /\ u.ok \in BOOLEAN
           /\ u.sender \in Nat \X Nat /\ IsState(u.receiver)
           /\ u.ok => /\ sender[2] = Details[t].nonce
                      /\ u.sender[2] = sender[2] + 1
                      /\ \/ u.receiver # <<>>
                         \/ Details[t].type = "massmigration" /\ u.receiver = <<>>
                      /\ u.sender[1] = sender[1] - Cost(Details[t])
                      /\ IF Details[t].type = "massmigration" THEN u.receiver = <<>>
                         ELSE u.receiver[1] = Balance(receiver) + Details[t].amount
           /\ ~u.ok => u.sender = sender /\ u.receiver = receiver
           /\ receiver # <<>> /\ u.receiver # <<>> => u.receiver[2] = receiver[2]
<1>0. /\ Details[t].amount \in Nat /\ Details[t].nonce \in Nat /\ Cost(Details[t]) \in Nat
      /\ sender[1] \in Nat /\ sender[2] \in Nat
  BY TxApplyAssumption DEF Cost
<1>1. CASE Details[t].type = "transfer"
  <2>1. receiver \in Nat \X Nat /\ receiver[1] \in Nat /\ receiver[2] \in Nat
    BY <1>1 DEF IsState, Reverts
  <2>2. u = applyTransferTx(sender, receiver, Details[t])
    BY <1>1 DEF ApplyByType
  <2>3. CASE Valid(sender, Details[t])
    <3>1. u = [sender |-> <<sender[1] - Cost(Details[t]), sender[2] + 1>>,
               receiver |-> <<receiver[1] + Details[t].amount, receiver[2]>>, ok |-> TRUE]
      BY <2>2, <2>3 DEF applyTransferTx, ValidateAndApplyTransfer, Debit
    <3> QED
      BY <1>0, <2>1, <2>3, <3>1, PairIsNotEmpty, <1>1, SMTT(30) DEF Valid, IsState, Balance
  <2>4. CASE ~Valid(sender, Details[t])
    <3>1. u = [sender |-> sender, receiver |-> receiver, ok |-> FALSE]
      BY <2>2, <2>4 DEF applyTransferTx, ValidateAndApplyTransfer, Unchanged
    <3> QED
      BY <2>1, <3>1 DEF IsState
  <2> QED
    BY <2>3, <2>4
<1>2. CASE Details[t].type = "create2transfer"
  <2>2. u = applyCreate2TransferTx(sender, receiver, Details[t])
    BY <1>2 DEF ApplyByType
  <2>3. CASE Valid(sender, Details[t])
    <3>1. u = [sender |-> <<sender[1] - Cost(Details[t]), sender[2] + 1>>,
               receiver |-> <<Details[t].amount, 0>>, ok |-> TRUE]
      BY <2>2, <2>3 DEF applyCreate2TransferTx, ValidateAndApplyCreate2Transfer, Debit
    <3> QED
      BY <1>0, <1>2, <2>3, <3>1 DEF Valid, IsState, Balance
  <2>4. CASE ~Valid(sender, Details[t])
    <3>1. u = [sender |-> sender, receiver |-> receiver, ok |-> FALSE]
      BY <2>2, <2>4 DEF applyCreate2TransferTx, ValidateAndApplyCreate2Transfer, Unchanged
    <3> QED
      BY <1>2, <3>1 DEF IsState
  <2> QED
    BY <2>3, <2>4
<1>3. CASE Details[t].type = "massmigration"
  <2>2. u = applyMassMigrationTx(sender, receiver, Details[t])
    BY <1>3 DEF ApplyByType
  <2>3. CASE Valid(sender, Details[t])
    <3>1. u = [sender |-> <<sender[1] - Cost(Details[t]), sender[2] + 1>>,
               receiver |-> <<>>, ok |-> TRUE]
      BY <2>2, <2>3 DEF applyMassMigrationTx, ValidateAndApplyMassMigration, Debit
    <3> QED
      BY <1>0, <1>3, <2>3, <3>1 DEF Valid, IsState
  <2>4. CASE ~Valid(sender, Details[t])
    <3>1. u = [sender |-> sender, receiver |-> receiver, ok |-> FALSE]
      BY <2>2, <2>4 DEF applyMassMigrationTx, ValidateAndApplyMassMigration, Unchanged
    <3> QED
      BY <3>1 DEF IsState
  <2> QED
    BY <2>3, <2>4
<1> QED
  BY <1>1, <1>2, <1>3 DEF KnownType

-----------------------------------------------------------------------------
(* The open transaction                                                     *)

AfterFrom == [rows EXCEPT ![tx.from] = UpdateState(@, updated.sender)]

AfterBoth == [AfterFrom EXCEPT ![tx.to] = UpdateState(@, updated.receiver)]

\* The states the caller read are still those of the table, since nobody else
\* writes it; the new states are those ApplyTx computed from them; and what the
\* open transaction sees follows from the table and the new states.
CallInv ==
    /\ pc # "idle" =>
          /\ read = [sender |-> GetStateByIndex(tx.from), receiver |-> GetStateByIndex(tx.to)]
          /\ tx.type = "create2transfer" => read.receiver = <<>>
    /\ pc \in {"from", "to", "status", "commit"} =>
          /\ KnownType(tx) /\ ~Reverts(read.sender, read.receiver, tx)
          /\ updated = ApplyByType(read.sender, read.receiver, tx)
    /\ pc = "to" => open = AfterFrom
    /\ pc \in {"status", "commit"} => tx.to \in Index /\ open = AfterBoth

RowsInv ==
    /\ rows = [k \in Index |-> rows[k]]
    /\ \A k \in Index : IsState(rows[k].data)

TableInv == RowsInv /\ CallInv /\ cur \in Txs
            /\ pc \in {"idle", "call", "from", "to", "status", "commit"}

LEMMA InitTableInv == Init => TableInv
<1> SUFFICES ASSUME Init PROVE TableInv
  OBVIOUS
<1>1. cur \in Txs
  BY TxApplyAssumption DEF Init
<1>2. RowsInv
  BY TxApplyAssumption DEF Init, RowsInv, IsState
<1> QED
  BY <1>1, <1>2 DEF Init, TableInv, CallInv

\* What the table holds for the sender and the receiver of a call under way.
LEMMA CallFacts ==
    ASSUME TableInv, pc \in {"from", "to", "status", "commit"}
    PROVE  /\ tx.from \in Index /\ read.sender = rows[tx.from].data
           /\ read.sender \in Nat \X Nat
           /\ IsState(read.receiver)
           /\ tx.to \in Index => read.receiver = rows[tx.to].data
           /\ updated.ok \in BOOLEAN
           /\ updated.sender \in Nat \X Nat /\ IsState(updated.receiver)
           /\ updated.ok => /\ read.sender[2] = tx.nonce
                            /\ updated.sender[2] = read.sender[2] + 1
                            /\ \/ updated.receiver # <<>>
                               \/ tx.type = "massmigration" /\ updated.receiver = <<>>
                            /\ updated.sender[1] = read.sender[1] - Cost(tx)
                            /\ IF tx.type = "massmigration" THEN updated.receiver = <<>>
                               ELSE updated.receiver[1] = Balance(read.receiver) + tx.amount
           /\ ~updated.ok => updated.sender = read.sender /\ updated.receiver = read.receiver
           /\ read.receiver # <<>> /\ updated.receiver # <<>>
                 => updated.receiver[2] = read.receiver[2]
<1>1. /\ read.sender = GetStateByIndex(tx.from) /\ read.receiver = GetStateByIndex(tx.to)
      /\ KnownType(tx) /\ ~Reverts(read.sender, read.receiver, tx)
      /\ updated = ApplyByType(read.sender, read.receiver, tx)
      /\ tx.type = "create2transfer" => read.receiver = <<>>
  BY DEF TableInv, CallInv
<1>2. read.sender # <<>>
  BY <1>1 DEF Reverts
<1>3. tx.from \in Index /\ read.sender = rows[tx.from].data /\ read.sender \in Nat \X Nat
  BY <1>1, <1>2 DEF GetStateByIndex, TableInv, RowsInv, IsState
<1>4. IsState(read.receiver) /\ (tx.to \in Index => read.receiver = rows[tx.to].data)
  BY <1>1 DEF GetStateByIndex, TableInv, RowsInv, IsState
<1>5. cur \in Txs /\ tx = Details[cur]
  BY DEF TableInv, tx
<1>6. PICK s, r, u, d : s = read.sender /\ r = read.receiver /\ u = updated /\ d = Details[cur]
  OBVIOUS
<1>7. /\ KnownType(d) /\ s \in Nat \X Nat /\ IsState(r) /\ ~Reverts(s, r, d)
      /\ d.type = "create2transfer" => r = <<>>
      /\ u = ApplyByType(s, r, d)
  BY ONLY <1>1, <1>3, <1>4, <1>5, <1>6
<1>8. /\ u.ok \in BOOLEAN
      /\ u.sender \in Nat \X Nat /\ IsState(u.receiver)
      /\ u.ok => /\ s[2] = d.nonce /\ u.sender[2] = s[2] + 1
                 /\ \/ u.receiver # <<>>
                    \/ d.type = "massmigration" /\ u.receiver = <<>>
                 /\ u.sender[1] = s[1] - Cost(d)
                 /\ IF d.type = "massmigration" THEN u.receiver = <<>>
                    ELSE u.receiver[1] = Balance(r) + d.amount
      /\ ~u.ok => u.sender = s /\ u.receiver = r
      /\ r # <<>> /\ u.receiver # <<>> => u.receiver[2] = r[2]
  BY <1>5, <1>6, <1>7, ApplyByTypeResult
<1> QED
  BY ONLY <1>3, <1>4, <1>5, <1>6, <1>8

\* A state written never makes a leaf empty and never takes its nonce back,
\* and the leaf of a sender that paid somebody else has the next nonce.
LEMMA AfterBothRows ==
    ASSUME TableInv, pc = "commit"
    PROVE  /\ AfterBoth = [k \in Index |-> AfterBoth[k]]
           /\ \A k \in Index : IsState(AfterBoth[k].data)
           /\ \A k \in Index : rows[k].data # <<>> =>
                 AfterBoth[k].data # <<>> /\ rows[k].data[2] <= AfterBoth[k].data[2]
           /\ tx.from # tx.to => AfterBoth[tx.from].data = updated.sender
           /\ \A k \in Index : k \notin {tx.from, tx.to} => AfterBoth[k] = rows[k]
           /\ tx.from # tx.to => AfterBoth[tx.from].hash = <<updated.sender>>
           /\ AfterBoth[tx.to].hash = <<updated.receiver>>
           /\ AfterBoth[tx.to].data = IF updated.receiver # <<>> THEN updated.receiver
                                      ELSE IF tx.from = tx.to THEN updated.sender
                                      ELSE rows[tx.to].data
<1> DEFINE sender == [data |-> updated.sender, hash |-> <<updated.sender>>]
<1>1. /\ rows = [k \in Index |-> rows[k]] /\ tx.to \in Index
      /\ \A k \in Index : IsState(rows[k].data)
  BY DEF TableInv, RowsInv, CallInv
<1>2. tx.from \in Index /\ updated.sender \in Nat \X Nat /\ updated.sender # <<>>
  <2>1. tx.from \in Index /\ updated.sender \in Nat \X Nat
    BY CallFacts
  <2> QED
    BY <2>1, PairIsNotEmpty
<1>3. UpdateState(rows[tx.from], updated.sender) = sender
  BY <1>2 DEF UpdateState
<1>4. AfterFrom = [k \in Index |-> IF k = tx.from THEN sender ELSE rows[k]]
  BY <1>1, <1>2, <1>3 DEF AfterFrom
<1>5. AfterBoth = [k \in Index |-> IF k = tx.to
                                   THEN UpdateState(AfterFrom[tx.to], updated.receiver)
                                   ELSE AfterFrom[k]]
  BY <1>1, <1>4 DEF AfterBoth
<1>6. /\ UpdateState(AfterFrom[tx.to], updated.receiver).hash = <<updated.receiver>>
      /\ UpdateState(AfterFrom[tx.to], updated.receiver).data =
             IF updated.receiver # <<>> THEN updated.receiver
             ELSE IF tx.from = tx.to THEN updated.sender ELSE rows[tx.to].data
  BY <1>1, <1>4 DEF UpdateState
<1>7. /\ \A k \in Index : k \notin {tx.from, tx.to} => AfterBoth[k] = rows[k]
      /\ tx.from # tx.to => AfterBoth[tx.from] = sender
      /\ AfterBoth[tx.to].hash = <<updated.receiver>>
      /\ AfterBoth[tx.to].data = IF updated.receiver # <<>> THEN updated.receiver
                                 ELSE IF tx.from = tx.to THEN updated.sender
                                 ELSE rows[tx.to].data
  BY <1>1, <1>2, <1>4, <1>5, <1>6
<1>8. \A k \in Index : IsState(AfterBoth[k].data)
  BY <1>1, <1>2, <1>7, CallFacts DEF IsState
<1>9. ASSUME NEW k \in Index, rows[k].data # <<>>
      PROVE  AfterBoth[k].data # <<>> /\ rows[k].data[2] <= AfterBoth[k].data[2]
  <2>1. rows[k].data \in Nat \X Nat /\ rows[k].data[2] \in Nat
    BY <1>1, <1>9 DEF IsState
  <2>2. updated.sender[2] \in Nat /\ read.sender[2] \in Nat
    BY CallFacts
  <2>3. read.sender[2] <= updated.sender[2]
    BY <2>2, CallFacts
  <2>4. CASE k = tx.to
    <3>1. read.receiver = rows[k].data
      BY <1>1, <2>4, CallFacts
    <3>2. CASE updated.receiver # <<>>
      <4>1. AfterBoth[k].data = updated.receiver
        BY <1>7, <2>4, <3>2
      <4>2. updated.receiver[2] = read.receiver[2]
        BY <1>9, <3>1, <3>2, CallFacts
      <4> QED
        BY <2>1, <3>1, <3>2, <4>1, <4>2
    <3>3. CASE updated.receiver = <<>> /\ tx.from = tx.to
      <4>1. AfterBoth[k].data = updated.sender
        BY <1>7, <2>4, <3>3
      <4>2. read.sender = rows[k].data
        BY <2>4, <3>3, CallFacts
      <4> QED
        BY <1>2, <2>3, <4>1, <4>2
    <3>4. CASE updated.receiver = <<>> /\ tx.from # tx.to
      <4>1. AfterBoth[k].data = rows[k].data
        BY <1>7, <2>4, <3>4
      <4> QED
        BY <1>9, <2>1, <4>1
    <3> QED
      BY <3>2, <3>3, <3>4
  <2>5. CASE k = tx.from /\ k # tx.to
    BY <1>2, <1>7, <2>2, <2>3, <2>5, CallFacts
  <2>6. CASE k \notin {tx.from, tx.to}
    BY <1>7, <1>9, <2>1, <2>6
  <2> QED
    BY <2>4, <2>5, <2>6
<1> QED
  BY <1>5, <1>7, <1>8, <1>9

\* A COMMIT makes the table what the open transaction saw, or leaves it.
LEMMA CommitRows ==
    ASSUME TableInv, Commit
    PROVE  rows' \in {rows, AfterBoth}
BY DEF Commit, Committed, TableInv, CallInv

LEMMA NextTableInv == TableInv /\ [Next]_vars => TableInv'
<1> SUFFICES ASSUME TableInv, [Next]_vars PROVE TableInv'
  OBVIOUS
<1> USE DEF TableInv
<1>1. ASSUME NEW t \in Txs, ReadStates(t) PROVE TableInv'
  <2>1. RowsInv' /\ cur' \in Txs /\ pc' = "call"
    BY <1>1 DEF ReadStates, RowsInv, IsState
  <2>2. CallInv'
    BY <1>1 DEF ReadStates, CallInv, tx, GetStateByIndex
  <2> QED
    BY <2>1, <2>2
<1>2. CASE ApplyTx
  BY <1>2 DEF ApplyTx, RowsInv, IsState, CallInv, tx, GetStateByIndex
<1>3. CASE ApplyTxFails \/ Rollback \/ Crash
  BY <1>3 DEF ApplyTxFails, Rollback, Crash, RowsInv, IsState, CallInv
<1>4. CASE UpdateFrom
  BY <1>4 DEF UpdateFrom, RowsInv, IsState, CallInv, AfterFrom, tx, GetStateByIndex
<1>5. CASE UpdateTo
  BY <1>5 DEF UpdateTo, RowsInv, IsState, CallInv, AfterFrom, AfterBoth, tx, GetStateByIndex
<1>6. CASE UpdateStatus
  BY <1>6 DEF UpdateStatus, RowsInv, IsState, CallInv, AfterFrom, AfterBoth, tx, GetStateByIndex
<1>7. CASE Commit
  <2>1. pc' = "idle" /\ cur' = cur /\ rows' \in {rows, AfterBoth} /\ pc = "commit"
    BY <1>7, CommitRows DEF Commit
  <2>2. RowsInv'
    BY <2>1, AfterBothRows DEF RowsInv
  <2> QED
    BY <2>1, <2>2 DEF CallInv
<1>8. CASE UNCHANGED vars
  BY <1>8 DEF vars, caller, RowsInv, IsState, CallInv, AfterFrom, AfterBoth, tx, GetStateByIndex
<1> QED
  BY <1>1, <1>2, <1>3, <1>4, <1>5, <1>6, <1>7, <1>8 DEF Next

\* Only a COMMIT changes the table and the counts of applications.
LEMMA OnlyCommitWrites ==
    ASSUME [Next]_vars, ~Commit
    PROVE  UNCHANGED <<rows, history>>
BY DEF Next, vars, caller, ReadStates, ApplyTx, ApplyTxFails, Rollback, Crash, UpdateFrom,
       UpdateTo, UpdateStatus

-----------------------------------------------------------------------------
(* At most once                                                             *)

\* A transaction that was applied has used its nonce up.
NonceInv ==
    /\ applied \in [Txs -> Nat]
    /\ \A t \in Txs : applied[t] > 0 /\ ~ToSelf(t) =>
          /\ applied[t] = 1
          /\ Details[t].from \in Index
          /\ rows[Details[t].from].data # <<>>
          /\ Details[t].nonce < rows[Details[t].from].data[2]

LEMMA CommitNonceInv ==
    ASSUME TableInv, NonceInv, Commit
    PROVE  NonceInv'
<1>1. CASE UNCHANGED <<rows, history>>
  BY <1>1 DEF NonceInv, history
<1>2. CASE Committed
  <2>1. /\ pc = "commit" /\ rows' = AfterBoth /\ cur \in Txs
        /\ applied' = IF updated.ok THEN Inc(applied, cur) ELSE applied
    BY <1>2 DEF Commit, Committed, TableInv, CallInv
  <2>2. applied' \in [Txs -> Nat]
    BY <2>1 DEF NonceInv, Inc
  <2>3. \A t \in Txs : Details[t].nonce \in Nat
    BY TxApplyAssumption
  <2>4. \A k \in Index : rows[k].data # <<>> => rows[k].data[2] \in Nat
    BY DEF TableInv, RowsInv, IsState
  <2>5. \A k \in Index : AfterBoth[k].data # <<>> => AfterBoth[k].data[2] \in Nat
    BY <2>1, AfterBothRows DEF IsState
  <2>6. ASSUME NEW t \in Txs, applied[t] > 0, ~ToSelf(t)
        PROVE  /\ Details[t].from \in Index
               /\ AfterBoth[Details[t].from].data # <<>>
               /\ Details[t].nonce < AfterBoth[Details[t].from].data[2]
    BY <2>1, <2>3, <2>4, <2>5, <2>6, AfterBothRows DEF NonceInv
  <2>7. ASSUME updated.ok, ~ToSelf(cur)
        PROVE  /\ applied[cur] = 0
               /\ tx.from \in Index /\ AfterBoth[tx.from].data # <<>>
               /\ tx.nonce < AfterBoth[tx.from].data[2]
    <3>1. /\ tx.from \in Index /\ rows[tx.from].data = read.sender
          /\ read.sender[2] = tx.nonce /\ updated.sender[2] = tx.nonce + 1
          /\ updated.sender \in Nat \X Nat
      BY <2>1, <2>7, CallFacts
    <3>2. tx.nonce \in Nat /\ tx.from # tx.to
      BY <2>1, <2>3, <2>7 DEF tx, ToSelf
    <3>3. ~(applied[cur] > 0)
      BY <2>1, <2>7, <3>1, <3>2 DEF NonceInv, tx
    <3>4. applied[cur] = 0
      BY <2>1, <3>3 DEF NonceInv
    <3>5. AfterBoth[tx.from].data = updated.sender
      BY <2>1, <3>2, AfterBothRows
    <3> QED
      BY <3>1, <3>2, <3>4, <3>5, PairIsNotEmpty
  <2>8. ASSUME NEW t \in Txs, applied'[t] > 0, ~ToSelf(t)
        PROVE  /\ applied'[t] = 1
               /\ Details[t].from \in Index
               /\ AfterBoth[Details[t].from].data # <<>>
               /\ Details[t].nonce < AfterBoth[Details[t].from].data[2]
    <3>1. CASE updated.ok /\ t = cur
      BY <2>1, <2>7, <2>8, <3>1 DEF NonceInv, Inc, tx
    <3>2. CASE ~(updated.ok /\ t = cur)
      <4>1. applied'[t] = applied[t]
        BY <2>1, <3>2 DEF NonceInv, Inc
      <4> QED
        BY <2>6, <2>8, <4>1 DEF NonceInv
    <3> QED
      BY <3>1, <3>2
  <2> QED
    BY <2>1, <2>2, <2>8 DEF NonceInv
<1> QED
  BY <1>1, <1>2 DEF Commit

LEMMA NextNonceInv == TableInv /\ NonceInv /\ [Next]_vars => NonceInv'
<1> SUFFICES ASSUME TableInv, NonceInv, [Next]_vars PROVE NonceInv'
  OBVIOUS
<1>1. CASE Commit
  BY <1>1, CommitNonceInv
<1>2. CASE ~Commit
  BY <1>2, OnlyCommitWrites DEF NonceInv, history
<1> QED
  BY <1>1, <1>2

\* However often the caller takes a transaction, after whatever errors, lost
\* COMMITs and crashes, its effect is written once: the nonce the contract
\* checks is committed with the balance.
THEOREM TransactionsApplyOnce == Spec => []AppliedAtMostOnce
<1>1. Init => TableInv /\ NonceInv
  BY InitTableInv DEF Init, NonceInv
<1>2. TableInv /\ NonceInv /\ [Next]_vars => (TableInv /\ NonceInv)'
  BY NextTableInv, NextNonceInv
<1>3. NonceInv => AppliedAtMostOnce
  <2> SUFFICES ASSUME NonceInv, NEW t \in Txs, ~ToSelf(t) PROVE applied[t] <= 1
    BY DEF AppliedAtMostOnce
  <2>1. applied[t] \in Nat /\ (applied[t] > 0 => applied[t] = 1)
    BY DEF NonceInv
  <2> QED
    BY <2>1
<1> QED
  BY <1>1, <1>2, <1>3, PTL DEF Spec

-----------------------------------------------------------------------------
(* Hashes                                                                   *)

LEMMA CommitHashes ==
    ASSUME TableInv, RowsHashTheirData, Commit
    PROVE  RowsHashTheirData'
<1>1. CASE UNCHANGED <<rows, history>>
  BY <1>1 DEF RowsHashTheirData, history
<1>2. CASE Committed
  <2>1. /\ pc = "commit" /\ rows' = AfterBoth /\ tx.to \in Index
        /\ blanked' = (blanked \ {tx.from, tx.to}) \cup Blanked(tx)
    BY <1>2 DEF Commit, Committed, TableInv, CallInv, tx
  <2>2. ASSUME NEW k \in Index, k \notin blanked'
        PROVE  AfterBoth[k].hash = <<AfterBoth[k].data>>
    <3>1. CASE k \notin {tx.from, tx.to}
      BY <2>1, <2>2, <3>1, AfterBothRows DEF RowsHashTheirData
    <3>2. CASE k = tx.from /\ tx.from # tx.to
      BY <2>1, <3>2, AfterBothRows
    <3>3. CASE k = tx.to
      <4>1. updated.receiver # <<>> \/ ~updated.ok
        BY <2>1, <2>2, <3>3, CallFacts DEF Blanked
      <4>2. CASE updated.receiver # <<>>
        BY <2>1, <3>3, <4>2, AfterBothRows
      <4>3. CASE updated.receiver = <<>> /\ ~updated.ok
        <5>1. rows[tx.to].data = <<>>
          BY <2>1, <4>3, CallFacts
        <5>2. tx.from # tx.to
          BY <2>1, <5>1, CallFacts, PairIsNotEmpty
        <5> QED
          BY <2>1, <3>3, <4>3, <5>1, <5>2, AfterBothRows
      <4> QED
        BY <4>1, <4>2, <4>3
    <3> QED
      BY <3>1, <3>2, <3>3
  <2> QED
    BY <2>1, <2>2 DEF RowsHashTheirData
<1> QED
  BY <1>1, <1>2 DEF Commit

\* Every leaf row carries the hash of its data, after any sequence of calls,
\* errors and crashes, except the receiver of a mass migration.
THEOREM HashesFollowData == Spec => []RowsHashTheirData
<1>1. Init => TableInv /\ RowsHashTheirData
  BY InitTableInv DEF Init, RowsHashTheirData
<1>2. TableInv /\ RowsHashTheirData /\ [Next]_vars => (TableInv /\ RowsHashTheirData)'
  <2> SUFFICES ASSUME TableInv, RowsHashTheirData, [Next]_vars
               PROVE  TableInv' /\ RowsHashTheirData'
    OBVIOUS
  <2>1. CASE Commit
    BY <2>1, NextTableInv, CommitHashes
  <2>2. CASE ~Commit
    BY <2>2, NextTableInv, OnlyCommitWrites DEF RowsHashTheirData, history
  <2> QED
    BY <2>1, <2>2
<1> QED
  BY <1>1, <1>2, PTL DEF Spec

-----------------------------------------------------------------------------
(* The status                                                               *)

\* Between the update of the status and the COMMIT, the status of the current
\* transaction is ahead of the table.
StatusInv ==
    /\ faults \in Nat /\ crashes \in Nat
    /\ status \in [Txs -> {"processing", "processed"}]
    /\ written \in [Txs -> Nat]
    /\ faults = 0 /\ crashes = 0 =>
          \A t \in Txs : status[t] = "processed" <=>
                            written[t] > 0 \/ (pc = "commit" /\ t = cur)

LEMMA NextStatusInv == TableInv /\ StatusInv /\ [Next]_vars => StatusInv'
<1> SUFFICES ASSUME TableInv, StatusInv, [Next]_vars PROVE StatusInv'
  OBVIOUS
<1>0. cur \in Txs
  BY DEF TableInv
<1>1. CASE (\E t \in Txs : ReadStates(t)) \/ ApplyTx \/ UpdateFrom \/ UpdateTo
  BY <1>1 DEF ReadStates, ApplyTx, UpdateFrom, UpdateTo, history, StatusInv
<1>2. CASE ApplyTxFails \/ Rollback
  BY <1>2 DEF ApplyTxFails, Rollback, Fault, NoFault, history, StatusInv
<1>3. CASE UpdateStatus
  BY <1>0, <1>3 DEF UpdateStatus, Fault, NoFault, history, StatusInv
<1>4. CASE Commit
  <2>1. CASE NoFault
    <3>1. Committed
      BY <2>1, <1>4 DEF Commit, Fault, NoFault, StatusInv
    <3>2. \A t \in Txs : written'[t] = IF t = cur THEN written[t] + 1 ELSE written[t]
      BY <1>0, <3>1 DEF Committed, Inc, StatusInv
    <3>3. written' \in [Txs -> Nat]
      BY <1>0, <3>1 DEF Committed, Inc, StatusInv
    <3>4. UNCHANGED <<status, crashes, faults>> /\ pc = "commit" /\ pc' = "idle"
      BY <1>4, <2>1 DEF Commit, NoFault
    <3>5. \A t \in Txs : written[t] \in Nat
      BY DEF StatusInv
    <3> QED
      BY <1>0, <3>2, <3>3, <3>4, <3>5 DEF StatusInv
  <2>2. CASE Fault
    <3>1. written' \in [Txs -> Nat]
      BY <1>0, <1>4 DEF Commit, Committed, Inc, history, StatusInv
    <3> QED
      BY <1>4, <2>2, <3>1 DEF Commit, Fault, StatusInv
  <2> QED
    BY <1>4, <2>1, <2>2 DEF Commit
<1>5. CASE Crash
  BY <1>5 DEF Crash, history, StatusInv
<1>6. CASE UNCHANGED vars
  BY <1>6 DEF vars, caller, history, StatusInv
<1> QED
  BY <1>1, <1>2, <1>3, <1>4, <1>5, <1>6 DEF Next

\* A transaction is marked as processed exactly when its states were written,
\* although Tx.Apply sets the status outside the database transaction and
\* before its COMMIT, as long as no statement fails and the process lives.
THEOREM StatusIsTrue == Spec => []StatusFollowsRows
<1>1. Init => TableInv /\ StatusInv
  BY InitTableInv DEF Init, StatusInv
<1>2. TableInv /\ StatusInv /\ [Next]_vars => (TableInv /\ StatusInv)'
  BY NextTableInv, NextStatusInv
<1>3. StatusInv => StatusFollowsRows
  BY DEF StatusInv, StatusFollowsRows
<1> QED
  BY <1>1, <1>2, <1>3, PTL DEF Spec

-----------------------------------------------------------------------------
(* Conservation                                                             *)

\* The balances of a table of leaves.
Balances(table) == [k \in Index |-> Balance(table[k].data)]

\* What the accepted transaction under way adds to the supply.
Delta == IF updated.ok THEN Change(cur) ELSE 0

LEMMA ChangeIsInt ==
    ASSUME NEW t \in Txs
    PROVE  /\ Details[t].amount \in Nat /\ Details[t].fee \in Nat
           /\ Cost(Details[t]) = Details[t].amount + Details[t].fee
           /\ Change(t) = IF Details[t].type = "massmigration" THEN -Cost(Details[t])
                          ELSE IF ToSelf(t) THEN Details[t].amount
                          ELSE -Details[t].fee
           /\ Change(t) \in Int
<1>1. Details[t].amount \in Nat /\ Details[t].fee \in Nat
  BY TxApplyAssumption
<1>2. Cost(Details[t]) = Details[t].amount + Details[t].fee
  BY DEF Cost
<1>3. Change(t) = IF Details[t].type = "massmigration" THEN -Cost(Details[t])
                  ELSE IF ToSelf(t) THEN Details[t].amount
                  ELSE -Details[t].fee
  BY DEF Change
<1> QED
  BY <1>1, <1>2, <1>3

LEMMA SupplyOfRows ==
    ASSUME NEW table
    PROVE  Supply([k \in Index |-> table[k].data]) = SumFunction(Balances(table))
<1>1. [k \in Index |-> Balance([j \in Index |-> table[j].data][k])] = Balances(table)
  BY DEF Balances
<1> QED
  BY <1>1 DEF Supply

\* The balance of the sender and of the receiver when both rows are written.
LEMMA NewBalances ==
    ASSUME TableInv, pc = "commit"
    PROVE  /\ Balances(rows) \in [Index -> Int] /\ Balances(AfterBoth) \in [Index -> Int]
           /\ tx.from \in Index /\ tx.to \in Index /\ Delta \in Int
           /\ \A k \in Index : k \notin {tx.from, tx.to} =>
                 Balances(AfterBoth)[k] = Balances(rows)[k]
           /\ tx.from = tx.to =>
                 Balances(AfterBoth)[tx.to] = Balances(rows)[tx.to] + Delta
           /\ tx.from # tx.to =>
                 (Balances(AfterBoth)[tx.from] - Balances(rows)[tx.from])
                    + (Balances(AfterBoth)[tx.to] - Balances(rows)[tx.to]) = Delta
<1>1. tx.from \in Index /\ tx.to \in Index /\ cur \in Txs
  BY CallFacts DEF TableInv, CallInv
<1>2. /\ tx.amount \in Nat /\ tx.fee \in Nat /\ Cost(tx) = tx.amount + tx.fee
      /\ Change(cur) = IF tx.type = "massmigration" THEN -Cost(tx)
                       ELSE IF tx.from = tx.to THEN tx.amount
                       ELSE -tx.fee
      /\ Delta \in Int
  BY <1>1, ChangeIsInt DEF tx, Delta, ToSelf
<1>3. \A d : IsState(d) => Balance(d) \in Nat
  BY DEF IsState, Balance
<1>4. Balances(rows) \in [Index -> Int] /\ Balances(AfterBoth) \in [Index -> Int]
  <2>1. \A k \in Index : IsState(rows[k].data)
    BY DEF TableInv, RowsInv
  <2>2. \A k \in Index : IsState(AfterBoth[k].data)
    BY AfterBothRows
  <2> QED
    BY <1>3, <2>1, <2>2 DEF Balances
<1>5. \A k \in Index : /\ Balances(AfterBoth)[k] = Balance(AfterBoth[k].data)
                       /\ Balances(rows)[k] = Balance(rows[k].data)
  BY DEF Balances
<1>6. \A k \in Index : k \notin {tx.from, tx.to} =>
         Balances(AfterBoth)[k] = Balances(rows)[k]
  BY <1>5, AfterBothRows
<1>7. /\ rows[tx.from].data = read.sender /\ rows[tx.to].data = read.receiver
      /\ read.sender \in Nat \X Nat /\ updated.sender \in Nat \X Nat
      /\ IsState(read.receiver) /\ IsState(updated.receiver)
      /\ updated.ok \in BOOLEAN
  BY <1>1, CallFacts
<1>8. /\ Balance(read.sender) = read.sender[1] /\ read.sender[1] \in Nat
      /\ Balance(updated.sender) = updated.sender[1] /\ updated.sender[1] \in Nat
  BY <1>7, PairIsNotEmpty DEF Balance
<1>9. AfterBoth[tx.to].data = IF updated.receiver # <<>> THEN updated.receiver
                              ELSE IF tx.from = tx.to THEN updated.sender
                              ELSE rows[tx.to].data
  BY AfterBothRows
<1>10. tx.from # tx.to => AfterBoth[tx.from].data = updated.sender
  BY AfterBothRows
<1>11. CASE ~updated.ok
  <2>1. updated.sender = read.sender /\ updated.receiver = read.receiver
    BY <1>11, CallFacts
  <2>2. AfterBoth[tx.to].data = rows[tx.to].data
    BY <1>7, <1>9, <2>1, PairIsNotEmpty
  <2>3. tx.from # tx.to => AfterBoth[tx.from].data = rows[tx.from].data
    BY <1>7, <1>10, <2>1
  <2>4. Delta = 0
    BY <1>11 DEF Delta
  <2>5. \A k \in Index : Balances(AfterBoth)[k] = Balances(rows)[k] /\ Balances(rows)[k] \in Int
    BY <1>1, <1>4, <1>5, <1>6, <2>2, <2>3
  <2>6. \A i, j \in Int : i = i + 0 /\ (i - i) + (j - j) = 0
    OBVIOUS
  <2> QED
    BY <1>1, <1>4, <2>4, <2>5, <2>6
<1>12. CASE updated.ok /\ tx.type = "massmigration"
  <2>1. updated.receiver = <<>> /\ updated.sender[1] = read.sender[1] - Cost(tx)
    BY <1>12, CallFacts
  <2>2. Delta = -Cost(tx)
    BY <1>2, <1>12 DEF Delta
  <2>3. CASE tx.from = tx.to
    <3>1. AfterBoth[tx.to].data = updated.sender /\ rows[tx.to].data = read.sender
      BY <1>7, <1>9, <2>1, <2>3
    <3> QED
      BY <1>1, <1>2, <1>4, <1>5, <1>6, <1>8, <2>1, <2>2, <2>3, <3>1
  <2>4. CASE tx.from # tx.to
    <3>1. AfterBoth[tx.to].data = rows[tx.to].data
      BY <1>9, <2>1, <2>4
    <3>2. AfterBoth[tx.from].data = updated.sender
      BY <1>10, <2>4
    <3>3. /\ Balances(AfterBoth)[tx.to] = Balances(rows)[tx.to]
          /\ Balances(AfterBoth)[tx.from] = updated.sender[1]
          /\ Balances(rows)[tx.from] = read.sender[1] /\ Balances(rows)[tx.to] \in Int
      BY <1>1, <1>4, <1>5, <1>7, <1>8, <3>1, <3>2
    <3>4. (Balances(AfterBoth)[tx.from] - Balances(rows)[tx.from])
             + (Balances(AfterBoth)[tx.to] - Balances(rows)[tx.to]) = Delta
      <4>1. \A c, s, i \in Int : (s - c - s) + (i - i) = -c
        OBVIOUS
      <4>2. Cost(tx) \in Int /\ read.sender[1] \in Int
        BY ONLY <1>2, <1>8
      <4> QED
        BY ONLY <2>1, <2>2, <3>3, <4>1, <4>2
    <3> QED
      BY <1>1, <1>2, <1>4, <1>6, <2>4, <3>4
  <2> QED
    BY <2>3, <2>4
<1>13. CASE updated.ok /\ tx.type # "massmigration"
  <2>1. /\ updated.receiver # <<>> /\ updated.sender[1] = read.sender[1] - Cost(tx)
        /\ updated.receiver[1] = Balance(read.receiver) + tx.amount
    BY <1>13, CallFacts
  <2>2. /\ AfterBoth[tx.to].data = updated.receiver
        /\ Balance(updated.receiver) = Balance(read.receiver) + tx.amount
        /\ Balance(read.receiver) \in Nat
    BY <1>3, <1>7, <1>9, <2>1 DEF Balance
  <2>3. Delta = IF tx.from = tx.to THEN tx.amount ELSE -tx.fee
    BY <1>2, <1>13 DEF Delta
  <2>4. Balances(AfterBoth)[tx.to] = Balances(rows)[tx.to] + tx.amount
        /\ Balances(rows)[tx.to] \in Int
    BY <1>1, <1>4, <1>5, <1>7, <2>2
  <2>5. CASE tx.from = tx.to
    BY <1>1, <1>2, <1>4, <1>6, <2>3, <2>4, <2>5
  <2>6. CASE tx.from # tx.to
    <3>1. Balances(AfterBoth)[tx.from] = updated.sender[1]
          /\ Balances(rows)[tx.from] = read.sender[1]
      BY <1>1, <1>5, <1>7, <1>8, <1>10, <2>6
    <3>2. Delta = -tx.fee
      BY <2>3, <2>6
    <3>3. (Balances(AfterBoth)[tx.from] - Balances(rows)[tx.from])
             + (Balances(AfterBoth)[tx.to] - Balances(rows)[tx.to]) = Delta
      <4>1. \A a, e, r, i \in Int : ((r - (a + e)) - r) + ((i + a) - i) = -e
        OBVIOUS
      <4>2. Cost(tx) = tx.amount + tx.fee
        BY DEF Cost
      <4>3. tx.amount \in Int /\ tx.fee \in Int /\ read.sender[1] \in Int
        BY ONLY <1>2, <1>8
      <4> QED
        BY ONLY <2>1, <2>4, <3>1, <3>2, <4>1, <4>2, <4>3
    <3> QED
      BY <1>1, <1>2, <1>4, <1>6, <2>6, <3>3
  <2> QED
    BY <2>5, <2>6
<1> QED
  BY <1>7, <1>11, <1>12, <1>13

LEMMA SupplyAfterBoth ==
    ASSUME TableInv, pc = "commit"
    PROVE  /\ SumFunction(Balances(rows)) \in Int
           /\ SumFunction(Balances(AfterBoth)) = SumFunction(Balances(rows)) + Delta
<1> DEFINE f == Balances(rows)
           g == Balances(AfterBoth)
           h == [f EXCEPT ![tx.from] = g[tx.from]]
<1>0. IsFiniteSet(Index)
  BY TxApplyAssumption
<1>1. /\ f \in [Index -> Int] /\ g \in [Index -> Int]
      /\ tx.from \in Index /\ tx.to \in Index /\ Delta \in Int
      /\ \A k \in Index : k \notin {tx.from, tx.to} => g[k] = f[k]
      /\ tx.from = tx.to => g[tx.to] = f[tx.to] + Delta
      /\ tx.from # tx.to => (g[tx.from] - f[tx.from]) + (g[tx.to] - f[tx.to]) = Delta
  BY NewBalances
<1>2. Delta \in Int
  BY <1>1
<1> HIDE DEF f, g
<1>5. f \in [Index -> Int] /\ g \in [Index -> Int] /\ tx.from \in Index /\ tx.to \in Index
  BY <1>1
<1>3. CASE tx.from = tx.to
  <2>1. SumFunction(f) \in Int /\ SumFunction(g) = SumFunction(f) + g[tx.to] - f[tx.to]
    BY <1>0, <1>1, <1>3, SumChange
  <2>2. f[tx.to] \in Int /\ g[tx.to] = f[tx.to] + Delta
    BY <1>1, <1>3
  <2>3. SumFunction(f) \in Int /\ SumFunction(g) = SumFunction(f) + Delta
    BY <1>2, <2>1, <2>2
  <2> QED
    BY <2>3 DEF f, g
<1>4. CASE tx.from # tx.to
  <2>1. /\ h \in [Index -> Int] /\ h[tx.from] = g[tx.from] /\ h[tx.to] = f[tx.to]
        /\ \A k \in Index : k # tx.from => h[k] = f[k]
        /\ \A k \in Index : k # tx.to => h[k] = g[k]
    BY <1>1, <1>4
  <2> HIDE DEF h
  <2>2. SumFunction(f) \in Int /\ SumFunction(h) = SumFunction(f) + h[tx.from] - f[tx.from]
    BY ONLY <1>0, <1>5, <2>1, SumChange
  <2>3. SumFunction(h) \in Int /\ SumFunction(g) = SumFunction(h) + g[tx.to] - h[tx.to]
    BY ONLY <1>0, <1>5, <2>1, SumChange
  <2>4. /\ f[tx.from] \in Int /\ f[tx.to] \in Int /\ g[tx.from] \in Int /\ g[tx.to] \in Int
        /\ (g[tx.from] - f[tx.from]) + (g[tx.to] - f[tx.to]) = Delta
    BY <1>1, <1>4
  <2>5. SumFunction(f) \in Int /\ SumFunction(g) = SumFunction(f) + Delta
    BY <1>2, <2>1, <2>2, <2>3, <2>4
  <2> QED
    BY <2>5 DEF f, g
<1> QED
  BY <1>3, <1>4

\* One more application of a transaction adds its change once more.
LEMMA OneMore ==
    ASSUME NEW n \in Nat, NEW c \in Int
    PROVE  n * c \in Int /\ (n + 1) * c = n * c + c
OBVIOUS

LEMMA EffectIsInt ==
    ASSUME NEW t \in Txs, applied \in [Txs -> Nat]
    PROVE  Effect(t) \in Int
<1>1. Change(t) \in Int /\ applied[t] \in Nat
  BY ChangeIsInt
<1> QED
  BY <1>1, OneMore DEF Effect

LEMMA CommitConserved ==
    ASSUME TableInv, NonceInv, Conserved, Commit
    PROVE  Conserved'
<1> DEFINE e == [t \in Txs |-> Effect(t)]
           d == [t \in Txs |-> Effect(t)']
           before == SumFunction(Balances(rows))
<1>1. CASE UNCHANGED <<rows, history>>
  <2>1. rows' = rows /\ applied' = applied
    BY <1>1 DEF history
  <2>2. d = e
    BY <2>1 DEF Effect, Change
  <2> QED
    BY <2>1, <2>2 DEF Conserved
<1>2. CASE Committed
  <2>1. /\ pc = "commit" /\ rows' = AfterBoth /\ cur \in Txs /\ cur' = cur
        /\ applied' = IF updated.ok THEN Inc(applied, cur) ELSE applied
    BY <1>2 DEF Commit, Committed, TableInv, CallInv
  <2>2. applied \in [Txs -> Nat] /\ applied[cur] \in Nat
    BY <2>1 DEF NonceInv
  <2>3. applied' \in [Txs -> Nat]
    BY <2>1, <2>2 DEF Inc
  <2>4. \A t \in Txs : t # cur => applied'[t] = applied[t]
    BY <2>1, <2>2 DEF Inc
  <2>5. e \in [Txs -> Int]
    BY <2>2, EffectIsInt
  <2>6. ASSUME NEW t \in Txs
        PROVE  Effect(t)' \in Int
    <3>1. Change(t) \in Int /\ applied'[t] \in Nat
      BY <2>3, ChangeIsInt
    <3>2. Effect(t)' = applied'[t] * Change(t)
      BY DEF Effect, Change, ToSelf
    <3> QED
      BY <3>1, <3>2, OneMore
  <2>7. d \in [Txs -> Int]
    BY <2>6
  <2>8. \A t \in Txs : t # cur => e[t] = d[t]
    BY <2>4 DEF Effect, Change
  <2>9. d[cur] = e[cur] + Delta
    <3>1. e[cur] = Effect(cur) /\ d[cur] = Effect(cur)' /\ Effect(cur) \in Int
      BY <2>1, <2>2, EffectIsInt
    <3>2. CASE updated.ok
      <4>1. applied'[cur] = applied[cur] + 1
        BY <2>1, <2>2, <3>2 DEF Inc
      <4>2. Effect(cur)' = Effect(cur) + Delta
        <5>1. Delta = Change(cur) /\ Change(cur) \in Int
          BY <2>1, <3>2, ChangeIsInt DEF Delta
        <5>2. Effect(cur)' = applied'[cur] * Change(cur) /\ Effect(cur) = applied[cur] * Change(cur)
          BY <2>1 DEF Effect, Change, ToSelf
        <5> QED
          BY ONLY <2>2, <4>1, <5>1, <5>2, OneMore
      <4> QED
        BY <3>1, <4>2
    <3>3. CASE ~updated.ok
      <4>1. applied' = applied /\ Delta = 0
        BY <2>1, <3>3 DEF Delta
      <4>2. Effect(cur)' = Effect(cur)
        BY <2>1, <4>1 DEF Effect, Change, ToSelf
      <4> QED
        BY <3>1, <4>1, <4>2
    <3> QED
      BY <3>2, <3>3
  <2>10. IsFiniteSet(Txs)
    BY TxApplyAssumption
  <2> HIDE DEF d, e
  <2>11. SumFunction(e) \in Int /\ SumFunction(d) = SumFunction(e) + d[cur] - e[cur]
    BY <2>1, <2>5, <2>7, <2>8, <2>10, SumChange
  <2>12. before \in Int /\ SumFunction(Balances(AfterBoth)) = before + Delta
    BY <2>1, SupplyAfterBoth
  <2>13. before = Supply(InitStates) + SumFunction(e)
    BY SupplyOfRows DEF Conserved, e
  <2>14. Supply([k \in Index |-> AfterBoth[k].data]) = before + Delta
    BY <2>12, SupplyOfRows
  <2>15. Supply(InitStates) \in Int
    <3>1. [k \in Index |-> Balance(InitStates[k])] \in [Index -> Int]
      BY TxApplyAssumption DEF Balance
    <3> QED
      BY <3>1, SumIsInt, TxApplyAssumption DEF Supply
  <2>16. Delta \in Int /\ e[cur] \in Int
    BY <2>1, <2>5, NewBalances
  <2> HIDE DEF before
  <2>17. before + Delta = Supply(InitStates) + SumFunction(d)
    BY <2>9, <2>11, <2>12, <2>13, <2>15, <2>16
  <2>18. Supply([k \in Index |-> rows'[k].data]) = Supply(InitStates) + SumFunction(d)
    BY <2>1, <2>14, <2>17
  <2> QED
    BY <2>18 DEF Conserved, d, Supply
<1> QED
  BY <1>1, <1>2 DEF Commit

\* The balances in the table add up to those of the genesis, less the fees of
\* the accepted transactions and what mass migrations took away, and more what
\* transfers to oneself added, for every table and every set of transactions, wherever Tx.Apply
\* fails or the process dies.
THEOREM SupplyIsConserved == Spec => []Conserved
<1> DEFINE Inv == TableInv /\ NonceInv /\ Conserved
<1>1. Init => Inv
  <2> SUFFICES ASSUME Init PROVE Inv
    OBVIOUS
  <2>1. TableInv /\ NonceInv
    BY InitTableInv DEF Init, NonceInv
  <2>2. [k \in Index |-> rows[k].data] = [k \in Index |-> InitStates[k]]
    BY DEF Init
  <2>3. Supply([k \in Index |-> rows[k].data]) = Supply(InitStates)
    <3>1. [k \in Index |-> Balance([j \in Index |-> rows[j].data][k])]
             = [k \in Index |-> Balance(InitStates[k])]
      BY <2>2
    <3> QED
      BY <3>1 DEF Supply
  <2>4. [t \in Txs |-> Effect(t)] \in [Txs -> {0}]
    <3>1. ASSUME NEW t \in Txs
          PROVE  Effect(t) = 0
      <4>1. applied[t] = 0 /\ Change(t) \in Int
        BY ChangeIsInt DEF Init
      <4>2. applied[t] * Change(t) = 0
        BY <4>1
      <4> QED
        BY <4>2 DEF Effect
    <3> QED
      BY <3>1
  <2>5. SumFunction([t \in Txs |-> Effect(t)]) = 0
    BY <2>4, SumZero, TxApplyAssumption
  <2>6. Supply(InitStates) \in Int
    <3>1. [k \in Index |-> Balance(InitStates[k])] \in [Index -> Int]
      BY TxApplyAssumption DEF Balance
    <3> QED
      BY <3>1, SumIsInt, TxApplyAssumption DEF Supply
  <2> QED
    BY <2>1, <2>3, <2>5, <2>6 DEF Conserved
<1>2. Inv /\ [Next]_vars => Inv'
  <2> SUFFICES ASSUME TableInv, NonceInv, Conserved, [Next]_vars PROVE Inv'
    OBVIOUS
  <2>1. TableInv' /\ NonceInv'
    BY NextTableInv, NextNonceInv
  <2>2. CASE Commit
    BY <2>1, <2>2, CommitConserved
  <2>3. CASE ~Commit
    <3>1. rows' = rows /\ applied' = applied
      BY <2>3, OnlyCommitWrites DEF history
    <3>2. [t \in Txs |-> Effect(t)'] = [t \in Txs |-> Effect(t)]
      BY <3>1 DEF Effect, Change
    <3> QED
      BY <2>1, <3>1, <3>2 DEF Conserved
  <2> QED
    BY <2>2, <2>3
<1> QED
  BY <1>1, <1>2, PTL DEF Spec

=============================================================================
