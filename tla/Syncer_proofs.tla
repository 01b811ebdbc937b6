--------------------------- MODULE Syncer_proofs ---------------------------
(***************************************************************************)
(* What the syncer guarantees whatever the chain, the crashes and the      *)
(* faults: no log is skipped, the recorded block only advances, no leaf    *)
(* that holds a state is overwritten, a batch is stored once, a deposit is *)
(* never lost and is only put where the contract put it.                   *)
(***************************************************************************)
EXTENDS Syncer, FiniteSetTheorems, WellFoundedInduction, TLAPS

-----------------------------------------------------------------------------
(* Sequences                                                                *)

LEMMA FunctionIsSeq ==
    ASSUME NEW S, NEW m \in Nat, NEW f \in [1 .. m -> S]
    PROVE  f \in Seq(S) /\ Len(f) = m
OBVIOUS

LEMMA ConcatSeq ==
    ASSUME NEW S, NEW s \in Seq(S), NEW u \in Seq(S)
    PROVE  /\ s \o u \in Seq(S)
           /\ Len(s \o u) = Len(s) + Len(u)
           /\ DOMAIN s = 1 .. Len(s)
           /\ DOMAIN (s \o u) = 1 .. Len(s) + Len(u)
           /\ \A n \in 1 .. Len(s) : (s \o u)[n] = s[n]
           /\ \A n \in Len(s) + 1 .. Len(s) + Len(u) : (s \o u)[n] = u[n - Len(s)]
OBVIOUS

LEMMA DivNat ==
    ASSUME NEW a \in Nat, NEW b \in Nat \ {0}
    PROVE  a \div b \in Nat
OBVIOUS

\* What the provers do not know of powers of two: 2^n counts the subsets of
\* 1..n, and half of the subsets of 1..n+1 contain n+1.
LEMMA PowerOfTwo ==
    ASSUME NEW n \in Nat
    PROVE  2 ^ n \in Nat \ {0} /\ 2 ^ (n + 1) = 2 * 2 ^ n
<1> DEFINE A == SUBSET (1 .. n)
           B == {s \cup {n + 1} : s \in A}
           F == [s \in A |-> s \cup {n + 1}]
<1>1. /\ IsFiniteSet(1 .. n) /\ Cardinality(1 .. n) = n
      /\ IsFiniteSet(1 .. n + 1) /\ Cardinality(1 .. n + 1) = n + 1
  BY FS_Interval
<1>2. /\ IsFiniteSet(A) /\ Cardinality(A) = 2 ^ n
      /\ Cardinality(SUBSET (1 .. n + 1)) = 2 ^ (n + 1)
  BY <1>1, FS_SUBSET
<1>3. ExistsBijection(A, B)
  <2>1. F \in [A -> B]
    OBVIOUS
  <2>2. \A s, t \in A : F[s] = F[t] => s = t
    <3>1. \A s \in A : n + 1 \notin s
      OBVIOUS
    <3> QED
      BY <3>1
  <2>3. \A y \in B : \E s \in A : F[s] = y
    OBVIOUS
  <2>4. F \in Bijection(A, B)
    <3> HIDE DEF A, B, F
    <3> QED
      BY <2>1, <2>2, <2>3 DEF Bijection, Injection, IsInjective, Surjection
  <2> QED
    BY <2>4 DEF ExistsBijection
<1>4. IsFiniteSet(B) /\ Cardinality(B) = 2 ^ n
  BY <1>2, <1>3, FS_Bijection
<1>5. SUBSET (1 .. n + 1) = A \cup B
  <2>1. ASSUME NEW s \in SUBSET (1 .. n + 1)
        PROVE  s \in A \cup B
    <3>1. CASE n + 1 \in s
      <4>1. s \ {n + 1} \in A /\ s = (s \ {n + 1}) \cup {n + 1}
        BY <3>1
      <4> QED
        BY <4>1
    <3>2. CASE n + 1 \notin s
      BY <3>2
    <3> QED
      BY <3>1, <3>2
  <2>2. ASSUME NEW s \in A \cup B
        PROVE  s \in SUBSET (1 .. n + 1)
    <3>1. 1 .. n \subseteq 1 .. n + 1 /\ n + 1 \in 1 .. n + 1
      OBVIOUS
    <3> QED
      BY <3>1
  <2> QED
    BY <2>1, <2>2
<1>6. A \cap B = {}
  OBVIOUS
<1>7. Cardinality(A \cap B) = 0
  BY <1>6, FS_EmptySet
<1>8. 2 ^ n \in Nat
  BY <1>2, FS_CardinalityType
<1>9. 2 ^ n # 0
  <2>1. A # {}
    OBVIOUS
  <2> QED
    BY <1>2, <2>1, FS_EmptySet
<1> HIDE DEF A, B
<1>10. Cardinality(A \cup B) = 2 ^ n + 2 ^ n - 0
  BY <1>2, <1>4, <1>7, FS_Union
<1>11. 2 ^ (n + 1) = 2 ^ n + 2 ^ n - 0
  BY <1>2, <1>5, <1>10
<1> QED
  BY ONLY <1>8, <1>9, <1>11

LEMMA SizeFacts ==
    /\ SubTreeSize \in Nat \ {0, 1}
    /\ 2 ^ (Depth - 1) \in Nat /\ 2 ^ Depth = 2 * 2 ^ (Depth - 1)
<1>1. SubTreeHeight - 1 \in Nat /\ Depth - 1 \in Nat
  BY ChainAssumption
<1>2. /\ SubTreeHeight - 1 + 1 = SubTreeHeight
      /\ Depth - 1 + 1 = Depth
  BY ChainAssumption
<1>3. 2 ^ (SubTreeHeight - 1) \in Nat \ {0} /\ SubTreeSize = 2 * 2 ^ (SubTreeHeight - 1)
  BY <1>1, <1>2, PowerOfTwo DEF SubTreeSize
<1>4. SubTreeSize \in Nat \ {0, 1}
  BY <1>3
<1> QED
  BY <1>1, <1>2, <1>4, PowerOfTwo

-----------------------------------------------------------------------------
(* The chain                                                                *)

\* The last block may still be in the making.
ChainInv == ChainTypeOK /\ \A n \in DOMAIN log : log[n].blk <= head + 1

\* What an entry of the log looks like.
LEMMA EntryTypes ==
    ASSUME ChainInv, NEW n \in DOMAIN log
    PROVE  /\ log[n] \in Entry
           /\ log[n].blk \in Nat
           /\ log[n].ev \in Event
<1>1. log \in Seq(Entry)
  BY DEF ChainInv, ChainTypeOK
<1>2. log[n] \in Entry
  BY <1>1
<1> QED
  BY <1>2 DEF Entry

\* What a step of the chain may do to the log: append to the block that is
\* being built, or seal it.
ChainGrows ==
    /\ head' \in {head, head + 1}
    /\ DOMAIN log \subseteq DOMAIN log'
    /\ \A n \in DOMAIN log : log'[n] = log[n]
    /\ \A n \in DOMAIN log' \ DOMAIN log : log'[n].blk = head + 1
    /\ head' # head => log' = log

\* Events are appended behind the entries already there.
LEMMA EmitGrows ==
    ASSUME ChainInv, NEW events \in Seq(Event), Emit(events), head' = head
    PROVE  /\ log' \in Seq(Entry)
           /\ ChainGrows
           /\ \A n \in DOMAIN log' : log'[n].blk <= head + 1
<1> DEFINE q == [k \in 1 .. Len(events) |-> [blk |-> head + 1, ev |-> events[k]]]
<1>1. Len(events) \in Nat /\ head \in Nat /\ log \in Seq(Entry) /\ Len(log) \in Nat
  BY DEF ChainInv, ChainTypeOK
<1>2. q \in [1 .. Len(events) -> Entry]
  BY <1>1 DEF Entry
<1>3. q \in Seq(Entry) /\ Len(q) = Len(events)
  BY <1>1, <1>2, FunctionIsSeq
<1>4. /\ log' \in Seq(Entry)
      /\ DOMAIN log = 1 .. Len(log)
      /\ DOMAIN log' = 1 .. Len(log) + Len(events)
      /\ \A n \in 1 .. Len(log) : log'[n] = log[n]
      /\ \A n \in Len(log) + 1 .. Len(log) + Len(events) : log'[n] = q[n - Len(log)]
  BY <1>1, <1>3, ConcatSeq DEF Emit
<1>5. ASSUME NEW n \in Len(log) + 1 .. Len(log) + Len(events)
      PROVE  log'[n].blk = head + 1
  <2>1. n - Len(log) \in 1 .. Len(events)
    BY <1>1
  <2>2. q[n - Len(log)] = [blk |-> head + 1, ev |-> events[n - Len(log)]]
    BY <2>1
  <2>3. log'[n] = q[n - Len(log)]
    BY <1>4
  <2> QED
    BY ONLY <2>2, <2>3
<1>6. ChainGrows
  BY <1>1, <1>4, <1>5, SMTT(30) DEF ChainGrows
<1>7. \A n \in DOMAIN log' : log'[n].blk <= head + 1
  BY <1>1, <1>4, <1>5 DEF ChainInv
<1> QED
  BY <1>4, <1>6, <1>7

\* The same, with the rest of the chain's state in its type.
LEMMA EmitInv ==
    ASSUME ChainInv, NEW events \in Seq(Event), Emit(events), head' = head,
           queued' \in 0 .. MaxDeposits, submitted' \in Nat, vacant' \subseteq vacant,
           nbatches' \in Nat, ntokens' \in Nat, npubkeys' \in Nat
    PROVE  ChainInv' /\ ChainGrows
<1>1. /\ log' \in Seq(Entry)
      /\ ChainGrows
      /\ \A n \in DOMAIN log' : log'[n].blk <= head' + 1
  BY EmitGrows
<1>2. ChainTypeOK'
  BY <1>1 DEF ChainInv, ChainTypeOK
<1> QED
  BY <1>1, <1>2 DEF ChainInv

LEMMA ChainNextGrows ==
    ASSUME ChainInv, ChainNext
    PROVE  ChainInv' /\ ChainGrows
<1> DEFINE Counters ==
        /\ head \in Nat /\ queued \in 0 .. MaxDeposits /\ submitted \in Nat
        /\ vacant \subseteq Leaf
        /\ nbatches \in Nat /\ ntokens \in Nat /\ npubkeys \in Nat
<1>0. Counters
  BY DEF ChainInv, ChainTypeOK
<1>1. CASE Deposit
  <2>1. queued' \in 1 .. MaxDeposits /\ queued' \in Nat \ {0} /\ queued' \in 0 .. MaxDeposits
    BY <1>0, <1>1, ChainAssumption DEF Deposit
  <2>2. DepositQueued(queued') \in Event
    BY <2>1, ChainAssumption DEF DepositQueued, Event
  <2>3. DepositSubTreeReady(queued' \div SubTreeSize) \in Event
    <3>1. queued' \div SubTreeSize \in Nat
      BY <2>1, SizeFacts, DivNat
    <3> QED
      BY <3>1 DEF DepositSubTreeReady, Event
  <2>4. PICK events \in Seq(Event) : Emit(events)
    <3>1. <<DepositQueued(queued')>> \in Seq(Event)
      BY <2>2
    <3>2. <<DepositQueued(queued'), DepositSubTreeReady(queued' \div SubTreeSize)>> \in Seq(Event)
      BY <2>2, <2>3
    <3> QED
      BY <1>1, <3>1, <3>2 DEF Deposit
  <2> QED
    BY <1>0, <1>1, <2>1, <2>4, EmitInv DEF Deposit
<1>2. ASSUME NEW s \in vacant, SubmitDeposits(s) PROVE ChainInv' /\ ChainGrows
  <2>1. submitted' \in Nat /\ nbatches' \in Nat /\ s \in Leaf
    BY <1>0, <1>2 DEF SubmitDeposits
  <2>2. DepositsFinalised(submitted', s) \in Event /\ NewBatch(nbatches) \in Event
    BY <1>0, <2>1 DEF DepositsFinalised, NewBatch, Event
  <2>3. <<DepositsFinalised(submitted', s), NewBatch(nbatches)>> \in Seq(Event)
    BY <2>2
  <2> QED
    BY <1>0, <1>2, <2>1, <2>3, EmitInv DEF SubmitDeposits
<1>3. CASE SubmitTransfer
  <2>1. NewBatch(nbatches) \in Event /\ nbatches' \in Nat
    BY <1>0, <1>3 DEF NewBatch, Event, SubmitTransfer
  <2>2. <<NewBatch(nbatches)>> \in Seq(Event)
    BY <2>1
  <2> QED
    BY <1>0, <1>3, <2>1, <2>2, EmitInv DEF SubmitTransfer
<1>4. CASE RegisterToken
  <2>1. ntokens' \in Nat
    BY <1>0, <1>4 DEF RegisterToken
  <2>2. RegisteredToken(ntokens') \in Event
    BY <2>1 DEF RegisteredToken, Event
  <2>3. <<RegisteredToken(ntokens')>> \in Seq(Event)
    BY <2>2
  <2> QED
    BY <1>0, <1>4, <2>1, <2>3, EmitInv DEF RegisterToken
<1>5. CASE RegisterPubkey
  <2>1. npubkeys' \in Nat
    BY <1>0, <1>5 DEF RegisterPubkey
  <2>2. NewPubkeyAdded(npubkeys') \in Event
    BY <2>1 DEF NewPubkeyAdded, Event
  <2>3. <<NewPubkeyAdded(npubkeys')>> \in Seq(Event)
    BY <2>2
  <2> QED
    BY <1>0, <1>5, <2>1, <2>3, EmitInv DEF RegisterPubkey
<1>6. CASE MineBlock
  <2>1. \A n \in DOMAIN log : log[n].blk \in Nat
    BY EntryTypes
  <2>2. /\ head' = head + 1 /\ log' = log
        /\ UNCHANGED <<queued, submitted, vacant, nbatches, ntokens, npubkeys>>
    BY <1>6 DEF MineBlock
  <2>3. ChainTypeOK'
    BY <1>0, <2>2 DEF ChainInv, ChainTypeOK
  <2>4. \A n \in DOMAIN log : log[n].blk <= head' + 1
    BY <1>0, <2>1, <2>2 DEF ChainInv
  <2> QED
    BY <1>0, <2>2, <2>3, <2>4 DEF ChainInv, ChainGrows
<1> QED
  BY <1>1, <1>2, <1>3, <1>4, <1>5, <1>6 DEF ChainNext

-----------------------------------------------------------------------------
(* No log is skipped                                                        *)

\* While processEvents works for a header, the logs up to that header are
\* behind it or on its list; the header is a block that has been mined and
\* lies beyond the last one recorded.
RangeInv ==
    pc # "wait" =>
        /\ lastEth < hdr
        /\ \A n \in DOMAIN log : log[n].blk <= hdr => n \in handled \cup dropped \cup todo

SyncInv ==
    /\ ChainInv
    /\ lastEth \in Nat /\ lastEth <= head
    /\ held \in Nat /\ held <= head
    /\ hdr \in Nat /\ hdr <= head
    /\ RangeInv
    /\ NoLogSkipped

LEMMA InitSyncInv == Init => SyncInv
<1> SUFFICES ASSUME Init PROVE SyncInv
  OBVIOUS
<1>1. [blk |-> 1, ev |-> NewBatch(0)] \in Entry
  BY DEF Entry, Event, NewBatch
<1>2. log = <<[blk |-> 1, ev |-> NewBatch(0)]>> /\ log \in Seq(Entry)
  BY <1>1 DEF Init, ChainInit
<1>3. ChainTypeOK
  BY <1>2, ChainAssumption DEF Init, ChainInit, ChainTypeOK
<1>4. DOMAIN log = {1} /\ log[1].blk = 1
  BY <1>2
<1>5. ChainInv
  BY <1>3, <1>4 DEF ChainInv, Init, ChainInit
<1> QED
  BY <1>4, <1>5 DEF SyncInv, RangeInv, NoLogSkipped, Init, ChainInit

LEMMA ChainStepSyncInv == SyncInv /\ ChainStep => SyncInv'
<1> SUFFICES ASSUME SyncInv, ChainStep PROVE SyncInv'
  OBVIOUS
<1>1. ChainInv' /\ ChainGrows
  BY ChainNextGrows DEF SyncInv, ChainStep
<1>2. UNCHANGED <<lastEth, held, hdr, pc, todo, handled, dropped>>
  BY DEF ChainStep, tables, process, history
<1>3. head \in Nat /\ head' \in Nat /\ head <= head'
  BY <1>1 DEF ChainGrows, SyncInv, ChainInv, ChainTypeOK
<1>4. ASSUME NEW n \in DOMAIN log', NEW b \in Nat, b <= head, log'[n].blk <= b
      PROVE  n \in DOMAIN log /\ log[n].blk <= b
  BY <1>1, <1>3, <1>4 DEF ChainGrows
<1>5. NoLogSkipped' /\ RangeInv'
  BY <1>2, <1>4 DEF SyncInv, NoLogSkipped, RangeInv
<1> QED
  BY <1>1, <1>2, <1>3, <1>5 DEF SyncInv

LEMMA HeaderSyncInv ==
    ASSUME SyncInv,
           \/ \E h \in 1 .. head : ReceiveHeader(h)
           \/ NoNeedToSync \/ ProcessHeader \/ ProcessHeaderFails
    PROVE  SyncInv'
<1>0. UNCHANGED chainVars
  BY DEF ReceiveHeader, NoNeedToSync, ProcessHeader, ProcessHeaderFails
<1>1. UNCHANGED <<log, head>> /\ ChainInv' /\ head \in Nat
  BY <1>0 DEF chainVars, SyncInv, ChainInv, ChainTypeOK
<1>2. CASE \E h \in 1 .. head : ReceiveHeader(h)
  BY <1>1, <1>2 DEF ReceiveHeader, tables, history, SyncInv, RangeInv, NoLogSkipped
<1>3. CASE NoNeedToSync
  BY <1>1, <1>3 DEF NoNeedToSync, tables, history, SyncInv, RangeInv, NoLogSkipped
<1>4. CASE ProcessHeader
  <2>1. /\ lastEth < held /\ hdr' = held /\ held' = 0 /\ pc' = "events"
        /\ todo' = {n \in DOMAIN log : log[n].blk \in lastEth .. held}
        /\ UNCHANGED <<lastEth, handled, dropped>>
        /\ lastEth \in Nat /\ held \in Nat
    BY <1>4 DEF ProcessHeader, Waited, FilterLogs, tables, history, SyncInv
  <2>2. ASSUME NEW n \in DOMAIN log, log[n].blk <= held
        PROVE  n \in handled \cup dropped \cup todo'
    <3>1. log[n].blk \in Nat
      BY EntryTypes DEF SyncInv
    <3>2. CASE log[n].blk <= lastEth
      BY <3>2 DEF SyncInv, NoLogSkipped
    <3>3. CASE lastEth < log[n].blk
      BY <2>1, <2>2, <3>1, <3>3
    <3> QED
      BY <2>1, <3>1, <3>2, <3>3
  <2>3. RangeInv'
    BY <1>1, <2>1, <2>2 DEF RangeInv
  <2>4. NoLogSkipped'
    BY <1>1, <2>1 DEF SyncInv, NoLogSkipped
  <2> QED
    BY <1>1, <2>1, <2>3, <2>4 DEF SyncInv
<1>5. CASE ProcessHeaderFails
  BY <1>1, <1>5 DEF ProcessHeaderFails, tables, SyncInv, RangeInv, NoLogSkipped
<1> QED
  BY <1>2, <1>3, <1>4, <1>5

LEMMA RecordSyncInv ==
    ASSUME SyncInv, RecordBlock \/ RecordBlockFails
    PROVE  SyncInv'
<1>0. UNCHANGED chainVars
  BY DEF RecordBlock, RecordBlockFails
<1>1. UNCHANGED <<log, head>> /\ ChainInv' /\ head \in Nat
  BY <1>0 DEF chainVars, SyncInv, ChainInv, ChainTypeOK
<1>2. CASE RecordBlock
  BY <1>1, <1>2 DEF RecordBlock, history, SyncInv, RangeInv, NoLogSkipped
<1>3. CASE RecordBlockFails
  BY <1>1, <1>3 DEF RecordBlockFails, tables, SyncInv, RangeInv, NoLogSkipped
<1> QED
  BY <1>2, <1>3

\* What every handler does to the state NoLogSkipped is about: nothing, or the
\* log that comes off the list is accounted for.
Accounted ==
    /\ UNCHANGED <<log, head, lastEth, held, hdr>>
    /\ pc # "wait"
    /\ todo \ todo' \subseteq handled' \cup dropped'
    /\ handled \subseteq handled' /\ dropped \subseteq dropped'

LEMMA AccountedSyncInv ==
    ASSUME SyncInv, Accounted, UNCHANGED chainVars
    PROVE  SyncInv'
<1>1. ChainInv'
  BY DEF SyncInv, ChainInv, ChainTypeOK, chainVars
<1>2. RangeInv' /\ NoLogSkipped'
  BY DEF SyncInv, RangeInv, NoLogSkipped, Accounted
<1> QED
  BY <1>1, <1>2 DEF SyncInv, Accounted

\* The process is down: nothing is on the list and nothing was recorded.
LEMMA GoDownSyncInv ==
    ASSUME SyncInv, GoDown
    PROVE  SyncInv'
<1>1. ChainInv' /\ head \in Nat /\ UNCHANGED <<log, head, lastEth>>
  BY DEF SyncInv, ChainInv, ChainTypeOK, chainVars, GoDown, tables
<1> QED
  BY <1>1 DEF SyncInv, RangeInv, NoLogSkipped, GoDown

LEMMA HandlerSyncInv ==
    ASSUME SyncInv, NEW n \in todo,
           ProcessLog(n) \/ DropLog(n) \/ FinaliseFails(n)
    PROVE  SyncInv'
<1>1. CASE ProcessRegisteredToken(n)
  BY <1>1, AccountedSyncInv
     DEF ProcessRegisteredToken, NextLog, Handled, Accounted, chainVars
<1>2. CASE ProcessNewPubkeyAddition(n)
  BY <1>2, AccountedSyncInv
     DEF ProcessNewPubkeyAddition, NextLog, Handled, Accounted, chainVars, tables
<1>3. CASE ProcessDepositQueued(n)
  BY <1>3, AccountedSyncInv
     DEF ProcessDepositQueued, NextLog, Handled, Accounted, chainVars
<1>4. CASE ProcessDepositSubtreeCreated(n)
  BY <1>4, AccountedSyncInv
     DEF ProcessDepositSubtreeCreated, NextLog, Handled, Accounted, chainVars
<1>5. CASE AddNewBatch(n)
  BY <1>5, AccountedSyncInv DEF AddNewBatch, NextLog, Handled, Accounted, chainVars
<1>6. CASE RecordBatch(n)
  BY <1>6, AccountedSyncInv DEF RecordBatch, NextLog, Handled, Accounted, chainVars
<1>7. CASE BatchInputPanics(n)
  BY <1>7, GoDownSyncInv DEF BatchInputPanics
<1>8. CASE BeginFinaliseDeposits(n)
  BY <1>8, AccountedSyncInv
     DEF BeginFinaliseDeposits, NextLog, Accounted, chainVars, tables, history
<1>9. CASE NothingToFinalise(n)
  BY <1>9, AccountedSyncInv
     DEF NothingToFinalise, NextLog, Handled, Accounted, chainVars, tables
<1>10. CASE FinaliseDelete(n)
  BY <1>10, AccountedSyncInv DEF FinaliseDelete, Handled, Accounted, chainVars, history
<1>11. CASE DropLog(n)
  BY <1>11, AccountedSyncInv DEF DropLog, NextLog, Accounted, chainVars, tables
<1>12. CASE FinaliseFails(n)
  BY <1>12, AccountedSyncInv DEF FinaliseFails, Accounted, chainVars, tables
<1> QED
  BY <1>1, <1>2, <1>3, <1>4, <1>5, <1>6, <1>7, <1>8, <1>9, <1>10, <1>11, <1>12
     DEF ProcessLog

LEMMA NextSyncInv == SyncInv /\ [Next]_vars => SyncInv'
<1> SUFFICES ASSUME SyncInv, [Next]_vars PROVE SyncInv'
  OBVIOUS
<1>1. CASE ChainStep
  BY <1>1, ChainStepSyncInv
<1>2. CASE \/ \E h \in 1 .. head : ReceiveHeader(h)
           \/ NoNeedToSync \/ ProcessHeader \/ ProcessHeaderFails
  BY <1>2, HeaderSyncInv
<1>3. CASE RecordBlock \/ RecordBlockFails
  BY <1>3, RecordSyncInv
<1>4. CASE \E n \in todo : ProcessLog(n) \/ DropLog(n) \/ FinaliseFails(n)
  BY <1>4, HandlerSyncInv
<1>5. CASE FinaliseUpdate
  BY <1>5, AccountedSyncInv DEF FinaliseUpdate, Accounted, chainVars, history
<1>6. CASE IndexOutOfRange
  BY <1>6, GoDownSyncInv DEF IndexOutOfRange
<1>7. CASE Crash
  BY <1>7, GoDownSyncInv DEF Crash
<1>8. CASE Restart
  BY <1>8 DEF Restart, chainVars, tables, history, SyncInv, ChainInv, ChainTypeOK,
              RangeInv, NoLogSkipped
<1>9. CASE UNCHANGED vars
  BY <1>9 DEF vars, chainVars, tables, process, history, SyncInv, ChainInv,
              ChainTypeOK, RangeInv, NoLogSkipped
<1> QED
  BY <1>1, <1>2, <1>3, <1>4, <1>5, <1>6, <1>7, <1>8, <1>9
     DEF Next, ProcessEvents, Faulty

\* Whatever crashes, panics and errors happen on the way, every log up to the
\* last recorded block went through its handler: nothing between two recorded
\* blocks is missed.
THEOREM NoLogIsSkipped == Spec => []NoLogSkipped
<1>1. SyncInv => NoLogSkipped
  BY DEF SyncInv
<1> QED
  BY <1>1, InitSyncInv, NextSyncInv, PTL DEF Spec

-----------------------------------------------------------------------------
(* The recorded block advances                                             *)

\* A step either leaves the recorded block alone or records the header of a
\* finished range, which lies beyond the block recorded before.
LEMMA RecordedBlockStep ==
    ASSUME SyncInv, [Next]_vars
    PROVE  lastEth' = lastEth \/ (lastEth < hdr /\ lastEth' = hdr)
<1>1. CASE RecordBlock
  BY <1>1 DEF RecordBlock, SyncInv, RangeInv
<1>2. CASE ChainStep
  BY <1>2 DEF ChainStep, tables
<1>3. CASE \/ \E h \in 1 .. head : ReceiveHeader(h)
           \/ NoNeedToSync \/ ProcessHeader \/ ProcessHeaderFails
           \/ RecordBlockFails \/ Restart
  BY <1>3 DEF ReceiveHeader, NoNeedToSync, ProcessHeader, ProcessHeaderFails,
              RecordBlockFails, Restart, tables
<1>4. CASE \E n \in todo : ProcessLog(n) \/ DropLog(n) \/ FinaliseFails(n)
  BY <1>4 DEF ProcessLog, ProcessRegisteredToken, ProcessNewPubkeyAddition,
              ProcessDepositQueued, ProcessDepositSubtreeCreated, AddNewBatch,
              RecordBatch, BatchInputPanics, GoDown, BeginFinaliseDeposits,
              NothingToFinalise, FinaliseDelete, DropLog, FinaliseFails, tables
<1>5. CASE FinaliseUpdate \/ IndexOutOfRange \/ Crash \/ UNCHANGED vars
  BY <1>5 DEF FinaliseUpdate, IndexOutOfRange, Crash, GoDown, vars, tables
<1> QED
  BY <1>1, <1>2, <1>3, <1>4, <1>5 DEF Next, ProcessEvents, Faulty

\* The block a restart resumes from never moves back and is always a block
\* that was mined: no crash, stale header or repeated poll makes the syncer
\* jump over blocks or start again.
THEOREM RecordedBlockOnlyAdvances == Spec => RecordedBlockAdvances
<1>1. SyncInv /\ [Next]_vars => [lastEth <= lastEth' /\ lastEth' <= head]_vars
  <2> SUFFICES ASSUME SyncInv, [Next]_vars
               PROVE  lastEth <= lastEth' /\ lastEth' <= head
    OBVIOUS
  <2>1. lastEth \in Nat /\ hdr \in Nat /\ head \in Nat /\ lastEth <= head /\ hdr <= head
    BY DEF SyncInv, ChainInv, ChainTypeOK
  <2> QED
    BY <2>1, RecordedBlockStep
<1> QED
  BY <1>1, InitSyncInv, NextSyncInv, PTL DEF Spec, RecordedBlockAdvances

-----------------------------------------------------------------------------
(* No leaf is overwritten                                                   *)

\* The leaf at position j of the list is still to be filled.
StillEmpty(j) ==
    fin.terminalNodes[j] \in Leaf => leaves[fin.terminalNodes[j]] = Zero

IsFin(f) ==
    f = [accounts |-> f.accounts, terminalNodes |-> f.terminalNodes, k |-> f.k]

\* While FinaliseDeposits runs, its terminal nodes are two different leaves,
\* and those its loop has not reached are as empty as the check found them.
FinInv ==
    /\ leaves = [l \in Leaf |-> leaves[l]]
    /\ todo \subseteq DOMAIN log
    /\ pc \in {"update", "delete"} =>
           /\ IsFin(fin) /\ fin.k \in Nat \ {0}
           /\ \E s \in Int : fin.terminalNodes = <<2 * s, 2 * s + 1>>
    /\ pc = "update" => \A j \in 1 .. 2 : fin.k <= j => StillEmpty(j)
    /\ pc = "delete" => \A j \in 1 .. 2 : fin.k < j => StillEmpty(j)

LEMMA InitFinInv == Init => FinInv
BY DEF Init, FinInv

\* The finalised event names a node by its number.
LEMMA SubtreeIsInt ==
    ASSUME ChainInv, NEW n \in DOMAIN log, log[n].ev.type = "DepositsFinalised"
    PROVE  log[n].ev.subtree \in Int
<1>1. log[n].ev \in Event
  BY EntryTypes
<1>2. log[n].ev \in [type : {"DepositsFinalised"}, root : Nat, subtree : Leaf]
  BY <1>1 DEF Event
<1>3. log[n].ev.subtree \in Leaf
  BY <1>2
<1> QED
  BY <1>3 DEF Leaf

\* The update of one leaf: it was empty, and the other one is not touched.
LEMMA UpdateFinInv ==
    ASSUME FinInv, FinaliseUpdate
    PROVE  /\ FinInv'
           /\ \A l \in Leaf : leaves[l] # Zero => leaves'[l] = leaves[l]
<1> DEFINE v == fin.accounts[fin.k].deposit
<1>1. /\ leaves' = [leaves EXCEPT ![fin.terminalNodes[fin.k]] = v]
      /\ pc = "update" /\ pc' = "delete"
      /\ UNCHANGED <<fin, todo, log>>
      /\ fin.k <= Len(fin.terminalNodes)
  BY DEF FinaliseUpdate, chainVars
<1>2. PICK s \in Int : fin.terminalNodes = <<2 * s, 2 * s + 1>>
  BY <1>1 DEF FinInv
<1>3. /\ fin.k \in Nat \ {0}
      /\ \A j \in 1 .. 2 : fin.k <= j => StillEmpty(j)
      /\ IsFin(fin)
  BY <1>1 DEF FinInv
<1>4. fin.k \in 1 .. 2
  BY <1>1, <1>2, <1>3
<1>5. StillEmpty(fin.k)
  BY <1>3, <1>4
<1>6. /\ leaves' = [l \in Leaf |-> leaves'[l]]
      /\ \A l \in Leaf : l # fin.terminalNodes[fin.k] => leaves'[l] = leaves[l]
  BY <1>1 DEF FinInv
<1>7. ASSUME NEW j \in 1 .. 2, fin.k < j, fin.terminalNodes[j] \in Leaf
      PROVE  leaves'[fin.terminalNodes[j]] = Zero
  <2>1. fin.k = 1 /\ j = 2
    BY <1>4, <1>7
  <2>2. fin.terminalNodes[1] = 2 * s /\ fin.terminalNodes[2] = 2 * s + 1
    BY <1>2
  <2>3. fin.terminalNodes[j] # fin.terminalNodes[fin.k]
    BY <2>1, <2>2
  <2> QED
    BY <1>3, <1>6, <1>7, <2>1, <2>3 DEF StillEmpty
<1>8. FinInv'
  <2>1. \A j \in 1 .. 2 : fin.k < j => StillEmpty(j)'
    BY <1>1, <1>7 DEF StillEmpty
  <2>2. todo \subseteq DOMAIN log
    BY DEF FinInv
  <2> QED
    BY <1>1, <1>2, <1>3, <1>6, <2>1, <2>2 DEF FinInv
<1> QED
  BY <1>5, <1>6, <1>8 DEF StillEmpty

\* A step that changes neither the leaves nor the locals of FinaliseDeposits,
\* and does not enter its loop.
LEMMA OutsideFinInv ==
    ASSUME FinInv, UNCHANGED leaves, todo' \subseteq DOMAIN log',
           pc' \notin {"update", "delete"} \/ UNCHANGED <<pc, fin>>
    PROVE  FinInv'
BY DEF FinInv, StillEmpty, IsFin

LEMMA HandlerFinInv ==
    ASSUME ChainInv, FinInv, NEW n \in todo,
           ProcessLog(n) \/ DropLog(n) \/ FinaliseFails(n)
    PROVE  FinInv' /\ UNCHANGED leaves
<1>0. todo \subseteq DOMAIN log /\ n \in DOMAIN log
  BY DEF FinInv
<1>1. CASE BeginFinaliseDeposits(n)
  <2> DEFINE s == log[n].ev.subtree
  <2>1. /\ log[n].ev.type = "DepositsFinalised"
        /\ UNCHANGED <<log, leaves, todo>>
        /\ pc' = "update"
        /\ IsFin(fin') /\ fin'.terminalNodes = <<2 * s, 2 * s + 1>> /\ fin'.k = 1
        /\ AllZero(<<2 * s, 2 * s + 1>>)
    BY <1>1 DEF BeginFinaliseDeposits, NextLog, GetAllTerminalNodes, IsFin, chainVars, tables
  <2>2. s \in Int
    BY <1>0, <2>1, SubtreeIsInt
  <2>3. leaves[2 * s] = Zero /\ leaves[2 * s + 1] = Zero
    BY <2>1 DEF AllZero
  <2>4. \A j \in 1 .. 2 : leaves'[fin'.terminalNodes[j]] = Zero
    BY <2>1, <2>3
  <2> QED
    BY <1>0, <2>1, <2>2, <2>4 DEF FinInv, StillEmpty
<1>2. CASE FinaliseDelete(n)
  <2>1. UNCHANGED <<leaves, log>> /\ todo' \subseteq DOMAIN log'
    BY <1>0, <1>2 DEF FinaliseDelete, Handled, chainVars
  <2>2. CASE fin.k < Len(fin.accounts)
    <3>1. pc = "delete" /\ pc' = "update" /\ fin' = [fin EXCEPT !.k = @ + 1]
      BY <1>2, <2>2 DEF FinaliseDelete
    <3>2. /\ IsFin(fin) /\ fin.k \in Nat \ {0}
          /\ \E s \in Int : fin.terminalNodes = <<2 * s, 2 * s + 1>>
      BY <3>1 DEF FinInv
    <3>3. \A j \in 1 .. 2 : fin.k < j => StillEmpty(j)
      BY <3>1 DEF FinInv
    <3>4. fin' = [accounts |-> fin.accounts, terminalNodes |-> fin.terminalNodes, k |-> fin.k + 1]
      BY <3>1, <3>2 DEF IsFin
    <3>5. fin'.terminalNodes = fin.terminalNodes /\ fin'.k = fin.k + 1 /\ IsFin(fin')
      BY <3>4 DEF IsFin
    <3>6. \A j \in 1 .. 2 : fin'.k <= j => StillEmpty(j)'
      BY <2>1, <3>2, <3>3, <3>5 DEF StillEmpty
    <3> QED
      BY <2>1, <3>1, <3>2, <3>5, <3>6 DEF FinInv
  <2>3. CASE ~(fin.k < Len(fin.accounts))
    BY <1>2, <2>1, <2>3, OutsideFinInv DEF FinaliseDelete
  <2> QED
    BY <2>1, <2>2, <2>3
<1>3. CASE ProcessRegisteredToken(n) \/ ProcessNewPubkeyAddition(n)
           \/ ProcessDepositQueued(n) \/ ProcessDepositSubtreeCreated(n)
           \/ AddNewBatch(n) \/ RecordBatch(n) \/ NothingToFinalise(n)
  <2>1. UNCHANGED <<leaves, log, pc, fin>> /\ todo' = todo \ {n}
    BY <1>3 DEF ProcessRegisteredToken, ProcessNewPubkeyAddition, ProcessDepositQueued,
                ProcessDepositSubtreeCreated, AddNewBatch, RecordBatch,
                NothingToFinalise, Handled, chainVars, tables
  <2> QED
    BY <1>0, <2>1, OutsideFinInv
<1>4. CASE BatchInputPanics(n)
  BY <1>4, OutsideFinInv DEF BatchInputPanics, GoDown, tables
<1>5. CASE DropLog(n)
  BY <1>0, <1>5, OutsideFinInv DEF DropLog, chainVars, tables
<1>6. CASE FinaliseFails(n)
  BY <1>0, <1>6, OutsideFinInv DEF FinaliseFails, chainVars, tables
<1> QED
  BY <1>1, <1>2, <1>3, <1>4, <1>5, <1>6 DEF ProcessLog

LEMMA NextFinInv ==
    ASSUME ChainInv, FinInv, [Next]_vars
    PROVE  /\ FinInv'
           /\ \A l \in Leaf : leaves[l] # Zero => leaves'[l] = leaves[l]
<1>0. todo \subseteq DOMAIN log
  BY DEF FinInv
<1>1. CASE ChainStep
  <2>1. ChainGrows
    BY <1>1, ChainNextGrows DEF ChainStep
  <2> QED
    BY <1>0, <1>1, <2>1, OutsideFinInv DEF ChainStep, ChainGrows, tables, process
<1>2. CASE \/ \E h \in 1 .. head : ReceiveHeader(h)
           \/ NoNeedToSync \/ ProcessHeader \/ ProcessHeaderFails
  BY <1>0, <1>2, OutsideFinInv DEF ReceiveHeader, NoNeedToSync, ProcessHeader,
              ProcessHeaderFails, FilterLogs, chainVars, tables
<1>3. CASE RecordBlock \/ RecordBlockFails \/ Restart
  BY <1>0, <1>3, OutsideFinInv DEF RecordBlock, RecordBlockFails, Restart, chainVars, tables
<1>4. CASE \E n \in todo : ProcessLog(n) \/ DropLog(n) \/ FinaliseFails(n)
  BY <1>4, HandlerFinInv
<1>5. CASE FinaliseUpdate
  BY <1>5, UpdateFinInv
<1>6. CASE IndexOutOfRange \/ Crash
  BY <1>6, OutsideFinInv DEF IndexOutOfRange, Crash, GoDown, tables
<1>7. CASE UNCHANGED vars
  BY <1>0, <1>7, OutsideFinInv DEF vars, chainVars, tables, process
<1> QED
  BY <1>1, <1>2, <1>3, <1>4, <1>5, <1>6, <1>7 DEF Next, ProcessEvents, Faulty

\* FinaliseDeposits checks that its leaves are empty once, before the loop
\* that fills them; whatever happens in between (a crash, an error, the same
\* event again), no leaf that holds a state is ever written.
THEOREM LeavesAreNotOverwritten == Spec => NoLeafOverwritten
<1> DEFINE Kept == \A l \in Leaf : leaves[l] # Zero => leaves'[l] = leaves[l]
<1>1. Init => SyncInv /\ FinInv
  BY InitSyncInv, InitFinInv
<1>2. SyncInv /\ FinInv /\ [Next]_vars => (SyncInv /\ FinInv)' /\ [Kept]_vars
  <2> SUFFICES ASSUME SyncInv, FinInv, [Next]_vars PROVE SyncInv' /\ FinInv' /\ Kept
    OBVIOUS
  <2>1. SyncInv'
    BY NextSyncInv
  <2>2. ChainInv
    BY DEF SyncInv
  <2> QED
    BY <2>1, <2>2, NextFinInv
<1> QED
  BY <1>1, <1>2, PTL DEF Spec, NoLeafOverwritten

-----------------------------------------------------------------------------
(* The syncer implements a follower of the chain                           *)

\* The log is in the order of the blocks, and the list of processEvents holds
\* no log beyond its header: the logs before the first one on the list are
\* all accounted for.
FollowInv ==
    /\ \A m, n \in DOMAIN log : m < n => log[m].blk <= log[n].blk
    /\ todo \subseteq DOMAIN log
    /\ \A n \in todo : log[n].blk <= hdr

\* What most steps do to the state of the follower: nothing, or they account
\* for the first log on the list.
Delivers ==
    /\ UNCHANGED <<log, head, lastEth>>
    /\ todo' = {} \/ (todo' \subseteq todo /\ hdr' = hdr)
    /\ \/ UNCHANGED <<handled, dropped>>
       \/ \E n \in todo : /\ pc # "wait"
                          /\ \A m \in todo : n <= m
                          /\ handled' \cup dropped' = (handled \cup dropped) \cup {n}

LEMMA InitFollows == Init => FollowInv /\ Follower!Init
<1> SUFFICES ASSUME Init PROVE FollowInv /\ Follower!Init
  OBVIOUS
<1>1. log = <<[blk |-> 1, ev |-> NewBatch(0)]>>
  BY DEF Init, ChainInit
<1>2. DOMAIN log = {1}
  BY <1>1
<1>3. FollowInv
  BY <1>2 DEF FollowInv, Init
<1>4. Follower!Init
  BY DEF Init, ChainInit, Follower!Init
<1> QED
  BY <1>3, <1>4

LEMMA ChainStepFollows ==
    ASSUME SyncInv, FollowInv, ChainStep
    PROVE  FollowInv' /\ [Follower!Next]_(Follower!fvars)
<1>1. ChainInv /\ ChainInv' /\ ChainGrows
  BY ChainNextGrows DEF SyncInv, ChainStep
<1>2. UNCHANGED <<lastEth, hdr, todo, handled, dropped>>
  BY DEF ChainStep, tables, process, history
<1>3. /\ log \in Seq(Entry) /\ log' \in Seq(Entry) /\ head \in Nat
      /\ DOMAIN log = 1 .. Len(log) /\ DOMAIN log' = 1 .. Len(log')
      /\ Len(log) \in Nat /\ Len(log') \in Nat
  BY <1>1 DEF ChainInv, ChainTypeOK
<1>4. ASSUME NEW m \in DOMAIN log', NEW n \in DOMAIN log', m < n
      PROVE  log'[m].blk <= log'[n].blk
  <2>1. CASE n \in DOMAIN log
    <3>1. m \in DOMAIN log
      BY <1>3, <1>4, <2>1
    <3> QED
      BY <1>1, <1>4, <2>1, <3>1 DEF FollowInv, ChainGrows
  <2>2. CASE n \notin DOMAIN log
    <3>1. log'[n].blk = head + 1
      BY <1>1, <2>2 DEF ChainGrows
    <3>2. log'[m].blk <= head + 1
      <4>1. CASE m \in DOMAIN log
        BY <1>1, <4>1 DEF ChainGrows, ChainInv
      <4>2. CASE m \notin DOMAIN log
        BY <1>1, <1>3, <4>2 DEF ChainGrows
      <4> QED
        BY <4>1, <4>2
    <3> QED
      BY <3>1, <3>2
  <2> QED
    BY <2>1, <2>2
<1>5. FollowInv'
  BY <1>1, <1>2, <1>4 DEF FollowInv, ChainGrows
<1>6. CASE head' = head
  <2>1. Follower!Emit
    BY <1>1, <1>2, <1>6 DEF ChainGrows, Follower!Emit
  <2> QED
    BY <1>5, <2>1 DEF Follower!Next
<1>7. CASE head' = head + 1
  <2>1. log' = log
    BY <1>1, <1>3, <1>7 DEF ChainGrows
  <2>2. Follower!Mine
    BY <1>2, <1>7, <2>1 DEF Follower!Mine
  <2> QED
    BY <1>5, <2>2 DEF Follower!Next
<1> QED
  BY <1>1, <1>6, <1>7 DEF ChainGrows

LEMMA DeliversFollows ==
    ASSUME SyncInv, FollowInv, Delivers
    PROVE  FollowInv' /\ [Follower!Next]_(Follower!fvars)
<1>1. FollowInv'
  BY DEF FollowInv, Delivers
<1>2. CASE UNCHANGED <<handled, dropped>>
  BY <1>1, <1>2 DEF Delivers, Follower!fvars
<1>3. ASSUME NEW n \in todo, pc # "wait", \A m \in todo : n <= m,
             handled' \cup dropped' = (handled \cup dropped) \cup {n}
      PROVE  Follower!Next
  <2>1. /\ n \in DOMAIN log /\ log[n].blk <= hdr
        /\ hdr \in Nat /\ head \in Nat /\ hdr <= head
        /\ log \in Seq(Entry) /\ DOMAIN log = 1 .. Len(log) /\ Len(log) \in Nat
    BY DEF FollowInv, SyncInv, ChainInv, ChainTypeOK
  <2>2. \A m \in DOMAIN log : log[m].blk \in Nat
    BY EntryTypes DEF SyncInv
  <2>3. log[n].blk <= head
    BY <2>1, <2>2
  <2>4. ASSUME NEW m \in DOMAIN log, m < n
        PROVE  m \in handled \cup dropped
    <3>1. log[m].blk <= log[n].blk
      BY <2>1, <2>4 DEF FollowInv
    <3>2. log[m].blk <= hdr
      BY <2>1, <2>2, <3>1
    <3>3. m \in handled \cup dropped \cup todo
      BY <1>3, <3>2 DEF SyncInv, RangeInv
    <3>4. m \notin todo
      BY <1>3, <2>1, <2>4
    <3> QED
      BY <3>3, <3>4
  <2>5. Follower!Account(n)
    BY <1>3, <2>3, <2>4 DEF Delivers, Follower!Account
  <2> QED
    BY <2>1, <2>5 DEF Follower!Next
<1> QED
  BY <1>1, <1>2, <1>3 DEF Delivers

\* The header's logs are fetched; nothing shows outside.
LEMMA ProcessHeaderFollows ==
    ASSUME SyncInv, FollowInv, ProcessHeader
    PROVE  FollowInv' /\ [Follower!Next]_(Follower!fvars)
<1>1. /\ hdr' = held /\ held \in Nat /\ lastEth \in Nat
      /\ todo' = {n \in DOMAIN log : log[n].blk \in lastEth .. held}
      /\ UNCHANGED <<log, head, lastEth, handled, dropped>>
  BY DEF ProcessHeader, FilterLogs, chainVars, tables, history, SyncInv
<1>2. FollowInv'
  BY <1>1 DEF FollowInv
<1> QED
  BY <1>1, <1>2 DEF Follower!fvars

LEMMA RecordBlockFollows ==
    ASSUME SyncInv, FollowInv, RecordBlock
    PROVE  FollowInv' /\ [Follower!Next]_(Follower!fvars)
<1>1. /\ UNCHANGED <<log, head, handled, dropped>> /\ lastEth' = hdr
      /\ pc # "wait" /\ todo = {} /\ todo' = {}
  BY DEF RecordBlock, chainVars, history
<1>2. /\ lastEth < hdr /\ hdr \in Nat /\ lastEth \in Nat /\ head \in Nat /\ hdr <= head
      /\ \A n \in DOMAIN log : log[n].blk <= hdr => n \in handled \cup dropped
  BY <1>1 DEF SyncInv, RangeInv, ChainInv, ChainTypeOK
<1>3. Follower!Record(hdr) /\ hdr \in 1 .. head
  BY <1>1, <1>2 DEF Follower!Record
<1>4. FollowInv'
  BY <1>1 DEF FollowInv
<1> QED
  BY <1>3, <1>4 DEF Follower!Next

LEMMA HandlerDelivers ==
    ASSUME NEW n \in todo, ProcessLog(n) \/ DropLog(n) \/ FinaliseFails(n)
    PROVE  Delivers
<1>1. CASE ProcessRegisteredToken(n) \/ ProcessNewPubkeyAddition(n)
           \/ ProcessDepositQueued(n) \/ ProcessDepositSubtreeCreated(n)
           \/ AddNewBatch(n) \/ RecordBatch(n) \/ NothingToFinalise(n)
  <2>1. /\ UNCHANGED <<log, head, lastEth>>
        /\ Handled(n) /\ pc = "events" /\ \A m \in todo : n <= m
    BY <1>1 DEF ProcessRegisteredToken, ProcessNewPubkeyAddition, ProcessDepositQueued,
                ProcessDepositSubtreeCreated, AddNewBatch, RecordBatch,
                NothingToFinalise, NextLog, chainVars, tables
  <2> QED
    BY <2>1 DEF Delivers, Handled
<1>2. CASE BatchInputPanics(n)
  BY <1>2 DEF BatchInputPanics, GoDown, history, chainVars, tables, Delivers
<1>3. CASE BeginFinaliseDeposits(n)
  BY <1>3 DEF BeginFinaliseDeposits, history, chainVars, tables, Delivers
<1>4. CASE FinaliseDelete(n)
  BY <1>4 DEF FinaliseDelete, Handled, history, chainVars, Delivers
<1>5. CASE DropLog(n)
  BY <1>5 DEF DropLog, NextLog, chainVars, tables, Delivers
<1>6. CASE FinaliseFails(n)
  BY <1>6 DEF FinaliseFails, chainVars, tables, Delivers
<1> QED
  BY <1>1, <1>2, <1>3, <1>4, <1>5, <1>6 DEF ProcessLog

LEMMA NextFollows ==
    ASSUME SyncInv, FollowInv, [Next]_vars
    PROVE  FollowInv' /\ [Follower!Next]_(Follower!fvars)
<1>1. CASE ChainStep
  BY <1>1, ChainStepFollows
<1>2. CASE ProcessHeader
  BY <1>2, ProcessHeaderFollows
<1>3. CASE RecordBlock
  BY <1>3, RecordBlockFollows
<1>4. CASE \E n \in todo : ProcessLog(n) \/ DropLog(n) \/ FinaliseFails(n)
  BY <1>4, HandlerDelivers, DeliversFollows
<1>5. CASE \/ \E h \in 1 .. head : ReceiveHeader(h)
           \/ NoNeedToSync \/ ProcessHeaderFails \/ RecordBlockFails
           \/ FinaliseUpdate \/ Restart \/ UNCHANGED vars
  <2>1. Delivers
    BY <1>5 DEF ReceiveHeader, NoNeedToSync, ProcessHeaderFails, RecordBlockFails,
                FinaliseUpdate, Restart, vars, chainVars, tables, process, history, Delivers
  <2> QED
    BY <2>1, DeliversFollows
<1>6. CASE IndexOutOfRange \/ Crash
  <2>1. Delivers
    BY <1>6 DEF IndexOutOfRange, Crash, GoDown, chainVars, tables, history, Delivers
  <2> QED
    BY <2>1, DeliversFollows
<1> QED
  BY <1>1, <1>2, <1>3, <1>4, <1>5, <1>6 DEF Next, ProcessEvents, Faulty

\* The listener of listener/syncer.go, with its crashes, panics, ignored errors
\* and redeliveries, is a follower: seen through the logs accounted for and the
\* block recorded, it does nothing that LogFollower does not allow.
THEOREM SyncerFollowsTheChain == Spec => FollowsTheChain
<1>1. Init => SyncInv /\ FollowInv /\ Follower!Init
  BY InitSyncInv, InitFollows
<1>2. SyncInv /\ FollowInv /\ [Next]_vars
        => (SyncInv /\ FollowInv)' /\ [Follower!Next]_(Follower!fvars)
  BY NextSyncInv, NextFollows
<1> QED
  BY <1>1, <1>2, PTL DEF Spec, FollowsTheChain, Follower!Spec

-----------------------------------------------------------------------------
(* What a WHERE selects                                                     *)

\* Every set of natural numbers has a least element.
LEMMA LeastNumber ==
    ASSUME NEW T \in SUBSET Nat, T # {}
    PROVE  \E x \in T : \A y \in T : x <= y
<1> DEFINE R == OpToRel(<, Nat)
<1>1. \A x, y \in Nat : <<y, x>> \in R <=> y < x
  BY DEF OpToRel
<1>2. IsWellFoundedOn(R, Nat)
  BY NatLessThanWellFounded
<1> HIDE DEF R
<1>3. PICK x \in T : \A y \in T : ~(<<y, x>> \in R)
  BY <1>2, WFMin
<1>4. \A y \in T : ~(y < x)
  BY <1>1, <1>3
<1>5. \A y \in T : x <= y
  BY <1>4
<1> QED
  BY <1>5

\* Induction, for a set of numbers instead of a predicate.
LEMMA Induction ==
    ASSUME NEW S, 0 \in S, \A m \in Nat : m \in S => m + 1 \in S
    PROVE  Nat \subseteq S
<1> DEFINE T == Nat \ S
<1>1. SUFFICES ASSUME T # {}
               PROVE  FALSE
  OBVIOUS
<1>2. PICK x \in T : \A y \in T : x <= y
  BY <1>1, LeastNumber
<1>3. x - 1 \in Nat /\ x - 1 \notin T
  BY <1>2
<1>4. x - 1 + 1 \in S
  BY <1>3
<1> QED
  BY <1>4

\* The recursive definition of a selection has a solution.
Selection(table, K, g, k) ==
    IF k = 0 THEN <<>>
    ELSE IF k \in K THEN Append(g[k - 1], table[k]) ELSE g[k - 1]

LEMMA RowsAtDef ==
    ASSUME NEW table, NEW K, Len(table) \in Nat
    PROVE  \E g : /\ g = [k \in 0 .. Len(table) |-> Selection(table, K, g, k)]
                  /\ RowsAt(table, K) = g[Len(table)]
<1> DEFINE Body(g, k) == Selection(table, K, g, k)
           Rec(g, m) == g = [k \in 0 .. m |-> Body(g, k)]
           S == {m \in Nat : \E g : Rec(g, m)}
<1>1. ASSUME NEW f, NEW g, NEW k \in Nat, k # 0 => f[k - 1] = g[k - 1]
      PROVE  Body(f, k) = Body(g, k)
  BY <1>1 DEF Selection
<1> HIDE DEF Body
<1>2. 0 \in S
  <2> DEFINE g == [k \in 0 .. 0 |-> Body(<<>>, k)]
  <2>1. \A k \in 0 .. 0 : Body(<<>>, k) = Body(g, k)
    BY <1>1
  <2>2. g = [k \in 0 .. 0 |-> Body(g, k)]
    BY <2>1
  <2> QED
    BY <2>2
<1>3. ASSUME NEW m \in Nat, m \in S
      PROVE  m + 1 \in S
  <2>1. PICK f : Rec(f, m)
    BY <1>3
  <2> DEFINE g == [k \in 0 .. m + 1 |-> IF k = m + 1 THEN Body(f, m + 1) ELSE f[k]]
  <2>2. \A k \in 0 .. m : g[k] = f[k]
    OBVIOUS
  <2>3. \A k \in 0 .. m : f[k] = Body(f, k)
    BY <2>1
  <2>4. \A k \in 0 .. m + 1 : g[k] = Body(f, k)
    BY <2>3
  <2>5. ASSUME NEW k \in 0 .. m + 1
        PROVE  Body(f, k) = Body(g, k)
    <3>1. k \in Nat /\ (k # 0 => f[k - 1] = g[k - 1])
      BY <2>2
    <3> HIDE DEF g
    <3> QED
      BY <1>1, <3>1
  <2>6. g = [k \in 0 .. m + 1 |-> Body(g, k)]
    BY <2>4, <2>5
  <2> HIDE DEF g
  <2>7. Rec(g, m + 1)
    BY <2>6
  <2> QED
    BY <2>7
<1>4. Len(table) \in S
  <2> HIDE DEF S
  <2>1. Nat \subseteq S
    BY <1>2, <1>3, Induction
  <2> QED
    BY <2>1
<1>5. PICK h : Rec(h, Len(table))
  BY <1>4
<1> DEFINE C == CHOOSE f : Rec(f, Len(table))
<1>6. RowsAt(table, K) = C[Len(table)]
  BY DEF RowsAt, Body, Selection
<1> HIDE DEF Rec
<1>7. Rec(C, Len(table))
  BY <1>5
<1> HIDE DEF C
<1>8. C = [k \in 0 .. Len(table) |-> Selection(table, K, C, k)]
  BY <1>7 DEF Rec, Body
<1> QED
  BY <1>6, <1>8

\* A selection has the rows of the table at the positions selected, and no other.
LEMMA RowsAtSelects ==
    ASSUME NEW T, NEW table \in Seq(T), NEW K \in SUBSET DOMAIN table
    PROVE  /\ RowsAt(table, K) \in Seq(T)
           /\ \A k \in K : \E j \in DOMAIN RowsAt(table, K) : RowsAt(table, K)[j] = table[k]
           /\ \A j \in DOMAIN RowsAt(table, K) : \E k \in K : RowsAt(table, K)[j] = table[k]
<1>1. Len(table) \in Nat /\ DOMAIN table = 1 .. Len(table)
  OBVIOUS
<1>2. PICK g : /\ g = [k \in 0 .. Len(table) |-> Selection(table, K, g, k)]
               /\ RowsAt(table, K) = g[Len(table)]
  BY <1>1, RowsAtDef
<1> DEFINE Has(s, m) ==
               /\ s \in Seq(T)
               /\ \A k \in K : k <= m => \E j \in DOMAIN s : s[j] = table[k]
               /\ \A j \in DOMAIN s : \E k \in K : s[j] = table[k]
           S == {m \in Nat : m <= Len(table) => Has(g[m], m)}
<1>3. \A k \in 0 .. Len(table) : g[k] = Selection(table, K, g, k)
  BY <1>2
<1>4. 0 \in S
  <2>1. g[0] = <<>>
    BY <1>1, <1>3 DEF Selection
  <2>2. \A k \in K : ~(k <= 0)
    BY <1>1
  <2>3. <<>> \in Seq(T) /\ DOMAIN <<>> = {}
    OBVIOUS
  <2>4. Has(<<>>, 0)
    BY <2>2, <2>3
  <2> QED
    BY <2>1, <2>4
<1>5. ASSUME NEW m \in Nat, m \in S, m + 1 <= Len(table)
      PROVE  Has(g[m + 1], m + 1)
  <2>1. m <= Len(table) /\ m + 1 \in 0 .. Len(table) /\ m + 1 # 0 /\ m + 1 - 1 = m
        /\ m + 1 \in DOMAIN table
    BY <1>1, <1>5
  <2>2. Has(g[m], m)
    BY <1>5, <2>1
  <2>3. g[m + 1] = IF m + 1 \in K THEN Append(g[m], table[m + 1]) ELSE g[m]
    BY <1>3, <2>1 DEF Selection
  <2>4. \A k \in K : k \in Nat /\ (k <= m + 1 => k <= m \/ k = m + 1)
    BY <1>1
  <2>5. CASE m + 1 \notin K
    <3>1. g[m + 1] = g[m]
      BY <2>3, <2>5
    <3> QED
      BY <2>2, <2>4, <2>5, <3>1
  <2>6. CASE m + 1 \in K
    <3> DEFINE s == g[m]
               r == table[m + 1]
               t == Append(s, r)
    <3>1. g[m + 1] = t
      BY <2>3, <2>6
    <3>2. s \in Seq(T) /\ r \in T
      BY <2>1, <2>2
    <3>3. /\ t \in Seq(T)
          /\ DOMAIN t = 1 .. Len(s) + 1 /\ DOMAIN s = 1 .. Len(s) /\ Len(s) \in Nat
          /\ t[Len(s) + 1] = r
          /\ \A j \in 1 .. Len(s) : t[j] = s[j]
      BY <3>2
    <3>4. ASSUME NEW k \in K, k <= m + 1
          PROVE  \E j \in DOMAIN t : t[j] = table[k]
      <4>1. CASE k <= m
        <5>1. PICK j \in DOMAIN s : s[j] = table[k]
          BY <2>2, <4>1
        <5>2. j \in DOMAIN t /\ t[j] = s[j]
          BY <3>3
        <5> QED
          BY <5>1, <5>2
      <4>2. CASE k = m + 1
        <5>1. Len(s) + 1 \in DOMAIN t
          BY <3>3
        <5> QED
          BY <3>3, <4>2, <5>1
      <4> QED
        BY <2>4, <3>4, <4>1, <4>2
    <3>5. ASSUME NEW j \in DOMAIN t
          PROVE  \E k \in K : t[j] = table[k]
      <4>1. CASE j = Len(s) + 1
        BY <2>6, <3>3, <4>1
      <4>2. CASE j # Len(s) + 1
        <5>1. j \in DOMAIN s /\ t[j] = s[j]
          BY <3>3, <4>2
        <5> QED
          BY <2>2, <5>1
      <4> QED
        BY <4>1, <4>2
    <3>6. Has(t, m + 1)
      <4>1. t \in Seq(T)
        BY <3>3
      <4>2. \A k \in K : k <= m + 1 => \E j \in DOMAIN t : t[j] = table[k]
        BY ONLY <3>4
      <4>3. \A j \in DOMAIN t : \E k \in K : t[j] = table[k]
        BY ONLY <3>5
      <4> QED
        BY ONLY <4>1, <4>2, <4>3
    <3> QED
      BY ONLY <3>1, <3>6
  <2> QED
    BY <2>5, <2>6
<1>6. Len(table) \in S
  <2>1. \A m \in Nat : m \in S => m + 1 \in S
    BY <1>5
  <2> HIDE DEF S
  <2>2. Nat \subseteq S
    BY <1>4, <2>1, Induction
  <2> QED
    BY <1>1, <2>2
<1>7. Has(RowsAt(table, K), Len(table))
  BY <1>1, <1>2, <1>6
<1>8. \A k \in K : k <= Len(table)
  BY <1>1
<1> QED
  BY <1>7, <1>8

-----------------------------------------------------------------------------
(* Types                                                                    *)

TableTypes ==
    /\ lastBatch \in Nat
    /\ batches \in Seq(Nat) /\ tokens \in Seq(Nat) /\ pending \in Seq(Row)
    /\ leaves \in [Leaf -> Int]

FinType == [accounts : Seq(Row), terminalNodes : Seq(Int), k : Nat]

ProcessTypes ==
    /\ up \in BOOLEAN
    /\ pc \in {"wait", "events", "update", "delete"}
    /\ todo \subseteq DOMAIN log
    /\ fin \in FinType
    /\ handled \subseteq DOMAIN log /\ dropped \subseteq DOMAIN log

\* While FinaliseDeposits runs, it works for the first log on the list, a
\* finalisation, and its index is that of one of its accounts.
LoopInv ==
    pc \in {"update", "delete"} =>
        /\ fin.k \in 1 .. Len(fin.accounts)
        /\ \E n \in todo : /\ \A m \in todo : n <= m
                           /\ log[n].ev.type = "DepositsFinalised"
                           /\ fin.terminalNodes = GetAllTerminalNodes(log[n].ev.subtree)

TypeInv == TableTypes /\ ProcessTypes /\ LoopInv

\* What the fields of an event are.
LEMMA EventFields ==
    ASSUME ChainInv, NEW n \in DOMAIN log
    PROVE  /\ log[n].ev.type = "NewBatch" => log[n].ev.index \in Nat
           /\ log[n].ev.type = "RegisteredToken" => log[n].ev.token \in Nat
           /\ log[n].ev.type = "DepositQueued" =>
                 log[n].ev.acct \in Nat /\ log[n].ev.deposit \in Nat \ {0}
           /\ log[n].ev.type = "DepositSubTreeReady" => log[n].ev.root \in Nat
           /\ log[n].ev.type = "DepositsFinalised" =>
                 log[n].ev.root \in Nat /\ log[n].ev.subtree \in Leaf
<1> DEFINE e == log[n].ev
<1>1. e \in Event
  BY EntryTypes
<1> HIDE DEF e
<1>2. e.type = "NewBatch" => e.index \in Nat
  BY <1>1 DEF Event
<1>3. e.type = "RegisteredToken" => e.token \in Nat
  BY <1>1 DEF Event
<1>4. e.type = "DepositQueued" => e.acct \in Nat /\ e.deposit \in Nat \ {0}
  BY <1>1 DEF Event
<1>5. e.type = "DepositSubTreeReady" => e.root \in Nat
  BY <1>1 DEF Event
<1>6. e.type = "DepositsFinalised" => e.root \in Nat /\ e.subtree \in Leaf
  BY <1>1 DEF Event
<1> QED
  BY <1>2, <1>3, <1>4, <1>5, <1>6 DEF e

LEMMA InitTypeInv == Init => TypeInv
<1> SUFFICES ASSUME Init PROVE TypeInv
  OBVIOUS
<1>1. EmptyLeaves \subseteq Int /\ GenesisState \in Int
  BY SyncerAssumption DEF Zero, Blank, GenesisState
<1>2. leaves \in [Leaf -> Int]
  BY <1>1 DEF Init
<1>3. TableTypes
  BY <1>2 DEF Init, TableTypes
<1>4. NoFin \in FinType
  BY DEF NoFin, FinType
<1>5. ProcessTypes
  BY <1>4 DEF Init, ProcessTypes
<1> QED
  BY <1>3, <1>5 DEF TypeInv, LoopInv, Init

\* A selection of the pending rows is a list of rows.
LEMMA SelectionType ==
    ASSUME pending \in Seq(Row)
    PROVE  /\ \A r : GetPendingAccByDepositRoot(r) \in Seq(Row)
           /\ \A a : DeletePendingAccount(a) \in Seq(Row)
<1>1. ASSUME NEW r PROVE GetPendingAccByDepositRoot(r) \in Seq(Row)
  <2> DEFINE K == {k \in DOMAIN pending : pending[k].root = r}
  <2>1. K \in SUBSET DOMAIN pending
    OBVIOUS
  <2>2. RowsAt(pending, K) \in Seq(Row)
    BY <2>1, RowsAtSelects
  <2> QED
    BY <2>2 DEF GetPendingAccByDepositRoot
<1>2. ASSUME NEW a PROVE DeletePendingAccount(a) \in Seq(Row)
  <2> DEFINE K == {k \in DOMAIN pending : pending[k].acct # a}
  <2>1. K \in SUBSET DOMAIN pending
    OBVIOUS
  <2>2. RowsAt(pending, K) \in Seq(Row)
    BY <2>1, RowsAtSelects
  <2> QED
    BY <2>2 DEF DeletePendingAccount
<1> QED
  BY <1>1, <1>2

\* The handlers that end with the log they were given, and how the first log
\* on the list leaves it.
Simple(n) ==
    \/ ProcessRegisteredToken(n) \/ ProcessNewPubkeyAddition(n)
    \/ ProcessDepositQueued(n) \/ ProcessDepositSubtreeCreated(n)
    \/ AddNewBatch(n) \/ RecordBatch(n) \/ NothingToFinalise(n)

LEMMA SimpleFrame ==
    ASSUME NEW n \in todo, Simple(n)
    PROVE  /\ UNCHANGED <<log, head, leaves, pc, fin, up, dropped>>
           /\ pc = "events" /\ \A m \in todo : n <= m
           /\ todo' = todo \ {n} /\ handled' = handled \cup {n}
BY DEF Simple, ProcessRegisteredToken, ProcessNewPubkeyAddition, ProcessDepositQueued,
       ProcessDepositSubtreeCreated, AddNewBatch, RecordBatch, NothingToFinalise,
       NextLog, Handled, chainVars, tables

LEMMA SimpleTables ==
    ASSUME ChainInv, TypeInv, NEW n \in todo, Simple(n)
    PROVE  TableTypes'
<1>0. TableTypes /\ n \in DOMAIN log
  BY DEF TypeInv, ProcessTypes
<1>1. CASE ProcessRegisteredToken(n)
  <2>1. /\ tokens' = Append(tokens, log[n].ev.token) /\ log[n].ev.type = "RegisteredToken"
        /\ UNCHANGED <<lastBatch, batches, pending, leaves>>
    BY <1>1 DEF ProcessRegisteredToken, AddToken, NextLog
  <2>2. log[n].ev.token \in Nat
    BY <1>0, <2>1, EventFields
  <2> QED
    BY <1>0, <2>1, <2>2 DEF TableTypes
<1>2. CASE ProcessNewPubkeyAddition(n) \/ NothingToFinalise(n)
  BY <1>0, <1>2 DEF ProcessNewPubkeyAddition, NothingToFinalise, tables, TableTypes
<1>3. CASE ProcessDepositQueued(n)
  <2> DEFINE row == NewPendingUserState(log[n].ev.acct, log[n].ev.deposit)
  <2>1. /\ pending' = Append(pending, row) /\ log[n].ev.type = "DepositQueued"
        /\ UNCHANGED <<lastBatch, batches, tokens, leaves>>
    BY <1>3 DEF ProcessDepositQueued, NextLog
  <2>2. row \in Row
    BY <1>0, <2>1, EventFields DEF NewPendingUserState, Row
  <2> QED
    BY <1>0, <2>1, <2>2 DEF TableTypes
<1>4. CASE ProcessDepositSubtreeCreated(n)
  <2>1. /\ pending' = AttachDepositInfo(log[n].ev.root)
        /\ log[n].ev.type = "DepositSubTreeReady"
        /\ UNCHANGED <<lastBatch, batches, tokens, leaves>>
    BY <1>4 DEF ProcessDepositSubtreeCreated, NextLog
  <2>2. log[n].ev.root \in Nat
    BY <1>0, <2>1, EventFields
  <2>3. AttachDepositInfo(log[n].ev.root) \in [1 .. Len(pending) -> Row]
    <3>1. DOMAIN pending = 1 .. Len(pending) /\ \A k \in DOMAIN pending : pending[k] \in Row
      BY <1>0 DEF TableTypes
    <3>2. \A k \in DOMAIN pending : [pending[k] EXCEPT !.root = log[n].ev.root] \in Row
      BY <2>2, <3>1 DEF Row
    <3> QED
      BY <3>1, <3>2 DEF AttachDepositInfo
  <2>4. pending' \in Seq(Row)
    <3>1. Len(pending) \in Nat
      BY <1>0 DEF TableTypes
    <3> QED
      BY <2>1, <2>3, <3>1, FunctionIsSeq
  <2> QED
    BY <1>0, <2>1, <2>4 DEF TableTypes
<1>5. CASE AddNewBatch(n)
  <2>1. /\ batches' = Append(batches, log[n].ev.index) /\ log[n].ev.type = "NewBatch"
        /\ UNCHANGED <<lastBatch, tokens, pending, leaves>>
    BY <1>5 DEF AddNewBatch, NextLog
  <2>2. log[n].ev.index \in Nat
    BY <1>0, <2>1, EventFields
  <2> QED
    BY <1>0, <2>1, <2>2 DEF TableTypes
<1>6. CASE RecordBatch(n)
  <2>1. /\ lastBatch' \in {lastBatch, log[n].ev.index} /\ log[n].ev.type = "NewBatch"
        /\ UNCHANGED <<batches, tokens, pending, leaves>>
    BY <1>6 DEF RecordBatch, UpdateSyncStatusWithBatchNumber, NextLog
  <2>2. log[n].ev.index \in Nat
    BY <1>0, <2>1, EventFields
  <2> QED
    BY <1>0, <2>1, <2>2 DEF TableTypes
<1> QED
  BY <1>1, <1>2, <1>3, <1>4, <1>5, <1>6 DEF Simple

\* A step outside FinaliseDeposits, or one that leaves its locals alone.
LEMMA FrameTypeInv ==
    ASSUME TypeInv, TableTypes', ProcessTypes',
           pc' \notin {"update", "delete"} \/ (UNCHANGED <<pc, fin, todo>> /\
               \A n \in todo : log'[n] = log[n])
    PROVE  TypeInv'
BY DEF TypeInv, LoopInv

LEMMA FinaliseTypeInv ==
    ASSUME ChainInv, TypeInv, NEW n \in todo,
           BeginFinaliseDeposits(n) \/ FinaliseDelete(n)
    PROVE  TypeInv'
<1>0. /\ TableTypes /\ ProcessTypes /\ n \in DOMAIN log
      /\ pending \in Seq(Row) /\ fin \in FinType
  BY DEF TypeInv, ProcessTypes, TableTypes
<1>1. CASE BeginFinaliseDeposits(n)
  <2> DEFINE nodes == GetAllTerminalNodes(log[n].ev.subtree)
             accounts == GetPendingAccByDepositRoot(log[n].ev.root)
  <2>1. /\ log[n].ev.type = "DepositsFinalised" /\ \A m \in todo : n <= m
        /\ accounts # <<>>
        /\ fin' = [accounts |-> accounts, terminalNodes |-> nodes, k |-> 1]
        /\ pc' = "update"
        /\ UNCHANGED <<log, lastBatch, batches, tokens, pending, leaves, up, todo,
                       handled, dropped>>
    BY <1>1 DEF BeginFinaliseDeposits, NextLog, chainVars, tables, history
  <2>2. TableTypes'
    BY <1>0, <2>1 DEF TableTypes
  <2>3. accounts \in Seq(Row)
    BY <1>0, SelectionType
  <2>4. nodes \in Seq(Int)
    <3>1. log[n].ev.subtree \in Int
      BY <1>0, <2>1, SubtreeIsInt
    <3> QED
      BY <3>1 DEF GetAllTerminalNodes
  <2> HIDE DEF accounts, nodes
  <2>5. fin' \in FinType
    BY <2>1, <2>3, <2>4 DEF FinType
  <2>6. ProcessTypes'
    BY <1>0, <2>1, <2>5 DEF ProcessTypes
  <2>7. 1 \in 1 .. Len(accounts)
    BY <2>1, <2>3
  <2>8. LoopInv'
    BY <2>1, <2>7 DEF LoopInv, nodes
  <2> QED
    BY <2>2, <2>6, <2>8 DEF TypeInv
<1>2. CASE FinaliseDelete(n)
  <2>1. /\ pc = "delete" /\ pending' = DeletePendingAccount(fin.accounts[fin.k].acct)
        /\ UNCHANGED <<log, lastBatch, batches, tokens, leaves, up>>
    BY <1>2 DEF FinaliseDelete, Handled, chainVars
  <2>2. pending' \in Seq(Row)
    BY <1>0, <2>1, SelectionType
  <2>3. TableTypes'
    BY <1>0, <2>1, <2>2 DEF TableTypes
  <2>4. CASE fin.k < Len(fin.accounts)
    <3>1. /\ pc' = "update" /\ fin' = [fin EXCEPT !.k = @ + 1]
          /\ UNCHANGED <<todo, handled, dropped>>
      BY <1>2, <2>4 DEF FinaliseDelete, history
    <3>2. /\ fin' \in FinType /\ fin'.accounts = fin.accounts
          /\ fin'.terminalNodes = fin.terminalNodes /\ fin'.k = fin.k + 1
      <4>1. /\ fin = [accounts |-> fin.accounts, terminalNodes |-> fin.terminalNodes, k |-> fin.k]
            /\ fin.accounts \in Seq(Row) /\ fin.terminalNodes \in Seq(Int) /\ fin.k \in Nat
        BY <1>0 DEF FinType
      <4>2. fin' = [accounts |-> fin.accounts, terminalNodes |-> fin.terminalNodes,
                    k |-> fin.k + 1]
        BY <3>1, <4>1
      <4> QED
        BY <4>1, <4>2 DEF FinType
    <3>3. ProcessTypes'
      BY <1>0, <2>1, <3>1, <3>2 DEF ProcessTypes
    <3>4. fin.k \in Nat /\ Len(fin.accounts) \in Nat
      BY <1>0 DEF FinType
    <3>5. fin'.k \in 1 .. Len(fin'.accounts)
      BY <2>4, <3>2, <3>4
    <3>6. LoopInv'
      BY <2>1, <3>1, <3>2, <3>5 DEF TypeInv, LoopInv
    <3> QED
      BY <2>3, <3>3, <3>6 DEF TypeInv
  <2>5. CASE ~(fin.k < Len(fin.accounts))
    <3>1. /\ pc' = "events" /\ fin' = NoFin /\ UNCHANGED dropped
          /\ todo' = todo \ {n} /\ handled' = handled \cup {n}
      BY <1>2, <2>5 DEF FinaliseDelete, Handled
    <3>2. NoFin \in FinType
      BY DEF NoFin, FinType
    <3>3. ProcessTypes'
      BY <1>0, <2>1, <3>1, <3>2 DEF ProcessTypes
    <3> QED
      BY <2>3, <3>1, <3>3, FrameTypeInv
  <2> QED
    BY <2>4, <2>5
<1> QED
  BY <1>1, <1>2

LEMMA UpdateTypeInv ==
    ASSUME TypeInv, FinaliseUpdate
    PROVE  TypeInv'
<1>0. TableTypes /\ ProcessTypes /\ LoopInv /\ fin \in FinType
  BY DEF TypeInv, ProcessTypes
<1> DEFINE v == fin.accounts[fin.k].deposit
<1>1. /\ leaves' = [leaves EXCEPT ![fin.terminalNodes[fin.k]] = v]
      /\ pc = "update" /\ pc' = "delete"
      /\ UNCHANGED <<log, lastBatch, batches, tokens, pending, up, todo, fin, handled, dropped>>
  BY DEF FinaliseUpdate, chainVars, history
<1>2. fin.k \in 1 .. Len(fin.accounts) /\ fin.accounts \in Seq(Row)
  BY <1>0, <1>1 DEF LoopInv, FinType
<1>3. v \in Int
  <2>1. fin.accounts[fin.k] \in Row
    BY <1>2
  <2> QED
    BY <2>1 DEF Row
<1>4. leaves' \in [Leaf -> Int]
  BY <1>0, <1>1, <1>3 DEF TableTypes
<1>5. TableTypes'
  BY <1>0, <1>1, <1>4 DEF TableTypes
<1>6. ProcessTypes'
  BY <1>0, <1>1 DEF ProcessTypes
<1>7. LoopInv'
  BY <1>0, <1>1 DEF LoopInv
<1> QED
  BY <1>5, <1>6, <1>7 DEF TypeInv

LEMMA GoDownTypeInv ==
    ASSUME TypeInv, GoDown
    PROVE  TypeInv'
<1>1. TableTypes'
  BY DEF TypeInv, TableTypes, GoDown, tables
<1>2. NoFin \in FinType
  BY DEF NoFin, FinType
<1>3. ProcessTypes'
  BY <1>2 DEF TypeInv, ProcessTypes, GoDown, chainVars
<1> QED
  BY <1>1, <1>3, FrameTypeInv DEF GoDown

LEMMA NextTypeInv ==
    ASSUME ChainInv, TypeInv, [Next]_vars
    PROVE  TypeInv'
<1>0. TableTypes /\ ProcessTypes /\ NoFin \in FinType
  BY DEF TypeInv, NoFin, FinType
<1>1. CASE ChainStep
  <2>1. ChainGrows
    BY <1>1, ChainNextGrows DEF ChainStep
  <2>2. TableTypes' /\ ProcessTypes'
    BY <1>0, <1>1, <2>1
       DEF ChainStep, ChainGrows, TableTypes, ProcessTypes, tables, process, history
  <2>3. UNCHANGED <<pc, fin, todo>> /\ \A n \in todo : log'[n] = log[n]
    BY <1>0, <1>1, <2>1 DEF ChainStep, ChainGrows, ProcessTypes, process
  <2> QED
    BY <2>2, <2>3, FrameTypeInv
<1>2. CASE (\E h \in 1 .. head : ReceiveHeader(h)) \/ NoNeedToSync \/ ProcessHeaderFails
  <2>1. UNCHANGED <<log, tables, up, pc, todo, fin, handled, dropped>>
    BY <1>2 DEF ReceiveHeader, NoNeedToSync, ProcessHeaderFails, chainVars, history
  <2> QED
    BY <1>0, <2>1, FrameTypeInv DEF TableTypes, ProcessTypes, tables
<1>3. CASE ProcessHeader
  <2>1. /\ UNCHANGED <<log, tables, up, fin, handled, dropped>>
        /\ pc' = "events" /\ todo' \subseteq DOMAIN log
    BY <1>3 DEF ProcessHeader, FilterLogs, chainVars, history
  <2> QED
    BY <1>0, <2>1, FrameTypeInv DEF TableTypes, ProcessTypes, tables
<1>4. CASE RecordBlock \/ RecordBlockFails
  <2>1. /\ UNCHANGED <<log, lastBatch, batches, tokens, pending, leaves,
                       up, todo, fin, handled, dropped>>
        /\ pc' = "wait"
    BY <1>4 DEF RecordBlock, RecordBlockFails, chainVars, tables, history
  <2> QED
    BY <1>0, <2>1, FrameTypeInv DEF TableTypes, ProcessTypes
<1>5. CASE Restart
  <2>1. up' = TRUE /\ UNCHANGED <<log, tables, pc, todo, fin, handled, dropped>>
    BY <1>5 DEF Restart, chainVars, history
  <2> QED
    BY <1>0, <2>1, FrameTypeInv DEF TableTypes, ProcessTypes, tables
<1>6. ASSUME NEW n \in todo, ProcessLog(n) \/ DropLog(n) \/ FinaliseFails(n)
      PROVE  TypeInv'
  <2>1. CASE Simple(n)
    <3>1. ProcessTypes'
      BY <1>0, <2>1, SimpleFrame DEF ProcessTypes
    <3> QED
      BY <2>1, <3>1, SimpleTables, SimpleFrame, FrameTypeInv
  <2>2. CASE BatchInputPanics(n)
    BY <2>2, GoDownTypeInv DEF BatchInputPanics
  <2>3. CASE BeginFinaliseDeposits(n) \/ FinaliseDelete(n)
    BY <2>3, FinaliseTypeInv
  <2>4. CASE DropLog(n)
    <3>1. /\ UNCHANGED <<log, tables, up, pc, fin, handled>> /\ pc' = "events"
          /\ todo' = todo \ {n} /\ dropped' = dropped \cup {n}
      BY <2>4 DEF DropLog, NextLog, chainVars
    <3> QED
      BY <1>0, <3>1, FrameTypeInv DEF TableTypes, ProcessTypes, tables
  <2>5. CASE FinaliseFails(n)
    <3>1. /\ UNCHANGED <<log, tables, up, handled>> /\ pc' = "events" /\ fin' = NoFin
          /\ todo' = todo \ {n} /\ dropped' = dropped \cup {n}
      BY <2>5 DEF FinaliseFails, chainVars
    <3> QED
      BY <1>0, <3>1, FrameTypeInv DEF TableTypes, ProcessTypes, tables
  <2> QED
    BY <1>6, <2>1, <2>2, <2>3, <2>4, <2>5 DEF ProcessLog, Simple
<1>7. CASE FinaliseUpdate
  BY <1>7, UpdateTypeInv
<1>8. CASE IndexOutOfRange \/ Crash
  BY <1>8, GoDownTypeInv DEF IndexOutOfRange, Crash
<1>9. CASE UNCHANGED vars
  <2>1. UNCHANGED <<log, tables, up, pc, todo, fin, handled, dropped>>
    BY <1>9 DEF vars, chainVars, process, history
  <2> QED
    BY <1>0, <2>1, FrameTypeInv DEF TableTypes, ProcessTypes, tables
<1> QED
  BY <1>1, <1>2, <1>3, <1>4, <1>5, <1>6, <1>7, <1>8, <1>9
     DEF Next, ProcessEvents, Faulty

\* The tables and the locals of the syncer keep their types; in particular the loop
\* of FinaliseDeposits never indexes its accounts beyond their end.
THEOREM SyncerTypes == Spec => []TypeOK
<1>1. Init => SyncInv /\ TypeInv
  BY InitSyncInv, InitTypeInv
<1>2. SyncInv /\ TypeInv /\ [Next]_vars => (SyncInv /\ TypeInv)'
  BY NextSyncInv, NextTypeInv DEF SyncInv
<1>3. SyncInv /\ TypeInv => TypeOK
  BY DEF SyncInv, ChainInv, TypeInv, TableTypes, ProcessTypes, FinType, TypeOK
<1> QED
  BY <1>1, <1>2, <1>3, PTL DEF Spec

-----------------------------------------------------------------------------
(* Steps by what they do to the tables                                      *)

\* A step that changes none of the tables below, and does not enter the loop of
\* FinaliseDeposits.
Calm ==
    /\ UNCHANGED <<batches, pending, leaves, handled>>
    /\ head <= head'
    /\ DOMAIN log \subseteq DOMAIN log' /\ \A n \in DOMAIN log : log'[n] = log[n]
    /\ pc' \notin {"update", "delete"} \/ UNCHANGED <<pc, fin, todo>>

LEMMA StepCases ==
    ASSUME ChainInv, [Next]_vars
    PROVE  \/ Calm
           \/ FinaliseUpdate
           \/ \E n \in todo : Simple(n) \/ BeginFinaliseDeposits(n) \/ FinaliseDelete(n)
<1>0. head \in Nat
  BY DEF ChainInv, ChainTypeOK
<1>1. CASE ChainStep
  <2>1. ChainGrows
    BY <1>1, ChainNextGrows DEF ChainStep
  <2>2. head <= head'
    BY <1>0, <2>1 DEF ChainGrows
  <2> QED
    BY <1>1, <2>1, <2>2 DEF ChainStep, ChainGrows, Calm, tables, process, history
<1>2. CASE \/ \E h \in 1 .. head : ReceiveHeader(h)
           \/ NoNeedToSync \/ ProcessHeader \/ ProcessHeaderFails
           \/ RecordBlock \/ RecordBlockFails \/ Restart \/ UNCHANGED vars
  <2>1. /\ UNCHANGED <<log, head, batches, pending, leaves, handled>>
        /\ pc' \notin {"update", "delete"} \/ UNCHANGED <<pc, fin, todo>>
    BY <1>2 DEF ReceiveHeader, NoNeedToSync, ProcessHeader, ProcessHeaderFails, RecordBlock,
                RecordBlockFails, Restart, vars, chainVars, tables, process, history
  <2> QED
    BY <1>0, <2>1 DEF Calm
<1>3. CASE IndexOutOfRange \/ Crash \/ \E n \in todo : BatchInputPanics(n)
  <2>1. UNCHANGED <<log, head, batches, pending, leaves, handled>> /\ pc' = "wait"
    BY <1>3 DEF IndexOutOfRange, Crash, BatchInputPanics, GoDown, chainVars, tables, history
  <2> QED
    BY <1>0, <2>1 DEF Calm
<1>4. CASE \E n \in todo : DropLog(n) \/ FinaliseFails(n)
  <2>1. UNCHANGED <<log, head, batches, pending, leaves, handled>> /\ pc' = "events"
    BY <1>4 DEF DropLog, FinaliseFails, NextLog, chainVars, tables
  <2> QED
    BY <1>0, <2>1 DEF Calm
<1> QED
  BY <1>1, <1>2, <1>3, <1>4 DEF Next, ProcessEvents, Faulty, ProcessLog, Simple

\* What the steps of FinaliseDeposits leave alone, and what log they are about.
LEMMA FinaliseFrame ==
    ASSUME ChainInv, TypeInv
    PROVE  /\ FinaliseUpdate => UNCHANGED <<log, head, batches, pending, handled, fin, todo>>
           /\ \A n \in todo : BeginFinaliseDeposits(n) =>
                 /\ UNCHANGED <<log, head, batches, pending, leaves, handled, todo>>
                 /\ pc' = "update"
           /\ \A n \in todo : FinaliseDelete(n) =>
                 /\ UNCHANGED <<log, head, batches, leaves>>
                 /\ log[n].ev.type = "DepositsFinalised"
                 /\ handled' \subseteq handled \cup {n}
<1>1. FinaliseUpdate => UNCHANGED <<log, head, batches, pending, handled, fin, todo>>
  BY DEF FinaliseUpdate, chainVars, history
<1>2. ASSUME NEW n \in todo, BeginFinaliseDeposits(n)
      PROVE  /\ UNCHANGED <<log, head, batches, pending, leaves, handled, todo>>
             /\ pc' = "update"
  BY <1>2 DEF BeginFinaliseDeposits, chainVars, tables, history
<1>3. ASSUME NEW n \in todo, FinaliseDelete(n)
      PROVE  /\ UNCHANGED <<log, head, batches, leaves>>
             /\ log[n].ev.type = "DepositsFinalised"
             /\ handled' \subseteq handled \cup {n}
  <2>1. /\ UNCHANGED <<log, head, batches, leaves>>
        /\ pc = "delete" /\ \A m \in todo : n <= m
        /\ handled' \subseteq handled \cup {n}
    BY <1>3 DEF FinaliseDelete, Handled, chainVars, history
  <2>2. PICK m \in todo : (\A x \in todo : m <= x) /\ log[m].ev.type = "DepositsFinalised"
    BY <2>1 DEF TypeInv, LoopInv
  <2>3. m \in DOMAIN log /\ n \in DOMAIN log /\ m <= n /\ n <= m
    BY <2>1, <2>2 DEF TypeInv, ProcessTypes
  <2>4. m \in Nat /\ n \in Nat
    BY <2>3 DEF ChainInv, ChainTypeOK
  <2> QED
    BY <2>1, <2>2, <2>3, <2>4
<1> QED
  BY <1>1, <1>2, <1>3

-----------------------------------------------------------------------------
(* A batch is stored once                                                   *)

BatchInv ==
    /\ \A j, k \in DOMAIN batches : batches[j] = batches[k] => j = k
    /\ \A n \in handled : log[n].ev.type = "NewBatch" => BatchIsStored(log[n].ev.index)

LEMMA NextBatchInv ==
    ASSUME ChainInv, TypeInv, BatchInv, [Next]_vars
    PROVE  BatchInv'
<1>0. handled \subseteq DOMAIN log /\ todo \subseteq DOMAIN log /\ batches \in Seq(Nat)
  BY DEF TypeInv, TableTypes, ProcessTypes
<1>1. ASSUME UNCHANGED batches, DOMAIN log \subseteq DOMAIN log',
             \A n \in DOMAIN log : log'[n] = log[n],
             \A m \in handled' : m \in handled \/ (m \in DOMAIN log /\ log[m].ev.type # "NewBatch")
      PROVE  BatchInv'
  BY <1>0, <1>1 DEF BatchInv, BatchIsStored
<1>2. CASE Calm
  BY <1>1, <1>2 DEF Calm
<1>3. CASE FinaliseUpdate \/ \E n \in todo : BeginFinaliseDeposits(n) \/ FinaliseDelete(n)
  BY <1>0, <1>1, <1>3, FinaliseFrame
<1>4. ASSUME NEW n \in todo, Simple(n)
      PROVE  BatchInv'
  <2>0. UNCHANGED log /\ handled' = handled \cup {n} /\ n \in DOMAIN log
    BY <1>0, <1>4, SimpleFrame
  <2>1. CASE ProcessRegisteredToken(n) \/ ProcessNewPubkeyAddition(n)
             \/ ProcessDepositQueued(n) \/ ProcessDepositSubtreeCreated(n)
             \/ NothingToFinalise(n)
    <3>1. UNCHANGED batches /\ log[n].ev.type # "NewBatch"
      BY <2>1 DEF ProcessRegisteredToken, ProcessNewPubkeyAddition, ProcessDepositQueued,
                  ProcessDepositSubtreeCreated, NothingToFinalise, NextLog, tables
    <3> QED
      BY <1>1, <2>0, <3>1
  <2>2. CASE RecordBatch(n)
    <3>1. UNCHANGED batches /\ BatchIsStored(log[n].ev.index)
      BY <2>2 DEF RecordBatch
    <3> QED
      BY <2>0, <3>1 DEF BatchInv, BatchIsStored
  <2>3. CASE AddNewBatch(n)
    <3> DEFINE x == log[n].ev.index
               L == Len(batches)
    <3>1. batches' = Append(batches, x) /\ ~BatchIsStored(x) /\ log[n].ev.type = "NewBatch"
      BY <2>3 DEF AddNewBatch, NextLog
    <3>2. x \in Nat /\ L \in Nat
      BY <1>0, <2>0, <3>1, EventFields
    <3>3. /\ DOMAIN batches = 1 .. L /\ DOMAIN batches' = 1 .. L + 1
          /\ batches'[L + 1] = x /\ \A j \in 1 .. L : batches'[j] = batches[j]
      BY <1>0, <3>1, <3>2
    <3>4. \A j \in 1 .. L : batches'[j] # x
      BY <3>1, <3>3 DEF BatchIsStored
    <3>5. \A j \in 1 .. L + 1 : j \in 1 .. L \/ j = L + 1
      BY <3>2
    <3>6. \A j, k \in DOMAIN batches' : batches'[j] = batches'[k] => j = k
      BY <3>3, <3>4, <3>5 DEF BatchInv
    <3>7. ASSUME NEW y, BatchIsStored(y) \/ y = x
          PROVE  BatchIsStored(y)'
      <4>1. DOMAIN batches \subseteq DOMAIN batches' /\ L + 1 \in DOMAIN batches'
        BY <3>2, <3>3
      <4> QED
        BY <3>3, <3>7, <4>1 DEF BatchIsStored
    <3>8. \A m \in handled' : log[m].ev.type = "NewBatch" =>
             \E k \in DOMAIN batches' : batches'[k] = log[m].ev.index
      BY <2>0, <3>7 DEF BatchInv, BatchIsStored
    <3> QED
      BY <2>0, <3>6, <3>8 DEF BatchInv, BatchIsStored
  <2> QED
    BY <1>4, <2>1, <2>2, <2>3 DEF Simple
<1> QED
  BY <1>2, <1>3, <1>4, StepCases

\* However often its log is delivered again, and whatever crashed in between, a
\* batch has exactly one row once processNewBatch has run for it.
THEOREM BatchesAreStoredOnce == Spec => []BatchStoredOnce
<1>1. Init => SyncInv /\ TypeInv /\ BatchInv
  <2>1. Init => BatchInv
    BY DEF Init, BatchInv
  <2> QED
    BY <2>1, InitSyncInv, InitTypeInv
<1>2. SyncInv /\ TypeInv /\ BatchInv /\ [Next]_vars => (SyncInv /\ TypeInv /\ BatchInv)'
  BY NextSyncInv, NextTypeInv, NextBatchInv DEF SyncInv
<1>3. BatchInv => BatchStoredOnce
  <2> SUFFICES ASSUME BatchInv, NEW n \in handled, log[n].ev.type = "NewBatch"
               PROVE  Cardinality({k \in DOMAIN batches : batches[k] = log[n].ev.index}) = 1
    BY DEF BatchStoredOnce
  <2>1. PICK k \in DOMAIN batches : batches[k] = log[n].ev.index
    BY DEF BatchInv, BatchIsStored
  <2>2. {j \in DOMAIN batches : batches[j] = log[n].ev.index} = {k}
    BY <2>1 DEF BatchInv
  <2> QED
    BY <2>2, FS_Singleton
<1> QED
  BY <1>1, <1>2, <1>3, PTL DEF Spec

-----------------------------------------------------------------------------
(* Deposits appear at finalised paths only                                  *)

LEMMA SizeOfHeightOne == SubTreeHeight = 1 => SubTreeSize = 2
<1>1. 2 ^ 0 = 1 /\ 2 ^ 1 = 2 * 2 ^ 0
  BY PowerOfTwo
<1> QED
  BY <1>1 DEF SubTreeSize

LEMMA NextUnderInv ==
    ASSUME SyncInv, FollowInv, FinInv, TypeInv, LeavesOfFinalisedPath, [Next]_vars
    PROVE  LeavesOfFinalisedPath'
<1> DEFINE Under(l) == \E n \in DOMAIN log :
                           /\ log[n].ev.type = "DepositsFinalised"
                           /\ log[n].blk <= head
                           /\ l \div 2 = log[n].ev.subtree
                           /\ SubTreeHeight = 1 => l \in LeavesUnder(log[n].ev.subtree)
<1>0. ChainInv /\ head \in Nat /\ hdr \in Nat /\ hdr <= head
  BY DEF SyncInv, ChainInv, ChainTypeOK
<1>1. ASSUME UNCHANGED leaves, head <= head', head' \in Nat, DOMAIN log \subseteq DOMAIN log',
             \A n \in DOMAIN log : log'[n] = log[n]
      PROVE  LeavesOfFinalisedPath'
  <2>1. \A n \in DOMAIN log : log[n].blk \in Nat
    BY <1>0, EntryTypes
  <2>2. \A n \in DOMAIN log : log[n].blk <= head => log[n].blk <= head'
    BY <1>0, <1>1, <2>1
  <2> QED
    BY <1>1, <2>2 DEF LeavesOfFinalisedPath, LeavesUnder
<1>2. CASE Calm
  <2>1. head' \in Nat
    BY NextSyncInv DEF SyncInv, ChainInv, ChainTypeOK
  <2> QED
    BY <1>1, <1>2, <2>1 DEF Calm
<1>3. CASE \E n \in todo : Simple(n) \/ BeginFinaliseDeposits(n) \/ FinaliseDelete(n)
  <2>1. PICK n \in todo : Simple(n) \/ BeginFinaliseDeposits(n) \/ FinaliseDelete(n)
    BY <1>3
  <2>2. CASE Simple(n)
    BY <2>2, SimpleFrame DEF LeavesOfFinalisedPath
  <2>3. CASE BeginFinaliseDeposits(n) \/ FinaliseDelete(n)
    BY <1>0, <2>3, FinaliseFrame DEF LeavesOfFinalisedPath
  <2> QED
    BY <2>1, <2>2, <2>3
<1>4. CASE FinaliseUpdate
  <2> DEFINE t == fin.terminalNodes[fin.k]
  <2>1. /\ pc = "update" /\ UNCHANGED <<log, head>>
        /\ leaves' = [leaves EXCEPT ![t] = fin.accounts[fin.k].deposit]
        /\ fin.k <= Len(fin.terminalNodes)
    BY <1>4 DEF FinaliseUpdate, chainVars
  <2>2. PICK n \in todo : /\ log[n].ev.type = "DepositsFinalised"
                          /\ fin.terminalNodes = GetAllTerminalNodes(log[n].ev.subtree)
    BY <2>1 DEF TypeInv, LoopInv
  <2>3. n \in DOMAIN log /\ log[n].blk <= hdr
    BY DEF FollowInv
  <2>4. log[n].blk \in Nat /\ log[n].ev.subtree \in Int
    BY <1>0, <2>2, <2>3, EntryTypes, SubtreeIsInt
  <2>5. log[n].blk <= head
    BY <1>0, <2>3, <2>4
  <2> DEFINE s == log[n].ev.subtree
  <2>6. fin.terminalNodes = <<2 * s, 2 * s + 1>> /\ fin.k \in Nat \ {0}
    BY <2>1, <2>2 DEF GetAllTerminalNodes, FinInv
  <2>7. fin.k \in {1, 2}
    BY <2>1, <2>6
  <2>8. t = 2 * s \/ t = 2 * s + 1
    BY <2>6, <2>7
  <2>9. t \div 2 = s
    BY <2>4, <2>8
  <2>10. t \in Leaf => Under(t)
    <3>1. SubTreeHeight = 1 => SubTreeSize = 2
      BY SizeOfHeightOne
    <3>2. t \in Leaf /\ SubTreeHeight = 1 => t \in LeavesUnder(s)
      BY <2>9, <3>1 DEF LeavesUnder
    <3> QED
      BY <2>2, <2>3, <2>5, <2>9, <3>2
  <2>11. \A l \in Leaf : l # t => leaves'[l] = leaves[l]
    BY <2>1 DEF FinInv
  <2>12. \A l \in Leaf : leaves'[l] > 0 => Under(l)
    <3> SUFFICES ASSUME NEW l \in Leaf, leaves'[l] > 0 PROVE Under(l)
      OBVIOUS
    <3>1. CASE l = t
      BY <2>10, <3>1
    <3>2. CASE l # t
      BY <2>11, <3>2 DEF LeavesOfFinalisedPath
    <3> QED
      BY <3>1, <3>2
  <2> QED
    BY <2>1, <2>12 DEF LeavesOfFinalisedPath, LeavesUnder
<1> QED
  BY <1>0, <1>2, <1>3, <1>4, StepCases

\* Whatever the height of deposit subtrees, a deposit appears in the tree only in the
\* pair of leaves that GetAllTerminalNodes takes for a mined DepositsFinalised, and for
\* the height 1 these are leaves of the subtree that the contract finalised.
THEOREM DepositsAtFinalisedPaths == Spec => []LeavesOfFinalisedPath
<1> DEFINE Inv == SyncInv /\ FollowInv /\ FinInv /\ TypeInv /\ LeavesOfFinalisedPath
<1>1. Init => Inv
  <2>1. Init => LeavesOfFinalisedPath
    BY SyncerAssumption DEF Init, LeavesOfFinalisedPath, Zero, Blank, GenesisState
  <2> QED
    BY <2>1, InitSyncInv, InitFollows, InitFinInv, InitTypeInv
<1>2. Inv /\ [Next]_vars => Inv'
  BY NextSyncInv, NextFollows, NextFinInv, NextTypeInv, NextUnderInv DEF SyncInv
<1>3. Inv => LeavesOfFinalisedPath
  OBVIOUS
<1> QED
  BY <1>1, <1>2, <1>3, PTL DEF Spec

-----------------------------------------------------------------------------
(* No deposit is lost                                                       *)

\* A deposit of the account that made it.
DepositOK(d) == d.deposit \in 1 .. MaxDeposits /\ d.acct = Depositor[d.deposit]

\* The two leaves that FinaliseDeposits takes for those of subtree s.
InTree(s) == 2 * s \in Leaf /\ 2 * s + 1 \in Leaf

EventOK(e) ==
    /\ e.type = "DepositQueued" => DepositOK(e)
    /\ e.type = "DepositsFinalised" => InTree(e.subtree)

LogOK ==
    /\ \A n \in DOMAIN log : EventOK(log[n].ev)
    /\ \A s \in vacant : InTree(s)

\* A quotient by two or more is at most the half.
LEMMA DivTwice ==
    ASSUME NEW l \in Nat, NEW z \in Nat \ {0, 1}, NEW s \in Nat, l \div z = s
    PROVE  2 * s <= l
<1>1. z * s <= l
  OBVIOUS
<1>2. 2 * s <= z * s
  OBVIOUS
<1> QED
  BY <1>1, <1>2

LEMMA InitLogOK == Init => LogOK
<1> SUFFICES ASSUME Init PROVE LogOK
  OBVIOUS
<1>1. \A n \in DOMAIN log : EventOK(log[n].ev)
  <2>1. log = <<[blk |-> 1, ev |-> NewBatch(0)]>>
    BY DEF Init, ChainInit
  <2>2. DOMAIN log = {1} /\ log[1].ev = NewBatch(0)
    BY <2>1
  <2> QED
    BY <2>2 DEF EventOK, NewBatch
<1>2. ASSUME NEW s \in vacant PROVE InTree(s)
  <2>1. s \in Leaf /\ LeavesUnder(s) # {}
    BY DEF Init, ChainInit
  <2>2. PICK l \in Leaf : l \div SubTreeSize = s
    BY <2>1 DEF LeavesUnder
  <2> DEFINE z == SubTreeSize
             half == 2 ^ (Depth - 1)
  <2>3. z \in Nat \ {0, 1} /\ half \in Nat /\ 2 ^ Depth = 2 * half
    BY SizeFacts
  <2> HIDE DEF z, half
  <2>4. l \in Nat /\ s \in Nat /\ l <= 2 * half - 1
    BY <2>1, <2>2, <2>3 DEF Leaf
  <2>5. 2 * s <= l
    BY <2>2, <2>3, <2>4, DivTwice DEF z
  <2>6. 2 * s \in 0 .. 2 * half - 1 /\ 2 * s + 1 \in 0 .. 2 * half - 1
    BY <2>3, <2>4, <2>5
  <2> QED
    BY <2>3, <2>6 DEF InTree, Leaf
<1> QED
  BY <1>1, <1>2 DEF LogOK

\* The events of a block in the making are behind those already there.
LEMMA EmitOK ==
    ASSUME ChainInv, LogOK, NEW events \in Seq(Event), Emit(events),
           \A k \in 1 .. Len(events) : EventOK(events[k]), vacant' \subseteq vacant
    PROVE  LogOK'
<1> DEFINE q == [k \in 1 .. Len(events) |-> [blk |-> head + 1, ev |-> events[k]]]
<1>1. Len(events) \in Nat /\ head \in Nat /\ log \in Seq(Entry) /\ Len(log) \in Nat
  BY DEF ChainInv, ChainTypeOK
<1>2. q \in [1 .. Len(events) -> Entry]
  BY <1>1 DEF Entry
<1>3. q \in Seq(Entry) /\ Len(q) = Len(events)
  BY <1>1, <1>2, FunctionIsSeq
<1>4. /\ DOMAIN log = 1 .. Len(log)
      /\ DOMAIN log' = 1 .. Len(log) + Len(events)
      /\ \A n \in 1 .. Len(log) : log'[n] = log[n]
      /\ \A n \in Len(log) + 1 .. Len(log) + Len(events) : log'[n] = q[n - Len(log)]
  BY <1>1, <1>3, ConcatSeq DEF Emit
<1>5. ASSUME NEW n \in DOMAIN log'
      PROVE  EventOK(log'[n].ev)
  <2>1. CASE n \in 1 .. Len(log)
    BY <1>4, <2>1 DEF LogOK
  <2>2. CASE n \notin 1 .. Len(log)
    <3>1. n \in Len(log) + 1 .. Len(log) + Len(events) /\ n - Len(log) \in 1 .. Len(events)
      BY <1>1, <1>4, <2>2
    <3>2. q[n - Len(log)] = [blk |-> head + 1, ev |-> events[n - Len(log)]]
      BY <3>1
    <3>3. log'[n] = [blk |-> head + 1, ev |-> events[n - Len(log)]]
      <4>1. log'[n] = q[n - Len(log)]
        BY <1>4, <3>1
      <4> QED
        BY <3>2, <4>1
    <3>4. log'[n].ev = events[n - Len(log)]
      BY <3>3
    <3> QED
      BY <3>1, <3>4
  <2> QED
    BY <2>1, <2>2
<1> QED
  BY <1>5 DEF LogOK

LEMMA ChainNextLogOK ==
    ASSUME ChainInv, LogOK, ChainNext
    PROVE  LogOK'
<1>0. /\ head \in Nat /\ queued \in 0 .. MaxDeposits /\ submitted \in Nat
      /\ vacant \subseteq Leaf
      /\ nbatches \in Nat /\ ntokens \in Nat /\ npubkeys \in Nat
  BY DEF ChainInv, ChainTypeOK
<1>1. ASSUME NEW e \in Event, EventOK(e), Emit(<<e>>), vacant' \subseteq vacant
      PROVE  LogOK'
  <2>1. <<e>> \in Seq(Event) /\ Len(<<e>>) = 1 /\ <<e>>[1] = e
    OBVIOUS
  <2>2. \A k \in 1 .. Len(<<e>>) : EventOK(<<e>>[k])
    <3> SUFFICES ASSUME NEW k \in 1 .. 1 PROVE EventOK(<<e>>[k])
      BY <2>1
    <3>1. k = 1
      OBVIOUS
    <3> QED
      BY <1>1, <2>1, <3>1
  <2> QED
    BY <1>1, <2>1, <2>2, EmitOK
<1>2. ASSUME NEW e \in Event, NEW f \in Event, EventOK(e), EventOK(f), Emit(<<e, f>>),
             vacant' \subseteq vacant
      PROVE  LogOK'
  <2>1. /\ <<e, f>> \in Seq(Event) /\ Len(<<e, f>>) = 2
        /\ <<e, f>>[1] = e /\ <<e, f>>[2] = f
    OBVIOUS
  <2>2. \A k \in 1 .. Len(<<e, f>>) : EventOK(<<e, f>>[k])
    <3> SUFFICES ASSUME NEW k \in 1 .. 2 PROVE EventOK(<<e, f>>[k])
      BY <2>1
    <3>1. k = 1 \/ k = 2
      OBVIOUS
    <3> QED
      BY <1>2, <2>1, <3>1
  <2> QED
    BY <1>2, <2>1, <2>2, EmitOK
<1>3. CASE Deposit
  <2>1. queued' \in 1 .. MaxDeposits /\ queued' \in Nat \ {0} /\ vacant' = vacant
    BY <1>0, <1>3, ChainAssumption DEF Deposit
  <2> DEFINE e == DepositQueued(queued')
             f == DepositSubTreeReady(queued' \div SubTreeSize)
  <2>2. e \in Event /\ EventOK(e)
    BY <2>1, ChainAssumption DEF DepositQueued, Event, EventOK, DepositOK
  <2>3. f \in Event /\ EventOK(f)
    <3>1. queued' \div SubTreeSize \in Nat
      BY <2>1, SizeFacts, DivNat
    <3> QED
      BY <3>1 DEF DepositSubTreeReady, Event, EventOK
  <2>4. Emit(<<e>>) \/ Emit(<<e, f>>)
    BY <1>3 DEF Deposit
  <2> HIDE DEF e, f
  <2> QED
    BY <1>1, <1>2, <2>1, <2>2, <2>3, <2>4
<1>4. ASSUME NEW s \in vacant, SubmitDeposits(s)
      PROVE  LogOK'
  <2> DEFINE e == DepositsFinalised(submitted', s)
             f == NewBatch(nbatches)
  <2>1. /\ submitted' \in Nat /\ s \in Leaf /\ InTree(s) /\ vacant' \subseteq vacant
        /\ Emit(<<e, f>>)
    BY <1>0, <1>4 DEF SubmitDeposits, LogOK
  <2>2. e \in Event /\ f \in Event
    BY <1>0, <2>1 DEF DepositsFinalised, NewBatch, Event
  <2>3. EventOK(e) /\ EventOK(f)
    BY <2>1 DEF DepositsFinalised, NewBatch, EventOK
  <2> HIDE DEF e, f
  <2> QED
    BY <1>2, <2>1, <2>2, <2>3
<1>5. CASE SubmitTransfer
  <2> DEFINE e == NewBatch(nbatches)
  <2>1. e \in Event /\ EventOK(e) /\ Emit(<<e>>) /\ vacant' = vacant
    BY <1>0, <1>5 DEF NewBatch, Event, EventOK, SubmitTransfer
  <2> HIDE DEF e
  <2> QED
    BY <1>1, <2>1
<1>6. CASE RegisterToken
  <2> DEFINE e == RegisteredToken(ntokens')
  <2>1. ntokens' \in Nat /\ Emit(<<e>>) /\ vacant' = vacant
    BY <1>0, <1>6 DEF RegisterToken
  <2>2. e \in Event /\ EventOK(e)
    BY <2>1 DEF RegisteredToken, Event, EventOK
  <2> HIDE DEF e
  <2> QED
    BY <1>1, <2>1, <2>2
<1>7. CASE RegisterPubkey
  <2> DEFINE e == NewPubkeyAdded(npubkeys')
  <2>1. npubkeys' \in Nat /\ Emit(<<e>>) /\ vacant' = vacant
    BY <1>0, <1>7 DEF RegisterPubkey
  <2>2. e \in Event /\ EventOK(e)
    BY <2>1 DEF NewPubkeyAdded, Event, EventOK
  <2> HIDE DEF e
  <2> QED
    BY <1>1, <2>1, <2>2
<1>8. CASE MineBlock
  BY <1>8 DEF MineBlock, LogOK
<1> QED
  BY <1>3, <1>4, <1>5, <1>6, <1>7, <1>8 DEF ChainNext

LEMMA NextLogOK ==
    ASSUME ChainInv, LogOK, [Next]_vars
    PROVE  LogOK'
<1>1. CASE ChainStep
  BY <1>1, ChainNextLogOK DEF ChainStep
<1>2. CASE UNCHANGED chainVars
  BY <1>2 DEF chainVars, LogOK
<1>3. CASE UNCHANGED vars
  BY <1>2, <1>3 DEF vars
<1> QED
  BY <1>1, <1>2, <1>3
     DEF Next, ProcessEvents, Faulty, ProcessLog, ReceiveHeader, NoNeedToSync, ProcessHeader,
         ProcessHeaderFails, RecordBlock, RecordBlockFails, Restart, Crash, IndexOutOfRange,
         GoDown, ProcessRegisteredToken, ProcessNewPubkeyAddition, ProcessDepositQueued,
         ProcessDepositSubtreeCreated, AddNewBatch, RecordBatch, BatchInputPanics,
         BeginFinaliseDeposits, NothingToFinalise, FinaliseDelete, FinaliseUpdate,
         DropLog, FinaliseFails

\* Every pending row, and every account that FinaliseDeposits took, is a deposit of
\* the account that made it; when the row of an account is about to be deleted, a
\* leaf of the tree holds its deposit.
KeptInv ==
    /\ \A k \in DOMAIN pending : DepositOK(pending[k])
    /\ pc \in {"update", "delete"} => \A k \in DOMAIN fin.accounts : DepositOK(fin.accounts[k])
    /\ pc = "delete" =>
           \E l \in Leaf : leaves[l] = fin.accounts[fin.k].deposit

LEMMA CalmKept ==
    ASSUME TypeInv, KeptInv, NoDepositLost, Calm
    PROVE  KeptInv' /\ NoDepositLost'
<1>1. handled \subseteq DOMAIN log
  BY DEF TypeInv, ProcessTypes
<1>2. KeptInv'
  BY DEF KeptInv, Calm
<1>3. NoDepositLost'
  BY <1>1 DEF NoDepositLost, Merged, Calm
<1> QED
  BY <1>2, <1>3

LEMMA SimpleKept ==
    ASSUME ChainInv, LogOK, TypeInv, KeptInv, NoDepositLost, NEW n \in todo, Simple(n)
    PROVE  KeptInv' /\ NoDepositLost'
<1>0. /\ n \in DOMAIN log /\ handled \subseteq DOMAIN log /\ pending \in Seq(Row)
      /\ DOMAIN pending = 1 .. Len(pending) /\ Len(pending) \in Nat
      /\ \A k \in DOMAIN pending : pending[k] \in Row
  BY DEF TypeInv, ProcessTypes, TableTypes
<1>1. /\ UNCHANGED <<log, leaves, pc, fin>> /\ pc = "events"
      /\ handled' = handled \cup {n}
  BY SimpleFrame
<1>2. ASSUME \A k \in DOMAIN pending' : DepositOK(pending'[k]),
             \A k \in DOMAIN pending : \E j \in DOMAIN pending' :
                 pending'[j].deposit = pending[k].deposit,
             log[n].ev.type = "DepositQueued" =>
                 \E j \in DOMAIN pending' : pending'[j].deposit = log[n].ev.deposit
      PROVE  KeptInv' /\ NoDepositLost'
  <2>1. KeptInv'
    BY <1>1, <1>2 DEF KeptInv
  <2>2. ASSUME NEW m \in handled', log[m].ev.type = "DepositQueued"
        PROVE  \/ \E k \in DOMAIN pending' : pending'[k].deposit = log[m].ev.deposit
               \/ Merged(log[m].ev.acct)
    <3>1. CASE m = n
      BY <1>2, <2>2, <3>1
    <3>2. CASE m \in handled
      <4>1. \/ \E k \in DOMAIN pending : pending[k].deposit = log[m].ev.deposit
            \/ Merged(log[m].ev.acct)
        BY <2>2, <3>2 DEF NoDepositLost
      <4> QED
        BY <1>2, <4>1
    <3> QED
      BY <1>1, <3>1, <3>2
  <2> QED
    BY <1>1, <2>1, <2>2 DEF NoDepositLost, Merged
<1>3. CASE ProcessRegisteredToken(n) \/ ProcessNewPubkeyAddition(n)
           \/ AddNewBatch(n) \/ RecordBatch(n) \/ NothingToFinalise(n)
  <2>1. UNCHANGED pending /\ log[n].ev.type # "DepositQueued"
    BY <1>3 DEF ProcessRegisteredToken, ProcessNewPubkeyAddition, AddNewBatch, RecordBatch,
                NothingToFinalise, NextLog, tables
  <2> QED
    BY <1>2, <2>1 DEF KeptInv
<1>4. CASE ProcessDepositSubtreeCreated(n)
  <2>1. /\ pending' = AttachDepositInfo(log[n].ev.root)
        /\ log[n].ev.type = "DepositSubTreeReady"
    BY <1>4 DEF ProcessDepositSubtreeCreated, NextLog
  <2>2. /\ DOMAIN pending' = DOMAIN pending
        /\ \A k \in DOMAIN pending : pending'[k] = [pending[k] EXCEPT !.root = log[n].ev.root]
    BY <2>1 DEF AttachDepositInfo
  <2>3. \A k \in DOMAIN pending : /\ pending'[k].deposit = pending[k].deposit
                                  /\ pending'[k].acct = pending[k].acct
    BY <1>0, <2>2 DEF Row
  <2>4. \A k \in DOMAIN pending' : DepositOK(pending'[k])
    BY <2>2, <2>3 DEF KeptInv, DepositOK
  <2> QED
    BY <1>2, <2>1, <2>2, <2>3, <2>4
<1>5. CASE ProcessDepositQueued(n)
  <2> DEFINE row == NewPendingUserState(log[n].ev.acct, log[n].ev.deposit)
             L == Len(pending)
  <2>1. pending' = Append(pending, row) /\ log[n].ev.type = "DepositQueued"
    BY <1>5 DEF ProcessDepositQueued, NextLog
  <2>2. row.deposit = log[n].ev.deposit /\ row.acct = log[n].ev.acct
    BY DEF NewPendingUserState
  <2>3. DepositOK(row)
    BY <1>0, <2>1, <2>2 DEF LogOK, EventOK, DepositOK
  <2>4. row \in Row
    BY <1>0, <2>1, EventFields DEF NewPendingUserState, Row
  <2> HIDE DEF row
  <2>5. /\ DOMAIN pending' = 1 .. L + 1 /\ pending'[L + 1] = row
        /\ \A k \in 1 .. L : pending'[k] = pending[k]
    BY <1>0, <2>1, <2>4
  <2>6. /\ \A k \in DOMAIN pending' : k \in DOMAIN pending \/ k = L + 1
        /\ DOMAIN pending \subseteq DOMAIN pending' /\ L + 1 \in DOMAIN pending'
    BY <1>0, <2>5
  <2>7. \A k \in DOMAIN pending' : DepositOK(pending'[k])
    <3> SUFFICES ASSUME NEW k \in DOMAIN pending' PROVE DepositOK(pending'[k])
      OBVIOUS
    <3>1. CASE k = L + 1
      BY <2>3, <2>5, <3>1
    <3>2. CASE k \in DOMAIN pending
      BY <1>0, <2>5, <3>2 DEF KeptInv
    <3> QED
      BY <2>6, <3>1, <3>2
  <2>8. \A k \in DOMAIN pending : \E j \in DOMAIN pending' :
           pending'[j].deposit = pending[k].deposit
    BY <1>0, <2>5, <2>6
  <2>9. \E j \in DOMAIN pending' : pending'[j].deposit = log[n].ev.deposit
    BY <2>2, <2>5, <2>6
  <2> HIDE DEF L
  <2> QED
    BY <1>2, <2>7, <2>8, <2>9
<1> QED
  BY <1>3, <1>4, <1>5 DEF Simple

LEMMA BeginKept ==
    ASSUME ChainInv, TypeInv, KeptInv, NoDepositLost, NEW n \in todo, BeginFinaliseDeposits(n)
    PROVE  KeptInv' /\ NoDepositLost'
<1> DEFINE r == log[n].ev.root
           K == {k \in DOMAIN pending : pending[k].root = r}
<1>1. /\ UNCHANGED <<log, pending, leaves, handled>> /\ pc' = "update"
  BY FinaliseFrame
<1>2. fin'.accounts = RowsAt(pending, K)
  BY DEF BeginFinaliseDeposits, GetPendingAccByDepositRoot
<1>3. pending \in Seq(Row) /\ K \in SUBSET DOMAIN pending
  BY DEF TypeInv, TableTypes
<1> HIDE DEF K
<1>4. \A j \in DOMAIN RowsAt(pending, K) : \E k \in K : RowsAt(pending, K)[j] = pending[k]
  BY <1>3, RowsAtSelects
<1>5. \A j \in DOMAIN fin'.accounts : DepositOK(fin'.accounts[j])
  BY <1>2, <1>3, <1>4 DEF KeptInv
<1>6. KeptInv'
  BY <1>1, <1>5 DEF KeptInv
<1>7. NoDepositLost'
  BY <1>1 DEF NoDepositLost, Merged
<1> QED
  BY <1>6, <1>7

LEMMA UpdateKept ==
    ASSUME ChainInv, LogOK, FinInv, TypeInv, KeptInv, NoDepositLost, FinaliseUpdate
    PROVE  KeptInv' /\ NoDepositLost'
<1> DEFINE t == fin.terminalNodes[fin.k]
           d == fin.accounts[fin.k].deposit
<1>1. /\ UNCHANGED <<log, pending, handled, fin, todo>>
      /\ pc = "update" /\ pc' = "delete"
      /\ leaves' = [leaves EXCEPT ![t] = d]
      /\ fin.k <= Len(fin.terminalNodes)
  BY FinaliseFrame DEF FinaliseUpdate
<1>2. PICK n \in todo : /\ log[n].ev.type = "DepositsFinalised"
                        /\ fin.terminalNodes = GetAllTerminalNodes(log[n].ev.subtree)
  BY <1>1 DEF TypeInv, LoopInv
<1>3. n \in DOMAIN log
  BY DEF TypeInv, ProcessTypes
<1>4. InTree(log[n].ev.subtree)
  BY <1>2, <1>3 DEF LogOK, EventOK
<1>5. fin.k \in {1, 2}
  BY <1>1, <1>2 DEF GetAllTerminalNodes, FinInv
<1>6. t \in Leaf
  BY <1>2, <1>4, <1>5 DEF GetAllTerminalNodes, InTree
<1>7. leaves'[t] = d
  BY <1>1, <1>6 DEF FinInv
<1>8. KeptInv'
  BY <1>1, <1>6, <1>7 DEF KeptInv
<1>9. \A l \in Leaf : leaves[l] # Zero => leaves'[l] = leaves[l]
  BY UpdateFinInv
<1>10. ASSUME NEW a, Merged(a)
       PROVE  Merged(a)'
  <2>1. PICK l \in Leaf : leaves[l] \in DOMAIN Depositor /\ Depositor[leaves[l]] = a
    BY <1>10 DEF Merged
  <2>2. leaves[l] # Zero
    BY <2>1, ChainAssumption DEF Zero
  <2> QED
    BY <1>9, <2>1, <2>2 DEF Merged
<1>11. NoDepositLost'
  BY <1>1, <1>10 DEF NoDepositLost
<1> QED
  BY <1>8, <1>11

LEMMA DeleteKept ==
    ASSUME ChainInv, LogOK, TypeInv, KeptInv, NoDepositLost, NEW n \in todo, FinaliseDelete(n)
    PROVE  KeptInv' /\ NoDepositLost'
<1> DEFINE row == fin.accounts[fin.k]
           K == {k \in DOMAIN pending : pending[k].acct # row.acct}
<1>1. /\ UNCHANGED <<log, leaves>> /\ log[n].ev.type = "DepositsFinalised"
      /\ handled' \subseteq handled \cup {n}
  BY FinaliseFrame
<1>2. pc = "delete" /\ pending' = RowsAt(pending, K)
  BY DEF FinaliseDelete, DeletePendingAccount
<1>3. pending \in Seq(Row) /\ K \in SUBSET DOMAIN pending
  BY DEF TypeInv, TableTypes
<1>4. /\ \A k \in K : \E j \in DOMAIN pending' : pending'[j] = pending[k]
      /\ \A j \in DOMAIN pending' : \E k \in K : pending'[j] = pending[k]
  <2> HIDE DEF K
  <2> QED
    BY <1>2, <1>3, RowsAtSelects
<1>5. \A j \in DOMAIN pending' : DepositOK(pending'[j])
  BY <1>3, <1>4 DEF KeptInv
<1>6. KeptInv'
  <2>1. CASE fin.k < Len(fin.accounts)
    <3>1. pc' = "update" /\ fin' = [fin EXCEPT !.k = @ + 1]
      BY <2>1 DEF FinaliseDelete
    <3>2. fin'.accounts = fin.accounts
      BY <3>1 DEF TypeInv, ProcessTypes, FinType
    <3> QED
      BY <1>2, <1>5, <3>1, <3>2 DEF KeptInv
  <2>2. CASE ~(fin.k < Len(fin.accounts))
    <3>1. pc' = "events"
      BY <2>2 DEF FinaliseDelete
    <3> QED
      BY <1>5, <3>1 DEF KeptInv
  <2> QED
    BY <2>1, <2>2
<1>7. DepositOK(row) /\ \E l \in Leaf : leaves[l] = row.deposit
  <2>1. fin.k \in 1 .. Len(fin.accounts) /\ fin.accounts \in Seq(Row)
    BY <1>2 DEF TypeInv, LoopInv, ProcessTypes, FinType
  <2>2. fin.k \in DOMAIN fin.accounts
    BY <2>1
  <2> QED
    BY <1>2, <2>2 DEF KeptInv
<1>8. Merged(row.acct)
  BY <1>7, ChainAssumption DEF Merged, DepositOK
<1>9. NoDepositLost'
  <2> SUFFICES ASSUME NEW m \in handled', log[m].ev.type = "DepositQueued"
               PROVE  \/ \E k \in DOMAIN pending' : pending'[k].deposit = log[m].ev.deposit
                      \/ Merged(log[m].ev.acct)
    BY <1>1 DEF NoDepositLost, Merged
  <2>1. m \in handled /\ m \in DOMAIN log
    BY <1>1 DEF TypeInv, ProcessTypes
  <2>2. CASE Merged(log[m].ev.acct)
    BY <2>2
  <2>3. ASSUME NEW k \in DOMAIN pending, pending[k].deposit = log[m].ev.deposit
        PROVE  \/ \E j \in DOMAIN pending' : pending'[j].deposit = log[m].ev.deposit
               \/ Merged(log[m].ev.acct)
    <3>1. CASE pending[k].acct # row.acct
      BY <1>4, <2>3, <3>1
    <3>2. CASE pending[k].acct = row.acct
      <4>1. DepositOK(pending[k]) /\ DepositOK(log[m].ev)
        BY <2>1 DEF KeptInv, LogOK, EventOK
      <4>2. log[m].ev.acct = row.acct
        BY <2>3, <3>2, <4>1 DEF DepositOK
      <4> QED
        BY <1>8, <4>2
    <3> QED
      BY <3>1, <3>2
  <2> QED
    BY <2>1, <2>2, <2>3 DEF NoDepositLost
<1> QED
  BY <1>6, <1>9

\* A deposit whose log was handled stays pending until the tree holds it or another
\* deposit of its account: neither a crash between the update of the tree and the
\* deletion of the pending row, nor the redelivery of a log, nor an error in the middle
\* of FinaliseDeposits loses more than DeletePendingAccount takes with a merged row.
THEOREM DepositsAreKept == Spec => []NoDepositLost
<1> DEFINE Inv == SyncInv /\ LogOK /\ FinInv /\ TypeInv /\ KeptInv /\ NoDepositLost
<1>1. Init => Inv
  <2>1. Init => KeptInv /\ NoDepositLost
    BY DEF Init, KeptInv, NoDepositLost
  <2> QED
    BY <2>1, InitSyncInv, InitLogOK, InitFinInv, InitTypeInv
<1>2. Inv /\ [Next]_vars => Inv'
  <2> SUFFICES ASSUME Inv, [Next]_vars PROVE Inv'
    OBVIOUS
  <2>1. ChainInv
    BY DEF SyncInv
  <2>2. SyncInv' /\ LogOK' /\ FinInv' /\ TypeInv'
    BY <2>1, NextSyncInv, NextLogOK, NextFinInv, NextTypeInv
  <2>3. KeptInv' /\ NoDepositLost'
    BY <2>1, StepCases, CalmKept, SimpleKept, BeginKept, UpdateKept, DeleteKept
  <2> QED
    BY <2>2, <2>3
<1>3. Inv => NoDepositLost
  OBVIOUS
<1> QED
  BY <1>1, <1>2, <1>3, PTL DEF Spec

=============================================================================
