-------------------------- MODULE Lifecycle_proofs --------------------------
(***************************************************************************)
(* Starting and stopping the services: what the three goroutines cannot do *)
(* to each other, in whatever order their steps come.                      *)
(***************************************************************************)
EXTENDS Lifecycle, TLAPS

MainPc == {"start", "started", "revert", "onStart", "header", "subscribe", "serve"}

SignalPc == {"wait", "stop", "stopped", "revert", "onStop", "cancelHeader", "closeDB",
             "cancelTicker", "closeQuit", "exit"}

SubscriptionPc == {"none", "listen", "stop", "stopped", "revert", "cancel", "failed", "done"}

\* Where each goroutine can be, and with which object.  The subscription
\* goroutine stops the original, which nobody starts, and so never gets
\* beyond the check of the flag started.
PcInv ==
    /\ pc = [t \in Threads |-> pc[t]]
    /\ obj = [t \in Threads |-> obj[t]]
    /\ pc["main"] \in MainPc /\ obj["main"] \in {"syncer", "aggregator"}
    /\ pc["signal"] \in SignalPc /\ obj["signal"] \in {"syncer", "aggregator"}
    /\ pc["subscription"] \in SubscriptionPc /\ obj["subscription"] = "original"
    /\ pc["main"] \in {"header", "subscribe"} => obj["main"] = "syncer"
    /\ pc["main"] = "serve" => obj["main"] = "aggregator"
    /\ pc["signal"] \in {"wait", "cancelTicker"} => obj["signal"] = "aggregator"
    /\ pc["signal"] \in {"cancelHeader", "closeDB", "exit"} => obj["signal"] = "syncer"
    /\ ~started["original"]

\* OnStart of a service has not been entered before its place in StartCmd.
StartInv ==
    /\ onStarts["original"] =
          IF obj["main"] = "syncer" /\ pc["main"] \in {"start", "started", "revert", "onStart"}
          THEN 0 ELSE 1
    /\ onStarts["aggregator"] = IF pc["main"] = "serve" THEN 1 ELSE 0

\* The handler of the signal is past OnStop of the aggregator, of the syncer.
PastAggregator == obj["signal"] = "syncer" \/ pc["signal"] \in {"cancelTicker", "closeQuit"}

PastSyncer ==
    obj["signal"] = "syncer" /\ pc["signal"] \in {"cancelHeader", "closeDB", "closeQuit", "exit"}

\* Only the handler enters OnStop, of each service at its place; a call of a nil
\* function leaves it there, in a process that has ended.
StopInv ==
    /\ onStops["aggregator"] \in {0, 1} /\ onStops["original"] \in {0, 1}
    /\ ~PastAggregator => onStops["aggregator"] = 0
    /\ proc = "running" /\ ~PastSyncer => onStops["original"] = 0

\* The flag that is taken back after ErrNotStarted is the one that was set: from
\* the compare-and-swap on, and for ever once OnStop is entered, it is set.
FlagInv ==
    /\ pc["signal"] \in {"stopped", "revert", "onStop", "cancelHeader", "closeDB",
                         "cancelTicker", "closeQuit"} => stopped[obj["signal"]]
    /\ "aggregator" \notin openDB => stopped["aggregator"] /\ PastAggregator
    /\ "original" \notin openDB => /\ stopped["syncer"] /\ obj["signal"] = "syncer"
                                   /\ pc["signal"] \in {"closeQuit", "exit"}

LifeInv == TypeOK /\ PcInv /\ StartInv /\ StopInv /\ FlagInv

-----------------------------------------------------------------------------

LEMMA InitLifeInv == Init => LifeInv
<1> SUFFICES ASSUME Init PROVE LifeInv
  OBVIOUS
<1>1. TypeOK
  BY DEF Init, TypeOK, Threads, Objects, Impls
<1>2. PcInv
  BY DEF Init, PcInv, Threads, Objects, MainPc, SignalPc, SubscriptionPc
<1> QED
  BY <1>1, <1>2 DEF Init, LifeInv, StartInv, StopInv, FlagInv, PastAggregator, PastSyncer, Impls

\* What the steps of the main goroutine have in common.
LEMMA MainFrame ==
    ASSUME PcInv, Main
    PROVE  /\ pc' = [t \in Threads |-> pc'[t]] /\ obj' = [t \in Threads |-> obj'[t]]
           /\ obj'["signal"] = obj["signal"] /\ obj'["subscription"] = obj["subscription"]
           /\ pc'["signal"] = pc["signal"]
           /\ pc'["subscription"] \in {pc["subscription"], "listen"}
           /\ proc = "running" /\ UNCHANGED <<stopped, cancelled, quit, openDB, onStops>>
BY DEF PcInv, Threads, Main, Start, StartChecksStopped, StartReverts, SyncerOnStart,
       StartHeaderProcess, StartPolling, StartSubscription, AggregatorOnStart, At, Goto,
       flags, contexts, goroutines

LEMMA MainLifeInv ==
    ASSUME LifeInv, Main
    PROVE  LifeInv'
<1> USE DEF LifeInv, At, Goto, flags, contexts, goroutines
<1> USE MainFrame
<1>1. TypeOK'
  <2>1. started' \in [Objects -> BOOLEAN]
    <3>1. \/ started' = started
          \/ started' = [started EXCEPT ![obj["main"]] = TRUE]
          \/ started' = [started EXCEPT ![obj["main"]] = FALSE]
      BY DEF Main, Start, StartChecksStopped, StartReverts, SyncerOnStart,
             StartHeaderProcess, StartPolling, StartSubscription, AggregatorOnStart
    <3>2. started \in [Objects -> BOOLEAN]
      BY DEF TypeOK
    <3> QED
      BY ONLY <3>1, <3>2
  <2>2. header' \in BOOLEAN /\ ticker' \in BOOLEAN
    BY DEF TypeOK, Main, Start, StartChecksStopped, StartReverts, SyncerOnStart,
           StartHeaderProcess, StartPolling, StartSubscription, AggregatorOnStart
  <2>3. /\ cancel \subseteq cancel' /\ cancel' \subseteq {"subscription", "header", "aggregating"}
        /\ source' \in {"none", "polling", "subscription"}
        /\ proc' \in {"running", "exited", "panicked"}
        /\ onStarts' \in [Impls -> Nat]
    BY DEF TypeOK, Impls, Inc, Main, Start, StartChecksStopped, StartReverts, SyncerOnStart,
           StartHeaderProcess, StartPolling, StartSubscription, AggregatorOnStart
  <2> QED
    BY <2>1, <2>2, <2>3 DEF TypeOK, Threads
<1>2. PcInv'
  BY DEF TypeOK, PcInv, Threads, Objects, MainPc, SubscriptionPc, Main, Start,
         StartChecksStopped, StartReverts, SyncerOnStart, StartHeaderProcess, StartPolling,
         StartSubscription, AggregatorOnStart
<1>3. StartInv'
  BY DEF TypeOK, PcInv, StartInv, Threads, Impls, Inc, MainPc, Main, Start,
         StartChecksStopped, StartReverts, SyncerOnStart, StartHeaderProcess, StartPolling,
         StartSubscription, AggregatorOnStart
<1>4. StopInv' /\ FlagInv'
  BY DEF StopInv, FlagInv, PastAggregator, PastSyncer
<1> QED
  BY <1>1, <1>2, <1>3, <1>4

-----------------------------------------------------------------------------
(* Stopping                                                                 *)

\* The subscription goroutine never enters OnStop: the original is not started.
LEMMA SubscriptionStopsInVain ==
    ASSUME PcInv, Stopping("subscription")
    PROVE  \/ Stop("subscription") \/ StopChecksStarted("subscription")
           \/ StopReverts("subscription")
BY DEF PcInv, SubscriptionPc, Stopping, SyncerOnStop, CancelHeaderProcess, SyncerClosesDB,
       AggregatorOnStop, CancelAggregating, CloseQuit, At

LEMMA SubscriptionStopLifeInv ==
    ASSUME LifeInv, Stopping("subscription")
    PROVE  LifeInv'
<1> USE DEF LifeInv
<1>1. /\ pc' = [t \in Threads |-> pc'[t]] /\ obj' = obj
      /\ pc'["signal"] = pc["signal"] /\ pc'["main"] = pc["main"]
      /\ pc'["subscription"] \in SubscriptionPc
      /\ UNCHANGED <<proc, started, contexts, goroutines, quit, openDB, onStarts, onStops>>
  BY SubscriptionStopsInVain DEF PcInv, Threads, SubscriptionPc, Stop,
     StopChecksStarted, StopReverts, Returned, At, Goto, flags
<1>2. \E b \in BOOLEAN : stopped' = [stopped EXCEPT !["original"] = b]
  <2>1. stopped' = stopped => stopped' = [stopped EXCEPT !["original"] = stopped["original"]]
    BY DEF TypeOK, Objects
  <2>2. stopped["original"] \in BOOLEAN
    BY DEF TypeOK, Objects
  <2>3. \/ stopped' = stopped
        \/ stopped' = [stopped EXCEPT !["original"] = TRUE]
        \/ stopped' = [stopped EXCEPT !["original"] = FALSE]
    BY SubscriptionStopsInVain DEF PcInv, Stop, StopChecksStarted, StopReverts, flags
  <2> QED
    BY <2>1, <2>2, <2>3
<1>3. /\ stopped' \in [Objects -> BOOLEAN]
      /\ stopped'["syncer"] = stopped["syncer"] /\ stopped'["aggregator"] = stopped["aggregator"]
  BY <1>2 DEF TypeOK, Objects
<1>4. TypeOK'
  BY <1>1, <1>3 DEF TypeOK, PcInv, Threads, contexts, goroutines
<1>5. PcInv' /\ StartInv' /\ StopInv'
  BY <1>1 DEF PcInv, StartInv, StopInv, PastAggregator, PastSyncer, contexts, goroutines
<1>6. FlagInv'
  BY <1>1, <1>3 DEF PcInv, FlagInv, PastAggregator
<1> QED
  BY <1>4, <1>5, <1>6

\* The handler of the signal: its steps leave the other goroutines alone.
LEMMA SignalFrame ==
    ASSUME PcInv, Stopping("signal")
    PROVE  /\ pc' = [t \in Threads |-> pc'[t]] /\ obj' = [t \in Threads |-> obj'[t]]
           /\ \A t \in {"main", "subscription"} : pc'[t] = pc[t] /\ obj'[t] = obj[t]
           /\ proc = "running" /\ UNCHANGED <<started, cancel, goroutines, onStarts>>
BY DEF PcInv, Threads, Stopping, Stop, StopChecksStarted, StopReverts, SyncerOnStop,
       CancelHeaderProcess, SyncerClosesDB, AggregatorOnStop, CancelAggregating, CloseQuit,
       Cancel, Returned, At, Goto, flags, contexts, goroutines

LEMMA SignalStopLifeInv ==
    ASSUME LifeInv, Stopping("signal")
    PROVE  LifeInv'
<1> USE SignalFrame DEF LifeInv, At, Goto, Returned, flags, contexts, goroutines
<1>1. CASE Stop("signal")
  <2>1. TypeOK'
    <3>1. stopped' = stopped \/ stopped' = [stopped EXCEPT ![obj["signal"]] = TRUE]
      BY <1>1 DEF Stop
    <3>2. stopped \in [Objects -> BOOLEAN]
      BY DEF TypeOK
    <3>3. stopped' \in [Objects -> BOOLEAN]
      BY ONLY <3>1, <3>2
    <3> QED
      BY <1>1, <3>3 DEF Stop, TypeOK, Threads
  <2>2. PcInv' /\ StartInv'
    BY <1>1 DEF Stop, PcInv, SignalPc, StartInv, Threads
  <2>3. StopInv'
    BY <1>1 DEF Stop, PcInv, Threads, SignalPc, StopInv, TypeOK, Impls, PastAggregator, PastSyncer
  <2>4. FlagInv'
    BY <1>1 DEF Stop, PcInv, Threads, SignalPc, FlagInv, TypeOK, Objects, PastAggregator, PastSyncer
  <2> QED
    BY <2>1, <2>2, <2>3, <2>4
<1>2. CASE StopChecksStarted("signal")
  <2>1. TypeOK'
    BY <1>2 DEF StopChecksStarted, TypeOK, PcInv, Threads, Objects, Impls
  <2>2. PcInv' /\ StartInv'
    BY <1>2 DEF StopChecksStarted, PcInv, SignalPc, StartInv, Threads
  <2>3. StopInv'
    BY <1>2
       DEF StopChecksStarted, PcInv, Threads, SignalPc, StopInv, TypeOK, Impls, PastAggregator,
           PastSyncer
  <2>4. FlagInv'
    BY <1>2
       DEF StopChecksStarted, PcInv, Threads, SignalPc, FlagInv, TypeOK, Objects, PastAggregator,
           PastSyncer
  <2> QED
    BY <2>1, <2>2, <2>3, <2>4
<1>3. CASE StopReverts("signal")
  <2>1. TypeOK'
    BY <1>3 DEF StopReverts, TypeOK, PcInv, Threads, Objects, Impls
  <2>2. PcInv' /\ StartInv'
    BY <1>3 DEF StopReverts, PcInv, SignalPc, StartInv, Threads
  <2>3. StopInv'
    BY <1>3
       DEF StopReverts, PcInv, Threads, SignalPc, StopInv, TypeOK, Impls, PastAggregator, PastSyncer
  <2>4. FlagInv'
    BY <1>3
       DEF StopReverts, PcInv, Threads, SignalPc, FlagInv, TypeOK, Objects, PastAggregator,
           PastSyncer
  <2> QED
    BY <2>1, <2>2, <2>3, <2>4
<1>4. CASE SyncerOnStop("signal")
  <2>1. TypeOK'
    BY <1>4 DEF SyncerOnStop, TypeOK, PcInv, Threads, Objects, Impls, Cancel, Inc, Impl
  <2>2. PcInv' /\ StartInv'
    BY <1>4 DEF SyncerOnStop, PcInv, SignalPc, StartInv, Threads, Cancel, Inc, Impl
  <2>3. StopInv'
    BY <1>4
       DEF SyncerOnStop, PcInv, Threads, SignalPc, StopInv, TypeOK, Impls, PastAggregator,
           PastSyncer, Cancel, Inc, Impl
  <2>4. FlagInv'
    BY <1>4
       DEF SyncerOnStop, PcInv, Threads, SignalPc, FlagInv, TypeOK, Objects, PastAggregator,
           PastSyncer, Cancel, Inc, Impl
  <2> QED
    BY <2>1, <2>2, <2>3, <2>4
<1>5. CASE CancelHeaderProcess("signal")
  <2>1. TypeOK'
    BY <1>5 DEF CancelHeaderProcess, TypeOK, PcInv, Threads, Objects, Impls, Cancel
  <2>2. PcInv' /\ StartInv'
    BY <1>5 DEF CancelHeaderProcess, PcInv, SignalPc, StartInv, Threads, Cancel
  <2>3. StopInv'
    BY <1>5
       DEF CancelHeaderProcess, PcInv, Threads, SignalPc, StopInv, TypeOK, Impls, PastAggregator,
           PastSyncer, Cancel
  <2>4. FlagInv'
    BY <1>5
       DEF CancelHeaderProcess, PcInv, Threads, SignalPc, FlagInv, TypeOK, Objects,
           PastAggregator, PastSyncer, Cancel
  <2> QED
    BY <2>1, <2>2, <2>3, <2>4
<1>6. CASE SyncerClosesDB("signal")
  <2>1. TypeOK'
    BY <1>6 DEF SyncerClosesDB, TypeOK, PcInv, Threads, Objects, Impls
  <2>2. PcInv' /\ StartInv'
    BY <1>6 DEF SyncerClosesDB, PcInv, SignalPc, StartInv, Threads
  <2>3. StopInv'
    BY <1>6
       DEF SyncerClosesDB, PcInv, Threads, SignalPc, StopInv, TypeOK, Impls, PastAggregator,
           PastSyncer
  <2>4. FlagInv'
    BY <1>6
       DEF SyncerClosesDB, PcInv, Threads, SignalPc, FlagInv, TypeOK, Objects, PastAggregator,
           PastSyncer
  <2> QED
    BY <2>1, <2>2, <2>3, <2>4
<1>7. CASE AggregatorOnStop("signal")
  <2>1. TypeOK'
    BY <1>7 DEF AggregatorOnStop, TypeOK, PcInv, Threads, Objects, Impls, Inc
  <2>2. PcInv' /\ StartInv'
    BY <1>7 DEF AggregatorOnStop, PcInv, SignalPc, StartInv, Threads, Inc
  <2>3. StopInv'
    BY <1>7
       DEF AggregatorOnStop, PcInv, Threads, SignalPc, StopInv, TypeOK, Impls, PastAggregator,
           PastSyncer, Inc
  <2>4. FlagInv'
    BY <1>7
       DEF AggregatorOnStop, PcInv, Threads, SignalPc, FlagInv, TypeOK, Objects, PastAggregator,
           PastSyncer, Inc
  <2> QED
    BY <2>1, <2>2, <2>3, <2>4
<1>8. CASE CancelAggregating("signal")
  <2>1. TypeOK'
    BY <1>8 DEF CancelAggregating, TypeOK, PcInv, Threads, Objects, Impls, Cancel
  <2>2. PcInv' /\ StartInv'
    BY <1>8 DEF CancelAggregating, PcInv, SignalPc, StartInv, Threads, Cancel
  <2>3. StopInv'
    BY <1>8
       DEF CancelAggregating, PcInv, Threads, SignalPc, StopInv, TypeOK, Impls, PastAggregator,
           PastSyncer, Cancel
  <2>4. FlagInv'
    BY <1>8
       DEF CancelAggregating, PcInv, Threads, SignalPc, FlagInv, TypeOK, Objects, PastAggregator,
           PastSyncer, Cancel
  <2> QED
    BY <2>1, <2>2, <2>3, <2>4
<1>9. CASE CloseQuit("signal")
  <2>1. TypeOK'
    BY <1>9 DEF CloseQuit, TypeOK, PcInv, Threads, Objects, Impls, Impl
  <2>2. PcInv' /\ StartInv'
    BY <1>9 DEF CloseQuit, PcInv, SignalPc, StartInv, Threads, Impl
  <2>3. StopInv'
    BY <1>9
       DEF CloseQuit, PcInv, Threads, SignalPc, StopInv, TypeOK, Impls, PastAggregator,
           PastSyncer, Impl
  <2>4. FlagInv'
    BY <1>9
       DEF CloseQuit, PcInv, Threads, SignalPc, FlagInv, TypeOK, Objects, PastAggregator,
           PastSyncer, Impl
  <2> QED
    BY <2>1, <2>2, <2>3, <2>4
<1> QED
  BY <1>1, <1>2, <1>3, <1>4, <1>5, <1>6, <1>7, <1>8, <1>9 DEF Stopping

-----------------------------------------------------------------------------
(* The other steps                                                          *)

LEMMA RestLifeInv ==
    ASSUME LifeInv,
           Interrupt \/ Exit \/ SubscriptionFails \/ CancelSubscription \/ Ending
    PROVE  LifeInv'
<1> USE DEF LifeInv, At, Goto, flags, contexts, goroutines
<1>0. /\ UNCHANGED <<started, stopped, obj, cancel, quit, onStarts, onStops>>
      /\ pc' = [t \in Threads |-> pc'[t]] /\ pc'["main"] = pc["main"]
      /\ \/ openDB' = openDB
         \/ proc = "running" /\ pc["signal"] = "exit" /\ openDB' = openDB \ {"global"}
      /\ pc'["signal"] \in {pc["signal"], "stop"}
      /\ pc'["signal"] # pc["signal"] => pc["signal"] = "wait"
      /\ pc'["subscription"] \in {pc["subscription"], "stop", "failed", "done"}
      /\ proc = "running"
  BY DEF PcInv, Threads, Interrupt, Exit, SubscriptionFails, CancelSubscription, Cancel,
         Ending, SubscriptionEnds, PollingEnds, HeaderProcessEnds, AggregatingEnds
<1>1. TypeOK'
  <2>1. header' \in BOOLEAN /\ ticker' \in BOOLEAN
    BY DEF TypeOK, Interrupt, Exit, SubscriptionFails, CancelSubscription, Ending,
           SubscriptionEnds, PollingEnds, HeaderProcessEnds, AggregatingEnds
  <2>2. /\ proc' \in {"running", "exited", "panicked"} /\ cancelled' \subseteq cancel
        /\ source' \in {"none", "polling", "subscription"}
    BY DEF TypeOK, Interrupt, Exit, SubscriptionFails, CancelSubscription, Cancel, Ending,
           SubscriptionEnds, PollingEnds, HeaderProcessEnds, AggregatingEnds
  <2> QED
    BY <1>0, <2>1, <2>2 DEF TypeOK, Threads
<1>2. PcInv'
  BY <1>0 DEF PcInv, SignalPc, SubscriptionPc
<1>3. StartInv' /\ StopInv' /\ FlagInv'
  BY <1>0 DEF PcInv, StartInv, StopInv, FlagInv, PastAggregator, PastSyncer
<1> QED
  BY <1>1, <1>2, <1>3

LEMMA NextLifeInv == LifeInv /\ [Next]_vars => LifeInv'
<1> SUFFICES ASSUME LifeInv, [Next]_vars PROVE LifeInv'
  OBVIOUS
<1>1. CASE UNCHANGED vars
  BY <1>1 DEF vars, flags, contexts, goroutines, LifeInv, TypeOK, PcInv, StartInv, StopInv,
              FlagInv, PastAggregator, PastSyncer
<1> QED
  BY <1>1, MainLifeInv, SignalStopLifeInv, SubscriptionStopLifeInv, RestLifeInv DEF Next

LEMMA LifeInvariant == Spec => []LifeInv
BY InitLifeInv, NextLifeInv, PTL DEF Spec

-----------------------------------------------------------------------------
(* Theorems                                                                 *)

\* Every state of the services is well typed; in particular no context is
\* cancelled through a function that OnStart has not set.
THEOREM LifecycleTypes == Spec => []TypeOK
<1>1. LifeInv => TypeOK
  BY DEF LifeInv
<1> QED
  BY <1>1, LifeInvariant, PTL

\* OnStart and OnStop of each service are entered at most once
\* (core/service.go:59), although the services are started by one goroutine and
\* stopped by two, through two objects with flags of their own.
THEOREM EnteredAtMostOnce == Spec => []CalledAtMostOnce
<1>1. LifeInv => CalledAtMostOnce
  BY DEF LifeInv, StartInv, StopInv, CalledAtMostOnce, Impls
<1> QED
  BY <1>1, LifeInvariant, PTL

\* A service that counts as running has its database open: OnStop, which closes
\* it, is entered with the flag stopped set, and the flag is taken back only
\* before OnStop.
THEOREM RunningServicesHaveDatabases == Spec => []RunningHasDatabase
<1>1. LifeInv => RunningHasDatabase
  BY DEF LifeInv, FlagInv, RunningHasDatabase, IsRunning
<1> QED
  BY <1>1, LifeInvariant, PTL
=============================================================================
