------------------------------ MODULE Lifecycle ------------------------------
(***************************************************************************)
(* How the node starts and stops its two services (core/service.go,        *)
(* cmd/start.go, and OnStart and OnStop of the syncer and the aggregator). *)
(* Three goroutines call Start and Stop: the main one, the handler of the  *)
(* interrupt signal and the one that watches the subscription to new       *)
(* heads.                                                                  *)
(*                                                                         *)
(* NewSyncer returns a copy of the object it creates.  Start and Stop of   *)
(* the copy run OnStart and OnStop of the original (impl), whose own flags *)
(* nobody sets; the two share one quit channel.                            *)
(***************************************************************************)
EXTENDS Integers

\* The objects with the flags of a BaseService.
Objects == {"aggregator", "syncer", "original"}

\* bs.impl, which is also the owner of the quit channel.
Impl(o) == IF o = "aggregator" THEN "aggregator" ELSE "original"
Impls == {"aggregator", "original"}

Threads == {"main", "signal", "subscription"}

VARIABLES
    proc,       \* the process: "running", "exited" or "panicked"
    started, stopped,   \* the flags of each object
    pc,         \* what each goroutine does next
    obj,        \* the object whose Start or Stop it is in
    cancel,     \* cancel functions that OnStart has set
    cancelled,  \* contexts that are cancelled
    source,     \* where headers come from
    header,     \* the goroutine of startHeaderProcess
    ticker,     \* the goroutine of startAggregating
    quit,       \* the quit channels that are closed
    openDB,     \* the database handles that are open
    onStarts, onStops   \* history: how often OnStart and OnStop were entered

flags == <<started, stopped>>
contexts == <<cancel, cancelled>>
goroutines == <<source, header, ticker>>
vars == <<proc, flags, pc, obj, contexts, goroutines, quit, openDB, onStarts, onStops>>

Init ==
    /\ proc = "running"
    /\ started = [o \in Objects |-> FALSE]
    /\ stopped = [o \in Objects |-> FALSE]
    /\ pc = [main |-> "start", signal |-> "wait", subscription |-> "none"]
    /\ obj = [main |-> "syncer", signal |-> "aggregator", subscription |-> "original"]
    /\ cancel = {}
    /\ cancelled = {}
    /\ source = "none"
    /\ header = FALSE
    /\ ticker = FALSE
    /\ quit = {}
    /\ openDB = {"aggregator", "original", "global"}
    /\ onStarts = [i \in Impls |-> 0]
    /\ onStops = [i \in Impls |-> 0]

At(t, step) == proc = "running" /\ pc[t] = step

Goto(t, step) == pc' = [pc EXCEPT ![t] = step]

Inc(f, i) == [f EXCEPT ![i] = @ + 1]

-----------------------------------------------------------------------------
(* Start, called by the main goroutine only                                *)

\* The compare-and-swap on started; if it fails, or if the service is found
\* stopped in the next step, StartCmd ends the process with log.Fatalln.
Start ==
    LET o == obj["main"] IN
    /\ At("main", "start")
    /\ IF started[o]
       THEN proc' = "exited" /\ UNCHANGED <<started, pc>>
       ELSE /\ started' = [started EXCEPT ![o] = TRUE]
            /\ Goto("main", "started")
            /\ UNCHANGED proc
    /\ UNCHANGED <<stopped, obj, contexts, goroutines, quit, openDB, onStarts, onStops>>

StartChecksStopped ==
    LET o == obj["main"] IN
    /\ At("main", "started")
    /\ Goto("main", IF stopped[o] THEN "revert" ELSE "onStart")
    /\ UNCHANGED <<proc, flags, obj, contexts, goroutines, quit, openDB, onStarts, onStops>>

StartReverts ==
    /\ At("main", "revert")
    /\ started' = [started EXCEPT ![obj["main"]] = FALSE]
    /\ proc' = "exited"
    /\ UNCHANGED <<stopped, pc, obj, contexts, goroutines, quit, openDB, onStarts, onStops>>

\* The syncer's OnStart, up to the first cancel function.
SyncerOnStart ==
    /\ At("main", "onStart") /\ obj["main"] = "syncer"
    /\ cancel' = cancel \cup {"subscription"}
    /\ onStarts' = Inc(onStarts, "original")
    /\ Goto("main", "header")
    /\ UNCHANGED <<proc, flags, obj, cancelled, goroutines, quit, openDB, onStops>>

StartHeaderProcess ==
    /\ At("main", "header")
    /\ cancel' = cancel \cup {"header"}
    /\ header' = TRUE
    /\ Goto("main", "subscribe")
    /\ UNCHANGED <<proc, flags, obj, cancelled, source, ticker, quit, openDB, onStarts, onStops>>

\* SubscribeNewHead fails (an HTTP endpoint): the head is polled.
StartPolling ==
    /\ At("main", "subscribe")
    /\ source' = "polling"
    /\ obj' = [obj EXCEPT !["main"] = "aggregator"]
    /\ Goto("main", "start")
    /\ UNCHANGED <<proc, flags, contexts, header, ticker, quit, openDB, onStarts, onStops>>

StartSubscription ==
    /\ At("main", "subscribe")
    /\ source' = "subscription"
    /\ obj' = [obj EXCEPT !["main"] = "aggregator"]
    /\ pc' = [pc EXCEPT !["main"] = "start", !["subscription"] = "listen"]
    /\ UNCHANGED <<proc, flags, contexts, header, ticker, quit, openDB, onStarts, onStops>>

AggregatorOnStart ==
    /\ At("main", "onStart") /\ obj["main"] = "aggregator"
    /\ cancel' = cancel \cup {"aggregating"}
    /\ ticker' = TRUE
    /\ onStarts' = Inc(onStarts, "aggregator")
    /\ Goto("main", "serve")
    /\ UNCHANGED <<proc, flags, obj, cancelled, source, header, quit, openDB, onStops>>

-----------------------------------------------------------------------------
(* Stop, called by the signal handler and the subscription goroutine       *)

\* Where a goroutine goes on when its Stop has returned, whatever the result.
Returned(t) ==
    IF t = "subscription" THEN pc' = [pc EXCEPT ![t] = "cancel"] /\ UNCHANGED obj
    ELSE IF obj[t] = "aggregator"
         THEN /\ pc' = [pc EXCEPT ![t] = "stop"]
              /\ obj' = [obj EXCEPT ![t] = "syncer"]
         ELSE pc' = [pc EXCEPT ![t] = "exit"] /\ UNCHANGED obj

\* Mutant: the flag is left alone.
StopUnmarked(t) ==
    /\ At(t, "stop")
    /\ Goto(t, "stopped")
    /\ UNCHANGED <<proc, flags, obj, contexts, goroutines, quit, openDB, onStarts, onStops>>

Stop(t) ==
    LET o == obj[t] IN
    /\ At(t, "stop")
    /\ IF stopped[o]
       THEN Returned(t) /\ UNCHANGED stopped
       ELSE /\ stopped' = [stopped EXCEPT ![o] = TRUE]
            /\ Goto(t, "stopped")
            /\ UNCHANGED obj
    /\ UNCHANGED <<proc, started, contexts, goroutines, quit, openDB, onStarts, onStops>>

\* Mutant: a service that was not started is stopped all the same.
StopWithoutCheck(t) ==
    /\ At(t, "stopped")
    /\ Goto(t, "onStop")
    /\ UNCHANGED <<proc, flags, obj, contexts, goroutines, quit, openDB, onStarts, onStops>>

StopChecksStarted(t) ==
    /\ At(t, "stopped")
    /\ Goto(t, IF started[obj[t]] THEN "onStop" ELSE "revert")
    /\ UNCHANGED <<proc, flags, obj, contexts, goroutines, quit, openDB, onStarts, onStops>>

\* ErrNotStarted
StopReverts(t) ==
    /\ At(t, "revert") /\ t # "main"
    /\ stopped' = [stopped EXCEPT ![obj[t]] = FALSE]
    /\ Returned(t)
    /\ UNCHANGED <<proc, started, contexts, goroutines, quit, openDB, onStarts, onStops>>

\* Mutant: a cancel function that is not set is taken for a no-op.
CancelAnyway(t, c, next) ==
    cancelled' = cancelled \cup {c} /\ Goto(t, next) /\ UNCHANGED proc

\* A call of a cancel function; that of a nil one panics.
Cancel(t, c, next) ==
    IF c \in cancel
    THEN cancelled' = cancelled \cup {c} /\ Goto(t, next) /\ UNCHANGED proc
    ELSE proc' = "panicked" /\ UNCHANGED <<cancelled, pc>>

SyncerOnStop(t) ==
    /\ At(t, "onStop") /\ Impl(obj[t]) = "original"
    /\ onStops' = Inc(onStops, "original")
    /\ Cancel(t, "subscription", "cancelHeader")
    /\ UNCHANGED <<flags, obj, cancel, goroutines, quit, openDB, onStarts>>

CancelHeaderProcess(t) ==
    /\ At(t, "cancelHeader")
    /\ Cancel(t, "header", "closeDB")
    /\ UNCHANGED <<flags, obj, cancel, goroutines, quit, openDB, onStarts, onStops>>

SyncerClosesDB(t) ==
    /\ At(t, "closeDB")
    /\ openDB' = openDB \ {"original"}
    /\ Goto(t, "closeQuit")
    /\ UNCHANGED <<proc, flags, obj, contexts, goroutines, quit, onStarts, onStops>>

\* The aggregator closes its database first.
AggregatorOnStop(t) ==
    /\ At(t, "onStop") /\ obj[t] = "aggregator"
    /\ onStops' = Inc(onStops, "aggregator")
    /\ openDB' = openDB \ {"aggregator"}
    /\ Goto(t, "cancelTicker")
    /\ UNCHANGED <<proc, flags, obj, contexts, goroutines, quit, onStarts>>

CancelAggregating(t) ==
    /\ At(t, "cancelTicker")
    /\ Cancel(t, "aggregating", "closeQuit")
    /\ UNCHANGED <<flags, obj, cancel, goroutines, quit, openDB, onStarts, onStops>>

\* Closing a closed channel panics.
CloseQuit(t) ==
    LET q == Impl(obj[t]) IN
    /\ At(t, "closeQuit")
    /\ IF q \in quit
       THEN proc' = "panicked" /\ UNCHANGED <<quit, pc, obj>>
       ELSE quit' = quit \cup {q} /\ Returned(t) /\ UNCHANGED proc
    /\ UNCHANGED <<flags, contexts, goroutines, openDB, onStarts, onStops>>

-----------------------------------------------------------------------------
(* The signal handler and the goroutines                                   *)

\* The handler is installed before the services are started.
Interrupt ==
    /\ At("signal", "wait")
    /\ Goto("signal", "stop")
    /\ UNCHANGED <<proc, flags, obj, contexts, goroutines, quit, openDB, onStarts, onStops>>

\* Mutant: the handler waits for the next signal instead of ending the process.
WaitAgain ==
    /\ At("signal", "exit")
    /\ openDB' = openDB \ {"global"}
    /\ Goto("signal", "idle")
    /\ UNCHANGED <<proc, flags, obj, contexts, goroutines, quit, onStarts, onStops>>

Exit ==
    /\ At("signal", "exit")
    /\ openDB' = openDB \ {"global"}
    /\ proc' = "exited"
    /\ UNCHANGED <<flags, pc, obj, contexts, goroutines, quit, onStarts, onStops>>

\* The node closes the subscription: the goroutine stops the service, that is
\* the original it runs on.
SubscriptionFails ==
    /\ At("subscription", "listen")
    /\ Goto("subscription", "stop")
    /\ UNCHANGED <<proc, flags, obj, contexts, goroutines, quit, openDB, onStarts, onStops>>

CancelSubscription ==
    /\ At("subscription", "cancel")
    /\ Cancel("subscription", "subscription", "failed")
    /\ source' = "none"
    /\ UNCHANGED <<flags, obj, cancel, header, ticker, quit, openDB, onStarts, onStops>>

SubscriptionEnds ==
    /\ At("subscription", "listen") /\ "subscription" \in cancelled
    /\ Goto("subscription", "done")
    /\ source' = "none"
    /\ UNCHANGED <<proc, flags, obj, contexts, header, ticker, quit, openDB, onStarts, onStops>>

PollingEnds ==
    /\ proc = "running" /\ source = "polling" /\ "subscription" \in cancelled
    /\ source' = "none"
    /\ UNCHANGED <<proc, flags, pc, obj, contexts, header, ticker, quit, openDB, onStarts, onStops>>

HeaderProcessEnds ==
    /\ proc = "running" /\ header /\ "header" \in cancelled
    /\ header' = FALSE
    /\ UNCHANGED <<proc, flags, pc, obj, contexts, source, ticker, quit, openDB, onStarts, onStops>>

AggregatingEnds ==
    /\ proc = "running" /\ ticker /\ "aggregating" \in cancelled
    /\ ticker' = FALSE
    /\ UNCHANGED <<proc, flags, pc, obj, contexts, source, header, quit, openDB, onStarts, onStops>>

Main ==
    \/ Start \/ StartChecksStopped \/ StartReverts
    \/ SyncerOnStart \/ StartHeaderProcess \/ StartPolling \/ StartSubscription
    \/ AggregatorOnStart

Stopping(t) ==
    \/ Stop(t) \/ StopChecksStarted(t) \/ StopReverts(t)
    \/ SyncerOnStop(t) \/ CancelHeaderProcess(t) \/ SyncerClosesDB(t)
    \/ AggregatorOnStop(t) \/ CancelAggregating(t)
    \/ CloseQuit(t)

Ending == SubscriptionEnds \/ PollingEnds \/ HeaderProcessEnds \/ AggregatingEnds

Next ==
    \/ Main
    \/ \E t \in {"signal", "subscription"} : Stopping(t)
    \/ Interrupt \/ Exit
    \/ SubscriptionFails \/ CancelSubscription
    \/ Ending

Spec == Init /\ [][Next]_vars

\* Fairness: the Go scheduler runs every goroutine that can run; nothing is
\* assumed of the user's interrupt or of the subscription.
FairSpec ==
    /\ Spec
    /\ WF_vars(Main)
    /\ WF_vars(Stopping("signal") \/ Exit)
    /\ WF_vars(Stopping("subscription") \/ CancelSubscription)
    /\ WF_vars(Ending)

-----------------------------------------------------------------------------
(* Properties                                                               *)

IsRunning(o) == started[o] /\ ~stopped[o]

TypeOK ==
    /\ proc \in {"running", "exited", "panicked"}
    /\ started \in [Objects -> BOOLEAN] /\ stopped \in [Objects -> BOOLEAN]
    /\ DOMAIN pc = Threads /\ DOMAIN obj = Threads
    /\ cancelled \subseteq cancel /\ cancel \subseteq {"subscription", "header", "aggregating"}
    /\ source \in {"none", "polling", "subscription"}
    /\ header \in BOOLEAN /\ ticker \in BOOLEAN
    /\ quit \subseteq Impls
    /\ openDB \subseteq Impls \cup {"global"}
    /\ onStarts \in [Impls -> Nat] /\ onStops \in [Impls -> Nat]

\* core/service.go:59, "In the absence of errors, these methods are guaranteed
\* to be called at most once": although the signal handler and the
\* subscription goroutine may both stop the syncer, through different objects,
\* OnStart and OnStop of a service are entered at most once.
CalledAtMostOnce == \A i \in Impls : onStarts[i] <= 1 /\ onStops[i] <= 1

\* No service that counts as running works on a closed database: the flags are
\* those of the syncer's copy, the handle is closed by OnStop of the original,
\* which the subscription goroutine calls Stop on as well.
RunningHasDatabase ==
    /\ "original" \notin openDB => ~IsRunning("syncer")
    /\ "aggregator" \notin openDB => ~IsRunning("aggregator")

\* An interrupt ends the process, whatever Start or Stop is under way: no
\* goroutine waits for another in the shutdown.
InterruptEnds == (pc["signal"] = "stop") ~> (proc # "running")

=============================================================================
