---------------------------- MODULE LogFollower ----------------------------
(***************************************************************************)
(* What a follower of a chain promises, whatever it does with the logs: it *)
(* accounts for the entries of the log one after the other, in the order   *)
(* of the log and only when their block is mined, and moves its checkpoint *)
(* to a mined block only when every entry up to that block is accounted    *)
(* for.  Entries may be delivered again; that does not show here.          *)
(***************************************************************************)
EXTENDS Naturals

VARIABLES
    head,       \* the last block mined
    log,        \* the entries, each with the block it is in
    accounted,  \* the entries the follower is done with
    recorded    \* its checkpoint: the last block recorded

fvars == <<head, log, accounted, recorded>>

Init ==
    /\ head = 0
    /\ accounted = {}
    /\ recorded = 0

\* The block under construction gets more entries.
Emit ==
    /\ DOMAIN log \subseteq DOMAIN log'
    /\ \A n \in DOMAIN log : log'[n] = log[n]
    /\ \A n \in DOMAIN log' \ DOMAIN log : log'[n].blk = head + 1
    /\ UNCHANGED <<head, accounted, recorded>>

Mine ==
    /\ head' = head + 1
    /\ UNCHANGED <<log, accounted, recorded>>

Account(n) ==
    /\ log[n].blk <= head
    /\ \A m \in DOMAIN log : m < n => m \in accounted
    /\ accounted' = accounted \cup {n}
    /\ UNCHANGED <<head, log, recorded>>

Record(b) ==
    /\ recorded < b
    /\ \A n \in DOMAIN log : log[n].blk <= b => n \in accounted
    /\ recorded' = b
    /\ UNCHANGED <<head, log, accounted>>

Next ==
    \/ Emit
    \/ Mine
    \/ \E n \in DOMAIN log : Account(n)
    \/ \E b \in 1 .. head : Record(b)

Spec == Init /\ [][Next]_fvars
=============================================================================
