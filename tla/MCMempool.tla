------------------------------ MODULE MCMempool ------------------------------
(***************************************************************************)
(* Small instances of the transaction pool.                                *)
(***************************************************************************)
EXTENDS Mempool

CONSTANTS t1, t2, t3, w1, w2

MCTxs == {t1, t2, t3}
MCWorkers == {w1, w2}
MCUnreadable == {t3}
=============================================================================
