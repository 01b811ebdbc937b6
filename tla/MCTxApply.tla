------------------------------ MODULE MCTxApply ------------------------------
(***************************************************************************)
(* A small instance of the application of transactions: two funded leaves  *)
(* and an empty one; a transfer, one that spends what it brings, one to    *)
(* oneself, one to a leaf that is not there, a create2transfer, a mass     *)
(* migration, and a deposit, which ApplyTx does not know.                  *)
(***************************************************************************)
EXTENDS TxApply

Tx(type, from, to, amount, fee, nonce) ==
    [type |-> type, from |-> from, to |-> to, amount |-> amount, fee |-> fee, nonce |-> nonce]

MCDetails ==
    <<Tx("transfer", 0, 1, 2, 1, 0),
      Tx("transfer", 1, 0, 2, 1, 0),
      Tx("transfer", 0, 0, 1, 1, 0),
      Tx("create2transfer", 0, 3, 1, 0, 0),
      Tx("create2transfer", 1, 2, 1, 1, 0),
      Tx("massmigration", 0, 1, 1, 1, 1),
      Tx("deposit", 0, 1, 1, 0, 0)>>

MCTxs == DOMAIN MCDetails

MCInitStates == [k \in 0 .. 2 |-> IF k = 2 THEN <<>> ELSE IF k = 0 THEN <<3, 0>> ELSE <<1, 0>>]
=============================================================================
