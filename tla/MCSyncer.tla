------------------------------- MODULE MCSyncer -------------------------------
(***************************************************************************)
(* Small instances of the syncer and the chain it follows.                 *)
(***************************************************************************)
EXTENDS Syncer

\* The first account makes every second deposit, the others one each.
MCDepositor == [n \in 1 .. MaxDeposits |-> IF n % 2 = 1 THEN 1 ELSE n]

\* Whether the genesis leaves are ZERO_VALUE_LEAF is up to the contract.
MCEmptyLeaves == {Zero, Blank}

\* The encoding of a state as its four words.
MCFourWords == {Blank}
=============================================================================
