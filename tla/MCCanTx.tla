------------------------------ MODULE MCCanTx ------------------------------
(***************************************************************************)
(* Values of the constants of CanTx for TLC.                               *)
(***************************************************************************)
EXTENDS CanTx, TLC

CONSTANTS w1, w2

TwoWriters == {w1, w2}
Symmetric == Permutations(TwoWriters)
=============================================================================
