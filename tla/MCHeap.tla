------------------------------- MODULE MCHeap -------------------------------
(***************************************************************************)
(* Values of the constants of Heap for TLC.                                *)
(***************************************************************************)
EXTENDS Heap, TLC

CONSTANTS b1, b2, b3

ThreeBlocks == {b1, b2, b3}
Symmetric   == Permutations(Blocks)
=============================================================================
