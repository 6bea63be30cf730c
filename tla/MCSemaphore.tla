---------------------------- MODULE MCSemaphore ----------------------------
(***************************************************************************)
(* Values of the constants of Semaphore for TLC.                           *)
(***************************************************************************)
EXTENDS Semaphore, TLC

CONSTANTS t1, t2, t3

TwoThreads   == {t1, t2}
ThreeThreads == {t1, t2, t3}
Symmetric    == Permutations(Threads)
=============================================================================
