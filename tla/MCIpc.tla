-------------------------------- MODULE MCIpc --------------------------------
(***************************************************************************)
(* Values of the constants of Ipc for TLC.                                 *)
(***************************************************************************)
EXTENDS Ipc, TLC

CONSTANTS t1, t2, t3, a, b

TwoThreads   == {t1, t2}
ThreeThreads == {t1, t2, t3}
TwoFlags     == {a, b}

(* Both flags, which are then cleared; one of them, which is not.          *)
SomeRequests == {[want |-> {a, b}, all |-> TRUE, clear |-> TRUE],
                 [want |-> {a}, all |-> FALSE, clear |-> FALSE]}
OneEach      == {{a}, {b}}

Symmetric    == Permutations(Threads)

(* Without leaves the other threads of a list in their order.              *)
ASSUME WithoutLeavesOthers ==
  \A n \in 0..3 : \A s \in [1..n -> Threads] : \A T \in SUBSET Threads :
    Without(s, T) = SelectSeq(s, LAMBDA u : u \notin T)
=============================================================================
