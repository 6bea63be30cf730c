------------------------------ MODULE MCMutex ------------------------------
(***************************************************************************)
(* Values of the constants of Mutex for TLC.                               *)
(***************************************************************************)
EXTENDS Mutex

CONSTANTS low, mid, urgent, high, m1, m2

ThreeThreads == {low, mid, high}
FourThreads  == {low, mid, urgent, high}
TwoMutexes   == {m1, m2}
OneMutex     == {m1}
ThreePrios   == (low :> 10) @@ (mid :> 5) @@ (high :> 3)
FourPrios    == (low :> 10) @@ (mid :> 7) @@ (urgent :> 5) @@ (high :> 3)
MidOnly      == {mid}
UrgentAndHigh == {urgent, high}
=============================================================================
