------------------------------ MODULE MCCanRx ------------------------------
(***************************************************************************)
(* Values of the constants of CanRx for TLC.                               *)
(***************************************************************************)
EXTENDS CanRx

CONSTANTS n1, n2, n3

OneToThree == {{n1}, {n1, n2}, {n1, n2, n3}}
Two        == {{n1, n2}}

AllWanted == {0}
SecondUnwanted == {0, 2}
=============================================================================
