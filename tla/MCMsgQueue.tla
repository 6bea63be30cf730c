----------------------------- MODULE MCMsgQueue -----------------------------
(***************************************************************************)
(* Values of the constants of MsgQueue for TLC.                            *)
(***************************************************************************)
EXTENDS MsgQueue

CONSTANTS s1, r1, r2, i1, n1, n2

OneSender == {s1}
TwoReceivers == {r1, r2}
AllThreads == Senders \cup Receivers
OneIsr == {i1}
TwoNodes == {n1, n2}
=============================================================================
