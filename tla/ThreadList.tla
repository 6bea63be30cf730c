----------------------------- MODULE ThreadList -----------------------------
(***************************************************************************)
(* The list of the threads suspended on a kernel object, from its head to  *)
(* its tail.                                                               *)
(***************************************************************************)
EXTENDS Integers, Sequences, FiniteSets

(* The n-th smallest number of a set.                                      *)
UpTo(S, i) == {j \in S : j <= i}
Nth(S, n)  == CHOOSE i \in S : Cardinality(UpTo(S, i)) = n

(* rt_list_remove of the nodes of the threads of T, which may or may not   *)
(* be on this list: the others stay, in their order.                       *)
Without(list, T) ==
  LET kept == {i \in 1..Len(list) : list[i] \notin T}
  IN  [n \in 1..Cardinality(kept) |-> list[Nth(kept, n)]]
=============================================================================
