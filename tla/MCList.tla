------------------------------- MODULE MCList ------------------------------
(***************************************************************************)
(* A finite instance of the list: items of which two compare equal.        *)
(***************************************************************************)
EXTENDS List, TLC

Keyed == [x \in Items |-> x % 2]
AnyNode == Permutations(Nodes)
AnyIterator == Permutations(Iters)
Interchangeable == AnyNode \cup AnyIterator
=============================================================================
