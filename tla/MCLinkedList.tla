----------------------------- MODULE MCLinkedList -----------------------------
(* Constants and symmetry of LinkedList for TLC. *)
EXTENDS LinkedList, TLC

Indices == -1..4
Symmetry == Permutations(Node) \cup Permutations(Thread)
=============================================================================
