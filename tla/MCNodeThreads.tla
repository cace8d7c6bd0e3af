----------------------------- MODULE MCNodeThreads -----------------------------
(* Values of the constants of NodeThreads for TLC. *)
EXTENDS NodeThreads, TLC

Symmetry == Permutations(Addr \ {Self}) \cup Permutations(Handler)
=============================================================================
