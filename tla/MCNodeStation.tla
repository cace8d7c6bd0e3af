----------------------------- MODULE MCNodeStation -----------------------------
(* Symmetry of NodeStation for TLC. *)
EXTENDS NodeStation, TLC

Symmetry == Permutations(Addr \ {Self}) \cup Permutations(Handler)
================================================================================
