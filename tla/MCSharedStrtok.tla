---------------------------- MODULE MCSharedStrtok ----------------------------
(* Symmetry of SharedStrtok for TLC. *)
EXTENDS SharedStrtok, TLC

Symmetry == Permutations(Handler)
=============================================================================
