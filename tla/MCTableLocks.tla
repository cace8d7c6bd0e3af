----------------------------- MODULE MCTableLocks -----------------------------
(* The specification of TableLocks for TLC, with fairness. *)
EXTENDS TableLocks

FairSpec == Spec /\ Fairness
=============================================================================
