----------------------------- MODULE MCNodeTimers -----------------------------
(* The fair runs of NodeTimers for TLC. *)
EXTENDS NodeTimers

FairSpec == CountedSpec /\ Fairness
===============================================================================
