------------------------------- MODULE MCCfuHash -------------------------------
(* Values of the constants of CfuHash for TLC. *)
EXTENDS CfuHash, TLC, Bitwise

CONSTANTS k1, k2, k3

\* k1 and k3 collide in tables of up to four buckets, all keys in the smallest.
MCHash == k1 :> 1 @@ k2 :> 2 @@ k3 :> 5

MCSizes == {1, 2, 4, 8, 16}

\* The masking of hash_value is a remainder for every size a table can have.
ASSUME \A hv \in 0..40, n \in MCSizes : (hv & (n - 1)) = hv % n

Symmetry == Permutations(Thread) \cup Permutations(Value)
================================================================================
