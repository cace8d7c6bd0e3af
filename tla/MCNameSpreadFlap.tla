--------------------------- MODULE MCNameSpreadFlap ---------------------------
(***************************************************************************)
(* Routes that come and go. Only those to some destinations do, so that    *)
(* they can do so often enough to use up the timer slots.                  *)
(***************************************************************************)
EXTENDS MCNameSpread

CONSTANT Dest  \* the destinations whose routes change

FlapSymmetry == Permutations(Dest) \cup Permutations(Node \ Dest)

FlapNext ==
  \/ \E n \in Node, d \in Dest, h \in Node \cup {None} : KernelRoute(n, d, h)
  \/ Protocol

FlapSpec == Init /\ [][FlapNext]_vars
===============================================================================
