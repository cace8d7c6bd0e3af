----------------------------- MODULE MCNameSpread -----------------------------
(* Values of the constants of NameSpread for TLC. *)
EXTENDS NameSpread, FiniteSets, TLC

\* One name per station.
MCHostName == [n \in Node |-> n]

Symmetry == Permutations(Node)

FairSpec == Spec /\ Fairness

\* The kernels' next hops lead from n to d.
Reaches(n, d) ==
  LET hop[k \in 0..Cardinality(Node)] ==
        IF k = 0 THEN n
        ELSE IF hop[k - 1] \in {d, None} THEN hop[k - 1]
        ELSE route[hop[k - 1]][d]
  IN hop[Cardinality(Node)] = d

\* The comment of cdf.sh, "the time it took for every station to know all the
\* names they could know": a station whose packets reach d for good comes to
\* know the name of d, provided no process crashes.
KnowsAllItCould ==
  \A n, d \in Node :
    <>[](Reaches(n, d) /\ \A k \in Node : up[k]) => <>Cached(n, d)
=============================================================================
