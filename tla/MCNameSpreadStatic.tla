-------------------------- MODULE MCNameSpreadStatic --------------------------
(***************************************************************************)
(* Liveness. The routing daemon has converged, in any way whatever (paths  *)
(* through other stations, loops and black holes included), the kernel's   *)
(* additions wait to be read in any order, and nothing changes any more.   *)
(***************************************************************************)
EXTENDS MCNameSpread, SequencesExt

CONSTANT Dest  \* the destinations with routes

Additions(n) ==
  {[kind |-> "add", dst |-> d, via |-> route[n][d]] :
      d \in {d \in Node : route[n][d] # None}}

StaticInit ==
  /\ \E hop \in [Node -> [Dest -> Node \cup {None}]] :
       /\ \A n \in Node, d \in Dest : hop[n][d] # n /\ (d = n => hop[n][d] = None)
       /\ route = [n \in Node |-> [d \in Node |-> IF d \in Dest THEN hop[n][d] ELSE None]]
  /\ events \in {ev \in [Node -> UNION {SetToSeqs(Additions(n)) : n \in Node}] :
                  \A n \in Node : ev[n] \in SetToSeqs(Additions(n))}
  /\ StationsStart

StaticSpec == StaticInit /\ [][Next]_vars /\ Fairness

\* Every station comes to know the names of all stations its packets reach,
\* although a request may arrive before the station asked has noticed its own
\* route, and datagrams may get lost (timeout_handler repeats the request).
EventuallyNamed ==
  \A n, d \in Node : [](Reaches(n, d) => <>Cached(n, d))

\* A station whose packets reach every station it has a route to comes to rest:
\* no request is left pending and no timer left running, although timers are
\* not cancelled when the name arrives (listen_for_nreqs, timeout_handler).
EventuallyQuiet ==
  (\A n, d \in Node : route[n][d] # None => Reaches(n, d))
     => <>[](\A n \in Node : /\ \A i \in Slot : timers[n][i] = None
                             /\ \A d \in Node : ~Pending(n, d))
=============================================================================
