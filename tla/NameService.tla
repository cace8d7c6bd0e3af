------------------------------ MODULE NameService ------------------------------
(***************************************************************************)
(* What the stations promise to the programs that read their /etc/hosts:   *)
(* a station comes to know the true name of an address it asked for, one   *)
(* address at a time, and keeps what it knows. How requests and replies    *)
(* travel, are repeated and get lost is left open.                         *)
(***************************************************************************)
CONSTANTS Node, HostName, None

VARIABLES hosts,  \* hosts[n][d]: the name of d that n knows, or None
          asked   \* asked[n]: the addresses n asked others about

Init ==
  /\ hosts = [n \in Node |-> [d \in Node |-> IF d = n THEN HostName[n] ELSE None]]
  /\ asked = [n \in Node |-> {}]

\* n asks for a name.
Ask(n, d) ==
  /\ asked' = [asked EXCEPT ![n] = @ \cup {d}]
  /\ UNCHANGED hosts

\* n learns a name it asked for.
Learn(n, d) ==
  /\ d \in asked[n]
  /\ hosts[n][d] = None
  /\ hosts' = [hosts EXCEPT ![n][d] = HostName[d]]
  /\ UNCHANGED asked

Next == \E n, d \in Node : Ask(n, d) \/ Learn(n, d)

Spec == Init /\ [][Next]_<<hosts, asked>>
================================================================================
