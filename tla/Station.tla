-------------------------------- MODULE Station --------------------------------
(***************************************************************************)
(* One station that deals with one event at a time: what a handler does to *)
(* the names it knows, to its pending requests and to its timers, and      *)
(* nothing of when it does so, of the network or of the routing tables.    *)
(*                                                                         *)
(* Every station of NameSpread is such a station, and so is the station of *)
(* NodeThreads as long as its threads and handlers take turns.             *)
(***************************************************************************)
EXTENDS Naturals

CONSTANTS Addr, Self, Requester, None, Local, N_TIMERS

VARIABLES
  hosts,   \* the addresses whose name is known
  pnrs,    \* pnrs[d]: who waits for the name of d
  timers,  \* timers[i]: the address the timer in slot i is for, or None
  asked,   \* the addresses an NREQ was sent for
  up       \* the process runs

vars == <<hosts, pnrs, timers, asked, up>>

Slot == 1..N_TIMERS

Init ==
  /\ hosts = {Self}
  /\ pnrs = [d \in Addr |-> {}]
  /\ timers = [i \in Slot |-> None]
  /\ asked = {}
  /\ up = TRUE

\* The timer for d is started in the first slot that is free in `slots`.
Start(slots, d) ==
  \E i \in Slot : /\ slots[i] = None /\ \A j \in 1..(i - 1) : slots[j] # None
                  /\ timers' = [slots EXCEPT ![i] = d]

Ask(d) == asked' = asked \cup {d}

\* A request is new, for which a timer is needed, or one more waits for it.
Register(d, q) ==
  /\ pnrs' = [pnrs EXCEPT ![d] = @ \cup {q}]
  /\ \/ pnrs[d] # {} /\ UNCHANGED timers
     \/ pnrs[d] = {} /\ Start(timers, d)
  /\ UNCHANGED up

\* There is no slot for it.
Crash(d, q) ==
  /\ pnrs[d] = {} /\ \A i \in Slot : timers[i] # None
  /\ pnrs' = [pnrs EXCEPT ![d] = {q}]
  /\ up' = FALSE
  /\ UNCHANGED timers

\* A route to d has come: its name is asked for unless it is known.
NewRoute(d) ==
  /\ d \notin hosts
  /\ \/ pnrs[d] # {} /\ Ask(d) /\ UNCHANGED <<pnrs, timers, up>>
     \/ pnrs[d] = {} /\ Register(d, Local) /\ Ask(d)
     \/ Crash(d, Local) /\ UNCHANGED asked
  /\ UNCHANGED hosts

\* A route to d has gone: nobody waits any more. Names and timers stay.
LostRoute(d) ==
  /\ pnrs' = [pnrs EXCEPT ![d] = {}]
  /\ UNCHANGED <<hosts, timers, asked, up>>

\* q wants a name that is not known.
Wanted(d, q) ==
  /\ d \notin hosts
  /\ Register(d, q) \/ Crash(d, q)
  /\ UNCHANGED <<hosts, asked>>

\* A name that was asked for is learnt; nobody waits any more.
Learn(d) ==
  /\ d \in asked \ hosts
  /\ hosts' = hosts \cup {d}
  /\ pnrs' = [pnrs EXCEPT ![d] = {}]
  /\ UNCHANGED <<timers, asked, up>>

\* The timer in slot i has expired: the request is repeated, and timed again,
\* only if somebody waits.
Expired(i) ==
  LET d == timers[i]
      freed == [timers EXCEPT ![i] = None]
  IN
  /\ d # None
  /\ \/ timers' = freed /\ UNCHANGED asked
     \/ pnrs[d] # {} /\ Start(freed, d) /\ Ask(d)
  /\ UNCHANGED <<hosts, pnrs, up>>

Next ==
  /\ up
  /\ \/ \E d \in Addr : NewRoute(d) \/ LostRoute(d) \/ Learn(d)
     \/ \E d \in Addr, q \in Requester : Wanted(d, q)
     \/ \E i \in Slot : Expired(i)

Spec == Init /\ [][Next]_vars
================================================================================
