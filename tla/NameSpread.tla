------------------------------ MODULE NameSpread ------------------------------
(***************************************************************************)
(* The name resolution protocol of nameSPREAD: a set of stations, each     *)
(* with a name cache (/etc/hosts), a table of pending name requests        *)
(* (pnrs), a table of running timers and a kernel routing table, that      *)
(* exchange NREQ and NREP datagrams over UDP.                              *)
(*                                                                         *)
(* Granularity: one action per event handled (a line of `ip monitor        *)
(* route`, a datagram, a timer expiry), with everything the handler does.  *)
(* What is shown here is about datagrams, lines and expiries in any order, *)
(* for stations whose threads and handlers do not overlap; what becomes of *)
(* a station when they do is the subject of NodeThreads and NodeTimers.    *)
(*                                                                         *)
(* Abstraction: an address is the station that owns it; a requesters list  *)
(* is the set of its values (a list never holds an address twice, see      *)
(* exists_in_list), Local standing for the NULL value; {} is "no entry",   *)
(* for a list always has a head; logging and statistics are left out.      *)
(***************************************************************************)
EXTENDS Naturals, Sequences

CONSTANTS
  Node,             \* the stations, also their addresses
  Name,             \* host names
  HostName,         \* HostName[n]: the name in /etc/hostname of station n
  None,             \* C's NULL: no name, no route, no entry
  Local,            \* the NULL requester: the station asks for itself
  N_TIMERS,         \* length of timer_ids
  MaxRouteChanges,  \* bound: kernel routing changes in a behaviour
  MaxLosses         \* bound: datagrams lost in a behaviour

ASSUME ConstantsAssumption ==
  /\ HostName \in [Node -> Name]
  /\ None \notin Node /\ None \notin Name
  /\ Local \notin Node
  /\ N_TIMERS \in Nat \ {0}
  /\ MaxRouteChanges \in Nat /\ MaxLosses \in Nat

VARIABLES
  route,         \* route[n][d]: next hop of n for d in the kernel, or None
  events,        \* events[n]: lines of `ip monitor route` not yet read
  hosts,         \* hosts[n][d]: the name of d in /etc/hosts of n, or None
  pnrs,          \* pnrs[n][d]: requesters waiting at n for the name of d
  timers,        \* timers[n][i]: the address timer slot i is for, or None
  nreqs, nreps,  \* datagrams in flight
  up,            \* up[n]: the process of station n has not crashed
  routeChanges,  \* number of kernel routing changes so far
  losses,        \* number of datagrams lost so far
  asked          \* history: asked[n], the addresses n sent an NREQ for

kernel == <<route, events, routeChanges>>
net == <<nreqs, nreps, losses>>
vars == <<kernel, hosts, pnrs, timers, net, up, asked>>

Slot == 1..N_TIMERS
RouteEvent == [kind : {"add", "del"}, dst : Node, via : Node]
Nreq == [from : Node, to : Node, addr : Node]
Nrep == [to : Node, addr : Node, name : Name]

TypeOK ==
  /\ route \in [Node -> [Node -> Node \cup {None}]]
  /\ events \in [Node -> Seq(RouteEvent)]
  /\ hosts \in [Node -> [Node -> Name \cup {None}]]
  /\ pnrs \in [Node -> [Node -> SUBSET (Node \cup {Local})]]
  /\ timers \in [Node -> [Slot -> Node \cup {None}]]
  /\ nreqs \subseteq Nreq
  /\ nreps \subseteq Nrep
  /\ up \in [Node -> BOOLEAN]
  /\ routeChanges \in Nat /\ losses \in Nat
  /\ asked \in [Node -> SUBSET Node]

\* Every process starts with its station's own line in /etc/hosts and empty
\* tables.
StationsStart ==
  /\ hosts = [n \in Node |-> [d \in Node |-> IF d = n THEN HostName[n] ELSE None]]
  /\ pnrs = [n \in Node |-> [d \in Node |-> {}]]
  /\ timers = [n \in Node |-> [i \in Slot |-> None]]
  /\ nreqs = {} /\ nreps = {}
  /\ up = [n \in Node |-> TRUE]
  /\ routeChanges = 0 /\ losses = 0
  /\ asked = [n \in Node |-> {}]

\* manet.py starts it before the routing daemon.
Init ==
  /\ route = [n \in Node |-> [d \in Node |-> None]]
  /\ events = [n \in Node |-> <<>>]
  /\ StationsStart

-----------------------------------------------------------------------------
(* Helpers shared by the handlers *)

\* get_name_by_addr: some line of /etc/hosts has the address.
Cached(n, d) == hosts[n][d] # None

Pending(n, d) == pnrs[n][d] # {}

\* next_free_timer_id: the first slot holding 0.
IsNextFree(slots, i) == slots[i] = None /\ \A j \in 1..(i - 1) : slots[j] # None

\* make_timer and the entry in the timers table.
MakeTimer(slots, i, d) == [slots EXCEPT ![i] = d]

\* route_exists: the next hop `route -n` shows, or NULL.
RouteExists(n, d) == route[n][d]

\* exists_in_list and push: an address is added unless it is in the list.
AddRequester(list, requester) == list \cup {requester}

\* cache_name: a line is appended unless the address has one.
CacheName(n, d, name) ==
  hosts' = IF Cached(n, d) THEN hosts ELSE [hosts EXCEPT ![n][d] = name]

\* remove_name: /etc/hosts is rewritten without the lines of the address.
RemoveName(n, d) == hosts' = [hosts EXCEPT ![n][d] = None]

\* respond_to_pnrs: an NREP to every requester but the station itself.
RespondToPnrs(n, d, name) ==
  {[to |-> q, addr |-> d, name |-> name] : q \in pnrs[n][d] \ {Local}}

\* request_name: one NREQ to the next hop.
RequestName(n, d, next_hop) ==
  /\ nreqs' = nreqs \cup {[from |-> n, to |-> next_hop, addr |-> d]}
  /\ asked' = [asked EXCEPT ![n] = @ \cup {d}]
  /\ UNCHANGED <<nreps, losses>>

\* register_nreq with a free timer slot, or with the entry already there.
RegisterNreq(n, d, requester) ==
  /\ pnrs' = [pnrs EXCEPT ![n][d] = AddRequester(@, requester)]
  /\ \/ /\ Pending(n, d)
        /\ UNCHANGED timers
     \/ /\ ~Pending(n, d)
        /\ \E i \in Slot : /\ IsNextFree(timers[n], i)
                           /\ timers' = [timers EXCEPT ![n] = MakeTimer(@, i, d)]
  /\ UNCHANGED up

\* register_nreq when next_free_timer_id returns NULL, which is dereferenced.
RegisterNreqCrash(n, d, requester) ==
  /\ ~Pending(n, d)
  /\ \A i \in Slot : timers[n][i] # None
  /\ pnrs' = [pnrs EXCEPT ![n][d] = {requester}]
  /\ up' = [up EXCEPT ![n] = FALSE]
  /\ UNCHANGED timers

-----------------------------------------------------------------------------
(* The kernel's routing table, written by the routing daemon *)

KernelRoute(n, d, next_hop) ==
  /\ n # d /\ next_hop # n /\ route[n][d] # next_hop
  /\ routeChanges < MaxRouteChanges
  /\ routeChanges' = routeChanges + 1
  /\ route' = [route EXCEPT ![n][d] = next_hop]
  /\ events' = [events EXCEPT ![n] =
                  Append(@, IF next_hop = None
                            THEN [kind |-> "del", dst |-> d, via |-> route[n][d]]
                            ELSE [kind |-> "add", dst |-> d, via |-> next_hop])]
  /\ UNCHANGED <<hosts, pnrs, timers, net, up, asked>>

-----------------------------------------------------------------------------
(* watch_routes *)

ReadEvent(n, kind) ==
  /\ up[n]
  /\ events[n] # <<>>
  /\ Head(events[n]).kind = kind
  /\ events' = [events EXCEPT ![n] = Tail(@)]
  /\ UNCHANGED <<route, routeChanges>>

\* A new route, the destination's name being cached.
RouteAddedCached(n) ==
  /\ ReadEvent(n, "add")
  /\ Cached(n, Head(events[n]).dst)
  /\ UNCHANGED <<hosts, pnrs, timers, net, up, asked>>

\* A new route, the name having been requested already: ask the new next hop.
RouteAddedPending(n) ==
  LET e == Head(events[n]) IN
  /\ ReadEvent(n, "add")
  /\ ~Cached(n, e.dst) /\ Pending(n, e.dst)
  /\ RequestName(n, e.dst, e.via)
  /\ UNCHANGED <<hosts, pnrs, timers, up>>

\* A new route to a destination with no name and no pending request.
RouteAddedNew(n) ==
  LET e == Head(events[n]) IN
  /\ ReadEvent(n, "add")
  /\ ~Cached(n, e.dst) /\ ~Pending(n, e.dst)
  /\ RegisterNreq(n, e.dst, Local)
  /\ RequestName(n, e.dst, e.via)
  /\ UNCHANGED hosts

RouteAddedCrash(n) ==
  LET e == Head(events[n]) IN
  /\ ReadEvent(n, "add")
  /\ ~Cached(n, e.dst)
  /\ RegisterNreqCrash(n, e.dst, Local)
  /\ UNCHANGED <<hosts, net, asked>>

\* Mutant: the guard of remove_name the other way round.
RouteRemovedForgets(n) ==
  LET d == Head(events[n]).dst IN
  /\ ReadEvent(n, "del")
  /\ pnrs' = [pnrs EXCEPT ![n][d] = {}]
  /\ RemoveName(n, d)
  /\ UNCHANGED <<timers, net, up, asked>>

\* A route removal. The guard of remove_name is the source's: it is called
\* when get_name_by_addr returns NULL.
RouteRemoved(n) ==
  LET d == Head(events[n]).dst IN
  /\ ReadEvent(n, "del")
  /\ pnrs' = [pnrs EXCEPT ![n][d] = {}]
  /\ \/ ~Cached(n, d) /\ RemoveName(n, d)
     \/ Cached(n, d) /\ UNCHANGED hosts
  /\ UNCHANGED <<timers, net, up, asked>>

-----------------------------------------------------------------------------
(* listen_for_nreqs. A datagram may be delivered again later: `left` is what *)
(* the network still holds of it.                                            *)

\* Mutant: the reply carries the name of the station that answers.
RecvNreqOwnName(n, m, left) ==
  /\ up[n] /\ m.to = n
  /\ Cached(n, m.addr)
  /\ nreqs' = (nreqs \ {m}) \cup left
  /\ nreps' = nreps \cup {[to |-> m.from, addr |-> m.addr, name |-> HostName[n]]}
  /\ UNCHANGED <<kernel, hosts, pnrs, timers, losses, up, asked>>

\* An NREQ for a cached name is answered.
RecvNreqCached(n, m, left) ==
  /\ up[n] /\ m.to = n
  /\ Cached(n, m.addr)
  /\ nreqs' = (nreqs \ {m}) \cup left
  /\ nreps' = nreps \cup
                {[to |-> m.from, addr |-> m.addr, name |-> hosts[n][m.addr]]}
  /\ UNCHANGED <<kernel, hosts, pnrs, timers, losses, up, asked>>

\* Mutant: the receiver is registered in place of the requester.
RecvNreqForSelf(n, m, left) ==
  /\ up[n] /\ m.to = n
  /\ ~Cached(n, m.addr)
  /\ nreqs' = (nreqs \ {m}) \cup left
  /\ RegisterNreq(n, m.addr, n)
  /\ UNCHANGED <<kernel, hosts, nreps, losses, asked>>

\* An NREQ for an unknown name registers the requester.
RecvNreqUnknown(n, m, left) ==
  /\ up[n] /\ m.to = n
  /\ ~Cached(n, m.addr)
  /\ nreqs' = (nreqs \ {m}) \cup left
  /\ \/ RegisterNreq(n, m.addr, m.from)
     \/ RegisterNreqCrash(n, m.addr, m.from)
  /\ UNCHANGED <<kernel, hosts, nreps, losses, asked>>

\* An NREP for a name not cached: cache_name, respond_to_pnrs, cfuhash_delete.
RecvNrepNew(n, m, left) ==
  /\ up[n] /\ m.to = n
  /\ ~Cached(n, m.addr)
  /\ CacheName(n, m.addr, m.name)
  /\ nreps' = (nreps \ {m}) \cup left \cup RespondToPnrs(n, m.addr, m.name)
  /\ pnrs' = [pnrs EXCEPT ![n][m.addr] = {}]
  /\ UNCHANGED <<kernel, timers, nreqs, losses, up, asked>>

\* An NREP for a cached name is ignored.
RecvNrepCached(n, m, left) ==
  /\ up[n] /\ m.to = n
  /\ Cached(n, m.addr)
  /\ nreps' = (nreps \ {m}) \cup left
  /\ UNCHANGED <<kernel, hosts, pnrs, timers, nreqs, losses, up, asked>>

RecvNreq(n, m) == \E left \in {{}, {m}} : RecvNreqCached(n, m, left)
                                          \/ RecvNreqUnknown(n, m, left)

RecvNrep(n, m) == \E left \in {{}, {m}} : RecvNrepNew(n, m, left)
                                          \/ RecvNrepCached(n, m, left)

\* UDP gives no delivery guarantee.
Lose ==
  /\ losses < MaxLosses
  /\ losses' = losses + 1
  /\ \/ /\ \E m \in nreqs : nreqs' = nreqs \ {m}
        /\ UNCHANGED nreps
     \/ /\ \E m \in nreps : nreps' = nreps \ {m}
        /\ UNCHANGED nreqs
  /\ UNCHANGED <<kernel, hosts, pnrs, timers, up, asked>>

-----------------------------------------------------------------------------
(* timeout_handler *)

\* The slot is freed; nothing is pending, or there is no route to ask along.
TimeoutDone(n, i) ==
  LET d == timers[n][i] IN
  /\ up[n] /\ d # None
  /\ ~Pending(n, d) \/ RouteExists(n, d) = None
  /\ timers' = [timers EXCEPT ![n][i] = None]
  /\ UNCHANGED <<kernel, hosts, pnrs, net, up, asked>>

\* Mutant: the result of route_exists is not looked at.
TimeoutRetryBlind(n, i) ==
  LET d == timers[n][i]
      freed == [timers[n] EXCEPT ![i] = None]
  IN
  /\ up[n] /\ d # None
  /\ Pending(n, d)
  /\ \E j \in Slot : /\ IsNextFree(freed, j)
                     /\ timers' = [timers EXCEPT ![n] = MakeTimer(freed, j, d)]
  /\ RequestName(n, d, RouteExists(n, d))
  /\ UNCHANGED <<kernel, hosts, pnrs, up>>

\* Mutant: the timer is set again although nothing is pending.
TimeoutRetryAlways(n, i) ==
  LET d == timers[n][i]
      freed == [timers[n] EXCEPT ![i] = None]
  IN
  /\ up[n] /\ d # None
  /\ RouteExists(n, d) # None
  /\ \E j \in Slot : /\ IsNextFree(freed, j)
                     /\ timers' = [timers EXCEPT ![n] = MakeTimer(freed, j, d)]
  /\ RequestName(n, d, RouteExists(n, d))
  /\ UNCHANGED <<kernel, hosts, pnrs, up>>

\* Mutant: timer_ids is not reset when the timer expires.
TimeoutRetryLeaks(n, i) ==
  LET d == timers[n][i] IN
  /\ up[n] /\ d # None
  /\ Pending(n, d) /\ RouteExists(n, d) # None
  /\ \E j \in Slot : /\ IsNextFree(timers[n], j)
                     /\ timers' = [timers EXCEPT ![n] = MakeTimer(@, j, d)]
  /\ RequestName(n, d, RouteExists(n, d))
  /\ UNCHANGED <<kernel, hosts, pnrs, up>>

\* The slot is freed, a slot is taken again and the request is repeated to
\* the next hop the kernel has now (route_exists).
TimeoutRetry(n, i) ==
  LET d == timers[n][i]
      freed == [timers[n] EXCEPT ![i] = None]
  IN
  /\ up[n] /\ d # None
  /\ Pending(n, d) /\ RouteExists(n, d) # None
  /\ \E j \in Slot : /\ IsNextFree(freed, j)
                     /\ timers' = [timers EXCEPT ![n] = MakeTimer(freed, j, d)]
  /\ RequestName(n, d, RouteExists(n, d))
  /\ UNCHANGED <<kernel, hosts, pnrs, up>>

\* Mutant: the handler only cleans up ("notify ... (retry?)").
TimeoutOnce(n, i) ==
  /\ up[n] /\ timers[n][i] # None
  /\ timers' = [timers EXCEPT ![n][i] = None]
  /\ UNCHANGED <<kernel, hosts, pnrs, net, up, asked>>

Timeout(n, i) == TimeoutDone(n, i) \/ TimeoutRetry(n, i)

-----------------------------------------------------------------------------

WatchRoutes(n) ==
  \/ RouteAddedCached(n)
  \/ RouteAddedPending(n)
  \/ RouteAddedNew(n)
  \/ RouteAddedCrash(n)
  \/ RouteRemoved(n)

\* What the stations and the network do by themselves.
Protocol ==
  \/ \E n \in Node : WatchRoutes(n)
  \/ \E n \in Node : \E m \in nreqs : RecvNreq(n, m)
  \/ \E n \in Node : \E m \in nreps : RecvNrep(n, m)
  \/ \E n \in Node, i \in Slot : Timeout(n, i)
  \/ Lose

Next ==
  \/ \E n, d \in Node, h \in Node \cup {None} : KernelRoute(n, d, h)
  \/ Protocol

Spec == Init /\ [][Next]_vars

\* What the threads and the operating system guarantee: pending lines are
\* read, timers expire, and a datagram that is not lost is received. (Losses
\* being bounded, a request repeated often enough gets through.) This takes for
\* granted that calls on the tables return: TableLocks shows when one does not.
Fairness ==
  /\ \A n \in Node : WF_vars(WatchRoutes(n))
  /\ \A n \in Node, i \in Slot : WF_vars(Timeout(n, i))
  /\ \A m \in Nreq : WF_vars(m \in nreqs /\ RecvNreq(m.to, m))
  /\ \A m \in Nrep : WF_vars(m \in nreps /\ RecvNrep(m.to, m))

-----------------------------------------------------------------------------
(* Properties *)

\* Whatever is lost, repeated or reordered, no station's /etc/hosts ever gives
\* an address a name other than its owner's, and no NREP in flight does
\* (cache_name, respond_to_pnrs).
NamesSound ==
  /\ \A n, d \in Node : hosts[n][d] \in {None, HostName[d]}
  /\ \A m \in nreps : m.name = HostName[m.addr]

\* Nobody is answered who did not ask: a datagram, or an entry in a requesters
\* list, concerns an address the station it names sent an NREQ for.
Solicited ==
  /\ \A m \in nreqs : m.addr \in asked[m.from]
  /\ \A m \in nreps : m.addr \in asked[m.to]
  /\ \A n, d \in Node : \A q \in pnrs[n][d] \ {Local} : d \in asked[q]

\* The service the protocol implements: see NameService. Its names are this
\* module's, so the refinement mapping is the identity on hosts and asked.
Service == INSTANCE NameService

\* Every step is a station asking for one more name, or learning the true name
\* of one address it asked for, or neither: nothing is learnt unasked,
\* replaced or forgotten, whatever happens to routes and datagrams, as long as
\* the handlers of a station do not overlap. (A name that listen_for_nreqs
\* appends while remove_name rewrites the file is forgotten, see
\* NodeThreads!NamesKept.)
ImplementsService == Service!Spec

\* Station n by itself: the addresses whose name it knows, its requests and
\* timers.
OneStation(n) == INSTANCE Station WITH
  Addr <- Node, Self <- n, Requester <- Node,
  hosts <- {d \in Node : Cached(n, d)}, pnrs <- pnrs[n], timers <- timers[n],
  asked <- asked[n], up <- up[n]

\* Every station is a Station, which is also what the threads of NodeThreads
\* come to when they take turns: in particular it accepts only names it asked
\* for, although an NREP is not compared with the requests (listen_for_nreqs).
StationsAct ==
  /\ \A n \in Node : OneStation(n)!Init
  /\ [][\A n \in Node : [OneStation(n)!Next]_(OneStation(n)!vars)]_vars

Timed(n, d) == \E i \in Slot : timers[n][i] = d

\* A request that is pending has a timer, which repeats it, unless its timer has
\* expired at a time without a route: neither an expiry for an earlier request
\* for the address, nor any order of answers, removals and new routes leaves a
\* request without one (register_nreq, timeout_handler). This is so while the
\* handlers of a station do not overlap: two of them may take one slot (raced in
\* NodeThreads), and one request then has no timer.
RetriesGoOn ==
  [][\A n, d \in Node :
       up'[n] /\ Pending(n, d)' /\ ~Timed(n, d)' =>
         \/ Pending(n, d) /\ ~Timed(n, d)
         \/ Timed(n, d) /\ RouteExists(n, d) = None]_vars

\* The comment at the call of remove_name, "remove name if cached": once the
\* removal of a route has been handled the destination's name is not cached.
RemovalForgetsName ==
  [][\A n \in Node :
       /\ events[n] # <<>>
       /\ Head(events[n]).kind = "del"
       /\ events'[n] = Tail(events[n])
       => hosts'[n][Head(events[n]).dst] = None]_vars

=============================================================================
