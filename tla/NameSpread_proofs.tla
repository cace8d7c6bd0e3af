-------------------------- MODULE NameSpread_proofs --------------------------
(***************************************************************************)
(* Proofs about NameSpread, for any number of stations, timer slots, route *)
(* changes and losses.                                                     *)
(***************************************************************************)
EXTENDS NameSpread, SequenceTheorems, TLAPS

USE DEF AddRequester, MakeTimer, RouteExists, CacheName, RemoveName, RespondToPnrs

\* What watch_routes reads is a line the kernel wrote.
LEMMA ReadEventType ==
  ASSUME TypeOK, NEW n \in Node, NEW kind, ReadEvent(n, kind)
  PROVE  /\ Head(events[n]) \in RouteEvent
         /\ events' \in [Node -> Seq(RouteEvent)]
BY HeadTailProperties DEF TypeOK, ReadEvent

\* register_nreq keeps the types of what it writes.
LEMMA RegisterType ==
  ASSUME TypeOK, NEW n \in Node, NEW d \in Node, NEW q \in Node \cup {Local},
         RegisterNreq(n, d, q) \/ RegisterNreqCrash(n, d, q)
  PROVE  /\ pnrs' \in [Node -> [Node -> SUBSET (Node \cup {Local})]]
         /\ timers' \in [Node -> [Slot -> Node \cup {None}]]
         /\ up' \in [Node -> BOOLEAN]
<1>1. CASE RegisterNreq(n, d, q)
  <2>1. pnrs' \in [Node -> [Node -> SUBSET (Node \cup {Local})]]
    BY <1>1 DEF TypeOK, RegisterNreq
  <2>2. timers' \in [Node -> [Slot -> Node \cup {None}]]
    <3>1. CASE UNCHANGED timers
      BY <3>1 DEF TypeOK
    <3>2. CASE \E i \in Slot : timers' = [timers EXCEPT ![n] = MakeTimer(@, i, d)]
      BY <3>2 DEF TypeOK
    <3>3. QED BY <3>1, <3>2, <1>1, Zenon DEF RegisterNreq
  <2>3. QED BY <2>1, <2>2, <1>1 DEF TypeOK, RegisterNreq
<1>2. CASE RegisterNreqCrash(n, d, q)
  <2>1. pnrs' \in [Node -> [Node -> SUBSET (Node \cup {Local})]]
    BY <1>2 DEF TypeOK, RegisterNreqCrash
  <2>2. up' \in [Node -> BOOLEAN]
    BY <1>2, Zenon DEF TypeOK, RegisterNreqCrash
  <2>3. QED BY <2>1, <2>2, <1>2 DEF TypeOK, RegisterNreqCrash
<1>3. QED BY <1>1, <1>2

\* request_name keeps the types of what it writes.
LEMMA RequestType ==
  ASSUME TypeOK, NEW n \in Node, NEW d \in Node, NEW h \in Node,
         RequestName(n, d, h)
  PROVE  nreqs' \subseteq Nreq /\ asked' \in [Node -> SUBSET Node]
BY DEF TypeOK, RequestName, Nreq

LEMMA TypeInit == Init => TypeOK
BY ConstantsAssumption, EmptySeq
   DEF Init, StationsStart, TypeOK

LEMMA TypeStep == TypeOK /\ [Next]_vars => TypeOK'
<1> SUFFICES ASSUME TypeOK, [Next]_vars PROVE TypeOK'
  OBVIOUS
<1>1. ASSUME NEW n \in Node, NEW d \in Node, NEW h \in Node \cup {None},
             KernelRoute(n, d, h)
      PROVE  TypeOK'
  <2>1. route' \in [Node -> [Node -> Node \cup {None}]]
    BY <1>1 DEF KernelRoute, TypeOK
  <2>2. events' \in [Node -> Seq(RouteEvent)]
    <3>1. PICK e \in RouteEvent : events' = [events EXCEPT ![n] = Append(@, e)]
      <4>1. CASE h = None
        <5>1. route[n][d] \in Node
          BY <1>1, <4>1 DEF KernelRoute, TypeOK
        <5>2. [kind |-> "del", dst |-> d, via |-> route[n][d]] \in RouteEvent
          BY <5>1 DEF RouteEvent
        <5>3. QED BY <1>1, <4>1, <5>2 DEF KernelRoute
      <4>2. CASE h # None
        <5>1. [kind |-> "add", dst |-> d, via |-> h] \in RouteEvent
          BY <4>2 DEF RouteEvent
        <5>2. QED BY <1>1, <4>2, <5>1 DEF KernelRoute
      <4>3. QED BY <4>1, <4>2
    <3>2. events[n] \in Seq(RouteEvent)
      BY DEF TypeOK
    <3>3. Append(events[n], e) \in Seq(RouteEvent)
      BY <3>1, <3>2, AppendProperties
    <3>4. QED BY <3>1, <3>3 DEF TypeOK
  <2>3. QED BY <1>1, <2>1, <2>2 DEF KernelRoute, TypeOK, net
<1>2. ASSUME NEW n \in Node, WatchRoutes(n)
      PROVE  TypeOK'
  <2> DEFINE e == Head(events[n])
  <2>1. CASE RouteAddedCached(n)
    BY <2>1, ReadEventType DEF RouteAddedCached, ReadEvent, TypeOK, net
  <2>2. CASE RouteAddedPending(n)
    <3>1. e \in RouteEvent /\ events' \in [Node -> Seq(RouteEvent)]
      BY <2>2, ReadEventType DEF RouteAddedPending
    <3>2. e.dst \in Node /\ e.via \in Node
      BY <3>1 DEF RouteEvent
    <3>3. nreqs' \subseteq Nreq /\ asked' \in [Node -> SUBSET Node]
      BY <2>2, <3>2, RequestType DEF RouteAddedPending
    <3>4. QED
      BY <2>2, <3>1, <3>3 DEF RouteAddedPending, ReadEvent, RequestName, TypeOK
  <2>3. CASE RouteAddedNew(n)
    <3>1. e \in RouteEvent /\ events' \in [Node -> Seq(RouteEvent)]
      BY <2>3, ReadEventType DEF RouteAddedNew
    <3>2. e.dst \in Node /\ e.via \in Node
      BY <3>1 DEF RouteEvent
    <3>3. nreqs' \subseteq Nreq /\ asked' \in [Node -> SUBSET Node]
      BY <2>3, <3>2, RequestType DEF RouteAddedNew
    <3>4. /\ pnrs' \in [Node -> [Node -> SUBSET (Node \cup {Local})]]
          /\ timers' \in [Node -> [Slot -> Node \cup {None}]]
          /\ up' \in [Node -> BOOLEAN]
      BY <2>3, <3>2, RegisterType DEF RouteAddedNew
    <3>5. QED
      BY <2>3, <3>1, <3>3, <3>4 DEF RouteAddedNew, ReadEvent, RequestName, TypeOK
  <2>4. CASE RouteAddedCrash(n)
    <3>1. e \in RouteEvent /\ events' \in [Node -> Seq(RouteEvent)]
      BY <2>4, ReadEventType DEF RouteAddedCrash
    <3>2. e.dst \in Node /\ e.via \in Node
      BY <3>1 DEF RouteEvent
    <3>3. /\ pnrs' \in [Node -> [Node -> SUBSET (Node \cup {Local})]]
          /\ timers' \in [Node -> [Slot -> Node \cup {None}]]
          /\ up' \in [Node -> BOOLEAN]
      BY <2>4, <3>2, RegisterType DEF RouteAddedCrash
    <3>4. QED
      BY <2>4, <3>1, <3>3 DEF RouteAddedCrash, ReadEvent, TypeOK, net
  <2>5. CASE RouteRemoved(n)
    <3>1. e \in RouteEvent /\ events' \in [Node -> Seq(RouteEvent)]
      BY <2>5, ReadEventType DEF RouteRemoved
    <3>2. e.dst \in Node
      BY <3>1 DEF RouteEvent
    <3>3. pnrs' \in [Node -> [Node -> SUBSET (Node \cup {Local})]]
      BY <2>5, <3>2 DEF RouteRemoved, TypeOK
    <3>4. hosts' \in [Node -> [Node -> Name \cup {None}]]
      <4>1. hosts' = hosts \/ hosts' = [hosts EXCEPT ![n][e.dst] = None]
        BY <2>5, Zenon DEF RouteRemoved
      <4>2. CASE hosts' = hosts
        BY <4>2 DEF TypeOK
      <4>3. CASE hosts' = [hosts EXCEPT ![n][e.dst] = None]
        BY <3>2, <4>3 DEF TypeOK
      <4>4. QED BY <4>1, <4>2, <4>3
    <3>5. QED
      BY <2>5, <3>1, <3>3, <3>4 DEF RouteRemoved, ReadEvent, TypeOK, net
  <2>6. QED BY <1>2, <2>1, <2>2, <2>3, <2>4, <2>5 DEF WatchRoutes
<1>3. ASSUME NEW n \in Node, NEW m \in nreqs, RecvNreq(n, m)
      PROVE  TypeOK'
  <2>1. PICK left \in {{}, {m}} : RecvNreqCached(n, m, left)
                                  \/ RecvNreqUnknown(n, m, left)
    BY <1>3 DEF RecvNreq
  <2>2. m \in Nreq
    BY DEF TypeOK
  <2>3. nreqs' \subseteq Nreq
    BY <2>1, <2>2 DEF RecvNreqCached, RecvNreqUnknown, TypeOK
  <2>4. CASE RecvNreqCached(n, m, left)
    <3>1. nreps' \subseteq Nrep
      BY <2>4, <2>2 DEF RecvNreqCached, Cached, TypeOK, Nreq, Nrep
    <3>2. QED BY <2>4, <2>3, <3>1 DEF RecvNreqCached, TypeOK, kernel
  <2>5. CASE RecvNreqUnknown(n, m, left)
    <3>1. m.addr \in Node /\ m.from \in Node \cup {Local}
      BY <2>2 DEF Nreq
    <3>2. /\ pnrs' \in [Node -> [Node -> SUBSET (Node \cup {Local})]]
          /\ timers' \in [Node -> [Slot -> Node \cup {None}]]
          /\ up' \in [Node -> BOOLEAN]
      BY <2>5, <3>1, RegisterType DEF RecvNreqUnknown
    <3>3. QED BY <2>5, <2>3, <3>2 DEF RecvNreqUnknown, TypeOK, kernel
  <2>6. QED BY <2>1, <2>4, <2>5
<1>4. ASSUME NEW n \in Node, NEW m \in nreps, RecvNrep(n, m)
      PROVE  TypeOK'
  <2>1. PICK left \in {{}, {m}} : RecvNrepNew(n, m, left)
                                  \/ RecvNrepCached(n, m, left)
    BY <1>4 DEF RecvNrep
  <2>2. m \in Nrep
    BY DEF TypeOK
  <2>3. CASE RecvNrepNew(n, m, left)
    <3>1. nreps' \subseteq Nrep
      BY <2>1, <2>2, <2>3 DEF RecvNrepNew, TypeOK, Nrep
    <3>2. hosts' \in [Node -> [Node -> Name \cup {None}]]
      BY <2>2, <2>3 DEF RecvNrepNew, TypeOK, Nrep
    <3>3. pnrs' \in [Node -> [Node -> SUBSET (Node \cup {Local})]]
      BY <2>2, <2>3 DEF RecvNrepNew, TypeOK, Nrep
    <3>4. QED BY <2>3, <3>1, <3>2, <3>3 DEF RecvNrepNew, TypeOK, kernel
  <2>4. CASE RecvNrepCached(n, m, left)
    BY <2>1, <2>2, <2>4 DEF RecvNrepCached, TypeOK, kernel
  <2>5. QED BY <2>1, <2>3, <2>4
<1>5. ASSUME NEW n \in Node, NEW i \in Slot, Timeout(n, i)
      PROVE  TypeOK'
  <2>1. CASE TimeoutDone(n, i)
    <3>1. timers' \in [Node -> [Slot -> Node \cup {None}]]
      BY <2>1 DEF TimeoutDone, TypeOK
    <3>2. QED BY <2>1, <3>1 DEF TimeoutDone, TypeOK, kernel, net
  <2>2. CASE TimeoutRetry(n, i)
    <3> DEFINE d == timers[n][i]
    <3>1. d \in Node /\ route[n][d] \in Node
      BY <2>2 DEF TimeoutRetry, TypeOK
    <3>2. nreqs' \subseteq Nreq /\ asked' \in [Node -> SUBSET Node]
      BY <2>2, <3>1, RequestType DEF TimeoutRetry
    <3>3. timers' \in [Node -> [Slot -> Node \cup {None}]]
      <4> DEFINE freed == [timers[n] EXCEPT ![i] = None]
      <4>1. PICK j \in Slot :
              timers' = [timers EXCEPT ![n] = [freed EXCEPT ![j] = d]]
        BY <2>2, Zenon DEF TimeoutRetry
      <4>2. [freed EXCEPT ![j] = d] \in [Slot -> Node \cup {None}]
        BY <3>1 DEF TypeOK
      <4>3. QED BY <4>1, <4>2 DEF TypeOK
    <3>4. QED
      BY <2>2, <3>2, <3>3 DEF TimeoutRetry, RequestName, TypeOK, kernel
  <2>3. QED BY <1>5, <2>1, <2>2 DEF Timeout
<1>6. CASE Lose
  BY <1>6 DEF Lose, TypeOK, kernel
<1>7. CASE UNCHANGED vars
  BY <1>7 DEF vars, kernel, net, TypeOK
<1>8. QED BY <1>1, <1>2, <1>3, <1>4, <1>5, <1>6, <1>7 DEF Next, Protocol

\* Every variable keeps the type its C counterpart has, the process flags and
\* the message sets included.
THEOREM TypeCorrect == Spec => []TypeOK
<1>1. QED BY TypeInit, TypeStep, PTL DEF Spec
-----------------------------------------------------------------------------
(* What the tables and the messages say of each other: an NREP carries the   *)
(* true name because the cache does, and goes to a station that asked        *)
(* because the requesters lists only hold such stations.                     *)

TableInv == NamesSound /\ Solicited

LEMMA TableInit == Init => TableInv
BY ConstantsAssumption
   DEF Init, StationsStart, TableInv, NamesSound, Solicited

\* register_nreq for a requester that asked.
LEMMA RegisterTables ==
  ASSUME TypeOK, TableInv, NEW n \in Node, NEW d \in Node,
         NEW q \in Node \cup {Local},
         RegisterNreq(n, d, q) \/ RegisterNreqCrash(n, d, q),
         \A k \in Node : asked[k] \subseteq asked'[k],
         q \in Node => d \in asked[q]
  PROVE  \A k, a \in Node : \A r \in pnrs'[k][a] \ {Local} : a \in asked'[r]
<1>1. pnrs' = [pnrs EXCEPT ![n][d] = pnrs[n][d] \cup {q}]
  BY DEF TypeOK, RegisterNreq, RegisterNreqCrash, Pending
<1>2. ASSUME NEW k \in Node, NEW a \in Node, NEW r \in pnrs'[k][a] \ {Local}
      PROVE  a \in asked'[r]
  <2>1. r \in pnrs[k][a] \/ (k = n /\ a = d /\ r = q)
    BY <1>1, <1>2 DEF TypeOK
  <2>2. r \in Node /\ a \in asked[r]
    BY <2>1, <1>2 DEF TypeOK, TableInv, Solicited
  <2>3. QED BY <2>2
<1>3. QED BY <1>2

\* request_name adds one solicited NREQ.
LEMMA RequestTables ==
  ASSUME TypeOK, TableInv, NEW n \in Node, NEW d \in Node, NEW h \in Node,
         RequestName(n, d, h)
  PROVE  /\ \A k \in Node : asked[k] \subseteq asked'[k]
         /\ \A m \in nreqs' : m.addr \in asked'[m.from]
         /\ \A m \in nreps' : m.addr \in asked'[m.to]
<1>1. \A k \in Node : asked[k] \subseteq asked'[k]
  BY DEF RequestName, TypeOK
<1>2. ASSUME NEW m \in nreqs' PROVE m.addr \in asked'[m.from]
  <2>1. CASE m \in nreqs
    BY <2>1, <1>1 DEF TypeOK, TableInv, Solicited, Nreq
  <2>2. CASE m = [from |-> n, to |-> h, addr |-> d]
    BY <2>2 DEF RequestName, TypeOK
  <2>3. QED BY <2>1, <2>2, <1>2 DEF RequestName
<1>3. ASSUME NEW m \in nreps' PROVE m.addr \in asked'[m.to]
  BY <1>1, <1>3 DEF TypeOK, TableInv, Solicited, Nrep, RequestName
<1>4. QED BY <1>1, <1>2, <1>3

\* A step that leaves the tables and the history alone and sends nothing.
LEMMA TablesUnchanged ==
  ASSUME TypeOK, TableInv, UNCHANGED <<hosts, pnrs, asked>>,
         nreqs' \subseteq nreqs, nreps' \subseteq nreps
  PROVE  TableInv'
BY DEF TableInv, NamesSound, Solicited

LEMMA TableStep == TypeOK /\ TableInv /\ [Next]_vars => TableInv'
<1> SUFFICES ASSUME TypeOK, TableInv, [Next]_vars PROVE TableInv'
  OBVIOUS
<1>1. ASSUME NEW n \in Node, NEW d \in Node, NEW h \in Node \cup {None},
             KernelRoute(n, d, h)
      PROVE  TableInv'
  BY <1>1, TablesUnchanged DEF KernelRoute, net
<1>2. ASSUME NEW n \in Node, WatchRoutes(n)
      PROVE  TableInv'
  <2> DEFINE e == Head(events[n])
  <2>0. e \in RouteEvent /\ e.dst \in Node /\ e.via \in Node
    BY <1>2, ReadEventType
       DEF WatchRoutes, RouteAddedCached, RouteAddedPending, RouteAddedNew,
           RouteAddedCrash, RouteRemoved, RouteEvent
  <2>1. CASE RouteAddedCached(n)
    BY <2>1, TablesUnchanged DEF RouteAddedCached, net
  <2>2. CASE RouteAddedPending(n)
    <3>1. /\ \A k \in Node : asked[k] \subseteq asked'[k]
          /\ \A m \in nreqs' : m.addr \in asked'[m.from]
          /\ \A m \in nreps' : m.addr \in asked'[m.to]
      BY <2>0, <2>2, RequestTables DEF RouteAddedPending
    <3>2. NamesSound'
      BY <2>2 DEF RouteAddedPending, RequestName, TableInv, NamesSound
    <3>3. Solicited'
      BY <2>2, <3>1 DEF RouteAddedPending, TypeOK, TableInv, Solicited
    <3>4. QED BY <3>2, <3>3 DEF TableInv
  <2>3. CASE RouteAddedNew(n)
    <3>1. /\ \A k \in Node : asked[k] \subseteq asked'[k]
          /\ \A m \in nreqs' : m.addr \in asked'[m.from]
          /\ \A m \in nreps' : m.addr \in asked'[m.to]
      BY <2>0, <2>3, RequestTables DEF RouteAddedNew
    <3>2. \A k, a \in Node : \A r \in pnrs'[k][a] \ {Local} : a \in asked'[r]
      BY <2>0, <2>3, <3>1, RegisterTables, ConstantsAssumption DEF RouteAddedNew
    <3>3. NamesSound'
      BY <2>3 DEF RouteAddedNew, RequestName, TableInv, NamesSound
    <3>4. QED BY <3>1, <3>2, <3>3 DEF TableInv, Solicited
  <2>4. CASE RouteAddedCrash(n)
    <3>1. \A k, a \in Node : \A r \in pnrs'[k][a] \ {Local} : a \in asked'[r]
      BY <2>0, <2>4, RegisterTables, ConstantsAssumption DEF RouteAddedCrash
    <3>2. QED
      BY <2>4, <3>1 DEF RouteAddedCrash, net, TableInv, NamesSound, Solicited
  <2>5. CASE RouteRemoved(n)
    <3>1. hosts' = hosts
      BY <2>0, <2>5 DEF RouteRemoved, TypeOK, Cached
    <3>2. pnrs' = [pnrs EXCEPT ![n][e.dst] = {}]
      BY <2>5 DEF RouteRemoved
    <3>3. QED
      BY <2>0, <2>5, <3>1, <3>2
         DEF RouteRemoved, net, TypeOK, TableInv, NamesSound, Solicited
  <2>6. QED BY <1>2, <2>1, <2>2, <2>3, <2>4, <2>5 DEF WatchRoutes
<1>3. ASSUME NEW n \in Node, NEW m \in nreqs, RecvNreq(n, m)
      PROVE  TableInv'
  <2>1. PICK left \in {{}, {m}} : RecvNreqCached(n, m, left)
                                  \/ RecvNreqUnknown(n, m, left)
    BY <1>3 DEF RecvNreq
  <2>2. m.from \in Node /\ m.addr \in Node /\ m.addr \in asked[m.from]
    BY DEF TypeOK, Nreq, TableInv, Solicited
  <2>3. CASE RecvNreqCached(n, m, left)
    <3>1. UNCHANGED <<hosts, pnrs, asked>> /\ nreqs' \subseteq nreqs
      BY <2>1, <2>3 DEF RecvNreqCached
    <3>2. ASSUME NEW r \in nreps'
          PROVE  r.name = HostName[r.addr] /\ r.addr \in asked[r.to]
      <4>1. CASE r \in nreps
        BY <4>1 DEF TableInv, NamesSound, Solicited
      <4>2. CASE r = [to |-> m.from, addr |-> m.addr, name |-> hosts[n][m.addr]]
        BY <4>2, <2>2, <2>3 DEF RecvNreqCached, Cached, TableInv, NamesSound
      <4>3. QED BY <3>2, <4>1, <4>2, <2>3 DEF RecvNreqCached
    <3>3. QED BY <3>1, <3>2 DEF TableInv, NamesSound, Solicited
  <2>4. CASE RecvNreqUnknown(n, m, left)
    <3>1. \A k, a \in Node : \A r \in pnrs'[k][a] \ {Local} : a \in asked'[r]
      BY <2>2, <2>4, RegisterTables DEF RecvNreqUnknown
    <3>2. QED
      BY <2>1, <2>4, <3>1 DEF RecvNreqUnknown, TableInv, NamesSound, Solicited
  <2>5. QED BY <2>1, <2>3, <2>4
<1>4. ASSUME NEW n \in Node, NEW m \in nreps, RecvNrep(n, m)
      PROVE  TableInv'
  <2>1. PICK left \in {{}, {m}} : RecvNrepNew(n, m, left)
                                  \/ RecvNrepCached(n, m, left)
    BY <1>4 DEF RecvNrep
  <2>2. m.addr \in Node /\ m.addr \in asked[m.to] /\ m.name = HostName[m.addr]
    BY DEF TypeOK, Nrep, TableInv, NamesSound, Solicited
  <2>3. CASE RecvNrepNew(n, m, left)
    <3>1. hosts' = [hosts EXCEPT ![n][m.addr] = HostName[m.addr]]
      BY <2>2, <2>3 DEF RecvNrepNew
    <3>2. pnrs' = [pnrs EXCEPT ![n][m.addr] = {}]
      BY <2>3 DEF RecvNrepNew
    <3>3. ASSUME NEW r \in nreps'
          PROVE  r.name = HostName[r.addr] /\ r.addr \in asked[r.to]
      <4>1. CASE r \in nreps
        BY <4>1 DEF TableInv, NamesSound, Solicited
      <4>2. ASSUME NEW q \in pnrs[n][m.addr] \ {Local},
                   r = [to |-> q, addr |-> m.addr, name |-> m.name]
            PROVE  r.name = HostName[r.addr] /\ r.addr \in asked[r.to]
        BY <4>2, <2>2 DEF TableInv, Solicited
      <4>3. QED BY <2>1, <2>3, <3>3, <4>1, <4>2 DEF RecvNrepNew
    <3>4. \A k, a \in Node : hosts'[k][a] \in {hosts[k][a], HostName[a]}
      BY <2>2, <3>1 DEF TypeOK
    <3>5. NamesSound'
      BY <3>3, <3>4 DEF TableInv, NamesSound
    <3>6. Solicited'
      BY <2>2, <2>3, <3>2, <3>3 DEF RecvNrepNew, TypeOK, TableInv, Solicited
    <3>7. QED BY <3>5, <3>6 DEF TableInv
  <2>4. CASE RecvNrepCached(n, m, left)
    BY <2>1, <2>4, TablesUnchanged DEF RecvNrepCached
  <2>5. QED BY <2>1, <2>3, <2>4
<1>5. ASSUME NEW n \in Node, NEW i \in Slot, Timeout(n, i)
      PROVE  TableInv'
  <2>1. CASE TimeoutDone(n, i)
    BY <2>1, TablesUnchanged DEF TimeoutDone, net
  <2>2. CASE TimeoutRetry(n, i)
    <3> DEFINE d == timers[n][i]
    <3>1. d \in Node /\ route[n][d] \in Node
      BY <2>2 DEF TimeoutRetry, TypeOK
    <3>2. /\ \A k \in Node : asked[k] \subseteq asked'[k]
          /\ \A m \in nreqs' : m.addr \in asked'[m.from]
          /\ \A m \in nreps' : m.addr \in asked'[m.to]
      BY <2>2, <3>1, RequestTables DEF TimeoutRetry
    <3>3. NamesSound'
      BY <2>2 DEF TimeoutRetry, RequestName, TableInv, NamesSound
    <3>4. Solicited'
      BY <2>2, <3>2 DEF TimeoutRetry, TypeOK, TableInv, Solicited
    <3>5. QED BY <3>3, <3>4 DEF TableInv
  <2>3. QED BY <1>5, <2>1, <2>2 DEF Timeout
<1>6. CASE Lose
  BY <1>6, TablesUnchanged DEF Lose
<1>7. CASE UNCHANGED vars
  BY <1>7, TablesUnchanged DEF vars, net
<1>8. QED BY <1>1, <1>2, <1>3, <1>4, <1>5, <1>6, <1>7 DEF Next, Protocol

LEMMA TablesInvariant == Spec => [](TypeOK /\ TableInv)
<1>1. QED BY TypeInit, TypeStep, TableInit, TableStep, PTL DEF Spec

\* In every network and under every loss, duplication and reordering, names
\* cached or on the way are the owners' names.
THEOREM NamesAreSound == Spec => []NamesSound
<1>1. QED BY TablesInvariant, PTL DEF TableInv

\* Requesters lists, requests and replies concern addresses asked for.
THEOREM OnlySolicited == Spec => []Solicited
<1>1. QED BY TablesInvariant, PTL DEF TableInv
-----------------------------------------------------------------------------
(* NameSpread implements NameService: the names cached and the addresses     *)
(* asked for change only as the abstract Ask and Learn let them.             *)

LEMMA ServiceStep ==
  TypeOK /\ TableInv /\ [Next]_vars => [Service!Next]_<<hosts, asked>>
<1> SUFFICES ASSUME TypeOK, TableInv, [Next]_vars, ~UNCHANGED <<hosts, asked>>
             PROVE  Service!Next
  OBVIOUS
<1>1. ASSUME NEW n \in Node, NEW d \in Node, NEW h \in Node,
             RequestName(n, d, h), UNCHANGED hosts
      PROVE  Service!Next
  BY <1>1 DEF RequestName, Service!Next, Service!Ask
<1>2. ASSUME NEW n \in Node, WatchRoutes(n)
      PROVE  Service!Next
  <2> DEFINE e == Head(events[n])
  <2>0. e \in RouteEvent /\ e.dst \in Node /\ e.via \in Node
    BY <1>2, ReadEventType
       DEF WatchRoutes, RouteAddedCached, RouteAddedPending, RouteAddedNew,
           RouteAddedCrash, RouteRemoved, RouteEvent
  <2>1. CASE RouteAddedPending(n)
    BY <1>1, <2>0, <2>1 DEF RouteAddedPending
  <2>2. CASE RouteAddedNew(n)
    BY <1>1, <2>0, <2>2 DEF RouteAddedNew
  <2>3. CASE RouteRemoved(n)
    BY <2>0, <2>3 DEF RouteRemoved, TypeOK, Cached
  <2>4. CASE RouteAddedCached(n) \/ RouteAddedCrash(n)
    BY <2>4 DEF RouteAddedCached, RouteAddedCrash
  <2>5. QED BY <1>2, <2>1, <2>2, <2>3, <2>4 DEF WatchRoutes
<1>3. ASSUME NEW n \in Node, NEW m \in nreps, RecvNrep(n, m)
      PROVE  Service!Next
  <2>1. PICK left \in {{}, {m}} : RecvNrepNew(n, m, left)
    BY <1>3 DEF RecvNrep, RecvNrepCached
  <2>2. m.addr \in Node /\ m.addr \in asked[n] /\ m.name = HostName[m.addr]
    BY <2>1 DEF RecvNrepNew, TypeOK, Nrep, TableInv, NamesSound, Solicited
  <2>3. Service!Learn(n, m.addr)
    BY <2>1, <2>2 DEF RecvNrepNew, Cached, Service!Learn
  <2>4. QED BY <2>2, <2>3 DEF Service!Next
<1>4. ASSUME NEW n \in Node, NEW i \in Slot, Timeout(n, i)
      PROVE  Service!Next
  <2>1. TimeoutRetry(n, i)
    BY <1>4 DEF Timeout, TimeoutDone
  <2>2. timers[n][i] \in Node /\ route[n][timers[n][i]] \in Node
    BY <2>1 DEF TimeoutRetry, TypeOK
  <2>3. QED BY <1>1, <2>1, <2>2 DEF TimeoutRetry
<1>5. ASSUME NEW n \in Node, NEW m \in nreqs, RecvNreq(n, m)
      PROVE  FALSE
  BY <1>5 DEF RecvNreq, RecvNreqCached, RecvNreqUnknown
<1>6. ASSUME NEW n \in Node, NEW d \in Node, NEW h \in Node \cup {None},
             KernelRoute(n, d, h)
      PROVE  FALSE
  BY <1>6 DEF KernelRoute
<1>7. CASE Lose
  BY <1>7 DEF Lose
<1>8. CASE UNCHANGED vars
  BY <1>8 DEF vars
<1>9. QED BY <1>2, <1>3, <1>4, <1>5, <1>6, <1>7, <1>8 DEF Next, Protocol

\* Whatever the network and the routing daemon do, a station whose handlers do
\* not overlap learns only, one at a time, true names it asked for; a name once
\* cached is neither replaced nor removed.
THEOREM Implements == Spec => ImplementsService
<1>1. Init => Service!Init
  BY DEF Init, StationsStart, Service!Init
<1>2. QED
  BY <1>1, ServiceStep, TablesInvariant, PTL
     DEF Spec, ImplementsService, Service!Spec

-----------------------------------------------------------------------------
(* Every station is a Station *)

StationStep(k) == [OneStation(k)!Next]_(OneStation(k)!vars)

\* A station whose tables do not change.
LEMMA StationRests ==
  ASSUME NEW k \in Node, hosts'[k] = hosts[k], pnrs'[k] = pnrs[k],
         timers'[k] = timers[k], asked'[k] = asked[k], up'[k] = up[k]
  PROVE  StationStep(k)
BY DEF StationStep, OneStation!vars, Cached

LEMMA NewRouteSteps ==
  ASSUME NEW n \in Node, NEW d \in Node, up[n], OneStation(n)!NewRoute(d)
  PROVE  StationStep(n)
BY DEF StationStep, OneStation!Next

LEMMA NextFreeStarts ==
  ASSUME NEW n \in Node, NEW slots, NEW i \in Slot, NEW d \in Node, IsNextFree(slots, i),
         timers'[n] = MakeTimer(slots, i, d)
  PROVE  OneStation(n)!Start(slots, d)
BY DEF IsNextFree, MakeTimer, OneStation!Start, OneStation!Slot, Slot

\* register_nreq, with and without a free slot.
LEMMA StationRegisters ==
  ASSUME TypeOK, NEW n \in Node, NEW d \in Node, NEW q \in Node \cup {Local}
  PROVE  /\ RegisterNreq(n, d, q) =>
              /\ OneStation(n)!Register(d, q)
              /\ \A k \in Node : up'[k] = up[k] /\ (k # n => pnrs'[k] = pnrs[k] /\ timers'[k] = timers[k])
         /\ RegisterNreqCrash(n, d, q) =>
              /\ OneStation(n)!Crash(d, q)
              /\ \A k \in Node \ {n} : pnrs'[k] = pnrs[k] /\ timers'[k] = timers[k] /\ up'[k] = up[k]
<1>1. ASSUME RegisterNreq(n, d, q)
      PROVE  /\ OneStation(n)!Register(d, q)
             /\ \A k \in Node : up'[k] = up[k] /\ (k # n => pnrs'[k] = pnrs[k] /\ timers'[k] = timers[k])
  <2>1. pnrs'[n] = [pnrs[n] EXCEPT ![d] = @ \cup {q}]
    BY <1>1 DEF RegisterNreq, AddRequester, TypeOK
  <2>2. CASE Pending(n, d)
    BY <1>1, <2>1, <2>2 DEF RegisterNreq, Pending, OneStation!Register, TypeOK
  <2>3. CASE ~Pending(n, d)
    <3>1. PICK i \in Slot : /\ IsNextFree(timers[n], i)
                            /\ timers' = [timers EXCEPT ![n] = MakeTimer(@, i, d)]
      BY <1>1, <2>3 DEF RegisterNreq
    <3>2. timers'[n] = MakeTimer(timers[n], i, d)
      BY <3>1 DEF TypeOK
    <3>3. OneStation(n)!Start(timers[n], d)
      BY <3>1, <3>2, NextFreeStarts
    <3>4. QED BY <1>1, <2>1, <2>3, <3>1, <3>3 DEF RegisterNreq, Pending, OneStation!Register, TypeOK
  <2>4. QED BY <2>2, <2>3
<1>2. ASSUME RegisterNreqCrash(n, d, q)
      PROVE  /\ OneStation(n)!Crash(d, q)
             /\ \A k \in Node \ {n} : pnrs'[k] = pnrs[k] /\ timers'[k] = timers[k] /\ up'[k] = up[k]
  BY <1>2 DEF RegisterNreqCrash, Pending, OneStation!Crash, OneStation!Slot, Slot, TypeOK
<1>3. QED BY <1>1, <1>2

LEMMA WatcherStation ==
  ASSUME TypeOK, NEW n \in Node, WatchRoutes(n), NEW k \in Node
  PROVE  StationStep(k)
<1>0. PICK d \in Node : d = Head(events[n]).dst /\ up[n]
  BY ReadEventType DEF WatchRoutes, RouteAddedCached, RouteAddedPending, RouteAddedNew,
                       RouteAddedCrash, RouteRemoved, RouteEvent, ReadEvent
<1>1. CASE RouteAddedCached(n)
  BY <1>1, StationRests DEF RouteAddedCached
<1>2. CASE RouteAddedPending(n)
  <2>1. CASE k = n
    <3>1. OneStation(n)!NewRoute(d)
      BY <1>0, <1>2 DEF RouteAddedPending, RequestName, Pending, Cached, TypeOK,
                        OneStation!NewRoute, OneStation!Ask
    <3>2. QED BY <1>0, <2>1, <3>1, NewRouteSteps
  <2>2. CASE k # n
    BY <1>2, <2>2, StationRests DEF RouteAddedPending, RequestName, TypeOK
  <2>3. QED BY <2>1, <2>2
<1>3. CASE RouteAddedNew(n)
  <2>0. RegisterNreq(n, d, Local) /\ UNCHANGED hosts /\ ~Cached(n, d) /\ ~Pending(n, d)
        /\ asked' = [asked EXCEPT ![n] = @ \cup {d}]
    BY <1>0, <1>3 DEF RouteAddedNew, RequestName, RegisterNreq, Pending, Cached
  <2>1. CASE k = n
    <3>1. OneStation(n)!Register(d, Local)
      BY <1>0, <2>0, StationRegisters
    <3>2. OneStation(n)!NewRoute(d)
      BY <1>0, <2>0, <3>1 DEF Pending, Cached, TypeOK, OneStation!NewRoute, OneStation!Ask
    <3>3. QED BY <1>0, <2>1, <3>2, NewRouteSteps
  <2>2. CASE k # n
    BY <1>0, <2>0, <2>2, StationRests, StationRegisters DEF TypeOK
  <2>3. QED BY <2>1, <2>2
<1>4. CASE RouteAddedCrash(n)
  <2>0. RegisterNreqCrash(n, d, Local) /\ UNCHANGED <<hosts, asked>> /\ ~Cached(n, d)
    BY <1>0, <1>4 DEF RouteAddedCrash, RegisterNreqCrash, Cached
  <2>1. CASE k = n
    <3>1. OneStation(n)!Crash(d, Local)
      BY <1>0, <2>0, StationRegisters
    <3>2. OneStation(n)!NewRoute(d)
      BY <1>0, <2>0, <3>1 DEF Cached, OneStation!NewRoute
    <3>3. QED BY <1>0, <2>1, <3>2, NewRouteSteps
  <2>2. CASE k # n
    BY <1>0, <2>0, <2>2, StationRests, StationRegisters DEF TypeOK
  <2>3. QED BY <2>1, <2>2
<1>5. CASE RouteRemoved(n)
  <2>0. hosts' = hosts
    BY <1>0, <1>5 DEF RouteRemoved, RemoveName, Cached, TypeOK
  <2>1. CASE k = n
    <3>1. OneStation(n)!LostRoute(d)
      BY <1>0, <1>5, <2>0 DEF RouteRemoved, Cached, TypeOK, OneStation!LostRoute
    <3>2. QED BY <1>0, <2>1, <3>1 DEF StationStep, OneStation!Next
  <2>2. CASE k # n
    BY <1>5, <2>0, <2>2, StationRests DEF RouteRemoved, TypeOK
  <2>3. QED BY <2>1, <2>2
<1>6. QED BY <1>1, <1>2, <1>3, <1>4, <1>5 DEF WatchRoutes

LEMMA NreqStation ==
  ASSUME TypeOK, NEW n \in Node, NEW m \in nreqs, RecvNreq(n, m), NEW k \in Node
  PROVE  StationStep(k)
<1>0. m.addr \in Node /\ m.from \in Node
  BY DEF TypeOK, Nreq
<1>1. PICK left \in {{}, {m}} : RecvNreqCached(n, m, left) \/ RecvNreqUnknown(n, m, left)
  BY DEF RecvNreq
<1>2. CASE RecvNreqCached(n, m, left)
  BY <1>2, StationRests DEF RecvNreqCached
<1>3. CASE RecvNreqUnknown(n, m, left)
  <2>1. CASE k = n
    <3>1. OneStation(n)!Register(m.addr, m.from) \/ OneStation(n)!Crash(m.addr, m.from)
      BY <1>0, <1>3, StationRegisters DEF RecvNreqUnknown
    <3>2. OneStation(n)!Wanted(m.addr, m.from)
      BY <1>0, <1>3, <3>1 DEF RecvNreqUnknown, Cached, OneStation!Wanted
    <3>3. up[n]
      BY <1>3 DEF RecvNreqUnknown
    <3>4. QED BY <1>0, <2>1, <3>2, <3>3 DEF StationStep, OneStation!Next
  <2>2. CASE k # n
    BY <1>0, <1>3, <2>2, StationRests, StationRegisters DEF RecvNreqUnknown
  <2>3. QED BY <2>1, <2>2
<1>4. QED BY <1>1, <1>2, <1>3

LEMMA NrepStation ==
  ASSUME TypeOK, TableInv, NEW n \in Node, NEW m \in nreps, RecvNrep(n, m), NEW k \in Node
  PROVE  StationStep(k)
<1>1. PICK left \in {{}, {m}} : RecvNrepNew(n, m, left) \/ RecvNrepCached(n, m, left)
  BY DEF RecvNrep
<1>2. CASE RecvNrepCached(n, m, left)
  BY <1>2, StationRests DEF RecvNrepCached
<1>3. CASE RecvNrepNew(n, m, left)
  <2>0. m.addr \in Node /\ m.addr \in asked[n] /\ m.name \in Name /\ m.name # None
    BY <1>3, ConstantsAssumption DEF RecvNrepNew, TypeOK, Nrep, TableInv, Solicited
  <2>1. hosts' = [hosts EXCEPT ![n][m.addr] = m.name]
    BY <1>3 DEF RecvNrepNew, CacheName
  <2>2. CASE k = n
    <3>1. {d \in Node : Cached(n, d)}' = {d \in Node : Cached(n, d)} \cup {m.addr}
      BY <2>0, <2>1 DEF Cached, TypeOK
    <3>2. OneStation(n)!Learn(m.addr)
      BY <1>3, <2>0, <3>1 DEF RecvNrepNew, Cached, TypeOK, OneStation!Learn
    <3>3. up[n]
      BY <1>3 DEF RecvNrepNew
    <3>4. QED BY <2>0, <2>2, <3>2, <3>3 DEF StationStep, OneStation!Next
  <2>3. CASE k # n
    BY <1>3, <2>1, <2>3, StationRests DEF RecvNrepNew, TypeOK
  <2>4. QED BY <2>2, <2>3
<1>4. QED BY <1>1, <1>2, <1>3

LEMMA TimeoutStation ==
  ASSUME TypeOK, NEW n \in Node, NEW i \in Slot, Timeout(n, i), NEW k \in Node
  PROVE  StationStep(k)
<1> DEFINE d == timers[n][i]
           freed == [timers[n] EXCEPT ![i] = None]
<1>0. d \in Node /\ up[n] /\ i \in OneStation(n)!Slot
  <2>1. up[n] /\ d # None
    BY DEF Timeout, TimeoutDone, TimeoutRetry
  <2>2. d \in Node \cup {None}
    BY DEF TypeOK
  <2>3. i \in OneStation(n)!Slot
    BY DEF OneStation!Slot, Slot
  <2>4. QED BY <2>1, <2>2, <2>3
<1>1. CASE TimeoutDone(n, i)
  <2>1. CASE k = n
    <3>1. OneStation(n)!Expired(i)
      BY <1>0, <1>1 DEF TimeoutDone, TypeOK, Cached, OneStation!Expired
    <3>2. QED BY <1>0, <2>1, <3>1 DEF StationStep, OneStation!Next
  <2>2. CASE k # n
    BY <1>1, <2>2, StationRests DEF TimeoutDone, TypeOK
  <2>3. QED BY <2>1, <2>2
<1>2. CASE TimeoutRetry(n, i)
  <2>0. PICK j \in Slot : IsNextFree(freed, j) /\ timers' = [timers EXCEPT ![n] = MakeTimer(freed, j, d)]
    BY <1>2 DEF TimeoutRetry
  <2>1. CASE k = n
    <3>1. timers'[n] = MakeTimer(freed, j, d)
      BY <2>0 DEF TypeOK
    <3>2. OneStation(n)!Start(freed, d)
      BY <1>0, <2>0, <3>1, NextFreeStarts
    <3>3. pnrs[n][d] # {} /\ OneStation(n)!Ask(d) /\ UNCHANGED <<hosts, pnrs, up>> /\ d # None
      BY <1>0, <1>2 DEF TimeoutRetry, RequestName, Pending, TypeOK, OneStation!Ask
    <3>4. OneStation(n)!Expired(i)
      BY <3>2, <3>3 DEF Cached, OneStation!Expired
    <3>5. QED BY <1>0, <2>1, <3>4 DEF StationStep, OneStation!Next
  <2>2. CASE k # n
    BY <1>2, <2>0, <2>2, StationRests DEF TimeoutRetry, RequestName, TypeOK
  <2>3. QED BY <2>1, <2>2
<1>3. QED BY <1>1, <1>2 DEF Timeout

LEMMA AllStationsStep ==
  ASSUME TypeOK, TableInv, [Next]_vars, NEW k \in Node
  PROVE  StationStep(k)
<1>1. CASE \E n, d \in Node, h \in Node \cup {None} : KernelRoute(n, d, h)
  BY <1>1, StationRests DEF KernelRoute
<1>2. CASE Lose
  BY <1>2, StationRests DEF Lose
<1>3. CASE UNCHANGED vars
  BY <1>3, StationRests DEF vars
<1>4. QED
  BY <1>1, <1>2, <1>3, WatcherStation, NreqStation, NrepStation, TimeoutStation DEF Next, Protocol

\* Each station of the protocol is a station with atomic handlers, and learns
\* only what it asked for.
THEOREM StationsAreStations == Spec => StationsAct
<1>1. Init => \A n \in Node : OneStation(n)!Init
  <2> SUFFICES ASSUME Init, NEW n \in Node PROVE OneStation(n)!Init
    OBVIOUS
  <2>1. {d \in Node : Cached(n, d)} = {n}
    BY ConstantsAssumption DEF Init, StationsStart, Cached
  <2>2. QED BY <2>1 DEF Init, StationsStart, OneStation!Init, OneStation!Slot, Slot
<1>2. TypeOK /\ TableInv /\ [Next]_vars =>
        [\A n \in Node : [OneStation(n)!Next]_(OneStation(n)!vars)]_vars
  BY AllStationsStep DEF StationStep
<1>3. QED BY <1>1, <1>2, TablesInvariant, PTL DEF Spec, StationsAct

-----------------------------------------------------------------------------
(* Requests and their timers *)

GoesOn(n, d) ==
  up'[n] /\ Pending(n, d)' /\ ~Timed(n, d)' =>
    \/ Pending(n, d) /\ ~Timed(n, d)
    \/ Timed(n, d) /\ RouteExists(n, d) = None

\* No request is added and no timer of the station goes.
LEMMA NothingNew ==
  ASSUME NEW n \in Node, NEW d \in Node, timers'[n] = timers[n],
         Pending(n, d)' => Pending(n, d)
  PROVE  GoesOn(n, d)
BY DEF GoesOn, Timed

LEMMA RegisterGoesOn ==
  ASSUME TypeOK, NEW m \in Node, NEW e \in Node, NEW q \in Node \cup {Local},
         RegisterNreq(m, e, q) \/ RegisterNreqCrash(m, e, q),
         NEW n \in Node, NEW d \in Node
  PROVE  GoesOn(n, d)
<1>1. CASE RegisterNreqCrash(m, e, q)
  <2>1. up'[m] = FALSE /\ (n # m => pnrs'[n] = pnrs[n] /\ timers'[n] = timers[n])
    BY <1>1 DEF RegisterNreqCrash, TypeOK
  <2>2. CASE n = m
    BY <2>1, <2>2 DEF GoesOn
  <2>3. CASE n # m
    BY <2>1, <2>3, NothingNew DEF Pending
  <2>4. QED BY <2>2, <2>3
<1>2. CASE RegisterNreq(m, e, q)
  <2>1. (n # m \/ d # e) => (Pending(n, d)' <=> Pending(n, d))
    BY <1>2 DEF RegisterNreq, Pending, TypeOK
  <2>2. CASE Pending(m, e)
    BY <1>2, <2>1, <2>2, NothingNew DEF RegisterNreq
  <2>3. CASE ~Pending(m, e)
    <3>1. PICK i \in Slot : /\ timers[m][i] = None
                            /\ timers' = [timers EXCEPT ![m] = [@ EXCEPT ![i] = e]]
      BY <1>2, <2>3 DEF RegisterNreq, IsNextFree, MakeTimer
    <3>2. timers'[m][i] = e /\ \A j \in Slot \ {i} : timers'[m][j] = timers[m][j]
      BY <3>1 DEF TypeOK
    <3>3. n # m => timers'[n] = timers[n]
      BY <3>1 DEF TypeOK
    <3>4. CASE n = m /\ d = e
      BY <3>2, <3>4 DEF GoesOn, Timed
    <3>5. CASE n = m /\ d # e
      BY <2>1, <3>1, <3>2, <3>5, ConstantsAssumption DEF GoesOn, Timed
    <3>6. CASE n # m
      BY <2>1, <3>3, <3>6, NothingNew
    <3>7. QED BY <3>4, <3>5, <3>6
  <2>4. QED BY <2>2, <2>3
<1>3. QED BY <1>1, <1>2

LEMMA WatcherGoesOn ==
  ASSUME TypeOK, NEW m \in Node, WatchRoutes(m), NEW n \in Node, NEW d \in Node
  PROVE  GoesOn(n, d)
<1>0. PICK e \in Node : e = Head(events[m]).dst
  BY ReadEventType DEF WatchRoutes, RouteAddedCached, RouteAddedPending, RouteAddedNew,
                       RouteAddedCrash, RouteRemoved, RouteEvent
<1>1. CASE RouteAddedCached(m) \/ RouteAddedPending(m)
  BY <1>1, NothingNew DEF RouteAddedCached, RouteAddedPending, Pending
<1>2. CASE RouteAddedNew(m) \/ RouteAddedCrash(m)
  <2>1. RegisterNreq(m, e, Local) \/ RegisterNreqCrash(m, e, Local)
    BY <1>0, <1>2 DEF RouteAddedNew, RouteAddedCrash, RegisterNreq, RegisterNreqCrash, Pending
  <2>2. QED BY <2>1, RegisterGoesOn
<1>3. CASE RouteRemoved(m)
  <2>1. timers' = timers /\ pnrs' = [pnrs EXCEPT ![m][e] = {}]
    BY <1>0, <1>3 DEF RouteRemoved
  <2>2. Pending(n, d)' => Pending(n, d)
    BY <2>1 DEF Pending, TypeOK
  <2>3. QED BY <2>1, <2>2, NothingNew
<1>4. QED BY <1>1, <1>2, <1>3 DEF WatchRoutes

LEMMA ListenerGoesOn ==
  ASSUME TypeOK, NEW m \in Node, NEW n \in Node, NEW d \in Node,
         (\E x \in nreqs : RecvNreq(m, x)) \/ (\E x \in nreps : RecvNrep(m, x))
  PROVE  GoesOn(n, d)
<1>1. ASSUME NEW x \in nreqs, RecvNreq(m, x) PROVE GoesOn(n, d)
  <2>1. x.addr \in Node /\ x.from \in Node
    BY DEF TypeOK, Nreq
  <2>2. PICK left \in {{}, {x}} : RecvNreqCached(m, x, left) \/ RecvNreqUnknown(m, x, left)
    BY <1>1 DEF RecvNreq
  <2>3. CASE RecvNreqCached(m, x, left)
    BY <2>3, NothingNew DEF RecvNreqCached, Pending
  <2>4. CASE RecvNreqUnknown(m, x, left)
    BY <2>1, <2>4, RegisterGoesOn DEF RecvNreqUnknown
  <2>5. QED BY <2>2, <2>3, <2>4
<1>2. ASSUME NEW x \in nreps, RecvNrep(m, x) PROVE GoesOn(n, d)
  <2>1. PICK left \in {{}, {x}} : RecvNrepNew(m, x, left) \/ RecvNrepCached(m, x, left)
    BY <1>2 DEF RecvNrep
  <2>2. x.addr \in Node /\ pnrs \in [Node -> [Node -> SUBSET (Node \cup {Local})]]
    BY DEF TypeOK, Nrep
  <2>3. timers' = timers /\ (pnrs' = pnrs \/ pnrs' = [pnrs EXCEPT ![m][x.addr] = {}])
    BY <2>1 DEF RecvNrepNew, RecvNrepCached
  <2>4. Pending(n, d)' => Pending(n, d)
    BY <2>2, <2>3 DEF Pending
  <2>5. QED BY <2>3, <2>4, NothingNew
<1>3. QED BY <1>1, <1>2

LEMMA TimeoutGoesOn ==
  ASSUME TypeOK, NEW m \in Node, NEW i \in Slot, Timeout(m, i),
         NEW n \in Node, NEW d \in Node
  PROVE  GoesOn(n, d)
<1>1. Pending(n, d)' <=> Pending(n, d)
  BY DEF Timeout, TimeoutDone, TimeoutRetry, Pending
<1>2. n # m => timers'[n] = timers[n]
  BY DEF Timeout, TimeoutDone, TimeoutRetry, TypeOK
<1>3. CASE n # m
  BY <1>1, <1>2, <1>3, NothingNew
<1>4. CASE n = m /\ TimeoutDone(m, i)
  <2>1. timers'[m] = [timers[m] EXCEPT ![i] = None]
    BY <1>4 DEF TimeoutDone, TypeOK
  <2>2. CASE timers[m][i] = d
    BY <1>1, <1>4, <2>2 DEF TimeoutDone, GoesOn, Timed
  <2>3. CASE timers[m][i] # d
    BY <1>1, <1>4, <2>1, <2>3 DEF GoesOn, Timed, TypeOK
  <2>4. QED BY <2>2, <2>3
<1>5. CASE n = m /\ TimeoutRetry(m, i)
  <2> DEFINE freed == [timers[m] EXCEPT ![i] = None]
  <2>1. PICK j \in Slot : freed[j] = None /\ timers' = [timers EXCEPT ![m] = [freed EXCEPT ![j] = timers[m][i]]]
    BY <1>5 DEF TimeoutRetry, IsNextFree, MakeTimer
  <2>2. /\ timers'[m][j] = timers[m][i]
        /\ \A k \in Slot \ {i, j} : timers'[m][k] = timers[m][k]
        /\ timers[m][j] = None \/ j = i
    BY <2>1 DEF TypeOK
  <2>3. Timed(n, d) => Timed(n, d)'
    BY <1>5, <2>2, ConstantsAssumption DEF Timed
  <2>4. QED BY <1>1, <2>3 DEF GoesOn
<1>6. QED BY <1>3, <1>4, <1>5 DEF Timeout

\* A station that is up, and whose handlers do not overlap, repeats every request
\* that is pending, unless the timer of the request expired while there was no
\* route to ask along.
THEOREM RetriesAlwaysGoOn == Spec => RetriesGoOn
<1>1. ASSUME TypeOK, [Next]_vars PROVE [\A n, d \in Node : GoesOn(n, d)]_vars
  <2> SUFFICES ASSUME Next, NEW n \in Node, NEW d \in Node PROVE GoesOn(n, d)
    BY <1>1
  <2>1. CASE \E m, e \in Node, h \in Node \cup {None} : KernelRoute(m, e, h)
    BY <2>1, NothingNew DEF KernelRoute, Pending
  <2>2. CASE Lose
    BY <2>2, NothingNew DEF Lose, Pending
  <2>3. QED
    BY <1>1, <2>1, <2>2, WatcherGoesOn, ListenerGoesOn, TimeoutGoesOn DEF Next, Protocol
<1>2. TypeOK /\ [Next]_vars =>
        [\A n, d \in Node :
           up'[n] /\ Pending(n, d)' /\ ~Timed(n, d)' =>
             \/ Pending(n, d) /\ ~Timed(n, d)
             \/ Timed(n, d) /\ RouteExists(n, d) = None]_vars
  BY <1>1 DEF GoesOn
<1>3. QED BY <1>2, TypeCorrect, PTL DEF Spec, RetriesGoOn

===============================================================================
