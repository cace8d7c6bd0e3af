-------------------------- MODULE TableLocks_proofs --------------------------
(***************************************************************************)
(* Proofs about TableLocks, for any number of threads, inputs and signals. *)
(***************************************************************************)
EXTENDS TableLocks, TLAPS

\* The calls, and where they lead: a handler stays within its own calls.
LEMMA CallFacts ==
  /\ "idle" \notin Call /\ HandlerCall \subseteq Call /\ Changing \subseteq Call
  /\ \A call \in Call : TableOf(call) \in Table
  /\ \A call \in Call : Follow(call) \subseteq Call \cup {"idle"}
  /\ \A call \in HandlerCall : Follow(call) \subseteq HandlerCall \cup {"idle"}
  /\ \A call \in Call \ HandlerCall : Follow(call) \cap HandlerCall = {}
  /\ \A t \in Thread : First(t) \subseteq Call \ HandlerCall
<1>0. HandlerCall = {"expired", "forget", "wanted", "clean", "restart"}
  BY DEF HandlerCall, timeout_handler
<1>1. Call = {"pending", "removed", "drop", "respond", "answered", "lookup",
              "enter", "start", "expired", "forget", "wanted", "clean", "restart"}
  BY DEF Call, HandlerCall, watch_routes, listen_for_nreqs, register_nreq, timeout_handler
<1>9. /\ Follow("pending") = {"lookup", "idle"} /\ Follow("removed") = {"drop", "idle"}
      /\ Follow("drop") = {"idle"} /\ Follow("respond") = {"answered"}
      /\ Follow("answered") = {"idle"} /\ Follow("lookup") = {"enter", "idle"}
      /\ Follow("enter") = {"start"} /\ Follow("start") = {"idle"}
      /\ Follow("expired") = {"forget"} /\ Follow("forget") = {"wanted"}
      /\ Follow("wanted") = {"clean", "restart", "idle"}
      /\ Follow("clean") = {"idle"} /\ Follow("restart") = {"idle"}
  BY DEF Follow, watch_routes, listen_for_nreqs, register_nreq, timeout_handler
<1>2. \A call \in Call : TableOf(call) \in Table
  BY <1>1 DEF TableOf, Table
<1>3. "idle" \notin Call /\ HandlerCall \subseteq Call /\ Changing \subseteq Call
  BY <1>1, <1>0 DEF Changing
<1>4. \A call \in Call : Follow(call) \subseteq Call \cup {"idle"}
  BY <1>1, <1>9
<1>5. \A call \in HandlerCall : Follow(call) \subseteq HandlerCall \cup {"idle"}
  BY <1>0, <1>9
<1>6. \A call \in Call \ HandlerCall : Follow(call) \cap HandlerCall = {}
  BY <1>0, <1>1, <1>9
<1>7. \A t \in Thread : First(t) \subseteq Call \ HandlerCall
  BY <1>0, <1>1, LocksAssumption DEF First
<1>8. QED BY <1>2, <1>3, <1>4, <1>5, <1>6, <1>7

LEMMA FrameFacts ==
  /\ \A t \in Thread :
       /\ Own(t) \in Frame /\ Handler(t) \in Frame
       /\ \A u \in Thread : Own(t) # Handler(u)
       /\ \A u \in Thread : (Own(t) = Own(u) \/ Handler(t) = Handler(u)) => t = u
  /\ \A f \in Frame : \E t \in Thread : f = Own(t) \/ f = Handler(t)
BY DEF Frame, Own, Handler

\* What Suspended says of the two kinds of frames.
LEMMA SuspendedFacts ==
  \A t \in Thread :
    /\ Suspended(Own(t)) <=> Active(Handler(t))
    /\ ~Suspended(Handler(t))
BY DEF Suspended, Own, Handler

-----------------------------------------------------------------------------
(* Types *)

LEMMA TypeStep ==
  ASSUME TypeOK, [Next]_vars
  PROVE  TypeOK'
<1> USE CallFacts, FrameFacts DEF TypeOK
<1> HIDE DEF Call, HandlerCall, Changing, Table, Frame, Own, Handler
<1>1. ASSUME NEW t \in Thread, ReadInput(t)
      PROVE  TypeOK'
  <2>1. PICK call \in First(t) : at' = [at EXCEPT ![Own(t)] = call]
    BY <1>1 DEF ReadInput
  <2>2. call \in Call \ HandlerCall
    BY <2>1
  <2>3. Own(t) \notin rehashing
    BY <1>1 DEF ReadInput, Active
  <2>4. inputs' \in 0..MaxInputs
    BY <1>1, LocksAssumption DEF ReadInput
  <2>5. QED BY <1>1, <2>1, <2>2, <2>3, <2>4 DEF ReadInput
<1>2. ASSUME NEW t \in Thread, Deliver(t)
      PROVE  TypeOK'
  <2>1. Handler(t) \notin rehashing
    BY <1>2 DEF Deliver, Active
  <2>2. expiries' \in 0..MaxExpiries
    BY <1>2, LocksAssumption DEF Deliver
  <2>3. "expired" \in HandlerCall
    BY DEF HandlerCall, timeout_handler
  <2>4. QED BY <1>2, <2>1, <2>2, <2>3 DEF Deliver
<1>3. ASSUME NEW f \in Frame, lock_hash(f)
      PROVE  TypeOK'
  BY <1>3 DEF lock_hash
<1>4. ASSUME NEW f \in Frame, unlock_hash(f)
      PROVE  TypeOK'
  <2>1. /\ UNCHANGED <<inputs, expiries>>
        /\ owner' \in [Table -> Frame \cup {None}]
    BY <1>4 DEF unlock_hash
  <2>2. CASE UNCHANGED at /\ at[f] \in Changing /\ rehashing' = rehashing \cup {f}
    BY <2>1, <2>2
  <2>3. ASSUME NEW call \in Follow(at[f]), rehashing' = rehashing \ {f},
               at' = [at EXCEPT ![f] = call]
        PROVE  TypeOK'
    <3>1. at[f] \in Call
      BY <1>4 DEF unlock_hash, Holds, Active
    <3>2. QED BY <2>1, <2>3, <3>1
  <2>4. QED BY <1>4, <2>2, <2>3 DEF unlock_hash, GoOn
<1>5. CASE UNCHANGED vars
  BY <1>5 DEF vars
<1>6. QED BY <1>1, <1>2, <1>3, <1>4, <1>5 DEF Next, Step

\* Handlers stay within the calls of timeout_handler, threads out of them, and
\* only a call that changed a table is followed by cfuhash_rehash.
THEOREM TypeCorrect == Spec => []TypeOK
<1>1. Init => TypeOK
  BY CallFacts, FrameFacts, LocksAssumption DEF Init, TypeOK, HandlerCall
<1>2. QED BY <1>1, TypeStep, PTL DEF Spec

-----------------------------------------------------------------------------
(* Owners *)

\* A mutex that is held is held by a frame inside a call on its table; so no
\* frame holds two.
OwnersInside ==
  \A m \in Table : owner[m] # None => Active(owner[m]) /\ Needed(owner[m]) = m

LEMMA OwnersStep ==
  ASSUME TypeOK, OwnersInside, [Next]_vars
  PROVE  OwnersInside'
<1> USE CallFacts, FrameFacts DEF TypeOK, OwnersInside, Active, Needed
<1> HIDE DEF Call, HandlerCall, Changing, Table, Frame, Own, Handler, TableOf
<1>1. ASSUME NEW t \in Thread, ReadInput(t)
      PROVE  OwnersInside'
  <2>1. UNCHANGED owner /\ at[Own(t)] = "idle"
    BY <1>1 DEF ReadInput
  <2>2. \A f \in Frame : f # Own(t) => at'[f] = at[f]
    BY <1>1 DEF ReadInput
  <2>3. QED BY <2>1, <2>2
<1>2. ASSUME NEW t \in Thread, Deliver(t)
      PROVE  OwnersInside'
  <2>1. UNCHANGED owner /\ at[Handler(t)] = "idle"
    BY <1>2 DEF Deliver
  <2>2. \A f \in Frame : f # Handler(t) => at'[f] = at[f]
    BY <1>2 DEF Deliver
  <2>3. QED BY <2>1, <2>2
<1>3. ASSUME NEW f \in Frame, lock_hash(f)
      PROVE  OwnersInside'
  BY <1>3, LocksAssumption DEF lock_hash, Waits
<1>4. ASSUME NEW f \in Frame, unlock_hash(f)
      PROVE  OwnersInside'
  <2>1. at[f] \in Call /\ owner[TableOf(at[f])] = f
    BY <1>4 DEF unlock_hash, Holds
  <2>2. owner' = [owner EXCEPT ![TableOf(at[f])] = None]
    BY <1>4 DEF unlock_hash
  <2>3. \A g \in Frame : g # f => at'[g] = at[g]
    BY <1>4 DEF unlock_hash, GoOn
  <2>4. QED BY <2>1, <2>2, <2>3
<1>5. CASE UNCHANGED vars
  BY <1>5 DEF vars
<1>6. QED BY <1>1, <1>2, <1>3, <1>4, <1>5 DEF Next, Step

\* If no frame can go on, the threads that run a handler are a wedge: each of
\* their handlers waits, and what it waits for is held by a frame that cannot
\* go on, hence by one that is interrupted.
LEMMA BlockedIsWedge ==
  ASSUME TypeOK, OwnersInside, NEW f0 \in Frame, Active(f0),
         \A f \in Frame : ~CanStep(f)
  PROVE  Wedged
<1> DEFINE T == {t \in Thread : Active(Handler(t))}
<1> USE CallFacts, FrameFacts, SuspendedFacts DEF TypeOK
<1> HIDE DEF Call, HandlerCall, Changing, Table, Frame, Own, Handler, TableOf
<1>1. ASSUME NEW f \in Frame, Active(f), ~Suspended(f)
      PROVE  Waits(f) /\ \E u \in T : owner[Needed(f)] = Own(u)
  <2>1. at[f] \in Call /\ Needed(f) \in Table
    BY <1>1 DEF Active, Needed
  <2>2. owner[Needed(f)] \in Frame /\ owner[Needed(f)] # f
    BY <1>1, <2>1 DEF CanStep
  <2> DEFINE g == owner[Needed(f)]
  <2>3. Active(g) /\ Needed(g) = Needed(f) /\ owner[Needed(g)] = g
    BY <2>1, <2>2, LocksAssumption DEF OwnersInside
  <2>4. Suspended(g)
    BY <2>2, <2>3 DEF CanStep
  <2>5. PICK u \in Thread : g = Own(u)
    BY <2>2, <2>4
  <2>6. u \in T
    BY <2>4, <2>5
  <2>7. QED BY <1>1, <2>2, <2>5, <2>6 DEF Waits
<1>2. T # {}
  <2>1. CASE Suspended(f0)
    <3>1. PICK t \in Thread : f0 = Own(t)
      BY <2>1
    <3>2. QED BY <2>1, <3>1
  <2>2. CASE ~Suspended(f0)
    BY <1>1, <2>2
  <2>3. QED BY <2>1, <2>2
<1>3. Wedge(T)
  BY <1>1 DEF Wedge
<1>4. QED BY <1>2, <1>3 DEF Wedged

\* For any number of threads and signals, the only deadlock is a handler that
\* waits for what it has interrupted, or several that do so in a cycle.
THEOREM OnlyWedges == Spec => []DeadlockIsWedge
<1>1. Init => OwnersInside
  BY DEF Init, OwnersInside
<1>2. TypeOK /\ OwnersInside => DeadlockIsWedge
  BY BlockedIsWedge DEF DeadlockIsWedge
<1>3. QED BY <1>1, <1>2, OwnersStep, TypeCorrect, PTL DEF Spec

\* A wedge is for ever: the mutexes it is about are held by interrupted frames,
\* and the handlers on top of these wait.
THEOREM NoWayOut == Spec => WedgeForever
<1>1. ASSUME TypeOK, [Next]_vars, NEW T \in SUBSET Thread, Wedge(T)
      PROVE  Wedge(T)'
  <2> USE CallFacts, FrameFacts, SuspendedFacts DEF TypeOK
  <2> HIDE DEF Call, HandlerCall, Changing, Table, Frame, Own, Handler, TableOf
  <2> SUFFICES ASSUME NEW t \in T
               PROVE  /\ at'[Handler(t)] = at[Handler(t)]
                      /\ owner'[Needed(Handler(t))] = owner[Needed(Handler(t))]
    BY <1>1 DEF Wedge, Waits, Active, Needed
  <2> DEFINE h == Handler(t)
             m == Needed(h)
  <2>1. PICK u \in T : owner[m] = Own(u) /\ Active(Handler(u))
    BY <1>1 DEF Wedge, Waits
  <2>2. h \in Frame /\ at[h] \in Call /\ m \in Table /\ owner[m] # h /\ owner[m] # None
    BY <1>1, <2>1, LocksAssumption DEF Wedge, Waits, Active, Needed
  <2>3. Suspended(owner[m])
    BY <2>1
  <2>4. ASSUME NEW v \in Thread, ReadInput(v) \/ Deliver(v)
        PROVE  at'[h] = at[h] /\ owner'[m] = owner[m]
    <3>1. PICK g \in Frame, call \in Call :
            at[g] = "idle" /\ at' = [at EXCEPT ![g] = call]
      BY <2>4 DEF ReadInput, Deliver, Active, HandlerCall, timeout_handler
    <3>2. g # h /\ UNCHANGED owner
      BY <2>2, <2>4, <3>1 DEF ReadInput, Deliver
    <3>3. at'[h] = at[h]
      BY <2>2, <3>1, <3>2
    <3>4. QED BY <3>2, <3>3
  <2>5. ASSUME NEW f \in Frame, lock_hash(f)
        PROVE  at'[h] = at[h] /\ owner'[m] = owner[m]
    BY <2>2, <2>5 DEF lock_hash
  <2>6. ASSUME NEW f \in Frame, unlock_hash(f)
        PROVE  at'[h] = at[h] /\ owner'[m] = owner[m]
    <3>1. f # owner[m] /\ owner[Needed(f)] = f
      BY <2>3, <2>6 DEF unlock_hash, Holds
    <3>2. f # h /\ Needed(f) # m
      BY <2>2, <3>1
    <3>3. at'[h] = at[h]
      <4>1. UNCHANGED at \/ \E call \in Follow(at[f]) : at' = [at EXCEPT ![f] = call]
        BY <2>6 DEF unlock_hash, GoOn
      <4>2. \A call : h \in Frame /\ f # h => [at EXCEPT ![f] = call][h] = at[h]
        OBVIOUS
      <4>3. QED BY <2>2, <3>2, <4>1, <4>2
    <3>4. owner'[m] = owner[m]
      <4>1. owner' = [owner EXCEPT ![Needed(f)] = None]
        BY <2>6 DEF unlock_hash
      <4>2. QED BY <2>2, <3>2, <4>1
    <3>5. QED BY <3>3, <3>4
  <2>7. CASE UNCHANGED vars
    BY <2>7 DEF vars
  <2>8. QED BY <1>1, <2>4, <2>5, <2>6, <2>7 DEF Next, Step
<1>2. TypeOK /\ [Next]_vars => [\A T \in SUBSET Thread : Wedge(T) => Wedge(T)']_vars
  BY <1>1
<1>3. QED BY <1>2, TypeCorrect, PTL DEF Spec, WedgeForever

-----------------------------------------------------------------------------
(* Nobody goes round in circles *)

\* Each call leads to one with fewer calls left.
LEMMA LeftFacts ==
  /\ \A call \in Call : CallsLeft(call) \in 1..4
  /\ CallsLeft("idle") = 0
  /\ \A call \in Call : \A next \in Follow(call) :
       CallsLeft(next) \in 0..4 /\ CallsLeft(next) + 1 <= CallsLeft(call)
<1>1. Call = {"pending", "removed", "drop", "respond", "answered", "lookup",
              "enter", "start", "expired", "forget", "wanted", "clean", "restart"}
  BY DEF Call, HandlerCall, watch_routes, listen_for_nreqs, register_nreq, timeout_handler
<1>2. /\ Follow("pending") = {"lookup", "idle"} /\ Follow("removed") = {"drop", "idle"}
      /\ Follow("drop") = {"idle"} /\ Follow("respond") = {"answered"}
      /\ Follow("answered") = {"idle"} /\ Follow("lookup") = {"enter", "idle"}
      /\ Follow("enter") = {"start"} /\ Follow("start") = {"idle"}
      /\ Follow("expired") = {"forget"} /\ Follow("forget") = {"wanted"}
      /\ Follow("wanted") = {"clean", "restart", "idle"}
      /\ Follow("clean") = {"idle"} /\ Follow("restart") = {"idle"}
  BY DEF Follow, watch_routes, listen_for_nreqs, register_nreq, timeout_handler
<1>3. /\ CallsLeft("pending") = 4 /\ CallsLeft("expired") = 4
      /\ CallsLeft("lookup") = 3 /\ CallsLeft("forget") = 3
      /\ CallsLeft("removed") = 2 /\ CallsLeft("respond") = 2
      /\ CallsLeft("enter") = 2 /\ CallsLeft("wanted") = 2
      /\ CallsLeft("drop") = 1 /\ CallsLeft("answered") = 1 /\ CallsLeft("start") = 1
      /\ CallsLeft("clean") = 1 /\ CallsLeft("restart") = 1
      /\ CallsLeft("idle") = 0
  BY DEF CallsLeft
<1>4. \A call \in Call : CallsLeft(call) \in 1..4
  BY <1>1, <1>3
<1>5. \A call \in Call : \A next \in Follow(call) :
        CallsLeft(next) \in 0..4 /\ CallsLeft(next) + 1 <= CallsLeft(call)
  BY <1>1, <1>2, <1>3
<1>6. QED BY <1>3, <1>4, <1>5

\* A step of another frame leaves a frame's share alone: whether it holds the
\* mutex it needs does not depend on what others lock and unlock.
LEMMA OthersLeft ==
  ASSUME TypeOK, NEW f \in Frame, Step(f), NEW g \in Frame \ {f}
  PROVE  StepsLeft(g)' = StepsLeft(g)
<1> USE CallFacts DEF TypeOK
<1> HIDE DEF Call, HandlerCall, Changing, Table, Frame, TableOf
<1>1. at'[g] = at[g] /\ (g \in rehashing' <=> g \in rehashing)
  BY DEF Step, lock_hash, unlock_hash, GoOn
<1>2. Active(f) /\ Needed(f) \in Table
  BY DEF Step, lock_hash, unlock_hash, Waits, Holds, Active, Needed
<1>3. \/ owner[Needed(f)] = None /\ owner' = [owner EXCEPT ![Needed(f)] = f]
      \/ owner[Needed(f)] = f /\ owner' = [owner EXCEPT ![Needed(f)] = None]
  BY DEF Step, lock_hash, unlock_hash, Holds
<1>4. Holds(g)' <=> Holds(g)
  <2>1. CASE Active(g)
    <3>1. Needed(g) \in Table /\ Needed(g)' = Needed(g) /\ Active(g)'
      BY <1>1, <2>1 DEF Active, Needed
    <3>2. owner'[Needed(g)] = g <=> owner[Needed(g)] = g
      BY <1>2, <1>3, <3>1, LocksAssumption
    <3>3. QED BY <2>1, <3>1, <3>2 DEF Holds
  <2>2. CASE ~Active(g)
    BY <1>1, <2>2 DEF Holds, Active
  <2>3. QED BY <2>1, <2>2
<1>5. QED BY <1>1, <1>4 DEF StepsLeft

LEMMA OwnLeft ==
  ASSUME TypeOK, NEW f \in Frame, Step(f)
  PROVE  StepsLeft(f)' < StepsLeft(f) /\ StepsLeft(f)' >= 0
<1> USE CallFacts DEF TypeOK
<1> HIDE DEF Call, HandlerCall, Changing, Table, Frame, TableOf
<1>0. Active(f) /\ at[f] \in Call /\ Needed(f) \in Table
  BY DEF Step, lock_hash, unlock_hash, Waits, Holds, Active, Needed
<1>1. CallsLeft(at[f]) \in 1..4
  BY <1>0, LeftFacts
<1>2. CASE lock_hash(f)
  <2>1. ~Holds(f) /\ Holds(f)' /\ at' = at /\ rehashing' = rehashing
    BY <1>0, <1>2 DEF lock_hash, Waits, Holds, Active, Needed
  <2>2. QED BY <1>1, <2>1 DEF StepsLeft
<1>3. CASE unlock_hash(f)
  <2>1. Holds(f) /\ owner' = [owner EXCEPT ![Needed(f)] = None]
    BY <1>3 DEF unlock_hash
  <2>2. CASE f \notin rehashing /\ rehashing' = rehashing \cup {f} /\ at' = at
    <3>1. ~Holds(f)' /\ f \in rehashing'
      BY <1>0, <2>1, <2>2, LocksAssumption DEF Holds, Needed
    <3>2. QED BY <1>1, <2>1, <2>2, <3>1 DEF StepsLeft
  <2>3. ASSUME NEW next \in Follow(at[f]), rehashing' = rehashing \ {f},
               at' = [at EXCEPT ![f] = next]
        PROVE  StepsLeft(f)' < StepsLeft(f) /\ StepsLeft(f)' >= 0
    <3>1. /\ at'[f] = next /\ f \notin rehashing'
          /\ CallsLeft(next) \in 0..4 /\ CallsLeft(next) + 1 <= CallsLeft(at[f])
      BY <1>0, <2>3, LeftFacts
    <3>2. StepsLeft(f) >= 4 * CallsLeft(at[f]) - 3
      BY <1>1 DEF StepsLeft
    <3>3. next = "idle" \/ CallsLeft(next) >= 1
      BY <1>0, <2>3, LeftFacts
    <3>4. Holds(f)' => next # "idle"
      BY <3>1 DEF Holds, Active
    <3>5. StepsLeft(f)' = 4 * CallsLeft(next) - (IF Holds(f)' THEN 1 ELSE 0)
      BY <3>1 DEF StepsLeft
    <3>6. PICK n \in 0..4 : n = CallsLeft(next)
      BY <3>1
    <3>7. PICK k \in 1..4 : k = CallsLeft(at[f])
      BY <1>1
    <3>8. n = CallsLeft(next) /\ k = CallsLeft(at[f])
      BY <3>6, <3>7
    <3>9. /\ n + 1 <= k /\ StepsLeft(f) \in Int /\ StepsLeft(f) >= 4 * k - 3
          /\ (Holds(f)' => n >= 1)
      <4>1. StepsLeft(f) \in Int
        BY <3>8 DEF StepsLeft
      <4>2. QED BY <3>1, <3>2, <3>3, <3>4, <3>8, <4>1
    <3>10. CASE Holds(f)'
      <4>1. StepsLeft(f)' = 4 * n - 1
        BY <3>5, <3>8, <3>10
      <4>2. QED BY <3>8, <3>9, <3>10, <4>1
    <3>11. CASE ~Holds(f)'
      <4>1. StepsLeft(f)' = 4 * n
        BY <3>5, <3>8, <3>11
      <4>2. QED BY <3>8, <3>9, <4>1
    <3>12. QED BY <3>10, <3>11
  <2>4. QED BY <1>3, <2>2, <2>3 DEF unlock_hash, GoOn
<1>4. QED BY <1>2, <1>3 DEF Step

\* For any number of threads, each lock and unlock brings its frame nearer to
\* the end of its function: with the inputs and the signals that come, the
\* number of steps is bounded.
THEOREM NoCircles == Spec => CallsRunOut
<1>1. ASSUME TypeOK, Next, inputs' = inputs, expiries' = expiries
      PROVE  \E f \in Frame : /\ StepsLeft(f)' < StepsLeft(f) /\ StepsLeft(f)' >= 0
                              /\ \A g \in Frame \ {f} : StepsLeft(g)' = StepsLeft(g)
  <2>1. ASSUME NEW t \in Thread, ReadInput(t) \/ Deliver(t) PROVE FALSE
    BY <1>1, <2>1 DEF ReadInput, Deliver, TypeOK
  <2>2. PICK f \in Frame : Step(f)
    BY <1>1, <2>1 DEF Next
  <2>3. QED BY <1>1, <2>2, OwnLeft, OthersLeft
<1>2. TypeOK /\ [Next]_vars =>
        [inputs' = inputs /\ expiries' = expiries =>
           \E f \in Frame : /\ StepsLeft(f)' < StepsLeft(f) /\ StepsLeft(f)' >= 0
                            /\ \A g \in Frame \ {f} : StepsLeft(g)' = StepsLeft(g)]_vars
  BY <1>1
<1>3. QED BY <1>2, TypeCorrect, PTL DEF Spec, CallsRunOut

==============================================================================
