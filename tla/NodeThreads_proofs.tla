-------------------------- MODULE NodeThreads_proofs --------------------------
(***************************************************************************)
(* Proofs about NodeThreads, for any number of addresses, requesters,      *)
(* handler contexts and timer slots.                                       *)
(***************************************************************************)
EXTENDS NodeThreads, TLAPS

-----------------------------------------------------------------------------
(* Types, and what the locals of a context are good for where it is *)

SlotLabels == {"claim", "arm", "put", "get", "del", "reset"}
NoDstLabels == {"idle", "get", "del", "reset", "expired"}

\* The locals l of a context at label p.
LocalsFit(p, l) ==
  /\ p \in PC /\ l \in Locals
  /\ p \in SlotLabels => l.slot \in Slot
  /\ p \notin NoDstLabels => l.dst \in Addr

LocOK == \A c \in Context : LocalsFit(pc[c], loc[c])

\* What is not about control and locals.
DataOK ==
  /\ hosts \subseteq Addr /\ copy \subseteq Addr
  /\ kept \subseteq Addr /\ misled \subseteq Addr
  /\ pnrs \in [Addr -> SUBSET (Requester \cup {Local})]
  /\ timers \in [Key -> Addr \cup {None}]
  /\ timer_ids \in [Slot -> Key] /\ \A i \in Slot : timer_ids[i] \in {0, i}
  /\ armed \in [Key -> Nat]
  /\ status \in {"running", "exhausted", "wild", "null", "torn"}
  /\ inputs \in 0..MaxInputs
  /\ asked \subseteq Addr
  /\ raced \in BOOLEAN /\ early \in BOOLEAN

ControlOK == pc \in [Context -> PC] /\ loc \in [Context -> Locals] /\ LocOK

TypeInv == DataOK /\ ControlOK

LEMMA BlankFits == Blank \in Locals /\ LocalsFit("idle", Blank)
BY NodeAssumption DEF Blank, Locals, LocalsFit, NoDstLabels, SlotLabels, Key, PC

\* One context moves, its locals become l.
LEMMA Move ==
  ASSUME TypeInv, NEW c \in Context, NEW p, NEW l, LocalsFit(p, l),
         pc' = [pc EXCEPT ![c] = p], loc' = [loc EXCEPT ![c] = l]
  PROVE  pc' \in [Context -> PC] /\ loc' \in [Context -> Locals] /\ LocOK'
BY DEF TypeInv, ControlOK, LocOK, LocalsFit

\* The same while the entry of an address is deleted or replaced.
LEMMA MoveDetached ==
  ASSUME TypeInv, NEW c \in Context, NEW d, NEW p, NEW l, LocalsFit(p, l),
         pc' = [pc EXCEPT ![c] = p], loc' = [Detached(d) EXCEPT ![c] = l]
  PROVE  pc' \in [Context -> PC] /\ loc' \in [Context -> Locals] /\ LocOK'
<1>1. ASSUME NEW o \in Context
      PROVE  /\ Detached(d)[o] \in Locals
             /\ Detached(d)[o].slot = loc[o].slot
             /\ Detached(d)[o].dst = loc[o].dst
  BY <1>1 DEF Detached, Locals, TypeInv, ControlOK
<1>2. Detached(d) \in [Context -> Locals]
  BY <1>1 DEF Detached
<1>3. loc' \in [Context -> Locals]
  BY <1>2 DEF LocalsFit
<1>4. ASSUME NEW o \in Context PROVE LocalsFit(pc'[o], loc'[o])
  BY <1>1, <1>2 DEF LocalsFit, LocOK, TypeInv, ControlOK
<1>5. QED BY <1>3, <1>4 DEF LocOK, LocalsFit, TypeInv, ControlOK

\* The same while the locals stay as they are.
LEMMA Go ==
  ASSUME TypeInv, NEW c \in Context, NEW p, LocalsFit(p, loc[c]),
         Goto(c, p), loc' = loc
  PROVE  pc' \in [Context -> PC] /\ loc' \in [Context -> Locals] /\ LocOK'
BY DEF Goto, TypeInv, ControlOK, LocOK, LocalsFit

LEMMA Finishing ==
  ASSUME TypeInv, NEW c \in Context, Finish(c)
  PROVE  pc' \in [Context -> PC] /\ loc' \in [Context -> Locals] /\ LocOK'
BY BlankFits, Move DEF Finish, Goto

LEMMA TypeInit == Init => TypeInv
<1> SUFFICES ASSUME Init PROVE TypeInv
  OBVIOUS
<1>1. DataOK
  <2>1. 0 \in Key /\ 0 \in 0..MaxInputs
    BY NodeAssumption DEF Key
  <2>2. timers \in [Key -> Addr \cup {None}] /\ armed \in [Key -> Nat]
    BY DEF Init
  <2>3. timer_ids \in [Slot -> Key] /\ \A i \in Slot : timer_ids[i] \in {0, i}
    BY <2>1 DEF Init
  <2>4. /\ hosts \subseteq Addr /\ copy \subseteq Addr
        /\ kept \subseteq Addr /\ misled \subseteq Addr
        /\ pnrs \in [Addr -> SUBSET (Requester \cup {Local})]
    BY NodeAssumption DEF Init
  <2>5. QED BY <2>1, <2>2, <2>3, <2>4 DEF Init, DataOK
<1>2. \A c \in Context : LocalsFit(pc[c], loc[c])
  <2>1. \A c \in Context : pc[c] = "idle" /\ loc[c] = Blank
    BY DEF Init
  <2>2. QED BY <2>1, BlankFits
<1>3. pc \in [Context -> PC] /\ loc \in [Context -> Locals]
  BY BlankFits DEF Init, PC
<1>4. QED BY <1>1, <1>2, <1>3 DEF TypeInv, ControlOK, LocOK

LEMMA RegisterType ==
  ASSUME TypeInv, NEW c \in {Listener, Watcher}, RegisterNreq(c)
  PROVE  TypeInv'
<1> USE DEF At, Dst, DataOK, files, slots
<1>0. c \in Context /\ DataOK /\ LocalsFit(pc[c], loc[c]) /\ loc \in [Context -> Locals]
  BY DEF TypeInv, Context, ControlOK, LocOK
<1>1. ASSUME Registered(c), loc[c].dst \in Addr PROVE ControlOK'
  <2>1. CASE Goto(c, "send") /\ UNCHANGED loc
    <3>1. LocalsFit("send", loc[c])
      BY <1>0, <1>1 DEF LocalsFit, SlotLabels, NoDstLabels, PC
    <3>2. QED BY <1>0, <2>1, <3>1, Go DEF ControlOK
  <2>2. CASE Finish(c)
    BY <1>0, <2>2, Finishing DEF ControlOK
  <2>3. QED BY <1>1, <2>1, <2>2 DEF Registered
<1>2. CASE Lookup(c)
  <2>1. DataOK'
    BY <1>0, <1>2 DEF Lookup
  <2>2. LocalsFit("new", loc[c])
    BY <1>0, <1>2 DEF Lookup, LocalsFit, SlotLabels, NoDstLabels, PC
  <2>3. LocalsFit("exists", [loc[c] EXCEPT !.held = TRUE])
    BY <1>0, <1>2 DEF Lookup, LocalsFit, SlotLabels, NoDstLabels, PC, Locals
  <2>4. ControlOK'
    BY <1>0, <1>2, <2>2, <2>3, Go, Move DEF Lookup, Goto, ControlOK
  <2>5. QED BY <2>1, <2>4 DEF TypeInv
<1>3. CASE ExistsInList(c)
  <2>1. DataOK' /\ loc[c].dst \in Addr
    BY <1>0, <1>3 DEF ExistsInList, LocalsFit, NoDstLabels
  <2>2. LocalsFit("push", loc[c])
    BY <1>0, <1>3 DEF ExistsInList, LocalsFit, SlotLabels, NoDstLabels, PC
  <2>3. ControlOK'
    BY <1>0, <1>1, <1>3, <2>1, <2>2, Go DEF ExistsInList, ControlOK
  <2>4. QED BY <2>1, <2>3 DEF TypeInv
<1>4. CASE PushWalk(c)
  <2>1. DataOK'
    BY <1>0, <1>4 DEF PushWalk
  <2>2. LocalsFit("link", [loc[c] EXCEPT !.seen = pnrs[loc[c].dst]])
    BY <1>0, <1>4 DEF PushWalk, LocalsFit, SlotLabels, NoDstLabels, PC, Locals
  <2>3. ControlOK'
    BY <1>0, <1>4, <2>2, Move DEF PushWalk, Goto, ControlOK
  <2>4. QED BY <2>1, <2>3 DEF TypeInv
<1>5. CASE PushLink(c)
  <2>1. DataOK'
    BY <1>0, <1>5 DEF PushLink, LocalsFit, Locals
  <2>2. LocalsFit("fill", loc[c])
    BY <1>0, <1>5 DEF PushLink, LocalsFit, SlotLabels, NoDstLabels, PC
  <2>3. ControlOK'
    BY <1>0, <1>5, <2>2, Go DEF PushLink, ControlOK
  <2>4. QED BY <2>1, <2>3 DEF TypeInv
<1>6. CASE PushFill(c)
  <2>1. DataOK' /\ loc[c].dst \in Addr
    BY <1>0, <1>6 DEF PushFill, LocalsFit, NoDstLabels
  <2>2. QED BY <1>1, <1>6, <2>1 DEF PushFill, TypeInv
<1>7. CASE TornWalk(c)
  BY <1>0, <1>7 DEF TornWalk, Die, TypeInv, ControlOK, LocOK
<1>8. CASE NewEntry(c)
  <2>1. DataOK'
    BY <1>0, <1>8 DEF NewEntry, LocalsFit, Locals
  <2> DEFINE l == [Detached(loc[c].dst)[c] EXCEPT !.slot = 1]
  <2>2. LocalsFit("scan", l)
    BY <1>0, <1>8 DEF NewEntry, Detached, LocalsFit, SlotLabels, NoDstLabels, PC, Locals
  <2>3. loc' = [Detached(loc[c].dst) EXCEPT ![c] = l] /\ pc' = [pc EXCEPT ![c] = "scan"]
    BY <1>8 DEF NewEntry, Goto
  <2> HIDE DEF l
  <2>4. ControlOK'
    BY <1>0, <2>2, <2>3, MoveDetached DEF ControlOK
  <2>5. QED BY <2>1, <2>4 DEF TypeInv
<1>9. QED
  BY <1>2, <1>3, <1>4, <1>5, <1>6, <1>7, <1>8 DEF RegisterNreq

LEMMA StartTimerType ==
  ASSUME TypeInv, NEW c \in Context, StartTimer(c)
  PROVE  TypeInv'
<1> USE DEF At, Dst, DataOK, files, slots
<1>0. DataOK /\ LocalsFit(pc[c], loc[c]) /\ loc \in [Context -> Locals]
  BY DEF TypeInv, ControlOK, LocOK
<1>1. CASE Scan(c)
  <2>1. DataOK' /\ loc[c].slot \in Slot
    BY <1>0, <1>1 DEF Scan
  <2>2. LocalsFit("claim", loc[c])
    BY <1>0, <1>1, <2>1 DEF Scan, LocalsFit, SlotLabels, NoDstLabels, PC
  <2>3. LocalsFit(pc[c], [loc[c] EXCEPT !.slot = loc[c].slot + 1])
    <3>1. loc[c].slot + 1 \in Nat
      BY <1>0 DEF LocalsFit, Locals
    <3>2. [loc[c] EXCEPT !.slot = loc[c].slot + 1] \in Locals
      BY <1>0, <3>1 DEF Locals
    <3>3. [loc[c] EXCEPT !.slot = loc[c].slot + 1].dst = loc[c].dst
      BY <1>0 DEF Locals
    <3>4. QED BY <1>0, <1>1, <3>2, <3>3 DEF Scan, LocalsFit, SlotLabels
  <2>4. pc' = pc => pc' = [pc EXCEPT ![c] = pc[c]]
    BY DEF TypeInv, ControlOK
  <2>5. ControlOK'
    <3>1. CASE Goto(c, "claim") /\ UNCHANGED loc
      BY <2>2, <3>1, Go DEF ControlOK
    <3>2. CASE UNCHANGED pc /\ loc' = [loc EXCEPT ![c] = [loc[c] EXCEPT !.slot = loc[c].slot + 1]]
      BY <2>3, <2>4, <3>2, Move DEF ControlOK
    <3>3. QED BY <1>1, <3>1, <3>2 DEF Scan
  <2>6. QED BY <2>1, <2>5 DEF TypeInv
<1>2. CASE Exhausted(c)
  BY <1>0, <1>2 DEF Exhausted, Die, TypeInv, ControlOK, LocOK
<1>3. CASE Claim(c)
  <2>1. DataOK'
    BY <1>0, <1>3 DEF Claim, LocalsFit, SlotLabels, Slot, Key
  <2>2. LocalsFit("arm", loc[c])
    BY <1>0, <1>3 DEF Claim, LocalsFit, SlotLabels, NoDstLabels, PC
  <2>3. ControlOK'
    BY <1>0, <1>3, <2>2, Go DEF Claim, ControlOK
  <2>4. QED BY <2>1, <2>3 DEF TypeInv
<1>4. CASE MakeTimer(c)
  <2>1. DataOK'
    BY <1>0, <1>4 DEF MakeTimer, LocalsFit, SlotLabels
  <2>2. LocalsFit("put", loc[c])
    BY <1>0, <1>4 DEF MakeTimer, LocalsFit, SlotLabels, NoDstLabels, PC
  <2>3. ControlOK'
    BY <1>0, <1>4, <2>2, Go DEF MakeTimer, ControlOK
  <2>4. QED BY <2>1, <2>3 DEF TypeInv
<1>5. CASE PutTimer(c)
  <2>1. DataOK'
    BY <1>0, <1>5 DEF PutTimer, LocalsFit, NoDstLabels
  <2>2. LocalsFit("send", loc[c])
    BY <1>0, <1>5 DEF PutTimer, LocalsFit, SlotLabels, NoDstLabels, PC
  <2>3. ControlOK'
    BY <1>0, <1>5, <2>2, Go, Finishing DEF PutTimer, ControlOK
  <2>4. QED BY <2>1, <2>3 DEF TypeInv
<1>6. CASE Send(c)
  <2>1. DataOK'
    BY <1>0, <1>6 DEF Send, LocalsFit, NoDstLabels
  <2>2. ControlOK'
    BY <1>6, Finishing DEF Send, ControlOK
  <2>3. QED BY <2>1, <2>2 DEF TypeInv
<1>7. QED BY <1>1, <1>2, <1>3, <1>4, <1>5, <1>6 DEF StartTimer

\* The watcher and the listener, outside register_nreq.
LEMMA ThreadType ==
  ASSUME TypeInv, NEW c \in {Listener, Watcher},
         (c = Watcher /\ WatchRoutes) \/ (c = Listener /\ ListenForNreqs)
  PROVE  TypeInv'
<1> USE DEF At, Dst, DataOK, files, slots, DeleteEntry
<1>0. c \in Context /\ DataOK /\ LocalsFit(pc[c], loc[c]) /\ loc \in [Context -> Locals]
  BY DEF TypeInv, Context, ControlOK, LocOK
<1>1. ASSUME pc[c] \notin NoDstLabels
      PROVE  /\ loc[c].dst \in Addr
             /\ \A p \in PC \ SlotLabels : LocalsFit(p, loc[c])
  BY <1>0, <1>1 DEF LocalsFit
<1>2. ASSUME NEW p \in PC \ SlotLabels, pc[c] \notin NoDstLabels, Goto(c, p), UNCHANGED loc
      PROVE  ControlOK'
  BY <1>0, <1>1, <1>2, Go DEF ControlOK
<1>3. ASSUME Finish(c) PROVE ControlOK'
  BY <1>0, <1>3, Finishing DEF ControlOK
<1>4. CASE c = Watcher /\ WatchRoutes
  <2>1. pc[c] \notin NoDstLabels
    BY <1>4 DEF WatchRoutes, RouteAdded, RoutePending, RouteRemoved, DropPnr, ForgetName,
                Snapshot, Truncate, WriteBack, NoDstLabels
  <2>2. DataOK'
    BY <1>0, <1>1, <1>4, <2>1
       DEF WatchRoutes, RouteAdded, RoutePending, RouteRemoved, DropPnr, ForgetName,
           Snapshot, Truncate, WriteBack
  <2>3. CASE DropPnr
    <3>1. Detached(loc[c].dst)[c] \in Locals /\ LocalsFit("forget", Detached(loc[c].dst)[c])
      BY <1>0, <1>1, <2>1 DEF Detached, Locals, LocalsFit, PC, SlotLabels
    <3>2. loc' = [Detached(loc[c].dst) EXCEPT ![c] = Detached(loc[c].dst)[c]]
      BY <1>4, <2>3 DEF DropPnr, Detached
    <3>3. ControlOK'
      BY <1>0, <1>4, <2>3, <3>1, <3>2, MoveDetached DEF DropPnr, Goto, ControlOK
    <3>4. QED BY <2>2, <3>3 DEF TypeInv
  <2>4. CASE ~DropPnr
    <3>1. \/ \E p \in PC \ SlotLabels : Goto(c, p) /\ UNCHANGED loc
          \/ Finish(c)
      BY <1>4, <2>4
         DEF WatchRoutes, RouteAdded, RoutePending, RouteRemoved, ForgetName, Snapshot,
             Truncate, WriteBack, PC, SlotLabels
    <3>2. QED BY <1>2, <1>3, <2>1, <2>2, <3>1 DEF TypeInv
  <2>5. QED BY <2>3, <2>4
<1>5. CASE c = Listener /\ ListenForNreqs
  <2>1. pc[c] \notin NoDstLabels
    BY <1>5 DEF ListenForNreqs, AnswerNreq, AcceptNrep, CacheName, AppendName,
                RespondToPnrs, DeleteAnswered, NoDstLabels
  <2>2. DataOK'
    BY <1>0, <1>1, <1>5, <2>1
       DEF ListenForNreqs, AnswerNreq, AcceptNrep, CacheName, AppendName, RespondToPnrs,
           DeleteAnswered
  <2>3. CASE DeleteAnswered
    <3>1. ControlOK'
      BY <1>0, <1>5, <2>3, BlankFits, MoveDetached DEF DeleteAnswered, Goto, ControlOK
    <3>2. QED BY <2>2, <3>1 DEF TypeInv
  <2>4. CASE ~DeleteAnswered
    <3>1. \/ \E p \in PC \ SlotLabels : Goto(c, p) /\ UNCHANGED loc
          \/ Finish(c)
      BY <1>5, <2>4
         DEF ListenForNreqs, AnswerNreq, AcceptNrep, CacheName, AppendName, RespondToPnrs,
             PC, SlotLabels
    <3>2. QED BY <1>2, <1>3, <2>1, <2>2, <3>1 DEF TypeInv
  <2>5. QED BY <2>3, <2>4
<1>6. QED BY <1>4, <1>5

LEMMA HandlerType ==
  ASSUME TypeInv, NEW h \in Handler, TimeoutHandler(h)
  PROVE  TypeInv'
<1> USE DEF At, Dst, DataOK, files, slots, DeleteEntry
<1>0. h \in Context /\ DataOK /\ LocalsFit(pc[h], loc[h]) /\ loc \in [Context -> Locals]
  BY DEF TypeInv, Context, ControlOK, LocOK
<1>1. CASE GetTimer(h)
  <2>1. DataOK' /\ loc[h].key \in Key
    BY <1>0, <1>1 DEF GetTimer, Locals
  <2>2. LocalsFit("del", [loc[h] EXCEPT !.dst = timers[loc[h].key]])
    BY <1>0, <1>1, <2>1 DEF GetTimer, LocalsFit, SlotLabels, NoDstLabels, PC, Locals
  <2>3. ControlOK'
    BY <1>0, <1>1, <2>2, Move DEF GetTimer, Goto, ControlOK
  <2>4. QED BY <2>1, <2>3 DEF TypeInv
<1>2. CASE DeleteTimer(h)
  <2>1. DataOK'
    BY <1>0, <1>2 DEF DeleteTimer
  <2>2. LocalsFit("reset", loc[h])
    BY <1>0, <1>2 DEF DeleteTimer, LocalsFit, SlotLabels, NoDstLabels, PC
  <2>3. ControlOK'
    BY <1>0, <1>2, <2>2, Go DEF DeleteTimer, ControlOK
  <2>4. QED BY <2>1, <2>3 DEF TypeInv
<1>3. CASE ResetSlot(h)
  <2>1. DataOK'
    <3>1. 0 \in Key
      BY NodeAssumption DEF Key
    <3>2. QED BY <1>0, <1>3, <3>1 DEF ResetSlot, Die
  <2>2. LocalsFit("expired", loc[h])
    BY <1>0, <1>3 DEF ResetSlot, LocalsFit, SlotLabels, NoDstLabels, PC
  <2>3. ControlOK'
    <3>1. CASE UNCHANGED <<pc, loc>>
      BY <3>1 DEF TypeInv, ControlOK, LocOK
    <3>2. CASE Goto(h, "expired") /\ UNCHANGED loc
      BY <1>0, <2>2, <3>2, Go DEF ControlOK
    <3>3. QED BY <1>3, <3>1, <3>2 DEF ResetSlot, Die
  <2>4. QED BY <2>1, <2>3 DEF TypeInv
<1>4. CASE LookupExpired(h)
  <2>1. DataOK'
    BY <1>0, <1>4 DEF LookupExpired, Die
  <2>2. loc[h].dst # None => LocalsFit("clean", loc[h]) /\ LocalsFit("route", loc[h])
    BY <1>0, <1>4 DEF LookupExpired, LocalsFit, SlotLabels, NoDstLabels, PC, Locals
  <2>3. ControlOK'
    <3>1. CASE UNCHANGED <<pc, loc>>
      BY <3>1 DEF TypeInv, ControlOK, LocOK
    <3>2. CASE loc[h].dst # None /\ Goto(h, "clean") /\ UNCHANGED loc
      BY <1>0, <2>2, <3>2, Go DEF ControlOK
    <3>3. CASE loc[h].dst # None /\ Goto(h, "route") /\ UNCHANGED loc
      BY <1>0, <2>2, <3>3, Go DEF ControlOK
    <3>4. QED BY <1>4, <3>1, <3>2, <3>3 DEF LookupExpired, Die
  <2>4. QED BY <2>1, <2>3 DEF TypeInv
<1>5. CASE CleanPnr(h)
  <2>1. DataOK'
    BY <1>0, <1>5 DEF CleanPnr
  <2>2. ControlOK'
    BY <1>0, <1>5, BlankFits, MoveDetached DEF CleanPnr, Goto, ControlOK
  <2>3. QED BY <2>1, <2>2 DEF TypeInv
<1>6. CASE RouteExists(h)
  <2>1. DataOK'
    BY <1>0, <1>6 DEF RouteExists
  <2>2. LocalsFit("scan", [loc[h] EXCEPT !.slot = 1])
    BY <1>0, <1>6 DEF RouteExists, LocalsFit, SlotLabels, NoDstLabels, PC, Locals
  <2>3. ControlOK'
    <3>1. CASE Finish(h)
      BY <1>0, <3>1, Finishing DEF ControlOK
    <3>2. CASE Goto(h, "scan") /\ loc' = [loc EXCEPT ![h] = [loc[h] EXCEPT !.slot = 1]]
      BY <1>0, <2>2, <3>2, Move DEF Goto, ControlOK
    <3>3. QED BY <1>6, <3>1, <3>2 DEF RouteExists
  <2>4. QED BY <2>1, <2>3 DEF TypeInv
<1>7. QED BY <1>1, <1>2, <1>3, <1>4, <1>5, <1>6 DEF TimeoutHandler

\* Lines and datagrams are read, timers expire.
LEMMA EventType ==
  ASSUME TypeInv, Input \/ (\E i \in Slot : Expiry(i)) \/ (\E h \in Handler : ExpireWild(h))
  PROVE  TypeInv'
<1> USE DEF At, Dst, DataOK, files, slots
<1>1. ASSUME NEW c \in Context, NEW p \in PC \ SlotLabels, NEW d \in Addr,
             NEW q \in Requester \cup {Local}, Begin(c, p, d, q)
      PROVE  TypeInv'
  <2>0. DataOK /\ loc[c] \in Locals
    BY DEF TypeInv, ControlOK
  <2>1. DataOK'
    BY <1>1, <2>0, NodeAssumption DEF Begin
  <2>2. LocalsFit(p, [loc[c] EXCEPT !.dst = d, !.req = q])
    BY <1>1, <2>0 DEF LocalsFit, Locals
  <2>3. loc' = [loc EXCEPT ![c] = [loc[c] EXCEPT !.dst = d, !.req = q]]
    BY <1>1 DEF Begin, TypeInv, ControlOK
  <2>4. ControlOK'
    BY <1>1, <2>2, <2>3, Move DEF Begin, Goto, ControlOK
  <2>5. QED BY <2>1, <2>4 DEF TypeInv
<1>2. ASSUME Input PROVE TypeInv'
  <2>1. {"added", "removed", "nreq", "nrep"} \subseteq PC \ SlotLabels
        /\ Listener \in Context /\ Watcher \in Context
    BY DEF PC, SlotLabels, Context
  <2>2. QED BY <1>1, <1>2, <2>1 DEF Input, ReadRoute, RecvNreq, RecvNrep
<1>3. ASSUME NEW h \in Handler, NEW i \in Slot, Expire(h, i) PROVE TypeInv'
  <2>0. DataOK /\ loc[h] \in Locals /\ h \in Context
    BY DEF TypeInv, ControlOK, Context
  <2>1. DataOK'
    <3>1. armed' \in [Key -> Nat]
      BY <1>3, <2>0 DEF Expire, Slot, Key
    <3>2. early' \in BOOLEAN
      BY <1>3, Zenon DEF Expire
    <3>3. QED BY <1>3, <2>0, <3>1, <3>2 DEF Expire
  <2>2. LocalsFit("get", [loc[h] EXCEPT !.slot = i, !.key = timer_ids[i]])
    <3>1. i \in Nat /\ timer_ids[i] \in Key
      BY <2>0 DEF Slot
    <3>2. [loc[h] EXCEPT !.slot = i, !.key = timer_ids[i]] \in Locals
      BY <2>0, <3>1 DEF Locals
    <3>3. [loc[h] EXCEPT !.slot = i, !.key = timer_ids[i]].slot = i
      BY <2>0 DEF Locals
    <3>4. QED BY <3>2, <3>3 DEF LocalsFit, NoDstLabels, PC
  <2>3. loc' = [loc EXCEPT ![h] = [loc[h] EXCEPT !.slot = i, !.key = timer_ids[i]]]
    BY <1>3, <2>0 DEF Expire, TypeInv, ControlOK
  <2>4. ControlOK'
    BY <1>3, <2>0, <2>2, <2>3, Move DEF Expire, Goto, ControlOK
  <2>5. QED BY <2>1, <2>4 DEF TypeInv
<1>4. ASSUME NEW h \in Handler, ExpireWild(h) PROVE TypeInv'
  BY <1>4 DEF ExpireWild, Die, TypeInv, ControlOK, LocOK
<1>5. QED BY <1>2, <1>3, <1>4 DEF Expiry

LEMMA TypeStep == TypeInv /\ [Next]_vars => TypeInv'
<1>1. CASE UNCHANGED vars
  BY <1>1 DEF vars, files, slots, TypeInv, DataOK, ControlOK, LocOK
<1>2. ASSUME TypeInv, NEW c \in Context, Run(c) PROVE TypeInv'
  <2>1. CASE c \in {Listener, Watcher} /\ RegisterNreq(c)
    BY <1>2, <2>1, RegisterType
  <2>2. CASE StartTimer(c)
    BY <1>2, <2>2, StartTimerType
  <2>3. CASE (c = Watcher /\ WatchRoutes) \/ (c = Listener /\ ListenForNreqs)
    <3>1. c \in {Listener, Watcher}
      BY <2>3
    <3>2. QED BY <1>2, <2>3, <3>1, ThreadType
  <2>4. CASE c \in Handler /\ TimeoutHandler(c)
    BY <1>2, <2>4, HandlerType
  <2>5. QED BY <1>2, <2>1, <2>2, <2>3, <2>4 DEF Run
<1>3. QED BY <1>1, <1>2, EventType DEF Next

LEMMA TypeInvariant == Spec => []TypeInv
BY TypeInit, TypeStep, PTL DEF Spec

\* The variables keep their types: whatever the interleaving, a slot holds its
\* own number or 0, and where a context uses an address or a slot it has one.
THEOREM TypeCorrect == Spec => []TypeOK
<1>1. TypeInv => TypeOK
  BY DEF TypeInv, DataOK, ControlOK, TypeOK
<1>2. QED BY <1>1, TypeInvariant, PTL

-----------------------------------------------------------------------------
(* What a step of one context leaves alone *)

\* Context o stands where it stood; of its locals at most held has changed.
Same(o) ==
  /\ pc'[o] = pc[o]
  /\ loc'[o].slot = loc[o].slot /\ loc'[o].key = loc[o].key /\ loc'[o].dst = loc[o].dst

\* The labels at which a context has to do with a timer slot, or with the
\* address of a timer that has expired.
TimerLabels == {"arm", "put", "get", "del", "reset", "expired"}

\* A step of c that has nothing to do with timers.
Quiet(c) ==
  /\ UNCHANGED <<timers, slots>>
  /\ status' \in {status, "torn", "exhausted"}
  /\ pc[c] \notin TimerLabels /\ pc'[c] \notin TimerLabels
  /\ \A o \in Context \ {c} : Same(o)

LEMMA DetachedSame ==
  ASSUME TypeInv, NEW d, NEW o \in Context
  PROVE  /\ Detached(d)[o].slot = loc[o].slot
         /\ Detached(d)[o].key = loc[o].key
         /\ Detached(d)[o].dst = loc[o].dst
BY DEF Detached, Locals, TypeInv, ControlOK

\* The two shapes a step's pc and loc can have.
LEMMA OthersSame ==
  ASSUME TypeInv, NEW c \in Context, NEW p, NEW l, pc' = [pc EXCEPT ![c] = p],
         loc' = [loc EXCEPT ![c] = l]
  PROVE  /\ \A o \in Context \ {c} : Same(o)
         /\ pc'[c] = p /\ loc'[c] = l
BY DEF Same, TypeInv, ControlOK

LEMMA OthersDetached ==
  ASSUME TypeInv, NEW c \in Context, NEW d, NEW p, NEW l, pc' = [pc EXCEPT ![c] = p],
         loc' = [Detached(d) EXCEPT ![c] = l]
  PROVE  /\ \A o \in Context \ {c} : Same(o)
         /\ pc'[c] = p /\ loc'[c] = l
<1>1. \A o \in Context \ {c} : loc'[o] = Detached(d)[o] /\ pc'[o] = pc[o]
  BY DEF Detached, TypeInv, ControlOK
<1>2. pc'[c] = p /\ loc'[c] = l
  BY DEF Detached, TypeInv, ControlOK
<1>3. QED BY <1>1, <1>2, DetachedSame DEF Same

LEMMA Shapes ==
  ASSUME TypeInv, NEW c \in Context, NEW p, Goto(c, p), loc' = loc
  PROVE  /\ \A o \in Context \ {c} : Same(o)
         /\ pc'[c] = p /\ loc'[c] = loc[c]
BY DEF Goto, Same, TypeInv, ControlOK

LEMMA Finished ==
  ASSUME TypeInv, NEW c \in Context, Finish(c)
  PROVE  (\A o \in Context \ {c} : Same(o)) /\ pc'[c] = "idle"
BY OthersSame DEF Finish, Goto

LEMMA Stuck ==
  ASSUME NEW c \in Context, UNCHANGED <<pc, loc>>
  PROVE  (\A o \in Context \ {c} : Same(o)) /\ pc'[c] = pc[c]
BY DEF Same

LEMMA RegisterQuiet ==
  ASSUME TypeInv, NEW c \in {Listener, Watcher}, RegisterNreq(c)
  PROVE  Quiet(c)
<1> USE DEF At, TimerLabels
<1>0. c \in Context /\ pc \in [Context -> PC] /\ loc \in [Context -> Locals]
  BY DEF Context, TypeInv, ControlOK
<1>1. UNCHANGED <<timers, slots>> /\ status' \in {status, "torn", "exhausted"}
  BY DEF RegisterNreq, Lookup, ExistsInList, PushWalk, PushLink, PushFill, TornWalk,
         NewEntry, Die
<1>2. pc[c] \notin TimerLabels
  BY DEF RegisterNreq, Lookup, ExistsInList, PushWalk, PushLink, PushFill, TornWalk, NewEntry
<1>3. ASSUME Registered(c)
      PROVE  (\A o \in Context \ {c} : Same(o)) /\ pc'[c] \in {"idle", "send"}
  BY <1>0, <1>3, Shapes, Finished DEF Registered
<1>4. (\A o \in Context \ {c} : Same(o)) /\ pc'[c] \notin TimerLabels
  <2>1. CASE Lookup(c)
    BY <1>0, <2>1, Shapes, OthersSame DEF Lookup, Goto
  <2>2. CASE ExistsInList(c)
    BY <1>0, <1>3, <2>2, Shapes DEF ExistsInList
  <2>3. CASE PushWalk(c)
    BY <1>0, <2>3, OthersSame DEF PushWalk, Goto
  <2>4. CASE PushLink(c)
    BY <1>0, <2>4, Shapes DEF PushLink
  <2>5. CASE PushFill(c)
    BY <1>3, <2>5 DEF PushFill
  <2>6. CASE TornWalk(c)
    BY <1>0, <1>2, <2>6, Stuck DEF TornWalk, Die
  <2>7. CASE NewEntry(c)
    <3>1. loc' = [Detached(Dst(c)) EXCEPT ![c] = [Detached(Dst(c))[c] EXCEPT !.slot = 1]]
      BY <2>7 DEF NewEntry
    <3>2. QED BY <1>0, <2>7, <3>1, OthersDetached DEF NewEntry, Goto
  <2>8. QED BY <2>1, <2>2, <2>3, <2>4, <2>5, <2>6, <2>7 DEF RegisterNreq
<1>5. QED BY <1>1, <1>2, <1>4 DEF Quiet

LEMMA ScanQuiet ==
  ASSUME TypeInv, NEW c \in Context, Scan(c) \/ Exhausted(c) \/ Send(c)
  PROVE  Quiet(c)
<1> USE DEF At, TimerLabels
<1>1. pc \in [Context -> PC] /\ loc \in [Context -> Locals]
  BY DEF TypeInv, ControlOK
<1>2. CASE Scan(c)
  <2>1. CASE Goto(c, "claim") /\ UNCHANGED loc
    BY <1>2, <2>1, Shapes DEF Scan, Quiet
  <2>2. CASE UNCHANGED pc /\ loc' = [loc EXCEPT ![c] = [loc[c] EXCEPT !.slot = loc[c].slot + 1]]
    <3>1. pc' = [pc EXCEPT ![c] = pc[c]]
      BY <1>1, <2>2
    <3>2. QED BY <1>2, <2>2, <3>1, OthersSame DEF Scan, Quiet
  <2>3. QED BY <1>2, <2>1, <2>2 DEF Scan
<1>3. CASE Exhausted(c)
  BY <1>3, Stuck DEF Exhausted, Die, Quiet
<1>4. CASE Send(c)
  BY <1>4, Finished DEF Send, Quiet
<1>5. QED BY <1>2, <1>3, <1>4

LEMMA ThreadQuiet ==
  ASSUME TypeInv, NEW c \in {Listener, Watcher},
         (c = Watcher /\ WatchRoutes) \/ (c = Listener /\ ListenForNreqs)
  PROVE  Quiet(c)
<1> USE DEF At, TimerLabels
<1>0. c \in Context
  BY DEF Context
<1>1. UNCHANGED <<timers, slots, status>> /\ pc[c] \notin TimerLabels
  BY DEF WatchRoutes, RouteAdded, RoutePending, RouteRemoved, DropPnr, ForgetName,
         Snapshot, Truncate, WriteBack, ListenForNreqs, AnswerNreq, AcceptNrep, CacheName,
         AppendName, RespondToPnrs, DeleteAnswered
<1>2. CASE c = Watcher /\ DropPnr
  <2>1. loc' = [Detached(Dst(c)) EXCEPT ![c] = Detached(Dst(c))[c]]
    BY <1>2 DEF DropPnr, Detached
  <2>2. pc' = [pc EXCEPT ![c] = "forget"]
    BY <1>2 DEF DropPnr, Goto
  <2>3. (\A o \in Context \ {c} : Same(o)) /\ pc'[c] = "forget"
    BY <1>0, <2>1, <2>2, OthersDetached
  <2>4. QED BY <1>1, <2>3 DEF Quiet
<1>3. CASE c = Listener /\ DeleteAnswered
  BY <1>0, <1>1, <1>3, OthersDetached DEF DeleteAnswered, Goto, Quiet
<1>4. CASE ~(c = Watcher /\ DropPnr) /\ ~(c = Listener /\ DeleteAnswered)
  <2>1. Finish(c) \/ \E p \in PC \ TimerLabels : Goto(c, p) /\ UNCHANGED loc
    BY <1>4 DEF WatchRoutes, RouteAdded, RoutePending, RouteRemoved, ForgetName,
         Snapshot, Truncate, WriteBack, ListenForNreqs, AnswerNreq, AcceptNrep, CacheName,
         AppendName, RespondToPnrs, PC
  <2>2. QED BY <1>0, <1>1, <2>1, Shapes, Finished DEF Quiet
<1>5. QED BY <1>2, <1>3, <1>4

LEMMA HandlerQuiet ==
  ASSUME TypeInv, NEW h \in Handler, CleanPnr(h) \/ RouteExists(h)
  PROVE  Quiet(h)
<1> USE DEF At, TimerLabels
<1>0. h \in Context
  BY DEF Context
<1>1. CASE CleanPnr(h)
  BY <1>0, <1>1, OthersDetached DEF CleanPnr, Goto, Quiet
<1>2. CASE RouteExists(h)
  <2>1. CASE Finish(h)
    BY <1>0, <1>2, <2>1, Finished DEF RouteExists, Quiet
  <2>2. CASE Goto(h, "scan") /\ loc' = [loc EXCEPT ![h] = [loc[h] EXCEPT !.slot = 1]]
    BY <1>0, <1>2, <2>2, OthersSame DEF RouteExists, Goto, Quiet
  <2>3. QED BY <1>2, <2>1, <2>2 DEF RouteExists
<1>3. QED BY <1>1, <1>2

LEMMA InputQuiet ==
  ASSUME TypeInv, Input
  PROVE  \E c \in Context : Quiet(c)
<1>1. ASSUME NEW c \in Context, NEW p \in PC \ TimerLabels, NEW d, NEW q, Begin(c, p, d, q)
      PROVE  Quiet(c)
  <2>1. loc' = [loc EXCEPT ![c] = [loc[c] EXCEPT !.dst = d, !.req = q]]
    BY <1>1 DEF Begin, TypeInv, ControlOK
  <2>2. (\A o \in Context \ {c} : Same(o)) /\ pc'[c] = p
    BY <1>1, <2>1, OthersSame DEF Begin, Goto
  <2>3. QED BY <1>1, <2>2 DEF Begin, At, Quiet, TimerLabels
<1>2. {"added", "removed", "nreq", "nrep"} \subseteq PC \ TimerLabels
      /\ Listener \in Context /\ Watcher \in Context
  BY DEF PC, TimerLabels, Context
<1>3. QED BY <1>1, <1>2 DEF Input, ReadRoute, RecvNreq, RecvNrep

-----------------------------------------------------------------------------
(* No slot is lost *)

\* A step that is not quiet: what it does to the timers, and who does it.
TimerStep(c) ==
  \/ Claim(c) \/ MakeTimer(c) \/ PutTimer(c)
  \/ c \in Handler /\ (GetTimer(c) \/ DeleteTimer(c) \/ ResetSlot(c) \/ LookupExpired(c))

LEMMA StepKinds ==
  ASSUME TypeInv, Next
  PROVE  \/ \E c \in Context : Quiet(c)
         \/ \E c \in Context : TimerStep(c)
         \/ \E i \in Slot, h \in Handler : Expire(h, i)
         \/ \E h \in Handler : ExpireWild(h)
<1>1. ASSUME NEW c \in Context, Run(c) PROVE Quiet(c) \/ TimerStep(c)
  <2>1. CASE c \in {Listener, Watcher} /\ RegisterNreq(c)
    BY <2>1, RegisterQuiet
  <2>2. CASE StartTimer(c)
    BY <2>2, ScanQuiet DEF StartTimer, TimerStep
  <2>3. CASE (c = Watcher /\ WatchRoutes) \/ (c = Listener /\ ListenForNreqs)
    <3>1. c \in {Listener, Watcher}
      BY <2>3
    <3>2. QED BY <2>3, <3>1, ThreadQuiet
  <2>4. CASE c \in Handler /\ TimeoutHandler(c)
    BY <2>4, HandlerQuiet DEF TimeoutHandler, TimerStep
  <2>5. QED BY <1>1, <2>1, <2>2, <2>3, <2>4 DEF Run
<1>2. QED BY <1>1, InputQuiet DEF Next, Expiry

\* What a timer step leaves alone, and where the context is before and after.
LEMMA TimerStepFrame ==
  ASSUME TypeInv, NEW c \in Context, TimerStep(c)
  PROVE  /\ \A o \in Context \ {c} : Same(o)
         /\ Claim(c) \/ MakeTimer(c) \/ DeleteTimer(c) => loc'[c] = loc[c]
         /\ Claim(c) => pc'[c] = "arm"
         /\ MakeTimer(c) => pc'[c] = "put"
         /\ PutTimer(c) => pc'[c] \in {"send", "idle"}
         /\ GetTimer(c) => /\ pc'[c] = "del"
                           /\ loc'[c].slot = loc[c].slot /\ loc'[c].key = loc[c].key
                           /\ loc'[c].dst = timers[loc[c].key]
         /\ DeleteTimer(c) => pc'[c] = "reset"
         /\ ResetSlot(c) => \/ pc'[c] = "expired" /\ loc'[c] = loc[c]
                            \/ UNCHANGED <<pc, loc>> /\ timer_ids[loc[c].slot] = 0
         /\ LookupExpired(c) => \/ pc'[c] \in {"clean", "route"}
                                \/ UNCHANGED <<pc, loc>> /\ loc[c].dst = None
<1> USE DEF At
<1>0. loc \in [Context -> Locals] /\ loc[c] \in Locals
  BY DEF TypeInv, ControlOK
<1>1. CASE Claim(c)
  BY <1>1, Shapes DEF Claim, MakeTimer, PutTimer, GetTimer, DeleteTimer, ResetSlot, LookupExpired
<1>2. CASE MakeTimer(c)
  BY <1>2, Shapes DEF Claim, MakeTimer, PutTimer, GetTimer, DeleteTimer, ResetSlot, LookupExpired
<1>3. CASE PutTimer(c)
  BY <1>3, Shapes, Finished
     DEF Claim, MakeTimer, PutTimer, GetTimer, DeleteTimer, ResetSlot, LookupExpired
<1>4. CASE GetTimer(c)
  <2>1. loc' = [loc EXCEPT ![c] = [loc[c] EXCEPT !.dst = timers[loc[c].key]]]
        /\ pc' = [pc EXCEPT ![c] = "del"]
    BY <1>4 DEF GetTimer, Goto
  <2>2. /\ \A o \in Context \ {c} : Same(o)
        /\ pc'[c] = "del" /\ loc'[c] = [loc[c] EXCEPT !.dst = timers[loc[c].key]]
    BY <2>1, OthersSame
  <2>3. /\ loc'[c].slot = loc[c].slot /\ loc'[c].key = loc[c].key
        /\ loc'[c].dst = timers[loc[c].key]
    BY <1>0, <2>2 DEF Locals
  <2>4. QED BY <1>4, <2>2, <2>3
     DEF Claim, MakeTimer, PutTimer, GetTimer, DeleteTimer, ResetSlot, LookupExpired
<1>5. CASE DeleteTimer(c)
  BY <1>5, Shapes DEF Claim, MakeTimer, PutTimer, GetTimer, DeleteTimer, ResetSlot, LookupExpired
<1>6. CASE ResetSlot(c)
  BY <1>6, Shapes, Stuck
     DEF Claim, MakeTimer, PutTimer, GetTimer, DeleteTimer, ResetSlot, LookupExpired, Die
<1>7. CASE LookupExpired(c)
  BY <1>7, Shapes, Stuck
     DEF Claim, MakeTimer, PutTimer, GetTimer, DeleteTimer, ResetSlot, LookupExpired, Die, Dst
<1>8. QED BY <1>1, <1>2, <1>3, <1>4, <1>5, <1>6, <1>7 DEF TimerStep

\* Context c has taken slot i and not started its timer, or handles its expiry.
Owns(c, i) == loc[c].slot = i /\ pc[c] \in {"arm", "get", "del", "reset"}

LEMMA SlotOfLabel ==
  ASSUME TypeInv, NEW c \in Context, pc[c] \in SlotLabels
  PROVE  loc[c].slot \in Slot
BY DEF TypeInv, ControlOK, LocOK, LocalsFit

LEMMA AccountedStep == TypeInv /\ SlotsAccounted /\ [Next]_vars => SlotsAccounted'
<1> SUFFICES ASSUME TypeInv, SlotsAccounted, [Next]_vars, NEW i \in Slot, timer_ids'[i] # 0
             PROVE  armed'[i] > 0 \/ \E c \in Context : Owns(c, i)'
  BY DEF SlotsAccounted, Owns
<1> USE DEF At
<1>0. /\ timer_ids \in [Slot -> Key] /\ \A j \in Slot : timer_ids[j] \in {0, j}
      /\ armed \in [Key -> Nat] /\ Slot \subseteq Key /\ 0 \notin Slot
  BY DEF TypeInv, DataOK, Slot, Key
<1>1. timer_ids[i] # 0 => armed[i] > 0 \/ \E c \in Context : Owns(c, i)
  BY DEF SlotsAccounted, Owns
<1>2. CASE UNCHANGED vars
  BY <1>1, <1>2 DEF vars, slots, Owns
<1>3. ASSUME NEW c \in Context, Quiet(c)
      PROVE  armed'[i] > 0 \/ \E o \in Context : Owns(o, i)'
  BY <1>1, <1>3 DEF Quiet, Same, Owns, TimerLabels, slots
<1>4. ASSUME NEW c \in Context, TimerStep(c)
      PROVE  armed'[i] > 0 \/ \E o \in Context : Owns(o, i)'
  <2>1. \A o \in Context \ {c} : Owns(o, i) => Owns(o, i)'
    BY <1>4, TimerStepFrame DEF Same, Owns
  <2>2. CASE Claim(c)
    <3>1. (i = loc[c].slot => Owns(c, i)') /\ armed' = armed
      BY <1>4, <2>2, TimerStepFrame DEF Claim, Owns
    <3>2. i # loc[c].slot => timer_ids'[i] = timer_ids[i] /\ ~Owns(c, i)
      BY <1>0, <2>2 DEF Claim, Owns
    <3>3. QED BY <1>1, <2>1, <3>1, <3>2
  <2>3. CASE MakeTimer(c)
    <3>1. loc[c].slot \in Slot
      BY <2>3, SlotOfLabel DEF MakeTimer, SlotLabels
    <3>2. armed'[i] >= armed[i] /\ timer_ids' = timer_ids
      BY <1>0, <2>3, <3>1 DEF MakeTimer
    <3>3. Owns(c, i) => armed'[i] > 0
      BY <1>0, <2>3, <3>1, <3>2 DEF MakeTimer, Owns
    <3>4. armed[i] > 0 => armed'[i] > 0
      BY <1>0, <3>2, <2>3, <3>1 DEF MakeTimer
    <3>5. QED BY <1>1, <2>1, <3>2, <3>3, <3>4
  <2>4. CASE ResetSlot(c)
    <3>1. armed' = armed /\ loc[c].slot \in Slot
      BY <2>4, SlotOfLabel DEF ResetSlot, SlotLabels
    <3>2. timer_ids'[i] = timer_ids[i] /\ (Owns(c, i) => Owns(c, i)')
      BY <1>0, <1>4, <2>4, <3>1, TimerStepFrame DEF ResetSlot, Owns, Die
    <3>3. QED BY <1>1, <2>1, <3>1, <3>2
  <2>5. CASE PutTimer(c) \/ GetTimer(c) \/ DeleteTimer(c) \/ LookupExpired(c)
    <3>1. armed' = armed /\ timer_ids' = timer_ids
      BY <2>5 DEF PutTimer, GetTimer, DeleteTimer, LookupExpired, slots
    <3>2. Owns(c, i) => Owns(c, i)'
      BY <1>4, <2>5, TimerStepFrame DEF PutTimer, GetTimer, DeleteTimer, LookupExpired, Owns
    <3>3. QED BY <1>1, <2>1, <3>1, <3>2
  <2>6. QED BY <1>4, <2>2, <2>3, <2>4, <2>5 DEF TimerStep
<1>5. ASSUME NEW j \in Slot, NEW h \in Handler, Expire(h, j)
      PROVE  armed'[i] > 0 \/ \E o \in Context : Owns(o, i)'
  <2>1. h \in Context /\ loc[h] \in Locals
    BY DEF Context, TypeInv, ControlOK
  <2>2. /\ pc' = [pc EXCEPT ![h] = "get"] /\ timer_ids' = timer_ids
        /\ loc' = [loc EXCEPT ![h] = [loc[h] EXCEPT !.slot = j, !.key = timer_ids[j]]]
    BY <1>5, <2>1 DEF Expire, Goto, TypeInv, ControlOK
  <2>3. /\ \A o \in Context \ {h} : Same(o)
        /\ pc'[h] = "get" /\ loc'[h] = [loc[h] EXCEPT !.slot = j, !.key = timer_ids[j]]
    BY <2>1, <2>2, OthersSame
  <2>4. Owns(h, j)' /\ ~Owns(h, i)
    BY <1>5, <2>1, <2>3 DEF Owns, Locals, Expire
  <2>5. i # j => armed'[i] = armed[i]
    BY <1>0, <1>5 DEF Expire
  <2>6. QED BY <1>1, <2>1, <2>2, <2>3, <2>4, <2>5 DEF Owns, Same
<1>6. ASSUME NEW h \in Handler, ExpireWild(h)
      PROVE  armed'[i] > 0 \/ \E o \in Context : Owns(o, i)'
  BY <1>1, <1>6 DEF ExpireWild, Die, slots, Owns
<1>7. QED BY <1>2, <1>3, <1>4, <1>5, <1>6, StepKinds

\* No slot of timer_ids is lost, whatever the interleaving of the threads and
\* handlers and although a slot may be taken twice.
THEOREM SlotsAlwaysAccounted == Spec => []SlotsAccounted
<1>1. Init => SlotsAccounted
  BY DEF Init, SlotsAccounted
<1>2. QED BY <1>1, AccountedStep, TypeInvariant, PTL DEF Spec

-----------------------------------------------------------------------------
(* How the handler can go wrong *)

Putting(c, i) == pc[c] = "put" /\ loc[c].slot = i

\* A slot that has not been raced for: it has one timer or one owner at most,
\* and the timer has its entry, or somebody is about to make it.
SlotTidy(i) ==
  /\ armed[i] \in {0, 1}
  /\ armed[i] = 1 => /\ timer_ids[i] = i
                     /\ \A c \in Context : ~Owns(c, i)
                     /\ timers[i] # None \/ \E c \in Context : Putting(c, i)
  /\ \A c \in Context : Owns(c, i) => timer_ids[i] = i
  /\ \A c, o \in Context : Owns(c, i) /\ Owns(o, i) => c = o

ContextTidy(c) ==
  /\ pc[c] = "put" => armed[loc[c].slot] = 1
  /\ pc[c] \in {"get", "del"} => loc[c].key = loc[c].slot
  /\ pc[c] = "get" => timers[loc[c].slot] # None
  /\ pc[c] \in {"del", "reset", "expired"} => loc[c].dst # None

Tidy ==
  /\ status \notin {"wild", "null"}
  /\ armed[0] = 0
  /\ \A i \in Slot : SlotTidy(i)
  /\ \A c \in Context : ContextTidy(c)

TidyInv == ~raced /\ ~early => Tidy

LEMMA KeyFacts == Slot \subseteq Key /\ 0 \notin Slot /\ 0 \in Key
BY NodeAssumption DEF Slot, Key

LEMMA QuietTidy ==
  ASSUME TypeInv, Tidy, NEW c \in Context, Quiet(c)
  PROVE  Tidy'
<1>0. UNCHANGED <<timers, timer_ids, armed>>
  BY DEF Quiet, slots
<1>1. \A o \in Context : \A i \in Slot : (Owns(o, i)' <=> Owns(o, i)) /\ (Putting(o, i)' <=> Putting(o, i))
  BY DEF Quiet, Same, Owns, Putting, TimerLabels
<1>2. ASSUME NEW i \in Slot PROVE SlotTidy(i)'
  <2>1. SlotTidy(i)
    BY DEF Tidy
  <2>2. QED BY <1>0, <1>1, <2>1 DEF SlotTidy
<1>3. ASSUME NEW o \in Context PROVE ContextTidy(o)'
  <2>1. ContextTidy(o)
    BY DEF Tidy
  <2>2. CASE o = c
    BY <2>2 DEF ContextTidy, Quiet, TimerLabels
  <2>3. CASE o # c
    BY <1>0, <2>1, <2>3 DEF ContextTidy, Quiet, Same
  <2>4. QED BY <2>2, <2>3
<1>4. status' \notin {"wild", "null"} /\ armed'[0] = 0
  BY <1>0 DEF Tidy, Quiet
<1>5. QED BY <1>2, <1>3, <1>4 DEF Tidy

LEMMA ClaimTidy ==
  ASSUME TypeInv, Tidy, NEW c \in Context, Claim(c), ~raced'
  PROVE  Tidy'
<1> DEFINE k == loc[c].slot
<1>0. /\ k \in Slot /\ timer_ids[k] = 0 /\ pc[c] = "claim"
      /\ timer_ids' = [timer_ids EXCEPT ![k] = k] /\ UNCHANGED <<timers, armed, status>>
  BY SlotOfLabel DEF Claim, At, SlotLabels
<1>1. (\A o \in Context \ {c} : Same(o)) /\ pc'[c] = "arm" /\ loc'[c] = loc[c]
  BY TimerStepFrame DEF TimerStep
<1>2. ASSUME NEW i \in Slot PROVE SlotTidy(i)'
  <2>1. SlotTidy(i) /\ timer_ids \in [Slot -> Key] /\ 0 \notin Slot
    BY DEF Tidy, TypeInv, DataOK, Slot
  <2>2. \A o \in Context \ {c} : (Owns(o, i)' <=> Owns(o, i)) /\ (Putting(o, i)' <=> Putting(o, i))
    BY <1>1 DEF Same, Owns, Putting
  <2>3. (Owns(c, i)' <=> i = k) /\ ~Putting(c, i)' /\ ~Putting(c, i) /\ ~Owns(c, i)
    BY <1>0, <1>1 DEF Owns, Putting
  <2>4. CASE i = k
    <3>1. armed[i] # 1 /\ \A o \in Context : ~Owns(o, i)
      BY <1>0, <2>1, <2>4 DEF SlotTidy
    <3>2. QED BY <1>0, <2>1, <2>2, <2>3, <2>4, <3>1 DEF SlotTidy
  <2>5. CASE i # k
    BY <1>0, <2>1, <2>2, <2>3, <2>5 DEF SlotTidy
  <2>6. QED BY <2>4, <2>5
<1>3. ASSUME NEW o \in Context PROVE ContextTidy(o)'
  <2>1. ContextTidy(o)
    BY DEF Tidy
  <2>2. QED BY <1>0, <1>1, <2>1 DEF ContextTidy, Same
<1>4. QED BY <1>0, <1>2, <1>3 DEF Tidy

LEMMA MakeTimerTidy ==
  ASSUME TypeInv, Tidy, NEW c \in Context, MakeTimer(c)
  PROVE  Tidy'
<1> DEFINE k == loc[c].slot
<1>0. /\ k \in Slot /\ pc[c] = "arm" /\ armed \in [Key -> Nat]
      /\ Slot \subseteq Key /\ 0 \notin Slot /\ 0 \in Key
  BY SlotOfLabel, KeyFacts DEF MakeTimer, At, SlotLabels, TypeInv, DataOK
<1>1. Owns(c, k) /\ SlotTidy(k)
  BY <1>0 DEF Owns, Tidy
<1>2. timer_ids[k] = k /\ armed[k] = 0
  BY <1>1 DEF SlotTidy
<1>3. armed' = [armed EXCEPT ![k] = 1] /\ UNCHANGED <<timers, timer_ids, status>>
  BY <1>0, <1>2 DEF MakeTimer
<1>4. (\A o \in Context \ {c} : Same(o)) /\ pc'[c] = "put" /\ loc'[c] = loc[c]
  BY TimerStepFrame DEF TimerStep
<1>5. ASSUME NEW i \in Slot PROVE SlotTidy(i)'
  <2>1. SlotTidy(i)
    BY DEF Tidy
  <2>2. \A o \in Context \ {c} : (Owns(o, i)' <=> Owns(o, i)) /\ (Putting(o, i)' <=> Putting(o, i))
    BY <1>4 DEF Same, Owns, Putting
  <2>3. ~Owns(c, i)' /\ (Putting(c, i)' <=> i = k) /\ ~Putting(c, i)
    BY <1>0, <1>4 DEF Owns, Putting
  <2>4. CASE i = k
    BY <1>0, <1>1, <1>2, <1>3, <2>1, <2>2, <2>3, <2>4 DEF SlotTidy
  <2>5. CASE i # k
    <3>1. armed'[i] = armed[i]
      BY <1>0, <1>3, <2>5
    <3>2. QED BY <1>3, <2>1, <2>2, <2>3, <2>5, <3>1 DEF SlotTidy
  <2>6. QED BY <2>4, <2>5
<1>6. ASSUME NEW o \in Context PROVE ContextTidy(o)'
  <2>1. ContextTidy(o)
    BY DEF Tidy
  <2>2. CASE o = c
    BY <1>0, <1>3, <1>4, <2>2 DEF ContextTidy
  <2>3. CASE o # c
    <3>1. pc[o] = "put" => armed'[loc[o].slot] = 1
      <4>1. pc[o] = "put" => loc[o].slot \in Slot
        BY SlotOfLabel DEF SlotLabels
      <4>2. QED BY <1>0, <1>3, <2>1, <4>1 DEF ContextTidy
    <3>2. QED BY <1>3, <1>4, <2>1, <2>3, <3>1 DEF ContextTidy, Same
  <2>4. QED BY <2>2, <2>3
<1>7. armed'[0] = 0
  BY <1>0, <1>3 DEF Tidy
<1>8. QED BY <1>3, <1>5, <1>6, <1>7 DEF Tidy

LEMMA PutTimerTidy ==
  ASSUME TypeInv, Tidy, NEW c \in Context, PutTimer(c)
  PROVE  Tidy'
<1> DEFINE k == loc[c].slot
<1>0. /\ k \in Slot /\ pc[c] = "put" /\ timers \in [Key -> Addr \cup {None}]
      /\ Slot \subseteq Key
  BY SlotOfLabel DEF PutTimer, At, SlotLabels, Slot, Key, TypeInv, DataOK
<1>1. ContextTidy(c) /\ SlotTidy(k)
  BY <1>0 DEF Tidy
<1>2. armed[k] = 1 /\ timer_ids[k] = k
  BY <1>0, <1>1 DEF ContextTidy, SlotTidy
<1>3. loc[c].dst # None
  BY <1>0, NodeAssumption DEF TypeInv, ControlOK, LocOK, LocalsFit, NoDstLabels
<1>4. timers' = [timers EXCEPT ![k] = loc[c].dst] /\ UNCHANGED <<timer_ids, armed, status>>
  BY <1>2 DEF PutTimer, Dst, slots
<1>5. (\A o \in Context \ {c} : Same(o)) /\ pc'[c] \in {"send", "idle"}
  BY TimerStepFrame DEF TimerStep
<1>6. \A j \in Key : timers[j] # None => timers'[j] # None
  BY <1>0, <1>3, <1>4
<1>7. timers'[k] # None
  BY <1>0, <1>3, <1>4
<1>8. ASSUME NEW i \in Slot PROVE SlotTidy(i)'
  <2>1. SlotTidy(i)
    BY DEF Tidy
  <2>2. \A o \in Context \ {c} : (Owns(o, i)' <=> Owns(o, i)) /\ (Putting(o, i)' <=> Putting(o, i))
    BY <1>5 DEF Same, Owns, Putting
  <2>3. ~Owns(c, i)' /\ ~Owns(c, i) /\ (Putting(c, i) <=> i = k)
    BY <1>0, <1>5 DEF Owns, Putting
  <2>4. timers[i] # None \/ (\E o \in Context : Putting(o, i))
        => timers'[i] # None \/ (\E o \in Context : Putting(o, i)')
    BY <1>0, <1>6, <1>7, <2>2, <2>3
  <2>5. QED BY <1>4, <2>1, <2>2, <2>3, <2>4 DEF SlotTidy
<1>9. ASSUME NEW o \in Context PROVE ContextTidy(o)'
  <2>1. ContextTidy(o) /\ (pc[o] = "get" => loc[o].slot \in Key)
    BY <1>0, SlotOfLabel DEF Tidy, SlotLabels
  <2>2. QED BY <1>4, <1>5, <1>6, <2>1 DEF ContextTidy, Same
<1>10. QED BY <1>4, <1>8, <1>9 DEF Tidy

LEMMA HandlerTidy ==
  ASSUME TypeInv, Tidy, NEW h \in Handler,
         GetTimer(h) \/ DeleteTimer(h) \/ ResetSlot(h) \/ LookupExpired(h)
  PROVE  Tidy'
<1> USE DEF At
<1> DEFINE k == loc[h].slot
<1>0. /\ h \in Context /\ ContextTidy(h) /\ Slot \subseteq Key /\ 0 \notin Slot
      /\ timers \in [Key -> Addr \cup {None}] /\ timer_ids \in [Slot -> Key]
  BY KeyFacts DEF Context, Tidy, TypeInv, DataOK
<1>1. TimerStep(h) /\ \A o \in Context \ {h} : Same(o)
  BY <1>0, TimerStepFrame DEF TimerStep
<1>2. UNCHANGED armed
  BY DEF GetTimer, DeleteTimer, ResetSlot, LookupExpired, slots
<1>3. ASSUME NEW i \in Slot, NEW o \in Context, o # h
      PROVE  (Owns(o, i)' <=> Owns(o, i)) /\ (Putting(o, i)' <=> Putting(o, i))
  BY <1>1, <1>3 DEF Same, Owns, Putting
<1>4. CASE GetTimer(h)
  <2>1. UNCHANGED <<timers, timer_ids, status>> /\ pc[h] = "get"
    BY <1>4 DEF GetTimer, slots
  <2>2. /\ pc'[h] = "del" /\ loc'[h].slot = k /\ loc'[h].key = loc[h].key
        /\ loc'[h].dst = timers[loc[h].key]
    BY <1>0, <1>1, <1>4, TimerStepFrame
  <2>3. ASSUME NEW i \in Slot PROVE SlotTidy(i)'
    <3>1. SlotTidy(i)
      BY DEF Tidy
    <3>2. (Owns(h, i)' <=> Owns(h, i)) /\ (Putting(h, i)' <=> Putting(h, i))
      BY <2>1, <2>2 DEF Owns, Putting
    <3>3. QED BY <1>2, <1>3, <2>1, <3>1, <3>2 DEF SlotTidy
  <2>4. ASSUME NEW o \in Context PROVE ContextTidy(o)'
    <3>1. ContextTidy(o)
      BY DEF Tidy
    <3>2. CASE o = h
      BY <1>0, <2>1, <2>2, <3>2 DEF ContextTidy
    <3>3. CASE o # h
      BY <1>1, <1>2, <2>1, <3>1, <3>3 DEF ContextTidy, Same
    <3>4. QED BY <3>2, <3>3
  <2>5. QED BY <1>2, <2>1, <2>3, <2>4 DEF Tidy
<1>5. CASE DeleteTimer(h)
  <2>1. /\ k \in Slot /\ loc[h].key = k /\ pc[h] = "del"
        /\ timers' = [timers EXCEPT ![k] = None] /\ UNCHANGED <<timer_ids, status>>
    BY <1>0, <1>5, SlotOfLabel DEF DeleteTimer, ContextTidy, SlotLabels, slots
  <2>2. pc'[h] = "reset" /\ loc'[h] = loc[h]
    BY <1>0, <1>1, <1>5, TimerStepFrame
  <2>3. Owns(h, k) /\ SlotTidy(k)
    BY <2>1 DEF Owns, Tidy
  <2>4. ASSUME NEW i \in Slot PROVE SlotTidy(i)'
    <3>1. SlotTidy(i)
      BY DEF Tidy
    <3>2. (Owns(h, i)' <=> Owns(h, i)) /\ (Putting(h, i)' <=> Putting(h, i))
      BY <2>1, <2>2 DEF Owns, Putting
    <3>3. armed[i] = 1 => timers'[i] = timers[i]
      BY <1>0, <2>1, <2>3 DEF SlotTidy
    <3>4. QED BY <1>2, <1>3, <2>1, <3>1, <3>2, <3>3 DEF SlotTidy
  <2>5. ASSUME NEW o \in Context PROVE ContextTidy(o)'
    <3>1. ContextTidy(o) /\ (pc[o] = "get" => loc[o].slot \in Slot)
      BY SlotOfLabel DEF Tidy, SlotLabels
    <3>2. CASE o = h
      BY <1>0, <2>1, <2>2, <3>2 DEF ContextTidy
    <3>3. CASE o # h
      <4>1. pc[o] = "get" => timers'[loc[o].slot] # None
        <5>1. pc[o] = "get" => loc[o].slot # k
          BY <1>0, <2>3, <3>3 DEF SlotTidy, Owns
        <5>2. QED BY <1>0, <2>1, <3>1, <5>1 DEF ContextTidy
      <4>2. QED BY <1>1, <1>2, <3>1, <3>3, <4>1 DEF ContextTidy, Same
    <3>4. QED BY <3>2, <3>3
  <2>6. QED BY <1>2, <2>1, <2>4, <2>5 DEF Tidy
<1>6. CASE ResetSlot(h)
  <2>1. k \in Slot /\ pc[h] = "reset"
    BY <1>0, <1>6, SlotOfLabel DEF ResetSlot, SlotLabels
  <2>2. Owns(h, k) /\ SlotTidy(k)
    BY <2>1 DEF Owns, Tidy
  <2>3. timer_ids[k] = k /\ armed[k] = 0
    BY <1>0, <2>2 DEF SlotTidy
  <2>4. timer_ids' = [timer_ids EXCEPT ![k] = 0] /\ UNCHANGED <<timers, status>>
    BY <1>0, <1>6, <2>1, <2>3 DEF ResetSlot
  <2>5. pc'[h] = "expired" /\ loc'[h] = loc[h]
    BY <1>0, <1>1, <1>6, <2>1, <2>3, TimerStepFrame
  <2>6. ASSUME NEW i \in Slot PROVE SlotTidy(i)'
    <3>1. SlotTidy(i)
      BY DEF Tidy
    <3>2. ~Owns(h, i)' /\ (Putting(h, i)' <=> Putting(h, i))
      BY <2>1, <2>5 DEF Owns, Putting
    <3>3. CASE i = k
      <4>1. \A o \in Context : ~Owns(o, i)'
        BY <1>0, <1>3, <2>2, <3>2, <3>3 DEF SlotTidy
      <4>2. QED BY <1>2, <2>3, <3>3, <4>1 DEF SlotTidy
    <3>4. CASE i # k
      <4>1. timer_ids'[i] = timer_ids[i]
        BY <1>0, <2>4, <3>4
      <4>2. QED BY <1>2, <1>3, <2>4, <3>1, <3>2, <4>1 DEF SlotTidy
    <3>5. QED BY <3>3, <3>4
  <2>7. ASSUME NEW o \in Context PROVE ContextTidy(o)'
    <3>1. ContextTidy(o)
      BY DEF Tidy
    <3>2. CASE o = h
      BY <1>0, <2>1, <2>5, <3>2 DEF ContextTidy
    <3>3. CASE o # h
      BY <1>1, <1>2, <2>4, <3>1, <3>3 DEF ContextTidy, Same
    <3>4. QED BY <3>2, <3>3
  <2>8. QED BY <1>2, <2>4, <2>6, <2>7 DEF Tidy
<1>7. CASE LookupExpired(h)
  <2>1. /\ pc[h] = "expired" /\ loc[h].dst # None
        /\ UNCHANGED <<timers, timer_ids, status>>
    BY <1>0, <1>7 DEF LookupExpired, ContextTidy, Dst, slots
  <2>2. pc'[h] \in {"clean", "route"}
    BY <1>0, <1>1, <1>7, <2>1, TimerStepFrame
  <2>3. ASSUME NEW i \in Slot PROVE SlotTidy(i)'
    <3>1. SlotTidy(i)
      BY DEF Tidy
    <3>2. ~Owns(h, i)' /\ ~Owns(h, i) /\ ~Putting(h, i)' /\ ~Putting(h, i)
      BY <2>1, <2>2 DEF Owns, Putting
    <3>3. QED BY <1>2, <1>3, <2>1, <3>1, <3>2 DEF SlotTidy
  <2>4. ASSUME NEW o \in Context PROVE ContextTidy(o)'
    <3>1. ContextTidy(o)
      BY DEF Tidy
    <3>2. CASE o = h
      BY <2>2, <3>2 DEF ContextTidy
    <3>3. CASE o # h
      BY <1>1, <1>2, <2>1, <3>1, <3>3 DEF ContextTidy, Same
    <3>4. QED BY <3>2, <3>3
  <2>5. QED BY <1>2, <2>1, <2>3, <2>4 DEF Tidy
<1>8. QED BY <1>4, <1>5, <1>6, <1>7

LEMMA ExpireTidy ==
  ASSUME TypeInv, Tidy, NEW h \in Handler, NEW j \in Slot, Expire(h, j), ~early'
  PROVE  Tidy'
<1>0. /\ h \in Context /\ Slot \subseteq Key /\ 0 \notin Slot /\ armed \in [Key -> Nat]
      /\ loc[h] \in Locals /\ pc[h] = "idle" /\ SlotTidy(j)
  BY KeyFacts DEF Context, Tidy, TypeInv, DataOK, ControlOK, Expire, At
<1>1. armed[j] = 1 /\ armed' = [armed EXCEPT ![j] = 0] /\ UNCHANGED <<timers, timer_ids, status>>
  <2>1. armed[j] = 1
    <3>1. armed[j] > 0 /\ armed[j] \in {0, 1}
      BY <1>0 DEF Expire, SlotTidy
    <3>2. QED BY <3>1
  <2>2. armed' = [armed EXCEPT ![j] = armed[j] - 1] /\ UNCHANGED <<timers, timer_ids, status>>
    BY DEF Expire
  <2>3. QED BY <2>1, <2>2
<1>2. /\ timer_ids[j] = j /\ timers[j] # None
      /\ \A c \in Context : ~Owns(c, j) /\ ~Putting(c, j)
  BY <1>0, <1>1 DEF Expire, SlotTidy, Putting
<1>3. /\ \A o \in Context \ {h} : Same(o)
      /\ pc'[h] = "get" /\ loc'[h] = [loc[h] EXCEPT !.slot = j, !.key = timer_ids[j]]
  <2>1. pc' = [pc EXCEPT ![h] = "get"]
        /\ loc' = [loc EXCEPT ![h] = [loc[h] EXCEPT !.slot = j, !.key = timer_ids[j]]]
    BY <1>0 DEF Expire, Goto, TypeInv, ControlOK
  <2>2. QED BY <1>0, <2>1, OthersSame
<1>4. loc'[h].slot = j /\ loc'[h].key = j
  BY <1>0, <1>2, <1>3 DEF Locals
<1>5. ASSUME NEW i \in Slot PROVE SlotTidy(i)'
  <2>1. SlotTidy(i)
    BY DEF Tidy
  <2>2. \A o \in Context \ {h} : (Owns(o, i)' <=> Owns(o, i)) /\ (Putting(o, i)' <=> Putting(o, i))
    BY <1>3 DEF Same, Owns, Putting
  <2>3. (Owns(h, i)' <=> i = j) /\ ~Owns(h, i) /\ ~Putting(h, i)' /\ ~Putting(h, i)
    BY <1>0, <1>3, <1>4 DEF Owns, Putting
  <2>4. CASE i = j
    <3>1. armed'[i] = 0
      BY <1>0, <1>1, <2>4
    <3>2. QED BY <1>1, <1>2, <2>2, <2>3, <2>4, <3>1 DEF SlotTidy
  <2>5. CASE i # j
    <3>1. armed'[i] = armed[i]
      BY <1>0, <1>1, <2>5
    <3>2. QED BY <1>1, <2>1, <2>2, <2>3, <2>5, <3>1 DEF SlotTidy
  <2>6. QED BY <2>4, <2>5
<1>6. ASSUME NEW o \in Context PROVE ContextTidy(o)'
  <2>1. ContextTidy(o) /\ (pc[o] = "put" => loc[o].slot \in Slot /\ loc[o].slot # j)
    BY <1>2, SlotOfLabel DEF Tidy, SlotLabels, Putting
  <2>2. CASE o = h
    BY <1>0, <1>1, <1>2, <1>3, <1>4, <2>2 DEF ContextTidy
  <2>3. CASE o # h
    <3>1. pc[o] = "put" => armed'[loc[o].slot] = 1
      BY <1>0, <1>1, <2>1 DEF ContextTidy
    <3>2. QED BY <1>1, <1>3, <2>1, <2>3, <3>1 DEF ContextTidy, Same
  <2>4. QED BY <2>2, <2>3
<1>7. armed'[0] = 0
  BY <1>0, <1>1, KeyFacts DEF Tidy
<1>8. QED BY <1>1, <1>5, <1>6, <1>7 DEF Tidy

LEMMA TidyStep == TypeInv /\ TidyInv /\ [Next]_vars => TidyInv'
<1> SUFFICES ASSUME TypeInv, TidyInv, [Next]_vars, ~raced', ~early' PROVE Tidy'
  BY DEF TidyInv
<1>1. CASE UNCHANGED vars
  <2>1. Tidy
    BY <1>1 DEF TidyInv, vars, slots
  <2>2. QED BY <1>1, <2>1
       DEF vars, slots, Tidy, SlotTidy, ContextTidy, Owns, Putting
<1>2. ASSUME NEW c \in Context, Quiet(c) PROVE Tidy'
  BY <1>2, QuietTidy DEF TidyInv, Quiet, slots
<1>3. ASSUME NEW c \in Context, TimerStep(c) PROVE Tidy'
  <2>1. ~raced /\ ~early
    <3>1. CASE Claim(c)
      BY <3>1 DEF Claim
    <3>2. CASE ~Claim(c)
      <4>1. UNCHANGED <<raced, early>>
        BY <1>3, <3>2 DEF TimerStep, MakeTimer, PutTimer, GetTimer, DeleteTimer, ResetSlot,
                          LookupExpired, slots
      <4>2. QED BY <4>1
    <3>3. QED BY <3>1, <3>2
  <2>2. QED BY <1>3, <2>1, ClaimTidy, MakeTimerTidy, PutTimerTidy, HandlerTidy
       DEF TimerStep, TidyInv
<1>4. ASSUME NEW i \in Slot, NEW h \in Handler, Expire(h, i) PROVE Tidy'
  <2>1. ~raced /\ ~early
    BY <1>4 DEF Expire
  <2>2. QED BY <1>4, <2>1, ExpireTidy DEF TidyInv
<1>5. ASSUME NEW h \in Handler, ExpireWild(h) PROVE Tidy'
  <2>1. armed[0] = 0 /\ armed[0] > 0
    BY <1>5 DEF ExpireWild, TidyInv, Tidy, slots
  <2>2. QED BY <2>1
<1>6. QED BY <1>1, <1>2, <1>3, <1>4, <1>5, StepKinds

LEMMA TidyInvariant == Spec => []TidyInv
<1>1. Init => TidyInv
  <2> SUFFICES ASSUME Init PROVE Tidy
    BY DEF TidyInv
  <2>1. \A i \in Key : armed[i] = 0
    BY DEF Init
  <2>2. \A c \in Context : pc[c] = "idle"
    BY DEF Init
  <2>3. QED BY <2>1, <2>2, KeyFacts DEF Init, Tidy, SlotTidy, ContextTidy, Owns
<1>2. QED BY <1>1, TidyStep, TypeInvariant, PTL DEF Spec

\* The handler uses NULL or writes outside timer_ids only after a slot was
\* taken twice or a timer expired before its entry was made.
THEOREM CrashesExplained == Spec => []CrashExplained
<1>1. TidyInv => CrashExplained
  BY DEF TidyInv, Tidy, CrashExplained
<1>2. QED BY <1>1, TidyInvariant, PTL

-----------------------------------------------------------------------------
(* Names stay in /etc/hosts *)

RewriteLabels == {"snap", "trunc", "write"}

\* NamesKept along remove_name: the name it was called for was not there when it
\* began, so the copy holds all that is to be kept.
KeptInv ==
  /\ pc[Watcher] # "write" => kept \subseteq hosts
  /\ pc[Watcher] \in {"trunc", "write"} => kept \subseteq copy
  /\ pc[Watcher] = "snap" => loc[Watcher].dst \notin kept

\* A step that leaves the file alone.
FileStutter ==
  /\ UNCHANGED <<hosts, copy, kept>>
  /\ \/ Same(Watcher)
     \/ pc[Watcher] \notin RewriteLabels /\ pc'[Watcher] \notin RewriteLabels

LEMMA StutterKept ==
  ASSUME KeptInv, FileStutter
  PROVE  KeptInv'
<1>1. UNCHANGED <<hosts, copy, kept>>
  BY DEF FileStutter
<1>2. CASE Same(Watcher)
  BY <1>1, <1>2 DEF KeptInv, Same
<1>3. CASE pc[Watcher] \notin RewriteLabels /\ pc'[Watcher] \notin RewriteLabels
  BY <1>1, <1>3 DEF KeptInv, RewriteLabels
<1>4. QED BY <1>2, <1>3 DEF FileStutter

LEMMA ListenerKept ==
  ASSUME TypeInv, KeptInv, ListenForNreqs
  PROVE  KeptInv'
<1>1. Listener \in Context /\ Watcher \in Context \ {Listener}
  BY NodeAssumption DEF Context
<1>2. Same(Watcher)
  BY <1>1, ThreadQuiet DEF Quiet
<1>3. CASE AppendName
  <2>1. /\ hosts \subseteq hosts' /\ copy' = copy
        /\ pc[Watcher] \in RewriteLabels => kept' = kept
        /\ kept \subseteq hosts => kept' \subseteq hosts'
    <3>1. CASE Rewriting
      BY <1>3, <3>1 DEF AppendName
    <3>2. CASE ~Rewriting
      BY <1>3, <3>2 DEF AppendName, Rewriting, RewriteLabels
    <3>3. QED BY <3>1, <3>2
  <2>2. QED BY <1>2, <2>1 DEF KeptInv, Same, RewriteLabels
<1>4. CASE ~AppendName
  <2>1. UNCHANGED <<hosts, copy, kept>>
    BY <1>4 DEF ListenForNreqs, AnswerNreq, AcceptNrep, CacheName, RespondToPnrs,
                DeleteAnswered, files
  <2>2. QED BY <1>2, <2>1, StutterKept DEF FileStutter
<1>5. QED BY <1>3, <1>4

LEMMA WatcherKept ==
  ASSUME TypeInv, KeptInv, WatchRoutes
  PROVE  KeptInv'
<1> USE DEF At, Dst
<1>0. Watcher \in Context
  BY DEF Context
<1>1. CASE RouteAdded \/ RoutePending \/ RouteRemoved
  <2>1. UNCHANGED files /\ pc[Watcher] \notin RewriteLabels
    BY <1>1 DEF RouteAdded, RoutePending, RouteRemoved, RewriteLabels
  <2>2. Finish(Watcher) \/ \E p \in PC \ RewriteLabels : Goto(Watcher, p) /\ UNCHANGED loc
    BY <1>1 DEF RouteAdded, RoutePending, RouteRemoved, RewriteLabels, PC
  <2>3. pc'[Watcher] \notin RewriteLabels
    BY <1>0, <2>2, Shapes, Finished DEF RewriteLabels
  <2>4. QED BY <2>1, <2>3, StutterKept DEF files, FileStutter
<1>2. CASE DropPnr
  <2>1. pc'[Watcher] = "forget"
    BY <1>0, <1>2 DEF DropPnr, Goto, TypeInv, ControlOK
  <2>2. QED BY <1>2, <2>1, StutterKept DEF files, FileStutter, DropPnr, RewriteLabels
<1>3. CASE ForgetName
  <2>1. CASE Finish(Watcher)
    <3>1. pc'[Watcher] = "idle"
      BY <1>0, <2>1, Finished
    <3>2. QED BY <1>3, <3>1, StutterKept DEF files, FileStutter, ForgetName, RewriteLabels
  <2>2. CASE loc[Watcher].dst \notin hosts /\ Goto(Watcher, "snap") /\ UNCHANGED loc
    <3>1. pc'[Watcher] = "snap" /\ loc'[Watcher] = loc[Watcher]
      BY <1>0, <2>2, Shapes
    <3>2. UNCHANGED <<hosts, kept>> /\ pc[Watcher] = "forget"
      BY <1>3 DEF ForgetName, files
    <3>3. QED BY <2>2, <3>1, <3>2 DEF KeptInv
  <2>3. QED BY <1>3, <2>1, <2>2 DEF ForgetName
<1>4. CASE Snapshot
  <2>1. pc'[Watcher] = "trunc"
    BY <1>0, <1>4, Shapes DEF Snapshot
  <2>2. QED BY <1>4, <2>1 DEF Snapshot, KeptInv
<1>5. CASE Truncate
  <2>1. pc'[Watcher] = "write"
    BY <1>0, <1>5, Shapes DEF Truncate
  <2>2. QED BY <1>5, <2>1 DEF Truncate, KeptInv
<1>6. CASE WriteBack
  <2>1. pc'[Watcher] = "idle"
    BY <1>0, <1>6, Finished DEF WriteBack
  <2>2. QED BY <1>6, <2>1 DEF WriteBack, KeptInv
<1>7. QED BY <1>1, <1>2, <1>3, <1>4, <1>5, <1>6 DEF WatchRoutes

\* All other steps leave the file alone.
LEMMA OtherKept ==
  ASSUME TypeInv, KeptInv, NEW c \in Context,
         \/ c \in {Listener, Watcher} /\ RegisterNreq(c)
         \/ StartTimer(c)
         \/ c \in Handler /\ TimeoutHandler(c)
  PROVE  KeptInv'
<1>0. UNCHANGED files
  BY DEF RegisterNreq, Lookup, ExistsInList, PushWalk, PushLink, PushFill, TornWalk,
         NewEntry, StartTimer, Scan, Exhausted, Claim, MakeTimer, PutTimer, Send,
         TimeoutHandler, GetTimer, DeleteTimer, ResetSlot, LookupExpired, CleanPnr,
         RouteExists
<1>1. \A o \in Context \ {c} : Same(o)
  <2>1. Quiet(c) \/ TimerStep(c)
    BY RegisterQuiet, ScanQuiet, HandlerQuiet DEF StartTimer, TimeoutHandler, TimerStep
  <2>2. QED BY <2>1, TimerStepFrame DEF Quiet
<1>2. CASE c # Watcher
  BY <1>0, <1>1, <1>2, StutterKept DEF files, FileStutter, Context
<1>3. CASE c = Watcher
  <2>1. c \notin Handler
    BY <1>3, NodeAssumption
  <2>2. CASE RegisterNreq(c)
    <3>1. pc[c] \notin RewriteLabels
      BY <2>2 DEF RegisterNreq, Lookup, ExistsInList, PushWalk, PushLink, PushFill,
                  TornWalk, NewEntry, At, RewriteLabels
    <3>2. pc'[c] \notin RewriteLabels
      BY <2>2, <3>1
         DEF RegisterNreq, Lookup, ExistsInList, PushWalk, PushLink, PushFill, TornWalk,
             NewEntry, Registered, Finish, Goto, Die, RewriteLabels, TypeInv, ControlOK
    <3>3. QED BY <1>0, <1>3, <3>1, <3>2, StutterKept DEF files, FileStutter
  <2>3. CASE StartTimer(c)
    <3>1. pc[c] \notin RewriteLabels
      BY <2>3 DEF StartTimer, Scan, Exhausted, Claim, MakeTimer, PutTimer, Send, At,
                  RewriteLabels
    <3>2. pc'[c] \notin RewriteLabels
      BY <2>3, <3>1
         DEF StartTimer, Scan, Exhausted, Claim, MakeTimer, PutTimer, Send, Finish, Goto,
             Die, RewriteLabels, TypeInv, ControlOK
    <3>3. QED BY <1>0, <1>3, <3>1, <3>2, StutterKept DEF files, FileStutter
  <2>4. QED BY <2>1, <2>2, <2>3
<1>4. QED BY <1>2, <1>3

LEMMA EventKept ==
  ASSUME TypeInv, KeptInv, Input \/ (\E i \in Slot : Expiry(i)) \/ (\E h \in Handler : ExpireWild(h))
  PROVE  KeptInv'
<1>0. Watcher \in Context /\ Listener \in Context
  BY DEF Context
<1>1. ASSUME NEW c \in Context, NEW p \in PC \ RewriteLabels, NEW d, NEW q, Begin(c, p, d, q)
      PROVE  KeptInv'
  <2>1. pc' = [pc EXCEPT ![c] = p]
        /\ loc' = [loc EXCEPT ![c] = [loc[c] EXCEPT !.dst = d, !.req = q]]
    BY <1>1 DEF Begin, Goto, TypeInv, ControlOK
  <2>2. (\A o \in Context \ {c} : Same(o)) /\ pc'[c] = p
    BY <2>1, OthersSame
  <2>3. UNCHANGED files /\ pc[c] = "idle"
    BY <1>1 DEF Begin, At
  <2>4. FileStutter
    BY <1>0, <1>1, <2>2, <2>3 DEF files, FileStutter, RewriteLabels
  <2>5. QED BY <2>4, StutterKept
<1>2. ASSUME Input PROVE KeptInv'
  <2>1. {"added", "removed", "nreq", "nrep"} \subseteq PC \ RewriteLabels
    BY DEF PC, RewriteLabels
  <2>2. QED BY <1>0, <1>1, <1>2, <2>1 DEF Input, ReadRoute, RecvNreq, RecvNrep
<1>3. ASSUME NEW h \in Handler, NEW i \in Slot, Expire(h, i) PROVE KeptInv'
  <2>1. h # Watcher /\ h \in Context
    BY NodeAssumption DEF Context
  <2>2. pc' = [pc EXCEPT ![h] = "get"]
        /\ loc' = [loc EXCEPT ![h] = [loc[h] EXCEPT !.slot = i, !.key = timer_ids[i]]]
    BY <1>3, <2>1 DEF Expire, Goto, TypeInv, ControlOK
  <2>3. Same(Watcher)
    BY <1>0, <2>1, <2>2, OthersSame
  <2>4. QED BY <1>3, <2>3, StutterKept DEF Expire, files, FileStutter
<1>4. ASSUME NEW h \in Handler, ExpireWild(h) PROVE KeptInv'
  BY <1>4, StutterKept DEF ExpireWild, Die, files, FileStutter, Same
<1>5. QED BY <1>2, <1>3, <1>4 DEF Expiry

LEMMA KeptStep == TypeInv /\ KeptInv /\ [Next]_vars => KeptInv'
<1>1. CASE UNCHANGED vars
  BY <1>1 DEF vars, files, KeptInv
<1>2. ASSUME TypeInv, KeptInv, NEW c \in Context, Run(c) PROVE KeptInv'
  BY <1>2, OtherKept, WatcherKept, ListenerKept DEF Run
<1>3. QED BY <1>1, <1>2, EventKept DEF Next

\* A name appended while /etc/hosts was not being replaced stays there.
THEOREM NamesAlwaysKept == Spec => []NamesKept
<1>1. Init => KeptInv
  BY DEF Init, KeptInv, Context
<1>2. KeptInv => NamesKept
  BY DEF KeptInv, NamesKept
<1>3. QED BY <1>1, <1>2, KeptStep, TypeInvariant, PTL DEF Spec

-----------------------------------------------------------------------------
(* A pending request for a known name is explained *)

RegLabels == {"pending", "reg", "exists", "push", "link", "new"}

\* The names /etc/hosts holds, or will hold again once it is written back.
Known == IF pc[Watcher] = "write" THEN hosts \cup copy ELSE hosts

\* The listener is about to delete the entry of d.
Answering(d) == loc[Listener].dst = d /\ pc[Listener] \in {"respond", "answered"}

\* PendingExplained for all names that are known in this sense, and the same for
\* the requests that are about to be registered.
PendInv ==
  /\ pc[Watcher] = "trunc" => copy \subseteq hosts
  /\ \A d \in Known : pnrs[d] # {} => d \in misled \/ Answering(d)
  /\ \A c \in {Listener, Watcher} :
       pc[c] \in RegLabels /\ loc[c].dst \in Known => loc[c].dst \in misled

\* A step by which no more names become known.
LEMMA PendMove ==
  ASSUME PendInv, Known' \subseteq Known, misled \subseteq misled',
         pc'[Watcher] = "trunc" => copy' \subseteq hosts',
         \A d \in Known' : pnrs'[d] # {} => pnrs[d] # {} \/ d \in misled',
         \A d \in Known' : Answering(d) => Answering(d)' \/ pnrs'[d] = {},
         \A c \in {Listener, Watcher} :
           pc'[c] \in RegLabels =>
             \/ pc[c] \in RegLabels /\ loc'[c].dst = loc[c].dst
             \/ loc'[c].dst \notin Known'
             \/ loc'[c].dst \in misled'
  PROVE  PendInv'
<1>1. ASSUME NEW d \in Known', pnrs'[d] # {} PROVE d \in misled' \/ Answering(d)'
  <2>1. CASE pnrs[d] # {}
    BY <1>1, <2>1 DEF PendInv
  <2>2. QED BY <1>1, <2>1
<1>2. ASSUME NEW c \in {Listener, Watcher}, pc'[c] \in RegLabels, loc'[c].dst \in Known'
      PROVE  loc'[c].dst \in misled'
  BY <1>2 DEF PendInv
<1>3. QED BY <1>1, <1>2 DEF PendInv

\* A step that has nothing to do with names.
Harmless ==
  /\ UNCHANGED <<hosts, copy, misled>>
  /\ \A d \in Addr : pnrs'[d] # {} => pnrs[d] # {}
  /\ \A c \in {Listener, Watcher} :
       \/ Same(c)
       \/ \A p \in {pc[c], pc'[c]} :
            p \notin RegLabels /\ p \notin RewriteLabels /\ p \notin {"respond", "answered"}

LEMMA HarmlessPend ==
  ASSUME TypeInv, PendInv, Harmless
  PROVE  PendInv'
<1>1. Known' = Known /\ Known \subseteq Addr
  BY DEF Known, Harmless, Same, RewriteLabels, TypeInv, DataOK
<1>2. pc'[Watcher] = "trunc" => copy' \subseteq hosts'
  BY DEF PendInv, Harmless, Same, RewriteLabels
<1>3. \A d : Answering(d) => Answering(d)'
  BY DEF Answering, Harmless, Same
<1>4. \A c \in {Listener, Watcher} :
        pc'[c] \in RegLabels => pc[c] \in RegLabels /\ loc'[c].dst = loc[c].dst
  BY DEF Harmless, Same
<1>5. \A d \in Known' : pnrs'[d] # {} => pnrs[d] # {}
  BY <1>1 DEF Harmless
<1>6. misled \subseteq misled'
  BY DEF Harmless
<1>7. QED BY <1>1, <1>2, <1>3, <1>4, <1>5, <1>6, PendMove

\* register_nreq: the entry is made only for a name held unknown.
LEMMA RegisterPend ==
  ASSUME TypeInv, PendInv, NEW c \in {Listener, Watcher}, RegisterNreq(c)
  PROVE  PendInv'
<1> USE DEF At, Dst
<1>0. /\ c \in Context /\ pc \in [Context -> PC] /\ loc \in [Context -> Locals]
      /\ pnrs \in [Addr -> SUBSET (Requester \cup {Local})]
      /\ Listener \in Context /\ Watcher \in Context
      /\ hosts \subseteq Addr /\ copy \subseteq Addr
  BY DEF Context, TypeInv, ControlOK, DataOK
<1>1. UNCHANGED <<hosts, copy, misled>>
  BY DEF RegisterNreq, Lookup, ExistsInList, PushWalk, PushLink, PushFill, TornWalk,
         NewEntry, files
<1>2. \A o \in Context \ {c} : Same(o)
  BY RegisterQuiet DEF Quiet
<1>3. /\ pc[c] \in RegLabels \cup {"fill", "respond"}
      /\ pc[c] = "respond" => pc'[c] = pc[c] /\ loc'[c] = loc[c]
  BY DEF RegisterNreq, Lookup, ExistsInList, PushWalk, PushLink, PushFill, TornWalk,
         NewEntry, Die, RegLabels
<1>4. /\ pc'[c] \notin {"trunc", "write"}
      /\ pc'[c] \in RegLabels => pc[c] \in RegLabels /\ loc'[c].dst = loc[c].dst
  <2>1. CASE NewEntry(c)
    BY <1>0, <2>1 DEF NewEntry, Goto, RegLabels
  <2>2. CASE ExistsInList(c) \/ PushFill(c)
    BY <1>0, <2>2 DEF ExistsInList, PushFill, Registered, Finish, Goto, RegLabels
  <2>3. CASE Lookup(c) \/ PushWalk(c) \/ PushLink(c)
    <3>1. /\ pc'[c] \notin {"trunc", "write"} /\ pc[c] \in RegLabels
          /\ \/ loc' = loc
             \/ loc' = [loc EXCEPT ![c] = [loc[c] EXCEPT !.held = TRUE]]
             \/ loc' = [loc EXCEPT ![c] = [loc[c] EXCEPT !.seen = pnrs[loc[c].dst]]]
      BY <1>0, <2>3 DEF Lookup, PushWalk, PushLink, Goto, RegLabels
    <3>2. loc'[c].dst = loc[c].dst
      BY <1>0, <3>1 DEF Locals
    <3>3. QED BY <3>1, <3>2
  <2>4. CASE TornWalk(c)
    BY <1>3, <2>4 DEF TornWalk, Die, RegLabels
  <2>5. QED BY <2>1, <2>2, <2>3, <2>4 DEF RegisterNreq
<1>5. Known' = Known
  <2>1. pc'[Watcher] = "write" <=> pc[Watcher] = "write"
    BY <1>0, <1>2, <1>3, <1>4 DEF Same, RegLabels
  <2>2. QED BY <1>1, <2>1 DEF Known
<1>6. \A d \in Known : pnrs'[d] # {} => pnrs[d] # {} \/ d \in misled
  <2>1. CASE NewEntry(c) \/ PushLink(c)
    <3>1. pc[c] \in RegLabels
      BY <2>1 DEF NewEntry, PushLink, RegLabels
    <3>2. \A d \in Addr : d # loc[c].dst => pnrs'[d] = pnrs[d]
      BY <1>0, <2>1 DEF NewEntry, PushLink
    <3>3. Known \subseteq Addr
      BY <1>0 DEF Known
    <3>4. QED BY <3>1, <3>2, <3>3 DEF PendInv
  <2>2. CASE ~(NewEntry(c) \/ PushLink(c))
    BY <2>2 DEF RegisterNreq, Lookup, ExistsInList, PushWalk, PushFill, TornWalk
  <2>3. QED BY <2>1, <2>2
<1>7. \A d : Answering(d) => Answering(d)'
  <2>1. CASE c = Listener
    BY <1>3, <2>1 DEF Answering, RegLabels
  <2>2. CASE c # Listener
    BY <1>0, <1>2, <2>2 DEF Answering, Same
  <2>3. QED BY <2>1, <2>2
<1>8. pc'[Watcher] = "trunc" => copy' \subseteq hosts'
  BY <1>0, <1>1, <1>2, <1>4 DEF PendInv, Same
<1>9. \A o \in {Listener, Watcher} :
        pc'[o] \in RegLabels => pc[o] \in RegLabels /\ loc'[o].dst = loc[o].dst
  BY <1>0, <1>2, <1>4 DEF Same
<1>10. QED BY <1>1, <1>5, <1>6, <1>7, <1>8, <1>9, PendMove

\* The listener's steps: it registers only what it does not find, and what it
\* appends it deletes.
LEMMA ListenerPend ==
  ASSUME TypeInv, PendInv, ListenForNreqs
  PROVE  PendInv'
<1> USE DEF At, Dst
<1>0. /\ Listener \in Context /\ Watcher \in Context \ {Listener}
      /\ pc \in [Context -> PC] /\ loc \in [Context -> Locals]
      /\ pnrs \in [Addr -> SUBSET (Requester \cup {Local})]
      /\ hosts \subseteq Addr /\ copy \subseteq Addr
  BY NodeAssumption DEF Context, TypeInv, ControlOK, DataOK
<1>1. Same(Watcher)
  BY <1>0, ThreadQuiet DEF Quiet
<1>2. Known \subseteq Addr
  BY <1>0 DEF Known
<1>3. CASE AnswerNreq
  <2>1. Known' = Known /\ UNCHANGED <<hosts, copy, pnrs>> /\ misled \subseteq misled'
    BY <1>1, <1>3 DEF AnswerNreq, Known, Same
  <2>2. pc'[Listener] \in RegLabels =>
          loc'[Listener].dst \notin Known' \/ loc'[Listener].dst \in misled'
    <3>1. CASE loc[Listener].dst \in hosts
      BY <1>0, <1>3, <3>1 DEF AnswerNreq, Finish, Goto, RegLabels
    <3>2. CASE pc[Watcher] = "write" /\ loc[Listener].dst \in copy
      BY <1>3, <3>1, <3>2 DEF AnswerNreq
    <3>3. CASE loc[Listener].dst \notin hosts /\ ~(pc[Watcher] = "write" /\ loc[Listener].dst \in copy)
      BY <1>3, <2>1, <3>3 DEF AnswerNreq, Known
    <3>4. QED BY <3>1, <3>2, <3>3
  <2>3. \A d : ~Answering(d)
    BY <1>3 DEF AnswerNreq, Answering
  <2>4. QED BY <1>1, <2>1, <2>2, <2>3, PendMove DEF PendInv, Same
<1>4. CASE AcceptNrep
  <2>1. Known' = Known /\ UNCHANGED <<hosts, copy, pnrs, misled>>
    BY <1>1, <1>4 DEF AcceptNrep, Known, Same, files
  <2>2. pc'[Listener] \notin RegLabels
    BY <1>0, <1>4 DEF AcceptNrep, Finish, Goto, RegLabels
  <2>3. \A d : ~Answering(d)
    BY <1>4 DEF AcceptNrep, Answering
  <2>4. QED BY <1>1, <2>1, <2>2, <2>3, PendMove DEF PendInv, Same
<1>5. CASE CacheName \/ RespondToPnrs
  <2>1. Known' = Known /\ UNCHANGED <<hosts, copy, pnrs, misled>>
    BY <1>1, <1>5 DEF CacheName, RespondToPnrs, Known, Same, files
  <2>2. pc'[Listener] \notin RegLabels
    BY <1>0, <1>5 DEF CacheName, RespondToPnrs, Goto, RegLabels
  <2>3. \A d : Answering(d) => Answering(d)'
    BY <1>0, <1>5 DEF CacheName, RespondToPnrs, Goto, Answering
  <2>4. QED BY <1>1, <2>1, <2>2, <2>3, PendMove DEF PendInv, Same
<1>6. CASE AppendName
  <2> DEFINE d == loc[Listener].dst
  <2>1. /\ hosts' = hosts \cup {d} /\ UNCHANGED <<copy, pnrs>> /\ misled \subseteq misled'
        /\ Known' = Known \cup {d}
    BY <1>1, <1>6 DEF AppendName, Known, Same
  <2>2. pc'[Listener] = "respond" /\ loc'[Listener].dst = d
    BY <1>0, <1>6 DEF AppendName, Goto
  <2>3. pc'[Watcher] \in RegLabels /\ loc'[Watcher].dst \in Known' => loc'[Watcher].dst \in misled'
    <3>1. CASE pc[Watcher] \in RegLabels /\ loc[Watcher].dst = d
      BY <1>1, <1>6, <3>1 DEF AppendName, Registering, RegLabels, Same
    <3>2. CASE ~(pc[Watcher] \in RegLabels /\ loc[Watcher].dst = d)
      BY <1>1, <2>1, <3>2 DEF PendInv, Same
    <3>3. QED BY <3>1, <3>2
  <2>4. \A e \in Known' : pnrs'[e] # {} => e \in misled' \/ Answering(e)'
    <3>1. \A e : ~Answering(e)
      BY <1>6 DEF AppendName, Answering
    <3>2. \A e : e = d => Answering(e)'
      BY <2>2 DEF Answering
    <3>3. QED BY <2>1, <3>1, <3>2 DEF PendInv
  <2>5. QED BY <1>1, <2>1, <2>2, <2>3, <2>4 DEF PendInv, RegLabels, Same
<1>7. CASE DeleteAnswered
  <2>1. /\ Known' = Known /\ UNCHANGED <<hosts, copy, misled>>
        /\ pnrs' = [pnrs EXCEPT ![loc[Listener].dst] = {}]
    BY <1>1, <1>7 DEF DeleteAnswered, DeleteEntry, Known, Same, files
  <2>2. pc'[Listener] \notin RegLabels
    BY <1>0, <1>7 DEF DeleteAnswered, Goto, RegLabels
  <2>3. \A d \in Known' : Answering(d) => pnrs'[d] = {}
    BY <1>0, <1>2, <2>1 DEF Answering
  <2>4. \A d \in Known' : pnrs'[d] # {} => pnrs[d] # {}
    BY <1>0, <1>2, <2>1
  <2>5. QED BY <1>1, <2>1, <2>2, <2>3, <2>4, PendMove DEF PendInv, Same
<1>8. QED BY <1>3, <1>4, <1>5, <1>6, <1>7 DEF ListenForNreqs

\* The watcher's steps: while the file is empty the copy stands for it.
LEMMA WatcherPend ==
  ASSUME TypeInv, PendInv, WatchRoutes
  PROVE  PendInv'
<1> USE DEF At, Dst
<1>0. /\ Watcher \in Context /\ Listener \in Context \ {Watcher}
      /\ pc \in [Context -> PC] /\ loc \in [Context -> Locals]
      /\ pnrs \in [Addr -> SUBSET (Requester \cup {Local})]
      /\ hosts \subseteq Addr /\ copy \subseteq Addr
  BY NodeAssumption DEF Context, TypeInv, ControlOK, DataOK
<1>1. Same(Listener)
  BY <1>0, ThreadQuiet DEF Quiet
<1>2. \A d : Answering(d) => Answering(d)'
  BY <1>1 DEF Answering, Same
<1>3. CASE RouteAdded
  <2>1. UNCHANGED <<hosts, copy, misled, pnrs>> /\ pc[Watcher] = "added"
    BY <1>3 DEF RouteAdded, files
  <2>2. /\ pc'[Watcher] \notin {"trunc", "write"}
        /\ pc'[Watcher] \in RegLabels => loc'[Watcher].dst \notin hosts
    BY <1>0, <1>3 DEF RouteAdded, Finish, Goto, RegLabels
  <2>3. Known' = Known /\ Known = hosts
    BY <2>1, <2>2 DEF Known
  <2>4. QED BY <1>1, <1>2, <2>1, <2>2, <2>3, PendMove DEF Same
<1>4. CASE RoutePending
  <2>1. UNCHANGED <<hosts, copy, misled, pnrs, loc>> /\ pc[Watcher] = "pending"
    BY <1>4 DEF RoutePending, files
  <2>2. pc'[Watcher] \in {"send", "reg"}
    BY <1>0, <1>4 DEF RoutePending, Goto
  <2>3. Known' = Known
    BY <2>1, <2>2 DEF Known
  <2>4. QED BY <1>1, <1>2, <2>1, <2>2, <2>3, PendMove DEF Same, RegLabels
<1>5. CASE RouteRemoved \/ DropPnr \/ ForgetName
  <2>1. /\ UNCHANGED <<hosts, copy, misled>>
        /\ pc[Watcher] \notin {"trunc", "write"}
        /\ \A d \in Addr : pnrs'[d] # {} => pnrs[d] # {}
    BY <1>0, <1>5 DEF RouteRemoved, DropPnr, ForgetName, DeleteEntry, files
  <2>2. pc'[Watcher] \in {"drop", "forget", "snap", "idle"}
    BY <1>0, <1>5 DEF RouteRemoved, DropPnr, ForgetName, Finish, Goto
  <2>3. Known' = Known /\ Known \subseteq Addr
    BY <1>0, <2>1, <2>2 DEF Known
  <2>4. QED BY <1>1, <1>2, <2>1, <2>2, <2>3, PendMove DEF Same, RegLabels
<1>6. CASE Snapshot \/ Truncate \/ WriteBack
  <2>1. UNCHANGED <<misled, pnrs>> /\ pc'[Watcher] \notin RegLabels
    BY <1>0, <1>6 DEF Snapshot, Truncate, WriteBack, Finish, Goto, RegLabels
  <2>2. CASE Snapshot
    <3>1. pc[Watcher] = "snap" /\ pc'[Watcher] = "trunc" /\ hosts' = hosts /\ copy' \subseteq hosts
      BY <1>0, <2>2 DEF Snapshot, Goto
    <3>2. Known' = Known
      BY <3>1 DEF Known
    <3>3. QED BY <1>1, <1>2, <2>1, <3>1, <3>2, PendMove DEF Same
  <2>3. CASE Truncate
    <3>1. pc[Watcher] = "trunc" /\ pc'[Watcher] = "write" /\ hosts' = {} /\ copy' = copy
      BY <1>0, <2>3 DEF Truncate, Goto
    <3>2. Known' \subseteq Known
      BY <3>1 DEF Known, PendInv
    <3>3. QED BY <1>1, <1>2, <2>1, <3>1, <3>2, PendMove DEF Same
  <2>4. CASE WriteBack
    <3>1. pc[Watcher] = "write" /\ pc'[Watcher] = "idle" /\ hosts' \subseteq hosts \cup copy
      BY <1>0, <2>4 DEF WriteBack, Finish, Goto
    <3>2. Known' \subseteq Known
      BY <3>1 DEF Known
    <3>3. QED BY <1>1, <1>2, <2>1, <3>1, <3>2, PendMove DEF Same
  <2>5. QED BY <1>6, <2>2, <2>3, <2>4
<1>7. QED BY <1>3, <1>4, <1>5, <1>6 DEF WatchRoutes

\* All other steps have nothing to do with names.
LEMMA OtherPend ==
  ASSUME TypeInv, PendInv, NEW c \in Context,
         StartTimer(c) \/ (c \in Handler /\ TimeoutHandler(c))
  PROVE  PendInv'
<1>1. UNCHANGED <<hosts, copy, misled>> /\ \A d \in Addr : pnrs'[d] # {} => pnrs[d] # {}
  BY DEF StartTimer, Scan, Exhausted, Claim, MakeTimer, PutTimer, Send, TimeoutHandler,
         GetTimer, DeleteTimer, ResetSlot, LookupExpired, CleanPnr, RouteExists,
         DeleteEntry, files, TypeInv, DataOK
<1>2. \A o \in Context \ {c} : Same(o)
  <2>1. Quiet(c) \/ TimerStep(c)
    BY ScanQuiet, HandlerQuiet DEF StartTimer, TimeoutHandler, TimerStep
  <2>2. QED BY <2>1, TimerStepFrame DEF Quiet
<1>3. CASE c \in {Listener, Watcher}
  <2>1. StartTimer(c)
    BY <1>3, NodeAssumption
  <2>2. \A p \in {pc[c], pc'[c]} :
          p \notin RegLabels /\ p \notin RewriteLabels /\ p \notin {"respond", "answered"}
    BY <2>1 DEF StartTimer, Scan, Exhausted, Claim, MakeTimer, PutTimer, Send, At, Finish,
                Goto, Die, RegLabels, RewriteLabels, TypeInv, ControlOK
  <2>3. QED BY <1>1, <1>2, <2>2, HarmlessPend DEF Harmless, Context
<1>4. CASE c \notin {Listener, Watcher}
  BY <1>1, <1>2, <1>4, HarmlessPend DEF Harmless, Context
<1>5. QED BY <1>3, <1>4

LEMMA EventPend ==
  ASSUME TypeInv, PendInv, Input \/ (\E i \in Slot : Expiry(i)) \/ (\E h \in Handler : ExpireWild(h))
  PROVE  PendInv'
<1>0. Watcher \in Context /\ Listener \in Context
  BY DEF Context
<1>1. ASSUME NEW c \in Context, NEW p \in {"added", "removed", "nreq", "nrep"}, NEW d, NEW q,
             Begin(c, p, d, q)
      PROVE  PendInv'
  <2>1. pc' = [pc EXCEPT ![c] = p]
        /\ loc' = [loc EXCEPT ![c] = [loc[c] EXCEPT !.dst = d, !.req = q]]
    BY <1>1 DEF Begin, Goto, TypeInv, ControlOK
  <2>2. (\A o \in Context \ {c} : Same(o)) /\ pc'[c] = p
    BY <2>1, OthersSame
  <2>3. UNCHANGED <<hosts, copy, misled, pnrs>> /\ pc[c] = "idle"
    BY <1>1 DEF Begin, At, files
  <2>4. Harmless
    BY <1>0, <2>2, <2>3 DEF Harmless, RegLabels, RewriteLabels
  <2>5. QED BY <2>4, HarmlessPend
<1>2. ASSUME Input PROVE PendInv'
  BY <1>0, <1>1, <1>2 DEF Input, ReadRoute, RecvNreq, RecvNrep
<1>3. ASSUME NEW h \in Handler, NEW i \in Slot, Expire(h, i) PROVE PendInv'
  <2>1. h \notin {Listener, Watcher} /\ h \in Context
    BY NodeAssumption DEF Context
  <2>2. pc' = [pc EXCEPT ![h] = "get"]
        /\ loc' = [loc EXCEPT ![h] = [loc[h] EXCEPT !.slot = i, !.key = timer_ids[i]]]
    BY <1>3, <2>1 DEF Expire, Goto, TypeInv, ControlOK
  <2>3. Same(Watcher) /\ Same(Listener)
    BY <1>0, <2>1, <2>2, OthersSame
  <2>4. QED BY <1>3, <2>3, HarmlessPend DEF Expire, files, Harmless
<1>4. ASSUME NEW h \in Handler, ExpireWild(h) PROVE PendInv'
  BY <1>4, HarmlessPend DEF ExpireWild, Die, files, Harmless, Same
<1>5. QED BY <1>2, <1>3, <1>4 DEF Expiry

LEMMA PendStep == TypeInv /\ PendInv /\ [Next]_vars => PendInv'
<1>1. CASE UNCHANGED vars
  BY <1>1 DEF vars, files, PendInv, Known, Answering
<1>2. ASSUME TypeInv, PendInv, NEW c \in Context, Run(c) PROVE PendInv'
  BY <1>2, RegisterPend, OtherPend, WatcherPend, ListenerPend DEF Run
<1>3. QED BY <1>1, <1>2, EventPend DEF Next

\* A request for a known name is pending only because of a look that was out of
\* date, or while the listener is about to delete it.
THEOREM PendingAlwaysExplained == Spec => []PendingExplained
<1>1. Init => PendInv
  BY NodeAssumption DEF Init, PendInv, Context, Known, RegLabels
<1>2. PendInv => PendingExplained
  BY DEF PendInv, PendingExplained, Known, Answering, Dst
<1>3. QED BY <1>1, <1>2, PendStep, TypeInvariant, PTL DEF Spec

=============================================================================
