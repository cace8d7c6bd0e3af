--------------------------- MODULE NodeTimers_proofs ---------------------------
(***************************************************************************)
(* Proofs about NodeTimers: how many slots are in use, and how far a search*)
(* for a free one can go, for any number of addresses, slots and handler   *)
(* contexts and any interleaving.                                          *)
(***************************************************************************)
EXTENDS NodeTimers, NodeThreads_proofs, FiniteSetTheorems

-----------------------------------------------------------------------------
(* The invariant *)

SearchLabels == {"scan", "claim"}
BusyLabels == {"scan", "claim", "expired", "route"}

\* Those that look for a slot, and those whose timer has expired and that may
\* come to look for one: each needs one slot more than there are in use.
Searching(c) == pc[c] \in SearchLabels
Busy == {c \in Context : pc[c] \in BusyLabels}

\* The slots in use, and the searches, that are beyond slot j.
Used(j) == {i \in Slot : timer_ids[i] # 0 /\ i > j}
Beyond(j) == {c \in Context : Searching(c) /\ loc[c].slot > j}

\* A search gets past slot j only while that is in use. If anything is beyond j,
\* j of what the budget allows are therefore not, and this stays so when slot j is
\* freed: whoever takes it next comes from before j.
BusyCount == Cardinality(UsedSlots) + Cardinality(Busy) <= Budget

SlotCount(j) ==
  Used(j) # {} \/ Beyond(j) # {}
    => Cardinality(Used(j)) + Cardinality(Beyond(j)) + j <= Budget

CountInv ==
  /\ lost \in Nat /\ repeated \in Nat
  /\ BusyCount /\ \A j \in Slot : SlotCount(j)
  /\ (status = "exhausted" => Beyond(N_TIMERS) # {})

LEMMA FiniteContexts == IsFiniteSet(Context)
<1>1. IsFiniteSet((Handler \cup {Listener}) \cup {Watcher})
  BY NodeAssumption, FS_AddElement
<1>2. Context = (Handler \cup {Listener}) \cup {Watcher}
  BY DEF Context
<1>3. QED BY <1>1, <1>2

LEMMA FiniteSlots == IsFiniteSet(Slot)
BY NodeAssumption, FS_Interval DEF Slot

LEMMA SetFacts ==
  ASSUME NEW j \in Nat
  PROVE  /\ IsFiniteSet(UsedSlots) /\ IsFiniteSet(Busy)
         /\ IsFiniteSet(Used(j)) /\ IsFiniteSet(Beyond(j))
         /\ IsFiniteSet(Sought) /\ IsFiniteSet(Sought \ Sought') /\ IsFiniteSet(Repeats)
         /\ Cardinality(UsedSlots) \in Nat /\ Cardinality(Busy) \in Nat
         /\ Cardinality(Used(j)) \in Nat /\ Cardinality(Beyond(j)) \in Nat
         /\ Cardinality(Sought) \in Nat /\ Cardinality(Sought \ Sought') \in Nat
         /\ Cardinality(Repeats) \in Nat
<1>1. /\ UsedSlots \in SUBSET Slot /\ Used(j) \in SUBSET Slot
      /\ Busy \in SUBSET Context /\ Beyond(j) \in SUBSET Context /\ Repeats \in SUBSET Context
      /\ Sought \in SUBSET Addr /\ Sought \ Sought' \in SUBSET Addr
  BY DEF UsedSlots, Used, Busy, Beyond, Repeats, Sought, Context
<1>2. /\ IsFiniteSet(UsedSlots) /\ IsFiniteSet(Used(j))
      /\ IsFiniteSet(Busy) /\ IsFiniteSet(Beyond(j)) /\ IsFiniteSet(Repeats)
      /\ IsFiniteSet(Sought) /\ IsFiniteSet(Sought \ Sought')
  BY <1>1, FiniteContexts, FiniteSlots, NodeAssumption, FS_Subset
<1>3. QED BY <1>2, FS_CardinalityType

LEMMA SetFactsPrime ==
  ASSUME NEW j \in Nat
  PROVE  /\ IsFiniteSet(UsedSlots') /\ IsFiniteSet(Busy')
         /\ IsFiniteSet(Used(j)') /\ IsFiniteSet(Beyond(j)')
         /\ IsFiniteSet(Sought')
         /\ Cardinality(UsedSlots') \in Nat /\ Cardinality(Busy') \in Nat
         /\ Cardinality(Used(j)') \in Nat /\ Cardinality(Beyond(j)') \in Nat
         /\ Cardinality(Sought') \in Nat
<1>1. /\ UsedSlots' \in SUBSET Slot /\ Used(j)' \in SUBSET Slot
      /\ Busy' \in SUBSET Context /\ Beyond(j)' \in SUBSET Context
      /\ Sought' \in SUBSET Addr
  BY DEF UsedSlots, Used, Busy, Beyond, Sought, Context
<1>2. /\ IsFiniteSet(UsedSlots') /\ IsFiniteSet(Used(j)')
      /\ IsFiniteSet(Busy') /\ IsFiniteSet(Beyond(j)') /\ IsFiniteSet(Sought')
  BY <1>1, FiniteContexts, FiniteSlots, NodeAssumption, FS_Subset
<1>3. QED BY <1>2, FS_CardinalityType

-----------------------------------------------------------------------------
(* The budget never shrinks, and grows with each new entry *)

\* The addresses sought are fewer afterwards by at most those that are lost.
LEMMA LossCounted ==
  Cardinality(Sought) <= Cardinality(Sought') + Cardinality(Sought \ Sought')
<1>0. PICK S, T : S = Sought /\ T = Sought'
  OBVIOUS
<1> SUFFICES Cardinality(S) <= Cardinality(T) + Cardinality(S \ T)
  BY <1>0
<1>f. IsFiniteSet(S) /\ IsFiniteSet(T)
  BY <1>0, SetFacts, SetFactsPrime, 0 \in Nat
<1>1. /\ IsFiniteSet(S \ T) /\ IsFiniteSet(T \cup (S \ T)) /\ IsFiniteSet(T \cap (S \ T))
      /\ Cardinality(T \cup (S \ T)) =
           Cardinality(T) + Cardinality(S \ T) - Cardinality(T \cap (S \ T))
  BY <1>f, FS_Difference, FS_Union, FS_Intersection
<1>2. T \cap (S \ T) = {} /\ S \in SUBSET (T \cup (S \ T))
  OBVIOUS
<1>3. Cardinality(T \cap (S \ T)) = 0
  BY <1>2, FS_EmptySet
<1>4. Cardinality(S) <= Cardinality(T \cup (S \ T))
  BY <1>1, <1>2, FS_Subset
<1>5. /\ Cardinality(T) \in Nat /\ Cardinality(S \ T) \in Nat /\ Cardinality(S) \in Nat
  BY <1>f, <1>1, FS_CardinalityType
<1>6. QED BY <1>1, <1>3, <1>4, <1>5

\* The terms of the budget before and after a step.
LEMMA BudgetTerms ==
  ASSUME Count, lost \in Nat, repeated \in Nat
  PROVE  \E s, t, l, r \in Nat :
           /\ s = Cardinality(Sought) /\ t = Cardinality(Sought')
           /\ r = Cardinality(Repeats) /\ s <= t + l
           /\ Budget = s + lost + repeated
           /\ lost' = lost + l /\ repeated' = repeated + r
           /\ Budget' = t + (lost + l) + (repeated + r)
<1>1. /\ Cardinality(Sought) \in Nat /\ Cardinality(Sought') \in Nat
      /\ Cardinality(Sought \ Sought') \in Nat /\ Cardinality(Repeats) \in Nat
  BY SetFacts, SetFactsPrime, 0 \in Nat
<1>2. /\ lost' = lost + Cardinality(Sought \ Sought')
      /\ repeated' = repeated + Cardinality(Repeats)
  BY DEF Count
<1>3. Budget' = Cardinality(Sought') + lost' + repeated'
  BY DEF Budget
<1>4. QED BY <1>1, <1>2, <1>3, LossCounted DEF Budget

LEMMA BudgetGrows ==
  ASSUME lost \in Nat, repeated \in Nat, Count
  PROVE  /\ lost' \in Nat /\ repeated' \in Nat
         /\ Budget \in Nat /\ Budget' \in Nat /\ Budget' >= Budget
BY BudgetTerms

LEMMA NewEntryBudget ==
  ASSUME TypeInv, lost \in Nat, repeated \in Nat, NEW c \in {Listener, Watcher},
         NewEntry(c), Count
  PROVE  Budget' >= Budget + 1
<1> DEFINE d == Dst(c)
<1>0. c \in Context /\ d \in Addr /\ pc'[c] = "scan" /\ pc[c] = "new" /\ 0 \in Nat
  BY DEF NewEntry, Goto, At, TypeInv, ControlOK, LocOK, LocalsFit, NoDstLabels, Dst, Context
<1>1. CASE d \in Sought \cup {Self}
  <2>1. c \in Repeats
    BY <1>0, <1>1 DEF Repeats
  <2>2. Cardinality(Repeats) >= 1
    <3>1. Cardinality(Repeats) # 0
      BY <1>0, <2>1, SetFacts, FS_EmptySet
    <3>2. QED BY <1>0, <3>1, SetFacts
  <2>3. QED BY <2>2, BudgetTerms
<1>2. CASE d \notin Sought \cup {Self}
  <2>1. Sought \cup {d} \subseteq Sought'
    <3>1. pnrs' = [pnrs EXCEPT ![d] = {loc[c].req}] /\ UNCHANGED <<hosts, copy>>
      BY DEF NewEntry, files
    <3>2. pc'[Watcher] = "write" <=> pc[Watcher] = "write"
      BY <1>0 DEF NewEntry, Goto, TypeInv, ControlOK
    <3>3. Named' = Named
      BY <3>1, <3>2 DEF Named
    <3>4. \A e \in Addr : pnrs[e] # {} => pnrs'[e] # {}
      BY <1>0, <3>1 DEF TypeInv, DataOK
    <3>5. pnrs'[d] # {}
      BY <1>0, <3>1 DEF TypeInv, DataOK
    <3>6. QED BY <1>0, <1>2, <3>3, <3>4, <3>5 DEF Sought
  <2>2. PICK S, T : S = Sought /\ T = Sought'
    OBVIOUS
  <2>3. Cardinality(S \cup {d}) = Cardinality(S) + 1
    BY <1>0, <1>2, <2>2, SetFacts, FS_AddElement
  <2>4. IsFiniteSet(T) /\ S \cup {d} \in SUBSET T
    BY <1>0, <2>1, <2>2, SetFactsPrime
  <2>5. Cardinality(S \cup {d}) <= Cardinality(T)
    BY <2>4, FS_Subset
  <2>6. Cardinality(Sought') >= Cardinality(Sought) + 1
    BY <1>0, <2>2, <2>3, <2>5, SetFacts
  <2>7. QED BY <2>6, BudgetTerms
<1>3. QED BY <1>1, <1>2

-----------------------------------------------------------------------------
(* What a step does to the slots and the searches *)

OthersRest(c) == \A o \in Context \ {c} : Same(o)

\* Context c neither starts a search nor comes further in one.
Rests(c) ==
  /\ OthersRest(c) /\ timer_ids' = timer_ids
  /\ pc'[c] \in BusyLabels => pc[c] \in BusyLabels
  /\ pc'[c] \in SearchLabels => Searching(c) /\ loc'[c].slot = loc[c].slot

\* It starts one, having made a new entry or handled an expiry.
Starts(c) ==
  /\ OthersRest(c) /\ timer_ids' = timer_ids
  /\ pc'[c] = "scan" /\ loc'[c].slot = 1 /\ ~Searching(c)
  /\ pc[c] \in BusyLabels \/ (c \in {Listener, Watcher} /\ NewEntry(c))

\* It goes past a slot in use.
Passes(c, k) ==
  /\ OthersRest(c) /\ timer_ids' = timer_ids
  /\ pc[c] = "scan" /\ pc'[c] = "scan"
  /\ loc[c].slot = k /\ timer_ids[k] # 0 /\ loc'[c].slot = k + 1

\* It takes a slot, which may be in use by now.
Takes(c, k) ==
  /\ OthersRest(c) /\ timer_ids' = [timer_ids EXCEPT ![k] = k]
  /\ pc[c] = "claim" /\ pc'[c] = "arm" /\ loc[c].slot = k

\* It frees a slot in use.
Frees(c, k) ==
  /\ OthersRest(c) /\ timer_ids' = [timer_ids EXCEPT ![k] = 0] /\ timer_ids[k] # 0
  /\ pc[c] = "reset" /\ pc'[c] = "expired"

Effect(c) ==
  \/ Rests(c) \/ Starts(c)
  \/ \E k \in Slot : Passes(c, k) \/ Takes(c, k) \/ Frees(c, k)

\* The step of a thread outside the search.
LEMMA ThreadEffect ==
  ASSUME TypeInv, NEW c \in {Listener, Watcher},
         RegisterNreq(c) \/ (c = Watcher /\ WatchRoutes) \/ (c = Listener /\ ListenForNreqs)
  PROVE  Effect(c)
<1> USE DEF At
<1>0. c \in Context /\ pc \in [Context -> PC] /\ loc \in [Context -> Locals]
  BY DEF Context, TypeInv, ControlOK
<1>1. Quiet(c)
  BY RegisterQuiet, ThreadQuiet
<1>2. OthersRest(c) /\ timer_ids' = timer_ids
  BY <1>1 DEF OthersRest, Quiet, slots
<1>3. CASE NewEntry(c)
  <2> DEFINE left == Detached(Dst(c))
             start == [left[c] EXCEPT !.slot = 1]
  <2>1. loc' = [left EXCEPT ![c] = start] /\ pc' = [pc EXCEPT ![c] = "scan"]
    BY <1>3 DEF NewEntry, Goto
  <2>a. DOMAIN left = Context
    BY DEF Detached
  <2>b. pc'[c] = "scan"
    BY <1>0, <2>1
  <2>c. loc'[c] = start
    <3> HIDE DEF left, start
    <3>1. QED BY <1>0, <2>1, <2>a
  <2>2. pc'[c] = "scan" /\ loc'[c] = [Detached(Dst(c))[c] EXCEPT !.slot = 1]
    BY <2>b, <2>c
  <2>3. Detached(Dst(c))[c] \in Locals
    BY <1>0 DEF Detached, Locals
  <2>4. loc'[c].slot = 1
    BY <2>2, <2>3 DEF Locals
  <2>5. QED BY <1>2, <1>3, <2>2, <2>4 DEF NewEntry, Starts, Effect, Searching, SearchLabels
<1>4. CASE ~NewEntry(c)
  <2>1. pc'[c] \notin BusyLabels
    <3>1. CASE RegisterNreq(c)
      BY <1>0, <1>4, <3>1
         DEF RegisterNreq, Lookup, ExistsInList, PushWalk, PushLink, PushFill, TornWalk,
             Registered, Finish, Goto, Die, BusyLabels
    <3>2. CASE c = Watcher /\ WatchRoutes
      BY <1>0, <3>2
         DEF WatchRoutes, RouteAdded, RoutePending, RouteRemoved, DropPnr, ForgetName,
             Snapshot, Truncate, WriteBack, Finish, Goto, BusyLabels
    <3>3. CASE c = Listener /\ ListenForNreqs
      BY <1>0, <3>3
         DEF ListenForNreqs, AnswerNreq, AcceptNrep, CacheName, AppendName, RespondToPnrs,
             DeleteAnswered, Finish, Goto, BusyLabels
    <3>4. QED BY <3>1, <3>2, <3>3
  <2>2. QED BY <1>2, <2>1 DEF Rests, Effect, BusyLabels, SearchLabels
<1>5. QED BY <1>3, <1>4

LEMMA SearchEffect ==
  ASSUME TypeInv, NEW c \in Context, Scan(c) \/ Exhausted(c) \/ Send(c)
  PROVE  Effect(c)
<1> USE DEF At
<1>0. pc \in [Context -> PC] /\ loc \in [Context -> Locals] /\ loc[c] \in Locals
  BY DEF TypeInv, ControlOK
<1>1. OthersRest(c) /\ timer_ids' = timer_ids
  BY ScanQuiet DEF OthersRest, Quiet, slots
<1>2. CASE Scan(c)
  <2> DEFINE k == loc[c].slot
  <2>1. k \in Slot
    BY <1>2 DEF Scan
  <2>2. CASE Goto(c, "claim") /\ UNCHANGED loc
    <3>1. pc'[c] = "claim" /\ pc[c] = "scan" /\ loc'[c] = loc[c]
      BY <1>2, <2>2, Shapes DEF Scan
    <3>2. QED BY <1>1, <3>1 DEF Effect, Rests, Searching, SearchLabels, BusyLabels
  <2>3. CASE timer_ids[k] # 0 /\ UNCHANGED pc /\ loc' = [loc EXCEPT ![c] = [loc[c] EXCEPT !.slot = k + 1]]
    <3>1. loc'[c].slot = k + 1
      BY <1>0, <2>3 DEF Locals
    <3>2. pc[c] = "scan" /\ pc'[c] = "scan"
      BY <1>2, <2>3 DEF Scan
    <3>3. Passes(c, k)
      BY <1>1, <2>3, <3>1, <3>2 DEF Passes
    <3>4. QED BY <2>1, <3>3 DEF Effect
  <2>4. QED BY <1>2, <2>2, <2>3 DEF Scan
<1>3. CASE Exhausted(c)
  BY <1>1, <1>3 DEF Exhausted, Die, Effect, Rests, Searching
<1>4. CASE Send(c)
  <2>1. pc'[c] = "idle"
    BY <1>4, Finished DEF Send
  <2>2. QED BY <1>1, <2>1 DEF Effect, Rests, SearchLabels, BusyLabels
<1>5. QED BY <1>2, <1>3, <1>4

LEMMA TimerEffect ==
  ASSUME TypeInv, NEW c \in Context, TimerStep(c)
  PROVE  Effect(c)
<1> USE DEF At
<1>1. OthersRest(c)
  BY TimerStepFrame DEF OthersRest
<1>2. CASE Claim(c)
  <2>1. loc[c].slot \in Slot
    BY <1>2, SlotOfLabel DEF Claim, SlotLabels
  <2>2. Takes(c, loc[c].slot)
    BY <1>1, <1>2, TimerStepFrame DEF Claim, Takes
  <2>3. QED BY <2>1, <2>2 DEF Effect
<1>3. CASE ResetSlot(c)
  <2>1. loc[c].slot \in Slot
    BY <1>3, SlotOfLabel DEF ResetSlot, SlotLabels
  <2>2. CASE timer_ids[loc[c].slot] # 0
    <3>1. Frees(c, loc[c].slot)
      BY <1>1, <1>3, <2>2, TimerStepFrame DEF ResetSlot, Frees, Die
    <3>2. QED BY <2>1, <3>1 DEF Effect
  <2>3. CASE timer_ids[loc[c].slot] = 0
    BY <1>1, <1>3, <2>3 DEF ResetSlot, Die, Effect, Rests, Searching
  <2>4. QED BY <2>2, <2>3
<1>4. CASE MakeTimer(c) \/ PutTimer(c) \/ GetTimer(c) \/ DeleteTimer(c)
  <2>1. pc'[c] \notin BusyLabels
    BY <1>4, TimerStepFrame DEF BusyLabels
  <2>2. timer_ids' = timer_ids
    BY <1>4 DEF MakeTimer, PutTimer, GetTimer, DeleteTimer, slots
  <2>3. QED BY <1>1, <2>1, <2>2 DEF Effect, Rests, BusyLabels, SearchLabels
<1>5. CASE LookupExpired(c)
  <2>1. pc[c] = "expired" /\ timer_ids' = timer_ids
    BY <1>5 DEF LookupExpired, slots
  <2>2. pc'[c] \in {"clean", "route", "expired"}
    BY <1>5, <2>1, TimerStepFrame
  <2>3. QED BY <1>1, <2>1, <2>2 DEF Effect, Rests, BusyLabels, SearchLabels
<1>6. QED BY <1>2, <1>3, <1>4, <1>5 DEF TimerStep

LEMMA HandlerEffect ==
  ASSUME TypeInv, NEW h \in Handler, CleanPnr(h) \/ RouteExists(h)
  PROVE  Effect(h)
<1> USE DEF At
<1>0. h \in Context /\ loc \in [Context -> Locals] /\ loc[h] \in Locals
  BY DEF Context, TypeInv, ControlOK
<1>1. OthersRest(h) /\ timer_ids' = timer_ids
  BY HandlerQuiet DEF OthersRest, Quiet, slots
<1>2. CASE CleanPnr(h)
  <2>1. pc'[h] = "idle"
    BY <1>0, <1>2 DEF CleanPnr, Goto, TypeInv, ControlOK
  <2>2. QED BY <1>1, <2>1 DEF Effect, Rests, BusyLabels, SearchLabels
<1>3. CASE RouteExists(h)
  <2>1. CASE Finish(h)
    <3>1. pc'[h] = "idle"
      BY <1>0, <2>1, Finished
    <3>2. QED BY <1>1, <3>1 DEF Effect, Rests, BusyLabels, SearchLabels
  <2>2. CASE Goto(h, "scan") /\ loc' = [loc EXCEPT ![h] = [loc[h] EXCEPT !.slot = 1]]
    <3>1. pc'[h] = "scan" /\ loc'[h] = [loc[h] EXCEPT !.slot = 1] /\ pc[h] = "route"
      BY <1>0, <1>3, <2>2, OthersSame DEF RouteExists, Goto
    <3>2. loc'[h].slot = 1
      BY <1>0, <3>1 DEF Locals
    <3>3. QED BY <1>1, <3>1, <3>2 DEF Effect, Starts, Searching, BusyLabels, SearchLabels
  <2>3. QED BY <1>3, <2>1, <2>2 DEF RouteExists
<1>4. QED BY <1>2, <1>3

\* Every step has one of the effects.
LEMMA StepEffect ==
  ASSUME TypeInv, Next
  PROVE  \E c \in Context : Effect(c)
<1> USE DEF At
<1>1. ASSUME NEW c \in Context, Run(c) PROVE Effect(c)
  <2>1. CASE c \in {Listener, Watcher} /\ RegisterNreq(c)
    BY <2>1, ThreadEffect
  <2>2. CASE StartTimer(c)
    BY <2>2, SearchEffect, TimerEffect DEF StartTimer, TimerStep
  <2>3. CASE (c = Watcher /\ WatchRoutes) \/ (c = Listener /\ ListenForNreqs)
    <3>1. c \in {Listener, Watcher}
      BY <2>3
    <3>2. QED BY <2>3, <3>1, ThreadEffect
  <2>4. CASE c \in Handler /\ TimeoutHandler(c)
    BY <2>4, HandlerEffect, TimerEffect DEF TimeoutHandler, TimerStep
  <2>5. QED BY <1>1, <2>1, <2>2, <2>3, <2>4 DEF Run
<1>2. ASSUME NEW c \in Context, NEW p \in {"added", "removed", "nreq", "nrep"}, NEW d, NEW q,
             Begin(c, p, d, q)
      PROVE  Effect(c)
  <2>1. loc' = [loc EXCEPT ![c] = [loc[c] EXCEPT !.dst = d, !.req = q]]
        /\ pc' = [pc EXCEPT ![c] = p]
    BY <1>2 DEF Begin, Goto, TypeInv, ControlOK
  <2>2. OthersRest(c) /\ pc'[c] = p
    BY <2>1, OthersSame DEF OthersRest
  <2>3. QED BY <1>2, <2>2 DEF Begin, slots, Effect, Rests, BusyLabels, SearchLabels
<1>3. Input => \E c \in Context : Effect(c)
  BY <1>2 DEF Input, ReadRoute, RecvNreq, RecvNrep, Context
<1>4. ASSUME NEW h \in Handler, NEW i \in Slot, Expire(h, i) PROVE Effect(h)
  <2>1. h \in Context
    BY DEF Context
  <2>2. loc' = [loc EXCEPT ![h] = [loc[h] EXCEPT !.slot = i, !.key = timer_ids[i]]]
        /\ pc' = [pc EXCEPT ![h] = "get"]
    BY <1>4, <2>1 DEF Expire, Goto, TypeInv, ControlOK
  <2>3. OthersRest(h) /\ pc'[h] = "get"
    BY <2>1, <2>2, OthersSame DEF OthersRest
  <2>4. QED BY <1>4, <2>3 DEF Expire, Effect, Rests, BusyLabels, SearchLabels
<1>5. ASSUME NEW h \in Handler, ExpireWild(h) PROVE Effect(h)
  BY <1>5 DEF ExpireWild, Die, slots, Effect, Rests, OthersRest, Same, Searching
<1>6. QED BY <1>1, <1>3, <1>4, <1>5 DEF Next, Expiry, Context

-----------------------------------------------------------------------------
(* Every effect keeps the counts *)

\* Set T is S, with less in it, or with x more or x less at most.
LEMMA Counting ==
  \A S, T, x : IsFiniteSet(S) =>
    /\ T \subseteq S => Cardinality(T) <= Cardinality(S)
    /\ T \subseteq S \cup {x} => Cardinality(T) <= Cardinality(S) + 1
    /\ x \in S /\ T \subseteq S \ {x} => Cardinality(T) + 1 <= Cardinality(S)
<1> SUFFICES ASSUME NEW S, NEW T, NEW x, IsFiniteSet(S)
             PROVE  /\ T \subseteq S => Cardinality(T) <= Cardinality(S)
                    /\ T \subseteq S \cup {x} => Cardinality(T) <= Cardinality(S) + 1
                    /\ x \in S /\ T \subseteq S \ {x} => Cardinality(T) + 1 <= Cardinality(S)
  OBVIOUS
<1>0. Cardinality(S) \in Nat
  BY FS_CardinalityType
<1>1. T \subseteq S => Cardinality(T) <= Cardinality(S)
  BY FS_Subset
<1>2. ASSUME T \subseteq S \cup {x} PROVE Cardinality(T) <= Cardinality(S) + 1
  <2>1. /\ IsFiniteSet(S \cup {x})
        /\ Cardinality(S \cup {x}) = Cardinality(S) \/ Cardinality(S \cup {x}) = Cardinality(S) + 1
    BY FS_AddElement
  <2>2. Cardinality(T) <= Cardinality(S \cup {x}) /\ Cardinality(T) \in Nat
    BY <1>2, <2>1, FS_Subset, FS_CardinalityType
  <2>3. QED BY <1>0, <2>1, <2>2
<1>3. ASSUME x \in S, T \subseteq S \ {x} PROVE Cardinality(T) + 1 <= Cardinality(S)
  <2>1. IsFiniteSet(S \ {x}) /\ Cardinality(S \ {x}) = Cardinality(S) - 1
    BY <1>3, FS_RemoveElement
  <2>2. Cardinality(T) <= Cardinality(S \ {x}) /\ Cardinality(T) \in Nat
    BY <1>3, <2>1, FS_Subset, FS_CardinalityType
  <2>3. QED BY <1>0, <2>1, <2>2
<1>4. QED BY <1>1, <1>2, <1>3

\* The terms are numbers, and the budget has not shrunk.
LEMMA Numbers ==
  ASSUME CountInv, Count, NEW j \in Slot
  PROVE  /\ IsFiniteSet(UsedSlots) /\ IsFiniteSet(Busy)
         /\ IsFiniteSet(Used(j)) /\ IsFiniteSet(Beyond(j))
         /\ Cardinality(UsedSlots) \in Nat /\ Cardinality(Busy) \in Nat
         /\ Cardinality(Used(j)) \in Nat /\ Cardinality(Beyond(j)) \in Nat
         /\ Cardinality(UsedSlots') \in Nat /\ Cardinality(Busy') \in Nat
         /\ Cardinality(Used(j)') \in Nat /\ Cardinality(Beyond(j)') \in Nat
         /\ j \in Nat /\ Budget \in Nat /\ Budget' \in Nat /\ Budget' >= Budget
<1>1. j \in Nat
  BY DEF Slot
<1>2. QED BY <1>1, SetFacts, SetFactsPrime, BudgetGrows DEF CountInv

LEMMA SlotRests ==
  ASSUME CountInv, Count, NEW j \in Slot, Used(j)' \subseteq Used(j), Beyond(j)' \subseteq Beyond(j)
  PROVE  SlotCount(j)'
<1>1. /\ Cardinality(Used(j)') <= Cardinality(Used(j))
      /\ Cardinality(Beyond(j)') <= Cardinality(Beyond(j))
  BY Numbers, Counting
<1>2. SlotCount(j)
  BY DEF CountInv
<1>3. SUFFICES ASSUME Used(j)' # {} \/ Beyond(j)' # {}
               PROVE  Cardinality(Used(j)') + Cardinality(Beyond(j)') + j <= Budget'
  BY DEF SlotCount
<1>4. Cardinality(Used(j)) + Cardinality(Beyond(j)) + j <= Budget
  BY <1>2, <1>3 DEF SlotCount
<1>5. QED BY <1>1, <1>4, Numbers

\* What is true of the contexts and of the slots that nothing happens to.
LEMMA Frame ==
  ASSUME NEW c \in Context, OthersRest(c), NEW j \in Slot
  PROVE  /\ Busy' \subseteq Busy \cup {c}
         /\ Beyond(j)' \subseteq Beyond(j) \cup {c}
         /\ pc'[c] \notin BusyLabels => Busy' \subseteq Busy \ {c}
         /\ pc'[c] \notin SearchLabels => Beyond(j)' \subseteq Beyond(j) \ {c}
         /\ timer_ids' = timer_ids => UsedSlots' = UsedSlots /\ Used(j)' = Used(j)
BY DEF OthersRest, Same, Busy, Beyond, Searching, UsedSlots, Used

LEMMA RestsCount ==
  ASSUME TypeInv, CountInv, Count, NEW c \in Context, Rests(c)
  PROVE  BusyCount' /\ \A j \in Slot : SlotCount(j)'
<1>0. 1 \in Slot
  BY NodeAssumption DEF Slot
<1>1. Busy' \subseteq Busy /\ UsedSlots' = UsedSlots
  BY <1>0, Frame DEF Rests, Busy
<1>2. Cardinality(Busy') <= Cardinality(Busy)
  BY <1>0, <1>1, Numbers, Counting
<1>3. BusyCount'
  BY <1>0, <1>1, <1>2, Numbers DEF CountInv, BusyCount
<1>4. ASSUME NEW j \in Slot PROVE SlotCount(j)'
  <2>1. Used(j)' = Used(j) /\ Beyond(j)' \subseteq Beyond(j)
    BY Frame DEF Rests, Beyond, Searching
  <2>2. QED BY <2>1, SlotRests
<1>5. QED BY <1>3, <1>4

LEMMA StartsCount ==
  ASSUME TypeInv, CountInv, Count, NEW c \in Context, Starts(c)
  PROVE  BusyCount' /\ \A j \in Slot : SlotCount(j)'
<1>0. 1 \in Slot
  BY NodeAssumption DEF Slot
<1>1. UsedSlots' = UsedSlots /\ Busy' \subseteq Busy \cup {c}
  BY <1>0, Frame DEF Starts
<1>2. BusyCount'
  <2>1. CASE pc[c] \in BusyLabels
    <3>1. Busy' \subseteq Busy
      BY <1>1, <2>1 DEF Busy
    <3>2. Cardinality(Busy') <= Cardinality(Busy)
      BY <1>0, <3>1, Numbers, Counting
    <3>3. QED BY <1>0, <1>1, <3>2, Numbers DEF CountInv, BusyCount
  <2>2. CASE c \in {Listener, Watcher} /\ NewEntry(c)
    <3>1. Budget' >= Budget + 1
      BY <2>2, NewEntryBudget DEF CountInv
    <3>2. Cardinality(Busy') <= Cardinality(Busy) + 1
      BY <1>0, <1>1, Numbers, Counting
    <3>3. QED BY <1>0, <1>1, <3>1, <3>2, Numbers DEF CountInv, BusyCount
  <2>3. QED BY <2>1, <2>2 DEF Starts
<1>3. ASSUME NEW j \in Slot PROVE SlotCount(j)'
  <2>1. Used(j)' = Used(j) /\ Beyond(j)' \subseteq Beyond(j) \cup {c}
    BY Frame DEF Starts
  <2>2. c \notin Beyond(j)'
    BY DEF Starts, Beyond, Slot
  <2>3. QED BY <2>1, <2>2, SlotRests
<1>4. QED BY <1>2, <1>3

\* The search comes past slot k: what is then beyond it was beyond the slot before,
\* which k itself was too.
LEMMA PassesCount ==
  ASSUME TypeInv, CountInv, Count, NEW c \in Context, NEW k \in Slot, Passes(c, k)
  PROVE  BusyCount' /\ \A j \in Slot : SlotCount(j)'
<1>1. UsedSlots' = UsedSlots /\ Busy' \subseteq Busy
  BY Frame DEF Passes, Busy, BusyLabels
<1>2. Cardinality(Busy') <= Cardinality(Busy)
  BY <1>1, Numbers, Counting
<1>3. BusyCount'
  BY <1>1, <1>2, Numbers DEF CountInv, BusyCount
<1>4. ASSUME NEW j \in Slot, j # k PROVE SlotCount(j)'
  <2>1. Used(j)' = Used(j) /\ Beyond(j)' \subseteq Beyond(j) \cup {c}
    BY Frame DEF Passes
  <2>2. c \in Beyond(j)' => c \in Beyond(j)
    <3>1. j \in Nat /\ k \in Nat
      BY DEF Slot
    <3>2. k + 1 > j => k > j
      BY <1>4, <3>1
    <3>3. QED BY <3>2 DEF Passes, Beyond, Searching, SearchLabels
  <2>3. QED BY <2>1, <2>2, SlotRests
<1>5. Used(k)' = Used(k) /\ Beyond(k)' \subseteq Beyond(k) \cup {c}
  BY Frame DEF Passes
<1>6. SlotCount(k)'
  <2>0. k \in Nat /\ k >= 1
    BY DEF Slot
  <2>1. CASE k = 1
    <3>1. Beyond(k)' \subseteq Busy
      BY <1>5 DEF Passes, Beyond, Busy, Searching, SearchLabels, BusyLabels
    <3>2. k \in UsedSlots /\ Used(k)' \subseteq UsedSlots \ {k}
      BY <1>5, <2>0 DEF Passes, Used, UsedSlots
    <3>3. /\ Cardinality(Beyond(k)') <= Cardinality(Busy)
          /\ Cardinality(Used(k)') + 1 <= Cardinality(UsedSlots)
      BY <3>1, <3>2, Numbers, Counting
    <3>4. Cardinality(Used(k)') + Cardinality(Beyond(k)') + k <= Budget'
      BY <2>1, <3>3, Numbers DEF CountInv, BusyCount
    <3>5. QED BY <3>4 DEF SlotCount
  <2>2. CASE k # 1
    <3> DEFINE i == k - 1
    <3>0. i \in Slot /\ i \in Nat /\ i < k /\ i + 1 = k
      BY <2>0, <2>2, NodeAssumption DEF Slot
    <3>1. c \in Beyond(i) /\ Beyond(k)' \subseteq Beyond(i)
      <4>1. c \in Beyond(i)
        BY <3>0 DEF Passes, Beyond, Searching, SearchLabels
      <4>2. Beyond(k) \subseteq Beyond(i)
        <5>1. ASSUME NEW o \in Context, loc[o].slot > k PROVE loc[o].slot > i
          BY <2>0, <3>0, <5>1 DEF TypeInv, ControlOK, Locals
        <5>2. QED BY <5>1 DEF Beyond
      <4>3. QED BY <1>5, <4>1, <4>2
    <3>2. k \in Used(i) /\ Used(k)' \subseteq Used(i) \ {k}
      <4>1. \A m \in Slot : m > k => m > i /\ m # k
        BY <2>0, <3>0 DEF Slot
      <4>2. QED BY <1>5, <3>0, <4>1 DEF Passes, Used
    <3>3. /\ Cardinality(Beyond(k)') <= Cardinality(Beyond(i))
          /\ Cardinality(Used(k)') + 1 <= Cardinality(Used(i))
      BY <3>0, <3>1, <3>2, Numbers, Counting
    <3>4. Cardinality(Used(i)) + Cardinality(Beyond(i)) + i <= Budget
      BY <3>0, <3>1 DEF CountInv, SlotCount
    <3>5. /\ Cardinality(Used(i)) \in Nat /\ Cardinality(Beyond(i)) \in Nat
          /\ Cardinality(Used(k)') \in Nat /\ Cardinality(Beyond(k)') \in Nat
          /\ Budget \in Nat /\ Budget' \in Nat /\ Budget' >= Budget
      BY <3>0, Numbers
    <3>6. Cardinality(Used(k)') + Cardinality(Beyond(k)') + k <= Budget'
      BY <3>0, <3>3, <3>4, <3>5
    <3>7. QED BY <3>6 DEF SlotCount
  <2>3. QED BY <2>1, <2>2
<1>7. QED BY <1>3, <1>4, <1>6

\* The search becomes a slot in use, unless it was in use by now.
LEMMA TakesCount ==
  ASSUME TypeInv, CountInv, Count, NEW c \in Context, NEW k \in Slot, Takes(c, k)
  PROVE  BusyCount' /\ \A j \in Slot : SlotCount(j)'
<1>0. timer_ids \in [Slot -> Key]
  BY DEF TypeInv, DataOK
<1>1. BusyCount'
  <2>1. UsedSlots' \subseteq UsedSlots \cup {k}
    BY <1>0 DEF Takes, UsedSlots
  <2>2. c \in Busy /\ Busy' \subseteq Busy \ {c}
    BY Frame DEF Takes, Busy, BusyLabels
  <2>3. /\ Cardinality(UsedSlots') <= Cardinality(UsedSlots) + 1
        /\ Cardinality(Busy') + 1 <= Cardinality(Busy)
    BY <2>1, <2>2, Numbers, Counting
  <2>4. QED BY <2>3, Numbers DEF CountInv, BusyCount
<1>2. ASSUME NEW j \in Slot PROVE SlotCount(j)'
  <2>1. Beyond(j)' \subseteq Beyond(j) \ {c}
    BY Frame DEF Takes, SearchLabels
  <2>2. CASE k > j
    <3>1. c \in Beyond(j)
      BY <2>2 DEF Takes, Beyond, Searching, SearchLabels
    <3>2. Used(j)' \subseteq Used(j) \cup {k}
      BY <1>0 DEF Takes, Used
    <3>3. /\ Cardinality(Used(j)') <= Cardinality(Used(j)) + 1
          /\ Cardinality(Beyond(j)') + 1 <= Cardinality(Beyond(j))
      BY <2>1, <3>1, <3>2, Numbers, Counting
    <3>4. Cardinality(Used(j)) + Cardinality(Beyond(j)) + j <= Budget
      BY <3>1 DEF CountInv, SlotCount
    <3>5. Cardinality(Used(j)') + Cardinality(Beyond(j)') + j <= Budget'
      BY <3>3, <3>4, Numbers
    <3>6. QED BY <3>5 DEF SlotCount
  <2>3. CASE ~(k > j)
    <3>1. Used(j)' \subseteq Used(j)
      BY <1>0, <2>3 DEF Takes, Used
    <3>2. QED BY <2>1, <3>1, SlotRests
  <2>4. QED BY <2>2, <2>3
<1>3. QED BY <1>1, <1>2

\* The slot in use becomes a handler that may search for one.
LEMMA FreesCount ==
  ASSUME TypeInv, CountInv, Count, NEW c \in Context, NEW k \in Slot, Frees(c, k)
  PROVE  BusyCount' /\ \A j \in Slot : SlotCount(j)'
<1>0. timer_ids \in [Slot -> Key]
  BY DEF TypeInv, DataOK
<1>1. BusyCount'
  <2>1. k \in UsedSlots /\ UsedSlots' \subseteq UsedSlots \ {k}
    BY <1>0 DEF Frees, UsedSlots
  <2>2. Busy' \subseteq Busy \cup {c}
    BY Frame DEF Frees
  <2>3. /\ Cardinality(UsedSlots') + 1 <= Cardinality(UsedSlots)
        /\ Cardinality(Busy') <= Cardinality(Busy) + 1
    BY <2>1, <2>2, Numbers, Counting
  <2>4. QED BY <2>3, Numbers DEF CountInv, BusyCount
<1>2. ASSUME NEW j \in Slot PROVE SlotCount(j)'
  <2>1. Beyond(j)' \subseteq Beyond(j)
    BY Frame DEF Frees, SearchLabels
  <2>2. Used(j)' \subseteq Used(j)
    BY <1>0 DEF Frees, Used
  <2>3. QED BY <2>1, <2>2, SlotRests
<1>3. QED BY <1>1, <1>2

-----------------------------------------------------------------------------
(* The theorems *)

\* The process ends for want of a slot only with a search beyond the last.
LEMMA ExhaustedSearch ==
  ASSUME TypeInv, Next, status' = "exhausted"
  PROVE  Beyond(N_TIMERS)' # {}
<1> USE DEF At, Die
<1>1. ASSUME NEW c \in Context, Run(c) PROVE Exhausted(c)
  <2>1. CASE c \in {Listener, Watcher} /\ RegisterNreq(c)
    BY <2>1 DEF RegisterNreq, Lookup, ExistsInList, PushWalk, PushLink, PushFill, TornWalk,
                NewEntry
  <2>2. CASE StartTimer(c)
    BY <2>2 DEF StartTimer, Scan, Claim, MakeTimer, PutTimer, Send
  <2>3. CASE (c = Watcher /\ WatchRoutes) \/ (c = Listener /\ ListenForNreqs)
    BY <2>3 DEF WatchRoutes, RouteAdded, RoutePending, RouteRemoved, DropPnr, ForgetName,
                Snapshot, Truncate, WriteBack, ListenForNreqs, AnswerNreq, AcceptNrep,
                CacheName, AppendName, RespondToPnrs, DeleteAnswered
  <2>4. CASE c \in Handler /\ TimeoutHandler(c)
    BY <2>4 DEF TimeoutHandler, GetTimer, DeleteTimer, ResetSlot, LookupExpired, CleanPnr,
                RouteExists
  <2>5. QED BY <1>1, <2>1, <2>2, <2>3, <2>4 DEF Run
<1>2. \E c \in Context : Exhausted(c)
  <2>1. ~Input
    BY DEF Input, ReadRoute, RecvNrep, RecvNreq, Begin
  <2>2. \A i \in Slot : ~Expiry(i)
    BY DEF Expiry, Expire
  <2>3. \A h \in Handler : ~ExpireWild(h)
    BY DEF ExpireWild
  <2>4. QED BY <1>1, <2>1, <2>2, <2>3 DEF Next
<1>3. QED BY <1>2 DEF Exhausted, Beyond, Searching, SearchLabels

LEMMA CountStep ==
  TypeInv /\ CountInv /\ [Next /\ Count]_<<vars, counts>> => CountInv'
<1>1. CASE TypeInv /\ CountInv /\ UNCHANGED <<vars, counts>>
  BY <1>1 DEF vars, counts, files, slots, CountInv, BusyCount, SlotCount, Budget, Sought,
              Named, UsedSlots, Used, Busy, Beyond, Searching
<1>2. ASSUME TypeInv, CountInv, Next, Count PROVE CountInv'
  <2>1. PICK c \in Context : Effect(c)
    BY <1>2, StepEffect
  <2>2. BusyCount' /\ \A j \in Slot : SlotCount(j)'
    BY <1>2, <2>1, RestsCount, StartsCount, PassesCount, TakesCount, FreesCount DEF Effect
  <2>3. lost' \in Nat /\ repeated' \in Nat
    BY <1>2, BudgetGrows DEF CountInv
  <2>4. QED BY <1>2, <2>2, <2>3, ExhaustedSearch DEF CountInv
<1>3. QED BY <1>1, <1>2

LEMMA CountInit == CountedInit => CountInv
<1> SUFFICES ASSUME CountedInit PROVE CountInv
  OBVIOUS
<1>1. UsedSlots = {} /\ Busy = {} /\ \A j : Used(j) = {} /\ Beyond(j) = {}
  BY DEF CountedInit, Init, UsedSlots, Used, Busy, Beyond, Searching, SearchLabels, BusyLabels
<1>2. Cardinality(UsedSlots) = 0 /\ Cardinality(Busy) = 0
  BY <1>1, FS_EmptySet
<1>3. Budget \in Nat
  BY SetFacts, 0 \in Nat DEF CountedInit, Budget
<1>4. BusyCount /\ \A j \in Slot : SlotCount(j)
  BY <1>1, <1>2, <1>3 DEF BusyCount, SlotCount
<1>5. QED BY <1>4 DEF CountedInit, Init, CountInv

LEMMA CountedRuns == CountedSpec => Spec
<1>1. CountedInit => Init
  BY DEF CountedInit
<1>2. [Next /\ Count]_<<vars, counts>> => [Next]_vars
  OBVIOUS
<1>3. QED BY <1>1, <1>2, PTL DEF CountedSpec, Spec

LEMMA CountInvariant == CountedSpec => []CountInv
BY CountInit, CountStep, CountedRuns, TypeInvariant, PTL DEF CountedSpec

\* In every interleaving there are no more slots in use than names sought, requests
\* or names that were lost, and registrations that were repeated.
THEOREM SlotsAlwaysBudgeted == CountedSpec => []SlotsBudgeted
<1>1. CountInv => SlotsBudgeted
  <2>1. /\ Cardinality(UsedSlots) \in Nat /\ Cardinality(Busy) \in Nat
        /\ Cardinality(Sought) \in Nat
    BY SetFacts, 0 \in Nat
  <2>2. QED BY <2>1 DEF CountInv, BusyCount, SlotsBudgeted, Budget
<1>2. QED BY <1>1, CountInvariant, PTL

\* For any number of slots and in every interleaving, a search for a free slot fails
\* only when these come to more than there are slots.
THEOREM ExhaustionsExplained == CountedSpec => []ExhaustionExplained
<1>1. CountInv => ExhaustionExplained
  <2> SUFFICES ASSUME CountInv, status = "exhausted" PROVE N_TIMERS < Budget
    BY DEF ExhaustionExplained
  <2>1. N_TIMERS \in Slot /\ N_TIMERS \in Nat
    BY NodeAssumption DEF Slot
  <2>2. Cardinality(Used(N_TIMERS)) + Cardinality(Beyond(N_TIMERS)) + N_TIMERS <= Budget
    BY <2>1 DEF CountInv, SlotCount
  <2>3. /\ Cardinality(Used(N_TIMERS)) \in Nat /\ Cardinality(Beyond(N_TIMERS)) \in Nat
        /\ IsFiniteSet(Beyond(N_TIMERS)) /\ Cardinality(Sought) \in Nat
    BY <2>1, SetFacts
  <2>4. Cardinality(Beyond(N_TIMERS)) # 0
    BY <2>3, FS_EmptySet DEF CountInv
  <2>5. Budget \in Nat
    BY <2>3 DEF CountInv, Budget
  <2>6. QED BY <2>1, <2>2, <2>3, <2>4, <2>5
<1>2. QED BY <1>1, CountInvariant, PTL

=============================================================================
