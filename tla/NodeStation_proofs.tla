-------------------------- MODULE NodeStation_proofs --------------------------
(***************************************************************************)
(* A handler of NodeThreads that nothing overlaps is a step of Station.    *)
(***************************************************************************)
EXTENDS NodeStation, NodeThreads_proofs

-----------------------------------------------------------------------------
(* How far a context is that has been alone since the station last rested: *)
(* what it has changed of the station as it was then                       *)

Unmoved == hosts = shown.hosts /\ pnrs = shown.pnrs /\ SlotTimers = shown.timers

UnmovedLabels ==
  {"added", "pending", "removed", "drop", "nreq", "nrep", "cache", "append",
   "reg", "exists", "push", "link", "new", "get", "del"}

WatcherLabels ==
  {"added", "pending", "removed", "drop", "forget", "snap", "trunc", "write"}

ListenerLabels ==
  {"nreq", "nrep", "cache", "append", "respond", "answered",
   "exists", "push", "link", "fill"}

\* Whose label it is. A thread that registers: for whom.
WhoAt(c) ==
  LET l == loc[c] IN
  /\ pc[c] \in WatcherLabels => c = Watcher /\ l.req = Local
  /\ pc[c] \in ListenerLabels => c = Listener
  /\ pc[c] \in {"nreq", "exists", "push", "link", "fill"} => l.req \in Requester
  /\ pc[c] \in {"reg", "new"} => \/ c = Watcher /\ l.req = Local /\ pnrs[l.dst] = {}
                                 \/ c = Listener /\ l.req \in Requester
  /\ pc[c] \in {"get", "del", "reset", "expired", "clean", "route"} => c \in Handler
  /\ pc[c] = "send" => c # Listener

\* What the context has found out and still holds.
Found(c) ==
  LET l == loc[c] IN
  /\ pc[c] \in UnmovedLabels => Unmoved
  /\ pc[c] \in {"pending", "reg", "exists", "push", "link", "fill", "new", "snap", "trunc",
                "cache", "append"} => l.dst \notin hosts
  /\ pc[c] \in {"nrep", "cache", "append", "respond", "answered"} => l.dst \in asked
  /\ pc[c] \in {"exists", "push", "link"} => pnrs[l.dst] # {} /\ l.held
  /\ pc[c] = "link" => l.seen = pnrs[l.dst]
  /\ pc[c] = "new" => pnrs[l.dst] = {}
  /\ pc[c] = "del" => l.dst = timers[l.slot]

\* The threads' handlers, but for the start of a timer.
ThreadDone(c) ==
  LET l == loc[c] IN
  /\ pc[c] = "fill" =>
       /\ hosts = shown.hosts /\ SlotTimers = shown.timers
       /\ shown.pnrs[l.dst] # {}
       /\ pnrs = [shown.pnrs EXCEPT ![l.dst] = @ \cup {l.req}]
  /\ pc[c] \in {"forget", "snap", "trunc", "write"} =>
       /\ SlotTimers = shown.timers
       /\ pnrs = [shown.pnrs EXCEPT ![l.dst] = {}]
  /\ pc[c] \in {"forget", "snap", "trunc"} => hosts = shown.hosts
  /\ pc[c] = "trunc" => copy = hosts
  /\ pc[c] = "write" => hosts = {} /\ copy = shown.hosts
  /\ pc[c] \in {"respond", "answered"} =>
       /\ pnrs = shown.pnrs /\ SlotTimers = shown.timers
       /\ l.dst \notin shown.hosts /\ hosts = shown.hosts \cup {l.dst}

\* timeout_handler until it starts a timer.
ExpiryDone(c) ==
  LET l == loc[c] IN
  /\ pc[c] \in {"reset", "expired", "clean", "route"} =>
       /\ hosts = shown.hosts /\ pnrs = shown.pnrs
       /\ l.slot \in Slot /\ l.dst = shown.timers[l.slot]
       /\ \A j \in Slot \ {l.slot} : SlotTimers[j] = shown.timers[j]
  /\ pc[c] \in {"expired", "clean", "route"} => timer_ids[l.slot] = 0
  /\ pc[c] = "clean" => pnrs[l.dst] = {}
  /\ pc[c] = "route" => pnrs[l.dst] # {}

\* The slots from which a timer is started: those of the station at rest, in
\* a handler without the one that has expired.
Bases(c) ==
  IF c \in Handler
    THEN {[shown.timers EXCEPT ![k] = None] : k \in {k \in Slot : shown.timers[k] = loc[c].dst}}
    ELSE {shown.timers}

\* Slots B, of which the lower ones are taken, are searched for the timer of a
\* request that is new, or that is repeated.
Starting(c, B) ==
  LET l == loc[c] IN
  /\ hosts = shown.hosts
  /\ \A j \in Slot : j < l.slot => B[j] # None
  /\ \/ /\ c \in Handler /\ pnrs = shown.pnrs /\ pnrs[l.dst] # {}
     \/ /\ \/ c = Watcher /\ l.req = Local
           \/ c = Listener /\ l.req \in Requester
        /\ l.dst \notin hosts /\ shown.pnrs[l.dst] = {}
        /\ pnrs = [shown.pnrs EXCEPT ![l.dst] = {l.req}]

Searching(c) == \E B \in Bases(c) : Starting(c, B) /\ SlotTimers = B

Chosen(c) ==
  LET i == loc[c].slot IN
  \E B \in Bases(c) :
    /\ Starting(c, B)
    /\ i \in Slot /\ B[i] = None /\ timer_ids[i] = i
    /\ \A j \in Slot \ {i} : SlotTimers[j] = B[j]

Started(c) ==
  LET i == loc[c].slot IN
  \E B \in Bases(c) :
    /\ Starting(c, B)
    /\ i \in Slot /\ B[i] = None /\ SlotTimers = [B EXCEPT ![i] = loc[c].dst]

TimerDone(c) ==
  /\ pc[c] \in {"scan", "claim"} => Searching(c)
  /\ pc[c] = "claim" => timer_ids[loc[c].slot] = 0
  /\ pc[c] \in {"arm", "put"} => Chosen(c)
  /\ pc[c] = "send" =>
       \/ Started(c)
       \/ c = Watcher /\ Unmoved /\ pnrs[loc[c].dst] # {} /\ loc[c].dst \notin hosts

Progress(c) ==
  /\ asked = shown.asked
  /\ WhoAt(c) /\ Found(c) /\ ThreadDone(c) /\ ExpiryDone(c) /\ TimerDone(c)

ShownOK ==
  /\ shown \in [hosts : SUBSET Addr, pnrs : [Addr -> SUBSET (Requester \cup {Local})],
                timers : [Slot -> Addr \cup {None}], asked : SUBSET Addr, up : BOOLEAN]
  /\ status = "running" => shown.up = TRUE

SoloInv ==
  /\ ShownOK
  /\ Resting => shown = Present
  /\ ~Resting /\ Overlap => mixed
  /\ ~Resting /\ ~mixed /\ ~raced /\ ~early =>
       \A c \in Context : pc[c] # "idle" => Progress(c)

-----------------------------------------------------------------------------
(* One step of a context that is alone *)

\* The station rests now, having taken a step of Station or none.
Ends == shown' = Present' => Atomic!Next \/ shown' = shown

Outcome(c) ==
  \/ Spoilt'
  \/ pc'[c] # "idle" /\ status' = "running" /\ (shown' = shown => Progress(c)')
  \/ (pc'[c] = "idle" \/ status' # "running") /\ Ends

LEMMA TimersFrame ==
  ASSUME UNCHANGED <<timers, timer_ids>>
  PROVE  SlotTimers' = SlotTimers
BY DEF SlotTimers

\* Nothing has changed in the end.
LEMMA EndsUnmoved ==
  ASSUME ShownOK, Unmoved, asked = shown.asked, status = "running",
         UNCHANGED <<hosts, pnrs, timers, timer_ids, asked, status>>
  PROVE  Ends
<1>1. SlotTimers' = SlotTimers
  BY TimersFrame
<1>2. shown = [hosts |-> shown.hosts, pnrs |-> shown.pnrs, timers |-> shown.timers,
               asked |-> shown.asked, up |-> TRUE]
  BY DEF ShownOK
<1>3. QED BY <1>1, <1>2 DEF Unmoved, Ends, Present

LEMMA LookupSolo ==
  ASSUME TypeInv, ShownOK, NEW c \in {Listener, Watcher}, Lookup(c), Progress(c)
  PROVE  Outcome(c)
<1> USE DEF At, Dst
<1>0. c \in Context /\ loc[c] \in Locals
  BY DEF Context, TypeInv, ControlOK
<1>1. SlotTimers' = SlotTimers /\ UNCHANGED <<hosts, pnrs, asked, status>>
  BY TimersFrame DEF Lookup, files, slots
<1>2. CASE pnrs[loc[c].dst] # {} /\ Goto(c, "exists") /\ loc' = [loc EXCEPT ![c].held = TRUE]
  <2>1. pc'[c] = "exists" /\ loc'[c] = [loc[c] EXCEPT !.held = TRUE]
    BY <1>0, <1>2 DEF Goto, TypeInv, ControlOK
  <2>2. loc'[c].dst = loc[c].dst /\ loc'[c].req = loc[c].req /\ loc'[c].held
    BY <1>0, <2>1 DEF Locals
  <2>3. shown' = shown => Progress(c)'
    BY <1>0, <1>1, <1>2, <2>1, <2>2
       DEF Lookup, Progress, WhoAt, Found, ThreadDone, ExpiryDone, TimerDone, Unmoved,
           UnmovedLabels, WatcherLabels, ListenerLabels
  <2>4. QED BY <1>1, <2>1, <2>3 DEF Outcome, Lookup
<1>3. CASE pnrs[loc[c].dst] = {} /\ Goto(c, "new") /\ loc' = loc
  <2>1. pc'[c] = "new"
    BY <1>0, <1>3 DEF Goto, TypeInv, ControlOK
  <2>3. shown' = shown => Progress(c)'
    BY <1>0, <1>1, <1>3, <2>1
       DEF Lookup, Progress, WhoAt, Found, ThreadDone, ExpiryDone, TimerDone, Unmoved,
           UnmovedLabels, WatcherLabels, ListenerLabels
  <2>4. QED BY <1>1, <2>1, <2>3 DEF Outcome, Lookup
<1>4. QED BY <1>2, <1>3 DEF Lookup

LEMMA ExistsSolo ==
  ASSUME TypeInv, ShownOK, NEW c \in {Listener, Watcher}, ExistsInList(c), Progress(c)
  PROVE  Outcome(c)
<1> USE DEF At, Dst
<1>0. c \in Context /\ pc[c] = "exists" /\ status = "running"
  BY DEF Context, ExistsInList
<1>1. SlotTimers' = SlotTimers /\ UNCHANGED <<hosts, pnrs, timers, timer_ids, asked, status>>
  BY TimersFrame DEF ExistsInList, files, slots
<1>2. CASE Goto(c, "push") /\ loc' = loc
  <2>1. pc'[c] = "push"
    BY <1>0, <1>2 DEF Goto, TypeInv, ControlOK
  <2>2. shown' = shown => Progress(c)'
    BY <1>0, <1>1, <1>2, <2>1
       DEF Progress, WhoAt, Found, ThreadDone, ExpiryDone, TimerDone, Unmoved,
           UnmovedLabels, WatcherLabels, ListenerLabels
  <2>3. QED BY <1>0, <1>1, <2>1, <2>2 DEF Outcome
<1>3. CASE Registered(c)
  <2>1. c = Listener /\ Unmoved /\ asked = shown.asked
    BY <1>0 DEF Progress, WhoAt, Found, ListenerLabels, UnmovedLabels
  <2>2. pc'[c] = "idle"
    BY <1>0, <1>3, <2>1, NodeAssumption, Finished DEF Registered
  <2>3. QED BY <1>0, <1>1, <2>1, <2>2, EndsUnmoved DEF Outcome
<1>4. QED BY <1>2, <1>3 DEF ExistsInList

LEMMA PushSolo ==
  ASSUME TypeInv, ShownOK, NEW c \in {Listener, Watcher}, PushWalk(c) \/ PushLink(c), Progress(c)
  PROVE  Outcome(c)
<1> USE DEF At, Dst
<1>0. c \in Context /\ loc[c] \in Locals /\ LocalsFit(pc[c], loc[c]) /\ DataOK
  BY DEF Context, TypeInv, ControlOK, LocOK
<1>1. SlotTimers' = SlotTimers /\ UNCHANGED <<hosts, asked, status>> /\ status = "running"
  BY TimersFrame DEF PushWalk, PushLink, files, slots
<1>2. CASE PushWalk(c)
  <2>1. pc'[c] = "link" /\ loc'[c] = [loc[c] EXCEPT !.seen = pnrs[loc[c].dst]]
    BY <1>0, <1>2 DEF PushWalk, Goto, TypeInv, ControlOK
  <2>2. /\ loc'[c].dst = loc[c].dst /\ loc'[c].req = loc[c].req /\ loc'[c].held = loc[c].held
        /\ loc'[c].seen = pnrs[loc[c].dst]
    BY <1>0, <2>1 DEF Locals
  <2>3. pc[c] = "push" /\ pnrs' = pnrs
    BY <1>2 DEF PushWalk
  <2>4. shown' = shown => Progress(c)'
    BY <1>0, <1>1, <2>1, <2>2, <2>3
       DEF Progress, WhoAt, Found, ThreadDone, ExpiryDone, TimerDone, Unmoved,
           UnmovedLabels, WatcherLabels, ListenerLabels
  <2>5. QED BY <1>1, <2>1, <2>4 DEF Outcome
<1>3. CASE PushLink(c)
  <2>1. pc[c] = "link" /\ pc'[c] = "fill" /\ loc' = loc
    BY <1>0, <1>3 DEF PushLink, Goto, TypeInv, ControlOK
  <2>2. Unmoved /\ loc[c].seen = pnrs[loc[c].dst] /\ loc[c].held /\ loc[c].dst \in Addr
    BY <1>0, <2>1 DEF Progress, Found, UnmovedLabels, LocalsFit, NoDstLabels
  <2>3. pnrs' = [shown.pnrs EXCEPT ![loc[c].dst] = @ \cup {loc[c].req}]
    BY <1>0, <1>3, <2>2 DEF PushLink, Unmoved, DataOK
  <2>4. shown' = shown => Progress(c)'
    BY <1>0, <1>1, <2>1, <2>2, <2>3
       DEF Progress, WhoAt, Found, ThreadDone, ExpiryDone, TimerDone, Unmoved,
           UnmovedLabels, WatcherLabels, ListenerLabels
  <2>5. QED BY <1>1, <2>1, <2>4 DEF Outcome
<1>4. QED BY <1>2, <1>3

\* One more waits for a name that has been requested.
LEMMA FillSolo ==
  ASSUME TypeInv, ShownOK, NEW c \in {Listener, Watcher}, PushFill(c), Progress(c)
  PROVE  Outcome(c)
<1> USE DEF At, Dst
<1>0. c \in Context /\ pc[c] = "fill" /\ status = "running" /\ LocalsFit(pc[c], loc[c])
  BY DEF Context, PushFill, TypeInv, ControlOK, LocOK
<1>1. SlotTimers' = SlotTimers /\ UNCHANGED <<hosts, pnrs, asked, status>>
  BY TimersFrame DEF PushFill, files, slots
<1>2. PICK d \in Addr : d = loc[c].dst
  BY <1>0 DEF LocalsFit, NoDstLabels
<1>3. PICK q \in Requester : q = loc[c].req
  BY <1>0 DEF Progress, WhoAt
<1>4. /\ c = Listener /\ asked = shown.asked /\ hosts = shown.hosts /\ SlotTimers = shown.timers
      /\ d \notin hosts /\ shown.pnrs[d] # {} /\ pnrs = [shown.pnrs EXCEPT ![d] = @ \cup {q}]
  BY <1>0, <1>2, <1>3 DEF Progress, WhoAt, ListenerLabels, ThreadDone, Found
<1>5. pc'[c] = "idle"
  BY <1>0, <1>4, NodeAssumption, Finished DEF PushFill, Registered
<1>6. ASSUME shown' = Present' PROVE Atomic!Wanted(d, q)
  BY <1>0, <1>1, <1>4, <1>6 DEF Present, ShownOK, Atomic!Wanted, Atomic!Register
<1>7. QED BY <1>0, <1>5, <1>6 DEF Outcome, Ends, Atomic!Next, ShownOK

LEMMA NewEntrySolo ==
  ASSUME TypeInv, ShownOK, NEW c \in {Listener, Watcher}, NewEntry(c), Progress(c)
  PROVE  Outcome(c)
<1> USE DEF At, Dst
<1>0. c \in Context /\ loc[c] \in Locals /\ pc[c] = "new" /\ status = "running"
      /\ LocalsFit(pc[c], loc[c])
  BY DEF Context, NewEntry, TypeInv, ControlOK, LocOK
<1>1. SlotTimers' = SlotTimers /\ UNCHANGED <<hosts, asked, status>>
  BY TimersFrame DEF NewEntry, files, slots
<1>2. pc'[c] = "scan" /\ loc'[c] = [Detached(loc[c].dst)[c] EXCEPT !.slot = 1]
  BY <1>0 DEF NewEntry, Goto, Detached, TypeInv, ControlOK
<1>3. loc'[c].dst = loc[c].dst /\ loc'[c].req = loc[c].req /\ loc'[c].slot = 1
  BY <1>0, <1>2 DEF Locals, Detached
<1>4. /\ Unmoved /\ loc[c].dst \notin hosts /\ pnrs[loc[c].dst] = {}
      /\ pnrs' = [shown.pnrs EXCEPT ![loc[c].dst] = {loc[c].req}]
      /\ \/ c = Watcher /\ loc[c].req = Local
         \/ c = Listener /\ loc[c].req \in Requester
  BY <1>0 DEF NewEntry, Progress, WhoAt, Found, Unmoved, UnmovedLabels
<1>5. ASSUME shown' = shown PROVE Searching(c)'
  <2>1. Starting(c, shown.timers)'
    BY <1>1, <1>3, <1>4, <1>5 DEF Starting, Unmoved, Slot
  <2>2. shown.timers' = SlotTimers' /\ (shown.timers \in Bases(c))'
    BY <1>1, <1>4, <1>5, NodeAssumption DEF Bases, Unmoved
  <2>3. QED BY <2>1, <2>2 DEF Searching
<1>6. shown' = shown => Progress(c)'
  BY <1>1, <1>2, <1>5
     DEF Progress, WhoAt, Found, ThreadDone, ExpiryDone, TimerDone,
         UnmovedLabels, WatcherLabels, ListenerLabels
<1>7. QED BY <1>0, <1>1, <1>2, <1>6 DEF Outcome

LEMMA RegisterSolo ==
  ASSUME TypeInv, ShownOK, NEW c \in {Listener, Watcher}, RegisterNreq(c), Progress(c)
  PROVE  Outcome(c)
<1>1. TornWalk(c) => Outcome(c)
  BY DEF TornWalk, Die, Outcome, Spoilt
<1>2. QED
  BY <1>1, LookupSolo, ExistsSolo, PushSolo, FillSolo, NewEntrySolo DEF RegisterNreq

-----------------------------------------------------------------------------
(* The start of a timer *)

Alone(c) == \A o \in Context \ {c} : pc[o] = "idle"

\* While somebody alone looks for a slot, one that is taken has a timer.
LEMMA TakenTimed ==
  ASSUME TypeInv, Tidy, SlotsAccounted, NEW c \in Context, Alone(c), pc[c] = "scan",
         NEW i \in Slot, timer_ids[i] # 0
  PROVE  SlotTimers[i] # None
<1>1. \A o \in Context : pc[o] \in {"idle", "scan"}
  BY DEF Alone
<1>2. armed[i] > 0 /\ armed[i] \in {0, 1}
  BY <1>1 DEF SlotsAccounted, Tidy, SlotTidy
<1>3. armed[i] = 1
  BY <1>2
<1>4. timers[i] # None
  BY <1>1, <1>3 DEF Tidy, SlotTidy, Putting
<1>5. QED BY <1>4 DEF SlotTimers

LEMMA BasesFrame ==
  ASSUME NEW c, shown' = shown, loc'[c].dst = loc[c].dst
  PROVE  Bases(c)' = Bases(c)
BY DEF Bases

LEMMA BasesType ==
  ASSUME ShownOK, NEW c
  PROVE  \A B \in Bases(c) : B \in [Slot -> Addr \cup {None}]
BY DEF Bases, ShownOK

\* What a step of the search keeps.
LEMMA StartingFrame ==
  ASSUME NEW c, NEW B, Starting(c, B), UNCHANGED <<shown, hosts, pnrs>>,
         loc'[c].dst = loc[c].dst, loc'[c].req = loc[c].req, loc'[c].slot = loc[c].slot
  PROVE  Starting(c, B)'
BY DEF Starting

LEMMA ScanSolo ==
  ASSUME TypeInv, Tidy, SlotsAccounted, ShownOK, NEW c \in Context, Alone(c), Scan(c), Progress(c)
  PROVE  Outcome(c)
<1> USE DEF At, Dst
<1>0. /\ loc[c] \in Locals /\ pc[c] = "scan" /\ status = "running" /\ loc[c].slot \in Slot
      /\ asked = shown.asked
  BY DEF Scan, TypeInv, ControlOK, Progress
<1>1. SlotTimers' = SlotTimers /\ UNCHANGED <<hosts, pnrs, asked, status, timer_ids>>
  BY TimersFrame DEF Scan, files, slots
<1>2. PICK B \in Bases(c) : Starting(c, B) /\ SlotTimers = B
  BY <1>0 DEF Progress, TimerDone, Searching
<1>3. CASE timer_ids[loc[c].slot] = 0 /\ Goto(c, "claim") /\ loc' = loc
  <2>1. pc'[c] = "claim"
    BY <1>3 DEF Goto, TypeInv, ControlOK
  <2>2. ASSUME shown' = shown PROVE Searching(c)'
    BY <1>1, <1>2, <1>3, <2>2, BasesFrame, StartingFrame DEF Searching
  <2>3. shown' = shown => Progress(c)'
    BY <1>0, <1>1, <1>3, <2>1, <2>2
       DEF Progress, WhoAt, Found, ThreadDone, ExpiryDone, TimerDone,
           UnmovedLabels, WatcherLabels, ListenerLabels
  <2>4. QED BY <1>0, <1>1, <2>1, <2>3 DEF Outcome
<1>4. CASE /\ timer_ids[loc[c].slot] # 0 /\ loc' = [loc EXCEPT ![c].slot = loc[c].slot + 1]
           /\ pc' = pc
  <2>1. loc'[c] = [loc[c] EXCEPT !.slot = loc[c].slot + 1]
    BY <1>4 DEF TypeInv, ControlOK
  <2>2. loc'[c].dst = loc[c].dst /\ loc'[c].req = loc[c].req /\ loc'[c].slot = loc[c].slot + 1
    BY <1>0, <2>1 DEF Locals
  <2>3. B[loc[c].slot] # None
    BY <1>0, <1>2, <1>4, TakenTimed
  <2>4. \A j \in Slot : j < loc'[c].slot => j < loc[c].slot \/ j = loc[c].slot
    BY <1>0, <2>2 DEF Slot
  <2>5. ASSUME shown' = shown PROVE Starting(c, B)'
    BY <1>1, <1>2, <2>2, <2>3, <2>4, <2>5 DEF Starting
  <2>6. ASSUME shown' = shown PROVE Searching(c)'
    BY <1>1, <1>2, <2>2, <2>5, <2>6, BasesFrame DEF Searching
  <2>7. shown' = shown => Progress(c)'
    BY <1>0, <1>1, <1>4, <2>6
       DEF Progress, WhoAt, Found, ThreadDone, ExpiryDone, TimerDone,
           UnmovedLabels, WatcherLabels, ListenerLabels
  <2>8. QED BY <1>0, <1>1, <1>4, <2>7 DEF Outcome
<1>5. QED BY <1>3, <1>4 DEF Scan

\* The context that registers or repeats, and the address it does so for, as
\* constants: a request of the watcher's own or of a requester.
LEMMA StartingThread ==
  ASSUME TypeInv, ShownOK, NEW c \in Context, c \notin Handler, NEW B \in Bases(c), Starting(c, B),
         loc[c].dst \in Addr
  PROVE  \E d \in Addr, q \in Requester \cup {Local} :
           /\ d = loc[c].dst /\ (c = Watcher => q = Local) /\ (c = Listener => q \in Requester)
           /\ B = shown.timers /\ hosts = shown.hosts /\ d \notin shown.hosts
           /\ shown.pnrs[d] = {} /\ pnrs = [shown.pnrs EXCEPT ![d] = {q}]
           /\ pnrs = [shown.pnrs EXCEPT ![d] = @ \cup {q}]
<1>1. PICK d \in Addr : d = loc[c].dst
  OBVIOUS
<1>2. PICK q \in Requester \cup {Local} : q = loc[c].req
  BY DEF TypeInv, ControlOK, Locals
<1>3. B = shown.timers
  BY DEF Bases
<1>4. /\ d = loc[c].dst /\ (c = Watcher => q = Local) /\ (c = Listener => q \in Requester)
      /\ hosts = shown.hosts /\ d \notin shown.hosts
      /\ shown.pnrs[d] = {} /\ pnrs = [shown.pnrs EXCEPT ![d] = {q}]
  BY <1>1, <1>2, NodeAssumption DEF Starting
<1>5. shown.pnrs[d] \cup {q} = {q}
  BY <1>4
<1>6. pnrs = [shown.pnrs EXCEPT ![d] = @ \cup {q}]
  BY <1>4, <1>5
<1>7. QED BY <1>3, <1>4, <1>6

\* No slot is free: the request is new, since a handler has just freed one.
LEMMA ExhaustedSolo ==
  ASSUME TypeInv, ShownOK, NEW c \in Context, Exhausted(c), Progress(c)
  PROVE  Outcome(c)
<1> USE DEF At, Dst
<1>0. /\ loc[c] \in Locals /\ pc[c] = "scan" /\ status = "running" /\ loc[c].slot > N_TIMERS
      /\ loc[c].dst \in Addr /\ asked = shown.asked
  BY DEF Exhausted, TypeInv, ControlOK, LocOK, LocalsFit, NoDstLabels, Progress
<1>1. SlotTimers' = SlotTimers /\ UNCHANGED <<hosts, pnrs, asked>> /\ status' = "exhausted"
  BY TimersFrame DEF Exhausted, Die, files, slots
<1>2. PICK B \in Bases(c) : Starting(c, B) /\ SlotTimers = B
  BY <1>0 DEF Progress, TimerDone, Searching
<1>3. \A j \in Slot : B[j] # None
  BY <1>0, <1>2, NodeAssumption DEF Starting, Slot, Locals
<1>4. c \notin Handler
  BY <1>3 DEF Bases, ShownOK
<1>5. PICK d \in Addr, q \in Requester \cup {Local} :
           /\ d = loc[c].dst /\ (c = Watcher => q = Local) /\ (c = Listener => q \in Requester)
           /\ B = shown.timers /\ hosts = shown.hosts /\ d \notin shown.hosts
           /\ shown.pnrs[d] = {} /\ pnrs = [shown.pnrs EXCEPT ![d] = {q}]
  BY <1>0, <1>2, <1>4, StartingThread
<1>6. ASSUME shown' = Present' PROVE Atomic!Next
  <2>1. Atomic!Crash(d, q)
    BY <1>1, <1>2, <1>3, <1>5, <1>6 DEF Present, Atomic!Crash, Atomic!Slot, Slot
  <2>2. UNCHANGED <<shown.hosts, shown.asked>>
    BY <1>0, <1>1, <1>5, <1>6 DEF Present
  <2>3. CASE c = Watcher
    <3>1. Atomic!NewRoute(d)
      BY <1>5, <2>1, <2>2, <2>3 DEF Atomic!NewRoute
    <3>2. QED BY <1>0, <3>1 DEF Atomic!Next, ShownOK
  <2>4. CASE c = Listener
    <3>1. Atomic!Wanted(d, q)
      BY <1>5, <2>1, <2>2 DEF Atomic!Wanted
    <3>2. QED BY <1>0, <1>5, <2>4, <3>1 DEF Atomic!Next, ShownOK
  <2>5. QED BY <1>4, <2>3, <2>4 DEF Context
<1>7. QED BY <1>1, <1>6 DEF Outcome, Ends

LEMMA ClaimSolo ==
  ASSUME TypeInv, ShownOK, NEW c \in Context, Claim(c) \/ MakeTimer(c), Progress(c)
  PROVE  Outcome(c)
<1> USE DEF At, Dst
<1>0. loc[c].slot \in Slot /\ status = "running" /\ asked = shown.asked /\ DataOK
  BY DEF Claim, MakeTimer, TypeInv, ControlOK, LocOK, LocalsFit, SlotLabels, Progress
<1>1. UNCHANGED <<hosts, pnrs, timers, asked, status, loc>>
  BY DEF Claim, MakeTimer, files
<1>2. pc'[c] \in {"arm", "put"}
  BY DEF Claim, MakeTimer, Goto, TypeInv, ControlOK
<1>3. ASSUME shown' = shown PROVE Chosen(c)'
  <2>1. CASE Claim(c)
    <3>1. pc[c] = "claim" /\ timer_ids' = [timer_ids EXCEPT ![loc[c].slot] = loc[c].slot]
      BY <2>1 DEF Claim
    <3>2. timer_ids[loc[c].slot] = 0
      BY <3>1 DEF Progress, TimerDone
    <3>3. PICK B \in Bases(c) : Starting(c, B) /\ SlotTimers = B
      BY <3>1 DEF Progress, TimerDone, Searching
    <3>4. B[loc[c].slot] = None
      BY <1>0, <3>2, <3>3 DEF SlotTimers
    <3>5. timer_ids'[loc[c].slot] = loc[c].slot
      BY <1>0, <3>1 DEF DataOK
    <3>6. \A j \in Slot \ {loc[c].slot} : SlotTimers'[j] = B[j]
      BY <1>0, <1>1, <3>1, <3>3 DEF SlotTimers, DataOK
    <3>7. QED BY <1>0, <1>1, <1>3, <3>3, <3>4, <3>5, <3>6, BasesFrame, StartingFrame DEF Chosen
  <2>2. CASE MakeTimer(c)
    <3>1. pc[c] = "arm" /\ SlotTimers' = SlotTimers /\ timer_ids' = timer_ids
      BY <1>1, <2>2, TimersFrame DEF MakeTimer
    <3>2. PICK B \in Bases(c) :
             /\ Starting(c, B) /\ B[loc[c].slot] = None /\ timer_ids[loc[c].slot] = loc[c].slot
             /\ \A j \in Slot \ {loc[c].slot} : SlotTimers[j] = B[j]
      BY <3>1 DEF Progress, TimerDone, Chosen
    <3>3. QED BY <1>0, <1>1, <1>3, <3>1, <3>2, BasesFrame, StartingFrame DEF Chosen
  <2>3. QED BY <2>1, <2>2
<1>4. shown' = shown => Progress(c)'
  BY <1>0, <1>1, <1>2, <1>3
     DEF Progress, WhoAt, Found, ThreadDone, ExpiryDone, TimerDone,
         UnmovedLabels, WatcherLabels, ListenerLabels
<1>5. QED BY <1>0, <1>1, <1>2, <1>4 DEF Outcome

\* A request that is new is timed in the first free slot.
LEMMA RegisteredAtomic ==
  ASSUME ShownOK, NEW d \in Addr, NEW q, NEW i \in Slot, shown.pnrs[d] = {},
         shown.timers[i] = None, \A j \in Slot : j < i => shown.timers[j] # None,
         shown'.pnrs = [shown.pnrs EXCEPT ![d] = @ \cup {q}],
         shown'.timers = [shown.timers EXCEPT ![i] = d], shown'.up = shown.up
  PROVE  Atomic!Register(d, q)
<1>1. i \in Atomic!Slot /\ \A j \in 1..(i - 1) : shown.timers[j] # None
  BY NodeAssumption DEF Slot, Atomic!Slot
<1>2. QED BY <1>1 DEF Atomic!Register, Atomic!Start

LEMMA PutTimerSolo ==
  ASSUME TypeInv, ShownOK, NEW c \in Context, PutTimer(c), Progress(c)
  PROVE  Outcome(c)
<1> USE DEF At, Dst
<1>0. /\ loc[c].slot \in Slot /\ status = "running" /\ asked = shown.asked /\ pc[c] = "put"
      /\ loc[c].dst \in Addr /\ DataOK
  BY DEF PutTimer, TypeInv, ControlOK, LocOK, LocalsFit, SlotLabels, NoDstLabels, Progress
<1>1. UNCHANGED <<hosts, pnrs, asked, status, timer_ids>>
  BY DEF PutTimer, files, slots
<1>2. PICK B \in Bases(c) :
             /\ Starting(c, B) /\ B[loc[c].slot] = None /\ timer_ids[loc[c].slot] = loc[c].slot
             /\ \A j \in Slot \ {loc[c].slot} : SlotTimers[j] = B[j]
  BY <1>0 DEF Progress, TimerDone, Chosen
<1>3. timers' = [timers EXCEPT ![loc[c].slot] = loc[c].dst]
  BY <1>2 DEF PutTimer
<1>4. SlotTimers' = [B EXCEPT ![loc[c].slot] = loc[c].dst]
  <2>1. B \in [Slot -> Addr \cup {None}]
    BY BasesType
  <2>2. \A j \in Slot : SlotTimers'[j] = [B EXCEPT ![loc[c].slot] = loc[c].dst][j]
    BY <1>0, <1>1, <1>2, <1>3, <2>1, KeyFacts DEF SlotTimers, DataOK
  <2>3. QED BY <2>1, <2>2 DEF SlotTimers
<1>5. CASE c # Listener
  <2>1. pc'[c] = "send" /\ loc' = loc
    BY <1>5 DEF PutTimer, Goto, TypeInv, ControlOK
  <2>2. ASSUME shown' = shown PROVE Started(c)'
    BY <1>0, <1>1, <1>2, <1>4, <2>1, <2>2, BasesFrame, StartingFrame DEF Started
  <2>3. shown' = shown => Progress(c)'
    BY <1>0, <1>1, <1>5, <2>1, <2>2
       DEF Progress, WhoAt, Found, ThreadDone, ExpiryDone, TimerDone,
           UnmovedLabels, WatcherLabels, ListenerLabels
  <2>4. QED BY <1>0, <1>1, <2>1, <2>3 DEF Outcome
<1>6. CASE c = Listener
  <2>1. pc'[c] = "idle"
    BY <1>6, Finished DEF PutTimer
  <2>2. PICK d \in Addr, q \in Requester \cup {Local} :
           /\ d = loc[c].dst /\ (c = Listener => q \in Requester)
           /\ B = shown.timers /\ hosts = shown.hosts /\ d \notin shown.hosts
           /\ shown.pnrs[d] = {} /\ pnrs = [shown.pnrs EXCEPT ![d] = @ \cup {q}]
    BY <1>0, <1>2, <1>6, StartingThread, NodeAssumption
  <2>3. PICK i \in Slot : i = loc[c].slot
    BY <1>0
  <2>4. ASSUME shown' = Present' PROVE Atomic!Next
    <3>1. /\ shown'.hosts = shown.hosts /\ shown'.asked = shown.asked /\ shown'.up = shown.up
          /\ shown'.pnrs = [shown.pnrs EXCEPT ![d] = @ \cup {q}]
          /\ shown'.timers = [shown.timers EXCEPT ![i] = d]
      BY <1>0, <1>1, <1>4, <2>2, <2>3, <2>4 DEF Present, ShownOK
    <3>2. shown.timers[i] = None /\ \A j \in Slot : j < i => shown.timers[j] # None
      BY <1>2, <2>2, <2>3 DEF Starting
    <3>3. Atomic!Register(d, q)
      BY <2>2, <3>1, <3>2, RegisteredAtomic
    <3>4. Atomic!Wanted(d, q)
      BY <2>2, <3>1, <3>3 DEF Atomic!Wanted
    <3>5. QED BY <1>0, <1>6, <2>2, <3>4 DEF Atomic!Next, ShownOK
  <2>5. QED BY <2>1, <2>4 DEF Outcome, Ends
<1>7. QED BY <1>5, <1>6

LEMMA SendSolo ==
  ASSUME TypeInv, ShownOK, NEW c \in Context, Send(c), Progress(c)
  PROVE  Outcome(c)
<1> USE DEF At, Dst
<1>0. /\ status = "running" /\ asked = shown.asked /\ pc[c] = "send" /\ c # Listener
      /\ loc[c].dst \in Addr
  BY DEF Send, TypeInv, ControlOK, LocOK, LocalsFit, NoDstLabels, Progress, WhoAt
<1>1. SlotTimers' = SlotTimers /\ UNCHANGED <<hosts, pnrs, status>>
  BY TimersFrame DEF Send, files, slots
<1>2. pc'[c] = "idle"
  BY Finished DEF Send
<1>3. PICK d \in Addr : d = loc[c].dst
  BY <1>0
<1>4. asked' = shown.asked \cup {d}
  BY <1>0, <1>3 DEF Send
<1>5. SUFFICES ASSUME shown' = Present' PROVE Atomic!Next
  BY <1>2 DEF Outcome, Ends
<1>6. /\ shown'.hosts = hosts /\ shown'.pnrs = pnrs /\ shown'.timers = SlotTimers
      /\ shown'.asked = shown.asked \cup {d} /\ shown'.up = shown.up
  BY <1>0, <1>1, <1>4, <1>5 DEF Present, ShownOK
<1>7. CASE c = Watcher /\ Unmoved /\ pnrs[loc[c].dst] # {} /\ loc[c].dst \notin hosts
  <2>1. Atomic!NewRoute(d)
    BY <1>3, <1>6, <1>7 DEF Unmoved, Atomic!NewRoute, Atomic!Ask
  <2>2. QED BY <1>0, <2>1 DEF Atomic!Next, ShownOK
<1>8. CASE Started(c)
  <2>1. PICK i \in Slot : i = loc[c].slot
    BY <1>8 DEF Started
  <2>2. PICK B \in Bases(c) : Starting(c, B) /\ B[i] = None /\ SlotTimers = [B EXCEPT ![i] = d]
    BY <1>3, <1>8, <2>1 DEF Started
  <2>3. \A j \in Slot : j < i => B[j] # None
    BY <2>1, <2>2 DEF Starting
  <2>4. CASE c \notin Handler
    <3>1. c = Watcher
      BY <1>0, <2>4 DEF Context
    <3>2. /\ B = shown.timers /\ hosts = shown.hosts /\ d \notin shown.hosts
          /\ shown.pnrs[d] = {} /\ pnrs = [shown.pnrs EXCEPT ![d] = @ \cup {Local}]
      BY <1>0, <1>3, <2>2, <2>4, <3>1, StartingThread
    <3>3. Atomic!Register(d, Local)
      BY <1>6, <2>2, <2>3, <3>2, RegisteredAtomic
    <3>4. Atomic!NewRoute(d)
      BY <1>6, <3>2, <3>3 DEF Atomic!NewRoute, Atomic!Ask
    <3>5. QED BY <1>0, <3>4 DEF Atomic!Next, ShownOK
  <2>5. CASE c \in Handler
    <3>1. PICK k \in Slot : shown.timers[k] = d /\ B = [shown.timers EXCEPT ![k] = None]
      BY <1>3, <2>5 DEF Bases
    <3>2. hosts = shown.hosts /\ pnrs = shown.pnrs /\ shown.pnrs[d] # {}
      BY <1>3, <2>2, <2>5, NodeAssumption DEF Starting
    <3>3. /\ shown'.timers = [B EXCEPT ![i] = d] /\ shown'.asked = shown.asked \cup {d}
          /\ shown'.pnrs = shown.pnrs /\ shown'.hosts = shown.hosts /\ shown'.up = shown.up
      BY <1>6, <2>2, <3>2
    <3>4. i \in Atomic!Slot /\ \A j \in 1..(i - 1) : B[j] # None
      BY <2>3, NodeAssumption DEF Slot, Atomic!Slot
    <3>5. Atomic!Expired(k)
      BY <2>2, <3>1, <3>2, <3>3, <3>4, NodeAssumption
         DEF Atomic!Expired, Atomic!Start, Atomic!Ask
    <3>6. QED BY <1>0, <3>5 DEF Atomic!Next, Atomic!Slot, Slot, ShownOK
  <2>6. QED BY <2>4, <2>5
<1>9. QED BY <1>0, <1>7, <1>8 DEF Progress, TimerDone

LEMMA StartTimerSolo ==
  ASSUME TypeInv, Tidy, SlotsAccounted, ShownOK, NEW c \in Context, Alone(c), StartTimer(c),
         Progress(c)
  PROVE  Outcome(c)
BY ScanSolo, ExhaustedSolo, ClaimSolo, PutTimerSolo, SendSolo DEF StartTimer

-----------------------------------------------------------------------------
(* watch_routes and listen_for_nreqs *)

LEMMA RouteAddedSolo ==
  ASSUME TypeInv, ShownOK, RouteAdded \/ RoutePending, Progress(Watcher)
  PROVE  Outcome(Watcher)
<1> USE DEF At, Dst
<1>0. Watcher \in Context /\ status = "running" /\ pc[Watcher] \in {"added", "pending"}
  BY DEF Context, RouteAdded, RoutePending
<1>1. SlotTimers' = SlotTimers /\ UNCHANGED <<hosts, pnrs, timers, timer_ids, asked, status>>
  BY TimersFrame DEF RouteAdded, RoutePending, files, slots
<1>2. Unmoved /\ asked = shown.asked /\ loc[Watcher].req = Local
  BY <1>0 DEF Progress, WhoAt, WatcherLabels, Found, UnmovedLabels
<1>3. CASE Finish(Watcher)
  <2>1. pc'[Watcher] = "idle"
    BY <1>0, <1>3, Finished
  <2>2. QED BY <1>0, <1>1, <1>2, <2>1, EndsUnmoved DEF Outcome
<1>4. CASE RouteAdded /\ ~Finish(Watcher)
  <2>1. pc'[Watcher] = "pending" /\ loc' = loc /\ loc[Watcher].dst \notin hosts
    BY <1>0, <1>4 DEF RouteAdded, Goto, TypeInv, ControlOK
  <2>2. shown' = shown => Progress(Watcher)'
    BY <1>0, <1>1, <1>2, <2>1
       DEF Progress, WhoAt, Found, ThreadDone, ExpiryDone, TimerDone, Unmoved,
           UnmovedLabels, WatcherLabels, ListenerLabels
  <2>3. QED BY <1>0, <1>1, <2>1, <2>2 DEF Outcome
<1>5. CASE RoutePending
  <2>1. pc[Watcher] = "pending" /\ loc' = loc /\ loc[Watcher].dst \notin hosts
    BY <1>5 DEF RoutePending, Progress, Found
  <2>2. \/ pc'[Watcher] = "send" /\ pnrs[loc[Watcher].dst] # {}
        \/ pc'[Watcher] = "reg" /\ pnrs[loc[Watcher].dst] = {}
    BY <1>0, <1>5 DEF RoutePending, Goto, TypeInv, ControlOK
  <2>3. shown' = shown => Progress(Watcher)'
    BY <1>0, <1>1, <1>2, <2>1, <2>2, NodeAssumption
       DEF Progress, WhoAt, Found, ThreadDone, ExpiryDone, TimerDone, Unmoved,
           UnmovedLabels, WatcherLabels, ListenerLabels
  <2>4. QED BY <1>0, <1>1, <2>2, <2>3 DEF Outcome
<1>6. QED BY <1>3, <1>4, <1>5

LEMMA RouteRemovedSolo ==
  ASSUME TypeInv, ShownOK, Progress(Watcher),
         RouteRemoved \/ DropPnr \/ ForgetName \/ Snapshot \/ Truncate \/ WriteBack
  PROVE  Outcome(Watcher)
<1> USE DEF At, Dst
<1> DEFINE l == loc[Watcher]
<1>0. Watcher \in Context /\ status = "running" /\ asked = shown.asked /\ l \in Locals /\ DataOK
  BY DEF Context, RouteRemoved, DropPnr, ForgetName, Snapshot, Truncate, WriteBack, Progress,
         TypeInv, ControlOK
<1>1. SlotTimers' = SlotTimers /\ UNCHANGED <<asked, status>>
  BY TimersFrame DEF RouteRemoved, DropPnr, ForgetName, Snapshot, Truncate, WriteBack, slots
<1>2. l.dst \in Addr
  BY DEF RouteRemoved, DropPnr, ForgetName, Snapshot, Truncate, WriteBack, TypeInv, ControlOK,
         LocOK, LocalsFit, NoDstLabels, Context
<1>3. PICK d \in Addr : d = l.dst
  BY <1>2
<1>4. ASSUME shown.pnrs \in [Addr -> SUBSET (Requester \cup {Local})],
             pnrs' = [shown.pnrs EXCEPT ![d] = {}], hosts' = shown.hosts,
             SlotTimers = shown.timers, pc'[Watcher] = "idle"
      PROVE  Outcome(Watcher)
  <2>1. ASSUME shown' = Present' PROVE Atomic!LostRoute(d)
    BY <1>0, <1>1, <1>4, <2>1 DEF Present, ShownOK, Atomic!LostRoute
  <2>2. QED BY <1>0, <1>4, <2>1 DEF Outcome, Ends, Atomic!Next, ShownOK
<1>5. CASE RouteRemoved
  <2>1. /\ pc[Watcher] = "removed" /\ UNCHANGED <<hosts, pnrs, loc>> /\ Unmoved /\ l.req = Local
    BY <1>5 DEF RouteRemoved, files, Progress, Found, UnmovedLabels, WhoAt, WatcherLabels
  <2>2. \/ pc'[Watcher] = "drop"
        \/ pc'[Watcher] = "forget" /\ pnrs[l.dst] = {}
    BY <1>0, <1>5 DEF RouteRemoved, Goto, TypeInv, ControlOK
  <2>3. pnrs[l.dst] = {} => pnrs = [shown.pnrs EXCEPT ![l.dst] = {}]
    BY <1>0, <2>1 DEF Unmoved, DataOK
  <2>4. shown' = shown => Progress(Watcher)'
    BY <1>0, <1>1, <2>1, <2>2, <2>3
       DEF Progress, WhoAt, Found, ThreadDone, ExpiryDone, TimerDone, Unmoved,
           UnmovedLabels, WatcherLabels, ListenerLabels
  <2>5. QED BY <1>0, <1>1, <2>2, <2>4 DEF Outcome
<1>6. CASE DropPnr
  <2>1. pc[Watcher] = "drop" /\ hosts' = hosts /\ Unmoved /\ l.req = Local
    BY <1>6 DEF DropPnr, files, Progress, Found, UnmovedLabels, WhoAt, WatcherLabels
  <2>2. pc'[Watcher] = "forget" /\ loc'[Watcher] = Detached(l.dst)[Watcher]
    BY <1>0, <1>6 DEF DropPnr, Goto, TypeInv, ControlOK
  <2>3. loc'[Watcher].dst = l.dst /\ loc'[Watcher].req = l.req
    BY <1>0, <2>2 DEF Detached, Locals
  <2>4. pnrs' = [shown.pnrs EXCEPT ![l.dst] = {}]
    BY <1>6, <2>1 DEF DropPnr, DeleteEntry, Unmoved
  <2>5. shown' = shown => Progress(Watcher)'
    BY <1>0, <1>1, <2>1, <2>2, <2>3, <2>4
       DEF Progress, WhoAt, Found, ThreadDone, ExpiryDone, TimerDone, Unmoved,
           UnmovedLabels, WatcherLabels, ListenerLabels
  <2>6. QED BY <1>0, <1>1, <2>2, <2>5 DEF Outcome
<1>7. CASE ForgetName
  <2>1. /\ pc[Watcher] = "forget" /\ UNCHANGED <<hosts, pnrs>> /\ hosts = shown.hosts
        /\ SlotTimers = shown.timers /\ pnrs = [shown.pnrs EXCEPT ![l.dst] = {}] /\ l.req = Local
    BY <1>7 DEF ForgetName, files, Progress, ThreadDone, WhoAt, WatcherLabels
  <2>2. CASE Finish(Watcher)
    <3>1. pc'[Watcher] = "idle"
      BY <1>0, <2>2, Finished
    <3>2. QED BY <1>3, <1>4, <2>1, <3>1 DEF ShownOK
  <2>3. CASE l.dst \notin hosts /\ Goto(Watcher, "snap") /\ loc' = loc
    <3>1. pc'[Watcher] = "snap"
      BY <1>0, <2>3 DEF Goto, TypeInv, ControlOK
    <3>2. shown' = shown => Progress(Watcher)'
      BY <1>0, <1>1, <2>1, <2>3, <3>1
         DEF Progress, WhoAt, Found, ThreadDone, ExpiryDone, TimerDone,
             UnmovedLabels, WatcherLabels, ListenerLabels
    <3>3. QED BY <1>0, <1>1, <3>1, <3>2 DEF Outcome
  <2>4. QED BY <1>7, <2>2, <2>3 DEF ForgetName
<1>8. CASE Snapshot
  <2>1. /\ pc[Watcher] = "snap" /\ UNCHANGED <<hosts, pnrs, loc>> /\ hosts = shown.hosts
        /\ SlotTimers = shown.timers /\ pnrs = [shown.pnrs EXCEPT ![l.dst] = {}] /\ l.req = Local
        /\ l.dst \notin hosts
    BY <1>8 DEF Snapshot, Progress, ThreadDone, WhoAt, WatcherLabels, Found
  <2>2. pc'[Watcher] = "trunc" /\ copy' = hosts
    BY <1>0, <1>8, <2>1 DEF Snapshot, Goto, TypeInv, ControlOK
  <2>3. shown' = shown => Progress(Watcher)'
    BY <1>0, <1>1, <2>1, <2>2
       DEF Progress, WhoAt, Found, ThreadDone, ExpiryDone, TimerDone,
           UnmovedLabels, WatcherLabels, ListenerLabels
  <2>4. QED BY <1>0, <1>1, <2>2, <2>3 DEF Outcome
<1>9. CASE Truncate
  <2>1. /\ pc[Watcher] = "trunc" /\ UNCHANGED <<copy, pnrs, loc>> /\ copy = shown.hosts
        /\ SlotTimers = shown.timers /\ pnrs = [shown.pnrs EXCEPT ![l.dst] = {}] /\ l.req = Local
    BY <1>9 DEF Truncate, Progress, ThreadDone, WhoAt, WatcherLabels
  <2>2. pc'[Watcher] = "write" /\ hosts' = {}
    BY <1>0, <1>9 DEF Truncate, Goto, TypeInv, ControlOK
  <2>3. shown' = shown => Progress(Watcher)'
    BY <1>0, <1>1, <2>1, <2>2
       DEF Progress, WhoAt, Found, ThreadDone, ExpiryDone, TimerDone,
           UnmovedLabels, WatcherLabels, ListenerLabels
  <2>4. QED BY <1>0, <1>1, <2>2, <2>3 DEF Outcome
<1>10. CASE WriteBack
  <2>1. /\ pc[Watcher] = "write" /\ pnrs' = pnrs /\ hosts = {} /\ copy = shown.hosts
        /\ SlotTimers = shown.timers /\ pnrs = [shown.pnrs EXCEPT ![l.dst] = {}]
    BY <1>10 DEF WriteBack, Progress, ThreadDone
  <2>2. hosts' = shown.hosts
    BY <1>10, <2>1 DEF WriteBack
  <2>3. pc'[Watcher] = "idle"
    BY <1>0, <1>10, Finished DEF WriteBack
  <2>4. QED BY <1>3, <1>4, <2>1, <2>2, <2>3 DEF ShownOK
<1>11. QED BY <1>5, <1>6, <1>7, <1>8, <1>9, <1>10

LEMMA ListenerSolo ==
  ASSUME TypeInv, ShownOK, Progress(Listener), ListenForNreqs
  PROVE  Outcome(Listener)
<1> USE DEF At, Dst
<1> DEFINE l == loc[Listener]
<1>0. /\ Listener \in Context /\ status = "running" /\ asked = shown.asked /\ DataOK
      /\ l.dst \in Addr /\ l.req \in Requester \cup {Local}
  BY DEF Context, ListenForNreqs, AnswerNreq, AcceptNrep, CacheName, AppendName, RespondToPnrs,
         DeleteAnswered, Progress, TypeInv, ControlOK, LocOK, LocalsFit, NoDstLabels, Locals
<1>1. SlotTimers' = SlotTimers /\ UNCHANGED <<timers, timer_ids, asked, status>>
  BY TimersFrame DEF ListenForNreqs, AnswerNreq, AcceptNrep, CacheName, AppendName,
                     RespondToPnrs, DeleteAnswered, slots
<1>2. ASSUME Finish(Listener), Unmoved, UNCHANGED <<hosts, pnrs>> PROVE Outcome(Listener)
  <2>1. pc'[Listener] = "idle"
    BY <1>0, <1>2, Finished
  <2>2. QED BY <1>0, <1>1, <1>2, <2>1, EndsUnmoved DEF Outcome
<1>3. ASSUME NEW p, Goto(Listener, p) PROVE pc'[Listener] = p
  BY <1>0, <1>3 DEF Goto, TypeInv, ControlOK
<1>4. CASE AnswerNreq
  <2>1. pc[Listener] = "nreq" /\ UNCHANGED <<hosts, pnrs>> /\ Unmoved /\ l.req \in Requester
    BY <1>4 DEF AnswerNreq, Progress, Found, UnmovedLabels, WhoAt
  <2>2. CASE Finish(Listener)
    BY <1>2, <2>1, <2>2
  <2>3. CASE l.dst \notin hosts /\ Goto(Listener, "reg") /\ loc' = loc
    <3>1. pc'[Listener] = "reg"
      BY <1>3, <2>3
    <3>2. shown' = shown => Progress(Listener)'
      BY <1>0, <1>1, <2>1, <2>3, <3>1
         DEF Progress, WhoAt, Found, ThreadDone, ExpiryDone, TimerDone, Unmoved,
             UnmovedLabels, WatcherLabels, ListenerLabels
    <3>3. QED BY <1>0, <1>1, <3>1, <3>2 DEF Outcome
  <2>4. QED BY <1>4, <2>2, <2>3 DEF AnswerNreq
<1>5. CASE AcceptNrep
  <2>1. pc[Listener] = "nrep" /\ UNCHANGED <<hosts, pnrs>> /\ Unmoved /\ l.dst \in asked
    BY <1>5 DEF AcceptNrep, files, Progress, Found, UnmovedLabels
  <2>2. CASE Finish(Listener)
    BY <1>2, <2>1, <2>2
  <2>3. CASE l.dst \notin hosts /\ Goto(Listener, "cache") /\ loc' = loc
    <3>1. pc'[Listener] = "cache"
      BY <1>3, <2>3
    <3>2. shown' = shown => Progress(Listener)'
      BY <1>0, <1>1, <2>1, <2>3, <3>1
         DEF Progress, WhoAt, Found, ThreadDone, ExpiryDone, TimerDone, Unmoved,
             UnmovedLabels, WatcherLabels, ListenerLabels
    <3>3. QED BY <1>0, <1>1, <3>1, <3>2 DEF Outcome
  <2>4. QED BY <1>5, <2>2, <2>3 DEF AcceptNrep
<1>6. CASE CacheName
  <2>1. /\ pc[Listener] = "cache" /\ UNCHANGED <<hosts, pnrs, loc>> /\ Unmoved /\ l.dst \in asked
        /\ l.dst \notin hosts
    BY <1>6 DEF CacheName, files, Progress, Found, UnmovedLabels
  <2>2. pc'[Listener] = "append"
    BY <1>3, <1>6, <2>1 DEF CacheName
  <2>3. shown' = shown => Progress(Listener)'
    BY <1>0, <1>1, <2>1, <2>2
       DEF Progress, WhoAt, Found, ThreadDone, ExpiryDone, TimerDone, Unmoved,
           UnmovedLabels, WatcherLabels, ListenerLabels
  <2>4. QED BY <1>0, <1>1, <2>2, <2>3 DEF Outcome
<1>7. CASE AppendName
  <2>1. /\ pc[Listener] = "append" /\ UNCHANGED <<pnrs, loc>> /\ Unmoved /\ l.dst \in asked
        /\ l.dst \notin hosts
    BY <1>7 DEF AppendName, Progress, Found, UnmovedLabels
  <2>2. pc'[Listener] = "respond" /\ hosts' = shown.hosts \cup {l.dst}
    BY <1>3, <1>7, <2>1 DEF AppendName, Unmoved
  <2>3. shown' = shown => Progress(Listener)'
    BY <1>0, <1>1, <2>1, <2>2
       DEF Progress, WhoAt, Found, ThreadDone, ExpiryDone, TimerDone, Unmoved,
           UnmovedLabels, WatcherLabels, ListenerLabels
  <2>4. QED BY <1>0, <1>1, <2>2, <2>3 DEF Outcome
<1>8. CASE RespondToPnrs
  <2>1. /\ pc[Listener] = "respond" /\ UNCHANGED <<hosts, pnrs, loc>>
        /\ pc'[Listener] = "answered"
    BY <1>3, <1>8 DEF RespondToPnrs, files
  <2>2. shown' = shown => Progress(Listener)'
    BY <1>0, <1>1, <2>1
       DEF Progress, WhoAt, Found, ThreadDone, ExpiryDone, TimerDone,
           UnmovedLabels, WatcherLabels, ListenerLabels
  <2>3. QED BY <1>0, <1>1, <2>1, <2>2 DEF Outcome
<1>9. CASE DeleteAnswered
  <2>1. PICK d \in Addr : d = l.dst
    BY <1>0
  <2>2. /\ d \in asked /\ pnrs = shown.pnrs /\ SlotTimers = shown.timers
        /\ d \notin shown.hosts /\ hosts = shown.hosts \cup {d}
    BY <1>9, <2>1 DEF DeleteAnswered, Progress, Found, ThreadDone
  <2>3. hosts' = hosts /\ pnrs' = [shown.pnrs EXCEPT ![d] = {}] /\ pc'[Listener] = "idle"
    BY <1>3, <1>9, <2>1, <2>2 DEF DeleteAnswered, DeleteEntry, files
  <2>4. ASSUME shown' = Present' PROVE Atomic!Learn(d)
    BY <1>0, <1>1, <2>2, <2>3, <2>4 DEF Present, ShownOK, Atomic!Learn
  <2>5. QED BY <1>0, <2>3, <2>4 DEF Outcome, Ends, Atomic!Next, ShownOK
<1>10. QED BY <1>4, <1>5, <1>6, <1>7, <1>8, <1>9 DEF ListenForNreqs

-----------------------------------------------------------------------------
(* timeout_handler *)

LEMMA GetTimerSolo ==
  ASSUME TypeInv, Tidy, ShownOK, NEW h \in Handler, GetTimer(h) \/ DeleteTimer(h), Progress(h)
  PROVE  Outcome(h)
<1> USE DEF At, Dst
<1>0. /\ h \in Context /\ status = "running" /\ asked = shown.asked /\ DataOK
      /\ loc[h] \in Locals /\ loc[h].slot \in Slot /\ pc[h] \in {"get", "del"}
  BY DEF Context, GetTimer, DeleteTimer, Progress, TypeInv, ControlOK, LocOK, LocalsFit, SlotLabels
<1>1. UNCHANGED <<hosts, pnrs, asked, status, timer_ids>> /\ Unmoved
  BY <1>0 DEF GetTimer, DeleteTimer, files, slots, Progress, Found, UnmovedLabels
<1>2. loc[h].key = loc[h].slot /\ timer_ids[loc[h].slot] = loc[h].slot /\ loc[h].slot # 0
  BY <1>0, KeyFacts DEF Tidy, ContextTidy, SlotTidy, Owns
<1>3. CASE GetTimer(h)
  <2>1. pc'[h] = "del" /\ loc'[h] = [loc[h] EXCEPT !.dst = timers[loc[h].slot]] /\ timers' = timers
    BY <1>0, <1>2, <1>3 DEF GetTimer, Goto, TypeInv, ControlOK
  <2>2. loc'[h].slot = loc[h].slot /\ loc'[h].dst = timers[loc[h].slot]
    BY <1>0, <2>1 DEF Locals
  <2>3. SlotTimers' = SlotTimers
    BY <1>1, <2>1, TimersFrame
  <2>4. shown' = shown => Progress(h)'
    BY <1>0, <1>1, <2>1, <2>2, <2>3
       DEF Progress, WhoAt, Found, ThreadDone, ExpiryDone, TimerDone, Unmoved,
           UnmovedLabels, WatcherLabels, ListenerLabels
  <2>5. QED BY <1>0, <1>1, <2>1, <2>4 DEF Outcome
<1>4. CASE DeleteTimer(h)
  <2>1. pc[h] = "del" /\ pc'[h] = "reset" /\ loc' = loc
        /\ timers' = [timers EXCEPT ![loc[h].slot] = None]
    BY <1>0, <1>2, <1>4 DEF DeleteTimer, Goto, TypeInv, ControlOK
  <2>2. loc[h].dst = shown.timers[loc[h].slot]
    <3>1. loc[h].dst = timers[loc[h].slot]
      BY <2>1 DEF Progress, Found
    <3>2. SlotTimers[loc[h].slot] = timers[loc[h].slot]
      BY <1>0, <1>2 DEF SlotTimers
    <3>3. QED BY <1>1, <3>1, <3>2 DEF Unmoved
  <2>3. \A j \in Slot \ {loc[h].slot} : SlotTimers'[j] = shown.timers[j]
    <3>1. \A j \in Slot \ {loc[h].slot} : SlotTimers'[j] = SlotTimers[j]
      BY <1>0, <1>1, <2>1, KeyFacts DEF SlotTimers, DataOK
    <3>2. QED BY <1>1, <3>1 DEF Unmoved
  <2>4. shown' = shown => Progress(h)'
    BY <1>0, <1>1, <2>1, <2>2, <2>3
       DEF Progress, WhoAt, Found, ThreadDone, ExpiryDone, TimerDone, Unmoved,
           UnmovedLabels, WatcherLabels, ListenerLabels
  <2>5. QED BY <1>0, <1>1, <2>1, <2>4 DEF Outcome
<1>5. QED BY <1>3, <1>4

\* The slot is free once it is reset.
LEMMA FreedSlots ==
  ASSUME ShownOK, NEW h, loc[h].slot \in Slot, timer_ids[loc[h].slot] = 0,
         \A j \in Slot \ {loc[h].slot} : SlotTimers[j] = shown.timers[j]
  PROVE  SlotTimers = [shown.timers EXCEPT ![loc[h].slot] = None]
<1>1. \A j \in Slot : SlotTimers[j] = [shown.timers EXCEPT ![loc[h].slot] = None][j]
  BY DEF SlotTimers, ShownOK
<1>2. QED BY <1>1 DEF SlotTimers, ShownOK

LEMMA HandlerSolo ==
  ASSUME TypeInv, Tidy, ShownOK, NEW h \in Handler, TimeoutHandler(h), Progress(h)
  PROVE  Outcome(h)
<1> USE DEF At, Dst
<1> DEFINE l == loc[h]
<1>1. CASE GetTimer(h) \/ DeleteTimer(h)
  BY <1>1, GetTimerSolo
<1>2. CASE ResetSlot(h) \/ LookupExpired(h) \/ CleanPnr(h) \/ RouteExists(h)
  <2>0. /\ h \in Context /\ status = "running" /\ asked = shown.asked /\ DataOK
        /\ l \in Locals /\ pc[h] \in {"reset", "expired", "clean", "route"}
    BY <1>2 DEF Context, ResetSlot, LookupExpired, CleanPnr, RouteExists, Progress, TypeInv,
                ControlOK
  <2>1. /\ hosts = shown.hosts /\ pnrs = shown.pnrs /\ l.slot \in Slot
        /\ l.dst = shown.timers[l.slot]
        /\ \A j \in Slot \ {l.slot} : SlotTimers[j] = shown.timers[j]
        /\ UNCHANGED <<hosts, asked, timers>>
    BY <1>2, <2>0 DEF Progress, ExpiryDone, ResetSlot, LookupExpired, CleanPnr, RouteExists, files
  <2>2. ASSUME NEW p, Goto(h, p) PROVE pc'[h] = p
    BY <2>0, <2>2 DEF Goto, TypeInv, ControlOK
  <2>3. ASSUME pc[h] \in {"clean", "route"}, UNCHANGED <<timer_ids, pnrs, status>>, pc'[h] = "idle"
        PROVE  Outcome(h)
    <3>1. PICK i \in Slot : i = l.slot
      BY <2>1
    <3>2. SlotTimers' = [shown.timers EXCEPT ![i] = None]
      BY <2>0, <2>1, <2>3, <3>1, FreedSlots, TimersFrame DEF Progress, ExpiryDone
    <3>3. shown.timers[i] # None
      BY <2>0, <2>1, <2>3, <3>1, NodeAssumption
         DEF TypeInv, ControlOK, LocOK, LocalsFit, NoDstLabels
    <3>4. ASSUME shown' = Present' PROVE Atomic!Expired(i)
      BY <2>0, <2>1, <2>3, <3>2, <3>3, <3>4 DEF Present, ShownOK, Atomic!Expired
    <3>5. QED BY <2>0, <2>3, <3>4 DEF Outcome, Ends, Atomic!Next, Atomic!Slot, Slot, ShownOK
  <2>4. CASE ResetSlot(h)
    <3>1. CASE Die("wild")
      BY <3>1 DEF Die, Outcome, Spoilt
    <3>2. CASE timer_ids' = [timer_ids EXCEPT ![l.slot] = 0] /\ Goto(h, "expired") /\ UNCHANGED <<loc, status>>
      <4>1. pc'[h] = "expired" /\ timer_ids'[l.slot] = 0
        BY <2>0, <2>1, <2>2, <3>2 DEF DataOK
      <4>2. \A j \in Slot \ {l.slot} : SlotTimers'[j] = shown.timers[j]
        <5>1. \A j \in Slot \ {l.slot} : SlotTimers'[j] = SlotTimers[j]
          BY <2>0, <2>1, <3>2 DEF SlotTimers, DataOK
        <5>2. QED BY <2>1, <5>1
      <4>3. pnrs' = pnrs
        BY <2>4 DEF ResetSlot
      <4>4. shown' = shown => Progress(h)'
        BY <2>0, <2>1, <3>2, <4>1, <4>2, <4>3
           DEF Progress, WhoAt, Found, ThreadDone, ExpiryDone, TimerDone,
               UnmovedLabels, WatcherLabels, ListenerLabels
      <4>5. QED BY <2>0, <3>2, <4>1, <4>4 DEF Outcome
    <3>3. QED BY <2>4, <3>1, <3>2 DEF ResetSlot
  <2>5. CASE LookupExpired(h)
    <3>1. CASE Die("null")
      BY <3>1 DEF Die, Outcome, Spoilt
    <3>2. CASE UNCHANGED <<loc, status>>
      <4>1. pc[h] = "expired" /\ timer_ids[l.slot] = 0 /\ UNCHANGED <<pnrs, timer_ids>>
        BY <2>5 DEF LookupExpired, slots, Progress, ExpiryDone
      <4>2. \/ pc'[h] = "clean" /\ pnrs[l.dst] = {}
            \/ pc'[h] = "route" /\ pnrs[l.dst] # {}
        BY <2>0, <2>2, <2>5, <3>2 DEF LookupExpired, Die
      <4>3. SlotTimers' = SlotTimers
        BY <2>1, <4>1, TimersFrame
      <4>4. shown' = shown => Progress(h)'
        BY <2>0, <2>1, <3>2, <4>1, <4>2, <4>3
           DEF Progress, WhoAt, Found, ThreadDone, ExpiryDone, TimerDone,
               UnmovedLabels, WatcherLabels, ListenerLabels
      <4>5. QED BY <2>0, <3>2, <4>2, <4>4 DEF Outcome
    <3>3. QED BY <2>5, <3>1, <3>2 DEF LookupExpired
  <2>6. CASE CleanPnr(h)
    <3>1. pc[h] = "clean" /\ pnrs[l.dst] = {} /\ UNCHANGED <<timer_ids, status>> /\ pc'[h] = "idle"
      BY <2>2, <2>6 DEF CleanPnr, slots, Progress, ExpiryDone
    <3>2. pnrs' = pnrs
      BY <2>0, <2>6, <3>1 DEF CleanPnr, DeleteEntry, DataOK
    <3>3. QED BY <2>3, <3>1, <3>2
  <2>7. CASE RouteExists(h)
    <3>1. pc[h] = "route" /\ UNCHANGED <<timer_ids, status, pnrs>>
      BY <2>7 DEF RouteExists, slots
    <3>2. CASE Finish(h)
      BY <2>0, <2>3, <3>1, <3>2, Finished
    <3>3. CASE Goto(h, "scan") /\ loc' = [loc EXCEPT ![h].slot = 1]
      <4>1. pc'[h] = "scan" /\ loc'[h] = [loc[h] EXCEPT !.slot = 1]
        BY <2>0, <2>2, <3>3 DEF TypeInv, ControlOK
      <4>2. loc'[h].dst = l.dst /\ loc'[h].slot = 1
        BY <2>0, <4>1 DEF Locals
      <4>3. PICK B : B = [shown.timers EXCEPT ![l.slot] = None]
        OBVIOUS
      <4>4. SlotTimers' = B
        BY <2>0, <2>1, <3>1, <4>3, FreedSlots, TimersFrame DEF Progress, ExpiryDone
      <4>5. pnrs[l.dst] # {}
        BY <3>1 DEF Progress, ExpiryDone
      <4>6. ASSUME shown' = shown PROVE Searching(h)'
        <5>1. B \in Bases(h)'
          BY <2>1, <4>2, <4>3, <4>6 DEF Bases
        <5>2. Starting(h, B)'
          BY <2>1, <3>1, <4>2, <4>5, <4>6 DEF Starting, Slot
        <5>3. QED BY <4>4, <5>1, <5>2 DEF Searching
      <4>7. shown' = shown => Progress(h)'
        BY <2>0, <2>1, <4>1, <4>6
           DEF Progress, WhoAt, Found, ThreadDone, ExpiryDone, TimerDone,
               UnmovedLabels, WatcherLabels, ListenerLabels
      <4>8. QED BY <2>0, <3>1, <4>1, <4>7 DEF Outcome
    <3>4. QED BY <2>7, <3>2, <3>3 DEF RouteExists
  <2>8. QED BY <1>2, <2>4, <2>5, <2>6, <2>7
<1>3. QED BY <1>1, <1>2 DEF TimeoutHandler

-----------------------------------------------------------------------------
(* Who moves *)

LEMMA RunSolo ==
  ASSUME TypeInv, Tidy, SlotsAccounted, ShownOK, NEW c \in Context, Alone(c), Run(c), Progress(c)
  PROVE  Outcome(c)
<1>1. c = Watcher /\ WatchRoutes => Outcome(c)
  BY RouteAddedSolo, RouteRemovedSolo DEF WatchRoutes
<1>2. c = Listener /\ ListenForNreqs => Outcome(c)
  BY ListenerSolo
<1>3. c \in Handler /\ TimeoutHandler(c) => Outcome(c)
  BY HandlerSolo
<1>4. c \in {Listener, Watcher} /\ RegisterNreq(c) => Outcome(c)
  BY RegisterSolo
<1>5. QED BY <1>1, <1>2, <1>3, <1>4, StartTimerSolo DEF Run

LEMMA RunFrame ==
  ASSUME TypeInv, NEW c \in Context, Run(c)
  PROVE  /\ status = "running" /\ pc[c] # "idle"
         /\ \A o \in Context \ {c} : pc'[o] = pc[o]
<1>1. CASE c \in {Listener, Watcher} /\ RegisterNreq(c)
  <2>1. status = "running" /\ pc[c] # "idle"
    BY <1>1 DEF RegisterNreq, Lookup, ExistsInList, PushWalk, PushLink, PushFill, TornWalk,
                NewEntry, At
  <2>2. QED BY <1>1, <2>1, RegisterQuiet DEF Quiet, Same
<1>2. CASE StartTimer(c)
  <2>1. status = "running" /\ pc[c] # "idle"
    BY <1>2 DEF StartTimer, Scan, Exhausted, Claim, MakeTimer, PutTimer, Send, At
  <2>2. Quiet(c) \/ TimerStep(c)
    BY <1>2, ScanQuiet DEF StartTimer, TimerStep
  <2>3. QED BY <2>1, <2>2, TimerStepFrame DEF Quiet, Same
<1>3. CASE (c = Watcher /\ WatchRoutes) \/ (c = Listener /\ ListenForNreqs)
  <2>1. status = "running" /\ pc[c] # "idle"
    BY <1>3 DEF WatchRoutes, RouteAdded, RoutePending, RouteRemoved, DropPnr, ForgetName,
                Snapshot, Truncate, WriteBack, ListenForNreqs, AnswerNreq, AcceptNrep, CacheName,
                AppendName, RespondToPnrs, DeleteAnswered, At
  <2>2. c \in {Listener, Watcher}
    BY <1>3
  <2>3. QED BY <1>3, <2>1, <2>2, ThreadQuiet DEF Quiet, Same
<1>4. CASE c \in Handler /\ TimeoutHandler(c)
  <2>1. status = "running" /\ pc[c] # "idle"
    BY <1>4 DEF TimeoutHandler, GetTimer, DeleteTimer, ResetSlot, LookupExpired, CleanPnr,
                RouteExists, At
  <2>2. Quiet(c) \/ TimerStep(c)
    BY <1>4, HandlerQuiet DEF TimeoutHandler, TimerStep
  <2>3. QED BY <2>1, <2>2, TimerStepFrame DEF Quiet, Same
<1>5. QED BY <1>1, <1>2, <1>3, <1>4 DEF Run

\* A handler begins, at rest or not.
Begins(c) ==
  /\ status = "running" /\ status' = "running"
  /\ pc[c] = "idle" /\ pc'[c] # "idle"
  /\ \A o \in Context \ {c} : pc'[o] = pc[o]
  /\ shown = Present /\ shown' = shown => Progress(c)'

LEMMA InputBegins ==
  ASSUME TypeInv, Input
  PROVE  \E c \in Context : Begins(c)
<1>1. ASSUME NEW c \in Context, NEW p, NEW d \in Addr, NEW q \in Requester \cup {Local},
             Begin(c, p, d, q),
             \/ c = Watcher /\ p \in {"added", "removed"} /\ q = Local
             \/ c = Listener /\ p = "nreq" /\ q \in Requester
             \/ c = Listener /\ p = "nrep" /\ d \in asked
      PROVE  Begins(c)
  <2>1. loc[c] \in Locals /\ pc[c] = "idle" /\ status = "running"
    BY <1>1 DEF Begin, At, TypeInv, ControlOK
  <2>2. /\ pc'[c] = p /\ loc'[c] = [loc[c] EXCEPT !.dst = d, !.req = q]
        /\ \A o \in Context \ {c} : pc'[o] = pc[o]
    BY <1>1 DEF Begin, Goto, TypeInv, ControlOK
  <2>3. loc'[c].dst = d /\ loc'[c].req = q
    BY <2>1, <2>2 DEF Locals
  <2>4. SlotTimers' = SlotTimers /\ UNCHANGED <<hosts, pnrs, asked, status>>
    BY <1>1, TimersFrame DEF Begin, files, slots
  <2>5. shown = Present => Unmoved /\ asked = shown.asked
    BY DEF Present, Unmoved
  <2>6. shown = Present /\ shown' = shown => Progress(c)'
    BY <1>1, <2>2, <2>3, <2>4, <2>5
       DEF Progress, WhoAt, Found, ThreadDone, ExpiryDone, TimerDone, Unmoved,
           UnmovedLabels, WatcherLabels, ListenerLabels
  <2>7. QED BY <1>1, <2>1, <2>2, <2>4, <2>6 DEF Begins
<1>2. Listener \in Context /\ Watcher \in Context
  BY DEF Context
<1>3. ASSUME NEW d \in Addr, ReadRoute(d) PROVE \E c \in Context : Begins(c)
  BY <1>1, <1>2, <1>3 DEF ReadRoute
<1>4. ASSUME NEW d \in Addr, RecvNrep(d) PROVE \E c \in Context : Begins(c)
  BY <1>1, <1>2, <1>4 DEF RecvNrep
<1>5. ASSUME NEW d \in Addr, NEW q \in Requester, RecvNreq(d, q) PROVE \E c \in Context : Begins(c)
  BY <1>1, <1>2, <1>5 DEF RecvNreq
<1>6. QED BY <1>3, <1>4, <1>5 DEF Input

LEMMA ExpireBegins ==
  ASSUME TypeInv, NEW h \in Handler, NEW i \in Slot, Expire(h, i)
  PROVE  Begins(h)
<1>0. h \in Context
  BY DEF Context
<1>1. /\ pc[h] = "idle" /\ status = "running" /\ status' = status /\ pc'[h] = "get"
      /\ \A o \in Context \ {h} : pc'[o] = pc[o]
  BY <1>0 DEF Expire, At, Goto, TypeInv, ControlOK
<1>2. SlotTimers' = SlotTimers /\ UNCHANGED <<hosts, pnrs, asked>>
  BY TimersFrame DEF Expire, files
<1>3. shown = Present => Unmoved /\ asked = shown.asked
  BY DEF Present, Unmoved
<1>4. shown = Present /\ shown' = shown => Progress(h)'
  BY <1>1, <1>2, <1>3
     DEF Progress, WhoAt, Found, ThreadDone, ExpiryDone, TimerDone, Unmoved,
         UnmovedLabels, WatcherLabels, ListenerLabels
<1>5. QED BY <1>1, <1>4 DEF Begins

LEMMA Movers ==
  ASSUME TypeInv, Next
  PROVE  /\ status = "running"
         /\ \/ \E c \in Context : Run(c)
            \/ \E c \in Context : Begins(c)
            \/ status' = "wild"
<1>1. ASSUME NEW c \in Context, Run(c) PROVE status = "running"
  BY <1>1, RunFrame
<1>2. ASSUME NEW h \in Handler, NEW i \in Slot, Expire(h, i) PROVE h \in Context /\ Begins(h)
  BY <1>2, ExpireBegins DEF Context
<1>3. ASSUME NEW h \in Handler, ExpireWild(h) PROVE status = "running" /\ status' = "wild"
  BY <1>3 DEF ExpireWild, At, Die
<1>4. QED BY <1>1, <1>2, <1>3, InputBegins DEF Next, Expiry, Begins

LEMMA HistoryMonotone ==
  ASSUME TypeInv, Next
  PROVE  (raced => raced') /\ (early => early')
<1>1. ASSUME NEW c \in Context, Quiet(c) PROVE UNCHANGED <<raced, early>>
  BY <1>1 DEF Quiet, slots
<1>2. ASSUME NEW c \in Context, TimerStep(c) PROVE (raced => raced') /\ (early => early')
  <2>1. CASE Claim(c)
    BY <2>1, Zenon DEF Claim
  <2>2. CASE ~Claim(c)
    <3>1. UNCHANGED <<raced, early>>
      BY <1>2, <2>2 DEF TimerStep, MakeTimer, PutTimer, GetTimer, DeleteTimer, ResetSlot,
                        LookupExpired, slots
    <3>2. QED BY <3>1
  <2>3. QED BY <2>1, <2>2
<1>3. ASSUME NEW h \in Handler, NEW i \in Slot, Expire(h, i)
      PROVE  (raced => raced') /\ (early => early')
  BY <1>3 DEF Expire
<1>4. ASSUME NEW h \in Handler, ExpireWild(h) PROVE UNCHANGED <<raced, early>>
  BY <1>4 DEF ExpireWild, slots
<1>5. QED BY <1>1, <1>2, <1>3, <1>4, StepKinds

ShownType ==
  [hosts : SUBSET Addr, pnrs : [Addr -> SUBSET (Requester \cup {Local})],
   timers : [Slot -> Addr \cup {None}], asked : SUBSET Addr, up : BOOLEAN]

LEMMA PresentType == TypeInv => Present \in ShownType
<1> SUFFICES ASSUME TypeInv PROVE Present \in ShownType
  OBVIOUS
<1>1. SlotTimers \in [Slot -> Addr \cup {None}]
  BY KeyFacts DEF SlotTimers, TypeInv, DataOK
<1>2. QED BY <1>1 DEF Present, TypeInv, DataOK, ShownType

-----------------------------------------------------------------------------
(* The station when it rests *)

LEMMA RecordFacts ==
  ASSUME Record
  PROVE  /\ Resting' => shown' = Present'
         /\ ~Resting' => shown' = shown
         /\ ~Resting' /\ (mixed \/ Overlap') => mixed'
BY Zenon DEF Record

LEMMA ShownStep ==
  ASSUME TypeInv, TypeInv', ShownOK, Next, Record
  PROVE  ShownOK'
<1>1. CASE Resting'
  <2>1. shown' = Present'
    BY <1>1, RecordFacts
  <2>2. (Present \in ShownType)'
    BY PresentType, PTL
  <2>3. status' = "running" => shown'.up = TRUE
    BY <2>1 DEF Present
  <2>4. QED BY <2>1, <2>2, <2>3 DEF ShownOK, ShownType
<1>2. CASE ~Resting'
  BY <1>2, RecordFacts, Movers DEF ShownOK
<1>3. QED BY <1>1, <1>2

\* The context that moves is the one at work, unless two are now.
LEMMA SoloMoves ==
  ASSUME TypeInv, TidyInv, SlotsAccounted, SoloInv, Next, Record,
         ~mixed, ~Resting, ~raced', ~early'
  PROVE  \/ Spoilt'
         \/ \E c \in Context : Run(c) /\ Outcome(c) /\ Alone(c)
         \/ ~Resting' /\ Overlap'
<1>0. status = "running" /\ Tidy /\ ShownOK /\ ~raced /\ ~early
  BY Movers, HistoryMonotone DEF TidyInv, SoloInv
<1>1. PICK o \in Context : pc[o] # "idle"
  BY <1>0 DEF Resting
<1>2. Alone(o)
  BY <1>1 DEF Alone, SoloInv, Overlap
<1>3. ASSUME NEW c \in Context, Run(c) PROVE Outcome(c) /\ Alone(c)
  <2>1. c = o
    BY <1>2, <1>3, RunFrame DEF Alone
  <2>2. Progress(c)
    BY <1>0, <1>1, <2>1 DEF SoloInv
  <2>3. QED BY <1>0, <1>2, <1>3, <2>1, <2>2, RunSolo
<1>4. ASSUME NEW c \in Context, Begins(c) PROVE ~Resting' /\ Overlap'
  <2>1. c # o /\ pc'[o] # "idle" /\ pc'[c] # "idle" /\ status' = "running"
    BY <1>1, <1>4 DEF Begins
  <2>2. QED BY <2>1 DEF Resting, Overlap
<1>5. ASSUME status' = "wild" PROVE Spoilt'
  BY <1>5 DEF Spoilt
<1>6. QED BY <1>3, <1>4, <1>5, Movers

LEMMA SoloStep ==
  ASSUME TypeInv, TypeInv', TidyInv, SlotsAccounted, SoloInv, Next, Record
  PROVE  SoloInv'
<1>1. ShownOK'
  BY ShownStep DEF SoloInv
<1>2. ASSUME ~Resting', ~mixed', ~raced', ~early', NEW c \in Context, pc'[c] # "idle"
      PROVE  Progress(c)'
  <2>0. ~mixed /\ ~Overlap' /\ shown' = shown /\ status' = "running"
    BY <1>2, RecordFacts DEF Resting
  <2>1. \A o \in Context \ {c} : pc'[o] = "idle"
    BY <1>2, <2>0 DEF Overlap
  <2>2. CASE Resting
    <3>1. shown = Present /\ status = "running" /\ \A o \in Context : pc[o] = "idle"
      BY <2>2, Movers DEF SoloInv, Resting
    <3>2. ASSUME NEW o \in Context, Begins(o) PROVE Progress(c)'
      <4>1. o = c
        BY <2>1, <3>2 DEF Begins
      <4>2. QED BY <2>0, <3>1, <3>2, <4>1 DEF Begins
    <3>3. ASSUME NEW o \in Context, Run(o) PROVE FALSE
      BY <3>1, <3>3, RunFrame
    <3>4. QED BY <2>0, <3>2, <3>3, Movers
  <2>3. CASE ~Resting
    <3>1. PICK o \in Context : Run(o) /\ Outcome(o) /\ Alone(o)
      <4>1. ~Spoilt'
        BY <1>2, <2>0 DEF Spoilt
      <4>2. QED BY <1>2, <2>0, <2>3, <4>1, SoloMoves
    <3>2. o = c
      BY <1>2, <3>1, RunFrame DEF Alone
    <3>3. QED BY <1>2, <2>0, <3>1, <3>2 DEF Outcome, Spoilt
  <2>4. QED BY <2>2, <2>3
<1>3. QED BY <1>1, <1>2, RecordFacts DEF SoloInv

LEMMA ActStep ==
  ASSUME TypeInv, TidyInv, SlotsAccounted, SoloInv, Next, Record
  PROVE  [mixed \/ Spoilt' \/ Atomic!Next]_<<shown>>
<1> SUFFICES ASSUME ~mixed, ~Spoilt', shown' # shown PROVE Atomic!Next
  OBVIOUS
<1>1. Resting' /\ shown' = Present'
  BY RecordFacts
<1>2. ~raced' /\ ~early' /\ status' \in {"running", "exhausted"}
  BY DEF Spoilt
<1>3. CASE Resting
  <2>1. status = "running" /\ \A o \in Context : pc[o] = "idle"
    BY <1>3, Movers DEF Resting
  <2>2. ASSUME NEW o \in Context, Run(o) PROVE FALSE
    BY <2>1, <2>2, RunFrame
  <2>3. ASSUME NEW o \in Context, Begins(o) PROVE FALSE
    BY <1>1, <2>3 DEF Begins, Resting
  <2>4. QED BY <1>2, <2>2, <2>3, Movers
<1>4. CASE ~Resting
  <2>1. PICK c \in Context : Run(c) /\ Outcome(c) /\ Alone(c)
    BY <1>1, <1>2, <1>4, SoloMoves
  <2>2. pc'[c] = "idle" \/ status' # "running"
    BY <1>1 DEF Resting
  <2>3. QED BY <1>1, <2>1, <2>2 DEF Outcome, Ends
<1>5. QED BY <1>3, <1>4

\* The history variables change nothing: what is proved of NodeThreads holds.
LEMMA RecordedRuns == RecordedSpec => Spec
<1>1. [Next /\ Record]_<<vars, history>> => [Next]_vars
  OBVIOUS
<1>2. QED BY <1>1, PTL DEF RecordedSpec, RecordedInit, Spec

LEMMA SoloInvariant == RecordedSpec => [](TypeInv /\ TidyInv /\ SlotsAccounted /\ SoloInv)
<1>1. RecordedInit => SoloInv
  <2> SUFFICES ASSUME RecordedInit PROVE SoloInv
    OBVIOUS
  <2>1. shown = Present /\ status = "running" /\ \A c \in Context : pc[c] = "idle"
    BY DEF RecordedInit, Init
  <2>2. Present \in ShownType
    BY PresentType, TypeInit DEF RecordedInit
  <2>3. ShownOK
    BY <2>1, <2>2 DEF ShownOK, ShownType, Present
  <2>4. QED BY <2>1, <2>3 DEF SoloInv, Resting
<1>2. TypeInv /\ TypeInv' /\ TidyInv /\ SlotsAccounted /\ SoloInv /\ [Next /\ Record]_<<vars, history>>
        => SoloInv'
  <2>1. ASSUME SoloInv, UNCHANGED <<vars, history>> PROVE SoloInv'
    <3>1. /\ UNCHANGED <<hosts, pnrs, timers, timer_ids, pc, loc, copy, status, asked, raced, early>>
          /\ UNCHANGED <<shown, mixed>>
      BY <2>1 DEF vars, files, slots, history
    <3>2. SlotTimers' = SlotTimers /\ Present' = Present /\ (Resting' <=> Resting)
          /\ (Overlap' <=> Overlap)
      BY <3>1, TimersFrame DEF Present, Resting, Overlap
    <3>3. \A c \in Context : Bases(c)' = Bases(c) /\ \A B : Starting(c, B) <=> Starting(c, B)'
      BY <3>1 DEF Bases, Starting
    <3>4. ASSUME NEW c \in Context PROVE TimerDone(c) => TimerDone(c)'
      BY <3>1, <3>2, <3>3 DEF TimerDone, Searching, Chosen, Started, Unmoved
    <3>5. ASSUME NEW c \in Context PROVE Progress(c) => Progress(c)'
      BY <3>1, <3>2, <3>4 DEF Progress, WhoAt, Found, ThreadDone, ExpiryDone, Unmoved
    <3>6. QED BY <2>1, <3>1, <3>2, <3>5 DEF SoloInv, ShownOK
  <2>2. QED BY <2>1, SoloStep
<1>3. QED
  BY <1>1, <1>2, RecordedRuns, TypeInvariant, TidyInvariant, SlotsAlwaysAccounted, PTL
     DEF RecordedSpec

\* Whatever its threads and handlers did to each other before, a handler of the
\* station that runs while no other does is one step of the station with atomic
\* handlers, from the tables it found to those it leaves.
THEOREM ActsAsOneStation == RecordedSpec => ActsAsStation
<1>1. RecordedInit => Atomic!Init
  <2> SUFFICES ASSUME RecordedInit PROVE Atomic!Init
    OBVIOUS
  <2>1. SlotTimers = [i \in Slot |-> None]
    BY DEF RecordedInit, Init, SlotTimers
  <2>2. QED BY <2>1 DEF RecordedInit, Init, Present, Atomic!Init, Atomic!Slot, Slot
<1>2. TypeInv /\ TidyInv /\ SlotsAccounted /\ SoloInv /\ [Next /\ Record]_<<vars, history>>
        => [mixed \/ Spoilt' \/ Atomic!Next]_<<shown>>
  BY ActStep DEF history
<1>3. QED BY <1>1, <1>2, SoloInvariant, PTL DEF RecordedSpec, ActsAsStation

===============================================================================
