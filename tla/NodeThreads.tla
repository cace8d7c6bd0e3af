------------------------------ MODULE NodeThreads ------------------------------
(***************************************************************************)
(* One station from the inside: the listener thread, the route watcher     *)
(* thread and the runs of timeout_handler, which share pnrs, timers,       *)
(* timer_ids and /etc/hosts.                                               *)
(*                                                                         *)
(* Granularity: a step makes one access to shared state. A call on a hash  *)
(* table is one access (CfuHash implements HashMap); reading /etc/hosts is *)
(* one, appending a line is one, rewriting the file is several; timer_ids  *)
(* and the lists have no lock, so each read and write of them is a step,   *)
(* but for timer_ids[*timer_id - 1] = 0: only where a slot is taken twice  *)
(* can another write it between that read and write, and no property can   *)
(* tell the two orders apart.                                              *)
(* A handler that interrupts one of the threads keeps that thread from     *)
(* running, which is one of the schedules of a handler run of its own.     *)
(*                                                                         *)
(* Abstraction: names are left out, /etc/hosts is the set of addresses that*)
(* have a line. A list is append-only and is the set of its values; whoever*)
(* holds one whose entry has been deleted or replaced holds garbage.       *)
(***************************************************************************)
EXTENDS Naturals, FiniteSets

CONSTANTS
  Addr,               \* addresses
  Self,               \* own_addr
  Requester,          \* stations that send NREQs to this one
  None, Local,        \* NULL as an address, NULL as a requester
  Listener, Watcher,  \* the two threads
  Handler,            \* the contexts in which timeout_handler can run
  N_TIMERS,           \* length of timer_ids
  MaxInputs           \* bound: lines and datagrams read

Context == {Listener, Watcher} \cup Handler

ASSUME NodeAssumption ==
  /\ IsFiniteSet(Addr) /\ IsFiniteSet(Handler)
  /\ Self \in Addr /\ None \notin Addr /\ Local \notin Requester
  /\ Listener # Watcher /\ Listener \notin Handler /\ Watcher \notin Handler
  /\ N_TIMERS \in Nat \ {0} /\ MaxInputs \in Nat

VARIABLES
  hosts,      \* addresses with a line in /etc/hosts
  pnrs,       \* pnrs[d]: the requesters list of d, {} if there is no entry
  timers,     \* timers[k]: the address under the decimal string of k, or None
  timer_ids,  \* timer_ids[i] = i if the slot is taken, 0 if it is free
  armed,      \* armed[i]: running POSIX timers that point to slot i
  pc, loc,    \* control and local variables of each context
  copy,       \* the lines remove_name has read
  status,     \* "running", or what ended the process
  inputs,     \* number of lines and datagrams read
  asked,      \* addresses an NREQ was sent for
  kept,       \* history: names appended while /etc/hosts was not rewritten
  misled,     \* history: names held unknown by who goes on to register them
  raced,      \* history: a slot was taken that had been taken meanwhile
  early       \* history: a timer expired before it was in timers

files == <<hosts, copy, kept, misled>>
slots == <<timer_ids, armed, raced, early>>
vars == <<files, pnrs, timers, slots, pc, loc, status, inputs, asked>>

Slot == 1..N_TIMERS
Key == 0..N_TIMERS  \* 0 stands for what lies before the array

\* dst: the address handled. req: the requester to register. slot: the index
\* scanned or taken, in a handler the slot its timer points to. key: what the
\* handler read from it. held: the list got from pnrs is still that of dst.
\* seen: what the list held when push reached its end.
Locals == [dst : Addr \cup {None}, req : Requester \cup {Local}, slot : Nat,
           key : Key, held : BOOLEAN, seen : SUBSET (Requester \cup {Local})]

Blank == [dst |-> None, req |-> Local, slot |-> 0, key |-> 0, held |-> FALSE,
          seen |-> {}]

PC == {"idle", "reg", "exists", "push", "link", "fill", "new", "scan", "claim",
       "arm", "put", "send", "added", "pending", "removed", "drop", "forget",
       "snap", "trunc", "write", "nreq", "nrep", "cache", "append", "respond",
       "answered", "get", "del", "reset", "expired", "clean", "route"}

TypeOK ==
  /\ hosts \subseteq Addr /\ copy \subseteq Addr
  /\ kept \subseteq Addr /\ misled \subseteq Addr
  /\ pnrs \in [Addr -> SUBSET (Requester \cup {Local})]
  /\ timers \in [Key -> Addr \cup {None}]
  /\ timer_ids \in [Slot -> Key] /\ \A i \in Slot : timer_ids[i] \in {0, i}
  /\ armed \in [Key -> Nat]
  /\ pc \in [Context -> PC]
  /\ loc \in [Context -> Locals]
  /\ status \in {"running", "exhausted", "wild", "null", "torn"}
  /\ inputs \in 0..MaxInputs
  /\ asked \subseteq Addr
  /\ raced \in BOOLEAN /\ early \in BOOLEAN

Init ==
  /\ hosts = {Self} /\ copy = {} /\ kept = {Self} /\ misled = {}
  /\ pnrs = [d \in Addr |-> {}]
  /\ timers = [k \in Key |-> None]
  /\ timer_ids = [i \in Slot |-> 0]
  /\ armed = [k \in Key |-> 0]
  /\ pc = [c \in Context |-> "idle"]
  /\ loc = [c \in Context |-> Blank]
  /\ status = "running"
  /\ inputs = 0
  /\ asked = {}
  /\ raced = FALSE /\ early = FALSE

-----------------------------------------------------------------------------

At(c, label) == status = "running" /\ pc[c] = label

Goto(c, label) == pc' = [pc EXCEPT ![c] = label]

\* The end of a handler: its locals are forgotten.
Finish(c) == Goto(c, "idle") /\ loc' = [loc EXCEPT ![c] = Blank]

Die(cause) == status' = cause /\ UNCHANGED <<pc, loc>>

Dst(c) == loc[c].dst

\* The locals once the entry of d in pnrs has been deleted or replaced.
Detached(d) ==
  [c \in Context |-> IF Dst(c) = d THEN [loc[c] EXCEPT !.held = FALSE] ELSE loc[c]]

DeleteEntry(d) == pnrs' = [pnrs EXCEPT ![d] = {}]

-----------------------------------------------------------------------------
(* register_nreq, in the listener and in the watcher *)

\* The watcher goes on to send an NREQ, the listener is done.
Registered(c) ==
  \/ c = Watcher /\ Goto(c, "send") /\ UNCHANGED loc
  \/ c = Listener /\ Finish(c)

Lookup(c) ==
  /\ At(c, "reg")
  /\ \/ pnrs[Dst(c)] # {} /\ Goto(c, "exists") /\ loc' = [loc EXCEPT ![c].held = TRUE]
     \/ pnrs[Dst(c)] = {} /\ Goto(c, "new") /\ UNCHANGED loc
  /\ UNCHANGED <<files, pnrs, timers, slots, status, inputs, asked>>

\* exists_in_list; a NULL is never found. What is done to a list that nobody
\* finds any more is of no interest.
ExistsInList(c) ==
  LET known == loc[c].req # Local /\ loc[c].req \in pnrs[Dst(c)] IN
  /\ At(c, "exists")
  /\ \/ loc[c].held /\ ~known /\ Goto(c, "push") /\ UNCHANGED loc
     \/ (loc[c].held => known) /\ Registered(c)
  /\ UNCHANGED <<files, pnrs, timers, slots, status, inputs, asked>>

\* push walks to the last node ...
PushWalk(c) ==
  /\ At(c, "push")
  /\ Goto(c, "link")
  /\ loc' = [loc EXCEPT ![c].seen = pnrs[Dst(c)]]
  /\ UNCHANGED <<files, pnrs, timers, slots, status, inputs, asked>>

\* ... links a node behind it, cutting off what was linked there meanwhile ...
PushLink(c) ==
  LET l == loc[c]
      reached == l.held /\ l.seen \subseteq pnrs[l.dst]
  IN
  /\ At(c, "link")
  /\ Goto(c, "fill")
  /\ pnrs' = IF reached THEN [pnrs EXCEPT ![l.dst] = l.seen \cup {l.req}] ELSE pnrs
  /\ UNCHANGED <<files, timers, slots, loc, status, inputs, asked>>

\* ... and only then sets the node's val and next.
PushFill(c) ==
  /\ At(c, "fill")
  /\ Registered(c)
  /\ UNCHANGED <<files, pnrs, timers, slots, status, inputs, asked>>

\* Another thread that walks the list before that may follow any pointer.
TornWalk(c) ==
  /\ \E label \in {"exists", "push", "respond"} : At(c, label)
  /\ \E o \in {Listener, Watcher} \ {c} :
       /\ pc[o] = "fill" /\ Dst(o) = Dst(c)
       /\ loc[o].held = (pc[c] = "respond" \/ loc[c].held)
  /\ Die("torn")
  /\ UNCHANGED <<files, pnrs, timers, slots, inputs, asked>>

\* new_linked_list and cfuhash_put: whatever list is there is replaced.
NewEntry(c) ==
  LET d == Dst(c) IN
  /\ At(c, "new")
  /\ pnrs' = [pnrs EXCEPT ![d] = {loc[c].req}]
  /\ Goto(c, "scan")
  /\ loc' = [Detached(d) EXCEPT ![c].slot = 1]
  /\ UNCHANGED <<files, timers, slots, status, inputs, asked>>

-----------------------------------------------------------------------------
(* Starting a timer, in register_nreq and in timeout_handler *)

\* next_free_timer_id looks at one slot after the other, ...
Scan(c) ==
  LET i == loc[c].slot IN
  /\ At(c, "scan") /\ i \in Slot
  /\ \/ timer_ids[i] = 0 /\ Goto(c, "claim") /\ UNCHANGED loc
     \/ timer_ids[i] # 0 /\ loc' = [loc EXCEPT ![c].slot = i + 1] /\ UNCHANGED pc
  /\ UNCHANGED <<files, pnrs, timers, slots, status, inputs, asked>>

\* Mutant: the last slot is not looked at.
ExhaustedEarly(c) ==
  /\ At(c, "scan") /\ loc[c].slot >= N_TIMERS
  /\ Die("exhausted")
  /\ UNCHANGED <<files, pnrs, timers, slots, inputs, asked>>

\* ... returns NULL when none is free, which the callers dereference, ...
Exhausted(c) ==
  /\ At(c, "scan") /\ loc[c].slot > N_TIMERS
  /\ Die("exhausted")
  /\ UNCHANGED <<files, pnrs, timers, slots, inputs, asked>>

\* Mutant: the number written is that of the slot after.
ClaimNextId(c) ==
  LET i == loc[c].slot IN
  /\ At(c, "claim")
  /\ timer_ids' = [timer_ids EXCEPT ![i] = i + 1]
  /\ raced' = (raced \/ timer_ids[i] # 0)
  /\ Goto(c, "arm")
  /\ UNCHANGED <<files, pnrs, timers, armed, early, loc, status, inputs, asked>>

\* ... and writes the one it found free.
Claim(c) ==
  LET i == loc[c].slot IN
  /\ At(c, "claim")
  /\ timer_ids' = [timer_ids EXCEPT ![i] = i]
  /\ raced' = (raced \/ timer_ids[i] # 0)
  /\ Goto(c, "arm")
  /\ UNCHANGED <<files, pnrs, timers, armed, early, loc, status, inputs, asked>>

\* Mutant: timer_create without timer_settime.
MakeTimerUnset(c) ==
  /\ At(c, "arm")
  /\ Goto(c, "put")
  /\ UNCHANGED <<files, pnrs, timers, slots, loc, status, inputs, asked>>

\* make_timer gets the address of the slot that *timer_id_index numbers.
MakeTimer(c) ==
  /\ At(c, "arm")
  /\ armed' = [armed EXCEPT ![timer_ids[loc[c].slot]] = @ + 1]
  /\ Goto(c, "put")
  /\ UNCHANGED <<files, pnrs, timers, timer_ids, raced, early, loc, status, inputs, asked>>

\* cfuhash_put under the number *timer_id_index has now.
PutTimer(c) ==
  /\ At(c, "put")
  /\ timers' = [timers EXCEPT ![timer_ids[loc[c].slot]] = Dst(c)]
  /\ \/ c # Listener /\ Goto(c, "send") /\ UNCHANGED loc
     \/ c = Listener /\ Finish(c)
  /\ UNCHANGED <<files, pnrs, slots, status, inputs, asked>>

\* request_name.
Send(c) ==
  /\ At(c, "send")
  /\ asked' = asked \cup {Dst(c)}
  /\ Finish(c)
  /\ UNCHANGED <<files, pnrs, timers, slots, status, inputs>>

-----------------------------------------------------------------------------
(* watch_routes *)

Begin(c, label, d, requester) ==
  /\ At(c, "idle")
  /\ inputs < MaxInputs
  /\ inputs' = inputs + 1
  /\ Goto(c, label)
  /\ loc' = [loc EXCEPT ![c].dst = d, ![c].req = requester]
  /\ UNCHANGED <<files, pnrs, timers, slots, status, asked>>

\* A line of `ip monitor route`, never about the station itself.
ReadRoute(d) ==
  /\ d # Self
  /\ Begin(Watcher, "added", d, Local) \/ Begin(Watcher, "removed", d, Local)

RouteAdded ==
  /\ At(Watcher, "added")
  /\ \/ Dst(Watcher) \in hosts /\ Finish(Watcher)
     \/ Dst(Watcher) \notin hosts /\ Goto(Watcher, "pending") /\ UNCHANGED loc
  /\ UNCHANGED <<files, pnrs, timers, slots, status, inputs, asked>>

RoutePending ==
  /\ At(Watcher, "pending")
  /\ \/ pnrs[Dst(Watcher)] # {} /\ Goto(Watcher, "send")
     \/ pnrs[Dst(Watcher)] = {} /\ Goto(Watcher, "reg")
  /\ UNCHANGED <<files, pnrs, timers, slots, loc, status, inputs, asked>>

RouteRemoved ==
  /\ At(Watcher, "removed")
  /\ \/ pnrs[Dst(Watcher)] # {} /\ Goto(Watcher, "drop")
     \/ pnrs[Dst(Watcher)] = {} /\ Goto(Watcher, "forget")
  /\ UNCHANGED <<files, pnrs, timers, slots, loc, status, inputs, asked>>

DropPnr ==
  /\ At(Watcher, "drop")
  /\ DeleteEntry(Dst(Watcher))
  /\ loc' = Detached(Dst(Watcher))
  /\ Goto(Watcher, "forget")
  /\ UNCHANGED <<files, timers, slots, status, inputs, asked>>

\* As in the source, remove_name is called when the name is not cached.
ForgetName ==
  /\ At(Watcher, "forget")
  /\ \/ Dst(Watcher) \in hosts /\ Finish(Watcher)
     \/ Dst(Watcher) \notin hosts /\ Goto(Watcher, "snap") /\ UNCHANGED loc
  /\ UNCHANGED <<files, pnrs, timers, slots, status, inputs, asked>>

\* Mutant: the comparison of remove_name the other way round.
SnapshotOnly ==
  /\ At(Watcher, "snap")
  /\ copy' = hosts \cap {Dst(Watcher)}
  /\ Goto(Watcher, "trunc")
  /\ UNCHANGED <<hosts, kept, misled, pnrs, timers, slots, loc, status, inputs, asked>>

\* remove_name copies all other lines into an auxiliary file.
Snapshot ==
  /\ At(Watcher, "snap")
  /\ copy' = hosts \ {Dst(Watcher)}
  /\ Goto(Watcher, "trunc")
  /\ UNCHANGED <<hosts, kept, misled, pnrs, timers, slots, loc, status, inputs, asked>>

\* copy_file_content opens /etc/hosts for writing, which empties it ...
Truncate ==
  /\ At(Watcher, "trunc")
  /\ hosts' = {}
  /\ Goto(Watcher, "write")
  /\ UNCHANGED <<copy, kept, misled, pnrs, timers, slots, loc, status, inputs, asked>>

\* ... and writes the copy at its beginning, over what was appended meanwhile,
\* of which at least the first line is spoilt.
WriteBack ==
  /\ At(Watcher, "write")
  /\ \E rest \in SUBSET hosts :
       /\ rest = hosts => hosts = {}
       /\ hosts' = copy \cup rest
  /\ copy' = {}
  /\ Finish(Watcher)
  /\ UNCHANGED <<kept, misled, pnrs, timers, slots, status, inputs, asked>>

-----------------------------------------------------------------------------
(* listen_for_nreqs *)

RecvNreq(d, q) == Begin(Listener, "nreq", d, q)

\* A reply comes only to a request that was sent (see NameSpread!Solicited).
RecvNrep(d) == d \in asked /\ Begin(Listener, "nrep", d, Local)

\* While /etc/hosts is being written back a name of its copy is not found.
AnswerNreq ==
  LET d == Dst(Listener)
      missed == pc[Watcher] = "write" /\ d \in copy
  IN
  /\ At(Listener, "nreq")
  /\ \/ d \in hosts /\ Finish(Listener) /\ UNCHANGED misled
     \/ /\ d \notin hosts /\ Goto(Listener, "reg") /\ UNCHANGED loc
        /\ misled' = IF missed THEN misled \cup {d} ELSE misled
  /\ UNCHANGED <<hosts, copy, kept, pnrs, timers, slots, status, inputs, asked>>

AcceptNrep ==
  /\ At(Listener, "nrep")
  /\ \/ Dst(Listener) \in hosts /\ Finish(Listener)
     \/ Dst(Listener) \notin hosts /\ Goto(Listener, "cache") /\ UNCHANGED loc
  /\ UNCHANGED <<files, pnrs, timers, slots, status, inputs, asked>>

\* cache_name looks again ...
CacheName ==
  /\ At(Listener, "cache")
  /\ \/ Dst(Listener) \in hosts /\ Goto(Listener, "respond")
     \/ Dst(Listener) \notin hosts /\ Goto(Listener, "append")
  /\ UNCHANGED <<files, pnrs, timers, slots, loc, status, inputs, asked>>

\* The watcher is on its way to replace /etc/hosts.
Rewriting == pc[Watcher] \in {"snap", "trunc", "write"}

\* Context c has found the name of d unknown and may still register a request.
Registering(c, d) ==
  Dst(c) = d /\ pc[c] \in {"pending", "reg", "exists", "push", "link", "new"}

\* ... and appends.
AppendName ==
  LET d == Dst(Listener) IN
  /\ At(Listener, "append")
  /\ hosts' = hosts \cup {d}
  /\ kept' = IF Rewriting THEN kept ELSE kept \cup {d}
  /\ misled' = IF Registering(Watcher, d) THEN misled \cup {d} ELSE misled
  /\ Goto(Listener, "respond")
  /\ UNCHANGED <<copy, pnrs, timers, slots, loc, status, inputs, asked>>

\* respond_to_pnrs sends to whom it finds in the list.
RespondToPnrs ==
  /\ At(Listener, "respond")
  /\ Goto(Listener, "answered")
  /\ UNCHANGED <<files, pnrs, timers, slots, loc, status, inputs, asked>>

\* Mutant: the entry answered is kept.
DeleteAnsweredNever ==
  /\ At(Listener, "answered")
  /\ Finish(Listener)
  /\ UNCHANGED <<files, pnrs, timers, slots, status, inputs, asked>>

DeleteAnswered ==
  /\ At(Listener, "answered")
  /\ DeleteEntry(Dst(Listener))
  /\ Goto(Listener, "idle")
  /\ loc' = [Detached(Dst(Listener)) EXCEPT ![Listener] = Blank]
  /\ UNCHANGED <<files, timers, slots, status, inputs, asked>>

-----------------------------------------------------------------------------
(* timeout_handler *)

\* A timer that points to slot i expires and the handler reads the slot.
Expire(h, i) ==
  /\ At(h, "idle") /\ armed[i] > 0
  /\ armed' = [armed EXCEPT ![i] = @ - 1]
  /\ early' = (early \/ \E c \in Context : pc[c] = "put" /\ loc[c].slot = i)
  /\ loc' = [loc EXCEPT ![h].slot = i, ![h].key = timer_ids[i]]
  /\ Goto(h, "get")
  /\ UNCHANGED <<files, pnrs, timers, timer_ids, raced, status, inputs, asked>>

\* The same for a timer that points before the array.
ExpireWild(h) ==
  /\ At(h, "idle") /\ armed[0] > 0
  /\ Die("wild")
  /\ UNCHANGED <<files, pnrs, timers, slots, inputs, asked>>

GetTimer(h) ==
  /\ At(h, "get")
  /\ loc' = [loc EXCEPT ![h].dst = timers[loc[h].key]]
  /\ Goto(h, "del")
  /\ UNCHANGED <<files, pnrs, timers, slots, status, inputs, asked>>

DeleteTimer(h) ==
  /\ At(h, "del")
  /\ timers' = [timers EXCEPT ![loc[h].key] = None]
  /\ Goto(h, "reset")
  /\ UNCHANGED <<files, pnrs, slots, loc, status, inputs, asked>>

\* Mutant: the slot is left as it is.
ResetNothing(h) ==
  /\ At(h, "reset")
  /\ Goto(h, "expired")
  /\ UNCHANGED <<files, pnrs, timers, slots, loc, status, inputs, asked>>

\* timer_ids[*timer_id - 1] = 0, a write before the array if *timer_id is 0; the
\* read and the write are one step (see Granularity).
ResetSlot(h) ==
  LET i == loc[h].slot IN
  /\ At(h, "reset")
  /\ \/ /\ timer_ids[i] # 0
        /\ timer_ids' = [timer_ids EXCEPT ![i] = 0]
        /\ Goto(h, "expired")
        /\ UNCHANGED <<loc, status>>
     \/ timer_ids[i] = 0 /\ Die("wild") /\ UNCHANGED timer_ids
  /\ UNCHANGED <<files, pnrs, timers, armed, raced, early, inputs, asked>>

\* Mutant: the slot is freed before its entry in timers is deleted.
TimeoutHandlerSwapped(h) ==
  LET l == loc[h] IN
  \/ /\ At(h, "get") /\ Goto(h, "reset")
     /\ loc' = [loc EXCEPT ![h].dst = timers[l.key]]
     /\ UNCHANGED <<files, pnrs, timers, slots, status, inputs, asked>>
  \/ /\ At(h, "reset") /\ Goto(h, "del")
     /\ timer_ids' = [timer_ids EXCEPT ![l.slot] = 0]
     /\ UNCHANGED <<files, pnrs, timers, armed, raced, early, loc, status, inputs, asked>>
  \/ /\ At(h, "del") /\ Goto(h, "expired")
     /\ timers' = [timers EXCEPT ![l.key] = None]
     /\ UNCHANGED <<files, pnrs, slots, loc, status, inputs, asked>>
  \/ /\ At(h, "expired") /\ l.dst = None /\ Die("null")
     /\ UNCHANGED <<files, pnrs, timers, slots, inputs, asked>>
  \/ /\ At(h, "expired") /\ l.dst # None /\ Finish(h)
     /\ UNCHANGED <<files, pnrs, timers, slots, status, inputs, asked>>

\* Mutant: a timer is set again although nobody waits.
LookupExpiredBlind(h) ==
  LET d == Dst(h) IN
  /\ At(h, "expired")
  /\ \/ d = None /\ Die("null")
     \/ d # None /\ Goto(h, "route") /\ UNCHANGED <<loc, status>>
  /\ UNCHANGED <<files, pnrs, timers, slots, inputs, asked>>

\* cfuhash_get finds nothing under NULL, and cfuhash_delete takes its length.
LookupExpired(h) ==
  LET d == Dst(h) IN
  /\ At(h, "expired")
  /\ \/ d = None /\ Die("null")
     \/ d # None /\ pnrs[d] = {} /\ Goto(h, "clean") /\ UNCHANGED <<loc, status>>
     \/ d # None /\ pnrs[d] # {} /\ Goto(h, "route") /\ UNCHANGED <<loc, status>>
  /\ UNCHANGED <<files, pnrs, timers, slots, inputs, asked>>

\* The entry not found is deleted.
CleanPnr(h) ==
  /\ At(h, "clean")
  /\ DeleteEntry(Dst(h))
  /\ Goto(h, "idle")
  /\ loc' = [Detached(Dst(h)) EXCEPT ![h] = Blank]
  /\ UNCHANGED <<files, timers, slots, status, inputs, asked>>

\* route_exists: the kernel has a route, or none.
RouteExists(h) ==
  /\ At(h, "route")
  /\ \/ Finish(h)
     \/ /\ Dst(h) # Self
        /\ Goto(h, "scan")
        /\ loc' = [loc EXCEPT ![h].slot = 1]
  /\ UNCHANGED <<files, pnrs, timers, slots, status, inputs, asked>>

-----------------------------------------------------------------------------

RegisterNreq(c) ==
  \/ Lookup(c) \/ ExistsInList(c) \/ PushWalk(c) \/ PushLink(c) \/ PushFill(c)
  \/ TornWalk(c) \/ NewEntry(c)

StartTimer(c) == Scan(c) \/ Exhausted(c) \/ Claim(c) \/ MakeTimer(c) \/ PutTimer(c) \/ Send(c)

WatchRoutes ==
  \/ RouteAdded \/ RoutePending
  \/ RouteRemoved \/ DropPnr \/ ForgetName \/ Snapshot \/ Truncate \/ WriteBack

ListenForNreqs ==
  \/ AnswerNreq
  \/ AcceptNrep \/ CacheName \/ AppendName \/ RespondToPnrs \/ DeleteAnswered

TimeoutHandler(h) ==
  GetTimer(h) \/ DeleteTimer(h) \/ ResetSlot(h) \/ LookupExpired(h)
  \/ CleanPnr(h) \/ RouteExists(h)

Input ==
  \/ \E d \in Addr : ReadRoute(d) \/ RecvNrep(d)
  \/ \E d \in Addr, q \in Requester : RecvNreq(d, q)

\* A context goes on with what it has begun.
Run(c) ==
  \/ c \in {Listener, Watcher} /\ RegisterNreq(c)
  \/ StartTimer(c)
  \/ c = Watcher /\ WatchRoutes
  \/ c = Listener /\ ListenForNreqs
  \/ c \in Handler /\ TimeoutHandler(c)

Expiry(i) == \E h \in Handler : Expire(h, i)

Next ==
  \/ Input
  \/ \E c \in Context : Run(c)
  \/ \E i \in Slot : Expiry(i)
  \/ \E h \in Handler : ExpireWild(h)

Spec == Init /\ [][Next]_vars

\* Threads and handlers run on, and the signals of expired timers, which are
\* queued, are delivered although the contexts are busy again and again. Calls on
\* the tables are taken to return; TableLocks shows when one does not.
Fairness ==
  /\ \A c \in Context : WF_vars(Run(c))
  /\ \A i \in Slot : SF_vars(Expiry(i))

-----------------------------------------------------------------------------
(* Properties *)

\* A name stays in /etc/hosts once it is there, the station's own included,
\* unless it was appended while remove_name was replacing the file; only in the
\* middle of that are names missing.
NamesKept == pc[Watcher] = "write" \/ kept \subseteq hosts

\* No slot is lost, although timer_ids has no lock and a slot may be taken
\* twice: for every slot taken there is a running timer, or a context about to
\* start one or to reset it.
SlotsAccounted ==
  \A i \in Slot :
    timer_ids[i] # 0 =>
      \/ armed[i] > 0
      \/ \E c \in Context :
           loc[c].slot = i /\ pc[c] \in {"arm", "get", "del", "reset"}

\* The handler looks up NULL, or writes outside timer_ids, only after two
\* contexts have taken the same slot or a timer has expired before its entry
\* was made: that timers is cleared before the slot is freed, and the entry made
\* before the slot can be read again, rules out every other way.
CrashExplained == status \in {"wild", "null"} => raced \/ early

\* The comments of watch_routes, "name for dst_addr is not known" and "not
\* known but has already been requested": a request for a name that is known is
\* pending only while the listener is about to delete it, or because whoever
\* registered it looked before the listener appended the name, or looked while
\* the file was being written back. NREPs for a known name do not delete such a
\* request, and it is repeated at every expiry.
PendingExplained ==
  \A d \in hosts :
    pnrs[d] # {} => \/ d \in misled
                    \/ Dst(Listener) = d /\ pc[Listener] \in {"respond", "answered"}

\* A slot taken is free again at some time, unless the process ends.
SlotsReturn ==
  \A i \in Slot : timer_ids[i] # 0 ~> (timer_ids[i] = 0 \/ status # "running")

\* The comment of register_nreq, "If a pending NREQ for dst_addr already exists
\* in the PNRs table, add requester_addr to the associated requesters list", and
\* that of timeout_handler where it deletes, "NREP already received or route has
\* been lost": neither takes a requester off a list.
RequestsKept ==
  [][\A c \in Context :
       pc[c] \in {"new", "link", "clean"} /\ pc'[c] # pc[c]
         => pnrs[Dst(c)] \subseteq pnrs'[Dst(c)]]_vars

=============================================================================
