------------------------------ MODULE TableLocks ------------------------------
(***************************************************************************)
(* The mutexes of pnrs and timers, and the signal handler that needs them. *)
(*                                                                         *)
(* A timer's signal is sent to the process, so timeout_handler runs on top *)
(* of whichever thread the kernel picks, in the middle of what that thread *)
(* is doing, and keeps it from going on. make_timer installs it with an    *)
(* empty mask and without SA_NODEFER: a thread runs it once at a time. Both*)
(* the threads and the handler call the hash tables, whose mutexes are     *)
(* plain ones: whoever locks one that is held waits, its holder included.  *)
(*                                                                         *)
(* Abstraction: the control flow from one call on a table to the next; what*)
(* the calls return is a choice among the calls that may follow.           *)
(***************************************************************************)
EXTENDS Integers

CONSTANTS
  Thread,             \* the threads of the process, main and log_info too
  Listener, Watcher,  \* those of listen_for_nreqs and watch_routes
  None,               \* no holder
  MaxInputs,          \* bound: lines and datagrams read
  MaxExpiries         \* bound: signals delivered

Frame == Thread \X {"own", "handler"}
Own(t) == <<t, "own">>
Handler(t) == <<t, "handler">>

ASSUME LocksAssumption ==
  /\ {Listener, Watcher} \subseteq Thread /\ Listener # Watcher
  /\ None \notin Frame
  /\ MaxInputs \in Nat /\ MaxExpiries \in Nat

Table == {"pnrs", "timers"}

\* The calls on the tables, function by function: what may follow each in this
\* function or in one it calls.
watch_routes ==
  [pending |-> {"lookup", "idle"}, removed |-> {"drop", "idle"}, drop |-> {"idle"}]

\* With respond_to_pnrs; an NREQ leads to register_nreq.
listen_for_nreqs == [respond |-> {"answered"}, answered |-> {"idle"}]

register_nreq == [lookup |-> {"enter", "idle"}, enter |-> {"start"}, start |-> {"idle"}]

timeout_handler ==
  [expired |-> {"forget"}, forget |-> {"wanted"}, wanted |-> {"clean", "restart", "idle"},
   clean |-> {"idle"}, restart |-> {"idle"}]

HandlerCall == DOMAIN timeout_handler
Call == DOMAIN watch_routes \cup DOMAIN listen_for_nreqs \cup DOMAIN register_nreq
          \cup HandlerCall

TableOf(call) ==
  IF call \in {"start", "expired", "forget", "restart"} THEN "timers" ELSE "pnrs"

\* Those that put or delete, after which the table may be rehashed.
Changing == {"drop", "answered", "enter", "start", "forget", "clean", "restart"}

\* Mutant: the handler registers the request again with register_nreq.
FollowRegister(call) ==
  CASE call = "wanted" -> {"lookup", "clean", "idle"}
    [] call = "expired" -> {"forget"}
    [] call = "forget" -> {"wanted"}
    [] OTHER -> {"idle"}

Follow(call) ==
  CASE call \in DOMAIN watch_routes -> watch_routes[call]
    [] call \in DOMAIN listen_for_nreqs -> listen_for_nreqs[call]
    [] call \in DOMAIN register_nreq -> register_nreq[call]
    [] call \in DOMAIN timeout_handler -> timeout_handler[call]

\* The first call for a line or a datagram that leads to one.
First(t) ==
  CASE t = Watcher -> {"pending", "removed"}
    [] t = Listener -> {"lookup", "respond"}
    [] OTHER -> {}

VARIABLES
  at,        \* at[f]: the call frame f is in, "idle" if it is in none
  rehashing, \* the frames that are in the cfuhash_rehash after their call
  owner,     \* owner[m]: the frame that holds the mutex of table m, or None
  inputs,    \* number of lines and datagrams read
  expiries   \* number of signals delivered

vars == <<at, rehashing, owner, inputs, expiries>>

TypeOK ==
  /\ at \in [Frame -> Call \cup {"idle"}]
  /\ \A t \in Thread :
       /\ at[Own(t)] \notin HandlerCall
       /\ at[Handler(t)] \in HandlerCall \cup {"idle"}
  /\ rehashing \subseteq {f \in Frame : at[f] \in Changing}
  /\ owner \in [Table -> Frame \cup {None}]
  /\ inputs \in 0..MaxInputs /\ expiries \in 0..MaxExpiries

Init ==
  /\ at = [f \in Frame |-> "idle"]
  /\ rehashing = {}
  /\ owner = [m \in Table |-> None]
  /\ inputs = 0 /\ expiries = 0

-----------------------------------------------------------------------------

Active(f) == at[f] # "idle"

\* Mutant: a handler runs in a thread of its own.
SuspendedNever(f) == Active(f) /\ f \notin Frame

\* A frame runs unless a handler runs on top of it.
Suspended(f) == f[2] = "own" /\ Active(Handler(f[1]))

Needed(f) == TableOf(at[f])

Holds(f) == Active(f) /\ owner[Needed(f)] = f
Waits(f) == Active(f) /\ owner[Needed(f)] # f

\* A line of `ip monitor route` or a datagram.
ReadInput(t) ==
  /\ inputs < MaxInputs
  /\ ~Active(Own(t)) /\ ~Suspended(Own(t))
  /\ \E call \in First(t) : at' = [at EXCEPT ![Own(t)] = call]
  /\ inputs' = inputs + 1
  /\ UNCHANGED <<rehashing, owner, expiries>>

\* The signal is blocked in a thread while its handler runs there.
Deliver(t) ==
  /\ expiries < MaxExpiries
  /\ ~Active(Handler(t))
  /\ at' = [at EXCEPT ![Handler(t)] = "expired"]
  /\ expiries' = expiries + 1
  /\ UNCHANGED <<rehashing, owner, inputs>>

\* Mutant: one mutex for both tables.
LockBoth(f) ==
  /\ Waits(f) /\ ~Suspended(f)
  /\ \A m \in Table : owner[m] = None
  /\ owner' = [owner EXCEPT ![Needed(f)] = f]
  /\ UNCHANGED <<at, rehashing, inputs, expiries>>

\* pthread_mutex_lock returns.
lock_hash(f) ==
  /\ Waits(f) /\ ~Suspended(f)
  /\ owner[Needed(f)] = None
  /\ owner' = [owner EXCEPT ![Needed(f)] = f]
  /\ UNCHANGED <<at, rehashing, inputs, expiries>>

\* Mutant: the load is compared again after cfuhash_rehash.
GoOnRehashing(f) ==
  \/ /\ at[f] \in Changing
     /\ rehashing' = rehashing \cup {f}
     /\ UNCHANGED at
  \/ /\ rehashing' = rehashing \ {f}
     /\ \E call \in Follow(at[f]) : at' = [at EXCEPT ![f] = call]

\* After a change the load may call for cfuhash_rehash, which locks again.
GoOn(f) ==
  \/ /\ at[f] \in Changing /\ f \notin rehashing
     /\ rehashing' = rehashing \cup {f}
     /\ UNCHANGED at
  \/ /\ rehashing' = rehashing \ {f}
     /\ \E call \in Follow(at[f]) : at' = [at EXCEPT ![f] = call]

\* Mutant: a return without unlock_hash.
UnlockForgotten(f) ==
  /\ Holds(f) /\ ~Suspended(f)
  /\ GoOn(f)
  /\ UNCHANGED <<owner, inputs, expiries>>

unlock_hash(f) ==
  /\ Holds(f) /\ ~Suspended(f)
  /\ owner' = [owner EXCEPT ![Needed(f)] = None]
  /\ GoOn(f)
  /\ UNCHANGED <<inputs, expiries>>

Step(f) == lock_hash(f) \/ unlock_hash(f)

Next ==
  \/ \E t \in Thread : ReadInput(t) \/ Deliver(t)
  \/ \E f \in Frame : Step(f)

Spec == Init /\ [][Next]_vars

\* Every thread gets to run; a mutex goes to one of those that wait for it.
Fairness == \A f \in Frame : WF_vars(Step(f))

-----------------------------------------------------------------------------
(* Properties *)

\* The handlers of the threads in T wait for mutexes held by what they have
\* interrupted in these threads.
Wedge(T) ==
  \A t \in T :
    /\ Waits(Handler(t))
    /\ \E u \in T : owner[Needed(Handler(t))] = Own(u)

Wedged == \E T \in SUBSET Thread : T # {} /\ Wedge(T)

CanStep(f) ==
  /\ Active(f) /\ ~Suspended(f)
  /\ owner[Needed(f)] \in {f, None}

\* The mutexes of the tables are never held together, so there is one way only
\* to a deadlock: timeout_handler has interrupted a thread inside a call on a
\* table it needs itself, or several have done so to each other's threads.
\* Otherwise some frame that is in a call can go on.
DeadlockIsWedge ==
  (\E f \in Frame : Active(f)) => Wedged \/ \E f \in Frame : CanStep(f)

\* Then there is no way out: no thread, and no later signal, frees them.
WedgeForever == [][\A T \in SUBSET Thread : Wedge(T) => Wedge(T)']_vars

\* The calls from this one on until the function returns, at most.
CallsLeft(call) ==
  CASE call \in {"pending", "expired"} -> 4
    [] call \in {"lookup", "forget"} -> 3
    [] call \in {"removed", "respond", "enter", "wanted"} -> 2
    [] call \in {"drop", "answered", "start", "clean", "restart"} -> 1
    [] OTHER -> 0

\* The locks and unlocks ahead of frame f, at most: two for each call and two
\* for the cfuhash_rehash that may follow it.
StepsLeft(f) ==
  4 * CallsLeft(at[f]) - (IF f \in rehashing THEN 2 ELSE 0) - (IF Holds(f) THEN 1 ELSE 0)

\* Nobody goes round in circles: unless a line, a datagram or a signal comes,
\* each step brings one frame nearer to its return and takes no other farther
\* from its own, cfuhash_rehash included, which locks the table again.
CallsRunOut ==
  [][inputs' = inputs /\ expiries' = expiries =>
       \E f \in Frame : /\ StepsLeft(f)' < StepsLeft(f) /\ StepsLeft(f)' >= 0
                        /\ \A g \in Frame \ {f} : StepsLeft(g)' = StepsLeft(g)]_vars

\* Every call on a table returns, and so every line, datagram and expiry is
\* dealt with, unless that happens.
CallsReturn == \A f \in Frame : Active(f) ~> (~Active(f) \/ Wedged)

=============================================================================
