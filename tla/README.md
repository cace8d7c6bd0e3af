# A TLA+ verification of nameSPREAD

nameSPREAD gives the stations of a mobile ad-hoc network each other's host
names without a server. A station that gets a route to an address asks the
next hop on that route for the name (NREQ); the next hop answers from its
`/etc/hosts` (NREP) or remembers who asked until the name reaches it. This
directory holds models of the protocol, of the threads of one station, of the
hash table and the list under them, and of the two things the threads share
without wanting to, the mutexes of the tables and the state of `strtok`; the
TLC runs that check them on small instances, and TLAPS proofs of their safety
properties for all instances.

## 1. Inventory

| component | state | operations | interacts with |
|---|---|---|---|
| listener thread, `nreq_responder.c` | socket, receive buffer | receive NREQ, receive NREP, `cache_name`, `respond_to_pnrs` | reads and appends to `/etc/hosts`; reads, writes, deletes in `pnrs`; takes timer slots through `register_nreq` |
| route watcher thread, `route_watcher.c` | the pipe of `ip monitor route` | route added, route removed, `register_nreq`, `remove_name` | the same tables; rewrites `/etc/hosts`; sends NREQs |
| timers, `timer.c`, `next_free_timer_id` | `timer_ids[100]`, table `timers`, POSIX timers | `make_timer`, `timeout_handler`, `route_exists` | the handler runs as a signal handler on either thread; reads `pnrs` and the kernel's routing table; sends NREQs |
| hash table, `libcfu/cfuhash.c` | buckets, entry count, size, mutex | get, put, delete, clear, foreach, foreach_remove, keys, rehash, ... | holds `pnrs` and `timers`, called from both threads and the handler |
| linked list, `linked_list.c` | nodes, no lock | `new_linked_list`, `exists_in_list`, `push`; `push_first`, `pop`, `remove_last`, `remove_by_index` without a caller | the requesters lists in `pnrs` |
| logger, statistics, `logger.c` | a log file, counters, the pointer `msg` every file shares | `log_msg`, `log_info` | written by all, read only by scripts (`cdf.sh` looks for log lines) |
| scripts | - | start the emulation, evaluate logs | fix the initial state of a station |

What is hard in it: datagrams are lost, repeated and reordered; a request may
overtake the route event that would prepare for it; timers are never
cancelled, so an expiry races the answer; slots are finite and their
exhaustion is a NULL dereference; two threads and a signal handler share two
tables, a file, an array without a lock, the requesters lists and `strtok`'s
static state; the handler runs on top of a thread that may hold the mutex it is
about to lock; `push` links a node before it fills it; the hash table decides on
resizing without its mutex. `PROJECT.json` lists each hazard
with its line and the property that watches it.

What makes the parts correct:

- protocol: only true names are cached or sent; nothing is learnt that was not
  asked for; a cached name is not requested any more; whoever can be reached is
  eventually known, and the traffic then stops; timers do not accumulate;
- hash table: whatever resizing goes on, the calls of all threads are those of
  a map; the load stays bounded; the array of `cfuhash_keys` is large enough;
- linked list: the functions act on a sequence; calls that overlap may lose an
  element, but leave, once they are done, a list that ends and has no unwritten
  node;
- mutexes: every call on a table returns;
- tokenizer: a caller gets the tokens of the text it has begun;
- threads of one station: no request, name or slot gets lost between the steps
  of two handlers, and the timeout handler finds the address its timer was
  started for.

Only part of this holds: section 4 says what does not, and the properties of
`NodeThreads`, `TableLocks`, `SharedStrtok` and `LinkedList` say exactly what has
to happen before something goes wrong.

## 2. Modules

| module | what it is |
|---|---|
| `NameSpread` | the protocol: any number of stations, one action per handler |
| `NameService` | what the protocol promises: names asked for, true names learnt |
| `MCNameSpread` | constants for TLC, the fair specification, the reachability of the kernels' next hops |
| `MCNameSpreadFlap` | routing changes for chosen destinations only |
| `MCNameSpreadStatic` | initial states in which routing has converged, liveness |
| `NameSpread_proofs` | theorems about `NameSpread` |
| `NodeThreads` | one station: two threads and the runs of the handler, one step per access to shared state |
| `MCNodeThreads` | symmetry for TLC |
| `NodeThreads_proofs` | theorems about `NodeThreads` |
| `NodeTimers` | the steps of `NodeThreads` counted: what is sought, lost and registered twice |
| `MCNodeTimers`, `NodeTimers_proofs` | the fair specification for TLC; theorems |
| `Station` | what both promise: one station that deals with one event at a time |
| `NodeStation` | the steps of `NodeThreads` against `Station` |
| `MCNodeStation`, `NodeStation_proofs` | constants for TLC; theorems |
| `CfuHash` | the hash table, any number of threads |
| `HashMap` | what the table promises: a map whose calls are atomic |
| `MCCfuHash` | constants for TLC; checks that masking by `num_buckets - 1` is the remainder |
| `CfuHash_proofs` | theorems about `CfuHash` |
| `TableLocks` | the mutexes of the two tables, any number of threads, the handler on top of any of them |
| `MCTableLocks` | the fair specification for TLC |
| `TableLocks_proofs` | theorems about `TableLocks` |
| `SharedStrtok` | the calls of `strtok` of the listener, the watcher and the handler |
| `MCSharedStrtok`, `SharedStrtok_proofs` | symmetry for TLC; theorems |
| `LinkedList` | the list on a heap, any number of threads |
| `SequentialList` | what the list promises: functions on a sequence |
| `MCLinkedList`, `LinkedList_proofs` | constants and symmetry for TLC; theorems |

How they fit together: `NameSpread` takes a handler as one step, `NodeThreads`
takes it apart at its accesses to shared state; `Station` is what joins them, an
abstract station that every station of `NameSpread` is, and that of `NodeThreads`
too as long as its handlers take turns. `NodeThreads` in turn takes a
call on a table as one step, which `CfuHash` (it implements `HashMap`) justifies,
and a requesters list as a set of which one node may be unfilled, which
`LinkedList` looks into. That a call on a table returns at all is the subject of
`TableLocks`; that the addresses the handlers work with are the ones in their
line or datagram is that of `SharedStrtok`.

### NameSpread and the code

| variable | code |
|---|---|
| `route`, `events` | the kernel's table (external) and the lines of `ip monitor route` not yet read |
| `hosts[n][d]` | the line of `/etc/hosts` of station n for address d |
| `pnrs[n][d]` | the requesters list of `pnrs`; `Local` is the NULL value, `{}` no entry |
| `timers[n][i]` | slot i of `timer_ids` together with its entry in the table `timers` and the running POSIX timer |
| `nreqs`, `nreps` | datagrams in flight |
| `up[n]` | FALSE once a NULL from `next_free_timer_id` has been dereferenced |
| `asked` | history: addresses asked for |

| action | handler |
|---|---|
| `RouteAddedCached/Pending/New/Crash`, `RouteRemoved` | a line read by `watch_routes`; the guard of `remove_name` is the one in the code (called when the name is *not* cached) |
| `RecvNreqCached`, `RecvNreqUnknown` | an NREQ in `listen_for_nreqs` |
| `RecvNrepNew`, `RecvNrepCached` | an NREP in `listen_for_nreqs` |
| `TimeoutDone`, `TimeoutRetry` | `timeout_handler` |
| `KernelRoute`, `Lose` | the routing daemon and UDP (external) |

A datagram is kept in the network or not when it is received (`left`), so it
may be delivered again; the network is a set, so any order is possible. A route
replaced by another is reported as one added line, or as a removal and an
addition, both of which `ip monitor` may show. Addresses and names are opaque;
an address stands for its station.

In this module a handler is one step: what it shows is shown of stations whose
threads and timer handlers do not overlap. Where they do, some of it is lost.
`ImplementsService` promises that a name is not forgotten, but a line appended
while `remove_name` rewrites the file is (`NamesKept` says what is left of the
promise); `RetriesGoOn` promises a timer for every request, but two registrations
may take one slot and delete each other's entries (`SlotsAccounted`,
`CrashExplained`); that a name is not both cached and pending, and that an address
has one timer, hold for no longer than that and are therefore not stated here but,
with their exceptions, in `NodeThreads` (`PendingExplained`) and `NodeTimers`
(`SlotsBudgeted`). What `NamesSound` and `Solicited` say of a name, a requester or
a datagram rests on the values a single access reads or writes.

`NameService` has two variables, `hosts` and `asked`, and two actions: a
station asks for a name, again or for the first time, a station learns the true name of one address
it asked for. The mapping is the identity; `ImplementsService` says that every
step of the protocol is one of these two or leaves both alone.

### NodeThreads and the code

| variable | code |
|---|---|
| `hosts`, `copy` | the addresses with a line in `/etc/hosts`; the auxiliary file of `remove_name` |
| `pnrs`, `timers` | the two tables; `timers` is indexed by the number its key spells |
| `timer_ids`, `armed` | the array; how many running POSIX timers carry a pointer to slot i (index 0: to the word before the array) |
| `pc[c]`, `loc[c]` | where the listener, the watcher or a run of `timeout_handler` is, and its locals |
| `status` | `running`, or how the process went wrong: `exhausted` (no slot, NULL dereferenced), `wild` (access before `timer_ids`), `null` (NULL address used as a key), `torn` (walk over a node not yet filled in) |
| `inputs`, `asked` | lines and datagrams read (bounded by `MaxInputs`); addresses an NREQ was sent for |
| `kept`, `raced`, `early`, `misled` | history, read by the properties only: names that must not get lost; two contexts have taken one slot; a timer has expired before its entry was made; names held unknown, on a look that was out of date, by who goes on to register them |

Each action is one access: a call on a table is one, because `CfuHash`
implements `HashMap`; a scan of `/etc/hosts` by `get_name_by_addr` is one, an
append is one; `remove_name` reads, truncates and writes; `timer_ids` is read
and written element by element; `push` walks, links and fills. `register_nreq`
is `Lookup` .. `NewEntry`, then `Scan` .. `PutTimer`, the last part being shared
with `timeout_handler`. `remove_name` reads `/etc/hosts` and writes
`hosts-<hostname>`, which `manet.py` mounts on it. One step joins two accesses:
`timer_ids[*timer_id - 1] = 0` (`timer.c:29`) reads the slot that it writes
(`ResetSlot`). Between the two another can write that slot only where it has been
taken twice, and then the one step may end in `wild` where the machine gets away
with it; the properties speak of `wild` as what may follow a race.

A handler is a context of its own. On the machine it interrupts one of the
threads, which then does not run until the handler returns: that is one of the
interleavings of the model, and as a thread that is interrupted may be at any of
its steps, all of these occur. That the handler may wait for a mutex the
interrupted thread holds is the subject of `TableLocks`.

Once `status` is not `running` nothing happens any more. For `wild` and `null`
that is an abstraction: what an access before the array does depends on the
layout, so the model marks the state and says nothing of what follows.

### NodeTimers

`NodeTimers` leaves the steps of `NodeThreads` as they are and counts along. An
address is sought when it has an entry in `pnrs` or a name in `/etc/hosts`. `lost`
counts how often an address ceases to be sought: a route removal or a late
`timeout_handler` deletes its request unanswered, or its name gets lost in the
rewriting of the file. `repeated` counts how often `register_nreq`, which has found
no entry, puts one for an address that has come to be sought since, so that there
are two timers for it. `SlotsBudgeted` bounds the slots in use by the sum of these
three, and `ExhaustionExplained` says that `next_free_timer_id` returns NULL only
if that sum is more than `N_TIMERS`. The second does not follow from the first: the
search looks at one slot after the other while others free slots it has passed
and take slots it has still to reach, so that it can fail with a slot free.

### Station, between NameSpread and NodeThreads

`Station` has the names a station knows, its requesters lists, the address of the
timer in each slot, the addresses it has asked for, and whether it is up. Its
actions are what an event may do to these: a route comes or goes, somebody wants a
name, a name that was asked for is learnt, a timer expires. It says nothing of the
network or of when an event comes, so there is one `Station` for each n in
`NameSpread` (`OneStation(n)`), and `StationsAct` says that every step of the
network is, at each station, a step of it or leaves it alone. An NREP that is
accepted is one that was asked for; that is not in the guard of
`listen_for_nreqs`, it follows from `Solicited`.

`NodeThreads` cannot implement `Station` step by step: a handler takes many
steps, and where two overlap their outcome need not be that of any order
(section 4). `NodeStation` adds two history variables. `shown` is the state last
seen when no context was at work; `mixed` says whether two have been at work at
once since. Then `ActsAsStation` is a statement about what happens between two
moments of rest: unless handlers overlapped, or a slot has been taken twice
(`Spoilt`), the whole of the accesses is one step of `Station`. What overlapping
handlers have left behind is no excuse for the ones after them. The mapping takes
a slot in use to the address in the table `timers`, which is why a slot taken
twice ends the comparison: there is then one address for two timers.

### CfuHash and the code

What a call does under `ht->mutex` is one step. `cfuhash_put_data`,
`cfuhash_delete_data` and `cfuhash_clear` go on after releasing it: they test
the flags, read `entries`, read `num_buckets`, compare, and may call
`cfuhash_rehash`, which takes the mutex again. `pc[t]` is where a thread is in
that tail, `seen[t]` the `entries` it has read. A chain is the set of its
entries: hash order within a chain shows nowhere but in the order of
`cfuhash_keys`. `resized_count` is an unsigned int and wraps at `UIntModulus`.
`cfuhash_new` ignores the argument that `main` gives it and uses 20.

`HashMap` is a function from keys to values or `None` on which get, put,
delete, clear, foreach, removal by predicate and keys act in one step each; the
mapping takes the entries in all chains to that function. `cfuhash_foreach` holds
the mutex while it calls its function on one entry after the other until that
returns a nonzero value; the entries it has handled by then are a choice.

### TableLocks and the code

A frame is a thread in its own code or in `timeout_handler`. `at[f]` is the call
on a table that f is in: one name for each call of `cfuhash_get`, `cfuhash_put`
and `cfuhash_delete` in the four functions `watch_routes`, `listen_for_nreqs`
(with `respond_to_pnrs`), `register_nreq` and `timeout_handler`. Each of these is
a record that gives the calls that may follow; which one does is a choice, as it
depends on what the tables hold. `lock_hash` and `unlock_hash` are the functions of
`cfuhash.c`; after a put or a delete the frame may lock once more for
`cfuhash_rehash`. A frame in its own code is suspended as long as the handler runs
on its thread.

`make_timer` asks for SIGEV_SIGNAL: the signal goes to the process, and POSIX
leaves open which thread takes it. Linux prefers the main thread when that does
not block the signal, which is why the deadlock of section 4 is rarer in practice
than in the model; the other threads take it when the main thread already has a
handler at work, and nothing in the code makes sure of more. `main` and `log_info`
call no table but do run handlers: the constant `Thread` includes them.

### SharedStrtok and the code

As in `TableLocks` there is one name for each call of `strtok` in each function
and a record of what may follow; `TextOf` is the buffer, `TokenOf` the number of
the token the caller means. `save` is the static variable of the C library
(external). `strtok(text, ..)` stores it; `strtok(NULL, ..)` loads it and stores
it, in two steps, because the library takes no lock. What a caller gets that does
not find its own place is not modelled further: it may be a string or NULL, and a
NULL is used as a string at once (`strcmp`, `strlen`, `asprintf`). A handler is a
context of its own, as in `NodeThreads`.

### LinkedList and the code

`next` and `val` are the fields, `used` the allocated nodes; what `malloc` returns
and `free` has taken hold `Junk`. `push` is a walk and three stores, the last two
of which read `current->next` again, and `exists_in_list` one step per node: these
two are what the threads call at the same time. The other functions have no
caller, or make a list nobody else knows yet, and run alone. `status` says where
the model stops: `torn` (an unwritten field was followed), `null`, `freed` (a list
was used after `remove_last` had freed its only node), `nomem`. `chain` and
`contended` are history: the nodes of the list, and whether two calls of `push`
have overlapped.

`SequentialList` is a sequence of values on which each function acts in one step.
It includes what is odd about them: `remove_by_index` with an index equal to the
length follows NULL where a larger one returns "-1", a negative one removes the
second element, and the caller's pointer survives the last `remove_last`. Its
promise ends when two calls of `push` overlap, when a walk meets an unfilled node
and when memory runs out. The mapping takes the values along `chain`; a `push`
takes effect where it writes `val`.

## 3. Runs

| run | instance | shows |
|---|---|---|
| `protocol` | 3 stations, 2 slots, 3 routing changes, 1 loss | `TypeOK`, `NamesSound`, `Solicited`, refinement of `NameService`, `StationsAct` |
| `flapping_route` | 3 stations, routes to one of them, 2 slots, 5 routing changes, 1 loss | `RetriesGoOn`, up to and through the crash of a process whose slots run out |
| `static_routes` | 3 stations, every routing of one destination (paths, loops, black holes), 2 losses | `EventuallyNamed`, `EventuallyQuiet` |
| `hash_table` | 2 threads, 3 keys, 2 values, sizes 1 to 16 | `TypeOK`, `WellPlaced`, `KeysFit`, `LoadBounded`, refinement of `HashMap` |
| `threads` | 1 address and the station's own, 2 threads, 2 handlers, 2 slots, 3 inputs | `TypeOK`, `NamesKept`, `SlotsAccounted`, `CrashExplained`, `PendingExplained`, `ActsAsStation` |
| `timer_slots` | the same with 1 handler and 4 inputs | `SlotsBudgeted`, `ExhaustionExplained`, `SlotsReturn` |
| `table_locks` | 3 threads (main, listener, watcher), 2 inputs, 2 expiries | `TypeOK`, `DeadlockIsWedge`, `WedgeForever`, `CallsRunOut`, `CallsReturn` |
| `shared_strtok` | 2 threads, 2 handlers, 3 texts | `TypeOK`, `MisreadNeedsIntrusion` |
| `linked_list` | 3 threads, 4 nodes, indices -1 to 4 | `TypeOK`, `Unshared`, `NothingLeaked`, refinement of `SequentialList` |
| `removal_keeps_name` | violation | the removal of a route leaves the name cached |
| `orphaned_request` | violation | a request whose timer expired without a route is not repeated reliably |
| `racing_registration` | violation | a registration replaces the list of another |

Bounds. Three stations are a requester, a relay that has to wait itself, and an
owner; a longer path repeats the relay. Three routing changes allow a path of
two hops and the loss of one of its routes, or a route that comes, goes and
comes again. In `flapping_route` five routing changes, all to one
destination, are a route that comes, goes, comes, goes and comes once more: two
requests dropped with their timers running take both slots, and the next one, from
the route watcher or for an NREQ, finds none. In the table, three keys of which two collide at every size up to four
buckets, with an initial size of two, force the table to grow (three entries in
two or four buckets) and to shrink, while the other thread is at any point of
its own call; a `UIntModulus` of two makes the counter wrap. Stations, threads
and values are symmetric and are treated so in the runs without liveness. In
`threads`, three inputs are enough for a request, its answer and a removal, or
for two registrations of one address and a removal between them, with both
handlers at work on the timers they started; two slots let two contexts race
for the first while the second is free. They also reach a
request that joins one pending and an expiry that frees a slot below one in use,
without overlap; running out of two slots without overlap would take five inputs
(with `N_TIMERS = 1` three are enough, and `ActsAsStation` holds there too; the
theorem covers all). In `timer_slots` four inputs are two registrations of one
address at the same time, a removal between them and one more request: enough for
the slots to run out, also while one of them is free, with a repeated registration
among the causes. Running out by removals alone takes five inputs there too; the
theorems cover it. In `table_locks` two expiries and two
inputs allow both kinds of deadlock: a handler on the thread that holds the mutex
it needs, and two handlers each waiting for the other's thread; the main thread
is there to run a handler that holds a table while others wait. In
`shared_strtok` three texts are one for each of three contexts, or two of one
context and one of another in between. In `linked_list` four nodes are needed for
the late store `next = NULL` of a racing `push` to cut off something: a head, two
nodes linked one over the other, and one behind. One value and NULL are enough,
since only equality with the argument matters; indices reach one beyond the
longest list in both directions.

Deadlock is checked in `hash_table`. A station network may come to rest (no
event, datagram or timer left) and a station reads `MaxInputs` inputs, so the
protocol and thread runs do not check it. Nor do `table_locks`, where
`DeadlockIsWedge` says it better, `shared_strtok` (bounded texts) and
`linked_list`, which stops where the program would crash.

Fairness. `Fairness` is weak fairness of: each station reading its route
events, each running timer expiring, each datagram in flight being received:
the threads wait for input in `recvfrom` and `fgets` and nowhere else for one
another but at the mutexes of the tables, and POSIX timers fire. That calls on the
tables return is an assumption, here and in `NodeThreads`: `TableLocks` shows that
they do (`CallsReturn`) with one exception, the wedge of section 4, after which the
process does nothing more.
There is none for routing changes or losses. Losses are bounded, which is what
turns "a request repeated for ever gets through" into a statement about weak
fairness; without the bound no protocol over UDP guarantees anything. In
`NodeThreads` each context goes on with what it has begun (weak fairness of
`Run`) and a timer that has expired is handled (strong fairness of `Expiry`:
SIGRTMIN is a real-time signal, which is queued while the handlers are busy).
In `TableLocks` each frame takes the step it can take (weak fairness of `Step`):
runnable threads get to run. A mutex that is taken and released again and again
by others need not be given to a certain waiter, but with bounded inputs and
expiries they come to an end. `LinkedList` has no liveness run: that a walk ends
follows from `Unshared`, since a chain in which no node has two predecessors and
the head has none is no cycle.

## 4. Findings

1. `route_watcher.c:82` tests the wrong way round: `remove_name` is called when
   there is nothing to remove, so names outlive their routes
   (`removal_keeps_name`). With the evident correction the protocol no longer
   implements `NameService`, which never forgets: that is the mutant of
   `ImplementsService`.
2. `timer.c:50`: a pending request whose timer expires while there is no route
   is kept without a timer, and the next route sends one NREQ without one; if it
   is lost the name is never learnt (`orphaned_request`). `RetriesGoOn`: there is
   no other way to a request that nobody repeats.
3. `route_watcher.c:170` and `:187` are a look-up and a put with nothing to hold
   them together: of two threads that register one address, the second replaces
   the list of the first, and the requester in it is not answered when the name
   arrives (`racing_registration`); if it is a station whose own timer still runs,
   that asks again. Both also start a timer (`repeated` in `NodeTimers`). `ActsAsStation`: a registration that nothing overlaps
   does what it should. `timer.c:39` and `:40`, a look-up and a delete, break
   the same property: a request registered in between is deleted.

Observations without a run of their own, most of them the exception a property
names:

- `namespread.c:114`: a slot is tested and taken in two accesses. Two contexts can
  take the same one; the first expiry clears it, the second finds no address.
  `CrashExplained` shows that, apart from a timer that expires before its entry is
  made, this is the only way the handler goes wrong, and `SlotsAccounted` that
  even then no slot is lost.
- `namespread.c:119`: the NULL that says that no slot is free is dereferenced.
  `ExhaustionExplained` shows what it takes: more names sought, requests lost and
  registrations repeated than there are slots. With `N_TIMERS` = 2 two requests
  dropped by a flapping route and a third are enough.
- `route_watcher.c:59`: the watcher registers on the strength of a look at
  `/etc/hosts` made before. If the listener caches the name in between, the
  request stays pending for a known name; replies to it are ignored, so it is
  repeated for ever. `PendingExplained`: that, and a look while `remove_name` is
  writing the file back, are the only ways to such a request.
- `timer.c:19`: `timeout_handler` on top of a thread that holds the mutex of a
  table it needs never returns, and takes that thread with it; two handlers can
  do so to each other's threads. `DeadlockIsWedge`: the mutexes allow no other
  deadlock.
- `namespread.c:91` and every other `strtok`: a context that is interrupted
  between two tokens may go on in the text of another, and the comment "skip
  'via'" (`route_watcher.c:45`) may skip something else. `MisreadNeedsIntrusion`:
  a context by itself always reads its own text, although `get_name_by_addr` uses
  `strtok` in the middle of the callers'.
- `linked_list.c:48`: two calls of `push` that overlap may lose an element, or
  follow NULL; a walk may meet a node without values. The nodes never become a
  cycle (`Unshared`).
- `linked_list.c:80`, the comment "remove the first item" stands at the list's
  `remove_last`, which removes the last (and is called by nobody).
- an NREQ that overtakes the route event creates a pending request for which
  nothing is sent, where `nreq_responder.c:66` says that one must exist (the log
  line at `route_watcher.c:206` knows of it).
- `cfuhash_foreach_remove`, which the program does not call, leaves `entries` too
  high (`cfuhash.c:679`). `KeysFit` shows that the error is on the safe side for
  `cfuhash_keys`, and `LoadBounded` that the load stays bounded.
- sockets (`namespread.c:131`, `nreq_responder.c:138`) and POSIX timers
  (`timer.c:140`) are never released.

## 5. Proofs

For every value of the constants that meets `ConstantsAssumption`:
`NameSpread_proofs` proves `TypeOK`, `NamesSound`, `Solicited`,
`ImplementsService`, `StationsAct` and `RetriesGoOn`.

- `TableInv` joins `NamesSound` and `Solicited`, and is inductive with `TypeOK`:
  that a reply carries the right name needs that the cache it is taken from does,
  and that a relay answers only those who asked needs it of the requesters lists
  and the NREQs. The proof has one step per handler.
- the refinement of `NameService` follows from `TableInv` step by step.
- so does `StationsAct`, one lemma per handler: its own station takes the step of
  `Station` that belongs to it, all others stutter. `Solicited` is what makes the
  accepted NREP a `Learn`.
- `RetriesGoOn` is an action property and needs only `TypeOK`: an expiry looks at
  the request of the address in its slot, so another slot or the one it takes
  again goes on timing it, and a registration either finds the request pending or
  starts a timer.

`CfuHash_proofs` proves `TypeOK`, `WellPlaced`, `KeysFit`, `LoadBounded` and
`ImplementsMap` from `HashAssumption` (there is a power of two that holds twice
the entries). `TypeOK`, `WellPlaced` and `KeysFit` are inductive together.
`LoadBounded` needs an invariant over the threads in the unlocked tail: if the
table is over its threshold, some thread that added an entry is still to
compare, and its reading of `entries` is one that will make it rehash, or a
rehash is already due.

`NodeThreads_proofs` proves `TypeOK`, `SlotsAccounted`, `CrashExplained`,
`NamesKept` and `PendingExplained` from `NodeAssumption`, for any number of addresses, requesters,
slots and handler contexts.

- `TypeInv` adds to `TypeOK` what the locals of a context are at each label
  (`LocalsFit`): without it, that `timer_ids` is indexed within its range where
  a slot is used is not inductive.
- Every step is then *quiet*, one of seven timer steps, or an expiry
  (`StepKinds`); quiet steps change nothing the timer invariants mention.
- `SlotsAccounted` is inductive with `TypeInv`.
- `CrashExplained` follows from `TidyInv`: as long as nobody has raced for a
  slot and no timer expired early, a slot has one running timer or one owner at
  most, an owner finds its number in it, a running timer has its entry in
  `timers` or somebody is about to make it, and a handler past its look-up has
  an address. It uses that the handler deletes the entry before it frees the
  slot; the mutant of `CrashExplained` is the other order.
- `NamesKept` follows from `KeptInv`: `remove_name` is called only when the name
  is not there, so what is to be kept is in the copy all the time the file is
  truncated.
- `PendingExplained` follows from `PendInv`. The names known are those in the
  file, or while it is being written back those in the file or the copy. For each
  of them, a pending request and a context on its way to register one are both
  explained; a step can only break that by adding a name, which only the listener
  does, and then it either goes on to delete the request or has marked the
  contexts that hold the name unknown.

`NodeTimers_proofs` proves `SlotsBudgeted` and `ExhaustionExplained` from
`NodeAssumption` (which has the addresses and the handler contexts finite, so that
they can be counted). `CountedRuns` says that the counters change nothing, so
`TypeInv` holds. The inductive invariant is `CountInv`:

- `BusyCount`: the slots in use, and the contexts that look for a slot or may come
  to because their timer has expired, are together within the budget. A
  registration adds an address to what is sought or is counted in `repeated`; an
  expiry gives up the slot that its handler may take again.
- `SlotCount(j)`, for each slot j: if any slot beyond j is in use or any search has
  got beyond j, then these are j fewer than the budget allows. It is needed because
  `BusyCount` says nothing about where slots and searches are. A search passes
  slot j only while it is in use, and that slot is then one of those not beyond j;
  that the j places stay reserved when the slot is freed holds because whoever
  takes it next comes from before it. A search beyond `N_TIMERS` is one that has
  failed, and `SlotCount(N_TIMERS)` is `ExhaustionExplained`.

Every step is one of five kinds as far as slots and searches are concerned (a
context rests, starts a search, passes a slot, takes one, frees one: `StepEffect`),
and there is one lemma for each kind.

`NodeStation_proofs` proves `ActsAsStation` under the same assumption.
`RecordedRuns` says that the history variables change nothing, so that the
theorems about `NodeThreads` hold here too; `TypeInv`, `TidyInv` and
`SlotsAccounted` are used. The invariant `SoloInv` says of a context that is alone
how far it has come from `shown` (`Progress`): at each label, which tables already
differ, in what, and what the locals it has read still say about them. It is
needed label by label because a handler writes several tables, one after the
other; that it finds them unchanged on its second look is exactly what being alone
means. One lemma per step of a context shows that it keeps `Progress` or, where
the handler ends, that the whole is a step of `Station`. Steps of contexts that are
not alone need nothing, as `mixed` is then set until the station rests, and there
`shown` is the present state by definition. `TidyInv` gives the owner of a slot the
slot, and an expired timer its address.

`TableLocks_proofs` proves `TypeOK`, `DeadlockIsWedge`, `WedgeForever` and
`CallsRunOut` from `LocksAssumption`, for any number of threads. `CallsRunOut` is
the safety half of `CallsReturn`: the number of locks and unlocks a frame has ahead
of it falls with each step of its own and with no step of another, so that with
`DeadlockIsWedge` only fairness is missing. `DeadlockIsWedge` rests on the
invariant that a mutex is held only by a frame whose present call is on that
table, hence no frame holds two: if nobody can go on, every handler waits for a
mutex whose holder is suspended, so the threads with a handler form the set `T`
of a wedge; if there is no handler, the holder itself can go on.

`SharedStrtok_proofs` proves `TypeOK` and `MisreadNeedsIntrusion` from
`StrtokAssumption`. The invariant says of a context in the middle of a text into
which nobody has come that `save` (or what it has loaded) is its own place. It is
kept because the call after one is about the next token of the same text or the
first of a new one (`FollowFacts`). `TypeOK` includes that each context stays in the
functions it runs.

`LinkedList_proofs` proves `TypeOK`, `Unshared`, `NothingLeaked` and `ActsAsList`
from `ListAssumption`, for any number of threads, nodes and values. The inductive
invariant is `Shape`, which holds whatever calls overlap, and `Good`, which holds
until two calls of `push` do.

- `Shape`: types; what a thread's `pc` and `cur` are in each function; no two
  nodes point to the same one; a node that can be reached and is not yet written
  is the `next` of a thread that is still to write it; the nodes can be numbered so
  that every pointer goes to a larger number (`Acyclic`), which is what a racing
  store of `next` must not break.
- `Good`: `chain` is the list from `head` along `next` (`Linked`), apart from the
  one node being pushed (`Pushing`), and the cursors are at the place of `chain`
  that the loop variables say, with everything before them compared (`Cursors`).
- the refinement then takes each function's last step to its counterpart on the
  sequence, and every other step to a stutter.

Only model-checked: the liveness properties `EventuallyNamed`, `EventuallyQuiet`,
`SlotsReturn` and `CallsReturn` (TLAPS has no rules for fairness and ENABLED here). What the violation runs refute is of course not proved.

## 6. Plan

Done: `NameSpread`, `CfuHash`, `NodeThreads`, `NodeTimers`, `TableLocks`, `SharedStrtok` and
`LinkedList`, with the proofs of all their safety properties, and `Station`, which
joins `NodeThreads` to `NameSpread`. Left:

1. the safety half of the other liveness properties, as `CallsRunOut` is for
   `CallsReturn`: for `SlotsReturn`, that each step of a context brings it nearer
   to its end; for `EventuallyQuiet`, that without a route change the requests
   pending become fewer once every name is cached where it is asked for.
2. `CfuHash`: copy and merge of two tables, iteration with `cfuhash_each` and
   `cfuhash_next`, which keep their place in the table.

## 7. Not modelled

- Logging and statistics: `log_msg` writes text, `log_info` and the counters are
  read by nobody in the program, `log_pnrs` has no caller. The pointer `msg` is
  shared by all threads and the handler, so a log line may be lost or doubled; no
  state depends on it.
- `cfuhash_each`, `cfuhash_next`, copy, merge, destroy, the setters, printing and
  joining of tables: nothing in the program calls them (`main` sets a flag that is
  set already, before there are threads).
- `cfustring.c` and `cfu.c`: vendored, used only by the printing and joining above.
- The emulation scripts: only the initial state they set up is modelled.
- Memory management except in `LinkedList`; file descriptors and kernel limits on
  timers.
- Message formatting: addresses and names contain neither blank nor tab, so the
  formats are injective.
- The error paths of `popen` and `fopen` that retry or only log.
