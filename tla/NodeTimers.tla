------------------------------ MODULE NodeTimers ------------------------------
(***************************************************************************)
(* How many timer slots the station of NodeThreads needs. next_free_timer_ *)
(* id searches timer_ids without a lock, slots are taken and freed before  *)
(* and behind it, two threads may register one address, and what they      *)
(* register may be deleted under a timer that runs on.                     *)
(*                                                                         *)
(* The history variables read the state of NodeThreads and change nothing  *)
(* in it.                                                                  *)
(***************************************************************************)
EXTENDS NodeThreads

VARIABLES
  lost,     \* how often an address sought ceased to be
  repeated  \* how often one that was sought was registered as new

counts == <<lost, repeated>>

\* The addresses with a name in /etc/hosts, or on its way back to it.
Named == hosts \cup (IF pc[Watcher] = "write" THEN copy ELSE {})

\* The other stations whose name is requested or known.
Sought == {d \in Addr \ {Self} : pnrs[d] # {} \/ d \in Named}

\* Those that put a new entry for an address that is sought, or their own.
Repeats ==
  {c \in {Listener, Watcher} :
     pc[c] = "new" /\ pc'[c] = "scan" /\ Dst(c) \in Sought \cup {Self}}

CountedInit == Init /\ lost = 0 /\ repeated = 0

Count ==
  /\ lost' = lost + Cardinality(Sought \ Sought')
  /\ repeated' = repeated + Cardinality(Repeats)

CountedSpec == CountedInit /\ [][Next /\ Count]_<<vars, counts>>

Budget == Cardinality(Sought) + lost + repeated

UsedSlots == {i \in Slot : timer_ids[i] # 0}

-----------------------------------------------------------------------------
(* Properties *)

\* Timers are not cancelled when a request is answered or deleted, yet they do
\* not accumulate, whatever the order of the accesses: there is one slot in use
\* at most for each name sought, for each time a request was deleted unanswered
\* or a name lost in rewriting /etc/hosts, and for each time register_nreq
\* entered as new what another had entered, or cached, since it looked.
SlotsBudgeted == Cardinality(UsedSlots) <= Budget

\* next_free_timer_id returns NULL, which both callers dereference, only when
\* that comes to more than N_TIMERS: its search takes many steps and can fail
\* while a slot is free, but never because of slots that the same few timers
\* leave and take while it goes by.
ExhaustionExplained == status = "exhausted" => N_TIMERS < Budget

=============================================================================
