------------------------------ MODULE NodeStation ------------------------------
(***************************************************************************)
(* NodeThreads against Station. A handler of the threads' model consists of*)
(* many steps; it is one step of Station, taken when it ends, if no other  *)
(* handler was at work at the same time.                                   *)
(*                                                                         *)
(* The two history variables read the state of NodeThreads and change      *)
(* nothing in it.                                                          *)
(***************************************************************************)
EXTENDS NodeThreads

VARIABLES
  shown,  \* the station when last no context was at work
  mixed   \* two contexts have been at work at once since then

history == <<shown, mixed>>

Resting == status # "running" \/ \A c \in Context : pc[c] = "idle"
Overlap == \E c, o \in Context : c # o /\ pc[c] # "idle" /\ pc[o] # "idle"

\* A slot in use, and the address its timer is for.
SlotTimers == [i \in Slot |-> IF timer_ids[i] = 0 THEN None ELSE timers[i]]

Present ==
  [hosts |-> hosts, pnrs |-> pnrs, timers |-> SlotTimers, asked |-> asked,
   up |-> status # "exhausted"]

RecordedInit == Init /\ shown = Present /\ mixed = FALSE

Record ==
  /\ shown' = IF Resting' THEN Present' ELSE shown
  /\ mixed' = (~Resting' /\ (mixed \/ Overlap'))

RecordedSpec == RecordedInit /\ [][Next /\ Record]_<<vars, history>>

Atomic == INSTANCE Station WITH
  hosts <- shown.hosts, pnrs <- shown.pnrs, timers <- shown.timers,
  asked <- shown.asked, up <- shown.up

\* Timers and slots no longer belong together, or the process has gone wrong in
\* another way than by running out of slots.
Spoilt == raced \/ early \/ status \notin {"running", "exhausted"}

\* The accesses of a handler that nothing overlaps amount to what NameSpread
\* takes to be one step: whatever other handlers did to each other before, it
\* starts from the tables as they are, and when it ends the name is learnt and
\* its request gone, the request registered and timed in the first free slot,
\* the expired timer's slot free or taken again. (Until a slot is taken twice.)
ActsAsStation ==
  /\ Atomic!Init
  /\ [][mixed \/ Spoilt' \/ Atomic!Next]_<<shown>>
================================================================================
