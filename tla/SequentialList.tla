---------------------------- MODULE SequentialList ----------------------------
(***************************************************************************)
(* What the functions of linked_list.c promise: a call acts at once on a   *)
(* sequence of values, and returns what the sequence held. The promise     *)
(* includes for which sequences and arguments a call follows NULL, and it  *)
(* ends when two calls of push overlap, when a walk meets a node that push *)
(* has not filled yet, or when memory runs out.                            *)
(***************************************************************************)
EXTENDS Integers, Sequences

CONSTANTS Thread, NULL, Missing

VARIABLES
  list,       \* the values, first to last
  gone,       \* the caller's pointer is to a list that has been freed
  call,       \* call[t]: the call thread t is in, or NULL
  ret,        \* what the last call returned
  status,
  contended   \* two calls of push have overlapped

vars == <<list, gone, call, ret, status, contended>>

Init ==
  /\ list = <<>> /\ gone = FALSE
  /\ call = [t \in Thread |-> NULL]
  /\ ret = NULL
  /\ status = "ok" /\ contended = FALSE

Without(s, i) == [j \in 1..(Len(s) - 1) |-> IF j < i THEN s[j] ELSE s[j + 1]]

\* The caller makes a call.
Invoke(t) ==
  /\ call[t] = NULL
  /\ call' = [call EXCEPT ![t] = call'[t]]
  /\ ret' = NULL
  /\ UNCHANGED <<list, gone, status, contended>>

Return(t, op, r) ==
  /\ call[t] # NULL /\ call[t].op = op
  /\ call' = [call EXCEPT ![t] = NULL]
  /\ ret' = r
  /\ UNCHANGED <<status, contended>>

\* There is no list when there is no memory.
New(t) ==
  /\ Return(t, "new_linked_list", ret)
  /\ list' = <<call[t].arg>> \/ list' = <<>>
  /\ gone' = FALSE

Push(t) ==
  /\ Return(t, "push", ret)
  /\ list # <<>> /\ list' = Append(list, call[t].arg)
  /\ UNCHANGED gone

PushFirst(t) ==
  /\ Return(t, "push_first", ret)
  /\ list' = <<call[t].arg>> \o list
  /\ UNCHANGED gone

Exists(t) ==
  /\ Return(t, "exists_in_list",
            call[t].arg # NULL /\ \E i \in 1..Len(list) : list[i] = call[t].arg)
  /\ UNCHANGED <<list, gone>>

Pop(t) ==
  /\ \/ Return(t, "pop", IF list = <<>> THEN Missing ELSE Head(list))
     \/ /\ call[t] # NULL /\ call[t].arg = 0
        /\ Return(t, "remove_by_index", IF list = <<>> THEN Missing ELSE Head(list))
  /\ list' = IF list = <<>> THEN <<>> ELSE Tail(list)
  /\ UNCHANGED gone

\* The caller keeps its pointer, also when the only node has been freed.
RemoveLast(t) ==
  /\ list # <<>>
  /\ Return(t, "remove_last", list[Len(list)])
  /\ list' = Without(list, Len(list))
  /\ gone' = (Len(list) = 1)

\* The element removed is n places behind the first, but never the first: a
\* negative n counts as 1. Nothing is removed, and "-1" returned, for an n
\* beyond the length.
RemoveByIndex(t) ==
  LET n == IF call[t].arg < 1 THEN 1 ELSE call[t].arg IN
  /\ call[t] # NULL /\ call[t].op = "remove_by_index" /\ call[t].arg # 0
  /\ list # <<>>
  /\ \/ /\ n < Len(list)
        /\ Return(t, "remove_by_index", list[n + 1])
        /\ list' = Without(list, n + 1)
     \/ /\ n > Len(list)
        /\ Return(t, "remove_by_index", Missing)
        /\ UNCHANGED list
  /\ UNCHANGED gone

\* NULL is followed when there is no node to go to, for an index equal to the
\* length too.
FollowsNull(t) ==
  /\ call[t] # NULL
  /\ \/ list = <<>> /\ call[t].op \in {"push", "remove_last"}
     \/ /\ call[t].op = "remove_by_index" /\ call[t].arg # 0
        /\ \/ list = <<>>
           \/ Len(list) = IF call[t].arg < 1 THEN 1 ELSE call[t].arg
  /\ status' = "null"
  /\ UNCHANGED <<list, gone, call, ret, contended>>

\* A list that is gone is used all the same.
UseFreed(t) ==
  /\ gone /\ call[t] # NULL
  /\ status' = "freed"
  /\ UNCHANGED <<list, gone, call, ret, contended>>

Unpromised == contended' \/ status' \in {"torn", "nomem"}

Next ==
  \/ Unpromised
  \/ \E t \in Thread :
       \/ Invoke(t) \/ New(t) \/ Push(t) \/ PushFirst(t) \/ Exists(t) \/ Pop(t)
       \/ RemoveLast(t) \/ RemoveByIndex(t)
       \/ FollowsNull(t) \/ UseFreed(t)

Spec == Init /\ [][Next]_vars
===============================================================================
