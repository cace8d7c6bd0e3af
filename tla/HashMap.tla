-------------------------------- MODULE HashMap --------------------------------
(***************************************************************************)
(* What a cfuhash table promises to the threads that share it: every call  *)
(* takes effect at once on a map from keys to values, and returns what     *)
(* that map held. Buckets, the load factor and rehashing are invisible.    *)
(***************************************************************************)
CONSTANTS Thread, Key, Value, None

VARIABLES map,  \* map[k]: the value of key k, or None
          ret   \* ret[t]: what thread t learnt from its last call

Init ==
  /\ map = [k \in Key |-> None]
  /\ ret = [t \in Thread |-> None]

Return(t, r) == ret' = [ret EXCEPT ![t] = r]

Get(t, k) == Return(t, map[k]) /\ UNCHANGED map

Put(t, k, v) == Return(t, map[k]) /\ map' = [map EXCEPT ![k] = v]

Delete(t, k) == Return(t, map[k]) /\ map' = [map EXCEPT ![k] = None]

\* The keys present, all of them.
Keys(t) == Return(t, {k \in Key : map[k] # None}) /\ UNCHANGED map

\* The keys foreach calls its callback for: it stops at none of them too early.
Foreach(t) ==
  LET keys == {k \in Key : map[k] # None} IN
  /\ \E some \in SUBSET keys : (some = {} => keys = {}) /\ Return(t, some)
  /\ UNCHANGED map

\* foreach_remove removes the keys present that its callback picks.
RemoveKeys(t, picked) ==
  /\ Return(t, {k \in picked : map[k] # None})
  /\ map' = [k \in Key |-> IF k \in picked THEN None ELSE map[k]]

Clear == map' = [k \in Key |-> None] /\ UNCHANGED ret

Next ==
  \E t \in Thread :
    \/ \E k \in Key : Get(t, k) \/ Delete(t, k) \/ \E v \in Value : Put(t, k, v)
    \/ Keys(t) \/ Foreach(t)
    \/ \E picked \in SUBSET Key : RemoveKeys(t, picked)
    \/ Clear

Spec == Init /\ [][Next]_<<map, ret>>
================================================================================
