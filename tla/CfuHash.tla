-------------------------------- MODULE CfuHash --------------------------------
(***************************************************************************)
(* libcfu's hash table, which holds pnrs and timers, shared by threads.    *)
(*                                                                         *)
(* Granularity: what a call does under the table's mutex is one step.      *)
(* After it has released the mutex, cfuhash_put_data, cfuhash_delete_data  *)
(* and cfuhash_clear go on to read resized_count, entries and num_buckets  *)
(* without it and may then call cfuhash_rehash, which takes it again:      *)
(* other threads' steps fall in between.                                   *)
(*                                                                         *)
(* Abstraction: a chain is the set of its entries. Keys and values are     *)
(* opaque, Hash[k] is what hash_func returns for k. Key and data memory,   *)
(* CFUHASH_IGNORE_CASE and CFUHASH_NO_LOCKING are left out.                *)
(***************************************************************************)
EXTENDS Naturals, FiniteSets

CONSTANTS
  Thread, Key, Value,
  None,         \* C's NULL
  Hash,         \* the hash function
  Sizes,        \* the powers of two that fit a u_int
  InitialSize,  \* the argument of _cfuhash_new
  UIntModulus,  \* resized_count, an unsigned int, wraps to 0 at this value
  MaxEntries    \* bound: no key is added beyond this number of entries

ASSUME HashAssumption ==
  /\ IsFiniteSet(Key)
  /\ None \notin Value /\ None \notin Key
  /\ Hash \in [Key -> Nat]
  /\ Sizes \subseteq Nat \ {0}
  /\ InitialSize \in Nat /\ MaxEntries \in Nat
  /\ UIntModulus \in Nat \ {0}
  /\ \E i \in Sizes : InitialSize <= i /\ 2 * MaxEntries <= i

VARIABLES
  num_buckets,
  buckets,        \* buckets[b]: the entries of the chain of bucket b
  entries,        \* the table's count of its entries
  flags,
  resized_count,
  pc,             \* pc[t]: where thread t is
  seen,           \* seen[t]: the value of entries that t read and has yet to use
  ret             \* ret[t]: what t learnt from its last call

table == <<num_buckets, buckets, entries, flags, resized_count>>
vars == <<table, pc, seen, ret>>

Entry == [key : Key, data : Value]

\* idle: between calls. added, removed: the mutex has just been released after
\* adding or removing. full, sparse: entries has been read as well. rehash:
\* about to call cfuhash_rehash.
PC == {"idle", "added", "removed", "full", "sparse", "rehash"}

Index(n) == 0..(n - 1)

Stored == UNION {buckets[b] : b \in Index(num_buckets)}

TypeOK ==
  /\ num_buckets \in Sizes
  /\ buckets \in [Index(num_buckets) -> SUBSET Entry]
  /\ entries \in 0..MaxEntries
  /\ flags \subseteq {"FROZEN", "FROZEN_UNTIL_GROWS"}
  /\ resized_count \in 0..(UIntModulus - 1)
  /\ pc \in [Thread -> PC]
  /\ seen \in [Thread -> Nat]
  /\ ret \in [Thread -> Value \cup {None} \cup SUBSET Key]

\* hash_size: the least power of two not below s. (The loop does not end when
\* there is none.)
hash_size(s) ==
  CHOOSE i \in Sizes : s <= i /\ \A j \in Sizes : s <= j => i <= j

\* hash_value: n being a power of two, hv & (n - 1) is the remainder.
hash_value(k, n) == Hash[k] % n

\* hash_cmp along the chain of the key's bucket.
Found(k) == {e \in buckets[hash_value(k, num_buckets)] : e.key = k}

DataOf(found) == IF found = {} THEN None ELSE (CHOOSE e \in found : TRUE).data

\* _cfuhash_new, for any flags a creator may ask for.
Init ==
  /\ num_buckets = hash_size(InitialSize)
  /\ buckets = [b \in Index(num_buckets) |-> {}]
  /\ entries = 0
  /\ flags \in {{"FROZEN_UNTIL_GROWS"}, {"FROZEN_UNTIL_GROWS", "FROZEN"}}
  /\ resized_count = 0
  /\ pc = [t \in Thread |-> "idle"]
  /\ seen = [t \in Thread |-> 0]
  /\ ret = [t \in Thread |-> None]

Goto(t, from, to) == pc[t] = from /\ pc' = [pc EXCEPT ![t] = to]

Return(t, r) == ret' = [ret EXCEPT ![t] = r]

-----------------------------------------------------------------------------
(* The steps under the mutex *)

cfuhash_get(t, k) ==
  /\ pc[t] = "idle"
  /\ Return(t, DataOf(Found(k)))
  /\ UNCHANGED <<table, pc, seen>>

\* Mutant: entries is not counted up.
AddUncounted(t, k, v) ==
  LET hv == hash_value(k, num_buckets) IN
  /\ Found(k) = {}
  /\ buckets' = [buckets EXCEPT ![hv] = @ \cup {[key |-> k, data |-> v]}]
  /\ Goto(t, "idle", "added")
  /\ UNCHANGED entries

\* hash_add_entry.
AddEntry(t, k, v) ==
  LET hv == hash_value(k, num_buckets) IN
  /\ Found(k) = {}
  /\ entries < MaxEntries
  /\ buckets' = [buckets EXCEPT ![hv] = @ \cup {[key |-> k, data |-> v]}]
  /\ entries' = entries + 1
  /\ Goto(t, "idle", "added")

ReplaceData(t, k, v) ==
  LET hv == hash_value(k, num_buckets) IN
  /\ Found(k) # {}
  /\ buckets' = [buckets EXCEPT ![hv] = (@ \ Found(k)) \cup {[key |-> k, data |-> v]}]
  /\ Goto(t, "idle", "idle")
  /\ UNCHANGED entries

cfuhash_put(t, k, v) ==
  /\ AddEntry(t, k, v) \/ ReplaceData(t, k, v)
  /\ Return(t, DataOf(Found(k)))
  /\ UNCHANGED <<num_buckets, flags, resized_count, seen>>

\* Mutant: entries is counted down whether or not the key was found.
DeleteCountsMisses(t, k) ==
  /\ Return(t, DataOf(Found(k)))
  /\ buckets' = [buckets EXCEPT ![hash_value(k, num_buckets)] = @ \ Found(k)]
  /\ entries' = entries - 1
  /\ Goto(t, "idle", "removed")
  /\ UNCHANGED <<num_buckets, flags, resized_count, seen>>

cfuhash_delete(t, k) ==
  /\ Return(t, DataOf(Found(k)))
  /\ \/ /\ Found(k) # {}
        /\ buckets' = [buckets EXCEPT ![hash_value(k, num_buckets)] = @ \ Found(k)]
        /\ entries' = entries - 1
        /\ Goto(t, "idle", "removed")
     \/ /\ Found(k) = {}
        /\ Goto(t, "idle", "idle")
        /\ UNCHANGED <<buckets, entries>>
  /\ UNCHANGED <<num_buckets, flags, resized_count, seen>>

cfuhash_clear(t) ==
  /\ Goto(t, "idle", "removed")
  /\ buckets' = [b \in Index(num_buckets) |-> {}]
  /\ entries' = 0
  /\ UNCHANGED <<num_buckets, flags, resized_count, seen, ret>>

\* cfuhash_foreach_remove unlinks the entries its callback picks; it neither
\* counts down entries nor looks at the load. The caller knows from its callback
\* which keys these were (the number returned is that of the calls).
cfuhash_foreach_remove(t, picked) ==
  /\ pc[t] = "idle"
  /\ buckets' = [b \in Index(num_buckets) |-> {e \in buckets[b] : e.key \notin picked}]
  /\ Return(t, picked \cap {e.key : e \in Stored})
  /\ UNCHANGED <<num_buckets, entries, flags, resized_count, pc, seen>>

\* cfuhash_keys collects keys into an array of `entries` elements and stops
\* when it is full.
cfuhash_keys(t) ==
  LET keys == {e.key : e \in Stored} IN
  /\ pc[t] = "idle"
  /\ \E some \in SUBSET keys :
       /\ \/ Cardinality(Stored) <= entries /\ some = keys
          \/ entries < Cardinality(Stored) /\ Cardinality(some) = entries
       /\ Return(t, some)
  /\ UNCHANGED <<table, pc, seen>>

\* cfuhash_foreach goes from bucket to bucket until its callback, which knows
\* the keys it was called for, returns non-zero; it does so in bucket b or never.
cfuhash_foreach(t) ==
  /\ pc[t] = "idle"
  /\ \E b \in Index(num_buckets) : \E some \in SUBSET buckets[b] :
       /\ some # {} \/ (b = num_buckets - 1 /\ buckets[b] = {})
       /\ Return(t, {e.key : e \in some \cup UNION {buckets[c] : c \in Index(b)}})
  /\ UNCHANGED <<table, pc, seen>>

-----------------------------------------------------------------------------
(* The steps without the mutex *)

\* The guards of cfuhash_put_data, and of cfuhash_delete_data and
\* cfuhash_clear, on the flags.
MayGrow == "FROZEN" \notin flags
MayShrink ==
  /\ "FROZEN" \notin flags
  /\ ~("FROZEN_UNTIL_GROWS" \in flags /\ resized_count = 0)

ReadEntries(t) ==
  /\ \/ MayGrow /\ Goto(t, "added", "full")
     \/ MayShrink /\ Goto(t, "removed", "sparse")
  /\ seen' = [seen EXCEPT ![t] = entries]
  /\ UNCHANGED <<table, ret>>

LeaveFrozen(t) ==
  /\ \/ ~MayGrow /\ Goto(t, "added", "idle")
     \/ ~MayShrink /\ Goto(t, "removed", "idle")
  /\ UNCHANGED <<table, seen, ret>>

\* The load factor against high = 0.75 and low = 0.25.
OverHigh(n) == 4 * n > 3 * num_buckets
UnderLow(n) == 4 * n < num_buckets

CompareLoad(t) ==
  /\ \/ OverHigh(seen[t]) /\ Goto(t, "full", "rehash")
     \/ ~OverHigh(seen[t]) /\ Goto(t, "full", "idle")
     \/ UnderLow(seen[t]) /\ Goto(t, "sparse", "rehash")
     \/ ~UnderLow(seen[t]) /\ Goto(t, "sparse", "idle")
  /\ seen' = [seen EXCEPT ![t] = 0]
  /\ UNCHANGED <<table, ret>>

-----------------------------------------------------------------------------

\* Mutant: the new size just holds the entries.
NewSizeTight == hash_size(entries)

\* entries * 2 / (high + low), and high + low = 1.
NewSize == hash_size(2 * entries)

\* Mutant: the new index is computed with the old number of buckets.
RehashOldIndex(t) ==
  /\ pc[t] \in {"idle", "rehash"}
  /\ pc' = [pc EXCEPT ![t] = "idle"]
  /\ num_buckets' = NewSize
  /\ buckets' = [b \in Index(NewSize) |->
                   {e \in Stored : hash_value(e.key, num_buckets) = b}]
  /\ UNCHANGED <<entries, flags, resized_count, seen, ret>>

\* Mutant: only the first entry of each chain is moved.
RehashHeads(t) ==
  LET heads == {CHOOSE e \in buckets[b] : TRUE :
                   b \in {b \in Index(num_buckets) : buckets[b] # {}}}
  IN
  /\ pc[t] \in {"idle", "rehash"}
  /\ pc' = [pc EXCEPT ![t] = "idle"]
  /\ num_buckets' = NewSize
  /\ buckets' = [b \in Index(NewSize) |->
                   {e \in heads : hash_value(e.key, NewSize) = b}]
  /\ UNCHANGED <<entries, flags, resized_count, seen, ret>>

\* cfuhash_rehash, under the mutex again. It is also an entry point.
cfuhash_rehash(t) ==
  /\ pc[t] \in {"idle", "rehash"}
  /\ pc' = [pc EXCEPT ![t] = "idle"]
  /\ \/ /\ NewSize # num_buckets
        /\ num_buckets' = NewSize
        /\ buckets' = [b \in Index(NewSize) |->
                         {e \in Stored : hash_value(e.key, NewSize) = b}]
        /\ resized_count' = (resized_count + 1) % UIntModulus
     \/ /\ NewSize = num_buckets
        /\ UNCHANGED <<num_buckets, buckets, resized_count>>
  /\ UNCHANGED <<entries, flags, seen, ret>>

Next ==
  \E t \in Thread :
    \/ \E k \in Key : cfuhash_get(t, k)
    \/ \E k \in Key, v \in Value : cfuhash_put(t, k, v)
    \/ \E k \in Key : cfuhash_delete(t, k)
    \/ cfuhash_clear(t)
    \/ \E picked \in SUBSET Key : cfuhash_foreach_remove(t, picked)
    \/ cfuhash_keys(t)
    \/ cfuhash_foreach(t)
    \/ ReadEntries(t)
    \/ LeaveFrozen(t)
    \/ CompareLoad(t)
    \/ cfuhash_rehash(t)

Spec == Init /\ [][Next]_vars

-----------------------------------------------------------------------------
(* Properties *)

\* Whatever resizing other threads did meanwhile, an entry is in the bucket its
\* key hashes to at the present size, and no key has two entries: so a search
\* of one chain finds what there is (hash_value, hash_add_entry,
\* cfuhash_rehash).
WellPlaced ==
  /\ \A b \in Index(num_buckets) : \A e \in buckets[b] :
       hash_value(e.key, num_buckets) = b
  /\ \A e, f \in Stored : e.key = f.key => e = f

\* cfuhash_keys never truncates, "this should never happen": entries is at
\* least the number of entries in the chains, even after
\* cfuhash_foreach_remove.
KeysFit == Cardinality(Stored) <= entries

\* The load check is made without the mutex, on values other threads may have
\* changed between the reads; yet whenever no call is under way a table that
\* is not frozen is at most three quarters full.
LoadBounded ==
  (MayGrow /\ \A t \in Thread : pc[t] = "idle") => ~OverHigh(entries)

\* The map that the chains represent.
contents == [k \in Key |-> DataOf({e \in Stored : e.key = k})]

Map == INSTANCE HashMap WITH map <- contents

\* Every call acts on, and answers from, a map, rehashing and foreign steps
\* between a call's two halves being invisible.
ImplementsMap == Map!Spec

================================================================================
