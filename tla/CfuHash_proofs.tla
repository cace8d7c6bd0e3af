---------------------------- MODULE CfuHash_proofs ----------------------------
(***************************************************************************)
(* Proofs about CfuHash, for any number of threads, keys and buckets and   *)
(* any hash function.                                                      *)
(***************************************************************************)
EXTENDS CfuHash, FiniteSetTheorems, FunctionTheorems, WellFoundedInduction, TLAPS

\* hash_size returns a size that is large enough, when there is one.
LEMMA HashSizeFacts ==
  ASSUME NEW s \in Nat, \E i \in Sizes : s <= i
  PROVE  hash_size(s) \in Sizes /\ s <= hash_size(s)
<1> DEFINE T == {i \in Sizes : s <= i}
<1>1. T \subseteq Nat /\ T # {}
  BY HashAssumption
<1> DEFINE less == {p \in Nat \X Nat : p[1] < p[2]}
<1>2. OpToRel(<, Nat) = less
  BY Zenon DEF OpToRel
<1>3. PICK x \in T : \A y \in T : x <= y
  <2>1. IsWellFoundedOn(less, Nat)
    BY <1>2, NatLessThanWellFounded, Zenon
  <2>2. \E x \in T : \A y \in T : <<y, x>> \notin less
    BY <1>1, <2>1, WFMin, Zenon
  <2>3. \A x, y \in Nat : <<y, x>> \notin less => x <= y
    OBVIOUS
  <2> HIDE DEF less, T
  <2>4. QED BY <1>1, <2>2, <2>3
<1>4. x \in Sizes /\ s <= x /\ \A j \in Sizes : s <= j => x <= j
  BY <1>3
<1>5. QED BY <1>4 DEF hash_size

\* hash_value stays within the array ("assert(hv < ht->num_buckets)").
LEMMA HashValueFacts ==
  ASSUME NEW k \in Key, NEW n \in Sizes
  PROVE  hash_value(k, n) \in Index(n)
<1>1. Hash[k] \in Nat /\ n \in Nat /\ n > 0
  BY HashAssumption
<1>2. QED BY <1>1 DEF hash_value, Index

-----------------------------------------------------------------------------
(* The chains *)

\* The part of TypeOK and WellPlaced that says where entries are.
Placed ==
  /\ num_buckets \in Sizes
  /\ buckets \in [Index(num_buckets) -> SUBSET Entry]
  /\ WellPlaced

\* A search of one chain finds every entry with the key.
LEMMA FoundIsAll ==
  ASSUME Placed, NEW k \in Key
  PROVE  /\ hash_value(k, num_buckets) \in Index(num_buckets)
         /\ Found(k) = {e \in Stored : e.key = k}
         /\ Stored \subseteq Entry
<1>1. hash_value(k, num_buckets) \in Index(num_buckets)
  BY HashValueFacts DEF Placed
<1>2. Found(k) \subseteq {e \in Stored : e.key = k}
  BY <1>1 DEF Found, Stored
<1>3. ASSUME NEW e \in Stored, e.key = k
      PROVE  e \in Found(k)
  <2>1. PICK b \in Index(num_buckets) : e \in buckets[b]
    BY <1>3 DEF Stored
  <2>2. hash_value(k, num_buckets) = b
    BY <1>3, <2>1 DEF Placed, WellPlaced
  <2>3. QED BY <1>3, <2>1, <2>2 DEF Found
<1>4. Stored \subseteq Entry
  BY DEF Placed, Stored
<1>5. QED BY <1>1, <1>2, <1>3, <1>4

\* Writing one chain changes what is stored by what it changes there.
LEMMA WriteChain ==
  ASSUME Placed, NEW k \in Key, NEW new,
         num_buckets' = num_buckets,
         buckets' = [buckets EXCEPT ![hash_value(k, num_buckets)] =
                       (buckets[hash_value(k, num_buckets)] \ Found(k)) \cup new],
         new \subseteq Entry, \A e \in new : e.key = k,
         \A e, f \in new : e = f
  PROVE  /\ Placed'
         /\ Stored' = (Stored \ Found(k)) \cup new
<1> DEFINE hv == hash_value(k, num_buckets)
<1>1. /\ hv \in Index(num_buckets)
      /\ Found(k) = {e \in Stored : e.key = k}
  BY FoundIsAll
<1>2. /\ buckets' \in [Index(num_buckets) -> SUBSET Entry]
      /\ buckets'[hv] = (buckets[hv] \ Found(k)) \cup new
      /\ \A b \in Index(num_buckets) \ {hv} : buckets'[b] = buckets[b]
  BY <1>1 DEF Placed
<1>3. \A b \in Index(num_buckets) \ {hv} : buckets[b] \cap Found(k) = {}
  BY <1>1 DEF Placed, WellPlaced, Found
<1>4. \A b \in Index(num_buckets) \ {hv} : buckets'[b] = buckets[b] \ Found(k)
  BY <1>2, <1>3
<1>5. Stored' = (Stored \ Found(k)) \cup new
  <2>1. Stored' = UNION {buckets'[b] : b \in Index(num_buckets)}
    BY DEF Stored
  <2>2. ASSUME NEW e PROVE e \in Stored' <=> e \in (Stored \ Found(k)) \cup new
    <3>1. e \in Stored' <=> \E b \in Index(num_buckets) : e \in buckets'[b]
      BY <2>1
    <3>2. e \in Stored <=> \E b \in Index(num_buckets) : e \in buckets[b]
      BY DEF Stored
    <3>3. \A b \in Index(num_buckets) :
             e \in buckets'[b] <=> (e \in buckets[b] /\ e \notin Found(k))
                                  \/ (b = hv /\ e \in new)
      BY <1>2, <1>4
    <3>4. QED BY <1>1, <3>1, <3>2, <3>3
  <2>3. QED BY <2>2
<1>6. \A b \in Index(num_buckets) : \A e \in buckets'[b] :
         hash_value(e.key, num_buckets) = b
  BY <1>2 DEF Placed, WellPlaced
<1>7. \A e, f \in Stored' : e.key = f.key => e = f
  BY <1>1, <1>5 DEF Placed, WellPlaced
<1>8. QED BY <1>2, <1>5, <1>6, <1>7 DEF Placed, WellPlaced

\* Dropping the entries of some keys (all of them when the table is cleared).
LEMMA DropKeys ==
  ASSUME Placed, NEW picked, num_buckets' = num_buckets,
         buckets' = [b \in Index(num_buckets) |-> {e \in buckets[b] : e.key \notin picked}]
  PROVE  /\ Placed'
         /\ Stored' = {e \in Stored : e.key \notin picked}
<1>1. buckets' \in [Index(num_buckets) -> SUBSET Entry]
  BY DEF Placed
<1>2. Stored' = {e \in Stored : e.key \notin picked}
  <2>1. Stored' = UNION {buckets'[b] : b \in Index(num_buckets)}
    BY DEF Stored
  <2>2. ASSUME NEW e
        PROVE  e \in Stored' <=> e \in {f \in Stored : f.key \notin picked}
    <3>1. e \in Stored' <=> \E b \in Index(num_buckets) : e \in buckets'[b]
      BY <2>1
    <3>2. e \in Stored <=> \E b \in Index(num_buckets) : e \in buckets[b]
      BY DEF Stored
    <3>3. QED BY <3>1, <3>2
  <2>3. QED BY <2>2
<1>3. WellPlaced'
  BY <1>2 DEF Placed, WellPlaced
<1>4. QED BY <1>1, <1>2, <1>3 DEF Placed

\* cfuhash_rehash moves every entry to its place and loses none.
LEMMA Redistribute ==
  ASSUME Placed, NEW n \in Sizes, num_buckets' = n,
         buckets' = [b \in Index(n) |-> {e \in Stored : hash_value(e.key, n) = b}]
  PROVE  Placed' /\ Stored' = Stored
<1>1. Stored \subseteq Entry
  BY DEF Placed, Stored
<1>2. buckets' \in [Index(n) -> SUBSET Entry]
  BY <1>1
<1>3. Stored' = Stored
  <2>1. Stored' = UNION {buckets'[b] : b \in Index(n)}
    BY DEF Stored
  <2>2. ASSUME NEW e \in Stored PROVE e \in Stored'
    <3>1. hash_value(e.key, n) \in Index(n)
      BY <1>1, HashValueFacts DEF Entry
    <3>2. e \in buckets'[hash_value(e.key, n)]
      BY <3>1
    <3>3. QED BY <2>1, <3>1, <3>2
  <2>3. ASSUME NEW e \in Stored' PROVE e \in Stored
    BY <2>1
  <2>4. QED BY <2>2, <2>3
<1>4. WellPlaced'
  BY <1>3 DEF Placed, WellPlaced
<1>5. QED BY <1>2, <1>3, <1>4 DEF Placed

-----------------------------------------------------------------------------
(* The invariant. TypeOK alone is not inductive: that cfuhash_delete leaves  *)
(* entries a natural number follows from KeysFit, which needs WellPlaced, as *)
(* a key with two entries would be counted down once and removed twice.      *)

Inv == TypeOK /\ WellPlaced /\ KeysFit

LEMMA InvPlaced == Inv => Placed
BY DEF Inv, TypeOK, Placed

\* An entry is determined by its key, so the table holds finitely many.
LEMMA StoredFinite ==
  ASSUME Placed
  PROVE  IsFiniteSet(Stored) /\ Cardinality(Stored) \in Nat
<1> DEFINE f == [e \in Stored |-> e.key]
<1>1. Stored \subseteq Entry
  BY DEF Placed, Stored
<1>2. f \in Injection(Stored, Key)
  <2>1. f \in [Stored -> Key]
    BY <1>1 DEF Entry
  <2>2. \A a, b \in Stored : f[a] = f[b] => a = b
    BY DEF Placed, WellPlaced
  <2>3. QED BY <2>1, <2>2, Fun_IsInj
<1>3. IsFiniteSet(Stored)
  BY <1>2, HashAssumption, FS_Injection
<1>4. QED BY <1>3, FS_CardinalityType

\* What one call does to the counters, given what it does to the chains.
LEMMA CountWrite ==
  ASSUME Placed, NEW k \in Key, NEW e,
         Found(k) = {x \in Stored : x.key = k}
  PROVE  /\ Found(k) # {} => Cardinality(Stored \ Found(k)) = Cardinality(Stored) - 1
         /\ e.key = k /\ Found(k) # {} =>
              Cardinality((Stored \ Found(k)) \cup {e}) = Cardinality(Stored)
         /\ e.key = k /\ Found(k) = {} =>
              Cardinality((Stored \ Found(k)) \cup {e}) = Cardinality(Stored) + 1
<1>1. IsFiniteSet(Stored) /\ Cardinality(Stored) \in Nat
  BY StoredFinite
<1>2. CASE Found(k) = {}
  <2>1. Stored \ Found(k) = Stored
    BY <1>2
  <2>2. e.key = k => e \notin Stored
    BY <1>2
  <2>3. QED BY <1>1, <1>2, <2>1, <2>2, FS_AddElement
<1>3. CASE Found(k) # {}
  <2>1. PICK x \in Stored : Found(k) = {x}
    BY <1>3 DEF Placed, WellPlaced
  <2>2. /\ IsFiniteSet(Stored \ {x})
        /\ Cardinality(Stored \ {x}) = Cardinality(Stored) - 1
    BY <1>1, <2>1, FS_RemoveElement
  <2>3. e.key = k => e \notin Stored \ {x}
    BY <2>1
  <2>4. e.key = k => Cardinality((Stored \ {x}) \cup {e}) = Cardinality(Stored \ {x}) + 1
    BY <2>2, <2>3, FS_AddElement
  <2>5. Stored \ Found(k) = Stored \ {x}
    BY <2>1
  <2>6. e.key = k => Cardinality((Stored \ Found(k)) \cup {e}) = Cardinality(Stored)
    <3>1. \A c \in Nat : (c - 1) + 1 = c
      OBVIOUS
    <3>2. e.key = k => Cardinality((Stored \ Found(k)) \cup {e}) = (Cardinality(Stored) - 1) + 1
      BY <2>2, <2>4, <2>5, Zenon
    <3>3. QED BY <1>1, <3>1, <3>2, Zenon
  <2>7. Cardinality(Stored \ Found(k)) = Cardinality(Stored) - 1
    BY <2>2, <2>5
  <2>8. QED BY <1>3, <2>6, <2>7
<1>4. QED BY <1>2, <1>3

LEMMA InvInit == Init => Inv
<1> SUFFICES ASSUME Init PROVE Inv
  OBVIOUS
<1>1. num_buckets \in Sizes
  BY HashSizeFacts, HashAssumption DEF Init
<1>2. Stored = {}
  BY DEF Init, Stored
<1>3. TypeOK
  BY <1>1, HashAssumption DEF Init, TypeOK, PC
<1>4. WellPlaced
  BY <1>2 DEF Init, WellPlaced
<1>5. KeysFit
  BY <1>2, FS_EmptySet DEF Init, KeysFit
<1>6. QED BY <1>3, <1>4, <1>5 DEF Inv

\* DataOf returns a value or NULL.
LEMMA DataOfType ==
  ASSUME NEW S \in SUBSET Entry
  PROVE  DataOf(S) \in Value \cup {None}
BY DEF DataOf, Entry

\* cfuhash_rehash gets a size, at least twice the number of entries.
LEMMA NewSizeFacts ==
  ASSUME TypeOK
  PROVE  NewSize \in Sizes /\ NewSize \in Nat /\ 2 * entries <= NewSize
<1>1. \E i \in Sizes : 2 * entries <= i
  BY HashAssumption DEF TypeOK
<1>2. 2 * entries \in Nat
  BY HashAssumption DEF TypeOK
<1>3. QED BY <1>1, <1>2, HashSizeFacts, HashAssumption DEF NewSize

\* The buckets below one of the table are its buckets.
LEMMA BelowStored ==
  ASSUME TypeOK, NEW b \in Index(num_buckets)
  PROVE  /\ buckets[b] \cup UNION {buckets[c] : c \in Index(b)} \subseteq Stored
         /\ b = num_buckets - 1 => buckets[b] \cup UNION {buckets[c] : c \in Index(b)} = Stored
<1>1. num_buckets \in Nat /\ b \in Nat
  BY HashAssumption DEF TypeOK, Index
<1>2. Index(b) \subseteq Index(num_buckets)
  BY <1>1 DEF Index
<1>3. b = num_buckets - 1 => Index(num_buckets) = Index(b) \cup {b}
  BY <1>1 DEF Index
<1>4. QED BY <1>2, <1>3 DEF Stored

LEMMA InvStep == Inv /\ [Next]_vars => Inv'
<1> SUFFICES ASSUME Inv, [Next]_vars PROVE Inv'
  OBVIOUS
<1> USE DEF PC
<1>0. /\ Placed /\ TypeOK /\ KeysFit
      /\ Cardinality(Stored) \in Nat /\ IsFiniteSet(Stored)
      /\ entries \in Nat /\ MaxEntries \in Nat
  BY InvPlaced, StoredFinite, HashAssumption DEF Inv, TypeOK
<1>1. ASSUME NEW t \in Thread, NEW k \in Key, cfuhash_get(t, k)
      PROVE  Inv'
  <2>1. DataOf(Found(k)) \in Value \cup {None}
    BY <1>0, FoundIsAll, DataOfType
  <2>2. ret' \in [Thread -> Value \cup {None} \cup SUBSET Key]
    BY <1>0, <1>1, <2>1 DEF cfuhash_get, Return, TypeOK
  <2>3. QED
    BY <1>1, <2>2 DEF cfuhash_get, table, Inv, TypeOK, WellPlaced, KeysFit, Stored
<1>2. ASSUME NEW t \in Thread, NEW k \in Key, NEW v \in Value, cfuhash_put(t, k, v)
      PROVE  Inv'
  <2> DEFINE e == [key |-> k, data |-> v]
  <2>1. Found(k) = {x \in Stored : x.key = k} /\ Stored \subseteq Entry
    BY <1>0, FoundIsAll
  <2>2. /\ num_buckets' = num_buckets
        /\ buckets' = [buckets EXCEPT ![hash_value(k, num_buckets)] =
                         (buckets[hash_value(k, num_buckets)] \ Found(k)) \cup {e}]
    BY <1>2 DEF cfuhash_put, AddEntry, ReplaceData
  <2>3. Placed' /\ Stored' = (Stored \ Found(k)) \cup {e}
    <3>1. {e} \subseteq Entry /\ (\A x \in {e} : x.key = k) /\ \A x, y \in {e} : x = y
      BY DEF Entry
    <3> HIDE DEF e
    <3>2. QED BY <1>0, <2>2, <3>1, WriteChain
  <2>4. ret' \in [Thread -> Value \cup {None} \cup SUBSET Key]
    <3>1. DataOf(Found(k)) \in Value \cup {None}
      BY <2>1, DataOfType
    <3>2. QED BY <1>0, <1>2, <3>1 DEF cfuhash_put, Return, TypeOK
  <2>5. pc' \in [Thread -> PC]
    BY <1>0, <1>2 DEF cfuhash_put, AddEntry, ReplaceData, Goto, TypeOK
  <2>6. entries' \in 0..MaxEntries /\ Cardinality(Stored') <= entries'
    <3>1. CASE AddEntry(t, k, v)
      <4>1. Cardinality(Stored') = Cardinality(Stored) + 1
        BY <1>0, <2>1, <2>3, <3>1, CountWrite DEF AddEntry
      <4>2. entries' = entries + 1 /\ entries < MaxEntries
        BY <3>1 DEF AddEntry
      <4>3. QED BY <1>0, <4>1, <4>2 DEF KeysFit
    <3>2. CASE ReplaceData(t, k, v)
      <4>1. Cardinality(Stored') = Cardinality(Stored)
        BY <1>0, <2>1, <2>3, <3>2, CountWrite DEF ReplaceData
      <4>2. QED BY <1>0, <3>2, <4>1 DEF ReplaceData, KeysFit, TypeOK
    <3>3. QED BY <1>2, <3>1, <3>2 DEF cfuhash_put
  <2>7. QED
    BY <1>0, <1>2, <2>3, <2>4, <2>5, <2>6
       DEF cfuhash_put, Inv, TypeOK, Placed, KeysFit
<1>3. ASSUME NEW t \in Thread, NEW k \in Key, cfuhash_delete(t, k)
      PROVE  Inv'
  <2>1. Found(k) = {x \in Stored : x.key = k} /\ Stored \subseteq Entry
    BY <1>0, FoundIsAll
  <2>2. ret' \in [Thread -> Value \cup {None} \cup SUBSET Key]
    <3>1. DataOf(Found(k)) \in Value \cup {None}
      BY <2>1, DataOfType
    <3>2. QED BY <1>0, <1>3, <3>1 DEF cfuhash_delete, Return, TypeOK
  <2>3. pc' \in [Thread -> PC]
    BY <1>0, <1>3 DEF cfuhash_delete, Goto, TypeOK
  <2>4. CASE Found(k) = {}
    BY <1>0, <1>3, <2>2, <2>3, <2>4
       DEF cfuhash_delete, Inv, TypeOK, WellPlaced, KeysFit, Stored
  <2>5. CASE Found(k) # {}
    <3>1. /\ num_buckets' = num_buckets /\ entries' = entries - 1
          /\ buckets' = [buckets EXCEPT ![hash_value(k, num_buckets)] =
                         (buckets[hash_value(k, num_buckets)] \ Found(k)) \cup {}]
      BY <1>3, <2>5 DEF cfuhash_delete
    <3>2. Placed' /\ Stored' = (Stored \ Found(k)) \cup {}
      BY <1>0, <3>1, WriteChain
    <3>3. Stored' = Stored \ Found(k)
      BY <3>2
    <3>4. Cardinality(Stored') = Cardinality(Stored) - 1
      BY <1>0, <2>1, <2>5, <3>3, CountWrite
    <3>5. Cardinality(Stored) # 0
      BY <1>0, <2>1, <2>5, FS_EmptySet
    <3>6. entries' \in 0..MaxEntries /\ Cardinality(Stored') <= entries'
      BY <1>0, <3>1, <3>4, <3>5 DEF KeysFit, TypeOK
    <3>7. QED
      BY <1>0, <1>3, <2>2, <2>3, <3>2, <3>6
         DEF cfuhash_delete, Inv, TypeOK, Placed, KeysFit
  <2>6. QED BY <2>4, <2>5
<1>4. ASSUME NEW t \in Thread, cfuhash_clear(t)
      PROVE  Inv'
  <2>1. pc' \in [Thread -> PC]
    BY <1>0, <1>4 DEF cfuhash_clear, Goto, TypeOK
  <2>2. buckets' \in [Index(num_buckets) -> SUBSET Entry] /\ Stored' = {}
    BY <1>4 DEF cfuhash_clear, Stored
  <2>3. WellPlaced'
    BY <1>4, <2>2 DEF cfuhash_clear, WellPlaced
  <2>4. entries' \in 0..MaxEntries /\ Cardinality(Stored') <= entries'
    BY <1>0, <1>4, <2>2, FS_EmptySet DEF cfuhash_clear
  <2>5. QED
    BY <1>0, <1>4, <2>1, <2>2, <2>3, <2>4 DEF cfuhash_clear, Inv, TypeOK, KeysFit
<1>5. ASSUME NEW t \in Thread, NEW picked \in SUBSET Key,
             cfuhash_foreach_remove(t, picked)
      PROVE  Inv'
  <2>1. Placed' /\ Stored' = {e \in Stored : e.key \notin picked}
    BY <1>0, <1>5, DropKeys DEF cfuhash_foreach_remove
  <2>2. Stored' \in SUBSET Stored
    BY <2>1
  <2>3. Cardinality(Stored') <= Cardinality(Stored) /\ Cardinality(Stored') \in Nat
    BY <1>0, <2>2, FS_Subset, FS_CardinalityType
  <2>4. Cardinality(Stored') <= entries
    BY <1>0, <2>3 DEF KeysFit
  <2>5. ret' \in [Thread -> Value \cup {None} \cup SUBSET Key]
    <3>1. picked \cap {e.key : e \in Stored} \in SUBSET Key
      OBVIOUS
    <3>2. QED BY <1>0, <1>5, <3>1 DEF cfuhash_foreach_remove, Return, TypeOK
  <2>6. QED
    BY <1>0, <1>5, <2>1, <2>4, <2>5
       DEF cfuhash_foreach_remove, Inv, TypeOK, Placed, KeysFit
<1>6. ASSUME NEW t \in Thread, cfuhash_keys(t)
      PROVE  Inv'
  <2>1. {e.key : e \in Stored} \subseteq Key
    BY <1>0 DEF Placed, Stored, Entry
  <2>2. ret' \in [Thread -> Value \cup {None} \cup SUBSET Key]
    BY <1>0, <1>6, <2>1 DEF cfuhash_keys, Return, TypeOK
  <2>3. QED
    BY <1>6, <2>2 DEF cfuhash_keys, table, Inv, TypeOK, WellPlaced, KeysFit, Stored
<1>11. ASSUME NEW t \in Thread, cfuhash_foreach(t)
       PROVE  Inv'
  <2>1. ret' \in [Thread -> Value \cup {None} \cup SUBSET Key]
    <3>0. PICK b \in Index(num_buckets) : \E some \in SUBSET buckets[b] :
            Return(t, {e.key : e \in some \cup UNION {buckets[c] : c \in Index(b)}})
      BY <1>11 DEF cfuhash_foreach
    <3>1. PICK some \in SUBSET buckets[b] :
            Return(t, {e.key : e \in some \cup UNION {buckets[c] : c \in Index(b)}})
      BY <3>0
    <3>2. some \cup UNION {buckets[c] : c \in Index(b)} \subseteq Entry
      BY <1>0, BelowStored DEF Placed, Stored
    <3>3. {e.key : e \in some \cup UNION {buckets[c] : c \in Index(b)}} \subseteq Key
      BY <3>2 DEF Entry
    <3>4. QED BY <1>0, <3>1, <3>3 DEF Return, TypeOK
  <2>2. QED
    BY <1>11, <2>1 DEF cfuhash_foreach, table, Inv, TypeOK, WellPlaced, KeysFit, Stored
<1>7. ASSUME NEW t \in Thread,
             ReadEntries(t) \/ LeaveFrozen(t) \/ CompareLoad(t)
      PROVE  Inv'
  <2>1. pc' \in [Thread -> PC]
    BY <1>0, <1>7 DEF ReadEntries, LeaveFrozen, CompareLoad, Goto, TypeOK
  <2>2. seen' \in [Thread -> Nat]
    BY <1>0, <1>7 DEF ReadEntries, LeaveFrozen, CompareLoad, TypeOK
  <2>3. UNCHANGED <<table, ret>>
    BY <1>7 DEF ReadEntries, LeaveFrozen, CompareLoad
  <2>4. QED
    BY <2>1, <2>2, <2>3 DEF table, Inv, TypeOK, WellPlaced, KeysFit, Stored
<1>8. ASSUME NEW t \in Thread, cfuhash_rehash(t)
      PROVE  Inv'
  <2>1. pc' \in [Thread -> PC]
    BY <1>0, <1>8 DEF cfuhash_rehash, TypeOK
  <2>2. NewSize \in Sizes
    BY <1>0, NewSizeFacts
  <2>3. CASE NewSize = num_buckets
    BY <1>8, <2>1, <2>3
       DEF cfuhash_rehash, Inv, TypeOK, WellPlaced, KeysFit, Stored
  <2>4. CASE NewSize # num_buckets
    <3>1. Placed' /\ Stored' = Stored
      BY <1>0, <1>8, <2>2, <2>4, Redistribute DEF cfuhash_rehash
    <3>2. resized_count' \in 0..(UIntModulus - 1)
      BY <1>0, <1>8, <2>4, HashAssumption DEF cfuhash_rehash, TypeOK
    <3>3. QED
      BY <1>0, <1>8, <2>1, <3>1, <3>2
         DEF cfuhash_rehash, Inv, TypeOK, Placed, KeysFit
  <2>5. QED BY <2>3, <2>4
<1>9. CASE UNCHANGED vars
  BY <1>9 DEF vars, table, Inv, TypeOK, WellPlaced, KeysFit, Stored
<1>10. QED
  BY <1>1, <1>2, <1>3, <1>4, <1>5, <1>6, <1>7, <1>8, <1>9, <1>11 DEF Next

LEMMA Invariant == Spec => []Inv
<1>1. QED BY InvInit, InvStep, PTL DEF Spec

\* Types: entries never goes below zero or past its bound, and the number of
\* buckets is always one hash_size can return.
THEOREM TypeCorrect == Spec => []TypeOK
<1>1. QED BY Invariant, PTL DEF Inv

\* For any hash function and interleaving, entries are where their keys hash
\* to and no key is there twice.
THEOREM AlwaysWellPlaced == Spec => []WellPlaced
<1>1. QED BY Invariant, PTL DEF Inv

\* cfuhash_keys never has more keys than room: "this should never happen".
THEOREM KeysAlwaysFit == Spec => []KeysFit
<1>1. QED BY Invariant, PTL DEF Inv

-----------------------------------------------------------------------------
(* The load. Whenever the table is too full some thread is still on its way  *)
(* to cfuhash_rehash, and what it has read so far will take it there.        *)

Growing(t) ==
  \/ pc[t] \in {"added", "rehash"}
  \/ pc[t] = "full" /\ entries <= seen[t]

LoadInv == MayGrow /\ OverHigh(entries) => \E t \in Thread : Growing(t)

LEMMA LoadInit == Init => LoadInv
<1> SUFFICES ASSUME Init PROVE ~OverHigh(entries)
  BY DEF LoadInv
<1>1. num_buckets \in Nat
  BY HashSizeFacts, HashAssumption DEF Init
<1>2. QED BY <1>1 DEF Init, OverHigh

LEMMA LoadStep == Inv /\ LoadInv /\ [Next]_vars => LoadInv'
<1> SUFFICES ASSUME Inv, LoadInv, [Next]_vars, MayGrow', OverHigh(entries)'
             PROVE  \E t \in Thread : Growing(t)'
  BY DEF LoadInv
<1>0. /\ TypeOK /\ flags' = flags /\ MayGrow
      /\ num_buckets \in Nat /\ entries \in Nat
      /\ 4 * entries' > 3 * num_buckets'
  <2>1. TypeOK
    BY DEF Inv
  <2>2. flags' = flags
    BY DEF Next, vars, table, cfuhash_get, cfuhash_put, cfuhash_delete,
           cfuhash_clear, cfuhash_foreach_remove, cfuhash_keys, cfuhash_foreach,
           ReadEntries, LeaveFrozen, CompareLoad, cfuhash_rehash
  <2>3. num_buckets \in Nat /\ entries \in Nat
    BY <2>1, HashAssumption DEF TypeOK
  <2>4. QED BY <2>1, <2>2, <2>3 DEF MayGrow, OverHigh
\* A step that neither adds an entry nor changes the size, of a thread other
\* than the growing one.
<1>1. ASSUME NEW t \in Thread, Growing(t), pc'[t] = pc[t], seen'[t] = seen[t],
             entries' \in Nat, entries' <= entries
      PROVE  Growing(t)'
  BY <1>0, <1>1 DEF Growing, TypeOK
<1>2. ASSUME num_buckets' = num_buckets, entries' \in Nat, entries' <= entries
      PROVE  \E t \in Thread : Growing(t)
  <2>1. 4 * entries > 3 * num_buckets
    <3>1. \A a, b, n \in Nat : 4 * a > 3 * n /\ a <= b => 4 * b > 3 * n
      OBVIOUS
    <3>2. 4 * entries' > 3 * num_buckets
      BY <1>0, <1>2, Zenon
    <3>3. QED BY <1>0, <1>2, <3>1, <3>2, Zenon
  <2>2. QED BY <1>0, <2>1 DEF LoadInv, OverHigh
<1>3. ASSUME NEW u \in Thread, pc[u] \in {"idle", "removed", "sparse"},
             \A t \in Thread \ {u} : pc'[t] = pc[t] /\ seen'[t] = seen[t],
             num_buckets' = num_buckets, entries' \in Nat, entries' <= entries
      PROVE  \E t \in Thread : Growing(t)'
  <2>1. PICK t \in Thread : Growing(t)
    BY <1>2, <1>3
  <2>2. t # u
    BY <1>3, <2>1 DEF Growing
  <2>3. QED BY <1>1, <1>3, <2>1, <2>2
<1>4. ASSUME NEW t \in Thread, NEW k \in Key, cfuhash_get(t, k)
      PROVE  \E u \in Thread : Growing(u)'
  BY <1>0, <1>3, <1>4 DEF cfuhash_get, table
<1>5. ASSUME NEW t \in Thread, NEW k \in Key, NEW v \in Value, cfuhash_put(t, k, v)
      PROVE  \E u \in Thread : Growing(u)'
  <2>1. CASE AddEntry(t, k, v)
    <3>1. pc'[t] = "added"
      BY <1>0, <2>1 DEF AddEntry, Goto, TypeOK
    <3>2. QED BY <3>1 DEF Growing
  <2>2. CASE ReplaceData(t, k, v)
    <3>1. pc[t] = "idle" /\ pc' = [pc EXCEPT ![t] = "idle"] /\ entries' = entries
      BY <2>2 DEF ReplaceData, Goto
    <3>2. num_buckets' = num_buckets /\ seen' = seen
      BY <1>5 DEF cfuhash_put
    <3>3. \A u \in Thread \ {t} : pc'[u] = pc[u] /\ seen'[u] = seen[u]
      BY <1>0, <3>1, <3>2 DEF TypeOK
    <3>4. QED BY <1>0, <1>3, <3>1, <3>2, <3>3
  <2>3. QED BY <1>5, <2>1, <2>2 DEF cfuhash_put
<1>6. ASSUME NEW t \in Thread, NEW k \in Key, cfuhash_delete(t, k)
      PROVE  \E u \in Thread : Growing(u)'
  <2>1. pc[t] = "idle" /\ \A u \in Thread \ {t} : pc'[u] = pc[u] /\ seen'[u] = seen[u]
    BY <1>0, <1>6 DEF cfuhash_delete, Goto, TypeOK
  <2>2. Inv'
    BY InvStep
  <2>3. entries' \in Nat /\ entries' <= entries /\ num_buckets' = num_buckets
    BY <1>0, <1>6, <2>2 DEF cfuhash_delete, Inv, TypeOK
  <2>4. QED BY <1>3, <2>1, <2>3
<1>7. ASSUME NEW t \in Thread, cfuhash_clear(t)
      PROVE  FALSE
  BY <1>0, <1>7 DEF cfuhash_clear
<1>8. ASSUME NEW t \in Thread, NEW picked \in SUBSET Key,
             cfuhash_foreach_remove(t, picked) \/ cfuhash_keys(t) \/ cfuhash_foreach(t)
      PROVE  \E u \in Thread : Growing(u)'
  BY <1>0, <1>3, <1>8 DEF cfuhash_foreach_remove, cfuhash_keys, cfuhash_foreach, table
<1>9. ASSUME NEW t \in Thread, ReadEntries(t)
      PROVE  \E u \in Thread : Growing(u)'
  <2>1. /\ seen'[t] = entries /\ entries' = entries /\ num_buckets' = num_buckets
        /\ \A u \in Thread \ {t} : pc'[u] = pc[u] /\ seen'[u] = seen[u]
    BY <1>0, <1>9 DEF ReadEntries, Goto, table, TypeOK
  <2>2. CASE pc[t] = "added"
    <3>1. pc'[t] = "full"
      BY <1>0, <1>9, <2>2 DEF ReadEntries, Goto, TypeOK
    <3>2. QED BY <1>0, <2>1, <3>1 DEF Growing
  <2>3. CASE pc[t] = "removed"
    BY <1>0, <1>3, <2>1, <2>3
  <2>4. QED BY <1>9, <2>2, <2>3 DEF ReadEntries, Goto
<1>10. ASSUME NEW t \in Thread, LeaveFrozen(t)
       PROVE  \E u \in Thread : Growing(u)'
  <2>1. /\ pc[t] = "removed" /\ entries' = entries /\ num_buckets' = num_buckets
        /\ \A u \in Thread \ {t} : pc'[u] = pc[u] /\ seen'[u] = seen[u]
    BY <1>0, <1>10 DEF LeaveFrozen, Goto, table, TypeOK
  <2>2. QED BY <1>0, <1>3, <2>1
<1>11. ASSUME NEW t \in Thread, CompareLoad(t)
       PROVE  \E u \in Thread : Growing(u)'
  <2>1. /\ entries' = entries /\ num_buckets' = num_buckets
        /\ \A u \in Thread \ {t} : pc'[u] = pc[u] /\ seen'[u] = seen[u]
    BY <1>0, <1>11 DEF CompareLoad, Goto, table, TypeOK
  <2>2. PICK u \in Thread : Growing(u)
    BY <1>0, <1>2, <2>1
  <2>3. CASE u # t
    BY <1>0, <1>1, <2>1, <2>2, <2>3
  <2>4. CASE u = t
    <3>1. pc[t] = "full" /\ entries <= seen[t] /\ seen[t] \in Nat
      BY <1>0, <1>11, <2>2, <2>4 DEF CompareLoad, Goto, Growing, TypeOK
    <3>2. OverHigh(seen[t])
      BY <1>0, <2>1, <3>1 DEF OverHigh
    <3>3. pc'[t] = "rehash"
      BY <1>0, <1>11, <3>1, <3>2 DEF CompareLoad, Goto, TypeOK
    <3>4. QED BY <3>3 DEF Growing
  <2>5. QED BY <2>3, <2>4
<1>12. ASSUME NEW t \in Thread, cfuhash_rehash(t)
       PROVE  FALSE
  <2>1. NewSize \in Nat /\ 2 * entries <= NewSize
    BY <1>0, NewSizeFacts
  <2>2. num_buckets' = NewSize /\ entries' = entries
    BY <1>12 DEF cfuhash_rehash
  <2>3. QED BY <1>0, <2>1, <2>2
<1>13. CASE UNCHANGED vars
  <2>1. \E t \in Thread : Growing(t)
    BY <1>0, <1>2, <1>13 DEF vars, table
  <2>2. QED BY <1>13, <2>1 DEF vars, table, Growing
<1>14. QED
  BY <1>4, <1>5, <1>6, <1>7, <1>8, <1>9, <1>10, <1>11, <1>12, <1>13 DEF Next

\* Although the load is compared without the mutex, no interleaving leaves a
\* table that is not frozen more than three quarters full.
THEOREM LoadAlwaysBounded == Spec => []LoadBounded
<1>1. LoadInv => LoadBounded
  BY DEF LoadInv, LoadBounded, Growing
<1>2. QED BY <1>1, Invariant, LoadInit, LoadStep, PTL DEF Spec

-----------------------------------------------------------------------------
(* CfuHash implements HashMap *)

\* DataOf on at most one entry, and on what it is applied to in the map.
LEMMA DataOfFacts ==
  /\ DataOf({}) = None
  /\ \A e : DataOf({e}) = e.data
BY DEF DataOf

LEMMA ContentsType ==
  ASSUME Placed
  PROVE  \A k \in Key : /\ contents[k] = DataOf(Found(k))
                        /\ contents[k] \in Value \cup {None}
                        /\ contents[k] # None <=> \E e \in Stored : e.key = k
<1> SUFFICES ASSUME NEW k \in Key
             PROVE  /\ contents[k] = DataOf(Found(k))
                    /\ contents[k] \in Value \cup {None}
                    /\ contents[k] # None <=> \E e \in Stored : e.key = k
  OBVIOUS
<1>1. Found(k) = {e \in Stored : e.key = k} /\ Found(k) \subseteq Entry
  BY FoundIsAll
<1>2. contents[k] = DataOf(Found(k))
  BY <1>1 DEF contents
<1>3. contents[k] \in Value \cup {None}
  BY <1>1, <1>2, DataOfType
<1>4. Found(k) # {} => DataOf(Found(k)) \in Value
  BY <1>1 DEF DataOf, Entry
<1>5. contents[k] # None <=> \E e \in Stored : e.key = k
  BY <1>1, <1>2, <1>4, HashAssumption DEF DataOf
<1>6. QED BY <1>2, <1>3, <1>5

\* The map depends on the stored entries only.
LEMMA ContentsSame ==
  ASSUME Stored' = Stored
  PROVE  contents' = contents
BY DEF contents

\* The map after one chain has been written.
LEMMA ContentsWrite ==
  ASSUME Placed, NEW k \in Key, NEW new, NEW v,
         Stored' = (Stored \ Found(k)) \cup new,
         {e \in new : e.key = k} = new, DataOf(new) = v
  PROVE  contents' = [contents EXCEPT ![k] = v]
<1>1. Found(k) = {e \in Stored : e.key = k}
  BY FoundIsAll
<1>2. {e \in Stored' : e.key = k} = new
  BY <1>1
<1>3. \A a \in Key \ {k} : {e \in Stored' : e.key = a} = {e \in Stored : e.key = a}
  BY <1>1
<1>4. contents' = [a \in Key |-> DataOf({e \in Stored' : e.key = a})]
  BY DEF contents, DataOf
<1>5. contents = [a \in Key |-> DataOf({e \in Stored : e.key = a})]
  BY DEF contents
<1>6. QED BY <1>2, <1>3, <1>4, <1>5

\* The map after the entries of some keys have been dropped.
LEMMA ContentsDrop ==
  ASSUME NEW picked, Stored' = {e \in Stored : e.key \notin picked}
  PROVE  contents' = [a \in Key |-> IF a \in picked THEN None ELSE contents[a]]
<1>1. contents' = [a \in Key |-> DataOf({e \in Stored' : e.key = a})]
  BY DEF contents, DataOf
<1>2. ASSUME NEW a \in Key
      PROVE  DataOf({e \in Stored' : e.key = a})
               = IF a \in picked THEN None ELSE contents[a]
  <2>1. CASE a \in picked
    <3>1. {e \in Stored' : e.key = a} = {}
      BY <2>1
    <3>2. QED BY <2>1, <3>1, DataOfFacts
  <2>2. CASE a \notin picked
    <3>1. {e \in Stored' : e.key = a} = {e \in Stored : e.key = a}
      BY <2>2
    <3>2. QED BY <2>2, <3>1 DEF contents
  <2>3. QED BY <2>1, <2>2
<1>3. QED BY <1>1, <1>2

LEMMA MapStep == Inv /\ [Next]_vars => [Map!Next]_<<contents, ret>>
<1> SUFFICES ASSUME Inv, [Next]_vars PROVE Map!Next \/ UNCHANGED <<contents, ret>>
  OBVIOUS
<1>0. Placed /\ KeysFit /\ TypeOK
  BY InvPlaced DEF Inv
<1>1. ASSUME NEW t \in Thread, NEW k \in Key, cfuhash_get(t, k)
      PROVE  Map!Next
  <2>1. contents' = contents
    BY <1>1, ContentsSame DEF cfuhash_get, table, Stored
  <2>2. ret' = [ret EXCEPT ![t] = contents[k]]
    BY <1>0, <1>1, ContentsType DEF cfuhash_get, Return
  <2>3. QED BY <2>1, <2>2 DEF Map!Next, Map!Get, Map!Return
<1>2. ASSUME NEW t \in Thread, NEW k \in Key, NEW v \in Value, cfuhash_put(t, k, v)
      PROVE  Map!Next
  <2> DEFINE e == [key |-> k, data |-> v]
  <2>1. /\ num_buckets' = num_buckets
        /\ buckets' = [buckets EXCEPT ![hash_value(k, num_buckets)] =
                         (buckets[hash_value(k, num_buckets)] \ Found(k)) \cup {e}]
    BY <1>2 DEF cfuhash_put, AddEntry, ReplaceData
  <2>2. /\ {e} \subseteq Entry /\ (\A x \in {e} : x.key = k)
        /\ \A x, y \in {e} : x = y
    BY DEF Entry
  <2>3. DataOf({e}) = v
    <3>1. DataOf({e}) = e.data
      BY DataOfFacts, Zenon
    <3>2. QED BY <3>1
  <2> HIDE DEF e
  <2>4. Stored' = (Stored \ Found(k)) \cup {e}
    BY <1>0, <2>1, <2>2, WriteChain
  <2>5. contents' = [contents EXCEPT ![k] = v]
    BY <1>0, <2>2, <2>3, <2>4, ContentsWrite
  <2>6. ret' = [ret EXCEPT ![t] = contents[k]]
    BY <1>0, <1>2, ContentsType DEF cfuhash_put, Return
  <2>7. QED BY <2>5, <2>6 DEF Map!Next, Map!Put, Map!Return
<1>3. ASSUME NEW t \in Thread, NEW k \in Key, cfuhash_delete(t, k)
      PROVE  Map!Next
  <2>1. Stored' = (Stored \ Found(k)) \cup {}
    <3>1. CASE Found(k) = {}
      <4>1. Stored' = Stored
        BY <1>3, <3>1 DEF cfuhash_delete, Stored
      <4>2. QED BY <3>1, <4>1
    <3>2. CASE Found(k) # {}
      <4>1. /\ num_buckets' = num_buckets
            /\ buckets' = [buckets EXCEPT ![hash_value(k, num_buckets)] =
                         (buckets[hash_value(k, num_buckets)] \ Found(k)) \cup {}]
        BY <1>3, <3>2 DEF cfuhash_delete
      <4>2. QED BY <1>0, <4>1, WriteChain
    <3>3. QED BY <3>1, <3>2
  <2>2. contents' = [contents EXCEPT ![k] = None]
    BY <1>0, <2>1, ContentsWrite, DataOfFacts
  <2>3. ret' = [ret EXCEPT ![t] = contents[k]]
    BY <1>0, <1>3, ContentsType DEF cfuhash_delete, Return
  <2>4. QED BY <2>2, <2>3 DEF Map!Next, Map!Delete, Map!Return
<1>4. ASSUME NEW t \in Thread, cfuhash_clear(t)
      PROVE  Map!Next
  <2>1. Stored' = {}
    BY <1>4 DEF cfuhash_clear, Stored
  <2>2. Stored' = {e \in Stored : e.key \notin Key}
    BY <1>0, <2>1 DEF Placed, Stored, Entry
  <2>3. Map!Clear
    BY <1>4, <2>2, ContentsDrop DEF cfuhash_clear, Map!Clear
  <2>4. QED BY <2>3 DEF Map!Next
<1>5. ASSUME NEW t \in Thread, NEW picked \in SUBSET Key,
             cfuhash_foreach_remove(t, picked)
      PROVE  Map!Next
  <2>1. Stored' = {e \in Stored : e.key \notin picked}
    BY <1>0, <1>5, DropKeys DEF cfuhash_foreach_remove
  <2>2. picked \cap {e.key : e \in Stored} = {k \in picked : contents[k] # None}
    BY <1>0, ContentsType
  <2>3. Map!RemoveKeys(t, picked)
    BY <1>5, <2>1, <2>2, ContentsDrop
       DEF cfuhash_foreach_remove, Return, Map!RemoveKeys, Map!Return
  <2>4. QED BY <2>3 DEF Map!Next
<1>6. ASSUME NEW t \in Thread, cfuhash_keys(t)
      PROVE  Map!Next
  <2>1. contents' = contents
    BY <1>6, ContentsSame DEF cfuhash_keys, table, Stored
  <2>2. {e.key : e \in Stored} = {k \in Key : contents[k] # None}
    <3>1. \A e \in Stored : e.key \in Key
      BY <1>0 DEF Placed, Stored, Entry
    <3>2. QED BY <1>0, <3>1, ContentsType
  <2>3. ret' = [ret EXCEPT ![t] = {e.key : e \in Stored}]
    <3>1. ~(entries < Cardinality(Stored))
      BY <1>0, StoredFinite, HashAssumption DEF KeysFit, TypeOK
    <3>2. QED BY <1>6, <3>1, Zenon DEF cfuhash_keys, Return
  <2>4. QED BY <2>1, <2>2, <2>3 DEF Map!Next, Map!Keys, Map!Return
<1>11. ASSUME NEW t \in Thread, cfuhash_foreach(t)
       PROVE  Map!Next
  <2>1. contents' = contents
    BY <1>11, ContentsSame DEF cfuhash_foreach, table, Stored
  <2>0. PICK b \in Index(num_buckets) : \E some \in SUBSET buckets[b] :
          /\ some # {} \/ (b = num_buckets - 1 /\ buckets[b] = {})
          /\ Return(t, {e.key : e \in some \cup UNION {buckets[c] : c \in Index(b)}})
    BY <1>11 DEF cfuhash_foreach
  <2>2. PICK some \in SUBSET buckets[b] :
          /\ some # {} \/ (b = num_buckets - 1 /\ buckets[b] = {})
          /\ Return(t, {e.key : e \in some \cup UNION {buckets[c] : c \in Index(b)}})
    BY <2>0
  <2> DEFINE visited == some \cup UNION {buckets[c] : c \in Index(b)}
             keys == {k \in Key : contents[k] # None}
  <2>3. {e.key : e \in Stored} = keys
    <3>1. \A e \in Stored : e.key \in Key
      BY <1>0 DEF Placed, Stored, Entry
    <3>2. QED BY <1>0, <3>1, ContentsType
  <2>4. visited \subseteq Stored
    BY <1>0, BelowStored
  <2>5. visited = {} => Stored = {}
    BY <1>0, <2>2, BelowStored
  <2>6. {e.key : e \in visited} \in SUBSET keys
    BY <2>3, <2>4
  <2>7. {e.key : e \in visited} = {} => keys = {}
    <3>1. \A S : {e.key : e \in S} = {} <=> S = {}
      OBVIOUS
    <3> HIDE DEF visited, keys
    <3>2. QED BY <2>3, <2>5, <3>1
  <2>8. Map!Foreach(t)
    BY <2>1, <2>2, <2>6, <2>7 DEF Return, Map!Foreach, Map!Return
  <2>9. QED BY <2>8 DEF Map!Next
<1>7. ASSUME NEW t \in Thread,
             ReadEntries(t) \/ LeaveFrozen(t) \/ CompareLoad(t)
      PROVE  UNCHANGED <<contents, ret>>
  <2>1. UNCHANGED <<table, ret>>
    BY <1>7 DEF ReadEntries, LeaveFrozen, CompareLoad
  <2>2. QED BY <2>1, ContentsSame DEF table, Stored
<1>8. ASSUME NEW t \in Thread, cfuhash_rehash(t)
      PROVE  UNCHANGED <<contents, ret>>
  <2>1. NewSize \in Sizes
    BY <1>0, NewSizeFacts
  <2>2. Stored' = Stored
    <3>1. CASE NewSize = num_buckets
      BY <1>8, <3>1 DEF cfuhash_rehash, Stored
    <3>2. CASE NewSize # num_buckets
      BY <1>0, <1>8, <2>1, <3>2, Redistribute DEF cfuhash_rehash
    <3>3. QED BY <3>1, <3>2
  <2>3. QED BY <1>8, <2>2, ContentsSame DEF cfuhash_rehash
<1>9. CASE UNCHANGED vars
  BY <1>9, ContentsSame DEF vars, table, Stored
<1>10. QED
  BY <1>1, <1>2, <1>3, <1>4, <1>5, <1>6, <1>7, <1>8, <1>9, <1>11 DEF Next

\* The table is a linearizable map for every interleaving of its threads: no
\* entry is lost, found twice or found under another key because of a rehash.
THEOREM Implements == Spec => ImplementsMap
<1>1. Init => Map!Init
  <2> SUFFICES ASSUME Init PROVE Map!Init
    OBVIOUS
  <2>1. Stored = {}
    BY DEF Init, Stored
  <2>2. \A k \in Key : {e \in Stored : e.key = k} = {}
    BY <2>1
  <2>3. contents = [k \in Key |-> None]
    BY <2>2, DataOfFacts DEF contents
  <2>4. QED BY <2>3 DEF Init, Map!Init
<1>2. QED BY <1>1, MapStep, Invariant, PTL DEF Spec, ImplementsMap, Map!Spec

===============================================================================
