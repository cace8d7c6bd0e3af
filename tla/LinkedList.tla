------------------------------ MODULE LinkedList ------------------------------
(***************************************************************************)
(* linked_list.c: a list of nodes on the heap, without a lock. The program *)
(* keeps the requesters of an address in such a list; listener and watcher *)
(* may call push and exists_in_list on it at the same time (register_nreq).*)
(* The other functions change the head or free nodes; they run alone here. *)
(*                                                                         *)
(* An access to a node that others can see is a step. The memory malloc    *)
(* returns and the memory free has taken back hold Junk; the model stops   *)
(* where Junk, freed memory or NULL is used.                               *)
(***************************************************************************)
EXTENDS Integers, Sequences

CONSTANTS
  Thread,   \* the contexts that use the list
  Node,     \* the memory
  Value,    \* the strings
  Index,    \* the arguments of remove_by_index
  NULL, Junk,
  Missing   \* the string "-1"

Content == Value \cup {NULL}

Shared == {"push", "exists_in_list"}
Call == [op : Shared \cup {"new_linked_list", "push_first"}, arg : Content]
  \cup [op : {"pop", "remove_last"}, arg : {NULL}]
  \cup [op : {"remove_by_index"}, arg : Index]

ASSUME ListAssumption ==
  /\ NULL \notin Node \cup Value \cup Call
  /\ Junk \notin Node \cup Content
  /\ Index \subseteq Int

VARIABLES
  head,      \* the caller's pointer to the list
  next, val, \* the fields of the nodes
  used,      \* the nodes malloc has returned and free has not taken back
  call,      \* call[t]: the call t is in, or NULL
  pc,        \* pc[t]: how far it has come
  cur,       \* cur[t]: current
  i,         \* i[t]: the loop variable of remove_by_index
  ret,       \* what the last call returned
  status,    \* "ok", or why the process has stopped
  chain,     \* history: the nodes of the list, while no calls of push overlap
  contended  \* history: two calls of push have overlapped

heap == <<head, next, val, used, chain>>
local == <<call, pc, cur, i, ret>>
vars == <<heap, local, status, contended>>

TypeOK ==
  /\ head \in Node \cup {NULL}
  /\ next \in [Node -> Node \cup {NULL, Junk}]
  /\ val \in [Node -> Content \cup {Junk}]
  /\ used \subseteq Node
  /\ call \in [Thread -> Call \cup {NULL}]
  /\ pc \in [Thread -> {"idle", "walk", "link", "fill", "end"}]
  /\ cur \in [Thread -> Node \cup {NULL}]
  /\ i \in [Thread -> Nat]
  /\ ret \in Content \cup {Missing} \cup BOOLEAN
  /\ status \in {"ok", "torn", "null", "freed", "nomem"}
  /\ chain \in Seq(Node)
  /\ contended \in BOOLEAN

Init ==
  /\ head = NULL
  /\ next = [n \in Node |-> Junk] /\ val = [n \in Node |-> Junk]
  /\ used = {} /\ chain = <<>>
  /\ call = [t \in Thread |-> NULL]
  /\ pc = [t \in Thread |-> "idle"]
  /\ cur = [t \in Thread |-> NULL]
  /\ i = [t \in Thread |-> 0]
  /\ ret = NULL
  /\ status = "ok" /\ contended = FALSE

\* remove_last has freed the only node, and the caller still points to it.
Dangling == head \notin used \cup {NULL}

-----------------------------------------------------------------------------

\* A caller makes a new list where it has none. It does not know that others
\* are in push or exists_in_list.
Invoke(t, c) ==
  /\ status = "ok" /\ call[t] = NULL
  /\ \A u \in Thread : call[u] # NULL => {c.op, call[u].op} \subseteq Shared
  /\ c.op = "new_linked_list" => head = NULL \/ Dangling
  /\ call' = [call EXCEPT ![t] = c]
  /\ pc' = [pc EXCEPT ![t] = "walk"]
  /\ cur' = [cur EXCEPT ![t] = head]
  /\ i' = [i EXCEPT ![t] = 0]
  /\ ret' = NULL
  /\ contended' = (contended \/ (c.op = "push" /\ \E u \in Thread : call[u] # NULL /\ call[u].op = "push"))
  /\ chain' = IF contended' THEN <<>> ELSE chain
  /\ UNCHANGED <<head, next, val, used, status>>

\* t runs the body of op.
In(t, op) ==
  /\ status = "ok" /\ call[t] # NULL /\ call[t].op = op
  /\ op # "new_linked_list" => ~Dangling

Return(t, r) ==
  /\ call' = [call EXCEPT ![t] = NULL]
  /\ pc' = [pc EXCEPT ![t] = "idle"]
  /\ cur' = [cur EXCEPT ![t] = NULL]
  /\ i' = [i EXCEPT ![t] = 0]
  /\ ret' = r
  /\ UNCHANGED <<status, contended>>

Stop(why) ==
  /\ status' = why
  /\ UNCHANGED <<heap, local, contended>>

Advance(t) ==
  /\ cur' = [cur EXCEPT ![t] = next[cur[t]]]
  /\ UNCHANGED <<heap, call, pc, ret, status, contended>>

Goto(t, label) ==
  /\ pc' = [pc EXCEPT ![t] = label]
  /\ UNCHANGED <<call, cur, i, ret, status, contended>>

\* The list as the caller should see it.
NodesNow(c) == chain' = IF contended THEN <<>> ELSE c

Without(s, k) == [j \in 1..(Len(s) - 1) |-> IF j < k THEN s[j] ELSE s[j + 1]]

malloc(n) == n \in Node \ used /\ used' = used \cup {n}

\* free(n), together with the store to another node's next that goes with it.
Free(n, nxt) ==
  /\ used' = used \ {n}
  /\ next' = [nxt EXCEPT ![n] = Junk]
  /\ val' = [val EXCEPT ![n] = Junk]

new_linked_list(t) ==
  /\ In(t, "new_linked_list")
  /\ \/ \E n \in Node :
          /\ malloc(n)
          /\ head' = n
          /\ val' = [val EXCEPT ![n] = call[t].arg]
          /\ next' = [next EXCEPT ![n] = NULL]
          /\ NodesNow(<<n>>)
     \/ used = Node /\ head' = NULL /\ UNCHANGED <<next, val, used>> /\ NodesNow(<<>>)
  /\ Return(t, ret)

\* One iteration of exists_in_list: the loop also ends when the node it has
\* just compared is the last. print_list and the loop of respond_to_pnrs read
\* the nodes in the same way; NULL, which matches nothing, stands for them.
exists_in_list(t) ==
  LET c == cur[t] IN
  /\ In(t, "exists_in_list")
  /\ \/ c = NULL /\ Return(t, FALSE) /\ UNCHANGED heap
     \/ c # NULL /\ val[c] = Junk /\ Stop("torn")
     \/ c # NULL /\ val[c] # Junk /\ call[t].arg # NULL /\ val[c] = call[t].arg
        /\ Return(t, TRUE) /\ UNCHANGED heap
     \/ /\ c # NULL /\ val[c] # Junk /\ (call[t].arg = NULL \/ val[c] # call[t].arg)
        /\ \/ next[c] = Junk /\ Stop("torn")
           \/ next[c] = NULL /\ Return(t, FALSE) /\ UNCHANGED heap
           \/ next[c] \in Node /\ Advance(t) /\ UNCHANGED i

\* push: the loop; a NULL list is followed.
PushWalk(t) ==
  /\ In(t, "push") /\ pc[t] = "walk"
  /\ \/ cur[t] = NULL /\ Stop("null")
     \/ /\ cur[t] # NULL
        /\ \/ next[cur[t]] = Junk /\ Stop("torn")
           \/ next[cur[t]] = NULL /\ Goto(t, "link") /\ UNCHANGED heap
           \/ next[cur[t]] \in Node /\ Advance(t) /\ UNCHANGED i

\* current->next = malloc(sizeof(node_t))
PushLink(t) ==
  /\ In(t, "push") /\ pc[t] = "link"
  /\ \/ \E n \in Node :
          /\ malloc(n)
          /\ next' = [next EXCEPT ![cur[t]] = n]
          /\ Goto(t, "fill")
          /\ UNCHANGED <<head, val, chain>>
     \/ used = Node /\ Stop("nomem")

\* current->next->val = val. current->next is read again: another push may have
\* replaced it, or have ended it with NULL.
PushFill(t) ==
  LET n == next[cur[t]] IN
  /\ In(t, "push") /\ pc[t] = "fill"
  /\ \/ n = NULL /\ Stop("null")
     \/ /\ n # NULL
        /\ val' = [val EXCEPT ![n] = call[t].arg]
        /\ NodesNow(Append(chain, n))
        /\ Goto(t, "end")
        /\ UNCHANGED <<head, next, used>>

\* current->next->next = NULL
PushEnd(t) ==
  LET n == next[cur[t]] IN
  /\ In(t, "push") /\ pc[t] = "end"
  /\ \/ n = NULL /\ Stop("null")
     \/ /\ n # NULL
        /\ next' = [next EXCEPT ![n] = NULL]
        /\ Return(t, ret)
        /\ UNCHANGED <<head, val, used, chain>>

\* Mutant: the head is moved before its old value is stored in the new node.
PushFirstHeadFirst(t) ==
  /\ In(t, "push_first")
  /\ \/ \E n \in Node :
          /\ malloc(n)
          /\ val' = [val EXCEPT ![n] = call[t].arg]
          /\ next' = [next EXCEPT ![n] = n]
          /\ head' = n
          /\ NodesNow(<<n>> \o chain)
          /\ Return(t, ret)
     \/ used = Node /\ Stop("nomem")

push_first(t) ==
  /\ In(t, "push_first")
  /\ \/ \E n \in Node :
          /\ malloc(n)
          /\ val' = [val EXCEPT ![n] = call[t].arg]
          /\ next' = [next EXCEPT ![n] = head]
          /\ head' = n
          /\ NodesNow(<<n>> \o chain)
          /\ Return(t, ret)
     \/ used = Node /\ Stop("nomem")

\* Mutant: the node is returned instead of its value.
PopNode(t) ==
  /\ In(t, "pop") /\ head # NULL
  /\ head' = next[head]
  /\ Free(head, next)
  /\ Return(t, head)
  /\ NodesNow(Tail(chain))

\* Mutant: the node is not freed.
PopLeaks(t) ==
  /\ In(t, "pop") /\ head # NULL
  /\ head' = next[head]
  /\ Return(t, val[head])
  /\ NodesNow(Tail(chain))
  /\ UNCHANGED <<next, val, used>>

\* pop, and remove_by_index with 0.
pop(t) ==
  /\ In(t, "pop") \/ (In(t, "remove_by_index") /\ call[t].arg = 0)
  /\ \/ head = NULL /\ Return(t, Missing) /\ UNCHANGED heap
     \/ /\ head # NULL
        /\ head' = next[head]
        /\ Free(head, next)
        /\ Return(t, val[head])
        /\ NodesNow(Tail(chain))

\* remove_last: a list of one node is freed, the caller's pointer to it stays.
remove_last(t) ==
  LET c == cur[t] IN
  /\ In(t, "remove_last")
  /\ \/ c = NULL /\ Stop("null")
     \/ /\ c # NULL /\ c = head /\ next[c] = NULL
        /\ Free(c, next) /\ Return(t, val[c]) /\ NodesNow(<<>>) /\ UNCHANGED head
     \/ /\ c # NULL /\ next[c] # NULL
        /\ \/ next[next[c]] # NULL /\ Advance(t) /\ UNCHANGED i
           \/ /\ next[next[c]] = NULL
              /\ Free(next[c], [next EXCEPT ![c] = NULL])
              /\ Return(t, val[next[c]])
              /\ NodesNow(Without(chain, Len(chain)))
              /\ UNCHANGED head

\* Mutant: one iteration too many.
RemoveByIndexBeyond(t) ==
  LET c == cur[t] IN
  /\ In(t, "remove_by_index") /\ call[t].arg # 0 /\ c # NULL
  /\ \/ /\ i[t] < call[t].arg
        /\ \/ next[c] = NULL /\ Return(t, Missing) /\ UNCHANGED heap
           \/ next[c] # NULL /\ Advance(t) /\ i' = [i EXCEPT ![t] = @ + 1]
     \/ /\ i[t] >= call[t].arg /\ next[c] # NULL
        /\ Free(next[c], [next EXCEPT ![c] = next[next[c]]])
        /\ Return(t, val[next[c]])
        /\ NodesNow(Without(chain, i[t] + 2))
        /\ UNCHANGED head

\* remove_by_index, with an index other than 0.
remove_by_index(t) ==
  LET c == cur[t] IN
  /\ In(t, "remove_by_index") /\ call[t].arg # 0
  /\ \/ c = NULL /\ Stop("null")
     \/ /\ c # NULL /\ i[t] < call[t].arg - 1
        /\ \/ next[c] = NULL /\ Return(t, Missing) /\ UNCHANGED heap
           \/ next[c] # NULL /\ Advance(t) /\ i' = [i EXCEPT ![t] = @ + 1]
     \/ /\ c # NULL /\ i[t] >= call[t].arg - 1
        /\ \/ next[c] = NULL /\ Stop("null")
           \/ /\ next[c] # NULL
              /\ Free(next[c], [next EXCEPT ![c] = next[next[c]]])
              /\ Return(t, val[next[c]])
              /\ NodesNow(Without(chain, i[t] + 2))
              /\ UNCHANGED head

\* A list whose memory has been freed is used.
UseFreed(t) ==
  /\ status = "ok" /\ Dangling
  /\ call[t] # NULL /\ call[t].op # "new_linked_list"
  /\ Stop("freed")

Step(t) ==
  \/ new_linked_list(t) \/ exists_in_list(t)
  \/ PushWalk(t) \/ PushLink(t) \/ PushFill(t) \/ PushEnd(t)
  \/ push_first(t) \/ pop(t) \/ remove_last(t) \/ remove_by_index(t)
  \/ UseFreed(t)

Next == \E t \in Thread : Step(t) \/ \E c \in Call : Invoke(t, c)

Spec == Init /\ [][Next]_vars

-----------------------------------------------------------------------------
(* Properties *)

\* t is past current->next = malloc(..) in push.
Filling(t) == call[t] # NULL /\ call[t].op = "push" /\ pc[t] \in {"fill", "end"}

\* Whatever two calls of push do to each other, the nodes form chains: no node
\* is pointed to by two, the head by none, and every pointer is to memory in
\* use, so that no walk from the head comes back to a node. Fields that were
\* never written are reached only while a push is between linking a node and
\* ending it: the calls that have returned leave a list that ends.
Unshared ==
  /\ \A n \in used : next[n] \in Node => next[n] \in used \ {head}
  /\ \A n, m \in used : next[n] = next[m] /\ next[n] \in Node => n = m
  /\ \A n \in Node : n \in {head} \cup {next[m] : m \in used} /\ n \in used
       /\ Junk \in {next[n], val[n]} => \E t \in Thread : Filling(t) /\ next[cur[t]] = n

\* While no two calls of push overlap, the memory in use is exactly the list
\* and the node being added: nothing is lost, freed twice or left unfilled.
NothingLeaked ==
  ~contended =>
     used = {chain[k] : k \in 1..Len(chain)}
              \cup {next[cur[t]] : t \in {u \in Thread : Filling(u) /\ pc[u] = "fill"}}

SeqList == INSTANCE SequentialList WITH
  list <- [k \in 1..Len(chain) |-> val[chain[k]]],
  gone <- Dangling,
  call <- [t \in Thread |-> IF pc[t] = "end" THEN NULL ELSE call[t]]

\* Every function acts on the list as on a sequence of values, at one moment of
\* its call; a push does so when it writes val. Only overlapping calls of push,
\* a walk into a node not yet written and memory running out are excepted.
ActsAsList == SeqList!Spec
=============================================================================
