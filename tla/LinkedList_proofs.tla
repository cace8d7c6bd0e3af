--------------------------- MODULE LinkedList_proofs ---------------------------
(***************************************************************************)
(* Proofs about LinkedList. Unshared holds of every state, also of those   *)
(* that racing calls of push lead to; what is known of the list itself     *)
(* (Linked, Cursors) holds while calls of push do not overlap, and is what *)
(* the refinement of SequentialList rests on.                              *)
(***************************************************************************)
EXTENDS LinkedList, TLAPS

\* pc and call agree, and only push goes beyond its loop.
Control ==
  /\ \A t \in Thread : call[t] = NULL <=> pc[t] = "idle"
  /\ \A t \in Thread : pc[t] \in {"link", "fill", "end"} => call[t].op = "push"
  /\ \A t, u \in Thread : t # u /\ call[t] # NULL /\ call[u] # NULL =>
        call[t].op \in Shared /\ call[u].op \in Shared

Reached(n) == n \in used /\ (n = head \/ \E m \in used : next[m] = n)

\* Where the threads are.
Places ==
  /\ \A t \in Thread : call[t] = NULL => cur[t] = NULL
  /\ \A t \in Thread : ~Dangling => cur[t] \in used \cup {NULL}
  /\ \A t \in Thread : pc[t] \in {"link", "fill", "end"} =>
        ~Dangling /\ cur[t] \in used /\ next[cur[t]] # Junk
  /\ \A t \in Thread : call[t] # NULL /\ call[t].op \notin Shared /\ ~Dangling /\ cur[t] # NULL =>
        Reached(cur[t])

Pointers ==
  /\ \A n \in used : next[n] \in Node => next[n] \in used /\ next[n] # head
  /\ \A n, m \in used : next[n] = next[m] /\ next[n] \in Node => n = m
  /\ \A n \in Node \ used : next[n] = Junk /\ val[n] = Junk

\* What has not been written is about to be.
Written ==
  /\ \A n \in Node : Reached(n) /\ val[n] = Junk =>
        \E t \in Thread : pc[t] = "fill" /\ next[cur[t]] = n
  /\ \A n \in Node : Reached(n) /\ next[n] = Junk =>
        \E t \in Thread : pc[t] \in {"fill", "end"} /\ next[cur[t]] = n

\* The nodes can be numbered along the pointers.
Acyclic == \E f \in [Node -> Int] : \A n \in used : next[n] \in Node => f[n] < f[next[n]]

Shape == TypeOK /\ Control /\ Places /\ Pointers /\ Written /\ Acyclic

Last == chain[Len(chain)]

\* The list while calls of push do not overlap.
Linked ==
  /\ chain = <<>> <=> head \notin used
  /\ chain # <<>> => head = chain[1]
  /\ \A j \in 1..Len(chain) : chain[j] \in used /\ val[chain[j]] # Junk
  /\ \A j, k \in 1..Len(chain) : chain[j] = chain[k] => j = k
  /\ \A j \in 1..(Len(chain) - 1) : next[chain[j]] = chain[j + 1]
  /\ chain # <<>> /\ (\A t \in Thread : pc[t] \notin {"fill", "end"}) => next[Last] = NULL

\* The one push under way.
Pushing ==
  /\ \A t, u \in Thread : call[t] # NULL /\ call[t].op = "push" /\ call[u] # NULL /\ call[u].op = "push" => t = u
  /\ \A t \in Thread : pc[t] = "link" => chain # <<>> /\ cur[t] = Last
  /\ \A t \in Thread : pc[t] = "fill" =>
       /\ chain # <<>> /\ cur[t] = Last
       /\ next[Last] \in Node /\ \A j \in 1..Len(chain) : chain[j] # next[Last]
       /\ val[next[Last]] = Junk /\ next[next[Last]] = Junk
  /\ \A t \in Thread : pc[t] = "end" =>
       Len(chain) > 1 /\ cur[t] = chain[Len(chain) - 1] /\ next[Last] = Junk
  /\ \A n \in used : (\E j \in 1..Len(chain) : chain[j] = n)
                       \/ \E t \in Thread : pc[t] = "fill" /\ next[cur[t]] = n

Differs(t, j) == call[t].arg = NULL \/ val[chain[j]] # call[t].arg

\* How far the walk of t has come.
Cursor(t) ==
  /\ call[t].op # "new_linked_list" /\ cur[t] = NULL => head = NULL
  /\ call[t].op = "push" /\ cur[t] # NULL => \E k \in 1..Len(chain) : cur[t] = chain[k]
  /\ call[t].op = "exists_in_list" /\ cur[t] # NULL =>
       \/ \E k \in 1..Len(chain) : cur[t] = chain[k] /\ \A j \in 1..(k - 1) : Differs(t, j)
       \/ /\ \E u \in Thread : pc[u] = "fill" /\ next[cur[u]] = cur[t]
          /\ \A j \in 1..Len(chain) : Differs(t, j)
  /\ call[t].op = "remove_last" /\ cur[t] # NULL =>
       \E k \in 1..Len(chain) : cur[t] = chain[k] /\ (k = 1 \/ k < Len(chain))
  /\ call[t].op = "remove_by_index" /\ cur[t] # NULL =>
       /\ i[t] + 1 \in 1..Len(chain) /\ cur[t] = chain[i[t] + 1]
       /\ i[t] = 0 \/ i[t] =< call[t].arg - 1

Cursors ==
  /\ \A t \in Thread : call[t] # NULL /\ call[t].op = "new_linked_list" => head \notin used
  /\ \A t \in Thread : call[t] # NULL /\ ~Dangling => Cursor(t)

Good == Linked /\ Pushing /\ Cursors

IInv == Shape /\ (~contended => Good)

-----------------------------------------------------------------------------
(* Shape *)

LEMMA ShapeInit ==
  ASSUME Init
  PROVE  Shape
<1>1. TypeOK
  <2>1. /\ call \in [Thread -> Call \cup {NULL}]
        /\ ret \in Content \cup {Missing} \cup BOOLEAN
    BY DEF Init, Content
  <2>2. /\ head \in Node \cup {NULL} /\ used \subseteq Node
        /\ next \in [Node -> Node \cup {NULL, Junk}] /\ val \in [Node -> Content \cup {Junk}]
    BY DEF Init
  <2>3. /\ pc \in [Thread -> {"idle", "walk", "link", "fill", "end"}]
        /\ cur \in [Thread -> Node \cup {NULL}] /\ i \in [Thread -> Nat]
    BY DEF Init
  <2>4. chain \in Seq(Node) /\ status \in {"ok", "torn", "null", "freed", "nomem"}
    BY DEF Init
  <2>5. contended \in BOOLEAN
    BY DEF Init
  <2> QED  BY <2>1, <2>2, <2>3, <2>4, <2>5 DEF TypeOK
<1>2. Control /\ Places /\ Pointers /\ Written
  BY DEF Init, Control, Places, Pointers, Written, Reached
<1>3. Acyclic
  <2>1. [n \in Node |-> 0] \in [Node -> Int]
    OBVIOUS
  <2> QED  BY <2>1 DEF Init, Acyclic
<1> QED  BY <1>1, <1>2, <1>3 DEF Shape

LEMMA ShapeStop ==
  ASSUME Shape, NEW why \in {"torn", "null", "freed", "nomem"}, Stop(why)
  PROVE  Shape'
<1>1. TypeOK' /\ Control' /\ Places' /\ Pointers' /\ Written'
  BY DEF Shape, TypeOK, Control, Places, Pointers, Written, Reached, Dangling, Stop, heap, local
<1>2. Acyclic'
  BY DEF Shape, Acyclic, Stop, heap
<1> QED  BY <1>1, <1>2 DEF Shape

LEMMA CallFacts ==
  ASSUME NEW c \in Call
  PROVE  /\ c # NULL /\ c.op \in Shared \cup {"new_linked_list", "push_first", "pop", "remove_last", "remove_by_index"}
         /\ c.op # "remove_by_index" => c.arg \in Content
         /\ c.op = "remove_by_index" => c.arg \in Int
<1>1. c # NULL
  BY ListAssumption
<1>2. \/ c \in [op : Shared \cup {"new_linked_list", "push_first"}, arg : Content]
      \/ c \in [op : {"pop", "remove_last"}, arg : {NULL}]
      \/ c \in [op : {"remove_by_index"}, arg : Index]
  BY DEF Call
<1>3. CASE c \in [op : Shared \cup {"new_linked_list", "push_first"}, arg : Content]
  BY <1>1, <1>3 DEF Shared
<1>4. CASE c \in [op : {"pop", "remove_last"}, arg : {NULL}]
  BY <1>1, <1>4 DEF Shared, Content
<1>5. CASE c \in [op : {"remove_by_index"}, arg : Index]
  BY <1>1, <1>5, ListAssumption
<1> QED  BY <1>2, <1>3, <1>4, <1>5

LEMMA ShapeInvoke ==
  ASSUME Shape, NEW t \in Thread, NEW c \in Call, Invoke(t, c)
  PROVE  Shape'
<1>1. TypeOK'
  BY DEF Shape, TypeOK, Invoke, Content
<1>2. Control'
  BY CallFacts DEF Shape, TypeOK, Control, Invoke
<1>3. Places'
  BY CallFacts DEF Shape, TypeOK, Control, Places, Invoke, Dangling, Reached, Shared
<1>4. Pointers' /\ Acyclic'
  BY DEF Shape, Pointers, Acyclic, Invoke
<1>5. \A u \in Thread : pc[u] \in {"fill", "end"} => pc'[u] = pc[u] /\ cur'[u] = cur[u]
  BY DEF Shape, TypeOK, Control, Invoke
<1>6. Written'
  BY <1>5 DEF Shape, Written, Reached, Invoke
<1> QED  BY <1>1, <1>2, <1>3, <1>4, <1>6 DEF Shape

LEMMA ShapeAdvance ==
  ASSUME Shape, NEW t \in Thread, Advance(t), i' \in [Thread -> Nat],
         call[t] # NULL, pc[t] = "walk", ~Dangling, cur[t] \in used, next[cur[t]] \in Node
  PROVE  Shape'
<1>1. TypeOK'
  BY DEF Shape, TypeOK, Advance, heap
<1>2. Control' /\ Pointers' /\ Acyclic'
  BY DEF Shape, Control, Pointers, Acyclic, Advance, heap
<1>3. Places'
  BY DEF Shape, TypeOK, Control, Places, Pointers, Reached, Advance, Dangling, heap
<1>4. \A u \in Thread : pc[u] \in {"fill", "end"} => pc'[u] = pc[u] /\ cur'[u] = cur[u]
  BY DEF Shape, TypeOK, Control, Advance
<1>5. Written'
  BY <1>4 DEF Shape, Written, Reached, Advance, heap
<1> QED  BY <1>1, <1>2, <1>3, <1>5 DEF Shape

LEMMA ReturnLocal ==
  ASSUME Shape, NEW t \in Thread, NEW r \in Content \cup {Missing} \cup BOOLEAN, Return(t, r),
         head' \in Node \cup {NULL}, next' \in [Node -> Node \cup {NULL, Junk}],
         val' \in [Node -> Content \cup {Junk}], used' \subseteq Node, chain' \in Seq(Node)
  PROVE  TypeOK' /\ Control'
<1>1. TypeOK'
  BY DEF Shape, TypeOK, Return
<1>2. Control'
  BY DEF Shape, TypeOK, Control, Return
<1> QED  BY <1>1, <1>2

LEMMA ShapeReturn ==
  ASSUME Shape, NEW t \in Thread, NEW r \in Content \cup {Missing} \cup BOOLEAN, Return(t, r),
         pc[t] = "walk", UNCHANGED heap
  PROVE  Shape'
<1>1. TypeOK' /\ Control'
  BY ReturnLocal DEF Shape, TypeOK, heap
<1>2. Places'
  BY DEF Shape, TypeOK, Control, Places, Reached, Return, Dangling, heap
<1>3. Pointers' /\ Acyclic'
  BY DEF Shape, Pointers, Acyclic, heap
<1>4. \A u \in Thread : pc[u] \in {"fill", "end"} => pc'[u] = pc[u] /\ cur'[u] = cur[u]
  BY DEF Shape, TypeOK, Control, Return
<1>5. Written'
  BY <1>4 DEF Shape, Written, Reached, heap
<1> QED  BY <1>1, <1>2, <1>3, <1>5 DEF Shape

\* A function that runs alone.
LEMMA AloneFacts ==
  ASSUME Shape, NEW t \in Thread, call[t] # NULL, call[t].op \notin Shared
  PROVE  /\ pc[t] = "walk"
         /\ \A u \in Thread : u # t => call[u] = NULL /\ pc[u] = "idle" /\ cur[u] = NULL
         /\ \A n \in Node : Reached(n) => val[n] # Junk /\ next[n] # Junk
<1>1. pc[t] = "walk"
  BY DEF Shape, TypeOK, Control, Shared
<1>2. \A u \in Thread : u # t => call[u] = NULL /\ pc[u] = "idle" /\ cur[u] = NULL
  BY DEF Shape, Control, Places
<1>3. \A n \in Node : Reached(n) => val[n] # Junk /\ next[n] # Junk
  BY <1>1, <1>2 DEF Shape, Written
<1> QED  BY <1>1, <1>2, <1>3

LEMMA ShapeAlone ==
  ASSUME Shape, NEW t \in Thread, NEW r \in Content \cup {Missing} \cup BOOLEAN, Return(t, r),
         call[t] # NULL, call[t].op \notin Shared,
         head' \in Node \cup {NULL}, next' \in [Node -> Node \cup {NULL, Junk}],
         val' \in [Node -> Content \cup {Junk}], used' \subseteq Node, chain' \in Seq(Node),
         Pointers', Acyclic', \A n \in Node : Reached(n)' => val'[n] # Junk /\ next'[n] # Junk
  PROVE  Shape'
<1>1. TypeOK' /\ Control'
  BY ReturnLocal
<1>2. \A u \in Thread : call'[u] = NULL /\ pc'[u] = "idle" /\ cur'[u] = NULL
  BY AloneFacts DEF Shape, TypeOK, Return
<1>3. Places'
  BY <1>2 DEF Places
<1>4. Written'
  BY DEF Written
<1> QED  BY <1>1, <1>3, <1>4 DEF Shape

LEMMA ArgContent ==
  ASSUME Shape, NEW t \in Thread, NEW op, In(t, op)
  PROVE  /\ call[t] \in Call /\ call[t].op = op
         /\ op # "remove_by_index" => call[t].arg \in Content
         /\ op = "remove_by_index" => call[t].arg \in Int
<1>1. call[t] \in Call /\ call[t].op = op
  BY DEF Shape, TypeOK, In
<1> QED  BY <1>1, CallFacts

LEMMA RetType ==
  ASSUME Shape
  PROVE  /\ ret \in Content \cup {Missing} \cup BOOLEAN
         /\ \A n \in Node : val[n] # Junk => val[n] \in Content \cup {Missing} \cup BOOLEAN
BY DEF Shape, TypeOK

LEMMA ShapeNew ==
  ASSUME Shape, NEW t \in Thread, new_linked_list(t), chain' \in Seq(Node)
  PROVE  Shape'
<1> DEFINE op == "new_linked_list"
<1>1. In(t, op) /\ Return(t, ret) /\ call[t] # NULL /\ call[t].op \notin Shared /\ call[t].arg \in Content
  BY ArgContent DEF new_linked_list, In, Shared
<1>2. CASE \E n \in Node :
          /\ malloc(n) /\ head' = n
          /\ val' = [val EXCEPT ![n] = call[t].arg]
          /\ next' = [next EXCEPT ![n] = NULL]
  <2> PICK n \in Node :
          /\ malloc(n) /\ head' = n
          /\ val' = [val EXCEPT ![n] = call[t].arg]
          /\ next' = [next EXCEPT ![n] = NULL]
    BY <1>2
  <2>1. /\ head' \in Node \cup {NULL} /\ next' \in [Node -> Node \cup {NULL, Junk}]
        /\ val' \in [Node -> Content \cup {Junk}] /\ used' \subseteq Node
    BY <1>1 DEF Shape, TypeOK, malloc
  <2>2. /\ n \notin used /\ used' = used \cup {n}
        /\ next'[n] = NULL /\ val'[n] # Junk
        /\ \A m \in used : next'[m] = next[m] /\ val'[m] = val[m]
    BY <1>1, ListAssumption DEF Shape, TypeOK, malloc, Content
  <2>3. Pointers'
    BY <2>2, ListAssumption DEF Shape, TypeOK, Pointers
  <2>4. \A m \in Node : Reached(m)' => m = n \/ Reached(m)
    BY <2>2, ListAssumption DEF Shape, TypeOK, Pointers, Reached
  <2>5. \A m \in Node : Reached(m)' => val'[m] # Junk /\ next'[m] # Junk
    BY <1>1, <2>2, <2>4, ListAssumption, AloneFacts DEF Reached, Content
  <2>6. Acyclic'
    BY <2>2, ListAssumption DEF Shape, TypeOK, Acyclic
  <2> QED  BY <1>1, <2>1, <2>3, <2>5, <2>6, RetType, ShapeAlone
<1>3. CASE used = Node /\ head' = NULL /\ UNCHANGED <<next, val, used>>
  <2>1. Pointers'
    BY <1>3, ListAssumption DEF Shape, TypeOK, Pointers
  <2>4. Acyclic'
    BY <1>3 DEF Shape, Acyclic
  <2>2. \A m \in Node : Reached(m)' => val'[m] # Junk /\ next'[m] # Junk
    BY <1>1, <1>3, ListAssumption, AloneFacts DEF Reached
  <2>3. /\ head' \in Node \cup {NULL} /\ next' \in [Node -> Node \cup {NULL, Junk}]
        /\ val' \in [Node -> Content \cup {Junk}] /\ used' \subseteq Node
    BY <1>3 DEF Shape, TypeOK
  <2> QED  BY <1>1, <2>1, <2>2, <2>3, <2>4, RetType, ShapeAlone
<1> QED  BY <1>2, <1>3 DEF new_linked_list

LEMMA ShapeExists ==
  ASSUME Shape, NEW t \in Thread, exists_in_list(t)
  PROVE  Shape'
<1>1. /\ call[t] # NULL /\ pc[t] = "walk" /\ ~Dangling
      /\ cur[t] \in used \cup {NULL}
  BY DEF Shape, TypeOK, Control, Places, exists_in_list, In
<1>2. CASE \E r \in BOOLEAN : Return(t, r) /\ UNCHANGED heap
  BY <1>1, <1>2, ShapeReturn
<1>3. CASE Stop("torn")
  BY <1>3, ShapeStop
<1>4. CASE cur[t] # NULL /\ next[cur[t]] \in Node /\ Advance(t) /\ UNCHANGED i
  BY <1>1, <1>4, ShapeAdvance DEF Shape, TypeOK
<1> QED  BY <1>2, <1>3, <1>4 DEF exists_in_list

LEMMA ShapePushWalk ==
  ASSUME Shape, NEW t \in Thread, PushWalk(t)
  PROVE  Shape'
<1>1. /\ call[t] # NULL /\ pc[t] = "walk" /\ ~Dangling /\ call[t].op = "push"
      /\ cur[t] \in used \cup {NULL}
  BY DEF Shape, Places, PushWalk, In
<1>2. CASE cur[t] = NULL /\ Stop("null")
  BY <1>2, ShapeStop
<1>3. CASE next[cur[t]] = Junk /\ Stop("torn")
  BY <1>3, ShapeStop
<1>4. CASE cur[t] # NULL /\ next[cur[t]] \in Node /\ Advance(t) /\ UNCHANGED i
  BY <1>1, <1>4, ShapeAdvance DEF Shape, TypeOK
<1>5. CASE cur[t] # NULL /\ next[cur[t]] = NULL /\ Goto(t, "link") /\ UNCHANGED heap
  <2>1. TypeOK'
    BY <1>5 DEF Shape, TypeOK, Goto, heap
  <2>2. Control'
    BY <1>1, <1>5 DEF Shape, TypeOK, Control, Goto
  <2>3. Places'
    BY <1>1, <1>5, ListAssumption DEF Shape, TypeOK, Places, Reached, Dangling, Goto, heap, Content
  <2>4. \A u \in Thread : pc[u] \in {"fill", "end"} => pc'[u] = pc[u] /\ cur'[u] = cur[u]
    BY <1>1, <1>5 DEF Shape, TypeOK, Goto
  <2>5. Pointers' /\ Written' /\ Acyclic'
    BY <2>4, <1>5 DEF Shape, Pointers, Written, Reached, Acyclic, heap
  <2> QED  BY <2>1, <2>2, <2>3, <2>5 DEF Shape
<1> QED  BY <1>2, <1>3, <1>4, <1>5 DEF PushWalk

LEMMA ShapePushLink ==
  ASSUME Shape, NEW t \in Thread, PushLink(t)
  PROVE  Shape'
<1>1. /\ call[t] # NULL /\ pc[t] = "link" /\ ~Dangling /\ call[t].op = "push"
      /\ cur[t] \in used /\ cur[t] \in Node
  BY DEF Shape, TypeOK, Places, PushLink, In
<1>2. CASE Stop("nomem")
  BY <1>2, ShapeStop
<1>3. CASE \E n \in Node : /\ malloc(n) /\ next' = [next EXCEPT ![cur[t]] = n]
                           /\ Goto(t, "fill") /\ UNCHANGED <<head, val, chain>>
  <2> PICK n \in Node : /\ malloc(n) /\ next' = [next EXCEPT ![cur[t]] = n]
                        /\ Goto(t, "fill") /\ UNCHANGED <<head, val, chain>>
    BY <1>3
  <2>1. TypeOK'
    BY <1>1 DEF Shape, TypeOK, Goto, malloc
  <2>2. Control'
    BY <1>1 DEF Shape, TypeOK, Control, Goto
  <2>3. /\ n \notin used /\ used' = used \cup {n} /\ head' = head
        /\ next'[cur[t]] = n /\ next'[n] = Junk /\ val' = val
        /\ \A m \in Node : m # cur[t] => next'[m] = next[m]
        /\ cur[t] # n /\ head # n
        /\ pc'[t] = "fill" /\ \A u \in Thread : u # t => pc'[u] = pc[u]
        /\ UNCHANGED <<cur, call>>
    BY <1>1, ListAssumption DEF Shape, TypeOK, Pointers, malloc, Goto, Dangling
  <2>4. Places'
    <3>1. ~Dangling'
      BY <1>1, <2>3 DEF Dangling
    <3>2. \A u \in Thread : call[u] # NULL => call[u].op \in Shared
      BY <1>1 DEF Shape, Control, Shared
    <3>3. \A u \in Thread : cur[u] \in used /\ next[cur[u]] # Junk => next'[cur[u]] # Junk
      BY <2>3, ListAssumption DEF Shape, TypeOK
    <3> QED  BY <1>1, <2>3, <3>1, <3>2, <3>3 DEF Shape, TypeOK, Places
  <2>5. Pointers'
    <3>1. \A m \in used' : next'[m] \in Node => next'[m] \in used' /\ next'[m] # head'
      BY <2>3, ListAssumption DEF Shape, TypeOK, Pointers
    <3>2. \A m, k \in used' : next'[m] = next'[k] /\ next'[m] \in Node => m = k
      BY <2>3, ListAssumption DEF Shape, TypeOK, Pointers
    <3>3. \A m \in Node \ used' : next'[m] = Junk /\ val'[m] = Junk
      BY <1>1, <2>3 DEF Shape, Pointers
    <3> QED  BY <3>1, <3>2, <3>3 DEF Pointers
  <2>6. \A m \in Node : m # n /\ Reached(m)' =>
          Reached(m) /\ \A u \in Thread : cur[u] \in used /\ next[cur[u]] = m => cur[u] # cur[t]
    BY <1>1, <2>3, ListAssumption DEF Shape, TypeOK, Pointers, Reached
  <2>7. ASSUME NEW m \in Node, NEW u \in Thread, m # n, Reached(m)',
               pc[u] \in {"fill", "end"}, next[cur[u]] = m
        PROVE  pc'[u] = pc[u] /\ next'[cur'[u]] = m
    BY <1>1, <2>3, <2>6, <2>7 DEF Shape, TypeOK, Places
  <2>8. Written'
    <3>1. ASSUME NEW m \in Node, Reached(m)', val'[m] = Junk
          PROVE  \E u \in Thread : pc'[u] = "fill" /\ next'[cur'[u]] = m
      BY <2>3, <2>6, <2>7, <3>1 DEF Shape, Written
    <3>2. ASSUME NEW m \in Node, Reached(m)', next'[m] = Junk
          PROVE  \E u \in Thread : pc'[u] \in {"fill", "end"} /\ next'[cur'[u]] = m
      <4>1. CASE m = n
        BY <4>1, <2>3
      <4>2. CASE m # n
        <5>1. Reached(m) /\ next[m] = Junk
          BY <2>3, <2>6, <3>2, <4>2, ListAssumption DEF TypeOK
        <5> QED  BY <5>1, <2>7, <3>2, <4>2 DEF Shape, Written
      <4> QED  BY <4>1, <4>2
    <3> QED  BY <3>1, <3>2 DEF Written
  <2>9. Acyclic'
    <3>1. PICK f \in [Node -> Int] : \A m \in used : next[m] \in Node => f[m] < f[next[m]]
      BY DEF Shape, Acyclic
    <3> DEFINE g == [f EXCEPT ![n] = f[cur[t]] + 1]
    <3>2. /\ g \in [Node -> Int] /\ g[n] = f[cur[t]] + 1
          /\ \A m \in Node : m # n => g[m] = f[m]
      BY <1>1
    <3>3. \A m \in used' : next'[m] \in Node => g[m] < g[next'[m]]
      <4> SUFFICES ASSUME NEW m \in used', next'[m] \in Node PROVE g[m] < g[next'[m]]
        OBVIOUS
      <4>1. CASE m = cur[t]
        BY <1>1, <2>3, <3>2, <4>1
      <4>2. CASE m # cur[t]
        <5>1. m \in used /\ m # n /\ next'[m] = next[m] /\ next[m] \in used /\ next[m] # n
          BY <2>3, <4>2, ListAssumption DEF Shape, TypeOK, Pointers
        <5> QED  BY <3>1, <3>2, <5>1 DEF Shape, TypeOK
      <4> QED  BY <4>1, <4>2
    <3> HIDE DEF g
    <3> QED  BY <3>2, <3>3 DEF Acyclic
  <2> QED  BY <2>1, <2>2, <2>4, <2>5, <2>8, <2>9 DEF Shape
<1> QED  BY <1>2, <1>3 DEF PushLink

LEMMA ShapePushFill ==
  ASSUME Shape, NEW t \in Thread, PushFill(t), chain' \in Seq(Node)
  PROVE  Shape'
<1> DEFINE n == next[cur[t]]
<1>1. /\ call[t] # NULL /\ pc[t] = "fill" /\ ~Dangling /\ call[t].op = "push"
      /\ cur[t] \in used /\ cur[t] \in Node /\ n # Junk /\ n \in Node \cup {NULL}
      /\ call[t].arg \in Content
  BY ArgContent DEF Shape, TypeOK, Places, PushFill, In
<1>2. CASE Stop("null")
  BY <1>2, ShapeStop
<1>3. CASE /\ n # NULL /\ val' = [val EXCEPT ![n] = call[t].arg]
           /\ Goto(t, "end") /\ UNCHANGED <<head, next, used>>
  <2>1. TypeOK'
    BY <1>1, <1>3 DEF Shape, TypeOK, Goto
  <2>2. Control'
    BY <1>1, <1>3 DEF Shape, TypeOK, Control, Goto
  <2>3. /\ n \in used /\ val'[n] # Junk /\ \A m \in Node : m # n => val'[m] = val[m]
        /\ pc'[t] = "end" /\ \A u \in Thread : u # t => pc'[u] = pc[u]
        /\ UNCHANGED <<cur, call, head, next, used>>
    BY <1>1, <1>3, ListAssumption DEF Shape, TypeOK, Pointers, Goto
  <2>4. Places'
    BY <1>1, <2>3 DEF Shape, TypeOK, Places, Reached, Dangling
  <2>5. Pointers' /\ Acyclic'
    BY <2>3 DEF Shape, TypeOK, Pointers, Acyclic
  <2>6. \A m \in Node : Reached(m)' <=> Reached(m)
    BY <2>3 DEF Reached
  <2>7. ASSUME NEW m \in Node, Reached(m)', val'[m] = Junk
        PROVE  \E u \in Thread : pc'[u] = "fill" /\ next'[cur'[u]] = m
    <3>1. PICK u \in Thread : pc[u] = "fill" /\ next[cur[u]] = m
      BY <2>3, <2>6, <2>7 DEF Shape, Written
    <3> QED  BY <2>3, <2>7, <3>1
  <2>8. ASSUME NEW m \in Node, Reached(m)', next'[m] = Junk
        PROVE  \E u \in Thread : pc'[u] \in {"fill", "end"} /\ next'[cur'[u]] = m
    <3>1. PICK u \in Thread : pc[u] \in {"fill", "end"} /\ next[cur[u]] = m
      BY <2>3, <2>6, <2>8 DEF Shape, Written
    <3> QED  BY <2>3, <3>1
  <2>9. Written'
    BY <2>7, <2>8 DEF Written
  <2> QED  BY <2>1, <2>2, <2>4, <2>5, <2>9 DEF Shape
<1> QED  BY <1>2, <1>3 DEF PushFill

LEMMA ShapePushEnd ==
  ASSUME Shape, NEW t \in Thread, PushEnd(t)
  PROVE  Shape'
<1> DEFINE n == next[cur[t]]
<1>1. /\ call[t] # NULL /\ pc[t] = "end" /\ ~Dangling /\ call[t].op = "push"
      /\ cur[t] \in used /\ cur[t] \in Node /\ n # Junk /\ n \in Node \cup {NULL}
  BY DEF Shape, TypeOK, Places, PushEnd, In
<1>2. CASE Stop("null")
  BY <1>2, ShapeStop
<1>3. CASE /\ n # NULL /\ next' = [next EXCEPT ![n] = NULL]
           /\ Return(t, ret) /\ UNCHANGED <<head, val, used, chain>>
  <2>1. TypeOK' /\ Control'
    <3>1. next' \in [Node -> Node \cup {NULL, Junk}]
      BY <1>1, <1>3 DEF Shape, TypeOK
    <3> QED  BY <3>1, <1>3, RetType, ReturnLocal DEF Shape, TypeOK
  <2>2. /\ n \in used /\ next'[n] = NULL /\ \A m \in Node : m # n => next'[m] = next[m]
        /\ pc'[t] = "idle" /\ cur'[t] = NULL /\ call'[t] = NULL
        /\ \A u \in Thread : u # t => pc'[u] = pc[u] /\ cur'[u] = cur[u] /\ call'[u] = call[u]
        /\ UNCHANGED <<head, val, used>>
    BY <1>1, <1>3 DEF Shape, TypeOK, Pointers, Return
  <2>3. NULL \notin Node /\ NULL # Junk
    BY ListAssumption DEF Content
  <2>4. Places'
    <3>1. \A u \in Thread : call[u] # NULL => call[u].op \in Shared
      BY <1>1 DEF Shape, Control, Shared
    <3>2. \A u \in Thread : cur[u] \in used /\ next[cur[u]] # Junk => next'[cur[u]] # Junk
      BY <2>2, <2>3 DEF Shape, TypeOK
    <3>3. Dangling' <=> Dangling
      BY <2>2 DEF Dangling
    <3> QED  BY <1>1, <2>2, <3>1, <3>2, <3>3 DEF Shape, TypeOK, Places
  <2>5. Pointers'
    BY <2>2, <2>3 DEF Shape, TypeOK, Pointers
  <2>6. \A m \in Node : Reached(m)' =>
          /\ Reached(m)
          /\ \A u \in Thread : cur[u] \in used /\ next[cur[u]] = m => cur[u] # n
    BY <2>2, <2>3 DEF Shape, TypeOK, Pointers, Reached
  <2>7. ASSUME NEW m \in Node, Reached(m)', val'[m] = Junk
        PROVE  \E u \in Thread : pc'[u] = "fill" /\ next'[cur'[u]] = m
    <3>1. PICK u \in Thread : pc[u] = "fill" /\ next[cur[u]] = m
      BY <2>2, <2>6, <2>7 DEF Shape, Written
    <3>2. u # t /\ cur[u] \in used /\ cur[u] \in Node /\ cur[u] # n
      BY <1>1, <2>6, <2>7, <3>1 DEF Shape, TypeOK, Places
    <3> QED  BY <2>2, <3>1, <3>2
  <2>8. ASSUME NEW m \in Node, Reached(m)', next'[m] = Junk
        PROVE  \E u \in Thread : pc'[u] \in {"fill", "end"} /\ next'[cur'[u]] = m
    <3>1. m # n /\ Reached(m) /\ next[m] = Junk
      BY <2>2, <2>3, <2>6, <2>8
    <3>2. PICK u \in Thread : pc[u] \in {"fill", "end"} /\ next[cur[u]] = m
      BY <3>1 DEF Shape, Written
    <3>3. u # t /\ cur[u] \in used /\ cur[u] \in Node /\ cur[u] # n
      BY <2>6, <2>8, <3>1, <3>2 DEF Shape, TypeOK, Places
    <3> QED  BY <2>2, <3>2, <3>3
  <2>9. Written'
    BY <2>7, <2>8 DEF Written
  <2>10. \A m \in used' : next'[m] \in Node => m \in used /\ next'[m] = next[m]
    BY <2>2, <2>3 DEF Shape, TypeOK
  <2>11. Acyclic'
    BY <2>10 DEF Shape, Acyclic
  <2> QED  BY <2>1, <2>4, <2>5, <2>9, <2>11 DEF Shape
<1> QED  BY <1>2, <1>3 DEF PushEnd

LEMMA ShapePushFirst ==
  ASSUME Shape, NEW t \in Thread, push_first(t), chain' \in Seq(Node)
  PROVE  Shape'
<1>1. /\ call[t] # NULL /\ call[t].op \notin Shared /\ call[t].arg \in Content /\ ~Dangling
  BY ArgContent DEF push_first, In, Shared
<1>2. CASE Stop("nomem")
  BY <1>2, ShapeStop
<1>3. CASE \E n \in Node :
          /\ malloc(n) /\ val' = [val EXCEPT ![n] = call[t].arg]
          /\ next' = [next EXCEPT ![n] = head] /\ head' = n /\ Return(t, ret)
  <2> PICK n \in Node :
          /\ malloc(n) /\ val' = [val EXCEPT ![n] = call[t].arg]
          /\ next' = [next EXCEPT ![n] = head] /\ head' = n /\ Return(t, ret)
    BY <1>3
  <2>1. /\ head' \in Node \cup {NULL} /\ next' \in [Node -> Node \cup {NULL, Junk}]
        /\ val' \in [Node -> Content \cup {Junk}] /\ used' \subseteq Node
    BY <1>1 DEF Shape, TypeOK, malloc
  <2>2. /\ n \notin used /\ used' = used \cup {n} /\ n # head
        /\ next'[n] = head /\ val'[n] # Junk /\ head # Junk
        /\ \A m \in Node : m # n => next'[m] = next[m] /\ val'[m] = val[m]
    BY <1>1, ListAssumption DEF Shape, TypeOK, malloc, Content, Dangling
  <2>3. Pointers'
    <3>1. \A m \in used' : next'[m] \in Node => next'[m] \in used' /\ next'[m] # head'
      BY <1>1, <2>2, ListAssumption DEF Shape, TypeOK, Pointers, Dangling
    <3>2. \A m, k \in used' : next'[m] = next'[k] /\ next'[m] \in Node => m = k
      BY <2>2, ListAssumption DEF Shape, TypeOK, Pointers
    <3>3. \A m \in Node \ used' : next'[m] = Junk /\ val'[m] = Junk
      BY <2>2 DEF Shape, Pointers
    <3> QED  BY <3>1, <3>2, <3>3 DEF Pointers
  <2>4. \A m \in Node : Reached(m)' => m = n \/ Reached(m)
    BY <2>2, ListAssumption DEF Shape, TypeOK, Pointers, Reached
  <2>5. \A m \in Node : Reached(m)' => val'[m] # Junk /\ next'[m] # Junk
    BY <1>1, <2>2, <2>4, AloneFacts
  <2>6. Acyclic'
    <3>1. PICK f \in [Node -> Int] : \A m \in used : next[m] \in Node => f[m] < f[next[m]]
      BY DEF Shape, Acyclic
    <3>0. PICK z \in Int : head \in Node => z < f[head]
      <4>1. CASE head \in Node
        <5>1. f[head] - 1 \in Int /\ f[head] - 1 < f[head]
          BY <4>1
        <5> QED  BY <5>1
      <4> QED  BY <4>1
    <3> DEFINE g == [f EXCEPT ![n] = z]
    <3>2. /\ g \in [Node -> Int] /\ g[n] = z
          /\ \A m \in Node : m # n => g[m] = f[m]
      OBVIOUS
    <3>3. \A m \in used' : next'[m] \in Node => g[m] < g[next'[m]]
      <4> SUFFICES ASSUME NEW m \in used', next'[m] \in Node PROVE g[m] < g[next'[m]]
        OBVIOUS
      <4>1. CASE m = n
        BY <2>2, <3>0, <3>2, <4>1
      <4>2. CASE m # n
        <5>1. m \in used /\ next'[m] = next[m] /\ next[m] \in used /\ next[m] # n
          BY <2>2, <4>2 DEF Shape, TypeOK, Pointers
        <5> QED  BY <3>1, <3>2, <4>2, <5>1 DEF Shape, TypeOK
      <4> QED  BY <4>1, <4>2
    <3> HIDE DEF g
    <3> QED  BY <3>2, <3>3 DEF Acyclic
  <2> QED  BY <1>1, <2>1, <2>3, <2>5, <2>6, RetType, ShapeAlone
<1> QED  BY <1>2, <1>3 DEF push_first

LEMMA ShapePop ==
  ASSUME Shape, NEW t \in Thread, pop(t), chain' \in Seq(Node)
  PROVE  Shape'
<1>1. /\ call[t] # NULL /\ call[t].op \notin Shared /\ ~Dangling
  BY DEF pop, In, Shared
<1>2. CASE Return(t, Missing) /\ UNCHANGED heap
  BY <1>1, <1>2, AloneFacts, ShapeReturn
<1>3. CASE /\ head # NULL /\ head' = next[head] /\ Free(head, next) /\ Return(t, val[head])
  <2>1. /\ head \in used /\ head \in Node /\ Reached(head) /\ next[head] # Junk /\ val[head] # Junk
    BY <1>1, <1>3, AloneFacts DEF Shape, TypeOK, Dangling, Reached
  <2>2. /\ head' \in Node \cup {NULL} /\ next' \in [Node -> Node \cup {NULL, Junk}]
        /\ val' \in [Node -> Content \cup {Junk}] /\ used' \subseteq Node
    BY <1>3, <2>1 DEF Shape, TypeOK, Free
  <2>3. /\ used' = used \ {head} /\ next'[head] = Junk /\ val'[head] = Junk /\ head' = next[head]
        /\ \A m \in Node : m # head => next'[m] = next[m] /\ val'[m] = val[m]
    BY <1>3, <2>1 DEF Shape, TypeOK, Free
  <2>4. Pointers'
    <3>1. \A m \in used' : next'[m] \in Node => next'[m] \in used' /\ next'[m] # head'
      BY <2>1, <2>3 DEF Shape, TypeOK, Pointers
    <3>2. \A m, k \in used' : next'[m] = next'[k] /\ next'[m] \in Node => m = k
      BY <2>3 DEF Shape, TypeOK, Pointers
    <3>3. \A m \in Node \ used' : next'[m] = Junk /\ val'[m] = Junk
      BY <2>3 DEF Shape, Pointers
    <3> QED  BY <3>1, <3>2, <3>3 DEF Pointers
  <2>5. Acyclic'
    BY <2>3, ListAssumption DEF Shape, TypeOK, Acyclic
  <2>6. \A m \in Node : Reached(m)' => Reached(m) /\ m # head
    BY <2>1, <2>3, ListAssumption DEF Shape, TypeOK, Reached
  <2>7. \A m \in Node : Reached(m)' => val'[m] # Junk /\ next'[m] # Junk
    BY <1>1, <2>3, <2>6, AloneFacts
  <2> QED  BY <1>1, <1>3, <2>1, <2>2, <2>4, <2>5, <2>7, RetType, ShapeAlone
<1> QED  BY <1>2, <1>3 DEF pop

\* The node behind c is taken out and freed.
LEMMA ShapeUnlink ==
  ASSUME Shape, NEW t \in Thread, call[t] # NULL, call[t].op \notin Shared, ~Dangling,
         NEW c \in Node, Reached(c), next[c] # NULL,
         Free(next[c], [next EXCEPT ![c] = next[next[c]]]), Return(t, val[next[c]]),
         head' = head, chain' \in Seq(Node)
  PROVE  Shape'
<1> DEFINE n == next[c]
<1>1. /\ n \in Node /\ n \in used /\ c \in used /\ n # head /\ Reached(n)
      /\ next[n] # Junk /\ val[n] # Junk
  BY AloneFacts DEF Shape, TypeOK, Pointers, Reached
<1>2. n # c
  BY <1>1 DEF Shape, TypeOK, Acyclic
<1>3. /\ next' \in [Node -> Node \cup {NULL, Junk}]
      /\ val' \in [Node -> Content \cup {Junk}] /\ used' \subseteq Node
  BY <1>1 DEF Shape, TypeOK, Free
<1>4. /\ used' = used \ {n} /\ next'[n] = Junk /\ val'[n] = Junk /\ next'[c] = next[n]
      /\ \A m \in Node : m # n /\ m # c => next'[m] = next[m]
      /\ \A m \in Node : m # n => val'[m] = val[m]
  BY <1>1, <1>2 DEF Shape, TypeOK, Free
<1>5. Pointers'
  <2>1. next[n] # n
    BY <1>1 DEF Shape, TypeOK, Acyclic
  <2>2. \A m \in used' : next'[m] \in Node => next'[m] \in used' /\ next'[m] # head'
    BY <1>1, <1>2, <1>4, <2>1 DEF Shape, TypeOK, Pointers
  <2>3. \A m, k \in used' : next'[m] = next'[k] /\ next'[m] \in Node => m = k
    BY <1>1, <1>2, <1>4, <2>1 DEF Shape, TypeOK, Pointers
  <2>4. \A m \in Node \ used' : next'[m] = Junk /\ val'[m] = Junk
    BY <1>1, <1>4 DEF Shape, Pointers
  <2> QED  BY <2>2, <2>3, <2>4 DEF Pointers
<1>6. Acyclic'
  <2>1. PICK f \in [Node -> Int] : \A m \in used : next[m] \in Node => f[m] < f[next[m]]
    BY DEF Shape, Acyclic
  <2>2. ASSUME NEW m \in used', next'[m] \in Node PROVE f[m] < f[next'[m]]
    <3>1. CASE m = c
      <4>1. next[n] \in Node /\ f[c] < f[n] /\ f[n] < f[next[n]]
        BY <1>1, <1>4, <2>1, <2>2, <3>1
      <4> QED  BY <1>1, <1>4, <3>1, <4>1
    <3>2. CASE m # c
      BY <1>1, <1>4, <2>1, <2>2, <3>2 DEF Shape, TypeOK
    <3> QED  BY <3>1, <3>2
  <2> QED  BY <2>2 DEF Acyclic
<1>7. \A m \in Node : Reached(m)' => Reached(m) /\ m # n
  BY <1>1, <1>2, <1>4 DEF Shape, TypeOK, Reached
<1>8. \A m \in Node : Reached(m)' => val'[m] # Junk /\ next'[m] # Junk
  BY <1>1, <1>4, <1>7, AloneFacts
<1>9. val[n] \in Content \cup {Missing} \cup BOOLEAN
  BY <1>1, RetType
<1> QED  BY <1>3, <1>5, <1>6, <1>8, <1>9, ShapeAlone DEF Shape, TypeOK

LEMMA ShapeRemoveLast ==
  ASSUME Shape, NEW t \in Thread, remove_last(t), chain' \in Seq(Node)
  PROVE  Shape'
<1> DEFINE c == cur[t]
<1>1. /\ call[t] # NULL /\ call[t].op \notin Shared /\ ~Dangling /\ pc[t] = "walk"
      /\ c # NULL => c \in used /\ c \in Node /\ Reached(c) /\ next[c] # Junk /\ val[c] # Junk
  <2>1. call[t] # NULL /\ call[t].op \notin Shared /\ ~Dangling
    BY DEF remove_last, In, Shared
  <2> QED  BY <2>1, AloneFacts DEF Shape, TypeOK, Places
<1>2. CASE Stop("null")
  BY <1>2, ShapeStop
<1>3. CASE c # NULL /\ c = head /\ next[c] = NULL /\ Free(c, next) /\ Return(t, val[c]) /\ UNCHANGED head
  <2>1. /\ head' \in Node \cup {NULL} /\ next' \in [Node -> Node \cup {NULL, Junk}]
        /\ val' \in [Node -> Content \cup {Junk}] /\ used' \subseteq Node
    BY <1>1, <1>3 DEF Shape, TypeOK, Free
  <2>2. /\ used' = used \ {c} /\ next'[c] = Junk /\ val'[c] = Junk /\ head' = head
        /\ \A m \in Node : m # c => next'[m] = next[m] /\ val'[m] = val[m]
    BY <1>1, <1>3 DEF Shape, TypeOK, Free
  <2>3. Pointers'
    <3>1. \A m \in used' : next'[m] \in Node => next'[m] \in used' /\ next'[m] # head'
      BY <1>3, <2>2 DEF Shape, TypeOK, Pointers
    <3>2. \A m, k \in used' : next'[m] = next'[k] /\ next'[m] \in Node => m = k
      BY <2>2 DEF Shape, TypeOK, Pointers
    <3>3. \A m \in Node \ used' : next'[m] = Junk /\ val'[m] = Junk
      BY <2>2 DEF Shape, Pointers
    <3> QED  BY <3>1, <3>2, <3>3 DEF Pointers
  <2>4. \A m \in used' : m \in used /\ next'[m] = next[m]
    BY <2>2 DEF Shape, TypeOK
  <2>5. Acyclic'
    BY <2>4 DEF Shape, Acyclic
  <2>6. \A m \in Node : Reached(m)' => Reached(m) /\ m # c
    BY <2>2, <2>4 DEF Reached
  <2>7. \A m \in Node : Reached(m)' => val'[m] # Junk /\ next'[m] # Junk
    BY <1>1, <2>2, <2>6, AloneFacts
  <2> QED  BY <1>1, <1>3, <2>1, <2>3, <2>5, <2>7, RetType, ShapeAlone
<1>4. CASE c # NULL /\ next[c] # NULL /\ Advance(t) /\ UNCHANGED i
  BY <1>1, <1>4, ShapeAdvance DEF Shape, TypeOK
<1>5. CASE /\ c # NULL /\ next[c] # NULL /\ next[next[c]] = NULL /\ UNCHANGED head
           /\ Free(next[c], [next EXCEPT ![c] = NULL]) /\ Return(t, val[next[c]])
  BY <1>1, <1>5, ShapeUnlink
<1> QED  BY <1>2, <1>3, <1>4, <1>5 DEF remove_last

LEMMA ShapeRemoveByIndex ==
  ASSUME Shape, NEW t \in Thread, remove_by_index(t), chain' \in Seq(Node)
  PROVE  Shape'
<1> DEFINE c == cur[t]
<1>1. /\ call[t] # NULL /\ call[t].op \notin Shared /\ ~Dangling /\ pc[t] = "walk"
      /\ c # NULL => c \in used /\ c \in Node /\ Reached(c) /\ next[c] # Junk /\ val[c] # Junk
  <2>1. call[t] # NULL /\ call[t].op \notin Shared /\ ~Dangling
    BY DEF remove_by_index, In, Shared
  <2> QED  BY <2>1, AloneFacts DEF Shape, TypeOK, Places
<1>2. CASE Stop("null")
  BY <1>2, ShapeStop
<1>3. CASE Return(t, Missing) /\ UNCHANGED heap
  BY <1>1, <1>3, ShapeReturn
<1>4. CASE c # NULL /\ next[c] # NULL /\ Advance(t) /\ i' = [i EXCEPT ![t] = @ + 1]
  BY <1>1, <1>4, ShapeAdvance DEF Shape, TypeOK
<1>5. CASE /\ c # NULL /\ next[c] # NULL /\ UNCHANGED head
           /\ Free(next[c], [next EXCEPT ![c] = next[next[c]]]) /\ Return(t, val[next[c]])
  BY <1>1, <1>5, ShapeUnlink
<1> QED  BY <1>2, <1>3, <1>4, <1>5 DEF remove_by_index

-----------------------------------------------------------------------------
(* Sequences, and sequences of nodes as sequences of their values *)

Map(s, f) == [k \in 1..Len(s) |-> f[s[k]]]

LEMMA MapSeq ==
  ASSUME NEW S, NEW T, NEW s \in Seq(S), NEW f \in [S -> T]
  PROVE  Map(s, f) \in Seq(T) /\ Len(Map(s, f)) = Len(s) /\ \A k \in 1..Len(s) : Map(s, f)[k] = f[s[k]]
BY DEF Map

LEMMA WithoutSeq ==
  ASSUME NEW S, NEW s \in Seq(S), NEW k \in 1..Len(s)
  PROVE  /\ Without(s, k) \in Seq(S) /\ Len(Without(s, k)) = Len(s) - 1
         /\ \A j \in 1..(Len(s) - 1) : Without(s, k)[j] = IF j < k THEN s[j] ELSE s[j + 1]
<1>1. \A j \in 1..(Len(s) - 1) : (IF j < k THEN s[j] ELSE s[j + 1]) \in S
  OBVIOUS
<1>2. Len(s) - 1 \in Nat
  OBVIOUS
<1> QED  BY <1>1, <1>2 DEF Without

LEMMA TailSeq ==
  ASSUME NEW S, NEW s \in Seq(S), s # <<>>
  PROVE  /\ Tail(s) \in Seq(S) /\ Len(Tail(s)) = Len(s) - 1
         /\ \A j \in 1..(Len(s) - 1) : Tail(s)[j] = s[j + 1]
OBVIOUS

LEMMA ConsSeq ==
  ASSUME NEW S, NEW s \in Seq(S), NEW n \in S
  PROVE  /\ <<n>> \o s \in Seq(S) /\ Len(<<n>> \o s) = Len(s) + 1
         /\ (<<n>> \o s)[1] = n /\ \A j \in 2..(Len(s) + 1) : (<<n>> \o s)[j] = s[j - 1]
OBVIOUS

LEMMA AppendSeq ==
  ASSUME NEW S, NEW s \in Seq(S), NEW n \in S
  PROVE  /\ Append(s, n) \in Seq(S) /\ Len(Append(s, n)) = Len(s) + 1
         /\ Append(s, n)[Len(s) + 1] = n /\ \A j \in 1..Len(s) : Append(s, n)[j] = s[j]
OBVIOUS

LEMMA SeqEqual ==
  ASSUME NEW S, NEW s \in Seq(S), NEW r \in Seq(S), Len(s) = Len(r), \A k \in 1..Len(s) : s[k] = r[k]
  PROVE  s = r
OBVIOUS

-----------------------------------------------------------------------------
(* Good *)

LEMMA GoodInit ==
  ASSUME Init
  PROVE  Good
<1>1. Linked
  BY DEF Init, Linked
<1>2. Pushing
  BY DEF Init, Pushing
<1>3. Cursors
  BY DEF Init, Cursors
<1> QED  BY <1>1, <1>2, <1>3 DEF Good

LEMMA GoodStop ==
  ASSUME Good, NEW why, Stop(why)
  PROVE  Good'
<1>1. UNCHANGED <<head, next, val, used, chain, call, pc, cur, i>>
  BY DEF Stop, heap, local
<1>2. Linked'
  BY <1>1 DEF Good, Linked, Last
<1>3. Pushing'
  BY <1>1 DEF Good, Pushing, Last
<1>4. Cursors'
  BY <1>1 DEF Good, Cursors, Cursor, Differs, Dangling
<1> QED  BY <1>2, <1>3, <1>4 DEF Good

\* A step that leaves the heap and the threads past their loop alone.
LEMMA GoodLocal ==
  ASSUME Shape, Good, UNCHANGED heap, NEW t \in Thread,
         pc[t] \notin {"link", "fill", "end"}, pc'[t] \notin {"link", "fill", "end"},
         \A u \in Thread : u # t => pc'[u] = pc[u] /\ cur'[u] = cur[u] /\ call'[u] = call[u] /\ i'[u] = i[u],
         call'[t] = NULL \/ call'[t] = call[t]
           \/ (call'[t].op = "push" => \A u \in Thread : u # t /\ call[u] # NULL => call[u].op # "push"),
         call'[t] # NULL /\ call'[t].op = "new_linked_list" => head \notin used,
         call'[t] # NULL /\ ~Dangling => Cursor(t)'
  PROVE  Good'
<1>0. UNCHANGED <<head, next, val, used, chain>> /\ (Dangling' <=> Dangling)
  BY DEF heap, Dangling
<1>1. \A u \in Thread : pc[u] \in {"link", "fill", "end"} \/ pc'[u] \in {"link", "fill", "end"} =>
        u # t /\ pc'[u] = pc[u] /\ cur'[u] = cur[u]
  OBVIOUS
<1>2. Linked'
  BY <1>0, <1>1 DEF Good, Linked, Last
<1>3. Pushing'
  BY <1>0, <1>1 DEF Good, Pushing, Last
<1>4. ASSUME NEW u \in Thread, u # t, call'[u] # NULL, ~Dangling
      PROVE  Cursor(u)'
  <2>1. Cursor(u)
    BY <1>4 DEF Good, Cursors
  <2>2. \A w \in Thread : pc[w] = "fill" => pc'[w] = "fill" /\ cur'[w] = cur[w]
    BY <1>1
  <2> QED  BY <1>0, <1>4, <2>1, <2>2 DEF Cursor, Differs
<1>5. Cursors'
  BY <1>0, <1>4 DEF Good, Cursors
<1> QED  BY <1>2, <1>3, <1>5 DEF Good

LEMMA GoodInvoke ==
  ASSUME Shape, Good, NEW t \in Thread, NEW c \in Call, Invoke(t, c), ~contended'
  PROVE  Good'
<1>1. /\ UNCHANGED heap /\ pc[t] = "idle" /\ pc'[t] = "walk" /\ cur'[t] = head /\ i'[t] = 0
      /\ call[t] = NULL /\ call'[t] = c
      /\ \A u \in Thread : u # t => pc'[u] = pc[u] /\ cur'[u] = cur[u] /\ call'[u] = call[u] /\ i'[u] = i[u]
  BY DEF Shape, TypeOK, Control, Invoke, heap
<1>2. c.op = "push" => \A u \in Thread : u # t /\ call[u] # NULL => call[u].op # "push"
  BY DEF Invoke
<1>3. c.op = "new_linked_list" => head \notin used
  BY ListAssumption DEF Invoke, Dangling, Shape, TypeOK
<1>4. ASSUME ~Dangling PROVE Cursor(t)'
  <2>1. head # NULL => chain # <<>> /\ head = chain[1] /\ 1 \in 1..Len(chain)
    BY <1>4 DEF Dangling, Good, Linked, Shape, TypeOK
  <2>2. UNCHANGED <<head, chain, val>>
    BY <1>1 DEF heap
  <2> QED  BY <1>1, <2>1, <2>2 DEF Cursor
<1> QED  BY <1>1, <1>2, <1>3, <1>4, GoodLocal

LEMMA GoodReturn ==
  ASSUME Shape, Good, NEW t \in Thread, NEW r, Return(t, r), UNCHANGED heap, pc[t] = "walk"
  PROVE  Good'
<1>1. /\ pc'[t] = "idle" /\ call'[t] = NULL
      /\ \A u \in Thread : u # t => pc'[u] = pc[u] /\ cur'[u] = cur[u] /\ call'[u] = call[u] /\ i'[u] = i[u]
  BY DEF Shape, TypeOK, Return
<1> QED  BY <1>1, GoodLocal

LEMMA GoodAdvance ==
  ASSUME Shape, Good, NEW t \in Thread, Advance(t), pc[t] = "walk", call[t] # NULL, ~Dangling,
         call[t].op # "new_linked_list", \A u \in Thread : u # t => i'[u] = i[u],
         Cursor(t)'
  PROVE  Good'
<1>1. /\ UNCHANGED heap /\ pc'[t] = "walk" /\ call' = call
      /\ \A u \in Thread : u # t => pc'[u] = pc[u] /\ cur'[u] = cur[u]
  BY DEF Shape, TypeOK, Advance
<1> QED  BY <1>1, GoodLocal

LEMMA GoodAlone ==
  ASSUME Shape, NEW t \in Thread, NEW r, Return(t, r), call[t] # NULL, call[t].op \notin Shared,
         Linked', \A n \in used' : \E j \in 1..Len(chain') : chain'[j] = n
  PROVE  Good'
<1>1. \A u \in Thread : call'[u] = NULL /\ pc'[u] = "idle"
  BY AloneFacts DEF Shape, TypeOK, Return
<1>2. Pushing' /\ Cursors'
  BY <1>1 DEF Pushing, Cursors
<1> QED  BY <1>2 DEF Good

-----------------------------------------------------------------------------
(* What each function does to the list, and that SequentialList does it too *)

SeqStep == SeqList!Next \/ UNCHANGED SeqList!vars

SeqCall == [t \in Thread |-> IF pc[t] = "end" THEN NULL ELSE call[t]]

LEMMA ReturnFacts ==
  ASSUME Shape, NEW t \in Thread, NEW r, Return(t, r), call[t] # NULL, pc[t] # "end"
  PROVE  /\ SeqCall[t] = call[t] /\ SeqCall' = [SeqCall EXCEPT ![t] = NULL]
         /\ ret' = r /\ UNCHANGED <<status, contended>>
BY DEF Shape, TypeOK, Return, SeqCall

LEMMA ReturnRefines ==
  ASSUME Shape, NEW t \in Thread, NEW r, Return(t, r), call[t] # NULL, pc[t] # "end"
  PROVE  SeqList!Return(t, call[t].op, r) /\ SeqCall[t] = call[t]
BY ReturnFacts DEF SeqList!Return, SeqCall

LEMMA StutterRefines ==
  ASSUME UNCHANGED <<head, val, chain, call, ret, status, contended>>, Dangling' <=> Dangling,
         \A u \in Thread : pc'[u] = "end" <=> pc[u] = "end"
  PROVE  SeqStep
BY DEF SeqStep, SeqList!vars, Dangling

LEMMA TornRefines ==
  ASSUME NEW why \in {"torn", "nomem"}, Stop(why)
  PROVE  SeqStep
BY DEF SeqStep, Stop, SeqList!Next, SeqList!Unpromised

LEMMA ListOf ==
  ASSUME NEW s \in Seq(Node), NEW f \in [Node -> Content \cup {Junk}]
  PROVE  /\ Map(s, f) \in Seq(Content \cup {Junk}) /\ Len(Map(s, f)) = Len(s)
         /\ \A j \in 1..Len(s) : Map(s, f)[j] = f[s[j]]
BY MapSeq

LEMMA ListFacts ==
  ASSUME TypeOK
  PROVE  /\ Map(chain, val) \in Seq(Content \cup {Junk}) /\ Len(Map(chain, val)) = Len(chain)
         /\ \A j \in 1..Len(chain) : Map(chain, val)[j] = val[chain[j]]
<1>1. chain \in Seq(Node) /\ val \in [Node -> Content \cup {Junk}]
  BY DEF TypeOK
<1> QED  BY <1>1, MapSeq

LEMMA GoodExists ==
  ASSUME Shape, Good, NEW t \in Thread, exists_in_list(t)
  PROVE  Good' /\ SeqStep
<1> DEFINE c == cur[t]
           a == call[t].arg
           list == Map(chain, val)
<1>1. /\ call[t] # NULL /\ call[t].op = "exists_in_list" /\ pc[t] = "walk" /\ ~Dangling
      /\ Cursor(t) /\ chain \in Seq(Node)
  BY DEF Shape, TypeOK, Control, exists_in_list, In, Good, Cursors
<1>2. CASE Stop("torn")
  BY <1>2, GoodStop, TornRefines
<1>3. ASSUME NEW r \in BOOLEAN, Return(t, r), UNCHANGED heap,
             r <=> (a # NULL /\ \E j \in 1..Len(list) : list[j] = a)
      PROVE  Good' /\ SeqStep
  <2>1. SeqList!Return(t, "exists_in_list", r) /\ SeqCall[t] = call[t]
    BY <1>1, <1>3, ReturnRefines
  <2>2. r = (SeqCall[t].arg # NULL /\ \E j \in 1..Len(list) : list[j] = SeqCall[t].arg)
    BY <1>3, <2>1, Zenon
  <2>3. UNCHANGED <<chain, val, Dangling>>
    BY <1>3 DEF heap, Dangling
  <2>4. SeqList!Return(t, "exists_in_list", SeqCall[t].arg # NULL /\ \E j \in 1..Len(list) : list[j] = SeqCall[t].arg)
    BY <2>1, <2>2, Zenon DEF SeqList!Return
  <2>5. SeqList!Exists(t)
    BY <2>3, <2>4, Zenon DEF SeqList!Exists, SeqList!Return, SeqCall, Map
  <2> QED  BY <1>1, <1>3, <2>5, GoodReturn DEF SeqStep, SeqList!Next
<1>4. Len(list) = Len(chain) /\ \A j \in 1..Len(chain) : list[j] = val[chain[j]]
  BY ListFacts DEF Shape
<1>5. CASE c = NULL /\ Return(t, FALSE) /\ UNCHANGED heap
  <2>1. Len(chain) = 0
    BY <1>1, <1>5, ListAssumption DEF Cursor, Good, Linked, Shape, TypeOK
  <2>2. ~ \E j \in 1..Len(list) : list[j] = a
    BY <1>4, <2>1
  <2> QED  BY <1>3, <1>5, <2>2, Zenon
<1>6. ASSUME c # NULL, val[c] # Junk
      PROVE  \E k \in 1..Len(chain) : c = chain[k] /\ \A j \in 1..(k - 1) : Differs(t, j)
  BY <1>1, <1>6 DEF Cursor, Good, Pushing
<1>7. CASE c # NULL /\ val[c] # Junk /\ a # NULL /\ val[c] = a /\ Return(t, TRUE) /\ UNCHANGED heap
  BY <1>3, <1>4, <1>6, <1>7
<1>8. CASE c # NULL /\ val[c] # Junk /\ (a = NULL \/ val[c] # a)
  <2>1. PICK k \in 1..Len(chain) : c = chain[k] /\ \A j \in 1..k : Differs(t, j)
    <3>1. PICK k \in 1..Len(chain) : c = chain[k] /\ \A j \in 1..(k - 1) : Differs(t, j)
      BY <1>6, <1>8
    <3>2. Differs(t, k)
      BY <1>8, <3>1 DEF Differs
    <3>3. \A j \in 1..k : j = k \/ j \in 1..(k - 1)
      BY <1>1
    <3> QED  BY <3>1, <3>2, <3>3
  <2>2. CASE next[c] = NULL /\ Return(t, FALSE) /\ UNCHANGED heap
    <3>1. k < Len(chain) => next[c] = chain[k + 1] /\ chain[k + 1] \in Node
      BY <1>1, <2>1 DEF Good, Linked
    <3>2. k = Len(chain)
      BY <1>1, <2>2, <3>1, ListAssumption
    <3>3. ~(a # NULL /\ \E j \in 1..Len(list) : list[j] = a)
      BY <1>4, <2>1, <3>2 DEF Differs
    <3> QED  BY <1>3, <2>2, <3>3, Zenon
  <2>3. CASE next[c] \in Node /\ Advance(t) /\ UNCHANGED i
    <3>1. cur'[t] = next[c] /\ UNCHANGED <<heap, pc, call>> /\ \A u \in Thread : u # t => cur'[u] = cur[u]
      BY <2>3 DEF Advance, Shape, TypeOK
    <3>4. Cursor(t)'
      <4>1. CASE k < Len(chain)
        <5>1. k + 1 \in 1..Len(chain) /\ next[c] = chain[k + 1] /\ \A j \in 1..((k + 1) - 1) : j \in 1..k
          BY <1>1, <2>1, <4>1 DEF Good, Linked
        <5>2. next[c] # NULL
          BY <2>3, ListAssumption
        <5> QED  BY <1>1, <2>1, <3>1, <5>1, <5>2 DEF Cursor, Differs, heap
      <4>2. CASE k = Len(chain)
        <5>1. PICK u \in Thread : pc[u] \in {"fill", "end"}
          BY <1>1, <2>1, <2>3, <4>2, ListAssumption DEF Good, Linked, Last
        <5>2. pc[u] = "fill" /\ cur[u] = Last /\ u # t
          BY <1>1, <2>1, <2>3, <4>2, <5>1, ListAssumption DEF Good, Pushing, Last
        <5>3. cur'[u] = cur[u] /\ next'[cur'[u]] = cur'[t] /\ pc'[u] = "fill"
          BY <2>1, <3>1, <4>2, <5>2 DEF heap, Last
        <5>4. \A j \in 1..Len(chain') : Differs(t, j)'
          BY <2>1, <3>1, <4>2 DEF Differs, heap
        <5>5. cur'[t] # NULL /\ call'[t].op = "exists_in_list"
          BY <1>1, <2>3, <3>1, ListAssumption
        <5> QED  BY <5>3, <5>4, <5>5 DEF Cursor
      <4> QED  BY <1>1, <4>1, <4>2
    <3>5. Good'
      BY <1>1, <2>3, <3>4, GoodAdvance
    <3>6. SeqStep
      BY <2>3, StutterRefines DEF Advance, heap, Dangling
    <3> QED  BY <3>5, <3>6
  <2> QED  BY <1>2, <1>8, <2>2, <2>3 DEF exists_in_list
<1> QED  BY <1>2, <1>5, <1>7, <1>8 DEF exists_in_list

LEMMA EmptyList ==
  ASSUME Shape, Good
  PROVE  /\ head \notin used <=> Map(chain, val) = <<>>
         /\ chain = <<>> <=> Map(chain, val) = <<>>
<1>1. chain = <<>> <=> Len(chain) = 0
  BY DEF Shape, TypeOK
<1>2. Map(chain, val) = <<>> <=> Len(Map(chain, val)) = 0
  BY ListFacts DEF Shape
<1> QED  BY <1>1, <1>2, ListFacts DEF Shape, Good, Linked

LEMMA NullRefines ==
  ASSUME Shape, NEW t \in Thread, call[t] # NULL, pc[t] # "end", Stop("null"),
         LET list == Map(chain, val) IN
           \/ list = <<>> /\ call[t].op \in {"push", "remove_last"}
           \/ /\ call[t].op = "remove_by_index" /\ call[t].arg # 0
              /\ list = <<>> \/ Len(list) = IF call[t].arg < 1 THEN 1 ELSE call[t].arg
  PROVE  SeqStep
<1>1. SeqCall[t] = call[t]
  BY DEF SeqCall
<1>2. UNCHANGED <<head, val, used, chain, call, pc, ret, contended>> /\ status' = "null"
  BY DEF Stop, heap, local
<1>3. SeqList!FollowsNull(t)
  BY <1>1, <1>2 DEF SeqList!FollowsNull, Map, SeqCall, Dangling
<1> QED  BY <1>3 DEF SeqStep, SeqList!Next

\* While t is in push, no other thread is.
LEMMA OnePush ==
  ASSUME Shape, Good, NEW t \in Thread, In(t, "push")
  PROVE  /\ call[t] # NULL /\ call[t].op = "push" /\ ~Dangling /\ Cursor(t) /\ chain \in Seq(Node)
         /\ \A u \in Thread : u # t => pc[u] \notin {"link", "fill", "end"}
         /\ \A u \in Thread : u # t => call[u] = NULL \/ call[u].op = "exists_in_list"
<1>1. /\ call[t] # NULL /\ call[t].op = "push" /\ ~Dangling /\ Cursor(t) /\ chain \in Seq(Node)
  BY DEF In, Good, Cursors, Shape, TypeOK
<1>2. \A u \in Thread : u # t => call[u] = NULL \/ call[u].op = "exists_in_list"
  BY <1>1 DEF Shape, Control, Shared, Good, Pushing
<1>3. \A u \in Thread : u # t => pc[u] \notin {"link", "fill", "end"}
  BY <1>1, <1>2 DEF Shape, Control
<1> QED  BY <1>1, <1>2, <1>3

LEMMA GoodPushWalk ==
  ASSUME Shape, Good, NEW t \in Thread, PushWalk(t)
  PROVE  Good' /\ SeqStep
<1> DEFINE c == cur[t]
<1>1. In(t, "push") /\ pc[t] = "walk"
  BY DEF PushWalk
<1>2. /\ call[t] # NULL /\ call[t].op = "push" /\ ~Dangling /\ Cursor(t) /\ chain \in Seq(Node)
      /\ \A u \in Thread : pc[u] \notin {"link", "fill", "end"}
  BY <1>1, OnePush
<1>3. CASE c = NULL /\ Stop("null")
  <2>1. Map(chain, val) = <<>>
    BY <1>2, <1>3, EmptyList, ListAssumption DEF Cursor, Shape, TypeOK
  <2> QED  BY <1>1, <1>2, <1>3, <2>1, GoodStop, NullRefines
<1>4. CASE Stop("torn")
  BY <1>4, GoodStop, TornRefines
<1>5. ASSUME c # NULL
      PROVE  \E k \in 1..Len(chain) : c = chain[k]
  BY <1>2, <1>5 DEF Cursor
<1>6. CASE c # NULL /\ next[c] \in Node /\ Advance(t) /\ UNCHANGED i
  <2>1. PICK k \in 1..Len(chain) : c = chain[k]
    BY <1>5, <1>6
  <2>2. k # Len(chain)
    BY <1>2, <1>6, <2>1, ListAssumption DEF Good, Linked, Last
  <2>3. k + 1 \in 1..Len(chain) /\ next[c] = chain[k + 1]
    BY <1>2, <2>1, <2>2 DEF Good, Linked
  <2>4. cur'[t] = next[c] /\ UNCHANGED <<call, chain>> /\ cur'[t] # NULL
    BY <1>6, ListAssumption DEF Advance, heap, Shape, TypeOK
  <2>5. Cursor(t)'
    BY <1>2, <2>3, <2>4 DEF Cursor
  <2>6. SeqStep
    BY <1>6, StutterRefines DEF Advance, heap, Dangling
  <2> QED  BY <1>1, <1>2, <1>6, <2>5, <2>6, GoodAdvance
<1>7. CASE c # NULL /\ next[c] = NULL /\ Goto(t, "link") /\ UNCHANGED heap
  <2>1. PICK k \in 1..Len(chain) : c = chain[k]
    BY <1>5, <1>7
  <2>2. k < Len(chain) => next[c] = chain[k + 1] /\ chain[k + 1] \in Node
    BY <1>2, <2>1 DEF Good, Linked
  <2>3. k = Len(chain) /\ chain # <<>> /\ c = Last
    BY <1>2, <1>7, <2>1, <2>2, ListAssumption DEF Last
  <2>4. /\ pc'[t] = "link" /\ \A u \in Thread : u # t => pc'[u] = pc[u]
        /\ UNCHANGED <<head, next, val, used, chain, call, cur, i>>
    BY <1>7 DEF Goto, heap, Shape, TypeOK
  <2>5. \A u \in Thread : pc[u] \notin {"fill", "end"} /\ pc'[u] \notin {"fill", "end"}
    BY <1>2, <2>4
  <2>6. Linked'
    BY <2>4, <2>5 DEF Good, Linked, Last
  <2>7. Pushing'
    BY <1>2, <2>3, <2>4, <2>5 DEF Good, Pushing, Last
  <2>8. Cursors'
    BY <2>4, <2>5 DEF Good, Cursors, Cursor, Differs, Dangling
  <2>9. SeqStep
    BY <1>7, <2>4, <2>5, StutterRefines DEF Goto, Dangling
  <2> QED  BY <2>6, <2>7, <2>8, <2>9 DEF Good
<1> QED  BY <1>3, <1>4, <1>6, <1>7 DEF PushWalk

LEMMA GoodPushLink ==
  ASSUME Shape, Good, NEW t \in Thread, PushLink(t)
  PROVE  Good' /\ SeqStep
<1>1. In(t, "push") /\ pc[t] = "link"
  BY DEF PushLink
<1>2. /\ call[t] # NULL /\ call[t].op = "push" /\ ~Dangling /\ Cursor(t) /\ chain \in Seq(Node)
      /\ \A u \in Thread : u # t => pc[u] \notin {"link", "fill", "end"}
      /\ \A u \in Thread : u # t => call[u] = NULL \/ call[u].op = "exists_in_list"
  BY <1>1, OnePush
<1>3. CASE Stop("nomem")
  BY <1>3, GoodStop, TornRefines
<1>4. CASE \E n \in Node : /\ malloc(n) /\ next' = [next EXCEPT ![cur[t]] = n]
                           /\ Goto(t, "fill") /\ UNCHANGED <<head, val, chain>>
  <2> PICK n \in Node : /\ malloc(n) /\ next' = [next EXCEPT ![cur[t]] = n]
                        /\ Goto(t, "fill") /\ UNCHANGED <<head, val, chain>>
    BY <1>4
  <2>1. chain # <<>> /\ cur[t] = Last /\ Len(chain) \in 1..Len(chain) /\ Last \in used /\ Last \in Node
    BY <1>1, <1>2 DEF Good, Pushing, Linked, Last
  <2>2. /\ n \notin used /\ used' = used \cup {n} /\ UNCHANGED <<head, val, chain, call, cur, i>>
        /\ next'[Last] = n /\ next[n] = Junk /\ val[n] = Junk /\ next'[n] = Junk
        /\ \A m \in Node : m # Last => next'[m] = next[m]
        /\ pc'[t] = "fill" /\ \A u \in Thread : u # t => pc'[u] = pc[u]
    BY <2>1 DEF Shape, TypeOK, Pointers, malloc, Goto
  <2>3. \A j \in 1..Len(chain) : chain[j] \in Node /\ chain[j] # n /\ (j # Len(chain) => chain[j] # Last)
    BY <1>2, <2>1, <2>2 DEF Good, Linked, Last
  <2>4. Linked'
    <3>1. \A j \in 1..(Len(chain) - 1) : next'[chain[j]] = chain[j + 1]
      BY <1>2, <2>1, <2>2, <2>3 DEF Good, Linked
    <3>2. head' \notin used' <=> head \notin used
      BY <1>2, <2>2, ListAssumption DEF Dangling
    <3> QED  BY <2>2, <3>1, <3>2 DEF Good, Linked
  <2>5. Pushing'
    <3>1. \A u \in Thread : pc'[u] \notin {"link", "end"} /\ (pc'[u] = "fill" <=> u = t)
      BY <1>2, <2>2
    <3>2. \A u, w \in Thread : call'[u] # NULL /\ call'[u].op = "push" /\ call'[w] # NULL /\ call'[w].op = "push" => u = w
      BY <2>2 DEF Good, Pushing
    <3>3. \A m \in used' : (\E j \in 1..Len(chain') : chain'[j] = m) \/ \E u \in Thread : pc'[u] = "fill" /\ next'[cur'[u]] = m
      BY <1>1, <1>2, <2>1, <2>2 DEF Good, Pushing
    <3>4. Last' = Last
      BY <2>2 DEF Last
    <3> QED  BY <2>1, <2>2, <2>3, <3>1, <3>2, <3>3, <3>4 DEF Pushing
  <2>6. ASSUME NEW u \in Thread, call'[u] # NULL, ~Dangling' PROVE Cursor(u)'
    <3>1. Cursor(u)
      BY <1>2, <2>2, <2>6 DEF Good, Cursors
    <3>2. \A w \in Thread : pc[w] # "fill"
      BY <1>1, <1>2
    <3> QED  BY <2>2, <3>1, <3>2 DEF Cursor, Differs
  <2>7. Cursors'
    <3>1. \A u \in Thread : call[u] # NULL => call[u].op # "new_linked_list"
      BY <1>2
    <3> QED  BY <2>2, <2>6, <3>1 DEF Cursors
  <2>8. SeqStep
    <3>1. Dangling' <=> Dangling
      BY <1>2, <2>2 DEF Dangling
    <3>2. \A u \in Thread : pc'[u] = "end" <=> pc[u] = "end"
      BY <1>1, <2>2
    <3> QED  BY <2>2, <3>1, <3>2, StutterRefines DEF Goto
  <2> QED  BY <2>4, <2>5, <2>7, <2>8 DEF Good
<1> QED  BY <1>3, <1>4 DEF PushLink

LEMMA GoodPushFill ==
  ASSUME Shape, Good, NEW t \in Thread, PushFill(t), ~contended
  PROVE  chain' \in Seq(Node) /\ Good' /\ SeqStep
<1> DEFINE n == next[cur[t]]
<1>1. In(t, "push") /\ pc[t] = "fill"
  BY DEF PushFill
<1>2. /\ call[t] # NULL /\ call[t].op = "push" /\ ~Dangling /\ Cursor(t) /\ chain \in Seq(Node)
      /\ \A u \in Thread : u # t => pc[u] \notin {"link", "fill", "end"}
      /\ \A u \in Thread : u # t => call[u] = NULL \/ call[u].op = "exists_in_list"
  BY <1>1, OnePush
<1>3. /\ chain # <<>> /\ cur[t] = Last /\ n \in Node /\ n # NULL /\ n \in used
      /\ Len(chain) \in 1..Len(chain)
      /\ \A j \in 1..Len(chain) : chain[j] # n /\ chain[j] \in Node
      /\ next[n] = Junk
  BY <1>1, <1>2, ListAssumption DEF Good, Pushing, Shape, TypeOK, Pointers, Places
<1>4. /\ val' = [val EXCEPT ![n] = call[t].arg] /\ chain' = Append(chain, n)
      /\ Goto(t, "end") /\ UNCHANGED <<head, next, used>>
  BY <1>3 DEF PushFill, NodesNow
<1>5. /\ chain' \in Seq(Node) /\ Len(chain') = Len(chain) + 1
      /\ chain'[Len(chain) + 1] = n /\ \A j \in 1..Len(chain) : chain'[j] = chain[j]
  BY <1>2, <1>3, <1>4, AppendSeq
<1>6. /\ val'[n] = call[t].arg /\ val'[n] # Junk /\ \A m \in Node : m # n => val'[m] = val[m]
      /\ pc'[t] = "end" /\ \A u \in Thread : u # t => pc'[u] = pc[u]
      /\ UNCHANGED <<call, cur, i, head, next, used>>
  BY <1>1, <1>3, <1>4, ArgContent, ListAssumption DEF Goto, Shape, TypeOK
<1>7. \A j \in 1..Len(chain') : j \in 1..Len(chain) \/ j = Len(chain) + 1
  BY <1>2, <1>5
<1>8. Linked'
  <2>1. chain' # <<>> /\ head' \in used' /\ head' = chain'[1]
    BY <1>2, <1>3, <1>5, <1>6 DEF Good, Linked
  <2>2. \A j \in 1..Len(chain') : chain'[j] \in used' /\ val'[chain'[j]] # Junk
    BY <1>3, <1>5, <1>6, <1>7 DEF Good, Linked
  <2>3. \A j, k \in 1..Len(chain') : chain'[j] = chain'[k] => j = k
    BY <1>3, <1>5, <1>7 DEF Good, Linked
  <2>4. \A j \in 1..(Len(chain') - 1) : next'[chain'[j]] = chain'[j + 1]
    <3>1. ASSUME NEW j \in 1..(Len(chain') - 1) PROVE next'[chain'[j]] = chain'[j + 1]
      <4>1. CASE j = Len(chain)
        BY <1>3, <1>5, <1>6, <4>1 DEF Last
      <4>2. CASE j # Len(chain)
        <5>1. j \in 1..(Len(chain) - 1) /\ j \in 1..Len(chain) /\ j + 1 \in 1..Len(chain)
          BY <1>2, <1>5, <4>2
        <5> QED  BY <1>5, <1>6, <5>1 DEF Good, Linked
      <4> QED  BY <4>1, <4>2
    <3> QED  BY <3>1
  <2> QED  BY <1>6, <2>1, <2>2, <2>3, <2>4 DEF Linked
<1>9. Pushing'
  <2>1. \A u \in Thread : pc'[u] \notin {"link", "fill"} /\ (pc'[u] = "end" => u = t)
    BY <1>2, <1>6
  <2>2. \A u, w \in Thread : call'[u] # NULL /\ call'[u].op = "push" /\ call'[w] # NULL /\ call'[w].op = "push" => u = w
    BY <1>6 DEF Good, Pushing
  <2>3. Len(chain') > 1 /\ cur'[t] = chain'[Len(chain') - 1] /\ next'[Last'] = Junk
    BY <1>2, <1>3, <1>5, <1>6 DEF Last
  <2>4. \A m \in used' : \E j \in 1..Len(chain') : chain'[j] = m
    <3>1. ASSUME NEW m \in used PROVE (\E j \in 1..Len(chain) : chain[j] = m) \/ m = n
      BY <1>2 DEF Good, Pushing
    <3>2. \A j \in 1..Len(chain) : j \in 1..Len(chain')
      BY <1>2, <1>5
    <3>3. Len(chain) + 1 \in 1..Len(chain')
      BY <1>2, <1>5
    <3> QED  BY <1>5, <1>6, <3>1, <3>2, <3>3
  <2> QED  BY <2>1, <2>2, <2>3, <2>4 DEF Pushing
<1>10. ASSUME NEW u \in Thread, call'[u] # NULL PROVE Cursor(u)'
  <2>1. Cursor(u)
    BY <1>2, <1>6, <1>10 DEF Good, Cursors
  <2>2. \A j \in 1..Len(chain) : j \in 1..Len(chain')
    BY <1>2, <1>5
  <2>3. CASE u = t
    BY <1>2, <1>5, <1>6, <2>1, <2>2, <2>3 DEF Cursor
  <2>4. CASE u # t
    <3>1. call[u].op = "exists_in_list"
      BY <1>2, <1>6, <1>10, <2>4
    <3>2. \A j \in 1..Len(chain) : Differs(u, j) => Differs(u, j)'
      BY <1>3, <1>5, <1>6 DEF Differs
    <3>3. CASE \E k \in 1..Len(chain) : cur[u] = chain[k] /\ \A j \in 1..(k - 1) : Differs(u, j)
      <4>1. PICK k \in 1..Len(chain) : cur[u] = chain[k] /\ \A j \in 1..(k - 1) : Differs(u, j)
        BY <3>3
      <4>2. \A j \in 1..(k - 1) : j \in 1..Len(chain)
        BY <1>2
      <4>3. k \in 1..Len(chain') /\ cur'[u] = chain'[k] /\ \A j \in 1..(k - 1) : Differs(u, j)'
        BY <1>5, <1>6, <2>2, <3>2, <4>1, <4>2
      <4> QED  BY <1>6, <2>1, <3>1, <4>3 DEF Cursor
    <3>4. CASE /\ \E w \in Thread : pc[w] = "fill" /\ next[cur[w]] = cur[u]
               /\ \A j \in 1..Len(chain) : Differs(u, j)
      <4>1. cur'[u] = n /\ \A j \in 1..Len(chain) : Differs(u, j)'
        BY <1>2, <1>6, <3>2, <3>4
      <4>2. Len(chain) + 1 \in 1..Len(chain') /\ (Len(chain) + 1) - 1 = Len(chain)
        BY <1>2, <1>5
      <4>3. \E k \in 1..Len(chain') : cur'[u] = chain'[k] /\ \A j \in 1..(k - 1) : Differs(u, j)'
        BY <1>5, <4>1, <4>2
      <4> QED  BY <1>6, <2>1, <3>1, <4>3 DEF Cursor
    <3>5. CASE cur[u] = NULL
      BY <1>6, <2>1, <3>1, <3>5 DEF Cursor
    <3> QED  BY <2>1, <3>1, <3>3, <3>4, <3>5 DEF Cursor
  <2> QED  BY <2>3, <2>4
<1>11. Cursors'
  BY <1>2, <1>6, <1>10 DEF Cursors
<1>12. SeqList!Push(t)
  <2>1. SeqCall[t] = call[t] /\ SeqCall' = [SeqCall EXCEPT ![t] = NULL]
    BY <1>1, <1>2, <1>6 DEF SeqCall, Shape, TypeOK
  <2>2. SeqList!Return(t, "push", ret)
    BY <1>2, <1>4, <2>1 DEF SeqList!Return, Goto, SeqCall
  <2> DEFINE C == Content \cup {Junk}
  <2>3. Map(chain, val) \in Seq(C) /\ Len(Map(chain, val)) = Len(chain)
        /\ \A j \in 1..Len(chain) : Map(chain, val)[j] = val[chain[j]]
    BY ListFacts DEF Shape
  <2>4. val' \in [Node -> C] /\ call[t].arg \in C
    BY <1>1, <1>3, <1>4, ArgContent DEF Shape, TypeOK
  <2>5. Map(chain', val') \in Seq(C) /\ Len(Map(chain', val')) = Len(chain')
        /\ \A j \in 1..Len(chain') : Map(chain', val')[j] = val'[chain'[j]]
    BY <1>5, <2>4, MapSeq
  <2> HIDE DEF C
  <2>6. Append(Map(chain, val), call[t].arg) \in Seq(C)
        /\ Len(Append(Map(chain, val), call[t].arg)) = Len(chain) + 1
        /\ Append(Map(chain, val), call[t].arg)[Len(chain) + 1] = call[t].arg
        /\ \A j \in 1..Len(chain) : Append(Map(chain, val), call[t].arg)[j] = val[chain[j]]
    BY <2>3, <2>4, AppendSeq
  <2>7. ASSUME NEW j \in 1..Len(chain')
        PROVE  Map(chain', val')[j] = Append(Map(chain, val), call[t].arg)[j]
    BY <1>3, <1>5, <1>6, <1>7, <2>5, <2>6
  <2>8. Map(chain', val') = Append(Map(chain, val), call[t].arg)
    BY <1>5, <2>5, <2>6, <2>7, SeqEqual
  <2>9. Map(chain, val) # <<>>
    BY <1>3, EmptyList
  <2>10. Dangling' <=> Dangling
    BY <1>6 DEF Dangling
  <2> QED  BY <2>1, <2>2, <2>8, <2>9, <2>10 DEF SeqList!Push, Map, SeqCall, Dangling
<1> QED  BY <1>5, <1>8, <1>9, <1>11, <1>12 DEF Good, SeqStep, SeqList!Next

LEMMA GoodPushEnd ==
  ASSUME Shape, Good, NEW t \in Thread, PushEnd(t)
  PROVE  Good' /\ SeqStep
<1>1. In(t, "push") /\ pc[t] = "end"
  BY DEF PushEnd
<1>2. /\ call[t] # NULL /\ call[t].op = "push" /\ ~Dangling /\ Cursor(t) /\ chain \in Seq(Node)
      /\ \A u \in Thread : u # t => pc[u] \notin {"link", "fill", "end"}
      /\ \A u \in Thread : u # t => call[u] = NULL \/ call[u].op = "exists_in_list"
  BY <1>1, OnePush
<1>3. Len(chain) > 1 /\ cur[t] = chain[Len(chain) - 1]
  BY <1>1 DEF Good, Pushing
<1>4. next[cur[t]] = Last /\ Last \in Node /\ Last # NULL /\ chain # <<>>
  <2>1. Len(chain) - 1 \in 1..(Len(chain) - 1) /\ Len(chain) \in 1..Len(chain) /\ (Len(chain) - 1) + 1 = Len(chain)
    BY <1>2, <1>3
  <2> QED  BY <1>2, <1>3, <2>1, ListAssumption DEF Good, Linked, Last
<1>5. next' = [next EXCEPT ![Last] = NULL] /\ Return(t, ret) /\ UNCHANGED <<head, val, used, chain>>
  BY <1>4 DEF PushEnd
<1>6. /\ next'[Last] = NULL /\ \A m \in Node : m # Last => next'[m] = next[m]
      /\ pc'[t] = "idle" /\ call'[t] = NULL /\ cur'[t] = NULL
      /\ \A u \in Thread : u # t => pc'[u] = pc[u] /\ cur'[u] = cur[u] /\ call'[u] = call[u] /\ i'[u] = i[u]
      /\ UNCHANGED <<head, val, used, chain>>
  BY <1>4, <1>5 DEF Return, Shape, TypeOK
<1>7. \A u \in Thread : pc'[u] \notin {"link", "fill", "end"} /\ pc[u] # "fill"
  BY <1>1, <1>2, <1>6
<1>8. Linked'
  <2>1. \A j \in 1..(Len(chain) - 1) : chain[j] \in Node /\ chain[j] # Last
    BY <1>2, <1>3 DEF Good, Linked, Last
  <2>2. \A j \in 1..(Len(chain) - 1) : next'[chain[j]] = chain[j + 1]
    BY <1>6, <2>1 DEF Good, Linked
  <2>3. Last' = Last
    BY <1>6 DEF Last
  <2> QED  BY <1>6, <2>2, <2>3 DEF Good, Linked
<1>9. Pushing'
  <2>1. \A m \in used' : \E j \in 1..Len(chain') : chain'[j] = m
    BY <1>6, <1>7 DEF Good, Pushing
  <2>2. \A u, w \in Thread : call'[u] # NULL /\ call'[u].op = "push" /\ call'[w] # NULL /\ call'[w].op = "push" => u = w
    BY <1>6 DEF Good, Pushing
  <2> QED  BY <1>7, <2>1, <2>2 DEF Pushing
<1>10. ASSUME NEW u \in Thread, call'[u] # NULL PROVE Cursor(u)'
  <2>1. u # t /\ Cursor(u) /\ call[u].op = "exists_in_list"
    BY <1>2, <1>6, <1>10 DEF Good, Cursors
  <2> QED  BY <1>6, <1>7, <2>1 DEF Cursor, Differs
<1>11. Cursors'
  BY <1>2, <1>6, <1>10 DEF Cursors
<1>12. SeqStep
  <2>1. SeqCall' = SeqCall
    BY <1>1, <1>2, <1>6 DEF SeqCall, Shape, TypeOK
  <2>2. UNCHANGED <<ret, status, contended, Dangling>>
    BY <1>5, <1>6 DEF Return, Dangling
  <2> QED  BY <1>6, <2>1, <2>2 DEF SeqStep, SeqList!vars, SeqCall
<1> QED  BY <1>8, <1>9, <1>11, <1>12 DEF Good

LEMMA InvokeRefines ==
  ASSUME Shape, NEW t \in Thread, NEW c \in Call, Invoke(t, c), ~contended'
  PROVE  SeqStep
<1>1. /\ pc[t] = "idle" /\ pc'[t] = "walk" /\ call[t] = NULL /\ call'[t] = c
      /\ \A u \in Thread : u # t => pc'[u] = pc[u] /\ call'[u] = call[u]
      /\ ret' = NULL /\ contended = FALSE /\ contended' = FALSE
      /\ UNCHANGED <<head, next, val, used, status, chain>>
  BY DEF Shape, TypeOK, Control, Invoke
<1>2. SeqCall[t] = NULL /\ SeqCall' = [SeqCall EXCEPT ![t] = SeqCall'[t]]
  BY <1>1 DEF SeqCall
<1>3. UNCHANGED <<Dangling, contended>>
  BY <1>1 DEF Dangling
<1>4. SeqList!Invoke(t)
  BY <1>1, <1>2, <1>3 DEF SeqList!Invoke, SeqCall
<1> QED  BY <1>4 DEF SeqStep, SeqList!Next

LEMMA FreedRefines ==
  ASSUME Shape, NEW t \in Thread, UseFreed(t)
  PROVE  SeqStep
<1>1. pc[t] # "end" /\ call[t] # NULL /\ Dangling
  BY DEF UseFreed, Shape, Places
<1>2. SeqCall[t] = call[t]
  BY <1>1 DEF SeqCall
<1>3. UNCHANGED <<head, val, used, chain, call, pc, ret, contended>> /\ status' = "freed"
  BY DEF UseFreed, Stop, heap, local
<1>4. SeqList!UseFreed(t)
  BY <1>1, <1>2, <1>3 DEF SeqList!UseFreed, SeqCall, Dangling
<1> QED  BY <1>4 DEF SeqStep, SeqList!Next

\* The list when nobody uses it, in terms of the nodes.
LEMMA AloneLinked ==
  ASSUME Shape, Good, NEW t \in Thread, call[t] # NULL, call[t].op \notin Shared
  PROVE  /\ chain \in Seq(Node) /\ (chain # <<>> => next[Last] = NULL)
         /\ \A n \in used : \E j \in 1..Len(chain) : chain[j] = n
         /\ \A u \in Thread : pc[u] \notin {"fill", "end"}
<1>1. \A u \in Thread : pc[u] \notin {"fill", "end"}
  BY AloneFacts
<1> QED  BY <1>1 DEF Shape, TypeOK, Good, Linked, Pushing

LEMMA GoodNew ==
  ASSUME Shape, Good, NEW t \in Thread, new_linked_list(t), ~contended
  PROVE  chain' \in Seq(Node) /\ Good' /\ SeqStep
<1>1. /\ call[t] # NULL /\ call[t].op = "new_linked_list" /\ call[t].op \notin Shared
      /\ Return(t, ret) /\ head \notin used /\ call[t].arg \in Content
  BY ArgContent DEF new_linked_list, In, Shared, Good, Cursors
<1>2. pc[t] = "walk" /\ Len(chain) = 0 /\ used = {}
  BY <1>1, AloneFacts, AloneLinked DEF Good, Linked
<1>3. /\ SeqCall[t] = call[t] /\ SeqCall' = [SeqCall EXCEPT ![t] = NULL]
      /\ ret' = ret /\ UNCHANGED <<status, contended>>
  BY <1>1, <1>2, ReturnFacts
<1>4. CASE \E n \in Node :
          /\ malloc(n) /\ head' = n
          /\ val' = [val EXCEPT ![n] = call[t].arg]
          /\ next' = [next EXCEPT ![n] = NULL]
          /\ NodesNow(<<n>>)
  <2> PICK n \in Node :
          /\ malloc(n) /\ head' = n
          /\ val' = [val EXCEPT ![n] = call[t].arg]
          /\ next' = [next EXCEPT ![n] = NULL]
          /\ NodesNow(<<n>>)
    BY <1>4
  <2>1. /\ chain' = <<n>> /\ chain' \in Seq(Node) /\ Len(chain') = 1 /\ chain'[1] = n /\ chain' # <<>>
        /\ used' = {n} /\ head' = n /\ val'[n] = call[t].arg /\ val'[n] # Junk /\ next'[n] = NULL
        /\ val' \in [Node -> Content \cup {Junk}]
    BY <1>1, <1>2, ListAssumption DEF NodesNow, malloc, Shape, TypeOK
  <2>2. Linked'
    BY <2>1 DEF Linked, Last
  <2>3. Good'
    BY <1>1, <2>1, <2>2, GoodAlone
  <2>4. Map(chain', val') = <<call[t].arg>>
    BY <2>1 DEF Map
  <2>5. ~Dangling'
    BY <2>1 DEF Dangling
  <2>6. SeqList!New(t)
    BY <1>1, <1>3, <2>4, <2>5 DEF SeqList!New, SeqList!Return, Map, Dangling, SeqCall
  <2> QED  BY <2>1, <2>3, <2>6 DEF SeqStep, SeqList!Next
<1>5. CASE used = Node /\ head' = NULL /\ UNCHANGED <<next, val, used>> /\ NodesNow(<<>>)
  <2>1. chain' = <<>> /\ chain' \in Seq(Node) /\ Len(chain') = 0 /\ used' = {} /\ head' \notin used'
    BY <1>2, <1>5 DEF NodesNow
  <2>2. Linked'
    BY <2>1 DEF Linked
  <2>3. Good'
    BY <1>1, <2>1, <2>2, GoodAlone
  <2>4. Map(chain', val') = <<>>
    BY <2>1 DEF Map
  <2>5. ~Dangling'
    BY <1>5 DEF Dangling
  <2>6. SeqList!New(t)
    BY <1>1, <1>3, <2>4, <2>5 DEF SeqList!New, SeqList!Return, Map, Dangling, SeqCall
  <2> QED  BY <2>1, <2>3, <2>6 DEF SeqStep, SeqList!Next
<1> QED  BY <1>4, <1>5 DEF new_linked_list

LEMMA GoodPushFirst ==
  ASSUME Shape, Good, NEW t \in Thread, push_first(t), ~contended
  PROVE  chain' \in Seq(Node) /\ Good' /\ SeqStep
<1>1. /\ call[t] # NULL /\ call[t].op = "push_first" /\ call[t].op \notin Shared /\ ~Dangling
      /\ call[t].arg \in Content
  BY ArgContent DEF push_first, In, Shared
<1>2. /\ pc[t] = "walk" /\ chain \in Seq(Node) /\ (chain # <<>> => next[Last] = NULL)
      /\ \A m \in used : \E j \in 1..Len(chain) : chain[j] = m
  BY <1>1, AloneFacts, AloneLinked
<1>3. CASE Stop("nomem")
  <2>1. chain' = chain
    BY <1>3 DEF Stop, heap
  <2> QED  BY <1>2, <1>3, <2>1, GoodStop, TornRefines
<1>4. CASE \E n \in Node :
          /\ malloc(n) /\ val' = [val EXCEPT ![n] = call[t].arg]
          /\ next' = [next EXCEPT ![n] = head] /\ head' = n /\ NodesNow(<<n>> \o chain) /\ Return(t, ret)
  <2> PICK n \in Node :
          /\ malloc(n) /\ val' = [val EXCEPT ![n] = call[t].arg]
          /\ next' = [next EXCEPT ![n] = head] /\ head' = n /\ NodesNow(<<n>> \o chain) /\ Return(t, ret)
    BY <1>4
  <2>1. /\ n \notin used /\ used' = used \cup {n} /\ head' = n
        /\ val'[n] = call[t].arg /\ val'[n] # Junk /\ next'[n] = head
        /\ \A m \in Node : m # n => next'[m] = next[m] /\ val'[m] = val[m]
        /\ val' \in [Node -> Content \cup {Junk}]
    BY <1>1, ListAssumption DEF malloc, Shape, TypeOK
  <2>2. chain' = <<n>> \o chain
    BY DEF NodesNow
  <2>3. /\ chain' \in Seq(Node) /\ Len(chain') = Len(chain) + 1
        /\ chain'[1] = n /\ \A j \in 2..(Len(chain) + 1) : chain'[j] = chain[j - 1]
    BY <1>2, <2>2, ConsSeq
  <2>4. \A j \in 1..Len(chain') : j = 1 \/ (j \in 2..(Len(chain) + 1) /\ j - 1 \in 1..Len(chain))
    BY <1>2, <2>3
  <2>5. \A j \in 1..Len(chain) : chain[j] # n /\ chain[j] \in Node
    BY <1>2, <2>1 DEF Good, Linked
  <2>6. Linked'
    <3>1. chain' # <<>> /\ head' \in used' /\ head' = chain'[1]
      BY <1>2, <2>1, <2>3
    <3>2. \A j \in 1..Len(chain') : chain'[j] \in used' /\ val'[chain'[j]] # Junk
      BY <2>1, <2>3, <2>4, <2>5 DEF Good, Linked
    <3>3. \A j, k \in 1..Len(chain') : chain'[j] = chain'[k] => j = k
      <4>1. ASSUME NEW j \in 1..Len(chain'), NEW k \in 1..Len(chain'), chain'[j] = chain'[k] PROVE j = k
        <5>1. CASE j = 1
          BY <2>3, <2>4, <2>5, <4>1, <5>1
        <5>2. CASE k = 1
          BY <2>3, <2>4, <2>5, <4>1, <5>2
        <5>3. CASE j # 1 /\ k # 1
          <6>1. /\ j - 1 \in 1..Len(chain) /\ k - 1 \in 1..Len(chain)
                /\ chain'[j] = chain[j - 1] /\ chain'[k] = chain[k - 1]
            BY <2>3, <2>4, <5>3
          <6>2. j - 1 = k - 1
            BY <4>1, <6>1 DEF Good, Linked
          <6> QED  BY <6>2
        <5> QED  BY <5>1, <5>2, <5>3
      <4> QED  BY <4>1
    <3>4. \A j \in 1..(Len(chain') - 1) : next'[chain'[j]] = chain'[j + 1]
      <4>1. ASSUME NEW j \in 1..(Len(chain') - 1) PROVE next'[chain'[j]] = chain'[j + 1]
        <5>0. j + 1 \in 2..(Len(chain) + 1) /\ (j + 1) - 1 = j /\ j \in 1..Len(chain)
          BY <1>2, <2>3
        <5>1. CASE j = 1
          <6>1. chain # <<>> /\ chain'[2] = chain[1] /\ head = chain[1]
            BY <1>2, <2>3, <5>0, <5>1 DEF Good, Linked
          <6> QED  BY <2>1, <2>3, <5>1, <6>1
        <5>2. CASE j # 1
          <6>1. j \in 2..(Len(chain) + 1) /\ j - 1 \in 1..(Len(chain) - 1) /\ j - 1 \in 1..Len(chain) /\ (j - 1) + 1 = j
            BY <1>2, <5>0, <5>2
          <6>2. chain'[j] = chain[j - 1] /\ chain'[j + 1] = chain[j] /\ next[chain[j - 1]] = chain[(j - 1) + 1]
            BY <2>3, <5>0, <6>1 DEF Good, Linked
          <6> QED  BY <2>1, <2>5, <6>1, <6>2
        <5> QED  BY <5>1, <5>2
      <4> QED  BY <4>1
    <3>5. next'[Last'] = NULL
      <4>1. CASE chain = <<>>
        <5>1. Last' = n /\ head = NULL
          BY <1>1, <1>2, <2>3, <4>1 DEF Last, Good, Linked, Dangling
        <5> QED  BY <2>1, <5>1
      <4>2. CASE chain # <<>>
        <5>1. /\ Len(chain') \in 2..(Len(chain) + 1) /\ Len(chain') - 1 = Len(chain)
              /\ Len(chain) \in 1..Len(chain)
          BY <1>2, <2>3, <4>2
        <5>2. Last' = Last /\ Last # n /\ Last \in Node
          BY <2>3, <2>5, <5>1 DEF Last
        <5> QED  BY <1>2, <2>1, <4>2, <5>2
      <4> QED  BY <4>1, <4>2
    <3> QED  BY <3>1, <3>2, <3>3, <3>4, <3>5 DEF Linked
  <2>7. \A m \in used' : \E j \in 1..Len(chain') : chain'[j] = m
    <3>1. ASSUME NEW m \in used PROVE \E j \in 1..Len(chain') : chain'[j] = m
      <4>1. PICK j \in 1..Len(chain) : chain[j] = m
        BY <1>2
      <4>2. j + 1 \in 1..Len(chain') /\ j + 1 \in 2..(Len(chain) + 1) /\ (j + 1) - 1 = j
        BY <1>2, <2>3
      <4> QED  BY <2>3, <4>1, <4>2
    <3>2. 1 \in 1..Len(chain')
      BY <1>2, <2>3
    <3> QED  BY <2>1, <2>3, <3>1, <3>2
  <2>8. Good'
    BY <1>1, <2>6, <2>7, GoodAlone
  <2>9. SeqList!PushFirst(t)
    <3> DEFINE C == Content \cup {Junk}
               l == Map(chain, val)
    <3>1. /\ SeqCall[t] = call[t] /\ SeqCall' = [SeqCall EXCEPT ![t] = NULL]
          /\ ret' = ret /\ UNCHANGED <<status, contended>>
      BY <1>1, <1>2, ReturnFacts
    <3>2. l \in Seq(C) /\ Len(l) = Len(chain) /\ \A j \in 1..Len(chain) : l[j] = val[chain[j]]
      BY ListFacts DEF Shape
    <3>0. chain' \in Seq(Node) /\ val' \in [Node -> C]
      BY <2>1, <2>3
    <3>3. Map(chain', val') \in Seq(C) /\ Len(Map(chain', val')) = Len(chain')
          /\ \A j \in 1..Len(chain') : Map(chain', val')[j] = val'[chain'[j]]
      BY <3>0, ListOf
    <3>4. call[t].arg \in C
      BY <1>1
    <3> HIDE DEF C, l
    <3>5. /\ <<call[t].arg>> \o l \in Seq(C) /\ Len(<<call[t].arg>> \o l) = Len(chain) + 1
          /\ (<<call[t].arg>> \o l)[1] = call[t].arg
          /\ \A j \in 2..(Len(chain) + 1) : (<<call[t].arg>> \o l)[j] = l[j - 1]
      BY <3>2, <3>4, ConsSeq
    <3>6. ASSUME NEW j \in 1..Len(chain') PROVE Map(chain', val')[j] = (<<call[t].arg>> \o l)[j]
      <4>1. CASE j = 1
        BY <2>1, <2>3, <3>3, <3>5, <4>1
      <4>2. CASE j # 1
        <5>1. j \in 2..(Len(chain) + 1) /\ j - 1 \in 1..Len(chain)
          BY <2>4, <4>2
        <5>2. chain'[j] = chain[j - 1] /\ chain[j - 1] # n /\ chain[j - 1] \in Node
          BY <2>3, <2>5, <5>1
        <5>3. Map(chain', val')[j] = val[chain[j - 1]]
          BY <2>1, <3>3, <5>2
        <5>4. (<<call[t].arg>> \o l)[j] = l[j - 1] /\ l[j - 1] = val[chain[j - 1]]
          BY <3>2, <3>5, <5>1
        <5> QED  BY <5>3, <5>4
      <4> QED  BY <4>1, <4>2
    <3>7. Map(chain', val') = <<call[t].arg>> \o l
      BY <2>3, <3>3, <3>5, <3>6, SeqEqual
    <3>8. Dangling' <=> Dangling
      BY <1>1, <2>1 DEF Dangling
    <3> QED  BY <1>1, <3>1, <3>7, <3>8 DEF l, SeqList!PushFirst, SeqList!Return, Map, SeqCall, Dangling
  <2> QED  BY <2>3, <2>8, <2>9 DEF SeqStep, SeqList!Next
<1> QED  BY <1>3, <1>4 DEF push_first

\* The k-th node is taken out and freed.
LEMMA GoodWithout ==
  ASSUME Shape, Good, NEW t \in Thread, NEW r, Return(t, r), call[t] # NULL, call[t].op \notin Shared,
         NEW k \in 1..Len(chain), used' = used \ {chain[k]},
         chain' \in Seq(Node), Len(chain') = Len(chain) - 1,
         \A j \in 1..(Len(chain) - 1) : chain'[j] = IF j < k THEN chain[j] ELSE chain[j + 1],
         val' \in [Node -> Content \cup {Junk}],
         \A m \in Node : m # chain[k] => val'[m] = val[m],
         \A m \in Node : m # chain[k] /\ (k > 1 => m # chain[k - 1]) => next'[m] = next[m],
         k > 1 => next'[chain[k - 1]] = next[chain[k]] /\ head' = head,
         k = 1 => head' = IF Len(chain) = 1 THEN head' ELSE next[head],
         Len(chain) = 1 => head' \notin used'
  PROVE  /\ Good' /\ Map(chain', val') \in Seq(Content \cup {Junk}) /\ Len(Map(chain', val')) = Len(chain) - 1
         /\ \A j \in 1..(Len(chain) - 1) : Map(chain', val')[j] =
               IF j < k THEN Map(chain, val)[j] ELSE Map(chain, val)[j + 1]
<1> DEFINE p(j) == IF j < k THEN j ELSE j + 1
<1>1. /\ chain \in Seq(Node) /\ Len(chain) \in Nat /\ next[Last] = NULL
      /\ \A n \in used : \E j \in 1..Len(chain) : chain[j] = n
  BY AloneLinked
<1>2. \A j \in 1..(Len(chain) - 1) : p(j) \in 1..Len(chain) /\ p(j) # k /\ chain'[j] = chain[p(j)]
  BY <1>1
<1>3. \A j \in 1..(Len(chain) - 1) : chain[p(j)] # chain[k] /\ chain[p(j)] \in Node
  BY <1>1, <1>2 DEF Good, Linked
<1>4. \A j \in 1..Len(chain) : j # k => \E m \in 1..(Len(chain) - 1) : p(m) = j
  <2>1. ASSUME NEW j \in 1..Len(chain), j # k PROVE \E m \in 1..(Len(chain) - 1) : p(m) = j
    <3>1. CASE j < k
      <4>1. j \in 1..(Len(chain) - 1) /\ p(j) = j
        BY <1>1, <3>1
      <4> QED  BY <4>1
    <3>2. CASE j > k
      <4>1. j - 1 \in 1..(Len(chain) - 1) /\ p(j - 1) = j
        BY <1>1, <3>2
      <4> QED  BY <4>1
    <3> QED  BY <2>1, <3>1, <3>2
  <2> QED  BY <2>1
<1>5. Linked'
  <2>1. chain' = <<>> <=> head' \notin used'
    <3>1. chain' = <<>> <=> Len(chain) = 1
      BY <1>1
    <3>2. CASE Len(chain) # 1
      <4>1. Len(chain) > 1 /\ 2 \in 1..Len(chain) /\ 1 \in 1..Len(chain) /\ 1 \in 1..(Len(chain) - 1) /\ head = chain[1]
        BY <1>1, <3>2 DEF Good, Linked
      <4>2. chain[1] \in used /\ chain[2] \in used /\ chain[1] # chain[2] /\ next[chain[1]] = chain[2]
        BY <4>1 DEF Good, Linked
      <4>3. head' \in used'
        <5>1. CASE k = 1
          BY <3>2, <4>1, <4>2, <5>1
        <5>2. CASE k # 1
          <6>1. k > 1 /\ chain[1] # chain[k]
            BY <1>1, <4>1, <5>2 DEF Good, Linked
          <6> QED  BY <4>1, <4>2, <6>1
        <5> QED  BY <5>1, <5>2
      <4> QED  BY <3>1, <3>2, <4>3
    <3> QED  BY <3>1, <3>2
  <2>2. chain' # <<>> => head' = chain'[1]
    <3>1. CASE Len(chain) > 1
      <4>1. /\ 1 \in 1..(Len(chain) - 1) /\ head = chain[1] /\ next[chain[1]] = chain[2]
        BY <1>1, <3>1 DEF Good, Linked
      <4>2. CASE k = 1
        BY <3>1, <4>1, <4>2
      <4>3. CASE k # 1
        BY <3>1, <4>1, <4>3
      <4> QED  BY <4>2, <4>3
    <3>2. CASE Len(chain) =< 1
      BY <1>1, <3>2
    <3> QED  BY <1>1, <3>1, <3>2
  <2>3. \A j \in 1..Len(chain') : chain'[j] \in used' /\ val'[chain'[j]] # Junk
    BY <1>2, <1>3 DEF Good, Linked
  <2>4. \A j, l \in 1..Len(chain') : chain'[j] = chain'[l] => j = l
    <3>1. ASSUME NEW j \in 1..(Len(chain) - 1), NEW l \in 1..(Len(chain) - 1), chain'[j] = chain'[l] PROVE j = l
      <4>1. p(j) = p(l)
        BY <1>2, <3>1 DEF Good, Linked
      <4> QED  BY <1>1, <4>1
    <3> QED  BY <3>1
  <2>5. \A j \in 1..(Len(chain') - 1) : next'[chain'[j]] = chain'[j + 1]
    <3>1. ASSUME NEW j \in 1..(Len(chain') - 1) PROVE next'[chain'[j]] = chain'[j + 1]
      <4>0. j \in 1..(Len(chain) - 1) /\ j + 1 \in 1..(Len(chain) - 1)
        BY <1>1
      <4>1. CASE j = k - 1
        <5>1. /\ k > 1 /\ p(j) = k - 1 /\ p(j + 1) = k + 1 /\ k \in 1..(Len(chain) - 1)
          BY <1>1, <4>0, <4>1
        <5>2. next[chain[k]] = chain[k + 1]
          BY <5>1 DEF Good, Linked
        <5> QED  BY <1>2, <4>0, <5>1, <5>2
      <4>2. CASE j # k - 1
        <5>1. p(j + 1) = p(j) + 1 /\ p(j) \in 1..(Len(chain) - 1) /\ (k > 1 => p(j) # k - 1 /\ k - 1 \in 1..Len(chain))
          BY <1>1, <4>0, <4>2
        <5>2. next[chain[p(j)]] = chain[p(j) + 1] /\ (k > 1 => chain[p(j)] # chain[k - 1])
          BY <1>2, <4>0, <5>1 DEF Good, Linked
        <5> QED  BY <1>2, <1>3, <4>0, <5>1, <5>2
      <4> QED  BY <4>1, <4>2
    <3> QED  BY <3>1
  <2>6. chain' # <<>> => next'[Last'] = NULL
    <3>1. ASSUME chain' # <<>> PROVE next'[chain'[Len(chain) - 1]] = NULL
      <4>0. Len(chain) > 1 /\ Len(chain) - 1 \in 1..(Len(chain) - 1)
        BY <1>1, <3>1
      <4>1. CASE k = Len(chain)
        <5>1. p(Len(chain) - 1) = k - 1 /\ k > 1
          BY <1>1, <4>0, <4>1
        <5> QED  BY <1>1, <1>2, <4>0, <4>1, <5>1 DEF Last
      <4>2. CASE k # Len(chain)
        <5>1. p(Len(chain) - 1) = Len(chain) /\ (k > 1 => k - 1 \in 1..Len(chain) /\ k - 1 # Len(chain))
          BY <1>1, <4>0, <4>2
        <5>2. k > 1 => chain[Len(chain)] # chain[k - 1]
          BY <1>1, <5>1, <4>0 DEF Good, Linked
        <5> QED  BY <1>1, <1>2, <1>3, <4>0, <5>1, <5>2 DEF Last
      <4> QED  BY <4>1, <4>2
    <3> QED  BY <3>1 DEF Last
  <2> QED  BY <2>1, <2>2, <2>3, <2>4, <2>5, <2>6 DEF Linked
<1>6. \A n \in used' : \E j \in 1..Len(chain') : chain'[j] = n
  <2>1. ASSUME NEW n \in used' PROVE \E j \in 1..(Len(chain) - 1) : chain'[j] = n
    <3>1. PICK j \in 1..Len(chain) : chain[j] = n /\ j # k
      BY <1>1, <2>1
    <3>2. PICK m \in 1..(Len(chain) - 1) : p(m) = j
      BY <1>4, <3>1
    <3> QED  BY <1>2, <3>1, <3>2
  <2> QED  BY <2>1
<1>7. Good'
  BY <1>5, <1>6, GoodAlone
<1>8. /\ Map(chain', val') \in Seq(Content \cup {Junk}) /\ Len(Map(chain', val')) = Len(chain')
      /\ \A j \in 1..Len(chain') : Map(chain', val')[j] = val'[chain'[j]]
  BY ListOf
<1>9. ASSUME NEW j \in 1..(Len(chain) - 1)
      PROVE  Map(chain', val')[j] = IF j < k THEN Map(chain, val)[j] ELSE Map(chain, val)[j + 1]
  <2>1. Map(chain', val')[j] = val[chain[p(j)]]
    BY <1>2, <1>3, <1>8
  <2>2. Map(chain, val)[p(j)] = val[chain[p(j)]]
    BY <1>2, ListFacts DEF Shape
  <2> QED  BY <2>1, <2>2
<1> QED  BY <1>7, <1>8, <1>9

LEMMA GoodPop ==
  ASSUME Shape, Good, NEW t \in Thread, pop(t), ~contended
  PROVE  chain' \in Seq(Node) /\ Good' /\ SeqStep
<1> DEFINE l == Map(chain, val)
<1>1. /\ call[t] # NULL /\ call[t].op \notin Shared /\ ~Dangling
      /\ call[t].op = "pop" \/ (call[t].op = "remove_by_index" /\ call[t].arg = 0)
  BY DEF pop, In, Shared
<1>2. /\ pc[t] = "walk" /\ chain \in Seq(Node)
      /\ (head = NULL <=> chain = <<>>) /\ (chain = <<>> <=> l = <<>>) /\ (head # NULL => head = chain[1])
  BY <1>1, AloneFacts, EmptyList, ListAssumption DEF Shape, TypeOK, Good, Linked, Dangling
<1>3. CASE head = NULL /\ Return(t, Missing) /\ UNCHANGED heap
  <2>1. /\ SeqCall[t] = call[t] /\ SeqCall' = [SeqCall EXCEPT ![t] = NULL]
        /\ ret' = Missing /\ UNCHANGED <<status, contended>>
    BY <1>1, <1>2, <1>3, ReturnFacts
  <2>2. UNCHANGED <<chain, val, Dangling>> /\ Map(chain', val') = <<>>
    BY <1>2, <1>3 DEF heap, Dangling
  <2>3. SeqList!Pop(t)
    BY <1>1, <1>2, <1>3, <2>1, <2>2 DEF SeqList!Pop, SeqList!Return, Map, SeqCall, Dangling
  <2> QED  BY <1>2, <1>3, <2>2, <2>3, GoodReturn DEF SeqStep, SeqList!Next
<1>4. CASE /\ head # NULL /\ head' = next[head] /\ Free(head, next)
           /\ Return(t, val[head]) /\ NodesNow(Tail(chain))
  <2>1. /\ head \in used /\ head \in Node /\ chain # <<>> /\ 1 \in 1..Len(chain) /\ head = chain[1]
    BY <1>1, <1>2, <1>4 DEF Shape, TypeOK, Dangling
  <2>2. /\ used' = used \ {chain[1]} /\ head' = next[head]
        /\ \A m \in Node : m # chain[1] => next'[m] = next[m] /\ val'[m] = val[m]
        /\ val' \in [Node -> Content \cup {Junk}]
    BY <1>4, <2>1 DEF Shape, TypeOK, Free
  <2>3. chain' = Tail(chain)
    BY <1>4 DEF NodesNow
  <2>4. /\ chain' \in Seq(Node) /\ Len(chain') = Len(chain) - 1
        /\ \A j \in 1..(Len(chain) - 1) : chain'[j] = IF j < 1 THEN chain[j] ELSE chain[j + 1]
    BY <1>2, <2>1, <2>3, TailSeq
  <2>5. Len(chain) = 1 => head' = NULL /\ head' \notin used'
    BY <1>1, <2>1, <2>2, AloneLinked, ListAssumption DEF Last, Shape, TypeOK
  <2>6. head' = IF Len(chain) = 1 THEN head' ELSE next[head]
    BY <2>2
  <2>7. /\ Good' /\ Map(chain', val') \in Seq(Content \cup {Junk}) /\ Len(Map(chain', val')) = Len(chain) - 1
        /\ \A j \in 1..(Len(chain) - 1) : Map(chain', val')[j] = IF j < 1 THEN l[j] ELSE l[j + 1]
    <3>1. /\ \A m \in Node : m # chain[1] => val'[m] = val[m]
          /\ \A m \in Node : m # chain[1] /\ (1 > 1 => m # chain[1 - 1]) => next'[m] = next[m]
      BY <2>2
    <3>2. /\ 1 > 1 => next'[chain[1 - 1]] = next[chain[1]] /\ head' = head
          /\ 1 = 1 => head' = IF Len(chain) = 1 THEN head' ELSE next[head]
          /\ Len(chain) = 1 => head' \notin used'
      BY <2>5, <2>6
    <3> QED  BY <1>1, <1>4, <2>1, <2>2, <2>4, <3>1, <3>2, GoodWithout
  <2>8. /\ SeqCall[t] = call[t] /\ SeqCall' = [SeqCall EXCEPT ![t] = NULL]
        /\ ret' = val[head] /\ UNCHANGED <<status, contended>>
    BY <1>1, <1>2, <1>4, ReturnFacts
  <2>9. /\ l \in Seq(Content \cup {Junk}) /\ Len(l) = Len(chain) /\ l # <<>> /\ l[1] = val[head] /\ Head(l) = l[1]
    BY <1>2, <2>1, ListFacts DEF Shape
  <2> HIDE DEF l
  <2>10. Map(chain', val') = Tail(l)
    <3>1. /\ Tail(l) \in Seq(Content \cup {Junk}) /\ Len(Tail(l)) = Len(l) - 1
          /\ \A j \in 1..(Len(l) - 1) : Tail(l)[j] = l[j + 1]
      BY <2>9, TailSeq
    <3>2. \A j \in 1..(Len(chain) - 1) : Map(chain', val')[j] = Tail(l)[j]
      BY <2>7, <2>9, <3>1
    <3> QED  BY <2>7, <2>9, <3>1, <3>2, SeqEqual
  <2>11. ~Dangling'
    <3>1. CASE Len(chain) = 1
      BY <2>5, <3>1 DEF Dangling
    <3>2. CASE Len(chain) # 1
      <4>1. chain' # <<>>
        BY <2>1, <2>4, <3>2
      <4> QED  BY <2>7, <4>1 DEF Good, Linked, Dangling
    <3> QED  BY <3>1, <3>2
  <2>12. SeqList!Pop(t)
    BY <1>1, <2>8, <2>9, <2>10, <2>11 DEF l, SeqList!Pop, SeqList!Return, Map, SeqCall, Dangling
  <2> QED  BY <2>4, <2>7, <2>12 DEF SeqStep, SeqList!Next
<1> QED  BY <1>3, <1>4 DEF pop

\* The node behind c, the k-th, is taken out and freed.
LEMMA GoodUnlink ==
  ASSUME Shape, Good, NEW t \in Thread, call[t] # NULL, call[t].op \notin Shared, ~Dangling,
         NEW k \in 1..Len(chain), cur[t] = chain[k], next[cur[t]] # NULL,
         Free(next[cur[t]], [next EXCEPT ![cur[t]] = next[next[cur[t]]]]), Return(t, val[next[cur[t]]]),
         head' = head, chain' = Without(chain, k + 1)
  PROVE  /\ chain' \in Seq(Node) /\ Good' /\ k + 1 \in 1..Len(chain)
         /\ Map(chain', val') = SeqList!Without(Map(chain, val), k + 1)
         /\ val[next[cur[t]]] = Map(chain, val)[k + 1]
         /\ ~Dangling'
<1> DEFINE c == cur[t]
           n == next[c]
           l == Map(chain, val)
<1>1. /\ chain \in Seq(Node) /\ chain # <<>> /\ next[Last] = NULL /\ c \in Node /\ c \in used
  BY AloneLinked DEF Good, Linked
<1>2. k # Len(chain)
  BY <1>1 DEF Last
<1>3. k \in 1..(Len(chain) - 1) /\ k + 1 \in 1..Len(chain) /\ k + 1 > 1 /\ (k + 1) - 1 = k /\ Len(chain) > 1
  <2>1. Len(chain) \in Nat /\ k \in Int /\ 1 =< k /\ k =< Len(chain)
    BY <1>1
  <2>2. k < Len(chain)
    BY <1>2, <2>1
  <2>3. k \in 1..(Len(chain) - 1) /\ k + 1 \in 1..Len(chain)
    BY <2>1, <2>2
  <2>4. (k + 1) - 1 = k
    BY <2>1
  <2>5. k + 1 > 1
    BY <2>1
  <2>6. Len(chain) > 1
    BY <2>1, <2>2
  <2> QED  BY <2>3, <2>4, <2>5, <2>6
<1>4. n = chain[k + 1] /\ n \in Node /\ n # c
  BY <1>1, <1>3 DEF Good, Linked
<1>5. /\ used' = used \ {chain[k + 1]} /\ next'[c] = next[n]
      /\ \A m \in Node : m # n /\ m # c => next'[m] = next[m]
      /\ \A m \in Node : m # n => val'[m] = val[m]
      /\ val' \in [Node -> Content \cup {Junk}]
  BY <1>1, <1>4 DEF Free, Shape, TypeOK
<1>6. /\ chain' \in Seq(Node) /\ Len(chain') = Len(chain) - 1
      /\ \A j \in 1..(Len(chain) - 1) : chain'[j] = IF j < k + 1 THEN chain[j] ELSE chain[j + 1]
  BY <1>1, <1>3, WithoutSeq
<1>7. /\ Good' /\ Map(chain', val') \in Seq(Content \cup {Junk}) /\ Len(Map(chain', val')) = Len(chain) - 1
      /\ \A j \in 1..(Len(chain) - 1) : Map(chain', val')[j] = IF j < k + 1 THEN l[j] ELSE l[j + 1]
  <2>1. \A m \in Node : m # chain[k + 1] /\ (k + 1 > 1 => m # chain[(k + 1) - 1]) => next'[m] = next[m]
    BY <1>3, <1>4, <1>5
  <2>2. k + 1 > 1 => next'[chain[(k + 1) - 1]] = next[chain[k + 1]] /\ head' = head
    BY <1>3, <1>4, <1>5
  <2>3. /\ \A m \in Node : m # chain[k + 1] => val'[m] = val[m]
        /\ k + 1 = 1 => head' = IF Len(chain) = 1 THEN head' ELSE next[head]
        /\ Len(chain) = 1 => head' \notin used'
    BY <1>3, <1>4, <1>5
  <2> QED  BY <1>3, <1>5, <1>6, <2>1, <2>2, <2>3, GoodWithout
<1>8. l \in Seq(Content \cup {Junk}) /\ Len(l) = Len(chain) /\ l[k + 1] = val[n]
  BY <1>3, <1>4, ListFacts DEF Shape
<1>9. Map(chain', val') = Without(l, k + 1)
  <2> HIDE DEF l
  <2>1. /\ Without(l, k + 1) \in Seq(Content \cup {Junk}) /\ Len(Without(l, k + 1)) = Len(l) - 1
        /\ \A j \in 1..(Len(l) - 1) : Without(l, k + 1)[j] = IF j < k + 1 THEN l[j] ELSE l[j + 1]
    BY <1>3, <1>8, WithoutSeq
  <2>2. \A j \in 1..Len(Map(chain', val')) : Map(chain', val')[j] = Without(l, k + 1)[j]
    BY <1>7, <1>8, <2>1
  <2> QED  BY <1>7, <1>8, <2>1, <2>2, SeqEqual
<1>10. SeqList!Without(l, k + 1) = Without(l, k + 1)
  BY DEF SeqList!Without, Without
<1>11. ~Dangling'
  <2>1. chain' # <<>>
    BY <1>1, <1>3, <1>6
  <2> QED  BY <1>7, <2>1 DEF Good, Linked, Dangling
<1> QED  BY <1>3, <1>6, <1>7, <1>8, <1>9, <1>10, <1>11

LEMMA GoodRemoveLast ==
  ASSUME Shape, Good, NEW t \in Thread, remove_last(t), ~contended
  PROVE  chain' \in Seq(Node) /\ Good' /\ SeqStep
<1> DEFINE c == cur[t]
           l == Map(chain, val)
<1>1. /\ call[t] # NULL /\ call[t].op = "remove_last" /\ call[t].op \notin Shared /\ ~Dangling /\ Cursor(t)
  BY DEF remove_last, In, Shared, Good, Cursors
<1>2. /\ pc[t] = "walk" /\ chain \in Seq(Node) /\ (chain # <<>> => next[Last] = NULL)
      /\ (chain = <<>> <=> l = <<>>)
  BY <1>1, AloneFacts, AloneLinked, EmptyList
<1>3. CASE c = NULL /\ Stop("null")
  <2>1. l = <<>>
    BY <1>1, <1>3, EmptyList, ListAssumption DEF Cursor, Shape, TypeOK
  <2>2. chain' = chain
    BY <1>3 DEF Stop, heap
  <2> QED  BY <1>1, <1>2, <1>3, <2>1, <2>2, GoodStop, NullRefines
<1>4. ASSUME c # NULL
      PROVE  \E k \in 1..Len(chain) : c = chain[k] /\ (k = 1 \/ k < Len(chain))
  BY <1>1, <1>4 DEF Cursor
<1>5. CASE /\ c # NULL /\ c = head /\ next[c] = NULL /\ Free(c, next) /\ Return(t, val[c])
           /\ NodesNow(<<>>) /\ UNCHANGED head
  <2>1. /\ chain # <<>> /\ 1 \in 1..Len(chain) /\ head = chain[1] /\ head \in Node /\ head \in used
    BY <1>1, <1>2, <1>5 DEF Good, Linked, Dangling, Shape, TypeOK
  <2>2. Len(chain) > 1 => next[chain[1]] = chain[2] /\ chain[2] \in Node
    BY <1>2 DEF Good, Linked
  <2>3. Len(chain) = 1
    <3> DEFINE L == Len(chain)
    <3>1. L \in Nat /\ L >= 1
      BY <1>2, <2>1
    <3>2. ~(L > 1)
      BY <1>5, <2>1, <2>2, ListAssumption
    <3> HIDE DEF L
    <3>3. L = 1
      BY <3>1, <3>2
    <3> QED  BY <3>3 DEF L
  <2>4. /\ used' = used \ {chain[1]} /\ head' = head /\ val' \in [Node -> Content \cup {Junk}]
        /\ \A m \in Node : m # chain[1] => next'[m] = next[m] /\ val'[m] = val[m]
    BY <1>5, <2>1 DEF Free, Shape, TypeOK
  <2>5. chain' = <<>> /\ chain' \in Seq(Node) /\ Len(chain') = 0 /\ Len(chain') = Len(chain) - 1
    BY <1>5, <2>3 DEF NodesNow
  <2>6. head' \notin used' /\ head' # NULL /\ Dangling'
    BY <1>5, <2>1, <2>4 DEF Dangling
  <2>7. Linked' /\ \A n \in used' : \E j \in 1..Len(chain') : chain'[j] = n
    <3>1. Linked'
      BY <2>5, <2>6 DEF Linked
    <3>2. used' = {}
      BY <1>1, <1>2, <2>3, <2>4, AloneLinked
    <3> QED  BY <3>1, <3>2
  <2>8. Good'
    BY <1>1, <1>5, <2>7, GoodAlone
  <2>9. /\ SeqCall[t] = call[t] /\ SeqCall' = [SeqCall EXCEPT ![t] = NULL]
        /\ ret' = val[c] /\ UNCHANGED <<status, contended>>
    BY <1>1, <1>2, <1>5, ReturnFacts
  <2>10. l # <<>> /\ Len(l) = 1 /\ l[1] = val[c]
    BY <1>2, <1>5, <2>1, <2>3, ListFacts DEF Shape
  <2>11. Map(chain', val') = <<>>
    BY <2>5 DEF Map
  <2> HIDE DEF l
  <2>12. SeqList!Without(l, Len(l)) = <<>>
    BY <2>10 DEF SeqList!Without
  <2>13. Dangling' = (Len(l) = 1)
    BY <2>6, <2>10
  <2>14. SeqList!RemoveLast(t)
    BY <1>1, <2>9, <2>10, <2>11, <2>12, <2>13 DEF l, SeqList!RemoveLast, SeqList!Return, Map, SeqCall, Dangling
  <2> QED  BY <2>5, <2>8, <2>14 DEF SeqStep, SeqList!Next
<1>6. CASE c # NULL /\ next[c] # NULL /\ next[next[c]] # NULL /\ Advance(t) /\ UNCHANGED i
  <2>1. PICK k \in 1..Len(chain) : c = chain[k]
    BY <1>4, <1>6
  <2>2. k < Len(chain)
    BY <1>2, <1>6, <2>1 DEF Last
  <2>3. k \in 1..(Len(chain) - 1) /\ k + 1 \in 1..Len(chain)
    BY <1>2, <2>2
  <2>4. next[c] = chain[k + 1] /\ next[c] \in Node
    BY <1>2, <2>1, <2>3 DEF Good, Linked
  <2>5. k + 1 < Len(chain)
    BY <1>2, <1>6, <2>3, <2>4 DEF Last
  <2>6. cur'[t] = next[c] /\ UNCHANGED <<call, chain>>
    BY <1>6 DEF Advance, heap, Shape, TypeOK
  <2>7. Cursor(t)'
    BY <1>1, <2>3, <2>4, <2>5, <2>6, ListAssumption DEF Cursor
  <2>8. SeqStep
    BY <1>6, StutterRefines DEF Advance, heap, Dangling
  <2>9. Good'
    BY <1>1, <1>2, <1>6, <2>7, GoodAdvance
  <2> QED  BY <1>2, <2>6, <2>8, <2>9
<1>7. CASE /\ c # NULL /\ next[c] # NULL /\ next[next[c]] = NULL
           /\ Free(next[c], [next EXCEPT ![c] = NULL]) /\ Return(t, val[next[c]])
           /\ NodesNow(Without(chain, Len(chain))) /\ UNCHANGED head
  <2>1. PICK k \in 1..Len(chain) : c = chain[k]
    BY <1>4, <1>7
  <2>2. k < Len(chain)
    BY <1>2, <1>7, <2>1 DEF Last
  <2>3. k \in 1..(Len(chain) - 1) /\ k + 1 \in 1..Len(chain)
    BY <1>2, <2>2
  <2>4. next[c] = chain[k + 1]
    BY <2>1, <2>3 DEF Good, Linked
  <2>5. k + 1 < Len(chain) => next[next[c]] = chain[(k + 1) + 1] /\ chain[(k + 1) + 1] \in Node
    BY <1>2, <2>3, <2>4 DEF Good, Linked
  <2>6. k + 1 = Len(chain)
    BY <1>2, <1>7, <2>3, <2>5, ListAssumption
  <2>7. chain' = Without(chain, k + 1)
    BY <1>7, <2>6 DEF NodesNow
  <2>8. /\ chain' \in Seq(Node) /\ Good' /\ Map(chain', val') = SeqList!Without(l, k + 1)
        /\ val[next[c]] = l[k + 1] /\ ~Dangling'
    BY <1>1, <1>7, <2>1, <2>7, GoodUnlink
  <2>9. /\ SeqCall[t] = call[t] /\ SeqCall' = [SeqCall EXCEPT ![t] = NULL]
        /\ ret' = val[next[c]] /\ UNCHANGED <<status, contended>>
    BY <1>1, <1>2, <1>7, ReturnFacts
  <2>10. Len(l) = Len(chain) /\ l # <<>>
    BY <1>2, <2>3, ListFacts DEF Shape
  <2>11. Len(l) = k + 1 /\ Len(l) > 1
    BY <1>2, <2>3, <2>6, <2>10
  <2>12. Dangling' = (Len(l) = 1)
    <3>1. ~(Len(l) = 1)
      BY <2>11
    <3> QED  BY <2>8, <3>1, Zenon DEF Dangling
  <2> HIDE DEF l
  <2>13. SeqList!RemoveLast(t)
    BY <1>1, <2>8, <2>9, <2>10, <2>11, <2>12 DEF l, SeqList!RemoveLast, SeqList!Return, Map, SeqCall, Dangling
  <2> QED  BY <2>8, <2>13 DEF SeqStep, SeqList!Next
<1> QED  BY <1>3, <1>5, <1>6, <1>7 DEF remove_last

LEMMA GoodRemoveByIndex ==
  ASSUME Shape, Good, NEW t \in Thread, remove_by_index(t), ~contended
  PROVE  chain' \in Seq(Node) /\ Good' /\ SeqStep
<1> DEFINE c == cur[t]
           l == Map(chain, val)
           a == call[t].arg
           k == i[t] + 1
<1>1. /\ call[t] # NULL /\ call[t].op = "remove_by_index" /\ call[t].op \notin Shared /\ ~Dangling /\ Cursor(t)
      /\ a # 0 /\ a \in Int /\ i[t] \in Nat
  BY ArgContent DEF remove_by_index, In, Shared, Good, Cursors, Shape, TypeOK
<1>2. /\ pc[t] = "walk" /\ chain \in Seq(Node) /\ (chain # <<>> => next[Last] = NULL)
      /\ (chain = <<>> <=> l = <<>>) /\ Len(l) = Len(chain) /\ Len(chain) \in Nat
  BY <1>1, AloneFacts, AloneLinked, EmptyList, ListFacts DEF Shape
<1>3. CASE c = NULL /\ Stop("null")
  <2>1. l = <<>>
    BY <1>1, <1>3, EmptyList, ListAssumption DEF Cursor, Shape, TypeOK
  <2>2. chain' = chain
    BY <1>3 DEF Stop, heap
  <2> QED  BY <1>1, <1>2, <1>3, <2>1, <2>2, GoodStop, NullRefines
<1>4. ASSUME c # NULL
      PROVE  /\ k \in 1..Len(chain) /\ c = chain[k] /\ (i[t] = 0 \/ i[t] =< a - 1)
             /\ chain # <<>> /\ l # <<>> /\ c \in Node
             /\ next[c] = NULL <=> k = Len(chain)
             /\ next[c] # NULL => k + 1 \in 1..Len(chain) /\ next[c] = chain[k + 1] /\ next[c] \in Node
  <2>1. /\ k \in 1..Len(chain) /\ c = chain[k] /\ (i[t] = 0 \/ i[t] =< a - 1)
    BY <1>1, <1>4 DEF Cursor
  <2>2. chain # <<>> /\ l # <<>> /\ c \in Node
    BY <1>2, <2>1
  <2>3. k < Len(chain) => k + 1 \in 1..Len(chain) /\ next[c] = chain[k + 1] /\ next[c] \in Node
    <3>1. ASSUME k < Len(chain) PROVE k \in 1..(Len(chain) - 1) /\ k + 1 \in 1..Len(chain)
      BY <1>1, <1>2, <2>1, <3>1
    <3> HIDE DEF k
    <3> QED  BY <1>2, <2>1, <3>1 DEF Good, Linked
  <2>4. k = Len(chain) => next[c] = NULL
    BY <1>2, <2>1, <2>2 DEF Last
  <2> QED  BY <1>1, <1>2, <2>1, <2>2, <2>3, <2>4, ListAssumption
<1>5. CASE c # NULL /\ i[t] < a - 1 /\ next[c] = NULL /\ Return(t, Missing) /\ UNCHANGED heap
  <2>1. k = Len(chain) /\ l # <<>> /\ a > Len(l)
    BY <1>1, <1>2, <1>4, <1>5
  <2>2. /\ SeqCall[t] = call[t] /\ SeqCall' = [SeqCall EXCEPT ![t] = NULL]
        /\ ret' = Missing /\ UNCHANGED <<status, contended>>
    BY <1>1, <1>2, <1>5, ReturnFacts
  <2>3. UNCHANGED <<chain, val, Dangling>>
    BY <1>5 DEF heap, Dangling
  <2>4. ~(a < 1)
    BY <1>1, <1>5
  <2>5. SeqList!RemoveByIndex(t)
    BY <1>1, <2>1, <2>2, <2>3, <2>4 DEF SeqList!RemoveByIndex, SeqList!Return, Map, SeqCall, Dangling
  <2> QED  BY <1>2, <1>5, <2>3, <2>5, GoodReturn DEF SeqStep, SeqList!Next
<1>6. CASE c # NULL /\ i[t] < a - 1 /\ next[c] # NULL /\ Advance(t) /\ i' = [i EXCEPT ![t] = @ + 1]
  <2>1. /\ cur'[t] = next[c] /\ UNCHANGED <<call, chain>> /\ i'[t] = i[t] + 1
        /\ \A u \in Thread : u # t => i'[u] = i[u]
    BY <1>6 DEF Advance, heap, Shape, TypeOK
  <2>2. i[t] + 1 =< a - 1
    BY <1>1, <1>6
  <2>3. Cursor(t)'
    BY <1>1, <1>4, <1>6, <2>1, <2>2 DEF Cursor
  <2>4. SeqStep
    BY <1>6, StutterRefines DEF Advance, heap, Dangling
  <2>5. Good'
    BY <1>1, <1>2, <1>6, <2>1, <2>3, GoodAdvance
  <2> QED  BY <1>2, <2>1, <2>4, <2>5
<1>7. CASE c # NULL /\ i[t] >= a - 1 /\ next[c] = NULL /\ Stop("null")
  <2>1. k = Len(l) /\ k = (IF a < 1 THEN 1 ELSE a)
    BY <1>1, <1>2, <1>4, <1>7
  <2>2. chain' = chain
    BY <1>7 DEF Stop, heap
  <2> HIDE DEF k
  <2> QED  BY <1>1, <1>2, <1>7, <2>1, <2>2, GoodStop, NullRefines
<1>8. CASE /\ c # NULL /\ i[t] >= a - 1 /\ next[c] # NULL
           /\ Free(next[c], [next EXCEPT ![c] = next[next[c]]]) /\ Return(t, val[next[c]])
           /\ NodesNow(Without(chain, i[t] + 2)) /\ UNCHANGED head
  <2>1. k = (IF a < 1 THEN 1 ELSE a) /\ k + 1 = i[t] + 2
    BY <1>1, <1>2, <1>4, <1>8
  <2>2. chain' = Without(chain, k + 1)
    BY <1>8, <2>1 DEF NodesNow
  <2>3. /\ chain' \in Seq(Node) /\ Good' /\ k + 1 \in 1..Len(chain)
        /\ Map(chain', val') = SeqList!Without(l, k + 1)
        /\ val[next[c]] = l[k + 1] /\ ~Dangling'
    <3>1. k \in 1..Len(chain) /\ c = chain[k]
      BY <1>4, <1>8
    <3> HIDE DEF k
    <3> QED  BY <1>1, <1>8, <2>2, <3>1, GoodUnlink
  <2>4. /\ SeqCall[t] = call[t] /\ SeqCall' = [SeqCall EXCEPT ![t] = NULL]
        /\ ret' = val[next[c]] /\ UNCHANGED <<status, contended>>
    BY <1>1, <1>2, <1>8, ReturnFacts
  <2>5. l # <<>> /\ k < Len(l)
    BY <1>1, <1>2, <1>4, <1>8, <2>3
  <2>6. UNCHANGED Dangling
    BY <1>1, <2>3, Zenon DEF Dangling
  <2> HIDE DEF l, k
  <2>7. SeqList!RemoveByIndex(t)
    BY <1>1, <2>1, <2>3, <2>4, <2>5, <2>6 DEF l, SeqList!RemoveByIndex, SeqList!Return, Map, SeqCall, Dangling
  <2> QED  BY <2>3, <2>7 DEF SeqStep, SeqList!Next
<1> QED  BY <1>3, <1>5, <1>6, <1>7, <1>8 DEF remove_by_index

-----------------------------------------------------------------------------
(* The theorems *)

LEMMA Contended ==
  ASSUME TypeOK, NEW t \in Thread, Step(t)
  PROVE  contended' = contended
BY DEF Step, new_linked_list, exists_in_list, PushWalk, PushLink, PushFill, PushEnd, push_first, pop,
       remove_last, remove_by_index, UseFreed, Return, Stop, Advance, Goto

LEMMA StepGood ==
  ASSUME Shape, Good, ~contended, NEW t \in Thread, Step(t)
  PROVE  chain' \in Seq(Node) /\ Good' /\ SeqStep
<1>0. chain \in Seq(Node)
  BY DEF Shape, TypeOK
<1>1. CASE new_linked_list(t)
  BY <1>1, GoodNew
<1>2. CASE exists_in_list(t)
  BY <1>0, <1>2, GoodExists DEF exists_in_list, Stop, Advance, heap
<1>3. CASE PushWalk(t)
  BY <1>0, <1>3, GoodPushWalk DEF PushWalk, Stop, Advance, heap
<1>4. CASE PushLink(t)
  BY <1>0, <1>4, GoodPushLink DEF PushLink, Stop, heap
<1>5. CASE PushFill(t)
  BY <1>5, GoodPushFill
<1>6. CASE PushEnd(t)
  BY <1>0, <1>6, GoodPushEnd DEF PushEnd, Stop, heap
<1>7. CASE push_first(t)
  BY <1>7, GoodPushFirst
<1>8. CASE pop(t)
  BY <1>8, GoodPop
<1>9. CASE remove_last(t)
  BY <1>9, GoodRemoveLast
<1>10. CASE remove_by_index(t)
  BY <1>10, GoodRemoveByIndex
<1>11. CASE UseFreed(t)
  BY <1>0, <1>11, GoodStop, FreedRefines DEF UseFreed, Stop, heap
<1> QED  BY <1>1, <1>2, <1>3, <1>4, <1>5, <1>6, <1>7, <1>8, <1>9, <1>10, <1>11 DEF Step

LEMMA StepShape ==
  ASSUME Shape, NEW t \in Thread, Step(t), chain' \in Seq(Node)
  PROVE  Shape'
<1>1. CASE UseFreed(t)
  BY <1>1, ShapeStop DEF UseFreed
<1> QED  BY <1>1, ShapeNew, ShapeExists, ShapePushWalk, ShapePushLink, ShapePushFill, ShapePushEnd,
            ShapePushFirst, ShapePop, ShapeRemoveLast, ShapeRemoveByIndex DEF Step

LEMMA ContendedChain ==
  ASSUME Shape, contended, NEW t \in Thread, Step(t)
  PROVE  chain' \in Seq(Node)
<1>1. chain \in Seq(Node) /\ <<>> \in Seq(Node)
  BY DEF Shape, TypeOK
<1>2. \A c : NodesNow(c) => chain' \in Seq(Node)
  BY <1>1 DEF NodesNow
<1>3. UNCHANGED heap => chain' \in Seq(Node)
  BY <1>1 DEF heap
<1> QED  BY <1>1, <1>2, <1>3 DEF Step, new_linked_list, exists_in_list, PushWalk, PushLink, PushFill, PushEnd,
       push_first, pop, remove_last, remove_by_index, UseFreed, Stop, Advance

LEMMA Unpromised ==
  ASSUME contended'
  PROVE  SeqStep
BY DEF SeqStep, SeqList!Next, SeqList!Unpromised

LEMMA Inductive ==
  ASSUME IInv, [Next]_vars
  PROVE  IInv' /\ SeqStep
<1>1. CASE UNCHANGED vars
  <2>1. Stop(status)
    BY <1>1 DEF vars, Stop, heap, local
  <2>2. UNCHANGED <<head, next, val, used, chain, call, pc, cur, i, ret, status, contended>>
    BY <1>1 DEF vars, heap, local
  <2>3. Shape'
    <3>1. TypeOK' /\ Control' /\ Places' /\ Pointers' /\ Written'
      BY <2>2 DEF IInv, Shape, TypeOK, Control, Places, Pointers, Written, Reached, Dangling
    <3>2. Acyclic'
      BY <2>2 DEF IInv, Shape, Acyclic
    <3> QED  BY <3>1, <3>2 DEF Shape
  <2>4. SeqStep
    BY <2>2, StutterRefines DEF Dangling
  <2> QED  BY <2>1, <2>2, <2>3, <2>4, GoodStop DEF IInv
<1>2. ASSUME NEW t \in Thread, NEW c \in Call, Invoke(t, c) PROVE IInv' /\ SeqStep
  <2>1. Shape' /\ (~contended' => ~contended)
    BY <1>2, ShapeInvoke DEF IInv, Invoke
  <2> QED  BY <1>2, <2>1, GoodInvoke, InvokeRefines, Unpromised DEF IInv
<1>3. ASSUME NEW t \in Thread, Step(t) PROVE IInv' /\ SeqStep
  <2>1. contended' = contended
    BY <1>3, Contended DEF IInv, Shape
  <2>2. CASE contended
    BY <1>3, <2>1, <2>2, ContendedChain, StepShape, Unpromised DEF IInv
  <2>3. CASE ~contended
    BY <1>3, <2>1, <2>3, StepGood, StepShape DEF IInv
  <2> QED  BY <2>2, <2>3
<1> QED  BY <1>1, <1>2, <1>3 DEF Next

LEMMA Initial ==
  ASSUME Init
  PROVE  IInv /\ SeqList!Init
<1>1. IInv
  BY ShapeInit, GoodInit DEF IInv
<1>2. ~Dangling /\ Map(chain, val) = <<>> /\ SeqCall = [t \in Thread |-> NULL]
  BY DEF Init, Dangling, Map, SeqCall
<1>3. SeqList!Init
  BY <1>2 DEF Init, SeqList!Init, Map, SeqCall, Dangling
<1> QED  BY <1>1, <1>3

LEMMA Invariance == Spec => []IInv
<1>1. Init => IInv
  BY Initial
<1>2. IInv /\ [Next]_vars => IInv'
  BY Inductive
<1> QED  BY <1>1, <1>2, PTL DEF Spec

\* No step of linked_list.c, racing calls of push included, leads out of the
\* types: every pointer a walk follows is to a node or NULL.
THEOREM TypeCorrect == Spec => []TypeOK
<1>1. IInv => TypeOK
  BY DEF IInv, Shape
<1> QED  BY <1>1, Invariance, PTL

\* Racing calls of push may lose nodes, but leave a chain that ends.
THEOREM NoSharing == Spec => []Unshared
<1>1. IInv => Unshared
  <2> SUFFICES ASSUME IInv PROVE Unshared
    OBVIOUS
  <2>1. \A n \in used : next[n] \in Node => next[n] \in used \ {head}
    BY DEF IInv, Shape, Pointers
  <2>2. \A n, m \in used : next[n] = next[m] /\ next[n] \in Node => n = m
    BY DEF IInv, Shape, Pointers
  <2>3. ASSUME NEW n \in Node, n \in {head} \cup {next[m] : m \in used}, n \in used, Junk \in {next[n], val[n]}
        PROVE  \E t \in Thread : Filling(t) /\ next[cur[t]] = n
    <3>1. Reached(n) /\ (val[n] = Junk \/ next[n] = Junk)
      BY <2>3 DEF Reached
    <3>2. PICK t \in Thread : pc[t] \in {"fill", "end"} /\ next[cur[t]] = n
      BY <3>1 DEF IInv, Shape, Written
    <3> QED  BY <3>2 DEF IInv, Shape, Control, Filling
  <2> QED  BY <2>1, <2>2, <2>3 DEF Unshared
<1> QED  BY <1>1, Invariance, PTL

\* Nothing is lost or freed twice as long as calls of push do not overlap.
THEOREM NoLeak == Spec => []NothingLeaked
<1>1. IInv => NothingLeaked
  <2> SUFFICES ASSUME IInv, ~contended
               PROVE  used = {chain[k] : k \in 1..Len(chain)}
                               \cup {next[cur[t]] : t \in {u \in Thread : Filling(u) /\ pc[u] = "fill"}}
    BY DEF NothingLeaked
  <2>1. \A u \in Thread : Filling(u) /\ pc[u] = "fill" <=> pc[u] = "fill"
    BY DEF IInv, Shape, Control, Filling
  <2>2. \A k \in 1..Len(chain) : chain[k] \in used
    BY DEF IInv, Good, Linked
  <2>3. \A u \in Thread : pc[u] = "fill" => next[cur[u]] \in used
    BY DEF IInv, Good, Pushing, Shape, Places, Pointers
  <2>4. \A n \in used : (\E k \in 1..Len(chain) : chain[k] = n) \/ \E u \in Thread : pc[u] = "fill" /\ next[cur[u]] = n
    BY DEF IInv, Good, Pushing
  <2> QED  BY <2>1, <2>2, <2>3, <2>4
<1> QED  BY <1>1, Invariance, PTL

\* linked_list.c implements SequentialList.
THEOREM ListRefinement == Spec => ActsAsList
<1>1. Init => SeqList!Init
  BY Initial
<1>2. IInv /\ [Next]_vars => [SeqList!Next]_SeqList!vars
  BY Inductive DEF SeqStep
<1> QED  BY <1>1, <1>2, Invariance, PTL DEF Spec, ActsAsList, SeqList!Spec

===============================================================================
