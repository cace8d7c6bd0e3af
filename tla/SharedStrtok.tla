----------------------------- MODULE SharedStrtok -----------------------------
(***************************************************************************)
(* strtok in the listener, the route watcher and timeout_handler. Its place*)
(* in the text is kept in one static variable for the whole process.       *)
(*                                                                         *)
(* strtok(text, ..) stores the place behind the first token; strtok(NULL,  *)
(* ..) loads the place, finds the token there and stores the next place:   *)
(* two accesses, between which others run. As in NodeThreads, a handler is *)
(* a context of its own.                                                   *)
(*                                                                         *)
(* Abstraction: a text is its buffer, a place in it the number of tokens   *)
(* before it. A token that is not the one the caller means may be any, or  *)
(* NULL, which every caller uses as a string.                              *)
(***************************************************************************)
EXTENDS Naturals

CONSTANTS
  Listener, Watcher,  \* the two threads
  Handler,            \* the contexts in which timeout_handler can run
  None,               \* NULL
  MaxTexts            \* bound: lines, datagrams and expiries

Context == {Listener, Watcher} \cup Handler

ASSUME StrtokAssumption ==
  /\ Listener # Watcher /\ Listener \notin Handler /\ Watcher \notin Handler
  /\ MaxTexts \in Nat

\* The calls of strtok, function by function, and the calls that may follow each.
\* A new route is dst_addr, "via", next_hop, a removed one "Deleted", dst_addr.
\* Then /etc/hosts is searched, which may have no line while it is rewritten.
watch_routes ==
  [new1 |-> {"new2"}, new2 |-> {"new3"}, new3 |-> {"host1", "idle"},
   removed1 |-> {"removed2"}, removed2 |-> {"known1", "line1", "idle"}]

\* NREQ: the word, dst_addr. NREP: the word, dst_addr, name.
listen_for_nreqs ==
  [nreq1 |-> {"nreq2"}, nreq2 |-> {"host1", "idle"},
   nrep1 |-> {"nrep2"}, nrep2 |-> {"nrep3"}, nrep3 |-> {"host1", "idle"}]

\* The address and, where it is the one sought, the name of every line. The
\* search after a removal leads to remove_name if it fails; the other one may be
\* followed by that of cache_name, which does the same.
get_name_by_addr ==
  [host1 |-> {"host1", "host2", "idle"}, host2 |-> {"idle"},
   known1 |-> {"known1", "known2", "line1", "idle"}, known2 |-> {"idle"}]

remove_name == [line1 |-> {"line1", "idle"}]

\* The destination and, where it is the one sought, the next hop of every route.
route_exists == [route1 |-> {"route1", "route2", "idle"}, route2 |-> {"idle"}]

Call == DOMAIN watch_routes \cup DOMAIN listen_for_nreqs \cup DOMAIN get_name_by_addr
          \cup DOMAIN remove_name \cup DOMAIN route_exists

\* The text a call is about, and the number of the token it is meant to return.
TextOf(call) ==
  CASE call \in DOMAIN watch_routes -> "buf"
    [] call \in DOMAIN listen_for_nreqs -> "recv_buf"
    [] call \in DOMAIN get_name_by_addr -> "buff"
    [] call \in DOMAIN remove_name -> "line"
    [] call \in DOMAIN route_exists -> "buf_copy"

TokenOf(call) ==
  CASE call \in {"new3", "nrep3"} -> 3
    [] call \in {"new2", "removed2", "nreq2", "nrep2", "host2", "known2", "route2"} -> 2
    [] OTHER -> 1

\* Mutant: the name is looked up before the next hop is taken from the line.
FollowLookupFirst(call) ==
  CASE call = "new1" -> {"host1"}
    [] call = "host1" -> {"host1", "new2"}
    [] call = "new2" -> {"new3"}
    [] OTHER -> {"idle"}

\* Mutant: on an NREP the listener, too, calls remove_name, so as to replace the
\* name: now both threads rewrite /etc/hosts.
FollowReplaces(call) ==
  CASE call = "nrep1" -> {"nrep2"}
    [] call = "nrep2" -> {"nrep3"}
    [] call = "nrep3" -> {"line1"}
    [] call = "line1" -> {"line1", "host1", "idle"}
    [] OTHER -> {"idle"}

Follow(call) ==
  CASE call \in DOMAIN watch_routes -> watch_routes[call]
    [] call \in DOMAIN listen_for_nreqs -> listen_for_nreqs[call]
    [] call \in DOMAIN get_name_by_addr -> get_name_by_addr[call]
    [] call \in DOMAIN remove_name -> remove_name[call]
    [] call \in DOMAIN route_exists -> route_exists[call]

\* The first call for a line, a datagram or an expiry.
Begins(c) ==
  CASE c = Watcher -> {"new1", "removed1"}
    [] c = Listener -> {"nreq1", "nrep1"}
    [] OTHER -> {"route1"}

\* The calls in the functions that a context runs: only the watcher removes names,
\* and only the handler, which searches nothing else, looks for a route.
Own(c) ==
  CASE c = Watcher -> DOMAIN watch_routes \cup DOMAIN get_name_by_addr \cup DOMAIN remove_name
    [] c = Listener -> DOMAIN listen_for_nreqs \cup {"host1", "host2"}
    [] OTHER -> DOMAIN route_exists

VARIABLES
  at,        \* at[c]: the call c is about to make or in, or "idle"
  save,      \* the static variable: <<context, buffer, tokens before>>, or None
  loaded,    \* loaded[c]: what strtok(NULL, ..) in c has loaded, or None
  texts,     \* number of lines, datagrams and expiries
  status,    \* "running", or "null" when a NULL was used as a string
  intruded,  \* history: contexts that others' strtok ran into since the
             \* beginning of their text
  misread    \* history: contexts that got a wrong token of their text

vars == <<at, save, loaded, texts, status, intruded, misread>>

Buffer == {"buf", "recv_buf", "buff", "line", "buf_copy"}
Place == Context \X Buffer \X Nat

\* Besides types: each context stays in the functions it runs, and holds a place
\* only in a call that will use it.
TypeOK ==
  /\ at \in [Context -> Call \cup {"idle"}]
  /\ \A c \in Context : at[c] \in Own(c) \cup {"idle"}
  /\ save \in Place \cup {None}
  /\ loaded \in [Context -> Place \cup {None}]
  /\ \A c \in Context : loaded[c] # None => at[c] # "idle" /\ TokenOf(at[c]) > 1
  /\ texts \in 0..MaxTexts
  /\ status \in {"running", "null"}
  /\ intruded \subseteq Context /\ misread \subseteq Context

Init ==
  /\ at = [c \in Context |-> "idle"]
  /\ save = None
  /\ loaded = [c \in Context |-> None]
  /\ texts = 0
  /\ status = "running"
  /\ intruded = {} /\ misread = {}

-----------------------------------------------------------------------------

\* Those in the middle of a text, the last call for which is still to be made.
Amid(c) == at[c] # "idle" /\ TokenOf(at[c]) > 1

Begin(c) ==
  /\ status = "running"
  /\ at[c] = "idle" /\ texts < MaxTexts
  /\ \E call \in Begins(c) : at' = [at EXCEPT ![c] = call]
  /\ texts' = texts + 1
  /\ UNCHANGED <<save, loaded, status, intruded, misread>>

GoOn(c) == \E call \in Follow(at[c]) : at' = [at EXCEPT ![c] = call]

\* The others that are in the middle of a text will find the place changed.
Intrude(c) == intruded' = (intruded \cup {o \in Context : Amid(o)}) \ {c}

\* strtok(text, ..).
FirstToken(c) ==
  /\ status = "running"
  /\ at[c] # "idle" /\ TokenOf(at[c]) = 1
  /\ save' = <<c, TextOf(at[c]), 1>>
  /\ GoOn(c)
  /\ Intrude(c)
  /\ misread' = misread \ {c}
  /\ UNCHANGED <<loaded, texts, status>>

\* strtok(NULL, ..) loads ...
LoadPlace(c) ==
  /\ status = "running"
  /\ Amid(c) /\ loaded[c] = None
  /\ loaded' = [loaded EXCEPT ![c] = save]
  /\ UNCHANGED <<at, save, texts, status, intruded, misread>>

\* The place at which the token that c means begins.
OwnPlace(c) == <<c, TextOf(at[c]), TokenOf(at[c]) - 1>>

\* ... and stores the place behind the token it returns.
NextToken(c) ==
  LET p == loaded[c] IN
  /\ status = "running"
  /\ Amid(c) /\ p # None
  /\ save' = <<p[1], p[2], p[3] + 1>>
  /\ loaded' = [loaded EXCEPT ![c] = None]
  /\ GoOn(c)
  /\ intruded' = intruded \cup ({o \in Context : Amid(o)} \ {c})
  /\ \/ p = OwnPlace(c) /\ UNCHANGED <<misread, status>>
     \/ /\ p # OwnPlace(c)
        /\ misread' = misread \cup {c}
        /\ status' \in {"running", "null"}
  /\ UNCHANGED texts

Next == \E c \in Context : Begin(c) \/ FirstToken(c) \/ LoadPlace(c) \/ NextToken(c)

Spec == Init /\ [][Next]_vars

-----------------------------------------------------------------------------
(* Properties *)

\* No caller resumes a text after it has begun another one, in get_name_by_addr
\* or further on: a wrong token, and hence a wrong address, next hop or name or
\* a NULL, is read only by a context into whose text another context's strtok
\* came.
MisreadNeedsIntrusion == misread \subseteq intruded /\ (status = "null" => misread # {})

=============================================================================
