------------------------- MODULE SharedStrtok_proofs -------------------------
(***************************************************************************)
(* Proofs about SharedStrtok, for any number of handlers and texts.        *)
(***************************************************************************)
EXTENDS SharedStrtok, TLAPS

LEMMA CallsAre ==
  Call = {"new1", "new2", "new3", "removed1", "removed2", "nreq1", "nreq2",
          "nrep1", "nrep2", "nrep3", "host1", "host2", "known1", "known2",
          "line1", "route1", "route2"}
BY DEF Call, watch_routes, listen_for_nreqs, get_name_by_addr,
       remove_name, route_exists

\* Every call is about some token of a buffer.
LEMMA TokenFacts ==
  \A call \in Call : /\ TextOf(call) \in Buffer
                     /\ TokenOf(call) \in Nat \ {0}
<1>1. \A call \in Call : TextOf(call) \in Buffer
  BY DEF Call, TextOf, Buffer
<1>2. \A call \in Call : TokenOf(call) \in Nat \ {0}
  BY DEF TokenOf
<1>3. QED BY <1>1, <1>2

\* The call after one is about the next token of the same text, or the first of
\* another one: no text is resumed.
LEMMA FollowFacts ==
  /\ "idle" \notin Call
  /\ \A call \in Call : Follow(call) \subseteq Call \cup {"idle"}
  /\ \A call \in Call : \A next \in Follow(call) :
       next # "idle" =>
         \/ TokenOf(next) = 1
         \/ TextOf(next) = TextOf(call) /\ TokenOf(next) = TokenOf(call) + 1
  /\ \A c \in Context : Begins(c) \subseteq {call \in Call : TokenOf(call) = 1}
  /\ \A c \in Context : \A call \in Own(c) : Follow(call) \subseteq Own(c) \cup {"idle"}
  /\ \A c \in Context : Begins(c) \subseteq Own(c)
<1>a. /\ Follow("new1") = {"new2"} /\ Follow("new2") = {"new3"}
      /\ Follow("new3") = {"host1", "idle"}
      /\ Follow("removed1") = {"removed2"}
      /\ Follow("removed2") = {"known1", "line1", "idle"}
      /\ Follow("nreq1") = {"nreq2"} /\ Follow("nreq2") = {"host1", "idle"}
      /\ Follow("nrep1") = {"nrep2"} /\ Follow("nrep2") = {"nrep3"}
      /\ Follow("nrep3") = {"host1", "idle"}
  BY DEF Follow, watch_routes, listen_for_nreqs, get_name_by_addr, remove_name,
         route_exists
<1>b. /\ Follow("host1") = {"host1", "host2", "idle"} /\ Follow("host2") = {"idle"}
      /\ Follow("known1") = {"known1", "known2", "line1", "idle"}
      /\ Follow("known2") = {"idle"} /\ Follow("line1") = {"line1", "idle"}
      /\ Follow("route1") = {"route1", "route2", "idle"} /\ Follow("route2") = {"idle"}
  BY DEF Follow, watch_routes, listen_for_nreqs, get_name_by_addr, remove_name,
         route_exists
<1>c. /\ \A call \in {"new1", "new2", "new3", "removed1", "removed2"} : TextOf(call) = "buf"
      /\ \A call \in {"nreq1", "nreq2", "nrep1", "nrep2", "nrep3"} : TextOf(call) = "recv_buf"
      /\ \A call \in {"host1", "host2", "known1", "known2"} : TextOf(call) = "buff"
      /\ \A call \in {"route1", "route2"} : TextOf(call) = "buf_copy"
  BY DEF TextOf, watch_routes, listen_for_nreqs, get_name_by_addr, remove_name,
         route_exists
<1>1. \A call \in Call : Follow(call) \subseteq Call \cup {"idle"}
  BY CallsAre, <1>a, <1>b
<1>2. ASSUME NEW call \in Call, NEW next \in Follow(call), next # "idle"
      PROVE  \/ TokenOf(next) = 1
             \/ TextOf(next) = TextOf(call) /\ TokenOf(next) = TokenOf(call) + 1
  BY <1>2, CallsAre, <1>a, <1>b, <1>c DEF TokenOf
<1>3. \A c \in Context : Begins(c) \subseteq {call \in Call : TokenOf(call) = 1}
  BY CallsAre DEF Begins, TokenOf
<1>4. "idle" \notin Call
  BY CallsAre
<1>d. /\ Own(Watcher) = {"new1", "new2", "new3", "removed1", "removed2", "host1",
                          "host2", "known1", "known2", "line1"}
      /\ Own(Listener) = {"nreq1", "nreq2", "nrep1", "nrep2", "nrep3", "host1", "host2"}
      /\ \A c \in Handler : Own(c) = {"route1", "route2"}
  BY StrtokAssumption
     DEF Own, watch_routes, listen_for_nreqs, get_name_by_addr, remove_name, route_exists
<1>5. \A c \in Context : \A call \in Own(c) : Follow(call) \subseteq Own(c) \cup {"idle"}
  <2>1. \A call \in Own(Watcher) : Follow(call) \subseteq Own(Watcher) \cup {"idle"}
    BY <1>a, <1>b, <1>d
  <2>2. \A call \in Own(Listener) : Follow(call) \subseteq Own(Listener) \cup {"idle"}
    BY <1>a, <1>b, <1>d
  <2>3. \A c \in Handler : \A call \in Own(c) : Follow(call) \subseteq Own(c) \cup {"idle"}
    BY <1>b, <1>d
  <2>4. QED BY <2>1, <2>2, <2>3 DEF Context
<1>6. \A c \in Context : Begins(c) \subseteq Own(c)
  <2>1. Begins(Watcher) \subseteq Own(Watcher)
    BY <1>d DEF Begins
  <2>2. Begins(Listener) \subseteq Own(Listener)
    BY <1>d, StrtokAssumption DEF Begins
  <2>3. \A c \in Handler : Begins(c) \subseteq Own(c)
    BY <1>d, StrtokAssumption DEF Begins
  <2>4. QED BY <2>1, <2>2, <2>3 DEF Context
<1>7. QED BY <1>1, <1>2, <1>3, <1>4, <1>5, <1>6

-----------------------------------------------------------------------------
(* Types *)

LEMMA TypeStep ==
  ASSUME TypeOK, [Next]_vars
  PROVE  TypeOK'
<1> USE TokenFacts, FollowFacts DEF TypeOK, Place
<1> HIDE DEF Call, Buffer, Context, TextOf, TokenOf, Follow, Begins, Own
<1>1. ASSUME NEW c \in Context, Begin(c)
      PROVE  TypeOK'
  <2>1. PICK call \in Begins(c) : at' = [at EXCEPT ![c] = call]
    BY <1>1 DEF Begin
  <2>2. call \in Call /\ loaded[c] = None
    BY <1>1, <2>1 DEF Begin
  <2>3. texts' \in 0..MaxTexts
    BY <1>1, StrtokAssumption DEF Begin
  <2>4. \A o \in Context : at'[o] \in Own(o) \cup {"idle"}
    BY <2>1
  <2>5. QED BY <1>1, <2>1, <2>2, <2>3, <2>4 DEF Begin
<1>2. ASSUME NEW c \in Context, FirstToken(c)
      PROVE  TypeOK'
  <2>1. PICK call \in Follow(at[c]) : at' = [at EXCEPT ![c] = call]
    BY <1>2 DEF FirstToken, GoOn
  <2>2. at[c] \in Call /\ loaded[c] = None /\ call \in Call \cup {"idle"}
    BY <1>2, <2>1 DEF FirstToken
  <2>3. save' \in Place
    BY <1>2, <2>2 DEF FirstToken
  <2>4. /\ at' \in [Context -> Call \cup {"idle"}]
        /\ \A o \in Context : loaded'[o] # None => at'[o] # "idle" /\ TokenOf(at'[o]) > 1
    BY <1>2, <2>1, <2>2 DEF FirstToken
  <2>5. \A o \in Context : at'[o] \in Own(o) \cup {"idle"}
    BY <2>1, <2>2
  <2>6. QED BY <1>2, <2>3, <2>4, <2>5 DEF FirstToken, Intrude
<1>3. ASSUME NEW c \in Context, LoadPlace(c)
      PROVE  TypeOK'
  BY <1>3 DEF LoadPlace, Amid
<1>4. ASSUME NEW c \in Context, NextToken(c)
      PROVE  TypeOK'
  <2>1. PICK call \in Follow(at[c]) : at' = [at EXCEPT ![c] = call]
    BY <1>4 DEF NextToken, GoOn
  <2>2. at[c] \in Call /\ call \in Call \cup {"idle"} /\ loaded[c] \in Place
    BY <1>4, <2>1 DEF NextToken, Amid
  <2>3. save' \in Place
    BY <1>4, <2>2 DEF NextToken
  <2>4. /\ at' \in [Context -> Call \cup {"idle"}]
        /\ loaded' \in [Context -> Place \cup {None}]
        /\ \A o \in Context : loaded'[o] # None => at'[o] # "idle" /\ TokenOf(at'[o]) > 1
    BY <1>4, <2>1, <2>2 DEF NextToken
  <2>5. intruded' \subseteq Context /\ misread' \subseteq Context
    BY <1>4 DEF NextToken
  <2>6. status' \in {"running", "null"} /\ texts' \in 0..MaxTexts
    BY <1>4 DEF NextToken
  <2>7. \A o \in Context : at'[o] \in Own(o) \cup {"idle"}
    BY <2>1, <2>2
  <2>8. QED BY <2>3, <2>4, <2>5, <2>6, <2>7
<1>5. CASE UNCHANGED vars
  BY <1>5 DEF vars
<1>6. QED BY <1>1, <1>2, <1>3, <1>4, <1>5 DEF Next

\* Each context stays in the functions it runs, for any number of handlers and
\* texts, and a place is loaded only by a call that will use it.
THEOREM TypeCorrect == Spec => []TypeOK
<1>1. Init => TypeOK
  BY FollowFacts, StrtokAssumption DEF Init, TypeOK
<1>2. QED BY <1>1, TypeStep, PTL DEF Spec

-----------------------------------------------------------------------------
(* Intrusions *)

\* In the middle of a text that nobody has intruded upon, the static variable,
\* and what has been loaded from it, is the place of the next token.
PlaceKept ==
  \A c \in Context :
    Amid(c) /\ c \notin intruded =>
      save = OwnPlace(c) /\ loaded[c] \in {None, OwnPlace(c)}

\* Going on from a token to the next one of its text keeps the place right.
LEMMA NextPlace ==
  ASSUME TypeOK, NEW c \in Context, at[c] \in Call, GoOn(c), Amid(c)'
  PROVE  OwnPlace(c)' = <<c, TextOf(at[c]), TokenOf(at[c])>>
<1> HIDE DEF Call, Buffer, Context, TextOf, TokenOf, Follow, Begins, Own
<1>1. PICK call \in Follow(at[c]) : at' = [at EXCEPT ![c] = call]
  BY DEF GoOn
<1>2. at'[c] = call /\ call # "idle" /\ TokenOf(call) > 1
  BY <1>1 DEF Amid, TypeOK
<1>3. /\ TextOf(call) = TextOf(at[c])
      /\ TokenOf(call) = TokenOf(at[c]) + 1
  BY <1>2, FollowFacts
<1>4. TokenOf(call) - 1 = TokenOf(at[c])
  BY <1>3, TokenFacts
<1>5. QED BY <1>2, <1>3, <1>4 DEF OwnPlace

\* A context that another one does not intrude upon is as it was.
LEMMA OthersKept ==
  ASSUME TypeOK, PlaceKept, NEW c \in Context, NEW o \in Context, o # c,
         GoOn(c), loaded'[o] = loaded[o], Amid(o)', o \notin intruded',
         intruded' = (intruded \cup {x \in Context : Amid(x)}) \ {c}
           \/ intruded' = intruded \cup ({x \in Context : Amid(x)} \ {c})
  PROVE  FALSE
<1>1. at'[o] = at[o]
  BY DEF GoOn, TypeOK
<1>2. Amid(o)
  BY <1>1 DEF Amid
<1>3. QED BY <1>2

LEMMA IntrusionStep ==
  ASSUME TypeOK, PlaceKept, MisreadNeedsIntrusion, [Next]_vars
  PROVE  PlaceKept' /\ MisreadNeedsIntrusion'
<1> HIDE DEF Call, Buffer, Context, TextOf, TokenOf, Follow, Begins, Own
<1>1. ASSUME NEW c \in Context, Begin(c)
      PROVE  PlaceKept' /\ MisreadNeedsIntrusion'
  <2>1. PICK call \in Begins(c) : at' = [at EXCEPT ![c] = call]
    BY <1>1 DEF Begin
  <2>2. TokenOf(call) = 1
    BY <2>1, FollowFacts
  <2>3. ~Amid(c)'
    BY <2>1, <2>2 DEF Amid, TypeOK
  <2>4. \A o \in Context : o # c => at'[o] = at[o]
    BY <2>1 DEF TypeOK
  <2>5. PlaceKept'
    BY <1>1, <2>3, <2>4 DEF Begin, PlaceKept, Amid, OwnPlace
  <2>6. QED BY <1>1, <2>5 DEF Begin, MisreadNeedsIntrusion
<1>2. ASSUME NEW c \in Context, FirstToken(c)
      PROVE  PlaceKept' /\ MisreadNeedsIntrusion'
  <2>1. at[c] \in Call /\ TokenOf(at[c]) = 1 /\ GoOn(c)
    BY <1>2 DEF FirstToken, TypeOK
  <2>2. loaded[c] = None /\ UNCHANGED loaded
    BY <1>2, <2>1 DEF FirstToken, TypeOK
  <2>3. Amid(c)' => save' = OwnPlace(c)'
    BY <1>2, <2>1, NextPlace DEF FirstToken
  <2>4. PlaceKept'
    BY <1>2, <2>1, <2>2, <2>3, OthersKept DEF FirstToken, Intrude, PlaceKept
  <2>5. misread' \subseteq intruded'
    BY <1>2 DEF FirstToken, Intrude, MisreadNeedsIntrusion
  <2>6. status' = "running"
    BY <1>2 DEF FirstToken
  <2>7. QED BY <2>4, <2>5, <2>6 DEF MisreadNeedsIntrusion
<1>3. ASSUME NEW c \in Context, LoadPlace(c)
      PROVE  PlaceKept' /\ MisreadNeedsIntrusion'
  <2>1. \A o \in Context : loaded'[o] = IF o = c THEN save ELSE loaded[o]
    BY <1>3 DEF LoadPlace, TypeOK
  <2>2. PlaceKept'
    BY <1>3, <2>1 DEF LoadPlace, PlaceKept, Amid, OwnPlace
  <2>3. QED BY <1>3, <2>2 DEF LoadPlace, MisreadNeedsIntrusion
<1>4. ASSUME NEW c \in Context, NextToken(c)
      PROVE  PlaceKept' /\ MisreadNeedsIntrusion'
  <2> DEFINE p == loaded[c]
  <2>1. /\ Amid(c) /\ p # None /\ GoOn(c)
        /\ save' = <<p[1], p[2], p[3] + 1>>
        /\ intruded' = intruded \cup ({o \in Context : Amid(o)} \ {c})
    BY <1>4 DEF NextToken
  <2>2. at[c] \in Call /\ TokenOf(at[c]) \in Nat
    BY <2>1, TokenFacts DEF Amid, TypeOK
  <2>3. loaded' = [loaded EXCEPT ![c] = None]
    BY <1>4 DEF NextToken
  <2>4. loaded'[c] = None /\ \A o \in Context : o # c => loaded'[o] = loaded[o]
    BY <2>3 DEF TypeOK
  <2>5. ASSUME c \notin intruded', Amid(c)'
        PROVE  save' = OwnPlace(c)'
    <3>1. p = OwnPlace(c)
      BY <2>1, <2>5 DEF PlaceKept
    <3>2. save' = <<c, TextOf(at[c]), TokenOf(at[c])>>
      BY <2>1, <2>2, <3>1 DEF OwnPlace
    <3>3. QED BY <2>1, <2>2, <2>5, <3>2, NextPlace
  <2>6. PlaceKept'
    BY <2>1, <2>4, <2>5, OthersKept DEF PlaceKept
  <2>7. c \notin intruded => p = OwnPlace(c)
    BY <2>1 DEF PlaceKept
  <2>8. misread' \subseteq intruded'
    BY <1>4, <2>1, <2>7 DEF NextToken, MisreadNeedsIntrusion
  <2>9. status' = "null" => misread' # {}
    BY <1>4 DEF NextToken
  <2>10. QED BY <2>6, <2>8, <2>9 DEF MisreadNeedsIntrusion
<1>5. CASE UNCHANGED vars
  BY <1>5 DEF vars, PlaceKept, MisreadNeedsIntrusion, Amid, OwnPlace
<1>6. QED BY <1>1, <1>2, <1>3, <1>4, <1>5 DEF Next

\* For any number of handlers, a wrong token is read only by a context into
\* whose text another one came.
THEOREM MisreadsExplained == Spec => []MisreadNeedsIntrusion
<1>1. Init => PlaceKept /\ MisreadNeedsIntrusion
  BY DEF Init, PlaceKept, MisreadNeedsIntrusion, Amid
<1>2. QED BY <1>1, IntrusionStep, TypeCorrect, PTL DEF Spec

==============================================================================
