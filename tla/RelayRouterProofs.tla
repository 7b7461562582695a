--------------------------- MODULE RelayRouterProofs ---------------------------
(***************************************************************************)
(* The relay never keeps a pointer to a session that is gone, bridges only *)
(* connections of peers that expect each other, and has every client on    *)
(* its list as what it is, for any number of clients, calls, connections   *)
(* and faults.                                                             *)
(***************************************************************************)
EXTENDS RelayRouter, SequenceTheorems, TLAPS

\* The client's side: its control connection is one of its own, and an open
\* connection is for something: registering, a call, or taking one.
Purpose(e) ==
    \/ e.action = "control"
    \/ e.action = "dial" /\ e.call \in Calls /\ e.ticket = NoSlot
    \/ e.action = "accept" /\ e.call = NoCall /\ e.ticket \in Slots
ClientSide ==
    /\ \A c \in Clients : relay[c].slot # NoSlot =>
          LET s == relay[c].slot
          IN  Owner(s) = c /\ end[s].open /\ end[s].action = "control"
    /\ \A s \in Slots : end[s].open => Purpose(end[s])

\* What is on its way to the relay was written by the client that owns the
\* connection, and nothing is for a connection the relay has closed.
RequestsAreOwn ==
    \A s \in Slots :
        /\ ~ session[s].live => session[s] = Gone /\ up[s] = <<>>
        /\ \A n \in DOMAIN up[s] : up[s][n].peer = Owner(s)

\* A connection is used for one thing only: the control connection is only
\* registered on, and any other carries one request, which answers the only
\* challenge.
Registers1(s) == \A n \in DOMAIN up[s] : up[s][n].type = "register"
Unanswered(s) == up[s] = <<>> /\ s \notin waiting
SinglePurpose ==
    \A s \in Slots :
        /\ end[s].open /\ end[s].action = "control" => s \notin waiting /\ Registers1(s)
        /\ up[s] # <<>> => s \notin waiting
        /\ Registers1(s) \/ Len(up[s]) = 1
        /\ end[s].open /\ end[s].action # "control" =>
              \A n \in DOMAIN down[s] : down[s][n].type = "challenge" => n = 1 /\ Unanswered(s)

\* Tunnels come in pairs, and a control session belongs to the client of its
\* connection.
Pairs ==
    \A s \in Slots :
        /\ session[s].tunnel <=> session[s].paired # NoSlot
        /\ session[s].tunnel => session[session[s].paired].paired = s
        /\ session[s].control => session[s].peer = Owner(s)

IInv == TypeOK /\ ClientSide /\ RequestsAreOwn /\ SinglePurpose /\ Pairs /\ DirectoryIsSound
-----------------------------------------------------------------------------
(***************************************************************************)
(* Queues.                                                                 *)
(***************************************************************************)
\* What a queue holds after a message has been appended.
LEMMA Appended ==
    ASSUME NEW S, NEW q \in Seq(S), NEW m \in S
    PROVE  /\ Append(q, m) \in Seq(S) /\ Append(q, m) # <<>>
           /\ Len(Append(q, m)) = Len(q) + 1
           /\ \A n \in DOMAIN Append(q, m) :
                 \/ n \in DOMAIN q /\ Append(q, m)[n] = q[n]
                 \/ n = Len(q) + 1 /\ Append(q, m)[n] = m
OBVIOUS

\* What a queue holds after its first message has been taken.
LEMMA Taken ==
    ASSUME NEW S, NEW q \in Seq(S), q # <<>>
    PROVE  /\ Head(q) \in S /\ Head(q) = q[1] /\ 1 \in DOMAIN q
           /\ Tail(q) \in Seq(S) /\ Len(Tail(q)) = Len(q) - 1
           /\ Len(q) = 1 => Tail(q) = <<>>
           /\ \A n \in DOMAIN Tail(q) : n \in Nat \ {0} /\ n + 1 \in DOMAIN q /\ Tail(q)[n] = q[n + 1]
<1>1. Len(q) \in Nat \ {0} /\ DOMAIN q = 1 .. Len(q) OBVIOUS
<1>2. Head(q) \in S /\ Head(q) = q[1] BY <1>1
<1>3. Tail(q) \in Seq(S) /\ Len(Tail(q)) = Len(q) - 1 BY <1>1
<1>4. \A n \in 1 .. Len(q) - 1 : Tail(q)[n] = q[n + 1] BY <1>1
<1>5. DOMAIN Tail(q) = 1 .. Len(q) - 1 BY <1>1, <1>3
<1>6. ASSUME Len(q) = 1 PROVE Tail(q) = <<>>
  <2>1. Len(Tail(q)) = 0 BY <1>3, <1>6
  <2>2. Tail(q) # <<>> => Len(Tail(q)) \in Nat \ {0} BY <1>3, EmptySeq, Zenon
  <2> QED BY <2>1, <2>2
<1> QED BY <1>1, <1>2, <1>3, <1>4, <1>5, <1>6

LEMMA SlotsOwned == \A s \in Slots : Owner(s) \in Clients /\ s # NoSlot
BY SlotAssumption DEF Slots, Owner

LEMMA FreeSlotIsFree ==
    ASSUME NEW c, FreeSlots(c) # {}
    PROVE  /\ FreeSlot(c) \in Slots /\ Owner(FreeSlot(c)) = c /\ ~ end[FreeSlot(c)].open
           /\ ~ session[FreeSlot(c)].live /\ FreeSlot(c) \notin waiting
<1>1. FreeSlot(c) \in FreeSlots(c) BY DEF FreeSlot
<1> QED BY <1>1 DEF FreeSlots, Free
-----------------------------------------------------------------------------
(***************************************************************************)
(* The initial states.                                                     *)
(***************************************************************************)
LEMMA InitIInv == Init => IInv
<1> SUFFICES ASSUME Init PROVE IInv OBVIOUS
<1> USE SlotsOwned DEF Init
<1>1. TypeOK BY RelayAssumption DEF TypeOK, Closed, Gone, Offline, NoCall
<1>2. ClientSide BY DEF ClientSide, Closed, Offline
<1>3. RequestsAreOwn BY DEF RequestsAreOwn, Gone
<1>4. SinglePurpose BY DEF SinglePurpose, Registers1, Unanswered, Closed
<1>5. Pairs BY DEF Pairs, Gone
<1>6. DirectoryIsSound BY DEF DirectoryIsSound, Gone, Live
<1> QED BY <1>1, <1>2, <1>3, <1>4, <1>5, <1>6 DEF IInv
-----------------------------------------------------------------------------
(***************************************************************************)
(* Closing and opening.                                                    *)
(***************************************************************************)
\* What every use of Drop does: the session and its pair go, with whatever
\* pointed at them.
All(s) == {s, session[s].paired} \ {NoSlot}
Dropped(s) ==
    /\ s \in Live
    /\ session' = [x \in Slots |-> IF x \in All(s) THEN Gone ELSE session[x]]
    /\ registered' = [p \in Peers |->
          IF \E x \in All(s) : session[x].peer = p /\ registered[p] = x
          THEN NoSlot ELSE registered[p]]
    /\ waiting' \subseteq waiting \ All(s)
    /\ up' = [x \in Slots |-> IF x \in All(s) THEN <<>> ELSE up[x]]
    /\ cut' \subseteq cut
    /\ down' \in {down, ToClient(down, s, Unavailable)}
    /\ UNCHANGED <<end, relay, member>>

\* A session that goes takes every pointer at it along.
LEMMA DroppedKeeps == ASSUME IInv, NEW s \in Slots, Dropped(s) PROVE IInv'
<1> USE SlotsOwned DEF IInv
<1>1. /\ session[s].live /\ All(s) \subseteq Slots /\ s \in All(s)
      /\ \A x \in Slots : session[x].tunnel /\ session[x].paired \in All(s) => x \in All(s)
  BY DEF Dropped, Live, TypeOK, All, Pairs
<1>2. TypeOK'
  <2>1. session' \in [Slots -> [live : BOOLEAN, peer : Peers \cup {NoPeer}, control : BOOLEAN,
                              listed : BOOLEAN, tunnel : BOOLEAN, paired : Slots \cup {NoSlot}]]
    BY DEF TypeOK, Dropped, Gone
  <2>2. up' \in [Slots -> Seq(Requests)] BY DEF TypeOK, Dropped
  <2>3. down' \in [Slots -> Seq(Answers)]
    <3>1. Unavailable \in Answers BY DEF Unavailable, Answers
    <3>2. Append(down[s], Unavailable) \in Seq(Answers) BY <3>1, Appended DEF TypeOK
    <3> QED BY <3>2 DEF TypeOK, Dropped, ToClient
  <2>4. registered' \in [Peers -> Slots \cup {NoSlot}] BY DEF TypeOK, Dropped
  <2> QED BY <2>1, <2>2, <2>3, <2>4 DEF TypeOK, Dropped
<1>3. ClientSide' BY DEF ClientSide, Dropped
<1>4. RequestsAreOwn'
  <2> SUFFICES ASSUME NEW x \in Slots
               PROVE  /\ ~ session'[x].live => session'[x] = Gone /\ up'[x] = <<>>
                      /\ \A n \in DOMAIN up'[x] : up'[x][n].peer = Owner(x)
    BY DEF RequestsAreOwn
  <2>1. CASE x \in All(s)
    <3>1. session'[x] = Gone /\ up'[x] = <<>> BY <2>1 DEF Dropped
    <3> QED BY <3>1
  <2>2. CASE x \notin All(s)
    <3>1. session'[x] = session[x] /\ up'[x] = up[x] BY <2>2 DEF Dropped
    <3> QED BY <3>1 DEF RequestsAreOwn
  <2> QED BY <2>1, <2>2
<1>5. SinglePurpose'
  <2> SUFFICES ASSUME NEW x \in Slots
               PROVE  /\ end[x].open /\ end[x].action = "control" => x \notin waiting' /\ Registers1(x)'
                      /\ up'[x] # <<>> => x \notin waiting'
                      /\ Registers1(x)' \/ Len(up'[x]) = 1
                      /\ end[x].open /\ end[x].action # "control" =>
                            \A n \in DOMAIN down'[x] :
                                down'[x][n].type = "challenge" => n = 1 /\ Unanswered(x)'
    BY DEF SinglePurpose, Dropped
  <2>1. /\ up'[x] \in {<<>>, up[x]}
        /\ x \in waiting' => x \in waiting
    BY DEF Dropped
  <2>2. Registers1(x) => Registers1(x)' BY <2>1 DEF Registers1
  <2>3. Registers1(x)' \/ Len(up'[x]) = 1 BY <2>1, <2>2 DEF SinglePurpose, Registers1
  <2>4. Unanswered(x) => Unanswered(x)' BY <2>1 DEF Unanswered
  <2>5. \A n \in DOMAIN down'[x] : down'[x][n].type = "challenge" =>
            n \in DOMAIN down[x] /\ down[x][n].type = "challenge"
    <3>1. Unavailable \in Answers /\ Unavailable.type # "challenge" BY DEF Unavailable, Answers
    <3>2. CASE down'[x] = down[x] BY <3>2
    <3>3. CASE down'[x] = Append(down[x], Unavailable)
      BY <3>1, <3>3, Appended DEF TypeOK
    <3> QED BY <3>2, <3>3 DEF Dropped, ToClient, TypeOK
  <2> QED BY <2>1, <2>2, <2>3, <2>4, <2>5 DEF SinglePurpose
<1>6. Pairs' BY <1>1 DEF Pairs, Dropped, Gone, TypeOK
<1>7. DirectoryIsSound'
  <2>1. \A p \in Peers : registered'[p] # NoSlot =>
            registered'[p] = registered[p] /\ registered[p] \notin All(s) /\ registered[p] \in Slots
    BY DEF Dropped, DirectoryIsSound, TypeOK
  <2>2. \A x \in Slots : session'[x].live /\ session'[x].control =>
            x \notin All(s) /\ registered'[session[x].peer] = x
    <3> SUFFICES ASSUME NEW x \in Slots, session'[x].live, session'[x].control
                 PROVE  x \notin All(s) /\ registered'[session[x].peer] = x
      OBVIOUS
    <3>1. x \notin All(s) /\ session[x].live /\ session[x].control BY DEF Dropped, Gone
    <3>2. registered[session[x].peer] = x /\ session[x].peer \in Peers
      BY <3>1, RelayAssumption DEF DirectoryIsSound, Live, Pairs
    <3> QED BY <3>1, <3>2 DEF Dropped
  <2>3. \A x \in waiting' : session'[x] = session[x] /\ x \in waiting
    BY DEF Dropped, TypeOK
  <2>4. \A x \in Slots : session'[x].tunnel => session'[session'[x].paired].paired = x
    BY <1>6 DEF Pairs
  <2> QED BY <2>1, <2>2, <2>3, <2>4 DEF DirectoryIsSound, Dropped, Live
<1> QED BY <1>2, <1>3, <1>4, <1>5, <1>6, <1>7
\* What every use of ClientCloses does.
Closes(S) ==
    /\ end' = [s \in Slots |-> IF s \in S THEN Closed ELSE end[s]]
    /\ relay' = [c \in Clients |-> IF relay[c].slot \in S THEN Offline ELSE relay[c]]
    /\ down' = [s \in Slots |-> IF s \in S THEN <<>> ELSE down[s]]
    /\ cut' \subseteq cut
    /\ UNCHANGED <<session, up, registered, waiting, member>>

\* A connection the client closes is no longer its control connection.
LEMMA ClosesKeeps == ASSUME IInv, NEW S \in SUBSET Slots, Closes(S) PROVE IInv'
<1> USE SlotsOwned DEF IInv
<1>1. TypeOK'
  <2>1. end' \in [Slots -> [open : BOOLEAN, action : {"none", "control", "dial", "accept"},
                          call : Calls \cup {NoCall}, expected : Peers \cup {NoPeer},
                          ticket : Slots \cup {NoSlot}, tls : BOOLEAN]]
    BY DEF TypeOK, Closes, Closed
  <2>2. down' \in [Slots -> Seq(Answers)] BY DEF TypeOK, Closes
  <2>3. relay' \in [Clients -> [slot : Slots \cup {NoSlot}, nonce : Slots \cup {NoSlot},
                              registered : BOOLEAN]]
    BY DEF TypeOK, Closes, Offline
  <2>4. \A c \in Clients : relay'[c].nonce \in {NoSlot, relay'[c].slot}
    BY DEF TypeOK, Closes, Offline
  <2> QED BY <2>1, <2>2, <2>3, <2>4 DEF TypeOK, Closes
<1>2. ClientSide'
  <2>1. \A x \in Slots : end'[x].open => end'[x] = end[x] BY DEF Closes, Closed
  <2>2. \A c \in Clients : relay'[c].slot # NoSlot =>
            relay'[c] = relay[c] /\ relay[c].slot \in Slots \ S
    BY DEF Closes, Offline, TypeOK
  <2>3. \A x \in Slots \ S : end'[x] = end[x] BY DEF Closes
  <2> QED BY <2>1, <2>2, <2>3 DEF ClientSide
<1>3. RequestsAreOwn' BY DEF RequestsAreOwn, Closes
<1>4. SinglePurpose'
  <2>1. \A x \in Slots : end'[x].open => end'[x] = end[x] /\ down'[x] = down[x]
    BY DEF Closes, Closed
  <2> QED BY <2>1 DEF SinglePurpose, Closes, Registers1, Unanswered
<1>5. Pairs' BY DEF Pairs, Closes
<1>6. DirectoryIsSound' BY DEF DirectoryIsSound, Closes, Live
<1> QED BY <1>1, <1>2, <1>3, <1>4, <1>5, <1>6

\* What every use of Open does: a connection of its own for one purpose, and at
\* most a message taken off a control connection.
Opened(s, e) ==
    /\ ~ end[s].open /\ ~ session[s].live /\ s \notin waiting
    /\ e.open /\ Purpose(e)
    /\ end' = [end EXCEPT ![s] = e]
    /\ \E adopted \in BOOLEAN : session' = [session EXCEPT ![s].live = adopted]
    /\ down' \in [Slots -> Seq(Answers)] /\ down'[s] \in {<<>>, <<Challenge>>}
    /\ \A x \in Slots \ {s} :
          down'[x] = down[x] \/ (end[x].open /\ end[x].action = "control")
    /\ UNCHANGED <<up, cut, registered, waiting, member>>

Ends == [open : BOOLEAN, action : {"none", "control", "dial", "accept"},
         call : Calls \cup {NoCall}, expected : Peers \cup {NoPeer},
         ticket : Slots \cup {NoSlot}, tls : BOOLEAN]

\* A new connection starts blank at the relay, which challenges it once.
LEMMA OpenedKeeps ==
    ASSUME IInv, NEW s \in Slots, NEW e \in Ends, Opened(s, e),
           \/ e.action # "control" /\ UNCHANGED relay
           \/ /\ e.action = "control" /\ relay[Owner(s)].slot = NoSlot
              /\ relay' = [relay EXCEPT ![Owner(s)].slot = s]
    PROVE  IInv'
<1> USE SlotsOwned DEF IInv
<1>a. PICK adopted \in BOOLEAN : session' = [session EXCEPT ![s].live = adopted] BY DEF Opened
<1>b. session[s] = Gone /\ up[s] = <<>> BY DEF Opened, RequestsAreOwn
<1>c. session'[s] = [Gone EXCEPT !.live = adopted] BY <1>a, <1>b DEF TypeOK
<1>d. \A x \in Slots \ {s} : session'[x] = session[x] BY <1>a DEF TypeOK
<1>e. /\ \A c \in Clients : c # Owner(s) => relay'[c] = relay[c]
      /\ \/ relay'[Owner(s)] = relay[Owner(s)]
         \/ /\ relay'[Owner(s)] = [relay[Owner(s)] EXCEPT !.slot = s]
            /\ relay[Owner(s)].slot = NoSlot /\ e.action = "control"
  BY DEF TypeOK
<1>1. TypeOK'
  <2>1. end' \in [Slots -> Ends] BY DEF TypeOK, Opened, Ends
  <2>2. session' \in [Slots -> [live : BOOLEAN, peer : Peers \cup {NoPeer}, control : BOOLEAN,
                              listed : BOOLEAN, tunnel : BOOLEAN, paired : Slots \cup {NoSlot}]]
    <3>1. session'[s] \in [live : BOOLEAN, peer : Peers \cup {NoPeer}, control : BOOLEAN,
                           listed : BOOLEAN, tunnel : BOOLEAN, paired : Slots \cup {NoSlot}]
      <4>1. CASE adopted = TRUE BY <4>1, <1>c DEF Gone
      <4>2. CASE adopted = FALSE BY <4>2, <1>c DEF Gone
      <4> QED BY <4>1, <4>2
    <3>2. session' = [x \in Slots |-> session'[x]] BY <1>a DEF TypeOK
    <3> QED BY <1>d, <3>1, <3>2 DEF TypeOK
  <2>3. relay' \in [Clients -> [slot : Slots \cup {NoSlot}, nonce : Slots \cup {NoSlot},
                              registered : BOOLEAN]]
    <3>1. CASE UNCHANGED relay BY <3>1 DEF TypeOK
    <3>2. CASE relay' = [relay EXCEPT ![Owner(s)].slot = s]
      <4>1. [relay[Owner(s)] EXCEPT !.slot = s] \in
                [slot : Slots \cup {NoSlot}, nonce : Slots \cup {NoSlot}, registered : BOOLEAN]
        <5>1. \A r \in [slot : Slots \cup {NoSlot}, nonce : Slots \cup {NoSlot}, registered : BOOLEAN] :
                 [r EXCEPT !.slot = s] \in
                     [slot : Slots \cup {NoSlot}, nonce : Slots \cup {NoSlot}, registered : BOOLEAN]
          OBVIOUS
        <5> QED BY <5>1 DEF TypeOK
      <4>2. relay' = [relay EXCEPT ![Owner(s)] = [relay[Owner(s)] EXCEPT !.slot = s]] BY <3>2
      <4> QED BY <4>1, <4>2 DEF TypeOK
    <3> QED BY <3>1, <3>2
  <2>4. \A c \in Clients : relay'[c].nonce \in {NoSlot, relay'[c].slot}
    <3> SUFFICES ASSUME NEW c \in Clients PROVE relay'[c].nonce \in {NoSlot, relay'[c].slot}
      OBVIOUS
    <3>1. relay[c].nonce \in {NoSlot, relay[c].slot} BY DEF TypeOK
    <3>2. CASE relay'[c] = relay[c] BY <3>1, <3>2
    <3>3. CASE relay'[c] = [relay[c] EXCEPT !.slot = s] /\ relay[c].slot = NoSlot
      <4>1. relay'[c].nonce = relay[c].nonce BY <3>3 DEF TypeOK
      <4> QED BY <3>1, <3>3, <4>1
    <3> QED BY <1>e, <3>2, <3>3
  <2> QED BY <2>1, <2>2, <2>3, <2>4 DEF TypeOK, Opened, Ends
<1>2. ClientSide'
  <2>1. end'[s] = e /\ \A x \in Slots \ {s} : end'[x] = end[x] BY DEF Opened, TypeOK
  <2>2. e.open /\ Purpose(e) /\ ~ end[s].open BY DEF Opened
  <2>3. \A x \in Slots : end'[x].open => Purpose(end'[x]) BY <2>1, <2>2 DEF ClientSide
  <2>4. ASSUME NEW c \in Clients, relay'[c].slot # NoSlot
        PROVE  LET x == relay'[c].slot
               IN  Owner(x) = c /\ end'[x].open /\ end'[x].action = "control"
    <3>1. CASE relay'[c] = relay[c]
      <4>1. LET x == relay[c].slot
            IN  x \in Slots \ {s} /\ Owner(x) = c /\ end[x].open /\ end[x].action = "control"
        BY <2>2, <2>4, <3>1 DEF ClientSide, TypeOK
      <4> QED BY <2>1, <3>1, <4>1
    <3>2. CASE /\ c = Owner(s) /\ relay'[c] = [relay[c] EXCEPT !.slot = s]
               /\ e.action = "control"
      <4>1. relay'[c].slot = s BY <3>2 DEF TypeOK
      <4> QED BY <2>1, <2>2, <3>2, <4>1
    <3> QED BY <1>e, <3>1, <3>2
  <2> QED BY <2>3, <2>4 DEF ClientSide
<1>3. RequestsAreOwn'
  <2>1. ~ session'[s].live => session'[s] = Gone BY <1>c DEF Gone
  <2> QED BY <1>b, <1>d, <2>1 DEF RequestsAreOwn, Opened
<1>4. SinglePurpose'
  <2> SUFFICES ASSUME NEW x \in Slots
               PROVE  /\ end'[x].open /\ end'[x].action = "control" => x \notin waiting /\ Registers1(x)
                      /\ up[x] # <<>> => x \notin waiting
                      /\ Registers1(x) \/ Len(up[x]) = 1
                      /\ end'[x].open /\ end'[x].action # "control" =>
                            \A n \in DOMAIN down'[x] :
                                down'[x][n].type = "challenge" => n = 1 /\ Unanswered(x)
    BY DEF SinglePurpose, Opened, Registers1, Unanswered
  <2>1. CASE x = s
    <3>1. s \notin waiting /\ Registers1(s) /\ Unanswered(s)
      BY <1>b DEF Opened, Registers1, Unanswered
    <3>2. \A n \in DOMAIN down'[s] : n = 1 BY DEF Opened
    <3> QED BY <2>1, <3>1, <3>2 DEF SinglePurpose
  <2>2. CASE x # s
    <3>1. end'[x] = end[x] /\ (down'[x] = down[x] \/ (end[x].open /\ end[x].action = "control"))
      BY <2>2 DEF Opened, TypeOK
    <3> QED BY <3>1 DEF SinglePurpose
  <2> QED BY <2>1, <2>2
<1>5. Pairs'
  <2>1. \A x \in Slots : /\ session'[x].tunnel = session[x].tunnel
                         /\ session'[x].paired = session[x].paired
                         /\ session'[x].control = session[x].control
                         /\ session'[x].peer = session[x].peer
    BY <1>a DEF TypeOK
  <2> QED BY <2>1 DEF Pairs, TypeOK
<1>6. DirectoryIsSound'
  <2>2. ~ session'[s].control /\ ~ session'[s].tunnel BY <1>c DEF Gone
  <2>3. \A p \in Peers : registered[p] # s BY DEF DirectoryIsSound, Opened
  <2>4. \A x \in Slots : session'[x].tunnel => session'[session'[x].paired].paired = x
    BY <1>5 DEF Pairs
  <2> QED BY <1>d, <2>2, <2>3, <2>4 DEF DirectoryIsSound, Opened, Live, TypeOK
<1> QED BY <1>1, <1>2, <1>3, <1>4, <1>5, <1>6
-----------------------------------------------------------------------------
(***************************************************************************)
(* The client's steps.                                                     *)
(***************************************************************************)
\* A request that the client writes on a connection of its own: a registration
\* on the control connection, or the answer to the only challenge of a link.
Asked(s, m) ==
    /\ end[s].open /\ m.peer = Owner(s)
    /\ up' = ToRelay(up, s, m)
    /\ \/ /\ end[s].action = "control" /\ m.type = "register"
          /\ down' = down \/ (down[s] # <<>> /\ down' = [down EXCEPT ![s] = Tail(@)])
       \/ /\ end[s].action # "control" /\ down[s] # <<>> /\ Head(down[s]).type = "challenge"
          /\ down' = [down EXCEPT ![s] = Tail(@)]
    /\ UNCHANGED <<end, session, cut, registered, waiting>>

LEMMA AskedKeeps ==
    ASSUME IInv, NEW s \in Slots, NEW m \in Requests, Asked(s, m),
           member' \in [Clients -> BOOLEAN],
           relay' \in [Clients -> [slot : Slots \cup {NoSlot}, nonce : Slots \cup {NoSlot},
                                   registered : BOOLEAN]],
           \A c \in Clients : relay'[c].slot = relay[c].slot /\ relay'[c].nonce \in {NoSlot, relay'[c].slot}
    PROVE  IInv'
<1> USE SlotsOwned DEF IInv
<1>1. /\ up' \in [Slots -> Seq(Requests)]
      /\ \A x \in Slots \ {s} : up'[x] = up[x]
      /\ up'[s] = up[s] \/ (session[s].live /\ up'[s] = Append(up[s], m))
      /\ Append(up[s], m) \in Seq(Requests)
  BY Appended DEF Asked, ToRelay, TypeOK
<1>2. /\ down' \in [Slots -> Seq(Answers)]
      /\ \A x \in Slots \ {s} : down'[x] = down[x]
      /\ down'[s] = down[s] \/ (down[s] # <<>> /\ down'[s] = Tail(down[s]))
  <2>1. down[s] # <<>> => Tail(down[s]) \in Seq(Answers) BY Taken DEF TypeOK
  <2>2. CASE down' = down BY <2>2 DEF TypeOK
  <2>3. CASE down[s] # <<>> /\ down' = [down EXCEPT ![s] = Tail(@)] BY <2>1, <2>3 DEF TypeOK
  <2> QED BY <2>2, <2>3 DEF Asked
<1>3. up[s] \in Seq(Requests) /\ down[s] \in Seq(Answers) BY DEF TypeOK
<1>4. \A n \in DOMAIN up'[s] : (n \in DOMAIN up[s] /\ up'[s][n] = up[s][n]) \/ up'[s][n] = m
  <2>1. CASE up'[s] = up[s] BY <2>1
  <2>2. CASE up'[s] = Append(up[s], m) BY <1>3, <2>2, Appended
  <2> QED BY <1>1, <2>1, <2>2
<1>5. TypeOK' BY <1>1, <1>2 DEF TypeOK, Asked
<1>6. ClientSide' BY DEF ClientSide, Asked
<1>7. RequestsAreOwn'
  <2>1. \A n \in DOMAIN up'[s] : up'[s][n].peer = Owner(s) BY <1>4 DEF RequestsAreOwn, Asked
  <2>2. ~ session[s].live => up'[s] = <<>> BY <1>1 DEF RequestsAreOwn
  <2> QED BY <1>1, <2>1, <2>2 DEF RequestsAreOwn, Asked
<1>8. SinglePurpose'
  <2> SUFFICES ASSUME NEW x \in Slots
               PROVE  /\ end[x].open /\ end[x].action = "control" => x \notin waiting /\ Registers1(x)'
                      /\ up'[x] # <<>> => x \notin waiting
                      /\ Registers1(x)' \/ Len(up'[x]) = 1
                      /\ end[x].open /\ end[x].action # "control" =>
                            \A n \in DOMAIN down'[x] :
                                down'[x][n].type = "challenge" => n = 1 /\ Unanswered(x)'
    BY DEF SinglePurpose, Asked
  <2>1. CASE x # s
    <3>1. up'[x] = up[x] /\ down'[x] = down[x] /\ waiting' = waiting BY <1>1, <1>2, <2>1 DEF Asked
    <3>2. Registers1(x)' = Registers1(x) /\ Unanswered(x)' = Unanswered(x)
      BY <3>1 DEF Registers1, Unanswered
    <3> QED BY <3>1, <3>2 DEF SinglePurpose
  <2>2. CASE x = s /\ end[s].action = "control"
    <3>1. s \notin waiting /\ Registers1(s) /\ m.type = "register" BY <2>2 DEF SinglePurpose, Asked
    <3>2. Registers1(s)' BY <3>1, <1>4 DEF Registers1
    <3> QED BY <2>2, <3>1, <3>2
  <2>3. CASE x = s /\ end[s].action # "control"
    <3>1. down[s] # <<>> /\ Head(down[s]).type = "challenge" /\ down'[s] = Tail(down[s])
      BY <2>3, <1>2 DEF Asked, TypeOK
    <3>2. up[s] = <<>> /\ s \notin waiting
      BY <1>3, <3>1, <2>3, Taken DEF SinglePurpose, Unanswered, Asked
    <3>3. \A n \in DOMAIN down'[s] : down'[s][n].type # "challenge"
      <4>1. \A n \in DOMAIN down[s] : down[s][n].type = "challenge" => n = 1
        BY <2>3 DEF SinglePurpose, Asked
      <4>2. \A n \in DOMAIN down'[s] : n \in Nat \ {0} /\ n + 1 \in DOMAIN down[s]
                                     /\ down'[s][n] = down[s][n + 1]
        BY <1>3, <3>1, Taken
      <4> QED BY <4>1, <4>2
    <3>4. Registers1(s)' \/ Len(up'[s]) = 1
      <4>1. CASE up'[s] = up[s] BY <4>1, <3>2 DEF Registers1
      <4>2. CASE up'[s] = Append(up[s], m) BY <4>2, <3>2
      <4> QED BY <1>1, <4>1, <4>2
    <3> QED BY <2>3, <3>2, <3>3, <3>4
  <2> QED BY <2>1, <2>2, <2>3
<1>9. Pairs' BY DEF Pairs, Asked
<1>10. DirectoryIsSound' BY DEF DirectoryIsSound, Asked, Live
<1> QED BY <1>5, <1>6, <1>7, <1>8, <1>9, <1>10

\* A message of which only the client takes note.
LEMMA NotedKeeps ==
    ASSUME IInv, NEW s \in Slots, down[s] # <<>>, Head(down[s]).type # "challenge",
           down' = [down EXCEPT ![s] = Tail(@)],
           end' \in [Slots -> Ends],
           \A x \in Slots : /\ end'[x].open = end[x].open /\ end'[x].action = end[x].action
                            /\ end'[x].call = end[x].call /\ end'[x].ticket = end[x].ticket,
           relay' \in [Clients -> [slot : Slots \cup {NoSlot}, nonce : Slots \cup {NoSlot},
                                   registered : BOOLEAN]],
           \A c \in Clients : relay'[c].slot = relay[c].slot /\ relay'[c].nonce = relay[c].nonce,
           UNCHANGED <<session, up, cut, registered, waiting, member>>
    PROVE  IInv'
<1> USE SlotsOwned DEF IInv
<1>1. /\ down' \in [Slots -> Seq(Answers)] /\ down[s] \in Seq(Answers)
      /\ \A x \in Slots \ {s} : down'[x] = down[x]
      /\ down'[s] = Tail(down[s])
  BY Taken DEF TypeOK
<1>2. TypeOK' BY <1>1 DEF TypeOK, Ends
<1>3. ClientSide'
  <2>1. \A x \in Slots : end'[x].open => Purpose(end'[x]) BY DEF ClientSide, Purpose
  <2> QED BY <2>1 DEF ClientSide, TypeOK
<1>4. RequestsAreOwn' BY DEF RequestsAreOwn
<1>5. SinglePurpose'
  <2>1. \A n \in DOMAIN down'[s] : n \in Nat \ {0} /\ n + 1 \in DOMAIN down[s]
                                 /\ down'[s][n] = down[s][n + 1]
    BY <1>1, Taken
  <2>2. \A x \in Slots : end[x].open /\ end[x].action # "control" =>
            \A n \in DOMAIN down'[x] : down'[x][n].type = "challenge" => n = 1 /\ Unanswered(x)
    BY <1>1, <2>1 DEF SinglePurpose
  <2>3. \A x \in Slots : Registers1(x)' = Registers1(x) /\ Unanswered(x)' = Unanswered(x)
    BY DEF Registers1, Unanswered
  <2>4. \A x \in Slots : end'[x].open = end[x].open /\ end'[x].action = end[x].action OBVIOUS
  <2>5. up' = up /\ waiting' = waiting OBVIOUS
  <2> HIDE DEF IInv
  <2>6. SinglePurpose BY DEF IInv
  <2> QED BY <2>2, <2>3, <2>4, <2>5, <2>6 DEF SinglePurpose
<1>6. Pairs' BY DEF Pairs
<1>7. DirectoryIsSound' BY DEF DirectoryIsSound, Live
<1> QED BY <1>2, <1>3, <1>4, <1>5, <1>6, <1>7
LEMMA ConnectRelayStep == ASSUME IInv, NEW c \in Clients, ConnectRelay(c) PROVE IInv'
<1> DEFINE s == FreeSlot(c)
           e == [Closed EXCEPT !.open = TRUE, !.action = "control"]
<1>1. FreeSlots(c) # {} BY DEF ConnectRelay, Open
<1>2. /\ s \in Slots /\ Owner(s) = c /\ ~ end[s].open /\ ~ session[s].live /\ s \notin waiting
  BY <1>1, FreeSlotIsFree
<1>3. e \in Ends /\ e.open /\ e.action = "control" /\ Purpose(e) BY DEF Ends, Closed, Purpose
<1>4. Opened(s, e)
  <2>1. Challenge \in Answers BY DEF Challenge, Answers
  <2>2. /\ down' = [down EXCEPT ![s] = IF Cardinality(Live) < MaxSessions THEN <<Challenge>> ELSE <<>>]
        /\ down \in [Slots -> Seq(Answers)]
    BY DEF ConnectRelay, Open, IInv, TypeOK
  <2>3. /\ down' \in [Slots -> Seq(Answers)] /\ down'[s] \in {<<>>, <<Challenge>>}
        /\ \A x \in Slots \ {s} : down'[x] = down[x]
    BY <1>2, <2>1, <2>2
  <2>4. session' = [session EXCEPT ![s].live = (Cardinality(Live) < MaxSessions)]
    BY DEF ConnectRelay, Open
  <2>5. (Cardinality(Live) < MaxSessions) \in BOOLEAN OBVIOUS
  <2>6. \E adopted \in BOOLEAN : session' = [session EXCEPT ![s].live = adopted] BY <2>4, <2>5
  <2> QED BY <1>2, <1>3, <2>3, <2>6 DEF Opened, ConnectRelay, Open
<1>5. relay[Owner(s)].slot = NoSlot /\ relay' = [relay EXCEPT ![Owner(s)].slot = s]
  BY <1>2 DEF ConnectRelay
<1> HIDE DEF s, e
<1> QED BY <1>2, <1>3, <1>4, <1>5, OpenedKeeps

LEMMA DialStep == ASSUME IInv, NEW call \in Calls, Dial(call) PROVE IInv'
<1> DEFINE s == FreeSlot(call.from)
           e == [Closed EXCEPT !.open = TRUE, !.action = "dial", !.call = call, !.expected = call.to]
<1>1. FreeSlots(call.from) # {} BY DEF Dial, Open
<1>2. s \in Slots /\ ~ end[s].open /\ ~ session[s].live /\ s \notin waiting
  BY <1>1, FreeSlotIsFree
<1>3. e \in Ends /\ e.open /\ e.action = "dial" /\ Purpose(e)
  BY RelayAssumption DEF Ends, Closed, Purpose
<1>4. Opened(s, e)
  <2>1. Challenge \in Answers BY DEF Challenge, Answers
  <2>2. /\ down' = [down EXCEPT ![s] = IF Cardinality(Live) < MaxSessions THEN <<Challenge>> ELSE <<>>]
        /\ down \in [Slots -> Seq(Answers)]
    BY DEF Dial, Open, IInv, TypeOK
  <2>3. /\ down' \in [Slots -> Seq(Answers)] /\ down'[s] \in {<<>>, <<Challenge>>}
        /\ \A x \in Slots \ {s} : down'[x] = down[x]
    BY <1>2, <2>1, <2>2
  <2>4. session' = [session EXCEPT ![s].live = (Cardinality(Live) < MaxSessions)]
    BY DEF Dial, Open
  <2>5. (Cardinality(Live) < MaxSessions) \in BOOLEAN OBVIOUS
  <2>6. \E adopted \in BOOLEAN : session' = [session EXCEPT ![s].live = adopted] BY <2>4, <2>5
  <2> QED BY <1>2, <1>3, <2>3, <2>6 DEF Opened, Dial, Open
<1>5. UNCHANGED relay BY DEF Dial
<1> HIDE DEF s, e
<1> QED BY <1>2, <1>3, <1>4, <1>5, OpenedKeeps

LEMMA ChangeMembershipStep == ASSUME IInv, NEW c \in Clients, ChangeMembership(c) PROVE IInv'
<1> DEFINE s == relay[c].slot
           m == Register(c, relay[c].nonce, ~ member[c])
<1>1. member' \in [Clients -> BOOLEAN] BY DEF ChangeMembership, IInv, TypeOK
<1>2. CASE relay[c].slot = NoSlot \/ relay[c].nonce = NoSlot
  <2>1. up' = up BY <1>2 DEF ChangeMembership, Registers
  <2> QED BY <1>1, <2>1 DEF ChangeMembership, IInv, TypeOK, ClientSide, RequestsAreOwn,
                           SinglePurpose, Registers1, Unanswered, Pairs, DirectoryIsSound, Live
<1>3. CASE relay[c].slot # NoSlot /\ relay[c].nonce # NoSlot
  <2>1. s \in Slots /\ Owner(s) = c /\ end[s].open /\ end[s].action = "control"
    BY <1>3 DEF IInv, ClientSide, TypeOK
  <2>2. m \in Requests /\ m.peer = c /\ m.type = "register"
    <3>1. relay[c].nonce \in Slots /\ (~ member[c]) \in BOOLEAN BY <1>3 DEF IInv, TypeOK
    <3> QED BY <3>1 DEF Register, Requests
  <2>3. up' = ToRelay(up, s, m) BY <1>3 DEF ChangeMembership, Registers
  <2>4. Asked(s, m) BY <2>1, <2>2, <2>3 DEF Asked, ChangeMembership
  <2>5. /\ relay' \in [Clients -> [slot : Slots \cup {NoSlot}, nonce : Slots \cup {NoSlot},
                                   registered : BOOLEAN]]
        /\ \A d \in Clients : relay'[d].slot = relay[d].slot /\ relay'[d].nonce \in {NoSlot, relay'[d].slot}
    BY DEF ChangeMembership, IInv, TypeOK
  <2> HIDE DEF s, m
  <2> QED BY <1>1, <2>1, <2>2, <2>4, <2>5, AskedKeeps
<1> QED BY <1>2, <1>3

LEMMA ReadRelayStep == ASSUME IInv, NEW c \in Clients, ReadRelay(c) PROVE IInv'
<1> DEFINE s == relay[c].slot
           m == Head(down[s])
<1>1. /\ s \in Slots /\ Owner(s) = c /\ end[s].open /\ end[s].action = "control"
      /\ down \in [Slots -> Seq(Answers)] /\ down[s] # <<>>
  BY DEF ReadRelay, IInv, ClientSide, TypeOK
<1>2. m \in Answers /\ Tail(down[s]) \in Seq(Answers) BY <1>1, Taken
<1>3. relay \in [Clients -> [slot : Slots \cup {NoSlot}, nonce : Slots \cup {NoSlot},
                            registered : BOOLEAN]]
  BY DEF IInv, TypeOK
<1>4. CASE m.type = "challenge"
  <2> DEFINE q == Register(c, s, member[c])
  <2>1. /\ relay' = [relay EXCEPT ![c].nonce = s] /\ up' = ToRelay(up, s, q)
        /\ down' = [down EXCEPT ![s] = Tail(@)]
        /\ UNCHANGED <<end, session, cut, registered, waiting, member>>
    BY <1>4 DEF ReadRelay
  <2>2. q \in Requests /\ q.peer = c /\ q.type = "register"
    <3>1. member[c] \in BOOLEAN BY DEF IInv, TypeOK
    <3> QED BY <1>1, <3>1 DEF Register, Requests
  <2>3. Asked(s, q) BY <1>1, <2>1, <2>2 DEF Asked
  <2>4. /\ relay' \in [Clients -> [slot : Slots \cup {NoSlot}, nonce : Slots \cup {NoSlot},
                                   registered : BOOLEAN]]
        /\ \A d \in Clients : relay'[d].slot = relay[d].slot /\ relay'[d].nonce \in {NoSlot, relay'[d].slot}
    <3>1. \A r \in [slot : Slots \cup {NoSlot}, nonce : Slots \cup {NoSlot}, registered : BOOLEAN] :
             /\ [r EXCEPT !.nonce = s] \in
                    [slot : Slots \cup {NoSlot}, nonce : Slots \cup {NoSlot}, registered : BOOLEAN]
             /\ [r EXCEPT !.nonce = s].slot = r.slot /\ [r EXCEPT !.nonce = s].nonce = s
      BY <1>1
    <3>2. relay' = [relay EXCEPT ![c] = [relay[c] EXCEPT !.nonce = s]] BY <2>1
    <3>3. \A d \in Clients : relay[d].nonce \in {NoSlot, relay[d].slot} BY DEF IInv, TypeOK
    <3> HIDE DEF s
    <3>4. relay[c].slot = s BY DEF s
    <3> QED BY <1>3, <3>1, <3>2, <3>3, <3>4
  <2>5. member' \in [Clients -> BOOLEAN] BY <2>1 DEF IInv, TypeOK
  <2> HIDE DEF s, q
  <2> QED BY <1>1, <2>2, <2>3, <2>4, <2>5, AskedKeeps
<1>5. CASE m.type = "registered"
  <2>1. /\ relay' = [relay EXCEPT ![c].registered = TRUE] /\ down' = [down EXCEPT ![s] = Tail(@)]
        /\ UNCHANGED <<end, session, up, cut, registered, waiting, member>>
    BY <1>5 DEF ReadRelay
  <2>2. relay' \in [Clients -> [slot : Slots \cup {NoSlot}, nonce : Slots \cup {NoSlot},
                                   registered : BOOLEAN]]
    BY <1>3, <2>1
  <2>3. \A d \in Clients : relay'[d].slot = relay[d].slot /\ relay'[d].nonce = relay[d].nonce
    BY <1>3, <2>1
  <2>4. /\ end' \in [Slots -> Ends]
        /\ \A x \in Slots : /\ end'[x].open = end[x].open /\ end'[x].action = end[x].action
                            /\ end'[x].call = end[x].call /\ end'[x].ticket = end[x].ticket
    BY <2>1 DEF IInv, TypeOK, Ends
  <2> HIDE DEF s
  <2> QED BY <1>1, <1>5, <2>1, <2>2, <2>3, <2>4, NotedKeeps
<1>6. CASE m.type = "incoming" /\ Cardinality(LinksOf(c)) >= MaxLinks
  <2>1. /\ down' = [down EXCEPT ![s] = Tail(@)]
        /\ UNCHANGED <<end, relay, session, up, cut, registered, waiting, member>>
    BY <1>6 DEF ReadRelay
  <2>2. relay' \in [Clients -> [slot : Slots \cup {NoSlot}, nonce : Slots \cup {NoSlot},
                                   registered : BOOLEAN]]
    BY <1>3, <2>1
  <2>3. \A d \in Clients : relay'[d].slot = relay[d].slot /\ relay'[d].nonce = relay[d].nonce
    BY <2>1
  <2>4. /\ end' \in [Slots -> Ends]
        /\ \A x \in Slots : /\ end'[x].open = end[x].open /\ end'[x].action = end[x].action
                            /\ end'[x].call = end[x].call /\ end'[x].ticket = end[x].ticket
    BY <2>1 DEF IInv, TypeOK, Ends
  <2> HIDE DEF s
  <2> QED BY <1>1, <1>6, <2>1, <2>2, <2>3, <2>4, NotedKeeps
<1>7. CASE m.type = "incoming" /\ ~ (Cardinality(LinksOf(c)) >= MaxLinks)
  <2> DEFINE f == FreeSlot(c)
             e == [Closed EXCEPT !.open = TRUE, !.action = "accept", !.expected = m.peer,
                                 !.ticket = m.ticket]
             rest == [down EXCEPT ![s] = Tail(@)]
  <2>1. /\ Open(c, e, rest) /\ UNCHANGED <<up, relay, cut, registered, waiting, member>>
    BY <1>7 DEF ReadRelay
  <2>2. /\ f \in Slots /\ Owner(f) = c /\ ~ end[f].open /\ ~ session[f].live /\ f \notin waiting
    BY <2>1, FreeSlotIsFree DEF Open
  <2>3. m.peer \in Peers /\ m.ticket \in Slots
    BY <1>2, <1>7, RelayAssumption DEF Answers
  <2>4. e \in Ends /\ e.open /\ e.action = "accept" /\ Purpose(e)
    BY <2>3 DEF Ends, Closed, Purpose
  <2>5. Opened(f, e)
    <3>1. <<Challenge>> \in Seq(Answers) /\ <<>> \in Seq(Answers) BY DEF Challenge, Answers
    <3>2. rest \in [Slots -> Seq(Answers)] /\ \A x \in Slots \ {s} : rest[x] = down[x]
      BY <1>1, <1>2
    <3>3. down' = [rest EXCEPT ![f] = IF Cardinality(Live) < MaxSessions THEN <<Challenge>> ELSE <<>>]
      BY <2>1 DEF Open
    <3> HIDE DEF rest
    <3>4. /\ down' \in [Slots -> Seq(Answers)] /\ down'[f] \in {<<>>, <<Challenge>>}
          /\ \A x \in Slots \ {f} : down'[x] = rest[x]
      BY <2>2, <3>1, <3>2, <3>3
    <3>5. session' = [session EXCEPT ![f].live = (Cardinality(Live) < MaxSessions)]
      BY <2>1 DEF Open
    <3>6. (Cardinality(Live) < MaxSessions) \in BOOLEAN OBVIOUS
    <3>7. \E adopted \in BOOLEAN : session' = [session EXCEPT ![f].live = adopted] BY <3>5, <3>6
    <3>8. end' = [end EXCEPT ![f] = e] BY <2>1 DEF Open
    <3> HIDE DEF s, e, f
    <3> QED BY <1>1, <2>1, <2>2, <2>4, <3>2, <3>4, <3>7, <3>8 DEF Opened
  <2>6. UNCHANGED relay BY <2>1
  <2> HIDE DEF e, f
  <2> QED BY <2>2, <2>4, <2>5, <2>6, OpenedKeeps
<1> QED BY <1>4, <1>5, <1>6, <1>7 DEF ReadRelay
\* Whatever connections the client closes, and why.
LEMMA ClientClosesStep ==
    ASSUME IInv, NEW S \in SUBSET Slots, ClientCloses(S),
           UNCHANGED <<session, up, registered, waiting, member>>
    PROVE  IInv'
<1>1. Closes(S) BY DEF ClientCloses, Closes, Forgotten
<1> QED BY <1>1, ClosesKeeps

LEMMA ReadLinkStep == ASSUME IInv, NEW s \in Slots, ReadLink(s) PROVE IInv'
<1> DEFINE m == Head(down[s])
<1>1. /\ end[s].open /\ end[s].action # "control" /\ down[s] # <<>> /\ down[s] \in Seq(Answers)
      /\ UNCHANGED <<session, registered, waiting, member>>
  BY DEF ReadLink, IInv, TypeOK
<1>2. m \in Answers BY <1>1, Taken
<1>3. /\ relay \in [Clients -> [slot : Slots \cup {NoSlot}, nonce : Slots \cup {NoSlot},
                            registered : BOOLEAN]]
      /\ \A c \in Clients : relay[c].nonce \in {NoSlot, relay[c].slot}
      /\ member \in [Clients -> BOOLEAN]
      /\ end \in [Slots -> Ends]
  BY DEF IInv, TypeOK, Ends
<1>4. CASE m.type = "challenge"
  <2>1. /\ up' = ToRelay(up, s, Request(s)) /\ down' = [down EXCEPT ![s] = Tail(@)]
        /\ UNCHANGED <<end, cut, relay>>
    BY <1>4 DEF ReadLink
  <2>2. Request(s) \in Requests /\ Request(s).peer = Owner(s)
    <3>1. Purpose(end[s]) BY <1>1 DEF IInv, ClientSide
    <3>2. Owner(s) \in Clients BY SlotsOwned
    <3>3. CASE end[s].action = "dial"
      BY <3>1, <3>2, <3>3 DEF Request, Requests, Purpose
    <3>4. CASE end[s].action = "accept"
      BY <3>1, <3>2, <3>4 DEF Request, Requests, Purpose
    <3> QED BY <1>1, <3>1, <3>3, <3>4 DEF Purpose
  <2>3. Asked(s, Request(s)) BY <1>1, <1>4, <2>1, <2>2 DEF Asked
  <2> QED BY <1>1, <1>3, <2>1, <2>2, <2>3, AskedKeeps
<1>5. CASE m.type = "ready"
  <2>1. /\ end' = [end EXCEPT ![s].tls = TRUE, ![s].expected = Expected(end[s], m)]
        /\ down' = [down EXCEPT ![s] = Tail(@)]
        /\ UNCHANGED <<up, cut, relay>>
    BY <1>5 DEF ReadLink
  <2>2. Expected(end[s], m) \in Peers \cup {NoPeer}
    <3>1. m.peer \in Peers \cup {NoPeer} BY <1>2, <1>5 DEF Answers
    <3> QED BY <1>3, <3>1 DEF Expected, Ends
  <2> DEFINE x == Expected(end[s], m)
  <2>3. /\ end' \in [Slots -> Ends]
        /\ \A y \in Slots : /\ end'[y].open = end[y].open /\ end'[y].action = end[y].action
                            /\ end'[y].call = end[y].call /\ end'[y].ticket = end[y].ticket
    <3>1. \A e \in Ends : /\ [e EXCEPT !.tls = TRUE, !.expected = x] \in Ends
                          /\ [e EXCEPT !.tls = TRUE, !.expected = x].open = e.open
                          /\ [e EXCEPT !.tls = TRUE, !.expected = x].action = e.action
                          /\ [e EXCEPT !.tls = TRUE, !.expected = x].call = e.call
                          /\ [e EXCEPT !.tls = TRUE, !.expected = x].ticket = e.ticket
      <4> HIDE DEF x
      <4>1. x \in Peers \cup {NoPeer} BY <2>2 DEF x
      <4> QED BY <4>1 DEF Ends
    <3>2. end' = [end EXCEPT ![s] = [end[s] EXCEPT !.tls = TRUE, !.expected = x]] BY <2>1
    <3> HIDE DEF x
    <3> QED BY <1>3, <3>1, <3>2
  <2>4. Head(down[s]).type # "challenge" BY <1>5
  <2> QED BY <1>1, <1>3, <2>1, <2>3, <2>4, NotedKeeps
<1>6. CASE m.type = "unavailable"
  <2>1. ClientCloses({s}) /\ UNCHANGED up BY <1>6 DEF ReadLink
  <2> QED BY <1>1, <2>1, ClientClosesStep
<1> QED BY <1>4, <1>5, <1>6 DEF ReadLink
-----------------------------------------------------------------------------
(***************************************************************************)
(* The relay's steps.                                                      *)
(***************************************************************************)
\* What is common to all of Route: whose request it is, and that the session
\* waits for nothing.
LEMMA Routed ==
    ASSUME IInv, NEW s \in Slots, Route(s)
    PROVE  /\ session[s].live /\ ~ session[s].tunnel /\ up[s] # <<>> /\ up[s] \in Seq(Requests)
           /\ Head(up[s]) \in Requests /\ Head(up[s]).peer = Owner(s)
           /\ s \notin waiting /\ session[s].paired = NoSlot
           /\ Head(up[s]).type # "register" => /\ Len(up[s]) = 1 /\ Tail(up[s]) = <<>>
                                              /\ ~ (end[s].open /\ end[s].action = "control")
<1> USE DEF IInv
<1>1. session[s].live /\ ~ session[s].tunnel /\ up[s] # <<>> /\ up[s] \in Seq(Requests)
  BY DEF Route, TypeOK
<1>2. Head(up[s]) \in Requests /\ Head(up[s]) = up[s][1] /\ 1 \in DOMAIN up[s]
  BY <1>1, Taken
<1>3. Head(up[s]).peer = Owner(s) BY <1>2 DEF RequestsAreOwn
<1>4. s \notin waiting /\ session[s].paired = NoSlot BY <1>1 DEF SinglePurpose, Pairs
<1>5. Head(up[s]).type # "register" => ~ Registers1(s) BY <1>2 DEF Registers1
<1>6. Len(up[s]) = 1 => Tail(up[s]) = <<>> BY <1>1, Taken
<1> QED BY <1>1, <1>2, <1>3, <1>4, <1>5, <1>6 DEF SinglePurpose

LEMMA DropStep ==
    ASSUME IInv, NEW s \in Slots, session[s].live,
           \/ Drop(s, waiting)
           \/ Drop(s, waiting \ {Head(up[s]).ticket}),
           down' \in {down, ToClient(down, s, Unavailable)},
           UNCHANGED <<end, relay, member>>
    PROVE  IInv'
<1>1. Dropped(s) BY DEF Drop, Dropped, All, TicketsLeft, Live
<1> QED BY <1>1, DroppedKeeps
\* What the relay tells a client is not a challenge.
LEMMA Told ==
    ASSUME NEW queues \in [Slots -> Seq(Answers)], NEW r \in Slots, NEW m \in Answers,
           m.type # "challenge"
    PROVE  /\ ToClient(queues, r, m) \in [Slots -> Seq(Answers)]
           /\ \A x \in Slots : \A n \in DOMAIN ToClient(queues, r, m)[x] :
                 ToClient(queues, r, m)[x][n].type = "challenge" =>
                     n \in DOMAIN queues[x] /\ queues[x][n].type = "challenge"
<1>1. CASE ToClient(queues, r, m) = queues BY <1>1
<1>2. CASE ToClient(queues, r, m) = [queues EXCEPT ![r] = Append(@, m)]
  <2>1. queues[r] \in Seq(Answers) OBVIOUS
  <2>2. Append(queues[r], m) \in Seq(Answers) BY <2>1, Appended
  <2>3. \A n \in DOMAIN Append(queues[r], m) : Append(queues[r], m)[n].type = "challenge" =>
            n \in DOMAIN queues[r] /\ queues[r][n].type = "challenge"
    BY <2>1, Appended
  <2> QED BY <1>2, <2>2, <2>3
<1> QED BY <1>1, <1>2 DEF ToClient

\* What every request that is granted does: it is taken off its queue, nothing
\* but a call starts to wait, and no session comes or goes.
Granted(s) ==
    /\ up' = [up EXCEPT ![s] = Tail(@)]
    /\ down' \in [Slots -> Seq(Answers)]
    /\ \A x \in Slots : \A n \in DOMAIN down'[x] : down'[x][n].type = "challenge" =>
          n \in DOMAIN down[x] /\ down[x][n].type = "challenge"
    /\ \A x \in Slots : session'[x].live = session[x].live
    /\ \A x \in Slots : ~ session[x].live => session'[x] = session[x]
    /\ session' \in [Slots -> [live : BOOLEAN, peer : Peers \cup {NoPeer}, control : BOOLEAN,
                              listed : BOOLEAN, tunnel : BOOLEAN, paired : Slots \cup {NoSlot}]]
    /\ waiting' \subseteq waiting \cup (IF Head(up[s]).type = "register" THEN {} ELSE {s})
    /\ registered' \in [Peers -> Slots \cup {NoSlot}]
    /\ UNCHANGED <<end, cut, relay, member>>

LEMMA GrantedKeeps ==
    ASSUME IInv, NEW s \in Slots, Route(s), Granted(s), Pairs', DirectoryIsSound'
    PROVE  IInv'
<1> USE SlotsOwned DEF IInv
<1>1. /\ up[s] \in Seq(Requests) /\ up[s] # <<>> /\ session[s].live
      /\ Head(up[s]).type # "register" => /\ Tail(up[s]) = <<>>
                                         /\ ~ (end[s].open /\ end[s].action = "control")
  BY Routed
<1>2. /\ Tail(up[s]) \in Seq(Requests) /\ Len(Tail(up[s])) = Len(up[s]) - 1
      /\ \A n \in DOMAIN Tail(up[s]) : n + 1 \in DOMAIN up[s] /\ Tail(up[s])[n] = up[s][n + 1]
      /\ Len(up[s]) = 1 => Tail(up[s]) = <<>>
  BY <1>1, Taken
<1>3. up'[s] = Tail(up[s]) /\ \A x \in Slots \ {s} : up'[x] = up[x] BY DEF Granted, TypeOK
<1>4. TypeOK'
  <2>1. up' \in [Slots -> Seq(Requests)] BY <1>2 DEF Granted, TypeOK
  <2> QED BY <2>1 DEF TypeOK, Granted
<1>5. ClientSide' BY DEF ClientSide, Granted
<1>6. RequestsAreOwn'
  <2> SUFFICES ASSUME NEW x \in Slots
               PROVE  /\ ~ session'[x].live => session'[x] = Gone /\ up'[x] = <<>>
                      /\ \A n \in DOMAIN up'[x] : up'[x][n].peer = Owner(x)
    BY DEF RequestsAreOwn
  <2>1. session'[x].live = session[x].live /\ (~ session[x].live => session'[x] = session[x])
    BY DEF Granted
  <2>2. CASE x # s
    <3>1. up'[x] = up[x] BY <1>3, <2>2
    <3>2. /\ ~ session[x].live => session[x] = Gone /\ up[x] = <<>>
          /\ \A n \in DOMAIN up[x] : up[x][n].peer = Owner(x)
      BY DEF RequestsAreOwn
    <3>3. ~ session'[x].live => session'[x] = Gone /\ up'[x] = <<>> BY <2>1, <3>1, <3>2
    <3>4. \A n \in DOMAIN up'[x] : up'[x][n].peer = Owner(x) BY <3>1, <3>2
    <3> QED BY <3>3, <3>4
  <2>3. CASE x = s
    <3>1. \A n \in DOMAIN up[s] : up[s][n].peer = Owner(s) BY DEF RequestsAreOwn
    <3>2. session'[x].live BY <1>1, <2>1, <2>3
    <3>3. \A n \in DOMAIN Tail(up[s]) : Tail(up[s])[n].peer = Owner(s) BY <1>2, <3>1
    <3>4. up'[x] = Tail(up[s]) BY <1>3, <2>3
    <3> QED BY <2>3, <3>2, <3>3, <3>4, Zenon
  <2> QED BY <2>2, <2>3
<1>7. SinglePurpose'
  <2> SUFFICES ASSUME NEW x \in Slots
               PROVE  /\ end[x].open /\ end[x].action = "control" => x \notin waiting' /\ Registers1(x)'
                      /\ up'[x] # <<>> => x \notin waiting'
                      /\ Registers1(x)' \/ Len(up'[x]) = 1
                      /\ end[x].open /\ end[x].action # "control" =>
                            \A n \in DOMAIN down'[x] :
                                down'[x][n].type = "challenge" => n = 1 /\ Unanswered(x)'
    BY DEF SinglePurpose, Granted
  <2>1. CASE x # s
    <3>1. up'[x] = up[x] /\ (x \in waiting' => x \in waiting) BY <1>3, <2>1 DEF Granted
    <3>2. /\ Registers1(x)' = Registers1(x)
          /\ Unanswered(x) => Unanswered(x)'
      BY <3>1 DEF Registers1, Unanswered
    <3> QED BY <3>1, <3>2 DEF SinglePurpose, Granted
  <2>2. CASE x = s /\ Head(up[s]).type = "register"
    <3>1. x \notin waiting' BY <2>2, Routed DEF Granted
    <3>2. Registers1(s)'
      <4>1. CASE Registers1(s) BY <4>1, <1>2, <1>3 DEF Registers1
      <4>2. CASE Len(up[s]) = 1 BY <4>2, <1>2, <1>3 DEF Registers1
      <4> QED BY <4>1, <4>2 DEF SinglePurpose
    <3>3. end[s].open /\ end[s].action # "control" =>
              \A n \in DOMAIN down'[s] : down'[s][n].type # "challenge"
      BY <1>1 DEF SinglePurpose, Unanswered, Granted
    <3> QED BY <2>2, <3>1, <3>2, <3>3
  <2>3. CASE x = s /\ Head(up[s]).type # "register"
    <3>1. up'[s] = <<>> /\ ~ (end[s].open /\ end[s].action = "control")
      BY <2>3, <1>1, <1>3
    <3>2. Registers1(s)' BY <3>1 DEF Registers1
    <3>3. end[s].open /\ end[s].action # "control" =>
              \A n \in DOMAIN down'[s] : down'[s][n].type # "challenge"
      BY <1>1 DEF SinglePurpose, Unanswered, Granted
    <3> QED BY <2>3, <3>1, <3>2, <3>3
  <2> QED BY <2>1, <2>2, <2>3
<1> QED BY <1>4, <1>5, <1>6, <1>7
Sessions == [live : BOOLEAN, peer : Peers \cup {NoPeer}, control : BOOLEAN,
             listed : BOOLEAN, tunnel : BOOLEAN, paired : Slots \cup {NoSlot}]

\* A peer is registered only where nothing is registered for it, or again.
LEMMA RegisterStep ==
    ASSUME IInv, NEW s \in Slots, Route(s), RouteRegister(s, Head(up[s])),
           Head(up[s]).type = "register"
    PROVE  IInv'
<1> DEFINE m == Head(up[s])
<1> USE DEF IInv
<1>1. /\ session[s].live /\ ~ session[s].tunnel /\ s \notin waiting /\ m \in Requests
      /\ m.peer = Owner(s) /\ UNCHANGED <<end, relay, member>>
  BY Routed DEF Route
<1>2. CASE registered[m.peer] \notin {NoSlot, s}
  BY <1>1, <1>2, DropStep DEF RouteRegister
<1>3. CASE registered[m.peer] \in {NoSlot, s}
  <2> DEFINE v == [session[s] EXCEPT !.control = TRUE, !.peer = m.peer, !.listed = m.listed]
  <2>1. /\ session' = [session EXCEPT ![s] = v]
        /\ registered' = [registered EXCEPT ![m.peer] = s]
        /\ down' = ToClient(down, s, Registered)
        /\ up' = [up EXCEPT ![s] = Tail(@)]
        /\ UNCHANGED <<waiting, cut>>
    BY <1>3 DEF RouteRegister
  <2>2. /\ session \in [Slots -> Sessions] /\ down \in [Slots -> Seq(Answers)]
        /\ registered \in [Peers -> Slots \cup {NoSlot}] /\ m.peer \in Peers /\ m.listed \in BOOLEAN
    BY <1>1, SlotsOwned, RelayAssumption DEF TypeOK, Sessions, Requests
  <2>3. /\ v \in Sessions /\ v.live = session[s].live /\ v.control /\ v.peer = m.peer
        /\ v.tunnel = session[s].tunnel /\ v.paired = session[s].paired
    <3> HIDE DEF m
    <3>1. session[s] \in Sessions BY <2>2
    <3>2. CASE m.listed = TRUE BY <2>2, <3>1, <3>2 DEF Sessions
    <3>3. CASE m.listed = FALSE BY <2>2, <3>1, <3>3 DEF Sessions
    <3> QED BY <2>2, <3>2, <3>3
  <2> HIDE DEF v
  <2>4. session' \in [Slots -> Sessions] /\ session'[s] = v /\ \A x \in Slots \ {s} : session'[x] = session[x]
    BY <2>1, <2>2, <2>3
  <2>5. Granted(s)
    <3>1. Registered \in Answers /\ Registered.type # "challenge" BY DEF Registered, Answers
    <3> HIDE DEF m
    <3>2. /\ down' \in [Slots -> Seq(Answers)]
          /\ \A x \in Slots : \A n \in DOMAIN down'[x] : down'[x][n].type = "challenge" =>
                n \in DOMAIN down[x] /\ down[x][n].type = "challenge"
      BY <2>1, <2>2, <3>1, Told
    <3>3. \A x \in Slots : session'[x].live = session[x].live BY <2>3, <2>4
    <3>4. \A x \in Slots : ~ session[x].live => session'[x] = session[x] BY <1>1, <2>4
    <3>5. registered' \in [Peers -> Slots \cup {NoSlot}] BY <2>1, <2>2
    <3>6. waiting' \subseteq waiting BY <2>1
    <3> QED BY <1>1, <2>1, <2>4, <3>2, <3>3, <3>4, <3>5, <3>6 DEF Granted, Sessions
  <2>6. Pairs'
    <3>1. \A x \in Slots : session'[x].tunnel = session[x].tunnel /\ session'[x].paired = session[x].paired
      BY <2>3, <2>4
    <3>2. \A x \in Slots : session'[x].control => session'[x].peer = Owner(x)
      BY <1>1, <2>3, <2>4 DEF Pairs
    <3> QED BY <2>2, <3>1, <3>2 DEF Pairs, Sessions
  <2>7. DirectoryIsSound'
    <3> HIDE DEF m
    <3>1. /\ registered'[m.peer] = s
          /\ \A p \in Peers \ {m.peer} : registered'[p] = registered[p] /\ registered[p] # s
      <4>1. ASSUME NEW p \in Peers \ {m.peer}, registered[p] = s PROVE FALSE
        <5>1. session[s].control /\ session[s].peer = p BY <4>1, SlotsOwned DEF DirectoryIsSound
        <5> QED BY <1>1, <4>1, <5>1 DEF Pairs
      <4> QED BY <2>1, <2>2, <4>1
    <3>2. \A p \in Peers : registered'[p] # NoSlot =>
              LET x == session'[registered'[p]] IN x.live /\ x.control /\ x.peer = p
      <4> SUFFICES ASSUME NEW p \in Peers, registered'[p] # NoSlot
                   PROVE  LET x == session'[registered'[p]] IN x.live /\ x.control /\ x.peer = p
        OBVIOUS
      <4>1. CASE p = m.peer BY <1>1, <2>3, <2>4, <3>1, <4>1
      <4>2. CASE p # m.peer
        <5>1. registered'[p] = registered[p] /\ registered[p] \in Slots \ {s}
          BY <2>2, <3>1, <4>2
        <5>2. session'[registered'[p]] = session[registered[p]] BY <2>4, <5>1
        <5> QED BY <5>1, <5>2, SlotsOwned DEF DirectoryIsSound
      <4> QED BY <4>1, <4>2
    <3>3. \A x \in Slots : session'[x].live /\ session'[x].control => registered'[session'[x].peer] = x
      <4> SUFFICES ASSUME NEW x \in Slots \ {s}, session[x].live, session[x].control
                   PROVE  registered'[session[x].peer] = x
        BY <2>3, <2>4, <3>1
      <4>1. registered[session[x].peer] = x /\ session[x].peer \in Peers
        BY SlotsOwned, RelayAssumption DEF DirectoryIsSound, Live, Pairs
      <4>2. session[x].peer # m.peer BY <1>3, <4>1, SlotsOwned DEF m
      <4> QED BY <3>1, <4>1, <4>2
    <3>4. \A x \in waiting' : session'[x].live /\ ~ session'[x].control /\ ~ session'[x].tunnel
      BY <1>1, <2>1, <2>4 DEF DirectoryIsSound, TypeOK
    <3>5. \A x \in Slots : session'[x].tunnel => session'[session'[x].paired].paired = x
      BY <2>6 DEF Pairs
    <3> QED BY <3>2, <3>3, <3>4, <3>5 DEF DirectoryIsSound, Live
  <2> QED BY <2>5, <2>6, <2>7, GrantedKeeps
<1> QED BY <1>2, <1>3
\* A call waits under its ticket, on a session that is neither registered nor a
\* tunnel, and does not write under the name of the peer it calls.
LEMMA DialStepAtRelay ==
    ASSUME IInv, NEW s \in Slots, Route(s), RouteDial(s, Head(up[s])),
           Head(up[s]).type = "dial", ~ session[s].control
    PROVE  IInv'
<1> DEFINE m == Head(up[s])
<1> USE DEF IInv
<1>1. /\ session[s].live /\ ~ session[s].tunnel /\ s \notin waiting /\ m \in Requests
      /\ m.peer = Owner(s) /\ session[s].paired = NoSlot /\ UNCHANGED <<end, relay, member>>
  BY Routed DEF Route
<1>2. CASE Drop(s, waiting) /\ down' = ToClient(down, s, Unavailable)
  BY <1>1, <1>2, DropStep
<1>3. ASSUME NEW r \in Receivers(m),
             /\ session' = [session EXCEPT ![s].peer = session[r].peer]
             /\ waiting' = waiting \cup {s}
             /\ down' = ToClient(down, r, Incoming(s, m.peer))
             /\ up' = [up EXCEPT ![s] = Tail(@)]
             /\ UNCHANGED <<registered, cut>>
      PROVE  IInv'
  <2> DEFINE v == [session[s] EXCEPT !.peer = session[r].peer]
  <2>1. session \in [Slots -> Sessions] /\ down \in [Slots -> Seq(Answers)]
    BY DEF TypeOK, Sessions
  <2>2. r \in Slots
    <3>1. m.call.to \in Peers BY <1>1, RelayAssumption DEF Requests
    <3>2. registered \in [Peers -> Slots \cup {NoSlot}] BY DEF TypeOK
    <3> QED BY <3>1, <3>2 DEF Receivers
  <2>3. /\ v \in Sessions /\ v.live = session[s].live /\ ~ v.control
        /\ ~ v.tunnel /\ v.paired = session[s].paired
    <3>1. session[s] \in Sessions /\ session[r].peer \in Peers \cup {NoPeer}
      BY <2>1, <2>2 DEF Sessions
    <3> QED BY <1>1, <3>1 DEF Sessions
  <2> HIDE DEF v
  <2>4. session' \in [Slots -> Sessions] /\ session'[s] = v /\ \A x \in Slots \ {s} : session'[x] = session[x]
    <3>1. session' = [session EXCEPT ![s] = v] BY <1>3 DEF v
    <3> QED BY <2>1, <2>3, <3>1
  <2>5. Granted(s)
    <3>1. Incoming(s, m.peer) \in Answers /\ Incoming(s, m.peer).type # "challenge"
      BY <1>1, SlotsOwned DEF Incoming, Answers
    <3>2. /\ down' \in [Slots -> Seq(Answers)]
          /\ \A x \in Slots : \A n \in DOMAIN down'[x] : down'[x][n].type = "challenge" =>
                n \in DOMAIN down[x] /\ down[x][n].type = "challenge"
      BY <1>3, <2>1, <2>2, <3>1, Told
    <3>3. \A x \in Slots : session'[x].live = session[x].live BY <2>3, <2>4
    <3>4. \A x \in Slots : ~ session[x].live => session'[x] = session[x] BY <1>1, <2>4
    <3>5. registered' \in [Peers -> Slots \cup {NoSlot}] BY <1>3 DEF TypeOK
    <3>6. waiting' \subseteq waiting \cup (IF Head(up[s]).type = "register" THEN {} ELSE {s})
      BY <1>3
    <3> QED BY <1>1, <1>3, <2>4, <3>2, <3>3, <3>4, <3>5, <3>6 DEF Granted, Sessions
  <2>6. Pairs'
    <3>1. \A x \in Slots : session'[x].tunnel = session[x].tunnel /\ session'[x].paired = session[x].paired
      BY <1>1, <2>1, <2>3, <2>4 DEF Sessions
    <3>2. \A x \in Slots : session'[x].control => session'[x].peer = Owner(x)
      BY <2>3, <2>4 DEF Pairs
    <3> QED BY <2>1, <3>1, <3>2 DEF Pairs, Sessions
  <2>7. DirectoryIsSound'
    <3>1. \A p \in Peers : registered[p] # s BY SlotsOwned DEF DirectoryIsSound
    <3>2. \A p \in Peers : registered'[p] # NoSlot =>
              LET x == session'[registered'[p]] IN x.live /\ x.control /\ x.peer = p
      <4> SUFFICES ASSUME NEW p \in Peers, registered[p] # NoSlot
                   PROVE  LET x == session'[registered[p]] IN x.live /\ x.control /\ x.peer = p
        BY <1>3
      <4>1. registered[p] \in Slots \ {s} BY <3>1 DEF TypeOK
      <4>2. session'[registered[p]] = session[registered[p]] BY <2>4, <4>1
      <4> QED BY <4>2 DEF DirectoryIsSound
    <3>3. \A x \in Slots : session'[x].live /\ session'[x].control => registered'[session'[x].peer] = x
      BY <1>3, <2>3, <2>4 DEF DirectoryIsSound, Live
    <3>4. \A x \in waiting' : session'[x].live /\ ~ session'[x].control /\ ~ session'[x].tunnel
      <4>1. session'[s].live /\ ~ session'[s].control /\ ~ session'[s].tunnel BY <1>1, <2>3, <2>4
      <4>2. \A x \in waiting : x \in Slots \ {s} BY <1>1 DEF TypeOK
      <4> QED BY <1>3, <2>4, <4>1, <4>2 DEF DirectoryIsSound
    <3>5. \A x \in Slots : session'[x].tunnel => session'[session'[x].paired].paired = x
      BY <2>6 DEF Pairs
    <3> QED BY <3>2, <3>3, <3>4, <3>5 DEF DirectoryIsSound, Live
  <2> QED BY <2>5, <2>6, <2>7, GrantedKeeps
<1> QED BY <1>2, <1>3 DEF RouteDial

\* A ticket pairs two sessions that were neither registered nor paired before.
LEMMA AcceptStep ==
    ASSUME IInv, NEW s \in Slots, Route(s), RouteAccept(s, Head(up[s])),
           Head(up[s]).type = "accept", ~ session[s].control
    PROVE  IInv'
<1> DEFINE m == Head(up[s])
           t == m.ticket
<1> USE DEF IInv
<1>1. /\ session[s].live /\ ~ session[s].tunnel /\ s \notin waiting /\ m \in Requests
      /\ m.peer = Owner(s) /\ session[s].paired = NoSlot /\ UNCHANGED <<end, relay, member>>
  BY Routed DEF Route
<1>2. CASE ~ (t \in waiting /\ session[t].peer = m.peer)
  <2>1. Drop(s, waiting \ {t}) /\ UNCHANGED down BY <1>2 DEF RouteAccept
  <2> QED BY <1>1, <2>1, DropStep
<1>3. CASE t \in waiting /\ session[t].peer = m.peer
  <2>1. /\ session' = [session EXCEPT ![t].tunnel = TRUE, ![t].paired = s,
                                      ![s].tunnel = TRUE, ![s].paired = t]
        /\ waiting' = waiting \ {t}
        /\ down' = ToClient(ToClient(down, t, Ready(session[t].peer)), s, Ready(NoPeer))
        /\ up' = [up EXCEPT ![s] = Tail(@)]
        /\ UNCHANGED <<registered, cut>>
    BY <1>3 DEF RouteAccept
  <2>2. /\ session \in [Slots -> Sessions] /\ down \in [Slots -> Seq(Answers)]
        /\ t \in Slots /\ t # s /\ session[t].live /\ ~ session[t].control /\ ~ session[t].tunnel
        /\ session[t].paired = NoSlot
    BY <1>1, <1>3 DEF TypeOK, Sessions, DirectoryIsSound, Pairs
  <2> HIDE DEF t, m
  <2> DEFINE Pair(x, y) == [session[x] EXCEPT !.tunnel = TRUE, !.paired = y]
  <2>3. \A x, y \in Slots : /\ Pair(x, y) \in Sessions /\ Pair(x, y).live = session[x].live
                            /\ Pair(x, y).control = session[x].control /\ Pair(x, y).peer = session[x].peer
                            /\ Pair(x, y).tunnel /\ Pair(x, y).paired = y
    BY <2>2 DEF Sessions
  <2>4. /\ session' \in [Slots -> Sessions] /\ session'[s] = Pair(s, t) /\ session'[t] = Pair(t, s)
        /\ \A x \in Slots \ {s, t} : session'[x] = session[x]
    <3>1. session' = [session EXCEPT ![t] = Pair(t, s), ![s] = Pair(s, t)] BY <2>1, <2>2
    <3>2. Pair(t, s) \in Sessions /\ Pair(s, t) \in Sessions BY <2>2, <2>3
    <3> HIDE DEF Pair
    <3> QED BY <2>2, <3>1, <3>2
  <2> HIDE DEF Pair
  <2>5. ASSUME NEW x \in Slots
        PROVE  /\ session'[x].live = session[x].live /\ session'[x].control = session[x].control
               /\ session'[x].peer = session[x].peer
    <3>1. CASE x \in {s, t} BY <3>1, <2>2, <2>3, <2>4
    <3>2. CASE x \notin {s, t}
      <4>1. session'[x] = session[x] BY <3>2, <2>4
      <4> QED BY <4>1
    <3> QED BY <3>1, <3>2
  <2>6. Granted(s)
    <3>1. /\ Ready(session[t].peer) \in Answers /\ Ready(session[t].peer).type # "challenge"
          /\ Ready(NoPeer) \in Answers /\ Ready(NoPeer).type # "challenge"
      BY <2>2 DEF Ready, Answers, Sessions
    <3> DEFINE first == ToClient(down, t, Ready(session[t].peer))
    <3>2. /\ first \in [Slots -> Seq(Answers)]
          /\ \A x \in Slots : \A n \in DOMAIN first[x] : first[x][n].type = "challenge" =>
                n \in DOMAIN down[x] /\ down[x][n].type = "challenge"
      BY <2>2, <3>1, Told
    <3>3. down' = ToClient(first, s, Ready(NoPeer)) BY <2>1
    <3> HIDE DEF first
    <3>4. /\ down' \in [Slots -> Seq(Answers)]
          /\ \A x \in Slots : \A n \in DOMAIN down'[x] : down'[x][n].type = "challenge" =>
                n \in DOMAIN first[x] /\ first[x][n].type = "challenge"
      BY <3>1, <3>2, <3>3, Told
    <3>5. \A x \in Slots : \A n \in DOMAIN down'[x] : down'[x][n].type = "challenge" =>
              n \in DOMAIN down[x] /\ down[x][n].type = "challenge"
      BY <3>2, <3>4
    <3>6. \A x \in Slots : ~ session[x].live => session'[x] = session[x] BY <1>1, <2>2, <2>4
    <3>7. registered' \in [Peers -> Slots \cup {NoSlot}] BY <2>1 DEF TypeOK
    <3>8. waiting' \subseteq waiting BY <2>1
    <3> QED BY <1>1, <2>1, <2>4, <2>5, <3>4, <3>5, <3>6, <3>7, <3>8 DEF Granted, Sessions
  <2>7. Pairs'
    <3> SUFFICES ASSUME NEW x \in Slots
                 PROVE  /\ session'[x].tunnel <=> session'[x].paired # NoSlot
                        /\ session'[x].tunnel => session'[session'[x].paired].paired = x
                        /\ session'[x].control => session'[x].peer = Owner(x)
      BY DEF Pairs
    <3>1. session'[x].control => session'[x].peer = Owner(x) BY <2>5 DEF Pairs
    <3>2. CASE x \in {s, t}
      <4>1. /\ session'[s].tunnel /\ session'[s].paired = t
            /\ session'[t].tunnel /\ session'[t].paired = s
        BY <2>2, <2>3, <2>4
      <4> QED BY <3>1, <3>2, <4>1, <2>2, SlotsOwned
    <3>3. CASE x \notin {s, t}
      <4>1. session'[x] = session[x] BY <2>4, <3>3
      <4>2. session[x].tunnel => session[x].paired \in Slots \ {s, t}
        BY <1>1, <2>2, SlotsOwned DEF Pairs, Sessions
      <4>3. session[x].tunnel => session'[session[x].paired] = session[session[x].paired]
        BY <2>4, <4>2
      <4> QED BY <3>1, <4>1, <4>3 DEF Pairs
    <3> QED BY <3>2, <3>3
  <2>8. DirectoryIsSound'
    <3>1. \A p \in Peers : registered'[p] # NoSlot =>
              LET x == session'[registered'[p]] IN x.live /\ x.control /\ x.peer = p
      <4> SUFFICES ASSUME NEW p \in Peers, registered[p] # NoSlot
                   PROVE  LET x == session'[registered[p]] IN x.live /\ x.control /\ x.peer = p
        BY <2>1
      <4>1. registered[p] \in Slots BY DEF TypeOK
      <4> QED BY <2>5, <4>1 DEF DirectoryIsSound
    <3>2. \A x \in Slots : session'[x].live /\ session'[x].control => registered'[session'[x].peer] = x
      BY <2>1, <2>5 DEF DirectoryIsSound, Live
    <3>3. \A x \in waiting' : session'[x].live /\ ~ session'[x].control /\ ~ session'[x].tunnel
      <4>1. \A x \in waiting' : x \in waiting /\ x \in Slots \ {s, t} BY <1>1, <2>1 DEF TypeOK
      <4> QED BY <2>4, <4>1 DEF DirectoryIsSound
    <3>4. \A x \in Slots : session'[x].tunnel => session'[session'[x].paired].paired = x
      BY <2>7 DEF Pairs
    <3> QED BY <3>1, <3>2, <3>3, <3>4 DEF DirectoryIsSound, Live
  <2> QED BY <2>6, <2>7, <2>8, GrantedKeeps
<1> QED BY <1>2, <1>3
LEMMA RouteStep == ASSUME IInv, NEW s \in Slots, Route(s) PROVE IInv'
<1> DEFINE m == Head(up[s])
<1>1. session[s].live /\ UNCHANGED <<end, relay, member>> BY DEF Route
<1>2. CASE Drop(s, waiting) /\ UNCHANGED down BY <1>1, <1>2, DropStep
<1>3. CASE m.type = "register" /\ RouteRegister(s, m) BY <1>3, RegisterStep
<1>4. CASE m.type = "dial" /\ ~ session[s].control /\ RouteDial(s, m) BY <1>4, DialStepAtRelay
<1>5. CASE m.type = "accept" /\ ~ session[s].control /\ RouteAccept(s, m) BY <1>5, AcceptStep
<1>6. m.type \in {"register", "dial", "accept"} BY Routed DEF Requests
<1>7. CASE m.nonce # s BY <1>2, <1>7 DEF Route
<1>8. CASE m.nonce = s
  <2>1. CASE m.type = "register" BY <1>3, <1>8, <2>1 DEF Route
  <2>2. CASE m.type = "dial" BY <1>2, <1>4, <1>8, <2>2 DEF Route
  <2>3. CASE m.type = "accept" BY <1>2, <1>5, <1>8, <2>3 DEF Route
  <2> QED BY <1>6, <2>1, <2>2, <2>3
<1> QED BY <1>7, <1>8
-----------------------------------------------------------------------------
(***************************************************************************)
(* Faults.                                                                 *)
(***************************************************************************)
LEMMA CutStep == ASSUME IInv, NEW c \in Clients, Cut(c) PROVE IInv'
<1>1. PICK S \in SUBSET Slots :
         /\ cut' = cut \cup S
         /\ up' = [s \in Slots |-> IF s \in S THEN <<>> ELSE up[s]]
         /\ down' = [s \in Slots |-> IF s \in S THEN <<>> ELSE down[s]]
         /\ UNCHANGED <<end, session, registered, waiting, relay, member>>
  <2>1. PICK closing \in SUBSET {s \in Live : ~ end[s].open} :
           LET S == {s \in Slots : end[s].open /\ Owner(s) = c} \cup closing
           IN  /\ cut' = cut \cup S
               /\ up' = [s \in Slots |-> IF s \in S THEN <<>> ELSE up[s]]
               /\ down' = [s \in Slots |-> IF s \in S THEN <<>> ELSE down[s]]
               /\ UNCHANGED <<end, session, registered, waiting, relay, member>>
    BY DEF Cut
  <2>2. {s \in Slots : end[s].open /\ Owner(s) = c} \cup closing \in SUBSET Slots BY DEF Live
  <2> QED BY <2>1, <2>2
<1>2. \A x \in Slots : up'[x] \in {<<>>, up[x]} /\ down'[x] \in {<<>>, down[x]} BY <1>1
<1>3. TypeOK'
  <2>1. up' \in [Slots -> Seq(Requests)] BY <1>1 DEF IInv, TypeOK
  <2>2. down' \in [Slots -> Seq(Answers)] BY <1>1 DEF IInv, TypeOK
  <2> QED BY <1>1, <2>1, <2>2 DEF IInv, TypeOK
<1>4. ClientSide' BY <1>1 DEF IInv, ClientSide
<1>5. RequestsAreOwn'
  <2>1. ASSUME NEW x \in Slots
        PROVE  /\ ~ session[x].live => session[x] = Gone /\ up'[x] = <<>>
               /\ \A n \in DOMAIN up'[x] : up'[x][n].peer = Owner(x)
    <3>1. CASE up'[x] = up[x] BY <3>1 DEF IInv, RequestsAreOwn
    <3>2. CASE up'[x] = <<>> BY <3>2 DEF IInv, RequestsAreOwn
    <3> QED BY <1>2, <3>1, <3>2
  <2> QED BY <1>1, <2>1 DEF RequestsAreOwn
<1>6. SinglePurpose'
  <2> SUFFICES ASSUME NEW x \in Slots
               PROVE  /\ end[x].open /\ end[x].action = "control" => x \notin waiting /\ Registers1(x)'
                      /\ up'[x] # <<>> => x \notin waiting
                      /\ Registers1(x)' \/ Len(up'[x]) = 1
                      /\ end[x].open /\ end[x].action # "control" =>
                            \A n \in DOMAIN down'[x] :
                                down'[x][n].type = "challenge" => n = 1 /\ Unanswered(x)'
    BY <1>1 DEF SinglePurpose
  <2>1. /\ Registers1(x) => Registers1(x)'
        /\ Unanswered(x) => Unanswered(x)'
        /\ Registers1(x)' \/ up'[x] = up[x]
    BY <1>1, <1>2 DEF Registers1, Unanswered
  <2>2. \A n \in DOMAIN down'[x] : n \in DOMAIN down[x] /\ down'[x][n] = down[x][n]
    BY <1>2
  <2>3. SinglePurpose BY DEF IInv
  <2> QED BY <1>2, <2>1, <2>2, <2>3 DEF SinglePurpose
<1>7. Pairs' BY <1>1 DEF IInv, Pairs
<1>8. DirectoryIsSound' BY <1>1 DEF IInv, DirectoryIsSound, Live
<1> QED BY <1>3, <1>4, <1>5, <1>6, <1>7, <1>8 DEF IInv

LEMMA RestartRelayStep == ASSUME IInv, RestartRelay PROVE IInv'
<1> USE DEF RestartRelay
<1>1. TypeOK' BY DEF IInv, TypeOK, Gone
<1>2. ClientSide' BY DEF IInv, ClientSide
<1>3. RequestsAreOwn' BY DEF RequestsAreOwn
<1>4. SinglePurpose' BY DEF IInv, SinglePurpose, Registers1, Unanswered
<1>5. Pairs' BY DEF Pairs, Gone
<1>6. DirectoryIsSound' BY DEF DirectoryIsSound, Live, Gone
<1> QED BY <1>1, <1>2, <1>3, <1>4, <1>5, <1>6 DEF IInv
-----------------------------------------------------------------------------
\* Every step of clients, relay and network keeps the invariant.
LEMMA NextIInv == IInv /\ [Next]_vars => IInv'
<1> SUFFICES ASSUME IInv, [Next]_vars PROVE IInv' OBVIOUS
<1>1. ASSUME NEW c \in Clients, ConnectRelay(c) PROVE IInv' BY <1>1, ConnectRelayStep
<1>2. ASSUME NEW c \in Clients, ReadRelay(c) PROVE IInv' BY <1>2, ReadRelayStep
<1>3. ASSUME NEW c \in Clients, ChangeMembership(c) PROVE IInv' BY <1>3, ChangeMembershipStep
<1>4. ASSUME NEW c \in Clients, Cut(c) PROVE IInv' BY <1>4, CutStep
<1>5. ASSUME NEW c \in Clients, RestartClient(c) PROVE IInv'
  <2> DEFINE S == {s \in Slots : end[s].open /\ Owner(s) = c}
  <2>1. ClientCloses(S) /\ UNCHANGED <<session, up, registered, waiting, member>>
    BY <1>5 DEF RestartClient
  <2>2. S \in SUBSET Slots OBVIOUS
  <2> HIDE DEF S
  <2> QED BY <2>1, <2>2, ClientClosesStep
<1>6. ASSUME NEW call \in Calls, Dial(call) PROVE IInv' BY <1>6, DialStep
<1>7. ASSUME NEW s \in Slots, ReadLink(s) PROVE IInv' BY <1>7, ReadLinkStep
<1>8. ASSUME NEW s \in Slots, ClientSeesClose(s) \/ TickGivesUp(s) \/ Abort(s) PROVE IInv'
  <2>1. ClientCloses({s}) /\ UNCHANGED <<session, up, registered, waiting, member>>
    BY <1>8 DEF ClientSeesClose, TickGivesUp, Abort
  <2> QED BY <2>1, ClientClosesStep
<1>9. ASSUME NEW s \in Slots, Route(s) PROVE IInv' BY <1>9, RouteStep
<1>10. ASSUME NEW s \in Slots, RelaySeesClose(s) \/ TickIdle(s) PROVE IInv'
  <2>1. session[s].live /\ Drop(s, waiting) /\ UNCHANGED <<end, down, relay, member>>
    BY <1>10 DEF RelaySeesClose, TickIdle
  <2> QED BY <2>1, DropStep
<1>11. CASE RestartRelay BY <1>11, RestartRelayStep
<1>12. CASE UNCHANGED vars
  BY <1>12 DEF vars, IInv, TypeOK, ClientSide, RequestsAreOwn, SinglePurpose, Registers1,
               Unanswered, Pairs, DirectoryIsSound, Live
<1> QED BY <1>1, <1>2, <1>3, <1>4, <1>5, <1>6, <1>7, <1>8, <1>9, <1>10, <1>11, <1>12 DEF Next

\* The argument behind the two theorems: IInv holds as long as the system runs.
THEOREM Invariance == Spec => []IInv
<1>1. Init => IInv BY InitIInv
<1>2. IInv /\ [Next]_vars => IInv' BY NextIInv
<1> QED BY <1>1, <1>2, PTL DEF Spec

\* A client never registers with the nonce of a connection that is gone, and
\* everything on the wire is what the two programs write.
THEOREM RelayTypesThm == Spec => []TypeOK
<1>1. IInv => TypeOK BY DEF IInv
<1> QED BY <1>1, Invariance, PTL

\* The plain pointers of CommunityRouter - registered_, waiting_ and paired - never
\* outlive the sessions they point at, and never point at the wrong one.
THEOREM DirectoryIsSoundThm == Spec => []DirectoryIsSound
<1>1. IInv => DirectoryIsSound BY DEF IInv
<1> QED BY <1>1, Invariance, PTL
-----------------------------------------------------------------------------
(***************************************************************************)
(* Who is bridged with whom.                                               *)
(***************************************************************************)
\* What the two ends of a connection say of it.  A link that takes a call
\* expects the owner of its ticket, and one that calls a peer, and only that
\* peer, expects it; a link is in TLS only when its connection is a tunnel, and
\* the caller then expects whom it is bridged with.
LinkFits(e, r) ==
    /\ ~ e.open => ~ e.tls
    /\ e.open /\ e.action = "accept" => e.expected = Owner(e.ticket)
    /\ e.open /\ e.action = "dial" /\ ~ e.call.discover => e.expected = e.call.to
    /\ e.tls /\ r.live => r.tunnel /\ (e.action = "dial" => e.expected = Owner(r.paired))

\* What is on its way to a client: a ticket comes with the peer that called, a
\* caller is told whom it is bridged with.
AnswerFits(e, r, m) ==
    /\ m.type = "incoming" => m.peer = Owner(m.ticket)
    /\ m.type = "ready" /\ e.open /\ r.live =>
          r.tunnel /\ (e.action = "dial" => m.peer = Owner(r.paired))

\* What is on its way to the relay is the purpose of the connection.
RequestFits(e, m) ==
    m.type # "register" /\ e.open => m.type = e.action /\ m.call = e.call /\ m.ticket = e.ticket

\* A connection that calls q, and one that takes the call of connection s.
Calling(e, q) == e.open => e.action = "dial" /\ (~ e.call.discover => e.call.to = q)
Taking(e, s) == e.open => e.action = "accept" /\ e.ticket = s

\* One end of a tunnel has called the owner of the other, which took the call.
Bridged(s, t) == Calling(end[s], Owner(t)) /\ Taking(end[t], s)

TunnelsFit ==
    /\ \A s \in Slots :
          /\ LinkFits(end[s], session[s])
          /\ \A m \in ToSet(down[s]) : AnswerFits(end[s], session[s], m)
          /\ \A m \in ToSet(up[s]) : RequestFits(end[s], m)
          /\ s \in waiting => Calling(end[s], session[s].peer)
    /\ \A s \in Slots : session[s].tunnel =>
          Bridged(s, session[s].paired) \/ Bridged(session[s].paired, s)
-----------------------------------------------------------------------------
(***************************************************************************)
(* What a queue holds.                                                     *)
(***************************************************************************)
LEMMA HeldBy ==
    ASSUME NEW S, NEW q \in Seq(S)
    PROVE  /\ q # <<>> => Head(q) \in ToSet(q) /\ ToSet(Tail(q)) \subseteq ToSet(q)
           /\ \A m \in S : ToSet(Append(q, m)) \subseteq ToSet(q) \cup {m}
<1>1. ASSUME q # <<>> PROVE Head(q) \in ToSet(q) /\ ToSet(Tail(q)) \subseteq ToSet(q)
  BY <1>1, Taken DEF ToSet
<1>2. ASSUME NEW m \in S PROVE ToSet(Append(q, m)) \subseteq ToSet(q) \cup {m}
  BY <1>2, Appended DEF ToSet
<1> QED BY <1>1, <1>2

LEMMA Few == ToSet(<<>>) = {} /\ \A m : ToSet(<<m>>) = {m}
BY DEF ToSet

\* A message is in the queue that it was told or asked on, or nowhere.
LEMMA Delivered ==
    ASSUME NEW queues \in [Slots -> Seq(Answers)], NEW r \in Slots, NEW m \in Answers
    PROVE  /\ ToClient(queues, r, m) \in [Slots -> Seq(Answers)]
           /\ \A x \in Slots : /\ ToSet(ToClient(queues, r, m)[x]) \subseteq ToSet(queues[x]) \cup {m}
                               /\ x # r => ToClient(queues, r, m)[x] = queues[x]
<1>1. CASE ToClient(queues, r, m) = queues BY <1>1
<1>2. CASE ToClient(queues, r, m) = [queues EXCEPT ![r] = Append(@, m)]
  <2>1. Append(queues[r], m) \in Seq(Answers) BY Appended
  <2>2. ToSet(Append(queues[r], m)) \subseteq ToSet(queues[r]) \cup {m} BY HeldBy
  <2> QED BY <1>2, <2>1, <2>2
<1> QED BY <1>1, <1>2 DEF ToClient

\* What is known of one connection.
Fits(s) ==
    /\ LinkFits(end[s], session[s])
    /\ \A m \in ToSet(down[s]) : AnswerFits(end[s], session[s], m)
    /\ \A m \in ToSet(up[s]) : RequestFits(end[s], m)
    /\ s \in waiting => Calling(end[s], session[s].peer)
Tunnel(s) ==
    session[s].tunnel => Bridged(s, session[s].paired) \/ Bridged(session[s].paired, s)

LEMMA Each == TunnelsFit <=> \A s \in Slots : Fits(s) /\ Tunnel(s)
BY DEF TunnelsFit, Fits, Tunnel

\* A connection of which nothing has changed but that messages were taken or lost.
LEMMA SameFits ==
    ASSUME NEW s \in Slots, Fits(s), end'[s] = end[s], session'[s] = session[s],
           s \in waiting' => s \in waiting,
           ToSet(down[s])' \subseteq ToSet(down[s]), ToSet(up[s])' \subseteq ToSet(up[s])
    PROVE  Fits(s)'
BY DEF Fits

\* A tunnel whose ends are what they were, or have been closed.
SameOrClosed(s) == end'[s] = end[s] \/ ~ end'[s].open
LEMMA SameTunnel ==
    ASSUME NEW s \in Slots, Tunnel(s),
           session'[s].tunnel => session[s].tunnel /\ session'[s].paired = session[s].paired,
           session[s].tunnel => SameOrClosed(s) /\ SameOrClosed(session[s].paired)
    PROVE  Tunnel(s)'
BY DEF Tunnel, Bridged, Calling, Taking, SameOrClosed

LEMMA InitTunnels == Init => TunnelsFit
BY Few DEF Init, TunnelsFit, LinkFits, Closed, Gone
-----------------------------------------------------------------------------
(***************************************************************************)
(* Closing and opening.                                                    *)
(***************************************************************************)
LEMMA DroppedFits == ASSUME IInv, TunnelsFit, NEW s \in Slots, Dropped(s) PROVE TunnelsFit'
<1> SUFFICES ASSUME NEW x \in Slots PROVE Fits(x)' /\ Tunnel(x)' BY Each DEF TunnelsFit, Fits, Tunnel
<1>1. Fits(x) /\ Tunnel(x) BY Each
<1>2. end' = end /\ up'[x] \in {<<>>, up[x]} /\ (x \in waiting' => x \in waiting \ All(s))
  BY DEF Dropped
<1>3. ToSet(up[x])' \subseteq ToSet(up[x]) BY <1>2, Few
<1>4. \A m \in ToSet(down[x])' : m \in ToSet(down[x]) \/ m = Unavailable
  <2>1. Unavailable \in Answers BY DEF Unavailable, Answers
  <2>2. down \in [Slots -> Seq(Answers)] BY DEF IInv, TypeOK
  <2>3. ToSet(ToClient(down, s, Unavailable)[x]) \subseteq ToSet(down[x]) \cup {Unavailable}
    BY <2>1, <2>2, Delivered
  <2>4. down' = down \/ down' = ToClient(down, s, Unavailable) BY DEF Dropped
  <2> QED BY <2>3, <2>4
<1>5. \A e, r : AnswerFits(e, r, Unavailable) BY DEF AnswerFits, Unavailable
<1>6. CASE x \in All(s)
  <2>1. session'[x] = Gone BY <1>6 DEF Dropped
  <2>2. ~ Gone.live /\ ~ Gone.tunnel BY DEF Gone
  <2> QED BY <1>1, <1>2, <1>3, <1>4, <1>5, <1>6, <2>1, <2>2 DEF Fits, Tunnel, LinkFits, AnswerFits
<1>7. CASE x \notin All(s)
  <2>1. session'[x] = session[x] BY <1>7 DEF Dropped
  <2>2. Fits(x)' BY <1>1, <1>2, <1>3, <1>4, <1>5, <2>1 DEF Fits
  <2>3. Tunnel(x)' BY <1>1, <1>2, <2>1, SameTunnel DEF SameOrClosed
  <2> QED BY <2>2, <2>3
<1> QED BY <1>6, <1>7

LEMMA ClosesFits == ASSUME IInv, TunnelsFit, NEW S \in SUBSET Slots, Closes(S) PROVE TunnelsFit'
<1> SUFFICES ASSUME NEW x \in Slots PROVE Fits(x)' /\ Tunnel(x)' BY Each DEF TunnelsFit, Fits, Tunnel
<1>1. Fits(x) /\ Tunnel(x) BY Each
<1>2. UNCHANGED <<session, up, waiting>> /\ ~ Closed.open /\ ~ Closed.tls BY DEF Closes, Closed
<1>3. Fits(x)'
  <2>1. CASE x \in S
    <3>1. end'[x] = Closed /\ down'[x] = <<>> BY <2>1 DEF Closes
    <3> QED BY <1>1, <1>2, <3>1, Few DEF Fits, LinkFits, RequestFits, Calling
  <2>2. CASE x \notin S
    <3>1. end'[x] = end[x] /\ down'[x] = down[x] BY <2>2 DEF Closes
    <3> QED BY <1>1, <1>2, <3>1, SameFits
  <2> QED BY <2>1, <2>2
<1>4. \A y \in Slots : SameOrClosed(y) BY <1>2 DEF Closes, SameOrClosed
<1>5. session[x].tunnel => session[x].paired \in Slots BY DEF IInv, TypeOK, Pairs
<1>6. Tunnel(x)' BY <1>1, <1>2, <1>4, <1>5, SameTunnel
<1> QED BY <1>3, <1>6

\* A connection that is opened is not part of a tunnel yet.
LEMMA OpenedFits ==
    ASSUME IInv, TunnelsFit, NEW s \in Slots, NEW e \in Ends, Opened(s, e), ~ e.tls,
           e.action = "accept" => e.expected = Owner(e.ticket),
           e.action = "dial" => e.expected = e.call.to,
           \A x \in Slots \ {s} : ToSet(down[x])' \subseteq ToSet(down[x])
    PROVE  TunnelsFit'
<1> SUFFICES ASSUME NEW x \in Slots PROVE Fits(x)' /\ Tunnel(x)' BY Each DEF TunnelsFit, Fits, Tunnel
<1>1. Fits(x) /\ Tunnel(x) BY Each
<1>2. /\ end'[s] = e /\ \A y \in Slots \ {s} : end'[y] = end[y] /\ session'[y] = session[y]
      /\ UNCHANGED <<up, waiting>> /\ s \notin waiting
      /\ session'[s].tunnel = session[s].tunnel
  BY DEF Opened, IInv, TypeOK
<1>3. session[s] = Gone /\ up[s] = <<>> BY DEF Opened, IInv, RequestsAreOwn
<1>4. ~ session[s].tunnel BY <1>3 DEF Gone
<1>5. CASE x = s
  <2>1. \A m \in ToSet(down[s])' : m.type = "challenge"
    BY Few DEF Opened, Challenge
  <2>2. LinkFits(e, session'[s]) BY DEF LinkFits, Opened
  <2>3. \A m \in ToSet(down[s])' : AnswerFits(e, session'[s], m) BY <2>1 DEF AnswerFits
  <2> QED BY <1>2, <1>3, <1>4, <1>5, <2>2, <2>3, Few DEF Fits, Tunnel
<1>6. CASE x # s
  <2>1. Fits(x)' BY <1>1, <1>2, <1>6, SameFits
  <2>2. session[x].tunnel => session[x].paired \in Slots \ {s}
    BY <1>4, SlotsOwned DEF IInv, TypeOK, Pairs
  <2>3. Tunnel(x)' BY <1>1, <1>2, <1>6, <2>2, SameTunnel DEF SameOrClosed
  <2> QED BY <2>1, <2>3
<1> QED BY <1>5, <1>6
-----------------------------------------------------------------------------
(***************************************************************************)
(* The client's steps.                                                     *)
(***************************************************************************)
\* The client takes a message, and may write one for the purpose of the connection.
LEMMA AskedFits ==
    ASSUME IInv, TunnelsFit, NEW s \in Slots, NEW m \in Requests, RequestFits(end[s], m),
           up' = up \/ up' = ToRelay(up, s, m),
           down' = down \/ (down[s] # <<>> /\ down' = [down EXCEPT ![s] = Tail(@)]),
           UNCHANGED <<end, session, waiting>>
    PROVE  TunnelsFit'
<1> SUFFICES ASSUME NEW x \in Slots PROVE Fits(x)' /\ Tunnel(x)' BY Each DEF TunnelsFit, Fits, Tunnel
<1>1. Fits(x) /\ Tunnel(x) BY Each
<1>2. up \in [Slots -> Seq(Requests)] /\ down \in [Slots -> Seq(Answers)] BY DEF IInv, TypeOK
<1>3. \A n \in ToSet(up[x])' : n \in ToSet(up[x]) \/ (x = s /\ n = m)
  <2>1. CASE up'[x] = up[x] BY <2>1
  <2>2. CASE x = s /\ up'[s] = Append(up[s], m) BY <1>2, <2>2, HeldBy
  <2> QED BY <1>2, <2>1, <2>2 DEF ToRelay
<1>4. ToSet(down[x])' \subseteq ToSet(down[x]) BY <1>2, HeldBy
<1>5. Fits(x)' BY <1>1, <1>3, <1>4 DEF Fits
<1>6. Tunnel(x)' BY <1>1, SameTunnel DEF SameOrClosed
<1> QED BY <1>5, <1>6

\* What Open does is what is said of Opened.
LEMMA OpenedByOpen ==
    ASSUME IInv, NEW s \in Slots, NEW e \in Ends, NEW rest \in [Slots -> Seq(Answers)],
           ~ end[s].open, ~ session[s].live, s \notin waiting, e.open, Purpose(e),
           \A x \in Slots : rest[x] = down[x] \/ (end[x].open /\ end[x].action = "control"),
           end' = [end EXCEPT ![s] = e],
           session' = [session EXCEPT ![s].live = (Cardinality(Live) < MaxSessions)],
           down' = [rest EXCEPT ![s] = IF Cardinality(Live) < MaxSessions THEN <<Challenge>> ELSE <<>>],
           UNCHANGED <<up, cut, registered, waiting, member>>
    PROVE  Opened(s, e) /\ \A x \in Slots \ {s} : down'[x] = rest[x]
<1>1. <<Challenge>> \in Seq(Answers) /\ <<>> \in Seq(Answers) BY DEF Challenge, Answers
<1>2. /\ down' \in [Slots -> Seq(Answers)] /\ down'[s] \in {<<>>, <<Challenge>>}
      /\ \A x \in Slots \ {s} : down'[x] = rest[x]
  BY <1>1
<1>3. (Cardinality(Live) < MaxSessions) \in BOOLEAN OBVIOUS
<1>4. \E adopted \in BOOLEAN : session' = [session EXCEPT ![s].live = adopted] BY <1>3
<1> QED BY <1>2, <1>4 DEF Opened

LEMMA ConnectRelayFits ==
    ASSUME IInv, TunnelsFit, NEW c \in Clients, ConnectRelay(c) PROVE TunnelsFit'
<1> DEFINE s == FreeSlot(c)
           e == [Closed EXCEPT !.open = TRUE, !.action = "control"]
<1>1. FreeSlots(c) # {} BY DEF ConnectRelay, Open
<1>2. s \in Slots /\ ~ end[s].open /\ ~ session[s].live /\ s \notin waiting BY <1>1, FreeSlotIsFree
<1>3. e \in Ends /\ e.open /\ e.action = "control" /\ Purpose(e) /\ ~ e.tls
  BY DEF Ends, Closed, Purpose
<1>4. /\ end' = [end EXCEPT ![s] = e]
      /\ session' = [session EXCEPT ![s].live = (Cardinality(Live) < MaxSessions)]
      /\ down' = [down EXCEPT ![s] = IF Cardinality(Live) < MaxSessions THEN <<Challenge>> ELSE <<>>]
      /\ UNCHANGED <<up, cut, registered, waiting, member>>
  BY DEF ConnectRelay, Open
<1> HIDE DEF s, e
<1>5. Opened(s, e) /\ \A x \in Slots \ {s} : down'[x] = down[x]
  BY <1>2, <1>3, <1>4, OpenedByOpen DEF IInv, TypeOK
<1> QED BY <1>2, <1>3, <1>5, OpenedFits

LEMMA DialFits == ASSUME IInv, TunnelsFit, NEW call \in Calls, Dial(call) PROVE TunnelsFit'
<1> DEFINE s == FreeSlot(call.from)
           e == [Closed EXCEPT !.open = TRUE, !.action = "dial", !.call = call, !.expected = call.to]
<1>1. FreeSlots(call.from) # {} BY DEF Dial, Open
<1>2. s \in Slots /\ ~ end[s].open /\ ~ session[s].live /\ s \notin waiting BY <1>1, FreeSlotIsFree
<1>3. /\ e \in Ends /\ e.open /\ e.action = "dial" /\ Purpose(e) /\ ~ e.tls
      /\ e.expected = e.call.to
  BY RelayAssumption DEF Ends, Closed, Purpose
<1>4. /\ end' = [end EXCEPT ![s] = e]
      /\ session' = [session EXCEPT ![s].live = (Cardinality(Live) < MaxSessions)]
      /\ down' = [down EXCEPT ![s] = IF Cardinality(Live) < MaxSessions THEN <<Challenge>> ELSE <<>>]
      /\ UNCHANGED <<up, cut, registered, waiting, member>>
  BY DEF Dial, Open
<1> HIDE DEF s, e
<1>5. Opened(s, e) /\ \A x \in Slots \ {s} : down'[x] = down[x]
  BY <1>2, <1>3, <1>4, OpenedByOpen DEF IInv, TypeOK
<1> QED BY <1>2, <1>3, <1>5, OpenedFits

LEMMA ChangeMembershipFits ==
    ASSUME IInv, TunnelsFit, NEW c \in Clients, ChangeMembership(c) PROVE TunnelsFit'
<1> DEFINE s == relay[c].slot
           m == Register(c, relay[c].nonce, ~ member[c])
<1>1. UNCHANGED <<end, session, down, waiting>> BY DEF ChangeMembership
<1>2. CASE s = NoSlot \/ relay[c].nonce = NoSlot
  <2>1. up' = up BY <1>2 DEF ChangeMembership, Registers
  <2> QED BY <1>1, <2>1 DEF TunnelsFit, Bridged
<1>3. CASE s # NoSlot /\ relay[c].nonce # NoSlot
  <2>1. s \in Slots /\ relay[c].nonce \in Slots /\ (~ member[c]) \in BOOLEAN
    BY <1>3 DEF IInv, TypeOK
  <2>2. m \in Requests /\ m.type = "register" BY <2>1 DEF Register, Requests
  <2>3. up' = ToRelay(up, s, m) BY <1>3 DEF ChangeMembership, Registers
  <2>4. RequestFits(end[s], m) BY <2>2 DEF RequestFits
  <2> HIDE DEF s, m
  <2> QED BY <1>1, <2>1, <2>2, <2>3, <2>4, AskedFits
<1> QED BY <1>2, <1>3

LEMMA ReadRelayFits == ASSUME IInv, TunnelsFit, NEW c \in Clients, ReadRelay(c) PROVE TunnelsFit'
<1> DEFINE s == relay[c].slot
           m == Head(down[s])
           q == Register(c, s, member[c])
<1>1. /\ s \in Slots /\ down \in [Slots -> Seq(Answers)] /\ down[s] # <<>>
      /\ UNCHANGED waiting
  BY DEF ReadRelay, IInv, TypeOK
<1>2. m \in Answers /\ m \in ToSet(down[s]) BY <1>1, Taken, HeldBy
<1>3. q \in Requests /\ RequestFits(end[s], q)
  <2>1. member[c] \in BOOLEAN BY DEF IInv, TypeOK
  <2> QED BY <1>1, <2>1 DEF Register, Requests, RequestFits
<1>4. CASE m.type = "challenge"
  <2>1. up' = ToRelay(up, s, q) /\ down' = [down EXCEPT ![s] = Tail(@)] /\ UNCHANGED <<end, session>>
    BY <1>4 DEF ReadRelay
  <2> HIDE DEF s, q
  <2> QED BY <1>1, <1>3, <2>1, AskedFits
<1>5. CASE m.type = "registered" \/ (m.type = "incoming" /\ Cardinality(LinksOf(c)) >= MaxLinks)
  <2>1. up' = up /\ down' = [down EXCEPT ![s] = Tail(@)] /\ UNCHANGED <<end, session>>
    BY <1>5 DEF ReadRelay
  <2> HIDE DEF s, q
  <2> QED BY <1>1, <1>3, <2>1, AskedFits
<1>6. CASE m.type = "incoming" /\ ~ (Cardinality(LinksOf(c)) >= MaxLinks)
  <2> DEFINE f == FreeSlot(c)
             e == [Closed EXCEPT !.open = TRUE, !.action = "accept", !.expected = m.peer,
                                 !.ticket = m.ticket]
             rest == [down EXCEPT ![s] = Tail(@)]
  <2>1. /\ FreeSlots(c) # {} /\ end' = [end EXCEPT ![f] = e]
        /\ session' = [session EXCEPT ![f].live = (Cardinality(Live) < MaxSessions)]
        /\ down' = [rest EXCEPT ![f] = IF Cardinality(Live) < MaxSessions THEN <<Challenge>> ELSE <<>>]
        /\ UNCHANGED <<up, cut, registered, waiting, member>>
    BY <1>6 DEF ReadRelay, Open
  <2>2. f \in Slots /\ ~ end[f].open /\ ~ session[f].live /\ f \notin waiting BY <2>1, FreeSlotIsFree
  <2>3. m.peer \in Peers /\ m.ticket \in Slots /\ m.peer = Owner(m.ticket)
    <3>1. AnswerFits(end[s], session[s], m) BY <1>1, <1>2 DEF TunnelsFit
    <3> QED BY <1>2, <1>6, <3>1, RelayAssumption DEF Answers, AnswerFits
  <2>4. /\ e \in Ends /\ e.open /\ e.action = "accept" /\ Purpose(e) /\ ~ e.tls
        /\ e.expected = Owner(e.ticket)
    BY <2>3 DEF Ends, Closed, Purpose
  <2>5. /\ rest \in [Slots -> Seq(Answers)]
        /\ \A x \in Slots : /\ ToSet(rest[x]) \subseteq ToSet(down[x])
                            /\ rest[x] = down[x] \/ (end[x].open /\ end[x].action = "control")
    <3>1. Tail(down[s]) \in Seq(Answers) /\ ToSet(Tail(down[s])) \subseteq ToSet(down[s])
      BY <1>1, Taken, HeldBy
    <3>2. end[s].open /\ end[s].action = "control" BY <1>1, SlotsOwned DEF IInv, ClientSide
    <3> QED BY <1>1, <3>1, <3>2
  <2> HIDE DEF s, e, f, rest
  <2>6. Opened(f, e) /\ \A x \in Slots \ {f} : down'[x] = rest[x]
    BY <2>1, <2>2, <2>4, <2>5, OpenedByOpen
  <2> QED BY <2>2, <2>4, <2>5, <2>6, OpenedFits
<1> QED BY <1>4, <1>5, <1>6 DEF ReadRelay

\* A link that is told to be bridged expects whom it is bridged with.
LEMMA ReadLinkFits == ASSUME IInv, TunnelsFit, NEW s \in Slots, ReadLink(s) PROVE TunnelsFit'
<1> DEFINE m == Head(down[s])
<1>1. /\ end[s].open /\ end[s].action # "control" /\ down[s] # <<>> /\ down \in [Slots -> Seq(Answers)]
      /\ end \in [Slots -> Ends] /\ UNCHANGED <<session, waiting, registered, member>>
  BY DEF ReadLink, IInv, TypeOK, Ends
<1>2. m \in Answers /\ m \in ToSet(down[s]) BY <1>1, Taken, HeldBy
<1>3. CASE m.type = "challenge"
  <2>1. up' = ToRelay(up, s, Request(s)) /\ down' = [down EXCEPT ![s] = Tail(@)] /\ UNCHANGED end
    BY <1>3 DEF ReadLink
  <2>2. Request(s) \in Requests
    <3>1. Purpose(end[s]) /\ Owner(s) \in Clients BY <1>1, SlotsOwned DEF IInv, ClientSide
    <3>2. CASE end[s].action = "dial" BY <3>1, <3>2 DEF Request, Requests, Purpose
    <3>3. CASE end[s].action = "accept" BY <3>1, <3>3 DEF Request, Requests, Purpose
    <3> QED BY <1>1, <3>1, <3>2, <3>3 DEF Purpose
  <2>3. RequestFits(end[s], Request(s)) BY DEF RequestFits, Request
  <2> QED BY <1>1, <2>1, <2>2, <2>3, AskedFits
<1>4. CASE m.type = "unavailable"
  <2>1. Closes({s}) BY <1>1, <1>4 DEF ReadLink, ClientCloses, Closes, Forgotten
  <2> QED BY <2>1, ClosesFits
<1>5. CASE m.type = "ready"
  <2> DEFINE e == [end[s] EXCEPT !.tls = TRUE, !.expected = Expected(end[s], m)]
  <2>1. /\ end' = [end EXCEPT ![s] = e] /\ down' = [down EXCEPT ![s] = Tail(@)] /\ UNCHANGED up
    BY <1>5 DEF ReadLink
  <2>2. /\ e.open = end[s].open /\ e.action = end[s].action /\ e.call = end[s].call
        /\ e.ticket = end[s].ticket /\ e.tls /\ e.expected = Expected(end[s], m)
    BY <1>1 DEF Ends
  <2> HIDE DEF e
  <2>3. end'[s] = e /\ \A x \in Slots \ {s} : end'[x] = end[x] BY <1>1, <2>1
  <2>4. AnswerFits(end[s], session[s], m) /\ Fits(s) /\ Tunnel(s) BY <1>2, Each DEF Fits
  <2>5. LinkFits(e, session[s])
    <3>1. LinkFits(end[s], session[s]) /\ e.open BY <1>1, <2>2, <2>4 DEF Fits
    <3>2. CASE e.action = "dial" /\ e.call.discover
      BY <1>1, <1>5, <2>2, <2>4, <3>1, <3>2 DEF LinkFits, AnswerFits, Expected
    <3>3. CASE e.action = "dial" /\ ~ e.call.discover
      <4>1. e.expected = e.call.to BY <2>2, <3>1, <3>3 DEF LinkFits, Expected
      <4>2. ASSUME session[s].live PROVE session[s].tunnel /\ e.call.to = Owner(session[s].paired)
        <5>1. session[s].tunnel BY <1>1, <1>5, <2>4, <4>2 DEF AnswerFits
        <5>2. Bridged(s, session[s].paired) \/ Bridged(session[s].paired, s)
          BY <2>4, <5>1 DEF Tunnel
        <5> QED BY <1>1, <2>2, <3>3, <5>1, <5>2 DEF Bridged, Calling, Taking
      <4> QED BY <3>1, <3>3, <4>1, <4>2 DEF LinkFits
    <3>4. CASE e.action # "dial"
      BY <1>1, <1>5, <2>2, <2>4, <3>1, <3>4 DEF LinkFits, AnswerFits, Expected
    <3> QED BY <3>2, <3>3, <3>4
  <2>6. \A x \in Slots : ToSet(down[x])' \subseteq ToSet(down[x]) BY <1>1, <2>1, HeldBy
  <2> SUFFICES ASSUME NEW x \in Slots PROVE Fits(x)' /\ Tunnel(x)' BY Each DEF TunnelsFit, Fits, Tunnel
  <2>7. Fits(x) /\ Tunnel(x) BY Each
  <2>8. Fits(x)'
    <3>1. CASE x = s
      BY <1>1, <2>1, <2>2, <2>3, <2>5, <2>6, <2>7, <3>1 DEF Fits, AnswerFits, RequestFits, Calling
    <3>2. CASE x # s BY <1>1, <2>1, <2>3, <2>6, <2>7, <3>2, SameFits
    <3> QED BY <3>1, <3>2
  <2>9. \A y, z \in Slots : Bridged(y, z) => Bridged(y, z)'
    BY <2>2, <2>3 DEF Bridged, Calling, Taking
  <2>10. session[x].tunnel => session[x].paired \in Slots BY DEF IInv, TypeOK, Pairs
  <2>11. Tunnel(x)' BY <1>1, <2>7, <2>9, <2>10 DEF Tunnel
  <2> QED BY <2>8, <2>11
<1> QED BY <1>3, <1>4, <1>5 DEF ReadLink
-----------------------------------------------------------------------------
(***************************************************************************)
(* The relay's steps and the faults.                                       *)
(***************************************************************************)
\* A registration changes nothing that a tunnel depends on.
LEMMA RegisterFits ==
    ASSUME IInv, TunnelsFit, NEW s \in Slots, Route(s), RouteRegister(s, Head(up[s]))
    PROVE  TunnelsFit'
<1> DEFINE m == Head(up[s])
<1>1. /\ session[s].live /\ s \notin waiting /\ UNCHANGED <<end, relay, member>>
      /\ ~ session[s].tunnel /\ up[s] # <<>> /\ up[s] \in Seq(Requests)
  BY Routed DEF Route
<1>2. CASE Drop(s, waiting) /\ UNCHANGED down
  <2>1. Dropped(s) BY <1>1, <1>2 DEF Drop, Dropped, All, TicketsLeft, Live
  <2> QED BY <2>1, DroppedFits
<1>3. CASE /\ session' = [session EXCEPT ![s].control = TRUE, ![s].peer = m.peer,
                                         ![s].listed = m.listed]
           /\ down' = ToClient(down, s, Registered)
           /\ up' = [up EXCEPT ![s] = Tail(@)]
           /\ UNCHANGED waiting
  <2>1. Registered \in Answers /\ \A e, r : AnswerFits(e, r, Registered)
    BY DEF Registered, Answers, AnswerFits
  <2>2. /\ \A x \in Slots \ {s} : session'[x] = session[x]
        /\ session'[s].live = session[s].live /\ session'[s].tunnel = session[s].tunnel
        /\ session'[s].paired = session[s].paired
    BY <1>3 DEF IInv, TypeOK
  <2>3. /\ \A x \in Slots : ToSet(down[x])' \subseteq ToSet(down[x]) \cup {Registered}
        /\ \A x \in Slots : ToSet(up[x])' \subseteq ToSet(up[x])
    <3>1. \A x \in Slots : ToSet(ToClient(down, s, Registered)[x]) \subseteq ToSet(down[x]) \cup {Registered}
      BY <2>1, Delivered DEF IInv, TypeOK
    <3>2. ToSet(Tail(up[s])) \subseteq ToSet(up[s]) BY <1>1, HeldBy
    <3> QED BY <1>3, <3>1, <3>2 DEF IInv, TypeOK
  <2> SUFFICES ASSUME NEW x \in Slots PROVE Fits(x)' /\ Tunnel(x)' BY Each DEF TunnelsFit, Fits, Tunnel
  <2>4. Fits(x) /\ Tunnel(x) BY Each
  <2>5. Fits(x)'
    <3>1. CASE x = s
      BY <1>1, <1>3, <2>1, <2>2, <2>3, <2>4, <3>1 DEF Fits, LinkFits, AnswerFits
    <3>2. CASE x # s BY <1>1, <1>3, <2>1, <2>2, <2>3, <2>4, <3>2 DEF Fits
    <3> QED BY <3>1, <3>2
  <2>6. Tunnel(x)' BY <1>1, <2>2, <2>4, SameTunnel DEF SameOrClosed
  <2> QED BY <2>5, <2>6
<1> QED BY <1>2, <1>3 DEF RouteRegister

\* A call waits for the peer that it names, or for any that the relay may choose.
LEMMA RouteDialFits ==
    ASSUME IInv, TunnelsFit, NEW s \in Slots, Route(s), RouteDial(s, Head(up[s])),
           Head(up[s]).type = "dial"
    PROVE  TunnelsFit'
<1> DEFINE m == Head(up[s])
<1>1. /\ session[s].live /\ s \notin waiting /\ UNCHANGED <<end, relay, member>>
      /\ ~ session[s].tunnel /\ up[s] # <<>> /\ up[s] \in Seq(Requests)
      /\ m \in Requests /\ m.peer = Owner(s) /\ m \in ToSet(up[s])
  BY Routed, HeldBy DEF Route
<1>2. CASE Drop(s, waiting) /\ down' = ToClient(down, s, Unavailable)
  <2>1. Dropped(s) BY <1>1, <1>2 DEF Drop, Dropped, All, TicketsLeft, Live
  <2> QED BY <2>1, DroppedFits
<1>3. ASSUME NEW r \in Receivers(m),
             session' = [session EXCEPT ![s].peer = session[r].peer],
             waiting' = waiting \cup {s},
             down' = ToClient(down, r, Incoming(s, m.peer)),
             up' = [up EXCEPT ![s] = Tail(@)]
      PROVE  TunnelsFit'
  <2>1. m.call \in Calls /\ m.call.to \in Peers BY <1>1, RelayAssumption DEF Requests
  <2>2. r \in Slots /\ (~ m.call.discover => session[r].peer = m.call.to)
    BY <1>3, <2>1 DEF Receivers, IInv, TypeOK, DirectoryIsSound
  <2> DEFINE a == Incoming(s, m.peer)
  <2>3. a \in Answers /\ \A e, x : AnswerFits(e, x, a)
    BY <1>1, SlotsOwned DEF Incoming, Answers, AnswerFits
  <2> HIDE DEF a
  <2>4. /\ \A x \in Slots \ {s} : session'[x] = session[x]
        /\ session'[s].live = session[s].live /\ session'[s].tunnel = session[s].tunnel
        /\ session'[s].paired = session[s].paired /\ session'[s].peer = session[r].peer
    BY <1>3 DEF IInv, TypeOK
  <2>5. /\ \A x \in Slots : ToSet(down[x])' \subseteq ToSet(down[x]) \cup {a}
        /\ \A x \in Slots : ToSet(up[x])' \subseteq ToSet(up[x])
    <3>1. \A x \in Slots : ToSet(ToClient(down, r, a)[x]) \subseteq ToSet(down[x]) \cup {a}
      BY <2>2, <2>3, Delivered DEF IInv, TypeOK
    <3>2. ToSet(Tail(up[s])) \subseteq ToSet(up[s]) BY <1>1, HeldBy
    <3> QED BY <1>3, <3>1, <3>2 DEF IInv, TypeOK, a
  <2>6. Calling(end[s], session[r].peer)
    <3>1. RequestFits(end[s], m) BY <1>1 DEF TunnelsFit
    <3> QED BY <2>2, <3>1 DEF RequestFits, Calling
  <2> SUFFICES ASSUME NEW x \in Slots PROVE Fits(x)' /\ Tunnel(x)' BY Each DEF TunnelsFit, Fits, Tunnel
  <2>7. Fits(x) /\ Tunnel(x) BY Each
  <2>8. Fits(x)'
    <3>1. CASE x = s
      BY <1>1, <2>3, <2>4, <2>5, <2>6, <2>7, <3>1 DEF Fits, LinkFits, AnswerFits
    <3>2. CASE x # s BY <1>1, <1>3, <2>3, <2>4, <2>5, <2>7, <3>2 DEF Fits
    <3> QED BY <3>1, <3>2
  <2>9. Tunnel(x)' BY <1>1, <2>4, <2>7, SameTunnel DEF SameOrClosed
  <2> QED BY <2>8, <2>9
<1> QED BY <1>2, <1>3 DEF RouteDial

\* A ticket is taken by a connection of the peer it was given to.
LEMMA RouteAcceptFits ==
    ASSUME IInv, TunnelsFit, NEW s \in Slots, Route(s), RouteAccept(s, Head(up[s])),
           Head(up[s]).type = "accept"
    PROVE  TunnelsFit'
<1> DEFINE m == Head(up[s])
<1>1. /\ session[s].live /\ s \notin waiting /\ UNCHANGED <<end, relay, member>>
      /\ ~ session[s].tunnel /\ up[s] # <<>> /\ up[s] \in Seq(Requests)
      /\ m \in Requests /\ m.peer = Owner(s) /\ m \in ToSet(up[s])
  BY Routed, HeldBy DEF Route
<1>2. CASE ~ (m.ticket \in waiting /\ session[m.ticket].peer = m.peer)
  <2>1. Drop(s, waiting \ {m.ticket}) /\ UNCHANGED down BY <1>2 DEF RouteAccept
  <2>2. Dropped(s) BY <1>1, <2>1 DEF Drop, Dropped, All, TicketsLeft, Live
  <2> QED BY <2>2, DroppedFits
<1>3. ASSUME NEW t \in Slots, t = m.ticket, t \in waiting, session[t].peer = m.peer
      PROVE  TunnelsFit'
  <2>1. /\ session' = [session EXCEPT ![t].tunnel = TRUE, ![t].paired = s,
                                      ![s].tunnel = TRUE, ![s].paired = t]
        /\ waiting' = waiting \ {t}
        /\ down' = ToClient(ToClient(down, t, Ready(session[t].peer)), s, Ready(NoPeer))
        /\ up' = [up EXCEPT ![s] = Tail(@)]
    BY <1>3 DEF RouteAccept
  <2>2. /\ session \in [Slots -> Sessions] /\ down \in [Slots -> Seq(Answers)]
        /\ t # s /\ session[t].live /\ ~ session[t].tunnel
        /\ session[t].peer = Owner(s) /\ Owner(s) \in Peers /\ NoPeer \notin Peers
    BY <1>1, <1>3, SlotsOwned, RelayAssumption DEF IInv, TypeOK, Sessions, DirectoryIsSound
  <2>3. RequestFits(end[s], m) /\ Calling(end[t], Owner(s)) /\ Fits(s) /\ Fits(t)
    BY <1>1, <1>3, <2>2, Each DEF Fits
  <2>4. Bridged(t, s) BY <1>3, <2>3 DEF Bridged, RequestFits, Taking
  <2> DEFINE Pair(x, y) == [session[x] EXCEPT !.tunnel = TRUE, !.paired = y]
  <2>5. \A x, y \in Slots : /\ Pair(x, y).live = session[x].live
                            /\ Pair(x, y).peer = session[x].peer
                            /\ Pair(x, y).tunnel /\ Pair(x, y).paired = y
    BY <2>2 DEF Sessions
  <2>6. /\ session'[s] = Pair(s, t) /\ session'[t] = Pair(t, s)
        /\ \A x \in Slots \ {s, t} : session'[x] = session[x]
    <3>1. session' = [session EXCEPT ![t] = Pair(t, s), ![s] = Pair(s, t)] BY <2>1, <2>2
    <3> HIDE DEF Pair
    <3> QED BY <2>2, <3>1
  <2> HIDE DEF Pair
  <2>7. /\ session'[s].live /\ session'[s].tunnel /\ session'[s].paired = t
        /\ session'[t].live /\ session'[t].tunnel /\ session'[t].paired = s
    BY <1>1, <2>2, <2>5, <2>6
  <2> DEFINE yes == Ready(session[t].peer)
             ok == Ready(NoPeer)
             first == ToClient(down, t, yes)
  <2>8. /\ yes \in Answers /\ yes.type = "ready" /\ yes.peer = Owner(s)
        /\ ok \in Answers /\ ok.type = "ready"
    BY <2>2 DEF Ready, Answers
  <2> HIDE DEF yes, ok
  <2>9. /\ ToSet(down[t])' \subseteq ToSet(down[t]) \cup {yes}
        /\ ToSet(down[s])' \subseteq ToSet(down[s]) \cup {ok}
        /\ \A x \in Slots \ {s, t} : down'[x] = down[x]
    <3>0. /\ first \in [Slots -> Seq(Answers)]
          /\ \A x \in Slots : ToSet(first[x]) \subseteq ToSet(down[x]) \cup {yes}
      BY <2>2, <2>8, Delivered
    <3>1. \A x \in Slots \ {t} : first[x] = down[x] BY <2>2, <2>8, Delivered
    <3>2. down' = ToClient(first, s, ok) BY <2>1 DEF yes, ok
    <3> HIDE DEF first
    <3>3. \A x \in Slots : ToSet(down'[x]) \subseteq ToSet(first[x]) \cup {ok}
      BY <2>8, <3>0, <3>2, Delivered
    <3>4. \A x \in Slots \ {s} : down'[x] = first[x] BY <2>8, <3>0, <3>2, Delivered
    <3>5. down'[t] = first[t] /\ first[s] = down[s] BY <2>2, <3>1, <3>4
    <3>6. \A x \in Slots \ {s, t} : down'[x] = down[x] BY <3>1, <3>4
    <3>7. ToSet(down'[t]) \subseteq ToSet(down[t]) \cup {yes} BY <3>0, <3>5
    <3>8. ToSet(down'[s]) \subseteq ToSet(down[s]) \cup {ok} BY <3>3, <3>5
    <3> QED BY <3>6, <3>7, <3>8
  <2>10. \A x \in Slots : ToSet(up[x])' \subseteq ToSet(up[x])
    <3>1. ToSet(Tail(up[s])) \subseteq ToSet(up[s]) BY <1>1, HeldBy
    <3> QED BY <2>1, <3>1 DEF IInv, TypeOK
  <2>11. Fits(t)'
    <3>1. LinkFits(end[t], session'[t])
      BY <2>2, <2>3, <2>7 DEF Fits, LinkFits
    <3>2. \A n \in ToSet(down[t])' : AnswerFits(end[t], session'[t], n)
      BY <2>2, <2>3, <2>7, <2>8, <2>9 DEF Fits, AnswerFits
    <3> QED BY <1>1, <2>1, <2>2, <2>3, <2>10, <3>1, <3>2 DEF Fits
  <2>12. Fits(s)'
    <3>1. end[s].open => end[s].action = "accept" BY <2>4 DEF Bridged, Taking
    <3>2. LinkFits(end[s], session'[s])
      BY <1>1, <2>3, <2>7, <3>1 DEF Fits, LinkFits
    <3>3. \A n \in ToSet(down[s])' : AnswerFits(end[s], session'[s], n)
      BY <1>1, <2>3, <2>7, <2>8, <2>9, <3>1 DEF Fits, AnswerFits
    <3> QED BY <1>1, <2>1, <2>3, <2>10, <3>2, <3>3 DEF Fits
  <2> SUFFICES ASSUME NEW x \in Slots PROVE Fits(x)' /\ Tunnel(x)' BY Each DEF TunnelsFit, Fits, Tunnel
  <2>13. CASE x \in {s, t}
    <3>1. Bridged(t, s)' BY <1>1, <2>4 DEF Bridged
    <3> QED BY <2>7, <2>11, <2>12, <2>13, <3>1 DEF Tunnel
  <2>14. CASE x \notin {s, t}
    <3>1. Fits(x) /\ Tunnel(x) BY Each
    <3>2. Fits(x)' BY <1>1, <2>1, <2>6, <2>9, <2>10, <2>14, <3>1, SameFits
    <3>3. Tunnel(x)' BY <1>1, <2>6, <2>14, <3>1, SameTunnel DEF SameOrClosed
    <3> QED BY <3>2, <3>3
  <2> QED BY <2>13, <2>14
<1>4. m.ticket \in waiting => m.ticket \in Slots BY DEF IInv, TypeOK
<1> QED BY <1>2, <1>3, <1>4

LEMMA RouteFits == ASSUME IInv, TunnelsFit, NEW s \in Slots, Route(s) PROVE TunnelsFit'
<1> DEFINE m == Head(up[s])
<1>1. session[s].live /\ UNCHANGED <<end, relay, member>> BY DEF Route
<1>2. CASE Drop(s, waiting) /\ UNCHANGED down
  <2>1. Dropped(s) BY <1>1, <1>2 DEF Drop, Dropped, All, TicketsLeft, Live
  <2> QED BY <2>1, DroppedFits
<1>3. m.type \in {"register", "dial", "accept"} BY Routed DEF Requests
<1>4. CASE m.nonce # s BY <1>2, <1>4 DEF Route
<1>5. CASE m.nonce = s
  <2>1. CASE m.type = "register" BY <1>5, <2>1, RegisterFits DEF Route
  <2>2. CASE m.type = "dial" BY <1>2, <1>5, <2>2, RouteDialFits DEF Route
  <2>3. CASE m.type = "accept" BY <1>2, <1>5, <2>3, RouteAcceptFits DEF Route
  <2> QED BY <1>3, <2>1, <2>2, <2>3
<1> QED BY <1>4, <1>5

LEMMA CutFits == ASSUME IInv, TunnelsFit, NEW c \in Clients, Cut(c) PROVE TunnelsFit'
<1>1. /\ \A x \in Slots : up'[x] \in {<<>>, up[x]} /\ down'[x] \in {<<>>, down[x]}
      /\ UNCHANGED <<end, session, waiting>>
  BY DEF Cut, IInv, TypeOK
<1> SUFFICES ASSUME NEW x \in Slots PROVE Fits(x)' /\ Tunnel(x)' BY Each DEF TunnelsFit, Fits, Tunnel
<1>2. Fits(x) /\ Tunnel(x) BY Each
<1>3. ToSet(up[x])' \subseteq ToSet(up[x]) /\ ToSet(down[x])' \subseteq ToSet(down[x]) BY <1>1, Few
<1>4. Fits(x)' BY <1>1, <1>2, <1>3, SameFits
<1>5. Tunnel(x)' BY <1>1, <1>2, SameTunnel DEF SameOrClosed
<1> QED BY <1>4, <1>5

LEMMA RestartRelayFits == ASSUME IInv, TunnelsFit, RestartRelay PROVE TunnelsFit'
<1> SUFFICES ASSUME NEW x \in Slots PROVE Fits(x)' /\ Tunnel(x)' BY Each DEF TunnelsFit, Fits, Tunnel
<1>1. Fits(x) BY Each
<1>2. session'[x] = Gone /\ up'[x] = <<>> /\ waiting' = {} /\ UNCHANGED <<end, down>>
  BY DEF RestartRelay
<1>3. ~ Gone.live /\ ~ Gone.tunnel BY DEF Gone
<1> QED BY <1>1, <1>2, <1>3, Few DEF Fits, Tunnel, LinkFits, AnswerFits
-----------------------------------------------------------------------------
\* Every step of clients, relay and network keeps tunnels between the right ends.
LEMMA NextTunnelsFit == IInv /\ TunnelsFit /\ [Next]_vars => TunnelsFit'
<1> SUFFICES ASSUME IInv, TunnelsFit, [Next]_vars PROVE TunnelsFit' OBVIOUS
<1>1. ASSUME NEW c \in Clients, ConnectRelay(c) PROVE TunnelsFit' BY <1>1, ConnectRelayFits
<1>2. ASSUME NEW c \in Clients, ReadRelay(c) PROVE TunnelsFit' BY <1>2, ReadRelayFits
<1>3. ASSUME NEW c \in Clients, ChangeMembership(c) PROVE TunnelsFit'
  BY <1>3, ChangeMembershipFits
<1>4. ASSUME NEW c \in Clients, Cut(c) PROVE TunnelsFit' BY <1>4, CutFits
<1>5. ASSUME NEW c \in Clients, RestartClient(c) PROVE TunnelsFit'
  <2> DEFINE S == {s \in Slots : end[s].open /\ Owner(s) = c}
  <2>1. Closes(S) BY <1>5 DEF RestartClient, ClientCloses, Closes, Forgotten
  <2>2. S \in SUBSET Slots OBVIOUS
  <2> HIDE DEF S
  <2> QED BY <2>1, <2>2, ClosesFits
<1>6. ASSUME NEW call \in Calls, Dial(call) PROVE TunnelsFit' BY <1>6, DialFits
<1>7. ASSUME NEW s \in Slots, ReadLink(s) PROVE TunnelsFit' BY <1>7, ReadLinkFits
<1>8. ASSUME NEW s \in Slots, ClientSeesClose(s) \/ TickGivesUp(s) \/ Abort(s) PROVE TunnelsFit'
  <2>1. Closes({s})
    BY <1>8 DEF ClientSeesClose, TickGivesUp, Abort, ClientCloses, Closes, Forgotten
  <2> QED BY <2>1, ClosesFits
<1>9. ASSUME NEW s \in Slots, Route(s) PROVE TunnelsFit' BY <1>9, RouteFits
<1>10. ASSUME NEW s \in Slots, RelaySeesClose(s) \/ TickIdle(s) PROVE TunnelsFit'
  <2>1. Dropped(s)
    BY <1>10 DEF RelaySeesClose, TickIdle, Drop, Dropped, All, TicketsLeft, Live
  <2> QED BY <2>1, DroppedFits
<1>11. CASE RestartRelay BY <1>11, RestartRelayFits
<1>12. CASE UNCHANGED vars BY <1>12 DEF vars, TunnelsFit, Bridged
<1> QED BY <1>1, <1>2, <1>3, <1>4, <1>5, <1>6, <1>7, <1>8, <1>9, <1>10, <1>11, <1>12 DEF Next

\* Whoever the relay finds to answer a call (Node::dial, CommunityRouter::route),
\* the two ends that start TLS through it expect each other: the caller the peer
\* it named or was told of, the called peer the one that called.
THEOREM TunnelsThm == Spec => []TunnelsJoinTheRightPeers
<1>1. Spec => []TunnelsFit
  <2>1. Spec => []IInv BY Invariance
  <2> QED BY <2>1, InitTunnels, NextTunnelsFit, PTL DEF Spec
<1>2. IInv /\ TunnelsFit => TunnelsJoinTheRightPeers
  <2> SUFFICES ASSUME IInv, TunnelsFit, NEW s \in Live,
                      session[s].tunnel, end[s].tls, end[session[s].paired].tls
               PROVE  LET t == session[s].paired
                      IN  /\ end[s].expected = Owner(t) /\ end[t].expected = Owner(s)
                          /\ {end[s].action, end[t].action} = {"dial", "accept"}
    BY DEF TunnelsJoinTheRightPeers
  <2> DEFINE t == session[s].paired
  <2>1. /\ s \in Slots /\ t \in Slots /\ session[t].paired = s /\ session[t].tunnel
        /\ session[s].live /\ session[t].live
    BY SlotsOwned DEF IInv, TypeOK, Pairs, Live, RequestsAreOwn, Gone
  <2>2. LinkFits(end[s], session[s]) /\ LinkFits(end[t], session[t]) BY <2>1 DEF TunnelsFit
  <2>3. end[s].open /\ end[t].open BY <2>2 DEF LinkFits
  <2>4. ASSUME NEW a \in Slots, NEW b \in Slots, Bridged(a, b), end[a].open, end[b].open,
               end[a].tls, session[a].live, session[a].paired = b,
               LinkFits(end[a], session[a]), LinkFits(end[b], session[b])
        PROVE  /\ end[a].expected = Owner(b) /\ end[b].expected = Owner(a)
               /\ end[a].action = "dial" /\ end[b].action = "accept"
    BY <2>4 DEF Bridged, Calling, Taking, LinkFits
  <2>5. Bridged(s, t) \/ Bridged(t, s) BY <2>1 DEF TunnelsFit
  <2> QED BY <2>1, <2>2, <2>3, <2>4, <2>5
<1> QED BY <1>1, <1>2, Invariance, PTL
-----------------------------------------------------------------------------
(***************************************************************************)
(* What the relay has on its list.                                         *)
(***************************************************************************)
\* A client's control connection, while something passes over it: the client is
\* challenged first; afterwards the last registration it has written, or that
\* the relay has read, says what it is; and it hears of the first one.
Challenges(s) == \E m \in ToSet(down[s]) : m.type = "challenge"
Confirms(s) == \E m \in ToSet(down[s]) : m.type = "registered"
Current(c, s) ==
    relay[c].slot = s /\ s \notin cut /\ session[s].live =>
        /\ relay[c].nonce = NoSlot => Challenges(s)
        /\ relay[c].nonce # NoSlot =>
              IF up[s] = <<>> THEN registered[c] = s /\ session[s].listed = member[c]
              ELSE up[s][Len(up[s])].listed = member[c]
        /\ registered[c] = s => relay[c].registered \/ Confirms(s)
ListingsFit == \A c \in Clients : \A s \in Slots : Current(c, s)

\* What is told is added, what is taken is only the first.
LEMMA KeptBy ==
    ASSUME NEW S, NEW q \in Seq(S)
    PROVE  /\ q # <<>> => ToSet(q) \subseteq ToSet(Tail(q)) \cup {Head(q)}
           /\ \A m \in S : ToSet(q) \cup {m} \subseteq ToSet(Append(q, m))
<1>1. ASSUME q # <<>> PROVE ToSet(q) \subseteq ToSet(Tail(q)) \cup {Head(q)}
  <2> SUFFICES ASSUME NEW n \in DOMAIN q PROVE q[n] \in ToSet(Tail(q)) \cup {Head(q)} BY DEF ToSet
  <2>1. Head(q) = q[1] /\ Len(Tail(q)) = Len(q) - 1 /\ Tail(q) \in Seq(S) BY <1>1, Taken
  <2>2. CASE n = 1 BY <2>1, <2>2
  <2>3. CASE n # 1
    <3>1. n - 1 \in DOMAIN Tail(q) BY <1>1, <2>1, <2>3
    <3>2. Tail(q)[n - 1] = q[n] BY <1>1, <3>1, <2>1, <2>3
    <3> QED BY <3>1, <3>2 DEF ToSet
  <2> QED BY <2>2, <2>3
<1>2. ASSUME NEW m \in S PROVE ToSet(q) \cup {m} \subseteq ToSet(Append(q, m))
  <2>1. \A n \in DOMAIN q : n \in DOMAIN Append(q, m) /\ Append(q, m)[n] = q[n] OBVIOUS
  <2>2. Len(q) + 1 \in DOMAIN Append(q, m) /\ Append(q, m)[Len(q) + 1] = m OBVIOUS
  <2> QED BY <2>1, <2>2 DEF ToSet
<1> QED BY <1>1, <1>2

\* A message that is told to a client disturbs none that was.
LEMMA ToldToo ==
    ASSUME NEW queues \in [Slots -> Seq(Answers)], NEW r \in Slots, NEW m \in Answers
    PROVE  /\ \A x \in Slots : ToSet(queues[x]) \subseteq ToSet(ToClient(queues, r, m)[x])
           /\ end[r].open /\ r \notin cut => m \in ToSet(ToClient(queues, r, m)[r])
<1>1. queues[r] \in Seq(Answers) OBVIOUS
<1>2. ToSet(queues[r]) \cup {m} \subseteq ToSet(Append(queues[r], m)) BY <1>1, KeptBy
<1>3. CASE ~ (end[r].open /\ r \notin cut) BY <1>3 DEF ToClient
<1>4. CASE end[r].open /\ r \notin cut
  <2>1. ToClient(queues, r, m) = [queues EXCEPT ![r] = Append(@, m)] BY <1>4 DEF ToClient
  <2>2. ToClient(queues, r, m)[r] = Append(queues[r], m)
        /\ \A x \in Slots \ {r} : ToClient(queues, r, m)[x] = queues[x]
    BY <2>1
  <2> QED BY <1>2, <2>2
<1> QED BY <1>3, <1>4

LEMMA MoreMessages ==
    ASSUME NEW s \in Slots, ToSet(down[s]) \subseteq ToSet(down[s])'
    PROVE  (Challenges(s) => Challenges(s)') /\ (Confirms(s) => Confirms(s)')
BY DEF Challenges, Confirms

\* A control connection on which nothing has happened, or which is gone or cut.
LEMMA StillCurrent ==
    ASSUME NEW c \in Clients, NEW s \in Slots, Current(c, s),
           relay'[c].slot = s => relay'[c] = relay[c],
           relay'[c].slot = s /\ s \notin cut' /\ session'[s].live =>
              /\ s \notin cut /\ session[s].live /\ session'[s].listed = session[s].listed
              /\ up'[s] = up[s] /\ member'[c] = member[c]
              /\ registered'[c] = s <=> registered[c] = s
              /\ Challenges(s) => Challenges(s)'
              /\ Confirms(s) => Confirms(s)'
    PROVE  Current(c, s)'
BY DEF Current

\* The control connection of a client is not that of another, nor a link.
LEMMA ControlSlot ==
    ASSUME IInv, NEW c \in Clients, NEW s \in Slots, relay[c].slot = s
    PROVE  /\ Owner(s) = c /\ end[s].open /\ end[s].action = "control"
           /\ s \notin waiting /\ Registers1(s)
           /\ relay[c].nonce \in {NoSlot, s}
BY SlotsOwned DEF IInv, ClientSide, SinglePurpose, TypeOK

LEMMA InitListings == Init => ListingsFit
BY SlotsOwned DEF Init, ListingsFit, Current, Offline

\* What the uses of Drop have in common.
DropsOne(s) ==
    /\ session[s].live
    /\ \E tickets \in SUBSET waiting : Drop(s, tickets)
    /\ down' \in {down, ToClient(down, s, Unavailable)}
    /\ UNCHANGED <<end, relay, member>>

LEMMA DropsOneCurrent ==
    ASSUME IInv, ListingsFit, NEW r \in Slots, DropsOne(r) PROVE ListingsFit'
<1> SUFFICES ASSUME NEW c \in Clients, NEW s \in Slots, relay[c].slot = s PROVE Current(c, s)'
  BY DEF ListingsFit, Current, DropsOne
<1>1. Current(c, s) BY DEF ListingsFit
<1>2. /\ session' = [x \in Slots |-> IF x \in All(r) THEN Gone ELSE session[x]]
      /\ registered' = [p \in Peers |->
            IF \E x \in All(r) : session[x].peer = p /\ registered[p] = x
            THEN NoSlot ELSE registered[p]]
      /\ up' = [x \in Slots |-> IF x \in All(r) THEN <<>> ELSE up[x]]
      /\ cut' = cut \ {x \in All(r) : ~ end[x].open}
      /\ UNCHANGED <<end, relay, member>>
  BY DEF DropsOne, Drop, All
<1>3. ToSet(down[s]) \subseteq ToSet(down[s])'
  <2>1. Unavailable \in Answers /\ down \in [Slots -> Seq(Answers)]
    BY DEF Unavailable, Answers, IInv, TypeOK
  <2>2. ToSet(down[s]) \subseteq ToSet(ToClient(down, r, Unavailable)[s]) BY <2>1, ToldToo
  <2>3. down' = down \/ down' = ToClient(down, r, Unavailable) BY DEF DropsOne
  <2> QED BY <2>2, <2>3
<1>4. c \in Peers /\ s # NoSlot BY RelayAssumption, SlotsOwned
<1>5. CASE s \in All(r)
  <2>1. ~ session'[s].live BY <1>2, <1>5 DEF Gone
  <2> QED BY <1>1, <1>2, <2>1, StillCurrent
<1>6. CASE s \notin All(r)
  <2>1. registered'[c] = s <=> registered[c] = s BY <1>2, <1>4, <1>6
  <2>2. s \in cut' <=> s \in cut BY <1>2, <1>6
  <2>3. session'[s] = session[s] /\ up'[s] = up[s] /\ relay'[c] = relay[c] /\ member'[c] = member[c]
    BY <1>2, <1>6
  <2> QED BY <1>1, <1>3, <2>1, <2>2, <2>3, MoreMessages, StillCurrent
<1> QED BY <1>5, <1>6

LEMMA ClientClosesCurrent ==
    ASSUME IInv, ListingsFit, NEW S \in SUBSET Slots, ClientCloses(S),
           UNCHANGED <<session, up, registered, waiting, member>>
    PROVE  ListingsFit'
<1> SUFFICES ASSUME NEW c \in Clients, NEW s \in Slots, relay'[c].slot = s PROVE Current(c, s)'
  BY DEF ListingsFit, Current
<1>1. Current(c, s) BY DEF ListingsFit
<1>2. relay'[c] = IF relay[c].slot \in S THEN Offline ELSE relay[c]
  BY DEF ClientCloses, Forgotten
<1>3. relay[c].slot = s /\ s \notin S /\ relay'[c] = relay[c] BY <1>2, SlotsOwned DEF Offline
<1>4. down'[s] = down[s] /\ (s \in cut' <=> s \in cut) BY <1>3 DEF ClientCloses
<1> QED BY <1>1, <1>3, <1>4, MoreMessages, StillCurrent

\* Opening a link is nothing to a control connection that stands.
LEMMA OpenCurrent ==
    ASSUME IInv, ListingsFit, NEW f \in Slots, ~ end[f].open,
           \A x \in Slots \ {f} : session'[x] = session[x],
           \A x \in Slots \ {f} : (Challenges(x) => Challenges(x)') /\ (Confirms(x) => Confirms(x)'),
           UNCHANGED <<up, cut, registered, member, relay>>
    PROVE  ListingsFit'
<1> SUFFICES ASSUME NEW c \in Clients, NEW s \in Slots, relay[c].slot = s PROVE Current(c, s)'
  BY DEF ListingsFit, Current
<1>1. Current(c, s) BY DEF ListingsFit
<1>2. s # f BY ControlSlot
<1> QED BY <1>1, <1>2, StillCurrent

LEMMA ConnectRelayCurrent ==
    ASSUME IInv, ListingsFit, NEW d \in Clients, ConnectRelay(d) PROVE ListingsFit'
<1> DEFINE g == FreeSlot(d)
<1>1. PICK f : f = g OBVIOUS
<1>2. /\ FreeSlots(d) # {} /\ relay[d].slot = NoSlot
      /\ session' = [session EXCEPT ![g].live = (Cardinality(Live) < MaxSessions)]
      /\ down' = [down EXCEPT ![g] = IF Cardinality(Live) < MaxSessions THEN <<Challenge>> ELSE <<>>]
      /\ relay' = [relay EXCEPT ![d].slot = g]
      /\ UNCHANGED <<up, cut, registered, waiting, member>>
  BY DEF ConnectRelay, Open
<1>3. /\ f \in Slots /\ Owner(f) = d /\ ~ end[f].open /\ ~ session[f].live /\ f \notin waiting
  BY <1>1, <1>2, FreeSlotIsFree
<1> HIDE DEF g
<1>4. /\ \A x \in Slots \ {f} : session'[x] = session[x] /\ down'[x] = down[x]
      /\ session'[f].live = (Cardinality(Live) < MaxSessions)
      /\ session'[f].live => down'[f] = <<Challenge>>
  BY <1>1, <1>2, <1>3 DEF IInv, TypeOK
<1> SUFFICES ASSUME NEW c \in Clients, NEW s \in Slots, relay'[c].slot = s PROVE Current(c, s)'
  BY DEF ListingsFit, Current
<1>5. Current(c, s) BY DEF ListingsFit
<1>6. CASE c = d
  <2>1. s = f /\ relay'[d].nonce = NoSlot
    <3>1. relay'[d] = [relay[d] EXCEPT !.slot = f] BY <1>1, <1>2 DEF IInv, TypeOK
    <3>2. /\ relay[d].nonce = NoSlot
          /\ relay[d] \in [slot : Slots \cup {NoSlot}, nonce : Slots \cup {NoSlot},
                           registered : BOOLEAN]
      BY <1>2 DEF IInv, TypeOK
    <3>3. relay'[d].slot = f /\ relay'[d].nonce = NoSlot BY <3>1, <3>2
    <3> QED BY <1>6, <3>3
  <2>2. session'[s].live => Challenges(s)'
    <3>1. ToSet(<<Challenge>>) = {Challenge} BY Few
    <3>2. Challenge.type = "challenge" BY DEF Challenge
    <3>3. session'[f].live => Challenge \in ToSet(down'[f]) BY <1>4, <3>1
    <3> QED BY <2>1, <3>2, <3>3 DEF Challenges
  <2>3. registered'[c] # s
    BY <1>2, <1>3, <2>1, RelayAssumption, SlotsOwned DEF IInv, DirectoryIsSound
  <2> QED BY <1>6, <2>1, <2>2, <2>3 DEF Current
<1>7. CASE c # d
  <2>1. relay'[c] = relay[c] BY <1>2, <1>7 DEF IInv, TypeOK
  <2>2. s # f BY <1>3, <2>1, ControlSlot
  <2> QED BY <1>2, <1>4, <1>5, <2>1, <2>2, MoreMessages, StillCurrent
<1> QED BY <1>6, <1>7

LEMMA DialCurrent ==
    ASSUME IInv, ListingsFit, NEW call \in Calls, Dial(call) PROVE ListingsFit'
<1>1. PICK f : f = FreeSlot(call.from) OBVIOUS
<1>2. /\ FreeSlots(call.from) # {}
      /\ session' = [session EXCEPT ![f].live = (Cardinality(Live) < MaxSessions)]
      /\ down' = [down EXCEPT ![f] = IF Cardinality(Live) < MaxSessions THEN <<Challenge>> ELSE <<>>]
      /\ UNCHANGED <<up, cut, registered, waiting, member, relay>>
  BY <1>1 DEF Dial, Open
<1>3. f \in Slots /\ ~ end[f].open BY <1>1, <1>2, FreeSlotIsFree
<1>4. \A x \in Slots \ {f} : session'[x] = session[x] /\ down'[x] = down[x]
  BY <1>2, <1>3 DEF IInv, TypeOK
<1>5. \A x \in Slots \ {f} : (Challenges(x) => Challenges(x)') /\ (Confirms(x) => Confirms(x)')
  BY <1>4, MoreMessages
<1> QED BY <1>2, <1>3, <1>4, <1>5, OpenCurrent

LEMMA ChangeMembershipCurrent ==
    ASSUME IInv, ListingsFit, NEW d \in Clients, ChangeMembership(d) PROVE ListingsFit'
<1> SUFFICES ASSUME NEW c \in Clients, NEW s \in Slots, relay[c].slot = s PROVE Current(c, s)'
  BY DEF ListingsFit, Current, ChangeMembership
<1>1. Current(c, s) BY DEF ListingsFit
<1>2. /\ up' = Registers(d, up, ~ member[d]) /\ member' = [member EXCEPT ![d] = ~ member[d]]
      /\ UNCHANGED <<end, session, down, cut, registered, waiting, relay>>
      /\ member \in [Clients -> BOOLEAN] /\ up \in [Slots -> Seq(Requests)]
  BY DEF ChangeMembership, IInv, TypeOK
<1>3. (Challenges(s) => Challenges(s)') /\ (Confirms(s) => Confirms(s)') BY <1>2, MoreMessages
<1>4. CASE c # d
  <2>1. relay[d].slot # s BY <1>4, ControlSlot
  <2>2. up'[s] = up[s] BY <1>2, <2>1 DEF Registers, ToRelay
  <2>3. member'[c] = member[c] BY <1>2, <1>4
  <2> QED BY <1>1, <1>2, <1>3, <2>2, <2>3, StillCurrent
<1>5. CASE c = d /\ relay[c].nonce = NoSlot
  <2>1. up' = up BY <1>2, <1>5 DEF Registers
  <2> QED BY <1>1, <1>2, <1>3, <1>5, <2>1 DEF Current
<1>6. CASE c = d /\ relay[c].nonce # NoSlot
  <2> SUFFICES ASSUME s \notin cut, session[s].live PROVE Current(c, s)' BY <1>2 DEF Current
  <2>1. PICK m : m = Register(c, relay[c].nonce, ~ member[c]) OBVIOUS
  <2>2. m \in Requests /\ m.listed = member'[c]
    <3>1. relay[c].nonce \in Slots /\ (~ member[c]) \in BOOLEAN BY <1>6 DEF IInv, TypeOK
    <3> QED BY <1>2, <1>6, <2>1, <3>1 DEF Register, Requests
  <2>3. up'[s] = Append(up[s], m)
    BY <1>2, <1>6, <2>1, SlotsOwned DEF Registers, ToRelay
  <2>4. up'[s] # <<>> /\ up'[s][Len(up'[s])] = m BY <1>2, <2>2, <2>3
  <2> QED BY <1>1, <1>2, <1>3, <1>6, <2>2, <2>4 DEF Current
<1> QED BY <1>4, <1>5, <1>6

LEMMA ReadRelayCurrent ==
    ASSUME IInv, ListingsFit, NEW d \in Clients, ReadRelay(d) PROVE ListingsFit'
<1>0. PICK t \in Slots : t = relay[d].slot
  BY DEF ReadRelay, IInv, TypeOK
<1>1. PICK m \in Answers : m = Head(down[t])
  <2>1. down[t] \in Seq(Answers) /\ down[t] # <<>> BY <1>0 DEF ReadRelay, IInv, TypeOK
  <2> QED BY <2>1, Taken
<1>2. /\ t \notin cut /\ down[t] # <<>> /\ down \in [Slots -> Seq(Answers)]
      /\ down[t] \in Seq(Answers) /\ up \in [Slots -> Seq(Requests)]
      /\ UNCHANGED <<cut, registered, waiting, member>>
  BY <1>0 DEF ReadRelay, IInv, TypeOK
<1>3. ToSet(down[t]) \subseteq ToSet(Tail(down[t])) \cup {m} BY <1>1, <1>2, KeptBy
<1>4. Owner(t) = d /\ end[t].open BY <1>0, ControlSlot
<1>5. \A c \in Clients \ {d} : relay[c].slot # t BY <1>4, ControlSlot
<1>6. CASE m.type = "challenge"
  <2>1. PICK q : q = Register(d, t, member[d]) OBVIOUS
  <2>2. /\ relay' = [relay EXCEPT ![d].nonce = t]
        /\ up' = ToRelay(up, t, q)
        /\ down' = [down EXCEPT ![t] = Tail(@)]
        /\ UNCHANGED <<end, session>>
    BY <1>0, <1>1, <1>6, <2>1 DEF ReadRelay
  <2>3. /\ down'[t] = Tail(down[t]) /\ \A x \in Slots \ {t} : down'[x] = down[x] /\ up'[x] = up[x]
    BY <1>2, <2>2 DEF ToRelay
  <2>4. relay'[d].slot = t /\ relay'[d].nonce = t /\ relay'[d].registered = relay[d].registered
    <3>1. relay'[d] = [relay[d] EXCEPT !.nonce = t] BY <2>2 DEF IInv, TypeOK
    <3> QED BY <1>0, <3>1 DEF IInv, TypeOK
  <2> SUFFICES ASSUME NEW c \in Clients, NEW s \in Slots, relay'[c].slot = s PROVE Current(c, s)'
    BY DEF ListingsFit, Current
  <2>5. Current(c, s) BY DEF ListingsFit
  <2>6. CASE c = d
    <3> SUFFICES ASSUME t \notin cut, session[t].live PROVE Current(d, t)'
      BY <1>2, <2>2, <2>4, <2>6 DEF Current
    <3>1. q \in Requests /\ q.listed = member[d]
      BY <2>1 DEF Register, Requests, IInv, TypeOK
    <3>2. up'[t] = Append(up[t], q) BY <1>2, <2>2 DEF ToRelay
    <3>3. up'[t] # <<>> /\ up'[t][Len(up'[t])] = q
      <4>1. up[t] \in Seq(Requests) BY <1>2
      <4> QED BY <3>1, <3>2, <4>1
    <3>4. Confirms(t) => Confirms(t)' BY <1>3, <1>6, <2>3 DEF Confirms
    <3>5. Current(d, t) BY <2>4, <2>5, <2>6
    <3> QED BY <1>0, <1>2, <2>2, <2>4, <3>1, <3>3, <3>4, <3>5, SlotsOwned DEF Current
  <2>7. CASE c # d
    <3>1. relay'[c] = relay[c] BY <2>2, <2>7 DEF IInv, TypeOK
    <3>2. s # t BY <1>5, <2>7, <3>1
    <3> QED BY <1>2, <2>2, <2>3, <2>5, <3>1, <3>2, MoreMessages, StillCurrent
  <2> QED BY <2>6, <2>7
<1>7. CASE m.type = "registered"
  <2>1. /\ relay' = [relay EXCEPT ![d].registered = TRUE]
        /\ down' = [down EXCEPT ![t] = Tail(@)]
        /\ UNCHANGED <<end, session, up>>
    BY <1>0, <1>1, <1>7 DEF ReadRelay
  <2>2. /\ down'[t] = Tail(down[t]) /\ \A x \in Slots \ {t} : down'[x] = down[x]
    BY <1>2, <2>1
  <2>3. relay'[d].slot = t /\ relay'[d].nonce = relay[d].nonce /\ relay'[d].registered
    <3>1. relay'[d] = [relay[d] EXCEPT !.registered = TRUE] BY <2>1 DEF IInv, TypeOK
    <3> QED BY <1>0, <3>1 DEF IInv, TypeOK
  <2> SUFFICES ASSUME NEW c \in Clients, NEW s \in Slots, relay'[c].slot = s PROVE Current(c, s)'
    BY DEF ListingsFit, Current
  <2>4. Current(c, s) BY DEF ListingsFit
  <2>5. CASE c = d
    <3>1. Challenges(t) => Challenges(t)' BY <1>3, <1>7, <2>2 DEF Challenges
    <3> QED BY <1>0, <1>2, <2>1, <2>3, <2>4, <2>5, <3>1 DEF Current
  <2>6. CASE c # d
    <3>1. relay'[c] = relay[c] BY <2>1, <2>6 DEF IInv, TypeOK
    <3>2. s # t BY <1>5, <2>6, <3>1
    <3> QED BY <1>2, <2>1, <2>2, <2>4, <3>1, <3>2, MoreMessages, StillCurrent
  <2> QED BY <2>5, <2>6
<1>8. CASE m.type = "incoming"
  <2>1. PICK rest : rest = [down EXCEPT ![t] = Tail(@)] OBVIOUS
  <2>2. /\ rest \in [Slots -> Seq(Answers)] /\ rest[t] = Tail(down[t])
        /\ \A x \in Slots \ {t} : rest[x] = down[x]
    BY <1>2, <2>1, Taken
  <2>3. \A x \in Slots : \A n \in ToSet(down[x]) : n.type # "incoming" => n \in ToSet(rest[x])
    BY <1>3, <1>8, <2>2
  <2>4. CASE down' = rest /\ UNCHANGED <<end, session, up, relay>>
    <3>1. \A x \in Slots : (Challenges(x) => Challenges(x)') /\ (Confirms(x) => Confirms(x)')
      BY <2>3, <2>4 DEF Challenges, Confirms
    <3> SUFFICES ASSUME NEW c \in Clients, NEW s \in Slots PROVE Current(c, s)' BY DEF ListingsFit
    <3>2. Current(c, s) BY DEF ListingsFit
    <3> QED BY <1>2, <2>4, <3>1, <3>2, StillCurrent
  <2>5. ASSUME NEW e, Open(d, e, rest), UNCHANGED <<up, relay>> PROVE ListingsFit'
    <3>1. PICK f : f = FreeSlot(d) OBVIOUS
    <3>2. /\ FreeSlots(d) # {}
          /\ session' = [session EXCEPT ![f].live = (Cardinality(Live) < MaxSessions)]
          /\ down' = [rest EXCEPT ![f] = IF Cardinality(Live) < MaxSessions THEN <<Challenge>> ELSE <<>>]
      BY <2>5, <3>1 DEF Open
    <3>3. f \in Slots /\ ~ end[f].open BY <3>1, <3>2, FreeSlotIsFree
    <3>4. \A x \in Slots \ {f} : session'[x] = session[x] /\ down'[x] = rest[x]
      BY <2>2, <3>2, <3>3 DEF IInv, TypeOK
    <3>5. \A x \in Slots \ {f} : (Challenges(x) => Challenges(x)') /\ (Confirms(x) => Confirms(x)')
      BY <2>3, <3>4 DEF Challenges, Confirms
    <3> QED BY <1>2, <2>5, <3>3, <3>4, <3>5, OpenCurrent
  <2> QED BY <1>0, <1>1, <1>8, <2>1, <2>4, <2>5 DEF ReadRelay
<1> QED BY <1>0, <1>1, <1>6, <1>7, <1>8 DEF ReadRelay

LEMMA ReadLinkCurrent ==
    ASSUME IInv, ListingsFit, NEW r \in Slots, ReadLink(r) PROVE ListingsFit'
<1>1. /\ end[r].action # "control" /\ UNCHANGED <<session, registered, waiting, member>>
  BY DEF ReadLink
<1>2. CASE ClientCloses({r}) /\ UNCHANGED up BY <1>1, <1>2, ClientClosesCurrent
<1>3. CASE UNCHANGED <<cut, relay>> /\ down' = [down EXCEPT ![r] = Tail(@)]
           /\ (up' = up \/ up' = ToRelay(up, r, Request(r)))
  <2> SUFFICES ASSUME NEW c \in Clients, NEW s \in Slots, relay[c].slot = s PROVE Current(c, s)'
    BY <1>3 DEF ListingsFit, Current
  <2>1. Current(c, s) BY DEF ListingsFit
  <2>2. s # r BY <1>1, ControlSlot
  <2>3. up'[s] = up[s] /\ down'[s] = down[s] BY <1>3, <2>2 DEF ToRelay, IInv, TypeOK
  <2> QED BY <1>1, <1>3, <2>1, <2>3, MoreMessages, StillCurrent
<1> QED BY <1>2, <1>3 DEF ReadLink

\* A registration is read: it is the last one, or another follows.
LEMMA RegisterCurrent ==
    ASSUME IInv, ListingsFit, NEW r \in Slots, Route(r), RouteRegister(r, Head(up[r])),
           Head(up[r]).type = "register"
    PROVE  ListingsFit'
<1>1. PICK m \in Requests : m = Head(up[r]) BY Routed
<1>2. /\ session[r].live /\ UNCHANGED <<end, relay, member>> /\ r \notin cut
      /\ m.peer = Owner(r) /\ up[r] # <<>> /\ up[r] \in Seq(Requests) /\ m.type = "register"
  BY <1>1, Routed DEF Route
<1>3. CASE Drop(r, waiting) /\ UNCHANGED down
  BY <1>2, <1>3, DropsOneCurrent DEF DropsOne
<1>4. CASE /\ registered[m.peer] \in {NoSlot, r}
           /\ session' = [session EXCEPT ![r].control = TRUE, ![r].peer = m.peer,
                                         ![r].listed = m.listed]
           /\ registered' = [registered EXCEPT ![m.peer] = r]
           /\ down' = ToClient(down, r, Registered)
           /\ up' = [up EXCEPT ![r] = Tail(@)]
           /\ UNCHANGED <<waiting, cut>>
  <2>1. Registered \in Answers /\ Registered.type = "registered" /\ down \in [Slots -> Seq(Answers)]
    BY DEF Registered, Answers, IInv, TypeOK
  <2>2. \A x \in Slots : ToSet(down[x]) \subseteq ToSet(down[x])' BY <1>4, <2>1, ToldToo
  <2>3. \A x \in Slots : (Challenges(x) => Challenges(x)') /\ (Confirms(x) => Confirms(x)')
    BY <2>2, MoreMessages
  <2>4. session'[r].listed = m.listed /\ session'[r].live
    <3>1. \A x \in Sessions : LET w == [x EXCEPT !.control = TRUE, !.peer = m.peer, !.listed = m.listed]
                              IN  w.listed = m.listed /\ w.live = x.live
      BY DEF Sessions
    <3>2. session[r] \in Sessions BY DEF IInv, TypeOK, Sessions
    <3>3. session'[r] = [session[r] EXCEPT !.control = TRUE, !.peer = m.peer, !.listed = m.listed]
      BY <1>4 DEF IInv, TypeOK
    <3> QED BY <1>2, <3>1, <3>2, <3>3
  <2>5. /\ \A x \in Slots \ {r} : session'[x] = session[x] /\ up'[x] = up[x]
        /\ up'[r] = Tail(up[r])
    BY <1>4 DEF IInv, TypeOK
  <2>6. registered'[Owner(r)] = r /\ \A p \in Peers \ {Owner(r)} : registered'[p] = registered[p]
    BY <1>2, <1>4, SlotsOwned, RelayAssumption DEF IInv, TypeOK
  <2> SUFFICES ASSUME NEW c \in Clients, NEW s \in Slots, relay[c].slot = s PROVE Current(c, s)'
    BY <1>2 DEF ListingsFit, Current
  <2>7. Current(c, s) BY DEF ListingsFit
  <2>8. CASE s = r
    <3>1. c = Owner(r) /\ end[r].open BY <2>8, ControlSlot
    <3>2. Confirms(r)'
      <4>1. Registered \in ToSet(ToClient(down, r, Registered)[r]) BY <1>2, <2>1, <3>1, ToldToo
      <4> QED BY <1>4, <2>1, <4>1 DEF Confirms
    <3>3. CASE Tail(up[r]) = <<>>
      <4>1. Len(up[r]) = 1
        <5>1. Len(Tail(up[r])) = Len(up[r]) - 1 /\ Len(Tail(up[r])) = 0 BY <1>2, <3>3, Taken
        <5> QED BY <1>2, <5>1
      <4>2. up[r][Len(up[r])] = m BY <1>1, <1>2, <4>1
      <4> QED BY <1>2, <1>4, <2>3, <2>4, <2>5, <2>6, <2>7, <2>8, <3>1, <3>2, <3>3, <4>2 DEF Current
    <3>4. CASE Tail(up[r]) # <<>>
      <4>1. Tail(up[r])[Len(Tail(up[r]))] = up[r][Len(up[r])]
        <5>1. /\ Tail(up[r]) \in Seq(Requests) /\ Len(Tail(up[r])) = Len(up[r]) - 1
              /\ \A n \in DOMAIN Tail(up[r]) : Tail(up[r])[n] = up[r][n + 1]
          BY <1>2, Taken
        <5>2. Len(Tail(up[r])) \in DOMAIN Tail(up[r]) BY <3>4, <5>1
        <5>3. Len(Tail(up[r])) + 1 = Len(up[r]) BY <1>2, <5>1
        <5> QED BY <5>1, <5>2, <5>3
      <4> QED BY <1>2, <1>4, <2>3, <2>4, <2>5, <2>6, <2>7, <2>8, <3>1, <3>2, <3>4, <4>1 DEF Current
    <3> QED BY <3>3, <3>4
  <2>9. CASE s # r
    <3>1. c \in Peers /\ s # NoSlot BY RelayAssumption, SlotsOwned
    <3>2. registered'[c] = s <=> registered[c] = s
      <4>1. CASE c = Owner(r) BY <1>2, <1>4, <2>6, <2>9, <3>1, <4>1
      <4>2. CASE c # Owner(r) BY <2>6, <3>1, <4>2
      <4> QED BY <4>1, <4>2
    <3> QED BY <1>2, <1>4, <2>3, <2>5, <2>7, <2>9, <3>2, StillCurrent
  <2> QED BY <2>8, <2>9
<1> QED BY <1>1, <1>3, <1>4 DEF RouteRegister

\* Calls and tickets are nothing to a control connection.
LEMMA RouteLinkCurrent ==
    ASSUME IInv, ListingsFit, NEW r \in Slots, Route(r),
           \/ Head(up[r]).type = "dial" /\ RouteDial(r, Head(up[r]))
           \/ Head(up[r]).type = "accept" /\ RouteAccept(r, Head(up[r]))
    PROVE  ListingsFit'
<1>1. PICK m \in Requests : m = Head(up[r]) BY Routed
<1>2. /\ session[r].live /\ UNCHANGED <<end, relay, member>> /\ up[r] # <<>>
      /\ ~ (end[r].open /\ end[r].action = "control") /\ m.type \in {"dial", "accept"}
      /\ m.peer = Owner(r) /\ down \in [Slots -> Seq(Answers)]
  BY <1>1, Routed DEF Route, IInv, TypeOK
<1>3. CASE \E tickets \in {waiting, waiting \ {m.ticket}} :
              Drop(r, tickets) /\ (down' = down \/ down' = ToClient(down, r, Unavailable))
  <2>1. DropsOne(r) BY <1>2, <1>3 DEF DropsOne
  <2> QED BY <2>1, DropsOneCurrent
<1>4. CASE /\ \A x \in Slots : end[x].open /\ end[x].action = "control" =>
                 session'[x].live = session[x].live /\ session'[x].listed = session[x].listed
           /\ \A x \in Slots : ToSet(down[x]) \subseteq ToSet(down[x])'
           /\ up' = [up EXCEPT ![r] = Tail(@)]
           /\ UNCHANGED <<registered, cut>>
  <2> SUFFICES ASSUME NEW c \in Clients, NEW s \in Slots, relay[c].slot = s PROVE Current(c, s)'
    BY <1>2 DEF ListingsFit, Current
  <2>1. Current(c, s) BY DEF ListingsFit
  <2>2. end[s].open /\ end[s].action = "control" /\ s # r BY <1>2, ControlSlot
  <2>3. up'[s] = up[s] BY <1>4, <2>2 DEF IInv, TypeOK
  <2>4. (Challenges(s) => Challenges(s)') /\ (Confirms(s) => Confirms(s)') BY <1>4, MoreMessages
  <2> QED BY <1>2, <1>4, <2>1, <2>2, <2>3, <2>4, StillCurrent
<1>5. CASE m.type = "dial"
  <2>1. ASSUME NEW q \in Receivers(m),
               session' = [session EXCEPT ![r].peer = session[q].peer],
               down' = ToClient(down, q, Incoming(r, m.peer)),
               up' = [up EXCEPT ![r] = Tail(@)],
               UNCHANGED <<registered, cut>>
        PROVE  ListingsFit'
    <3>1. q \in Slots
      BY <1>1, <1>5, <2>1, RelayAssumption DEF Receivers, Requests, IInv, TypeOK
    <3>2. PICK a \in Answers : a = Incoming(r, m.peer)
      BY <1>2, SlotsOwned DEF Incoming, Answers
    <3>3. \A x \in Slots : ToSet(down[x]) \subseteq ToSet(down[x])'
      BY <1>2, <2>1, <3>1, <3>2, ToldToo
    <3>4. \A x \in Slots : session'[x].live = session[x].live /\ session'[x].listed = session[x].listed
      BY <2>1 DEF IInv, TypeOK
    <3> QED BY <1>4, <2>1, <3>3, <3>4
  <2> QED BY <1>1, <1>2, <1>3, <1>5, <2>1 DEF RouteDial
<1>6. CASE m.type = "accept"
  <2>1. CASE ~ (m.ticket \in waiting /\ session[m.ticket].peer = m.peer)
    BY <1>1, <1>2, <1>3, <1>6, <2>1 DEF RouteAccept
  <2>2. ASSUME NEW t \in Slots, t = m.ticket, t \in waiting, session[t].peer = m.peer
        PROVE  ListingsFit'
    <3>1. /\ session' = [session EXCEPT ![t].tunnel = TRUE, ![t].paired = r,
                                        ![r].tunnel = TRUE, ![r].paired = t]
          /\ down' = ToClient(ToClient(down, t, Ready(session[t].peer)), r, Ready(NoPeer))
          /\ up' = [up EXCEPT ![r] = Tail(@)]
          /\ UNCHANGED <<registered, cut>>
      BY <1>1, <1>2, <1>6, <2>2 DEF RouteAccept
    <3>2. \A x \in Slots \ {t, r} : session'[x] = session[x]
      BY <3>1 DEF IInv, TypeOK
    <3>3. ~ (end[t].open /\ end[t].action = "control") BY <2>2 DEF IInv, SinglePurpose
    <3>4. PICK yes \in Answers : yes = Ready(session[t].peer)
      BY DEF Ready, Answers, IInv, TypeOK
    <3>5. PICK ok \in Answers : ok = Ready(NoPeer) BY DEF Ready, Answers
    <3>6. PICK first : first = ToClient(down, t, yes) OBVIOUS
    <3>7. first \in [Slots -> Seq(Answers)] BY <1>2, <3>6, Delivered
    <3>8. \A x \in Slots : ToSet(down[x]) \subseteq ToSet(first[x]) BY <1>2, <3>6, ToldToo
    <3>9. \A x \in Slots : ToSet(first[x]) \subseteq ToSet(down[x])'
      BY <3>1, <3>4, <3>5, <3>6, <3>7, ToldToo
    <3>10. \A x \in Slots : end[x].open /\ end[x].action = "control" =>
                 session'[x].live = session[x].live /\ session'[x].listed = session[x].listed
      BY <1>2, <3>2, <3>3
    <3> QED BY <1>4, <3>1, <3>8, <3>9, <3>10
  <2>3. m.ticket \in waiting => m.ticket \in Slots BY DEF IInv, TypeOK
  <2> QED BY <2>1, <2>2, <2>3
<1> QED BY <1>2, <1>5, <1>6

LEMMA RouteCurrent == ASSUME IInv, ListingsFit, NEW s \in Slots, Route(s) PROVE ListingsFit'
<1> DEFINE m == Head(up[s])
<1>1. session[s].live /\ UNCHANGED <<end, relay, member>> BY DEF Route
<1>2. CASE Drop(s, waiting) /\ UNCHANGED down BY <1>1, <1>2, DropsOneCurrent DEF DropsOne
<1>3. m.type \in {"register", "dial", "accept"} BY Routed DEF Requests
<1>4. CASE m.nonce # s BY <1>2, <1>4 DEF Route
<1>5. CASE m.nonce = s
  <2>1. CASE m.type = "register" BY <1>5, <2>1, RegisterCurrent DEF Route
  <2>2. CASE m.type = "dial" BY <1>2, <1>5, <2>2, RouteLinkCurrent DEF Route
  <2>3. CASE m.type = "accept" BY <1>2, <1>5, <2>3, RouteLinkCurrent DEF Route
  <2> QED BY <1>3, <2>1, <2>2, <2>3
<1> QED BY <1>4, <1>5

LEMMA CutCurrent == ASSUME IInv, ListingsFit, NEW d \in Clients, Cut(d) PROVE ListingsFit'
<1>1. PICK S : /\ cut' = cut \cup S
               /\ up' = [s \in Slots |-> IF s \in S THEN <<>> ELSE up[s]]
               /\ down' = [s \in Slots |-> IF s \in S THEN <<>> ELSE down[s]]
               /\ UNCHANGED <<end, session, registered, waiting, relay, member>>
  BY DEF Cut
<1> SUFFICES ASSUME NEW c \in Clients, NEW s \in Slots PROVE Current(c, s)' BY DEF ListingsFit
<1>2. Current(c, s) BY DEF ListingsFit
<1>3. s \notin cut' => s \notin cut /\ up'[s] = up[s] /\ down'[s] = down[s] BY <1>1
<1>4. down'[s] = down[s] => (Challenges(s) => Challenges(s)') /\ (Confirms(s) => Confirms(s)')
  BY MoreMessages
<1> QED BY <1>1, <1>2, <1>3, <1>4, StillCurrent
-----------------------------------------------------------------------------
\* Every step of clients, relay and network keeps the list what it should be.
LEMMA NextListingsFit == IInv /\ ListingsFit /\ [Next]_vars => ListingsFit'
<1> SUFFICES ASSUME IInv, ListingsFit, [Next]_vars PROVE ListingsFit' OBVIOUS
<1>1. ASSUME NEW c \in Clients, ConnectRelay(c) PROVE ListingsFit' BY <1>1, ConnectRelayCurrent
<1>2. ASSUME NEW c \in Clients, ReadRelay(c) PROVE ListingsFit' BY <1>2, ReadRelayCurrent
<1>3. ASSUME NEW c \in Clients, ChangeMembership(c) PROVE ListingsFit'
  BY <1>3, ChangeMembershipCurrent
<1>4. ASSUME NEW c \in Clients, Cut(c) PROVE ListingsFit' BY <1>4, CutCurrent
<1>5. ASSUME NEW c \in Clients, RestartClient(c) PROVE ListingsFit'
  <2> DEFINE S == {s \in Slots : end[s].open /\ Owner(s) = c}
  <2>1. ClientCloses(S) /\ UNCHANGED <<session, up, registered, waiting, member>>
    BY <1>5 DEF RestartClient
  <2>2. S \in SUBSET Slots OBVIOUS
  <2> HIDE DEF S
  <2> QED BY <2>1, <2>2, ClientClosesCurrent
<1>6. ASSUME NEW call \in Calls, Dial(call) PROVE ListingsFit' BY <1>6, DialCurrent
<1>7. ASSUME NEW s \in Slots, ReadLink(s) PROVE ListingsFit' BY <1>7, ReadLinkCurrent
<1>8. ASSUME NEW s \in Slots, ClientSeesClose(s) \/ TickGivesUp(s) \/ Abort(s) PROVE ListingsFit'
  <2>1. ClientCloses({s}) /\ UNCHANGED <<session, up, registered, waiting, member>>
    BY <1>8 DEF ClientSeesClose, TickGivesUp, Abort
  <2> QED BY <2>1, ClientClosesCurrent
<1>9. ASSUME NEW s \in Slots, Route(s) PROVE ListingsFit' BY <1>9, RouteCurrent
<1>10. ASSUME NEW s \in Slots, RelaySeesClose(s) \/ TickIdle(s) PROVE ListingsFit'
  <2>1. DropsOne(s) BY <1>10 DEF RelaySeesClose, TickIdle, DropsOne
  <2> QED BY <2>1, DropsOneCurrent
<1>11. CASE RestartRelay
  <2>1. \A s \in Slots : ~ session'[s].live BY <1>11 DEF RestartRelay, Gone
  <2> QED BY <2>1 DEF ListingsFit, Current
<1>12. CASE UNCHANGED vars
  BY <1>12 DEF vars, ListingsFit, Current, Challenges, Confirms
<1> QED BY <1>1, <1>2, <1>3, <1>4, <1>5, <1>6, <1>7, <1>8, <1>9, <1>10, <1>11, <1>12 DEF Next

\* However saves, registrations and faults cross (Node::save, registerRelay,
\* CommunityRouter::route): when nothing is on its way between a client and the
\* relay, the relay has it on the list of its community exactly if it is a member.
THEOREM ListingsThm == Spec => []QuietListings
<1>1. Spec => []ListingsFit
  <2>1. Spec => []IInv BY Invariance
  <2> QED BY <2>1, InitListings, NextListingsFit, PTL DEF Spec
<1>2. IInv /\ ListingsFit => QuietListings
  <2> SUFFICES ASSUME IInv, ListingsFit, NEW c \in Clients, NEW s \in Slots, relay[c].slot = s,
                      s \notin cut, up[s] = <<>>, down[s] = <<>>, session[s].live
               PROVE  registered[c] = s /\ relay[c].registered /\ session[s].listed = member[c]
    BY DEF QuietListings, IInv, TypeOK
  <2>1. ~ Challenges(s) /\ ~ Confirms(s) BY Few DEF Challenges, Confirms
  <2> QED BY <2>1 DEF ListingsFit, Current
<1> QED BY <1>1, <1>2, Invariance, PTL
=============================================================================
