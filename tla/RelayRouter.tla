------------------------------ MODULE RelayRouter ------------------------------
(***************************************************************************)
(* The relay (src/relay/community_router.cpp) and the part of              *)
(* community::Node (src/community/node.cpp) that talks to it.  A client    *)
(* keeps one control connection, on which it is registered and told of     *)
(* incoming calls; a call is a connection of the caller that the relay     *)
(* bridges with one the called peer opens with the ticket it was told.     *)
(*                                                                         *)
(* A slot is one TCP connection, named by the client and its local port.   *)
(* Its two ends, "end" at the client and "session" at the relay, go        *)
(* separately: whoever closes first, the other notices later, and not at   *)
(* all before its timers run out when the network has cut the connection.  *)
(* A ticket and a nonce are as fresh as the connection they were made for, *)
(* so the slot stands for both; a port is used again once nobody mentions  *)
(* its last connection any more.                                           *)
(*                                                                         *)
(* Bytes that a tunnel forwards are not modelled, nor are the ping and the *)
(* pong whose absence the timers notice.                                   *)
(***************************************************************************)
EXTENDS Integers, FiniteSets, SequencesExt

CONSTANTS
    Peers,       \* identities
    NoPeer,      \* no identity (an empty QString)
    Clients,     \* the peers whose client is running
    Movers,      \* the clients whose user joins and leaves the community
    Calls,       \* whom clients call, and whether the relay may look for another member
    Ports,       \* local ports of a client
    NoSlot,      \* no connection (nullptr, or an empty nonce)
    MaxSessions, \* 512 in CommunityRouter::adopt
    MaxLinks,    \* 256 in Node::dial and Node::readRelay
    MaxFaults,   \* bound: cuts, restarts and links aborted for other reasons
    MaxChanges   \* bound: times a client enters or leaves the community

ASSUME RelayAssumption ==
    /\ NoPeer \notin Peers /\ Clients \subseteq Peers /\ Movers \subseteq Clients
    /\ Calls \subseteq [from : Clients, to : Peers, discover : BOOLEAN]
    /\ \A call \in Calls : call.from # call.to
    /\ MaxSessions \in Nat /\ MaxLinks \in Nat /\ MaxFaults \in Nat /\ MaxChanges \in Nat

Slots == Clients \X Ports
Owner(s) == s[1]

ASSUME SlotAssumption == NoSlot \notin Slots

VARIABLES
    end,        \* the client's end of each connection: relay_, or a Link to be tunnelled
    session,    \* the relay's end: a CommunityRouter::Session
    up, down,   \* what travels to the relay and to the client
    cut,        \* connections over which nothing passes any more, which neither end can see
    registered, \* registered_: the control session of each peer
    waiting,    \* waiting_: the tickets that have not been taken, each the caller's session
    relay,      \* relay_, relayNonce_ and relayRegistered_ of each client
    member,     \* whether each client is a member of the community
    spent       \* how much of the bounds is used

vars == <<end, session, up, down, cut, registered, waiting, relay, member, spent>>
-----------------------------------------------------------------------------
NoCall == [from |-> NoPeer, to |-> NoPeer, discover |-> FALSE]
Closed == [open |-> FALSE, action |-> "none", call |-> NoCall,
           expected |-> NoPeer, ticket |-> NoSlot, tls |-> FALSE]
Gone == [live |-> FALSE, peer |-> NoPeer, control |-> FALSE, listed |-> FALSE,
         tunnel |-> FALSE, paired |-> NoSlot]
Offline == [slot |-> NoSlot, nonce |-> NoSlot, registered |-> FALSE]

\* Requests of a client.  All are signed and carry the nonce of the challenge.
Register(c, nonce, listed) == [type |-> "register", peer |-> c, nonce |-> nonce, listed |-> listed]
Request(s) ==
    [type |-> end[s].action, peer |-> Owner(s), nonce |-> s,
     call |-> end[s].call, ticket |-> end[s].ticket]

\* What the relay sends.
Challenge == [type |-> "challenge"]
Registered == [type |-> "registered"]
Unavailable == [type |-> "unavailable"]
Incoming(ticket, peer) == [type |-> "incoming", ticket |-> ticket, peer |-> peer]
Ready(peer) == [type |-> "ready", peer |-> peer]

Live == {s \in Slots : session[s].live}
LinksOf(c) == {s \in Slots : end[s].open /\ Owner(s) = c /\ end[s].action # "control"}
Mentions(m, s) == m.type \in {"incoming", "accept"} /\ m.ticket = s
Free(s) ==
    /\ ~ end[s].open /\ ~ session[s].live /\ s \notin waiting
    /\ \A x \in Slots :
          /\ end[x].open => end[x].ticket # s
          /\ \A n \in DOMAIN down[x] : ~ Mentions(down[x][n], s)
          /\ \A n \in DOMAIN up[x] : ~ Mentions(up[x][n], s)

\* A message is lost when nobody is there to read it.
ToRelay(queues, s, m) ==
    IF session[s].live /\ s \notin cut THEN [queues EXCEPT ![s] = Append(@, m)] ELSE queues
ToClient(queues, s, m) ==
    IF end[s].open /\ s \notin cut THEN [queues EXCEPT ![s] = Append(@, m)] ELSE queues
-----------------------------------------------------------------------------
(***************************************************************************)
(* The client.                                                             *)
(***************************************************************************)
FreeSlots(c) == {s \in Slots : Owner(s) = c /\ Free(s)}
FreeSlot(c) == CHOOSE s \in FreeSlots(c) : TRUE

\* connectToHost and the prefix, and CommunityRouter::adopt, which answers with
\* a challenge or closes the connection at once when it has too many.
Open(c, e, queues) ==
    LET s       == FreeSlot(c)
        adopted == Cardinality(Live) < MaxSessions
    IN  /\ FreeSlots(c) # {}
        /\ end' = [end EXCEPT ![s] = e]
        /\ session' = [session EXCEPT ![s].live = adopted]
        /\ down' = [queues EXCEPT ![s] = IF adopted THEN <<Challenge>> ELSE <<>>]

\* Mutant: the nonce of the last connection stays.
ForgottenButNonce(r) == [Offline EXCEPT !.nonce = r.nonce]
Forgotten(r) == Offline

\* The cleanup of a closed socket: connectRelay's, or that of makeLink.
ClientCloses(S) ==
    /\ end' = [s \in Slots |-> IF s \in S THEN Closed ELSE end[s]]
    /\ relay' = [c \in Clients |-> IF relay[c].slot \in S THEN Forgotten(relay[c]) ELSE relay[c]]
    /\ down' = [s \in Slots |-> IF s \in S THEN <<>> ELSE down[s]]
    /\ cut' = cut \ {s \in S : ~ session[s].live}

\* Node::connectRelay, on the first tick after relayDue_.
ConnectRelay(c) ==
    /\ relay[c].slot = NoSlot
    /\ Open(c, [Closed EXCEPT !.open = TRUE, !.action = "control"], down)
    /\ relay' = [relay EXCEPT ![c].slot = FreeSlot(c)]
    /\ UNCHANGED <<up, cut, registered, waiting, member, spent>>

\* Node::dial to a relay endpoint, when the retry is due.
Dial(call) ==
    /\ Cardinality(LinksOf(call.from)) < MaxLinks
    /\ \A s \in LinksOf(call.from) : end[s].call # call
    /\ Open(call.from, [Closed EXCEPT !.open = TRUE, !.action = "dial", !.call = call,
                                      !.expected = call.to], down)
    /\ UNCHANGED <<up, cut, registered, waiting, relay, member, spent>>

\* Mutant: a save does not tell the relay.
RegistersOnce(c, queues, listed) == queues
\* Node::registerRelay.
Registers(c, queues, listed) ==
    IF relay[c].slot = NoSlot \/ relay[c].nonce = NoSlot THEN queues
    ELSE ToRelay(queues, relay[c].slot, Register(c, relay[c].nonce, listed))

\* Node::save, when it changes whether the client is a member.
ChangeMembership(c) ==
    /\ c \in Movers /\ spent.changes < MaxChanges
    /\ spent' = [spent EXCEPT !.changes = @ + 1]
    /\ member' = [member EXCEPT ![c] = ~ @]
    /\ up' = Registers(c, up, ~ member[c])
    /\ UNCHANGED <<end, session, down, cut, registered, waiting, relay>>

\* Node::readRelay, on the control connection.
ReadRelay(c) ==
    LET s    == relay[c].slot
        m    == Head(down[s])
        rest == [down EXCEPT ![s] = Tail(@)]
    IN  /\ s # NoSlot /\ s \notin cut /\ down[s] # <<>>
        /\ \/ /\ m.type = "challenge"
              /\ relay' = [relay EXCEPT ![c].nonce = s]
              /\ up' = ToRelay(up, s, Register(c, s, member[c]))
              /\ down' = rest
              /\ UNCHANGED <<end, session>>
           \/ /\ m.type = "registered"
              /\ relay' = [relay EXCEPT ![c].registered = TRUE]
              /\ down' = rest
              /\ UNCHANGED <<end, session, up>>
           \/ /\ m.type = "incoming"
              /\ IF Cardinality(LinksOf(c)) >= MaxLinks THEN down' = rest /\ UNCHANGED <<end, session>>
                 ELSE Open(c, [Closed EXCEPT !.open = TRUE, !.action = "accept",
                                             !.expected = m.peer, !.ticket = m.ticket], rest)
              /\ UNCHANGED <<up, relay>>
        /\ UNCHANGED <<cut, registered, waiting, member, spent>>

\* Mutant: whoever answers a call, the caller expects the peer he asked for.
ExpectedAsAsked(e, m) == e.expected
\* Whose certificate the link accepts once the tunnel stands.
Expected(e, m) == IF e.action = "dial" /\ e.call.discover THEN m.peer ELSE e.expected

\* Node::read, on a link that is not in TLS yet.
ReadLink(s) ==
    LET m    == Head(down[s])
        rest == [down EXCEPT ![s] = Tail(@)]
    IN  /\ end[s].open /\ end[s].action # "control" /\ ~ end[s].tls
        /\ s \notin cut /\ down[s] # <<>>
        /\ \/ /\ m.type = "challenge"
              /\ up' = ToRelay(up, s, Request(s))
              /\ down' = rest
              /\ UNCHANGED <<end, cut, relay>>
           \/ /\ m.type = "ready"
              /\ end' = [end EXCEPT ![s].tls = TRUE, ![s].expected = Expected(end[s], m)]
              /\ down' = rest
              /\ UNCHANGED <<up, cut, relay>>
           \/ /\ m.type = "unavailable"
              /\ ClientCloses({s})
              /\ UNCHANGED up
        /\ UNCHANGED <<session, registered, waiting, member, spent>>

\* The client notices that the relay has closed, or refused, a connection.
ClientSeesClose(s) ==
    /\ end[s].open /\ ~ session[s].live /\ s \notin cut
    /\ ClientCloses({s})
    /\ UNCHANGED <<session, up, registered, waiting, member, spent>>

\* What a tunnel that stands, or a call under way, waits for can still arrive.
Mute(s) ==
    \/ s \in cut \/ ~ session[s].live
    \/ session[s].tunnel /\ (session[s].paired \in cut \/ ~ end[session[s].paired].open)
UnderWay(s) ==
    \/ s \notin cut /\ (up[s] # <<>> \/ down[s] # <<>>)
    \/ /\ s \in waiting
       /\ \E x \in Slots \ cut :
             \/ \E n \in DOMAIN down[x] : Mentions(down[x][n], s)
             \/ /\ end[x].open /\ end[x].ticket = s /\ ~ end[x].tls
                /\ up[x] # <<>> \/ down[x] # <<>>

\* Somebody has closed a connection and the other end will see it in no time.
Closing == \E s \in Slots \ cut : end[s].open # session[s].live

\* Node::tick: a link that has heard nothing for 35 s, or 10 s without a hello;
\* a control connection that has heard no pong for 35 s, or no answer for 10 s.
TickGivesUp(s) ==
    /\ end[s].open
    /\ \/ s \in cut
       \/ end[s].tls /\ Mute(s)
       \/ end[s].action # "control" /\ ~ end[s].tls /\ ~ UnderWay(s) /\ ~ Closing
    /\ ClientCloses({s})
    /\ UNCHANGED <<session, up, registered, waiting, member, spent>>
-----------------------------------------------------------------------------
(***************************************************************************)
(* The relay.                                                              *)
(***************************************************************************)
\* Mutant: a caller that goes leaves its ticket behind.
TicketsKept(tickets, S) == tickets
TicketsLeft(tickets, S) == tickets \ S

\* What the "disconnected" slot of adopt does for session s and its pair.
Drop(s, tickets) ==
    LET all == {s, session[s].paired} \ {NoSlot}
    IN  /\ session' = [x \in Slots |-> IF x \in all THEN Gone ELSE session[x]]
        /\ registered' = [p \in Peers |->
              IF \E x \in all : session[x].peer = p /\ registered[p] = x
              THEN NoSlot ELSE registered[p]]
        /\ waiting' = TicketsLeft(tickets, all)
        /\ up' = [x \in Slots |-> IF x \in all THEN <<>> ELSE up[x]]
        /\ cut' = cut \ {x \in all : ~ end[x].open}

\* "register" in CommunityRouter::route.
RouteRegister(s, m) ==
    IF registered[m.peer] \notin {NoSlot, s} THEN Drop(s, waiting) /\ UNCHANGED down
    ELSE /\ session' = [session EXCEPT ![s].control = TRUE, ![s].peer = m.peer,
                                       ![s].listed = m.listed]
         /\ registered' = [registered EXCEPT ![m.peer] = s]
         /\ down' = ToClient(down, s, Registered)
         /\ up' = [up EXCEPT ![s] = Tail(@)]
         /\ UNCHANGED <<waiting, cut>>

\* Mutant: the relay only looks for the peer that was named.
ReceiversByName(m) == {registered[m.call.to]} \ {NoSlot}
\* Whom a call may reach: its target, or anyone who lists the community.  The
\* code takes the first such registration in the order of the peer ids.
Receivers(m) ==
    IF registered[m.call.to] # NoSlot THEN {registered[m.call.to]}
    ELSE {registered[q] : q \in {q \in Peers : /\ m.call.discover /\ q # m.peer
                                               /\ registered[q] # NoSlot
                                               /\ session[registered[q]].listed}}

RouteDial(s, m) ==
    \/ /\ \A r \in Receivers(m) : session[r].peer = m.peer
       /\ Drop(s, waiting)
       /\ down' = ToClient(down, s, Unavailable)
    \/ \E r \in Receivers(m) :
       /\ session[r].peer # m.peer
       /\ session' = [session EXCEPT ![s].peer = session[r].peer]
       /\ waiting' = waiting \cup {s}
       /\ down' = ToClient(down, r, Incoming(s, m.peer))
       /\ up' = [up EXCEPT ![s] = Tail(@)]
       /\ UNCHANGED <<registered, cut>>

\* "accept": the ticket is taken whoever presents it.
RouteAccept(s, m) ==
    LET t == m.ticket
    IN  IF t \in waiting /\ session[t].peer = m.peer
        THEN /\ session' = [session EXCEPT ![t].tunnel = TRUE, ![t].paired = s,
                                           ![s].tunnel = TRUE, ![s].paired = t]
             /\ waiting' = waiting \ {t}
             /\ down' = ToClient(ToClient(down, t, Ready(session[t].peer)), s, Ready(NoPeer))
             /\ up' = [up EXCEPT ![s] = Tail(@)]
             /\ UNCHANGED <<registered, cut>>
        ELSE Drop(s, waiting \ {t}) /\ UNCHANGED down

\* CommunityRouter::read and route.
Route(s) ==
    LET m == Head(up[s])
    IN  /\ session[s].live /\ ~ session[s].tunnel /\ s \notin cut /\ up[s] # <<>>
        /\ CASE m.nonce # s -> Drop(s, waiting) /\ UNCHANGED down
             [] m.nonce = s /\ m.type = "register" -> RouteRegister(s, m)
             [] m.nonce = s /\ m.type = "dial" /\ ~ session[s].control -> RouteDial(s, m)
             [] m.nonce = s /\ m.type = "accept" /\ ~ session[s].control -> RouteAccept(s, m)
             [] OTHER -> Drop(s, waiting) /\ UNCHANGED down
        /\ UNCHANGED <<end, relay, member, spent>>

\* The relay notices that a client has closed; what it had not read is gone.
RelaySeesClose(s) ==
    /\ session[s].live /\ ~ end[s].open /\ s \notin cut
    /\ Drop(s, waiting)
    /\ UNCHANGED <<end, down, relay, member, spent>>

\* Mutant: a registered peer is never given up.
IdleUnlessRegistered(s) == ~ session[s].tunnel /\ ~ session[s].control
Idle(s) == ~ session[s].tunnel

\* The timer of the constructor: 40 s for control sessions, 15 s for others.
TickIdle(s) ==
    /\ session[s].live /\ Idle(s)
    /\ \/ s \in cut
       \/ ~ session[s].control /\ end[s].open /\ ~ UnderWay(s) /\ ~ Closing
    /\ Drop(s, waiting)
    /\ UNCHANGED <<end, down, relay, member, spent>>
-----------------------------------------------------------------------------
(***************************************************************************)
(* Faults.                                                                 *)
(***************************************************************************)
Fault ==
    /\ spent.faults < MaxFaults
    /\ spent' = [spent EXCEPT !.faults = @ + 1]

\* The network loses a client's connections, and perhaps the last packet of
\* some that were closed.
Cut(c) ==
    \E closing \in SUBSET {s \in Live : ~ end[s].open} :
        LET S == {s \in Slots : end[s].open /\ Owner(s) = c} \cup closing
        IN  /\ Fault /\ S # {}
            /\ cut' = cut \cup S
            /\ up' = [s \in Slots |-> IF s \in S THEN <<>> ELSE up[s]]
            /\ down' = [s \in Slots |-> IF s \in S THEN <<>> ELSE down[s]]
            /\ UNCHANGED <<end, session, registered, waiting, relay, member>>

\* Node::stop, or a crash, and a new start.
RestartClient(c) ==
    LET S == {s \in Slots : end[s].open /\ Owner(s) = c}
    IN  /\ Fault /\ S # {}
        /\ ClientCloses(S)
        /\ UNCHANGED <<session, up, registered, waiting, member>>

\* A connection the client aborts for another reason: a timer that ran out while
\* the answer was on its way, a certificate, a duplicate of a link it has.
Abort(s) ==
    /\ Fault /\ end[s].open
    /\ ClientCloses({s})
    /\ UNCHANGED <<session, up, registered, waiting, member>>

\* CommunityRouter::close, or a crash of the relay, and a new start.
RestartRelay ==
    /\ Fault
    /\ session' = [s \in Slots |-> Gone]
    /\ registered' = [p \in Peers |-> NoSlot]
    /\ waiting' = {}
    /\ up' = [s \in Slots |-> <<>>]
    /\ cut' = {s \in cut : end[s].open}
    /\ UNCHANGED <<end, down, relay, member>>
-----------------------------------------------------------------------------
Init ==
    /\ end = [s \in Slots |-> Closed]
    /\ session = [s \in Slots |-> Gone]
    /\ up = [s \in Slots |-> <<>>]
    /\ down = [s \in Slots |-> <<>>]
    /\ cut = {}
    /\ registered = [p \in Peers |-> NoSlot]
    /\ waiting = {}
    /\ relay = [c \in Clients |-> Offline]
    /\ member = [c \in Clients |-> TRUE]
    /\ spent = [faults |-> 0, changes |-> 0]

Next ==
    \/ \E c \in Clients :
          ConnectRelay(c) \/ ReadRelay(c) \/ ChangeMembership(c) \/ Cut(c) \/ RestartClient(c)
    \/ \E call \in Calls : Dial(call)
    \/ \E s \in Slots :
          \/ ReadLink(s) \/ ClientSeesClose(s) \/ TickGivesUp(s)
          \/ Route(s) \/ RelaySeesClose(s) \/ TickIdle(s) \/ Abort(s)
    \/ RestartRelay

Spec == Init /\ [][Next]_vars

\* Both event loops run, their timers fire, the network delivers what it
\* carries or closes the connection.
Fairness ==
    /\ \A c \in Clients : WF_vars(ConnectRelay(c)) /\ WF_vars(ReadRelay(c))
    /\ \A call \in Calls : WF_vars(Dial(call))
    /\ \A s \in Slots : /\ WF_vars(ReadLink(s)) /\ WF_vars(ClientSeesClose(s))
                        /\ WF_vars(TickGivesUp(s)) /\ WF_vars(Route(s))
                        /\ WF_vars(RelaySeesClose(s)) /\ WF_vars(TickIdle(s))
FairSpec == Spec /\ Fairness
-----------------------------------------------------------------------------
(***************************************************************************)
(* Properties                                                              *)
(***************************************************************************)
Requests ==
    [type : {"register"}, peer : Clients, nonce : Slots, listed : BOOLEAN] \cup
    [type : {"dial"}, peer : Clients, nonce : Slots, call : Calls, ticket : {NoSlot}] \cup
    [type : {"accept"}, peer : Clients, nonce : Slots, call : {NoCall}, ticket : Slots]
Answers ==
    [type : {"challenge", "registered", "unavailable"}] \cup
    [type : {"incoming"}, ticket : Slots, peer : Clients] \cup
    [type : {"ready"}, peer : Peers \cup {NoPeer}]

\* A client that has no control connection has forgotten its nonce, too:
\* registering with an old one gets the next connection closed.
TypeOK ==
    /\ end \in [Slots -> [open : BOOLEAN, action : {"none", "control", "dial", "accept"},
                          call : Calls \cup {NoCall}, expected : Peers \cup {NoPeer},
                          ticket : Slots \cup {NoSlot}, tls : BOOLEAN]]
    /\ session \in [Slots -> [live : BOOLEAN, peer : Peers \cup {NoPeer}, control : BOOLEAN,
                              listed : BOOLEAN, tunnel : BOOLEAN, paired : Slots \cup {NoSlot}]]
    /\ up \in [Slots -> Seq(Requests)] /\ down \in [Slots -> Seq(Answers)]
    /\ cut \subseteq Slots /\ waiting \subseteq Slots
    /\ registered \in [Peers -> Slots \cup {NoSlot}]
    /\ relay \in [Clients -> [slot : Slots \cup {NoSlot}, nonce : Slots \cup {NoSlot},
                              registered : BOOLEAN]]
    /\ member \in [Clients -> BOOLEAN]
    /\ \A c \in Clients : relay[c].nonce \in {NoSlot, relay[c].slot}

\* CommunityRouter keeps plain pointers to sessions in three places.  None of
\* them outlives its session: a peer is registered on a live control session
\* of its own, a ticket belongs to a live session that is neither control nor
\* tunnel, and a tunnel has a live pair that points back at it.
DirectoryIsSound ==
    /\ \A p \in Peers : registered[p] # NoSlot =>
          LET s == session[registered[p]] IN s.live /\ s.control /\ s.peer = p
    /\ \A s \in Live : session[s].control => registered[session[s].peer] = s
    /\ \A s \in waiting : session[s].live /\ ~ session[s].control /\ ~ session[s].tunnel
    /\ \A s \in Slots : session[s].tunnel => session[session[s].paired].paired = s

\* docs/networking.md: the relay pairs a caller's connection with an outbound
\* connection from the target peer.  When the two ends of a tunnel start TLS,
\* each expects the identity of the other, whoever answered the call.
TunnelsJoinTheRightPeers ==
    \A s \in Live :
        LET t == session[s].paired
        IN  session[s].tunnel /\ end[s].tls /\ end[t].tls =>
                /\ end[s].expected = Owner(t) /\ end[t].expected = Owner(s)
                /\ {end[s].action, end[t].action} = {"dial", "accept"}

\* The relay finds other members for a joining peer by what they registered: once
\* nothing is on its way between the two, it lists a registered client for the
\* community exactly if that is a member, although saves and registrations cross.
QuietListings ==
    \A c \in Clients :
        LET s == relay[c].slot
        IN  s # NoSlot /\ s \notin cut /\ up[s] = <<>> /\ down[s] = <<>> /\ session[s].live =>
                registered[c] = s /\ relay[c].registered /\ session[s].listed = member[c]

\* docs/networking.md: "Clients retry their registrations and peer links
\* automatically."  Whatever became of its last connection, and although the relay
\* refuses to register a peer twice, a client is registered again.
RegistrationsArrive ==
    \A c \in Clients : []<>(registered[c] # NoSlot /\ registered[c] = relay[c].slot)

\* A tunnel that stands at both ends.
Through(call) ==
    \E s \in Slots \ cut :
        /\ end[s].call = call /\ end[s].tls /\ session[s].tunnel
        /\ session[s].paired \notin cut /\ end[session[s].paired].tls

\* docs/communities.md: "If the peer originally named in an invite is offline,
\* the relay can route the request to another online member of that community."
\* A client that keeps calling gets through while there is somebody to answer.
Callable(call) ==
    \/ call.to \in Clients
    \/ call.discover /\ \E q \in Clients \ {call.from} : member[q]
CallsGetThrough == \A call \in Calls : <>[]Callable(call) => []<>Through(call)
=============================================================================
