----------------------------- MODULE PeerRegistry -----------------------------
(***************************************************************************)
(* The peer registry of community/node.cpp for one pair of devices.  Both  *)
(* dial each other whenever they have no link (Node::tick, Node::dial), so *)
(* up to four TLS connections may be under way at once, and each end       *)
(* decides by itself which one to register when its TLS handshake ends     *)
(* (Node::encrypted) and what to forget when a socket closes (the handler  *)
(* of disconnected in Node::makeLink).                                     *)
(*                                                                         *)
(* A link is named by its dialler and a number: the number is free again   *)
(* when both ends are gone.  A device dials one address of the other, so it *)
(* has one route.                                                          *)
(***************************************************************************)
EXTENDS Naturals

CONSTANTS
    Small, Large,   \* the two devices, in the order of their peer IDs
    NoLink,
    Numbers,        \* the numbers of a device's links
    MaxCuts, MaxRestarts    \* bounds on the faults

ASSUME RegistryAssumption ==
    /\ Small # Large
    /\ NoLink \notin {Small, Large} \X Numbers
    /\ MaxCuts \in Nat /\ MaxRestarts \in Nat

VARIABLES
    ends,       \* [link -> [device -> its end of the link]]
    registered, \* [device -> the link in its peers_ table]
    severed,    \* the links whose packets are silently lost
    registryFaults  \* the faults so far

registryVars == <<ends, registered, severed, registryFaults>>

Pair == {Small, Large}
Links == Pair \X Numbers
Other(p) == IF p = Small THEN Large ELSE Small
Outgoing(p, l) == l[1] = p

\* An end is gone, has its TLS handshake before it, or is encrypted.
Gone == "gone"
Handshake == "handshake"
Encrypted == "encrypted"
Alive(p, l) == ends[l][p] # Gone
Free(l) == \A p \in Pair : ~ Alive(p, l)

RegistryInit ==
    /\ ends = [l \in Links |-> [p \in Pair |-> Gone]]
    /\ registered = [p \in Pair |-> NoLink]
    /\ severed = {}
    /\ registryFaults = [cuts |-> 0, restarts |-> 0]

\* Node::dial: not while a link is registered or one of the route exists.  The
\* other end's listener accepts.
DialPeer(p) ==
    /\ registered[p] = NoLink
    /\ \A l \in Links : Outgoing(p, l) => ~ Alive(p, l)
    /\ \E l \in Links :
        /\ Outgoing(p, l) /\ Free(l)
        /\ ends' = [ends EXCEPT ![l] = [q \in Pair |-> Handshake]]
        /\ severed' = severed \ {l}
    /\ UNCHANGED <<registered, registryFaults>>

\* Mutant: each side prefers the connection it dialled itself.
PreferMine(p) == TRUE

\* Both sides select the connection initiated by the smaller peer ID.
PreferOutgoing(p) == p = Small

KeepsExisting(p, l) ==
    /\ registered[p] # NoLink
    /\ \/ Outgoing(p, registered[p]) = PreferOutgoing(p)
       \/ Outgoing(p, l) # PreferOutgoing(p)

\* Node::encrypted at p.  The last bytes of the handshake may arrive after the
\* other end was aborted.  An end that loses is aborted here and now.
HandshakeEnds(p, l) ==
    /\ ends[l][p] = Handshake
    /\ l \notin severed
    /\ \/ /\ KeepsExisting(p, l)
          /\ ends' = [ends EXCEPT ![l][p] = Gone]
          /\ UNCHANGED registered
       \/ /\ ~ KeepsExisting(p, l)
          /\ ends' = [m \in Links |->
                IF m = l THEN [ends[m] EXCEPT ![p] = Encrypted]
                ELSE IF m = registered[p] THEN [ends[m] EXCEPT ![p] = Gone]
                ELSE ends[m]]
          /\ registered' = [registered EXCEPT ![p] = l]
    /\ UNCHANGED <<severed, registryFaults>>

\* The socket's disconnected signal: the other end is gone, or a timer of
\* Node::tick ran out on a link that is silent.
EndCloses(p, l) ==
    /\ Alive(p, l)
    /\ ~ Alive(Other(p), l) \/ l \in severed
    /\ ends' = [ends EXCEPT ![l][p] = Gone]
    /\ registered' = [registered EXCEPT ![p] = IF @ = l THEN NoLink ELSE @]
    /\ UNCHANGED <<severed, registryFaults>>

\* The network stops carrying a connection and tells neither end.
Sever(l) ==
    /\ registryFaults.cuts < MaxCuts
    /\ ~ Free(l) /\ l \notin severed
    /\ severed' = severed \cup {l}
    /\ registryFaults' = [registryFaults EXCEPT !.cuts = @ + 1]
    /\ UNCHANGED <<ends, registered>>

\* A device stops and starts again: Node::stop drops every link.
RestartDevice(p) ==
    /\ registryFaults.restarts < MaxRestarts
    /\ ends' = [l \in Links |-> [ends[l] EXCEPT ![p] = Gone]]
    /\ registered' = [registered EXCEPT ![p] = NoLink]
    /\ registryFaults' = [registryFaults EXCEPT !.restarts = @ + 1]
    /\ UNCHANGED severed

RegistryNext ==
    \/ \E p \in Pair : DialPeer(p) \/ RestartDevice(p)
    \/ \E p \in Pair, l \in Links : HandshakeEnds(p, l) \/ EndCloses(p, l)
    \/ \E l \in Links : Sever(l)

\* Node::tick runs every 500 ms; sockets and timers of a running device report.
RegistryFairness ==
    /\ \A p \in Pair : WF_registryVars(DialPeer(p))
    /\ \A p \in Pair, l \in Links :
        WF_registryVars(HandshakeEnds(p, l)) /\ WF_registryVars(EndCloses(p, l))

RegistrySafety == RegistryInit /\ [][RegistryNext]_registryVars
RegistrySpec == RegistrySafety /\ RegistryFairness

-----------------------------------------------------------------------------
\* Types; a link is registered from its handshake to its end.
RegistryTypeOK ==
    /\ ends \in [Links -> [Pair -> {Gone, Handshake, Encrypted}]]
    /\ registered \in [Pair -> Links \cup {NoLink}]
    /\ \A p \in Pair, l \in Links : registered[p] = l <=> ends[l][p] = Encrypted
    /\ severed \subseteq Links
    /\ registryFaults \in [cuts : 0..MaxCuts, restarts : 0..MaxRestarts]

AgreedLink ==
    IF registered[Small] = registered[Large] THEN registered[Small] ELSE NoLink

\* Node::encrypted implements OneLink: the pair agrees on one link at a time, and
\* one that its smaller device dialled is given up only after a fault, however
\* the handshakes of up to four connections interleave.
OneLinkOfThePair == INSTANCE OneLink WITH
    Preferred <- {Small} \X Numbers, Others <- {Large} \X Numbers,
    agreed <- AgreedLink, broken <- severed, restarts <- registryFaults.restarts

ImplementsOneLink == OneLinkOfThePair!Spec

\* And it is lasting: whatever was dialled twice, cut or restarted, in the end
\* the two ends of the pair hold one live link and no connection besides it.
NothingLeftOver ==
    /\ OneLinkOfThePair!Lasting
    /\ <>[](\A l \in Links : l = AgreedLink \/ Free(l))
=============================================================================
