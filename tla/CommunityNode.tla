---------------------------- MODULE CommunityNode ----------------------------
(***************************************************************************)
(* community::Node (src/community/node.cpp) for one community: authenticated *)
(* links between devices, the exchange of metadata over them, admissions,  *)
(* and who is in voice.  CommunityModel gives the log in full; here a log  *)
(* is a set of operations and membership is the rule CommunityReplicas     *)
(* checks as RemovalsWin.  A revision (a digest of the log) is the log.    *)
(*                                                                         *)
(* A device is one event loop: a handler is one step.  Two things span     *)
(* steps: the validation of a snapshot, which runs on another thread, and  *)
(* the loop of processAdmissions, whose iterations are steps of a device   *)
(* that does nothing else meanwhile ("admitting").  Timers may fire at any *)
(* time they are armed.                                                    *)
(***************************************************************************)
EXTENDS Integers, FiniteSets, FiniteSetsExt, SequencesExt

CONSTANTS
    Peers,      \* identities
    Owner,      \* the creator of the community
    NoPeer,     \* no peer (a null link)
    Enabled,    \* the kinds of operation that users make in this instance
    Decorated,  \* peers with a bio or an avatar, which join intents leave out
    Talkers,    \* peers that use voice
    MaxMade,    \* bound: operations ever made, admissions and published profiles apart
    MaxBreaks,  \* bound: connections lost, timers that ran out, restarts
    MaxJoins,   \* bound: invite links entered
    MaxCalls    \* bound: times the voice channel is entered or left

ASSUME NodeAssumption ==
    /\ IsFiniteSet(Peers) /\ Owner \in Peers
    /\ NoPeer \notin Peers
    /\ MaxMade \in Nat /\ MaxBreaks \in Nat
    /\ MaxJoins \in Nat /\ MaxCalls \in Nat

VARIABLES
    ops,        \* models_: the operations each device has saved
    link,       \* peers_: each device's end of its link to each other device
    chan,       \* the messages in flight, per sender and receiver
    invited,    \* pending_, joining_ and the seeds of the invite
    admitting,  \* the links that a running processAdmissions has still to visit
    recovering, \* recoveringUntil_ has not passed
    mine,       \* mine_: whether the device is in the voice channel
    presence,   \* presence_: whom each device shows in it
    spent       \* how much of the bounds is used: [breaks, joins, calls]

vars == <<ops, link, chan, invited, admitting, recovering, mine, presence, spent>>
-----------------------------------------------------------------------------
(***************************************************************************)
(* The log, as far as the node looks at it.  "past" holds the ids of the   *)
(* operations known when the operation was made.                           *)
(***************************************************************************)
Operation(id, kind, author, peer, past) ==
    [id |-> id, kind |-> kind, author |-> author, peer |-> peer, past |-> past]

Create == Operation(1, "create", Owner, Owner, {})
Known(log) == {o.id : o \in log}
AllOps == UNION {ops[p] : p \in Peers}
Made(log) == Cardinality({o \in log : o.kind \notin {"profile", "admit"}})
Signed(log, kind, author, peer) ==
    Operation(Cardinality(AllOps \cup log) + 1, kind, author, peer, Known(log))

Exits(log, q) == {r \in log : r.kind \in {"remove", "kick", "leave"} /\ r.peer = q}
\* An admission counts unless its host was removed without having seen it.
Counts(log, a) == \A r \in Exits(log, a.author) : a.id \in r.past \/ r.id \in a.past
Deleted(log) == \E o \in log : o.kind = "delete"
InMembers(log, q) ==
    /\ log # {}
    /\ \/ q = Owner
       \/ \E a \in log : /\ a.kind = "admit" /\ a.peer = q /\ Counts(log, a)
                         /\ \A r \in Exits(log, q) : r.id \in a.past
Member(log, q) == ~ Deleted(log) /\ InMembers(log, q)

\* The invite is an operation; a revocation or a ban voids it.
AcceptsJoin(log, q) ==
    /\ \E o \in log : o.kind = "invite"
    /\ \A o \in log : o.kind # "revoke" /\ ~ (o.kind = "kick" /\ o.peer = q)

\* Model::host: the peer listed last in the priority, the owner, anybody.
Preferred(log) ==
    LET orders == {o \in log : o.kind = "priority"}
    IN  IF orders = {} THEN Owner
        ELSE (CHOOSE o \in orders : \A x \in orders : x.id <= o.id).peer
Host(log, online) ==
    IF Deleted(log) \/ online = {} THEN NoPeer
    ELSE IF Preferred(log) \in online THEN Preferred(log)
    ELSE IF Owner \in online THEN Owner
    ELSE CHOOSE q \in online : TRUE

\* publishProfile has something to publish.
StaleProfile(log, p) ==
    /\ Member(log, p) /\ p \in Decorated
    /\ \A o \in log : o.kind = "profile" /\ o.author = p =>
          \E a \in log : a.kind = "admit" /\ a.peer = p /\ a.id \notin o.past
Published(log, p) ==
    IF StaleProfile(log, p) THEN log \cup {Signed(log, "profile", p, p)} ELSE log
-----------------------------------------------------------------------------
(***************************************************************************)
(* Links.  An end that is up has finished its TLS handshake, so it is in   *)
(* peers_.  "sync" is the entry of synchronizing: absent, running, or for  *)
(* longer than 20 s.  "merge" is the snapshot under validation and the log *)
(* the validation started from.  "join" is the entry of admissions.        *)
(***************************************************************************)
NoMerge == [busy |-> FALSE, snapshot |-> {}, base |-> {}]
Down == [up |-> FALSE, hello |-> FALSE, allowed |-> FALSE, ready |-> FALSE,
         sync |-> "none", join |-> FALSE, merge |-> NoMerge]
Fresh == [Down EXCEPT !.up = TRUE]

Linked(p) == {q \in Peers : link[p][q].up}
Idle(p) == admitting[p] = {}

\* Mutant: only the own membership is looked at.
WritableByMembers(log, p, q) == Member(log, p)
Writable(log, p, q) == Member(log, p) /\ Member(log, q)

Online(p) ==
    IF ~ Member(ops[p], p) THEN {}
    ELSE {p} \cup {q \in Linked(p) : Writable(ops[p], p, q) /\ link[p][q].ready}

\* Mutant: links that have still to synchronize hold nothing back.
SynchronizingAtStart(p) == recovering[p]
\* Node::synchronizing.
Synchronizing(p) ==
    \/ recovering[p]
    \/ \E q \in Linked(p) : /\ link[p][q].hello /\ Member(ops[p], q)
                            /\ ~ link[p][q].ready \/ link[p][q].sync # "none"
                            /\ link[p][q].sync # "stale"

Message(type, log) == [type |-> type, log |-> log]
Redirect(q) == [type |-> "redirect", peer |-> q]
\* Presence, in the instances where somebody talks.
Presence(in) == IF Talkers = {} THEN <<>> ELSE <<[type |-> "presence", in |-> in]>>

\* Mutant: a peer that is no member any more keeps access to metadata.
WithdrawnFromVoice(l) == [l EXCEPT !.ready = FALSE, !.sync = "none"]
Withdrawn(l) == [l EXCEPT !.allowed = FALSE, !.ready = FALSE, !.sync = "none"]
Synced(l) == [l EXCEPT !.allowed = TRUE, !.ready = TRUE, !.sync = "none"]

\* broadcastState: what it does to an end, and what it sends there.
Announced(log, p, q, l) ==
    IF ~ l.up THEN l
    ELSE IF Writable(log, p, q)
    THEN [l EXCEPT !.allowed = TRUE, !.sync = IF l.hello THEN "fresh" ELSE @]
    ELSE Withdrawn(l)
\* Mutant: a link that is ready is taken to have the state already.
AnnouncementUnlessReady(log, p, q, l) ==
    IF l.up /\ l.hello /\ ~ l.ready /\ (Writable(log, p, q) \/ l.allowed)
    THEN <<Message("state", log)>> ELSE <<>>
Announcement(log, p, q, l) ==
    IF l.up /\ l.hello /\ (Writable(log, p, q) \/ l.allowed)
    THEN <<Message("state", log)>> ELSE <<>>

\* The messages "out" of p follow those on their way in "c".
Sent(c, p, out) == [c EXCEPT ![p] = [q \in Peers |-> c[p][q] \o out[q]]]
ToOnly(q, msgs) == [x \in Peers |-> IF x = q THEN msgs ELSE <<>>]
Nothing == [x \in Peers |-> <<>>]
Taken(p, q) == [chan EXCEPT ![q][p] = Tail(@)]

\* save: losing membership ends the call.  Losing access hides a peer.
Save(p, log) ==
    /\ ops' = [ops EXCEPT ![p] = log]
    /\ mine' = [mine EXCEPT ![p] = @ /\ Member(log, p)]
    /\ presence' = [presence EXCEPT ![p] = {q \in @ : Writable(log, p, q)}]

\* Mutant: the edit is saved and nobody is told.
SaveOnly(p, log, ends) == Save(p, log) /\ link' = [link EXCEPT ![p] = ends] /\ UNCHANGED chan
\* save, then broadcastState, over the links "ends" of p.
SaveAndAnnounce(p, log, ends) ==
    /\ Save(p, log)
    /\ link' = [link EXCEPT ![p] = [q \in Peers |-> Announced(log, p, q, ends[q])]]
    /\ chan' = Sent(chan, p, [q \in Peers |-> Announcement(log, p, q, ends[q])])

(***************************************************************************)
(* Everything a device loses when a link of its goes down.                 *)
(***************************************************************************)
\* Mutant: a lost link keeps its state.
LostInName(p, q) == [link[p] EXCEPT ![q].up = FALSE]
Lost(p, q) == [link[p] EXCEPT ![q] = Down]
NotVia(p, q) == [invited[p] EXCEPT !.via = IF @ = q THEN NoPeer ELSE @]

\* p aborts its link to q: the other end sees the reset.
AbortLink(p, q) ==
    /\ link' = [link EXCEPT ![p] = Lost(p, q), ![q] = Lost(q, p)]
    /\ chan' = [chan EXCEPT ![p][q] = <<>>, ![q][p] = <<>>]
    /\ invited' = [invited EXCEPT ![p] = NotVia(p, q), ![q] = NotVia(q, p)]
    /\ presence' = [presence EXCEPT ![p] = @ \ {q}, ![q] = @ \ {p}]
    /\ admitting' = [admitting EXCEPT ![p] = @ \ {q}, ![q] = @ \ {p}]
-----------------------------------------------------------------------------
Init ==
    /\ ops = [p \in Peers |-> IF p = Owner THEN {Create} ELSE {}]
    /\ link = [p \in Peers |-> [q \in Peers |-> Down]]
    /\ chan = [p \in Peers |-> Nothing]
    /\ invited = [p \in Peers |-> [pending |-> FALSE, seeds |-> <<>>, via |-> NoPeer]]
    /\ admitting = [p \in Peers |-> {}]
    /\ recovering = [p \in Peers |-> TRUE]
    /\ mine = [p \in Peers |-> FALSE]
    /\ presence = [p \in Peers |-> {}]
    /\ spent = [breaks |-> 0, joins |-> 0, calls |-> 0]

(***************************************************************************)
(* Connections.  A device dials the members it knows and the seed of the   *)
(* invite it is joining by; TLS proves both identities, and both ends say  *)
(* hello (Node::encrypted).                                                *)
(***************************************************************************)
Dials(p, q) == Writable(ops[p], p, q) \/ invited[p].via = q

Connect(p, q) ==
    /\ p # q /\ Dials(p, q) /\ Idle(p) /\ Idle(q)
    /\ ~ link[p][q].up /\ ~ link[q][p].up
    /\ chan[p][q] = <<>> /\ chan[q][p] = <<>>
    /\ link' = [link EXCEPT ![p][q] = Fresh, ![q][p] = Fresh]
    /\ chan' = [chan EXCEPT ![p][q] = <<Message("hello", {})>>,
                            ![q][p] = <<Message("hello", {})>>]
    /\ UNCHANGED <<ops, invited, admitting, recovering, mine, presence, spent>>

\* The network fails, a link times out or a transfer stalls.
Disconnect(p, q) ==
    /\ p # q /\ link[p][q].up /\ Idle(p) /\ Idle(q)
    /\ spent.breaks < MaxBreaks
    /\ AbortLink(p, q)
    /\ spent' = [spent EXCEPT !.breaks = @ + 1]
    /\ UNCHANGED <<ops, recovering, mine>>

\* A crash, then Node::Node and Node::start: models_ and pending_ come back
\* from disk, except an invite for a community that is there already.  The
\* other ends see their connections reset.
Restart(p) ==
    /\ spent.breaks < MaxBreaks
    /\ spent' = [spent EXCEPT !.breaks = @ + 1]
    /\ link' = [x \in Peers |-> [q \in Peers |-> IF p \in {x, q} THEN Down ELSE link[x][q]]]
    /\ chan' = [x \in Peers |-> [q \in Peers |-> IF p \in {x, q} THEN <<>> ELSE chan[x][q]]]
    /\ invited' = [x \in Peers |->
                     IF x = p
                     THEN [invited[p] EXCEPT !.via = NoPeer, !.pending = @ /\ ops[p] = {}]
                     ELSE NotVia(x, p)]
    /\ admitting' = [x \in Peers |-> IF x = p THEN {} ELSE admitting[x] \ {p}]
    /\ recovering' = [recovering EXCEPT ![p] = TRUE]
    /\ mine' = [mine EXCEPT ![p] = FALSE]
    /\ presence' = [x \in Peers |-> IF x = p THEN {} ELSE presence[x] \ {p}]
    /\ ops' = [ops EXCEPT ![p] = Published(@, p)]

\* Two seconds after start.
Recovered(p) ==
    /\ recovering[p] /\ Idle(p)
    /\ recovering' = [recovering EXCEPT ![p] = FALSE]
    /\ UNCHANGED <<ops, link, chan, invited, admitting, mine, presence, spent>>

\* Twenty seconds after a synchronization began, it stops holding admissions.
SyncStalls(p, q) ==
    /\ link[p][q].sync = "fresh" /\ Idle(p)
    /\ spent.breaks < MaxBreaks
    /\ spent' = [spent EXCEPT !.breaks = @ + 1]
    /\ link' = [link EXCEPT ![p][q].sync = "stale"]
    /\ UNCHANGED <<ops, chan, invited, admitting, recovering, mine, presence>>
-----------------------------------------------------------------------------
(***************************************************************************)
(* What the user does.                                                     *)
(***************************************************************************)
\* Node::edit, invite and setProfile, with the checks of Model::change.
Makes(p, kind, peer) ==
    /\ Idle(p) /\ kind \in Enabled /\ Member(ops[p], p)
    /\ Made(AllOps) < MaxMade
    /\ SaveAndAnnounce(p, ops[p] \cup {Signed(ops[p], kind, p, peer)}, link[p])
    /\ UNCHANGED <<invited, admitting, recovering, spent>>

Edit(p) == Makes(p, "edit", p)
Leave(p) == p # Owner /\ Makes(p, "leave", p)
Delete(p) == p = Owner /\ Makes(p, "delete", p)
Expel(p, kind, q) ==
    /\ p = Owner /\ q # Owner /\ kind \in {"remove", "kick"}
    /\ InMembers(ops[p], q) /\ Makes(p, kind, q)
SetPriority(p, q) == p = Owner /\ Makes(p, "priority", q)
Invite(p) == p = Owner /\ (\A o \in AllOps : o.kind # "invite") /\ Makes(p, "invite", p)
Revoke(p) == p = Owner /\ (\E o \in ops[p] : o.kind = "invite") /\ Makes(p, "revoke", p)

\* The bootstrap peers an invite names, without the device that uses it: its
\* issuer, then the members he knows.
Seeds(invite, p) ==
    LET then == {o \in AllOps : o.id \in invite.past}
    IN  <<invite.author>>
        \o SetToSeq({q \in Peers : InMembers(then, q)} \ {invite.author, p})

\* The offers of metadata to one peer, and the join request if it is due.
Offering(p, q, inv) ==
    (IF Writable(ops[p], p, q) THEN <<Message("offer", ops[p])>> ELSE <<>>)
    \o (IF inv.pending /\ inv.via = q THEN <<Message("join", {})>> ELSE <<>>)
Offered(p, q, l) ==
    IF Writable(ops[p], p, q)
    THEN [l EXCEPT !.allowed = TRUE, !.sync = IF l.ready THEN @ ELSE "fresh"]
    ELSE l

\* What tick does for an invite, and the loop of processAdmissions it ends
\* with.  It tries the first seed; a later one if the earlier are not
\* connected and wait before they are dialled again.
JoinVia(p, inv, i) ==
    LET q == inv.seeds[i]
        now == [inv EXCEPT !.via = q]
    IN  /\ \A j \in 1 .. i - 1 : ~ link[p][inv.seeds[j]].up
        /\ invited' = [invited EXCEPT ![p] = now]
        /\ IF link[p][q].hello
           THEN /\ link' = [link EXCEPT ![p][q] = Offered(p, q, @)]
                /\ chan' = Sent(chan, p, ToOnly(q, Offering(p, q, now)))
           ELSE UNCHANGED <<link, chan>>
        /\ admitting' = [admitting EXCEPT ![p] = {x \in Linked(p) : link[p][x].join}]

\* Node::joinCommunity, with an invite that somebody passed on.
JoinCommunity(p) ==
    /\ Idle(p) /\ ~ Member(ops[p], p) /\ spent.joins < MaxJoins
    /\ \E o \in AllOps :
          /\ o.kind = "invite" /\ o.author # p
          /\ JoinVia(p, [pending |-> TRUE, seeds |-> Seeds(o, p), via |-> NoPeer], 1)
    /\ spent' = [spent EXCEPT !.joins = @ + 1]
    /\ UNCHANGED <<ops, recovering, mine, presence>>

\* Node::setVoice.
SetVoice(p) ==
    /\ Idle(p) /\ p \in Talkers /\ Member(ops[p], p) /\ spent.calls < MaxCalls
    /\ mine' = [mine EXCEPT ![p] = ~ @]
    /\ chan' = Sent(chan, p, [q \in Peers |->
                  IF link[p][q].up /\ Writable(ops[p], p, q) /\ link[p][q].ready
                  THEN Presence(~ mine[p]) ELSE <<>>])
    /\ spent' = [spent EXCEPT !.calls = @ + 1]
    /\ UNCHANGED <<ops, link, invited, admitting, recovering, presence>>
-----------------------------------------------------------------------------
(***************************************************************************)
(* Node::tick, for the invites and the admissions: the seed to join by is  *)
(* chosen when there is none, or again 20 s later.  That takes the timer   *)
(* to run out while the last seed may still answer only a bounded number   *)
(* of times, and as often as it likes once nothing is on its way.          *)
(***************************************************************************)
\* Mutant: a seed that went quiet is waited for.
NeverSettled(p, q) == FALSE
Settled(p, q) ==
    /\ link[p][q].up /\ ~ link[p][q].merge.busy /\ chan[q][p] = <<>>
    /\ ~ link[q][p].join /\ ~ link[q][p].merge.busy /\ chan[p][q] = <<>>

AwaitsAnswer(p) ==
    \E q \in Peers : invited[p].via = q /\ ~ Settled(p, q)

Rotated(seeds) == Tail(seeds) \o <<Head(seeds)>>

TickJoin(p, i) ==
    LET inv == invited[p]
        next == IF inv.via = NoPeer THEN inv
                ELSE [inv EXCEPT !.seeds = Rotated(@), !.via = NoPeer]
    IN  /\ Idle(p) /\ inv.pending /\ i \in DOMAIN next.seeds
        /\ IF AwaitsAnswer(p)
           THEN spent.breaks < MaxBreaks /\ spent' = [spent EXCEPT !.breaks = @ + 1]
           ELSE UNCHANGED spent
        /\ JoinVia(p, next, i)
        /\ UNCHANGED <<ops, recovering, mine, presence>>

\* A link that has given access to nothing for 30 s and has no admission to
\* wait for is closed.  While something is on its way there, that is one of
\* the faults of Disconnect.
Useless(p, q) == link[p][q].hello /\ ~ link[p][q].allowed /\ ~ link[p][q].join

TickUseless(p, q) ==
    /\ Idle(p) /\ Idle(q) /\ Useless(p, q) /\ Settled(p, q)
    /\ AbortLink(p, q)
    /\ UNCHANGED <<ops, recovering, mine, spent>>

TickAdmissions(p) ==
    /\ Idle(p) /\ ~ Synchronizing(p)
    /\ \E q \in Linked(p) : link[p][q].join
    /\ admitting' = [admitting EXCEPT ![p] = {q \in Linked(p) : link[p][q].join}]
    /\ UNCHANGED <<ops, link, chan, invited, recovering, mine, presence, spent>>

\* Closing after "rejected" or "redirect", if nothing else is shared there:
\* the peer reads the answer before the end of the stream.
Answer(p, q, answer) ==
    /\ UNCHANGED <<ops, invited, mine, presence>>
    /\ IF link[p][q].allowed
       THEN /\ link' = [link EXCEPT ![p][q].join = FALSE]
            /\ chan' = Sent(chan, p, ToOnly(q, <<answer>>))
       ELSE /\ link' = [link EXCEPT ![p][q] = Down]
            /\ chan' = Sent(chan, p, ToOnly(q, <<answer, Message("end", {})>>))

Admitted(p, q) ==
    IF Member(ops[p], q) THEN ops[p] ELSE ops[p] \cup {Signed(ops[p], "admit", p, q)}

\* One iteration of processAdmissions.
AdmitNext(p, q) ==
    /\ q \in admitting[p]
    /\ admitting' = [admitting EXCEPT ![p] = @ \ {q}]
    /\ UNCHANGED <<recovering, spent>>
    /\ IF Synchronizing(p) THEN UNCHANGED <<ops, link, chan, invited, mine, presence>>
       ELSE IF ~ Member(ops[p], p) \/ ~ AcceptsJoin(ops[p], q)
       THEN Answer(p, q, Message("rejected", {}))
       ELSE IF Host(ops[p], Online(p)) # p
       THEN Answer(p, q, Redirect(Host(ops[p], Online(p))))
       ELSE /\ SaveAndAnnounce(p, Admitted(p, q),
                               [link[p] EXCEPT ![q].join = FALSE, ![q].allowed = TRUE])
            /\ UNCHANGED invited
-----------------------------------------------------------------------------
(***************************************************************************)
(* Node::handle, one action per message.                                   *)
(***************************************************************************)
Delivers(p, q, type) ==
    /\ Idle(p) /\ link[p][q].up /\ ~ link[p][q].merge.busy
    /\ chan[q][p] # <<>> /\ Head(chan[q][p]).type = type

Incoming(p, q) == Head(chan[q][p])

HandleHello(p, q) ==
    /\ Delivers(p, q, "hello")
    /\ link' = [link EXCEPT ![p][q] = Offered(p, q, [@ EXCEPT !.hello = TRUE])]
    /\ chan' = Sent(Taken(p, q), p, ToOnly(q, Offering(p, q, invited[p])))
    /\ UNCHANGED <<ops, invited, admitting, recovering, mine, presence, spent>>

HandleJoin(p, q) ==
    /\ Delivers(p, q, "join")
    /\ link' = [link EXCEPT ![p][q].join = TRUE]
    /\ chan' = Taken(p, q)
    /\ admitting' = [admitting EXCEPT ![p] = {x \in Linked(p) : link[p][x].join} \cup {q}]
    /\ UNCHANGED <<ops, invited, recovering, mine, presence, spent>>

HandleRejected(p, q) ==
    /\ Delivers(p, q, "rejected")
    /\ chan' = Taken(p, q)
    /\ invited' = [invited EXCEPT ![p] =
                     IF @.via = q THEN [@ EXCEPT !.pending = FALSE, !.via = NoPeer] ELSE @]
    /\ UNCHANGED <<ops, link, admitting, recovering, mine, presence, spent>>

\* Mutant: the host a peer names is tried after the other seeds.
RedirectedLast(seeds, host) == Remove(seeds, host) \o <<host>>
\* The host comes first, whether or not he was among the seeds.
Redirected(seeds, host) == <<host>> \o Remove(seeds, host)

HandleRedirect(p, q) ==
    LET host == Incoming(p, q).peer
    IN  /\ Delivers(p, q, "redirect")
        /\ IF invited[p].pending /\ host = p
           THEN AbortLink(p, q)    \* "invalid host redirect"
           ELSE /\ chan' = Taken(p, q)
                /\ invited' = [invited EXCEPT ![p] =
                                 IF @.pending
                                 THEN [@ EXCEPT !.seeds = Redirected(invited[p].seeds, host),
                                                !.via = NoPeer]
                                 ELSE @]
                /\ UNCHANGED <<link, admitting, presence>>
        /\ UNCHANGED <<ops, recovering, mine, spent>>

\* Mutant: only a deletion is passed on, not a departure.
TellsOfDeletion(log, p, q) == Deleted(log) /\ InMembers(log, q)
\* The final state goes to the members of a community one has left; a peer
\* whose admission one may have missed is asked for its history instead.
TellsFinal(log, p, q) == log # {} /\ ~ Member(log, p) /\ InMembers(log, q)

HandleOffer(p, q) ==
    LET log == ops[p]
        match == Incoming(p, q).log = log
        reply ==
            IF Writable(log, p, q)
            THEN IF match THEN <<Message("synced", log)>> \o Presence(mine[p])
                 ELSE <<Message("state", log)>>
            ELSE IF TellsFinal(log, p, q) THEN <<Message("state", log)>>
            ELSE IF Member(log, p) THEN <<Message("state-request", {})>>
            ELSE <<>>
    IN  /\ Delivers(p, q, "offer")
        /\ chan' = Sent(Taken(p, q), p, ToOnly(q, reply))
        /\ link' = [link EXCEPT ![p][q] =
                      IF ~ Writable(log, p, q)
                      THEN IF TellsFinal(log, p, q)
                           THEN [@ EXCEPT !.allowed = FALSE, !.sync = "none"] ELSE @
                      ELSE IF match THEN Synced(@)
                      ELSE [@ EXCEPT !.allowed = TRUE, !.sync = "fresh"]]
        /\ UNCHANGED <<ops, invited, admitting, recovering, mine, presence, spent>>

HandleStateRequest(p, q) ==
    LET answers == Writable(ops[p], p, q) /\ link[p][q].allowed
    IN  /\ Delivers(p, q, "state-request")
        /\ chan' = Sent(Taken(p, q), p,
                        IF answers THEN ToOnly(q, <<Message("state", ops[p])>>) ELSE Nothing)
        /\ link' = IF answers THEN [link EXCEPT ![p][q].sync = "fresh"] ELSE link
        /\ UNCHANGED <<ops, invited, admitting, recovering, mine, presence, spent>>

\* state-begin, the operations and state-end of one snapshot.
HandleState(p, q) ==
    /\ Delivers(p, q, "state")
    /\ IF ops[p] = {} /\ ~ invited[p].pending
       THEN AbortLink(p, q)    \* "unexpected community snapshot"
       ELSE /\ link' = [link EXCEPT ![p][q].sync = "fresh",
                                    ![p][q].merge = [busy |-> TRUE, base |-> ops[p],
                                                     snapshot |-> Incoming(p, q).log]]
            /\ chan' = Taken(p, q)
            /\ UNCHANGED <<invited, admitting, presence>>
    /\ UNCHANGED <<ops, recovering, mine, spent>>

HandleSynced(p, q) ==
    LET match == Writable(ops[p], p, q) /\ Incoming(p, q).log = ops[p]
    IN  /\ Delivers(p, q, "synced")
        /\ chan' = Sent(Taken(p, q), p, IF match THEN ToOnly(q, Presence(mine[p])) ELSE Nothing)
        /\ link' = IF match THEN [link EXCEPT ![p][q] = Synced(@)] ELSE link
        /\ UNCHANGED <<ops, invited, admitting, recovering, mine, presence, spent>>

HandlePresence(p, q) ==
    /\ Delivers(p, q, "presence")
    /\ chan' = Taken(p, q)
    /\ presence' = [presence EXCEPT ![p] =
                      IF Writable(ops[p], p, q) /\ link[p][q].allowed /\ link[p][q].ready
                      THEN IF Incoming(p, q).in THEN @ \cup {q} ELSE @ \ {q}
                      ELSE @]
    /\ UNCHANGED <<ops, link, invited, admitting, recovering, mine, spent>>

\* The other end closed the connection.
HandleEnd(p, q) ==
    /\ Delivers(p, q, "end")
    /\ AbortLink(p, q)
    /\ UNCHANGED <<ops, recovering, mine, spent>>
-----------------------------------------------------------------------------
(***************************************************************************)
(* Node::mergeSnapshot, when the validation has finished.                  *)
(***************************************************************************)
\* The log moved meanwhile: validate against the new one.
MergeAgain(p, q) ==
    /\ Idle(p) /\ link[p][q].merge.busy /\ link[p][q].merge.base # ops[p]
    /\ link' = [link EXCEPT ![p][q].merge.base = ops[p]]
    /\ UNCHANGED <<ops, chan, invited, admitting, recovering, mine, presence, spent>>

\* The sender is no member, or the snapshot does not prove one's admission.
Refused(p, q, log) ==
    \/ ~ Member(log, q) /\ ~ link[p][q].allowed
    \/ ops[p] = {} /\ invited[p].pending /\ ~ Member(log, p)

\* Mutant: every snapshot is passed on, whether or not it brought anything.
AlwaysNews(p, log) == TRUE
News(p, log) == log # ops[p]

MergeFinishes(p, q) ==
    LET log     == ops[p] \cup link[p][q].merge.snapshot
        changed == News(p, log)
        final   == Published(log, p)
        l       == [link[p][q] EXCEPT !.merge = NoMerge]
        ends    == [link[p] EXCEPT ![q] = IF Writable(log, p, q) THEN Synced(l) ELSE Withdrawn(l)]
        ends2   == IF changed THEN [x \in Peers |-> Announced(log, p, x, ends[x])] ELSE ends
        ends3   == IF final # log THEN [x \in Peers |-> Announced(final, p, x, ends2[x])] ELSE ends2
        inCall  == mine[p] /\ Member(log, p)
        greeting == IF Writable(log, p, q)
                    THEN ToOnly(q, <<Message("synced", log)>> \o Presence(inCall)) ELSE Nothing
        out == [x \in Peers |->
                  greeting[x]
                  \o (IF changed THEN Announcement(log, p, x, ends[x]) ELSE <<>>)
                  \o (IF final # log THEN Announcement(final, p, x, ends2[x]) ELSE <<>>)]
    IN  /\ Idle(p) /\ link[p][q].merge.busy /\ link[p][q].merge.base = ops[p]
        /\ IF Refused(p, q, log)
           THEN AbortLink(p, q) /\ UNCHANGED <<ops, mine>>
           ELSE /\ IF final # ops[p] THEN Save(p, final) ELSE UNCHANGED <<ops, mine, presence>>
                /\ link' = [link EXCEPT ![p] = ends3]
                /\ chan' = Sent(chan, p, out)
                /\ invited' = [invited EXCEPT ![p] =
                                 IF @.pending /\ Member(log, p)
                                 THEN [@ EXCEPT !.pending = FALSE, !.via = NoPeer] ELSE @]
                /\ UNCHANGED admitting
        /\ UNCHANGED <<recovering, spent>>
-----------------------------------------------------------------------------
UserStep(p) ==
    \/ Edit(p) \/ Leave(p) \/ Delete(p) \/ Invite(p) \/ Revoke(p) \/ SetVoice(p)
    \/ JoinCommunity(p)
    \/ \E q \in Peers \ {p} :
          \/ \E kind \in {"remove", "kick"} : Expel(p, kind, q)
          \/ SetPriority(p, q)

Fault(p) ==
    \/ Restart(p)
    \/ \E q \in Peers : Disconnect(p, q) \/ SyncStalls(p, q)

\* What a device does by itself with what it was sent and with its timers.
Handle(p, q) ==
    \/ HandleHello(p, q) \/ HandleJoin(p, q) \/ HandleRejected(p, q) \/ HandleRedirect(p, q)
    \/ HandleOffer(p, q) \/ HandleStateRequest(p, q) \/ HandleState(p, q)
    \/ HandleSynced(p, q) \/ HandlePresence(p, q) \/ HandleEnd(p, q)
    \/ MergeAgain(p, q) \/ MergeFinishes(p, q)
Own(p) ==
    \/ Recovered(p)
    \/ TickAdmissions(p)
    \/ \E q \in Peers : AdmitNext(p, q) \/ TickUseless(p, q)
    \/ \E i \in DOMAIN invited[p].seeds : TickJoin(p, i)

Next ==
    \E p \in Peers :
        \/ UserStep(p) \/ Fault(p) \/ Own(p)
        \/ \E q \in Peers : Connect(p, q) \/ Handle(p, q)

Spec == Init /\ [][Next]_vars

\* Event loops run, timers fire, the network delivers what it carries, peers
\* that dial each other do get connected, and the wait before a seed is dialled
\* again ends: the first seed is not passed over for ever.
Fairness ==
    \A p \in Peers :
        /\ WF_vars(Recovered(p)) /\ WF_vars(TickAdmissions(p))
        /\ WF_vars(\E q \in Peers : AdmitNext(p, q))
        /\ SF_vars(TickJoin(p, 1))
        /\ \A q \in Peers : /\ WF_vars(Handle(p, q)) /\ WF_vars(Connect(p, q))
                            /\ WF_vars(TickUseless(p, q))
-----------------------------------------------------------------------------
(***************************************************************************)
(* Properties                                                              *)
(***************************************************************************)
TypeOK ==
    /\ \A p \in Peers : ops[p] = {} \/ Create \in ops[p]
    /\ \A p, q \in Peers :
          /\ DOMAIN link[p][q] = DOMAIN Down
          /\ ~ link[p][q].up => link[p][q] = Down
          /\ link[p][q].sync \in {"none", "fresh", "stale"}
    /\ \A p \in Peers : admitting[p] \subseteq {q \in Linked(p) : link[p][q].join}
    /\ \A p \in Peers : invited[p].via \in Range(invited[p].seeds) \cup {NoPeer}

\* What a link grants follows the saved log, whatever order edits, merges and
\* broadcasts come in: state goes out, and packets come in, only between
\* members, and whoever shows in voice is a member one is connected to.
AccessMatchesMembership ==
    \A p, q \in Peers :
        /\ link[p][q].allowed \/ link[p][q].ready => Writable(ops[p], p, q)
        /\ q \in presence[p] => link[p][q].ready

\* Metadata only travels to peers that were admitted: every snapshot on its way
\* to a peer carries an admission of this peer, unless he is the owner.
SnapshotsStayInside ==
    \A p, q \in Peers : \A n \in DOMAIN chan[p][q] :
        chan[p][q][n].type \in {"state", "offer", "synced"} =>
            \/ q = Owner
            \/ \E o \in chan[p][q][n].log : o.kind = "admit" /\ o.peer = q

\* docs/communities.md: "This version exchanges bounded snapshots when
\* revisions differ."  So when every message has been handled and every link that
\* gives access to nothing has been closed, a device is
\* ready for each connected peer it counts as a member and that knows of its
\* own admission: both hold the same log, nothing is left to synchronize, and
\* the peer shows in voice exactly if he is there.
Quiet ==
    /\ \A p, q \in Peers : chan[p][q] = <<>> /\ ~ link[p][q].merge.busy
    /\ \A p, q \in Peers : link[p][q].up => link[p][q].hello /\ ~ Useless(p, q)

QuietLinksAgree ==
    Quiet => \A p \in Peers : \A q \in Linked(p) :
        Writable(ops[p], p, q) /\ InMembers(ops[q], p) /\ ~ invited[q].pending =>
            /\ ops[p] = ops[q]
            /\ link[p][q].ready /\ link[p][q].sync = "none"
            /\ q \in presence[p] <=> mine[q]

\* docs/communities.md: missing operations are distributed before admissions
\* resume.  When a device admits a peer, it holds whatever the connected
\* members hold, or has it in a snapshot on its way.
Appends(p, kinds) == {o \in ops'[p] \ ops[p] : o.author = p /\ o.kind \in kinds}

AdmissionsFollowSync ==
    [][\A p \in Peers : Appends(p, {"admit"}) # {} =>
          \A q \in Linked(p) :
              link[p][q].hello /\ Member(ops[p], q) /\ link[p][q].sync # "stale" =>
                  ops[q] \subseteq ops[p] \cup
                      UNION {chan[q][p][n].log :
                                n \in {m \in DOMAIN chan[q][p] : chan[q][p][m].type = "state"}}]_vars

\* Once users stop and the network holds, the devices fall silent: merges,
\* broadcasts and redials do not go round for ever.
FallsSilent == <>[]Quiet

\* node.cpp, on offers: a returning member may have missed a departure or
\* deletion.  Whoever counts a peer as a member that has left, and is known to
\* him, learns of it.
DeparturesArrive ==
    \A p, q \in Peers :
        (/\ \E o \in ops[q] : o.kind = "leave" /\ o.author = q
         /\ ~ Member(ops[q], q) /\ Member(ops[p], q) /\ InMembers(ops[q], p))
        ~> (~ Member(ops[p], q) \/ Member(ops[q], q))

\* An invite that was entered leads in or is rejected.
JoinsSettle == \A p \in Peers : []<>(~ invited[p].pending)

\* docs/communities.md: on reconnect, missing operations are distributed.  A
\* device that left, and that the owner has admitted again, learns of it.
RejoinsArrive ==
    \A q \in Peers \ {Owner} :
        (ops[q] # {} /\ Member(ops[Owner], q)) ~> (Member(ops[q], q) \/ ~ Member(ops[Owner], q))

\* docs/communities.md: on reconnect, missing operations are distributed.  A
\* device whose removal the owner has recorded learns of it.
RemovalsArrive ==
    \A q \in Peers \ {Owner} :
        (ops[q] # {} /\ ~ InMembers(ops[Owner], q)) ~> ~ Member(ops[q], q)
=============================================================================
