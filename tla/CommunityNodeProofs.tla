-------------------------- MODULE CommunityNodeProofs --------------------------
(***************************************************************************)
(* What a link grants follows the log its device has saved, and no snapshot*)
(* is sent to whom it does not name, for any number of devices and whatever*)
(* is bounded in the runs.                                                 *)
(***************************************************************************)
EXTENDS CommunityNode, PeerRegistry, FiniteSetTheorems, SequenceTheorems, TLAPS

Fields == {"up", "hello", "allowed", "ready", "sync", "join", "merge"}

\* An end of a link: one that is down grants nothing and validates nothing,
\* and one that is ready for packets has access to metadata, so that a link
\* that is closed because it grants nothing is not in use by a call.
WellFormed(l) ==
    /\ DOMAIN l = Fields
    /\ l.hello \/ l.allowed \/ l.merge.busy => l.up
    /\ l.ready => l.allowed
Grants(log, p, q, l) == l.allowed \/ l.ready => Writable(log, p, q)

Shape ==
    /\ DOMAIN ops = Peers /\ DOMAIN link = Peers
    /\ DOMAIN presence = Peers /\ DOMAIN admitting = Peers
    /\ \A p \in Peers : DOMAIN link[p] = Peers
    /\ \A p, q \in Peers : WellFormed(link[p][q])

\* The loop of processAdmissions only visits links that are still up: it may
\* give access to the peer it admits.
VisitsLinks == \A p \in Peers : admitting[p] \subseteq Linked(p)

IInv == Shape /\ VisitsLinks /\ AccessMatchesMembership

\* broadcastState leaves an end well formed, makes what it grants match the
\* log, and neither brings it up or down nor hides a member that was ready.
LEMMA AnnouncedEnd ==
    ASSUME NEW log, NEW p, NEW q, NEW l, WellFormed(l)
    PROVE  LET e == Announced(log, p, q, l)
           IN  /\ WellFormed(e) /\ Grants(log, p, q, e) /\ e.up = l.up
               /\ l.ready /\ Writable(log, p, q) => e.ready
  <1>1. CASE ~ l.up
    BY <1>1 DEF Announced, WellFormed, Grants
  <1>2. CASE l.up /\ Writable(log, p, q)
    BY <1>2 DEF Announced, WellFormed, Grants, Fields
  <1>3. CASE l.up /\ ~ Writable(log, p, q)
    BY <1>3 DEF Announced, Withdrawn, WellFormed, Grants, Fields
  <1> QED BY <1>1, <1>2, <1>3

\* A device that only rewrites its own ends, in the ways the log it then has
\* allows, keeps the invariant.
LEMMA OwnEnds ==
    ASSUME IInv, NEW p \in Peers, NEW log, NEW sides,
           DOMAIN sides = Peers,
           \A q \in Peers : WellFormed(sides[q]) /\ Grants(log, p, q, sides[q]),
           DOMAIN ops' = Peers, ops'[p] = log,
           \A x \in Peers : x # p => ops'[x] = ops[x],
           link' = [link EXCEPT ![p] = sides],
           DOMAIN presence' = Peers,
           \A x \in Peers : x # p => presence'[x] = presence[x],
           \A q \in Peers : q \in presence'[p] => sides[q].ready,
           DOMAIN admitting' = Peers, VisitsLinks'
    PROVE  IInv'
  <1>1. \A x, q \in Peers : link'[x][q] = IF x = p THEN sides[q] ELSE link[x][q]
    BY DEF IInv, Shape
  <1>2. Shape'
    BY <1>1 DEF IInv, Shape, WellFormed, Fields
  <1>3. AccessMatchesMembership'
    <2> SUFFICES ASSUME NEW x \in Peers, NEW q \in Peers
                 PROVE  /\ Grants(ops'[x], x, q, link'[x][q])
                        /\ q \in presence'[x] => link'[x][q].ready
      BY DEF AccessMatchesMembership, Grants, Writable, Member, InMembers, Deleted, Counts, Exits
    <2>1. CASE x = p
      BY <2>1, <1>1
    <2>2. CASE x # p
      BY <2>2, <1>1 DEF IInv, AccessMatchesMembership, Grants
    <2> QED BY <2>1, <2>2
  <1> QED BY <1>2, <1>3 DEF IInv

\* So does a save that is announced, from any ends that are well formed.
LEMMA Announcing ==
    ASSUME IInv, NEW p \in Peers, NEW log, NEW sides,
           \A q \in Peers : /\ WellFormed(sides[q]) /\ sides[q].up = link[p][q].up
                            /\ q \in presence[p] => sides[q].ready,
           SaveAndAnnounce(p, log, sides),
           DOMAIN admitting' = Peers, \A x \in Peers : admitting'[x] \subseteq admitting[x]
    PROVE  IInv'
  <1> DEFINE now == [q \in Peers |-> Announced(log, p, q, sides[q])]
  <1>1. \A q \in Peers : /\ WellFormed(now[q]) /\ Grants(log, p, q, now[q])
                         /\ now[q].up = link[p][q].up
                         /\ sides[q].ready /\ Writable(log, p, q) => now[q].ready
    BY AnnouncedEnd
  <1>2. /\ ops' = [ops EXCEPT ![p] = log] /\ link' = [link EXCEPT ![p] = now]
        /\ presence' = [presence EXCEPT ![p] = {q \in @ : Writable(log, p, q)}]
    BY DEF SaveAndAnnounce, Save
  <1>3. DOMAIN now = Peers
    OBVIOUS
  <1> HIDE DEF now
  <1>4. \A q \in Peers : q \in presence'[p] => now[q].ready
    BY <1>1, <1>2 DEF IInv, Shape
  <1>5. DOMAIN presence' = Peers /\ \A x \in Peers : x # p => presence'[x] = presence[x]
    BY <1>2 DEF IInv, Shape
  <1>6. \A x, q \in Peers : link'[x][q].up = link[x][q].up
    BY <1>1, <1>2 DEF IInv, Shape
  <1>7. VisitsLinks'
    BY <1>6 DEF IInv, VisitsLinks, Linked
  <1>8. \A q \in Peers : WellFormed(now[q]) /\ Grants(log, p, q, now[q])
    BY <1>1
  <1>9. ops'[p] = log /\ \A x \in Peers : x # p => ops'[x] = ops[x]
    BY <1>2 DEF IInv, Shape
  <1>10. /\ DOMAIN ops' = Peers /\ DOMAIN admitting' = Peers
         /\ link' = [link EXCEPT ![p] = now]
    BY <1>2 DEF IInv, Shape
  <1> QED BY <1>3, <1>4, <1>5, <1>7, <1>8, <1>9, <1>10, OwnEnds

\* So does the loss of a link, at both of its ends.
LEMMA Aborting ==
    ASSUME IInv, NEW p \in Peers, NEW q \in Peers, AbortLink(p, q), UNCHANGED ops
    PROVE  IInv'
  <1>1. \A x, y \in Peers :
            link'[x][y] = IF <<x, y>> \in {<<p, q>>, <<q, p>>} THEN Down ELSE link[x][y]
    BY DEF IInv, Shape, AbortLink, Lost
  <1>2. \A x \in Peers :
            /\ presence'[x] \subseteq presence[x] /\ admitting'[x] \subseteq admitting[x]
            /\ x = p => q \notin presence'[x] /\ q \notin admitting'[x]
            /\ x = q => p \notin presence'[x] /\ p \notin admitting'[x]
    BY DEF IInv, Shape, AbortLink
  <1>3. Shape'
    <2>1. /\ DOMAIN ops' = Peers /\ DOMAIN link' = Peers
          /\ DOMAIN presence' = Peers /\ DOMAIN admitting' = Peers
          /\ \A x \in Peers : DOMAIN link'[x] = Peers
      BY DEF IInv, Shape, AbortLink, Lost
    <2>2. WellFormed(Down)
      BY DEF WellFormed, Down, Fields, NoMerge
    <2>3. \A x, y \in Peers : WellFormed(link'[x][y])
      BY <1>1, <2>2 DEF IInv, Shape
    <2> QED BY <2>1, <2>3 DEF Shape, WellFormed, Fields
  <1>4. VisitsLinks'
    BY <1>1, <1>2 DEF IInv, VisitsLinks, Linked
  <1>5. AccessMatchesMembership'
    <2> SUFFICES ASSUME NEW x \in Peers, NEW y \in Peers
                 PROVE  /\ Grants(ops[x], x, y, link'[x][y])
                        /\ y \in presence'[x] => link'[x][y].ready
      BY DEF AccessMatchesMembership, Grants, Writable, Member, InMembers, Deleted, Counts, Exits
    <2>1. CASE <<x, y>> \in {<<p, q>>, <<q, p>>}
      BY <2>1, <1>1, <1>2 DEF Grants, Down
    <2>2. CASE <<x, y>> \notin {<<p, q>>, <<q, p>>}
      BY <2>2, <1>1, <1>2 DEF IInv, AccessMatchesMembership, Grants
    <2> QED BY <2>1, <2>2
  <1> QED BY <1>3, <1>4, <1>5 DEF IInv

\* So does a handler that rewrites one end and saves nothing.  (An invite may
\* name anybody; there is no end for a stranger.)
LEMMA OneEnd ==
    ASSUME IInv, NEW p \in Peers, NEW q, NEW e,
           q \in Peers => WellFormed(e) /\ Grants(ops[p], p, q, e),
           q \in Peers /\ q \in presence[p] => e.ready,
           link' = [link EXCEPT ![p][q] = e], UNCHANGED <<ops, presence>>,
           DOMAIN admitting' = Peers, VisitsLinks'
    PROVE  IInv'
  <1>1. \A x, y \in Peers : link'[x][y] = IF x = p /\ y = q THEN e ELSE link[x][y]
    BY DEF IInv, Shape
  <1>2. Shape'
    BY <1>1 DEF IInv, Shape, WellFormed, Fields
  <1>3. AccessMatchesMembership'
    <2> SUFFICES ASSUME NEW x \in Peers, NEW y \in Peers
                 PROVE  /\ Grants(ops[x], x, y, link'[x][y])
                        /\ y \in presence[x] => link'[x][y].ready
      BY DEF AccessMatchesMembership, Grants, Writable, Member, InMembers, Deleted, Counts, Exits
    <2> QED BY <1>1 DEF IInv, AccessMatchesMembership, Grants
  <1> QED BY <1>2, <1>3 DEF IInv

\* The same for an end that stays up, ready if it was, with the links in the
\* loop among those that are up.
LEMMA SameEnd ==
    ASSUME IInv, NEW p \in Peers, NEW q, NEW e,
           q \in Peers => WellFormed(e) /\ Grants(ops[p], p, q, e),
           q \in Peers => e.up = link[p][q].up /\ (link[p][q].ready => e.ready),
           link' = [link EXCEPT ![p][q] = e], UNCHANGED <<ops, presence>>,
           DOMAIN admitting' = Peers, \A x \in Peers : admitting'[x] \subseteq Linked(x)
    PROVE  IInv'
  <1>1. \A x, y \in Peers : link'[x][y].up = link[x][y].up
    BY DEF IInv, Shape
  <1>2. VisitsLinks'
    BY <1>1 DEF VisitsLinks, Linked
  <1>3. q \in Peers /\ q \in presence[p] => e.ready
    BY DEF IInv, AccessMatchesMembership
  <1> QED BY <1>2, <1>3, OneEnd

\* The hello of a peer and a tick make metadata available to members only.
LEMMA OfferedEnd ==
    ASSUME NEW p \in Peers, NEW q \in Peers, NEW l,
           WellFormed(l), Grants(ops[p], p, q, l), l.up
    PROVE  LET e == Offered(p, q, l)
           IN  /\ WellFormed(e) /\ Grants(ops[p], p, q, e)
               /\ e.up = l.up
               /\ l.ready => e.ready
  <1>1. CASE Writable(ops[p], p, q)
    BY <1>1 DEF Offered, WellFormed, Fields, Grants
  <1>2. CASE ~ Writable(ops[p], p, q)
    BY <1>2 DEF Offered
  <1> QED BY <1>1, <1>2

\* Both ends of every link, as the invariant has them.
LEMMA EachEnd ==
    ASSUME IInv, NEW p \in Peers, NEW q \in Peers
    PROVE  /\ WellFormed(link[p][q]) /\ Grants(ops[p], p, q, link[p][q])
           /\ q \in presence[p] => link[p][q].ready
           /\ DOMAIN link[p][q] = Fields
  BY DEF IInv, Shape, WellFormed, Grants, AccessMatchesMembership

\* A step that changes no end and saves nothing keeps the invariant.
LEMMA NoEnd ==
    ASSUME IInv, UNCHANGED <<ops, link>>,
           DOMAIN presence' = Peers,
           \A x, y \in Peers : y \in presence'[x] => link[x][y].ready,
           DOMAIN admitting' = Peers, \A x \in Peers : admitting'[x] \subseteq Linked(x)
    PROVE  IInv'
  <1>1. Shape' /\ VisitsLinks'
    BY DEF IInv, Shape, WellFormed, VisitsLinks, Linked
  <1>2. AccessMatchesMembership'
    BY DEF IInv, AccessMatchesMembership, Writable, Member, InMembers, Deleted, Counts, Exits
  <1> QED BY <1>1, <1>2 DEF IInv

\* Taking an invite up, or trying its next seed, keeps the invariant.
LEMMA Joining ==
    ASSUME IInv, NEW p \in Peers, NEW inv, NEW i,
           JoinVia(p, inv, i), UNCHANGED <<ops, presence>>
    PROVE  IInv'
  <1> DEFINE q == inv.seeds[i]
             e == Offered(p, q, link[p][q])
  <1>1. DOMAIN admitting' = Peers /\ \A x \in Peers : admitting'[x] \subseteq Linked(x)
    BY DEF JoinVia, IInv, Shape, VisitsLinks, Linked
  <1>2. CASE link[p][q].hello
    <2>1. link' = [link EXCEPT ![p][q] = e]
      BY <1>2 DEF JoinVia
    <2>2. ASSUME q \in Peers
          PROVE  /\ WellFormed(e) /\ Grants(ops[p], p, q, e)
                 /\ e.up = link[p][q].up /\ (link[p][q].ready => e.ready)
      BY <1>2, <2>2, EachEnd, OfferedEnd DEF WellFormed
    <2> HIDE DEF e, q
    <2> QED BY <1>1, <2>1, <2>2, SameEnd
  <1>3. CASE ~ link[p][q].hello
    <2>1. link' = link
      BY <1>3 DEF JoinVia
    <2>2. DOMAIN presence' = Peers /\ \A x, y \in Peers : y \in presence'[x] => link[x][y].ready
      BY EachEnd DEF IInv, Shape
    <2> QED BY <1>1, <2>1, <2>2, NoEnd
  <1> QED BY <1>2, <1>3

\* What users do keeps the invariant.
LEMMA UserSteps == IInv /\ (\E p \in Peers : UserStep(p)) => IInv'
  <1> SUFFICES ASSUME IInv, NEW p \in Peers, UserStep(p) PROVE IInv'
    OBVIOUS
  <1>1. ASSUME NEW kind, NEW peer, Makes(p, kind, peer) PROVE IInv'
    <2>1. \A q \in Peers : /\ WellFormed(link[p][q]) /\ link[p][q].up = link[p][q].up
                           /\ q \in presence[p] => link[p][q].ready
      BY EachEnd
    <2>2. DOMAIN admitting' = Peers /\ \A x \in Peers : admitting'[x] \subseteq admitting[x]
      BY <1>1 DEF Makes, IInv, Shape
    <2> DEFINE log == ops[p] \cup {Signed(ops[p], kind, p, peer)}
    <2>3. SaveAndAnnounce(p, log, link[p])
      BY <1>1 DEF Makes
    <2> HIDE DEF log
    <2> QED BY <2>1, <2>2, <2>3, Announcing
  <1>2. ASSUME JoinCommunity(p) PROVE IInv'
    BY <1>2, Joining DEF JoinCommunity
  <1>3. ASSUME SetVoice(p) PROVE IInv'
    <2>1. UNCHANGED <<ops, link, admitting, presence>>
      BY <1>3 DEF SetVoice
    <2> QED BY <2>1, EachEnd, NoEnd DEF IInv, Shape, VisitsLinks
  <1> QED
    BY <1>1, <1>2, <1>3
    DEF UserStep, Edit, Leave, Delete, Invite, Revoke, Expel, SetPriority

\* So do faults, the crash of a device among them.
LEMMA Faults == IInv /\ (\E p \in Peers : Fault(p)) => IInv'
  <1> SUFFICES ASSUME IInv, NEW p \in Peers, Fault(p) PROVE IInv'
    OBVIOUS
  <1>1. ASSUME NEW q \in Peers, Disconnect(p, q) PROVE IInv'
    BY <1>1, Aborting DEF Disconnect
  <1>2. ASSUME NEW q \in Peers, SyncStalls(p, q) PROVE IInv'
    <2> DEFINE e == [link[p][q] EXCEPT !.sync = "stale"]
    <2>1. link' = [link EXCEPT ![p][q] = e] /\ UNCHANGED <<ops, presence>>
      BY <1>2 DEF SyncStalls
    <2>2. /\ WellFormed(e) /\ Grants(ops[p], p, q, e)
          /\ e.up = link[p][q].up /\ (link[p][q].ready => e.ready)
      BY EachEnd DEF WellFormed, Fields, Grants
    <2>3. DOMAIN admitting' = Peers /\ \A x \in Peers : admitting'[x] \subseteq Linked(x)
      BY <1>2 DEF SyncStalls, IInv, Shape, VisitsLinks
    <2> HIDE DEF e
    <2> QED BY <2>1, <2>2, <2>3, SameEnd
  <1>3. ASSUME Restart(p) PROVE IInv'
    <2>1. \A x, y \in Peers : link'[x][y] = IF p \in {x, y} THEN Down ELSE link[x][y]
      BY <1>3 DEF Restart
    <2>2. \A x \in Peers : \A y :
              /\ y \in presence'[x] => x # p /\ y # p /\ y \in presence[x]
              /\ y \in admitting'[x] => x # p /\ y # p /\ y \in admitting[x]
      BY <1>3 DEF Restart
    <2>3. \A x \in Peers : x # p => ops'[x] = ops[x]
      BY <1>3 DEF Restart, IInv, Shape
    <2>4. WellFormed(Down)
      BY DEF WellFormed, Down, Fields, NoMerge
    <2>5. Shape'
      <3>1. \A x, y \in Peers : WellFormed(link'[x][y])
        BY <2>1, <2>4, EachEnd
      <3>2. /\ DOMAIN ops' = Peers /\ DOMAIN link' = Peers
            /\ DOMAIN presence' = Peers /\ DOMAIN admitting' = Peers
            /\ \A x \in Peers : DOMAIN link'[x] = Peers
        BY <1>3 DEF Restart, IInv, Shape
      <3> QED BY <3>1, <3>2 DEF Shape, WellFormed, Fields
    <2>6. VisitsLinks'
      BY <2>1, <2>2 DEF IInv, VisitsLinks, Linked
    <2>7. AccessMatchesMembership'
      <3> SUFFICES ASSUME NEW x \in Peers, NEW y \in Peers
                   PROVE  /\ Grants(ops'[x], x, y, link'[x][y])
                          /\ y \in presence'[x] => link'[x][y].ready
        BY DEF AccessMatchesMembership, Grants, Writable, Member, InMembers, Deleted, Counts, Exits
      <3>1. CASE p \in {x, y}
        BY <3>1, <2>1, <2>2 DEF Grants, Down
      <3>2. CASE p \notin {x, y}
        BY <3>2, <2>1, <2>2, <2>3, EachEnd
      <3> QED BY <3>1, <3>2
    <2> QED BY <2>5, <2>6, <2>7 DEF IInv
  <1> QED BY <1>1, <1>2, <1>3 DEF Fault

\* A handler that touches the end it reads from, and no other, keeps the
\* invariant if that end stays as the invariant has it.
LEMMA Handler ==
    ASSUME IInv, NEW p \in Peers, NEW q \in Peers, NEW e,
           WellFormed(e), Grants(ops[p], p, q, e),
           e.up = link[p][q].up, link[p][q].ready => e.ready,
           link' = [link EXCEPT ![p][q] = e], UNCHANGED <<ops, presence, admitting>>
    PROVE  IInv'
  <1>1. DOMAIN admitting' = Peers /\ \A x \in Peers : admitting'[x] \subseteq Linked(x)
    BY DEF IInv, Shape, VisitsLinks
  <1> QED BY <1>1, SameEnd

\* A published profile makes nobody a member, and nobody less of one.
LEMMA ProfileKeepsMembers ==
    ASSUME NEW log, NEW p, NEW x, NEW y
    PROVE  Writable(Published(log, p), x, y) = Writable(log, x, y)
  <1>1. CASE ~ StaleProfile(log, p)
    BY <1>1 DEF Published
  <1>2. CASE StaleProfile(log, p)
    <2> DEFINE o == Signed(log, "profile", p, p)
               new == log \cup {o}
    <2>1. Published(log, p) = new /\ o.kind = "profile" /\ log # {}
      BY <1>2 DEF Published, Signed, Operation, StaleProfile, Member, InMembers
    <2> HIDE DEF o
    <2>2. \A z : Exits(new, z) = Exits(log, z)
      BY <2>1 DEF Exits
    <2>3. Deleted(new) = Deleted(log)
      BY <2>1 DEF Deleted
    <2>4. \A a : Counts(new, a) = Counts(log, a)
      BY <2>2 DEF Counts
    <2>5. \A z : InMembers(new, z) = InMembers(log, z)
      BY <2>1, <2>2, <2>4 DEF InMembers
    <2> QED BY <2>1, <2>3, <2>5 DEF Writable, Member
  <1> QED BY <1>1, <1>2

\* The end of a validation keeps the invariant: what is announced after the
\* merge, and again with the profile, follows the log that is saved.
LEMMA Merging ==
    ASSUME IInv, NEW p \in Peers, NEW q \in Peers, MergeFinishes(p, q)
    PROVE  IInv'
  <1> DEFINE log   == ops[p] \cup link[p][q].merge.snapshot
             final == Published(log, p)
             l     == [link[p][q] EXCEPT !.merge = NoMerge]
             end   == IF Writable(log, p, q) THEN Synced(l) ELSE Withdrawn(l)
             sides  == [link[p] EXCEPT ![q] = end]
             ends2 == IF News(p, log)
                      THEN [x \in Peers |-> Announced(log, p, x, sides[x])] ELSE sides
             ends3 == IF final # log
                      THEN [x \in Peers |-> Announced(final, p, x, ends2[x])] ELSE ends2
  <1>1. CASE Refused(p, q, log)
    BY <1>1, Aborting DEF MergeFinishes
  <1>2. CASE ~ Refused(p, q, log)
    <2>1. /\ link' = [link EXCEPT ![p] = ends3] /\ UNCHANGED admitting
          /\ IF final # ops[p] THEN Save(p, final) ELSE UNCHANGED <<ops, mine, presence>>
      BY <1>2 DEF MergeFinishes
    <2>2. link[p][q].up
      BY EachEnd DEF MergeFinishes, WellFormed
    <2>3. /\ WellFormed(end) /\ Grants(log, p, q, end) /\ end.up
          /\ Writable(log, p, q) => end.ready
      BY <2>2, EachEnd DEF WellFormed, Fields, Grants, Synced, Withdrawn, NoMerge
    <2>4. DOMAIN sides = Peers /\ \A x \in Peers : sides[x] = IF x = q THEN end ELSE link[p][x]
      BY DEF IInv, Shape
    <2> HIDE DEF end
    <2>5. \A x \in Peers :
             /\ WellFormed(sides[x]) /\ sides[x].up = link[p][x].up
             /\ ~ News(p, log) => Grants(log, p, x, sides[x])
             /\ x \in presence[p] /\ Writable(log, p, x) => sides[x].ready
      BY <2>2, <2>3, <2>4, EachEnd DEF News
    <2> HIDE DEF sides
    <2>6. DOMAIN ends2 = Peers /\ \A x \in Peers :
             /\ WellFormed(ends2[x]) /\ ends2[x].up = link[p][x].up
             /\ Grants(log, p, x, ends2[x])
             /\ x \in presence[p] /\ Writable(log, p, x) => ends2[x].ready
      <3>1. CASE News(p, log)
        <4>1. \A x \in Peers : ends2[x] = Announced(log, p, x, sides[x])
          BY <3>1
        <4>2. DOMAIN ends2 = Peers
          BY <3>1
        <4> HIDE DEF ends2, log
        <4>3. ASSUME NEW x \in Peers
              PROVE  /\ WellFormed(ends2[x]) /\ ends2[x].up = link[p][x].up
                     /\ Grants(log, p, x, ends2[x])
                     /\ sides[x].ready /\ Writable(log, p, x) => ends2[x].ready
          BY <4>1, <2>5, AnnouncedEnd
        <4> QED BY <4>2, <4>3, <2>5
      <3>2. CASE ~ News(p, log)
        BY <3>2, <2>4, <2>5
      <3> QED BY <3>1, <3>2
    <2> HIDE DEF ends2
    <2>7. DOMAIN ends3 = Peers /\ \A x \in Peers :
             /\ WellFormed(ends3[x]) /\ ends3[x].up = link[p][x].up
             /\ Grants(final, p, x, ends3[x])
             /\ x \in presence[p] /\ Writable(final, p, x) => ends3[x].ready
      <3>1. CASE final # log
        <4>1. \A x \in Peers : ends3[x] = Announced(final, p, x, ends2[x])
          BY <3>1
        <4>2. DOMAIN ends3 = Peers
          BY <3>1
        <4>3. \A x \in Peers : Writable(final, p, x) = Writable(log, p, x)
          BY ProfileKeepsMembers
        <4> HIDE DEF ends3, final, log
        <4> QED BY <4>1, <4>2, <4>3, <2>6, AnnouncedEnd
      <3>2. CASE final = log
        BY <3>2, <2>6
      <3> QED BY <3>1, <3>2
    <2> HIDE DEF ends3, final
    <2>8. /\ DOMAIN ops' = Peers /\ ops'[p] = final
          /\ \A x \in Peers : x # p => ops'[x] = ops[x]
      BY <2>1 DEF Save, IInv, Shape
    <2>9. /\ DOMAIN presence' = Peers
          /\ \A x \in Peers : x # p => presence'[x] = presence[x]
          /\ \A x \in Peers : x \in presence'[p] => x \in presence[p] /\ Writable(final, p, x)
      <3>1. CASE final # ops[p]
        BY <2>1, <3>1 DEF Save, IInv, Shape
      <3>2. CASE final = ops[p]
        BY <2>1, <3>2, EachEnd DEF IInv, Shape, Grants
      <3> QED BY <3>1, <3>2
    <2>10. \A x, y \in Peers : link'[x][y].up = link[x][y].up
      BY <2>1, <2>7 DEF IInv, Shape
    <2>11. DOMAIN admitting' = Peers /\ VisitsLinks'
      BY <2>1, <2>10 DEF IInv, Shape, VisitsLinks, Linked
    <2>12. \A x \in Peers : x \in presence'[p] => ends3[x].ready
      BY <2>7, <2>9
    <2>13. link' = [link EXCEPT ![p] = ends3]
      BY <2>1
    <2> QED BY <2>7, <2>8, <2>9, <2>11, <2>12, <2>13, OwnEnds
  <1> QED BY <1>1, <1>2

\* So does everything a device does with one message, or with a snapshot.
LEMMA Handlers ==
    ASSUME IInv, NEW p \in Peers, NEW q \in Peers, Handle(p, q)
    PROVE  IInv'
  <1> USE EachEnd
  <1>1. CASE HandleHello(p, q)
    <2> DEFINE l == [link[p][q] EXCEPT !.hello = TRUE]
               e == Offered(p, q, l)
    <2>1. link' = [link EXCEPT ![p][q] = e] /\ UNCHANGED <<ops, presence, admitting>>
      BY <1>1 DEF HandleHello
    <2>2. /\ WellFormed(l) /\ Grants(ops[p], p, q, l) /\ l.up
          /\ l.up = link[p][q].up /\ l.ready = link[p][q].ready
      BY <1>1 DEF HandleHello, Delivers, WellFormed, Fields, Grants
    <2> HIDE DEF l
    <2>3. /\ WellFormed(e) /\ Grants(ops[p], p, q, e)
          /\ e.up = link[p][q].up /\ (link[p][q].ready => e.ready)
      BY <2>2, OfferedEnd
    <2> HIDE DEF e
    <2> QED BY <2>1, <2>3, Handler
  <1>2. CASE HandleJoin(p, q)
    <2> DEFINE e == [link[p][q] EXCEPT !.join = TRUE]
    <2>1. link' = [link EXCEPT ![p][q] = e] /\ UNCHANGED <<ops, presence>>
      BY <1>2 DEF HandleJoin
    <2>2. /\ WellFormed(e) /\ Grants(ops[p], p, q, e)
          /\ e.up = link[p][q].up /\ (link[p][q].ready => e.ready)
      BY DEF WellFormed, Fields, Grants
    <2>3. DOMAIN admitting' = Peers /\ \A x \in Peers : admitting'[x] \subseteq Linked(x)
      BY <1>2 DEF HandleJoin, Delivers, IInv, Shape, VisitsLinks, Linked
    <2> HIDE DEF e
    <2> QED BY <2>1, <2>2, <2>3, SameEnd
  <1>3. CASE HandleRejected(p, q)
    BY <1>3, NoEnd DEF HandleRejected, IInv, Shape, VisitsLinks
  <1>4. CASE HandleRedirect(p, q)
    <2>1. CASE invited[p].pending /\ Incoming(p, q).peer = p
      BY <1>4, <2>1, Aborting DEF HandleRedirect
    <2>2. CASE ~ (invited[p].pending /\ Incoming(p, q).peer = p)
      BY <1>4, <2>2, NoEnd DEF HandleRedirect, IInv, Shape, VisitsLinks
    <2> QED BY <2>1, <2>2
  <1>5. CASE HandleOffer(p, q)
    <2> DEFINE e == IF ~ Writable(ops[p], p, q)
                    THEN IF TellsFinal(ops[p], p, q)
                         THEN [link[p][q] EXCEPT !.allowed = FALSE, !.sync = "none"]
                         ELSE link[p][q]
                    ELSE IF Incoming(p, q).log = ops[p] THEN Synced(link[p][q])
                    ELSE [link[p][q] EXCEPT !.allowed = TRUE, !.sync = "fresh"]
    <2>1. link' = [link EXCEPT ![p][q] = e] /\ UNCHANGED <<ops, presence, admitting>>
      BY <1>5 DEF HandleOffer
    <2>2. /\ WellFormed(e) /\ Grants(ops[p], p, q, e)
          /\ e.up = link[p][q].up /\ (link[p][q].ready => e.ready)
      BY <1>5 DEF HandleOffer, Delivers, WellFormed, Fields, Grants, Synced
    <2> HIDE DEF e
    <2> QED BY <2>1, <2>2, Handler
  <1>6. CASE HandleStateRequest(p, q)
    <2> DEFINE e == [link[p][q] EXCEPT !.sync = "fresh"]
    <2>1. link' = [link EXCEPT ![p][q] = e] \/ UNCHANGED link
      BY <1>6 DEF HandleStateRequest
    <2>2. UNCHANGED <<ops, presence, admitting>>
      BY <1>6 DEF HandleStateRequest
    <2>3. /\ WellFormed(e) /\ Grants(ops[p], p, q, e)
          /\ e.up = link[p][q].up /\ (link[p][q].ready => e.ready)
      BY DEF WellFormed, Fields, Grants
    <2> HIDE DEF e
    <2>4. CASE link' = [link EXCEPT ![p][q] = e]
      BY <2>2, <2>3, <2>4, Handler
    <2>5. CASE UNCHANGED link
      BY <2>2, <2>5, NoEnd DEF IInv, Shape, VisitsLinks
    <2> QED BY <2>1, <2>4, <2>5
  <1>7. CASE HandleState(p, q)
    <2>1. CASE ops[p] = {} /\ ~ invited[p].pending
      BY <1>7, <2>1, Aborting DEF HandleState
    <2>2. CASE ~ (ops[p] = {} /\ ~ invited[p].pending)
      <3> DEFINE e == [link[p][q] EXCEPT !.sync = "fresh",
                                         !.merge = [busy |-> TRUE, base |-> ops[p],
                                                    snapshot |-> Incoming(p, q).log]]
      <3>1. UNCHANGED <<ops, presence, admitting>>
        BY <1>7, <2>2 DEF HandleState
      <3>2. link' = [link EXCEPT ![p][q].sync = "fresh",
                                 ![p][q].merge = [busy |-> TRUE, base |-> ops[p],
                                                  snapshot |-> Incoming(p, q).log]]
        BY <1>7, <2>2 DEF HandleState
      <3>3. link' = [link EXCEPT ![p][q] = e]
        BY <3>2 DEF IInv, Shape
      <3>4. link[p][q].up
        BY <1>7 DEF HandleState, Delivers
      <3>5. /\ DOMAIN e = DOMAIN link[p][q] /\ e.up = link[p][q].up
            /\ e.hello = link[p][q].hello /\ e.allowed = link[p][q].allowed
            /\ e.ready = link[p][q].ready
        BY DEF WellFormed, Fields
      <3> HIDE DEF e
      <3>6. WellFormed(e) /\ Grants(ops[p], p, q, e)
        BY <3>4, <3>5 DEF WellFormed, Fields, Grants
      <3> QED BY <3>1, <3>3, <3>5, <3>6, Handler
    <2> QED BY <2>1, <2>2
  <1>8. CASE HandleSynced(p, q)
    <2> DEFINE e == Synced(link[p][q])
    <2>1. \/ link' = [link EXCEPT ![p][q] = e] /\ Writable(ops[p], p, q)
          \/ UNCHANGED link
      BY <1>8 DEF HandleSynced
    <2>2. UNCHANGED <<ops, presence, admitting>>
      BY <1>8 DEF HandleSynced
    <2>3. ASSUME Writable(ops[p], p, q)
          PROVE  /\ WellFormed(e) /\ Grants(ops[p], p, q, e)
                 /\ e.up = link[p][q].up /\ (link[p][q].ready => e.ready)
      BY <1>8, <2>3 DEF HandleSynced, Delivers, WellFormed, Fields, Grants, Synced
    <2> HIDE DEF e
    <2>4. CASE link' = [link EXCEPT ![p][q] = e] /\ Writable(ops[p], p, q)
      BY <2>2, <2>3, <2>4, Handler
    <2>5. CASE UNCHANGED link
      BY <2>2, <2>5, NoEnd DEF IInv, Shape, VisitsLinks
    <2> QED BY <2>1, <2>4, <2>5
  <1>9. CASE HandlePresence(p, q)
    <2>1. UNCHANGED <<ops, link, admitting>> /\ DOMAIN presence' = Peers
      BY <1>9 DEF HandlePresence, IInv, Shape
    <2>2. \A x, y \in Peers : y \in presence'[x] => link[x][y].ready
      BY <1>9 DEF HandlePresence, IInv, Shape
    <2> QED BY <2>1, <2>2, NoEnd DEF IInv, Shape, VisitsLinks
  <1>10. CASE HandleEnd(p, q)
    BY <1>10, Aborting DEF HandleEnd
  <1>11. CASE MergeAgain(p, q)
    <2> DEFINE e == [link[p][q] EXCEPT !.merge = [@ EXCEPT !.base = ops[p]]]
    <2>1. link' = [link EXCEPT ![p][q] = e] /\ UNCHANGED <<ops, presence, admitting>>
      BY <1>11 DEF MergeAgain
    <2>2. /\ WellFormed(e) /\ Grants(ops[p], p, q, e)
          /\ e.up = link[p][q].up /\ (link[p][q].ready => e.ready)
      BY <1>11 DEF MergeAgain, WellFormed, Fields, Grants
    <2> HIDE DEF e
    <2> QED BY <2>1, <2>2, Handler
  <1>12. CASE MergeFinishes(p, q)
    BY <1>12, Merging
  <1> QED
    BY <1>1, <1>2, <1>3, <1>4, <1>5, <1>6, <1>7, <1>8, <1>9, <1>10, <1>11, <1>12 DEF Handle

\* A join request that is answered by closing the link closes no link that
\* shows somebody in voice.
LEMMA Answering ==
    ASSUME IInv, NEW p \in Peers, NEW q \in Peers, NEW answer, link[p][q].up,
           Answer(p, q, answer), admitting' = [admitting EXCEPT ![p] = @ \ {q}]
    PROVE  IInv'
  <1>1. UNCHANGED <<ops, presence>>
    BY DEF Answer
  <1>2. DOMAIN admitting' = Peers /\ \A x \in Peers : admitting'[x] \subseteq Linked(x)
    BY DEF IInv, Shape, VisitsLinks
  <1>3. CASE link[p][q].allowed
    <2> DEFINE e == [link[p][q] EXCEPT !.join = FALSE]
    <2>1. link' = [link EXCEPT ![p][q] = e]
      BY <1>3 DEF Answer
    <2>2. /\ WellFormed(e) /\ Grants(ops[p], p, q, e)
          /\ e.up = link[p][q].up /\ (link[p][q].ready => e.ready)
      BY EachEnd DEF WellFormed, Fields, Grants
    <2> HIDE DEF e
    <2> QED BY <1>1, <1>2, <2>1, <2>2, SameEnd
  <1>4. CASE ~ link[p][q].allowed
    <2>1. link' = [link EXCEPT ![p][q] = Down]
      BY <1>4 DEF Answer
    <2>2. WellFormed(Down) /\ Grants(ops[p], p, q, Down)
      BY DEF WellFormed, Down, Fields, NoMerge, Grants
    <2>3. q \notin presence[p]
      BY <1>4, EachEnd DEF WellFormed
    <2>4. \A x, y \in Peers : link'[x][y] = IF x = p /\ y = q THEN Down ELSE link[x][y]
      BY <2>1 DEF IInv, Shape
    <2>5. \A x \in Peers : q \notin admitting'[p] /\ admitting'[x] \subseteq admitting[x]
      BY DEF IInv, Shape
    <2>6. VisitsLinks'
      BY <2>4, <2>5 DEF IInv, VisitsLinks, Linked
    <2> QED BY <1>1, <1>2, <2>1, <2>2, <2>3, <2>6, OneEnd
  <1> QED BY <1>3, <1>4

\* An iteration of processAdmissions gives access to the peer it admits only
\* once the admission is saved.
LEMMA Admitting ==
    ASSUME IInv, NEW p \in Peers, NEW q \in Peers, AdmitNext(p, q)
    PROVE  IInv'
  <1>1. admitting' = [admitting EXCEPT ![p] = @ \ {q}] /\ link[p][q].up
    BY DEF AdmitNext, IInv, VisitsLinks, Linked
  <1>2. /\ DOMAIN admitting' = Peers
        /\ \A x \in Peers : admitting'[x] \subseteq admitting[x]
    BY <1>1 DEF IInv, Shape
  <1>3. CASE Synchronizing(p)
    BY <1>2, <1>3, EachEnd, NoEnd DEF AdmitNext, IInv, Shape, VisitsLinks
  <1>4. CASE Answer(p, q, Message("rejected", {}))
    BY <1>1, <1>4, Answering
  <1>5. CASE Answer(p, q, Redirect(Host(ops[p], Online(p))))
    BY <1>1, <1>5, Answering
  <1> DEFINE sides == [link[p] EXCEPT ![q].join = FALSE, ![q].allowed = TRUE]
             log  == Admitted(p, q)
  <1>6. CASE SaveAndAnnounce(p, log, sides)
    <2>1. \A x \in Peers : /\ WellFormed(sides[x]) /\ sides[x].up = link[p][x].up
                           /\ x \in presence[p] => sides[x].ready
      <3>1. \A x \in Peers : x # q => sides[x] = link[p][x]
        BY DEF IInv, Shape
      <3>2. sides[q] = [[link[p][q] EXCEPT !.join = FALSE] EXCEPT !.allowed = TRUE]
        BY DEF IInv, Shape
      <3> HIDE DEF sides
      <3>3. DOMAIN sides[q] = Fields
        BY <3>2, EachEnd
      <3>4. /\ sides[q].up = link[p][q].up /\ sides[q].ready = link[p][q].ready
            /\ sides[q].allowed
        BY <3>2, EachEnd DEF Fields
      <3>5. WellFormed(sides[q])
        BY <1>1, <3>3, <3>4 DEF WellFormed
      <3> QED BY <3>1, <3>4, <3>5, EachEnd
    <2> HIDE DEF sides, log
    <2> QED BY <1>2, <1>6, <2>1, Announcing
  <1> HIDE DEF sides, log
  <1> QED BY <1>3, <1>4, <1>5, <1>6 DEF AdmitNext, sides, log

\* What a device does by itself keeps the invariant.
LEMMA OwnSteps == ASSUME IInv, NEW p \in Peers, Own(p) PROVE IInv'
  <1>1. CASE Recovered(p)
    BY <1>1, EachEnd, NoEnd DEF Recovered, IInv, Shape, VisitsLinks
  <1>2. CASE TickAdmissions(p)
    <2>1. UNCHANGED <<ops, link, presence>>
      BY <1>2 DEF TickAdmissions
    <2>2. DOMAIN admitting' = Peers /\ \A x \in Peers : admitting'[x] \subseteq Linked(x)
      BY <1>2 DEF TickAdmissions, IInv, Shape, VisitsLinks
    <2> QED BY <2>1, <2>2, EachEnd, NoEnd DEF IInv, Shape
  <1>3. ASSUME NEW q \in Peers, AdmitNext(p, q) PROVE IInv'
    BY <1>3, Admitting
  <1>4. ASSUME NEW q \in Peers, TickUseless(p, q) PROVE IInv'
    BY <1>4, Aborting DEF TickUseless
  <1>5. ASSUME NEW i \in DOMAIN invited[p].seeds, TickJoin(p, i) PROVE IInv'
    BY <1>5, Joining DEF TickJoin
  <1> QED BY <1>1, <1>2, <1>3, <1>4, <1>5 DEF Own

\* A new connection grants nothing yet, at either end.
LEMMA Connecting ==
    ASSUME IInv, NEW p \in Peers, NEW q \in Peers, Connect(p, q)
    PROVE  IInv'
  <1>1. \A x, y \in Peers :
            link'[x][y] = IF <<x, y>> \in {<<p, q>>, <<q, p>>} THEN Fresh ELSE link[x][y]
    BY DEF Connect, IInv, Shape
  <1>2. WellFormed(Fresh) /\ Fresh.up /\ ~ Fresh.allowed /\ ~ Fresh.ready
    BY DEF WellFormed, Fresh, Down, Fields, NoMerge
  <1>3. UNCHANGED <<ops, presence, admitting>> /\ ~ link[p][q].up /\ ~ link[q][p].up
    BY DEF Connect
  <1>4. Shape'
    <2>1. \A x, y \in Peers : WellFormed(link'[x][y])
      BY <1>1, <1>2, EachEnd
    <2>2. DOMAIN link' = Peers /\ \A x \in Peers : DOMAIN link'[x] = Peers
      BY DEF Connect, IInv, Shape
    <2> QED BY <1>3, <2>1, <2>2 DEF IInv, Shape, WellFormed, Fields
  <1>5. VisitsLinks'
    BY <1>1, <1>2, <1>3 DEF IInv, VisitsLinks, Linked
  <1>6. AccessMatchesMembership'
    <2> SUFFICES ASSUME NEW x \in Peers, NEW y \in Peers
                 PROVE  /\ Grants(ops'[x], x, y, link'[x][y])
                        /\ y \in presence'[x] => link'[x][y].ready
      BY DEF AccessMatchesMembership, Grants, Writable, Member, InMembers, Deleted, Counts, Exits
    <2>1. CASE <<x, y>> \in {<<p, q>>, <<q, p>>}
      <3>1. link'[x][y] = Fresh /\ ~ link[x][y].up
        BY <2>1, <1>1, <1>3
      <3>2. y \notin presence[x]
        BY <3>1, EachEnd DEF WellFormed
      <3> QED BY <3>1, <3>2, <1>2, <1>3 DEF Grants
    <2>2. CASE <<x, y>> \notin {<<p, q>>, <<q, p>>}
      BY <2>2, <1>1, <1>3, EachEnd
    <2> QED BY <2>1, <2>2
  <1> QED BY <1>4, <1>5, <1>6 DEF IInv

\* Every step keeps the invariant.
THEOREM Inductive == IInv /\ [Next]_vars => IInv'
  <1> SUFFICES ASSUME IInv, [Next]_vars PROVE IInv'
    OBVIOUS
  <1>1. CASE Next
    BY <1>1, UserSteps, Faults, OwnSteps, Connecting, Handlers DEF Next
  <1>2. CASE UNCHANGED vars
    BY <1>2, EachEnd, NoEnd DEF vars, IInv, Shape, VisitsLinks
  <1> QED BY <1>1, <1>2

\* The program starts in the invariant.
THEOREM Initially == Init => IInv
  BY DEF Init, IInv, Shape, WellFormed, Fields, Down, NoMerge, VisitsLinks, AccessMatchesMembership

\* Node::writable, allowed, ready and presence_: metadata and packets are
\* exchanged only with members of the community, and only they show in its
\* voice channel, whatever the order of edits, snapshots, joins and crashes.
THEOREM AccessMatchesMembershipThm == Spec => []AccessMatchesMembership
  <1>1. IInv => AccessMatchesMembership
    BY DEF IInv
  <1> QED BY <1>1, Initially, Inductive, PTL DEF Spec

-----------------------------------------------------------------------------
(***************************************************************************)
(* What the logs, the links, the messages and the invites are.             *)
(***************************************************************************)
Kinds == {"create", "admit", "profile", "invite", "revoke", "edit", "leave", "delete",
          "remove", "kick", "priority"}
Operations == [id : Nat, kind : Kinds, author : Peers, peer : Peers, past : SUBSET Nat]

\* A log that is saved, sent or validated: it begins with the creation.
Logs == {l \in SUBSET Operations : IsFiniteSet(l) /\ (l # {} => Create \in l)}

Validations == [busy : BOOLEAN, snapshot : Logs, base : Logs]
Ends == [up : BOOLEAN, hello : BOOLEAN, allowed : BOOLEAN, ready : BOOLEAN,
         sync : {"none", "fresh", "stale"}, join : BOOLEAN, merge : Validations]
End(l) == l \in Ends /\ (~ l.up => l = Down)

\* The log names a peer as a member, now or at some time.
Proves(log, q) == q = Owner \/ \E o \in log : o.kind = "admit" /\ o.peer = q

Snapshots == [type : {"state", "offer", "synced"}, log : Logs]
Messages ==
    Snapshots
    \cup [type : {"hello", "join", "rejected", "state-request", "end"}, log : Logs]
    \cup [type : {"redirect"}, peer : Peers \cup {NoPeer}]
    \cup [type : {"presence"}, in : BOOLEAN]
For(q) == {m \in Messages : m \in Snapshots => Proves(m.log, q)}

Carries(c) ==
    /\ DOMAIN c = Peers
    /\ \A p \in Peers : DOMAIN c[p] = Peers
    /\ \A p, q \in Peers : c[p][q] \in Seq(For(q))

Invited(inv) ==
    /\ DOMAIN inv = {"pending", "seeds", "via"}
    /\ inv.pending \in BOOLEAN
    /\ inv.via \in Range(inv.seeds) \cup {NoPeer}

LogsTyped == ops \in [Peers -> Logs]
LinksTyped == \A p, q \in Peers : End(link[p][q])
JoinsWait == \A p \in Peers : admitting[p] \subseteq {q \in Linked(p) : link[p][q].join}
InvitesTyped == DOMAIN invited = Peers /\ \A p \in Peers : Invited(invited[p])
VoiceTyped == mine \in [Peers -> BOOLEAN]

Typed == LogsTyped /\ LinksTyped /\ JoinsWait /\ InvitesTyped /\ VoiceTyped /\ Carries(chan)

-----------------------------------------------------------------------------
\* A device that is in no community holds an empty log.
LEMMA EmptyLog == {} \in Logs
  BY FS_EmptySet DEF Logs

\* The owner begins with the creation.
LEMMA CreateLog == Create \in Operations /\ {Create} \in Logs
  <1>1. Create \in Operations
    BY NodeAssumption DEF Create, Operation, Operations, Kinds
  <1>2. IsFiniteSet({Create})
    BY FS_Singleton
  <1> HIDE DEF Create
  <1> QED BY <1>1, <1>2 DEF Logs

\* Two logs of one community merge into one.
LEMMA MergedLog == ASSUME NEW l \in Logs, NEW m \in Logs PROVE l \cup m \in Logs
  BY FS_Union DEF Logs

\* The devices hold finitely many operations between them,
LEMMA AllOpsFinite == ASSUME IInv, LogsTyped PROVE IsFiniteSet(AllOps)
  <1> DEFINE S == {ops[p] : p \in Peers}
  <1>1. ops \in Surjection(Peers, S)
    <2>1. ops \in [Peers -> S]
      BY DEF LogsTyped
    <2> QED BY <2>1 DEF Surjection
  <1>2. IsFiniteSet(S)
    BY <1>1, NodeAssumption, FS_Surjection
  <1>3. \A s \in S : IsFiniteSet(s)
    BY DEF LogsTyped, Logs
  <1> QED BY <1>2, <1>3, FS_UNION DEF AllOps

\* so an operation that is signed has a number of its own, and its log is one.
LEMMA SignedLog ==
    ASSUME IInv, LogsTyped, NEW log \in Logs, log # {},
           NEW kind \in Kinds, NEW author \in Peers, NEW peer \in Peers
    PROVE  log \cup {Signed(log, kind, author, peer)} \in Logs
  <1>1. Cardinality(AllOps \cup log) \in Nat
    BY AllOpsFinite, FS_Union, FS_CardinalityType DEF Logs
  <1>2. Known(log) \in SUBSET Nat
    BY DEF Known, Logs, Operations
  <1>3. Signed(log, kind, author, peer) \in Operations
    BY <1>1, <1>2 DEF Signed, Operation, Operations
  <1> QED BY <1>3, FS_AddElement DEF Logs

\* A profile is published into a log that holds the same and more.
LEMMA PublishedLog ==
    ASSUME IInv, LogsTyped, NEW log \in Logs, NEW p \in Peers
    PROVE  Published(log, p) \in Logs /\ log \subseteq Published(log, p)
  <1>1. StaleProfile(log, p) => log # {}
    BY DEF StaleProfile, Member, InMembers
  <1>2. "profile" \in Kinds
    BY DEF Kinds
  <1> QED BY <1>1, <1>2, SignedLog DEF Published

\* Who is a member, or was when the community ended, is in the log; a log that
\* grows keeps naming him.
LEMMA Proving ==
    ASSUME NEW log, NEW p, NEW q
    PROVE  /\ Writable(log, p, q) => Proves(log, q)
           /\ TellsFinal(log, p, q) => Proves(log, q)
           /\ \A more : log \subseteq more /\ Proves(log, q) => Proves(more, q)
  <1>1. InMembers(log, q) => Proves(log, q)
    BY DEF InMembers, Proves
  <1>2. \A more : log \subseteq more /\ Proves(log, q) => Proves(more, q)
    BY DEF Proves
  <1> QED BY <1>1, <1>2 DEF Writable, TellsFinal, Member

\* What a device may put on its way to a peer.
LEMMA MessageTypes ==
    ASSUME NEW q \in Peers, NEW log \in Logs
    PROVE  /\ \A t \in {"hello", "join", "rejected", "state-request", "end"} :
                 Message(t, log) \in For(q)
           /\ Proves(log, q) => \A t \in {"state", "offer", "synced"} : Message(t, log) \in For(q)
           /\ \A x \in Peers \cup {NoPeer} : Redirect(x) \in For(q)
           /\ \A in \in BOOLEAN : Presence(in) \in Seq(For(q))
  <1>1. \A t \in {"hello", "join", "rejected", "state-request", "end"} :
                 Message(t, log) \in For(q)
    BY DEF Message, For, Messages, Snapshots
  <1>2. Proves(log, q) => \A t \in {"state", "offer", "synced"} : Message(t, log) \in For(q)
    BY DEF Message, For, Messages, Snapshots
  <1>3. \A x \in Peers \cup {NoPeer} : Redirect(x) \in For(q)
    BY DEF Redirect, For, Messages, Snapshots
  <1>4. \A in \in BOOLEAN : [type |-> "presence", in |-> in] \in For(q)
    BY DEF For, Messages, Snapshots
  <1> HIDE DEF For
  <1>5. \A in \in BOOLEAN : Presence(in) \in Seq(For(q))
    <2>1. <<>> \in Seq(For(q)) /\ \A e \in For(q) : <<e>> \in Seq(For(q))
      BY EmptySeq
    <2> QED BY <1>4, <2>1 DEF Presence
  <1> QED BY <1>1, <1>2, <1>3, <1>5

\* What is read from a link is what was sent for its reader, and the rest stays.
LEMMA IncomingTyped ==
    ASSUME Carries(chan), NEW p \in Peers, NEW q \in Peers, chan[q][p] # <<>>
    PROVE  /\ Incoming(p, q) \in For(p)
           /\ Incoming(p, q).type \in {"state", "offer", "synced"} => Incoming(p, q).log \in Logs
           /\ Incoming(p, q).type = "redirect" => Incoming(p, q).peer \in Peers \cup {NoPeer}
           /\ Carries(Taken(p, q))
  <1>1. Incoming(p, q) \in For(p) /\ Tail(chan[q][p]) \in Seq(For(p))
    BY HeadTailProperties DEF Carries, Incoming
  <1>2. /\ Incoming(p, q).type \in {"state", "offer", "synced"} => Incoming(p, q).log \in Logs
        /\ Incoming(p, q).type = "redirect" => Incoming(p, q).peer \in Peers \cup {NoPeer}
    BY <1>1 DEF For, Messages, Snapshots
  <1>3. Carries(Taken(p, q))
    BY <1>1 DEF Carries, Taken
  <1> QED BY <1>1, <1>2, <1>3

\* Sending what a link may carry leaves it carrying what it may.
LEMMA Sending ==
    ASSUME NEW c, Carries(c), NEW p \in Peers, NEW out,
           \A q \in Peers : out[q] \in Seq(For(q))
    PROVE  Carries(Sent(c, p, out))
  <1>1. \A q \in Peers : c[p][q] \o out[q] \in Seq(For(q))
    BY ConcatProperties DEF Carries
  <1> QED BY <1>1 DEF Carries, Sent

\* So does a reset, which empties it.
LEMMA Clearing ==
    ASSUME Carries(chan), NEW p \in Peers, NEW q \in Peers, AbortLink(p, q)
    PROVE  Carries(chan')
  <1>1. \A y \in Peers : <<>> \in Seq(For(y))
    BY EmptySeq
  <1>2. \A x, y \in Peers : chan'[x][y] \in {chan[x][y], <<>>}
    BY DEF AbortLink, Carries
  <1> QED BY <1>1, <1>2 DEF AbortLink, Carries

\* What broadcastState, offers and synced do to an end leaves it an end that is
\* as far up as before and waits for the same admission; only a member gains access.
LEMMA EndsTyped ==
    ASSUME NEW l, End(l), NEW p \in Peers, NEW q \in Peers, NEW log
    PROVE  /\ LET e == Announced(log, p, q, l)
              IN  End(e) /\ e.up = l.up /\ e.join = l.join
                  /\ (e.allowed => l.allowed \/ Writable(log, p, q))
           /\ l.up => LET e == Offered(p, q, l) IN End(e) /\ e.up = l.up /\ e.join = l.join
           /\ l.up => LET e == Synced(l) IN End(e) /\ e.up = l.up /\ e.join = l.join
           /\ l.up => LET e == Withdrawn(l) IN End(e) /\ e.up = l.up /\ e.join = l.join
  <1>1. l \in Ends
    BY DEF End
  <1>2. Announced(log, p, q, l) = l \/ l.up
    BY DEF Announced
  <1>3. LET e == Announced(log, p, q, l)
        IN  e \in Ends /\ e.up = l.up /\ e.join = l.join
            /\ (e.allowed => l.allowed \/ Writable(log, p, q))
    BY <1>1 DEF Announced, Withdrawn, Ends
  <1>4. LET e == Offered(p, q, l) IN e \in Ends /\ e.up = l.up /\ e.join = l.join
    BY <1>1 DEF Offered, Ends
  <1>5. LET e == Synced(l) IN e \in Ends /\ e.up = l.up /\ e.join = l.join
    BY <1>1 DEF Synced, Ends
  <1>6. LET e == Withdrawn(l) IN e \in Ends /\ e.up = l.up /\ e.join = l.join
    BY <1>1 DEF Withdrawn, Ends
  <1> QED BY <1>2, <1>3, <1>4, <1>5, <1>6 DEF End

\* broadcastState sends a log to those it names.
LEMMA AnnouncementTyped ==
    ASSUME NEW log \in Logs, NEW p, NEW q \in Peers, NEW l, l.allowed => Proves(log, q)
    PROVE  Announcement(log, p, q, l) \in Seq(For(q))
  <1>1. <<>> \in Seq(For(q)) /\ \A e \in For(q) : <<e>> \in Seq(For(q))
    BY EmptySeq
  <1> QED BY <1>1, MessageTypes, Proving DEF Announcement

\* An end that is down, and one that just came up, give access to nothing.
LEMMA DownTyped == End(Down) /\ End(Fresh) /\ ~ Down.allowed /\ ~ Fresh.allowed
  BY EmptyLog DEF End, Down, Fresh, Ends, NoMerge, Validations

\* A link with access to metadata belongs to somebody its log names, whatever is
\* added: what is granted follows the log (AccessMatchesMembership).
LEMMA Allowing ==
    ASSUME IInv, NEW p \in Peers, NEW q \in Peers, link[p][q].allowed, NEW log, ops[p] \subseteq log
    PROVE  Proves(log, q)
  BY EachEnd, Proving DEF Grants

\* A save that is announced keeps the types, and the links up that are up.
LEMMA SaveTyped ==
    ASSUME IInv, Typed, NEW p \in Peers, NEW log \in Logs, NEW sides,
           \A q \in Peers : End(sides[q]) /\ (sides[q].allowed => Proves(log, q)),
           SaveAndAnnounce(p, log, sides)
    PROVE  /\ LogsTyped' /\ LinksTyped' /\ VoiceTyped' /\ Carries(chan')
           /\ \A x, q \in Peers : LET l == IF x = p THEN sides[q] ELSE link[x][q]
                                  IN  link'[x][q].up = l.up /\ link'[x][q].join = l.join
  <1>1. LogsTyped' /\ VoiceTyped'
    BY DEF SaveAndAnnounce, Save, Typed, LogsTyped, VoiceTyped, Member, Deleted, InMembers
  <1>2. \A x, q \in Peers : link'[x][q] = IF x = p THEN Announced(log, p, q, sides[q]) ELSE link[x][q]
    BY DEF SaveAndAnnounce, IInv, Shape
  <1>3. \A x, q \in Peers : LET l == IF x = p THEN sides[q] ELSE link[x][q]
                            IN  link'[x][q].up = l.up /\ link'[x][q].join = l.join /\ End(link'[x][q])
    BY <1>2, EndsTyped DEF Typed, LinksTyped
  <1> DEFINE out == [q \in Peers |-> Announcement(log, p, q, sides[q])]
  <1>4. \A q \in Peers : out[q] \in Seq(For(q))
    BY AnnouncementTyped
  <1>5. chan' = Sent(chan, p, out)
    BY DEF SaveAndAnnounce
  <1> HIDE DEF out
  <1>6. Carries(chan')
    BY <1>4, <1>5, Sending DEF Typed
  <1> QED BY <1>1, <1>3, <1>6 DEF LinksTyped

\* So does the loss of a link.
LEMMA AbortTyped ==
    ASSUME IInv, Typed, NEW p \in Peers, NEW q \in Peers, AbortLink(p, q), UNCHANGED <<ops, mine>>
    PROVE  Typed'
  <1>1. \A x, y \in Peers :
            link'[x][y] = IF <<x, y>> \in {<<p, q>>, <<q, p>>} THEN Down ELSE link[x][y]
    BY DEF IInv, Shape, AbortLink, Lost
  <1>2. \A x \in Peers :
            /\ admitting'[x] \subseteq admitting[x]
            /\ x = p => q \notin admitting'[x]
            /\ x = q => p \notin admitting'[x]
    BY DEF IInv, Shape, AbortLink
  <1>3. LinksTyped'
    BY <1>1, DownTyped DEF Typed, LinksTyped
  <1>4. JoinsWait'
    BY <1>1, <1>2 DEF Typed, JoinsWait, Linked
  <1>5. InvitesTyped'
    <2>1. \A x, y \in Peers : Invited(NotVia(x, y))
      BY DEF Typed, InvitesTyped, Invited, NotVia
    <2>2. DOMAIN invited' = Peers
          /\ \A x \in Peers : invited'[x] \in {invited[x], NotVia(p, q), NotVia(q, p)}
      BY DEF AbortLink, Typed, InvitesTyped
    <2> QED BY <2>1, <2>2 DEF Typed, InvitesTyped
  <1> QED BY <1>3, <1>4, <1>5, Clearing DEF Typed, LogsTyped, VoiceTyped

\* So does a handler that rewrites one end.
LEMMA OneEndTyped ==
    ASSUME IInv, Typed, NEW p \in Peers, NEW q, NEW e,
           q \in Peers => /\ End(e) /\ e.up = link[p][q].up
                          /\ link[p][q].join => e.join,
           link' = [link EXCEPT ![p][q] = e],
           \A x \in Peers : admitting'[x] \subseteq {y \in Linked(x) : link[x][y].join}
    PROVE  LinksTyped' /\ JoinsWait'
  <1>1. \A x, y \in Peers : link'[x][y] = IF x = p /\ y = q THEN e ELSE link[x][y]
    BY DEF IInv, Shape
  <1> QED BY <1>1 DEF Typed, LinksTyped, JoinsWait, Linked

\* An offer goes to a member, beside a request to be let in.
LEMMA OfferingTyped ==
    ASSUME LogsTyped, NEW p \in Peers, NEW q \in Peers, NEW inv
    PROVE  Offering(p, q, inv) \in Seq(For(q))
  <1>1. <<>> \in Seq(For(q)) /\ \A e \in For(q) : <<e>> \in Seq(For(q))
    BY EmptySeq
  <1>2. Writable(ops[p], p, q) => Message("offer", ops[p]) \in For(q)
    BY MessageTypes, Proving DEF LogsTyped
  <1>3. Message("join", {}) \in For(q)
    BY EmptyLog, MessageTypes
  <1> QED BY <1>1, <1>2, <1>3, ConcatProperties DEF Offering

\* What is sent to one peer is sent to no other.
LEMMA OnlyTyped ==
    ASSUME NEW q, NEW msgs, q \in Peers => msgs \in Seq(For(q))
    PROVE  \A x \in Peers : ToOnly(q, msgs)[x] \in Seq(For(x)) /\ Nothing[x] \in Seq(For(x))
  BY EmptySeq DEF ToOnly, Nothing

\* Taking up an invite, or trying a seed, keeps the types.
LEMMA JoiningTyped ==
    ASSUME IInv, Typed, NEW p \in Peers, NEW inv, Invited(inv), NEW i \in DOMAIN inv.seeds,
           JoinVia(p, inv, i), UNCHANGED <<ops, mine>>
    PROVE  Typed'
  <1> DEFINE q == inv.seeds[i]
             now == [inv EXCEPT !.via = q]
             e == Offered(p, q, link[p][q])
  <1>1. InvitesTyped'
    <2>1. Invited(now)
      BY DEF Invited, Range
    <2>2. invited' = [invited EXCEPT ![p] = now]
      BY DEF JoinVia
    <2> HIDE DEF now
    <2> QED BY <2>1, <2>2 DEF Typed, InvitesTyped
  <1>2. LinksTyped' /\ JoinsWait' /\ Carries(chan')
    <2>1. \A x \in Peers : admitting'[x] \subseteq {y \in Linked(x) : link[x][y].join}
      BY DEF JoinVia, IInv, Shape, Typed, JoinsWait
    <2>2. CASE link[p][q].hello
      <3>1. link' = [link EXCEPT ![p][q] = e] /\ chan' = Sent(chan, p, ToOnly(q, Offering(p, q, now)))
        BY <2>2 DEF JoinVia
      <3>2. q \in Peers => End(e) /\ e.up = link[p][q].up /\ (link[p][q].join => e.join)
        BY <2>2, EachEnd, EndsTyped DEF WellFormed, Typed, LinksTyped
      <3>3. q \in Peers => Offering(p, q, now) \in Seq(For(q))
        BY OfferingTyped DEF Typed
      <3> HIDE DEF e, now, q
      <3> QED BY <2>1, <3>1, <3>2, <3>3, OneEndTyped, OnlyTyped, Sending DEF Typed
    <2>3. CASE ~ link[p][q].hello
      BY <2>1, <2>3 DEF JoinVia, Typed, LinksTyped, JoinsWait, Linked
    <2> QED BY <2>2, <2>3
  <1> QED BY <1>1, <1>2 DEF Typed, LogsTyped, VoiceTyped

\* An invite names its issuer first.
LEMMA SeedsTyped ==
    ASSUME IInv, NEW o, NEW p \in Peers
    PROVE  1 \in DOMAIN Seeds(o, p)
  <1> DEFINE then == {x \in AllOps : x.id \in o.past}
             S == {q \in Peers : InMembers(then, q)} \ {o.author, p}
  <1>1. IsFiniteSet(S)
    BY NodeAssumption, FS_Subset
  <1> HIDE DEF S
  <1>2. Cardinality(S) \in Nat /\ ExistsBijection(1 .. Cardinality(S), S)
    BY <1>1, FS_CardinalityType
  <1>3. SetToSeq(S) \in [1 .. Cardinality(S) -> S]
    BY <1>2 DEF SetToSeq, ExistsBijection, Bijection, Injection, IsInjective
  <1>4. SetToSeq(S) \in Seq(S \cup {o.author}) /\ <<o.author>> \in Seq(S \cup {o.author})
    BY <1>2, <1>3
  <1> DEFINE t == SetToSeq(S)
             h == <<o.author>>
  <1>5. Seeds(o, p) = h \o t
    BY DEF Seeds, S
  <1>6. Len(h) = 1
    OBVIOUS
  <1> HIDE DEF t, h
  <1>7. Len(h \o t) >= 1 /\ h \o t \in Seq(S \cup {o.author})
    BY <1>4, <1>6, ConcatProperties, LenProperties DEF t, h
  <1> QED BY <1>5, <1>7, LenProperties

\* What users do keeps the types.
LEMMA UserStepsTyped == IInv /\ Typed /\ (\E p \in Peers : UserStep(p)) => Typed'
  <1> SUFFICES ASSUME IInv, Typed, NEW p \in Peers, UserStep(p) PROVE Typed'
    OBVIOUS
  <1>1. ASSUME NEW kind \in Kinds, NEW peer \in Peers, Makes(p, kind, peer) PROVE Typed'
    <2> DEFINE log == ops[p] \cup {Signed(ops[p], kind, p, peer)}
    <2>1. SaveAndAnnounce(p, log, link[p]) /\ UNCHANGED <<invited, admitting>>
      BY <1>1 DEF Makes
    <2>2. log \in Logs
      BY <1>1, SignedLog DEF Makes, Member, InMembers, Typed, LogsTyped
    <2>3. \A q \in Peers : End(link[p][q]) /\ (link[p][q].allowed => Proves(log, q))
      BY Allowing DEF Typed, LinksTyped
    <2> HIDE DEF log
    <2>4. /\ LogsTyped' /\ LinksTyped' /\ VoiceTyped' /\ Carries(chan')
          /\ \A x, q \in Peers : LET l == IF x = p THEN link[p][q] ELSE link[x][q]
                                 IN  link'[x][q].up = l.up /\ link'[x][q].join = l.join
      BY <2>1, <2>2, <2>3, SaveTyped
    <2> QED BY <2>1, <2>4 DEF Typed, JoinsWait, Linked, InvitesTyped
  <1>2. ASSUME JoinCommunity(p) PROVE Typed'
    <2>1. PICK o \in AllOps :
             JoinVia(p, [pending |-> TRUE, seeds |-> Seeds(o, p), via |-> NoPeer], 1)
      BY <1>2 DEF JoinCommunity
    <2> DEFINE inv == [pending |-> TRUE, seeds |-> Seeds(o, p), via |-> NoPeer]
    <2>2. Invited(inv) /\ 1 \in DOMAIN inv.seeds
      BY SeedsTyped DEF Invited
    <2> HIDE DEF inv
    <2> QED BY <1>2, <2>1, <2>2, JoiningTyped DEF JoinCommunity, inv
  <1>3. ASSUME SetVoice(p) PROVE Typed'
    <2> DEFINE out == [q \in Peers |->
                  IF link[p][q].up /\ Writable(ops[p], p, q) /\ link[p][q].ready
                  THEN Presence(~ mine[p]) ELSE <<>>]
    <2>1. UNCHANGED <<ops, link, invited, admitting>> /\ mine' = [mine EXCEPT ![p] = ~ @]
          /\ chan' = Sent(chan, p, out)
      BY <1>3 DEF SetVoice
    <2>2. \A q \in Peers : out[q] \in Seq(For(q))
      BY MessageTypes, EmptyLog, EmptySeq DEF Typed, VoiceTyped
    <2> HIDE DEF out
    <2>3. Carries(chan')
      BY <2>1, <2>2, Sending DEF Typed
    <2> QED BY <2>1, <2>3 DEF Typed, LogsTyped, LinksTyped, JoinsWait, Linked, InvitesTyped, VoiceTyped
  <1>4. Owner \in Peers /\ {"edit", "leave", "delete", "invite", "revoke", "remove", "kick", "priority"} \subseteq Kinds
    BY NodeAssumption DEF Kinds
  <1> QED
    BY <1>1, <1>2, <1>3, <1>4
    DEF UserStep, Edit, Leave, Delete, Invite, Revoke, Expel, SetPriority

\* So do faults, the crash of a device among them.
LEMMA FaultsTyped == IInv /\ Typed /\ (\E p \in Peers : Fault(p)) => Typed'
  <1> SUFFICES ASSUME IInv, Typed, NEW p \in Peers, Fault(p) PROVE Typed'
    OBVIOUS
  <1>1. ASSUME NEW q \in Peers, Disconnect(p, q) PROVE Typed'
    BY <1>1, AbortTyped DEF Disconnect
  <1>2. ASSUME NEW q \in Peers, SyncStalls(p, q) PROVE Typed'
    <2> DEFINE e == [link[p][q] EXCEPT !.sync = "stale"]
    <2>1. /\ link' = [link EXCEPT ![p][q] = e]
          /\ UNCHANGED <<ops, chan, invited, admitting, mine>>
      BY <1>2 DEF SyncStalls
    <2>2. End(e) /\ e.up = link[p][q].up /\ e.join = link[p][q].join
      BY <1>2 DEF Typed, LinksTyped, End, Ends, SyncStalls, Down
    <2>3. \A x \in Peers : admitting'[x] \subseteq {y \in Linked(x) : link[x][y].join}
      BY <2>1 DEF Typed, JoinsWait
    <2> HIDE DEF e
    <2> QED BY <2>1, <2>2, <2>3, OneEndTyped DEF Typed, LogsTyped, InvitesTyped, VoiceTyped
  <1>3. ASSUME Restart(p) PROVE Typed'
    <2>1. LogsTyped' /\ VoiceTyped'
      <3>1. Published(ops[p], p) \in Logs
        BY PublishedLog DEF Typed, LogsTyped
      <3> QED BY <1>3, <3>1 DEF Restart, Typed, LogsTyped, VoiceTyped
    <2>2. \A x, y \in Peers : link'[x][y] = IF p \in {x, y} THEN Down ELSE link[x][y]
      BY <1>3 DEF Restart
    <2>3. LinksTyped' /\ JoinsWait'
      BY <1>3, <2>2, DownTyped DEF Restart, Typed, LinksTyped, JoinsWait, Linked
    <2>4. InvitesTyped'
      <3>1. \A x \in Peers : Invited(NotVia(x, p))
        BY DEF Typed, InvitesTyped, Invited, NotVia
      <3>2. Invited([invited[p] EXCEPT !.via = NoPeer, !.pending = @ /\ ops[p] = {}])
        BY DEF Typed, InvitesTyped, Invited
      <3> QED BY <1>3, <3>1, <3>2 DEF Restart, InvitesTyped
    <2>5. Carries(chan')
      <3>1. \A y \in Peers : <<>> \in Seq(For(y))
        BY EmptySeq
      <3> QED BY <1>3, <3>1 DEF Restart, Typed, Carries
    <2> QED BY <2>1, <2>3, <2>4, <2>5 DEF Typed
  <1> QED BY <1>1, <1>2, <1>3 DEF Fault

\* A handler that rewrites the end it reads from, and answers there.
LEMMA HandlerTyped ==
    ASSUME IInv, Typed, NEW p \in Peers, NEW q \in Peers, NEW e, NEW out,
           End(e), e.up = link[p][q].up, link[p][q].join => e.join,
           link' = [link EXCEPT ![p][q] = e],
           chan[q][p] # <<>>, out \in Seq(For(q)),
           chan' = Sent(Taken(p, q), p, ToOnly(q, out)),
           UNCHANGED <<ops, invited, mine>>,
           \A x \in Peers : admitting'[x] \subseteq {y \in Linked(x) : link[x][y].join}
    PROVE  Typed'
  <1>1. Carries(chan')
    <2>1. \A x \in Peers : ToOnly(q, out)[x] \in Seq(For(x))
      BY OnlyTyped
    <2> QED BY <2>1, IncomingTyped, Sending DEF Typed
  <1> QED BY <1>1, OneEndTyped DEF Typed, LogsTyped, InvitesTyped, VoiceTyped

\* The end of a validation keeps the types: whom the merged log is announced to,
\* and the profile published on top of it, are named in it.
LEMMA MergingTyped ==
    ASSUME IInv, Typed, NEW p \in Peers, NEW q \in Peers, MergeFinishes(p, q)
    PROVE  Typed'
  <1> DEFINE log   == ops[p] \cup link[p][q].merge.snapshot
             final == Published(log, p)
             l     == [link[p][q] EXCEPT !.merge = NoMerge]
             end   == IF Writable(log, p, q) THEN Synced(l) ELSE Withdrawn(l)
             sides  == [link[p] EXCEPT ![q] = end]
             changed == News(p, log)
             ends2 == IF changed THEN [x \in Peers |-> Announced(log, p, x, sides[x])] ELSE sides
             ends3 == IF final # log
                      THEN [x \in Peers |-> Announced(final, p, x, ends2[x])] ELSE ends2
             inCall == mine[p] /\ Member(log, p)
             greeting == IF Writable(log, p, q)
                         THEN ToOnly(q, <<Message("synced", log)>> \o Presence(inCall)) ELSE Nothing
             out == [x \in Peers |->
                  greeting[x]
                  \o (IF changed THEN Announcement(log, p, x, sides[x]) ELSE <<>>)
                  \o (IF final # log THEN Announcement(final, p, x, ends2[x]) ELSE <<>>)]
  <1>1. CASE Refused(p, q, log)
    BY <1>1, AbortTyped DEF MergeFinishes
  <1>2. CASE ~ Refused(p, q, log)
    <2>1. /\ link' = [link EXCEPT ![p] = ends3] /\ UNCHANGED admitting
          /\ IF final # ops[p] THEN Save(p, final) ELSE UNCHANGED <<ops, mine, presence>>
          /\ invited' = [invited EXCEPT ![p] =
                           IF @.pending /\ Member(log, p)
                           THEN [@ EXCEPT !.pending = FALSE, !.via = NoPeer] ELSE @]
      BY <1>2 DEF MergeFinishes
    <2>3. chan' = Sent(chan, p, out)
      BY <1>2 DEF MergeFinishes
    <2>4. log \in Logs
      BY MergedLog DEF Typed, LogsTyped, LinksTyped, End, Ends, Validations
    <2>5. final \in Logs /\ log \subseteq final
      BY <2>4, PublishedLog DEF Typed
    <2>6. ops[p] \subseteq log
      OBVIOUS
    <2> HIDE DEF final
    <2>7. LogsTyped' /\ VoiceTyped' /\ InvitesTyped'
      <3>1. LogsTyped'
        BY <2>1, <2>5 DEF Save, Typed, LogsTyped
      <3>2. VoiceTyped'
        BY <2>1 DEF Save, Typed, VoiceTyped, Member, Deleted, InMembers
      <3>3. InvitesTyped'
        BY <2>1 DEF Typed, InvitesTyped, Invited
      <3> QED BY <3>1, <3>2, <3>3
    <2>8. End(l) /\ l.up /\ l.join = link[p][q].join
      <3>1. link[p][q].up /\ link[p][q] \in Ends
        BY EachEnd DEF MergeFinishes, WellFormed, Typed, LinksTyped, End
      <3> QED BY <3>1, EmptyLog DEF End, Ends, NoMerge, Validations
    <2> HIDE DEF log, l
    <2>9. /\ End(end) /\ end.up = link[p][q].up /\ end.join = link[p][q].join
          /\ end.allowed => Writable(log, p, q)
      <3>1. ~ Writable(log, p, q) => ~ end.allowed
        BY <2>8 DEF Withdrawn, End, Ends
      <3>2. link[p][q].up
        BY EachEnd DEF MergeFinishes, WellFormed
      <3>3. CASE Writable(log, p, q)
        BY <2>8, <3>2, <3>3, EndsTyped
      <3>4. CASE ~ Writable(log, p, q)
        BY <2>8, <3>1, <3>2, <3>4, EndsTyped
      <3> QED BY <3>3, <3>4
    <2> HIDE DEF end
    <2>10. DOMAIN sides = Peers /\ \A x \in Peers : sides[x] = IF x = q THEN end ELSE link[p][x]
      BY DEF IInv, Shape
    <2> HIDE DEF sides
    <2>11. \A x \in Peers : /\ End(sides[x]) /\ sides[x].up = link[p][x].up
                            /\ sides[x].join = link[p][x].join
                            /\ sides[x].allowed => Proves(log, x)
      BY <2>6, <2>9, <2>10, Allowing, Proving DEF Typed, LinksTyped
    <2>12. \A x \in Peers : /\ End(ends2[x]) /\ ends2[x].up = link[p][x].up
                            /\ ends2[x].join = link[p][x].join
                            /\ ends2[x].allowed => Proves(log, x)
      <3>1. CASE changed
        <4>1. \A x \in Peers : ends2[x] = Announced(log, p, x, sides[x])
          BY <3>1
        <4> HIDE DEF ends2
        <4> QED BY <4>1, <2>11, EndsTyped, Proving
      <3>2. CASE ~ changed
        BY <3>2, <2>11
      <3> QED BY <3>1, <3>2
    <2> HIDE DEF ends2
    <2>13. DOMAIN ends3 = Peers /\ \A x \in Peers :
              End(ends3[x]) /\ ends3[x].up = link[p][x].up /\ ends3[x].join = link[p][x].join
      <3>1. CASE final # log
        <4>1. DOMAIN ends3 = Peers /\ \A x \in Peers : ends3[x] = Announced(final, p, x, ends2[x])
          BY <3>1
        <4> HIDE DEF ends3
        <4> QED BY <4>1, <2>12, EndsTyped
      <3>2. CASE final = log
        BY <3>2, <2>12, <2>10 DEF ends2
      <3> QED BY <3>1, <3>2
    <2> HIDE DEF ends3
    <2>14. LinksTyped' /\ JoinsWait'
      <3>1. \A x, y \in Peers : link'[x][y] = IF x = p THEN ends3[y] ELSE link[x][y]
        BY <2>1 DEF IInv, Shape
      <3> QED BY <2>1, <2>13, <3>1 DEF Typed, LinksTyped, JoinsWait, Linked
    <2>15. \A x \in Peers : out[x] \in Seq(For(x))
      <3> SUFFICES ASSUME NEW x \in Peers PROVE out[x] \in Seq(For(x))
        OBVIOUS
      <3>1. greeting[x] \in Seq(For(x))
        <4>1. inCall \in BOOLEAN
          BY DEF Typed, VoiceTyped, Member, InMembers, Deleted
        <4>2. Writable(log, p, q) => <<Message("synced", log)>> \o Presence(inCall) \in Seq(For(q))
          <5> SUFFICES ASSUME Writable(log, p, q)
                       PROVE  <<Message("synced", log)>> \o Presence(inCall) \in Seq(For(q))
            OBVIOUS
          <5>1. Message("synced", log) \in For(q)
            BY <2>4, MessageTypes, Proving
          <5>2. <<Message("synced", log)>> \in Seq(For(q))
            BY <5>1
          <5>3. Presence(inCall) \in Seq(For(q))
            <6> HIDE DEF inCall
            <6> QED BY <2>4, <4>1, MessageTypes
          <5> QED BY <5>2, <5>3, ConcatProperties
        <4> DEFINE hail == <<Message("synced", log)>> \o Presence(inCall)
        <4>3. \/ Writable(log, p, q) /\ greeting = ToOnly(q, hail)
              \/ greeting = Nothing
          OBVIOUS
        <4> HIDE DEF hail, greeting
        <4>4. Writable(log, p, q) => ToOnly(q, hail)[x] \in Seq(For(x))
          BY <4>2, OnlyTyped DEF hail
        <4>5. Nothing[x] \in Seq(For(x))
          BY EmptySeq DEF Nothing
        <4> QED BY <4>3, <4>4, <4>5
      <3> DEFINE first == IF changed THEN Announcement(log, p, x, sides[x]) ELSE <<>>
                 then == IF final # log THEN Announcement(final, p, x, ends2[x]) ELSE <<>>
      <3>2. first \in Seq(For(x))
        BY <2>4, <2>11, AnnouncementTyped, EmptySeq
      <3>3. then \in Seq(For(x))
        BY <2>5, <2>12, AnnouncementTyped, EmptySeq, Proving
      <3>4. out[x] = greeting[x] \o first \o then
        OBVIOUS
      <3> HIDE DEF greeting, first, then, out
      <3> QED BY <3>1, <3>2, <3>3, <3>4, ConcatProperties
    <2> HIDE DEF out
    <2>16. Carries(chan')
      BY <2>3, <2>15, Sending DEF Typed
    <2> QED BY <2>7, <2>14, <2>16 DEF Typed
  <1> QED BY <1>1, <1>2

\* So does everything a device does with one message, or with a snapshot.
LEMMA HandlersTyped ==
    ASSUME IInv, Typed, NEW p \in Peers, NEW q \in Peers, Handle(p, q)
    PROVE  Typed'
  <1> DEFINE l == link[p][q]
  <1>a. End(l) /\ l \in Ends
    BY DEF Typed, LinksTyped, End
  <1>b. \A x \in Peers : admitting[x] \subseteq {y \in Linked(x) : link[x][y].join}
    BY DEF Typed, JoinsWait
  <1>c. <<>> \in Seq(For(q)) /\ \A m \in For(q) : <<m>> \in Seq(For(q))
    BY EmptySeq
  <1>d. ops[p] \in Logs
    BY DEF Typed, LogsTyped
  <1>e. Sent(Taken(p, q), p, Nothing) = Sent(Taken(p, q), p, ToOnly(q, <<>>))
    BY DEF Nothing, ToOnly
  <1>f. Message("state-request", {}) \in For(q)
    BY EmptyLog, MessageTypes
  <1>g. /\ Writable(ops[p], p, q) => /\ Message("state", ops[p]) \in For(q)
                                     /\ Message("synced", ops[p]) \in For(q)
        /\ TellsFinal(ops[p], p, q) => Message("state", ops[p]) \in For(q)
    BY <1>d, MessageTypes, Proving
  <1>h. Presence(mine[p]) \in Seq(For(q))
    BY EmptyLog, MessageTypes DEF Typed, VoiceTyped
  <1> HIDE DEF l
  <1>1. CASE HandleHello(p, q)
    <2> DEFINE e == Offered(p, q, [l EXCEPT !.hello = TRUE])
    <2>1. /\ link' = [link EXCEPT ![p][q] = e] /\ chan[q][p] # <<>> /\ l.up
          /\ chan' = Sent(Taken(p, q), p, ToOnly(q, Offering(p, q, invited[p])))
          /\ UNCHANGED <<ops, invited, mine, admitting>>
      BY <1>1 DEF HandleHello, Delivers, l
    <2>2. End(e) /\ e.up = l.up /\ (l.join => e.join)
      <3>1. LET h == [l EXCEPT !.hello = TRUE] IN End(h) /\ h.up /\ h.join = l.join
        BY <1>a, <2>1 DEF End, Ends
      <3> QED BY <2>1, <3>1, EndsTyped
    <2>3. Offering(p, q, invited[p]) \in Seq(For(q))
      BY OfferingTyped DEF Typed
    <2> HIDE DEF e
    <2> QED BY <1>b, <2>1, <2>2, <2>3, HandlerTyped DEF l
  <1>2. CASE HandleJoin(p, q)
    <2> DEFINE e == [l EXCEPT !.join = TRUE]
    <2>1. /\ link' = [link EXCEPT ![p][q] = e] /\ chan' = Taken(p, q)
          /\ chan[q][p] # <<>> /\ l.up
          /\ admitting' = [admitting EXCEPT ![p] = {x \in Linked(p) : link[p][x].join} \cup {q}]
          /\ UNCHANGED <<ops, invited, mine>>
      BY <1>2 DEF HandleJoin, Delivers, l
    <2>2. End(e) /\ e.up /\ e.join
      BY <1>a, <2>1 DEF End, Ends
    <2> HIDE DEF e
    <2>3. \A x, y \in Peers : link'[x][y] = IF x = p /\ y = q THEN e ELSE link[x][y]
      BY <2>1 DEF IInv, Shape
    <2>4. LinksTyped'
      BY <2>2, <2>3 DEF Typed, LinksTyped
    <2>5. JoinsWait'
      <3>1. \A x \in Peers : \A y \in admitting'[x] : y \in Peers
        BY <1>b, <2>1 DEF Linked, IInv, Shape
      <3> QED BY <1>b, <2>1, <2>2, <2>3, <3>1 DEF JoinsWait, Linked, IInv, Shape, l
    <2> QED BY <2>1, <2>4, <2>5, IncomingTyped DEF Typed, LogsTyped, InvitesTyped, VoiceTyped
  <1>3. CASE HandleRejected(p, q)
    <2>1. Carries(chan')
      BY <1>3, IncomingTyped DEF HandleRejected, Delivers, Typed
    <2>2. InvitesTyped'
      BY <1>3 DEF HandleRejected, Typed, InvitesTyped, Invited
    <2> QED BY <1>3, <2>1, <2>2 DEF HandleRejected, Typed, LogsTyped, VoiceTyped, LinksTyped, JoinsWait, Linked
  <1>4. CASE HandleRedirect(p, q)
    <2>1. CASE invited[p].pending /\ Incoming(p, q).peer = p
      BY <1>4, <2>1, AbortTyped DEF HandleRedirect
    <2>2. CASE ~ (invited[p].pending /\ Incoming(p, q).peer = p)
      <3>1. Carries(chan')
        BY <1>4, <2>2, IncomingTyped DEF HandleRedirect, Delivers, Typed
      <3> DEFINE inv == IF invited[p].pending
                        THEN [invited[p] EXCEPT !.seeds = Redirected(invited[p].seeds,
                                                                   Incoming(p, q).peer),
                                                !.via = NoPeer]
                        ELSE invited[p]
      <3>2. InvitesTyped'
        <4>1. invited' = [invited EXCEPT ![p] = inv]
          BY <1>4, <2>2 DEF HandleRedirect
        <4>2. Invited(inv)
          BY DEF Typed, InvitesTyped, Invited
        <4> HIDE DEF inv
        <4> QED BY <4>1, <4>2 DEF Typed, InvitesTyped
      <3> QED BY <1>4, <2>2, <3>1, <3>2
              DEF HandleRedirect, Typed, LogsTyped, VoiceTyped, LinksTyped, JoinsWait, Linked
    <2> QED BY <2>1, <2>2
  <1>5. CASE HandleOffer(p, q)
    <2> DEFINE match == Incoming(p, q).log = ops[p]
               reply ==
                   IF Writable(ops[p], p, q)
                   THEN IF match THEN <<Message("synced", ops[p])>> \o Presence(mine[p])
                        ELSE <<Message("state", ops[p])>>
                   ELSE IF TellsFinal(ops[p], p, q) THEN <<Message("state", ops[p])>>
                   ELSE IF Member(ops[p], p) THEN <<Message("state-request", {})>>
                   ELSE <<>>
               e == IF ~ Writable(ops[p], p, q)
                    THEN IF TellsFinal(ops[p], p, q)
                         THEN [l EXCEPT !.allowed = FALSE, !.sync = "none"] ELSE l
                    ELSE IF match THEN Synced(l)
                    ELSE [l EXCEPT !.allowed = TRUE, !.sync = "fresh"]
    <2>1. /\ link' = [link EXCEPT ![p][q] = e] /\ chan[q][p] # <<>> /\ l.up
          /\ chan' = Sent(Taken(p, q), p, ToOnly(q, reply))
          /\ UNCHANGED <<ops, invited, mine, admitting>>
      BY <1>5 DEF HandleOffer, Delivers, l
    <2>2. End(e) /\ e.up = l.up /\ (l.join => e.join)
      BY <1>a, <2>1 DEF End, Ends, Synced
    <2>3. reply \in Seq(For(q))
      BY <1>c, <1>f, <1>g, <1>h, ConcatProperties
    <2> HIDE DEF e, reply
    <2> QED BY <1>b, <2>1, <2>2, <2>3, HandlerTyped DEF l
  <1>6. CASE HandleStateRequest(p, q)
    <2>1. CASE Writable(ops[p], p, q) /\ l.allowed
      <3> DEFINE e == [l EXCEPT !.sync = "fresh"]
                 reply == <<Message("state", ops[p])>>
      <3>1. /\ link' = [link EXCEPT ![p][q].sync = "fresh"] /\ chan[q][p] # <<>> /\ l.up
            /\ chan' = Sent(Taken(p, q), p, ToOnly(q, reply))
            /\ UNCHANGED <<ops, invited, mine, admitting>>
        BY <1>6, <2>1 DEF HandleStateRequest, Delivers, l
      <3>2. End(e) /\ e.up = l.up /\ (l.join => e.join)
        BY <1>a, <3>1 DEF End, Ends
      <3>3. reply \in Seq(For(q))
        BY <1>c, <1>g, <2>1
      <3>4. link' = [link EXCEPT ![p][q] = e]
        BY <3>1 DEF l
      <3> HIDE DEF e, reply
      <3> QED BY <1>b, <3>1, <3>2, <3>3, <3>4, HandlerTyped DEF l
    <2>2. CASE ~ (Writable(ops[p], p, q) /\ l.allowed)
      <3>1. /\ UNCHANGED <<ops, link, invited, mine, admitting>> /\ chan[q][p] # <<>>
            /\ chan' = Sent(Taken(p, q), p, Nothing)
        BY <1>6, <2>2 DEF HandleStateRequest, Delivers, l
      <3>2. Carries(chan')
        <4>1. \A x \in Peers : Nothing[x] \in Seq(For(x))
          BY EmptySeq DEF Nothing
        <4> QED BY <3>1, <4>1, IncomingTyped, Sending DEF Typed
      <3> QED BY <3>1, <3>2 DEF Typed, LogsTyped, VoiceTyped, LinksTyped, JoinsWait, Linked, InvitesTyped
    <2> QED BY <2>1, <2>2
  <1>7. CASE HandleState(p, q)
    <2>1. CASE ops[p] = {} /\ ~ invited[p].pending
      BY <1>7, <2>1, AbortTyped DEF HandleState
    <2>2. CASE ~ (ops[p] = {} /\ ~ invited[p].pending)
      <3> DEFINE m == [busy |-> TRUE, base |-> ops[p], snapshot |-> Incoming(p, q).log]
                 e == [l EXCEPT !.sync = "fresh", !.merge = m]
      <3>1. /\ UNCHANGED <<ops, mine, invited, admitting>> /\ chan' = Taken(p, q)
            /\ chan[q][p] # <<>> /\ l.up /\ Incoming(p, q).type = "state"
        BY <1>7, <2>2 DEF HandleState, Delivers, Incoming, l
      <3>2. link' = [link EXCEPT ![p][q].sync = "fresh", ![p][q].merge = m]
        BY <1>7, <2>2 DEF HandleState
      <3>3. link' = [link EXCEPT ![p][q] = e]
        BY <3>2 DEF IInv, Shape, l
      <3>4. Incoming(p, q).log \in Logs /\ Carries(chan')
        BY <3>1, IncomingTyped DEF Typed
      <3>5. m \in Validations
        BY <1>d, <3>4 DEF Validations
      <3> HIDE DEF m
      <3>6. End(e) /\ e.up = l.up /\ (l.join => e.join)
        BY <1>a, <3>1, <3>5 DEF End, Ends
      <3> HIDE DEF e
      <3> QED BY <1>b, <3>1, <3>3, <3>4, <3>6, OneEndTyped
              DEF l, Typed, LogsTyped, VoiceTyped, InvitesTyped
    <2> QED BY <2>1, <2>2
  <1>8. CASE HandleSynced(p, q)
    <2> DEFINE match == Writable(ops[p], p, q) /\ Incoming(p, q).log = ops[p]
               e == Synced(l)
               out == IF match THEN ToOnly(q, Presence(mine[p])) ELSE Nothing
    <2>1. /\ chan[q][p] # <<>> /\ l.up /\ chan' = Sent(Taken(p, q), p, out)
          /\ link' = IF match THEN [link EXCEPT ![p][q] = e] ELSE link
          /\ UNCHANGED <<ops, invited, mine, admitting>>
      BY <1>8 DEF HandleSynced, Delivers, l
    <2>2. End(e) /\ e.up = l.up /\ (l.join => e.join)
      BY <1>a, <2>1, EndsTyped
    <2>3. \A x \in Peers : out[x] \in Seq(For(x))
      BY <1>h, OnlyTyped
    <2> HIDE DEF out, e
    <2>4. Carries(chan')
      BY <2>1, <2>3, IncomingTyped, Sending DEF Typed
    <2>5. LinksTyped' /\ JoinsWait'
      <3>1. CASE match
        BY <1>b, <2>1, <2>2, <3>1, OneEndTyped DEF l
      <3>2. CASE ~ match
        BY <2>1, <3>2 DEF Typed, LinksTyped, JoinsWait, Linked
      <3> QED BY <3>1, <3>2
    <2> QED BY <2>1, <2>4, <2>5 DEF Typed, LogsTyped, VoiceTyped, InvitesTyped
  <1>9. CASE HandlePresence(p, q)
    <2>1. Carries(chan')
      BY <1>9, IncomingTyped DEF HandlePresence, Delivers, Typed
    <2> QED BY <1>9, <2>1 DEF HandlePresence, Typed, LogsTyped, VoiceTyped, LinksTyped, JoinsWait,
                              Linked, InvitesTyped
  <1>10. CASE HandleEnd(p, q)
    BY <1>10, AbortTyped DEF HandleEnd
  <1>11. CASE MergeAgain(p, q)
    <2> DEFINE e == [l EXCEPT !.merge = [l.merge EXCEPT !.base = ops[p]]]
    <2>1. link' = [link EXCEPT ![p][q].merge.base = ops[p]] /\ l.merge.busy
          /\ UNCHANGED <<ops, chan, invited, mine, admitting>>
      BY <1>11 DEF MergeAgain, l
    <2>2. link' = [link EXCEPT ![p][q] = e]
      BY <2>1 DEF l
    <2>3. l.up
      BY <2>1, EachEnd DEF WellFormed, l
    <2>4. [l.merge EXCEPT !.base = ops[p]] \in Validations
      BY <1>a, <1>d DEF Ends, Validations
    <2>5. End(e) /\ e.up = l.up /\ (l.join => e.join)
      BY <1>a, <2>3, <2>4 DEF End, Ends
    <2> HIDE DEF e
    <2>6. LinksTyped' /\ JoinsWait'
      <3>1. \A x \in Peers : admitting'[x] \subseteq {y \in Linked(x) : link[x][y].join}
        BY <1>b, <2>1
      <3> QED BY <2>2, <2>5, <3>1, OneEndTyped DEF l
    <2> QED BY <2>1, <2>6
            DEF Carries, Typed, LogsTyped, VoiceTyped, InvitesTyped
  <1>12. CASE MergeFinishes(p, q)
    BY <1>12, MergingTyped
  <1> QED
    BY <1>1, <1>2, <1>3, <1>4, <1>5, <1>6, <1>7, <1>8, <1>9, <1>10, <1>11, <1>12 DEF Handle

\* So does the answer to a join request that is not granted,
LEMMA AnsweringTyped ==
    ASSUME IInv, Typed, NEW p \in Peers, NEW q \in Peers, NEW answer \in For(q),
           Answer(p, q, answer), admitting' = [admitting EXCEPT ![p] = @ \ {q}]
    PROVE  Typed'
  <1> DEFINE e == IF link[p][q].allowed THEN [link[p][q] EXCEPT !.join = FALSE] ELSE Down
             out == IF link[p][q].allowed THEN <<answer>> ELSE <<answer, Message("end", {})>>
  <1>1. /\ link' = [link EXCEPT ![p][q] = e] /\ chan' = Sent(chan, p, ToOnly(q, out))
        /\ UNCHANGED <<ops, invited, mine>>
    BY DEF Answer
  <1>2. End(e)
    <2>1. link[p][q] \in Ends /\ (~ link[p][q].up => link[p][q] = Down)
      BY DEF Typed, LinksTyped, End
    <2>2. link[p][q].allowed => link[p][q].up
      BY EachEnd DEF WellFormed
    <2> QED BY <2>1, <2>2, DownTyped DEF End, Ends
  <1>3. out \in Seq(For(q))
    <2>1. Message("end", {}) \in For(q)
      BY EmptyLog, MessageTypes
    <2> DEFINE last == Message("end", {})
    <2> HIDE DEF last
    <2>2. <<answer>> \in Seq(For(q)) /\ <<answer, last>> \in Seq(For(q))
      BY <2>1 DEF last
    <2> QED BY <2>2 DEF last
  <1> HIDE DEF e, out
  <1>4. Carries(chan')
    BY <1>1, <1>3, OnlyTyped, Sending DEF Typed
  <1>5. LinksTyped' /\ JoinsWait'
    <2>1. \A x, y \in Peers : link'[x][y] = IF x = p /\ y = q THEN e ELSE link[x][y]
      BY <1>1 DEF IInv, Shape
    <2>2. \A x \in Peers : admitting'[x] \subseteq admitting[x] /\ q \notin admitting'[p]
      BY DEF IInv, Shape
    <2> QED BY <1>2, <2>1, <2>2 DEF Typed, LinksTyped, JoinsWait, Linked
  <1> QED BY <1>1, <1>4, <1>5 DEF Typed, LogsTyped, VoiceTyped, InvitesTyped

\* and an iteration of processAdmissions: a peer gets the log that admits him.
LEMMA AdmittingTyped ==
    ASSUME IInv, Typed, NEW p \in Peers, NEW q \in Peers, AdmitNext(p, q)
    PROVE  Typed'
  <1>1. admitting' = [admitting EXCEPT ![p] = @ \ {q}] /\ link[p][q].up
    BY DEF AdmitNext, IInv, VisitsLinks, Linked
  <1>2. \A x \in Peers : admitting'[x] \subseteq admitting[x] /\ q \notin admitting'[p]
    BY <1>1 DEF IInv, Shape
  <1>3. CASE Synchronizing(p)
    BY <1>2, <1>3 DEF AdmitNext, Typed, LogsTyped, VoiceTyped, LinksTyped, JoinsWait, Linked,
                      InvitesTyped
  <1>4. CASE Answer(p, q, Message("rejected", {}))
    BY <1>1, <1>4, AnsweringTyped, MessageTypes, EmptyLog
  <1>5. CASE Answer(p, q, Redirect(Host(ops[p], Online(p)))) /\ Member(ops[p], p)
    <2>1. Host(ops[p], Online(p)) \in Peers \cup {NoPeer}
      <3>1. Online(p) \subseteq Peers
        BY DEF Online, Linked
      <3> QED BY <3>1, NodeAssumption DEF Host
    <2>2. Redirect(Host(ops[p], Online(p))) \in For(q)
      BY <2>1, MessageTypes, EmptyLog
    <2> QED BY <1>1, <1>5, <2>2, AnsweringTyped
  <1> DEFINE sides == [link[p] EXCEPT ![q].join = FALSE, ![q].allowed = TRUE]
             log  == Admitted(p, q)
  <1>6. CASE SaveAndAnnounce(p, log, sides) /\ UNCHANGED invited /\ Member(ops[p], p)
    <2>1. log \in Logs
      BY <1>6, SignedLog DEF Admitted, Member, InMembers, Typed, LogsTyped, Kinds
    <2>2. Proves(log, q) /\ ops[p] \subseteq log
      <3>1. CASE Member(ops[p], q)
        BY <3>1 DEF Admitted, Member, InMembers, Proves
      <3>2. CASE ~ Member(ops[p], q)
        <4> DEFINE o == Signed(ops[p], "admit", p, q)
        <4>1. o.kind = "admit" /\ o.peer = q
          BY DEF Signed, Operation
        <4>2. log = ops[p] \cup {o}
          BY <3>2 DEF Admitted
        <4> HIDE DEF o, log
        <4> QED BY <4>1, <4>2 DEF Proves
      <3> QED BY <3>1, <3>2
    <2>3. /\ \A x \in Peers : x # q => sides[x] = link[p][x]
          /\ sides[q] = [[link[p][q] EXCEPT !.join = FALSE] EXCEPT !.allowed = TRUE]
      BY DEF IInv, Shape
    <2> HIDE DEF sides, log
    <2>4. End(sides[q]) /\ sides[q].up
      <3>1. link[p][q] \in Ends
        BY DEF Typed, LinksTyped, End
      <3> QED BY <1>1, <2>3, <3>1 DEF End, Ends
    <2>5. \A x \in Peers : End(sides[x]) /\ (sides[x].allowed => Proves(log, x))
      BY <2>2, <2>3, <2>4, Allowing DEF Typed, LinksTyped
    <2>6. /\ LogsTyped' /\ LinksTyped' /\ VoiceTyped' /\ Carries(chan')
          /\ \A x, y \in Peers : LET l == IF x = p THEN sides[y] ELSE link[x][y]
                                 IN  link'[x][y].up = l.up /\ link'[x][y].join = l.join
      BY <1>6, <2>1, <2>5, SaveTyped
    <2>7. JoinsWait'
      BY <1>2, <2>3, <2>6 DEF Typed, JoinsWait, Linked
    <2> QED BY <1>6, <2>6, <2>7 DEF Typed, InvitesTyped
  <1> HIDE DEF sides, log
  <1> QED BY <1>3, <1>4, <1>5, <1>6 DEF AdmitNext, sides, log

\* What a device does by itself keeps the types.
LEMMA OwnStepsTyped == ASSUME IInv, Typed, NEW p \in Peers, Own(p) PROVE Typed'
  <1>1. CASE Recovered(p)
    BY <1>1 DEF Recovered, Typed, LogsTyped, VoiceTyped, LinksTyped, JoinsWait, Linked, InvitesTyped
  <1>2. CASE TickAdmissions(p)
    BY <1>2 DEF TickAdmissions, IInv, Shape, Typed, LogsTyped, VoiceTyped, LinksTyped, JoinsWait,
                Linked, InvitesTyped
  <1>3. ASSUME NEW q \in Peers, AdmitNext(p, q) PROVE Typed'
    BY <1>3, AdmittingTyped
  <1>4. ASSUME NEW q \in Peers, TickUseless(p, q) PROVE Typed'
    BY <1>4, AbortTyped DEF TickUseless
  <1>5. ASSUME NEW i, TickJoin(p, i) PROVE Typed'
    <2> DEFINE inv == invited[p]
               next == IF inv.via = NoPeer THEN inv
                       ELSE [inv EXCEPT !.seeds = Rotated(@), !.via = NoPeer]
    <2>1. JoinVia(p, next, i) /\ i \in DOMAIN next.seeds /\ UNCHANGED <<ops, mine>>
      BY <1>5 DEF TickJoin
    <2>2. Invited(next)
      BY DEF Typed, InvitesTyped, Invited
    <2> HIDE DEF next
    <2> QED BY <2>1, <2>2, JoiningTyped
  <1> QED BY <1>1, <1>2, <1>3, <1>4, <1>5 DEF Own

\* A new connection carries two greetings.
LEMMA ConnectingTyped ==
    ASSUME IInv, Typed, NEW p \in Peers, NEW q \in Peers, Connect(p, q)
    PROVE  Typed'
  <1>1. \A x, y \in Peers :
            link'[x][y] = IF <<x, y>> \in {<<p, q>>, <<q, p>>} THEN Fresh ELSE link[x][y]
    BY DEF Connect, IInv, Shape
  <1>2. UNCHANGED <<ops, invited, mine, admitting>> /\ ~ link[p][q].up /\ ~ link[q][p].up
    BY DEF Connect
  <1>3. LinksTyped'
    BY <1>1, DownTyped DEF Typed, LinksTyped
  <1>4. JoinsWait'
    BY <1>1, <1>2 DEF Typed, JoinsWait, Linked
  <1>5. Carries(chan')
    <2> DEFINE hello == Message("hello", {})
    <2>1. \A y \in Peers : hello \in For(y)
      BY EmptyLog, MessageTypes
    <2> HIDE DEF hello
    <2>2. \A y \in Peers : <<hello>> \in Seq(For(y))
      BY <2>1
    <2>3. chan' = [chan EXCEPT ![p][q] = <<hello>>, ![q][p] = <<hello>>]
      BY DEF Connect, hello
    <2>4. \A x, y \in Peers : chan'[x][y] \in {chan[x][y], <<hello>>}
      BY <2>3 DEF Typed, Carries
    <2> QED BY <2>2, <2>3, <2>4 DEF Typed, Carries
  <1> QED BY <1>2, <1>3, <1>4, <1>5 DEF Typed, LogsTyped, VoiceTyped, InvitesTyped

\* Every step keeps the types.
LEMMA StepsTyped == IInv /\ Typed /\ [Next]_vars => Typed'
  <1> SUFFICES ASSUME IInv, Typed, [Next]_vars PROVE Typed'
    OBVIOUS
  <1>1. CASE Next
    BY <1>1, UserStepsTyped, FaultsTyped, OwnStepsTyped, ConnectingTyped, HandlersTyped DEF Next
  <1>2. CASE UNCHANGED vars
    BY <1>2 DEF vars, Typed, LogsTyped, VoiceTyped, LinksTyped, JoinsWait, Linked, InvitesTyped, Carries
  <1> QED BY <1>1, <1>2

\* The program starts with them.
LEMMA InitTyped == Init => Typed
  <1> SUFFICES ASSUME Init PROVE Typed
    OBVIOUS
  <1>1. LogsTyped /\ VoiceTyped
    BY EmptyLog, CreateLog DEF Init, LogsTyped, VoiceTyped
  <1>2. LinksTyped /\ JoinsWait /\ InvitesTyped
    BY DownTyped DEF Init, LinksTyped, JoinsWait, InvitesTyped, Invited
  <1>3. Carries(chan)
    BY EmptySeq DEF Init, Carries, Nothing
  <1> QED BY <1>1, <1>2, <1>3 DEF Typed

\* The two invariants hold together; the types rest on what links grant.
LEMMA TypedInv == Spec => [](IInv /\ Typed)
  BY Initially, InitTyped, Inductive, StepsTyped, PTL DEF Spec

\* Node::models_, peers_, joining_ and admissions: a saved log is empty or begins
\* with the creation, a link that is down has kept nothing, the loop of
\* processAdmissions only visits links that wait for it, and the seed a device
\* joins by is one of the invite it holds.
THEOREM NodeTypesThm == Spec => []TypeOK
  <1>1. Typed => TypeOK
    <2> SUFFICES ASSUME Typed PROVE TypeOK
      OBVIOUS
    <2>1. \A p \in Peers : ops[p] = {} \/ Create \in ops[p]
      BY DEF Typed, LogsTyped, Logs
    <2>2. \A p, q \in Peers : /\ DOMAIN link[p][q] = DOMAIN Down
                              /\ ~ link[p][q].up => link[p][q] = Down
                              /\ link[p][q].sync \in {"none", "fresh", "stale"}
      BY DEF Typed, LinksTyped, End, Ends, Down
    <2> QED BY <2>1, <2>2 DEF Typed, JoinsWait, InvitesTyped, Invited, TypeOK
  <1> QED BY <1>1, TypedInv, PTL

\* Node::broadcastState, offers, state and synced: no snapshot is ever on its way
\* to a peer whom it does not name as admitted, whatever is edited, merged, lost
\* or left meanwhile, and wherever a device crashes.
THEOREM SnapshotsStayInsideThm == Spec => []SnapshotsStayInside
  <1>1. Typed => SnapshotsStayInside
    <2> SUFFICES ASSUME Typed, NEW p \in Peers, NEW q \in Peers, NEW n \in DOMAIN chan[p][q],
                        chan[p][q][n].type \in {"state", "offer", "synced"}
                 PROVE  Proves(chan[p][q][n].log, q)
      BY DEF SnapshotsStayInside, Proves
    <2>1. chan[p][q][n] \in For(q)
      BY LenProperties DEF Typed, Carries
    <2> QED BY <2>1 DEF For, Messages, Snapshots
  <1> QED BY <1>1, TypedInv, PTL

-----------------------------------------------------------------------------
(***************************************************************************)
(* The registry of a pair implements OneLink, for any number of links that *)
(* may be under way and any number of faults.  The invariant is the one    *)
(* that the run checks: an end of a link is registered exactly while it is *)
(* encrypted (Node::encrypted and the disconnected handler of makeLink).   *)
(***************************************************************************)
\* Each device is the other's other, and a link has one dialler.
LEMMA TwoDevices ==
    ASSUME NEW p \in Pair
    PROVE  Other(p) \in Pair /\ Other(p) # p /\ Pair = {p, Other(p)}
BY RegistryAssumption DEF Pair, Other

\* What a device knows of its link changes only by its own handlers.
LEMMA RegistryTypesStep ==
    ASSUME RegistryTypeOK, [RegistryNext]_registryVars
    PROVE  RegistryTypeOK'
<1> USE DEF RegistryTypeOK
<1>0. NoLink \notin Links
  BY RegistryAssumption DEF Links, Pair
<1>1. ASSUME NEW p \in Pair, DialPeer(p)
      PROVE  RegistryTypeOK'
  BY <1>0, <1>1 DEF DialPeer, Free, Alive, Gone, Handshake, Encrypted
<1>2. ASSUME NEW p \in Pair, RestartDevice(p)
      PROVE  RegistryTypeOK'
  BY <1>0, <1>2, RegistryAssumption DEF RestartDevice, Gone, Handshake, Encrypted
<1>3. ASSUME NEW p \in Pair, NEW l \in Links, HandshakeEnds(p, l)
      PROVE  RegistryTypeOK'
  BY <1>0, <1>3 DEF HandshakeEnds, Gone, Handshake, Encrypted
<1>4. ASSUME NEW p \in Pair, NEW l \in Links, EndCloses(p, l)
      PROVE  RegistryTypeOK'
  BY <1>0, <1>4 DEF EndCloses, Gone, Handshake, Encrypted
<1>5. ASSUME NEW l \in Links, Sever(l)
      PROVE  RegistryTypeOK'
  BY <1>5, RegistryAssumption DEF Sever
<1>6. CASE UNCHANGED registryVars
  BY <1>6 DEF registryVars
<1> QED
  BY <1>1, <1>2, <1>3, <1>4, <1>5, <1>6 DEF RegistryNext

\* Both ends of a pair's registered link are encrypted, and nothing else is,
\* through handshakes that cross, cuts and restarts.
THEOREM RegistryTypesThm == RegistrySafety => []RegistryTypeOK
<1>1. RegistryInit => RegistryTypeOK
  BY RegistryAssumption DEF RegistryInit, RegistryTypeOK, Links, Pair, Gone, Handshake, Encrypted
<1> QED
  BY <1>1, RegistryTypesStep, PTL DEF RegistrySafety

\* The pair of registered links, seen from either end.
LEMMA AgreedBy ==
    ASSUME NEW p \in Pair
    PROVE  AgreedLink = IF registered[p] = registered[Other(p)] THEN registered[p] ELSE NoLink
BY DEF AgreedLink, Pair, Other

\* An end that registers a link in place of another gives up one that the larger
\* device dialled (Node::encrypted, preferOutgoing).
LEMMA OnlyOthersAreReplaced ==
    ASSUME RegistryTypeOK, NEW p \in Pair, NEW l \in Links,
           registered[p] # NoLink, ~ KeepsExisting(p, l)
    PROVE  registered[p] \in {Large} \X Numbers
BY DEF RegistryTypeOK, KeepsExisting, Outgoing, PreferOutgoing, Links, Pair

\* Every step of the registry is a step of OneLink, or none.
LEMMA RegistryStepRefines ==
    ASSUME RegistryTypeOK, [RegistryNext]_registryVars
    PROVE  [OneLinkOfThePair!Next]_(OneLinkOfThePair!linkVars)
<1> USE DEF OneLinkOfThePair!linkVars
<1>0. Links = ({Small} \X Numbers) \cup ({Large} \X Numbers) /\ NoLink \notin Links
  BY RegistryAssumption DEF Links, Pair
<1>1. ASSUME NEW p \in Pair, DialPeer(p)
      PROVE  UNCHANGED OneLinkOfThePair!linkVars \/ OneLinkOfThePair!Reuse
  <2>1. PICK l \in Links : Free(l) /\ severed' = severed \ {l}
    BY <1>1 DEF DialPeer
  <2>2. l # AgreedLink
    BY <1>0, <2>1 DEF RegistryTypeOK, AgreedLink, Free, Alive, Pair, Gone, Encrypted
  <2>3. AgreedLink' = AgreedLink /\ UNCHANGED registryFaults
    BY <1>1 DEF DialPeer, AgreedLink
  <2> QED
    BY <2>1, <2>2, <2>3 DEF OneLinkOfThePair!Reuse
<1>2. ASSUME NEW p \in Pair, RestartDevice(p)
      PROVE  OneLinkOfThePair!Restart
  <2>1. AgreedLink' = NoLink
    BY <1>2 DEF RestartDevice, AgreedLink, RegistryTypeOK, Pair
  <2> QED
    BY <1>2, <2>1 DEF RestartDevice, OneLinkOfThePair!Restart, RegistryTypeOK
<1>3. ASSUME NEW p \in Pair, NEW l \in Links, HandshakeEnds(p, l)
      PROVE  \/ UNCHANGED OneLinkOfThePair!linkVars
             \/ OneLinkOfThePair!Agree \/ OneLinkOfThePair!GiveUp
  <2>1. CASE UNCHANGED registered
    BY <1>3, <2>1 DEF HandshakeEnds, AgreedLink
  <2>2. CASE ~ KeepsExisting(p, l) /\ registered' = [registered EXCEPT ![p] = l]
    <3>1. registered'[p] = l /\ registered'[Other(p)] = registered[Other(p)]
      BY <2>2, TwoDevices DEF RegistryTypeOK
    <3>2. registered[p] # l
      BY <1>3 DEF HandshakeEnds, RegistryTypeOK, Handshake, Encrypted
    <3>3. l \notin severed /\ UNCHANGED <<severed, registryFaults>>
      BY <1>3 DEF HandshakeEnds
    <3>4. AgreedLink = IF registered[p] = registered[Other(p)] THEN registered[p] ELSE NoLink
      BY AgreedBy
    <3>5. AgreedLink' = IF l = registered[Other(p)] THEN l ELSE NoLink
      BY <3>1 DEF AgreedLink, Pair, Other
    <3>6. CASE AgreedLink = NoLink
      BY <1>0, <3>3, <3>5, <3>6 DEF OneLinkOfThePair!Agree
    <3>7. CASE AgreedLink # NoLink
      <4>1. AgreedLink = registered[p] /\ registered[Other(p)] = registered[p]
        BY <3>4, <3>7
      <4>2. AgreedLink \in {Large} \X Numbers
        BY <2>2, <3>7, <4>1, OnlyOthersAreReplaced
      <4>3. AgreedLink' = NoLink
        BY <3>2, <3>5, <4>1
      <4> QED
        BY <3>3, <4>2, <4>3 DEF OneLinkOfThePair!GiveUp
    <3> QED
      BY <3>6, <3>7
  <2> QED
    BY <1>3, <2>1, <2>2 DEF HandshakeEnds
<1>4. ASSUME NEW p \in Pair, NEW l \in Links, EndCloses(p, l)
      PROVE  UNCHANGED OneLinkOfThePair!linkVars \/ OneLinkOfThePair!GiveUp
  <2>1. registered' = [registered EXCEPT ![p] = IF @ = l THEN NoLink ELSE @]
        /\ UNCHANGED <<severed, registryFaults>>
    BY <1>4 DEF EndCloses
  <2>2. CASE registered[p] # l
    BY <2>1, <2>2 DEF AgreedLink, RegistryTypeOK, Pair
  <2>3. CASE registered[p] = l
    <3>1. registered'[p] = NoLink /\ AgreedLink' = NoLink
      BY <2>1, <2>3 DEF AgreedLink, RegistryTypeOK, Pair
    <3>2. CASE registered[Other(p)] = l
      <4>1. l \in severed
        BY <1>4, <3>2, TwoDevices DEF EndCloses, Alive, RegistryTypeOK, Gone, Encrypted
      <4>2. AgreedLink = l
        BY <2>3, <3>2, AgreedBy
      <4> QED
        BY <2>1, <3>1, <4>1, <4>2 DEF OneLinkOfThePair!GiveUp
    <3>3. CASE registered[Other(p)] # l
      <4>1. AgreedLink = NoLink
        BY <2>3, <3>3, AgreedBy
      <4> QED
        BY <2>1, <3>1, <4>1
    <3> QED
      BY <3>2, <3>3
  <2> QED
    BY <2>2, <2>3
<1>5. ASSUME NEW l \in Links, Sever(l)
      PROVE  OneLinkOfThePair!Break
  BY <1>0, <1>5 DEF Sever, OneLinkOfThePair!Break, AgreedLink, RegistryTypeOK
<1>6. CASE UNCHANGED registryVars
  BY <1>6 DEF registryVars, AgreedLink
<1> QED
  BY <1>1, <1>2, <1>3, <1>4, <1>5, <1>6 DEF RegistryNext, OneLinkOfThePair!Next

\* The registry implements OneLink: two devices that dial each other as often as
\* they like agree on one link at a time, and give up a link that the smaller one
\* dialled only after a fault (Node::encrypted).
THEOREM OneLinkThm == RegistrySafety => ImplementsOneLink
<1>1. RegistryInit => OneLinkOfThePair!Init
  BY DEF RegistryInit, OneLinkOfThePair!Init, AgreedLink, Pair
<1> QED
  BY <1>1, RegistryTypesThm, RegistryStepRefines, PTL
  DEF RegistrySafety, ImplementsOneLink, OneLinkOfThePair!Spec
=============================================================================
