------------------------- MODULE CommunityReplicas --------------------------
(***************************************************************************)
(* The devices that share one community.  Each holds a log and the model   *)
(* derived from it; it edits locally (Node::edit, Node::invite, setProfile, *)
(* Node::processAdmissions) and merges the snapshots other devices send    *)
(* (Node::mergeSnapshot).  Devices are offline, partitioned or slow in any *)
(* pattern: a snapshot may be merged whenever its sender held it, or never. *)
(*                                                                         *)
(* Every edit is made on a copy, saved to disk, and only then becomes the  *)
(* model in memory (Node::save), so a crash leaves the device with the log *)
(* it last saved, which is the log here.                                   *)
(***************************************************************************)
EXTENDS CommunityModel

CONSTANTS
    Enabled,    \* the kinds of operation that devices make in this instance
    MaxTotal,   \* bound: operations made by all devices together
    DigestTop   \* bound: digests of one clock lie strictly between 0 and this

ASSUME ReplicaAssumption ==
    /\ Enabled \subseteq Kinds
    /\ MaxTotal \in Nat
    /\ DigestTop \in Nat

VARIABLES
    log,    \* [Peers -> log]; the empty log is a device without the community
    model   \* [Peers -> the model rebuilt from the log]

vars == <<log, model>>

Holds(p) == DOMAIN log[p] # {}
Holders == {p \in Peers : Holds(p)}
AllIds == UNION {DOMAIN log[p] : p \in Peers}

(***************************************************************************)
(* Digests are arbitrary but distinct.  Among operations of one clock only *)
(* the relative order of digests matters, so a new digest is the midpoint  *)
(* of any gap between those in use.                                        *)
(***************************************************************************)
DigestsAt(c) == {i[2] : i \in {j \in AllIds : j[1] = c}}

FreshDigest(d, used) ==
    /\ d \notin used
    /\ d = (Max({0} \cup {x \in used : x < d}) + Min({DigestTop} \cup {x \in used : x > d})) \div 2

Digests(c) == {d \in 1 .. (DigestTop - 1) : FreshDigest(d, DigestsAt(c))}

(***************************************************************************)
(* Model::create.                                                          *)
(***************************************************************************)
RootId == <<0, 1>>

Founded == [i \in {RootId} |-> Origin]

Init ==
    /\ log = [p \in Peers |-> IF p = Owner THEN Founded ELSE <<>>]
    /\ model = [p \in Peers |-> IF p = Owner THEN Rebuild(Founded) ELSE Blank]

(***************************************************************************)
(* Model::append: the operation follows every operation the device holds.  *)
(***************************************************************************)
\* Mutant: the operation names only the latest head.
SignedOnLatest(l, m, p, kind, data) ==
    LET parents == {h \in Heads(l) : \A j \in Heads(l) : ~ Precedes(h, j)}
    IN  Operation(p, parents, parents \cup UNION {l[i].past : i \in parents}, kind, data,
                  IF p # Owner /\ p \in DOMAIN m.grants THEN m.grants[p] ELSE NoOp)
\* Mutant: the author forgets to name the grant he acts under.
SignedWithoutGrant(l, m, p, kind, data) ==
    LET parents == Heads(l)
    IN  Operation(p, parents, parents \cup UNION {l[i].past : i \in parents}, kind, data, NoOp)

SignedOperation(l, m, p, kind, data) ==
    LET parents == Heads(l)
    IN  Operation(p, parents, parents \cup UNION {l[i].past : i \in parents}, kind, data,
                  IF p # Owner /\ p \in DOMAIN m.grants THEN m.grants[p] ELSE NoOp)

AppendOperation(p, kind, data) ==
    /\ Cardinality(AllIds) < MaxTotal
    /\ Cardinality(DOMAIN log[p]) < MaxOperations
    /\ \E d \in Digests(LogClock(log[p]) + 1) :
          LET id   == <<LogClock(log[p]) + 1, d>>
              next == Insert(log[p], id, SignedOperation(log[p], model[p], p, kind, data))
          IN  /\ ValidLog(next)
              /\ log' = [log EXCEPT ![p] = next]
              /\ model' = [model EXCEPT ![p] = Rebuild(next)]

\* Model::change.
Change(p, kind, data) ==
    /\ Holds(p)
    /\ kind \in Enabled
    /\ MayChange(model[p], p, kind, data)
    /\ AppendOperation(p, kind, data)

Rename(p, n) == Change(p, "rename", n)
SetChannel(p, c, n) == Change(p, "channel", [id |-> c, name |-> n])
DeleteChannel(p, c) == c \in DOMAIN model[p].channels /\ Change(p, "delete-channel", c)
SetProfile(p, n) == Change(p, "profile", n)
SetPriority(p, order) == Change(p, "priority", order)
SetAdmin(p, q, enabled) == Change(p, "admin", [peer |-> q, enabled |-> enabled])
Remove(p, q) == Change(p, "remove", q)    \* "Kick member"
Kick(p, q) == Change(p, "kick", q)        \* "Remove and block member"
Unban(p, q) == Change(p, "unban", q)
Leave(p) == Change(p, "leave", p)
Delete(p) == Change(p, "delete", p)

\* A fresh random code: no operation anywhere carries it yet.
IssuedCodes ==
    {c \in Codes : \E p \in Peers : \E i \in DOMAIN log[p] :
                      log[p][i].kind = "invite" /\ log[p][i].data = c}

IssueInvite(p, c) == c \notin IssuedCodes /\ Change(p, "invite", c)

\* The panel offers the invites of the model, revoked ones included.
Revoke(p, c) == c \in model[p].invites /\ Change(p, "revoke", c)

\* Model::admit.  A device may be handed any intent that was signed for it,
\* also one it has seen before.
Admit(p, intent) ==
    /\ Holds(p)
    /\ "admit" \in Enabled
    /\ AcceptsIntent(log[p], model[p], p, intent)
    /\ ~ IsMember(model[p], intent.peer)
    /\ AppendOperation(p, "admit", intent)

\* Model::merge, or Model::fromJson for a device that has nothing yet, which
\* keeps the snapshot only when it proves the device's admission.
Receive(p, q) ==
    LET merged == Joined(log[p], log[q])
        derived == Rebuild(merged)
    IN  /\ Holds(q)
        /\ ValidLog(log[q])
        /\ DOMAIN merged # DOMAIN log[p]
        /\ Cardinality(DOMAIN merged) <= MaxOperations
        /\ ValidLog(merged)
        /\ Holds(p) \/ IsMember(derived, p)
        /\ log' = [log EXCEPT ![p] = merged]
        /\ model' = [model EXCEPT ![p] = derived]

\* The orders of members a device can save as host priority.
Orders(p) ==
    LET members == DOMAIN model[p].members
    IN  Bijection(1 .. Cardinality(members), members)

Edit(p) ==
    \/ \E n \in Names : Rename(p, n)
    \/ \E c \in Channels, n \in Names : SetChannel(p, c, n)
    \/ \E c \in Channels : DeleteChannel(p, c)
    \/ \E n \in Names : SetProfile(p, n)
    \/ \E order \in Orders(p) : SetPriority(p, order)
    \/ \E q \in Peers, enabled \in BOOLEAN : SetAdmin(p, q, enabled)
    \/ \E q \in Peers : Remove(p, q)
    \/ \E q \in Peers : Kick(p, q)
    \/ \E q \in Peers : Unban(p, q)
    \/ Leave(p)
    \/ Delete(p)
    \/ \E c \in Codes : IssueInvite(p, c)
    \/ \E c \in Codes : Revoke(p, c)

Next ==
    \E p \in Peers :
        \/ Edit(p)
        \/ \E intent \in Intent : Admit(p, intent)
        \/ \E q \in Peers \ {p} : Receive(p, q)

Spec == Init /\ [][Next]_vars
-----------------------------------------------------------------------------
(***************************************************************************)
(* Properties                                                              *)
(***************************************************************************)
OperationOK(op) ==
    /\ op.author \in Peers
    /\ op.kind \in Kinds
    /\ op.authority \in AllIds \cup {NoOp}
    /\ op.past \subseteq AllIds

ModelOK(m) ==
    /\ m.deleted \in BOOLEAN
    /\ m.name \in Names
    /\ m.members \in UNION {[S -> [admin : BOOLEAN, profile : Names]] : S \in SUBSET Peers}
    /\ m.channels \in UNION {[S -> Names] : S \in SUBSET Channels}
    /\ m.priority \in Seq(Peers)
    /\ m.revoked \subseteq Codes /\ m.invites \subseteq Codes
    /\ m.banned \subseteq Peers \ {Owner}
    /\ DOMAIN m.grants = {q \in DOMAIN m.members \ {Owner} : m.members[q].admin}

\* The type invariant: logs are finite functions from ids to operations, and a
\* model is made of peers, codes, channels and names, with a grant at hand
\* for exactly the admins.
TypeOK ==
    /\ DOMAIN log = Peers /\ DOMAIN model = Peers
    /\ \A p \in Peers :
          /\ DOMAIN log[p] \subseteq Ids
          /\ \A i \in DOMAIN log[p] : OperationOK(log[p][i])
          /\ ModelOK(model[p])

\* No device refuses, for its structure, what honest devices make: whatever
\* two devices did apart, the union of their logs has one origin, holds every
\* parent and has the right clocks, and so has a log that a device extends.
NothingIsMalformed ==
    /\ \A p, q \in Holders : ValidLog(Joined(log[p], log[q]))
    /\ \A p \in Holders :
          ValidLog(Insert(log[p], <<LogClock(log[p]) + 1, DigestTop>>,
                          SignedOperation(log[p], model[p], p, "leave", p)))

\* The operations of one device form a causal chain, on every device that
\* holds them: rebuild relies on it to order the owner's role assignments.
AuthorsNeverFork ==
    \A p \in Peers : \A i, j \in DOMAIN log[p] :
        log[p][i].author = log[p][j].author =>
            Ancestor(log[p], i, j) \/ Ancestor(log[p], j, i)

\* Removals, bans, departures and revocations win against the admissions
\* that have not seen them: whoever is a member has an admission made after
\* every removal by the owner and every departure of his, after an unban of
\* every ban, and under an invite that the owner had not revoked.
RemovalsWin ==
    \A p \in Holders : \A q \in DOMAIN model[p].members \ {Owner} :
        LET l == log[p]
            by(kinds) == {x \in DOMAIN l : l[x].author = Owner /\ l[x].kind \in kinds}
        IN  \E a \in DOMAIN l :
              /\ l[a].kind = "admit" /\ l[a].data.peer = q
              /\ \A x \in by(Expulsions) : l[x].data = q => x \in l[a].past
              /\ \A x \in DOMAIN l : l[x].kind = "leave" /\ l[x].author = q => x \in l[a].past
              /\ \A x \in by({"kick"}) : l[x].data = q =>
                    \E u \in l[a].past : /\ l[u].kind = "unban" /\ l[u].data = q
                                         /\ x \in l[u].past
              /\ \A x \in by({"revoke"}) : l[x].data = l[a].data.invite => a \in l[x].past

\* A signed intent brings its peer in once, however often it is presented.
IntentsAdmitOnce ==
    \A p \in Peers : \A i, j \in DOMAIN log[p] :
        log[p][i].kind = "admit" /\ log[p][j].kind = "admit"
            /\ log[p][i].data = log[p][j].data => i = j

\* The setting an admin made counts only under a grant of the owner that no
\* demotion, concurrent with the setting or before it, has withdrawn.
DemotionsWin ==
    \A p \in Holders : \A c \in model[p].invites :
        LET l == log[p]
            i == CHOOSE x \in DOMAIN l : l[x].kind = "invite" /\ l[x].data = c
            role(enabled) == {x \in DOMAIN l : /\ l[x].kind = "admin" /\ l[x].author = Owner
                                               /\ l[x].data = [peer |-> l[i].author,
                                                               enabled |-> enabled]}
        IN  l[i].author # Owner =>
              /\ role(TRUE) \cap l[i].past # {}
              /\ \A d \in role(FALSE) : \/ i \in l[d].past
                                        \/ \E g \in role(TRUE) : d \in l[g].past /\ g \in l[i].past

\* docs/communities.md: "An owner-issued admin grant authorizes an admin's
\* edits.  Revoking that grant blocks concurrent and later edits under it."
\* So the invite of an admin who was never demoted, removed nor left counts.
GrantsAuthorize ==
    \A p \in Holders : \A i \in DOMAIN log[p] :
        LET l == log[p]
            admin == l[i].author
        IN  /\ l[i].kind = "invite" /\ admin # Owner
            /\ \A x \in DOMAIN l :
                  /\ l[x].kind \in Expulsions => l[x].data # admin
                  /\ l[x].kind = "leave" => l[x].author # admin
                  /\ l[x].kind = "admin" => l[x].data # [peer |-> admin, enabled |-> FALSE]
            => l[i].data \in model[p].invites

(***************************************************************************)
(* The local operation a step appends, if it appends one.                  *)
(***************************************************************************)
Appended(p) == {i \in DOMAIN log'[p] \ DOMAIN log[p] : log'[p][i].author = p}

\* What a device that goes from the model was to the model m shows of its edit.  A
\* new channel beyond the limit is ignored: change() counts none, rebuild does.
Shows(was, m, op) ==
    CASE op.kind = "admit" -> IsMember(m, op.data.peer)
      [] op.kind = "remove" -> ~ IsMember(m, op.data)
      [] op.kind = "kick" -> ~ IsMember(m, op.data) /\ op.data \in m.banned
      [] op.kind = "unban" -> op.data \notin m.banned
      [] op.kind = "leave" -> ~ IsMember(m, op.author)
      [] op.kind = "invite" -> ValidCode(m, op.data)
      [] op.kind = "revoke" -> ~ ValidCode(m, op.data)
      [] op.kind = "admin" -> CanAdmin(m, op.data.peer) = op.data.enabled
      [] op.kind = "rename" -> m.name = op.data
      [] op.kind = "profile" -> m.members[op.author].profile = op.data
      [] op.kind = "channel" ->
            m.channels = IF \/ op.data.id \in DOMAIN was.channels
                            \/ Cardinality(DOMAIN was.channels) < MaxChannels
                         THEN Insert(was.channels, op.data.id, op.data.name)
                         ELSE was.channels
      [] op.kind = "delete-channel" -> m.channels = Without(was.channels, op.data)
      [] op.kind = "priority" -> m.priority = op.data
      [] op.kind = "delete" -> m.deleted

\* An edit that passed the checks of change() or acceptsIntent() does what it
\* says: rebuild ignores no operation that a device has just made, but for a
\* channel beyond the limit, which is signed, saved and sent and changes nothing.
EditsTakeEffect ==
    [][\A p \in Peers : \A i \in Appended(p) :
          Shows(model[p], model'[p], log'[p][i])]_vars

Target(op) ==
    CASE op.kind = "admit" -> {op.data.peer}
      [] op.kind \in Expulsions -> {op.data}
      [] op.kind = "admin" -> {op.data.peer}
      [] op.kind \in {"leave", "profile"} -> {op.author}
      [] OTHER -> {}

\* An edit changes nothing but its subject on the device that makes it: in
\* particular removing a host keeps the members it admitted, demoting an
\* admin keeps the settings he made, and revoking an invite keeps everyone.
EditsTouchOnlyTheirSubject ==
    [][\A p \in Peers : \A i \in Appended(p) :
          LET op == log'[p][i]
              others(m) == Restrict(m.members, DOMAIN m.members \ Target(op))
          IN  /\ others(model'[p]) = others(model[p])
              /\ op.kind # "rename" => model'[p].name = model[p].name
              /\ op.kind \notin {"channel", "delete-channel"} =>
                    model'[p].channels = model[p].channels
              /\ op.kind # "priority" => model'[p].priority = model[p].priority
              /\ op.kind # "invite" => model'[p].invites = model[p].invites]_vars
=============================================================================
