--------------------------- MODULE CommunityModel ---------------------------
(***************************************************************************)
(* community::Model (src/community/model.cpp): a community is a set of     *)
(* immutable signed operations, each naming its causal parents, and        *)
(* everything the program shows of it (members, admins, invites, bans,     *)
(* channels...) is derived from that set by Model::rebuild.  This module   *)
(* has no variables: it is the log, the derivation and the checks that the *)
(* local edits pass before they are appended.                              *)
(*                                                                         *)
(* A log (operations_) is a function from operation ids to operations.  An *)
(* id is <<clock, digest>>, which is how rebuild orders operations; digests *)
(* only matter through their order.  Signatures, formats and text limits   *)
(* always pass for the operations this program makes and are left out.     *)
(***************************************************************************)
EXTENDS Integers, Sequences, FiniteSets, FiniteSetsExt, Functions

CONSTANTS
    Peers,          \* identities (public keys)
    Owner,          \* the creator of the community
    Codes,          \* invite codes
    Requests,       \* random request numbers of join intents
    Names,          \* community names, channel names and profiles
    Channels,       \* channel ids
    Lobby,          \* the channel a new community starts with
    NoOp,           \* the absent operation id (an empty QString)
    MaxOperations,  \* kMaxOperations
    MaxMembers,     \* kMaxMembers
    MaxChannels     \* 128 in the code

ASSUME ModelAssumption ==
    /\ Owner \in Peers
    /\ Lobby \in Channels
    /\ Names # {}
    /\ NoOp \notin Nat \X Nat
    /\ MaxOperations \in Nat \ {0}
    /\ MaxMembers \in Nat
    /\ MaxChannels \in Nat

Ids == Nat \X Nat
FirstName == CHOOSE n \in Names : TRUE

Intent == [peer : Peers \ {Owner}, invite : Codes, host : Peers, request : Requests]

\* QMap::insert, QMap::remove, and the insertion of one map into another.
Insert(f, x, y) == [z \in DOMAIN f \cup {x} |-> IF z = x THEN y ELSE f[z]]
Without(f, x) == Restrict(f, DOMAIN f \ {x})
Joined(f, g) == [z \in DOMAIN f \cup DOMAIN g |-> IF z \in DOMAIN f THEN f[z] ELSE g[z]]

Roles == {"admin"}
Expulsions == {"kick", "remove"}
Administrative == {"rename", "channel", "delete-channel", "invite", "revoke",
                   "priority", "kick", "remove", "unban", "admin"}
Kinds == Administrative \cup {"create", "admit", "leave", "profile", "delete"}

(***************************************************************************)
(* Operations.  "past" is every operation that ancestor() reaches by       *)
(* walking the parents; it is fixed when the operation is signed.          *)
(***************************************************************************)
Operation(author, parents, past, kind, data, authority) ==
    [author |-> author, parents |-> parents, past |-> past,
     kind |-> kind, data |-> data, authority |-> authority]

Origin == Operation(Owner, {}, {}, "create", FirstName, NoOp)

Clock(id) == id[1]
\* Mutant: the clock counts the operations instead of following the largest.
CountingClock(log) == Cardinality(DOMAIN log) - 1
LogClock(log) == Max({Clock(i) : i \in DOMAIN log})
Heads(log) == {i \in DOMAIN log : \A j \in DOMAIN log : i \notin log[j].parents}

Ancestor(log, older, newer) ==
    \/ older = newer
    \/ newer \in DOMAIN log /\ older \in log[newer].past

Precedes(a, b) == a[1] < b[1] \/ (a[1] = b[1] /\ a[2] < b[2])

\* The operations in the order rebuild applies them.
Ordered(log) ==
    [n \in 1 .. Cardinality(DOMAIN log) |->
        CHOOSE i \in DOMAIN log :
            Cardinality({j \in DOMAIN log : Precedes(j, i)}) = n - 1]

(***************************************************************************)
(* What rebuild requires of a set of operations before it applies it:      *)
(* Model::fromJson and Model::merge throw when this fails.                 *)
(***************************************************************************)
ValidOperation(log, i) ==
    IF log[i].kind = "create"
    THEN log[i].parents = {} /\ Clock(i) = 0 /\ log[i].author = Owner
    ELSE /\ log[i].parents # {}
         /\ \A p \in log[i].parents : p \in DOMAIN log /\ Clock(p) < Clock(i)
         /\ \E p \in log[i].parents : Clock(i) = Clock(p) + 1

ValidLog(log) ==
    /\ \A i \in DOMAIN log : ValidOperation(log, i)
    /\ \E i \in DOMAIN log :
          \A j \in DOMAIN log : log[j].kind = "create" <=> j = i

(***************************************************************************)
(* Authority: an admin's operation names the owner's grant it acts under.  *)
(***************************************************************************)
RolesOf(log, peer) ==
    {i \in DOMAIN log : /\ log[i].kind \in Roles
                        /\ log[i].author = Owner
                        /\ log[i].data.peer = peer}

\* Mutant: a grant authorizes for ever, whatever the owner assigns later.
AuthorizedForEver(log, i) ==
    \/ log[i].author = Owner
    \/ log[i].authority \in RolesOf(log, log[i].author)

Authorized(log, i) ==
    LET author == log[i].author
        grant  == log[i].authority
    IN  \/ author = Owner
        \/ /\ grant \in RolesOf(log, author)
           /\ log[grant].data.enabled
           /\ Ancestor(log, grant, i)
           /\ \A role \in RolesOf(log, author) \ {grant} :
                 Ancestor(log, role, grant) \/ Ancestor(log, i, role)

\* Authorized operations of some kinds aimed at a peer or a code.
Against(log, kinds, target) ==
    {i \in DOMAIN log : /\ log[i].kind \in kinds
                        /\ log[i].data = target
                        /\ Authorized(log, i)}

\* Mutant: only bans count as removals, not plain kicks.
RemovalsByBan(log, peer) == IF peer = Owner THEN {} ELSE Against(log, {"kick"}, peer)
Removals(log, peer) == IF peer = Owner THEN {} ELSE Against(log, Expulsions, peer)
Bans(log, peer) == IF peer = Owner THEN {} ELSE Against(log, {"kick"}, peer)
Unbans(log, peer) == IF peer = Owner THEN {} ELSE Against(log, {"unban"}, peer)
Revocations(log, code) == Against(log, {"revoke"}, code)
Departures(log, peer) ==
    {i \in DOMAIN log : log[i].kind = "leave" /\ log[i].author = peer /\ peer # Owner}

\* An unban clears only the bans it has seen (banCleared).
ClearedBy(log, ban, peer) == {u \in Unbans(log, peer) : Ancestor(log, ban, u)}
Banned(log) == {q \in Peers : \E b \in Bans(log, q) : ClearedBy(log, b, q) = {}}

(***************************************************************************)
(* The derived model.  members and channels are partial functions (QMaps); *)
(* admission and accepted are the locals of rebuild.                       *)
(***************************************************************************)
Blank == [deleted |-> FALSE, name |-> FirstName, members |-> <<>>, channels |-> <<>>,
          priority |-> <<>>, revoked |-> {}, banned |-> {}, invites |-> {},
          grants |-> <<>>, admission |-> <<>>, accepted |-> {}]

\* Mutant: the grant outlives the membership.
ExpelKeepingGrant(m, peer) == [m EXCEPT !.members = Without(@, peer)]
Expel(m, peer) ==
    [m EXCEPT !.members = Without(@, peer), !.grants = Without(@, peer)]

AdmissionOf(m, peer) == IF peer \in DOMAIN m.admission THEN m.admission[peer] ELSE NoOp

\* Mutant: a removal voids what the peer did before it as well.
CouldActIfNeverRemoved(log, m, peer, i) ==
    \A x \in Removals(log, peer) \cup Departures(log, peer) :
        /\ Ancestor(log, x, AdmissionOf(m, peer))
        /\ Ancestor(log, AdmissionOf(m, peer), i)

\* couldAct: each removal or departure of the peer either saw the operation,
\* or was followed by an admission that the operation has seen.
CouldAct(log, m, peer, i) ==
    \A x \in Removals(log, peer) \cup Departures(log, peer) :
        \/ Ancestor(log, i, x)
        \/ /\ Ancestor(log, x, AdmissionOf(m, peer))
           /\ Ancestor(log, AdmissionOf(m, peer), i)

\* Whether an admit operation takes effect at its place in the order.
Admissible(log, m, i) ==
    LET intent == log[i].data
        peer   == intent.peer
    IN  /\ log[i].author \in DOMAIN m.members
        /\ CouldAct(log, m, log[i].author, i)
        /\ \A r \in Removals(log, peer) : Ancestor(log, i, r) \/ Ancestor(log, r, i)
        /\ \A b \in Bans(log, peer) :
              \/ Ancestor(log, i, b)
              \/ \E u \in ClearedBy(log, b, peer) : Ancestor(log, u, i)
        /\ \A d \in Departures(log, peer) : Ancestor(log, d, i) \/ Ancestor(log, i, d)
        /\ intent \notin m.accepted
        /\ peer \notin DOMAIN m.members
        /\ Cardinality(DOMAIN m.members) < MaxMembers
        /\ intent.invite \in m.invites
        /\ intent.host = log[i].author
        /\ \A r \in Revocations(log, intent.invite) : Ancestor(log, i, r)

ApplyCreate(log, m, i) ==
    [m EXCEPT !.name = log[i].data,
              !.admission = Insert(@, Owner, i),
              !.members = Insert(@, Owner, [admin |-> TRUE, profile |-> FirstName]),
              !.channels = Insert(@, Lobby, FirstName)]

ApplyAdmit(log, m, i) ==
    LET peer == log[i].data.peer
    IN  IF Admissible(log, m, i)
        THEN [m EXCEPT !.accepted = @ \cup {log[i].data},
                       !.admission = Insert(@, peer, i),
                       !.members = Insert(@, peer, [admin |-> FALSE, profile |-> FirstName])]
        ELSE m

ApplyExpulsion(log, m, i) == IF log[i].data = Owner THEN m ELSE Expel(m, log[i].data)

ApplyLeave(log, m, i) == IF log[i].author = Owner THEN m ELSE Expel(m, log[i].author)

ApplyProfile(log, m, i) ==
    LET peer == log[i].author
    IN  IF peer \in DOMAIN m.members /\ CouldAct(log, m, peer, i)
        THEN [m EXCEPT !.members[peer].profile = log[i].data]
        ELSE m

\* The owner's role assignments.
ApplyRole(log, m, i) ==
    LET role == log[i].data
    IN  IF log[i].author = Owner /\ role.peer \in DOMAIN m.members \ {Owner}
        THEN [m EXCEPT !.members[role.peer].admin = role.enabled,
                       !.grants = IF role.enabled THEN Insert(@, role.peer, i)
                                  ELSE Without(@, role.peer)]
        ELSE m

\* The peers of a list that are members, each once, in their order.
KeptOf(order, S) ==
    LET kept[n \in 0 .. Len(order)] ==
            IF n = 0 THEN <<>>
            ELSE IF order[n] \in S \ Range(kept[n - 1]) THEN Append(kept[n - 1], order[n])
            ELSE kept[n - 1]
    IN  kept[Len(order)]

\* Settings an admin or the owner edits; "revoke", "unban" and "delete" are
\* gathered before the loop and do nothing at their place in it.
ApplySetting(log, m, i) ==
    LET kind == log[i].kind
        data == log[i].data
    IN  CASE kind = "admin" -> ApplyRole(log, m, i)
          [] kind = "rename" -> [m EXCEPT !.name = data]
          [] kind = "channel" ->
                IF data.id \in DOMAIN m.channels \/ Cardinality(DOMAIN m.channels) < MaxChannels
                THEN [m EXCEPT !.channels = Insert(@, data.id, data.name)]
                ELSE m
          [] kind = "delete-channel" -> [m EXCEPT !.channels = Without(@, data)]
          [] kind = "invite" -> [m EXCEPT !.invites = @ \cup {data}]
          [] kind = "priority" ->
                [m EXCEPT !.priority = KeptOf(data, DOMAIN m.members)]
          [] OTHER -> m

ApplyOperation(log, m, i) ==
    LET kind == log[i].kind
        author == log[i].author
    IN  CASE kind = "create" -> ApplyCreate(log, m, i)
          [] kind = "admit" -> ApplyAdmit(log, m, i)
          [] kind \in Expulsions /\ Authorized(log, i) -> ApplyExpulsion(log, m, i)
          [] kind = "leave" -> ApplyLeave(log, m, i)
          [] kind = "profile" -> ApplyProfile(log, m, i)
          [] OTHER ->
                IF /\ author \in DOMAIN m.members
                   /\ CouldAct(log, m, author, i)
                   /\ Authorized(log, i)
                THEN ApplySetting(log, m, i)
                ELSE m

\* The peers the passes after the loop drop.
Dropped(log, m) ==
    {q \in Peers :
        \/ q \in m.banned
        \/ \E x \in Removals(log, q) \cup Departures(log, q) :
              ~ Ancestor(log, x, AdmissionOf(m, q))}

\* What rebuild gathers before its loop.
Gathered(log) ==
    [Blank EXCEPT !.deleted = \E i \in DOMAIN log :
                                 log[i].kind = "delete" /\ log[i].author = Owner,
                  !.revoked = {c \in Codes : Revocations(log, c) # {}},
                  !.banned = Banned(log)]

\* The loop: the model after each of the operations, in their order.
Applied(log) ==
    LET order == Ordered(log)
        loop[n \in 0 .. Cardinality(DOMAIN log)] ==
            IF n = 0 THEN Gathered(log) ELSE ApplyOperation(log, loop[n - 1], order[n])
    IN  loop

Rebuild(log) ==
    LET m == Applied(log)[Cardinality(DOMAIN log)]
        gone == Dropped(log, m)
    IN  [m EXCEPT !.members = Restrict(@, DOMAIN @ \ gone),
                  !.grants = Restrict(@, DOMAIN @ \ gone)]

(***************************************************************************)
(* Questions the node asks of a model, and the checks of the local edits.  *)
(***************************************************************************)
IsMember(m, peer) == ~ m.deleted /\ peer \in DOMAIN m.members

CanAdmin(m, peer) ==
    IsMember(m, peer) /\ (peer = Owner \/ m.members[peer].admin)

ValidCode(m, code) == ~ m.deleted /\ code \in m.invites /\ code \notin m.revoked

MayChange(m, peer, kind, data) ==
    /\ ~ m.deleted
    /\ \/ kind = "leave" /\ IsMember(m, peer) /\ peer # Owner
       \/ kind = "delete" /\ peer = Owner
       \/ kind = "profile" /\ IsMember(m, peer)
       \/ kind \in Administrative /\ CanAdmin(m, peer)
    /\ kind = "admin" =>
          peer = Owner /\ data.peer \in DOMAIN m.members \ {Owner}
    /\ kind \in Expulsions => data \in DOMAIN m.members \ {Owner}
    /\ kind = "unban" => data \in m.banned

\* Mutant: nothing remembers the intents already used.
NoReplays(log, intent) == {}

\* The operations in the log that carry this very intent.
Replays(log, intent) ==
    {i \in DOMAIN log : log[i].kind = "admit" /\ log[i].data = intent}

AcceptsIntent(log, m, host, intent) ==
    /\ IsMember(m, intent.peer) \/ Replays(log, intent) = {}
    /\ IsMember(m, host)
    /\ intent.invite \in m.invites \ m.revoked
    /\ intent.host = host
    /\ intent.peer \notin m.banned
    /\ IsMember(m, intent.peer) \/ Cardinality(DOMAIN m.members) < MaxMembers
=============================================================================
