----------------------------- MODULE NodeStore -----------------------------
(***************************************************************************)
(* What a node keeps on disk and in memory, and the panel's part of it:    *)
(* the user's profile (store.cpp: profile.json), what each community shows *)
(* of it (one file per community), the invitations that wait (pending.json *)
(* ) and the settings' display name.                                       *)
(*                                                                         *)
(* A handler of node.cpp writes several files, one after the other; every  *)
(* write is atomic (QSaveFile) but may fail, which throws out of the       *)
(* handler, and the program may die between two of them.  A handler        *)
(* therefore leaves its writes in `work', and Write, WriteFails and NodeDies *)
(* take them from there; nothing else runs meanwhile.                      *)
(***************************************************************************)
EXTENDS Naturals, Sequences, FiniteSets

CONSTANTS Groups, NoGroup,  \* the communities of one user
          OwnNames, Bios, NoBio,        \* what a profile is made of
          MaxPending,                \* pending invitations a node accepts
          MaxStoreCalls, MaxFailures, MaxDeaths  \* bounds of the model

ASSUME StoreAssumption ==
    /\ IsFiniteSet(Groups) /\ NoGroup \notin Groups
    /\ NoBio \in Bios
    /\ MaxPending \in Nat \ {0} /\ MaxStoreCalls \in Nat
    /\ MaxFailures \in Nat /\ MaxDeaths \in Nat

VARIABLES
    disk,     \* what survives: profile, communities, pending, settings
    node,     \* the node's memory
    form,    \* the panel's
    work,     \* the handler that runs, and the writes it has left
    promised,    \* communities with a saved invitation nobody has answered
    failed,   \* a write has failed since the last start that succeeded
    storeFaults   \* calls, failures and crashes so far

storeVars == <<disk, node, form, work, promised, failed, storeFaults>>

ShownProfile == [name: OwnNames, bio: Bios]
NotHeld == [name |-> "absent"]       \* not held
Former == [name |-> "former"]       \* held, but the user is no member
Displayed == ShownProfile \union {NotHeld, Former}
MemberOf(shown, c) == shown[c] \in ShownProfile

NoWork == [by |-> "none", writes |-> <<>>]
ProfileWrite(value) == [file |-> "profile", value |-> value]
ModelWrite(c, value) == [file |-> "model", community |-> c, value |-> value]
PendingWrite(value) == [file |-> "pending", value |-> value]

StoreTypeOK ==
    /\ disk \in [profile: ShownProfile, shown: [Groups -> Displayed],
                 pending: SUBSET Groups, setting: OwnNames]
    /\ node \in [profile: ShownProfile, shown: [Groups -> Displayed],
                 pending: SUBSET Groups, running: BOOLEAN]
    /\ form \in [online: BOOLEAN, field: OwnNames, joining: SUBSET Groups,
                  link: Groups \union {NoGroup}]
    /\ work.by \in {"none", "start", "profile", "join", "merge", "other"}
    /\ Len(work.writes) <= 2 + Cardinality(Groups)
    /\ promised \subseteq Groups /\ failed \in BOOLEAN
    /\ storeFaults \in [calls: 0 .. MaxStoreCalls, failures: 0 .. MaxFailures,
                    crashes: 0 .. MaxDeaths]

(* The constructor: an invitation to a community the node holds is not     *)
(* taken up again.                                                         *)
Loaded(d) == [profile |-> d.profile, shown |-> d.shown, running |-> FALSE,
              pending |-> {c \in d.pending : d.shown[c] = NotHeld}]

PanelOpens(d, link) == [online |-> FALSE, field |-> d.setting,
                        joining |-> {}, link |-> link]

(* One user who is a member of some communities and of no other; the panel *)
(* may have been opened by an invitation link.                             *)
StoreInit ==
    /\ \E n \in OwnNames, b \in Bios, joined \in SUBSET Groups,
          link \in Groups \union {NoGroup} :
        LET p == [name |-> n, bio |-> b]
        IN /\ disk = [profile |-> p, pending |-> {}, setting |-> n,
                      shown |-> [c \in Groups |->
                                    IF c \in joined THEN p ELSE NotHeld]]
           /\ node = Loaded(disk)
           /\ form = PanelOpens(disk, link)
    /\ work = NoWork /\ promised = {} /\ failed = FALSE
    /\ storeFaults = [calls |-> 0, failures |-> 0, crashes |-> 0]

AtRest == work = NoWork
Begins == /\ AtRest /\ storeFaults.calls < MaxStoreCalls
          /\ storeFaults' = [storeFaults EXCEPT !.calls = @ + 1]

(* Mutant: only another name is worth publishing.                  *)
PublishName(c, shown, p) ==
    IF shown \in ShownProfile /\ shown.name # p.name THEN <<ModelWrite(c, p)>> ELSE <<>>

(* publishProfile: the writes it adds.                                     *)
PublishProfile(c, shown, p) ==
    IF shown \in ShownProfile /\ shown # p THEN <<ModelWrite(c, p)>> ELSE <<>>

(* The model's communities in the order of their identifiers: the keys of  *)
(* a QMap.                                                                 *)
InOrder(S) == CHOOSE s \in [1 .. Cardinality(S) -> S] :
                  \A i, j \in DOMAIN s : i # j => s[i] # s[j]

(* Every community of S shows p.                                           *)
PublishEverywhere(S, p) ==
    LET s == InOrder({c \in S : PublishProfile(c, node.shown[c], p) # <<>>})
    IN [i \in DOMAIN s |-> ModelWrite(s[i], p)]

-----------------------------------------------------------------------------
(* Connect and disconnect.  The name is the one in the panel's field.      *)
Start(n) ==
    /\ ~form.online /\ Begins
    /\ LET p == [node.profile EXCEPT !.name = n]
       IN /\ node' = [node EXCEPT !.running = TRUE, !.profile = p]
          /\ work' = [by |-> "start",
                      writes |-> <<ProfileWrite(p)>> \o PublishEverywhere(Groups, p)]
    /\ form' = [form EXCEPT !.field = n]
    /\ UNCHANGED <<disk, promised, failed>>

Stop ==
    /\ form.online /\ Begins
    /\ node' = [node EXCEPT !.running = FALSE]
    /\ form' = [form EXCEPT !.online = FALSE, !.joining = {}]
    /\ UNCHANGED <<disk, work, promised, failed>>

(* The settings' Save: every community's operation is prepared first.      *)
SetProfile(p) ==
    /\ Begins
    /\ work' = [by |-> "profile",
                writes |-> <<ProfileWrite(p)>> \o PublishEverywhere(Groups, p)]
    /\ UNCHANGED <<disk, node, form, promised, failed>>

(* joinCommunity, called by the panel's acceptInvite while it is online.   *)
Joining(c, shown, pend) == /\ c \in Groups /\ ~MemberOf(shown, c)
                           /\ Cardinality(pend) < MaxPending
JoinGroup(c) ==
    IF Joining(c, node.shown, node.pending)
    THEN /\ node' = [node EXCEPT !.pending = @ \union {c}]
         /\ form' = [form EXCEPT !.link = NoGroup, !.joining = @ \union {c}]
         /\ work' = [by |-> "join",
                     writes |-> <<PendingWrite(node.pending \union {c})>>]
    ELSE /\ form' = [form EXCEPT !.link = NoGroup, !.joining = @ \ {c}]
         /\ work' = NoWork
         /\ UNCHANGED node

(* acceptInvite: a link that comes before the panel is online waits.       *)
AcceptInvite(c) ==
    /\ Begins
    /\ IF form.online
       THEN JoinGroup(c)
       ELSE form' = [form EXCEPT !.link = c] /\ UNCHANGED <<node, work>>
    /\ UNCHANGED <<disk, promised, failed>>

(* createCommunity: it shows the name, then the whole profile.             *)
CreateCommunity(c) ==
    LET made == [name |-> node.profile.name, bio |-> NoBio]
    IN /\ node.running /\ node.shown[c] = NotHeld /\ c \notin node.pending /\ Begins
       /\ work' = [by |-> "other",
                   writes |-> <<ModelWrite(c, made)>> \o PublishProfile(c, made, node.profile)]
       /\ UNCHANGED <<disk, node, form, promised, failed>>

(* edit, with a departure.                                                 *)
LeaveGroup(c) ==
    /\ MemberOf(node.shown, c) /\ Begins
    /\ work' = [by |-> "other", writes |-> <<ModelWrite(c, Former)>>]
    /\ promised' = promised \ {c}
    /\ UNCHANGED <<disk, node, form, failed>>

(* A snapshot that admits this node has been merged: the community is      *)
(* saved, the invitation withdrawn, and what the host wrote of the joiner  *)
(* - its name when it promised, and no more - replaced by the profile.     *)
SnapshotAdmits(c, n) ==
    LET made == [name |-> n, bio |-> NoBio]
    IN /\ node.running /\ c \in node.pending /\ Begins
       /\ work' = [by |-> "merge",
                   writes |-> <<ModelWrite(c, made),
                                PendingWrite(node.pending \ {c})>>
                              \o PublishProfile(c, made, node.profile)]
       /\ UNCHANGED <<disk, node, form, promised, failed>>

(* Any other snapshot: its merge ends with publishProfile too.             *)
Merged(c) ==
    /\ node.running /\ MemberOf(node.shown, c) /\ Begins
    /\ PublishProfile(c, node.shown[c], node.profile) # <<>>
    /\ work' = [by |-> "merge", writes |-> PublishProfile(c, node.shown[c], node.profile)]
    /\ UNCHANGED <<disk, node, form, promised, failed>>

(* The host's "rejected".                                                  *)
Rejected(c) ==
    /\ node.running /\ c \in node.pending /\ Begins
    /\ work' = [by |-> "merge", writes |-> <<PendingWrite(node.pending \ {c})>>]
    /\ promised' = promised \ {c}
    /\ UNCHANGED <<disk, node, form, failed>>

-----------------------------------------------------------------------------
(* A community's file before the memory; the list of invitations after it. *)
Remembered(w) ==
    CASE w.file = "profile" -> [node EXCEPT !.profile = w.value]
      [] w.file = "model"   -> [node EXCEPT !.shown[w.community] = w.value]
      [] w.file = "pending" -> [node EXCEPT !.pending = w.value]
Stored(w) ==
    CASE w.file = "profile" -> [disk EXCEPT !.profile = w.value]
      [] w.file = "model"   -> [disk EXCEPT !.shown[w.community] = w.value]
      [] w.file = "pending" -> [disk EXCEPT !.pending = w.value]

Write ==
    /\ work.writes # <<>>
    /\ LET w == Head(work.writes)
       IN /\ disk' = Stored(w)
          /\ node' = Remembered(w)
          /\ work' = [work EXCEPT !.writes = Tail(@)]
          /\ promised' = IF work.by = "join" THEN promised \union {c \in w.value :
                                                  node.shown[c] = NotHeld} ELSE promised
          /\ form' = IF w.file = "pending" /\ work.by = "merge"  \* joined, joinRejected
                      THEN [form EXCEPT !.joining = @ \ (node.pending \ w.value)]
                      ELSE form
    /\ UNCHANGED <<failed, storeFaults>>

(* The exception leaves the other writes; the start is undone, and the     *)
(* panel drops the join it had announced.                                  *)
WriteFails ==
    /\ work.writes # <<>> /\ storeFaults.failures < MaxFailures
    /\ LET w == Head(work.writes)
       IN /\ node' = CASE work.by = "start" -> [node EXCEPT !.running = FALSE]
                       [] w.file = "pending" -> Remembered(w)
                       [] OTHER -> node
          /\ form' = IF work.by = "join"
                      THEN [form EXCEPT !.joining = @ \ (w.value \ disk.pending)]
                      ELSE form
    /\ work' = NoWork
    /\ failed' = TRUE
    /\ storeFaults' = [storeFaults EXCEPT !.failures = @ + 1]
    /\ UNCHANGED <<disk, promised>>

(* The handler returns; a start and a Save go on in the panel.             *)
Done ==
    /\ work # NoWork /\ work.writes = <<>>
    /\ CASE work.by = "start" ->
              LET opened == [form EXCEPT !.online = TRUE, !.joining = node.pending]
                  c == form.link
              IN /\ disk' = [disk EXCEPT !.setting = form.field]
                 /\ failed' = FALSE
                 /\ IF Joining(c, node.shown, node.pending)
                    THEN /\ node' = [node EXCEPT !.pending = @ \union {c}]
                         /\ form' = [opened EXCEPT !.link = NoGroup,
                                                    !.joining = @ \union {c}]
                         /\ work' = [by |-> "join", writes |->
                                       <<PendingWrite(node.pending \union {c})>>]
                    ELSE /\ form' = [opened EXCEPT !.link = NoGroup]
                         /\ work' = NoWork
                         /\ UNCHANGED node
         [] work.by = "profile" ->
              /\ disk' = [disk EXCEPT !.setting = node.profile.name]
              /\ form' = [form EXCEPT !.field = node.profile.name]
              /\ work' = NoWork
              /\ UNCHANGED <<node, failed>>
         [] OTHER -> work' = NoWork /\ UNCHANGED <<disk, node, form, failed>>
    /\ UNCHANGED <<promised, storeFaults>>

(* The program dies, whatever it was doing, and is started again.          *)
NodeDies ==
    /\ storeFaults.crashes < MaxDeaths
    /\ storeFaults' = [storeFaults EXCEPT !.crashes = @ + 1]
    /\ node' = Loaded(disk)
    /\ form' = PanelOpens(disk, NoGroup)
    /\ work' = NoWork
    /\ UNCHANGED <<disk, promised, failed>>

StoreNext ==
    \/ \E n \in OwnNames : Start(n)
    \/ Stop
    \/ \E p \in ShownProfile : SetProfile(p)
    \/ \E c \in Groups :
          \/ AcceptInvite(c) \/ CreateCommunity(c) \/ LeaveGroup(c)
          \/ \E n \in OwnNames : SnapshotAdmits(c, n)
          \/ Merged(c) \/ Rejected(c)
    \/ Write \/ WriteFails \/ Done \/ NodeDies

StoreSpec == StoreInit /\ [][StoreNext]_storeVars

-----------------------------------------------------------------------------
(* However a Save, a start or a merge was cut short, once a start has      *)
(* succeeded every community the user belongs to shows the user's profile, *)
(* on disk as in memory, and so does the profile's own file.               *)
ProfileIsEverywhere ==
    AtRest /\ form.online /\ ~failed =>
        /\ disk.profile = node.profile
        /\ \A c \in Groups : MemberOf(disk.shown, c) =>
              disk.shown[c] = node.profile /\ node.shown[c] = node.profile

(* An invitation that was saved is either still waiting, on disk and in    *)
(* the running node, or the community it leads to is held; and the panel   *)
(* announces no join that the node does not pursue.                        *)
JoinIsNotForgotten ==
    /\ \A c \in promised : c \in disk.pending \/ MemberOf(disk.shown, c)
    /\ AtRest => \A c \in promised : c \in node.pending \/ MemberOf(node.shown, c)
    /\ AtRest /\ form.online /\ ~failed => form.joining \subseteq node.pending

(* What a user put into the store stays there, through failures and deaths. *)
StoreInv == StoreTypeOK /\ ProfileIsEverywhere /\ JoinIsNotForgotten
=============================================================================
