# Disquisition in TLA+

Disquisition is a peer-to-peer community client (C++/Qt). A community has no
server: every member keeps the whole log of signed metadata operations, derives
the community from it, exchanges it with the members it is connected to over
mutual TLS, and takes part in admitting new members. A relay forwards encrypted
tunnels between peers that cannot reach each other. Chat, voice, screens and
drawings travel as packets over the same links.

This directory holds a model of that program, the TLC runs that check it on small
instances, and proofs that TLAPS checks for all sizes. `PROJECT.json` lists the
runs, the mutants (a plausible bug per property that TLC must find), the source
lines behind each definition, the hazards and the findings.

    tlc -workers 2 -config node_pair.cfg MCCommunityNode
    tlapm CommunityNodeProofs.tla

## Inventory

| Component | State | Operations | Hard behaviours | What makes it correct |
|---|---|---|---|---|
| Community log, `community/model.cpp` | `operations_` (id to signed operation), and all that `rebuild` derives: members, admins and their grants, invites, revocations, bans, channels, priority, heads, clock | `create`, `change`, `issueInvite`, `admit`, `merge`, `fromJson`, `acceptsIntent`, `host`, `revision` | edits made apart, replay of intents, demotions and removals concurrent with what they concern, limits | the same set gives the same community; removals, bans, departures, revocations and demotions win over what has not seen them and touch nothing else; honest logs always merge |
| Community node, `community/node.cpp` | `models_`, `peers_` and `links_` with per-link sets (`allowed`, `ready`, `synchronizing`, `admissions`, `snapshots`), `pending_`, `joining_`, `mine_`, `presence_`, retry timers | `start`, `edit`, `invite`, `joinCommunity`, `setVoice`, `handle` (one case per message), `mergeSnapshot` on another thread, `tick`, `processAdmissions` | messages that cross, the log moving during a validation, lost links, restarts, redirects, timers racing answers | access follows membership; metadata stays inside; what is connected and quiet agrees; admissions wait for news; joins and departures arrive; the flood dies out |
| Peer registry, `Node::encrypted`, `Node::dial` | `peers_`, `links_`, `retries_` | dial, accept, TLS handshake | both ends dial at once, a dead link that one end still shows | one link per pair, the same at both ends, and in the end one |
| Relay, `relay/community_router.cpp`; relay client in `node.cpp` | `registered_`, `waiting_`, sessions and their pairs | register, connect, accept, bridge, idle timers | a ticket that is accepted late, a closing side with data in flight, replaced registrations | a ticket pairs exactly its two sides, once; nothing dangles when a side goes |
| Packets, `Node::sendPacket`, `validPacket`; video queue | `seenMessages_`, `Link::video` | send, receive, pace, drop | video overtaken by presence, a link that is not ready | a packet is for members only; voice is not starved by video |
| Profile and invitations on disk, `node.cpp`, `store.cpp`, panel | `profile.json`, one file per community, `pending.json`, settings | `Node::Node`, `start`, `setProfile`, `joinCommunity`, end of a join | a failure or a crash between two writes | the profile becomes the same everywhere; no invitation is lost |
| Identity, file format, QR | key files | sign, verify | | pure functions |
| Updater, `desktop/updater.cpp`, `update_install.cpp` | download, staged payload and its marker, backups | check, download, unpack, stage, install move by move, roll back | a failure half way, a crash between moves, a release that changes meanwhile | the installation is the old or the new build; a bad update is not tried for ever |
| Image transfer, `image_transfer.cpp`, panel | uploads, partial images, `bufferedBytes_` | queue, chunk, expire, disconnect | interleaved senders, limits, ids drawn again | the budget is what the parts hold |
| Screen and camera streams, `screen_capture.cpp`, panel | encoder, frame being reassembled, decoder, watchers | capture, encode, chunk, drop, subscribe, retry | lost and skipped frames, restarts, presence that overtakes | no delta on the wrong picture; a watched share is seen again |
| Sound of shares, `screen_audio.cpp`, `system_audio_capture.cpp` | playback thread's jobs and cushion; recordings per stream | watch, choose device; streams begin, move, end | threads, server replies that cross events | sound comes back on the chosen device; a recording belongs to a stream that plays |
| Voice sound, `relay_audio.cpp`, panel | players, muted peers, who speaks | join, mute, deafen, silence, change devices | queued refreshes, restarts of the audio | who is silenced is not heard; nobody gone shows as speaking |
| Shared drawing, `screen_drawing*.cpp` | sessions, permissions, strokes, tools, gestures | open, permit, stroke, undo, clear, ban, close | strokes, echoes and erasures that cross, a permission withdrawn in mid gesture | only permitted peers draw, and all see the sharer's picture |
| History, `recent_messages.cpp`, panel | entries, cached images, saved messages | receive, load, trim, clear | limits, reloading | transcripts in order, counters exact |
| Notifications, `notification_*.cpp`, `desktop_notifier.cpp` | badge, pacing, one timer, what is shown and its ids | notify, show, settings, window, replies of the D-Bus server | one timer for all; ids that arrive late | nothing waits without a timer, nothing read is shown that can be taken back |
| GIF search, media, `gif_*.cpp`, `remote_media.cpp`, `chat_media.cpp` | pages, cache, callbacks, embeds | search, page, fetch, play, clear | late replies | an answer lands in the search or transcript it was asked for |
| Panel: calls, shares, push to talk, stage | the call, captures, prompts; tiles, full screen, small picture | join, leave, move, share, mute; focus, full screen, Escape | prompts answered late, moves, windows destroyed late | what is captured is announced; nothing goes on in another call; no tile outlives its share |
| Penguin overlay | members, appearance, windows per display | refresh, appearance, activity, displays | three copies of one fact | every window paints who is there as they look |
| Widgets, platform glue, web site | none that is shared | | | |

How they interact: the panel calls the node (`edit`, `setVoice`, `sendPacket`)
and listens to its signals; the node calls `Model` synchronously on copies and
`Store` before it replaces its copy in memory (`Node::save` writes first); nodes
talk to each other by messages over one TLS link per pair, directly or through the
relay; the only second thread is the one that validates a snapshot, and it works
on copies.

## What is modelled

### CommunityModel: the log and its derivation

No variables. A log is a function from ids to operations; an id is `<<clock,
digest>>`, exactly what `rebuild` sorts by. `Rebuild` follows
`Model::rebuild`: the structural checks are `ValidLog`, the lambdas are
`Authorized`, `ClearedBy` and `CouldAct`, each branch of the loop is an
`Apply...` operator, and the three passes after the loop are `Dropped`. Where the
code walks parents (`Model::ancestor`) the model keeps with each operation the set
`past` of what the walk reaches, which never changes once an operation is
signed. `MayChange` and `AcceptsIntent` are the checks before an append.

Abstracted: text formats, signatures and proofs (they hold for what the program
signs), icons (they behave as names do), the byte limit (the operation limit is
kept).

### CommunityReplicas: devices that edit apart

`log[p]` and `model[p]` are one device's copy. One action per kind of local edit
(`Model::change` and `append`), `Admit` (`Model::admit`, for any intent that may be
presented, old ones included) and `Receive` (`Model::merge`, or `fromJson` on a device that
has nothing). Messages may be delayed, lost and repeated for ever, because any
device may receive any other's log at any time. A crash is not an action: the code
saves before it changes its copy in memory, so a restart restores `log[p]`.

Digests of new operations are arbitrary. Only their order among operations of one
clock matters, so a new digest is the midpoint of any gap in use
(`Digests`); `DigestTop` = 8 leaves room for three generations of concurrent
operations, more than `MaxTotal` allows.

### CommunityNode: links, exchange, admissions

For one community, `ops[p]` is the set of operations in `models_`, and a
revision is that set. Membership uses the rule that the log runs check as
`RemovalsWin`. `link[p][q]` is one end of a link with the fields of
`Node::Link`; `chan[p][q]` the messages in flight, in order; `invited[p]` is
`pending_`, `joining_` and the seeds; `admitting[p]` the loop of
`processAdmissions`, whose turns are steps of their own only so that each can be
read separately: the device does nothing else meanwhile (`Idle`).

| Code | Action |
|---|---|
| `handle`, one case per message | `HandleHello`, `HandleJoin`, `HandleRejected`, `HandleRedirect`, `HandleOffer`, `HandleStateRequest`, `HandleState`, `HandleSynced`, `HandlePresence` |
| `mergeSnapshot`, its retry and its completion | `HandleState` starts it, `MergeAgain`, `MergeFinishes` |
| `edit`, `invite`, `joinCommunity`, `setVoice` | `Edit`, `Leave`, `Delete`, `Expel`, `SetPriority`, `Revoke`, `Invite`, `JoinCommunity`, `SetVoice` |
| `tick` | `TickJoin`, `TickUseless`, `TickAdmissions`, `Recovered`, `Connect` |
| `processAdmissions` | `AdmitNext` |
| `Node::Node`, `start` after a crash | `Restart` |
| `disconnected` | `AbortLink` in the actions that lose a link, `Disconnect`, `HandleEnd` |

Abstractions, each of which keeps the control:

- The owner administrates; who may administrate is the subject of `CommunityReplicas`.
- A link goes down at both ends in one step, and a new one is made after that.
  That a pair agrees on one link at a time is the promise of `OneLink`, which `PeerRegistry` is shown to keep.
- `state-begin`, `state-operation` and `state-end` are one message: nothing else of
  the same link comes between, and reading stops during a validation (`merging`).
- Snapshots of honest devices never fail validation
  (`NothingIsMalformedThm`); the size limits are not in this module.
- The seeds of an invite are its issuer and then the members. A later seed may be
  chosen when the earlier ones are not connected, as `dial` backs off.
- A join intent is always fresh; replays are in `CommunityReplicas`.
- Timers are armed or not. What a timer does while messages are still on their way
  counts against `MaxBreaks`; once nothing is on its way it may act freely.

The code lets a member edit while connections are still synchronizing
(`Node::edit`, with a comment that says why, and the test
`localAuthorityDoesNotDependOnPeerSynchronization`), whereas
docs/communities.md says that such connections block administrative edits. The
model follows the code: edits are never held back, and only admissions are
(`AdmissionsFollowSync`).

### RelayRouter: the relay and its clients

A slot is one TCP connection, named by its client and local port; `end[s]` is the
client's end of it (`relay_`, or the fields of a `Node::Link` that is still to be
tunnelled) and `session[s]` the relay's (`CommunityRouter::Session`). The two go
separately: when one end closes, the other notices in a later step, or, if the network has cut the
connection (`cut`), only by its timers. `up` and `down` are the frames on the way.
`registered` and `waiting` are the router's maps and `relay[c]` holds `relay_`,
`relayNonce_` and `relayRegistered_`.

| Code | Action |
|---|---|
| `connectRelay` with `CommunityRouter::adopt`, `dial` to a relay endpoint | `ConnectRelay`, `Dial` (`Open`) |
| `readRelay`, `registerRelay` | `ReadRelay`; `ChangeMembership` is the `save` that registers again |
| `read` before TLS | `ReadLink` |
| `disconnected` and the cleanup of `connectRelay` | `ClientSeesClose` and every other use of `ClientCloses` |
| `tick` | `TickGivesUp` |
| `CommunityRouter::read`, `route`, `bridge` | `Route`, by `RouteRegister`, `RouteDial`, `RouteAccept` |
| the `disconnected` slot of `adopt` | `RelaySeesClose` and every other use of `Drop` |
| the timer of the constructor | `TickIdle` |
| `Node::stop` or a crash, `CommunityRouter::close` or a crash | `RestartClient`, `RestartRelay` |

Abstractions:

- A connection is made, adopted and challenged in one step; one that the relay refuses is
  open at the client and not live at the relay.
- The random nonce and ticket of a connection are the slot itself. A slot is used
  again only when nothing mentions its last connection (`Free`).
- All requests are signed, so a client writes requests in its own name only.
- Which of several listed members answers a call is left open; the code takes the
  first in the order of the ids.
- Forwarded bytes and pings are left out. `Mute` and `UnderWay` say when the silence that the timers
  wait for is possible: a timer (10 s or more) does not run out while a frame or a
  close is on its way, except as the fault `Abort`, which may hit any connection at any
  time.
- A client calls whenever it has no link for the call. That the peer may be reached on
  another route (`peers_.contains` in `dial`) is left out; which links a pair keeps is `PeerRegistry`.

### OneLink and PeerRegistry: which of two links a pair keeps

`OneLink` is what everything above relies on: the pair agrees on at most one link,
gives up the smaller device's link only after a fault, and never goes from one
link to another without a moment of none. `PeerRegistry` is the code: `DialPeer`
is `Node::dial`, `HandshakeEnds` is `Node::encrypted` with its rule
(`PreferOutgoing`, `KeepsExisting`), `EndCloses` the `disconnected` handler of
`makeLink` and the timers of `tick`. The two ends are separate, so handshakes of up to four
connections end in any order, and an end may still show a link that the other has
aborted. `ImplementsOneLink` is the refinement, with `AgreedLink` as its mapping.

### NodeStore: files of a profile and of invitations

A handler of the node writes several files in a row. `work` holds what is left of
them, `Write`, `WriteFails` and `NodeDies` take it from there, and nothing else runs
meanwhile. `Start`, `SetProfile`, `PublishProfile` and the others list the writes in the order of the
code.

### Updater and Installation

`Updater` models the disk (installed files, payload, marker, backups) and the
application that may die between any two file operations; each move may be refused.
`Installation` promises that the folder holds a whole build, the old or the new one, except
after a crash in the middle of the moves or a second failure during a rollback.
`ImplementsInstallation` is the refinement.

### The machines of the desktop

| Module | Code | What its actions interleave |
|---|---|---|
| `Calls` | panel: `joinVoice`, prompts, camera, share, mute, push to talk; `Node::setVoice`, `move-voice` | prompts that answer late, moves by admins, deletions, queued refreshes |
| `ScreenStream` | `ScreenCapture`, `sendScreenFrame`, assembler, decoder, subscription | encoding thread, video queue, presence, links not ready, stopping and starting again |
| `ShareSound` | `screen_audio.cpp` | jobs for the playback thread, sink reads, broken devices, choices of the user |
| `SoundCapture` | `system_audio_capture.cpp` under PulseAudio | requests, replies, events, streams that move and end |
| `VoiceSound` | `relay_audio.cpp`, panel | presence, packets, buttons, other devices, refreshes |
| `SharedDrawing` | `screen_drawing_session.cpp` over `ScreenDrawing`, `drawing_protocol.cpp` | packets of a sharer and viewers, lost links, bans, clears |
| `DrawingTools` | `screen_drawing.cpp` on one device | gestures, timers, what others send meanwhile |
| `ScreenStage` | `screen_stage.cpp`, panel | shares that begin and end, windows destroyed late |
| `ImageTransfer` | `image_transfer.cpp`, uploads of the panel | senders, time-outs, lost links, ids drawn again |
| `ChatHistory` | `recent_messages.cpp`, transcript of the panel | arrivals, loading, trimming, switching off |
| `Notifications` | `notification_center.cpp`, `notification_rules.cpp`, `unread_badge.cpp`, `desktop_notifier.cpp`, `freedesktop_notifications.cpp` | senders, one timer, settings, window; ids of the D-Bus server that come after the notification was to be taken back |
| `Media` | `gif_search.cpp`, `gif_picker.cpp`, `remote_media.cpp`, `chat_media.cpp` | searches, pages, downloads, cached answers, closing |
| `Penguins` | `penguin_overlay.cpp`, panel | rosters, packets, displays, activity |

`PanelState` joins `ImageTransfer` and `ChatHistory`, which share the panel, in one invariant.
Left out of all of them: painting, wording, codecs and mixing, and the values of timers. Sound is
counted in pieces of one length, time in ticks, bytes in units of one chunk or one
image size; a stroke is a set of segments.

### How machines are composed

These machines share no variable with one another, and each property speaks of one of them.
`MCDesktop` and `MCLive` choose at the start which one runs (`machine`) and leave the
others as they began, so that one instance checks the sum of their states and not
the product. What does interact is inside one module: a sharer and its viewers, the panel and
its node, the application and its disk, a client and its relay.

## The runs

| Run | Instance | Shows |
|---|---|---|
| `log_membership` | owner, two members; admissions, departures, removals, bans, unbans, revocations, 7 operations of which 4 are free; and every kind from the first operation on, 5 operations, with room for one channel | `RemovalsWin`, `IntentsAdmitOnce`, `EditsTakeEffect`, `NothingIsMalformed` |
| `log_roles` | an admin, promoted and demoted, removed, inviting, admitting; 7 operations | `TypeOK`, `DemotionsWin`, `AuthorsNeverFork`, `EditsTouchOnlyTheirSubject` |
| `log_regrant` | as `log_roles` | finding: `GrantsAuthorize` fails |
| `node_pair` | two devices, every kind, voice, decorated profile, two joins, one fault; 3 operations besides admissions and profiles | `TypeOK`, `AccessMatchesMembership`, `SnapshotsStayInside`, `QuietLinksAgree` |
| `node_trio` | b hosts, a and b are apart and b may leave; c joins with an invite that names a, who redirects c to b while b is connected and admits c otherwise; no fault | `QuietLinksAgree`, `AdmissionsFollowSync` |
| `node_live` | two devices with edits, departures, a rejoin and a fault, fair | `FallsSilent`, `JoinsSettle`, `DeparturesArrive` |
| `live` | a pair that dials each other, 2 links each, one cut, one restart; c joins at the owner while b hosts; one share and its viewer; the sound of a share; each fair | `OneLinkLasts`, `JoinsSettle`, `StreamIsSeenIntact`, `ShareIsHeard` |
| `desktop` | one small instance of each desktop machine above (`Media` as two) | `ImplementsInstallation` and one invariant per machine |
| `relay` | clients x and y, where x calls z, who is not running, and y may answer for the community; y may leave or enter; one cut, restart or abort; at most 5 sessions and one link per client, fair | `TypeOK`, `DirectoryIsSound`, `TunnelsJoinTheRightPeers`, `QuietListings`, `RegistrationsArrive`, `CallsGetThrough` |
| `node_late` | members a and b already in sync, c still to join, one priority change, one fault | finding: `QuietLinksAgree` fails |
| `node_removed` | two devices, a removal made offline, fair | finding: `RemovalsArrive` fails |
| `node_rejoin` | two devices, leaving, rejoining and a restart, fair | finding: `RejoinsArrive` fails |

What the invariants of `desktop` join (each is stated in its module, part by part):

| Invariant | What it says |
|---|---|
| `UpdaterInv` | a marked payload is one whole release wherever the application died; a payload is installed, or tried, at most once |
| `CallsInv` | the peers are told what is captured, but for a share that the system ended since the panel last published; a camera films for no other call than its own; the microphone follows mute, key and call |
| `NotificationsInv` | while muted or in view nothing is counted or waits, and what is still shown could not be taken back; what waits has an armed timer |
| `PanelMemory` | counters of partial images and cached images are what is held; transcripts are in order, each message once |
| `DrawingInv` | a viewer that has settled has the sharer's ink, permission and epoch |
| `MediaInv` | results are pages of one search, "loading" lasts exactly as long as an answer may come; no embed shows another's picture |
| `SoundInv` | after every message is handled, the recordings are exactly the server's |
| `ToolsInv` | tools, gestures, selection and the overlay follow permission; what fades has a timer |
| `VoiceSoundInv` | audio follows the call and its buttons; nobody silent or gone shows as speaking |
| `StageInv` | focus, full screen and small picture refer to shares that are there; Escape is taken only when it ends something |
| `StoreInv` | one profile everywhere after a start that succeeded; a saved invitation waits or its community is held |
| `PenguinInv` | every window shows exactly the active online members, each as the panel knows it |

`OneLinkLasts` joins `RegistryTypeOK`, the refinement `ImplementsOneLink` and
`NothingLeftOver` (in the end one link and no connection besides). `StreamIsSeenIntact` says that a
viewer's picture is never built on the wrong one, and that a share that stays watched is
seen again and again. `ShareIsHeard` says that what plays is watched and plays
on the device chosen last, and that a watched share on a working device is heard again after every shortage.


Why the bounds are enough. A conflict in the log takes an edit, one concurrent with
it, and one that has seen one of them and not the other; the scripted prefixes of
`MCCommunityReplicas` leave room for that many after the community has its
members. The node's exchanges involve two ends of one link and what either
learns from a third device; two devices with all faults, and three with a join in
progress, show every message crossing every other. The node runs stop
enabling operations, breaks, joins and calls at `MaxMade`, `MaxBreaks`, `MaxJoins` and
`MaxCalls`; merges, admissions and messages are not bounded, so that the runs see
each exchange to its end. All runs set `CHECK_DEADLOCK FALSE` because a system
at its bounds, with nothing in flight, really stops.

`log_membership` runs two instances in one, since they share everything but where they
start: `MCCommunityLog` with `FoundingBound` = 5 and `MaxTotal` = 7.

In `desktop` and `live` each bound is the smallest at which the case of interest
happens, and often one above:

- Updater: three builds, of which one adds a file and one drops the executable, so that mixtures can be told from
  builds; one crash, two refused moves and two refused removals are what it takes to fail, fail in the rollback,
  repair, and keep a marker and a payload that should go.
- Calls: two channels of one community and one of another, and three requests: a move within, a change between, and
  one more prompt that is late.
- Notifications: two senders, a cooldown of two ticks and a clock of three: each sender shows, waits, and shows again,
  and the timer fires early. Over D-Bus and with a tray icon `NoticesNext` lets the settings change by muting only and the window
  hide when it is not active; over D-Bus one sender writes, whose notification gets a new id while the first is awaited.
- Images: two senders, two ids, two chunks, a budget of two: each limit is reached, with a third image
  that draws an old id. History: two channels, three entries, two cached images of up to two sizes,
  four arrivals: every trim happens.
- Drawing: a sharer and one viewer, three segments in the record, two per author, three epochs, one fault. The first epoch has no
  drawing, the second has one, and the third follows a clear, a withdrawn permission or a record that is full, with packets
  of the second under way. Viewers only meet in the sharer's
  picture; one is enough for each crossing with it. After a fault `InkNext` sends a packet only when none waits.
- Media: two addresses, two pages, two searches, one that plays. Capture: two streams of which one is
  chosen, two sinks, two recordings. Stage: this device and one peer, four tiles. Store: two communities,
  two names, three calls, one failure and one crash. Penguins: two members, two displays, four turns.
- Registry: two numbers per device, which is every connection that `dial` can leave under way, one cut and one
  restart. Stream: numbers modulo 4, so that they wrap; one loss, one share. Sound: packets of 3
  and reads of 2 against a cushion from 4 to 6, so that no length divides another.

In `relay`, two clients suffice because a session meets at most one other; 5 sessions
are reached when both ends of a call are retried before the relay has noticed that the old
connections are gone, so that a connection is refused, and a limit of one link makes
the called client drop calls. The invariants were also explored with two links per client and two
faults, over 3 million states without a violation and without reaching the end.

`node_live` leaves out a restart of a device that is joining again, which is what
`node_rejoin` shows to be fatal; `node_trio` has no fault for the same reason
with regard to `node_late`.

Fairness (`Fairness` in `CommunityNode`): each event loop runs, so what has arrived is
handled, timers fire, and the network carries what was sent; members that
dial each other do get connected (`tick` retries for ever, with bounded backoff). The
first seed of an invite is tried infinitely often (strong fairness of `TickJoin(p,
1)`) because its backoff ends. Nothing else is assumed: users need not act, and faults
need not happen.

In `RelayRouter` fairness is weak and per connection: both event loops read what has
arrived, a connection that is closed is seen to be, one that is cut runs into its
timers, and a client connects and calls again when its retry is due. Users need not
change anything and faults are not assumed to happen.

In `live` one machine runs, and the fairness is that of this machine (`LiveFairness`):
`RegistryFairness` (`tick` dials again, a handshake whose bytes arrive ends, a
closed or silent socket is noticed), `Fairness` of the node, `StreamFairness` (timers of capture and
subscription, the encoding thread, the link's queues and their reader) and
`ShareSoundFairness` (the playback thread's loop, the sink's pulls, and, strongly, packets that keep coming while
the share is watched). All else is weak fairness of a loop, a timer or a thread
that the code starts and does not stop. No fault and no user's choice is assumed to happen or to end
other than by the bounds.

The runs do not check for deadlock: every machine may reach its bounds at rest.

## What is proved

Each theorem holds for every value of the constants that the assumptions of its module
allow (`ModelAssumption`, `ReplicaAssumption`, `NodeAssumption`, and so on; they say what the code makes true:
limits are natural numbers, the owner is a peer, there is a name). The bounds of
the runs are among those constants, so a theorem holds for any number of edits, faults and arrivals. No fairness
is used. A theorem is proved as `Init => IInv`, `IInv /\ [Next]_vars => IInv'`
and `IInv => property`.

### CommunityReplicasProofs

- `NothingIsMalformedThm`, `AuthorsNeverForkThm`, `IntentsAdmitOnceThm`. The
  inductive invariant `IInv` says that two devices that hold an id hold the same
  operation under it (`Agreement`), that each device holds all of its own operations
  (`AuthorsHoldTheirOwn`), that every log is valid, has one origin, and is closed under
  `past`, which is strictly older (`SoundLog`), that only the host an intent names
  records its admission (`HostsAdmit`), and that clocks are bounded. Each of the three properties is not inductive alone: a merge keeps it only
  because the two logs agree where they overlap and each device holds all of its own.
- `RemovalsWinThm`, `DemotionsWinThm`, `ReplicaTypesThm`: what `Model::rebuild` makes of any log. This
  takes two inductions. The first is over the places of the order (`AppliedSteps`, `AppliedDerived`, `AppliedFits`):
  each turn of the loop leaves a model whose members have an admission that the bans
  and revocations of the log do not reach, whose invites are authorized, and whose admins are exactly those with a grant
  at hand. The order itself is shown to name operations of the log, by ranks (`OrderedEnumerates`). `MembersStand`, `InvitesStand` and
  `GrantsOutlast` carry this through the three passes after the loop.
  The second is over the steps of the system: `ReplicaInv` adds to `IInv` that every log is finite and holds
  only what the editing functions make (`LogsMeant`), that each model is the one
  derived from its device's log (`ModelsDerived`), that no code is issued twice (`CodesIssuedOnce`) and that each is revoked only
  after (`RevokesFollowInvites`). The last two are needed because a revocation names a code: only then does the invite of an
  admission that stands have one grant, and is a new invite not revoked already.
- `EditsTakeEffectThm`, `EditsTouchOnlyTheirSubjectThm`: they compare what `Model::rebuild` makes of two logs, of which
  the second has one operation more that has seen all others (`Grown`: what `Model::append` makes, by `AppendFacts`).
  The new operation comes last in the order (`GrownOrder`), and before it both loops make the same of every place
  (`GrownLoop`, with `Alike` for models that differ only in what is gathered before the loop), because no question that `rebuild`
  asks of an operation is answered otherwise by one that has seen it (`GrownAuthority`, `GrownCouldAct`, `GrownAdmissible`).
  What is left is the turn of the new operation: the checks the device made in its model must give what the loop asks of the log. This takes
  an invariant of the loop (`Settled`): a member was admitted after whatever was held against him, so that he can
  act, and an admin's grant at hand is the last role the owner gave him, so that it authorizes. A new channel at the limit is the exception
  that the theorem states. The proof also shows
  that the passes after the loop drop nobody (`NobodyIsDropped`), which is why the two models may be compared by their loops.

### CommunityNodeProofs

- `AccessMatchesMembershipThm`. The inductive invariant `IInv` adds to the property
  what keeps it going: a link that is down is blank (`Shape`), and the loop of
  admissions only visits links with an admission to decide (`VisitsLinks`), since
  `AdmitNext` grants access to the peer it visits. Each handler
  that saves a new log recomputes, by `Announced`, the access of every link from the log
  it saved; a handler that saves nothing only grants what `Writable` allows.
- `NodeTypesThm`, `SnapshotsStayInsideThm`, from `Typed`: a log that is not empty
  begins with the creation, a link that is down has kept nothing, `admitting` names links that wait, and
  a queue to `q` carries, of snapshots, only those that prove `q` an admitted member or the owner. `Typed` alone is not inductive: a
  snapshot is sent to whom the link allows, and that this follows the log is `IInv`.
- `RegistryTypesThm` and `OneLinkThm`, of `PeerRegistry`, for any number of connections under way. `RegistryTypeOK` is inductive: its
  part `registered[p] = l <=> ends[l][p] = Encrypted` makes a link that both ends have registered
  alive at both, so that only silence ends it, and makes a new handshake end on a link other than the registered one.
  `OnlyOthersAreReplaced` is where the rule of `Node::encrypted` enters. Each action is then a step of `OneLink` or
  none (`RegistryStepRefines`).

### RelayRouterProofs

- `DirectoryIsSoundThm` and `RelayTypesThm`. `DirectoryIsSound` is not inductive: a caller that waits could become
  registered or a tunnel's other end if it ever wrote a second request. `IInv` adds that every
  connection has one purpose (`ClientSide`, `SinglePurpose`: the control connection only carries
  registrations, any other carries one request, in answer to the only
  challenge), that a client writes in its own name and nothing is queued for a
  closed session (`RequestsAreOwn`), and that pairs are mutual (`Pairs`). The lemmas
  `DroppedKeeps`, `ClosesKeeps`, `OpenedKeeps`, `AskedKeeps`, `NotedKeeps` and
  `GrantedKeeps` each cover a kind of step, and every action is an instance of one.
- `TunnelsThm`, from `TunnelsFit`: at every stage of a call (asked, waiting, announced, taken,
  bridged, in TLS) both ends and everything on its way agree on who calls whom, also when either end has
  closed meanwhile.
- `ListingsThm`, from `ListingsFit`: the last registration that a client has written on its control
  connection, or that the relay has read, says whether it is a member now. While one is on its
  way the relay's list may be old; when nothing is, it is not.

### FilesProofs: what survives a crash

- `UpdaterThm` and `InstallationThm`, for any releases, crashes and refused operations. The invariant: a marked payload was
  not tried and is of one build (`MarkerSound`); what is under way to be staged is one build, not older than what
  is installed (`DownloadSound`); in the middle of an install, the backups of the files that were touched together with the
  files that were not are the folder as it was, and the new build will be
  whole when all moves are done (`InstallSound`). The last makes the end of the moves, and the end of a rollback, a step of
  `Installation`. `StagedIsWhole` is claimed for up to one refused removal: TLC found
  that it takes two (a marker that cannot be removed, then a payload that cannot be
  emptied) to stage a mixture.
- `StoreThm`. Neither part of `StoreInv` holds in the middle of a handler, so `StoreIInv` speaks of the writes that are left:
  each community shows, after its last write that is left, the profile that the handler saves first (`Follows`);
  no write drops a promised invitation unless an earlier one saves its community (`WriteSound`). A start that
  fails leaves the files in disagreement, and `failed` set, until `publishProfile` of the next
  start names every community that differs (`EverywhereWritten`, by an enumeration of the communities).
  `StoreAssumption` says that the communities are finitely many.

### The desktop: CallsProofs, PanelProofs, DrawingProofs, ChatProofs

- `CallsThm`. The handlers of the panel call one another, so each has a lemma: given a device of which
  the node knows no other call than the panel's (`InOneCall`), it leaves one that is in order (`Sound`), and
  each action is a chain of them. `CallsInv` is not inductive: a refresh takes the mute button from what the
  peers were told, and finds it right only because an open microphone without push to talk was never told as muted (`Tells`).
- `SoundThm`. Between the panel and the thread of the audio server go two queues, and `SoundInv` speaks of the moments at which
  both have been handled. The invariant names each recording by application and number, and says of every one that is held
  that it is live, still to be opened, or reported as ended (`Accounted`); of one that is live, or to be opened, that it is held or will be
  stopped (`Followed`, `Stopped`); and that what is to be stopped is no longer held (`Gone`). The applications are finitely many.
- `StreamThm`, the safety part of `StreamIsSeenIntact`: a decoder that has a frame to continue shows exactly that
  frame (`ShowsTheLast`), so that a delta is only ever shown on the picture it was built on; and the link has room for the frame
  that is encoded (`LinkIsPaced`), so that it never holds more than one frame beyond its pace.
- `ShareSoundThm`, the safety part of `ShareIsHeard`: of the device and the volume, either the player has the listener's or the
  last job of that kind carries it; of a share no longer watched, either it has no stream and nothing
  is to be played, or a removal comes after all that is (`OutputFollows`, `VolumeFollows`, `SilenceFollows`).
- `StageThm` and `ToolsThm`. The invariants are those the run checks, with the types; the lemmas say what each callee
  leaves of the record it is given.
- `NotificationsThm`. What a Notify call made is taken back only once its id is known. The invariant (`Recalled`) says of
  every notification over D-Bus that its id is known, is awaited, or came too late, and that a later reply only replaces one that
  was too late; so that taking back what is known leaves nothing but that.
- `VoiceSoundThm`, `PenguinThm`, `NotificationsThm`. Here state of the panel is copied (to the audio, to
  an overlay, to a timer) and a refresh may bring the copy up to date later; the
  invariants say of which parts this must be at once, and of which it may wait for the refresh that is then queued.
- `DrawingThm`. `DrawingInv` speaks of a viewer that has settled, with nothing underway; the invariant `DrawIInv` says what is true while packets are.
  A snapshot replaces all a viewer has, so only the packets behind the last `State` count (`Late`).
  Of a viewer who has been sent a snapshot and has lost nothing since (`InSync`) it says: a segment of the sharer's is shown, or its drawing is
  underway, or the viewer has erased it and says so (`ToldInk`); a drawing that is underway is the sharer's, or its
  erasure follows (`TellsInk`); a segment that is shown is the sharer's, is about to be erased, or is a preview on its way to the sharer (`ShowsInk`).
  A device refuses segments it takes for repetitions or for parts of a removed stroke. That it refuses only what it shows already
  or what is gone, or about to be, at the sharer (`RemovesInk`, `RepeatsInk`, `ReceivesInk`) follows from the numbers of segments and strokes, of which an author uses none
  twice before its link is lost (`Numbered`), and from erasures, which are told only of strokes the sharer will not have again
  (`ErasuresOK`). What is numbered anew after a lost link, and a viewer whose record is full, are left out here as in
  `InkAgrees`. For each kind of packet and each end of the link, lemmas say what its arrival
  leaves of this; a snapshot may list the sharer's ink in any order. `DrawingAssumption` has `MaxEpochs` at least 1, since a drawing starts with epoch 1.

- `PanelMemoryThm`, from `ImagesThm` and `HistoryThm`. The panel adjusts its counters by hand beside loops over
  containers, and the invariants (`ImageIInv`, `HistoryIInv`) equate each counter with the sum of what is held. A loop is a fold, whose
  definition is a `CHOOSE` of a recursive function: `FoldExists` and `LoopExists` show that there is such a function, by
  induction on the least size or round without one (`LeastNumber`), after which what a loop keeps follows in the same way.
  Of the transcripts the invariant adds that every message with an image is on the list of those that may be evicted (`Imaged`), so that
  an eviction that is over its bound always finds an image to drop, and that, of the messages saved for a channel, all from the
  first one shown are shown (`Reached`): that is why `loadHistory` may put the others in front of them.
- `MediaThm`. A callback that arrives late must find the tile or the embed it was asked for, or nothing. `CallsOK` says of every one
  under way that it is of an earlier search or of a page that the picker has shown, with that page's GIF (`TileCallOK`), or that its embed is gone or
  still waits for that medium (`EmbedCallOK`). It is inductive because a callback waits in one place only: the one of an embed is either on a
  timer or in the download of its own medium, so that, when it has run, no other finds an embed that no longer waits. The
  callbacks of a download run in the order of their ids; `SortExists` shows that there is such an order, and `PaintAllKeeps` that each
  embed that moves is in `playing_` once, whichever are stopped on the way.

### Only model-checked

- Liveness (`FallsSilent`, `JoinsSettle`, `DeparturesArrive`, `RegistrationsArrive`, `CallsGetThrough` and the parts of
  `OneLinkLasts`, `StreamIsSeenIntact` and `ShareIsHeard` that say "in the end"): fairness is out of the prover's reach. What the
  three say of every state is proved (`OneLinkThm`, `StreamThm`, `ShareSoundThm`).
- `QuietLinksAgree` and `AdmissionsFollowSync` of the node: `QuietLinksAgree` holds for two devices, and for three without faults (finding 2), so that
  its invariant would have to describe each stage of an exchange among so many.

## Findings

1. `log_regrant`: saving an admin's role once more while he edits elsewhere drops his
   edits (`model.cpp:311`).
2. `node_late`: a device that joins through one member while connected to another can
   stay behind the other, with a quiet link (`node.cpp:953`).
3. `node_removed`: a member removed while offline is never told, and reconnects for
   ever (`node.cpp:665`).
4. `node_rejoin`: a restart forgets a pending rejoin; if the host has admitted the
   device already, the two disagree for ever (`node.cpp:113`).

## Plan

Done: the log and its exchange (`CommunityModel`, `CommunityReplicas`, `CommunityNode`), `RelayRouter`,
then `OneLink` and `PeerRegistry`, `Installation` and `Updater`, `NodeStore`, and the
machines of the desktop, with `MCLive` and `MCDesktop` to run them.

Proved: see above. What remains, in the order of worth: the parts of `QuietLinksAgree` that one exchange of metadata
guarantees by itself.

## Not modelled

- `identity`, `qr` and the file formats: pure functions. A signature is unforgeable and a
  single file write atomic in every module, which is what the code gets from them.
- Widgets, platform glue, themes and the web site: presentation without shared state. Of `community_panel.cpp`
  the menus, dialogs, settings pages and the building of widgets are left out, which is most of that file.
- Codecs, mixing, resampling, painting, geometry, screen capture of the platforms, the macOS and Windows captures of sound.
- The record of seen messages (`seenMessages_`, `node.cpp:997`): a packet presented again after 4096 others counts as
  new. The code makes no promise there.
- The limit of snapshots that several links share (`node.cpp:932`), which aborts the
  link that happens to be reading, and the operation limit across a merge (`model.cpp:214`): `CommunityNode` has no
  sizes.
- Tunnels of the relay have no idle timer (`community_router.cpp:35`): the model lets such a tunnel stay as the code does, and no
  property speaks of how many there are.
- A relay closes the other tunnel when one side closes (`community_router.cpp:82`), so a
  rejection or a redirect sent just before may be lost. `CommunityNode`'s links may lose what is in flight when they
  go down; that the relay does it is not composed with it.
- A viewer's strokes after a lost link, numbered from the start again, are dropped by the sharer as repetitions
  (`screen_drawing_session.cpp:142`). `SharedDrawing` reaches this, and `InkAgrees` leaves those strokes out.
- A new channel at the limit of 128 is accepted by `change` (`model.cpp:597`), signed, saved and sent, and ignored by `rebuild`
  (`model.cpp:507`). `EditsTakeEffect` states this exception, and the limit of `log_membership` reaches it.
- A share that macOS ends clears `active` before its error is handled (`mac_screen_capture.mm:89`), so that `stopSharing` publishes nothing and the
  peers stay told of the share until something else is published. `Calls` has this as `ShareEnds`, and
  `PresenceIsTrue` allows it (`unsaid`).
- A tray icon's message, and a D-Bus notification whose id has not arrived, cannot be taken back (`desktop_notifier.cpp:87`,
  `freedesktop_notifications.cpp:99`). `Notifications` keeps them shown, and `QuietWhenRead` allows those only (`overdue`). The
  server is taken to answer in order, to give a new id when the replaced notification is gone, and to report a
  dismissal after its reply.
- A stream that moves before its old recording ended stays silent in the share (`system_audio_capture.cpp:350`).
  `SoundCapture` reaches it; `RecordingsAreLive` allows it, since nothing dangles.
- Several communities in one node's exchange, and admins other than the owner there: they are in
  `CommunityReplicas`, where authority is decided.
