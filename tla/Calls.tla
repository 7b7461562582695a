-------------------------------- MODULE Calls --------------------------------
(***************************************************************************)
(* The call of one device: what desktop/community_panel.cpp captures and   *)
(* what Node::setVoice and the move-voice handler of community/node.cpp    *)
(* tell the peers about it.  The user joins, shares and mutes; permission  *)
(* prompts and the picker of a share answer later; admins move the device  *)
(* to another channel, remove it from a community or delete a channel;     *)
(* the panel catches up with the node in a queued refresh.                 *)
(*                                                                         *)
(* A handler of the panel calls others, so each is a function of the       *)
(* device's state, and an action applies the whole chain.                  *)
(***************************************************************************)
EXTENDS FiniteSets, Integers

CONSTANTS
    Rooms,      \* the voice channels: <<community, channel>>
    NoRoom,
    MaxRequests \* a bound on the joins and captures that are asked for

ASSUME CallsAssumption ==
    /\ Rooms # {} /\ NoRoom \notin Rooms
    /\ MaxRequests \in Nat

VARIABLES
    device,     \* the panel and the node's mine_: see CallsInit
    rooms,      \* the channels that exist in communities it is a member of
    prompts,    \* the questions the user has not answered
    callsAsked  \* how many joins and captures were asked for

callsVars == <<device, rooms, prompts, callsAsked>>

Communities == {r[1] : r \in Rooms}
Quiet == [room |-> NoRoom, muted |-> FALSE, sharing |-> FALSE, camera |-> FALSE]

CallsInit ==
    /\ device = [
        online |-> TRUE,
        room |-> NoRoom,                        \* voiceCid_, voiceChannel_
        mine |-> [c \in Communities |-> Quiet], \* Node::mine_
        capture |-> FALSE, camera |-> FALSE,    \* what is being captured
        unsaid |-> FALSE,       \* history: a share ended by itself, and nothing was published since
        pending |-> NoRoom,     \* the call of an unanswered request for the camera
        cameraRoom |-> NoRoom,  \* the call the camera was asked for in
        mute |-> FALSE, ptt |-> FALSE, held |-> FALSE,  \* buttons, setting, key
        mic |-> FALSE]                          \* the microphone is sent
    /\ rooms = Rooms
    /\ prompts = [join |-> {}, picker |-> FALSE]
    /\ callsAsked = 0

-----------------------------------------------------------------------------
(* The handlers.                                                             *)

\* Node::setVoice: one call across all communities; an unknown channel is refused.
SetVoice(d, room, muted, sharing, camera) ==
    IF room \notin rooms THEN d
    ELSE [d EXCEPT !.mine = [c \in Communities |->
            IF c = room[1]
              THEN [room |-> room, muted |-> muted, sharing |-> sharing, camera |-> camera]
              ELSE Quiet],
                   !.unsaid = FALSE]

\* CommunityPanel::leaveVoice, with PushToTalk::stop, stopCamera and
\* stopSharing: voiceCid_ goes first, so none of them publishes the call that
\* ends, and the refresh at the end finds no call.
LeaveVoice(d) ==
    [d EXCEPT !.room = NoRoom, !.held = FALSE, !.camera = FALSE, !.pending = NoRoom,
              !.capture = FALSE, !.mic = FALSE, !.mute = FALSE,
              !.mine = IF d.online /\ d.room # NoRoom
                         THEN [@ EXCEPT ![d.room[1]] = Quiet] ELSE @]

\* CommunityPanel::refresh: the call is the one the node names; one that the
\* node has lost is published again while its channel is there.
InCall(d) == {c \in Communities : d.mine[c].room # NoRoom}
Shown(d) ==
    LET mine == d.mine[CHOOSE c \in InCall(d) : TRUE]
    IN  [d EXCEPT !.room = mine.room, !.mute = IF d.ptt THEN @ ELSE mine.muted]
Refresh(d) ==
    LET lost == d.room # NoRoom /\ InCall(d) = {}
        kept == IF lost THEN SetVoice(d, d.room, d.mute, d.capture, d.camera) ELSE d
    IN  IF InCall(kept) = {} THEN (IF lost THEN LeaveVoice(d) ELSE d)
        ELSE IF Shown(kept).room \in rooms THEN Shown(kept)
        ELSE LeaveVoice(Shown(kept))

\* CommunityPanel::voiceState.
Silent(d) == d.mute \/ (d.ptt /\ ~ d.held)
VoiceState(d) ==
    IF d.room = NoRoom THEN d
    ELSE Refresh(SetVoice([d EXCEPT !.mic = ~ Silent(d)],
                          d.room, Silent(d), d.capture, d.camera))

\* PushToTalk::setHeld, and stop, which start calls as well.
SetHeld(d, held) == IF d.held = held THEN d ELSE VoiceState([d EXCEPT !.held = held])
UpdatePushToTalk(d) == SetHeld(d, FALSE)

\* CommunityPanel::stopCamera and stopSharing.  cameraRequest_ makes an answer
\* to an earlier request do nothing, so only the last request is kept.
StopCamera(d) ==
    IF d.camera THEN VoiceState([d EXCEPT !.camera = FALSE, !.pending = NoRoom])
    ELSE [d EXCEPT !.pending = NoRoom]
StopSharing(d) == IF d.capture THEN VoiceState([d EXCEPT !.capture = FALSE]) ELSE d

-----------------------------------------------------------------------------
(* The user.  A picker is modal: only keys and answers arrive meanwhile.     *)

UserActs == ~ prompts.picker
Ask == callsAsked < MaxRequests /\ callsAsked' = callsAsked + 1

\* CommunityPanel::joinVoice asks for the microphone ...
JoinVoice(room) ==
    /\ UserActs /\ device.online /\ room \in rooms
    /\ Ask
    /\ prompts' = [prompts EXCEPT !.join = @ \cup {room}]
    /\ UNCHANGED <<device, rooms>>

\* ... and joins when it is granted, whatever call there is by then.
MicrophoneAnswered(room) ==
    /\ room \in prompts.join
    /\ LET there == device.online /\ room \in rooms
           left == LeaveVoice(device)
           joined == VoiceState(UpdatePushToTalk([left EXCEPT !.room = room])) IN
       \/ UNCHANGED device
       \/ there /\ device' \in {left, joined}
    /\ prompts' = [prompts EXCEPT !.join = @ \ {room}]
    /\ UNCHANGED <<rooms, callsAsked>>

HangUp ==
    /\ UserActs
    /\ device' = LeaveVoice(device)
    /\ UNCHANGED <<rooms, prompts, callsAsked>>

\* CommunityPanel::toggleCamera: a second click takes the request back.
ToggleCamera ==
    /\ UserActs
    /\ LET on == device.camera \/ device.pending # NoRoom IN
       \/ on /\ device' = StopCamera(device) /\ UNCHANGED callsAsked
       \/ ~ on /\ device.online /\ device.room # NoRoom /\ Ask
          /\ device' = [device EXCEPT !.pending = device.room]
    /\ UNCHANGED <<rooms, prompts>>

\* "A permission prompt or picker may outlive the voice session."
CameraAnswered ==
    /\ device.pending # NoRoom
    /\ LET answered == [device EXCEPT !.pending = NoRoom] IN
       \/ device' = answered
       \/ /\ device.online /\ device.room = device.pending
          /\ device' = VoiceState([answered EXCEPT !.camera = TRUE, !.cameraRoom = device.room])
    /\ UNCHANGED <<rooms, prompts, callsAsked>>

\* CommunityPanel::share opens the picker ...
Share ==
    /\ UserActs
    /\ device.room # NoRoom
    /\ \/ /\ device.capture
          /\ device' = StopSharing(device)
          /\ UNCHANGED <<prompts, callsAsked>>
       \/ /\ ~ device.capture
          /\ Ask
          /\ prompts' = [prompts EXCEPT !.picker = TRUE]
          /\ UNCHANGED device
    /\ UNCHANGED rooms

\* ... and captures what was picked in it.
SourcePicked ==
    /\ prompts.picker
    /\ prompts' = [prompts EXCEPT !.picker = FALSE]
    /\ device' \in {device, VoiceState([device EXCEPT !.capture = TRUE])}
    /\ UNCHANGED <<rooms, callsAsked>>

\* A camera fails, or a share that still runs: CommunityPanel's handlers stop it.
CaptureFails ==
    /\ \/ device.capture /\ device' = StopSharing(device)
       \/ device.camera /\ device' = StopCamera(device)
    /\ UNCHANGED <<rooms, prompts, callsAsked>>

\* A share that the system has ended runs no more when its error arrives (on
\* macOS didStopWithError clears active first): stopSharing then finds nothing
\* running and publishes nothing, nor does the handler do anything else here.
ShareEnds ==
    /\ device.capture
    /\ device' = [device EXCEPT !.capture = FALSE, !.unsaid = TRUE]
    /\ UNCHANGED <<rooms, prompts, callsAsked>>

\* The mute button, the talk key and the setting that makes it count.
ToggleMute ==
    /\ UserActs /\ device.room # NoRoom
    /\ device' = VoiceState([device EXCEPT !.mute = ~ @])
    /\ UNCHANGED <<rooms, prompts, callsAsked>>

TalkKey ==
    /\ device.ptt /\ device.room # NoRoom
    /\ device' = SetHeld(device, ~ device.held)
    /\ UNCHANGED <<rooms, prompts, callsAsked>>

\* CommunityPanel::settings: new notification settings refresh on the way.
SavePushToTalk ==
    /\ UserActs
    /\ LET saved == [device EXCEPT !.ptt = ~ @] IN
       device' \in {VoiceState(UpdatePushToTalk(saved)),
                    VoiceState(UpdatePushToTalk(Refresh(saved)))}
    /\ UNCHANGED <<rooms, prompts, callsAsked>>

\* CommunityPanel::connectNode, Node::start and stop.
ToggleConnection ==
    /\ UserActs
    /\ device' = IF device.online THEN [LeaveVoice(device) EXCEPT !.online = FALSE,
                                      !.mine = [c \in Communities |-> Quiet]]
                 ELSE [device EXCEPT !.online = TRUE]
    /\ UNCHANGED <<rooms, prompts, callsAsked>>

-----------------------------------------------------------------------------
(* The others.                                                               *)

\* Mutant: the camera goes along to the other channel.
MovedWithCamera(d, room) ==
    LET node == SetVoice(d, room, d.mine[room[1]].muted, FALSE, FALSE)
    IN  Refresh([node EXCEPT !.pending = NoRoom, !.capture = FALSE, !.room = room])

\* An admin moves the device within a community: the move-voice handler (or
\* Node::moveVoice), then the panel's handler of voiceMoved.
Moved(d, room) ==
    LET node == SetVoice(d, room, d.mine[room[1]].muted, FALSE, FALSE)
    IN  Refresh([node EXCEPT !.camera = FALSE, !.pending = NoRoom, !.capture = FALSE,
                             !.room = room])
MoveVoice(room) ==
    /\ device.online /\ room \in rooms
    /\ device.mine[room[1]].room # NoRoom
    /\ device' = Moved(device, room)
    /\ UNCHANGED <<rooms, prompts, callsAsked>>

\* A channel is deleted, or membership lost with every channel: Node::save
\* forgets the call in that case, and the panel does not know yet.
DeleteChannel ==
    /\ \E r \in rooms : rooms' = rooms \ {r}
    /\ UNCHANGED <<device, prompts, callsAsked>>
Expelled ==
    /\ \E r \in rooms :
        /\ rooms' = {s \in rooms : s[1] # r[1]}
        /\ device' = [device EXCEPT !.mine[r[1]] = Quiet]
    /\ UNCHANGED <<prompts, callsAsked>>

\* The refresh that Node::changed queued.
QueuedRefresh ==
    /\ device' = Refresh(device)
    /\ UNCHANGED <<rooms, prompts, callsAsked>>

CallsNext ==
    \/ \E room \in Rooms : JoinVoice(room) \/ MicrophoneAnswered(room) \/ MoveVoice(room)
    \/ HangUp \/ ToggleCamera \/ CameraAnswered \/ Share \/ SourcePicked \/ CaptureFails \/ ShareEnds
    \/ ToggleMute \/ TalkKey \/ SavePushToTalk \/ ToggleConnection
    \/ DeleteChannel \/ Expelled \/ QueuedRefresh

CallsSpec == CallsInit /\ [][CallsNext]_callsVars

-----------------------------------------------------------------------------
CallsTypeOK ==
    /\ device.room \in Rooms \cup {NoRoom}
    /\ \A c \in Communities : device.mine[c].room \in Rooms \cup {NoRoom}
    /\ rooms \subseteq Rooms /\ prompts.join \subseteq Rooms

\* A device is in one call across its communities, and what its peers are told
\* is what it does: after any order of prompts, moves, hang-ups and refreshes
\* the published call, share and camera are the panel's, and nothing is
\* captured that the peers are not told of.  With one exception, which
\* stopSharing leaves: the peers are told of a share that the system has ended
\* until anything else of the call is published.
PresenceIsTrue ==
    \A c \in Communities :
        LET told == device.mine[c] IN
        told.room # NoRoom =>
            /\ told.room = device.room
            /\ told.sharing <=> device.capture \/ device.unsaid
            /\ told.camera = device.camera

\* "Leaving voice or being moved to another channel turns the camera off"
\* (docs/desktop.md:208): a camera never films for another call than the one it
\* was turned on in, however late its prompt is answered.
CameraStaysInItsCall == device.camera => device.room = device.cameraRoom

\* "Voice transmits only while that key is held. Manual mute and deafen still
\* take precedence" (docs/desktop.md:380).
MicFollowsControls ==
    device.mic => /\ device.room # NoRoom
                  /\ ~ device.mute
                  /\ device.ptt => device.held

\* What one device tells, films and sends, together, at every step of the panel.
CallsInv ==
    CallsTypeOK /\ PresenceIsTrue /\ CameraStaysInItsCall /\ MicFollowsControls
=============================================================================
