----------------------------- MODULE CallsProofs -----------------------------
(***************************************************************************)
(* Calls and the shares in them, for any number of communities, channels,  *)
(* applications, frames and jobs.                                          *)
(*                                                                         *)
(* What a device tells, films and sends of its call is what it does        *)
(* (CallsInv).  The handlers of the panel call one another, so each has a  *)
(* lemma of its own: given what must hold of the device when it is called  *)
(* (InOneCall), it leaves a device that is in order (Sound).  An action is *)
(* then a chain of these lemmas.                                           *)
(*                                                                         *)
(* The sound of a share records what it says it records (SoundInv), its    *)
(* pictures are intact on arrival (PicturesAreIntact), and a listener      *)
(* hears what was chosen last (ShareSoundFollows).  Each of the three has  *)
(* queues between two threads or devices; their invariants say what the    *)
(* messages still on their way will set right.                             *)
(***************************************************************************)
EXTENDS Calls, SoundCapture, ScreenStream, ShareSound, FiniteSetTheorems, SequenceTheorems,
        TLAPS

CommunityOf(room) == room[1]
Call == Rooms \cup {NoRoom}
Presence == [room : Call, muted : BOOLEAN, sharing : BOOLEAN, camera : BOOLEAN]
DeviceType == [online : BOOLEAN, room : Call, mine : [Communities -> Presence],
               capture : BOOLEAN, camera : BOOLEAN, pending : Call, cameraRoom : Call,
               mute : BOOLEAN, ptt : BOOLEAN, held : BOOLEAN, mic : BOOLEAN,
               unsaid : BOOLEAN]

\* The node has the device in the panel's call or in none, which is in the
\* community that it is told to; without a call nothing is sent.
InOneCall(d) ==
    /\ d \in DeviceType
    /\ \A c \in Communities : d.mine[c].room # NoRoom =>
            d.mine[c].room = d.room /\ CommunityOf(d.room) = c
    /\ ~ d.online => d.room = NoRoom
    /\ d.room = NoRoom => ~ d.mic

FilmsItsCall(d) == d.camera => d.room = d.cameraRoom

\* What the peers are told is what the device does, but for a share that has ended
\* by itself, and what it sends is what the controls allow, whatever the next
\* refresh makes of the mute button.
Tells(d) ==
    \A c \in Communities : d.mine[c].room # NoRoom =>
        /\ d.mine[c].sharing <=> d.capture \/ d.unsaid
        /\ d.mine[c].camera = d.camera
        /\ d.mic /\ ~ d.ptt => ~ d.mine[c].muted

MicObeys(d) == d.mic => ~ d.mute /\ (d.ptt => d.held)

Sound(d) == InOneCall(d) /\ FilmsItsCall(d) /\ Tells(d) /\ MicObeys(d)

CallsTyped ==
    /\ rooms \subseteq Rooms
    /\ prompts \in [join : SUBSET Rooms, picker : BOOLEAN]

IInv == CallsTyped /\ Sound(device)

-----------------------------------------------------------------------------
(* The handlers.                                                             *)

\* A channel is in one of the communities; no channel is no call.
LEMMA RoomsAndCommunities ==
    /\ \A r \in Rooms : CommunityOf(r) \in Communities /\ r # NoRoom
    /\ Quiet \in Presence /\ Quiet.room = NoRoom
    /\ ~ Quiet.muted /\ ~ Quiet.sharing /\ ~ Quiet.camera
BY CallsAssumption DEF Communities, CommunityOf, Quiet, Presence, Call

\* LeaveVoice ends the call: the node has none, and nothing is captured.
LEMMA LeaveVoiceEnds ==
    ASSUME NEW d, InOneCall(d)
    PROVE  /\ Sound(LeaveVoice(d))
           /\ LeaveVoice(d).room = NoRoom
           /\ LeaveVoice(d).online = d.online
           /\ ~ LeaveVoice(d).held /\ ~ LeaveVoice(d).camera /\ ~ LeaveVoice(d).mic
           /\ \A c \in Communities : LeaveVoice(d).mine[c].room = NoRoom
<1> DEFINE gone == IF d.online /\ d.room # NoRoom
                     THEN [d.mine EXCEPT ![CommunityOf(d.room)] = Quiet] ELSE d.mine
           e == LeaveVoice(d)
<1>1. d \in DeviceType /\ d.mine \in [Communities -> Presence]
  BY DEF InOneCall, DeviceType
<1>2. gone \in [Communities -> Presence]
  BY <1>1, RoomsAndCommunities
<1>3. \A c \in Communities : gone[c].room = NoRoom
  <2>1. SUFFICES ASSUME NEW c \in Communities PROVE gone[c].room = NoRoom
    OBVIOUS
  <2>2. CASE d.mine[c].room = NoRoom
    BY <1>1, <2>2, RoomsAndCommunities
  <2>3. CASE d.mine[c].room # NoRoom
    <3>1. d.room # NoRoom /\ d.online /\ CommunityOf(d.room) = c
      BY <2>3 DEF InOneCall
    <3>2. QED
      BY <1>1, <3>1, RoomsAndCommunities
  <2>4. QED
    BY <2>2, <2>3
<1>4. e = [d EXCEPT !.room = NoRoom, !.held = FALSE, !.camera = FALSE, !.pending = NoRoom,
                    !.capture = FALSE, !.mic = FALSE, !.mute = FALSE, !.mine = gone]
  BY DEF LeaveVoice, CommunityOf
<1> HIDE DEF gone
<1>5. /\ e \in DeviceType /\ e.mine = gone /\ e.room = NoRoom /\ e.online = d.online
      /\ ~ e.held /\ ~ e.camera /\ ~ e.mic
  BY <1>1, <1>2, <1>4 DEF DeviceType, Call
<1> HIDE DEF e
<1>6. Sound(e)
  BY <1>3, <1>5 DEF Sound, InOneCall, FilmsItsCall, Tells, MicObeys
<1>7. QED
  BY <1>3, <1>5, <1>6 DEF e

\* Node::setVoice of the presence p.
Told(d, p) == SetVoice(d, p.room, p.muted, p.sharing, p.camera)

\* Nothing but what the node tells has changed.
SamePanel(d, e) ==
    /\ e.online = d.online /\ e.room = d.room /\ e.capture = d.capture
    /\ e.camera = d.camera /\ e.cameraRoom = d.cameraRoom /\ e.mute = d.mute
    /\ e.ptt = d.ptt /\ e.held = d.held /\ e.mic = d.mic

\* Only the community of p.room is told, and it is told p.
TellsOnly(e, p) ==
    /\ InCall(e) = {CommunityOf(p.room)}
    /\ \A c \in Communities : e.mine[c].room # NoRoom => c = CommunityOf(p.room)
    /\ e.mine[CommunityOf(p.room)] = p

\* Node::setVoice of the panel's own call tells one community of it.
LEMMA SetVoiceTells ==
    ASSUME NEW d \in DeviceType, rooms \subseteq Rooms, NEW p \in Presence, p.room \in rooms,
           NEW after, after = Told(d, p)
    PROVE  after \in DeviceType /\ SamePanel(d, after) /\ TellsOnly(after, p) /\ ~ after.unsaid
<1> DEFINE presence == [room |-> p.room, muted |-> p.muted, sharing |-> p.sharing,
                        camera |-> p.camera]
           mine == [c \in Communities |-> IF c = CommunityOf(p.room) THEN presence ELSE Quiet]
<1>1. p.room \in Rooms /\ CommunityOf(p.room) \in Communities /\ p.room # NoRoom
  BY RoomsAndCommunities
<1>2. presence = p
  BY DEF Presence
<1>3. mine \in [Communities -> Presence]
  BY <1>2, RoomsAndCommunities
<1>4. /\ mine[CommunityOf(p.room)] = p
      /\ \A c \in Communities : mine[c].room # NoRoom <=> c = CommunityOf(p.room)
  BY <1>1, <1>2, RoomsAndCommunities
<1>5. after = [d EXCEPT !.mine = mine, !.unsaid = FALSE]
  BY DEF Told, SetVoice, CommunityOf
<1> HIDE DEF mine, presence
<1>6. after \in DeviceType /\ after.mine = mine /\ SamePanel(d, after) /\ ~ after.unsaid
  BY <1>3, <1>5 DEF DeviceType, SamePanel
<1>7. InCall(after) = {CommunityOf(p.room)}
  BY <1>1, <1>4, <1>6 DEF InCall
<1>8. QED
  BY <1>4, <1>6, <1>7 DEF TellsOnly

\* The presence of the panel's call, as it is published.
LEMMA PresenceOfTheCall ==
    ASSUME NEW room \in Rooms, NEW muted \in BOOLEAN, NEW sharing \in BOOLEAN,
           NEW camera \in BOOLEAN
    PROVE  \E p \in Presence : /\ p.room = room /\ p.muted = muted
                               /\ p.sharing = sharing /\ p.camera = camera
<1> DEFINE p == [room |-> room, muted |-> muted, sharing |-> sharing, camera |-> camera]
<1>1. p \in Presence
  BY DEF Presence, Call
<1>2. QED
  BY <1>1

\* What a refresh shows is the call that the node names.
LEMMA ShownIs ==
    ASSUME NEW d, InOneCall(d), InCall(d) # {}
    PROVE  /\ InCall(d) = {CommunityOf(d.room)} /\ d.room \in Rooms
           /\ Shown(d) = [d EXCEPT !.room = d.room,
                            !.mute = IF d.ptt THEN @ ELSE d.mine[CommunityOf(d.room)].muted]
<1>1. PICK c \in Communities : d.mine[c].room # NoRoom
  BY DEF InCall
<1>2. d.mine[c].room = d.room /\ CommunityOf(d.room) = c
  BY <1>1 DEF InOneCall
<1>3. \A b \in InCall(d) : b = c
  BY <1>2 DEF InCall, InOneCall
<1>4. InCall(d) = {c}
  BY <1>1, <1>3 DEF InCall
<1>5. (CHOOSE b \in InCall(d) : TRUE) = c
  BY <1>4
<1>6. d.room \in Rooms
  BY <1>1, <1>2 DEF InOneCall, DeviceType, Call
<1>7. QED
  BY <1>2, <1>4, <1>5, <1>6 DEF Shown

WithMute(d, mute) == [d EXCEPT !.room = d.room, !.mute = mute]

\* Only the mute button may change when the call is shown.
LEMMA MuteChanged ==
    ASSUME NEW d, InOneCall(d), NEW mute \in BOOLEAN,
           NEW e, e = WithMute(d, mute)
    PROVE  /\ InOneCall(e)
           /\ e.mine = d.mine /\ e.room = d.room /\ e.capture = d.capture
           /\ e.camera = d.camera /\ e.cameraRoom = d.cameraRoom /\ e.mute = mute
           /\ e.ptt = d.ptt /\ e.held = d.held /\ e.mic = d.mic /\ e.online = d.online
           /\ e.unsaid = d.unsaid
<1>1. /\ e \in DeviceType
      /\ e.mine = d.mine /\ e.room = d.room /\ e.capture = d.capture
      /\ e.camera = d.camera /\ e.cameraRoom = d.cameraRoom /\ e.mute = mute
      /\ e.ptt = d.ptt /\ e.held = d.held /\ e.mic = d.mic /\ e.online = d.online
      /\ e.unsaid = d.unsaid
  BY DEF InOneCall, DeviceType, WithMute
<1>2. InOneCall(e)
  BY <1>1 DEF InOneCall
<1>3. QED
  BY <1>1, <1>2

\* A refresh finds no call, leaves one, shows one, or publishes a lost one again.
LEMMA RefreshDoes ==
    ASSUME NEW d, InOneCall(d), rooms \subseteq Rooms
    PROVE  \/ d.room = NoRoom /\ InCall(d) = {} /\ Refresh(d) = d
           \/ \E e : InOneCall(e) /\ Refresh(d) = LeaveVoice(e)
           \/ d.room \in rooms /\ InCall(d) # {} /\ Refresh(d) = Shown(d)
           \/ /\ d.room \in rooms /\ InCall(d) = {}
              /\ Refresh(d) = Shown(SetVoice(d, d.room, d.mute, d.capture, d.camera))
<1>1. d \in DeviceType
  BY DEF InOneCall
<1>2. CASE InCall(d) # {}
  <2>1. /\ d.room \in Rooms /\ d.room # NoRoom
        /\ Shown(d) = [d EXCEPT !.room = d.room,
                            !.mute = IF d.ptt THEN @ ELSE d.mine[CommunityOf(d.room)].muted]
    BY <1>2, ShownIs, RoomsAndCommunities
  <2>2. d.mute \in BOOLEAN /\ d.mine[CommunityOf(d.room)].muted \in BOOLEAN
    <3>1. CommunityOf(d.room) \in Communities /\ d.mine \in [Communities -> Presence]
      BY <1>1, <2>1, RoomsAndCommunities DEF DeviceType
    <3>2. d.mine[CommunityOf(d.room)] \in Presence
      BY <3>1
    <3>3. QED
      BY <1>1, <3>2 DEF Presence, DeviceType
  <2>3. PICK mute \in BOOLEAN : Shown(d) = WithMute(d, mute)
    BY <2>1, <2>2 DEF WithMute
  <2>4. InOneCall(Shown(d)) /\ Shown(d).room = d.room
    BY <2>1, <2>3, MuteChanged
  <2>5. Refresh(d) = IF Shown(d).room \in rooms THEN Shown(d) ELSE LeaveVoice(Shown(d))
    BY <1>2 DEF Refresh
  <2>6. QED
    BY <1>2, <2>4, <2>5
<1>3. CASE InCall(d) = {} /\ d.room = NoRoom
  BY <1>3 DEF Refresh
<1>4. CASE InCall(d) = {} /\ d.room # NoRoom /\ d.room \notin rooms
  <2>1. SetVoice(d, d.room, d.mute, d.capture, d.camera) = d
    BY <1>4 DEF SetVoice
  <2>2. Refresh(d) = LeaveVoice(d)
    BY <1>4, <2>1 DEF Refresh
  <2>3. QED
    BY <2>2
<1>5. CASE InCall(d) = {} /\ d.room # NoRoom /\ d.room \in rooms
  <2> DEFINE kept == SetVoice(d, d.room, d.mute, d.capture, d.camera)
  <2>1. d.mute \in BOOLEAN /\ d.capture \in BOOLEAN /\ d.camera \in BOOLEAN
    BY <1>1 DEF DeviceType
  <2>2. PICK p \in Presence : /\ p.room = d.room /\ p.muted = d.mute
                              /\ p.sharing = d.capture /\ p.camera = d.camera
    BY <1>5, <2>1, PresenceOfTheCall
  <2>3. kept = Told(d, p)
    BY <2>2 DEF Told
  <2> HIDE DEF kept
  <2>4. TellsOnly(kept, p) /\ kept \in DeviceType
    BY <1>1, <1>5, <2>2, <2>3, SetVoiceTells
  <2>6. /\ InCall(kept) = {CommunityOf(d.room)} /\ kept.mine[CommunityOf(d.room)].room = d.room
    BY <2>2, <2>4 DEF TellsOnly
  <2>7. (CHOOSE b \in InCall(kept) : TRUE) = CommunityOf(d.room)
    BY <2>6
  <2>8. Shown(kept).room = d.room
    BY <2>4, <2>6, <2>7 DEF Shown, DeviceType
  <2>9. Refresh(d) = Shown(kept)
    BY <1>5, <2>6, <2>8 DEF Refresh, kept
  <2>10. QED
    BY <1>5, <2>9 DEF kept
<1>6. QED
  BY <1>2, <1>3, <1>4, <1>5

\* A call that was lost and published again is told as it is.
LEMMA PublishedAgain ==
    ASSUME NEW d, InOneCall(d), rooms \subseteq Rooms, d.room \in rooms,
           NEW muted \in BOOLEAN,
           NEW after, after = SetVoice(d, d.room, muted, d.capture, d.camera)
    PROVE  /\ InOneCall(after)
           /\ InCall(after) # {}
           /\ FilmsItsCall(d) => FilmsItsCall(after)
           /\ MicObeys(d) => MicObeys(after)
           /\ (d.mic /\ ~ d.ptt => ~ muted) => Tells(after)
<1>1. /\ d \in DeviceType /\ d.capture \in BOOLEAN /\ d.camera \in BOOLEAN
      /\ d.room \in Rooms /\ d.room # NoRoom
  BY RoomsAndCommunities DEF InOneCall, DeviceType
<1>2. PICK p \in Presence : /\ p.room = d.room /\ p.muted = muted
                            /\ p.sharing = d.capture /\ p.camera = d.camera
  BY <1>1, PresenceOfTheCall
<1>3. after = Told(d, p)
  BY <1>2 DEF Told
<1>4. after \in DeviceType /\ SamePanel(d, after) /\ TellsOnly(after, p) /\ ~ after.unsaid
  BY <1>1, <1>2, <1>3, SetVoiceTells
<1>5. InOneCall(after) /\ InCall(after) # {}
  BY <1>1, <1>2, <1>4 DEF InOneCall, TellsOnly, SamePanel
<1>6. (FilmsItsCall(d) => FilmsItsCall(after)) /\ (MicObeys(d) => MicObeys(after))
  BY <1>4 DEF FilmsItsCall, MicObeys, SamePanel
<1>7. (d.mic /\ ~ d.ptt => ~ muted) => Tells(after)
  BY <1>2, <1>4 DEF Tells, SamePanel, TellsOnly
<1>8. QED
  BY <1>5, <1>6, <1>7

\* To show the call that the node names keeps the device in order.
LEMMA ShownKeeps ==
    ASSUME NEW d, InOneCall(d), InCall(d) # {}
    PROVE  /\ InOneCall(Shown(d))
           /\ FilmsItsCall(d) => FilmsItsCall(Shown(d))
           /\ Tells(d) => Tells(Shown(d))
           /\ Tells(d) /\ MicObeys(d) => MicObeys(Shown(d))
<1>1. /\ InCall(d) = {CommunityOf(d.room)} /\ d.room \in Rooms
      /\ Shown(d) = [d EXCEPT !.room = d.room,
                        !.mute = IF d.ptt THEN @ ELSE d.mine[CommunityOf(d.room)].muted]
  BY ShownIs
<1>2. d \in DeviceType /\ CommunityOf(d.room) \in Communities
  BY <1>1, RoomsAndCommunities DEF InOneCall
<1>3. d.mine[CommunityOf(d.room)] \in Presence /\ d.mute \in BOOLEAN
  BY <1>2 DEF DeviceType
<1> DEFINE mute == IF d.ptt THEN d.mute ELSE d.mine[CommunityOf(d.room)].muted
<1>4. mute \in BOOLEAN
  BY <1>3 DEF Presence
<1>5. Shown(d) = WithMute(d, mute)
  BY <1>1 DEF WithMute
<1>6. d.mine[CommunityOf(d.room)].room # NoRoom
  BY <1>1 DEF InCall
<1>7. Tells(d) /\ d.mic /\ ~ d.ptt => ~ mute
  BY <1>2, <1>6 DEF Tells
<1>8. Tells(d) /\ MicObeys(d) /\ d.mic => ~ mute
  BY <1>7 DEF MicObeys
<1> HIDE DEF mute
<1>9. /\ InOneCall(Shown(d))
      /\ Shown(d).mine = d.mine /\ Shown(d).room = d.room /\ Shown(d).capture = d.capture
      /\ Shown(d).camera = d.camera /\ Shown(d).cameraRoom = d.cameraRoom
      /\ Shown(d).mute = mute /\ Shown(d).ptt = d.ptt /\ Shown(d).held = d.held
      /\ Shown(d).mic = d.mic /\ Shown(d).unsaid = d.unsaid
  <2>1. InOneCall(Shown(d))
    BY <1>4, <1>5, MuteChanged
  <2>2. QED
    BY <1>4, <1>5, <2>1, MuteChanged
<1>10. QED
  BY <1>8, <1>9 DEF FilmsItsCall, Tells, MicObeys

\* A refresh keeps a device in its one call, and its camera in it.
LEMMA RefreshKeepsTheCall ==
    ASSUME NEW d, InOneCall(d), FilmsItsCall(d), rooms \subseteq Rooms
    PROVE  InOneCall(Refresh(d)) /\ FilmsItsCall(Refresh(d))
<1>1. CASE Refresh(d) = d
  BY <1>1
<1>2. ASSUME NEW e, InOneCall(e), Refresh(d) = LeaveVoice(e)
      PROVE  InOneCall(Refresh(d)) /\ FilmsItsCall(Refresh(d))
  BY <1>2, LeaveVoiceEnds DEF Sound
<1>3. CASE InCall(d) # {} /\ Refresh(d) = Shown(d)
  BY <1>3, ShownKeeps
<1>4. CASE /\ d.room \in rooms
           /\ Refresh(d) = Shown(SetVoice(d, d.room, d.mute, d.capture, d.camera))
  <2>1. d.mute \in BOOLEAN
    BY DEF InOneCall, DeviceType
  <2>2. QED
    BY <1>4, <2>1, PublishedAgain, ShownKeeps
<1>5. QED
  BY <1>1, <1>2, <1>3, <1>4, RefreshDoes

\* A refresh keeps a device that is in order in order.
LEMMA RefreshKeeps ==
    ASSUME NEW d, Sound(d), rooms \subseteq Rooms
    PROVE  Sound(Refresh(d))
<1>0. InOneCall(d) /\ FilmsItsCall(d) /\ Tells(d) /\ MicObeys(d)
  BY DEF Sound
<1>1. CASE Refresh(d) = d
  BY <1>1
<1>2. ASSUME NEW e, InOneCall(e), Refresh(d) = LeaveVoice(e)
      PROVE  Sound(Refresh(d))
  BY <1>2, LeaveVoiceEnds
<1>3. CASE InCall(d) # {} /\ Refresh(d) = Shown(d)
  BY <1>0, <1>3, ShownKeeps DEF Sound
<1>4. CASE /\ d.room \in rooms
           /\ Refresh(d) = Shown(SetVoice(d, d.room, d.mute, d.capture, d.camera))
  <2> DEFINE after == SetVoice(d, d.room, d.mute, d.capture, d.camera)
  <2>1. d.mute \in BOOLEAN /\ (d.mic /\ ~ d.ptt => ~ d.mute)
    BY <1>0 DEF InOneCall, DeviceType, MicObeys
  <2>2. InOneCall(after) /\ InCall(after) # {} /\ FilmsItsCall(after) /\ Tells(after) /\ MicObeys(after)
    BY <1>0, <1>4, <2>1, PublishedAgain
  <2> HIDE DEF after
  <2>3. Sound(Shown(after))
    BY <2>2, ShownKeeps DEF Sound
  <2>4. QED
    BY <1>4, <2>3 DEF after
<1>5. QED
  BY <1>0, <1>1, <1>2, <1>3, <1>4, RefreshDoes

\* voiceState puts a device in order that is in one call.
LEMMA VoiceStateOrders ==
    ASSUME NEW d, InOneCall(d), FilmsItsCall(d), rooms \subseteq Rooms
    PROVE  Sound(VoiceState(d))
<1>1. CASE d.room = NoRoom
  <2>1. VoiceState(d) = d
    BY <1>1 DEF VoiceState
  <2>2. \A c \in Communities : d.mine[c].room = NoRoom
    BY <1>1 DEF InOneCall
  <2>3. Sound(d)
    BY <1>1, <2>2 DEF Sound, Tells, MicObeys, InOneCall
  <2>4. QED
    BY <2>1, <2>3
<1>2. CASE d.room # NoRoom
  <2> DEFINE e == [d EXCEPT !.mic = ~ Silent(d)]
             after == SetVoice(e, d.room, Silent(d), d.capture, d.camera)
  <2>1. VoiceState(d) = Refresh(after)
    BY <1>2 DEF VoiceState
  <2>2. Silent(d) \in BOOLEAN /\ (~ Silent(d) => ~ d.mute /\ (d.ptt => d.held))
        /\ (~ d.ptt => Silent(d) = d.mute)
    BY DEF Silent, InOneCall, DeviceType
  <2>3. /\ e \in DeviceType
        /\ e.mine = d.mine /\ e.room = d.room /\ e.capture = d.capture
        /\ e.camera = d.camera /\ e.cameraRoom = d.cameraRoom /\ e.mute = d.mute
        /\ e.ptt = d.ptt /\ e.held = d.held /\ e.mic = ~ Silent(d) /\ e.online = d.online
    BY <2>2 DEF InOneCall, DeviceType
  <2> HIDE DEF e
  <2>4. InOneCall(e) /\ FilmsItsCall(e) /\ MicObeys(e)
    BY <1>2, <2>2, <2>3 DEF InOneCall, FilmsItsCall, MicObeys
  <2>5. CASE d.room \in rooms
    <3>1. after = SetVoice(e, e.room, Silent(d), e.capture, e.camera)
      BY <2>3
    <3>2. e.mic /\ ~ e.ptt => ~ Silent(d)
      BY <2>3
    <3> HIDE DEF after
    <3>3. Sound(after)
      BY <2>2, <2>3, <2>4, <2>5, <3>1, <3>2, PublishedAgain DEF Sound
    <3>4. QED
      BY <2>1, <3>3, RefreshKeeps
  <2>6. CASE d.room \notin rooms
    <3>1. after = e
      BY <2>6 DEF SetVoice
    <3>2. \E f : InOneCall(f) /\ Refresh(e) = LeaveVoice(f)
      BY <1>2, <2>3, <2>4, <2>6, RefreshDoes
    <3>3. QED
      BY <2>1, <3>1, <3>2, LeaveVoiceEnds
  <2>7. QED
    BY <2>5, <2>6
<1>3. QED
  BY <1>1, <1>2

-----------------------------------------------------------------------------
(* The handlers that start from a change of the panel.                       *)

\* What changes is a button, a capture or the answer to a request.
Same(d, e) == e.online = d.online /\ e.room = d.room /\ e.mine = d.mine /\ e.mic = d.mic

\* Such a change keeps the device in its one call.
LEMMA StillInOneCall ==
    ASSUME NEW d, InOneCall(d), NEW e \in DeviceType, Same(d, e)
    PROVE  InOneCall(e)
BY DEF InOneCall, Same

\* setHeld and stop keep the device in order, or put it in order.
LEMMA SetHeldKeeps ==
    ASSUME NEW d, InOneCall(d), FilmsItsCall(d), NEW held \in BOOLEAN, rooms \subseteq Rooms
    PROVE  /\ InOneCall(SetHeld(d, held)) /\ FilmsItsCall(SetHeld(d, held))
           /\ Sound(d) \/ d.held # held => Sound(SetHeld(d, held))
<1>1. CASE d.held = held
  BY <1>1 DEF SetHeld
<1>2. CASE d.held # held
  <2> DEFINE e == [d EXCEPT !.held = held]
  <2>1. e \in DeviceType /\ Same(d, e) /\ e.camera = d.camera /\ e.cameraRoom = d.cameraRoom
    BY DEF InOneCall, DeviceType, Same
  <2>2. SetHeld(d, held) = VoiceState(e)
    BY <1>2 DEF SetHeld
  <2> HIDE DEF e
  <2>3. InOneCall(e) /\ FilmsItsCall(e)
    BY <2>1, StillInOneCall DEF FilmsItsCall, Same
  <2>4. Sound(SetHeld(d, held))
    BY <2>2, <2>3, VoiceStateOrders
  <2>5. QED
    BY <2>4 DEF Sound
<1>3. QED
  BY <1>1, <1>2

\* stopCamera and stopSharing keep the device in order.
LEMMA StopsKeep ==
    ASSUME NEW d, Sound(d), rooms \subseteq Rooms
    PROVE  Sound(StopCamera(d)) /\ Sound(StopSharing(d))
<1>1. d \in DeviceType /\ InOneCall(d) /\ FilmsItsCall(d)
  BY DEF Sound, InOneCall
<1>2. Sound(StopCamera(d))
  <2>1. CASE d.camera
    <3> DEFINE e == [d EXCEPT !.camera = FALSE, !.pending = NoRoom]
    <3>1. e \in DeviceType /\ Same(d, e) /\ ~ e.camera
      BY <1>1 DEF DeviceType, Same, Call
    <3>2. StopCamera(d) = VoiceState(e)
      BY <2>1 DEF StopCamera
    <3> HIDE DEF e
    <3>3. InOneCall(e) /\ FilmsItsCall(e)
      BY <1>1, <3>1, StillInOneCall DEF FilmsItsCall
    <3>4. QED
      BY <3>2, <3>3, VoiceStateOrders
  <2>2. CASE ~ d.camera
    <3> DEFINE e == [d EXCEPT !.pending = NoRoom]
    <3>1. /\ e \in DeviceType /\ Same(d, e) /\ e.camera = d.camera /\ e.cameraRoom = d.cameraRoom
          /\ e.capture = d.capture /\ e.mute = d.mute /\ e.ptt = d.ptt /\ e.held = d.held
          /\ e.unsaid = d.unsaid
      BY <1>1 DEF DeviceType, Same, Call
    <3>2. StopCamera(d) = e
      BY <2>2 DEF StopCamera
    <3> HIDE DEF e
    <3>3. InOneCall(e) /\ FilmsItsCall(e)
      BY <1>1, <3>1, StillInOneCall DEF FilmsItsCall, Same
    <3>4. Tells(e) /\ MicObeys(e)
      BY <3>1 DEF Sound, Tells, MicObeys, Same
    <3>5. QED
      BY <3>2, <3>3, <3>4 DEF Sound
  <2>3. QED
    BY <2>1, <2>2
<1>3. Sound(StopSharing(d))
  <2>1. CASE d.capture
    <3> DEFINE e == [d EXCEPT !.capture = FALSE]
    <3>1. /\ e \in DeviceType /\ Same(d, e) /\ e.camera = d.camera /\ e.cameraRoom = d.cameraRoom
      BY <1>1 DEF DeviceType, Same
    <3>2. StopSharing(d) = VoiceState(e)
      BY <2>1 DEF StopSharing
    <3> HIDE DEF e
    <3>3. InOneCall(e) /\ FilmsItsCall(e)
      BY <1>1, <3>1, StillInOneCall DEF FilmsItsCall, Same
    <3>4. QED
      BY <3>2, <3>3, VoiceStateOrders
  <2>2. CASE ~ d.capture
    BY <2>2 DEF StopSharing
  <2>3. QED
    BY <2>1, <2>2
<1>4. QED
  BY <1>2, <1>3

\* A device that is moved is in the other channel, and films and shares no more.
LEMMA MovedKeeps ==
    ASSUME NEW d, Sound(d), NEW room \in rooms, rooms \subseteq Rooms, d.online,
           d.mine[CommunityOf(room)].room # NoRoom
    PROVE  Sound(Moved(d, room))
<1> DEFINE muted == d.mine[CommunityOf(room)].muted
           node == SetVoice(d, room, muted, FALSE, FALSE)
           e == [node EXCEPT !.camera = FALSE, !.pending = NoRoom, !.capture = FALSE,
                             !.room = room]
<1>1. /\ d \in DeviceType /\ InOneCall(d) /\ FilmsItsCall(d) /\ Tells(d) /\ MicObeys(d)
      /\ room \in Rooms /\ room # NoRoom /\ CommunityOf(room) \in Communities
  BY RoomsAndCommunities DEF Sound, InOneCall
<1>2. d.mine[CommunityOf(room)] \in Presence
  BY <1>1 DEF DeviceType
<1>3. muted \in BOOLEAN /\ (d.mic /\ ~ d.ptt => ~ muted)
  BY <1>1, <1>2 DEF Presence, Tells
<1>4. Moved(d, room) = Refresh(e)
  BY DEF Moved, CommunityOf
<1> HIDE DEF muted
<1>5. PICK p \in Presence : /\ p.room = room /\ p.muted = muted
                            /\ p.sharing = FALSE /\ p.camera = FALSE
  <2>1. PICK no \in BOOLEAN : no = FALSE
    OBVIOUS
  <2>2. PICK p \in Presence : p.room = room /\ p.muted = muted /\ p.sharing = no /\ p.camera = no
    BY <1>1, <1>3, PresenceOfTheCall
  <2>3. QED
    BY <2>1, <2>2
<1>6. node = Told(d, p)
  BY <1>5 DEF Told
<1> HIDE DEF node
<1>7. node \in DeviceType /\ SamePanel(d, node) /\ TellsOnly(node, p) /\ ~ node.unsaid
  BY <1>1, <1>5, <1>6, SetVoiceTells
<1>8. \A c \in Communities : node.mine[c].room # NoRoom => c = CommunityOf(room)
  BY <1>5, <1>7 DEF TellsOnly
<1>9. node.mine[CommunityOf(room)] = p
  BY <1>5, <1>7 DEF TellsOnly
<1>10. /\ e \in DeviceType /\ e.mine = node.mine /\ e.room = room
       /\ e.online = d.online /\ e.mute = d.mute /\ e.ptt = d.ptt
       /\ e.held = d.held /\ e.mic = d.mic
       /\ e.camera = FALSE /\ e.capture = FALSE /\ ~ e.unsaid
  <2>1. /\ e \in DeviceType /\ e.mine = node.mine /\ e.room = room
        /\ e.online = node.online /\ e.mute = node.mute /\ e.ptt = node.ptt
        /\ e.held = node.held /\ e.mic = node.mic
        /\ e.camera = FALSE /\ e.capture = FALSE /\ ~ e.unsaid
    BY <1>1, <1>7 DEF DeviceType, Call
  <2>2. QED
    BY <1>7, <2>1 DEF SamePanel
<1> HIDE DEF e
<1>11. InOneCall(e)
  BY <1>1, <1>5, <1>8, <1>9, <1>10 DEF InOneCall
<1>12. FilmsItsCall(e) /\ MicObeys(e)
  BY <1>1, <1>10 DEF FilmsItsCall, MicObeys
<1>13. Tells(e)
  BY <1>3, <1>5, <1>8, <1>9, <1>10 DEF Tells
<1>14. QED
  BY <1>4, <1>11, <1>12, <1>13, RefreshKeeps DEF Sound

-----------------------------------------------------------------------------
(* The specification.                                                        *)

\* A change that is not told, of nothing that is told, keeps the device in order.
LEMMA StillSound ==
    ASSUME NEW d, Sound(d), NEW e \in DeviceType, SamePanel(d, e), e.mine = d.mine,
           e.unsaid = d.unsaid
    PROVE  Sound(e)
BY DEF Sound, InOneCall, FilmsItsCall, Tells, MicObeys, SamePanel

\* The panel starts without a call.
LEMMA InitIInv == CallsInit => IInv
<1> SUFFICES ASSUME CallsInit PROVE IInv
  OBVIOUS
<1>1. [c \in Communities |-> Quiet] \in [Communities -> Presence]
  BY RoomsAndCommunities
<1>2. device \in DeviceType /\ device.room = NoRoom /\ ~ device.mic /\ ~ device.camera
  BY <1>1 DEF CallsInit, DeviceType, Call
<1>3. \A c \in Communities : device.mine[c].room = NoRoom
  BY RoomsAndCommunities DEF CallsInit
<1>4. Sound(device)
  BY <1>2, <1>3 DEF Sound, InOneCall, FilmsItsCall, Tells, MicObeys
<1>5. CallsTyped
  BY DEF CallsInit, CallsTyped
<1>6. QED
  BY <1>4, <1>5 DEF IInv

\* A device that joins has left the call it was in.
LEMMA JoinedKeeps ==
    ASSUME Sound(device), rooms \subseteq Rooms, NEW room \in rooms, device.online
    PROVE  Sound(VoiceState(UpdatePushToTalk([LeaveVoice(device) EXCEPT !.room = room])))
<1> DEFINE left == LeaveVoice(device)
           e == [left EXCEPT !.room = room]
<1>1. /\ left \in DeviceType /\ left.online /\ ~ left.camera /\ ~ left.mic
      /\ \A c \in Communities : left.mine[c].room = NoRoom
  BY LeaveVoiceEnds DEF Sound, InOneCall
<1> HIDE DEF left
<1>2. /\ e \in DeviceType /\ e.online /\ ~ e.camera /\ ~ e.mic /\ e.mine = left.mine
  BY <1>1 DEF DeviceType, Call
<1> HIDE DEF e
<1>3. InOneCall(e) /\ FilmsItsCall(e)
  BY <1>1, <1>2 DEF InOneCall, FilmsItsCall
<1>4. InOneCall(UpdatePushToTalk(e)) /\ FilmsItsCall(UpdatePushToTalk(e))
  BY <1>3, SetHeldKeeps DEF UpdatePushToTalk
<1>5. Sound(VoiceState(UpdatePushToTalk(e)))
  BY <1>4, VoiceStateOrders
<1>6. QED
  BY <1>5 DEF e, left

\* The node is stopped after the call was left, and started without one.
LEMMA ToggleConnectionKeeps ==
    ASSUME Sound(device), ToggleConnection
    PROVE  Sound(device')
<1>0. device \in DeviceType /\ InOneCall(device)
  BY DEF Sound, InOneCall
<1>1. CASE device.online
  <2> DEFINE left == LeaveVoice(device)
             quiet == [c \in Communities |-> Quiet]
  <2>1. left \in DeviceType /\ left.room = NoRoom /\ ~ left.camera /\ ~ left.mic
    BY LeaveVoiceEnds DEF Sound, InOneCall
  <2>2. device' = [left EXCEPT !.online = FALSE, !.mine = quiet]
    BY <1>1 DEF ToggleConnection
  <2>3. quiet \in [Communities -> Presence] /\ \A c \in Communities : quiet[c].room = NoRoom
    BY RoomsAndCommunities
  <2> HIDE DEF left, quiet
  <2>4. /\ device' \in DeviceType /\ device'.room = NoRoom /\ ~ device'.camera /\ ~ device'.mic
        /\ device'.mine = quiet
    BY <2>1, <2>2, <2>3 DEF DeviceType
  <2>5. QED
    BY <2>3, <2>4 DEF Sound, InOneCall, FilmsItsCall, Tells, MicObeys
<1>2. CASE ~ device.online
  <2>1. device' = [device EXCEPT !.online = TRUE]
    BY <1>2 DEF ToggleConnection
  <2>2. /\ device' \in DeviceType /\ device'.room = device.room /\ device'.mic = device.mic
        /\ device'.mine = device.mine /\ device'.capture = device.capture
        /\ device'.camera = device.camera /\ device'.cameraRoom = device.cameraRoom
        /\ device'.mute = device.mute /\ device'.ptt = device.ptt /\ device'.held = device.held
        /\ device'.online /\ device'.unsaid = device.unsaid
    BY <1>0, <2>1 DEF DeviceType
  <2>3. InOneCall(device')
    BY <1>0, <2>2 DEF InOneCall
  <2>4. QED
    BY <2>2, <2>3 DEF Sound, FilmsItsCall, Tells, MicObeys
<1>3. QED
  BY <1>1, <1>2

\* The camera is asked for, turned off, or answers the last request.
LEMMA CameraKeeps ==
    ASSUME Sound(device), rooms \subseteq Rooms, ToggleCamera \/ CameraAnswered
    PROVE  Sound(device')
<1>0. device \in DeviceType /\ InOneCall(device)
  BY DEF Sound, InOneCall
<1>1. CASE device' = StopCamera(device)
  BY <1>1, StopsKeep
<1>2. CASE device' = [device EXCEPT !.pending = device.room]
  <2>1. /\ device' \in DeviceType /\ SamePanel(device, device') /\ device'.mine = device.mine
        /\ device'.unsaid = device.unsaid
    BY <1>0, <1>2 DEF DeviceType, SamePanel
  <2>2. QED
    BY <2>1, StillSound
<1>3. CASE device' = [device EXCEPT !.pending = NoRoom]
  <2>1. /\ device' \in DeviceType /\ SamePanel(device, device') /\ device'.mine = device.mine
        /\ device'.unsaid = device.unsaid
    BY <1>0, <1>3 DEF DeviceType, SamePanel, Call
  <2>2. QED
    BY <2>1, StillSound
<1> DEFINE answered == [device EXCEPT !.pending = NoRoom]
           e == [answered EXCEPT !.camera = TRUE, !.cameraRoom = device.room]
<1>4. CASE device' = VoiceState(e)
  <2>1. e \in DeviceType /\ Same(device, e) /\ e.cameraRoom = e.room
    BY <1>0 DEF DeviceType, Same, Call
  <2> HIDE DEF e
  <2>2. InOneCall(e) /\ FilmsItsCall(e)
    BY <1>0, <2>1, StillInOneCall DEF FilmsItsCall
  <2>3. QED
    BY <1>4, <2>2, VoiceStateOrders
<1>5. QED
  BY <1>1, <1>2, <1>3, <1>4 DEF ToggleCamera, CameraAnswered

\* A change of the panel that voiceState publishes.
LEMMA Published ==
    ASSUME NEW d, Sound(d), rooms \subseteq Rooms, NEW e \in DeviceType, Same(d, e),
           e.camera = d.camera, e.cameraRoom = d.cameraRoom
    PROVE  InOneCall(e) /\ FilmsItsCall(e) /\ Sound(VoiceState(e))
<1>1. InOneCall(e) /\ FilmsItsCall(e)
  BY StillInOneCall DEF Sound, FilmsItsCall, Same
<1>2. QED
  BY <1>1, VoiceStateOrders

\* The setting is saved: the talk key counts from now, or no more.
LEMMA SavePushToTalkKeeps ==
    ASSUME Sound(device), rooms \subseteq Rooms, SavePushToTalk
    PROVE  Sound(device')
<1> DEFINE saved == [device EXCEPT !.ptt = ~ @]
<1>1. /\ saved \in DeviceType /\ Same(device, saved)
      /\ saved.camera = device.camera /\ saved.cameraRoom = device.cameraRoom
  BY DEF Sound, InOneCall, DeviceType, Same
<1>2. \/ device' = VoiceState(UpdatePushToTalk(saved))
      \/ device' = VoiceState(UpdatePushToTalk(Refresh(saved)))
  BY DEF SavePushToTalk
<1> HIDE DEF saved
<1>3. InOneCall(saved) /\ FilmsItsCall(saved)
  BY <1>1, Published
<1>4. InOneCall(Refresh(saved)) /\ FilmsItsCall(Refresh(saved))
  BY <1>3, RefreshKeepsTheCall
<1>5. \A d : InOneCall(d) /\ FilmsItsCall(d) => Sound(VoiceState(UpdatePushToTalk(d)))
  BY SetHeldKeeps, VoiceStateOrders DEF UpdatePushToTalk
<1>6. QED
  BY <1>2, <1>3, <1>4, <1>5

\* A community that is lost takes the node's call in it along, and only that.
LEMMA ExpelledKeeps ==
    ASSUME Sound(device), rooms \subseteq Rooms, Expelled
    PROVE  Sound(device')
<1>1. PICK r \in rooms : device' = [device EXCEPT !.mine[r[1]] = Quiet]
  BY DEF Expelled
<1>2. CommunityOf(r) \in Communities
  BY RoomsAndCommunities
<1> DEFINE mine == [device.mine EXCEPT ![CommunityOf(r)] = Quiet]
<1>3. device \in DeviceType /\ device.mine \in [Communities -> Presence]
  BY DEF Sound, InOneCall, DeviceType
<1>4. /\ mine \in [Communities -> Presence]
      /\ \A c \in Communities : mine[c].room # NoRoom => mine[c] = device.mine[c]
  BY <1>2, <1>3, RoomsAndCommunities
<1>5. device' = [device EXCEPT !.mine = mine]
  BY <1>1, <1>3 DEF CommunityOf
<1> HIDE DEF mine
<1>6. /\ device' \in DeviceType /\ SamePanel(device, device') /\ device'.mine = mine
      /\ device'.unsaid = device.unsaid
  BY <1>3, <1>4, <1>5 DEF DeviceType, SamePanel
<1>7. QED
  BY <1>4, <1>6 DEF Sound, InOneCall, FilmsItsCall, Tells, MicObeys, SamePanel

\* A share that has ended by itself was told, and is told until something is published.
LEMMA ShareEndsKeeps ==
    ASSUME Sound(device), ShareEnds
    PROVE  Sound(device')
<1>1. /\ device \in DeviceType /\ device.capture
      /\ device' = [device EXCEPT !.capture = FALSE, !.unsaid = TRUE]
  BY DEF Sound, InOneCall, ShareEnds
<1>2. /\ device' \in DeviceType /\ Same(device, device')
      /\ device'.camera = device.camera /\ device'.cameraRoom = device.cameraRoom
      /\ device'.mute = device.mute /\ device'.ptt = device.ptt /\ device'.held = device.held
      /\ device'.unsaid
  BY <1>1 DEF DeviceType, Same
<1>3. InOneCall(device')
  BY <1>2, StillInOneCall DEF Sound
<1>4. QED
  BY <1>1, <1>2, <1>3 DEF Sound, FilmsItsCall, Tells, MicObeys, Same

\* Every step of the user, the prompts and the others keeps it.
LEMMA NextIInv == IInv /\ [CallsNext]_callsVars => IInv'
<1> SUFFICES ASSUME IInv, [CallsNext]_callsVars PROVE IInv'
  OBVIOUS
<1>0. Sound(device) /\ rooms \subseteq Rooms /\ CallsTyped
  BY DEF IInv, CallsTyped
<1>1. ASSUME NEW room \in Rooms, JoinVoice(room) PROVE IInv'
  BY <1>0, <1>1 DEF JoinVoice, IInv, CallsTyped
<1>2. ASSUME NEW room \in Rooms, MicrophoneAnswered(room) PROVE IInv'
  <2>1. CallsTyped'
    BY <1>0, <1>2 DEF MicrophoneAnswered, CallsTyped
  <2>2. CASE device' = device
    BY <1>0, <2>1, <2>2 DEF IInv
  <2>3. CASE device' = LeaveVoice(device)
    BY <1>0, <2>1, <2>3, LeaveVoiceEnds DEF IInv, Sound
  <2>4. CASE /\ room \in rooms /\ device.online
             /\ device' = VoiceState(UpdatePushToTalk([LeaveVoice(device) EXCEPT !.room = room]))
    BY <1>0, <2>1, <2>4, JoinedKeeps DEF IInv
  <2>5. QED
    BY <1>2, <2>2, <2>3, <2>4 DEF MicrophoneAnswered
<1>3. ASSUME NEW room \in Rooms, MoveVoice(room) PROVE IInv'
  <2>1. Sound(device')
    BY <1>0, <1>3, MovedKeeps DEF MoveVoice, CommunityOf
  <2>2. QED
    BY <1>0, <1>3, <2>1 DEF MoveVoice, IInv, CallsTyped
<1>4. CASE HangUp
  BY <1>0, <1>4, LeaveVoiceEnds DEF HangUp, IInv, CallsTyped, Sound
<1>5. CASE ToggleCamera
  BY <1>0, <1>5, CameraKeeps DEF ToggleCamera, IInv, CallsTyped
<1>6. CASE CameraAnswered
  BY <1>0, <1>6, CameraKeeps DEF CameraAnswered, IInv, CallsTyped
<1>7. CASE Share
  <2>1. CallsTyped'
    BY <1>0, <1>7 DEF Share, CallsTyped
  <2>2. device' = device \/ device' = StopSharing(device)
    BY <1>7 DEF Share
  <2>3. QED
    BY <1>0, <2>1, <2>2, StopsKeep DEF IInv
<1>8. CASE SourcePicked
  <2> DEFINE e == [device EXCEPT !.capture = TRUE]
  <2>1. CallsTyped'
    BY <1>0, <1>8 DEF SourcePicked, CallsTyped
  <2>2. device' = device \/ device' = VoiceState(e)
    BY <1>8 DEF SourcePicked
  <2>3. /\ e \in DeviceType /\ Same(device, e)
        /\ e.camera = device.camera /\ e.cameraRoom = device.cameraRoom
    BY <1>0 DEF Sound, InOneCall, DeviceType, Same
  <2> HIDE DEF e
  <2>4. QED
    BY <1>0, <2>1, <2>2, <2>3, Published DEF IInv
<1>9. CASE CaptureFails
  BY <1>0, <1>9, StopsKeep DEF CaptureFails, IInv, CallsTyped
<1>10. CASE ToggleMute
  <2> DEFINE e == [device EXCEPT !.mute = ~ @]
  <2>1. CallsTyped'
    BY <1>0, <1>10 DEF ToggleMute, CallsTyped
  <2>2. device' = VoiceState(e)
    BY <1>10 DEF ToggleMute
  <2>3. /\ e \in DeviceType /\ Same(device, e)
        /\ e.camera = device.camera /\ e.cameraRoom = device.cameraRoom
    BY <1>0 DEF Sound, InOneCall, DeviceType, Same
  <2> HIDE DEF e
  <2>4. QED
    BY <1>0, <2>1, <2>2, <2>3, Published DEF IInv
<1>11. CASE TalkKey
  <2>1. (~ device.held) \in BOOLEAN /\ InOneCall(device) /\ FilmsItsCall(device)
    BY <1>0 DEF Sound
  <2>2. PICK held \in BOOLEAN : held = ~ device.held
    BY <2>1
  <2>3. device' = SetHeld(device, held)
    BY <1>11, <2>2 DEF TalkKey
  <2>4. Sound(device')
    BY <1>0, <2>1, <2>3, SetHeldKeeps
  <2>5. QED
    BY <1>0, <1>11, <2>4 DEF TalkKey, IInv, CallsTyped
<1>12. CASE SavePushToTalk
  BY <1>0, <1>12, SavePushToTalkKeeps DEF SavePushToTalk, IInv, CallsTyped
<1>13. CASE ToggleConnection
  BY <1>0, <1>13, ToggleConnectionKeeps DEF ToggleConnection, IInv, CallsTyped
<1>14. CASE DeleteChannel
  BY <1>0, <1>14 DEF DeleteChannel, IInv, CallsTyped
<1>15. CASE Expelled
  <2>1. CallsTyped'
    BY <1>0, <1>15 DEF Expelled, CallsTyped
  <2>2. QED
    BY <1>0, <1>15, <2>1, ExpelledKeeps DEF IInv
<1>16. CASE QueuedRefresh
  BY <1>0, <1>16, RefreshKeeps DEF QueuedRefresh, IInv, CallsTyped
<1>17. CASE UNCHANGED callsVars
  BY <1>0, <1>17 DEF callsVars, IInv, CallsTyped
<1>18. CASE ShareEnds
  BY <1>0, <1>18, ShareEndsKeeps DEF ShareEnds, IInv, CallsTyped
<1>19. QED
  BY <1>1, <1>2, <1>3, <1>4, <1>5, <1>6, <1>7, <1>8, <1>9, <1>10, <1>11, <1>12, <1>13,
     <1>14, <1>15, <1>16, <1>17, <1>18 DEF CallsNext

\* The invariant that the run checks follows.
LEMMA IInvImplies == IInv => CallsInv
<1> SUFFICES ASSUME IInv PROVE CallsInv
  OBVIOUS
<1>1. /\ device \in DeviceType /\ InOneCall(device) /\ FilmsItsCall(device)
      /\ Tells(device) /\ MicObeys(device) /\ CallsTyped
  BY DEF IInv, Sound, InOneCall
<1>2. CallsTypeOK
  <2>1. \A c \in Communities : device.mine[c].room \in Rooms \cup {NoRoom}
    BY <1>1 DEF DeviceType, Presence, Call
  <2>2. QED
    BY <1>1, <2>1 DEF CallsTypeOK, CallsTyped, DeviceType, Call
<1>3. PresenceIsTrue
  BY <1>1 DEF PresenceIsTrue, InOneCall, Tells
<1>4. CameraStaysInItsCall
  BY <1>1 DEF CameraStaysInItsCall, FilmsItsCall
<1>5. MicFollowsControls
  BY <1>1 DEF MicFollowsControls, InOneCall, MicObeys
<1>6. QED
  BY <1>2, <1>3, <1>4, <1>5 DEF CallsInv

\* In every order of prompts, moves, hang-ups and refreshes of the panel
\* (community_panel.cpp) the device is in one call across its communities, what
\* the node tells the peers of the share and the camera is what the panel does,
\* except that a share which the system has ended is told of until something is
\* published again (stopSharing, community_panel.cpp:3671-3683); a camera films
\* for no other call than the one it was turned on in, and the microphone is sent
\* only as mute and the talk key allow.
THEOREM CallsThm == CallsSpec => []CallsInv
<1>1. CallsSpec => []IInv
  BY InitIInv, NextIInv, PTL DEF CallsSpec
<1>2. QED
  BY <1>1, IInvImplies, PTL

-----------------------------------------------------------------------------
(* The sound of a share: what is asked of the audio server.                  *)

\* The devices, the messages to the audio server and from it, and a recording.
Speakers == Sinks \cup {NoSink}
Requests == [ask: {"list"}] \cup [ask: {"info"}, input: SinkInputs]
            \cup [ask: {"sink"}, input: Chosen, sink: Speakers]
            \cup [ask: {"record"}, input: Chosen, sink: Speakers, stream: Nat \ {0}]
            \cup [ask: {"stop"}, input: Chosen, stream: Nat]
Messages == [tell: {"event"}, event: {"remove", "change", "new"}, input: SinkInputs]
            \cup [tell: {"info"}, input: SinkInputs, sink: Speakers]
            \cup [tell: {"sink"}, input: Chosen, sink: Speakers]
            \cup [tell: {"ended"}, input: SinkInputs, stream: Nat]
Recording == [stream: Nat, buffered: 0 .. MaxHeldSound, primed: BOOLEAN]

\* A message about the recording of application i that has number s.
IsRecord(m, i, s) == m.ask = "record" /\ m.input = i /\ m.stream = s
IsStop(m, i, s) == m.ask = "stop" /\ m.input = i /\ m.stream = s
IsEnded(m, i, s) == m.tell = "ended" /\ m.input = i /\ m.stream = s

\* The capture holds recording s of application i; the places of a queue.
Holds(i, s) == i \in DOMAIN recordings /\ recordings[i].stream = s
Places(q) == 1 .. Len(q)

\* Types, with the bounds on the number of a recording or a request.
SoundTyped ==
    /\ recordings \in [DOMAIN recordings -> Recording] /\ DOMAIN recordings \subseteq Chosen
    /\ \A i \in DOMAIN recordings : recordings[i].stream \in 1 .. soundSpent.streams
    /\ played \in [SinkInputs -> Speakers]
    /\ live \subseteq SinkInputs \X (1 .. soundSpent.streams)
    /\ asked \in Seq(Requests) /\ told \in Seq(Messages)
    /\ soundSpent \in [streams: Nat, events: Nat, reads: Nat]
    /\ \A n \in Places(asked) : asked[n].ask \in {"record", "stop"} =>
                                    asked[n].stream <= soundSpent.streams

\* What is recorded is live, is asked for, or has ended and the news is on its way.
Accounted(i, s) ==
    Holds(i, s) => \/ <<i, s>> \in live
                   \/ \E n \in Places(asked) : IsRecord(asked[n], i, s)
                   \/ \E n \in Places(told) : IsEnded(told[n], i, s)
\* What is live, or asked for, is recorded here or will be stopped.
Followed(i, s) ==
    <<i, s>> \in live => Holds(i, s) \/ \E n \in Places(asked) : IsStop(asked[n], i, s)

\* A recording that was asked for is held, or will be stopped.
Stopped(i, s) ==
    \A n \in Places(asked) : IsRecord(asked[n], i, s) =>
        Holds(i, s) \/ \E m \in Places(asked) : m > n /\ IsStop(asked[m], i, s)
\* What will be stopped is not recorded any more.
Gone(i, s) == \A n \in Places(asked) : IsStop(asked[n], i, s) => ~ Holds(i, s)

\* All of it, for each application and each number.
SoundFollows == \A i \in SinkInputs, s \in Nat :
    Accounted(i, s) /\ Followed(i, s) /\ Stopped(i, s) /\ Gone(i, s)
SoundIInv == SoundTyped /\ SoundFollows
-----------------------------------------------------------------------------
\* Queue r is queue q with message m behind.
Grows(q, m, r) ==
    /\ Len(q) \in Nat /\ Len(q) + 1 \in Places(r) /\ r[Len(q) + 1] = m
    /\ \A n \in Places(q) : n \in Places(r) /\ r[n] = q[n]
    /\ \A n \in Places(r) : n \in Places(q) \/ n = Len(q) + 1

\* A message more: the places before it are what they were.
LEMMA OneMore ==
  ASSUME NEW S, NEW q \in Seq(S), NEW m \in S
  PROVE  Append(q, m) \in Seq(S) /\ Grows(q, m, Append(q, m))
<1>1. /\ Append(q, m) \in Seq(S) /\ Len(q) \in Nat /\ Len(Append(q, m)) = Len(q) + 1
      /\ Append(q, m)[Len(q) + 1] = m
      /\ \A n \in 1 .. Len(q) : Append(q, m)[n] = q[n]
  BY AppendProperties, LenProperties
<1> QED
  BY <1>1 DEF Places, Grows

\* The first message is taken: the places move up.
LEMMA OneLess ==
  ASSUME NEW S, NEW q \in Seq(S), q # <<>>
  PROVE  /\ Tail(q) \in Seq(S) /\ 1 \in Places(q) /\ Head(q) = q[1] /\ q[1] \in S
         /\ \A n \in Places(Tail(q)) : n + 1 \in Places(q) /\ Tail(q)[n] = q[n + 1]
         /\ \A n \in Places(q) : n # 1 => n - 1 \in Places(Tail(q)) /\ q[n] = Tail(q)[n - 1]
         /\ Places(q) \subseteq Nat /\ Places(Tail(q)) \subseteq Nat
<1>1. Len(q) \in Nat /\ Len(q) >= 1
  BY EmptySeq, LenProperties
<1>2. /\ Tail(q) \in Seq(S) /\ Len(Tail(q)) = Len(q) - 1 /\ Head(q) = q[1]
      /\ \A i \in 1 .. Len(Tail(q)) : Tail(q)[i] = q[i + 1]
  BY HeadTailProperties
<1>3. q[1] \in S
  BY <1>1, ElementOfSeq
<1> QED
  BY <1>1, <1>2, <1>3 DEF Places

\* Queue u is queue q with the messages of r behind.
GrowsBy(q, r, u) ==
    /\ \A n \in Places(q) : n \in Places(u) /\ u[n] = q[n]
    /\ \A n \in Places(r) : \E k \in Places(u) : u[k] = r[n]

\* Messages more: each place of the longer queue is one of the two.
LEMMA Joined ==
  ASSUME NEW S, NEW q \in Seq(S), NEW r \in Seq(S)
  PROVE  q \o r \in Seq(S) /\ GrowsBy(q, r, q \o r)
<1>1. Len(q) \in Nat /\ Len(r) \in Nat
  BY LenProperties
<1>2. /\ q \o r \in Seq(S) /\ Len(q \o r) = Len(q) + Len(r)
      /\ \A i \in 1 .. Len(q) + Len(r) : (q \o r)[i] = IF i <= Len(q) THEN q[i] ELSE r[i - Len(q)]
  BY ConcatProperties
<1>3. \A n \in Places(q) : n \in Places(q \o r) /\ (q \o r)[n] = q[n]
  BY <1>1, <1>2 DEF Places
<1>4. ASSUME NEW n \in Places(r)
      PROVE  \E k \in Places(q \o r) : (q \o r)[k] = r[n]
  <2>1. n + Len(q) \in 1 .. Len(q) + Len(r) /\ ~ (n + Len(q) <= Len(q))
        /\ (n + Len(q)) - Len(q) = n
    BY <1>1, <1>4 DEF Places
  <2>2. n + Len(q) \in Places(q \o r) /\ (q \o r)[n + Len(q)] = r[n]
    BY <1>2, <2>1 DEF Places
  <2> QED
    BY <2>2
<1> QED
  BY <1>2, <1>3, <1>4 DEF GrowsBy

\* A finite set in some order, each of its elements somewhere.
LEMMA InSomeOrder ==
  ASSUME NEW S, IsFiniteSet(S)
  PROVE  /\ Cardinality(S) \in Nat /\ SetToSeq(S) \in [1 .. Cardinality(S) -> S]
         /\ SetToSeq(S) \in Seq(S) /\ Len(SetToSeq(S)) = Cardinality(S)
         /\ \A x \in S : \E i \in Places(SetToSeq(S)) : SetToSeq(S)[i] = x
<1> DEFINE n == Cardinality(S)
<1>1. n \in Nat /\ ExistsBijection(1 .. n, S)
  BY FS_CardinalityType
<1>2. PICK f \in Bijection(1 .. n, S) : TRUE
  BY <1>1 DEF ExistsBijection
<1>3. f \in [1 .. n -> S] /\ IsInjective(f)
  BY <1>2 DEF Bijection, Injection
<1>4. SetToSeq(S) \in [1 .. n -> S] /\ IsInjective(SetToSeq(S))
  BY <1>3 DEF SetToSeq
<1>5. SetToSeq(S) \in Injection(1 .. n, S)
  BY <1>4 DEF Injection
<1>6. 1 \in Int /\ n \in Int
  BY <1>1
<1> HIDE DEF n
<1>7. IsFiniteSet(1 .. n) /\ Cardinality(1 .. n) = IF 1 > n THEN 0 ELSE n - 1 + 1
  BY <1>6, FS_Interval
<1>8. Cardinality(1 .. n) = n
  BY <1>1, <1>7
<1>9. SetToSeq(S) \in Surjection(1 .. n, S)
  BY <1>5, <1>8, FS_Injection DEF n
<1>10. SetToSeq(S) \in Seq(S) /\ Len(SetToSeq(S)) = n
  BY <1>1, <1>4
<1> QED
  BY <1>1, <1>4, <1>9, <1>10 DEF n, Surjection, Places

-----------------------------------------------------------------------------
\* The capture thread asks for what is neither a recording nor its end.
LEMMA AskingKeeps ==
  ASSUME SoundIInv, UNCHANGED <<recordings, played, live, soundSpent>>,
         \/ asked' = asked
         \/ \E m \in Requests : asked' = Append(asked, m) /\ m.ask \notin {"record", "stop"},
         told # <<>>, told' = Tail(told),
         \A i \in SinkInputs, s \in Nat : IsEnded(Head(told), i, s) => ~ Holds(i, s)
  PROVE  SoundIInv'
<1>1. /\ Tail(told) \in Seq(Messages) /\ Head(told) = told[1]
      /\ \A n \in Places(told) : n # 1 => n - 1 \in Places(Tail(told)) /\ told[n] = Tail(told)[n - 1]
  <2>1. told \in Seq(Messages)
    BY DEF SoundIInv, SoundTyped
  <2> QED
    BY <2>1, OneLess
<1>2. /\ asked' \in Seq(Requests)
      /\ \A n \in Places(asked) : n \in Places(asked') /\ asked'[n] = asked[n]
      /\ \A n \in Places(asked') : \/ n \in Places(asked)
                                   \/ asked'[n].ask \notin {"record", "stop"}
  <2>1. CASE asked' = asked
    BY <2>1 DEF SoundIInv, SoundTyped
  <2>2. CASE \E m \in Requests : asked' = Append(asked, m) /\ m.ask \notin {"record", "stop"}
    <3>1. PICK m \in Requests : asked' = Append(asked, m) /\ m.ask \notin {"record", "stop"}
      BY <2>2
    <3>2. asked \in Seq(Requests)
      BY DEF SoundIInv, SoundTyped
    <3>3. asked' \in Seq(Requests) /\ Grows(asked, m, asked')
      BY <3>1, <3>2, OneMore
    <3> QED
      BY <3>1, <3>3 DEF Grows
  <2> QED
    BY <2>1, <2>2
<1>3. SoundTyped'
  BY <1>1, <1>2 DEF SoundIInv, SoundTyped
<1>4. ASSUME NEW i \in SinkInputs, NEW s \in Nat
      PROVE  Accounted(i, s)' /\ Followed(i, s)' /\ Stopped(i, s)' /\ Gone(i, s)'
  <2>1. Accounted(i, s) /\ Followed(i, s) /\ Stopped(i, s) /\ Gone(i, s)
    BY DEF SoundIInv, SoundFollows
  <2>2. Accounted(i, s)'
    <3>1. \A n \in Places(told) : IsEnded(told[n], i, s) /\ Holds(i, s) =>
              \E k \in Places(Tail(told)) : IsEnded(Tail(told)[k], i, s)
      BY <1>1
    <3> QED
      BY <1>2, <2>1, <3>1 DEF Accounted, Holds
  <2>3. Followed(i, s)' /\ Stopped(i, s)' /\ Gone(i, s)'
    BY <1>2, <2>1 DEF Followed, Stopped, Gone, Holds, IsRecord, IsStop
  <2> QED
    BY <2>2, <2>3
<1> QED
  BY <1>3, <1>4 DEF SoundIInv, SoundFollows

\* forget: the recording is stopped behind everything that was asked before.
LEMMA ForgetKeeps ==
  ASSUME SoundIInv, NEW i \in DOMAIN recordings, Forget(i), UNCHANGED <<played, live>>,
         told # <<>>, told' = Tail(told),
         \A j \in SinkInputs, s \in Nat : j # i => ~ IsEnded(Head(told), j, s)
  PROVE  SoundIInv'
<1> DEFINE t == recordings[i].stream
           m == [ask |-> "stop", input |-> i, stream |-> t]
<1>1. /\ Tail(told) \in Seq(Messages) /\ Head(told) = told[1]
      /\ \A n \in Places(told) : n # 1 => n - 1 \in Places(Tail(told)) /\ told[n] = Tail(told)[n - 1]
  <2>1. told \in Seq(Messages)
    BY DEF SoundIInv, SoundTyped
  <2> QED
    BY <2>1, OneLess
<1>2. /\ i \in Chosen /\ i \in SinkInputs /\ t \in Nat /\ t <= soundSpent.streams
      /\ t \in 1 .. soundSpent.streams /\ asked \in Seq(Requests)
  BY SoundCaptureAssumption DEF SoundIInv, SoundTyped, Recording
<1>3. m \in Requests /\ m.ask = "stop" /\ m.stream = t /\ m.input = i
  BY <1>2 DEF Requests
<1>4. /\ recordings' = [j \in DOMAIN recordings \ {i} |-> recordings[j]]
      /\ asked' = Append(asked, m) /\ UNCHANGED soundSpent
  BY DEF Forget, AskServer
<1> HIDE DEF m, t
<1>5. /\ asked' \in Seq(Requests) /\ Len(asked) \in Nat /\ Len(asked) + 1 \in Places(asked')
      /\ asked'[Len(asked) + 1] = m
      /\ \A n \in Places(asked) : n \in Places(asked') /\ asked'[n] = asked[n]
      /\ \A n \in Places(asked') : n \in Places(asked) \/ n = Len(asked) + 1
  <2>1. asked' \in Seq(Requests) /\ Grows(asked, m, asked')
    BY <1>2, <1>3, <1>4, OneMore
  <2> QED
    BY <2>1 DEF Grows
<1>6. \A n \in Places(asked) : Len(asked) + 1 > n
  BY <1>5 DEF Places
<1>7. SoundTyped'
  <2>1. recordings' \in [DOMAIN recordings' -> Recording] /\ DOMAIN recordings' \subseteq Chosen
        /\ \A j \in DOMAIN recordings' : recordings'[j].stream \in 1 .. soundSpent'.streams
    BY <1>4 DEF SoundIInv, SoundTyped
  <2>2. \A n \in Places(asked') : asked'[n].ask \in {"record", "stop"} =>
                                    asked'[n].stream <= soundSpent'.streams
    BY <1>2, <1>3, <1>4, <1>5 DEF SoundIInv, SoundTyped
  <2> QED
    BY <1>1, <1>4, <1>5, <2>1, <2>2 DEF SoundIInv, SoundTyped
<1>8. /\ \A s : ~ Holds(i, s)'
      /\ \A j, s : j # i => (Holds(j, s)' <=> Holds(j, s))
      /\ \A s : Holds(i, s) <=> s = t
  BY <1>4 DEF Holds, t
<1>9. ASSUME NEW j \in SinkInputs, NEW s \in Nat
      PROVE  Accounted(j, s)' /\ Followed(j, s)' /\ Stopped(j, s)' /\ Gone(j, s)'
  <2>1. Accounted(j, s) /\ Followed(j, s) /\ Stopped(j, s) /\ Gone(j, s)
    BY DEF SoundIInv, SoundFollows
  <2>2. Accounted(j, s)'
    <3>1. CASE j = i
      BY <1>8, <3>1 DEF Accounted
    <3>2. CASE j # i
      <4>1. \A n \in Places(told) : IsEnded(told[n], j, s) =>
              \E k \in Places(Tail(told)) : IsEnded(Tail(told)[k], j, s)
        BY <1>1, <3>2
      <4> QED
        BY <1>5, <1>8, <2>1, <3>2, <4>1 DEF Accounted
    <3> QED
      BY <3>1, <3>2
  <2>3. Holds(j, s) => Holds(j, s)' \/ IsStop(asked'[Len(asked) + 1], j, s)
    BY <1>3, <1>5, <1>8 DEF IsStop
  <2>4. Followed(j, s)'
    BY <1>5, <2>1, <2>3 DEF Followed
  <2>5. Stopped(j, s)'
    <3> SUFFICES ASSUME NEW n \in Places(asked'), IsRecord(asked'[n], j, s), ~ Holds(j, s)'
          PROVE  \E k \in Places(asked') : k > n /\ IsStop(asked'[k], j, s)
      BY DEF Stopped
    <3>1. n \in Places(asked)
      BY <1>3, <1>5 DEF IsRecord
    <3>2. Holds(j, s) \/ \E k \in Places(asked) : k > n /\ IsStop(asked[k], j, s)
      BY <1>5, <2>1, <3>1 DEF Stopped
    <3> QED
      BY <1>5, <1>6, <2>3, <3>1, <3>2
  <2>6. Gone(j, s)'
    BY <1>3, <1>5, <1>8, <2>1 DEF Gone, IsStop
  <2> QED
    BY <2>2, <2>4, <2>5, <2>6
<1> QED
  BY <1>7, <1>9 DEF SoundIInv, SoundFollows

\* record: the number of a recording is one that nobody asked for before.
LEMMA RecordKeeps ==
  ASSUME SoundIInv, NEW m \in Messages, m.tell = "sink", Record(m), UNCHANGED <<played, live>>,
         told # <<>>, told' = Tail(told), Head(told) = m
  PROVE  SoundIInv'
<1>1. /\ Tail(told) \in Seq(Messages) /\ Head(told) = told[1]
      /\ \A n \in Places(told) : n # 1 => n - 1 \in Places(Tail(told)) /\ told[n] = Tail(told)[n - 1]
  <2>1. told \in Seq(Messages)
    BY DEF SoundIInv, SoundTyped
  <2> QED
    BY <2>1, OneLess
<1>2. \A i, s : ~ IsEnded(Head(told), i, s)
  BY DEF IsEnded
<1>3. CASE Recorded(m.input)
  <2>1. UNCHANGED <<recordings, asked, soundSpent>>
    BY <1>3 DEF Record, Ignore
  <2> QED
    BY <1>2, <2>1, AskingKeeps
<1>4. CASE ~ Recorded(m.input)
  <2> DEFINE i == m.input
             t == soundSpent.streams + 1
             made == [stream |-> t, buffered |-> 0, primed |-> FALSE]
             r == [ask |-> "record", input |-> i, sink |-> m.sink, stream |-> t]
  <2>1. i \in Chosen /\ m.sink \in Speakers /\ i \in SinkInputs
    BY SoundCaptureAssumption DEF Messages
  <2>2. soundSpent.streams \in Nat /\ t \in Nat \ {0} /\ asked \in Seq(Requests)
        /\ soundSpent \in [streams: Nat, events: Nat, reads: Nat]
    BY DEF SoundIInv, SoundTyped
  <2>3. /\ recordings' = [j \in DOMAIN recordings \cup {i} |-> IF j = i THEN made ELSE recordings[j]]
        /\ asked' = Append(asked, r) /\ soundSpent' = [soundSpent EXCEPT !.streams = t]
    BY <1>4 DEF Record, AskServer
  <2>4. r \in Requests /\ r.ask = "record" /\ r.stream = t /\ r.input = i
    BY <2>1, <2>2 DEF Requests
  <2>5. made \in Recording /\ made.stream = t
    BY <2>2, SoundCaptureAssumption DEF Recording
  <2>6. soundSpent' \in [streams: Nat, events: Nat, reads: Nat] /\ soundSpent'.streams = t
    BY <2>2, <2>3
  <2>7. i \notin DOMAIN recordings
    BY <1>4 DEF Recorded
  <2> HIDE DEF r, made, i
  <2>8. /\ asked' \in Seq(Requests) /\ Len(asked) \in Nat /\ Len(asked) + 1 \in Places(asked')
        /\ asked'[Len(asked) + 1] = r
        /\ \A n \in Places(asked) : n \in Places(asked') /\ asked'[n] = asked[n]
        /\ \A n \in Places(asked') : n \in Places(asked) \/ n = Len(asked) + 1
    <3>1. asked' \in Seq(Requests) /\ Grows(asked, r, asked')
      BY <2>2, <2>3, <2>4, OneMore
    <3> QED
      BY <3>1 DEF Grows
  <2>9. \A n \in Places(asked) : asked[n].ask \in {"record", "stop"} => asked[n].stream <= soundSpent.streams
    BY DEF SoundIInv, SoundTyped
  <2>10. SoundTyped'
    <3>1. recordings' \in [DOMAIN recordings' -> Recording] /\ DOMAIN recordings' \subseteq Chosen
      BY <2>1, <2>3, <2>5 DEF SoundIInv, SoundTyped
    <3>2. \A j \in DOMAIN recordings' : recordings'[j].stream \in 1 .. soundSpent'.streams
      <4> SUFFICES ASSUME NEW j \in DOMAIN recordings' PROVE recordings'[j].stream \in 1 .. t
        BY <2>6
      <4>1. CASE j = i
        BY <2>2, <2>3, <2>5, <4>1
      <4>2. CASE j # i
        <5>1. recordings'[j] = recordings[j] /\ recordings[j].stream \in 1 .. soundSpent.streams
          BY <2>3, <4>2 DEF SoundIInv, SoundTyped
        <5> QED
          BY <2>2, <5>1
      <4> QED
        BY <4>1, <4>2
    <3>3. live' \subseteq SinkInputs \X (1 .. soundSpent'.streams)
      <4>1. 1 .. soundSpent.streams \subseteq 1 .. t
        BY <2>2
      <4>2. live \subseteq SinkInputs \X (1 .. soundSpent.streams)
        BY DEF SoundIInv, SoundTyped
      <4> HIDE DEF t
      <4> QED
        BY <2>6, <4>1, <4>2
    <3>4. \A n \in Places(asked') : asked'[n].ask \in {"record", "stop"} =>
                                      asked'[n].stream <= soundSpent'.streams
      <4> SUFFICES ASSUME NEW n \in Places(asked'), asked'[n].ask \in {"record", "stop"}
            PROVE  asked'[n].stream <= t
        BY <2>6
      <4>1. CASE n = Len(asked) + 1
        BY <2>2, <2>4, <2>8, <4>1
      <4>2. CASE n \in Places(asked)
        <5>1. asked[n] \in Requests
          BY <2>2, <4>2, ElementOfSeq DEF Places
        <5>2. asked[n].stream \in Nat /\ asked[n].stream <= soundSpent.streams
          BY <2>8, <2>9, <4>2, <5>1 DEF Requests
        <5> QED
          BY <2>2, <2>8, <4>2, <5>2
      <4> QED
        BY <2>8, <4>1, <4>2
    <3> QED
      BY <1>1, <2>6, <2>8, <3>1, <3>2, <3>3, <3>4 DEF SoundIInv, SoundTyped
  <2>11. /\ \A j, s : j # i => (Holds(j, s)' <=> Holds(j, s))
         /\ \A s : (Holds(i, s)' <=> s = t) /\ ~ Holds(i, s)
    BY <2>3, <2>5, <2>7 DEF Holds
  <2>12. \A n \in Places(asked) : \A j, s : IsStop(asked[n], j, s) => s # t
    <3> SUFFICES ASSUME NEW n \in Places(asked), asked[n].ask = "stop", asked[n].stream = t
          PROVE  FALSE
      BY DEF IsStop
    <3> QED
      BY <2>2, <2>9
  <2>13. ASSUME NEW j \in SinkInputs, NEW s \in Nat
         PROVE  Accounted(j, s)' /\ Followed(j, s)' /\ Stopped(j, s)' /\ Gone(j, s)'
    <3>1. Accounted(j, s) /\ Followed(j, s) /\ Stopped(j, s) /\ Gone(j, s)
      BY DEF SoundIInv, SoundFollows
    <3>2. Accounted(j, s)'
      <4>1. \A n \in Places(told) : IsEnded(told[n], j, s) =>
              \E k \in Places(Tail(told)) : IsEnded(Tail(told)[k], j, s)
        BY <1>1, <1>2
      <4>2. Holds(j, s)' => Holds(j, s) \/ IsRecord(asked'[Len(asked) + 1], j, s)
        BY <2>4, <2>8, <2>11 DEF IsRecord
      <4> QED
        BY <2>8, <3>1, <4>1, <4>2 DEF Accounted
    <3>3. Holds(j, s) => Holds(j, s)'
      BY <2>11
    <3>4. Followed(j, s)'
      BY <2>8, <3>1, <3>3 DEF Followed
    <3>5. Stopped(j, s)'
      <4> SUFFICES ASSUME NEW n \in Places(asked'), IsRecord(asked'[n], j, s), ~ Holds(j, s)'
            PROVE  \E k \in Places(asked') : k > n /\ IsStop(asked'[k], j, s)
        BY DEF Stopped
      <4>1. n \in Places(asked)
        BY <2>4, <2>8, <2>11 DEF IsRecord
      <4> QED
        BY <2>8, <3>1, <3>3, <4>1 DEF Stopped
    <3>6. Gone(j, s)'
      BY <2>4, <2>8, <2>11, <2>12, <3>1 DEF Gone, IsStop
    <3> QED
      BY <3>2, <3>4, <3>5, <3>6
  <2> QED
    BY <2>10, <2>13 DEF SoundIInv, SoundFollows
<1> QED
  BY <1>3, <1>4

\* What the capture thread makes of each message.
LEMMA MessageKeeps == ASSUME SoundIInv, HandleMessage PROVE SoundIInv'
<1>1. PICK m : m = Head(told)
  OBVIOUS
<1>2. told \in Seq(Messages) /\ told # <<>> /\ told' = Tail(told) /\ UNCHANGED <<played, live>>
  BY DEF HandleMessage, SoundIInv, SoundTyped
<1>3. m \in Messages
  BY <1>1, <1>2, OneLess
<1>4. CASE m.tell = "event"
  <2>1. OnEvent(m)
    BY <1>1, <1>4 DEF HandleMessage
  <2>2. \A i, s : ~ IsEnded(Head(told), i, s)
    BY <1>1, <1>4 DEF IsEnded
  <2>3. m.input \in SinkInputs
    BY <1>3, <1>4 DEF Messages
  <2>4. CASE m.event = "remove" /\ Recorded(m.input)
    <3>1. Forget(m.input) /\ m.input \in DOMAIN recordings
      BY <2>1, <2>4 DEF OnEvent, Recorded
    <3> QED
      BY <1>2, <2>2, <3>1, ForgetKeeps
  <2>5. CASE m.event = "remove" /\ ~ Recorded(m.input)
    <3>1. UNCHANGED <<recordings, asked, soundSpent>>
      BY <2>1, <2>5 DEF OnEvent, Ignore
    <3> QED
      BY <1>2, <2>2, <3>1, AskingKeeps
  <2>6. CASE m.event # "remove"
    <3>1. PICK r : r = [ask |-> "info", input |-> m.input]
      OBVIOUS
    <3>2. asked' = Append(asked, r) /\ UNCHANGED <<recordings, soundSpent>>
      BY <2>1, <2>6, <3>1 DEF OnEvent, AskServer
    <3>3. r \in Requests /\ r.ask \notin {"record", "stop"}
      BY <2>3, <3>1 DEF Requests
    <3> QED
      BY <1>2, <2>2, <3>2, <3>3, AskingKeeps
  <2> QED
    BY <2>4, <2>5, <2>6
<1>5. CASE m.tell = "info"
  <2>1. OnInputInfo(m)
    BY <1>1, <1>5 DEF HandleMessage
  <2>2. \A i, s : ~ IsEnded(Head(told), i, s)
    BY <1>1, <1>5 DEF IsEnded
  <2>3. CASE Recorded(m.input) \/ m.input \notin Chosen
    <3>1. UNCHANGED <<recordings, asked, soundSpent>>
      BY <2>1, <2>3 DEF OnInputInfo, Ignore
    <3> QED
      BY <1>2, <2>2, <3>1, AskingKeeps
  <2>4. CASE ~ Recorded(m.input) /\ m.input \in Chosen
    <3>1. PICK r : r = [ask |-> "sink", input |-> m.input, sink |-> m.sink]
      OBVIOUS
    <3>2. asked' = Append(asked, r) /\ UNCHANGED <<recordings, soundSpent>>
      BY <2>1, <2>4, <3>1 DEF OnInputInfo, AskServer
    <3>3. m.sink \in Speakers
      BY <1>3, <1>5 DEF Messages
    <3>4. r \in Requests /\ r.ask \notin {"record", "stop"}
      BY <2>4, <3>1, <3>3 DEF Requests
    <3> QED
      BY <1>2, <2>2, <3>2, <3>4, AskingKeeps
  <2> QED
    BY <2>3, <2>4
<1>6. CASE m.tell = "sink"
  <2>1. Record(m)
    BY <1>1, <1>6 DEF HandleMessage
  <2> QED
    BY <1>1, <1>2, <1>3, <1>6, <2>1, RecordKeeps
<1>7. CASE m.tell = "ended"
  <2>1. OnEnded(m)
    BY <1>1, <1>7 DEF HandleMessage
  <2>2. CASE Recorded(m.input) /\ recordings[m.input].stream = m.stream
    <3>1. Forget(m.input) /\ m.input \in DOMAIN recordings
      BY <2>1, <2>2 DEF OnEnded, Recorded
    <3>2. \A j \in SinkInputs, s \in Nat : j # m.input => ~ IsEnded(Head(told), j, s)
      BY <1>1 DEF IsEnded
    <3> QED
      BY <1>2, <3>1, <3>2, ForgetKeeps
  <2>3. CASE ~ (Recorded(m.input) /\ recordings[m.input].stream = m.stream)
    <3>1. UNCHANGED <<recordings, asked, soundSpent>>
      BY <2>1, <2>3 DEF OnEnded, Ignore
    <3>2. \A i \in SinkInputs, s \in Nat : IsEnded(Head(told), i, s) => ~ Holds(i, s)
      BY <1>1, <2>3 DEF IsEnded, Holds, Recorded
    <3> QED
      BY <1>2, <3>1, <3>2, AskingKeeps
  <2> QED
    BY <2>2, <2>3
<1> QED
  <2>1. m.tell \in {"event", "info", "sink", "ended"}
    BY <1>3 DEF Messages
  <2> QED
    BY <1>4, <1>5, <1>6, <1>7, <2>1

\* Sound that comes or is mixed changes no recording's stream.
LEMMA BuffersKeep ==
  ASSUME SoundIInv, recordings' \in [DOMAIN recordings -> Recording],
         \A i \in DOMAIN recordings : recordings'[i].stream = recordings[i].stream,
         soundSpent' \in [streams: Nat, events: Nat, reads: Nat],
         soundSpent'.streams = soundSpent.streams, UNCHANGED <<asked, told, played, live>>
  PROVE  SoundIInv'
<1>1. SoundTyped'
  BY DEF SoundIInv, SoundTyped
<1>2. \A i, s : Holds(i, s)' <=> Holds(i, s)
  BY DEF Holds
<1>3. ASSUME NEW i \in SinkInputs, NEW s \in Nat
      PROVE  Accounted(i, s)' /\ Followed(i, s)' /\ Stopped(i, s)' /\ Gone(i, s)'
  <2>1. Accounted(i, s) /\ Followed(i, s) /\ Stopped(i, s) /\ Gone(i, s)
    BY DEF SoundIInv, SoundFollows
  <2> QED
    BY <1>2, <2>1 DEF Accounted, Followed, Stopped, Gone
<1> QED
  BY <1>1, <1>3 DEF SoundIInv, SoundFollows

\* onRead.
LEMMA ReadKeeps ==
  ASSUME SoundIInv, NEW i \in SinkInputs, NEW amount \in 1 .. PrimingSound, OnRead(i, amount)
  PROVE  SoundIInv'
<1> DEFINE total == recordings[i].buffered + amount
           kept == IF total > MaxHeldSound THEN PrimingSound ELSE total
<1>1. /\ i \in DOMAIN recordings /\ recordings' = [recordings EXCEPT ![i].buffered = kept]
      /\ soundSpent' = [soundSpent EXCEPT !.reads = soundSpent.reads + 1]
      /\ UNCHANGED <<asked, told, played, live>>
  BY DEF OnRead, Recorded
<1>2. recordings \in [DOMAIN recordings -> Recording]
      /\ soundSpent \in [streams: Nat, events: Nat, reads: Nat]
  BY DEF SoundIInv, SoundTyped
<1>3. recordings[i] \in Recording
  BY <1>1, <1>2
<1>4. kept \in 0 .. MaxHeldSound
  BY <1>3, SoundCaptureAssumption DEF Recording
<1> HIDE DEF kept
<1>5. [recordings[i] EXCEPT !.buffered = kept] \in Recording
      /\ [recordings[i] EXCEPT !.buffered = kept].stream = recordings[i].stream
  BY <1>3, <1>4 DEF Recording
<1>6. recordings' = [recordings EXCEPT ![i] = [recordings[i] EXCEPT !.buffered = kept]]
  BY <1>1
<1>7. recordings' \in [DOMAIN recordings -> Recording]
      /\ \A j \in DOMAIN recordings : recordings'[j].stream = recordings[j].stream
  BY <1>1, <1>2, <1>5, <1>6
<1>8. soundSpent' \in [streams: Nat, events: Nat, reads: Nat]
      /\ soundSpent'.streams = soundSpent.streams
  <2>1. soundSpent.reads + 1 \in Nat
    BY <1>2
  <2> QED
    BY <1>1, <1>2, <2>1
<1> QED
  BY <1>1, <1>7, <1>8, BuffersKeep

\* onTick.
LEMMA TickKeeps == ASSUME SoundIInv, OnTick PROVE SoundIInv'
<1>1. recordings' = [i \in DOMAIN recordings |-> MixedIn(recordings[i])]
      /\ UNCHANGED <<asked, told, played, live, soundSpent>>
  BY DEF OnTick
<1>2. recordings \in [DOMAIN recordings -> Recording]
      /\ soundSpent \in [streams: Nat, events: Nat, reads: Nat]
  BY DEF SoundIInv, SoundTyped
<1>3. ASSUME NEW r \in Recording PROVE MixedIn(r) \in Recording /\ MixedIn(r).stream = r.stream
  <2>1. CASE ~ r.primed /\ r.buffered < PrimingSound
    BY <2>1 DEF MixedIn
  <2>2. CASE ~ (~ r.primed /\ r.buffered < PrimingSound) /\ r.buffered > 0
    <3>1. r.buffered - 1 \in 0 .. MaxHeldSound
      BY <2>2, SoundCaptureAssumption DEF Recording
    <3>2. MixedIn(r) = [r EXCEPT !.buffered = r.buffered - 1, !.primed = TRUE]
      BY <2>2 DEF MixedIn
    <3> QED
      BY <3>1, <3>2 DEF Recording
  <2>3. CASE ~ (~ r.primed /\ r.buffered < PrimingSound) /\ ~ (r.buffered > 0)
    <3>1. MixedIn(r) = [r EXCEPT !.primed = FALSE]
      BY <2>3 DEF MixedIn
    <3> QED
      BY <3>1 DEF Recording
  <2> QED
    BY <2>1, <2>2, <2>3
<1>4. recordings' \in [DOMAIN recordings -> Recording]
      /\ \A j \in DOMAIN recordings : recordings'[j].stream = recordings[j].stream
  BY <1>1, <1>2, <1>3
<1> QED
  BY <1>1, <1>2, <1>4, BuffersKeep

\* A queue with the one request of a share that begins.
LEMMA FirstRequest ==
  ASSUME asked = <<[ask |-> "list"]>>
  PROVE  asked \in Seq(Requests) /\ \A n \in Places(asked) : asked[n].ask = "list"
<1>1. [ask |-> "list"] \in Requests
  BY DEF Requests
<1> QED
  BY <1>1 DEF Places

\* stop and start.
LEMMA ReopenKeeps == ASSUME SoundIInv, Reopen PROVE SoundIInv'
<1>1. /\ recordings' = <<>> /\ live' = {} /\ asked' = <<[ask |-> "list"]>> /\ told' = <<>>
      /\ UNCHANGED <<played, soundSpent>>
  BY DEF Reopen, NoRecordings
<1>2. asked' \in Seq(Requests) /\ \A n \in Places(asked') : asked'[n].ask = "list"
  <2>1. [ask |-> "list"] \in Requests
    BY DEF Requests
  <2> QED
    BY <1>1, <2>1 DEF Places
<1>3. DOMAIN recordings' = {} /\ recordings' \in [{} -> Recording]
  BY <1>1
<1>4. SoundTyped'
  BY <1>1, <1>2, <1>3 DEF SoundIInv, SoundTyped
<1>5. \A i, s : ~ Holds(i, s)'
  BY <1>3 DEF Holds
<1>6. ASSUME NEW i \in SinkInputs, NEW s \in Nat
      PROVE  Accounted(i, s)' /\ Followed(i, s)' /\ Stopped(i, s)' /\ Gone(i, s)'
  BY <1>1, <1>2, <1>5 DEF Accounted, Followed, Stopped, Gone, IsRecord
<1> QED
  BY <1>4, <1>6 DEF SoundIInv, SoundFollows

\* The server handles a request: a recording begins or has ended, one that was
\* stopped ends, and nothing else does.
LEMMA ServedKeeps ==
  ASSUME SoundIInv, asked # <<>>, asked' = Tail(asked), NEW replies \in Seq(Messages),
         told' = told \o replies, UNCHANGED <<recordings, played, soundSpent>>,
         live' \subseteq SinkInputs \X (1 .. soundSpent.streams),
         \A i \in SinkInputs, s \in Nat : IsRecord(Head(asked), i, s) =>
             <<i, s>> \in live' \/ \E n \in Places(replies) : IsEnded(replies[n], i, s),
         \A i \in SinkInputs, s \in Nat : <<i, s>> \in live =>
             <<i, s>> \in live' \/ IsStop(Head(asked), i, s),
         \A i \in SinkInputs, s \in Nat : <<i, s>> \in live' =>
             (<<i, s>> \in live /\ ~ IsStop(Head(asked), i, s)) \/ IsRecord(Head(asked), i, s)
  PROVE  SoundIInv'
<1>0. asked \in Seq(Requests) /\ told \in Seq(Messages)
  BY DEF SoundIInv, SoundTyped
<1>a. PICK t : t = Tail(asked)
  OBVIOUS
<1>1. /\ t \in Seq(Requests) /\ 1 \in Places(asked) /\ Head(asked) = asked[1]
      /\ \A n \in Places(t) : n + 1 \in Places(asked) /\ t[n] = asked[n + 1]
      /\ \A n \in Places(asked) : n # 1 => n - 1 \in Places(t) /\ asked[n] = t[n - 1]
      /\ Places(asked) \subseteq Nat /\ Places(t) \subseteq Nat
  BY <1>0, <1>a, OneLess
<1>b. PICK u : u = told \o replies
  OBVIOUS
<1>2. /\ u \in Seq(Messages)
      /\ \A n \in Places(told) : n \in Places(u) /\ u[n] = told[n]
      /\ \A n \in Places(replies) : \E k \in Places(u) : u[k] = replies[n]
  <2>1. u \in Seq(Messages) /\ GrowsBy(told, replies, u)
    BY <1>0, <1>b, Joined
  <2> QED
    BY <2>1 DEF GrowsBy
<1>3. asked' = t /\ told' = u
  BY <1>a, <1>b
<1>4. SoundTyped'
  <2>1. \A n \in Places(t) : t[n].ask \in {"record", "stop"} => t[n].stream <= soundSpent.streams
    BY <1>1 DEF SoundIInv, SoundTyped
  <2> QED
    BY <1>1, <1>2, <1>3, <2>1 DEF SoundIInv, SoundTyped
<1>5. \A i, s : Holds(i, s)' <=> Holds(i, s)
  BY DEF Holds
<1>6. ASSUME NEW i \in SinkInputs, NEW s \in Nat
      PROVE  Accounted(i, s)' /\ Followed(i, s)' /\ Stopped(i, s)' /\ Gone(i, s)'
  <2>1. Accounted(i, s) /\ Followed(i, s) /\ Stopped(i, s) /\ Gone(i, s)
    BY DEF SoundIInv, SoundFollows
  <2>2. Accounted(i, s)'
    <3> SUFFICES ASSUME Holds(i, s)
          PROVE  \/ <<i, s>> \in live'
                 \/ \E n \in Places(t) : IsRecord(t[n], i, s)
                 \/ \E n \in Places(u) : IsEnded(u[n], i, s)
      BY <1>3, <1>5 DEF Accounted
    <3>1. CASE <<i, s>> \in live
      BY <1>1, <2>1, <3>1 DEF Gone
    <3>2. CASE \E n \in Places(asked) : IsRecord(asked[n], i, s)
      BY <1>1, <1>2, <3>2
    <3>3. CASE \E n \in Places(told) : IsEnded(told[n], i, s)
      BY <1>2, <3>3
    <3> QED
      BY <2>1, <3>1, <3>2, <3>3 DEF Accounted
  <2>3. Followed(i, s)'
    <3> SUFFICES ASSUME <<i, s>> \in live', ~ Holds(i, s)
          PROVE  \E n \in Places(t) : IsStop(t[n], i, s)
      BY <1>3, <1>5 DEF Followed
    <3>1. CASE <<i, s>> \in live /\ ~ IsStop(Head(asked), i, s)
      BY <1>1, <2>1, <3>1 DEF Followed
    <3>2. CASE IsRecord(Head(asked), i, s)
      <4>1. PICK m \in Places(asked) : m > 1 /\ IsStop(asked[m], i, s)
        BY <1>1, <2>1, <3>2 DEF Stopped
      <4> QED
        BY <1>1, <4>1
    <3> QED
      BY <3>1, <3>2
  <2>4. Stopped(i, s)'
    <3> SUFFICES ASSUME NEW n \in Places(t), IsRecord(t[n], i, s), ~ Holds(i, s)
          PROVE  \E m \in Places(t) : m > n /\ IsStop(t[m], i, s)
      BY <1>3, <1>5 DEF Stopped
    <3>1. PICK m \in Places(asked) : m > n + 1 /\ IsStop(asked[m], i, s)
      BY <1>1, <2>1 DEF Stopped
    <3>2. m # 1 /\ m - 1 > n
      BY <1>1, <3>1
    <3> QED
      BY <1>1, <3>1, <3>2
  <2>5. Gone(i, s)'
    BY <1>1, <1>3, <1>5, <2>1 DEF Gone
  <2> QED
    BY <2>2, <2>3, <2>4, <2>5
<1> QED
  BY <1>4, <1>6 DEF SoundIInv, SoundFollows

\* The server's answers to what the capture thread asks.
LEMMA RequestKeeps == ASSUME SoundIInv, HandleRequest PROVE SoundIInv'
<1>1. PICK m : m = Head(asked)
  OBVIOUS
<1>2. /\ asked \in Seq(Requests) /\ asked # <<>> /\ asked' = Tail(asked)
      /\ UNCHANGED <<recordings, played, soundSpent>>
      /\ live \subseteq SinkInputs \X (1 .. soundSpent.streams)
      /\ played \in [SinkInputs -> Speakers]
  BY DEF HandleRequest, SoundIInv, SoundTyped
<1>3. m \in Requests /\ m = asked[1] /\ 1 \in Places(asked)
  BY <1>1, <1>2, OneLess
<1>4. ASSUME NEW replies \in Seq(Messages), told' = told \o replies, live' = live,
             m.ask \notin {"record", "stop"}
      PROVE  SoundIInv'
  <2>1. \A i, s : ~ IsRecord(Head(asked), i, s) /\ ~ IsStop(Head(asked), i, s)
    BY <1>1, <1>4 DEF IsRecord, IsStop
  <2> QED
    BY <1>2, <1>4, <2>1, ServedKeeps
<1>5. ASSUME NEW i \in SinkInputs PROVE InfoOf(i) \in Messages
  <2>1. played[i] \in Speakers
    BY <1>2
  <2> QED
    BY <2>1 DEF InfoOf, Messages
<1>6. CASE m.ask = "list"
  <2> DEFINE S == {i \in SinkInputs : Playing(i)}
             replies == [n \in 1 .. Cardinality(S) |-> InfoOf(SetToSeq(S)[n])]
  <2>1. told' = told \o replies /\ live' = live
    BY <1>1, <1>6 DEF HandleRequest
  <2>2. IsFiniteSet(S) /\ S \subseteq SinkInputs
    BY FS_Subset, SoundCaptureAssumption
  <2> HIDE DEF S
  <2>3. Cardinality(S) \in Nat /\ SetToSeq(S) \in [1 .. Cardinality(S) -> S]
    BY <2>2, InSomeOrder
  <2>4. \A n \in 1 .. Cardinality(S) : InfoOf(SetToSeq(S)[n]) \in Messages
    BY <1>5, <2>2, <2>3
  <2>5. replies \in [1 .. Cardinality(S) -> Messages]
    BY <2>4
  <2> HIDE DEF replies
  <2>6. replies \in Seq(Messages)
    BY <2>3, <2>5
  <2> QED
    BY <1>4, <1>6, <2>1, <2>6
<1>7. CASE m.ask = "info"
  <2>1. PICK replies : replies = IF Playing(m.input) THEN <<InfoOf(m.input)>> ELSE <<>>
    OBVIOUS
  <2>2. told' = told \o replies /\ live' = live
    BY <1>1, <1>7, <2>1 DEF HandleRequest
  <2>3. m.input \in SinkInputs
    BY <1>3, <1>7 DEF Requests
  <2>4. InfoOf(m.input) \in Messages
    BY <1>5, <2>3
  <2>5. replies \in Seq(Messages)
    BY <2>1, <2>4
  <2> QED
    BY <1>4, <1>7, <2>2, <2>5
<1>8. CASE m.ask = "sink"
  <2>1. PICK r : r = [tell |-> "sink", input |-> m.input, sink |-> m.sink]
    OBVIOUS
  <2>2. told' = told \o <<r>> /\ live' = live
    BY <1>1, <1>8, <2>1 DEF HandleRequest
  <2>3. m.input \in Chosen /\ m.sink \in Speakers
    BY <1>3, <1>8 DEF Requests
  <2>4. r \in Messages
    BY <2>1, <2>3 DEF Messages
  <2>5. <<r>> \in Seq(Messages)
    BY <2>4
  <2> QED
    BY <1>4, <1>8, <2>2, <2>5
<1>9. CASE m.ask = "record"
  <2>1. m.input \in SinkInputs /\ m.stream \in Nat \ {0} /\ m.stream \in 1 .. soundSpent.streams
    <3>1. m.input \in SinkInputs /\ m.stream \in Nat \ {0}
      BY <1>3, <1>9, SoundCaptureAssumption DEF Requests
    <3>2. m.stream <= soundSpent.streams /\ soundSpent.streams \in Nat
      BY <1>3, <1>9 DEF SoundIInv, SoundTyped
    <3> QED
      BY <3>1, <3>2
  <2>2. \A i, s : /\ ~ IsStop(Head(asked), i, s)
                  /\ IsRecord(Head(asked), i, s) <=> <<i, s>> = <<m.input, m.stream>>
    BY <1>1, <1>9 DEF IsRecord, IsStop
  <2>3. CASE played[m.input] = m.sink
    <3>1. told' = told \o <<>> /\ live' = live \cup {<<m.input, m.stream>>}
      BY <1>1, <1>9, <2>3 DEF HandleRequest
    <3>2. <<>> \in Seq(Messages)
      OBVIOUS
    <3>3. live' \subseteq SinkInputs \X (1 .. soundSpent.streams)
      BY <1>2, <2>1, <3>1
    <3>4. \A i, s : <<i, s>> \in live' <=> <<i, s>> \in live \/ IsRecord(Head(asked), i, s)
      BY <2>2, <3>1
    <3> QED
      BY <1>2, <2>2, <3>1, <3>2, <3>3, <3>4, ServedKeeps
  <2>4. CASE played[m.input] # m.sink
    <3>1. PICK r : r = [tell |-> "ended", input |-> m.input, stream |-> m.stream]
      OBVIOUS
    <3>2. told' = told \o <<r>> /\ live' = live
      BY <1>1, <1>9, <2>4, <3>1 DEF HandleRequest
    <3>3. r \in Messages
      BY <2>1, <3>1 DEF Messages
    <3>4. PICK replies : replies = <<r>>
      OBVIOUS
    <3>5. replies \in Seq(Messages) /\ 1 \in Places(replies) /\ replies[1] = r
      BY <3>3, <3>4 DEF Places
    <3>6. \A i, s : IsRecord(Head(asked), i, s) => IsEnded(r, i, s)
      BY <2>2, <3>1 DEF IsEnded
    <3>7. told' = told \o replies
      BY <3>2, <3>4
    <3>8. \A i \in SinkInputs, s \in Nat : IsRecord(Head(asked), i, s) =>
             <<i, s>> \in live' \/ \E n \in Places(replies) : IsEnded(replies[n], i, s)
      BY <3>5, <3>6
    <3> QED
      BY <1>2, <2>2, <3>2, <3>5, <3>7, <3>8, ServedKeeps
  <2> QED
    BY <2>3, <2>4
<1>10. CASE m.ask = "stop"
  <2>1. told' = told \o <<>> /\ live' = live \ {<<m.input, m.stream>>}
    BY <1>1, <1>10 DEF HandleRequest
  <2>2. \A i, s : /\ ~ IsRecord(Head(asked), i, s)
                  /\ IsStop(Head(asked), i, s) <=> <<i, s>> = <<m.input, m.stream>>
    BY <1>1, <1>10 DEF IsRecord, IsStop
  <2>3. <<>> \in Seq(Messages)
    OBVIOUS
  <2>4. live' \subseteq SinkInputs \X (1 .. soundSpent.streams)
    BY <1>2, <2>1
  <2>5. \A i, s : <<i, s>> \in live' <=> <<i, s>> \in live /\ ~ IsStop(Head(asked), i, s)
    BY <2>1, <2>2
  <2> QED
    BY <1>2, <2>1, <2>2, <2>3, <2>4, <2>5, ServedKeeps
<1> QED
  <2>1. m.ask \in {"list", "info", "sink", "record", "stop"}
    BY <1>3 DEF Requests
  <2> QED
    BY <1>6, <1>7, <1>8, <1>9, <1>10, <2>1

\* A stream that moves or ends takes its recordings along and reports each.
LEMMA PlayKeeps ==
  ASSUME SoundIInv, NEW i \in SinkInputs, NEW sink \in Sinks \cup {NoSink}, PlayOn(i, sink)
  PROVE  SoundIInv'
<1> DEFINE ended == {pair \in live : pair[1] = i}
           News(pair) == [tell |-> "ended", input |-> i, stream |-> pair[2]]
           kills == {News(pair) : pair \in ended}
<1>1. PICK event \in {"remove", "change", "new"} :
        /\ told' = told \o SetToSeq(kills) \o <<[tell |-> "event", event |-> event, input |-> i]>>
        /\ live' = live \ ended /\ played' = [played EXCEPT ![i] = sink]
        /\ soundSpent' = [soundSpent EXCEPT !.events = soundSpent.events + 1]
        /\ UNCHANGED <<recordings, asked>>
  BY DEF PlayOn
<1>2. /\ live \subseteq SinkInputs \X (1 .. soundSpent.streams) /\ told \in Seq(Messages)
      /\ soundSpent \in [streams: Nat, events: Nat, reads: Nat]
      /\ played \in [SinkInputs -> Speakers]
  BY DEF SoundIInv, SoundTyped
<1>3. IsFiniteSet(kills) /\ kills \subseteq Messages
  <2>1. ended \subseteq {i} \X (1 .. soundSpent.streams)
    BY <1>2
  <2>2. IsFiniteSet({i}) /\ IsFiniteSet(1 .. soundSpent.streams)
    <3>1. 1 \in Int /\ soundSpent.streams \in Int
      BY <1>2
    <3> QED
      BY <3>1, FS_Singleton, FS_Interval
  <2>3. IsFiniteSet(ended)
    BY <2>1, <2>2, FS_Product, FS_Subset
  <2>4. [pair \in ended |-> News(pair)] \in Surjection(ended, kills)
    BY DEF Surjection
  <2>5. IsFiniteSet(kills)
    BY <2>3, <2>4, FS_Surjection
  <2>6. \A pair \in ended : pair[2] \in Nat
    BY <1>2, <2>1
  <2> QED
    BY <2>5, <2>6 DEF Messages
<1>4. PICK news : news = SetToSeq(kills)
  OBVIOUS
<1>5. news \in Seq(Messages) /\ \A x \in kills : \E n \in Places(news) : news[n] = x
  <2>1. /\ Cardinality(kills) \in Nat /\ news \in [1 .. Cardinality(kills) -> kills]
        /\ \A x \in kills : \E n \in Places(news) : news[n] = x
    BY <1>3, <1>4, InSomeOrder
  <2> HIDE DEF kills
  <2> QED
    BY <1>3, <2>1
<1>6. \A pair \in ended : \E n \in Places(news) : IsEnded(news[n], i, pair[2])
  <2> SUFFICES ASSUME NEW pair \in ended
        PROVE  \E n \in Places(news) : IsEnded(news[n], i, pair[2])
    OBVIOUS
  <2>1. PICK n \in Places(news) : news[n] = News(pair)
    BY <1>5
  <2> QED
    BY <2>1 DEF IsEnded
<1>7. \A j, s : <<j, s>> \in live => \/ <<j, s>> \in live'
                                     \/ \E n \in Places(news) : IsEnded(news[n], j, s)
  <2> SUFFICES ASSUME NEW j, NEW s, <<j, s>> \in live, <<j, s>> \notin live'
        PROVE  \E n \in Places(news) : IsEnded(news[n], j, s)
    OBVIOUS
  <2>1. <<j, s>> \in ended /\ j = i /\ <<j, s>>[2] = s
    BY <1>1
  <2> QED
    BY <1>6, <2>1
<1> HIDE DEF ended, kills
<1>8. PICK last : last = [tell |-> "event", event |-> event, input |-> i]
  OBVIOUS
<1>9. last \in Messages
  BY <1>8 DEF Messages
<1>10. PICK u : u = told \o news
  OBVIOUS
<1>11. u \in Seq(Messages) /\ GrowsBy(told, news, u)
  BY <1>2, <1>5, <1>10, Joined
<1>12. told' = u \o <<last>>
  BY <1>1, <1>4, <1>8, <1>10
<1>13. told' \in Seq(Messages) /\ GrowsBy(u, <<last>>, told')
  <2>1. <<last>> \in Seq(Messages)
    BY <1>9
  <2> QED
    BY <1>11, <1>12, <2>1, Joined
<1>14. SoundTyped'
  <2>1. played' \in [SinkInputs -> Speakers]
    BY <1>1, <1>2 DEF Speakers
  <2>2. soundSpent' \in [streams: Nat, events: Nat, reads: Nat]
        /\ soundSpent'.streams = soundSpent.streams
    <3>1. soundSpent.events + 1 \in Nat
      BY <1>2
    <3> QED
      BY <1>1, <1>2, <3>1
  <2>3. live' \subseteq SinkInputs \X (1 .. soundSpent.streams)
    BY <1>1, <1>2
  <2>4. UNCHANGED <<recordings, asked>>
    BY <1>1
  <2> QED
    BY <1>13, <2>1, <2>2, <2>3, <2>4 DEF SoundIInv, SoundTyped
<1>15. UNCHANGED <<recordings, asked>> /\ live' \subseteq live
  BY <1>1
<1>16. ASSUME NEW j \in SinkInputs, NEW s \in Nat
       PROVE  Accounted(j, s)' /\ Followed(j, s)' /\ Stopped(j, s)' /\ Gone(j, s)'
  <2>1. Accounted(j, s) /\ Followed(j, s) /\ Stopped(j, s) /\ Gone(j, s)
    BY DEF SoundIInv, SoundFollows
  <2>2. Holds(j, s)' <=> Holds(j, s)
    BY <1>15 DEF Holds
  <2>3. Accounted(j, s)'
    <3>1. \A n \in Places(told) : n \in Places(told') /\ told'[n] = told[n]
      BY <1>11, <1>13 DEF GrowsBy
    <3>2. \A n \in Places(news) : \E k \in Places(told') : told'[k] = news[n]
      BY <1>11, <1>13 DEF GrowsBy
    <3> QED
      BY <1>7, <1>15, <2>1, <2>2, <3>1, <3>2 DEF Accounted
  <2>4. Followed(j, s)' /\ Stopped(j, s)' /\ Gone(j, s)'
    BY <1>15, <2>1, <2>2 DEF Followed, Stopped, Gone
  <2> QED
    BY <2>3, <2>4
<1> QED
  BY <1>14, <1>16 DEF SoundIInv, SoundFollows

\* A share begins: nothing is recorded, the list of streams is asked for.
LEMMA SoundStarts == ASSUME SoundInit PROVE SoundIInv
<1>1. /\ recordings = <<>> /\ live = {} /\ asked = <<[ask |-> "list"]>> /\ told = <<>>
      /\ played \in [SinkInputs -> Speakers]
      /\ soundSpent = [streams |-> 0, events |-> 0, reads |-> 0]
  BY DEF SoundInit, NoRecordings, Speakers
<1>2. asked \in Seq(Requests) /\ \A n \in Places(asked) : asked[n].ask = "list"
  BY <1>1, FirstRequest
<1>3. DOMAIN recordings = {} /\ recordings \in [{} -> Recording]
  BY <1>1
<1>4. SoundTyped
  BY <1>1, <1>2, <1>3 DEF SoundTyped
<1>5. \A i, s : ~ Holds(i, s)
  BY <1>3 DEF Holds
<1>6. ASSUME NEW i \in SinkInputs, NEW s \in Nat
      PROVE  Accounted(i, s) /\ Followed(i, s) /\ Stopped(i, s) /\ Gone(i, s)
  BY <1>1, <1>2, <1>5 DEF Accounted, Followed, Stopped, Gone, IsRecord
<1> QED
  BY <1>4, <1>6 DEF SoundIInv, SoundFollows

\* Once nothing is on its way, what is recorded here and there is the same.
LEMMA SoundImplied == ASSUME SoundIInv PROVE SoundInv
<1>1. SoundTypeOK
  BY DEF SoundIInv, SoundTyped, SoundTypeOK, Recording, Speakers
<1>2. ASSUME SoundSettled
      PROVE  live = {<<i, recordings[i].stream>> : i \in DOMAIN recordings}
  <2>1. Places(asked) = {} /\ Places(told) = {}
    BY <1>2 DEF SoundSettled, Places
  <2>2. \A i \in SinkInputs, s \in Nat : Holds(i, s) <=> <<i, s>> \in live
    BY <2>1 DEF SoundIInv, SoundFollows, Accounted, Followed
  <2>3. live \subseteq SinkInputs \X Nat
    BY DEF SoundIInv, SoundTyped
  <2>4. \A i \in DOMAIN recordings : i \in SinkInputs /\ recordings[i].stream \in Nat
    BY SoundCaptureAssumption DEF SoundIInv, SoundTyped, Recording
  <2>5. ASSUME NEW i \in DOMAIN recordings PROVE <<i, recordings[i].stream>> \in live
    BY <2>2, <2>4 DEF Holds
  <2>6. ASSUME NEW pair \in live
        PROVE  pair \in {<<i, recordings[i].stream>> : i \in DOMAIN recordings}
    <3>1. PICK i \in SinkInputs, s \in Nat : pair = <<i, s>>
      BY <2>3
    <3>2. Holds(i, s)
      BY <2>2, <3>1
    <3> QED
      BY <3>1, <3>2 DEF Holds
  <2> QED
    BY <2>5, <2>6
<1> QED
  BY <1>1, <1>2 DEF SoundInv, RecordingsAreLive

\* However streams start, move and end, and however the messages cross: once
\* they have been handled, exactly the streams are recorded that the server
\* records for the share (system_audio_capture.cpp).
THEOREM SoundThm == SoundSpec => []SoundInv
<1>1. SoundInit => SoundIInv
  BY SoundStarts
<1>2. SoundIInv /\ [SoundNext]_soundVars => SoundIInv'
  <2> SUFFICES ASSUME SoundIInv, [SoundNext]_soundVars PROVE SoundIInv'
    OBVIOUS
  <2>1. CASE UNCHANGED soundVars
    <3>1. UNCHANGED <<recordings, asked, told, played, live, soundSpent>>
      BY <2>1 DEF soundVars
    <3>2. recordings \in [DOMAIN recordings -> Recording]
          /\ soundSpent \in [streams: Nat, events: Nat, reads: Nat]
      BY DEF SoundIInv, SoundTyped
    <3> QED
      BY <3>1, <3>2, BuffersKeep
  <2>2. ASSUME NEW i \in SinkInputs, NEW amount \in 1 .. PrimingSound, OnRead(i, amount)
        PROVE  SoundIInv'
    BY <2>2, ReadKeeps
  <2>3. ASSUME NEW i \in SinkInputs, NEW sink \in Sinks \cup {NoSink}, PlayOn(i, sink)
        PROVE  SoundIInv'
    BY <2>3, PlayKeeps
  <2> QED
    BY <2>1, <2>2, <2>3, MessageKeeps, TickKeeps, ReopenKeeps, RequestKeeps DEF SoundNext
<1>3. SoundIInv => SoundInv
  BY SoundImplied
<1> QED
  BY <1>1, <1>2, <1>3, PTL DEF SoundSpec

-----------------------------------------------------------------------------
(* The stream of a share, on its way to one viewer.                          *)

\* A share on its way: the link never holds more than a frame beyond the pace, and
\* a decoder that has a frame to continue shows that frame.
Numbers == 0 .. FrameNumbers - 1
Numbered == Numbers \cup {NoFrame}
Chunks == [n: Numbers, key: BOOLEAN, part: 1 .. 2]
Partials == [n: Numbered, got: SUBSET {1, 2}]
Decoders == [last: Numbered, picture: Numbered, partial: Partials]

\* Types.
StreamTyped ==
    /\ share \in [on: BOOLEAN, wanted: BOOLEAN, image: BOOLEAN, next: Numbers, fresh: BOOLEAN]
    /\ encoding = IdleEncoder \/ encoding \in [n: Numbers, key: BOOLEAN, current: BOOLEAN]
    /\ watcher \in BOOLEAN
    /\ wire \in [ready: BOOLEAN, control: Seq(BOOLEAN), video: Seq(Chunks), requests: Seq(BOOLEAN)]
    /\ viewer \in [sees: BOOLEAN, watching: BOOLEAN, recent: BOOLEAN, intact: BOOLEAN,
                   decoder: Decoders]

\* The link has room for the frame that is encoded.
LinkIsPaced ==
    /\ Len(wire.video) <= PaceChunks + 2
    /\ encoding # IdleEncoder => Len(wire.video) <= PaceChunks

\* What the decoder would continue is what it shows.
ShowsTheLast ==
    /\ viewer.intact
    /\ viewer.decoder.last # NoFrame => viewer.decoder.picture = viewer.decoder.last
StreamIInv == StreamTyped /\ LinkIsPaced /\ ShowsTheLast

\* What the sharer encodes next.
LEMMA NextNumber ==
  ASSUME NEW n \in Numbers
  PROVE  (n + 1) % FrameNumbers \in Numbers /\ 0 \in Numbers /\ n # NoFrame /\ NoFrame \notin Numbers
BY StreamAssumption DEF Numbers, NoFrame

\* Steps of the sharer, which leave the video and the viewer alone.
LEMMA SharerKeeps ==
  ASSUME StreamIInv, UNCHANGED viewer,
         share' \in [on: BOOLEAN, wanted: BOOLEAN, image: BOOLEAN, next: Numbers, fresh: BOOLEAN],
         encoding' = IdleEncoder \/ encoding' \in [n: Numbers, key: BOOLEAN, current: BOOLEAN],
         encoding' # IdleEncoder => Len(wire.video) <= PaceChunks,
         watcher' \in BOOLEAN,
         wire' \in [ready: BOOLEAN, control: Seq(BOOLEAN), video: Seq(Chunks), requests: Seq(BOOLEAN)],
         wire'.video = wire.video
  PROVE  StreamIInv'
BY DEF StreamIInv, StreamTyped, LinkIsPaced, ShowsTheLast

\* A frame is submitted: the encoder and the numbers are in order.
LEMMA SubmitFacts ==
  ASSUME StreamIInv, CanSubmit, Submit(share) \/ Submit([share EXCEPT !.wanted = TRUE])
  PROVE  /\ share' \in [on: BOOLEAN, wanted: BOOLEAN, image: BOOLEAN, next: Numbers, fresh: BOOLEAN]
         /\ encoding' \in [n: Numbers, key: BOOLEAN, current: BOOLEAN]
         /\ Len(wire.video) <= PaceChunks
<1>1. PICK from \in [on: BOOLEAN, wanted: BOOLEAN, image: BOOLEAN, next: Numbers, fresh: BOOLEAN] :
        Submit(from)
  BY DEF StreamIInv, StreamTyped
<1>2. (from.next + 1) % FrameNumbers \in Numbers /\ from.next \in Numbers
  BY NextNumber
<1>3. PICK key \in BOOLEAN : encoding' = [n |-> from.next, key |-> key, current |-> TRUE]
  BY <1>1 DEF Submit
<1>4. encoding' \in [n: Numbers, key: BOOLEAN, current: BOOLEAN]
  BY <1>2, <1>3
<1>5. PICK next \in Numbers : next = (from.next + 1) % FrameNumbers
  BY <1>2
<1>6. share' = [from EXCEPT !.wanted = FALSE, !.fresh = FALSE, !.next = next]
  BY <1>1, <1>5 DEF Submit
<1>7. share' \in [on: BOOLEAN, wanted: BOOLEAN, image: BOOLEAN, next: Numbers, fresh: BOOLEAN]
  BY <1>6
<1>8. Len(wire.video) <= PaceChunks
  BY DEF CanSubmit
<1> QED
  BY <1>4, <1>7, <1>8

\* One more announcement or request, one fewer.
LEMMA FlagQueues ==
  ASSUME NEW q \in Seq(BOOLEAN)
  PROVE  /\ \A on \in BOOLEAN : Append(q, on) \in Seq(BOOLEAN)
         /\ q # <<>> => Tail(q) \in Seq(BOOLEAN) /\ Head(q) \in BOOLEAN
BY EmptySeq

\* The share is announced: only the presence under way changes.
LEMMA AnnouncedFacts ==
  ASSUME NEW w \in [ready: BOOLEAN, control: Seq(BOOLEAN), video: Seq(Chunks), requests: Seq(BOOLEAN)],
         NEW on \in BOOLEAN
  PROVE  /\ ShareAnnounced(w, on) \in [ready: BOOLEAN, control: Seq(BOOLEAN), video: Seq(Chunks),
                                       requests: Seq(BOOLEAN)]
         /\ ShareAnnounced(w, on).video = w.video
<1>1. Append(w.control, on) \in Seq(BOOLEAN)
  BY FlagQueues
<1> QED
  BY <1>1 DEF ShareAnnounced

\* The two chunks of a frame, as a sequence.
LEMMA TwoIsASequence ==
  ASSUME NEW S, NEW two \in [1 .. 2 -> S]
  PROVE  two \in Seq(S) /\ Len(two) = 2
<1>1. 2 \in Nat
  OBVIOUS
<1>2. two \in Seq(S)
  BY <1>1, SeqDef
<1>3. DOMAIN two = 1 .. Len(two) /\ Len(two) \in Nat
  BY <1>2, LenProperties
<1>4. 1 .. Len(two) = 1 .. 2
  BY <1>3
<1> QED
  BY <1>2, <1>3, <1>4

\* The frame that is done is sent whole or not at all.
LEMMA SendsKeeps ==
  ASSUME StreamIInv, encoding # IdleEncoder, encoding' = IdleEncoder, Sends(encoding),
         share' \in [on: BOOLEAN, wanted: BOOLEAN, image: BOOLEAN, next: Numbers, fresh: BOOLEAN],
         UNCHANGED <<watcher, viewer>>
  PROVE  StreamIInv'
<1> DEFINE two == [part \in 1 .. 2 |-> [n |-> encoding.n, key |-> encoding.key, part |-> part]]
<1>1. /\ encoding \in [n: Numbers, key: BOOLEAN, current: BOOLEAN] /\ Len(wire.video) <= PaceChunks
      /\ wire \in [ready: BOOLEAN, control: Seq(BOOLEAN), video: Seq(Chunks), requests: Seq(BOOLEAN)]
  BY DEF StreamIInv, StreamTyped, LinkIsPaced
<1>2. two \in [1 .. 2 -> Chunks]
  BY <1>1 DEF Chunks
<1> HIDE DEF two
<1>3. two \in Seq(Chunks) /\ Len(two) = 2
  BY <1>2, TwoIsASequence
<1>a. wire.video \in Seq(Chunks)
  BY <1>1
<1>b. /\ wire.video \o two \in Seq(Chunks) /\ Len(wire.video \o two) = Len(wire.video) + Len(two)
      /\ Len(wire.video) \in Nat
  BY <1>a, <1>3, ConcatProperties, LenProperties
<1>c. PICK longer \in Seq(Chunks) : longer = wire.video \o two
  BY <1>b
<1>4. Len(longer) = Len(wire.video) + 2 /\ Len(wire.video) \in Nat
  BY <1>b, <1>c, <1>3
<1>5. wire' = [wire EXCEPT !.video = longer]
  BY <1>c DEF Sends, two
<1>6. /\ wire' \in [ready: BOOLEAN, control: Seq(BOOLEAN), video: Seq(Chunks), requests: Seq(BOOLEAN)]
      /\ wire'.video = longer
  BY <1>1, <1>5
<1>7. LinkIsPaced'
  BY <1>1, <1>4, <1>6, StreamAssumption DEF LinkIsPaced
<1> QED
  BY <1>6, <1>7 DEF StreamIInv, StreamTyped, ShowsTheLast

\* Steps of the viewer and of the link that leave the decoder as it was or anew,
\* and of the video what is there or nothing.
LEMMA ViewerKeeps ==
  ASSUME StreamIInv, UNCHANGED <<share, encoding>>, watcher' \in BOOLEAN,
         wire' \in [ready: BOOLEAN, control: Seq(BOOLEAN), video: Seq(Chunks), requests: Seq(BOOLEAN)],
         wire'.video \in {wire.video, <<>>},
         viewer' \in [sees: BOOLEAN, watching: BOOLEAN, recent: BOOLEAN, intact: BOOLEAN,
                      decoder: Decoders],
         viewer'.intact = viewer.intact, viewer'.decoder \in {viewer.decoder, NewDecoder}
  PROVE  StreamIInv'
<1>1. Len(<<>>) <= PaceChunks + 2 /\ Len(<<>>) <= PaceChunks
  BY StreamAssumption
<1>2. LinkIsPaced'
  BY <1>1 DEF StreamIInv, LinkIsPaced
<1>3. ShowsTheLast'
  BY DEF StreamIInv, ShowsTheLast, NewDecoder
<1> QED
  BY <1>2, <1>3 DEF StreamIInv, StreamTyped

\* A decoder that has seen nothing.
LEMMA NewDecoderTyped == NewDecoder \in Decoders
BY DEF NewDecoder, Decoders, Partials, Numbered

\* A chunk arrives: a delta is shown only on the picture it was built on.
LEMMA ChunkKeeps == ASSUME StreamIInv, ReceiveChunk PROVE StreamIInv'
<1> DEFINE chunk == Head(wire.video)
           decoder == viewer.decoder
           partial == Assembled(decoder.partial, chunk)
           rest == Tail(wire.video)
<1>1. /\ wire \in [ready: BOOLEAN, control: Seq(BOOLEAN), video: Seq(Chunks), requests: Seq(BOOLEAN)]
      /\ viewer \in [sees: BOOLEAN, watching: BOOLEAN, recent: BOOLEAN, intact: BOOLEAN,
                      decoder: Decoders]
      /\ wire.video # <<>> /\ wire' = [wire EXCEPT !.video = rest]
      /\ UNCHANGED <<share, encoding, watcher, streamSpent>>
  BY DEF StreamIInv, StreamTyped, ReceiveChunk
<1>2. /\ rest \in Seq(Chunks) /\ Len(rest) = Len(wire.video) - 1 /\ Len(wire.video) \in Nat
      /\ chunk \in Chunks
  <2>1. wire.video \in Seq(Chunks) /\ wire.video # <<>>
    BY <1>1
  <2> QED
    BY <2>1, EmptySeq, HeadTailProperties, LenProperties, OneLess
<1>3. \/ viewer' = viewer
      \/ viewer' = [viewer EXCEPT !.decoder.partial = partial]
      \/ viewer' = [viewer EXCEPT !.decoder = Decoded(decoder, chunk),
                !.recent = viewer.recent \/ Decodable(decoder, chunk),
                !.intact = Decodable(decoder, chunk) /\ ~ chunk.key
                                => BuiltOn(chunk, decoder.picture)]
  BY DEF ReceiveChunk
<1> HIDE DEF rest, chunk
<1>4. decoder \in Decoders /\ (decoder.last # NoFrame => decoder.picture = decoder.last) /\ viewer.intact
  BY <1>1 DEF StreamIInv, ShowsTheLast
<1>5. partial \in Partials
  BY <1>2, <1>4 DEF Assembled, Chunks, Decoders, Partials, Numbered
<1>6. /\ Decoded(decoder, chunk) \in Decoders
      /\ Decoded(decoder, chunk).last # NoFrame =>
            Decoded(decoder, chunk).picture = Decoded(decoder, chunk).last
  <2>1. chunk.n \in Numbered /\ decoder.picture \in Numbered
    BY <1>2, <1>4 DEF Chunks, Numbered, Decoders
  <2>2. CASE Decodable(decoder, chunk)
    <3>1. Decoded(decoder, chunk) = [NewDecoder EXCEPT !.last = chunk.n, !.picture = chunk.n]
      BY <2>2 DEF Decoded
    <3> QED
      BY <2>1, <3>1, NewDecoderTyped DEF Decoders
  <2>3. CASE ~ Decodable(decoder, chunk)
    <3>1. Decoded(decoder, chunk) = [NewDecoder EXCEPT !.picture = decoder.picture]
      BY <2>3 DEF Decoded
    <3>2. Decoded(decoder, chunk).last = NoFrame
      BY <3>1 DEF NewDecoder
    <3> QED
      BY <2>1, <3>1, <3>2, NewDecoderTyped DEF Decoders
  <2> QED
    BY <2>2, <2>3
<1>7. Decodable(decoder, chunk) /\ ~ chunk.key => BuiltOn(chunk, decoder.picture)
  BY <1>4 DEF Decodable, Follows, BuiltOn
<1>8. /\ viewer' \in [sees: BOOLEAN, watching: BOOLEAN, recent: BOOLEAN, intact: BOOLEAN,
                      decoder: Decoders]
      /\ ShowsTheLast'
  <2>1. CASE viewer' = viewer
    BY <1>1, <1>4, <2>1 DEF ShowsTheLast
  <2>2. CASE viewer' = [viewer EXCEPT !.decoder.partial = partial]
    <3>1. viewer' = [viewer EXCEPT !.decoder = [decoder EXCEPT !.partial = partial]]
      BY <2>2
    <3>2. [decoder EXCEPT !.partial = partial] \in Decoders
      BY <1>4, <1>5 DEF Decoders
    <3>3. [decoder EXCEPT !.partial = partial].last = decoder.last
          /\ [decoder EXCEPT !.partial = partial].picture = decoder.picture
      BY <1>4 DEF Decoders
    <3> QED
      BY <1>1, <1>4, <3>1, <3>2, <3>3 DEF ShowsTheLast
  <2>3. CASE viewer' = [viewer EXCEPT !.decoder = Decoded(decoder, chunk),
                !.recent = viewer.recent \/ Decodable(decoder, chunk),
                !.intact = Decodable(decoder, chunk) /\ ~ chunk.key
                                => BuiltOn(chunk, decoder.picture)]
    <3>1. PICK d : d = Decoded(decoder, chunk)
      OBVIOUS
    <3>2. PICK r \in BOOLEAN : r = (viewer.recent \/ Decodable(decoder, chunk))
      OBVIOUS
    <3>3. PICK k \in BOOLEAN : k = (Decodable(decoder, chunk) /\ ~ chunk.key
                                => BuiltOn(chunk, decoder.picture))
      OBVIOUS
    <3>4. viewer' = [viewer EXCEPT !.decoder = d, !.recent = r, !.intact = k]
      BY <2>3, <3>1, <3>2, <3>3
    <3>5. d \in Decoders /\ (d.last # NoFrame => d.picture = d.last)
      BY <1>6, <3>1
    <3>6. k
      BY <1>7, <3>3, Zenon
    <3>7. viewer'.intact = k /\ viewer'.decoder = d
      BY <1>1, <3>4
    <3>8. ShowsTheLast'
      BY <3>5, <3>6, <3>7 DEF ShowsTheLast
    <3> QED
      BY <1>1, <3>4, <3>5, <3>8
  <2> QED
    BY <1>3, <2>1, <2>2, <2>3
<1>9. /\ wire' \in [ready: BOOLEAN, control: Seq(BOOLEAN), video: Seq(Chunks), requests: Seq(BOOLEAN)]
      /\ wire'.video = rest
  BY <1>1, <1>2
<1>10. LinkIsPaced'
  BY <1>1, <1>2, <1>9, StreamAssumption DEF StreamIInv, LinkIsPaced
<1> QED
  BY <1>1, <1>8, <1>9, <1>10 DEF StreamIInv, StreamTyped

\* However frames are skipped, lost, overtaken or cut short, the viewer sees no
\* picture built on another than the encoder's, and the link holds at most a frame
\* beyond its pace (screen_capture.cpp, screen_decoder.cpp, node.cpp).
THEOREM StreamThm == StreamSpec => [](StreamTypeOK /\ PicturesAreIntact)
<1>1. StreamInit => StreamIInv
  <2> SUFFICES ASSUME StreamInit PROVE StreamIInv
    OBVIOUS
  <2>1. 0 \in Numbers /\ <<>> \in Seq(BOOLEAN) /\ <<>> \in Seq(Chunks)
    BY StreamAssumption DEF Numbers
  <2>2. StreamTyped
    BY <2>1, NewDecoderTyped DEF StreamInit, StreamTyped
  <2>3. LinkIsPaced
    <3>1. Len(<<>>) <= PaceChunks + 2
      BY StreamAssumption
    <3> QED
      BY <3>1 DEF StreamInit, LinkIsPaced
  <2>4. ShowsTheLast
    BY DEF StreamInit, ShowsTheLast, NewDecoder
  <2> QED
    BY <2>2, <2>3, <2>4 DEF StreamIInv
<1>2. StreamIInv /\ [StreamNext]_streamVars => StreamIInv'
  <2> SUFFICES ASSUME StreamIInv, [StreamNext]_streamVars PROVE StreamIInv'
    OBVIOUS
  <2>0. /\ share \in [on: BOOLEAN, wanted: BOOLEAN, image: BOOLEAN, next: Numbers, fresh: BOOLEAN]
        /\ encoding = IdleEncoder \/ encoding \in [n: Numbers, key: BOOLEAN, current: BOOLEAN]
        /\ watcher \in BOOLEAN
        /\ wire \in [ready: BOOLEAN, control: Seq(BOOLEAN), video: Seq(Chunks), requests: Seq(BOOLEAN)]
        /\ viewer \in [sees: BOOLEAN, watching: BOOLEAN, recent: BOOLEAN, intact: BOOLEAN,
                       decoder: Decoders]
        /\ encoding # IdleEncoder => Len(wire.video) <= PaceChunks
    BY DEF StreamIInv, StreamTyped, LinkIsPaced
  <2>1. CASE UNCHANGED streamVars
    BY <2>0, <2>1, SharerKeeps DEF streamVars
  <2>2. CASE StartShare
    <3>1. share' = [share EXCEPT !.on = TRUE, !.fresh = TRUE] /\ wire' = ShareAnnounced(wire, TRUE)
          /\ UNCHANGED <<encoding, watcher, viewer>>
      BY <2>2 DEF StartShare
    <3>2. share' \in [on: BOOLEAN, wanted: BOOLEAN, image: BOOLEAN, next: Numbers, fresh: BOOLEAN]
      BY <2>0, <3>1
    <3>3. /\ wire' \in [ready: BOOLEAN, control: Seq(BOOLEAN), video: Seq(Chunks), requests: Seq(BOOLEAN)]
          /\ wire'.video = wire.video
      BY <2>0, <3>1, AnnouncedFacts
    <3> QED
      BY <2>0, <3>1, <3>2, <3>3, SharerKeeps
  <2>3. CASE StopShare
    <3>1. share' = [share EXCEPT !.on = FALSE, !.wanted = FALSE, !.image = FALSE]
          /\ wire' = ShareAnnounced(wire, FALSE) /\ watcher' = FALSE
          /\ encoding' = [encoding EXCEPT !.current = FALSE] /\ UNCHANGED viewer
      BY <2>3 DEF StopShare
    <3>2. share' \in [on: BOOLEAN, wanted: BOOLEAN, image: BOOLEAN, next: Numbers, fresh: BOOLEAN]
      BY <2>0, <3>1
    <3>3. /\ wire' \in [ready: BOOLEAN, control: Seq(BOOLEAN), video: Seq(Chunks), requests: Seq(BOOLEAN)]
          /\ wire'.video = wire.video
      BY <2>0, <3>1, AnnouncedFacts
    <3>4. /\ encoding' = IdleEncoder \/ encoding' \in [n: Numbers, key: BOOLEAN, current: BOOLEAN]
          /\ encoding = IdleEncoder => encoding' = IdleEncoder
      <4>1. CASE encoding = IdleEncoder
        BY <3>1, <4>1 DEF IdleEncoder
      <4>2. CASE encoding # IdleEncoder
        BY <2>0, <3>1, <4>2
      <4> QED
        BY <4>1, <4>2
    <3>5. watcher' \in BOOLEAN /\ (encoding' # IdleEncoder => Len(wire.video) <= PaceChunks)
      BY <2>0, <3>1, <3>4
    <3> QED
      BY <3>1, <3>2, <3>3, <3>4, <3>5, SharerKeeps
  <2>4. CASE CaptureFrame \/ KeyframeTimer
    <3>1. CanSubmit /\ Submit(share) /\ UNCHANGED <<watcher, wire, viewer>>
      BY <2>4 DEF CaptureFrame, KeyframeTimer
    <3> QED
      BY <2>0, <3>1, SubmitFacts, SharerKeeps
  <2>5. CASE EncoderDone
    <3>1. /\ encoding # IdleEncoder /\ encoding' = IdleEncoder /\ UNCHANGED <<watcher, viewer>>
          /\ share' = [share EXCEPT !.image = share.image \/ encoding.current]
          /\ Sends(encoding) \/ UNCHANGED wire
      BY <2>5 DEF EncoderDone
    <3>2. share' \in [on: BOOLEAN, wanted: BOOLEAN, image: BOOLEAN, next: Numbers, fresh: BOOLEAN]
      <4>1. (share.image \/ encoding.current) \in BOOLEAN
        OBVIOUS
      <4> QED
        BY <2>0, <3>1, <4>1
    <3> QED
      BY <2>0, <3>1, <3>2, SendsKeeps, SharerKeeps
  <2>6. CASE ReceiveWatch
    <3>1. /\ wire.requests # <<>> /\ wire' = [wire EXCEPT !.requests = Tail(wire.requests)]
          /\ UNCHANGED viewer /\ watcher' \in BOOLEAN
          /\ \/ UNCHANGED <<share, encoding>>
             \/ CanSubmit /\ Submit([share EXCEPT !.wanted = TRUE])
             \/ share' = [share EXCEPT !.wanted = TRUE] /\ UNCHANGED encoding
      <4>1. Head(wire.requests) \in BOOLEAN
        BY <2>0, <2>6, FlagQueues DEF ReceiveWatch
      <4> QED
        BY <2>0, <2>6, <4>1 DEF ReceiveWatch
    <3>2. /\ wire' \in [ready: BOOLEAN, control: Seq(BOOLEAN), video: Seq(Chunks), requests: Seq(BOOLEAN)]
          /\ wire'.video = wire.video
      <4>1. Tail(wire.requests) \in Seq(BOOLEAN)
        BY <2>0, <3>1, FlagQueues
      <4> QED
        BY <2>0, <3>1, <4>1
    <3>3. [share EXCEPT !.wanted = TRUE]
            \in [on: BOOLEAN, wanted: BOOLEAN, image: BOOLEAN, next: Numbers, fresh: BOOLEAN]
      BY <2>0
    <3> QED
      BY <2>0, <3>1, <3>2, <3>3, SubmitFacts, SharerKeeps
  <2>7. ASSUME NEW enabled \in BOOLEAN, Asks(enabled)
        PROVE  /\ wire' \in [ready: BOOLEAN, control: Seq(BOOLEAN), video: Seq(Chunks),
                             requests: Seq(BOOLEAN)]
               /\ wire'.video = wire.video
    <3>1. Append(wire.requests, enabled) \in Seq(BOOLEAN)
      BY <2>0, FlagQueues
    <3> QED
      BY <2>0, <2>7, <3>1 DEF Asks
  <2>8. CASE Watch
    <3>1. /\ viewer' = [viewer EXCEPT !.watching = TRUE] /\ Asks(TRUE)
          /\ UNCHANGED <<share, encoding, watcher>>
      BY <2>8 DEF Watch
    <3>2. /\ viewer' \in [sees: BOOLEAN, watching: BOOLEAN, recent: BOOLEAN, intact: BOOLEAN,
                          decoder: Decoders]
          /\ viewer'.intact = viewer.intact /\ viewer'.decoder = viewer.decoder
      BY <2>0, <3>1
    <3> QED
      BY <2>0, <2>7, <3>1, <3>2, ViewerKeeps
  <2>9. CASE Unwatch
    <3>1. /\ viewer' = [viewer EXCEPT !.watching = FALSE, !.recent = FALSE, !.decoder = NewDecoder]
          /\ Asks(FALSE) /\ UNCHANGED <<share, encoding, watcher>>
      BY <2>9 DEF Unwatch
    <3>2. /\ viewer' \in [sees: BOOLEAN, watching: BOOLEAN, recent: BOOLEAN, intact: BOOLEAN,
                          decoder: Decoders]
          /\ viewer'.intact = viewer.intact /\ viewer'.decoder = NewDecoder
      BY <2>0, <3>1, NewDecoderTyped
    <3> QED
      BY <2>0, <2>7, <3>1, <3>2, ViewerKeeps
  <2>10. CASE FiveSeconds
    <3>1. /\ viewer' = [viewer EXCEPT !.recent = FALSE]
          /\ UNCHANGED <<share, encoding, watcher, wire>>
      BY <2>10 DEF FiveSeconds
    <3>2. /\ viewer' \in [sees: BOOLEAN, watching: BOOLEAN, recent: BOOLEAN, intact: BOOLEAN,
                          decoder: Decoders]
          /\ viewer'.intact = viewer.intact /\ viewer'.decoder = viewer.decoder
      BY <2>0, <3>1
    <3> QED
      BY <2>0, <3>1, <3>2, ViewerKeeps
  <2>11. CASE StreamRetry
    BY <2>0, <2>7, <2>11, ViewerKeeps DEF StreamRetry
  <2>12. CASE ReceivePresence
    <3> DEFINE rest == [wire EXCEPT !.control = Tail(wire.control)]
    <3>1. rest \in [ready: BOOLEAN, control: Seq(BOOLEAN), video: Seq(Chunks), requests: Seq(BOOLEAN)]
          /\ rest.video = wire.video
      <4>1. wire.control # <<>> /\ wire.control \in Seq(BOOLEAN)
        BY <2>0, <2>12 DEF ReceivePresence
      <4>2. Tail(wire.control) \in Seq(BOOLEAN)
        BY <4>1, FlagQueues
      <4> QED
        BY <2>0, <4>2
    <3>2. /\ wire' \in {rest, [rest EXCEPT !.requests = Append(rest.requests, TRUE)]}
          /\ \/ viewer' = viewer
             \/ viewer' = [viewer EXCEPT !.sees = TRUE]
             \/ viewer' = [viewer EXCEPT !.sees = FALSE, !.watching = FALSE, !.recent = FALSE,
                                         !.decoder = NewDecoder]
          /\ UNCHANGED <<share, encoding, watcher>>
      BY <2>12 DEF ReceivePresence
    <3> HIDE DEF rest
    <3>3. /\ wire' \in [ready: BOOLEAN, control: Seq(BOOLEAN), video: Seq(Chunks), requests: Seq(BOOLEAN)]
          /\ wire'.video = wire.video
      <4>1. Append(rest.requests, TRUE) \in Seq(BOOLEAN)
        BY <3>1, FlagQueues
      <4> QED
        BY <3>1, <3>2, <4>1
    <3>4. /\ viewer' \in [sees: BOOLEAN, watching: BOOLEAN, recent: BOOLEAN, intact: BOOLEAN,
                          decoder: Decoders]
          /\ viewer'.intact = viewer.intact /\ viewer'.decoder \in {viewer.decoder, NewDecoder}
      BY <2>0, <3>2, NewDecoderTyped
    <3> QED
      BY <2>0, <3>2, <3>3, <3>4, ViewerKeeps
  <2>13. CASE StartSync
    <3>1. wire' = [wire EXCEPT !.ready = FALSE] /\ UNCHANGED <<share, encoding, watcher, viewer>>
      BY <2>13 DEF StartSync
    <3>2. /\ wire' \in [ready: BOOLEAN, control: Seq(BOOLEAN), video: Seq(Chunks), requests: Seq(BOOLEAN)]
          /\ wire'.video = wire.video
      BY <2>0, <3>1
    <3> QED
      BY <2>0, <3>1, <3>2, SharerKeeps
  <2>14. CASE EndSync
    <3>1. wire' = ShareAnnounced([wire EXCEPT !.ready = TRUE], share.on)
          /\ UNCHANGED <<share, encoding, watcher, viewer>>
      BY <2>14 DEF EndSync
    <3>2. /\ [wire EXCEPT !.ready = TRUE] \in
                [ready: BOOLEAN, control: Seq(BOOLEAN), video: Seq(Chunks), requests: Seq(BOOLEAN)]
          /\ [wire EXCEPT !.ready = TRUE].video = wire.video /\ share.on \in BOOLEAN
      BY <2>0
    <3>3. /\ wire' \in [ready: BOOLEAN, control: Seq(BOOLEAN), video: Seq(Chunks), requests: Seq(BOOLEAN)]
          /\ wire'.video = wire.video
      BY <3>1, <3>2, AnnouncedFacts
    <3> QED
      BY <2>0, <3>1, <3>3, SharerKeeps
  <2>15. CASE Reconnect
    <3>1. /\ wire' = [ready |-> TRUE, control |-> <<share.on>>, video |-> <<>>, requests |-> <<>>]
          /\ watcher' = FALSE /\ UNCHANGED <<share, encoding>>
          /\ viewer' = [viewer EXCEPT !.sees = FALSE, !.recent = FALSE, !.decoder = NewDecoder]
      BY <2>15 DEF Reconnect
    <3>2. <<share.on>> \in Seq(BOOLEAN) /\ <<>> \in Seq(BOOLEAN) /\ <<>> \in Seq(Chunks)
      BY <2>0
    <3>3. /\ wire' \in [ready: BOOLEAN, control: Seq(BOOLEAN), video: Seq(Chunks), requests: Seq(BOOLEAN)]
          /\ wire'.video = <<>>
      BY <3>1, <3>2
    <3>4. /\ viewer' \in [sees: BOOLEAN, watching: BOOLEAN, recent: BOOLEAN, intact: BOOLEAN,
                          decoder: Decoders]
          /\ viewer'.intact = viewer.intact /\ viewer'.decoder = NewDecoder
      BY <2>0, <3>1, NewDecoderTyped
    <3> QED
      BY <2>0, <3>1, <3>3, <3>4, ViewerKeeps
  <2>16. CASE ReceiveChunk
    BY <2>16, ChunkKeeps
  <2> QED
    BY <2>1, <2>2, <2>3, <2>4, <2>5, <2>6, <2>8, <2>9, <2>10, <2>11, <2>12, <2>13, <2>14,
       <2>15, <2>16 DEF StreamNext
<1>3. StreamIInv => StreamTypeOK /\ PicturesAreIntact
  <2> SUFFICES ASSUME StreamIInv PROVE StreamTypeOK /\ PicturesAreIntact
    OBVIOUS
  <2>1. encoding.n \in {NoFrame} \cup (0 .. FrameNumbers - 1)
    BY DEF StreamIInv, StreamTyped, Numbers, IdleEncoder
  <2> QED
    BY <2>1 DEF StreamIInv, StreamTyped, LinkIsPaced, ShowsTheLast, StreamTypeOK, PicturesAreIntact
<1> QED
  BY <1>1, <1>2, <1>3, PTL DEF StreamSpec

-----------------------------------------------------------------------------
(* The sound of a share, where it is played.                                 *)

\* What the panel posts, and what the buffer of a stream holds.
Posted == [type: {"play", "remove"}] \cup [type: {"output"}, output: Outputs]
          \cup [type: {"volume"}, volume: Volumes]

\* A device with a volume, and what PlaybackBuffer keeps.
Choice == [output: Outputs, volume: Volumes]
Buffers == [pending: 0 .. 2 * MaxCushion, cushion: Prefill .. MaxCushion, playing: BOOLEAN,
            starving: BOOLEAN, starved: 0 .. MaxCushion + SinkRead, steady: 0 .. Settle,
            lowest: Nat]

\* A job of one type is still to be run and none of another comes after it; no
\* job of a type is to be run.
LastPosted(q, n, type, other) ==
    /\ n \in Places(q) /\ q[n].type = type
    /\ \A k \in Places(q) : k > n => q[k].type # other
NonePosted(q, other) == \A k \in Places(q) : q[k].type # other

\* Types.
ShareSoundTyped ==
    /\ listener \in [watching: BOOLEAN, output: Outputs, volume: Volumes, changes: Nat]
    /\ jobs \in Seq(Posted)
    /\ player \in [output: Outputs, volume: Volumes, stream: BOOLEAN, plays: Choice]
    /\ buffer \in Buffers
    /\ broken \subseteq Outputs

\* What the listener chose is what the player has, or the last job of its kind
\* says so; a share no longer watched has no stream, or is to be removed after
\* whatever is still to be played.
OutputFollows ==
    \/ player.output = listener.output /\ NonePosted(jobs, "output")
    \/ \E n \in Places(jobs) : LastPosted(jobs, n, "output", "output")
                               /\ jobs[n].output = listener.output

\* The same of the volume.
VolumeFollows ==
    \/ player.volume = listener.volume /\ NonePosted(jobs, "volume")
    \/ \E n \in Places(jobs) : LastPosted(jobs, n, "volume", "volume")
                               /\ jobs[n].volume = listener.volume

\* A share no longer watched has no stream, or is to be removed in the end.
SilenceFollows ==
    ~ listener.watching =>
        \/ ~ player.stream /\ NonePosted(jobs, "play")
        \/ \E n \in Places(jobs) : LastPosted(jobs, n, "remove", "play")

\* A stream plays with what the player has.
StreamFollows ==
    player.stream => player.plays.output = player.output /\ player.plays.volume = player.volume

\* The inductive invariant.
ShareIInv ==
    ShareSoundTyped /\ OutputFollows /\ VolumeFollows /\ SilenceFollows /\ StreamFollows

\* The bounds are numbers.
LEMMA SoundBounds ==
  /\ PacketLength \in Nat /\ SinkRead \in Nat /\ SinkRead > 0 /\ Settle \in Nat
  /\ Prefill \in Nat /\ MaxCushion \in Nat /\ MaxJobs \in Nat /\ MaxChanges \in Nat
  /\ Prefill <= MaxCushion /\ Growth \in Nat /\ Unmeasured \in Nat
BY ShareSoundAssumption DEF Growth, Unmeasured

\* A new buffer.
LEMMA EmptyBuffer == Empty \in Buffers
<1>1. /\ 0 \in 0 .. 2 * MaxCushion /\ Prefill \in Prefill .. MaxCushion
      /\ 0 \in 0 .. MaxCushion + SinkRead /\ 0 \in 0 .. Settle /\ Unmeasured \in Nat
  BY SoundBounds
<1> QED
  BY <1>1 DEF Empty, Buffers

\* A packet is added: the cushion and what is pending stay within bounds.
LEMMA PushedTyped == ASSUME NEW b \in Buffers PROVE Pushed(b) \in Buffers
<1> DEFINE cushion == IF b.starving THEN AtMost(b.cushion + b.starved + Growth, MaxCushion)
                      ELSE b.cushion
           sum == b.pending + PacketLength
           pending == IF sum > 2 * cushion THEN cushion ELSE sum
<1>1. /\ b.cushion \in Prefill .. MaxCushion /\ b.starved \in Nat /\ b.pending \in Nat
      /\ b.starving \in BOOLEAN
  BY SoundBounds DEF Buffers
<1>2. cushion \in Prefill .. MaxCushion
  BY <1>1, SoundBounds DEF AtMost
<1> HIDE DEF cushion
<1>3. pending \in 0 .. 2 * MaxCushion
  BY <1>1, <1>2, SoundBounds
<1>4. Pushed(b) = [b EXCEPT !.cushion = cushion, !.starving = FALSE, !.pending = pending]
  BY DEF Pushed, cushion
<1> HIDE DEF pending
<1> QED
  BY <1>2, <1>3, <1>4 DEF Buffers

\* The sink reads: what is left, and the cushion, stay within bounds.
LEMMA ReadTyped == ASSUME NEW b \in Buffers PROVE ReadFrom(b) \in Buffers
<1> DEFINE playing == b.playing \/ b.pending >= b.cushion
           copied == IF playing THEN AtMost(SinkRead, b.pending) ELSE 0
           left == b.pending - copied
           lowest == AtMost(b.lowest, left)
           settled == b.steady + copied >= Settle
           missed == SinkRead - copied
           longer == IF b.starving THEN AtMost(b.starved + SinkRead, MaxCushion) ELSE b.starved
           steady == IF settled THEN 0 ELSE b.steady + copied
           least == IF settled THEN Unmeasured ELSE lowest
           cushion == IF settled /\ lowest > Growth
                        THEN AtLeast(b.cushion - Growth, Prefill) ELSE b.cushion
<1>1. /\ b.cushion \in Prefill .. MaxCushion /\ b.starved \in 0 .. MaxCushion + SinkRead
      /\ b.pending \in 0 .. 2 * MaxCushion /\ b.steady \in 0 .. Settle /\ b.lowest \in Nat
  BY DEF Buffers
<1>2. copied \in 0 .. SinkRead /\ copied <= b.pending /\ copied \in Nat
  BY <1>1, SoundBounds DEF AtMost
<1>3. /\ ReadFrom(b) =
          IF playing /\ copied < SinkRead
            THEN [b EXCEPT !.pending = left, !.playing = FALSE, !.starving = TRUE,
                           !.starved = missed, !.steady = 0, !.lowest = Unmeasured]
          ELSE IF playing
            THEN [b EXCEPT !.pending = left, !.playing = TRUE, !.steady = steady,
                           !.lowest = least, !.cushion = cushion]
          ELSE [b EXCEPT !.starved = longer]
  BY DEF ReadFrom
<1> HIDE DEF copied
<1>4. left \in 0 .. 2 * MaxCushion /\ missed \in 0 .. MaxCushion + SinkRead /\ left \in Nat
  BY <1>1, <1>2, SoundBounds
<1>5. longer \in 0 .. MaxCushion + SinkRead
  BY <1>1, SoundBounds DEF AtMost
<1>6. steady \in 0 .. Settle /\ 0 \in 0 .. Settle
  BY <1>1, <1>2, SoundBounds
<1> HIDE DEF left
<1>7. least \in Nat /\ Unmeasured \in Nat /\ lowest \in Nat
  BY <1>1, <1>4, SoundBounds DEF AtMost
<1> HIDE DEF lowest, settled, playing
<1>8. cushion \in Prefill .. MaxCushion
  BY <1>1, <1>7, SoundBounds DEF AtLeast
<1> HIDE DEF missed, longer, steady, least, cushion
<1> QED
  BY <1>3, <1>4, <1>5, <1>6, <1>7, <1>8 DEF Buffers

\* The first job of queue q is taken, which leaves queue r.
Shrinks(q, r) == q # <<>> /\ r = Tail(q)

\* One job more, and one fewer, among those still to be run.
LEMMA PostedMore ==
  ASSUME NEW q \in Seq(Posted), NEW r, NEW m \in Posted, Grows(q, m, r),
         NEW type, NEW other, m.type # other
  PROVE  /\ NonePosted(q, other) => NonePosted(r, other)
         /\ \A n \in Places(q) : LastPosted(q, n, type, other) =>
               LastPosted(r, n, type, other) /\ n \in Places(r) /\ r[n] = q[n]
<1> DEFINE last == Len(q) + 1
<1>1. /\ last \in Places(r) /\ r[last] = m
      /\ \A n \in Places(q) : n \in Places(r) /\ r[n] = q[n]
      /\ \A n \in Places(r) : n \in Places(q) \/ n = last
  BY DEF Grows
<1> HIDE DEF last
<1>2. ASSUME NonePosted(q, other) PROVE NonePosted(r, other)
  BY <1>1, <1>2 DEF NonePosted
<1>3. ASSUME NEW n \in Places(q), LastPosted(q, n, type, other)
      PROVE  LastPosted(r, n, type, other)
  BY <1>1, <1>3 DEF LastPosted
<1> QED
  BY <1>1, <1>2, <1>3

\* The new job is the last of its kind.
LEMMA PostedLast ==
  ASSUME NEW q \in Seq(Posted), NEW r, NEW m \in Posted, Grows(q, m, r), NEW other
  PROVE  \E n \in Places(r) : r[n] = m /\ LastPosted(r, n, m.type, other)
<1> DEFINE last == Len(q) + 1
<1>1. Len(q) \in Nat /\ last \in Places(r) /\ r[last] = m
      /\ \A n \in Places(r) : n \in Places(q) \/ n = last
  BY DEF Grows
<1>2. \A n \in Places(r) : ~ (n > last)
  BY <1>1 DEF Places
<1> HIDE DEF last
<1> QED
  BY <1>1, <1>2 DEF LastPosted

\* One job fewer.
LEMMA PostedFewer ==
  ASSUME NEW q \in Seq(Posted), NEW r, Shrinks(q, r), NEW type, NEW other
  PROVE  /\ 1 \in Places(q)
         /\ NonePosted(q, other) => NonePosted(r, other) /\ q[1].type # other
         /\ \A n \in Places(q) : LastPosted(q, n, type, other) =>
              \/ n = 1 /\ q[1].type = type /\ NonePosted(r, other)
              \/ n # 1 /\ n - 1 \in Places(r) /\ LastPosted(r, n - 1, type, other)
                 /\ r[n - 1] = q[n]
<1>1. /\ \A n \in Places(r) : n + 1 \in Places(q) /\ r[n] = q[n + 1]
      /\ \A n \in Places(q) : n # 1 => n - 1 \in Places(r) /\ q[n] = r[n - 1]
      /\ 1 \in Places(q) /\ Places(q) \subseteq Nat /\ Places(r) \subseteq Nat
  BY OneLess DEF Shrinks
<1>2. \A n \in Places(r) : n >= 1
  BY DEF Places
<1>3. ASSUME NonePosted(q, other) PROVE NonePosted(r, other) /\ q[1].type # other
  BY <1>1, <1>3 DEF NonePosted
<1>4. ASSUME LastPosted(q, 1, type, other) PROVE q[1].type = type /\ NonePosted(r, other)
  <2>1. \A k \in Places(q) : k > 1 => q[k].type # other
    BY <1>4 DEF LastPosted
  <2>2. \A n \in Places(r) : n + 1 > 1
    BY <1>1, <1>2
  <2>3. NonePosted(r, other)
    BY <1>1, <2>1, <2>2 DEF NonePosted
  <2> QED
    BY <1>4, <2>3 DEF LastPosted
<1>5. ASSUME NEW n \in Places(q), n # 1, LastPosted(q, n, type, other)
      PROVE  LastPosted(r, n - 1, type, other)
  <2>1. /\ q[n].type = type /\ n \in Nat
        /\ \A k \in Places(q) : k > n => q[k].type # other
    BY <1>1, <1>5 DEF LastPosted
  <2>2. ASSUME NEW k \in Places(r), k > n - 1 PROVE r[k].type # other
    <3>1. k + 1 \in Places(q) /\ r[k] = q[k + 1]
      BY <1>1
    <3>2. k + 1 > n
      BY <1>1, <2>1, <2>2
    <3> QED
      BY <2>1, <3>1, <3>2
  <2>3. n - 1 \in Places(r) /\ q[n] = r[n - 1]
    BY <1>1, <1>5
  <2> QED
    BY <2>1, <2>2, <2>3 DEF LastPosted
<1> QED
  BY <1>1, <1>3, <1>4, <1>5

\* Steps that leave the jobs and the player.
LEMMA BufferKeeps ==
  ASSUME ShareIInv, UNCHANGED <<listener, jobs, player>>, buffer' \in Buffers,
         broken' \subseteq Outputs
  PROVE  ShareIInv'
<1>1. ShareSoundTyped'
  BY DEF ShareIInv, ShareSoundTyped
<1>2. OutputFollows'
  BY DEF ShareIInv, OutputFollows
<1>3. VolumeFollows'
  BY DEF ShareIInv, VolumeFollows
<1>4. SilenceFollows' /\ StreamFollows'
  BY DEF ShareIInv, SilenceFollows, StreamFollows
<1> QED
  BY <1>1, <1>2, <1>3, <1>4 DEF ShareIInv

\* The panel posts a job; what it says is what the listener has chosen now, and
\* whatever it does not say stays as it was.
LEMMA PostKeeps ==
  ASSUME ShareIInv, UNCHANGED <<player, buffer, broken>>,
         NEW job \in Posted, jobs' \in Seq(Posted), Grows(jobs, job, jobs'),
         listener' \in [watching: BOOLEAN, output: Outputs, volume: Volumes, changes: Nat],
         \/ job.type = "output" /\ job.output = listener'.output
         \/ job.type # "output" /\ listener'.output = listener.output,
         \/ job.type = "volume" /\ job.volume = listener'.volume
         \/ job.type # "volume" /\ listener'.volume = listener.volume,
         \/ listener'.watching
         \/ job.type = "remove"
         \/ job.type # "play" /\ listener'.watching = listener.watching
  PROVE  ShareIInv'
<1>1. jobs \in Seq(Posted)
  BY DEF ShareIInv, ShareSoundTyped
<1>3. ShareSoundTyped'
  BY DEF ShareIInv, ShareSoundTyped
<1>4. OutputFollows'
  <2>1. CASE job.type = "output"
    <3>1. \E n \in Places(jobs') : jobs'[n] = job /\ LastPosted(jobs', n, job.type, "output")
      BY <1>1, PostedLast
    <3> QED
      BY <2>1, <3>1 DEF OutputFollows
  <2>2. CASE job.type # "output"
    <3>1. /\ NonePosted(jobs, "output") => NonePosted(jobs', "output")
          /\ \A n \in Places(jobs) : LastPosted(jobs, n, "output", "output") =>
                LastPosted(jobs', n, "output", "output") /\ n \in Places(jobs')
                /\ jobs'[n] = jobs[n]
      BY <1>1, <2>2, PostedMore
    <3> QED
      BY <2>2, <3>1 DEF ShareIInv, OutputFollows
  <2> QED
    BY <2>1, <2>2
<1>5. VolumeFollows'
  <2>1. CASE job.type = "volume"
    <3>1. \E n \in Places(jobs') : jobs'[n] = job /\ LastPosted(jobs', n, job.type, "volume")
      BY <1>1, PostedLast
    <3> QED
      BY <2>1, <3>1 DEF VolumeFollows
  <2>2. CASE job.type # "volume"
    <3>1. /\ NonePosted(jobs, "volume") => NonePosted(jobs', "volume")
          /\ \A n \in Places(jobs) : LastPosted(jobs, n, "volume", "volume") =>
                LastPosted(jobs', n, "volume", "volume") /\ n \in Places(jobs')
                /\ jobs'[n] = jobs[n]
      BY <1>1, <2>2, PostedMore
    <3> QED
      BY <2>2, <3>1 DEF ShareIInv, VolumeFollows
  <2> QED
    BY <2>1, <2>2
<1>6. SilenceFollows'
  <2>1. CASE listener'.watching
    BY <2>1 DEF SilenceFollows
  <2>2. CASE job.type = "remove"
    <3>1. \E n \in Places(jobs') : jobs'[n] = job /\ LastPosted(jobs', n, job.type, "play")
      BY <1>1, PostedLast
    <3> QED
      BY <2>2, <3>1 DEF SilenceFollows
  <2>3. CASE job.type # "play" /\ listener'.watching = listener.watching
    <3>1. /\ NonePosted(jobs, "play") => NonePosted(jobs', "play")
          /\ \A n \in Places(jobs) : LastPosted(jobs, n, "remove", "play") =>
                LastPosted(jobs', n, "remove", "play") /\ n \in Places(jobs')
      BY <1>1, <2>3, PostedMore
    <3> QED
      BY <2>3, <3>1 DEF ShareIInv, SilenceFollows
  <2> QED
    BY <2>1, <2>2, <2>3
<1> QED
  BY <1>3, <1>4, <1>5, <1>6 DEF ShareIInv, StreamFollows

\* The playback thread runs a job: what the job says is what the player has after.
LEMMA RunJobKeeps == ASSUME ShareIInv, RunJob PROVE ShareIInv'
<1> DEFINE job == jobs[1]
<1>1. /\ jobs \in Seq(Posted) /\ jobs # <<>> /\ buffer \in Buffers
      /\ player \in [output: Outputs, volume: Volumes, stream: BOOLEAN, plays: Choice]
      /\ jobs' = Tail(jobs) /\ UNCHANGED <<listener, broken>>
  BY DEF ShareIInv, ShareSoundTyped, RunJob
<1>a. Shrinks(jobs, jobs')
  BY <1>1 DEF Shrinks
<1>b. jobs \in Seq(Posted)
  BY <1>1
<1>2. Head(jobs) = job /\ job \in Posted /\ jobs' \in Seq(Posted) /\ 1 \in Places(jobs)
  BY <1>1, OneLess
<1>3. /\ NonePosted(jobs, "output") => NonePosted(jobs', "output") /\ job.type # "output"
      /\ \A n \in Places(jobs) : LastPosted(jobs, n, "output", "output") =>
              \/ n = 1 /\ job.type = "output" /\ NonePosted(jobs', "output")
              \/ n # 1 /\ n - 1 \in Places(jobs') /\ LastPosted(jobs', n - 1, "output", "output")
                 /\ jobs'[n - 1] = jobs[n]
  BY <1>a, <1>b, PostedFewer
<1>4. /\ NonePosted(jobs, "volume") => NonePosted(jobs', "volume") /\ job.type # "volume"
      /\ \A n \in Places(jobs) : LastPosted(jobs, n, "volume", "volume") =>
              \/ n = 1 /\ job.type = "volume" /\ NonePosted(jobs', "volume")
              \/ n # 1 /\ n - 1 \in Places(jobs') /\ LastPosted(jobs', n - 1, "volume", "volume")
                 /\ jobs'[n - 1] = jobs[n]
  BY <1>a, <1>b, PostedFewer
<1>5. /\ NonePosted(jobs, "play") => NonePosted(jobs', "play") /\ job.type # "play"
      /\ \A n \in Places(jobs) : LastPosted(jobs, n, "remove", "play") =>
              \/ n = 1 /\ job.type = "remove" /\ NonePosted(jobs', "play")
              \/ n # 1 /\ n - 1 \in Places(jobs') /\ LastPosted(jobs', n - 1, "remove", "play")
  BY <1>a, <1>b, PostedFewer
<1>6. \/ job.type = "play" /\ Play
      \/ /\ job.type = "output"
         /\ player' = [player EXCEPT !.output = job.output, !.stream = FALSE]
         /\ buffer' = Empty
      \/ /\ job.type = "volume"
         /\ player' = [player EXCEPT !.volume = job.volume, !.plays.volume = job.volume]
         /\ UNCHANGED buffer
      \/ /\ job.type = "remove"
         /\ player' = [player EXCEPT !.stream = FALSE]
         /\ buffer' = Empty
  BY <1>2 DEF RunJob
<1> HIDE DEF job
<1>7. /\ player' \in [output: Outputs, volume: Volumes, stream: BOOLEAN, plays: Choice]
      /\ buffer' \in Buffers /\ StreamFollows'
      /\ player'.output = (IF job.type = "output" THEN job.output ELSE player.output)
      /\ player'.volume = (IF job.type = "volume" THEN job.volume ELSE player.volume)
      /\ job.type # "play" => player'.stream \in {FALSE, player.stream}
      /\ job.type = "remove" => player'.stream = FALSE
  <2>0. player.stream => player.plays.output = player.output /\ player.plays.volume = player.volume
    BY DEF ShareIInv, StreamFollows
  <2>1. CASE job.type = "play" /\ Play
    <3>1. /\ Empty \in Buffers /\ Pushed(Empty) \in Buffers /\ Pushed(buffer) \in Buffers
      BY <1>1, EmptyBuffer, PushedTyped
    <3>2. buffer' \in Buffers
      BY <1>1, <2>1, <3>1 DEF Play
    <3>3. PICK choice \in Choice : choice = [output |-> player.output, volume |-> player.volume]
      BY <1>1 DEF Choice
    <3>4. player' = player \/ player' = [player EXCEPT !.stream = TRUE, !.plays = choice]
      BY <2>1, <3>3 DEF Play
    <3>5. choice.output = player.output /\ choice.volume = player.volume
      BY <3>3
    <3> QED
      BY <1>1, <2>0, <2>1, <3>2, <3>4, <3>5 DEF StreamFollows
  <2>2. CASE /\ job.type = "output"
             /\ player' = [player EXCEPT !.output = job.output, !.stream = FALSE]
             /\ buffer' = Empty
    <3>1. job.output \in Outputs
      BY <1>2, <2>2 DEF Posted
    <3> QED
      BY <1>1, <2>2, <3>1, EmptyBuffer DEF StreamFollows
  <2>3. CASE /\ job.type = "volume"
             /\ player' = [player EXCEPT !.volume = job.volume, !.plays.volume = job.volume]
             /\ UNCHANGED buffer
    <3>1. job.volume \in Volumes
      BY <1>2, <2>3 DEF Posted
    <3>2. PICK plays : plays = [player.plays EXCEPT !.volume = job.volume]
      OBVIOUS
    <3>3. plays \in Choice /\ plays.output = player.plays.output /\ plays.volume = job.volume
      BY <1>1, <3>1, <3>2 DEF Choice
    <3>4. player' = [player EXCEPT !.volume = job.volume, !.plays = plays]
      BY <2>3, <3>2
    <3> QED
      BY <1>1, <2>0, <2>3, <3>1, <3>3, <3>4 DEF StreamFollows
  <2>4. CASE /\ job.type = "remove"
             /\ player' = [player EXCEPT !.stream = FALSE]
             /\ buffer' = Empty
    BY <1>1, <2>4, EmptyBuffer DEF StreamFollows
  <2> QED
    BY <1>6, <2>1, <2>2, <2>3, <2>4
<1>8. ShareSoundTyped'
  BY <1>1, <1>2, <1>7 DEF ShareIInv, ShareSoundTyped
<1>9. OutputFollows'
  <2>1. CASE player.output = listener.output /\ NonePosted(jobs, "output")
    BY <1>1, <1>3, <1>7, <2>1 DEF OutputFollows
  <2>2. ASSUME NEW n \in Places(jobs), LastPosted(jobs, n, "output", "output"),
               jobs[n].output = listener.output
        PROVE  OutputFollows'
    <3>1. CASE n = 1
      BY <1>1, <1>3, <1>7, <2>2, <3>1 DEF OutputFollows, job
    <3>2. CASE n # 1
      BY <1>1, <1>3, <2>2, <3>2 DEF OutputFollows
    <3> QED
      BY <3>1, <3>2
  <2> QED
    BY <2>1, <2>2 DEF ShareIInv, OutputFollows
<1>10. VolumeFollows'
  <2>1. CASE player.volume = listener.volume /\ NonePosted(jobs, "volume")
    BY <1>1, <1>4, <1>7, <2>1 DEF VolumeFollows
  <2>2. ASSUME NEW n \in Places(jobs), LastPosted(jobs, n, "volume", "volume"),
               jobs[n].volume = listener.volume
        PROVE  VolumeFollows'
    <3>1. CASE n = 1
      BY <1>1, <1>4, <1>7, <2>2, <3>1 DEF VolumeFollows, job
    <3>2. CASE n # 1
      BY <1>1, <1>4, <2>2, <3>2 DEF VolumeFollows
    <3> QED
      BY <3>1, <3>2
  <2> QED
    BY <2>1, <2>2 DEF ShareIInv, VolumeFollows
<1>11. SilenceFollows'
  <2> SUFFICES ASSUME ~ listener.watching PROVE SilenceFollows'
    BY <1>1 DEF SilenceFollows
  <2>1. CASE ~ player.stream /\ NonePosted(jobs, "play")
    BY <1>5, <1>7, <2>1 DEF SilenceFollows
  <2>2. ASSUME NEW n \in Places(jobs), LastPosted(jobs, n, "remove", "play")
        PROVE  SilenceFollows'
    <3>1. CASE n = 1
      BY <1>5, <1>7, <2>2, <3>1 DEF SilenceFollows
    <3>2. CASE n # 1
      BY <1>5, <2>2, <3>2 DEF SilenceFollows
    <3> QED
      BY <3>1, <3>2
  <2> QED
    BY <2>1, <2>2 DEF ShareIInv, SilenceFollows
<1> QED
  BY <1>7, <1>8, <1>9, <1>10, <1>11 DEF ShareIInv

\* The share is heard on the device and at the volume last chosen, and falls silent
\* once it is no longer watched, whatever waits for the playback thread and whichever
\* devices come and go; its buffer stays within its bounds (screen_audio.cpp).
THEOREM ShareSoundThm == ShareSoundSpec => [](ShareSoundTypeOK /\ ShareSoundFollows)
<1>1. ShareSoundInit => ShareIInv
  <2> SUFFICES ASSUME ShareSoundInit PROVE ShareIInv
    OBVIOUS
  <2>1. \A other : NonePosted(<<>>, other)
    BY DEF NonePosted, Places
  <2>2. PICK choice : choice = [output |-> listener.output, volume |-> listener.volume]
    OBVIOUS
  <2>3. /\ listener \in [watching: {FALSE}, output: Outputs, volume: Volumes, changes: {0}]
        /\ player = [output |-> listener.output, volume |-> listener.volume, stream |-> FALSE,
                     plays |-> choice]
        /\ jobs = <<>> /\ buffer = Empty /\ broken = {}
    BY <2>2 DEF ShareSoundInit
  <2>4. choice \in Choice
    BY <2>2, <2>3 DEF Choice
  <2>5. jobs \in Seq(Posted)
    BY <2>3, EmptySeq
  <2>6. /\ listener \in [watching: BOOLEAN, output: Outputs, volume: Volumes, changes: Nat]
        /\ listener.output \in Outputs /\ listener.volume \in Volumes
    <3>1. FALSE \in BOOLEAN /\ 0 \in Nat
      OBVIOUS
    <3>2. listener = [watching |-> listener.watching, output |-> listener.output,
                      volume |-> listener.volume, changes |-> listener.changes]
          /\ listener.watching = FALSE /\ listener.changes = 0
          /\ listener.output \in Outputs /\ listener.volume \in Volumes
      BY <2>3
    <3> QED
      BY <3>1, <3>2
  <2>7. player \in [output: Outputs, volume: Volumes, stream: BOOLEAN, plays: Choice]
    BY <2>3, <2>4, <2>6
  <2>8. ShareSoundTyped
    BY <2>3, <2>5, <2>6, <2>7, EmptyBuffer DEF ShareSoundTyped
  <2>9. choice.output = listener.output /\ choice.volume = listener.volume
    BY <2>2
  <2> QED
    BY <2>1, <2>3, <2>8, <2>9 DEF ShareIInv, OutputFollows, VolumeFollows, SilenceFollows, StreamFollows
<1>2. ShareIInv /\ [ShareSoundNext]_shareSoundVars => ShareIInv'
  <2> SUFFICES ASSUME ShareIInv, [ShareSoundNext]_shareSoundVars PROVE ShareIInv'
    OBVIOUS
  <2>0. /\ listener \in [watching: BOOLEAN, output: Outputs, volume: Volumes, changes: Nat]
        /\ jobs \in Seq(Posted) /\ buffer \in Buffers /\ broken \subseteq Outputs
    BY DEF ShareIInv, ShareSoundTyped
  <2>1. \A job \in Posted : Post(job) => jobs' \in Seq(Posted) /\ Grows(jobs, job, jobs')
    BY <2>0, OneMore DEF Post
  <2>2. CASE UNCHANGED shareSoundVars
    BY <2>0, <2>2, BufferKeeps DEF shareSoundVars
  <2>3. CASE SinkReads
    BY <2>0, <2>3, ReadTyped, BufferKeeps DEF SinkReads
  <2>4. CASE RunJob
    BY <2>4, RunJobKeeps
  <2>5. CASE PacketArrives
    <3>1. PICK job \in Posted : job = [type |-> "play"]
      BY DEF Posted
    <3>2. /\ listener.watching /\ Post(job) /\ job.type = "play"
          /\ UNCHANGED <<listener, player, buffer, broken>>
      BY <2>5, <3>1 DEF PacketArrives
    <3>3. jobs' \in Seq(Posted) /\ Grows(jobs, job, jobs')
      BY <2>1, <3>2
    <3> QED
      BY <2>0, <3>2, <3>3, PostKeeps
  <2>6. CASE ToggleWatch
    <3>1. /\ listener' = [listener EXCEPT !.watching = ~ listener.watching,
                                          !.changes = listener.changes + 1]
          /\ UNCHANGED <<player, buffer, broken>>
      BY <2>6 DEF ToggleWatch
    <3>a. PICK w \in BOOLEAN : w = ~ listener.watching
      OBVIOUS
    <3>b. listener' = [listener EXCEPT !.watching = w, !.changes = listener.changes + 1]
          /\ listener.changes + 1 \in Nat
      BY <2>0, <3>1, <3>a
    <3>c. /\ listener' \in [watching: BOOLEAN, output: Outputs, volume: Volumes, changes: Nat]
          /\ listener'.output = listener.output /\ listener'.volume = listener.volume
          /\ listener'.watching = w
      BY <2>0, <3>b
    <3>2. /\ listener' \in [watching: BOOLEAN, output: Outputs, volume: Volumes, changes: Nat]
          /\ listener'.output = listener.output /\ listener'.volume = listener.volume
          /\ listener'.watching = ~ listener.watching
      BY <3>a, <3>c
    <3>3. CASE listener.watching
      <4>1. PICK job \in Posted : job = [type |-> "remove"]
        BY DEF Posted
      <4>2. Post(job) /\ job.type = "remove"
        BY <2>6, <3>3, <4>1 DEF ToggleWatch
      <4>3. jobs' \in Seq(Posted) /\ Grows(jobs, job, jobs')
        BY <2>1, <4>2
      <4> QED
        BY <3>1, <3>2, <4>2, <4>3, PostKeeps
    <3>4. CASE ~ listener.watching
      <4>1. listener'.watching /\ UNCHANGED jobs
        BY <2>6, <3>2, <3>4 DEF ToggleWatch
      <4>2. SilenceFollows'
        BY <4>1 DEF SilenceFollows
      <4>3. OutputFollows'
        BY <3>1, <3>2, <4>1 DEF ShareIInv, OutputFollows
      <4>4. VolumeFollows'
        BY <3>1, <3>2, <4>1 DEF ShareIInv, VolumeFollows
      <4> QED
        BY <3>1, <3>2, <4>1, <4>2, <4>3, <4>4 DEF ShareIInv, ShareSoundTyped, StreamFollows
    <3> QED
      BY <3>3, <3>4
  <2>7. CASE ChooseOutput
    <3>1. PICK output \in Outputs :
            /\ listener' = [listener EXCEPT !.output = output, !.changes = listener.changes + 1]
            /\ Post([type |-> "output", output |-> output])
      BY <2>7 DEF ChooseOutput
    <3>2. PICK job \in Posted : job = [type |-> "output", output |-> output]
      BY DEF Posted
    <3>3. Post(job) /\ job.type = "output" /\ job.output = output
      BY <3>1, <3>2
    <3>4. jobs' \in Seq(Posted) /\ Grows(jobs, job, jobs')
      BY <2>1, <3>3
    <3>5. /\ listener' \in [watching: BOOLEAN, output: Outputs, volume: Volumes, changes: Nat]
          /\ listener'.output = output /\ listener'.volume = listener.volume
          /\ listener'.watching = listener.watching
      <4>1. /\ listener' = [listener EXCEPT !.output = output, !.changes = listener.changes + 1]
            /\ listener.changes + 1 \in Nat
        BY <2>0, <3>1
      <4> QED
        BY <2>0, <4>1
    <3>6. UNCHANGED <<player, buffer, broken>>
      BY <2>7 DEF ChooseOutput
    <3>7. /\ \/ job.type = "output" /\ job.output = listener'.output
             \/ job.type # "output" /\ listener'.output = listener.output
          /\ \/ job.type = "volume" /\ job.volume = listener'.volume
             \/ job.type # "volume" /\ listener'.volume = listener.volume
          /\ \/ listener'.watching
             \/ job.type = "remove"
             \/ job.type # "play" /\ listener'.watching = listener.watching
      BY <3>3, <3>5
    <3> QED
      BY <3>4, <3>5, <3>6, <3>7, PostKeeps
  <2>8. CASE ChooseVolume
    <3>1. PICK volume \in Volumes :
            /\ listener' = [listener EXCEPT !.volume = volume, !.changes = listener.changes + 1]
            /\ Post([type |-> "volume", volume |-> volume])
      BY <2>8 DEF ChooseVolume
    <3>2. PICK job \in Posted : job = [type |-> "volume", volume |-> volume]
      BY DEF Posted
    <3>3. Post(job) /\ job.type = "volume" /\ job.volume = volume
      BY <3>1, <3>2
    <3>4. jobs' \in Seq(Posted) /\ Grows(jobs, job, jobs')
      BY <2>1, <3>3
    <3>5. /\ listener' \in [watching: BOOLEAN, output: Outputs, volume: Volumes, changes: Nat]
          /\ listener'.volume = volume /\ listener'.output = listener.output
          /\ listener'.watching = listener.watching
      <4>1. /\ listener' = [listener EXCEPT !.volume = volume, !.changes = listener.changes + 1]
            /\ listener.changes + 1 \in Nat
        BY <2>0, <3>1
      <4> QED
        BY <2>0, <4>1
    <3>6. UNCHANGED <<player, buffer, broken>>
      BY <2>8 DEF ChooseVolume
    <3>7. /\ \/ job.type = "output" /\ job.output = listener'.output
             \/ job.type # "output" /\ listener'.output = listener.output
          /\ \/ job.type = "volume" /\ job.volume = listener'.volume
             \/ job.type # "volume" /\ listener'.volume = listener.volume
          /\ \/ listener'.watching
             \/ job.type = "remove"
             \/ job.type # "play" /\ listener'.watching = listener.watching
      BY <3>3, <3>5
    <3> QED
      BY <3>4, <3>5, <3>6, <3>7, PostKeeps
  <2>9. CASE DeviceChanges
    <3>1. /\ listener' = [listener EXCEPT !.changes = listener.changes + 1]
          /\ \E output \in Outputs : broken' = IF output \in broken THEN broken \ {output}
                                               ELSE broken \cup {output}
          /\ UNCHANGED <<jobs, player, buffer>>
      BY <2>9 DEF DeviceChanges
    <3>2. /\ listener' \in [watching: BOOLEAN, output: Outputs, volume: Volumes, changes: Nat]
          /\ listener'.output = listener.output /\ listener'.volume = listener.volume
          /\ listener'.watching = listener.watching
      BY <2>0, <3>1
    <3>3. broken' \subseteq Outputs
      BY <2>0, <3>1
    <3>4. ShareSoundTyped'
      BY <3>1, <3>2, <3>3 DEF ShareIInv, ShareSoundTyped
    <3>5. OutputFollows'
      BY <3>1, <3>2 DEF ShareIInv, OutputFollows
    <3>6. VolumeFollows'
      BY <3>1, <3>2 DEF ShareIInv, VolumeFollows
    <3>7. SilenceFollows' /\ StreamFollows'
      BY <3>1, <3>2 DEF ShareIInv, SilenceFollows, StreamFollows
    <3> QED
      BY <3>4, <3>5, <3>6, <3>7 DEF ShareIInv
  <2> QED
    BY <2>2, <2>3, <2>4, <2>5, <2>6, <2>7, <2>8, <2>9 DEF ShareSoundNext
<1>3. ShareIInv => ShareSoundTypeOK /\ ShareSoundFollows
  <2> SUFFICES ASSUME ShareIInv PROVE ShareSoundTypeOK /\ ShareSoundFollows
    OBVIOUS
  <2>1. ShareSoundTypeOK
    BY DEF ShareIInv, ShareSoundTyped, ShareSoundTypeOK, Buffers
  <2>2. ASSUME jobs = <<>>, player.stream
        PROVE  /\ listener.watching
               /\ player.plays = [output |-> listener.output, volume |-> listener.volume]
    <3>1. Places(jobs) = {}
      BY <2>2, EmptySeq DEF Places
    <3>2. player.output = listener.output /\ player.volume = listener.volume
      BY <3>1 DEF ShareIInv, OutputFollows, VolumeFollows
    <3>3. listener.watching
      BY <2>2, <3>1 DEF ShareIInv, SilenceFollows
    <3>4. player.plays \in Choice /\ player.plays.output = player.output
          /\ player.plays.volume = player.volume
      BY <2>2 DEF ShareIInv, ShareSoundTyped, StreamFollows
    <3> QED
      BY <3>2, <3>3, <3>4 DEF Choice
  <2> QED
    BY <2>1, <2>2 DEF ShareSoundFollows
<1> QED
  BY <1>1, <1>2, <1>3, PTL DEF ShareSoundSpec
=============================================================================
