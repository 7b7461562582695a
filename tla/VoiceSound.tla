------------------------------ MODULE VoiceSound ------------------------------
(***************************************************************************)
(* The voices of a call on one device: RelayAudio (desktop/relay_audio.cpp)*)
(* and who the panel shows as speaking (desktop/community_panel.cpp).  The *)
(* node changes the presence of a peer and hands its packets to the panel  *)
(* at once; the panel catches up with the presence in a queued refresh.    *)
(***************************************************************************)
EXTENDS Integers, FiniteSets

CONSTANTS
    Me, Voices, \* this device, and the peers of the community
    HoldFrames  \* speakingHoldFrames, kVoiceActivityHoldFrames

ASSUME VoiceSoundAssumption == Me \notin Voices /\ HoldFrames \in Nat \ {0}

VARIABLES
    call,       \* is there a call, are the mute and deafen buttons down
    audio,      \* RelayAudio: running, muted_, deafened_, the peers that play_, mutedPeers_,
                \* quietFrames_, speaking_
    presence,   \* by peer, what the node knows: "away", "muted" or "talks"
    speakers       \* audioPeers_, speaking_, quietAudioFrames_, the peers heard within a
                \* second, and whether a refresh is queued

voiceSoundVars == <<call, audio, presence, speakers>>

Stopped(a) == [a EXCEPT !.running = FALSE, !.muted = FALSE, !.deaf = FALSE, !.plays = {},
                        !.quiet = HoldFrames, !.speaking = FALSE]

VoiceSoundInit ==
    /\ call = [on |-> FALSE, mute |-> FALSE, deaf |-> FALSE]
    /\ audio = [running |-> FALSE, muted |-> FALSE, deaf |-> FALSE, plays |-> {},
                silenced |-> {}, quiet |-> HoldFrames, speaking |-> FALSE]
    /\ presence = [v \in Voices |-> "away"]
    /\ speakers = [peers |-> {}, speaking |-> {}, quiet |-> [v \in Voices |-> HoldFrames],
                recent |-> {}, queued |-> FALSE]

-----------------------------------------------------------------------------
(* The handlers of the panel, as functions of its state.                   *)

\* setSpeaking, and quietAudioFrames_ forgotten.
NotSpeaking(p, peers) ==
    [p EXCEPT !.speaking = @ \ peers,
              !.quiet = [v \in Voices |-> IF v \in peers THEN HoldFrames ELSE @[v]]]

Active == {v \in Voices : presence[v] # "away"}

\* refresh: who is muted or has left is not speaking, who has left is not played.
RefreshPanel(p) ==
    LET muted == {v \in Voices : presence[v] = "muted"}
        gone == p.peers \ Active
    IN  [NotSpeaking(p, muted \cup gone) EXCEPT !.peers = Active, !.recent = @ \ gone]
RefreshAudio(a, p) == [a EXCEPT !.plays = @ \ (p.peers \ Active)]

\* voiceState.
TellVoiceState(a, p) ==
    /\ audio' = RefreshAudio([a EXCEPT !.muted = call'.mute \/ call'.deaf, !.deaf = call'.deaf], p)
    /\ speakers' = RefreshPanel(p)

\* leaveVoice.
Left(p) ==
    [p EXCEPT !.peers = {}, !.speaking = {}, !.quiet = [v \in Voices |-> HoldFrames], !.recent = {}]

-----------------------------------------------------------------------------
(* The user.                                                               *)

LeaveCall ==
    /\ call' = [on |-> FALSE, mute |-> FALSE, deaf |-> FALSE]
    /\ audio' = Stopped(audio)
    /\ speakers' = Left(speakers)
    /\ UNCHANGED presence

\* joinVoice: another call is left first; the devices may refuse.
Join ==
    \/ /\ call' = [on |-> TRUE, mute |-> FALSE, deaf |-> FALSE]
       /\ TellVoiceState([Stopped(audio) EXCEPT !.running = TRUE], Left(speakers))
       /\ UNCHANGED presence
    \/ LeaveCall

PressMute ==
    /\ call.on
    /\ \E button \in {"mute", "deaf"} : call' = [call EXCEPT ![button] = ~ @]
    /\ TellVoiceState(audio, speakers)
    /\ UNCHANGED presence

\* Mutant: the new audio is not told of the buttons.
ChangeDevicesOnly ==
    /\ call.on
    /\ audio' = [Stopped(audio) EXCEPT !.running = TRUE]
    /\ UNCHANGED <<call, presence, speakers>>

\* settings: the audio starts again on other devices, or on the old ones.
ChangeDevices ==
    /\ call.on
    /\ UNCHANGED <<call, presence>>
    /\ TellVoiceState([Stopped(audio) EXCEPT !.running = TRUE], [speakers EXCEPT !.speaking = @ \ {Me}])

\* showVoiceMemberMenu: silence a peer, and what it has buffered.
SilencePeer(v) ==
    /\ LET a == IF v \in audio.silenced THEN [audio EXCEPT !.silenced = @ \ {v}]
                ELSE [audio EXCEPT !.silenced = @ \cup {v}, !.plays = @ \ {v}]
       IN  IF call.on THEN audio' = RefreshAudio(a, speakers) /\ speakers' = RefreshPanel(speakers)
           ELSE audio' = a /\ UNCHANGED speakers
    /\ UNCHANGED <<call, presence>>

-----------------------------------------------------------------------------
(* The peers.                                                              *)

\* The presence of a peer changes; the node says changed().
PresenceArrives(v) ==
    /\ \E state \in {"away", "muted", "talks"} \ {presence[v]} :
        presence' = [presence EXCEPT ![v] = state]
    /\ speakers' = [speakers EXCEPT !.queued = TRUE]
    /\ UNCHANGED <<call, audio>>

\* Node::validPacket.
ValidAudio(v) == call.on /\ ~ call.deaf /\ presence[v] = "talks"

\* receive (audio), and RelayAudio::receive.
AudioArrives(v) ==
    /\ ValidAudio(v)
    /\ audio' = IF audio.running /\ ~ audio.deaf /\ v \notin audio.silenced
                  THEN [audio EXCEPT !.plays = @ \cup {v}] ELSE audio
    /\ \E loud \in BOOLEAN :
        LET quiet == IF loud THEN 0
                     ELSE IF speakers.quiet[v] < HoldFrames THEN speakers.quiet[v] + 1 ELSE HoldFrames
        IN  speakers' = [speakers EXCEPT !.recent = @ \cup {v}, !.quiet[v] = quiet,
                        !.speaking = IF quiet < HoldFrames THEN @ \cup {v} ELSE @ \ {v}]
    /\ UNCHANGED <<call, presence>>

SpeakersRefresh ==
    /\ speakers.queued
    /\ LET p == [speakers EXCEPT !.queued = FALSE] IN
       IF call.on THEN speakers' = RefreshPanel(p) /\ audio' = RefreshAudio(audio, p)
       ELSE speakers' = p /\ UNCHANGED audio
    /\ UNCHANGED <<call, presence>>

\* speakingTimer_: who has not been heard for a second has stopped.
SpeakingTimer ==
    /\ call.on
    /\ \E silent \in SUBSET speakers.recent :
        speakers' = [NotSpeaking(speakers, (speakers.speaking \ {Me}) \cap (silent \cup (Voices \ speakers.recent)))
                    EXCEPT !.recent = @ \ silent]
    /\ UNCHANGED <<call, audio, presence>>

\* A frame of the microphone, loud or quiet; short pauses do not end talking.
CaptureVoice ==
    /\ audio.running
    /\ \E loud \in BOOLEAN :
        LET quiet == IF loud THEN 0
                     ELSE IF audio.quiet < HoldFrames THEN audio.quiet + 1 ELSE HoldFrames
            speaking == ~ audio.muted /\ quiet < HoldFrames
        IN  /\ audio' = [audio EXCEPT !.quiet = quiet, !.speaking = speaking]
            /\ speakers' = IF speaking = audio.speaking THEN speakers
                        ELSE [speakers EXCEPT !.speaking = IF speaking THEN @ \cup {Me} ELSE @ \ {Me}]
    /\ UNCHANGED <<call, presence>>

VoiceSoundNext ==
    \/ Join \/ (call.on /\ LeaveCall) \/ PressMute \/ ChangeDevices
    \/ SpeakersRefresh \/ SpeakingTimer \/ CaptureVoice
    \/ \E v \in Voices : SilencePeer(v) \/ PresenceArrives(v) \/ AudioArrives(v)

VoiceSoundSpec == VoiceSoundInit /\ [][VoiceSoundNext]_voiceSoundVars

-----------------------------------------------------------------------------
VoiceSoundTypeOK ==
    /\ audio.plays \cup audio.silenced \cup speakers.peers \cup speakers.recent \subseteq Voices
    /\ speakers.speaking \subseteq Voices \cup {Me}

\* The audio runs exactly in a call and follows the buttons, also after the
\* devices were changed (RelayAudio::start forgets both); a silenced peer is not
\* played.  Who is shown as speaking talks in the call, once a queued refresh has
\* run; a peer that came, spoke and left before the refresh waits for the timer.
VoicesFollowTheCall ==
    /\ audio.running = call.on
    /\ call.on => audio.deaf = call.deaf /\ audio.muted = (call.mute \/ call.deaf)
    /\ audio.plays \cap audio.silenced = {}
    /\ ~ call.on => audio.plays = {} /\ speakers.speaking = {}
    /\ (Me \in speakers.speaking) = audio.speaking
    /\ ~ speakers.queued =>
        \A v \in speakers.speaking \cap speakers.peers : presence[v] = "talks"

\* The sound of a call, whatever the panel, the devices and the peers do.
VoiceSoundInv == VoiceSoundTypeOK /\ VoicesFollowTheCall
=============================================================================
