----------------------------- MODULE PanelProofs ----------------------------
(***************************************************************************)
(* The panel beside its chats and calls: the stage that shows shares       *)
(* (StageInv), the tools that draw on them (ToolsInv), the sound of a call *)
(* (VoiceSoundInv), the penguins of those who are online (PenguinInv) and  *)
(* the notifications (NotificationsInv), for any number of shares, strokes,*)
(* peers, displays, senders and timers.                                    *)
(*                                                                         *)
(* In the last three, state of the panel is copied elsewhere (into the     *)
(* audio, into an overlay, into a timer) and a later refresh brings the    *)
(* copy up to date. The invariants say which handlers must do so at once,  *)
(* and what may wait. The handlers of the first two are chains of calls,   *)
(* and each callee has a lemma that says what it leaves of the record it   *)
(* is given.                                                               *)
(***************************************************************************)
EXTENDS ScreenStage, DrawingTools, VoiceSound, Penguins, Notifications, WellFoundedInduction,
        TLAPS
-----------------------------------------------------------------------------
(***************************************************************************)
(* Voice sound.                                                            *)
(***************************************************************************)
\* What the variables hold.
VoiceTyped ==
    /\ call \in [on: BOOLEAN, mute: BOOLEAN, deaf: BOOLEAN]
    /\ audio \in [running: BOOLEAN, muted: BOOLEAN, deaf: BOOLEAN, plays: SUBSET Voices,
                  silenced: SUBSET Voices, quiet: 0..HoldFrames, speaking: BOOLEAN]
    /\ presence \in [Voices -> {"away", "muted", "talks"}]
    /\ speakers \in [peers: SUBSET Voices, speaking: SUBSET (Voices \cup {Me}),
                     quiet: [Voices -> 0..HoldFrames], recent: SUBSET Voices, queued: BOOLEAN]

\* The inductive invariant.
VoiceIInv == VoiceTyped /\ VoicesFollowTheCall

\* What the panel's list of speakers and the audio hold.
Panels == [peers: SUBSET Voices, speaking: SUBSET (Voices \cup {Me}),
           quiet: [Voices -> 0..HoldFrames], recent: SUBSET Voices, queued: BOOLEAN]
\* What the audio holds.
Audios == [running: BOOLEAN, muted: BOOLEAN, deaf: BOOLEAN, plays: SUBSET Voices,
           silenced: SUBSET Voices, quiet: 0..HoldFrames, speaking: BOOLEAN]

\* The counters of quiet frames start full.
LEMMA HoldTyped == HoldFrames \in 0..HoldFrames
BY VoiceSoundAssumption

\* Whoever stops speaking is forgotten by the list, and nothing else changes.
LEMMA NotSpeakingFields ==
  ASSUME NEW p \in Panels, NEW S \in SUBSET Voices
  PROVE  /\ NotSpeaking(p, S) \in Panels
         /\ NotSpeaking(p, S).speaking = p.speaking \ S
         /\ NotSpeaking(p, S).peers = p.peers
         /\ NotSpeaking(p, S).recent = p.recent
         /\ NotSpeaking(p, S).queued = p.queued
<1> DEFINE f == [v \in Voices |-> IF v \in S THEN HoldFrames ELSE p.quiet[v]]
           g == p.speaking \ S
<1>1. f \in [Voices -> 0..HoldFrames] /\ g \in SUBSET (Voices \cup {Me})
  BY HoldTyped DEF Panels
<1>2. NotSpeaking(p, S) = [p EXCEPT !.speaking = g, !.quiet = f]
  BY DEF NotSpeaking, Panels
<1> HIDE DEF f
<1> QED
  BY <1>1, <1>2 DEF Panels

\* A refresh leaves nobody shown as speaking who is muted or away.
LEMMA RefreshFields ==
  ASSUME NEW p \in Panels, VoiceTyped
  PROVE  /\ RefreshPanel(p) \in Panels
         /\ RefreshPanel(p).speaking \subseteq p.speaking
         /\ (Me \in RefreshPanel(p).speaking) = (Me \in p.speaking)
         /\ \A v \in RefreshPanel(p).speaking \cap RefreshPanel(p).peers : presence[v] = "talks"
         /\ RefreshPanel(p).queued = p.queued
<1> DEFINE muted == {v \in Voices : presence[v] = "muted"}
           gone == p.peers \ Active
           q == NotSpeaking(p, muted \cup gone)
<1>1. muted \cup gone \in SUBSET Voices /\ Active \in SUBSET Voices
  BY DEF Panels, Active
<1>2. /\ q \in Panels
      /\ q.speaking = p.speaking \ (muted \cup gone)
      /\ q.peers = p.peers /\ q.recent = p.recent /\ q.queued = p.queued
  BY <1>1, NotSpeakingFields
<1>3. RefreshPanel(p) = [q EXCEPT !.peers = Active, !.recent = @ \ gone]
  BY DEF RefreshPanel
<1>4. Me \notin muted \cup gone
  BY <1>1, VoiceSoundAssumption
<1>5. \A v \in Active : v \notin muted => presence[v] = "talks"
  BY DEF Active, VoiceTyped
<1> HIDE DEF muted, gone, q
<1>6. /\ RefreshPanel(p).speaking = q.speaking /\ RefreshPanel(p).peers = Active
      /\ RefreshPanel(p).queued = q.queued /\ RefreshPanel(p) \in Panels
  BY <1>1, <1>2, <1>3 DEF Panels
<1> QED
  BY <1>1, <1>2, <1>4, <1>5, <1>6

\* A refresh only takes peers out of what is played.
LEMMA AudioRefreshed ==
  ASSUME NEW a \in Audios, NEW p \in Panels
  PROVE  /\ RefreshAudio(a, p) \in Audios
         /\ RefreshAudio(a, p).plays \subseteq a.plays
         /\ RefreshAudio(a, p).running = a.running
         /\ RefreshAudio(a, p).muted = a.muted
         /\ RefreshAudio(a, p).deaf = a.deaf
         /\ RefreshAudio(a, p).silenced = a.silenced
         /\ RefreshAudio(a, p).speaking = a.speaking
BY DEF RefreshAudio, Audios

\* Audio that is stopped plays and sends nothing.
LEMMA StoppedFields ==
  ASSUME NEW a \in Audios
  PROVE  /\ Stopped(a) \in Audios /\ Stopped(a).plays = {}
         /\ Stopped(a).speaking = FALSE /\ Stopped(a).running = FALSE
BY HoldTyped DEF Audios, Stopped

\* After the call nobody is shown as speaking.
LEMMA LeftFields ==
  ASSUME NEW p \in Panels
  PROVE  Left(p) \in Panels /\ Left(p).speaking = {} /\ Left(p).peers = {}
<1> DEFINE f == [v \in Voices |-> HoldFrames]
<1>1. f \in [Voices -> 0..HoldFrames]
  BY HoldTyped
<1>2. Left(p) = [p EXCEPT !.peers = {}, !.speaking = {}, !.quiet = f, !.recent = {}]
  BY DEF Left
<1> HIDE DEF f
<1> QED
  BY <1>1, <1>2 DEF Panels

\* There is no call at first.
LEMMA VoiceStarts == VoiceSoundInit => VoiceIInv
<1> SUFFICES ASSUME VoiceSoundInit PROVE VoiceIInv
  OBVIOUS
<1>1. speakers.quiet \in [Voices -> 0..HoldFrames] /\ presence \in [Voices -> {"away", "muted", "talks"}]
  BY HoldTyped DEF VoiceSoundInit
<1>2. speakers \in Panels /\ audio \in Audios
  BY <1>1, HoldTyped DEF VoiceSoundInit, Panels, Audios
<1>3. VoiceTyped
  BY <1>1, <1>2 DEF VoiceSoundInit, VoiceTyped, Panels, Audios
<1>4. /\ audio.plays = {} /\ audio.speaking = FALSE /\ audio.running = FALSE
      /\ call.on = FALSE /\ speakers.speaking = {}
  BY HoldTyped DEF VoiceSoundInit
<1>5. (Me \in speakers.speaking) = audio.speaking
  <2>1. audio.speaking \in BOOLEAN /\ ~ audio.speaking /\ Me \notin speakers.speaking
    BY <1>4
  <2> QED
    BY <2>1
<1>6. VoicesFollowTheCall
  BY <1>4, <1>5 DEF VoicesFollowTheCall
<1> QED
  BY <1>3, <1>6 DEF VoiceIInv

\* The call ends.
LEMMA LeaveCallKeeps == VoiceIInv /\ LeaveCall => VoiceIInv'
<1> SUFFICES ASSUME VoiceIInv, LeaveCall PROVE VoiceIInv'
  OBVIOUS
<1>1. audio \in Audios /\ speakers \in Panels /\ presence' = presence
  BY DEF VoiceIInv, VoiceTyped, Audios, Panels, LeaveCall
<1>2. /\ call' = [on |-> FALSE, mute |-> FALSE, deaf |-> FALSE]
      /\ audio' = Stopped(audio) /\ speakers' = Left(speakers)
  BY DEF LeaveCall
<1>3. VoiceTyped'
  BY <1>1, <1>2, StoppedFields, LeftFields DEF VoiceTyped, VoiceIInv, Audios, Panels
<1>4. /\ audio'.plays = {} /\ audio'.speaking = FALSE /\ audio'.running = FALSE
      /\ speakers'.speaking = {} /\ call'.on = FALSE
  BY <1>1, <1>2, StoppedFields, LeftFields
<1>5. (Me \in speakers'.speaking) = audio'.speaking
  <2>1. audio'.speaking \in BOOLEAN /\ ~ audio'.speaking /\ Me \notin speakers'.speaking
    BY <1>4
  <2> QED
    BY <2>1
<1>6. VoicesFollowTheCall'
  BY <1>4, <1>5 DEF VoicesFollowTheCall
<1> QED
  BY <1>3, <1>6 DEF VoiceIInv

\* A step that changes the call or the audio and then tells the node keeps
\* the invariant, if the audio runs exactly in the call, plays nobody who is
\* silenced and speaks when the list says so.
LEMMA Told ==
  ASSUME VoiceTyped, NEW a \in Audios, NEW p \in Panels, TellVoiceState(a, p),
         call' \in [on: BOOLEAN, mute: BOOLEAN, deaf: BOOLEAN], UNCHANGED presence,
         a.running = call'.on, a.plays \cap a.silenced = {}, call'.on,
         (Me \in p.speaking) <=> a.speaking
  PROVE  VoiceIInv'
<1> DEFINE b == [a EXCEPT !.muted = call'.mute \/ call'.deaf, !.deaf = call'.deaf]
<1>1. /\ b \in Audios /\ b.running = a.running /\ b.plays = a.plays /\ b.silenced = a.silenced
      /\ b.speaking = a.speaking /\ b.deaf = call'.deaf /\ b.muted = (call'.mute \/ call'.deaf)
  BY DEF Audios
<1>2. audio' = RefreshAudio(b, p) /\ speakers' = RefreshPanel(p)
  BY DEF TellVoiceState
<1> HIDE DEF b
<1>3. /\ audio' \in Audios /\ audio'.plays \subseteq b.plays /\ audio'.running = b.running
      /\ audio'.muted = b.muted /\ audio'.deaf = b.deaf /\ audio'.silenced = b.silenced
      /\ audio'.speaking = b.speaking
  BY <1>1, <1>2, AudioRefreshed
<1>4. /\ speakers' \in Panels
      /\ (Me \in speakers'.speaking) = (Me \in p.speaking)
      /\ \A v \in speakers'.speaking \cap speakers'.peers : presence[v] = "talks"
  BY <1>2, RefreshFields
<1>5. VoiceTyped'
  BY <1>3, <1>4 DEF VoiceTyped, Audios, Panels
<1>6. (Me \in speakers'.speaking) = audio'.speaking
  BY <1>1, <1>3, <1>4 DEF Audios
<1>7. /\ audio'.running = call'.on /\ audio'.deaf = call'.deaf
      /\ audio'.muted = (call'.mute \/ call'.deaf) /\ audio'.plays \cap audio'.silenced = {}
      /\ \A v \in speakers'.speaking \cap speakers'.peers : presence'[v] = "talks"
  BY <1>1, <1>3, <1>4
<1>8. VoicesFollowTheCall'
  BY <1>6, <1>7 DEF VoicesFollowTheCall
<1> QED
  BY <1>5, <1>8 DEF VoiceIInv

\* The device joins a call.
LEMMA JoinKeeps == VoiceIInv /\ Join => VoiceIInv'
<1> SUFFICES ASSUME VoiceIInv, Join, ~ LeaveCall PROVE VoiceIInv'
  BY LeaveCallKeeps
<1> DEFINE a == [Stopped(audio) EXCEPT !.running = TRUE]
           p == Left(speakers)
<1>1. a \in Audios /\ a.running = TRUE /\ a.plays = {} /\ a.speaking = FALSE
  <2>1. audio \in Audios
    BY DEF VoiceIInv, VoiceTyped, Audios
  <2> QED
    BY <2>1, StoppedFields DEF Audios
<1>2. p \in Panels /\ p.speaking = {}
  BY LeftFields DEF VoiceIInv, VoiceTyped, Panels
<1>3. /\ call' = [on |-> TRUE, mute |-> FALSE, deaf |-> FALSE]
      /\ TellVoiceState(a, p) /\ UNCHANGED presence
  BY DEF Join
<1> HIDE DEF a, p
<1>4. /\ call' \in [on: BOOLEAN, mute: BOOLEAN, deaf: BOOLEAN] /\ call'.on
      /\ a.running = call'.on
  BY <1>1, <1>3
<1> QED
  BY <1>1, <1>2, <1>3, <1>4, Told DEF VoiceIInv

\* A control is pressed.
LEMMA PressMuteKeeps == VoiceIInv /\ PressMute => VoiceIInv'
<1> SUFFICES ASSUME VoiceIInv, PressMute PROVE VoiceIInv'
  OBVIOUS
<1>1. audio \in Audios /\ speakers \in Panels
  BY DEF VoiceIInv, VoiceTyped, Audios, Panels
<1>2. PICK button \in {"mute", "deaf"} : call' = [call EXCEPT ![button] = ~ @]
  BY DEF PressMute
<1>3. call' \in [on: BOOLEAN, mute: BOOLEAN, deaf: BOOLEAN] /\ call'.on = call.on
  <2>1. CASE button = "mute"
    <3>1. call' = [call EXCEPT !.mute = ~ @]
      BY <1>2, <2>1
    <3> QED BY <3>1 DEF VoiceIInv, VoiceTyped
  <2>2. CASE button = "deaf"
    <3>1. call' = [call EXCEPT !.deaf = ~ @]
      BY <1>2, <2>2
    <3> QED BY <3>1 DEF VoiceIInv, VoiceTyped
  <2> QED BY <2>1, <2>2
<1>4. /\ TellVoiceState(audio, speakers) /\ UNCHANGED presence /\ call.on
  BY DEF PressMute
<1>5. VoiceTyped /\ VoicesFollowTheCall
  BY DEF VoiceIInv
<1> QED
  BY <1>1, <1>3, <1>4, <1>5, Told DEF VoicesFollowTheCall

\* Other devices are chosen: the audio starts again.
LEMMA ChangeDevicesKeeps == VoiceIInv /\ ChangeDevices => VoiceIInv'
<1> SUFFICES ASSUME VoiceIInv, ChangeDevices PROVE VoiceIInv'
  OBVIOUS
<1> DEFINE a == [Stopped(audio) EXCEPT !.running = TRUE]
           p == [speakers EXCEPT !.speaking = @ \ {Me}]
<1>1. a \in Audios /\ a.running = TRUE /\ a.plays = {} /\ a.speaking = FALSE
  <2>1. audio \in Audios
    BY DEF VoiceIInv, VoiceTyped, Audios
  <2> QED
    BY <2>1, StoppedFields DEF Audios
<1>2. p \in Panels /\ Me \notin p.speaking
  BY DEF VoiceIInv, VoiceTyped, Panels
<1>3. TellVoiceState(a, p) /\ call.on /\ UNCHANGED <<call, presence>>
  BY DEF ChangeDevices
<1> HIDE DEF a, p
<1>4. /\ call' \in [on: BOOLEAN, mute: BOOLEAN, deaf: BOOLEAN] /\ call'.on
      /\ a.running = call'.on
  BY <1>1, <1>3 DEF VoiceIInv, VoiceTyped
<1> QED
  BY <1>1, <1>2, <1>3, <1>4, Told DEF VoiceIInv

\* A peer is silenced here, or heard again.
LEMMA SilencePeerKeeps ==
  ASSUME NEW v \in Voices, VoiceIInv, SilencePeer(v)
  PROVE  VoiceIInv'
<1> DEFINE a == IF v \in audio.silenced THEN [audio EXCEPT !.silenced = @ \ {v}]
                ELSE [audio EXCEPT !.silenced = @ \cup {v}, !.plays = @ \ {v}]
<1>1. speakers \in Panels /\ VoicesFollowTheCall /\ VoiceTyped
  BY DEF VoiceIInv, VoiceTyped, Panels
<1>2. /\ a \in Audios /\ a.plays \cap a.silenced = {} /\ a.plays \subseteq audio.plays
      /\ a.running = audio.running /\ a.muted = audio.muted
      /\ a.deaf = audio.deaf /\ a.speaking = audio.speaking
  BY DEF VoiceIInv, VoiceTyped, VoicesFollowTheCall, Audios
<1>3. /\ UNCHANGED <<call, presence>>
      /\ IF call.on THEN audio' = RefreshAudio(a, speakers) /\ speakers' = RefreshPanel(speakers)
           ELSE audio' = a /\ UNCHANGED speakers
  BY DEF SilencePeer
<1> HIDE DEF a
<1>4. /\ audio' \in Audios /\ audio'.plays \subseteq a.plays /\ audio'.running = a.running
      /\ audio'.muted = a.muted /\ audio'.deaf = a.deaf /\ audio'.silenced = a.silenced
      /\ audio'.speaking = a.speaking
  BY <1>1, <1>2, <1>3, AudioRefreshed
<1>5. /\ speakers' \in Panels
      /\ (Me \in speakers'.speaking) = (Me \in speakers.speaking)
      /\ speakers'.speaking \subseteq speakers.speaking /\ speakers'.queued = speakers.queued
      /\ ~ speakers'.queued =>
            \A w \in speakers'.speaking \cap speakers'.peers : presence[w] = "talks"
  BY <1>1, <1>3, RefreshFields DEF VoicesFollowTheCall
<1>6. VoiceTyped'
  BY <1>1, <1>3, <1>4, <1>5 DEF VoiceTyped, Audios, Panels
<1>7. VoicesFollowTheCall'
  BY <1>1, <1>2, <1>3, <1>4, <1>5 DEF VoicesFollowTheCall
<1> QED
  BY <1>6, <1>7 DEF VoiceIInv

\* A peer's presence arrives.
LEMMA PresenceArrivesKeeps ==
  ASSUME NEW v \in Voices, VoiceIInv, PresenceArrives(v)
  PROVE  VoiceIInv'
<1>1. /\ speakers' = [speakers EXCEPT !.queued = TRUE] /\ speakers \in Panels
      /\ UNCHANGED <<call, audio>>
  BY DEF PresenceArrives, VoiceIInv, VoiceTyped, Panels
<1>2. presence' \in [Voices -> {"away", "muted", "talks"}]
  BY DEF PresenceArrives, VoiceIInv, VoiceTyped
<1>3. /\ speakers' \in Panels /\ speakers'.speaking = speakers.speaking /\ speakers'.queued = TRUE
  BY <1>1 DEF Panels
<1>4. VoiceTyped'
  BY <1>1, <1>2, <1>3 DEF VoiceIInv, VoiceTyped, Panels
<1>5. VoicesFollowTheCall'
  BY <1>1, <1>3 DEF VoiceIInv, VoicesFollowTheCall
<1> QED
  BY <1>4, <1>5 DEF VoiceIInv

\* Sound of a peer arrives.
LEMMA AudioArrivesKeeps ==
  ASSUME NEW v \in Voices, VoiceIInv, AudioArrives(v)
  PROVE  VoiceIInv'
<1>1. PICK loud \in BOOLEAN :
        LET quiet == IF loud THEN 0
                     ELSE IF speakers.quiet[v] < HoldFrames THEN speakers.quiet[v] + 1 ELSE HoldFrames
        IN  speakers' = [speakers EXCEPT !.recent = @ \cup {v}, !.quiet[v] = quiet,
                        !.speaking = IF quiet < HoldFrames THEN @ \cup {v} ELSE @ \ {v}]
  BY DEF AudioArrives
<1> DEFINE quiet == IF loud THEN 0
                    ELSE IF speakers.quiet[v] < HoldFrames THEN speakers.quiet[v] + 1 ELSE HoldFrames
<1>2. quiet \in 0..HoldFrames
  BY VoiceSoundAssumption DEF VoiceIInv, VoiceTyped
<1> HIDE DEF quiet
<1>3. /\ speakers' \in Panels /\ speakers'.peers = speakers.peers
      /\ speakers'.queued = speakers.queued /\ speakers'.speaking \subseteq speakers.speaking \cup {v}
      /\ speakers.speaking \subseteq speakers'.speaking \cup {v}
  BY <1>1, <1>2 DEF VoiceIInv, VoiceTyped, Panels, quiet
<1>4. call.on /\ presence[v] = "talks" /\ UNCHANGED <<call, presence>> /\ v # Me
  BY VoiceSoundAssumption DEF AudioArrives, ValidAudio
<1>5. /\ audio' \in Audios /\ audio'.plays \cap audio'.silenced = {}
      /\ audio'.running = audio.running /\ audio'.muted = audio.muted
      /\ audio'.deaf = audio.deaf /\ audio'.speaking = audio.speaking
  BY DEF AudioArrives, VoiceIInv, VoiceTyped, VoicesFollowTheCall, Audios
<1>6. VoiceTyped'
  BY <1>3, <1>4, <1>5 DEF VoiceIInv, VoiceTyped, Audios, Panels
<1>7. VoicesFollowTheCall'
  BY <1>3, <1>4, <1>5 DEF VoiceIInv, VoicesFollowTheCall
<1> QED
  BY <1>6, <1>7 DEF VoiceIInv

\* The refresh that was put off runs.
LEMMA SpeakersRefreshKeeps == VoiceIInv /\ SpeakersRefresh => VoiceIInv'
<1> SUFFICES ASSUME VoiceIInv, SpeakersRefresh PROVE VoiceIInv'
  OBVIOUS
<1> DEFINE p == [speakers EXCEPT !.queued = FALSE]
<1>1. /\ VoicesFollowTheCall /\ VoiceTyped /\ audio \in Audios
      /\ p \in Panels /\ p.speaking = speakers.speaking
  BY DEF VoiceIInv, VoiceTyped, Panels, Audios
<1>2. /\ UNCHANGED <<call, presence>>
      /\ IF call.on THEN speakers' = RefreshPanel(p) /\ audio' = RefreshAudio(audio, p)
         ELSE speakers' = p /\ UNCHANGED audio
  BY DEF SpeakersRefresh
<1> HIDE DEF p
<1>3. /\ audio' \in Audios /\ audio'.plays \subseteq audio.plays /\ audio'.running = audio.running
      /\ audio'.muted = audio.muted /\ audio'.deaf = audio.deaf /\ audio'.silenced = audio.silenced
      /\ audio'.speaking = audio.speaking
  BY <1>1, <1>2, AudioRefreshed
<1>4. /\ speakers' \in Panels
      /\ (Me \in speakers'.speaking) = (Me \in speakers.speaking)
      /\ speakers'.speaking \subseteq speakers.speaking
      /\ \A v \in speakers'.speaking \cap speakers'.peers : presence[v] = "talks"
  <2>1. CASE call.on
    BY <2>1, <1>1, <1>2, RefreshFields
  <2>2. CASE ~ call.on
    BY <2>2, <1>1, <1>2 DEF VoicesFollowTheCall
  <2> QED BY <2>1, <2>2
<1>5. VoiceTyped'
  BY <1>1, <1>2, <1>3, <1>4 DEF VoiceTyped, Audios, Panels
<1>6. VoicesFollowTheCall'
  BY <1>1, <1>2, <1>3, <1>4 DEF VoicesFollowTheCall
<1> QED
  BY <1>5, <1>6 DEF VoiceIInv

\* The speakers' timer runs.
LEMMA SpeakingTimerKeeps == VoiceIInv /\ SpeakingTimer => VoiceIInv'
<1> SUFFICES ASSUME VoiceIInv, SpeakingTimer PROVE VoiceIInv'
  OBVIOUS
<1>1. PICK silent \in SUBSET speakers.recent :
        speakers' = [NotSpeaking(speakers, (speakers.speaking \ {Me}) \cap (silent \cup (Voices \ speakers.recent)))
                    EXCEPT !.recent = @ \ silent]
  BY DEF SpeakingTimer
<1> DEFINE still == (speakers.speaking \ {Me}) \cap (silent \cup (Voices \ speakers.recent))
           q == NotSpeaking(speakers, still)
<1>2. speakers \in Panels /\ still \in SUBSET Voices /\ Me \notin still
  BY VoiceSoundAssumption DEF VoiceIInv, VoiceTyped, Panels
<1>3. speakers' = [q EXCEPT !.recent = @ \ silent]
  BY <1>1
<1> HIDE DEF still
<1>4. /\ q \in Panels /\ q.speaking = speakers.speaking \ still /\ q.peers = speakers.peers
      /\ q.queued = speakers.queued
  BY <1>2, NotSpeakingFields
<1> HIDE DEF q
<1>5. /\ speakers' \in Panels /\ speakers'.speaking = q.speaking /\ speakers'.peers = q.peers
      /\ speakers'.queued = q.queued
  BY <1>3, <1>4 DEF Panels
<1>6. UNCHANGED <<call, audio, presence>>
  BY DEF SpeakingTimer
<1>7. VoiceTyped'
  BY <1>5, <1>6 DEF VoiceIInv, VoiceTyped, Panels
<1>8. VoicesFollowTheCall'
  BY <1>2, <1>4, <1>5, <1>6 DEF VoiceIInv, VoicesFollowTheCall
<1> QED
  BY <1>7, <1>8 DEF VoiceIInv

\* The microphone has a frame.
LEMMA CaptureVoiceKeeps == VoiceIInv /\ CaptureVoice => VoiceIInv'
<1> SUFFICES ASSUME VoiceIInv, CaptureVoice PROVE VoiceIInv'
  OBVIOUS
<1>1. PICK loud \in BOOLEAN :
        LET quiet == IF loud THEN 0
                     ELSE IF audio.quiet < HoldFrames THEN audio.quiet + 1 ELSE HoldFrames
            speaking == ~ audio.muted /\ quiet < HoldFrames
        IN  /\ audio' = [audio EXCEPT !.quiet = quiet, !.speaking = speaking]
            /\ speakers' = IF speaking = audio.speaking THEN speakers
                        ELSE [speakers EXCEPT !.speaking = IF speaking THEN @ \cup {Me} ELSE @ \ {Me}]
  BY DEF CaptureVoice
<1> DEFINE quiet == IF loud THEN 0
                    ELSE IF audio.quiet < HoldFrames THEN audio.quiet + 1 ELSE HoldFrames
           speaking == ~ audio.muted /\ quiet < HoldFrames
<1>2. quiet \in 0..HoldFrames /\ speaking \in BOOLEAN
  BY VoiceSoundAssumption DEF VoiceIInv, VoiceTyped
<1>3. /\ audio' = [audio EXCEPT !.quiet = quiet, !.speaking = speaking]
      /\ speakers' = IF speaking = audio.speaking THEN speakers
                     ELSE [speakers EXCEPT !.speaking = IF speaking THEN @ \cup {Me} ELSE @ \ {Me}]
  BY <1>1
<1> HIDE DEF quiet, speaking
<1>4. /\ audio' \in Audios /\ audio'.plays = audio.plays /\ audio'.silenced = audio.silenced
      /\ audio'.running = audio.running /\ audio'.muted = audio.muted
      /\ audio'.deaf = audio.deaf /\ audio'.speaking = speaking
  BY <1>2, <1>3 DEF VoiceIInv, VoiceTyped, Audios
<1>5. /\ speakers' \in Panels /\ speakers'.peers = speakers.peers
      /\ speakers'.queued = speakers.queued
      /\ speakers'.speaking \subseteq speakers.speaking \cup {Me}
      /\ (Me \in speakers'.speaking) = speaking
  BY <1>2, <1>3 DEF VoiceIInv, VoiceTyped, VoicesFollowTheCall, Panels
<1>6. call.on /\ UNCHANGED <<call, presence>>
  BY DEF CaptureVoice, VoiceIInv, VoicesFollowTheCall
<1>7. VoiceTyped'
  BY <1>4, <1>5, <1>6 DEF VoiceIInv, VoiceTyped, Panels, Audios
<1>8. VoicesFollowTheCall'
  BY <1>4, <1>5, <1>6, VoiceSoundAssumption DEF VoiceIInv, VoiceTyped, VoicesFollowTheCall
<1> QED
  BY <1>7, <1>8 DEF VoiceIInv

\* Every step keeps the invariant.
LEMMA VoiceStepKeeps == VoiceIInv /\ [VoiceSoundNext]_voiceSoundVars => VoiceIInv'
<1> SUFFICES ASSUME VoiceIInv, [VoiceSoundNext]_voiceSoundVars PROVE VoiceIInv'
  OBVIOUS
<1>1. CASE UNCHANGED voiceSoundVars
  BY <1>1 DEF voiceSoundVars, VoiceIInv, VoiceTyped, VoicesFollowTheCall
<1>2. CASE Join \/ LeaveCall \/ PressMute \/ ChangeDevices
  BY <1>2, JoinKeeps, LeaveCallKeeps, PressMuteKeeps, ChangeDevicesKeeps
<1>3. CASE SpeakersRefresh \/ SpeakingTimer \/ CaptureVoice
  BY <1>3, SpeakersRefreshKeeps, SpeakingTimerKeeps, CaptureVoiceKeeps
<1>4. ASSUME NEW v \in Voices, SilencePeer(v) \/ PresenceArrives(v) \/ AudioArrives(v)
      PROVE  VoiceIInv'
  BY <1>4, SilencePeerKeeps, PresenceArrivesKeeps, AudioArrivesKeeps
<1> QED
  BY <1>1, <1>2, <1>3, <1>4 DEF VoiceSoundNext

\* For any number of peers, frames and refreshes, the audio runs exactly in
\* the call and obeys its controls, plays nobody whom it has silenced and
\* nobody without a call, and the list shows as speaking what the audio sends
\* and, unless a refresh is queued, nobody who is muted or away
\* (community_panel.cpp, voice_audio.cpp).
THEOREM VoiceSoundThm == VoiceSoundSpec => []VoiceSoundInv
<1>1. VoiceIInv => VoiceSoundInv
  BY DEF VoiceIInv, VoiceTyped, VoiceSoundInv, VoiceSoundTypeOK
<1> QED
  BY <1>1, VoiceStarts, VoiceStepKeeps, PTL DEF VoiceSoundSpec
-----------------------------------------------------------------------------
(***************************************************************************)
(* The penguins.                                                           *)
(***************************************************************************)
\* Whom the panel shows as online; without a connection nobody is.
Rosters == {r \in [connected: BOOLEAN, online: SUBSET Fellows, queued: BOOLEAN] :
                ~ r.connected => r.online = {}}
\* An overlay: what it keeps, it keeps for its members.
IsOverlay(o) ==
    /\ o = [members |-> o.members, shown |-> o.shown, enabled |-> o.enabled,
            active |-> o.active, looks |-> o.looks]
    /\ o.members \subseteq Fellows /\ o.enabled \in BOOLEAN
    /\ o.active \in [o.members -> 0 .. MaxMinutes]
    /\ o.looks \in [o.members -> Looks]
\* It shows who is active, on every display.
UpToDate(o, all, now) ==
    /\ o.shown = ActiveMembers(o, now)
    /\ \E displays : all = [d \in displays |-> Window(o, o.shown)]
\* Without a refresh underway it knows what the panel knows.
Agrees(o, r, known) ==
    ~ r.queued => o.members = r.online /\ \A p \in o.members : o.looks[p] = known[p]

\* The inductive invariant; PenguinInv follows.
PenguinIInv ==
    /\ roster \in Rosters /\ looks \in [Fellows -> Looks] /\ minutes \in 0 .. MaxMinutes
    /\ IsOverlay(penguinOverlay)
    /\ UpToDate(penguinOverlay, windows, minutes)
    /\ Agrees(penguinOverlay, roster, looks)

\* A penguin of whom nothing is known looks like any other.
LEMMA DefaultLooks == Default \in Looks /\ 0 \in 0 .. MaxMinutes
BY PenguinAssumption DEF Default, Looks

\* Only members are active.
LEMMA ActiveAreMembers ==
  ASSUME NEW o, NEW now
  PROVE  ActiveMembers(o, now) \subseteq o.members
BY DEF ActiveMembers

\* Nobody is online, and the overlay is empty, at first.
LEMMA PenguinStarts == PenguinInit => PenguinIInv
<1> SUFFICES ASSUME PenguinInit PROVE PenguinIInv
  OBVIOUS
<1>1. roster \in Rosters /\ minutes \in 0 .. MaxMinutes
  BY DefaultLooks DEF PenguinInit, Rosters
<1>2. looks \in [Fellows -> Looks]
  BY DefaultLooks DEF PenguinInit, Undressed
<1>3. penguinOverlay = [members |-> {}, shown |-> {}, enabled |-> TRUE,
                  active |-> [p \in {} |-> 0], looks |-> [p \in {} |-> Default]]
  BY DEF PenguinInit, Undressed
<1>4. IsOverlay(penguinOverlay) /\ penguinOverlay.members = {} /\ penguinOverlay.shown = {}
  BY <1>3 DEF IsOverlay
<1>5. ActiveMembers(penguinOverlay, minutes) = {}
  BY <1>4 DEF ActiveMembers
<1>6. PICK S : windows = [d \in S |-> NoWindow]
  BY DEF PenguinInit
<1>7. Window(penguinOverlay, penguinOverlay.shown) = NoWindow
  BY <1>4 DEF Window
<1>8. UpToDate(penguinOverlay, windows, minutes)
  BY <1>4, <1>5, <1>6, <1>7 DEF UpToDate
<1>9. Agrees(penguinOverlay, roster, looks)
  BY <1>4 DEF PenguinInit, Agrees
<1> QED
  BY <1>1, <1>2, <1>4, <1>8, <1>9 DEF PenguinIInv

\* Whoever the overlay is, its windows then show who is active.
LEMMA Synced ==
  ASSUME NEW o, IsOverlay(o), NEW displays, NEW now, SyncScreens(o, displays, now)
  PROVE  /\ IsOverlay(penguinOverlay') /\ UpToDate(penguinOverlay', windows', now)
         /\ penguinOverlay'.members = o.members /\ penguinOverlay'.looks = o.looks
<1> DEFINE seen == ActiveMembers(o, now)
<1>1. penguinOverlay' = [o EXCEPT !.shown = seen] /\ windows' = [d \in displays |-> Window(o, seen)]
  BY DEF SyncScreens
<1> HIDE DEF seen
<1>2. /\ penguinOverlay'.members = o.members /\ penguinOverlay'.shown = seen
      /\ penguinOverlay'.enabled = o.enabled /\ penguinOverlay'.active = o.active
      /\ penguinOverlay'.looks = o.looks
      /\ penguinOverlay' = [members |-> o.members, shown |-> seen, enabled |-> o.enabled,
            active |-> o.active, looks |-> o.looks]
  BY <1>1 DEF IsOverlay
<1>3. IsOverlay(penguinOverlay')
  BY <1>2 DEF IsOverlay
<1>4. seen = ActiveMembers(penguinOverlay', now)
  BY <1>2 DEF ActiveMembers, seen
<1>5. Window(o, seen) = Window(penguinOverlay', seen)
  BY <1>2 DEF Window
<1> QED
  BY <1>1, <1>2, <1>3, <1>4, <1>5 DEF UpToDate

\* Repainting is enough when nobody becomes active or goes to rest.
LEMMA Repainted ==
  ASSUME NEW old, NEW now, UpToDate(old, windows, now),
         NEW o, IsOverlay(o), o.shown = old.shown, o.enabled = old.enabled,
         NEW later, o.shown = ActiveMembers(o, later), Repaint(o)
  PROVE  /\ IsOverlay(penguinOverlay') /\ UpToDate(penguinOverlay', windows', later)
         /\ penguinOverlay'.members = o.members /\ penguinOverlay'.looks = o.looks
<1>1. PICK displays : windows = [d \in displays |-> Window(old, old.shown)]
  BY DEF UpToDate
<1>2. penguinOverlay' = o /\ DOMAIN windows = displays
  BY <1>1 DEF Repaint
<1>3. windows' = [d \in displays |->
          IF windows[d] = NoWindow THEN NoWindow
          ELSE [windows[d] EXCEPT !.looks = [p \in DOMAIN @ |-> o.looks[p]]]]
  BY <1>2 DEF Repaint
<1>4. ASSUME NEW d \in displays
      PROVE  (IF windows[d] = NoWindow THEN NoWindow
              ELSE [windows[d] EXCEPT !.looks = [p \in DOMAIN @ |-> o.looks[p]]])
             = Window(o, o.shown)
  <2>1. windows[d] = Window(old, old.shown)
    BY <1>1
  <2>2. CASE o.enabled /\ o.shown # {}
    <3>1. windows[d] = [open |-> TRUE, looks |-> [p \in old.shown |-> old.looks[p]]]
      BY <2>1, <2>2 DEF Window
    <3>2. windows[d] # NoWindow
      BY <3>1 DEF NoWindow
    <3>3. [windows[d] EXCEPT !.looks = [p \in DOMAIN @ |-> o.looks[p]]]
          = [open |-> TRUE, looks |-> [p \in old.shown |-> o.looks[p]]]
      <4> DEFINE paint == [p \in old.shown |-> o.looks[p]]
                 painted == [p \in old.shown |-> old.looks[p]]
      <4>1. windows[d] = [open |-> TRUE, looks |-> painted] /\ DOMAIN painted = old.shown
        BY <3>1
      <4> HIDE DEF painted
      <4>2. DOMAIN windows[d].looks = old.shown
        BY <4>1
      <4>3. [p \in DOMAIN windows[d].looks |-> o.looks[p]] = paint
        BY <4>2
      <4>4. [windows[d] EXCEPT !.looks = [p \in DOMAIN @ |-> o.looks[p]]]
            = [windows[d] EXCEPT !.looks = paint]
        BY <4>3
      <4> HIDE DEF paint
      <4>5. [windows[d] EXCEPT !.looks = paint] = [open |-> TRUE, looks |-> paint]
        BY <4>1
      <4> QED
        BY <4>4, <4>5 DEF paint
    <3> QED
      BY <2>2, <3>2, <3>3 DEF Window
  <2>3. CASE ~ (o.enabled /\ o.shown # {})
    BY <2>1, <2>3 DEF Window
  <2> QED BY <2>2, <2>3
<1>5. windows' = [d \in displays |-> Window(o, o.shown)]
  BY <1>3, <1>4
<1> QED
  BY <1>2, <1>5 DEF UpToDate

\* After sync_activity the windows show who is active now.
LEMMA ActivitySynced ==
  ASSUME PenguinIInv, NEW o, IsOverlay(o), o.shown = penguinOverlay.shown,
         o.enabled = penguinOverlay.enabled, NEW now, SyncActivity(o, now)
  PROVE  /\ IsOverlay(penguinOverlay') /\ UpToDate(penguinOverlay', windows', now)
         /\ penguinOverlay'.members = o.members /\ penguinOverlay'.looks = o.looks
<1>1. CASE ActiveMembers(o, now) # o.shown
  BY <1>1, Synced DEF SyncActivity
<1>2. CASE ActiveMembers(o, now) = o.shown
  <2>1. Repaint(o)
    BY <1>2 DEF SyncActivity
  <2>2. UpToDate(penguinOverlay, windows, minutes)
    BY DEF PenguinIInv
  <2> QED
    BY <1>2, <2>1, <2>2, Repainted
<1> QED BY <1>1, <1>2

\* set_members leaves an overlay of exactly the given members.
LEMMA MembersSet ==
  ASSUME PenguinIInv, NEW S \in SUBSET Fellows
  PROVE  /\ IsOverlay(SetMembers(penguinOverlay, S))
         /\ SetMembers(penguinOverlay, S).members = S
         /\ SetMembers(penguinOverlay, S).shown = penguinOverlay.shown
         /\ SetMembers(penguinOverlay, S).enabled = penguinOverlay.enabled
         /\ S = penguinOverlay.members =>
               SetMembers(penguinOverlay, S).active = penguinOverlay.active
<1> DEFINE o == penguinOverlay
           active == [p \in S |-> IF p \in o.members THEN o.active[p] ELSE minutes]
           dress == [p \in S |-> IF p \in o.members THEN o.looks[p] ELSE Default]
<1>1. IsOverlay(o) /\ minutes \in 0 .. MaxMinutes
  BY DEF PenguinIInv
<1>2. active \in [S -> 0 .. MaxMinutes] /\ dress \in [S -> Looks]
  BY <1>1, DefaultLooks DEF IsOverlay
<1>3. SetMembers(o, S) = [o EXCEPT !.members = S, !.active = active, !.looks = dress]
  BY DEF SetMembers
<1>4. S = o.members => active = o.active
  BY <1>1 DEF IsOverlay
<1> HIDE DEF active, dress
<1>5. SetMembers(o, S) = [members |-> S, shown |-> o.shown, enabled |-> o.enabled,
            active |-> active, looks |-> dress]
  BY <1>1, <1>3 DEF IsOverlay
<1> HIDE DEF o
<1>6. IsOverlay(SetMembers(o, S))
  BY <1>1, <1>2, <1>5 DEF IsOverlay
<1> QED
  BY <1>4, <1>5, <1>6 DEF o

\* After dressing, members look as the panel knows them.
LEMMA Dresses ==
  ASSUME NEW o, IsOverlay(o), NEW known \in [Fellows -> Looks]
  PROVE  /\ IsOverlay(Dressed(o, known)) /\ Dressed(o, known).members = o.members
         /\ Dressed(o, known).shown = o.shown /\ Dressed(o, known).enabled = o.enabled
         /\ Dressed(o, known).active = o.active
         /\ \A p \in o.members : Dressed(o, known).looks[p] = known[p]
<1> DEFINE dress == [p \in o.members |-> known[p]]
<1>1. dress \in [o.members -> Looks]
  BY DEF IsOverlay
<1>2. Dressed(o, known) = [members |-> o.members, shown |-> o.shown, enabled |-> o.enabled,
            active |-> o.active, looks |-> dress]
  BY DEF Dressed, IsOverlay
<1>3. \A p \in o.members : dress[p] = known[p]
  OBVIOUS
<1> HIDE DEF dress
<1> QED
  BY <1>1, <1>2, <1>3 DEF IsOverlay

\* refresh_penguins brings the overlay to those who are online, as the panel
\* knows them.
LEMMA PenguinsRefreshed ==
  ASSUME PenguinIInv, NEW known \in [Fellows -> Looks], RefreshPenguins(known)
  PROVE  /\ looks' \in [Fellows -> Looks]
         /\ IsOverlay(penguinOverlay') /\ UpToDate(penguinOverlay', windows', minutes)
         /\ penguinOverlay'.members = roster.online
         /\ \A p \in penguinOverlay'.members : penguinOverlay'.looks[p] = looks'[p]
<1>1. roster \in Rosters /\ UpToDate(penguinOverlay, windows, minutes)
  BY DEF PenguinIInv
<1>2. CASE roster.connected
  <2> DEFINE o == SetMembers(penguinOverlay, roster.online)
  <2>1. roster.online \in SUBSET Fellows
    BY <1>1 DEF Rosters
  <2>2. /\ IsOverlay(o) /\ o.members = roster.online /\ o.shown = penguinOverlay.shown
        /\ o.enabled = penguinOverlay.enabled
        /\ roster.online = penguinOverlay.members => o.active = penguinOverlay.active
    BY <2>1, MembersSet
  <2>3. /\ looks' = known
        /\ IF o.members # penguinOverlay.members
               THEN SyncScreens(Dressed(o, known), DOMAIN windows, minutes)
               ELSE Repaint(Dressed(o, known))
    BY <1>2 DEF RefreshPenguins
  <2> HIDE DEF o
  <2> DEFINE e == Dressed(o, known)
  <2>4. /\ IsOverlay(e) /\ e.members = o.members /\ e.shown = o.shown /\ e.enabled = o.enabled
        /\ e.active = o.active /\ \A p \in o.members : e.looks[p] = known[p]
    BY <2>2, Dresses
  <2>5. IF o.members # penguinOverlay.members THEN SyncScreens(e, DOMAIN windows, minutes)
        ELSE Repaint(e)
    BY <2>3
  <2> HIDE DEF e
  <2>6. /\ IsOverlay(penguinOverlay') /\ UpToDate(penguinOverlay', windows', minutes)
        /\ penguinOverlay'.members = e.members /\ penguinOverlay'.looks = e.looks
    <3>1. CASE o.members # penguinOverlay.members
      BY <2>4, <2>5, <3>1, Synced
    <3>2. CASE o.members = penguinOverlay.members
      <4>1. e.shown = ActiveMembers(e, minutes)
        BY <1>1, <2>2, <2>4, <3>2 DEF UpToDate, ActiveMembers
      <4>2. Repaint(e)
        BY <2>5, <3>2
      <4> QED
        BY <1>1, <2>2, <2>4, <4>1, <4>2, Repainted
    <3> QED BY <3>1, <3>2
  <2> QED
    BY <2>2, <2>3, <2>4, <2>6
<1>3. CASE ~ roster.connected
  <2> DEFINE o == SetMembers(penguinOverlay, {})
  <2>1. {} \in SUBSET Fellows /\ roster.online = {}
    BY <1>1, <1>3 DEF Rosters
  <2>2. IsOverlay(o) /\ o.members = {}
    BY <2>1, MembersSet
  <2>3. looks' = Undressed(Fellows) /\ SyncScreens(o, DOMAIN windows, minutes)
    BY <1>3 DEF RefreshPenguins
  <2> HIDE DEF o
  <2>4. /\ IsOverlay(penguinOverlay') /\ UpToDate(penguinOverlay', windows', minutes)
        /\ penguinOverlay'.members = o.members
    BY <2>2, <2>3, Synced
  <2>5. looks' \in [Fellows -> Looks]
    BY <2>3, DefaultLooks DEF Undressed
  <2> QED
    BY <2>1, <2>2, <2>4, <2>5
<1> QED BY <1>2, <1>3

\* The roster changes, and a refresh of the overlay is queued.
LEMMA RosterChangesKeeps ==
  ASSUME NEW connected \in BOOLEAN, NEW S \in SUBSET Fellows, PenguinIInv,
         RosterChanges(connected, S)
  PROVE  PenguinIInv'
<1>1. roster' \in Rosters /\ roster'.queued
  BY DEF RosterChanges, Rosters
<1> QED
  BY <1>1 DEF RosterChanges, PenguinIInv, Agrees

\* The refresh that was queued runs.
LEMMA RosterRefreshKeeps ==
  ASSUME NEW departed \in SUBSET Fellows, PenguinIInv, RosterRefresh(departed)
  PROVE  PenguinIInv'
<1> DEFINE known == [p \in Fellows |-> IF p \in departed THEN Default ELSE looks[p]]
<1>1. known \in [Fellows -> Looks]
  BY DefaultLooks DEF PenguinIInv
<1>2. RefreshPenguins(known) /\ UNCHANGED <<minutes, turns>>
      /\ roster' = [roster EXCEPT !.queued = FALSE]
  BY DEF RosterRefresh
<1> HIDE DEF known
<1>3. roster' \in Rosters /\ roster'.online = roster.online
  BY <1>2 DEF PenguinIInv, Rosters
<1>4. /\ looks' \in [Fellows -> Looks]
      /\ IsOverlay(penguinOverlay') /\ UpToDate(penguinOverlay', windows', minutes)
      /\ penguinOverlay'.members = roster.online
      /\ \A p \in penguinOverlay'.members : penguinOverlay'.looks[p] = looks'[p]
  BY <1>1, <1>2, PenguinsRefreshed
<1> QED
  BY <1>2, <1>3, <1>4 DEF PenguinIInv, Agrees

\* A peer's figure arrives.
LEMMA SpriteArrivesKeeps ==
  ASSUME NEW p \in Fellows, NEW figure \in Figures, PenguinIInv, SpriteArrives(p, figure)
  PROVE  PenguinIInv'
<1> DEFINE known == [looks EXCEPT ![p].figure = figure]
<1>1. known \in [Fellows -> Looks]
  BY DEF PenguinIInv, Looks
<1>2. RefreshPenguins(known) /\ UNCHANGED <<roster, minutes>>
  BY DEF SpriteArrives
<1> HIDE DEF known
<1>3. /\ looks' \in [Fellows -> Looks]
      /\ IsOverlay(penguinOverlay') /\ UpToDate(penguinOverlay', windows', minutes)
      /\ penguinOverlay'.members = roster.online
      /\ \A q \in penguinOverlay'.members : penguinOverlay'.looks[q] = looks'[q]
  BY <1>1, <1>2, PenguinsRefreshed
<1> QED
  BY <1>2, <1>3 DEF PenguinIInv, Agrees

\* A chat message arrives: its author is active.
LEMMA ChatArrivesKeeps ==
  ASSUME NEW p \in Fellows, NEW tint \in Tints, PenguinIInv, ChatArrives(p, tint)
  PROVE  PenguinIInv'
<1> DEFINE o == penguinOverlay
           dress == [q \in DOMAIN o.looks |-> IF q = p THEN [o.looks[q] EXCEPT !.tint = tint]
                                              ELSE o.looks[q]]
           e == [o EXCEPT !.looks = dress]
           active == [q \in DOMAIN e.active |-> IF q = p THEN minutes ELSE e.active[q]]
           a == NoteActivity(e, p)
<1>0. IsOverlay(o) /\ looks \in [Fellows -> Looks] /\ minutes \in 0 .. MaxMinutes
  BY DEF PenguinIInv
<1>1. dress \in [o.members -> Looks]
  BY <1>0 DEF IsOverlay, Looks
<1>2. looks' = [looks EXCEPT ![p].tint = tint] /\ UNCHANGED <<roster, minutes>>
  BY DEF ChatArrives
<1>3. looks' \in [Fellows -> Looks] /\ \A q \in Fellows \ {p} : looks'[q] = looks[q]
  BY <1>0, <1>2 DEF Looks
<1>4. looks'[p] = [looks[p] EXCEPT !.tint = tint]
  BY <1>0, <1>2
<1>5. \A q \in o.members : o.looks[q] = looks[q] => dress[q] = looks'[q]
  BY <1>0, <1>3, <1>4 DEF IsOverlay
<1>6. SyncActivity(a, minutes)
  BY DEF ChatArrives
<1> HIDE DEF dress
<1>7. e = [members |-> o.members, shown |-> o.shown, enabled |-> o.enabled,
           active |-> o.active, looks |-> dress]
  BY <1>0 DEF IsOverlay
<1>8. a = [e EXCEPT !.active = active]
  BY DEF NoteActivity
<1>9. active \in [o.members -> 0 .. MaxMinutes]
  BY <1>0, <1>7 DEF IsOverlay
<1> HIDE DEF e, active, a
<1>10. a = [members |-> o.members, shown |-> o.shown, enabled |-> o.enabled,
            active |-> active, looks |-> dress]
  BY <1>7, <1>8
<1>11. /\ IsOverlay(a) /\ a.shown = o.shown /\ a.enabled = o.enabled /\ a.members = o.members
       /\ a.looks = dress
  BY <1>0, <1>1, <1>9, <1>10 DEF IsOverlay
<1>12. /\ IsOverlay(penguinOverlay') /\ UpToDate(penguinOverlay', windows', minutes)
       /\ penguinOverlay'.members = a.members /\ penguinOverlay'.looks = a.looks
  BY <1>6, <1>11, ActivitySynced
<1>13. Agrees(penguinOverlay', roster, looks')
  BY <1>5, <1>11, <1>12 DEF PenguinIInv, Agrees
<1> QED
  BY <1>2, <1>3, <1>12, <1>13 DEF PenguinIInv

\* A minute passes, and some go to rest.
LEMMA MinutePassesKeeps == PenguinIInv /\ MinutePasses => PenguinIInv'
<1> SUFFICES ASSUME PenguinIInv, MinutePasses PROVE PenguinIInv'
  OBVIOUS
<1>1. minutes' \in 0 .. MaxMinutes /\ SyncActivity(penguinOverlay, minutes')
      /\ UNCHANGED <<roster, looks>> /\ IsOverlay(penguinOverlay)
  BY PenguinAssumption DEF MinutePasses, PenguinIInv
<1>2. PICK now : now = minutes'
  OBVIOUS
<1>3. SyncActivity(penguinOverlay, now)
  BY <1>1, <1>2
<1>4. /\ IsOverlay(penguinOverlay') /\ UpToDate(penguinOverlay', windows', now)
      /\ penguinOverlay'.members = penguinOverlay.members
      /\ penguinOverlay'.looks = penguinOverlay.looks
  BY <1>1, <1>3, ActivitySynced
<1> QED
  BY <1>1, <1>2, <1>4 DEF PenguinIInv, Agrees

\* The overlay is turned on or off.
LEMMA SetEnabledKeeps ==
  ASSUME NEW enabled \in BOOLEAN, PenguinIInv, SetEnabled(enabled)
  PROVE  PenguinIInv'
<1> DEFINE o == [penguinOverlay EXCEPT !.enabled = enabled]
<1>1. /\ SyncScreens(o, DOMAIN windows, minutes) /\ UNCHANGED <<roster, looks, minutes>>
      /\ IsOverlay(penguinOverlay)
  BY DEF SetEnabled, PenguinIInv
<1>2. o = [members |-> penguinOverlay.members, shown |-> penguinOverlay.shown, enabled |-> enabled,
           active |-> penguinOverlay.active, looks |-> penguinOverlay.looks]
  BY <1>1 DEF IsOverlay
<1> HIDE DEF o
<1>3. IsOverlay(o) /\ o.members = penguinOverlay.members /\ o.looks = penguinOverlay.looks
  BY <1>1, <1>2 DEF IsOverlay
<1>4. /\ IsOverlay(penguinOverlay') /\ UpToDate(penguinOverlay', windows', minutes)
      /\ penguinOverlay'.members = o.members /\ penguinOverlay'.looks = o.looks
  BY <1>1, <1>3, Synced
<1> QED
  BY <1>1, <1>3, <1>4 DEF PenguinIInv, Agrees

\* Displays are plugged in or unplugged.
LEMMA DisplaysChangeKeeps ==
  ASSUME NEW S \in SUBSET Displays, PenguinIInv, DisplaysChange(S)
  PROVE  PenguinIInv'
<1>1. /\ SyncScreens(penguinOverlay, S, minutes) /\ UNCHANGED <<roster, looks, minutes>>
      /\ IsOverlay(penguinOverlay)
  BY DEF DisplaysChange, PenguinIInv
<1>2. /\ IsOverlay(penguinOverlay') /\ UpToDate(penguinOverlay', windows', minutes)
      /\ penguinOverlay'.members = penguinOverlay.members
      /\ penguinOverlay'.looks = penguinOverlay.looks
  BY <1>1, Synced
<1> QED
  BY <1>1, <1>2 DEF PenguinIInv, Agrees

\* Every step keeps the invariant.
LEMMA PenguinStepKeeps == PenguinIInv /\ [PenguinNext]_penguinVars => PenguinIInv'
<1> SUFFICES ASSUME PenguinIInv, [PenguinNext]_penguinVars PROVE PenguinIInv'
  OBVIOUS
<1>1. CASE UNCHANGED penguinVars
  BY <1>1 DEF penguinVars, PenguinIInv
<1>2. CASE \E connected \in BOOLEAN, S \in SUBSET Fellows : RosterChanges(connected, S)
  BY <1>2, RosterChangesKeeps
<1>3. CASE \E departed \in SUBSET Fellows : RosterRefresh(departed)
  BY <1>3, RosterRefreshKeeps
<1>4. ASSUME NEW p \in Fellows,
             \/ \E figure \in Figures : SpriteArrives(p, figure)
             \/ \E tint \in Tints : ChatArrives(p, tint)
      PROVE  PenguinIInv'
  BY <1>4, SpriteArrivesKeeps, ChatArrivesKeeps
<1>5. CASE MinutePasses
  BY <1>5, MinutePassesKeeps
<1>6. CASE \E enabled \in BOOLEAN : SetEnabled(enabled)
  BY <1>6, SetEnabledKeeps
<1>7. CASE \E S \in SUBSET Displays : DisplaysChange(S)
  BY <1>7, DisplaysChangeKeeps
<1> QED
  BY <1>1, <1>2, <1>3, <1>4, <1>5, <1>6, <1>7 DEF PenguinNext

\* For any number of peers, displays and minutes, every window of the overlay
\* shows the same penguins, those who are online and were active lately,
\* looking as the panel knows them unless a refresh is queued
\* (penguin_overlay.cpp).
THEOREM PenguinThm == PenguinSpec => []PenguinInv
<1>1. PenguinIInv => PenguinInv
  <2> SUFFICES ASSUME PenguinIInv PROVE PenguinInv
    OBVIOUS
  <2> DEFINE o == penguinOverlay
  <2>1. /\ roster \in Rosters /\ looks \in [Fellows -> Looks] /\ IsOverlay(o)
        /\ o.shown = ActiveMembers(o, minutes) /\ Agrees(o, roster, looks)
    BY DEF PenguinIInv, UpToDate
  <2>2. PICK displays : windows = [d \in displays |-> Window(o, o.shown)]
    BY DEF PenguinIInv, UpToDate
  <2>3. o.shown \subseteq o.members
    BY <2>1, ActiveAreMembers
  <2> DEFINE painted == [p \in o.shown |-> o.looks[p]]
  <2>4. painted \in [o.shown -> Looks]
    BY <2>1, <2>3 DEF IsOverlay
  <2>5. Window(o, o.shown) = IF o.enabled /\ o.shown # {} THEN [open |-> TRUE, looks |-> painted]
                             ELSE NoWindow
    BY DEF Window
  <2>6. painted = [p \in ActiveMembers(o, minutes) |-> o.looks[p]]
    BY <2>1
  <2> HIDE DEF o, painted
  <2>7. [open |-> TRUE, looks |-> painted] # NoWindow
    BY DEF NoWindow
  <2>8. PenguinTypeOK
    BY <2>1, <2>2, <2>3, <2>4, <2>5 DEF o, PenguinTypeOK, Rosters, IsOverlay
  <2>9. OverlayShowsTheOnline
    BY <2>1, <2>2, <2>5, <2>6, <2>7 DEF o, OverlayShowsTheOnline, Agrees
  <2> QED BY <2>8, <2>9 DEF PenguinInv
<1> QED
  BY <1>1, PenguinStarts, PenguinStepKeeps, PTL DEF PenguinSpec
-----------------------------------------------------------------------------
(***************************************************************************)
(* Notifications.                                                          *)
(***************************************************************************)
\* The least-number principle, from the well-foundedness of < on the
\* naturals.
LEMMA LeastNumber ==
  ASSUME NEW T \in SUBSET Nat, T # {}
  PROVE  \E x \in T : \A y \in T : x <= y
<1> DEFINE R == OpToRel(<, Nat)
<1>1. IsWellFoundedOn(R, Nat)
  BY NatLessThanWellFounded
<1>2. R = {ss \in Nat \X Nat : ss[1] < ss[2]}
  BY DEF OpToRel
<1>3. \A x, y \in Nat : x < y => <<x, y>> \in R
  BY <1>2
<1> HIDE DEF R
<1>4. PICK x \in T : \A y \in T : ~ (<<y, x>> \in R)
  BY <1>1, WFMin
<1>5. ASSUME NEW y \in T
      PROVE  x <= y
  <2>1. ~ (y < x)
    BY <1>3, <1>4
  <2> QED
    BY <2>1
<1> QED
  BY <1>5

\* What Min chooses.
LEMMA MinIsLeast ==
  ASSUME NEW T \in SUBSET Nat, T # {}
  PROVE  Min(T) \in T /\ \A y \in T : Min(T) <= y
BY LeastNumber DEF Min

\* What Max chooses of two.
LEMMA Later ==
  ASSUME NEW a \in Int, NEW b \in Int
  PROVE  Max({a, b}) = IF a >= b THEN a ELSE b
<1> DEFINE m == IF a >= b THEN a ELSE b
<1>1. m \in {a, b} /\ \A y \in {a, b} : m >= y
  OBVIOUS
<1>2. \A x \in {a, b} : (\A y \in {a, b} : x >= y) => x = m
  OBVIOUS
<1> HIDE DEF m
<1> QED
  BY <1>1, <1>2 DEF Max, m

\* The settings of a channel.
Settings == [muted: BOOLEAN, mentionsOnly: BOOLEAN, suppressEveryone: BOOLEAN, activity: BOOLEAN]

\* The senders that are waiting each have a time.
IsTimed(f, times) == f = [s \in DOMAIN f |-> f[s]] /\ DOMAIN f \subseteq Senders
                     /\ \A s \in DOMAIN f : f[s] \in times

\* What the centre's variables hold.
NotificationsTyped ==
    /\ settings \in Settings /\ window \in [active: BOOLEAN, visible: BOOLEAN]
    /\ badge \in [unread: BOOLEAN, mentions: 0..MaxMentions]
    /\ IsTimed(lastShown, 0..MaxClock) /\ IsTimed(waiting, Times)
    /\ pacerTimer \in SUBSET Times /\ clock \in 0..MaxClock

\* What the notifier's variables hold: replies and ids are the D-Bus server's.
ScreenTyped ==
    /\ notified \in BOOLEAN /\ backend \in {"native", "freedesktop", "tray"}
    /\ bubbles \in SUBSET (Senders \X (0..MaxCopies))
    /\ unanswered \in SUBSET bubbles /\ showing \in SUBSET bubbles /\ overdue \in SUBSET bubbles
    /\ unanswered \cap showing = {}
    /\ backend # "freedesktop" => unanswered = {} /\ showing = {}

\* What can be taken back is known by its id, unless a reply is awaited; and
\* whatever a later reply will replace could not be taken back when it was time.
Recalled ==
    /\ backend = "native" => overdue = {}
    /\ backend = "freedesktop" => bubbles \subseteq overdue \cup showing \cup unanswered
    /\ \A b, c \in showing : b[1] = c[1] => b = c
    /\ \A b \in showing, u \in unanswered : b[1] = u[1] => b \in overdue
    /\ \A b, u \in unanswered : b[1] = u[1] /\ b # u /\ b[2] <= u[2] => b \in overdue
    /\ ~ notified => bubbles \subseteq overdue

\* The inductive invariant.
NotificationsIInv ==
    NotificationsTyped /\ ScreenTyped /\ Recalled /\ QuietWhenRead /\ WaitingIsArmed

\* The timer is armed for what waits, whether the clock or the first is later.
Armed(timer, due, now) == \E at \in timer : at <= now \/ \A s \in DOMAIN due : at <= due[s]

\* Every time at which something may be due is a natural number.
LEMMA TimesAreNaturals ==
  /\ Times \in SUBSET Nat /\ 0..MaxClock \in SUBSET Times
  /\ \A t \in 0..MaxClock : t + Cooldown \in Times
BY NotificationsAssumption DEF Times

\* Of those that wait one is due first.
LEMMA FirstDue ==
  ASSUME NEW due, IsTimed(due, Times), DOMAIN due # {}
  PROVE  /\ Min(Range(due)) \in Times /\ \E s \in DOMAIN due : due[s] = Min(Range(due))
         /\ \A s \in DOMAIN due : Min(Range(due)) <= due[s]
<1>1. Range(due) \in SUBSET Nat /\ Range(due) # {} /\ Range(due) \subseteq Times
  BY TimesAreNaturals DEF Range, IsTimed
<1>2. Min(Range(due)) \in Range(due) /\ \A y \in Range(due) : Min(Range(due)) <= y
  BY <1>1, MinIsLeast
<1> QED
  BY <1>1, <1>2 DEF Range

\* What the invariant says of the timer, without Max and Min.
LEMMA ArmedOtherwise ==
  ASSUME NEW timer \in SUBSET Times, NEW due, IsTimed(due, Times), DOMAIN due # {},
         NEW now \in 0..MaxClock
  PROVE  (\E at \in timer : at <= Max({now, Min(Range(due))})) <=> Armed(timer, due, now)
<1> DEFINE first == Min(Range(due))
<1>1. /\ first \in Nat /\ now \in Nat /\ \A s \in DOMAIN due : first <= due[s] /\ due[s] \in Nat
      /\ \E s \in DOMAIN due : due[s] = first
  BY FirstDue, TimesAreNaturals DEF IsTimed
<1>2. Max({now, first}) = IF now >= first THEN now ELSE first
  BY <1>1, Later
<1>3. \A at \in timer : at \in Nat
  BY TimesAreNaturals
<1> HIDE DEF first
<1>4. \A at \in timer : at <= Max({now, first}) <=> (at <= now \/ \A s \in DOMAIN due : at <= due[s])
  BY <1>1, <1>2, <1>3
<1> QED
  BY <1>4 DEF Armed, first

\* A timer that is started for the first that is due is armed for all that
\* wait.
LEMMA NextArmed ==
  ASSUME NEW due, IsTimed(due, Times), DOMAIN due # {}, NEW now \in 0..MaxClock
  PROVE  /\ {Max({now, Min(Range(due))})} \in SUBSET Times
         /\ Armed({Max({now, Min(Range(due))})}, due, now)
<1> DEFINE first == Min(Range(due))
           at == Max({now, first})
<1>1. /\ first \in Times /\ first \in Nat /\ now \in Nat /\ now \in Times
      /\ \A s \in DOMAIN due : first <= due[s] /\ due[s] \in Nat
  BY FirstDue, TimesAreNaturals DEF IsTimed
<1>2. at = IF now >= first THEN now ELSE first
  BY <1>1, Later
<1> HIDE DEF first, at
<1>3. at \in Times /\ (at <= now \/ \A s \in DOMAIN due : at <= due[s])
  BY <1>1, <1>2
<1> QED
  BY <1>3 DEF Armed, at, first

\* Nothing waits at first.
LEMMA NotificationsStart == NotificationsInit => NotificationsIInv
<1> SUFFICES ASSUME NotificationsInit PROVE NotificationsIInv
  OBVIOUS
<1>1. IsTimed(Empty, 0..MaxClock) /\ IsTimed(Empty, Times) /\ DOMAIN Empty = {}
  BY DEF IsTimed, Empty
<1>2. 0 \in 0..MaxClock /\ 0 \in 0..MaxMentions
  BY NotificationsAssumption
<1>3. NotificationsTyped
  BY <1>1, <1>2 DEF NotificationsInit, NotificationsTyped, Settings, NoBadge
<1>4. ScreenTyped /\ Recalled
  BY DEF NotificationsInit, ScreenTyped, Recalled
<1> QED
  BY <1>1, <1>3, <1>4 DEF NotificationsInit, NotificationsIInv, QuietWhenRead, WaitingIsArmed

\* Nothing is shown or taken back.
LEMMA ScreenAsIs ==
  ASSUME ScreenTyped, Recalled, UNCHANGED <<notified, screenVars>>
  PROVE  ScreenTyped' /\ Recalled'
BY DEF screenVars, ScreenTyped, Recalled

\* Everything shown is taken back, but for what could not be.
LEMMA Withdrawn ==
  ASSUME ScreenTyped, Recalled, Withdraw
  PROVE  /\ ScreenTyped' /\ Recalled' /\ badge' = NoBadge
         /\ bubbles' \subseteq overdue' /\ (backend' = "native" => bubbles' = {})
<1>1. badge' = NoBadge /\ notified' = FALSE
  BY DEF Withdraw
<1>2. CASE ~ notified
  <2>1. UNCHANGED <<notified, screenVars>>
    BY <1>1, <1>2 DEF Withdraw, ScreenTyped
  <2> QED
    BY <1>1, <1>2, <2>1, ScreenAsIs DEF Recalled, screenVars
<1>3. CASE notified
  <2>1. WithdrawAll /\ backend' = backend
    BY <1>3 DEF Withdraw, WithdrawAll
  <2>2. CASE backend = "native"
    <3>1. bubbles' = {} /\ UNCHANGED <<unanswered, showing, overdue>>
      BY <2>1, <2>2 DEF WithdrawAll
    <3> QED
      BY <1>1, <2>1, <2>2, <3>1 DEF ScreenTyped, Recalled
  <2>3. CASE backend = "freedesktop"
    <3>1. /\ bubbles' = bubbles \ showing /\ showing' = {} /\ unanswered' = unanswered
          /\ overdue' = (overdue \ showing) \cup unanswered
      BY <2>1, <2>3 DEF WithdrawAll, CloseFreedesktop
    <3>2. bubbles' \subseteq overdue'
      BY <2>3, <3>1 DEF Recalled
    <3>3. ScreenTyped'
      BY <1>1, <2>1, <2>3, <3>1 DEF ScreenTyped
    <3>4. Recalled'
      BY <2>1, <2>3, <3>1, <3>2 DEF Recalled
    <3> QED
      BY <1>1, <2>1, <2>3, <3>2, <3>3, <3>4
  <2>4. CASE backend = "tray"
    <3>1. overdue' = bubbles /\ UNCHANGED <<bubbles, unanswered, showing>>
      BY <2>1, <2>4 DEF WithdrawAll
    <3> QED
      BY <1>1, <2>1, <2>4, <3>1 DEF ScreenTyped, Recalled
  <2> QED
    BY <2>2, <2>3, <2>4 DEF ScreenTyped
<1> QED
  BY <1>2, <1>3 DEF ScreenTyped

\* A notification is shown for each of some senders.
LEMMA ShownAlso ==
  ASSUME NEW S \in SUBSET Senders, ScreenTyped, Recalled, Show(S)
  PROVE  /\ ScreenTyped' /\ Recalled'
         /\ S = {} => UNCHANGED <<notified, screenVars>>
<1>1. backend' = backend /\ notified' = (notified \/ S # {})
  BY DEF Show
<1>2. CASE backend # "freedesktop"
  <2>1. bubbles' = bubbles \cup (S \X {0}) /\ UNCHANGED <<unanswered, showing, overdue>>
    BY <1>2 DEF Show
  <2>2. 0 \in 0..MaxCopies
    BY NotificationsAssumption
  <2>3. ScreenTyped' /\ Recalled'
    BY <1>1, <1>2, <2>1, <2>2 DEF ScreenTyped, Recalled
  <2> QED
    BY <1>1, <2>1, <2>3 DEF screenVars, ScreenTyped
<1>3. CASE backend = "freedesktop"
  <2>1. PICK called \in SUBSET (S \ {b[1] : b \in showing}) :
          LET new == {<<s, CHOOSE n \in Unused(s) : TRUE>> : s \in called} IN
          /\ \A s \in called : Unused(s) # {}
          /\ bubbles' = bubbles \cup new
          /\ overdue' = overdue \cup Of(unanswered, called)
          /\ unanswered' = unanswered \cup new
          /\ UNCHANGED showing
    BY <1>3 DEF Show, ShowFreedesktop
  <2> DEFINE id(s) == CHOOSE n \in Unused(s) : TRUE
             new == {<<s, id(s)>> : s \in called}
  <2>2. /\ bubbles' = bubbles \cup new /\ unanswered' = unanswered \cup new
        /\ overdue' = overdue \cup Of(unanswered, called) /\ showing' = showing
    BY <2>1
  <2>3. \A s \in called : id(s) \in Unused(s)
    BY <2>1
  <2>4. \A s \in called : id(s) \in 1..MaxCopies /\ \A b \in bubbles : b[1] = s => b[2] < id(s)
    BY <2>3 DEF Unused, Of
  <2> HIDE DEF id
  <2>5. \A b \in bubbles : b[2] \in Nat
    BY NotificationsAssumption DEF ScreenTyped
  <2>6. new \in SUBSET (Senders \X (0..MaxCopies)) /\ new \cap bubbles = {}
    BY <2>4, <2>5, NotificationsAssumption
  <2>7. \A c \in new : /\ c[1] \in called /\ \A d \in new : d[1] = c[1] => d = c
                      /\ \A b \in bubbles : b[1] = c[1] => ~ (c[2] <= b[2])
    BY <2>4, <2>5, NotificationsAssumption
  <2> HIDE DEF new
  <2>8. Of(unanswered, called) = {b \in unanswered : b[1] \in called}
    BY DEF Of
  <2>9. ScreenTyped'
    BY <1>1, <1>3, <2>2, <2>6, <2>8 DEF ScreenTyped
  <2>10. \A b \in showing', u \in unanswered' : b[1] = u[1] => b \in overdue'
    BY <2>1, <2>2, <2>7 DEF Recalled
  <2>11. \A b, u \in unanswered' : b[1] = u[1] /\ b # u /\ b[2] <= u[2] => b \in overdue'
    BY <2>2, <2>7, <2>8 DEF Recalled, ScreenTyped
  <2>12. ~ notified' => called = {} /\ ~ notified
    BY <1>1, <2>1
  <2>13. called = {} => new = {}
    BY <2>7
  <2>14. Recalled'
    BY <1>1, <1>3, <2>2, <2>10, <2>11, <2>12, <2>13 DEF Recalled
  <2>15. S = {} => UNCHANGED <<notified, screenVars>>
    BY <1>1, <2>1, <2>2, <2>8, <2>13 DEF screenVars, ScreenTyped
  <2> QED
    BY <2>9, <2>14, <2>15
<1> QED
  BY <1>2, <1>3

\* Nothing waits any more.
LEMMA Dropped ==
  ASSUME DropWaiting
  PROVE  /\ IsTimed(lastShown', 0..MaxClock) /\ IsTimed(waiting', Times)
         /\ pacerTimer' \in SUBSET Times /\ DOMAIN waiting' = {}
BY DEF DropWaiting, IsTimed, Empty

\* The settings change; what waits may have to be dropped.
LEMMA SetSettingsKeeps ==
  ASSUME NEW changed \in Settings, NotificationsIInv, SetSettings(changed)
  PROVE  NotificationsIInv'
<1>1. settings' = changed /\ DropWaiting /\ UNCHANGED <<window, clock>>
      /\ IF changed.muted THEN Withdraw ELSE UNCHANGED <<badge, notified, screenVars>>
  BY DEF SetSettings
<1>2. /\ IsTimed(lastShown', 0..MaxClock) /\ IsTimed(waiting', Times)
      /\ pacerTimer' \in SUBSET Times /\ DOMAIN waiting' = {}
  BY <1>1, Dropped
<1>3. /\ badge' \in [unread: BOOLEAN, mentions: 0..MaxMentions] /\ ScreenTyped' /\ Recalled'
      /\ changed.muted => /\ badge' = NoBadge /\ bubbles' \subseteq overdue'
                          /\ backend' = "native" => bubbles' = {}
  <2>1. CASE changed.muted
    <3>1. NoBadge \in [unread: BOOLEAN, mentions: 0..MaxMentions]
      BY NotificationsAssumption DEF NoBadge
    <3> QED BY <1>1, <2>1, <3>1, Withdrawn DEF NotificationsIInv
  <2>2. CASE ~ changed.muted
    BY <1>1, <2>2, ScreenAsIs DEF NotificationsIInv, NotificationsTyped
  <2> QED BY <2>1, <2>2
<1>4. NotificationsTyped'
  BY <1>1, <1>2, <1>3 DEF NotificationsIInv, NotificationsTyped
<1>5. InView' = InView
  BY <1>1 DEF InView
<1>6. QuietWhenRead'
  BY <1>1, <1>2, <1>3, <1>5 DEF NotificationsIInv, QuietWhenRead, screenVars
<1> QED
  BY <1>2, <1>3, <1>4, <1>6 DEF NotificationsIInv, WaitingIsArmed

\* The window is shown, hidden, or comes to the front.
LEMMA WindowChangesKeeps == NotificationsIInv /\ WindowChanges => NotificationsIInv'
<1> SUFFICES ASSUME NotificationsIInv, WindowChanges PROVE NotificationsIInv'
  OBVIOUS
<1>1. window' \in [active: BOOLEAN, visible: BOOLEAN] /\ UNCHANGED <<settings, clock>>
  BY DEF WindowChanges
<1>2. CASE InView'
  <2>1. DropWaiting /\ Withdraw
    BY <1>2 DEF WindowChanges
  <2>2. /\ IsTimed(lastShown', 0..MaxClock) /\ IsTimed(waiting', Times)
        /\ pacerTimer' \in SUBSET Times /\ DOMAIN waiting' = {}
    BY <2>1, Dropped
  <2>3. /\ ScreenTyped' /\ Recalled' /\ badge' = NoBadge
        /\ bubbles' \subseteq overdue' /\ (backend' = "native" => bubbles' = {})
    BY <2>1, Withdrawn DEF NotificationsIInv
  <2>4. badge' \in [unread: BOOLEAN, mentions: 0..MaxMentions]
    BY <2>3, NotificationsAssumption DEF NoBadge
  <2>5. NotificationsTyped'
    BY <1>1, <2>2, <2>4 DEF NotificationsIInv, NotificationsTyped
  <2> QED
    BY <2>2, <2>3, <2>5 DEF NotificationsIInv, WaitingIsArmed, QuietWhenRead
<1>3. CASE ~ InView'
  <2>1. UNCHANGED <<badge, lastShown, waiting, pacerTimer, notified, screenVars>>
    BY <1>3 DEF WindowChanges
  <2>2. ScreenTyped' /\ Recalled'
    BY <2>1, ScreenAsIs DEF NotificationsIInv
  <2>3. NotificationsTyped' /\ WaitingIsArmed'
    BY <1>1, <2>1 DEF NotificationsIInv, NotificationsTyped, WaitingIsArmed
  <2>4. QuietWhenRead'
    BY <1>1, <1>3, <2>1 DEF NotificationsIInv, QuietWhenRead, screenVars
  <2> QED
    BY <2>2, <2>3, <2>4 DEF NotificationsIInv
<1> QED BY <1>2, <1>3

\* The pacer shows a notification, or keeps it for later and is armed for it.
LEMMA Notifies ==
  ASSUME NotificationsIInv, NEW s \in Senders, Notify(s), clock' = clock
  PROVE  /\ IsTimed(lastShown', 0..MaxClock) /\ IsTimed(waiting', Times)
         /\ pacerTimer' \in SUBSET Times /\ ScreenTyped' /\ Recalled'
         /\ WaitingIsArmed'
<1>1. /\ IsTimed(lastShown, 0..MaxClock) /\ IsTimed(waiting, Times) /\ WaitingIsArmed
      /\ pacerTimer \in SUBSET Times /\ ScreenTyped /\ Recalled /\ clock \in 0..MaxClock
  BY DEF NotificationsIInv, NotificationsTyped
<1>2. CASE s \in DOMAIN lastShown /\ clock < lastShown[s] + Cooldown
  <2>1. /\ waiting' = [t \in DOMAIN waiting \cup {s} |->
                            IF t = s THEN lastShown[s] + Cooldown ELSE waiting[t]]
        /\ Schedule(waiting') /\ lastShown' = lastShown /\ UNCHANGED <<notified, screenVars>>
    BY <1>2 DEF Notify
  <2>2. lastShown[s] + Cooldown \in Times
    BY <1>1, <1>2, TimesAreNaturals DEF IsTimed
  <2>3. IsTimed(waiting', Times) /\ DOMAIN waiting' # {}
    BY <1>1, <2>1, <2>2 DEF IsTimed
  <2>4. pacerTimer' = {Max({clock, Min(Range(waiting'))})}
    BY <2>1, <2>3 DEF Schedule
  <2>5. PICK due : due = waiting'
    OBVIOUS
  <2>6. pacerTimer' \in SUBSET Times /\ Armed(pacerTimer', due, clock)
    BY <1>1, <2>3, <2>4, <2>5, NextArmed
  <2>7. \E at \in pacerTimer' : at <= Max({clock, Min(Range(due))})
    BY <1>1, <2>3, <2>5, <2>6, ArmedOtherwise
  <2>8. ScreenTyped' /\ Recalled'
    BY <1>1, <2>1, ScreenAsIs
  <2> QED
    BY <1>1, <2>1, <2>3, <2>5, <2>6, <2>7, <2>8 DEF WaitingIsArmed
<1>3. CASE ~ (s \in DOMAIN lastShown /\ clock < lastShown[s] + Cooldown)
  <2>1. /\ lastShown' = [t \in DOMAIN lastShown \cup {s} |->
                              IF t = s THEN clock ELSE lastShown[t]]
        /\ waiting' = Restrict(waiting, DOMAIN waiting \ {s})
        /\ Show({s})
        /\ UNCHANGED pacerTimer
    BY <1>3 DEF Notify
  <2>2. IsTimed(lastShown', 0..MaxClock)
    BY <1>1, <2>1 DEF IsTimed
  <2>3. /\ IsTimed(waiting', Times) /\ DOMAIN waiting' \subseteq DOMAIN waiting
        /\ \A t \in DOMAIN waiting' : waiting'[t] = waiting[t]
    BY <1>1, <2>1 DEF IsTimed, Restrict
  <2>4. WaitingIsArmed'
    <3> SUFFICES ASSUME DOMAIN waiting' # {}
                 PROVE  \E at \in pacerTimer' : at <= Max({clock', Min(Range(waiting'))})
      BY DEF WaitingIsArmed
    <3>1. DOMAIN waiting # {} /\ \E at \in pacerTimer : at <= Max({clock, Min(Range(waiting))})
      BY <1>1, <2>3 DEF WaitingIsArmed
    <3>2. Armed(pacerTimer, waiting, clock)
      BY <1>1, <3>1, ArmedOtherwise
    <3>3. PICK due : due = waiting'
      OBVIOUS
    <3>4. Armed(pacerTimer, due, clock)
      BY <2>3, <3>2, <3>3 DEF Armed
    <3>5. \E at \in pacerTimer : at <= Max({clock, Min(Range(due))})
      BY <1>1, <2>3, <3>3, <3>4, ArmedOtherwise
    <3> QED
      BY <2>1, <3>3, <3>5
  <2>5. ScreenTyped' /\ Recalled'
    BY <1>1, <2>1, ShownAlso
  <2> QED
    BY <1>1, <2>1, <2>2, <2>3, <2>4, <2>5
<1> QED BY <1>2, <1>3

\* A message arrives.
LEMMA MessageReceivedKeeps ==
  ASSUME NotificationsIInv, NEW s \in Senders, NEW mentioned, MessageReceived(s, mentioned)
  PROVE  NotificationsIInv'
<1>1. UNCHANGED <<settings, window, clock>> /\ ~ settings.muted /\ ~ InView /\ badge'.mentions <= MaxMentions
  BY DEF MessageReceived
<1>2. badge' \in [unread: BOOLEAN, mentions: 0..MaxMentions]
  BY NotificationsAssumption DEF MessageReceived, NotificationsIInv, NotificationsTyped
<1>3. Notify(s) \/ UNCHANGED <<lastShown, waiting, pacerTimer, notified, screenVars>>
  BY DEF MessageReceived
<1>4. /\ IsTimed(lastShown', 0..MaxClock) /\ IsTimed(waiting', Times)
      /\ pacerTimer' \in SUBSET Times /\ ScreenTyped' /\ Recalled'
      /\ WaitingIsArmed'
  <2>1. CASE Notify(s)
    BY <1>1, <2>1, Notifies
  <2>2. CASE UNCHANGED <<lastShown, waiting, pacerTimer, notified, screenVars>>
    <3>1. ScreenTyped' /\ Recalled'
      BY <2>2, ScreenAsIs DEF NotificationsIInv
    <3> QED
      BY <1>1, <2>2, <3>1 DEF NotificationsIInv, NotificationsTyped, WaitingIsArmed
  <2> QED BY <1>3, <2>1, <2>2
<1>5. NotificationsTyped'
  BY <1>1, <1>2, <1>4 DEF NotificationsIInv, NotificationsTyped
<1>6. QuietWhenRead'
  BY <1>1 DEF QuietWhenRead, InView
<1> QED
  BY <1>4, <1>5, <1>6 DEF NotificationsIInv

\* Something else happens that notifications tell of.
LEMMA ActivityOccurredKeeps ==
  ASSUME NotificationsIInv, NEW s \in Senders, ActivityOccurred(s)
  PROVE  NotificationsIInv'
<1>1. UNCHANGED <<settings, window, badge, clock>> /\ ~ settings.muted /\ ~ InView /\ Notify(s)
  BY DEF ActivityOccurred
<1>2. /\ IsTimed(lastShown', 0..MaxClock) /\ IsTimed(waiting', Times)
      /\ pacerTimer' \in SUBSET Times /\ ScreenTyped' /\ Recalled'
      /\ WaitingIsArmed'
  BY <1>1, Notifies
<1>3. NotificationsTyped'
  BY <1>1, <1>2 DEF NotificationsIInv, NotificationsTyped
<1>4. QuietWhenRead'
  BY <1>1 DEF QuietWhenRead, InView
<1> QED
  BY <1>2, <1>3, <1>4 DEF NotificationsIInv

\* The pacer's timer fires: what is due is shown, and the timer is started
\* for the rest.
LEMMA PacerTimerKeeps == NotificationsIInv /\ PacerTimerFires => NotificationsIInv'
<1> SUFFICES ASSUME NotificationsIInv, PacerTimerFires PROVE NotificationsIInv'
  OBVIOUS
<1> DEFINE due == {s \in DOMAIN waiting : waiting[s] <= clock}
<1>1. /\ Show(due)
      /\ lastShown' = [s \in DOMAIN lastShown \cup due |->
                            IF s \in due THEN clock ELSE lastShown[s]]
      /\ waiting' = Restrict(waiting, DOMAIN waiting \ due)
      /\ pacerTimer' = IF DOMAIN waiting' = {} THEN {}
                       ELSE {Max({clock, Min(Range(waiting'))})}
      /\ UNCHANGED <<settings, window, badge, clock>>
  BY DEF PacerTimerFires
<1>2. /\ IsTimed(lastShown, 0..MaxClock) /\ IsTimed(waiting, Times)
      /\ ScreenTyped /\ Recalled /\ clock \in 0..MaxClock
  BY DEF NotificationsIInv, NotificationsTyped
<1>3. due \subseteq DOMAIN waiting
  OBVIOUS
<1> HIDE DEF due
<1>4. IsTimed(lastShown', 0..MaxClock)
  BY <1>1, <1>2, <1>3 DEF IsTimed
<1>5. IsTimed(waiting', Times) /\ DOMAIN waiting' \subseteq DOMAIN waiting
  BY <1>1, <1>2 DEF IsTimed, Restrict
<1>6. /\ ScreenTyped' /\ Recalled'
      /\ due = {} => UNCHANGED <<notified, screenVars>>
  <2>1. due \in SUBSET Senders
    BY <1>2, <1>3 DEF IsTimed
  <2> QED
    BY <1>1, <1>2, <2>1, ShownAlso
<1>7. pacerTimer' \in SUBSET Times /\ WaitingIsArmed'
  <2>1. CASE DOMAIN waiting' = {}
    BY <1>1, <2>1 DEF WaitingIsArmed
  <2>2. CASE DOMAIN waiting' # {}
    <3>1. PICK left : left = waiting'
      OBVIOUS
    <3>2. pacerTimer' \in SUBSET Times /\ Armed(pacerTimer', left, clock)
      BY <1>1, <1>2, <1>5, <2>2, <3>1, NextArmed
    <3>3. \E at \in pacerTimer' : at <= Max({clock, Min(Range(left))})
      BY <1>2, <1>5, <2>2, <3>1, <3>2, ArmedOtherwise
    <3> QED
      BY <1>1, <3>1, <3>2, <3>3 DEF WaitingIsArmed
  <2> QED BY <2>1, <2>2
<1>8. NotificationsTyped'
  BY <1>1, <1>2, <1>4, <1>5, <1>7 DEF NotificationsIInv, NotificationsTyped
<1>9. QuietWhenRead'
  <2> SUFFICES ASSUME settings.muted \/ InView
               PROVE  /\ badge = NoBadge /\ DOMAIN waiting' = {}
                      /\ bubbles' \subseteq overdue'
                      /\ backend' = "native" => bubbles' = {}
    BY <1>1 DEF QuietWhenRead, InView
  <2>1. /\ badge = NoBadge /\ DOMAIN waiting = {} /\ bubbles \subseteq overdue
        /\ backend = "native" => bubbles = {}
    BY DEF NotificationsIInv, QuietWhenRead
  <2>2. UNCHANGED screenVars
    BY <1>3, <1>6, <2>1
  <2> QED
    BY <1>5, <2>1, <2>2 DEF screenVars
<1> QED
  BY <1>6, <1>7, <1>8, <1>9 DEF NotificationsIInv

\* Time passes, never past a timer that is due.
LEMMA ClockKeeps == NotificationsIInv /\ ClockAdvances => NotificationsIInv'
<1> SUFFICES ASSUME NotificationsIInv, ClockAdvances PROVE NotificationsIInv'
  OBVIOUS
<1>1. /\ UNCHANGED <<settings, window, badge, lastShown, waiting, pacerTimer, notified, screenVars>>
      /\ clock \in 0..MaxClock /\ clock' = clock + 1 /\ clock' \in 0..MaxClock
      /\ IsTimed(waiting, Times) /\ pacerTimer \in SUBSET Times
  BY NotificationsAssumption DEF ClockAdvances, NotificationsIInv, NotificationsTyped
<1>2. WaitingIsArmed'
  <2> SUFFICES ASSUME DOMAIN waiting # {}
               PROVE  \E at \in pacerTimer : at <= Max({clock', Min(Range(waiting))})
    BY <1>1 DEF WaitingIsArmed
  <2>1. \E at \in pacerTimer : at <= Max({clock, Min(Range(waiting))})
    BY DEF NotificationsIInv, WaitingIsArmed
  <2>2. PICK now : now = clock'
    OBVIOUS
  <2>3. Armed(pacerTimer, waiting, clock)
    BY <1>1, <2>1, ArmedOtherwise
  <2>4. \A at \in pacerTimer : at \in Nat
    BY <1>1, TimesAreNaturals
  <2>5. Armed(pacerTimer, waiting, now)
    BY <1>1, <2>2, <2>3, <2>4 DEF Armed
  <2>6. \E at \in pacerTimer : at <= Max({now, Min(Range(waiting))})
    BY <1>1, <2>2, <2>5, ArmedOtherwise
  <2> QED BY <2>2, <2>6
<1>3. NotificationsTyped' /\ QuietWhenRead'
  BY <1>1 DEF NotificationsIInv, NotificationsTyped, QuietWhenRead, InView, screenVars
<1>4. ScreenTyped' /\ Recalled'
  BY <1>1, ScreenAsIs DEF NotificationsIInv
<1> QED
  BY <1>2, <1>3, <1>4 DEF NotificationsIInv

\* What the D-Bus server says, and its absence, change neither the centre nor
\* what is shown but could not be taken back.
LEMMA ServerKeeps ==
  ASSUME NotificationsIInv, Answered \/ NotificationClosed \/ Unavailable
  PROVE  NotificationsIInv'
<1>1. UNCHANGED <<settings, window, badge, lastShown, waiting, pacerTimer, notified, clock>>
  BY DEF Answered, NotificationClosed, Unavailable
<1>2. NotificationsTyped' /\ WaitingIsArmed'
  BY <1>1 DEF NotificationsIInv, NotificationsTyped, WaitingIsArmed
<1>3. InView' = InView
  BY <1>1 DEF InView
<1>4. CASE Answered
  <2>1. PICK b \in unanswered :
          /\ \A u \in Of(unanswered, {b[1]}) : b[2] <= u[2]
          /\ unanswered' = unanswered \ {b}
          /\ showing' = (showing \ Of(showing, {b[1]})) \cup {b}
          /\ UNCHANGED <<backend, bubbles, overdue>>
    BY <1>4 DEF Answered
  <2>2. \A u \in unanswered : u[1] = b[1] => b[2] <= u[2]
    BY <2>1 DEF Of
  <2>3. showing' = {c \in showing : c[1] # b[1]} \cup {b}
    BY <2>1 DEF Of
  <2>4. ScreenTyped'
    BY <1>1, <2>1, <2>3 DEF NotificationsIInv, ScreenTyped
  <2>5. \A c \in showing : c[1] = b[1] => c \in overdue
    BY <2>1 DEF NotificationsIInv, Recalled
  <2>6. \A u \in unanswered' : u[1] = b[1] => b \in overdue
    BY <2>1, <2>2 DEF NotificationsIInv, Recalled
  <2>7. backend' = "freedesktop" => bubbles' \subseteq overdue' \cup showing' \cup unanswered'
    BY <2>1, <2>3, <2>5 DEF NotificationsIInv, Recalled
  <2>8. \A c, d \in showing' : c[1] = d[1] => c = d
    BY <2>3 DEF NotificationsIInv, Recalled
  <2>9. \A c \in showing', u \in unanswered' : c[1] = u[1] => c \in overdue'
    BY <2>1, <2>3, <2>6 DEF NotificationsIInv, Recalled
  <2>10. Recalled'
    BY <1>1, <2>1, <2>7, <2>8, <2>9 DEF NotificationsIInv, Recalled
  <2>11. QuietWhenRead'
    BY <1>1, <1>3, <2>1 DEF NotificationsIInv, QuietWhenRead
  <2> QED
    BY <1>2, <2>4, <2>10, <2>11 DEF NotificationsIInv
<1>5. CASE NotificationClosed
  <2>1. PICK b \in bubbles \ unanswered :
          /\ bubbles' = bubbles \ {b} /\ showing' = showing \ {b} /\ overdue' = overdue \ {b}
          /\ UNCHANGED <<backend, unanswered>>
    BY <1>5 DEF NotificationClosed
  <2>2. ScreenTyped'
    BY <1>1, <2>1 DEF NotificationsIInv, ScreenTyped
  <2>3. Recalled'
    BY <1>1, <2>1 DEF NotificationsIInv, Recalled
  <2>4. QuietWhenRead'
    BY <1>1, <1>3, <2>1 DEF NotificationsIInv, QuietWhenRead
  <2> QED
    BY <1>2, <2>2, <2>3, <2>4 DEF NotificationsIInv
<1>6. CASE Unavailable
  <2>1. /\ backend' = "tray" /\ backend = "freedesktop" /\ unanswered' = {} /\ showing' = {}
        /\ UNCHANGED <<bubbles, overdue>>
    BY <1>6 DEF Unavailable
  <2>2. ScreenTyped' /\ Recalled'
    BY <1>1, <2>1 DEF NotificationsIInv, ScreenTyped, Recalled
  <2>3. QuietWhenRead'
    BY <1>1, <1>3, <2>1 DEF NotificationsIInv, QuietWhenRead
  <2> QED
    BY <1>2, <2>2, <2>3 DEF NotificationsIInv
<1> QED
  BY <1>4, <1>5, <1>6

\* Every step keeps the invariant.
LEMMA NotificationsStepKeeps ==
  NotificationsIInv /\ [NotificationsNext]_notificationVars => NotificationsIInv'
<1> SUFFICES ASSUME NotificationsIInv, [NotificationsNext]_notificationVars PROVE NotificationsIInv'
  OBVIOUS
<1>1. CASE UNCHANGED notificationVars
  <2>1. ScreenTyped' /\ Recalled'
    BY <1>1, ScreenAsIs DEF notificationVars, screenVars, NotificationsIInv
  <2> QED
    BY <1>1, <2>1 DEF notificationVars, NotificationsIInv, NotificationsTyped, QuietWhenRead,
       WaitingIsArmed, InView
<1>2. CASE \E changed \in Settings : SetSettings(changed)
  BY <1>2, SetSettingsKeeps
<1>3. CASE WindowChanges \/ PacerTimerFires \/ ClockAdvances
  BY <1>3, WindowChangesKeeps, PacerTimerKeeps, ClockKeeps
<1>4. CASE \E s \in Senders, m \in {"No", "ByName", "ViaEveryone"} : MessageReceived(s, m)
  BY <1>4, MessageReceivedKeeps
<1>5. CASE \E s \in Senders : ActivityOccurred(s)
  BY <1>5, ActivityOccurredKeeps
<1>6. CASE Answered \/ NotificationClosed \/ Unavailable
  BY <1>6, ServerKeeps
<1> QED
  BY <1>1, <1>2, <1>3, <1>4, <1>5, <1>6 DEF NotificationsNext, Settings

\* For any number of senders and any order of messages, settings, windows,
\* timers and replies: while muted or in view there is no badge and nothing
\* waits, and no notification stays that the system could have taken back when it
\* had to; whatever waits has a timer that is not later than it is due
\* (notification_center.cpp, notification_rules.cpp, desktop_notifier.cpp,
\* freedesktop_notifications.cpp).
THEOREM NotificationsThm == NotificationsSpec => []NotificationsInv
<1>1. NotificationsIInv => NotificationsInv
  BY DEF NotificationsIInv, NotificationsTyped, ScreenTyped, Recalled, NotificationsInv,
         NotificationsTypeOK, IsTimed
<1> QED
  BY <1>1, NotificationsStart, NotificationsStepKeeps, PTL DEF NotificationsSpec
-----------------------------------------------------------------------------
(***************************************************************************)
(* The stage.                                                              *)
(***************************************************************************)
\* The tile that each share has, if any; tools are drawn with on shares that
\* are watched.
Tiles == [Shares -> 0..MaxTiles]
Shownings == {h \in [watched: SUBSET Shares, tools: SUBSET Shares] : h.tools \subseteq h.watched}
Stages == [focused: Shares \cup {Nobody}, full: Shares \cup {Nobody}, closing: BOOLEAN,
           orphan: BOOLEAN, escape: BOOLEAN]
Chats == [watching: SUBSET Theirs, open: BOOLEAN, pip: Shares \cup {Nobody},
          drawing: 0..MaxTiles, dismissed: Shares \cup {Nobody}]

\* What the variables hold.
StageTyped ==
    /\ shareTiles \in Tiles /\ shown \in Shownings /\ stage \in Stages /\ chat \in Chats
    /\ made \in 0..MaxTiles

\* g refers only to shares that are there and watched.
Shows(g, h, all) ==
    /\ g.focused # Nobody => all[g.focused] # 0
    /\ g.full # Nobody => g.full \in h.watched
    /\ (g.closing => g.full # Nobody)
\* Escape is taken exactly while it ends something.
Ends(g, h) == g.escape = Escapable(g.full, h.tools)
\* The small picture.
Pictures(c, all) ==
    c.pip # Nobody => ~ c.open /\ all[c.pip] # 0 /\ c.drawing = all[c.pip]

\* The inductive invariant: nothing watched, in focus, in full screen or in
\* the small picture is a share that has ended, and Escape is taken exactly
\* while it ends something. StageInv follows.
StageIInv ==
    /\ StageTyped
    /\ \A s \in shown.watched : shareTiles[s] # 0
    /\ Shows(stage, shown, shareTiles) /\ Ends(stage, shown)
    /\ Pictures(chat, shareTiles)

\* The shares are those of others and one's own, and none is called Nobody.
LEMMA NobodyShares == Nobody \notin Shares /\ Mine \in Shares /\ Theirs \subseteq Shares /\ Mine \notin Theirs
BY StageAssumption DEF Shares

\* refresh_escape changes only whether Escape is taken.
LEMMA EscapeFields ==
  ASSUME NEW g \in Stages, NEW T \in SUBSET Shares
  PROVE  /\ EscapeRefreshed(g, T) \in Stages
         /\ EscapeRefreshed(g, T).focused = g.focused
         /\ EscapeRefreshed(g, T).full = g.full
         /\ EscapeRefreshed(g, T).closing = g.closing
         /\ EscapeRefreshed(g, T).escape = Escapable(g.full, T)
<1>1. Escapable(g.full, T) \in BOOLEAN
  BY DEF Escapable
<1> QED
  BY <1>1 DEF EscapeRefreshed, Stages

\* exit_fullscreen ends the full screen, and with it a close that waited for
\* it.
LEMMA Exited ==
  ASSUME NEW g \in Stages
  PROVE  /\ ExitFullscreen(g) \in Stages
         /\ ExitFullscreen(g).focused = g.focused
         /\ ExitFullscreen(g).full = Nobody
         /\ (g.closing => g.full # Nobody) => ~ ExitFullscreen(g).closing
BY DEF ExitFullscreen, Stages

\* The relayout drops a focus whose share has no tile, and nothing else.
LEMMA RelaidFields ==
  ASSUME NEW g \in Stages, NEW all \in Tiles
  PROVE  /\ Relaid(g, all) \in Stages
         /\ Relaid(g, all).focused # Nobody => all[Relaid(g, all).focused] # 0
         /\ Relaid(g, all).full = g.full
         /\ Relaid(g, all).closing = g.closing
         /\ Relaid(g, all).escape = g.escape
BY NobodyShares DEF Relaid, Stages

\* refresh_pip leaves a small picture of a share that is there, or none,
\* whatever chat it was called with: a picture of a tile that was kept, or of
\* none.
LEMMA PipRefreshed ==
  ASSUME NEW old \in Tiles, NEW all \in Tiles, NEW c \in Chats,
         Pictures([c EXCEPT !.open = FALSE], old),
         c.pip # Nobody /\ all[c.pip] # 0 => all[c.pip] = old[c.pip],
         RefreshPip(all, c)
  PROVE  /\ chat' \in Chats /\ Pictures(chat', all)
         /\ chat'.watching = c.watching
<1>1. PICK peer \in Candidates(all, c) :
        LET dismissed == IF peer = c.dismissed THEN c.dismissed ELSE Nobody
            show == ~ c.open /\ peer # Nobody /\ peer # dismissed
        IN  chat' = [c EXCEPT !.dismissed = dismissed, !.pip = IF show THEN peer ELSE Nobody,
                              !.drawing = IF show /\ peer # c.pip THEN all[peer] ELSE @]
  BY DEF RefreshPip
<1> DEFINE dismissed == IF peer = c.dismissed THEN c.dismissed ELSE Nobody
           show == ~ c.open /\ peer # Nobody /\ peer # dismissed
           pip == IF show THEN peer ELSE Nobody
           tile == IF show /\ peer # c.pip THEN all[peer] ELSE c.drawing
<1>2. peer \in Shares \cup {Nobody} /\ (peer # Nobody => all[peer] # 0)
  BY NobodyShares DEF Candidates, Chats
<1>3. /\ dismissed \in Shares \cup {Nobody} /\ pip \in Shares \cup {Nobody}
      /\ tile \in 0..MaxTiles /\ show \in BOOLEAN
  BY <1>2 DEF Chats, Tiles
<1>4. chat' = [c EXCEPT !.dismissed = dismissed, !.pip = pip, !.drawing = tile]
  BY <1>1 DEF Chats
<1>5. pip # Nobody => ~ c.open /\ all[pip] # 0 /\ tile = all[pip]
  <2> SUFFICES ASSUME pip # Nobody PROVE ~ c.open /\ all[pip] # 0 /\ tile = all[pip]
    OBVIOUS
  <2>1. show /\ pip = peer /\ peer # Nobody /\ ~ c.open
    OBVIOUS
  <2>2. CASE peer = c.pip
    <3>1. c.drawing = old[c.pip]
      BY <2>1, <2>2 DEF Pictures, Chats
    <3> QED BY <1>2, <2>1, <2>2, <3>1
  <2>3. CASE peer # c.pip
    BY <1>2, <2>1, <2>3
  <2> QED BY <2>2, <2>3
<1> HIDE DEF dismissed, show, pip, tile
<1>6. /\ chat' \in Chats /\ chat'.pip = pip /\ chat'.drawing = tile /\ chat'.open = c.open
      /\ chat'.watching = c.watching
  BY <1>3, <1>4 DEF Chats
<1> QED
  BY <1>5, <1>6 DEF Pictures

\* No share, no window, no picture at first.
LEMMA StageStarts == StageInit => StageIInv
<1> SUFFICES ASSUME StageInit PROVE StageIInv
  OBVIOUS
<1>1. 0 \in 0..MaxTiles
  BY StageAssumption
<1>2. shareTiles \in Tiles
  BY <1>1 DEF StageInit, Tiles
<1>3. shown \in Shownings /\ stage \in Stages /\ chat \in Chats /\ made \in 0..MaxTiles
  BY <1>1 DEF StageInit, Shownings, Stages, Chats
<1>4. Shows(stage, shown, shareTiles) /\ Ends(stage, shown) /\ Pictures(chat, shareTiles)
  BY DEF StageInit, Shows, Ends, Pictures, Escapable
<1> QED
  BY <1>2, <1>3, <1>4 DEF StageIInv, StageTyped, StageInit

\* A share begins, perhaps the next one of a device whose last has just
\* ended.
LEMMA StreamStartsKeeps ==
  ASSUME NEW s \in Shares, StageIInv, StreamStarts(s)
  PROVE  StageIInv'
<1>0. /\ shareTiles \in Tiles /\ shown \in Shownings /\ stage \in Stages /\ chat \in Chats
      /\ made \in 0..MaxTiles
  BY DEF StageIInv, StageTyped
<1>1. made' \in 0..MaxTiles /\ made + 1 \in 0..MaxTiles /\ made + 1 # 0
  BY <1>0, StageAssumption DEF StreamStarts
<1>2. shareTiles' = [shareTiles EXCEPT ![s] = made + 1] /\ shareTiles[s] = 0
  BY DEF StreamStarts
<1>3. /\ shareTiles' \in Tiles /\ shareTiles'[s] # 0
      /\ \A t \in Shares \ {s} : shareTiles'[t] = shareTiles[t]
      /\ \A t \in Shares : shareTiles[t] # 0 => shareTiles'[t] = shareTiles[t]
  BY <1>0, <1>1, <1>2 DEF Tiles
<1>4. /\ shown' \in Shownings /\ shown'.tools = shown.tools /\ shown.watched \subseteq shown'.watched
      /\ shown'.watched \subseteq shown.watched \cup {s}
  BY <1>0 DEF StreamStarts, Shownings
<1> DEFINE g == IF s \in chat.watching THEN [stage EXCEPT !.focused = s] ELSE stage
<1>5. /\ g \in Stages /\ g.full = stage.full /\ g.closing = stage.closing
      /\ g.focused \in {stage.focused, s}
  BY <1>0 DEF Stages
<1>6. stage' = EscapeRefreshed(g, shown.tools)
  BY DEF StreamStarts
<1> HIDE DEF g
<1>7. shown.tools \in SUBSET Shares
  BY <1>0 DEF Shownings
<1>8. /\ stage' \in Stages /\ stage'.focused = g.focused /\ stage'.full = g.full
      /\ stage'.closing = g.closing /\ stage'.escape = Escapable(g.full, shown.tools)
  BY <1>5, <1>6, <1>7, EscapeFields
<1>9. chat' \in Chats /\ Pictures(chat', shareTiles')
  <2>1. Pictures([chat EXCEPT !.open = FALSE], shareTiles)
    BY <1>0 DEF StageIInv, Pictures, Chats
  <2>2. chat.pip # Nobody => shareTiles'[chat.pip] = shareTiles[chat.pip]
    BY <1>0, <1>3 DEF StageIInv, Pictures, Chats
  <2>3. RefreshPip(shareTiles', chat)
    BY DEF StreamStarts
  <2> QED
    BY <1>0, <1>3, <2>1, <2>2, <2>3, PipRefreshed
<1>10. Shows(stage', shown', shareTiles') /\ Ends(stage', shown')
  BY <1>0, <1>3, <1>4, <1>5, <1>8 DEF StageIInv, Shows, Ends, Stages
<1>11. \A t \in shown'.watched : shareTiles'[t] # 0
  BY <1>0, <1>3, <1>4 DEF StageIInv, Shownings
<1> QED
  BY <1>1, <1>3, <1>4, <1>8, <1>9, <1>10, <1>11 DEF StageIInv, StageTyped

\* A share ends: its tile, its focus, its full screen, its tool and its
\* picture go with it.
LEMMA StreamEndsKeeps ==
  ASSUME NEW s \in Shares, StageIInv, StreamEnds(s)
  PROVE  StageIInv'
<1>0. /\ shareTiles \in Tiles /\ shown \in Shownings /\ stage \in Stages /\ chat \in Chats
      /\ made \in 0..MaxTiles
  BY DEF StageIInv, StageTyped
<1>1. shareTiles' = [shareTiles EXCEPT ![s] = 0]
  BY DEF StreamEnds
<1>2. /\ shareTiles' \in Tiles /\ shareTiles'[s] = 0
      /\ \A t \in Shares \ {s} : shareTiles'[t] = shareTiles[t]
  <2>1. 0 \in 0..MaxTiles
    BY StageAssumption
  <2> QED
    BY <1>0, <1>1, <2>1 DEF Tiles
<1>3. /\ shown' \in Shownings /\ shown'.watched = shown.watched \ {s}
      /\ shown'.tools = shown.tools \ {s}
  BY <1>0 DEF StreamEnds, Shownings
<1> DEFINE g == IF stage.full = s THEN ExitFullscreen(stage) ELSE stage
           e == EscapeRefreshed(g, shown'.tools)
<1>4. /\ g \in Stages /\ (g.full # Nobody => g.full = stage.full /\ g.full # s)
      /\ g.closing => g.full # Nobody
  <2>1. CASE stage.full = s
    BY <1>0, <2>1, Exited DEF StageIInv, Shows
  <2>2. CASE stage.full # s
    BY <1>0, <2>2 DEF StageIInv, Shows
  <2> QED BY <2>1, <2>2
<1>5. stage' = Relaid(e, shareTiles')
  BY DEF StreamEnds
<1> HIDE DEF g
<1>6. shown'.tools \in SUBSET Shares
  BY <1>3 DEF Shownings
<1>7. /\ e \in Stages /\ e.full = g.full /\ e.closing = g.closing
      /\ e.escape = Escapable(g.full, shown'.tools)
  BY <1>4, <1>6, EscapeFields
<1> HIDE DEF e
<1>8. /\ stage' \in Stages /\ stage'.full = e.full /\ stage'.closing = e.closing
      /\ stage'.escape = e.escape
      /\ stage'.focused # Nobody => shareTiles'[stage'.focused] # 0
  BY <1>2, <1>5, <1>7, RelaidFields
<1>9. chat' \in Chats /\ Pictures(chat', shareTiles')
  <2>1. PICK c : c \in {chat, [chat EXCEPT !.watching = @ \ {s}]} /\ RefreshPip(shareTiles', c)
    BY DEF StreamEnds
  <2>2. c \in Chats /\ c.pip = chat.pip /\ c.open = chat.open /\ c.drawing = chat.drawing
    BY <1>0, <2>1 DEF Chats
  <2>3. Pictures([c EXCEPT !.open = FALSE], shareTiles)
    BY <1>0, <2>2 DEF StageIInv, Pictures, Chats
  <2>4. c.pip # Nobody /\ shareTiles'[c.pip] # 0 => shareTiles'[c.pip] = shareTiles[c.pip]
    BY <1>0, <1>2, <2>2 DEF Chats
  <2> QED
    BY <1>0, <1>2, <2>1, <2>2, <2>3, <2>4, PipRefreshed
<1>10. Shows(stage', shown', shareTiles') /\ Ends(stage', shown')
  BY <1>3, <1>4, <1>7, <1>8 DEF StageIInv, Shows, Ends
<1>11. \A t \in shown'.watched : shareTiles'[t] # 0
  BY <1>0, <1>2, <1>3 DEF StageIInv, Shownings
<1>12. made' = made
  BY DEF StreamEnds
<1> QED
  BY <1>0, <1>12, <1>2, <1>3, <1>8, <1>9, <1>10, <1>11 DEF StageIInv, StageTyped

\* refresh_pip when the shares stay: the picture in the chat is right
\* afterwards.
LEMMA Unpictured ==
  ASSUME StageIInv, NEW c \in Chats, c.pip = chat.pip, c.drawing = chat.drawing,
         RefreshPip(shareTiles, c)
  PROVE  chat' \in Chats /\ Pictures(chat', shareTiles)
<1>1. shareTiles \in Tiles /\ chat \in Chats
  BY DEF StageIInv, StageTyped
<1>2. Pictures([c EXCEPT !.open = FALSE], shareTiles)
  BY <1>1 DEF StageIInv, Pictures, Chats
<1> QED
  BY <1>1, <1>2, PipRefreshed

\* A tile is watched.
LEMMA WatchTileKeeps ==
  ASSUME NEW s \in Shares, StageIInv, WatchTile(s)
  PROVE  StageIInv'
<1>0. /\ shareTiles \in Tiles /\ shown \in Shownings /\ stage \in Stages /\ chat \in Chats
      /\ made \in 0..MaxTiles /\ UNCHANGED <<shareTiles, made>>
  BY DEF StageIInv, StageTyped, WatchTile
<1>1. /\ shown' \in Shownings /\ shown'.watched = shown.watched \cup {s}
      /\ shown'.tools = shown.tools
  BY <1>0 DEF WatchTile, Shownings
<1>2. /\ stage' \in Stages /\ stage'.full = stage.full /\ stage'.closing = stage.closing
      /\ stage'.escape = stage.escape /\ stage'.focused = s /\ shareTiles[s] # 0
  BY <1>0 DEF WatchTile, Stages, Present
<1> DEFINE c == [chat EXCEPT !.watching = @ \cup {s}]
<1>3. c \in Chats /\ c.pip = chat.pip /\ c.drawing = chat.drawing /\ RefreshPip(shareTiles, c)
  BY <1>0 DEF WatchTile, Chats
<1> HIDE DEF c
<1>4. chat' \in Chats /\ Pictures(chat', shareTiles)
  BY <1>3, Unpictured
<1>5. Shows(stage', shown', shareTiles') /\ Ends(stage', shown')
  BY <1>0, <1>1, <1>2 DEF StageIInv, Shows, Ends
<1> QED
  BY <1>0, <1>1, <1>2, <1>4, <1>5 DEF StageIInv, StageTyped

\* A tile is no longer watched, and leaves the stage.
LEMMA UnwatchTileKeeps ==
  ASSUME NEW s \in Shares, StageIInv, UnwatchTile(s)
  PROVE  StageIInv'
<1>0. /\ shareTiles \in Tiles /\ shown \in Shownings /\ stage \in Stages /\ chat \in Chats
      /\ made \in 0..MaxTiles /\ UNCHANGED <<shareTiles, made>>
  BY DEF StageIInv, StageTyped, UnwatchTile
<1>1. /\ shown' \in Shownings /\ shown'.watched = shown.watched \ {s}
      /\ shown'.tools = shown.tools \ {s}
  BY <1>0 DEF UnwatchTile, Shownings
<1> DEFINE g == IF stage.full = s THEN ExitFullscreen(stage) ELSE stage
           f == [g EXCEPT !.focused = IF @ = s THEN Nobody ELSE @]
<1>2. /\ g \in Stages /\ (g.full # Nobody => g.full = stage.full /\ g.full # s)
      /\ g.closing => g.full # Nobody
      /\ g.focused = stage.focused
  <2>1. CASE stage.full = s
    BY <1>0, <2>1, Exited DEF StageIInv, Shows
  <2>2. CASE stage.full # s
    BY <1>0, <2>2 DEF StageIInv, Shows
  <2> QED BY <2>1, <2>2
<1>3. stage' = EscapeRefreshed(f, shown'.tools)
  BY DEF UnwatchTile
<1> HIDE DEF g
<1>4. /\ f \in Stages /\ f.full = g.full /\ f.closing = g.closing
      /\ f.focused \in {g.focused, Nobody}
  BY <1>2 DEF Stages
<1> HIDE DEF f
<1>5. shown'.tools \in SUBSET Shares
  BY <1>1 DEF Shownings
<1>6. /\ stage' \in Stages /\ stage'.full = f.full /\ stage'.closing = f.closing
      /\ stage'.escape = Escapable(f.full, shown'.tools) /\ stage'.focused = f.focused
  BY <1>3, <1>4, <1>5, EscapeFields
<1> DEFINE c == [chat EXCEPT !.watching = @ \ {s}]
<1>7. c \in Chats /\ c.pip = chat.pip /\ c.drawing = chat.drawing /\ RefreshPip(shareTiles, c)
  BY <1>0 DEF UnwatchTile, Chats
<1> HIDE DEF c
<1>8. chat' \in Chats /\ Pictures(chat', shareTiles)
  BY <1>7, Unpictured
<1>9. Shows(stage', shown', shareTiles') /\ Ends(stage', shown')
  BY <1>0, <1>1, <1>2, <1>4, <1>6 DEF StageIInv, Shows, Ends
<1> QED
  BY <1>0, <1>1, <1>6, <1>8, <1>9 DEF StageIInv, StageTyped, Shownings

\* Neither the shares nor the chat change.
LEMMA OnlyStage ==
  ASSUME StageIInv, UNCHANGED <<shareTiles, chat, made>>, stage' \in Stages, shown' \in Shownings,
         shown'.watched = shown.watched, Shows(stage', shown', shareTiles), Ends(stage', shown')
  PROVE  StageIInv'
BY DEF StageIInv, StageTyped

\* A tile comes into focus, or none is.
LEMMA FocusKeeps == StageIInv /\ Focus => StageIInv'
<1> SUFFICES ASSUME StageIInv, Focus PROVE StageIInv'
  OBVIOUS
<1>0. /\ shown \in Shownings /\ stage \in Stages /\ UNCHANGED <<shareTiles, shown, chat, made>>
  BY DEF StageIInv, StageTyped, Focus
<1>1. PICK s \in (shown.watched \ shown.tools) \cup {Nobody} : stage' = [stage EXCEPT !.focused = s]
  BY DEF Focus
<1>2. s \in Shares \cup {Nobody} /\ (s # Nobody => shareTiles[s] # 0)
  BY <1>0, <1>1 DEF StageIInv, Shownings
<1>3. /\ stage' \in Stages /\ stage'.full = stage.full /\ stage'.closing = stage.closing
      /\ stage'.escape = stage.escape /\ stage'.focused = s
  BY <1>0, <1>1, <1>2 DEF Stages
<1>4. Shows(stage', shown', shareTiles) /\ Ends(stage', shown')
  BY <1>0, <1>2, <1>3 DEF StageIInv, Shows, Ends
<1> QED
  BY <1>0, <1>3, <1>4, OnlyStage

\* A tile goes into the full screen, or comes back.
LEMMA ToggleFullscreenKeeps ==
  ASSUME NEW s \in Shares, StageIInv, ToggleFullscreen(s)
  PROVE  StageIInv'
<1>0. /\ shown \in Shownings /\ stage \in Stages /\ UNCHANGED <<shareTiles, shown, chat, made>>
      /\ shown.tools \in SUBSET Shares /\ s \in shown.watched
  BY DEF StageIInv, StageTyped, ToggleFullscreen, Shownings
<1> DEFINE x == ExitFullscreen(stage)
           g == IF stage.full = s THEN x ELSE [x EXCEPT !.full = s, !.closing = FALSE]
<1>1. /\ x \in Stages /\ x.focused = stage.focused /\ x.full = Nobody /\ ~ x.closing
  BY <1>0, Exited DEF StageIInv, Shows
<1>2. stage' = EscapeRefreshed(g, shown.tools)
  BY DEF ToggleFullscreen
<1> HIDE DEF x
<1>3. /\ g \in Stages /\ g.focused = stage.focused /\ g.full \in {s, Nobody} /\ ~ g.closing
  BY <1>1 DEF Stages
<1> HIDE DEF g
<1>4. /\ stage' \in Stages /\ stage'.full = g.full /\ stage'.closing = g.closing
      /\ stage'.escape = Escapable(g.full, shown.tools) /\ stage'.focused = g.focused
  BY <1>0, <1>2, <1>3, EscapeFields
<1>5. Shows(stage', shown', shareTiles) /\ Ends(stage', shown')
  BY <1>0, <1>3, <1>4 DEF StageIInv, Shows, Ends
<1> QED
  BY <1>0, <1>4, <1>5, OnlyStage

\* The window closes, or waits for the full screen to end.
LEMMA CloseWindowKeeps == StageIInv /\ CloseWindow => StageIInv'
<1> SUFFICES ASSUME StageIInv, CloseWindow PROVE StageIInv'
  OBVIOUS
<1>0. /\ shown \in Shownings /\ stage \in Stages /\ UNCHANGED <<shareTiles, shown, chat, made>>
      /\ stage.full # Nobody
  BY DEF StageIInv, StageTyped, CloseWindow
<1>1. /\ stage' \in Stages /\ stage'.full = stage.full
      /\ stage'.escape = stage.escape /\ stage'.focused = stage.focused
  BY <1>0 DEF Stages, CloseWindow
<1>2. Shows(stage', shown', shareTiles) /\ Ends(stage', shown')
  BY <1>0, <1>1 DEF StageIInv, Shows, Ends
<1> QED
  BY <1>0, <1>1, <1>2, OnlyStage

\* The view of a full screen is destroyed, now or after another took its
\* place.
LEMMA ViewDestroyedKeeps ==
  ASSUME NEW current \in BOOLEAN, StageIInv, ViewDestroyed(current)
  PROVE  StageIInv'
<1>0. /\ shown \in Shownings /\ stage \in Stages /\ UNCHANGED <<shareTiles, shown, chat, made>>
      /\ shown.tools \in SUBSET Shares
  BY DEF StageIInv, StageTyped, ViewDestroyed, Shownings
<1> DEFINE g == IF current THEN [stage EXCEPT !.full = Nobody, !.closing = FALSE]
                ELSE [stage EXCEPT !.orphan = FALSE]
<1>1. /\ g \in Stages /\ g.focused = stage.focused /\ g.full \in {stage.full, Nobody}
      /\ g.closing => g.full # Nobody
  BY <1>0 DEF StageIInv, Shows, Stages
<1>2. stage' = EscapeRefreshed(g, shown.tools)
  BY DEF ViewDestroyed
<1> HIDE DEF g
<1>3. /\ stage' \in Stages /\ stage'.full = g.full /\ stage'.closing = g.closing
      /\ stage'.escape = Escapable(g.full, shown.tools) /\ stage'.focused = g.focused
  BY <1>0, <1>1, <1>2, EscapeFields
<1>4. Shows(stage', shown', shareTiles) /\ Ends(stage', shown')
  BY <1>0, <1>1, <1>3 DEF StageIInv, Shows, Ends
<1> QED
  BY <1>0, <1>3, <1>4, OnlyStage

\* A tool is taken or put away.
LEMMA TakeToolKeeps ==
  ASSUME NEW s \in Shares, StageIInv, TakeTool(s)
  PROVE  StageIInv'
<1>0. /\ shown \in Shownings /\ stage \in Stages /\ UNCHANGED <<shareTiles, chat, made>>
      /\ s \in shown.watched
  BY DEF StageIInv, StageTyped, TakeTool
<1>1. shown' \in Shownings /\ shown'.watched = shown.watched /\ shown'.tools \in SUBSET Shares
  BY <1>0 DEF TakeTool, Shownings
<1>2. stage' = EscapeRefreshed(stage, shown'.tools)
  BY DEF TakeTool
<1>3. /\ stage' \in Stages /\ stage'.full = stage.full /\ stage'.closing = stage.closing
      /\ stage'.escape = Escapable(stage.full, shown'.tools) /\ stage'.focused = stage.focused
  BY <1>0, <1>1, <1>2, EscapeFields
<1>4. Shows(stage', shown', shareTiles) /\ Ends(stage', shown')
  BY <1>1, <1>3 DEF StageIInv, Shows, Ends
<1> QED
  BY <1>0, <1>1, <1>3, <1>4, OnlyStage

\* Escape ends one thing at a time.
LEMMA EscapeKeeps == StageIInv /\ Escape => StageIInv'
<1> SUFFICES ASSUME StageIInv, Escape PROVE StageIInv'
  OBVIOUS
<1>0. /\ shown \in Shownings /\ stage \in Stages /\ UNCHANGED <<shareTiles, chat, made>>
  BY DEF StageIInv, StageTyped, Escape
<1>1. shown' \in Shownings /\ shown'.watched = shown.watched /\ shown'.tools = {}
  BY <1>0 DEF Escape, Shownings
<1> DEFINE g == IF shown.tools # {} THEN stage ELSE ExitFullscreen(stage)
<1>2. /\ g \in Stages /\ g.focused = stage.focused /\ g.full \in {stage.full, Nobody}
      /\ g.closing => g.full # Nobody
  <2>1. CASE shown.tools # {}
    BY <1>0, <2>1 DEF StageIInv, Shows
  <2>2. CASE shown.tools = {}
    BY <1>0, <2>2, Exited DEF StageIInv, Shows
  <2> QED BY <2>1, <2>2
<1>3. stage' = EscapeRefreshed(g, {})
  BY DEF Escape
<1> HIDE DEF g
<1>4. /\ stage' \in Stages /\ stage'.full = g.full /\ stage'.closing = g.closing
      /\ stage'.escape = Escapable(g.full, {}) /\ stage'.focused = g.focused
  BY <1>2, <1>3, EscapeFields
<1>5. Shows(stage', shown', shareTiles) /\ Ends(stage', shown')
  BY <1>1, <1>2, <1>4 DEF StageIInv, Shows, Ends
<1> QED
  BY <1>0, <1>1, <1>4, <1>5, OnlyStage

\* The chat opens the stage or dismisses the small picture.
LEMMA ChatKeeps == StageIInv /\ (OpenStage \/ DismissPip) => StageIInv'
<1> SUFFICES ASSUME StageIInv, OpenStage \/ DismissPip PROVE StageIInv'
  OBVIOUS
<1>0. chat \in Chats /\ UNCHANGED <<shareTiles, shown, stage, made>>
  BY DEF StageIInv, StageTyped, OpenStage, DismissPip
<1>1. PICK c : /\ c \in {[chat EXCEPT !.open = ~ @], [chat EXCEPT !.dismissed = chat.pip]}
               /\ RefreshPip(shareTiles, c)
  BY DEF OpenStage, DismissPip
<1>2. c \in Chats /\ c.pip = chat.pip /\ c.drawing = chat.drawing
  BY <1>0, <1>1 DEF Chats
<1>3. chat' \in Chats /\ Pictures(chat', shareTiles)
  BY <1>1, <1>2, Unpictured
<1> QED
  BY <1>0, <1>3 DEF StageIInv, StageTyped

\* Every step keeps the invariant.
LEMMA StageStepKeeps == StageIInv /\ [StageNext]_stageVars => StageIInv'
<1> SUFFICES ASSUME StageIInv, [StageNext]_stageVars PROVE StageIInv'
  OBVIOUS
<1>1. CASE UNCHANGED stageVars
  BY <1>1 DEF stageVars, StageIInv, StageTyped
<1>2. ASSUME NEW s \in Shares,
             \/ StreamStarts(s) \/ StreamEnds(s) \/ WatchTile(s) \/ UnwatchTile(s)
             \/ ToggleFullscreen(s) \/ TakeTool(s)
      PROVE  StageIInv'
  BY <1>2, StreamStartsKeeps, StreamEndsKeeps, WatchTileKeeps, UnwatchTileKeeps,
     ToggleFullscreenKeeps, TakeToolKeeps
<1>3. CASE Focus \/ CloseWindow \/ Escape \/ OpenStage \/ DismissPip
  BY <1>3, FocusKeeps, CloseWindowKeeps, EscapeKeeps, ChatKeeps
<1>4. CASE \E current \in BOOLEAN : ViewDestroyed(current)
  BY <1>4, ViewDestroyedKeeps
<1> QED
  BY <1>1, <1>2, <1>3, <1>4 DEF StageNext

\* For any number of shares that begin and end while they are watched,
\* focused, in full screen or in the small picture, nothing of the stage
\* refers to a tile that is gone and Escape is taken exactly while it ends
\* something (ScreenStage of screen_stage.cpp).
THEOREM StageThm == StageSpec => []StageInv
<1>1. StageIInv => StageInv
  <2> SUFFICES ASSUME StageIInv PROVE StageInv
    OBVIOUS
  <2>1. /\ shareTiles \in Tiles /\ shown \in Shownings /\ stage \in Stages /\ chat \in Chats
    BY DEF StageIInv, StageTyped
  <2>2. StageTypeOK
    BY <2>1 DEF StageIInv, StageTypeOK, Tiles, Shownings, Chats, Present
  <2>3. StageShowsShares
    BY <2>1 DEF StageIInv, StageShowsShares, Shows, Ends, Pictures, Escapable, Stages, Chats, Present
  <2> QED BY <2>2, <2>3 DEF StageInv
<1> QED
  BY <1>1, StageStarts, StageStepKeeps, PTL DEF StageSpec
-----------------------------------------------------------------------------
(***************************************************************************)
(* The tools.                                                              *)
(***************************************************************************)
\* What the drawing, its canvas, its window, the laser pointers and their
\* timers hold.
Drawings == [presenter: BOOLEAN, enabled: BOOLEAN, banned: BOOLEAN, tool: Tools,
             strokes: SUBSET AllStrokes, removed: SUBSET AllStrokes, selected: SUBSET AllStrokes,
             box: BOOLEAN, last: 0..MaxStrokes]
Canvases == [gesture: BOOLEAN, stroke: AllStrokes \cup {NoStroke}, pointing: BOOLEAN, timer: BOOLEAN]
Overlays == [source: BOOLEAN, window: {"hidden", "transparent", "open"}]
Pointers == [shown: SUBSET Authors, trail: SUBSET Authors]
Fadings == [active: SUBSET Authors, activityTimer: BOOLEAN, laserTimer: BOOLEAN]

\* The types of the variables.
ToolsTyped ==
    /\ drawing \in Drawings /\ canvas \in Canvases /\ overlay \in Overlays
    /\ lasers \in Pointers /\ fading \in Fadings

\* What the drawing alone keeps.
Permitted(d) ==
    /\ d.tool # "none" => Allowed(d)
    /\ d.tool = "select" => d.presenter
    /\ d.selected \subseteq d.strokes
    /\ d.selected # {} => d.tool = "select"
\* What the canvas does with the tool in hand.
Handles(c, tool) ==
    /\ c.gesture => tool \in {"pen", "eraser", "select"}
    /\ c.pointing => tool = "laser"
\* The window takes the mouse only for a tool.
Takes(o, tool) == o.window = "open" => tool # "none"
\* Labels are shown only while a timer will fade them.
Labelled(f) == f.active # {} => f.activityTimer
\* Laser points are shown only while a timer will fade them.
Pointed(l, f) == l.shown \cup l.trail # {} => f.laserTimer

\* The inductive invariant: the tool in hand is permitted, a gesture is one
\* of a tool that has it, and whatever fades has its timer. ToolsInv follows.
ToolsIInv ==
    /\ ToolsTyped
    /\ Permitted(drawing) /\ Handles(canvas, drawing.tool) /\ Takes(overlay, drawing.tool)
    /\ Labelled(fading) /\ Pointed(lasers, fading)

\* No tool is in hand and nothing is drawn at first.
LEMMA ToolsStart == ToolsInit => ToolsIInv
<1> SUFFICES ASSUME ToolsInit PROVE ToolsIInv
  OBVIOUS
<1>0. 0 \in 0..MaxStrokes
  BY ToolsAssumption
<1>1. drawing \in Drawings
  BY <1>0 DEF ToolsInit, Drawings, Tools
<1>2. canvas \in Canvases /\ overlay \in Overlays /\ lasers \in Pointers /\ fading \in Fadings
  BY DEF ToolsInit, Canvases, Overlays, Pointers, Fadings
<1>3. Permitted(drawing) /\ Handles(canvas, drawing.tool) /\ Takes(overlay, drawing.tool)
  BY DEF ToolsInit, Permitted, Handles, Takes
<1>4. Labelled(fading) /\ Pointed(lasers, fading)
  BY DEF ToolsInit, Labelled, Pointed
<1> QED
  BY <1>1, <1>2, <1>3, <1>4 DEF ToolsIInv, ToolsTyped

\* Every stroke has an author.
LEMMA AuthorOf ==
  ASSUME NEW s \in AllStrokes
  PROVE  s[1] \in Authors
BY DEF AllStrokes

\* changed() closes the window's ears without a tool, and ends a gesture that
\* the tool in hand does not have.
LEMMA Changes ==
  ASSUME ToolsIInv, NEW d \in Drawings, Changed(d),
         drawing.tool # "laser" => ~ canvas.pointing
  PROVE  /\ canvas' \in Canvases /\ overlay' \in Overlays
         /\ Handles(canvas', d.tool) /\ Takes(overlay', d.tool)
<1>1. canvas \in Canvases /\ overlay \in Overlays
  BY DEF ToolsIInv, ToolsTyped
<1>2. canvas' = IF d.tool = "laser" THEN Idle(canvas) ELSE NoLaser(Idle(canvas))
  BY DEF Changed
<1>3. Idle(canvas) \in Canvases /\ Idle(canvas).gesture = FALSE
  BY <1>1 DEF Idle, Canvases
<1>4. /\ NoLaser(Idle(canvas)) \in Canvases /\ NoLaser(Idle(canvas)).gesture = FALSE
      /\ NoLaser(Idle(canvas)).pointing = FALSE
  BY <1>3 DEF NoLaser, Canvases
<1>5. overlay' \in Overlays /\ Takes(overlay', d.tool)
  BY <1>1 DEF Changed, Refreshed, Overlays, Takes
<1> QED
  BY <1>2, <1>3, <1>4, <1>5 DEF Handles

\* A stroke that is added is labelled, and its label will fade.
LEMMA Adds ==
  ASSUME ToolsIInv, NEW d \in Drawings, NEW s \in AllStrokes, Permitted(d), Add(d, s)
  PROVE  /\ drawing' \in Drawings /\ Permitted(drawing') /\ drawing'.tool = d.tool
         /\ fading' \in Fadings /\ Labelled(fading') /\ fading'.laserTimer = fading.laserTimer
<1>1. fading \in Fadings /\ Labelled(fading)
  BY DEF ToolsIInv, ToolsTyped
<1>2. CASE d.enabled /\ s \notin d.removed
  <2>1. drawing' = [d EXCEPT !.strokes = @ \cup {s}]
    BY <1>2 DEF Add
  <2>2. /\ drawing' \in Drawings /\ drawing'.tool = d.tool /\ drawing'.presenter = d.presenter
        /\ drawing'.enabled = d.enabled /\ drawing'.banned = d.banned
        /\ drawing'.selected = d.selected /\ drawing'.strokes = d.strokes \cup {s}
    BY <2>1 DEF Drawings
  <2>3. Permitted(drawing')
    BY <2>2 DEF Permitted, Allowed
  <2>4. fading' = [fading EXCEPT !.active = @ \cup {s[1]}, !.activityTimer = TRUE]
    BY <1>2 DEF Add
  <2>5. s[1] \in Authors
    BY AuthorOf
  <2>6. /\ fading' \in Fadings /\ fading'.activityTimer /\ fading'.laserTimer = fading.laserTimer
    BY <1>1, <2>4, <2>5 DEF Fadings
  <2> QED
    BY <2>2, <2>3, <2>6 DEF Labelled
<1>3. CASE ~ (d.enabled /\ s \notin d.removed)
  BY <1>1, <1>3 DEF Add
<1> QED BY <1>2, <1>3

\* A laser point that is shown will fade.
LEMMA Lasers ==
  ASSUME ToolsIInv, NEW author \in Authors, NEW visible \in BOOLEAN, AddLaser(author, visible)
  PROVE  /\ lasers' \in Pointers /\ fading' \in Fadings
         /\ Labelled(fading') /\ Pointed(lasers', fading')
<1>1. fading \in Fadings /\ Labelled(fading) /\ lasers \in Pointers /\ Pointed(lasers, fading)
  BY DEF ToolsIInv, ToolsTyped
<1>2. CASE drawing.enabled
  <2>1. fading' = [fading EXCEPT !.laserTimer = TRUE]
    BY <1>2 DEF AddLaser
  <2>2. fading' \in Fadings /\ fading'.active = fading.active /\ fading'.laserTimer
        /\ fading'.activityTimer = fading.activityTimer
    BY <1>1, <2>1 DEF Fadings
  <2>3. lasers' \in Pointers
    BY <1>1, <1>2 DEF AddLaser, Pointers
  <2> QED
    BY <1>1, <2>2, <2>3 DEF Labelled, Pointed
<1>3. CASE ~ drawing.enabled
  BY <1>1, <1>3 DEF AddLaser
<1> QED BY <1>2, <1>3

\* Strokes that are removed leave the selection and their labels' authors as
\* they should be.
LEMMA Removes ==
  ASSUME ToolsIInv, NEW gone, RemoveStrokes(gone)
  PROVE  /\ drawing' \in Drawings /\ Permitted(drawing') /\ drawing'.tool = drawing.tool
         /\ fading' \in Fadings /\ Labelled(fading') /\ fading'.laserTimer = fading.laserTimer
<1>1. drawing \in Drawings /\ Permitted(drawing) /\ fading \in Fadings /\ Labelled(fading)
  BY DEF ToolsIInv, ToolsTyped
<1> DEFINE found == gone \cap drawing.strokes
<1>2. drawing' = [drawing EXCEPT !.strokes = @ \ found, !.removed = @ \cup found,
                                 !.selected = @ \ found]
  BY DEF RemoveStrokes
<1>3. found \subseteq AllStrokes
  BY <1>1 DEF Drawings
<1>4. PICK quiet : fading' = [fading EXCEPT !.active = @ \ quiet]
  BY DEF RemoveStrokes
<1> HIDE DEF found
<1>5. /\ drawing' \in Drawings /\ drawing'.tool = drawing.tool
      /\ drawing'.presenter = drawing.presenter
      /\ drawing'.enabled = drawing.enabled /\ drawing'.banned = drawing.banned
      /\ drawing'.selected = drawing.selected \ found /\ drawing'.strokes = drawing.strokes \ found
  BY <1>1, <1>2, <1>3 DEF Drawings
<1>6. Permitted(drawing')
  BY <1>1, <1>5 DEF Permitted, Allowed
<1>7. /\ fading' \in Fadings /\ fading'.active \subseteq fading.active
      /\ fading'.activityTimer = fading.activityTimer /\ fading'.laserTimer = fading.laserTimer
  BY <1>1, <1>4 DEF Fadings
<1> QED
  BY <1>1, <1>5, <1>6, <1>7 DEF Labelled

\* A step after which the drawing, the canvas and the fading are right, with the
\* same tool in hand, and that touches neither the overlay nor the lasers.
LEMMA SameTool ==
  ASSUME ToolsIInv, drawing' \in Drawings, Permitted(drawing'), drawing'.tool = drawing.tool,
         fading' \in Fadings, Labelled(fading'), fading'.laserTimer = fading.laserTimer,
         canvas' \in Canvases, Handles(canvas', drawing.tool), UNCHANGED <<overlay, lasers>>
  PROVE  ToolsIInv'
BY DEF ToolsIInv, ToolsTyped, Pointed

\* The sharer permits, forbids, bans or forgives.
LEMMA StateArrivesKeeps ==
  ASSUME NEW enabled \in BOOLEAN, NEW ban \in BOOLEAN, ToolsIInv, StateArrives(enabled, ban)
  PROVE  ToolsIInv'
<1>0. drawing \in Drawings /\ Permitted(drawing) /\ Handles(canvas, drawing.tool)
  BY DEF ToolsIInv, ToolsTyped
<1> DEFINE b == Banned(drawing, ban)
           d == [b EXCEPT !.enabled = enabled, !.strokes = {}, !.removed = {},
                          !.selected = {}, !.box = FALSE,
                          !.tool = IF enabled THEN @ ELSE "none"]
<1>1. /\ b \in Drawings /\ b.banned = ban /\ (ban => b.tool = "none")
      /\ b.presenter = drawing.presenter /\ (b.tool = "select" => b.presenter)
      /\ b.tool \in {drawing.tool, "none"}
  <2>1. CASE ban = drawing.banned
    BY <1>0, <2>1 DEF Banned, Permitted, Allowed, Drawings
  <2>2. CASE ban # drawing.banned /\ ban
    BY <1>0, <2>2 DEF Banned, Permitted, Allowed, Drawings, Tools
  <2>3. CASE ban # drawing.banned /\ ~ ban
    <3>1. ban = FALSE /\ b = [drawing EXCEPT !.banned = FALSE]
      BY <2>3 DEF Banned
    <3> QED
      BY <1>0, <3>1 DEF Permitted, Allowed, Drawings
  <2> QED BY <2>1, <2>2, <2>3
<1>2. drawing' = d /\ Changed(d)
  BY DEF StateArrives
<1> HIDE DEF b
<1>3. /\ d \in Drawings /\ d.enabled = enabled /\ d.strokes = {} /\ d.selected = {}
      /\ d.banned = b.banned /\ d.presenter = b.presenter
      /\ d.tool = IF enabled THEN b.tool ELSE "none"
  BY <1>1 DEF Drawings, Tools
<1> HIDE DEF d
<1>4. Permitted(d)
  BY <1>1, <1>3 DEF Permitted, Allowed
<1>5. /\ canvas' \in Canvases /\ overlay' \in Overlays
      /\ Handles(canvas', d.tool) /\ Takes(overlay', d.tool)
  BY <1>0, <1>2, <1>3, Changes DEF Handles
<1>6. /\ lasers' \in Pointers /\ fading' \in Fadings /\ Labelled(fading')
      /\ Pointed(lasers', fading')
  BY DEF StateArrives, Pointers, Fadings, Labelled, Pointed
<1> QED
  BY <1>2, <1>3, <1>4, <1>5, <1>6 DEF ToolsIInv, ToolsTyped

\* A tool is chosen, as far as it is permitted.
LEMMA SetToolKeeps ==
  ASSUME NEW wanted \in Tools, ToolsIInv, SetTool(wanted)
  PROVE  ToolsIInv'
<1>0. /\ drawing \in Drawings /\ Permitted(drawing) /\ Handles(canvas, drawing.tool)
      /\ lasers \in Pointers /\ fading \in Fadings /\ Labelled(fading) /\ Pointed(lasers, fading)
  BY DEF ToolsIInv, ToolsTyped
<1> DEFINE tool == IF ~ Allowed(drawing) \/ (wanted = "select" /\ ~ drawing.presenter)
                     THEN "none" ELSE wanted
           d == [drawing EXCEPT !.tool = tool, !.selected = {}, !.box = FALSE]
<1>1. /\ tool \in Tools /\ (tool # "none" => Allowed(drawing))
      /\ (tool = "select" => drawing.presenter)
  BY DEF Tools
<1>2. /\ drawing' = d /\ Changed(d)
      /\ AddLaser(Self, FALSE) \/ UNCHANGED <<lasers, fading>>
  BY DEF SetTool
<1> HIDE DEF tool
<1>3. /\ d \in Drawings /\ d.tool = tool /\ d.selected = {} /\ d.enabled = drawing.enabled
      /\ d.banned = drawing.banned /\ d.presenter = drawing.presenter
  BY <1>0, <1>1 DEF Drawings
<1> HIDE DEF d
<1>4. Permitted(d)
  BY <1>1, <1>3 DEF Permitted, Allowed
<1>5. /\ canvas' \in Canvases /\ overlay' \in Overlays
      /\ Handles(canvas', d.tool) /\ Takes(overlay', d.tool)
  BY <1>0, <1>2, <1>3, Changes DEF Handles
<1>6. /\ lasers' \in Pointers /\ fading' \in Fadings /\ Labelled(fading')
      /\ Pointed(lasers', fading')
  <2>1. CASE AddLaser(Self, FALSE)
    <3>1. PICK no \in BOOLEAN : no = FALSE
      OBVIOUS
    <3>2. Self \in Authors
      BY DEF Authors
    <3> QED BY <2>1, <3>1, <3>2, Lasers
  <2>2. CASE UNCHANGED <<lasers, fading>>
    BY <1>0, <2>2
  <2> QED BY <1>2, <2>1, <2>2
<1> QED
  BY <1>2, <1>3, <1>4, <1>5, <1>6 DEF ToolsIInv, ToolsTyped

\* The last stroke is taken back.
LEMMA UndoKeeps == ToolsIInv /\ Undo => ToolsIInv'
<1> SUFFICES ASSUME ToolsIInv, Undo PROVE ToolsIInv'
  OBVIOUS
<1>0. drawing \in Drawings /\ Handles(canvas, drawing.tool) /\ lasers \in Pointers
      /\ Pointed(lasers, fading)
  BY DEF ToolsIInv, ToolsTyped
<1>1. PICK gone : RemoveStrokes(gone)
  BY DEF Undo
<1>2. Changed(drawing) /\ UNCHANGED lasers
  BY DEF Undo
<1>3. /\ drawing' \in Drawings /\ Permitted(drawing') /\ drawing'.tool = drawing.tool
      /\ fading' \in Fadings /\ Labelled(fading') /\ fading'.laserTimer = fading.laserTimer
  BY <1>1, Removes
<1>4. /\ canvas' \in Canvases /\ overlay' \in Overlays
      /\ Handles(canvas', drawing.tool) /\ Takes(overlay', drawing.tool)
  BY <1>0, <1>2, Changes DEF Handles
<1> QED
  BY <1>0, <1>2, <1>3, <1>4 DEF ToolsIInv, ToolsTyped, Pointed

\* Strokes go, and nothing but the drawing and its labels changes.
LEMMA RemovalKeeps ==
  ASSUME ToolsIInv, NEW gone, RemoveStrokes(gone), UNCHANGED <<canvas, overlay, lasers>>
  PROVE  ToolsIInv'
<1>1. canvas \in Canvases /\ Handles(canvas, drawing.tool)
  BY DEF ToolsIInv, ToolsTyped
<1>2. /\ drawing' \in Drawings /\ Permitted(drawing') /\ drawing'.tool = drawing.tool
      /\ fading' \in Fadings /\ Labelled(fading') /\ fading'.laserTimer = fading.laserTimer
  BY Removes
<1> QED
  BY <1>1, <1>2, SameTool

\* A selection, all that is mine, or what another erases goes.
LEMMA ErasureKeeps == ToolsIInv /\ (DeleteSelection \/ ClearMine \/ OtherErases) => ToolsIInv'
<1> SUFFICES ASSUME ToolsIInv, DeleteSelection \/ ClearMine \/ OtherErases PROVE ToolsIInv'
  OBVIOUS
<1>1. PICK gone : RemoveStrokes(gone)
  BY DEF DeleteSelection, ClearMine, OtherErases
<1>2. UNCHANGED <<canvas, overlay, lasers>>
  BY DEF DeleteSelection, ClearMine, OtherErases
<1> QED
  BY <1>1, <1>2, RemovalKeeps

\* Another draws.
LEMMA OtherDrawsKeeps == ToolsIInv /\ OtherDraws => ToolsIInv'
<1> SUFFICES ASSUME ToolsIInv, OtherDraws PROVE ToolsIInv'
  OBVIOUS
<1>1. PICK n \in 1..MaxStrokes : Add(drawing, <<Other, n>>)
  BY DEF OtherDraws
<1>2. PICK s \in AllStrokes : Add(drawing, s)
  <2>1. <<Other, n>> \in AllStrokes
    BY DEF AllStrokes, Authors
  <2> QED BY <1>1, <2>1
<1>3. /\ drawing \in Drawings /\ Permitted(drawing) /\ canvas \in Canvases
      /\ Handles(canvas, drawing.tool) /\ UNCHANGED <<canvas, overlay, lasers>>
  BY DEF ToolsIInv, ToolsTyped, OtherDraws
<1>4. /\ drawing' \in Drawings /\ Permitted(drawing') /\ drawing'.tool = drawing.tool
      /\ fading' \in Fadings /\ Labelled(fading') /\ fading'.laserTimer = fading.laserTimer
  BY <1>2, <1>3, Adds
<1> QED
  BY <1>3, <1>4, SameTool

\* Only the lasers and their timer change.
LEMMA LaserKeeps ==
  ASSUME ToolsIInv, UNCHANGED <<drawing, overlay>>, canvas' \in Canvases,
         Handles(canvas', drawing.tool),
         \/ UNCHANGED <<lasers, fading>>
         \/ \E author \in Authors, visible \in BOOLEAN : AddLaser(author, visible)
  PROVE  ToolsIInv'
<1>1. /\ lasers' \in Pointers /\ fading' \in Fadings
      /\ Labelled(fading') /\ Pointed(lasers', fading')
  <2>1. CASE UNCHANGED <<lasers, fading>>
    BY <2>1 DEF ToolsIInv, ToolsTyped
  <2>2. CASE \E author \in Authors, visible \in BOOLEAN : AddLaser(author, visible)
    BY <2>2, Lasers
  <2> QED BY <2>1, <2>2
<1> QED
  BY <1>1 DEF ToolsIInv, ToolsTyped

\* A laser points: another's, or mine, which also leaves and is repeated.
LEMMA PointsKeep ==
  ToolsIInv /\ (OtherPoints \/ Hover \/ PointerLeaves \/ Heartbeat) => ToolsIInv'
<1> SUFFICES ASSUME ToolsIInv, OtherPoints \/ Hover \/ PointerLeaves \/ Heartbeat PROVE ToolsIInv'
  OBVIOUS
<1>0. canvas \in Canvases /\ Handles(canvas, drawing.tool) /\ Self \in Authors /\ Other \in Authors
  BY DEF ToolsIInv, ToolsTyped, Authors
<1>1. NoLaser(canvas) \in Canvases /\ Handles(NoLaser(canvas), drawing.tool)
  BY <1>0 DEF Canvases, NoLaser, Handles
<1>2. CASE OtherPoints
  BY <1>0, <1>2, LaserKeeps DEF OtherPoints
<1>3. CASE Hover
  <2>1. PICK inside \in BOOLEAN : PointLaser(inside)
    BY <1>3 DEF Hover
  <2>2. canvas' \in Canvases /\ Handles(canvas', drawing.tool)
    <3>1. CASE inside
      <4>1. canvas' = [canvas EXCEPT !.pointing = TRUE, !.timer = TRUE] /\ drawing.tool = "laser"
        BY <2>1, <3>1 DEF PointLaser
      <4>2. canvas' \in Canvases /\ canvas'.gesture = canvas.gesture
        BY <1>0, <4>1 DEF Canvases
      <4> QED BY <1>0, <4>1, <4>2 DEF Handles
    <3>2. CASE ~ inside
      BY <1>1, <2>1, <3>2 DEF PointLaser
    <3> QED BY <3>1, <3>2
  <2>3. \/ UNCHANGED <<lasers, fading>>
        \/ \E author \in Authors, visible \in BOOLEAN : AddLaser(author, visible)
    BY <1>0, <2>1 DEF PointLaser
  <2>4. UNCHANGED <<drawing, overlay>>
    BY <2>1 DEF PointLaser
  <2> QED BY <2>2, <2>3, <2>4, LaserKeeps
<1>4. CASE PointerLeaves
  BY <1>0, <1>1, <1>4, LaserKeeps DEF PointerLeaves
<1>5. CASE Heartbeat
  BY <1>0, <1>5, LaserKeeps DEF Heartbeat
<1> QED BY <1>2, <1>3, <1>4, <1>5

\* The timers fade labels and points, and stop when nothing is left.
LEMMA TimersKeep == ToolsIInv /\ (ActivityTimer \/ LaserTimer) => ToolsIInv'
<1> SUFFICES ASSUME ToolsIInv, ActivityTimer \/ LaserTimer PROVE ToolsIInv'
  OBVIOUS
<1>0. fading \in Fadings /\ Labelled(fading) /\ lasers \in Pointers /\ Pointed(lasers, fading)
  BY DEF ToolsIInv, ToolsTyped
<1>1. /\ lasers' \in Pointers /\ fading' \in Fadings
      /\ Labelled(fading') /\ Pointed(lasers', fading')
  <2>1. CASE ActivityTimer
    <3>1. PICK old \in SUBSET fading.active :
            fading' = [fading EXCEPT !.active = @ \ old, !.activityTimer = fading.active # old]
      BY <2>1 DEF ActivityTimer
    <3>2. (fading.active # old) \in BOOLEAN
      OBVIOUS
    <3>3. /\ fading' \in Fadings /\ fading'.active = fading.active \ old
          /\ (fading'.activityTimer <=> fading.active # old) /\ fading'.laserTimer = fading.laserTimer
      BY <1>0, <3>1, <3>2 DEF Fadings
    <3>4. lasers' = lasers
      BY <2>1 DEF ActivityTimer
    <3> QED BY <1>0, <3>3, <3>4 DEF Labelled, Pointed
  <2>2. CASE LaserTimer
    <3>1. PICK faded \in SUBSET lasers.trail, expired \in SUBSET lasers.shown :
            /\ lasers' = [shown |-> lasers.shown \ expired, trail |-> lasers.trail \ faded]
            /\ fading' = [fading EXCEPT !.laserTimer = lasers'.shown \cup lasers'.trail # {}]
      BY <2>2 DEF LaserTimer
    <3>2. (lasers'.shown \cup lasers'.trail # {}) \in BOOLEAN
      OBVIOUS
    <3>3. lasers' \in Pointers
      BY <1>0, <3>1 DEF Pointers
    <3>4. /\ fading' \in Fadings /\ fading'.active = fading.active
          /\ (fading'.laserTimer <=> lasers'.shown \cup lasers'.trail # {})
          /\ fading'.activityTimer = fading.activityTimer
      BY <1>0, <3>1, <3>2 DEF Fadings
    <3> QED BY <1>0, <3>3, <3>4 DEF Labelled, Pointed
  <2> QED BY <2>1, <2>2
<1>2. UNCHANGED <<drawing, canvas, overlay>>
  BY DEF ActivityTimer, LaserTimer
<1> QED
  BY <1>1, <1>2 DEF ToolsIInv, ToolsTyped

\* The pen moves.
LEMMA DrawToKeeps ==
  ASSUME ToolsIInv, NEW stroke \in AllStrokes \cup {NoStroke}, NEW held \in BOOLEAN,
         DrawTo(stroke, held), UNCHANGED <<overlay, lasers>>
  PROVE  ToolsIInv'
<1>0. /\ drawing \in Drawings /\ Permitted(drawing) /\ canvas \in Canvases
      /\ Handles(canvas, drawing.tool)
  BY DEF ToolsIInv, ToolsTyped
<1> DEFINE number == drawing.last + 1
           s == IF stroke = NoStroke THEN <<Self, number>> ELSE stroke
           d == IF stroke = NoStroke THEN [drawing EXCEPT !.last = number] ELSE drawing
<1>1. /\ drawing.tool = "pen" /\ (stroke = NoStroke => number <= MaxStrokes)
      /\ canvas' = [canvas EXCEPT !.gesture = held, !.stroke = s]
      /\ Add(d, s)
  BY DEF DrawTo
<1>2. stroke = NoStroke => number \in 1..MaxStrokes /\ number \in 0..MaxStrokes
  BY <1>0, <1>1, ToolsAssumption DEF Drawings
<1>3. s \in AllStrokes
  BY <1>2 DEF AllStrokes, Authors
<1>4. /\ d \in Drawings /\ d.tool = drawing.tool /\ d.presenter = drawing.presenter
      /\ d.enabled = drawing.enabled /\ d.banned = drawing.banned
      /\ d.selected = drawing.selected /\ d.strokes = drawing.strokes
  BY <1>0, <1>2 DEF Drawings
<1> HIDE DEF d, s
<1>5. Permitted(d)
  BY <1>0, <1>4 DEF Permitted, Allowed
<1>6. /\ drawing' \in Drawings /\ Permitted(drawing') /\ drawing'.tool = d.tool
      /\ fading' \in Fadings /\ Labelled(fading') /\ fading'.laserTimer = fading.laserTimer
  BY <1>1, <1>3, <1>4, <1>5, Adds
<1>7. canvas' \in Canvases /\ canvas'.pointing = canvas.pointing
  BY <1>0, <1>1, <1>3 DEF Canvases
<1>8. Handles(canvas', drawing.tool)
  BY <1>0, <1>1, <1>7 DEF Handles
<1> QED
  BY <1>4, <1>6, <1>7, <1>8, SameTool

\* The eraser moves.
LEMMA EraseToKeeps ==
  ASSUME ToolsIInv, NEW held \in BOOLEAN, EraseTo(held), UNCHANGED <<overlay, lasers>>
  PROVE  ToolsIInv'
<1>0. canvas \in Canvases /\ Handles(canvas, drawing.tool)
  BY DEF ToolsIInv, ToolsTyped
<1>1. PICK swept : RemoveStrokes(swept)
  BY DEF EraseTo
<1>2. /\ drawing' \in Drawings /\ Permitted(drawing') /\ drawing'.tool = drawing.tool
      /\ fading' \in Fadings /\ Labelled(fading') /\ fading'.laserTimer = fading.laserTimer
  BY <1>1, Removes
<1>3. /\ canvas' \in Canvases /\ canvas'.pointing = canvas.pointing /\ drawing.tool = "eraser"
  BY <1>0 DEF EraseTo, Canvases
<1>4. Handles(canvas', drawing.tool)
  BY <1>0, <1>3 DEF Handles
<1> QED
  BY <1>2, <1>3, <1>4, SameTool

\* The selection's frame moves.
LEMMA SelectToKeeps ==
  ASSUME ToolsIInv, NEW held \in BOOLEAN, SelectTo(held), UNCHANGED <<overlay, lasers>>
  PROVE  ToolsIInv'
<1>0. /\ drawing \in Drawings /\ Permitted(drawing) /\ canvas \in Canvases
      /\ Handles(canvas, drawing.tool) /\ fading \in Fadings /\ Labelled(fading)
  BY DEF ToolsIInv, ToolsTyped
<1>1. PICK met \in SUBSET drawing.strokes : drawing' =
        IF held THEN [drawing EXCEPT !.box = TRUE]
        ELSE [drawing EXCEPT !.box = FALSE, !.selected = IF drawing.presenter THEN met ELSE {}]
  BY DEF SelectTo
<1>2. drawing.tool = "select" /\ drawing.presenter /\ UNCHANGED fading
  BY <1>0 DEF SelectTo, Permitted
<1>3. /\ drawing' \in Drawings /\ drawing'.tool = drawing.tool
      /\ drawing'.presenter = drawing.presenter /\ drawing'.enabled = drawing.enabled
      /\ drawing'.banned = drawing.banned /\ drawing'.strokes = drawing.strokes
      /\ drawing'.selected \in {drawing.selected, met}
  BY <1>0, <1>1, <1>2 DEF Drawings
<1>4. Permitted(drawing')
  BY <1>0, <1>2, <1>3 DEF Permitted, Allowed
<1>5. canvas' \in Canvases /\ canvas'.pointing = canvas.pointing
  BY <1>0 DEF SelectTo, Canvases
<1>6. Handles(canvas', drawing.tool)
  BY <1>0, <1>2, <1>5 DEF Handles
<1> QED
  BY <1>0, <1>2, <1>3, <1>4, <1>5, <1>6, SameTool

\* The mouse is pressed with whatever tool is in hand.
LEMMA PressKeeps == ToolsIInv /\ Press => ToolsIInv'
<1> SUFFICES ASSUME ToolsIInv, Press PROVE ToolsIInv'
  OBVIOUS
<1>0. /\ drawing \in Drawings /\ Permitted(drawing) /\ canvas \in Canvases
      /\ Handles(canvas, drawing.tool) /\ fading \in Fadings /\ Labelled(fading)
      /\ UNCHANGED <<overlay, lasers>>
  BY DEF ToolsIInv, ToolsTyped, Press
<1>1. PICK yes \in BOOLEAN : yes = TRUE
  OBVIOUS
<1>2. PICK none \in AllStrokes \cup {NoStroke} : none = NoStroke
  OBVIOUS
<1>3. CASE DrawTo(none, yes)
  BY <1>0, <1>3, DrawToKeeps
<1>4. CASE EraseTo(yes)
  BY <1>0, <1>4, EraseToKeeps
<1>5. CASE /\ drawing.tool = "select"
           /\ drawing' = [drawing EXCEPT !.selected = {}]
           /\ canvas' = [canvas EXCEPT !.gesture = TRUE]
           /\ UNCHANGED fading
  <2>1. /\ drawing' \in Drawings /\ drawing'.tool = drawing.tool
        /\ drawing'.presenter = drawing.presenter /\ drawing'.enabled = drawing.enabled
        /\ drawing'.banned = drawing.banned /\ drawing'.strokes = drawing.strokes
        /\ drawing'.selected = {}
    BY <1>0, <1>5 DEF Drawings
  <2>2. Permitted(drawing')
    BY <1>0, <2>1 DEF Permitted, Allowed
  <2>3. canvas' \in Canvases /\ canvas'.pointing = canvas.pointing
    BY <1>0, <1>5 DEF Canvases
  <2>4. Handles(canvas', drawing.tool)
    BY <1>0, <1>5, <2>3 DEF Handles
  <2> QED
    BY <1>0, <1>5, <2>1, <2>2, <2>3, <2>4, SameTool
<1> QED
  BY <1>1, <1>2, <1>3, <1>4, <1>5 DEF Press

\* The mouse moves, and ends the gesture when its button is up.
LEMMA DragKeeps == ToolsIInv /\ Drag => ToolsIInv'
<1> SUFFICES ASSUME ToolsIInv, Drag PROVE ToolsIInv'
  OBVIOUS
<1>0. /\ drawing \in Drawings /\ Permitted(drawing) /\ canvas \in Canvases
      /\ Handles(canvas, drawing.tool) /\ fading \in Fadings /\ Labelled(fading)
      /\ UNCHANGED <<overlay, lasers>> /\ canvas.stroke \in AllStrokes \cup {NoStroke}
  BY DEF ToolsIInv, ToolsTyped, Drag, Canvases
<1>1. PICK held \in BOOLEAN :
        \/ DrawTo(canvas.stroke, held) \/ EraseTo(held) \/ SelectTo(held)
        \/ /\ drawing.tool \in {"pen", "eraser"}
           /\ canvas' = [canvas EXCEPT !.gesture = held]
           /\ UNCHANGED <<drawing, fading>>
  BY DEF Drag
<1>2. CASE DrawTo(canvas.stroke, held)
  <2>1. PICK stroke \in AllStrokes \cup {NoStroke} : stroke = canvas.stroke
    BY <1>0
  <2> QED BY <1>0, <1>2, <2>1, DrawToKeeps
<1>3. CASE EraseTo(held)
  BY <1>0, <1>3, EraseToKeeps
<1>4. CASE SelectTo(held)
  BY <1>0, <1>4, SelectToKeeps
<1>5. CASE /\ drawing.tool \in {"pen", "eraser"}
           /\ canvas' = [canvas EXCEPT !.gesture = held]
           /\ UNCHANGED <<drawing, fading>>
  <2>1. canvas' \in Canvases /\ canvas'.pointing = canvas.pointing
    BY <1>0, <1>5 DEF Canvases
  <2>2. Handles(canvas', drawing.tool)
    BY <1>0, <1>5, <2>1 DEF Handles
  <2> QED
    BY <1>0, <1>5, <2>1, <2>2, SameTool
<1> QED
  BY <1>1, <1>2, <1>3, <1>4, <1>5

\* The canvas asks the window system where the mouse is.
LEMMA PositionTimerKeeps == ToolsIInv /\ PositionTimer => ToolsIInv'
<1> SUFFICES ASSUME ToolsIInv, PositionTimer PROVE ToolsIInv'
  OBVIOUS
<1>1. PICK source \in BOOLEAN : overlay' = Refreshed(drawing, source)
  BY DEF PositionTimer
<1>2. overlay' \in Overlays /\ Takes(overlay', drawing.tool)
  BY <1>1 DEF Refreshed, Overlays, Takes
<1> QED
  BY <1>2 DEF PositionTimer, ToolsIInv, ToolsTyped

\* A button or a key of the drawing.
LEMMA ButtonKeeps == ToolsIInv /\ (Button \/ Key) => ToolsIInv'
<1> SUFFICES ASSUME ToolsIInv, Button \/ Key PROVE ToolsIInv'
  OBVIOUS
<1>1. "none" \in Tools
  BY DEF Tools
<1>2. CASE \E wanted \in Tools : SetTool(wanted)
  BY <1>2, SetToolKeeps
<1>3. CASE Undo \/ DeleteSelection \/ ClearMine
  BY <1>3, UndoKeeps, ErasureKeeps
<1> QED
  BY <1>1, <1>2, <1>3 DEF Button, Key

\* Every step keeps the invariant.
LEMMA ToolsStepKeeps == ToolsIInv /\ [ToolsNext]_toolVars => ToolsIInv'
<1> SUFFICES ASSUME ToolsIInv, [ToolsNext]_toolVars PROVE ToolsIInv'
  OBVIOUS
<1>1. CASE UNCHANGED toolVars
  BY <1>1 DEF toolVars, ToolsIInv, ToolsTyped
<1>2. CASE \E enabled, ban \in BOOLEAN : StateArrives(enabled, ban)
  BY <1>2, StateArrivesKeeps
<1>3. CASE Button \/ Key \/ PositionTimer
  BY <1>3, ButtonKeeps, PositionTimerKeeps
<1>4. CASE OtherDraws \/ OtherErases \/ OtherPoints
  BY <1>4, OtherDrawsKeeps, ErasureKeeps, PointsKeep
<1>5. CASE ActivityTimer \/ LaserTimer
  BY <1>5, TimersKeep
<1>6. CASE Press \/ Drag \/ Hover \/ PointerLeaves \/ Heartbeat
  BY <1>6, PressKeeps, DragKeeps, PointsKeep
<1> QED
  BY <1>1, <1>2, <1>3, <1>4, <1>5, <1>6 DEF ToolsNext

\* Whatever is permitted, banned, cleared or undone in the middle of a
\* gesture, the tool in hand is permitted, no gesture outlives its tool, the
\* selection holds only strokes that are there, and all that fades has its
\* timer (ScreenDrawing of screen_drawing.cpp).
THEOREM ToolsThm == ToolsSpec => []ToolsInv
<1>1. ToolsIInv => ToolsInv
  BY DEF ToolsIInv, ToolsTyped, ToolsInv, ToolsTypeOK, ToolsFollowPermission, PointersFade,
         Permitted, Handles, Takes, Labelled, Pointed, Drawings, Canvases
<1> QED
  BY <1>1, ToolsStart, ToolsStepKeeps, PTL DEF ToolsSpec
=============================================================================
