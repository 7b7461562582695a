------------------------------ MODULE ShareSound ------------------------------
(***************************************************************************)
(* The sound of a watched share: desktop/screen_audio.cpp with what the    *)
(* panel asks of it.  The panel posts jobs to the playback thread; there   *)
(* the sink of the sharer pulls from a PlaybackBuffer, which holds back a  *)
(* cushion, grows it when it ran dry and shrinks it while it is steady.    *)
(*                                                                         *)
(* Sound is counted in pieces of one length; one sharer, several devices.  *)
(***************************************************************************)
EXTENDS Integers, Sequences

CONSTANTS
    Outputs, Volumes,
    PacketLength,           \* what a decoded packet holds
    SinkRead,               \* what the sink asks for at a time
    Prefill, MaxCushion, Settle,
    MaxJobs, MaxChanges     \* bounds: posted jobs, choices of the user

ASSUME ShareSoundAssumption ==
    /\ Outputs # {} /\ Volumes # {}
    /\ {PacketLength, SinkRead, Prefill, MaxCushion, Settle, MaxJobs} \subseteq Nat \ {0}
    /\ Prefill <= MaxCushion
    /\ MaxChanges \in Nat

VARIABLES
    listener,   \* panel: is the share watched, the chosen device and volume
    jobs,       \* the work posted to the playback thread
    player,     \* there: device_, volumes_, and whether the sharer has a stream
    buffer,     \* the PlaybackBuffer of that stream
    broken      \* the devices that refuse to play

shareSoundVars == <<listener, jobs, player, buffer, broken>>

Growth == Prefill \div 4
Unmeasured == 2 * MaxCushion + PacketLength + 1
AtMost(a, b) == IF a < b THEN a ELSE b
AtLeast(a, b) == IF a < b THEN b ELSE a

Empty == [pending |-> 0, cushion |-> Prefill, playing |-> FALSE, starving |-> FALSE,
          starved |-> 0, steady |-> 0, lowest |-> Unmeasured]

ShareSoundInit ==
    /\ listener \in [watching : {FALSE}, output : Outputs, volume : Volumes, changes : {0}]
    /\ jobs = <<>>
    /\ player = [output |-> listener.output, volume |-> listener.volume, stream |-> FALSE,
                 plays |-> [output |-> listener.output, volume |-> listener.volume]]
    /\ buffer = Empty
    /\ broken = {}

-----------------------------------------------------------------------------
(* PlaybackBuffer.                                                           *)

\* push: after a shortage the cushion grows by what was missing, and more.
Pushed(b) ==
    LET cushion == IF b.starving THEN AtMost(b.cushion + b.starved + Growth, MaxCushion)
                   ELSE b.cushion
        pending == b.pending + PacketLength
    IN  [b EXCEPT !.cushion = cushion, !.starving = FALSE,
                  !.pending = IF pending > 2 * cushion THEN cushion ELSE pending]

\* readData, once the cushion is there; a long steady stretch shrinks it.
ReadFrom(b) ==
    LET playing == b.playing \/ b.pending >= b.cushion
        copied == IF playing THEN AtMost(SinkRead, b.pending) ELSE 0
        left == b.pending - copied
        lowest == AtMost(b.lowest, left)
        settled == b.steady + copied >= Settle
    IN  IF playing /\ copied < SinkRead
          THEN [b EXCEPT !.pending = left, !.playing = FALSE, !.starving = TRUE,
                         !.starved = SinkRead - copied, !.steady = 0, !.lowest = Unmeasured]
        ELSE IF playing
          THEN [b EXCEPT !.pending = left, !.playing = TRUE,
                         !.steady = IF settled THEN 0 ELSE @ + copied,
                         !.lowest = IF settled THEN Unmeasured ELSE lowest,
                         !.cushion = IF settled /\ lowest > Growth
                                       THEN AtLeast(@ - Growth, Prefill) ELSE @]
        \* Beyond MaxCushion, how long it starves makes no difference.
        ELSE [b EXCEPT !.starved = IF b.starving THEN AtMost(@ + SinkRead, MaxCushion) ELSE @]

\* The sink reads on a thread of its own; a mutex keeps the two apart.
SinkReads ==
    /\ player.stream
    /\ buffer' = ReadFrom(buffer)
    /\ UNCHANGED <<listener, jobs, player, broken>>

-----------------------------------------------------------------------------
(* ScreenAudioPlayer: the playback thread.                                   *)

\* start, and the packet pushed to the stream there is then.
Play ==
    LET starts == ~ player.stream /\ player.output \notin broken IN
    /\ player' = IF starts
         THEN [player EXCEPT !.stream = TRUE,
                             !.plays = [output |-> player.output, volume |-> player.volume]]
         ELSE player
    /\ buffer' = IF starts THEN Pushed(Empty) ELSE IF player.stream THEN Pushed(buffer) ELSE buffer

\* A job posted by setOutputDevice, setVolume, play or remove.
RunJob ==
    /\ jobs # <<>>
    /\ jobs' = Tail(jobs)
    /\ LET job == Head(jobs) IN
       \/ job.type = "play" /\ Play
       \/ /\ job.type = "output"
          /\ player' = [player EXCEPT !.output = job.output, !.stream = FALSE]
          /\ buffer' = Empty
       \/ /\ job.type = "volume"
          /\ player' = [player EXCEPT !.volume = job.volume, !.plays.volume = job.volume]
          /\ UNCHANGED buffer
       \/ /\ job.type = "remove"
          /\ player' = [player EXCEPT !.stream = FALSE]
          /\ buffer' = Empty
    /\ UNCHANGED <<listener, broken>>

-----------------------------------------------------------------------------
(* The panel.                                                                *)

\* Mutant: a full queue drops the job.
PostOrDrop(job) == jobs' = IF Len(jobs) < MaxJobs THEN Append(jobs, job) ELSE jobs

Post(job) == Len(jobs) < MaxJobs /\ jobs' = Append(jobs, job)
Chooses == listener.changes < MaxChanges

\* receive (screen-audio) plays what a watched share sends; a deaf listener
\* has the sharer send nothing.
PacketArrives ==
    /\ listener.watching
    /\ Post([type |-> "play"])
    /\ UNCHANGED <<listener, player, buffer, broken>>

\* watch, and the end of the share or of the call.
ToggleWatch ==
    /\ Chooses
    /\ listener' = [listener EXCEPT !.watching = ~ @, !.changes = @ + 1]
    /\ IF listener.watching THEN Post([type |-> "remove"]) ELSE UNCHANGED jobs
    /\ UNCHANGED <<player, buffer, broken>>

\* settings.
ChooseOutput ==
    /\ Chooses
    /\ \E output \in Outputs \ {listener.output} :
        /\ listener' = [listener EXCEPT !.output = output, !.changes = @ + 1]
        /\ Post([type |-> "output", output |-> output])
    /\ UNCHANGED <<player, buffer, broken>>

\* setStreamVolume.
ChooseVolume ==
    /\ Chooses
    /\ \E volume \in Volumes \ {listener.volume} :
        /\ listener' = [listener EXCEPT !.volume = volume, !.changes = @ + 1]
        /\ Post([type |-> "volume", volume |-> volume])
    /\ UNCHANGED <<player, buffer, broken>>

\* A device is unplugged, or plugged in again.
DeviceChanges ==
    /\ Chooses
    /\ listener' = [listener EXCEPT !.changes = @ + 1]
    /\ \E output \in Outputs : broken' = IF output \in broken THEN broken \ {output}
                                         ELSE broken \cup {output}
    /\ UNCHANGED <<jobs, player, buffer>>

ShareSoundNext ==
    \/ SinkReads \/ RunJob \/ PacketArrives
    \/ ToggleWatch \/ ChooseOutput \/ ChooseVolume \/ DeviceChanges

\* The two threads run, and a share that is watched sends sound.
ShareSoundFairness ==
    /\ WF_shareSoundVars(RunJob) /\ WF_shareSoundVars(SinkReads)
    /\ SF_shareSoundVars(PacketArrives)

ShareSoundSpec == ShareSoundInit /\ [][ShareSoundNext]_shareSoundVars /\ ShareSoundFairness

-----------------------------------------------------------------------------
ShareSoundTypeOK ==
    /\ buffer.pending \in 0..(2 * MaxCushion)
    /\ buffer.cushion \in Prefill..MaxCushion
    /\ buffer.starved \in 0..(MaxCushion + SinkRead)
    /\ buffer.steady \in 0..Settle
    /\ broken \subseteq Outputs

\* Once the playback thread has caught up, no share plays that is not watched,
\* and one that plays has the device and the volume last chosen, whatever was
\* chosen before its stream began or while its packets were waiting.
ShareSoundFollows ==
    jobs = <<>> =>
        /\ player.stream => listener.watching
        /\ player.stream => player.plays = [output |-> listener.output, volume |-> listener.volume]

\* A share that stays watched on a working device is heard again after every
\* shortage: the cushion it waits for is one that can fill.
SoundComesBack ==
    <>[](listener.watching /\ listener.output \notin broken) => []<>buffer.playing

\* The sound of a watched share, as ScreenAudioPlayer and PlaybackBuffer play it:
\* well-typed, on the chosen device, and never silent for good.
ShareIsHeard == [](ShareSoundTypeOK /\ ShareSoundFollows) /\ SoundComesBack
=============================================================================
