------------------------------ MODULE MCDesktop ------------------------------
(***************************************************************************)
(* The desktop's own machines, one instance for TLC.  They share no        *)
(* variable, and what they promise does not depend on one another, so a    *)
(* behaviour lets one of them run and leaves the others as they began:     *)
(* "machine" names the one that runs.                                      *)
(***************************************************************************)
EXTENDS Updater, Calls, Notifications, PanelState, SharedDrawing,
        Media, SoundCapture, DrawingTools, VoiceSound,
        ScreenStage, NodeStore, Penguins

CONSTANTS peer1, peer2

VARIABLE machine

MCReleaseFiles == <<{"exe"}, {"exe", "lib"}, {"lib"}>>
MCRooms == {<<"c", 1>>, <<"c", 2>>, <<"d", 1>>}

Machines == {"updater", "calls", "notifications", "images", "history",
    "drawing", "picker", "chat", "capture", "tools", "voice", "stage",
    "store", "penguins"}

-----------------------------------------------------------------------------
\* An idle machine that may begin in several states begins in one of them.
OneOf(S) == CHOOSE s \in S : TRUE
PickerRests == picker.provider = OneOf(Providers)
CaptureRests == played = [i \in SinkInputs |-> NoSink]
ToolsRest == ~ drawing.presenter
StoreRests ==
    /\ disk.profile = [name |-> OneOf(OwnNames), bio |-> NoBio]
    /\ disk.shown = [c \in Groups |-> NotHeld]
    /\ form.link = NoGroup
NotificationsRest == backend = "native"
PenguinsRest == DOMAIN windows = Displays

DesktopInit ==
    /\ machine \in Machines
    /\ UpdaterInit /\ CallsInit /\ ImageInit
    /\ NotificationsInit /\ (machine # "notifications" => NotificationsRest)
    /\ HistoryInit /\ DrawingInit /\ VoiceSoundInit /\ StageInit
    /\ MediaInit /\ (machine # "picker" => PickerRests)
    /\ SoundInit /\ (machine # "capture" => CaptureRests)
    /\ ToolsInit /\ (machine # "tools" => ToolsRest)
    /\ StoreInit /\ (machine # "store" => StoreRests)
    /\ PenguinInit /\ (machine # "penguins" => PenguinsRest)

-----------------------------------------------------------------------------
\* Media is two machines, which share the fetcher: the picker with its tiles, and
\* the transcript beside a picker that is opened once.
PickerNext == MediaNext /\ nextEmbed' = 0
ChatNext ==
    /\ MediaNext
    /\ picker'.generation <= 1
    /\ picker'.provider = picker.provider /\ picker'.text = picker.text

\* Where notifications cannot all be taken back, the settings move by muting, the
\* window hides when it is not active, and over D-Bus, where what is known of one
\* sender's ids is apart from the other's, one sender writes.
NoticesNext ==
    /\ NotificationsNext
    /\ backend # "native" =>
          /\ settings' = [settings EXCEPT !.muted = settings'.muted]
          /\ window'.visible = window'.active
    /\ backend = "freedesktop" => DOMAIN lastShown' \subseteq {OneOf(Senders)}

\* After a ban, a stop or a fault, a packet is sent only when none waits for the
\* same device.
InkNext ==
    /\ DrawingNext
    /\ mishaps > 0 => \A v \in Viewers :
          /\ Len(toSharer'[v]) > Len(toSharer[v]) => toSharer[v] = <<>>
          /\ SharerDraws \/ SharerErases \/ RequestPermission => toViewer[v] = <<>>

AllVars == <<updaterVars, callsVars, notificationVars, imageVars, historyVars,
    drawingVars, mediaVars, soundVars, toolVars, voiceSoundVars, stageVars,
    storeVars, penguinVars, machine>>

UpdaterRuns == machine = "updater" /\ UpdaterNext
    /\ UNCHANGED <<callsVars, notificationVars, imageVars, historyVars,
        drawingVars, mediaVars, soundVars, toolVars, voiceSoundVars, stageVars,
        storeVars, penguinVars, machine>>
CallsRun == machine = "calls" /\ CallsNext
    /\ UNCHANGED <<updaterVars, notificationVars, imageVars, historyVars,
        drawingVars, mediaVars, soundVars, toolVars, voiceSoundVars, stageVars,
        storeVars, penguinVars, machine>>
NotificationsRun == machine = "notifications" /\ NoticesNext
    /\ UNCHANGED <<updaterVars, callsVars, imageVars, historyVars,
        drawingVars, mediaVars, soundVars, toolVars, voiceSoundVars, stageVars,
        storeVars, penguinVars, machine>>
ImagesRun == machine = "images" /\ ImageNext
    /\ UNCHANGED <<updaterVars, callsVars, notificationVars, historyVars,
        drawingVars, mediaVars, soundVars, toolVars, voiceSoundVars, stageVars,
        storeVars, penguinVars, machine>>
HistoryRuns == machine = "history" /\ HistoryNext
    /\ UNCHANGED <<updaterVars, callsVars, notificationVars, imageVars,
        drawingVars, mediaVars, soundVars, toolVars, voiceSoundVars, stageVars,
        storeVars, penguinVars, machine>>
DrawingRuns == machine = "drawing" /\ InkNext
    /\ UNCHANGED <<updaterVars, callsVars, notificationVars, imageVars,
        historyVars, mediaVars, soundVars, toolVars, voiceSoundVars, stageVars,
        storeVars, penguinVars, machine>>
MediaRuns ==
    /\ \/ machine = "picker" /\ PickerNext
       \/ machine = "chat" /\ ChatNext
    /\ UNCHANGED <<updaterVars, callsVars, notificationVars, imageVars,
        historyVars, drawingVars, soundVars, toolVars, voiceSoundVars,
        stageVars, storeVars, penguinVars, machine>>
CaptureRuns == machine = "capture" /\ SoundNext
    /\ UNCHANGED <<updaterVars, callsVars, notificationVars, imageVars,
        historyVars, drawingVars, mediaVars, toolVars, voiceSoundVars,
        stageVars, storeVars, penguinVars, machine>>
ToolsRun == machine = "tools" /\ ToolsNext
    /\ UNCHANGED <<updaterVars, callsVars, notificationVars, imageVars,
        historyVars, drawingVars, mediaVars, soundVars, voiceSoundVars,
        stageVars, storeVars, penguinVars, machine>>
VoiceRuns == machine = "voice" /\ VoiceSoundNext
    /\ UNCHANGED <<updaterVars, callsVars, notificationVars, imageVars,
        historyVars, drawingVars, mediaVars, soundVars, toolVars, stageVars,
        storeVars, penguinVars, machine>>
StageRuns == machine = "stage" /\ StageNext
    /\ UNCHANGED <<updaterVars, callsVars, notificationVars, imageVars,
        historyVars, drawingVars, mediaVars, soundVars, toolVars,
        voiceSoundVars, storeVars, penguinVars, machine>>
StoreRuns == machine = "store" /\ StoreNext
    /\ UNCHANGED <<updaterVars, callsVars, notificationVars, imageVars,
        historyVars, drawingVars, mediaVars, soundVars, toolVars,
        voiceSoundVars, stageVars, penguinVars, machine>>
PenguinsRun == machine = "penguins" /\ PenguinNext
    /\ UNCHANGED <<updaterVars, callsVars, notificationVars, imageVars,
        historyVars, drawingVars, mediaVars, soundVars, toolVars,
        voiceSoundVars, stageVars, storeVars, machine>>

DesktopNext ==
    \/ UpdaterRuns \/ CallsRun \/ NotificationsRun \/ ImagesRun \/ HistoryRuns
    \/ DrawingRuns \/ MediaRuns \/ CaptureRuns \/ ToolsRun \/ VoiceRuns
    \/ StageRuns \/ StoreRuns \/ PenguinsRun

DesktopSpec == DesktopInit /\ [][DesktopNext]_AllVars
=============================================================================
