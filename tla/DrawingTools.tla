----------------------------- MODULE DrawingTools -----------------------------
(***************************************************************************)
(* The drawing tools of one device: ScreenDrawing, its DrawingControls and *)
(* a DrawingCanvas (desktop/screen_drawing.cpp), with the calls that       *)
(* ScreenDrawingSession makes back at once.  What the other devices send   *)
(* arrives in any order.                                                   *)
(*                                                                         *)
(* A stroke is <<author, number>>.  The pen numbers the strokes of this    *)
(* device; where the mouse is, and which strokes it meets, is any choice.  *)
(***************************************************************************)
EXTENDS Integers, FiniteSets

CONSTANTS
    Self, Other,    \* this device, and another that draws on the same share
    MaxStrokes      \* bound: strokes of each

ASSUME ToolsAssumption ==
    /\ Self # Other
    /\ MaxStrokes \in Nat

VARIABLES
    drawing,    \* owner_, enabled_, banned_, tool_, strokes in segments_, removed_, selected_,
                \* selectionBox_, and the number of the last stroke begun
    canvas,     \* whether gestureStart_ is set, stroke_, whether laserPosition_ is set,
                \* and laserTimer_
    overlay,    \* PresenterOverlay: is the source on screen, how is the window shown
    lasers,     \* of lasers_: the authors whose point shows, those with a trail
    fading      \* activeAuthors_, and whether activityTimer_ and laserTimer_ run

toolVars == <<drawing, canvas, overlay, lasers, fading>>

Tools == {"none", "pen", "laser", "eraser", "select"}
NoStroke == <<Self, 0>>
Authors == {Self, Other}
AllStrokes == Authors \X (1..MaxStrokes)

Idle(c) == [c EXCEPT !.gesture = FALSE]
NoLaser(c) == [c EXCEPT !.pointing = FALSE, !.timer = FALSE]

ToolsInit ==
    /\ \E presenter \in BOOLEAN :     \* owner_: whether this device shares the screen
       drawing = [presenter |-> presenter, enabled |-> FALSE, banned |-> FALSE,
                  tool |-> "none", strokes |-> {}, removed |-> {}, selected |-> {},
                  box |-> FALSE, last |-> 0]
    /\ canvas = [gesture |-> FALSE, stroke |-> NoStroke,
                 pointing |-> FALSE, timer |-> FALSE]
    /\ overlay = [source |-> TRUE, window |-> "hidden"]
    /\ lasers = [shown |-> {}, trail |-> {}]
    /\ fading = [active |-> {}, activityTimer |-> FALSE, laserTimer |-> FALSE]

Allowed(d) == d.enabled /\ ~ d.banned                          \* drawingAllowed
MayErase(d, s) == ~ d.banned /\ (d.presenter \/ s[1] = Self)     \* canErase

\* PresenterOverlay::refresh: above the source, and open to the mouse while a
\* tool is in hand.
Refreshed(d, source) ==
    [source |-> source,
     window |-> IF ~ d.presenter \/ ~ d.enabled \/ ~ source THEN "hidden"
                ELSE IF d.tool = "none" THEN "transparent" ELSE "open"]

\* What hears changed(): the canvas and the overlay.
Changed(d) ==
    /\ canvas' = IF d.tool = "laser" THEN Idle(canvas) ELSE NoLaser(Idle(canvas))
    /\ overlay' = Refreshed(d, overlay.source)

-----------------------------------------------------------------------------
(* ScreenDrawing.                                                            *)

\* add: a segment of stroke s, whose author is active for a while.
Add(d, s) ==
    IF d.enabled /\ s \notin d.removed
      THEN /\ drawing' = [d EXCEPT !.strokes = @ \cup {s}]
           /\ fading' = [fading EXCEPT !.active = @ \cup {s[1]}, !.activityTimer = TRUE]
      ELSE drawing' = d /\ UNCHANGED fading

\* addLaser: a point of the author, or the end of its pointing.
AddLaser(author, visible) ==
    IF drawing.enabled
      THEN /\ lasers' = [shown |-> IF visible THEN lasers.shown \cup {author}
                                   ELSE lasers.shown \ {author},
                         trail |-> IF visible THEN lasers.trail \cup {author} ELSE lasers.trail]
           /\ fading' = [fading EXCEPT !.laserTimer = TRUE]
      ELSE UNCHANGED <<lasers, fading>>

\* remove, also of what was selected; the author may stop being active.
RemoveStrokes(gone) ==
    LET found == gone \cap drawing.strokes IN
    /\ drawing' = [drawing EXCEPT !.strokes = @ \ found, !.removed = @ \cup found,
                                  !.selected = @ \ found]
    /\ \E quiet \in SUBSET {s[1] : s \in found} :
        fading' = [fading EXCEPT !.active = @ \ quiet]

\* Mutant: whoever is banned keeps the tool.
BannedWithTool(d, ban) == [d EXCEPT !.banned = ban]

\* setBanned.
Banned(d, ban) ==
    IF ban = d.banned THEN d
    ELSE IF ban THEN [d EXCEPT !.banned = TRUE, !.tool = "none", !.selected = {}, !.box = FALSE]
    ELSE [d EXCEPT !.banned = FALSE]

\* setState: permission is given or taken, or the drawing cleared.  A viewer
\* learns with it whether it is banned.
StateArrives(enabled, ban) ==
    /\ ban => ~ drawing.presenter
    /\ LET d == [Banned(drawing, ban) EXCEPT !.enabled = enabled, !.strokes = {}, !.removed = {},
                             !.selected = {}, !.box = FALSE,
                             !.tool = IF enabled THEN @ ELSE "none"]
       IN  drawing' = d /\ Changed(d)
    /\ lasers' = [shown |-> {}, trail |-> {}]
    /\ fading' = [active |-> {}, activityTimer |-> FALSE, laserTimer |-> FALSE]

\* setTool: leaving the laser tells the others.
SetTool(wanted) ==
    LET tool == IF ~ Allowed(drawing) \/ (wanted = "select" /\ ~ drawing.presenter) THEN "none" ELSE wanted
        d == [drawing EXCEPT !.tool = tool, !.selected = {}, !.box = FALSE]
    IN  /\ drawing' = d
        /\ IF drawing.tool = "laser" /\ tool # "laser" THEN AddLaser(Self, FALSE)
           ELSE UNCHANGED <<lasers, fading>>
        /\ Changed(d)

\* undo: the last stroke of this device goes; a gesture must not extend it.
Undo ==
    LET mine == {s \in drawing.strokes : s[1] = Self} IN
    /\ Allowed(drawing) /\ mine # {}
    /\ RemoveStrokes({CHOOSE s \in mine : \A t \in mine : t[2] <= s[2]})
    /\ Changed(drawing)
    /\ UNCHANGED lasers

\* Delete: the selection, each stroke by its author.
DeleteSelection ==
    /\ drawing.presenter /\ Allowed(drawing) /\ drawing.tool = "select" /\ drawing.selected # {}
    /\ RemoveStrokes({s \in drawing.selected : MayErase(drawing, s)})
    /\ UNCHANGED <<canvas, overlay, lasers>>

ClearMine ==
    /\ ~ drawing.presenter /\ Allowed(drawing)
    /\ RemoveStrokes({s \in drawing.strokes : s[1] = Self})
    /\ UNCHANGED <<canvas, overlay, lasers>>

\* What the session receives of the other device.
OtherDraws ==
    /\ \E n \in 1..MaxStrokes : Add(drawing, <<Other, n>>)
    /\ UNCHANGED <<canvas, overlay, lasers>>
OtherErases ==
    /\ drawing.enabled
    /\ \E s \in drawing.strokes : (s[1] = Other \/ ~ drawing.presenter) /\ RemoveStrokes({s})
    /\ UNCHANGED <<canvas, overlay, lasers>>
OtherPoints ==
    /\ \E visible \in BOOLEAN : AddLaser(Other, visible)
    /\ UNCHANGED <<drawing, canvas, overlay>>

\* The timers of the constructor: what is old goes, and they stop with the last.
ActivityTimer ==
    /\ fading.activityTimer
    /\ \E old \in SUBSET fading.active :
        fading' = [fading EXCEPT !.active = @ \ old, !.activityTimer = fading.active # old]
    /\ UNCHANGED <<drawing, canvas, overlay, lasers>>
LaserTimer ==
    /\ fading.laserTimer
    /\ \E faded \in SUBSET lasers.trail, expired \in SUBSET lasers.shown :
        /\ expired \cap (lasers.trail \ faded) = {}     \* a trail fades before its point
        /\ lasers' = [shown |-> lasers.shown \ expired, trail |-> lasers.trail \ faded]
        /\ fading' = [fading EXCEPT !.laserTimer = lasers'.shown \cup lasers'.trail # {}]
    /\ UNCHANGED <<drawing, canvas, overlay>>

-----------------------------------------------------------------------------
(* DrawingCanvas.                                                            *)

\* drawTo inside the video: a segment of the stroke under way, or of a new one.
DrawTo(stroke, held) ==
    LET new == stroke = NoStroke
        number == drawing.last + 1
        s == IF new THEN <<Self, number>> ELSE stroke
    IN  /\ drawing.tool = "pen" /\ Allowed(drawing)
        /\ new => number <= MaxStrokes
        /\ canvas' = [canvas EXCEPT !.gesture = held, !.stroke = s]
        /\ Add(IF new THEN [drawing EXCEPT !.last = number] ELSE drawing, s)

\* eraseTo: what the eraser sweeps over.
EraseTo(held) ==
    /\ drawing.tool = "eraser"
    /\ \E swept \in SUBSET {s \in drawing.strokes : MayErase(drawing, s)} : RemoveStrokes(swept)
    /\ canvas' = [canvas EXCEPT !.gesture = held]

\* selectTo: the box follows the mouse, and selects when it is let go.
SelectTo(held) ==
    /\ drawing.tool = "select"
    /\ \E met \in SUBSET drawing.strokes : drawing' =
        IF held THEN [drawing EXCEPT !.box = TRUE]
        ELSE [drawing EXCEPT !.box = FALSE, !.selected = IF drawing.presenter THEN met ELSE {}]
    /\ canvas' = [canvas EXCEPT !.gesture = held]
    /\ UNCHANGED fading

\* pointLaser inside the video and sendLaser; outside, stopLaser.
PointLaser(inside) ==
    /\ drawing.tool = "laser" /\ Allowed(drawing)
    /\ IF inside
         THEN /\ canvas' = [canvas EXCEPT !.pointing = TRUE, !.timer = TRUE]
              /\ AddLaser(Self, TRUE) \/ UNCHANGED <<lasers, fading>>   \* not too often
         ELSE /\ canvas' = NoLaser(canvas)
              /\ IF canvas.pointing THEN AddLaser(Self, FALSE) ELSE UNCHANGED <<lasers, fading>>
    /\ UNCHANGED <<drawing, overlay>>

\* mousePressEvent.
Press ==
    /\ \/ DrawTo(NoStroke, TRUE)
       \/ EraseTo(TRUE)
       \/ /\ drawing.tool = "select"
          /\ drawing' = [drawing EXCEPT !.selected = {}]
          /\ canvas' = [canvas EXCEPT !.gesture = TRUE]
          /\ UNCHANGED fading
    /\ UNCHANGED <<overlay, lasers>>

\* mouseMoveEvent (held) and mouseReleaseEvent, of a gesture that began inside.
Drag ==
    /\ canvas.gesture
    /\ \E held \in BOOLEAN :
        \/ DrawTo(canvas.stroke, held) \/ EraseTo(held) \/ SelectTo(held)
        \/ /\ drawing.tool \in {"pen", "eraser"}        \* outside the video
           /\ canvas' = [canvas EXCEPT !.gesture = held]
           /\ UNCHANGED <<drawing, fading>>
    /\ UNCHANGED <<overlay, lasers>>

Hover == \E inside \in BOOLEAN : PointLaser(inside)

\* leaveEvent.
PointerLeaves ==
    /\ canvas' = NoLaser(canvas)
    /\ IF canvas.pointing THEN AddLaser(Self, FALSE) ELSE UNCHANGED <<lasers, fading>>
    /\ UNCHANGED <<drawing, overlay>>

\* laserTimer_ of the canvas: sendLaser keeps a pointer that rests alive.
Heartbeat ==
    /\ canvas.timer /\ canvas.pointing /\ drawing.tool = "laser"
    /\ AddLaser(Self, TRUE)
    /\ UNCHANGED <<drawing, canvas, overlay>>

\* keyPressEvent; the overlay takes the same keys.
Key ==
    \/ Undo
    \/ DeleteSelection
    \/ drawing.tool # "none" /\ SetTool("none")

\* positionTimer_ finds the shared window open, minimised or gone.
PositionTimer ==
    /\ drawing.presenter
    /\ \E source \in BOOLEAN : overlay' = Refreshed(drawing, source)
    /\ UNCHANGED <<drawing, canvas, lasers, fading>>

-----------------------------------------------------------------------------
(* DrawingControls: the buttons.                                             *)

Button ==
    \/ \E tool \in Tools \ {"none"} : SetTool(IF drawing.tool = tool THEN "none" ELSE tool)
    \/ Undo
    \/ DeleteSelection
    \/ ClearMine

ToolsNext ==
    \/ \E enabled, ban \in BOOLEAN : StateArrives(enabled, ban)
    \/ Button \/ Key \/ PositionTimer
    \/ OtherDraws \/ OtherErases \/ OtherPoints
    \/ ActivityTimer \/ LaserTimer
    \/ Press \/ Drag \/ Hover \/ PointerLeaves \/ Heartbeat

ToolsSpec == ToolsInit /\ [][ToolsNext]_toolVars

-----------------------------------------------------------------------------
ToolsTypeOK ==
    /\ drawing.tool \in Tools /\ drawing.last \in 0..MaxStrokes
    /\ drawing.strokes \subseteq AllStrokes /\ drawing.removed \subseteq AllStrokes
    /\ canvas.stroke \in AllStrokes \cup {NoStroke}

\* Permission, bans, clears, erasures and undo arrive in the middle of a gesture.
\* Whatever the order, a tool is in hand only while drawing is allowed; what is
\* selected still exists, and only the presenter's selection tool selects; the
\* mouse draws, erases or selects only with the tool that began the gesture; and
\* only the laser sends a pointer.  The overlay takes the mouse from the desktop
\* only while the presenter has a tool to leave with Esc.
ToolsFollowPermission ==
    /\ drawing.tool # "none" => Allowed(drawing)
    /\ drawing.tool = "select" => drawing.presenter
    /\ drawing.selected \subseteq drawing.strokes
    /\ drawing.selected # {} => drawing.tool = "select"
    /\ canvas.gesture => drawing.tool \in {"pen", "eraser", "select"}
    /\ canvas.pointing => drawing.tool = "laser"
    /\ overlay.window = "open" => drawing.tool # "none"

\* A label or a pointer that shows has a timer that takes it away, also when its
\* author was banned, has left or went silent (the timers stop when they find
\* nothing, and setState stops them).
PointersFade ==
    /\ fading.active # {} => fading.activityTimer
    /\ lasers.shown \cup lasers.trail # {} => fading.laserTimer

\* The drawing tools, whatever interrupts a gesture.
ToolsInv == ToolsTypeOK /\ ToolsFollowPermission /\ PointersFade
=============================================================================
