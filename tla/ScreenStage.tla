------------------------------ MODULE ScreenStage ------------------------------
(***************************************************************************)
(* The shares of a call on screen: ScreenStage and its tiles               *)
(* (desktop/screen_stage.cpp), the full screen window, and the small       *)
(* picture the panel shows beside the chat (desktop/community_panel.cpp).  *)
(* Shares start and end, are watched and left, while the user moves        *)
(* between grid, focus, full screen and chat.  A window that is closed is  *)
(* destroyed later, when another may already be open.                      *)
(***************************************************************************)
EXTENDS Integers, FiniteSets

CONSTANTS
    Mine, Theirs,   \* this device, and the peers who may share
    Nobody,
    MaxTiles        \* bound: tiles that are made

ASSUME StageAssumption ==
    /\ Mine \notin Theirs /\ Nobody \notin Theirs \cup {Mine}
    /\ MaxTiles \in Nat

VARIABLES
    shareTiles,      \* by share: its tile, 0 when there is none; a new tile has a new number
    shown,      \* of tiles: those that are watched (own included), those with a tool in hand
    stage,      \* focused_, fullscreen_ (the share, and whether the window is closing),
                \* the windows not yet destroyed, whether escape_ is enabled
    chat,       \* the panel: watching_, is the stage open, pipPeer_, the tile whose drawing
                \* the small picture shows, pipDismissed_
    made        \* the tiles made

stageVars == <<shareTiles, shown, stage, chat, made>>

Shares == Theirs \cup {Mine}
Present == {s \in Shares : shareTiles[s] # 0}

StageInit ==
    /\ shareTiles = [s \in Shares |-> 0]
    /\ shown = [watched |-> {}, tools |-> {}]
    /\ stage = [focused |-> Nobody, full |-> Nobody, closing |-> FALSE, orphan |-> FALSE,
                escape |-> FALSE]
    /\ chat = [watching |-> {}, open |-> FALSE, pip |-> Nobody, drawing |-> 0,
               dismissed |-> Nobody]
    /\ made = 0

-----------------------------------------------------------------------------
(* What several handlers share.                                            *)

\* refreshEscapeShortcut.
Escapable(full, tools) == full # Nobody \/ tools # {}
EscapeRefreshed(g, tools) == [g EXCEPT !.escape = Escapable(g.full, tools)]

\* exitFullscreen: the window is closed, and destroyed later.
ExitFullscreen(g) ==
    IF g.full = Nobody THEN g
    ELSE [g EXCEPT !.full = Nobody, !.closing = FALSE, !.orphan = TRUE]

\* Mutant: the focus stays with a tile that is gone.
RelaidAsIs(g, all) == g

\* relayout forgets the focus of a tile that is gone.
Relaid(g, all) == IF g.focused # Nobody /\ all[g.focused] = 0
                    THEN [g EXCEPT !.focused = Nobody] ELSE g

\* refreshPip: a share that is watched, else one's own, unless it was dismissed.
Candidates(all, c) ==
    LET watched == {s \in c.watching : all[s] # 0}
    IN  IF watched # {} THEN watched ELSE IF all[Mine] # 0 THEN {Mine} ELSE {Nobody}
RefreshPip(all, c) ==
    \E peer \in Candidates(all, c) :
        LET dismissed == IF peer = c.dismissed THEN c.dismissed ELSE Nobody
            show == ~ c.open /\ peer # Nobody /\ peer # dismissed
        IN  chat' = [c EXCEPT !.dismissed = dismissed, !.pip = IF show THEN peer ELSE Nobody,
                              !.drawing = IF show /\ peer # c.pip THEN all[peer] ELSE @]

-----------------------------------------------------------------------------
(* The shares.                                                             *)

\* addStream: by share, or by refresh when a presence says so; a peer whose
\* share was watched before its link was lost is watched again.
StreamStarts(s) ==
    /\ shareTiles[s] = 0 /\ made < MaxTiles
    /\ made' = made + 1
    /\ shareTiles' = [shareTiles EXCEPT ![s] = made + 1]
    /\ LET again == s \in chat.watching IN
       /\ shown' = IF again \/ s = Mine THEN [shown EXCEPT !.watched = @ \cup {s}] ELSE shown
       /\ stage' = EscapeRefreshed(IF again THEN [stage EXCEPT !.focused = s] ELSE stage, shown.tools)
    /\ RefreshPip(shareTiles', chat)

\* removeStream, when a share has ended, or its peer is offline for a while.
StreamEnds(s) ==
    /\ s \in Present
    /\ shareTiles' = [shareTiles EXCEPT ![s] = 0]
    /\ shown' = [watched |-> shown.watched \ {s}, tools |-> shown.tools \ {s}]
    /\ stage' = Relaid(EscapeRefreshed(IF stage.full = s THEN ExitFullscreen(stage) ELSE stage,
                                 shown'.tools), shareTiles')
    /\ \E offline \in BOOLEAN :
        RefreshPip(shareTiles', IF offline THEN chat ELSE [chat EXCEPT !.watching = @ \ {s}])
    /\ UNCHANGED made

\* watch(true) comes to the front, and shows the call.
WatchTile(s) ==
    /\ s \in (Present \cap Theirs) \ shown.watched
    /\ chat.open
    /\ shown' = [shown EXCEPT !.watched = @ \cup {s}]
    /\ stage' = [stage EXCEPT !.focused = s]
    /\ RefreshPip(shareTiles, [chat EXCEPT !.watching = @ \cup {s}])
    /\ UNCHANGED <<shareTiles, made>>

\* watch(false): setWatching puts the drawing, and the tool, away.
UnwatchTile(s) ==
    /\ s \in Theirs \cap shown.watched
    /\ shown' = [watched |-> shown.watched \ {s}, tools |-> shown.tools \ {s}]
    /\ stage' = EscapeRefreshed(
        [(IF stage.full = s THEN ExitFullscreen(stage) ELSE stage)
            EXCEPT !.focused = IF @ = s THEN Nobody ELSE @], shown'.tools)
    /\ RefreshPip(shareTiles, [chat EXCEPT !.watching = @ \ {s}])
    /\ UNCHANGED <<shareTiles, made>>

-----------------------------------------------------------------------------
(* The user.                                                               *)

\* A click on a tile (mouseReleaseEvent, eventFilter), and Show All.
Focus ==
    /\ chat.open
    /\ \E s \in (shown.watched \ shown.tools) \cup {Nobody} : stage' = [stage EXCEPT !.focused = s]
    /\ UNCHANGED <<shareTiles, shown, chat, made>>

\* toggleFullscreen, by the button or a double click.
ToggleFullscreen(s) ==
    /\ s \in shown.watched
    /\ stage' = EscapeRefreshed(
        IF stage.full = s THEN ExitFullscreen(stage)
        ELSE [ExitFullscreen(stage) EXCEPT !.full = s, !.closing = FALSE], shown.tools)
    /\ UNCHANGED <<shareTiles, shown, chat, made>>

\* The user closes the window itself, or leaves full screen (changeEvent).
CloseWindow ==
    /\ stage.full # Nobody /\ ~ stage.closing
    /\ stage' = [stage EXCEPT !.closing = TRUE]
    /\ UNCHANGED <<shareTiles, shown, chat, made>>

\* A view is destroyed: the current one is forgotten, an earlier one is not it.
ViewDestroyed(current) ==
    /\ IF current THEN stage.closing ELSE stage.orphan
    /\ stage' = EscapeRefreshed(
        IF current THEN [stage EXCEPT !.full = Nobody, !.closing = FALSE]
        ELSE [stage EXCEPT !.orphan = FALSE], shown.tools)
    /\ UNCHANGED <<shareTiles, shown, chat, made>>

\* A tool is taken, or put away (ScreenDrawing::changed).
TakeTool(s) ==
    /\ s \in shown.watched
    /\ shown' = [shown EXCEPT !.tools = IF s \in @ THEN @ \ {s} ELSE @ \cup {s}]
    /\ stage' = EscapeRefreshed(stage, shown'.tools)
    /\ UNCHANGED <<shareTiles, chat, made>>

\* escape_: first the tools, then full screen.
Escape ==
    /\ stage.escape
    /\ shown' = [shown EXCEPT !.tools = {}]
    /\ stage' = EscapeRefreshed(IF shown.tools # {} THEN stage ELSE ExitFullscreen(stage), {})
    /\ UNCHANGED <<shareTiles, chat, made>>

\* showCall, openStage.
OpenStage ==
    /\ RefreshPip(shareTiles, [chat EXCEPT !.open = ~ @])
    /\ UNCHANGED <<shareTiles, shown, stage, made>>

\* The cross of the small picture.
DismissPip ==
    /\ chat.pip # Nobody
    /\ RefreshPip(shareTiles, [chat EXCEPT !.dismissed = chat.pip])
    /\ UNCHANGED <<shareTiles, shown, stage, made>>

StageNext ==
    \/ \E s \in Shares : \/ StreamStarts(s) \/ StreamEnds(s) \/ WatchTile(s) \/ UnwatchTile(s)
                         \/ ToggleFullscreen(s) \/ TakeTool(s)
    \/ Focus \/ CloseWindow \/ Escape \/ OpenStage \/ DismissPip
    \/ \E current \in BOOLEAN : ViewDestroyed(current)

StageSpec == StageInit /\ [][StageNext]_stageVars

-----------------------------------------------------------------------------
StageTypeOK ==
    /\ \A s \in Shares : shareTiles[s] \in 0..MaxTiles
    /\ shown.tools \subseteq shown.watched /\ shown.watched \subseteq Present
    /\ chat.watching \subseteq Theirs

\* Nothing on screen refers to a share that is gone or no longer watched: the
\* focus, the full screen window, and the small picture, which draws on the tile
\* there is now.  Escape is taken from the rest of the program exactly while it
\* has something to end here.
StageShowsShares ==
    /\ stage.focused # Nobody => stage.focused \in Present
    /\ stage.full # Nobody => stage.full \in shown.watched
    /\ chat.pip # Nobody => ~ chat.open /\ chat.pip \in Present /\ chat.drawing = shareTiles[chat.pip]
    /\ stage.escape = (stage.full # Nobody \/ shown.tools # {})
    /\ stage.closing => stage.full # Nobody

\* The stage of a call, whatever shares begin and end.
StageInv == StageTypeOK /\ StageShowsShares
=============================================================================
