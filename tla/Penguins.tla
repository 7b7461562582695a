------------------------------ MODULE Penguins ------------------------------
(***************************************************************************)
(* The desktop penguins: one figure for every online member of the         *)
(* selected community, on a window of every display (penguin_overlay.cpp,  *)
(* community_panel.cpp refreshPenguins).                                   *)
(*                                                                         *)
(* The appearance of a member is kept in three places that change at       *)
(* different moments: the panel remembers what its packets said, the       *)
(* overlay what holds for the present members, and every window what it    *)
(* paints for the members that are not hidden for want of activity.        *)
(***************************************************************************)
EXTENDS Naturals

CONSTANTS Fellows,          \* the other members of the user's communities
          Displays,         \* the displays of the desktop
          Tints, Mint,      \* colours; the one of a member nobody has heard
          Figures, Plain,   \* uploaded figures; the one the program includes
          IdleAfter,        \* the minutes after which a figure hides
          MaxMinutes, MaxTurns  \* bounds: the clock; rosters and packets

ASSUME PenguinAssumption ==
    /\ Mint \in Tints /\ Plain \in Figures
    /\ IdleAfter \in Nat \ {0} /\ MaxMinutes \in Nat /\ MaxTurns \in Nat

VARIABLES
    roster,   \* the node: connected, who is online, and a refresh is queued
    looks,    \* the panel: the appearance of the members it has heard of
    penguinOverlay,  \* the overlay's members, their activity and appearance
    windows,  \* per display: what its window paints, or NoWindow
    minutes,  \* the clock, in minutes
    turns     \* bound

penguinVars == <<roster, looks, penguinOverlay, windows, minutes, turns>>

NoWindow == [open |-> FALSE]
Default == [tint |-> Mint, figure |-> Plain]
Looks == [tint: Tints, figure: Figures]
Undressed(scope) == [p \in scope |-> Default]

PenguinTypeOK ==
    /\ roster \in [connected: BOOLEAN, online: SUBSET Fellows, queued: BOOLEAN]
    /\ looks \in [Fellows -> Looks]
    /\ penguinOverlay.members \subseteq Fellows /\ penguinOverlay.shown \subseteq penguinOverlay.members
    /\ penguinOverlay.enabled \in BOOLEAN
    /\ penguinOverlay.active \in [penguinOverlay.members -> 0 .. MaxMinutes]
    /\ penguinOverlay.looks \in [penguinOverlay.members -> Looks]
    /\ \A d \in DOMAIN windows : windows[d] # NoWindow =>
          windows[d].looks \in [penguinOverlay.shown -> Looks]

PenguinInit ==
    /\ roster = [connected |-> FALSE, online |-> {}, queued |-> FALSE]
    /\ looks = Undressed(Fellows)
    /\ penguinOverlay = [members |-> {}, shown |-> {}, enabled |-> TRUE,
                  active |-> [p \in {} |-> 0], looks |-> Undressed({})]
    /\ windows \in {[d \in S |-> NoWindow] : S \in SUBSET Displays \ {{}}}
    /\ minutes = 0 /\ turns = 0

Turn == turns < MaxTurns /\ turns' = turns + 1

-----------------------------------------------------------------------------
(* activeMembers, at a time.                                               *)
ActiveMembers(o, now) == {p \in o.members : now - o.active[p] < IdleAfter}

(* A window with those members, each as the overlay knows it.              *)
Window(o, shown) ==
    IF o.enabled /\ shown # {}
    THEN [open |-> TRUE, looks |-> [p \in shown |-> o.looks[p]]]
    ELSE NoWindow

(* syncScreens: a window on every display there is, with the figures of    *)
(* those who are active; no window when there is nobody to paint.          *)
SyncScreens(o, displays, now) ==
    LET shown == ActiveMembers(o, now)
    IN /\ penguinOverlay' = [o EXCEPT !.shown = shown]
       /\ windows' = [d \in displays |-> Window(o, shown)]

(* What the windows paint changes for the figures they show.               *)
Repaint(o) ==
    /\ penguinOverlay' = o
    /\ windows' = [d \in DOMAIN windows |->
          IF windows[d] = NoWindow THEN NoWindow
          ELSE [windows[d] EXCEPT !.looks = [p \in DOMAIN @ |-> o.looks[p]]]]

(* Mutant: only those who become active are looked for.            *)
SyncArrivals(o, now) ==
    IF ActiveMembers(o, now) \subseteq o.shown THEN Repaint(o)
    ELSE SyncScreens(o, DOMAIN windows, now)

(* Whoever is active from now on, if that differs from what is shown.      *)
SyncActivity(o, now) ==
    IF ActiveMembers(o, now) # o.shown THEN SyncScreens(o, DOMAIN windows, now) ELSE Repaint(o)

(* The overlay's setMembers: newcomers get their grace period, and nothing *)
(* of those who left is kept.  The same members again change nothing.      *)
SetMembers(o, S) ==
    [o EXCEPT !.members = S,
              !.active = [p \in S |-> IF p \in o.members THEN o.active[p] ELSE minutes],
              !.looks = [p \in S |-> IF p \in o.members THEN o.looks[p] ELSE Default]]

(* setColor and setCustomSprites for every member, on every window.        *)
Dressed(o, known) == [o EXCEPT !.looks = [p \in o.members |-> known[p]]]

(* A message was sent or received.                                         *)
NoteActivity(o, p) ==
    [o EXCEPT !.active = [q \in DOMAIN @ |-> IF q = p THEN minutes ELSE @[q]]]

(* refreshPenguins: the members online in the selected community, as the   *)
(* panel knows them; a disconnected panel knows nobody.                    *)
RefreshPenguins(known) ==
    IF roster.connected
    THEN LET o == SetMembers(penguinOverlay, roster.online)
         IN /\ looks' = known
            /\ IF o.members # penguinOverlay.members
               THEN SyncScreens(Dressed(o, known), DOMAIN windows, minutes)
               ELSE Repaint(Dressed(o, known))
    ELSE /\ looks' = Undressed(Fellows)
         /\ SyncScreens(SetMembers(penguinOverlay, {}), DOMAIN windows, minutes)

-----------------------------------------------------------------------------
(* The node's roster changes, or another community is selected: `changed'. *)
RosterChanges(connected, S) ==
    /\ Turn
    /\ ~connected => S = {}
    /\ roster' = [connected |-> connected, online |-> S, queued |-> TRUE]
    /\ UNCHANGED <<looks, penguinOverlay, windows, minutes>>

(* The queued refresh; it forgets those who are members of nothing.        *)
RosterRefresh(departed) ==
    /\ roster.queued /\ departed \intersect roster.online = {}
    /\ roster' = [roster EXCEPT !.queued = FALSE]
    /\ RefreshPenguins([p \in Fellows |-> IF p \in departed THEN Default ELSE looks[p]])
    /\ UNCHANGED <<minutes, turns>>

(* A packet "sprite": a complete upload, or none any more.                 *)
SpriteArrives(p, figure) ==
    /\ Turn /\ p \in roster.online
    /\ RefreshPenguins([looks EXCEPT ![p].figure = figure])
    /\ UNCHANGED <<roster, minutes>>

(* A packet "chat": the colour, and the activity that shows the figure.    *)
ChatArrives(p, tint) ==
    /\ Turn /\ p \in roster.online
    /\ looks' = [looks EXCEPT ![p].tint = tint]
    /\ SyncActivity(NoteActivity([penguinOverlay EXCEPT !.looks =
                       [q \in DOMAIN @ |-> IF q = p THEN [@[q] EXCEPT !.tint = tint]
                                           ELSE @[q]]], p), minutes)
    /\ UNCHANGED <<roster, minutes>>

(* Time passes, and the activity timer looks at who is still active.       *)
MinutePasses ==
    /\ minutes < MaxMinutes
    /\ minutes' = minutes + 1
    /\ SyncActivity(penguinOverlay, minutes')
    /\ UNCHANGED <<roster, looks, turns>>

SetEnabled(enabled) ==
    /\ Turn /\ enabled # penguinOverlay.enabled
    /\ SyncScreens([penguinOverlay EXCEPT !.enabled = enabled], DOMAIN windows, minutes)
    /\ UNCHANGED <<roster, looks, minutes>>

(* A display is added or removed.                                          *)
DisplaysChange(S) ==
    /\ Turn /\ S # {} /\ S # DOMAIN windows
    /\ SyncScreens(penguinOverlay, S, minutes)
    /\ UNCHANGED <<roster, looks, minutes>>

PenguinNext ==
    \/ \E connected \in BOOLEAN, S \in SUBSET Fellows : RosterChanges(connected, S)
    \/ \E departed \in SUBSET Fellows : RosterRefresh(departed)
    \/ \E p \in Fellows :
          \/ \E figure \in Figures : SpriteArrives(p, figure)
          \/ \E tint \in Tints : ChatArrives(p, tint)
    \/ MinutePasses
    \/ \E enabled \in BOOLEAN : SetEnabled(enabled)
    \/ \E S \in SUBSET Displays : DisplaysChange(S)

PenguinSpec == PenguinInit /\ [][PenguinNext]_penguinVars

-----------------------------------------------------------------------------
(* Every display shows the same figures: those of the online members that  *)
(* have been active, each as the panel knows it; none is left of a member  *)
(* that went away, of an old upload or of a display that was unplugged.    *)
OverlayShowsTheOnline ==
    /\ \A d \in DOMAIN windows :
          IF penguinOverlay.enabled /\ penguinOverlay.shown # {}
          THEN /\ windows[d] # NoWindow
               /\ windows[d].looks = [p \in ActiveMembers(penguinOverlay, minutes) |-> penguinOverlay.looks[p]]
          ELSE windows[d] = NoWindow
    /\ ~roster.queued =>
          /\ penguinOverlay.members = roster.online
          /\ \A p \in penguinOverlay.members : penguinOverlay.looks[p] = looks[p]

(* The overlay at every turn of the panel.                                 *)
PenguinInv == PenguinTypeOK /\ OverlayShowsTheOnline
=============================================================================
