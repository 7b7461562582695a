--------------------------- MODULE SharedDrawing ---------------------------
(***************************************************************************)
(* Drawing on a share: desktop/screen_drawing_session.cpp over the model   *)
(* of ScreenDrawing (desktop/screen_drawing.cpp), carried by the messages  *)
(* of common/drawing_protocol.cpp.  The device that shares owns the ink;   *)
(* viewers preview their own strokes and hear the rest from it.            *)
(*                                                                         *)
(* A segment is <<author, stroke, id>>; each author numbers its own, and a *)
(* stroke is named by its first.  Links deliver in order; a packet that is *)
(* sent or arrives while a link exchanges metadata is lost.                *)
(***************************************************************************)
EXTENDS Integers, Sequences, FiniteSets, SequencesExt

CONSTANTS
    Viewers, Sharer,
    MaxSegments,    \* kMaxDrawSegments
    MaxAttempts,    \* the requests before "drawing unavailable"
    MaxEpochs, MaxDrawn, MaxMishaps, \* bounds: resets, segments, bans and faults,
    MaxUnderway                     \* packets that wait when another is sent

ASSUME DrawingAssumption ==
    /\ Sharer \notin Viewers
    /\ MaxSegments \in Nat \ {0} /\ MaxAttempts \in Nat \ {0}
    /\ MaxEpochs \in Nat \ {0} /\ MaxDrawn \in Nat /\ MaxMishaps \in Nat
    /\ MaxUnderway \in Nat

VARIABLES
    picture,    \* the ScreenDrawing of each device: see Blank
    session,    \* sharer: viewers_, banned_; viewer: watching_, retry_
    toSharer, toViewer, \* the packets underway, by viewer
    missed,     \* the viewers who lost a packet since their last snapshot
    restarted,  \* the viewers who number again while their ink is remembered
    mishaps

drawingVars == <<picture, session, toSharer, toViewer, missed, restarted, mishaps>>

Devices == Viewers \cup {Sharer}
Blank(enabled, epoch, banned, next) ==
    [enabled |-> enabled, epoch |-> epoch, banned |-> banned, next |-> next,
     ink |-> {}, received |-> {}, removed |-> {}]

DrawingInit ==
    /\ picture = [d \in Devices |-> Blank(FALSE, IF d = Sharer THEN 1 ELSE 0, FALSE, 0)]
    /\ session = [viewers |-> {}, banned |-> {}, watching |-> {},
                  attempts |-> [v \in Viewers |-> MaxAttempts]]   \* no retry runs
    /\ toSharer = [v \in Viewers |-> <<>>] /\ toViewer = [v \in Viewers |-> <<>>]
    /\ missed = {} /\ restarted = {}
    /\ mishaps = 0

-----------------------------------------------------------------------------
(* ScreenDrawing.                                                            *)

\* ScreenDrawing::setState.
SetState(p, enabled, epoch) == Blank(enabled, epoch, p.banned, p.next)

\* ScreenDrawing::add.
Full(p) == Cardinality(p.received) >= MaxSegments
Adds(p, epoch, s) ==
    /\ p.enabled /\ epoch = p.epoch /\ ~ Full(p)
    /\ <<s[1], s[2]>> \notin p.removed /\ <<s[1], s[3]>> \notin p.received
AddSegment(p, epoch, s) ==
    IF Adds(p, epoch, s)
      THEN [p EXCEPT !.ink = @ \cup {s}, !.received = @ \cup {<<s[1], s[3]>>}]
      ELSE p

\* Mutant: a removed stroke is not remembered.
ForgetStroke(p, author, stroke) ==
    [p EXCEPT !.ink = {s \in @ : <<s[1], s[2]>> # <<author, stroke>>}]

\* ScreenDrawing::remove remembers the strokes it found.
RemoveStroke(p, author, stroke) ==
    LET gone == {s \in p.ink : s[1] = author /\ s[2] = stroke}
    IN  IF gone = {} THEN p
        ELSE [p EXCEPT !.ink = @ \ gone, !.removed = @ \cup {<<author, stroke>>}]

\* DrawingCanvas::drawTo: a new stroke, or more of the last one.
NewSegments(d) ==
    LET id == picture[d].next + 1
    IN  {<<d, id, id>>} \cup {<<d, s[2], id>> : s \in {t \in picture[d].ink : t[1] = d}}
Strokes(p) == {<<s[1], s[2]>> : s \in p.ink}

-----------------------------------------------------------------------------
(* The messages.                                                             *)

Watch(on) == [type |-> "watch", on |-> on]
State(p, banned) == [type |-> "state", on |-> p.enabled, epoch |-> p.epoch, banned |-> banned]
Draw(epoch, s) == [type |-> "draw", epoch |-> epoch, segment |-> s]
Erase(epoch, stroke) == [type |-> "erase", epoch |-> epoch, stroke |-> stroke]

Broadcast(message) == toViewer' = [v \in Viewers |->
    IF v \in session.viewers THEN Append(toViewer[v], message) ELSE toViewer[v]]

\* sendSnapshot: the state and the ink.
Snapshot(p, banned) ==
    <<State(p, banned)>> \o
        [i \in 1..Cardinality(p.ink) |-> Draw(p.epoch, SetToSeq(p.ink)[i])]

SharerMaySend == \A v \in Viewers : Len(toViewer[v]) <= MaxUnderway

-----------------------------------------------------------------------------
(* The device that shares.                                                   *)

\* reset: permission is given or taken, or the drawing is cleared.
Reset(enabled) ==
    LET p == SetState(picture[Sharer], enabled, picture[Sharer].epoch + 1) IN
    /\ p.epoch <= MaxEpochs
    /\ picture' = [picture EXCEPT ![Sharer] = p]
    /\ toViewer' = [v \in Viewers |-> IF v \in session.viewers
            THEN Append(toViewer[v], State(p, v \in session.banned)) ELSE toViewer[v]]
    /\ missed' = missed \ session.viewers
    /\ restarted' = {}

RequestPermission ==
    /\ SharerMaySend
    /\ \/ Reset(~ picture[Sharer].enabled)
       \/ picture[Sharer].enabled /\ Reset(TRUE)    \* clear all
    /\ UNCHANGED <<session, toSharer, mishaps>>

\* accept: a full record clears the drawing, and the segment with it.
Accept(epoch, s) ==
    LET p == picture[Sharer] IN
    IF p.enabled /\ epoch = p.epoch /\ Full(p) THEN Reset(TRUE)
    ELSE /\ picture' = [picture EXCEPT ![Sharer] = AddSegment(p, epoch, s)]
         /\ IF Adds(p, epoch, s) THEN Broadcast(Draw(epoch, s)) ELSE UNCHANGED toViewer
         /\ UNCHANGED <<missed, restarted>>

SharerDraws ==
    /\ SharerMaySend
    /\ picture[Sharer].enabled /\ picture[Sharer].next < MaxDrawn
    /\ \E s \in NewSegments(Sharer) :
        LET numbered == [picture[Sharer] EXCEPT !.next = @ + 1] IN
        IF Full(numbered) THEN Reset(TRUE)
        ELSE /\ picture' = [picture EXCEPT ![Sharer] = AddSegment(numbered, numbered.epoch, s)]
             /\ IF Adds(numbered, numbered.epoch, s) THEN Broadcast(Draw(numbered.epoch, s))
                ELSE UNCHANGED toViewer
             /\ UNCHANGED <<missed, restarted>>
    /\ UNCHANGED <<session, toSharer, mishaps>>

\* erase by the sharer: any stroke, told to every viewer.
SharerErases ==
    /\ picture[Sharer].enabled /\ SharerMaySend
    /\ \E k \in Strokes(picture[Sharer]) :
        /\ picture' = [picture EXCEPT ![Sharer] = RemoveStroke(@, k[1], k[2])]
        /\ Broadcast(Erase(picture[Sharer].epoch, k))
    /\ UNCHANGED <<session, toSharer, missed, restarted, mishaps>>

\* setBanned replays the ink, to discard what the ban made it refuse.
Ban(v) ==
    /\ mishaps < MaxMishaps /\ mishaps' = mishaps + 1
    /\ LET ban == v \notin session.banned IN
       /\ session' = [session EXCEPT !.banned = IF ban THEN @ \cup {v} ELSE @ \ {v}]
       /\ IF v \in session.viewers
            THEN /\ toViewer' = [toViewer EXCEPT ![v] = @ \o Snapshot(picture[Sharer], ban)]
                 /\ missed' = missed \ {v}
            ELSE UNCHANGED <<toViewer, missed>>
    /\ UNCHANGED <<picture, toSharer, restarted>>

\* receive, of the owner.
SharerReceives(v) ==
    /\ toSharer[v] # <<>>
    /\ toSharer' = [toSharer EXCEPT ![v] = Tail(@)]
    /\ LET m == Head(toSharer[v])
           p == picture[Sharer]
           may == v \in session.viewers /\ v \notin session.banned IN
       \/ /\ m.type = "watch"
          /\ session' = [session EXCEPT !.viewers = IF m.on THEN @ \cup {v} ELSE @ \ {v}]
          /\ IF m.on THEN /\ toViewer' = [toViewer EXCEPT ![v] =
                                @ \o Snapshot(p, v \in session.banned)]
                          /\ missed' = missed \ {v}
             ELSE UNCHANGED <<toViewer, missed>>
          /\ UNCHANGED <<picture, restarted>>
       \/ /\ m.type = "draw"
          /\ IF may THEN Accept(m.epoch, m.segment)
             ELSE UNCHANGED <<picture, toViewer, missed, restarted>>
          /\ UNCHANGED session
       \/ /\ m.type = "erase"
          /\ IF may /\ m.epoch = p.epoch /\ p.enabled
               THEN /\ picture' = [picture EXCEPT ![Sharer] = RemoveStroke(p, m.stroke[1], m.stroke[2])]
                    /\ Broadcast(m)
               ELSE UNCHANGED <<picture, toViewer>>
          /\ UNCHANGED <<session, missed, restarted>>
    /\ UNCHANGED mishaps

-----------------------------------------------------------------------------
(* A viewer.                                                                 *)

Send(v, message) ==
    /\ Len(toSharer[v]) <= MaxUnderway
    /\ toSharer' = [toSharer EXCEPT ![v] = Append(@, message)]

\* CommunityPanel::watch and start.
StartWatching(v) ==
    /\ v \notin session.watching
    /\ session' = [session EXCEPT !.watching = @ \cup {v}, !.attempts[v] = 0]
    /\ picture' = [picture EXCEPT ![v] = SetState(@, FALSE, 0)]
    /\ Send(v, Watch(TRUE))
    /\ UNCHANGED <<toViewer, missed, restarted, mishaps>>

\* CommunityPanel::watch and stop; the tile stays, and its numbers go on.
StopWatching(v) ==
    /\ v \in session.watching
    /\ mishaps < MaxMishaps /\ mishaps' = mishaps + 1
    /\ session' = [session EXCEPT !.watching = @ \ {v}, !.attempts[v] = MaxAttempts]
    /\ picture' = [picture EXCEPT ![v] = SetState(@, FALSE, 0)]
    /\ Send(v, Watch(FALSE))
    /\ UNCHANGED <<toViewer, missed, restarted>>

\* The timer retry_: ask again, or give up (expireRequest).
RetryTimer(v) ==
    /\ v \in session.watching /\ session.attempts[v] < MaxAttempts
    /\ session' = [session EXCEPT !.attempts[v] = @ + 1]
    /\ IF session'.attempts[v] < MaxAttempts
         THEN Send(v, Watch(TRUE)) /\ UNCHANGED picture
         ELSE /\ picture' = [picture EXCEPT ![v] = SetState(@, FALSE, 0)]
              /\ UNCHANGED toSharer
    /\ UNCHANGED <<toViewer, missed, restarted, mishaps>>

MayDraw(v) == v \in session.watching /\ picture[v].enabled /\ ~ picture[v].banned

\* submit: a preview, which the sharer's echo finds already there.
ViewerDraws(v) ==
    /\ MayDraw(v) /\ picture[v].next < MaxDrawn
    /\ \E s \in NewSegments(v) :
        /\ picture' = [picture EXCEPT ![v] =
               [AddSegment(picture[v], picture[v].epoch, s) EXCEPT !.next = @ + 1]]
        /\ Send(v, Draw(picture[v].epoch, s))
    /\ UNCHANGED <<session, toViewer, missed, restarted, mishaps>>

ViewerErases(v) ==
    /\ MayDraw(v)
    /\ \E k \in Strokes(picture[v]) :
        /\ k[1] = v
        /\ picture' = [picture EXCEPT ![v] = RemoveStroke(@, k[1], k[2])]
        /\ Send(v, Erase(picture[v].epoch, k))
    /\ UNCHANGED <<session, toViewer, missed, restarted, mishaps>>

\* receive, of a viewer.
ViewerReceives(v) ==
    /\ toViewer[v] # <<>>
    /\ toViewer' = [toViewer EXCEPT ![v] = Tail(@)]
    /\ LET m == Head(toViewer[v])
           p == picture[v]
           heard ==
            CASE m.type = "state" -> [SetState(p, m.on, m.epoch) EXCEPT !.banned = m.banned]
              [] m.type = "draw"  -> AddSegment(p, m.epoch, m.segment)
              [] m.type = "erase" -> IF m.epoch = p.epoch /\ p.enabled
                                       THEN RemoveStroke(p, m.stroke[1], m.stroke[2]) ELSE p
       IN  IF v \in session.watching
             THEN /\ picture' = [picture EXCEPT ![v] = heard]
                  /\ session' = IF m.type = "state"
                        THEN [session EXCEPT !.attempts[v] = MaxAttempts] ELSE session
             ELSE UNCHANGED <<picture, session>>
    /\ UNCHANGED <<toSharer, missed, restarted, mishaps>>

-----------------------------------------------------------------------------
(* Faults.                                                                   *)

\* The link is lost and found: the sharer forgets the viewer, whose panel makes
\* a new tile, with a new ScreenDrawing, and watches again.
Reconnect(v) ==
    /\ mishaps < MaxMishaps /\ mishaps' = mishaps + 1
    /\ v \in session.watching
    /\ session' = [session EXCEPT !.viewers = @ \ {v}, !.attempts[v] = 0]
    /\ picture' = [picture EXCEPT ![v] = Blank(FALSE, 0, FALSE, 0)]
    /\ toViewer' = [toViewer EXCEPT ![v] = <<>>]
    /\ toSharer' = [toSharer EXCEPT ![v] = <<Watch(TRUE)>>]
    /\ restarted' = IF picture[v].next > 0 THEN restarted \cup {v} ELSE restarted
    /\ UNCHANGED missed

\* A packet is lost while the link is not ready.
LosePacket(v) ==
    /\ mishaps < MaxMishaps /\ mishaps' = mishaps + 1
    /\ \/ /\ toSharer[v] # <<>> /\ toSharer' = [toSharer EXCEPT ![v] = Tail(@)]
          /\ UNCHANGED toViewer
       \/ /\ toViewer[v] # <<>> /\ toViewer' = [toViewer EXCEPT ![v] = Tail(@)]
          /\ UNCHANGED toSharer
    /\ missed' = missed \cup {v}
    /\ UNCHANGED <<picture, session, restarted>>

DrawingNext ==
    \/ RequestPermission \/ SharerDraws \/ SharerErases
    \/ \E v \in Viewers :
        \/ Ban(v) \/ SharerReceives(v)
        \/ StartWatching(v) \/ StopWatching(v) \/ RetryTimer(v)
        \/ ViewerDraws(v) \/ ViewerErases(v) \/ ViewerReceives(v)
        \/ Reconnect(v) \/ LosePacket(v)

DrawingSpec == DrawingInit /\ [][DrawingNext]_drawingVars

-----------------------------------------------------------------------------
DrawingTypeOK ==
    /\ \A d \in Devices : picture[d].epoch \in 0..MaxEpochs /\ picture[d].next \in 0..MaxDrawn
    /\ session.viewers \subseteq Viewers /\ session.banned \subseteq Viewers
    /\ session.watching \subseteq Viewers /\ missed \subseteq Viewers

\* When nothing is underway to or from a viewer who watches and has missed
\* nothing since its snapshot, it is told what holds.
Settled(v) ==
    /\ v \in session.watching /\ v \in session.viewers
    /\ toSharer[v] = <<>> /\ toViewer[v] = <<>> /\ v \notin missed
Ink(d, authors) == {s \in picture[d].ink : s[1] \in authors}

\* Then it shows the sharer's ink, knows whether it may draw, and draws on the
\* sharer's drawing: previews, echoes, erasures on both sides, bans, clears,
\* retries and reconnections leave no stroke that only some see.  Two cases are
\* left out: an author who numbers again, whose strokes the sharer takes for
\* repetitions of earlier ones (see nextSegmentId_), and a viewer whose
\* record is full, which waits for the sharer to clear.
InkAgrees ==
    \A v \in Viewers : Settled(v) =>
        /\ picture[v].enabled = picture[Sharer].enabled
        /\ picture[v].epoch = picture[Sharer].epoch
        /\ picture[v].banned = (v \in session.banned)
        /\ Full(picture[v]) \/ Ink(v, Devices \ restarted) = Ink(Sharer, Devices \ restarted)

\* The shared drawing, on every device that has settled.
DrawingInv == DrawingTypeOK /\ InkAgrees
=============================================================================
