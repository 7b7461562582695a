---------------------------- MODULE DrawingProofs ---------------------------
(***************************************************************************)
(* The shared drawing: every viewer who has settled shows the ink of the   *)
(* device that shares (DrawingInv), for any number of viewers, segments,   *)
(* drawings and faults, and any limit of the record.                       *)
(*                                                                         *)
(* The invariant says at each moment, for a viewer who has been sent a     *)
(* snapshot and has lost nothing since (InSync), why what it will show is  *)
(* right: each segment of the sharer is shown, underway, or erased here    *)
(* and the erasure underway (ToldInk); each segment that is underway is    *)
(* the sharer's, or its erasure follows (TellsInk); each segment that is   *)
(* shown is the sharer's, is about to be erased, or is a preview that is   *)
(* underway (ShowsInk).  A device refuses segments that it takes for       *)
(* repetitions or for parts of a removed stroke: that it is right to do so *)
(* follows from the numbers (Numbered), which no author uses twice before  *)
(* its link is lost, and from erasures, which are told only of strokes     *)
(* that the sharer will not have again (Dead).                             *)
(***************************************************************************)
EXTENDS SharedDrawing, FiniteSetTheorems, SequenceTheorems, TLAPS
-----------------------------------------------------------------------------
(***************************************************************************)
(* What the invariant says.                                                *)
(*                                                                         *)
(* Of the packets underway to a viewer only those behind the last State    *)
(* matter: they are late.  What the viewer will show once it has heard     *)
(* them is said of the late packets and, while no State is underway, of    *)
(* its picture.                                                            *)
(***************************************************************************)
\* Segments, and what names a stroke or a segment; what the variables and the
\* packets may be.
Inks == Devices \X Nat \X Nat
Marks == Devices \X Nat
Scenes == [enabled: BOOLEAN, epoch: Nat, banned: BOOLEAN, next: 0..MaxDrawn,
           ink: SUBSET Inks, received: SUBSET Marks, removed: SUBSET Marks]
Links == [viewers: SUBSET Viewers, banned: SUBSET Viewers, watching: SUBSET Viewers,
          attempts: [Viewers -> Nat]]
DrawPackets == [type: {"draw"}, epoch: Nat, segment: Inks]
ErasePackets == [type: {"erase"}, epoch: Nat, stroke: Marks]
StatePackets == [type: {"state"}, on: BOOLEAN, epoch: Nat, banned: BOOLEAN]
WatchPackets == [type: {"watch"}, on: BOOLEAN]
Downs == StatePackets \cup DrawPackets \cup ErasePackets
Ups == WatchPackets \cup DrawPackets \cup ErasePackets

\* What the variables hold.
DrawTyped ==
    /\ picture \in [Devices -> Scenes] /\ session \in Links
    /\ toSharer \in [Viewers -> Seq(Ups)] /\ toViewer \in [Viewers -> Seq(Downs)]
    /\ missed \subseteq Viewers /\ restarted \subseteq Viewers /\ mishaps \in Nat
    /\ IsFiniteSet(picture[Sharer].ink)

\* The stroke of a segment, and the name of the segment.
StrokeOf(s) == <<s[1], s[2]>>
IdOf(s) == <<s[1], s[3]>>

\* The packets of a sequence.
StateAt(Q, i) == Q[i].type = "state"
Late(Q, i) == \A j \in i .. Len(Q) : ~ StateAt(Q, j)
Quiet(Q) == \A i \in 1 .. Len(Q) : ~ StateAt(Q, i)
LastState(Q, m) == \A i \in 1 .. Len(Q) : StateAt(Q, i) /\ Late(Q, i + 1) => Q[i] = m
Drawn(Q, e, s) == \E i \in 1 .. Len(Q) : Late(Q, i) /\ Q[i] = Draw(e, s)
Wiped(Q, e, k) == \E i \in 1 .. Len(Q) : Late(Q, i) /\ Q[i] = Erase(e, k)
\* Each late drawing of s is followed by an erasure of its stroke.
Swept(Q, e, s) == \A i \in 1 .. Len(Q) : Late(Q, i) /\ Q[i] = Draw(e, s) =>
    \E j \in i .. Len(Q) : Q[j] = Erase(e, StrokeOf(s))
Holding(Q, m) == \E i \in 1 .. Len(Q) : Q[i] = m
DrawsStroke(m, e, k) == m.type = "draw" /\ m.epoch = e /\ StrokeOf(m.segment) = k
\* A drawing of stroke k is underway behind its erasure.
Again(Q, e, k) == \E i \in 1 .. Len(Q) : Q[i] = Erase(e, k) /\
    \E j \in i .. Len(Q) : DrawsStroke(Q[j], e, k)
\* No drawing of stroke k is underway.
Undrawn(Q, e, k) == \A i \in 1 .. Len(Q) : ~ DrawsStroke(Q[i], e, k)
\* An erasure of k is, with no drawing of k behind it.
ErasedLast(Q, e, k) == \E i \in 1 .. Len(Q) : Q[i] = Erase(e, k) /\
    \A j \in i .. Len(Q) : ~ DrawsStroke(Q[j], e, k)

\* What the sharer has, and in which drawing.
Owned == picture[Sharer]
Cur == Owned.epoch
Known(k) == k \in Strokes(Owned) \/ k \in Owned.removed
\* Its author has not begun to number again.
Tracked(k) == k[1] \notin restarted

\* A picture by itself.
PictureOK(p) ==
    /\ ~ p.enabled => p.ink = {}
    /\ \A s \in p.ink : IdOf(s) \in p.received /\ StrokeOf(s) \notin p.removed
\* The sharer's picture: no segment is in it twice.
SharerOK ==
    /\ PictureOK(Owned) /\ Cur \in 1 .. MaxEpochs
    /\ \A s, t \in Owned.ink : IdOf(s) = IdOf(t) => s = t

\* What is underway belongs to this drawing or an earlier one.
DownOK(m) ==
    /\ m.epoch <= Cur
    /\ m.type = "draw" /\ m.epoch = Cur =>
         /\ Known(StrokeOf(m.segment)) /\ IdOf(m.segment) \in Owned.received
         /\ \A s \in Owned.ink : IdOf(s) = IdOf(m.segment) => s = m.segment
\* A viewer sends only strokes of its own.
UpOK(v, m) ==
    /\ m.type # "watch" => m.epoch <= Cur
    /\ m.type = "draw" => m.segment[1] = v
    /\ m.type = "erase" => m.stroke[1] = v
\* Both hold of all packets.
PacketsOK(v) ==
    /\ \A i \in 1 .. Len(toViewer[v]) : DownOK(toViewer[v][i])
    /\ \A i \in 1 .. Len(toSharer[v]) : UpOK(v, toSharer[v][i])

\* Who asks for the drawing has not got it.
Asked(v) == Holding(toSharer[v], Watch(TRUE))
AsksAgain(v) ==
    v \in session.watching /\ session.attempts[v] < MaxAttempts =>
        v \notin session.viewers \/ v \in missed \/ Asked(v) \/ ~ Quiet(toViewer[v])

\* A viewer has used no number above next, and no number twice: in its own
\* picture, in what is underway, and at the sharer.
NumbersHere(v) ==
    LET p == picture[v] IN
    p.epoch = Cur =>
        /\ \A s \in p.ink : s[1] = v => s[2] <= p.next
        /\ \A x \in p.received : x[1] = v => x[2] <= p.next
        /\ \A k \in p.removed : k[1] = v => k[2] <= p.next
        /\ \A s \in p.ink : s[1] = v =>
             Known(StrokeOf(s)) \/ ~ Holding(toSharer[v], Erase(Cur, StrokeOf(s)))
\* A drawing in the sharer's drawing.
DrawsNow(R, i) == i \in 1 .. Len(R) /\ R[i].type = "draw" /\ R[i].epoch = Cur
NumbersUp(v) ==
    LET R == toSharer[v]   n == picture[v].next IN
    /\ \A i \in 1 .. Len(R) : DrawsNow(R, i) =>
         /\ R[i].segment[2] <= n /\ R[i].segment[3] <= n
         /\ IdOf(R[i].segment) \notin Owned.received
    /\ \A i, j \in 1 .. Len(R) : i < j /\ DrawsNow(R, i) /\ DrawsNow(R, j) =>
         R[i].segment[3] # R[j].segment[3]
    /\ \A k \in Marks : Holding(R, Erase(Cur, k)) => k[2] <= n
    /\ \A k \in Marks : Again(R, Cur, k) => Known(k)
NumbersThere(v) ==
    LET n == picture[v].next IN
    /\ \A s \in Owned.ink : s[1] = v => s[2] <= n
    /\ \A x \in Owned.received : x[1] = v => x[2] <= n
    /\ \A k \in Owned.removed : k[1] = v => k[2] <= n
Numbered(v) == NumbersHere(v) /\ NumbersUp(v) /\ NumbersThere(v)

\* The sharer does not have stroke k of viewer v, and will not again.
Gone(v, k) ==
    /\ k \notin Strokes(Owned) /\ k[2] <= picture[v].next
    /\ picture[v].epoch = Cur => k \notin Strokes(picture[v])
    /\ Undrawn(toSharer[v], Cur, k)
Dead(k) == k \in Owned.removed \/ (k[1] \in Viewers /\ Gone(k[1], k))
\* A stroke whose erasure is told is gone.
ErasuresOK(v) == \A k \in Marks :
    Holding(toViewer[v], Erase(Cur, k)) /\ Tracked(k) => Dead(k)

\* A viewer who has been sent what the sharer has, and everything since.
InSync(v) == v \in session.watching /\ v \in session.viewers /\ v \notin missed /\ ~ Asked(v)
\* Of its own strokes the viewer is ahead, unless it is banned.
Ahead(v, k) == k[1] = v /\ v \notin session.banned
\* What the last State says, or said, holds.
ToldState(v) ==
    /\ LastState(toViewer[v], State(Owned, v \in session.banned))
    /\ Quiet(toViewer[v]) =>
         /\ picture[v].enabled = Owned.enabled /\ picture[v].epoch = Cur
         /\ picture[v].banned = (v \in session.banned)
\* The sharer's ink is shown, told, or erased here.
ToldInk(v) == \A s \in Owned.ink : Tracked(s) =>
    \/ Quiet(toViewer[v]) /\ s \in picture[v].ink
    \/ Drawn(toViewer[v], Cur, s)
    \/ Ahead(v, s) /\ Holding(toSharer[v], Erase(Cur, StrokeOf(s)))
\* What is told is the sharer's, or its erasure is told.
TellsInk(v) == \A s \in Inks : Drawn(toViewer[v], Cur, s) /\ Tracked(s) =>
    s \in Owned.ink \/ Swept(toViewer[v], Cur, s)
\* What is shown is the sharer's, its erasure is told, or it is on its way.
ShowsInk(v) == \A s \in picture[v].ink : Tracked(s) =>
    \/ s \in Owned.ink \/ Wiped(toViewer[v], Cur, StrokeOf(s))
    \/ Ahead(v, s) /\ Holding(toSharer[v], Draw(Cur, s)) /\ StrokeOf(s) \notin Owned.removed
\* What the viewer refuses the sharer does not have, or it was erased here.
RemovesInk(v) == \A k \in picture[v].removed : Tracked(k) =>
    Dead(k) \/ (Ahead(v, k) /\ ErasedLast(toSharer[v], Cur, k))
\* What it takes for a repetition it shows, or it was erased.
Offered(v, s) == s \in Owned.ink \/ (s[1] = v /\ Holding(toSharer[v], Draw(Cur, s)))
RepeatsInk(v) == \A s \in Inks : Tracked(s) /\ IdOf(s) \in picture[v].received /\ Offered(v, s) =>
    s \in picture[v].ink \/ StrokeOf(s) \in picture[v].removed
ReceivesInk(v) == \A x \in picture[v].received : Tracked(x) /\ x[1] # v => x \in Owned.received
\* The four of a picture to which no State is underway.
ShownInk(v) == ShowsInk(v) /\ RemovesInk(v) /\ RepeatsInk(v) /\ ReceivesInk(v)
\* What a viewer in sync shows or is told; one with a full record waits.
LinkOK(v) ==
    InSync(v) =>
        /\ ToldState(v)
        /\ \/ Quiet(toViewer[v]) /\ Full(picture[v])
           \/ ToldInk(v) /\ TellsInk(v) /\ (Quiet(toViewer[v]) => ShownInk(v))

\* All that holds of a viewer.
ViewerOK(v) ==
    /\ PictureOK(picture[v]) /\ picture[v].epoch <= Cur /\ PacketsOK(v) /\ AsksAgain(v)
    /\ v \notin restarted => Numbered(v)
    /\ ErasuresOK(v) /\ LinkOK(v)

\* The inductive invariant: DrawingInv follows.
DrawIInv == DrawTyped /\ SharerOK /\ \A v \in Viewers : ViewerOK(v)

-----------------------------------------------------------------------------
\* Sequences of packets, as they grow and as they are received.
LEMMA PacketSent ==
  ASSUME NEW M, NEW Q \in Seq(M), NEW m \in M
  PROVE  /\ Append(Q, m) \in Seq(M) /\ Len(Append(Q, m)) = Len(Q) + 1 /\ Len(Q) \in Nat
         /\ \A i \in 1 .. Len(Q) : Append(Q, m)[i] = Q[i]
         /\ Append(Q, m)[Len(Q) + 1] = m
OBVIOUS

\* The first packet is received.
LEMMA PacketTaken ==
  ASSUME NEW M, NEW Q \in Seq(M), Q # <<>>
  PROVE  /\ Tail(Q) \in Seq(M) /\ Len(Tail(Q)) = Len(Q) - 1 /\ Len(Q) \in Nat \ {0}
         /\ Head(Q) = Q[1] /\ Q[1] \in M
         /\ \A i \in 1 .. Len(Q) - 1 : Tail(Q)[i] = Q[i + 1]
OBVIOUS

\* Two sequences of packets, one behind the other.
LEMMA PacketsJoined ==
  ASSUME NEW M, NEW Q \in Seq(M), NEW P \in Seq(M)
  PROVE  /\ Q \o P \in Seq(M) /\ Len(Q \o P) = Len(Q) + Len(P) /\ Len(Q) \in Nat /\ Len(P) \in Nat
         /\ \A i \in 1 .. Len(Q) : (Q \o P)[i] = Q[i]
         /\ \A i \in 1 .. Len(P) : (Q \o P)[Len(Q) + i] = P[i]
OBVIOUS

\* A packet that is not a State is late once it is sent.
LEMMA LateSent ==
  ASSUME NEW M, NEW Q \in Seq(M), NEW m \in M, m.type # "state"
  PROVE  /\ Quiet(Append(Q, m)) <=> Quiet(Q)
         /\ \A i \in 1 .. Len(Q) : Late(Append(Q, m), i) <=> Late(Q, i)
         /\ Late(Append(Q, m), Len(Q) + 1)
<1> DEFINE R == Append(Q, m)   n == Len(Q)
<1>1. /\ Len(R) = n + 1 /\ n \in Nat /\ R[n + 1] = m
      /\ \A i \in 1 .. n : R[i] = Q[i]
  BY PacketSent
<1> HIDE DEF R, n
<1>2. Quiet(R) <=> Quiet(Q)
  BY <1>1 DEF Quiet, StateAt, n
<1>3. \A i \in 1 .. n : Late(R, i) <=> Late(Q, i)
  BY <1>1 DEF Late, StateAt, n
<1>4. Late(R, n + 1)
  BY <1>1 DEF Late, StateAt
<1> QED
  BY <1>2, <1>3, <1>4 DEF R, n

\* What a packet adds to what is drawn and wiped.
LEMMA DrawSent ==
  ASSUME NEW Q \in Seq(Downs), NEW m \in Downs, m.type # "state", NEW e, NEW s, NEW k
  PROVE  /\ Drawn(Append(Q, m), e, s) <=> Drawn(Q, e, s) \/ m = Draw(e, s)
         /\ Wiped(Append(Q, m), e, k) <=> Wiped(Q, e, k) \/ m = Erase(e, k)
<1> DEFINE R == Append(Q, m)   n == Len(Q)
<1>1. /\ Len(R) = n + 1 /\ n \in Nat /\ R[n + 1] = m
      /\ \A i \in 1 .. n : R[i] = Q[i]
  BY PacketSent
<1>2. /\ \A i \in 1 .. n : Late(R, i) <=> Late(Q, i)
      /\ Late(R, n + 1)
  BY LateSent
<1> HIDE DEF R, n
<1>3. Drawn(R, e, s) <=> Drawn(Q, e, s) \/ m = Draw(e, s)
  BY <1>1, <1>2 DEF Drawn, n
<1>4. Wiped(R, e, k) <=> Wiped(Q, e, k) \/ m = Erase(e, k)
  BY <1>1, <1>2 DEF Wiped, n
<1> QED
  BY <1>3, <1>4 DEF R

\* What a packet changes of which drawings are swept.
LEMMA SweptSent ==
  ASSUME NEW Q \in Seq(Downs), NEW m \in Downs, m.type # "state", NEW e, NEW s
  PROVE  /\ m # Draw(e, s) /\ Swept(Q, e, s) => Swept(Append(Q, m), e, s)
         /\ m = Erase(e, StrokeOf(s)) => Swept(Append(Q, m), e, s)
<1> DEFINE R == Append(Q, m)   n == Len(Q)
<1>1. /\ Len(R) = n + 1 /\ n \in Nat /\ R[n + 1] = m
      /\ \A i \in 1 .. n : R[i] = Q[i]
  BY PacketSent
<1>2. /\ \A i \in 1 .. n : Late(R, i) <=> Late(Q, i)
      /\ Late(R, n + 1)
  BY LateSent
<1> HIDE DEF R, n
<1>3. ASSUME m # Draw(e, s), Swept(Q, e, s)  PROVE Swept(R, e, s)
  <2> SUFFICES ASSUME NEW i \in 1 .. Len(R), Late(R, i), R[i] = Draw(e, s)
               PROVE  \E j \in i .. Len(R) : R[j] = Erase(e, StrokeOf(s))
    BY DEF Swept
  <2>1. i \in 1 .. n /\ Late(Q, i) /\ Q[i] = Draw(e, s)
    BY <1>1, <1>2, <1>3
  <2>2. PICK j \in i .. n : Q[j] = Erase(e, StrokeOf(s))
    BY <1>3, <2>1 DEF Swept, n
  <2>3. j \in 1 .. n /\ j \in i .. Len(R)
    BY <1>1, <2>1, <2>2
  <2> QED
    BY <1>1, <2>2, <2>3
<1>4. ASSUME m = Erase(e, StrokeOf(s))  PROVE Swept(R, e, s)
  <2> SUFFICES ASSUME NEW i \in 1 .. Len(R)
               PROVE  \E j \in i .. Len(R) : R[j] = Erase(e, StrokeOf(s))
    BY DEF Swept
  <2>1. n + 1 \in i .. Len(R)
    BY <1>1
  <2> QED
    BY <1>1, <1>4, <2>1
<1> QED
  BY <1>3, <1>4 DEF R

\* Once a packet is received, the late ones are late still.
LEMMA LateTaken ==
  ASSUME NEW M, NEW Q \in Seq(M), Q # <<>>
  PROVE  /\ \A i \in 1 .. Len(Q) - 1 : Late(Tail(Q), i) <=> Late(Q, i + 1)
         /\ Quiet(Q) <=> Quiet(Tail(Q)) /\ ~ StateAt(Q, 1)
         /\ Late(Q, 1) <=> Quiet(Q)
<1> DEFINE R == Tail(Q)   n == Len(Q)
<1>1. /\ Len(R) = n - 1 /\ n \in Nat \ {0}
      /\ \A i \in 1 .. n - 1 : R[i] = Q[i + 1]
  BY PacketTaken
<1> HIDE DEF R, n
<1>2. ASSUME NEW i \in 1 .. n - 1  PROVE Late(R, i) <=> Late(Q, i + 1)
  <2>1. ASSUME Late(R, i)  PROVE Late(Q, i + 1)
    <3> SUFFICES ASSUME NEW j \in i + 1 .. n  PROVE ~ StateAt(Q, j)
      BY DEF Late, n
    <3>1. j - 1 \in i .. n - 1 /\ j - 1 \in 1 .. n - 1 /\ (j - 1) + 1 = j
      BY <1>1
    <3>2. ~ StateAt(R, j - 1)
      BY <1>1, <2>1, <3>1 DEF Late
    <3>3. R[j - 1] = Q[j]
      BY <1>1, <3>1
    <3> QED
      BY <3>2, <3>3 DEF StateAt
  <2>2. ASSUME Late(Q, i + 1)  PROVE Late(R, i)
    <3> SUFFICES ASSUME NEW j \in i .. n - 1  PROVE ~ StateAt(R, j)
      BY <1>1 DEF Late
    <3>1. j + 1 \in i + 1 .. n /\ j \in 1 .. n - 1
      BY <1>1
    <3>2. ~ StateAt(Q, j + 1) /\ R[j] = Q[j + 1]
      BY <1>1, <2>2, <3>1 DEF Late, n
    <3> QED
      BY <3>2 DEF StateAt
  <2> QED
    BY <2>1, <2>2
<1>3. ASSUME Quiet(Q)  PROVE Quiet(R) /\ ~ StateAt(Q, 1)
  <2>1. ~ StateAt(Q, 1)
    BY <1>1, <1>3 DEF Quiet, n
  <2>2. ASSUME NEW i \in 1 .. n - 1  PROVE ~ StateAt(R, i)
    <3>1. i + 1 \in 1 .. n /\ R[i] = Q[i + 1]
      BY <1>1
    <3> QED
      BY <1>3, <3>1 DEF Quiet, StateAt, n
  <2> QED
    BY <1>1, <2>1, <2>2 DEF Quiet
<1>4. ASSUME Quiet(R), ~ StateAt(Q, 1)  PROVE Quiet(Q)
  <2> SUFFICES ASSUME NEW i \in 1 .. n, i # 1  PROVE ~ StateAt(Q, i)
    BY <1>1, <1>4 DEF Quiet, n
  <2>1. i - 1 \in 1 .. n - 1 /\ (i - 1) + 1 = i
    BY <1>1
  <2>2. R[i - 1] = Q[i] /\ ~ StateAt(R, i - 1)
    BY <1>1, <1>4, <2>1 DEF Quiet
  <2> QED
    BY <2>2 DEF StateAt
<1>5. Late(Q, 1) <=> Quiet(Q)
  BY DEF Late, Quiet
<1> QED
  BY <1>2, <1>3, <1>4, <1>5 DEF R, n

\* What is drawn and wiped once a packet is received.
LEMMA DrawTaken ==
  ASSUME NEW Q \in Seq(Downs), Q # <<>>, NEW e, NEW s, NEW k
  PROVE  /\ Drawn(Q, e, s) <=> Drawn(Tail(Q), e, s) \/ (Quiet(Q) /\ Head(Q) = Draw(e, s))
         /\ Wiped(Q, e, k) <=> Wiped(Tail(Q), e, k) \/ (Quiet(Q) /\ Head(Q) = Erase(e, k))
<1> DEFINE R == Tail(Q)   n == Len(Q)
<1>1. /\ Len(R) = n - 1 /\ n \in Nat \ {0} /\ Head(Q) = Q[1]
      /\ \A i \in 1 .. n - 1 : R[i] = Q[i + 1]
  BY PacketTaken
<1>2. /\ \A i \in 1 .. n - 1 : Late(R, i) <=> Late(Q, i + 1)
      /\ Late(Q, 1) <=> Quiet(Q)
  BY LateTaken
<1> HIDE DEF R, n
<1>3. ASSUME NEW m
      PROVE  (\E i \in 1 .. n : Late(Q, i) /\ Q[i] = m) <=>
                (\E i \in 1 .. n - 1 : Late(R, i) /\ R[i] = m) \/ (Quiet(Q) /\ Head(Q) = m)
  <2>1. ASSUME NEW i \in 1 .. n, Late(Q, i), Q[i] = m, i # 1
        PROVE  \E j \in 1 .. n - 1 : Late(R, j) /\ R[j] = m
    <3>1. i - 1 \in 1 .. n - 1 /\ (i - 1) + 1 = i
      BY <1>1, <2>1
    <3>2. Late(R, i - 1) /\ R[i - 1] = m
      BY <1>1, <1>2, <2>1, <3>1
    <3> QED
      BY <3>1, <3>2
  <2>2. ASSUME NEW i \in 1 .. n - 1, Late(R, i), R[i] = m
        PROVE  \E j \in 1 .. n : Late(Q, j) /\ Q[j] = m
    <3>1. i + 1 \in 1 .. n /\ Late(Q, i + 1) /\ Q[i + 1] = m
      BY <1>1, <1>2, <2>2
    <3> QED
      BY <3>1
  <2>3. ASSUME Quiet(Q), Head(Q) = m  PROVE \E j \in 1 .. n : Late(Q, j) /\ Q[j] = m
    BY <1>1, <1>2, <2>3
  <2> QED
    BY <1>1, <1>2, <2>1, <2>2, <2>3
<1>4. Drawn(Q, e, s) <=> Drawn(R, e, s) \/ (Quiet(Q) /\ Head(Q) = Draw(e, s))
  BY <1>1, <1>3 DEF Drawn, n
<1>5. Wiped(Q, e, k) <=> Wiped(R, e, k) \/ (Quiet(Q) /\ Head(Q) = Erase(e, k))
  BY <1>1, <1>3 DEF Wiped, n
<1> QED
  BY <1>4, <1>5 DEF R

\* Once a packet is received, what is swept is swept still; the erasure that
\* sweeps a packet is behind it.
LEMMA SweptTaken ==
  ASSUME NEW Q \in Seq(Downs), Q # <<>>, NEW e, NEW s, Swept(Q, e, s)
  PROVE  /\ Swept(Tail(Q), e, s)
         /\ Quiet(Q) /\ Head(Q) = Draw(e, s) => Wiped(Tail(Q), e, StrokeOf(s))
<1> DEFINE R == Tail(Q)   n == Len(Q)
<1>1. /\ Len(R) = n - 1 /\ n \in Nat \ {0} /\ Head(Q) = Q[1]
      /\ \A i \in 1 .. n - 1 : R[i] = Q[i + 1]
  BY PacketTaken
<1>2. /\ \A i \in 1 .. n - 1 : Late(R, i) <=> Late(Q, i + 1)
      /\ Late(Q, 1) <=> Quiet(Q)
  BY LateTaken
<1> HIDE DEF R, n
<1>3. Swept(R, e, s)
  <2> SUFFICES ASSUME NEW i \in 1 .. n - 1, Late(R, i), R[i] = Draw(e, s)
               PROVE  \E j \in i .. n - 1 : R[j] = Erase(e, StrokeOf(s))
    BY <1>1 DEF Swept
  <2>1. i + 1 \in 1 .. n /\ Late(Q, i + 1) /\ Q[i + 1] = Draw(e, s)
    BY <1>1, <1>2
  <2>2. PICK j \in i + 1 .. n : Q[j] = Erase(e, StrokeOf(s))
    BY <2>1 DEF Swept, n
  <2>3. j - 1 \in i .. n - 1 /\ j - 1 \in 1 .. n - 1 /\ (j - 1) + 1 = j
    BY <1>1, <2>1, <2>2
  <2> QED
    BY <1>1, <2>2, <2>3
<1>4. ASSUME Quiet(Q), Head(Q) = Draw(e, s)  PROVE Wiped(R, e, StrokeOf(s))
  <2>1. 1 \in 1 .. n /\ Late(Q, 1) /\ Q[1] = Draw(e, s)
    BY <1>1, <1>2, <1>4
  <2>2. PICK j \in 1 .. n : Q[j] = Erase(e, StrokeOf(s))
    BY <2>1 DEF Swept, n
  <2>3. j # 1
    BY <2>1, <2>2 DEF Draw, Erase
  <2>4. j - 1 \in 1 .. n - 1 /\ (j - 1) + 1 = j
    BY <1>1, <2>2, <2>3
  <2>5. Late(Q, j)
    BY <1>4, <2>2 DEF Quiet, Late, n
  <2>6. Late(R, j - 1) /\ R[j - 1] = Erase(e, StrokeOf(s))
    BY <1>1, <1>2, <2>2, <2>4, <2>5
  <2> QED
    BY <1>1, <2>4, <2>6 DEF Wiped
<1> QED
  BY <1>3, <1>4 DEF R

\* The last State stays the last, until it is heard.
LEMMA StateTaken ==
  ASSUME NEW Q \in Seq(Downs), Q # <<>>, NEW m, LastState(Q, m)
  PROVE  /\ LastState(Tail(Q), m)
         /\ StateAt(Q, 1) /\ Quiet(Tail(Q)) => Head(Q) = m
<1> DEFINE R == Tail(Q)   n == Len(Q)
<1>1. /\ Len(R) = n - 1 /\ n \in Nat \ {0} /\ Head(Q) = Q[1]
      /\ \A i \in 1 .. n - 1 : R[i] = Q[i + 1]
  BY PacketTaken
<1>2. \A i \in 1 .. n - 1 : Late(R, i) <=> Late(Q, i + 1)
  BY LateTaken
<1> HIDE DEF R, n
<1>3. LastState(R, m)
  <2> SUFFICES ASSUME NEW i \in 1 .. n - 1, StateAt(R, i), Late(R, i + 1)  PROVE R[i] = m
    BY <1>1 DEF LastState
  <2>1. i + 1 \in 1 .. n /\ R[i] = Q[i + 1] /\ StateAt(Q, i + 1)
    BY <1>1 DEF StateAt
  <2>2. Late(Q, (i + 1) + 1)
    <3>1. CASE i = n - 1
      BY <1>1, <3>1 DEF Late, n
    <3>2. CASE i # n - 1
      <4>1. i + 1 \in 1 .. n - 1
        BY <1>1, <3>2
      <4> QED
        BY <1>2, <4>1
    <3> QED
      BY <3>1, <3>2
  <2> QED
    BY <2>1, <2>2 DEF LastState, n
<1>4. ASSUME StateAt(Q, 1), Quiet(R)  PROVE Head(Q) = m
  <2>1. Late(Q, 1 + 1)
    <3> SUFFICES ASSUME NEW j \in 2 .. n  PROVE ~ StateAt(Q, j)
      BY DEF Late, n
    <3>1. j - 1 \in 1 .. n - 1 /\ (j - 1) + 1 = j
      BY <1>1
    <3>2. R[j - 1] = Q[j] /\ ~ StateAt(R, j - 1)
      BY <1>1, <1>4, <3>1 DEF Quiet
    <3> QED
      BY <3>2 DEF StateAt
  <2>2. 1 \in 1 .. n
    BY <1>1
  <2> QED
    BY <1>1, <1>4, <2>1, <2>2 DEF LastState, n
<1> QED
  BY <1>3, <1>4 DEF R

\* The last State stays the last one.
LEMMA StateKept ==
  ASSUME NEW Q \in Seq(Downs), NEW m \in Downs, m.type # "state", NEW t, LastState(Q, t)
  PROVE  LastState(Append(Q, m), t)
<1> DEFINE R == Append(Q, m)   n == Len(Q)
<1>1. /\ Len(R) = n + 1 /\ n \in Nat /\ R[n + 1] = m
      /\ \A i \in 1 .. n : R[i] = Q[i]
  BY PacketSent
<1>2. \A i \in 1 .. n : Late(R, i) <=> Late(Q, i)
  BY LateSent
<1> HIDE DEF R, n
<1> SUFFICES ASSUME NEW i \in 1 .. n + 1, StateAt(R, i), Late(R, i + 1)  PROVE R[i] = t
  BY <1>1 DEF LastState, R
<1>3. i \in 1 .. n /\ StateAt(Q, i)
  BY <1>1 DEF StateAt
<1>4. Late(Q, i + 1)
  <2>1. CASE i = n
    BY <1>1, <2>1 DEF Late, n
  <2>2. CASE i # n
    <3>1. i + 1 \in 1 .. n
      BY <1>1, <1>3, <2>2
    <3> QED
      BY <1>2, <3>1
  <2> QED
    BY <2>1, <2>2
<1> QED
  BY <1>1, <1>3, <1>4 DEF LastState, n

\* A State makes the packets before it early ones.
LEMMA StateSent ==
  ASSUME NEW Q \in Seq(Downs), NEW m \in StatePackets
  PROVE  /\ ~ Quiet(Append(Q, m)) /\ LastState(Append(Q, m), m)
         /\ \A e, s : ~ Drawn(Append(Q, m), e, s)
<1> DEFINE R == Append(Q, m)   n == Len(Q)
<1>1. m \in Downs /\ m.type = "state"
  BY DEF Downs, StatePackets
<1>2. /\ Len(R) = n + 1 /\ n \in Nat /\ R[n + 1] = m
      /\ \A i \in 1 .. n : R[i] = Q[i]
  BY <1>1, PacketSent
<1> HIDE DEF R, n
<1>3. StateAt(R, n + 1)
  BY <1>1, <1>2 DEF StateAt
<1>4. ~ Quiet(R)
  BY <1>2, <1>3 DEF Quiet
<1>5. LastState(R, m)
  BY <1>2, <1>3 DEF LastState, Late
<1>6. \A e, s : ~ Drawn(R, e, s)
  BY <1>2, <1>3 DEF Drawn, Late
<1> QED
  BY <1>4, <1>5, <1>6 DEF R

\* Which packets are underway, once one is sent or received.
LEMMA HoldingSent ==
  ASSUME NEW M, NEW Q \in Seq(M), NEW m \in M, NEW x
  PROVE  Holding(Append(Q, m), x) <=> Holding(Q, x) \/ m = x
BY PacketSent DEF Holding

\* What a sequence holds but for its first packet.
LEMMA HoldingTaken ==
  ASSUME NEW M, NEW Q \in Seq(M), Q # <<>>, NEW x
  PROVE  Holding(Q, x) <=> Holding(Tail(Q), x) \/ Head(Q) = x
<1> DEFINE R == Tail(Q)   n == Len(Q)
<1>1. /\ Len(R) = n - 1 /\ n \in Nat \ {0} /\ Head(Q) = Q[1]
      /\ \A i \in 1 .. n - 1 : R[i] = Q[i + 1]
  BY PacketTaken
<1> HIDE DEF R, n
<1>2. ASSUME NEW i \in 1 .. n, Q[i] = x, i # 1  PROVE Holding(R, x)
  <2>1. i - 1 \in 1 .. n - 1 /\ (i - 1) + 1 = i
    BY <1>1, <1>2
  <2> QED
    BY <1>1, <1>2, <2>1 DEF Holding
<1>3. ASSUME NEW i \in 1 .. n - 1, R[i] = x  PROVE Holding(Q, x)
  <2>1. i + 1 \in 1 .. n /\ Q[i + 1] = x
    BY <1>1, <1>3
  <2> QED
    BY <2>1 DEF Holding, n
<1>4. ASSUME Head(Q) = x  PROVE Holding(Q, x)
  BY <1>1, <1>4 DEF Holding, n
<1>5. Holding(Q, x) => Holding(R, x) \/ Head(Q) = x
  BY <1>1, <1>2 DEF Holding, n
<1>6. Holding(R, x) => Holding(Q, x)
  BY <1>1, <1>3 DEF Holding
<1> QED
  BY <1>4, <1>5, <1>6 DEF R

\* Every packet that is left was there.
LEMMA TakenFrom ==
  ASSUME NEW M, NEW Q \in Seq(M), Q # <<>>
  PROVE  \A i \in 1 .. Len(Tail(Q)) : \E j \in 1 .. Len(Q) : j = i + 1 /\ Tail(Q)[i] = Q[j]
<1>1. /\ Len(Tail(Q)) = Len(Q) - 1 /\ Len(Q) \in Nat \ {0}
      /\ \A i \in 1 .. Len(Q) - 1 : Tail(Q)[i] = Q[i + 1]
  BY PacketTaken
<1> QED
  BY <1>1

\* A stroke that is not drawn stays so.
LEMMA UndrawnPackets ==
  ASSUME NEW M, NEW Q \in Seq(M), NEW e, NEW k, Undrawn(Q, e, k)
  PROVE  /\ \A m \in M : ~ DrawsStroke(m, e, k) => Undrawn(Append(Q, m), e, k)
         /\ Q # <<>> => Undrawn(Tail(Q), e, k)
<1>1. ASSUME NEW m \in M, ~ DrawsStroke(m, e, k)  PROVE Undrawn(Append(Q, m), e, k)
  BY <1>1, PacketSent DEF Undrawn
<1>2. ASSUME Q # <<>>  PROVE Undrawn(Tail(Q), e, k)
  BY <1>2, TakenFrom DEF Undrawn
<1> QED
  BY <1>1, <1>2

\* Erasures and Watches draw nothing.
LEMMA NoDrawing ==
  ASSUME NEW e, NEW k
  PROVE  /\ \A f, j : ~ DrawsStroke(Erase(f, j), e, k)
         /\ \A on : ~ DrawsStroke(Watch(on), e, k)
BY DEF DrawsStroke, Erase, Watch

\* A drawing of a stroke behind its erasure is a new packet, or was there.
LEMMA AgainSent ==
  ASSUME NEW Q \in Seq(Ups), NEW m \in Ups, NEW e, NEW k, Again(Append(Q, m), e, k)
  PROVE  Again(Q, e, k) \/ (Holding(Q, Erase(e, k)) /\ DrawsStroke(m, e, k))
<1> DEFINE R == Append(Q, m)   n == Len(Q)
<1>1. /\ Len(R) = n + 1 /\ n \in Nat /\ R[n + 1] = m
      /\ \A i \in 1 .. n : R[i] = Q[i]
  BY PacketSent
<1> HIDE DEF R, n
<1>2. PICK i \in 1 .. n + 1 : R[i] = Erase(e, k) /\ \E j \in i .. n + 1 : DrawsStroke(R[j], e, k)
  BY <1>1 DEF Again, R
<1>3. PICK j \in i .. n + 1 : DrawsStroke(R[j], e, k)
  BY <1>2
<1>4. i # j
  BY <1>2, <1>3, NoDrawing
<1>5. i \in 1 .. n /\ Q[i] = Erase(e, k)
  BY <1>1, <1>2, <1>3, <1>4
<1>6. CASE j = n + 1
  BY <1>1, <1>3, <1>5, <1>6 DEF Holding, n
<1>7. CASE j # n + 1
  <2>1. j \in 1 .. n /\ j \in i .. n /\ DrawsStroke(Q[j], e, k)
    BY <1>1, <1>3, <1>5, <1>7
  <2> QED
    BY <1>5, <2>1 DEF Again, n
<1> QED
  BY <1>6, <1>7

\* The same as packets are received.
LEMMA AgainTaken ==
  ASSUME NEW Q \in Seq(Ups), Q # <<>>, NEW e, NEW k
  PROVE  /\ Again(Tail(Q), e, k) => Again(Q, e, k)
         /\ Head(Q) = Erase(e, k) /\ ~ Again(Q, e, k) => Undrawn(Tail(Q), e, k)
<1> DEFINE R == Tail(Q)   n == Len(Q)
<1>1. /\ Len(R) = n - 1 /\ n \in Nat \ {0} /\ Head(Q) = Q[1]
      /\ \A i \in 1 .. n - 1 : R[i] = Q[i + 1]
  BY PacketTaken
<1> HIDE DEF R, n
<1>2. ASSUME Again(R, e, k)  PROVE Again(Q, e, k)
  <2>1. PICK i \in 1 .. n - 1 : R[i] = Erase(e, k) /\ \E j \in i .. n - 1 : DrawsStroke(R[j], e, k)
    BY <1>1, <1>2 DEF Again
  <2>2. PICK j \in i .. n - 1 : DrawsStroke(R[j], e, k)
    BY <2>1
  <2>3. i + 1 \in 1 .. n /\ Q[i + 1] = Erase(e, k)
    BY <1>1, <2>1
  <2>4. j \in 1 .. n - 1 /\ j + 1 \in i + 1 .. n
    BY <1>1, <2>1, <2>2
  <2>5. DrawsStroke(Q[j + 1], e, k)
    BY <1>1, <2>2, <2>4
  <2> QED
    BY <2>3, <2>4, <2>5 DEF Again, n
<1>3. ASSUME Head(Q) = Erase(e, k), ~ Again(Q, e, k)  PROVE Undrawn(R, e, k)
  <2> SUFFICES ASSUME NEW i \in 1 .. n - 1  PROVE ~ DrawsStroke(R[i], e, k)
    BY <1>1 DEF Undrawn
  <2>1. 1 \in 1 .. n /\ i + 1 \in 1 .. n /\ R[i] = Q[i + 1]
    BY <1>1
  <2> QED
    BY <1>1, <1>3, <2>1 DEF Again, n
<1> QED
  BY <1>2, <1>3 DEF R

\* An erasure with no drawing behind it stays one until it is received.
LEMMA LastErasure ==
  ASSUME NEW Q \in Seq(Ups), NEW e, NEW k
  PROVE  /\ \A m \in Ups : ErasedLast(Q, e, k) /\ ~ DrawsStroke(m, e, k) =>
              ErasedLast(Append(Q, m), e, k)
         /\ Erase(e, k) \in Ups => ErasedLast(Append(Q, Erase(e, k)), e, k)
         /\ Q # <<>> /\ ErasedLast(Q, e, k) =>
              ErasedLast(Tail(Q), e, k) \/ (Head(Q) = Erase(e, k) /\ Undrawn(Tail(Q), e, k))
<1>1. ASSUME NEW m \in Ups, ErasedLast(Q, e, k), ~ DrawsStroke(m, e, k)
      PROVE  ErasedLast(Append(Q, m), e, k)
  <2> DEFINE R == Append(Q, m)   n == Len(Q)
  <2>1. /\ Len(R) = n + 1 /\ n \in Nat /\ R[n + 1] = m
        /\ \A i \in 1 .. n : R[i] = Q[i]
    BY PacketSent
  <2> HIDE DEF R, n
  <2>2. PICK i \in 1 .. n : Q[i] = Erase(e, k) /\ \A j \in i .. n : ~ DrawsStroke(Q[j], e, k)
    BY <1>1 DEF ErasedLast, n
  <2>3. ASSUME NEW j \in i .. n + 1  PROVE ~ DrawsStroke(R[j], e, k)
    <3>1. CASE j = n + 1
      BY <1>1, <2>1, <3>1
    <3>2. CASE j # n + 1
      BY <2>1, <2>2, <3>2
    <3> QED
      BY <3>1, <3>2
  <2>4. i \in 1 .. n + 1 /\ R[i] = Erase(e, k)
    BY <2>1, <2>2
  <2> QED
    BY <2>1, <2>3, <2>4 DEF ErasedLast, R
<1>2. ASSUME Erase(e, k) \in Ups  PROVE ErasedLast(Append(Q, Erase(e, k)), e, k)
  <2> DEFINE R == Append(Q, Erase(e, k))   n == Len(Q)
  <2>1. Len(R) = n + 1 /\ n \in Nat /\ R[n + 1] = Erase(e, k)
    BY <1>2, PacketSent
  <2> HIDE DEF R, n
  <2>2. \A j \in n + 1 .. n + 1 : ~ DrawsStroke(R[j], e, k)
    BY <2>1, NoDrawing
  <2> QED
    BY <2>1, <2>2 DEF ErasedLast, R
<1>3. ASSUME Q # <<>>, ErasedLast(Q, e, k)
      PROVE  ErasedLast(Tail(Q), e, k) \/ (Head(Q) = Erase(e, k) /\ Undrawn(Tail(Q), e, k))
  <2> DEFINE R == Tail(Q)   n == Len(Q)
  <2>1. /\ Len(R) = n - 1 /\ n \in Nat \ {0} /\ Head(Q) = Q[1]
        /\ \A i \in 1 .. n - 1 : R[i] = Q[i + 1]
    BY <1>3, PacketTaken
  <2> HIDE DEF R, n
  <2>2. PICK i \in 1 .. n : Q[i] = Erase(e, k) /\ \A j \in i .. n : ~ DrawsStroke(Q[j], e, k)
    BY <1>3 DEF ErasedLast, n
  <2>3. CASE i = 1
    <3>1. ASSUME NEW j \in 1 .. n - 1  PROVE ~ DrawsStroke(R[j], e, k)
      <4>1. j + 1 \in i .. n /\ R[j] = Q[j + 1]
        BY <2>1, <2>3
      <4> QED
        BY <2>2, <4>1
    <3> QED
      BY <2>1, <2>2, <2>3, <3>1 DEF Undrawn, R
  <2>4. CASE i # 1
    <3>1. i - 1 \in 1 .. n - 1 /\ (i - 1) + 1 = i
      BY <2>1, <2>2, <2>4
    <3>2. ASSUME NEW j \in i - 1 .. n - 1  PROVE ~ DrawsStroke(R[j], e, k)
      <4>1. j \in 1 .. n - 1 /\ j + 1 \in i .. n /\ R[j] = Q[j + 1]
        BY <2>1, <3>1
      <4> QED
        BY <2>2, <4>1
    <3>3. R[i - 1] = Erase(e, k)
      BY <2>1, <2>2, <3>1
    <3> QED
      BY <2>1, <3>1, <3>2, <3>3 DEF ErasedLast, R
  <2> QED
    BY <2>3, <2>4
<1> QED
  BY <1>1, <1>2, <1>3

-----------------------------------------------------------------------------
\* Pictures: what a segment and an erasure change.
LEMMA Names ==
  ASSUME NEW s \in Inks
  PROVE  /\ StrokeOf(s) \in Marks /\ StrokeOf(s)[1] = s[1] /\ StrokeOf(s)[2] = s[2]
         /\ IdOf(s) \in Marks /\ IdOf(s)[1] = s[1] /\ IdOf(s)[2] = s[3]
         /\ s[1] \in Devices /\ s[2] \in Nat /\ s[3] \in Nat
BY DEF Inks, Marks, StrokeOf, IdOf

\* The strokes of a picture.
LEMMA InStrokes ==
  ASSUME NEW p, NEW k
  PROVE  k \in Strokes(p) <=> \E s \in p.ink : StrokeOf(s) = k
BY DEF Strokes, StrokeOf

\* What ScreenDrawing::add changes, and when.
LEMMA SegmentAdded ==
  ASSUME NEW p \in Scenes, NEW e, NEW s \in Inks
  PROVE  LET q == AddSegment(p, e, s) IN
         /\ q \in Scenes /\ q.enabled = p.enabled /\ q.epoch = p.epoch /\ q.banned = p.banned
         /\ q.next = p.next /\ q.removed = p.removed
         /\ Adds(p, e, s) => /\ q.ink = p.ink \cup {s} /\ q.received = p.received \cup {IdOf(s)}
                             /\ p.enabled /\ e = p.epoch /\ ~ Full(p)
                             /\ StrokeOf(s) \notin p.removed /\ IdOf(s) \notin p.received
         /\ ~ Adds(p, e, s) => q = p
         /\ ~ Adds(p, e, s) /\ p.enabled /\ e = p.epoch /\ ~ Full(p) =>
              StrokeOf(s) \in p.removed \/ IdOf(s) \in p.received
<1>1. IdOf(s) \in Marks /\ IdOf(s) = <<s[1], s[3]>> /\ StrokeOf(s) = <<s[1], s[2]>>
  BY Names DEF IdOf, StrokeOf
<1>2. CASE Adds(p, e, s)
  <2> DEFINE q == [p EXCEPT !.ink = @ \cup {s}, !.received = @ \cup {<<s[1], s[3]>>}]
  <2>1. AddSegment(p, e, s) = q
    BY <1>2 DEF AddSegment
  <2>2. /\ q \in Scenes /\ q.enabled = p.enabled /\ q.epoch = p.epoch /\ q.banned = p.banned
        /\ q.next = p.next /\ q.removed = p.removed
        /\ q.ink = p.ink \cup {s} /\ q.received = p.received \cup {IdOf(s)}
    BY <1>1 DEF Scenes
  <2> HIDE DEF q
  <2>3. /\ p.enabled /\ e = p.epoch /\ ~ Full(p)
        /\ StrokeOf(s) \notin p.removed /\ IdOf(s) \notin p.received
    BY <1>1, <1>2 DEF Adds
  <2> QED
    BY <1>2, <2>1, <2>2, <2>3
<1>3. CASE ~ Adds(p, e, s)
  <2>1. AddSegment(p, e, s) = p
    BY <1>3 DEF AddSegment
  <2>2. p.enabled /\ e = p.epoch /\ ~ Full(p) =>
              StrokeOf(s) \in p.removed \/ IdOf(s) \in p.received
    BY <1>1, <1>3 DEF Adds
  <2> QED
    BY <1>3, <2>1, <2>2
<1> QED
  BY <1>2, <1>3

\* What ScreenDrawing::remove changes.
LEMMA StrokeRemoved ==
  ASSUME NEW p \in Scenes, NEW k \in Marks
  PROVE  LET q == RemoveStroke(p, k[1], k[2]) IN
         /\ q \in Scenes /\ q.enabled = p.enabled /\ q.epoch = p.epoch /\ q.banned = p.banned
         /\ q.next = p.next /\ q.received = p.received
         /\ q.ink = {s \in p.ink : StrokeOf(s) # k}
         /\ k \in Strokes(p) => q.removed = p.removed \cup {k}
         /\ k \notin Strokes(p) => q = p
<1> DEFINE gone == {s \in p.ink : s[1] = k[1] /\ s[2] = k[2]}
<1>1. \A s \in p.ink : StrokeOf(s) = k <=> s[1] = k[1] /\ s[2] = k[2]
  BY DEF StrokeOf, Marks, Scenes, Inks
<1>2. k = <<k[1], k[2]>>
  BY DEF Marks
<1>3. gone = {} <=> k \notin Strokes(p)
  BY <1>1, InStrokes
<1>4. p.ink \ gone = {s \in p.ink : StrokeOf(s) # k}
  BY <1>1
<1>5. CASE gone = {}
  <2>1. RemoveStroke(p, k[1], k[2]) = p
    BY <1>5 DEF RemoveStroke
  <2>2. p.ink = {s \in p.ink : StrokeOf(s) # k}
    BY <1>4, <1>5
  <2> QED
    BY <1>3, <1>5, <2>1, <2>2
<1>6. CASE gone # {}
  <2> DEFINE q == [p EXCEPT !.ink = @ \ gone, !.removed = @ \cup {<<k[1], k[2]>>}]
  <2>1. RemoveStroke(p, k[1], k[2]) = q
    BY <1>6 DEF RemoveStroke
  <2>2. /\ q \in Scenes /\ q.enabled = p.enabled /\ q.epoch = p.epoch /\ q.banned = p.banned
        /\ q.next = p.next /\ q.received = p.received
        /\ q.ink = p.ink \ gone /\ q.removed = p.removed \cup {k}
    BY <1>2 DEF Scenes
  <2> HIDE DEF q, gone
  <2> QED
    BY <1>3, <1>4, <1>6, <2>1, <2>2
<1> QED
  BY <1>5, <1>6

\* A picture stays right: segments of removed strokes are not added, and
\* removed strokes are remembered.
LEMMA AddedRight ==
  ASSUME NEW p \in Scenes, PictureOK(p), NEW e, NEW s \in Inks
  PROVE  PictureOK(AddSegment(p, e, s))
<1> DEFINE q == AddSegment(p, e, s)
<1>1. /\ q.enabled = p.enabled /\ q.removed = p.removed
      /\ Adds(p, e, s) => /\ q.ink = p.ink \cup {s} /\ q.received = p.received \cup {IdOf(s)}
                          /\ p.enabled /\ StrokeOf(s) \notin p.removed
      /\ ~ Adds(p, e, s) => q = p
  BY SegmentAdded
<1> HIDE DEF q
<1>2. CASE Adds(p, e, s)
  BY <1>1, <1>2 DEF PictureOK, q
<1>3. CASE ~ Adds(p, e, s)
  BY <1>1, <1>3 DEF q
<1> QED
  BY <1>2, <1>3

\* The same of a stroke that is removed.
LEMMA RemovedRight ==
  ASSUME NEW p \in Scenes, PictureOK(p), NEW k \in Marks
  PROVE  PictureOK(RemoveStroke(p, k[1], k[2]))
<1> DEFINE q == RemoveStroke(p, k[1], k[2])
<1>1. /\ q.enabled = p.enabled /\ q.received = p.received
      /\ q.ink = {s \in p.ink : StrokeOf(s) # k}
      /\ k \in Strokes(p) => q.removed = p.removed \cup {k}
      /\ k \notin Strokes(p) => q = p
  BY StrokeRemoved
<1> HIDE DEF q
<1>2. CASE k \in Strokes(p)
  BY <1>1, <1>2 DEF PictureOK, q
<1>3. CASE k \notin Strokes(p)
  BY <1>1, <1>3 DEF q
<1> QED
  BY <1>2, <1>3

\* What ScreenDrawing::setState leaves.
LEMMA StateSet ==
  ASSUME NEW p \in Scenes, NEW on \in BOOLEAN, NEW e \in Nat
  PROVE  LET q == SetState(p, on, e) IN
         /\ q \in Scenes /\ q.enabled = on /\ q.epoch = e /\ q.banned = p.banned
         /\ q.next = p.next /\ q.ink = {} /\ q.received = {} /\ q.removed = {}
         /\ PictureOK(q)
<1> DEFINE q == SetState(p, on, e)
<1>1. q = [enabled |-> on, epoch |-> e, banned |-> p.banned, next |-> p.next,
           ink |-> {}, received |-> {}, removed |-> {}]
  BY DEF SetState, Blank
<1>2. /\ q \in Scenes /\ q.enabled = on /\ q.epoch = e /\ q.banned = p.banned
      /\ q.next = p.next /\ q.ink = {} /\ q.received = {} /\ q.removed = {}
  BY <1>1 DEF Scenes
<1> HIDE DEF q
<1>3. PictureOK(q)
  BY <1>2 DEF PictureOK
<1> QED
  BY <1>2, <1>3 DEF q

\* The ink in some order, each segment once.
LEMMA AllInk ==
  ASSUME NEW S, IsFiniteSet(S)
  PROVE  /\ Cardinality(S) \in Nat /\ SetToSeq(S) \in [1 .. Cardinality(S) -> S]
         /\ \A x \in S : \E i \in 1 .. Cardinality(S) : SetToSeq(S)[i] = x
<1> DEFINE n == Cardinality(S)
<1>1. n \in Nat /\ ExistsBijection(1 .. n, S)
  BY FS_CardinalityType
<1>2. PICK f \in Bijection(1 .. n, S) : TRUE
  BY <1>1 DEF ExistsBijection
<1>3. f \in [1 .. n -> S] /\ IsInjective(f)
  BY <1>2 DEF Bijection, Injection
<1>4. SetToSeq(S) \in [1 .. n -> S] /\ IsInjective(SetToSeq(S))
  BY <1>3 DEF SetToSeq
<1>5. SetToSeq(S) \in Injection(1 .. n, S)
  BY <1>4 DEF Injection
<1>6. 1 \in Int /\ n \in Int
  BY <1>1
<1> HIDE DEF n
<1>7. IsFiniteSet(1 .. n) /\ Cardinality(1 .. n) = IF 1 > n THEN 0 ELSE n - 1 + 1
  BY <1>6, FS_Interval
<1>8. Cardinality(1 .. n) = n
  BY <1>1, <1>7
<1>9. SetToSeq(S) \in Surjection(1 .. n, S)
  BY <1>5, <1>8, FS_Injection DEF n
<1> QED
  BY <1>1, <1>4, <1>9 DEF n, Surjection

\* A snapshot is the State and all of the ink.
LEMMA SnapshotTold ==
  ASSUME NEW p \in Scenes, IsFiniteSet(p.ink), NEW b \in BOOLEAN
  PROVE  LET S == Snapshot(p, b) IN
         /\ S \in Seq(Downs) /\ Len(S) \in Nat \ {0} /\ S[1] = State(p, b)
         /\ \A i \in 2 .. Len(S) : \E s \in p.ink : S[i] = Draw(p.epoch, s)
         /\ \A s \in p.ink : \E i \in 2 .. Len(S) : S[i] = Draw(p.epoch, s)
<1> DEFINE n == Cardinality(p.ink)   g == SetToSeq(p.ink)
           D == [i \in 1 .. n |-> Draw(p.epoch, g[i])]
           T == <<State(p, b)>>
<1>1. n \in Nat /\ g \in [1 .. n -> p.ink] /\ \A s \in p.ink : \E i \in 1 .. n : g[i] = s
  BY AllInk
<1>2. Snapshot(p, b) = T \o D
  BY DEF Snapshot
<1> HIDE DEF n, g
<1>3. \A s \in p.ink : Draw(p.epoch, s) \in DrawPackets
  BY DEF Draw, DrawPackets, Scenes
<1>4. State(p, b) \in StatePackets
  BY DEF State, StatePackets, Scenes
<1>5. \A i \in 1 .. n : g[i] \in p.ink /\ D[i] = Draw(p.epoch, g[i]) /\ D[i] \in Downs
  BY <1>1, <1>3 DEF Downs
<1>6. D \in Seq(Downs) /\ Len(D) = n
  BY <1>1, <1>5
<1>7. T \in Seq(Downs) /\ Len(T) = 1 /\ T[1] = State(p, b)
  BY <1>4 DEF Downs
<1> HIDE DEF D, T
<1>8. /\ T \o D \in Seq(Downs) /\ Len(T \o D) = 1 + n /\ (T \o D)[1] = State(p, b)
      /\ \A i \in 1 .. n : (T \o D)[1 + i] = D[i]
  <2> DEFINE one == Len(T)   C == T \o D
  <2>1. /\ C \in Seq(Downs) /\ Len(C) = one + n /\ one = 1
        /\ \A i \in 1 .. one : C[i] = T[i]
        /\ \A i \in 1 .. n : C[one + i] = D[i]
    <3>0. ASSUME NEW A \in Seq(Downs), NEW B \in Seq(Downs)
          PROVE  /\ A \o B \in Seq(Downs) /\ Len(A \o B) = Len(A) + Len(B)
                 /\ \A i \in 1 .. Len(A) : (A \o B)[i] = A[i]
                 /\ \A i \in 1 .. Len(B) : (A \o B)[Len(A) + i] = B[i]
      BY PacketsJoined
    <3>1. /\ T \o D \in Seq(Downs) /\ Len(T \o D) = Len(T) + Len(D)
          /\ \A i \in 1 .. Len(T) : (T \o D)[i] = T[i]
          /\ \A i \in 1 .. Len(D) : (T \o D)[Len(T) + i] = D[i]
      BY <1>6, <1>7, <3>0
    <3> QED
      BY <1>6, <1>7, <3>1
  <2>2. T[one] = State(p, b)
    BY <1>7
  <2> HIDE DEF C, one
  <2>3. one \in 1 .. one
    BY <2>1
  <2>4. C[one] = State(p, b)
    BY <2>1, <2>2, <2>3
  <2> QED
    BY <2>1, <2>4 DEF C
<1>9. ASSUME NEW i \in 2 .. 1 + n  PROVE \E s \in p.ink : (T \o D)[i] = Draw(p.epoch, s)
  <2>1. i - 1 \in 1 .. n /\ 1 + (i - 1) = i
    BY <1>1
  <2>2. (T \o D)[i] = D[i - 1]
    BY <1>8, <2>1
  <2> QED
    BY <1>5, <2>1, <2>2
<1>10. ASSUME NEW s \in p.ink  PROVE \E i \in 2 .. 1 + n : (T \o D)[i] = Draw(p.epoch, s)
  <2>1. PICK i \in 1 .. n : g[i] = s
    BY <1>1
  <2>2. 1 + i \in 2 .. 1 + n /\ (T \o D)[1 + i] = D[i]
    BY <1>1, <1>8
  <2>3. D[i] = Draw(p.epoch, s)
    BY <1>5, <2>1
  <2> QED
    BY <2>2, <2>3
<1> DEFINE C == T \o D
<1>11. Snapshot(p, b) = C
  BY <1>2
<1>12. /\ C \in Seq(Downs) /\ Len(C) = 1 + n /\ C[1] = State(p, b)
       /\ \A i \in 2 .. 1 + n : \E s \in p.ink : C[i] = Draw(p.epoch, s)
       /\ \A s \in p.ink : \E i \in 2 .. 1 + n : C[i] = Draw(p.epoch, s)
  BY <1>8, <1>9, <1>10
<1> HIDE DEF C
<1>13. Len(C) \in Nat \ {0}
  BY <1>1, <1>12
<1> QED
  BY <1>11, <1>12, <1>13

\* What is underway once a snapshot is sent.
LEMMA SnapshotSent ==
  ASSUME NEW Q \in Seq(Downs), NEW p \in Scenes, IsFiniteSet(p.ink), NEW b \in BOOLEAN
  PROVE  LET R == Q \o Snapshot(p, b) IN
         /\ R \in Seq(Downs) /\ ~ Quiet(R) /\ LastState(R, State(p, b))
         /\ \A s : Drawn(R, p.epoch, s) <=> s \in p.ink
         /\ \A i \in 1 .. Len(R) : \/ \E j \in 1 .. Len(Q) : R[i] = Q[j]
                                   \/ R[i] = State(p, b)
                                   \/ \E s \in p.ink : R[i] = Draw(p.epoch, s)
<1> DEFINE S == Snapshot(p, b)   R == Q \o S   n == Len(Q)   m == Len(S)
<1>1. /\ S \in Seq(Downs) /\ m \in Nat \ {0} /\ S[1] = State(p, b)
      /\ \A i \in 2 .. m : \E s \in p.ink : S[i] = Draw(p.epoch, s)
      /\ \A s \in p.ink : \E i \in 2 .. m : S[i] = Draw(p.epoch, s)
  BY SnapshotTold
<1> HIDE DEF S
<1>2. /\ R \in Seq(Downs) /\ Len(R) = n + m /\ n \in Nat
      /\ \A i \in 1 .. n : R[i] = Q[i]
      /\ \A i \in 1 .. m : R[n + i] = S[i]
  BY <1>1, PacketsJoined
<1> HIDE DEF R, n, m
<1>3. StateAt(R, n + 1) /\ R[n + 1] = State(p, b)
  BY <1>1, <1>2 DEF StateAt, State
<1>4. ASSUME NEW i \in n + 2 .. n + m
      PROVE  (\E s \in p.ink : R[i] = Draw(p.epoch, s)) /\ ~ StateAt(R, i)
  <2>1. i - n \in 1 .. m /\ i - n \in 2 .. m /\ n + (i - n) = i
    BY <1>1, <1>2
  <2>2. R[i] = S[i - n]
    BY <1>2, <2>1
  <2>3. PICK s \in p.ink : R[i] = Draw(p.epoch, s)
    BY <1>1, <2>1, <2>2
  <2> QED
    BY <2>3 DEF StateAt, Draw
<1>5. ~ Quiet(R)
  BY <1>1, <1>2, <1>3 DEF Quiet
<1>6. LastState(R, State(p, b))
  <2> SUFFICES ASSUME NEW i \in 1 .. n + m, StateAt(R, i), Late(R, i + 1)
               PROVE  R[i] = State(p, b)
    BY <1>2 DEF LastState
  <2>1. i <= n + 1
    BY <1>1, <1>2, <1>4
  <2>2. ~ (i + 1 <= n + 1)
    BY <1>1, <1>2, <1>3 DEF Late
  <2>3. i = n + 1
    BY <1>2, <2>1, <2>2
  <2> QED
    BY <1>3, <2>3
<1>7. ASSUME NEW s, Drawn(R, p.epoch, s)  PROVE s \in p.ink
  <2>1. PICK i \in 1 .. n + m : Late(R, i) /\ R[i] = Draw(p.epoch, s)
    BY <1>2, <1>7 DEF Drawn
  <2>2. i \in n + 2 .. n + m
    BY <1>1, <1>2, <1>3, <2>1 DEF Late
  <2>3. PICK t \in p.ink : R[i] = Draw(p.epoch, t)
    BY <1>4, <2>2
  <2>4. s = t
    BY <2>1, <2>3 DEF Draw
  <2> QED
    BY <2>4
<1>8. ASSUME NEW s \in p.ink  PROVE Drawn(R, p.epoch, s)
  <2>1. PICK i \in 2 .. m : S[i] = Draw(p.epoch, s)
    BY <1>1
  <2>2. n + i \in 1 .. n + m /\ R[n + i] = Draw(p.epoch, s) /\ n + i \in n + 2 .. n + m
    BY <1>1, <1>2, <2>1
  <2>3. Late(R, n + i)
    BY <1>1, <1>2, <1>4, <2>2 DEF Late
  <2> QED
    BY <1>2, <2>2, <2>3 DEF Drawn
<1>9. ASSUME NEW i \in 1 .. n + m
      PROVE  \/ \E j \in 1 .. n : R[i] = Q[j]
             \/ R[i] = State(p, b)
             \/ \E s \in p.ink : R[i] = Draw(p.epoch, s)
  <2>1. i \in 1 .. n \/ i = n + 1 \/ i \in n + 2 .. n + m
    BY <1>1, <1>2
  <2> QED
    BY <1>2, <1>3, <1>4, <2>1
<1> QED
  BY <1>2, <1>5, <1>6, <1>7, <1>8, <1>9 DEF R, S, n

-----------------------------------------------------------------------------
(* A step of one viewer leaves the links of the others.                      *)

\* Of viewer v nothing changes.
Unmoved(v) ==
    /\ picture'[v] = picture[v] /\ toSharer'[v] = toSharer[v] /\ toViewer'[v] = toViewer[v]
    /\ v \in session'.viewers <=> v \in session.viewers
    /\ v \in session'.banned <=> v \in session.banned
    /\ v \in session'.watching <=> v \in session.watching
    /\ session'.attempts[v] = session.attempts[v]
    /\ v \in missed' <=> v \in missed
\* Strokes that are gone stay gone.
DeadKept == \A k \in Marks : Dead(k) /\ Tracked(k)' => Dead(k)'
\* The sharer's picture stays, and no one ceases to number again.
SharerRests == picture'[Sharer] = picture[Sharer] /\ restarted \subseteq restarted'

\* What stays when the sharer does.
LEMMA SharerRestsKeeps ==
  ASSUME SharerRests
  PROVE  /\ Owned' = Owned /\ Cur' = Cur /\ \A k : Known(k)' <=> Known(k)
         /\ \A k : Tracked(k)' => Tracked(k)
         /\ SharerOK => SharerOK'
<1>1. Owned' = Owned
  BY DEF SharerRests, Owned
<1>2. Cur' = Cur
  BY <1>1 DEF Cur
<1>3. \A k : Known(k)' <=> Known(k)
  BY <1>1 DEF Known
<1>4. \A k : Tracked(k)' => Tracked(k)
  BY DEF SharerRests, Tracked
<1>5. SharerOK => SharerOK'
  BY <1>1, <1>2 DEF SharerOK
<1> QED
  BY <1>1, <1>2, <1>3, <1>4, <1>5

\* A viewer to whom nothing happens.
LEMMA UnmovedKeeps ==
  ASSUME DrawTyped, NEW v \in Viewers, ViewerOK(v), SharerRests, Unmoved(v), DeadKept
  PROVE  ViewerOK(v)'
<1>1. /\ Owned' = Owned /\ Cur' = Cur /\ \A k : Known(k)' <=> Known(k)
      /\ \A k : Tracked(k)' => Tracked(k)
  BY SharerRestsKeeps
<1>2. /\ picture'[v] = picture[v] /\ toSharer'[v] = toSharer[v] /\ toViewer'[v] = toViewer[v]
      /\ v \in session'.viewers <=> v \in session.viewers
      /\ v \in session'.banned <=> v \in session.banned
      /\ v \in session'.watching <=> v \in session.watching
      /\ session'.attempts[v] = session.attempts[v]
      /\ v \in missed' <=> v \in missed
  BY DEF Unmoved
<1>3. /\ PictureOK(picture[v]) /\ picture[v].epoch <= Cur /\ PacketsOK(v) /\ AsksAgain(v)
      /\ v \notin restarted => Numbered(v)
      /\ ErasuresOK(v) /\ LinkOK(v)
  BY DEF ViewerOK
<1>4. picture[v].removed \subseteq Marks
  BY DEF DrawTyped, Devices, Scenes
<1>5. PictureOK(picture[v])' /\ picture'[v].epoch <= Cur'
  BY <1>1, <1>2, <1>3
<1>6. PacketsOK(v)'
  BY <1>1, <1>2, <1>3 DEF PacketsOK, DownOK, UpOK
<1>7. AsksAgain(v)'
  BY <1>2, <1>3 DEF AsksAgain, Asked
<1>8. ASSUME v \notin restarted'  PROVE Numbered(v)'
  <2>1. NumbersHere(v) /\ NumbersUp(v) /\ NumbersThere(v)
    BY <1>3, <1>8 DEF SharerRests, Numbered
  <2>2. NumbersHere(v)'
    BY <1>1, <1>2, <2>1 DEF NumbersHere
  <2>3. NumbersUp(v)'
    BY <1>1, <1>2, <2>1 DEF NumbersUp, DrawsNow
  <2>4. NumbersThere(v)'
    BY <1>1, <1>2, <2>1 DEF NumbersThere
  <2> QED
    BY <2>2, <2>3, <2>4 DEF Numbered
<1>9. ErasuresOK(v)'
  BY <1>1, <1>2, <1>3 DEF ErasuresOK, DeadKept
<1>10. LinkOK(v)'
  <2> SUFFICES ASSUME InSync(v)'
               PROVE  /\ ToldState(v)'
                      /\ \/ Quiet(toViewer[v])' /\ Full(picture[v])'
                         \/ ToldInk(v)' /\ TellsInk(v)' /\ (Quiet(toViewer[v])' => ShownInk(v)')
    BY DEF LinkOK
  <2>1. InSync(v)
    BY <1>2 DEF InSync, Asked
  <2>2. /\ ToldState(v)
        /\ \/ Quiet(toViewer[v]) /\ Full(picture[v])
           \/ ToldInk(v) /\ TellsInk(v) /\ (Quiet(toViewer[v]) => ShownInk(v))
    BY <1>3, <2>1 DEF LinkOK
  <2>3. ToldState(v)'
    BY <1>1, <1>2, <2>2 DEF ToldState
  <2>4. \A k : Ahead(v, k)' <=> Ahead(v, k)
    BY <1>2 DEF Ahead
  <2>5. ASSUME ToldInk(v)  PROVE ToldInk(v)'
    BY <1>1, <1>2, <2>4, <2>5 DEF ToldInk
  <2>6. ASSUME TellsInk(v)  PROVE TellsInk(v)'
    BY <1>1, <1>2, <2>6 DEF TellsInk
  <2>7. ASSUME ShownInk(v)  PROVE ShownInk(v)'
    <3>1. ShowsInk(v)'
      BY <1>1, <1>2, <2>4, <2>7 DEF ShownInk, ShowsInk
    <3>2. RemovesInk(v)'
      BY <1>1, <1>2, <1>4, <2>4, <2>7 DEF ShownInk, RemovesInk, DeadKept
    <3>3. RepeatsInk(v)'
      BY <1>1, <1>2, <2>7 DEF ShownInk, RepeatsInk, Offered
    <3>4. ReceivesInk(v)'
      BY <1>1, <1>2, <2>7 DEF ShownInk, ReceivesInk
    <3> QED
      BY <3>1, <3>2, <3>3, <3>4 DEF ShownInk
  <2>8. Quiet(toViewer[v])' = Quiet(toViewer[v]) /\ Full(picture[v])' = Full(picture[v])
    BY <1>2
  <2> QED
    BY <2>2, <2>3, <2>5, <2>6, <2>7, <2>8
<1> QED
  BY <1>5, <1>6, <1>7, <1>8, <1>9, <1>10 DEF ViewerOK

\* Strokes of others stay gone when one viewer does something.
LEMMA OthersStayDead ==
  ASSUME NEW u \in Viewers, SharerRests, \A v \in Viewers \ {u} : Unmoved(v),
         \A k \in Marks : k[1] = u /\ Tracked(k)' /\ Gone(u, k) => Dead(k)'
  PROVE  DeadKept
<1>1. Owned' = Owned /\ Cur' = Cur
  BY SharerRestsKeeps
<1> SUFFICES ASSUME NEW k \in Marks, Dead(k), Tracked(k)'  PROVE Dead(k)'
  BY DEF DeadKept
<1>2. CASE k \in Owned.removed
  BY <1>1, <1>2 DEF Dead
<1>3. CASE k[1] = u /\ Gone(u, k)
  BY <1>3
<1>4. CASE k[1] \in Viewers \ {u} /\ Gone(k[1], k)
  <2>1. picture'[k[1]] = picture[k[1]] /\ toSharer'[k[1]] = toSharer[k[1]]
    BY <1>4 DEF Unmoved
  <2>2. Gone(k[1], k)'
    BY <1>1, <1>4, <2>1 DEF Gone
  <2> QED
    BY <1>4, <2>2 DEF Dead
<1> QED
  BY <1>2, <1>3, <1>4 DEF Dead

\* What is left to show of a step of one viewer is about that viewer.
LEMMA OneViewer ==
  ASSUME DrawIInv, DrawTyped', NEW u \in Viewers, SharerRests,
         \A v \in Viewers \ {u} : Unmoved(v),
         \A k \in Marks : k[1] = u /\ Tracked(k)' /\ Gone(u, k) => Dead(k)',
         DeadKept => ViewerOK(u)'
  PROVE  DrawIInv'
<1>1. DeadKept
  BY OthersStayDead
<1>2. \A v \in Viewers \ {u} : ViewerOK(v)'
  BY <1>1, UnmovedKeeps DEF DrawIInv
<1>3. SharerOK'
  BY SharerRestsKeeps DEF DrawIInv
<1> QED
  BY <1>1, <1>2, <1>3 DEF DrawIInv

-----------------------------------------------------------------------------
(* A step that says nothing new on a link: a packet is received or lost, the *)
(* drawing is asked for, or all of it is sent.                               *)

\* To the sharer.
Up(v) ==
    \/ toSharer'[v] = toSharer[v]
    \/ toSharer[v] # <<>> /\ toSharer'[v] = Tail(toSharer[v])
    \/ \E on \in BOOLEAN : toSharer'[v] = Append(toSharer[v], Watch(on))
    \/ \E on \in BOOLEAN : toSharer'[v] = <<Watch(on)>>
\* To the viewer.
Down(v) ==
    \/ toViewer'[v] = toViewer[v]
    \/ toViewer[v] # <<>> /\ toViewer'[v] = Tail(toViewer[v])
    \/ toViewer'[v] = <<>>
    \/ \E banned \in BOOLEAN : toViewer'[v] = toViewer[v] \o Snapshot(Owned, banned)
\* The viewer's picture stays, or begins again.
Rests(v) ==
    \/ picture'[v] = picture[v]
    \/ LET p == picture'[v] IN
       /\ p.epoch = 0 /\ p.ink = {} /\ p.received = {} /\ p.removed = {}
       /\ v \notin restarted' => p.next = picture[v].next

\* A Watch is a packet to the sharer.
LEMMA WatchPacket == \A on \in BOOLEAN : Watch(on) \in Ups /\ Watch(on).type = "watch"
BY DEF Watch, Ups, WatchPackets

\* What is underway to the sharer was underway, but for a Watch.
LEMMA UpFrom ==
  ASSUME DrawTyped, NEW v \in Viewers, Up(v)
  PROVE  /\ \A i \in 1 .. Len(toSharer'[v]) :
              \/ toSharer'[v][i].type = "watch"
              \/ \E j \in 1 .. Len(toSharer[v]) : toSharer'[v][i] = toSharer[v][j]
         /\ \A i, j \in 1 .. Len(toSharer'[v]) :
              i < j /\ toSharer'[v][i].type # "watch" /\ toSharer'[v][j].type # "watch" =>
                \E h, l \in 1 .. Len(toSharer[v]) : h < l /\ toSharer'[v][i] = toSharer[v][h]
                                                          /\ toSharer'[v][j] = toSharer[v][l]
<1> DEFINE Q == toSharer[v]   R == toSharer'[v]
<1>1. Q \in Seq(Ups)
  BY DEF DrawTyped
<1>2. Up(v) => \/ R = Q
               \/ Q # <<>> /\ R = Tail(Q)
               \/ \E on \in BOOLEAN : R = Append(Q, Watch(on))
               \/ \E on \in BOOLEAN : R = <<Watch(on)>>
  BY DEF Up
<1> HIDE DEF Q, R
<1>3. CASE R = Q
  BY <1>3 DEF Q, R
<1>4. CASE Q # <<>> /\ R = Tail(Q)
  <2>1. \A i \in 1 .. Len(R) : \E j \in 1 .. Len(Q) : j = i + 1 /\ R[i] = Q[j]
    BY <1>1, <1>4, TakenFrom
  <2>2. Len(R) = Len(Q) - 1 /\ Len(Q) \in Nat
    BY <1>1, <1>4
  <2> HIDE <1>4
  <2> QED
    BY <2>1, <2>2 DEF Q, R
<1>5. ASSUME NEW on \in BOOLEAN, R = Append(Q, Watch(on))
      PROVE  /\ \A i \in 1 .. Len(R) : R[i].type = "watch" \/ \E j \in 1 .. Len(Q) : R[i] = Q[j]
             /\ \A i, j \in 1 .. Len(R) : i < j /\ R[i].type # "watch" /\ R[j].type # "watch" =>
                  \E h, l \in 1 .. Len(Q) : h < l /\ R[i] = Q[h] /\ R[j] = Q[l]
  <2>1. /\ Len(R) = Len(Q) + 1 /\ Len(Q) \in Nat /\ R[Len(Q) + 1] = Watch(on)
        /\ \A i \in 1 .. Len(Q) : R[i] = Q[i]
    BY <1>1, <1>5, WatchPacket, PacketSent
  <2>2. \A i \in 1 .. Len(R) : i \in 1 .. Len(Q) \/ R[i].type = "watch"
    BY <2>1, WatchPacket
  <2> HIDE <1>5
  <2> QED
    BY <2>1, <2>2
<1>6. ASSUME NEW on \in BOOLEAN, R = <<Watch(on)>>
      PROVE  \A i \in 1 .. Len(R) : R[i].type = "watch"
  BY <1>6, WatchPacket
<1>7. CASE \E on \in BOOLEAN : R = Append(Q, Watch(on))
  BY <1>5, <1>7 DEF Q, R
<1>8. CASE \E on \in BOOLEAN : R = <<Watch(on)>>
  <2>1. \A i \in 1 .. Len(R) : R[i].type = "watch"
    BY <1>6, <1>8
  <2> HIDE <1>8
  <2> QED
    BY <2>1 DEF R
<1> QED
  BY <1>2, <1>3, <1>4, <1>7, <1>8

\* What is underway to the sharer is as good as it was.
LEMMA UpKept ==
  ASSUME DrawTyped, NEW v \in Viewers, SharerRests, Up(v), PacketsOK(v)
  PROVE  /\ \A i \in 1 .. Len(toSharer'[v]) : UpOK(v, toSharer[v][i])'
         /\ \A k : Undrawn(toSharer[v], Cur, k) => Undrawn(toSharer'[v], Cur, k)
         /\ \A e, k : Holding(toSharer'[v], Erase(e, k)) => Holding(toSharer[v], Erase(e, k))
         /\ \A e, k : Holding(toSharer'[v], Draw(e, k)) => Holding(toSharer[v], Draw(e, k))
         /\ \A k : Again(toSharer'[v], Cur, k) => Again(toSharer[v], Cur, k)
         /\ NumbersUp(v) /\ picture'[v].next = picture[v].next => NumbersUp(v)'
<1> DEFINE Q == toSharer[v]   R == toSharer'[v]
<1>1. /\ Cur' = Cur /\ Owned' = Owned /\ \A k : Known(k)' <=> Known(k)
  BY SharerRestsKeeps
<1>2. /\ \A i \in 1 .. Len(R) : R[i].type = "watch" \/ \E j \in 1 .. Len(Q) : R[i] = Q[j]
      /\ \A i, j \in 1 .. Len(R) : i < j /\ R[i].type # "watch" /\ R[j].type # "watch" =>
           \E h, l \in 1 .. Len(Q) : h < l /\ R[i] = Q[h] /\ R[j] = Q[l]
  BY UpFrom
<1>3. \A i \in 1 .. Len(Q) : UpOK(v, Q[i])
  BY DEF PacketsOK
<1> HIDE DEF Q, R
<1>4. ASSUME NEW i \in 1 .. Len(R)  PROVE UpOK(v, toSharer[v][i])'
  <2>0. toSharer[v]' = R
    BY DEF R
  <2>1. CASE R[i].type = "watch"
    BY <2>0, <2>1 DEF UpOK
  <2>2. CASE \E j \in 1 .. Len(Q) : R[i] = Q[j]
    BY <1>1, <1>3, <2>0, <2>2 DEF UpOK
  <2> QED
    BY <1>2, <2>1, <2>2
<1>5. \A k : Undrawn(Q, Cur, k) => Undrawn(R, Cur, k)
  BY <1>2 DEF Undrawn, DrawsStroke
<1>6. \A e, k : Erase(e, k).type = "erase" /\ Draw(e, k).type = "draw"
  BY DEF Erase, Draw
<1>7. \A e, k : Holding(R, Erase(e, k)) => Holding(Q, Erase(e, k))
  BY <1>2, <1>6 DEF Holding
<1>8. \A e, k : Holding(R, Draw(e, k)) => Holding(Q, Draw(e, k))
  BY <1>2, <1>6 DEF Holding
<1>9. ASSUME NEW k, Again(R, Cur, k)  PROVE Again(Q, Cur, k)
  <2>1. PICK i \in 1 .. Len(R) : R[i] = Erase(Cur, k) /\ \E j \in i .. Len(R) : DrawsStroke(R[j], Cur, k)
    BY <1>9 DEF Again
  <2>2. PICK j \in i .. Len(R) : DrawsStroke(R[j], Cur, k)
    BY <2>1
  <2>3. i # j
    BY <2>1, <2>2, NoDrawing
  <2>4. j \in 1 .. Len(R) /\ i < j
    BY <2>2, <2>3
  <2>5. R[i].type # "watch" /\ R[j].type # "watch"
    BY <1>6, <2>1, <2>2 DEF DrawsStroke
  <2>6. PICK h, l \in 1 .. Len(Q) : h < l /\ R[i] = Q[h] /\ R[j] = Q[l]
    BY <1>2, <2>4, <2>5
  <2>7. l \in h .. Len(Q)
    BY <2>6
  <2> QED
    BY <2>1, <2>2, <2>6, <2>7 DEF Again
<1>10. ASSUME NumbersUp(v), picture'[v].next = picture[v].next  PROVE NumbersUp(v)'
  <2> DEFINE n == picture[v].next
  <2>1. /\ \A i \in 1 .. Len(Q) : DrawsNow(Q, i) =>
             /\ Q[i].segment[2] <= n /\ Q[i].segment[3] <= n
             /\ IdOf(Q[i].segment) \notin Owned.received
        /\ \A i, j \in 1 .. Len(Q) : i < j /\ DrawsNow(Q, i) /\ DrawsNow(Q, j) =>
             Q[i].segment[3] # Q[j].segment[3]
        /\ \A k \in Marks : Holding(Q, Erase(Cur, k)) => k[2] <= n
        /\ \A k \in Marks : Again(Q, Cur, k) => Known(k)
    BY <1>10 DEF NumbersUp, Q
  <2> HIDE DEF n
  <2>2. ASSUME NEW i \in 1 .. Len(R), DrawsNow(R, i)
        PROVE  /\ R[i].segment[2] <= n /\ R[i].segment[3] <= n
               /\ IdOf(R[i].segment) \notin Owned.received
    BY <1>2, <2>1, <2>2 DEF DrawsNow
  <2>3. ASSUME NEW i \in 1 .. Len(R), NEW j \in 1 .. Len(R), i < j, DrawsNow(R, i), DrawsNow(R, j)
        PROVE  R[i].segment[3] # R[j].segment[3]
    <3>1. R[i].type = "draw" /\ R[i].epoch = Cur /\ R[j].type = "draw" /\ R[j].epoch = Cur
      BY <2>3 DEF DrawsNow
    <3>2. PICK h, l \in 1 .. Len(Q) : h < l /\ R[i] = Q[h] /\ R[j] = Q[l]
      BY <1>2, <2>3, <3>1
    <3>3. DrawsNow(Q, h) /\ DrawsNow(Q, l)
      BY <3>1, <3>2 DEF DrawsNow
    <3> QED
      BY <2>1, <3>2, <3>3
  <2>5. \A k \in Marks : Holding(R, Erase(Cur, k)) => k[2] <= n
    BY <1>7, <2>1
  <2>6. \A k \in Marks : Again(R, Cur, k) => Known(k)
    BY <1>9, <2>1
  <2>7. R = toSharer[v]' /\ n = picture[v].next'
    BY <1>10 DEF R, n
  <2>8. \A i \in 1 .. Len(R) : DrawsNow(toSharer[v], i)' <=> DrawsNow(R, i)
    BY <1>1, <2>7 DEF DrawsNow
  <2> QED
    BY <1>1, <2>2, <2>3, <2>5, <2>6, <2>7, <2>8 DEF NumbersUp
<1> QED
  BY <1>4, <1>5, <1>7, <1>8, <1>9, <1>10 DEF Q, R

\* What the types say of each device.
LEMMA SharerScene ==
  ASSUME DrawTyped
  PROVE  /\ Owned \in Scenes /\ Cur \in Nat /\ Owned.ink \subseteq Inks
         /\ Owned.received \subseteq Marks /\ Owned.removed \subseteq Marks
         /\ IsFiniteSet(Owned.ink) /\ Sharer \in Devices
         /\ \A v \in Viewers : /\ v \in Devices /\ v # Sharer /\ picture[v] \in Scenes
                               /\ toSharer[v] \in Seq(Ups) /\ toViewer[v] \in Seq(Downs)
                               /\ session.attempts[v] \in Nat
BY DrawingAssumption DEF DrawTyped, Owned, Cur, Devices, Scenes, Links

\* A segment of the sharer may be told.
LEMMA TellsOwned ==
  ASSUME DrawTyped, SharerOK, NEW s \in Owned.ink
  PROVE  DownOK(Draw(Cur, s))
<1>1. s \in Inks
  BY SharerScene
<1>2. Known(StrokeOf(s))
  BY InStrokes DEF Known
<1>3. IdOf(s) \in Owned.received
  BY DEF SharerOK, PictureOK
<1>4. Draw(Cur, s).type = "draw" /\ Draw(Cur, s).epoch = Cur /\ Draw(Cur, s).segment = s
  BY DEF Draw
<1>5. Cur <= Cur
  BY SharerScene
<1> QED
  BY <1>2, <1>3, <1>4, <1>5 DEF DownOK, SharerOK

\* What is underway to a viewer is as good as it was.
LEMMA DownKept ==
  ASSUME DrawTyped, SharerOK, NEW v \in Viewers, SharerRests, Down(v), PacketsOK(v)
  PROVE  /\ \A i \in 1 .. Len(toViewer'[v]) : DownOK(toViewer[v][i])'
         /\ \A e, k : Holding(toViewer'[v], Erase(e, k)) => Holding(toViewer[v], Erase(e, k))
<1> DEFINE Q == toViewer[v]   R == toViewer'[v]
<1>1. /\ Cur' = Cur /\ Owned' = Owned /\ \A k : Known(k)' <=> Known(k)
  BY SharerRestsKeeps
<1>2. Q \in Seq(Downs)
  BY DEF DrawTyped
<1>3. /\ Owned \in Scenes /\ IsFiniteSet(Owned.ink)
  BY SharerScene
<1>4. \/ R = Q
      \/ Q # <<>> /\ R = Tail(Q)
      \/ R = <<>>
      \/ \E banned \in BOOLEAN : R = Q \o Snapshot(Owned, banned)
  BY DEF Down
<1>5. \A i \in 1 .. Len(Q) : DownOK(Q[i])
  BY DEF PacketsOK
<1>6. ASSUME NEW banned \in BOOLEAN
      PROVE  DownOK(State(Owned, banned)) /\ State(Owned, banned).type = "state"
  <2>1. State(Owned, banned).epoch = Cur /\ State(Owned, banned).type = "state"
    BY DEF State, Cur
  <2>2. Cur <= Cur
    BY SharerScene
  <2> QED
    BY <2>1, <2>2 DEF DownOK
<1> HIDE DEF Q, R
<1>7. \A i \in 1 .. Len(R) : \/ \E j \in 1 .. Len(Q) : R[i] = Q[j]
                             \/ DownOK(R[i]) /\ R[i].type # "erase"
  <2>1. CASE R = Q
    BY <2>1
  <2>2. CASE Q # <<>> /\ R = Tail(Q)
    BY <1>2, <2>2, TakenFrom
  <2>3. CASE R = <<>>
    BY <2>3
  <2>4. ASSUME NEW banned \in BOOLEAN, R = Q \o Snapshot(Owned, banned)
        PROVE  \A i \in 1 .. Len(R) : \/ \E j \in 1 .. Len(Q) : R[i] = Q[j]
                                      \/ DownOK(R[i]) /\ R[i].type # "erase"
    <3>1. \A i \in 1 .. Len(R) : \/ \E j \in 1 .. Len(Q) : R[i] = Q[j]
                                 \/ R[i] = State(Owned, banned)
                                 \/ \E s \in Owned.ink : R[i] = Draw(Owned.epoch, s)
      BY <1>2, <1>3, <2>4, SnapshotSent
    <3>2. \A s \in Owned.ink : DownOK(Draw(Owned.epoch, s)) /\ Draw(Owned.epoch, s).type = "draw"
      BY TellsOwned DEF Draw, Cur
    <3>3. DownOK(State(Owned, banned)) /\ State(Owned, banned).type = "state"
      BY <1>6
    <3> HIDE <2>4
    <3> QED
      BY <3>1, <3>2, <3>3
  <2> QED
    BY <1>4, <2>1, <2>2, <2>3, <2>4
<1>8. ASSUME NEW i \in 1 .. Len(R)  PROVE DownOK(toViewer[v][i])'
  <2>1. DownOK(R[i])
    BY <1>5, <1>7
  <2>2. toViewer[v]' = R
    BY DEF R
  <2> QED
    BY <1>1, <2>1, <2>2 DEF DownOK
<1>9. \A e, k : Holding(R, Erase(e, k)) => Holding(Q, Erase(e, k))
  BY <1>7 DEF Holding, Erase
<1> QED
  BY <1>8, <1>9 DEF Q, R

\* Such a step keeps all but what is said of the link itself.
LEMMA LinkStep ==
  ASSUME DrawIInv, DrawTyped', NEW v \in Viewers, SharerRests,
         \A w \in Viewers \ {v} : Unmoved(w), Rests(v), Up(v), Down(v), AsksAgain(v)',
         DeadKept => LinkOK(v)'
  PROVE  DrawIInv'
<1>1. /\ Owned' = Owned /\ Cur' = Cur /\ \A k : Known(k)' <=> Known(k)
      /\ \A k : Tracked(k)' => Tracked(k)
  BY SharerRestsKeeps
<1>2. /\ PictureOK(picture[v]) /\ picture[v].epoch <= Cur /\ PacketsOK(v)
      /\ v \notin restarted => Numbered(v)
      /\ ErasuresOK(v) /\ SharerOK /\ DrawTyped
  BY DEF DrawIInv, ViewerOK
<1>3. /\ \A i \in 1 .. Len(toSharer'[v]) : UpOK(v, toSharer[v][i])'
      /\ \A k : Undrawn(toSharer[v], Cur, k) => Undrawn(toSharer'[v], Cur, k)
      /\ \A e, k : Holding(toSharer'[v], Erase(e, k)) => Holding(toSharer[v], Erase(e, k))
      /\ NumbersUp(v) /\ picture'[v].next = picture[v].next => NumbersUp(v)'
  BY <1>2, UpKept
<1>4. /\ \A i \in 1 .. Len(toViewer'[v]) : DownOK(toViewer[v][i])'
      /\ \A e, k : Holding(toViewer'[v], Erase(e, k)) => Holding(toViewer[v], Erase(e, k))
  BY <1>2, DownKept
<1>5. Cur \in Nat /\ 1 <= Cur
  BY <1>2, SharerScene DEF SharerOK
<1>6. \/ picture'[v] = picture[v]
      \/ /\ picture'[v].epoch = 0 /\ picture'[v].ink = {}
         /\ v \notin restarted' => picture'[v].next = picture[v].next
  BY DEF Rests
<1>7. PictureOK(picture'[v]) /\ picture'[v].epoch <= Cur
  BY <1>2, <1>5, <1>6 DEF PictureOK
<1>8. PacketsOK(v)'
  BY <1>3, <1>4 DEF PacketsOK
<1>9. ASSUME v \notin restarted'  PROVE Numbered(v)'
  <2>1. NumbersHere(v) /\ NumbersUp(v) /\ NumbersThere(v)
    BY <1>2, <1>9 DEF SharerRests, Numbered
  <2>2. picture'[v].next = picture[v].next
    BY <1>6, <1>9
  <2>3. NumbersUp(v)'
    BY <1>3, <2>1, <2>2
  <2>4. NumbersThere(v)'
    BY <1>1, <2>1, <2>2 DEF NumbersThere
  <2>5. NumbersHere(v)'
    <3>1. CASE picture'[v] = picture[v]
      BY <1>1, <1>3, <2>1, <3>1 DEF NumbersHere
    <3>2. CASE picture'[v].epoch = 0
      BY <1>1, <1>5, <3>2 DEF NumbersHere
    <3> QED
      BY <1>6, <3>1, <3>2
  <2> QED
    BY <2>3, <2>4, <2>5 DEF Numbered
<1>10. ASSUME NEW k \in Marks, k[1] = v, Tracked(k)', Gone(v, k)  PROVE Dead(k)'
  <2>1. v \notin restarted'
    BY <1>10 DEF Tracked
  <2>2. picture'[v].next = picture[v].next
    BY <1>6, <2>1
  <2>3. picture'[v].epoch = Cur => k \notin Strokes(picture'[v])
    BY <1>5, <1>6, <1>10 DEF Gone
  <2>4. Undrawn(toSharer'[v], Cur, k)
    BY <1>3, <1>10 DEF Gone
  <2>5. Gone(v, k)'
    BY <1>1, <1>10, <2>2, <2>3, <2>4 DEF Gone
  <2> QED
    BY <1>10, <2>5 DEF Dead
<1>11. ASSUME DeadKept  PROVE ViewerOK(v)'
  <2>1. ErasuresOK(v)'
    BY <1>1, <1>2, <1>4, <1>11 DEF ErasuresOK, DeadKept
  <2>2. LinkOK(v)'
    BY <1>11
  <2> QED
    BY <1>1, <1>7, <1>8, <1>9, <2>1, <2>2 DEF ViewerOK
<1> QED
  BY <1>10, <1>11, OneViewer

-----------------------------------------------------------------------------
(* Watching.                                                                 *)

\* A picture that begins again.
LEMMA BeginsAgain ==
  ASSUME DrawTyped, NEW v \in Viewers, picture' = [picture EXCEPT ![v] = SetState(@, FALSE, 0)]
  PROVE  /\ picture' \in [Devices -> Scenes] /\ Rests(v) /\ IsFiniteSet(picture'[Sharer].ink)
         /\ \A d \in Devices \ {v} : picture'[d] = picture[d]
<1>1. picture \in [Devices -> Scenes] /\ v \in Devices /\ v # Sharer /\ Sharer \in Devices
  BY SharerScene DEF DrawTyped
<1> DEFINE q == SetState(picture[v], FALSE, 0)
<1>2. /\ q \in Scenes /\ q.epoch = 0 /\ q.next = picture[v].next /\ q.ink = {}
      /\ q.received = {} /\ q.removed = {}
  BY <1>1 DEF SetState, Blank, Scenes
<1>3. picture' = [picture EXCEPT ![v] = q]
  OBVIOUS
<1> HIDE DEF q
<1>4. picture' \in [Devices -> Scenes] /\ picture'[v] = q
      /\ \A d \in Devices \ {v} : picture'[d] = picture[d]
  BY <1>1, <1>2, <1>3
<1>5. Rests(v)
  BY <1>2, <1>4 DEF Rests
<1> QED
  BY <1>1, <1>4, <1>5 DEF DrawTyped

\* What is sent to the sharer.
LEMMA SentUp ==
  ASSUME DrawTyped, NEW v \in Viewers, NEW m \in Ups, Send(v, m)
  PROVE  /\ toSharer' \in [Viewers -> Seq(Ups)] /\ toSharer'[v] = Append(toSharer[v], m)
         /\ \A w \in Viewers \ {v} : toSharer'[w] = toSharer[w]
         /\ \A x : Holding(toSharer'[v], x) <=> Holding(toSharer[v], x) \/ m = x
<1>1. toSharer \in [Viewers -> Seq(Ups)] /\ toSharer[v] \in Seq(Ups)
  BY DEF DrawTyped
<1>2. toSharer' = [toSharer EXCEPT ![v] = Append(toSharer[v], m)]
  BY DEF Send
<1>3. Append(toSharer[v], m) \in Seq(Ups)
  BY <1>1
<1>4. toSharer' \in [Viewers -> Seq(Ups)] /\ toSharer'[v] = Append(toSharer[v], m)
      /\ \A w \in Viewers \ {v} : toSharer'[w] = toSharer[w]
  BY <1>1, <1>2, <1>3
<1>5. \A x : Holding(toSharer'[v], x) <=> Holding(toSharer[v], x) \/ m = x
  BY <1>1, <1>4, HoldingSent
<1> QED
  BY <1>4, <1>5

\* The viewer asks for the drawing.
LEMMA StartWatchingKeeps ==
  ASSUME DrawIInv, NEW v \in Viewers, StartWatching(v)
  PROVE  DrawIInv'
<1>1. DrawTyped /\ v \in Devices /\ v # Sharer /\ Sharer \in Devices
  BY SharerScene DEF DrawIInv
<1>2. /\ session' = [session EXCEPT !.watching = @ \cup {v}, !.attempts[v] = 0]
      /\ picture' = [picture EXCEPT ![v] = SetState(@, FALSE, 0)]
      /\ Send(v, Watch(TRUE))
      /\ UNCHANGED <<toViewer, missed, restarted, mishaps>>
  BY DEF StartWatching
<1>3. /\ picture' \in [Devices -> Scenes] /\ Rests(v) /\ IsFiniteSet(picture'[Sharer].ink)
      /\ \A d \in Devices \ {v} : picture'[d] = picture[d]
  BY <1>1, <1>2, BeginsAgain
<1>4. Watch(TRUE) \in Ups
  BY WatchPacket
<1>5. /\ toSharer' \in [Viewers -> Seq(Ups)] /\ toSharer'[v] = Append(toSharer[v], Watch(TRUE))
      /\ \A w \in Viewers \ {v} : toSharer'[w] = toSharer[w]
      /\ Holding(toSharer'[v], Watch(TRUE))
  BY <1>1, <1>2, <1>4, SentUp
<1>6. /\ session' \in Links /\ session'.viewers = session.viewers /\ session'.banned = session.banned
      /\ session'.watching = session.watching \cup {v}
      /\ \A w \in Viewers \ {v} : session'.attempts[w] = session.attempts[w]
  BY <1>1, <1>2 DEF DrawTyped, Links
<1>7. DrawTyped'
  BY <1>1, <1>2, <1>3, <1>5, <1>6 DEF DrawTyped
<1>8. SharerRests
  BY <1>1, <1>2, <1>3 DEF SharerRests
<1>9. \A w \in Viewers \ {v} : Unmoved(w)
  BY <1>2, <1>3, <1>5, <1>6, SharerScene DEF Unmoved, Devices
<1>10. Up(v) /\ Down(v)
  BY <1>2, <1>5 DEF Up, Down
<1>11. Asked(v)'
  BY <1>5 DEF Asked
<1>12. AsksAgain(v)' /\ LinkOK(v)'
  BY <1>11 DEF AsksAgain, LinkOK, InSync
<1> QED
  BY <1>3, <1>7, <1>8, <1>9, <1>10, <1>12, LinkStep

\* The viewer leaves the drawing.
LEMMA StopWatchingKeeps ==
  ASSUME DrawIInv, NEW v \in Viewers, StopWatching(v)
  PROVE  DrawIInv'
<1>1. DrawTyped /\ v \in Devices /\ v # Sharer /\ Sharer \in Devices
  BY SharerScene DEF DrawIInv
<1>2. /\ session' = [session EXCEPT !.watching = @ \ {v}, !.attempts[v] = MaxAttempts]
      /\ picture' = [picture EXCEPT ![v] = SetState(@, FALSE, 0)]
      /\ Send(v, Watch(FALSE)) /\ mishaps' = mishaps + 1
      /\ UNCHANGED <<toViewer, missed, restarted>>
  BY DEF StopWatching
<1>3. /\ picture' \in [Devices -> Scenes] /\ Rests(v) /\ IsFiniteSet(picture'[Sharer].ink)
      /\ \A d \in Devices \ {v} : picture'[d] = picture[d]
  BY <1>1, <1>2, BeginsAgain
<1>4. Watch(FALSE) \in Ups
  BY WatchPacket
<1>5. /\ toSharer' \in [Viewers -> Seq(Ups)] /\ toSharer'[v] = Append(toSharer[v], Watch(FALSE))
      /\ \A w \in Viewers \ {v} : toSharer'[w] = toSharer[w]
  BY <1>1, <1>2, <1>4, SentUp
<1>6. /\ session' \in Links /\ session'.viewers = session.viewers /\ session'.banned = session.banned
      /\ session'.watching = session.watching \ {v}
      /\ \A w \in Viewers \ {v} : session'.attempts[w] = session.attempts[w]
  BY <1>1, <1>2, DrawingAssumption DEF DrawTyped, Links
<1>7. DrawTyped'
  <2>1. mishaps' \in Nat
    BY <1>1, <1>2 DEF DrawTyped
  <2> QED
    BY <1>1, <1>2, <1>3, <1>5, <1>6, <2>1 DEF DrawTyped
<1>8. SharerRests
  BY <1>1, <1>2, <1>3 DEF SharerRests
<1>9. \A w \in Viewers \ {v} : Unmoved(w)
  BY <1>2, <1>3, <1>5, <1>6, SharerScene DEF Unmoved, Devices
<1>10. Up(v) /\ Down(v)
  BY <1>2, <1>5 DEF Up, Down
<1>11. AsksAgain(v)' /\ LinkOK(v)'
  BY <1>6 DEF AsksAgain, LinkOK, InSync
<1> QED
  BY <1>3, <1>7, <1>8, <1>9, <1>10, <1>11, LinkStep

\* The timer asks again, or gives the drawing up: then it has not been sent
\* to the viewer, or its State is underway.
LEMMA RetryTimerKeeps ==
  ASSUME DrawIInv, NEW v \in Viewers, RetryTimer(v)
  PROVE  DrawIInv'
<1>1. DrawTyped /\ v \in Devices /\ v # Sharer /\ Sharer \in Devices
  BY SharerScene DEF DrawIInv
<1>2. /\ v \in session.watching /\ session.attempts[v] < MaxAttempts
      /\ session' = [session EXCEPT !.attempts[v] = @ + 1]
      /\ \/ Send(v, Watch(TRUE)) /\ UNCHANGED picture
         \/ /\ picture' = [picture EXCEPT ![v] = SetState(@, FALSE, 0)]
            /\ UNCHANGED toSharer /\ ~ (session'.attempts[v] < MaxAttempts)
      /\ UNCHANGED <<toViewer, missed, restarted, mishaps>>
  BY DEF RetryTimer
<1>3. /\ session' \in Links /\ session'.viewers = session.viewers /\ session'.banned = session.banned
      /\ session'.watching = session.watching
      /\ \A w \in Viewers \ {v} : session'.attempts[w] = session.attempts[w]
  <2>1. session' = [session EXCEPT !.attempts[v] = @ + 1]
    BY <1>2
  <2>2. session \in Links /\ session.attempts[v] + 1 \in Nat
    BY <1>1, SharerScene DEF DrawTyped
  <2> QED
    BY <2>1, <2>2 DEF Links
<1>4. Down(v)
  BY <1>2 DEF Down
<1>5. CASE Send(v, Watch(TRUE)) /\ UNCHANGED picture
  <2>1. Watch(TRUE) \in Ups
    BY WatchPacket
  <2>2. /\ toSharer' \in [Viewers -> Seq(Ups)] /\ toSharer'[v] = Append(toSharer[v], Watch(TRUE))
        /\ \A w \in Viewers \ {v} : toSharer'[w] = toSharer[w]
        /\ Holding(toSharer'[v], Watch(TRUE))
    BY <1>1, <1>5, <2>1, SentUp
  <2>3. DrawTyped'
    BY <1>1, <1>2, <1>3, <1>5, <2>2 DEF DrawTyped
  <2>4. SharerRests /\ Rests(v)
    BY <1>2, <1>5 DEF SharerRests, Rests
  <2>5. \A w \in Viewers \ {v} : Unmoved(w)
    BY <1>2, <1>3, <1>5, <2>2 DEF Unmoved
  <2>6. Up(v)
    BY <2>2 DEF Up
  <2>7. AsksAgain(v)' /\ LinkOK(v)'
    BY <2>2 DEF AsksAgain, LinkOK, InSync, Asked
  <2> QED
    BY <1>4, <2>3, <2>4, <2>5, <2>6, <2>7, LinkStep
<1>6. CASE /\ picture' = [picture EXCEPT ![v] = SetState(@, FALSE, 0)]
           /\ UNCHANGED toSharer /\ ~ (session'.attempts[v] < MaxAttempts)
  <2>1. /\ picture' \in [Devices -> Scenes] /\ Rests(v) /\ IsFiniteSet(picture'[Sharer].ink)
        /\ \A d \in Devices \ {v} : picture'[d] = picture[d]
    BY <1>1, <1>6, BeginsAgain
  <2>2. DrawTyped'
    BY <1>1, <1>2, <1>3, <1>6, <2>1 DEF DrawTyped
  <2>3. SharerRests
    BY <1>1, <1>2, <2>1 DEF SharerRests
  <2>4. \A w \in Viewers \ {v} : Unmoved(w)
    BY <1>2, <1>3, <1>6, <2>1, SharerScene DEF Unmoved, Devices
  <2>5. Up(v) /\ AsksAgain(v)'
    BY <1>6 DEF Up, AsksAgain
  <2>6. LinkOK(v)'
    <3> SUFFICES ASSUME InSync(v)'
                 PROVE  /\ ToldState(v)' /\ ToldInk(v)' /\ TellsInk(v)'
                        /\ (Quiet(toViewer[v])' => ShownInk(v)')
      BY DEF LinkOK
    <3>1. InSync(v)
      BY <1>2, <1>3, <1>6 DEF InSync, Asked
    <3>2. ~ Quiet(toViewer[v])
      BY <1>2, <3>1 DEF DrawIInv, ViewerOK, AsksAgain, InSync
    <3>3. ToldState(v) /\ ToldInk(v) /\ TellsInk(v)
      BY <3>1, <3>2 DEF DrawIInv, ViewerOK, LinkOK
    <3>4. Owned' = Owned /\ Cur' = Cur /\ \A k : Tracked(k)' => Tracked(k)
      BY <2>3, SharerRestsKeeps
    <3>5. toViewer'[v] = toViewer[v] /\ toSharer'[v] = toSharer[v]
          /\ session'.banned = session.banned
      BY <1>2, <1>3, <1>6
    <3>6. ToldState(v)'
      BY <3>2, <3>3, <3>4, <3>5 DEF ToldState
    <3>7. ToldInk(v)'
      BY <3>2, <3>3, <3>4, <3>5 DEF ToldInk, Ahead
    <3>8. TellsInk(v)'
      BY <3>3, <3>4, <3>5 DEF TellsInk
    <3> QED
      BY <3>2, <3>5, <3>6, <3>7, <3>8
  <2> QED
    BY <1>4, <2>1, <2>2, <2>3, <2>4, <2>5, <2>6, LinkStep
<1> QED
  BY <1>2, <1>5, <1>6

-----------------------------------------------------------------------------
(* Snapshots, faults, and packets that are ignored.                          *)

\* A snapshot says all that the viewer must know.
LEMMA FreshLink ==
  ASSUME DrawTyped, SharerOK, NEW v \in Viewers, SharerRests, NEW b \in BOOLEAN,
         b = (v \in session'.banned), toViewer'[v] = toViewer[v] \o Snapshot(Owned, b)
  PROVE  ~ Quiet(toViewer'[v]) /\ LinkOK(v)'
<1> DEFINE R == toViewer[v] \o Snapshot(Owned, b)
<1>1. Owned' = Owned /\ Cur' = Cur
  BY SharerRestsKeeps
<1>2. toViewer[v] \in Seq(Downs) /\ Owned \in Scenes /\ IsFiniteSet(Owned.ink)
  BY SharerScene
<1>3. /\ ~ Quiet(R) /\ LastState(R, State(Owned, b))
      /\ \A s : Drawn(R, Owned.epoch, s) <=> s \in Owned.ink
  BY <1>2, SnapshotSent
<1>4. toViewer'[v] = R
  OBVIOUS
<1> HIDE DEF R
<1>5. ToldState(v)'
  BY <1>1, <1>3, <1>4 DEF ToldState
<1>6. ToldInk(v)' /\ TellsInk(v)'
  BY <1>1, <1>3, <1>4 DEF ToldInk, TellsInk, Cur
<1> QED
  BY <1>3, <1>4, <1>5, <1>6 DEF LinkOK

\* A participant is banned, or no more: its drawing is sent again.
LEMMA BanKeeps ==
  ASSUME DrawIInv, NEW v \in Viewers, Ban(v)
  PROVE  DrawIInv'
<1> DEFINE ban == v \notin session.banned
<1>1. DrawTyped /\ SharerOK
  BY DEF DrawIInv
<1>2. /\ session' = [session EXCEPT !.banned = IF ban THEN @ \cup {v} ELSE @ \ {v}]
      /\ mishaps' = mishaps + 1
      /\ UNCHANGED <<picture, toSharer, restarted>>
      /\ v \in session.viewers =>
           /\ toViewer' = [toViewer EXCEPT ![v] = @ \o Snapshot(picture[Sharer], ban)]
           /\ missed' = missed \ {v}
      /\ v \notin session.viewers => UNCHANGED <<toViewer, missed>>
  BY DEF Ban
<1>3. ban \in BOOLEAN
  OBVIOUS
<1>4. /\ session' \in Links /\ session'.viewers = session.viewers
      /\ session'.watching = session.watching /\ session'.attempts = session.attempts
      /\ session'.banned = IF ban THEN session.banned \cup {v} ELSE session.banned \ {v}
  BY <1>1, <1>2 DEF DrawTyped, Links
<1>5. ban = (v \in session'.banned)
  BY <1>4
<1> HIDE DEF ban
<1>6. /\ \A w \in Viewers \ {v} : w \in session'.banned <=> w \in session.banned
  BY <1>4
<1>7. SharerRests /\ Rests(v) /\ Up(v)
  BY <1>2 DEF SharerRests, Rests, Up
<1>8. mishaps' \in Nat
  BY <1>1, <1>2 DEF DrawTyped
<1>9. CASE v \in session.viewers
  <2> DEFINE R == toViewer[v] \o Snapshot(Owned, ban)
  <2>1. toViewer[v] \in Seq(Downs) /\ Owned \in Scenes /\ IsFiniteSet(Owned.ink)
    BY <1>1, SharerScene
  <2>2. R \in Seq(Downs)
    BY <1>3, <2>1, SnapshotSent
  <2>3. toViewer' = [toViewer EXCEPT ![v] = R] /\ missed' = missed \ {v}
    BY <1>2, <1>9 DEF Owned
  <2> HIDE DEF R
  <2>4. /\ toViewer' \in [Viewers -> Seq(Downs)] /\ toViewer'[v] = R
        /\ \A w \in Viewers \ {v} : toViewer'[w] = toViewer[w]
    BY <1>1, <2>2, <2>3 DEF DrawTyped
  <2>5. DrawTyped'
    BY <1>1, <1>2, <1>4, <1>8, <2>3, <2>4 DEF DrawTyped
  <2>6. \A w \in Viewers \ {v} : Unmoved(w)
    BY <1>2, <1>4, <1>6, <2>3, <2>4 DEF Unmoved
  <2>7. Down(v)
    BY <1>3, <2>4 DEF Down, R
  <2>8. ~ Quiet(toViewer'[v]) /\ LinkOK(v)'
    BY <1>1, <1>3, <1>5, <1>7, <2>4, FreshLink DEF R
  <2>9. AsksAgain(v)'
    BY <2>8 DEF AsksAgain
  <2> QED
    BY <1>7, <2>5, <2>6, <2>7, <2>8, <2>9, LinkStep
<1>10. CASE v \notin session.viewers
  <2>1. UNCHANGED <<toViewer, missed>>
    BY <1>2, <1>10
  <2>2. DrawTyped'
    BY <1>1, <1>2, <1>4, <1>8, <2>1 DEF DrawTyped
  <2>3. \A w \in Viewers \ {v} : Unmoved(w)
    BY <1>2, <1>4, <1>6, <2>1 DEF Unmoved
  <2>4. Down(v)
    BY <2>1 DEF Down
  <2>5. AsksAgain(v)' /\ LinkOK(v)'
    BY <1>4, <1>10 DEF AsksAgain, LinkOK, InSync
  <2> QED
    BY <1>7, <2>2, <2>3, <2>4, <2>5, LinkStep
<1> QED
  BY <1>9, <1>10

\* A packet is lost: nothing is claimed of the link until a snapshot is sent.
LEMMA LosePacketKeeps ==
  ASSUME DrawIInv, NEW v \in Viewers, LosePacket(v)
  PROVE  DrawIInv'
<1>1. DrawTyped /\ toSharer[v] \in Seq(Ups) /\ toViewer[v] \in Seq(Downs)
  BY SharerScene DEF DrawIInv
<1>2. /\ mishaps' = mishaps + 1 /\ missed' = missed \cup {v}
      /\ UNCHANGED <<picture, session, restarted>>
      /\ \/ /\ toSharer[v] # <<>> /\ toSharer' = [toSharer EXCEPT ![v] = Tail(@)]
            /\ UNCHANGED toViewer
         \/ /\ toViewer[v] # <<>> /\ toViewer' = [toViewer EXCEPT ![v] = Tail(@)]
            /\ UNCHANGED toSharer
  BY DEF LosePacket
<1>3. mishaps' \in Nat /\ missed' \subseteq Viewers
  BY <1>1, <1>2 DEF DrawTyped
<1>4. SharerRests /\ Rests(v)
  BY <1>2 DEF SharerRests, Rests
<1>5. /\ toSharer' \in [Viewers -> Seq(Ups)] /\ toViewer' \in [Viewers -> Seq(Downs)]
      /\ Up(v) /\ Down(v)
      /\ \A w \in Viewers \ {v} : toSharer'[w] = toSharer[w] /\ toViewer'[w] = toViewer[w]
  <2>1. CASE /\ toSharer[v] # <<>> /\ toSharer' = [toSharer EXCEPT ![v] = Tail(@)]
             /\ UNCHANGED toViewer
    <3>1. Tail(toSharer[v]) \in Seq(Ups)
      BY <1>1, <2>1
    <3>2. toSharer' \in [Viewers -> Seq(Ups)] /\ toSharer'[v] = Tail(toSharer[v])
          /\ \A w \in Viewers \ {v} : toSharer'[w] = toSharer[w]
      BY <1>1, <2>1, <3>1 DEF DrawTyped
    <3> QED
      BY <1>1, <2>1, <3>2 DEF Up, Down, DrawTyped
  <2>2. CASE /\ toViewer[v] # <<>> /\ toViewer' = [toViewer EXCEPT ![v] = Tail(@)]
             /\ UNCHANGED toSharer
    <3>1. Tail(toViewer[v]) \in Seq(Downs)
      BY <1>1, <2>2
    <3>2. toViewer' \in [Viewers -> Seq(Downs)] /\ toViewer'[v] = Tail(toViewer[v])
          /\ \A w \in Viewers \ {v} : toViewer'[w] = toViewer[w]
      BY <1>1, <2>2, <3>1 DEF DrawTyped
    <3> QED
      BY <1>1, <2>2, <3>2 DEF Up, Down, DrawTyped
  <2> QED
    BY <1>2, <2>1, <2>2
<1>6. DrawTyped'
  BY <1>1, <1>2, <1>3, <1>5 DEF DrawTyped
<1>7. \A w \in Viewers \ {v} : Unmoved(w)
  BY <1>2, <1>5 DEF Unmoved
<1>8. AsksAgain(v)' /\ LinkOK(v)'
  BY <1>2 DEF AsksAgain, LinkOK, InSync
<1> QED
  BY <1>4, <1>5, <1>6, <1>7, <1>8, LinkStep

\* A link is lost and found: the viewer numbers again, and asks again.
LEMMA ReconnectKeeps ==
  ASSUME DrawIInv, NEW v \in Viewers, Reconnect(v)
  PROVE  DrawIInv'
<1> DEFINE q == Blank(FALSE, 0, FALSE, 0)
<1>1. DrawTyped /\ v \in Devices /\ v # Sharer /\ Sharer \in Devices
  BY SharerScene DEF DrawIInv
<1>2. /\ mishaps' = mishaps + 1
      /\ session' = [session EXCEPT !.viewers = @ \ {v}, !.attempts[v] = 0]
      /\ picture' = [picture EXCEPT ![v] = q]
      /\ toViewer' = [toViewer EXCEPT ![v] = <<>>]
      /\ toSharer' = [toSharer EXCEPT ![v] = <<Watch(TRUE)>>]
      /\ restarted' = IF picture[v].next > 0 THEN restarted \cup {v} ELSE restarted
      /\ UNCHANGED missed
  BY DEF Reconnect
<1>3. /\ q \in Scenes /\ q.epoch = 0 /\ q.ink = {} /\ q.received = {} /\ q.removed = {}
      /\ q.next = 0
  BY DrawingAssumption DEF Blank, Scenes
<1> HIDE DEF q
<1>4. /\ picture' \in [Devices -> Scenes] /\ picture'[v] = q
      /\ \A d \in Devices \ {v} : picture'[d] = picture[d]
  BY <1>1, <1>2, <1>3 DEF DrawTyped
<1>5. /\ session' \in Links /\ session'.viewers = session.viewers \ {v}
      /\ session'.banned = session.banned /\ session'.watching = session.watching
      /\ \A w \in Viewers \ {v} : session'.attempts[w] = session.attempts[w]
  BY <1>1, <1>2 DEF DrawTyped, Links
<1>6. <<Watch(TRUE)>> \in Seq(Ups) /\ <<>> \in Seq(Downs)
  <2>1. Watch(TRUE) \in Ups
    BY WatchPacket
  <2>2. \A m \in Ups : <<m>> \in Seq(Ups)
    OBVIOUS
  <2>3. <<Watch(TRUE)>> \in Seq(Ups)
    BY <2>1, <2>2, Zenon
  <2>4. <<>> \in Seq(Downs)
    OBVIOUS
  <2> QED
    BY <2>3, <2>4, Zenon
<1>7. /\ toSharer' \in [Viewers -> Seq(Ups)] /\ toSharer'[v] = <<Watch(TRUE)>>
      /\ \A w \in Viewers \ {v} : toSharer'[w] = toSharer[w]
  BY <1>1, <1>2, <1>6 DEF DrawTyped
<1>8. /\ toViewer' \in [Viewers -> Seq(Downs)] /\ toViewer'[v] = <<>>
      /\ \A w \in Viewers \ {v} : toViewer'[w] = toViewer[w]
  BY <1>1, <1>2, <1>6 DEF DrawTyped
<1>9. restarted \subseteq restarted' /\ restarted' \subseteq Viewers
  BY <1>1, <1>2 DEF DrawTyped
<1>10. mishaps' \in Nat /\ missed' \subseteq Viewers /\ IsFiniteSet(picture'[Sharer].ink)
  BY <1>1, <1>2, <1>4 DEF DrawTyped
<1>11. DrawTyped'
  BY <1>4, <1>5, <1>7, <1>8, <1>9, <1>10 DEF DrawTyped
<1>12. SharerRests
  BY <1>1, <1>4, <1>9 DEF SharerRests
<1>13. \A w \in Viewers \ {v} : Unmoved(w)
  BY <1>2, <1>4, <1>5, <1>7, <1>8, SharerScene DEF Unmoved, Devices
<1>14. Up(v)
  BY <1>7 DEF Up
<1>15. Down(v)
  BY <1>8 DEF Down
<1>16. Rests(v)
  <2>1. picture[v].next \in Nat
    BY <1>1, SharerScene, DrawingAssumption DEF Scenes
  <2>2. v \notin restarted' => picture[v].next = 0
    BY <1>2, <2>1
  <2> QED
    BY <1>3, <1>4, <2>2 DEF Rests
<1>17. AsksAgain(v)' /\ LinkOK(v)'
  BY <1>5 DEF AsksAgain, LinkOK, InSync
<1> QED
  BY <1>11, <1>12, <1>13, <1>14, <1>15, <1>16, <1>17, LinkStep

-----------------------------------------------------------------------------
(* What the sharer receives.                                                 *)

\* The first packet is taken from the sequence.
LEMMA UpTaken ==
  ASSUME DrawTyped, NEW v \in Viewers, toSharer[v] # <<>>,
         toSharer' = [toSharer EXCEPT ![v] = Tail(@)]
  PROVE  /\ toSharer' \in [Viewers -> Seq(Ups)] /\ toSharer'[v] = Tail(toSharer[v])
         /\ \A w \in Viewers \ {v} : toSharer'[w] = toSharer[w]
         /\ Head(toSharer[v]) \in Ups /\ Up(v)
         /\ \A x : Holding(toSharer[v], x) <=> Holding(toSharer'[v], x) \/ Head(toSharer[v]) = x
<1>1. toSharer \in [Viewers -> Seq(Ups)] /\ toSharer[v] \in Seq(Ups)
  BY DEF DrawTyped
<1>2. Tail(toSharer[v]) \in Seq(Ups) /\ Head(toSharer[v]) \in Ups
  BY <1>1
<1>3. /\ toSharer' \in [Viewers -> Seq(Ups)] /\ toSharer'[v] = Tail(toSharer[v])
      /\ \A w \in Viewers \ {v} : toSharer'[w] = toSharer[w]
  BY <1>1, <1>2
<1>4. \A x : Holding(toSharer[v], x) <=> Holding(toSharer'[v], x) \/ Head(toSharer[v]) = x
  BY <1>1, <1>3, HoldingTaken
<1>5. Up(v)
  BY <1>3 DEF Up
<1> QED
  BY <1>2, <1>3, <1>4, <1>5

\* A viewer asks for the drawing, or leaves it.
LEMMA WatchReceived ==
  ASSUME DrawIInv, NEW v \in Viewers, toSharer[v] # <<>>,
         toSharer' = [toSharer EXCEPT ![v] = Tail(@)], NEW on \in BOOLEAN,
         session' = [session EXCEPT !.viewers = IF on THEN @ \cup {v} ELSE @ \ {v}],
         on => /\ toViewer' = [toViewer EXCEPT ![v] = @ \o Snapshot(picture[Sharer], v \in session.banned)]
               /\ missed' = missed \ {v},
         ~ on => UNCHANGED <<toViewer, missed>>,
         UNCHANGED <<picture, restarted, mishaps>>
  PROVE  DrawIInv'
<1>1. DrawTyped /\ SharerOK
  BY DEF DrawIInv
<1>2. /\ toSharer' \in [Viewers -> Seq(Ups)] /\ Up(v)
      /\ \A w \in Viewers \ {v} : toSharer'[w] = toSharer[w]
  BY <1>1, UpTaken
<1>3. /\ session' \in Links /\ session'.banned = session.banned
      /\ session'.watching = session.watching /\ session'.attempts = session.attempts
      /\ session'.viewers = IF on THEN session.viewers \cup {v} ELSE session.viewers \ {v}
  BY <1>1 DEF DrawTyped, Links
<1>4. SharerRests /\ Rests(v)
  BY DEF SharerRests, Rests
<1>5. CASE on
  <2> DEFINE b == v \in session.banned
             R == toViewer[v] \o Snapshot(Owned, b)
  <2>1. toViewer[v] \in Seq(Downs) /\ Owned \in Scenes /\ IsFiniteSet(Owned.ink)
    BY <1>1, SharerScene
  <2>2. b \in BOOLEAN /\ b = (v \in session'.banned)
    BY <1>3
  <2>3. toViewer' = [toViewer EXCEPT ![v] = R] /\ missed' = missed \ {v}
    BY <1>5 DEF Owned
  <2> HIDE DEF b
  <2>4. R \in Seq(Downs)
    BY <2>1, <2>2, SnapshotSent
  <2> HIDE DEF R
  <2>5. /\ toViewer' \in [Viewers -> Seq(Downs)] /\ toViewer'[v] = R
        /\ \A w \in Viewers \ {v} : toViewer'[w] = toViewer[w]
    BY <1>1, <2>3, <2>4 DEF DrawTyped
  <2>6. DrawTyped'
    BY <1>1, <1>2, <1>3, <2>3, <2>5 DEF DrawTyped
  <2>7. \A w \in Viewers \ {v} : Unmoved(w)
    BY <1>2, <1>3, <2>3, <2>5 DEF Unmoved
  <2>8. Down(v)
    BY <2>2, <2>5 DEF Down, R
  <2>9. ~ Quiet(toViewer'[v]) /\ LinkOK(v)'
    BY <1>1, <1>4, <2>2, <2>5, FreshLink DEF R
  <2>10. AsksAgain(v)'
    BY <2>9 DEF AsksAgain
  <2> QED
    BY <1>2, <1>4, <2>6, <2>7, <2>8, <2>9, <2>10, LinkStep
<1>6. CASE ~ on
  <2>1. UNCHANGED <<toViewer, missed>>
    BY <1>6
  <2>2. DrawTyped'
    BY <1>1, <1>2, <1>3, <2>1 DEF DrawTyped
  <2>3. \A w \in Viewers \ {v} : Unmoved(w)
    BY <1>2, <1>3, <1>6, <2>1 DEF Unmoved
  <2>4. Down(v)
    BY <2>1 DEF Down
  <2>5. AsksAgain(v)' /\ LinkOK(v)'
    BY <1>3, <1>6 DEF AsksAgain, LinkOK, InSync
  <2> QED
    BY <1>2, <1>4, <2>2, <2>3, <2>4, <2>5, LinkStep
<1> QED
  BY <1>5, <1>6

\* Why the sharer ignores a packet.
Refused(v, m) ==
    \/ v \notin session.viewers \/ v \in session.banned \/ ~ Owned.enabled \/ m.epoch # Cur
    \/ m.type = "draw" /\ (StrokeOf(m.segment) \in Owned.removed \/ IdOf(m.segment) \in Owned.received)

\* A packet that is refused: the viewer's own ink does not wait for it.
LEMMA RefusedKeeps ==
  ASSUME DrawIInv, NEW v \in Viewers, toSharer[v] # <<>>,
         toSharer' = [toSharer EXCEPT ![v] = Tail(@)],
         Head(toSharer[v]).type \in {"draw", "erase"}, Refused(v, Head(toSharer[v])),
         UNCHANGED <<picture, session, toViewer, missed, restarted, mishaps>>
  PROVE  DrawIInv'
<1> DEFINE m == Head(toSharer[v])   R == toSharer[v]   Q == toViewer[v]   p == picture[v]
<1>1. DrawTyped /\ SharerOK /\ ViewerOK(v)
  BY DEF DrawIInv
<1>2. /\ toSharer' \in [Viewers -> Seq(Ups)] /\ Up(v) /\ m \in Ups
      /\ \A w \in Viewers \ {v} : toSharer'[w] = toSharer[w]
      /\ toSharer'[v] = Tail(R)
      /\ \A x : Holding(R, x) <=> Holding(toSharer'[v], x) \/ m = x
  BY <1>1, UpTaken
<1>3. SharerRests /\ Rests(v) /\ Down(v)
  BY DEF SharerRests, Rests, Down
<1>4. DrawTyped'
  BY <1>1, <1>2 DEF DrawTyped
<1>5. \A w \in Viewers \ {v} : Unmoved(w)
  BY <1>2 DEF Unmoved
<1>6. Asked(v)' <=> Asked(v)
  BY <1>2 DEF Asked, Watch
<1>7. AsksAgain(v)'
  BY <1>1, <1>6 DEF ViewerOK, AsksAgain
<1>8. ASSUME DeadKept  PROVE LinkOK(v)'
  <2> SUFFICES ASSUME InSync(v)'
               PROVE  /\ ToldState(v)'
                      /\ \/ Quiet(toViewer[v])' /\ Full(picture[v])'
                         \/ ToldInk(v)' /\ TellsInk(v)' /\ (Quiet(toViewer[v])' => ShownInk(v)')
    BY DEF LinkOK
  <2>1. InSync(v)
    BY <1>6 DEF InSync
  <2>2. /\ ToldState(v)
        /\ \/ Quiet(Q) /\ Full(p)
           \/ ToldInk(v) /\ TellsInk(v) /\ (Quiet(Q) => ShownInk(v))
    BY <1>1, <2>1 DEF ViewerOK, LinkOK
  <2>3. ToldState(v)'
    BY <2>2 DEF ToldState, Owned, Cur
  <2>4. CASE Quiet(Q) /\ Full(p)
    BY <2>3, <2>4
  <2>5. CASE ToldInk(v) /\ TellsInk(v) /\ (Quiet(Q) => ShownInk(v))
    <3>1. /\ Owned' = Owned /\ Cur' = Cur
          /\ \A k : Ahead(v, k)' <=> Ahead(v, k)
          /\ \A k : Tracked(k)' <=> Tracked(k)
      BY DEF Owned, Cur, Ahead, Tracked
    <3>2. v \notin restarted => NumbersUp(v)
      BY <1>1 DEF ViewerOK, Numbered
    <3>3. PictureOK(p) /\ PictureOK(Owned)
      BY <1>1 DEF ViewerOK, SharerOK
    <3>4. \A k : Ahead(v, k) => k[1] = v /\ (~ Owned.enabled \/ m.epoch # Cur \/
              (m.type = "draw" /\ (StrokeOf(m.segment) \in Owned.removed \/ IdOf(m.segment) \in Owned.received)))
      BY <2>1 DEF InSync, Ahead, Refused
    <3>5. ToldInk(v)'
      <4> SUFFICES ASSUME NEW s \in Owned.ink, Tracked(s), Ahead(v, s), m = Erase(Cur, StrokeOf(s))
                   PROVE  FALSE
        BY <1>2, <2>5, <3>1 DEF ToldInk
      <4>1. m.epoch = Cur /\ m.type = "erase"
        BY DEF Erase
      <4>2. ~ Owned.enabled
        BY <3>4, <4>1
      <4> QED
        BY <3>3, <4>2 DEF PictureOK
    <3>6. TellsInk(v)'
      BY <2>5, <3>1 DEF TellsInk
    <3>7. ASSUME Quiet(Q)  PROVE ShownInk(v)'
      <4>1. ShowsInk(v) /\ RemovesInk(v) /\ RepeatsInk(v) /\ ReceivesInk(v)
        BY <2>5, <3>7 DEF ShownInk
      <4>2. ShowsInk(v)'
        <5> SUFFICES ASSUME NEW s \in p.ink, Tracked(s), Ahead(v, s), m = Draw(Cur, s),
                            StrokeOf(s) \notin Owned.removed
                     PROVE  FALSE
          BY <1>2, <3>1, <4>1 DEF ShowsInk
        <5>1. m.epoch = Cur /\ m.type = "draw" /\ m.segment = s
          BY DEF Draw
        <5>2. p.enabled = Owned.enabled
          BY <2>2, <3>7 DEF ToldState
        <5>3. Owned.enabled
          BY <3>3, <5>2 DEF PictureOK
        <5>4. IdOf(s) \in Owned.received
          BY <3>4, <5>1, <5>3
        <5>5. NumbersUp(v)
          BY <3>2, <3>4 DEF Tracked
        <5>6. 1 \in 1 .. Len(R) /\ R[1] = m
          BY <1>1, SharerScene
        <5>7. DrawsNow(R, 1)
          BY <5>1, <5>6 DEF DrawsNow
        <5>8. IdOf(R[1].segment) \notin Owned.received
          BY <5>5, <5>6, <5>7 DEF NumbersUp
        <5> QED
          BY <5>1, <5>4, <5>6, <5>8
      <4>3. RemovesInk(v)'
        <5> SUFFICES ASSUME NEW k \in p.removed, Tracked(k), Ahead(v, k), ErasedLast(R, Cur, k)
                     PROVE  Dead(k)' \/ ErasedLast(toSharer[v], Cur, k)'
          <6>1. p.removed \subseteq Marks
            BY <1>1, SharerScene DEF Scenes
          <6> QED
            BY <1>8, <3>1, <4>1, <6>1 DEF RemovesInk, DeadKept
        <5>1. R \in Seq(Ups)
          BY <1>1, SharerScene
        <5>2. ErasedLast(Tail(R), Cur, k) \/ (m = Erase(Cur, k) /\ Undrawn(Tail(R), Cur, k))
          BY <5>1, LastErasure
        <5>3. CASE ErasedLast(Tail(R), Cur, k)
          BY <1>2, <3>1, <5>3
        <5>4. CASE m = Erase(Cur, k) /\ Undrawn(Tail(R), Cur, k)
          <6>1. m.epoch = Cur /\ m.type = "erase"
            BY <5>4 DEF Erase
          <6>2. ~ Owned.enabled /\ k[1] = v
            BY <3>4, <6>1
          <6>3. k \notin Strokes(Owned)
            BY <3>3, <6>2, InStrokes DEF PictureOK
          <6>4. k \notin Strokes(p)
            BY <3>3, InStrokes DEF PictureOK
          <6>5. k \in Marks
            BY <1>1, SharerScene DEF Scenes
          <6>6. k[2] <= p.next
            BY <1>2, <3>2, <5>4, <6>2, <6>5 DEF NumbersUp, Tracked
          <6>7. Gone(v, k)'
            BY <1>2, <3>1, <5>4, <6>3, <6>4, <6>6 DEF Gone
          <6> QED
            BY <6>2, <6>7 DEF Dead
        <5> QED
          BY <5>2, <5>3, <5>4
      <4>4. RepeatsInk(v)'
        BY <1>2, <3>1, <4>1 DEF RepeatsInk, Offered
      <4>5. ReceivesInk(v)'
        BY <3>1, <4>1 DEF ReceivesInk
      <4> QED
        BY <4>2, <4>3, <4>4, <4>5 DEF ShownInk
    <3> QED
      BY <2>3, <3>5, <3>6, <3>7
  <2> QED
    BY <2>2, <2>4, <2>5
<1> QED
  BY <1>2, <1>3, <1>4, <1>5, <1>7, <1>8, LinkStep

-----------------------------------------------------------------------------
(* The sharer's drawing changes, for all who watch.                          *)

\* The sharer takes a packet, or acts by itself.
Takes == \/ toSharer' = toSharer
         \/ \E u \in Viewers : toSharer[u] # <<>> /\ toSharer' = [toSharer EXCEPT ![u] = Tail(@)]

\* Nothing is added to what is underway to the sharer.
LEMMA TakesFrom ==
  ASSUME DrawTyped, Takes
  PROVE  /\ toSharer' \in [Viewers -> Seq(Ups)]
         /\ \A v \in Viewers : Up(v) /\
              \A i \in 1 .. Len(toSharer'[v]) :
                \E j \in 1 .. Len(toSharer[v]) : toSharer'[v][i] = toSharer[v][j]
<1>1. toSharer \in [Viewers -> Seq(Ups)]
  BY DEF DrawTyped
<1>2. CASE toSharer' = toSharer
  BY <1>1, <1>2 DEF Up
<1>3. ASSUME NEW u \in Viewers, toSharer[u] # <<>>, toSharer' = [toSharer EXCEPT ![u] = Tail(@)]
      PROVE  /\ toSharer' \in [Viewers -> Seq(Ups)]
             /\ \A v \in Viewers : Up(v) /\
                  \A i \in 1 .. Len(toSharer'[v]) :
                    \E j \in 1 .. Len(toSharer[v]) : toSharer'[v][i] = toSharer[v][j]
  <2>1. /\ toSharer' \in [Viewers -> Seq(Ups)] /\ toSharer'[u] = Tail(toSharer[u]) /\ Up(u)
        /\ \A w \in Viewers \ {u} : toSharer'[w] = toSharer[w]
    BY <1>3, UpTaken
  <2>2. \A w \in Viewers \ {u} : Up(w)
    BY <2>1 DEF Up
  <2>3. \A i \in 1 .. Len(Tail(toSharer[u])) :
          \E j \in 1 .. Len(toSharer[u]) : j = i + 1 /\ Tail(toSharer[u])[i] = toSharer[u][j]
    BY <1>1, <1>3, TakenFrom
  <2>4. ASSUME NEW v \in Viewers
        PROVE  Up(v) /\ \A i \in 1 .. Len(toSharer'[v]) :
                 \E j \in 1 .. Len(toSharer[v]) : toSharer'[v][i] = toSharer[v][j]
    <3>1. CASE v = u
      <4> DEFINE S == toSharer'[v]   T == Tail(toSharer[v])
      <4>1. S = T
        BY <2>1, <3>1
      <4>2. \A i \in 1 .. Len(T) : \E j \in 1 .. Len(toSharer[v]) : T[i] = toSharer[v][j]
        BY <2>3, <3>1
      <4> HIDE DEF S, T
      <4>3. \A i \in 1 .. Len(S) : \E j \in 1 .. Len(toSharer[v]) : S[i] = toSharer[v][j]
        BY <4>1, <4>2
      <4>4. Up(v)
        BY <2>1, <3>1
      <4> QED
        BY <4>3, <4>4 DEF S
    <3>2. CASE v # u
      BY <2>1, <2>2, <3>2
    <3> QED
      BY <3>1, <3>2
  <2> QED
    BY <2>1, <2>4
<1> QED
  BY <1>2, <1>3 DEF Takes

\* A new drawing: what was said of the old one is not heard.
LEMMA ResetKeeps ==
  ASSUME DrawIInv, NEW enabled \in BOOLEAN, Reset(enabled), Takes, UNCHANGED <<session, mishaps>>
  PROVE  DrawIInv'
<1> DEFINE p == SetState(picture[Sharer], enabled, picture[Sharer].epoch + 1)
<1>1. DrawTyped /\ SharerOK /\ \A v \in Viewers : ViewerOK(v)
  BY DEF DrawIInv
<1>2. /\ p.epoch <= MaxEpochs
      /\ picture' = [picture EXCEPT ![Sharer] = p]
      /\ toViewer' = [v \in Viewers |-> IF v \in session.viewers
              THEN Append(toViewer[v], State(p, v \in session.banned)) ELSE toViewer[v]]
      /\ missed' = missed \ session.viewers
      /\ restarted' = {}
  BY DEF Reset
<1>3. /\ Owned \in Scenes /\ Cur \in Nat /\ Sharer \in Devices
      /\ \A v \in Viewers : /\ v \in Devices /\ v # Sharer /\ toViewer[v] \in Seq(Downs)
  BY <1>1, SharerScene
<1>4. /\ p \in Scenes /\ p.enabled = enabled /\ p.epoch = Cur + 1 /\ p.ink = {}
      /\ p.received = {} /\ p.removed = {} /\ PictureOK(p)
  <2>1. picture[Sharer] \in Scenes /\ picture[Sharer].epoch + 1 \in Nat
    BY <1>3 DEF Owned, Cur
  <2>2. /\ p \in Scenes /\ p.enabled = enabled /\ p.epoch = picture[Sharer].epoch + 1 /\ p.ink = {}
        /\ p.received = {} /\ p.removed = {} /\ PictureOK(p)
    BY <2>1, StateSet
  <2> QED
    BY <2>2 DEF Owned, Cur
<1> HIDE DEF p
<1>5. /\ picture' \in [Devices -> Scenes] /\ picture'[Sharer] = p
      /\ \A v \in Viewers : picture'[v] = picture[v]
  BY <1>1, <1>2, <1>3, <1>4 DEF DrawTyped
<1>6. Owned' = p /\ Cur' = Cur + 1
  BY <1>4, <1>5 DEF Owned, Cur
<1>7. ASSUME NEW v \in Viewers
      PROVE  State(p, v \in session.banned) \in StatePackets
  BY <1>4 DEF State, StatePackets, Scenes
<1>8. StatePackets \subseteq Downs
  BY DEF Downs
<1>9. ASSUME NEW v \in Viewers
      PROVE  /\ v \in session.viewers =>
                   toViewer'[v] = Append(toViewer[v], State(p, v \in session.banned))
             /\ v \notin session.viewers => toViewer'[v] = toViewer[v]
             /\ toViewer'[v] \in Seq(Downs)
  BY <1>2, <1>3, <1>7, <1>8
<1>10. toViewer' \in [Viewers -> Seq(Downs)]
  BY <1>2, <1>9
<1>11. /\ toSharer' \in [Viewers -> Seq(Ups)]
       /\ \A v \in Viewers : \A i \in 1 .. Len(toSharer'[v]) :
            \E j \in 1 .. Len(toSharer[v]) : toSharer'[v][i] = toSharer[v][j]
  BY <1>1, TakesFrom
<1>12. IsFiniteSet(picture'[Sharer].ink) /\ missed' \subseteq Viewers
  BY <1>1, <1>2, <1>4, <1>5, FS_EmptySet DEF DrawTyped
<1>13. DrawTyped'
  BY <1>1, <1>2, <1>5, <1>10, <1>11, <1>12 DEF DrawTyped
<1>14. SharerOK'
  BY <1>1, <1>2, <1>3, <1>4, <1>6 DEF SharerOK
<1>15. ASSUME NEW v \in Viewers  PROVE ViewerOK(v)'
  <2> DEFINE R == toSharer'[v]   Q == toViewer'[v]
  <2>1. PictureOK(picture[v]) /\ picture[v].epoch <= Cur /\ PacketsOK(v) /\ picture[v].epoch \in Nat
    BY <1>1, SharerScene DEF ViewerOK, Scenes
  <2>2. \A i \in 1 .. Len(R) : UpOK(v, R[i]) /\ R[i] \in Ups
    BY <1>11, <2>1 DEF PacketsOK
  <2>3. \A i \in 1 .. Len(R) : R[i].type # "watch" => R[i].epoch \in Nat /\ R[i].epoch < Cur'
    BY <1>3, <1>6, <2>2 DEF UpOK, Ups, WatchPackets, DrawPackets, ErasePackets
  <2>4. ASSUME NEW i \in 1 .. Len(Q)
        PROVE  \/ Q[i].epoch \in Nat /\ Q[i].epoch < Cur'
               \/ Q[i].type = "state" /\ Q[i].epoch = Cur'
    <3>0. \A j \in 1 .. Len(toViewer[v]) : toViewer[v][j].epoch \in Nat /\ toViewer[v][j].epoch <= Cur
      BY <1>3, <2>1 DEF PacketsOK, DownOK, Downs, StatePackets, DrawPackets, ErasePackets
    <3>1. CASE v \in session.viewers
      <4> DEFINE m == State(p, v \in session.banned)
      <4>1. m \in Downs /\ m.type = "state" /\ m.epoch = Cur'
        BY <1>4, <1>6, <1>7, <1>8 DEF State
      <4> HIDE DEF m
      <4>2. /\ Len(Q) = Len(toViewer[v]) + 1 /\ Q[Len(toViewer[v]) + 1] = m
            /\ Len(toViewer[v]) \in Nat
            /\ \A j \in 1 .. Len(toViewer[v]) : Q[j] = toViewer[v][j]
        BY <1>3, <1>9, <3>1, <4>1, PacketSent DEF m
      <4> QED
        BY <1>3, <1>6, <3>0, <4>1, <4>2
    <3>2. CASE v \notin session.viewers
      BY <1>3, <1>6, <1>9, <3>0, <3>2
    <3> QED
      BY <3>1, <3>2
  <2>5. \A k : ~ Holding(R, Erase(Cur', k)) /\ ~ Holding(Q, Erase(Cur', k))
    <3>1. \A k : Erase(Cur', k).type = "erase" /\ Erase(Cur', k).epoch = Cur'
      BY DEF Erase
    <3>2. ASSUME NEW i \in 1 .. Len(R), R[i].type = "erase"  PROVE R[i].epoch # Cur'
      BY <1>3, <1>6, <2>3, <3>2
    <3>3. ASSUME NEW i \in 1 .. Len(Q), Q[i].type = "erase"  PROVE Q[i].epoch # Cur'
      BY <1>3, <1>6, <2>4, <3>3
    <3> HIDE DEF R, Q
    <3> QED
      BY <3>1, <3>2, <3>3 DEF Holding
  <2>6. PacketsOK(v)'
    <3>1. ASSUME NEW i \in 1 .. Len(Q)  PROVE DownOK(toViewer[v][i])'
      <4>1. Q[i].epoch <= Cur' /\ ~ (Q[i].type = "draw" /\ Q[i].epoch = Cur')
        BY <1>3, <1>6, <2>4
      <4> QED
        BY <4>1 DEF DownOK
    <3>2. ASSUME NEW i \in 1 .. Len(R)  PROVE UpOK(v, toSharer[v][i])'
      BY <1>3, <1>6, <2>2, <2>3 DEF UpOK
    <3> QED
      BY <3>1, <3>2 DEF PacketsOK
  <2>7. v \in session.viewers =>
          ~ Quiet(Q) /\ LastState(Q, State(p, v \in session.banned)) /\ \A e, s : ~ Drawn(Q, e, s)
    <3> DEFINE m == State(p, v \in session.banned)
    <3>1. m \in StatePackets
      BY <1>7
    <3> HIDE DEF m
    <3>2. /\ ~ Quiet(Append(toViewer[v], m)) /\ LastState(Append(toViewer[v], m), m)
          /\ \A e, s : ~ Drawn(Append(toViewer[v], m), e, s)
      BY <1>3, <3>1, StateSent
    <3> QED
      BY <1>9, <3>2 DEF m
  <2>8. AsksAgain(v)'
    BY <2>7 DEF AsksAgain
  <2>9. Numbered(v)'
    <3>1. NumbersHere(v)'
      BY <1>3, <1>5, <1>6, <2>1 DEF NumbersHere
    <3>2. NumbersThere(v)'
      BY <1>4, <1>6 DEF NumbersThere
    <3>3. \A i \in 1 .. Len(R) : ~ DrawsNow(toSharer[v], i)'
      BY <1>3, <1>6, <2>3 DEF DrawsNow
    <3>4. \A k : ~ Again(R, Cur', k)
      BY <2>5 DEF Again, Holding
    <3>5. NumbersUp(v)'
      BY <2>5, <3>3, <3>4 DEF NumbersUp
    <3> QED
      BY <3>1, <3>2, <3>5 DEF Numbered
  <2>10. ErasuresOK(v)'
    BY <2>5 DEF ErasuresOK
  <2>11. LinkOK(v)'
    <3> SUFFICES ASSUME InSync(v)'
                 PROVE  ToldState(v)' /\ ToldInk(v)' /\ TellsInk(v)' /\ ~ Quiet(Q)
      BY DEF LinkOK
    <3>1. v \in session.viewers
      BY DEF InSync
    <3>2. ToldState(v)'
      BY <1>6, <2>7, <3>1 DEF ToldState
    <3>3. ToldInk(v)' /\ TellsInk(v)'
      BY <1>4, <1>6, <2>7, <3>1 DEF ToldInk, TellsInk
    <3> QED
      BY <2>7, <3>1, <3>2, <3>3
  <2>12. PictureOK(picture[v])' /\ (picture[v].epoch <= Cur)'
    BY <1>3, <1>5, <1>6, <2>1
  <2> QED
    BY <2>6, <2>8, <2>9, <2>10, <2>11, <2>12 DEF ViewerOK
<1> QED
  BY <1>13, <1>14, <1>15 DEF DrawIInv

\* What the sharer tells comes from a viewer's packet or from itself.
Source(a, m) ==
    \/ a = Sharer /\ toSharer' = toSharer
    \/ /\ a \in Viewers /\ toSharer[a] # <<>> /\ Head(toSharer[a]) = m
       /\ toSharer' = [toSharer EXCEPT ![a] = Tail(@)]

\* What the source of a packet leaves underway.
LEMMA SourceTaken ==
  ASSUME DrawTyped, NEW a, NEW m, Source(a, m)
  PROVE  /\ toSharer' \in [Viewers -> Seq(Ups)]
         /\ \A v \in Viewers :
              /\ v # a => toSharer'[v] = toSharer[v]
              /\ v = a => toSharer[v] # <<>> /\ Head(toSharer[v]) = m /\ toSharer'[v] = Tail(toSharer[v])
              /\ \A x : Holding(toSharer'[v], x) => Holding(toSharer[v], x)
              /\ \A x : Holding(toSharer[v], x) /\ x # m => Holding(toSharer'[v], x)
              /\ \A i \in 1 .. Len(toSharer'[v]) :
                   \E j \in 1 .. Len(toSharer[v]) : toSharer'[v][i] = toSharer[v][j]
              /\ \A k : Undrawn(toSharer[v], Cur, k) => Undrawn(toSharer'[v], Cur, k)
<1>1. toSharer \in [Viewers -> Seq(Ups)] /\ Sharer \notin Viewers
  BY DrawingAssumption DEF DrawTyped
<1>2. Takes
  BY DEF Source, Takes
<1>3. /\ toSharer' \in [Viewers -> Seq(Ups)]
      /\ \A v \in Viewers : \A i \in 1 .. Len(toSharer'[v]) :
           \E j \in 1 .. Len(toSharer[v]) : toSharer'[v][i] = toSharer[v][j]
  BY <1>2, TakesFrom
<1>4. ASSUME NEW v \in Viewers
      PROVE  /\ v # a => toSharer'[v] = toSharer[v]
             /\ v = a => toSharer[v] # <<>> /\ Head(toSharer[v]) = m /\ toSharer'[v] = Tail(toSharer[v])
  <2>1. CASE a = Sharer /\ toSharer' = toSharer
    BY <1>1, <2>1
  <2>2. CASE /\ a \in Viewers /\ toSharer[a] # <<>> /\ Head(toSharer[a]) = m
             /\ toSharer' = [toSharer EXCEPT ![a] = Tail(@)]
    BY <1>1, <2>2
  <2> QED
    BY <2>1, <2>2 DEF Source
<1>5. ASSUME NEW v \in Viewers
      PROVE  /\ \A x : Holding(toSharer'[v], x) => Holding(toSharer[v], x)
             /\ \A x : Holding(toSharer[v], x) /\ x # m => Holding(toSharer'[v], x)
             /\ \A k : Undrawn(toSharer[v], Cur, k) => Undrawn(toSharer'[v], Cur, k)
  <2>1. CASE v # a
    BY <1>4, <2>1
  <2>2. CASE v = a
    <3>1. /\ toSharer[v] \in Seq(Ups) /\ toSharer[v] # <<>> /\ Head(toSharer[v]) = m
          /\ toSharer'[v] = Tail(toSharer[v])
      BY <1>1, <1>4, <2>2
    <3>2. \A x : Holding(toSharer[v], x) <=> Holding(Tail(toSharer[v]), x) \/ Head(toSharer[v]) = x
      BY <3>1, HoldingTaken
    <3>3. \A k : Undrawn(toSharer[v], Cur, k) => Undrawn(Tail(toSharer[v]), Cur, k)
      BY <3>1, UndrawnPackets
    <3> QED
      BY <3>1, <3>2, <3>3
  <2> QED
    BY <2>1, <2>2
<1> QED
  BY <1>3, <1>4, <1>5

\* What is told to those who watch.
LEMMA BroadcastTells ==
  ASSUME DrawTyped, NEW m \in Downs, m.type # "state", Broadcast(m)
  PROVE  /\ toViewer' \in [Viewers -> Seq(Downs)]
         /\ \A v \in Viewers :
              /\ v \in session.viewers => toViewer'[v] = Append(toViewer[v], m)
              /\ v \notin session.viewers => toViewer'[v] = toViewer[v]
              /\ Quiet(toViewer'[v]) <=> Quiet(toViewer[v])
              /\ \A x : Holding(toViewer'[v], x) => Holding(toViewer[v], x) \/ m = x
              /\ \A i \in 1 .. Len(toViewer'[v]) : toViewer'[v][i] = m
                   \/ \E j \in 1 .. Len(toViewer[v]) : toViewer'[v][i] = toViewer[v][j]
<1>1. ASSUME NEW v \in Viewers
      PROVE  /\ toViewer'[v] \in Seq(Downs)
             /\ v \in session.viewers => toViewer'[v] = Append(toViewer[v], m)
             /\ v \notin session.viewers => toViewer'[v] = toViewer[v]
             /\ Quiet(toViewer'[v]) <=> Quiet(toViewer[v])
             /\ \A x : Holding(toViewer'[v], x) => Holding(toViewer[v], x) \/ m = x
             /\ \A i \in 1 .. Len(toViewer'[v]) : toViewer'[v][i] = m
                  \/ \E j \in 1 .. Len(toViewer[v]) : toViewer'[v][i] = toViewer[v][j]
  <2> DEFINE Q == toViewer[v]   A == Append(Q, m)
  <2>1. Q \in Seq(Downs)
    BY DEF DrawTyped
  <2>2. /\ v \in session.viewers => toViewer'[v] = A
        /\ v \notin session.viewers => toViewer'[v] = Q
    BY DEF Broadcast
  <2>3. Quiet(A) <=> Quiet(Q)
    BY <2>1, LateSent
  <2>4. \A x : Holding(A, x) => Holding(Q, x) \/ m = x
    BY <2>1, HoldingSent
  <2>5. A \in Seq(Downs) /\ \A i \in 1 .. Len(A) : A[i] = m \/ \E j \in 1 .. Len(Q) : A[i] = Q[j]
    <3>1. /\ A \in Seq(Downs) /\ Len(A) = Len(Q) + 1 /\ Len(Q) \in Nat /\ A[Len(Q) + 1] = m
          /\ \A i \in 1 .. Len(Q) : A[i] = Q[i]
      BY <2>1, PacketSent
    <3> HIDE DEF A, Q
    <3> QED
      BY <3>1
  <2> HIDE DEF A
  <2>6. CASE v \in session.viewers
    BY <2>2, <2>3, <2>4, <2>5, <2>6 DEF A
  <2>7. CASE v \notin session.viewers
    BY <2>1, <2>2, <2>7
  <2> QED
    BY <2>6, <2>7
<1>2. toViewer' \in [Viewers -> Seq(Downs)]
  BY <1>1 DEF Broadcast
<1> QED
  BY <1>1, <1>2

\* What the sharer's picture gains with segment s.
Gains(s) ==
    /\ Owned' \in Scenes /\ Owned'.enabled = Owned.enabled /\ Cur' = Cur /\ Owned.enabled
    /\ Owned'.ink = Owned.ink \cup {s} /\ Owned'.received = Owned.received \cup {IdOf(s)}
    /\ Owned'.removed = Owned.removed
    /\ StrokeOf(s) \notin Owned.removed /\ IdOf(s) \notin Owned.received
    /\ \A v \in Viewers : picture'[v] = picture[v]
    /\ picture' \in [Devices -> Scenes]

\* Of a segment that is new and not of a removed stroke: strokes stay gone.
LEMMA GainKeepsDead ==
  ASSUME DrawTyped, NEW s \in Inks, NEW a, NEW m, a = s[1], m = Draw(Cur, s),
         Gains(s), Source(a, m), UNCHANGED restarted
  PROVE  DeadKept /\ \A k : Known(k) => Known(k)'
<1>1. \A k : k \in Strokes(Owned') <=> k \in Strokes(Owned) \/ k = StrokeOf(s)
  BY InStrokes DEF Gains
<1>2. \A k : Known(k) => Known(k)'
  BY <1>1 DEF Known, Gains
<1> SUFFICES ASSUME NEW k \in Marks, Dead(k)  PROVE Dead(k)'
  BY <1>2 DEF DeadKept
<1>3. CASE k \in Owned.removed
  BY <1>3 DEF Dead, Gains
<1>4. CASE k[1] \in Viewers /\ Gone(k[1], k)
  <2> DEFINE v == k[1]   R == toSharer[v]
  <2>1. v \in Viewers /\ Gone(v, k) /\ R \in Seq(Ups)
    BY <1>4 DEF DrawTyped
  <2>2. /\ v = a => R # <<>> /\ Head(R) = m
        /\ Undrawn(R, Cur, k) => Undrawn(toSharer'[v], Cur, k)
    <3>1. v = a => toSharer[v] # <<>> /\ Head(toSharer[v]) = m
      BY <2>1, SourceTaken
    <3>2. Undrawn(toSharer[v], Cur, k) => Undrawn(toSharer'[v], Cur, k)
      BY <2>1, SourceTaken
    <3> QED
      BY <3>1, <3>2
  <2> HIDE DEF v, R
  <2>3. k # StrokeOf(s)
    <3> SUFFICES ASSUME k = StrokeOf(s)  PROVE FALSE
      OBVIOUS
    <3>1. v = s[1]
      BY Names DEF v
    <3>2. R # <<>> /\ Head(R) = Draw(Cur, s)
      BY <2>2, <3>1
    <3>3. R[1] = Draw(Cur, s) /\ 1 \in 1 .. Len(R)
      BY <2>1, <3>2
    <3>4. DrawsStroke(R[1], Cur, k)
      BY <3>3 DEF DrawsStroke, Draw
    <3> QED
      BY <2>1, <3>3, <3>4 DEF Gone, Undrawn, R
  <2>4. Gone(v, k)'
    BY <1>1, <2>1, <2>2, <2>3 DEF Gone, Gains, R
  <2> QED
    BY <1>4, <2>4 DEF Dead, v
<1> QED
  BY <1>3, <1>4 DEF Dead

\* The numbers of a viewer, once the sharer has another segment.
LEMMA GainKeepsNumbers ==
  ASSUME DrawTyped, NEW s \in Inks, NEW a, NEW m, a = s[1], m = Draw(Cur, s),
         Gains(s), Source(a, m), UNCHANGED restarted,
         NEW v \in Viewers, PacketsOK(v), Numbered(v)
  PROVE  Numbered(v)'
<1> DEFINE R == toSharer[v]   S == toSharer'[v]   n == picture[v].next
<1>1. /\ R \in Seq(Ups) /\ picture'[v] = picture[v]
      /\ NumbersHere(v) /\ NumbersUp(v) /\ NumbersThere(v)
      /\ \A k : Known(k) => Known(k)'
  BY GainKeepsDead, SharerScene DEF Numbered, Gains
<1>02. /\ v # a => toSharer'[v] = toSharer[v]
       /\ v = a => toSharer[v] # <<>> /\ Head(toSharer[v]) = m /\ toSharer'[v] = Tail(toSharer[v])
  BY SourceTaken
<1>03. \A x : Holding(toSharer'[v], x) => Holding(toSharer[v], x)
  BY SourceTaken
<1>2. /\ v # a => S = R
      /\ v = a => R # <<>> /\ Head(R) = m /\ S = Tail(R)
      /\ \A x : Holding(S, x) => Holding(R, x)
  BY <1>02, <1>03
<1>0. /\ v # s[1] => S = R
      /\ v = s[1] => R # <<>> /\ Head(R) = Draw(Cur, s) /\ S = Tail(R)
  BY <1>2
<1>00. v = s[1] => /\ Len(S) = Len(R) - 1 /\ Len(R) \in Nat \ {0}
                  /\ \A i \in 1 .. Len(S) : S[i] = R[i + 1]
  <2> SUFFICES ASSUME v = s[1]
               PROVE  /\ Len(S) = Len(R) - 1 /\ Len(R) \in Nat \ {0}
                      /\ \A i \in 1 .. Len(S) : S[i] = R[i + 1]
    OBVIOUS
  <2>1. R # <<>> /\ S = Tail(R)
    BY <1>0
  <2> HIDE DEF R, S
  <2>2. /\ Len(Tail(R)) = Len(R) - 1 /\ Len(R) \in Nat \ {0}
        /\ \A i \in 1 .. Len(R) - 1 : Tail(R)[i] = R[i + 1]
    BY <1>1, <2>1, PacketTaken
  <2> QED
    BY <2>1, <2>2
<1>3. NumbersHere(v)'
  BY <1>1, <1>2 DEF NumbersHere, Gains
<1>4. v = s[1] => R # <<>> /\ R[1] = Draw(Cur, s) /\ 1 \in 1 .. Len(R) /\ DrawsNow(R, 1)
  <2> SUFFICES ASSUME v = s[1]  PROVE R # <<>> /\ R[1] = Draw(Cur, s) /\ 1 \in 1 .. Len(R) /\ DrawsNow(R, 1)
    OBVIOUS
  <2>1. R # <<>> /\ Head(R) = Draw(Cur, s)
    BY <1>0
  <2> HIDE DEF R
  <2>2. R[1] = Draw(Cur, s) /\ 1 \in 1 .. Len(R)
    BY <1>1, <2>1
  <2> QED
    BY <2>1, <2>2 DEF DrawsNow, Draw
<1>5. NumbersThere(v)'
  <2>1. v = s[1] => s[2] <= n /\ s[3] <= n
    BY <1>1, <1>4 DEF NumbersUp, Draw
  <2>2. IdOf(s)[1] = s[1] /\ IdOf(s)[2] = s[3]
    BY Names
  <2>3. n = picture[v].next'
    BY <1>1
  <2> HIDE DEF n
  <2> QED
    BY <1>1, <2>1, <2>2, <2>3 DEF NumbersThere, Gains, n
<1>6. ASSUME NEW i \in 1 .. Len(S), DrawsNow(S, i)
      PROVE  /\ S[i].segment[2] <= n /\ S[i].segment[3] <= n
             /\ IdOf(S[i].segment) \notin Owned'.received
  <2>1. CASE v = s[1]
    <3>1. /\ Len(S) = Len(R) - 1 /\ Len(R) \in Nat \ {0} /\ S[i] = R[i + 1]
      BY <1>00, <1>6, <2>1
    <3>2. i + 1 \in 1 .. Len(R) /\ i + 1 > 1
      BY <1>6, <3>1
    <3>3. DrawsNow(R, i + 1) /\ R[i + 1] \in Ups
      BY <1>1, <1>6, <3>1, <3>2 DEF DrawsNow
    <3>4. R[i + 1].segment \in Inks
      BY <3>3 DEF DrawsNow, Ups, WatchPackets, DrawPackets, ErasePackets
    <3>5. /\ R[i + 1].segment[2] <= n /\ R[i + 1].segment[3] <= n
          /\ IdOf(R[i + 1].segment) \notin Owned.received
          /\ R[1].segment[3] # R[i + 1].segment[3]
      BY <1>1, <1>4, <2>1, <3>2, <3>3 DEF NumbersUp
    <3>6. R[1].segment = s
      BY <1>4, <2>1 DEF Draw
    <3>7. IdOf(R[i + 1].segment) # IdOf(s)
      <4>1. IdOf(s)[2] = s[3] /\ IdOf(R[i + 1].segment)[2] = R[i + 1].segment[3]
        BY <3>4, Names
      <4> QED
        BY <3>5, <3>6, <4>1
    <3> QED
      BY <3>1, <3>5, <3>7 DEF Gains
  <2>2. CASE v # s[1]
    <3>1. S = R /\ R[i] \in Ups /\ R[i].type = "draw" /\ DrawsNow(R, i)
      BY <1>0, <1>1, <1>6, <2>2 DEF DrawsNow
    <3>2. R[i].segment \in Inks
      BY <3>1 DEF Ups, WatchPackets, DrawPackets, ErasePackets
    <3>3. R[i].segment[1] = v
      BY <1>6, <3>1 DEF PacketsOK, UpOK
    <3>4. IdOf(R[i].segment) # IdOf(s)
      <4>1. IdOf(s)[1] = s[1] /\ IdOf(R[i].segment)[1] = R[i].segment[1]
        BY <3>2, Names
      <4> QED
        BY <2>2, <3>3, <4>1
    <3>5. /\ R[i].segment[2] <= n /\ R[i].segment[3] <= n
          /\ IdOf(R[i].segment) \notin Owned.received
      BY <1>1, <1>6, <3>1 DEF NumbersUp
    <3> QED
      BY <3>1, <3>4, <3>5 DEF Gains
  <2> QED
    BY <2>1, <2>2
<1>7. ASSUME NEW i \in 1 .. Len(S), NEW j \in 1 .. Len(S), i < j, DrawsNow(S, i), DrawsNow(S, j)
      PROVE  S[i].segment[3] # S[j].segment[3]
  <2>1. CASE v = s[1]
    <3>1. /\ Len(S) = Len(R) - 1 /\ Len(R) \in Nat \ {0} /\ S[i] = R[i + 1] /\ S[j] = R[j + 1]
      BY <1>00, <1>7, <2>1
    <3>2. i + 1 \in 1 .. Len(R) /\ j + 1 \in 1 .. Len(R) /\ i + 1 < j + 1
      BY <1>7, <3>1
    <3>3. DrawsNow(R, i + 1) /\ DrawsNow(R, j + 1)
      BY <1>7, <3>1, <3>2 DEF DrawsNow
    <3> QED
      BY <1>1, <3>1, <3>2, <3>3 DEF NumbersUp
  <2>2. CASE v # s[1]
    BY <1>0, <1>1, <1>7, <2>2 DEF NumbersUp
  <2> QED
    BY <2>1, <2>2
<1>8. \A k : Again(S, Cur, k) => Again(R, Cur, k)
  BY <1>1, <1>2, AgainTaken
<1>9. NumbersUp(v)'
  <2>1. S = toSharer[v]' /\ n = picture[v].next' /\ Cur' = Cur
    BY <1>1 DEF Gains
  <2>2. \A i \in 1 .. Len(S) : DrawsNow(toSharer[v], i)' <=> DrawsNow(S, i)
    BY <2>1 DEF DrawsNow
  <2>3. /\ \A k \in Marks : Holding(R, Erase(Cur, k)) => k[2] <= n
        /\ \A k \in Marks : Again(R, Cur, k) => Known(k)
    BY <1>1 DEF NumbersUp
  <2> HIDE DEF S, n, R
  <2> QED
    BY <1>1, <1>2, <1>6, <1>7, <1>8, <2>1, <2>2, <2>3 DEF NumbersUp
<1> QED
  BY <1>3, <1>5, <1>9 DEF Numbered

\* A packet and what it says.
LEMMA DrawPacket ==
  ASSUME NEW e \in Nat, NEW s \in Inks
  PROVE  /\ Draw(e, s) \in Downs /\ Draw(e, s) \in Ups /\ Draw(e, s).type = "draw"
         /\ Draw(e, s).epoch = e /\ Draw(e, s).segment = s
         /\ \A f, k : Draw(e, s) # Erase(f, k)
         /\ \A on : Draw(e, s) # Watch(on)
         /\ \A f, t : Draw(e, s) = Draw(f, t) => f = e /\ t = s
<1>1. Draw(e, s) = [type |-> "draw", epoch |-> e, segment |-> s]
  BY DEF Draw
<1>2. Draw(e, s) \in DrawPackets
  BY <1>1 DEF DrawPackets
<1>3. Draw(e, s).type = "draw" /\ Draw(e, s).epoch = e /\ Draw(e, s).segment = s
  BY <1>1
<1>4. /\ \A f, k : Erase(f, k).type = "erase"
      /\ \A on : Watch(on).type = "watch"
      /\ \A f, t : Draw(f, t).epoch = f /\ Draw(f, t).segment = t
  BY DEF Erase, Watch, Draw
<1>5. Draw(e, s) \in Downs /\ Draw(e, s) \in Ups
  BY <1>2 DEF Downs, Ups
<1>6. \A f, k : Draw(e, s) # Erase(f, k)
  BY <1>3, <1>4
<1>7. \A on : Draw(e, s) # Watch(on)
  BY <1>3, <1>4
<1>8. \A f, t : Draw(e, s) = Draw(f, t) => f = e /\ t = s
  BY <1>3, <1>4
<1> QED
  BY <1>3, <1>5, <1>6, <1>7, <1>8

\* The sharer has another segment: its picture is right still.
LEMMA GainKeepsSharer ==
  ASSUME DrawTyped, SharerOK, NEW s \in Inks, Gains(s)
  PROVE  SharerOK' /\ IsFiniteSet(picture'[Sharer].ink)
<1>1. Owned' = picture'[Sharer] /\ IsFiniteSet(Owned.ink) /\ Cur' = Cur
  BY SharerScene DEF Owned, Gains
<1>2. IsFiniteSet(Owned'.ink)
  <2>1. IsFiniteSet(Owned.ink \cup {s})
    BY <1>1, FS_AddElement
  <2> QED
    BY <2>1 DEF Gains
<1>3. PictureOK(Owned')
  BY DEF SharerOK, PictureOK, Gains
<1>4. \A t, w \in Owned'.ink : IdOf(t) = IdOf(w) => t = w
  BY DEF SharerOK, PictureOK, Gains
<1> QED
  BY <1>1, <1>2, <1>3, <1>4 DEF SharerOK

\* What is underway belongs to the drawing.
LEMMA GainKeepsPackets ==
  ASSUME DrawTyped, SharerOK, NEW s \in Inks, NEW a, NEW m, a = s[1], m = Draw(Cur, s),
         Gains(s), Source(a, m), Broadcast(m), \A k : Known(k) => Known(k)',
         NEW v \in Viewers, PacketsOK(v)
  PROVE  PacketsOK(v)'
<1>1. Cur' = Cur /\ Cur \in Nat
  BY SharerScene DEF Gains
<1>2. m \in Downs /\ m.type = "draw" /\ m.epoch = Cur /\ m.segment = s
  BY <1>1, DrawPacket
<1>3. \A i \in 1 .. Len(toSharer'[v]) : \E j \in 1 .. Len(toSharer[v]) : toSharer'[v][i] = toSharer[v][j]
  BY SourceTaken
<1>4. \A i \in 1 .. Len(toViewer'[v]) : toViewer'[v][i] = m
         \/ \E j \in 1 .. Len(toViewer[v]) : toViewer'[v][i] = toViewer[v][j]
  BY <1>2, BroadcastTells
<1>5. \A i \in 1 .. Len(toSharer'[v]) : UpOK(v, toSharer[v][i])'
  BY <1>1, <1>3 DEF PacketsOK, UpOK
<1>6. StrokeOf(s) \in Strokes(Owned')
  BY InStrokes DEF Gains
<1>7. ASSUME NEW d, DownOK(d) \/ d = m
      PROVE  /\ d.epoch <= Cur'
             /\ d.type = "draw" /\ d.epoch = Cur' =>
                  /\ Known(StrokeOf(d.segment))' /\ IdOf(d.segment) \in Owned'.received
                  /\ \A t \in Owned'.ink : IdOf(t) = IdOf(d.segment) => t = d.segment
  <2>1. CASE d = m
    <3>1. Known(StrokeOf(s))' /\ IdOf(s) \in Owned'.received
      BY <1>6 DEF Known, Gains
    <3>2. \A t \in Owned'.ink : IdOf(t) = IdOf(s) => t = s
      BY DEF SharerOK, PictureOK, Gains
    <3> QED
      BY <1>1, <1>2, <2>1, <3>1, <3>2
  <2>2. ASSUME DownOK(d), d.type = "draw", d.epoch = Cur
        PROVE  /\ Known(StrokeOf(d.segment))' /\ IdOf(d.segment) \in Owned'.received
               /\ \A t \in Owned'.ink : IdOf(t) = IdOf(d.segment) => t = d.segment
    <3> DEFINE f == d.segment
    <3>1. /\ Known(StrokeOf(f)) /\ IdOf(f) \in Owned.received
          /\ \A t \in Owned.ink : IdOf(t) = IdOf(f) => t = f
      BY <2>2 DEF DownOK
    <3>2. Known(StrokeOf(f))'
      BY <3>1
    <3>3. f # s
      BY <3>1 DEF Gains
    <3> HIDE DEF f
    <3>4. /\ IdOf(f) \in Owned'.received
          /\ \A t \in Owned'.ink : IdOf(t) = IdOf(f) => t = f
      BY <3>1, <3>3 DEF Gains
    <3> QED
      BY <3>2, <3>4 DEF f
  <2>3. DownOK(d) => d.epoch <= Cur
    BY DEF DownOK
  <2> QED
    BY <1>1, <1>7, <2>1, <2>2, <2>3
<1>8. ASSUME NEW i \in 1 .. Len(toViewer'[v])  PROVE DownOK(toViewer[v][i])'
  <2> DEFINE R == toViewer'[v]
  <2>1. DownOK(R[i]) \/ R[i] = m
    BY <1>4 DEF PacketsOK
  <2>2. toViewer[v]' = R
    OBVIOUS
  <2> HIDE DEF R
  <2> QED
    BY <1>7, <2>1, <2>2 DEF DownOK
<1> QED
  BY <1>5, <1>8 DEF PacketsOK

\* The packet that tells segment s.
Tells(m, s) == m = Draw(Cur, s)

\* A viewer in sync is told of the segment.
LEMMA GainKeepsLink ==
  ASSUME DrawTyped, SharerOK, NEW s \in Inks, NEW a, NEW m, a = s[1], Tells(m, s),
         Gains(s), Source(a, m), Broadcast(m), UNCHANGED <<session, missed, restarted, mishaps>>,
         DeadKept, NEW v \in Viewers, LinkOK(v)
  PROVE  LinkOK(v)'
<1> SUFFICES ASSUME InSync(v)'
             PROVE  /\ ToldState(v)'
                    /\ \/ Quiet(toViewer'[v]) /\ Full(picture'[v])
                       \/ ToldInk(v)' /\ TellsInk(v)' /\ (Quiet(toViewer'[v]) => ShownInk(v)')
  BY DEF LinkOK
<1> DEFINE Q == toViewer[v]   R == toSharer[v]   S == toSharer'[v]   A == Append(Q, m)
<1>1. /\ Cur' = Cur /\ Cur \in Nat /\ picture'[v] = picture[v] /\ Owned'.enabled = Owned.enabled
      /\ Owned'.ink = Owned.ink \cup {s} /\ Owned'.received = Owned.received \cup {IdOf(s)}
      /\ Owned'.removed = Owned.removed /\ Owned.ink \subseteq Inks
      /\ IdOf(s) \notin Owned.received
      /\ Q \in Seq(Downs) /\ R \in Seq(Ups)
  BY SharerScene DEF Gains
<1>2. /\ m \in Downs /\ m \in Ups /\ m.type = "draw"
      /\ \A f, k : m # Erase(f, k)
      /\ \A on : m # Watch(on)
      /\ \A f, t : m = Draw(f, t) <=> f = Cur /\ t = s
  BY <1>1, DrawPacket DEF Tells
<1>3. /\ v # a => toSharer'[v] = toSharer[v]
      /\ v = a => toSharer[v] # <<>> /\ Head(toSharer[v]) = m /\ toSharer'[v] = Tail(toSharer[v])
  BY SourceTaken
<1>4. \A x : Holding(toSharer'[v], x) => Holding(toSharer[v], x)
  BY SourceTaken
<1>5. \A x : Holding(toSharer[v], x) /\ x # m => Holding(toSharer'[v], x)
  BY SourceTaken
<1>6. /\ v \in session.watching /\ v \in session.viewers /\ v \notin missed /\ ~ Asked(v)
      /\ \A x : Tracked(x)' <=> Tracked(x)
      /\ \A x : Ahead(v, x)' <=> Ahead(v, x)
      /\ session' = session
  <2>1. Holding(toSharer[v], Watch(TRUE)) => Holding(toSharer'[v], Watch(TRUE))
    BY <1>2, <1>5
  <2> QED
    BY <2>1 DEF InSync, Asked, Tracked, Ahead
<1>7. /\ ToldState(v)
      /\ \/ Quiet(Q) /\ Full(picture[v])
         \/ ToldInk(v) /\ TellsInk(v) /\ (Quiet(Q) => ShownInk(v))
  BY <1>6 DEF LinkOK, InSync
<1>8. toViewer'[v] = A
  BY <1>2, <1>6, BroadcastTells
<1>9. Quiet(A) <=> Quiet(Q)
  BY <1>1, <1>2, LateSent
<1>10. \A e, t, k : /\ Drawn(A, e, t) <=> Drawn(Q, e, t) \/ m = Draw(e, t)
                    /\ Wiped(A, e, k) <=> Wiped(Q, e, k) \/ m = Erase(e, k)
  BY <1>1, <1>2, DrawSent
<1>11. \A e, k : Wiped(Q, e, k) => Wiped(A, e, k)
  BY <1>1, <1>2, DrawSent
<1>12. \A e, t : m # Draw(e, t) /\ Swept(Q, e, t) => Swept(A, e, t)
  BY <1>1, <1>2, SweptSent
<1>13. ToldState(v)'
  <2>1. \A b : State(Owned', b) = State(Owned, b)
    BY <1>1 DEF State, Cur
  <2>2. LastState(A, State(Owned, v \in session.banned))
    BY <1>1, <1>2, <1>7, StateKept DEF ToldState
  <2>3. LastState(toViewer'[v], State(Owned', v \in session'.banned))
    BY <1>6, <1>8, <2>1, <2>2
  <2> HIDE DEF Q, A
  <2> QED
    BY <1>1, <1>6, <1>7, <1>8, <1>9, <2>3 DEF ToldState, Q
<1>14. ASSUME ToldInk(v)  PROVE ToldInk(v)'
  <2> SUFFICES ASSUME NEW t \in Owned'.ink, Tracked(t)
               PROVE  \/ Quiet(A) /\ t \in picture[v].ink
                      \/ Drawn(A, Cur, t)
                      \/ Ahead(v, t) /\ Holding(S, Erase(Cur, StrokeOf(t)))
    BY <1>1, <1>6, <1>8 DEF ToldInk
  <2>1. CASE t = s
    BY <1>2, <1>10, <2>1
  <2>2. CASE t \in Owned.ink
    <3>1. \/ Quiet(Q) /\ t \in picture[v].ink
          \/ Drawn(Q, Cur, t)
          \/ Ahead(v, t) /\ Holding(R, Erase(Cur, StrokeOf(t)))
      BY <1>14, <2>2 DEF ToldInk
    <3>2. Holding(R, Erase(Cur, StrokeOf(t))) => Holding(S, Erase(Cur, StrokeOf(t)))
      BY <1>2, <1>5
    <3> HIDE DEF Q, A, R, S
    <3> QED
      BY <1>9, <1>10, <3>1, <3>2
  <2> QED
    BY <1>1, <2>1, <2>2
<1>15. ASSUME TellsInk(v)  PROVE TellsInk(v)'
  <2> SUFFICES ASSUME NEW t \in Inks, Tracked(t), Drawn(A, Cur, t)
               PROVE  t \in Owned'.ink \/ Swept(A, Cur, t)
    BY <1>1, <1>6, <1>8 DEF TellsInk
  <2>1. CASE m = Draw(Cur, t)
    BY <1>1, <1>2, <2>1
  <2>2. CASE m # Draw(Cur, t)
    <3>1. Drawn(Q, Cur, t)
      BY <1>10, <2>2
    <3>2. t \in Owned.ink \/ Swept(Q, Cur, t)
      BY <1>15, <3>1 DEF TellsInk
    <3> QED
      BY <1>1, <1>12, <2>2, <3>2
  <2> QED
    BY <2>1, <2>2
<1>16. ASSUME ShownInk(v)  PROVE ShownInk(v)'
  <2>0. ShowsInk(v) /\ RemovesInk(v) /\ RepeatsInk(v) /\ ReceivesInk(v)
    BY <1>16 DEF ShownInk
  <2>1. ShowsInk(v)'
    <3> SUFFICES ASSUME NEW t \in picture[v].ink, Tracked(t)
                 PROVE  \/ t \in Owned'.ink \/ Wiped(A, Cur, StrokeOf(t))
                        \/ Ahead(v, t) /\ Holding(S, Draw(Cur, t)) /\ StrokeOf(t) \notin Owned'.removed
      BY <1>1, <1>6, <1>8 DEF ShowsInk
    <3>1. \/ t \in Owned.ink \/ Wiped(Q, Cur, StrokeOf(t))
          \/ Ahead(v, t) /\ Holding(R, Draw(Cur, t)) /\ StrokeOf(t) \notin Owned.removed
      BY <2>0 DEF ShowsInk
    <3>2. Holding(R, Draw(Cur, t)) => t = s \/ Holding(S, Draw(Cur, t))
      BY <1>2, <1>5
    <3> HIDE DEF Q, A, R, S
    <3> QED
      BY <1>1, <1>11, <3>1, <3>2
  <2>2. RemovesInk(v)'
    <3> SUFFICES ASSUME NEW k \in picture[v].removed, Tracked(k)
                 PROVE  Dead(k)' \/ (Ahead(v, k) /\ ErasedLast(S, Cur, k))
      BY <1>1, <1>6 DEF RemovesInk
    <3>1. Dead(k) \/ (Ahead(v, k) /\ ErasedLast(R, Cur, k))
      BY <2>0 DEF RemovesInk
    <3>2. k \in Marks
      BY SharerScene DEF Scenes
    <3>3. ErasedLast(R, Cur, k) => ErasedLast(S, Cur, k)
      <4>1. CASE v # a
        BY <1>3, <4>1
      <4>2. CASE v = a
        <5>1. R # <<>> /\ Head(R) = m /\ S = Tail(R)
          BY <1>3, <4>2
        <5> HIDE DEF R, S
        <5>2. ErasedLast(R, Cur, k) =>
                ErasedLast(Tail(R), Cur, k) \/ (Head(R) = Erase(Cur, k) /\ Undrawn(Tail(R), Cur, k))
          BY <1>1, <5>1, LastErasure
        <5> QED
          BY <1>2, <5>1, <5>2
      <4> QED
        BY <4>1, <4>2
    <3> QED
      BY <1>6, <3>1, <3>2, <3>3 DEF DeadKept
  <2>3. RepeatsInk(v)'
    <3> SUFFICES ASSUME NEW t \in Inks, Tracked(t), IdOf(t) \in picture[v].received,
                        t \in Owned'.ink \/ (t[1] = v /\ Holding(S, Draw(Cur, t)))
                 PROVE  t \in picture[v].ink \/ StrokeOf(t) \in picture[v].removed
      BY <1>1, <1>6 DEF RepeatsInk, Offered
    <3>1. Holding(S, Draw(Cur, t)) => Holding(R, Draw(Cur, t))
      BY <1>4
    <3>2. CASE t = s
      <4>1. CASE v = a
        <5>1. R # <<>> /\ Head(R) = m
          BY <1>3, <4>1
        <5> HIDE DEF R
        <5>2. Holding(R, m)
          BY <1>1, <5>1, HoldingTaken
        <5>3. Offered(v, s)
          BY <4>1, <5>2 DEF Offered, R, Tells
        <5> QED
          BY <2>0, <3>2, <5>3 DEF RepeatsInk
      <4>2. CASE v # a
        <5>1. IdOf(s)[1] = s[1]
          BY Names
        <5>2. Tracked(IdOf(s))
          BY <3>2, <5>1 DEF Tracked
        <5> QED
          BY <1>1, <2>0, <3>2, <4>2, <5>1, <5>2 DEF ReceivesInk
      <4> QED
        BY <4>1, <4>2
    <3>3. CASE t # s
      <4>1. Offered(v, t)
        BY <1>1, <3>1, <3>3 DEF Offered
      <4> QED
        BY <2>0, <4>1 DEF RepeatsInk
    <3> QED
      BY <3>2, <3>3
  <2>4. ReceivesInk(v)'
    BY <1>1, <1>6, <2>0 DEF ReceivesInk
  <2> QED
    BY <2>1, <2>2, <2>3, <2>4 DEF ShownInk
<1> HIDE DEF Q, A
<1> QED
  BY <1>1, <1>7, <1>8, <1>9, <1>13, <1>14, <1>15, <1>16

\* The sharer has another segment, and tells it to all who watch.
LEMMA SegmentKeeps ==
  ASSUME DrawIInv, NEW s \in Inks, NEW a, NEW m, a = s[1], m = Draw(Cur, s),
         Gains(s), Source(a, m), Broadcast(m), UNCHANGED <<session, missed, restarted, mishaps>>
  PROVE  DrawIInv'
<1>1. DrawTyped /\ SharerOK /\ \A v \in Viewers : ViewerOK(v)
  BY DEF DrawIInv
<1>2. /\ m \in Downs /\ m.type = "draw" /\ \A f, k : m # Erase(f, k)
      /\ \A on : m # Watch(on)
  BY <1>1, SharerScene, DrawPacket
<1>3. SharerOK' /\ IsFiniteSet(picture'[Sharer].ink)
  BY <1>1, GainKeepsSharer
<1>4. toSharer' \in [Viewers -> Seq(Ups)]
  BY <1>1, SourceTaken
<1>5. toViewer' \in [Viewers -> Seq(Downs)]
  BY <1>1, <1>2, BroadcastTells
<1>6. DrawTyped'
  BY <1>1, <1>3, <1>4, <1>5 DEF DrawTyped, Gains
<1>7. DeadKept /\ \A k : Known(k) => Known(k)'
  BY <1>1, GainKeepsDead
<1>8. ASSUME NEW v \in Viewers  PROVE ViewerOK(v)'
  <2>1. /\ PictureOK(picture[v]) /\ picture[v].epoch <= Cur /\ PacketsOK(v) /\ AsksAgain(v)
        /\ v \notin restarted => Numbered(v)
        /\ ErasuresOK(v) /\ LinkOK(v)
    BY <1>1 DEF ViewerOK
  <2>2. Cur' = Cur /\ picture'[v] = picture[v]
    BY DEF Gains
  <2>3. PacketsOK(v)'
    BY <1>1, <1>7, <2>1, GainKeepsPackets
  <2>4. v \notin restarted' => Numbered(v)'
    BY <1>1, <2>1, GainKeepsNumbers
  <2>5. LinkOK(v)'
    BY <1>1, <1>7, <2>1, GainKeepsLink DEF Tells
  <2>6. Quiet(toViewer'[v]) <=> Quiet(toViewer[v])
    BY <1>1, <1>2, BroadcastTells
  <2>7. \A x : Holding(toViewer'[v], x) => Holding(toViewer[v], x) \/ m = x
    BY <1>1, <1>2, BroadcastTells
  <2>8. \A x : Holding(toSharer[v], x) /\ x # m => Holding(toSharer'[v], x)
    BY <1>1, SourceTaken
  <2>9. AsksAgain(v)'
    BY <1>2, <2>1, <2>6, <2>8 DEF AsksAgain, Asked
  <2>10. ErasuresOK(v)'
    BY <1>2, <1>7, <2>1, <2>2, <2>7 DEF ErasuresOK, DeadKept, Tracked
  <2> QED
    BY <2>1, <2>2, <2>3, <2>4, <2>5, <2>9, <2>10 DEF ViewerOK
<1> QED
  BY <1>3, <1>6, <1>8 DEF DrawIInv

-----------------------------------------------------------------------------
(* A stroke is erased.                                                       *)

\* What the sharer's picture loses with stroke k.
Loses(k) ==
    /\ Owned' \in Scenes /\ Owned'.enabled = Owned.enabled /\ Cur' = Cur /\ Owned.enabled
    /\ Owned'.ink = {s \in Owned.ink : StrokeOf(s) # k}
    /\ Owned'.received = Owned.received
    /\ k \in Strokes(Owned) => Owned'.removed = Owned.removed \cup {k}
    /\ k \notin Strokes(Owned) => Owned'.removed = Owned.removed
    /\ \A v \in Viewers : picture'[v] = picture[v]
    /\ picture' \in [Devices -> Scenes]

\* The packet that tells the erasure of stroke k.
TellsErased(m, k) == m = Erase(Cur, k)

\* An erasure as a packet.
LEMMA ErasePacket ==
  ASSUME NEW e \in Nat, NEW k \in Marks
  PROVE  /\ Erase(e, k) \in Downs /\ Erase(e, k) \in Ups /\ Erase(e, k).type = "erase"
         /\ Erase(e, k).epoch = e /\ Erase(e, k).stroke = k
         /\ \A f, s : Erase(e, k) # Draw(f, s)
         /\ \A on : Erase(e, k) # Watch(on)
         /\ \A f, j : Erase(e, k) = Erase(f, j) <=> f = e /\ j = k
<1>1. Erase(e, k) = [type |-> "erase", epoch |-> e, stroke |-> k]
  BY DEF Erase
<1>2. Erase(e, k) \in ErasePackets
  BY <1>1 DEF ErasePackets
<1>3. Erase(e, k).type = "erase" /\ Erase(e, k).epoch = e /\ Erase(e, k).stroke = k
  BY <1>1
<1>4. /\ \A f, s : Draw(f, s).type = "draw"
      /\ \A on : Watch(on).type = "watch"
      /\ \A f, j : Erase(f, j).epoch = f /\ Erase(f, j).stroke = j
  BY DEF Erase, Watch, Draw
<1>5. Erase(e, k) \in Downs /\ Erase(e, k) \in Ups
  BY <1>2 DEF Downs, Ups
<1>6. \A f, s : Erase(e, k) # Draw(f, s)
  BY <1>3, <1>4
<1>7. \A on : Erase(e, k) # Watch(on)
  BY <1>3, <1>4
<1>8. \A f, j : Erase(e, k) = Erase(f, j) <=> f = e /\ j = k
  BY <1>3, <1>4
<1> QED
  BY <1>3, <1>5, <1>6, <1>7, <1>8

\* The sharer knows the same strokes, and its picture is right still.
LEMMA LossKeepsSharer ==
  ASSUME DrawTyped, SharerOK, NEW k \in Marks, Loses(k)
  PROVE  /\ SharerOK' /\ IsFiniteSet(picture'[Sharer].ink)
         /\ \A j : j \in Strokes(Owned') <=> j \in Strokes(Owned) /\ j # k
         /\ \A j : Known(j)' <=> Known(j)
<1>1. Owned' = picture'[Sharer] /\ IsFiniteSet(Owned.ink) /\ Cur' = Cur
  BY SharerScene DEF Owned, Loses
<1>2. IsFiniteSet(Owned'.ink)
  <2>1. Owned'.ink \subseteq Owned.ink
    BY DEF Loses
  <2> QED
    BY <1>1, <2>1, FS_Subset
<1>3. PictureOK(Owned')
  BY DEF SharerOK, PictureOK, Loses
<1>4. \A t, w \in Owned'.ink : IdOf(t) = IdOf(w) => t = w
  BY DEF SharerOK, Loses
<1>5. \A j : j \in Strokes(Owned') <=> j \in Strokes(Owned) /\ j # k
  BY InStrokes DEF Loses
<1>6. \A j : Known(j)' <=> Known(j)
  BY <1>5 DEF Known, Loses
<1> QED
  BY <1>1, <1>2, <1>3, <1>4, <1>5, <1>6 DEF SharerOK

\* The erased stroke is gone, and those that were gone.
LEMMA LossKeepsDead ==
  ASSUME DrawTyped, SharerOK, NEW k \in Marks, NEW a, NEW m, TellsErased(m, k),
         Loses(k), Source(a, m), UNCHANGED restarted,
         a = Sharer => k \in Strokes(Owned), a \in Viewers => k[1] = a,
         \A v \in Viewers : v \notin restarted => Numbered(v)
  PROVE  DeadKept /\ (Tracked(k) => Dead(k)')
<1>1. \A j : j \in Strokes(Owned') <=> j \in Strokes(Owned) /\ j # k
  BY LossKeepsSharer
<1>2. Cur' = Cur /\ Cur \in Nat /\ Owned.removed \subseteq Owned'.removed
      /\ \A v \in Viewers : picture'[v] = picture[v]
  BY SharerScene DEF Loses
<1>3. ASSUME NEW j \in Marks, Dead(j)  PROVE Dead(j)'
  <2>1. CASE j \in Owned.removed
    BY <1>2, <2>1 DEF Dead
  <2>2. CASE j[1] \in Viewers /\ Gone(j[1], j)
    <3>1. Undrawn(toSharer[j[1]], Cur, j) => Undrawn(toSharer'[j[1]], Cur, j)
      BY <2>2, SourceTaken
    <3>2. Gone(j[1], j)'
      BY <1>1, <1>2, <2>2, <3>1 DEF Gone
    <3> QED
      BY <2>2, <3>2 DEF Dead
  <2> QED
    BY <1>3, <2>1, <2>2 DEF Dead
<1>4. ASSUME Tracked(k)  PROVE Dead(k)'
  <2>1. CASE Known(k)
    BY <2>1 DEF Known, Dead, Loses
  <2>2. CASE ~ Known(k)
    <3>1. a \in Viewers
      BY <2>2 DEF Known, Source
    <3> DEFINE R == toSharer[a]   S == toSharer'[a]
    <3>2. /\ R \in Seq(Ups) /\ R # <<>> /\ Head(R) = m /\ S = Tail(R)
      BY <3>1, SharerScene, SourceTaken
    <3>3. m = Erase(Cur, k) /\ k[1] = a
      BY <3>1 DEF TellsErased
    <3> HIDE DEF R, S
    <3>4. Holding(R, Erase(Cur, k))
      BY <3>2, <3>3, HoldingTaken
    <3>5. NumbersHere(a) /\ NumbersUp(a)
      BY <1>4, <3>1, <3>3 DEF Tracked, Numbered
    <3>6. ~ Again(R, Cur, k) /\ k[2] <= picture[a].next
      BY <2>2, <3>4, <3>5 DEF NumbersUp, R
    <3>7. Undrawn(S, Cur, k)
      BY <3>2, <3>3, <3>6, AgainTaken
    <3>8. picture[a].epoch = Cur => k \notin Strokes(picture[a])
      <4> SUFFICES ASSUME picture[a].epoch = Cur, NEW s \in picture[a].ink, StrokeOf(s) = k
                   PROVE  FALSE
        BY InStrokes
      <4>1. s[1] = a
        BY <3>3 DEF StrokeOf
      <4> QED
        BY <2>2, <3>4, <3>5, <4>1 DEF NumbersHere, R
    <3>9. Gone(a, k)'
      BY <1>1, <1>2, <2>2, <3>1, <3>6, <3>7, <3>8 DEF Gone, S, Known
    <3> QED
      BY <3>1, <3>3, <3>9 DEF Dead
  <2> QED
    BY <2>1, <2>2
<1> QED
  BY <1>3, <1>4 DEF DeadKept

\* What is underway stays right when a stroke is erased.
LEMMA LossKeepsPackets ==
  ASSUME DrawTyped, SharerOK, NEW k \in Marks, NEW a, NEW m, TellsErased(m, k),
         Loses(k), Source(a, m), Broadcast(m), NEW v \in Viewers, PacketsOK(v)
  PROVE  PacketsOK(v)'
<1>1. /\ Cur' = Cur /\ Cur \in Nat /\ Owned'.ink \subseteq Owned.ink
      /\ Owned'.received = Owned.received
  BY SharerScene DEF Loses
<1>2. m \in Downs /\ m.type = "erase" /\ m.epoch = Cur
  BY <1>1, ErasePacket DEF TellsErased
<1>3. \A i \in 1 .. Len(toSharer'[v]) : \E j \in 1 .. Len(toSharer[v]) : toSharer'[v][i] = toSharer[v][j]
  BY SourceTaken
<1>4. \A i \in 1 .. Len(toViewer'[v]) : toViewer'[v][i] = m
         \/ \E j \in 1 .. Len(toViewer[v]) : toViewer'[v][i] = toViewer[v][j]
  BY <1>2, BroadcastTells
<1>5. \A i \in 1 .. Len(toSharer'[v]) : UpOK(v, toSharer[v][i])'
  BY <1>1, <1>3 DEF PacketsOK, UpOK
<1>6. \A j : Known(j)' <=> Known(j)
  BY LossKeepsSharer
<1>7. ASSUME NEW i \in 1 .. Len(toViewer'[v])  PROVE DownOK(toViewer[v][i])'
  <2> DEFINE R == toViewer'[v]
  <2>1. DownOK(R[i]) \/ R[i] = m
    BY <1>4 DEF PacketsOK
  <2>2. DownOK(R[i])
    BY <1>1, <1>2, <2>1 DEF DownOK
  <2>3. toViewer[v]' = R
    OBVIOUS
  <2> HIDE DEF R
  <2> QED
    BY <1>1, <1>6, <2>2, <2>3 DEF DownOK
<1> QED
  BY <1>5, <1>7 DEF PacketsOK

\* So do the numbers in use.
LEMMA LossKeepsNumbers ==
  ASSUME DrawTyped, SharerOK, NEW k \in Marks, NEW a, NEW m, TellsErased(m, k),
         Loses(k), Source(a, m), NEW v \in Viewers, Numbered(v)
  PROVE  Numbered(v)'
<1> DEFINE R == toSharer[v]   S == toSharer'[v]
<1>1. /\ NumbersHere(v) /\ NumbersUp(v) /\ NumbersThere(v)
      /\ Cur' = Cur /\ picture'[v] = picture[v] /\ Owned'.received = Owned.received
      /\ Owned'.ink \subseteq Owned.ink
  BY DEF Numbered, Loses
<1>2. \A j : Known(j)' <=> Known(j)
  BY LossKeepsSharer
<1>3. \A x : Holding(S, x) => Holding(R, x)
  BY SourceTaken
<1>4. NumbersHere(v)'
  BY <1>1, <1>2, <1>3 DEF NumbersHere
<1>5. NumbersThere(v)'
  <2> DEFINE n == picture[v].next
  <2>1. n = picture[v].next'
    BY <1>1
  <2>2. k \in Strokes(Owned) /\ k[1] = v => k[2] <= n
    BY <1>1, InStrokes DEF NumbersThere, StrokeOf
  <2>3. \A j \in Owned'.removed : j[1] = v => j[2] <= n
    BY <1>1, <2>2 DEF NumbersThere, Loses
  <2> HIDE DEF n
  <2> QED
    BY <1>1, <2>1, <2>3 DEF NumbersThere, n
<1>6. NumbersUp(v)'
  <2>1. Up(v)
    <3>1. Takes
      BY DEF Source, Takes
    <3> QED
      BY <3>1, TakesFrom
  <2>2. /\ \A i \in 1 .. Len(S) : S[i].type = "watch" \/ \E j \in 1 .. Len(R) : S[i] = R[j]
        /\ \A i, j \in 1 .. Len(S) : i < j /\ S[i].type # "watch" /\ S[j].type # "watch" =>
             \E h, l \in 1 .. Len(R) : h < l /\ S[i] = R[h] /\ S[j] = R[l]
    BY <2>1, UpFrom
  <2>3. \A j : Again(S, Cur, j) => Again(R, Cur, j)
    <3>1. CASE v # a
      BY <3>1, SourceTaken
    <3>2. CASE v = a
      <4>1. R \in Seq(Ups) /\ R # <<>> /\ S = Tail(R)
        BY <3>2, SharerScene, SourceTaken
      <4> HIDE DEF R, S
      <4> QED
        BY <4>1, AgainTaken
    <3> QED
      BY <3>1, <3>2
  <2>4. \A i \in 1 .. Len(S) : DrawsNow(toSharer[v], i)' <=> S[i].type = "draw" /\ S[i].epoch = Cur
    BY <1>1 DEF DrawsNow
  <2>5. S = toSharer[v]' /\ picture[v]' = picture[v]
    BY <1>1
  <2> HIDE DEF S
  <2>6. ASSUME NEW i \in 1 .. Len(S), S[i].type = "draw", S[i].epoch = Cur
        PROVE  /\ S[i].segment[2] <= picture[v].next /\ S[i].segment[3] <= picture[v].next
               /\ IdOf(S[i].segment) \notin Owned.received
    <3>1. PICK j \in 1 .. Len(R) : S[i] = R[j]
      BY <2>2, <2>6
    <3>2. DrawsNow(R, j)
      BY <2>6, <3>1 DEF DrawsNow
    <3> QED
      BY <1>1, <3>1, <3>2 DEF NumbersUp
  <2>7. ASSUME NEW i \in 1 .. Len(S), NEW j \in 1 .. Len(S), i < j,
               S[i].type = "draw", S[i].epoch = Cur, S[j].type = "draw", S[j].epoch = Cur
        PROVE  S[i].segment[3] # S[j].segment[3]
    <3>1. PICK h \in 1 .. Len(R), l \in 1 .. Len(R) : h < l /\ S[i] = R[h] /\ S[j] = R[l]
      BY <2>2, <2>7
    <3>2. DrawsNow(R, h) /\ DrawsNow(R, l)
      BY <2>7, <3>1 DEF DrawsNow
    <3> QED
      BY <1>1, <3>1, <3>2 DEF NumbersUp
  <2>8. /\ \A j \in Marks : Holding(S, Erase(Cur, j)) => j[2] <= picture[v].next
        /\ \A j \in Marks : Again(S, Cur, j) => Known(j)'
    BY <1>1, <1>2, <1>3, <2>3 DEF NumbersUp
  <2> HIDE DEF R
  <2> QED
    BY <1>1, <2>4, <2>5, <2>6, <2>7, <2>8 DEF NumbersUp
<1> QED
  BY <1>4, <1>5, <1>6 DEF Numbered

\* A viewer in sync is told of the erasure.
LEMMA LossKeepsLink ==
  ASSUME DrawTyped, SharerOK, NEW k \in Marks, NEW a, NEW m, TellsErased(m, k),
         Loses(k), Source(a, m), Broadcast(m), UNCHANGED <<session, missed, restarted, mishaps>>,
         a \in Viewers => k[1] = a,
         DeadKept, Tracked(k) => Dead(k)', NEW v \in Viewers, LinkOK(v)
  PROVE  LinkOK(v)'
<1> SUFFICES ASSUME InSync(v)'
             PROVE  /\ ToldState(v)'
                    /\ \/ Quiet(toViewer'[v]) /\ Full(picture'[v])
                       \/ ToldInk(v)' /\ TellsInk(v)' /\ (Quiet(toViewer'[v]) => ShownInk(v)')
  BY DEF LinkOK
<1> DEFINE Q == toViewer[v]   R == toSharer[v]   S == toSharer'[v]   A == Append(Q, m)
<1>1. /\ Cur' = Cur /\ Cur \in Nat /\ picture'[v] = picture[v] /\ Owned'.enabled = Owned.enabled
      /\ Owned'.ink = {s \in Owned.ink : StrokeOf(s) # k} /\ Owned'.received = Owned.received
      /\ Owned'.removed \subseteq Owned.removed \cup {k} /\ Owned.ink \subseteq Inks
      /\ Q \in Seq(Downs) /\ R \in Seq(Ups)
  BY SharerScene DEF Loses
<1>2. /\ m \in Downs /\ m \in Ups /\ m.type = "erase"
      /\ \A f, s : m # Draw(f, s)
      /\ \A on : m # Watch(on)
      /\ \A f, j : m = Erase(f, j) <=> f = Cur /\ j = k
  BY <1>1, ErasePacket DEF TellsErased
<1>3. /\ v # a => toSharer'[v] = toSharer[v]
      /\ v = a => toSharer[v] # <<>> /\ Head(toSharer[v]) = m /\ toSharer'[v] = Tail(toSharer[v])
  BY SourceTaken
<1>4. \A x : Holding(toSharer'[v], x) => Holding(toSharer[v], x)
  BY SourceTaken
<1>5. \A x : Holding(toSharer[v], x) /\ x # m => Holding(toSharer'[v], x)
  BY SourceTaken
<1>6. /\ v \in session.watching /\ v \in session.viewers /\ v \notin missed /\ ~ Asked(v)
      /\ \A x : Tracked(x)' <=> Tracked(x)
      /\ \A x : Ahead(v, x)' <=> Ahead(v, x)
      /\ session' = session
  <2>1. Holding(toSharer[v], Watch(TRUE)) => Holding(toSharer'[v], Watch(TRUE))
    BY <1>2, <1>5
  <2> QED
    BY <2>1 DEF InSync, Asked, Tracked, Ahead
<1>7. /\ ToldState(v)
      /\ \/ Quiet(Q) /\ Full(picture[v])
         \/ ToldInk(v) /\ TellsInk(v) /\ (Quiet(Q) => ShownInk(v))
  BY <1>6 DEF LinkOK, InSync
<1>8. toViewer'[v] = A
  BY <1>2, <1>6, BroadcastTells
<1>9. Quiet(A) <=> Quiet(Q)
  BY <1>1, <1>2, LateSent
<1>10. \A e, t, j : /\ Drawn(A, e, t) <=> Drawn(Q, e, t) \/ m = Draw(e, t)
                    /\ Wiped(A, e, j) <=> Wiped(Q, e, j) \/ m = Erase(e, j)
  BY <1>1, <1>2, DrawSent
<1>11. \A e, t : /\ Drawn(A, e, t) <=> Drawn(Q, e, t)
                 /\ Wiped(A, Cur, k) /\ \A j : Wiped(Q, e, j) => Wiped(A, e, j)
  BY <1>2, <1>10
<1>12. \A e, t : /\ Swept(Q, e, t) => Swept(A, e, t)
                 /\ m = Erase(e, StrokeOf(t)) => Swept(A, e, t)
  BY <1>1, <1>2, SweptSent
<1>13. ToldState(v)'
  <2>1. \A b : State(Owned', b) = State(Owned, b)
    BY <1>1 DEF State, Cur
  <2>2. LastState(A, State(Owned, v \in session.banned))
    BY <1>1, <1>2, <1>7, StateKept DEF ToldState
  <2>3. LastState(toViewer'[v], State(Owned', v \in session'.banned))
    BY <1>6, <1>8, <2>1, <2>2
  <2> HIDE DEF Q, A
  <2> QED
    BY <1>1, <1>6, <1>7, <1>8, <1>9, <2>3 DEF ToldState, Q
<1>14. ASSUME ToldInk(v)  PROVE ToldInk(v)'
  <2> SUFFICES ASSUME NEW t \in Owned'.ink, Tracked(t)
               PROVE  \/ Quiet(A) /\ t \in picture[v].ink
                      \/ Drawn(A, Cur, t)
                      \/ Ahead(v, t) /\ Holding(S, Erase(Cur, StrokeOf(t)))
    BY <1>1, <1>6, <1>8 DEF ToldInk
  <2>1. t \in Owned.ink /\ StrokeOf(t) # k
    BY <1>1
  <2>2. \/ Quiet(Q) /\ t \in picture[v].ink
        \/ Drawn(Q, Cur, t)
        \/ Ahead(v, t) /\ Holding(R, Erase(Cur, StrokeOf(t)))
    BY <1>14, <2>1 DEF ToldInk
  <2>3. Holding(R, Erase(Cur, StrokeOf(t))) => Holding(S, Erase(Cur, StrokeOf(t)))
    BY <1>2, <1>5, <2>1
  <2> HIDE DEF Q, A, R, S
  <2> QED
    BY <1>9, <1>11, <2>2, <2>3
<1>15. ASSUME TellsInk(v)  PROVE TellsInk(v)'
  <2> SUFFICES ASSUME NEW t \in Inks, Tracked(t), Drawn(A, Cur, t)
               PROVE  t \in Owned'.ink \/ Swept(A, Cur, t)
    BY <1>1, <1>6, <1>8 DEF TellsInk
  <2>1. Drawn(Q, Cur, t)
    BY <1>11
  <2>2. t \in Owned.ink \/ Swept(Q, Cur, t)
    BY <1>15, <2>1 DEF TellsInk
  <2> HIDE DEF A, Q
  <2> QED
    BY <1>1, <1>2, <1>12, <2>2
<1>16. ASSUME ShownInk(v)  PROVE ShownInk(v)'
  <2>0. ShowsInk(v) /\ RemovesInk(v) /\ RepeatsInk(v) /\ ReceivesInk(v)
    BY <1>16 DEF ShownInk
  <2>1. ShowsInk(v)'
    <3> SUFFICES ASSUME NEW t \in picture[v].ink, Tracked(t)
                 PROVE  \/ t \in Owned'.ink \/ Wiped(A, Cur, StrokeOf(t))
                        \/ Ahead(v, t) /\ Holding(S, Draw(Cur, t)) /\ StrokeOf(t) \notin Owned'.removed
      BY <1>1, <1>6, <1>8 DEF ShowsInk
    <3>1. \/ t \in Owned.ink \/ Wiped(Q, Cur, StrokeOf(t))
          \/ Ahead(v, t) /\ Holding(R, Draw(Cur, t)) /\ StrokeOf(t) \notin Owned.removed
      BY <2>0 DEF ShowsInk
    <3>2. Holding(R, Draw(Cur, t)) => Holding(S, Draw(Cur, t))
      BY <1>2, <1>5
    <3> HIDE DEF Q, A, R, S
    <3>3. CASE StrokeOf(t) = k
      BY <1>11, <3>3
    <3>4. CASE StrokeOf(t) # k
      BY <1>1, <1>11, <3>1, <3>2, <3>4
    <3> QED
      BY <3>3, <3>4
  <2>2. RemovesInk(v)'
    <3> SUFFICES ASSUME NEW j \in picture[v].removed, Tracked(j)
                 PROVE  Dead(j)' \/ (Ahead(v, j) /\ ErasedLast(S, Cur, j))
      BY <1>1, <1>6 DEF RemovesInk
    <3>1. Dead(j) \/ (Ahead(v, j) /\ ErasedLast(R, Cur, j))
      BY <2>0 DEF RemovesInk
    <3>2. j \in Marks
      BY SharerScene DEF Scenes
    <3>3. ErasedLast(R, Cur, j) => ErasedLast(S, Cur, j) \/ j = k
      <4>1. CASE v # a
        BY <1>3, <4>1
      <4>2. CASE v = a
        <5>1. R # <<>> /\ Head(R) = m /\ S = Tail(R)
          BY <1>3, <4>2
        <5> HIDE DEF R, S
        <5>2. ErasedLast(R, Cur, j) =>
                ErasedLast(Tail(R), Cur, j) \/ (Head(R) = Erase(Cur, j) /\ Undrawn(Tail(R), Cur, j))
          BY <1>1, <5>1, LastErasure
        <5> QED
          BY <1>2, <5>1, <5>2
      <4> QED
        BY <4>1, <4>2
    <3> QED
      BY <1>6, <3>1, <3>2, <3>3 DEF DeadKept
  <2>3. RepeatsInk(v)'
    <3> SUFFICES ASSUME NEW t \in Inks, Tracked(t), IdOf(t) \in picture[v].received,
                        t \in Owned'.ink \/ (t[1] = v /\ Holding(S, Draw(Cur, t)))
                 PROVE  t \in picture[v].ink \/ StrokeOf(t) \in picture[v].removed
      BY <1>1, <1>6 DEF RepeatsInk, Offered
    <3>1. Holding(S, Draw(Cur, t)) => Holding(R, Draw(Cur, t))
      BY <1>4
    <3>2. Offered(v, t)
      BY <1>1, <3>1 DEF Offered
    <3> QED
      BY <2>0, <3>2 DEF RepeatsInk
  <2>4. ReceivesInk(v)'
    BY <1>1, <1>6, <2>0 DEF ReceivesInk
  <2> QED
    BY <2>1, <2>2, <2>3, <2>4 DEF ShownInk
<1> HIDE DEF Q, A
<1> QED
  BY <1>1, <1>7, <1>8, <1>9, <1>13, <1>14, <1>15, <1>16

\* The sharer erases a stroke, and tells it to all who watch.
LEMMA StrokeErasedKeeps ==
  ASSUME DrawIInv, NEW k \in Marks, NEW a, NEW m, TellsErased(m, k),
         Loses(k), Source(a, m), Broadcast(m), UNCHANGED <<session, missed, restarted, mishaps>>,
         a = Sharer => k \in Strokes(Owned), a \in Viewers => k[1] = a
  PROVE  DrawIInv'
<1>1. DrawTyped /\ SharerOK /\ \A v \in Viewers : ViewerOK(v)
  BY DEF DrawIInv
<1>2. /\ m \in Downs /\ m.type = "erase" /\ \A f, j : m = Erase(f, j) <=> f = Cur /\ j = k
      /\ \A on : m # Watch(on)
  BY <1>1, SharerScene, ErasePacket DEF TellsErased
<1>3. SharerOK' /\ IsFiniteSet(picture'[Sharer].ink)
  BY <1>1, LossKeepsSharer
<1>4. toSharer' \in [Viewers -> Seq(Ups)]
  BY <1>1, SourceTaken
<1>5. toViewer' \in [Viewers -> Seq(Downs)]
  BY <1>1, <1>2, BroadcastTells
<1>6. DrawTyped'
  BY <1>1, <1>3, <1>4, <1>5 DEF DrawTyped, Loses
<1>7. DeadKept /\ (Tracked(k) => Dead(k)')
  BY <1>1, LossKeepsDead DEF ViewerOK
<1>8. ASSUME NEW v \in Viewers  PROVE ViewerOK(v)'
  <2>1. /\ PictureOK(picture[v]) /\ picture[v].epoch <= Cur /\ PacketsOK(v) /\ AsksAgain(v)
        /\ v \notin restarted => Numbered(v)
        /\ ErasuresOK(v) /\ LinkOK(v)
    BY <1>1 DEF ViewerOK
  <2>2. Cur' = Cur /\ picture'[v] = picture[v]
    BY DEF Loses
  <2>3. PacketsOK(v)'
    BY <1>1, <1>7, <2>1, LossKeepsPackets
  <2>4. v \notin restarted' => Numbered(v)'
    BY <1>1, <2>1, LossKeepsNumbers
  <2>5. LinkOK(v)'
    BY <1>1, <1>7, <2>1, LossKeepsLink
  <2>6. Quiet(toViewer'[v]) <=> Quiet(toViewer[v])
    BY <1>1, <1>2, BroadcastTells
  <2>7. \A x : Holding(toViewer'[v], x) => Holding(toViewer[v], x) \/ m = x
    BY <1>1, <1>2, BroadcastTells
  <2>8. \A x : Holding(toSharer[v], x) /\ x # m => Holding(toSharer'[v], x)
    BY <1>1, SourceTaken
  <2>9. AsksAgain(v)'
    BY <1>2, <2>1, <2>6, <2>8 DEF AsksAgain, Asked
  <2>10. ErasuresOK(v)'
    BY <1>2, <1>7, <2>1, <2>2, <2>7 DEF ErasuresOK, DeadKept, Tracked
  <2> QED
    BY <2>1, <2>2, <2>3, <2>4, <2>5, <2>9, <2>10 DEF ViewerOK
<1> QED
  BY <1>3, <1>6, <1>8 DEF DrawIInv

-----------------------------------------------------------------------------
(* What the sharer does.                                                     *)

\* A segment that is not added uses a number up, and nothing else.
LEMMA RenumberKeeps ==
  ASSUME DrawIInv, picture' \in [Devices -> Scenes],
         \A v \in Viewers : picture'[v] = picture[v],
         Owned'.enabled = Owned.enabled, Cur' = Cur, Owned'.ink = Owned.ink,
         Owned'.received = Owned.received, Owned'.removed = Owned.removed,
         UNCHANGED <<session, toSharer, toViewer, missed, restarted, mishaps>>
  PROVE  DrawIInv'
<1>1. DrawTyped /\ SharerOK /\ \A v \in Viewers : ViewerOK(v)
  BY DEF DrawIInv
<1>2. Owned' = picture'[Sharer] /\ IsFiniteSet(Owned.ink)
  BY <1>1, SharerScene DEF Owned
<1>3. DrawTyped'
  BY <1>1, <1>2 DEF DrawTyped
<1>4. SharerOK'
  BY <1>1 DEF SharerOK, PictureOK
<1>5. \A k : Known(k)' <=> Known(k)
  BY DEF Known, Strokes
<1>6. /\ \A k : Tracked(k)' <=> Tracked(k)
      /\ Strokes(Owned') = Strokes(Owned)
      /\ \A b : State(Owned', b) = State(Owned, b)
  BY DEF Tracked, Strokes, State, Cur
<1>7. ASSUME NEW v \in Viewers, NEW k  PROVE Gone(v, k)' <=> Gone(v, k)
  BY <1>6, <1>7 DEF Gone
<1>8. \A k : Dead(k)' <=> Dead(k)
  BY <1>7 DEF Dead
<1>9. ASSUME NEW v \in Viewers  PROVE ViewerOK(v)'
  <2>1. /\ PictureOK(picture[v]) /\ picture[v].epoch <= Cur /\ PacketsOK(v) /\ AsksAgain(v)
        /\ v \notin restarted => Numbered(v)
        /\ ErasuresOK(v) /\ LinkOK(v)
    BY <1>1 DEF ViewerOK
  <2>2. PacketsOK(v)'
    <3>1. ASSUME NEW i \in 1 .. Len(toViewer[v])  PROVE DownOK(toViewer[v][i])'
      <4>1. DownOK(toViewer[v][i])
        BY <2>1 DEF PacketsOK
      <4> QED
        BY <1>5, <4>1 DEF DownOK
    <3>2. ASSUME NEW i \in 1 .. Len(toSharer[v])  PROVE UpOK(v, toSharer[v][i])'
      BY <2>1 DEF PacketsOK, UpOK
    <3> QED
      BY <3>1, <3>2 DEF PacketsOK
  <2>3. AsksAgain(v)'
    BY <2>1 DEF AsksAgain, Asked
  <2>4. ASSUME v \notin restarted'  PROVE Numbered(v)'
    <3>1. NumbersHere(v) /\ NumbersUp(v) /\ NumbersThere(v)
      BY <2>1, <2>4 DEF Numbered
    <3>2. NumbersHere(v)'
      BY <1>5, <3>1 DEF NumbersHere
    <3>3. NumbersThere(v)'
      BY <3>1 DEF NumbersThere
    <3>4. \A i : DrawsNow(toSharer[v], i)' <=> DrawsNow(toSharer[v], i)
      BY DEF DrawsNow
    <3>5. NumbersUp(v)'
      BY <1>5, <3>1, <3>4 DEF NumbersUp
    <3> QED
      BY <3>2, <3>3, <3>5 DEF Numbered
  <2>5. ErasuresOK(v)'
    BY <1>6, <1>8, <2>1 DEF ErasuresOK
  <2>6. LinkOK(v)'
    <3> SUFFICES ASSUME InSync(v)'
                 PROVE  /\ ToldState(v)'
                        /\ \/ Quiet(toViewer'[v]) /\ Full(picture'[v])
                           \/ ToldInk(v)' /\ TellsInk(v)' /\ (Quiet(toViewer'[v]) => ShownInk(v)')
      BY DEF LinkOK
    <3>1. InSync(v)
      BY DEF InSync, Asked
    <3>2. /\ ToldState(v)
          /\ \/ Quiet(toViewer[v]) /\ Full(picture[v])
             \/ ToldInk(v) /\ TellsInk(v) /\ (Quiet(toViewer[v]) => ShownInk(v))
      BY <2>1, <3>1 DEF LinkOK
    <3>3. ToldState(v)'
      BY <1>6, <3>2 DEF ToldState
    <3>4. ToldInk(v) => ToldInk(v)'
      BY <1>6 DEF ToldInk, Ahead
    <3>5. TellsInk(v) => TellsInk(v)'
      BY <1>6 DEF TellsInk
    <3>6. ShownInk(v) => ShownInk(v)'
      <4>1. ShowsInk(v) => ShowsInk(v)'
        BY <1>6 DEF ShowsInk, Ahead
      <4>2. RemovesInk(v) => RemovesInk(v)'
        BY <1>6, <1>8 DEF RemovesInk, Ahead
      <4>3. RepeatsInk(v) => RepeatsInk(v)'
        BY <1>6 DEF RepeatsInk, Offered
      <4>4. ReceivesInk(v) => ReceivesInk(v)'
        BY <1>6 DEF ReceivesInk
      <4> QED
        BY <4>1, <4>2, <4>3, <4>4 DEF ShownInk
    <3> QED
      BY <3>2, <3>3, <3>4, <3>5, <3>6
  <2> QED
    BY <2>1, <2>2, <2>3, <2>4, <2>5, <2>6 DEF ViewerOK
<1> QED
  BY <1>3, <1>4, <1>9 DEF DrawIInv

\* The sharer's picture becomes p.
LEMMA SharerPaints ==
  ASSUME DrawTyped, NEW p \in Scenes, picture' = [picture EXCEPT ![Sharer] = p]
  PROVE  /\ picture' \in [Devices -> Scenes] /\ Owned' = p /\ Cur' = p.epoch
         /\ \A v \in Viewers : picture'[v] = picture[v]
<1>1. /\ picture \in [Devices -> Scenes] /\ Sharer \in Devices
      /\ \A v \in Viewers : v \in Devices /\ v # Sharer
  BY SharerScene DEF DrawTyped
<1> QED
  BY <1>1 DEF Owned, Cur

\* A segment is added to the sharer's picture and told.
LEMMA AddedKeeps ==
  ASSUME DrawIInv, NEW p \in Scenes, p.enabled = Owned.enabled, p.epoch = Cur, p.ink = Owned.ink,
         p.received = Owned.received, p.removed = Owned.removed,
         NEW s \in Inks, Adds(p, Cur, s),
         NEW a, NEW m, a = s[1], m = Draw(Cur, s), Source(a, m), Broadcast(m),
         picture' = [picture EXCEPT ![Sharer] = AddSegment(p, Cur, s)],
         UNCHANGED <<session, missed, restarted, mishaps>>
  PROVE  DrawIInv'
<1> DEFINE q == AddSegment(p, Cur, s)
<1>1. DrawTyped
  BY DEF DrawIInv
<1>2. /\ q \in Scenes /\ q.enabled = p.enabled /\ q.epoch = p.epoch
      /\ q.removed = p.removed
      /\ q.ink = p.ink \cup {s} /\ q.received = p.received \cup {IdOf(s)}
      /\ p.enabled /\ StrokeOf(s) \notin p.removed /\ IdOf(s) \notin p.received
  BY SegmentAdded
<1> HIDE DEF q
<1>3. picture' = [picture EXCEPT ![Sharer] = q]
  BY DEF q
<1>4. /\ picture' \in [Devices -> Scenes] /\ Owned' = q /\ Cur' = q.epoch
      /\ \A v \in Viewers : picture'[v] = picture[v]
  BY <1>1, <1>2, <1>3, SharerPaints
<1>5. Gains(s)
  BY <1>2, <1>4 DEF Gains
<1> QED
  BY <1>5, SegmentKeeps

\* A stroke is removed from the sharer's picture and that is told.
LEMMA RemovedKeeps ==
  ASSUME DrawIInv, NEW k \in Marks, Owned.enabled, NEW a, NEW m, m = Erase(Cur, k),
         Source(a, m), Broadcast(m),
         a = Sharer => k \in Strokes(Owned), a \in Viewers => k[1] = a,
         picture' = [picture EXCEPT ![Sharer] = RemoveStroke(Owned, k[1], k[2])],
         UNCHANGED <<session, missed, restarted, mishaps>>
  PROVE  DrawIInv'
<1> DEFINE q == RemoveStroke(Owned, k[1], k[2])
<1>1. DrawTyped /\ Owned \in Scenes
  BY SharerScene DEF DrawIInv
<1>2. /\ q \in Scenes /\ q.enabled = Owned.enabled /\ q.epoch = Owned.epoch
      /\ q.received = Owned.received
      /\ q.ink = {s \in Owned.ink : StrokeOf(s) # k}
      /\ k \in Strokes(Owned) => q.removed = Owned.removed \cup {k}
      /\ k \notin Strokes(Owned) => q.removed = Owned.removed
  BY <1>1, StrokeRemoved
<1> HIDE DEF q
<1>3. picture' = [picture EXCEPT ![Sharer] = q]
  BY DEF q
<1>4. /\ picture' \in [Devices -> Scenes] /\ Owned' = q /\ Cur' = q.epoch
      /\ \A v \in Viewers : picture'[v] = picture[v]
  BY <1>1, <1>2, <1>3, SharerPaints
<1>5. Loses(k)
  BY <1>2, <1>4 DEF Loses, Cur
<1>6. TellsErased(m, k)
  BY DEF TellsErased
<1> QED
  BY <1>5, <1>6, StrokeErasedKeeps

\* Permission is given or taken, or the drawing is cleared.
LEMMA RequestPermissionKeeps ==
  ASSUME DrawIInv, RequestPermission
  PROVE  DrawIInv'
<1>1. \E enabled \in BOOLEAN : Reset(enabled)
  <2>1. (~ picture[Sharer].enabled) \in BOOLEAN
    OBVIOUS
  <2> QED
    BY <2>1 DEF RequestPermission
<1>2. Takes /\ UNCHANGED <<session, mishaps>>
  BY DEF RequestPermission, Takes
<1> QED
  BY <1>1, <1>2, ResetKeeps

\* The sharer draws.
LEMMA SharerDrawsKeeps ==
  ASSUME DrawIInv, SharerDraws
  PROVE  DrawIInv'
<1> DEFINE p == [picture[Sharer] EXCEPT !.next = @ + 1]
<1>1. DrawTyped /\ Owned \in Scenes /\ Sharer \in Devices /\ Owned = picture[Sharer] /\ Cur = Owned.epoch
  BY SharerScene DEF DrawIInv, Owned, Cur
<1>2. /\ p \in Scenes /\ p.enabled = Owned.enabled /\ p.epoch = Cur /\ p.ink = Owned.ink
      /\ p.received = Owned.received /\ p.removed = Owned.removed
  <2>1. Owned.next + 1 \in 0 .. MaxDrawn
    BY <1>1, DrawingAssumption DEF SharerDraws, Scenes
  <2> QED
    BY <1>1, <2>1 DEF Scenes
<1>3. PICK s \in NewSegments(Sharer) :
        IF Full(p) THEN Reset(TRUE)
        ELSE /\ picture' = [picture EXCEPT ![Sharer] = AddSegment(p, p.epoch, s)]
             /\ IF Adds(p, p.epoch, s) THEN Broadcast(Draw(p.epoch, s)) ELSE UNCHANGED toViewer
             /\ UNCHANGED <<missed, restarted>>
  BY DEF SharerDraws
<1>4. UNCHANGED <<session, toSharer, mishaps>>
  BY DEF SharerDraws
<1>5. s \in Inks /\ s[1] = Sharer
  <2>1. picture[Sharer].next + 1 \in Nat
    BY <1>1 DEF Scenes
  <2>2. \A t \in picture[Sharer].ink : t[2] \in Nat
    BY <1>1 DEF Scenes, Inks
  <2> QED
    BY <1>1, <2>1, <2>2 DEF NewSegments, Inks
<1> HIDE DEF p
<1>6. CASE Full(p)
  <2>1. Reset(TRUE) /\ Takes
    BY <1>3, <1>4, <1>6 DEF Takes
  <2>2. TRUE \in BOOLEAN
    OBVIOUS
  <2> QED
    BY <1>4, <2>1, <2>2, ResetKeeps
<1>7. CASE ~ Full(p) /\ Adds(p, Cur, s)
  <2> DEFINE m == Draw(Cur, s)
  <2>1. /\ picture' = [picture EXCEPT ![Sharer] = AddSegment(p, Cur, s)] /\ Broadcast(m)
        /\ UNCHANGED <<missed, restarted>>
    BY <1>2, <1>3, <1>7
  <2>2. Source(Sharer, m)
    BY <1>4 DEF Source
  <2>3. m = Draw(Cur, s)
    OBVIOUS
  <2> HIDE DEF m
  <2> QED
    BY <1>2, <1>4, <1>5, <1>7, <2>1, <2>2, <2>3, AddedKeeps
<1>8. CASE ~ Full(p) /\ ~ Adds(p, Cur, s)
  <2>1. /\ picture' = [picture EXCEPT ![Sharer] = AddSegment(p, Cur, s)] /\ UNCHANGED toViewer
        /\ UNCHANGED <<missed, restarted>>
    BY <1>2, <1>3, <1>8
  <2>2. AddSegment(p, Cur, s) = p
    BY <1>8 DEF AddSegment
  <2>3. /\ picture' \in [Devices -> Scenes] /\ Owned' = p /\ Cur' = p.epoch
        /\ \A v \in Viewers : picture'[v] = picture[v]
    BY <1>1, <1>2, <2>1, <2>2, SharerPaints
  <2> QED
    BY <1>2, <1>4, <2>1, <2>3, RenumberKeeps
<1> QED
  BY <1>6, <1>7, <1>8

\* The sharer erases.
LEMMA SharerErasesKeeps ==
  ASSUME DrawIInv, SharerErases
  PROVE  DrawIInv'
<1>1. DrawTyped /\ Owned \in Scenes /\ Sharer \in Devices /\ Owned = picture[Sharer] /\ Cur = Owned.epoch
  BY SharerScene DEF DrawIInv, Owned, Cur
<1>2. PICK k \in Strokes(Owned) :
        /\ picture' = [picture EXCEPT ![Sharer] = RemoveStroke(@, k[1], k[2])]
        /\ Broadcast(Erase(Cur, k))
  BY <1>1 DEF SharerErases
<1>3. /\ Owned.enabled /\ UNCHANGED <<session, toSharer, missed, restarted, mishaps>>
  BY <1>1 DEF SharerErases
<1>4. k \in Marks
  <2>1. PICK s \in Owned.ink : StrokeOf(s) = k
    BY InStrokes
  <2>2. s \in Inks
    BY <1>1 DEF Scenes
  <2> QED
    BY <2>1, <2>2, Names
<1> DEFINE m == Erase(Cur, k)
<1>5. Source(Sharer, m) /\ m = Erase(Cur, k) /\ Broadcast(m)
  BY <1>2, <1>3 DEF Source
<1>6. picture' = [picture EXCEPT ![Sharer] = RemoveStroke(Owned, k[1], k[2])]
  BY <1>1, <1>2 DEF DrawTyped
<1> HIDE DEF m
<1>7. Sharer \notin Viewers
  BY DrawingAssumption
<1> QED
  BY <1>2, <1>3, <1>4, <1>5, <1>6, <1>7, RemovedKeeps

\* The sharer receives: what it refuses changes nothing.
LEMMA SharerReceivesKeeps ==
  ASSUME DrawIInv, NEW v \in Viewers, SharerReceives(v)
  PROVE  DrawIInv'
<1> DEFINE m == Head(toSharer[v])   p == picture[Sharer]
           may == v \in session.viewers /\ v \notin session.banned
<1>1. /\ DrawTyped /\ Owned \in Scenes /\ Owned = p /\ Cur = Owned.epoch /\ Cur \in Nat
      /\ toSharer[v] \in Seq(Ups)
  BY SharerScene DEF DrawIInv, Owned, Cur
<1>2. toSharer[v] # <<>> /\ toSharer' = [toSharer EXCEPT ![v] = Tail(@)] /\ UNCHANGED mishaps
  BY DEF SharerReceives
<1>3. m \in Ups /\ UpOK(v, m)
  <2>1. Len(toSharer[v]) \in Nat \ {0} /\ m = toSharer[v][1] /\ toSharer[v][1] \in Ups
    BY <1>1, <1>2, PacketTaken
  <2>2. UpOK(v, toSharer[v][1])
    BY <2>1 DEF DrawIInv, ViewerOK, PacketsOK
  <2> QED
    BY <2>1, <2>2
<1>4. Source(v, m) /\ v # Sharer /\ Takes
  BY <1>2, DrawingAssumption DEF Source, Takes
<1>5. \/ /\ m.type = "watch"
         /\ session' = [session EXCEPT !.viewers = IF m.on THEN @ \cup {v} ELSE @ \ {v}]
         /\ IF m.on THEN /\ toViewer' = [toViewer EXCEPT ![v] =
                               @ \o Snapshot(p, v \in session.banned)]
                         /\ missed' = missed \ {v}
            ELSE UNCHANGED <<toViewer, missed>>
         /\ UNCHANGED <<picture, restarted>>
      \/ /\ m.type = "draw"
         /\ IF may THEN Accept(m.epoch, m.segment)
            ELSE UNCHANGED <<picture, toViewer, missed, restarted>>
         /\ UNCHANGED session
      \/ /\ m.type = "erase"
         /\ IF may /\ m.epoch = p.epoch /\ p.enabled
              THEN /\ picture' = [picture EXCEPT ![Sharer] = RemoveStroke(p, m.stroke[1], m.stroke[2])]
                   /\ Broadcast(m)
              ELSE UNCHANGED <<picture, toViewer>>
         /\ UNCHANGED <<session, missed, restarted>>
  BY DEF SharerReceives
<1>6. CASE m.type = "watch"
  <2>1. m.on \in BOOLEAN
    BY <1>3, <1>6 DEF Ups, WatchPackets, DrawPackets, ErasePackets
  <2>2. /\ session' = [session EXCEPT !.viewers = IF m.on THEN @ \cup {v} ELSE @ \ {v}]
        /\ IF m.on THEN /\ toViewer' = [toViewer EXCEPT ![v] =
                              @ \o Snapshot(p, v \in session.banned)]
                        /\ missed' = missed \ {v}
           ELSE UNCHANGED <<toViewer, missed>>
        /\ UNCHANGED <<picture, restarted>>
    BY <1>5, <1>6
  <2> DEFINE on == m.on
  <2>3. /\ on \in BOOLEAN
        /\ session' = [session EXCEPT !.viewers = IF on THEN @ \cup {v} ELSE @ \ {v}]
        /\ on => /\ toViewer' = [toViewer EXCEPT ![v] = @ \o Snapshot(picture[Sharer], v \in session.banned)]
                 /\ missed' = missed \ {v}
        /\ ~ on => UNCHANGED <<toViewer, missed>>
        /\ UNCHANGED <<picture, restarted, mishaps>>
    BY <1>2, <2>1, <2>2
  <2> HIDE DEF on, m
  <2> QED
    BY <1>2, <2>3, WatchReceived
<1>7. CASE m.type = "draw"
  <2> DEFINE s == m.segment
  <2>1. /\ IF may THEN Accept(m.epoch, s)
           ELSE UNCHANGED <<picture, toViewer, missed, restarted>>
        /\ UNCHANGED session
    BY <1>5, <1>7
  <2>2. m \in DrawPackets /\ s \in Inks /\ s[1] = v
    <3>1. m \in DrawPackets
      BY <1>3, <1>7 DEF Ups, WatchPackets, DrawPackets, ErasePackets
    <3> QED
      BY <1>3, <1>7, <3>1 DEF DrawPackets, UpOK
  <2>3. m = Draw(m.epoch, s)
    BY <2>2 DEF DrawPackets, Draw
  <2>4. CASE may /\ Owned.enabled /\ m.epoch = Cur /\ Full(Owned)
    <3>1. Reset(TRUE)
      BY <1>1, <2>1, <2>4 DEF Accept
    <3>2. TRUE \in BOOLEAN
      OBVIOUS
    <3>3. UNCHANGED <<session, mishaps>>
      BY <1>2, <2>1
    <3> QED
      BY <1>4, <3>1, <3>2, <3>3, ResetKeeps
  <2>5. CASE may /\ ~ (Owned.enabled /\ m.epoch = Cur /\ Full(Owned))
    <3>1. /\ picture' = [picture EXCEPT ![Sharer] = AddSegment(Owned, m.epoch, s)]
          /\ IF Adds(Owned, m.epoch, s) THEN Broadcast(Draw(m.epoch, s)) ELSE UNCHANGED toViewer
          /\ UNCHANGED <<missed, restarted>>
      BY <1>1, <2>1, <2>5 DEF Accept
    <3>2. CASE Adds(Owned, m.epoch, s)
      <4>1. m.epoch = Cur
        BY <1>1, <3>2 DEF Adds
      <4>2. /\ picture' = [picture EXCEPT ![Sharer] = AddSegment(Owned, Cur, s)]
            /\ Broadcast(m) /\ m = Draw(Cur, s) /\ Adds(Owned, Cur, s)
            /\ UNCHANGED <<session, missed, restarted, mishaps>>
        BY <1>2, <2>1, <2>3, <3>1, <3>2, <4>1
      <4> HIDE DEF s, m
      <4> QED
        BY <1>1, <1>4, <2>2, <4>2, AddedKeeps
    <3>3. CASE ~ Adds(Owned, m.epoch, s)
      <4>1. AddSegment(Owned, m.epoch, s) = Owned
        BY <3>3 DEF AddSegment
      <4>2. picture' = picture
        BY <1>1, <3>1, <4>1 DEF DrawTyped, Devices
      <4>3. Refused(v, m)
        BY <1>1, <1>7, <2>5, <3>3 DEF Refused, Adds, StrokeOf, IdOf
      <4>4. UNCHANGED <<picture, session, toViewer, missed, restarted, mishaps>>
        BY <1>2, <2>1, <3>1, <3>3, <4>2
      <4> QED
        BY <1>2, <1>7, <4>3, <4>4, RefusedKeeps
    <3> QED
      BY <3>2, <3>3
  <2>6. CASE ~ may
    <3>1. Refused(v, m)
      BY <2>6 DEF Refused
    <3>2. UNCHANGED <<picture, session, toViewer, missed, restarted, mishaps>>
      BY <1>2, <2>1, <2>6
    <3> QED
      BY <1>2, <1>7, <3>1, <3>2, RefusedKeeps
  <2> QED
    BY <2>4, <2>5, <2>6
<1>8. CASE m.type = "erase"
  <2> DEFINE k == m.stroke
  <2>1. /\ IF may /\ m.epoch = Cur /\ Owned.enabled
             THEN /\ picture' = [picture EXCEPT ![Sharer] = RemoveStroke(Owned, k[1], k[2])]
                  /\ Broadcast(m)
             ELSE UNCHANGED <<picture, toViewer>>
        /\ UNCHANGED <<session, missed, restarted>>
    BY <1>1, <1>5, <1>8
  <2>2. m \in ErasePackets /\ k \in Marks /\ k[1] = v
    <3>1. m \in ErasePackets
      BY <1>3, <1>8 DEF Ups, WatchPackets, DrawPackets, ErasePackets
    <3> QED
      BY <1>3, <1>8, <3>1 DEF ErasePackets, UpOK
  <2>3. m = Erase(m.epoch, k)
    BY <2>2 DEF ErasePackets, Erase
  <2>4. CASE may /\ m.epoch = Cur /\ Owned.enabled
    <3>1. /\ picture' = [picture EXCEPT ![Sharer] = RemoveStroke(Owned, k[1], k[2])]
          /\ Broadcast(m) /\ m = Erase(Cur, k) /\ Owned.enabled
          /\ UNCHANGED <<session, missed, restarted, mishaps>>
      BY <1>2, <2>1, <2>3, <2>4
    <3> HIDE DEF k, m
    <3> QED
      BY <1>4, <2>2, <3>1, RemovedKeeps
  <2>5. CASE ~ (may /\ m.epoch = Cur /\ Owned.enabled)
    <3>1. Refused(v, m)
      BY <2>5 DEF Refused
    <3>2. UNCHANGED <<picture, session, toViewer, missed, restarted, mishaps>>
      BY <1>2, <2>1, <2>5
    <3> QED
      BY <1>2, <1>8, <3>1, <3>2, RefusedKeeps
  <2> QED
    BY <2>4, <2>5
<1> QED
  BY <1>5, <1>6, <1>7, <1>8

-----------------------------------------------------------------------------
(* A viewer draws and erases.                                                *)

\* A viewer sends what it has done to its picture.
Submits(v, m) ==
    /\ m \in Ups /\ m.epoch = picture[v].epoch /\ UpOK(v, m)
    /\ \A on : m # Watch(on)
    /\ toSharer'[v] = Append(toSharer[v], m)
    /\ ~ picture[v].banned /\ SharerRests /\ picture'[v] \in Scenes /\ PictureOK(picture'[v])
    /\ picture'[v].enabled = picture[v].enabled /\ picture'[v].epoch = picture[v].epoch
    /\ picture'[v].banned = picture[v].banned /\ picture[v].next <= picture'[v].next
    /\ UNCHANGED <<session, toViewer, missed, restarted, mishaps>>

\* What its packet does not change.
LEMMA SubmitKeeps ==
  ASSUME DrawTyped, NEW v \in Viewers, ViewerOK(v), NEW m, Submits(v, m), DeadKept,
         v \notin restarted => Numbered(v)', LinkOK(v)'
  PROVE  ViewerOK(v)'
<1> DEFINE R == toSharer[v]   A == Append(R, m)
<1>1. /\ PictureOK(picture[v]) /\ picture[v].epoch <= Cur /\ PacketsOK(v) /\ AsksAgain(v)
      /\ ErasuresOK(v)
  BY DEF ViewerOK
<1>2. /\ Owned' = Owned /\ Cur' = Cur /\ \A k : Known(k)' <=> Known(k)
      /\ \A k : Tracked(k)' <=> Tracked(k)
  BY SharerRestsKeeps DEF Submits, Tracked
<1>3. R \in Seq(Ups) /\ m \in Ups /\ UpOK(v, m) /\ toSharer'[v] = A
  BY SharerScene DEF Submits
<1>4. /\ Len(A) = Len(R) + 1 /\ Len(R) \in Nat /\ A[Len(R) + 1] = m
      /\ \A i \in 1 .. Len(R) : A[i] = R[i]
  BY <1>3, PacketSent
<1>5. \A x : Holding(A, x) <=> Holding(R, x) \/ m = x
  BY <1>3, HoldingSent
<1>6. \A i \in 1 .. Len(R) : UpOK(v, R[i])
  BY <1>1 DEF PacketsOK
<1>7. toSharer[v]' = A
  BY <1>3
<1> HIDE DEF A, R
<1>8. \A i \in 1 .. Len(A) : UpOK(v, A[i])
  BY <1>3, <1>4, <1>6
<1>9. PacketsOK(v)'
  <2>1. ASSUME NEW i \in 1 .. Len(A)  PROVE UpOK(v, toSharer[v][i])'
    BY <1>2, <1>7, <1>8 DEF UpOK
  <2>2. ASSUME NEW i \in 1 .. Len(toViewer[v])  PROVE DownOK(toViewer[v][i])'
    <3>1. DownOK(toViewer[v][i]) /\ toViewer' = toViewer
      BY <1>1 DEF PacketsOK, Submits
    <3> QED
      BY <1>2, <3>1 DEF DownOK
  <2>3. toViewer' = toViewer
    BY DEF Submits
  <2> QED
    BY <1>7, <2>1, <2>2, <2>3 DEF PacketsOK
<1>10. AsksAgain(v)'
  BY <1>1, <1>5, <1>7 DEF AsksAgain, Asked, Submits, R
<1>11. ErasuresOK(v)'
  BY <1>1, <1>2 DEF ErasuresOK, DeadKept, Submits
<1> QED
  BY <1>1, <1>2, <1>9, <1>10, <1>11 DEF ViewerOK, Submits

\* Who is in sync was, and may draw.
LEMMA SubmitsInSync ==
  ASSUME DrawTyped, NEW v \in Viewers, LinkOK(v), NEW m, Submits(v, m), InSync(v)'
  PROVE  /\ ToldState(v)' /\ \A k : Ahead(v, k)' <=> Ahead(v, k)
         /\ \A k : Tracked(k)' <=> Tracked(k)
         /\ Owned' = Owned /\ Cur' = Cur /\ toViewer' = toViewer
         /\ Quiet(toViewer[v]) => picture[v].epoch = Cur /\ \A k : k[1] = v => Ahead(v, k)
         /\ \A x : Holding(toSharer'[v], x) <=> Holding(toSharer[v], x) \/ m = x
         /\ \/ Quiet(toViewer[v]) /\ Full(picture[v])
            \/ ToldInk(v) /\ TellsInk(v) /\ (Quiet(toViewer[v]) => ShownInk(v))
<1>1. /\ Owned' = Owned /\ Cur' = Cur /\ toViewer' = toViewer /\ session' = session
      /\ restarted' = restarted /\ missed' = missed
  BY SharerRestsKeeps DEF Submits
<1>2. \A x : Holding(toSharer'[v], x) <=> Holding(toSharer[v], x) \/ m = x
  <2>1. toSharer[v] \in Seq(Ups) /\ m \in Ups /\ toSharer'[v] = Append(toSharer[v], m)
    BY SharerScene DEF Submits
  <2> QED
    BY <2>1, HoldingSent
<1>3. InSync(v)
  BY <1>1, <1>2 DEF InSync, Asked
<1>4. /\ ToldState(v)
      /\ \/ Quiet(toViewer[v]) /\ Full(picture[v])
         \/ ToldInk(v) /\ TellsInk(v) /\ (Quiet(toViewer[v]) => ShownInk(v))
  BY <1>3 DEF LinkOK
<1>5. /\ \A k : Ahead(v, k)' <=> Ahead(v, k)
      /\ \A k : Tracked(k)' <=> Tracked(k)
  BY <1>1 DEF Ahead, Tracked
<1>6. ToldState(v)'
  BY <1>1, <1>4 DEF ToldState, Submits
<1>7. Quiet(toViewer[v]) => picture[v].epoch = Cur /\ \A k : k[1] = v => Ahead(v, k)
  BY <1>4 DEF ToldState, Submits, Ahead
<1> QED
  BY <1>1, <1>2, <1>4, <1>5, <1>6, <1>7

\* The segment that a viewer draws is new, of a new stroke or its last one.
Draws(v, s) ==
    LET p == picture[v] IN
    /\ s \in Inks /\ s[1] = v /\ s[3] = p.next + 1 /\ p.next \in Nat
    /\ s[2] = p.next + 1 \/ \E t \in p.ink : StrokeOf(t) = StrokeOf(s)
    /\ picture'[v].next = p.next + 1 /\ picture'[v].removed = p.removed
    /\ \/ Adds(p, p.epoch, s) /\ picture'[v].ink = p.ink \cup {s}
                              /\ picture'[v].received = p.received \cup {IdOf(s)}
       \/ ~ Adds(p, p.epoch, s) /\ picture'[v].ink = p.ink /\ picture'[v].received = p.received

\* It has a number of its own, and its stroke was not erased.
LEMMA NewNumber ==
  ASSUME DrawTyped, SharerOK, NEW v \in Viewers, PictureOK(picture[v]), Numbered(v),
         picture[v].epoch = Cur, NEW s, Draws(v, s)
  PROVE  /\ IdOf(s) \notin picture[v].received /\ StrokeOf(s) \notin picture[v].removed
         /\ s[2] <= picture[v].next + 1
         /\ IdOf(s) \notin Owned.received
         /\ s[2] = picture[v].next + 1 => StrokeOf(s) \notin Owned.removed
         /\ \A t \in Owned.ink : IdOf(t) # IdOf(s)
         /\ \A i \in 1 .. Len(toSharer[v]) : DrawsNow(toSharer[v], i) =>
              IdOf(toSharer[v][i].segment) # IdOf(s)
         /\ Holding(toSharer[v], Erase(Cur, StrokeOf(s))) => Known(StrokeOf(s))
<1> DEFINE p == picture[v]   n == p.next
<1>1. NumbersHere(v) /\ NumbersUp(v) /\ NumbersThere(v)
  BY DEF Numbered
<1>2. /\ n \in Nat /\ s[1] = v /\ s[3] = n + 1 /\ s \in Inks
      /\ s[2] = n + 1 \/ \E t \in p.ink : StrokeOf(t) = StrokeOf(s)
  BY DEF Draws
<1>3. /\ IdOf(s) \in Marks /\ IdOf(s)[1] = v /\ IdOf(s)[2] = n + 1 /\ StrokeOf(s) \in Marks
      /\ StrokeOf(s)[1] = v /\ StrokeOf(s)[2] = s[2]
  BY <1>2, Names
<1>4. /\ p \in Scenes /\ Owned \in Scenes
  BY SharerScene
<1>5. ~ (n + 1 <= n)
  BY <1>2
<1>6. IdOf(s) \notin p.received
  BY <1>1, <1>3, <1>5 DEF NumbersHere
<1>7. \A t \in p.ink : StrokeOf(t) = StrokeOf(s) => t[1] = v /\ t[2] = s[2]
  BY <1>3 DEF StrokeOf
<1>8. s[2] <= n + 1
  <2>1. CASE s[2] = n + 1
    BY <1>2, <2>1
  <2>2. CASE \E t \in p.ink : StrokeOf(t) = StrokeOf(s)
    <3>1. s[2] <= n
      BY <1>1, <1>7, <2>2 DEF NumbersHere
    <3> QED
      BY <1>2, <3>1, Names
  <2> QED
    BY <1>2, <2>1, <2>2
<1>9. StrokeOf(s) \notin p.removed
  <2>1. CASE s[2] = n + 1
    BY <1>1, <1>3, <1>5, <2>1 DEF NumbersHere
  <2>2. CASE \E t \in p.ink : StrokeOf(t) = StrokeOf(s)
    BY <2>2 DEF PictureOK
  <2> QED
    BY <1>2, <2>1, <2>2
<1>10. IdOf(s) \notin Owned.received
  BY <1>1, <1>3, <1>5 DEF NumbersThere
<1>11. s[2] = n + 1 => StrokeOf(s) \notin Owned.removed
  BY <1>1, <1>3, <1>5 DEF NumbersThere
<1>12. \A t \in Owned.ink : IdOf(t) # IdOf(s)
  BY <1>10 DEF SharerOK, PictureOK
<1>13. ASSUME NEW i \in 1 .. Len(toSharer[v]), DrawsNow(toSharer[v], i)
       PROVE  IdOf(toSharer[v][i].segment) # IdOf(s)
  <2> DEFINE t == toSharer[v][i].segment
  <2>1. t[3] <= n
    BY <1>1, <1>13 DEF NumbersUp
  <2>2. IdOf(t)[2] = t[3]
    BY DEF IdOf
  <2> HIDE DEF t
  <2> QED
    BY <1>3, <1>5, <2>1, <2>2 DEF t
<1>14. ASSUME Holding(toSharer[v], Erase(Cur, StrokeOf(s)))  PROVE Known(StrokeOf(s))
  <2>1. s[2] <= n
    BY <1>1, <1>3, <1>14 DEF NumbersUp
  <2>2. PICK t \in p.ink : StrokeOf(t) = StrokeOf(s)
    BY <1>2, <1>5, <2>1
  <2>3. t[1] = v
    BY <1>7, <2>2
  <2> QED
    BY <1>1, <1>14, <2>2, <2>3 DEF NumbersHere
<1> QED
  BY <1>6, <1>8, <1>9, <1>10, <1>11, <1>12, <1>13, <1>14

\* The numbers stay right when a viewer draws.
LEMMA DrawsKeepsNumbers ==
  ASSUME DrawTyped, SharerOK, NEW v \in Viewers, PictureOK(picture[v]), PacketsOK(v), Numbered(v),
         NEW s, Draws(v, s), NEW m, m = Draw(picture[v].epoch, s), Submits(v, m)
  PROVE  Numbered(v)'
<1> DEFINE p == picture[v]   n == p.next   R == toSharer[v]   A == Append(R, m)
<1>1. /\ NumbersHere(v) /\ NumbersUp(v) /\ NumbersThere(v)
      /\ Owned' = Owned /\ Cur' = Cur /\ \A k : Known(k)' <=> Known(k)
  BY SharerRestsKeeps DEF Numbered, Submits
<1>2. /\ n \in Nat /\ picture'[v].next = n + 1 /\ picture'[v].removed = p.removed
      /\ picture'[v].ink \subseteq p.ink \cup {s}
      /\ picture'[v].received \subseteq p.received \cup {IdOf(s)}
      /\ picture'[v].epoch = p.epoch /\ s \in Inks /\ s[1] = v /\ s[3] = n + 1
      /\ IdOf(s)[2] = n + 1 /\ p \in Scenes /\ Owned \in Scenes /\ Cur \in Nat
  BY SharerScene, Names DEF Draws, Submits
<1>3. /\ m.type = "draw" /\ m.epoch = p.epoch /\ m.segment = s /\ m \in Ups
      /\ \A f, k : m # Erase(f, k)
  BY <1>2, DrawPacket DEF Scenes
<1>4. /\ R \in Seq(Ups) /\ toSharer'[v] = A
      /\ Len(A) = Len(R) + 1 /\ Len(R) \in Nat /\ A[Len(R) + 1] = m
      /\ \A i \in 1 .. Len(R) : A[i] = R[i]
  <2>1. R \in Seq(Ups) /\ toSharer'[v] = A
    BY SharerScene DEF Submits
  <2> QED
    BY <1>3, <2>1, PacketSent
<1>5. \A f, k : Holding(A, Erase(f, k)) <=> Holding(R, Erase(f, k))
  BY <1>3, <1>4, HoldingSent
<1>6. p.epoch = Cur =>
        /\ s[2] <= n + 1 /\ IdOf(s) \notin Owned.received
        /\ \A i \in 1 .. Len(R) : DrawsNow(R, i) => IdOf(R[i].segment) # IdOf(s)
        /\ Holding(R, Erase(Cur, StrokeOf(s))) => Known(StrokeOf(s))
  BY NewNumber
<1>7. NumbersHere(v)'
  <2> SUFFICES ASSUME p.epoch = Cur
               PROVE  /\ \A t \in picture'[v].ink : t[1] = v => t[2] <= n + 1
                      /\ \A x \in picture'[v].received : x[1] = v => x[2] <= n + 1
                      /\ \A k \in p.removed : k[1] = v => k[2] <= n + 1
                      /\ \A t \in picture'[v].ink : t[1] = v =>
                           Known(StrokeOf(t)) \/ ~ Holding(A, Erase(Cur, StrokeOf(t)))
    BY <1>1, <1>2, <1>4 DEF NumbersHere
  <2>1. \A t \in p.ink : t[2] \in Nat /\ (t[1] = v => t[2] <= n)
    BY <1>1, <1>2 DEF NumbersHere, Scenes, Inks
  <2>2. \A x \in p.received \cup p.removed : x[2] \in Nat /\ (x[1] = v => x[2] <= n)
    BY <1>1, <1>2 DEF NumbersHere, Scenes, Marks
  <2>3. \A t \in p.ink : t[1] = v => Known(StrokeOf(t)) \/ ~ Holding(R, Erase(Cur, StrokeOf(t)))
    BY <1>1 DEF NumbersHere
  <2>4. \A t \in picture'[v].ink : t[1] = v => Known(StrokeOf(t)) \/ ~ Holding(A, Erase(Cur, StrokeOf(t)))
    BY <1>2, <1>5, <1>6, <2>3
  <2>5. \A t \in picture'[v].ink : t[1] = v => t[2] <= n + 1
    BY <1>2, <1>6, <2>1
  <2>6. \A x \in picture'[v].received : x[1] = v => x[2] <= n + 1
    BY <1>2, <2>2
  <2>7. \A k \in p.removed : k[1] = v => k[2] <= n + 1
    BY <1>2, <2>2
  <2> QED
    BY <2>4, <2>5, <2>6, <2>7
<1>8. NumbersThere(v)'
  <2>1. \A t \in Owned.ink : t[2] \in Nat
    BY <1>2 DEF Scenes, Inks
  <2>2. \A x \in Owned.received \cup Owned.removed : x[2] \in Nat
    BY <1>2 DEF Scenes, Marks
  <2>3. n + 1 = picture[v].next'
    BY <1>2
  <2>4. \A x \in Nat : x <= n => x <= n + 1
    BY <1>2
  <2> QED
    BY <1>1, <2>1, <2>2, <2>3, <2>4 DEF NumbersThere
<1>9. NumbersUp(v)'
  <2>1. toSharer[v]' = A /\ picture[v].next' = n + 1
    BY <1>2, <1>4
  <2>2. \A i \in 1 .. Len(R) : DrawsNow(R, i) =>
          /\ R[i].segment[2] <= n /\ R[i].segment[3] <= n
          /\ IdOf(R[i].segment) \notin Owned.received
          /\ R[i].segment[2] \in Nat /\ R[i].segment[3] \in Nat
    <3>1. \A i \in 1 .. Len(R) : R[i] \in Ups
      BY <1>4
    <3>2. \A i \in 1 .. Len(R) : DrawsNow(R, i) => R[i].segment \in Inks
      BY <3>1 DEF DrawsNow, Ups, WatchPackets, DrawPackets, ErasePackets
    <3> QED
      BY <1>1, <3>2 DEF NumbersUp, Inks
  <2>3. \A i, j \in 1 .. Len(R) : i < j /\ DrawsNow(R, i) /\ DrawsNow(R, j) =>
          R[i].segment[3] # R[j].segment[3]
    BY <1>1 DEF NumbersUp
  <2>4. \A k \in Marks : Holding(R, Erase(Cur, k)) => k[2] <= n
    BY <1>1 DEF NumbersUp
  <2>5. ASSUME NEW k \in Marks, Again(A, Cur, k)  PROVE Known(k)
    <3>1. Again(R, Cur, k) \/ (Holding(R, Erase(Cur, k)) /\ DrawsStroke(m, Cur, k))
      BY <1>3, <1>4, <2>5, AgainSent
    <3>2. Again(R, Cur, k) => Known(k)
      BY <1>1 DEF NumbersUp
    <3> QED
      BY <1>3, <1>6, <3>1, <3>2 DEF DrawsStroke
  <2>6. \A i : DrawsNow(toSharer[v], i)' <=> i \in 1 .. Len(A) /\ A[i].type = "draw" /\ A[i].epoch = Cur
    BY <1>1, <2>1 DEF DrawsNow
  <2>7. \A i : DrawsNow(R, i) <=> i \in 1 .. Len(R) /\ R[i].type = "draw" /\ R[i].epoch = Cur
    BY DEF DrawsNow
  <2> HIDE DEF A, R, p
  <2>8. ASSUME NEW i \in 1 .. Len(A), A[i].type = "draw", A[i].epoch = Cur
        PROVE  /\ A[i].segment[2] <= n + 1 /\ A[i].segment[3] <= n + 1
               /\ IdOf(A[i].segment) \notin Owned.received
    <3>1. CASE i \in 1 .. Len(R)
      <4>1. /\ R[i].segment[2] <= n /\ R[i].segment[3] <= n
            /\ IdOf(R[i].segment) \notin Owned.received
            /\ R[i].segment[2] \in Nat /\ R[i].segment[3] \in Nat /\ A[i] = R[i]
        BY <1>4, <2>2, <2>7, <2>8, <3>1
      <4> QED
        BY <1>2, <4>1
    <3>2. CASE i = Len(R) + 1
      BY <1>2, <1>3, <1>4, <1>6, <2>8, <3>2
    <3> QED
      BY <1>4, <3>1, <3>2
  <2>9. ASSUME NEW i \in 1 .. Len(A), NEW j \in 1 .. Len(A), i < j,
               A[i].type = "draw", A[i].epoch = Cur, A[j].type = "draw", A[j].epoch = Cur
        PROVE  A[i].segment[3] # A[j].segment[3]
    <3>0. i \in 1 .. Len(R) /\ A[i] = R[i]
      BY <1>4, <2>9
    <3>1. CASE j \in 1 .. Len(R)
      BY <1>4, <2>3, <2>7, <2>9, <3>0, <3>1
    <3>2. CASE j = Len(R) + 1
      <4>1. A[j].segment[3] = n + 1
        BY <1>2, <1>3, <1>4, <3>2
      <4>2. A[i].segment[3] <= n /\ A[i].segment[3] \in Nat
        BY <2>2, <2>7, <2>9, <3>0
      <4> QED
        BY <1>2, <4>1, <4>2
    <3> QED
      BY <1>4, <3>1, <3>2
  <2>10. \A k \in Marks : Holding(A, Erase(Cur, k)) => k[2] <= n + 1
    <3>1. \A k \in Marks : k[2] \in Nat
      BY DEF Marks
    <3> QED
      BY <1>2, <1>5, <2>4, <3>1
  <2> HIDE DEF n
  <2>11. \A i \in 1 .. Len(A) : A[i].type = "draw" /\ A[i].epoch = Cur =>
           /\ A[i].segment[2] <= n + 1 /\ A[i].segment[3] <= n + 1
           /\ IdOf(A[i].segment) \notin Owned.received
    BY <2>8
  <2>12. \A i, j \in 1 .. Len(A) : i < j /\ A[i].type = "draw" /\ A[i].epoch = Cur
           /\ A[j].type = "draw" /\ A[j].epoch = Cur => A[i].segment[3] # A[j].segment[3]
    BY <2>9
  <2> QED
    BY <1>1, <2>1, <2>5, <2>6, <2>10, <2>11, <2>12 DEF NumbersUp
<1> QED
  BY <1>7, <1>8, <1>9 DEF Numbered

\* A viewer in sync that draws is ahead of the sharer by that segment.
LEMMA DrawsKeepsLink ==
  ASSUME DrawTyped, SharerOK, NEW v \in Viewers, ViewerOK(v),
         NEW s, Draws(v, s), NEW m, m = Draw(picture[v].epoch, s), Submits(v, m), DeadKept
  PROVE  LinkOK(v)'
<1> DEFINE p == picture[v]   q == picture'[v]   R == toSharer[v]   S == toSharer'[v]   Q == toViewer[v]
<1> SUFFICES ASSUME InSync(v)'
             PROVE  /\ ToldState(v)'
                    /\ \/ Quiet(toViewer'[v]) /\ Full(q)
                       \/ ToldInk(v)' /\ TellsInk(v)' /\ (Quiet(toViewer'[v]) => ShownInk(v)')
  BY DEF LinkOK
<1>1. /\ ToldState(v)' /\ \A k : Ahead(v, k)' <=> Ahead(v, k)
      /\ \A k : Tracked(k)' <=> Tracked(k)
      /\ Owned' = Owned /\ Cur' = Cur /\ toViewer' = toViewer
      /\ Quiet(Q) => p.epoch = Cur /\ \A k : k[1] = v => Ahead(v, k)
      /\ \A x : Holding(S, x) <=> Holding(R, x) \/ m = x
      /\ \/ Quiet(Q) /\ Full(p)
         \/ ToldInk(v) /\ TellsInk(v) /\ (Quiet(Q) => ShownInk(v))
  BY SubmitsInSync DEF ViewerOK
<1>2. /\ s \in Inks /\ s[1] = v /\ StrokeOf(s)[1] = v /\ IdOf(s)[1] = v /\ q.removed = p.removed
      /\ \/ Adds(p, p.epoch, s) /\ q.ink = p.ink \cup {s} /\ q.received = p.received \cup {IdOf(s)}
         \/ ~ Adds(p, p.epoch, s) /\ q.ink = p.ink /\ q.received = p.received
      /\ p \in Scenes /\ R \in Seq(Ups) /\ S = Append(R, m) /\ m \in Ups
  BY SharerScene, Names DEF Draws, Submits
<1>3. \A f, k : m # Erase(f, k)
  BY <1>2, DrawPacket DEF Scenes
<1>4. m.epoch = p.epoch /\ m.segment = s
  BY DEF Draw
<1>5. PictureOK(p) /\ PictureOK(Owned)
  BY DEF ViewerOK, SharerOK
<1>6. ASSUME v \notin restarted, p.epoch = Cur
      PROVE  /\ IdOf(s) \notin p.received /\ StrokeOf(s) \notin p.removed
             /\ s[2] = p.next + 1 => StrokeOf(s) \notin Owned.removed
             /\ \A t \in Owned.ink : IdOf(t) # IdOf(s)
             /\ \A i \in 1 .. Len(R) : DrawsNow(R, i) => IdOf(R[i].segment) # IdOf(s)
  BY <1>5, <1>6, NewNumber DEF ViewerOK
<1>7. CASE Quiet(Q) /\ Full(p)
  <2>1. q.received = p.received
    BY <1>2, <1>7 DEF Adds
  <2>2. Full(q)
    BY <1>7, <2>1 DEF Full
  <2> QED
    BY <1>1, <1>7, <2>2
<1>8. CASE ToldInk(v) /\ TellsInk(v) /\ (Quiet(Q) => ShownInk(v)) /\ ~ (Quiet(Q) /\ Full(p))
  <2>1. ToldInk(v)'
    BY <1>1, <1>2, <1>8 DEF ToldInk
  <2>2. TellsInk(v)'
    BY <1>1, <1>8 DEF TellsInk
  <2>3. ASSUME Quiet(Q)  PROVE ShownInk(v)'
    <3>1. ShowsInk(v) /\ RemovesInk(v) /\ RepeatsInk(v) /\ ReceivesInk(v) /\ p.epoch = Cur
      BY <1>1, <1>8, <2>3 DEF ShownInk
    <3>2. m = Draw(Cur, s)
      BY <3>1
    <3>3. ShowsInk(v)'
      <4> SUFFICES ASSUME NEW t \in q.ink, Tracked(t)
                   PROVE  \/ t \in Owned.ink \/ Wiped(Q, Cur, StrokeOf(t))
                          \/ Ahead(v, t) /\ Holding(S, Draw(Cur, t)) /\ StrokeOf(t) \notin Owned.removed
        BY <1>1 DEF ShowsInk
      <4>1. CASE t \in p.ink
        BY <1>1, <3>1, <4>1 DEF ShowsInk
      <4>2. CASE t = s
        <5>1. Ahead(v, s) /\ Holding(S, Draw(Cur, s))
          BY <1>1, <1>2, <2>3, <3>2
        <5>2. CASE s[2] = p.next + 1
          BY <1>2, <1>6, <3>1, <4>2, <5>1, <5>2 DEF Tracked
        <5>3. CASE \E w \in p.ink : StrokeOf(w) = StrokeOf(s)
          <6>1. PICK w \in p.ink : StrokeOf(w) = StrokeOf(s)
            BY <5>3
          <6>2. w[1] = s[1]
            BY <6>1 DEF StrokeOf
          <6>3. \/ w \in Owned.ink \/ Wiped(Q, Cur, StrokeOf(w))
                \/ StrokeOf(w) \notin Owned.removed
            BY <3>1, <4>2, <6>2 DEF ShowsInk, Tracked
          <6>4. w \in Owned.ink => StrokeOf(w) \notin Owned.removed
            BY <1>5 DEF PictureOK
          <6> QED
            BY <4>2, <5>1, <6>1, <6>3, <6>4
        <5> QED
          BY <5>2, <5>3 DEF Draws
      <4> QED
        BY <1>2, <4>1, <4>2
    <3>4. RemovesInk(v)'
      <4> SUFFICES ASSUME NEW k \in p.removed, Tracked(k)
                   PROVE  Dead(k)' \/ (Ahead(v, k) /\ ErasedLast(S, Cur, k))
        BY <1>1, <1>2 DEF RemovesInk
      <4>1. Dead(k) \/ (Ahead(v, k) /\ ErasedLast(R, Cur, k))
        BY <3>1 DEF RemovesInk
      <4>2. k \in Marks
        BY <1>2 DEF Scenes
      <4>3. Ahead(v, k) => StrokeOf(s) # k
        BY <1>6, <3>1 DEF Ahead, Tracked
      <4>4. Ahead(v, k) => ~ DrawsStroke(m, Cur, k)
        BY <1>4, <4>3 DEF DrawsStroke
      <4>5. ErasedLast(R, Cur, k) /\ ~ DrawsStroke(m, Cur, k) => ErasedLast(S, Cur, k)
        <5> HIDE DEF R, S
        <5> QED
          BY <1>2, LastErasure
      <4> QED
        BY <1>1, <4>1, <4>2, <4>4, <4>5 DEF DeadKept
    <3>5. RepeatsInk(v)'
      <4> SUFFICES ASSUME NEW t \in Inks, Tracked(t), IdOf(t) \in q.received,
                          t \in Owned.ink \/ (t[1] = v /\ Holding(S, Draw(Cur, t)))
                   PROVE  t \in q.ink \/ StrokeOf(t) \in p.removed
        BY <1>1, <1>2 DEF RepeatsInk, Offered
      <4>1. Holding(S, Draw(Cur, t)) => t = s \/ Holding(R, Draw(Cur, t))
        <5>1. m = Draw(Cur, t) => s = t
          BY <1>4 DEF Draw
        <5> QED
          BY <1>1, <5>1
      <4>2. CASE IdOf(t) \in p.received /\ t # s
        <5>1. Offered(v, t)
          BY <4>1, <4>2 DEF Offered
        <5>2. t \in p.ink \/ StrokeOf(t) \in p.removed
          BY <3>1, <4>2, <5>1 DEF RepeatsInk
        <5> QED
          BY <1>2, <5>2
      <4>3. CASE IdOf(t) \in p.received /\ t = s
        BY <1>2, <1>6, <3>1, <4>3 DEF Tracked
      <4>4. CASE IdOf(t) \notin p.received
        <5>1. IdOf(t) = IdOf(s) /\ q.ink = p.ink \cup {s}
          BY <1>2, <4>4
        <5>2. t[1] = v
          BY <1>2, <5>1 DEF IdOf
        <5>3. t \notin Owned.ink
          BY <1>6, <3>1, <5>1, <5>2 DEF Tracked
        <5>4. ASSUME Holding(R, Draw(Cur, t))  PROVE FALSE
          <6>1. PICK i \in 1 .. Len(R) : R[i] = Draw(Cur, t)
            BY <5>4 DEF Holding
          <6>2. DrawsNow(R, i) /\ R[i].segment = t
            BY <6>1 DEF DrawsNow, Draw
          <6> QED
            BY <1>6, <3>1, <5>1, <5>2, <6>2 DEF Tracked
        <5> QED
          BY <4>1, <5>1, <5>3, <5>4
      <4> QED
        BY <4>2, <4>3, <4>4
    <3>6. ReceivesInk(v)'
      BY <1>1, <1>2, <3>1 DEF ReceivesInk
    <3> QED
      BY <3>3, <3>4, <3>5, <3>6 DEF ShownInk
  <2> HIDE DEF Q
  <2>4. Quiet(toViewer'[v]) => Quiet(Q)
    BY <1>1 DEF Q
  <2> QED
    BY <1>1, <2>1, <2>2, <2>3, <2>4
<1> QED
  BY <1>1, <1>7, <1>8

\* A stroke that is gone is not the one drawn.
LEMMA DrawsKeepsGone ==
  ASSUME DrawTyped, NEW v \in Viewers, NEW s, Draws(v, s),
         NEW m, m = Draw(picture[v].epoch, s), Submits(v, m),
         NEW k \in Marks, k[1] = v, Gone(v, k)
  PROVE  Dead(k)'
<1> DEFINE p == picture[v]   R == toSharer[v]   A == Append(R, m)
<1>1. /\ Owned' = Owned /\ Cur' = Cur
  BY SharerRestsKeeps DEF Submits
<1>2. /\ k \notin Strokes(Owned) /\ k[2] <= p.next /\ k[2] \in Nat /\ p.next \in Nat
      /\ p.epoch = Cur => k \notin Strokes(p)
      /\ Undrawn(R, Cur, k)
  BY DEF Gone, Draws, Marks
<1>3. /\ s[2] = p.next + 1 \/ \E t \in p.ink : StrokeOf(t) = StrokeOf(s)
      /\ picture'[v].ink \subseteq p.ink \cup {s} /\ picture'[v].next = p.next + 1
      /\ picture'[v].epoch = p.epoch
  BY DEF Draws, Submits
<1>4. p.epoch = Cur => StrokeOf(s) # k
  <2>1. s[2] = p.next + 1 => StrokeOf(s) # k
    BY <1>2 DEF StrokeOf
  <2>2. p.epoch = Cur => \A t \in p.ink : StrokeOf(t) # k
    BY <1>2, InStrokes
  <2> QED
    BY <1>3, <2>1, <2>2
<1>5. picture'[v].epoch = Cur => k \notin Strokes(picture'[v])
  BY <1>2, <1>3, <1>4, InStrokes
<1>6. Undrawn(toSharer'[v], Cur, k)
  <2>1. R \in Seq(Ups) /\ m \in Ups /\ toSharer'[v] = A
    BY SharerScene DEF Submits
  <2>2. ~ DrawsStroke(m, Cur, k)
    BY <1>4 DEF DrawsStroke, Draw
  <2> HIDE DEF R
  <2> QED
    BY <1>2, <2>1, <2>2, UndrawnPackets
<1>7. k[2] <= picture'[v].next
  BY <1>2, <1>3
<1>8. Gone(v, k)'
  BY <1>1, <1>2, <1>5, <1>6, <1>7 DEF Gone
<1> QED
  BY <1>8 DEF Dead

\* The viewer's picture becomes p, and it sends m.
LEMMA SubmitTyped ==
  ASSUME DrawTyped, NEW v \in Viewers, NEW p \in Scenes, picture' = [picture EXCEPT ![v] = p],
         NEW m \in Ups, Send(v, m), UNCHANGED <<session, toViewer, missed, restarted, mishaps>>
  PROVE  /\ DrawTyped' /\ SharerRests /\ picture'[v] = p /\ toSharer'[v] = Append(toSharer[v], m)
         /\ \A w \in Viewers \ {v} : Unmoved(w)
<1>1. /\ picture \in [Devices -> Scenes] /\ v \in Devices /\ v # Sharer /\ Sharer \in Devices
      /\ IsFiniteSet(picture[Sharer].ink) /\ Viewers \subseteq Devices
  BY SharerScene DEF DrawTyped, Devices
<1>2. /\ picture' \in [Devices -> Scenes] /\ picture'[v] = p
      /\ \A d \in Devices \ {v} : picture'[d] = picture[d]
  BY <1>1
<1>3. /\ toSharer' \in [Viewers -> Seq(Ups)] /\ toSharer'[v] = Append(toSharer[v], m)
      /\ \A w \in Viewers \ {v} : toSharer'[w] = toSharer[w]
  BY SentUp
<1>4. DrawTyped'
  BY <1>1, <1>2, <1>3 DEF DrawTyped
<1>5. SharerRests
  BY <1>1, <1>2 DEF SharerRests
<1>6. \A w \in Viewers \ {v} : Unmoved(w)
  BY <1>1, <1>2, <1>3 DEF Unmoved
<1> QED
  BY <1>2, <1>3, <1>4, <1>5, <1>6

\* A viewer draws: a preview, and a packet to the sharer.
LEMMA ViewerDrawsKeeps ==
  ASSUME DrawIInv, NEW v \in Viewers, ViewerDraws(v)
  PROVE  DrawIInv'
<1> DEFINE p == picture[v]   e == p.epoch
<1>1. /\ DrawTyped /\ SharerOK /\ ViewerOK(v) /\ p \in Scenes /\ v \in Devices
      /\ picture \in [Devices -> Scenes]
  BY SharerScene DEF DrawIInv, DrawTyped
<1>2. PICK s \in NewSegments(v) :
        /\ picture' = [picture EXCEPT ![v] =
             [AddSegment(picture[v], picture[v].epoch, s) EXCEPT !.next = @ + 1]]
        /\ Send(v, Draw(e, s))
  BY DEF ViewerDraws
<1>3. /\ v \in session.watching /\ p.enabled /\ ~ p.banned /\ p.next < MaxDrawn
      /\ UNCHANGED <<session, toViewer, missed, restarted, mishaps>>
  BY DEF ViewerDraws, MayDraw
<1>4. p.next \in Nat /\ p.next + 1 \in 0 .. MaxDrawn /\ e \in Nat
  BY <1>1, <1>3, DrawingAssumption DEF Scenes
<1>5. /\ s \in Inks /\ s[1] = v /\ s[3] = p.next + 1
      /\ s[2] = p.next + 1 \/ \E t \in p.ink : StrokeOf(t) = StrokeOf(s)
  <2>1. \/ s = <<v, p.next + 1, p.next + 1>>
        \/ \E t \in p.ink : t[1] = v /\ s = <<v, t[2], p.next + 1>>
    BY DEF NewSegments
  <2>2. \A t \in p.ink : t[2] \in Nat
    BY <1>1 DEF Scenes, Inks
  <2> QED
    BY <1>1, <1>4, <2>1, <2>2 DEF Inks, StrokeOf
<1> DEFINE a == AddSegment(p, e, s)   q == [a EXCEPT !.next = @ + 1]   m == Draw(e, s)
<1>6. /\ a \in Scenes /\ a.enabled = p.enabled /\ a.epoch = p.epoch /\ a.banned = p.banned
      /\ a.next = p.next /\ a.removed = p.removed
      /\ Adds(p, e, s) => a.ink = p.ink \cup {s} /\ a.received = p.received \cup {IdOf(s)}
      /\ ~ Adds(p, e, s) => a = p
  BY <1>1, <1>5, SegmentAdded
<1>7. PictureOK(a)
  BY <1>1, <1>5, AddedRight DEF ViewerOK
<1>8. picture' = [picture EXCEPT ![v] = q]
  BY <1>2
<1> HIDE DEF a
<1>9. /\ q \in Scenes /\ q.enabled = p.enabled /\ q.epoch = p.epoch /\ q.banned = p.banned
      /\ q.next = p.next + 1 /\ q.removed = p.removed /\ q.ink = a.ink /\ q.received = a.received
  BY <1>4, <1>6 DEF Scenes
<1>10. PictureOK(q)
  BY <1>6, <1>7, <1>9 DEF PictureOK
<1> HIDE DEF q
<1>11. /\ m \in Ups /\ m.type = "draw" /\ m.epoch = e /\ m.segment = s
       /\ \A on : m # Watch(on)
  BY <1>4, <1>5, DrawPacket
<1>12. m = Draw(picture[v].epoch, s) /\ Send(v, m)
  BY <1>2
<1> HIDE DEF m
<1>13. /\ DrawTyped' /\ SharerRests /\ picture'[v] = q /\ toSharer'[v] = Append(toSharer[v], m)
       /\ \A w \in Viewers \ {v} : Unmoved(w)
  BY <1>1, <1>3, <1>8, <1>9, <1>11, <1>12, SubmitTyped
<1>14. UpOK(v, m)
  BY <1>1, <1>5, <1>11 DEF UpOK, ViewerOK
<1>15. Submits(v, m)
  <2>1. /\ m \in Ups /\ m.epoch = picture[v].epoch /\ UpOK(v, m) /\ ~ picture[v].banned
        /\ \A on : m # Watch(on)
    BY <1>3, <1>11, <1>14
  <2>2. /\ picture'[v] \in Scenes /\ PictureOK(picture'[v])
        /\ picture'[v].enabled = picture[v].enabled /\ picture'[v].epoch = picture[v].epoch
        /\ picture'[v].banned = picture[v].banned
    BY <1>9, <1>10, <1>13
  <2>3. picture[v].next <= picture'[v].next
    BY <1>4, <1>9, <1>13
  <2> QED
    BY <1>3, <1>13, <2>1, <2>2, <2>3 DEF Submits
<1>16. Draws(v, s)
  BY <1>4, <1>5, <1>6, <1>9, <1>13 DEF Draws
<1>17. \A k \in Marks : k[1] = v /\ Tracked(k)' /\ Gone(v, k) => Dead(k)'
  BY <1>1, <1>12, <1>15, <1>16, DrawsKeepsGone
<1>18. ASSUME DeadKept  PROVE ViewerOK(v)'
  <2>1. LinkOK(v)'
    BY <1>1, <1>12, <1>15, <1>16, <1>18, DrawsKeepsLink
  <2>2. v \notin restarted => Numbered(v)'
    BY <1>1, <1>12, <1>15, <1>16, DrawsKeepsNumbers DEF ViewerOK
  <2> QED
    BY <1>1, <1>15, <1>18, <2>1, <2>2, SubmitKeeps
<1> QED
  BY <1>13, <1>17, <1>18, OneViewer

\* The viewer erases a stroke of its own.
Erases(v, k) ==
    LET p == picture[v] IN
    /\ k \in Marks /\ k[1] = v /\ k \in Strokes(p)
    /\ picture'[v].next = p.next /\ picture'[v].removed = p.removed \cup {k}
    /\ picture'[v].ink = {t \in p.ink : StrokeOf(t) # k} /\ picture'[v].received = p.received

\* The numbers stay right when a viewer erases.
LEMMA ErasesKeepsNumbers ==
  ASSUME DrawTyped, SharerOK, NEW v \in Viewers, Numbered(v),
         NEW k, Erases(v, k), NEW m, m = Erase(picture[v].epoch, k), Submits(v, m)
  PROVE  Numbered(v)'
<1> DEFINE p == picture[v]   n == p.next   R == toSharer[v]   A == Append(R, m)
<1>1. /\ NumbersHere(v) /\ NumbersUp(v) /\ NumbersThere(v)
      /\ Owned' = Owned /\ Cur' = Cur /\ \A j : Known(j)' <=> Known(j)
  BY SharerRestsKeeps DEF Numbered, Submits
<1>2. /\ picture'[v].next = n /\ picture'[v].removed = p.removed \cup {k}
      /\ picture'[v].ink = {t \in p.ink : StrokeOf(t) # k} /\ picture'[v].received = p.received
      /\ picture'[v].epoch = p.epoch /\ k \in Marks /\ k[1] = v /\ p.epoch \in Nat /\ Cur \in Nat
  BY SharerScene DEF Erases, Submits, Scenes
<1>3. /\ m.type = "erase" /\ m.epoch = p.epoch /\ m \in Ups
      /\ \A f, t : m # Draw(f, t)
      /\ \A f, j : m = Erase(f, j) <=> f = p.epoch /\ j = k
  BY <1>2, ErasePacket
<1>4. /\ R \in Seq(Ups) /\ toSharer'[v] = A
      /\ Len(A) = Len(R) + 1 /\ Len(R) \in Nat /\ A[Len(R) + 1] = m
      /\ \A i \in 1 .. Len(R) : A[i] = R[i]
  <2>1. R \in Seq(Ups) /\ toSharer'[v] = A
    BY SharerScene DEF Submits
  <2> QED
    BY <1>3, <2>1, PacketSent
<1>5. \A f, j : Holding(A, Erase(f, j)) <=> Holding(R, Erase(f, j)) \/ (f = p.epoch /\ j = k)
  BY <1>3, <1>4, HoldingSent
<1>6. p.epoch = Cur => k[2] <= n
  <2>1. PICK t \in p.ink : StrokeOf(t) = k
    BY InStrokes DEF Erases
  <2>2. t[1] = v /\ t[2] = k[2]
    BY <1>2, <2>1 DEF StrokeOf
  <2> QED
    BY <1>1, <2>2 DEF NumbersHere
<1>7. NumbersHere(v)'
  <2> SUFFICES ASSUME p.epoch = Cur
               PROVE  /\ \A t \in picture'[v].ink : t[1] = v => t[2] <= n
                      /\ \A x \in p.received : x[1] = v => x[2] <= n
                      /\ \A j \in p.removed \cup {k} : j[1] = v => j[2] <= n
                      /\ \A t \in picture'[v].ink : t[1] = v =>
                           Known(StrokeOf(t)) \/ ~ Holding(A, Erase(Cur, StrokeOf(t)))
    BY <1>1, <1>2, <1>4 DEF NumbersHere
  <2>1. \A t \in picture'[v].ink : t[1] = v => t[2] <= n
    BY <1>1, <1>2 DEF NumbersHere
  <2>2. \A x \in p.received : x[1] = v => x[2] <= n
    BY <1>1 DEF NumbersHere
  <2>3. \A j \in p.removed \cup {k} : j[1] = v => j[2] <= n
    BY <1>1, <1>6 DEF NumbersHere
  <2>4. \A t \in p.ink : t[1] = v => Known(StrokeOf(t)) \/ ~ Holding(R, Erase(Cur, StrokeOf(t)))
    BY <1>1 DEF NumbersHere
  <2>5. \A t \in picture'[v].ink : t[1] = v => Known(StrokeOf(t)) \/ ~ Holding(A, Erase(Cur, StrokeOf(t)))
    BY <1>2, <1>5, <2>4
  <2> QED
    BY <2>1, <2>2, <2>3, <2>5
<1>8. NumbersThere(v)'
  BY <1>1, <1>2 DEF NumbersThere
<1>9. NumbersUp(v)'
  <2>1. toSharer[v]' = A /\ picture[v].next' = n
    BY <1>2, <1>4
  <2>2. \A i \in 1 .. Len(R) : DrawsNow(R, i) =>
          /\ R[i].segment[2] <= n /\ R[i].segment[3] <= n
          /\ IdOf(R[i].segment) \notin Owned.received
    BY <1>1 DEF NumbersUp
  <2>3. \A i, j \in 1 .. Len(R) : i < j /\ DrawsNow(R, i) /\ DrawsNow(R, j) =>
          R[i].segment[3] # R[j].segment[3]
    BY <1>1 DEF NumbersUp
  <2>4. \A j \in Marks : Holding(A, Erase(Cur, j)) => j[2] <= n
    BY <1>1, <1>5, <1>6 DEF NumbersUp
  <2>5. ASSUME NEW j \in Marks, Again(A, Cur, j)  PROVE Known(j)
    <3>1. Again(R, Cur, j) \/ (Holding(R, Erase(Cur, j)) /\ DrawsStroke(m, Cur, j))
      BY <1>3, <1>4, <2>5, AgainSent
    <3>2. Again(R, Cur, j) => Known(j)
      BY <1>1 DEF NumbersUp
    <3> QED
      BY <1>3, <3>1, <3>2 DEF DrawsStroke
  <2>6. \A i : DrawsNow(toSharer[v], i)' <=> i \in 1 .. Len(A) /\ A[i].type = "draw" /\ A[i].epoch = Cur
    BY <1>1, <2>1 DEF DrawsNow
  <2>7. \A i : DrawsNow(R, i) <=> i \in 1 .. Len(R) /\ R[i].type = "draw" /\ R[i].epoch = Cur
    BY DEF DrawsNow
  <2> HIDE DEF A, R, p
  <2>8. ASSUME NEW i \in 1 .. Len(A), A[i].type = "draw"
        PROVE  i \in 1 .. Len(R) /\ A[i] = R[i]
    BY <1>3, <1>4, <2>8
  <2> HIDE DEF n
  <2>9. \A i \in 1 .. Len(A) : A[i].type = "draw" /\ A[i].epoch = Cur =>
          /\ A[i].segment[2] <= n /\ A[i].segment[3] <= n
          /\ IdOf(A[i].segment) \notin Owned.received
    BY <2>2, <2>7, <2>8
  <2>10. \A i, j \in 1 .. Len(A) : i < j /\ A[i].type = "draw" /\ A[i].epoch = Cur
           /\ A[j].type = "draw" /\ A[j].epoch = Cur => A[i].segment[3] # A[j].segment[3]
    BY <2>3, <2>7, <2>8
  <2> QED
    BY <1>1, <2>1, <2>4, <2>5, <2>6, <2>9, <2>10 DEF NumbersUp
<1> QED
  BY <1>7, <1>8, <1>9 DEF Numbered

\* A viewer in sync that erases is ahead of the sharer by that erasure.
LEMMA ErasesKeepsLink ==
  ASSUME DrawTyped, SharerOK, NEW v \in Viewers, ViewerOK(v),
         NEW k, Erases(v, k), NEW m, m = Erase(picture[v].epoch, k), Submits(v, m), DeadKept
  PROVE  LinkOK(v)'
<1> DEFINE p == picture[v]   q == picture'[v]   R == toSharer[v]   S == toSharer'[v]   Q == toViewer[v]
<1> SUFFICES ASSUME InSync(v)'
             PROVE  /\ ToldState(v)'
                    /\ \/ Quiet(toViewer'[v]) /\ Full(q)
                       \/ ToldInk(v)' /\ TellsInk(v)' /\ (Quiet(toViewer'[v]) => ShownInk(v)')
  BY DEF LinkOK
<1>1. /\ ToldState(v)' /\ \A j : Ahead(v, j)' <=> Ahead(v, j)
      /\ \A j : Tracked(j)' <=> Tracked(j)
      /\ Owned' = Owned /\ Cur' = Cur /\ toViewer' = toViewer
      /\ Quiet(Q) => p.epoch = Cur /\ \A j : j[1] = v => Ahead(v, j)
      /\ \A x : Holding(S, x) <=> Holding(R, x) \/ m = x
      /\ \/ Quiet(Q) /\ Full(p)
         \/ ToldInk(v) /\ TellsInk(v) /\ (Quiet(Q) => ShownInk(v))
  BY SubmitsInSync DEF ViewerOK
<1>2. /\ k \in Marks /\ k[1] = v /\ q.removed = p.removed \cup {k}
      /\ q.ink = {t \in p.ink : StrokeOf(t) # k} /\ q.received = p.received
      /\ p \in Scenes /\ R \in Seq(Ups) /\ S = Append(R, m) /\ m \in Ups
  BY SharerScene DEF Erases, Submits
<1>3. /\ \A f, t : m # Draw(f, t)
      /\ m.type = "erase"
  BY <1>2, ErasePacket DEF Scenes
<1>4. \A t : StrokeOf(t) = k => t[1] = v
  BY <1>2 DEF StrokeOf
<1>5. Full(p) => Full(q)
  BY <1>2 DEF Full
<1>6. ASSUME ToldInk(v)  PROVE ToldInk(v)'
  <2> SUFFICES ASSUME NEW t \in Owned.ink, Tracked(t)
               PROVE  \/ Quiet(Q) /\ t \in q.ink
                      \/ Drawn(Q, Cur, t)
                      \/ Ahead(v, t) /\ Holding(S, Erase(Cur, StrokeOf(t)))
    BY <1>1 DEF ToldInk
  <2>1. \/ Quiet(Q) /\ t \in p.ink
        \/ Drawn(Q, Cur, t)
        \/ Ahead(v, t) /\ Holding(R, Erase(Cur, StrokeOf(t)))
    BY <1>6 DEF ToldInk
  <2>2. Holding(R, Erase(Cur, StrokeOf(t))) => Holding(S, Erase(Cur, StrokeOf(t)))
    BY <1>1
  <2>3. Quiet(Q) /\ StrokeOf(t) = k => Ahead(v, t) /\ Holding(S, Erase(Cur, StrokeOf(t)))
    BY <1>1, <1>4
  <2> HIDE DEF Q, R, S
  <2> QED
    BY <1>2, <2>1, <2>2, <2>3
<1>7. TellsInk(v) => TellsInk(v)'
  BY <1>1 DEF TellsInk
<1>8. ASSUME ShownInk(v), Quiet(Q)  PROVE ShownInk(v)'
  <2>1. ShowsInk(v) /\ RemovesInk(v) /\ RepeatsInk(v) /\ ReceivesInk(v) /\ p.epoch = Cur
    BY <1>1, <1>8 DEF ShownInk
  <2>2. ShowsInk(v)'
    BY <1>1, <1>2, <2>1 DEF ShowsInk
  <2>3. RemovesInk(v)'
    <3> SUFFICES ASSUME NEW j \in p.removed \cup {k}, Tracked(j)
                 PROVE  Dead(j)' \/ (Ahead(v, j) /\ ErasedLast(S, Cur, j))
      BY <1>1, <1>2 DEF RemovesInk
    <3>1. CASE j \in p.removed
      <4>1. Dead(j) \/ (Ahead(v, j) /\ ErasedLast(R, Cur, j))
        BY <2>1, <3>1 DEF RemovesInk
      <4>2. j \in Marks
        BY <1>2, <3>1 DEF Scenes
      <4>3. ErasedLast(R, Cur, j) => ErasedLast(S, Cur, j)
        <5>1. ~ DrawsStroke(m, Cur, j)
          BY <1>3 DEF DrawsStroke
        <5> HIDE DEF R, S
        <5> QED
          BY <1>2, <5>1, LastErasure
      <4> QED
        BY <1>1, <4>1, <4>2, <4>3 DEF DeadKept
    <3>2. CASE j = k
      <4>1. m = Erase(Cur, k)
        BY <2>1
      <4> HIDE DEF R, S
      <4>2. ErasedLast(S, Cur, k)
        BY <1>2, <4>1, LastErasure
      <4> QED
        BY <1>1, <1>2, <1>8, <3>2, <4>2
    <3> QED
      BY <3>1, <3>2
  <2>4. RepeatsInk(v)'
    <3> SUFFICES ASSUME NEW t \in Inks, Tracked(t), IdOf(t) \in p.received,
                        t \in Owned.ink \/ (t[1] = v /\ Holding(S, Draw(Cur, t)))
                 PROVE  t \in q.ink \/ StrokeOf(t) \in p.removed \cup {k}
      BY <1>1, <1>2 DEF RepeatsInk, Offered
    <3>1. Holding(S, Draw(Cur, t)) => Holding(R, Draw(Cur, t))
      BY <1>1, <1>3
    <3>2. Offered(v, t)
      BY <3>1 DEF Offered
    <3> QED
      BY <1>2, <2>1, <3>2 DEF RepeatsInk
  <2>5. ReceivesInk(v)'
    BY <1>1, <1>2, <2>1 DEF ReceivesInk
  <2> QED
    BY <2>2, <2>3, <2>4, <2>5 DEF ShownInk
<1>9. Quiet(toViewer'[v]) <=> Quiet(Q)
  BY <1>1
<1> HIDE DEF Q, q, p
<1> QED
  BY <1>1, <1>5, <1>6, <1>7, <1>8, <1>9

\* A stroke that is gone is not the one erased.
LEMMA ErasesKeepsGone ==
  ASSUME DrawTyped, NEW v \in Viewers, NEW k, Erases(v, k),
         NEW m, m = Erase(picture[v].epoch, k), Submits(v, m),
         NEW j \in Marks, j[1] = v, Gone(v, j)
  PROVE  Dead(j)'
<1> DEFINE p == picture[v]   R == toSharer[v]   A == Append(R, m)
<1>1. /\ Owned' = Owned /\ Cur' = Cur
  BY SharerRestsKeeps DEF Submits
<1>2. /\ j \notin Strokes(Owned) /\ j[2] <= p.next
      /\ p.epoch = Cur => j \notin Strokes(p)
      /\ Undrawn(R, Cur, j)
  BY DEF Gone
<1>3. /\ picture'[v].ink \subseteq p.ink /\ picture'[v].next = p.next
      /\ picture'[v].epoch = p.epoch
  BY DEF Erases, Submits
<1>4. picture'[v].epoch = Cur => j \notin Strokes(picture'[v])
  BY <1>2, <1>3, InStrokes
<1>5. Undrawn(toSharer'[v], Cur, j)
  <2>1. R \in Seq(Ups) /\ m \in Ups /\ toSharer'[v] = A
    BY SharerScene DEF Submits
  <2>2. ~ DrawsStroke(m, Cur, j)
    BY NoDrawing
  <2> HIDE DEF R
  <2> QED
    BY <1>2, <2>1, <2>2, UndrawnPackets
<1>6. Gone(v, j)'
  BY <1>1, <1>2, <1>3, <1>4, <1>5 DEF Gone
<1> QED
  BY <1>6 DEF Dead

\* A viewer erases a stroke of its own, and tells the sharer.
LEMMA ViewerErasesKeeps ==
  ASSUME DrawIInv, NEW v \in Viewers, ViewerErases(v)
  PROVE  DrawIInv'
<1> DEFINE p == picture[v]   e == p.epoch
<1>1. /\ DrawTyped /\ SharerOK /\ ViewerOK(v) /\ p \in Scenes /\ v \in Devices
      /\ picture \in [Devices -> Scenes]
  BY SharerScene DEF DrawIInv, DrawTyped
<1>2. PICK k \in Strokes(p) :
        /\ k[1] = v
        /\ picture' = [picture EXCEPT ![v] = RemoveStroke(p, k[1], k[2])]
        /\ Send(v, Erase(e, k))
  BY DEF ViewerErases
<1>3. /\ ~ p.banned /\ UNCHANGED <<session, toViewer, missed, restarted, mishaps>>
  BY DEF ViewerErases, MayDraw
<1>4. p.next \in Nat /\ e \in Nat
  BY <1>1 DEF Scenes
<1>5. k \in Marks
  <2>1. PICK t \in p.ink : StrokeOf(t) = k
    BY InStrokes
  <2>2. t \in Inks
    BY <1>1 DEF Scenes
  <2> QED
    BY <2>1, <2>2, Names
<1> DEFINE q == RemoveStroke(p, k[1], k[2])   m == Erase(e, k)
<1>6. /\ q \in Scenes /\ q.enabled = p.enabled /\ q.epoch = p.epoch /\ q.banned = p.banned
      /\ q.next = p.next /\ q.received = p.received
      /\ q.ink = {t \in p.ink : StrokeOf(t) # k}
      /\ q.removed = p.removed \cup {k}
  BY <1>1, <1>5, StrokeRemoved
<1>7. PictureOK(q)
  BY <1>1, <1>5, RemovedRight DEF ViewerOK
<1>8. picture' = [picture EXCEPT ![v] = q]
  BY <1>2
<1> HIDE DEF q
<1>11. /\ m \in Ups /\ m.type = "erase" /\ m.epoch = e /\ m.stroke = k
       /\ \A on : m # Watch(on)
  BY <1>4, <1>5, ErasePacket
<1>12. m = Erase(picture[v].epoch, k) /\ Send(v, m)
  BY <1>2
<1> HIDE DEF m
<1>13. /\ DrawTyped' /\ SharerRests /\ picture'[v] = q /\ toSharer'[v] = Append(toSharer[v], m)
       /\ \A w \in Viewers \ {v} : Unmoved(w)
  BY <1>1, <1>3, <1>6, <1>8, <1>11, <1>12, SubmitTyped
<1>14. UpOK(v, m)
  BY <1>1, <1>2, <1>11 DEF UpOK, ViewerOK
<1>15. Submits(v, m)
  <2>1. /\ m \in Ups /\ m.epoch = picture[v].epoch /\ UpOK(v, m) /\ ~ picture[v].banned
        /\ \A on : m # Watch(on)
    BY <1>3, <1>11, <1>14
  <2>2. /\ picture'[v] \in Scenes /\ PictureOK(picture'[v])
        /\ picture'[v].enabled = picture[v].enabled /\ picture'[v].epoch = picture[v].epoch
        /\ picture'[v].banned = picture[v].banned
    BY <1>6, <1>7, <1>13
  <2>3. picture[v].next <= picture'[v].next
    BY <1>4, <1>6, <1>13
  <2> QED
    BY <1>3, <1>13, <2>1, <2>2, <2>3 DEF Submits
<1>16. Erases(v, k)
  BY <1>2, <1>5, <1>6, <1>13 DEF Erases
<1>17. \A j \in Marks : j[1] = v /\ Tracked(j)' /\ Gone(v, j) => Dead(j)'
  BY <1>1, <1>12, <1>15, <1>16, ErasesKeepsGone
<1>18. ASSUME DeadKept  PROVE ViewerOK(v)'
  <2>1. LinkOK(v)'
    BY <1>1, <1>12, <1>15, <1>16, <1>18, ErasesKeepsLink
  <2>2. v \notin restarted => Numbered(v)'
    BY <1>1, <1>12, <1>15, <1>16, ErasesKeepsNumbers DEF ViewerOK
  <2> QED
    BY <1>1, <1>15, <1>18, <2>1, <2>2, SubmitKeeps
<1> QED
  BY <1>13, <1>17, <1>18, OneViewer

-----------------------------------------------------------------------------
(* A viewer receives.                                                        *)

\* A viewer who watches takes packet m.
Hears(v, m) ==
    /\ toViewer[v] # <<>> /\ Head(toViewer[v]) = m /\ toViewer'[v] = Tail(toViewer[v])
    /\ v \in session.watching
    /\ session'.viewers = session.viewers /\ session'.banned = session.banned
    /\ session'.watching = session.watching
    /\ m.type = "state" => session'.attempts[v] = MaxAttempts
    /\ m.type # "state" => session'.attempts[v] = session.attempts[v]
    /\ SharerRests /\ picture'[v] \in Scenes /\ picture'[v].next = picture[v].next
    /\ UNCHANGED <<toSharer, missed, restarted, mishaps>>

\* What it was of the sequence.
LEMMA HeardPacket ==
  ASSUME DrawTyped, NEW v \in Viewers, PacketsOK(v), NEW m, Hears(v, m)
  PROVE  /\ m \in Downs /\ DownOK(m) /\ Holding(toViewer[v], m)
         /\ StateAt(toViewer[v], 1) <=> m.type = "state"
<1> DEFINE Q == toViewer[v]
<1>1. Q \in Seq(Downs) /\ Q # <<>> /\ Head(Q) = m
  BY SharerScene DEF Hears
<1>2. \A i \in 1 .. Len(Q) : DownOK(Q[i])
  BY DEF PacketsOK
<1> HIDE DEF Q
<1>3. Len(Q) \in Nat \ {0} /\ Head(Q) = Q[1] /\ Q[1] \in Downs
  BY <1>1, PacketTaken
<1>4. Holding(Q, m)
  BY <1>1, <1>3 DEF Holding
<1> QED
  BY <1>1, <1>2, <1>3, <1>4 DEF StateAt, Q

\* What hearing it does not change.
LEMMA HearsKeeps ==
  ASSUME DrawTyped, SharerOK, NEW v \in Viewers, ViewerOK(v), NEW m, Hears(v, m), DeadKept,
         PictureOK(picture'[v]), picture'[v].epoch <= Cur,
         v \notin restarted => NumbersHere(v)', LinkOK(v)'
  PROVE  ViewerOK(v)'
<1>1. /\ PacketsOK(v) /\ AsksAgain(v) /\ ErasuresOK(v) /\ (v \notin restarted => Numbered(v))
  BY DEF ViewerOK
<1>2. /\ Owned' = Owned /\ Cur' = Cur /\ \A k : Tracked(k)' => Tracked(k)
  BY SharerRestsKeeps DEF Hears
<1>3. Up(v) /\ Down(v) /\ SharerRests
  BY DEF Hears, Up, Down
<1>4. /\ \A i \in 1 .. Len(toSharer'[v]) : UpOK(v, toSharer[v][i])'
      /\ NumbersUp(v) /\ picture'[v].next = picture[v].next => NumbersUp(v)'
  BY <1>1, <1>3, UpKept
<1>5. /\ \A i \in 1 .. Len(toViewer'[v]) : DownOK(toViewer[v][i])'
      /\ \A e, k : Holding(toViewer'[v], Erase(e, k)) => Holding(toViewer[v], Erase(e, k))
  BY <1>1, <1>3, DownKept
<1>6. PacketsOK(v)'
  BY <1>4, <1>5 DEF PacketsOK
<1>7. ErasuresOK(v)'
  BY <1>1, <1>2, <1>5 DEF ErasuresOK, DeadKept
<1>8. v \notin restarted' => Numbered(v)'
  <2> SUFFICES ASSUME v \notin restarted  PROVE Numbered(v)'
    BY DEF Hears
  <2>1. NumbersUp(v) /\ NumbersThere(v) /\ picture'[v].next = picture[v].next
    BY <1>1 DEF Numbered, Hears
  <2>2. NumbersThere(v)'
    BY <1>2, <2>1 DEF NumbersThere
  <2> QED
    BY <1>4, <2>1, <2>2 DEF Numbered
<1>9. AsksAgain(v)'
  <2>1. CASE m.type = "state"
    <3>1. session'.attempts[v] = MaxAttempts /\ ~ (MaxAttempts < MaxAttempts)
      BY <2>1, DrawingAssumption DEF Hears
    <3> QED
      BY <3>1 DEF AsksAgain
  <2>2. CASE m.type # "state"
    <3> DEFINE Q == toViewer[v]
    <3>1. Q \in Seq(Downs) /\ Q # <<>> /\ toViewer'[v] = Tail(Q)
      BY SharerScene DEF Hears
    <3>2. ~ StateAt(Q, 1)
      BY <1>1, <2>2, HeardPacket
    <3> HIDE DEF Q
    <3>3. Quiet(Q) <=> Quiet(Tail(Q))
      BY <3>1, <3>2, LateTaken
    <3> QED
      BY <1>1, <2>2, <3>1, <3>3 DEF AsksAgain, Asked, Hears, Q
  <2> QED
    BY <2>1, <2>2
<1> QED
  BY <1>2, <1>6, <1>7, <1>8, <1>9 DEF ViewerOK

\* What remains to be heard once a packet is.
LEMMA PacketTakenTells ==
  ASSUME NEW Q \in Seq(Downs), Q # <<>>, NEW e
  PROVE  /\ \A s : Drawn(Q, e, s) <=> Drawn(Tail(Q), e, s) \/ (Quiet(Q) /\ Head(Q) = Draw(e, s))
         /\ \A k : Wiped(Q, e, k) <=> Wiped(Tail(Q), e, k) \/ (Quiet(Q) /\ Head(Q) = Erase(e, k))
<1>1. ASSUME NEW s
      PROVE  Drawn(Q, e, s) <=> Drawn(Tail(Q), e, s) \/ (Quiet(Q) /\ Head(Q) = Draw(e, s))
  BY DrawTaken
<1>2. ASSUME NEW k
      PROVE  Wiped(Q, e, k) <=> Wiped(Tail(Q), e, k) \/ (Quiet(Q) /\ Head(Q) = Erase(e, k))
  BY DrawTaken
<1> QED
  BY <1>1, <1>2

\* What a viewer in sync is still told.
LEMMA HearsInSync ==
  ASSUME DrawTyped, NEW v \in Viewers, PacketsOK(v), LinkOK(v), NEW m, Hears(v, m), InSync(v)'
  PROVE  LET Q == toViewer[v]   T == Tail(Q)   b == v \in session.banned IN
         /\ Owned' = Owned /\ Cur' = Cur /\ toSharer' = toSharer /\ toViewer'[v] = T
         /\ \A k : Ahead(v, k)' <=> Ahead(v, k)
         /\ \A k : Tracked(k)' <=> Tracked(k)
         /\ Quiet(Q) <=> Quiet(T) /\ m.type # "state"
         /\ \A t : Drawn(Q, Cur, t) <=> Drawn(T, Cur, t) \/ (Quiet(Q) /\ m = Draw(Cur, t))
         /\ \A k : Wiped(Q, Cur, k) => Wiped(T, Cur, k) \/ m = Erase(Cur, k)
         /\ \A t : Swept(Q, Cur, t) =>
              Swept(T, Cur, t) /\ (Quiet(Q) /\ m = Draw(Cur, t) => Wiped(T, Cur, StrokeOf(t)))
         /\ Quiet(Q) => /\ picture[v].enabled = Owned.enabled /\ picture[v].epoch = Cur
                        /\ picture[v].banned = b
         /\ m.type = "state" /\ Quiet(T) => m = State(Owned, b)
         /\ \/ Quiet(Q) /\ Full(picture[v])
            \/ ToldInk(v) /\ TellsInk(v) /\ (Quiet(Q) => ShownInk(v))
         /\ LastState(T, State(Owned, b)) /\ (v \in session'.banned <=> v \in session.banned)
<1> DEFINE Q == toViewer[v]   T == Tail(Q)   b == v \in session.banned
<1>1. /\ Owned' = Owned /\ Cur' = Cur /\ toSharer' = toSharer /\ toViewer'[v] = T
      /\ session'.viewers = session.viewers /\ session'.banned = session.banned
      /\ session'.watching = session.watching /\ missed' = missed /\ restarted' = restarted
      /\ Q \in Seq(Downs) /\ Q # <<>> /\ Head(Q) = m
  BY SharerRestsKeeps, SharerScene DEF Hears
<1>2. InSync(v)
  BY <1>1 DEF InSync, Asked
<1>3. /\ ToldState(v)
      /\ \/ Quiet(Q) /\ Full(picture[v])
         \/ ToldInk(v) /\ TellsInk(v) /\ (Quiet(Q) => ShownInk(v))
  BY <1>2 DEF LinkOK
<1>4. /\ \A k : Ahead(v, k)' <=> Ahead(v, k)
      /\ \A k : Tracked(k)' <=> Tracked(k)
  BY <1>1 DEF Ahead, Tracked
<1>5. /\ LastState(Q, State(Owned, b))
      /\ Quiet(Q) => /\ picture[v].enabled = Owned.enabled /\ picture[v].epoch = Cur
                     /\ picture[v].banned = b
  BY <1>3 DEF ToldState
<1>6. StateAt(Q, 1) <=> m.type = "state"
  BY HeardPacket
<1> HIDE DEF Q
<1>7. Quiet(Q) <=> Quiet(T) /\ m.type # "state"
  BY <1>1, <1>6, LateTaken
<1>8. \A t : Drawn(Q, Cur, t) <=> Drawn(Tail(Q), Cur, t) \/ (Quiet(Q) /\ Head(Q) = Draw(Cur, t))
  BY <1>1, PacketTakenTells
<1>9. \A k : Wiped(Q, Cur, k) => Wiped(Tail(Q), Cur, k) \/ Head(Q) = Erase(Cur, k)
  BY <1>1, PacketTakenTells
<1>10. ASSUME NEW t, Swept(Q, Cur, t)
       PROVE  Swept(T, Cur, t) /\ (Quiet(Q) /\ m = Draw(Cur, t) => Wiped(T, Cur, StrokeOf(t)))
  BY <1>1, <1>10, SweptTaken
<1>11. /\ LastState(T, State(Owned, b))
       /\ m.type = "state" /\ Quiet(T) => m = State(Owned, b)
  BY <1>1, <1>5, <1>6, StateTaken
<1> QED
  BY <1>1, <1>3, <1>4, <1>5, <1>7, <1>8, <1>9, <1>10, <1>11 DEF Q

\* What is heard keeps the link right: it is enough to look at the viewers
\* to whom no State is underway and whose record has room.
LEMMA HearsLink ==
  ASSUME DrawTyped, NEW v \in Viewers, PacketsOK(v), LinkOK(v), NEW m, Hears(v, m),
         m.type = "state" =>
           /\ picture'[v].enabled = m.on /\ picture'[v].epoch = m.epoch
           /\ picture'[v].banned = m.banned /\ picture'[v].ink = {}
           /\ picture'[v].received = {} /\ picture'[v].removed = {},
         m.type # "state" =>
           /\ picture'[v].enabled = picture[v].enabled /\ picture'[v].epoch = picture[v].epoch
           /\ picture'[v].banned = picture[v].banned
           /\ Full(picture[v]) => Full(picture'[v]),
         m.type # "state" /\ InSync(v)' /\ Quiet(toViewer[v]) /\ ~ Full(picture[v])
           /\ ToldInk(v) /\ TellsInk(v) /\ ShownInk(v) => ToldInk(v)' /\ ShownInk(v)'
  PROVE  LinkOK(v)'
<1> DEFINE Q == toViewer[v]   T == Tail(Q)   p == picture[v]   q == picture'[v]
           b == v \in session.banned
<1> SUFFICES ASSUME InSync(v)'
             PROVE  /\ ToldState(v)'
                    /\ \/ Quiet(toViewer'[v]) /\ Full(q)
                       \/ ToldInk(v)' /\ TellsInk(v)' /\ (Quiet(toViewer'[v]) => ShownInk(v)')
  BY DEF LinkOK
<1>1. /\ Owned' = Owned /\ Cur' = Cur /\ toSharer' = toSharer /\ toViewer'[v] = T
      /\ \A k : Ahead(v, k)' <=> Ahead(v, k)
      /\ \A k : Tracked(k)' <=> Tracked(k)
      /\ Quiet(Q) <=> Quiet(T) /\ m.type # "state"
      /\ \A t : Drawn(Q, Cur, t) <=> Drawn(T, Cur, t) \/ (Quiet(Q) /\ m = Draw(Cur, t))
      /\ \A t : Swept(Q, Cur, t) => Swept(T, Cur, t)
      /\ Quiet(Q) => p.enabled = Owned.enabled /\ p.epoch = Cur /\ p.banned = b
      /\ m.type = "state" /\ Quiet(T) => m = State(Owned, b)
      /\ \/ Quiet(Q) /\ Full(p)
         \/ ToldInk(v) /\ TellsInk(v) /\ (Quiet(Q) => ShownInk(v))
      /\ LastState(T, State(Owned, b)) /\ (v \in session'.banned <=> b)
  BY HearsInSync
<1> HIDE DEF T
<1>2. ToldState(v)'
  <2>1. CASE m.type = "state"
    <3>1. Quiet(T) => q.enabled = Owned.enabled /\ q.epoch = Cur /\ q.banned = b
      BY <1>1, <2>1 DEF State, Cur
    <3> QED
      BY <1>1, <3>1 DEF ToldState
  <2>2. CASE m.type # "state"
    BY <1>1, <2>2 DEF ToldState
  <2> QED
    BY <2>1, <2>2
<1>3. TellsInk(v) => TellsInk(v)'
  BY <1>1 DEF TellsInk
<1>4. ToldInk(v) /\ ~ Quiet(Q) => ToldInk(v)'
  BY <1>1 DEF ToldInk
<1>5. m.type = "state" => ShownInk(v)'
  <2> SUFFICES ASSUME q.ink = {}, q.received = {}, q.removed = {}  PROVE ShownInk(v)'
    OBVIOUS
  <2>1. ShowsInk(v)' /\ RemovesInk(v)' /\ RepeatsInk(v)' /\ ReceivesInk(v)'
    BY DEF ShowsInk, RemovesInk, RepeatsInk, ReceivesInk
  <2> QED
    BY <2>1 DEF ShownInk
<1>6. CASE Quiet(Q) /\ Full(p)
  BY <1>1, <1>2, <1>6
<1>7. CASE Quiet(Q) /\ ~ Full(p)
  BY <1>1, <1>2, <1>3, <1>7
<1>8. CASE ~ Quiet(Q)
  BY <1>1, <1>2, <1>3, <1>4, <1>5, <1>8
<1> QED
  BY <1>6, <1>7, <1>8

\* A viewer hears the state of the drawing, and begins with no ink.
LEMMA StateHeardKeeps ==
  ASSUME DrawTyped, SharerOK, NEW v \in Viewers, ViewerOK(v), NEW m, Hears(v, m),
         m.type = "state",
         picture'[v].enabled = m.on, picture'[v].epoch = m.epoch, picture'[v].banned = m.banned,
         picture'[v].ink = {}, picture'[v].received = {}, picture'[v].removed = {}
  PROVE  /\ DeadKept => ViewerOK(v)'
         /\ \A k \in Marks : k[1] = v /\ Gone(v, k) => Dead(k)'
<1>1. DownOK(m)
  BY HeardPacket DEF ViewerOK
<1>2. Owned' = Owned /\ Cur' = Cur
  BY SharerRestsKeeps DEF Hears
<1>3. PictureOK(picture'[v]) /\ picture'[v].epoch <= Cur
  BY <1>1 DEF PictureOK, DownOK
<1>4. NumbersHere(v)'
  BY DEF NumbersHere
<1>5. LinkOK(v)'
  BY HearsLink DEF ViewerOK
<1>6. \A k : k \notin Strokes(picture'[v])
  BY InStrokes
<1>7. ASSUME NEW k \in Marks, k[1] = v, Gone(v, k)  PROVE Dead(k)'
  <2>1. toSharer' = toSharer /\ picture'[v].next = picture[v].next
    BY DEF Hears
  <2>2. Gone(v, k)'
    BY <1>2, <1>6, <1>7, <2>1 DEF Gone
  <2> QED
    BY <1>7, <2>2 DEF Dead
<1> QED
  BY <1>3, <1>4, <1>5, <1>7, HearsKeeps

\* The viewer hears of segment s, of the drawing f.
HearsOf(v, f, s) ==
    LET p == picture[v]   q == picture'[v] IN
    /\ f \in Nat /\ s \in Inks
    /\ q.enabled = p.enabled /\ q.epoch = p.epoch /\ q.banned = p.banned /\ q.removed = p.removed
    /\ \/ /\ p.enabled /\ f = p.epoch /\ ~ Full(p)
          /\ q.ink = p.ink \cup {s} /\ q.received = p.received \cup {IdOf(s)}
       \/ /\ p.enabled /\ f = p.epoch /\ ~ Full(p) =>
               StrokeOf(s) \in p.removed \/ IdOf(s) \in p.received
          /\ q.ink = p.ink /\ q.received = p.received

\* What is known of a segment that is told.
LEMMA ToldKnown ==
  ASSUME DrawTyped, NEW v \in Viewers, PacketsOK(v), NEW m, Hears(v, m),
         NEW f, NEW s, m = Draw(f, s), f = Cur
  PROVE  /\ Known(StrokeOf(s)) /\ IdOf(s) \in Owned.received
         /\ \A t \in Owned.ink : IdOf(t) = IdOf(s) => t = s
<1>1. DownOK(m)
  BY HeardPacket
<1>2. m.type = "draw" /\ m.epoch = Cur /\ m.segment = s
  BY DEF Draw
<1> QED
  BY <1>1, <1>2 DEF DownOK

\* A viewer is told only numbers that it has used itself.
LEMMA DrawHeardNumbers ==
  ASSUME DrawTyped, NEW v \in Viewers, PacketsOK(v), NEW m, Hears(v, m),
         NEW f, NEW s, m = Draw(f, s), HearsOf(v, f, s), Numbered(v)
  PROVE  NumbersHere(v)'
<1> DEFINE p == picture[v]   q == picture'[v]   n == p.next
<1>1. NumbersHere(v) /\ NumbersThere(v)
  BY DEF Numbered
<1>2. /\ Owned' = Owned /\ Cur' = Cur /\ \A k : Known(k)' <=> Known(k)
      /\ toSharer' = toSharer /\ q.next = n
  BY SharerRestsKeeps DEF Hears
<1>3. /\ q.epoch = p.epoch /\ q.removed = p.removed
      /\ q.ink \subseteq p.ink \cup {s} /\ q.received \subseteq p.received \cup {IdOf(s)}
      /\ q.ink # p.ink \/ q.received # p.received => f = p.epoch
      /\ StrokeOf(s)[1] = s[1] /\ StrokeOf(s)[2] = s[2] /\ IdOf(s)[1] = s[1]
  BY Names DEF HearsOf
<1> SUFFICES ASSUME p.epoch = Cur
             PROVE  /\ \A t \in q.ink : t[1] = v => t[2] <= n
                    /\ \A x \in q.received : x[1] = v => x[2] <= n
                    /\ \A k \in q.removed : k[1] = v => k[2] <= n
                    /\ \A t \in q.ink : t[1] = v =>
                         Known(StrokeOf(t)) \/ ~ Holding(toSharer[v], Erase(Cur, StrokeOf(t)))
  BY <1>2, <1>3 DEF NumbersHere
<1>4. f = Cur => Known(StrokeOf(s)) /\ IdOf(s) \in Owned.received
  BY ToldKnown
<1>5. f = Cur /\ s[1] = v => s[2] <= n /\ IdOf(s)[2] <= n
  <2> SUFFICES ASSUME f = Cur, s[1] = v  PROVE s[2] <= n /\ IdOf(s)[2] <= n
    OBVIOUS
  <2>1. IdOf(s)[2] <= n
    BY <1>1, <1>3, <1>4 DEF NumbersThere
  <2>2. CASE StrokeOf(s) \in Owned.removed
    BY <1>1, <1>3, <2>1, <2>2 DEF NumbersThere
  <2>3. CASE StrokeOf(s) \in Strokes(Owned)
    <3>1. PICK t \in Owned.ink : StrokeOf(t) = StrokeOf(s)
      BY <2>3, InStrokes
    <3>2. t[1] = s[1] /\ t[2] = s[2]
      BY <3>1 DEF StrokeOf
    <3> QED
      BY <1>1, <2>1, <3>1, <3>2 DEF NumbersThere
  <2> QED
    BY <1>4, <2>2, <2>3 DEF Known
<1>6. \A t \in q.ink : t \in p.ink \/ (t = s /\ f = Cur)
  BY <1>3
<1>7. \A x \in q.received : x \in p.received \/ (x = IdOf(s) /\ f = Cur)
  BY <1>3
<1> HIDE DEF q
<1>8. /\ \A t \in p.ink : t[1] = v => t[2] <= n
      /\ \A x \in p.received : x[1] = v => x[2] <= n
      /\ \A k \in p.removed : k[1] = v => k[2] <= n
      /\ \A t \in p.ink : t[1] = v =>
           Known(StrokeOf(t)) \/ ~ Holding(toSharer[v], Erase(Cur, StrokeOf(t)))
  BY <1>1 DEF NumbersHere
<1>9. \A t \in q.ink : t[1] = v => t[2] <= n
  BY <1>5, <1>6, <1>8
<1>10. \A x \in q.received : x[1] = v => x[2] <= n
  BY <1>3, <1>5, <1>7, <1>8
<1>11. \A t \in q.ink : t[1] = v =>
         Known(StrokeOf(t)) \/ ~ Holding(toSharer[v], Erase(Cur, StrokeOf(t)))
  BY <1>4, <1>6, <1>8
<1> QED
  BY <1>3, <1>8, <1>9, <1>10, <1>11

\* A stroke that is gone is not told, unless it was erased.
LEMMA DrawHeardGone ==
  ASSUME DrawTyped, NEW v \in Viewers, PacketsOK(v), NEW m, Hears(v, m),
         NEW f, NEW s, m = Draw(f, s), HearsOf(v, f, s),
         NEW k \in Marks, k[1] = v, Gone(v, k)
  PROVE  Dead(k)'
<1> DEFINE p == picture[v]   q == picture'[v]
<1>1. /\ Owned' = Owned /\ Cur' = Cur /\ toSharer' = toSharer /\ q.next = p.next
  BY SharerRestsKeeps DEF Hears
<1>2. /\ k \notin Strokes(Owned) /\ k[2] <= p.next
      /\ p.epoch = Cur => k \notin Strokes(p)
      /\ Undrawn(toSharer[v], Cur, k)
  BY DEF Gone
<1>3. CASE f = Cur /\ StrokeOf(s) = k
  <2>1. Known(k)
    BY <1>3, ToldKnown
  <2>2. k \in Owned.removed
    BY <1>2, <2>1 DEF Known
  <2> QED
    BY <1>1, <2>2 DEF Dead
<1>4. CASE ~ (f = Cur /\ StrokeOf(s) = k)
  <2>1. q.epoch = p.epoch /\ (q.ink = p.ink \/ (f = p.epoch /\ q.ink = p.ink \cup {s}))
    BY DEF HearsOf
  <2>2. q.epoch = Cur => k \notin Strokes(q)
    BY <1>2, <1>4, <2>1, InStrokes
  <2>3. Gone(v, k)'
    BY <1>1, <1>2, <2>2 DEF Gone
  <2> QED
    BY <2>3 DEF Dead
<1> QED
  BY <1>3, <1>4

\* A segment told to a viewer with room is shown, unless the viewer has
\* erased its stroke: then the sharer will hear of that.
LEMMA DrawHeardShown ==
  ASSUME DrawTyped, SharerOK, NEW v \in Viewers, ViewerOK(v), NEW m, Hears(v, m),
         NEW f, NEW s, m = Draw(f, s), HearsOf(v, f, s), DeadKept,
         InSync(v)', Quiet(toViewer[v]), ~ Full(picture[v]),
         ToldInk(v), TellsInk(v), ShownInk(v)
  PROVE  ToldInk(v)' /\ ShownInk(v)'
<1> DEFINE Q == toViewer[v]   T == Tail(Q)   p == picture[v]   q == picture'[v]   R == toSharer[v]
<1>1. /\ Owned' = Owned /\ Cur' = Cur /\ toSharer' = toSharer /\ toViewer'[v] = T
      /\ \A k : Ahead(v, k)' <=> Ahead(v, k)
      /\ \A k : Tracked(k)' <=> Tracked(k)
      /\ Quiet(T)
      /\ \A t : Drawn(Q, Cur, t) <=> Drawn(T, Cur, t) \/ m = Draw(Cur, t)
      /\ \A k : Wiped(Q, Cur, k) => Wiped(T, Cur, k) \/ m = Erase(Cur, k)
      /\ \A t : Swept(Q, Cur, t) /\ m = Draw(Cur, t) => Wiped(T, Cur, StrokeOf(t))
      /\ p.enabled = Owned.enabled /\ p.epoch = Cur
  <2>1. PacketsOK(v) /\ LinkOK(v) /\ m.type # "state"
    BY DEF ViewerOK, Draw
  <2> QED
    BY <2>1, HearsInSync
<1>2. /\ s \in Inks /\ q.removed = p.removed
      /\ \/ q.ink = p.ink \cup {s} /\ q.received = p.received \cup {IdOf(s)} /\ f = Cur
         \/ /\ q.ink = p.ink /\ q.received = p.received
            /\ p.enabled /\ f = Cur => StrokeOf(s) \in p.removed \/ IdOf(s) \in p.received
  BY <1>1 DEF HearsOf
<1>3. /\ \A e, t : m = Draw(e, t) <=> e = f /\ t = s
      /\ \A e, k : m # Erase(e, k)
  BY DEF Draw, Erase
<1>4. ShowsInk(v) /\ RemovesInk(v) /\ RepeatsInk(v) /\ ReceivesInk(v)
  BY DEF ShownInk
<1>5. f = Cur => /\ IdOf(s) \in Owned.received
                 /\ \A t \in Owned.ink : IdOf(t) = IdOf(s) => t = s
  BY ToldKnown DEF ViewerOK
<1>6. PictureOK(Owned) /\ PictureOK(p) /\ Owned.ink \subseteq Inks /\ p \in Scenes
  BY SharerScene DEF SharerOK, ViewerOK
<1> HIDE DEF Q, T, R
<1>7. ToldInk(v)'
  <2> SUFFICES ASSUME NEW t \in Owned.ink, Tracked(t)
               PROVE  \/ t \in q.ink \/ Drawn(T, Cur, t)
                      \/ Ahead(v, t) /\ Holding(R, Erase(Cur, StrokeOf(t)))
    BY <1>1 DEF ToldInk, R
  <2>1. \/ t \in p.ink \/ Drawn(Q, Cur, t)
        \/ Ahead(v, t) /\ Holding(R, Erase(Cur, StrokeOf(t)))
    BY DEF ToldInk, Q, R
  <2>2. CASE m = Draw(Cur, t) /\ t \notin q.ink
    <3>1. f = Cur /\ t = s /\ p.enabled
      BY <1>1, <1>3, <1>6, <2>2 DEF PictureOK
    <3>2. StrokeOf(t) \in p.removed \/ IdOf(t) \in p.received
      BY <1>2, <2>2, <3>1
    <3>3. StrokeOf(t) \in p.removed
      <4>1. CASE IdOf(t) \in p.received
        <5>1. Offered(v, t)
          BY DEF Offered
        <5>2. t \in p.ink \/ StrokeOf(t) \in p.removed
          BY <1>4, <1>6, <4>1, <5>1 DEF RepeatsInk
        <5> QED
          BY <1>2, <2>2, <5>2
      <4> QED
        BY <3>2, <4>1
    <3>4. /\ Tracked(StrokeOf(t)) /\ StrokeOf(t)[1] = t[1]
          /\ StrokeOf(t) \in Strokes(Owned) /\ StrokeOf(t) \notin Owned.removed
      <4>1. StrokeOf(t)[1] = t[1]
        BY DEF StrokeOf
      <4> QED
        BY <1>6, <4>1, InStrokes DEF Tracked, PictureOK
    <3>5. ~ Dead(StrokeOf(t))
      BY <3>4 DEF Dead, Gone
    <3>6. Ahead(v, StrokeOf(t)) /\ ErasedLast(R, Cur, StrokeOf(t))
      BY <1>4, <3>3, <3>4, <3>5 DEF RemovesInk, R
    <3> QED
      BY <3>4, <3>6 DEF Ahead, ErasedLast, Holding
  <2>3. p.ink \subseteq q.ink
    BY <1>2
  <2> QED
    BY <1>1, <2>1, <2>2, <2>3
<1>8. ShowsInk(v)'
  <2> SUFFICES ASSUME NEW t \in q.ink, Tracked(t)
               PROVE  \/ t \in Owned.ink \/ Wiped(T, Cur, StrokeOf(t))
                      \/ Ahead(v, t) /\ Holding(R, Draw(Cur, t)) /\ StrokeOf(t) \notin Owned.removed
    BY <1>1 DEF ShowsInk, R
  <2>1. CASE t \in p.ink
    BY <1>1, <1>3, <1>4, <2>1 DEF ShowsInk, Q, R
  <2>2. CASE t \notin p.ink
    <3>1. t = s /\ m = Draw(Cur, t)
      BY <1>2, <1>3, <2>2
    <3>2. Drawn(Q, Cur, t)
      BY <1>1, <3>1
    <3>3. t \in Owned.ink \/ Swept(Q, Cur, t)
      BY <1>2, <3>1, <3>2 DEF TellsInk, Q
    <3> QED
      BY <1>1, <3>1, <3>3
  <2> QED
    BY <2>1, <2>2
<1>9. RemovesInk(v)'
  <2> SUFFICES ASSUME NEW k \in p.removed, Tracked(k)
               PROVE  Dead(k)' \/ (Ahead(v, k) /\ ErasedLast(R, Cur, k))
    BY <1>1, <1>2 DEF RemovesInk, R
  <2>1. Dead(k) \/ (Ahead(v, k) /\ ErasedLast(R, Cur, k))
    BY <1>4 DEF RemovesInk, R
  <2>2. k \in Marks
    BY <1>6 DEF Scenes
  <2> QED
    BY <1>1, <2>1, <2>2 DEF DeadKept
<1>10. RepeatsInk(v)'
  <2> SUFFICES ASSUME NEW t \in Inks, Tracked(t), IdOf(t) \in q.received,
                      t \in Owned.ink \/ (t[1] = v /\ Holding(R, Draw(Cur, t)))
               PROVE  t \in q.ink \/ StrokeOf(t) \in p.removed
    BY <1>1, <1>2 DEF RepeatsInk, Offered, R
  <2>1. CASE IdOf(t) \in p.received
    <3>1. Offered(v, t)
      BY DEF Offered, R
    <3> QED
      BY <1>2, <1>4, <2>1, <3>1 DEF RepeatsInk
  <2>2. CASE IdOf(t) \notin p.received
    <3>1. IdOf(t) = IdOf(s) /\ f = Cur /\ q.ink = p.ink \cup {s}
      BY <1>2, <2>2
    <3>2. CASE t \in Owned.ink
      BY <1>5, <3>1, <3>2
    <3>3. CASE t[1] = v /\ Holding(R, Draw(Cur, t))
      <4>1. PICK i \in 1 .. Len(R) : R[i] = Draw(Cur, t)
        BY <3>3 DEF Holding
      <4>2. DrawsNow(R, i) /\ R[i].segment = t
        BY <4>1 DEF DrawsNow, Draw
      <4>3. NumbersUp(v)
        BY <3>3 DEF Tracked, ViewerOK, Numbered
      <4>4. IdOf(t) \notin Owned.received
        BY <4>1, <4>2, <4>3 DEF NumbersUp, R
      <4> QED
        BY <1>5, <3>1, <4>4
    <3> QED
      BY <3>2, <3>3
  <2> QED
    BY <2>1, <2>2
<1>11. ReceivesInk(v)'
  <2> SUFFICES ASSUME NEW x \in q.received, Tracked(x), x[1] # v  PROVE x \in Owned.received
    BY <1>1 DEF ReceivesInk
  <2>1. x \in p.received \/ (x = IdOf(s) /\ f = Cur)
    BY <1>2
  <2> QED
    BY <1>4, <1>5, <2>1 DEF ReceivesInk
<1> QED
  BY <1>7, <1>8, <1>9, <1>10, <1>11 DEF ShownInk

\* A viewer hears of a segment.
LEMMA DrawHeardKeeps ==
  ASSUME DrawTyped, SharerOK, NEW v \in Viewers, ViewerOK(v), NEW m, Hears(v, m),
         NEW f, NEW s, m = Draw(f, s), HearsOf(v, f, s), PictureOK(picture'[v])
  PROVE  /\ DeadKept => ViewerOK(v)'
         /\ \A k \in Marks : k[1] = v /\ Gone(v, k) => Dead(k)'
<1>1. PacketsOK(v) /\ LinkOK(v) /\ m.type # "state" /\ picture[v].epoch <= Cur
  BY DEF ViewerOK, Draw
<1>2. picture'[v].epoch <= Cur
  BY <1>1 DEF HearsOf
<1>3. v \notin restarted => NumbersHere(v)'
  BY DrawHeardNumbers DEF ViewerOK
<1>4. \A k \in Marks : k[1] = v /\ Gone(v, k) => Dead(k)'
  BY <1>1, DrawHeardGone
<1>5. Full(picture[v]) => Full(picture'[v])
  BY DEF HearsOf, Full
<1>6. ASSUME DeadKept  PROVE LinkOK(v)'
  <2>1. /\ picture'[v].enabled = picture[v].enabled /\ picture'[v].epoch = picture[v].epoch
        /\ picture'[v].banned = picture[v].banned
    BY DEF HearsOf
  <2>2. InSync(v)' /\ Quiet(toViewer[v]) /\ ~ Full(picture[v])
          /\ ToldInk(v) /\ TellsInk(v) /\ ShownInk(v) => ToldInk(v)' /\ ShownInk(v)'
    BY <1>6, DrawHeardShown
  <2> QED
    BY <1>1, <1>5, <2>1, <2>2, HearsLink
<1> QED
  BY <1>2, <1>3, <1>4, <1>6, HearsKeeps

\* The viewer hears that stroke k, of the drawing f, is erased.
HearsErased(v, f, k) ==
    LET p == picture[v]   q == picture'[v] IN
    /\ k \in Marks
    /\ q.enabled = p.enabled /\ q.epoch = p.epoch /\ q.banned = p.banned
    /\ q.received = p.received
    /\ \/ /\ f = p.epoch /\ k \in Strokes(p)
          /\ q.ink = {t \in p.ink : StrokeOf(t) # k} /\ q.removed = p.removed \cup {k}
       \/ /\ f # p.epoch \/ k \notin Strokes(p)
          /\ q.ink = p.ink /\ q.removed = p.removed

\* An erasure brings no number that was not in use.
LEMMA EraseHeardNumbers ==
  ASSUME DrawTyped, NEW v \in Viewers, NEW m, Hears(v, m),
         NEW f, NEW k, m = Erase(f, k), HearsErased(v, f, k), Numbered(v)
  PROVE  NumbersHere(v)'
<1> DEFINE p == picture[v]   q == picture'[v]   n == p.next
<1>1. NumbersHere(v)
  BY DEF Numbered
<1>2. /\ Owned' = Owned /\ Cur' = Cur /\ \A j : Known(j)' <=> Known(j)
      /\ toSharer' = toSharer /\ q.next = n
  BY SharerRestsKeeps DEF Hears
<1>3. /\ q.epoch = p.epoch /\ q.received = p.received /\ q.ink \subseteq p.ink
      /\ q.removed = p.removed \/ (f = p.epoch /\ k \in Strokes(p) /\ q.removed = p.removed \cup {k})
  BY DEF HearsErased
<1> SUFFICES ASSUME p.epoch = Cur
             PROVE  /\ \A t \in q.ink : t[1] = v => t[2] <= n
                    /\ \A x \in q.received : x[1] = v => x[2] <= n
                    /\ \A j \in q.removed : j[1] = v => j[2] <= n
                    /\ \A t \in q.ink : t[1] = v =>
                         Known(StrokeOf(t)) \/ ~ Holding(toSharer[v], Erase(Cur, StrokeOf(t)))
  BY <1>2, <1>3 DEF NumbersHere
<1>4. k \in Strokes(p) /\ k[1] = v => k[2] <= n
  <2> SUFFICES ASSUME k \in Strokes(p), k[1] = v  PROVE k[2] <= n
    OBVIOUS
  <2>1. PICK t \in p.ink : StrokeOf(t) = k
    BY InStrokes
  <2>2. t[1] = k[1] /\ t[2] = k[2]
    BY <2>1 DEF StrokeOf
  <2> QED
    BY <1>1, <2>1, <2>2 DEF NumbersHere
<1>5. \A j \in q.removed : j[1] = v => j[2] <= n
  BY <1>1, <1>3, <1>4 DEF NumbersHere
<1> QED
  BY <1>1, <1>3, <1>5 DEF NumbersHere

\* A stroke that is gone stays gone.
LEMMA EraseHeardGone ==
  ASSUME DrawTyped, NEW v \in Viewers, NEW m, Hears(v, m),
         NEW f, NEW k, HearsErased(v, f, k),
         NEW j \in Marks, j[1] = v, Gone(v, j)
  PROVE  Dead(j)'
<1> DEFINE p == picture[v]   q == picture'[v]
<1>1. /\ Owned' = Owned /\ Cur' = Cur /\ toSharer' = toSharer /\ q.next = p.next
  BY SharerRestsKeeps DEF Hears
<1>2. /\ j \notin Strokes(Owned) /\ j[2] <= p.next
      /\ p.epoch = Cur => j \notin Strokes(p)
      /\ Undrawn(toSharer[v], Cur, j)
  BY DEF Gone
<1>3. q.epoch = p.epoch /\ q.ink \subseteq p.ink
  BY DEF HearsErased
<1>4. q.epoch = Cur => j \notin Strokes(q)
  BY <1>2, <1>3, InStrokes
<1>5. Gone(v, j)'
  BY <1>1, <1>2, <1>4 DEF Gone
<1> QED
  BY <1>5 DEF Dead

\* A stroke whose erasure is told is shown no more, and the sharer has none
\* of it.
LEMMA EraseHeardShown ==
  ASSUME DrawTyped, SharerOK, NEW v \in Viewers, ViewerOK(v), NEW m, Hears(v, m),
         NEW f, NEW k, m = Erase(f, k), HearsErased(v, f, k), DeadKept,
         InSync(v)', Quiet(toViewer[v]), ToldInk(v), ShownInk(v)
  PROVE  ToldInk(v)' /\ ShownInk(v)'
<1> DEFINE Q == toViewer[v]   T == Tail(Q)   p == picture[v]   q == picture'[v]   R == toSharer[v]
<1>1. /\ Owned' = Owned /\ Cur' = Cur /\ toSharer' = toSharer /\ toViewer'[v] = T
      /\ \A j : Ahead(v, j)' <=> Ahead(v, j)
      /\ \A j : Tracked(j)' <=> Tracked(j)
      /\ Quiet(T)
      /\ \A t : Drawn(Q, Cur, t) <=> Drawn(T, Cur, t) \/ m = Draw(Cur, t)
      /\ \A j : Wiped(Q, Cur, j) => Wiped(T, Cur, j) \/ m = Erase(Cur, j)
      /\ p.epoch = Cur
  <2>1. PacketsOK(v) /\ LinkOK(v) /\ m.type # "state"
    BY DEF ViewerOK, Erase
  <2> QED
    BY <2>1, HearsInSync
<1>2. /\ k \in Marks /\ q.received = p.received
      /\ \/ /\ f = Cur /\ k \in Strokes(p)
            /\ q.ink = {t \in p.ink : StrokeOf(t) # k} /\ q.removed = p.removed \cup {k}
         \/ /\ f # Cur \/ k \notin Strokes(p)
            /\ q.ink = p.ink /\ q.removed = p.removed
  BY <1>1 DEF HearsErased
<1>3. /\ \A e, t : m # Draw(e, t)
      /\ \A e, j : m = Erase(e, j) <=> e = f /\ j = k
  BY DEF Draw, Erase
<1>4. ShowsInk(v) /\ RemovesInk(v) /\ RepeatsInk(v) /\ ReceivesInk(v)
  BY DEF ShownInk
<1>5. f = Cur /\ Tracked(k) => Dead(k)
  <2>1. Holding(Q, m)
    BY HeardPacket DEF ViewerOK
  <2> QED
    BY <1>2, <1>3, <2>1 DEF ViewerOK, ErasuresOK
<1>6. PictureOK(Owned) /\ p \in Scenes
  BY SharerScene DEF SharerOK
<1> HIDE DEF Q, T, R
<1>7. ToldInk(v)'
  <2> SUFFICES ASSUME NEW t \in Owned.ink, Tracked(t)
               PROVE  \/ t \in q.ink \/ Drawn(T, Cur, t)
                      \/ Ahead(v, t) /\ Holding(R, Erase(Cur, StrokeOf(t)))
    BY <1>1 DEF ToldInk, R
  <2>1. \/ t \in p.ink \/ Drawn(Q, Cur, t)
        \/ Ahead(v, t) /\ Holding(R, Erase(Cur, StrokeOf(t)))
    BY DEF ToldInk, Q, R
  <2>2. f = Cur => StrokeOf(t) # k
    <3> SUFFICES ASSUME f = Cur, StrokeOf(t) = k  PROVE FALSE
      OBVIOUS
    <3>1. k[1] = t[1]
      BY DEF StrokeOf
    <3>2. k \in Strokes(Owned) /\ k \notin Owned.removed
      BY <1>6, InStrokes DEF PictureOK
    <3>3. ~ Dead(k)
      BY <3>2 DEF Dead, Gone
    <3> QED
      BY <1>5, <3>1, <3>3 DEF Tracked
  <2>3. t \in p.ink => t \in q.ink
    BY <1>2, <2>2
  <2> QED
    BY <1>1, <1>3, <2>1, <2>3
<1>8. ShowsInk(v)'
  <2> SUFFICES ASSUME NEW t \in q.ink, Tracked(t)
               PROVE  \/ t \in Owned.ink \/ Wiped(T, Cur, StrokeOf(t))
                      \/ Ahead(v, t) /\ Holding(R, Draw(Cur, t)) /\ StrokeOf(t) \notin Owned.removed
    BY <1>1 DEF ShowsInk, R
  <2>1. t \in p.ink
    BY <1>2
  <2>2. f = Cur => StrokeOf(t) # k
    BY <1>2, <2>1, InStrokes
  <2>3. Wiped(Q, Cur, StrokeOf(t)) => Wiped(T, Cur, StrokeOf(t))
    BY <1>1, <1>3, <2>2
  <2> QED
    BY <1>4, <2>1, <2>3 DEF ShowsInk, Q, R
<1>9. RemovesInk(v)'
  <2> SUFFICES ASSUME NEW j \in q.removed, Tracked(j)
               PROVE  Dead(j)' \/ (Ahead(v, j) /\ ErasedLast(R, Cur, j))
    BY <1>1 DEF RemovesInk, R
  <2>1. j \in Marks
    BY <1>2, <1>6 DEF Scenes
  <2>2. Dead(j) \/ (Ahead(v, j) /\ ErasedLast(R, Cur, j))
    <3>1. CASE j \in p.removed
      BY <1>4, <3>1 DEF RemovesInk, R
    <3>2. CASE j \notin p.removed
      BY <1>2, <1>5, <3>2
    <3> QED
      BY <3>1, <3>2
  <2> QED
    BY <1>1, <2>1, <2>2 DEF DeadKept
<1>10. RepeatsInk(v)'
  <2> SUFFICES ASSUME NEW t \in Inks, Tracked(t), IdOf(t) \in p.received,
                      t \in Owned.ink \/ (t[1] = v /\ Holding(R, Draw(Cur, t)))
               PROVE  t \in q.ink \/ StrokeOf(t) \in q.removed
    BY <1>1, <1>2 DEF RepeatsInk, Offered, R
  <2>1. Offered(v, t)
    BY DEF Offered, R
  <2>2. t \in p.ink \/ StrokeOf(t) \in p.removed
    BY <1>4, <2>1 DEF RepeatsInk
  <2> QED
    BY <1>2, <2>2
<1>11. ReceivesInk(v)'
  BY <1>1, <1>2, <1>4 DEF ReceivesInk
<1> QED
  BY <1>7, <1>8, <1>9, <1>10, <1>11 DEF ShownInk

\* A viewer hears of an erasure.
LEMMA EraseHeardKeeps ==
  ASSUME DrawTyped, SharerOK, NEW v \in Viewers, ViewerOK(v), NEW m, Hears(v, m),
         NEW f, NEW k, m = Erase(f, k), HearsErased(v, f, k), PictureOK(picture'[v])
  PROVE  /\ DeadKept => ViewerOK(v)'
         /\ \A j \in Marks : j[1] = v /\ Gone(v, j) => Dead(j)'
<1>1. PacketsOK(v) /\ LinkOK(v) /\ m.type # "state" /\ picture[v].epoch <= Cur
  BY DEF ViewerOK, Erase
<1>2. picture'[v].epoch <= Cur
  BY <1>1 DEF HearsErased
<1>3. v \notin restarted => NumbersHere(v)'
  BY EraseHeardNumbers DEF ViewerOK
<1>4. \A j \in Marks : j[1] = v /\ Gone(v, j) => Dead(j)'
  BY EraseHeardGone
<1>5. Full(picture[v]) => Full(picture'[v])
  BY DEF HearsErased, Full
<1>6. ASSUME DeadKept  PROVE LinkOK(v)'
  <2>1. /\ picture'[v].enabled = picture[v].enabled /\ picture'[v].epoch = picture[v].epoch
        /\ picture'[v].banned = picture[v].banned
    BY DEF HearsErased
  <2>2. InSync(v)' /\ Quiet(toViewer[v]) /\ ~ Full(picture[v])
          /\ ToldInk(v) /\ TellsInk(v) /\ ShownInk(v) => ToldInk(v)' /\ ShownInk(v)'
    BY <1>6, EraseHeardShown
  <2> QED
    BY <1>1, <1>5, <2>1, <2>2, HearsLink
<1> QED
  BY <1>2, <1>3, <1>4, <1>6, HearsKeeps

\* The viewer's picture becomes q when it takes the first packet.
LEMMA HearsTyped ==
  ASSUME DrawTyped, NEW v \in Viewers, toViewer[v] # <<>>,
         toViewer' = [toViewer EXCEPT ![v] = Tail(@)], v \in session.watching,
         NEW q \in Scenes, q.next = picture[v].next, picture' = [picture EXCEPT ![v] = q],
         NEW m, m = Head(toViewer[v]),
         session' = IF m.type = "state" THEN [session EXCEPT !.attempts[v] = MaxAttempts] ELSE session,
         UNCHANGED <<toSharer, missed, restarted, mishaps>>
  PROVE  /\ DrawTyped' /\ SharerRests /\ Hears(v, m) /\ picture'[v] = q
         /\ \A w \in Viewers \ {v} : Unmoved(w)
<1>1. /\ picture \in [Devices -> Scenes] /\ v \in Devices /\ v # Sharer /\ Sharer \in Devices
      /\ IsFiniteSet(picture[Sharer].ink) /\ Viewers \subseteq Devices
      /\ toViewer \in [Viewers -> Seq(Downs)] /\ toViewer[v] \in Seq(Downs) /\ session \in Links
  BY SharerScene DEF DrawTyped, Devices
<1>2. /\ picture' \in [Devices -> Scenes] /\ picture'[v] = q
      /\ \A d \in Devices \ {v} : picture'[d] = picture[d]
  BY <1>1
<1>3. Tail(toViewer[v]) \in Seq(Downs)
  BY <1>1
<1>4. /\ toViewer' \in [Viewers -> Seq(Downs)] /\ toViewer'[v] = Tail(toViewer[v])
      /\ \A w \in Viewers \ {v} : toViewer'[w] = toViewer[w]
  BY <1>1, <1>3
<1>5. /\ session' \in Links /\ session'.viewers = session.viewers
      /\ session'.banned = session.banned /\ session'.watching = session.watching
      /\ \A w \in Viewers \ {v} : session'.attempts[w] = session.attempts[w]
      /\ m.type = "state" => session'.attempts[v] = MaxAttempts
      /\ m.type # "state" => session'.attempts[v] = session.attempts[v]
  <2>1. CASE m.type = "state"
    <3>1. MaxAttempts \in Nat
      BY DrawingAssumption
    <3> QED
      BY <1>1, <2>1, <3>1 DEF Links
  <2>2. CASE m.type # "state"
    BY <1>1, <2>2
  <2> QED
    BY <2>1, <2>2
<1>6. DrawTyped'
  BY <1>1, <1>2, <1>4, <1>5 DEF DrawTyped
<1>7. SharerRests
  BY <1>1, <1>2 DEF SharerRests
<1>8. \A w \in Viewers \ {v} : Unmoved(w)
  BY <1>1, <1>2, <1>4, <1>5 DEF Unmoved
<1>9. Hears(v, m)
  BY <1>2, <1>4, <1>5, <1>7 DEF Hears
<1> QED
  BY <1>2, <1>6, <1>7, <1>8, <1>9

\* A packet reaches a viewer who does not watch: nothing comes of it.
LEMMA UnwatchedKeeps ==
  ASSUME DrawIInv, NEW v \in Viewers, toViewer[v] # <<>>,
         toViewer' = [toViewer EXCEPT ![v] = Tail(@)], v \notin session.watching,
         UNCHANGED <<picture, session, toSharer, missed, restarted, mishaps>>
  PROVE  DrawIInv'
<1>1. DrawTyped /\ toViewer[v] \in Seq(Downs) /\ toViewer \in [Viewers -> Seq(Downs)]
  BY SharerScene DEF DrawIInv, DrawTyped
<1>2. Tail(toViewer[v]) \in Seq(Downs)
  BY <1>1
<1>3. /\ toViewer' \in [Viewers -> Seq(Downs)] /\ toViewer'[v] = Tail(toViewer[v])
      /\ \A w \in Viewers \ {v} : toViewer'[w] = toViewer[w]
  BY <1>1, <1>2
<1>4. DrawTyped'
  BY <1>1, <1>3 DEF DrawTyped
<1>5. /\ SharerRests /\ Rests(v) /\ Up(v) /\ Down(v)
      /\ \A w \in Viewers \ {v} : Unmoved(w)
  BY <1>3 DEF SharerRests, Rests, Up, Down, Unmoved
<1>6. AsksAgain(v)' /\ LinkOK(v)'
  BY DEF AsksAgain, LinkOK, InSync
<1> QED
  BY <1>4, <1>5, <1>6, LinkStep

\* A viewer receives what the sharer told it.
LEMMA ViewerReceivesKeeps ==
  ASSUME DrawIInv, NEW v \in Viewers, ViewerReceives(v)
  PROVE  DrawIInv'
<1> DEFINE p == picture[v]   m == Head(toViewer[v])
<1>1. DrawTyped /\ SharerOK /\ ViewerOK(v) /\ p \in Scenes /\ toViewer[v] \in Seq(Downs)
  BY SharerScene DEF DrawIInv
<1>2. /\ toViewer[v] # <<>> /\ toViewer' = [toViewer EXCEPT ![v] = Tail(@)]
      /\ UNCHANGED <<toSharer, missed, restarted, mishaps>>
  BY DEF ViewerReceives
<1>3. m \in Downs
  BY <1>1, <1>2
<1>4. CASE v \notin session.watching
  BY <1>2, <1>4, UnwatchedKeeps DEF ViewerReceives
<1>5. ASSUME v \in session.watching, NEW q \in Scenes, q.next = p.next,
             picture' = [picture EXCEPT ![v] = q],
             session' = IF m.type = "state"
                          THEN [session EXCEPT !.attempts[v] = MaxAttempts] ELSE session
      PROVE  /\ DrawTyped' /\ SharerRests /\ Hears(v, m) /\ picture'[v] = q
             /\ \A w \in Viewers \ {v} : Unmoved(w)
  BY <1>1, <1>2, <1>5, HearsTyped
<1>6. ASSUME DrawTyped', SharerRests, \A w \in Viewers \ {v} : Unmoved(w),
             DeadKept => ViewerOK(v)', \A k \in Marks : k[1] = v /\ Gone(v, k) => Dead(k)'
      PROVE  DrawIInv'
  BY <1>6, OneViewer
<1>7. v \in session.watching =>
        session' = IF m.type = "state"
                     THEN [session EXCEPT !.attempts[v] = MaxAttempts] ELSE session
  BY DEF ViewerReceives
<1>8. CASE v \in session.watching /\ m.type = "state"
  <2> DEFINE q == [SetState(p, m.on, m.epoch) EXCEPT !.banned = m.banned]
  <2>1. picture' = [picture EXCEPT ![v] = q]
    BY <1>8 DEF ViewerReceives
  <2>2. m.on \in BOOLEAN /\ m.epoch \in Nat /\ m.banned \in BOOLEAN
    BY <1>3, <1>8 DEF Downs, StatePackets, DrawPackets, ErasePackets
  <2>3. /\ q \in Scenes /\ q.next = p.next /\ q.enabled = m.on /\ q.epoch = m.epoch
        /\ q.banned = m.banned /\ q.ink = {} /\ q.received = {} /\ q.removed = {}
    BY <1>1, <2>2 DEF SetState, Blank, Scenes
  <2> HIDE DEF q, m
  <2>4. /\ DrawTyped' /\ SharerRests /\ Hears(v, m) /\ picture'[v] = q
        /\ \A w \in Viewers \ {v} : Unmoved(w)
    BY <1>5, <1>7, <1>8, <2>1, <2>3
  <2>5. /\ DeadKept => ViewerOK(v)'
        /\ \A k \in Marks : k[1] = v /\ Gone(v, k) => Dead(k)'
    BY <1>1, <1>8, <2>3, <2>4, StateHeardKeeps
  <2> QED
    BY <1>6, <2>4, <2>5
<1>9. CASE v \in session.watching /\ m.type = "draw"
  <2> DEFINE f == m.epoch   s == m.segment   q == AddSegment(p, f, s)
  <2>1. picture' = [picture EXCEPT ![v] = q]
    BY <1>9 DEF ViewerReceives
  <2>2. f \in Nat /\ s \in Inks /\ m = Draw(f, s)
    BY <1>3, <1>9 DEF Downs, StatePackets, DrawPackets, ErasePackets, Draw
  <2> HIDE DEF f, s
  <2>3. /\ q \in Scenes /\ q.enabled = p.enabled /\ q.epoch = p.epoch /\ q.banned = p.banned
        /\ q.next = p.next /\ q.removed = p.removed
        /\ Adds(p, f, s) => /\ q.ink = p.ink \cup {s} /\ q.received = p.received \cup {IdOf(s)}
                            /\ p.enabled /\ f = p.epoch /\ ~ Full(p)
        /\ ~ Adds(p, f, s) => q = p
        /\ ~ Adds(p, f, s) /\ p.enabled /\ f = p.epoch /\ ~ Full(p) =>
             StrokeOf(s) \in p.removed \/ IdOf(s) \in p.received
    BY <1>1, <2>2, SegmentAdded
  <2>4. PictureOK(q)
    BY <1>1, <2>2, AddedRight DEF ViewerOK
  <2> HIDE DEF q, m
  <2>5. /\ DrawTyped' /\ SharerRests /\ Hears(v, m) /\ picture'[v] = q
        /\ \A w \in Viewers \ {v} : Unmoved(w)
    BY <1>5, <1>7, <1>9, <2>1, <2>3
  <2>6. HearsOf(v, f, s)
    <3>1. CASE Adds(p, f, s)
      BY <2>2, <2>3, <2>5, <3>1 DEF HearsOf
    <3>2. CASE ~ Adds(p, f, s)
      BY <2>2, <2>3, <2>5, <3>2 DEF HearsOf
    <3> QED
      BY <3>1, <3>2
  <2>7. PictureOK(picture'[v])
    BY <2>4, <2>5
  <2>8. /\ DeadKept => ViewerOK(v)'
        /\ \A k \in Marks : k[1] = v /\ Gone(v, k) => Dead(k)'
    BY <1>1, <2>2, <2>5, <2>6, <2>7, DrawHeardKeeps
  <2> QED
    BY <1>6, <2>5, <2>8
<1>10. CASE v \in session.watching /\ m.type = "erase"
  <2> DEFINE f == m.epoch   k == m.stroke   r == RemoveStroke(p, k[1], k[2])
             q == IF f = p.epoch /\ p.enabled THEN r ELSE p
  <2>1. picture' = [picture EXCEPT ![v] = q]
    BY <1>10 DEF ViewerReceives
  <2>2. f \in Nat /\ k \in Marks /\ m = Erase(f, k)
    BY <1>3, <1>10 DEF Downs, StatePackets, DrawPackets, ErasePackets, Erase
  <2> HIDE DEF f, k
  <2>3. /\ r \in Scenes /\ r.enabled = p.enabled /\ r.epoch = p.epoch /\ r.banned = p.banned
        /\ r.next = p.next /\ r.received = p.received
        /\ r.ink = {t \in p.ink : StrokeOf(t) # k}
        /\ k \in Strokes(p) => r.removed = p.removed \cup {k}
        /\ k \notin Strokes(p) => r = p
    BY <1>1, <2>2, StrokeRemoved
  <2>4. PictureOK(r) /\ PictureOK(p)
    BY <1>1, <2>2, RemovedRight DEF ViewerOK
  <2>5. ~ p.enabled => k \notin Strokes(p)
    BY <2>4, InStrokes DEF PictureOK
  <2> HIDE DEF r
  <2>6. /\ q \in Scenes /\ q.enabled = p.enabled /\ q.epoch = p.epoch /\ q.banned = p.banned
        /\ q.next = p.next /\ q.received = p.received /\ PictureOK(q)
        /\ \/ /\ f = p.epoch /\ k \in Strokes(p)
              /\ q.ink = {t \in p.ink : StrokeOf(t) # k} /\ q.removed = p.removed \cup {k}
           \/ /\ f # p.epoch \/ k \notin Strokes(p)
              /\ q.ink = p.ink /\ q.removed = p.removed
    BY <1>1, <2>3, <2>4, <2>5
  <2> HIDE DEF q, m
  <2>7. /\ DrawTyped' /\ SharerRests /\ Hears(v, m) /\ picture'[v] = q
        /\ \A w \in Viewers \ {v} : Unmoved(w)
    BY <1>5, <1>7, <1>10, <2>1, <2>6
  <2>8. HearsErased(v, f, k)
    BY <2>2, <2>6, <2>7 DEF HearsErased
  <2>9. PictureOK(picture'[v])
    BY <2>6, <2>7
  <2>10. /\ DeadKept => ViewerOK(v)'
         /\ \A j \in Marks : j[1] = v /\ Gone(v, j) => Dead(j)'
    BY <1>1, <2>2, <2>7, <2>8, <2>9, EraseHeardKeeps
  <2> QED
    BY <1>6, <2>7, <2>10
<1>11. m.type \in {"state", "draw", "erase"}
  BY <1>3 DEF Downs, StatePackets, DrawPackets, ErasePackets
<1> QED
  BY <1>4, <1>8, <1>9, <1>10, <1>11

-----------------------------------------------------------------------------
(* The theorem.                                                              *)
\* At the start nobody watches and nothing is underway.
LEMMA DrawInit == DrawingInit => DrawIInv
<1> SUFFICES ASSUME DrawingInit  PROVE DrawIInv
  OBVIOUS
<1>1. /\ picture = [d \in Devices |-> Blank(FALSE, IF d = Sharer THEN 1 ELSE 0, FALSE, 0)]
      /\ session = [viewers |-> {}, banned |-> {}, watching |-> {},
                    attempts |-> [v \in Viewers |-> MaxAttempts]]
      /\ toSharer = [v \in Viewers |-> <<>>] /\ toViewer = [v \in Viewers |-> <<>>]
      /\ missed = {} /\ restarted = {} /\ mishaps = 0
  BY DEF DrawingInit
<1>2. /\ MaxAttempts \in Nat /\ MaxDrawn \in Nat /\ 1 \in 1 .. MaxEpochs /\ Sharer \in Devices
      /\ \A v \in Viewers : v \in Devices /\ v # Sharer
  BY DrawingAssumption DEF Devices
<1>3. ASSUME NEW e \in Nat
      PROVE  LET q == Blank(FALSE, e, FALSE, 0) IN
             /\ q \in Scenes /\ q.enabled = FALSE /\ q.epoch = e
             /\ q.ink = {} /\ q.received = {} /\ q.removed = {}
  <2>1. 0 \in 0 .. MaxDrawn
    BY <1>2
  <2> QED
    BY <2>1 DEF Blank, Scenes
<1>4. 0 \in Nat /\ 1 \in Nat
  OBVIOUS
<1>5. /\ Owned \in Scenes /\ Owned.epoch = 1 /\ Owned.ink = {}
      /\ \A v \in Viewers : /\ picture[v] \in Scenes /\ picture[v].epoch = 0
                            /\ picture[v].ink = {} /\ picture[v].received = {} /\ picture[v].removed = {}
      /\ Owned.received = {} /\ Owned.removed = {}
  BY <1>1, <1>2, <1>3, <1>4 DEF Owned
<1>6. picture \in [Devices -> Scenes]
  BY <1>1, <1>3, <1>4
<1>7. session \in Links
  BY <1>1, <1>2 DEF Links
<1>8. <<>> \in Seq(Ups) /\ <<>> \in Seq(Downs)
  OBVIOUS
<1>9. DrawTyped
  <2>1. IsFiniteSet(picture[Sharer].ink)
    BY <1>5, FS_EmptySet DEF Owned
  <2> QED
    BY <1>1, <1>6, <1>7, <1>8, <2>1 DEF DrawTyped
<1>10. SharerOK
  BY <1>2, <1>5 DEF SharerOK, PictureOK, Cur
<1>11. ASSUME NEW v \in Viewers  PROVE ViewerOK(v)
  <2>1. /\ toSharer[v] = <<>> /\ toViewer[v] = <<>> /\ v \notin session.watching
        /\ Len(<<>>) = 0 /\ Cur = 1
    BY <1>1, <1>5 DEF Cur
  <2>2. PictureOK(picture[v]) /\ picture[v].epoch <= Cur
    BY <1>5, <2>1 DEF PictureOK
  <2>3. PacketsOK(v)
    BY <2>1 DEF PacketsOK
  <2>4. AsksAgain(v) /\ LinkOK(v)
    BY <2>1 DEF AsksAgain, LinkOK, InSync
  <2>5. \A x : ~ Holding(<<>>, x)
    BY <2>1 DEF Holding
  <2>6. ErasuresOK(v)
    BY <2>1, <2>5 DEF ErasuresOK
  <2>7. NumbersHere(v)
    BY <1>5 DEF NumbersHere
  <2>8. NumbersThere(v)
    BY <1>5 DEF NumbersThere
  <2>9. NumbersUp(v)
    BY <2>1, <2>5 DEF NumbersUp, DrawsNow, Again
  <2> QED
    BY <2>2, <2>3, <2>4, <2>6, <2>7, <2>8, <2>9 DEF ViewerOK, Numbered
<1> QED
  BY <1>9, <1>10, <1>11 DEF DrawIInv

\* Nothing happens.
LEMMA DrawStutters ==
  ASSUME DrawIInv, UNCHANGED drawingVars
  PROVE  DrawIInv'
<1>1. /\ picture' = picture /\ session' = session /\ toSharer' = toSharer /\ toViewer' = toViewer
      /\ missed' = missed /\ restarted' = restarted /\ mishaps' = mishaps
  BY DEF drawingVars
<1>2. Owned' = Owned
  BY <1>1 DEF Owned
<1> QED
  BY <1>1, <1>2, RenumberKeeps DEF DrawIInv, DrawTyped, Cur

\* Every step keeps the invariant.
LEMMA DrawStep ==
  ASSUME DrawIInv, [DrawingNext]_drawingVars
  PROVE  DrawIInv'
<1>1. CASE RequestPermission
  BY <1>1, RequestPermissionKeeps
<1>2. CASE SharerDraws
  BY <1>2, SharerDrawsKeeps
<1>3. CASE SharerErases
  BY <1>3, SharerErasesKeeps
<1>4. ASSUME NEW v \in Viewers,
             \/ Ban(v) \/ SharerReceives(v)
             \/ StartWatching(v) \/ StopWatching(v) \/ RetryTimer(v)
             \/ ViewerDraws(v) \/ ViewerErases(v) \/ ViewerReceives(v)
             \/ Reconnect(v) \/ LosePacket(v)
      PROVE  DrawIInv'
  BY <1>4, BanKeeps, SharerReceivesKeeps, StartWatchingKeeps, StopWatchingKeeps, RetryTimerKeeps,
     ViewerDrawsKeeps, ViewerErasesKeeps, ViewerReceivesKeeps, ReconnectKeeps, LosePacketKeeps
<1>5. CASE UNCHANGED drawingVars
  BY <1>5, DrawStutters
<1> QED
  BY <1>1, <1>2, <1>3, <1>4, <1>5 DEF DrawingNext

\* A viewer that has settled agrees with the sharer.
LEMMA SettledAgrees ==
  ASSUME DrawIInv, NEW v \in Viewers, Settled(v)
  PROVE  /\ picture[v].enabled = picture[Sharer].enabled
         /\ picture[v].epoch = picture[Sharer].epoch
         /\ picture[v].banned = (v \in session.banned)
         /\ Full(picture[v]) \/ Ink(v, Devices \ restarted) = Ink(Sharer, Devices \ restarted)
<1>1. /\ v \in session.watching /\ v \in session.viewers
      /\ toSharer[v] = <<>> /\ toViewer[v] = <<>> /\ v \notin missed /\ Len(<<>>) = 0
  BY DEF Settled
<1>2. \A x : ~ Holding(<<>>, x)
  BY <1>1 DEF Holding
<1>3. InSync(v) /\ Quiet(toViewer[v])
  <2>1. ~ Holding(toSharer[v], Watch(TRUE))
    <3> DEFINE x == Watch(TRUE)
    <3> HIDE DEF x
    <3>1. ~ Holding(toSharer[v], x)
      BY <1>1, <1>2
    <3> QED
      BY <3>1 DEF x
  <2>2. InSync(v)
    BY <1>1, <2>1 DEF InSync, Asked
  <2>3. Quiet(toViewer[v])
    BY <1>1 DEF Quiet
  <2> QED
    BY <2>2, <2>3
<1>4. \A e, x : ~ Drawn(<<>>, e, x) /\ ~ Wiped(<<>>, e, x)
  BY <1>1 DEF Drawn, Wiped
<1>5. /\ ToldState(v)
      /\ Full(picture[v]) \/ (ToldInk(v) /\ ShowsInk(v))
  BY <1>3 DEF DrawIInv, ViewerOK, LinkOK, ShownInk
<1>6. /\ picture[v].enabled = Owned.enabled /\ picture[v].epoch = Cur
      /\ picture[v].banned = (v \in session.banned)
  BY <1>3, <1>5 DEF ToldState
<1>7. ASSUME ToldInk(v), ShowsInk(v)
      PROVE  Ink(v, Devices \ restarted) = Ink(Sharer, Devices \ restarted)
  <2>1. \A s \in Owned.ink : Tracked(s) => s \in picture[v].ink
    BY <1>1, <1>2, <1>4, <1>7 DEF ToldInk
  <2>2. \A s \in picture[v].ink : Tracked(s) => s \in Owned.ink
    BY <1>1, <1>2, <1>4, <1>7 DEF ShowsInk
  <2>3. \A s : s[1] \in Devices \ restarted => Tracked(s)
    BY DEF Tracked
  <2> QED
    BY <2>1, <2>2, <2>3 DEF Ink, Owned
<1> QED
  BY <1>5, <1>6, <1>7 DEF Owned, Cur

\* The invariant says what the runs check.
LEMMA DrawIsSound == DrawIInv => DrawingInv
<1> SUFFICES ASSUME DrawIInv  PROVE DrawingInv
  OBVIOUS
<1>1. InkAgrees
  BY SettledAgrees DEF InkAgrees
<1>2. DrawingTypeOK
  <2>1. /\ DrawTyped /\ Cur \in 1 .. MaxEpochs /\ \A v \in Viewers : picture[v].epoch <= Cur
        /\ Cur = picture[Sharer].epoch /\ Devices = Viewers \cup {Sharer} /\ MaxEpochs \in Nat
    BY DrawingAssumption DEF DrawIInv, SharerOK, ViewerOK, Cur, Owned, Devices
  <2>2. \A d \in Devices : picture[d].epoch \in Nat /\ picture[d].next \in 0 .. MaxDrawn
    BY <2>1 DEF DrawTyped, Scenes
  <2>3. \A d \in Devices : picture[d].epoch \in 0 .. MaxEpochs
    BY <2>1, <2>2
  <2> QED
    BY <2>1, <2>2, <2>3 DEF DrawingTypeOK, DrawTyped, Links
<1> QED
  BY <1>1, <1>2 DEF DrawingInv

\* Every device that has settled shows the drawing of the one that shares,
\* knows whether it may draw, and draws on that drawing, whatever is drawn,
\* erased, cleared, banned, lost and asked for again meanwhile: the handlers of
\* ScreenDrawingSession over ScreenDrawing.
THEOREM DrawingThm == DrawingSpec => []DrawingInv
<1>1. DrawIInv /\ [DrawingNext]_drawingVars => DrawIInv'
  BY DrawStep
<1> QED
  BY <1>1, DrawInit, DrawIsSound, PTL DEF DrawingSpec
=============================================================================
