----------------------------- MODULE ScreenStream -----------------------------
(***************************************************************************)
(* A screen share on its way from the device that shares to one viewer:    *)
(* capture and encoder (desktop/screen_capture.cpp), the chunks on the     *)
(* link (Node::sendScreenFrame), the viewer's assembler and decoder, and   *)
(* the subscription that both panels keep (desktop/community_panel.cpp).   *)
(*                                                                         *)
(* Video waits in a queue of its own, so presence overtakes it.  While the *)
(* two devices exchange community metadata their link is not ready:        *)
(* packets are neither sent nor taken, and presence is sent again after.   *)
(* A frame is known by its number, modulo FrameNumbers, and has two chunks. *)
(***************************************************************************)
EXTENDS Integers, Sequences

CONSTANTS
    FrameNumbers,   \* the numbers wrap at this (in the code at 2^32)
    PaceChunks,     \* chunks that may wait before a frame is skipped
    MaxShares, MaxWatches, MaxLosses    \* bounds on the users and the faults

ASSUME StreamAssumption ==
    /\ FrameNumbers \in Nat \ {0} /\ PaceChunks \in Nat
    /\ MaxShares \in Nat /\ MaxWatches \in Nat /\ MaxLosses \in Nat

VARIABLES
    share,      \* the capture: see StreamInit
    encoding,   \* the frame that the encoding thread is on, or IdleEncoder
    watcher,    \* the viewer is among the sharer's watchers_
    wire,       \* the link: what is under way, and whether it is ready
    viewer,     \* the viewer's panel, with what its decoder really holds
    streamSpent

streamVars == <<share, encoding, watcher, wire, viewer, streamSpent>>

NoFrame == -1
IdleEncoder == [n |-> NoFrame, key |-> FALSE, current |-> FALSE]
NewDecoder == [last |-> NoFrame, picture |-> NoFrame, partial |-> [n |-> NoFrame, got |-> {}]]

StreamInit ==
    /\ share = [on |-> FALSE, wanted |-> FALSE, image |-> FALSE, next |-> 0,
                fresh |-> TRUE]
    /\ encoding = IdleEncoder
    /\ watcher = FALSE
    /\ wire = [ready |-> TRUE, control |-> <<>>, video |-> <<>>, requests |-> <<>>]
    /\ viewer = [sees |-> FALSE, watching |-> FALSE, recent |-> FALSE, intact |-> TRUE,
                 decoder |-> NewDecoder]
    /\ streamSpent = [shares |-> 0, watches |-> 0, losses |-> 0]

Lose ==
    /\ streamSpent.losses < MaxLosses
    /\ streamSpent' = [streamSpent EXCEPT !.losses = @ + 1]

-----------------------------------------------------------------------------
(* The device that shares.                                                   *)

ShareAnnounced(w, on) == IF w.ready THEN [w EXCEPT !.control = Append(@, on)] ELSE w

\* CommunityPanel::share, ScreenCapture::start.
StartShare ==
    /\ ~ share.on /\ streamSpent.shares < MaxShares
    /\ share' = [share EXCEPT !.on = TRUE, !.fresh = TRUE]
    /\ wire' = ShareAnnounced(wire, TRUE)
    /\ streamSpent' = [streamSpent EXCEPT !.shares = @ + 1]
    /\ UNCHANGED <<encoding, watcher, viewer>>

\* CommunityPanel::stopSharing, ScreenCapture::stop: what the encoding thread
\* is still on belongs to an earlier generation.
StopShare ==
    /\ share.on
    /\ share' = [share EXCEPT !.on = FALSE, !.wanted = FALSE, !.image = FALSE]
    /\ encoding' = [encoding EXCEPT !.current = FALSE]
    /\ watcher' = FALSE
    /\ wire' = ShareAnnounced(wire, FALSE)
    /\ UNCHANGED <<viewer, streamSpent>>

CanSubmit ==
    /\ share.on /\ encoding = IdleEncoder
    /\ Len(wire.video) <= PaceChunks

\* ScreenCapture::submitFrame.  The encoder starts with a keyframe, makes one
\* when it is asked to, and may make one at any time.  An image that cannot be
\* read or is too large uses its number up.
Submit(from) ==
    /\ \E key \in BOOLEAN :
        /\ from.wanted \/ from.fresh => key
        /\ encoding' = [n |-> from.next, key |-> key, current |-> TRUE]
    /\ share' = [from EXCEPT !.wanted = FALSE, !.fresh = FALSE,
                             !.next = (@ + 1) % FrameNumbers]

\* A frame of the screen: the screen may be still.
CaptureFrame ==
    /\ CanSubmit
    /\ Submit(share)
    /\ UNCHANGED <<watcher, wire, viewer, streamSpent>>

\* keyframeTimer_: the latest image again, for a viewer who waits for it.
KeyframeTimer ==
    /\ CanSubmit /\ share.wanted /\ share.image
    /\ Submit(share)
    /\ UNCHANGED <<watcher, wire, viewer, streamSpent>>

\* Node::sendScreenFrame: a frame is sent whole or not at all.
Sends(frame) ==
    /\ watcher /\ wire.ready
    /\ wire' = [wire EXCEPT !.video = @ \o [part \in 1..2 |->
            [n |-> frame.n, key |-> frame.key, part |-> part]]]

\* The encoder is done.  Other traffic may have filled the link meanwhile, or
\* the frame has more chunks than are allowed.
EncoderDone ==
    /\ encoding # IdleEncoder
    /\ encoding' = IdleEncoder
    /\ share' = [share EXCEPT !.image = @ \/ encoding.current]
    /\ \/ encoding.current /\ Sends(encoding) /\ UNCHANGED streamSpent
       \/ /\ ~ (encoding.current /\ watcher /\ wire.ready)
          /\ UNCHANGED <<wire, streamSpent>>
       \/ Lose /\ UNCHANGED wire
    /\ UNCHANGED <<watcher, viewer>>

\* CommunityPanel::receive (watch) and ScreenCapture::requestKeyframe.
ReceiveWatch ==
    /\ wire.requests # <<>>
    /\ wire' = [wire EXCEPT !.requests = Tail(@)]
    /\ LET enabled == Head(wire.requests)
           asked == [share EXCEPT !.wanted = TRUE] IN
       \/ ~ wire.ready /\ UNCHANGED <<share, encoding, watcher>>
       \/ /\ wire.ready
          /\ watcher' = (enabled /\ share.on)
          /\ \/ ~ watcher' /\ UNCHANGED <<share, encoding>>
             \/ watcher' /\ CanSubmit /\ share.image /\ Submit(asked)
             \/ /\ watcher' /\ ~ (CanSubmit /\ share.image)
                /\ share' = asked /\ UNCHANGED encoding
    /\ UNCHANGED <<viewer, streamSpent>>

-----------------------------------------------------------------------------
(* The viewer.                                                               *)

Asks(enabled) ==
    wire' = IF wire.ready THEN [wire EXCEPT !.requests = Append(@, enabled)] ELSE wire

\* CommunityPanel::watch.
Watch ==
    /\ viewer.sees /\ ~ viewer.watching /\ streamSpent.watches < MaxWatches
    /\ Asks(TRUE)
    /\ viewer' = [viewer EXCEPT !.watching = TRUE]
    /\ streamSpent' = [streamSpent EXCEPT !.watches = @ + 1]
    /\ UNCHANGED <<share, encoding, watcher>>

Unwatch ==
    /\ viewer.sees /\ viewer.watching
    /\ Asks(FALSE)
    /\ viewer' = [viewer EXCEPT !.watching = FALSE, !.recent = FALSE, !.decoder = NewDecoder]
    /\ UNCHANGED <<share, encoding, watcher, streamSpent>>

\* streamRetry_: no frame for five seconds.
FiveSeconds ==
    /\ viewer.recent
    /\ viewer' = [viewer EXCEPT !.recent = FALSE]
    /\ UNCHANGED <<share, encoding, watcher, wire, streamSpent>>

StreamRetry ==
    /\ viewer.watching /\ viewer.sees /\ ~ viewer.recent
    /\ wire.ready /\ wire.requests = <<>>
    /\ Asks(TRUE)
    /\ UNCHANGED <<share, encoding, watcher, viewer, streamSpent>>

\* CommunityPanel::refresh after presence: a share that ended is no longer
\* watched, one that is watched and seen anew is asked for again.
ReceivePresence ==
    /\ wire.control # <<>>
    /\ LET on == Head(wire.control)
           rest == [wire EXCEPT !.control = Tail(@)] IN
       \/ /\ ~ wire.ready \/ on = viewer.sees
          /\ wire' = rest /\ UNCHANGED viewer
       \/ /\ wire.ready /\ on /\ ~ viewer.sees
          /\ wire' = IF viewer.watching THEN [rest EXCEPT !.requests = Append(@, TRUE)] ELSE rest
          /\ viewer' = [viewer EXCEPT !.sees = TRUE]
       \/ /\ wire.ready /\ ~ on /\ viewer.sees
          /\ wire' = rest
          /\ viewer' = [viewer EXCEPT !.sees = FALSE, !.watching = FALSE, !.recent = FALSE,
                                      !.decoder = NewDecoder]
    /\ UNCHANGED <<share, encoding, watcher, streamSpent>>

\* ScreenFrameAssembler::add: one frame at a time.
Assembled(partial, chunk) ==
    LET known == IF partial.n = chunk.n THEN partial.got ELSE {}
    IN  [n |-> chunk.n, got |-> known \cup {chunk.part}]
Whole(partial) == partial.got = {1, 2}

\* Mutant: a delta is taken whichever frame came before.
FollowsAny(decoder, chunk) == decoder.last # NoFrame

\* ScreenStreamDecoder::decode takes a delta only right after the frame before.
Follows(decoder, chunk) ==
    /\ decoder.last # NoFrame
    /\ chunk.n = (decoder.last + 1) % FrameNumbers
Decodable(decoder, chunk) == chunk.key \/ Follows(decoder, chunk)

\* The encoder builds each delta on the frame before it.
BuiltOn(chunk, picture) == picture # NoFrame /\ chunk.n = (picture + 1) % FrameNumbers

\* What the decoder holds after a frame, and whether its picture was the one
\* the encoder built on.
Decoded(decoder, chunk) ==
    IF Decodable(decoder, chunk)
      THEN [NewDecoder EXCEPT !.last = chunk.n, !.picture = chunk.n]
      ELSE [NewDecoder EXCEPT !.picture = decoder.picture]

ReceiveChunk ==
    /\ wire.video # <<>>
    /\ wire' = [wire EXCEPT !.video = Tail(@)]
    /\ LET chunk == Head(wire.video)
           decoder == viewer.decoder
           partial == Assembled(decoder.partial, chunk)
           taken == wire.ready /\ viewer.sees /\ viewer.watching IN
       \/ ~ taken /\ UNCHANGED viewer
       \/ /\ taken /\ ~ Whole(partial)
          /\ viewer' = [viewer EXCEPT !.decoder.partial = partial]
       \/ /\ taken /\ Whole(partial)
          /\ viewer' = [viewer EXCEPT
                !.decoder = Decoded(decoder, chunk),
                !.recent = @ \/ Decodable(decoder, chunk),
                !.intact = Decodable(decoder, chunk) /\ ~ chunk.key
                                => BuiltOn(chunk, decoder.picture)]
    /\ UNCHANGED <<share, encoding, watcher, streamSpent>>

-----------------------------------------------------------------------------
(* The link.                                                                 *)

\* Metadata changes: the devices sync, and send their presence again after.
StartSync ==
    /\ wire.ready /\ Lose
    /\ wire' = [wire EXCEPT !.ready = FALSE]
    /\ UNCHANGED <<share, encoding, watcher, viewer>>

EndSync ==
    /\ ~ wire.ready
    /\ wire' = ShareAnnounced([wire EXCEPT !.ready = TRUE], share.on)
    /\ UNCHANGED <<share, encoding, watcher, viewer, streamSpent>>

\* The link is lost and made anew: each side forgets the other's presence, the
\* viewer keeps the wish to watch.
Reconnect ==
    /\ Lose
    /\ wire' = [ready |-> TRUE, control |-> <<share.on>>, video |-> <<>>, requests |-> <<>>]
    /\ watcher' = FALSE
    /\ viewer' = [viewer EXCEPT !.sees = FALSE, !.recent = FALSE, !.decoder = NewDecoder]
    /\ UNCHANGED <<share, encoding>>

StreamNext ==
    \/ StartShare \/ StopShare \/ CaptureFrame \/ KeyframeTimer \/ EncoderDone \/ ReceiveWatch
    \/ Watch \/ Unwatch \/ FiveSeconds \/ StreamRetry \/ ReceivePresence \/ ReceiveChunk
    \/ StartSync \/ EndSync \/ Reconnect

\* The screen delivers a first frame; threads, timers and sockets make progress.
StreamFairness ==
    /\ WF_streamVars(~ share.image /\ CaptureFrame)
    /\ WF_streamVars(KeyframeTimer) /\ WF_streamVars(EncoderDone)
    /\ WF_streamVars(ReceiveWatch) /\ WF_streamVars(ReceivePresence)
    /\ WF_streamVars(ReceiveChunk) /\ WF_streamVars(FiveSeconds)
    /\ WF_streamVars(StreamRetry) /\ WF_streamVars(EndSync)

StreamSpec == StreamInit /\ [][StreamNext]_streamVars /\ StreamFairness

-----------------------------------------------------------------------------
StreamTypeOK ==
    /\ encoding.n \in {NoFrame} \cup (0..FrameNumbers - 1)
    /\ watcher \in BOOLEAN /\ wire.ready \in BOOLEAN
    /\ Len(wire.video) <= PaceChunks + 2

\* A viewer never sees a picture that was built on another one than the encoder
\* built on, whatever was skipped, left half received, restarted or overtaken
\* by presence.
PicturesAreIntact == viewer.intact

\* "If the first frame or subscription is missed, the viewer retries
\* automatically" (docs/desktop.md:154), and gets a keyframe "including when the
\* shared screen is static": a share that is watched is seen again and again.
WatchedShareIsSeen ==
    <>[](share.on /\ viewer.sees /\ viewer.watching) => []<>(viewer.recent)

\* The stream of one share as the viewer has it: well-typed, its pictures intact
\* at every step, and seen for as long as it is watched (ScreenStreamDecoder,
\* CommunityPanel's streamRetry_).
StreamIsSeenIntact == [](StreamTypeOK /\ PicturesAreIntact) /\ WatchedShareIsSeen
=============================================================================
