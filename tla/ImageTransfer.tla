--------------------------- MODULE ImageTransfer ---------------------------
(***************************************************************************)
(* Images in the chat.  A sender queues an image as chunks and its timer   *)
(* sends one chunk at a time while the links are not behind                *)
(* (desktop/community_panel.cpp, uploads_); a receiver puts the chunks of  *)
(* all senders together within one bound on the bytes it holds             *)
(* (desktop/image_transfer.cpp, ImageAssembler).                           *)
(*                                                                         *)
(* A chunk is known by its transfer and its place.  Transfer ids are drawn *)
(* at random and may be drawn again; chunks are lost with a link.          *)
(***************************************************************************)
EXTENDS Integers, Sequences, FiniteSets, FiniteSetsExt, Functions

CONSTANTS
    Uploaders, TransferIds,
    MaxChunks,          \* kMaxImageChunks
    MaxTransfers,       \* kMaxTransfersPerSender
    MaxBuffered,        \* kMaxBufferedBytes, in chunks
    TransferTimeout,    \* kTransferTimeoutMs, in ticks
    MaxQueued,          \* the uploads a sender queues
    MaxImages, MaxTicks \* bounds: images that are sent, ticks of the clock

ASSUME ImageTransferAssumption ==
    /\ MaxChunks \in Nat \ {0} /\ MaxTransfers \in Nat \ {0} /\ MaxBuffered \in Nat
    /\ TransferTimeout \in Nat /\ MaxQueued \in Nat /\ MaxImages \in Nat /\ MaxTicks \in Nat

VARIABLES
    uploads,    \* uploads_ of each sender: [id, count, next]
    wire,       \* the chunks underway from each sender, in order
    transfers,  \* transfers_: <<sender, id>> -> [chunks, count, started]
    bufferedBytes,  \* bufferedBytes_
    imageClock, imagesSent

imageVars == <<uploads, wire, transfers, bufferedBytes, imageClock, imagesSent>>

ImageInit ==
    /\ uploads = [s \in Uploaders |-> <<>>] /\ wire = [s \in Uploaders |-> <<>>]
    /\ transfers = [key \in {} |-> {}]
    /\ bufferedBytes = 0
    /\ imageClock = 0 /\ imagesSent = 0

-----------------------------------------------------------------------------
(* The sender.                                                               *)

\* CommunityPanel::sendImage, with splitImage.
SendImage(s) ==
    /\ Len(uploads[s]) < MaxQueued
    /\ imagesSent < MaxImages /\ imagesSent' = imagesSent + 1
    /\ \E id \in TransferIds, count \in 1..MaxChunks :
        uploads' = [uploads EXCEPT ![s] =
            Append(@, [id |-> id, count |-> count, next |-> 0])]
    /\ UNCHANGED <<wire, transfers, bufferedBytes, imageClock>>

\* The image timer sends one chunk of the first upload.  A chunk that cannot
\* be sent is not tried again.
ImageTimer(s) ==
    /\ uploads[s] # <<>>
    /\ LET first == Head(uploads[s])
           more == [first EXCEPT !.next = @ + 1] IN
       /\ \/ wire' = [wire EXCEPT ![s] = Append(@,
                [id |-> first.id, count |-> first.count, index |-> first.next])]
          \/ UNCHANGED wire
       /\ uploads' = [uploads EXCEPT ![s] =
            IF more.next = first.count THEN Tail(@) ELSE <<more>> \o Tail(@)]
    /\ UNCHANGED <<transfers, bufferedBytes, imageClock, imagesSent>>

\* The sender disconnects: connectNode clears its uploads.
SenderDisconnects(s) ==
    /\ uploads[s] # <<>> \/ wire[s] # <<>>
    /\ uploads' = [uploads EXCEPT ![s] = <<>>] /\ wire' = [wire EXCEPT ![s] = <<>>]
    /\ UNCHANGED <<transfers, bufferedBytes, imageClock, imagesSent>>

-----------------------------------------------------------------------------
(* The receiver.                                                             *)

\* A receiver's state as the handler changes it: transfers and bufferedBytes.
Held(t) == Cardinality(t.chunks)
Bytes(some) == FoldFunction(LAMBDA t, sum : Held(t) + sum, 0, some)

\* Mutant: the bytes of a transfer that is dropped still count.
DropUncounted(held, gone) ==
    [held EXCEPT !.transfers = Restrict(@, DOMAIN @ \ gone)]

\* ImageAssembler::drop, for each of several transfers.
Drop(held, gone) ==
    [transfers |-> Restrict(held.transfers, DOMAIN held.transfers \ gone),
     bytes |-> held.bytes - Bytes(Restrict(held.transfers, gone \cap DOMAIN held.transfers))]
Expire(held) ==
    Drop(held, {key \in DOMAIN held.transfers :
                    imageClock - held.transfers[key].started > TransferTimeout})
\* Another count under the same id is another image.
DropOther(held, key, count) ==
    Drop(held, {k \in DOMAIN held.transfers : k = key /\ held.transfers[k].count # count})

\* The sender's oldest transfers make way for a new one; which of two that
\* began together goes is the sort's choice.
Oldest(held, s) ==
    LET mine == {key \in DOMAIN held.transfers : key[1] = s}
        surplus == Max({0, Cardinality(mine) - (MaxTransfers - 1)})
    IN  {old \in kSubset(surplus, mine) : \A o \in old, k \in mine \ old :
            held.transfers[o].started <= held.transfers[k].started}
NewTransfer(count) == [chunks |-> {}, count |-> count, started |-> imageClock]

\* The rest of ImageAssembler::add: the chunk goes to its transfer, unless it
\* is there already or the bytes of all transfers reach the bound.
Place(held, key, index) ==
    LET t == held.transfers[key]
        placed == [transfers |-> [held.transfers EXCEPT ![key].chunks = @ \cup {index}],
                   bytes |-> held.bytes + 1]
    IN  IF index \in t.chunks THEN held
        ELSE IF held.bytes + 1 > MaxBuffered THEN Drop(held, {key})
        ELSE IF Held(t) + 1 < t.count THEN placed
        ELSE Drop(placed, {key})    \* the image is complete and shown

\* CommunityPanel::receive of an image packet.
ReceiveImage(s) ==
    /\ wire[s] # <<>>
    /\ wire' = [wire EXCEPT ![s] = Tail(@)]
    /\ LET chunk == Head(wire[s])
           key == <<s, chunk.id>>
           held == DropOther(Expire([transfers |-> transfers, bytes |-> bufferedBytes]),
                             key, chunk.count)
           rooms == IF key \in DOMAIN held.transfers THEN {held}
                    ELSE {[room EXCEPT !.transfers = [k \in DOMAIN @ \cup {key} |->
                              IF k = key THEN NewTransfer(chunk.count) ELSE @[k]]] :
                          room \in {Drop(held, old) : old \in Oldest(held, s)}}
       IN  \E room \in rooms :
            LET after == Place(room, key, chunk.index) IN
            transfers' = after.transfers /\ bufferedBytes' = after.bytes
    /\ UNCHANGED <<uploads, imageClock, imagesSent>>

\* The receiver disconnects: ImageAssembler::clear, and nothing more arrives.
ReceiverDisconnects ==
    /\ transfers' = [key \in {} |-> {}] /\ bufferedBytes' = 0
    /\ wire' = [s \in Uploaders |-> <<>>]
    /\ <<transfers', wire'>> # <<transfers, wire>>
    /\ UNCHANGED <<uploads, imageClock, imagesSent>>

ImageClockAdvances ==
    /\ imageClock < MaxTicks /\ imageClock' = imageClock + 1
    /\ UNCHANGED <<uploads, wire, transfers, bufferedBytes, imagesSent>>

ImageNext ==
    \/ \E s \in Uploaders :
        SendImage(s) \/ ImageTimer(s) \/ SenderDisconnects(s) \/ ReceiveImage(s)
    \/ ReceiverDisconnects \/ ImageClockAdvances

ImageSpec == ImageInit /\ [][ImageNext]_imageVars

-----------------------------------------------------------------------------
ImageTypeOK ==
    /\ \A s \in Uploaders : Len(uploads[s]) <= MaxQueued
    /\ DOMAIN transfers \subseteq Uploaders \X TransferIds
    /\ bufferedBytes \in Int /\ imageClock \in 0..MaxTicks

\* The counter of buffered bytes is what is held, through duplicates, replaced,
\* expired, superseded and finished transfers: the bound on a receiver's memory
\* holds, and images are not refused for bytes that are long gone.  No transfer
\* stays after its last chunk, and a sender has at most its share.
BufferIsCounted ==
    /\ bufferedBytes = Bytes(transfers) /\ bufferedBytes <= MaxBuffered
    /\ \A key \in DOMAIN transfers :
        Held(transfers[key]) < transfers[key].count
    /\ \A s \in Uploaders :
        Cardinality({key \in DOMAIN transfers : key[1] = s}) <= MaxTransfers
=============================================================================
