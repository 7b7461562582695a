----------------------------- MODULE PanelState -----------------------------
(***************************************************************************)
(* What the panel (desktop/community_panel.cpp) keeps of what others send: *)
(* the images that are under way and the transcripts with their images.    *)
(***************************************************************************)
EXTENDS ImageTransfer, ChatHistory

\* What the panel keeps of the others is counted, in order and bounded: the
\* images under way (ImageTransfer) and the transcripts (ChatHistory).
PanelMemory ==
    /\ ImageTypeOK /\ BufferIsCounted
    /\ HistoryTypeOK /\ TranscriptInOrder /\ CacheIsCounted
=============================================================================
