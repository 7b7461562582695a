---------------------------- MODULE ChatHistory ----------------------------
(***************************************************************************)
(* The transcripts of one device: the messages desktop/community_panel.cpp *)
(* keeps for each channel (entries_), the images it caches among them, and *)
(* the saved messages of common/recent_messages.cpp it loads them from.    *)
(* A message is known by the number of its arrival.                        *)
(***************************************************************************)
EXTENDS Integers, Sequences, FiniteSets, SequencesExt, FiniteSetsExt

CONSTANTS
    Scopes,         \* the text channels: a community and a channel of it
    MaxEntries,     \* 1000 entries of a channel
    MaxCached,      \* 128 cached images
    MaxImageBytes,  \* 24 MB of them
    Maximum,        \* messages/maximum, the saved messages
    RecentLimit,    \* RecentMessages::recent's limit
    MaxArrivals     \* a bound on the messages that are sent and received

ASSUME ChatHistoryAssumption ==
    /\ IsFiniteSet(Scopes)
    /\ MaxEntries \in Nat \ {0} /\ MaxCached \in Nat \ {0} /\ MaxImageBytes \in Nat \ {0}
    /\ Maximum \in Nat \ {0} /\ RecentLimit \in Nat \ {0} /\ MaxArrivals \in Nat

VARIABLES
    entries,        \* entries_: scope -> sequence of [id, image]
    cachedImages,   \* cachedImages_: sequence of <<scope, id>>
    cachedBytes,    \* cachedImageBytes_
    saved,          \* saved_messages, oldest first: sequence of <<scope, id>>
    saving,         \* history_ is open
    historyLoaded,  \* historyLoaded_
    arrivals

historyVars ==
    <<entries, cachedImages, cachedBytes, saved, saving, historyLoaded, arrivals>>

HistoryInit ==
    /\ entries = [s \in Scopes |-> <<>>]
    /\ cachedImages = <<>> /\ cachedBytes = 0
    /\ saved = <<>>
    /\ saving = TRUE /\ historyLoaded = {}
    /\ arrivals = 0

ImageSizes == 1..MaxImageBytes  \* 0: no image

-----------------------------------------------------------------------------
(* RecentMessages.                                                           *)

\* What seq holds of S, in its order.
OnlyOf(seq, S) ==
    FoldLeft(LAMBDA kept, m : IF m \in S THEN Append(kept, m) ELSE kept, <<>>, seq)
Newest(seq, n) == SubSeq(seq, Max({1, Len(seq) - n + 1}), Len(seq))

\* RecentMessages::append, with prune.
Saved(scope, id) == Newest(Append(saved, <<scope, id>>), Maximum)
\* RecentMessages::recent.
Recent(scope) == Newest(OnlyOf(saved, {scope} \X Nat), RecentLimit)

-----------------------------------------------------------------------------
(* The panel.                                                                *)

SizeOf(seq) == FoldSeq(LAMBDA e, sum : e.image + sum, 0, seq)

\* The eviction loop of CommunityPanel::append: images leave the cache, oldest
\* first, until both bounds hold.  f counts the steps.
WithoutImage(seq, id) == [i \in DOMAIN seq |->
    IF seq[i].id = id THEN [seq[i] EXCEPT !.image = 0] ELSE seq[i]]
EvictOne(c) ==
    LET oldest == Head(c.images)
        less == [c.entries EXCEPT ![oldest[1]] = WithoutImage(@, oldest[2])]
    IN  [entries |-> less, images |-> Tail(c.images),
         bytes |-> c.bytes - (SizeOf(c.entries[oldest[1]]) - SizeOf(less[oldest[1]]))]
OverBounds(c) == Len(c.images) > MaxCached \/ c.bytes > MaxImageBytes
Evict(c) ==
    LET f[n \in 0..Len(c.images)] ==
            IF n = 0 THEN c
            ELSE IF OverBounds(f[n - 1]) THEN EvictOne(f[n - 1]) ELSE f[n - 1]
    IN  f[Len(c.images)]

\* CommunityPanel::append of a message (image 0) or an image.
Appended(scope, id, image) ==
    LET list == Append(entries[scope], [id |-> id, image |-> image])
        full == Len(list) > MaxEntries
    IN  Evict([entries |-> [entries EXCEPT ![scope] = IF full THEN Tail(list) ELSE list],
               images |-> IF image > 0 THEN Append(cachedImages, <<scope, id>>)
                          ELSE cachedImages,
               bytes |-> cachedBytes + image - (IF full THEN Head(list).image ELSE 0)])

\* sendChat, sendImage and receive: only a message is saved, and saving may fail.
Arrive(scope, image) ==
    /\ arrivals < MaxArrivals /\ arrivals' = arrivals + 1
    /\ LET now == Appended(scope, arrivals', image) IN
       /\ entries' = now.entries /\ cachedImages' = now.images /\ cachedBytes' = now.bytes
    /\ saved' \in IF saving /\ image = 0 THEN {saved, Saved(scope, arrivals')} ELSE {saved}
    /\ UNCHANGED <<saving, historyLoaded>>

\* CommunityPanel::loadHistory: what is saved and not shown goes before the rest.
LoadHistory(scope) ==
    LET existing == {entries[scope][i].id : i \in DOMAIN entries[scope]}
        previous == OnlyOf(Recent(scope), {scope} \X (Nat \ existing))
    IN  [i \in DOMAIN previous |-> [id |-> previous[i][2], image |-> 0]] \o entries[scope]

\* CommunityPanel::select of a text channel.
Select(scope) ==
    /\ saving /\ scope \notin historyLoaded
    /\ entries' = [entries EXCEPT ![scope] = LoadHistory(scope)]
    /\ historyLoaded' = historyLoaded \cup {scope}
    /\ UNCHANGED <<cachedImages, cachedBytes, saved, saving, arrivals>>

\* Connecting again, and saved settings: openHistory opens the file, or not,
\* and loads the selected channel.
OpenHistory(scope, enabled) ==
    /\ saving' = enabled
    /\ historyLoaded' = IF enabled THEN {scope} ELSE {}
    /\ entries' = IF enabled THEN [entries EXCEPT ![scope] = LoadHistory(scope)] ELSE entries
    /\ UNCHANGED <<cachedImages, cachedBytes, saved, arrivals>>

\* The /clear command clears the channel "on this device", not what is saved.
Clear(scope) ==
    /\ entries[scope] # <<>>
    /\ cachedBytes' = cachedBytes - SizeOf(entries[scope])
    /\ entries' = [entries EXCEPT ![scope] = <<>>]
    /\ cachedImages' = OnlyOf(cachedImages, (Scopes \ {scope}) \X Nat)
    /\ UNCHANGED <<saved, saving, historyLoaded, arrivals>>

\* The application is started again, with the settings it had.
AppRestarts ==
    /\ entries' = [s \in Scopes |-> <<>>]
    /\ cachedImages' = <<>> /\ cachedBytes' = 0
    /\ historyLoaded' = {}
    /\ UNCHANGED <<saved, saving, arrivals>>

HistoryNext ==
    \/ \E scope \in Scopes :
        \/ \E image \in {0} \cup ImageSizes : Arrive(scope, image)
        \/ Select(scope) \/ Clear(scope)
        \/ \E enabled \in BOOLEAN : OpenHistory(scope, enabled)
    \/ AppRestarts

HistorySpec == HistoryInit /\ [][HistoryNext]_historyVars

-----------------------------------------------------------------------------
HistoryTypeOK ==
    /\ \A s \in Scopes : \A i \in DOMAIN entries[s] : entries[s][i].id \in 1..arrivals
    /\ Len(saved) <= Maximum /\ historyLoaded \subseteq Scopes
    /\ cachedBytes \in Int

\* A transcript shows each message once and in the order of arrival, however
\* live messages, clearing, saving on and off, and reloading mix.
TranscriptInOrder ==
    \A s \in Scopes : \A i, j \in DOMAIN entries[s] :
        i < j => entries[s][i].id < entries[s][j].id

\* The counter of cached bytes is the images that are shown, so the bound
\* holds, and an image that counts can be evicted: takeFirst finds one.
CacheIsCounted ==
    /\ cachedBytes = FoldSet(LAMBDA s, sum : SizeOf(entries[s]) + sum, 0, Scopes)
    /\ cachedBytes <= MaxImageBytes /\ Len(cachedImages) <= MaxCached
    /\ \A s \in Scopes : \A i \in DOMAIN entries[s] :
        entries[s][i].image > 0 => Contains(cachedImages, <<s, entries[s][i].id>>)
=============================================================================
