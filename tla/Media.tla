------------------------------- MODULE Media -------------------------------
(***************************************************************************)
(* The GIF picker (desktop/gif_picker.cpp) with its search                 *)
(* (desktop/gif_search.cpp), the pictures and GIFs of the transcript       *)
(* (desktop/chat_media.cpp), and the fetcher both load their media with    *)
(* (desktop/remote_media.cpp).  A page of results holds one GIF or none.   *)
(***************************************************************************)
EXTENDS Integers, Sequences, FiniteSets, SequencesExt, FiniteSetsExt, Functions

CONSTANTS
    Queries,        \* what the search box may say
    Trending,       \* the empty query
    Providers,      \* the providers this build has a key for
    Urls,           \* addresses of media, all on trusted hosts
    NoUrl,          \* what shows no medium
    MaxPlaying,     \* kMaxPlaying
    LastPage,       \* a bound on the pages of a search
    MaxSearches,    \* a bound on the searches
    MaxEmbeds       \* a bound on the media appended to the transcript

ASSUME MediaAssumption ==
    /\ Trending \in Queries /\ Providers # {} /\ NoUrl \notin Urls
    /\ MaxPlaying \in Nat \ {0} /\ LastPage \in Nat
    /\ MaxSearches \in Nat /\ MaxEmbeds \in Nat

VARIABLES
    picker,     \* the members of GifPicker, and its widgets
    tiles,      \* results_ and previews_: page -> [of, shows]
    replies,    \* the requests of GifSearch that may still be answered
    waiters,    \* waiting_: address -> the callbacks of its download
    due,        \* callbacks with cached media, on timers of 0 ms
    cached,     \* cache_: the addresses whose bytes it holds
    embeds,     \* embeds_: id -> [url, shows, kind]
    playing,    \* playing_
    nextEmbed   \* nextId_

fetcherVars == <<waiters, due, cached>>
chatVars == <<embeds, playing, nextEmbed>>
mediaVars == <<picker, tiles, replies, waiters, due, cached, embeds, playing, nextEmbed>>

\* What an address may hold: a picture that moves, one that does not, or
\* nothing that can be shown.
Pictures == {"moving", "still"}
Contents == Pictures \cup {"unavailable"}

NoPages == <<>>     \* the empty function

MediaInit ==
    /\ picker \in [opened: {FALSE}, visible: {FALSE}, typing: {FALSE}, text: {Trending},
                   shown: {Trending}, provider: Providers, page: {0}, requested: {0},
                   hasMore: {FALSE}, loading: {FALSE}, generation: {0}]
    /\ tiles = NoPages /\ replies = {}
    /\ waiters = [u \in Urls |-> {}] /\ due = {} /\ cached = {}
    /\ embeds = NoPages /\ playing = <<>> /\ nextEmbed = 0

-----------------------------------------------------------------------------
(* GifSearch and MediaFetcher.                                               *)

SearchOf(p, page) == [provider |-> p.provider, query |-> p.shown, page |-> page]

\* Mutant: earlier requests may still be answered.
NotCancelled(requests) == requests

\* GifSearch::cancel: what was asked before is never answered.
Cancelled(requests) == {}

\* GifSearch::request.
Request(p, page) == replies' = Cancelled(replies) \cup {SearchOf(p, page)}

\* MediaFetcher::fetch: cached media answer later too, and one download serves
\* everyone who waits for it.
Fetch(url, callback) ==
    IF url \in cached
    THEN due' = due \cup {callback} /\ UNCHANGED <<waiters, cached>>
    ELSE waiters' = [waiters EXCEPT ![url] = @ \cup {callback}] /\ UNCHANGED <<due, cached>>

TileCallback(p, page, url) ==
    [for |-> "tile", generation |-> p.generation, id |-> page, url |-> url]
EmbedCallback(id, url) ==
    [for |-> "embed", generation |-> 0, id |-> id, url |-> url]

-----------------------------------------------------------------------------
(* What the callbacks do with the media.                                     *)

\* GifPicker::showPage's callback: an earlier search's tile is gone, and a
\* picture that does not come leaves no gap.
Previewed(all, callback, content) ==
    IF callback.generation # picker.generation \/ callback.id \notin DOMAIN all THEN all
    ELSE IF content = "unavailable"
         THEN [page \in DOMAIN all \ {callback.id} |-> all[page]]
         ELSE [all EXCEPT ![callback.id].shows = callback.url]

\* ChatMedia::show with setFrame and startPlaying: beyond kMaxPlaying the oldest
\* keep the frame they show.
Painted(chat, id, url, content) ==
    IF id \notin DOMAIN chat.embeds THEN chat
    ELSE LET shown == [chat.embeds EXCEPT ![id].kind = content, ![id].shows = url]
             order == IF content = "moving" THEN Append(chat.playing, id) ELSE chat.playing
             spare == Len(order) - MaxPlaying
             stopped == {order[i] : i \in 1..spare} \cap DOMAIN shown
         IN  [embeds |-> [e \in DOMAIN shown |->
                            IF e \in stopped THEN [shown[e] EXCEPT !.kind = "still"] ELSE shown[e]],
              playing |-> IF spare > 0 THEN SubSeq(order, spare + 1, Len(order)) ELSE order]

\* Callbacks run in the order they were asked for: of the transcript's, oldest first.
OldestFirst(callbacks) ==
    CHOOSE s \in [1..Cardinality(callbacks) -> callbacks] :
        \A i, j \in DOMAIN s : i < j => s[i].id < s[j].id
Called(callbacks, content) ==
    LET ofTiles == {c \in callbacks : c.for = "tile"}
        chat == FoldLeft(LAMBDA state, c : Painted(state, c.id, c.url, content),
                         [embeds |-> embeds, playing |-> playing],
                         OldestFirst(callbacks \ ofTiles))
    IN  /\ tiles' = FoldSet(LAMBDA c, all : Previewed(all, c, content), tiles, ofTiles)
        /\ embeds' = chat.embeds /\ playing' = chat.playing
        /\ UNCHANGED <<picker, replies, nextEmbed>>

\* MediaFetcher::finish; QCache drops older media for room.  Bytes are kept
\* whether or not they can be shown.
FinishFetch(url) ==
    /\ waiters[url] # {}
    /\ \E content \in Contents :
          /\ \/ \E kept \in {{}, cached} : cached' = kept \cup {url}
             \/ content = "unavailable" /\ UNCHANGED cached
          /\ Called(waiters[url], content)
    /\ waiters' = [waiters EXCEPT ![url] = {}]
    /\ UNCHANGED due

\* The timer of MediaFetcher::fetch, with the bytes the cache held when asked.
FetchCached ==
    \E callback \in due, content \in Contents :
        /\ due' = due \ {callback}
        /\ Called({callback}, content)
        /\ UNCHANGED <<waiters, cached>>

-----------------------------------------------------------------------------
(* GifPicker.                                                                *)

\* GifPicker::startSearch, on a picker that has changed to p.
StartSearch(p) ==
    /\ p.generation < MaxSearches
    /\ LET fresh == [p EXCEPT !.typing = FALSE, !.generation = @ + 1, !.page = 0,
                              !.requested = 0, !.hasMore = FALSE, !.loading = TRUE,
                              !.shown = p.text]
       IN  picker' = fresh /\ Request(fresh, 0)
    /\ tiles' = NoPages

\* GifPicker::loadMore, on a picker that has changed to p.
LoadMore(p) ==
    IF p.hasMore /\ ~p.loading
    THEN LET asking == [p EXCEPT !.loading = TRUE, !.requested = p.page + 1]
         IN  picker' = asking /\ Request(asking, asking.requested)
    ELSE picker' = p /\ UNCHANGED replies

Keep == UNCHANGED <<tiles, replies>>

\* GifPicker::popup, from the GIF button or /gif: refreshProviders finds the
\* providers of this build the first time.
Popup ==
    \E query \in Queries :
        LET p == [picker EXCEPT !.opened = TRUE, !.visible = TRUE, !.text = query]
        IN  /\ IF \/ ~picker.opened \/ query # picker.text
                  \/ DOMAIN tiles = {} /\ ~picker.loading
               THEN StartSearch(p)
               ELSE picker' = p /\ Keep
            /\ UNCHANGED <<fetcherVars, chatVars>>

\* A key in the search box: textEdited starts the debounce timer.
TypeQuery ==
    /\ picker.visible
    /\ \E query \in Queries \ {picker.text} :
          picker' = [picker EXCEPT !.text = query, !.typing = TRUE]
    /\ UNCHANGED <<tiles, replies, fetcherVars, chatVars>>

\* Its timeout.
Debounce ==
    /\ picker.typing
    /\ StartSearch(picker)
    /\ UNCHANGED <<fetcherVars, chatVars>>

\* Return searches for new words.
ReturnPressed ==
    /\ picker.visible /\ picker.text # picker.shown
    /\ StartSearch(picker)
    /\ UNCHANGED <<fetcherVars, chatVars>>

\* Another provider's tab.
SwitchProvider ==
    /\ picker.visible
    /\ \E other \in Providers \ {picker.provider} :
          StartSearch([picker EXCEPT !.provider = other])
    /\ UNCHANGED <<fetcherVars, chatVars>>

\* hideEvent: Escape, a click outside, or choose after a click or Return.
HidePicker ==
    /\ picker.visible
    /\ picker' = [picker EXCEPT !.visible = FALSE, !.typing = FALSE]
    /\ UNCHANGED <<tiles, replies, fetcherVars, chatVars>>

\* The scroll bar reaches the end.
ScrollDown ==
    /\ picker.hasMore /\ ~picker.loading
    /\ LoadMore(picker)
    /\ UNCHANGED <<tiles, fetcherVars, chatVars>>

\* What showPage and showFailure ask of an answer first.
Wanted(r) == picker.loading /\ r = SearchOf(picker, picker.requested)

\* GifSearch's pageReady to GifPicker::showPage; a page that does not fill the
\* view asks for the next.
ShowPage ==
    \E r \in replies :
        IF ~Wanted(r)
        THEN /\ replies' = replies \ {r} /\ UNCHANGED <<picker, tiles, fetcherVars, chatVars>>
        ELSE \E more \in BOOLEAN, short \in BOOLEAN, found \in SUBSET Urls :
                /\ more => r.page < LastPage
                /\ Cardinality(found) <= 1
                /\ LET p == [picker EXCEPT !.loading = FALSE, !.page = r.page, !.hasMore = more]
                   IN  IF more /\ short THEN LoadMore(p)
                                        ELSE picker' = p /\ replies' = replies \ {r}
                /\ IF found = {} THEN UNCHANGED <<tiles, waiters, due, cached>>
                   ELSE \E url \in found :
                          /\ tiles' = [page \in DOMAIN tiles \cup {r.page} |->
                                          IF page = r.page THEN [of |-> r, url |-> url, shows |-> NoUrl]
                                                           ELSE tiles[page]]
                          /\ Fetch(url, TileCallback(picker, r.page, url))
                /\ UNCHANGED chatVars

\* GifSearch's failed to GifPicker::showFailure.
ShowFailure ==
    \E r \in replies :
        /\ replies' = replies \ {r}
        /\ picker' = IF Wanted(r) THEN [picker EXCEPT !.loading = FALSE, !.hasMore = FALSE]
                                  ELSE picker
        /\ UNCHANGED <<tiles, fetcherVars, chatVars>>

-----------------------------------------------------------------------------
(* ChatMedia.                                                                *)

\* insert.
Inserted(url, shows, kind) ==
    [id \in DOMAIN embeds \cup {nextEmbed} |->
        IF id = nextEmbed THEN [url |-> url, shows |-> shows, kind |-> kind] ELSE embeds[id]]

\* appendRemote.
AppendRemote ==
    /\ nextEmbed < MaxEmbeds
    /\ \E url \in Urls :
          /\ embeds' = Inserted(url, NoUrl, "loading")
          /\ Fetch(url, EmbedCallback(nextEmbed, url))
    /\ nextEmbed' = nextEmbed + 1
    /\ UNCHANGED <<picker, tiles, replies, playing>>

\* appendImage: an upload's bytes are at hand and need no address.
AppendImage ==
    /\ nextEmbed < MaxEmbeds
    /\ \E content \in Pictures :
          LET chat == Painted([embeds |-> Inserted(NoUrl, NoUrl, "loading"), playing |-> playing],
                              nextEmbed, NoUrl, content)
          IN  embeds' = chat.embeds /\ playing' = chat.playing
    /\ nextEmbed' = nextEmbed + 1
    /\ UNCHANGED <<picker, tiles, replies, fetcherVars>>

\* clear, when the transcript is cleared or drawn anew.
ClearEmbeds ==
    /\ embeds # NoPages
    /\ embeds' = NoPages /\ playing' = <<>>
    /\ UNCHANGED <<picker, tiles, replies, fetcherVars, nextEmbed>>

-----------------------------------------------------------------------------
MediaNext ==
    \/ Popup \/ TypeQuery \/ Debounce \/ ReturnPressed \/ SwitchProvider \/ HidePicker
    \/ ScrollDown \/ ShowPage \/ ShowFailure
    \/ AppendRemote \/ AppendImage \/ ClearEmbeds
    \/ FetchCached
    \/ \E url \in Urls : FinishFetch(url)

MediaSpec == MediaInit /\ [][MediaNext]_mediaVars

-----------------------------------------------------------------------------
(* Properties.                                                               *)

MediaTypeOK ==
    /\ picker.text \in Queries /\ picker.shown \in Queries /\ picker.provider \in Providers
    /\ picker.page \in 0..LastPage /\ picker.requested \in 0..LastPage
    /\ picker.generation \in 0..MaxSearches
    /\ DOMAIN tiles \subseteq 0..LastPage /\ DOMAIN waiters = Urls
    /\ cached \subseteq Urls
    /\ DOMAIN embeds \subseteq 0..(nextEmbed - 1) /\ nextEmbed \in 0..MaxEmbeds
    /\ Len(playing) <= MaxPlaying

\* The results shown are the pages of one search, the one the picker says it
\* shows, each tile with the GIF it stands for, and "loading..." stays up exactly
\* as long as an answer may come (gif_picker.cpp, showPage and startSearch).
ResultsAnswerTheSearch ==
    /\ \A page \in DOMAIN tiles :
          /\ tiles[page].of = SearchOf(picker, page) /\ page <= picker.page
          /\ tiles[page].shows \in {NoUrl, tiles[page].url}
    /\ picker.loading <=> replies # {}
    /\ picker.loading => replies = {SearchOf(picker, picker.requested)}

\* An embed of the transcript never shows another's picture, however late its
\* own arrives and whatever was cleared meanwhile, and those that move are the
\* ones playing_ counts against its limit (chat_media.cpp, startPlaying).
EmbedsShowTheirOwn ==
    /\ \A id \in DOMAIN embeds : embeds[id].shows \in {NoUrl, embeds[id].url}
    /\ {id \in DOMAIN embeds : embeds[id].kind = "moving"} = ToSet(playing)

\* The picker and the transcript never mix up media that arrive late.
MediaInv == MediaTypeOK /\ ResultsAnswerTheSearch /\ EmbedsShowTheirOwn
=============================================================================
