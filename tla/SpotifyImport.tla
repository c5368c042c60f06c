----------------------------- MODULE SpotifyImport -----------------------------
(* The import of a Spotify link: the listing of a playlist page by page (lib.rs,
   spotify_api_source), the search of a YouTube source for each of its tracks and the choice
   among the candidates (resolve_spotify_track), and the job made of one track
   (media/queue.rs).  A playlist item is its identity, or 0 when the service describes no track
   for it.  Similarities are percentages, a score is counted in hundredths, and strings, covers
   and text clean-up are left out.  Limit and Page stand for 500 tracks and 100 items. *)
EXTENDS Integers, Sequences, SequencesExt

CONSTANTS Limit, Page,
    Playlists,      \* the playlists a link may lead to
    Lengths,        \* the durations of a track, in seconds; 0: unknown
    Candidates,     \* what a search may return, beside a track: title and artist similarity,
                    \* difference of the durations (-1: unknown), album similarity, and whether
                    \* the version and the kind of content fit
    Searches        \* how many results a track may get (five searches of five in the code)

VARIABLES
    playlist,   \* the items at the service, and whether they were edited during the import
    listing,    \* the offset asked for next, the tracks so far, and how the listing ended
    track,      \* the track being matched: its duration, and whether its artist is known
    search,     \* results still possible, and the candidates kept, in the order found
    state,      \* its resolution state
    selected,   \* the candidate chosen without the user
    job         \* the source of the job made of it
importVars == <<playlist, listing, track, search, state, selected, job>>

None == [title |-> 0, artist |-> 0, apart |-> 0, album |-> 0, fits |-> FALSE]
ImportInit ==
    /\ \E items \in Playlists : playlist = [items |-> items, edited |-> FALSE]
    /\ listing = [offset |-> 0, tracks |-> << >>, at |-> "asking"]
    /\ track = [length |-> 0, artist |-> FALSE]
    /\ search = [left |-> 0, found |-> << >>]
    /\ state = "metadata_pending" /\ selected = None /\ job = None

Least(a, b) == IF a < b THEN a ELSE b

(* spotify_api_source of a playlist: one request per page.                                    *)
PageItems == SubSeq(playlist.items, listing.offset + 1,
                    Least(listing.offset + Page, Len(playlist.items)))
ListedOfPage(items, from, room) ==
    SelectSeq([i \in 1..Len(items) |-> [id |-> items[i], place |-> i]], LAMBDA t : t.id # 0)
\* A page's tracks, with their place in the playlist; `take` counts items, not tracks.
Listed(items, from, room) ==
    LET taken == SubSeq(items, 1, Least(room, Len(items)))
    IN SelectSeq([i \in 1..Len(taken) |-> [id |-> taken[i], place |-> from + i]],
                 LAMBDA t : t.id # 0)
AsksPage ==
    /\ listing.at = "asking"
    /\ LET tracks == listing.tracks \o Listed(PageItems, listing.offset, Limit - Len(listing.tracks))
           next == listing.offset + Page < Len(playlist.items)
       IN listing' = [offset |-> listing.offset + Len(PageItems), tracks |-> tracks,
                      at |-> IF ~next \/ PageItems = << >> \/ Len(tracks) >= Limit
                             THEN IF tracks = << >> THEN "incomplete" ELSE "listed"
                             ELSE "asking"]
    /\ UNCHANGED <<playlist, track, search, state, selected, job>>
\* One page that cannot be had or read loses the whole import.
PageFails ==
    /\ listing.at = "asking"
    /\ listing' = [listing EXCEPT !.at = "failed", !.tracks = << >>]
    /\ UNCHANGED <<playlist, track, search, state, selected, job>>
\* The playlist's owner removes an item, or puts it first, while it is listed.
Edited ==
    /\ listing.at = "asking" /\ listing.offset > 0 /\ ~playlist.edited
    /\ \E i \in DOMAIN playlist.items :
        LET rest == RemoveAt(playlist.items, i) IN
        \E items \in {rest, <<playlist.items[i]>> \o rest} :
            playlist' = [items |-> items, edited |-> TRUE]
    /\ UNCHANGED <<listing, track, search, state, selected, job>>

(* resolve_spotify_track, for any one of the tracks: what was listed plays no part in it.     *)
Takes ==
    /\ listing.at = "listed" /\ state = "metadata_pending"
    /\ \E length \in Lengths, artist \in BOOLEAN : track' = [length |-> length, artist |-> artist]
    /\ search' = [left |-> Searches, found |-> << >>]
    /\ state' = "searching"
    /\ playlist' = [items |-> << >>, edited |-> FALSE]
    /\ listing' = [offset |-> 0, tracks |-> << >>, at |-> "matching"]
    /\ UNCHANGED <<selected, job>>
\* duration_similarity, in percent: unknown counts half.
Alike(length, apart) ==
    IF length = 0 \/ apart < 0 THEN 50 ELSE 100 - (100 * apart) \div (length + apart)
\* Nothing of what a candidate must have is missing: the hard incompatibilities.
Compatible(t, c) ==
    /\ c.fits /\ c.title >= 45
    /\ t.artist => c.artist > 0
    /\ t.length > 0 => c.apart <= 10
Uncapped(t, c, score) == score
Capped(t, c, score) ==
    LET unknown == t.length = 0 \/ c.apart < 0
        far == ~unknown /\ c.apart > 6
        s1 == IF unknown THEN Least(score, 6500) ELSE score
        s2 == IF far THEN Least(s1, 6900) ELSE s1
    IN IF c.artist < 45 THEN Least(s2, 4500) ELSE s2
Score(t, c) ==
    IF ~Compatible(t, c) THEN 0
    ELSE Capped(t, c, 30 * c.title + 30 * c.artist + 25 * Alike(t.length, c.apart) + 10 * c.album + 500)
\* A search fails or finds nothing new, or has one more candidate, kept if its score is not zero.
SearchesOnce ==
    /\ state = "searching" /\ search.left > 0
    /\ \/ search' = [search EXCEPT !.left = @ - 1]
       \/ \E c \in Candidates :
            search' = [left |-> search.left - 1,
                       found |-> IF Score(track, c) > 0 THEN Append(search.found, c) ELSE search.found]
    /\ UNCHANGED <<playlist, listing, track, state, selected, job>>
\* The first of those with the highest score: the sort is stable.
Best(t, found) ==
    LET best == {i \in DOMAIN found : \A j \in DOMAIN found : Score(t, found[i]) >= Score(t, found[j])}
    IN found[CHOOSE i \in best : \A j \in best : i <= j]
Verdict(t, found) ==
    IF ~t.artist \/ t.length = 0 THEN "metadata_incomplete"
    ELSE IF found = << >> THEN "not_found"
    ELSE IF Score(t, Best(t, found)) >= 8500 THEN "ready"
    ELSE IF Score(t, Best(t, found)) >= 5000 THEN "ambiguous"
    ELSE "not_found"
Decides ==
    /\ state = "searching" /\ search.left = 0
    /\ state' = Verdict(track, search.found)
    /\ selected' = IF state' = "ready" THEN Best(track, search.found) ELSE None
    /\ UNCHANGED <<playlist, listing, track, search, job>>
\* queue_spotify_download resolves the link again before it makes the job, and refuses one that
\* is not ready, or that was asked for without loss when the source has no such audio.
Queues ==
    /\ state = "ready" /\ job = None
    /\ job' = selected
    /\ UNCHANGED <<playlist, listing, track, search, state, selected>>

ImportNext == AsksPage \/ PageFails \/ Edited \/ Takes \/ SearchesOnce \/ Decides \/ Queues
------------------------------------------------------------------------------
Songs(items) == SelectSeq([i \in 1..Len(items) |-> [id |-> items[i], place |-> i]], LAMBDA t : t.id # 0)
\* The page on which the limit is reached holds an item without a track: the items after those
\* that were taken are passed over, and the import goes on with the next page.
Straddled ==
    \E o \in 0..Len(playlist.items) :
        /\ o % Page = 0 /\ Len(Songs(SubSeq(playlist.items, 1, o))) < Limit
        /\ Len(Songs(SubSeq(playlist.items, 1, o))) + Page > Limit
        /\ \E i \in (o + 1)..Least(o + Page, Len(playlist.items)) : playlist.items[i] = 0
\* What was listed is the beginning of the playlist, each track at its place, and all of it up to
\* the limit once the listing ends; unless it was edited meanwhile, or the limit falls on a page
\* with an item that has no track.
ListsTheBeginning ==
    playlist.edited \/ Straddled \/
        LET songs == Songs(playlist.items) IN
        /\ Len(listing.tracks) <= Limit /\ IsPrefix(listing.tracks, songs)
        /\ listing.at = "listed" => Len(listing.tracks) = Least(Limit, Len(songs))
\* A source is chosen without the user only if title, artist and duration agree ("Coincidencia
\* verificada por título, artista y duración."): half of the title and of the artist's words,
\* and at most six seconds apart; and no candidate was better.
ReadyIsVerified ==
    /\ job # None => state = "ready" /\ job = selected
    /\ state = "ready" =>
        /\ track.artist /\ track.length > 0
        /\ selected.fits /\ selected.title >= 45 /\ selected.artist >= 45
        /\ selected.apart \in 0..6
        /\ \A i \in DOMAIN search.found : Score(track, search.found[i]) <= Score(track, selected)
ImportSafe == ListsTheBeginning /\ ReadyIsVerified
==============================================================================
