----------------------------- MODULE ChangeFeed -----------------------------
(***************************************************************************)
(* GET /api/feed/media (handleFeed, works.Feed) and a mirror that follows  *)
(* it from cursor to cursor. The handler reads two counters, the deletion  *)
(* mark, the items and the places one after another while the store is     *)
(* written; an answer may be lost, and the mirror asks again.              *)
(***************************************************************************)
EXTENDS Library

CONSTANTS
    Scans,          \* what scans and reprobes may find a file to be
    Enrichments,    \* what TMDB may say of a file
    Positions

ASSUME FeedAssumption ==
    Scans \subseteq Scanned /\ Enrichments \subseteq Enrichment /\ Positions \subseteq Nat

VARIABLES
    poll,       \* the request in progress: what its handler has read so far
    cursor,     \* the cursor of the last answer the mirror got, or None
    told        \* key -> what the works it was told of were last made from:
                \* its row, its places, the files it is together with; or None

feedVars == <<poll, cursor, told>>
vars == <<libraryVars, stateVars, feedVars>>

Cursor == [lib : Nat, state : Nat]
ItemRows == [Keys -> Optional(Row)]
PlaceRows == [Ids \X Profiles -> Optional(Place)]
NoItems == [k \in Keys |-> None]
NoPlaces == [x \in Ids \X Profiles |-> None]

Poll == [at : {"idle", "state", "deletions", "items", "places", "answer"},
         lib : Nat, state : Nat, del : Nat, items : ItemRows, places : PlaceRows]
Idle == [at |-> "idle", lib |-> 0, state |-> 0, del |-> 0,
         items |-> NoItems, places |-> NoPlaces]
Told == [row : Row, places : [Profiles -> Optional(Place)], work : SUBSET Keys]

ASSUME FeedNoneAssumption == None \notin Cursor \cup Told

TypeOK ==
    /\ LibraryTypeOK
    /\ \A k \in Held : items[k].seq \in 1 .. libSeq
    /\ delSeq <= libSeq
    /\ poll \in Poll
    /\ cursor \in Optional(Cursor)
    /\ told \in [Keys -> Optional(Told)]

Init ==
    /\ LibraryInit
    /\ poll = Idle
    /\ cursor = None
    /\ told = [k \in Keys |-> None]

-----------------------------------------------------------------------------
(* works.Build over shows: files of one title are one work, keyed by the   *)
(* TMDB id of its first enriched member, else by the title; works that     *)
(* come to the same key are merged (finish, dedupeKeys).                   *)
Titled(rows, k) == {m \in Keys : rows[m] # None /\ rows[m].title = rows[k].title}
WorkKey(rows, k) ==
    LET enriched == {m \in Titled(rows, k) : rows[m].tmdb # None}
    IN  IF enriched = {} THEN <<"slug", rows[k].title>>
        ELSE <<"tmdb", rows[CHOOSE m \in enriched : \A n \in enriched : m <= n].tmdb.film>>
Members(rows, k) ==
    {m \in Keys : rows[m] # None /\ WorkKey(rows, m) = WorkKey(rows, k)}

(* works.Feed: the work of k changed since the cursor.                     *)
Resync(since, del) == IF since = None THEN TRUE ELSE del > since.lib
Outruns(since, row, itsPlaces) ==
    \/ row.seq > since.lib
    \/ \E p \in Profiles : itsPlaces[p] # None /\ itsPlaces[p].seq > since.state
PlacesOf(row, from) == [p \in Profiles |-> from[<<row.id, p>>]]
Changed(k, since, del, rows, from) ==
    \/ Resync(since, del)
    \/ \E m \in Members(rows, k) : Outruns(since, rows[m], PlacesOf(rows[m], from))

-----------------------------------------------------------------------------
(* The handler. The mirror's cursor moves only with an answer, so the      *)
(* cursor it asked with is the one it still has.                           *)
ReadLib_NewestRow ==    \* a mutation: the counter is taken from the rows
    /\ poll.at = "idle"
    /\ poll' = [poll EXCEPT !.at = "state",
                    !.lib = IF Held = {} THEN 0
                            ELSE items[CHOOSE k \in Held :
                                    \A j \in Held : items[j].seq <= items[k].seq].seq]
    /\ UNCHANGED <<libraryVars, stateVars, cursor, told>>

ReadLib ==
    /\ poll.at = "idle"
    /\ poll' = [poll EXCEPT !.at = "state", !.lib = libSeq]
    /\ UNCHANGED <<libraryVars, stateVars, cursor, told>>

ReadState ==
    /\ poll.at = "state"
    /\ poll' = [poll EXCEPT !.at = "deletions", !.state = stateSeq]
    /\ UNCHANGED <<libraryVars, stateVars, cursor, told>>

ReadDeletions ==
    /\ poll.at = "deletions"
    /\ poll' = [poll EXCEPT !.at = "items", !.del = delSeq]
    /\ UNCHANGED <<libraryVars, stateVars, cursor, told>>

ReadItems ==
    /\ poll.at = "items"
    /\ poll' = [poll EXCEPT !.at = "places", !.items = items]
    /\ UNCHANGED <<libraryVars, stateVars, cursor, told>>

ReadPlaces ==
    /\ poll.at = "places"
    /\ poll' = [poll EXCEPT !.at = "answer", !.places = places]
    /\ UNCHANGED <<libraryVars, stateVars, cursor, told>>

Reported(k) ==
    /\ poll.items[k] # None
    /\ Changed(k, cursor, poll.del, poll.items, poll.places)
Answer_LateCursor ==    \* a mutation: the counters are read for the answer
    /\ poll.at = "answer"
    /\ told' = [k \in Keys |->
                    IF Reported(k)
                    THEN [row |-> poll.items[k], places |-> PlacesOf(poll.items[k], poll.places),
                          work |-> Members(poll.items, k)]
                    ELSE told[k]]
    /\ cursor' = [lib |-> libSeq, state |-> stateSeq]
    /\ poll' = Idle
    /\ UNCHANGED <<libraryVars, stateVars>>

Answer ==
    /\ poll.at = "answer"
    /\ told' = [k \in Keys |->
                    IF Reported(k)
                    THEN [row |-> poll.items[k], places |-> PlacesOf(poll.items[k], poll.places),
                          work |-> Members(poll.items, k)]
                    ELSE told[k]]
    /\ cursor' = [lib |-> poll.lib, state |-> poll.state]
    /\ poll' = Idle
    /\ UNCHANGED <<libraryVars, stateVars>>

(* The answer is lost on its way, or a read failed and it was an error.    *)
Lose ==
    /\ poll.at = "answer"
    /\ poll' = Idle
    /\ UNCHANGED <<libraryVars, stateVars, cursor, told>>

-----------------------------------------------------------------------------
(* The store is written by scans, enrichment, the user and players.        *)
WriteLibrary ==
    \/ \E batch \in SUBSET Keys \ {{}} : \E it \in [batch -> Scans], order \in Orders(batch) :
            UpsertBatch(batch, it, order)
    \/ \E batch \in SUBSET Held \ {{}} :
            \E title \in [batch -> Titles], version \in {s.version : s \in Scans},
               order \in Orders(batch) :
                UpdateIdentities(batch, title, version, order)
    \/ \E batch \in SUBSET Held \ {{}} :
            \E sig \in [batch -> {s.sig : s \in Scans}], order \in Orders(batch) :
                UpdateSidecars(batch, sig, order)
    \/ \E gone \in SUBSET {items[k].id : k \in Held} : DeleteRows(gone)
    \/ \E id \in Ids, tmdb \in Enrichments, title \in Titles : SetEnrichment(id, tmdb, title)
    \/ \E id \in Ids, title \in Titles : OverrideIdentity(id, title)
WritePlaces ==
    \E id \in Ids, profile \in Profiles :
        (\E position \in Positions : SetPlace(id, profile, position)) \/ ClearPlace(id, profile)
Write == (WriteLibrary \/ WritePlaces) /\ UNCHANGED feedVars

Read == ReadLib \/ ReadState \/ ReadDeletions \/ ReadItems \/ ReadPlaces

Next == Write \/ Read \/ Answer \/ Lose

Spec == Init /\ [][Next]_vars

(* The mirror keeps asking, the handler runs on, and a mirror that keeps   *)
(* asking is answered in the end; nothing makes anybody write.             *)
Fairness == WF_vars(Read) /\ SF_vars(Answer) /\ WF_vars(Answer \/ Lose)
FairSpec == Spec /\ Fairness

-----------------------------------------------------------------------------
(* No gap (handleFeed's comment on the order of its reads): whatever the   *)
(* mirror has not been told of an item, its cursor will still bring it.    *)
Awaited(k) == IF cursor = None THEN TRUE ELSE items[k].seq > cursor.lib
NoGapInItems ==
    \A k \in Held : Awaited(k) \/ (told[k] # None /\ told[k].row = items[k])

(* The same of a place somebody has set: it was told, or its own counter   *)
(* or its item's still outruns the cursor.                                 *)
NoGapInPlaces ==
    \A k \in Held : \A p \in Profiles :
        LET place == places[<<items[k].id, p>>]
        IN  place # None =>
              \/ Awaited(k)
              \/ place.seq > cursor.state
              \/ told[k] # None /\ told[k].places[p] = place

(* A file that is gone from a work leaves no row to be awaited: the mark   *)
(* of deletions outruns the cursor until the work's other files have been  *)
(* told without it (Feed's resync).                                        *)
NoGapInDeletions ==
    \A k \in Held : told[k] # None =>
        Awaited(k) \/ delSeq > cursor.lib \/ told[k].work \subseteq Held

(* A cursor never goes back, whatever is written or deleted meanwhile.     *)
CursorMonotone ==
    [][cursor # None => cursor' # None /\ cursor'.lib >= cursor.lib
                                       /\ cursor'.state >= cursor.state]_vars

(* Once the writing stops, the mirror knows every item as it is.           *)
ItemsCatchUp == <>[](\A k \in Held : told[k] # None /\ told[k].row = items[k])

(* What README.md says of playback rows (every write stamps a seq), for    *)
(* the mirror: once the writing stops, it knows every place as it is.      *)
(* The code does not keep it: README, section 6.                           *)
PlacesCatchUp ==
    <>[](\A k \in Held : told[k] # None => told[k].places = PlacesOf(items[k], places))

(* What OverrideIdentity's comment says (the feed must see works being     *)
(* regrouped): once the writing stops, the mirror knows every work.        *)
WorksCatchUp ==
    <>[](\A k \in Held : told[k] # None => told[k].work = Members(items, k))
=============================================================================
