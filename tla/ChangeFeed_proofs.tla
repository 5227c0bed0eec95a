------------------------- MODULE ChangeFeed_proofs --------------------------
(***************************************************************************)
(* No gap in the change feed, for any library, any profiles and any        *)
(* interleaving of the handler's reads with the writes. The argument: what *)
(* a poll has read is, at every later moment, what the store still holds   *)
(* or something whose seq lies above the counter the poll read FIRST; so   *)
(* what an answer does not tell, its cursor still brings.                  *)
(***************************************************************************)
EXTENDS ChangeFeed, Library_proofs

(* How the cursor, the poll and the store stand to each other.             *)
Cursors ==
    /\ cursor # None => cursor.lib <= libSeq /\ cursor.state <= stateSeq
    /\ poll.at # "idle" =>
            /\ poll.lib <= libSeq
            /\ cursor # None => cursor.lib <= poll.lib
    /\ poll.at \notin {"idle", "state"} =>
            /\ poll.state <= stateSeq
            /\ cursor # None => cursor.state <= poll.state

(* What has been read and is not the store's any more lies above poll.lib. *)
ReadBehind ==
    /\ poll.at \in {"items", "places", "answer"} =>
            delSeq = poll.del \/ delSeq > poll.lib
    /\ poll.at \in {"places", "answer"} =>
            /\ \A k \in Held : items[k] = poll.items[k] \/ items[k].seq > poll.lib
            /\ \A k \in Keys : poll.items[k] # None /\ items[k] = None => delSeq > poll.lib
    /\ poll.at = "answer" =>
            \A x \in Ids \X Profiles : places[x] # None =>
                places[x] = poll.places[x] \/ places[x].seq > poll.state

NoGap == NoGapInItems /\ NoGapInPlaces /\ NoGapInDeletions
FeedInv == TypeOK /\ Cursors /\ ReadBehind /\ NoGap

(* The store is written by one of its transactions.                        *)
LEMMA WriteEffect ==
    ASSUME TypeOK, Write
    PROVE  LibraryEffect /\ PlaceEffect /\ UNCHANGED feedVars /\ RowsOK'
<1>1. RowsOK
    BY DEF TypeOK, RowsOK
<1>2. UNCHANGED feedVars
    BY DEF Write
<1>3. LibraryEffect /\ PlaceEffect
    <2>1. ASSUME NEW batch \in SUBSET Keys, NEW it \in [batch -> Scans],
                 NEW order \in Orders(batch), UpsertBatch(batch, it, order)
          PROVE  LibraryEffect /\ PlaceEffect
        <3>1. it \in [batch -> Scanned]
            BY FeedAssumption
        <3> QED BY <1>1, <2>1, <3>1, UpsertEffect
    <2>2. ASSUME NEW batch \in SUBSET Held, NEW title \in [batch -> Titles],
                 NEW version \in {s.version : s \in Scans}, NEW order \in Orders(batch),
                 UpdateIdentities(batch, title, version, order)
          PROVE  LibraryEffect /\ PlaceEffect
        <3>1. batch \in SUBSET Keys /\ version \in Nat
            BY FeedAssumption DEF Held, Scanned
        <3> QED BY <1>1, <2>2, <3>1, IdentitiesEffect
    <2>3. ASSUME NEW batch \in SUBSET Held, NEW sig \in [batch -> {s.sig : s \in Scans}],
                 NEW order \in Orders(batch), UpdateSidecars(batch, sig, order)
          PROVE  LibraryEffect /\ PlaceEffect
        <3>1. batch \in SUBSET Keys /\ {s.sig : s \in Scans} \subseteq Nat
            BY FeedAssumption DEF Held, Scanned
        <3>2. sig \in [batch -> Nat]
            BY <3>1
        <3> QED BY <1>1, <2>3, <3>1, <3>2, SidecarsEffect
    <2>4. ASSUME NEW gone, DeleteRows(gone) PROVE LibraryEffect /\ PlaceEffect
        BY <1>1, <2>4, DeleteEffect
    <2>5. ASSUME NEW id \in Ids, NEW tmdb \in Enrichments, NEW title \in Titles,
                 SetEnrichment(id, tmdb, title)
          PROVE  LibraryEffect /\ PlaceEffect
        <3>1. tmdb \in Enrichment
            BY FeedAssumption
        <3> QED BY <1>1, <2>5, <3>1, EnrichmentEffect
    <2>6. ASSUME NEW id \in Ids, NEW title \in Titles, OverrideIdentity(id, title)
          PROVE  LibraryEffect /\ PlaceEffect
        BY <1>1, <2>6, OverrideEffect
    <2>7. ASSUME NEW id \in Ids, NEW profile \in Profiles,
                 (\E position \in Positions : SetPlace(id, profile, position))
                    \/ ClearPlace(id, profile)
          PROVE  LibraryEffect /\ PlaceEffect
        <3>1. Positions \subseteq Nat
            BY FeedAssumption
        <3> QED BY <1>1, <2>7, <3>1, SetPlaceEffect, ClearPlaceEffect
    <2> QED BY <2>1, <2>2, <2>3, <2>4, <2>5, <2>6, <2>7 DEF Write, WriteLibrary, WritePlaces
<1> QED BY <1>1, <1>2, <1>3, RowsKept

LEMMA WriteTypes == TypeOK /\ Write => TypeOK'
<1> SUFFICES ASSUME TypeOK, Write PROVE TypeOK'
    OBVIOUS
<1>1. RowsOK' /\ UNCHANGED feedVars
    BY WriteEffect
<1> QED BY <1>1 DEF TypeOK, RowsOK, feedVars

LEMMA InitTypes == Init => TypeOK
<1> SUFFICES ASSUME Init PROVE TypeOK
    OBVIOUS
<1>1. LibraryTypeOK /\ Held = {} /\ libSeq = 0 /\ delSeq = 0
    BY LibraryAssumption DEF Init, LibraryInit, LibraryTypeOK, Held, Optional
<1>2. Idle \in Poll
    BY DEF Idle, Poll, NoItems, NoPlaces, ItemRows, PlaceRows, Optional
<1> QED BY <1>1, <1>2 DEF Init, TypeOK, Optional

(* A poll that has read one thing more is still a poll.                    *)
LEMMA ReadTypes == TypeOK /\ Read => TypeOK'
<1> SUFFICES ASSUME TypeOK, Read PROVE TypeOK'
    OBVIOUS
<1> USE DEF TypeOK
<1>1. /\ UNCHANGED <<libraryVars, stateVars, cursor, told>>
      /\ \/ poll' = [poll EXCEPT !.at = "state", !.lib = libSeq]
         \/ poll' = [poll EXCEPT !.at = "deletions", !.state = stateSeq]
         \/ poll' = [poll EXCEPT !.at = "items", !.del = delSeq]
         \/ poll' = [poll EXCEPT !.at = "places", !.items = items]
         \/ poll' = [poll EXCEPT !.at = "answer", !.places = places]
    BY DEF Read, ReadLib, ReadState, ReadDeletions, ReadItems, ReadPlaces
<1>2. /\ libSeq \in Nat /\ stateSeq \in Nat /\ delSeq \in Nat
      /\ items \in ItemRows /\ places \in PlaceRows
    BY DEF LibraryTypeOK, ItemRows, PlaceRows
<1>3. poll' \in Poll
    BY <1>1, <1>2 DEF Poll
<1> QED BY <1>1, <1>3 DEF LibraryTypeOK, Held, libraryVars, stateVars

(* What an answer tells of an item is what a mirror may hold.              *)
LEMMA AnswerTold ==
    ASSUME TypeOK, Answer, NEW k \in Keys, Reported(k)
    PROVE  told'[k] \in Told
<1>1. /\ poll.items \in ItemRows /\ poll.places \in PlaceRows
    BY DEF TypeOK, Poll
<1>2. poll.items[k] \in Row
    BY <1>1 DEF Reported, ItemRows, Optional
<1>3. poll.items[k].id \in Ids
    BY <1>2 DEF Row
<1>4. PlacesOf(poll.items[k], poll.places) \in [Profiles -> Optional(Place)]
    BY <1>1, <1>3 DEF PlacesOf, PlaceRows
<1>5. Members(poll.items, k) \in SUBSET Keys
    BY DEF Members
<1>6. told'[k] = [row |-> poll.items[k], places |-> PlacesOf(poll.items[k], poll.places),
                  work |-> Members(poll.items, k)]
    BY DEF Answer
<1> QED BY <1>2, <1>4, <1>5, <1>6 DEF Told

LEMMA AnswerTypes == TypeOK /\ (Answer \/ Lose) => TypeOK'
<1> SUFFICES ASSUME TypeOK, Answer \/ Lose PROVE TypeOK'
    OBVIOUS
<1> USE DEF TypeOK
<1>1. Idle \in Poll
    BY DEF Idle, Poll, NoItems, NoPlaces, ItemRows, PlaceRows, Optional
<1>2. poll' \in Poll /\ UNCHANGED <<libraryVars, stateVars>>
    BY <1>1 DEF Answer, Lose
<1>3. LibraryTypeOK' /\ (\A k \in Held' : items'[k].seq \in 1 .. libSeq') /\ delSeq' <= libSeq'
    BY <1>2 DEF LibraryTypeOK, Held, libraryVars, stateVars
<1>4. CASE Lose
    BY <1>2, <1>3, <1>4 DEF Lose
<1>5. CASE Answer
    <2>1. /\ poll.items \in ItemRows /\ poll.places \in PlaceRows
          /\ poll.lib \in Nat /\ poll.state \in Nat
        BY DEF Poll
    <2>2. cursor' \in Optional(Cursor)
        BY <1>5, <2>1 DEF Answer, Cursor, Optional
    <2>4. ASSUME NEW k \in Keys PROVE told'[k] \in Optional(Told)
        <3>1. CASE Reported(k)
            BY <1>5, <3>1, AnswerTold DEF Optional
        <3>2. CASE ~Reported(k)
            BY <1>5, <3>2 DEF Answer
        <3> QED BY <3>1, <3>2
    <2>5. told' \in [Keys -> Optional(Told)]
        BY <1>5, <2>4 DEF Answer
    <2> QED BY <1>2, <1>3, <2>2, <2>5
<1> QED BY <1>4, <1>5

LEMMA TypeStep == TypeOK /\ [Next]_vars => TypeOK'
<1> SUFFICES ASSUME TypeOK, [Next]_vars PROVE TypeOK'
    OBVIOUS
<1>1. CASE UNCHANGED vars
    BY <1>1 DEF vars, libraryVars, stateVars, feedVars, TypeOK, LibraryTypeOK, Held
<1> QED BY <1>1, WriteTypes, ReadTypes, AnswerTypes DEF Next

(* The rows, places and polls keep their types, every row's seq stays      *)
(* behind the counter (store.go's transactions, handleFeed's reads).       *)
THEOREM FeedTypes == Spec => []TypeOK
<1> QED BY InitTypes, TypeStep, PTL DEF Spec

-----------------------------------------------------------------------------
LEMMA InitGap == Init => Cursors /\ ReadBehind /\ NoGap
<1> SUFFICES ASSUME Init PROVE Cursors /\ ReadBehind /\ NoGap
    OBVIOUS
<1>1. cursor = None /\ poll.at = "idle" /\ Held = {}
    BY DEF Init, LibraryInit, Idle, Held
<1> QED BY <1>1 DEF Cursors, ReadBehind, NoGap, NoGapInItems, NoGapInPlaces, NoGapInDeletions

(* Rows as the library holds them, and places of rows as state.db does.    *)
LEMMA Rows ==
    ASSUME LibraryTypeOK, NEW k \in Held
    PROVE  /\ items[k] \in Row /\ items[k].id \in Ids /\ items[k].seq \in Nat
           /\ \A p \in Profiles :
                /\ <<items[k].id, p>> \in Ids \X Profiles
                /\ places[<<items[k].id, p>>] \in Optional(Place)
<1>1. items[k] \in Row
    BY DEF Held, LibraryTypeOK, Optional
<1>2. items[k].id \in Ids /\ items[k].seq \in Nat
    BY <1>1 DEF Row
<1> QED BY <1>1, <1>2 DEF LibraryTypeOK

(* A write: what it changes is above every counter read before it.         *)
LEMMA WriteKeeps ==
    ASSUME FeedInv, Write
    PROVE  Cursors' /\ ReadBehind' /\ NoGap'
<1> USE DEF FeedInv
<1>1. LibraryEffect /\ PlaceEffect /\ RowsOK' /\ TypeOK'
    BY WriteEffect, WriteTypes
<1>2. poll' = poll /\ cursor' = cursor /\ told' = told
    BY WriteEffect DEF feedVars
<1>3. /\ {libSeq, delSeq, stateSeq, libSeq', delSeq', stateSeq'} \subseteq Nat
      /\ poll.lib \in Nat /\ poll.state \in Nat /\ poll.del \in Nat
      /\ cursor # None => cursor.lib \in Nat /\ cursor.state \in Nat
    BY <1>1 DEF TypeOK, LibraryTypeOK, Poll, Cursor, Optional
<1>4. libSeq' >= libSeq /\ stateSeq' >= stateSeq /\ delSeq' \in {delSeq} \cup (libSeq + 1 .. libSeq')
    BY <1>1, <1>3 DEF LibraryEffect, PlaceEffect
<1>5. Cursors'
    BY <1>2, <1>3, <1>4 DEF Cursors
<1>6. \A k \in Held' : (k \in Held /\ items'[k] = items[k]) \/ items'[k].seq > libSeq
    BY <1>1, <1>3 DEF LibraryEffect, Held
<1>7. \A k \in Held : k \in Held' \/ delSeq' > libSeq
    BY <1>1 DEF LibraryEffect, Held
<1>8. \A x \in Ids \X Profiles : places'[x] # None =>
            places'[x] = places[x] \/ places'[x].seq > stateSeq
    BY <1>1 DEF PlaceEffect
<1>9. \A k \in Held' : items'[k].seq \in Nat
            /\ \A p \in Profiles : <<items'[k].id, p>> \in Ids \X Profiles
                /\ (places'[<<items'[k].id, p>>] # None
                        => places'[<<items'[k].id, p>>].seq \in Nat)
    <2>1. LibraryTypeOK'
        BY <1>1 DEF TypeOK
    <2>2. ASSUME NEW k \in Held'
          PROVE  items'[k] \in Row /\ items'[k].id \in Ids /\ items'[k].seq \in Nat
        <3>1. items'[k] \in Row
            BY <2>1 DEF Held, LibraryTypeOK, Optional
        <3> QED BY <3>1 DEF Row
    <2>3. \A x \in Ids \X Profiles : places'[x] # None => places'[x].seq \in Nat
        BY <2>1 DEF LibraryTypeOK, Optional, Place
    <2> QED BY <2>2, <2>3
<1>10. ReadBehind'
    <2>1. poll.at \in {"items", "places", "answer"} =>
                delSeq' = poll.del \/ delSeq' > poll.lib
        BY <1>3, <1>4 DEF ReadBehind, Cursors
    <2>2. ASSUME poll.at \in {"places", "answer"}, NEW k \in Held'
          PROVE  items'[k] = poll.items[k] \/ items'[k].seq > poll.lib
        BY <1>3, <1>6, <1>9, <2>2 DEF ReadBehind, Cursors
    <2>3. ASSUME poll.at \in {"places", "answer"}, NEW k \in Keys,
                 poll.items[k] # None, items'[k] = None
          PROVE  delSeq' > poll.lib
        BY <1>3, <1>4, <1>7, <2>3 DEF ReadBehind, Cursors, Held
    <2>4. ASSUME poll.at = "answer", NEW x \in Ids \X Profiles, places'[x] # None
          PROVE  places'[x] = poll.places[x] \/ places'[x].seq > poll.state
        <3>1. places'[x].seq \in Nat
            BY <1>1, <2>4 DEF TypeOK, LibraryTypeOK, Optional, Place
        <3> QED BY <1>3, <1>8, <2>4, <3>1 DEF ReadBehind, Cursors
    <2> QED BY <1>2, <2>1, <2>2, <2>3, <2>4 DEF ReadBehind
<1>11. \A k \in Held' : Awaited(k)' \/ (k \in Held /\ items'[k] = items[k] /\ ~Awaited(k))
    BY <1>2, <1>3, <1>6, <1>9 DEF Awaited, Cursors
<1>12. NoGapInItems'
    BY <1>2, <1>11 DEF NoGap, NoGapInItems
<1>13. NoGapInPlaces'
    <2> SUFFICES ASSUME NEW k \in Held', NEW p \in Profiles, ~Awaited(k)',
                        places'[<<items'[k].id, p>>] # None
                 PROVE  places'[<<items'[k].id, p>>].seq > cursor'.state
                        \/ (told'[k] # None /\ told'[k].places[p] = places'[<<items'[k].id, p>>])
        BY DEF NoGapInPlaces
    <2> DEFINE x == <<items[k].id, p>>
    <2>1. k \in Held /\ items'[k] = items[k] /\ ~Awaited(k) /\ cursor # None
        BY <1>11 DEF Awaited
    <2>2. x \in Ids \X Profiles /\ places'[x] # None /\ places'[x].seq \in Nat
        BY <1>9, <2>1
    <2>3. CASE places'[x] = places[x]
        BY <1>2, <2>1, <2>2, <2>3 DEF NoGap, NoGapInPlaces
    <2>4. CASE places'[x].seq > stateSeq
        BY <1>2, <1>3, <2>1, <2>2, <2>4 DEF Cursors
    <2> QED BY <1>8, <2>2, <2>3, <2>4
<1>14. NoGapInDeletions'
    <2> SUFFICES ASSUME NEW k \in Held', told'[k] # None, ~Awaited(k)', ~(delSeq' > cursor'.lib)
                 PROVE  told'[k].work \subseteq Held'
        BY DEF NoGapInDeletions
    <2>1. k \in Held /\ ~Awaited(k) /\ cursor # None
        BY <1>11 DEF Awaited
    <2>2. delSeq' = delSeq /\ ~(delSeq > cursor.lib) /\ ~(delSeq' > libSeq)
        BY <1>2, <1>3, <1>4, <2>1 DEF Cursors
    <2> QED BY <1>2, <1>7, <2>1, <2>2 DEF NoGap, NoGapInDeletions
<1> QED BY <1>5, <1>10, <1>12, <1>13, <1>14 DEF NoGap

(* A read: what is read now is what the store holds now.                   *)
LEMMA ReadKeeps ==
    ASSUME FeedInv, Read
    PROVE  Cursors' /\ ReadBehind' /\ NoGap'
<1> USE DEF FeedInv
<1>1. /\ {libSeq, delSeq, stateSeq} \subseteq Nat /\ delSeq <= libSeq
      /\ cursor # None => cursor.lib \in Nat /\ cursor.state \in Nat
    BY DEF TypeOK, LibraryTypeOK, Cursor, Optional
<1>2. items' = items /\ libSeq' = libSeq /\ delSeq' = delSeq /\ places' = places
      /\ stateSeq' = stateSeq /\ cursor' = cursor /\ told' = told
    BY DEF Read, ReadLib, ReadState, ReadDeletions, ReadItems, ReadPlaces,
           libraryVars, stateVars
<1>3. Held' = Held /\ (\A k : Awaited(k)' <=> Awaited(k))
    BY <1>2 DEF Held, Awaited
<1>4. NoGap'
    BY <1>2, <1>3 DEF NoGap, NoGapInItems, NoGapInPlaces, NoGapInDeletions
<1>5. poll \in Poll
    BY DEF TypeOK
<1>6. CASE ReadLib
    <2>1. poll'.at = "state" /\ poll'.lib = libSeq
        BY <1>5, <1>6 DEF ReadLib, Poll
    <2> QED BY <1>1, <1>2, <1>4, <2>1 DEF Cursors, ReadBehind
<1>7. CASE ReadState
    <2>1. poll.at = "state" /\ poll'.at = "deletions" /\ poll'.lib = poll.lib
          /\ poll'.state = stateSeq
        BY <1>5, <1>7 DEF ReadState, Poll
    <2> QED BY <1>1, <1>2, <1>4, <2>1 DEF Cursors, ReadBehind
<1>8. CASE ReadDeletions
    <2>1. poll.at = "deletions" /\ poll'.at = "items" /\ poll'.lib = poll.lib
          /\ poll'.state = poll.state /\ poll'.del = delSeq
        BY <1>5, <1>8 DEF ReadDeletions, Poll
    <2> QED BY <1>1, <1>2, <1>4, <2>1 DEF Cursors, ReadBehind
<1>9. CASE ReadItems
    <2>1. poll.at = "items" /\ poll'.at = "places" /\ poll'.lib = poll.lib
          /\ poll'.state = poll.state /\ poll'.del = poll.del /\ poll'.items = items
        BY <1>5, <1>9 DEF ReadItems, Poll
    <2> QED BY <1>1, <1>2, <1>3, <1>4, <2>1 DEF Cursors, ReadBehind
<1>10. CASE ReadPlaces
    <2>1. poll.at = "places" /\ poll'.at = "answer" /\ poll'.lib = poll.lib
          /\ poll'.state = poll.state /\ poll'.del = poll.del
          /\ poll'.items = poll.items /\ poll'.places = places
        BY <1>5, <1>10 DEF ReadPlaces, Poll
    <2> QED BY <1>1, <1>2, <1>3, <1>4, <2>1 DEF Cursors, ReadBehind
<1> QED BY <1>6, <1>7, <1>8, <1>9, <1>10 DEF Read

(* An item the answer does not report had nothing new for this cursor.     *)
LEMMA Unreported ==
    ASSUME FeedInv, poll.at = "answer", NEW k \in Keys, poll.items[k] # None, ~Reported(k)
    PROVE  /\ cursor # None /\ ~(poll.del > cursor.lib)
           /\ ~(poll.items[k].seq > cursor.lib)
           /\ \A p \in Profiles :
                LET place == poll.places[<<poll.items[k].id, p>>]
                IN  place # None => ~(place.seq > cursor.state)
<1>1. cursor # None /\ ~(poll.del > cursor.lib)
    BY DEF Reported, Changed, Resync
<1>2. k \in Members(poll.items, k)
    BY DEF Members
<1>3. ~Outruns(cursor, poll.items[k], PlacesOf(poll.items[k], poll.places))
    BY <1>2 DEF Reported, Changed
<1> QED BY <1>1, <1>3 DEF Outruns, PlacesOf

LEMMA AnswerKeeps ==
    ASSUME FeedInv, Answer \/ Lose
    PROVE  Cursors' /\ ReadBehind' /\ NoGap'
<1> USE DEF FeedInv
<1>1. items' = items /\ libSeq' = libSeq /\ delSeq' = delSeq /\ places' = places
      /\ stateSeq' = stateSeq /\ poll'.at = "idle" /\ poll.at = "answer"
    BY DEF Answer, Lose, Idle, libraryVars, stateVars
<1>2. Held' = Held
    BY <1>1 DEF Held
<1>3. ReadBehind'
    BY <1>1 DEF ReadBehind
<1>4. CASE Lose
    <2>1. cursor' = cursor /\ told' = told
        BY <1>4 DEF Lose
    <2>2. \A k : Awaited(k)' <=> Awaited(k)
        BY <1>1, <2>1 DEF Awaited
    <2>3. NoGap'
        BY <1>1, <1>2, <2>1, <2>2 DEF NoGap, NoGapInItems, NoGapInPlaces, NoGapInDeletions
    <2> QED BY <1>1, <1>3, <2>1, <2>3 DEF Cursors
<1>5. CASE Answer
    <2>1. /\ cursor' = [lib |-> poll.lib, state |-> poll.state]
          /\ \A k \in Keys : Reported(k) =>
                /\ told'[k].row = poll.items[k]
                /\ told'[k].places = PlacesOf(poll.items[k], poll.places)
                /\ told'[k].work = Members(poll.items, k)
          /\ \A k \in Keys : ~Reported(k) => told'[k] = told[k]
        <3>1. ASSUME NEW k \in Keys, Reported(k)
              PROVE  told'[k] = [row |-> poll.items[k],
                                 places |-> PlacesOf(poll.items[k], poll.places),
                                 work |-> Members(poll.items, k)]
            BY <1>5, <3>1 DEF Answer
        <3>2. ASSUME NEW k \in Keys, ~Reported(k) PROVE told'[k] = told[k]
            BY <1>5, <3>2 DEF Answer
        <3> QED BY <1>5, <3>1, <3>2 DEF Answer
    <2>2. /\ poll.lib \in Nat /\ poll.state \in Nat /\ poll.del \in Nat
          /\ {libSeq, delSeq, stateSeq} \subseteq Nat
          /\ cursor # None => cursor.lib \in Nat /\ cursor.state \in Nat
        BY DEF TypeOK, LibraryTypeOK, Poll, Cursor, Optional
    <2>3. LibraryTypeOK
        BY DEF TypeOK
    <2>4. cursor' # None
        BY <2>1, <2>2, FeedNoneAssumption DEF Cursor
    <2>5. Cursors'
        BY <1>1, <2>1, <2>2 DEF Cursors
    <2>6. \A k \in Keys : Reported(k) => told'[k] # None
        <3>1. TypeOK
            OBVIOUS
        <3> SUFFICES ASSUME NEW k \in Keys, Reported(k) PROVE told'[k] # None
            OBVIOUS
        <3>2. told'[k] \in Told
            BY <1>5, <3>1, AnswerTold
        <3> QED BY <3>2, FeedNoneAssumption
    <2>7. \A k \in Held' : ~Awaited(k)' =>
                /\ k \in Held /\ poll.items[k] = items[k] /\ poll.items[k] # None
                /\ ~Reported(k) => ~Awaited(k)
        <3> SUFFICES ASSUME NEW k \in Held', ~Awaited(k)'
                     PROVE  /\ k \in Held /\ poll.items[k] = items[k] /\ poll.items[k] # None
                            /\ ~Reported(k) => ~Awaited(k)
            OBVIOUS
        <3>1. k \in Held /\ ~(items[k].seq > poll.lib)
            BY <1>1, <1>2, <2>1, <2>4 DEF Awaited
        <3>2. poll.items[k] = items[k] /\ poll.items[k] # None
            BY <1>1, <3>1 DEF ReadBehind, Held
        <3>3. k \in Keys
            BY <3>1 DEF Held
        <3>4. ~Reported(k) => ~Awaited(k)
            BY <1>1, <3>2, <3>3, Unreported DEF Awaited
        <3> QED BY <3>1, <3>2, <3>4
    <2>8. NoGapInItems'
        <3> SUFFICES ASSUME NEW k \in Held', ~Awaited(k)'
                     PROVE  told'[k] # None /\ told'[k].row = items'[k]
            BY DEF NoGapInItems
        <3>1. k \in Held /\ k \in Keys /\ poll.items[k] = items[k] /\ items'[k] = items[k]
            BY <1>1, <2>7 DEF Held
        <3>2. CASE Reported(k)
            BY <2>1, <2>6, <3>1, <3>2
        <3>3. CASE ~Reported(k)
            BY <2>1, <2>7, <3>1, <3>3 DEF NoGap, NoGapInItems
        <3> QED BY <3>2, <3>3
    <2>9. NoGapInPlaces'
        <3> SUFFICES ASSUME NEW k \in Held', NEW p \in Profiles, ~Awaited(k)',
                            places'[<<items'[k].id, p>>] # None,
                            ~(places'[<<items'[k].id, p>>].seq > cursor'.state)
                     PROVE  told'[k] # None /\ told'[k].places[p] = places'[<<items'[k].id, p>>]
            BY DEF NoGapInPlaces
        <3>1. /\ k \in Held /\ k \in Keys /\ poll.items[k] = items[k] /\ items'[k] = items[k]
              /\ poll.items[k] # None
            BY <1>1, <2>7 DEF Held
        <3> DEFINE x == <<items[k].id, p>>
        <3>2. x \in Ids \X Profiles
            BY <2>3, <3>1, Rows
        <3>3. places[x] # None /\ places'[x] = places[x] /\ places[x] = poll.places[x]
            BY <1>1, <2>1, <3>1, <3>2 DEF ReadBehind
        <3>4. CASE Reported(k)
            <4>1. told'[k].places = PlacesOf(items[k], poll.places) /\ told'[k] # None
                BY <2>1, <2>6, <3>1, <3>4
            <4>2. PlacesOf(items[k], poll.places)[p] = poll.places[x]
                BY DEF PlacesOf
            <4> QED BY <3>1, <3>3, <4>1, <4>2
        <3>5. CASE ~Reported(k)
            <4>1. ~Awaited(k) /\ told'[k] = told[k]
                BY <2>1, <2>7, <3>1, <3>5
            <4>2. ~(places[x].seq > cursor.state)
                BY <1>1, <3>1, <3>3, <3>5, Unreported
            <4> QED BY <3>1, <3>3, <4>1, <4>2 DEF NoGap, NoGapInPlaces
        <3> QED BY <3>4, <3>5
    <2>10. NoGapInDeletions'
        <3> SUFFICES ASSUME NEW k \in Held', ~Awaited(k)', told'[k] # None,
                            ~(delSeq > poll.lib)
                     PROVE  told'[k].work \subseteq Held
            BY <1>1, <1>2, <2>1 DEF NoGapInDeletions
        <3>1. k \in Held /\ k \in Keys /\ poll.items[k] # None
            BY <2>7 DEF Held
        <3>2. CASE Reported(k)
            <4>1. told'[k].work = Members(poll.items, k)
                BY <2>1, <3>1, <3>2
            <4>2. \A m \in Keys : poll.items[m] # None => items[m] # None
                BY <1>1 DEF ReadBehind
            <4> QED BY <4>1, <4>2 DEF Members, Held
        <3>3. CASE ~Reported(k)
            <4>1. ~Awaited(k) /\ told'[k] = told[k]
                BY <2>1, <2>7, <3>1, <3>3
            <4>2. delSeq = poll.del
                BY <1>1 DEF ReadBehind
            <4>3. ~(delSeq > cursor.lib)
                BY <1>1, <3>1, <3>3, <4>2, Unreported
            <4> QED BY <3>1, <4>1, <4>3 DEF NoGap, NoGapInDeletions
        <3> QED BY <3>2, <3>3
    <2> QED BY <1>3, <2>5, <2>8, <2>9, <2>10 DEF NoGap
<1> QED BY <1>4, <1>5

LEMMA StepKeeps == FeedInv /\ [Next]_vars => FeedInv'
<1> SUFFICES ASSUME FeedInv, [Next]_vars PROVE FeedInv'
    OBVIOUS
<1>1. TypeOK'
    BY TypeStep DEF FeedInv
<1>2. Cursors' /\ ReadBehind' /\ NoGap'
    <2>1. CASE UNCHANGED vars
        <3>1. items' = items /\ libSeq' = libSeq /\ delSeq' = delSeq /\ places' = places
              /\ stateSeq' = stateSeq /\ poll' = poll /\ cursor' = cursor /\ told' = told
            BY <2>1 DEF vars, libraryVars, stateVars, feedVars
        <3>2. Held' = Held /\ (\A k : Awaited(k)' <=> Awaited(k))
            BY <3>1 DEF Held, Awaited
        <3>3. NoGap'
            BY <3>1, <3>2 DEF FeedInv, NoGap, NoGapInItems, NoGapInPlaces, NoGapInDeletions
        <3> QED BY <3>1, <3>2, <3>3 DEF FeedInv, Cursors, ReadBehind
    <2> QED BY <2>1, WriteKeeps, ReadKeeps, AnswerKeeps DEF Next
<1> QED BY <1>1, <1>2 DEF FeedInv

(* What makes the promises below inductive (handleFeed reads the counters  *)
(* before the rows they are to cover): a poll is never ahead of the store, *)
(* nor behind the cursor it was asked with.                                *)
THEOREM FeedInductive == Spec => []FeedInv
<1>1. Init => FeedInv
    BY InitTypes, InitGap DEF FeedInv
<1> QED BY <1>1, StepKeeps, PTL DEF Spec

(* Whatever the mirror has not been told of an item, its cursor will still *)
(* bring it (main.go: duplicates are harmless, gaps would not be).         *)
THEOREM NoItemIsMissed == Spec => []NoGapInItems
<1>1. FeedInv => NoGapInItems
    BY DEF FeedInv, NoGap
<1> QED BY <1>1, FeedInductive, PTL

(* Nor is a place that somebody has set ever missed (SetPlace's seq).      *)
THEOREM NoPlaceIsMissed == Spec => []NoGapInPlaces
<1>1. FeedInv => NoGapInPlaces
    BY DEF FeedInv, NoGap
<1> QED BY <1>1, FeedInductive, PTL

(* Nor a file's removal from a work that is still there (deletion_seq).    *)
THEOREM NoDeletionIsMissed == Spec => []NoGapInDeletions
<1>1. FeedInv => NoGapInDeletions
    BY DEF FeedInv, NoGap
<1> QED BY <1>1, FeedInductive, PTL

(* A cursor never goes back: an answer carries counters that were read     *)
(* after the cursor it was asked with (handleFeed).                        *)
THEOREM CursorNeverGoesBack == Spec => CursorMonotone
<1> DEFINE Forward == cursor # None => cursor' # None /\ cursor'.lib >= cursor.lib
                                                     /\ cursor'.state >= cursor.state
<1>1. FeedInv /\ [Next]_vars => [Forward]_vars
    <2> SUFFICES ASSUME FeedInv, Next, cursor # None PROVE Forward
        OBVIOUS
    <2>1. cursor.lib \in Nat /\ cursor.state \in Nat
        BY DEF FeedInv, TypeOK, Cursor, Optional
    <2>2. CASE Answer
        <3>1. cursor' = [lib |-> poll.lib, state |-> poll.state] /\ poll.at = "answer"
            BY <2>2 DEF Answer
        <3>2. poll.lib \in Nat /\ poll.state \in Nat
            BY DEF FeedInv, TypeOK, Poll
        <3>3. cursor' # None
            BY <3>1, <3>2, FeedNoneAssumption DEF Cursor
        <3> QED BY <2>1, <3>1, <3>2, <3>3 DEF FeedInv, Cursors
    <2>3. CASE Lose \/ Read \/ Write
        <3>1. cursor' = cursor
            BY <2>3 DEF Lose, Read, ReadLib, ReadState, ReadDeletions, ReadItems, ReadPlaces,
                        Write, feedVars
        <3> QED BY <2>1, <3>1
    <2> QED BY <2>2, <2>3 DEF Next
<1>2. Spec => [][Forward]_vars
    BY <1>1, FeedInductive, PTL DEF Spec
<1> QED BY <1>2 DEF CursorMonotone
=============================================================================
