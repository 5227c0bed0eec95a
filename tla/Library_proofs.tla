--------------------------- MODULE Library_proofs ---------------------------
(***************************************************************************)
(* What a transaction of the store may do to the rows and the counters,    *)
(* whichever it is: the one fact the change feed and the scanner rest on.  *)
(***************************************************************************)
EXTENDS Library, FiniteSetTheorems, TLAPS

RowsOK ==
    /\ LibraryTypeOK
    /\ \A k \in Held : items[k].seq \in 1 .. libSeq
    /\ delSeq <= libSeq

(* Counters only grow; a row that is new or changed has a seq above the    *)
(* old counter, a row that went leaves a deletion mark above it; a place   *)
(* that is new or changed has a seq above the old state counter.           *)
LibraryEffect ==
    /\ {libSeq', delSeq'} \subseteq Nat
    /\ libSeq' >= libSeq
    /\ delSeq' = delSeq \/ (delSeq' > libSeq /\ delSeq' <= libSeq')
    /\ items' \in [Keys -> Optional(Row)]
    /\ \A k \in Keys : items'[k] # None =>
            items'[k] = items[k] \/ items'[k].seq \in libSeq + 1 .. libSeq'
    /\ \A k \in Held : items'[k] = None => delSeq' > libSeq
PlaceEffect ==
    /\ stateSeq' \in Nat
    /\ stateSeq' >= stateSeq
    /\ places' \in [Ids \X Profiles -> Optional(Place)]
    /\ \A x \in Ids \X Profiles : places'[x] # None =>
            places'[x] = places[x] \/ places'[x].seq > stateSeq

LEMMA BatchCounted ==
    ASSUME NEW batch \in SUBSET Keys
    PROVE  Cardinality(batch) \in Nat
BY FS_Subset, FS_CardinalityType, LibraryAssumption

(* A place is no less a place when the library is written, and so on.      *)
LEMMA Still ==
    ASSUME RowsOK
    PROVE  /\ UNCHANGED libraryVars => LibraryEffect
           /\ UNCHANGED stateVars => PlaceEffect
<1> USE DEF RowsOK, LibraryTypeOK
<1>1. UNCHANGED libraryVars => LibraryEffect
    BY DEF LibraryEffect, libraryVars, Held
<1>2. UNCHANGED stateVars => PlaceEffect
    BY DEF PlaceEffect, stateVars
<1> QED BY <1>1, <1>2

(* The shape of every transaction that writes rows: some keys get new rows *)
(* stamped above the counter, all others keep theirs.                      *)
LEMMA Stamped ==
    ASSUME RowsOK, libSeq' \in Nat, libSeq' >= libSeq, delSeq' = delSeq,
           NEW new, items' = [k \in Keys |-> new[k]],
           \A k \in Keys : new[k] = items[k]
                \/ (new[k] \in Row /\ new[k].seq \in libSeq + 1 .. libSeq')
    PROVE  LibraryEffect
<1>1. \A k \in Keys : new[k] \in Optional(Row)
    BY DEF RowsOK, LibraryTypeOK, Optional
<1>2. items' \in [Keys -> Optional(Row)] /\ \A k \in Keys : items'[k] = new[k]
    BY <1>1
<1>3. \A k \in Held : items'[k] # None
    BY <1>2, LibraryNoneAssumption DEF Held
<1>4. {libSeq', delSeq'} \subseteq Nat
    BY DEF RowsOK, LibraryTypeOK
<1> QED BY <1>2, <1>3, <1>4 DEF LibraryEffect

LEMMA UpsertedType ==
    ASSUME NEW row \in Optional(Row), NEW it \in Scanned, NEW id, NEW seq \in Nat,
           row = None => id \in Ids
    PROVE  /\ Upserted(row, it, id, seq) \in Row
           /\ Upserted(row, it, id, seq).seq = seq
<1>1. CASE row = None
    BY <1>1 DEF Upserted, Scanned, Row, Optional
<1>2. CASE row # None
    BY <1>2 DEF Upserted, Scanned, Row, Optional
<1> QED BY <1>1, <1>2

(* A row edited by any of the later writes is a row with the new seq.      *)
LEMMA IdentityEdit ==
    ASSUME NEW row \in Row, NEW seq \in Nat, NEW title \in Titles, NEW version \in Nat
    PROVE  LET new == [row EXCEPT !.title = title, !.version = version, !.seq = seq]
           IN  new \in Row /\ new.seq = seq
BY DEF Row

LEMMA MediaEdits ==
    ASSUME NEW row \in Row, NEW seq \in Nat, NEW sig \in Nat
    PROVE  LET new == [row EXCEPT !.sig = sig, !.seq = seq,
                          !.media = IF @ = None THEN None ELSE [@ EXCEPT !.subs = sig]]
           IN  new \in Row /\ new.seq = seq
<1> DEFINE media == IF row.media = None THEN None ELSE [row.media EXCEPT !.subs = sig]
<1>1. row.media \in Optional(Media)
    BY DEF Row
<1>2. media \in Optional(Media)
    BY <1>1 DEF Media, Optional
<1> HIDE DEF media
<1>3. LET new == [row EXCEPT !.sig = sig, !.seq = seq, !.media = media]
      IN  new \in Row /\ new.seq = seq
    BY <1>2 DEF Row
<1> QED BY <1>3 DEF media

LEMMA UpsertEffect ==
    ASSUME RowsOK, NEW batch \in SUBSET Keys, NEW it, \A k \in batch : it[k] \in Scanned,
           NEW order \in Orders(batch), UpsertBatch(batch, it, order)
    PROVE  LibraryEffect /\ PlaceEffect
<1> DEFINE n == Cardinality(batch)
           new(k) == Upserted(items[k], it[k], NewId(batch, order, k), libSeq + order[k])
<1>1. n \in Nat /\ libSeq \in Nat /\ libSeq' = libSeq + n
    BY BatchCounted DEF UpsertBatch, Bump, RowsOK, LibraryTypeOK
<1>2. \A k \in batch : order[k] \in 1 .. n
    BY DEF Orders
<1>3. ASSUME NEW k \in batch
      PROVE  new(k) \in Row /\ new(k).seq \in libSeq + 1 .. libSeq'
    <2>1. items[k] \in Optional(Row) /\ it[k] \in Scanned
        BY DEF RowsOK, LibraryTypeOK
    <2>2. items[k] = None => NewId(batch, order, k) \in Ids
        BY DEF UpsertBatch, Held
    <2>3. libSeq + order[k] \in libSeq + 1 .. libSeq'
        BY <1>1, <1>2
    <2>4. new(k) \in Row /\ new(k).seq = libSeq + order[k]
        BY <1>1, <2>1, <2>2, <2>3, UpsertedType
    <2> QED BY <2>3, <2>4
<1> DEFINE all == [k \in Keys |-> IF k \in batch THEN new(k) ELSE items[k]]
<1>4. items' = all /\ delSeq' = delSeq /\ UNCHANGED stateVars
    BY DEF UpsertBatch
<1>5. \A k \in Keys : all[k] = items[k]
            \/ (all[k] \in Row /\ all[k].seq \in libSeq + 1 .. libSeq')
    <2> HIDE DEF new
    <2> QED BY <1>3
<1>6. items' = [k \in Keys |-> all[k]]
    BY <1>4
<1> HIDE DEF all
<1> QED BY <1>1, <1>4, <1>5, <1>6, Stamped, Still

LEMMA IdentitiesEffect ==
    ASSUME RowsOK, NEW batch \in SUBSET Keys,
           NEW title, \A k \in batch : title[k] \in Titles,
           NEW version \in Nat, NEW order \in Orders(batch),
           UpdateIdentities(batch, title, version, order)
    PROVE  LibraryEffect /\ PlaceEffect
<1> DEFINE n == Cardinality(batch)
           new(k) == [items[k] EXCEPT !.title = title[k], !.version = version,
                                      !.seq = libSeq + order[k]]
           all == [k \in Keys |-> IF k \in batch \cap Held /\ ~items[k].overridden
                                  THEN new(k) ELSE items[k]]
<1>1. n \in Nat /\ libSeq \in Nat /\ libSeq' = libSeq + n
    BY BatchCounted DEF UpdateIdentities, Bump, RowsOK, LibraryTypeOK
<1>2. \A k \in batch : order[k] \in 1 .. n
    BY DEF Orders
<1>3. ASSUME NEW k \in batch \cap Held
      PROVE  new(k) \in Row /\ new(k).seq \in libSeq + 1 .. libSeq'
    <2>1. items[k] \in Row /\ title[k] \in Titles
        BY DEF RowsOK, LibraryTypeOK, Held, Optional
    <2>2. libSeq + order[k] \in libSeq + 1 .. libSeq'
        BY <1>1, <1>2
    <2>3. libSeq + order[k] \in Nat
        BY <1>1, <2>2
    <2> QED BY <2>1, <2>2, <2>3, IdentityEdit
<1>4. items' = all /\ delSeq' = delSeq /\ UNCHANGED stateVars
    BY DEF UpdateIdentities
<1>5. \A k \in Keys : all[k] = items[k]
            \/ (all[k] \in Row /\ all[k].seq \in libSeq + 1 .. libSeq')
    <2> HIDE DEF new
    <2> QED BY <1>3
<1>6. items' = [k \in Keys |-> all[k]]
    BY <1>4
<1> HIDE DEF all
<1> QED BY <1>1, <1>4, <1>5, <1>6, Stamped, Still

LEMMA SidecarsEffect ==
    ASSUME RowsOK, NEW batch \in SUBSET Keys, NEW sig, \A k \in batch : sig[k] \in Nat,
           NEW order \in Orders(batch), UpdateSidecars(batch, sig, order)
    PROVE  LibraryEffect /\ PlaceEffect
<1> DEFINE n == Cardinality(batch)
           new(k) == [items[k] EXCEPT !.sig = sig[k], !.seq = libSeq + order[k],
                         !.media = IF @ = None THEN None ELSE [@ EXCEPT !.subs = sig[k]]]
           all == [k \in Keys |-> IF k \in batch THEN new(k) ELSE items[k]]
<1>1. n \in Nat /\ libSeq \in Nat /\ libSeq' = libSeq + n
    BY BatchCounted DEF UpdateSidecars, Bump, RowsOK, LibraryTypeOK
<1>2. \A k \in batch : order[k] \in 1 .. n
    BY DEF Orders
<1>3. ASSUME NEW k \in batch
      PROVE  new(k) \in Row /\ new(k).seq \in libSeq + 1 .. libSeq'
    <2>1. items[k] \in Row /\ sig[k] \in Nat
        BY DEF UpdateSidecars, RowsOK, LibraryTypeOK, Held, Optional
    <2>2. libSeq + order[k] \in libSeq + 1 .. libSeq' /\ libSeq + order[k] \in Nat
        BY <1>1, <1>2
    <2> QED BY <2>1, <2>2, MediaEdits
<1>4. items' = all /\ delSeq' = delSeq /\ UNCHANGED stateVars
    BY DEF UpdateSidecars
<1>5. \A k \in Keys : all[k] = items[k]
            \/ (all[k] \in Row /\ all[k].seq \in libSeq + 1 .. libSeq')
    <2> HIDE DEF new
    <2> QED BY <1>3
<1>6. items' = [k \in Keys |-> all[k]]
    BY <1>4
<1> HIDE DEF all
<1> QED BY <1>1, <1>4, <1>5, <1>6, Stamped, Still

LEMMA EnrichmentEffect ==
    ASSUME RowsOK, NEW id \in Ids, NEW tmdb \in Enrichment, NEW title \in Titles,
           SetEnrichment(id, tmdb, title)
    PROVE  LibraryEffect /\ PlaceEffect
<1> DEFINE new(k) == [items[k] EXCEPT !.tmdb = tmdb, !.tmdbFor = title, !.seq = libSeq + 1]
           all == [k \in Keys |-> IF HasId(k, id) THEN new(k) ELSE items[k]]
<1>1. libSeq \in Nat /\ libSeq + 1 \in Nat /\ libSeq' = libSeq + 1
    <2>1. Bump(1)
        BY DEF SetEnrichment
    <2> QED BY <2>1 DEF Bump, RowsOK, LibraryTypeOK
<1>2. ASSUME NEW k \in Keys, HasId(k, id)
      PROVE  new(k) \in Row /\ new(k).seq = libSeq + 1
    <2>1. items[k] \in Row
        BY <1>2 DEF HasId, Held, RowsOK, LibraryTypeOK, Optional
    <2> DEFINE row == items[k]
               seq == libSeq + 1
    <2>2. row \in Row /\ seq \in Nat
        BY <1>1, <2>1
    <2> HIDE DEF row, seq
    <2>3. LET edited == [row EXCEPT !.tmdb = tmdb, !.tmdbFor = title, !.seq = seq]
          IN  edited \in Row /\ edited.seq = seq
        BY <2>2 DEF Row, Optional
    <2> QED BY <2>3 DEF row, seq
<1>3. items' = [k \in Keys |-> all[k]] /\ delSeq' = delSeq /\ UNCHANGED stateVars
    BY DEF SetEnrichment
<1>4. \A k \in Keys : all[k] = items[k]
            \/ (all[k] \in Row /\ all[k].seq \in libSeq + 1 .. libSeq')
    <2> HIDE DEF new
    <2> QED BY <1>1, <1>2
<1> HIDE DEF all
<1> QED BY <1>1, <1>3, <1>4, Stamped, Still

LEMMA OverrideEffect ==
    ASSUME RowsOK, NEW id \in Ids, NEW title \in Titles, OverrideIdentity(id, title)
    PROVE  LibraryEffect /\ PlaceEffect
<1> DEFINE new(k) == [items[k] EXCEPT !.title = title, !.overridden = TRUE, !.seq = libSeq + 1]
           all == [k \in Keys |-> IF HasId(k, id) THEN new(k) ELSE items[k]]
<1>1. libSeq \in Nat /\ libSeq + 1 \in Nat /\ libSeq' = libSeq + 1
    <2>1. Bump(1)
        BY DEF OverrideIdentity
    <2> QED BY <2>1 DEF Bump, RowsOK, LibraryTypeOK
<1>2. ASSUME NEW k \in Keys, HasId(k, id)
      PROVE  new(k) \in Row /\ new(k).seq = libSeq + 1
    <2>1. items[k] \in Row
        BY <1>2 DEF HasId, Held, RowsOK, LibraryTypeOK, Optional
    <2> DEFINE row == items[k]
               seq == libSeq + 1
    <2>2. row \in Row /\ seq \in Nat
        BY <1>1, <2>1
    <2> HIDE DEF row, seq
    <2>3. LET edited == [row EXCEPT !.title = title, !.overridden = TRUE, !.seq = seq]
          IN  edited \in Row /\ edited.seq = seq
        BY <2>2 DEF Row
    <2> QED BY <2>3 DEF row, seq
<1>3. items' = [k \in Keys |-> all[k]] /\ delSeq' = delSeq /\ UNCHANGED stateVars
    BY DEF OverrideIdentity
<1>4. \A k \in Keys : all[k] = items[k]
            \/ (all[k] \in Row /\ all[k].seq \in libSeq + 1 .. libSeq')
    <2> HIDE DEF new
    <2> QED BY <1>1, <1>2
<1> HIDE DEF all
<1> QED BY <1>1, <1>3, <1>4, Stamped, Still

LEMMA DeleteEffect ==
    ASSUME RowsOK, NEW gone, DeleteRows(gone)
    PROVE  LibraryEffect /\ PlaceEffect
<1> USE DEF RowsOK, LibraryTypeOK
<1> DEFINE left == [k \in Keys |-> IF k \in Held /\ items[k].id \in gone THEN None ELSE items[k]]
<1>1. items' = left /\ UNCHANGED stateVars
    BY DEF DeleteRows
<1>2. left \in [Keys -> Optional(Row)] /\ \A k \in Keys : left[k] \in {None, items[k]}
    BY DEF Optional
<1>3. CASE gone = {}
    <2>1. libSeq' = libSeq /\ delSeq' = delSeq
        BY <1>3 DEF DeleteRows
    <2>2. items' = items
        BY <1>1, <1>3
    <2> QED BY <1>1, <2>1, <2>2, Still DEF libraryVars
<1>4. CASE gone # {}
    <2>1. libSeq' = libSeq + 1 /\ delSeq' = libSeq + 1
        BY <1>4 DEF DeleteRows, Bump
    <2> HIDE DEF left
    <2>2. LibraryEffect
        BY <1>1, <1>2, <2>1 DEF LibraryEffect
    <2> QED BY <1>1, <2>2, Still
<1> QED BY <1>3, <1>4

LEMMA SetPlaceEffect ==
    ASSUME RowsOK, NEW id \in Ids, NEW profile \in Profiles, NEW position \in Nat,
           SetPlace(id, profile, position)
    PROVE  LibraryEffect /\ PlaceEffect
<1> USE DEF RowsOK, LibraryTypeOK
<1> DEFINE new == [position |-> position, seq |-> stateSeq + 1]
           here == <<id, profile>>
<1>1. here \in Ids \X Profiles /\ stateSeq' = stateSeq + 1 /\ UNCHANGED libraryVars
      /\ places' = [places EXCEPT ![here] = new]
    BY DEF SetPlace
<1>2. new \in Optional(Place) /\ new.seq = stateSeq + 1
    BY DEF Place, Optional
<1> HIDE DEF new, here
<1>3. PlaceEffect
    BY <1>1, <1>2 DEF PlaceEffect
<1> QED BY <1>1, <1>3, Still

LEMMA ClearPlaceEffect ==
    ASSUME RowsOK, NEW id \in Ids, NEW profile \in Profiles, ClearPlace(id, profile)
    PROVE  LibraryEffect /\ PlaceEffect
<1> USE DEF RowsOK, LibraryTypeOK
<1> DEFINE here == <<id, profile>>
<1>1. here \in Ids \X Profiles /\ stateSeq' = stateSeq /\ UNCHANGED libraryVars
      /\ places' = [places EXCEPT ![here] = None]
    BY DEF ClearPlace
<1> HIDE DEF here
<1>2. PlaceEffect
    BY <1>1 DEF PlaceEffect, Optional
<1> QED BY <1>1, <1>2, Still

(* Rows stay rows, behind the counter.                                     *)
LEMMA RowsKept ==
    ASSUME RowsOK, LibraryEffect, PlaceEffect
    PROVE  RowsOK'
<1>1. LibraryTypeOK'
    BY DEF LibraryTypeOK, LibraryEffect, PlaceEffect
<1>2. ASSUME NEW k \in Held'
      PROVE  items'[k].seq \in 1 .. libSeq'
    <2>1. CASE items'[k] = items[k]
        BY <1>2, <2>1 DEF RowsOK, Held, LibraryEffect, LibraryTypeOK
    <2>2. CASE items'[k].seq \in libSeq + 1 .. libSeq'
        BY <2>2 DEF RowsOK, LibraryTypeOK, LibraryEffect
    <2> QED BY <1>2, <2>1, <2>2 DEF Held, LibraryEffect
<1>3. delSeq' <= libSeq'
    BY DEF RowsOK, LibraryTypeOK, LibraryEffect
<1> QED BY <1>1, <1>2, <1>3 DEF RowsOK
=============================================================================
