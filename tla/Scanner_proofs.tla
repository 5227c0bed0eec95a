--------------------------- MODULE Scanner_proofs ---------------------------
(***************************************************************************)
(* What holds of the scanner for any bucket, any number of rounds beside   *)
(* each other and however much happens: the types, the rows that never say *)
(* of a new etag what an older content said, the corrections that stick,   *)
(* and the files that are not lost.                                        *)
(***************************************************************************)
EXTENDS Scanner, Library_proofs, WellFoundedInduction

(* A round's records: partial functions on the keys.                       *)
Some(S) == UNION {[D -> S] : D \in SUBSET Keys}
Listed == [etag : Nat, sig : Nat]
ScanType ==
    [at : {"idle", "listing", "sidecars", "probing", "removing"}, by : Optional(Rounds),
     listed : SUBSET Keys, known : Some(Row), seen : Some(Listed), todo : SUBSET Keys,
     batch : Some(Scanned), gone : SUBSET Ids]
PassType == [at : {"idle", "scanned", "enriching"}, list : SUBSET Waiting]
AskType ==
    [at : {"idle", "stat", "probe", "write", "lookup"}, key : Optional(Keys), id : Optional(Ids),
     title : Optional(Titles), etag : Nat, sig : Nat, media : Optional(Media)]

BucketOK ==
    /\ uploads \in Nat /\ obj \in [Keys -> 0 .. uploads] /\ subs \in [Keys -> {0, 1}]
    /\ build \in 1 .. MaxBuild /\ events \in 0 .. MaxEvents /\ absent \subseteq Keys
ScanOK == scan \in ScanType /\ scan.todo \subseteq Present
PassOK ==
    /\ pass \in [Rounds -> PassType]
    /\ \A r \in Rounds : pass[r].at = "enriching" <=> pass[r].list # {}
    /\ scan.at # "idle" => scan.by \in Rounds /\ pass[scan.by].at = "idle"
AskOK ==
    /\ ask \in AskType
    /\ ask.at \in {"stat", "probe", "write"} => ask.key \in Keys
    /\ ask.at = "lookup" => ask.id \in Ids /\ ask.title \in Titles

(* What was listed, asked for or probed, and is not written yet, says no   *)
(* newer etag than the content it goes with.                               *)
NotOlder(row) == row.media # None => row.media.of >= row.etag
MayBe(k, etag) == etag <= uploads /\ (obj[k] = 0 \/ etag <= obj[k])
SeenFresh == \A k \in Present : MayBe(k, scan.seen[k].etag)
BatchFresh == \A k \in DOMAIN scan.batch : NotOlder(scan.batch[k])
AskFresh ==
    /\ ask.at = "probe" => MayBe(ask.key, ask.etag)
    /\ ask.at = "write" => NotOlder(ask)

(* A row's id is its own, and an id that was read to be removed is that of *)
(* a row whose file was missing, also when another row is written first.   *)
OwnIds == \A j, k \in Held : items[j].id = items[k].id => j = k
AbsentOK ==
    scan.at # "idle" =>
        /\ \A k \in Keys : obj[k] = 0 => k \in absent
        /\ \A k \in scan.listed : k \in Present \cup absent
        /\ scan.at # "listing" => Keys \subseteq Present \cup absent
GoneOK ==
    scan.at = "removing" =>
        /\ \A id \in scan.gone : \E k \in Held : items[k].id = id
        /\ \A k \in Held : items[k].id \in scan.gone => k \in absent

StoreOK == RowsOK /\ OwnIds /\ MediaIsNotOlder
RoundsOK == BucketOK /\ ScanOK /\ PassOK /\ AskOK
Fresh == SeenFresh /\ BatchFresh /\ AskFresh
IInv == StoreOK /\ RoundsOK /\ Fresh /\ AbsentOK /\ GoneOK

-----------------------------------------------------------------------------
(* Numbers: a set of some has a least, and below a bound a largest.        *)
LEMMA Least ==
    ASSUME NEW S \in SUBSET Nat, S # {}
    PROVE  \E x \in S : \A y \in S : x <= y
<1> DEFINE T == {0 .. y : y \in S}
<1>1. T \subseteq FiniteSubsetsOf(Nat) /\ T # {}
    <2>1. \A y \in S : IsFiniteSet(0 .. y) /\ 0 .. y \in SUBSET Nat
        BY FS_Interval
    <2> QED BY <2>1 DEF FiniteSubsetsOf
<1>2. PICK t \in T : \A u \in T : <<u, t>> \notin StrictSubsetOrdering(Nat)
    BY <1>1, FS_StrictSubsetOrderingWellFounded, WFMin
<1>3. PICK x \in S : t = 0 .. x
    BY <1>2
<1>4. ASSUME NEW y \in S PROVE x <= y
    <2>1. <<0 .. y, 0 .. x>> \notin StrictSubsetOrdering(Nat)
        BY <1>2, <1>3
    <2>2. 0 .. y \subseteq Nat /\ 0 .. x \subseteq Nat
        OBVIOUS
    <2>3. ~(0 .. y \subseteq 0 .. x /\ 0 .. y # 0 .. x)
        BY <2>1, <2>2 DEF StrictSubsetOrdering
    <2>4. ASSUME y < x PROVE FALSE
        <3>1. 0 .. y \subseteq 0 .. x /\ x \in 0 .. x /\ x \notin 0 .. y
            BY <2>4
        <3> QED BY <2>3, <3>1
    <2> QED BY <2>4
<1> QED BY <1>4

LEMMA Largest ==
    ASSUME NEW S \in SUBSET Ids, S # {}
    PROVE  \E x \in S : \A y \in S : y <= x
<1> DEFINE T == {MaxId - y : y \in S}
<1>1. T \in SUBSET Nat /\ T # {}
    <2>1. MaxId \in Nat
        BY LibraryAssumption
    <2>2. \A y \in S : MaxId - y \in Nat
        BY <2>1 DEF Ids
    <2> QED BY <2>2
<1>2. PICK t \in T : \A u \in T : t <= u
    BY <1>1, Least
<1>3. PICK x \in S : t = MaxId - x
    BY <1>2
<1>4. \A y \in S : MaxId - x <= MaxId - y
    BY <1>2, <1>3
<1> QED BY <1>4, LibraryAssumption DEF Ids

(* Partial functions on the keys.                                          *)
LEMMA SomeIs ==
    ASSUME NEW S, NEW f
    PROVE  /\ f \in Some(S) => DOMAIN f \subseteq Keys /\ \A k \in DOMAIN f : f[k] \in S
           /\ \A D \in SUBSET Keys : f \in [D -> S] => f \in Some(S)
BY DEF Some

LEMMA NoneYet ==
    ASSUME NEW S
    PROVE  <<>> \in Some(S) /\ DOMAIN <<>> = {}
<1>1. <<>> \in [{} -> S]
    OBVIOUS
<1> QED BY <1>1, SomeIs

LEMMA OneMore ==
    ASSUME NEW S, NEW f \in Some(S), NEW k \in Keys, NEW v \in S
    PROVE  LET g == [j \in DOMAIN f \cup {k} |-> IF j = k THEN v ELSE f[j]]
           IN  g \in Some(S)
<1>1. DOMAIN f \cup {k} \in SUBSET Keys
    BY SomeIs
<1>2. [j \in DOMAIN f \cup {k} |-> IF j = k THEN v ELSE f[j]] \in [DOMAIN f \cup {k} -> S]
    BY SomeIs
<1> QED BY <1>1, <1>2, SomeIs

LEMMA ProbeType ==
    ASSUME BucketOK, NEW k \in Keys, NEW sig \in Nat
    PROVE  /\ ProbeOf(k, sig) \in Optional(Media)
           /\ ProbeOf(k, sig) # None => ProbeOf(k, sig).of = obj[k] /\ obj[k] # 0
<1>1. obj[k] \in Nat
    BY DEF BucketOK
<1> QED BY <1>1 DEF ProbeOf, Media, Optional

LEMMA RowType ==
    ASSUME BucketOK, NEW k \in Keys, NEW etag \in Nat, NEW sig \in Nat,
           NEW media \in Optional(Media)
    PROVE  RowOf(k, etag, sig, media) \in Scanned
<1>1. build \in Nat /\ Identify[build][k] \in Titles /\ ProbeVersion[build] \in Nat
    BY ScannerAssumption DEF BucketOK
<1> QED BY <1>1 DEF RowOf, Scanned

LEMMA TypesFollow == IInv => TypeOK
<1> SUFFICES ASSUME IInv PROVE TypeOK
    OBVIOUS
<1>1. LibraryTypeOK
    BY DEF IInv, StoreOK, RowsOK
<1>2. scan \in ScanType /\ scan.todo \subseteq Present
    BY DEF IInv, RoundsOK, ScanOK
<1>3. /\ \A k \in DOMAIN scan.known : k \in Keys /\ scan.known[k] \in Row
      /\ \A k \in DOMAIN scan.batch : k \in Keys /\ scan.batch[k] \in Scanned
    <2>1. scan.known \in Some(Row) /\ scan.batch \in Some(Scanned)
        BY <1>2 DEF ScanType
    <2> QED BY <2>1, SomeIs
<1>4. /\ scan.at \in {"idle", "listing", "sidecars", "probing", "removing"}
      /\ scan.by \in Optional(Rounds) /\ scan.listed \subseteq Keys /\ scan.gone \subseteq Ids
    BY <1>2 DEF ScanType
<1>5. /\ pass \in [Rounds -> [at : {"idle", "scanned", "enriching"}, list : SUBSET Waiting]]
      /\ \A r \in Rounds : pass[r].at = "enriching" <=> pass[r].list # {}
    BY DEF IInv, RoundsOK, PassOK, PassType
<1>6. ask.at \in {"idle", "stat", "probe", "write", "lookup"}
    BY DEF IInv, RoundsOK, AskOK, AskType
<1>7. BucketOK
    BY DEF IInv, RoundsOK
<1> QED BY <1>1, <1>2, <1>3, <1>4, <1>5, <1>6, <1>7 DEF TypeOK, BucketOK

LEMMA InitIInv == Init => IInv
<1> SUFFICES ASSUME Init PROVE IInv
    OBVIOUS
<1>1. /\ items = [k \in Keys |-> None] /\ libSeq = 0 /\ delSeq = 0
      /\ places = [x \in Ids \X Profiles |-> None] /\ stateSeq = 0
    BY DEF Init, LibraryInit
<1>2. Held = {}
    BY <1>1 DEF Held
<1>3. StoreOK
    BY <1>1, <1>2 DEF StoreOK, RowsOK, LibraryTypeOK, OwnIds, MediaIsNotOlder, Optional
<1>4. BucketOK
    <2>1. PICK there \in SUBSET Keys : obj = [k \in Keys |-> IF k \in there THEN 1 ELSE 0]
        BY DEF Init
    <2>2. uploads = 1 /\ subs = [k \in Keys |-> 0] /\ build = 1 /\ events = 0 /\ absent = {}
        BY DEF Init
    <2> QED BY <2>1, <2>2, ScannerAssumption DEF BucketOK
<1>5. scan = Idle
    BY DEF Init
<1>6. ScanOK /\ BatchFresh /\ SeenFresh
    BY <1>5, NoneYet DEF Idle, ScanOK, ScanType, Present, BatchFresh, SeenFresh, Optional
<1>7. PassOK /\ AbsentOK /\ GoneOK
    BY <1>5 DEF Init, Idle, NoPass, PassOK, PassType, AbsentOK, GoneOK
<1>8. AskOK /\ AskFresh
    BY DEF Init, NoAsk, AskOK, AskType, AskFresh, Optional
<1> QED BY <1>3, <1>4, <1>6, <1>7, <1>8 DEF IInv, RoundsOK, Fresh

-----------------------------------------------------------------------------
(* What a write to the store leaves of the rows: none is lost, each keeps  *)
(* its id, and a new one has an id nobody had.                             *)
NoneLost == \A k \in Held : k \in Held' /\ items'[k].id = items[k].id
NewIds == \A k \in Held' \ Held : \A j \in Held : items'[k].id # items[j].id
Corrected == \A k \in Held :
    items[k].overridden /\ items'[k] # None
    => items'[k].overridden /\ items'[k].title = items[k].title
Written == StoreOK' /\ NoneLost /\ NewIds

(* A write that edits rows and adds none. `Edit` of a row keeps its id, its*)
(* etag and the content it was probed from.                                *)
Kept(old, new) ==
    /\ new.id = old.id /\ new.etag = old.etag
    /\ new.media = None <=> old.media = None
    /\ old.media # None => new.media.of = old.media.of

LEMMA StillThere ==
    ASSUME StoreOK, LibraryEffect, delSeq' = delSeq, NEW k \in Held
    PROVE  items[k] \in Row /\ items'[k] \in Row
<1>1. delSeq \in Nat /\ libSeq \in Nat /\ delSeq <= libSeq
    BY DEF StoreOK, RowsOK, LibraryTypeOK
<1>2. items'[k] # None
    BY <1>1 DEF LibraryEffect
<1> QED BY <1>2 DEF StoreOK, RowsOK, LibraryTypeOK, LibraryEffect, Held, Optional

LEMMA EditsKeep ==
    ASSUME StoreOK, LibraryEffect, PlaceEffect, delSeq' = delSeq,
           \A k \in Keys : items'[k] = items[k] \/ (k \in Held /\ Kept(items[k], items'[k]))
    PROVE  Written
<1>1. RowsOK'
    BY RowsKept DEF StoreOK
<1>2. Held' = Held
    BY StillThere, LibraryNoneAssumption DEF Held
<1>3. \A k \in Held : items'[k] = items[k] \/ Kept(items[k], items'[k])
    BY DEF Held
<1>4. NoneLost
    BY <1>2, <1>3 DEF NoneLost, Kept
<1>5. NewIds
    BY <1>2 DEF NewIds
<1>6. OwnIds'
    BY <1>2, <1>4 DEF OwnIds, NoneLost, StoreOK
<1>7. MediaIsNotOlder'
    BY <1>2, <1>3 DEF MediaIsNotOlder, Kept, StoreOK
<1> QED BY <1>1, <1>4, <1>5, <1>6, <1>7 DEF Written, StoreOK

LEMMA NothingWritten ==
    ASSUME StoreOK, UNCHANGED <<libraryVars, stateVars>>
    PROVE  Written /\ Corrected
<1>1. LibraryEffect /\ PlaceEffect /\ items' = items /\ delSeq' = delSeq
    BY Still DEF StoreOK, libraryVars
<1> QED BY <1>1, EditsKeep DEF Corrected

LEMMA IdentitiesWritten ==
    ASSUME StoreOK, NEW batch \in SUBSET Keys, NEW title, \A k \in batch : title[k] \in Titles,
           NEW version \in Nat, NEW order \in Orders(batch),
           UpdateIdentities(batch, title, version, order)
    PROVE  Written /\ Corrected
<1>1. LibraryEffect /\ PlaceEffect /\ delSeq' = delSeq
    BY IdentitiesEffect DEF StoreOK, UpdateIdentities
<1>2. ASSUME NEW k \in Keys
      PROVE  \/ items'[k] = items[k]
             \/ /\ k \in Held /\ ~items[k].overridden
                /\ items'[k] = [items[k] EXCEPT !.title = title[k], !.version = version,
                                                !.seq = libSeq + order[k]]
    BY DEF UpdateIdentities
<1>3. ASSUME NEW k \in Held, NEW v, NEW t, NEW s,
             items'[k] = [items[k] EXCEPT !.title = t, !.version = v, !.seq = s]
      PROVE  Kept(items[k], items'[k])
    BY <1>1, <1>3, StillThere DEF Row, Kept
<1>4. ASSUME NEW k \in Keys, items'[k] # items[k]
      PROVE  k \in Held /\ Kept(items[k], items'[k]) /\ ~items[k].overridden
    <2>1. /\ k \in Held /\ ~items[k].overridden
          /\ items'[k] = [items[k] EXCEPT !.title = title[k], !.version = version,
                                          !.seq = libSeq + order[k]]
        BY <1>2, <1>4
    <2>2. Kept(items[k], items'[k])
        BY <1>3, <2>1
    <2> QED BY <2>1, <2>2
<1>5. Written
    BY <1>1, <1>4, EditsKeep
<1>6. Corrected
    BY <1>4, Zenon DEF Corrected, Held
<1> QED BY <1>5, <1>6

LEMMA SidecarsWritten ==
    ASSUME StoreOK, NEW batch \in SUBSET Keys, NEW sig, \A k \in batch : sig[k] \in Nat,
           NEW order \in Orders(batch), UpdateSidecars(batch, sig, order)
    PROVE  Written /\ Corrected
<1>1. LibraryEffect /\ PlaceEffect /\ delSeq' = delSeq
    BY SidecarsEffect DEF StoreOK, UpdateSidecars
<1> DEFINE media(k) == IF items[k].media = None THEN None
                       ELSE [items[k].media EXCEPT !.subs = sig[k]]
<1>2. ASSUME NEW k \in Keys
      PROVE  \/ items'[k] = items[k]
             \/ /\ k \in Held /\ sig[k] \in Nat
                /\ items'[k] = [items[k] EXCEPT !.sig = sig[k], !.seq = libSeq + order[k],
                                                !.media = media(k)]
    BY DEF UpdateSidecars
<1>3. ASSUME NEW k \in Held, sig[k] \in Nat
      PROVE  /\ media(k) = None <=> items[k].media = None
             /\ items[k].media # None => media(k).of = items[k].media.of
    <2>1. items[k].media \in Optional(Media)
        BY <1>1, StillThere DEF Row
    <2>2. CASE items[k].media = None
        BY <2>2
    <2>3. CASE items[k].media # None
        <3>1. [items[k].media EXCEPT !.subs = sig[k]] \in Media
            BY <1>3, <2>1, <2>3 DEF Media, Optional
        <3>2. [items[k].media EXCEPT !.subs = sig[k]] # None
            BY <3>1, LibraryNoneAssumption
        <3> QED BY <2>1, <2>3, <3>2 DEF Media, Optional
    <2> QED BY <2>2, <2>3
<1> HIDE DEF media
<1>4. ASSUME NEW k \in Keys, items'[k] # items[k]
      PROVE  /\ k \in Held /\ Kept(items[k], items'[k])
             /\ items'[k].title = items[k].title
             /\ items'[k].overridden = items[k].overridden
    <2>1. /\ k \in Held /\ sig[k] \in Nat
          /\ items'[k] = [items[k] EXCEPT !.sig = sig[k], !.seq = libSeq + order[k],
                                          !.media = media(k)]
        BY <1>2, <1>4
    <2>2. /\ items'[k].id = items[k].id /\ items'[k].etag = items[k].etag
          /\ items'[k].media = media(k) /\ items'[k].title = items[k].title
          /\ items'[k].overridden = items[k].overridden
        BY <1>1, <2>1, StillThere DEF Row
    <2> QED BY <1>3, <2>1, <2>2, Zenon DEF Kept
<1>5. Written
    BY <1>1, <1>4, EditsKeep
<1>6. Corrected
    BY <1>4, Zenon DEF Corrected, Held
<1> QED BY <1>5, <1>6

LEMMA EnrichmentWritten ==
    ASSUME StoreOK, NEW id \in Ids, NEW tmdb \in Enrichment, NEW title \in Titles,
           SetEnrichment(id, tmdb, title)
    PROVE  Written /\ Corrected
<1>1. LibraryEffect /\ PlaceEffect /\ delSeq' = delSeq
    BY EnrichmentEffect DEF StoreOK, SetEnrichment
<1>2. ASSUME NEW k \in Keys
      PROVE  \/ items'[k] = items[k]
             \/ /\ k \in Held
                /\ items'[k] = [items[k] EXCEPT !.tmdb = tmdb, !.tmdbFor = title, !.seq = libSeq + 1]
    BY DEF SetEnrichment, HasId
<1>3. ASSUME NEW k \in Held, NEW s,
             items'[k] = [items[k] EXCEPT !.tmdb = tmdb, !.tmdbFor = title, !.seq = s]
      PROVE  /\ Kept(items[k], items'[k]) /\ items'[k].title = items[k].title
             /\ items'[k].overridden = items[k].overridden
    BY <1>1, <1>3, StillThere DEF Row, Kept
<1>4. Written
    BY <1>1, <1>2, <1>3, EditsKeep
<1>5. Corrected
    BY <1>2, <1>3 DEF Corrected, Held
<1> QED BY <1>4, <1>5

(* A person's correction is the one write that may change a corrected row. *)
LEMMA OverrideWritten ==
    ASSUME StoreOK, NEW id \in Ids, NEW title \in Titles, OverrideIdentity(id, title)
    PROVE  Written
<1>1. LibraryEffect /\ PlaceEffect /\ delSeq' = delSeq
    BY OverrideEffect DEF StoreOK, OverrideIdentity
<1>2. ASSUME NEW k \in Keys
      PROVE  \/ items'[k] = items[k]
             \/ /\ k \in Held
                /\ items'[k] = [items[k] EXCEPT !.title = title, !.overridden = TRUE,
                                                !.seq = libSeq + 1]
    BY DEF OverrideIdentity, HasId
<1>3. ASSUME NEW k \in Held, NEW s, NEW o,
             items'[k] = [items[k] EXCEPT !.title = title, !.overridden = o, !.seq = s]
      PROVE  Kept(items[k], items'[k])
    BY <1>1, <1>3, StillThere DEF Row, Kept
<1> QED BY <1>1, <1>2, <1>3, EditsKeep

(* The largest id of the table, and what is handed out above it.           *)
LEMMA LastIdIsLast ==
    ASSUME StoreOK
    PROVE  LastId \in Nat /\ \A k \in Held : items[k].id \in Ids /\ items[k].id <= LastId
<1>1. \A k \in Held : items[k].id \in Ids
    BY DEF StoreOK, RowsOK, LibraryTypeOK, Held, Optional, Row
<1>2. CASE Held = {}
    BY <1>2 DEF LastId
<1>3. CASE Held # {}
    <2> DEFINE IsLast(k) == \A j \in Held : items[j].id <= items[k].id
    <2>1. {items[k].id : k \in Held} \in SUBSET Ids /\ {items[k].id : k \in Held} # {}
        BY <1>1, <1>3
    <2>2. \E x \in {items[k].id : k \in Held} : \A y \in {items[k].id : k \in Held} : y <= x
        BY <2>1, Largest
    <2>3. \E k \in Held : IsLast(k)
        BY <2>2
    <2> DEFINE last == CHOOSE k \in Held : IsLast(k)
    <2>4. last \in Held /\ IsLast(last)
        BY <2>3
    <2>5. LastId = items[last].id
        BY <1>3 DEF LastId
    <2> HIDE DEF last
    <2> QED BY <1>1, <2>4, <2>5 DEF Ids
<1> QED BY <1>2, <1>3

LEMMA HandedOut ==
    ASSUME StoreOK, NEW batch \in SUBSET Keys, NEW order \in Orders(batch),
           NEW k \in batch \ Held
    PROVE  /\ NewId(batch, order, k) \in Nat /\ NewId(batch, order, k) > LastId
           /\ \A j \in batch \ Held : j # k => NewId(batch, order, j) # NewId(batch, order, k)
<1> DEFINE Upto(j) == {i \in batch \ Held : order[i] <= order[j]}
<1>1. \A j \in batch : order[j] \in Int
    BY DEF Orders
<1>2. \A j \in batch \ Held : /\ IsFiniteSet(Upto(j)) /\ Cardinality(Upto(j)) \in Nat
                             /\ j \in Upto(j)
    <2>1. \A j : Upto(j) \in SUBSET Keys
        OBVIOUS
    <2>2. \A j : IsFiniteSet(Upto(j)) /\ Cardinality(Upto(j)) \in Nat
        BY <2>1, BatchCounted, FS_Subset, LibraryAssumption
    <2> QED BY <1>1, <2>2
<1>3. \A j \in batch \ Held : NewId(batch, order, j) = LastId + Cardinality(Upto(j))
    BY DEF NewId
<1>4. ASSUME NEW i \in batch \ Held, NEW j \in batch \ Held, order[i] < order[j]
      PROVE  Cardinality(Upto(i)) < Cardinality(Upto(j))
    <2>1. Upto(i) \in SUBSET Upto(j)
        BY <1>1, <1>4
    <2>2. j \in Upto(j) /\ j \notin Upto(i)
        BY <1>1, <1>4
    <2> HIDE DEF Upto
    <2>3. Cardinality(Upto(i)) <= Cardinality(Upto(j))
          /\ Cardinality(Upto(i)) # Cardinality(Upto(j))
        BY <1>2, <2>1, <2>2, FS_Subset
    <2> QED BY <1>2, <2>3
<1>5. Cardinality(Upto(k)) \in Nat \ {0}
    <2> HIDE DEF Upto
    <2> QED BY <1>2, FS_EmptySet
<1>6. ASSUME NEW j \in batch \ Held, j # k
      PROVE  NewId(batch, order, j) # NewId(batch, order, k)
    <2>1. order[j] # order[k]
        BY <1>6 DEF Orders
    <2>2. order[j] < order[k] \/ order[k] < order[j]
        BY <1>1, <2>1
    <2>3. Cardinality(Upto(j)) # Cardinality(Upto(k))
        <3> HIDE DEF Upto
        <3> QED BY <1>2, <1>4, <2>2
    <2> HIDE DEF Upto
    <2> QED BY <1>2, <1>3, <2>3, LastIdIsLast
<1> HIDE DEF Upto
<1> QED BY <1>3, <1>5, <1>6, LastIdIsLast

LEMMA UpsertWritten ==
    ASSUME StoreOK, NEW batch \in SUBSET Keys, NEW it,
           \A k \in batch : it[k] \in Scanned /\ NotOlder(it[k]),
           NEW order \in Orders(batch), UpsertBatch(batch, it, order)
    PROVE  Written /\ Corrected
<1>1. LibraryEffect /\ PlaceEffect /\ delSeq' = delSeq
    BY UpsertEffect DEF StoreOK, UpsertBatch
<1>2. RowsOK'
    BY <1>1, RowsKept DEF StoreOK
<1>3. ASSUME NEW k \in Keys
      PROVE  items'[k] = IF k \in batch
                         THEN Upserted(items[k], it[k], NewId(batch, order, k), libSeq + order[k])
                         ELSE items[k]
    BY DEF UpsertBatch
<1>4. ASSUME NEW k \in batch
      PROVE  /\ items'[k].id = IF k \in Held THEN items[k].id ELSE NewId(batch, order, k)
             /\ items'[k].etag = it[k].etag /\ items'[k].media = it[k].media
             /\ k \in Held /\ items[k].overridden
                => items'[k].title = items[k].title /\ items'[k].overridden
    <2>1. k \in Held <=> items[k] # None
        BY DEF Held
    <2> DEFINE id == NewId(batch, order, k)
               seq == libSeq + order[k]
    <2>2. items'[k] = Upserted(items[k], it[k], id, seq)
        BY <1>3
    <2> HIDE DEF id, seq
    <2>3. /\ items'[k].id = IF k \in Held THEN items[k].id ELSE id
          /\ items'[k].etag = it[k].etag /\ items'[k].media = it[k].media
        BY <2>1, <2>2 DEF Upserted
    <2>4. ASSUME k \in Held, items[k].overridden
          PROVE  items'[k].title = items[k].title
        BY <2>1, <2>2, <2>4 DEF Upserted
    <2>5. items'[k].overridden = (items[k] # None /\ items[k].overridden)
        BY <2>2 DEF Upserted
    <2> QED BY <2>1, <2>3, <2>4, <2>5, Zenon DEF id
<1>5. Held \subseteq Held' /\ Held' \subseteq Held \cup batch
    BY <1>1, <1>3, StillThere, LibraryNoneAssumption DEF Held
<1>6. NoneLost
    BY <1>3, <1>4, <1>5 DEF NoneLost, Held
<1>7. \A k \in Held' \ Held : k \in batch \ Held /\ items'[k].id = NewId(batch, order, k)
    BY <1>4, <1>5
<1>8. NewIds
    <2> SUFFICES ASSUME NEW k \in Held' \ Held, NEW j \in Held
                 PROVE  items'[k].id # items[j].id
        BY DEF NewIds
    <2>1. items'[k].id \in Nat /\ items'[k].id > LastId
        BY <1>7, HandedOut
    <2> QED BY <2>1, LastIdIsLast DEF Ids
<1>9. OwnIds'
    <2> SUFFICES ASSUME NEW j \in Held', NEW k \in Held', items'[j].id = items'[k].id
                 PROVE  j = k
        BY DEF OwnIds
    <2>1. CASE j \in Held /\ k \in Held
        BY <1>6, <2>1 DEF NoneLost, StoreOK, OwnIds
    <2>2. CASE j \in Held /\ k \notin Held
        BY <1>6, <1>8, <2>2 DEF NoneLost, NewIds
    <2>3. CASE j \notin Held /\ k \in Held
        BY <1>6, <1>8, <2>3 DEF NoneLost, NewIds
    <2>4. CASE j \notin Held /\ k \notin Held
        BY <1>7, <2>4, HandedOut
    <2> QED BY <2>1, <2>2, <2>3, <2>4
<1>10. MediaIsNotOlder'
    <2> SUFFICES ASSUME NEW k \in Held' PROVE NotOlder(items'[k])
        BY DEF MediaIsNotOlder, NotOlder
    <2>1. CASE k \in batch
        BY <1>4, <2>1 DEF NotOlder
    <2>2. CASE k \notin batch
        BY <1>3, <1>5, <2>2 DEF Held, StoreOK, MediaIsNotOlder, NotOlder
    <2> QED BY <2>1, <2>2
<1>11. Corrected
    BY <1>3, <1>4 DEF Corrected, Held
<1> QED BY <1>2, <1>6, <1>8, <1>9, <1>10, <1>11 DEF Written, StoreOK

(* A deletion takes the rows it names and leaves the others as they were.  *)
LEMMA DeleteWritten ==
    ASSUME StoreOK, NEW gone, DeleteRows(gone)
    PROVE  StoreOK' /\ Corrected
<1>1. RowsOK'
    BY DeleteEffect, RowsKept DEF StoreOK
<1>2. \A k \in Keys : items'[k] = items[k] \/ items'[k] = None
    BY DEF DeleteRows
<1>3. \A k \in Held' : k \in Held /\ items'[k] = items[k]
    BY <1>2 DEF Held
<1>4. OwnIds' /\ MediaIsNotOlder'
    BY <1>3 DEF StoreOK, OwnIds, MediaIsNotOlder
<1>5. Corrected
    BY <1>2 DEF Corrected, Held
<1> QED BY <1>1, <1>4, <1>5 DEF StoreOK

-----------------------------------------------------------------------------
(* What the parts of the invariant need of a step.                         *)
LEMMA GoneKept ==
    ASSUME GoneOK, Written, scan'.at = scan.at, scan'.gone = scan.gone, absent \subseteq absent'
    PROVE  GoneOK'
<1> SUFFICES ASSUME scan.at = "removing"
             PROVE  /\ \A id \in scan.gone : \E k \in Held' : items'[k].id = id
                    /\ \A k \in Held' : items'[k].id \in scan.gone => k \in absent
    BY DEF GoneOK
<1>1. /\ \A id \in scan.gone : \E k \in Held : items[k].id = id
      /\ \A k \in Held : items[k].id \in scan.gone => k \in absent
    BY DEF GoneOK
<1>2. /\ \A k \in Held : k \in Held' /\ items'[k].id = items[k].id
      /\ \A k \in Held' \ Held : \A j \in Held : items'[k].id # items[j].id
    BY DEF Written, NoneLost, NewIds
<1>3. \A id \in scan.gone : \E k \in Held' : items'[k].id = id
    BY <1>1, <1>2
<1>4. ASSUME NEW k \in Held', items'[k].id \in scan.gone
      PROVE  k \in absent
    <2>1. PICK j \in Held : items[j].id = items'[k].id
        BY <1>1, <1>4
    <2>2. k \in Held
        BY <1>2, <2>1
    <2> QED BY <1>1, <1>2, <1>4, <2>2
<1> QED BY <1>3, <1>4

LEMMA ByTheScan ==
    ASSUME IInv, Written, UNCHANGED <<bucketVars, build, pass, ask, events, absent>>,
           scan.at # "idle", scan'.at # "idle", scan'.by = scan.by,
           scan' \in ScanType, scan'.todo \subseteq DOMAIN scan'.seen,
           SeenFresh', BatchFresh', AbsentOK', GoneOK'
    PROVE  IInv'
<1>1. BucketOK' /\ AskOK' /\ AskFresh'
    BY DEF IInv, RoundsOK, BucketOK, bucketVars, AskOK, AskType, Fresh, AskFresh, MayBe, NotOlder
<1>2. PassOK'
    BY DEF IInv, RoundsOK, PassOK
<1>3. ScanOK'
    BY DEF ScanOK, ScanType, Present
<1> QED BY <1>1, <1>2, <1>3 DEF IInv, RoundsOK, Fresh, Written

LEMMA BesideTheScan ==
    ASSUME IInv, Written, UNCHANGED <<bucketVars, build, scan, absent>>,
           events' \in 0 .. MaxEvents, PassOK', AskOK', AskFresh'
    PROVE  IInv'
<1>1. BucketOK'
    BY DEF IInv, RoundsOK, BucketOK, bucketVars
<1>2. ScanOK' /\ SeenFresh' /\ BatchFresh' /\ AbsentOK'
    BY DEF IInv, RoundsOK, ScanOK, Present, Fresh, SeenFresh, BatchFresh, AbsentOK, MayBe, bucketVars
<1>3. GoneOK'
    BY GoneKept DEF IInv
<1> QED BY <1>1, <1>2, <1>3 DEF IInv, RoundsOK, Fresh, Written

LEMMA NoScan ==
    ASSUME IInv, StoreOK', BucketOK', scan' = Idle, PassOK', AskOK', AskFresh'
    PROVE  IInv'
<1>1. ScanOK' /\ SeenFresh' /\ BatchFresh' /\ AbsentOK' /\ GoneOK'
    BY NoneYet DEF Idle, ScanOK, ScanType, Present, BatchFresh, SeenFresh, AbsentOK, GoneOK, Optional
<1> QED BY <1>1 DEF IInv, RoundsOK, Fresh

LEMMA Counted ==
    ASSUME IInv
    PROVE  /\ events \in 0 .. MaxEvents
           /\ Happens => events' \in 0 .. MaxEvents
           /\ events' = events => events' \in 0 .. MaxEvents
BY ScannerAssumption DEF IInv, RoundsOK, BucketOK, Happens

(* What a scan holds, by its fields.                                       *)
LEMMA ScanFields ==
    ASSUME IInv
    PROVE  /\ scan \in ScanType /\ scan.todo \subseteq Present /\ Present \subseteq Keys
           /\ scan.by \in Optional(Rounds) /\ scan.listed \subseteq Keys /\ scan.gone \subseteq Ids
           /\ scan.known \in Some(Row) /\ scan.seen \in Some(Listed) /\ scan.batch \in Some(Scanned)
           /\ \A k \in Present : scan.seen[k].etag \in Nat /\ scan.seen[k].sig \in Nat
<1>1. scan \in ScanType /\ scan.todo \subseteq Present
    BY DEF IInv, RoundsOK, ScanOK
<1>2. /\ scan.by \in Optional(Rounds) /\ scan.listed \subseteq Keys /\ scan.gone \subseteq Ids
      /\ scan.known \in Some(Row) /\ scan.seen \in Some(Listed) /\ scan.batch \in Some(Scanned)
    BY <1>1 DEF ScanType
<1>3. Present \subseteq Keys /\ \A k \in Present : scan.seen[k] \in Listed
    BY <1>2, SomeIs DEF Present
<1> QED BY <1>1, <1>2, <1>3 DEF Listed

-----------------------------------------------------------------------------
(* The scan's steps.                                                       *)
LEMMA BeginScanKeeps ==
    ASSUME IInv, NEW r \in Rounds, BeginScan(r)
    PROVE  IInv'
<1>1. /\ scan.at = "idle" /\ pass[r].at = "idle"
      /\ scan' = [Idle EXCEPT !.at = "listing", !.by = r, !.known = KnownState]
      /\ absent' = {k \in Keys : obj[k] = 0}
      /\ UNCHANGED <<libraryVars, stateVars, bucketVars, build, pass, ask, events>>
    BY DEF BeginScan
<1>2. StoreOK'
    BY <1>1, NothingWritten DEF IInv, Written
<1>3. BucketOK' /\ AskOK' /\ AskFresh' /\ PassOK'
    <2>1. BucketOK'
        BY <1>1 DEF IInv, RoundsOK, BucketOK, bucketVars
    <2>2. AskOK' /\ AskFresh'
        BY <1>1 DEF IInv, RoundsOK, AskOK, AskType, Fresh, AskFresh, MayBe, NotOlder, bucketVars
    <2>3. PassOK'
        BY <1>1 DEF IInv, RoundsOK, PassOK, Idle
    <2> QED BY <2>1, <2>2, <2>3
<1>4. KnownState \in Some(Row)
    <2>1. KnownState \in [Held -> Row] /\ Held \in SUBSET Keys
        BY DEF KnownState, Held, IInv, StoreOK, RowsOK, LibraryTypeOK, Optional
    <2> QED BY <2>1, SomeIs
<1>5. /\ scan'.at = "listing" /\ scan'.by = r /\ scan'.listed = {} /\ scan'.known = KnownState
      /\ scan'.seen = <<>> /\ scan'.todo = {} /\ scan'.batch = <<>> /\ scan'.gone = {}
      /\ scan' \in ScanType
    BY <1>1, <1>4, NoneYet DEF Idle, ScanType, Optional
<1>6. ScanOK' /\ SeenFresh' /\ BatchFresh'
    BY <1>5, NoneYet DEF ScanOK, ScanType, Present, SeenFresh, BatchFresh
<1>7. AbsentOK' /\ GoneOK'
    BY <1>1, <1>5 DEF AbsentOK, GoneOK, bucketVars
<1> QED BY <1>2, <1>3, <1>6, <1>7 DEF IInv, RoundsOK, Fresh

LEMMA ListKeeps ==
    ASSUME IInv, NEW k \in Keys, List(k)
    PROVE  IInv'
<1> DEFINE seen == IF obj[k] = 0 THEN scan.seen
                   ELSE [j \in DOMAIN scan.seen \cup {k} |-> IF j = k THEN Found(k) ELSE scan.seen[j]]
<1>1. /\ scan.at = "listing"
      /\ scan' = [scan EXCEPT !.listed = @ \cup {k}, !.seen = seen]
      /\ UNCHANGED <<libraryVars, stateVars, bucketVars, build, pass, ask, events, absent>>
    BY DEF List
<1>2. obj[k] \in 0 .. uploads /\ uploads \in Nat /\ subs[k] \in Nat
    BY DEF IInv, RoundsOK, BucketOK
<1>3. Found(k) \in Listed /\ Found(k).etag = obj[k]
    BY <1>2 DEF Found, Listed
<1>4. /\ seen \in Some(Listed) /\ Present \subseteq DOMAIN seen
      /\ obj[k] # 0 => k \in DOMAIN seen
      /\ \A j \in DOMAIN seen :
            (j \in Present /\ seen[j] = scan.seen[j]) \/ (j = k /\ seen[j] = Found(k))
    <2>1. CASE obj[k] = 0
        <3>1. seen = scan.seen
            BY <2>1
        <3> HIDE DEF seen
        <3> QED BY <2>1, <3>1, ScanFields DEF Present
    <2>2. CASE obj[k] # 0
        <3> DEFINE more == [j \in DOMAIN scan.seen \cup {k} |->
                               IF j = k THEN Found(k) ELSE scan.seen[j]]
        <3>1. seen = more
            BY <2>2
        <3>2. more \in Some(Listed)
            BY <1>3, ScanFields, OneMore
        <3>3. /\ DOMAIN more = DOMAIN scan.seen \cup {k}
              /\ \A j \in DOMAIN more : more[j] = IF j = k THEN Found(k) ELSE scan.seen[j]
            OBVIOUS
        <3> HIDE DEF more, seen
        <3> QED BY <3>1, <3>2, <3>3 DEF Present
    <2> QED BY <2>1, <2>2
<1> HIDE DEF seen
<1>5. /\ scan' \in ScanType /\ scan'.at = "listing" /\ scan'.by = scan.by /\ scan'.seen = seen
      /\ scan'.listed = scan.listed \cup {k} /\ scan'.todo = scan.todo /\ scan'.batch = scan.batch
    BY <1>1, <1>4, ScanFields DEF ScanType
<1>6. SeenFresh'
    <2> SUFFICES ASSUME NEW j \in DOMAIN seen PROVE MayBe(j, seen[j].etag)
        BY <1>1, <1>5 DEF SeenFresh, Present, MayBe, bucketVars
    <2>1. CASE j \in Present /\ seen[j] = scan.seen[j]
        BY <2>1 DEF IInv, Fresh, SeenFresh
    <2>2. CASE j = k /\ seen[j] = Found(k)
        BY <2>2, <1>2, <1>3 DEF MayBe
    <2> QED BY <1>4, <2>1, <2>2
<1>7. BatchFresh'
    BY <1>5 DEF IInv, Fresh, BatchFresh, NotOlder
<1>8. AbsentOK' /\ GoneOK'
    BY <1>1, <1>4, <1>5 DEF IInv, AbsentOK, GoneOK, Present, bucketVars
<1>9. scan'.todo \subseteq DOMAIN scan'.seen
    BY <1>4, <1>5, ScanFields
<1>10. Written
    BY <1>1, NothingWritten DEF IInv
<1> QED BY <1>1, <1>5, <1>6, <1>7, <1>8, <1>9, <1>10, ByTheScan

LEMMA RefreshIdentitiesKeeps ==
    ASSUME IInv, RefreshIdentities
    PROVE  IInv' /\ Corrected /\ NoneLost
<1>1. /\ scan.at = "listing" /\ scan.listed = Keys
      /\ scan' = [scan EXCEPT !.at = "sidecars", !.todo = {k \in Present : ~Unchanged(k)}]
      /\ UNCHANGED <<bucketVars, build, pass, ask, events, absent>>
    BY DEF RefreshIdentities, Diffed
<1>2. Written /\ Corrected
    <2>1. CASE ToRefresh = {}
        BY <2>1, NothingWritten DEF RefreshIdentities, IInv
    <2>2. CASE ToRefresh # {}
        <3>1. ToRefresh \in SUBSET Keys /\ build \in Nat
            BY DEF ToRefresh, IInv, RoundsOK, BucketOK
        <3>2. \A k \in ToRefresh : Identify[build][k] \in Titles
            BY <3>1, ScannerAssumption DEF IInv, RoundsOK, BucketOK
        <3>3. PICK order \in Orders(ToRefresh) :
                UpdateIdentities(ToRefresh, Identify[build], build, order)
            BY <2>2 DEF RefreshIdentities
        <3> QED BY <3>1, <3>2, <3>3, IdentitiesWritten DEF IInv
    <2> QED BY <2>1, <2>2
<1>3. /\ scan' \in ScanType /\ scan'.at = "sidecars" /\ scan'.by = scan.by /\ scan'.seen = scan.seen
      /\ scan'.listed = Keys /\ scan'.todo \subseteq Present /\ scan'.batch = scan.batch
    BY <1>1, ScanFields DEF ScanType
<1>4. SeenFresh' /\ BatchFresh'
    BY <1>1, <1>3 DEF IInv, Fresh, SeenFresh, BatchFresh, NotOlder, Present, MayBe, bucketVars
<1>5. AbsentOK' /\ GoneOK'
    BY <1>1, <1>3 DEF IInv, AbsentOK, GoneOK, Present, bucketVars
<1> QED BY <1>1, <1>2, <1>3, <1>4, <1>5, ByTheScan DEF Present, Written

LEMMA RefreshSidecarsKeeps ==
    ASSUME IInv, RefreshSidecars
    PROVE  IInv' /\ Corrected /\ NoneLost
<1> DEFINE batch == ToReattach \cap Held
<1>1. /\ scan.at = "sidecars"
      /\ scan' = [scan EXCEPT !.at = "probing", !.known = <<>>, !.listed = {}]
      /\ UNCHANGED <<bucketVars, build, pass, ask, events, absent>>
    BY DEF RefreshSidecars
<1>2. Written /\ Corrected
    <2>1. CASE batch = {}
        BY <2>1, NothingWritten DEF RefreshSidecars, IInv
    <2>2. CASE batch # {}
        <3>1. batch \in SUBSET Keys /\ \A k \in batch : SeenSig[k] \in Nat
            BY ScanFields DEF ToReattach, Unchanged, SeenSig
        <3>2. PICK order \in Orders(batch) : UpdateSidecars(batch, SeenSig, order)
            BY <2>2 DEF RefreshSidecars
        <3> HIDE DEF batch
        <3> QED BY <3>1, <3>2, SidecarsWritten DEF IInv
    <2> QED BY <2>1, <2>2
<1>3. /\ scan' \in ScanType /\ scan'.at = "probing" /\ scan'.by = scan.by /\ scan'.seen = scan.seen
      /\ scan'.listed = {} /\ scan'.todo = scan.todo /\ scan'.batch = scan.batch
    BY <1>1, ScanFields, NoneYet DEF ScanType
<1>4. SeenFresh' /\ BatchFresh'
    BY <1>1, <1>3 DEF IInv, Fresh, SeenFresh, BatchFresh, NotOlder, Present, MayBe, bucketVars
<1>5. AbsentOK' /\ GoneOK'
    BY <1>1, <1>3 DEF IInv, AbsentOK, GoneOK, Present, bucketVars
<1>6. scan'.todo \subseteq DOMAIN scan'.seen
    BY <1>3, ScanFields DEF Present
<1> QED BY <1>1, <1>2, <1>3, <1>4, <1>5, <1>6, ByTheScan DEF Written

LEMMA ProbeKeeps ==
    ASSUME IInv, NEW k \in Keys, Probe(k)
    PROVE  IInv'
<1> DEFINE new == RowOf(k, scan.seen[k].etag, scan.seen[k].sig, ProbeOf(k, scan.seen[k].sig))
           batch == [j \in DOMAIN scan.batch \cup {k} |-> IF j = k THEN new ELSE scan.batch[j]]
<1>1. /\ scan.at = "probing" /\ k \in scan.todo
      /\ scan' = [scan EXCEPT !.todo = @ \ {k}, !.batch = batch]
      /\ UNCHANGED <<libraryVars, stateVars, bucketVars, build, pass, ask, events, absent>>
    BY DEF Probe
<1>2. k \in Present /\ scan.seen[k].etag \in Nat /\ scan.seen[k].sig \in Nat
    BY <1>1, ScanFields
<1>3. new \in Scanned /\ NotOlder(new)
    <2> DEFINE etag == scan.seen[k].etag
               sig == scan.seen[k].sig
               media == ProbeOf(k, sig)
    <2>1. BucketOK /\ etag \in Nat /\ sig \in Nat
        BY <1>2 DEF IInv, RoundsOK
    <2>2. MayBe(k, etag)
        BY <1>2 DEF IInv, Fresh, SeenFresh
    <2> HIDE DEF etag, sig
    <2>3. /\ media \in Optional(Media)
          /\ media # None => media.of = obj[k] /\ obj[k] # 0
        BY <2>1, ProbeType
    <2> HIDE DEF media
    <2>4. RowOf(k, etag, sig, media) \in Scanned
        BY <2>1, <2>3, RowType
    <2>5. obj[k] \in Nat
        BY <2>1 DEF BucketOK
    <2>6. NotOlder(RowOf(k, etag, sig, media))
        BY <2>1, <2>2, <2>3, <2>5 DEF RowOf, NotOlder, MayBe
    <2> QED BY <2>4, <2>6 DEF etag, sig, media
<1> HIDE DEF new
<1>4. /\ batch \in Some(Scanned)
      /\ \A j \in DOMAIN batch : NotOlder(batch[j])
    <2>1. batch \in Some(Scanned)
        BY <1>3, ScanFields, OneMore
    <2>2. \A j \in DOMAIN scan.batch : NotOlder(scan.batch[j])
        BY DEF IInv, Fresh, BatchFresh
    <2>3. ASSUME NEW j \in DOMAIN batch PROVE NotOlder(batch[j])
        <3>1. CASE j = k
            BY <1>3, <3>1
        <3>2. CASE j # k
            BY <2>2, <3>2
        <3> QED BY <3>1, <3>2
    <2> QED BY <2>1, <2>3
<1> HIDE DEF batch
<1>5. /\ scan' \in ScanType /\ scan'.at = "probing" /\ scan'.by = scan.by /\ scan'.seen = scan.seen
      /\ scan'.listed = scan.listed /\ scan'.todo = scan.todo \ {k} /\ scan'.batch = batch
    BY <1>1, <1>4, ScanFields DEF ScanType
<1>6. SeenFresh' /\ BatchFresh'
    BY <1>1, <1>4, <1>5 DEF IInv, Fresh, SeenFresh, BatchFresh, NotOlder, Present, MayBe, bucketVars
<1>7. AbsentOK' /\ GoneOK'
    BY <1>1, <1>5 DEF IInv, AbsentOK, GoneOK, Present, bucketVars
<1>8. scan'.todo \subseteq DOMAIN scan'.seen
    BY <1>5, ScanFields DEF Present
<1>9. Written
    BY <1>1, NothingWritten DEF IInv
<1> QED BY <1>1, <1>5, <1>6, <1>7, <1>8, <1>9, ByTheScan

LEMMA FlushKeeps ==
    ASSUME IInv, Flush
    PROVE  IInv' /\ Corrected /\ NoneLost
<1> DEFINE batch == DOMAIN scan.batch
<1>1. /\ scan.at = "probing" /\ scan' = [scan EXCEPT !.batch = <<>>]
      /\ UNCHANGED <<bucketVars, build, pass, ask, events, absent>>
    BY DEF Flush
<1>2. Written /\ Corrected
    <2>1. batch \in SUBSET Keys /\ \A k \in batch : scan.batch[k] \in Scanned /\ NotOlder(scan.batch[k])
        BY ScanFields, SomeIs DEF IInv, Fresh, BatchFresh
    <2>2. PICK order \in Orders(batch) : UpsertBatch(batch, scan.batch, order)
        BY DEF Flush
    <2> HIDE DEF batch
    <2> QED BY <2>1, <2>2, UpsertWritten DEF IInv
<1>3. /\ scan' \in ScanType /\ scan'.at = "probing" /\ scan'.by = scan.by /\ scan'.seen = scan.seen
      /\ scan'.listed = scan.listed /\ scan'.todo = scan.todo /\ scan'.batch = <<>>
    BY <1>1, ScanFields, NoneYet DEF ScanType
<1>4. SeenFresh' /\ BatchFresh'
    BY <1>1, <1>3, NoneYet DEF IInv, Fresh, SeenFresh, BatchFresh, Present, MayBe, bucketVars
<1>5. AbsentOK' /\ GoneOK'
    BY <1>1, <1>3 DEF IInv, AbsentOK, GoneOK, Present, bucketVars
<1>6. scan'.todo \subseteq DOMAIN scan'.seen
    BY <1>3, ScanFields DEF Present
<1> QED BY <1>1, <1>2, <1>3, <1>4, <1>5, <1>6, ByTheScan DEF Written

(* The ids that are read are those of rows whose key was not listed: their *)
(* files were missing when the listing passed them, or since.              *)
LEMMA ReadMissingKeeps ==
    ASSUME IInv, ReadMissing
    PROVE  IInv'
<1> DEFINE gone == {items[k].id : k \in Held \ Present}
<1>1. /\ scan.at = "probing" /\ scan' = [scan EXCEPT !.at = "removing", !.gone = gone]
      /\ UNCHANGED <<libraryVars, stateVars, bucketVars, build, pass, ask, events, absent>>
    BY DEF ReadMissing
<1>2. gone \in SUBSET Ids
    BY LastIdIsLast DEF IInv
<1>3. /\ \A id \in gone : \E k \in Held : items[k].id = id
      /\ \A k \in Held : items[k].id \in gone => k \in absent
    <2>1. Keys \subseteq Present \cup absent
        BY <1>1 DEF IInv, AbsentOK
    <2>2. ASSUME NEW k \in Held, items[k].id \in gone PROVE k \in absent
        <3>1. PICK j \in Held \ Present : items[j].id = items[k].id
            BY <2>2
        <3>2. k = j
            BY <3>1 DEF IInv, StoreOK, OwnIds
        <3> QED BY <2>1, <3>1, <3>2 DEF Held
    <2> QED BY <2>2
<1> HIDE DEF gone
<1>4. /\ scan' \in ScanType /\ scan'.at = "removing" /\ scan'.by = scan.by /\ scan'.seen = scan.seen
      /\ scan'.listed = scan.listed /\ scan'.todo = scan.todo /\ scan'.batch = scan.batch
      /\ scan'.gone = gone
    BY <1>1, <1>2, ScanFields DEF ScanType
<1>5. SeenFresh' /\ BatchFresh'
    BY <1>1, <1>4 DEF IInv, Fresh, SeenFresh, BatchFresh, NotOlder, Present, MayBe, bucketVars
<1>6. AbsentOK'
    BY <1>1, <1>4 DEF IInv, AbsentOK, Present, bucketVars
<1>7. GoneOK'
    BY <1>1, <1>3, <1>4 DEF GoneOK, Held, libraryVars
<1>8. scan'.todo \subseteq DOMAIN scan'.seen
    BY <1>4, ScanFields DEF Present
<1>9. Written
    BY <1>1, NothingWritten DEF IInv
<1> QED BY <1>1, <1>4, <1>5, <1>6, <1>7, <1>8, <1>9, ByTheScan

LEMMA DeleteMissingKeeps ==
    ASSUME IInv, DeleteMissing
    PROVE  IInv' /\ Corrected /\ \A k \in Held : items'[k] = None => k \in absent
<1>1. /\ scan.at = "removing" /\ DeleteRows(scan.gone) /\ scan' = Idle
      /\ pass' = [pass EXCEPT ![scan.by].at = "scanned"] /\ absent' = {}
      /\ UNCHANGED <<bucketVars, build, ask, events>>
    BY DEF DeleteMissing
<1>2. StoreOK' /\ Corrected
    BY <1>1, DeleteWritten DEF IInv
<1>3. BucketOK' /\ AskOK' /\ AskFresh'
    BY <1>1 DEF IInv, RoundsOK, BucketOK, bucketVars, AskOK, AskType, Fresh, AskFresh, MayBe, NotOlder
<1>4. PassOK'
    <2>1. /\ pass \in [Rounds -> PassType] /\ scan.by \in Rounds /\ pass[scan.by].at = "idle"
          /\ \A r \in Rounds : pass[r].at = "enriching" <=> pass[r].list # {}
        BY <1>1 DEF IInv, RoundsOK, PassOK
    <2> DEFINE by == scan.by
               new == [pass[by] EXCEPT !.at = "scanned"]
    <2>2. new \in PassType /\ new.at = "scanned" /\ new.list = {} /\ pass' = [pass EXCEPT ![by] = new]
        BY <1>1, <2>1 DEF PassType
    <2>3. by \in Rounds /\ scan'.at = "idle"
        BY <1>1, <2>1 DEF Idle
    <2> HIDE DEF by, new
    <2> QED BY <2>1, <2>2, <2>3 DEF PassOK
<1>5. ASSUME NEW k \in Held, items'[k] = None
      PROVE  k \in absent
    <2>1. k \in Keys /\ items[k] # None
        BY DEF Held
    <2>2. items[k].id \in scan.gone
        BY <1>1, <1>5, <2>1 DEF DeleteRows
    <2> QED BY <1>1, <2>2 DEF IInv, GoneOK
<1> QED BY <1>1, <1>2, <1>3, <1>4, <1>5, NoScan

-----------------------------------------------------------------------------
(* The rounds' enrichment, beside a scan or none.                          *)
LEMMA PassGoes ==
    ASSUME IInv, NEW r \in Rounds, pass[r].at # "idle", NEW list \in SUBSET Waiting,
           pass' = [pass EXCEPT ![r] = Remaining(list)], UNCHANGED scan
    PROVE  PassOK'
<1>1. /\ pass \in [Rounds -> PassType]
      /\ \A q \in Rounds : pass[q].at = "enriching" <=> pass[q].list # {}
      /\ scan.at # "idle" => scan.by \in Rounds /\ pass[scan.by].at = "idle"
    BY DEF IInv, RoundsOK, PassOK
<1>2. Remaining(list) \in PassType /\ (Remaining(list).at = "enriching" <=> Remaining(list).list # {})
    BY DEF Remaining, NoPass, PassType
<1> QED BY <1>1, <1>2 DEF PassOK

(* The first of those that wait is one of them.                            *)
LEMMA FirstWaits ==
    ASSUME NEW list \in SUBSET Waiting, list # {}
    PROVE  LET it == CHOOSE i \in list : \A j \in list : i.key <= j.key
           IN  it \in list /\ it.id \in Ids /\ it.title \in Titles
<1> DEFINE First(i) == \A j \in list : i.key <= j.key
<1>1. \A i \in list : i.key \in Nat /\ i.id \in Ids /\ i.title \in Titles
    BY LibraryAssumption DEF Waiting
<1>2. {i.key : i \in list} \in SUBSET Nat /\ {i.key : i \in list} # {}
    BY <1>1
<1>3. \E x \in {i.key : i \in list} : \A y \in {i.key : i \in list} : x <= y
    BY <1>2, Least
<1>4. \E i \in list : First(i)
    BY <1>3
<1>5. (CHOOSE i \in list : First(i)) \in list
    BY <1>4
<1> QED BY <1>1, <1>5

LEMMA LookedUp ==
    ASSUME IInv, NEW id \in Ids, NEW title \in Titles,
           IF Lookup[title] = None THEN UNCHANGED <<libraryVars, stateVars>>
           ELSE SetEnrichment(id, Result(title), title)
    PROVE  Written /\ Corrected
<1>1. CASE Lookup[title] = None
    BY <1>1, NothingWritten DEF IInv
<1>2. CASE Lookup[title] # None
    <2>1. Result(title) \in Enrichment
        <3>1. Lookup[title] \in Nat
            BY <1>2, ScannerAssumption DEF Optional
        <3>2. EnrichmentVersion[build] \in Nat
            BY ScannerAssumption DEF IInv, RoundsOK, BucketOK
        <3> QED BY <3>1, <3>2 DEF Result, Enrichment
    <2> QED BY <1>2, <2>1, EnrichmentWritten DEF IInv
<1> QED BY <1>1, <1>2

LEMMA AskStays ==
    ASSUME IInv, UNCHANGED <<ask, bucketVars>>
    PROVE  AskOK' /\ AskFresh'
BY DEF IInv, RoundsOK, AskOK, AskType, Fresh, AskFresh, MayBe, NotOlder, bucketVars

LEMMA RoundKeeps ==
    ASSUME IInv, NEW r \in Rounds, RoundStep(r) \/ EnrichFails(r)
    PROVE  IInv' /\ Corrected /\ NoneLost
<1>1. pass[r] \in PassType /\ (pass[r].at = "enriching" => pass[r].list # {})
    BY DEF IInv, RoundsOK, PassOK
<1>2. pass[r].list \in SUBSET Waiting
    BY <1>1 DEF PassType
<1>3. UNCHANGED <<bucketVars, build, scan, absent, ask>>
    BY DEF RoundStep, BeginEnrich, Enrich, EnrichFails, roundVars
<1>4. events' \in 0 .. MaxEvents
    BY Counted DEF RoundStep, BeginEnrich, Enrich, EnrichFails
<1>5. CASE BeginEnrich(r)
    <2> DEFINE list == {[key |-> k, id |-> items[k].id, title |-> items[k].title] :
                           k \in {j \in Keys : Needing(j)}}
    <2>1. list \in SUBSET Waiting
        <3>1. \A k \in Held : items[k] \in Row
            BY DEF IInv, StoreOK, RowsOK, LibraryTypeOK, Held, Optional
        <3> QED BY <3>1 DEF Needing, Row, Waiting
    <2>2. pass[r].at = "scanned" /\ pass' = [pass EXCEPT ![r] = Remaining(list)]
        BY <1>5 DEF BeginEnrich
    <2> HIDE DEF list
    <2>3. PassOK'
        BY <1>3, <2>1, <2>2, PassGoes
    <2>4. Written /\ Corrected
        BY <1>5, NothingWritten DEF BeginEnrich, IInv
    <2> QED BY <1>3, <1>4, <2>3, <2>4, AskStays, BesideTheScan DEF Written
<1>6. CASE Enrich(r)
    <2> DEFINE it == CHOOSE i \in pass[r].list : \A j \in pass[r].list : i.key <= j.key
    <2>1. /\ pass[r].at = "enriching" /\ pass' = [pass EXCEPT ![r] = Remaining(pass[r].list \ {it})]
          /\ IF Lookup[it.title] = None THEN UNCHANGED <<libraryVars, stateVars>>
             ELSE SetEnrichment(it.id, Result(it.title), it.title)
        BY <1>6 DEF Enrich
    <2>2. it.id \in Ids /\ it.title \in Titles
        BY <1>1, <1>2, <2>1, FirstWaits
    <2> HIDE DEF it
    <2>3. PassOK'
        BY <1>2, <1>3, <2>1, PassGoes
    <2>4. Written /\ Corrected
        BY <2>1, <2>2, LookedUp
    <2> QED BY <1>3, <1>4, <2>3, <2>4, AskStays, BesideTheScan DEF Written
<1>7. CASE EnrichFails(r)
    <2>1. PICK it \in pass[r].list : pass' = [pass EXCEPT ![r] = Remaining(pass[r].list \ {it})]
        BY <1>7 DEF EnrichFails
    <2>2. PassOK'
        BY <1>2, <1>3, <1>7, <2>1, PassGoes DEF EnrichFails
    <2>3. Written /\ Corrected
        BY <1>7, NothingWritten DEF EnrichFails, IInv
    <2> QED BY <1>3, <1>4, <2>2, <2>3, AskStays, BesideTheScan DEF Written
<1> QED BY <1>5, <1>6, <1>7 DEF RoundStep

-----------------------------------------------------------------------------
(* What people asked for, beside a scan and the rounds.                    *)
LEMMA PassStays ==
    ASSUME IInv, UNCHANGED <<pass, scan>>
    PROVE  PassOK'
BY DEF IInv, RoundsOK, PassOK

LEMMA NoAskIs ==
    ask' = NoAsk => AskOK' /\ AskFresh'
BY DEF NoAsk, AskOK, AskType, AskFresh, Optional

LEMMA AskKeeps ==
    ASSUME IInv,
           AskStep \/ (\E k \in Keys : AskReprobe(k) \/ AskEnrich(k))
    PROVE  IInv' /\ Corrected /\ NoneLost
<1> SUFFICES Written /\ Corrected /\ AskOK' /\ AskFresh'
    <2>1. UNCHANGED <<bucketVars, build, pass, scan, absent>> /\ (events' = events \/ Happens)
        BY DEF AskStep, Stat, Reprobe, WriteReprobed, Write, EnrichItem, AskReprobe, AskEnrich, roundVars
    <2> QED BY <2>1, Counted, PassStays, BesideTheScan DEF Written
<1>1. ask \in AskType /\ AskOK /\ BucketOK /\ AskFresh
    BY DEF IInv, RoundsOK, AskOK, Fresh
<1>2. CASE \E k \in Keys : AskReprobe(k) \/ AskEnrich(k)
    <2>1. PICK k \in Keys : AskReprobe(k) \/ AskEnrich(k)
        BY <1>2
    <2>2. k \in Held /\ items[k].id \in Ids /\ items[k].title \in Titles
        BY <2>1 DEF AskReprobe, AskEnrich, IInv, StoreOK, RowsOK, LibraryTypeOK, Held, Optional, Row
    <2>3. AskOK' /\ AskFresh'
        <3>1. CASE AskReprobe(k)
            BY <2>2, <3>1 DEF AskReprobe, NoAsk, AskOK, AskType, AskFresh, Optional
        <3>2. CASE AskEnrich(k)
            <4> DEFINE id == items[k].id
                       title == items[k].title
            <4>1. id \in Ids /\ title \in Titles
                BY <2>2
            <4>2. ask' = [NoAsk EXCEPT !.at = "lookup", !.id = id, !.title = title]
                BY <3>2 DEF AskEnrich
            <4> HIDE DEF id, title
            <4> QED BY <4>1, <4>2 DEF NoAsk, AskOK, AskType, AskFresh, Optional
        <3> QED BY <2>1, <3>1, <3>2
    <2>4. UNCHANGED <<libraryVars, stateVars>>
        BY <2>1 DEF AskReprobe, AskEnrich
    <2> QED BY <2>3, <2>4, NothingWritten DEF IInv
<1>3. CASE Stat
    <2>1. ask.key \in Keys /\ obj[ask.key] \in 0 .. uploads /\ uploads \in Nat
        BY <1>1, <1>3 DEF AskOK, Stat, BucketOK
    <2>2. CASE ask' = NoAsk
        BY <1>3, <2>2, NoAskIs, NothingWritten DEF Stat, IInv
    <2>3. CASE ask' = [ask EXCEPT !.at = "probe", !.etag = obj[ask.key]]
        <3>1. /\ ask' \in AskType /\ ask'.at = "probe" /\ ask'.key = ask.key
              /\ ask'.etag = obj[ask.key] /\ UNCHANGED <<obj, uploads>>
            <4> DEFINE etag == obj[ask.key]
            <4>1. etag \in Nat /\ ask' = [ask EXCEPT !.at = "probe", !.etag = etag]
                BY <2>1, <2>3
            <4>2. UNCHANGED <<obj, uploads>>
                BY <1>3 DEF Stat, bucketVars
            <4> HIDE DEF etag
            <4>3. /\ ask' \in AskType /\ ask'.at = "probe" /\ ask'.key = ask.key
                  /\ ask'.etag = etag
                BY <1>1, <4>1 DEF AskType
            <4> QED BY <4>2, <4>3 DEF etag
        <3>2. AskOK' /\ AskFresh'
            BY <2>1, <3>1 DEF AskOK, AskType, AskFresh, MayBe
        <3> QED BY <1>3, <3>2, NothingWritten DEF Stat, IInv
    <2> QED BY <1>3, <2>2, <2>3 DEF Stat
<1>4. CASE Reprobe
    <2>1. ask.key \in Keys /\ obj[ask.key] \in 0 .. uploads /\ uploads \in Nat
          /\ subs[ask.key] \in Nat /\ ask.etag \in Nat
        BY <1>1, <1>4 DEF AskOK, AskType, Reprobe, BucketOK
    <2>2. PICK sig \in {0, subs[ask.key]} :
            ask' = [ask EXCEPT !.at = "write", !.sig = sig, !.media = ProbeOf(ask.key, sig)]
        BY <1>4 DEF Reprobe
    <2> DEFINE media == ProbeOf(ask.key, sig)
    <2>3. sig \in Nat /\ media \in Optional(Media)
          /\ (media # None => media.of = obj[ask.key] /\ obj[ask.key] # 0)
        BY <1>1, <2>1, <2>2, ProbeType
    <2>4. ask' = [ask EXCEPT !.at = "write", !.sig = sig, !.media = media]
        BY <2>2
    <2> HIDE DEF media
    <2>5. /\ ask' \in AskType /\ ask'.at = "write" /\ ask'.key = ask.key /\ ask'.media = media
          /\ ask'.etag = ask.etag
        BY <1>1, <2>3, <2>4 DEF AskType
    <2>6. AskOK'
        BY <2>1, <2>5 DEF AskOK, AskType
    <2>7. MayBe(ask.key, ask.etag)
        BY <1>1, <1>4 DEF AskFresh, Reprobe
    <2>8. AskFresh'
        BY <2>1, <2>3, <2>5, <2>7 DEF AskFresh, NotOlder, MayBe
    <2> QED BY <1>4, <2>6, <2>8, NothingWritten DEF Reprobe, IInv
<1>5. CASE WriteReprobed
    <2> DEFINE row == [k \in {ask.key} |-> RowOf(k, ask.etag, ask.sig, ask.media)]
    <2>1. ask.key \in Keys /\ ask.etag \in Nat /\ ask.sig \in Nat /\ ask.media \in Optional(Media)
          /\ NotOlder(ask)
        BY <1>1, <1>5 DEF AskOK, AskType, AskFresh, WriteReprobed, Write
    <2>2. PICK order \in Orders({ask.key}) : UpsertBatch({ask.key}, row, order)
        BY <1>5 DEF WriteReprobed, Write
    <2>3. RowOf(ask.key, ask.etag, ask.sig, ask.media) \in Scanned
        BY <1>1, <2>1, RowType
    <2>4. NotOlder(RowOf(ask.key, ask.etag, ask.sig, ask.media))
        BY <2>1 DEF NotOlder, RowOf
    <2>5. \A k \in {ask.key} : row[k] \in Scanned /\ NotOlder(row[k])
        BY <2>3, <2>4
    <2>6. {ask.key} \in SUBSET Keys
        BY <2>1
    <2> HIDE DEF row
    <2>7. Written /\ Corrected
        BY <2>2, <2>5, <2>6, UpsertWritten DEF IInv
    <2> QED BY <1>5, <2>7, NoAskIs DEF WriteReprobed, Write
<1>6. CASE EnrichItem
    <2>1. ask.id \in Ids /\ ask.title \in Titles
        BY <1>1, <1>6 DEF AskOK, EnrichItem
    <2>2. Written /\ Corrected
        BY <1>6, <2>1, LookedUp DEF EnrichItem
    <2> QED BY <1>6, <2>2, NoAskIs DEF EnrichItem
<1> QED BY <1>2, <1>3, <1>4, <1>5, <1>6 DEF AskStep

-----------------------------------------------------------------------------
(* The bucket, the people and the process.                                 *)
LEMMA BucketEvents ==
    ASSUME IInv, \E k \in Keys : Upload(k) \/ Remove(k) \/ ChangeSidecars(k)
    PROVE  IInv' /\ Corrected /\ NoneLost
<1> PICK k \in Keys : Upload(k) \/ Remove(k) \/ ChangeSidecars(k)
    OBVIOUS
<1>1. BucketOK /\ UNCHANGED <<libraryVars, stateVars, scan, pass, ask, build>> /\ Happens
    BY DEF Upload, Remove, ChangeSidecars, IInv, RoundsOK, roundVars
<1>2. Written /\ Corrected
    BY <1>1, NothingWritten DEF IInv
<1>3. /\ uploads \in Nat /\ uploads' \in Nat /\ uploads <= uploads'
      /\ obj' \in [Keys -> 0 .. uploads']
      /\ absent \subseteq absent' \/ scan.at = "idle"
      /\ \A j \in Keys : obj'[j] = obj[j] \/ obj'[j] = 0 \/ obj'[j] > uploads
      /\ \A j \in Keys : obj'[j] = 0 /\ scan.at # "idle" => obj[j] = 0 \/ j \in absent'
      /\ subs' \in [Keys -> {0, 1}] /\ absent' \subseteq Keys
    <2>1. CASE Upload(k)
        BY <1>1, <2>1 DEF Upload, BucketOK
    <2>2. CASE Remove(k)
        BY <1>1, <2>2 DEF Remove, BucketOK
    <2>3. CASE ChangeSidecars(k)
        BY <1>1, <2>3 DEF ChangeSidecars, BucketOK
    <2> QED BY <2>1, <2>2, <2>3
<1>4. BucketOK'
    BY <1>1, <1>3, Counted DEF BucketOK
<1>5. ScanOK' /\ BatchFresh' /\ PassOK' /\ AskOK'
    <2>1. ScanOK'
        BY <1>1 DEF IInv, RoundsOK, ScanOK, ScanType, Present
    <2>2. BatchFresh'
        BY <1>1 DEF IInv, Fresh, BatchFresh, NotOlder
    <2>3. AskOK'
        BY <1>1 DEF IInv, RoundsOK, AskOK, AskType
    <2> QED BY <1>1, <2>1, <2>2, <2>3, PassStays
<1>6. ASSUME NEW j \in Keys, NEW etag \in Nat, MayBe(j, etag)
      PROVE  etag <= uploads' /\ (obj'[j] = 0 \/ etag <= obj'[j])
    <2>1. obj[j] \in Nat /\ obj'[j] \in Nat
        BY <1>1, <1>3 DEF BucketOK
    <2> QED BY <1>3, <1>6, <2>1 DEF MayBe
<1>7. SeenFresh'
    <2> SUFFICES ASSUME NEW j \in Present
                 PROVE  /\ scan.seen[j].etag <= uploads'
                        /\ obj'[j] = 0 \/ scan.seen[j].etag <= obj'[j]
        BY <1>1 DEF SeenFresh, Present, MayBe
    <2>1. j \in Keys /\ scan.seen[j].etag \in Nat /\ MayBe(j, scan.seen[j].etag)
        BY ScanFields DEF IInv, Fresh, SeenFresh
    <2> QED BY <1>1, <1>6, <2>1
<1>8. AskFresh'
    <2>1. ask.at = "probe" => ask.key \in Keys /\ ask.etag \in Nat /\ MayBe(ask.key, ask.etag)
        BY DEF IInv, RoundsOK, AskOK, AskType, Fresh, AskFresh
    <2>2. ask.at = "write" => NotOlder(ask)
        BY DEF IInv, Fresh, AskFresh
    <2>3. ask.at = "probe" => ask.etag <= uploads' /\ (obj'[ask.key] = 0 \/ ask.etag <= obj'[ask.key])
        BY <1>6, <2>1
    <2> QED BY <1>1, <2>2, <2>3 DEF AskFresh, NotOlder, MayBe
<1>9. AbsentOK'
    BY <1>1, <1>3 DEF IInv, AbsentOK, Present
<1>10. GoneOK'
    BY <1>1, <1>2, <1>3, GoneKept DEF IInv, GoneOK
<1> QED BY <1>2, <1>4, <1>5, <1>7, <1>8, <1>9, <1>10 DEF IInv, RoundsOK, Fresh, Written

LEMMA UsersKeep ==
    ASSUME IInv, Users
    PROVE  IInv' /\ NoneLost
<1>1. PICK id \in Ids, t \in Titles : Correct(id, t)
    BY DEF Users
<1>2. Written
    BY <1>1, OverrideWritten DEF Correct, IInv
<1>3. UNCHANGED <<bucketVars, build, scan, pass, ask, absent>> /\ Happens
    BY <1>1 DEF Correct, roundVars
<1> QED BY <1>2, <1>3, Counted, PassStays, AskStays, BesideTheScan DEF Written

LEMMA BreaksOff ==
    ASSUME IInv, ScanFails \/ Restart
    PROVE  IInv' /\ Corrected /\ NoneLost
<1>1. UNCHANGED <<libraryVars, stateVars, bucketVars, absent>> /\ Happens /\ scan' = Idle
    BY DEF ScanFails, Restart
<1>2. Written /\ Corrected
    BY <1>1, NothingWritten DEF IInv
<1>3. BucketOK'
    <2>1. build' \in 1 .. MaxBuild
        BY DEF ScanFails, Restart, IInv, RoundsOK, BucketOK
    <2> QED BY <1>1, <2>1, Counted DEF IInv, RoundsOK, BucketOK, bucketVars
<1>4. PassOK' /\ AskOK' /\ AskFresh'
    <2>1. CASE ScanFails
        BY <1>1, <2>1, AskStays DEF ScanFails, Idle, IInv, RoundsOK, PassOK
    <2>2. CASE Restart
        <3>1. pass' = [r \in Rounds |-> NoPass] /\ ask' = NoAsk
            BY <2>2 DEF Restart
        <3>2. PassOK'
            BY <1>1, <3>1 DEF Idle, PassOK, PassType, NoPass
        <3> QED BY <3>1, <3>2, NoAskIs
    <2> QED BY <2>1, <2>2
<1> QED BY <1>1, <1>2, <1>3, <1>4, NoScan DEF Written

(* What a step does, all of the invariant and both promises about rows.    *)
LEMMA NextKeeps ==
    ASSUME IInv, Next
    PROVE  /\ IInv'
           /\ Users \/ Corrected
           /\ \A k \in Held : items'[k] = None => k \in absent
<1>1. ASSUME NoneLost PROVE \A k \in Held : items'[k] = None => k \in absent
    BY <1>1 DEF NoneLost, Held
<1>2. CASE \E k \in Keys : List(k) \/ Probe(k)
    <2>1. UNCHANGED <<libraryVars, stateVars>>
        BY <1>2 DEF List, Probe
    <2>2. Corrected /\ NoneLost
        BY <2>1, NothingWritten DEF IInv, Written
    <2> QED BY <1>1, <1>2, <2>2, ListKeeps, ProbeKeeps
<1>3. CASE ReadMissing \/ \E r \in Rounds : BeginScan(r)
    <2>1. UNCHANGED <<libraryVars, stateVars>>
        BY <1>3 DEF ReadMissing, BeginScan
    <2>2. Corrected /\ NoneLost
        BY <2>1, NothingWritten DEF IInv, Written
    <2> QED BY <1>1, <1>3, <2>2, ReadMissingKeeps, BeginScanKeeps
<1>4. CASE RefreshIdentities \/ RefreshSidecars \/ Flush
    BY <1>1, <1>4, RefreshIdentitiesKeeps, RefreshSidecarsKeeps, FlushKeeps
<1>5. CASE DeleteMissing
    BY <1>5, DeleteMissingKeeps
<1>6. CASE AskStep \/ \E k \in Keys : AskReprobe(k) \/ AskEnrich(k)
    BY <1>1, <1>6, AskKeeps
<1>7. CASE \E r \in Rounds : RoundStep(r) \/ EnrichFails(r)
    BY <1>1, <1>7, RoundKeeps
<1>8. CASE \E k \in Keys : Upload(k) \/ Remove(k) \/ ChangeSidecars(k)
    BY <1>1, <1>8, BucketEvents
<1>9. CASE Users
    BY <1>1, <1>9, UsersKeep
<1>10. CASE ScanFails \/ Restart
    BY <1>1, <1>10, BreaksOff
<1> QED BY <1>2, <1>3, <1>4, <1>5, <1>6, <1>7, <1>8, <1>9, <1>10 DEF Next, ScanStep, Outside

LEMMA StutterKeeps == IInv /\ UNCHANGED vars => IInv'
<1> SUFFICES ASSUME IInv, UNCHANGED vars PROVE IInv'
    OBVIOUS
<1>1. UNCHANGED <<libraryVars, stateVars, bucketVars, build, scan, pass, ask, events, absent>>
    BY DEF vars, scannerVars, roundVars
<1>2. Written
    BY <1>1, NothingWritten DEF IInv
<1> QED BY <1>1, <1>2, Counted, PassStays, AskStays, BesideTheScan

-----------------------------------------------------------------------------
(* The invariant, of every behaviour.                                      *)
THEOREM ScannerInductive == Spec => []IInv
<1>1. IInv /\ [Next]_vars => IInv'
    BY NextKeeps, StutterKeeps
<1> QED BY <1>1, InitIInv, PTL DEF Spec

(* The types, for every bucket, however many rounds run (scanner.go).      *)
THEOREM ScannerTypes == Spec => []TypeOK
BY ScannerInductive, TypesFollow, PTL

(* No row says of a new etag what an older content said, whoever wrote it  *)
(* and whatever was replaced while it was being probed (scanner.go, Scan   *)
(* and ReprobeKey).                                                        *)
THEOREM NoRowIsAhead == Spec => []MediaIsNotOlder
<1>1. IInv => MediaIsNotOlder
    BY DEF IInv, StoreOK
<1> QED BY <1>1, ScannerInductive, PTL

(* A correction is never undone by the program (store.go, UpsertBatch and  *)
(* UpdateIdentities).                                                      *)
THEOREM CorrectionsStick == Spec => OverrideSticks
<1> DEFINE Step == Users \/ Corrected
<1>1. IInv /\ [Next]_vars => [Step]_vars
    BY NextKeeps
<1>2. Spec => [][Step]_vars
    BY <1>1, ScannerInductive, PTL DEF Spec
<1> QED BY <1>2 DEF OverrideSticks, Corrected

(* A row goes only when its file was missing while the scan that removes   *)
(* it ran (scanner.go, Scan; DeleteMissing).                               *)
THEOREM NothingIsLost == Spec => NothingPresentIsLost
<1> DEFINE Step == \A k \in Held : items'[k] = None => k \in absent
<1>1. IInv /\ [Next]_vars => [Step]_vars
    BY NextKeeps
<1>2. Spec => [][Step]_vars
    BY <1>1, ScannerInductive, PTL DEF Spec
<1> QED BY <1>2 DEF NothingPresentIsLost
=============================================================================
