------------------------------ MODULE Library ------------------------------
(***************************************************************************)
(* internal/store: library.db, a row per media object, and state.db, a row *)
(* per item and profile. Every operation is one transaction and is one     *)
(* operator here; the modules that use them say who calls what when.       *)
(* An object key is a number, in the order ListItems sorts them. A title   *)
(* stands for a whole identity, an etag for a file's content.              *)
(***************************************************************************)
EXTENDS Integers, FiniteSets

CONSTANTS
    Keys, Titles, Profiles,
    MaxId,      \* the largest row id the model hands out
    MaxSeq,     \* the largest value of library.db's feed_seq
    MaxState,   \* the largest value of state.db's feed_seq
    None

ASSUME LibraryAssumption ==
    /\ Keys \subseteq Nat /\ IsFiniteSet(Keys)
    /\ {MaxId, MaxSeq, MaxState} \subseteq Nat

VARIABLES
    items,      \* key -> its row, or None
    libSeq,     \* library.db's feed_seq
    delSeq,     \* library.db's deletion_seq
    places,     \* <<item id, profile>> -> the place, or None
    stateSeq    \* state.db's feed_seq

libraryVars == <<items, libSeq, delSeq>>
stateVars == <<places, stateSeq>>

Ids == 1 .. MaxId
Optional(S) == S \cup {None}

(* What a probe writes; media is None when the probe failed. `subs` and    *)
(* `sig` both stand for the set of sidecars next to the file. `probed` and *)
(* `version` are probe_version and identity_version, `v` the version in an *)
(* enrichment: what the build that wrote them knew to look for.            *)
Media == [of : Nat, subs : Nat]
Enrichment == [film : Nat, v : Nat]
Scanned == [etag : Nat, media : Optional(Media), sig : Nat, probed : Nat,
            title : Titles, version : Nat]
Row == [id : Ids, etag : Nat, media : Optional(Media), sig : Nat, probed : Nat,
        title : Titles, version : Nat, overridden : BOOLEAN,
        tmdb : Optional(Enrichment), tmdbFor : Optional(Titles), seq : Nat]
Place == [position : Nat, seq : Nat]

ASSUME LibraryNoneAssumption ==
    None \notin Row \cup Place \cup Nat \cup Titles \cup Media \cup Enrichment

LibraryTypeOK ==
    /\ items \in [Keys -> Optional(Row)]
    /\ places \in [Ids \X Profiles -> Optional(Place)]
    /\ {libSeq, delSeq, stateSeq} \subseteq Nat

LibraryInit ==
    /\ items = [k \in Keys |-> None]
    /\ libSeq = 0 /\ delSeq = 0
    /\ places = [x \in Ids \X Profiles |-> None]
    /\ stateSeq = 0

-----------------------------------------------------------------------------
Held == {k \in Keys : items[k] # None}
HasId(k, id) == k \in Held /\ items[k].id = id

(* A transaction over a batch stamps its rows one after another: an order  *)
(* of the batch gives each of its keys the number of its write.            *)
Orders(batch) ==
    {order \in [batch -> 1 .. Cardinality(batch)] :
        \A j, k \in batch : order[j] = order[k] => j = k}
Bump(n) == libSeq + n <= MaxSeq /\ libSeq' = libSeq + n

(* SQLite hands a new row the largest id in the table plus one: the id of  *)
(* the newest row, once that is deleted, is handed out again.              *)
LastId ==
    IF Held = {} THEN 0
    ELSE items[CHOOSE k \in Held : \A j \in Held : items[j].id <= items[k].id].id
NewId(batch, order, k) ==
    LastId + Cardinality({j \in batch \ Held : order[j] <= order[k]})

Upserted_Reidentifies(row, it, id, seq) ==  \* a mutation: the override is not looked at
    [id |-> IF row = None THEN id ELSE row.id,
     etag |-> it.etag, media |-> it.media, sig |-> it.sig, probed |-> it.probed,
     version |-> it.version, title |-> it.title,
     overridden |-> row # None /\ row.overridden,
     tmdb |-> IF row = None THEN None ELSE row.tmdb,
     tmdbFor |-> IF row = None THEN None ELSE row.tmdbFor,
     seq |-> seq]

Upserted(row, it, id, seq) ==
    [id |-> IF row = None THEN id ELSE row.id,
     etag |-> it.etag, media |-> it.media, sig |-> it.sig, probed |-> it.probed,
     version |-> it.version,
     title |-> IF row # None /\ row.overridden THEN row.title ELSE it.title,
     overridden |-> row # None /\ row.overridden,
     tmdb |-> IF row = None THEN None ELSE row.tmdb,
     tmdbFor |-> IF row = None THEN None ELSE row.tmdbFor,
     seq |-> seq]

UpsertBatch(batch, it, order) ==
    /\ \A k \in batch \ Held : NewId(batch, order, k) \in Ids
    /\ Bump(Cardinality(batch))
    /\ items' = [k \in Keys |->
                    IF k \in batch
                    THEN Upserted(items[k], it[k], NewId(batch, order, k), libSeq + order[k])
                    ELSE items[k]]
    /\ UNCHANGED <<delSeq, stateVars>>

(* The counter moves for a row that is overridden, too.                    *)
UpdateIdentities(batch, title, version, order) ==
    /\ Bump(Cardinality(batch))
    /\ items' = [k \in Keys |->
                    IF k \in batch \cap Held /\ ~items[k].overridden
                    THEN [items[k] EXCEPT !.title = title[k], !.version = version,
                                          !.seq = libSeq + order[k]]
                    ELSE items[k]]
    /\ UNCHANGED <<delSeq, stateVars>>

(* A row without media gets the new signature only.                        *)
UpdateSidecars(batch, sig, order) ==
    /\ batch \subseteq Held
    /\ Bump(Cardinality(batch))
    /\ items' = [k \in Keys |->
                    IF k \in batch
                    THEN [items[k] EXCEPT !.sig = sig[k], !.seq = libSeq + order[k],
                            !.media = IF @ = None THEN None ELSE [@ EXCEPT !.subs = sig[k]]]
                    ELSE items[k]]
    /\ UNCHANGED <<delSeq, stateVars>>

(* The rows were looked up before the transaction; nothing to delete       *)
(* leaves both counters alone.                                             *)
DeleteRows_Unmarked(gone) ==     \* a mutation: only the counter moves
    /\ items' = [k \in Keys |-> IF k \in Held /\ items[k].id \in gone THEN None ELSE items[k]]
    /\ IF gone = {} THEN UNCHANGED libSeq ELSE Bump(1)
    /\ UNCHANGED <<delSeq, stateVars>>

DeleteRows(gone) ==
    /\ items' = [k \in Keys |-> IF k \in Held /\ items[k].id \in gone THEN None ELSE items[k]]
    /\ IF gone = {} THEN UNCHANGED <<libSeq, delSeq>> ELSE Bump(1) /\ delSeq' = libSeq + 1
    /\ UNCHANGED stateVars

SetEnrichment_Uncounted(id, tmdb, title) ==     \* a mutation: the counter stays
    /\ items' = [k \in Keys |->
                    IF HasId(k, id)
                    THEN [items[k] EXCEPT !.tmdb = tmdb, !.tmdbFor = title, !.seq = libSeq + 1]
                    ELSE items[k]]
    /\ UNCHANGED <<libSeq, delSeq, stateVars>>

SetEnrichment(id, tmdb, title) ==
    /\ Bump(1)
    /\ items' = [k \in Keys |->
                    IF HasId(k, id)
                    THEN [items[k] EXCEPT !.tmdb = tmdb, !.tmdbFor = title, !.seq = libSeq + 1]
                    ELSE items[k]]
    /\ UNCHANGED <<delSeq, stateVars>>

OverrideIdentity_Quiet(id, title) ==    \* a mutation: the row keeps its seq
    /\ Bump(1)
    /\ items' = [k \in Keys |->
                    IF HasId(k, id)
                    THEN [items[k] EXCEPT !.title = title, !.overridden = TRUE]
                    ELSE items[k]]
    /\ UNCHANGED <<delSeq, stateVars>>

OverrideIdentity(id, title) ==
    /\ Bump(1)
    /\ items' = [k \in Keys |->
                    IF HasId(k, id)
                    THEN [items[k] EXCEPT !.title = title, !.overridden = TRUE,
                                          !.seq = libSeq + 1]
                    ELSE items[k]]
    /\ UNCHANGED <<delSeq, stateVars>>

(* state.db. A place cleared is a row deleted, and no counter moves.       *)
SetPlace_Behind(id, profile, position) ==   \* a mutation: stamped before the counter moves
    /\ stateSeq < MaxState /\ stateSeq' = stateSeq + 1
    /\ places' = [places EXCEPT ![<<id, profile>>] = [position |-> position, seq |-> stateSeq]]
    /\ UNCHANGED libraryVars

SetPlace(id, profile, position) ==
    /\ stateSeq < MaxState /\ stateSeq' = stateSeq + 1
    /\ places' = [places EXCEPT ![<<id, profile>>] =
                    [position |-> position, seq |-> stateSeq + 1]]
    /\ UNCHANGED libraryVars

ClearPlace(id, profile) ==
    /\ places' = [places EXCEPT ![<<id, profile>>] = None]
    /\ UNCHANGED <<stateSeq, libraryVars>>
=============================================================================
