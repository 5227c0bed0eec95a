----------------------------- MODULE Household -----------------------------
(***************************************************************************)
(* One profile at home: the shelves it is offered (cmd/server/continue.go, *)
(* library.go, list.go), the documents of an item and of a work with the   *)
(* one thing to press on them (hyper.go), what a child's profile is        *)
(* refused (profiles.go), and the places it leaves. Meanwhile files arrive *)
(* and go and TMDB's answers come in.                                      *)
(*                                                                         *)
(* Profiles share nothing but the library, so one of them, a child's or    *)
(* not, stands for all. Every request derives the works afresh.            *)
(***************************************************************************)
EXTENDS Works

CONSTANTS
    Files,          \* the ids of the files there may be
    File,           \* id -> the file once TMDB has answered
    Late,           \* those that may not be there from the start
    Length, Places, \* of every file; the places a play is left at
    Fit,            \* the certifications fit for kids
    MaxEvents

ASSUME HouseholdAssumption ==
    /\ Files \subseteq Nat /\ IsFiniteSet(Files) /\ Late \subseteq Files /\ MaxEvents \in Nat
    /\ File \in [Files -> FileRow] /\ \A id \in Files : File[id].id = id
    /\ Length \in Nat \ {0} /\ Places \subseteq 0 .. Length /\ None \notin Fit

ASSUME NoneAssumption == None \notin FileRow \cup Place

VARIABLES
    here,       \* the files in the library
    enriched,   \* those TMDB has answered for
    kid,        \* is the profile a child's
    pos,        \* id -> the profile's place, or None
    saved,      \* its list: keys of works
    events

libraryVars == <<here, enriched>>
vars == <<libraryVars, kid, pos, saved, events>>

Happens == events < MaxEvents /\ events' = events + 1

StoredRow(id, answered) ==
    IF id \in answered THEN File[id]
    ELSE [File[id] EXCEPT !.tmdb = None, !.poster = FALSE, !.cert = None, !.genres = {}]
Item(id) == StoredRow(id, enriched)

Libraries == {l \in (SUBSET Files) \X (SUBSET {id \in Files : File[id].tmdb # None}) : l[2] \subseteq l[1]}
WorksOf == [l \in Libraries |-> Build({StoredRow(id, l[2]) : id \in l[1]})]
TheWorks == WorksOf[libraryVars]

Init ==
    /\ \E absent \in SUBSET Late : here = Files \ absent
    /\ enriched = {}
    /\ kid \in BOOLEAN
    /\ pos = [id \in Files |-> None]
    /\ saved = {} /\ events = 0

-----------------------------------------------------------------------------
(* What a child's profile is shown: the works of a certification that is   *)
(* fit, by the member that stands for the work.                            *)
workCertification(w) == Representative(w).cert
Shown(w) == ~kid \/ workCertification(w) \in Fit
WorksFor == {w \in ToSet(TheWorks) : Shown(w)}

RefusedItem_AsItIs(it) == kid /\ it.cert \notin Fit    \* a mutation: an unrated member is unrated
RefusedItem(it) ==
    /\ kid
    /\ IF it.cert # None THEN it.cert \notin Fit
       ELSE workCertification(WorkOf(TheWorks, it.id)) \notin Fit
RefusedWork(w) == ~Shown(w)

-----------------------------------------------------------------------------
(* The rows that offer something to press. The work's own play action goes *)
(* to its representative, or for who has been here to the first member     *)
(* they have not finished.                                                 *)
Rows == ContinueList(WorksFor, pos)

Unfinished(w) ==
    {i \in Walked(w) : LET it == w.items[i] IN pos[it.id] = None \/ ~Finished(it, pos[it.id])}
PlayTarget(w) ==
    IF Placed(w, pos) # {} /\ Unfinished(w) # {}
    THEN w.items[CHOOSE i \in Unfinished(w) : \A j \in Unfinished(w) : i <= j]
    ELSE Representative(w)

Genres(w) ==
    IF Enriched(w) = {} THEN {} ELSE w.items[Foremost(Enriched(w))].genres
Alike(v, w) == v.key # w.key /\ Genres(v) \cap Genres(w) # {}
Tiled(w) == ~(w.kind = "album" /\ w.items[1].by # None)
Because ==
    {w \in WorksFor :
        /\ Placed(w, pos) = {} /\ Tiled(w)
        /\ \E v \in WorksFor : Placed(v, pos) # {} /\ Alike(v, w)}
SavedTiles == {w \in WorksFor : w.key \in saved}

-----------------------------------------------------------------------------
(* What the profile does. A play from wherever it is offered ends at a     *)
(* place, which is the newest.                                             *)
Now == Cardinality({id \in Files : pos[id] # None}) + 1
Moved(id, at) ==
    [f \in Files |->
        IF f = id THEN [at |-> at, when |-> Now]
        ELSE IF pos[f] # None /\ pos[id] # None /\ pos[f].when > pos[id].when
             THEN [pos[f] EXCEPT !.when = @ - 1] ELSE pos[f]]
Put(id, at) ==
    pos' = IF pos[id] = None THEN Moved(id, at)
           ELSE [Moved(id, at) EXCEPT ![id].when = Now - 1]

Cleared(ids) ==
    LET kept == {f \in Files \ ids : pos[f] # None}
    IN  [f \in Files |->
            IF f \notin kept THEN None
            ELSE [pos[f] EXCEPT !.when =
                    Cardinality({g \in kept : pos[g].when <= pos[f].when})]]

Play(id, at) ==
    /\ Happens /\ id \in here /\ ~RefusedItem(Item(id))
    /\ Put(id, at)
    /\ UNCHANGED <<libraryVars, kid, saved>>

PlayWork(key, at) ==
    LET w == ByKey(TheWorks, key)
    IN  /\ Happens /\ w # None /\ ~RefusedWork(w)
        /\ ~RefusedItem(PlayTarget(w))
        /\ Put(PlayTarget(w).id, at)
        /\ UNCHANGED <<libraryVars, kid, saved>>

(* The row's one thing to press, and the film runs to its end.             *)
Resume(row) ==
    /\ ~RefusedItem(row.item)
    /\ Put(row.item.id, Length)
    /\ UNCHANGED <<libraryVars, kid, saved, events>>

MarkWatched(id, watched) ==
    /\ Happens /\ id \in here /\ ~RefusedItem(Item(id))
    /\ IF watched THEN Put(id, Length) ELSE pos' = Cleared({id})
    /\ UNCHANGED <<libraryVars, kid, saved>>

(* handleForgetProgress: every member of the row's work.                   *)
Forgettable_Row(id) == {id}     \* a mutation: the file the row names
Forgettable(id) == {it.id : it \in ToSet(WorkOf(TheWorks, id).items)}
Forget(row) ==
    /\ Happens
    /\ pos' = Cleared(Forgettable(row.item.id))
    /\ UNCHANGED <<libraryVars, kid, saved>>

Save_ItsFile(key) ==    \* a mutation: the list is one of files
    /\ Happens
    /\ saved' = saved \cup {<<"file", Representative(ByKey(TheWorks, key)).id>>}
    /\ UNCHANGED <<libraryVars, kid, pos>>

Save(key) ==
    /\ Happens
    /\ ByKey(TheWorks, key) # None /\ ~RefusedWork(ByKey(TheWorks, key))
    /\ saved' = saved \cup {key}
    /\ UNCHANGED <<libraryVars, kid, pos>>

Unsave(key) ==
    /\ Happens
    /\ saved' = saved \ {key}
    /\ UNCHANGED <<libraryVars, kid, pos>>

-----------------------------------------------------------------------------
(* A place outlives its file.                                              *)
Arrives(id) ==
    /\ Happens /\ id \in Late \ here /\ pos[id] = None
    /\ here' = here \cup {id}
    /\ UNCHANGED <<enriched, kid, pos, saved>>

Goes(id) ==
    /\ Happens /\ id \in here
    /\ here' = here \ {id} /\ enriched' = enriched \ {id}
    /\ UNCHANGED <<kid, pos, saved>>

Enrich(id) ==
    /\ Happens /\ id \in here \ enriched /\ File[id].tmdb # None
    /\ enriched' = enriched \cup {id}
    /\ UNCHANGED <<here, kid, pos, saved>>

Keys == {TheWorks[i].key : i \in DOMAIN TheWorks}

Next ==
    \/ \E id \in Files, at \in Places : Play(id, at)
    \/ \E key \in Keys, at \in Places : PlayWork(key, at)
    \/ \E row \in Rows : Resume(row) \/ Forget(row)
    \/ \E id \in Files, watched \in BOOLEAN : MarkWatched(id, watched)
    \/ \E key \in Keys : Save(key)
    \/ \E key \in saved : Unsave(key)
    \/ \E id \in Files : Arrives(id) \/ Goes(id) \/ Enrich(id)

Spec == Init /\ [][Next]_vars

(* Somebody who goes on watching what the shelf offers: weak fairness of   *)
(* Resume, with ENABLED written out, which TLC is slow to find.            *)
ResumeEnabled ==
    \E row \in Rows :
        /\ ~RefusedItem(row.item)
        /\ pos[row.item.id] # [at |-> Length, when |-> Now - 1]
FairSpec ==
    Spec /\ ([]<>~ResumeEnabled \/ []<><<\E row \in Rows : Resume(row)>>_vars)
-----------------------------------------------------------------------------
KeysThereMayBe ==
    UNION {{<<"tmdb", File[id].tmdb>>, SlugKey([kind |-> "show", items |-> <<File[id]>>])} \cup
           {SlugKey([kind |-> Home({File[f] : f \in Files}, File[id])[1], items |-> <<File[id]>>])}
           : id \in Files}

TypeOK ==
    /\ here \subseteq Files /\ enriched \subseteq here
    /\ kid \in BOOLEAN /\ events \in 0 .. MaxEvents
    /\ pos \in [Files -> [at : 0 .. Length, when : 1 .. Cardinality(Files)] \cup {None}]
    /\ saved \subseteq KeysThereMayBe

(* Build puts every file into one work, in one place, and no two works    *)
(* share a key (works.go, Build and dedupeKeys).                           *)
Holds(w, id) == \E it \in ToSet(w.items) : it.id = id
Shelved ==
    LET works == TheWorks
    IN  /\ works \in Seq([kind : STRING, items : Seq({Item(id) : id \in here}) \ {<<>>},
                         key : KeysThereMayBe, claim : KeysThereMayBe])
        /\ \A i \in DOMAIN works : \A k, l \in DOMAIN works[i].items :
              works[i].items[k].id = works[i].items[l].id => k = l
        /\ \A id \in here : \E i \in DOMAIN works : \A j \in DOMAIN works :
              Holds(works[j], id) <=> i = j
        /\ \A i, j \in DOMAIN works : works[i].key = works[j].key => i = j

(* From its first member a work is walked through to the last and back,    *)
(* bonus material aside (progress.go, Neighbours).                         *)
WalkedThrough(w) ==
    LET walk == {it \in ToSet(w.items) : ~IsExtra(it)}
    IN  /\ \A it \in walk : LET next == Following(w, it.id)
                            IN  next # None => next \in walk /\ Preceding(w, next.id) = it
        /\ walk # {} => Cardinality({it \in walk : Following(w, it.id) = None}) = 1

(* Every file is in one work, no work takes another's place, and whoever   *)
(* presses next comes by all of a work's members (works.go, progress.go).  *)
EveryFileIsWalkedPast == Shelved /\ \A i \in DOMAIN TheWorks : WalkedThrough(TheWorks[i])

(* What a shelf offers a child, opens: the rows to resume, the list, what  *)
(* is recommended and the grid are made by the work's certification, and   *)
(* the door asks for the file's (profiles.go, worksFor and refuseItem).    *)
WhatIsOfferedOpens ==
    /\ \A row \in Rows : ~RefusedItem(row.item)
    /\ \A w \in WorksFor \cup SavedTiles \cup Because :
          ~RefusedWork(w) /\ ~RefusedItem(PlayTarget(w))

(* The cross on a row takes the title off the shelf, and does not hand the *)
(* row on to the next episode (continue.go, handleForgetProgress).         *)
ForgottenTitleLeaves ==
    [][\A row \in Rows : Forget(row) => row.key \notin {r.key : r \in Rows'}]_vars

(* What a profile was at in a work it has begun was finished, or left as   *)
(* it was.                                                                 *)
WatchedOn(w, places, later) ==
    /\ Placed(w, places) \cap Walked(w) # {}
    /\ \A it \in ToSet(w.items) :
          \/ places[it.id] = None /\ later[it.id] = None
          \/ /\ places[it.id] # None /\ later[it.id] # None
             /\ places[it.id].at = later[it.id].at
          \/ /\ ~IsExtra(it) /\ later[it.id] # None /\ Finished(it, later[it.id])
             /\ places[it.id] # None => places[it.id].at < later[it.id].at
NotSetBack(before, after) == before.n * after.of <= after.n * before.of

(* To finish a member never takes a title back, whichever members were     *)
(* watched before it and in what order (progress.go, WorkProgress).        *)
FinishingNeverSetsBack ==
    [][\A i \in DOMAIN TheWorks :
          UNCHANGED libraryVars /\ WatchedOn(TheWorks[i], pos, pos')
          => NotSetBack(WorkProgress(TheWorks[i], pos), WorkProgress(TheWorks[i], pos'))]_vars

(* Whoever follows the shelf gets through it: every title that was begun   *)
(* is finished and leaves (progress.go, ContinueList).                     *)
SeenThrough == <>[](Rows = {})

(* What was put by is there as long as its files are (list.go).            *)
PutByIsThere ==
    [][\A key \in saved \cap saved' :
          ByKey(TheWorks, key) # None /\ here \subseteq here' => (ByKey(TheWorks, key) # None)']_vars

(* A title nobody has begun starts with its first member (hyper.go,        *)
(* workEnvelope).                                                          *)
(* The code does not keep it: README, section 6.                           *)
StartsAtTheTop ==
    \A i \in DOMAIN TheWorks :
        LET w == TheWorks[i]
        IN  Placed(w, pos) = {} => PlayTarget(w) = w.items[1]
=============================================================================
